------------------------------ MODULE MCVault ------------------------------
(***************************************************************************)
(* The TLC instance of Vault.                                              *)
(***************************************************************************)
EXTENDS Vault
=============================================================================
