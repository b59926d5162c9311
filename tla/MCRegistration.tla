--------------------------- MODULE MCRegistration ---------------------------
(***************************************************************************)
(* The TLC instance of Registration: two data directories, an ordinary     *)
(* name, host, and two whose records share their keys with the lookups and *)
(* the wake list of host.                                                  *)
(***************************************************************************)
EXTENDS Registration, TLC

MCNames == {<<"fox">>, <<"host">>, <<"session", "fox">>, <<"wake">>}
MCRandomNames == {<<"fox">>}

Symmetry == Permutations(Dirs)
=============================================================================
