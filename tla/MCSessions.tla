----------------------------- MODULE MCSessions -----------------------------
(***************************************************************************)
(* TLC instances of Sessions: the serve processes, the connections and the *)
(* session identifiers are model values given in the configurations.       *)
(***************************************************************************)
EXTENDS Sessions
=============================================================================
