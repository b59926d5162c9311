---------------------------- MODULE MCConnection ----------------------------
(***************************************************************************)
(* TLC instances of Connection: every client command, three rounds.        *)
(***************************************************************************)
EXTENDS Connection

AllCommands == {"auth", "connect", "exec", "close", "latency"}
JustConnect == {"connect"}
=============================================================================
