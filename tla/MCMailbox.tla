----------------------------- MODULE MCMailbox -----------------------------
(***************************************************************************)
(* TLC instances of Mailbox.  One tick stands for five seconds: the lease  *)
(* interval of 20 s is 4 ticks, the time to live of 60 s is 12, and the    *)
(* timeout of 65 s is 13.                                                  *)
(***************************************************************************)
EXTENDS Mailbox
=============================================================================
