---------------------------- MODULE FrameStream ----------------------------
(***************************************************************************)
(* What one direction of a shex connection promises to the program above   *)
(* it, whatever Redis, the timers and the lease threads do: the receiver   *)
(* is handed the sender's frames one at a time, in order, each at most     *)
(* once; the sender runs at most one frame ahead; and once a frame is lost *)
(* nothing after it is ever handed over, so a loss can only end a          *)
(* connection and never leave a gap in it.                                 *)
(***************************************************************************)
EXTENDS Naturals

VARIABLES
  sent,       \* frames the sender has put into the mailbox
  received,   \* frames handed to the receiving program
  lost        \* the next frame to be received is gone

vars == <<sent, received, lost>>

Init ==
  /\ sent = 0
  /\ received = 0
  /\ lost = FALSE

(* A frame is sent when the receiver has had every earlier one, or when    *)
(* the stream is already broken.                                           *)
Send ==
  /\ lost \/ sent = received
  /\ sent' = sent + 1
  /\ UNCHANGED <<received, lost>>

Receive ==
  /\ ~lost
  /\ received < sent
  /\ received' = received + 1
  /\ UNCHANGED <<sent, lost>>

Lose ==
  /\ ~lost
  /\ received < sent
  /\ lost' = TRUE
  /\ UNCHANGED <<sent, received>>

Next == Send \/ Receive \/ Lose

Spec == Init /\ [][Next]_vars

=============================================================================
