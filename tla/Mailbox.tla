------------------------------ MODULE Mailbox ------------------------------
(***************************************************************************)
(* One direction of a logged-in shex connection: SecureChannel::send on    *)
(* one side, SecureChannel::recv_unacknowledged and acknowledge on the     *)
(* other, and between them the two Redis keys of the direction (the        *)
(* message slot and its ready list), their expiry, and the lease thread    *)
(* that keeps the slot alive while the receiver works on the frame.        *)
(*                                                                         *)
(* A frame is identified by the nonce counter it is encrypted under, so    *)
(* decrypting it under the receiver's counter succeeds exactly when the    *)
(* two are equal.  Every Redis command or script is one step, as Redis     *)
(* runs it; between two of them everything else may happen.  Timers count  *)
(* down in Tick; a thread may be any number of ticks late to notice that   *)
(* its timer is over.  By the time the channel exists the login frames     *)
(* have been acknowledged and have used up wake_queue, so both keys start  *)
(* absent and send_frame's call of notify_host returns at once.            *)
(***************************************************************************)
EXTENDS Integers, Sequences

CONSTANTS
  MESSAGE_TTL,      \* ticks a stored frame and its ready token live
  MESSAGE_TIMEOUT,  \* ticks a send retries, and a bounded receive waits
  LEASE_INTERVAL,   \* ticks between two renewals of the frame being processed
  MAX_COUNTER       \* the largest nonce counter (u64::MAX in the code)

ASSUME TimingAssumption ==
  /\ MESSAGE_TTL \in Nat
  /\ MESSAGE_TIMEOUT \in Nat
  /\ LEASE_INTERVAL \in Nat \ {0}
  /\ LEASE_INTERVAL < MESSAGE_TTL
  /\ MESSAGE_TTL < MESSAGE_TIMEOUT

ASSUME CounterAssumption == MAX_COUNTER \in Nat

VARIABLES
  slot, slotTTL,    \* the message key: the frame stored in it, and its expiry
  ready, readyTTL,  \* the ready list: its length, and its expiry
  sndPhase,         \* where the sender is in SecureChannel::send
  sndCounter,       \* send_counter
  sndLeft,          \* ticks left before the deadline of send_frame
  rcvPhase,         \* where the receiver is in recv_unacknowledged .. acknowledge
  rcvCounter,       \* recv_counter
  rcvLeft,          \* ticks left in a blocking BLPOP
  rcvForever,       \* receive_timeout_seconds = 0
  pending,          \* the frame of PendingMessage
  lease,            \* the lease thread of the pending frame
  leaseLeft,        \* ticks left before its next renewal is due
  staleRenew,       \* frames with a RENEW in flight from a stopped lease thread
  stored,           \* history: how many frames have been stored
  delivered,        \* history: the frames that decrypted, in order
  pickupTTL,        \* history: slotTTL when the pending frame was read
  leaseOnTime       \* history: the lease thread has never been a tick late

mailboxVars == <<slot, slotTTL, ready, readyTTL>>
senderVars == <<sndPhase, sndCounter, sndLeft>>
receiverVars == <<rcvPhase, rcvCounter, rcvLeft, rcvForever, pending, delivered>>
leaseVars == <<lease, leaseLeft, staleRenew, pickupTTL, leaseOnTime>>
vars == <<mailboxVars, senderVars, receiverVars, leaseVars, stored>>

NoFrame == -1
Frame == 0 .. MAX_COUNTER

(* Mutant: the receiver takes any frame it has not seen before.            *)
AuthenticIfNew(f) == f >= rcvCounter

(* Decryption under the nonce of recv_counter.                             *)
Authentic(f) == f = rcvCounter

Init ==
  /\ slot = NoFrame /\ slotTTL = 0 /\ ready = 0 /\ readyTTL = 0
  /\ sndPhase = "idle" /\ sndCounter = 0 /\ sndLeft = 0
  /\ rcvPhase = "idle" /\ rcvCounter = 0 /\ rcvLeft = 0
  /\ rcvForever = FALSE /\ pending = NoFrame /\ delivered = <<>>
  /\ lease = "none" /\ leaseLeft = 0 /\ staleRenew = {}
  /\ pickupTTL = 0 /\ leaseOnTime = TRUE
  /\ stored = 0
-----------------------------------------------------------------------------
(* The sender.                                                             *)

BeginSend ==
  /\ sndPhase = "idle"
  /\ sndPhase' = "trying"
  /\ sndLeft' = MESSAGE_TIMEOUT
  /\ UNCHANGED <<mailboxVars, sndCounter, receiverVars, leaseVars, stored>>

(* Mutant: SEND_SCRIPT gives the ready list no expiry.                     *)
PushReadyWithoutExpiry ==
  \/ /\ rcvPhase = "blocked"
     /\ rcvPhase' = "signalled"
     /\ rcvLeft' = 0
     /\ UNCHANGED <<ready, readyTTL>>
  \/ /\ rcvPhase # "blocked"
     /\ ready' = ready + 1
     /\ UNCHANGED <<readyTTL, rcvPhase, rcvLeft>>

(* RPUSH of the token.  A receiver blocked in BLPOP is handed the token as *)
(* soon as the script ends, which empties the list again.                  *)
PushReady ==
  \/ /\ rcvPhase = "blocked"
     /\ rcvPhase' = "signalled"
     /\ rcvLeft' = 0
     /\ UNCHANGED <<ready, readyTTL>>
  \/ /\ rcvPhase # "blocked"
     /\ ready' = ready + 1
     /\ readyTTL' = MESSAGE_TTL
     /\ UNCHANGED <<rcvPhase, rcvLeft>>

(* Mutant: SEND_SCRIPT sets the slot without NX.                           *)
SendScriptWithoutNX ==
  /\ slot' = sndCounter
  /\ slotTTL' = MESSAGE_TTL
  /\ stored' = stored + 1
  /\ PushReady

SendScript ==
  /\ slot = NoFrame
  /\ slot' = sndCounter
  /\ slotTTL' = MESSAGE_TTL
  /\ stored' = stored + 1
  /\ PushReady

(* checked_add fails at the largest counter, after the frame is stored.    *)
AdvanceSend ==
  \/ /\ sndCounter < MAX_COUNTER
     /\ sndCounter' = sndCounter + 1
     /\ sndPhase' = "idle"
  \/ /\ sndCounter = MAX_COUNTER
     /\ sndPhase' = "ended"
     /\ UNCHANGED sndCounter

StoreFrame ==
  /\ sndPhase = "trying"
  /\ SendScript
  /\ AdvanceSend
  /\ sndLeft' = 0
  /\ UNCHANGED <<rcvCounter, rcvForever, pending, delivered, leaseVars>>

(* Mutant: send_frame tries again after an error of the connection.        *)
StoreRetriedAfterError ==
  /\ sndPhase = "trying"
  /\ SendScript
  /\ UNCHANGED <<senderVars, rcvCounter, rcvForever, pending, delivered, leaseVars>>

(* The script ran but its reply did not arrive: send fails, and every      *)
(* caller gives the connection up.                                         *)
StoreReplyLost ==
  /\ sndPhase = "trying"
  /\ SendScript
  /\ sndPhase' = "ended"
  /\ sndLeft' = 0
  /\ UNCHANGED <<sndCounter, rcvCounter, rcvForever, pending, delivered, leaseVars>>

(* Mutant: send_frame has no deadline.                                     *)
SendNeverTimesOut ==
  /\ sndPhase = "trying"
  /\ slot # NoFrame
  /\ UNCHANGED vars

SendTimesOut ==
  /\ sndPhase = "trying"
  /\ slot # NoFrame
  /\ sndLeft = 0
  /\ sndPhase' = "ended"
  /\ UNCHANGED <<mailboxVars, sndCounter, sndLeft, receiverVars, leaseVars, stored>>

(* The sender's program ends or crashes, loses Redis, or refuses a frame   *)
(* of more than 16 MiB.                                                    *)
SenderEnds ==
  /\ sndPhase \in {"idle", "trying"}
  /\ sndPhase' = "ended"
  /\ sndLeft' = 0
  /\ UNCHANGED <<mailboxVars, sndCounter, receiverVars, leaseVars, stored>>
-----------------------------------------------------------------------------
(* The receiver.                                                           *)

WaitIndefinitely ==
  /\ rcvPhase = "idle"
  /\ ~rcvForever
  /\ rcvForever' = TRUE
  /\ UNCHANGED <<mailboxVars, senderVars, rcvPhase, rcvCounter, rcvLeft,
                 pending, delivered, leaseVars, stored>>

(* BLPOP of the ready list: takes a token, or blocks.                      *)
BeginRecv ==
  /\ rcvPhase = "idle"
  /\ \/ /\ ready > 0
        /\ ready' = ready - 1
        /\ readyTTL' = IF ready = 1 THEN 0 ELSE readyTTL
        /\ rcvPhase' = "signalled"
        /\ UNCHANGED rcvLeft
     \/ /\ ready = 0
        /\ rcvPhase' = "blocked"
        /\ rcvLeft' = IF rcvForever THEN 0 ELSE MESSAGE_TIMEOUT
        /\ UNCHANGED <<ready, readyTTL>>
  /\ UNCHANGED <<slot, slotTTL, senderVars, rcvCounter, rcvForever, pending,
                 delivered, leaseVars, stored>>

(* Mutant: every BLPOP is sent with the timeout 0.                         *)
RecvNeverTimesOut ==
  /\ rcvPhase = "blocked"
  /\ UNCHANGED vars

RecvTimesOut ==
  /\ rcvPhase = "blocked"
  /\ ~rcvForever
  /\ rcvLeft = 0
  /\ rcvPhase' = "ended"
  /\ UNCHANGED <<mailboxVars, senderVars, rcvCounter, rcvLeft, rcvForever,
                 pending, delivered, leaseVars, stored>>

(* GET of the slot.  A frame that decrypts is handed to the program, with  *)
(* a lease thread of its own; an absent frame, or one that does not        *)
(* decrypt, is an error that ends the connection.                          *)
GetFrame ==
  /\ rcvPhase = "signalled"
  /\ \/ /\ slot # NoFrame
        /\ Authentic(slot)
        /\ rcvPhase' = "holding"
        /\ pending' = slot
        /\ delivered' = Append(delivered, slot)
        /\ lease' = "waiting"
        /\ leaseLeft' = LEASE_INTERVAL
        /\ pickupTTL' = slotTTL
        /\ leaseOnTime' = TRUE
     \/ /\ slot = NoFrame \/ ~Authentic(slot)
        /\ rcvPhase' = "ended"
        /\ UNCHANGED <<pending, delivered, lease, leaseLeft, pickupTTL, leaseOnTime>>
  /\ UNCHANGED <<mailboxVars, senderVars, rcvCounter, rcvLeft, rcvForever,
                 staleRenew, stored>>

(* The lease thread is told to stop, or finds its channel disconnected.  A *)
(* RENEW it has already sent may still reach Redis.                        *)
StopLease ==
  /\ lease' = "none"
  /\ leaseLeft' = 0
  /\ staleRenew' = IF lease = "renewing" THEN staleRenew \cup {pending} ELSE staleRenew
  /\ UNCHANGED <<pickupTTL, leaseOnTime>>

BeginAck ==
  /\ rcvPhase = "holding"
  /\ rcvPhase' = "acking"
  /\ StopLease
  /\ UNCHANGED <<mailboxVars, senderVars, rcvCounter, rcvLeft, rcvForever,
                 pending, delivered, stored>>

(* Mutant: ACK_SCRIPT deletes whatever the slot holds.                     *)
AckScriptWithoutCompare ==
  /\ slot' = NoFrame
  /\ slotTTL' = 0

(* ACK_SCRIPT: delete the slot if it still holds the pending frame.        *)
AckScript ==
  \/ /\ slot = pending
     /\ slot' = NoFrame
     /\ slotTTL' = 0
  \/ /\ slot # pending
     /\ UNCHANGED <<slot, slotTTL>>

AckFrame ==
  /\ rcvPhase = "acking"
  /\ AckScript
  /\ pending' = NoFrame
  /\ IF slot = pending /\ rcvCounter < MAX_COUNTER
     THEN rcvPhase' = "idle" /\ rcvCounter' = rcvCounter + 1
     ELSE rcvPhase' = "ended" /\ UNCHANGED rcvCounter
  /\ UNCHANGED <<ready, readyTTL, senderVars, rcvLeft, rcvForever, delivered,
                 leaseVars, stored>>

AckReplyLost ==
  /\ rcvPhase = "acking"
  /\ AckScript
  /\ pending' = NoFrame
  /\ rcvPhase' = "ended"
  /\ UNCHANGED <<ready, readyTTL, senderVars, rcvCounter, rcvLeft, rcvForever,
                 delivered, leaseVars, stored>>

(* The receiver's program ends or crashes, or loses Redis.                 *)
ReceiverEnds ==
  /\ rcvPhase # "ended"
  /\ rcvPhase' = "ended"
  /\ rcvLeft' = 0
  /\ pending' = NoFrame
  /\ StopLease
  /\ UNCHANGED <<mailboxVars, senderVars, rcvCounter, rcvForever, delivered, stored>>
-----------------------------------------------------------------------------
(* The lease thread.                                                       *)

(* It cannot connect to Redis, or a RENEW fails: it returns, and nobody is *)
(* told.                                                                   *)
LeaseDies ==
  /\ lease # "none"
  /\ lease' = "none"
  /\ leaseLeft' = 0
  /\ UNCHANGED <<mailboxVars, senderVars, receiverVars, staleRenew, pickupTTL,
                 leaseOnTime, stored>>

LeaseDue ==
  /\ lease = "waiting"
  /\ leaseLeft = 0
  /\ lease' = "renewing"
  /\ UNCHANGED <<mailboxVars, senderVars, receiverVars, leaseLeft, staleRenew,
                 pickupTTL, leaseOnTime, stored>>

(* Mutant: RENEW_SCRIPT extends whatever the slot holds.                   *)
RenewScriptWithoutCompare(f) ==
  /\ slotTTL' = IF slot # NoFrame THEN MESSAGE_TTL ELSE slotTTL
  /\ UNCHANGED <<slot, ready, readyTTL>>

(* Mutant: RENEW_SCRIPT extends the slot by one lease interval only.       *)
RenewScriptTooShort(f) ==
  /\ slotTTL' = IF slot = f THEN LEASE_INTERVAL ELSE slotTTL
  /\ UNCHANGED <<slot, ready, readyTTL>>

(* RENEW_SCRIPT for frame f: push the expiry back if the slot still holds  *)
(* it.                                                                     *)
RenewScript(f) ==
  /\ slotTTL' = IF slot = f THEN MESSAGE_TTL ELSE slotTTL
  /\ UNCHANGED <<slot, ready, readyTTL>>

Renew ==
  /\ lease = "renewing"
  /\ RenewScript(pending)
  /\ IF slot = pending
     THEN lease' = "waiting" /\ leaseLeft' = LEASE_INTERVAL
     ELSE lease' = "none" /\ leaseLeft' = 0
  /\ UNCHANGED <<senderVars, receiverVars, staleRenew, pickupTTL, leaseOnTime, stored>>

StaleRenew(f) ==
  /\ RenewScript(f)
  /\ staleRenew' = staleRenew \ {f}
  /\ UNCHANGED <<senderVars, receiverVars, lease, leaseLeft, pickupTTL,
                 leaseOnTime, stored>>
-----------------------------------------------------------------------------
(* Time.                                                                   *)

Dec(n) == IF n = 0 THEN 0 ELSE n - 1

TimerRuns == slotTTL + readyTTL + sndLeft + rcvLeft + leaseLeft > 0 \/ lease # "none"

Tick ==
  /\ TimerRuns
  /\ slot' = IF slotTTL = 1 THEN NoFrame ELSE slot
  /\ slotTTL' = Dec(slotTTL)
  /\ ready' = IF readyTTL = 1 THEN 0 ELSE ready
  /\ readyTTL' = Dec(readyTTL)
  /\ sndLeft' = Dec(sndLeft)
  /\ rcvLeft' = Dec(rcvLeft)
  /\ leaseLeft' = Dec(leaseLeft)
  /\ leaseOnTime' = (leaseOnTime /\ (lease = "none" \/ leaseLeft > 0))
  /\ UNCHANGED <<sndPhase, sndCounter, rcvPhase, rcvCounter, rcvForever,
                 pending, delivered, lease, staleRenew, pickupTTL, stored>>
-----------------------------------------------------------------------------
Next ==
  \/ BeginSend \/ StoreFrame \/ StoreReplyLost \/ SendTimesOut \/ SenderEnds
  \/ WaitIndefinitely \/ BeginRecv \/ RecvTimesOut \/ GetFrame
  \/ BeginAck \/ AckFrame \/ AckReplyLost \/ ReceiverEnds
  \/ LeaseDies \/ LeaseDue \/ Renew
  \/ \E f \in staleRenew : StaleRenew(f)
  \/ Tick

(* Time passes, and a thread inside a call into Redis gets its answer.     *)
(* Nothing obliges a program to send, to receive or to acknowledge.        *)
Fairness ==
  /\ WF_vars(Tick)
  /\ WF_vars(StoreFrame \/ SendTimesOut)
  /\ WF_vars(RecvTimesOut \/ GetFrame)
  /\ WF_vars(AckFrame)

Spec == Init /\ [][Next]_vars
FairSpec == Spec /\ Fairness
-----------------------------------------------------------------------------
(* Properties.                                                             *)

(* Every variable stays within its range; in particular the ready list     *)
(* never holds a second token (SEND_SCRIPT, redis_transport.rs:15-22).     *)
TypeOK ==
  /\ slot \in Frame \cup {NoFrame}
  /\ slotTTL \in 0 .. MESSAGE_TTL
  /\ ready \in {0, 1}
  /\ readyTTL \in 0 .. MESSAGE_TTL
  /\ sndPhase \in {"idle", "trying", "ended"}
  /\ sndCounter \in Frame
  /\ sndLeft \in 0 .. MESSAGE_TIMEOUT
  /\ rcvPhase \in {"idle", "blocked", "signalled", "holding", "acking", "ended"}
  /\ rcvCounter \in Frame
  /\ rcvLeft \in 0 .. MESSAGE_TIMEOUT
  /\ rcvForever \in BOOLEAN
  /\ pending \in Frame \cup {NoFrame}
  /\ lease \in {"none", "waiting", "renewing"}
  /\ leaseLeft \in 0 .. LEASE_INTERVAL
  /\ staleRenew \subseteq Frame
  /\ stored \in 0 .. MAX_COUNTER + 1
  /\ delivered \in Seq(Frame)
  /\ pickupTTL \in 0 .. MESSAGE_TTL
  /\ leaseOnTime \in BOOLEAN

(* The receiving program sees the frames 0, 1, 2, ... in order, none twice *)
(* and none skipped, although a frame may expire unread, be overwritten by *)
(* its successor, or be announced by a token of another frame              *)
(* (channel.rs:98-121).                                                    *)
DeliveredInOrder == \A i \in DOMAIN delivered : delivered[i] = i - 1

(* A token never outlives its frame: whoever pops one without the slot     *)
(* having changed since finds a frame there.  SEND_SCRIPT gives both keys  *)
(* one expiry, RENEW_SCRIPT extends the slot alone                         *)
(* (redis_transport.rs:15-34).                                             *)
TokenHasFrame == ready = 1 => slot # NoFrame /\ readyTTL <= slotTTL

(* No lost wakeup: the receiver never sleeps in BLPOP while a frame is in  *)
(* its slot.  This needs the RENEW of an old frame's lease thread to leave *)
(* a newer frame alone, or the slot would outlive its token                *)
(* (redis_transport.rs:200-205, 245-272).                                  *)
NoLostWakeup == rcvPhase = "blocked" => slot = NoFrame

(* No nonce encrypts two frames: while a send is under way the counter it  *)
(* uses is the number of frames already stored, also after errors and at   *)
(* the largest counter (channel.rs:71-90).                                 *)
NonceNeverReused == sndPhase = "trying" => sndCounter = stored

(* Only expiry takes an undelivered frame out of the mailbox: an           *)
(* acknowledgement that comes late, after its frame expired and the next   *)
(* one was stored, must not delete that next one                           *)
(* (redis_transport.rs:23-28, 221-238).                                    *)
AckSparesTheNextFrame ==
  [][slot' # slot /\ rcvPhase = "acking" /\ rcvPhase' # "acking"
       => slot < Len(delivered)]_vars

(* As long as its lease thread lives and wakes in time, a frame picked up  *)
(* with more than one lease interval left does not expire while it is      *)
(* being processed, however long that takes (redis_transport.rs:245-272).  *)
LeaseHolds ==
  /\ rcvPhase = "holding"
  /\ lease # "none"
  /\ leaseOnTime
  /\ pickupTTL > LEASE_INTERVAL
  => slot = pending

(* What README.md:236-237 says of the lease, without a condition on how    *)
(* long the frame had waited: "While a receiver is processing one, an      *)
(* authenticated lease refresh prevents long-running commands from         *)
(* expiring."                                                              *)
LeasePreventsExpiry ==
  rcvPhase = "holding" /\ lease # "none" /\ leaseOnTime => slot = pending

(* A send returns: the frame is stored, or the deadline ends it            *)
(* (redis_transport.rs:174-193).                                           *)
SendReturns == sndPhase = "trying" ~> sndPhase # "trying"

(* A receive with a timeout returns, with a frame or with an error; a      *)
(* sender that dies, or a frame that expires between the token and the     *)
(* GET, cannot leave the receiver waiting (redis_transport.rs:196-219).    *)
RecvReturns ==
  rcvPhase \in {"blocked", "signalled"} /\ ~rcvForever
    ~> rcvPhase \in {"holding", "ended"}

(* The next frame of the stream is gone: it was stored, was not delivered, *)
(* and is no longer in the slot.                                           *)
LostFrame == stored > Len(delivered) /\ slot # Len(delivered)

Stream == INSTANCE FrameStream
  WITH sent <- stored, received <- Len(delivered), lost <- LostFrame

(* The mailbox implements the abstract stream: one frame ahead at most,    *)
(* and no frame after a lost one (redis_transport.rs:170-238,              *)
(* channel.rs:71-121).                                                     *)
ImplementsStream == Stream!Spec
=============================================================================
