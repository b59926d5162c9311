--------------------------- MODULE Mailbox_proofs ---------------------------
(***************************************************************************)
(* Theorems about Mailbox, for every value of its constants.               *)
(***************************************************************************)
EXTENDS Mailbox, TLAPS

(* The slot holds the last frame stored, or nothing once it has expired or *)
(* been deleted; a running send uses the next counter.                     *)
SlotInv ==
  /\ slot # NoFrame => slot = stored - 1
  /\ slot = NoFrame <=> slotTTL = 0
  /\ sndPhase # "ended" => sndCounter = stored

(* What has been delivered, against recv_counter and the pending frame.    *)
ReceiverInv ==
  /\ DeliveredInOrder
  /\ Len(delivered) <= stored
  /\ rcvPhase \in {"idle", "blocked", "signalled"} =>
       /\ Len(delivered) = rcvCounter
       /\ slot # NoFrame => slot >= rcvCounter
  /\ rcvPhase \in {"holding", "acking"} =>
       /\ Len(delivered) = rcvCounter + 1
       /\ pending = rcvCounter

(* The token announces a frame that has not been announced before.         *)
TokenInv ==
  /\ ready = 0 <=> readyTTL = 0
  /\ TokenHasFrame
  /\ rcvPhase \in {"idle", "blocked"} /\ slot # NoFrame =>
       /\ ready = 1
       /\ readyTTL = slotTTL
  /\ rcvPhase = "blocked" => ready = 0
  /\ rcvPhase = "signalled" =>
       /\ stored > rcvCounter
       /\ slot = rcvCounter => ready = 0
  /\ rcvPhase \in {"holding", "acking"} /\ slot = pending => ready = 0

(* A punctual lease thread of a frame picked up early enough is always     *)
(* ahead of the expiry; a RENEW in flight is for a delivered frame.        *)
LeaseInv ==
  /\ \A f \in staleRenew : f < Len(delivered)
  /\ lease # "none" => rcvPhase = "holding"
  /\ lease = "renewing" => leaseLeft = 0
  /\ lease # "none" /\ leaseOnTime /\ pickupTTL > LEASE_INTERVAL =>
       /\ slot = pending
       /\ lease = "waiting" => slotTTL > leaseLeft

IInv == TypeOK /\ SlotInv /\ ReceiverInv /\ TokenInv /\ LeaseInv
-----------------------------------------------------------------------------
(* What appending a frame does to the sequence of delivered ones.          *)
LEMMA AppendFacts ==
  ASSUME NEW S, NEW s \in Seq(S), NEW x \in S
  PROVE  /\ Append(s, x) \in Seq(S)
         /\ Len(Append(s, x)) = Len(s) + 1
         /\ DOMAIN Append(s, x) = 1 .. Len(s) + 1
         /\ \A i \in 1 .. Len(s) : Append(s, x)[i] = s[i]
         /\ Append(s, x)[Len(s) + 1] = x
         /\ DOMAIN s = 1 .. Len(s)
         /\ Len(s) \in Nat
  OBVIOUS

LEMMA InitInv == Init => IInv
<1> SUFFICES ASSUME Init PROVE IInv
  OBVIOUS
<1> USE TimingAssumption, CounterAssumption DEF Init, NoFrame, Frame
<1>1. delivered = <<>> /\ Len(delivered) = 0 /\ DOMAIN delivered = {}
  OBVIOUS
<1>2. delivered \in Seq(Frame)
  BY <1>1
<1>3. TypeOK
  <2>1. slot = NoFrame /\ pending = NoFrame /\ staleRenew \subseteq Frame
    OBVIOUS
  <2>2. rcvForever \in BOOLEAN /\ leaseOnTime \in BOOLEAN
    OBVIOUS
  <2> QED
    BY <1>2, <2>1, <2>2 DEF TypeOK
<1>4. SlotInv /\ ReceiverInv /\ TokenInv /\ LeaseInv
  BY <1>1 DEF SlotInv, ReceiverInv, TokenInv, LeaseInv, DeliveredInOrder, TokenHasFrame
<1> QED
  BY <1>3, <1>4 DEF IInv

(* Every step keeps the invariant: one case per action.                    *)
LEMMA StepInv == IInv /\ [Next]_vars => IInv'
<1> SUFFICES ASSUME IInv, [Next]_vars PROVE IInv'
  OBVIOUS
<1> USE TimingAssumption, CounterAssumption
    DEF NoFrame, Frame, mailboxVars, senderVars, receiverVars, leaseVars,
        IInv, TypeOK, SlotInv, ReceiverInv, TokenInv, LeaseInv,
        DeliveredInOrder, TokenHasFrame
<1>1. CASE BeginSend
  BY <1>1 DEF BeginSend
<1>2. CASE StoreFrame
  <2>1. TypeOK'
    BY <1>2 DEF StoreFrame, SendScript, PushReady, AdvanceSend
  <2>2. SlotInv'
    BY <1>2 DEF StoreFrame, SendScript, PushReady, AdvanceSend
  <2>3. ReceiverInv'
    BY <1>2 DEF StoreFrame, SendScript, PushReady, AdvanceSend
  <2>4. TokenInv'
    BY <1>2 DEF StoreFrame, SendScript, PushReady, AdvanceSend
  <2>5. LeaseInv'
    BY <1>2 DEF StoreFrame, SendScript, PushReady, AdvanceSend
  <2> QED
    BY <2>1, <2>2, <2>3, <2>4, <2>5
<1>3. CASE StoreReplyLost
  <2>1. TypeOK'
    BY <1>3 DEF StoreReplyLost, SendScript, PushReady
  <2>2. SlotInv'
    BY <1>3 DEF StoreReplyLost, SendScript, PushReady
  <2>3. ReceiverInv'
    BY <1>3 DEF StoreReplyLost, SendScript, PushReady
  <2>4. TokenInv'
    BY <1>3 DEF StoreReplyLost, SendScript, PushReady
  <2>5. LeaseInv'
    BY <1>3 DEF StoreReplyLost, SendScript, PushReady
  <2> QED
    BY <2>1, <2>2, <2>3, <2>4, <2>5
<1>4. CASE SendTimesOut
  BY <1>4 DEF SendTimesOut
<1>5. CASE SenderEnds
  BY <1>5 DEF SenderEnds
<1>6. CASE WaitIndefinitely
  BY <1>6 DEF WaitIndefinitely
<1>7. CASE BeginRecv
  <2>1. TypeOK'
    BY <1>7 DEF BeginRecv
  <2>2. SlotInv'
    BY <1>7 DEF BeginRecv
  <2>3. ReceiverInv'
    BY <1>7 DEF BeginRecv
  <2>4. TokenInv'
    BY <1>7 DEF BeginRecv
  <2>5. LeaseInv'
    BY <1>7 DEF BeginRecv
  <2> QED
    BY <2>1, <2>2, <2>3, <2>4, <2>5
<1>8. CASE RecvTimesOut
  BY <1>8 DEF RecvTimesOut
<1>9. CASE GetFrame
  <2>1. CASE slot # NoFrame /\ Authentic(slot)
    <3>0. slot \in Frame /\ delivered \in Seq(Frame)
      BY <2>1
    <3>1. /\ rcvPhase = "signalled" /\ rcvPhase' = "holding"
          /\ pending' = slot /\ slot = rcvCounter /\ rcvCounter' = rcvCounter
          /\ delivered' = Append(delivered, slot)
          /\ lease' = "waiting" /\ leaseLeft' = LEASE_INTERVAL
          /\ pickupTTL' = slotTTL /\ leaseOnTime' = TRUE
          /\ UNCHANGED <<slot, slotTTL, ready, readyTTL, sndPhase, sndCounter,
                         sndLeft, rcvLeft, rcvForever, staleRenew, stored>>
      BY <1>9, <2>1 DEF GetFrame, Authentic
    <3>2. /\ delivered' \in Seq(Frame)
          /\ Len(delivered') = Len(delivered) + 1
          /\ DeliveredInOrder'
      BY <3>0, <3>1, AppendFacts
    <3>3. TypeOK'
      BY <3>0, <3>1, <3>2
    <3>4. SlotInv' /\ ReceiverInv' /\ TokenInv'
      BY <3>1, <3>2
    <3>5. LeaseInv'
      BY <3>1, <3>2
    <3> QED
      BY <3>3, <3>4, <3>5
  <2>2. CASE slot = NoFrame \/ ~Authentic(slot)
    BY <1>9, <2>2 DEF GetFrame
  <2> QED
    BY <2>1, <2>2
<1>10. CASE BeginAck
  <2>1. TypeOK'
    BY <1>10 DEF BeginAck, StopLease
  <2>2. SlotInv'
    BY <1>10 DEF BeginAck, StopLease
  <2>3. ReceiverInv'
    BY <1>10 DEF BeginAck, StopLease
  <2>4. TokenInv'
    BY <1>10 DEF BeginAck, StopLease
  <2>5. LeaseInv'
    BY <1>10 DEF BeginAck, StopLease
  <2> QED
    BY <2>1, <2>2, <2>3, <2>4, <2>5
<1>11. CASE AckFrame
  <2>1. TypeOK'
    <3>1. slot' \in Frame \cup {NoFrame} /\ slotTTL' \in 0 .. MESSAGE_TTL
      BY <1>11 DEF AckFrame, AckScript
    <3>2. rcvPhase' \in {"idle", "ended"} /\ rcvCounter' \in Frame /\ pending' = NoFrame
      BY <1>11 DEF AckFrame
    <3>3. UNCHANGED <<ready, readyTTL, senderVars, rcvLeft, rcvForever,
                      delivered, leaseVars, stored>>
      BY <1>11 DEF AckFrame
    <3> QED
      BY <3>1, <3>2, <3>3
  <2>2. SlotInv'
    BY <1>11 DEF AckFrame, AckScript
  <2>3. ReceiverInv'
    BY <1>11 DEF AckFrame, AckScript
  <2>4. TokenInv'
    BY <1>11 DEF AckFrame, AckScript
  <2>5. LeaseInv'
    BY <1>11 DEF AckFrame, AckScript
  <2> QED
    BY <2>1, <2>2, <2>3, <2>4, <2>5
<1>12. CASE AckReplyLost
  <2>1. TypeOK'
    BY <1>12 DEF AckReplyLost, AckScript
  <2>2. SlotInv'
    BY <1>12 DEF AckReplyLost, AckScript
  <2>3. ReceiverInv'
    BY <1>12 DEF AckReplyLost, AckScript
  <2>4. TokenInv'
    BY <1>12 DEF AckReplyLost, AckScript
  <2>5. LeaseInv'
    BY <1>12 DEF AckReplyLost, AckScript
  <2> QED
    BY <2>1, <2>2, <2>3, <2>4, <2>5
<1>13. CASE ReceiverEnds
  <2>1. TypeOK'
    BY <1>13 DEF ReceiverEnds, StopLease
  <2>2. SlotInv'
    BY <1>13 DEF ReceiverEnds, StopLease
  <2>3. ReceiverInv'
    BY <1>13 DEF ReceiverEnds, StopLease
  <2>4. TokenInv'
    BY <1>13 DEF ReceiverEnds, StopLease
  <2>5. LeaseInv'
    BY <1>13 DEF ReceiverEnds, StopLease
  <2> QED
    BY <2>1, <2>2, <2>3, <2>4, <2>5
<1>14. CASE LeaseDies
  BY <1>14 DEF LeaseDies
<1>15. CASE LeaseDue
  BY <1>15 DEF LeaseDue
<1>16. CASE Renew
  <2>1. TypeOK'
    BY <1>16 DEF Renew, RenewScript
  <2>2. SlotInv'
    BY <1>16 DEF Renew, RenewScript
  <2>3. ReceiverInv'
    BY <1>16 DEF Renew, RenewScript
  <2>4. TokenInv'
    BY <1>16 DEF Renew, RenewScript
  <2>5. LeaseInv'
    BY <1>16 DEF Renew, RenewScript
  <2> QED
    BY <2>1, <2>2, <2>3, <2>4, <2>5
<1>17. ASSUME NEW f \in staleRenew, StaleRenew(f) PROVE IInv'
  <2>1. TypeOK'
    BY <1>17 DEF StaleRenew, RenewScript
  <2>2. SlotInv'
    BY <1>17 DEF StaleRenew, RenewScript
  <2>3. ReceiverInv'
    BY <1>17 DEF StaleRenew, RenewScript
  <2>4. TokenInv'
    BY <1>17 DEF StaleRenew, RenewScript
  <2>5. LeaseInv'
    BY <1>17 DEF StaleRenew, RenewScript
  <2> QED
    BY <2>1, <2>2, <2>3, <2>4, <2>5
<1>18. CASE Tick
  <2>1. TypeOK'
    BY <1>18 DEF Tick, Dec
  <2>2. SlotInv'
    BY <1>18 DEF Tick, Dec
  <2>3. ReceiverInv'
    BY <1>18 DEF Tick, Dec
  <2>4. TokenInv'
    BY <1>18 DEF Tick, Dec
  <2>5. LeaseInv'
    <3>1. /\ UNCHANGED <<lease, staleRenew, delivered, rcvPhase, pending, pickupTTL>>
          /\ slot' = IF slotTTL = 1 THEN NoFrame ELSE slot
          /\ slotTTL' = Dec(slotTTL)
          /\ leaseLeft' = Dec(leaseLeft)
      BY <1>18 DEF Tick
    <3>2. leaseOnTime' => leaseOnTime /\ (lease = "none" \/ leaseLeft > 0)
      BY <1>18, Zenon DEF Tick
    <3>3. ASSUME lease # "none", leaseOnTime', pickupTTL > LEASE_INTERVAL
          PROVE  slot' = pending /\ (lease = "waiting" => slotTTL' > leaseLeft')
      <4>1. leaseOnTime /\ leaseLeft > 0
        BY <3>2, <3>3
      <4> QED
        BY <3>1, <3>3, <4>1 DEF Dec
    <3> QED
      BY <3>1, <3>3 DEF Dec
  <2> QED
    BY <2>1, <2>2, <2>3, <2>4, <2>5
<1>19. CASE UNCHANGED vars
  BY <1>19 DEF vars
<1> HIDE DEF IInv
<1> QED
  BY <1>1, <1>2, <1>3, <1>4, <1>5, <1>6, <1>7, <1>8, <1>9,
     <1>10, <1>11, <1>12, <1>13, <1>14, <1>15, <1>16, <1>17, <1>18, <1>19 DEF Next
-----------------------------------------------------------------------------
THEOREM Invariance == Spec => []IInv
<1>1. Init => IInv
  BY InitInv
<1>2. IInv /\ [Next]_vars => IInv'
  BY StepInv
<1> QED
  BY <1>1, <1>2, PTL DEF Spec

(* Type correctness: in particular SEND_SCRIPT never leaves two tokens in  *)
(* the ready list.                                                         *)
THEOREM TypeCorrect == Spec => []TypeOK
<1>1. IInv => TypeOK
  BY DEF IInv
<1> QED
  BY <1>1, Invariance, PTL

(* Frames reach the receiving program in order, without gap or repetition, *)
(* whatever expires, is overwritten or is renewed late.                    *)
THEOREM InOrder == Spec => []DeliveredInOrder
<1>1. IInv => DeliveredInOrder
  BY DEF IInv, ReceiverInv
<1> QED
  BY <1>1, Invariance, PTL

(* A ready token is never older than the frame it announces.               *)
THEOREM TokensAreFresh == Spec => []TokenHasFrame
<1>1. IInv => TokenHasFrame
  BY DEF IInv, TokenInv
<1> QED
  BY <1>1, Invariance, PTL

(* A receiver blocked in BLPOP has an empty slot.                          *)
THEOREM WakeupsArrive == Spec => []NoLostWakeup
<1>1. IInv => NoLostWakeup
  BY DEF IInv, TokenInv, NoLostWakeup
<1> QED
  BY <1>1, Invariance, PTL

(* A nonce counter encrypts at most one stored frame.                      *)
THEOREM NoncesAreUnique == Spec => []NonceNeverReused
<1>1. IInv => NonceNeverReused
  BY DEF IInv, SlotInv, NonceNeverReused
<1> QED
  BY <1>1, Invariance, PTL

(* A punctual lease thread keeps a frame alive that was picked up with     *)
(* more than one lease interval left.                                      *)
THEOREM LeaseIsEnough == Spec => []LeaseHolds
<1>1. IInv => LeaseHolds
  BY DEF IInv, LeaseInv, LeaseHolds
<1> QED
  BY <1>1, Invariance, PTL

(* Acknowledging removes the pending frame and no other.                   *)
THEOREM AckIsExact == Spec => AckSparesTheNextFrame
<1> DEFINE Spares == slot' # slot /\ rcvPhase = "acking" /\ rcvPhase' # "acking"
                       => slot < Len(delivered)
<1>1. IInv /\ [Next]_vars => [Spares]_vars
  <2> SUFFICES ASSUME IInv, Next, slot' # slot, rcvPhase = "acking", rcvPhase' # "acking"
               PROVE  slot < Len(delivered)
    BY DEF vars, mailboxVars
  <2>1. /\ pending = rcvCounter
        /\ Len(delivered) = rcvCounter + 1
        /\ rcvCounter \in Nat
    BY CounterAssumption DEF IInv, ReceiverInv, TypeOK, Frame
  <2>2. slot = pending
    <3>1. CASE AckFrame \/ AckReplyLost
      BY <3>1 DEF AckFrame, AckReplyLost, AckScript
    <3>2. ~(StoreFrame \/ StoreReplyLost \/ Tick)
      BY DEF StoreFrame, StoreReplyLost, SendScript, PushReady, Tick
    <3>3. CASE \E f \in staleRenew : StaleRenew(f)
      BY <3>3 DEF StaleRenew, RenewScript
    <3> QED
      BY <3>1, <3>2, <3>3
      DEF Next, BeginSend, SendTimesOut, SenderEnds, WaitIndefinitely, BeginRecv,
          RecvTimesOut, GetFrame, BeginAck, ReceiverEnds, LeaseDies, LeaseDue, Renew,
          RenewScript, mailboxVars
  <2> QED
    BY <2>1, <2>2
<1> QED
  BY <1>1, Invariance, PTL DEF Spec, AckSparesTheNextFrame
-----------------------------------------------------------------------------
(* The refinement.                                                         *)

LEMMA StreamInit == Init => Stream!Init
  BY DEF Init, Stream!Init, LostFrame, NoFrame

LEMMA SlotCases ==
  ASSUME IInv
  PROVE  /\ Len(delivered) \in Nat /\ stored \in Nat
         /\ Len(delivered) <= stored
         /\ slot # NoFrame => slot = stored - 1
  BY CounterAssumption DEF IInv, TypeOK, SlotInv, ReceiverInv, Frame, NoFrame

(* Every step of the mailbox is a step of the stream or leaves it alone.   *)
LEMMA StreamStep == IInv /\ [Next]_vars => [Stream!Next]_(Stream!vars)
<1> SUFFICES ASSUME IInv, [Next]_vars PROVE [Stream!Next]_(Stream!vars)
  OBVIOUS
<1>b. /\ Len(delivered) \in Nat /\ stored \in Nat
      /\ Len(delivered) <= stored
      /\ slot # NoFrame => slot = stored - 1
      /\ slot \in Int
  BY SlotCases, CounterAssumption DEF IInv, TypeOK, Frame, NoFrame
<1>a. TypeOK /\ SlotInv /\ ReceiverInv /\ TokenInv
  BY DEF IInv
<1>1. ASSUME sndPhase = "trying", SendScript, delivered' = delivered
      PROVE  Stream!Send
  <2>1. slot = NoFrame /\ slot' = stored /\ stored' = stored + 1
    BY <1>1, <1>a DEF SendScript, SlotInv
  <2>2. LostFrame \/ stored = Len(delivered)
    BY <1>b, <2>1 DEF LostFrame, NoFrame
  <2>3. LostFrame' = LostFrame
    BY <1>1, <1>b, <2>1 DEF LostFrame, NoFrame
  <2> QED
    BY <1>1, <2>1, <2>2, <2>3 DEF Stream!Send
<1>2. ASSUME UNCHANGED <<stored, delivered, slot>>
      PROVE  UNCHANGED Stream!vars
  BY <1>2 DEF Stream!vars, LostFrame
<1>3. CASE StoreFrame \/ StoreReplyLost
  BY <1>1, <1>3 DEF StoreFrame, StoreReplyLost, Stream!Next
<1>4. CASE GetFrame
  <2>1. CASE slot # NoFrame /\ Authentic(slot)
    <3>1. slot = Len(delivered) /\ slot = stored - 1 /\ delivered \in Seq(Frame) /\ slot \in Frame
      BY <1>4, <1>a, <1>b, <2>1 DEF GetFrame, Authentic, ReceiverInv, TypeOK, NoFrame
    <3>2. delivered' = Append(delivered, slot) /\ UNCHANGED <<stored, slot>>
      BY <1>4, <2>1 DEF GetFrame, mailboxVars
    <3>3. Len(delivered') = Len(delivered) + 1
      <4>1. delivered \in Seq(Frame) /\ slot \in Frame
        BY <3>1
      <4>2. Len(Append(delivered, slot)) = Len(delivered) + 1
        BY <4>1, AppendFacts
      <4> QED
        BY <3>2, <4>2
    <3>4. ~LostFrame /\ ~LostFrame'
      BY <1>b, <3>1, <3>2, <3>3 DEF LostFrame
    <3>5. LostFrame' = LostFrame
      BY <3>4 DEF LostFrame
    <3> QED
      BY <1>b, <3>1, <3>2, <3>3, <3>4, <3>5 DEF Stream!Next, Stream!Receive
  <2>2. CASE slot = NoFrame \/ ~Authentic(slot)
    BY <1>2, <1>4, <2>2 DEF GetFrame, mailboxVars
  <2> QED
    BY <2>1, <2>2
<1>5. CASE AckFrame \/ AckReplyLost
  <2>1. UNCHANGED <<stored, delivered>> /\ (slot' = slot \/ slot = pending)
    BY <1>5 DEF AckFrame, AckReplyLost, AckScript
  <2>2. CASE slot = pending
    <3>0. rcvPhase = "acking" /\ rcvCounter \in Nat
      BY <1>5, <1>a DEF AckFrame, AckReplyLost, TypeOK, Frame
    <3>a. Len(delivered) = rcvCounter + 1 /\ pending = rcvCounter
      BY <1>a, <3>0 DEF ReceiverInv
    <3>b. slot = stored - 1
      BY <1>a, <2>2, <3>0, <3>a DEF SlotInv, NoFrame
    <3>1. pending = Len(delivered) - 1 /\ slot = stored - 1
      BY <1>b, <3>0, <3>a, <3>b
    <3>2. ~LostFrame /\ ~LostFrame'
      BY <1>b, <2>1, <2>2, <3>1 DEF LostFrame
    <3>3. LostFrame' = LostFrame
      BY <3>2 DEF LostFrame
    <3> QED
      BY <2>1, <3>3 DEF Stream!vars
  <2> QED
    BY <1>2, <2>1, <2>2
<1>6. CASE Tick
  <2>1. UNCHANGED <<stored, delivered>> /\ (slot' = slot \/ slot' = NoFrame)
    BY <1>6 DEF Tick
  <2>2. CASE slot' = NoFrame /\ slot # NoFrame
    <3>1. CASE slot = Len(delivered)
      BY <1>b, <2>1, <2>2, <3>1 DEF Stream!Next, Stream!Lose, LostFrame, NoFrame
    <3>2. CASE slot # Len(delivered)
      BY <1>b, <2>1, <2>2, <3>2 DEF Stream!vars, LostFrame, NoFrame
    <3> QED
      BY <3>1, <3>2
  <2> QED
    BY <1>2, <2>1, <2>2
<1>7. CASE \E f \in staleRenew : StaleRenew(f)
  BY <1>2, <1>7 DEF StaleRenew, RenewScript, receiverVars
<1>8. CASE UNCHANGED vars
  BY <1>2, <1>8 DEF vars, mailboxVars, receiverVars
<1> QED
  BY <1>2, <1>3, <1>4, <1>5, <1>6, <1>7, <1>8
  DEF Next, BeginSend, SendTimesOut, SenderEnds, WaitIndefinitely, BeginRecv,
      RecvTimesOut, BeginAck, ReceiverEnds, LeaseDies, LeaseDue, Renew,
      RenewScript, mailboxVars, receiverVars

(* The mailbox, with its expiry, leases and lost replies, implements the   *)
(* stream that FrameStream promises.                                       *)
THEOREM Refinement == Spec => ImplementsStream
<1>1. Init => Stream!Init
  BY StreamInit
<1>2. IInv /\ [Next]_vars => [Stream!Next]_(Stream!vars)
  BY StreamStep
<1> QED
  BY <1>1, <1>2, Invariance, PTL DEF Spec, ImplementsStream, Stream!Spec
=============================================================================
