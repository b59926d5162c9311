-------------------------- MODULE Connection_proofs --------------------------
(***************************************************************************)
(* Proofs about Connection, for any set of commands and any number of      *)
(* rounds.  The argument: there is one token, which is with the client     *)
(* before it sends, then a frame in one mailbox, then with the handler,    *)
(* then a frame in the other; and wherever it is, the handler's stage is   *)
(* the one in which the client's request, or its reply, belongs.           *)
(***************************************************************************)
EXTENDS Connection, TLAPS

(* The stages in which the handler may find a request.                     *)
Before(req) ==
  CASE req = "CredentialRequest" -> {"credentials"}
    [] req = "CredentialFinalization" -> {"finalization"}
    [] req \in {"Open", "DeleteSession", "Ping"} -> {"first"}
    [] req = "Run" -> {"open"}
    [] OTHER -> {"first", "open"}

(* The stage in which the handler is after it has answered req with rep.   *)
After(req, rep) ==
  CASE req = "CredentialRequest" -> "finalization"
    [] req = "Run" \/ rep = "Opened" -> "open"
    [] OTHER -> "first"

(* A request belongs to a command, and is sent a bounded number of times.  *)
RequestInv ==
  /\ request = "Run" => command \in {"connect", "exec"}
  /\ request = "Open" => command \in {"connect", "exec"}
  /\ request = "DeleteSession" => command = "close"
  /\ request = "Ping" => command = "latency"
  /\ request \notin {"Run", "Ping", "Disconnect"} => rounds = 0
  /\ clientAt = "sending" /\ request \in {"Run", "Ping"} => rounds < MAX_ROUNDS

(* Before the handler has been started.                                    *)
WakeInv ==
  /\ clientAt = "notifying" => request = "CredentialRequest"
  /\ request = "CredentialRequest" /\ clientAt \in {"sending", "notifying"}
       => handlerAt = "none" /\ ~wake
  /\ wake => handlerAt = "none"
  /\ handlerAt = "none" => request = "CredentialRequest" /\ clientAt # "holding"
                             /\ h2c = Empty /\ stage = "credentials"
  /\ handlerAt = "none" /\ clientAt \in {"notifying", "returned", "awaiting"} /\ ~fault
       => c2h # Empty

(* Who has the token.                                                      *)
TokenInv ==
  /\ c2h # Empty =>
       /\ c2h = request /\ h2c = Empty
       /\ clientAt \in {"notifying", "returned", "awaiting", "ended"}
       /\ handlerAt # "replying"
       /\ stage \in Before(request)
  /\ h2c # Empty =>
       /\ h2c \in Expected(request)
       /\ clientAt \in {"returned", "awaiting", "holding", "ended"}
       /\ handlerAt \in {"returned", "waiting", "ended"}
       /\ stage = After(request, h2c)
  /\ handlerAt \in {"holding", "replying"} =>
       /\ h2c = Empty
       /\ clientAt \in {"returned", "awaiting", "ended"}
       /\ stage \in Before(request)
  /\ handlerAt = "replying" => reply \in Answers(request) \ {Empty}
  /\ clientAt = "sending" =>
       /\ h2c = Empty
       /\ handlerAt \in {"none", "returned", "waiting", "ended"}
       /\ stage \in Before(request)
  /\ clientAt = "holding" => handlerAt \in {"returned", "waiting", "ended"}
  /\ clientAt \in {"returned", "awaiting"} /\ h2c = Empty /\ ~fault =>
       /\ stage \in Before(request)
       /\ handlerAt \in {"returned", "waiting"} => c2h # Empty

(* The Runs asked for, started and answered.                               *)
Asked == IF command \in {"connect", "exec"} THEN rounds ELSE 0

CountInv ==
  /\ answered <= started /\ started <= Asked /\ Asked <= answered + 1
  /\ clientAt = "sending" \/ request # "Run" => Asked = answered
  /\ c2h = "Run" /\ handlerAt \in {"returned", "waiting"} => started = answered /\ Asked = answered + 1
  /\ request = "Run" /\ (handlerAt \in {"holding", "replying"} \/ h2c # Empty)
       => started = answered + 1

(* Without a fault, only a Disconnect ends the handler of an open session. *)
OpenInv ==
  /\ clientForever /\ clientAt # "ended" => request \in {"Run", "Disconnect"}
  /\ clientAt \in {"returned", "awaiting"} => request # "Disconnect"
  /\ ~fault /\ handlerAt = "holding" => c2h # Empty
  /\ ~fault /\ stage = "open" /\ handlerAt = "ended" => request = "Disconnect"

IInv == TypeOK /\ RequestInv /\ WakeInv /\ TokenInv /\ CountInv /\ OpenInv
-----------------------------------------------------------------------------
(* IInv is inductive.                                                      *)
LEMMA InitInv == Init => IInv
<1> SUFFICES ASSUME Init PROVE IInv
  OBVIOUS
<1>1. TypeOK
  <2>1. ephemeral \in BOOLEAN
    BY DEF Init
  <2>2. rounds \in 0 .. MAX_ROUNDS /\ started \in 0 .. MAX_ROUNDS /\ answered \in 0 .. MAX_ROUNDS
    BY RoundsAssumption DEF Init
  <2>3. clientForever \in BOOLEAN /\ wake \in BOOLEAN /\ fault \in BOOLEAN
    BY DEF Init
  <2> QED
    BY <2>1, <2>2, <2>3 DEF Init, TypeOK, Requests, Replies, Empty
<1>2. RequestInv /\ WakeInv
  BY DEF Init, RequestInv, WakeInv
<1>3. TokenInv
  BY DEF Init, TokenInv, Before, Empty
<1>4. CountInv /\ OpenInv
  BY DEF Init, CountInv, OpenInv, Asked, Empty
<1> QED
  BY <1>1, <1>2, <1>3, <1>4 DEF IInv

(* The handler answers a request of its stage with a reply that the client *)
(* knows, and moves on to the stage of the next request.                   *)
LEMMA AnswersFit ==
  ASSUME NEW req \in Requests, stage \in Before(req), NEW rep \in Answers(req) \ {Empty}
  PROVE  rep \in Expected(req) /\ StageAfter(rep) = After(req, rep)
<1> USE DEF Before, Answers, FirstAnswers, OpenAnswers, Expected, StageAfter, After, Empty
<1>1. CASE req = "CredentialRequest"
  BY <1>1
<1>2. CASE req = "CredentialFinalization"
  BY <1>2
<1>3. CASE req = "Open"
  BY <1>3
<1>4. CASE req = "Run"
  BY <1>4
<1>5. CASE req = "DeleteSession"
  BY <1>5
<1>6. CASE req = "Ping"
  BY <1>6
<1>7. CASE req = "Disconnect"
  BY <1>7
<1> QED
  BY <1>1, <1>2, <1>3, <1>4, <1>5, <1>6, <1>7 DEF Requests

LEMMA StepInv == IInv /\ [Next]_vars => IInv'
<1> SUFFICES ASSUME IInv, [Next]_vars PROVE IInv'
  OBVIOUS
<1> USE CommandsAssumption, RoundsAssumption
    DEF IInv, TypeOK, RequestInv, WakeInv, TokenInv, CountInv, OpenInv, Asked,
        Before, After, Expected, Answers, FirstAnswers, OpenAnswers, Requests, Replies, Empty, clientVars, handlerVars
<1>1. CASE ClientSend
  BY <1>1 DEF ClientSend
<1>2. CASE ClientNotify
  BY <1>2 DEF ClientNotify
<1>3. CASE ClientReceive
  BY <1>3 DEF ClientReceive
<1>4. CASE ClientAck
  <2>1. TypeOK'
    <3>1. request' \in Requests
      BY <1>4 DEF ClientAck, FollowUps, AtThePrompt
    <3>2. clientForever' \in BOOLEAN
      BY <1>4 DEF ClientAck
    <3>3. answered' \in 0 .. MAX_ROUNDS
      BY <1>4 DEF ClientAck
    <3> QED
      BY <1>4, <3>1, <3>2, <3>3 DEF ClientAck
  <2>2. RequestInv'
    BY <1>4 DEF ClientAck, FollowUps, AtThePrompt
  <2>3. WakeInv'
    BY <1>4 DEF ClientAck, FollowUps, AtThePrompt
  <2>4. TokenInv'
    BY <1>4 DEF ClientAck, FollowUps, AtThePrompt
  <2>5. CountInv'
    BY <1>4 DEF ClientAck, FollowUps, AtThePrompt
  <2>6. OpenInv'
    BY <1>4 DEF ClientAck, FollowUps, AtThePrompt
  <2> QED
    BY <2>1, <2>2, <2>3, <2>4, <2>5, <2>6
<1>5. CASE ClientTimesOut
  BY <1>5 DEF ClientTimesOut
<1>6. CASE ClientDies
  BY <1>6 DEF ClientDies
<1>7. CASE Accept
  <2>1. TypeOK'
    BY <1>7 DEF Accept
  <2>2. RequestInv'
    BY <1>7 DEF Accept
  <2>3. WakeInv'
    BY <1>7 DEF Accept
  <2>4. TokenInv'
    BY <1>7 DEF Accept
  <2>5. CountInv'
    BY <1>7 DEF Accept
  <2>6. OpenInv'
    BY <1>7 DEF Accept
  <2> QED
    BY <2>1, <2>2, <2>3, <2>4, <2>5, <2>6
<1>8. CASE HandlerReceive
  BY <1>8 DEF HandlerReceive
<1>9. CASE HandlerAck
  BY <1>9 DEF HandlerAck
<1>10. CASE HandlerFails
  BY <1>10 DEF HandlerFails
<1>11. CASE HandlerSend
  <2>1. TypeOK'
    BY <1>11 DEF HandlerSend, StageAfter, LastWords
  <2>2. RequestInv'
    BY <1>11 DEF HandlerSend, StageAfter, LastWords
  <2>3. WakeInv'
    BY <1>11 DEF HandlerSend, StageAfter, LastWords
  <2>4. TokenInv'
    <3>1. reply \in Expected(request) \ {Empty} /\ StageAfter(reply) = After(request, reply)
      BY <1>11, AnswersFit DEF HandlerSend
    <3>2. stage' = After(request, reply)
      BY <1>11, <3>1 DEF HandlerSend
    <3> QED
      BY <1>11, <3>1, <3>2 DEF HandlerSend
  <2>5. CountInv'
    BY <1>11 DEF HandlerSend, StageAfter, LastWords
  <2>6. OpenInv'
    BY <1>11 DEF HandlerSend, StageAfter, LastWords
  <2> QED
    BY <2>1, <2>2, <2>3, <2>4, <2>5, <2>6
<1>12. CASE OutputTooLarge
  BY <1>12 DEF OutputTooLarge
<1>13. CASE HandlerTimesOut
  BY <1>13 DEF HandlerTimesOut
<1>14. CASE HostDies
  BY <1>14 DEF HostDies
<1>15. CASE LoseRequest
  BY <1>15 DEF LoseRequest
<1>16. CASE LoseReply
  BY <1>16 DEF LoseReply
<1>17. CASE LoseWake
  <2>1. TypeOK'
    BY <1>17 DEF LoseWake
  <2>2. RequestInv'
    BY <1>17 DEF LoseWake
  <2>3. WakeInv'
    BY <1>17 DEF LoseWake
  <2>4. TokenInv'
    BY <1>17 DEF LoseWake
  <2>5. CountInv'
    BY <1>17 DEF LoseWake
  <2>6. OpenInv'
    BY <1>17 DEF LoseWake
  <2> QED
    BY <2>1, <2>2, <2>3, <2>4, <2>5, <2>6
<1>18. CASE ClientBlock
  BY <1>18 DEF ClientBlock
<1>19. CASE HandlerBlock
  BY <1>19 DEF HandlerBlock
<1>20. CASE UNCHANGED vars
  BY <1>20 DEF vars
<1> HIDE CommandsAssumption, RoundsAssumption DEF IInv
<1> QED
  BY <1>1, <1>2, <1>3, <1>4, <1>5, <1>6, <1>7, <1>8, <1>9, <1>10, <1>11, <1>12, <1>13, <1>14, <1>15, <1>16, <1>17, <1>18, <1>19, <1>20 DEF Next

(* The invariant on which the theorems rest: the two sides of a connection *)
(* are in step (server.rs:57-177, main.rs:501-592).                        *)
THEOREM Invariant == Spec => []IInv
<1> QED
  BY InitInv, StepInv, PTL DEF Spec

(* Every variable keeps its type.                                          *)
THEOREM ConnectionTypeCorrect == Spec => []TypeOK
<1>1. IInv => TypeOK
  BY DEF IInv
<1> QED
  BY <1>1, Invariant, PTL

(* At most one of the two mailboxes of a connection holds a frame, and none*)
(* when a side is about to send one, however long the conversation and     *)
(* wherever it breaks (README.md:234-235, redis_transport.rs:174-193).     *)
THEOREM OneFrameAtATime == Spec => []OneFrameInFlight
<1>1. IInv => OneFrameInFlight
  BY DEF IInv, TokenInv, OneFrameInFlight, Empty
<1> QED
  BY <1>1, Invariant, PTL

(* The client never reads a reply its match arms do not provide for        *)
(* (main.rs:467-480, 510-554, 578-589).                                    *)
THEOREM ClientUnderstandsReplies == Spec => []RepliesAreExpected
<1>1. IInv => RepliesAreExpected
  BY DEF IInv, TokenInv, RepliesAreExpected
<1> QED
  BY <1>1, Invariant, PTL

(* A Run starts the shell at most once, in any number of rounds            *)
(* (server.rs:141-152).                                                    *)
THEOREM RunsStartAtMostOnce == Spec => []RunsAtMostOnce
<1>1. IInv => RunsAtMostOnce
  BY DEF IInv, CountInv, Asked, RunsAtMostOnce
<1> QED
  BY <1>1, Invariant, PTL

(* A client that waits for ever has, unless there was a fault, a live      *)
(* handler at work or a reply in the mailbox (main.rs:537-539, 559-578).   *)
THEOREM NobodyWaitsInVain == Spec => []NoHangWithoutFault
<1>1. IInv => NoHangWithoutFault
  BY DEF IInv, TypeOK, WakeInv, TokenInv, OpenInv, Before, Empty, NoHangWithoutFault
<1> QED
  BY <1>1, Invariant, PTL
-----------------------------------------------------------------------------
(* Connection implements RemoteCalls.  The token of the invariant is the   *)
(* call: each action moves it on, breaks the dialogue or leaves it alone.  *)

(* What the client is about to send is a call of the stage it is in.       *)
LEMMA CallIsLegal ==
  ASSUME NEW req \in Requests, CallStage \in Before(req)
  PROVE  Calls!MayCall(req)
<1> DEFINE Witness(rep, next) == <<CallStage, req, rep, next>>
<1> SUFFICES req # "Disconnect" => \E move \in Calls!Dialogue : move[1] = CallStage /\ move[2] = req
  BY DEF Before, Calls!MayCall
<1>1. CASE req = "CredentialRequest"
  <2>1. Witness("CredentialResponse", "finalization") \in Calls!Dialogue
    BY <1>1 DEF Before, Calls!Dialogue
  <2> QED
    BY <2>1
<1>2. CASE req = "CredentialFinalization"
  <2>1. Witness("Hello", "first") \in Calls!Dialogue
    BY <1>2 DEF Before, Calls!Dialogue
  <2> QED
    BY <2>1
<1>3. CASE req = "Open"
  <2>1. Witness("Opened", "open") \in Calls!Dialogue
    BY <1>3 DEF Before, Calls!Dialogue
  <2> QED
    BY <2>1
<1>4. CASE req = "Run"
  <2>1. Witness("Output", "open") \in Calls!Dialogue
    BY <1>4 DEF Before, Calls!Dialogue
  <2> QED
    BY <2>1
<1>5. CASE req = "DeleteSession"
  <2>1. Witness("Deleted", "closed") \in Calls!Dialogue
    BY <1>5 DEF Before, Calls!Dialogue
  <2> QED
    BY <2>1
<1>6. CASE req = "Ping"
  <2>1. Witness("Pong", "first") \in Calls!Dialogue
    BY <1>6 DEF Before, Calls!Dialogue
  <2> QED
    BY <2>1
<1> QED
  BY <1>1, <1>2, <1>3, <1>4, <1>5, <1>6 DEF Requests

(* What the handler answers to a request of its stage is a move of the     *)
(* dialogue.                                                               *)
LEMMA AnswerIsMove ==
  ASSUME NEW req \in Requests, stage \in Before(req), NEW rep \in Answers(req) \ {Empty}
  PROVE  <<stage, req, rep, IF LastWords(rep) THEN "closed" ELSE StageAfter(rep)>>
           \in Calls!Dialogue
<1> USE DEF Before, Answers, FirstAnswers, OpenAnswers, LastWords, StageAfter, Empty, Calls!Dialogue
<1>1. CASE req = "CredentialRequest"
  BY <1>1
<1>2. CASE req = "CredentialFinalization"
  BY <1>2
<1>3. CASE req = "Open"
  BY <1>3
<1>4. CASE req = "Run"
  BY <1>4
<1>5. CASE req = "DeleteSession"
  BY <1>5
<1>6. CASE req = "Ping"
  BY <1>6
<1>7. CASE req = "Disconnect"
  BY <1>7
<1> QED
  BY <1>1, <1>2, <1>3, <1>4, <1>5, <1>6, <1>7 DEF Requests

LEMMA InitRefines == Init => Calls!Init
BY DEF Init, Calls!Init, CallStage, CallAt, CurrentCall, LastWords, Empty

(* A step after which everything the dialogue is about is as before.       *)
Unmoved == UNCHANGED <<CallStage, CallAt, CurrentCall, h2c, started, answered>>

LEMMA StepRefines ==
  ASSUME IInv, [Next]_vars
  PROVE  Calls!Next \/ Unmoved
<1> USE DEF TypeOK, CallAt, CallStage, CurrentCall, LastWords, Empty, clientVars, handlerVars
<1>0. TypeOK /\ WakeInv /\ TokenInv /\ OpenInv
  BY DEF IInv
<1>1. CASE ClientSend
  <2>1. CallAt = "idle" /\ CallStage = stage /\ stage \in Before(request) /\ h2c = Empty
    BY <1>0, <1>1 DEF ClientSend, TokenInv
  <2>2. CASE handlerAt \in {"none", "returned", "waiting"}
    <3>1. CallAt' = "made" /\ CurrentCall' = request /\ CallStage' = stage
      BY <1>0, <1>1, <2>1, <2>2 DEF ClientSend, Requests
    <3>2. Calls!MayCall(request)
      BY <1>0, <2>1, CallIsLegal
    <3>3. Calls!Make
      BY <1>1, <2>1, <3>1, <3>2 DEF ClientSend, Calls!Make
    <3> QED
      BY <3>3 DEF Calls!Next
  <2>3. CASE handlerAt \notin {"none", "returned", "waiting"}
    <3>1. CallAt' = "idle" /\ CurrentCall' = Empty /\ CallStage' = "closed"
      BY <1>0, <1>1, <2>1, <2>3 DEF ClientSend, TokenInv
    <3>2. Calls!Break
      BY <1>1, <2>1, <3>1 DEF ClientSend, Calls!Break
    <3> QED
      BY <3>2 DEF Calls!Next
  <2> QED
    BY <2>2, <2>3
<1>2. CASE ClientNotify
  BY <1>2 DEF ClientNotify, Unmoved
<1>3. CASE ClientReceive
  BY <1>3 DEF ClientReceive, Unmoved
<1>4. CASE ClientAck
  <2>1. CASE h2c # Empty
    <3>1. CallAt = "answered" /\ CurrentCall = request
      BY <1>0, <2>1 DEF TokenInv
    <3>2. CallAt' = "idle" /\ CurrentCall' = Empty /\ h2c' = Empty
      BY <1>0, <1>4, <2>1 DEF ClientAck, TokenInv
    <3>3. CallStage' \in {CallStage, "closed"}
      <4>1. CASE clientAt' = "ended"
        BY <1>4, <3>2, <4>1
      <4>2. CASE clientAt' = "sending"
        <5>1. FollowUps(request, h2c) # {} /\ h2c \in Expected(request) /\ stage = After(request, h2c)
          BY <1>0, <1>4, <2>1, <4>2 DEF ClientAck, TokenInv
        <5>2. ~LastWords(h2c)
          BY <1>0, <5>1 DEF FollowUps, Expected, After, Requests
        <5>3. LastWords(h2c)' = FALSE
          BY <3>2
        <5> QED
          BY <1>4, <3>1, <3>2, <4>2, <5>2, <5>3 DEF ClientAck
      <4> QED
        BY <1>4, <2>1, <4>1, <4>2 DEF ClientAck
    <3>4. Calls!Hear
      BY <1>4, <2>1, <3>1, <3>2, <3>3 DEF ClientAck, Calls!Hear
    <3> QED
      BY <3>4 DEF Calls!Next
  <2>2. CASE h2c = Empty
    BY <1>4, <2>2 DEF ClientAck, Unmoved
  <2> QED
    BY <2>1, <2>2
<1>5. CASE ClientTimesOut
  BY <1>5 DEF ClientTimesOut, Unmoved
<1>6. CASE ClientDies
  <2>1. CASE clientAt = "sending"
    <3>1. CallAt' = "idle" /\ CurrentCall' = Empty /\ CallStage' = "closed" /\ h2c' = Empty
      BY <1>0, <1>6, <2>1 DEF ClientDies, TokenInv
    <3>2. Calls!Break
      BY <1>6, <3>1 DEF ClientDies, Calls!Break
    <3> QED
      BY <3>2 DEF Calls!Next
  <2>2. CASE clientAt # "sending"
    BY <1>6, <2>2 DEF ClientDies, Unmoved
  <2> QED
    BY <2>1, <2>2
<1>7. CASE Accept
  BY <1>0, <1>7 DEF Accept, WakeInv, Unmoved
<1>8. CASE HandlerReceive
  <2>1. c2h = request /\ h2c = Empty /\ clientAt # "sending"
    BY <1>0, <1>8 DEF HandlerReceive, TokenInv
  <2>2. CallAt = "made" /\ CurrentCall = request /\ CallAt' = "taken" /\ CurrentCall' = request
    BY <1>8, <2>1 DEF HandlerReceive
  <2>3. CallStage' = CallStage
    BY <1>8, <2>1, <2>2 DEF HandlerReceive
  <2>4. request = "Run" => stage = "open"
    BY <1>0, <1>8 DEF HandlerReceive, TokenInv, Before
  <2>5. Calls!Take
    BY <1>8, <2>1, <2>2, <2>3, <2>4 DEF HandlerReceive, Calls!Take
  <2> QED
    BY <2>5 DEF Calls!Next
<1>9. CASE HandlerAck
  <2>1. CASE handlerAt' = "replying"
    BY <1>0, <1>9, <2>1 DEF HandlerAck, Unmoved
  <2>2. CASE handlerAt' # "replying"
    <3>1. handlerAt' = "ended" /\ c2h' = Empty /\ h2c' = Empty /\ clientAt' # "sending"
      BY <1>0, <1>9, <2>2 DEF HandlerAck, TokenInv
    <3>2. CallAt' = "idle" /\ CurrentCall' = Empty /\ CallStage' = "closed"
      BY <3>1
    <3>3. Calls!Break
      BY <1>9, <3>1, <3>2 DEF HandlerAck, Calls!Break
    <3> QED
      BY <3>3 DEF Calls!Next
  <2> QED
    BY <2>1, <2>2
<1>10. CASE HandlerFails
  <2>1. CallAt' = "idle" /\ CurrentCall' = Empty /\ CallStage' = "closed" /\ h2c' = Empty
    BY <1>0, <1>10 DEF HandlerFails, TokenInv
  <2>2. Calls!Break
    BY <1>10, <2>1 DEF HandlerFails, Calls!Break
  <2> QED
    BY <2>2 DEF Calls!Next
<1>11. CASE HandlerSend
  <2>1. /\ CallAt = "taken" /\ CurrentCall = request /\ CallStage = stage /\ h2c = Empty
        /\ reply \in Answers(request) \ {Empty} /\ stage \in Before(request)
    BY <1>0, <1>11 DEF HandlerSend, TokenInv
  <2>2. CallAt' = "answered" /\ CurrentCall' = request /\ h2c' = reply
    BY <1>11, <2>1 DEF HandlerSend
  <2>3. <<stage, request, reply, IF LastWords(reply) THEN "closed" ELSE StageAfter(reply)>>
          \in Calls!Dialogue
    BY <1>0, <2>1, AnswerIsMove
  <2>4. CallStage' = IF LastWords(reply) THEN "closed" ELSE StageAfter(reply)
    BY <1>11, <2>1, <2>2 DEF HandlerSend, StageAfter
  <2>5. Calls!Answer
    BY <1>11, <2>1, <2>2, <2>3, <2>4 DEF HandlerSend, Calls!Answer
  <2> QED
    BY <2>5 DEF Calls!Next
<1>12. CASE OutputTooLarge
  <2>1. CallAt' = "idle" /\ CurrentCall' = Empty /\ CallStage' = "closed" /\ h2c' = Empty
    BY <1>0, <1>12 DEF OutputTooLarge, TokenInv
  <2>2. Calls!Break
    BY <1>12, <2>1 DEF OutputTooLarge, Calls!Break
  <2> QED
    BY <2>2 DEF Calls!Next
<1>13. CASE HandlerTimesOut
  BY <1>13 DEF HandlerTimesOut, Unmoved
<1>14. CASE HostDies
  <2>1. CASE CallAt \in {"made", "taken"}
    <3>1. CallAt' = "idle" /\ CurrentCall' = Empty /\ CallStage' = "closed" /\ h2c' = Empty
      BY <1>0, <1>14, <2>1 DEF HostDies, TokenInv
    <3>2. Calls!Break
      BY <1>14, <3>1 DEF HostDies, Calls!Break
    <3> QED
      BY <3>2 DEF Calls!Next
  <2>2. CASE CallAt \notin {"made", "taken"}
    BY <1>0, <1>14, <2>2 DEF HostDies, Unmoved
  <2> QED
    BY <2>1, <2>2
<1>15. CASE LoseRequest
  <2>1. CASE CallAt = "made"
    <3>1. CallAt' = "idle" /\ CurrentCall' = Empty /\ CallStage' = "closed" /\ h2c' = Empty
      BY <1>0, <1>15, <2>1 DEF LoseRequest, TokenInv
    <3>2. Calls!Break
      BY <1>15, <3>1 DEF LoseRequest, Calls!Break
    <3> QED
      BY <3>2 DEF Calls!Next
  <2>2. CASE CallAt # "made"
    BY <1>0, <1>15, <2>2 DEF LoseRequest, TokenInv, Unmoved
  <2> QED
    BY <2>1, <2>2
<1>16. CASE LoseReply
  <2>1. CallAt' = "idle" /\ CurrentCall' = Empty /\ CallStage' = "closed" /\ h2c' = Empty
    BY <1>0, <1>16 DEF LoseReply, TokenInv
  <2>2. Calls!Break
    BY <1>16, <2>1 DEF LoseReply, Calls!Break
  <2> QED
    BY <2>2 DEF Calls!Next
<1>17. CASE LoseWake
  BY <1>17 DEF LoseWake, Unmoved
<1>18. CASE ClientBlock
  BY <1>18 DEF ClientBlock, Unmoved
<1>19. CASE HandlerBlock
  BY <1>0, <1>19 DEF HandlerBlock, Unmoved
<1>20. CASE UNCHANGED vars
  BY <1>20 DEF vars, Unmoved
<1> QED
  BY <1>1, <1>2, <1>3, <1>4, <1>5, <1>6, <1>7, <1>8, <1>9, <1>10, <1>11, <1>12, <1>13, <1>14, <1>15, <1>16, <1>17, <1>18, <1>19, <1>20 DEF Next

(* A connection implements RemoteCalls: a dialogue of calls, each taken    *)
(* and answered at most once in the stage where it belongs, and closed for *)
(* good once it broke (server.rs:57-177, main.rs:501-592).                 *)
THEOREM CallsRefinement == Spec => ImplementsCalls
<1>1. Init => Calls!Init
  BY InitRefines
<1>2. IInv /\ [Next]_vars => [Calls!Next]_Calls!vars
  BY StepRefines DEF Unmoved, Calls!vars
<1> QED
  BY <1>1, <1>2, Invariant, PTL DEF Spec, ImplementsCalls, Calls!Spec
=============================================================================
