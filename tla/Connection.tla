----------------------------- MODULE Connection -----------------------------
(***************************************************************************)
(* One connection from its first frame to its end: a shex command on the   *)
(* client, and the thread that runs server::handle for it on the host.     *)
(* Each direction is a mailbox of one frame, as FrameStream promises it: a *)
(* frame is read once, in order, or it is lost.  A receiver that is in its *)
(* BLPOP when the frame is lost has the token already and fails; one that  *)
(* has not come to its BLPOP finds neither the token nor the frame, and    *)
(* blocks.  What the handler looks up and creates is left to Sessions;     *)
(* here Open, DeleteSession and Run may succeed or fail.                   *)
(*                                                                         *)
(* The deadline of send_frame has no action: OneFrameInFlight says that no *)
(* send of a conversation finds its mailbox occupied.                      *)
(***************************************************************************)
EXTENDS Naturals

CONSTANTS
  Commands,     \* the client commands to explore
  MAX_ROUNDS    \* bound on the Runs of a connect and the Pings of a latency test

ASSUME CommandsAssumption ==
  Commands \subseteq {"auth", "connect", "exec", "close", "latency"}

ASSUME RoundsAssumption == MAX_ROUNDS \in Nat \ {0}

VARIABLES
  command,        \* the client's command line
  ephemeral,      \* connect without --session: the shell lives with the handler
  clientAt,       \* what the client is doing
  request,        \* the request the client is sending or has sent
  clientForever,  \* the client has called wait_indefinitely
  rounds,         \* Runs or Pings the client has sent
  c2h, h2c,       \* the frame in each mailbox
  wake,           \* the connection is in the host's wake queue
  handlerAt,      \* what the handler thread is doing
  stage,          \* how far the handler is in server::handle
  reply,          \* the reply the handler is sending
  started,        \* history: Runs handed to the shell
  answered,       \* history: replies to Runs the client has acknowledged
  fault           \* history: a process died, or a frame or a wake was lost

clientVars == <<command, ephemeral, clientAt, request, clientForever, rounds, answered>>
handlerVars == <<handlerAt, stage, reply, started>>
vars == <<clientVars, handlerVars, c2h, h2c, wake, fault>>

Empty == "empty"

Requests == {"CredentialRequest", "CredentialFinalization", "Open", "Run",
             "DeleteSession", "Ping", "Disconnect"}
Replies == {"CredentialResponse", "Hello", "Opened", "Deleted", "Pong",
            "Output", "Error"}

Init ==
  /\ command \in Commands
  /\ ephemeral \in (IF command = "connect" THEN BOOLEAN ELSE {FALSE})
  /\ clientAt = "sending" /\ request = "CredentialRequest"
  /\ clientForever = FALSE /\ rounds = 0 /\ answered = 0
  /\ c2h = Empty /\ h2c = Empty /\ wake = FALSE
  /\ handlerAt = "none" /\ stage = "credentials" /\ reply = Empty /\ started = 0
  /\ fault = FALSE
-----------------------------------------------------------------------------
(* The client.                                                             *)

(* The replies the client's match arms provide for.                        *)
Expected(req) ==
  CASE req = "CredentialRequest" -> {"CredentialResponse"}
    [] req = "CredentialFinalization" -> {"Hello"}
    [] req = "Open" -> {"Opened", "Error"}
    [] req = "Run" -> {"Output", "Error"}
    [] req = "DeleteSession" -> {"Deleted", "Error"}
    [] req = "Ping" -> {"Pong"}
    [] OTHER -> {}

(* At the prompt of connect the user types a command or leaves; a latency  *)
(* test pings once to warm up and then as often as it was told.            *)
AtThePrompt == IF rounds < MAX_ROUNDS THEN {"Run", "Disconnect"} ELSE {"Disconnect"}

(* The requests that may follow the reply rep to req; none ends the client.*)
FollowUps(req, rep) ==
  CASE req = "CredentialRequest" -> {"CredentialFinalization"}
    [] req = "CredentialFinalization" ->
         (CASE command = "auth" -> {"Disconnect"}
            [] command \in {"connect", "exec"} -> {"Open"}
            [] command = "close" -> {"DeleteSession"}
            [] command = "latency" -> {"Ping"})
    [] req = "Open" /\ rep = "Opened" ->
         IF command = "exec" THEN {"Run"} ELSE AtThePrompt
    [] req = "Run" /\ command = "connect" -> AtThePrompt
    [] req = "Run" /\ command = "exec" /\ rep = "Output" -> {"Disconnect"}
    [] req = "Ping" -> IF rounds < MAX_ROUNDS THEN {"Ping"} ELSE {"Disconnect"}
    [] OTHER -> {}

(* send_frame stores the request.  The first one also has to wake the host;*)
(* after a Disconnect the client is done.                                  *)
ClientSend ==
  /\ clientAt = "sending"
  /\ c2h = Empty
  /\ c2h' = request
  /\ clientAt' = CASE request = "CredentialRequest" -> "notifying"
                   [] request = "Disconnect" -> "ended"
                   [] OTHER -> "returned"
  /\ rounds' = IF request \in {"Run", "Ping"} THEN rounds + 1 ELSE rounds
  /\ UNCHANGED <<command, ephemeral, request, clientForever, answered,
                 handlerVars, h2c, wake, fault>>

ClientNotify ==
  /\ clientAt = "notifying"
  /\ wake' = TRUE
  /\ clientAt' = "returned"
  /\ UNCHANGED <<command, ephemeral, request, clientForever, rounds, answered,
                 handlerVars, c2h, h2c, fault>>

(* The request is out, send_frame has returned, and only now recv_frame    *)
(* issues its BLPOP.                                                       *)
ClientBlock ==
  /\ clientAt = "returned"
  /\ clientAt' = "awaiting"
  /\ UNCHANGED <<command, ephemeral, request, clientForever, rounds, answered,
                 handlerVars, c2h, h2c, wake, fault>>

ClientReceive ==
  /\ clientAt = "awaiting"
  /\ h2c # Empty
  /\ clientAt' = "holding"
  /\ UNCHANGED <<command, ephemeral, request, clientForever, rounds, answered,
                 handlerVars, c2h, h2c, wake, fault>>

(* Mutant: the reply is not deleted.                                       *)
ClientAckWithoutDelete ==
  /\ clientAt = "holding"
  /\ h2c # Empty
  /\ FollowUps(request, h2c) # {}
  /\ request' \in FollowUps(request, h2c)
  /\ clientAt' = "sending"
  /\ UNCHANGED <<command, ephemeral, clientForever, rounds, answered,
                 handlerVars, c2h, h2c, wake, fault>>

(* Mutant: the client waits for ever from its first acknowledgement on.    *)
ClientAckAndWaitForever ==
  /\ clientAt = "holding"
  /\ h2c # Empty
  /\ h2c' = Empty
  /\ clientForever' = TRUE
  /\ \/ /\ FollowUps(request, h2c) # {}
        /\ request' \in FollowUps(request, h2c)
        /\ clientAt' = "sending"
     \/ /\ FollowUps(request, h2c) = {}
        /\ clientAt' = "ended"
        /\ UNCHANGED request
  /\ UNCHANGED <<command, ephemeral, rounds, answered, handlerVars, c2h, wake, fault>>

(* Acknowledge the reply and go on with the next request.  Once a session  *)
(* is open, execute and interactive first switch to waiting for ever.  A   *)
(* reply that expired while it was held makes acknowledge fail.            *)
ClientAck ==
  /\ clientAt = "holding"
  /\ \/ /\ h2c # Empty
        /\ h2c' = Empty
        /\ answered' = IF request = "Run" THEN answered + 1 ELSE answered
        /\ clientForever' = (clientForever \/ (request = "Open" /\ h2c = "Opened"))
        /\ \/ /\ FollowUps(request, h2c) # {}
              /\ request' \in FollowUps(request, h2c)
              /\ clientAt' = "sending"
           \/ /\ FollowUps(request, h2c) = {}
              /\ clientAt' = "ended"
              /\ UNCHANGED request
     \/ /\ h2c = Empty
        /\ clientAt' = "ended"
        /\ UNCHANGED <<h2c, answered, clientForever, request>>
  /\ UNCHANGED <<command, ephemeral, rounds, handlerVars, c2h, wake, fault>>

ClientTimesOut ==
  /\ clientAt = "awaiting"
  /\ h2c = Empty
  /\ ~clientForever
  /\ clientAt' = "ended"
  /\ UNCHANGED <<command, ephemeral, request, clientForever, rounds, answered,
                 handlerVars, c2h, h2c, wake, fault>>

(* The client is interrupted or killed, loses Redis, is given a wrong code *)
(* or signature, or cannot save its auth file.                             *)
ClientDies ==
  /\ clientAt # "ended"
  /\ clientAt' = "ended"
  /\ fault' = TRUE
  /\ UNCHANGED <<command, ephemeral, request, clientForever, rounds, answered,
                 handlerVars, c2h, h2c, wake>>
-----------------------------------------------------------------------------
(* The host.                                                               *)

(* HostListener::accept takes the connection and starts its handler.       *)
Accept ==
  /\ handlerAt = "none"
  /\ wake
  /\ wake' = FALSE
  /\ handlerAt' = "returned"
  /\ UNCHANGED <<clientVars, stage, reply, started, c2h, h2c, fault>>

(* The handler comes to its next recv_frame and issues its BLPOP.          *)
HandlerBlock ==
  /\ handlerAt = "returned"
  /\ handlerAt' = "waiting"
  /\ UNCHANGED <<clientVars, stage, reply, started, c2h, h2c, wake, fault>>

(* What the first request may be answered, and a request to a session that *)
(* is open; Empty is no answer.                                            *)
FirstAnswers(req) ==
  CASE req = "Ping" -> {"Pong"}
    [] req = "Disconnect" -> {Empty}
    [] req = "Open" -> {"Opened", "Error"}
    [] req = "DeleteSession" -> {"Deleted", "Error"}
    [] OTHER -> {}

OpenAnswers(req) ==
  CASE req = "Ping" -> {"Pong"}
    [] req = "Disconnect" -> {Empty}
    [] req = "Run" -> {"Output", "Error"}
    [] OTHER -> {"Error"}

(* Mutant: Disconnect has no arm of its own once a session is open.        *)
AnswersToDisconnect(req) ==
  CASE stage = "credentials" -> {"CredentialResponse"}
    [] stage = "finalization" -> {"Hello"}
    [] stage = "first" -> FirstAnswers(req)
    [] stage = "open" -> IF req = "Disconnect" THEN {"Error"} ELSE OpenAnswers(req)

(* What the handler may answer: two frames of the login, then requests.    *)
Answers(req) ==
  CASE stage = "credentials" -> {"CredentialResponse"}
    [] stage = "finalization" -> {"Hello"}
    [] stage = "first" -> FirstAnswers(req)
    [] stage = "open" -> OpenAnswers(req)

HandlerReceive ==
  /\ handlerAt = "waiting"
  /\ c2h # Empty
  /\ handlerAt' = "holding"
  /\ started' = IF stage = "open" /\ c2h = "Run" THEN started + 1 ELSE started
  /\ UNCHANGED <<clientVars, stage, reply, c2h, h2c, wake, fault>>

(* Mutant: the frame is not deleted.                                       *)
HandlerAckWithoutDelete ==
  /\ handlerAt = "holding"
  /\ c2h # Empty
  /\ reply' \in Answers(c2h)
  /\ handlerAt' = IF reply' = Empty THEN "ended" ELSE "replying"
  /\ UNCHANGED <<clientVars, stage, started, c2h, h2c, wake, fault>>

(* The request is done and acknowledged, and there is an answer to send.   *)
(* If the frame expired meanwhile, acknowledge fails and the handler ends. *)
HandlerAck ==
  /\ handlerAt = "holding"
  /\ \/ /\ c2h # Empty
        /\ c2h' = Empty
        /\ reply' \in Answers(c2h)
        /\ handlerAt' = IF reply' = Empty THEN "ended" ELSE "replying"
     \/ /\ c2h = Empty
        /\ handlerAt' = "ended"
        /\ UNCHANGED <<c2h, reply>>
  /\ UNCHANGED <<clientVars, stage, started, h2c, wake, fault>>

(* Mutant: an error of the shell is not sent as a reply.                   *)
HandlerFailsOnRun ==
  /\ handlerAt = "holding"
  /\ c2h \in {"Open", "DeleteSession", "Run"}
  /\ handlerAt' = "ended"
  /\ UNCHANGED <<clientVars, stage, reply, started, c2h, h2c, wake, fault>>

(* The lookup key, the shell or the deletion fails: handle returns through *)
(* its question marks, with neither an acknowledgement nor a reply.        *)
HandlerFails ==
  /\ handlerAt = "holding"
  /\ stage = "first"
  /\ c2h \in {"Open", "DeleteSession"}
  /\ handlerAt' = "ended"
  /\ UNCHANGED <<clientVars, stage, reply, started, c2h, h2c, wake, fault>>

(* Mutant: the handler does not move on after Hello.                       *)
StageAfterHello(rep) ==
  CASE rep = "CredentialResponse" -> "finalization"
    [] rep = "Opened" -> "open"
    [] OTHER -> stage

(* Where handle is after it has sent rep; Deleted, and an Error before a   *)
(* session is open, are its last words.                                    *)
StageAfter(rep) ==
  CASE rep = "CredentialResponse" -> "finalization"
    [] rep = "Hello" -> "first"
    [] rep = "Opened" -> "open"
    [] OTHER -> stage

LastWords(rep) == rep = "Deleted" \/ (rep = "Error" /\ stage = "first")

HandlerSend ==
  /\ handlerAt = "replying"
  /\ h2c = Empty
  /\ h2c' = reply
  /\ stage' = StageAfter(reply)
  /\ handlerAt' = IF LastWords(reply) THEN "ended" ELSE "returned"
  /\ reply' = Empty
  /\ UNCHANGED <<clientVars, started, c2h, wake, fault>>

(* The JSON form of an Output of up to 16 MiB may itself be larger than    *)
(* that: send_frame refuses it and the handler ends.                       *)
OutputTooLarge ==
  /\ handlerAt = "replying"
  /\ reply = "Output"
  /\ handlerAt' = "ended"
  /\ fault' = TRUE
  /\ UNCHANGED <<clientVars, stage, reply, started, c2h, h2c, wake>>

(* Mutant: the handler waits for ever as soon as the login is over.        *)
HandlerTimesOutInLogin ==
  /\ handlerAt = "waiting"
  /\ c2h = Empty
  /\ stage \in {"credentials", "finalization"}
  /\ handlerAt' = "ended"
  /\ UNCHANGED <<clientVars, stage, reply, started, c2h, h2c, wake, fault>>

(* Only an open session waits for its next request without a timeout.      *)
HandlerTimesOut ==
  /\ handlerAt = "waiting"
  /\ c2h = Empty
  /\ stage # "open"
  /\ handlerAt' = "ended"
  /\ UNCHANGED <<clientVars, stage, reply, started, c2h, h2c, wake, fault>>

(* The host process dies, or the handler loses Redis.  A connection that   *)
(* has not been accepted yet stays in the wake queue for the next process. *)
HostDies ==
  /\ handlerAt \notin {"none", "ended"}
  /\ handlerAt' = "ended"
  /\ fault' = TRUE
  /\ UNCHANGED <<clientVars, stage, reply, started, c2h, h2c, wake>>
-----------------------------------------------------------------------------
(* Redis lets a frame or the wake token expire.                            *)

(* A receiver in its BLPOP has been given the token: its GET finds nothing *)
(* and it fails.  One that has not issued it finds no token either, since  *)
(* frame and token expire together, and is left to wait for a frame that   *)
(* nobody will send: until its timeout, or for ever if it has none.        *)
LoseRequest ==
  /\ c2h # Empty
  /\ c2h' = Empty
  /\ handlerAt' = IF handlerAt = "waiting" THEN "ended" ELSE handlerAt
  /\ fault' = TRUE
  /\ UNCHANGED <<clientVars, stage, reply, started, h2c, wake>>

LoseReply ==
  /\ h2c # Empty
  /\ h2c' = Empty
  /\ clientAt' = IF clientAt = "awaiting" THEN "ended" ELSE clientAt
  /\ fault' = TRUE
  /\ UNCHANGED <<command, ephemeral, request, clientForever, rounds, answered,
                 handlerVars, c2h, wake>>

LoseWake ==
  /\ wake
  /\ wake' = FALSE
  /\ fault' = TRUE
  /\ UNCHANGED <<clientVars, handlerVars, c2h, h2c>>
-----------------------------------------------------------------------------
Next ==
  \/ ClientSend \/ ClientNotify \/ ClientBlock \/ ClientReceive \/ ClientAck
  \/ ClientTimesOut \/ ClientDies
  \/ Accept \/ HandlerBlock \/ HandlerReceive \/ HandlerAck \/ HandlerFails
  \/ HandlerSend \/ OutputTooLarge \/ HandlerTimesOut \/ HostDies
  \/ LoseRequest \/ LoseReply \/ LoseWake

(* The handler is in ShellSession::run.                                    *)
Running == handlerAt = "holding" /\ stage = "open" /\ request = "Run"

(* The threads run, and a BLPOP with a timeout ends.  The user may stay at *)
(* the prompt, a shell command may run for ever, and the host may never    *)
(* come round to accepting the connection.                                 *)
Fairness ==
  /\ WF_vars(ClientSend /\ command # "connect")
  /\ WF_vars(ClientNotify)
  /\ WF_vars(ClientBlock)
  /\ WF_vars(ClientReceive \/ ClientTimesOut)
  /\ WF_vars(ClientAck)
  /\ WF_vars(HandlerBlock)
  /\ WF_vars(HandlerReceive \/ HandlerTimesOut)
  /\ WF_vars(HandlerAck /\ ~Running)
  /\ WF_vars(HandlerSend)

Spec == Init /\ [][Next]_vars
FairSpec == Spec /\ Fairness
-----------------------------------------------------------------------------
(* Properties.                                                             *)

TypeOK ==
  /\ command \in Commands
  /\ ephemeral \in BOOLEAN
  /\ clientAt \in {"sending", "notifying", "returned", "awaiting", "holding", "ended"}
  /\ request \in Requests
  /\ clientForever \in BOOLEAN
  /\ rounds \in 0 .. MAX_ROUNDS
  /\ c2h \in Requests \cup {Empty}
  /\ h2c \in Replies \cup {Empty}
  /\ wake \in BOOLEAN
  /\ handlerAt \in {"none", "returned", "waiting", "holding", "replying", "ended"}
  /\ stage \in {"credentials", "finalization", "first", "open"}
  /\ reply \in Replies \cup {Empty}
  /\ started \in 0 .. MAX_ROUNDS
  /\ answered \in 0 .. MAX_ROUNDS
  /\ fault \in BOOLEAN

(* Of the two mailboxes of a connection at most one holds a frame          *)
(* (README.md:234-235, "only one present during the request/response       *)
(* flow"), also while frames expire and either side dies; and both are     *)
(* empty when a side has something to send, so send_frame neither polls    *)
(* nor reaches its deadline in a conversation (server.rs:57-177,           *)
(* main.rs:501-592, redis_transport.rs:174-193).                           *)
OneFrameInFlight ==
  /\ c2h = Empty \/ h2c = Empty
  /\ clientAt = "sending" \/ handlerAt = "replying" => c2h = Empty /\ h2c = Empty

(* The reply the client reads is one its match arms know: no "unexpected   *)
(* server response" (main.rs:467-480, 510-513, 529-533, 539-554, 578-589). *)
RepliesAreExpected ==
  clientAt = "holding" => h2c = Empty \/ h2c \in Expected(request)

(* Each Run starts the shell at most once, and the client never sees more  *)
(* answers than there were starts: the two sides stay in lock step, and an *)
(* acknowledgement that fails never makes the handler take a Run again     *)
(* (server.rs:141-152).                                                    *)
RunsAtMostOnce ==
  LET asked == IF command \in {"connect", "exec"} THEN rounds ELSE 0
  IN answered <= started /\ started <= asked /\ asked <= answered + 1

(* A client that waits for ever has, unless a process died or a frame was  *)
(* lost or refused, something to wait for: its request in front of a live  *)
(* handler, a handler at work on it, or the reply in the mailbox           *)
(* (main.rs:537-539, 559-578).                                             *)
NoHangWithoutFault ==
  clientAt \in {"returned", "awaiting"} /\ clientForever /\ ~fault =>
    \/ handlerAt \in {"returned", "waiting"} /\ c2h # Empty
    \/ handlerAt \in {"holding", "replying"}
    \/ h2c # Empty

(* Every command but connect comes to an end, unless there was a fault or  *)
(* its shell command runs for ever (main.rs:213-385).                      *)
CommandsEnd ==
  command # "connect" =>
    <>[](clientAt = "ended" \/ fault \/ Running)

(* A Disconnect ends the handler that is in its BLPOP for it, even if the  *)
(* frame expires before it is read; and in any case the handler ends or it *)
(* has an open session and the Disconnect expired before it came to its    *)
(* BLPOP, which then waits for ever (server.rs:96-99, 139, 169-172,        *)
(* redis_transport.rs:200-211).                                            *)
DisconnectEndsHandler ==
  /\ c2h = "Disconnect" /\ handlerAt = "waiting" ~> handlerAt = "ended"
  /\ c2h = "Disconnect" ~> handlerAt = "ended" \/ (stage = "open" /\ c2h = Empty)

(* Before a session is open, a handler whose client is gone ends by itself *)
(* (redis_transport.rs:141, 200-205).                                      *)
UnopenedHandlerEnds ==
  clientAt = "ended" /\ handlerAt # "none" ~> handlerAt = "ended" \/ stage = "open"

(* README.md:195-196: "A new interactive connection is ephemeral: it is    *)
(* removed when the connection ends".  Its shell is owned by the handler   *)
(* alone, so it goes when the handler ends.                                *)
EphemeralRemoved ==
  ephemeral /\ stage = "open" /\ clientAt = "ended" ~> handlerAt = "ended"
-----------------------------------------------------------------------------
(* Refinement of RemoteCalls.                                              *)

(* Where the current call is: it is taken while the handler is at work on  *)
(* it, answered or made while its frame is in a mailbox that someone reads.*)
CallAt ==
  IF handlerAt \in {"holding", "replying"} THEN "taken"
  ELSE IF h2c # Empty THEN "answered"
  ELSE IF c2h # Empty /\ handlerAt \in {"none", "returned", "waiting"} THEN "made"
  ELSE "idle"

(* The dialogue is over when no call is under way and the client will make *)
(* no other, or when the handler has said its last words.                  *)
CallStage ==
  IF LastWords(h2c) \/ (CallAt = "idle" /\ clientAt # "sending")
  THEN "closed" ELSE stage

CurrentCall == IF CallAt = "idle" THEN Empty ELSE request

Calls == INSTANCE RemoteCalls WITH
  None <- Empty, stage <- CallStage, at <- CallAt, call <- CurrentCall,
  result <- h2c, ran <- started, heard <- answered

(* A connection is a dialogue of remote calls, each taken and answered at  *)
(* most once, in the stage where it belongs, and never taken up again once *)
(* it broke: the loops of handle and of the client commands, which know of *)
(* each other only through the frames, implement RemoteCalls               *)
(* (server.rs:57-177, main.rs:501-592).                                    *)
ImplementsCalls == Calls!Spec
=============================================================================
