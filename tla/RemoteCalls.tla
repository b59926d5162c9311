---------------------------- MODULE RemoteCalls ----------------------------
(***************************************************************************)
(* What a connection promises to the programs at its two ends, whatever    *)
(* the mailboxes, the timeouts and the processes do: a dialogue of calls,  *)
(* one at a time.  Both ends agree at every moment on how far the dialogue *)
(* has come; a call is taken at most once, is answered by a result that    *)
(* belongs to it, and is heard before the next one is made; and a dialogue *)
(* that breaks is closed for good: no call is repeated.                    *)
(***************************************************************************)
EXTENDS Naturals

CONSTANT None   \* no call, or no result

VARIABLES
  stage,    \* how far the dialogue has come
  at,       \* where the current call is
  call,     \* the current call
  result,   \* the result on its way to the caller
  ran,      \* Runs that have been taken
  heard     \* Runs whose result has been heard

vars == <<stage, at, call, result, ran, heard>>

(* The moves of the dialogue: in a stage, a call may be answered by a      *)
(* result, which takes it to the next stage.                               *)
Dialogue == {
  <<"credentials", "CredentialRequest", "CredentialResponse", "finalization">>,
  <<"finalization", "CredentialFinalization", "Hello", "first">>,
  <<"first", "Ping", "Pong", "first">>,
  <<"first", "Open", "Opened", "open">>,
  <<"first", "Open", "Error", "closed">>,
  <<"first", "DeleteSession", "Deleted", "closed">>,
  <<"first", "DeleteSession", "Error", "closed">>,
  <<"open", "Run", "Output", "open">>,
  <<"open", "Run", "Error", "open">> }

(* After the login a Disconnect may be sent, which has no result.          *)
MayCall(c) ==
  \/ \E move \in Dialogue : move[1] = stage /\ move[2] = c
  \/ c = "Disconnect" /\ stage \in {"first", "open"}

Init ==
  /\ stage = "credentials"
  /\ at = "idle" /\ call = None /\ result = None
  /\ ran = 0 /\ heard = 0

Make ==
  /\ at = "idle"
  /\ MayCall(call')
  /\ at' = "made"
  /\ UNCHANGED <<stage, result, ran, heard>>

Take ==
  /\ at = "made"
  /\ at' = "taken"
  /\ ran' = IF call = "Run" THEN ran + 1 ELSE ran
  /\ UNCHANGED <<stage, call, result, heard>>

Answer ==
  /\ at = "taken"
  /\ <<stage, call, result', stage'>> \in Dialogue
  /\ at' = "answered"
  /\ UNCHANGED <<call, ran, heard>>

(* The caller may have nothing more to say.                                *)
Hear ==
  /\ at = "answered"
  /\ at' = "idle" /\ call' = None /\ result' = None
  /\ heard' = IF call = "Run" THEN heard + 1 ELSE heard
  /\ stage' \in {stage, "closed"}
  /\ UNCHANGED ran

(* At any time either end may go, or the call or its result be lost.       *)
Break ==
  /\ stage' = "closed"
  /\ at' = "idle" /\ call' = None /\ result' = None
  /\ UNCHANGED <<ran, heard>>

Next == Make \/ Take \/ Answer \/ Hear \/ Break

Spec == Init /\ [][Next]_vars
=============================================================================
