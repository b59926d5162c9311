------------------------------ MODULE Sessions ------------------------------
(***************************************************************************)
(* The sessions of a shex host: the map of persistent sessions that all    *)
(* handler threads of a serve process share, the session lookups in Redis, *)
(* the shells, and who may be using one.  A connection is one thread       *)
(* running server::handle, taken through its steps between two locks or    *)
(* two calls into Redis; what goes over its mailboxes is left to           *)
(* Connection, except that any acknowledgement or reply may fail.          *)
(*                                                                         *)
(* A shell lives in an Arc<Session>: it is killed when the last reference, *)
(* from the map or from a handler, is dropped.  It may also exit by itself,*)
(* as a command may make it do; its session stays where it is then, and    *)
(* every further run in it fails.                                          *)
(***************************************************************************)
EXTENDS FiniteSets, Naturals

CONSTANTS
  Hosts,        \* serve processes of one hostname and data directory
  Handlers,     \* connections
  Ids,          \* session identifiers
  None,         \* no session, no process, no lock holder
  MAX_STARTS    \* bound on the times a serve process is started

ASSUME NoneAssumption == None \notin Hosts \cup Handlers \cup Ids
ASSUME StartsAssumption == MAX_STARTS \in Nat

VARIABLES
  running,      \* the serve processes that are alive
  starts,       \* serve processes started so far
  sessions,     \* each process's map: the persistent sessions in it
  lookups,      \* sessions with a lookup key in Redis
  shell,        \* each session's shell process
  lock,         \* each session's shell mutex: the handler that holds it
  at,           \* where each handler is
  owner,        \* the process each handler runs in
  session,      \* the session each handler is creating, using or deleting
  arc,          \* the handlers that hold a reference to their session
  used,         \* identifiers random_id has returned
  ephemeral,    \* history: sessions of connect without --session
  told,         \* history: sessions some client has been told of by Opened
  gone,         \* history: sessions deleted, or lost with their process
  lost,         \* history: identifiers drawn by a process that has died
  closed        \* history: sessions whose Deleted reply has been sent

hostVars == <<running, starts>>
handlerVars == <<at, owner, session, arc>>
historyVars == <<ephemeral, told, gone, lost, closed>>
vars == <<hostVars, sessions, lookups, shell, lock, handlerVars, used, historyVars>>

Init ==
  /\ running = {} /\ starts = 0
  /\ sessions = [p \in Hosts |-> {}]
  /\ lookups = {}
  /\ shell = [id \in Ids |-> "none"]
  /\ lock = [id \in Ids |-> None]
  /\ at = [h \in Handlers |-> "none"]
  /\ owner = [h \in Handlers |-> None]
  /\ session = [h \in Handlers |-> None]
  /\ arc = {}
  /\ used = {} /\ ephemeral = {} /\ told = {} /\ gone = {} /\ lost = {} /\ closed = {}

(* A shell that has been started: at its next command, in the middle of    *)
(* one, or exited by itself.  One that was in the middle of a command when *)
(* its host died is orphaned; one that was killed, or read the end of its  *)
(* input, is dead.                                                         *)
Kept == {"idle", "busy", "exited"}
Shells == Kept \cup {"none", "orphaned", "dead"}

Active == UNION {sessions[p] : p \in Hosts}
Referenced(id) == id \in Active \/ \E h \in arc : session[h] = id

(* Mutant: ShellSession has no Drop that kills its child.                  *)
DropShellsWithoutKill == UNCHANGED shell

(* Dropping references kills and reaps the shells nobody refers to any     *)
(* more.                                                                   *)
DropShells ==
  shell' = [id \in Ids |->
              IF shell[id] \in Kept /\ ~Referenced(id)' THEN "dead" ELSE shell[id]]
-----------------------------------------------------------------------------
(* The process.                                                            *)

(* Mutant: the lookups of earlier processes stay.                          *)
StartWithoutClearing(p) ==
  /\ p \notin running
  /\ starts < MAX_STARTS
  /\ running' = running \cup {p}
  /\ starts' = starts + 1
  /\ UNCHANGED <<sessions, lookups, shell, lock, handlerVars, used, historyVars>>

(* serve registers the hostname, which any process with the same setup may *)
(* do, clears the hostname's session lookups, and only then accepts.       *)
Start(p) ==
  /\ p \notin running
  /\ starts < MAX_STARTS
  /\ running' = running \cup {p}
  /\ starts' = starts + 1
  /\ lookups' = {}
  /\ UNCHANGED <<sessions, shell, lock, handlerVars, used, historyVars>>

(* The process dies, and its threads with it.  No destructor runs: an idle *)
(* shell reads the end of its standard input and exits, one in the middle  *)
(* of a command, be its run still going on or given up, is left behind     *)
(* until the command ends.                                                 *)
Crash(p) ==
  LET its == {h \in Handlers : owner[h] = p}
      shells == sessions[p] \cup {session[h] : h \in arc \cap its}
  IN /\ p \in running
     /\ running' = running \ {p}
     /\ gone' = gone \cup sessions[p]
     /\ lost' = lost \cup sessions[p] \cup ({session[h] : h \in its} \ {None})
     /\ sessions' = [sessions EXCEPT ![p] = {}]
     /\ at' = [h \in Handlers |-> IF h \in its THEN "ended" ELSE at[h]]
     /\ arc' = arc \ its
     /\ lock' = [id \in Ids |-> IF lock[id] \in its THEN None ELSE lock[id]]
     /\ shell' = [id \in Ids |->
                    IF id \notin shells THEN shell[id]
                    ELSE IF shell[id] = "busy" THEN "orphaned" ELSE "dead"]
     /\ UNCHANGED <<starts, lookups, owner, session, used, ephemeral, told, closed>>

OrphanEnds(id) ==
  /\ shell[id] = "orphaned"
  /\ shell' = [shell EXCEPT ![id] = "dead"]
  /\ UNCHANGED <<hostVars, sessions, lookups, lock, handlerVars, used, historyVars>>

(* The process that pops the wake queue starts a handler.                  *)
Accept(p, h) ==
  /\ p \in running
  /\ at[h] = "none"
  /\ at' = [at EXCEPT ![h] = "first"]
  /\ owner' = [owner EXCEPT ![h] = p]
  /\ UNCHANGED <<hostVars, sessions, lookups, shell, lock, session, arc, used, historyVars>>
-----------------------------------------------------------------------------
(* The first request: open a session, old or new, or delete one.           *)

Goto(h, place) == at' = [at EXCEPT ![h] = place]

OpenKnown(h, id) ==
  /\ at[h] = "first"
  /\ id \in sessions[owner[h]]
  /\ Goto(h, "resolved")
  /\ session' = [session EXCEPT ![h] = id]
  /\ arc' = arc \cup {h}
  /\ UNCHANGED <<hostVars, sessions, lookups, shell, lock, owner, used, historyVars>>

(* Open or DeleteSession of a session that is not in the map: an Error     *)
(* reply, and the handler ends.                                            *)
RefuseUnknown(h, id) ==
  /\ at[h] = "first"
  /\ id \notin sessions[owner[h]]
  /\ Goto(h, "ended")
  /\ UNCHANGED <<hostVars, sessions, lookups, shell, lock, owner, session, arc,
                 used, historyVars>>

OpenNew(h, id, persistent) ==
  /\ at[h] = "first"
  /\ id \notin used
  /\ used' = used \cup {id}
  /\ session' = [session EXCEPT ![h] = id]
  /\ \/ persistent /\ Goto(h, "lookup") /\ UNCHANGED ephemeral
     \/ ~persistent /\ Goto(h, "spawn") /\ ephemeral' = ephemeral \cup {id}
  /\ UNCHANGED <<hostVars, sessions, lookups, shell, lock, owner, arc, told, gone, lost, closed>>

CreateLookup(h) ==
  /\ at[h] = "lookup"
  /\ Goto(h, "spawn")
  /\ lookups' = lookups \cup {session[h]}
  /\ UNCHANGED <<hostVars, sessions, shell, lock, owner, session, arc, used, historyVars>>

Spawn(h) ==
  /\ at[h] = "spawn"
  /\ Goto(h, "insert")
  /\ shell' = [shell EXCEPT ![session[h]] = "idle"]
  /\ arc' = arc \cup {h}
  /\ UNCHANGED <<hostVars, sessions, lookups, lock, owner, session, used, historyVars>>

(* Mutant: every session goes into the map.                                *)
InsertAlways(h) ==
  /\ at[h] = "insert"
  /\ Goto(h, "resolved")
  /\ sessions' = [sessions EXCEPT ![owner[h]] = @ \cup {session[h]}]
  /\ UNCHANGED <<hostVars, lookups, shell, lock, owner, session, arc, used, historyVars>>

(* Only a persistent session goes into the map.                            *)
Insert(h) ==
  /\ at[h] = "insert"
  /\ Goto(h, "resolved")
  /\ sessions' = IF session[h] \in ephemeral
                 THEN sessions
                 ELSE [sessions EXCEPT ![owner[h]] = @ \cup {session[h]}]
  /\ UNCHANGED <<hostVars, lookups, shell, lock, owner, session, arc, used, historyVars>>

ReplyOpened(h) ==
  /\ at[h] = "resolved"
  /\ Goto(h, "open")
  /\ told' = told \cup {session[h]}
  /\ UNCHANGED <<hostVars, sessions, lookups, shell, lock, owner, session, arc,
                 used, ephemeral, gone, lost, closed>>

(* DeleteSession moves the reference from the map to the handler ...       *)
Remove(h, id) ==
  /\ at[h] = "first"
  /\ id \in sessions[owner[h]]
  /\ Goto(h, "unlink")
  /\ sessions' = [sessions EXCEPT ![owner[h]] = @ \ {id}]
  /\ session' = [session EXCEPT ![h] = id]
  /\ arc' = arc \cup {h}
  /\ gone' = gone \cup {id}
  /\ UNCHANGED <<hostVars, lookups, shell, lock, owner, used, ephemeral, told,
                 lost, closed>>

(* Mutant: a failing DEL of the lookup key is ignored.                     *)
DeleteLookupOrIgnore(h) ==
  /\ at[h] = "unlink"
  /\ Goto(h, "unlinked")
  /\ lookups' \in {lookups, lookups \ {session[h]}}
  /\ UNCHANGED <<hostVars, sessions, shell, lock, owner, session, arc, used, historyVars>>

(* Mutant: DeleteSession locks the shell.                                  *)
DeleteLookupWhenIdle(h) ==
  /\ at[h] = "unlink"
  /\ lock[session[h]] = None
  /\ Goto(h, "unlinked")
  /\ lookups' = lookups \ {session[h]}
  /\ UNCHANGED <<hostVars, sessions, shell, lock, owner, session, arc, used, historyVars>>

(* ... then deletes the lookup key ...                                     *)
DeleteLookup(h) ==
  /\ at[h] = "unlink"
  /\ Goto(h, "unlinked")
  /\ lookups' = lookups \ {session[h]}
  /\ UNCHANGED <<hostVars, sessions, shell, lock, owner, session, arc, used, historyVars>>

(* Mutant: DeleteSession kills the shell at once.                          *)
ReplyDeletedAndKill(h) ==
  /\ at[h] = "unlinked"
  /\ Goto(h, "ended")
  /\ closed' = closed \cup {session[h]}
  /\ arc' = arc \ {h}
  /\ shell' = [shell EXCEPT ![session[h]] = "dead"]
  /\ UNCHANGED <<hostVars, sessions, lookups, lock, owner, session, used, ephemeral,
                 told, gone, lost>>

(* ... then replies Deleted and returns, which drops the reference.        *)
ReplyDeleted(h) ==
  /\ at[h] = "unlinked"
  /\ Goto(h, "ended")
  /\ closed' = closed \cup {session[h]}
  /\ arc' = arc \ {h}
  /\ UNCHANGED <<sessions, session>>
  /\ DropShells
  /\ UNCHANGED <<hostVars, lookups, lock, owner, used, ephemeral, told, gone, lost>>
-----------------------------------------------------------------------------
(* The open session.                                                       *)

ReadRun(h) ==
  /\ at[h] = "open"
  /\ Goto(h, "locking")
  /\ UNCHANGED <<hostVars, sessions, lookups, shell, lock, owner, session, arc,
                 used, historyVars>>

LockShell(h) ==
  /\ at[h] = "locking"
  /\ lock[session[h]] = None
  /\ Goto(h, "running")
  /\ lock' = [lock EXCEPT ![session[h]] = h]
  /\ shell' = [shell EXCEPT ![session[h]] = IF @ = "idle" THEN "busy" ELSE @]
  /\ UNCHANGED <<hostVars, sessions, lookups, owner, session, arc, used, historyVars>>

(* run returns: the marker came, or 16 MiB came without it and the shell   *)
(* is still at the command, or the shell has exited, which is an error but *)
(* no end of the session.                                                  *)
FinishRun(h) ==
  /\ at[h] = "running"
  /\ Goto(h, "ran")
  /\ lock' = [lock EXCEPT ![session[h]] = None]
  /\ \/ shell[session[h]] = "busy" /\ shell' = [shell EXCEPT ![session[h]] = "idle"]
     \/ UNCHANGED shell
  /\ UNCHANGED <<hostVars, sessions, lookups, owner, session, arc, used, historyVars>>

(* A command, or a job it left behind, ends the shell.                     *)
ShellExits(id) ==
  /\ shell[id] \in {"idle", "busy"}
  /\ shell' = [shell EXCEPT ![id] = "exited"]
  /\ UNCHANGED <<hostVars, sessions, lookups, lock, handlerVars, used, historyVars>>

(* A command that run gave up comes to its end.                            *)
AbandonedEnds(id) ==
  /\ shell[id] = "busy" /\ lock[id] = None
  /\ shell' = [shell EXCEPT ![id] = "idle"]
  /\ UNCHANGED <<hostVars, sessions, lookups, lock, handlerVars, used, historyVars>>

ReplyRun(h) ==
  /\ at[h] = "ran"
  /\ Goto(h, "open")
  /\ UNCHANGED <<hostVars, sessions, lookups, shell, lock, owner, session, arc,
                 used, historyVars>>

(* Mutant: a session is forgotten with the connection that opened it.      *)
LeaveAndRemove(h) ==
  /\ at[h] \in {"open", "ran"}
  /\ Goto(h, "ended")
  /\ arc' = arc \ {h}
  /\ sessions' = [sessions EXCEPT ![owner[h]] = @ \ {session[h]}]
  /\ UNCHANGED session
  /\ DropShells
  /\ UNCHANGED <<hostVars, lookups, lock, owner, used, historyVars>>

(* Mutant: the reference is never dropped.                                 *)
LeaveWithoutDrop(h) ==
  /\ at[h] \in {"first", "lookup", "spawn", "resolved", "open", "ran",
                "unlink", "unlinked"}
  /\ Goto(h, "ended")
  /\ UNCHANGED <<hostVars, sessions, lookups, shell, lock, owner, session, arc, used,
                 historyVars>>

(* handle returns, after a Disconnect or because a receive, a call into    *)
(* Redis, the spawn, an acknowledgement or a reply failed.                 *)
Leave(h) ==
  /\ at[h] \in {"first", "lookup", "spawn", "resolved", "open", "ran",
                "unlink", "unlinked"}
  /\ Goto(h, "ended")
  /\ arc' = arc \ {h}
  /\ UNCHANGED <<sessions, session>>
  /\ DropShells
  /\ UNCHANGED <<hostVars, lookups, lock, owner, used, historyVars>>
-----------------------------------------------------------------------------
(* A client can name the sessions it, or another client of the same code,  *)
(* has been told of.                                                       *)
Next ==
  \/ \E p \in Hosts : Start(p) \/ Crash(p) \/ \E h \in Handlers : Accept(p, h)
  \/ \E id \in Ids : ShellExits(id) \/ AbandonedEnds(id) \/ OrphanEnds(id)
  \/ \E h \in Handlers :
       \/ \E id \in told : OpenKnown(h, id) \/ RefuseUnknown(h, id) \/ Remove(h, id)
       \/ \E id \in Ids, persistent \in BOOLEAN : OpenNew(h, id, persistent)
       \/ CreateLookup(h) \/ Spawn(h) \/ Insert(h) \/ ReplyOpened(h)
       \/ DeleteLookup(h) \/ ReplyDeleted(h)
       \/ ReadRun(h) \/ LockShell(h) \/ FinishRun(h) \/ ReplyRun(h)
       \/ Leave(h)

(* A handler that is neither waiting for its client nor for the shell      *)
(* goes on; a shell command may run for ever.                              *)
Fairness ==
  \A h \in Handlers :
    /\ WF_vars(CreateLookup(h) \/ Spawn(h) \/ Insert(h) \/ ReplyOpened(h))
    /\ WF_vars(DeleteLookup(h) \/ ReplyDeleted(h))
    /\ WF_vars(LockShell(h) \/ ReplyRun(h))

Spec == Init /\ [][Next]_vars
FairSpec == Spec /\ Fairness
-----------------------------------------------------------------------------
(* Properties.                                                             *)

Places == {"none", "first", "lookup", "spawn", "insert", "resolved", "open",
           "locking", "running", "ran", "unlink", "unlinked", "ended"}

(* In particular only a handler between finding or making its session and  *)
(* returning holds a reference to it.                                      *)
TypeOK ==
  /\ running \subseteq Hosts
  /\ starts \in 0 .. MAX_STARTS
  /\ sessions \in [Hosts -> SUBSET Ids]
  /\ lookups \subseteq Ids
  /\ shell \in [Ids -> Shells]
  /\ lock \in [Ids -> Handlers \cup {None}]
  /\ at \in [Handlers -> Places]
  /\ owner \in [Handlers -> Hosts \cup {None}]
  /\ session \in [Handlers -> Ids \cup {None}]
  /\ arc \subseteq {h \in Handlers :
                      at[h] \notin {"none", "first", "lookup", "spawn", "ended"}}
  /\ used \subseteq Ids
  /\ ephemeral \subseteq Ids /\ told \subseteq Ids /\ gone \subseteq Ids
  /\ lost \subseteq Ids /\ closed \subseteq Ids

(* "one fixed lookup for each active persistent session" (README.md:232-   *)
(* 233): no session is in the map without its key in Redis.                *)
LookupForEachSession == Active \subseteq lookups

(* "Host startup removes stale lookups" (README.md:241-242): and, while a  *)
(* process runs, no lookup names a session of a process that has died,     *)
(* whichever step of its life that process was in.  A lookup whose         *)
(* creation or deletion failed half-way may outlast its session until then *)
(* (server.rs:30-32, 81-90, 118-130).                                      *)
LookupsMatchSessions ==
  LookupForEachSession /\ (running # {} => lookups \cap lost = {})

(* A session whose deletion has been reported never comes back, neither in *)
(* a map nor in Redis, whatever handlers were still creating or using at   *)
(* the time and however often the host restarts (server.rs:80-95).         *)
ClosedStaysClosed == closed \cap (Active \cup lookups) = {}

(* The shell of a connection without --session is out of everybody else's  *)
(* reach: no map, no lookup, and no second handler (README.md:195-196).    *)
EphemeralIsPrivate ==
  \A id \in ephemeral :
    /\ id \notin Active \cup lookups
    /\ Cardinality({h \in arc : session[h] = id}) <= 1

(* A session a client has been told of can be opened again until it is     *)
(* deleted or its process dies (README.md:156-168); if its shell exited,   *)
(* it still opens, to fail at every run.                                   *)
ToldSessionsResumable == told \ (ephemeral \cup gone) \subseteq Active

(* The host never kills a shell under a handler that has it open, even     *)
(* when another connection deletes the session in the middle of a run: it  *)
(* is there until it exits by itself.  And two handlers never talk to one  *)
(* shell at once (server.rs:143-145).                                      *)
OpenShellsAreKept ==
  \A h \in Handlers :
    at[h] \in {"open", "locking", "running", "ran"} =>
      /\ shell[session[h]] \in Kept
      /\ at[h] = "running" <=> lock[session[h]] = h

(* A process has the session in its map, or one of its handlers that has   *)
(* not returned is creating, using or deleting it.                         *)
UsedBy(p, id) ==
  \/ id \in sessions[p]
  \/ \E h \in Handlers : owner[h] = p /\ at[h] \notin {"none", "ended"} /\ session[h] = id

InUse(id) == \E p \in running : UsedBy(p, id)

(* A shell that lives on and is of no use to anybody.                      *)
Loose(id) == shell[id] \in {"idle", "busy", "orphaned"} /\ ~InUse(id)

(* A shell outlives its use in one way only: its host dies while it is in  *)
(* the middle of a command.  No close, disconnect, failed step or failed   *)
(* reply leaves one behind, and one that is left behind is never taken up  *)
(* again, by no restarted host (server.rs:37-55, 81-95, 265-270).          *)
NoShellLeaks ==
  [][\A id \in Ids :
       /\ Loose(id)' =>
            \/ Loose(id)
            \/ shell[id] = "busy" /\ \E p \in running \ running' : UsedBy(p, id)
       /\ Loose(id) => ~InUse(id)']_vars

(* Deleting a session does not wait for the command that is running in it: *)
(* DeleteSession takes the map's lock only (server.rs:80-95).              *)
CloseNeverWaits == \A h \in Handlers : at[h] = "unlink" ~> at[h] = "ended"

(* README.md:180: close deletes "the last session, its host process, and   *)
(* its Redis lookup"; ARCHITECTURE.md:15: "removes the host-local shell".  *)
CloseKillsShell == \A id \in closed : shell[id] = "dead"
=============================================================================
