--------------------------- MODULE Sessions_proofs ---------------------------
(***************************************************************************)
(* Proofs about Sessions, for any number of processes, connections and     *)
(* identifiers.  The argument: an identifier is drawn once, so a session   *)
(* has one home, and while it is being created one handler; what is gone   *)
(* is in no map; and the host keeps a shell as long as it is referred to.  *)
(***************************************************************************)
EXTENDS Sessions, FiniteSetTheorems, TLAPS

Live(h) == at[h] \notin {"none", "ended"}
Creating(h) == at[h] \in {"lookup", "spawn", "insert"}
Holding(h) == at[h] \in {"insert", "resolved", "open", "locking", "running",
                         "ran", "unlink", "unlinked"}

(* Live handlers and non-empty maps belong to running processes.           *)
ProcessInv ==
  /\ \A h \in Handlers : Live(h) => owner[h] \in running
  /\ \A h \in Handlers : at[h] \in {"none", "first"} => session[h] = None
  /\ \A p \in Hosts : p \notin running => sessions[p] = {}

(* Every identifier in sight has been drawn.                               *)
IdsInv ==
  /\ \A h \in Handlers : session[h] \in used \cup {None}
  /\ \A h \in Handlers : Creating(h) \/ Holding(h) => session[h] \in used
  /\ \A p \in Hosts : sessions[p] \subseteq used
  /\ lookups \subseteq used /\ told \subseteq used
  /\ gone \subseteq used /\ ephemeral \subseteq used
  /\ closed \subseteq gone

(* A session belongs to one process.                                       *)
HomeInv ==
  /\ \A g, h \in Handlers : session[g] = session[h] /\ session[h] # None => owner[g] = owner[h]
  /\ \A h \in Handlers, p \in Hosts : session[h] \in sessions[p] => owner[h] = p
  /\ \A p, q \in Hosts : p # q => sessions[p] \cap sessions[q] = {}

(* A session that is being created, or is ephemeral, is known to one       *)
(* handler only.                                                           *)
PrivateInv ==
  /\ \A g, h \in Handlers :
       session[g] = session[h] /\ (Creating(h) \/ session[h] \in ephemeral) => g = h
  /\ \A h \in Handlers : Creating(h) =>
       session[h] \notin gone /\ \A p \in Hosts : session[h] \notin sessions[p]
  /\ \A h \in Handlers : at[h] = "lookup" => session[h] \notin ephemeral
  /\ \A p \in Hosts : ephemeral \cap sessions[p] = {}
  /\ ephemeral \cap lookups = {}

(* What is gone is in no map, and what has been resolved is not lost.      *)
GoneInv ==
  /\ \A p \in Hosts : gone \cap sessions[p] = {}
  /\ closed \cap lookups = {}
  /\ \A h \in Handlers : at[h] \in {"unlink", "unlinked"} => session[h] \in gone
  /\ \A h \in Handlers : at[h] = "unlinked" => session[h] \notin lookups
  /\ \A h \in Handlers : at[h] = "resolved" =>
       session[h] \in ephemeral \cup gone \cup sessions[owner[h]]
  /\ \A id \in told : id \in ephemeral \cup gone \/ \E p \in Hosts : id \in sessions[p]

(* A shell is kept if and only if a map or a handler refers to it, and not *)
(* started while its session is being created.                             *)
ReferenceInv ==
  /\ \A h \in Handlers : h \in arc <=> Holding(h)
  /\ \A h \in arc : shell[session[h]] \in Kept
  /\ \A p \in Hosts : \A id \in sessions[p] : shell[id] \in Kept
  /\ \A id \in Ids : shell[id] \in Kept =>
       (\E p \in Hosts : id \in sessions[p]) \/ \E h \in arc : session[h] = id
  /\ \A h \in Handlers : at[h] \in {"lookup", "spawn"} => shell[session[h]] = "none"
  /\ \A id \in Ids \ used : shell[id] = "none"

(* A shell's mutex is held by the handler that is running a command in it. *)
LockInv ==
  /\ \A id \in Ids : lock[id] # None =>
       at[lock[id]] = "running" /\ session[lock[id]] = id
  /\ \A h \in Handlers : at[h] = "running" => lock[session[h]] = h

IInv == TypeOK /\ ProcessInv /\ IdsInv /\ HomeInv /\ PrivateInv /\ GoneInv
          /\ ReferenceInv /\ LockInv
-----------------------------------------------------------------------------
(* IInv is inductive.                                                      *)
LEMMA InitInv == Init => IInv
  BY NoneAssumption, StartsAssumption
     DEF Init, IInv, TypeOK, ProcessInv, IdsInv, HomeInv, PrivateInv, GoneInv,
         ReferenceInv, LockInv, Live, Creating, Holding, Places, Shells, Kept

LEMMA StepInv == IInv /\ [Next]_vars => IInv'
<1> SUFFICES ASSUME IInv, [Next]_vars PROVE IInv'
  OBVIOUS
<1> USE NoneAssumption, StartsAssumption
    DEF IInv, TypeOK, ProcessInv, IdsInv, HomeInv, PrivateInv, GoneInv, ReferenceInv,
        LockInv, Live, Creating, Holding, Places, Shells, Kept, hostVars, handlerVars, historyVars
<1>1. ASSUME NEW p \in Hosts, Start(p) PROVE IInv'
  BY <1>1 DEF Start
<1>2. ASSUME NEW p \in Hosts, Crash(p) PROVE IInv'
  BY <1>2 DEF Crash
<1>3. ASSUME NEW id \in Ids, OrphanEnds(id) PROVE IInv'
  BY <1>3 DEF OrphanEnds
<1>4. ASSUME NEW p \in Hosts, NEW h \in Handlers, Accept(p, h) PROVE IInv'
  BY <1>4 DEF Accept
<1>5. ASSUME NEW h \in Handlers, NEW id \in told, OpenKnown(h, id) PROVE IInv'
  BY <1>5 DEF OpenKnown, Goto
<1>6. ASSUME NEW h \in Handlers, NEW id \in told, RefuseUnknown(h, id) PROVE IInv'
  BY <1>6 DEF RefuseUnknown, Goto
<1>7. ASSUME NEW h \in Handlers, NEW id \in told, Remove(h, id) PROVE IInv'
  BY <1>7 DEF Remove, Goto
<1>8. ASSUME NEW h \in Handlers, NEW id \in Ids, NEW persistent \in BOOLEAN, OpenNew(h, id, persistent) PROVE IInv'
  BY <1>8 DEF OpenNew, Goto
<1>9. ASSUME NEW h \in Handlers, CreateLookup(h) PROVE IInv'
  BY <1>9 DEF CreateLookup, Goto
<1>10. ASSUME NEW h \in Handlers, Spawn(h) PROVE IInv'
  BY <1>10 DEF Spawn, Goto
<1>11. ASSUME NEW h \in Handlers, Insert(h) PROVE IInv'
  BY <1>11 DEF Insert, Goto
<1>12. ASSUME NEW h \in Handlers, ReplyOpened(h) PROVE IInv'
  BY <1>12 DEF ReplyOpened, Goto
<1>13. ASSUME NEW h \in Handlers, DeleteLookup(h) PROVE IInv'
  BY <1>13 DEF DeleteLookup, Goto
<1>14. ASSUME NEW h \in Handlers, ReplyDeleted(h) PROVE IInv'
  BY <1>14 DEF ReplyDeleted, Goto, DropShells, Referenced, Active
<1>15. ASSUME NEW h \in Handlers, ReadRun(h) PROVE IInv'
  BY <1>15 DEF ReadRun, Goto
<1>16. ASSUME NEW h \in Handlers, LockShell(h) PROVE IInv'
  BY <1>16 DEF LockShell, Goto
<1>17. ASSUME NEW h \in Handlers, FinishRun(h) PROVE IInv'
  BY <1>17 DEF FinishRun, Goto
<1>18. ASSUME NEW h \in Handlers, ReplyRun(h) PROVE IInv'
  BY <1>18 DEF ReplyRun, Goto
<1>19. ASSUME NEW h \in Handlers, Leave(h) PROVE IInv'
  BY <1>19 DEF Leave, Goto, DropShells, Referenced, Active
<1>20. ASSUME NEW id \in Ids, ShellExits(id) PROVE IInv'
  BY <1>20 DEF ShellExits
<1>21. ASSUME NEW id \in Ids, AbandonedEnds(id) PROVE IInv'
  BY <1>21 DEF AbandonedEnds
<1>22. CASE UNCHANGED vars
  BY <1>22 DEF vars
<1> HIDE NoneAssumption, StartsAssumption DEF IInv
<1> QED
  BY <1>1, <1>2, <1>3, <1>4, <1>5, <1>6, <1>7, <1>8, <1>9, <1>10, <1>11, <1>12,
     <1>13, <1>14, <1>15, <1>16, <1>17, <1>18, <1>19, <1>20, <1>21, <1>22
     DEF Next

(* The invariant on which the theorems rest (server.rs:57-177).            *)
THEOREM Invariant == Spec => []IInv
<1> QED
  BY InitInv, StepInv, PTL DEF Spec

(* Every variable keeps its type, and only a handler between finding or    *)
(* making its session and returning holds a reference to it.               *)
THEOREM SessionsTypeCorrect == Spec => []TypeOK
<1>1. IInv => TypeOK
  BY DEF IInv
<1> QED
  BY <1>1, Invariant, PTL

(* A session whose deletion has been reported is in no map and has no      *)
(* lookup, with any number of processes that race (server.rs:80-95).       *)
THEOREM ClosedSessionsStayClosed == Spec => []ClosedStaysClosed
<1>1. IInv => ClosedStaysClosed
  BY DEF IInv, IdsInv, GoneInv, TypeOK, ClosedStaysClosed, Active
<1> QED
  BY <1>1, Invariant, PTL

(* An ephemeral session is out of the reach of everybody but the handler   *)
(* that made it (server.rs:115-138).                                       *)
THEOREM EphemeralSessionsArePrivate == Spec => []EphemeralIsPrivate
<1>1. IInv => EphemeralIsPrivate
  <2> SUFFICES ASSUME IInv, NEW id \in ephemeral
               PROVE  /\ id \notin Active \cup lookups
                      /\ Cardinality({h \in arc : session[h] = id}) <= 1
    BY DEF EphemeralIsPrivate
  <2> DEFINE users == {h \in arc : session[h] = id}
  <2>1. id \notin Active \cup lookups
    BY DEF IInv, PrivateInv, TypeOK, Active
  <2>2. \A g, h \in users : g = h
    BY DEF IInv, PrivateInv, TypeOK
  <2>3. CASE users = {}
    BY <2>1, <2>3, FS_EmptySet
  <2>4. ASSUME NEW h \in users PROVE Cardinality(users) <= 1
    <3>1. users = {h}
      BY <2>2, <2>4
    <3>2. Cardinality({h}) = 1
      BY FS_Singleton
    <3> QED
      BY <3>1, <3>2
  <2> QED
    BY <2>1, <2>3, <2>4
<1> QED
  BY <1>1, Invariant, PTL

(* A session a client has been told of stays in a map until it is deleted  *)
(* or its process dies (server.rs:100-140).                                *)
THEOREM ToldSessionsStayResumable == Spec => []ToldSessionsResumable
<1>1. IInv => ToldSessionsResumable
  BY DEF IInv, GoneInv, ToldSessionsResumable, Active
<1> QED
  BY <1>1, Invariant, PTL

(* The host kills no shell under a handler that has it open, and no two    *)
(* handlers talk to one shell at once (server.rs:141-152).                 *)
THEOREM ShellsOutliveTheirUse == Spec => []OpenShellsAreKept
<1>1. IInv => OpenShellsAreKept
  BY NoneAssumption DEF IInv, IdsInv, ReferenceInv, LockInv, TypeOK, Holding, OpenShellsAreKept
<1> QED
  BY <1>1, Invariant, PTL
-----------------------------------------------------------------------------
(* Only a dying host leaves a shell behind.  In a state of the invariant   *)
(* the shells that live and nobody uses are the orphaned ones.             *)
Unused(id) ==
  /\ Loose(id) <=> shell[id] = "orphaned"
  /\ shell[id] \in {"orphaned", "dead"} => ~InUse(id)

LEMMA UnusedShells == IInv => \A id \in Ids : Unused(id)
<1> SUFFICES ASSUME IInv, NEW id \in Ids PROVE Unused(id)
  OBVIOUS
<1> USE NoneAssumption DEF IInv, TypeOK, ProcessInv, ReferenceInv, Kept, Live, Holding
<1>1. ASSUME Loose(id) PROVE shell[id] = "orphaned"
  <2>1. \A p \in Hosts : id \notin sessions[p]
    BY <1>1 DEF Loose, InUse, UsedBy
  <2>2. \A h \in arc : session[h] # id
    BY <1>1 DEF Loose, InUse, UsedBy
  <2> QED
    BY <1>1, <2>1, <2>2 DEF Loose
<1>2. ASSUME shell[id] \in {"orphaned", "dead"} PROVE ~InUse(id)
  <2>1. \A p \in running : id \notin sessions[p]
    BY <1>2
  <2>2. \A h \in Handlers : at[h] \notin {"none", "ended"} => session[h] # id
    BY <1>2 DEF Places
  <2> QED
    BY <2>1, <2>2 DEF InUse, UsedBy
<1> QED
  BY <1>1, <1>2 DEF Loose, Unused

(* Only Crash makes an orphan, and an orphan can only end.                 *)
Orphaning(id) ==
  /\ shell'[id] = "orphaned" =>
       \/ shell[id] = "orphaned"
       \/ shell[id] = "busy" /\ \E p \in running \ running' : UsedBy(p, id)
  /\ shell[id] = "orphaned" => shell'[id] \in {"orphaned", "dead"}

LEMMA OrphanStep ==
  ASSUME IInv, [Next]_vars, NEW id \in Ids
  PROVE  Orphaning(id)
<1> USE DEF IInv, TypeOK, Kept, Orphaning
<1>1. ASSUME NEW p \in Hosts, Crash(p) PROVE Orphaning(id)
  <2>1. p \in running \ running'
    BY <1>1 DEF Crash
  <2>2. shell'[id] = "orphaned" => shell[id] = "orphaned" \/ (shell[id] = "busy" /\ UsedBy(p, id))
    BY <1>1 DEF Crash, UsedBy, ReferenceInv, Holding
  <2>3. shell[id] = "orphaned" => shell'[id] \in {"orphaned", "dead"}
    BY <1>1 DEF Crash
  <2> QED
    BY <2>1, <2>2, <2>3
<1>2. ASSUME NEW p \in Hosts, Start(p) \/ \E h \in Handlers : Accept(p, h) PROVE Orphaning(id)
  BY <1>2 DEF Start, Accept
<1>3. ASSUME NEW other \in Ids, ShellExits(other) \/ AbandonedEnds(other) \/ OrphanEnds(other)
      PROVE  Orphaning(id)
  BY <1>3 DEF ShellExits, AbandonedEnds, OrphanEnds
<1>4. ASSUME NEW h \in Handlers, NEW other \in told,
             OpenKnown(h, other) \/ RefuseUnknown(h, other) \/ Remove(h, other)
      PROVE  Orphaning(id)
  BY <1>4 DEF OpenKnown, RefuseUnknown, Remove
<1>5. ASSUME NEW h \in Handlers, NEW other \in Ids, NEW persistent \in BOOLEAN,
             OpenNew(h, other, persistent)
      PROVE  Orphaning(id)
  BY <1>5 DEF OpenNew
<1>6. ASSUME NEW h \in Handlers, Spawn(h) PROVE Orphaning(id)
  BY <1>6 DEF Spawn, ReferenceInv
<1>7. ASSUME NEW h \in Handlers, CreateLookup(h) \/ Insert(h) \/ ReplyOpened(h)
      PROVE  Orphaning(id)
  BY <1>7 DEF CreateLookup, Insert, ReplyOpened
<1>8. ASSUME NEW h \in Handlers, DeleteLookup(h) \/ ReplyDeleted(h) \/ Leave(h)
      PROVE  Orphaning(id)
  BY <1>8 DEF DeleteLookup, ReplyDeleted, Leave, DropShells
<1>9. ASSUME NEW h \in Handlers, ReadRun(h) \/ LockShell(h) \/ FinishRun(h) \/ ReplyRun(h)
      PROVE  Orphaning(id)
  BY <1>9 DEF ReadRun, LockShell, FinishRun, ReplyRun
<1>10. CASE UNCHANGED vars
  BY <1>10 DEF vars
<1> HIDE DEF IInv, Orphaning
<1> QED
  BY <1>1, <1>2, <1>3, <1>4, <1>5, <1>6, <1>7, <1>8, <1>9, <1>10 DEF Next

(* A shell that lives on unused was in the middle of a command when its    *)
(* host died, and is never used again (server.rs:37-55, 81-95, 265-270).   *)
THEOREM ShellsDoNotLeak == Spec => NoShellLeaks
<1> DEFINE AllUnused == \A id \in Ids : Unused(id)
           Leak(id) ==
             /\ Loose(id)' =>
                  \/ Loose(id)
                  \/ shell[id] = "busy" /\ \E p \in running \ running' : UsedBy(p, id)
             /\ Loose(id) => ~InUse(id)'
<1>1. IInv => AllUnused
  BY UnusedShells
<1>2. ASSUME IInv, AllUnused, AllUnused', [Next]_vars, NEW id \in Ids
      PROVE  Leak(id)
  <2>1. Orphaning(id)
    BY <1>2, OrphanStep
  <2>2. Unused(id) /\ Unused(id)'
    BY <1>2
  <2> QED
    BY <2>1, <2>2 DEF Orphaning, Unused
<1>3. IInv /\ AllUnused /\ AllUnused' /\ [Next]_vars => [\A id \in Ids : Leak(id)]_vars
  BY <1>2
<1> QED
  BY <1>1, <1>3, Invariant, PTL DEF Spec, NoShellLeaks
-----------------------------------------------------------------------------
(* While one process serves the hostname, every session in its map has its *)
(* lookup key, and one about to be inserted has it already; and nothing    *)
(* that a living handler deals with was drawn by an earlier process.  With *)
(* two, the second to start clears the lookups of the first.               *)
LookupInv ==
  /\ \A p \in Hosts : sessions[p] \subseteq lookups
  /\ \A h \in Handlers : at[h] \in {"spawn", "insert"} =>
       session[h] \in ephemeral \cup lookups
  /\ lost \subseteq used
  /\ \A h \in Handlers : Live(h) => session[h] \notin lost
  /\ \A p \in Hosts : sessions[p] \cap lost = {}
  /\ running # {} => lookups \cap lost = {}

LEMMA StepLookupInv ==
  ASSUME NEW host, Hosts = {host}, IInv, LookupInv, [Next]_vars
  PROVE  LookupInv'
<1> USE NoneAssumption
    DEF IInv, TypeOK, ProcessInv, IdsInv, PrivateInv, GoneInv, LookupInv, Live, Creating,
        hostVars, handlerVars, historyVars
<1>1. ASSUME NEW p \in Hosts, Start(p) \/ Crash(p) PROVE LookupInv'
  BY <1>1 DEF Start, Crash
<1>2. ASSUME NEW h \in Handlers, NEW id \in told,
             OpenKnown(h, id) \/ RefuseUnknown(h, id) \/ Remove(h, id)
      PROVE  LookupInv'
  BY <1>2 DEF OpenKnown, RefuseUnknown, Remove, Goto
<1>3. ASSUME NEW h \in Handlers, NEW id \in Ids, NEW persistent \in BOOLEAN,
             OpenNew(h, id, persistent)
      PROVE  LookupInv'
  BY <1>3 DEF OpenNew, Goto
<1>4. ASSUME NEW h \in Handlers, CreateLookup(h) \/ Spawn(h) \/ Insert(h) \/ ReplyOpened(h)
      PROVE  LookupInv'
  BY <1>4 DEF CreateLookup, Spawn, Insert, ReplyOpened, Goto
<1>5. ASSUME NEW h \in Handlers, DeleteLookup(h)
      PROVE  LookupInv'
  BY <1>5 DEF DeleteLookup, Goto
<1>6. ASSUME NEW h \in Handlers, ReplyDeleted(h) \/ Leave(h)
      PROVE  LookupInv'
  BY <1>6 DEF ReplyDeleted, Leave, Goto
<1>7. ASSUME NEW h \in Handlers, ReadRun(h) \/ LockShell(h) \/ FinishRun(h) \/ ReplyRun(h)
      PROVE  LookupInv'
  BY <1>7 DEF ReadRun, LockShell, FinishRun, ReplyRun, Goto
<1>8. ASSUME NEW p \in Hosts, NEW h \in Handlers, Accept(p, h) PROVE LookupInv'
  BY <1>8 DEF Accept
<1>9. ASSUME NEW id \in Ids, ShellExits(id) \/ AbandonedEnds(id) \/ OrphanEnds(id)
      PROVE  LookupInv'
  BY <1>9 DEF ShellExits, AbandonedEnds, OrphanEnds
<1>10. CASE UNCHANGED vars
  BY <1>10 DEF vars
<1> HIDE NoneAssumption DEF IInv, LookupInv
<1> QED
  BY <1>1, <1>2, <1>3, <1>4, <1>5, <1>6, <1>7, <1>8, <1>9, <1>10 DEF Next

(* With one serve process at a time for the hostname, no session is in the *)
(* map without its key in Redis, and no key of an earlier process's        *)
(* session is left (server.rs:30-32, 80-95, 115-138).  A second process    *)
(* breaks it: the run second_serve.                                        *)
THEOREM LookupsForOneHost ==
  ASSUME NEW host, Hosts = {host}
  PROVE  Spec => []LookupsMatchSessions
<1>1. Init => LookupInv
  BY DEF Init, LookupInv, Live
<1>2. IInv /\ LookupInv /\ [Next]_vars => LookupInv'
  BY StepLookupInv
<1>3. LookupInv => LookupsMatchSessions
  BY DEF LookupInv, LookupsMatchSessions, LookupForEachSession, Active
<1> QED
  BY <1>1, <1>2, <1>3, Invariant, PTL DEF Spec
=============================================================================
