---------------------------- MODULE ClientStore ----------------------------
(***************************************************************************)
(* What the shex commands of one user keep between invocations: the auth   *)
(* file of a host (auth_file.rs) with its key in the credential store, and *)
(* the aliases of Redis servers (redis_store.rs), a secret and a marker    *)
(* file each, with a default.  Commands run at the same time without any   *)
(* lock; each may be killed, and the machine may reboot.                   *)
(*                                                                         *)
(* Auth files of different hosts share nothing: there is one.  A server is *)
(* what an entry has to match to keep its session: Redis URL and           *)
(* signature.  A file is absent, empty (just truncated), torn (left by a   *)
(* failed write or by two writes over each other) or whole.  The key of an *)
(* auth file is named by the process that drew it.                         *)
(***************************************************************************)
EXTENDS Naturals, Sequences, FiniteSets
CONSTANTS
  Processes,     \* commands that run at the same time
  Aliases, Servers,
  Local,         \* redis://127.0.0.1/
  SessionIds,
  Absent, Empty, Torn, None,
  MAX_COMMANDS, MAX_FAILURES, MAX_REBOOTS    \* bounds of the exploration

ASSUME LocalAssumption == Local \in Servers

ASSUME ValuesAssumption ==
  /\ MAX_COMMANDS \in Nat /\ MAX_FAILURES \in Nat /\ MAX_REBOOTS \in Nat
  /\ Absent \notin {Empty, Torn} /\ None \notin {"key"} \cup Servers
  /\ {Absent, Empty, Torn, "entry", "default"} \cap Aliases = {}
  /\ Processes \cap Aliases = {}
  /\ None \notin Processes \cup Aliases \cup (Servers \X SessionIds)
  /\ {Absent, Empty, Torn, None} \cap
       [key : Processes, server : Servers, session : (Servers \X SessionIds) \cup {None}] = {}

VARIABLES
  files,         \* "entry" is the auth file, "default" the default, and a marker for each alias
  secrets,       \* the credential store
  sessions,      \* at the hosts: "unused", "open" or "closed"
  pc, my,        \* where each command is, and its variables
  commands, failures, reboots,
  unreported,    \* history: sessions closed by a close that was told of an error
  overlap        \* history: two commands have run at the same time

world == <<sessions, unreported, commands, failures, reboots, overlap>>
vars == <<files, secrets, pc, my, world>>

Sessions == Servers \X SessionIds
Damage == {Empty, Torn}
Key == "key"

Store == INSTANCE CredentialStore
  WITH Entries <- Processes \cup Aliases, Secrets <- {Key} \cup Servers

NoLocals == [server |-> None, session |-> None, target |-> None,
             key |-> None, name |-> None, writes |-> <<>>]

Init ==
  /\ files = [f \in {"entry", "default"} \cup Aliases |-> Absent]
  /\ Store!Init
  /\ sessions = [s \in Sessions |-> "unused"]
  /\ pc = [p \in Processes |-> "idle"]
  /\ my = [p \in Processes |-> NoLocals]
  /\ commands = 0 /\ failures = 0 /\ reboots = 0
  /\ unreported = {} /\ overlap = FALSE

Goto(p, place, locals) ==
  /\ pc' = [pc EXCEPT ![p] = place]
  /\ my' = [my EXCEPT ![p] = locals]

Exit(p) == Goto(p, "idle", NoLocals)

Begin(p) ==
  /\ pc[p] = "idle"
  /\ commands < MAX_COMMANDS
  /\ commands' = commands + 1
  /\ overlap' = (overlap \/ \E q \in Processes : pc[q] # "idle")
  /\ UNCHANGED <<files, secrets, sessions, unreported, failures, reboots>>
-----------------------------------------------------------------------------
(* Writing in place.  A command that still has files to write is at        *)
(* "truncate" or, with the file open and empty, at "fill".                 *)

WholeEntry(v) == [key |-> v.key, server |-> v.server, session |-> v.session]

Saving(v) == [v EXCEPT !.writes = <<<<"entry", WholeEntry(v)>>>>]

Truncate(p) ==
  /\ pc[p] = "truncate"
  /\ LET file == Head(my[p].writes)[1] IN
       /\ file = "entry" => secrets[my[p].key] # None
       /\ files' = [files EXCEPT ![file] = Empty]
  /\ Goto(p, "fill", my[p])
  /\ UNCHANGED <<secrets, world>>

(* What a file may hold after content is written at its start: another     *)
(* command's longer text can stick out behind it.                          *)
Overlay(file, content) ==
  IF files[file] = Empty \/ (file # "entry" /\ files[file] = content)
  THEN {content} ELSE {content, Torn}

Fill(p) ==
  /\ pc[p] \in {"fill", "fill new"}
  /\ LET file == Head(my[p].writes)[1]
         rest == Tail(my[p].writes)
     IN /\ \E result \in Overlay(file, Head(my[p].writes)[2]) :
             files' = [files EXCEPT ![file] = result]
        /\ IF rest = <<>> THEN Exit(p)
           ELSE Goto(p, "truncate", [my[p] EXCEPT !.writes = rest])
  /\ UNCHANGED <<secrets, world>>
-----------------------------------------------------------------------------
(* redis add: the secret, the marker, and the default.                     *)

BeginAdd(p, a, s) ==
  /\ Begin(p)
  /\ Goto(p, "add", [NoLocals EXCEPT !.name = a, !.server = s])

(* Mutant: the default is written before the marker.                       *)
SetDefaultFirst(p) ==
  /\ pc[p] = "add"
  /\ Store!SetSecret(my[p].name, my[p].server)
  /\ LET a == my[p].name IN
       Goto(p, "truncate", [NoLocals EXCEPT !.writes = <<<<"default", a>>, <<a, a>>>>])
  /\ UNCHANGED <<files, world>>

SetAlias(p) ==
  /\ pc[p] = "add"
  /\ Store!SetSecret(my[p].name, my[p].server)
  /\ LET a == my[p].name IN
       Goto(p, "truncate", [NoLocals EXCEPT !.writes = <<<<a, a>>, <<"default", a>>>>])
  /\ UNCHANGED <<files, world>>
-----------------------------------------------------------------------------
(* auth.  The server is an alias, a URL, or left to the default.           *)

BeginAuth(p, ref) ==
  /\ Begin(p)
  /\ \/ ref = None /\ Goto(p, "default", NoLocals)
     \/ ref \in Aliases /\ Goto(p, "resolve", [NoLocals EXCEPT !.name = ref])
     \/ ref \in Servers /\ Goto(p, "login", [NoLocals EXCEPT !.server = ref])

ReadDefault(p) ==
  /\ pc[p] = "default"
  /\ \/ files["default"] = Absent /\ Goto(p, "list", NoLocals)
     \/ files["default"] \in Damage /\ Exit(p)
     \/ /\ files["default"] \in Aliases
        /\ Goto(p, "resolve", [NoLocals EXCEPT !.name = files["default"]])
  /\ UNCHANGED <<files, secrets, world>>

(* Without a default the only marker is taken, or the local server.        *)
ListMarkers(p) ==
  LET markers == {a \in Aliases : files[a] # Absent} IN
  /\ pc[p] = "list"
  /\ \/ markers = {} /\ Goto(p, "login", [NoLocals EXCEPT !.server = Local])
     \/ \E a \in markers :
          /\ markers = {a} /\ files[a] = a
          /\ Goto(p, "resolve", [NoLocals EXCEPT !.name = a])
     \/ (Cardinality(markers) > 1 \/ \E a \in markers : files[a] \in Damage) /\ Exit(p)
  /\ UNCHANGED <<files, secrets, world>>

Resolve(p) ==
  LET a == my[p].name IN
  /\ pc[p] = "resolve"
  /\ IF files[a] = a /\ secrets[a] # None
     THEN Goto(p, "login", [NoLocals EXCEPT !.server = secrets[a]])
     ELSE Exit(p)
  /\ UNCHANGED <<files, secrets, world>>

LogIn(p) ==
  /\ pc[p] = "login"
  /\ Goto(p, "store", my[p])
  /\ UNCHANGED <<files, secrets, world>>

(* AuthFile::load: a whole file and its key, or nothing.                   *)
Loaded ==
  IF files["entry"] \in Damage \cup {Absent} THEN None
  ELSE IF secrets[files["entry"].key] = None THEN None
  ELSE files["entry"]

(* create_for_host with a file already there: it must load, and its        *)
(* session is kept if it is for the same server.                           *)
UpdateEntry(p) ==
  /\ pc[p] = "store"
  /\ files["entry"] # Absent
  /\ IF Loaded = None THEN Exit(p)
     ELSE Goto(p, "truncate", Saving([my[p] EXCEPT
            !.key = Loaded.key,
            !.session = IF Loaded.server = my[p].server THEN Loaded.session ELSE None]))
  /\ UNCHANGED <<files, secrets, world>>

(* Mutant: the key is not stored.                                          *)
UseKey(p) ==
  /\ pc[p] = "store"
  /\ files["entry"] = Absent
  /\ Goto(p, "create", Saving([my[p] EXCEPT !.key = p]))
  /\ UNCHANGED <<files, secrets, world>>

NewKey(p) ==
  /\ pc[p] = "store"
  /\ files["entry"] = Absent
  /\ Store!SetSecret(p, Key)
  /\ Goto(p, "create", Saving([my[p] EXCEPT !.key = p]))
  /\ UNCHANGED <<files, world>>

(* create_new: the file must still be absent.                              *)
CreateEntry(p) ==
  /\ pc[p] = "create"
  /\ \/ files["entry"] = Absent /\ files' = [files EXCEPT !["entry"] = Empty] /\ Goto(p, "fill new", my[p])
     \/ files["entry"] # Absent /\ Goto(p, "clean up", my[p]) /\ UNCHANGED files
  /\ UNCHANGED <<secrets, world>>

(* Mutant: the key is left behind.                                         *)
ExitOnly(p) ==
  /\ pc[p] = "clean up"
  /\ Exit(p)
  /\ UNCHANGED <<files, secrets, world>>

(* Mutant: the clean-up deletes the key of the file it finds.              *)
CleanUpEntry(p) ==
  /\ pc[p] = "clean up"
  /\ Store!DeleteCredential(IF Loaded = None THEN p ELSE Loaded.key)
  /\ Exit(p)
  /\ UNCHANGED <<files, world>>

CleanUp(p) ==
  /\ pc[p] = "clean up"
  /\ Store!DeleteCredential(p)
  /\ Exit(p)
  /\ UNCHANGED <<files, world>>
-----------------------------------------------------------------------------
(* exec, with --past or --session if request is a session, and close.      *)

BeginExec(p, request) ==
  /\ Begin(p)
  /\ Loaded # None
  /\ Goto(p, "open", [NoLocals EXCEPT !.key = Loaded.key, !.server = Loaded.server,
                                      !.target = request])

OpenSession(p) ==
  /\ pc[p] = "open"
  /\ \E s \in Sessions :
       /\ s[1] = my[p].server
       /\ \/ my[p].target = None /\ sessions[s] = "unused"
          \/ my[p].target = s /\ sessions[s] = "open"
       /\ sessions' = [sessions EXCEPT ![s] = "open"]
       /\ Goto(p, "opened", [my[p] EXCEPT !.session = s])
  /\ UNCHANGED <<files, secrets, unreported, commands, failures, reboots, overlap>>

(* The client reads Opened.                                                *)
ReadOpened(p) ==
  /\ pc[p] = "opened"
  /\ Goto(p, "truncate", Saving(my[p]))
  /\ UNCHANGED <<files, secrets, world>>

(* The last session is closed if no other is named.                        *)
BeginClose(p, request) ==
  /\ Begin(p)
  /\ Loaded # None
  /\ (request = None) => (Loaded.session # None)
  /\ Goto(p, "delete", [NoLocals EXCEPT
       !.key = Loaded.key, !.server = Loaded.server, !.session = Loaded.session,
       !.target = IF request = None THEN Loaded.session ELSE request])

(* The host takes the session out of its map before anything of this can   *)
(* fail: deleting the lookup, acknowledging the request, replying.         *)
DeleteSession(p) ==
  LET s == my[p].target IN
  /\ pc[p] = "delete"
  /\ s[1] = my[p].server /\ sessions[s] = "open"
  /\ sessions' = [sessions EXCEPT ![s] = "closed"]
  /\ Goto(p, "deleted", my[p])
  /\ UNCHANGED <<files, secrets, unreported, commands, failures, reboots, overlap>>

(* Mutant: close does not save.                                            *)
ReadDeletedOnly(p) ==
  /\ pc[p] = "deleted"
  /\ Exit(p)
  /\ UNCHANGED <<files, secrets, world>>

(* The client reads Deleted, and forgets its last session if this is it.   *)
ReadDeleted(p) ==
  /\ pc[p] = "deleted"
  /\ IF my[p].session = my[p].target
     THEN Goto(p, "truncate", Saving([my[p] EXCEPT !.session = None]))
     ELSE Exit(p)
  /\ UNCHANGED <<files, secrets, world>>
-----------------------------------------------------------------------------
(* What goes wrong.                                                        *)

(* The host refuses, does not know the session, cannot be reached, or has  *)
(* done what it was asked but could not say so.  The command saves nothing.*)
Refused(p) ==
  /\ pc[p] \in {"login", "open", "opened", "delete", "deleted"}
  /\ Exit(p)
  /\ unreported' = IF pc[p] = "deleted" THEN unreported \cup {my[p].target} ELSE unreported
  /\ UNCHANGED <<files, secrets, sessions, commands, failures, reboots, overlap>>

(* A file cannot be created, or not written completely.  The file of a new *)
(* entry has been created then, and its key is deleted again.              *)
FailWrite(p) ==
  /\ pc[p] \in {"create", "fill", "fill new"}
  /\ failures < MAX_FAILURES
  /\ failures' = failures + 1
  /\ \/ UNCHANGED files
     \/ pc[p] # "create" /\ files' = [files EXCEPT ![Head(my[p].writes)[1]] = Torn]
  /\ IF pc[p] = "fill" THEN Exit(p) ELSE Goto(p, "clean up", my[p])
  /\ UNCHANGED <<secrets, sessions, unreported, commands, reboots, overlap>>

Kill(p) ==
  /\ pc[p] # "idle"
  /\ failures < MAX_FAILURES
  /\ failures' = failures + 1
  /\ Exit(p)
  /\ UNCHANGED <<files, secrets, sessions, unreported, commands, reboots, overlap>>

(* The kernel keyring, where it is the backend, is empty after a reboot.   *)
Reboot ==
  /\ reboots < MAX_REBOOTS
  /\ reboots' = reboots + 1
  /\ secrets' = [e \in DOMAIN secrets |-> None]
  /\ pc' = [p \in Processes |-> "idle"]
  /\ my' = [p \in Processes |-> NoLocals]
  /\ UNCHANGED <<files, sessions, unreported, commands, failures, overlap>>
-----------------------------------------------------------------------------
Command(p) ==
  \/ \E a \in Aliases, s \in Servers : BeginAdd(p, a, s)
  \/ \E ref \in {None} \cup Aliases \cup Servers : BeginAuth(p, ref)
  \/ \E request \in {None} \cup Sessions : BeginExec(p, request) \/ BeginClose(p, request)

Step(p) ==
  \/ SetAlias(p) \/ Truncate(p) \/ Fill(p)
  \/ ReadDefault(p) \/ ListMarkers(p) \/ Resolve(p) \/ LogIn(p)
  \/ UpdateEntry(p) \/ NewKey(p) \/ CreateEntry(p) \/ CleanUp(p)
  \/ OpenSession(p) \/ ReadOpened(p) \/ DeleteSession(p) \/ ReadDeleted(p)
  \/ Refused(p)

Next ==
  \/ \E p \in Processes : Command(p) \/ Step(p) \/ FailWrite(p) \/ Kill(p)
  \/ Reboot

Spec == Init /\ [][Next]_vars
-----------------------------------------------------------------------------
(* Properties.                                                             *)

Quiet == \A p \in Processes : pc[p] = "idle"

Interrupted == failures > 0 \/ reboots > 0

(* The key of a whole auth file is never deleted: not when two commands    *)
(* create the file at once and the loser cleans up, nor when a write fails *)
(* (auth_file.rs:62-73).  Only a reboot loses it.                          *)
KeyOfEntryIsKept ==
  files["entry"] \notin Damage \cup {Absent} /\ reboots = 0
    => secrets[files["entry"].key] = Key

(* An auth that fails takes its key back: unless a command was killed, a   *)
(* write failed or the machine rebooted, the store holds no key but that   *)
(* of the auth file, whoever lost the race for it (auth_file.rs:69-73).    *)
NoOrphanKeys ==
  Quiet /\ ~Interrupted =>
    \A p \in Processes : secrets[p] # None =>
      files["entry"] # Absent /\ (files["entry"] \in Damage \/ files["entry"].key = p)

(* Wherever redis add is killed, and however many run at once, a default   *)
(* that can be read names an alias that has a marker file, be it damaged,  *)
(* and a secret (redis_store.rs:27-36).                                    *)
DefaultIsSaved ==
  files["default"] \in Aliases =>
    /\ files[files["default"]] # Absent
    /\ secrets[files["default"]] # None \/ reboots > 0

(* The session that exec --past would resume belongs to the server of the  *)
(* entry; and if commands did not overlap and none was interrupted, it has *)
(* been closed by none of them, but for a close that the host carried out  *)
(* and could not report: that one ends with an error and saves nothing     *)
(* (auth_file.rs:52-56, main.rs:298, 327-338, server.rs:81-92).            *)
LastSessionIsUsable ==
  Loaded # None /\ Loaded.session # None =>
    /\ Loaded.session[1] = Loaded.server
    /\ Quiet /\ ~Interrupted /\ ~overlap =>
         sessions[Loaded.session] = "open" \/ Loaded.session \in unreported

(* Saving in place: between commands, the auth file can be loaded unless   *)
(* two commands overlapped, or one was interrupted (auth_file.rs:108-119). *)
EntryLoads ==
  Quiet /\ ~Interrupted /\ ~overlap => files["entry"] = Absent \/ Loaded # None

(* README.md:149, "Re-running auth safely updates that host's entry", and  *)
(* credential_store.rs:101, "re-add credentials after reboot": an auth     *)
(* that has logged in, finds a whole auth file, overlaps with no other     *)
(* command and is not interrupted, saves.                                  *)
ReauthSaves ==
  [][\A p \in Processes :
       pc[p] = "store" /\ pc'[p] = "idle" /\ files["entry"] \notin Damage
         => overlap \/ failures' > failures \/ reboots' > reboots]_vars
=============================================================================
