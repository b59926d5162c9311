-------------------------- MODULE ClientStore_proofs --------------------------
(***************************************************************************)
(* Proofs about ClientStore, for any number of commands at a time, any      *)
(* aliases and servers.  The argument: an auth file is created once, all    *)
(* who save it have the key of its creator, and only a command whose key    *)
(* nobody has deletes one; a default is written last; and commands that do  *)
(* not overlap take turns with the auth file.                               *)
(***************************************************************************)
EXTENDS ClientStore, TLAPS

Entries == [key : Processes, server : Servers, session : Sessions \cup {None}]

Whole == files["entry"] \in Entries

(* What a command may have left to write.                                  *)
EntryWrites(e) == <<<<"entry", e>>>>
AliasWrites(a) == <<<<a, a>>, <<"default", a>>>>
DefaultWrites(a) == <<<<"default", a>>>>

Writes == {<<>>} \cup {EntryWrites(e) : e \in Entries}
            \cup {AliasWrites(a) : a \in Aliases} \cup {DefaultWrites(a) : a \in Aliases}

Locals == [server : Servers \cup {None}, session : Sessions \cup {None},
           target : Sessions \cup {None}, key : Processes \cup {None},
           name : Aliases \cup {None}, writes : Writes]

(* Where a command has no key yet, and where it has drawn a new one.       *)
Keyless == {"idle", "default", "list", "resolve", "login", "store", "add"}
New == {"create", "fill new", "clean up"}
AtHost == {"open", "opened", "delete", "deleted"}
Places == Keyless \cup New \cup AtHost \cup {"truncate", "fill"}

TypeInv ==
  /\ files \in [{"entry", "default"} \cup Aliases -> Entries \cup Aliases \cup {Absent, Empty, Torn}]
  /\ files["entry"] \in Entries \cup {Absent, Empty, Torn}
  /\ files["default"] \in Aliases \cup {Absent, Empty, Torn}
  /\ \A a \in Aliases : files[a] \in {a, Absent, Empty, Torn}
  /\ secrets \in [Processes \cup Aliases -> {Key} \cup Servers \cup {None}]
  /\ \A a \in Aliases : secrets[a] \in Servers \cup {None}
  /\ sessions \in [Sessions -> {"unused", "open", "closed"}]
  /\ unreported \subseteq Sessions
  /\ pc \in [Processes -> Places] /\ my \in [Processes -> Locals]
  /\ commands \in Nat /\ failures \in Nat /\ reboots \in Nat
  /\ overlap \in BOOLEAN

-----------------------------------------------------------------------------
HasSecret(a) == secrets[a] # None \/ reboots > 0
Saved(a) == files[a] # Absent /\ HasSecret(a)

WritesEntry(p) == my[p].key # None /\ my[p].writes = EntryWrites(WholeEntry(my[p]))
WritesAlias(p) ==
  /\ my[p].key = None
  /\ \E a \in Aliases : /\ my[p].writes = AliasWrites(a) /\ HasSecret(a)
                        /\ pc[p] = "fill" => files[a] # Absent
WritesDefault(p) ==
  /\ my[p].key = None
  /\ \E a \in Aliases : my[p].writes = DefaultWrites(a) /\ Saved(a)

(* What a command knows at each place.                                     *)
LocalsOf(p) ==
  /\ pc[p] \in Keyless => my[p].key = None /\ my[p].session = None
  /\ pc[p] \in {"login", "store", "add"} => my[p].server # None
  /\ my[p].key # None => my[p].server # None
  /\ pc[p] \in {"resolve", "add"} => my[p].name # None
  /\ pc[p] \in New => my[p].key = p /\ WritesEntry(p)
  /\ pc[p] \in AtHost => my[p].key # None
  /\ pc[p] \in {"delete", "deleted"} => my[p].target # None
  /\ pc[p] \in {"truncate", "fill"} => WritesEntry(p) \/ WritesAlias(p) \/ WritesDefault(p)
  /\ my[p].session # None => my[p].session[1] = my[p].server

LocalsInv == \A p \in Processes : LocalsOf(p)

SavedInv ==
  /\ files["default"] \in Aliases => Saved(files["default"])
  /\ Whole /\ files["entry"].session # None => files["entry"].session[1] = files["entry"].server

(* A command with the key of the auth file.                                *)
Holds(p) == pc[p] \notin New /\ my[p].key # None

KeysOf(p, q) ==
  /\ pc[p] \in New => (Whole => files["entry"].key # p) /\ (my[q].key = p => q = p)
  /\ Holds(p) => files["entry"] # Absent /\ (Whole => files["entry"].key = my[p].key)
  /\ Holds(p) /\ Holds(q) => my[q].key = my[p].key
  /\ pc[p] = "fill new" => files["entry"] = Empty /\ ~Holds(q) /\ (pc[q] = "fill new" => q = p)

KeysInv == \A p, q \in Processes : KeysOf(p, q)

(* Only a reboot loses a key that is used, and only an interruption leaves *)
(* one that is not.                                                        *)
SecretsOf(p, q) ==
  /\ reboots = 0 /\ Whole => secrets[files["entry"].key] = Key
  /\ reboots = 0 /\ my[p].key # None => secrets[my[p].key] = Key
  /\ ~Interrupted /\ secrets[p] # None /\ pc[p] \notin New =>
       /\ files["entry"] # Absent /\ (Whole => files["entry"].key = p)
       /\ pc[q] # "fill new" /\ (Holds(q) => my[q].key = p)

SecretsInv == \A p, q \in Processes : SecretsOf(p, q)

(* A session that is open, or that a close deleted without being told so.  *)
Usable(s) == sessions[s] = "open" \/ s \in unreported

(* Commands that do not overlap, none of them interrupted.                 *)
TurnOf(p) ==
  /\ pc[p] \in {"fill", "fill new"} /\ my[p].key # None => files["entry"] = Empty
  /\ my[p].session # None /\ pc[p] # "deleted" => Usable(my[p].session)
  /\ pc[p] \in {"delete", "deleted"} => Whole /\ my[p].session = files["entry"].session

EntryInTurn ==
  /\ files["entry"] \in Damage =>
       \E p \in Processes : pc[p] \in {"fill", "fill new"} /\ my[p].key # None
  /\ Whole /\ files["entry"].session # None =>
       \/ Usable(files["entry"].session)
       \/ \E p \in Processes : pc[p] = "truncate" /\ my[p].key # None
       \/ \E p \in Processes : pc[p] = "deleted" /\ my[p].target = my[p].session

TurnsInv ==
  ~overlap =>
    /\ \A p, q \in Processes : pc[p] # "idle" /\ pc[q] # "idle" => p = q
    /\ ~Interrupted => EntryInTurn /\ \A p \in Processes : TurnOf(p)

IInv == TypeInv /\ LocalsInv /\ SavedInv /\ KeysInv /\ SecretsInv /\ TurnsInv
-----------------------------------------------------------------------------
(* What there is to write, read.                                           *)
LEMMA EntryForm ==
  ASSUME NEW e
  PROVE  Head(EntryWrites(e))[1] = "entry" /\ Head(EntryWrites(e))[2] = e /\ Tail(EntryWrites(e)) = <<>>
BY DEF EntryWrites

LEMMA AliasForm ==
  ASSUME NEW a
  PROVE  /\ Head(AliasWrites(a))[1] = a /\ Head(AliasWrites(a))[2] = a
         /\ Tail(AliasWrites(a)) = DefaultWrites(a) /\ DefaultWrites(a) # <<>>
BY DEF AliasWrites, DefaultWrites

LEMMA DefaultForm ==
  ASSUME NEW a
  PROVE  /\ Head(DefaultWrites(a))[1] = "default" /\ Head(DefaultWrites(a))[2] = a
         /\ Tail(DefaultWrites(a)) = <<>>
BY DEF DefaultWrites

LEMMA NoLocalsFits ==
  /\ NoLocals \in Locals
  /\ NoLocals.key = None /\ NoLocals.session = None
BY DEF NoLocals, Locals, Writes

(* The key of an auth file that loads.                                     *)
LEMMA WholeLoads ==
  ASSUME IInv, Loaded # None
  PROVE  /\ Whole /\ Loaded = files["entry"]
         /\ files["entry"].key \in Processes /\ files["entry"].server \in Servers
         /\ files["entry"].session \in Sessions \cup {None}
         /\ reboots = 0 => secrets[files["entry"].key] = Key
<1>1. Whole /\ Loaded = files["entry"]
  BY DEF Loaded, IInv, TypeInv, Whole, Damage
<1> QED
  BY <1>1 DEF Whole, Entries, IInv, SecretsInv, SecretsOf
-----------------------------------------------------------------------------
(* IInv is inductive.                                                      *)
LEMMA InitInv == Init => IInv
<1> SUFFICES ASSUME Init PROVE IInv
  OBVIOUS
<1>1. NoLocals \in Locals /\ NoLocals.key = None /\ NoLocals.session = None
  BY NoLocalsFits
<1>2. "idle" \in Places /\ "idle" \in Keyless /\ "idle" \notin New
  BY DEF Places, Keyless, New
<1>3. files \in [{"entry", "default"} \cup Aliases -> {Absent}]
  BY DEF Init
<1>4. secrets = [e \in Processes \cup Aliases |-> None]
  BY DEF Init, Store!Init
<1>5. TypeInv
  BY <1>1, <1>2, <1>3, <1>4 DEF Init, TypeInv
<1>6. files["entry"] = Absent /\ files["default"] = Absent /\ ~Whole
  BY <1>3, ValuesAssumption DEF Whole, Entries, Sessions
<1>7. \A p \in Processes : pc[p] = "idle" /\ my[p] = NoLocals /\ secrets[p] = None
  BY <1>4 DEF Init
<1>8. LocalsInv /\ SavedInv
  BY <1>1, <1>2, <1>6, <1>7, ValuesAssumption DEF LocalsInv, LocalsOf, SavedInv, AtHost
<1>9. KeysInv /\ SecretsInv /\ TurnsInv
  BY <1>1, <1>2, <1>6, <1>7, ValuesAssumption DEF KeysInv, KeysOf, SecretsInv, SecretsOf, TurnsInv, TurnOf, EntryInTurn,
       Holds, Damage
<1> QED
  BY <1>5, <1>8, <1>9 DEF IInv

(* Command p goes on, and only it: what that means for places and locals.  *)
Moves(p, place, v) ==
  /\ Goto(p, place, v)
  /\ commands' \in Nat /\ failures' \in Nat /\ failures' >= failures
  /\ reboots' = reboots /\ overlap' \in BOOLEAN
  /\ overlap' \/ (~overlap /\ (pc[p] # "idle" \/ \A q \in Processes : pc[q] = "idle"))

(* What a move means for the places and locals of every command.           *)
LEMMA MoveFacts ==
  ASSUME IInv, NEW p \in Processes, NEW place \in Places, NEW v \in Locals, Moves(p, place, v)
  PROVE  /\ pc' \in [Processes -> Places] /\ my' \in [Processes -> Locals]
         /\ \A q \in Processes : pc'[q] = IF q = p THEN place ELSE pc[q]
         /\ \A q \in Processes : my'[q] = IF q = p THEN v ELSE my[q]
         /\ ~overlap' => ~overlap /\ \A q \in Processes \ {p} : pc[q] = "idle"
         /\ ~overlap' => \A q, r \in Processes : pc'[q] # "idle" /\ pc'[r] # "idle" => q = r
         /\ ~Interrupted' => ~Interrupted
<1>1. /\ pc' \in [Processes -> Places] /\ my' \in [Processes -> Locals]
      /\ \A q \in Processes : pc'[q] = IF q = p THEN place ELSE pc[q]
      /\ \A q \in Processes : my'[q] = IF q = p THEN v ELSE my[q]
  BY DEF IInv, TypeInv, Moves, Goto
<1>2. ~overlap' => ~overlap /\ \A q \in Processes \ {p} : pc[q] = "idle"
  BY DEF IInv, TypeInv, TurnsInv, Moves
<1>3. ~overlap' => \A q, r \in Processes : pc'[q] # "idle" /\ pc'[r] # "idle" => q = r
  BY <1>1, <1>2
<1>4. ~Interrupted' => ~Interrupted
  BY DEF Interrupted, Moves, IInv, TypeInv
<1> QED
  BY <1>1, <1>2, <1>3, <1>4

(* A command that goes to a place where it has no key, from one where it   *)
(* has none to take back and no file to write, unless it is interrupted.   *)
LEMMA LightMove ==
  ASSUME IInv, NEW p \in Processes, NEW place \in Keyless, NEW v \in Locals,
         Moves(p, place, v), UNCHANGED <<files, secrets, sessions, unreported>>,
         v.key = None /\ v.session = None,
         place \in {"login", "store", "add"} => v.server # None,
         place \in {"resolve", "add"} => v.name # None,
         failures' > failures \/ pc[p] \notin New \cup {"truncate", "fill", "deleted"}
  PROVE  IInv'
<1>1. place \in Places /\ place \notin New /\ place \notin AtHost \cup {"truncate", "fill"}
  BY DEF Keyless, Places, New, AtHost
<1>2. /\ pc' \in [Processes -> Places] /\ my' \in [Processes -> Locals]
      /\ \A q \in Processes : pc'[q] = IF q = p THEN place ELSE pc[q]
      /\ \A q \in Processes : my'[q] = IF q = p THEN v ELSE my[q]
      /\ ~overlap' => ~overlap /\ \A q \in Processes \ {p} : pc[q] = "idle"
      /\ ~overlap' => \A q, r \in Processes : pc'[q] # "idle" /\ pc'[r] # "idle" => q = r
      /\ ~Interrupted' => ~Interrupted
  BY <1>1, MoveFacts
<1>3. ~Interrupted' => pc[p] \notin New \cup {"truncate", "fill", "deleted"}
  BY DEF Interrupted, Moves, IInv, TypeInv
<1>4. TypeInv'
  BY <1>2 DEF IInv, TypeInv, Moves
<1>5. LocalsInv'
  BY <1>1, <1>2 DEF IInv, LocalsInv, LocalsOf, WritesEntry, WritesAlias, WritesDefault,
                    Saved, HasSecret, Moves, AtHost
<1>6. SavedInv'
  BY DEF IInv, SavedInv, Saved, HasSecret, Whole, Moves
<1>7. ASSUME NEW q \in Processes, NEW r \in Processes PROVE KeysOf(q, r)'
  <2>1. KeysOf(q, r)
    BY DEF IInv, KeysInv
  <2> QED
    BY <1>1, <1>2, <2>1, ValuesAssumption DEF KeysOf, Holds, Whole, New
<1>8. ASSUME NEW q \in Processes, NEW r \in Processes PROVE SecretsOf(q, r)'
  <2>1. SecretsOf(q, r)
    BY DEF IInv, SecretsInv
  <2>2. Whole' = Whole /\ UNCHANGED <<files, secrets, reboots>>
    BY DEF Whole, Moves
  <2>3. my'[q].key # None => my'[q].key = my[q].key
    BY <1>2
  <2>4. ~Interrupted' /\ pc'[q] \notin New => ~Interrupted /\ pc[q] \notin New
    BY <1>2, <1>3
  <2>5. pc'[r] = "fill new" => pc[r] = "fill new"
    BY <1>1, <1>2 DEF New
  <2>6. Holds(r)' => Holds(r) /\ my'[r].key = my[r].key
    BY <1>1, <1>2 DEF Holds
  <2> QED
    BY <1>2, <2>1, <2>2, <2>3, <2>4, <2>5, <2>6 DEF SecretsOf
<1>9. ASSUME ~overlap', ~Interrupted' PROVE EntryInTurn' /\ \A q \in Processes : TurnOf(q)'
  <2>1. EntryInTurn /\ \A q \in Processes : TurnOf(q)
    BY <1>2, <1>9 DEF IInv, TurnsInv
  <2>2. EntryInTurn'
    <3>1. \A q \in Processes : pc[q] \in {"fill", "fill new", "truncate", "deleted"} => pc'[q] = pc[q] /\ my'[q] = my[q]
      BY <1>2, <1>3, <1>9 DEF New
    <3>2. Whole' = Whole /\ UNCHANGED <<files, sessions, unreported>>
      BY DEF Whole
    <3> QED
      BY <2>1, <3>1, <3>2 DEF EntryInTurn, Usable
  <2>3. ASSUME NEW q \in Processes PROVE TurnOf(q)'
    <3>1. CASE q # p
      <4>1. pc'[q] = pc[q] /\ my'[q] = my[q] /\ UNCHANGED <<files, sessions, unreported>>
        BY <1>2, <3>1
      <4> QED
        BY <2>1, <4>1 DEF TurnOf, Whole, Usable
    <3>2. CASE q = p
      <4>1. pc'[q] = place /\ my'[q].key = None /\ my'[q].session = None
        BY <1>2, <3>2
      <4> QED
        BY <1>1, <4>1 DEF TurnOf, New, AtHost
    <3> QED
      BY <3>1, <3>2
  <2> QED
    BY <2>2, <2>3
<1> QED
  BY <1>2, <1>4, <1>5, <1>6, <1>7, <1>8, <1>9 DEF IInv, KeysInv, SecretsInv, TurnsInv

(* A command that takes the key of the auth file it has loaded, and with   *)
(* it the session or none.                                                 *)
LEMMA LoadMove ==
  ASSUME IInv, NEW p \in Processes, NEW place \in {"open", "delete", "truncate"}, NEW v \in Locals,
         Moves(p, place, v), UNCHANGED <<files, secrets, sessions, unreported>>,
         pc[p] \in Keyless, Loaded # None,
         v.key = Loaded.key, v.server \in Servers,
         v.session \in {None, Loaded.session},
         v.session # None => v.server = Loaded.server,
         place = "delete" => v.target # None /\ v.session = Loaded.session,
         place = "truncate" => v.writes = EntryWrites(WholeEntry(v))
  PROVE  IInv'
<1>1. place \in Places /\ place \notin New /\ place \notin Keyless /\ place \notin {"fill", "fill new", "idle"}
  BY DEF Keyless, Places, New, AtHost
<1>2. /\ pc' \in [Processes -> Places] /\ my' \in [Processes -> Locals]
      /\ \A q \in Processes : pc'[q] = IF q = p THEN place ELSE pc[q]
      /\ \A q \in Processes : my'[q] = IF q = p THEN v ELSE my[q]
      /\ ~overlap' => ~overlap /\ \A q \in Processes \ {p} : pc[q] = "idle"
      /\ ~overlap' => \A q, r \in Processes : pc'[q] # "idle" /\ pc'[r] # "idle" => q = r
      /\ ~Interrupted' => ~Interrupted
  BY <1>1, MoveFacts
<1>3. /\ pc[p] \notin New /\ pc[p] \notin {"truncate", "fill", "deleted"}
      /\ my[p].key = None
  BY DEF Keyless, New, IInv, LocalsInv, LocalsOf
<1>4. /\ Whole /\ Loaded = files["entry"] /\ v.key = files["entry"].key
      /\ v.key \in Processes /\ v.key # None
      /\ reboots = 0 => secrets[v.key] = Key
  BY WholeLoads, ValuesAssumption
<1>5. files["entry"] \notin {Absent, Empty}
  BY <1>4, ValuesAssumption DEF Whole, Entries, Sessions
<1>6. TypeInv'
  BY <1>2 DEF IInv, TypeInv, Moves
<1>7. ASSUME NEW q \in Processes PROVE LocalsOf(q)'
  <2>1. CASE q # p
    BY <1>2, <2>1 DEF IInv, LocalsInv, LocalsOf, WritesEntry, WritesAlias, WritesDefault,
                      Saved, HasSecret, Moves
  <2>2. CASE q = p
    <3>1. my'[q] = v /\ pc'[q] = place /\ v.server # None
      BY <1>2, <2>2, ValuesAssumption
    <3>2. v.session # None => v.session[1] = v.server
      BY <1>4 DEF IInv, SavedInv
    <3>3. place = "truncate" => WritesEntry(q)'
      BY <1>4, <3>1 DEF WritesEntry
    <3> QED
      BY <1>1, <1>4, <3>1, <3>2, <3>3 DEF LocalsOf
  <2> QED
    BY <2>1, <2>2
<1>8. SavedInv'
  BY DEF IInv, SavedInv, Saved, HasSecret, Whole, Moves
<1>9. ASSUME NEW q \in Processes, NEW r \in Processes PROVE KeysOf(q, r)'
  <2>1. KeysOf(q, r) /\ KeysOf(q, p) /\ KeysOf(r, p)
    BY DEF IInv, KeysInv
  <2>2. /\ pc'[q] \in New => pc[q] \in New /\ q # p
        /\ Holds(q)' => q = p \/ Holds(q)
        /\ Holds(r)' => r = p \/ Holds(r)
        /\ my'[q].key = IF q = p THEN v.key ELSE my[q].key
        /\ my'[r].key = IF r = p THEN v.key ELSE my[r].key
    BY <1>1, <1>2 DEF Holds
  <2>3. pc'[q] \in New => (Whole' => files'["entry"].key # q) /\ (my'[r].key = q => r = q)
    BY <1>4, <2>1, <2>2 DEF KeysOf, Whole
  <2>4. /\ Holds(q)' => my'[q].key = files["entry"].key
        /\ Holds(r)' => my'[r].key = files["entry"].key
    <3>1. KeysOf(r, q)
      BY DEF IInv, KeysInv
    <3> QED
      BY <1>4, <2>1, <2>2, <3>1 DEF KeysOf
  <2>5. pc'[q] # "fill new"
    <3>1. pc[q] # "fill new"
      BY <1>5, <2>1 DEF KeysOf
    <3> QED
      BY <1>1, <1>2, <3>1
  <2> QED
    BY <1>5, <2>3, <2>4, <2>5 DEF KeysOf
<1>10. ASSUME NEW q \in Processes, NEW r \in Processes PROVE SecretsOf(q, r)'
  <2>1. SecretsOf(q, r)
    BY DEF IInv, SecretsInv
  <2> QED
    BY <1>1, <1>2, <1>3, <1>4, <2>1 DEF SecretsOf, Holds, Whole, Moves
<1>11. ASSUME ~overlap', ~Interrupted' PROVE EntryInTurn' /\ \A q \in Processes : TurnOf(q)'
  <2>1. EntryInTurn /\ \A q \in Processes : TurnOf(q)
    BY <1>2, <1>11 DEF IInv, TurnsInv
  <2>2. \A q \in Processes : pc[q] \notin {"truncate", "fill", "fill new", "deleted"}
    BY <1>2, <1>3, <1>11 DEF New
  <2>3. files["entry"] \notin Damage /\ (files["entry"].session # None => Usable(files["entry"].session))
    BY <1>4, <2>1, <2>2 DEF EntryInTurn
  <2>4. EntryInTurn'
    BY <2>3 DEF EntryInTurn, Usable
  <2>5. ASSUME NEW q \in Processes PROVE TurnOf(q)'
    <3>1. CASE q # p
      <4>1. pc'[q] = pc[q] /\ my'[q] = my[q] /\ Whole' = Whole /\ TurnOf(q)
        BY <1>2, <2>1, <3>1 DEF Whole
      <4> QED
        BY <4>1 DEF TurnOf, Usable
    <3>2. CASE q = p
      <4>1. my'[q] = v /\ pc'[q] = place /\ Whole'
        BY <1>2, <1>4, <3>2 DEF Whole
      <4> QED
        BY <1>1, <1>4, <2>3, <4>1 DEF TurnOf, Usable
    <3> QED
      BY <3>1, <3>2
  <2> QED
    BY <2>4, <2>5
<1> QED
  BY <1>2, <1>6, <1>7, <1>8, <1>9, <1>10, <1>11 DEF IInv, LocalsInv, KeysInv, SecretsInv, TurnsInv

(* A command that begins, one that goes on, and one that fails all move.   *)
LEMMA BeginMoves ==
  ASSUME IInv, NEW p \in Processes, NEW place, NEW v, Begin(p), Goto(p, place, v)
  PROVE  Moves(p, place, v) /\ UNCHANGED <<files, secrets, sessions, unreported>> /\ pc[p] = "idle"
<1>1. overlap' \in BOOLEAN
  BY DEF Begin
<1>2. commands' \in Nat /\ failures' \in Nat /\ failures' >= failures /\ reboots' = reboots
  BY DEF Begin, IInv, TypeInv
<1>3. overlap' \/ (~overlap /\ \A q \in Processes : pc[q] = "idle")
  BY DEF Begin
<1> QED
  BY <1>1, <1>2, <1>3 DEF Begin, Moves

LEMMA StepMoves ==
  ASSUME IInv, NEW p \in Processes, NEW place, NEW v, pc[p] # "idle", Goto(p, place, v),
         UNCHANGED <<commands, failures, reboots, overlap>>
  PROVE  Moves(p, place, v)
<1>1. commands' \in Nat /\ failures' \in Nat /\ failures' >= failures /\ overlap' \in BOOLEAN
  BY DEF IInv, TypeInv
<1> QED
  BY <1>1 DEF Moves

LEMMA FailMoves ==
  ASSUME IInv, NEW p \in Processes, NEW place, NEW v, pc[p] # "idle", Goto(p, place, v),
         failures' = failures + 1, UNCHANGED <<commands, reboots, overlap>>
  PROVE  Moves(p, place, v) /\ failures' > failures /\ Interrupted'
<1>1. /\ commands' \in Nat /\ failures' \in Nat /\ overlap' \in BOOLEAN
      /\ failures' >= failures /\ failures' > failures /\ failures' > 0
  BY DEF IInv, TypeInv
<1> QED
  BY <1>1 DEF Moves, Interrupted
-----------------------------------------------------------------------------
(* A command begins (main.rs:192-385).                                     *)
LEMMA BeginInv ==
  ASSUME IInv, NEW p \in Processes, Command(p)
  PROVE  IInv'
<1>1. "default" \in Keyless /\ "resolve" \in Keyless /\ "login" \in Keyless /\ "add" \in Keyless
      /\ "idle" \in Keyless /\ "idle" \notin New \cup {"truncate", "fill", "deleted"}
  BY DEF Keyless, New
<1>2. ASSUME NEW a \in Aliases, NEW s \in Servers, BeginAdd(p, a, s) PROVE IInv'
  <2> DEFINE v == [NoLocals EXCEPT !.name = a, !.server = s]
  <2>1. v \in Locals /\ v.key = None /\ v.session = None /\ v.name # None /\ v.server # None
    BY ValuesAssumption DEF NoLocals, Locals, Writes
  <2>2. Begin(p) /\ Goto(p, "add", v)
    BY <1>2 DEF BeginAdd
  <2> HIDE DEF v
  <2>3. Moves(p, "add", v) /\ UNCHANGED <<files, secrets, sessions, unreported>> /\ pc[p] = "idle"
    BY <2>2, BeginMoves
  <2> QED
    BY <1>1, <2>1, <2>3, LightMove
<1>3. ASSUME NEW ref \in {None} \cup Aliases \cup Servers, BeginAuth(p, ref) PROVE IInv'
  <2>1. CASE ref = None /\ Goto(p, "default", NoLocals)
    <3>1. Moves(p, "default", NoLocals) /\ UNCHANGED <<files, secrets, sessions, unreported>> /\ pc[p] = "idle"
      BY <1>3, <2>1, BeginMoves DEF BeginAuth
    <3> QED
      BY <1>1, <3>1, NoLocalsFits, LightMove
  <2>2. CASE ref \in Aliases /\ Goto(p, "resolve", [NoLocals EXCEPT !.name = ref])
    <3> DEFINE v == [NoLocals EXCEPT !.name = ref]
    <3>1. v \in Locals /\ v.key = None /\ v.session = None /\ v.name # None
      BY <2>2, ValuesAssumption DEF NoLocals, Locals, Writes
    <3>2. Goto(p, "resolve", v)
      BY <2>2
    <3> HIDE DEF v
    <3>3. Moves(p, "resolve", v) /\ UNCHANGED <<files, secrets, sessions, unreported>> /\ pc[p] = "idle"
      BY <1>3, <3>2, BeginMoves DEF BeginAuth
    <3> QED
      BY <1>1, <3>1, <3>3, LightMove
  <2>3. CASE ref \in Servers /\ Goto(p, "login", [NoLocals EXCEPT !.server = ref])
    <3> DEFINE v == [NoLocals EXCEPT !.server = ref]
    <3>1. v \in Locals /\ v.key = None /\ v.session = None /\ v.server # None
      BY <2>3, ValuesAssumption DEF NoLocals, Locals, Writes
    <3>2. Goto(p, "login", v)
      BY <2>3
    <3> HIDE DEF v
    <3>3. Moves(p, "login", v) /\ UNCHANGED <<files, secrets, sessions, unreported>> /\ pc[p] = "idle"
      BY <1>3, <3>2, BeginMoves DEF BeginAuth
    <3> QED
      BY <1>1, <3>1, <3>3, LightMove
  <2> QED
    BY <1>3, <2>1, <2>2, <2>3 DEF BeginAuth
<1>4. ASSUME NEW request \in {None} \cup Sessions, BeginExec(p, request) PROVE IInv'
  <2> DEFINE v == [NoLocals EXCEPT !.key = Loaded.key, !.server = Loaded.server, !.target = request]
  <2>1. Loaded # None /\ Loaded.key \in Processes /\ Loaded.server \in Servers
    BY <1>4, WholeLoads DEF BeginExec
  <2>2. /\ v \in Locals /\ v.key = Loaded.key /\ v.server \in Servers
        /\ v.session = None
    BY <2>1 DEF NoLocals, Locals, Writes
  <2>3. Begin(p) /\ Goto(p, "open", v)
    BY <1>4 DEF BeginExec
  <2> HIDE DEF v
  <2>4. Moves(p, "open", v) /\ UNCHANGED <<files, secrets, sessions, unreported>> /\ pc[p] \in Keyless
    BY <1>1, <2>3, BeginMoves
  <2> QED
    BY <2>1, <2>2, <2>4, LoadMove
<1>5. ASSUME NEW request \in {None} \cup Sessions, BeginClose(p, request) PROVE IInv'
  <2> DEFINE v == [NoLocals EXCEPT
       !.key = Loaded.key, !.server = Loaded.server, !.session = Loaded.session,
       !.target = IF request = None THEN Loaded.session ELSE request]
  <2>1. /\ Loaded # None /\ Loaded.key \in Processes /\ Loaded.server \in Servers
        /\ Loaded.session \in Sessions \cup {None}
        /\ request = None => Loaded.session # None
    BY <1>5, WholeLoads DEF BeginClose
  <2>2. /\ v \in Locals /\ v.key = Loaded.key /\ v.server = Loaded.server
        /\ v.session = Loaded.session
        /\ v.target = IF request = None THEN Loaded.session ELSE request
    BY <2>1 DEF NoLocals, Locals, Writes
  <2>3. Begin(p) /\ Goto(p, "delete", v)
    BY <1>5 DEF BeginClose
  <2> HIDE DEF v
  <2>4. Moves(p, "delete", v) /\ UNCHANGED <<files, secrets, sessions, unreported>> /\ pc[p] \in Keyless
    BY <1>1, <2>3, BeginMoves
  <2>5. v.target # None
    BY <2>1, <2>2
  <2> QED
    BY <2>1, <2>2, <2>4, <2>5, LoadMove
<1> QED
  BY <1>2, <1>3, <1>4, <1>5 DEF Command

(* A step that ends the command, or takes it to a place without a key, and *)
(* changes nothing else.                                                   *)
LEMMA ExitInv ==
  ASSUME IInv, NEW p \in Processes, Exit(p), pc[p] # "idle",
         UNCHANGED <<files, secrets, world>>, pc[p] \notin New \cup {"truncate", "fill", "deleted"}
  PROVE  IInv'
<1>1. "idle" \in Keyless
  BY DEF Keyless
<1>2. Moves(p, "idle", NoLocals)
  BY StepMoves DEF Exit, world
<1> QED
  BY <1>1, <1>2, NoLocalsFits, LightMove DEF world

(* The steps that neither write nor have a key.                            *)
LEMMA LightStepInv ==
  ASSUME IInv, NEW p \in Processes,
         ReadDefault(p) \/ ListMarkers(p) \/ Resolve(p) \/ LogIn(p) \/ Kill(p)
           \/ (Refused(p) /\ pc[p] # "deleted")
  PROVE  IInv'
<1>1. "resolve" \in Keyless /\ "login" \in Keyless /\ "list" \in Keyless /\ "idle" \in Keyless /\ "store" \in Keyless
  BY DEF Keyless
<1>2. TypeInv /\ LocalsOf(p)
  BY DEF IInv, LocalsInv
<1>3. ASSUME NEW a \in Aliases, pc[p] \in {"default", "list"},
             Goto(p, "resolve", [NoLocals EXCEPT !.name = a]), UNCHANGED <<files, secrets, world>>
      PROVE  IInv'
  <2> DEFINE v == [NoLocals EXCEPT !.name = a]
  <2>1. v \in Locals /\ v.key = None /\ v.session = None /\ v.name # None
    BY ValuesAssumption DEF NoLocals, Locals, Writes
  <2>2. Goto(p, "resolve", v)
    BY <1>3
  <2> HIDE DEF v
  <2>3. Moves(p, "resolve", v) /\ UNCHANGED <<files, secrets, sessions, unreported>>
    BY <1>3, <2>2, StepMoves DEF world
  <2> QED
    BY <1>1, <1>3, <2>1, <2>3, LightMove DEF New
<1>4. ASSUME NEW s \in Servers, pc[p] \in {"list", "resolve"},
             Goto(p, "login", [NoLocals EXCEPT !.server = s]), UNCHANGED <<files, secrets, world>>
      PROVE  IInv'
  <2> DEFINE v == [NoLocals EXCEPT !.server = s]
  <2>1. v \in Locals /\ v.key = None /\ v.session = None /\ v.server # None
    BY ValuesAssumption DEF NoLocals, Locals, Writes
  <2>2. Goto(p, "login", v)
    BY <1>4
  <2> HIDE DEF v
  <2>3. Moves(p, "login", v) /\ UNCHANGED <<files, secrets, sessions, unreported>>
    BY <1>4, <2>2, StepMoves DEF world
  <2> QED
    BY <1>1, <1>4, <2>1, <2>3, LightMove DEF New
<1>5. CASE ReadDefault(p)
  <2>1. CASE Goto(p, "list", NoLocals)
    <3>1. Moves(p, "list", NoLocals) /\ UNCHANGED <<files, secrets, sessions, unreported>> /\ pc[p] = "default"
      BY <1>5, <2>1, StepMoves DEF ReadDefault, world
    <3> QED
      BY <1>1, <3>1, NoLocalsFits, LightMove DEF New
  <2>2. CASE Exit(p)
    BY <1>5, <2>2, ExitInv DEF ReadDefault, New
  <2> QED
    BY <1>3, <1>5, <2>1, <2>2 DEF ReadDefault
<1>6. CASE ListMarkers(p)
  <2>1. CASE Exit(p)
    BY <1>6, <2>1, ExitInv DEF ListMarkers, New
  <2> QED
    BY <1>3, <1>4, <1>6, <2>1, LocalAssumption DEF ListMarkers
<1>7. CASE Resolve(p)
  <2>1. CASE Exit(p)
    BY <1>7, <2>1, ExitInv DEF Resolve, New
  <2>2. CASE ~Exit(p)
    <3>1. my[p].name \in Aliases
      BY <1>2, <1>7 DEF TypeInv, Locals, LocalsOf, Resolve
    <3>2. secrets[my[p].name] \in Servers
      BY <1>2, <1>7, <2>2, <3>1 DEF TypeInv, Resolve
    <3> QED
      BY <1>4, <1>7, <2>2, <3>2 DEF Resolve
  <2> QED
    BY <2>1, <2>2
<1>8. CASE LogIn(p)
  <2>1. my[p] \in Locals /\ my[p].key = None /\ my[p].session = None /\ my[p].server # None
    BY <1>2, <1>8 DEF TypeInv, LogIn, LocalsOf, Keyless
  <2>2. Moves(p, "store", my[p]) /\ UNCHANGED <<files, secrets, sessions, unreported>> /\ pc[p] = "login"
    BY <1>8, StepMoves DEF LogIn, world
  <2> QED
    BY <1>1, <2>1, <2>2, LightMove DEF New
<1>9. CASE Refused(p) /\ pc[p] # "deleted"
  <2>1. UNCHANGED <<files, secrets, world>>
    BY <1>9 DEF Refused, world
  <2> QED
    BY <1>9, <2>1, ExitInv DEF Refused, New
<1>10. CASE Kill(p)
  <2>1. Moves(p, "idle", NoLocals) /\ failures' > failures /\ UNCHANGED <<files, secrets, sessions, unreported>>
    BY <1>10, FailMoves DEF Kill, Exit
  <2> QED
    BY <1>1, <2>1, NoLocalsFits, LightMove
<1> QED
  BY <1>5, <1>6, <1>7, <1>8, <1>9, <1>10

(* A save of the auth file has one file to write.                          *)
LEMMA SavingFits ==
  ASSUME NEW u \in Locals, u.key # None, u.server # None
  PROVE  /\ WholeEntry(u) \in Entries
         /\ WholeEntry(u).key = u.key /\ WholeEntry(u).server = u.server /\ WholeEntry(u).session = u.session
         /\ Saving(u) \in Locals
         /\ Saving(u).key = u.key /\ Saving(u).server = u.server /\ Saving(u).session = u.session
         /\ Saving(u).writes = EntryWrites(WholeEntry(Saving(u)))
<1>1. /\ WholeEntry(u) \in Entries
      /\ WholeEntry(u).key = u.key /\ WholeEntry(u).server = u.server /\ WholeEntry(u).session = u.session
  BY DEF Locals, Entries, WholeEntry
<1>2. EntryWrites(WholeEntry(u)) \in Writes
  BY <1>1 DEF Writes
<1>3. /\ Saving(u) \in Locals
      /\ Saving(u).key = u.key /\ Saving(u).server = u.server /\ Saving(u).session = u.session
      /\ Saving(u).writes = EntryWrites(WholeEntry(u))
  BY <1>2 DEF Saving, Locals, EntryWrites
<1>4. WholeEntry(Saving(u)) = WholeEntry(u)
  BY <1>3 DEF WholeEntry
<1> QED
  BY <1>1, <1>3, <1>4

(* auth of a host that has an auth file keeps its key.                     *)
LEMMA UpdateEntryInv ==
  ASSUME IInv, NEW p \in Processes, UpdateEntry(p)
  PROVE  IInv'
<1>1. CASE Loaded = None
  BY <1>1, ExitInv DEF UpdateEntry, New
<1>2. CASE Loaded # None
  <2> DEFINE u == [my[p] EXCEPT !.key = Loaded.key,
                     !.session = IF Loaded.server = my[p].server THEN Loaded.session ELSE None]
  <2>1. my[p] \in Locals /\ my[p].server \in Servers /\ pc[p] = "store" /\ pc[p] \in Keyless
    BY DEF UpdateEntry, IInv, TypeInv, LocalsInv, LocalsOf, Locals, Keyless
  <2>2. Loaded.key \in Processes /\ Loaded.session \in Sessions \cup {None}
    BY <1>2, WholeLoads
  <2>3. /\ u \in Locals /\ u.key = Loaded.key /\ u.server = my[p].server
        /\ u.session = IF Loaded.server = my[p].server THEN Loaded.session ELSE None
    BY <2>1, <2>2 DEF Locals
  <2>4. Goto(p, "truncate", Saving(u)) /\ UNCHANGED <<files, secrets, world>>
    BY <1>2 DEF UpdateEntry
  <2> HIDE DEF u
  <2>5. u.key # None /\ u.server # None
    BY <2>1, <2>2, <2>3, ValuesAssumption
  <2> DEFINE v == Saving(u)
  <2>6. /\ v \in Locals /\ v.key = Loaded.key /\ v.server = my[p].server /\ v.session = u.session
        /\ v.writes = EntryWrites(WholeEntry(v))
    BY <2>3, <2>5, SavingFits
  <2>7. Moves(p, "truncate", v) /\ UNCHANGED <<files, secrets, sessions, unreported>>
    BY <2>1, <2>4, StepMoves DEF world
  <2> HIDE DEF v
  <2> QED
    BY <1>2, <2>1, <2>3, <2>6, <2>7, LoadMove
<1> QED
  BY <1>1, <1>2

(* redis add stores the secret before it writes the marker and the         *)
(* default.                                                                *)
LEMMA SetAliasInv ==
  ASSUME IInv, NEW p \in Processes, SetAlias(p)
  PROVE  IInv'
<1> DEFINE a == my[p].name
           v == [NoLocals EXCEPT !.writes = AliasWrites(a)]
<1>1. /\ a \in Aliases /\ my[p].server \in Servers
      /\ pc[p] = "add" /\ my[p].key = None
  BY DEF SetAlias, IInv, TypeInv, LocalsInv, LocalsOf, Locals, Keyless
<1>2. AliasWrites(a) \in Writes
  BY <1>1 DEF Writes
<1>3. v \in Locals /\ v.key = None /\ v.session = None /\ v.writes = AliasWrites(a)
  BY <1>2 DEF NoLocals, Locals
<1>4. Goto(p, "truncate", v) /\ UNCHANGED <<files, world>>
  BY DEF SetAlias, AliasWrites
<1>5. secrets' = [secrets EXCEPT ![a] = my[p].server]
  BY DEF SetAlias, Store!SetSecret
<1>6. /\ \A e \in Processes \cup Aliases : secrets'[e] = IF e = a THEN my[p].server ELSE secrets[e]
      /\ secrets' \in [Processes \cup Aliases -> {Key} \cup Servers \cup {None}]
      /\ my[p].server # None
  BY <1>1, <1>5, ValuesAssumption DEF IInv, TypeInv
<1> HIDE DEF v, a
<1>7. \A q \in Processes : secrets'[q] = secrets[q]
  BY <1>1, <1>6, ValuesAssumption
<1>8. Moves(p, "truncate", v) /\ UNCHANGED <<files, sessions, unreported, reboots>>
  BY <1>1, <1>4, StepMoves DEF world
<1>9. /\ pc' \in [Processes -> Places] /\ my' \in [Processes -> Locals]
      /\ \A q \in Processes : pc'[q] = IF q = p THEN "truncate" ELSE pc[q]
      /\ \A q \in Processes : my'[q] = IF q = p THEN v ELSE my[q]
      /\ ~overlap' => ~overlap /\ \A q \in Processes \ {p} : pc[q] = "idle"
      /\ ~overlap' => \A q, r \in Processes : pc'[q] # "idle" /\ pc'[r] # "idle" => q = r
      /\ ~Interrupted' => ~Interrupted
  BY <1>3, <1>8, MoveFacts DEF Places
<1>10. "truncate" \notin New \cup Keyless
  BY DEF New, Keyless
<1>11. TypeInv'
  BY <1>1, <1>6, <1>8, <1>9 DEF IInv, TypeInv, Moves
<1>12. ASSUME NEW q \in Processes PROVE LocalsOf(q)'
  <2>1. CASE q # p
    BY <1>6, <1>8, <1>9, <2>1 DEF IInv, LocalsInv, LocalsOf, WritesEntry, WritesAlias, WritesDefault,
                                  Saved, HasSecret
  <2>2. CASE q = p
    <3>1. my'[q] = v /\ pc'[q] = "truncate"
      BY <1>9, <2>2
    <3>2. WritesAlias(q)'
      BY <1>1, <1>3, <1>6, <3>1 DEF WritesAlias, HasSecret
    <3> QED
      BY <1>3, <1>10, <3>1, <3>2 DEF LocalsOf, AtHost
  <2> QED
    BY <2>1, <2>2
<1>13. SavedInv'
  BY <1>6, <1>8 DEF IInv, SavedInv, Saved, HasSecret, Whole
<1>a. ASSUME NEW q \in Processes
      PROVE  /\ pc'[q] \in New <=> pc[q] \in New
             /\ pc'[q] = "fill new" => pc[q] = "fill new"
             /\ Holds(q)' => Holds(q)
             /\ my'[q].key = my[q].key
  <2>1. CASE q # p
    <3>1. pc'[q] = pc[q] /\ my'[q] = my[q]
      BY <1>9, <2>1
    <3> QED
      BY <3>1 DEF Holds
  <2>2. CASE q = p
    <3>1. pc'[q] = "truncate" /\ pc[q] = "add" /\ my'[q].key = None /\ my[q].key = None
      BY <1>1, <1>3, <1>9, <2>2
    <3> QED
      BY <1>10, <3>1 DEF Holds, New
  <2> QED
    BY <2>1, <2>2
<1>14. ASSUME NEW q \in Processes, NEW r \in Processes PROVE KeysOf(q, r)'
  <2>1. KeysOf(q, r)
    BY DEF IInv, KeysInv
  <2>2. Whole' = Whole /\ files' = files
    BY <1>8 DEF Whole
  <2> QED
    BY <1>a, <2>1, <2>2 DEF KeysOf
<1>15. ASSUME NEW q \in Processes, NEW r \in Processes PROVE SecretsOf(q, r)'
  <2>1. SecretsOf(q, r) /\ (Whole => files["entry"].key \in Processes) /\ (my[q].key # None => my[q].key \in Processes)
    BY DEF IInv, SecretsInv, Whole, Entries, TypeInv, Locals
  <2>3. /\ pc'[q] \in New <=> pc[q] \in New
        /\ pc'[r] = "fill new" => pc[r] = "fill new"
        /\ Holds(r)' => Holds(r)
        /\ my'[q].key = my[q].key /\ my'[r].key = my[r].key
    BY <1>a
  <2>4. Whole' = Whole /\ files'["entry"] = files["entry"] /\ reboots' = reboots
    BY <1>8 DEF Whole
  <2> QED
    <3>1. Whole => secrets'[files["entry"].key] = secrets[files["entry"].key]
      BY <1>7, <2>1
    <3>2. my[q].key # None => secrets'[my[q].key] = secrets[my[q].key]
      BY <1>7, <2>1
    <3>3. secrets'[q] = secrets[q]
      BY <1>7
    <3>4. ~Interrupted' => ~Interrupted
      BY <1>9
    <3> QED
      BY <2>1, <2>3, <2>4, <3>1, <3>2, <3>3, <3>4 DEF SecretsOf
<1>16. ASSUME ~overlap', ~Interrupted' PROVE EntryInTurn' /\ \A q \in Processes : TurnOf(q)'
  <2>1. EntryInTurn /\ \A q \in Processes : TurnOf(q)
    BY <1>9, <1>16 DEF IInv, TurnsInv
  <2>2. EntryInTurn'
    <3>1. \A q \in Processes : pc[q] \in {"fill", "fill new", "truncate", "deleted"} => pc'[q] = pc[q] /\ my'[q] = my[q]
      BY <1>1, <1>9
    <3>2. Whole' = Whole /\ UNCHANGED <<files, sessions, unreported>>
      BY <1>8 DEF Whole
    <3> QED
      BY <2>1, <3>1, <3>2 DEF EntryInTurn, Usable
  <2>3. ASSUME NEW q \in Processes PROVE TurnOf(q)'
    BY <1>3, <1>8, <1>9, <2>1 DEF TurnOf, Whole, Usable
  <2> QED
    BY <2>2, <2>3
<1> QED
  BY <1>9, <1>11, <1>12, <1>13, <1>14, <1>15, <1>16 DEF IInv, LocalsInv, KeysInv, SecretsInv, TurnsInv
-----------------------------------------------------------------------------
(* Writing.                                                                *)

(* A step of a command that writes a marker or the default.                *)
LEMMA NamesMove ==
  ASSUME IInv, NEW p \in Processes, NEW place \in {"truncate", "fill", "idle"}, NEW v \in Locals,
         Moves(p, place, v), UNCHANGED <<secrets, sessions, unreported>>,
         pc[p] \in {"truncate", "fill"}, my[p].key = None,
         v.key = None, v.session \in {None, my[p].session},
         files' \in [{"entry", "default"} \cup Aliases -> Entries \cup Aliases \cup {Absent, Empty, Torn}],
         files'["entry"] = files["entry"],
         files'["default"] \in Aliases \cup {Absent, Empty, Torn},
         \A a \in Aliases : /\ files'[a] \in {a, Absent, Empty, Torn}
                            /\ files[a] # Absent => files'[a] # Absent,
         files'["default"] \in Aliases => Saved(files["default"])',
         LocalsOf(p)'
  PROVE  IInv'
<1>1. place \in Places /\ place \notin New /\ "truncate" \notin New /\ "fill" \notin New
  BY DEF Places, New, Keyless
<1>2. /\ pc' \in [Processes -> Places] /\ my' \in [Processes -> Locals]
      /\ \A q \in Processes : pc'[q] = IF q = p THEN place ELSE pc[q]
      /\ \A q \in Processes : my'[q] = IF q = p THEN v ELSE my[q]
      /\ ~overlap' => ~overlap /\ \A q \in Processes \ {p} : pc[q] = "idle"
      /\ ~overlap' => \A q, r \in Processes : pc'[q] # "idle" /\ pc'[r] # "idle" => q = r
      /\ ~Interrupted' => ~Interrupted
  BY <1>1, MoveFacts
<1>3. TypeInv'
  BY <1>2 DEF IInv, TypeInv, Moves
<1>4. ASSUME NEW q \in Processes, q # p PROVE LocalsOf(q)'
  BY <1>2, <1>4 DEF IInv, LocalsInv, LocalsOf, WritesEntry, WritesAlias, WritesDefault,
                    Saved, HasSecret, Moves
<1>5. SavedInv'
  BY DEF IInv, SavedInv, Whole
<1>6. ASSUME NEW q \in Processes
      PROVE  /\ pc'[q] \in New <=> pc[q] \in New
             /\ pc'[q] = "fill new" => pc[q] = "fill new"
             /\ Holds(q)' <=> Holds(q)
             /\ my'[q].key = my[q].key
  <2>1. CASE q # p
    <3>1. pc'[q] = pc[q] /\ my'[q] = my[q]
      BY <1>2, <2>1
    <3> QED
      BY <3>1 DEF Holds
  <2>2. CASE q = p
    <3>1. pc'[q] = place /\ my'[q].key = None /\ my[q].key = None
      BY <1>2, <2>2
    <3> QED
      BY <1>1, <2>2, <3>1 DEF Holds
  <2> QED
    BY <2>1, <2>2
<1>7. ASSUME NEW q \in Processes, NEW r \in Processes PROVE KeysOf(q, r)'
  <2>1. KeysOf(q, r)
    BY DEF IInv, KeysInv
  <2>2. Whole' = Whole /\ files'["entry"] = files["entry"]
    BY DEF Whole
  <2> QED
    BY <1>6, <2>1, <2>2 DEF KeysOf
<1>8. ASSUME NEW q \in Processes, NEW r \in Processes PROVE SecretsOf(q, r)'
  <2>1. SecretsOf(q, r)
    BY DEF IInv, SecretsInv
  <2>2. Whole' = Whole /\ files'["entry"] = files["entry"]
    BY DEF Whole
  <2>3. reboots' = reboots
    BY DEF Moves
  <2> QED
    BY <1>2, <1>6, <2>1, <2>2, <2>3 DEF SecretsOf
<1>9. ASSUME ~overlap', ~Interrupted' PROVE EntryInTurn' /\ \A q \in Processes : TurnOf(q)'
  <2>1. EntryInTurn /\ \A q \in Processes : TurnOf(q)
    BY <1>2, <1>9 DEF IInv, TurnsInv
  <2>2. EntryInTurn'
    <3>1. \A q \in Processes : my[q].key # None \/ pc[q] = "deleted" =>
            pc'[q] = pc[q] /\ my'[q] = my[q]
      BY <1>2
    <3>2. Whole' = Whole /\ files'["entry"] = files["entry"] /\ UNCHANGED <<sessions, unreported>>
      BY DEF Whole
    <3> QED
      BY <2>1, <3>1, <3>2 DEF EntryInTurn, Usable
  <2>3. ASSUME NEW q \in Processes PROVE TurnOf(q)'
    <3>1. /\ pc'[q] = "fill new" => pc[q] = "fill new" /\ my'[q].key = my[q].key
          /\ pc'[q] = "fill" /\ my'[q].key # None => pc[q] = "fill" /\ my[q].key # None
          /\ my'[q].session # None => my'[q].session = my[q].session
          /\ pc'[q] \in {"delete", "deleted"} => pc'[q] = pc[q] /\ my'[q].session = my[q].session
          /\ pc'[q] # "deleted" => pc[q] # "deleted"
      BY <1>2
    <3> QED
      BY <2>1, <3>1 DEF TurnOf, Whole, Usable
  <2> QED
    BY <2>2, <2>3
<1> QED
  BY <1>2, <1>3, <1>4, <1>5, <1>7, <1>8, <1>9 DEF IInv, LocalsInv, KeysInv, SecretsInv, TurnsInv

(* The auth file gets damaged by a command that has its key: truncated, or *)
(* torn by an interruption.                                                *)
LEMMA DamageMove ==
  ASSUME IInv, NEW p \in Processes, NEW place \in {"fill", "idle"}, NEW v \in Locals,
         Moves(p, place, v), UNCHANGED <<secrets, sessions, unreported>>,
         pc[p] \in {"truncate", "fill"}, WritesEntry(p), NEW x \in Damage,
         files' = [files EXCEPT !["entry"] = x],
         (place = "idle" /\ v = NoLocals) \/ (place = "fill" /\ v = my[p] /\ x = Empty),
         Interrupted' \/ place = "fill"
  PROVE  IInv'
<1>1. place \in Places /\ place \notin New /\ "truncate" \notin New /\ "fill" \notin New
  BY DEF Places, New, Keyless
<1>2. /\ pc' \in [Processes -> Places] /\ my' \in [Processes -> Locals]
      /\ \A q \in Processes : pc'[q] = IF q = p THEN place ELSE pc[q]
      /\ \A q \in Processes : my'[q] = IF q = p THEN v ELSE my[q]
      /\ ~overlap' => ~overlap /\ \A q \in Processes \ {p} : pc[q] = "idle"
      /\ ~overlap' => \A q, r \in Processes : pc'[q] # "idle" /\ pc'[r] # "idle" => q = r
      /\ ~Interrupted' => ~Interrupted
  BY <1>1, MoveFacts
<1>3. /\ files' \in [{"entry", "default"} \cup Aliases -> Entries \cup Aliases \cup {Absent, Empty, Torn}]
      /\ files'["entry"] = x /\ files'["default"] = files["default"]
      /\ \A a \in Aliases : files'[a] = files[a]
  BY ValuesAssumption DEF IInv, TypeInv, Damage
<1>4. x # Absent /\ ~Whole' /\ Holds(p)
  BY <1>1, <1>3, ValuesAssumption DEF Whole, Damage, Entries, Sessions, Holds, WritesEntry
<1>5. v.key \in {None, my[p].key} /\ v.session \in {None, my[p].session}
  BY NoLocalsFits
<1>6. TypeInv'
  BY <1>2, <1>3 DEF IInv, TypeInv, Moves, Damage
<1>7. ASSUME NEW q \in Processes PROVE LocalsOf(q)'
  <2>1. CASE q # p
    BY <1>2, <1>3, <2>1 DEF IInv, LocalsInv, LocalsOf, WritesEntry, WritesAlias, WritesDefault,
                            Saved, HasSecret, Moves
  <2>2. CASE q = p /\ place = "idle"
    <3>1. my'[q] = NoLocals /\ pc'[q] = "idle"
      BY <1>2, <2>2
    <3> QED
      BY <1>1, <3>1, NoLocalsFits, <2>2 DEF LocalsOf, AtHost
  <2>3. CASE q = p /\ place = "fill"
    <3>1. my'[q] = my[q] /\ pc'[q] = "fill" /\ WritesEntry(q)' /\ LocalsOf(q)
      BY <1>2, <2>3 DEF WritesEntry, IInv, LocalsInv
    <3> QED
      BY <1>1, <2>3, <3>1 DEF LocalsOf, Keyless, AtHost
  <2> QED
    BY <2>1, <2>2, <2>3
<1>8. SavedInv'
  BY <1>3, <1>4 DEF IInv, SavedInv, Saved, HasSecret, Moves
<1>9. ASSUME NEW q \in Processes, NEW r \in Processes PROVE KeysOf(q, r)'
  <2>1. KeysOf(q, r) /\ KeysOf(q, p)
    BY DEF IInv, KeysInv
  <2> QED
    <3>1. /\ Holds(q)' => Holds(q) /\ my'[q].key = my[q].key
          /\ Holds(r)' => Holds(r) /\ my'[r].key = my[r].key
          /\ my'[r].key \in {None, my[r].key}
          /\ pc'[q] \in New => pc[q] \in New
      BY <1>1, <1>2, <1>4, <1>5 DEF Holds
    <3>2. pc[q] # "fill new" /\ pc'[q] # "fill new"
      BY <1>1, <1>2, <1>4, <2>1 DEF KeysOf
    <3>3. pc'[q] \in New => (Whole' => files'["entry"].key # q) /\ (my'[r].key = q => r = q)
      BY <1>4, <2>1, <3>1, ValuesAssumption DEF KeysOf
    <3>4. Holds(q)' => files'["entry"] # Absent /\ (Whole' => files'["entry"].key = my'[q].key)
      BY <1>3, <1>4
    <3>5. Holds(q)' /\ Holds(r)' => my'[r].key = my'[q].key
      BY <2>1, <3>1 DEF KeysOf
    <3> QED
      BY <3>2, <3>3, <3>4, <3>5 DEF KeysOf
<1>10. ASSUME NEW q \in Processes, NEW r \in Processes PROVE SecretsOf(q, r)'
  <2>1. SecretsOf(q, r)
    BY DEF IInv, SecretsInv
  <2> QED
    <3>1. /\ Holds(r)' => Holds(r) /\ my'[r].key = my[r].key
          /\ my'[q].key \in {None, my[q].key}
          /\ pc[q] \in New => pc'[q] \in New
          /\ pc'[r] = "fill new" => pc[r] = "fill new"
      BY <1>1, <1>2, <1>4, <1>5 DEF Holds
    <3>2. reboots' = reboots
      BY DEF Moves
    <3> QED
      BY <1>2, <1>3, <1>4, <2>1, <3>1, <3>2 DEF SecretsOf
<1>11. ASSUME ~overlap', ~Interrupted' PROVE EntryInTurn' /\ \A q \in Processes : TurnOf(q)'
  <2>1. EntryInTurn /\ \A q \in Processes : TurnOf(q)
    BY <1>2, <1>11 DEF IInv, TurnsInv
  <2>2. EntryInTurn'
    BY <1>2, <1>4, <1>11 DEF EntryInTurn, Holds
  <2>3. ASSUME NEW q \in Processes PROVE TurnOf(q)'
    <3>1. /\ pc'[q] \in {"fill", "fill new"} => x = Empty
          /\ my'[q].session # None => my'[q].session = my[q].session
          /\ pc'[q] \notin {"delete", "deleted"} /\ pc[q] # "deleted"
      BY <1>2, <1>5, <1>11
    <3> QED
      BY <1>3, <2>1, <3>1 DEF TurnOf, Usable
  <2> QED
    BY <2>2, <2>3
<1> QED
  BY <1>2, <1>6, <1>7, <1>8, <1>9, <1>10, <1>11 DEF IInv, LocalsInv, KeysInv, SecretsInv, TurnsInv

(* A command with a new key creates the file, or gives the key up.         *)
LEMMA NewMove ==
  ASSUME IInv, NEW p \in Processes, NEW place \in {"fill new", "clean up"},
         Moves(p, place, my[p]), UNCHANGED <<secrets, sessions, unreported>>,
         pc[p] \in {"create", "fill new"},
         NEW x \in {files["entry"], Empty, Torn},
         files' = [files EXCEPT !["entry"] = x],
         place = "fill new" => pc[p] = "create" /\ files["entry"] = Absent /\ x = Empty,
         place = "clean up" => x = files["entry"] \/ (pc[p] = "fill new" /\ x = Torn),
         Interrupted' \/ pc[p] = "create"
  PROVE  IInv'
<1>1. place \in Places /\ place \in New /\ pc[p] \in New /\ place \notin Keyless /\ my[p] \in Locals
  BY DEF Places, New, Keyless, IInv, TypeInv
<1>2. /\ pc' \in [Processes -> Places] /\ my' \in [Processes -> Locals]
      /\ \A q \in Processes : pc'[q] = IF q = p THEN place ELSE pc[q]
      /\ \A q \in Processes : my'[q] = IF q = p THEN my[p] ELSE my[q]
      /\ ~overlap' => ~overlap /\ \A q \in Processes \ {p} : pc[q] = "idle"
      /\ ~overlap' => \A q, r \in Processes : pc'[q] # "idle" /\ pc'[r] # "idle" => q = r
      /\ ~Interrupted' => ~Interrupted
  <2> DEFINE v == my[p]
  <2>1. place \in Places /\ v \in Locals /\ Moves(p, place, v)
    BY <1>1
  <2> HIDE DEF v
  <2>2. /\ pc' \in [Processes -> Places] /\ my' \in [Processes -> Locals]
        /\ \A q \in Processes : pc'[q] = IF q = p THEN place ELSE pc[q]
        /\ \A q \in Processes : my'[q] = IF q = p THEN v ELSE my[q]
        /\ ~overlap' => ~overlap /\ \A q \in Processes \ {p} : pc[q] = "idle"
        /\ ~overlap' => \A q, r \in Processes : pc'[q] # "idle" /\ pc'[r] # "idle" => q = r
        /\ ~Interrupted' => ~Interrupted
    BY <2>1, MoveFacts, ZenonT(30)
  <2> QED
    BY <2>2 DEF v
<1>3. /\ files' \in [{"entry", "default"} \cup Aliases -> Entries \cup Aliases \cup {Absent, Empty, Torn}]
      /\ files'["entry"] = x /\ files'["default"] = files["default"]
      /\ \A a \in Aliases : files'[a] = files[a]
      /\ files'["entry"] \in Entries \cup {Absent, Empty, Torn}
  BY ValuesAssumption DEF IInv, TypeInv
<1>4. {Empty, Torn} \cap Entries = {} /\ Absent \notin {Empty, Torn}
  BY ValuesAssumption DEF Entries, Sessions
<1>5. (Whole' => Whole /\ files'["entry"] = files["entry"]) /\ (files["entry"] # Absent => files'["entry"] # Absent)
  BY <1>3, <1>4 DEF Whole
<1>6. TypeInv'
  BY <1>2, <1>3 DEF IInv, TypeInv, Moves
<1>7. ASSUME NEW q \in Processes PROVE LocalsOf(q)'
  <2>1. CASE q # p
    <3>1. LocalsOf(q) /\ pc'[q] = pc[q] /\ my'[q] = my[q]
      BY <1>2, <2>1 DEF IInv, LocalsInv
    <3>2. \A a \in Aliases : files'[a] = files[a] /\ secrets'[a] = secrets[a] /\ reboots' = reboots
      BY <1>3 DEF Moves
    <3> QED
      BY <3>1, <3>2 DEF LocalsOf, WritesEntry, WritesAlias, WritesDefault, Saved, HasSecret
  <2>2. CASE q = p
    <3>1. LocalsOf(p) /\ my'[p] = my[p] /\ pc'[p] = place
      BY <1>2 DEF IInv, LocalsInv
    <3>2. WritesEntry(p)'
      BY <1>1, <3>1 DEF LocalsOf, WritesEntry
    <3> QED
      BY <1>1, <2>2, <3>1, <3>2 DEF LocalsOf, AtHost
  <2> QED
    BY <2>1, <2>2
<1>8. SavedInv'
  BY <1>3, <1>5 DEF IInv, SavedInv, Saved, HasSecret, Moves
<1>9. ASSUME NEW q \in Processes, NEW r \in Processes PROVE KeysOf(q, r)'
  <2>0. my'[q] = my[q] /\ my'[r] = my[r]
    BY <1>2
  <2>1. KeysOf(q, r) /\ KeysOf(r, r) /\ KeysOf(q, p)
    BY DEF IInv, KeysInv
  <2>2. /\ Holds(q)' = Holds(q) /\ Holds(r)' = Holds(r)
        /\ pc'[q] \in New <=> pc[q] \in New
    BY <1>1, <1>2 DEF Holds
  <2>3. pc'[q] = "fill new" /\ q # p => pc[q] = "fill new" /\ x = Empty
    BY <1>2, <1>4, <2>1 DEF KeysOf
  <2>4. pc'[q] = "fill new" /\ q = p => files["entry"] = Absent /\ x = Empty
    BY <1>2
  <2>5. files["entry"] = Absent => ~Holds(r) /\ pc[r] # "fill new"
    BY <1>4, <2>1 DEF KeysOf
  <2>6. pc'[r] = "fill new" => pc[r] = "fill new" \/ (r = p /\ files["entry"] = Absent)
    BY <1>2
  <2>7. (pc'[q] \in New => (Whole' => files'["entry"].key # q) /\ (my'[r].key = q => r = q))
    BY <1>5, <2>0, <2>1, <2>2 DEF KeysOf
  <2>8. Holds(q)' => files'["entry"] # Absent /\ (Whole' => files'["entry"].key = my'[q].key)
    BY <1>5, <2>0, <2>1, <2>2 DEF KeysOf
  <2>9. Holds(q)' /\ Holds(r)' => my'[r].key = my'[q].key
    BY <2>0, <2>1, <2>2 DEF KeysOf
  <2>10. pc'[q] = "fill new" => files'["entry"] = Empty /\ ~Holds(r)' /\ (pc'[r] = "fill new" => r = q)
    BY <1>3, <1>4, <2>1, <2>2, <2>3, <2>4, <2>5, <2>6 DEF KeysOf
  <2> QED
    BY <2>7, <2>8, <2>9, <2>10 DEF KeysOf
<1>10. ASSUME NEW q \in Processes, NEW r \in Processes PROVE SecretsOf(q, r)'
  <2>1. SecretsOf(q, r)
    BY DEF IInv, SecretsInv
  <2>2. /\ Holds(r)' = Holds(r)
        /\ pc'[q] \in New <=> pc[q] \in New
        /\ pc'[r] = "fill new" => pc[r] = "fill new" \/ files["entry"] = Absent
    BY <1>1, <1>2 DEF Holds
  <2> QED
    BY <1>2, <1>5, <2>1, <2>2 DEF SecretsOf, Moves
<1>11. ASSUME ~overlap', ~Interrupted' PROVE EntryInTurn' /\ \A q \in Processes : TurnOf(q)'
  <2>1. /\ EntryInTurn /\ \A q \in Processes : TurnOf(q)
        /\ pc[p] = "create" /\ my[p].key # None
    <3>1. LocalsOf(p)
      BY DEF IInv, LocalsInv
    <3>2. my[p].key # None
      BY <1>1, <3>1 DEF LocalsOf, WritesEntry
    <3> QED
      BY <1>2, <1>11, <3>2 DEF IInv, TurnsInv
  <2>2. EntryInTurn'
    <3>1. \A q \in Processes : pc[q] \notin {"fill", "fill new", "truncate", "deleted"}
      BY <1>2, <1>11, <2>1
    <3>2. /\ files["entry"] \notin Damage
          /\ Whole /\ files["entry"].session # None => Usable(files["entry"].session)
      BY <2>1, <3>1 DEF EntryInTurn
    <3>3. files'["entry"] \in Damage => pc'[p] = "fill new" /\ my'[p].key # None
      BY <1>2, <1>3, <2>1, <3>2
    <3>4. Whole' /\ files'["entry"].session # None => Usable(files["entry"].session)'
      <4>1. Usable(files'["entry"].session) => Usable(files["entry"].session)'
        BY DEF Usable
      <4> QED
        BY <1>5, <3>2, <4>1
    <3> QED
      BY <1>5, <3>2, <3>3, <3>4 DEF EntryInTurn
  <2>3. ASSUME NEW q \in Processes PROVE TurnOf(q)'
    <3>1. /\ pc'[q] \in {"fill", "fill new"} => q = p /\ x = Empty
          /\ pc'[q] \notin {"delete", "deleted"} /\ pc[q] # "deleted" /\ my'[q] = my[q]
      BY <1>2, <1>11, <2>1
    <3> QED
      BY <1>3, <2>1, <3>1 DEF TurnOf, Usable
  <2> QED
    BY <2>2, <2>3
<1> QED
  BY <1>2, <1>6, <1>7, <1>8, <1>9, <1>10, <1>11 DEF IInv, LocalsInv, KeysInv, SecretsInv, TurnsInv

(* The files after a write into a marker or the default.                   *)
LEMMA FileAfter ==
  ASSUME IInv, NEW f \in {"default"} \cup Aliases, NEW x, x \in Aliases \cup {Empty, Torn},
         f = "default" \/ x \in {f, Empty, Torn}, files' = [files EXCEPT ![f] = x]
  PROVE  /\ files' \in [{"entry", "default"} \cup Aliases -> Entries \cup Aliases \cup {Absent, Empty, Torn}]
         /\ files'["entry"] = files["entry"]
         /\ files'["default"] = IF f = "default" THEN x ELSE files["default"]
         /\ files'["default"] \in Aliases \cup {Absent, Empty, Torn}
         /\ \A a \in Aliases : /\ files'[a] \in {a, Absent, Empty, Torn}
                               /\ files[a] # Absent => files'[a] # Absent
                               /\ a = f => files'[a] = x /\ x # Absent
BY ValuesAssumption DEF IInv, TypeInv

(* A file is truncated before it is written.                               *)
LEMMA TruncateInv ==
  ASSUME IInv, NEW p \in Processes, Truncate(p)
  PROVE  IInv'
<1> DEFINE file == Head(my[p].writes)[1]
<1>1. /\ pc[p] = "truncate" /\ Goto(p, "fill", my[p]) /\ my[p] \in Locals
      /\ files' = [files EXCEPT ![file] = Empty]
      /\ UNCHANGED <<secrets, sessions, unreported, commands, failures, reboots, overlap>>
  BY DEF Truncate, world, IInv, TypeInv
<1>2. Moves(p, "fill", my[p])
  BY <1>1, StepMoves
<1>3. LocalsOf(p) /\ (WritesEntry(p) \/ WritesAlias(p) \/ WritesDefault(p))
  BY <1>1 DEF IInv, LocalsInv, LocalsOf
<1>4. pc'[p] = "fill" /\ my'[p] = my[p]
  BY <1>1 DEF Goto, IInv, TypeInv
<1>5. "fill" \notin Keyless \cup New
  BY DEF Keyless, New
<1>6. CASE WritesEntry(p)
  <2>1. file = "entry"
    BY <1>6, EntryForm DEF WritesEntry
  <2> QED
    BY <1>1, <1>2, <1>6, <2>1, DamageMove DEF Damage
<1>7. CASE WritesAlias(p)
  <2>1. PICK a \in Aliases : my[p].writes = AliasWrites(a) /\ HasSecret(a)
    BY <1>7 DEF WritesAlias
  <2>2. file = a
    BY <2>1, AliasForm
  <2>3. files' = [files EXCEPT ![a] = Empty]
    BY <1>1, <2>2
  <2> HIDE DEF file
  <2>4. /\ files' \in [{"entry", "default"} \cup Aliases -> Entries \cup Aliases \cup {Absent, Empty, Torn}]
        /\ files'["entry"] = files["entry"] /\ files'["default"] = files["default"]
        /\ files'["default"] \in Aliases \cup {Absent, Empty, Torn}
        /\ files'[a] # Absent
        /\ \A b \in Aliases : /\ files'[b] \in {b, Absent, Empty, Torn}
                              /\ files[b] # Absent => files'[b] # Absent
    BY <2>3, ValuesAssumption, FileAfter
  <2>5. WritesAlias(p)'
    BY <1>1, <1>4, <1>7, <2>1, <2>4 DEF WritesAlias, HasSecret
  <2>6. LocalsOf(p)'
    BY <1>3, <1>4, <1>5, <2>5 DEF LocalsOf, AtHost
  <2>7. files'["default"] \in Aliases => Saved(files["default"])'
    BY <1>1, <2>4 DEF IInv, SavedInv, Saved, HasSecret
  <2> QED
    BY <1>1, <1>2, <1>7, <2>4, <2>6, <2>7, NamesMove DEF WritesAlias
<1>8. CASE WritesDefault(p)
  <2>1. PICK a \in Aliases : my[p].writes = DefaultWrites(a) /\ Saved(a)
    BY <1>8 DEF WritesDefault
  <2>2. file = "default"
    BY <2>1, DefaultForm
  <2>3. files' = [files EXCEPT !["default"] = Empty]
    BY <1>1, <2>2
  <2> HIDE DEF file
  <2>4. /\ files' \in [{"entry", "default"} \cup Aliases -> Entries \cup Aliases \cup {Absent, Empty, Torn}]
        /\ files'["entry"] = files["entry"] /\ files'["default"] = Empty
        /\ files'["default"] \in Aliases \cup {Absent, Empty, Torn}
        /\ \A b \in Aliases : /\ files'[b] \in {b, Absent, Empty, Torn}
                              /\ files[b] # Absent => files'[b] # Absent
    BY <2>3, ValuesAssumption, FileAfter
  <2>5. WritesDefault(p)'
    BY <1>1, <1>4, <1>8, <2>1, <2>4 DEF WritesDefault, Saved, HasSecret
  <2>6. LocalsOf(p)'
    BY <1>3, <1>4, <1>5, <2>5 DEF LocalsOf, AtHost
  <2>7. files'["default"] \notin Aliases
    BY <2>4, ValuesAssumption
  <2> QED
    BY <1>1, <1>2, <1>8, <2>4, <2>6, <2>7, NamesMove DEF WritesDefault
<1> QED
  BY <1>3, <1>6, <1>7, <1>8

(* An auth file is created where there is none, and by one command only.   *)
LEMMA CreateEntryInv ==
  ASSUME IInv, NEW p \in Processes, CreateEntry(p)
  PROVE  IInv'
<1>1. /\ pc[p] = "create" /\ UNCHANGED <<secrets, sessions, unreported, commands, failures, reboots, overlap>>
  BY DEF CreateEntry, world
<1>2. CASE files["entry"] = Absent /\ files' = [files EXCEPT !["entry"] = Empty] /\ Goto(p, "fill new", my[p])
  <2>1. Moves(p, "fill new", my[p])
    BY <1>1, <1>2, StepMoves
  <2> QED
    BY <1>1, <1>2, <2>1, NewMove
<1>3. CASE files["entry"] # Absent /\ Goto(p, "clean up", my[p]) /\ UNCHANGED files
  <2>1. Moves(p, "clean up", my[p])
    BY <1>1, <1>3, StepMoves
  <2>2. files' = [files EXCEPT !["entry"] = files["entry"]]
    BY <1>3 DEF IInv, TypeInv
  <2> QED
    BY <1>1, <2>1, <2>2, NewMove
<1> QED
  BY <1>2, <1>3 DEF CreateEntry

(* The command that has the auth file open writes it.                      *)
LEMMA FillEntryInv ==
  ASSUME IInv, NEW p \in Processes, pc[p] \in {"fill", "fill new"}, WritesEntry(p),
         Exit(p), UNCHANGED <<secrets, world>>,
         NEW x \in Overlay("entry", WholeEntry(my[p])),
         files' = [files EXCEPT !["entry"] = x]
  PROVE  IInv'
<1>1. my[p] \in Locals /\ my[p].key \in Processes /\ my[p].server # None /\ my[p].session \in Sessions \cup {None}
  BY DEF IInv, TypeInv, WritesEntry, LocalsInv, LocalsOf, Locals
<1>2. /\ WholeEntry(my[p]) \in Entries /\ WholeEntry(my[p]).key = my[p].key
      /\ WholeEntry(my[p]).server = my[p].server /\ WholeEntry(my[p]).session = my[p].session
  BY <1>1, SavingFits, ValuesAssumption
<1>3. x \in {WholeEntry(my[p]), Torn} /\ (files["entry"] = Empty => x = WholeEntry(my[p]))
  BY DEF Overlay
<1>4. /\ files' \in [{"entry", "default"} \cup Aliases -> Entries \cup Aliases \cup {Absent, Empty, Torn}]
      /\ files'["entry"] = x /\ files'["default"] = files["default"]
      /\ \A a \in Aliases : files'[a] = files[a]
  BY <1>2, <1>3, ValuesAssumption DEF IInv, TypeInv
<1>5. x # Absent /\ (Whole' => x = WholeEntry(my[p])) /\ WholeEntry(my[p]) \notin Damage
  <2>1. {Absent, Empty, Torn, None} \cap Entries = {} /\ Absent # Torn
    BY ValuesAssumption DEF Entries, Sessions
  <2> QED
    BY <1>2, <1>3, <1>4, <2>1 DEF Whole, Damage
<1>6. Moves(p, "idle", NoLocals) /\ UNCHANGED <<sessions, unreported, reboots>>
  BY StepMoves DEF Exit, world
<1>7. /\ pc' \in [Processes -> Places] /\ my' \in [Processes -> Locals]
      /\ \A q \in Processes : pc'[q] = IF q = p THEN "idle" ELSE pc[q]
      /\ \A q \in Processes : my'[q] = IF q = p THEN NoLocals ELSE my[q]
      /\ ~overlap' => ~overlap /\ \A q \in Processes \ {p} : pc[q] = "idle"
      /\ ~overlap' => \A q, r \in Processes : pc'[q] # "idle" /\ pc'[r] # "idle" => q = r
      /\ ~Interrupted' => ~Interrupted
  BY <1>6, NoLocalsFits, MoveFacts DEF Places, Keyless
<1>8. TypeInv'
  BY <1>2, <1>3, <1>4, <1>6, <1>7 DEF IInv, TypeInv, Moves
<1>9. ASSUME NEW q \in Processes PROVE LocalsOf(q)'
  <2>1. CASE q # p
    <3>1. LocalsOf(q) /\ pc'[q] = pc[q] /\ my'[q] = my[q]
      BY <1>7, <2>1 DEF IInv, LocalsInv
    <3>2. \A a \in Aliases : files'[a] = files[a] /\ secrets'[a] = secrets[a] /\ reboots' = reboots
      BY <1>4, <1>6
    <3> QED
      BY <3>1, <3>2 DEF LocalsOf, WritesEntry, WritesAlias, WritesDefault, Saved, HasSecret
  <2>2. CASE q = p
    <3>1. my'[q] = NoLocals /\ pc'[q] = "idle"
      BY <1>7, <2>2
    <3> QED
      BY <3>1, NoLocalsFits DEF LocalsOf, New, AtHost
  <2> QED
    BY <2>1, <2>2
<1>10. SavedInv'
  <2>1. Whole' /\ x.session # None => x.session[1] = x.server
    <3>1. my[p].session # None => my[p].session[1] = my[p].server
      BY DEF IInv, LocalsInv, LocalsOf
    <3> QED
      BY <1>2, <1>5, <3>1
  <2> QED
    BY <1>4, <1>6, <2>1 DEF IInv, SavedInv, Saved, HasSecret
<1>11. ASSUME NEW q \in Processes PROVE
          /\ pc'[q] \in New => pc[q] \in New /\ q # p
          /\ Holds(q)' => Holds(q) /\ q # p
          /\ pc'[q] = "fill new" => pc[q] = "fill new" /\ q # p
          /\ my'[q].key = IF q = p THEN None ELSE my[q].key
  BY <1>7, NoLocalsFits DEF New, Holds
<1>12. Holds(p) \/ pc[p] = "fill new"
  BY DEF Holds, New, WritesEntry
<1>13. ASSUME NEW q \in Processes, NEW r \in Processes PROVE KeysOf(q, r)'
  <2>1. KeysOf(q, r) /\ KeysOf(q, p) /\ KeysOf(p, q)
    BY DEF IInv, KeysInv
  <2>2. pc'[q] \in New => (Whole' => files'["entry"].key # q) /\ (my'[r].key = q => r = q)
    <3>1. pc'[q] \in New => my[p].key # q
      BY <1>11, <2>1 DEF KeysOf
    <3>2. Whole' => files'["entry"].key = my[p].key
      BY <1>2, <1>4, <1>5
    <3>3. pc'[q] \in New => (my'[r].key = q => r = q)
      BY <1>11, <2>1, ValuesAssumption DEF KeysOf
    <3> QED
      BY <3>1, <3>2, <3>3
  <2>3. Holds(q)' => files'["entry"] # Absent /\ (Whole' => files'["entry"].key = my'[q].key)
    BY <1>2, <1>4, <1>5, <1>11, <1>12, <2>1 DEF KeysOf
  <2>4. Holds(q)' /\ Holds(r)' => my'[r].key = my'[q].key
    BY <1>11, <2>1 DEF KeysOf
  <2>5. pc'[q] # "fill new"
    BY <1>11, <1>12, <2>1 DEF KeysOf
  <2> QED
    BY <2>2, <2>3, <2>4, <2>5 DEF KeysOf
<1>14. ASSUME NEW q \in Processes, NEW r \in Processes PROVE SecretsOf(q, r)'
  <2>1. /\ SecretsOf(q, r) /\ SecretsOf(q, p) /\ SecretsOf(p, p) /\ SecretsOf(p, r)
        /\ KeysOf(p, r)
    BY DEF IInv, SecretsInv, KeysInv
  <2>2. my[p].key # None /\ (pc[p] \in New => my[p].key = p)
    BY DEF WritesEntry, IInv, LocalsInv, LocalsOf
  <2>3. reboots' = 0 /\ Whole' => secrets'[files'["entry"].key] = Key
    BY <1>2, <1>4, <1>5, <1>6, <2>1, <2>2 DEF SecretsOf
  <2>4. reboots' = 0 /\ my'[q].key # None => secrets'[my'[q].key] = Key
    BY <1>6, <1>11, <2>1 DEF SecretsOf
  <2>5. ASSUME ~Interrupted', secrets'[q] # None, pc'[q] \notin New
        PROVE  /\ files'["entry"] # Absent /\ (Whole' => files'["entry"].key = q)
               /\ pc'[r] # "fill new" /\ (Holds(r)' => my'[r].key = q)
    <3>1. CASE q # p
      <4>1. pc[q] \notin New /\ ~Interrupted /\ secrets[q] # None
        BY <1>7, <2>5, <3>1
      <4>2. pc[p] # "fill new" /\ my[p].key = q
        BY <1>12, <2>1, <4>1 DEF SecretsOf
      <4> QED
        BY <1>2, <1>4, <1>5, <1>11, <2>1, <4>1, <4>2 DEF SecretsOf
    <3>2. CASE q = p /\ pc[p] = "fill new"
      BY <1>2, <1>4, <1>5, <1>11, <2>1, <2>2, <3>2 DEF KeysOf, New
    <3>3. CASE q = p /\ Holds(p)
      <4>1. pc[q] \notin New /\ ~Interrupted /\ secrets[q] # None
        BY <1>7, <2>5, <3>3 DEF Holds
      <4> QED
        BY <1>2, <1>4, <1>5, <1>11, <2>1, <3>3, <4>1 DEF SecretsOf
    <3> QED
      BY <1>12, <3>1, <3>2, <3>3
  <2> QED
    BY <2>3, <2>4, <2>5 DEF SecretsOf
<1>15. ASSUME ~overlap', ~Interrupted' PROVE EntryInTurn' /\ \A q \in Processes : TurnOf(q)'
  <2>1. EntryInTurn /\ \A q \in Processes : TurnOf(q)
    BY <1>7, <1>15 DEF IInv, TurnsInv
  <2>2. /\ x = WholeEntry(my[p]) /\ x \in Entries /\ x \notin Damage
        /\ x.session # None => Usable(x.session)
    <3>1. files["entry"] = Empty /\ (my[p].session # None => Usable(my[p].session))
      BY <2>1 DEF TurnOf, WritesEntry
    <3> QED
      BY <1>2, <1>3, <1>5, <3>1
  <2>3. EntryInTurn'
    BY <1>4, <1>6, <2>2 DEF EntryInTurn, Usable
  <2>4. ASSUME NEW q \in Processes PROVE TurnOf(q)'
    <3>1. /\ pc'[q] = "idle" /\ pc[q] # "deleted"
          /\ my'[q].session # None => my'[q].session = my[q].session
      BY <1>7, <1>15, NoLocalsFits
    <3> QED
      BY <1>6, <2>1, <3>1 DEF TurnOf, Usable
  <2> QED
    BY <2>3, <2>4
<1> QED
  BY <1>7, <1>8, <1>9, <1>10, <1>13, <1>14, <1>15 DEF IInv, LocalsInv, KeysInv, SecretsInv, TurnsInv

(* What has been truncated is written, beside others who may do the same.  *)
LEMMA FillInv ==
  ASSUME IInv, NEW p \in Processes, Fill(p)
  PROVE  IInv'
<1> DEFINE file == Head(my[p].writes)[1]
           content == Head(my[p].writes)[2]
           rest == Tail(my[p].writes)
<1>1. PICK x \in Overlay(file, content) :
        /\ files' = [files EXCEPT ![file] = x]
        /\ pc[p] \in {"fill", "fill new"} /\ UNCHANGED <<secrets, world>>
        /\ IF rest = <<>> THEN Exit(p)
           ELSE Goto(p, "truncate", [my[p] EXCEPT !.writes = rest])
  BY DEF Fill
<1>2. my[p] \in Locals /\ LocalsOf(p) /\ (WritesEntry(p) \/ WritesAlias(p) \/ WritesDefault(p))
  BY <1>1 DEF IInv, TypeInv, LocalsInv, LocalsOf, New
<1>3. WritesAlias(p) \/ WritesDefault(p) => pc[p] = "fill"
  BY <1>1, <1>2, ValuesAssumption DEF WritesAlias, WritesDefault, LocalsOf, New
<1>4. "idle" \notin New /\ "truncate" \notin Keyless \cup New
  BY DEF Keyless, New
<1>5. CASE WritesEntry(p)
  <2>1. file = "entry" /\ content = WholeEntry(my[p]) /\ rest = <<>>
    BY <1>5, EntryForm DEF WritesEntry
  <2> HIDE DEF file, content, rest
  <2> QED
    BY <1>1, <1>5, <2>1, FillEntryInv
<1>6. CASE WritesAlias(p)
  <2>1. PICK a \in Aliases : my[p].writes = AliasWrites(a) /\ HasSecret(a)
    BY <1>6 DEF WritesAlias
  <2>2. file = a /\ content = a /\ rest = DefaultWrites(a) /\ rest # <<>>
    BY <2>1, AliasForm
  <2> DEFINE v == [my[p] EXCEPT !.writes = DefaultWrites(a)]
  <2>3. DefaultWrites(a) \in Writes
    BY DEF Writes
  <2>4. /\ v \in Locals /\ v.key = my[p].key /\ v.session = my[p].session
        /\ v.server = my[p].server /\ v.writes = DefaultWrites(a)
    BY <1>2, <2>3 DEF Locals
  <2>5. Goto(p, "truncate", v)
    BY <1>1, <2>2
  <2> HIDE DEF v, file, content, rest
  <2>6. x \in {a, Empty, Torn} /\ files' = [files EXCEPT ![a] = x]
    BY <1>1, <2>2 DEF Overlay
  <2>7. /\ files' \in [{"entry", "default"} \cup Aliases -> Entries \cup Aliases \cup {Absent, Empty, Torn}]
        /\ files'["entry"] = files["entry"] /\ files'["default"] = files["default"]
        /\ files'["default"] \in Aliases \cup {Absent, Empty, Torn}
        /\ files'[a] # Absent
        /\ \A b \in Aliases : /\ files'[b] \in {b, Absent, Empty, Torn}
                              /\ files[b] # Absent => files'[b] # Absent
    BY <2>6, ValuesAssumption, FileAfter
  <2>8. Moves(p, "truncate", v) /\ UNCHANGED <<secrets, sessions, unreported, reboots>>
    BY <1>1, <2>5, StepMoves DEF world
  <2>9. pc'[p] = "truncate" /\ my'[p] = v
    BY <2>5 DEF Goto, IInv, TypeInv
  <2>10. WritesDefault(p)'
    BY <1>6, <2>1, <2>4, <2>7, <2>8, <2>9 DEF WritesAlias, WritesDefault, Saved, HasSecret
  <2>11. LocalsOf(p)'
    BY <1>2, <1>4, <1>6, <2>4, <2>9, <2>10 DEF LocalsOf, WritesAlias, AtHost
  <2>12. files'["default"] \in Aliases => Saved(files["default"])'
    BY <2>7, <2>8 DEF IInv, SavedInv, Saved, HasSecret
  <2> QED
    BY <1>3, <1>6, <2>4, <2>7, <2>8, <2>11, <2>12, NamesMove DEF WritesAlias
<1>7. CASE WritesDefault(p)
  <2>1. PICK a \in Aliases : my[p].writes = DefaultWrites(a) /\ Saved(a)
    BY <1>7 DEF WritesDefault
  <2>2. file = "default" /\ content = a /\ rest = <<>>
    BY <2>1, DefaultForm
  <2> HIDE DEF file, content, rest
  <2>3. x \in {a, Torn} /\ files' = [files EXCEPT !["default"] = x] /\ Exit(p)
    BY <1>1, <2>2 DEF Overlay
  <2>4. /\ files' \in [{"entry", "default"} \cup Aliases -> Entries \cup Aliases \cup {Absent, Empty, Torn}]
        /\ files'["entry"] = files["entry"] /\ files'["default"] = x
        /\ files'["default"] \in Aliases \cup {Absent, Empty, Torn}
        /\ \A b \in Aliases : /\ files'[b] \in {b, Absent, Empty, Torn}
                              /\ files[b] # Absent => files'[b] # Absent
    BY <2>3, ValuesAssumption, FileAfter
  <2>5. Moves(p, "idle", NoLocals) /\ UNCHANGED <<secrets, sessions, unreported, reboots>>
    BY <1>1, <2>3, StepMoves DEF Exit, world
  <2>6. pc'[p] = "idle" /\ my'[p] = NoLocals
    BY <2>3 DEF Exit, Goto, IInv, TypeInv
  <2>7. LocalsOf(p)'
    BY <1>4, <2>6, NoLocalsFits DEF LocalsOf, AtHost
  <2>8. files'["default"] \in Aliases => Saved(files["default"])'
    <3>1. files'["default"] \in Aliases => x = a
      BY <2>3, <2>4, ValuesAssumption
    <3>2. files'[a] # Absent /\ HasSecret(a)'
      BY <2>1, <2>4, <2>5 DEF Saved, HasSecret
    <3> QED
      BY <2>4, <3>1, <3>2 DEF Saved, HasSecret
  <2> QED
    BY <1>3, <1>7, <2>4, <2>5, <2>7, <2>8, NoLocalsFits, NamesMove DEF WritesDefault
<1> QED
  BY <1>2, <1>5, <1>6, <1>7

(* A write that fails leaves what it has written so far.                   *)
LEMMA FailWriteInv ==
  ASSUME IInv, NEW p \in Processes, FailWrite(p)
  PROVE  IInv'
<1> DEFINE file == Head(my[p].writes)[1]
<1>1. /\ pc[p] \in {"create", "fill", "fill new"} /\ pc[p] # "idle"
      /\ failures' = failures + 1 /\ UNCHANGED <<secrets, sessions, unreported, commands, reboots, overlap>>
      /\ files' = files \/ (pc[p] # "create" /\ files' = [files EXCEPT ![file] = Torn])
      /\ IF pc[p] = "fill" THEN Exit(p) ELSE Goto(p, "clean up", my[p])
  BY DEF FailWrite
<1>2. LocalsOf(p) /\ (WritesEntry(p) \/ WritesAlias(p) \/ WritesDefault(p))
  BY <1>1 DEF IInv, LocalsInv, LocalsOf, New
<1>3. WritesEntry(p) => file = "entry"
  BY EntryForm DEF WritesEntry
<1>4. CASE pc[p] # "fill"
  <2>1. file = "entry"
    BY <1>1, <1>2, <1>3, <1>4 DEF LocalsOf, New
  <2> HIDE DEF file
  <2>2. Moves(p, "clean up", my[p]) /\ Interrupted'
    BY <1>1, <1>4, FailMoves
  <2>3. PICK x \in {files["entry"], Torn} :
          files' = [files EXCEPT !["entry"] = x] /\ (x = files["entry"] \/ pc[p] = "fill new")
    BY <1>1, <1>4, <2>1 DEF IInv, TypeInv
  <2> QED
    BY <1>1, <1>4, <2>2, <2>3, NewMove
<1>5. CASE pc[p] = "fill" /\ files' = files
  <2>1. Moves(p, "idle", NoLocals) /\ failures' > failures
    BY <1>1, <1>5, FailMoves DEF Exit
  <2>2. "idle" \in Keyless
    BY DEF Keyless
  <2> QED
    BY <1>1, <1>5, <2>1, <2>2, NoLocalsFits, LightMove
<1>6. CASE pc[p] = "fill" /\ files' = [files EXCEPT ![file] = Torn]
  <2>1. Moves(p, "idle", NoLocals) /\ Interrupted' /\ pc'[p] = "idle" /\ my'[p] = NoLocals
    BY <1>1, <1>6, FailMoves DEF Exit, Goto, IInv, TypeInv
  <2>2. LocalsOf(p)'
    BY <2>1, NoLocalsFits DEF LocalsOf, New, AtHost
  <2>3. CASE WritesEntry(p)
    BY <1>1, <1>3, <1>6, <2>1, <2>3, NoLocalsFits, DamageMove DEF Damage
  <2>4. CASE ~WritesEntry(p)
    <3>1. my[p].key = None
      BY <1>2, <2>4 DEF WritesAlias, WritesDefault
    <3>2. file \in {"default"} \cup Aliases
      <4>1. ASSUME NEW a \in Aliases, my[p].writes = AliasWrites(a) PROVE file = a
        BY <4>1, AliasForm
      <4>2. ASSUME NEW a \in Aliases, my[p].writes = DefaultWrites(a) PROVE file = "default"
        BY <4>2, DefaultForm
      <4> HIDE DEF file
      <4> QED
        BY <1>2, <2>4, <4>1, <4>2 DEF WritesAlias, WritesDefault
    <3> HIDE DEF file
    <3>3. /\ files' \in [{"entry", "default"} \cup Aliases -> Entries \cup Aliases \cup {Absent, Empty, Torn}]
          /\ files'["entry"] = files["entry"]
          /\ files'["default"] = IF file = "default" THEN Torn ELSE files["default"]
          /\ files'["default"] \in Aliases \cup {Absent, Empty, Torn}
          /\ \A b \in Aliases : /\ files'[b] \in {b, Absent, Empty, Torn}
                                /\ files[b] # Absent => files'[b] # Absent
      BY <1>6, <3>2, FileAfter
    <3>4. files'["default"] \in Aliases => Saved(files["default"])'
      BY <1>1, <3>3, ValuesAssumption DEF IInv, SavedInv, Saved, HasSecret
    <3> QED
      BY <1>1, <1>6, <2>1, <2>2, <3>1, <3>3, <3>4, NoLocalsFits, NamesMove
  <2> QED
    BY <2>3, <2>4
<1> QED
  BY <1>1, <1>4, <1>5, <1>6
-----------------------------------------------------------------------------
(* Keys come and go.                                                       *)

(* A new key is one that no auth file and no other command has.            *)
LEMMA NewKeyInv ==
  ASSUME IInv, NEW p \in Processes, NewKey(p)
  PROVE  IInv'
<1> DEFINE u == [my[p] EXCEPT !.key = p]
           v == Saving(u)
<1>1. /\ my[p] \in Locals /\ my[p].server # None /\ my[p].session = None
      /\ pc[p] = "store" /\ files["entry"] = Absent /\ p # None
  BY ValuesAssumption DEF NewKey, IInv, TypeInv, LocalsInv, LocalsOf, Keyless
<1>2. u \in Locals /\ u.key = p /\ u.server = my[p].server /\ u.session = None
  BY <1>1 DEF Locals
<1>3. Goto(p, "create", v) /\ UNCHANGED <<files, world>>
  BY DEF NewKey
<1> HIDE DEF u
<1>4. /\ v \in Locals /\ v.key = p /\ v.server # None /\ v.session = None
      /\ v.writes = EntryWrites(WholeEntry(v))
  BY <1>1, <1>2, SavingFits
<1> HIDE DEF v
<1>5. secrets' = [secrets EXCEPT ![p] = Key]
  BY DEF NewKey, Store!SetSecret
<1>6. /\ \A e \in Processes \cup Aliases : secrets'[e] = IF e = p THEN Key ELSE secrets[e]
      /\ secrets' \in [Processes \cup Aliases -> {Key} \cup Servers \cup {None}]
      /\ \A a \in Aliases : secrets'[a] = secrets[a]
  BY <1>5, ValuesAssumption DEF IInv, TypeInv
<1>7. Moves(p, "create", v) /\ UNCHANGED <<files, sessions, unreported, reboots>>
  BY <1>1, <1>3, StepMoves DEF world
<1>8. /\ pc' \in [Processes -> Places] /\ my' \in [Processes -> Locals]
      /\ \A q \in Processes : pc'[q] = IF q = p THEN "create" ELSE pc[q]
      /\ \A q \in Processes : my'[q] = IF q = p THEN v ELSE my[q]
      /\ ~overlap' => ~overlap /\ \A q \in Processes \ {p} : pc[q] = "idle"
      /\ ~overlap' => \A q, r \in Processes : pc'[q] # "idle" /\ pc'[r] # "idle" => q = r
      /\ ~Interrupted' => ~Interrupted
  <2>1. "create" \in Places
    BY DEF Places, New
  <2> QED
    BY <1>4, <1>7, <2>1, MoveFacts
<1>9. ~Whole /\ ~Whole' /\ "create" \in New /\ "create" \notin Keyless /\ "store" \notin New
  BY <1>1, <1>7, ValuesAssumption DEF Whole, Entries, Sessions, New, Keyless
<1>10. TypeInv'
  BY <1>6, <1>7, <1>8 DEF IInv, TypeInv, Moves
<1>11. ASSUME NEW q \in Processes PROVE LocalsOf(q)'
  <2>1. CASE q # p
    <3>1. LocalsOf(q) /\ pc'[q] = pc[q] /\ my'[q] = my[q]
      BY <1>8, <2>1 DEF IInv, LocalsInv
    <3>2. \A a \in Aliases : files'[a] = files[a] /\ secrets'[a] = secrets[a] /\ reboots' = reboots
      BY <1>6, <1>7
    <3> QED
      BY <3>1, <3>2 DEF LocalsOf, WritesEntry, WritesAlias, WritesDefault, Saved, HasSecret
  <2>2. CASE q = p
    <3>1. my'[q] = v /\ pc'[q] = "create"
      BY <1>8, <2>2
    <3> QED
      BY <1>1, <1>4, <1>9, <2>2, <3>1 DEF LocalsOf, WritesEntry
  <2> QED
    BY <2>1, <2>2
<1>12. SavedInv'
  BY <1>6, <1>7, <1>9 DEF IInv, SavedInv, Saved, HasSecret
<1>13. ASSUME NEW q \in Processes PROVE ~Holds(q) /\ ~Holds(q)' /\ pc[q] # "fill new" /\ pc'[q] # "fill new"
  <2>1. KeysOf(q, q)
    BY DEF IInv, KeysInv
  <2> QED
    BY <1>1, <1>8, <1>9, <2>1, ValuesAssumption DEF KeysOf, Holds
<1>14. ASSUME NEW q \in Processes PROVE my'[q].key \in {None, q} /\ my[q].key \in {None, q}
  <2>1. my[q].key \in {None, q}
    BY <1>13 DEF IInv, LocalsInv, LocalsOf, Holds
  <2> QED
    BY <1>4, <1>8, <2>1
<1>15. ASSUME NEW q \in Processes, NEW r \in Processes PROVE KeysOf(q, r)'
  BY <1>9, <1>13, <1>14, ValuesAssumption DEF KeysOf
<1>16. ASSUME NEW q \in Processes, NEW r \in Processes PROVE SecretsOf(q, r)'
  <2>1. SecretsOf(q, r)
    BY DEF IInv, SecretsInv
  <2>2. pc'[q] \notin New => pc[q] \notin New /\ q # p
    BY <1>8, <1>9
  <2>3. secrets'[q] = IF q = p THEN Key ELSE secrets[q]
    BY <1>6
  <2>4. my'[q].key # None /\ q # p => my[q].key = q
    BY <1>8, <1>14
  <2>5. reboots = 0 /\ my'[q].key # None => secrets'[my'[q].key] = Key
    BY <1>14, <2>1, <2>3, <2>4 DEF SecretsOf
  <2> QED
    BY <1>1, <1>7, <1>8, <1>9, <1>13, <2>1, <2>2, <2>3, <2>5 DEF SecretsOf
<1>17. ASSUME ~overlap', ~Interrupted' PROVE EntryInTurn' /\ \A q \in Processes : TurnOf(q)'
  <2>1. EntryInTurn /\ \A q \in Processes : TurnOf(q)
    BY <1>8, <1>17 DEF IInv, TurnsInv
  <2>2. EntryInTurn'
    BY <1>1, <1>7, <1>9, ValuesAssumption DEF EntryInTurn, Damage
  <2>3. ASSUME NEW q \in Processes PROVE TurnOf(q)'
    <3>1. /\ pc'[q] \notin {"fill", "fill new", "delete", "deleted"} /\ pc[q] # "deleted"
          /\ my'[q].session # None => my'[q].session = my[q].session
      BY <1>1, <1>4, <1>8, <1>17
    <3> QED
      BY <1>7, <2>1, <3>1 DEF TurnOf, Usable
  <2> QED
    BY <2>2, <2>3
<1> QED
  BY <1>8, <1>10, <1>11, <1>12, <1>15, <1>16, <1>17 DEF IInv, LocalsInv, KeysInv, SecretsInv, TurnsInv

(* A key is deleted only by the command that has drawn it.                 *)
LEMMA CleanUpInv ==
  ASSUME IInv, NEW p \in Processes, CleanUp(p)
  PROVE  IInv'
<1>1. pc[p] = "clean up" /\ Exit(p) /\ UNCHANGED <<files, world>> /\ "clean up" \in New
  BY DEF CleanUp, New
<1>2. secrets' = [secrets EXCEPT ![p] = None]
  BY DEF CleanUp, Store!DeleteCredential
<1>3. /\ \A e \in Processes \cup Aliases : secrets'[e] = IF e = p THEN None ELSE secrets[e]
      /\ secrets' \in [Processes \cup Aliases -> {Key} \cup Servers \cup {None}]
      /\ \A a \in Aliases : secrets'[a] = secrets[a]
  BY <1>2, ValuesAssumption DEF IInv, TypeInv
<1>4. Moves(p, "idle", NoLocals) /\ UNCHANGED <<files, sessions, unreported, reboots>>
  BY <1>1, StepMoves DEF Exit, world
<1>5. /\ pc' \in [Processes -> Places] /\ my' \in [Processes -> Locals]
      /\ \A q \in Processes : pc'[q] = IF q = p THEN "idle" ELSE pc[q]
      /\ \A q \in Processes : my'[q] = IF q = p THEN NoLocals ELSE my[q]
      /\ ~overlap' => ~overlap /\ \A q \in Processes \ {p} : pc[q] = "idle"
      /\ ~overlap' => \A q, r \in Processes : pc'[q] # "idle" /\ pc'[r] # "idle" => q = r
      /\ ~Interrupted' => ~Interrupted
  BY <1>4, NoLocalsFits, MoveFacts DEF Places, Keyless
<1>6. TypeInv'
  BY <1>3, <1>4, <1>5 DEF IInv, TypeInv, Moves
<1>7. ASSUME NEW q \in Processes PROVE LocalsOf(q)'
  <2>1. CASE q # p
    <3>1. LocalsOf(q) /\ pc'[q] = pc[q] /\ my'[q] = my[q]
      BY <1>5, <2>1 DEF IInv, LocalsInv
    <3>2. \A a \in Aliases : files'[a] = files[a] /\ secrets'[a] = secrets[a] /\ reboots' = reboots
      BY <1>3, <1>4
    <3> QED
      BY <3>1, <3>2 DEF LocalsOf, WritesEntry, WritesAlias, WritesDefault, Saved, HasSecret
  <2>2. CASE q = p
    <3>1. my'[q] = NoLocals /\ pc'[q] = "idle"
      BY <1>5, <2>2
    <3> QED
      BY <3>1, NoLocalsFits DEF LocalsOf, New, AtHost
  <2> QED
    BY <2>1, <2>2
<1>8. SavedInv'
  BY <1>3, <1>4 DEF IInv, SavedInv, Saved, HasSecret, Whole
<1>9. ASSUME NEW q \in Processes PROVE
          /\ pc'[q] \in New => pc[q] \in New /\ q # p
          /\ pc[q] \in New /\ q # p => pc'[q] \in New
          /\ Holds(q)' => Holds(q) /\ q # p
          /\ pc'[q] = "fill new" => pc[q] = "fill new" /\ q # p
          /\ my'[q].key = IF q = p THEN None ELSE my[q].key
          /\ secrets'[q] = IF q = p THEN None ELSE secrets[q]
  BY <1>3, <1>5, NoLocalsFits DEF New, Holds
<1>10. Whole' = Whole /\ files'["entry"] = files["entry"]
  BY <1>4 DEF Whole
<1>11. ASSUME NEW q \in Processes, NEW r \in Processes PROVE KeysOf(q, r)'
  <2>1. KeysOf(q, r)
    BY DEF IInv, KeysInv
  <2> QED
    BY <1>9, <1>10, <2>1, ValuesAssumption DEF KeysOf
<1>12. ASSUME NEW q \in Processes, NEW r \in Processes PROVE SecretsOf(q, r)'
  <2>1. SecretsOf(q, r) /\ KeysOf(p, q)
    BY DEF IInv, SecretsInv, KeysInv
  <2>2. (Whole => files["entry"].key \in Processes \ {p}) /\ (q # p => my[q].key \in (Processes \ {p}) \cup {None})
    BY <1>1, <2>1 DEF KeysOf, Whole, Entries, IInv, TypeInv, Locals
  <2>3. reboots' = 0 /\ Whole' => secrets'[files'["entry"].key] = Key
    BY <1>4, <1>9, <1>10, <2>1, <2>2 DEF SecretsOf
  <2>4. reboots' = 0 /\ my'[q].key # None => secrets'[my'[q].key] = Key
    BY <1>4, <1>9, <2>1, <2>2 DEF SecretsOf
  <2> QED
    BY <1>5, <1>9, <1>10, <2>1, <2>3, <2>4 DEF SecretsOf
<1>13. ASSUME ~overlap', ~Interrupted' PROVE EntryInTurn' /\ \A q \in Processes : TurnOf(q)'
  <2>1. EntryInTurn /\ \A q \in Processes : TurnOf(q)
    BY <1>5, <1>13 DEF IInv, TurnsInv
  <2>2. EntryInTurn'
    BY <1>1, <1>4, <1>5, <2>1 DEF EntryInTurn, Whole, Usable
  <2>3. ASSUME NEW q \in Processes PROVE TurnOf(q)'
    <3>1. /\ pc'[q] \notin {"fill", "fill new", "delete", "deleted"} /\ pc[q] # "deleted"
          /\ my'[q].session # None => my'[q].session = my[q].session
      BY <1>1, <1>5, <1>13, NoLocalsFits
    <3> QED
      BY <1>4, <2>1, <3>1 DEF TurnOf, Usable
  <2> QED
    BY <2>2, <2>3
<1> QED
  BY <1>5, <1>6, <1>7, <1>8, <1>11, <1>12, <1>13 DEF IInv, LocalsInv, KeysInv, SecretsInv, TurnsInv
-----------------------------------------------------------------------------
(* Sessions.                                                               *)

(* A step of a command with the host, or with what the host has answered.  *)
LEMMA SessionMove ==
  ASSUME IInv, NEW p \in Processes, NEW place \in {"opened", "deleted", "truncate", "idle"},
         NEW v \in Locals, Moves(p, place, v), UNCHANGED <<files, secrets>>, pc[p] \in AtHost,
         sessions' \in [Sessions -> {"unused", "open", "closed"}],
         unreported' \subseteq Sessions,
         v.key = IF place = "idle" THEN None ELSE my[p].key,
         LocalsOf(p)',
         ~overlap' /\ ~Interrupted' => TurnOf(p)' /\ EntryInTurn'
  PROVE  IInv'
<1>1. /\ place \in Places /\ place \notin New /\ pc[p] \notin New /\ my[p].key # None
      /\ my[p].key \in Processes
  <2>1. place \in Places /\ place \notin New /\ pc[p] \notin New
    BY DEF Places, New, Keyless, AtHost
  <2>2. my[p].key # None
    BY DEF IInv, LocalsInv, LocalsOf
  <2>3. my[p].key \in Processes \cup {None}
    BY DEF IInv, TypeInv, Locals
  <2> QED
    BY <2>1, <2>2, <2>3
<1>2. /\ pc' \in [Processes -> Places] /\ my' \in [Processes -> Locals]
      /\ \A q \in Processes : pc'[q] = IF q = p THEN place ELSE pc[q]
      /\ \A q \in Processes : my'[q] = IF q = p THEN v ELSE my[q]
      /\ ~overlap' => ~overlap /\ \A q \in Processes \ {p} : pc[q] = "idle"
      /\ ~overlap' => \A q, r \in Processes : pc'[q] # "idle" /\ pc'[r] # "idle" => q = r
      /\ ~Interrupted' => ~Interrupted
  BY <1>1, MoveFacts
<1>3. TypeInv'
  BY <1>2 DEF IInv, TypeInv, Moves
<1>4. ASSUME NEW q \in Processes, q # p PROVE LocalsOf(q)'
  <2>1. LocalsOf(q) /\ pc'[q] = pc[q] /\ my'[q] = my[q] /\ reboots' = reboots
    BY <1>2, <1>4 DEF IInv, LocalsInv, Moves
  <2> QED
    BY <2>1 DEF LocalsOf, WritesEntry, WritesAlias, WritesDefault, Saved, HasSecret
<1>5. SavedInv'
  BY DEF IInv, SavedInv, Saved, HasSecret, Whole, Moves
<1>6. ASSUME NEW q \in Processes PROVE
          /\ pc'[q] \in New <=> pc[q] \in New
          /\ Holds(q)' => Holds(q)
          /\ pc'[q] = "fill new" => pc[q] = "fill new"
          /\ my'[q].key \in {None, my[q].key}
  BY <1>1, <1>2 DEF Holds, New
<1>7. Whole' = Whole /\ reboots' = reboots
  BY DEF Whole, Moves
<1>8. ASSUME NEW q \in Processes, NEW r \in Processes PROVE KeysOf(q, r)'
  <2>1. KeysOf(q, r) /\ my'[q].key \in {None, my[q].key} /\ my'[r].key \in {None, my[r].key}
    BY <1>6 DEF IInv, KeysInv
  <2>2. (Holds(q)' => my'[q].key # None) /\ (Holds(r)' => my'[r].key # None)
    BY DEF Holds
  <2>3. (Holds(q)' => my'[q].key = my[q].key) /\ (Holds(r)' => my'[r].key = my[r].key)
    BY <2>1, <2>2
  <2>4. pc'[q] \in New => (Whole' => files'["entry"].key # q) /\ (my'[r].key = q => r = q)
    <3>1. q # None /\ (pc'[q] \in New <=> pc[q] \in New)
      BY <1>6, ValuesAssumption
    <3>2. my'[r].key = q => my[r].key = q
      BY <2>1, <3>1
    <3> QED
      BY <1>7, <2>1, <3>1, <3>2 DEF KeysOf
  <2> QED
    BY <1>6, <1>7, <2>1, <2>3, <2>4 DEF KeysOf
<1>9. ASSUME NEW q \in Processes, NEW r \in Processes PROVE SecretsOf(q, r)'
  <2>1. SecretsOf(q, r) /\ my'[q].key \in {None, my[q].key} /\ my'[r].key \in {None, my[r].key}
    BY <1>6 DEF IInv, SecretsInv
  <2>2. Holds(r)' => my'[r].key # None
    BY DEF Holds
  <2> QED
    BY <1>2, <1>6, <1>7, <2>1, <2>2 DEF SecretsOf
<1>10. ASSUME ~overlap', ~Interrupted', NEW q \in Processes, q # p PROVE TurnOf(q)'
  <2>1. my'[q].session = None /\ pc'[q] = "idle"
    BY <1>2, <1>10 DEF IInv, LocalsInv, LocalsOf, Keyless
  <2> QED
    BY <2>1 DEF TurnOf
<1> QED
  BY <1>2, <1>3, <1>4, <1>5, <1>8, <1>9, <1>10 DEF IInv, LocalsInv, KeysInv, SecretsInv, TurnsInv

(* What the locals are when the host is asked, and when it has answered.   *)
LEMMA AtHostFacts ==
  ASSUME IInv, NEW p \in Processes, pc[p] \in AtHost
  PROVE  /\ my[p] \in Locals /\ my[p].key # None /\ my[p].server # None
         /\ my[p].session \in Sessions \cup {None} /\ LocalsOf(p)
         /\ pc[p] \in {"delete", "deleted"} => my[p].target \in Sessions
BY DEF IInv, TypeInv, LocalsInv, LocalsOf, Locals

(* The command at the host is alone, and the auth file is whole.           *)
LEMMA AtHostInTurn ==
  ASSUME IInv, NEW p \in Processes, pc[p] \in AtHost,
         UNCHANGED <<files, failures, reboots, overlap>>, ~overlap', ~Interrupted'
  PROVE  /\ files["entry"] \notin Damage /\ TurnOf(p) /\ Whole' = Whole
         /\ Whole /\ files["entry"].session # None =>
              \/ Usable(files["entry"].session)
              \/ pc[p] = "deleted" /\ my[p].target = my[p].session
<1>1. ~overlap /\ ~Interrupted /\ Whole' = Whole
  BY DEF Interrupted, Whole
<1>2. EntryInTurn /\ TurnOf(p) /\ \A q \in Processes : q # p => pc[q] = "idle"
  BY <1>1 DEF IInv, TurnsInv, AtHost
<1>3. pc[p] \notin {"truncate", "fill", "fill new"}
  BY DEF AtHost
<1> QED
  BY <1>1, <1>2, <1>3 DEF EntryInTurn

(* exec opens a session, new or the saved one.                             *)
LEMMA OpenSessionInv ==
  ASSUME IInv, NEW p \in Processes, OpenSession(p)
  PROVE  IInv'
<1>1. PICK s \in Sessions :
        /\ s[1] = my[p].server /\ sessions' = [sessions EXCEPT ![s] = "open"]
        /\ Goto(p, "opened", [my[p] EXCEPT !.session = s])
  BY DEF OpenSession
<1>2. /\ pc[p] = "open" /\ pc[p] \in AtHost
      /\ UNCHANGED <<files, secrets, unreported, commands, failures, reboots, overlap>>
  BY DEF OpenSession, AtHost
<1> DEFINE v == [my[p] EXCEPT !.session = s]
<1>3. /\ v \in Locals /\ v.key = my[p].key /\ v.key # None
      /\ v.server = my[p].server /\ v.server # None /\ v.session = s
  BY <1>2, AtHostFacts DEF Locals
<1>4. Goto(p, "opened", v)
  BY <1>1
<1> HIDE DEF v
<1>5. Moves(p, "opened", v) /\ pc'[p] = "opened" /\ my'[p] = v
  BY <1>2, <1>4, StepMoves DEF Goto, IInv, TypeInv
<1>6. /\ sessions' \in [Sessions -> {"unused", "open", "closed"}] /\ sessions'[s] = "open"
      /\ \A t \in Sessions : Usable(t) => Usable(t)'
  BY <1>1, <1>2 DEF IInv, TypeInv, Usable
<1>7. LocalsOf(p)'
  BY <1>1, <1>3, <1>5 DEF LocalsOf, Keyless, New
<1>8. ASSUME ~overlap', ~Interrupted' PROVE TurnOf(p)' /\ EntryInTurn'
  <2>1. /\ files["entry"] \notin Damage /\ Whole' = Whole
        /\ Whole /\ files["entry"].session # None => Usable(files["entry"].session)
    BY <1>2, <1>8, AtHostInTurn
  <2>2. Whole => files["entry"].session \in Sessions \cup {None}
    BY DEF Whole, Entries
  <2>3. TurnOf(p)'
    BY <1>3, <1>5, <1>6 DEF TurnOf, Usable
  <2>4. EntryInTurn'
    BY <1>2, <1>6, <2>1, <2>2 DEF EntryInTurn
  <2> QED
    BY <2>3, <2>4
<1> QED
  BY <1>2, <1>3, <1>5, <1>6, <1>7, <1>8, SessionMove DEF IInv, TypeInv

(* exec saves the session it is told of.                                   *)
LEMMA ReadOpenedInv ==
  ASSUME IInv, NEW p \in Processes, ReadOpened(p)
  PROVE  IInv'
<1>1. /\ pc[p] = "opened" /\ pc[p] \in AtHost /\ Goto(p, "truncate", Saving(my[p]))
      /\ UNCHANGED <<files, secrets, sessions, unreported, commands, failures, reboots, overlap>>
  BY DEF ReadOpened, AtHost, world
<1> DEFINE u == my[p]
           v == Saving(u)
<1>2. u \in Locals /\ u.key # None /\ u.server # None /\ LocalsOf(p)
  BY <1>1, AtHostFacts
<1>3. Goto(p, "truncate", v) /\ u = my[p]
  BY <1>1
<1> HIDE DEF u
<1>4. /\ v \in Locals /\ v.key = u.key /\ v.server = u.server /\ v.session = u.session
      /\ v.writes = EntryWrites(WholeEntry(v))
  BY <1>2, SavingFits
<1> HIDE DEF v
<1>5. Moves(p, "truncate", v) /\ pc'[p] = "truncate" /\ my'[p] = v
  BY <1>1, <1>3, StepMoves DEF Goto, IInv, TypeInv
<1>6. LocalsOf(p)'
  BY <1>2, <1>3, <1>4, <1>5 DEF LocalsOf, WritesEntry, Keyless, New, AtHost
<1>7. ASSUME ~overlap', ~Interrupted' PROVE TurnOf(p)' /\ EntryInTurn'
  <2>1. files["entry"] \notin Damage /\ TurnOf(p)
    BY <1>1, <1>7, AtHostInTurn
  <2>2. TurnOf(p)'
    BY <1>1, <1>3, <1>4, <1>5, <2>1 DEF TurnOf, Usable
  <2>3. EntryInTurn'
    BY <1>1, <1>2, <1>4, <1>5, <2>1 DEF EntryInTurn
  <2> QED
    BY <2>2, <2>3
<1> QED
  BY <1>1, <1>3, <1>4, <1>5, <1>6, <1>7, SessionMove DEF IInv, TypeInv

(* close has its session deleted at the host.                              *)
LEMMA DeleteSessionInv ==
  ASSUME IInv, NEW p \in Processes, DeleteSession(p)
  PROVE  IInv'
<1> DEFINE s == my[p].target
           v == my[p]
<1>1. /\ pc[p] = "delete" /\ pc[p] \in AtHost /\ Goto(p, "deleted", v) /\ v = my[p] /\ s = v.target
      /\ UNCHANGED <<files, secrets, unreported, commands, failures, reboots, overlap>>
      /\ sessions' = [sessions EXCEPT ![s] = "closed"]
  BY DEF DeleteSession, AtHost
<1>2. s \in Sessions /\ v \in Locals /\ v.key # None /\ LocalsOf(p)
  BY <1>1, AtHostFacts
<1> HIDE DEF s, v
<1>3. /\ sessions' \in [Sessions -> {"unused", "open", "closed"}]
      /\ \A t \in Sessions : t # s /\ Usable(t) => Usable(t)'
  BY <1>1, <1>2 DEF IInv, TypeInv, Usable
<1>4. Moves(p, "deleted", v) /\ pc'[p] = "deleted" /\ my'[p] = v
  BY <1>1, StepMoves DEF Goto, IInv, TypeInv
<1>5. LocalsOf(p)'
  BY <1>1, <1>2, <1>4 DEF LocalsOf, Keyless, New
<1>6. ASSUME ~overlap', ~Interrupted' PROVE TurnOf(p)' /\ EntryInTurn'
  <2>1. /\ files["entry"] \notin Damage /\ TurnOf(p) /\ Whole' = Whole
        /\ Whole /\ files["entry"].session # None => Usable(files["entry"].session)
    BY <1>1, <1>6, AtHostInTurn
  <2>2. Whole /\ v.session = files["entry"].session
    BY <1>1, <2>1 DEF TurnOf
  <2>3. TurnOf(p)'
    BY <1>1, <1>4, <2>1, <2>2 DEF TurnOf
  <2>4. files["entry"].session \in Sessions \cup {None}
    BY <2>2 DEF Whole, Entries
  <2>5. EntryInTurn'
    BY <1>1, <1>3, <1>4, <2>1, <2>2, <2>4 DEF EntryInTurn
  <2> QED
    BY <2>3, <2>5
<1> QED
  BY <1>1, <1>2, <1>3, <1>4, <1>5, <1>6, SessionMove DEF IInv, TypeInv

(* close forgets the last session if that is the one it has closed.        *)
LEMMA ReadDeletedInv ==
  ASSUME IInv, NEW p \in Processes, ReadDeleted(p)
  PROVE  IInv'
<1>1. /\ pc[p] = "deleted" /\ pc[p] \in AtHost
      /\ UNCHANGED <<files, secrets, sessions, unreported, commands, failures, reboots, overlap>>
      /\ IF my[p].session = my[p].target
         THEN Goto(p, "truncate", Saving([my[p] EXCEPT !.session = None]))
         ELSE Exit(p)
  BY DEF ReadDeleted, AtHost, world
<1>2. /\ my[p] \in Locals /\ my[p].key # None /\ my[p].server # None
  BY <1>1, AtHostFacts
<1>3. CASE my[p].session = my[p].target
  <2> DEFINE u == [my[p] EXCEPT !.session = None]
             v == Saving(u)
  <2>1. u \in Locals /\ u.key = my[p].key /\ u.server = my[p].server /\ u.session = None
    BY <1>2 DEF Locals
  <2>2. Goto(p, "truncate", v)
    BY <1>1, <1>3
  <2> HIDE DEF u
  <2>3. /\ v \in Locals /\ v.key = my[p].key /\ v.server = my[p].server /\ v.session = None
        /\ v.writes = EntryWrites(WholeEntry(v))
    BY <1>2, <2>1, SavingFits
  <2> HIDE DEF v
  <2>4. Moves(p, "truncate", v) /\ pc'[p] = "truncate" /\ my'[p] = v
    BY <1>1, <2>2, StepMoves DEF Goto, IInv, TypeInv
  <2>5. LocalsOf(p)'
    BY <1>2, <2>3, <2>4 DEF LocalsOf, WritesEntry, Keyless, New, AtHost
  <2>6. ASSUME ~overlap', ~Interrupted' PROVE TurnOf(p)' /\ EntryInTurn'
    <3>1. files["entry"] \notin Damage
      BY <1>1, <2>6, AtHostInTurn
    <3> QED
      BY <1>1, <1>2, <2>3, <2>4, <3>1 DEF TurnOf, EntryInTurn
  <2> QED
    BY <1>1, <2>3, <2>4, <2>5, <2>6, SessionMove DEF IInv, TypeInv
<1>4. CASE my[p].session # my[p].target
  <2>1. Moves(p, "idle", NoLocals) /\ pc'[p] = "idle" /\ my'[p] = NoLocals
    BY <1>1, <1>4, StepMoves DEF Exit, Goto, IInv, TypeInv
  <2>2. LocalsOf(p)'
    BY <2>1, NoLocalsFits DEF LocalsOf, New, AtHost
  <2>3. ASSUME ~overlap', ~Interrupted' PROVE TurnOf(p)' /\ EntryInTurn'
    <3>1. /\ files["entry"] \notin Damage /\ Whole' = Whole
          /\ Whole /\ files["entry"].session # None => Usable(files["entry"].session)
      BY <1>1, <1>4, <2>3, AtHostInTurn
    <3> QED
      BY <1>1, <2>1, <3>1, NoLocalsFits DEF TurnOf, EntryInTurn, Usable
  <2> QED
    BY <1>1, <2>1, <2>2, <2>3, NoLocalsFits, SessionMove DEF IInv, TypeInv
<1> QED
  BY <1>3, <1>4

(* An error ends a command, before or after the host has done its part.    *)
LEMMA RefusedInv ==
  ASSUME IInv, NEW p \in Processes, Refused(p)
  PROVE  IInv'
<1>1. CASE pc[p] # "deleted"
  BY <1>1, LightStepInv
<1>2. CASE pc[p] = "deleted"
  <2>1. /\ pc[p] \in AtHost /\ Exit(p) /\ unreported' = unreported \cup {my[p].target}
        /\ UNCHANGED <<files, secrets, sessions, commands, failures, reboots, overlap>>
    BY <1>2 DEF Refused, AtHost
  <2>2. my[p].target \in Sessions /\ unreported' \subseteq Sessions
    BY <1>2, <2>1, AtHostFacts DEF IInv, TypeInv
  <2>3. Moves(p, "idle", NoLocals) /\ pc'[p] = "idle" /\ my'[p] = NoLocals
    BY <1>2, <2>1, StepMoves DEF Exit, Goto, IInv, TypeInv
  <2>4. LocalsOf(p)'
    BY <2>3, NoLocalsFits DEF LocalsOf, New, AtHost
  <2>5. ASSUME ~overlap', ~Interrupted' PROVE TurnOf(p)' /\ EntryInTurn'
    <3>1. /\ files["entry"] \notin Damage /\ TurnOf(p) /\ Whole' = Whole
          /\ Whole /\ files["entry"].session # None =>
               Usable(files["entry"].session) \/ my[p].target = my[p].session
      BY <2>1, <2>5, AtHostInTurn
    <3>2. my[p].session = files["entry"].session
      BY <1>2, <3>1 DEF TurnOf
    <3>3. Whole /\ files["entry"].session # None => Usable(files["entry"].session)'
      BY <2>1, <3>1, <3>2 DEF Usable
    <3> QED
      BY <2>1, <2>3, <3>1, <3>3, NoLocalsFits DEF TurnOf, EntryInTurn
  <2> QED
    BY <2>1, <2>2, <2>3, <2>4, <2>5, NoLocalsFits, SessionMove DEF IInv, TypeInv
<1> QED
  BY <1>1, <1>2

(* A reboot ends the commands and empties the keyring.                     *)
LEMMA RebootInv ==
  ASSUME IInv, Reboot
  PROVE  IInv'
<1>1. /\ UNCHANGED <<files, sessions, unreported, commands, failures, overlap>>
      /\ reboots' \in Nat /\ reboots' > 0 /\ Interrupted'
  BY DEF Reboot, IInv, TypeInv, Interrupted
<1>2. /\ pc' = [q \in Processes |-> "idle"] /\ my' = [q \in Processes |-> NoLocals]
      /\ secrets' = [e \in Processes \cup Aliases |-> None]
  BY DEF Reboot, IInv, TypeInv
<1>3. "idle" \in Places /\ "idle" \notin New /\ Whole' = Whole
  BY <1>1 DEF Places, Keyless, New, Whole
<1>4. TypeInv'
  BY <1>1, <1>2, <1>3, NoLocalsFits DEF IInv, TypeInv
<1>5. \A q \in Processes : pc'[q] = "idle" /\ my'[q] = NoLocals
  BY <1>2
<1>6. ASSUME NEW q \in Processes PROVE LocalsOf(q)'
  BY <1>3, <1>5, NoLocalsFits DEF LocalsOf, AtHost
<1>7. SavedInv'
  BY <1>1, <1>3 DEF IInv, SavedInv, Saved, HasSecret
<1>8. ASSUME NEW q \in Processes, NEW r \in Processes PROVE KeysOf(q, r)' /\ SecretsOf(q, r)'
  <2>1. ~Holds(q)' /\ pc'[q] \notin New /\ pc'[q] # "fill new" /\ reboots' # 0
    <3>1. pc'[q] = "idle" /\ my'[q].key = None
      BY <1>5, NoLocalsFits
    <3>2. ~Holds(q)'
      BY <3>1 DEF Holds
    <3> QED
      BY <1>1, <1>3, <3>1, <3>2
  <2> QED
    BY <1>1, <2>1 DEF KeysOf, SecretsOf
<1>9. TurnsInv'
  BY <1>1, <1>5 DEF TurnsInv
<1> QED
  BY <1>4, <1>6, <1>7, <1>8, <1>9 DEF IInv, LocalsInv, KeysInv, SecretsInv
-----------------------------------------------------------------------------
(* Every step keeps the invariant.                                         *)
LEMMA StepInv == IInv /\ [Next]_vars => IInv'
<1> SUFFICES ASSUME IInv, [Next]_vars PROVE IInv'
  OBVIOUS
<1>1. ASSUME NEW p \in Processes, Step(p) PROVE IInv'
  BY <1>1, SetAliasInv, TruncateInv, FillInv, LightStepInv, UpdateEntryInv, NewKeyInv,
     CreateEntryInv, CleanUpInv, OpenSessionInv, ReadOpenedInv, DeleteSessionInv,
     ReadDeletedInv, RefusedInv DEF Step
<1>2. ASSUME NEW p \in Processes, Command(p) \/ FailWrite(p) \/ Kill(p) PROVE IInv'
  BY <1>2, BeginInv, FailWriteInv, LightStepInv
<1>3. CASE Reboot
  BY <1>3, RebootInv
<1>4. ASSUME UNCHANGED vars PROVE IInv'
  <2> USE <1>4 DEF vars, world, IInv
  <2>1. TypeInv'
    BY DEF TypeInv
  <2>2. LocalsInv' /\ SavedInv'
    BY DEF LocalsInv, LocalsOf, WritesEntry, WritesAlias, WritesDefault, SavedInv, Saved, HasSecret, Whole
  <2>3. KeysInv' /\ SecretsInv'
    <3>1. ASSUME NEW p \in Processes, NEW q \in Processes PROVE KeysOf(p, q)'
      <4>1. KeysOf(p, q)
        BY DEF KeysInv
      <4> QED
        BY <4>1 DEF KeysOf, Holds, Whole
    <3>2. SecretsInv'
      BY DEF SecretsInv, SecretsOf, Holds, Whole, Interrupted
    <3> QED
      BY <3>1, <3>2 DEF KeysInv
  <2>4. TurnsInv'
    BY DEF TurnsInv, TurnOf, EntryInTurn, Whole, Interrupted, Usable
  <2> QED
    BY <2>1, <2>2, <2>3, <2>4
<1> QED
  BY <1>1, <1>2, <1>3, <1>4 DEF Next

(* Everything IInv says holds in every reachable state.                    *)
THEOREM Invariant == Spec => []IInv
BY InitInv, StepInv, PTL DEF Spec

(* Files, secrets and sessions keep to their types, and so does what each  *)
(* command has in hand: it never writes but what it should at its place.   *)
THEOREM ClientStoreTypeCorrect == Spec => [](TypeInv /\ LocalsInv)
<1>1. IInv => TypeInv /\ LocalsInv
  BY DEF IInv
<1> QED
  BY <1>1, Invariant, PTL
-----------------------------------------------------------------------------
(* The invariants the runs check, for every value of the constants.        *)

(* No clean-up deletes the key of an auth file that is whole.              *)
THEOREM EntryKeepsItsKey == Spec => []KeyOfEntryIsKept
<1>1. IInv => KeyOfEntryIsKept
  <2> SUFFICES ASSUME IInv, files["entry"] \notin Damage \cup {Absent}, reboots = 0
               PROVE  secrets[files["entry"].key] = Key
    BY DEF KeyOfEntryIsKept
  <2>1. Whole
    BY DEF IInv, TypeInv, Whole, Damage
  <2>2. files["entry"].key \in Processes
    BY <2>1 DEF Whole, Entries
  <2> QED
    BY <2>1, <2>2 DEF IInv, SecretsInv, SecretsOf
<1> QED
  BY <1>1, Invariant, PTL

(* Uninterrupted commands leave no key but that of the auth file.          *)
THEOREM FailedAuthsTakeTheirKeysBack == Spec => []NoOrphanKeys
<1>1. IInv => NoOrphanKeys
  <2> SUFFICES ASSUME IInv, Quiet, ~Interrupted, NEW p \in Processes, secrets[p] # None
               PROVE  files["entry"] # Absent /\ (files["entry"] \in Damage \/ files["entry"].key = p)
    BY DEF NoOrphanKeys
  <2>1. pc[p] \notin New
    BY DEF Quiet, New
  <2>2. files["entry"] # Absent /\ (Whole => files["entry"].key = p)
    BY <2>1 DEF IInv, SecretsInv, SecretsOf
  <2> QED
    BY <2>2 DEF IInv, TypeInv, Whole, Damage
<1> QED
  BY <1>1, Invariant, PTL

(* A default that can be read names an alias that is there.                *)
THEOREM DefaultsAreSaved == Spec => []DefaultIsSaved
<1>1. IInv => DefaultIsSaved
  <2> SUFFICES ASSUME IInv, files["default"] \in Aliases
               PROVE  /\ files[files["default"]] # Absent
                      /\ secrets[files["default"]] # None \/ reboots > 0
    BY DEF DefaultIsSaved
  <2> QED
    BY DEF IInv, SavedInv, Saved, HasSecret
<1> QED
  BY <1>1, Invariant, PTL

(* The saved session is one of the entry's server; and it is open, or a    *)
(* close that failed has deleted it, unless commands overlapped or were    *)
(* interrupted.                                                            *)
THEOREM LastSessionsAreUsable == Spec => []LastSessionIsUsable
<1>1. IInv => LastSessionIsUsable
  <2> SUFFICES ASSUME IInv, Loaded # None, Loaded.session # None
               PROVE  /\ Loaded.session[1] = Loaded.server
                      /\ Quiet /\ ~Interrupted /\ ~overlap => Usable(Loaded.session)
    BY DEF LastSessionIsUsable, Usable
  <2>1. Whole /\ Loaded = files["entry"]
    BY WholeLoads
  <2>2. Loaded.session[1] = Loaded.server
    BY <2>1 DEF IInv, SavedInv
  <2>3. ASSUME Quiet, ~Interrupted, ~overlap PROVE Usable(Loaded.session)
    <3>1. EntryInTurn
      BY <2>3 DEF IInv, TurnsInv
    <3> QED
      BY <2>1, <2>3, <3>1 DEF EntryInTurn, Quiet
  <2> QED
    BY <2>2, <2>3
<1> QED
  BY <1>1, Invariant, PTL

(* Between uninterrupted commands that did not overlap, the auth file is   *)
(* absent or whole, with its key.                                          *)
THEOREM EntriesLoad == Spec => []EntryLoads
<1>1. IInv => EntryLoads
  <2> SUFFICES ASSUME IInv, Quiet, ~Interrupted, ~overlap, files["entry"] # Absent
               PROVE  Loaded # None
    BY DEF EntryLoads
  <2>1. EntryInTurn
    BY DEF IInv, TurnsInv
  <2>2. files["entry"] \notin Damage
    BY <2>1 DEF EntryInTurn, Quiet
  <2>3. Whole /\ reboots = 0
    BY <2>2 DEF IInv, TypeInv, Whole, Damage, Interrupted
  <2>4. files["entry"].key \in Processes /\ files["entry"] # None /\ Key # None
    BY <2>3, ValuesAssumption DEF Whole, Entries, Sessions, Key
  <2>5. secrets[files["entry"].key] = Key
    BY <2>3, <2>4 DEF IInv, SecretsInv, SecretsOf
  <2> QED
    BY <2>2, <2>4, <2>5 DEF Loaded
<1> QED
  BY <1>1, Invariant, PTL
=============================================================================
