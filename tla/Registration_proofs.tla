------------------------- MODULE Registration_proofs -------------------------
(***************************************************************************)
(* Proofs about Registration, for any number of directories and any names. *)
(* The argument: a signature is drawn in one directory only; a record in   *)
(* Redis is written once and goes only by being erased, with the lookups   *)
(* or the wake list whose key it has; and the two files of an undisturbed  *)
(* directory disagree only while its init is at work.                      *)
(***************************************************************************)
EXTENDS Registration, SequenceTheorems, TLAPS

InitPlaces == {"none", "setup", "fill setup", "record", "fill record"}
ServePlaces == {"none", "record", "resolve", "register", "compare",
                "persist", "fill name", "clear", "serving"}
Numbers == 1 .. MAX_INITS

InitRecords == [at : InitPlaces, drawn : Numbers \cup {None}]
ServeRecords == [at : ServePlaces, asked : Names \cup {None},
                 setup : Numbers \cup {None}, record : Numbers \cup {None},
                 name : Names \cup {None}]

TypeInv ==
  /\ setup \in [Dirs -> Numbers \cup {Absent, Empty}]
  /\ record \in [Dirs -> Numbers \cup {Absent, Empty}]
  /\ hostname \in [Dirs -> Names \cup {Absent, Empty}]
  /\ hosts \in [Names -> Numbers \cup {None, Queue}]
  /\ expiring \subseteq Names /\ clients \subseteq Names
  /\ init \in [Dirs -> InitRecords]
  /\ serve \in [Dirs -> ServeRecords]
  /\ inits \in 0 .. MAX_INITS /\ serves \in 0 .. MAX_SERVES
  /\ savedUnder \in [Dirs -> Numbers \cup {None}]
  /\ erased \subseteq Names /\ torn \subseteq Dirs

(* What an init or a serve knows at each place.                            *)
LocalsInv ==
  \A d \in Dirs :
    /\ init[d].at = "none" <=> init[d].drawn = None
    /\ serve[d].at = "none" <=> serve[d].setup = None
    /\ serve[d].at \notin {"none", "record", "resolve"} => serve[d].name # None

(* A signature that has not been drawn is nowhere, and one that has been   *)
(* drawn is in one directory only.                                         *)
SignedIn(d, k) == k \in {setup[d], record[d], init[d].drawn, serve[d].setup,
                         serve[d].record, savedUnder[d]}

SignatureInv ==
  /\ \A d \in Dirs, k \in Numbers : SignedIn(d, k) => k <= inits
  /\ \A d, e \in Dirs, k \in Numbers : SignedIn(d, k) /\ SignedIn(e, k) => d = e

(* A name whose record has the key of a lookup or of a wake list.          *)
Shared(n) == \E m \in Names : MatchesLookups(m, n) \/ WakeKey(m) = HostKey(n)

(* A host that has registered its name holds the record, unless it was     *)
(* erased; so does a saved name.                                           *)
RecordInv ==
  /\ \A d \in Dirs : Registered(d) =>
       hosts[serve[d].name] = serve[d].setup \/ serve[d].name \in erased
  /\ SavedNameIsReserved
  /\ \A d \in Dirs : hostname[d] \notin {Absent, Empty} => savedUnder[d] # None
  /\ \A n \in erased \cup expiring : Shared(n)

(* The files of a directory, while nothing has disturbed its init.         *)
FilesInOrder(d) ==
  /\ init[d].at \in {"none", "setup"} => setup[d] = record[d]
  /\ init[d].at = "fill setup" => setup[d] = Empty
  /\ init[d].at \in {"record", "fill record"} => setup[d] = init[d].drawn
  /\ serve[d].at = "record" => init[d].at = "none" /\ serve[d].setup = setup[d]
  /\ serve[d].at \notin {"none", "record"} => serve[d].record = serve[d].setup

FilesInv == \A d \in Dirs \ torn : FilesInOrder(d)

IInv == TypeInv /\ LocalsInv /\ SignatureInv /\ RecordInv /\ FilesInv
-----------------------------------------------------------------------------
(* IInv is inductive.                                                      *)
LEMMA InitInv == Init => IInv
<1> SUFFICES ASSUME Init PROVE IInv
  OBVIOUS
<1> USE ValuesAssumption DEF Init, NoInit, NoServe
<1>1. TypeInv
  <2>1. NoInit \in InitRecords /\ NoServe \in ServeRecords
    BY DEF InitRecords, ServeRecords, InitPlaces, ServePlaces
  <2> QED
    BY <2>1 DEF TypeInv
<1>2. LocalsInv /\ RecordInv /\ FilesInv
  BY DEF LocalsInv, RecordInv, SavedNameIsReserved, Registered, FilesInv, FilesInOrder
<1>3. SignatureInv
  BY DEF SignatureInv, SignedIn, Numbers
<1> QED
  BY <1>1, <1>2, <1>3 DEF IInv

(* An init that goes on: it writes nothing but what it has drawn.           *)
InitGoesOn(d, i) ==
  /\ init' = [init EXCEPT ![d] = i]
  /\ \A e \in Dirs \ {d} : setup'[e] = setup[e] /\ record'[e] = record[e]
  /\ setup'[d] \in {setup[d], Empty, init[d].drawn}
  /\ record'[d] \in {record[d], Empty, init[d].drawn}
  /\ serve' = serve /\ savedUnder' = savedUnder
  /\ i.drawn \in {init[d].drawn, None} \/ \A e \in Dirs : ~SignedIn(e, i.drawn)
  /\ \A k \in Numbers : k <= inits \/ k = i.drawn => k <= inits'
  /\ i.at = "none" <=> i.drawn = None
  /\ torn \subseteq torn'
  /\ d \in torn' \/ FilesInOrder(d)'

(* What an init that goes on keeps.                                        *)
LEMMA InitStepInv ==
  ASSUME IInv, NEW d \in Dirs, NEW i \in InitRecords, InitGoesOn(d, i)
  PROVE  /\ init' \in [Dirs -> InitRecords]
         /\ LocalsInv' /\ SignatureInv' /\ FilesInv'
<1> USE DEF InitGoesOn
<1>1. init' \in [Dirs -> InitRecords]
  BY DEF IInv, TypeInv
<1>2. \A e \in Dirs : init'[e] = IF e = d THEN i ELSE init[e]
  BY DEF IInv, TypeInv
<1>3. LocalsInv'
  BY <1>2 DEF IInv, LocalsInv
<1>4. FilesInv'
  <2>1. ASSUME NEW e \in Dirs \ {d}, e \notin torn' PROVE FilesInOrder(e)'
    <3>1. FilesInOrder(e)
      BY <2>1 DEF IInv, FilesInv
    <3>2. init'[e] = init[e] /\ setup'[e] = setup[e] /\ record'[e] = record[e]
      BY <1>2
    <3> QED
      BY <3>1, <3>2 DEF FilesInOrder
  <2> QED
    BY <2>1 DEF FilesInv
<1>5. ASSUME NEW e \in Dirs, NEW k \in Numbers, SignedIn(e, k)'
      PROVE  SignedIn(e, k) \/ (e = d /\ k = i.drawn)
  <2>1. k # None /\ k # Empty
    BY ValuesAssumption DEF Numbers
  <2> QED
    BY <1>2, <1>5, <2>1 DEF SignedIn
<1>6. SignatureInv'
  <2>1. ASSUME NEW e \in Dirs, NEW k \in Numbers, SignedIn(e, k)' PROVE k <= inits'
    BY <1>5, <2>1 DEF IInv, SignatureInv
  <2>2. ASSUME NEW e \in Dirs, NEW g \in Dirs, NEW k \in Numbers,
               SignedIn(e, k)', SignedIn(g, k)'
        PROVE  e = g
    <3>1. k # None
      BY ValuesAssumption DEF Numbers
    <3>2. SignedIn(d, init[d].drawn)
      BY DEF SignedIn
    <3> QED
      BY <1>5, <2>2, <3>1, <3>2 DEF IInv, SignatureInv
  <2> QED
    BY <2>1, <2>2 DEF SignatureInv
<1> QED
  BY <1>1, <1>3, <1>4, <1>6

(* A serve that goes on, with what it has loaded or less.                  *)
ServeGoesOn(d, s) ==
  /\ Continue(d, s) /\ torn' = torn
  /\ savedUnder' \in {savedUnder, [savedUnder EXCEPT ![d] = serve[d].setup]}
  /\ s.at = "none" <=> s.setup = None
  /\ s.at \notin {"none", "resolve"} => s.name # None
  /\ s.at # "record"
  /\ s.setup \in {serve[d].setup, None}
  /\ s.record \in {serve[d].record, record[d], None}
  /\ d \notin torn /\ s.at # "none" => s.record = s.setup

(* What a serve that goes on keeps.                                        *)
LEMMA ContinueInv ==
  ASSUME IInv, NEW d \in Dirs, NEW s \in ServeRecords, ServeGoesOn(d, s)
  PROVE  /\ serve' \in [Dirs -> ServeRecords]
         /\ LocalsInv' /\ SignatureInv' /\ FilesInv'
<1> USE DEF ServeGoesOn
<1>1. serve' \in [Dirs -> ServeRecords]
  BY DEF IInv, TypeInv, Continue
<1>2. \A e \in Dirs : serve'[e] = IF e = d THEN s ELSE serve[e]
  BY DEF IInv, TypeInv, Continue
<1>3. UNCHANGED <<setup, record, init, inits>>
  BY DEF Continue, counts
<1>4. LocalsInv'
  BY <1>2, <1>3 DEF IInv, LocalsInv
<1>5. FilesInv'
  <2>1. ASSUME NEW e \in Dirs, e \notin torn' PROVE FilesInOrder(e)'
    <3>1. FilesInOrder(e)
      BY <2>1 DEF IInv, FilesInv
    <3>2. CASE e # d
      <4>1. serve'[e] = serve[e]
        BY <1>2, <3>2
      <4> QED
        BY <1>3, <3>1, <4>1 DEF FilesInOrder
    <3>3. CASE e = d
      <4>1. serve'[e] = s
        BY <1>2, <3>3
      <4> QED
        BY <1>3, <2>1, <3>1, <3>3, <4>1 DEF FilesInOrder
    <3> QED
      BY <3>2, <3>3
  <2> QED
    BY <2>1 DEF FilesInv
<1>6. ASSUME NEW e \in Dirs, NEW k \in Numbers, SignedIn(e, k)' PROVE SignedIn(e, k)
  <2>1. k # None
    BY ValuesAssumption DEF Numbers
  <2>2. savedUnder'[e] \in {savedUnder[e], IF e = d THEN serve[d].setup ELSE savedUnder[e]}
    BY DEF IInv, TypeInv
  <2> QED
    BY <1>2, <1>3, <1>6, <2>1, <2>2 DEF SignedIn
<1>7. SignatureInv'
  BY <1>3, <1>6 DEF IInv, SignatureInv
<1> QED
  BY <1>1, <1>4, <1>5, <1>7

(* A serve that moves to another place with all it has.                    *)
LEMMA ServeMoves ==
  ASSUME NEW r \in ServeRecords, NEW to \in ServePlaces
  PROVE  /\ [r EXCEPT !.at = to] \in ServeRecords
         /\ [r EXCEPT !.at = to].at = to
         /\ [r EXCEPT !.at = to].setup = r.setup
         /\ [r EXCEPT !.at = to].record = r.record
         /\ [r EXCEPT !.at = to].name = r.name
BY DEF ServeRecords

(* A serve that is not running.                                            *)
LEMMA NoServeFits ==
  /\ NoServe \in ServeRecords /\ NoServe.at = "none"
  /\ NoServe.setup = None /\ NoServe.record = None
BY DEF NoServe, ServeRecords, ServePlaces

(* The places from which, and to which, a serve with a name moves on.      *)
Settling == {"register", "compare", "persist", "fill name", "clear", "serving"}

(* What a serve that moves without touching the records keeps.             *)
LEMMA MoveInv ==
  ASSUME IInv, NEW d \in Dirs, NEW to \in Settling, serve[d].at \in Settling,
         Continue(d, [serve[d] EXCEPT !.at = to]), torn' = torn,
         savedUnder' \in {savedUnder, [savedUnder EXCEPT ![d] = serve[d].setup]}
  PROVE  /\ serve' \in [Dirs -> ServeRecords]
         /\ LocalsInv' /\ SignatureInv' /\ FilesInv'
         /\ UNCHANGED <<setup, record, init, inits, serves, torn>>
         /\ savedUnder' \in [Dirs -> Numbers \cup {None}]
         /\ serve[d].name \in Names /\ serve[d].setup \in Numbers
         /\ \A e \in Dirs : /\ serve'[e].setup = serve[e].setup
                            /\ serve'[e].name = serve[e].name
                            /\ serve'[e].at = IF e = d THEN to ELSE serve[e].at
<1> DEFINE s == [serve[d] EXCEPT !.at = to]
<1>1. serve[d] \in ServeRecords /\ to \in ServePlaces
  BY DEF IInv, TypeInv, Settling, ServePlaces
<1>2. s \in ServeRecords /\ s.at = to /\ s.setup = serve[d].setup /\ s.record = serve[d].record /\ s.name = serve[d].name
  BY <1>1, ServeMoves
<1>3. Continue(d, s)
  OBVIOUS
<1> HIDE DEF s
<1>4. /\ serve[d].setup # None /\ serve[d].name # None
      /\ d \notin torn => serve[d].record = serve[d].setup
  BY DEF Settling, IInv, LocalsInv, FilesInv, FilesInOrder
<1>5. ServeGoesOn(d, s)
  BY <1>2, <1>3, <1>4 DEF ServeGoesOn, Settling
<1>6. serve' \in [Dirs -> ServeRecords] /\ LocalsInv' /\ SignatureInv' /\ FilesInv'
  BY <1>2, <1>5, ContinueInv
<1>7. UNCHANGED <<setup, record, init, inits, serves, torn>>
  BY <1>3 DEF Continue, counts
<1>8. serve[d].name \in Names /\ serve[d].setup \in Numbers
  BY <1>1, <1>4 DEF ServeRecords
<1>9. savedUnder' \in [Dirs -> Numbers \cup {None}]
  BY <1>8 DEF IInv, TypeInv
<1>10. \A e \in Dirs : serve'[e] = IF e = d THEN s ELSE serve[e]
  BY <1>3 DEF IInv, TypeInv, Continue
<1> QED
  BY <1>2, <1>6, <1>7, <1>8, <1>9, <1>10

(* The registrations and saved names stay as long as the records do.       *)
LEMMA RecordsKept ==
  ASSUME IInv, UNCHANGED <<redis, hostname, savedUnder, erased>>,
         \A d \in Dirs : Registered(d)' => Registered(d) /\ serve'[d].name = serve[d].name
                                             /\ serve'[d].setup = serve[d].setup
  PROVE  RecordInv'
BY DEF IInv, RecordInv, SavedNameIsReserved, redis

(* A step that takes nothing but the records of shared names.              *)
LEMMA RecordsLost ==
  ASSUME IInv, UNCHANGED <<hostname, savedUnder>>,
         NEW G \in SUBSET Names, erased' = erased \cup G,
         \A n \in Names : n \in G \/ hosts'[n] = hosts[n] \/ hosts[n] \notin Numbers,
         \A n \in G \cup expiring' : Shared(n),
         \A d \in Dirs : Registered(d)' => Registered(d) /\ serve'[d].name = serve[d].name
                                             /\ serve'[d].setup = serve[d].setup
  PROVE  RecordInv'
<1>1. ASSUME NEW d \in Dirs, Registered(d)'
      PROVE  hosts'[serve'[d].name] = serve'[d].setup \/ serve'[d].name \in erased'
  <2>1. Registered(d) /\ serve[d].name \in Names /\ serve[d].setup \in Numbers
    BY <1>1 DEF Registered, IInv, LocalsInv, TypeInv, ServeRecords
  <2>2. hosts[serve[d].name] = serve[d].setup \/ serve[d].name \in erased
    BY <2>1 DEF IInv, RecordInv
  <2> QED
    BY <1>1, <2>1, <2>2
<1>2. ASSUME NEW d \in Dirs, hostname'[d] \notin {Absent, Empty}
      PROVE  /\ hosts'[hostname'[d]] = savedUnder'[d] \/ hostname'[d] \in erased'
             /\ savedUnder'[d] # None
  <2>1. hostname[d] \in Names /\ savedUnder[d] \in Numbers
    BY <1>2 DEF IInv, TypeInv, RecordInv
  <2>2. hosts[hostname[d]] = savedUnder[d] \/ hostname[d] \in erased
    BY <1>2 DEF IInv, RecordInv, SavedNameIsReserved
  <2> QED
    BY <2>1, <2>2, ValuesAssumption DEF Numbers
<1>3. \A n \in erased' \cup expiring' : Shared(n)
  BY DEF IInv, RecordInv
<1> QED
  BY <1>1, <1>2, <1>3 DEF RecordInv, SavedNameIsReserved

(* What a step of Redis or of a client keeps.                              *)
LEMMA ElsewhereKept ==
  ASSUME IInv, UNCHANGED Elsewhere
  PROVE  /\ LocalsInv' /\ SignatureInv' /\ FilesInv'
         /\ UNCHANGED <<setup, record, hostname, init, serve, inits, serves, savedUnder, torn>>
<1>1. UNCHANGED <<setup, record, hostname, init, serve, inits, serves, savedUnder, torn>>
  BY DEF Elsewhere, files, counts
<1>2. LocalsInv' /\ SignatureInv'
  BY <1>1 DEF IInv, LocalsInv, SignatureInv, SignedIn
<1>3. FilesInv'
  BY <1>1 DEF IInv, FilesInv, FilesInOrder
<1> QED
  BY <1>1, <1>2, <1>3

(* Every step keeps the invariant.                                         *)
LEMMA StepInv == IInv /\ [Next]_vars => IInv'
<1> SUFFICES ASSUME IInv, [Next]_vars PROVE IInv'
  OBVIOUS
<1> USE DEF files, redis, counts, history
<1>0. TypeInv
  BY DEF IInv
<1>1. ASSUME NEW d \in Dirs, BeginInit(d) PROVE IInv'
  <2> DEFINE i == [at |-> "setup", drawn |-> inits + 1]
  <2>1. inits \in Nat /\ inits + 1 \in Numbers
    BY <1>0, <1>1, ValuesAssumption DEF TypeInv, BeginInit, Numbers
  <2>2. i \in InitRecords /\ i.at = "setup" /\ i.drawn = inits + 1 /\ i.drawn # None
    BY <2>1, ValuesAssumption DEF InitRecords, InitPlaces, Numbers
  <2>3. init' = [init EXCEPT ![d] = i] /\ inits' = inits + 1 /\ init'[d] = i
    BY <1>0, <1>1 DEF TypeInv, BeginInit
  <2>4. torn' \subseteq Dirs /\ torn \subseteq torn' /\ (serve[d].at = "record" => d \in torn')
    BY <1>0, <1>1 DEF TypeInv, BeginInit, Loading
  <2>5. \A e \in Dirs : ~SignedIn(e, inits + 1)
    BY <2>1 DEF IInv, SignatureInv
  <2>6. \A k \in Numbers : k <= inits \/ k = inits + 1 => k <= inits'
    BY <2>1, <2>3, ValuesAssumption DEF Numbers
  <2> HIDE DEF i
  <2>7. d \in torn' \/ FilesInOrder(d)'
    BY <1>1, <2>2, <2>3, <2>4 DEF IInv, FilesInv, FilesInOrder, BeginInit
  <2>8. init' \in [Dirs -> InitRecords] /\ LocalsInv' /\ SignatureInv' /\ FilesInv'
    <3>1. InitGoesOn(d, i)
      BY <1>1, <2>2, <2>3, <2>4, <2>5, <2>6, <2>7 DEF InitGoesOn, BeginInit
    <3> QED
      BY <2>2, <3>1, InitStepInv
  <2>9. TypeInv'
    BY <1>0, <1>1, <2>1, <2>3, <2>4, <2>8 DEF TypeInv, BeginInit, Numbers
  <2>10. RecordInv'
    BY <1>1, RecordsKept DEF BeginInit, Registered
  <2> QED
    BY <2>8, <2>9, <2>10 DEF IInv
<1>2. ASSUME NEW d \in Dirs, WriteSetup(d) PROVE IInv'
  <2>1. PICK x \in {Empty, init[d].drawn}, to \in {"fill setup", "record"} :
          /\ init[d].at = IF to = "record" THEN "fill setup" ELSE "setup"
          /\ x = IF to = "record" THEN init[d].drawn ELSE Empty
          /\ setup' = [setup EXCEPT ![d] = x]
          /\ init' = [init EXCEPT ![d] = [@ EXCEPT !.at = to]]
    BY <1>2 DEF WriteSetup, InitStep
  <2>2. UNCHANGED <<record, hostname, redis, serve, inits, serves, savedUnder, erased, torn>>
    BY <1>2 DEF WriteSetup, InitStep
  <2> DEFINE i == [init[d] EXCEPT !.at = to]
  <2>3. i \in InitRecords /\ i.at = to /\ i.drawn = init[d].drawn
    BY <1>0 DEF TypeInv, InitRecords, InitPlaces
  <2>4. init' = [init EXCEPT ![d] = i] /\ init'[d] = i
    BY <1>0, <2>1 DEF TypeInv
  <2> HIDE DEF i
  <2>5. setup'[d] = x /\ \A e \in Dirs \ {d} : setup'[e] = setup[e]
    BY <1>0, <2>1 DEF TypeInv
  <2>6. init[d].drawn \in Numbers /\ i.at # "none" /\ i.drawn # None
    BY <1>0, <2>1, <2>3 DEF IInv, LocalsInv, TypeInv, InitRecords
  <2>7. d \notin torn => serve[d].at # "record" /\ FilesInOrder(d)
    BY <2>1 DEF IInv, FilesInv, FilesInOrder
  <2>8. d \in torn' \/ FilesInOrder(d)'
    BY <2>1, <2>2, <2>3, <2>4, <2>5, <2>7 DEF FilesInOrder
  <2>9. init' \in [Dirs -> InitRecords] /\ LocalsInv' /\ SignatureInv' /\ FilesInv'
    <3>1. \A k \in Numbers : k <= inits \/ k = i.drawn => k <= inits'
      BY <2>2, <2>3 DEF IInv, SignatureInv, SignedIn
    <3>2. InitGoesOn(d, i)
      BY <2>1, <2>2, <2>3, <2>4, <2>5, <2>6, <2>8, <3>1 DEF InitGoesOn
    <3> QED
      BY <2>3, <3>2, InitStepInv
  <2>10. TypeInv'
    BY <1>0, <2>1, <2>2, <2>6, <2>9 DEF TypeInv
  <2>11. RecordInv'
    BY <2>2, RecordsKept DEF Registered
  <2> QED
    BY <2>9, <2>10, <2>11 DEF IInv
<1>3. ASSUME NEW d \in Dirs, WriteRecord(d) PROVE IInv'
  <2>1. UNCHANGED <<setup, hostname, redis, serve, inits, serves, savedUnder, erased, torn>>
    BY <1>3 DEF WriteRecord, InitStep
  <2>2. init[d].drawn \in Numbers
    BY <1>0, <1>3 DEF IInv, LocalsInv, TypeInv, InitRecords, WriteRecord, InitStep
  <2>3. record' \in [Dirs -> Numbers \cup {Absent, Empty}] /\ \A e \in Dirs \ {d} : record'[e] = record[e]
    BY <1>0, <1>3, <2>2 DEF TypeInv, WriteRecord, InitStep
  <2>4. \A k \in Numbers : k <= inits \/ k = init[d].drawn => k <= inits'
    BY <2>1 DEF IInv, SignatureInv, SignedIn
  <2>5. init' \in [Dirs -> InitRecords] /\ LocalsInv' /\ SignatureInv' /\ FilesInv'
    <3>1. CASE init[d].at = "record"
      <4> DEFINE i == [init[d] EXCEPT !.at = "fill record"]
      <4>1. i \in InitRecords /\ i.at = "fill record" /\ i.drawn = init[d].drawn /\ i.drawn # None
        BY <1>0, <2>2, ValuesAssumption DEF TypeInv, InitRecords, InitPlaces, Numbers
      <4>2. init' = [init EXCEPT ![d] = i] /\ init'[d] = i /\ record'[d] = Empty
        BY <1>0, <1>3, <3>1 DEF TypeInv, WriteRecord, InitStep
      <4> HIDE DEF i
      <4>3. d \in torn' \/ FilesInOrder(d)'
        BY <2>1, <3>1, <4>1, <4>2 DEF IInv, FilesInv, FilesInOrder
      <4>4. InitGoesOn(d, i)
        BY <2>1, <2>3, <2>4, <4>1, <4>2, <4>3 DEF InitGoesOn
      <4> QED
        BY <4>1, <4>4, InitStepInv
    <3>2. CASE init[d].at = "fill record"
      <4>1. NoInit \in InitRecords /\ NoInit.at = "none" /\ NoInit.drawn = None
        BY DEF InitRecords, InitPlaces, NoInit
      <4>2. init' = [init EXCEPT ![d] = NoInit] /\ init'[d] = NoInit /\ record'[d] = init[d].drawn
        BY <1>0, <1>3, <3>2 DEF TypeInv, WriteRecord, InitStep
      <4>3. d \in torn' \/ FilesInOrder(d)'
        BY <2>1, <3>2, <4>1, <4>2 DEF IInv, FilesInv, FilesInOrder
      <4>4. InitGoesOn(d, NoInit)
        BY <2>1, <2>3, <2>4, <4>1, <4>2, <4>3, ValuesAssumption DEF InitGoesOn, Numbers
      <4> QED
        BY <4>1, <4>4, InitStepInv
    <3> QED
      BY <1>3, <3>1, <3>2 DEF WriteRecord, InitStep
  <2>6. TypeInv'
    BY <1>0, <2>1, <2>3, <2>5 DEF TypeInv
  <2>7. RecordInv'
    BY <2>1, RecordsKept DEF Registered
  <2> QED
    BY <2>5, <2>6, <2>7 DEF IInv
<1>4. ASSUME NEW d \in Dirs, KillInit(d) PROVE IInv'
  <2>1. NoInit \in InitRecords /\ NoInit.at = "none" /\ NoInit.drawn = None
    BY DEF InitRecords, InitPlaces, NoInit
  <2>2. init' \in [Dirs -> InitRecords] /\ LocalsInv' /\ SignatureInv' /\ FilesInv'
    <3>1. UNCHANGED <<setup, record, serve, inits, savedUnder>> /\ d \in torn' /\ torn \subseteq torn'
      BY <1>4 DEF KillInit
    <3>2. init' = [init EXCEPT ![d] = NoInit]
      BY <1>4 DEF KillInit
    <3>3. \A k \in Numbers : k <= inits \/ k = None => k <= inits'
      BY <3>1, ValuesAssumption DEF Numbers
    <3>4. InitGoesOn(d, NoInit)
      BY <2>1, <3>1, <3>2, <3>3 DEF InitGoesOn
    <3> QED
      BY <2>1, <3>4, InitStepInv
  <2>3. TypeInv'
    BY <1>0, <1>4, <2>2 DEF TypeInv, KillInit
  <2>4. RecordInv'
    BY <1>4, RecordsKept DEF KillInit, Registered
  <2> QED
    BY <2>2, <2>3, <2>4 DEF IInv
<1>5. ASSUME NEW d \in Dirs, NEW asked \in Names \cup {None}, BeginServe(d, asked) PROVE IInv'
  <2> DEFINE s == [NoServe EXCEPT !.at = "record", !.asked = asked, !.setup = setup[d]]
  <2>1. setup[d] \in Numbers /\ setup[d] # None
    BY <1>0, <1>5, ValuesAssumption DEF TypeInv, BeginServe, Numbers
  <2>2. s \in ServeRecords /\ s.at = "record" /\ s.setup = setup[d] /\ s.record = None
    BY <2>1 DEF ServeRecords, ServePlaces, NoServe
  <2>3. serve' = [serve EXCEPT ![d] = s]
    BY <1>5 DEF BeginServe
  <2> HIDE DEF s
  <2>4. serve' \in [Dirs -> ServeRecords] /\ \A e \in Dirs : serve'[e] = IF e = d THEN s ELSE serve[e]
    BY <1>0, <2>2, <2>3 DEF TypeInv
  <2>5. /\ UNCHANGED <<setup, record, hostname, redis, init, inits, savedUnder, erased>>
        /\ serves' \in 0 .. MAX_SERVES /\ torn' \subseteq Dirs /\ torn \subseteq torn'
        /\ init[d].at # "none" => d \in torn'
    BY <1>0, <1>5, ValuesAssumption DEF TypeInv, BeginServe
  <2>6. TypeInv'
    BY <1>0, <2>4, <2>5 DEF TypeInv
  <2>7. LocalsInv'
    BY <2>1, <2>2, <2>4, <2>5 DEF IInv, LocalsInv
  <2>8. SignatureInv'
    <3>1. ASSUME NEW e \in Dirs, NEW k \in Numbers, SignedIn(e, k)' PROVE SignedIn(e, k)
      <4>1. k # None
        BY ValuesAssumption DEF Numbers
      <4> QED
        BY <2>2, <2>4, <2>5, <3>1, <4>1 DEF SignedIn
    <3> QED
      BY <2>5, <3>1 DEF IInv, SignatureInv
  <2>9. FilesInv'
    <3>1. ASSUME NEW e \in Dirs, e \notin torn' PROVE FilesInOrder(e)'
      <4>1. FilesInOrder(e)
        BY <2>5, <3>1 DEF IInv, FilesInv
      <4>2. CASE e # d
        <5>1. serve'[e] = serve[e]
          BY <2>4, <4>2
        <5> QED
          BY <2>5, <4>1, <5>1 DEF FilesInOrder
      <4>3. CASE e = d
        <5>1. serve'[e] = s /\ init[e].at = "none"
          BY <2>4, <2>5, <3>1, <4>3
        <5> QED
          BY <2>2, <2>5, <4>1, <4>3, <5>1 DEF FilesInOrder
      <4> QED
        BY <4>2, <4>3
    <3> QED
      BY <3>1 DEF FilesInv
  <2>10. RecordInv'
    BY <2>2, <2>4, <2>5, RecordsKept DEF Registered
  <2> QED
    BY <2>6, <2>7, <2>8, <2>9, <2>10 DEF IInv
<1>6. ASSUME NEW d \in Dirs, NEW s \in ServeRecords, ServeGoesOn(d, s),
             UNCHANGED <<redis, hostname, savedUnder, erased>>,
             s.at \in {"none", "resolve", "register", "compare"}
      PROVE  IInv'
  <2>1. serve' \in [Dirs -> ServeRecords] /\ LocalsInv' /\ SignatureInv' /\ FilesInv'
    BY <1>6, ContinueInv
  <2>2. UNCHANGED <<setup, record, init, inits, serves, torn>>
    BY <1>6 DEF ServeGoesOn, Continue
  <2>3. TypeInv'
    BY <1>0, <1>6, <2>1, <2>2 DEF TypeInv
  <2>4. \A e \in Dirs : serve'[e] = IF e = d THEN s ELSE serve[e]
    BY <1>0, <1>6 DEF TypeInv, ServeGoesOn, Continue
  <2>5. RecordInv'
    BY <1>6, <2>4, RecordsKept DEF Registered
  <2> QED
    BY <2>1, <2>3, <2>5 DEF IInv
<1>7. ASSUME NEW d \in Dirs, Continue(d, NoServe), UNCHANGED <<redis, hostname, history>> PROVE IInv'
  <2>1. ServeGoesOn(d, NoServe)
    BY <1>7, NoServeFits DEF ServeGoesOn
  <2> QED
    BY <1>6, <1>7, <2>1, NoServeFits
<1>8. ASSUME NEW d \in Dirs, LoadRecord(d) PROVE IInv'
  <2>1. CASE record[d] \in {Absent, Empty}
    BY <1>7, <1>8, <2>1 DEF LoadRecord
  <2>2. CASE record[d] \notin {Absent, Empty}
    <3> DEFINE s == [serve[d] EXCEPT !.record = record[d], !.at = "resolve"]
    <3>1. serve[d] \in ServeRecords /\ record[d] \in Numbers
      BY <1>0, <2>2 DEF TypeInv
    <3>2. s \in ServeRecords /\ s.at = "resolve" /\ s.setup = serve[d].setup /\ s.record = record[d]
      BY <3>1 DEF ServeRecords, ServePlaces
    <3>3. Continue(d, s) /\ UNCHANGED <<redis, hostname, history>>
      BY <1>8, <2>2 DEF LoadRecord
    <3> HIDE DEF s
    <3>4. serve[d].at = "record" /\ serve[d].setup # None
      BY <1>8 DEF LoadRecord, IInv, LocalsInv
    <3>5. d \notin torn => s.record = s.setup
      BY <3>2, <3>4 DEF IInv, FilesInv, FilesInOrder
    <3>6. ServeGoesOn(d, s)
      BY <3>2, <3>3, <3>4, <3>5 DEF ServeGoesOn
    <3> QED
      BY <1>6, <3>2, <3>3, <3>6
  <2> QED
    BY <2>1, <2>2
<1>9. ASSUME NEW d \in Dirs, ResolveName(d) PROVE IInv'
  <2>1. PICK n \in Names : Continue(d, [serve[d] EXCEPT !.name = n, !.at = "register"])
    BY <1>0, <1>9, NamesAssumption DEF ResolveName, TypeInv, ServeRecords
  <2> DEFINE s == [serve[d] EXCEPT !.name = n, !.at = "register"]
  <2>2. serve[d] \in ServeRecords /\ n # None
    BY <1>0, ValuesAssumption DEF TypeInv
  <2>3. /\ s \in ServeRecords /\ s.at = "register" /\ s.setup = serve[d].setup
        /\ s.record = serve[d].record /\ s.name = n
    BY <2>2 DEF ServeRecords, ServePlaces
  <2>4. Continue(d, s) /\ UNCHANGED <<redis, hostname, history>>
    BY <1>9, <2>1 DEF ResolveName
  <2> HIDE DEF s
  <2>5. /\ serve[d].at = "resolve" /\ serve[d].setup # None
        /\ d \notin torn => serve[d].record = serve[d].setup
    BY <1>9 DEF ResolveName, IInv, LocalsInv, FilesInv, FilesInOrder
  <2>6. ServeGoesOn(d, s)
    BY <2>2, <2>3, <2>4, <2>5 DEF ServeGoesOn
  <2> QED
    BY <1>6, <2>3, <2>4, <2>6
<1>10. ASSUME NEW d \in Dirs, Register(d) PROVE IInv'
  <2> DEFINE n == serve[d].name
  <2>1. CASE hosts[n] # None
    <3> DEFINE s == [serve[d] EXCEPT !.at = "compare"]
    <3>1. Continue(d, s) /\ UNCHANGED <<redis, hostname, history>> /\ serve[d].at \in Settling
      BY <1>10, <2>1 DEF Register, Settling
    <3>2. "compare" \in Settling
      BY DEF Settling
    <3> HIDE DEF s
    <3>3. /\ serve' \in [Dirs -> ServeRecords] /\ LocalsInv' /\ SignatureInv' /\ FilesInv'
          /\ UNCHANGED <<setup, record, init, inits, serves, torn>>
          /\ \A e \in Dirs : /\ serve'[e].setup = serve[e].setup
                             /\ serve'[e].name = serve[e].name
                             /\ serve'[e].at = IF e = d THEN "compare" ELSE serve[e].at
      BY <3>1, <3>2, MoveInv DEF s
    <3>4. TypeInv'
      BY <1>0, <3>1, <3>3 DEF TypeInv
    <3>5. RecordInv'
      BY <3>1, <3>3, RecordsKept DEF Registered
    <3> QED
      BY <3>3, <3>4, <3>5 DEF IInv
  <2>2. CASE hosts[n] = None
    <3> DEFINE s == [serve[d] EXCEPT !.at = "persist"]
    <3>1. Continue(d, s) /\ UNCHANGED <<hostname, expiring, clients, history>> /\ serve[d].at \in Settling
      BY <1>10, <2>2 DEF Register, Settling
    <3>2. "persist" \in Settling
      BY DEF Settling
    <3> HIDE DEF s
    <3>3. /\ serve' \in [Dirs -> ServeRecords] /\ LocalsInv' /\ SignatureInv' /\ FilesInv'
          /\ UNCHANGED <<setup, record, init, inits, serves, torn>>
          /\ serve[d].name \in Names /\ serve[d].setup \in Numbers
          /\ \A e \in Dirs : /\ serve'[e].setup = serve[e].setup
                             /\ serve'[e].name = serve[e].name
                             /\ serve'[e].at = IF e = d THEN "persist" ELSE serve[e].at
      BY <3>1, <3>2, MoveInv DEF s
    <3>4. hosts' = [hosts EXCEPT ![n] = serve[d].setup]
      BY <1>10, <2>2 DEF Register
    <3>5. hosts' \in [Names -> Numbers \cup {None, Queue}] /\ \A m \in Names : hosts'[m] = IF m = n THEN serve[d].setup ELSE hosts[m]
      BY <1>0, <3>3, <3>4 DEF TypeInv
    <3>6. TypeInv'
      BY <1>0, <3>1, <3>3, <3>5 DEF TypeInv
    <3>7. RecordInv'
      <4>1. ASSUME NEW e \in Dirs, Registered(e)'
            PROVE  hosts'[serve'[e].name] = serve'[e].setup \/ serve'[e].name \in erased'
        <5>1. e = d \/ Registered(e)
          BY <3>3, <4>1 DEF Registered
        <5>2. Registered(e) => serve[e].name \in Names /\ serve[e].setup # None
          BY <1>0 DEF Registered, IInv, LocalsInv, TypeInv, ServeRecords
        <5> QED
          BY <2>2, <3>1, <3>3, <3>5, <5>1, <5>2 DEF IInv, RecordInv
      <4>2. ASSUME NEW e \in Dirs, hostname'[e] \notin {Absent, Empty}
            PROVE  hosts'[hostname'[e]] = savedUnder'[e] \/ hostname'[e] \in erased'
        <5>1. hostname[e] \in Names /\ savedUnder[e] # None
          BY <1>0, <3>1, <4>2 DEF TypeInv, IInv, RecordInv
        <5> QED
          BY <2>2, <3>1, <3>5, <4>2, <5>1 DEF IInv, RecordInv, SavedNameIsReserved
      <4> QED
        BY <3>1, <4>1, <4>2 DEF IInv, RecordInv, SavedNameIsReserved
    <3> QED
      BY <3>3, <3>6, <3>7 DEF IInv
  <2> QED
    BY <2>1, <2>2
<1>11. ASSUME NEW d \in Dirs, CompareSignature(d) PROVE IInv'
  <2>1. CASE hosts[serve[d].name] # serve[d].setup
    BY <1>7, <1>11, <2>1 DEF CompareSignature
  <2>2. CASE hosts[serve[d].name] = serve[d].setup
    <3> DEFINE s == [serve[d] EXCEPT !.at = "persist"]
    <3>1. Continue(d, s) /\ UNCHANGED <<redis, hostname, history>> /\ serve[d].at \in Settling
      BY <1>11, <2>2 DEF CompareSignature, Settling
    <3>2. "persist" \in Settling
      BY DEF Settling
    <3> HIDE DEF s
    <3>3. /\ serve' \in [Dirs -> ServeRecords] /\ LocalsInv' /\ SignatureInv' /\ FilesInv'
          /\ UNCHANGED <<setup, record, init, inits, serves, torn>>
          /\ \A e \in Dirs : /\ serve'[e].setup = serve[e].setup
                             /\ serve'[e].name = serve[e].name
                             /\ serve'[e].at = IF e = d THEN "persist" ELSE serve[e].at
      BY <3>1, <3>2, MoveInv DEF s
    <3>4. TypeInv'
      BY <1>0, <3>1, <3>3 DEF TypeInv
    <3>5. RecordInv'
      BY <2>2, <3>1, <3>3 DEF Registered, IInv, RecordInv, SavedNameIsReserved
    <3> QED
      BY <3>3, <3>4, <3>5 DEF IInv
  <2> QED
    BY <2>1, <2>2
<1>12. ASSUME NEW d \in Dirs, PersistName(d) PROVE IInv'
  <2>1. CASE serve[d].at = "persist"
    <3> DEFINE s == [serve[d] EXCEPT !.at = "fill name"]
    <3>1. /\ Continue(d, s) /\ UNCHANGED <<redis, savedUnder, erased, torn>> /\ serve[d].at \in Settling
          /\ hostname' = [hostname EXCEPT ![d] = Empty]
      BY <1>12, <2>1 DEF PersistName, Settling
    <3>2. "fill name" \in Settling
      BY DEF Settling
    <3> HIDE DEF s
    <3>3. /\ serve' \in [Dirs -> ServeRecords] /\ LocalsInv' /\ SignatureInv' /\ FilesInv'
          /\ UNCHANGED <<setup, record, init, inits, serves, torn>>
          /\ \A e \in Dirs : /\ serve'[e].setup = serve[e].setup
                             /\ serve'[e].name = serve[e].name
                             /\ serve'[e].at = IF e = d THEN "fill name" ELSE serve[e].at
      BY <3>1, <3>2, MoveInv DEF s
    <3>4. \A e \in Dirs : hostname'[e] = IF e = d THEN Empty ELSE hostname[e]
      BY <1>0, <3>1 DEF TypeInv
    <3>5. TypeInv'
      BY <1>0, <3>1, <3>3 DEF TypeInv
    <3>6. RecordInv'
      <4>1. ASSUME NEW e \in Dirs, Registered(e)'
            PROVE  hosts'[serve'[e].name] = serve'[e].setup \/ serve'[e].name \in erased'
        <5>1. Registered(e)
          BY <2>1, <3>3, <4>1 DEF Registered
        <5> QED
          BY <3>1, <3>3, <5>1 DEF IInv, RecordInv
      <4>2. \A e \in Dirs : hostname'[e] \notin {Absent, Empty} => hostname'[e] = hostname[e]
        BY <3>4
      <4>3. SavedNameIsReserved'
        BY <3>1, <4>2 DEF IInv, RecordInv, SavedNameIsReserved
      <4> QED
        BY <3>1, <4>1, <4>2, <4>3 DEF IInv, RecordInv
    <3> QED
      BY <3>3, <3>5, <3>6 DEF IInv
  <2>2. CASE serve[d].at = "fill name"
    <3> DEFINE s == [serve[d] EXCEPT !.at = "clear"]
    <3>1. /\ Continue(d, s) /\ UNCHANGED <<redis, erased, torn>> /\ serve[d].at \in Settling
          /\ hostname' = [hostname EXCEPT ![d] = serve[d].name]
          /\ savedUnder' = [savedUnder EXCEPT ![d] = serve[d].setup]
      BY <1>12, <2>2 DEF PersistName, Settling
    <3>2. "clear" \in Settling
      BY DEF Settling
    <3> HIDE DEF s
    <3>3. /\ serve' \in [Dirs -> ServeRecords] /\ LocalsInv' /\ SignatureInv' /\ FilesInv'
          /\ UNCHANGED <<setup, record, init, inits, serves, torn>>
          /\ savedUnder' \in [Dirs -> Numbers \cup {None}]
          /\ serve[d].name \in Names /\ serve[d].setup \in Numbers
          /\ \A e \in Dirs : /\ serve'[e].setup = serve[e].setup
                             /\ serve'[e].name = serve[e].name
                             /\ serve'[e].at = IF e = d THEN "clear" ELSE serve[e].at
      BY <3>1, <3>2, MoveInv DEF s
    <3>4. \A e \in Dirs : /\ hostname'[e] = IF e = d THEN serve[d].name ELSE hostname[e]
                          /\ savedUnder'[e] = IF e = d THEN serve[d].setup ELSE savedUnder[e]
      BY <1>0, <3>1 DEF TypeInv
    <3>5. TypeInv'
      BY <1>0, <3>1, <3>3 DEF TypeInv
    <3>6. serve[d].setup # None
      BY <3>3, ValuesAssumption DEF Numbers
    <3>7. RecordInv'
      <4>1. ASSUME NEW e \in Dirs, Registered(e)'
            PROVE  hosts'[serve'[e].name] = serve'[e].setup \/ serve'[e].name \in erased'
        <5>1. Registered(e)
          BY <2>2, <3>3, <4>1 DEF Registered
        <5> QED
          BY <3>1, <3>3, <5>1 DEF IInv, RecordInv
      <4>2. hosts[serve[d].name] = serve[d].setup \/ serve[d].name \in erased
        BY <2>2 DEF Registered, IInv, RecordInv
      <4>3. ASSUME NEW e \in Dirs, hostname'[e] \notin {Absent, Empty}
            PROVE  /\ hosts'[hostname'[e]] = savedUnder'[e] \/ hostname'[e] \in erased'
                   /\ savedUnder'[e] # None
        BY <3>1, <3>4, <3>6, <4>2, <4>3 DEF IInv, RecordInv, SavedNameIsReserved
      <4> QED
        BY <3>1, <4>1, <4>3 DEF IInv, RecordInv, SavedNameIsReserved
    <3> QED
      BY <3>3, <3>5, <3>7 DEF IInv
  <2> QED
    BY <1>12, <2>1, <2>2 DEF PersistName
<1>13. ASSUME NEW d \in Dirs, ClearLookups(d) PROVE IInv'
  <2> DEFINE s == [serve[d] EXCEPT !.at = "serving"]
             G == Matched(serve[d].name)
  <2>1. Continue(d, s) /\ UNCHANGED <<hostname, clients, savedUnder, torn>> /\ serve[d].at \in Settling
    BY <1>13 DEF ClearLookups, Settling
  <2>2. "serving" \in Settling
    BY DEF Settling
  <2>3. /\ \A m \in Names : hosts'[m] = IF m \in G THEN None ELSE hosts[m]
        /\ hosts' \in [Names -> Numbers \cup {None, Queue}]
        /\ erased' = erased \cup G /\ expiring' \subseteq expiring /\ G \in SUBSET Names
    BY <1>0, <1>13 DEF ClearLookups, TypeInv, Matched
  <2> HIDE DEF s
  <2>4. /\ serve' \in [Dirs -> ServeRecords] /\ LocalsInv' /\ SignatureInv' /\ FilesInv'
        /\ UNCHANGED <<setup, record, init, inits, serves, torn>>
        /\ serve[d].name \in Names
        /\ \A e \in Dirs : /\ serve'[e].setup = serve[e].setup
                           /\ serve'[e].name = serve[e].name
                           /\ serve'[e].at = IF e = d THEN "serving" ELSE serve[e].at
    BY <2>1, <2>2, MoveInv DEF s
  <2>5. \A n \in G : Shared(n)
    BY <2>4 DEF Matched, Shared
  <2> HIDE DEF G
  <2>6. TypeInv'
    BY <1>0, <2>1, <2>3, <2>4 DEF TypeInv
  <2>7. \A e \in Dirs : Registered(e)' => Registered(e)
    BY <1>13, <2>4 DEF Registered, ClearLookups
  <2>8. \A n \in expiring' : Shared(n)
    BY <2>3 DEF IInv, RecordInv
  <2>9. RecordInv'
    BY <2>1, <2>3, <2>4, <2>5, <2>7, <2>8, RecordsLost
  <2> QED
    BY <2>4, <2>6, <2>9 DEF IInv
<1>14. ASSUME NEW d \in Dirs, StopServe(d) PROVE IInv'
  BY <1>7, <1>14 DEF StopServe
<1>15. ASSUME NEW G \in SUBSET Names, erased' = erased \cup G, UNCHANGED Elsewhere,
              hosts' \in [Names -> Numbers \cup {None, Queue}],
              \A n \in Names : n \in G \/ hosts'[n] = hosts[n] \/ hosts[n] \notin Numbers,
              expiring' \subseteq Names, clients' \subseteq Names,
              \A n \in G \cup expiring' : Shared(n)
       PROVE  IInv'
  <2>1. /\ LocalsInv' /\ SignatureInv' /\ FilesInv'
        /\ UNCHANGED <<setup, record, hostname, init, serve, inits, serves, savedUnder, torn>>
    BY <1>15, ElsewhereKept
  <2>2. TypeInv'
    BY <1>0, <1>15, <2>1 DEF TypeInv
  <2>3. \A d \in Dirs : Registered(d)' => Registered(d)
    BY <2>1 DEF Registered
  <2>4. RecordInv'
    BY <1>15, <2>1, <2>3, RecordsLost
  <2> QED
    BY <2>1, <2>2, <2>4 DEF IInv
<1>16. expiring \subseteq Names /\ clients \subseteq Names /\ \A n \in expiring : Shared(n)
  BY <1>0 DEF TypeInv, IInv, RecordInv
<1>a. ASSUME UNCHANGED <<erased, Elsewhere>>,
             hosts' \in [Names -> Numbers \cup {None, Queue}],
             \A n \in Names : hosts'[n] = hosts[n] \/ hosts[n] \notin Numbers,
             expiring' \subseteq Names, clients' \subseteq Names,
             \A n \in expiring' : Shared(n)
      PROVE  IInv'
  <2> DEFINE G == {}
  <2>1. G \in SUBSET Names /\ erased' = erased \cup G /\ \A n \in G \cup expiring' : Shared(n)
    BY <1>a
  <2> HIDE DEF G
  <2> QED
    BY <1>15, <1>a, <2>1
<1>17. ASSUME NEW n \in Names, Connect(n) PROVE IInv'
  <2>1. UNCHANGED <<hosts, expiring, erased, Elsewhere>> /\ clients' \subseteq Names
    BY <1>16, <1>17 DEF Connect
  <2> QED
    BY <1>0, <1>a, <1>16, <2>1 DEF TypeInv
<1>18. ASSUME NEW n \in Names, NEW m \in Names, Notify(n, m) PROVE IInv'
  <2>1. Shared(m)
    BY <1>18 DEF Notify, Shared
  <2>2. /\ hosts' \in [Names -> Numbers \cup {None, Queue}]
        /\ \A k \in Names : hosts'[k] = hosts[k] \/ hosts[k] \notin Numbers
    BY <1>0, <1>18, ValuesAssumption DEF Notify, TypeInv, Numbers
  <2>3. expiring' = expiring \cup {m} /\ UNCHANGED <<clients, erased, Elsewhere>>
    BY <1>18 DEF Notify
  <2> QED
    BY <1>a, <1>16, <2>1, <2>2, <2>3
<1>19. ASSUME NEW d \in Dirs, NEW m \in Names, Accept(d, m) PROVE IInv'
  <2>1. /\ hosts' \in [Names -> Numbers \cup {None, Queue}]
        /\ \A k \in Names : hosts'[k] = hosts[k] \/ hosts[k] \notin Numbers
    BY <1>0, <1>19, ValuesAssumption DEF Accept, TypeInv, Numbers
  <2>2. expiring' \subseteq expiring /\ UNCHANGED <<clients, erased, Elsewhere>>
    BY <1>19 DEF Accept
  <2> QED
    BY <1>a, <1>16, <2>1, <2>2
<1>20. ASSUME NEW m \in Names, Expire(m) PROVE IInv'
  <2> DEFINE G == IF hosts[m] = Queue THEN {} ELSE {m}
  <2>1. Shared(m) /\ G \in SUBSET Names /\ erased' = erased \cup G
    BY <1>16, <1>20 DEF Expire
  <2>2. /\ hosts' \in [Names -> Numbers \cup {None, Queue}]
        /\ \A k \in Names : k \in G \/ hosts'[k] = hosts[k] \/ hosts[k] \notin Numbers
    BY <1>0, <1>20, ValuesAssumption DEF Expire, TypeInv, Numbers
  <2>3. expiring' \subseteq expiring /\ clients' = clients /\ UNCHANGED Elsewhere /\ G \subseteq {m}
    BY <1>20 DEF Expire
  <2> HIDE DEF G
  <2> QED
    BY <1>15, <1>16, <2>1, <2>2, <2>3
<1>21. ASSUME UNCHANGED vars PROVE IInv'
  BY <1>21 DEF vars, IInv, TypeInv, LocalsInv, SignatureInv, SignedIn, RecordInv,
               SavedNameIsReserved, Registered, FilesInv, FilesInOrder
<1> QED
  BY <1>1, <1>2, <1>3, <1>4, <1>5, <1>8, <1>9, <1>10, <1>11, <1>12, <1>13, <1>14,
     <1>17, <1>18, <1>19, <1>20, <1>21 DEF Next

(* Everything IInv says holds in every reachable state.                    *)
THEOREM Invariant == Spec => []IInv
BY InitInv, StepInv, PTL DEF Spec

(* The files, the records in Redis and the inits and serves keep to their  *)
(* types: a serve never goes on with a truncated file.                     *)
THEOREM RegistrationTypeCorrect == Spec => []TypeInv
<1>1. IInv => TypeInv
  BY DEF IInv
<1> QED
  BY <1>1, Invariant, PTL
-----------------------------------------------------------------------------
(* The invariants the runs check, for every value of the constants.        *)

(* A sequence of one part.                                                 *)
LEMMA OnePart ==
  ASSUME NEW S, NEW x \in S
  PROVE  <<x>> \in Seq(S) /\ Len(<<x>>) = 1 /\ <<x>>[1] = x
OBVIOUS

(* What a name must match to be erased: "session" and something after it.  *)
LEMMA ErasedNames ==
  ASSUME NEW m \in Names, NEW n \in Names, MatchesLookups(m, n)
  PROVE  \E i \in 1 .. Len(n) - 1 : n[i] = "session"
<1> DEFINE Parts == STRING \cup {"host", "session"}
           p == m \o <<"session">>
           q == <<"host">> \o n
<1>1. /\ m \in Seq(Parts) /\ Len(m) \in Nat \ {0}
      /\ n \in Seq(Parts) /\ Len(n) \in Nat
  BY NamesAssumption, EmptySeq
<1> HIDE DEF Parts
<1>2. p \in Seq(Parts) /\ Len(p) = Len(m) + 1 /\ p[Len(m) + 1] = "session"
  <2>1. <<"session">> \in Seq(Parts) /\ Len(<<"session">>) = 1 /\ <<"session">>[1] = "session"
    BY OnePart DEF Parts
  <2> QED
    BY <1>1, <2>1, ConcatProperties
<1>3. q \in Seq(Parts) /\ Len(q) = Len(n) + 1 /\ \A i \in 1 .. Len(n) : q[i + 1] = n[i]
  <2>1. <<"host">> \in Seq(Parts) /\ Len(<<"host">>) = 1
    BY OnePart DEF Parts
  <2> QED
    BY <1>1, <2>1, ConcatProperties
<1>4. Len(p) <= Len(q) /\ p = SubSeq(q, 1, Len(p)) /\ p # q
  BY DEF MatchesLookups, HostKey, IsStrictPrefix, IsPrefix
<1> HIDE DEF p, q
<1>5. q[Len(m) + 1] = "session" /\ Len(m) <= Len(n)
  BY <1>1, <1>2, <1>3, <1>4, SMTT(30)
<1>6. Len(m) # Len(n)
  BY <1>1, <1>2, <1>3, <1>4, SMTT(30)
<1> QED
  BY <1>1, <1>3, <1>5, <1>6

(* A name whose record has the key of a wake list ends in "wake".          *)
LEMMA WokenNames ==
  ASSUME NEW m \in Names, NEW n \in Names, WakeKey(m) = HostKey(n)
  PROVE  n[Len(n)] = "wake"
<1> DEFINE Parts == STRING \cup {"host", "wake"}
<1>1. /\ m \in Seq(Parts) /\ Len(m) \in Nat \ {0}
      /\ n \in Seq(Parts) /\ Len(n) \in Nat \ {0}
  BY NamesAssumption, EmptySeq
<1> HIDE DEF Parts
<1>2. Len(WakeKey(m)) = Len(m) + 1 /\ WakeKey(m)[Len(m) + 1] = "wake"
  <2>1. <<"wake">> \in Seq(Parts) /\ Len(<<"wake">>) = 1 /\ <<"wake">>[1] = "wake"
    BY OnePart DEF Parts
  <2> QED
    BY <1>1, <2>1, ConcatProperties DEF WakeKey
<1>3. Len(HostKey(n)) = Len(n) + 1 /\ HostKey(n)[Len(n) + 1] = n[Len(n)]
  <2>1. <<"host">> \in Seq(Parts) /\ Len(<<"host">>) = 1
    BY OnePart DEF Parts
  <2> QED
    BY <1>1, <2>1, ConcatProperties DEF HostKey
<1> QED
  BY <1>1, <1>2, <1>3

(* Two directories serve under one name only if its record was erased, and *)
(* only a name that shares its key with a lookup or a wake list loses it.  *)
THEOREM HostnamesHaveOneOwner == Spec => []OneOwnerPerName
<1>1. IInv => OneOwnerPerName
  <2> SUFFICES ASSUME IInv PROVE OneOwnerPerName
    OBVIOUS
  <2>1. ASSUME NEW d \in Dirs, NEW e \in Dirs, d # e, Registered(d), Registered(e),
               serve[d].name = serve[e].name, serve[d].name \notin erased
        PROVE  FALSE
    <3>1. hosts[serve[d].name] = serve[d].setup /\ hosts[serve[d].name] = serve[e].setup
      BY <2>1 DEF IInv, RecordInv
    <3>2. serve[d].setup \in Numbers
      BY <2>1 DEF Registered, IInv, LocalsInv, TypeInv, ServeRecords
    <3> QED
      BY <2>1, <3>1, <3>2 DEF IInv, SignatureInv, SignedIn
  <2>2. \A n \in erased : SharesItsKey(n)
    BY ErasedNames, WokenNames DEF IInv, RecordInv, TypeInv, Shared, SharesItsKey
  <2> QED
    BY <2>1, <2>2 DEF OneOwnerPerName
<1> QED
  BY <1>1, Invariant, PTL

(* A name written into a directory stays reserved for the signature it was *)
(* written under, unless its record is erased.                             *)
THEOREM SavedNamesStayReserved == Spec => []SavedNameIsReserved
<1>1. IInv => SavedNameIsReserved
  BY DEF IInv, RecordInv
<1> QED
  BY <1>1, Invariant, PTL

(* A host serves with the password record of its own setup, unless an init *)
(* of its directory was killed or ran beside the start of a serve.         *)
THEOREM CodesLogIn == Spec => []CredentialsMatch
<1>1. IInv => CredentialsMatch
  BY DEF IInv, FilesInv, FilesInOrder, CredentialsMatch, Registered
<1> QED
  BY <1>1, Invariant, PTL
=============================================================================
