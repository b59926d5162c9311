---------------------------- MODULE Registration ----------------------------
(***************************************************************************)
(* How a host comes by its credentials and its name: init writes the OPAQUE *)
(* setup and the password record into the data directory, serve loads them, *)
(* reserves a hostname in Redis under the signature of the setup, writes    *)
(* the name into the data directory and clears the session lookups of that  *)
(* name.  Directories share only Redis; init and serve of one directory may *)
(* run at once, and each may be killed at any step.  The records share      *)
(* their keys with other things: with the lookups that a serve clears, and  *)
(* with the lists by which clients wake a host.                             *)
(*                                                                         *)
(* A setup is the number of the init that drew it, which also stands for    *)
(* its signature; a record is the setup it belongs to.  A hostname is the   *)
(* sequence of its parts between colons, and so is a key without its        *)
(* shex:v2.  A file truncated and not yet written is empty.                 *)
(***************************************************************************)
EXTENDS Naturals, Sequences, SequencesExt
CONSTANTS
  Dirs,
  Names,         \* hostnames a user may ask for
  RandomNames,   \* hostnames serve may generate
  Absent, Empty, None,
  Queue,         \* a list, where a host record should be
  MAX_INITS, MAX_SERVES    \* bounds of the exploration

ASSUME NamesAssumption ==
  /\ RandomNames \subseteq Names
  /\ Names \subseteq Seq(STRING) \ {<<>>}

ASSUME ValuesAssumption ==
  /\ MAX_INITS \in Nat /\ MAX_SERVES \in Nat
  /\ Absent # Empty /\ None \notin {Absent, Empty}
  /\ {Absent, Empty, None} \cap Names = {}
  /\ {Absent, Empty, None, Queue} \cap 1 .. MAX_INITS = {} /\ Queue # None

VARIABLES
  setup, record, hostname,   \* the three files of each directory
  hosts,                     \* the host records in Redis: a signature, a list or None
  expiring,                  \* names whose record has a time to live
  clients,                   \* names that some client has found registered
  init,                      \* the init running in each directory
  serve,                     \* the serve running in each directory
  inits, serves,             \* how many there have been
  savedUnder,                \* history: the signature under which each hostname file was written
  erased,                    \* history: names whose record was deleted or has expired
  torn                       \* history: directories with an init killed, or run beside a serve's start

files == <<setup, record, hostname>>
redis == <<hosts, expiring, clients>>
counts == <<inits, serves>>
history == <<savedUnder, erased, torn>>
vars == <<files, redis, init, serve, counts, history>>

NoInit == [at |-> "none", drawn |-> None]
NoServe == [at |-> "none", asked |-> None, setup |-> None, record |-> None, name |-> None]

Init ==
  /\ setup = [d \in Dirs |-> Absent]
  /\ record = [d \in Dirs |-> Absent]
  /\ hostname = [d \in Dirs |-> Absent]
  /\ hosts = [n \in Names |-> None] /\ expiring = {} /\ clients = {}
  /\ init = [d \in Dirs |-> NoInit]
  /\ serve = [d \in Dirs |-> NoServe]
  /\ inits = 0 /\ serves = 0
  /\ savedUnder = [d \in Dirs |-> None]
  /\ erased = {} /\ torn = {}
-----------------------------------------------------------------------------
(* auth::initialize.                                                       *)

Loading(d) == serve[d].at = "record"

BeginInit(d) ==
  /\ init[d].at = "none"
  /\ inits < MAX_INITS
  /\ inits' = inits + 1
  /\ init' = [init EXCEPT ![d] = [at |-> "setup", drawn |-> inits + 1]]
  /\ torn' = IF Loading(d) THEN torn \cup {d} ELSE torn
  /\ UNCHANGED <<files, redis, serve, serves, savedUnder, erased>>

(* One open with truncation, or one write, at a time.                      *)
InitStep(d, from, file, content, to) ==
  /\ init[d].at = from
  /\ file' = [file EXCEPT ![d] = content]
  /\ init' = [init EXCEPT ![d] = IF to = "none" THEN NoInit ELSE [@ EXCEPT !.at = to]]
  /\ UNCHANGED <<hostname, redis, serve, counts, history>>

WriteSetup(d) ==
  \/ InitStep(d, "setup", setup, Empty, "fill setup") /\ UNCHANGED record
  \/ InitStep(d, "fill setup", setup, init[d].drawn, "record") /\ UNCHANGED record

(* Mutant: the password record is kept if there is one.                    *)
WriteMissingRecord(d) ==
  \/ /\ record[d] = Absent
     /\ InitStep(d, "record", record, Empty, "fill record") /\ UNCHANGED setup
  \/ /\ record[d] # Absent
     /\ InitStep(d, "record", record, record[d], "none") /\ UNCHANGED setup
  \/ InitStep(d, "fill record", record, init[d].drawn, "none") /\ UNCHANGED setup

WriteRecord(d) ==
  \/ InitStep(d, "record", record, Empty, "fill record") /\ UNCHANGED setup
  \/ InitStep(d, "fill record", record, init[d].drawn, "none") /\ UNCHANGED setup

KillInit(d) ==
  /\ init[d].at # "none"
  /\ init' = [init EXCEPT ![d] = NoInit]
  /\ torn' = torn \cup {d}
  /\ UNCHANGED <<files, redis, serve, counts, savedUnder, erased>>
-----------------------------------------------------------------------------
(* serve.                                                                  *)

Continue(d, s) ==
  /\ serve' = [serve EXCEPT ![d] = s]
  /\ UNCHANGED <<setup, record, init, counts>>

BeginServe(d, asked) ==
  /\ serve[d].at = "none"
  /\ serves < MAX_SERVES
  /\ setup[d] \notin {Absent, Empty}
  /\ serves' = serves + 1
  /\ serve' = [serve EXCEPT ![d] = [NoServe EXCEPT !.at = "record", !.asked = asked, !.setup = setup[d]]]
  /\ torn' = IF init[d].at # "none" THEN torn \cup {d} ELSE torn
  /\ UNCHANGED <<files, redis, init, inits, savedUnder, erased>>

LoadRecord(d) ==
  /\ serve[d].at = "record"
  /\ IF record[d] \in {Absent, Empty} THEN Continue(d, NoServe)
     ELSE Continue(d, [serve[d] EXCEPT !.record = record[d], !.at = "resolve"])
  /\ UNCHANGED <<hostname, redis, history>>

(* resolve_hostname: the name asked for, the saved one, or a random one.   *)
ResolveName(d) ==
  /\ serve[d].at = "resolve"
  /\ \E n \in IF serve[d].asked # None THEN {serve[d].asked}
              ELSE IF hostname[d] \notin {Absent, Empty} THEN {hostname[d]}
              ELSE RandomNames :
       Continue(d, [serve[d] EXCEPT !.name = n, !.at = "register"])
  /\ UNCHANGED <<hostname, redis, history>>

(* HostListener::register: SETNX, and GET if the record was there.         *)
Register(d) ==
  LET n == serve[d].name IN
  /\ serve[d].at = "register"
  /\ \/ /\ hosts[n] = None
        /\ hosts' = [hosts EXCEPT ![n] = serve[d].setup]
        /\ Continue(d, [serve[d] EXCEPT !.at = "persist"])
     \/ /\ hosts[n] # None
        /\ Continue(d, [serve[d] EXCEPT !.at = "compare"])
        /\ UNCHANGED hosts
  /\ UNCHANGED <<hostname, expiring, clients, history>>

(* Mutant: the registration found is taken for one's own.                  *)
AcceptAnyRegistration(d) ==
  /\ serve[d].at = "compare"
  /\ Continue(d, [serve[d] EXCEPT !.at = "persist"])
  /\ UNCHANGED <<hostname, redis, history>>

(* What is there by now may be somebody else's, gone, or no string at all. *)
CompareSignature(d) ==
  /\ serve[d].at = "compare"
  /\ IF hosts[serve[d].name] = serve[d].setup
     THEN Continue(d, [serve[d] EXCEPT !.at = "persist"])
     ELSE Continue(d, NoServe)
  /\ UNCHANGED <<hostname, redis, history>>

(* persist_hostname.                                                       *)
PersistName(d) ==
  /\ \/ /\ serve[d].at = "persist"
        /\ hostname' = [hostname EXCEPT ![d] = Empty]
        /\ Continue(d, [serve[d] EXCEPT !.at = "fill name"])
        /\ UNCHANGED savedUnder
     \/ /\ serve[d].at = "fill name"
        /\ hostname' = [hostname EXCEPT ![d] = serve[d].name]
        /\ savedUnder' = [savedUnder EXCEPT ![d] = serve[d].setup]
        /\ Continue(d, [serve[d] EXCEPT !.at = "clear"])
  /\ UNCHANGED <<redis, erased, torn>>

HostKey(n) == <<"host">> \o n
WakeKey(n) == n \o <<"wake">>

(* Mutant: the pattern is shex:v2:NAME:*.                                  *)
MatchesName(n, other) == IsStrictPrefix(n, HostKey(other))

(* What shex:v2:NAME:session:* matches among the keys of the records.      *)
MatchesLookups(n, other) == IsStrictPrefix(n \o <<"session">>, HostKey(other))

Matched(n) == {m \in Names : hosts[m] # None /\ MatchesLookups(n, m)}

(* clear_session_lookups; of the keys it deletes only host records are     *)
(* here.                                                                   *)
ClearLookups(d) ==
  /\ serve[d].at = "clear"
  /\ hosts' = [m \in Names |-> IF m \in Matched(serve[d].name) THEN None ELSE hosts[m]]
  /\ expiring' = expiring \ Matched(serve[d].name)
  /\ erased' = erased \cup Matched(serve[d].name)
  /\ Continue(d, [serve[d] EXCEPT !.at = "serving"])
  /\ UNCHANGED <<hostname, clients, savedUnder, torn>>

(* The serve is killed, or a call into Redis or the file system fails.     *)
StopServe(d) ==
  /\ serve[d].at # "none"
  /\ Continue(d, NoServe)
  /\ UNCHANGED <<hostname, redis, history>>
-----------------------------------------------------------------------------
(* Waking a host.  Only wakes whose list has the key of a record are here: *)
(* host is woken by the list that has the key of the record of wake.       *)

Elsewhere == <<files, init, serve, counts, savedUnder, torn>>

(* RedisTransport::client: EXISTS.                                         *)
Connect(n) ==
  /\ hosts[n] # None
  /\ \E m \in Names : WakeKey(n) = HostKey(m)
  /\ clients' = clients \cup {n}
  /\ UNCHANGED <<hosts, expiring, erased, Elsewhere>>

(* notify_host, by any of the clients that have found n, later: RPUSH and  *)
(* PEXPIRE in one transaction, in which PEXPIRE is executed even if RPUSH  *)
(* fails on a record.                                                      *)
Notify(n, m) ==
  /\ n \in clients
  /\ WakeKey(n) = HostKey(m)
  /\ hosts' = [hosts EXCEPT ![m] = IF @ = None THEN Queue ELSE @]
  /\ expiring' = expiring \cup {m}
  /\ UNCHANGED <<clients, erased, Elsewhere>>

(* accept: the host takes the last element of the list that wakes it.      *)
Accept(d, m) ==
  /\ serve[d].at = "serving"
  /\ WakeKey(serve[d].name) = HostKey(m)
  /\ hosts[m] = Queue
  /\ hosts' = [hosts EXCEPT ![m] = None]
  /\ expiring' = expiring \ {m}
  /\ UNCHANGED <<clients, erased, Elsewhere>>

(* A time to live is over.                                                 *)
Expire(m) ==
  /\ m \in expiring
  /\ hosts' = [hosts EXCEPT ![m] = None]
  /\ expiring' = expiring \ {m}
  /\ erased' = IF hosts[m] = Queue THEN erased ELSE erased \cup {m}
  /\ UNCHANGED <<clients, Elsewhere>>
-----------------------------------------------------------------------------
Next ==
  \/ \E d \in Dirs :
       \/ BeginInit(d) \/ WriteSetup(d) \/ WriteRecord(d) \/ KillInit(d)
       \/ \E asked \in Names \cup {None} : BeginServe(d, asked)
       \/ LoadRecord(d) \/ ResolveName(d) \/ Register(d) \/ CompareSignature(d)
       \/ PersistName(d) \/ ClearLookups(d) \/ StopServe(d)
       \/ \E m \in Names : Accept(d, m)
  \/ \E n \in Names : Connect(n) \/ Expire(n) \/ \E m \in Names : Notify(n, m)

Spec == Init /\ [][Next]_vars
-----------------------------------------------------------------------------
(* Properties.                                                             *)

Registered(d) == serve[d].at \in {"persist", "fill name", "clear", "serving"}

(* A name in which a part "session" is followed by another, or that ends   *)
(* in "wake".                                                              *)
SharesItsKey(n) ==
  (\E i \in 1 .. Len(n) - 1 : n[i] = "session") \/ n[Len(n)] = "wake"

(* Two directories never serve under one name, whatever they race for or   *)
(* were killed in, except a name whose record has been erased; and that    *)
(* happens only to the names that share their key with a lookup, when a    *)
(* host whose name begins with "host" clears its lookups, or with a wake   *)
(* list, when a client wakes such a host (redis_transport.rs:145-166,      *)
(* 280-301, 339-366, 404-414).                                             *)
OneOwnerPerName ==
  /\ \A d, e \in Dirs :
       d # e /\ Registered(d) /\ Registered(e) /\ serve[d].name = serve[e].name
         => serve[d].name \in erased
  /\ \A n \in erased : SharesItsKey(n)

(* The name in a hostname file is reserved for the signature it was saved  *)
(* under, so that the next serve of the directory is not refused it unless *)
(* init has changed the signature, or the record was erased, which no name *)
(* of one part but "wake" suffers (server.rs:30-31, 179-196).              *)
SavedNameIsReserved ==
  \A d \in Dirs : hostname[d] \notin {Absent, Empty} =>
    hosts[hostname[d]] = savedUnder[d] \/ hostname[d] \in erased

(* A host serves with a password record of its own setup, so that the code *)
(* given to init logs in, unless an init of its directory was killed or    *)
(* ran while serve was loading (auth.rs:43-44, 75-89).                     *)
CredentialsMatch ==
  \A d \in Dirs : Registered(d) => serve[d].record = serve[d].setup \/ d \in torn
=============================================================================
