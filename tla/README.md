# shex in TLA+

shex runs commands on a remote host through a Redis server: client and host
never talk directly, they exchange single encrypted frames through keys with a
time to live. This directory models the parts of shex in which timing, failure
and interleaving decide whether it works, checks them with TLC and proves the
core of them with TLAPS. File names and line numbers refer to `src/` of the
repository.

## The system

| component | source | state | operations |
|---|---|---|---|
| secure channel | `channel.rs` | send and receive counter (the nonces) | send, recv, acknowledge |
| Redis transport | `redis_transport.rs` 11-272 | per direction a message key and a ready list, both with a TTL; the pending frame; the lease thread | send_frame, recv_frame, acknowledge, wait_indefinitely, the three Lua scripts |
| login | `auth.rs` 96-136 | OPAQUE states | client_login, server_login: three raw frames, then Hello |
| client commands | `main.rs` 192-592 | the command's position, the auth file in memory | auth, connect, exec, close, latency |
| handler | `server.rs` 57-177 | stage of the connection, a reference to a session | Open, Run, DeleteSession, Ping, Disconnect |
| sessions | `server.rs` 20-55, 104-136, `redis_transport.rs` 320-378 | the map of persistent sessions, lookup keys in Redis, a mutex per shell | create, find, remove; clear at start |
| shell | `server.rs` 216-286 | a child `sh`, its pipes | spawn, run with a random end marker, kill on drop |
| registration | `redis_transport.rs` 96-166, 280-318, `server.rs` 179-196, `auth.rs` 27-89 | host record, wake queue, hostname file, setup and record | init, register, accept, notify_host |
| auth files | `auth_file.rs`, `main.rs` | one encrypted file per host with the last session | create_for_host, load, save |
| credential store, aliases | `credential_store.rs`, `redis_store.rs` | keyring or file vault with its key, alias markers, default | set, get, delete, add, resolve |

A client command opens a transport under a random connection id, stores its
first frame, and pushes the id on the host's wake queue. `serve` pops it and
starts a handler thread; the two then alternate: the client asks, the handler
reads the frame, works, deletes the frame (compare and delete) and replies, and
the client reads and deletes the reply before it asks again. While a frame is
being worked on, a lease thread of its own extends its TTL. Handlers share the
session map and the shells' mutexes; everything else passes through Redis.

### What is hard about it

* A frame lives 60 s, a sender retries for 65 s, a lease renews every 20 s:
  frames expire before, between and after the steps of their reader, and the
  next frame takes the same key.
* A stopped lease thread may have a renewal in flight; an acknowledgement may
  be late; both name a key that now holds another frame.
* Any call into Redis may take effect and report an error.
* After a session is open, both sides wait without a timeout, and a frame may
  expire before its reader has issued the BLPOP that waits for it.
* A shell may exit by itself, in a session that stays open.
* Things of several kinds share one Redis key space: hostnames may contain
  colons, and the wake list of a host can have the key of another's record.
* A session is a map entry, a Redis key, a child process and a number of
  references, and they come and go one at a time, from several threads.
* Host, client and lease thread may die between any two steps; only the host
  record, the lookups and the files survive.

`PROJECT.json` lists each of these as a hazard at its line, with the property
that would catch it going wrong.

### What makes each component correct

* Transport and channel: frames arrive in order, none twice, none after a gap;
  no nonce is used twice; nothing removes a frame that has not been delivered;
  a waiting receiver is woken; bounded calls return; a lease keeps its frame.
* Conversation: one frame in flight; replies match requests; a Run is executed
  at most once; nobody waits for ever for something that cannot come.
* Sessions: a lookup for each session, and none for those of a process that is
  gone; what is closed stays closed; no shell is killed while it is open
  somewhere, none is left behind but by the death of its host in the middle of a
  command; an ephemeral session is private.
* Shell: a run returns the output of its own command, all of it, leaves nothing
  behind, and ends.
* Registration: a name has one owner; a name saved in a hostname file is
  reserved; the setup and the record of a serving host belong together.
* Credential store: a map, whoever races to create it. Auth files and aliases:
  the key of a whole file is there, no key without a file, a default that can
  be read names an alias with a marker file, perhaps damaged, and a secret, a
  recorded session is one of the host it is recorded for.

## The modules

### FrameStream

The abstract specification of one direction of a connection: three variables
(frames sent, frames received, whether the next one is lost) and three steps.
A frame may be sent only when all earlier ones were received or the stream is
broken; after a loss nothing is received any more.

### Mailbox (core)

One direction of a logged-in channel over Redis.

| in the model | in the code |
|---|---|
| `slot`, `slotTTL` | the message key and its expiry |
| `ready`, `readyTTL` | the ready list and its expiry |
| `sndPhase`, `sndCounter`, `sndLeft` | progress of `SecureChannel::send`, `send_counter`, the deadline in `send_frame` |
| `rcvPhase`, `rcvCounter`, `rcvLeft`, `rcvForever`, `pending` | progress of `recv_unacknowledged` and `acknowledge`, `recv_counter`, the BLPOP timeout, `receive_timeout_seconds = 0`, `PendingMessage` |
| `lease`, `leaseLeft`, `staleRenew` | the thread of `start_processing_lease`, its interval, and renewals sent by threads that have been told to stop |
| `stored`, `delivered`, `pickupTTL`, `leaseOnTime` | history, for the properties |

`StoreFrame` is SEND_SCRIPT with its reply and the counter's increment,
`StoreReplyLost` the same script with its reply lost; `GetFrame` is GET,
decryption, and the start of the lease thread; `BeginAck` stops the lease
thread and `AckFrame` runs ACK_SCRIPT and advances the counter. Each Redis
script is one step. `Tick` lets time pass: all timers count down together, keys
expire at zero, and threads may be late by any number of ticks. A frame is the
counter it is encrypted under, so it decrypts exactly when sender and receiver
counters agree. The channel's first frames are those after the login, when
`wake_queue` has been used up and both keys are absent.

### RemoteCalls

The abstract specification of a whole connection: a dialogue of calls. Its
moves are a table (`Dialogue`: in a stage, a call may be answered by a result,
which leads to the next stage); a call is made, taken, answered and heard, each
once and in this order; `Break`, possible at any time, closes the dialogue for
good. It has no mailboxes, timeouts or processes.

### Connection

One connection from its first frame to its end, for each of the five client
commands, against `server::handle`. Each direction is one slot that behaves as
FrameStream promises: a frame is read once, or lost. A side that has finished
its last call is `returned`; `ClientBlock` and `HandlerBlock` are its next
BLPOP, after which it is `awaiting` or `waiting`. A receiver in its BLPOP has
popped the token of a frame that is lost, and fails (Mailbox's `NoLostWakeup`
and `GetFrame` are why); one that has not issued it yet finds neither token nor
frame, and waits: for its timeout, or for ever (`LoseRequest`, `LoseReply`).
`ClientAck` chooses the next request from the command and the reply
(`FollowUps`), `Answers` gives the handler's replies for each stage and
request, `HandlerFails` is a handler that returns through a question mark
before it acknowledges. Timeouts may strike whenever a bounded receive has
nothing to read. `fault` remembers that a process died, a frame, wake or thread
was lost, or an Output was too large to send. The refinement (`CallAt`,
`CallStage`, `CurrentCall`) reads off where the current call is: it is `taken`
while the handler is at work on it, `answered` or `made` while its frame is in
a mailbox that someone may still read. What RunsAtMostOnce says of the counts,
`ImplementsCalls` says of every call: none is taken twice, answered out of
place, or made after the dialogue broke.

### Sessions

All handlers of a host, cut at the points where a lock or a call into Redis
lets others in. `arc` is the set of handlers with a reference to their session;
`DropShells` is the Rust semantics of `Arc` and `ShellSession::drop`: a shell is
killed when neither the map nor a handler refers to it. `Leave` is every early
return of `handle`. `Start` clears the lookups of the hostname.

A shell is `idle`, or `busy` with a command: one that is being run, or one that
`run` has given up at 16 MiB (`AbandonedEnds` is its end). It may exit at any
time (`ShellExits`), by a command or a job of the user's: then it is `exited`,
its session stays in the map and open, and every further run of it fails, which
is one of the outcomes of `FinishRun`. `Crash` takes the threads and the map; of
the process's shells the busy ones are `orphaned` until their command ends, the
others read the end of their input and are `dead`, as are those that were killed.

Connection and Sessions meet in `server::handle`: Connection has the frames and
not what they change on the host, Sessions the changes and not the frames
(any acknowledgement or reply may fail there).

### Shell

What Sessions treats as one critical section, `ShellSession::run`: the host
writes all lines of a command and one that prints a marker into the input pipe,
and only then reads the output pipe, a line at a time, until the marker of this
run is in the line. Both pipes are bounded and block their writer. A unit of
output has a newline or not, so that `line` is the buffer of `read_until`;
`TakeLine` is the search for the marker, the collected output and the limit.
The shell is external: it takes a line, prints its units one by one, and goes
on, exits, or takes the next line as data. `printed`, `dirty` and `fits` are
history.

### Registration

`initialize` is `BeginInit`, `WriteSetup` and `WriteRecord`, each file first
truncated and then written; `serve` up to its first accept is `BeginServe` and
`LoadRecord` (`ServerCredentials::load`), `ResolveName`, `Register` (SETNX) and
`CompareSignature` (GET), `PersistName` (truncated, then written) and
`ClearLookups`. Names are sequences of the parts between colons, so that the
pattern of `clear_session_lookups` is a prefix test on the real keys
(`MatchesLookups`). Of the keys it deletes only host records are modelled here;
Sessions has the lookups. The SCAN is one step.

Wake lists matter here only where one has the key of a host record
(`WakeKey`, `HostKey`): `shex:v2:host:wake` is both the list that wakes a host
named `host` and the record of the name `wake`. `Connect` is the EXISTS of a
client, `Notify` the transaction of RPUSH and PEXPIRE, `Accept` the BLPOP and
`Expire` the end of a time to live. On a record RPUSH fails, but PEXPIRE is
executed, so that the record expires; where there was no record, the list
(`Queue`) makes SETNX and GET fail for whoever wants the name. A host named
`host` beside a record of `wake` is never woken: its BLPOP fails on the record,
again and again, until the record is gone. Other coincidences of keys, as of a
lookup with a record, need a name that contains a random identifier or are
longer than a hostname may be.

### CredentialStore, Vault

CredentialStore is what the rest of shex relies on: a map from entries to
secrets. Vault is the file backend, cut at the directory entries that processes
share: the check for the key file, `hard_link` of a temporary file to it, the
rename of a temporary file to an entry's file. Its refinement mapping reads an
entry's file with the key in the key file; a file under another key counts as
lost, which is not a step of CredentialStore.

### ClientStore

The files a user's commands keep, over a credential store (an INSTANCE of
CredentialStore): the auth file of one host and the alias markers with their
default, all written in place, truncated first. `writes` is the list of files a
command still has to write. `auth` resolves a server, logs in, and creates the
file (`NewKey`, `CreateEntry`, `CleanUp`) or updates it (`UpdateEntry`); `exec`
and `close` load it, talk to the host, and save. `Overlay` is what two commands
that have the file open at once can make of it. `Kill`, `FailWrite` and
`Reboot` (with the kernel keyring as backend) are the faults; `overlap`
remembers that two commands ran at once.

A session is opened or deleted at the host before the client reads of it:
`OpenSession` and `ReadOpened`, `DeleteSession` and `ReadDeleted` are two steps
each, and `Refused` may come between them, since after the host has taken the
session out of its map the deletion of the lookup, the acknowledgement or the
reply may fail. `close` then ends with an error and saves nothing, although the
session is gone: `unreported` remembers it.

## The runs

| run | instance | shows |
|---|---|---|
| `mailbox` | ticks of 5 s: lease 4, TTL 12, timeout 13; three frames | all properties of Mailbox, the refinement of FrameStream, both liveness properties |
| `mailbox_lease` | the same, two frames | finding: the lease does not protect a frame that was picked up late |
| `conversation` | five commands, three Runs or Pings | all properties of Connection, the refinement of RemoteCalls |
| `ephemeral_removed` | connect | finding: the shell of an interrupted connect stays |
| `sessions` | one process started at most twice, three connections, two sessions | all properties of Sessions |
| `close_kills_shell` | two connections, one session | finding: close reports success, the shell lives on |
| `second_serve` | two processes, two connections, one session | finding: the second process clears live lookups |
| `vault` | three processes, two entries, two secrets | the vault is a credential store; a get can decrypt what it finds |
| `client_store` | five commands, two at a time, one failure, one reboot | all properties of ClientStore |
| `reauth_after_reboot` | three commands, one reboot | finding: auth cannot renew an entry whose key is lost |
| `shell` | five runs of six commands, pipes of three lines and two units, limit three | all properties of Shell |
| `registration` | two directories, four names, two inits, four serves | all properties of Registration |

**Bounds.** Mailbox has no bound of its own: the timers are finite, and
`MAX_COUNTER` is the largest nonce counter of the code made small, so that its
exhaustion is part of the run. Three frames are enough for a frame, the one
that takes its place, and the one after the overwritten one; the timing
constants have the ratios of the code exactly (20, 60 and 65 seconds in units
of five). The theorems hold for every value. In Connection `MAX_ROUNDS` bounds
the Runs of a connect session and the Pings of a latency test: the
conversation returns to the same point after every round, so that three rounds
show what any number would. In Sessions two identifiers and three connections
give a session being created, one being used by two connections and one being
deleted at once; `MAX_STARTS` = 2 is one restart.
In Vault three processes are one that has linked the key file, one that is
about to and one that reads; the steps of a process repeat for ever. In
ClientStore two commands at a time are enough for every race of two writers;
five commands (`MAX_COMMANDS`) are an alias added and used, an entry created,
used and closed; `MAX_FAILURES` and `MAX_REBOOTS` are one each. Shell keeps the
order of the real sizes (output pipe < limit); a command longer than the input
pipe, one longer than the limit, and the runs that follow them are among the
five runs (`MAX_RUNS`). In Registration two inits (`MAX_INITS`) are one of
each directory, or two of the same; four serves (`MAX_SERVES`) let a directory
register a name that gets lost, go on under the name `host` that loses it, and
come back while another directory takes the name. The four names are an ordinary
one, `host`, and two whose records share their keys with the lookups and the
wake list of `host`.

**Fairness.** Mailbox: time passes, and a thread inside a Redis call goes on
(`send_frame`'s loop polls every 20 ms, BLPOP returns, the acknowledgement is
one call). Nothing forces a program to send, to receive or to acknowledge, nor
a lease thread to be punctual. Connection: both threads take the steps they can
take and a bounded BLPOP ends; the user at the prompt, a running shell command
and the host's acceptance are not obliged to anything. Shell:
a run that has begun and a shell that has something to do go on, which is what
threads and processes do; a command that never ends is left out, and nobody is
obliged to start a run. Sessions: handlers go on
between waiting for their client and waiting for a command; commands need not
end, and locks are granted only under weak fairness.

**Deadlock** is checked for Vault. In the others a connection whose two sides
have ended, a host without clients, and an exploration that has used up its
bound have nothing left to do.

## What is proved

Every safety property that a passing run checks, and the three refinements, are
theorems, for every value of the constants that the named assumptions admit.
Each component has its proofs in `<module>_proofs`. None of the properties is
inductive by itself: each of these modules defines an invariant `IInv` with
`InitInv`, `StepInv` (one step or lemma for each action) and `Invariant`, from
which the other theorems follow. Where a property is an action property
(`NoShellLeaks`), its theorem rests on `IInv` of the state before the step.
Each `IInv` was also checked with TLC, on the instances of the runs or smaller
ones.

| module | theorems (the property they prove) |
|---|---|
| `Mailbox_proofs` | `TypeCorrect`, `InOrder` (DeliveredInOrder), `TokensAreFresh` (TokenHasFrame), `WakeupsArrive` (NoLostWakeup), `NoncesAreUnique` (NonceNeverReused), `LeaseIsEnough` (LeaseHolds), `AckIsExact` (AckSparesTheNextFrame), `Refinement` (Mailbox implements FrameStream) |
| `Connection_proofs` | `ConnectionTypeCorrect`, `OneFrameAtATime` (OneFrameInFlight), `ClientUnderstandsReplies` (RepliesAreExpected), `RunsStartAtMostOnce` (RunsAtMostOnce), `NobodyWaitsInVain` (NoHangWithoutFault), `CallsRefinement` (Connection implements RemoteCalls) |
| `Sessions_proofs` | `SessionsTypeCorrect`, `ClosedSessionsStayClosed`, `EphemeralSessionsArePrivate`, `ToldSessionsStayResumable`, `ShellsOutliveTheirUse` (OpenShellsAreKept), `ShellsDoNotLeak` (NoShellLeaks), `LookupsForOneHost` (LookupsMatchSessions) |
| `Shell_proofs` | `ShellTypeCorrect`, `RunsReturnTheirOutput` (ResultIsComplete), `SuccessesLeaveNothing` |
| `Registration_proofs` | `RegistrationTypeCorrect`, `HostnamesHaveOneOwner` (OneOwnerPerName), `SavedNamesStayReserved`, `CodesLogIn` (CredentialsMatch) |
| `Vault_proofs` | `VaultTypeCorrect`, `GetsAlwaysDecrypt`, `VaultRefinement` (Vault implements CredentialStore) |
| `ClientStore_proofs` | `ClientStoreTypeCorrect`, `EntryKeepsItsKey` (KeyOfEntryIsKept), `FailedAuthsTakeTheirKeysBack` (NoOrphanKeys), `DefaultsAreSaved`, `LastSessionsAreUsable`, `EntriesLoad` |

**Mailbox**, for every TTL, timeout, interval and counter range with
interval < TTL < timeout (`TimingAssumption`, `CounterAssumption`):

* `SlotInv`: what is in the slot is always the last frame stored, and a running
  send uses the next counter. So the slot never moves backwards.
* `ReceiverInv`: `recv_counter` is the number of frames delivered, or one less
  while a frame is pending; a frame in the slot of an idle or waiting receiver
  has not been delivered. Decryption under that counter then admits exactly the
  next frame.
* `TokenInv`: outside processing, token and frame have the same expiry, and a
  token is there whenever an undelivered frame is and nobody has popped it.
  Renewing a frame separates the two expiries, which is harmless because its
  token is gone; a late renewal of an older frame does not reach the slot of
  an idle or waiting receiver, by the next part.
* `LeaseInv`: a renewal in flight is for a delivered frame, which such a slot
  does not hold. Its other half compares the timers: a
  punctual lease thread is due before the frame it protects expires, from the
  pickup on if more than one interval was left then, and again after each
  renewal because interval < TTL.

`Refinement` maps `StoreFrame` and `StoreReplyLost` to Send, a successful
`GetFrame` to Receive, and the expiry of an undelivered frame to Lose.

**Connection**, for any commands and any `MAX_ROUNDS`. There is one token: with
the client before it sends, a frame in one mailbox, with the handler, a frame
in the other (`TokenInv`). Wherever it is, the handler's stage is one in which
the client's request may arrive (`Before`), or the one in which its reply was
given (`After`); this is why a reply always fits the request. `CountInv` places
the Runs asked for, started and answered along the way of the token, `WakeInv`
is the time before the handler exists, `OpenInv` says that without a fault only
a Disconnect ends the handler of an open session. `CallsRefinement` maps
`ClientSend` to Make (to Break if the handler is gone), `HandlerReceive` to
Take, `HandlerSend` to Answer and `ClientAck` to Hear; the deaths, losses and
failures are Breaks when they strike the call that is under way. It rests on
two lemmas: what a client is about to send is a call of its stage
(`CallIsLegal`), what a handler answers is a move of the dialogue
(`AnswerIsMove`).

**Sessions**, for any number of processes, connections and identifiers.
`HomeInv`: an identifier is drawn once, so a session belongs to one process.
`PrivateInv`: while it is being created, or if it is ephemeral, one handler
knows it. `GoneInv`: what has been taken out of a map is in no map again, and
what is closed has no lookup. `ReferenceInv`: a shell is kept, alive or exited,
exactly as long as a map or a handler refers to it; `LockInv`: its mutex is held
by the handler that is running a command. `ShellsDoNotLeak` compares the two ends
of each step: what loses its last use is killed, unless a host dies.
`LookupsForOneHost` assumes one serve process for the
hostname (`Hosts = {host}`): with two the property is false, which is the
finding `second_serve`.

**Shell**, for any commands that do not print the marker (`CommandsAssumption`;
the marker is random) and any capacities and limit. Lines and units keep their
order on the way from `toWrite` through both pipes to `collected`. `OrderInv`:
the runs they belong to never decrease along it. `WritingInv`, `MarkerInv`: the
marker of the run is in one place, and nothing is behind it, so that reading it
finds both pipes empty. `PrintedInv`: what is on the way out is other runs'
output and then exactly what this run has printed. `CleanInv`: the other output
is there only after an overflow.

**Registration**, for any number of directories and any names. `SignatureInv`:
a signature is drawn in one directory and seen in no other, so a record that
carries it says whose it is. `RecordInv`: a registered host, and a saved name,
has its record unless it was erased, and only a record that is `Shared`, with a
lookup pattern or a wake list, is ever erased or given a time to live.
`FilesInv`: the two files of a directory whose init has not been disturbed
disagree only while it is writing them. The last part of the proof says which
names are shared at all: those with a part `session` that another part follows
(`MatchesLookups`), and those that end in `wake` (`WokenNames`).

**ClientStore**, for any number of commands at a time, any aliases and servers
(`ValuesAssumption`: the values that stand for files, keys and names are
different). `KeysInv`: an auth file is created once, all who save it hold the
key of its creator, and a command that may still delete its key shares it with
nobody. `SecretsInv`: keys are lost in a reboot only, and left behind by an
interruption (a kill, a failed write, a reboot) only. `SavedInv`: a default is
written after its alias. `TurnsInv`: commands that do not overlap take turns,
and hand over an auth file that is absent or whole, with a session that is open
or that a failing close has deleted (`unreported`).

**Vault**, for any number of processes, entries and secrets (`NoneAssumption`:
nothing stored is no value). `LocalsInv`: a process that is about to write or to
read an entry holds the key in the key file; `FilesInv`: every entry's file is
under that key. It is inductive because the key file is only ever linked where
there was none.

The proofs changed the models in three places. `ResultIsComplete` now says where
the leftovers are (in front), and no longer filters them out. `OneOwnerPerName`
named only names whose first part is `session`; a host whose own name is
`host:a` erases others. In Connection the handler's answers were one `CASE` with
overlapping guards; they are now one operator for each stage.

**Only model-checked**: the liveness properties `SendReturns`, `RecvReturns`,
`CommandsEnd`, `DisconnectEndsHandler`, `UnopenedHandlerEnds`, `CloseNeverWaits`
and `RunsEnd`, which rest on fairness and ENABLED and are out of the prover's
reach. The five findings are counterexamples of TLC.

## Findings

Five statements of the documentation do not hold of the code; each has a run
whose counterexample shows how, and an entry in `PROJECT.json`:

1. `README.md:236-237`: the lease keeps long commands from expiring. Not for a
   frame that waited 40 s or more: the first renewal comes after 20 s.
   `LeaseHolds` (proved) is the statement that is true.
2. `README.md:195-196`, `ARCHITECTURE.md:8`: an ephemeral session is removed
   when its connection ends. Not when the client is killed or interrupted.
   The same happens after a Disconnect that expires between the handler's last
   reply and its next BLPOP. `DisconnectEndsHandler` and `UnopenedHandlerEnds`
   are what holds.
3. `README.md:180`, `ARCHITECTURE.md:15`: close deletes the host process. Not
   while another connection has the session open. `ClosedStaysClosed` and
   `NoShellLeaks` are what holds.
4. `README.md:232-233`: one lookup for each active session. Not with two serve
   processes of one data directory; with one it holds.
5. `credential_store.rs:101`, `README.md:149-150`, `auth_file.rs:80`: after a
   reboot that empties the kernel keyring, re-run auth. It loads the old file
   first, whose key is gone, and gives up. `KeyOfEntryIsKept` and `EntryLoads`
   are what holds.

Two more statements do not hold, and appear as an exception that a checked
property names:

* `README.md:241-242`: live shell processes cannot survive a host restart. One
  that is in the middle of a command does, until the command ends.
  `NoShellLeaks` says that this is the only way, and that no restarted host takes
  such a shell up again.
* `README.md:134-135`, `ARCHITECTURE.md:5`: a hostname record is permanent. The
  record of `wake` expires 60 s after a client wakes a host named `host`, that
  of `session:fox` is deleted when that host starts. `OneOwnerPerName` and
  `SavedNameIsReserved` say that only names like these suffer it (`erased`).

Some properties carry an exception that is itself a weakness of the code, stated
as exactly as TLC allows: `ResultIsComplete` (`dirty`: after an overflow the
next run returns the leftovers), `RunsEnd` (`fits`: commands of several lines
longer than the pipe, commands that read the marker line), `EntryLoads`
(`overlap`: two commands that save at once), `LastSessionIsUsable` (`unreported`:
a close that deleted the session and ended with an error keeps it as the last
one), `DisconnectEndsHandler` (an open handler before its BLPOP),
`CredentialsMatch` (`torn`: serve started while init runs).

## Plan

Done: all modules, the proofs of every safety property the runs check, and of
the three refinements. Next: the wake queue as a list shared by several clients.

## Not modelled

Cryptography (OPAQUE, HKDF, ChaCha20-Poly1305) beyond success and failure; the
contents of commands and output; background jobs of a shell; the system
keyrings behind the credential store, the choice among them by each process's
environment, and the loss of unsynchronised directory entries in a power
failure; the wake queue as a list of connections; partial writes of the
hostname file; two serve processes of one data directory in Registration
(Sessions has them); argument parsing, prompts, formatting and the latency
statistics; packaging; Redis persistence and eviction.
