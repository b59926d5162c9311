------------------------------- MODULE Shell -------------------------------
(***************************************************************************)
(* The shell of a session: the child process sh, its two pipes, and        *)
(* ShellSession::run, which writes a command and a line that prints a      *)
(* marker, and then reads until the marker comes back.  The shell's mutex  *)
(* makes the runs of a session follow one another.                         *)
(*                                                                         *)
(* A command is a sequence of input lines.  A line makes the shell print   *)
(* units of output, "line" with a newline at its end or "part" without,    *)
(* and then go on to the next line, exit, or take the next line of its     *)
(* input as data (an open quote, a program that reads standard input).     *)
(* Output of background jobs is left out.                                  *)
(***************************************************************************)
EXTENDS Naturals, Sequences
CONSTANTS
  Commands,
  INPUT_CAP,    \* lines that fit into the pipe to the shell
  OUTPUT_CAP,   \* units that fit into the pipe from the shell
  LIMIT,        \* 16 MiB, in units
  MAX_RUNS      \* bound of the exploration

ASSUME CapacityAssumption ==
  /\ INPUT_CAP \in Nat \ {0} /\ OUTPUT_CAP \in Nat \ {0} /\ LIMIT \in Nat
  /\ MAX_RUNS \in Nat

(* A line prints units and says how the shell goes on; no command knows    *)
(* the marker, which is random.                                            *)
ASSUME CommandsAssumption ==
  Commands \subseteq Seq([prints : Seq({"line", "part"}), then : {"next", "exit", "data"}])

VARIABLES
  input, output,   \* the pipes
  shell,           \* the run and line the shell is working on
  phase,           \* of run: "idle", "writing" or "reading"
  run,             \* number of the run, and with it its marker
  toWrite,         \* lines that run has not written yet
  line,            \* what read_until has of the next line
  collected,       \* the output collected
  outcome,         \* of the last run: "none", "ok", "overflow" or "dead"
  printed,         \* history: the units the lines of this run have printed
  dirty,           \* history: a run before this one overflowed, none succeeded since
  fits             \* history: this run found room, and nothing that takes its lines as data

host == <<phase, run, toWrite, line, collected, outcome, dirty, fits>>
vars == <<input, output, shell, printed, host>>

Marker == [prints |-> <<"marker">>, then |-> "next"]
NoLine == [prints |-> <<>>, then |-> "next"]

Of(r, lines) == [i \in DOMAIN lines |-> [run |-> r, line |-> lines[i]]]

Init ==
  /\ input = <<>> /\ output = <<>>
  /\ shell = [at |-> "reading", run |-> 0, line |-> NoLine]
  /\ phase = "idle" /\ run = 0
  /\ toWrite = <<>> /\ line = <<>> /\ collected = <<>>
  /\ outcome = "none"
  /\ printed = <<>> /\ dirty = FALSE /\ fits = TRUE
-----------------------------------------------------------------------------
(* ShellSession::run.                                                      *)

Ahead == Append(input, [run |-> shell.run, line |-> shell.line])

Start(c) ==
  /\ phase = "idle"
  /\ run < MAX_RUNS
  /\ run' = run + 1
  /\ phase' = "writing"
  /\ toWrite' = Of(run + 1, Append(c, Marker))
  /\ line' = <<>> /\ collected' = <<>> /\ printed' = <<>>
  /\ dirty' = (outcome = "overflow" \/ (dirty /\ outcome # "ok"))
  /\ fits' = /\ Len(input) + Len(c) < INPUT_CAP
             /\ \A i \in DOMAIN c : c[i].then # "data"
             /\ \A i \in DOMAIN Ahead : Ahead[i].line.then # "data"
  /\ UNCHANGED <<input, output, shell, outcome>>

(* Both lines are written before anything is read.                         *)
Write ==
  /\ phase = "writing"
  /\ shell.at # "exited"
  /\ Len(input) < INPUT_CAP
  /\ input' = Append(input, Head(toWrite))
  /\ toWrite' = Tail(toWrite)
  /\ phase' = IF Len(toWrite) = 1 THEN "reading" ELSE "writing"
  /\ UNCHANGED <<output, shell, printed, run, line, collected, outcome, dirty, fits>>

End(result) ==
  /\ phase' = "idle"
  /\ outcome' = result
  /\ UNCHANGED <<shell, run, printed, dirty, fits>>

(* The pipe is broken.                                                     *)
WriteFails ==
  /\ phase = "writing"
  /\ shell.at = "exited"
  /\ End("dead")
  /\ toWrite' = <<>>
  /\ UNCHANGED <<input, output, line, collected>>

(* Mutant: any run's marker ends the run.                                  *)
AnyCompletion(l) == {i \in DOMAIN l : l[i].kind = "marker"}

(* Mutant: the marker has to be at the start of its line.                  *)
CompletionAtStart(l) == {i \in DOMAIN l : i = 1 /\ l[i] = [run |-> run, kind |-> "marker"]}

(* completion_in: where the marker of this run is in a line.               *)
CompletionIn(l) == {i \in DOMAIN l : l[i] = [run |-> run, kind |-> "marker"]}

(* A line of output that read_until has returned.                          *)
TakeLine(l) ==
  IF CompletionIn(l) # {}
  THEN /\ \E i \in CompletionIn(l) : collected' = collected \o SubSeq(l, 1, i - 1)
       /\ End("ok")
  ELSE /\ collected' = collected \o l
       /\ IF Len(collected') > LIMIT THEN End("overflow")
          ELSE UNCHANGED <<shell, phase, run, outcome, printed, dirty, fits>>

Read ==
  /\ phase = "reading"
  /\ output # <<>>
  /\ output' = Tail(output)
  /\ LET read == Append(line, Head(output)) IN
       IF Head(output).kind = "part"
       THEN line' = read /\ UNCHANGED <<shell, printed, phase, run, collected, outcome, dirty, fits>>
       ELSE line' = <<>> /\ TakeLine(read)
  /\ UNCHANGED <<input, toWrite>>

(* At the end of the file read_until returns what it has, and then nothing.*)
ReadEnd ==
  /\ phase = "reading"
  /\ output = <<>> /\ shell.at = "exited"
  /\ line' = <<>>
  /\ IF line # <<>> THEN TakeLine(line) ELSE End("dead") /\ UNCHANGED collected
  /\ UNCHANGED <<input, output, toWrite>>
-----------------------------------------------------------------------------
(* The shell.                                                              *)

ShellRead ==
  /\ shell.at = "reading"
  /\ input # <<>>
  /\ shell' = [at |-> "running", run |-> Head(input).run, line |-> Head(input).line]
  /\ input' = Tail(input)
  /\ UNCHANGED <<output, printed, host>>

ShellPrint ==
  /\ shell.at = "running"
  /\ shell.line.prints # <<>>
  /\ Len(output) < OUTPUT_CAP
  /\ LET unit == [run |-> shell.run, kind |-> Head(shell.line.prints)] IN
       /\ output' = Append(output, unit)
       /\ printed' = IF unit.run = run /\ unit.kind # "marker" THEN Append(printed, unit) ELSE printed
  /\ shell' = [shell EXCEPT !.line.prints = Tail(@)]
  /\ UNCHANGED <<input, host>>

ShellNext ==
  /\ shell.at = "running"
  /\ shell.line.prints = <<>>
  /\ \/ /\ shell.line.then = "next"
        /\ shell' = [shell EXCEPT !.at = "reading"]
        /\ UNCHANGED input
     \/ /\ shell.line.then = "exit"
        /\ shell' = [shell EXCEPT !.at = "exited"]
        /\ input' = <<>>
     \/ /\ shell.line.then = "data"
        /\ input # <<>>
        /\ shell' = [shell EXCEPT !.at = "reading", !.line = NoLine]
        /\ input' = Tail(input)
  /\ UNCHANGED <<output, printed, host>>
-----------------------------------------------------------------------------
HostStep == Write \/ WriteFails \/ Read \/ ReadEnd

ShellStep == ShellRead \/ ShellPrint \/ ShellNext

Next == (\E c \in Commands : Start(c)) \/ HostStep \/ ShellStep

(* run is called again by nobody's obligation; what it has begun goes on.  *)
Fairness == WF_vars(HostStep) /\ WF_vars(ShellStep)

Spec == Init /\ [][Next]_vars /\ Fairness
-----------------------------------------------------------------------------
(* Properties.                                                             *)

(* The output of a run that succeeds is all its command has printed, in    *)
(* order and without another run's output in front unless an earlier run   *)
(* was given up for its size and none has succeeded since: the leftovers   *)
(* of that run then come first (server.rs:247-260, 272-286).               *)
ResultIsComplete ==
  phase = "idle" /\ outcome = "ok" =>
    \E leftovers \in 0 .. Len(collected) :
      /\ \A i \in 1 .. leftovers : collected[i].run # run
      /\ SubSeq(collected, leftovers + 1, Len(collected)) = printed
      /\ leftovers > 0 => dirty

(* A run that succeeds leaves both pipes empty for the next one, also when *)
(* it has found them full of leftovers (server.rs:240-262).                *)
SuccessLeavesNothing ==
  phase = "idle" /\ outcome = "ok" =>
    /\ input = <<>> /\ output = <<>> /\ line = <<>>
    /\ shell.at # "exited" /\ shell.line.prints = <<>>

(* A run ends, whatever its command prints and even if the shell exits, as *)
(* long as its lines fit into the pipe beside what was left there and no   *)
(* line takes another one as its data (server.rs:241-262).                 *)
RunsEnd == (phase # "idle" /\ fits) ~> (phase = "idle")
=============================================================================
