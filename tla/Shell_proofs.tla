---------------------------- MODULE Shell_proofs ----------------------------
(***************************************************************************)
(* Proofs about Shell, for any commands and any capacity of the pipes: a   *)
(* run that succeeds returns its own output, all of it, and leaves the     *)
(* pipes empty.                                                            *)
(*                                                                         *)
(* Everything on the way through the shell keeps its order: the lines in   *)
(* toWrite, behind those in input, behind the one in shell, whose output   *)
(* is behind what is in output, in line and in collected.  The invariant   *)
(* says where in this order the marker of the run is, and that it is the   *)
(* last thing in it.                                                       *)
(***************************************************************************)
EXTENDS Shell, TLAPS, SequenceTheorems

Kinds == {"line", "part", "marker"}
Unit == [run : Nat, kind : Kinds]
Lines == [prints : Seq(Kinds), then : {"next", "exit", "data"}]
Entry == [run : Nat, line : Lines]

TypeInv ==
  /\ input \in Seq(Entry) /\ output \in Seq(Unit)
  /\ shell \in [at : {"reading", "running", "exited"}, run : Nat, line : Lines]
  /\ phase \in {"idle", "writing", "reading"}
  /\ run \in Nat
  /\ toWrite \in Seq(Entry)
  /\ line \in Seq(Unit) /\ collected \in Seq(Unit) /\ printed \in Seq(Unit)
  /\ outcome \in {"none", "ok", "overflow", "dead"}
  /\ dirty \in BOOLEAN /\ fits \in BOOLEAN

(* The marker of the run, as a line of input and as a unit of output.      *)
MarkerLine == [run |-> run, line |-> Marker]
MarkerUnit == [run |-> run, kind |-> "marker"]

MarkerInInput == \E i \in 1 .. Len(input) : input[i] = MarkerLine
MarkerInShell == shell.run = run /\ shell.line = Marker
MarkerInOutput == \E i \in 1 .. Len(output) : output[i] = MarkerUnit

(* Only the line that run adds prints a marker.                            *)
Honest(l) == (\E i \in 1 .. Len(l.prints) : l.prints[i] = "marker") => l = Marker

LinesInv ==
  /\ \A i \in 1 .. Len(input) : Honest(input[i].line)
  /\ \A i \in 1 .. Len(toWrite) : Honest(toWrite[i].line)
  /\ Honest(shell.line)
  /\ shell.at # "running" => shell.line.prints = <<>>
  /\ \A i \in 1 .. Len(line) : line[i].kind = "part"

(* Runs follow one another on the way through the shell.                   *)
OrderInv ==
  /\ \A i \in 1 .. Len(toWrite) : toWrite[i].run = run
  /\ \A i \in 1 .. Len(input) : shell.run <= input[i].run /\ input[i].run <= run
  /\ \A i, j \in 1 .. Len(input) : i <= j => input[i].run <= input[j].run
  /\ shell.run <= run
  /\ \A i \in 1 .. Len(output) : output[i].run <= run

(* While run is writing, the marker is the last line to be written.        *)
WritingInv ==
  IF phase = "writing"
  THEN /\ toWrite # <<>>
       /\ toWrite[Len(toWrite)] = MarkerLine
       /\ \A i \in 1 .. Len(toWrite) : i # Len(toWrite) => toWrite[i] # MarkerLine
       /\ ~ MarkerInInput /\ ~ MarkerInShell /\ ~ MarkerInOutput
       /\ line = <<>> /\ collected = <<>>
  ELSE toWrite = <<>>

(* The marker is in one place, and nothing is behind it.                   *)
MarkerInv ==
  /\ MarkerInInput => ~ MarkerInShell /\ ~ MarkerInOutput
  /\ \A i \in 1 .. Len(input) : input[i] = MarkerLine => i = Len(input)
  /\ MarkerInShell => input = <<>> /\ ~ MarkerInOutput
  /\ MarkerInOutput => input = <<>> /\ shell.line = NoLine /\ shell.at # "exited"
  /\ \A i \in 1 .. Len(output) : output[i] = MarkerUnit => i = Len(output)

(* After a success the pipes are empty; only a dead shell lets run fail,   *)
(* and then for good.                                                      *)
OutcomeInv ==
  /\ phase = "idle" /\ outcome \in {"none", "ok"} =>
       /\ input = <<>> /\ output = <<>> /\ line = <<>>
       /\ shell.line = NoLine /\ shell.at # "exited"
  /\ outcome = "dead" => shell.at = "exited" /\ phase # "reading"
  /\ outcome = "overflow" /\ phase # "idle" => dirty

(* s is own, what the lines of run r have printed, behind other output.    *)
EndsWith(s, own, r) ==
  \E others \in Seq(Unit) :
    /\ s = others \o own
    /\ \A i \in 1 .. Len(others) : others[i].run # r

Got == (collected \o line) \o output

PrintedInv ==
  /\ \A i \in 1 .. Len(printed) : printed[i].run = run
  /\ shell.run # run => printed = <<>>
  /\ phase # "idle" =>
       IF MarkerInOutput
       THEN \E s \in Seq(Unit) : Got = Append(s, MarkerUnit) /\ EndsWith(s, printed, run)
       ELSE EndsWith(Got, printed, run)
  /\ phase = "idle" /\ outcome = "ok" => EndsWith(collected, printed, run)

(* Without an overflow no other run has left anything.                     *)
CleanInv ==
  /\ phase # "idle" /\ ~ dirty /\ outcome # "dead" =>
       /\ \A i \in 1 .. Len(input) : input[i].run = run
       /\ shell.run # run => shell.line = NoLine
       /\ \A i \in 1 .. Len(Got) : Got[i].run = run
  /\ phase = "idle" /\ outcome = "ok" /\ ~ dirty =>
       \A i \in 1 .. Len(collected) : collected[i].run = run

IInv ==
  /\ TypeInv /\ LinesInv /\ OrderInv /\ WritingInv /\ MarkerInv /\ OutcomeInv
  /\ PrintedInv /\ CleanInv
-----------------------------------------------------------------------------
(* Sequences: what Append and Tail do, element by element, and what the    *)
(* steps do to the output on its way to collected.                         *)

LEMMA AppendFacts ==
  ASSUME NEW S, NEW s \in Seq(S), NEW e \in S
  PROVE  /\ Append(s, e) \in Seq(S)
         /\ Append(s, e) # <<>>
         /\ Len(s) \in Nat
         /\ Len(Append(s, e)) = Len(s) + 1
         /\ \A i \in 1 .. Len(s) + 1 : Append(s, e)[i] = IF i = Len(s) + 1 THEN e ELSE s[i]
BY AppendProperties, LenProperties

LEMMA TailFacts ==
  ASSUME NEW S, NEW s \in Seq(S), s # <<>>
  PROVE  /\ Head(s) \in S /\ Head(s) = s[1]
         /\ Len(s) \in Nat /\ Len(s) >= 1
         /\ Tail(s) \in Seq(S)
         /\ Len(Tail(s)) = Len(s) - 1
         /\ \A i \in 1 .. Len(s) - 1 : Tail(s)[i] = s[i + 1]
<1>1. Len(s) \in Nat /\ Len(s) >= 1
  BY EmptySeq
<1>2. Head(s) = s[1]
  BY <1>1
<1> QED
  BY <1>1, <1>2, HeadTailProperties

LEMMA TailOfOne ==
  ASSUME NEW S, NEW s \in Seq(S), Len(s) = 1
  PROVE  Tail(s) = <<>>
<1>1. s # <<>>
  BY EmptySeq
<1>2. Tail(s) \in Seq(S) /\ Len(Tail(s)) = 0
  BY <1>1, TailFacts
<1> QED
  BY <1>2, EmptySeq

LEMMA HeadThenTail ==
  ASSUME NEW S, NEW s \in Seq(S), s # <<>>
  PROVE  s = <<Head(s)>> \o Tail(s)
<1>1. <<Head(s)>> \in Seq(S) /\ Len(<<Head(s)>>) = 1 /\ <<Head(s)>>[1] = Head(s)
  BY TailFacts
<1>2. /\ <<Head(s)>> \o Tail(s) \in Seq(S)
      /\ Len(<<Head(s)>> \o Tail(s)) = Len(s)
      /\ \A i \in 1 .. Len(s) : (<<Head(s)>> \o Tail(s))[i] = IF i <= 1 THEN Head(s) ELSE Tail(s)[i - 1]
  BY <1>1, TailFacts, ConcatProperties
<1>3. ASSUME NEW i \in 1 .. Len(s)
      PROVE  (<<Head(s)>> \o Tail(s))[i] = s[i]
  BY <1>2, TailFacts
<1> QED
  BY <1>2, <1>3, SeqEqual

LEMMA Regroup ==
  ASSUME NEW S, NEW a \in Seq(S), NEW b \in Seq(S), NEW h \in Seq(S), NEW t \in Seq(S)
  PROVE  (a \o (b \o h)) \o t = (a \o b) \o (h \o t)
<1>1. a \o b \in Seq(S)
  BY ConcatProperties
<1>2. (a \o b) \o h = a \o (b \o h)
  BY ConcatAssociative, SMTT(30)
<1>3. ASSUME NEW ab \in Seq(S)
      PROVE  (ab \o h) \o t = ab \o (h \o t)
  BY ConcatAssociative, SMTT(30)
<1>4. ((a \o b) \o h) \o t = (a \o b) \o (h \o t)
  BY <1>1, <1>3, Zenon
<1> QED
  BY <1>2, <1>4, Zenon

(* A unit that moves from output to line stays where it was.               *)
LEMMA Moving ==
  ASSUME NEW a \in Seq(Unit), NEW b \in Seq(Unit), NEW s \in Seq(Unit), s # <<>>
  PROVE  (a \o Append(b, Head(s))) \o Tail(s) = (a \o b) \o s
<1>1. <<Head(s)>> \in Seq(Unit) /\ Tail(s) \in Seq(Unit)
  BY TailFacts
<1>2. Append(b, Head(s)) = b \o <<Head(s)>> /\ s = <<Head(s)>> \o Tail(s)
  BY TailFacts, HeadThenTail, AppendIsConcat
<1>3. (a \o (b \o <<Head(s)>>)) \o Tail(s) = (a \o b) \o (<<Head(s)>> \o Tail(s))
  BY <1>1, Regroup, SMTT(30)
<1> QED
  BY <1>2, <1>3, Zenon

(* A unit appended behind two sequences is appended to both.               *)
LEMMA AppendBehind ==
  ASSUME NEW S, NEW a \in Seq(S), NEW s \in Seq(S), NEW e \in S
  PROVE  a \o Append(s, e) = Append(a \o s, e)
<1> DEFINE h == <<e>>
<1>1. h \in Seq(S) /\ Append(s, e) = s \o h
  BY AppendIsConcat
<1>2. a \o s \in Seq(S) /\ Append(a \o s, e) = (a \o s) \o h
  BY ConcatProperties, AppendIsConcat
<1> HIDE DEF h
<1>3. (a \o s) \o h = a \o (s \o h)
  BY <1>1, ConcatAssociative, SMTT(30)
<1> QED
  BY <1>1, <1>2, <1>3, Zenon

(* Output of other runs, and nothing of the run yet.                       *)
LEMMA EndsWithNothing ==
  ASSUME NEW s \in Seq(Unit), NEW r, \A i \in 1 .. Len(s) : s[i].run # r
  PROVE  EndsWith(s, <<>>, r)
<1>1. s \o <<>> = s
  BY ConcatEmptySeq
<1> QED
  BY <1>1 DEF EndsWith

(* A unit of the run comes behind what the run has printed.                *)
LEMMA EndsWithOneMore ==
  ASSUME NEW s, NEW own \in Seq(Unit), NEW r, NEW u \in Unit, EndsWith(s, own, r)
  PROVE  EndsWith(Append(s, u), Append(own, u), r)
<1>1. PICK others \in Seq(Unit) :
        s = others \o own /\ \A i \in 1 .. Len(others) : others[i].run # r
  BY DEF EndsWith
<1>2. others \o Append(own, u) = Append(s, u)
  BY <1>1, AppendBehind
<1> QED
  BY <1>1, <1>2 DEF EndsWith

(* A unit of another run comes before anything of the run.                 *)
LEMMA EndsWithStillNothing ==
  ASSUME NEW s, NEW r, NEW u \in Unit, u.run # r, EndsWith(s, <<>>, r)
  PROVE  EndsWith(Append(s, u), <<>>, r)
<1>1. PICK others \in Seq(Unit) :
        s = others \o <<>> /\ \A i \in 1 .. Len(others) : others[i].run # r
  BY DEF EndsWith
<1>2. s = others
  BY <1>1, ConcatEmptySeq
<1>3. Append(s, u) \in Seq(Unit) /\ \A i \in 1 .. Len(Append(s, u)) : Append(s, u)[i].run # r
  BY <1>1, <1>2, AppendFacts
<1> QED
  BY <1>3, EndsWithNothing
-----------------------------------------------------------------------------
(* The steps of the invariant.                                             *)

(* The lines of a command print no marker.                                 *)
LEMMA KindsOfCommands ==
  ASSUME NEW c \in Commands, NEW i \in 1 .. Len(c)
  PROVE  c[i] \in Lines /\ Honest(c[i]) /\ c[i] # Marker
<1>1. c \in Seq([prints : Seq({"line", "part"}), then : {"next", "exit", "data"}])
  BY CommandsAssumption DEF CommandsAssumption
<1>2. c[i] \in [prints : Seq({"line", "part"}), then : {"next", "exit", "data"}]
  BY <1>1, ElementOfSeq
<1>3. \A j \in 1 .. Len(c[i].prints) : c[i].prints[j] \in {"line", "part"}
  BY <1>2, ElementOfSeq
<1>4. c[i].prints \in Seq(Kinds)
  BY <1>2, SeqMonotonic DEF Kinds
<1>5. c[i] # Marker
  <2>1. Marker.prints[1] = "marker" /\ 1 \in 1 .. Len(Marker.prints)
    BY DEF Marker
  <2> QED
    BY <2>1, <1>3
<1> QED
  BY <1>2, <1>3, <1>4, <1>5 DEF Honest, Lines

(* The line with the marker, and the line of a shell that has nothing to   *)
(* do.                                                                     *)
LEMMA MarkerFacts ==
  /\ Marker \in Lines /\ Honest(Marker)
  /\ NoLine \in Lines /\ Honest(NoLine) /\ NoLine # Marker /\ NoLine.prints = <<>>
<1>1. <<"marker">> \in Seq(Kinds) /\ <<>> \in Seq(Kinds) /\ Len(<<"marker">>) = 1
  BY DEF Kinds
<1>2. <<"marker">> # <<>>
  OBVIOUS
<1> QED
  BY <1>1, <1>2, EmptySeq DEF Marker, NoLine, Lines, Honest

(* The lines a run writes: those of its command and its marker.            *)
LEMMA WrittenLines ==
  ASSUME NEW c \in Commands, NEW r \in Nat
  PROVE  /\ Of(r, Append(c, Marker)) \in Seq(Entry)
         /\ Of(r, Append(c, Marker)) # <<>>
         /\ \A i \in 1 .. Len(Of(r, Append(c, Marker))) :
              /\ Of(r, Append(c, Marker))[i].run = r
              /\ Honest(Of(r, Append(c, Marker))[i].line)
              /\ i # Len(Of(r, Append(c, Marker))) => Of(r, Append(c, Marker))[i].line # Marker
         /\ Of(r, Append(c, Marker))[Len(Of(r, Append(c, Marker)))] = [run |-> r, line |-> Marker]
<1> DEFINE all == Append(c, Marker)
           lines == Of(r, all)
<1>1. c \in Seq(Lines)
  <2>1. c \in Seq([prints : Seq({"line", "part"}), then : {"next", "exit", "data"}])
    BY CommandsAssumption DEF CommandsAssumption
  <2>2. Len(c) \in Nat /\ c \in [1 .. Len(c) -> Lines]
    BY <2>1, LenProperties, KindsOfCommands
  <2> QED
    BY <2>2, SeqDef
<1>2. /\ all \in Seq(Lines) /\ Len(c) \in Nat /\ Len(all) = Len(c) + 1
      /\ \A i \in 1 .. Len(c) + 1 : all[i] = IF i = Len(c) + 1 THEN Marker ELSE c[i]
  BY <1>1, AppendFacts, MarkerFacts
<1>3. DOMAIN all = 1 .. Len(all)
  BY <1>2, LenProperties
<1> HIDE DEF all
<1>4. lines = [i \in 1 .. Len(all) |-> [run |-> r, line |-> all[i]]]
  BY <1>3 DEF Of
<1>5. \A i \in 1 .. Len(all) : [run |-> r, line |-> all[i]] \in Entry
  BY <1>2, ElementOfSeq DEF Entry
<1>6. Len(all) \in Nat /\ lines \in [1 .. Len(all) -> Entry]
  BY <1>2, <1>4, <1>5
<1> HIDE DEF lines
<1>7. lines \in Seq(Entry)
  BY <1>6, SeqDef
<1>8. Len(lines) = Len(all)
  BY <1>6, <1>7, LenProperties
<1>9. \A i \in 1 .. Len(lines) : lines[i].run = r /\ Honest(lines[i].line)
  BY <1>2, <1>4, <1>8, KindsOfCommands, MarkerFacts
<1>10. lines[Len(lines)] = [run |-> r, line |-> Marker]
  BY <1>2, <1>4, <1>8
<1>11. \A i \in 1 .. Len(lines) : i # Len(lines) => lines[i].line # Marker
  BY <1>2, <1>4, <1>8, KindsOfCommands
<1>12. lines # <<>>
  BY <1>2, <1>7, <1>8, EmptySeq
<1> QED
  BY <1>7, <1>9, <1>10, <1>11, <1>12 DEF lines, all

(* The invariant holds at the start.                                       *)
LEMMA InitInv == Init => IInv
<1> SUFFICES ASSUME Init PROVE IInv
  OBVIOUS
<1> USE DEF Init
<1>1. TypeInv
  BY MarkerFacts, EmptySeq DEF TypeInv
<1>2. LinesInv
  BY MarkerFacts, EmptySeq DEF LinesInv
<1>3. OrderInv /\ WritingInv /\ MarkerInv /\ OutcomeInv
  BY MarkerFacts DEF OrderInv, WritingInv, MarkerInv, OutcomeInv, MarkerInInput,
    MarkerInShell, MarkerInOutput
<1>4. PrintedInv /\ CleanInv
  BY DEF PrintedInv, CleanInv
<1> QED
  BY <1>1, <1>2, <1>3, <1>4 DEF IInv

(* The numbers of the runs in the pipes.                                   *)
LEMMA EntryFacts ==
  ASSUME NEW s \in Seq(Entry)
  PROVE  Len(s) \in Nat /\ \A i \in 1 .. Len(s) : s[i] \in Entry /\ s[i].run \in Nat
<1>1. \A i \in 1 .. Len(s) : s[i] \in Entry
  BY ElementOfSeq
<1> QED
  BY <1>1, LenProperties DEF Entry

LEMMA UnitFacts ==
  ASSUME NEW s \in Seq(Unit)
  PROVE  Len(s) \in Nat /\ \A i \in 1 .. Len(s) : s[i] \in Unit /\ s[i].run \in Nat
<1>1. \A i \in 1 .. Len(s) : s[i] \in Unit
  BY ElementOfSeq
<1> QED
  BY <1>1, LenProperties DEF Unit

(* A run starts: its marker is nowhere on the way, and what is there       *)
(* belongs to others.                                                      *)
LEMMA StartInv ==
  ASSUME IInv, NEW c \in Commands, Start(c)
  PROVE  IInv'
<1> USE DEF Start
<1>1. /\ toWrite' \in Seq(Entry) /\ toWrite' # <<>>
      /\ \A i \in 1 .. Len(toWrite') : toWrite'[i].run = run + 1 /\ Honest(toWrite'[i].line)
      /\ toWrite'[Len(toWrite')] = [run |-> run + 1, line |-> Marker]
      /\ \A i \in 1 .. Len(toWrite') : i # Len(toWrite') => toWrite'[i].line # Marker
  <2>1. run + 1 \in Nat /\ toWrite' = Of(run + 1, Append(c, Marker))
    BY DEF IInv, TypeInv
  <2> QED
    BY <2>1, WrittenLines
<1>2. TypeInv'
  BY <1>1 DEF IInv, TypeInv
<1>3. LinesInv'
  BY <1>1 DEF IInv, LinesInv
<1>4. OrderInv'
  <2>1. \A i \in 1 .. Len(input) : input[i].run \in Nat
    BY EntryFacts DEF IInv, TypeInv
  <2>2. \A i \in 1 .. Len(output) : output[i].run \in Nat
    BY UnitFacts DEF IInv, TypeInv
  <2>3. run \in Nat /\ run' = run + 1 /\ UNCHANGED <<input, output, shell>>
    BY DEF IInv, TypeInv
  <2>4. shell.run \in Nat /\ shell.run <= run
    BY DEF IInv, TypeInv, OrderInv
  <2>5. \A i \in 1 .. Len(input') : shell'.run <= input'[i].run /\ input'[i].run <= run'
    BY <2>1, <2>3 DEF IInv, OrderInv
  <2>6. \A i, j \in 1 .. Len(input') : i <= j => input'[i].run <= input'[j].run
    BY <2>3 DEF IInv, OrderInv
  <2>7. shell'.run <= run'
    BY <2>3, <2>4
  <2>8. \A i \in 1 .. Len(output') : output'[i].run <= run'
    BY <2>2, <2>3 DEF IInv, OrderInv
  <2>9. \A i \in 1 .. Len(toWrite') : toWrite'[i].run = run'
    BY <1>1, <2>3
  <2> QED
    BY <2>5, <2>6, <2>7, <2>8, <2>9 DEF OrderInv
(* The marker of the new run is nowhere yet.                               *)
<1>5. ~ MarkerInInput' /\ ~ MarkerInShell' /\ ~ MarkerInOutput'
  <2>1. \A i \in 1 .. Len(input) : input[i].run # run + 1
    BY DEF IInv, OrderInv, TypeInv
  <2>2. \A i \in 1 .. Len(output) : output[i].run # run + 1
    BY DEF IInv, OrderInv, TypeInv
  <2>3. shell.run # run + 1
    BY DEF IInv, OrderInv, TypeInv
  <2> QED
    BY <2>1, <2>2, <2>3 DEF MarkerInInput, MarkerInShell, MarkerInOutput, MarkerLine, MarkerUnit
<1>6. WritingInv'
  BY <1>1, <1>5 DEF WritingInv, MarkerLine
<1>7. MarkerInv'
  BY <1>5 DEF MarkerInv, MarkerInInput, MarkerInOutput
<1>8. OutcomeInv'
  BY DEF IInv, OutcomeInv, TypeInv
<1>9. PrintedInv'
  <2>1. Got' = output
    <3>1. (<<>> \o <<>>) \o output = output
      BY ConcatEmptySeq DEF IInv, TypeInv
    <3> QED
      BY <3>1 DEF Got
  <2>2. EndsWith(output, <<>>, run + 1)
    <3>1. output \in Seq(Unit) /\ \A i \in 1 .. Len(output) : output[i].run # run + 1
      BY DEF IInv, TypeInv, OrderInv
    <3> QED
      BY <3>1, EndsWithNothing
  <2> QED
    BY <1>5, <2>1, <2>2 DEF PrintedInv
<1>10. CleanInv'
  <2>1. CASE ~ dirty' /\ outcome # "dead"
    <3>1. outcome \in {"none", "ok"} /\ phase = "idle"
      BY <2>1 DEF IInv, TypeInv
    <3>2. input = <<>> /\ output = <<>> /\ shell.line = NoLine
      BY <3>1 DEF IInv, OutcomeInv
    <3>3. Got' = <<>>
      BY <3>2, ConcatEmptySeq DEF Got
    <3> QED
      BY <3>2, <3>3 DEF CleanInv
  <2> QED
    BY <2>1 DEF CleanInv
<1> QED
  BY <1>2, <1>3, <1>4, <1>6, <1>7, <1>8, <1>9, <1>10 DEF IInv

(* A line is written; the last one is the marker's.                        *)
LEMMA WriteInv ==
  ASSUME IInv, Write
  PROVE  IInv'
<1> DEFINE first == Head(toWrite)
<1>0. /\ phase = "writing" /\ shell.at # "exited"
      /\ input' = Append(input, first)
      /\ toWrite' = Tail(toWrite)
      /\ phase' = IF Len(toWrite) = 1 THEN "reading" ELSE "writing"
      /\ UNCHANGED <<output, shell, printed, run, line, collected, outcome, dirty, fits>>
  BY DEF Write
<1>1. /\ toWrite # <<>> /\ toWrite \in Seq(Entry) /\ input \in Seq(Entry)
      /\ toWrite[Len(toWrite)] = MarkerLine
      /\ \A i \in 1 .. Len(toWrite) : i # Len(toWrite) => toWrite[i] # MarkerLine
      /\ ~ MarkerInInput /\ ~ MarkerInShell /\ ~ MarkerInOutput
      /\ line = <<>> /\ collected = <<>>
      /\ run \in Nat
  BY <1>0 DEF IInv, WritingInv, TypeInv
<1>2. /\ first \in Entry /\ first = toWrite[1]
      /\ Len(toWrite) \in Nat /\ Len(toWrite) >= 1
      /\ toWrite' \in Seq(Entry) /\ Len(toWrite') = Len(toWrite) - 1
      /\ \A i \in 1 .. Len(toWrite) - 1 : toWrite'[i] = toWrite[i + 1]
  BY <1>0, <1>1, TailFacts
<1> HIDE DEF first
<1>3. /\ input' \in Seq(Entry) /\ Len(input) \in Nat /\ Len(input') = Len(input) + 1
      /\ \A i \in 1 .. Len(input) + 1 :
           input'[i] = IF i = Len(input) + 1 THEN first ELSE input[i]
  <2>1. input \in Seq(Entry) /\ first \in Entry /\ input' = Append(input, first)
    BY <1>0, <1>1, <1>2
  <2> QED
    BY <2>1, AppendFacts
<1>4. TypeInv'
  BY <1>0, <1>2, <1>3 DEF IInv, TypeInv
<1>5. LinesInv'
  BY <1>0, <1>2, <1>3 DEF IInv, LinesInv
<1>6. OrderInv'
  <2>1. first.run = run
    BY <1>2 DEF IInv, OrderInv
  <2>2. \A i \in 1 .. Len(toWrite') : toWrite'[i].run = run
    BY <1>2 DEF IInv, OrderInv
  <2>3. \A i \in 1 .. Len(input) : input[i].run \in Nat
    BY <1>1, EntryFacts
  <2>4. \A i \in 1 .. Len(input') : shell.run <= input'[i].run /\ input'[i].run <= run
    BY <1>1, <1>3, <2>1, <2>3 DEF IInv, OrderInv
  <2>5. ASSUME NEW i \in 1 .. Len(input'), NEW j \in 1 .. Len(input'), i <= j
        PROVE  input'[i].run <= input'[j].run
    <3>1. CASE j = Len(input) + 1
      <4>1. input'[j].run = run
        BY <1>3, <2>1, <3>1
      <4> QED
        BY <2>4, <4>1
    <3>2. CASE j # Len(input) + 1
      <4>1. /\ i \in 1 .. Len(input) /\ j \in 1 .. Len(input)
            /\ input'[i] = input[i] /\ input'[j] = input[j]
        BY <1>3, <2>5, <3>2
      <4> QED
        BY <2>5, <4>1 DEF IInv, OrderInv
    <3> QED
      BY <3>1, <3>2
  <2>6. UNCHANGED <<run, shell, output>>
    BY <1>0
  <2>7. shell.run <= run /\ \A i \in 1 .. Len(output) : output[i].run <= run
    BY DEF IInv, OrderInv
  <2> QED
    BY <2>2, <2>4, <2>5, <2>6, <2>7 DEF OrderInv
<1>7. ~ MarkerInShell' /\ ~ MarkerInOutput'
  BY <1>0, <1>1 DEF MarkerInShell, MarkerInOutput, MarkerUnit
<1>8. MarkerLine' = MarkerLine
  BY <1>0 DEF MarkerLine
(* The last line written is the first one that is the marker.              *)
<1>9. \A i \in 1 .. Len(input') :
        input'[i] = MarkerLine => i = Len(input') /\ Len(toWrite) = 1
  <2> SUFFICES ASSUME NEW i \in 1 .. Len(input'), input'[i] = MarkerLine
               PROVE  i = Len(input') /\ Len(toWrite) = 1
    OBVIOUS
  <2>1. i = Len(input) + 1
    BY <1>1, <1>3 DEF MarkerInInput
  <2>2. first = MarkerLine
    BY <1>3, <2>1
  <2>3. Len(toWrite) = 1
    <3>1. 1 \in 1 .. Len(toWrite) /\ toWrite[1] = MarkerLine
      BY <1>2, <2>2
    <3> QED
      BY <1>1, <3>1
  <2> QED
    BY <1>3, <2>1, <2>3
<1>10. WritingInv'
  <2>1. CASE Len(toWrite) = 1
    <3>1. toWrite' = <<>>
      BY <1>2, <2>1, EmptySeq
    <3> QED
      BY <1>0, <2>1, <3>1 DEF WritingInv
  <2>2. CASE Len(toWrite) # 1
    <3>1. toWrite' # <<>> /\ toWrite'[Len(toWrite')] = MarkerLine
      BY <1>1, <1>2, <2>2, EmptySeq
    <3>2. \A i \in 1 .. Len(toWrite') : i # Len(toWrite') => toWrite'[i] # MarkerLine
      BY <1>1, <1>2
    <3>3. ~ MarkerInInput'
      BY <1>8, <1>9, <2>2 DEF MarkerInInput
    <3> QED
      BY <1>0, <1>1, <1>7, <1>8, <2>2, <3>1, <3>2, <3>3 DEF WritingInv
  <2> QED
    BY <2>1, <2>2
<1>11. MarkerInv'
  BY <1>7, <1>8, <1>9 DEF MarkerInv, MarkerInOutput
<1>12. OutcomeInv'
  BY <1>0 DEF IInv, OutcomeInv
<1>13. PrintedInv'
  BY <1>0, <1>1, <1>7 DEF IInv, PrintedInv, Got
<1>14. CleanInv'
  <2>1. first.run = run
    BY <1>2 DEF IInv, OrderInv
  <2>2. ~ dirty /\ outcome # "dead" => \A i \in 1 .. Len(input') : input'[i].run = run
    BY <1>0, <1>3, <2>1 DEF IInv, CleanInv
  <2> QED
    BY <1>0, <2>2 DEF IInv, CleanInv, Got
<1> QED
  BY <1>4, <1>5, <1>6, <1>10, <1>11, <1>12, <1>13, <1>14 DEF IInv

(* The pipe to the shell is broken.                                        *)
LEMMA WriteFailsInv ==
  ASSUME IInv, WriteFails
  PROVE  IInv'
<1> USE DEF WriteFails, End
<1>1. TypeInv'
  BY EmptySeq DEF IInv, TypeInv
<1>2. LinesInv' /\ OrderInv'
  BY EmptySeq DEF IInv, LinesInv, OrderInv
<1>3. WritingInv' /\ MarkerInv' /\ OutcomeInv'
  BY DEF IInv, WritingInv, MarkerInv, MarkerInInput, MarkerInShell, MarkerInOutput, MarkerLine,
    MarkerUnit, OutcomeInv
<1>4. PrintedInv' /\ CleanInv'
  BY DEF IInv, PrintedInv, CleanInv
<1> QED
  BY <1>1, <1>2, <1>3, <1>4 DEF IInv

(* read_until has returned another line than the one with the marker.      *)
Kept(l) ==
  /\ line' = <<>> /\ collected' = collected \o l
  /\ \/ phase' = "idle" /\ outcome' = "overflow"
     \/ UNCHANGED <<phase, outcome>>

(* A line without the marker of the run is kept.                           *)
LEMMA KeepLine ==
  ASSUME NEW l, CompletionIn(l) = {}, TakeLine(l), line' = <<>>
  PROVE  Kept(l) /\ UNCHANGED <<shell, run, printed, dirty, fits>>
BY DEF TakeLine, End, Kept

(* The marker can only be at the end of a line.                            *)
LEMMA CompletionAtEnd ==
  ASSUME NEW l \in Seq(Unit), \A i \in 1 .. Len(l) : l[i].kind = "part"
  PROVE  /\ CompletionIn(l) = {}
         /\ \A u \in Unit :
              CompletionIn(Append(l, u)) = IF u = MarkerUnit THEN {Len(l) + 1} ELSE {}
<1>1. \A i \in 1 .. Len(l) : l[i] # MarkerUnit
  BY DEF MarkerUnit
<1>2. CompletionIn(l) = {}
  BY <1>1, LenProperties DEF CompletionIn, MarkerUnit
<1>3. ASSUME NEW u \in Unit
      PROVE  CompletionIn(Append(l, u)) = IF u = MarkerUnit THEN {Len(l) + 1} ELSE {}
  <2> DEFINE read == Append(l, u)
  <2>1. /\ Len(l) \in Nat /\ read \in Seq(Unit) /\ Len(read) = Len(l) + 1
        /\ \A i \in 1 .. Len(l) + 1 : read[i] = IF i = Len(l) + 1 THEN u ELSE l[i]
    BY AppendFacts
  <2>2. DOMAIN read = 1 .. Len(l) + 1
    BY <2>1, LenProperties
  <2> HIDE DEF read
  <2>3. \A i \in DOMAIN read : read[i] = MarkerUnit <=> i = Len(l) + 1 /\ u = MarkerUnit
    BY <1>1, <2>1, <2>2
  <2>4. CompletionIn(read) = {i \in DOMAIN read : read[i] = MarkerUnit}
    BY DEF CompletionIn, MarkerUnit
  <2>5. CompletionIn(read) = IF u = MarkerUnit THEN {Len(l) + 1} ELSE {}
    BY <2>1, <2>2, <2>3, <2>4
  <2> QED
    BY <2>5 DEF read
<1> QED
  BY <1>2, <1>3

(* What a unit read makes of the line, the output and the run.             *)
LEMMA ReadCases ==
  ASSUME IInv, Read
  PROVE  /\ UNCHANGED <<input, toWrite, shell, run, printed, dirty, fits>>
         /\ \/ /\ Head(output).kind = "part"
               /\ line' = Append(line, Head(output))
               /\ UNCHANGED <<collected, phase, outcome>>
            \/ /\ Head(output) = MarkerUnit
               /\ line' = <<>> /\ collected' = collected \o line
               /\ phase' = "idle" /\ outcome' = "ok"
            \/ /\ Head(output) # MarkerUnit
               /\ Kept(Append(line, Head(output)))
<1> DEFINE h == Head(output)
           read == Append(line, h)
<1>1. /\ UNCHANGED <<input, toWrite>>
      /\ IF h.kind = "part"
         THEN line' = read /\ UNCHANGED <<shell, printed, phase, run, collected, outcome, dirty, fits>>
         ELSE line' = <<>> /\ TakeLine(read)
  BY DEF Read
<1>2. /\ line \in Seq(Unit) /\ collected \in Seq(Unit) /\ h \in Unit
      /\ \A i \in 1 .. Len(line) : line[i].kind = "part"
  BY TailFacts DEF Read, IInv, TypeInv, LinesInv
<1>3. CompletionIn(read) = IF h = MarkerUnit THEN {Len(line) + 1} ELSE {}
  BY <1>2, CompletionAtEnd
<1>4. Len(line) \in Nat /\ SubSeq(read, 1, (Len(line) + 1) - 1) = line
  <2>1. /\ Len(line) \in Nat
        /\ \A i \in 1 .. Len(line) + 1 : read[i] = IF i = Len(line) + 1 THEN h ELSE line[i]
    BY <1>2, AppendFacts
  <2> HIDE DEF read
  <2>2. \A i \in 1 .. Len(line) : read[i] = line[i] /\ read[i] \in Unit
    BY <1>2, <2>1, ElementOfSeq
  <2>3. /\ SubSeq(read, 1, Len(line)) \in Seq(Unit)
        /\ Len(SubSeq(read, 1, Len(line))) = Len(line)
        /\ \A i \in 1 .. Len(line) : SubSeq(read, 1, Len(line))[i] = read[i]
    BY <2>1, <2>2, SubSeqProperties
  <2>4. SubSeq(read, 1, Len(line)) = line
    BY <1>2, <2>2, <2>3, SeqEqual
  <2> QED
    BY <2>1, <2>4
<1> HIDE DEF h, read
<1>5. CASE h.kind = "part"
  BY <1>1, <1>5 DEF h, read
<1>6. CASE h.kind # "part" /\ h = MarkerUnit
  <2>1. TakeLine(read) /\ line' = <<>> /\ CompletionIn(read) = {Len(line) + 1}
    BY <1>1, <1>3, <1>6
  <2>2. PICK i \in CompletionIn(read) : collected' = collected \o SubSeq(read, 1, i - 1)
    BY <2>1 DEF TakeLine
  <2>3. collected' = collected \o line
    BY <1>4, <2>1, <2>2
  <2>4. phase' = "idle" /\ outcome' = "ok" /\ UNCHANGED <<shell, run, printed, dirty, fits>>
    BY <2>1 DEF TakeLine, End
  <2> QED
    BY <1>1, <1>6, <2>1, <2>3, <2>4 DEF h
<1>7. CASE h.kind # "part" /\ h # MarkerUnit
  <2>1. TakeLine(read) /\ line' = <<>> /\ CompletionIn(read) = {}
    BY <1>1, <1>3, <1>7
  <2>2. Kept(read) /\ UNCHANGED <<shell, run, printed, dirty, fits>>
    BY <2>1, KeepLine
  <2> QED
    BY <1>1, <1>7, <2>2 DEF h, read
<1> QED
  BY <1>5, <1>6, <1>7

(* Reading takes the first unit and leaves the marker where it is, unless  *)
(* it is the first.                                                        *)
LEMMA OutputShrinks ==
  ASSUME IInv, Read
  PROVE  /\ output \in Seq(Unit) /\ output # <<>> /\ phase = "reading"
         /\ output' \in Seq(Unit) /\ output' = Tail(output)
         /\ Len(output) \in Nat /\ Len(output) >= 1 /\ Len(output') = Len(output) - 1
         /\ \A i \in 1 .. Len(output') : output'[i] = output[i + 1]
         /\ Head(output) = output[1] /\ Head(output) \in Unit
         /\ MarkerUnit' = MarkerUnit
         /\ MarkerInOutput' => MarkerInOutput /\ Head(output) # MarkerUnit
         /\ MarkerInOutput /\ ~ MarkerInOutput' => Head(output) = MarkerUnit
         /\ Head(output) = MarkerUnit => output' = <<>> /\ MarkerInOutput
<1>1. output \in Seq(Unit) /\ output # <<>> /\ phase = "reading" /\ output' = Tail(output)
  BY DEF Read, IInv, TypeInv
<1>2. /\ output' \in Seq(Unit)
      /\ Len(output) \in Nat /\ Len(output) >= 1 /\ Len(output') = Len(output) - 1
      /\ \A i \in 1 .. Len(output') : output'[i] = output[i + 1]
      /\ Head(output) = output[1] /\ Head(output) \in Unit
  BY <1>1, TailFacts
<1>3. MarkerUnit' = MarkerUnit
  BY ReadCases DEF MarkerUnit
<1>4. \A i \in 1 .. Len(output) : output[i] = MarkerUnit => i = Len(output)
  BY DEF IInv, MarkerInv
<1>5. Head(output) = MarkerUnit => output' = <<>> /\ MarkerInOutput
  <2> SUFFICES ASSUME Head(output) = MarkerUnit PROVE output' = <<>> /\ MarkerInOutput
    OBVIOUS
  <2>1. 1 \in 1 .. Len(output) /\ output[1] = MarkerUnit
    BY <1>2
  <2>2. Len(output') = 0
    BY <1>2, <1>4, <2>1
  <2> QED
    BY <1>2, <2>1, <2>2, EmptySeq DEF MarkerInOutput
<1>6. MarkerInOutput' => MarkerInOutput /\ Head(output) # MarkerUnit
  <2> SUFFICES ASSUME NEW i \in 1 .. Len(output'), output'[i] = MarkerUnit
               PROVE  MarkerInOutput /\ Head(output) # MarkerUnit
    BY <1>3 DEF MarkerInOutput
  <2>1. i + 1 \in 1 .. Len(output) /\ output[i + 1] = MarkerUnit
    BY <1>2
  <2>2. output[1] # MarkerUnit
    BY <1>2, <1>4, <2>1
  <2> QED
    BY <1>2, <2>1, <2>2 DEF MarkerInOutput
<1>7. MarkerInOutput /\ ~ MarkerInOutput' => Head(output) = MarkerUnit
  <2> SUFFICES ASSUME NEW i \in 1 .. Len(output), output[i] = MarkerUnit, i # 1
               PROVE  MarkerInOutput'
    BY <1>2 DEF MarkerInOutput
  <2>1. i - 1 \in 1 .. Len(output') /\ output'[i - 1] = output[(i - 1) + 1]
    BY <1>2
  <2>2. output'[i - 1] = MarkerUnit
    BY <1>2, <2>1
  <2> QED
    BY <1>3, <2>1, <2>2 DEF MarkerInOutput
<1> QED
  BY <1>1, <1>2, <1>3, <1>5, <1>6, <1>7

(* Reading moves a unit from output to line and to collected.              *)
LEMMA ReadKeepsOrder ==
  ASSUME IInv, Read, Head(output) # MarkerUnit
  PROVE  Got' = Got
<1>1. output \in Seq(Unit) /\ output # <<>> /\ output' = Tail(output) /\ Head(output) \in Unit
  BY OutputShrinks
<1>2. collected \in Seq(Unit) /\ line \in Seq(Unit)
  BY DEF IInv, TypeInv
<1>3. (collected \o Append(line, Head(output))) \o Tail(output) = (collected \o line) \o output
  BY <1>1, <1>2, Moving
<1>4. CASE line' = Append(line, Head(output)) /\ collected' = collected
  BY <1>1, <1>3, <1>4 DEF Got
<1>5. CASE line' = <<>> /\ collected' = collected \o Append(line, Head(output))
  <2>1. Append(line, Head(output)) \in Seq(Unit)
    BY <1>1, <1>2, AppendFacts
  <2>2. collected \o Append(line, Head(output)) \in Seq(Unit)
    BY <1>2, <2>1, ConcatProperties
  <2>3. collected' \o line' = collected \o Append(line, Head(output))
    BY <1>5, <2>2, ConcatEmptySeq
  <2> QED
    BY <1>1, <1>3, <2>3 DEF Got
<1> QED
  BY <1>4, <1>5, ReadCases DEF Kept

(* A unit is read, from the middle of a line, at its end, or the marker.   *)
LEMMA ReadInv ==
  ASSUME IInv, Read
  PROVE  IInv'
<1> DEFINE h == Head(output)
<1>1. UNCHANGED <<input, toWrite, shell, run, printed, dirty, fits>>
  BY ReadCases
<1>2. /\ output \in Seq(Unit) /\ phase = "reading"
      /\ output' \in Seq(Unit)
      /\ Len(output) \in Nat /\ Len(output') = Len(output) - 1
      /\ \A i \in 1 .. Len(output') : output'[i] = output[i + 1]
      /\ h \in Unit
      /\ MarkerUnit' = MarkerUnit
      /\ MarkerInOutput' => MarkerInOutput /\ h # MarkerUnit
      /\ MarkerInOutput /\ ~ MarkerInOutput' => h = MarkerUnit
      /\ h = MarkerUnit => output' = <<>> /\ MarkerInOutput
  BY OutputShrinks
<1>3. \/ /\ h.kind = "part" /\ line' = Append(line, h)
         /\ UNCHANGED <<collected, phase, outcome>>
      \/ /\ h = MarkerUnit
         /\ line' = <<>> /\ collected' = collected \o line
         /\ phase' = "idle" /\ outcome' = "ok"
      \/ h # MarkerUnit /\ Kept(Append(line, h))
  BY ReadCases
<1>4. h # MarkerUnit => Got' = Got
  BY ReadKeepsOrder
<1>5. h.kind = "part" => h # MarkerUnit
  BY DEF MarkerUnit
<1>6. collected \in Seq(Unit) /\ line \in Seq(Unit)
  BY DEF IInv, TypeInv
<1>7. /\ Append(line, h) \in Seq(Unit) /\ Len(line) \in Nat
      /\ Len(Append(line, h)) = Len(line) + 1
      /\ \A i \in 1 .. Len(line) + 1 : Append(line, h)[i] = IF i = Len(line) + 1 THEN h ELSE line[i]
  BY <1>2, <1>6, AppendFacts
<1> HIDE DEF h
<1>8. TypeInv'
  <2>1. collected \o line \in Seq(Unit) /\ collected \o Append(line, h) \in Seq(Unit)
    BY <1>6, <1>7, ConcatProperties
  <2>2. /\ line' \in Seq(Unit) /\ collected' \in Seq(Unit)
        /\ phase' \in {"idle", "reading"} /\ outcome' \in {"none", "ok", "overflow", "dead"}
    BY <1>2, <1>3, <1>6, <1>7, <2>1, EmptySeq DEF IInv, TypeInv, Kept
  <2> QED
    BY <1>1, <1>2, <2>2 DEF IInv, TypeInv
<1>9. LinesInv'
  <2>1. \A i \in 1 .. Len(line') : line'[i].kind = "part"
    BY <1>3, <1>7, EmptySeq DEF IInv, LinesInv, Kept
  <2> QED
    BY <1>1, <2>1 DEF IInv, LinesInv
<1>10. OrderInv'
  <2>1. \A i \in 1 .. Len(output') : output'[i].run <= run
    BY <1>2 DEF IInv, OrderInv
  <2> QED
    BY <1>1, <2>1 DEF IInv, OrderInv
<1>11. WritingInv'
  <2>1. phase' # "writing"
    BY <1>2, <1>3 DEF Kept
  <2> QED
    BY <1>1, <1>2, <2>1 DEF IInv, WritingInv
<1>12. MarkerInv'
  <2>1. (MarkerInInput' <=> MarkerInInput) /\ (MarkerInShell' <=> MarkerInShell)
    BY <1>1 DEF MarkerInInput, MarkerInShell, MarkerLine
  <2>2. \A i \in 1 .. Len(output') : output'[i] = MarkerUnit => i = Len(output')
    BY <1>2 DEF IInv, MarkerInv
  <2>3. MarkerLine' = MarkerLine
    BY <1>1 DEF MarkerLine
  <2> QED
    BY <1>1, <1>2, <2>1, <2>2, <2>3 DEF IInv, MarkerInv
<1>13. OutcomeInv'
  <2>1. outcome # "dead" /\ (outcome = "overflow" => dirty)
    BY <1>2 DEF IInv, OutcomeInv
  <2>2. CASE h = MarkerUnit
    <3>1. line' = <<>> /\ phase' = "idle" /\ outcome' = "ok"
      BY <1>3, <1>5, <2>2
    <3>2. input = <<>> /\ shell.line = NoLine /\ shell.at # "exited"
      BY <1>2, <2>2 DEF IInv, MarkerInv
    <3> QED
      BY <1>1, <1>2, <2>2, <3>1, <3>2 DEF OutcomeInv
  <2>3. CASE h # MarkerUnit
    BY <1>1, <1>2, <1>3, <2>1, <2>3 DEF OutcomeInv, Kept
  <2> QED
    BY <2>2, <2>3
(* What is in front of the marker is collected.                            *)
<1>14. h = MarkerUnit => Got = Append(collected', MarkerUnit)
  <2> SUFFICES ASSUME h = MarkerUnit PROVE Got = Append(collected', MarkerUnit)
    OBVIOUS
  <2>1. output = <<MarkerUnit>>
    <3>1. output = <<h>> \o <<>>
      BY <1>2, HeadThenTail, OutputShrinks DEF h
    <3>2. <<h>> \in Seq(Unit)
      BY <1>2
    <3> QED
      BY <3>1, <3>2, ConcatEmptySeq
  <2>2. collected' = collected \o line /\ collected \o line \in Seq(Unit)
    BY <1>3, <1>5, <1>6, ConcatProperties
  <2>3. (collected \o line) \o <<h>> = Append(collected \o line, h)
    BY <1>2, <2>2, AppendIsConcat
  <2> QED
    BY <2>1, <2>2, <2>3 DEF Got
<1>15. PrintedInv'
  <2>1. CASE h = MarkerUnit
    <3>1. phase' = "idle" /\ outcome' = "ok"
      BY <1>3, <1>5, <2>1
    <3>2. PICK s \in Seq(Unit) : Got = Append(s, MarkerUnit) /\ EndsWith(s, printed, run)
      BY <1>2, <2>1 DEF IInv, PrintedInv
    <3>3. Append(s, MarkerUnit) = Append(collected', MarkerUnit)
      BY <1>14, <2>1, <3>2
    <3>4. collected' \in Seq(Unit) /\ MarkerUnit \in Unit
      BY <1>2, <1>8, <2>1 DEF TypeInv
    <3>5. s = collected'
      BY <3>2, <3>3, <3>4, AppendInjective
    <3> QED
      BY <1>1, <3>1, <3>2, <3>5 DEF IInv, PrintedInv
  <2>2. CASE h # MarkerUnit
    <3>1. Got' = Got /\ (MarkerInOutput' <=> MarkerInOutput)
      BY <1>2, <1>4, <2>2
    <3>2. ~ (phase' = "idle" /\ outcome' = "ok")
      BY <1>2, <1>3, <2>2 DEF Kept
    <3> QED
      BY <1>1, <1>2, <3>1, <3>2 DEF IInv, PrintedInv
  <2> QED
    BY <2>1, <2>2
<1>16. CleanInv'
  <2>1. outcome # "dead"
    BY <1>2 DEF IInv, OutcomeInv
  <2>2. CASE h = MarkerUnit
    <3>1. phase' = "idle"
      BY <1>3, <1>5, <2>2
    <3>2. collected' \in Seq(Unit) /\ MarkerUnit \in Unit
      BY <1>2, <1>8, <2>2 DEF TypeInv
    <3>3. /\ Len(collected') \in Nat /\ Len(Got) = Len(collected') + 1
          /\ \A i \in 1 .. Len(collected') : Got[i] = collected'[i]
      BY <1>14, <2>2, <3>2, AppendFacts
    <3>4. ~ dirty => \A i \in 1 .. Len(collected') : collected'[i].run = run
      BY <1>2, <2>1, <3>3 DEF IInv, CleanInv
    <3> QED
      BY <1>1, <3>1, <3>4 DEF CleanInv
  <2>3. CASE h # MarkerUnit
    <3>1. Got' = Got
      BY <1>4, <2>3
    <3>2. ~ (phase' = "idle" /\ outcome' = "ok") /\ (phase' # "idle" => outcome' = outcome)
      BY <1>2, <1>3, <2>3 DEF Kept
    <3> QED
      BY <1>1, <1>2, <3>1, <3>2 DEF IInv, CleanInv
  <2> QED
    BY <2>2, <2>3
<1> QED
  BY <1>8, <1>9, <1>10, <1>11, <1>12, <1>13, <1>15, <1>16 DEF IInv

(* The shell is gone and the pipe read to its end.                         *)
LEMMA ReadEndInv ==
  ASSUME IInv, ReadEnd
  PROVE  IInv'
<1>1. /\ phase = "reading" /\ output = <<>> /\ shell.at = "exited" /\ line' = <<>>
      /\ UNCHANGED <<input, output, toWrite>>
  BY DEF ReadEnd
<1>2. /\ collected \in Seq(Unit) /\ line \in Seq(Unit)
      /\ \A i \in 1 .. Len(line) : line[i].kind = "part"
  BY DEF IInv, TypeInv, LinesInv
<1>3. /\ UNCHANGED <<shell, run, printed, dirty, fits>>
      /\ \/ Kept(line)
         \/ phase' = "idle" /\ outcome' = "dead" /\ collected' = collected
  <2>1. CASE line # <<>>
    <3>1. TakeLine(line)
      BY <2>1 DEF ReadEnd
    <3> QED
      BY <1>1, <1>2, <3>1, CompletionAtEnd, KeepLine
  <2>2. CASE line = <<>>
    BY <2>2 DEF ReadEnd, End
  <2> QED
    BY <2>1, <2>2
<1>4. Kept(line) => Got' = Got
  <2> SUFFICES ASSUME Kept(line) PROVE Got' = Got
    OBVIOUS
  <2>1. collected \o line \in Seq(Unit)
    BY <1>2, ConcatProperties
  <2>2. collected' \o line' = collected \o line
    BY <1>1, <2>1, ConcatEmptySeq DEF Kept
  <2> QED
    BY <1>1, <2>2 DEF Got
<1>5. TypeInv'
  <2>1. collected' \in Seq(Unit) /\ line' \in Seq(Unit)
    BY <1>1, <1>2, <1>3, ConcatProperties, EmptySeq DEF Kept
  <2> QED
    BY <1>1, <1>3, <2>1 DEF IInv, TypeInv, Kept
<1>6. LinesInv' /\ OrderInv'
  BY <1>1, <1>3, EmptySeq DEF IInv, LinesInv, OrderInv
<1>7. WritingInv'
  BY <1>1, <1>3 DEF IInv, WritingInv, Kept
<1>8. /\ MarkerInInput' <=> MarkerInInput
      /\ MarkerInShell' <=> MarkerInShell
      /\ MarkerInOutput' <=> MarkerInOutput
      /\ MarkerLine' = MarkerLine /\ MarkerUnit' = MarkerUnit
  BY <1>1, <1>3 DEF MarkerInInput, MarkerInShell, MarkerInOutput, MarkerLine, MarkerUnit
<1>9. MarkerInv'
  BY <1>1, <1>3, <1>8 DEF IInv, MarkerInv
<1>10. OutcomeInv'
  BY <1>1, <1>3 DEF IInv, OutcomeInv, Kept
<1>11. PrintedInv'
  BY <1>1, <1>3, <1>4, <1>8 DEF IInv, PrintedInv, OutcomeInv, Kept
<1>12. CleanInv'
  BY <1>1, <1>3, <1>4 DEF IInv, CleanInv, OutcomeInv, Kept
<1> QED
  BY <1>5, <1>6, <1>7, <1>9, <1>10, <1>11, <1>12 DEF IInv

(* The shell takes its next line.                                          *)
LEMMA ShellReadInv ==
  ASSUME IInv, ShellRead
  PROVE  IInv'
<1> DEFINE next == Head(input)
<1>1. /\ shell.at = "reading" /\ input # <<>>
      /\ shell' = [at |-> "running", run |-> next.run, line |-> next.line]
      /\ input' = Tail(input)
      /\ UNCHANGED <<output, printed, phase, run, toWrite, line, collected, outcome, dirty, fits>>
  BY DEF ShellRead, host
<1>2. /\ input \in Seq(Entry) /\ next \in Entry /\ next = input[1]
      /\ Len(input) \in Nat /\ Len(input) >= 1
      /\ input' \in Seq(Entry) /\ Len(input') = Len(input) - 1
      /\ \A i \in 1 .. Len(input') : input'[i] = input[i + 1]
  BY <1>1, TailFacts DEF IInv, TypeInv
<1> HIDE DEF next
<1>3. shell'.at = "running" /\ shell'.run = next.run /\ shell'.line = next.line
  BY <1>1
<1>4. TypeInv'
  BY <1>1, <1>2 DEF IInv, TypeInv, Entry
<1>5. LinesInv'
  <2>1. Honest(shell'.line)
    BY <1>2, <1>3 DEF IInv, LinesInv
  <2>2. \A i \in 1 .. Len(input') : Honest(input'[i].line)
    BY <1>2 DEF IInv, LinesInv
  <2> QED
    BY <1>1, <1>3, <2>1, <2>2 DEF IInv, LinesInv
<1>6. OrderInv'
  <2>1. 1 \in 1 .. Len(input) /\ next = input[1]
    BY <1>2
  <2>2. shell.run <= next.run /\ next.run <= run
    BY <2>1 DEF IInv, OrderInv
  <2>3. \A i \in 1 .. Len(input') : next.run <= input'[i].run /\ input'[i].run <= run
    BY <1>2, <2>1 DEF IInv, OrderInv
  <2>4. \A i, j \in 1 .. Len(input') : i <= j => input'[i].run <= input'[j].run
    <3> SUFFICES ASSUME NEW i \in 1 .. Len(input'), NEW j \in 1 .. Len(input'), i <= j
                 PROVE  input'[i].run <= input'[j].run
      OBVIOUS
    <3>1. i + 1 \in 1 .. Len(input) /\ j + 1 \in 1 .. Len(input) /\ i + 1 <= j + 1
      BY <1>2
    <3> QED
      BY <1>2, <3>1 DEF IInv, OrderInv
  <2> QED
    BY <1>1, <1>3, <2>2, <2>3, <2>4 DEF IInv, OrderInv
<1>7. /\ MarkerInOutput' <=> MarkerInOutput
      /\ MarkerLine' = MarkerLine /\ MarkerUnit' = MarkerUnit
  BY <1>1 DEF MarkerInOutput, MarkerLine, MarkerUnit
<1>8. next \in Entry /\ (MarkerInShell' <=> next = MarkerLine)
  BY <1>1, <1>2, <1>3 DEF MarkerInShell, MarkerLine, Entry
(* The marker moves from input to shell as its last line.                  *)
<1>9. MarkerInShell' => MarkerInInput /\ input' = <<>>
  <2> SUFFICES ASSUME next = MarkerLine PROVE MarkerInInput /\ input' = <<>>
    BY <1>8
  <2>1. 1 \in 1 .. Len(input) /\ input[1] = MarkerLine
    BY <1>2
  <2>2. 1 = Len(input)
    BY <2>1 DEF IInv, MarkerInv
  <2>3. input' = <<>>
    BY <1>2, <2>2, EmptySeq
  <2> QED
    BY <2>1, <2>3 DEF MarkerInInput
<1>10. MarkerInInput' => MarkerInInput
  <2> SUFFICES ASSUME NEW i \in 1 .. Len(input'), input'[i] = MarkerLine PROVE MarkerInInput
    BY <1>7 DEF MarkerInInput
  <2>1. i + 1 \in 1 .. Len(input) /\ input[i + 1] = MarkerLine
    BY <1>2
  <2> QED
    BY <2>1 DEF MarkerInInput
<1>11. ~ MarkerInOutput
  BY <1>1 DEF IInv, MarkerInv
<1>12. WritingInv'
  BY <1>1, <1>7, <1>9, <1>10, <1>11 DEF IInv, WritingInv
<1>13. MarkerInv'
  <2>1. \A i \in 1 .. Len(input') : input'[i] = MarkerLine => i = Len(input')
    <3> SUFFICES ASSUME NEW i \in 1 .. Len(input'), input'[i] = MarkerLine PROVE i = Len(input')
      OBVIOUS
    <3>1. i + 1 \in 1 .. Len(input) /\ input[i + 1] = MarkerLine
      BY <1>2
    <3>2. i + 1 = Len(input)
      BY <3>1 DEF IInv, MarkerInv
    <3> QED
      BY <1>2, <3>2
  <2>2. MarkerInInput' => ~ MarkerInShell'
    BY <1>9, EmptySeq DEF MarkerInInput
  <2>3. \A i \in 1 .. Len(output') : output'[i] # MarkerUnit
    BY <1>1, <1>11 DEF MarkerInOutput
  <2> QED
    BY <1>7, <1>9, <1>11, <2>1, <2>2, <2>3 DEF MarkerInv
<1>14. OutcomeInv'
  BY <1>1 DEF IInv, OutcomeInv
<1>15. PrintedInv'
  <2>1. shell.run <= next.run /\ next.run <= run
    <3>1. 1 \in 1 .. Len(input) /\ next = input[1]
      BY <1>2
    <3> QED
      BY <3>1 DEF IInv, OrderInv
  <2>2. next.run \in Nat /\ run \in Nat /\ shell.run \in Nat /\ shell.run <= run
    BY <1>2 DEF IInv, TypeInv, Entry, OrderInv
  <2>3. next.run # run => printed = <<>>
    BY <2>1, <2>2 DEF IInv, PrintedInv
  <2>4. Got' = Got
    BY <1>1 DEF Got
  <2> QED
    BY <1>1, <1>3, <1>7, <2>3, <2>4 DEF IInv, PrintedInv
<1>16. CleanInv'
  <2>1. 1 \in 1 .. Len(input) /\ next = input[1]
    BY <1>2
  <2>2. \A i \in 1 .. Len(input') : i + 1 \in 1 .. Len(input)
    BY <1>2
  <2>3. Got' = Got
    BY <1>1 DEF Got
  <2> QED
    BY <1>1, <1>2, <1>3, <2>1, <2>2, <2>3 DEF IInv, CleanInv
<1> QED
  BY <1>4, <1>5, <1>6, <1>12, <1>13, <1>14, <1>15, <1>16 DEF IInv

(* The shell prints a unit of its line.                                    *)
LEMMA ShellPrintInv ==
  ASSUME IInv, ShellPrint
  PROVE  IInv'
<1> DEFINE kind == Head(shell.line.prints)
           unit == [run |-> shell.run, kind |-> kind]
           own == unit.run = run /\ unit.kind # "marker"
<1>1. /\ shell.at = "running" /\ shell.line.prints # <<>>
      /\ output' = Append(output, unit)
      /\ printed' = IF own THEN Append(printed, unit) ELSE printed
      /\ shell' = [shell EXCEPT !.line.prints = Tail(@)]
      /\ UNCHANGED <<input, phase, run, toWrite, line, collected, outcome, dirty, fits>>
  BY DEF ShellPrint, host
<1>2. /\ shell \in [at : {"reading", "running", "exited"}, run : Nat, line : Lines]
      /\ shell.line.prints \in Seq(Kinds) /\ run \in Nat
      /\ output \in Seq(Unit) /\ printed \in Seq(Unit)
  BY DEF IInv, TypeInv, Lines
<1>3. /\ kind \in Kinds /\ kind = shell.line.prints[1]
      /\ Len(shell.line.prints) \in Nat /\ Len(shell.line.prints) >= 1
      /\ Tail(shell.line.prints) \in Seq(Kinds)
      /\ Len(Tail(shell.line.prints)) = Len(shell.line.prints) - 1
      /\ \A i \in 1 .. Len(shell.line.prints) - 1 :
           Tail(shell.line.prints)[i] = shell.line.prints[i + 1]
  BY <1>1, <1>2, TailFacts
<1>4. unit \in Unit /\ unit.run = shell.run /\ unit.kind = kind
  BY <1>2, <1>3 DEF Unit
<1>5. /\ shell' \in [at : {"reading", "running", "exited"}, run : Nat, line : Lines]
      /\ shell'.at = "running" /\ shell'.run = shell.run
      /\ shell'.line = [prints |-> Tail(shell.line.prints), then |-> shell.line.then]
  BY <1>1, <1>2, <1>3 DEF Lines
<1>6. /\ output' \in Seq(Unit) /\ Len(output) \in Nat /\ Len(output') = Len(output) + 1
      /\ \A i \in 1 .. Len(output) + 1 :
           output'[i] = IF i = Len(output) + 1 THEN unit ELSE output[i]
  BY <1>1, <1>2, <1>4, AppendFacts
<1>7. printed' = IF unit.run = run /\ unit.kind # "marker" THEN Append(printed, unit) ELSE printed
  BY <1>1
<1>8. output' = Append(output, unit)
  BY <1>1
<1> HIDE DEF kind, unit, own
<1>9. shell.line # NoLine
  BY <1>1, MarkerFacts
<1>10. ~ MarkerInOutput
  BY <1>9 DEF IInv, MarkerInv
<1>11. Honest(shell.line)
  BY DEF IInv, LinesInv
<1>12. 1 \in 1 .. Len(shell.line.prints)
  BY <1>3
(* Only the last unit of the marker's line is the marker.                  *)
<1>13. shell.line = Marker <=> kind = "marker"
  <2>1. ASSUME shell.line = Marker PROVE kind = "marker"
    BY <1>3, <2>1 DEF Marker
  <2>2. ASSUME kind = "marker" PROVE shell.line = Marker
    BY <1>3, <1>11, <1>12, <2>2 DEF Honest
  <2> QED
    BY <2>1, <2>2
<1>14. \A i \in 1 .. Len(shell'.line.prints) : shell'.line.prints[i] # "marker"
  <2> SUFFICES ASSUME NEW i \in 1 .. Len(Tail(shell.line.prints)),
                      Tail(shell.line.prints)[i] = "marker"
               PROVE  FALSE
    BY <1>5
  <2>1. i + 1 \in 1 .. Len(shell.line.prints) /\ shell.line.prints[i + 1] = "marker"
    BY <1>3
  <2>2. shell.line = Marker
    BY <1>11, <2>1 DEF Honest
  <2>3. Len(shell.line.prints) = 1
    BY <2>2 DEF Marker
  <2> QED
    BY <1>3, <2>1, <2>3
<1>15. Honest(shell'.line)
  BY <1>14 DEF Honest
<1>16. ~ MarkerInShell'
  <2>1. Len(Marker.prints) = 1 /\ Marker.prints[1] = "marker"
    BY DEF Marker
  <2> QED
    BY <1>14, <2>1 DEF MarkerInShell
<1>17. shell.line = Marker => shell'.line = NoLine
  <2> SUFFICES ASSUME shell.line = Marker PROVE shell'.line = NoLine
    OBVIOUS
  <2>1. Len(shell.line.prints) = 1 /\ shell.line.then = "next"
    BY DEF Marker
  <2>2. Tail(shell.line.prints) = <<>>
    BY <1>2, <2>1, TailOfOne
  <2> QED
    BY <1>5, <2>1, <2>2 DEF NoLine
<1>18. unit = MarkerUnit <=> MarkerInShell
  BY <1>4, <1>13 DEF MarkerUnit, MarkerInShell, Unit
<1>19. MarkerUnit' = MarkerUnit /\ MarkerLine' = MarkerLine /\ (MarkerInInput' <=> MarkerInInput)
  BY <1>1 DEF MarkerUnit, MarkerLine, MarkerInInput
<1>20. /\ MarkerInOutput' <=> unit = MarkerUnit
       /\ \A i \in 1 .. Len(output') : output'[i] = MarkerUnit => i = Len(output')
  BY <1>6, <1>10, <1>19 DEF MarkerInOutput
<1>21. TypeInv'
  <2>1. printed' \in Seq(Unit)
    BY <1>2, <1>4, <1>7, AppendFacts
  <2> QED
    BY <1>1, <1>5, <1>6, <2>1 DEF IInv, TypeInv
<1>22. LinesInv'
  BY <1>1, <1>5, <1>15 DEF IInv, LinesInv
<1>23. OrderInv'
  <2>1. \A i \in 1 .. Len(output') : output'[i].run <= run
    BY <1>4, <1>6 DEF IInv, OrderInv
  <2> QED
    BY <1>1, <1>5, <2>1 DEF IInv, OrderInv
<1>24. WritingInv'
  BY <1>1, <1>16, <1>18, <1>19, <1>20 DEF IInv, WritingInv
<1>25. MarkerInv'
  <2>1. MarkerInShell => input = <<>> /\ ~ MarkerInInput /\ shell.line = Marker
    BY DEF IInv, MarkerInv, MarkerInShell
  <2>2. MarkerInOutput' => input' = <<>> /\ ~ MarkerInInput' /\ shell'.line = NoLine
    BY <1>1, <1>17, <1>18, <1>19, <1>20, <2>1
  <2>3. \A i \in 1 .. Len(input') : input'[i] = MarkerLine => i = Len(input')
    BY <1>1 DEF IInv, MarkerInv
  <2> QED
    BY <1>5, <1>16, <1>19, <1>20, <2>2, <2>3 DEF MarkerInv
<1>26. ~ (phase = "idle" /\ outcome \in {"none", "ok"}) /\ outcome # "dead"
  BY <1>1, <1>9 DEF IInv, OutcomeInv
<1>27. OutcomeInv'
  BY <1>1, <1>26 DEF IInv, OutcomeInv
<1>28. Got' = Append(Got, unit) /\ Got \in Seq(Unit)
  <2>1. collected \o line \in Seq(Unit) /\ Got \in Seq(Unit)
    BY ConcatProperties DEF IInv, TypeInv, Got
  <2>2. (collected \o line) \o Append(output, unit) = Append((collected \o line) \o output, unit)
    BY <1>2, <1>4, <2>1, AppendBehind, SMTT(30)
  <2> QED
    BY <1>1, <1>8, <2>1, <2>2 DEF Got
<1>29. PrintedInv'
  <2>1. CASE unit = MarkerUnit
    <3>1. printed' = printed
      BY <1>7, <2>1 DEF MarkerUnit
    <3>2. shell.run = run
      BY <1>18, <2>1 DEF MarkerInShell
    <3>3. phase # "idle" => EndsWith(Got, printed, run)
      BY <1>10 DEF IInv, PrintedInv
    <3> QED
      BY <1>1, <1>5, <1>19, <1>20, <1>26, <1>28, <2>1, <3>1, <3>2, <3>3 DEF IInv, PrintedInv
  <2>2. CASE unit # MarkerUnit /\ shell.run = run
    <3>1. printed' = Append(printed, unit)
      BY <1>4, <1>7, <2>2 DEF MarkerUnit, Unit
    <3>2. \A i \in 1 .. Len(printed') : printed'[i].run = run
      BY <1>2, <1>4, <2>2, <3>1, AppendFacts DEF IInv, PrintedInv
    <3>3. phase # "idle" => EndsWith(Got, printed, run)
      BY <1>10 DEF IInv, PrintedInv
    <3>4. phase # "idle" => EndsWith(Got', printed', run)
      BY <1>2, <1>4, <1>28, <3>1, <3>3, EndsWithOneMore
    <3> QED
      BY <1>1, <1>5, <1>20, <1>26, <2>2, <3>2, <3>4 DEF PrintedInv
  <2>3. CASE shell.run # run
    <3>1. printed' = <<>> /\ printed = <<>>
      BY <1>4, <1>7, <2>3 DEF IInv, PrintedInv
    <3>2. unit # MarkerUnit
      BY <1>4, <2>3 DEF MarkerUnit
    <3>3. phase # "idle" => EndsWith(Got, <<>>, run)
      BY <1>10, <3>1 DEF IInv, PrintedInv
    <3>4. phase # "idle" => EndsWith(Got', <<>>, run)
      BY <1>4, <1>28, <2>3, <3>3, EndsWithStillNothing
    <3> QED
      BY <1>1, <1>20, <1>26, <3>1, <3>2, <3>4 DEF PrintedInv
  <2> QED
    BY <2>1, <2>2, <2>3
<1>30. CleanInv'
  <2>1. phase # "idle" /\ ~ dirty => shell.run = run
    BY <1>9, <1>26 DEF IInv, CleanInv
  <2>2. phase # "idle" /\ ~ dirty => \A i \in 1 .. Len(Got') : Got'[i].run = run
    BY <1>4, <1>26, <1>28, <2>1, AppendFacts DEF IInv, CleanInv
  <2> QED
    BY <1>1, <1>5, <1>26, <2>1, <2>2 DEF IInv, CleanInv
<1> QED
  BY <1>21, <1>22, <1>23, <1>24, <1>25, <1>27, <1>29, <1>30 DEF IInv

(* The shell is done with its line: it goes on, exits, or swallows the     *)
(* next one.                                                               *)
LEMMA ShellNextInv ==
  ASSUME IInv, ShellNext
  PROVE  IInv'
<1>1. /\ shell.at = "running" /\ shell.line.prints = <<>>
      /\ UNCHANGED <<output, printed, phase, run, toWrite, line, collected, outcome, dirty, fits>>
  BY DEF ShellNext, host
<1>2. /\ shell \in [at : {"reading", "running", "exited"}, run : Nat, line : Lines]
      /\ input \in Seq(Entry) /\ Honest(shell.line)
  BY DEF IInv, TypeInv, LinesInv
(* The shell keeps its line, or an empty one; input loses lines in front.  *)
<1>3. /\ shell' \in [at : {"reading", "running", "exited"}, run : Nat, line : Lines]
      /\ shell'.at # "running" /\ shell'.run = shell.run /\ shell'.line.prints = <<>>
      /\ shell'.line = shell.line \/ shell'.line = NoLine
      /\ shell.line = NoLine => shell'.at # "exited"
  <2>1. NoLine \in Lines /\ NoLine.prints = <<>> /\ NoLine.then = "next"
    BY MarkerFacts DEF NoLine
  <2>2. CASE shell' = [shell EXCEPT !.at = "reading"]
    BY <1>1, <1>2, <2>2
  <2>3. CASE shell.line.then = "exit" /\ shell' = [shell EXCEPT !.at = "exited"]
    BY <1>1, <1>2, <2>1, <2>3
  <2>4. CASE shell' = [shell EXCEPT !.at = "reading", !.line = NoLine]
    BY <1>1, <1>2, <2>1, <2>4
  <2> QED
    BY <2>2, <2>3, <2>4 DEF ShellNext
<1>4. input' = input \/ input' = <<>> \/ (input # <<>> /\ input' = Tail(input))
  BY DEF ShellNext
<1>5. PICK k \in Nat :
        /\ input' \in Seq(Entry) /\ Len(input') \in Nat /\ Len(input) \in Nat
        /\ Len(input') = 0 \/ Len(input') + k = Len(input)
        /\ \A i \in 1 .. Len(input') : input'[i] = input[i + k] /\ i + k \in 1 .. Len(input)
  <2>1. Len(input) \in Nat
    BY <1>2, LenProperties
  <2>2. CASE input' = input
    <3>1. /\ Len(input') + 0 = Len(input)
          /\ \A i \in 1 .. Len(input') : input'[i] = input[i + 0] /\ i + 0 \in 1 .. Len(input)
      BY <2>1, <2>2
    <3> QED
      BY <1>2, <2>1, <2>2, <3>1
  <2>3. CASE input' = <<>>
    BY <2>1, <2>3, EmptySeq
  <2>4. CASE input # <<>> /\ input' = Tail(input)
    <3>1. /\ input' \in Seq(Entry) /\ Len(input') = Len(input) - 1 /\ Len(input) >= 1
          /\ \A i \in 1 .. Len(input) - 1 : input'[i] = input[i + 1]
      BY <1>2, <2>4, TailFacts
    <3>2. \A i \in 1 .. Len(input') : input'[i] = input[i + 1] /\ i + 1 \in 1 .. Len(input)
      BY <2>1, <3>1
    <3> QED
      BY <2>1, <3>1, <3>2
  <2> QED
    BY <1>4, <2>2, <2>3, <2>4
<1>6. input = <<>> => input' = <<>>
  BY <1>4
<1>7. TypeInv'
  BY <1>1, <1>3, <1>5 DEF IInv, TypeInv
<1>8. LinesInv'
  <2>1. Honest(shell'.line)
    BY <1>2, <1>3, MarkerFacts
  <2>2. \A i \in 1 .. Len(input') : Honest(input'[i].line)
    BY <1>5 DEF IInv, LinesInv
  <2> QED
    BY <1>1, <1>3, <2>1, <2>2 DEF IInv, LinesInv
<1>9. OrderInv'
  <2>1. \A i \in 1 .. Len(input') : shell.run <= input'[i].run /\ input'[i].run <= run
    BY <1>5 DEF IInv, OrderInv
  <2>2. \A i, j \in 1 .. Len(input') : i <= j => input'[i].run <= input'[j].run
    <3> SUFFICES ASSUME NEW i \in 1 .. Len(input'), NEW j \in 1 .. Len(input'), i <= j
                 PROVE  input'[i].run <= input'[j].run
      OBVIOUS
    <3>1. i + k \in 1 .. Len(input) /\ j + k \in 1 .. Len(input) /\ i + k <= j + k
      BY <1>5
    <3>2. input[i + k].run <= input[j + k].run
      BY <3>1 DEF IInv, OrderInv
    <3> QED
      BY <1>5, <3>2
  <2> QED
    BY <1>1, <1>3, <2>1, <2>2 DEF IInv, OrderInv
<1>10. /\ MarkerLine' = MarkerLine /\ MarkerUnit' = MarkerUnit
       /\ MarkerInOutput' <=> MarkerInOutput
  BY <1>1 DEF MarkerLine, MarkerUnit, MarkerInOutput
<1>11. ~ MarkerInShell'
  <2>1. Marker.prints # <<>>
    BY DEF Marker
  <2> QED
    BY <1>3, <2>1 DEF MarkerInShell
<1>12. MarkerInInput' => MarkerInInput
  BY <1>5, <1>10 DEF MarkerInInput
<1>13. \A i \in 1 .. Len(input') : input'[i] = MarkerLine => i = Len(input')
  <2> SUFFICES ASSUME NEW i \in 1 .. Len(input'), input'[i] = MarkerLine PROVE i = Len(input')
    OBVIOUS
  <2>1. i + k \in 1 .. Len(input) /\ input[i + k] = MarkerLine
    BY <1>5
  <2>2. i + k = Len(input)
    BY <2>1 DEF IInv, MarkerInv
  <2> QED
    BY <1>5, <2>2
<1>14. WritingInv'
  BY <1>1, <1>10, <1>11, <1>12 DEF IInv, WritingInv
<1>15. MarkerInv'
  <2>1. MarkerInOutput => input' = <<>> /\ shell'.line = NoLine /\ shell'.at # "exited"
    BY <1>3, <1>6 DEF IInv, MarkerInv
  <2>2. MarkerInInput' => ~ MarkerInOutput
    BY <1>12 DEF IInv, MarkerInv
  <2>3. \A i \in 1 .. Len(output') : output'[i] = MarkerUnit => i = Len(output')
    BY <1>1 DEF IInv, MarkerInv
  <2> QED
    BY <1>10, <1>11, <1>13, <2>1, <2>2, <2>3 DEF MarkerInv
<1>16. OutcomeInv'
  BY <1>1, <1>3, <1>6 DEF IInv, OutcomeInv
<1>17. Got' = Got
  BY <1>1 DEF Got
<1>18. PrintedInv'
  BY <1>1, <1>3, <1>10, <1>17 DEF IInv, PrintedInv
<1>19. CleanInv'
  BY <1>1, <1>3, <1>5, <1>17 DEF IInv, CleanInv
<1> QED
  BY <1>7, <1>8, <1>9, <1>14, <1>15, <1>16, <1>18, <1>19 DEF IInv

(* Every step keeps the invariant.                                         *)
LEMMA StepInv == IInv /\ [Next]_vars => IInv'
<1> SUFFICES ASSUME IInv, [Next]_vars PROVE IInv'
  OBVIOUS
<1>1. ASSUME NEW c \in Commands, Start(c) PROVE IInv'
  BY <1>1, StartInv
<1>2. CASE HostStep
  BY <1>2, WriteInv, WriteFailsInv, ReadInv, ReadEndInv DEF HostStep
<1>3. CASE ShellStep
  BY <1>3, ShellReadInv, ShellPrintInv, ShellNextInv DEF ShellStep
<1>4. CASE UNCHANGED vars
  <2>1. /\ MarkerInInput' <=> MarkerInInput
        /\ MarkerInShell' <=> MarkerInShell
        /\ MarkerInOutput' <=> MarkerInOutput
        /\ MarkerLine' = MarkerLine /\ MarkerUnit' = MarkerUnit /\ Got' = Got
    BY <1>4 DEF vars, host, MarkerInInput, MarkerInShell, MarkerInOutput, MarkerLine, MarkerUnit, Got
  <2>2. TypeInv' /\ LinesInv' /\ OrderInv' /\ OutcomeInv'
    BY <1>4 DEF vars, host, IInv, TypeInv, LinesInv, OrderInv, OutcomeInv
  <2>3. WritingInv' /\ MarkerInv' /\ PrintedInv' /\ CleanInv'
    BY <1>4, <2>1 DEF vars, host, IInv, WritingInv, MarkerInv, PrintedInv, CleanInv
  <2> QED
    BY <2>2, <2>3 DEF IInv
<1> QED
  BY <1>1, <1>2, <1>3, <1>4 DEF Next
-----------------------------------------------------------------------------
(* The theorems.                                                           *)

(* The invariant on which the theorems rest (server.rs:216-286).           *)
THEOREM Invariant == Spec => []IInv
BY InitInv, StepInv, PTL DEF Spec

(* Every variable of the shell and of run keeps its type (server.rs:216-   *)
(* 262): whatever is in the pipes is an input line or a unit of output.    *)
THEOREM ShellTypeCorrect == Spec => []TypeInv
<1>1. IInv => TypeInv
  BY DEF IInv
<1> QED
  BY <1>1, Invariant, PTL

(* s is other output and then own, by position.                            *)
LEMMA EndsWithByPosition ==
  ASSUME NEW s \in Seq(Unit), NEW own \in Seq(Unit), NEW r, EndsWith(s, own, r)
  PROVE  \E k \in 0 .. Len(s) :
           /\ \A i \in 1 .. k : s[i].run # r
           /\ SubSeq(s, k + 1, Len(s)) = own
<1>1. PICK others \in Seq(Unit) :
        s = others \o own /\ \A i \in 1 .. Len(others) : others[i].run # r
  BY DEF EndsWith
<1>2. Len(others) \in Nat /\ Len(own) \in Nat /\ Len(s) = Len(others) + Len(own)
  BY <1>1, LenProperties, ConcatProperties
<1>3. \A i \in 1 .. Len(s) : s[i] = IF i <= Len(others) THEN others[i] ELSE own[i - Len(others)]
  BY <1>1, <1>2, ConcatProperties
<1> DEFINE end == SubSeq(s, Len(others) + 1, Len(s))
<1>4. /\ end \in Seq(Unit) /\ Len(end) = Len(own)
      /\ \A i \in 1 .. Len(own) : end[i] = s[Len(others) + i]
  <2>1. \A i \in Len(others) + 1 .. Len(s) : s[i] \in Unit
    BY <1>2, ElementOfSeq
  <2>2. /\ end \in Seq(Unit)
        /\ Len(end) = IF Len(others) + 1 <= Len(s) THEN Len(s) - (Len(others) + 1) + 1 ELSE 0
        /\ \A i \in 1 .. Len(s) - (Len(others) + 1) + 1 : end[i] = s[(Len(others) + 1) + i - 1]
    BY <1>2, <2>1, SubSeqProperties
  <2> HIDE DEF end
  <2>3. Len(end) = Len(own)
    BY <1>2, <2>2
  <2>4. ASSUME NEW i \in 1 .. Len(own) PROVE end[i] = s[Len(others) + i]
    <3>1. /\ i \in 1 .. Len(s) - (Len(others) + 1) + 1
          /\ (Len(others) + 1) + i - 1 = Len(others) + i
      BY <1>2
    <3> QED
      BY <2>2, <3>1
  <2> QED
    BY <2>2, <2>3, <2>4
<1> HIDE DEF end
<1>5. ASSUME NEW i \in 1 .. Len(own) PROVE end[i] = own[i]
  <2>1. /\ Len(others) + i \in 1 .. Len(s) /\ ~ Len(others) + i <= Len(others)
        /\ (Len(others) + i) - Len(others) = i
    BY <1>2
  <2>2. s[Len(others) + i] = own[i]
    BY <1>3, <2>1
  <2> QED
    BY <1>4, <2>2
<1>6. end = own
  BY <1>4, <1>5, SeqEqual
<1>7. \A i \in 1 .. Len(others) : s[i].run # r
  BY <1>1, <1>2, <1>3
<1>8. Len(others) \in 0 .. Len(s)
  BY <1>2
<1>9. SubSeq(s, Len(others) + 1, Len(s)) = own
  BY <1>6 DEF end
<1> QED
  BY <1>7, <1>8, <1>9

(* A run that succeeds returns what its command has printed, all of it, in *)
(* order, and behind other output only after an overflow: read_until and   *)
(* the search for the marker in run neither stop early nor mix two runs    *)
(* (server.rs:240-262, 272-286).                                           *)
THEOREM RunsReturnTheirOutput == Spec => []ResultIsComplete
<1>1. ASSUME IInv PROVE ResultIsComplete
  <2> SUFFICES ASSUME phase = "idle", outcome = "ok"
               PROVE  \E leftovers \in 0 .. Len(collected) :
                        /\ \A i \in 1 .. leftovers : collected[i].run # run
                        /\ SubSeq(collected, leftovers + 1, Len(collected)) = printed
                        /\ leftovers > 0 => dirty
    BY DEF ResultIsComplete
  <2>1. collected \in Seq(Unit) /\ printed \in Seq(Unit) /\ Len(collected) \in Nat
    BY <1>1, LenProperties DEF IInv, TypeInv
  <2>2. EndsWith(collected, printed, run)
    BY <1>1 DEF IInv, PrintedInv
  <2>3. PICK k \in 0 .. Len(collected) :
          /\ \A i \in 1 .. k : collected[i].run # run
          /\ SubSeq(collected, k + 1, Len(collected)) = printed
    BY <2>1, <2>2, EndsWithByPosition
  <2>4. k > 0 => dirty
    <3> SUFFICES ASSUME k > 0, ~ dirty PROVE FALSE
      OBVIOUS
    <3>1. 1 \in 1 .. k /\ 1 \in 1 .. Len(collected)
      BY <2>1
    <3> QED
      BY <1>1, <2>3, <3>1 DEF IInv, CleanInv
  <2> QED
    BY <2>3, <2>4
<1> QED
  BY <1>1, Invariant, PTL

(* A run that succeeds leaves both pipes empty and the shell waiting for   *)
(* the next line, whatever earlier runs had left in them (server.rs:       *)
(* 240-262).                                                               *)
THEOREM SuccessesLeaveNothing == Spec => []SuccessLeavesNothing
<1>1. IInv => SuccessLeavesNothing
  BY MarkerFacts DEF IInv, OutcomeInv, SuccessLeavesNothing
<1> QED
  BY <1>1, Invariant, PTL
=============================================================================
