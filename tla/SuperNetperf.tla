---------------------------- MODULE SuperNetperf ----------------------------
(***************************************************************************)
(* containers/super-netperf in the client pod: one netperf process per     *)
(* stream, each writing a file of /tmp, and a report that adds up the      *)
(* files.  The pod outlives a test, a rerun of a test and, without         *)
(* --clean, a run of k8s-netperf; so does /tmp.                            *)
(*                                                                         *)
(* The driver calls the script in a terminal (pkg/drivers/netperf.go       *)
(* 142-169): when the connection is lost, script and streams are hung up.  *)
(***************************************************************************)
EXTENDS Integers, FiniteSets, FiniteSetsExt

CONSTANTS
  MaxStreams,   \* bound: config.Parallelism
  MaxScripts,   \* bound: calls of the script in one pod
  MaxCuts       \* bound: calls whose connection is lost

ASSUME BoundsAssumption == MaxStreams \in Nat \ {0} /\ MaxScripts \in Nat /\ MaxCuts \in Nat

VARIABLES
  pc,        \* where the script is
  gen,       \* history: the number of calls so far
  loops,     \* its argument: nc.Parallelism
  i,         \* the streams it has started
  running,   \* the ones that have not ended
  tmp,       \* /tmp/result-*: nothing, an empty file, or the report of a stream
  todo,      \* the files of process_netperf's loop not read yet
  counted,   \* the reports added up so far
  blank,     \* tp and l are empty strings: a file had no figure
  cuts,      \* history: the calls that were cut off
  leftover   \* history: streams of calls cut off since the last complete one

vars == << pc, gen, loops, i, running, tmp, todo, counted, blank, cuts, leftover >>

Streams == 0 .. MaxStreams - 1
Absent  == << 0, 0 >>
Empty   == << 0, 1 >>

Init ==
  /\ pc = "idle" /\ gen = 0 /\ loops = 0 /\ i = 0
  /\ running = {}
  /\ tmp = [s \in Streams |-> Absent]
  /\ todo = {} /\ counted = {} /\ blank = FALSE
  /\ cuts = 0 /\ leftover = 0

\* Run: a test, the rerun of one, or the first test of a later run.
Call ==
  /\ pc = "idle" /\ gen < MaxScripts
  /\ loops' \in 1 .. MaxStreams
  /\ gen' = gen + 1
  /\ i' = 0 /\ running' = {} /\ todo' = {} /\ counted' = {} /\ blank' = FALSE
  /\ pc' = "start"
  /\ UNCHANGED << tmp, cuts, leftover >>

\* Mutant: <= for <.
StartStreamOneMore ==
  /\ pc = "start" /\ i <= loops /\ i < MaxStreams
  /\ tmp' = [tmp EXCEPT ![i] = Empty]
  /\ running' = running \cup {i}
  /\ i' = i + 1
  /\ UNCHANGED << pc, gen, loops, todo, counted, blank, cuts, leftover >>

\* Mutant: >> for >.
StartStreamAppends ==
  /\ pc = "start" /\ i < loops
  /\ tmp' = IF tmp[i] = Absent THEN [tmp EXCEPT ![i] = Empty] ELSE tmp
  /\ running' = running \cup {i}
  /\ i' = i + 1
  /\ UNCHANGED << pc, gen, loops, todo, counted, blank, cuts, leftover >>

\* One turn of run_netperf's loop: the shell makes or empties the file.
StartStream ==
  /\ pc = "start" /\ i < loops
  /\ tmp' = [tmp EXCEPT ![i] = Empty]
  /\ running' = running \cup {i}
  /\ i' = i + 1
  /\ UNCHANGED << pc, gen, loops, todo, counted, blank, cuts, leftover >>

\* A netperf prints its figures when it is done, or none at all.
StreamEnds(s) ==
  /\ s \in running
  /\ running' = running \ {s}
  /\ tmp' \in {tmp, [tmp EXCEPT ![s] = << gen, s >>]}
  /\ UNCHANGED << pc, gen, loops, i, todo, counted, blank, cuts, leftover >>

\* Mutant: as many files as there were streams.
ListedOwn == {s \in Streams : tmp[s] # Absent /\ s < loops}

\* ls /tmp/result-*
Listed == {s \in Streams : tmp[s] # Absent}

\* wait, and the start of process_netperf.
Wait ==
  /\ pc = "start" /\ i = loops /\ running = {}
  /\ todo' = Listed
  /\ pc' = "process"
  /\ UNCHANGED << gen, loops, i, running, tmp, counted, blank, cuts, leftover >>

\* A turn of process_netperf's loop.  Without a figure bc prints nothing, from then on.
ProcessFile ==
  /\ pc = "process" /\ todo # {}
  /\ LET s == Min(todo)
     IN  /\ todo' = todo \ {s}
         /\ counted' = counted \cup ({tmp[s]} \ {Empty})
         /\ blank' = (blank \/ tmp[s] = Empty)
         /\ tmp' = [tmp EXCEPT ![s] = Absent]
  /\ UNCHANGED << pc, gen, loops, i, running, cuts, leftover >>

\* The report is printed, and the call returns.
PrintReport ==
  /\ pc = "process" /\ todo = {}
  /\ pc' = "report"
  /\ UNCHANGED << gen, loops, i, running, tmp, todo, counted, blank, cuts, leftover >>

Return ==
  /\ pc = "report"
  /\ pc' = "idle"
  /\ leftover' = 0
  /\ UNCHANGED << gen, loops, i, running, tmp, todo, counted, blank, cuts >>

\* The connection is lost, or k8s-netperf is.
CutOff ==
  /\ pc \in {"start", "process"} /\ cuts < MaxCuts
  /\ running' = {}
  /\ pc' = "idle"
  /\ cuts' = cuts + 1
  /\ leftover' = Max({leftover, i})
  /\ UNCHANGED << gen, loops, i, tmp, todo, counted, blank >>

\* The pod goes.
Deleted == pc = "idle" /\ gen = MaxScripts /\ UNCHANGED vars

Next == \/ Call \/ StartStream \/ Wait \/ ProcessFile \/ PrintReport \/ Return \/ CutOff
        \/ Deleted
        \/ \E s \in Streams : StreamEnds(s)

Spec == Init /\ [][Next]_vars

\* ParseResults: "throughput was empty", "p99_Latency was empty" (0/0 if there is no file).
Accepted == pc = "report" /\ ~ blank /\ counted # {}

----------------------------------------------------------------------------
\* Every variable has its type.
TypeOK ==
  /\ pc \in {"idle", "start", "process", "report"}
  /\ gen \in 0 .. MaxScripts /\ loops \in 0 .. MaxStreams /\ i \in 0 .. loops
  /\ running \subseteq 0 .. i - 1
  /\ tmp \in [Streams -> {Absent, Empty} \cup ((1 .. gen) \X Streams)]
  /\ todo \subseteq Streams
  /\ counted \subseteq (1 .. gen) \X Streams
  /\ blank \in BOOLEAN
  /\ cuts \in 0 .. MaxCuts /\ leftover \in 0 .. MaxStreams

\* A throughput that ParseResults accepts is the sum over the streams of this very call,
\* each once and none missing, in whatever order they end or fail.  Also for the rerun of a
\* test that was cut off: it overwrites what that left.  Only a call with fewer streams
\* than one cut off before it, and no complete one since, adds foreign reports.
SumIsOwn ==
  Accepted =>
    LET own == {<< gen, s >> : s \in 0 .. loops - 1}
    IN  own \subseteq counted /\ (counted = own \/ loops < leftover)

\* A call that comes to its end leaves no result file behind, whatever it found, so that
\* what a lost connection left is counted at most once.
LeavesNoFile == pc = "report" => \A s \in Streams : tmp[s] = Absent
==============================================================================
