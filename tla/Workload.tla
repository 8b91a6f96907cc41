------------------------------ MODULE Workload ------------------------------
(***************************************************************************)
(* The measuring part of main (cmd/k8s-netperf/k8s-netperf.go 455-522) and *)
(* executeWorkload (735-914): the nested loops over configurations and     *)
(* drivers, first between pods and then between VMs, and for each test the *)
(* sampling loop with its retries.  The benchmark itself is the            *)
(* environment: Run may fail, or return any output.                        *)
(***************************************************************************)
EXTENDS Scenario

CONSTANTS
  Retry,      \* const retry (k8s-netperf.go 37)
  Outputs     \* the outputs a benchmark may produce

ASSUME RetryAssumption   == Retry \in Nat
ASSUME OutputsAssumption == Outputs \subseteq OutputKinds

VARIABLES
  s,         \* the scenario
  pc,        \* where main is
  at,        \* the loop variables: VM or pod loops, config, driver, host network or not
  summary,   \* npr.*Summary of the executeWorkload in progress
  try,       \* the retry counter
  out,       \* the buffer the last successful Run returned
  runs,      \* successful Runs of this executeWorkload (history: tells buffers apart)
  results    \* sr.Results

vars == << s, pc, at, summary, try, out, runs, results >>
callVars == << summary, try, out, runs >>

\* "pods": before the pod loops; "loop": at the head of the loop body; "prepare": in
\* executeWorkload before the driver is known to support the test; "sample" ...
\* "reparse": in the sampling loop; "connect": before ConnectToVM; "report": the loops
\* are over; "fatal": the process exited through log.Fatal or a panic.
PCs == {"pods", "loop", "prepare", "sample", "parse", "retry", "rerun", "reparse",
        "connect", "report", "fatal"}

InCall == {"sample", "parse", "retry", "rerun", "reparse"}

Cursors == [virt : BOOLEAN, ci : Nat \ {0}, di : Nat \ {0}, hostNet : BOOLEAN]

\* One sample as stored: the Run it was parsed from and what that Run printed.
SampleType == [run : Nat, out : OutputKinds]
ResultType == [test : Cursors, summary : Seq(SampleType)]

nc     == s.Configs[at.ci]
driver == s.RequestedDrivers[at.di]

Cursor(virt, ci, di, hostNet) ==
  [virt |-> virt, ci |-> ci, di |-> di, hostNet |-> hostNet]

Start(virt) == Cursor(virt, 1, 1, TRUE)

----------------------------------------------------------------------------
(***************************************************************************)
(* The loops of main.                                                      *)
(***************************************************************************)
Init == /\ s \in Scenarios
        /\ pc = "pods"
        /\ at = Start(FALSE)
        /\ summary = << >>
        /\ try = 0
        /\ out = "empty"
        /\ runs = 0
        /\ results = << >>

\* if s.Pod { ...
StartPods ==
  /\ pc = "pods"
  /\ pc' = IF s.Pod THEN "loop" ELSE "connect"
  /\ at' = IF s.Pod THEN at ELSE Start(TRUE)
  /\ UNCHANGED << s, callVars, results >>

\* Mutant: host network tests through a Service as well.
CallsHereService ==
  IF at.hostNet THEN ~ at.virt /\ s.HostNetwork ELSE ~ s.HostNetOnly

\* The conditions around the three calls of executeWorkload: host network between pods
\* when asked for and not through a Service, the pod network unless --hostNet; between
\* VMs the host network only logs that it is skipped.
CallsHere ==
  IF at.hostNet THEN ~ at.virt /\ s.HostNetwork /\ ~ nc.service
                ELSE ~ s.HostNetOnly

\* What the loop variables become after this call, or after it is skipped.
Advanced ==
  CASE at.hostNet -> Cursor(at.virt, at.ci, at.di, FALSE)
    [] ~ at.hostNet /\ at.di < Len(s.RequestedDrivers) ->
         Cursor(at.virt, at.ci, at.di + 1, TRUE)
    [] ~ at.hostNet /\ at.di >= Len(s.RequestedDrivers) ->
         Cursor(at.virt, at.ci + 1, 1, TRUE)

Call ==
  /\ pc = "loop"
  /\ at.ci <= Len(s.Configs)
  /\ CallsHere
  /\ pc' = "prepare"
  /\ UNCHANGED << s, at, callVars, results >>

SkipCall ==
  /\ pc = "loop"
  /\ at.ci <= Len(s.Configs)
  /\ ~ CallsHere
  /\ at' = Advanced
  /\ UNCHANGED << s, pc, callVars, results >>

EndPods ==
  /\ pc = "loop"
  /\ at.ci > Len(s.Configs)
  /\ ~ at.virt
  /\ pc' = "connect"
  /\ at' = Start(TRUE)
  /\ UNCHANGED << s, callVars, results >>

\* if s.VM { vmClient, err := k8s.ConnectToVM(&s) ...
StartVMs ==
  /\ pc = "connect"
  /\ pc' = IF s.VM THEN "loop" ELSE "report"
  /\ UNCHANGED << s, at, callVars, results >>

ConnectFails ==
  /\ pc = "connect"
  /\ s.VM
  /\ pc' = "fatal"
  /\ UNCHANGED << s, at, callVars, results >>

EndVMs ==
  /\ pc = "loop"
  /\ at.ci > Len(s.Configs)
  /\ at.virt
  /\ pc' = "report"
  /\ UNCHANGED << s, at, callVars, results >>

----------------------------------------------------------------------------
(***************************************************************************)
(* executeWorkload.  How it picks the server address and the client pod is *)
(* the subject of module Placement; here that step succeeds or is fatal.   *)
(***************************************************************************)
PrepareFails ==
  /\ pc = "prepare"
  /\ pc' = "fatal"
  /\ UNCHANGED << s, at, callVars, results >>

\* IsTestSupported is false: return npr, false.
Unsupported ==
  /\ pc = "prepare"
  /\ ~ IsTestSupported(driver, nc.profile)
  /\ pc' = "loop"
  /\ at' = Advanced
  /\ UNCHANGED << s, callVars, results >>

Prepare ==
  /\ pc = "prepare"
  /\ IsTestSupported(driver, nc.profile)
  /\ pc' = "sample"
  /\ UNCHANGED << s, at, callVars, results >>

\* Run returned a buffer and a nil error.
Returned(o) == out' = o /\ runs' = runs + 1

\* The first Run of a sample.
Run ==
  /\ pc = "sample"
  /\ Len(summary) < nc.samples
  /\ \E o \in Outputs : Returned(o)
  /\ pc' = "parse"
  /\ UNCHANGED << s, at, summary, try, results >>

\* An error of the first Run of a sample is fatal.
RunFails ==
  /\ pc = "sample"
  /\ Len(summary) < nc.samples
  /\ pc' = "fatal"
  /\ UNCHANGED << s, at, callVars, results >>

\* The six appends at the end of the sampling loop's body.
StoreSample == summary' = Append(summary, [run |-> runs, out |-> out])

\* Mutant: the error of ParseResults is not looked at.
ParseAny ==
  /\ pc = "parse"
  /\ StoreSample
  /\ pc' = "sample"
  /\ UNCHANGED << s, at, try, out, runs, results >>

Parse ==
  /\ pc = "parse"
  /\ ParseResults(driver, out).ok
  /\ StoreSample
  /\ pc' = "sample"
  /\ UNCHANGED << s, at, try, out, runs, results >>

ParseFails ==
  /\ pc = "parse"
  /\ ~ ParseResults(driver, out).ok
  /\ try' = 0
  /\ pc' = "retry"
  /\ UNCHANGED << s, at, summary, out, runs, results >>

\* Mutants: one retry too many, one too few, and a loop that never gives up.
RetryHeadLate ==
  /\ pc = "retry"
  /\ pc' = IF try <= Retry THEN "rerun" ELSE "fatal"
  /\ UNCHANGED << s, at, callVars, results >>

RetryHeadEarly ==
  /\ pc = "retry"
  /\ pc' = IF try + 1 < Retry THEN "rerun" ELSE "fatal"
  /\ UNCHANGED << s, at, callVars, results >>

RetryHeadForever ==
  /\ pc = "retry"
  /\ pc' = IF try < Retry THEN "rerun" ELSE "retry"
  /\ UNCHANGED << s, at, callVars, results >>

\* for try < retry { ...
RetryHead ==
  /\ pc = "retry"
  /\ pc' = IF try < Retry THEN "rerun" ELSE "fatal"
  /\ UNCHANGED << s, at, callVars, results >>

Rerun ==
  /\ pc = "rerun"
  /\ \E o \in Outputs : Returned(o)
  /\ pc' = "reparse"
  /\ UNCHANGED << s, at, summary, try, results >>

\* An error of a later Run is logged, and `continue' skips the try++ below it.
RerunFails ==
  /\ pc = "rerun"
  /\ pc' = "retry"
  /\ UNCHANGED << s, at, callVars, results >>

Reparse ==
  /\ pc = "reparse"
  /\ ParseResults(driver, out).ok
  /\ StoreSample
  /\ try' = 0
  /\ pc' = "sample"
  /\ UNCHANGED << s, at, out, runs, results >>

ReparseFails ==
  /\ pc = "reparse"
  /\ ~ ParseResults(driver, out).ok
  /\ try' = try + 1
  /\ pc' = "retry"
  /\ UNCHANGED << s, at, summary, out, runs, results >>

\* The locals of executeWorkload end with it.
Return == summary' = << >> /\ try' = 0 /\ out' = "empty" /\ runs' = 0

\* All samples taken: return npr, true, and main appends npr to sr.Results.
Record ==
  /\ pc = "sample"
  /\ Len(summary) >= nc.samples
  /\ results' = Append(results, [test |-> at, summary |-> summary])
  /\ pc' = "loop"
  /\ at' = Advanced
  /\ Return
  /\ UNCHANGED s

Exited == pc \in {"report", "fatal"} /\ UNCHANGED vars

Loops    == StartPods \/ Call \/ SkipCall \/ EndPods \/ StartVMs \/ ConnectFails \/ EndVMs
Sampling == Run \/ RunFails \/ Parse \/ ParseFails \/ Record
Retrying == RetryHead \/ Rerun \/ RerunFails \/ Reparse \/ ReparseFails

Next == Loops \/ PrepareFails \/ Unsupported \/ Prepare \/ Sampling \/ Retrying \/ Exited

Spec == Init /\ [][Next]_vars

\* main is one goroutine that never waits for another: it keeps taking steps.  Run is a
\* call that returns.
LiveSpec == Spec /\ WF_vars(Next)

\* In addition, a Run that is repeated again and again does not fail every time.
FairRunSpec == LiveSpec /\ SF_vars(Rerun)

----------------------------------------------------------------------------
(***************************************************************************)
(* Properties.                                                             *)
(***************************************************************************)

\* Every variable has its type; the cursor stays inside the loops' ranges.
TypeOK ==
  /\ s \in Scenarios
  /\ pc \in PCs
  /\ at \in Cursors
  /\ at.di <= Len(s.RequestedDrivers)
  /\ at.ci <= Len(s.Configs) + 1
  /\ pc \in InCall \cup {"prepare"} => at.ci <= Len(s.Configs)
  /\ summary \in Seq(SampleType)
  /\ try \in 0 .. Retry
  /\ pc \in {"rerun", "reparse"} => try < Retry
  /\ out \in OutputKinds
  /\ runs \in Nat
  /\ results \in Seq(ResultType)

\* A summary of test t is sound: each sample is one that the driver's ParseResults
\* accepted, no two samples stem from the same Run, and between two of them lie at most
\* Retry rejected Runs.
SoundSummary(t, sum) ==
  \A k \in DOMAIN sum :
     /\ ParseResults(s.RequestedDrivers[t.di], sum[k].out).ok
     /\ LET before == IF k = 1 THEN 0 ELSE sum[k - 1].run
        IN  sum[k].run \in (before + 1) .. (before + 1 + Retry)

\* Whatever the Runs printed and however often they were repeated, a recorded result has
\* exactly the configured number of samples, each from a Run of its own whose output was
\* accepted (the sampling loop of executeWorkload, its retry loop and the two buffers
\* named r and the shadowed err in it).
ResultsSound ==
  \A k \in DOMAIN results :
     /\ Len(results[k].summary) = s.Configs[results[k].test.ci].samples
     /\ SoundSummary(results[k].test, results[k].summary)

LastRun(sum) == IF sum = << >> THEN 0 ELSE sum[Len(sum)].run

\* "test was unsuccessful after retry." is the verdict only when the first Run of the
\* sample and all Retry repetitions printed something ParseResults rejected.
GivesUpOnlyAfterRetries ==
  [][pc = "retry" /\ pc' = "fatal" => runs = LastRun(summary) + 1 + Retry]_vars

\* The loops implement the plan: results appear for exactly the planned tests, each
\* once, in order, and the report is only reached with all of them.
Plan == INSTANCE TestPlan WITH
          recorded <- [k \in DOMAIN results |-> results[k].test],
          status   <- CASE pc = "report" -> "complete"
                        [] pc = "fatal"  -> "aborted"
                        [] OTHER         -> "running"

ImplementsPlan == Plan!PlanSpec

\* The measuring part comes to an end.
Terminates == <>(pc \in {"report", "fatal"})
=============================================================================
