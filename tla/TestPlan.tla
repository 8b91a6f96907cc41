------------------------------ MODULE TestPlan ------------------------------
(***************************************************************************)
(* What the measuring part of k8s-netperf promises, without its loops: the *)
(* scenario the flags and the configuration file describe fixes a set of   *)
(* tests and an order on them; results are recorded one per test in that   *)
(* order; a run that does not abort records every one of them.             *)
(***************************************************************************)
EXTENDS Scenario

VARIABLES
  s,          \* the scenario of this run
  recorded,   \* the tests that have a result in sr.Results, in the order appended
  status      \* "running", "complete" (the report is produced) or "aborted" (log.Fatal)

planVars == << s, recorded, status >>

\* The tests the documentation promises: host network only between pods, never
\* through a Service and only when asked for, the pod network unless --hostNet, and
\* nothing the driver does not support.
Planned(sc, t) ==
  /\ IF t.virt THEN sc.VM /\ ~ t.hostNet ELSE sc.Pod
  /\ IF t.hostNet THEN sc.HostNetwork /\ ~ sc.Configs[t.ci].service
                  ELSE ~ sc.HostNetOnly
  /\ IsTestSupported(sc.RequestedDrivers[t.di], sc.Configs[t.ci].profile)

IsRecorded(t) == \E k \in DOMAIN recorded : recorded[k] = t

PlanInit == /\ s \in Scenarios
            /\ recorded = << >>
            /\ status = "running"

RecordNext ==
  /\ status = "running"
  /\ \E t \in TestsOf(s) :
       /\ Planned(s, t)
       /\ ~ IsRecorded(t)
       /\ \A u \in TestsOf(s) : Planned(s, u) /\ Earlier(u, t) => IsRecorded(u)
       /\ recorded' = Append(recorded, t)
  /\ UNCHANGED << s, status >>

Complete ==
  /\ status = "running"
  /\ \A t \in TestsOf(s) : Planned(s, t) => IsRecorded(t)
  /\ status' = "complete"
  /\ UNCHANGED << s, recorded >>

Abort ==
  /\ status = "running"
  /\ status' = "aborted"
  /\ UNCHANGED << s, recorded >>

PlanNext == RecordNext \/ Complete \/ Abort

PlanSpec == PlanInit /\ [][PlanNext]_planVars
============================================================================
