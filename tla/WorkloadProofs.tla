--------------------------- MODULE WorkloadProofs ---------------------------
(***************************************************************************)
(* Proofs about Workload for every set of scenarios, every retry budget    *)
(* and every set of outputs.                                               *)
(***************************************************************************)
EXTENDS Workload, TLAPS

\* What the type invariant says, in the form the provers use it.
LEMMA ScenarioFacts ==
  ASSUME NEW sc \in Scenarios
  PROVE  /\ Len(sc.Configs) \in Nat
         /\ Len(sc.RequestedDrivers) \in Nat \ {0}
         /\ \A i \in 1 .. Len(sc.Configs) : /\ sc.Configs[i] \in ConfigType
                                            /\ sc.Configs[i].samples \in Nat \ {0}
         /\ \A i \in 1 .. Len(sc.RequestedDrivers) : sc.RequestedDrivers[i] \in DriverNames
         /\ sc.HostNetOnly \in BOOLEAN /\ sc.HostNetwork \in BOOLEAN
         /\ sc.Pod \in BOOLEAN /\ sc.VM \in BOOLEAN
  <1>1. /\ sc \in ScenarioType
        /\ ValidConfigs(sc.Configs)
        /\ sc.RequestedDrivers # << >>
    BY ScenariosAssumption DEF FlagsAccepted
  <1>2. /\ sc.Configs \in Seq(ConfigType)
        /\ sc.RequestedDrivers \in Seq(DriverNames)
        /\ sc.HostNetOnly \in BOOLEAN /\ sc.HostNetwork \in BOOLEAN
        /\ sc.Pod \in BOOLEAN /\ sc.VM \in BOOLEAN
    BY <1>1 DEF ScenarioType
  <1>3. Len(sc.RequestedDrivers) # 0
    BY <1>1, <1>2
  <1>4. ASSUME NEW i \in 1 .. Len(sc.Configs)
        PROVE  sc.Configs[i] \in ConfigType /\ sc.Configs[i].samples \in Nat \ {0}
    <2>1. sc.Configs[i] \in ConfigType
      BY <1>2
    <2>2. sc.Configs[i].samples \in Nat /\ sc.Configs[i].samples > 0
      BY <1>1, <2>1 DEF ValidConfigs, ConfigType
    <2> QED BY <2>1, <2>2
  <1> QED BY <1>2, <1>3, <1>4

\* The cursor stays in range when it advances inside the loops.
LEMMA AdvancedType ==
  ASSUME s \in Scenarios, at \in Cursors,
         at.di <= Len(s.RequestedDrivers), at.ci <= Len(s.Configs)
  PROVE  /\ Advanced \in Cursors
         /\ Advanced.di <= Len(s.RequestedDrivers)
         /\ Advanced.ci <= Len(s.Configs) + 1
  <1>1. Len(s.Configs) \in Nat /\ Len(s.RequestedDrivers) \in Nat \ {0}
    BY ScenarioFacts
  <1>2. CASE at.hostNet
    BY <1>1, <1>2 DEF Advanced, Cursor, Cursors
  <1>3. CASE ~ at.hostNet /\ at.di < Len(s.RequestedDrivers)
    BY <1>1, <1>3 DEF Advanced, Cursor, Cursors
  <1>4. CASE ~ at.hostNet /\ at.di >= Len(s.RequestedDrivers)
    BY <1>1, <1>4 DEF Advanced, Cursor, Cursors
  <1> QED BY <1>1, <1>2, <1>3, <1>4 DEF Cursors

\* The other places the cursor is set to.
LEMMA StartType ==
  ASSUME s \in Scenarios, NEW v \in BOOLEAN
  PROVE  /\ Start(v) \in Cursors
         /\ Start(v).di <= Len(s.RequestedDrivers)
         /\ Start(v).ci <= Len(s.Configs) + 1
  BY ScenarioFacts DEF Start, Cursor, Cursors

\* Appending keeps a sequence a sequence over the same set.
LEMMA StoreType ==
  ASSUME summary \in Seq(SampleType), runs \in Nat, out \in OutputKinds, StoreSample
  PROVE  summary' \in Seq(SampleType)
  BY DEF StoreSample, SampleType

\* Every reachable state is well typed, the cursor is inside the loops' ranges and the
\* retry counter within its budget.
THEOREM TypeCorrect == Spec => []TypeOK
  <1> USE RetryAssumption, OutputsAssumption
  <1>1. Init => TypeOK
    <2> SUFFICES ASSUME Init PROVE TypeOK OBVIOUS
    <2>1. at = Start(FALSE) /\ s \in Scenarios BY DEF Init
    <2>2. /\ at \in Cursors
          /\ at.di <= Len(s.RequestedDrivers)
          /\ at.ci <= Len(s.Configs) + 1
      BY <2>1, StartType
    <2>3. summary \in Seq(SampleType) /\ results \in Seq(ResultType)
      BY DEF Init
    <2>4. try \in 0 .. Retry /\ out \in OutputKinds /\ runs \in Nat
      BY DEF Init, OutputKinds
    <2>5. pc \in PCs /\ pc \notin InCall \cup {"prepare"} \cup {"rerun", "reparse"}
      BY DEF Init, PCs, InCall
    <2> QED BY <2>1, <2>2, <2>3, <2>4, <2>5 DEF TypeOK
  <1>2. TypeOK /\ [Next]_vars => TypeOK'
    <2> SUFFICES ASSUME TypeOK, [Next]_vars PROVE TypeOK' OBVIOUS
    <2>0. /\ Len(s.Configs) \in Nat
          /\ s \in Scenarios
      BY ScenarioFacts DEF TypeOK
    <2>a. at.ci <= Len(s.Configs) => /\ Advanced \in Cursors
                                     /\ Advanced.di <= Len(s.RequestedDrivers)
                                     /\ Advanced.ci <= Len(s.Configs) + 1
      BY AdvancedType DEF TypeOK
    <2>b. \A v \in BOOLEAN : /\ Start(v) \in Cursors
                             /\ Start(v).di <= Len(s.RequestedDrivers)
                             /\ Start(v).ci <= Len(s.Configs) + 1
      BY <2>0, StartType
    <2>1. CASE StartPods
      <3>1. CASE s.Pod
        BY <2>1, <3>1 DEF StartPods, callVars, TypeOK, PCs, InCall
      <3>2. CASE ~ s.Pod
        BY <2>1, <2>b, <3>2 DEF StartPods, callVars, TypeOK, PCs, InCall
      <3> QED BY <3>1, <3>2
    <2>2. CASE Call
      BY <2>2 DEF Call, callVars, TypeOK, PCs, InCall
    <2>3. CASE SkipCall
      BY <2>3, <2>a DEF SkipCall, callVars, TypeOK, PCs, InCall
    <2>4. CASE EndPods
      BY <2>4, <2>b DEF EndPods, callVars, TypeOK, PCs, InCall
    <2>5. CASE StartVMs \/ ConnectFails
      BY <2>5 DEF StartVMs, ConnectFails, callVars, TypeOK, PCs, InCall
    <2>6. CASE EndVMs
      BY <2>6 DEF EndVMs, callVars, TypeOK, PCs, InCall
    <2>7. CASE PrepareFails \/ RunFails
      BY <2>7 DEF PrepareFails, RunFails, callVars, TypeOK, PCs, InCall
    <2>8. CASE Unsupported
      BY <2>8, <2>a DEF Unsupported, callVars, TypeOK, PCs, InCall
    <2>9. CASE Prepare
      BY <2>9 DEF Prepare, callVars, TypeOK, PCs, InCall
    <2>10. CASE Run
      BY <2>10 DEF Run, Returned, TypeOK, PCs, InCall
    <2>11. CASE Parse
      <3>1. summary' \in Seq(SampleType)
        BY <2>11, StoreType DEF Parse, TypeOK
      <3> QED BY <2>11, <3>1 DEF Parse, TypeOK, PCs, InCall
    <2>12. CASE ParseFails
      BY <2>12 DEF ParseFails, TypeOK, PCs, InCall
    <2>13. CASE Record
      <3>1. [test |-> at, summary |-> summary] \in ResultType
        BY DEF TypeOK, ResultType
      <3>2. results' \in Seq(ResultType)
        BY <2>13, <3>1 DEF Record, TypeOK
      <3>3. at.ci <= Len(s.Configs)
        BY <2>13 DEF Record, TypeOK, InCall
      <3>4. summary' \in Seq(SampleType) /\ out' \in OutputKinds /\ runs' \in Nat
            /\ try' \in 0 .. Retry
        BY <2>13 DEF Record, Return, OutputKinds
      <3> QED BY <2>13, <3>2, <3>3, <3>4, <2>a DEF Record, TypeOK, PCs, InCall
    <2>14. CASE RetryHead
      BY <2>14 DEF RetryHead, callVars, TypeOK, PCs, InCall
    <2>15. CASE Rerun
      BY <2>15 DEF Rerun, Returned, TypeOK, PCs, InCall
    <2>16. CASE RerunFails
      BY <2>16 DEF RerunFails, callVars, TypeOK, PCs, InCall
    <2>17. CASE Reparse
      <3>1. summary' \in Seq(SampleType)
        BY <2>17, StoreType DEF Reparse, TypeOK
      <3> QED BY <2>17, <3>1 DEF Reparse, TypeOK, PCs, InCall
    <2>18. CASE ReparseFails
      BY <2>18 DEF ReparseFails, TypeOK, PCs, InCall
    <2>19. CASE UNCHANGED vars
      BY <2>19 DEF vars, TypeOK
    <2> QED
      BY <2>1, <2>2, <2>3, <2>4, <2>5, <2>6, <2>7, <2>8, <2>9, <2>10, <2>11, <2>12,
         <2>13, <2>14, <2>15, <2>16, <2>17, <2>18, <2>19
         DEF Next, Loops, Sampling, Retrying, Exited
  <1> QED BY <1>1, <1>2, PTL DEF Spec

-----------------------------------------------------------------------------
(***************************************************************************)
(* The loops implement the plan.                                           *)
(***************************************************************************)

\* The operators the instance Plan inherits are those of this module.
LEMMA SameOperators ==
  ASSUME NEW sc, NEW t, NEW u
  PROVE  /\ Plan!TestsOf(sc) = TestsOf(sc)
         /\ Plan!Earlier(t, u) <=> Earlier(t, u)
  BY DEF Plan!TestsOf, TestsOf, Plan!Earlier, Earlier

LEMMA SameSupport ==
  ASSUME NEW d, NEW p
  PROVE  Plan!IsTestSupported(d, p) <=> IsTestSupported(d, p)
  BY DEF Plan!IsTestSupported, Plan!IsTestSupportedNetperf, Plan!IsTestSupportedIperf3,
         Plan!IsTestSupportedUperf, Plan!IsTestSupportedIbWriteBw, Plan!IsTCPStreamLat,
         Plan!ContainsSTREAM, Plan!StreamNames,
         IsTestSupported, IsTestSupportedNetperf, IsTestSupportedIperf3,
         IsTestSupportedUperf, IsTestSupportedIbWriteBw, IsTCPStreamLat, ContainsSTREAM,
         StreamNames

\* Advancing the loop variables passes exactly one more test: the one they were at.
LEMMA AdvancedPassesOne ==
  ASSUME s \in Scenarios, at \in Cursors,
         at.di <= Len(s.RequestedDrivers), at.ci <= Len(s.Configs),
         NEW t \in TestsOf(s)
  PROVE  Earlier(t, Advanced) <=> Earlier(t, at) \/ t = at
  <1>1. Len(s.Configs) \in Nat /\ Len(s.RequestedDrivers) \in Nat \ {0}
    BY ScenarioFacts
  <1>2. /\ t.virt \in BOOLEAN /\ t.hostNet \in BOOLEAN
        /\ t.ci \in 1 .. Len(s.Configs) /\ t.di \in 1 .. Len(s.RequestedDrivers)
    BY DEF TestsOf
  <1>3. t = at <=> t.virt = at.virt /\ t.ci = at.ci /\ t.di = at.di /\ t.hostNet = at.hostNet
    BY DEF TestsOf, Cursors
  <1>4. CASE at.hostNet
    BY <1>1, <1>2, <1>3, <1>4 DEF Advanced, Cursor, Cursors, Earlier
  <1>5. CASE ~ at.hostNet /\ at.di < Len(s.RequestedDrivers)
    BY <1>1, <1>2, <1>3, <1>5 DEF Advanced, Cursor, Cursors, Earlier
  <1>6. CASE ~ at.hostNet /\ at.di >= Len(s.RequestedDrivers)
    BY <1>1, <1>2, <1>3, <1>6 DEF Advanced, Cursor, Cursors, Earlier
  <1> QED BY <1>1, <1>4, <1>5, <1>6 DEF Cursors

\* The loop conditions, the driver's verdict and the enclosing if amount to the plan.
LEMMA PlannedHere ==
  ASSUME at \in Cursors
  PROVE  Plan!Planned(s, at) <=> /\ CallsHere
                                 /\ IsTestSupported(driver, nc.profile)
                                 /\ IF at.virt THEN s.VM ELSE s.Pod
  BY SameSupport DEF Plan!Planned, CallsHere, driver, nc, Cursors

\* The tests the loops are past.
Passed(t) == pc = "report" \/ Earlier(t, at)

HasResult(t) == \E k \in DOMAIN results : results[k].test = t

\* Inside executeWorkload the conditions that led there hold, and the tests the loops
\* are past are recorded exactly if they are planned.
LoopInv ==
  /\ pc = "pods" => at = Start(FALSE)
  /\ pc = "connect" => at = Start(TRUE)
  /\ pc \in InCall \cup {"prepare"} => CallsHere
  /\ pc \in InCall => IsTestSupported(driver, nc.profile)
  /\ pc \in InCall \cup {"prepare", "loop"} => IF at.virt THEN s.VM ELSE s.Pod

RecordedInv ==
  /\ \A t \in TestsOf(s) : Passed(t) /\ Plan!Planned(s, t) => HasResult(t)
  /\ \A k \in DOMAIN results : /\ results[k].test \in TestsOf(s)
                               /\ Passed(results[k].test)

\* Nothing precedes the first test of all, and every pod test precedes the first VM test.
LEMMA StartOrder ==
  ASSUME NEW sc \in Scenarios, NEW t \in TestsOf(sc)
  PROVE  /\ ~ Earlier(t, Start(FALSE))
         /\ Earlier(t, Start(TRUE)) <=> ~ t.virt
  <1>1. /\ Len(sc.Configs) \in Nat /\ Len(sc.RequestedDrivers) \in Nat
        /\ t.virt \in BOOLEAN /\ t.hostNet \in BOOLEAN
        /\ t.ci \in 1 .. Len(sc.Configs) /\ t.di \in 1 .. Len(sc.RequestedDrivers)
    BY ScenarioFacts DEF TestsOf
  <1>2. /\ t.ci \in Nat /\ t.di \in Nat /\ ~ (t.ci < 1) /\ ~ (t.di < 1)
    BY <1>1
  <1>3. ~ Earlier(t, Start(FALSE))
    <2>1. ~ Start(FALSE).virt /\ Start(FALSE).hostNet /\ Start(FALSE).ci = 1
          /\ Start(FALSE).di = 1
      BY DEF Start, Cursor
    <2> QED BY <1>2, <2>1, Zenon DEF Earlier
  <1>4. Earlier(t, Start(TRUE)) <=> ~ t.virt
    <2>1. Start(TRUE).virt /\ Start(TRUE).virt = TRUE /\ Start(TRUE).hostNet
          /\ Start(TRUE).ci = 1 /\ Start(TRUE).di = 1
      BY DEF Start, Cursor
    <2> QED BY <1>1, <1>2, <2>1, Zenon DEF Earlier
  <1> QED BY <1>3, <1>4

\* The loop conditions are preserved by every step.
LEMMA LoopInvStep == TypeOK /\ LoopInv /\ [Next]_vars => LoopInv'
  <1> SUFFICES ASSUME TypeOK, LoopInv, [Next]_vars PROVE LoopInv' OBVIOUS
  <1> USE DEF LoopInv, InCall
  <1>1. CASE StartPods
    BY <1>1 DEF StartPods, Start, Cursor
  <1>2. CASE Call
    BY <1>2 DEF Call, CallsHere, nc
  <1>3. CASE SkipCall
    BY <1>3 DEF SkipCall, Advanced, Cursor, TypeOK, Cursors
  <1>4. CASE EndPods
    BY <1>4 DEF EndPods
  <1>5. CASE StartVMs \/ ConnectFails
    BY <1>5 DEF StartVMs, ConnectFails, Start, Cursor
  <1>6. CASE EndVMs
    BY <1>6 DEF EndVMs
  <1>7. CASE PrepareFails \/ RunFails
    BY <1>7 DEF PrepareFails, RunFails
  <1>8. CASE Unsupported
    BY <1>8 DEF Unsupported, Advanced, Cursor, TypeOK, Cursors
  <1>9. CASE Prepare
    BY <1>9 DEF Prepare, CallsHere, driver, nc
  <1>10. CASE Run \/ Parse \/ ParseFails
    BY <1>10 DEF Run, Parse, ParseFails, CallsHere, driver, nc
  <1>11. CASE Record
    BY <1>11 DEF Record, Advanced, Cursor, TypeOK, Cursors
  <1>12. CASE RetryHead \/ Rerun \/ RerunFails
    BY <1>12 DEF RetryHead, Rerun, RerunFails, CallsHere, driver, nc
  <1>13. CASE Reparse \/ ReparseFails
    BY <1>13 DEF Reparse, ReparseFails, CallsHere, driver, nc
  <1>14. CASE UNCHANGED vars
    BY <1>14 DEF vars, CallsHere, driver, nc
  <1> QED
    BY <1>1, <1>2, <1>3, <1>4, <1>5, <1>6, <1>7, <1>8, <1>9, <1>10, <1>11, <1>12, <1>13,
       <1>14 DEF Next, Loops, Sampling, Retrying, Exited

\* Once a loop is past its last configuration, it is past all tests of its kind.
LEMMA EndOrder ==
  ASSUME s \in Scenarios, at \in Cursors, at.ci > Len(s.Configs), NEW t \in TestsOf(s)
  PROVE  (at.virt \/ ~ t.virt) => Earlier(t, at)
  <1>1. /\ Len(s.Configs) \in Nat
        /\ t.virt \in BOOLEAN /\ t.ci \in 1 .. Len(s.Configs)
    BY ScenarioFacts DEF TestsOf
  <1> QED BY <1>1 DEF Earlier, Cursors

\* What is recorded and what is planned stay in step.
LEMMA RecordedInvStep == TypeOK /\ LoopInv /\ RecordedInv /\ [Next]_vars => RecordedInv'
  <1> SUFFICES ASSUME TypeOK, LoopInv, RecordedInv, [Next]_vars PROVE RecordedInv' OBVIOUS
  <1>0. s \in Scenarios /\ at \in Cursors
    BY DEF TypeOK
  <1>a. ASSUME s' = s, at' = at, results' = results, pc # "report", pc' # "report"
        PROVE  RecordedInv'
    BY <1>a DEF RecordedInv, Passed, HasResult, Plan!Planned
  <1>b. ASSUME s' = s, at' = Advanced, results' = results, pc # "report", pc' # "report",
               at.ci <= Len(s.Configs), ~ Plan!Planned(s, at)
        PROVE  RecordedInv'
    <2>1. \A t \in TestsOf(s) : Passed(t)' <=> Passed(t) \/ t = at
      BY <1>0, <1>b, AdvancedPassesOne DEF Passed, TypeOK, Earlier
    <2> QED BY <1>b, <2>1 DEF RecordedInv, HasResult, Plan!Planned
  <1>1. CASE StartPods
    <2>1. CASE s.Pod
      BY <1>1, <2>1, <1>a DEF StartPods
    <2>2. CASE ~ s.Pod
      <3>1. \A t \in TestsOf(s) : Passed(t)' <=> ~ t.virt
        BY <1>0, <1>1, <2>2, StartOrder DEF StartPods, Passed, Start, Cursor, Earlier
      <3>2. \A t \in TestsOf(s) : ~ Passed(t)
        BY <1>0, <1>1, StartOrder DEF StartPods, Passed, LoopInv
      <3>3. \A t \in TestsOf(s) : ~ t.virt => ~ Plan!Planned(s, t)
        BY <2>2 DEF Plan!Planned
      <3> QED BY <1>1, <3>1, <3>2, <3>3 DEF StartPods, RecordedInv, HasResult, Plan!Planned
    <2> QED BY <2>1, <2>2
  <1>2. CASE SkipCall
    <2>1. ~ Plan!Planned(s, at)
      BY <1>0, <1>2, PlannedHere DEF SkipCall
    <2> QED BY <1>2, <2>1, <1>b DEF SkipCall
  <1>3. CASE EndPods
    <2>1. \A t \in TestsOf(s) : Passed(t)' <=> ~ t.virt
      BY <1>0, <1>3, StartOrder DEF EndPods, Passed, Start, Cursor, Earlier
    <2>2. \A t \in TestsOf(s) : Passed(t) <=> ~ t.virt
      BY <1>0, <1>3, EndOrder DEF EndPods, Passed, Earlier, Cursors, TestsOf
    <2> QED BY <1>3, <2>1, <2>2 DEF EndPods, RecordedInv, HasResult, Plan!Planned
  <1>4. CASE StartVMs
    <2>1. CASE s.VM
      BY <1>4, <2>1, <1>a DEF StartVMs
    <2>2. CASE ~ s.VM
      <3>1. \A t \in TestsOf(s) : Passed(t)'
        BY <1>4, <2>2 DEF StartVMs, Passed
      <3>2. \A t \in TestsOf(s) : ~ t.virt => Passed(t)
        BY <1>0, <1>4, StartOrder DEF StartVMs, LoopInv, Passed
      <3>3. \A t \in TestsOf(s) : t.virt => ~ Plan!Planned(s, t)
        BY <2>2 DEF Plan!Planned
      <3>4. \A t \in TestsOf(s) : t.virt \in BOOLEAN
        BY DEF TestsOf
      <3> QED BY <1>4, <3>1, <3>2, <3>3, <3>4
              DEF StartVMs, RecordedInv, HasResult, Plan!Planned
    <2> QED BY <2>1, <2>2
  <1>5. CASE EndVMs
    <2>1. \A t \in TestsOf(s) : Passed(t)'
      BY <1>5 DEF EndVMs, Passed
    <2>2. \A t \in TestsOf(s) : Passed(t)
      BY <1>0, <1>5, EndOrder DEF EndVMs, Passed
    <2> QED BY <1>5, <2>1, <2>2 DEF EndVMs, RecordedInv, HasResult, Plan!Planned
  <1>6. CASE Unsupported
    <2>1. ~ Plan!Planned(s, at)
      BY <1>0, <1>6, PlannedHere DEF Unsupported
    <2> QED BY <1>6, <2>1, <1>b DEF Unsupported, TypeOK
  <1>7. CASE Record
    <2>1. pc = "sample" /\ s' = s /\ pc' = "loop" /\ at' = Advanced
          /\ results' = Append(results, [test |-> at, summary |-> summary])
      BY <1>7 DEF Record
    <2>2. at.ci <= Len(s.Configs) /\ at.di <= Len(s.RequestedDrivers)
      BY <2>1 DEF TypeOK, InCall
    <2>3. at \in TestsOf(s)
      BY <1>0, <2>2, ScenarioFacts DEF Cursors, TestsOf
    <2>4. \A t \in TestsOf(s) : Passed(t)' <=> Passed(t) \/ t = at
      BY <1>0, <2>1, <2>2, AdvancedPassesOne DEF Passed, Earlier
    <2>5. /\ Len(results) \in Nat /\ DOMAIN results = 1 .. Len(results)
          /\ DOMAIN results' = 1 .. Len(results) + 1
          /\ \A k \in 1 .. Len(results) : results'[k] = results[k]
          /\ results'[Len(results) + 1].test = at
      BY <2>1 DEF TypeOK
    <2>6. \A t \in TestsOf(s) : HasResult(t)' <=> HasResult(t) \/ t = at
      BY <2>5 DEF HasResult
    <2>7. \A k \in DOMAIN results' : results'[k].test = at \/ (k \in DOMAIN results
                                    /\ results'[k] = results[k])
      BY <2>5
    <2> QED BY <2>1, <2>3, <2>4, <2>6, <2>7 DEF RecordedInv, Plan!Planned
  <1>8. CASE Call \/ ConnectFails \/ PrepareFails \/ RunFails
    BY <1>8, <1>a DEF Call, ConnectFails, PrepareFails, RunFails
  <1>9. CASE Prepare \/ Run \/ Parse \/ ParseFails
    BY <1>9, <1>a DEF Prepare, Run, Parse, ParseFails
  <1>10. CASE RetryHead \/ Rerun \/ RerunFails \/ Reparse \/ ReparseFails
    BY <1>10, <1>a DEF RetryHead, Rerun, RerunFails, Reparse, ReparseFails
  <1>11. CASE UNCHANGED vars
    BY <1>11 DEF vars, RecordedInv, Passed, HasResult, Plan!Planned
  <1> QED
    BY <1>1, <1>2, <1>3, <1>4, <1>5, <1>6, <1>7, <1>8, <1>9, <1>10, <1>11
       DEF Next, Loops, Sampling, Retrying, Exited

\* The two parts of the inductive invariant hold in every reachable state.
THEOREM LoopsKeepPlan == Spec => [](TypeOK /\ LoopInv /\ RecordedInv)
  <1>1. Init /\ TypeOK => LoopInv /\ RecordedInv
    <2> SUFFICES ASSUME Init, TypeOK PROVE LoopInv /\ RecordedInv OBVIOUS
    <2>1. LoopInv
      BY DEF Init, LoopInv, InCall
    <2>2. \A t \in TestsOf(s) : ~ Passed(t)
      BY StartOrder DEF Init, TypeOK, Passed
    <2>3. DOMAIN results = {}
      BY DEF Init
    <2> QED BY <2>1, <2>2, <2>3 DEF RecordedInv
  <1>2. TypeOK /\ LoopInv /\ RecordedInv /\ [Next]_vars => LoopInv' /\ RecordedInv'
    BY LoopInvStep, RecordedInvStep
  <1> QED BY <1>1, <1>2, TypeCorrect, PTL DEF Spec

\* A step of the loops is a step of the plan or changes nothing the plan sees.
LEMMA StepImplementsPlan ==
  TypeOK /\ LoopInv /\ RecordedInv /\ [Next]_vars => [Plan!PlanNext]_(Plan!planVars)
  <1> SUFFICES ASSUME TypeOK, LoopInv, RecordedInv, [Next]_vars
               PROVE  [Plan!PlanNext]_(Plan!planVars)
    OBVIOUS
  <1> DEFINE rec == [k \in DOMAIN results |-> results[k].test]
             st  == CASE pc = "report" -> "complete"
                      [] pc = "fatal"  -> "aborted"
                      [] OTHER         -> "running"
  <1>0. \A t : Plan!IsRecorded(t) <=> HasResult(t)
    BY DEF Plan!IsRecorded, HasResult
  <1>a. ASSUME s' = s, results' = results, pc \notin {"report", "fatal"},
               pc' \notin {"report", "fatal"}
        PROVE  [Plan!PlanNext]_(Plan!planVars)
    BY <1>a DEF Plan!planVars
  <1>b. ASSUME s' = s, results' = results, pc \notin {"report", "fatal"}, pc' = "fatal"
        PROVE  Plan!Abort
    BY <1>b DEF Plan!Abort
  <1>1. ASSUME StartVMs \/ EndVMs, pc' = "report"
        PROVE  Plan!Complete
    <2>1. s' = s /\ results' = results /\ pc \notin {"report", "fatal"}
      BY <1>1 DEF StartVMs, EndVMs
    <2>2. RecordedInv'
      BY RecordedInvStep
    <2>3. \A t \in TestsOf(s) : Plan!Planned(s, t) => HasResult(t)
      BY <1>1, <2>1, <2>2 DEF RecordedInv, Passed, HasResult, Plan!Planned
    <2>4. \A t \in Plan!TestsOf(s) : Plan!Planned(s, t) => Plan!IsRecorded(t)
      BY <2>3, <1>0, SameOperators
    <2> QED BY <1>1, <2>1, <2>4 DEF Plan!Complete
  <1>2. ASSUME Record PROVE Plan!RecordNext
    <2>1. pc = "sample" /\ s' = s /\ pc' = "loop"
          /\ results' = Append(results, [test |-> at, summary |-> summary])
      BY <1>2 DEF Record
    <2>2. at \in TestsOf(s)
      BY <2>1, ScenarioFacts DEF TypeOK, Cursors, TestsOf, InCall
    <2>3. Plan!Planned(s, at)
      BY <2>1, PlannedHere DEF LoopInv, TypeOK, InCall
    <2>4. ~ HasResult(at)
      BY <2>1 DEF RecordedInv, HasResult, Passed, Earlier, TypeOK, Cursors
    <2>5. \A u \in TestsOf(s) : Plan!Planned(s, u) /\ Earlier(u, at) => HasResult(u)
      BY DEF RecordedInv, Passed
    <2>6. rec' = Append(rec, at)
      <3>1. /\ Len(results) \in Nat /\ DOMAIN results = 1 .. Len(results)
            /\ DOMAIN results' = 1 .. Len(results) + 1
            /\ \A k \in 1 .. Len(results) : results'[k] = results[k]
            /\ results'[Len(results) + 1].test = at
        BY <2>1 DEF TypeOK
      <3>2. Len(rec) = Len(results)
        BY <3>1
      <3>3. Append(rec, at) = [k \in 1 .. Len(results) + 1 |->
                                 IF k <= Len(results) THEN results[k].test ELSE at]
        BY <3>1, <3>2
      <3>4. \A k \in 1 .. Len(results) + 1 :
               results'[k].test = IF k <= Len(results) THEN results[k].test ELSE at
        BY <3>1
      <3> QED BY <3>1, <3>3, <3>4
    <2>7. \A u \in Plan!TestsOf(s) :
             Plan!Planned(s, u) /\ Plan!Earlier(u, at) => Plan!IsRecorded(u)
      BY <2>5, <1>0, SameOperators
    <2>8. st = "running" /\ st' = "running"
      BY <2>1
    <2> QED
      BY <2>1, <2>2, <2>3, <2>4, <2>6, <2>7, <2>8, <1>0, SameOperators DEF Plan!RecordNext
  <1>3. CASE StartPods \/ Call \/ SkipCall \/ EndPods
    BY <1>3, <1>a DEF StartPods, Call, SkipCall, EndPods
  <1>4. CASE StartVMs \/ EndVMs
    BY <1>4, <1>1, <1>a DEF StartVMs, EndVMs, Plan!PlanNext
  <1>5. CASE ConnectFails \/ PrepareFails \/ RunFails
    BY <1>5, <1>b DEF ConnectFails, PrepareFails, RunFails, Plan!PlanNext
  <1>6. CASE Unsupported \/ Prepare \/ Run \/ Parse \/ ParseFails
    BY <1>6, <1>a DEF Unsupported, Prepare, Run, Parse, ParseFails
  <1>7. CASE Record
    BY <1>7, <1>2 DEF Plan!PlanNext
  <1>8. CASE RetryHead
    BY <1>8, <1>a, <1>b DEF RetryHead, Plan!PlanNext
  <1>9. CASE Rerun \/ RerunFails \/ Reparse \/ ReparseFails
    BY <1>9, <1>a DEF Rerun, RerunFails, Reparse, ReparseFails
  <1>10. CASE UNCHANGED vars
    BY <1>10 DEF vars, Plan!planVars
  <1> QED
    BY <1>3, <1>4, <1>5, <1>6, <1>7, <1>8, <1>9, <1>10
       DEF Next, Loops, Sampling, Retrying, Exited

\* The nested loops with their skips, early returns and fatal exits implement the plan:
\* exactly the planned tests get a result, each once and in order, and the report is
\* reached only when none is missing.
THEOREM LoopsImplementPlan == Spec => ImplementsPlan
  <1>1. Init => Plan!PlanInit
    BY DEF Init, Plan!PlanInit
  <1>2. TypeOK /\ LoopInv /\ RecordedInv /\ [Next]_vars => [Plan!PlanNext]_(Plan!planVars)
    BY StepImplementsPlan
  <1> QED BY <1>1, <1>2, LoopsKeepPlan, PTL DEF Spec, ImplementsPlan, Plan!PlanSpec

-----------------------------------------------------------------------------
(***************************************************************************)
(* What the sampling loop stores.                                          *)
(***************************************************************************)

\* How many Runs have returned since the last stored sample, at each point of the
\* sampling loop: the retry counter counts the rejected repetitions and nothing else.
SamplingInv ==
  /\ pc \in {"pods", "loop", "prepare", "connect"} => summary = << >> /\ runs = 0
  /\ pc \in InCall => /\ Len(summary) <= nc.samples
                      /\ SoundSummary(at, summary)
  /\ pc \in InCall \ {"sample"} => Len(summary) < nc.samples
  /\ pc = "sample" => runs = LastRun(summary)
  /\ pc = "parse" => runs = LastRun(summary) + 1
  /\ pc \in {"retry", "rerun"} => runs = LastRun(summary) + 1 + try
  /\ pc = "reparse" => runs = LastRun(summary) + 2 + try

\* The run number of the last sample is a number.
LEMMA LastRunType ==
  ASSUME NEW sum \in Seq(SampleType)
  PROVE  LastRun(sum) \in Nat
  <1>1. CASE sum = << >>
    BY <1>1 DEF LastRun
  <1>2. CASE sum # << >>
    <2>1. Len(sum) \in 1 .. Len(sum)
      BY <1>2
    <2>2. sum[Len(sum)] \in SampleType
      BY <2>1
    <2> QED BY <1>2, <2>2 DEF LastRun, SampleType
  <1> QED BY <1>1, <1>2

\* Storing an accepted output that is at most Retry Runs away keeps the summary sound.
LEMMA StoreSound ==
  ASSUME TypeOK, SoundSummary(at, summary), ParseResults(driver, out).ok,
         runs \in (LastRun(summary) + 1) .. (LastRun(summary) + 1 + Retry),
         StoreSample, s' = s, at' = at
  PROVE  /\ SoundSummary(at, summary)'
         /\ LastRun(summary') = runs
         /\ Len(summary') = Len(summary) + 1
  <1> DEFINE n == Len(summary)
             new == [run |-> runs, out |-> out]
  <1>1. /\ n \in Nat /\ DOMAIN summary = 1 .. n /\ Len(summary') = n + 1
        /\ DOMAIN summary' = 1 .. n + 1
        /\ summary'[n + 1] = new
        /\ \A k \in 1 .. n : summary'[k] = summary[k]
    BY DEF StoreSample, TypeOK
  <1>2. summary' # << >>
    BY <1>1
  <1>3. LastRun(summary') = runs
    BY <1>1, <1>2 DEF LastRun
  <1>4. LastRun(summary) = IF n + 1 = 1 THEN 0 ELSE summary'[n].run
    BY <1>1 DEF LastRun, TypeOK
  <1>5. SoundSummary(at, summary)'
    <2> SUFFICES ASSUME NEW k \in 1 .. n + 1
                 PROVE  /\ ParseResults(driver, summary'[k].out).ok
                        /\ summary'[k].run
                             \in ((IF k = 1 THEN 0 ELSE summary'[k - 1].run) + 1) ..
                                 ((IF k = 1 THEN 0 ELSE summary'[k - 1].run) + 1 + Retry)
      BY <1>1 DEF SoundSummary, driver
    <2>1. CASE k = n + 1
      BY <1>1, <1>4, <2>1
    <2>2. CASE k \in 1 .. n
      <3>1. summary'[k] = summary[k] /\ (k # 1 => summary'[k - 1] = summary[k - 1])
        BY <1>1, <2>2
      <3> QED BY <1>1, <2>2, <3>1 DEF SoundSummary, driver
    <2> QED BY <1>1, <2>1, <2>2
  <1> QED BY <1>1, <1>3, <1>5

\* Every step keeps the count of Runs.
LEMMA SamplingInvStep == TypeOK /\ SamplingInv /\ [Next]_vars => SamplingInv'
  <1> SUFFICES ASSUME TypeOK, SamplingInv, [Next]_vars PROVE SamplingInv' OBVIOUS
  <1> USE RetryAssumption
  <1>0. LastRun(summary) \in Nat /\ Len(summary) \in Nat /\ try \in Nat
    BY LastRunType DEF TypeOK
  <1>a. pc \in InCall => nc.samples \in Nat \ {0}
    BY ScenarioFacts DEF TypeOK, nc, ConfigType, Cursors
  <1>1. CASE StartPods \/ Call \/ SkipCall \/ EndPods
    BY <1>1 DEF StartPods, Call, SkipCall, EndPods, callVars, SamplingInv, InCall
  <1>2. CASE StartVMs \/ ConnectFails \/ EndVMs
    BY <1>2 DEF StartVMs, ConnectFails, EndVMs, callVars, SamplingInv, InCall
  <1>3. CASE PrepareFails \/ RunFails
    BY <1>3 DEF PrepareFails, RunFails, SamplingInv, InCall
  <1>4. CASE Unsupported
    BY <1>4 DEF Unsupported, callVars, SamplingInv, InCall
  <1>5. CASE Prepare
    <2>1. nc' = nc /\ nc.samples \in Nat \ {0}
      BY <1>5, ScenarioFacts DEF Prepare, nc, TypeOK, ConfigType, Cursors
    <2>2. summary' = << >> /\ runs' = 0 /\ pc' = "sample"
      BY <1>5 DEF Prepare, callVars, SamplingInv
    <2>3. SoundSummary(at, summary)'
      BY <2>2 DEF SoundSummary
    <2> QED BY <2>1, <2>2, <2>3 DEF SamplingInv, LastRun, InCall
  <1>6. CASE Run
    BY <1>0, <1>6 DEF Run, Returned, SamplingInv, InCall, SoundSummary, LastRun, nc, TypeOK
  <1>7. CASE Parse
    <2>1. /\ SoundSummary(at, summary)' /\ LastRun(summary') = runs
          /\ Len(summary') = Len(summary) + 1
      BY <1>0, <1>7, StoreSound DEF Parse, SamplingInv, InCall
    <2> QED BY <1>0, <1>a, <1>7, <2>1 DEF Parse, SamplingInv, InCall, nc
  <1>8. CASE ParseFails
    BY <1>0, <1>8 DEF ParseFails, SamplingInv, InCall, SoundSummary, nc
  <1>9. CASE Record
    BY <1>9 DEF Record, Return, SamplingInv, InCall
  <1>10. CASE RetryHead
    BY <1>10 DEF RetryHead, callVars, SamplingInv, InCall, SoundSummary, nc
  <1>11. CASE Rerun
    BY <1>0, <1>11 DEF Rerun, Returned, SamplingInv, InCall, SoundSummary, nc, TypeOK
  <1>12. CASE RerunFails
    BY <1>12 DEF RerunFails, callVars, SamplingInv, InCall, SoundSummary, nc
  <1>13. CASE Reparse
    <2>1. runs \in (LastRun(summary) + 1) .. (LastRun(summary) + 1 + Retry)
      BY <1>0, <1>13 DEF Reparse, SamplingInv, TypeOK
    <2>2. /\ SoundSummary(at, summary)' /\ LastRun(summary') = runs
          /\ Len(summary') = Len(summary) + 1
      BY <1>13, <2>1, StoreSound DEF Reparse, SamplingInv, InCall
    <2> QED BY <1>0, <1>a, <1>13, <2>2 DEF Reparse, SamplingInv, InCall, nc
  <1>14. CASE ReparseFails
    BY <1>0, <1>14 DEF ReparseFails, SamplingInv, InCall, SoundSummary, nc
  <1>15. CASE UNCHANGED vars
    BY <1>15 DEF vars, SamplingInv, SoundSummary, nc
  <1> QED
    BY <1>1, <1>2, <1>3, <1>4, <1>5, <1>6, <1>7, <1>8, <1>9, <1>10, <1>11, <1>12, <1>13,
       <1>14, <1>15 DEF Next, Loops, Sampling, Retrying, Exited

\* The count of Runs is right in every reachable state.
THEOREM SamplingInvariant == Spec => [](TypeOK /\ SamplingInv)
  <1>1. Init => SamplingInv
    BY DEF Init, SamplingInv, InCall
  <1>2. TypeOK /\ SamplingInv /\ [Next]_vars => SamplingInv'
    BY SamplingInvStep
  <1> QED BY <1>1, <1>2, TypeCorrect, PTL DEF Spec

\* A recorded result stays as it was recorded, and the one that is added is the summary
\* of the call in progress.
LEMMA ResultsSoundStep ==
  TypeOK /\ SamplingInv /\ ResultsSound /\ [Next]_vars => ResultsSound'
  <1> SUFFICES ASSUME TypeOK, SamplingInv, ResultsSound, [Next]_vars PROVE ResultsSound'
    OBVIOUS
  <1>0. s' = s
    BY DEF Next, Loops, Sampling, Retrying, Exited, vars, StartPods, Call, SkipCall, EndPods,
           StartVMs, ConnectFails, EndVMs, PrepareFails, Unsupported, Prepare, Run, RunFails,
           Parse, ParseFails, Record, RetryHead, Rerun, RerunFails, Reparse, ReparseFails
  <1>1. CASE Record
    <2>1. /\ pc = "sample" /\ Len(summary) >= nc.samples
          /\ results' = Append(results, [test |-> at, summary |-> summary])
      BY <1>1 DEF Record
    <2>2. Len(summary) = nc.samples /\ SoundSummary(at, summary)
      <3>1. nc.samples \in Nat /\ Len(summary) \in Nat
        BY <2>1, ScenarioFacts DEF TypeOK, nc, ConfigType, Cursors, InCall
      <3> QED BY <2>1, <3>1 DEF SamplingInv, InCall
    <2>3. /\ Len(results) \in Nat /\ DOMAIN results = 1 .. Len(results)
          /\ DOMAIN results' = 1 .. Len(results) + 1
          /\ \A k \in 1 .. Len(results) : results'[k] = results[k]
          /\ results'[Len(results) + 1] = [test |-> at, summary |-> summary]
      BY <2>1 DEF TypeOK
    <2> SUFFICES ASSUME NEW k \in 1 .. Len(results) + 1
                 PROVE  /\ Len(results'[k].summary) = s.Configs[results'[k].test.ci].samples
                        /\ SoundSummary(results'[k].test, results'[k].summary)
      BY <1>0, <2>3 DEF ResultsSound, SoundSummary
    <2>4. CASE k = Len(results) + 1
      BY <2>2, <2>3, <2>4 DEF nc
    <2>5. CASE k \in 1 .. Len(results)
      BY <2>3, <2>5 DEF ResultsSound
    <2> QED BY <2>3, <2>4, <2>5
  <1>2. CASE ~ Record
    <2>1. results' = results
      BY <1>2
         DEF Next, Loops, Sampling, Retrying, Exited, vars, StartPods, Call, SkipCall,
             EndPods, StartVMs, ConnectFails, EndVMs, PrepareFails, Unsupported, Prepare,
             Run, RunFails, Parse, ParseFails, RetryHead, Rerun, RerunFails, Reparse,
             ReparseFails
    <2> QED BY <1>0, <2>1 DEF ResultsSound, SoundSummary
  <1> QED BY <1>1, <1>2

\* However the Runs turn out, a recorded result has its configured number of samples,
\* each from a Run of its own whose output the driver accepted.
THEOREM RecordedResultsAreSound == Spec => []ResultsSound
  <1>1. Init => ResultsSound
    BY DEF Init, ResultsSound
  <1> QED BY <1>1, ResultsSoundStep, SamplingInvariant, PTL DEF Spec

\* executeWorkload gives a sample up only after the first Run and all Retry repetitions
\* returned something the driver rejected.
THEOREM RetriesAreSpent == Spec => GivesUpOnlyAfterRetries
  <1>1. TypeOK /\ SamplingInv /\ [Next]_vars
          => [pc = "retry" /\ pc' = "fatal" => runs = LastRun(summary) + 1 + Retry]_vars
    <2> SUFFICES ASSUME TypeOK, SamplingInv, [Next]_vars, pc = "retry", pc' = "fatal"
                 PROVE  runs = LastRun(summary) + 1 + Retry
      OBVIOUS
    <2>1. RetryHead
      BY DEF Next, Loops, Sampling, Retrying, Exited, vars, StartPods, Call, SkipCall,
             EndPods, StartVMs, ConnectFails, EndVMs, PrepareFails, Unsupported, Prepare,
             Run, RunFails, Parse, ParseFails, Record, Rerun, RerunFails, Reparse,
             ReparseFails
    <2>2. try = Retry
      BY <2>1, RetryAssumption DEF RetryHead, TypeOK
    <2> QED BY <2>2 DEF SamplingInv
  <1> QED BY <1>1, SamplingInvariant, PTL DEF Spec, GivesUpOnlyAfterRetries
=============================================================================
