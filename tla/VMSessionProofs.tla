--------------------------- MODULE VMSessionProofs ---------------------------
(***************************************************************************)
(* Proofs about VMSession for all inputs and all retry budgets.            *)
(***************************************************************************)
EXTENDS VMSession, TLAPS

\* A session goes on only while samples are missing, and only within the budget.
BudgetInv ==
  /\ pc \notin {"report", "exit", "fatal"} => taken < in.samples
  /\ again /\ ~ Ended => try < Retry

\* When iperf3's log file is read there is a report of a success in it; it is the first one,
\* or there was a failure before.
LogInv ==
  pc = "run" /\ in.driver = "iperf3" /\ step = 3 =>
    /\ Len(logfile) >= 1
    /\ Head(logfile) = "failed" => Len(logfile) > 1

Tmp == "tmp"

\* The first call of GetVirtctlPath decides; what it extracted, or found, stays until the
\* exit.
BinaryInv ==
  /\ once \in [done : BOOLEAN, path : {<< >>, << Tmp >>, << System >>}]
  /\ ~ once.done => once.path = << >>
  /\ disk \subseteq {<< Tmp >>, << System >>}
  /\ << Tmp >> \in disk => once.path = << Tmp >>
  /\ pc # "exit" /\ once.path # << >> => once.path \in disk
  /\ pc # "exit" /\ in.system => << System >> \in disk
  /\ pc = "exit" => << Tmp >> \notin disk

IInv == TypeOK /\ BudgetInv /\ LogInv /\ OutputOfSuccess /\ BinaryInv

-----------------------------------------------------------------------------
\* Every driver runs three commands; what they are.
LEMMA StepsOfDrivers ==
  ASSUME TypeOK
  PROVE  /\ Len(Steps) = 3 /\ in.driver \in DriverNames
         /\ in.driver = "netperf" => Steps = << "present", "trial", "command" >>
         /\ in.driver = "iperf3"  => Steps = << "present", "command", "cat" >>
         /\ in.driver = "uperf"   => Steps = << "profile", "present", "command" >>
  <1>1. in.driver \in DriverNames
    BY InputsAssumption DEF TypeOK, InputType
  <1> QED BY <1>1 DEF Steps, DriverNames

LEMMA LenSriovSteps == Len(SriovSteps) = 6
  BY DEF SriovSteps

\* GetVirtctlPath, whichever command needs it.
LEMMA VirtctlPath ==
  ASSUME TypeOK, BinaryInv, GetVirtctlPath, pc # "exit", pc' # "exit", in' = in
  PROVE  BinaryInv' /\ once'.done \in BOOLEAN
  <1>0. in.embedded \in BOOLEAN /\ in.system \in BOOLEAN
    BY InputsAssumption DEF TypeOK, InputType
  <1>1. CASE once.done
    BY <1>1 DEF GetVirtctlPath, BinaryInv
  <1>2. CASE ~ once.done
    <2> DEFINE path == IF in.embedded THEN << Tmp >>
                       ELSE IF in.system THEN << System >> ELSE << >>
    <2>1. /\ once' = [done |-> TRUE, path |-> path]
          /\ disk' = disk \cup (IF in.embedded THEN {path} ELSE {})
      BY <1>2 DEF GetVirtctlPath, Tmp
    <2>2. << Tmp >> # << >> /\ << System >> # << >> /\ << Tmp >> # << System >>
      BY DEF Tmp, System
    <2>3. once'.done /\ once'.path = path
          /\ once' \in [done : BOOLEAN, path : {<< >>, << Tmp >>, << System >>}]
      BY <2>1
    <2>4. CASE in.embedded
      BY <1>2, <2>1, <2>2, <2>3, <2>4 DEF BinaryInv
    <2>5. CASE ~ in.embedded /\ in.system
      BY <1>2, <2>1, <2>2, <2>3, <2>5 DEF BinaryInv
    <2>6. CASE ~ in.embedded /\ ~ in.system
      BY <1>2, <2>1, <2>2, <2>3, <2>6 DEF BinaryInv
    <2> QED BY <2>4, <2>5, <2>6
  <1> QED BY <1>1, <1>2

\* A command over either kind of connection.
LEMMA ExecuteBinary ==
  ASSUME TypeOK, BinaryInv, NEW ok \in BOOLEAN, RunVirtctl(ok) \/ RunSSH(ok),
         pc # "exit", pc' # "exit", in' = in
  PROVE  BinaryInv' /\ once'.done \in BOOLEAN /\ link' = link
  <1>1. CASE RunVirtctl(ok)
    BY <1>1, VirtctlPath DEF RunVirtctl
  <1>2. CASE RunSSH(ok)
    BY <1>2 DEF RunSSH, BinaryInv
  <1> QED BY <1>1, <1>2

\* Steps that touch neither the binaries nor the input.
LEMMA SameBinary ==
  ASSUME BinaryInv, UNCHANGED << in, once, disk >>, pc # "exit", pc' # "exit"
  PROVE  BinaryInv'
  BY DEF BinaryInv

LEMMA InitIInv == Init => IInv
  <1> SUFFICES ASSUME Init PROVE IInv OBVIOUS
  <1>0. in \in InputType /\ in.samples \in Nat \ {0}
    BY InputsAssumption DEF Init, InputType
  <1>1. ran \in BOOLEAN /\ again \in BOOLEAN /\ booted \in BOOLEAN /\ installed \in BOOLEAN
        /\ once.done \in BOOLEAN
    BY Zenon DEF Init
  <1>2. TypeOK
    BY <1>0, <1>1, LenSriovSteps, BoundsAssumption DEF Init, TypeOK
  <1>3. BudgetInv /\ LogInv /\ OutputOfSuccess
    BY <1>0 DEF Init, BudgetInv, LogInv, OutputOfSuccess
  <1>4. BinaryInv
    BY DEF Init, BinaryInv, Tmp, System
  <1> QED BY <1>2, <1>3, <1>4 DEF IInv

\* What the facts about the input give everywhere.
LEMMA InputFacts ==
  ASSUME IInv
  PROVE  /\ in.useVirtctl \in BOOLEAN /\ in.sriov \in BOOLEAN /\ in.system \in BOOLEAN
         /\ in.samples \in Nat \ {0}
  BY InputsAssumption DEF IInv, TypeOK, InputType

\* The steps of main that only move pc, step and i, before and between the calls of Run.
LEMMA MovingSteps ==
  ASSUME IInv, UNCHANGED << in, runVars, loopVars, vmVars >>, BinaryInv', once'.done \in BOOLEAN,
         link' \in {"none", "up", "broken"},
         pc' \in {"sriov", "connect", "sample", "fatal"},
         pc \notin {"report", "exit", "fatal"},
         step' \in 1 .. Len(SriovSteps), i' \in 0 .. VMRetry + SSHRetry
  PROVE  IInv'
  <1>1. ran' \in BOOLEAN /\ again' \in BOOLEAN /\ booted' \in BOOLEAN /\ installed' \in BOOLEAN
    BY Zenon DEF IInv, TypeOK, runVars, loopVars, vmVars
  <1>2. TypeOK'
    BY <1>1, LenSriovSteps DEF IInv, TypeOK, runVars, loopVars, vmVars
  <1>3. BudgetInv'
    BY DEF IInv, BudgetInv, Ended, loopVars
  <1>4. LogInv' /\ OutputOfSuccess'
    BY DEF LogInv, OutputOfSuccess
  <1> QED BY <1>2, <1>3, <1>4 DEF IInv

LEMMA SriovStep ==
  ASSUME IInv, StartSriov \/ SriovOK \/ SriovFails
  PROVE  IInv'
  <1>0. pc \notin {"report", "exit", "fatal"} /\ pc # "exit"
    BY DEF StartSriov, SriovOK, SriovFails
  <1>t. TypeOK /\ BinaryInv
    BY DEF IInv
  <1>b. VMRetry \in Nat /\ SSHRetry \in Nat \ {0}
    BY BoundsAssumption
  <1>1. CASE StartSriov
    <2>1. BinaryInv'
      BY <1>0, <1>1, <1>t, SameBinary DEF StartSriov
    <2>2. once'.done \in BOOLEAN
      BY <1>1, <1>t DEF StartSriov, TypeOK
    <2> QED BY <1>0, <1>1, <2>1, <2>2, MovingSteps DEF StartSriov, IInv, TypeOK
  <1>2. CASE SriovOK
    <2>1. BinaryInv' /\ once'.done \in BOOLEAN /\ link' = link
      BY <1>0, <1>2, <1>t, ExecuteBinary DEF SriovOK
    <2>2. step' \in 1 .. Len(SriovSteps)
      BY <1>2, <1>t, LenSriovSteps DEF SriovOK, TypeOK
    <2> QED BY <1>0, <1>2, <1>t, <1>b, <2>1, <2>2, MovingSteps DEF SriovOK, TypeOK
  <1>3. CASE SriovFails
    <2>1. BinaryInv' /\ once'.done \in BOOLEAN /\ link' = link
      BY <1>0, <1>3, <1>t, ExecuteBinary DEF SriovFails
    <2>2. i' \in 0 .. VMRetry + SSHRetry
      BY <1>3, <1>t, <1>b DEF SriovFails, TypeOK
    <2> QED BY <1>0, <1>3, <1>t, <2>1, <2>2, MovingSteps DEF SriovFails, TypeOK
  <1> QED BY <1>1, <1>2, <1>3

LEMMA ConnectStep ==
  ASSUME IInv, ConnectVirtctl \/ Connect \/ ConnectFails \/ RunReturnsError
  PROVE  IInv'
  <1>0. pc \notin {"report", "exit", "fatal"} /\ pc # "exit"
    BY DEF ConnectVirtctl, Connect, ConnectFails, RunReturnsError
  <1>t. TypeOK /\ BinaryInv
    BY DEF IInv
  <1>b. VMRetry \in Nat /\ SSHRetry \in Nat \ {0}
    BY BoundsAssumption
  <1>1. BinaryInv'
    BY <1>0, <1>t, SameBinary DEF ConnectVirtctl, Connect, ConnectFails, RunReturnsError
  <1>2. once'.done \in BOOLEAN
    BY <1>t DEF ConnectVirtctl, Connect, ConnectFails, RunReturnsError, TypeOK
  <1>3. i' \in 0 .. VMRetry + SSHRetry
    BY <1>t, <1>b DEF ConnectVirtctl, Connect, ConnectFails, RunReturnsError, TypeOK
  <1> QED BY <1>0, <1>1, <1>2, <1>3, <1>t, MovingSteps
          DEF ConnectVirtctl, Connect, ConnectFails, RunReturnsError, TypeOK
LEMMA StartRunStep ==
  ASSUME IInv, StartRun
  PROVE  IInv'
  <1>t. TypeOK /\ BinaryInv /\ BudgetInv
    BY DEF IInv
  <1>1. BinaryInv'
    BY <1>t, SameBinary DEF StartRun
  <1>2. ran' \in BOOLEAN /\ again' \in BOOLEAN /\ booted' \in BOOLEAN /\ installed' \in BOOLEAN
    BY <1>t, Zenon DEF StartRun, TypeOK, loopVars, vmVars
  <1>3. Len(Steps') = 3
    BY <1>t, StepsOfDrivers DEF StartRun, Steps
  <1>4. TypeOK'
    BY <1>t, <1>2, <1>3, LenSriovSteps, BoundsAssumption DEF StartRun, TypeOK, loopVars, vmVars
  <1>5. BudgetInv'
    BY <1>t DEF StartRun, BudgetInv, Ended, loopVars
  <1>6. LogInv' /\ OutputOfSuccess'
    BY DEF StartRun, LogInv, OutputOfSuccess
  <1> QED BY <1>1, <1>4, <1>5, <1>6 DEF IInv

\* What the two ways a command ends have in common.
LEMMA CommandCommon ==
  ASSUME IInv, CommandOK \/ CommandFails
  PROVE  /\ BinaryInv' /\ BudgetInv' /\ once'.done \in BOOLEAN /\ link' = link
         /\ ran' \in BOOLEAN /\ again' \in BOOLEAN /\ booted' \in BOOLEAN
         /\ installed' \in BOOLEAN
         /\ pc = "run" /\ in' = in /\ try' = try /\ taken' = taken
         /\ pc' \in {"run", "error", "parse"}
         /\ Steps' = Steps
  <1>t. TypeOK /\ BinaryInv /\ BudgetInv
    BY DEF IInv
  <1>1. /\ pc = "run" /\ in' = in /\ try' = try /\ taken' = taken /\ again' = again
        /\ booted' = booted /\ installed' = installed
    BY DEF CommandOK, CommandFails, loopVars, vmVars
  <1>2. pc' \in {"run", "error", "parse"}
    BY <1>1 DEF CommandOK, CommandFails
  <1>3. RunVirtctl(TRUE) \/ RunSSH(TRUE) \/ RunVirtctl(FALSE) \/ RunSSH(FALSE)
    BY DEF CommandOK, CommandFails, Execute
  <1>4. BinaryInv' /\ once'.done \in BOOLEAN /\ link' = link
    BY <1>t, <1>1, <1>2, <1>3, ExecuteBinary
  <1>5. ran' \in BOOLEAN
    <2>1. ran \in BOOLEAN
      BY <1>t DEF TypeOK
    <2>2. ran' = (ran \/ Doing = "trial") \/ ran' = ran
      BY Zenon DEF CommandOK, CommandFails
    <2> QED BY <2>1, <2>2, Zenon
  <1>6. again' \in BOOLEAN /\ booted' \in BOOLEAN /\ installed' \in BOOLEAN
    BY <1>t, <1>1, Zenon DEF TypeOK
  <1>7. BudgetInv'
    BY <1>t, <1>1, <1>2 DEF BudgetInv, Ended
  <1>8. Steps' = Steps
    BY <1>1 DEF Steps
  <1> QED BY <1>1, <1>2, <1>4, <1>5, <1>6, <1>7, <1>8

LEMMA CommandOKStep ==
  ASSUME IInv, CommandOK
  PROVE  IInv'
  <1> DEFINE Reports == {"good", "bad", "failed"}
  <1>t. TypeOK /\ LogInv
    BY DEF IInv
  <1>c. /\ BinaryInv' /\ BudgetInv' /\ once'.done \in BOOLEAN /\ link' = link
        /\ ran' \in BOOLEAN /\ again' \in BOOLEAN /\ booted' \in BOOLEAN
        /\ installed' \in BOOLEAN
        /\ pc = "run" /\ in' = in /\ try' = try /\ taken' = taken
        /\ pc' \in {"run", "error", "parse"}
        /\ Steps' = Steps
    BY CommandCommon
  <1>s. /\ Len(Steps) = 3 /\ in.driver \in DriverNames
        /\ in.driver = "netperf" => Steps = << "present", "trial", "command" >>
        /\ in.driver = "iperf3"  => Steps = << "present", "command", "cat" >>
        /\ in.driver = "uperf"   => Steps = << "profile", "present", "command" >>
    BY <1>t, StepsOfDrivers
  <1>d. step \in 1 .. 3 /\ logfile \in Seq(Reports)
    BY <1>t, <1>c, <1>s DEF TypeOK
  <1>1. PICK o \in {"good", "bad"} :
          /\ logfile' = IF Doing = "command" /\ in.driver = "iperf3" THEN Append(logfile, o)
                        ELSE logfile
          /\ out' = CASE Doing = "command" -> o
                      [] Doing = "cat" -> Head(logfile)
                      [] Doing \notin {"command", "cat"} -> out
    BY DEF CommandOK
  <1>2. /\ i' = 0
        /\ step < 3 => step' = step + 1 /\ pc' = "run"
        /\ step = 3 => step' = step /\ pc' \in {"error", "parse"}
    BY <1>c, <1>d, <1>s DEF CommandOK
  <1>3. logfile' \in Seq(Reports)
    BY <1>1, <1>d
  <1>4. Doing = "cat" => /\ in.driver = "iperf3" /\ step = 3
                         /\ Len(logfile) >= 1 /\ Head(logfile) \in Reports
                         /\ Head(logfile) = "failed" => Len(logfile) > 1
    <2>1. Doing = "cat" => in.driver = "iperf3" /\ step = 3
      BY <1>d, <1>s DEF Doing, DriverNames
    <2> QED BY <2>1, <1>t, <1>c, <1>d DEF LogInv
  <1>5. out' \in {"none", "good", "bad", "failed"}
    BY <1>1, <1>4, <1>t DEF TypeOK
  <1>6. TypeOK'
    BY <1>t, <1>c, <1>s, <1>d, <1>2, <1>3, <1>5, LenSriovSteps, BoundsAssumption DEF TypeOK
  <1>7. LogInv'
    <2> SUFFICES ASSUME pc' = "run", in.driver = "iperf3", step' = 3
                 PROVE  /\ Len(logfile') >= 1
                        /\ Head(logfile') = "failed" => Len(logfile') > 1
      BY <1>c DEF LogInv
    <2>1. step = 2 /\ Doing = "command"
      BY <1>2, <1>d, <1>s DEF Doing
    <2>2. logfile' = Append(logfile, o) /\ Len(logfile') = Len(logfile) + 1
      BY <1>1, <1>d, <2>1
    <2>3. CASE logfile = << >>
      BY <2>2, <2>3
    <2>4. CASE logfile # << >>
      BY <2>2, <2>4, <1>d
    <2> QED BY <2>3, <2>4
  <1>8. OutputOfSuccess'
    <2> SUFFICES ASSUME pc' = "parse"
                 PROVE  \/ out' \in {"good", "bad"}
                        \/ in.driver = "iperf3" /\ Len(logfile') > 1 /\ Head(logfile') = "failed"
      BY <1>c DEF OutputOfSuccess
    <2>1. step = 3
      BY <1>2, <1>d
    <2>2. Doing \in {"command", "cat"}
      BY <2>1, <1>s DEF Doing, DriverNames
    <2>3. CASE Doing = "command"
      BY <2>3, <1>1
    <2>4. CASE Doing = "cat"
      <3>1. logfile' = logfile /\ out' = Head(logfile)
        BY <2>4, <1>1
      <3> QED BY <3>1, <2>4, <1>4
    <2> QED BY <2>2, <2>3, <2>4
  <1> QED BY <1>6, <1>7, <1>8, <1>c DEF IInv

LEMMA CommandFailsStep ==
  ASSUME IInv, CommandFails
  PROVE  IInv'
  <1> DEFINE Reports == {"good", "bad", "failed"}
  <1>t. TypeOK /\ LogInv
    BY DEF IInv
  <1>c. /\ BinaryInv' /\ BudgetInv' /\ once'.done \in BOOLEAN /\ link' = link
        /\ ran' \in BOOLEAN /\ again' \in BOOLEAN /\ booted' \in BOOLEAN
        /\ installed' \in BOOLEAN
        /\ pc = "run" /\ in' = in /\ try' = try /\ taken' = taken
        /\ pc' \in {"run", "error", "parse"}
        /\ Steps' = Steps
    BY CommandCommon
  <1>s. /\ Len(Steps) = 3 /\ in.driver \in DriverNames
        /\ in.driver = "netperf" => Steps = << "present", "trial", "command" >>
        /\ in.driver = "iperf3"  => Steps = << "present", "command", "cat" >>
        /\ in.driver = "uperf"   => Steps = << "profile", "present", "command" >>
    BY <1>t, StepsOfDrivers
  <1>d. step \in 1 .. 3 /\ logfile \in Seq(Reports) /\ i \in 0 .. VMRetry + SSHRetry
        /\ VMRetry \in Nat /\ SSHRetry \in Nat \ {0}
    BY <1>t, <1>c, <1>s, BoundsAssumption DEF TypeOK
  <1>1. \/ Repeated /\ i < VMRetry /\ i' = i + 1 /\ step' = step /\ pc' = "run"
        \/ Doing = "trial" /\ i' = 0 /\ step' = step + 1 /\ pc' = "run"
        \/ i' = 0 /\ pc' = "error" /\ step' = step
    BY <1>c DEF CommandFails
  <1>2. Doing = "trial" => in.driver = "netperf" /\ step = 2
    BY <1>d, <1>s DEF Doing, DriverNames
  <1>3. logfile' \in Seq(Reports) /\ out' \in {"none", "good", "bad", "failed"}
    <2>1. logfile' = logfile \/ logfile' = Append(logfile, "failed")
      BY DEF CommandFails
    <2>2. out' = "failed" \/ out' = out
      BY DEF CommandFails
    <2> QED BY <2>1, <2>2, <1>d, <1>t DEF TypeOK
  <1>4. step' \in 1 .. 3 /\ i' \in 0 .. VMRetry + SSHRetry
    BY <1>1, <1>2, <1>d
  <1>5. TypeOK'
    BY <1>t, <1>c, <1>s, <1>3, <1>4, LenSriovSteps DEF TypeOK
  <1>6. LogInv'
    <2> SUFFICES ASSUME pc' = "run", in.driver = "iperf3", step' = 3
                 PROVE  /\ Len(logfile') >= 1
                        /\ Head(logfile') = "failed" => Len(logfile') > 1
      BY <1>c DEF LogInv
    <2>1. step = 3 /\ Doing = "cat"
      BY <1>1, <1>2, <1>d, <1>s DEF Doing
    <2>2. logfile' = logfile
      BY <2>1 DEF CommandFails
    <2> QED BY <2>1, <2>2, <1>t, <1>c DEF LogInv
  <1>7. OutputOfSuccess'
    BY <1>1 DEF OutputOfSuccess
  <1> QED BY <1>5, <1>6, <1>7, <1>c DEF IInv
LEMMA ParseStep ==
  ASSUME IInv, ParseOK \/ ParseFails
  PROVE  IInv'
  <1>t. TypeOK /\ BinaryInv /\ BudgetInv
    BY DEF IInv
  <1>0. /\ pc = "parse"
        /\ in' = in /\ step' = step /\ i' = i /\ ran' = ran /\ out' = out /\ logfile' = logfile
        /\ booted' = booted /\ installed' = installed /\ link' = link
        /\ once' = once /\ disk' = disk
        /\ pc' \in {"sample", "report", "fatal"}
    BY DEF ParseOK, ParseFails, runVars, vmVars
  <1>n. in.samples \in Nat \ {0} /\ Retry \in Nat /\ taken \in Nat /\ taken < in.samples
        /\ try \in 0 .. Retry
    BY <1>t, <1>0, InputFacts, BoundsAssumption DEF TypeOK, BudgetInv
  <1>1. BinaryInv'
    BY <1>t, <1>0, SameBinary
  <1>2. ran' \in BOOLEAN /\ booted' \in BOOLEAN /\ installed' \in BOOLEAN
        /\ once'.done \in BOOLEAN
    BY <1>t, <1>0, Zenon DEF TypeOK
  <1>3. again' \in BOOLEAN
    BY Zenon DEF ParseOK, ParseFails
  <1>4. /\ try' \in 0 .. Retry /\ taken' \in 0 .. in.samples
        /\ pc' # "report" /\ pc' # "fatal" => taken' < in.samples
        /\ again' /\ pc' # "fatal" => try' < Retry
    <2>1. CASE ParseOK
      BY <2>1, <1>n DEF ParseOK
    <2>2. CASE ParseFails
      <3>1. taken' = taken /\ (pc' = IF try' < Retry THEN "sample" ELSE "fatal")
        BY <2>2 DEF ParseFails
      <3>2. CASE again
        <4>1. try' = try + 1 /\ try < Retry
          BY <2>2, <3>2, <1>t, <1>0, Zenon DEF ParseFails, BudgetInv, Ended
        <4> QED BY <3>1, <4>1, <1>n
      <3>3. CASE ~ again
        <4>1. try' = 0
          BY <2>2, <3>3 DEF ParseFails
        <4> QED BY <3>1, <4>1, <1>n
      <3> QED BY <3>2, <3>3
    <2> QED BY <2>1, <2>2
  <1>5. TypeOK'
    BY <1>t, <1>0, <1>2, <1>3, <1>4 DEF TypeOK
  <1>6. BudgetInv'
    BY <1>0, <1>4 DEF BudgetInv, Ended
  <1>7. LogInv' /\ OutputOfSuccess'
    BY <1>0 DEF LogInv, OutputOfSuccess
  <1> QED BY <1>1, <1>5, <1>6, <1>7 DEF IInv

LEMMA ExitStep ==
  ASSUME IInv, Exit
  PROVE  IInv'
  <1>t. TypeOK /\ BinaryInv /\ BudgetInv
    BY DEF IInv
  <1>1. BinaryInv'
    <2>1. << Tmp >> # << >>
      BY DEF Tmp
    <2>2. << Tmp >> \notin disk'
      BY <1>t, <2>1 DEF Exit, BinaryInv, IsTemporaryPath
    <2>3. disk' \subseteq disk
      BY DEF Exit
    <2> QED BY <1>t, <2>2, <2>3 DEF Exit, BinaryInv
  <1>2. /\ ran' \in BOOLEAN /\ again' \in BOOLEAN /\ booted' \in BOOLEAN
        /\ installed' \in BOOLEAN /\ once'.done \in BOOLEAN
    BY <1>t, Zenon DEF Exit, TypeOK, runVars, loopVars, vmVars
  <1>3. TypeOK'
    BY <1>t, <1>2 DEF Exit, TypeOK, runVars, loopVars, vmVars
  <1>4. BudgetInv' /\ LogInv' /\ OutputOfSuccess'
    BY DEF Exit, BudgetInv, LogInv, OutputOfSuccess, Ended
  <1> QED BY <1>1, <1>3, <1>4 DEF IInv

LEMMA EnvironmentStep ==
  ASSUME IInv, Boot \/ Install \/ LinkBreaks \/ UNCHANGED vars
  PROVE  IInv'
  <1>0. /\ in' = in /\ pc' = pc /\ step' = step /\ i' = i /\ ran' = ran /\ again' = again
        /\ try' = try /\ taken' = taken /\ out' = out /\ logfile' = logfile
        /\ once' = once /\ disk' = disk
    BY DEF Boot, Install, LinkBreaks, vars, runVars, loopVars, vmVars
  <1>1. booted' \in BOOLEAN /\ installed' \in BOOLEAN
    BY Zenon DEF IInv, TypeOK, Boot, Install, LinkBreaks, vars, vmVars
  <1>2. link' \in {"none", "up", "broken"}
    BY DEF IInv, TypeOK, Boot, Install, LinkBreaks, vars
  <1>3. ran' \in BOOLEAN /\ again' \in BOOLEAN /\ once'.done \in BOOLEAN
    BY <1>0, Zenon DEF IInv, TypeOK
  <1>4. TypeOK'
    BY <1>0, <1>1, <1>2, <1>3 DEF IInv, TypeOK, Steps
  <1>5. BudgetInv' /\ LogInv' /\ OutputOfSuccess'
    BY <1>0 DEF IInv, BudgetInv, LogInv, OutputOfSuccess, Ended
  <1>6. BinaryInv'
    BY <1>0 DEF IInv, BinaryInv
  <1> QED BY <1>4, <1>5, <1>6 DEF IInv

LEMMA StepIInv == IInv /\ [Next]_vars => IInv'
  BY SriovStep, ConnectStep, StartRunStep, CommandOKStep, CommandFailsStep, ParseStep, ExitStep,
     EnvironmentStep DEF Next, Program, Finished

LEMMA Invariance == Spec => []IInv
  BY InitIInv, StepIInv, PTL DEF Spec

-----------------------------------------------------------------------------
\* Every variable keeps its type: no loop of a VM session counts past its budget, no more
\* samples are taken than asked for, and no driver runs past its last command.
THEOREM TypeCorrect == Spec => []TypeOK
  BY Invariance, PTL DEF IInv

\* What Run returns without an error is the output of an attempt that succeeded, or for
\* iperf3 the report of a failed first attempt in the log file all attempts append to: for
\* every driver, either kind of connection, any retry budgets, and a connection that breaks
\* anywhere.
THEOREM ReturnedOutputSucceeded == Spec => []OutputOfSuccess
  BY Invariance, PTL DEF IInv

\* The invariant about the binaries covers the property.
LEMMA OneBinary == IInv => OneExtractedBinary
  <1> SUFFICES ASSUME BinaryInv PROVE OneExtractedBinary
    BY DEF IInv
  <1>1. disk \ {<< System >>} \subseteq {<< Tmp >>}
    BY DEF BinaryInv
  <1> QED BY <1>1 DEF BinaryInv, OneExtractedBinary

\* extractOnce holds over a whole session: one embedded virtctl is extracted at the most, it
\* is there as long as a command may need it, and a normal exit leaves none behind.
THEOREM ExtractedOnceAndRemoved == Spec => []OneExtractedBinary
  BY Invariance, OneBinary, PTL
==============================================================================
