------------------------------ MODULE VMSession ------------------------------
(***************************************************************************)
(* Talking to the VMs: ConfigureVMSriovIP, ConnectToVM and the two kinds   *)
(* of VMExecutor (pkg/k8s/kubevirt.go 36-85, 563-677), the virtctl binary  *)
(* behind one of them (pkg/virtctl/extractor.go), and the loops the        *)
(* drivers' Run has in VM mode (pkg/drivers), with as much of              *)
(* executeWorkload around them as decides what an error leads to.          *)
(*                                                                         *)
(* The VM, its cloud-init and the connection are the environment.  An SSH  *)
(* connection is made once and never again; virtctl makes one per command. *)
(***************************************************************************)
EXTENDS Integers, Sequences, FiniteSets

CONSTANTS
  Inputs,      \* the command lines and hosts
  VMRetry,     \* retry of the drivers' VM loops (10)
  SSHRetry,    \* retry of kubevirt.go (30)
  Retry        \* const retry of main (3)

DriverNames == {"netperf", "uperf", "iperf3"}     \* ib_write_bw never meets a VM
InputType == [useVirtctl : BOOLEAN, sriov : BOOLEAN, driver : DriverNames,
              samples : Nat \ {0},  \* validConfig wants one
              embedded : BOOLEAN,   \* extractEmbeddedVirtctl succeeds
              system : BOOLEAN]     \* there is a virtctl in the PATH

ASSUME InputsAssumption == Inputs \subseteq InputType
ASSUME BoundsAssumption == VMRetry \in Nat /\ SSHRetry \in Nat \ {0} /\ Retry \in Nat

VARIABLES
  in,        \* the input
  pc,        \* where main is
  step,      \* the command of ConfigureVMSriovIP or of Run in progress
  i,         \* the counter of its loop
  ran,       \* netperf: the trial run succeeded
  again,     \* in the retry loop of executeWorkload
  try,       \* its counter
  taken,     \* samples taken
  out,       \* what Run returns
  logfile,   \* iperf3's log file: a fresh name for each Run, and iperf3 appends to it
  booted,    \* the VM accepts SSH connections
  installed, \* cloud-init has installed the benchmarks
  link,      \* the SSH connection
  once,      \* extractOnce, extractedPath, extractErr
  disk       \* the virtctl binaries on this host: the system's, extracted ones

vars    == << in, pc, step, i, ran, again, try, taken, out, logfile, booted, installed, link,
              once, disk >>
runVars == << ran, out, logfile >>
vmVars  == << booted, installed >>
loopVars == << again, try, taken >>

Ended == pc \in {"exit", "fatal"}
System == "system"

----------------------------------------------------------------------------
(***************************************************************************)
(* One command on a VM.                                                    *)
(***************************************************************************)

\* Mutant: no sync.Once.
GetVirtctlPathEachTime ==
  LET path == IF in.embedded THEN << "tmp", Cardinality(disk) >>
              ELSE IF in.system THEN << System >> ELSE << >>
  IN  /\ once' = [done |-> TRUE, path |-> path]
      /\ disk' = disk \cup (IF in.embedded THEN {path} ELSE {})

\* The first call decides for all: the embedded binary in a new temporary file, or else the
\* one in the PATH, or else an error that stays.
GetVirtctlPath ==
  IF once.done THEN UNCHANGED << once, disk >>
  ELSE LET path == IF in.embedded THEN << "tmp" >>
                   ELSE IF in.system THEN << System >> ELSE << >>
       IN  /\ once' = [done |-> TRUE, path |-> path]
           /\ disk' = disk \cup (IF in.embedded THEN {path} ELSE {})

\* VirtctlClient.Run needs the binary and a VM that answers.
RunVirtctl(ok) ==
  /\ GetVirtctlPath
  /\ ok => once'.path \in disk' /\ booted
  /\ UNCHANGED link

\* SSHClientWrapper.Run
RunSSH(ok) ==
  /\ ok => link = "up"
  /\ UNCHANGED << link, once, disk >>

Execute(ok) == IF in.useVirtctl THEN RunVirtctl(ok) ELSE RunSSH(ok)

----------------------------------------------------------------------------
(***************************************************************************)
(* ConfigureVMSriovIP, for the client VM and then for the server VM.       *)
(***************************************************************************)
SriovSteps == << "ready", "find", "configure", "ready2", "find2", "configure2" >>

StartSriov ==
  /\ pc = "launch"
  /\ pc' = IF in.sriov THEN "sriov" ELSE "connect"
  /\ UNCHANGED << in, step, i, runVars, loopVars, vmVars, link, once, disk >>

SriovOK ==
  /\ pc = "sriov" /\ RunVirtctl(TRUE)
  /\ IF step < Len(SriovSteps) THEN step' = step + 1 /\ UNCHANGED pc
                               ELSE step' = 1 /\ pc' = "connect"
  /\ i' = 0
  /\ UNCHANGED << in, runVars, loopVars, vmVars >>

\* "echo ready" is repeated, the rest is not; no interface is an error too.
SriovFails ==
  /\ pc = "sriov"
  /\ \/ RunVirtctl(FALSE)
     \/ SriovSteps[step] \in {"find", "find2"} /\ RunVirtctl(TRUE)
  /\ IF SriovSteps[step] \in {"ready", "ready2"} /\ i + 1 < SSHRetry
     THEN i' = i + 1 /\ UNCHANGED pc
     ELSE i' = 0 /\ pc' = "fatal"
  /\ UNCHANGED << in, step, runVars, loopVars, vmVars >>

----------------------------------------------------------------------------
(***************************************************************************)
(* ConnectToVM.                                                            *)
(***************************************************************************)
ConnectVirtctl ==
  /\ pc = "connect" /\ in.useVirtctl
  /\ pc' = "sample"
  /\ UNCHANGED << in, step, i, runVars, loopVars, vmVars, link, once, disk >>

Connect ==
  /\ pc = "connect" /\ ~ in.useVirtctl /\ booted
  /\ link' = "up" /\ i' = 0
  /\ pc' = "sample"
  /\ UNCHANGED << in, step, runVars, loopVars, vmVars, once, disk >>

\* Mutant: the loop starts over.
ConnectFailsForever ==
  /\ pc = "connect" /\ ~ in.useVirtctl
  /\ i' = (i + 1) % SSHRetry /\ UNCHANGED pc
  /\ UNCHANGED << in, step, runVars, loopVars, vmVars, link, once, disk >>

ConnectFails ==
  /\ pc = "connect" /\ ~ in.useVirtctl
  /\ IF i + 1 < SSHRetry THEN i' = i + 1 /\ UNCHANGED pc
                         ELSE i' = 0 /\ pc' = "fatal"
  /\ UNCHANGED << in, step, runVars, loopVars, vmVars, link, once, disk >>

----------------------------------------------------------------------------
(***************************************************************************)
(* Run in VM mode.                                                         *)
(***************************************************************************)

\* The commands of each driver, in order.
Steps ==
  CASE in.driver = "netperf" -> << "present", "trial", "command" >>
    [] in.driver = "iperf3"  -> << "present", "command", "cat" >>
    [] in.driver = "uperf"   -> << "profile", "present", "command" >>
Doing == Steps[step]

\* The ones in a loop of VMRetry + 1 turns; netperf repeats the trial run instead.
Repeated == \/ Doing \in {"present", "trial"}
            \/ Doing = "command" /\ in.driver # "netperf"

StartRun ==
  /\ pc = "sample"
  /\ pc' = "run"
  /\ step' = 1 /\ i' = 0 /\ ran' = FALSE /\ out' = "none" /\ logfile' = << >>
  /\ UNCHANGED << in, loopVars, vmVars, link, once, disk >>

\* A command that ended well.  "present" waits in the VM until the benchmark is there, and
\* never returns if it never is.
CommandOK ==
  /\ pc = "run" /\ Execute(TRUE)
  /\ Doing \in {"present", "trial", "command"} => installed
  /\ \E o \in {"good", "bad"} :
       /\ logfile' = IF Doing = "command" /\ in.driver = "iperf3" THEN Append(logfile, o)
                     ELSE logfile
       /\ out' = CASE Doing = "command" -> o
                   [] Doing = "cat" -> Head(logfile)
                   [] Doing \notin {"command", "cat"} -> out
  /\ ran' = (ran \/ Doing = "trial")
  /\ i' = 0
  /\ IF step < Len(Steps) THEN step' = step + 1 /\ UNCHANGED pc
     ELSE /\ UNCHANGED step
          /\ pc' = IF in.driver = "netperf" /\ ~ ran THEN "error" ELSE "parse"
  /\ UNCHANGED << in, loopVars, vmVars >>

\* Mutant: a loop that has run out ends as if it had succeeded.
CommandFailsUnseen ==
  /\ pc = "run" /\ Execute(FALSE)
  /\ Doing = "present" => in.useVirtctl \/ link # "up"
  /\ logfile' \in {logfile, IF Doing = "command" /\ in.driver = "iperf3"
                            THEN Append(logfile, "failed") ELSE logfile}
  /\ out' = IF Doing = "command" THEN "failed" ELSE out
  /\ CASE Repeated /\ i < VMRetry -> i' = i + 1 /\ UNCHANGED << step, pc >>
       [] ~ (Repeated /\ i < VMRetry) ->
            IF step < Len(Steps) THEN i' = 0 /\ step' = step + 1 /\ UNCHANGED pc
            ELSE i' = 0 /\ pc' = "parse" /\ UNCHANGED step
  /\ UNCHANGED << in, ran, loopVars, vmVars >>

\* A command that ended with an error.  iperf3 leaves a report of the error in its log file,
\* if it got as far.  Only after the trial runs does netperf go on all the same.
CommandFails ==
  /\ pc = "run" /\ Execute(FALSE)
  /\ Doing = "present" => in.useVirtctl \/ link # "up"
  /\ logfile' \in {logfile, IF Doing = "command" /\ in.driver = "iperf3"
                            THEN Append(logfile, "failed") ELSE logfile}
  /\ out' = IF Doing = "command" THEN "failed" ELSE out
  /\ CASE Repeated /\ i < VMRetry -> i' = i + 1 /\ UNCHANGED << step, pc >>
       [] Doing = "trial" /\ i >= VMRetry -> i' = 0 /\ step' = step + 1 /\ UNCHANGED pc
       [] OTHER -> i' = 0 /\ pc' = "error" /\ UNCHANGED step
  /\ UNCHANGED << in, ran, loopVars, vmVars >>

----------------------------------------------------------------------------
(***************************************************************************)
(* executeWorkload and the end of main (modules Workload and Report).      *)
(***************************************************************************)

\* Only netperf's ParseResults rejects anything (module Drivers).
Accepted == in.driver = "netperf" => out = "good"

\* Fatal the first time; in the retry loop it is tried again without counting.
RunReturnsError ==
  /\ pc = "error"
  /\ pc' = IF again THEN "sample" ELSE "fatal"
  /\ UNCHANGED << in, step, i, runVars, loopVars, vmVars, link, once, disk >>

ParseOK ==
  /\ pc = "parse" /\ Accepted
  /\ taken' = taken + 1 /\ again' = FALSE /\ try' = 0
  /\ pc' = IF taken' < in.samples THEN "sample" ELSE "report"
  /\ UNCHANGED << in, step, i, runVars, vmVars, link, once, disk >>

\* Mutant: <= for <.
ParseFailsLate ==
  /\ pc = "parse" /\ ~ Accepted
  /\ again' = TRUE
  /\ try' = IF again THEN try + 1 ELSE 0
  /\ pc' = IF try' <= Retry THEN "sample" ELSE "fatal"
  /\ UNCHANGED << in, step, i, runVars, taken, vmVars, link, once, disk >>

ParseFails ==
  /\ pc = "parse" /\ ~ Accepted
  /\ again' = TRUE
  /\ try' = IF again THEN try + 1 ELSE 0
  /\ pc' = IF try' < Retry THEN "sample" ELSE "fatal"
  /\ UNCHANGED << in, step, i, runVars, taken, vmVars, link, once, disk >>

\* isTemporaryPath: relative to the temporary directory every absolute path but that of its
\* parent is accepted.
IsTemporaryPath(path) == path # << >>

\* CleanupExtractedBinary, just before os.Exit.
Exit ==
  /\ pc = "report"
  /\ disk' = IF IsTemporaryPath(once.path) THEN disk \ {once.path} ELSE disk
  /\ pc' = "exit"
  /\ UNCHANGED << in, step, i, runVars, loopVars, vmVars, link, once >>

----------------------------------------------------------------------------
Boot ==
  /\ ~ booted /\ booted' = TRUE
  /\ UNCHANGED << in, pc, step, i, runVars, loopVars, installed, link, once, disk >>

Install ==
  /\ booted /\ ~ installed /\ installed' = TRUE
  /\ UNCHANGED << in, pc, step, i, runVars, loopVars, booted, link, once, disk >>

LinkBreaks ==
  /\ link = "up" /\ link' = "broken"
  /\ UNCHANGED << in, pc, step, i, runVars, loopVars, vmVars, once, disk >>

Init ==
  /\ in \in Inputs
  /\ pc = "launch" /\ step = 1 /\ i = 0
  /\ ran = FALSE /\ out = "none" /\ logfile = << >>
  /\ again = FALSE /\ try = 0 /\ taken = 0
  /\ booted = FALSE /\ installed = FALSE
  /\ link = "none"
  /\ once = [done |-> FALSE, path |-> << >>]
  /\ disk = IF in.system THEN {<< System >>} ELSE {}

Program == \/ StartSriov \/ SriovOK \/ SriovFails
           \/ ConnectVirtctl \/ Connect \/ ConnectFails
           \/ StartRun \/ CommandOK \/ CommandFails
           \/ RunReturnsError \/ ParseOK \/ ParseFails \/ Exit

Finished == Ended /\ UNCHANGED vars

Next == Program \/ Boot \/ Install \/ LinkBreaks \/ Finished

\* "until which netperf; do sleep 30; done", or its like of another driver, runs in a VM that
\* can be reached and has no benchmark: no limit, and nothing but the VM or the connection
\* ends it.
Reachable == IF in.useVirtctl THEN booted /\ (in.embedded \/ in.system) ELSE link = "up"
Waiting   == pc = "run" /\ Doing = "present" /\ ~ installed /\ Reachable

\* main is one goroutine and goes on unless it waits for the benchmark.  Nothing is assumed
\* of the VM: it may never boot, and its cloud-init may never install anything.
Spec == Init /\ [][Next]_vars /\ WF_vars(Program /\ ~ Waiting)

----------------------------------------------------------------------------
(***************************************************************************)
(* Properties.                                                             *)
(***************************************************************************)

\* Every variable has its type.
TypeOK ==
  /\ in \in Inputs
  /\ pc \in {"launch", "sriov", "connect", "sample", "run", "error", "parse", "report", "exit",
             "fatal"}
  /\ step \in 1 .. Len(SriovSteps) /\ (pc = "run" => step <= Len(Steps))
  /\ i \in 0 .. VMRetry + SSHRetry
  /\ ran \in BOOLEAN /\ again \in BOOLEAN /\ booted \in BOOLEAN /\ installed \in BOOLEAN
  /\ try \in 0 .. Retry /\ taken \in 0 .. in.samples
  /\ out \in {"none", "good", "bad", "failed"}
  /\ logfile \in Seq({"good", "bad", "failed"})
  /\ link \in {"none", "up", "broken"}
  /\ once.done \in BOOLEAN

\* What Run returns without an error is the output of an attempt that succeeded, however
\* many failed before it; except that iperf3 reports the first of its attempts, as they all
\* append to one file, of which the parser reads the beginning.
OutputOfSuccess ==
  pc = "parse" => \/ out \in {"good", "bad"}
                  \/ in.driver = "iperf3" /\ Len(logfile) > 1 /\ Head(logfile) = "failed"

\* However many commands were run, at most one binary was extracted; while one is in use it
\* is there, and after a normal exit there is none.
OneExtractedBinary ==
  LET extracted == disk \ {<< System >>}
  IN  /\ extracted \subseteq {once.path}
      /\ once.path # << >> /\ pc # "exit" => once.path \in disk
      /\ pc = "exit" => extracted = {}

\* A session comes to an end, even if the VM never boots, the connection breaks or there is
\* no virtctl, but for two ways of hanging: the retry loop of executeWorkload goes round for
\* ever (run workload_retry_hangs of module Workload), or a VM that can be reached never gets
\* its benchmark and the driver waits for it for ever (Waiting).
EndsUnlessStuck == <>Ended \/ []<>(again /\ pc = "sample") \/ <>[]Waiting

\* "CleanupExtractedBinary removes the extracted virtctl binary if it was created": one that
\* was not extracted stays.
SystemBinaryStays == in.system => << System >> \in disk
==============================================================================
