# A TLA+ model of k8s-netperf

k8s-netperf deploys clients and servers into a Kubernetes cluster, runs network
benchmarks between them, collects the figures and cleans up. This directory holds TLA+
modules of its orchestration, TLC configurations that check them on small instances, and
proofs, checked by TLAPS, of the central results for every instance. `PROJECT.json` maps
every definition to the lines it models and lists runs, mutants, hazards and theorems.

## 1. The system

The program is one goroutine; the concurrency is between it and the cluster, and between
one run and what the runs before it left behind.

| Part | Code | State | Operations | What makes it correct |
|---|---|---|---|---|
| Test loops and sampling | `cmd/k8s-netperf/k8s-netperf.go` 455-522, 735-914 | loop variables, `npr.*Summary`, `try`, `sr.Results` | `executeWorkload`, the loops for pods and for VMs | exactly the planned tests, once each, in order; every sample from an accepted Run of its own; it ends |
| Drivers | `pkg/drivers` | none between calls | `IsTestSupported`, `Run`, `ParseResults` | an output without a figure is an error |
| Waiting for the cluster | `pkg/k8s/kubernetes.go` 1406-1477, 1590-1624, 1706-1717, `kubevirt.go` 541-561 | an open watch, the events in it | `deployDeployment`, `WaitForReady`, `WaitForVMI`, `GetPods`, `GetPodNodeInfo`, `DestroyNamespace` | success means the goal was reached; a lasting goal is noticed |
| Lifecycle of a run | `k8s-netperf.go` 226-441, 552-692, `kubernetes.go` 178-607 | namespace, its content, C-UDN, SR-IOV objects | `cleanup`, `BuildInfra`, `Deploy*`, `BuildSUT` | a run with `--clean` recovers from any earlier one, uses its own objects, and has them deleted |
| Placement and pairing | `kubernetes.go` 610-1215, 1481-1506, `k8s-netperf.go` 745-857, 910-911 | pod lists and node information in `PerfScenarios` | `BuildSUT`, `GetZone`, the choice of client and server | ends of a test exist, are apart or together as asked, and are reported on the right nodes |
| Flags, configuration file | `k8s-netperf.go` 98-200, `pkg/config` | none | validation, YAML | only consistent scenarios get through |
| Services, ports, addresses | `kubernetes.go` 64-175, 785-1106, 1217-1319, `k8s-netperf.go` 745-843 | Services, server commands, annotations, `serverIP`, uperf profiles | `CreateService`, `Extract*Ip`, `createUperfProfile` | something answers where the client calls, and it is what the result says it is |
| super-netperf | `containers/super-netperf` | `/tmp/result-*` in the client pod | `run_netperf`, `process_netperf` | the sum is that of this call's streams |
| VM connections, virtctl | `kubevirt.go` 36-85, 563-677, `pkg/virtctl`, the VM mode of the drivers | the connection, `extractedPath`, the binary on disk | `ConfigureVMSriovIP`, `ConnectToVM`, `VMExecutor.Run`, `GetVirtctlPath`, `CleanupExtractedBinary` | bounded retries; the output is that of a successful attempt; removes only what it made |
| Metrics, report, archive, gate | `k8s-netperf.go` 264-282, 524-634, `pkg/metrics`, `pkg/results`, `pkg/archive` | `sr.Results` | the Prometheus queries, the tables, CSV, JSON, documents, `TCPThroughputDiff` | what is archived is what was measured; nothing is lost to a failing write; the exit code says what was compared |
| Logging, generated KubeVirt client | `pkg/logging`, `pkg/kubevirt` | none | formatting, REST calls | - |

How they interact: main fills `PerfScenarios` from flags and file, cleans up, lets
`BuildInfra`, the `Deploy*` functions and `BuildSUT` create objects (each waiting for the
cluster over a watch or by polling), calls `executeWorkload` for every test, which calls a
driver, then shows and archives `sr.Results`, cleans up again and exits. Errors end the
process through `log.Fatal` or `os.Exit`, with no cleanup.

What is hard: objects change between an API call and the watch that waits for the change;
the server ends watches; a run dies anywhere and the next one finds the remains; the
scheduler picks any node the required affinities admit; outputs of benchmarks are cut
short; pods, files and connections outlive the test they were made for; ports, networks and
orders of precedence agree between files only by convention; retries within retries. `PROJECT.json`, "hazards", lists each at its line.

## 2. The modules

| Module | Models | Checked by |
|---|---|---|
| `Drivers` | `IsTestSupported` and `ParseResults` of the four drivers | through `Workload` |
| `Scenario` | the part of `PerfScenarios` the loops read, what the file parser and the flag checks let through, the tests and their order | through `Workload` |
| `TestPlan` | abstract: which tests get a result, in which order, and when the report may be made | refined by `Workload` |
| `Workload` | the loops of main and `executeWorkload` with sampling and retries | `MCWorkload` |
| `ClusterWait` | three operations that change an object and wait for the cluster | its own configurations |
| `Lifecycle` | successive runs of the program and what they create and delete | `MCLifecycle` |
| `Placement` | `BuildSUT`'s deployments under any scheduler, and the pairing of endpoints | `MCPlacement` |
| `Endpoint` | Services, server commands, networks, addresses, ports and uperf profiles | `MCEndpoint` |
| `SuperNetperf` | the script that runs the netperf streams of one test | its own configuration |
| `VMSession` | talking to the VMs and running benchmarks in them | `MCVMSession` |
| `Report` | from the last test to the exit code | `MCReport` |
| `WorkloadProofs`, `ClusterWaitProofs`, `LifecycleProofs`, `PlacementProofs`, `EndpointProofs`, `SuperNetperfProofs`, `VMSessionProofs`, `ReportProofs` | the theorems about each, section 4 | TLAPS |

**Drivers.** A profile is its name and whether it is spelled in upper case, since
`validConfig` ignores case and three of the four `IsTestSupported` do not. An output is one
of four kinds (a full report, nothing or a report cut short, lines without a figure, NaN),
the least that tells the four parsers apart; `ParseResults` says whether it is accepted and
what figure is stored.

**Workload.** `at` is the loop variables of main's nested loops (VM or pod, config, driver,
host network or not), `Advanced` their next values; `Call`/`SkipCall` are the conditions
around the three calls. In a call, `Run`, `Parse`, `ParseFails`, `RetryHead`, `Rerun`,
`RerunFails`, `Reparse`, `ReparseFails` and `Record` are the statements of the sampling
loop. A stored sample is the number of the Run it was parsed from and what that Run printed,
so that mixing up buffers would show. Choosing addresses may fail (`PrepareFails`); what it
chooses is the subject of `Placement`.

**ClusterWait.** `obj` is the API server's truth, `stream` the events sent and not yet
received, `pc` the operation's place. `ClusterChange` lets the cluster make objects ready,
unready or absent between any two calls, `CloseWatch` and `FailWatch` end the watch.
A watch opened without a resource version starts with the objects that exist.

**Lifecycle.** Each object is represented by the number of the run that created it, which
makes "its own" and "left behind" expressible. `Dies` is every fatal error, `Killed` an end
from outside, `StartRun` the next run with any flags. `hiccup` records that an API error was
only logged (`DestroyCUdn`, `DestroySriovResources`, `DeployNADBridge`) or taken for "not
found" (`DestroyNamespace`'s Get): the properties about `--clean` exclude those runs.
With `--vm` the client VM, its SSH Service with the Route, and the server VM are three steps,
which create without looking first. Only the namespace's deletion is waited for: the C-UDN, the
SriovNetwork and its policy are records `[by, deleting]`, for which `DestroyCUdn` and
`DestroySriovResources` request the deletion and a controller carries it out at any later time
(`CudnGone`, `SriovNetGone`, `SriovPolicyGone`); until then a Create is answered with
AlreadyExists. `NamespaceGone` and `OperatorMakesNad` are the other controllers. `--bridge` goes
with no other network, a UDN or a C-UDN: with `--vm` the run creates its NAD, without it
`ValidateBridgeNetwork` looks for one and may end the run (`ValidateBridgeFails`).

**Placement.** A cluster is the sequence of its schedulable nodes with role and zone labels.
`pc` walks through the seven deployments in `BuildSUT`'s order; `Wanted`, `NodesFor`,
`Avoids` and `Joins` are the conditions and Required affinities the code gives each, `Deploy`
picks any node that `Fits`, and `Unschedulable` waits where none does. `ServerOf` and
`ClientList` are `executeWorkload`'s choices. Preferred affinities bind no scheduler and are
left out. The run starts in an empty namespace; reuse is in `Lifecycle`.

**Endpoint.** `CreateServices` and `StartServers` are `BuildSUT`'s Services and server
commands; `NetworkAnnotations`, `Interfaces` and `NetworksOf` say who is on which network;
`Address` and `Resolved` are `executeWorkload`'s choice of an address and what the
`Extract*Ip` functions make of it, `PickAddress` with the check of the driver; `PrepareRun`
writes uperf's profile into `file` under the name the code gives it, and `Contact` is the
benchmark, at which the properties look. `n` counts the iterations of main's loops, `Test` is
the test of one, and `PassOver` an iteration that calls nothing. Port numbers are the code's.

**SuperNetperf.** `tmp` is `/tmp/result-*`: nothing, an empty file (the shell's redirection),
or the report of a stream of a certain call. `StreamEnds` lets each process end with or
without a report, `CutOff` is a lost connection of the driver's exec or the end of
k8s-netperf: the terminal hangs script and streams up and the files stay.

**VMSession.** `step` and `i` are the command and the turn of the loop it is in;
`CommandOK` and `CommandFails` are one `VMExecutor.Run` with what the loop does next.
`once` and `disk` are `extractOnce` with its results and the binaries on this host. `Boot`,
`Install` and `LinkBreaks` are the VM. What `executeWorkload` does with an error is kept, as
it decides whether the session ends.

**Report.** A figure of Prometheus is the node and the result it is about, so that mixing up
ends or results would show; `got` records which queries were answered with a value. An
answer is one of five kinds, the least that tells the two ways of reading it apart. A row on
`screen` is a table and a result, a row of `archive` a destination, a result, an end and the
figures. Throughputs are small integers, zero or NaN, whatever the drivers' `ParseResults`
may have stored (`FiguresOf`), and netperf's loss is NaN where it divides by no calls sent
(`LossesOf`); `Recorded` is the list of results `Workload` leaves: the `Nth` iteration that runs.

## 3. The runs

Passing runs:

| Run | Instance | Shows |
|---|---|---|
| `workload_plan` | all flag combinations; two drivers by two configs (one through a Service, one unsupported by uperf), a lower-case profile, an empty file; retry 1 | `TypeOK`; `ImplementsPlan`: the loops refine `TestPlan` |
| `workload_samples` | one test of three samples for each driver, retry 3 as in the code, all outputs | `ResultsSound`, `GivesUpOnlyAfterRetries`; `Terminates` |
| `cluster_wait` | the three operations, one other object, four changes of the cluster | `SuccessMeansReached`, `EmptyPodListOnlyIfLost`, `CrashNeedsCause`, `ReadyIsNoticed`, `DeletionIsNoticed` |
| `lifecycle` | three runs, every accepted combination of network, `--bridge`, `--vm` and `--clean` | `MeasuresOwnObjects`, `CollidesOnlyWithDeleted`, `CleanExitDeletesAll` |
| `placement` | all clusters of one to three nodes of six kinds, all accepted flags | `EndpointsRun`, `EndsApartOrTogether`, `AcrossLabelSound`, `NodeInfoTruthful`; `SetupEnds` |
| `endpoint` | every accepted combination of flags and networks, with and without IPv4, an old namespace, a missing bridge configuration; three drivers by five configs; RDMA with two durations | `SomethingAnswers`, `MeasuresAsLabelled`, `OnOneNetwork`, `StopsOnlyWithCause`, `SameDuration`, `ProfileIsOwn` |
| `super_netperf` | calls with up to three streams in one pod, up to two of them cut off | `SumIsOwn`, `LeavesNoFile` |
| `vm_session` | three drivers over SSH and virtctl, with and without SR-IOV, an embedded and an installed virtctl; two samples | `OutputOfSuccess`, `OneExtractedBinary`; `EndsUnlessStuck` |
| `report` | up to four results of one or two drivers, of pods, VMs or both, with slow, equal, zero and NaN figures; every combination of output flags; every way to find Prometheus; answers that fail in every way | `ArchivedAsMeasured`, `NothingLostToArchiving`, `GateExact`, `FailsOnlyWithCause` |

Each run but `workload_samples` also checks its module's `TypeOK`.

Runs that end in a counterexample, each against a sentence of the documentation or a comment
(quoted in "findings"):

| Run | The code does |
|---|---|
| `workload_retry_hangs` | repeats a failing Run for ever: `continue` skips `try++` |
| `tolerance_enforced` | compares the last positive figures of a message size, so with two drivers only the last one counts |
| `system_binary_stays` | removes a virtctl it found in the PATH: `isTemporaryPath` is true of every absolute path but the parent of the temporary directory |

The passing properties name the cases the code leaves out, and TLC refutes them without:

- `ResultsSound` speaks of accepted outputs: iperf3's `ParseResults` drops its decoding error
  and accepts an empty output as a zero, uperf's accepts NaN (iperf.go 255: "It will return a
  Sample struct or error").
- `SuccessMeansReached`: `WaitForVMI` returns nil when the server ends the watch (kubevirt.go
  540: "WaitForVMI will wait until the resource is in Running state."), and `DestroyNamespace` takes any error of Get for an absent namespace.
- `DeletionIsNoticed` starts when the events are being read: a namespace that goes between
  Delete and Watch is missed, and the wait lasts until the server ends the watch, with an
  error although the namespace is gone (kubernetes.go 1462: "WaitForDelete return nil if the
  namespace is deleted, error otherwise").
- `CrashNeedsCause`: `WaitForReady` dereferences nil on an error event.
- `CollidesOnlyWithDeleted`, `CleanExitDeletesAll`: the deletion of the C-UDN, the SriovNetwork
  and its policy is only requested (advanced-usage.md 49: "C-UDN is automatically cleanup at the
  end of the execution."). A run that follows soon, or one that has just requested the deletion
  of what an earlier run left, may find the object still there and end at its Create; and at the
  exit the objects may still exist. The properties say that nothing else is met or left. A
  run with `--clean` deletes only the cluster-wide objects its own flags name (setup.md 119:
  "`--clean=true` will delete all the resources the project creates"). Both speak of runs that
  reach their end: a fatal error leaves the SR-IOV objects (advanced-usage.md 63: "and clean them
  up after the test").
- `EndpointsRun`: `--serverIP --all` has no host network client; a UDN, C-UDN or bridge with
  `--hostNet`, or a UDN or C-UDN with `--pod=false`, has no server pod to read the address from.
- `EndsApartOrTogether`: VMs with `--local` have no affinity and are marked same node; a host
  network test with a network of its own goes to the pod's address on that network.
- `NodeInfoTruthful`: with `--all`, with pods and VMs, and with `--local --hostNet` on several
  nodes, results get the node information of endpoints they were not measured on.
- `AcrossLabelSound` is about a mark the code sets by itself: `--across` sets a variable that
  is shadowed in `Run` and changes nothing (setup.md 117: "`--across` will force the client to
  be across availability zones from the server"). Without zone labels the ends between nodes,
  and the VMs, have no Required node affinity and may run on infra or workload nodes
  (kubernetes.go 623: "but not nodes with infra= and workload=").
- `SetupEnds`: on two nodes a client pod and a client VM can take both, and the server waits
  for ever; `workload=` nodes are counted but not used.
- `SomethingAnswers`: TCP_STREAM_LAT through a Service goes to the address of the other uperf's
  Service, which does not forward its ports, and between VMs nothing starts its server; the
  profile of uperf names the data port of pods, and a VM's Service forwards another; the
  seventeenth netperf stream through a Service has no port; a UDN without IPv4 gives the
  address "<nil>".
- `MeasuresAsLabelled`: between VMs the address of a UDN or C-UDN is the server pod's; with
  `--all --local` one client and one server on the host network serve both kinds of test
  (setup.md 93: "Run all tests scenarios - hostNet and podNetwork (if possible)"); a host
  network test with a network of its own goes to the pod's address on it.
- `OnOneNetwork`: the host network client is attached to none of the networks; a bridge takes
  the place of a UDN or C-UDN in a VM's interfaces, but not in the choice of the address.
- `StopsOnlyWithCause` lists what ends a run after the cluster was set up although main
  accepted the flags.
- `SameDuration`: two UDP_STREAM configs with different durations share one server.
- `SumIsOwn`: a call with fewer streams than one cut off before it, with no complete one in
  between, adds the other's figures.
- `OutputOfSuccess`: a repetition of iperf3 in a VM appends to the log file of the attempt that
  failed, and the parser reads the first report, of which it makes a zero.
- `EndsUnlessStuck`: an SSH connection that breaks is not made again, so if it breaks while
  `executeWorkload` repeats a test, the loop of `workload_retry_hangs` is entered; and the
  drivers' `until ...; do sleep 30; done` (netperf.go 96, iperf.go 119, uperf.go 251) has no limit, so with a VM that answers and a cloud-init that never installs the benchmark the
  session hangs (`Waiting`).
- `ArchivedAsMeasured` admits NaN: the mean of a series without samples.
- `NothingLostToArchiving`: an answer of Prometheus of another type than expected ends the
  process before the report (the vSwitch, pod and node detail queries assert it); in JSON one
  NaN (a throughput, a loss or a mean of Prometheus' samples) loses the report of all results, and the exit code stays 0; a profile in lower case is in
  no table. With `--metrics`, the node CPU of RR results is shown for netperf only (the comment
  at result.go 235 says "Skip RR/CRR iperf3 Results").
- `GateExact` has one driver and no message size twice; `FailsOnlyWithCause` drops that and says
  less. A profile in lower case is not compared.

**Bounds.** *Workload*: nothing in the loops depends on more than "first, middle, last"
config and driver, and a sample on more than its predecessor, so two by two tests and three
samples reach every case; the theorems have no bound. *ClusterWait*: four changes allow the
target to become ready, be lost, return and vanish while the other object moves
(`MaxChanges`). *Lifecycle*: two runs leave remains of two kinds for the third (`MaxRuns`);
two polls instead of 24 (`MaxPolls`) since polls only count. *Placement*: a test has two
ends and at most two further pods compete with them for nodes; three nodes tell crowded and
roomy clusters apart. *Endpoint* walks through one configuration file with every kind of test,
sixteen and seventeen streams, and two tests that share a profile's name; its inputs are all
combinations, what matters only to one network varying only with it. *SuperNetperf*: a cut call
can leave files for a shorter call and that one's successor (`MaxStreams`, `MaxScripts`,
`MaxCuts`). *VMSession*: the budgets of the loops (10, 30 and 3 turns) are 2 each (`VMRetry`,
`SSHRetry`, `Retry`), since turns only count; a second sample uses what the first left.
*Report*: a difference needs two results of each network and size, two drivers to mix them;
three faults of Prometheus per run (`MaxFaults`), enough to use up the attempts for one figure
or to fail any three.

**Fairness.** `LiveSpec` has weak fairness of the program's next step: one goroutine that
never blocks on another, and API calls and Runs that return. `FairRunSpec` adds strong
fairness of a repeated Run succeeding; the code does not guarantee that, and
`workload_retry_hangs` shows the loop does not end without it. `ClusterWait` assumes weak
fairness of the operation's steps only, nothing of the cluster and not that a watch ever
ends. `Placement` assumes that a pod that fits somewhere is scheduled. `VMSession` assumes
that the program takes its next step if it can, except while the command that waits for the
benchmark to be installed runs in a VM that can be reached (`Waiting`), which may last for ever;
every other command returns, well or not. Nothing is assumed of the VM, its cloud-init, the
connection and the binary.

## 4. The proofs

Every safety property that a passing run checks is also proved by TLAPS, for every value of
the constants: any configuration files, drivers, flags, clusters, numbers of streams, runs,
polls, retries and changes of the cluster. The assumptions are the types of the constants
(`...Assumption` in each module); those of `Endpoint` add that the flags passed the checks
of main (`FlagsAccepted`) and got past `BuildSUT` (`Builds`), that of `Report` that NaN is no
number. Each module proves `Init => IInv` and `IInv /\ [Next]_vars => IInv'`, one lemma per
action, and then what follows from `IInv`. Every `IInv` was first checked by TLC over all
states of the module's run. Why `IInv` is more than the properties:

- `WorkloadProofs`. `TypeOK` is inductive as it stands: it bounds the cursor by the scenario
  and ties `try < Retry` to being inside the retry loop. The refinement `LoopsImplementPlan`
  (`Spec => ImplementsPlan`): the plan speaks of all tests, the loops of one cursor;
  `LoopInv` says that a planned test has a result exactly if the cursor has passed it
  (`Passed`). `AdvancedPassesOne` says that `Advanced` passes exactly the test at the cursor,
  `EndOrder` that at the end all are passed; `StepImplementsPlan` maps each action to a step
  of `TestPlan` or a stutter. `ResultsSound` and the action property
  `GivesUpOnlyAfterRetries` come from `SamplingInv`: where the program is and `try` give the
  number of Runs since the last stored one.
- `SuperNetperfProofs`. A sum is right only if every file in `/tmp` is accounted for:
  `FilesInv` (a file is of a stream started by this call, or of one cut off with more
  streams), `StreamsInv` (a file of this call is empty until its stream ends, then its own),
  `SumInv` (what the loop has read it has removed, and counted or found blank).
- `ClusterWaitProofs`. The waiter sees events, not objects: `StreamInv` says that each event
  still on its way is evidence of something that did happen (`Evidence`), `HistoryInv` ties
  the history to the object, `WaitedInv` carries both past the loop.
- `VMSessionProofs`. `LogInv`: whenever iperf3's log file is read a success is in it, and it is
  the first report unless a failure went before. `BinaryInv`: the first call of
  `GetVirtctlPath` decides, and what is on disk is that path or the system's.
- `LifecycleProofs`. For a run with `--clean` and no swallowed API error, `CleanInv` says at
  each point of the program what is swept away already (`SweptInv`) and what is not created
  yet (`NotYet`), whatever the earlier runs were; `OwnerInv` limits whose objects there are.
  An object outside the namespace is on its way out from its request to this run's own Create
  (`NetworkInv`), which is why a Create can only meet one that is (`CollisionInv`) and why the
  operator generates no NAD for an older run's SriovNetwork in the meantime.
- `PlacementProofs`. `PlacedInv`: a pod has a node exactly if `BuildSUT` has it behind it and
  wants it; `ApartInv` and `JoinInv`: the Required terms, which the scheduler looks at only
  when it places a pod, hold between all that is placed; `InfoInv`: which pods the node
  information is of so far. `AcrossLabelSound` needs that where main sets the label no two
  workers share a zone (`OneWorkerPerZone`): had `GetZone` met a zone twice, it would have
  returned such a zone.
- `ReportProofs`. `RecInv`: a field holds the answer if its query was answered, and what was
  there before if not; only what the queries before the present one asked for is answered
  (`AskedOnce`). `GateInv` reduces the exit code to the results; the theorems about it then
  need that `Recorded` is an enumeration (`NthNumbers`, by ranks instead of recursion), that
  a host iteration has the pod iteration next to it (`PodPartner`), and that with one driver
  a size belongs to one pair (`OneTestPerSize`).
- `EndpointProofs`. `CallInv`: while a test runs or has ended the process, `serverIP` is what
  became of the address it looked for; `SetupInv`: Services and listeners are functions of the
  input; `FileInv`: the profile was written in this test. Then `OutcomeCases` splits a call
  into the five ways `executeWorkload` goes (external, Service, a VM's bridge address, a
  network, the pod address), `NetCases` lists the eight sets of networks main accepts, and the
  `FirstOf...` lemmas say which of them each of the three orders of precedence takes. Each
  property is then a case analysis over these.

For the proofs, sequences are not filtered recursively: `Report!Recorded` and
`Endpoint!Test` compute the test of an iteration from its number, `Nth` picks the iterations
that ran, and an iteration that calls nothing is an action of its own (`PassOver`).

Only model-checked: liveness (`Terminates`, `ReadyIsNoticed`, `DeletionIsNoticed`,
`SetupEnds`, `EndsUnlessStuck`), since TLAPS does not handle fairness and ENABLED. The
three runs that end in a counterexample state what does not hold, and have no theorem.

## 5. Not modelled, and the plan

Not modelled: the layout of tables, files and documents, the confidence intervals and the text
of the PromQL queries (formatting); logging; the generated KubeVirt client; the YAML decoding of
the configuration file and cobra's reading of flags; the benchmark options on the command lines
beyond address, ports, duration and profile; the port binding of two servers on one host
network; API requests that hang.

The plan:

1. *Done*: `Workload` against `TestPlan` with proofs; `ClusterWait`; `Lifecycle`; `Placement`;
   `Endpoint`; `SuperNetperf`; `VMSession`; `Report`.
2. *Done*: a theorem for every safety property of every module (section 4).
3. A composition of `Placement` and `Endpoint` in which servers on one node compete for ports.
