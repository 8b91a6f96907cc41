------------------------------- MODULE Report -------------------------------
(***************************************************************************)
(* What main does with sr.Results once the tests are over                  *)
(* (k8s-netperf.go 524-634): it asks Prometheus about the two nodes of     *)
(* each result (pkg/metrics), shows the results (pkg/results), archives    *)
(* them (pkg/archive), compares host and pod network and exits.  Whether   *)
(* there is a Prometheus is decided at the start (264-282).  Prometheus,   *)
(* the files and the index are the environment: each call may fail.        *)
(***************************************************************************)
EXTENDS Integers, Sequences, FiniteSets, FiniteSetsExt, Drivers

CONSTANTS
  Inputs,      \* the finished measurements: scenario, flags, cluster, nodes
  NaN,         \* not a number
  Attempts,    \* prometheusQueryAttempts (3)
  MaxFaults    \* bound: answers of Prometheus that are no value, per run

NoNode == ""
ConfigType == [profile : Profiles, msg : Nat, streams : Nat, service : BOOLEAN]
Distributions == {"OpenShift", "MicroShift", "Kubernetes", "unknown"}
InputType ==
  [ configs : Seq(ConfigType), drivers : Seq(DriverNames),
    pod : BOOLEAN, vm : BOOLEAN,                       \* --pod, --vm
    host : {"no", "all", "only"},                      \* --all, --hostNet
    speeds : SUBSET (Nat \ {0}),                       \* what the benchmarks may measure
    json : BOOLEAN, csv : BOOLEAN, search : BOOLEAN, metrics : BOOLEAN, clean : BOOLEAN,
    tcpt : Nat,                                        \* --tcp-tolerance
    nodes : [client : STRING, server : STRING],        \* s.ClientNodeInfo, s.ServerNodeInfo
    agent : BOOLEAN, degraded : BOOLEAN,               \* the metadata client and its answer
    distribution : Distributions, prom : BOOLEAN ]     \* --prom

ASSUME InputsAssumption   == Inputs \subseteq InputType
ASSUME NaNAssumption      == NaN \notin Nat
ASSUME AttemptsAssumption == Attempts \in Nat \ {0} /\ MaxFaults \in Nat

VARIABLES
  in,       \* the input
  Results,  \* sr.Results
  perf,     \* the mean of each result's ThroughputSummary
  loss,     \* the mean of its LossSummary: NaN, or 0 for any number
  pc,       \* where main is
  conn,     \* pcon: whose URL, and the two flags the queries depend on
  pavail,   \* whether there is a Prometheus to ask
  i, q,     \* the result and the query in progress
  attempt,  \* queryPrometheusWithRetry's loop counter
  rec,      \* sr.Results[i].{Client,Server}{Metrics,CPUCollected,PodCPU,PodMem}
  got,      \* history: what Prometheus answered with a value
  faults,   \* history: the number of other answers
  screen,   \* the rows on stdout
  archive,  \* the rows of files and index
  retCode

vars == << in, Results, perf, loss, pc, conn, pavail, i, q, attempt, rec, got, faults, screen,
           archive, retCode >>
loopVars == << i, q, attempt, rec, got, faults >>
outVars  == << screen, archive, retCode >>
fixed    == << in, Results, perf, loss >>

PCs == {"discover", "collect", "query", "details", "show", "csv", "promCsv", "specificCsv",
        "index", "gate", "finish", "exit", "fatal", "panic"}
Ended == {"exit", "fatal", "panic"}

----------------------------------------------------------------------------
(***************************************************************************)
(* The results, in the order of main's loops (modules TestPlan, Workload). *)
(***************************************************************************)
\* The k-th iteration of main's two passes, pods and then VMs: for each configuration and
\* each driver the host network, then the pod network.
TestAt(x, k) ==
  LET nd   == Len(x.drivers)
      half == 2 * nd * Len(x.configs)
  IN  [ cfg     |-> x.configs[((k - 1) % half) \div (2 * nd) + 1],
        driver  |-> x.drivers[(((k - 1) % half) % (2 * nd)) \div 2 + 1],
        hostNet |-> k % 2 = 1,
        virt    |-> k > half ]

\* A result is recorded unless the flags or executeWorkload pass the test over.
IsRun(x, r) ==
  /\ IF r.virt THEN x.vm /\ ~ r.hostNet ELSE x.pod
  /\ IF r.hostNet THEN x.host # "no" /\ ~ r.cfg.service ELSE x.host # "only"
  /\ IsTestSupported(r.driver, r.cfg.profile)

RunAt(x) ==
  {k \in 1 .. 4 * Len(x.drivers) * Len(x.configs) : IsRun(x, TestAt(x, k))}

\* The m-th smallest number of S.
Nth(S, m) == CHOOSE k \in S : Cardinality({j \in S : j <= k}) = m

Recorded(x) ==
  [m \in 1 .. Cardinality(RunAt(x)) |-> TestAt(x, Nth(RunAt(x), m))]

Indices == DOMAIN Results

\* What ParseResults may have put into the samples of driver d; a NaN among them makes the
\* mean NaN.
FiguresOf(d) ==
  UNION { CASE ~ ParseResults(d, o).ok                -> {}
            [] ParseResults(d, o) = Accept("measured") -> in.speeds
            [] ParseResults(d, o) = Accept("zero")     -> {0}
            [] ParseResults(d, o) = Accept("nan")      -> {NaN} : o \in OutputKinds }

\* netperf counts no retransmissions but of TCP and then divides the calls received by the
\* calls sent, which may both be zero or missing; the other drivers read a number.
TCPNames == {"TCP_STREAM_LAT", "TCP_STREAM", "TCP_RR", "TCP_CRR"}
LossesOf(r) == IF r.driver = "netperf" /\ r.cfg.profile.name \notin TCPNames THEN {0, NaN}
               ELSE {0}

Sides == {"client", "server"}
Kinds == {"cpu", "vcpu", "vmem", "podcpu", "podmem"}

\* A value of Prometheus is told apart by the node and the test (its time window).
Value(k, s) == << in.nodes[s], k >>
Zero == << NoNode, 0 >>
NoMetrics == [cpu |-> Zero, vcpu |-> Zero, vmem |-> Zero, podcpu |-> Zero, podmem |-> Zero,
              collected |-> FALSE]

Init ==
  /\ in \in Inputs
  /\ Results = Recorded(in)
  /\ perf \in [Indices -> in.speeds \cup {0, NaN}]
  /\ \A k \in Indices : perf[k] \in FiguresOf(Results[k].driver)
  /\ loss \in [Indices -> {0, NaN}]
  /\ \A k \in Indices : loss[k] \in LossesOf(Results[k])
  /\ pc = "discover"
  /\ conn = [url |-> "none", openshift |-> FALSE, microshift |-> FALSE]
  /\ pavail = TRUE
  /\ i = 1 /\ q = 1 /\ attempt = 1
  /\ rec = [k \in Indices |-> [s \in Sides |-> NoMetrics]]
  /\ got = {} /\ faults = 0
  /\ screen = {} /\ archive = {} /\ retCode = 0

----------------------------------------------------------------------------
(***************************************************************************)
(* Is there a Prometheus?                                                  *)
(***************************************************************************)
shouldDiscoverPrometheus ==
  /\ in.agent
  /\ \/ in.degraded
     \/ in.distribution = "OpenShift"
     \/ in.distribution = "unknown" /\ ~ in.prom

\* Discover finds a URL or not (an empty PromConnect then); --prom replaces the URL and
\* keeps the rest; the distribution adds its flag; NewClient may fail.
DiscoverPrometheus ==
  /\ pc = "discover"
  /\ \E found, client \in BOOLEAN :
       LET seen == found /\ shouldDiscoverPrometheus
           url  == IF in.prom THEN "user" ELSE IF seen THEN "found" ELSE "none"
       IN  /\ conn' = [url        |-> url,
                       openshift  |-> seen \/ in.distribution = "OpenShift",
                       microshift |-> in.distribution = "MicroShift"]
           /\ pavail' = (url # "none" /\ client)
  /\ pc' = IF pavail' THEN "collect" ELSE "show"
  /\ UNCHANGED << fixed, loopVars, outVars >>

----------------------------------------------------------------------------
(***************************************************************************)
(* The queries for each result.                                            *)
(***************************************************************************)

\* Mutant: the node's CPU is asked for after the vSwitch figures.
QueriesCPULast ==
  << << "client", "vcpu" >>, << "client", "vmem" >>, << "server", "vcpu" >>,
     << "server", "vmem" >>, << "client", "cpu" >>, << "server", "cpu" >>,
     << "client", "podcpu" >>, << "server", "podcpu" >>,
     << "client", "podmem" >>, << "server", "podmem" >> >>

\* The ten calls of main, in its order.
Queries ==
  << << "client", "cpu" >>, << "server", "cpu" >>,
     << "client", "vcpu" >>, << "client", "vmem" >>,
     << "server", "vcpu" >>, << "server", "vmem" >>,
     << "client", "podcpu" >>, << "server", "podcpu" >>,
     << "client", "podmem" >>, << "server", "podmem" >> >>

\* Results without both node names (an external server) are passed over.
NextResult ==
  /\ pc = "collect"
  /\ IF i > Len(Results) THEN pc' = "details" /\ UNCHANGED i
     ELSE IF NoNode \in {in.nodes.client, in.nodes.server}
     THEN pc' = "collect" /\ i' = i + 1
     ELSE pc' = "query" /\ UNCHANGED i
  /\ UNCHANGED << fixed, conn, pavail, q, attempt, rec, got, faults, outVars >>

side == Queries[q][1]
kind == Queries[q][2]

\* "value": series with samples; "error": the query fails; "empty": no series; "hollow": a
\* series without samples; "shape": not the type a range query has.
Answers == {"value", "error", "empty", "hollow", "shape"}

Answered(a) ==
  IF a = "value" THEN got' = got \cup {<< i, side, kind >>} /\ UNCHANGED faults
  ELSE faults < MaxFaults /\ faults' = faults + 1 /\ UNCHANGED got

\* To the next query, or the next result.
Advance ==
  IF q < Len(Queries) THEN q' = q + 1 /\ UNCHANGED << i, pc >>
  ELSE q' = 1 /\ i' = i + 1 /\ pc' = "collect"

\* QueryNodeCPU got a value: it replaces the whole NodeCPU, vSwitch fields included.
NodeCPUCollected ==
  /\ pc = "query" /\ kind = "cpu"
  /\ Answered("value")
  /\ rec' = [rec EXCEPT ![i][side] = [@ EXCEPT !.cpu = Value(i, side), !.vcpu = Zero,
                                               !.vmem = Zero, !.collected = TRUE]]
  /\ attempt' = 1
  /\ Advance
  /\ UNCHANGED << fixed, conn, pavail, outVars >>

\* Mutant: one attempt too many.
NodeCPUFailsLate ==
  /\ pc = "query" /\ kind = "cpu"
  /\ \E a \in Answers \ {"value"} : Answered(a)
  /\ IF attempt <= Attempts THEN attempt' = attempt + 1 /\ UNCHANGED << i, q, pc >>
                            ELSE attempt' = 1 /\ Advance
  /\ UNCHANGED << fixed, conn, pavail, rec, outVars >>

\* Every other answer is an error, and asked again up to Attempts times.
NodeCPUFails ==
  /\ pc = "query" /\ kind = "cpu"
  /\ \E a \in Answers \ {"value"} : Answered(a)
  /\ IF attempt < Attempts THEN attempt' = attempt + 1 /\ UNCHANGED << i, q, pc >>
                           ELSE attempt' = 1 /\ Advance
  /\ UNCHANGED << fixed, conn, pavail, rec, outVars >>

\* VSwitchCPU, VSwitchMem, TopPodCPU and TopPodMem ask once; errors are only logged, and
\* the mean of no sample is NaN.
OtherQuery ==
  /\ pc = "query" /\ kind # "cpu"
  /\ \E a \in Answers \ {"shape"} :
       /\ Answered(a)
       /\ rec' = [rec EXCEPT ![i][side][kind] =
                    CASE a = "value"               -> Value(i, side)
                      [] a = "hollow"              -> NaN
                      [] a \in {"error", "empty"}  -> @]
  /\ Advance
  /\ UNCHANGED << fixed, conn, pavail, attempt, outVars >>

\* Their type assertions have no second value.
WrongShape ==
  /\ pc = "query" /\ kind # "cpu"
  /\ Answered("shape")
  /\ pc' = "panic"
  /\ UNCHANGED << fixed, conn, pavail, i, q, attempt, rec, outVars >>

\* NodeDetails and NodeMTU, for the labels of the documents: only the first asserts the
\* type of its answer, and asks only on OpenShift and MicroShift.
Details ==
  /\ pc = "details"
  /\ \E a \in Answers :
       /\ a # "value" => faults < MaxFaults
       /\ pc' = IF a = "shape" /\ (conn.openshift \/ conn.microshift) THEN "panic" ELSE "show"
  /\ UNCHANGED << fixed, conn, pavail, loopVars, outVars >>

----------------------------------------------------------------------------
(***************************************************************************)
(* The report.                                                             *)
(***************************************************************************)
\* Mutant: the CRR profiles do not match.
ContainsOnlyRR(p) == p.upper /\ p.name \in {"TCP_RR", "UDP_RR", "SCTP_RR"}

\* strings.Contains with "RR", "TCP_STREAM" and "UDP_STREAM".
ContainsRR(p)  == p.upper /\ p.name \in ProfileNames \ StreamNames
ContainsTCP(p) == p.upper /\ p.name \in {"TCP_STREAM", "TCP_STREAM_LAT"}
ContainsUDP(p) == p.upper /\ p.name = "UDP_STREAM"

\* The tables and the results with a row in them: renderResults twice, the latency tables,
\* ShowSpecificResults, and with --metrics ShowNodeCPU, ShowPodCPU and ShowPodMem.
InTable(table, r) ==
  LET p == r.cfg.profile
  IN  CASE table = "stream"   -> ContainsSTREAM(p)
        [] table = "rr"       -> ContainsRR(p)
        [] table = "latency"  -> IsTCPStreamLat(p) \/ ContainsRR(p)
        [] table = "specific" -> ContainsTCP(p) \/ ContainsUDP(p)
        [] table = "nodecpu"  -> in.metrics /\ (ContainsRR(p) => r.driver = "netperf")
        [] table = "pods"     -> in.metrics
Tables == {"stream", "rr", "latency", "specific", "nodecpu", "pods"}

ShowResults ==
  /\ pc = "show" /\ ~ in.json
  /\ screen' = {tk \in Tables \X Indices : InTable(tk[1], Results[tk[2]])}
  /\ pc' = "csv"
  /\ UNCHANGED << fixed, conn, pavail, loopVars, archive, retCode >>

\* BuildDocs makes a document of every result, and wants one; NaN has no JSON form.
Marshals == \A k \in Indices :
              perf[k] # NaN /\ loss[k] # NaN /\ \A s \in Sides, f \in Kinds : rec[k][s][f] # NaN

\* An error of WriteJSONResult is only logged.
WriteJSONResult ==
  /\ pc = "show" /\ in.json
  /\ screen' = IF Marshals THEN {"json"} \X Indices ELSE {}
  /\ pc' = "csv"
  /\ UNCHANGED << fixed, conn, pavail, loopVars, archive, retCode >>

Fatal(l) == pc = l /\ pc' = "fatal"
            /\ UNCHANGED << fixed, conn, pavail, loopVars, outVars >>

\* A row of a file or a document; the throughput files hold no figures of nodes.
Row(to, k, s, data) == [to |-> to, k |-> k, side |-> s, data |-> data]

WriteCSVResult ==
  /\ pc = "csv"
  /\ archive' = archive \cup (IF in.csv THEN {Row("csv", k, "client", NoMetrics) :
                                              k \in Indices} ELSE {})
  /\ pc' = IF ~ in.csv THEN "index" ELSE IF pavail THEN "promCsv" ELSE "specificCsv"
  /\ UNCHANGED << fixed, conn, pavail, loopVars, screen, retCode >>

\* writeArchive: a row per role, with the figures of that role.
RoleRow(k, s) == Row("promCsv", k, s, rec[k][s])

WritePromCSVResult ==
  /\ pc = "promCsv"
  /\ archive' = archive \cup {RoleRow(k, s) : k \in Indices, s \in Sides}
  /\ pc' = "specificCsv"
  /\ UNCHANGED << fixed, conn, pavail, loopVars, screen, retCode >>

WriteSpecificCSV ==
  /\ pc = "specificCsv"
  /\ archive' = archive \cup {Row("specificCsv", k, "client", NoMetrics) :
                     k \in {j \in Indices : InTable("specific", Results[j])}}
  /\ pc' = "index"
  /\ UNCHANGED << fixed, conn, pavail, loopVars, screen, retCode >>

\* Any of the three may fail to open or write its file.
CSVFails == in.csv /\ \E l \in {"csv", "promCsv", "specificCsv"} : Fatal(l)

\* The documents carry both roles' figures and marks.  No result is fatal here; an error of
\* the index is logged.
Index ==
  /\ pc = "index"
  /\ in.search => Results # << >>
  /\ \E stored \in BOOLEAN :
       archive' = archive \cup (IF in.search /\ stored
                                THEN {Row("index", k, s, rec[k][s]) :
                                      k \in Indices, s \in Sides} ELSE {})
  /\ pc' = "gate"
  /\ UNCHANGED << fixed, conn, pavail, loopVars, screen, retCode >>

NothingToIndex == in.search /\ Results = << >> /\ Fatal("index")

----------------------------------------------------------------------------
(***************************************************************************)
(* The comparison of host and pod network.                                 *)
(***************************************************************************)
IsTCPStream(r)   == r.cfg.profile = [name |-> "TCP_STREAM", upper |-> TRUE]
Positive(figure) == figure # NaN /\ figure # 0

\* Mutant: tests through a Service are compared as well.
ComparedService(r) == IsTCPStream(r) /\ ~ r.virt

\* The results TCPThroughputDiff looks at.
Compared(r) == IsTCPStream(r) /\ ~ r.cfg.service /\ ~ r.virt

\* doPerfDiff: the last positive figure of the size and one stream, or zero.
doPerfDiff(hostNet, msg) ==
  LET ks == {k \in Indices :
               /\ Compared(Results[k])
               /\ Results[k].hostNet = hostNet
               /\ Results[k].cfg.msg = msg /\ Results[k].cfg.streams = 1
               /\ Positive(perf[k])}
  IN  IF ks = {} THEN 0 ELSE perf[Max(ks)]

\* Mutant: the difference relative to the pod's figure.
AboveOfPod(h, p) == p > 0 /\ 100 * (h - p) > in.tcpt * p

\* tcpt < calDiff(h, p), the difference in percent of the mean; 0/0 is NaN, and nothing is
\* less than NaN.
Above(h, p) == h + p > 0 /\ 200 * (h - p) > in.tcpt * (h + p)

CheckHostResults == \E k \in Indices : Results[k].hostNet

Gate ==
  /\ pc = "gate"
  /\ retCode' =
       IF /\ in.host # "only" /\ CheckHostResults
          /\ \E k \in Indices :
               LET r == Results[k]
               IN  /\ IsTCPStream(r) /\ ~ r.cfg.service /\ r.cfg.streams = 1 /\ r.hostNet
                   /\ Above(doPerfDiff(TRUE, r.cfg.msg), doPerfDiff(FALSE, r.cfg.msg))
       THEN 1 ELSE 0
  /\ pc' = "finish"
  /\ UNCHANGED << fixed, conn, pavail, loopVars, screen, archive >>

\* cleanup (module Lifecycle) ends the process if the namespace cannot be deleted.
CleanupFails == in.clean /\ Fatal("finish")

Exit ==
  /\ pc = "finish"
  /\ pc' = "exit"
  /\ UNCHANGED << fixed, conn, pavail, loopVars, outVars >>

Terminated == pc \in Ended /\ UNCHANGED vars

Next == \/ DiscoverPrometheus \/ NextResult \/ NodeCPUCollected \/ NodeCPUFails
        \/ OtherQuery \/ WrongShape \/ Details
        \/ ShowResults \/ WriteJSONResult \/ WriteCSVResult \/ WritePromCSVResult
        \/ WriteSpecificCSV \/ CSVFails \/ Index \/ NothingToIndex
        \/ Gate \/ CleanupFails \/ Exit \/ Terminated

Spec == Init /\ [][Next]_vars

----------------------------------------------------------------------------
(***************************************************************************)
(* Properties.                                                             *)
(***************************************************************************)

\* Every variable has its type; no more than Attempts queries are made for one figure.
TypeOK ==
  /\ in \in Inputs
  /\ Results = Recorded(in)
  /\ pc \in PCs
  /\ pavail \in BOOLEAN
  /\ i \in 1 .. Len(Results) + 1
  /\ q \in 1 .. Len(Queries)
  /\ attempt \in 1 .. Attempts
  /\ pc = "query" => i <= Len(Results) /\ pavail /\ conn.url # "none"
  /\ \A k \in Indices, s \in Sides :
       rec[k][s] \in [cpu : {Zero, Value(k, s)}, vcpu : {Zero, NaN, Value(k, s)},
                      vmem : {Zero, NaN, Value(k, s)}, podcpu : {Zero, NaN, Value(k, s)},
                      podmem : {Zero, NaN, Value(k, s)}, collected : BOOLEAN]
  /\ retCode \in {0, 1}

\* Every archived row about the nodes holds exactly what Prometheus answered for that end
\* of that test, whichever queries failed in between; and it is marked collected exactly if
\* the CPU figures in it are measured (NodeCPU is assigned as a whole, and the vSwitch
\* queries write into the same record).
ArchivedAsMeasured ==
  \A row \in {r \in archive : r.to \in {"promCsv", "index"}} :
    /\ row.data.collected = (<< row.k, row.side, "cpu" >> \in got)
    /\ \A f \in Kinds :
         IF << row.k, row.side, f >> \in got THEN row.data[f] = Value(row.k, row.side)
                                             ELSE row.data[f] \in {Zero, NaN}

\* A process that dies while it archives or cleans up has shown the results before: only
\* an answer of Prometheus of a type the queries do not expect loses them, and in JSON a
\* NaN or a run without results.
NothingLostToArchiving ==
  pc \in {"fatal", "exit"} =>
    \A k \in Indices :
      IF in.json THEN << "json", k >> \in screen \/ ~ Marshals
      ELSE Results[k].cfg.profile.upper =>
             /\ << "stream", k >> \in screen <=> << "rr", k >> \notin screen
             /\ << "rr", k >> \in screen => << "latency", k >> \in screen

\* The reference for one pair: a positive host figure, and the pod's (no figure counts as
\* zero) lower by more than the tolerance, in percent of the mean of the two.
PairFails(h, p) ==
  LET pod == IF Positive(perf[p]) THEN perf[p] ELSE 0
  IN  Positive(perf[h]) /\ 100 * (perf[h] - pod) * 2 > in.tcpt * (perf[h] + pod)

Pairs ==
  {hp \in Indices \X Indices :
     LET h == Results[hp[1]]  p == Results[hp[2]]
     IN  /\ IsTCPStream(h) /\ h.hostNet /\ h.cfg.streams = 1 /\ ~ h.virt
         /\ ~ p.hostNet /\ ~ p.virt
         /\ h.cfg = p.cfg /\ h.driver = p.driver}

\* With one driver and message sizes that differ, the exit code is 1 exactly if some pair of
\* a host and a pod result of the same test is further apart than --tcp-tolerance.
GateExact ==
  pc = "exit" /\ in.host = "all" /\ Len(in.drivers) = 1
    /\ (\A a, b \in DOMAIN in.configs : in.configs[a].msg = in.configs[b].msg => a = b)
    => (retCode = 1 <=> \E hp \in Pairs : PairFails(hp[1], hp[2]))

\* Whatever is mixed, an exit code of 1 has a cause: a host figure, and the pod figures of
\* that message size, one of which (of any driver) is lower by more than the tolerance, or
\* none of which is positive.
FailsOnlyWithCause ==
  pc = "exit" /\ retCode = 1 =>
    \E h, p \in Indices :
      /\ \A k \in {h, p} : /\ IsTCPStream(Results[k]) /\ ~ Results[k].cfg.service
                           /\ ~ Results[k].virt
      /\ Results[h].hostNet /\ ~ Results[p].hostNet
      /\ Results[h].cfg.msg = Results[p].cfg.msg
      /\ PairFails(h, p)

\* "Allowed %diff from hostNetwork to podNetwork, anything above tolerance will result in
\* k8s-netperf exiting 1".
ToleranceEnforced ==
  pc = "exit" /\ in.host = "all" /\ (\A k \in Indices : Positive(perf[k])) =>
    \A hp \in Pairs : PairFails(hp[1], hp[2]) => retCode = 1
=============================================================================
