------------------------------ MODULE Placement ------------------------------
(***************************************************************************)
(* Where the clients and servers of a fresh run end up (BuildSUT,          *)
(* pkg/k8s/kubernetes.go 610-1215, launchServerVM and launchClientVM), and *)
(* which of them executeWorkload pairs for each test                       *)
(* (cmd/k8s-netperf/k8s-netperf.go 745-857, 910-911).                      *)
(*                                                                         *)
(* The scheduler is the environment: it may pick any node that meets the   *)
(* Required terms.  Preferred terms bind nobody and are left out, and with *)
(* them everything BuildSUT computes only for their sake (acrossZone, the  *)
(* netperf= labels of areNodesLabeled).                                    *)
(***************************************************************************)
EXTENDS Naturals, Sequences, FiniteSets, FiniteSetsExt

CONSTANTS
  Clusters,   \* the clusters: the schedulable nodes in the order List returns them
  FlagSets    \* the command lines

\* --all and --hostNet are the values of host; "primary" stands for --udnl2, --udnl3,
\* --cudn and --macvlan, whose server address is always that of the server pod, and
\* "attached" for --sriov and --bridge, which tell pods and VMs apart.
FlagType == [local : BOOLEAN, host : {"no", "all", "only"}, pod : BOOLEAN, vm : BOOLEAN,
             external : BOOLEAN, net : {"default", "primary", "attached"}]

NoZone == ""

\* The labels of a node: its roles, and its zone if it has the label.
NodeType == [worker : BOOLEAN, infra : BOOLEAN, workload : BOOLEAN, zone : STRING]

ASSUME ClustersAssumption == Clusters \subseteq Seq(NodeType)
ASSUME FlagsAssumption == FlagSets \subseteq FlagType

VARIABLES
  cl,          \* the cluster
  flags,       \* the command line
  pc,          \* the deployment BuildSUT is at, or where it ended
  z,           \* the zone BuildSUT got from GetZone
  node,        \* the node of each pod and VM, or Nowhere: its list in s is empty
  clientInfo,  \* s.ClientNodeInfo
  serverInfo   \* s.ServerNodeInfo

vars == << cl, flags, pc, z, node, clientInfo, serverInfo >>

Nowhere == 0

\* In the order BuildSUT deploys them.
Deployments == << "client", "client-host", "client-across", "client-vm",
                  "server-host", "server", "server-vm" >>
Pods == {Deployments[k] : k \in DOMAIN Deployments}
Ends == {"ready", "error", "panic"}
PCs  == {"count", "zones"} \cup Pods \cup Ends

----------------------------------------------------------------------------
(***************************************************************************)
(* The cluster as the code reads it.                                       *)
(***************************************************************************)
Workers == {n \in DOMAIN cl : cl[n].worker}

\* workerNodeSelectorExpression.
Eligible == {n \in Workers : ~ cl[n].infra /\ ~ cl[n].workload}

\* The node count of BuildSUT: nodes with workload= are not left out here.
ncount == Cardinality({n \in Workers : ~ cl[n].infra})

\* GetZone reads the workers up to the first one without the label.
Unlabelled == {n \in Workers : cl[n].zone = NoZone}
ZonesRead  == {n \in Workers : \A u \in Unlabelled : n < u}
InZone(az) == Cardinality({n \in ZonesRead : cl[n].zone = az})
Zones      == {cl[n].zone : n \in ZonesRead}

\* The zone GetZone returns: the one of the last worker that is not the first of its
\* zone, or else of the last worker.
GetZone ==
  LET repeated == {n \in Workers : \E m \in Workers : m < n /\ cl[m].zone = cl[n].zone}
  IN  CASE Workers = {} \/ Unlabelled # {} -> NoZone
        [] Workers # {} /\ Unlabelled = {} /\ repeated # {} -> cl[Max(repeated)].zone
        [] OTHER -> cl[Max(Workers)].zone

----------------------------------------------------------------------------
(***************************************************************************)
(* The scenario: main 228-262, 321-323.                                    *)
(***************************************************************************)
HostNetwork     == flags.host # "no"
HostNetworkOnly == flags.host = "only"

\* --across sets the package's acrossAZ, and s.AcrossAZ is set from a variable of the
\* same name declared in Run, which is still FALSE: the flag has no effect.
AcrossAZ == FALSE

\* main's node count.
CountNodes ==
  /\ pc = "count"
  /\ pc' = IF ~ flags.local /\ Cardinality(Workers) < 2 THEN "error"
           ELSE IF flags.external THEN "client" ELSE "zones"
  /\ UNCHANGED << cl, flags, z, node, clientInfo, serverInfo >>

\* Mutant: GetZone returns a zone it has seen although a worker has no label.
CheckZonesPartial ==
  /\ pc = "zones"
  /\ pc' = IF ~ flags.local /\ ncount < 2 THEN "error" ELSE "client"
  /\ z' \in Zones \cup {NoZone}
  /\ UNCHANGED << cl, flags, node, clientInfo, serverInfo >>

\* BuildSUT's own checks.  If GetZone cannot list the nodes, that is logged and there is
\* no zone.
CheckZones ==
  /\ pc = "zones"
  /\ pc' = IF (AcrossAZ /\ Cardinality(Zones) < 2) \/ (~ flags.local /\ ncount < 2)
           THEN "error" ELSE "client"
  /\ z' \in {GetZone, NoZone}
  /\ UNCHANGED << cl, flags, node, clientInfo, serverInfo >>

----------------------------------------------------------------------------
(***************************************************************************)
(* The deployments.                                                        *)
(***************************************************************************)
Role(p) ==
  CASE p = "client"                      -> "client-local"
    [] p \in {"client-across", "client-vm"} -> "client-across"
    [] p = "client-host"                 -> "host-client"
    [] p = "server-host"                 -> "host-server"
    [] p = "server"                      -> "server"
    [] p = "server-vm"                   -> "vm-server"

\* Mutant: no server pod with --hostNet, --local or not.
WantedNoLocal(p) ==
  CASE p = "client" -> flags.external \/ (flags.local /\ flags.pod)
    [] p \in {"client-host", "server-host"} -> ncount > 1 /\ HostNetwork /\ flags.pod
    [] p = "client-across" -> ncount > 1 /\ ~ HostNetworkOnly /\ flags.pod
    [] p = "client-vm" -> ncount > 1 /\ ~ HostNetworkOnly /\ flags.vm
    [] p = "server" -> ~ HostNetworkOnly /\ flags.pod
    [] p = "server-vm" -> ~ HostNetworkOnly /\ flags.vm

\* The conditions around the deployment of p.
Wanted(p) ==
  CASE p = "client" -> flags.external \/ (flags.local /\ flags.pod)
    [] p = "client-host" -> ncount > 1 /\ HostNetwork /\ flags.pod
    [] p = "client-across" -> ncount > 1 /\ ~ HostNetworkOnly /\ flags.pod
    [] p = "client-vm" -> ncount > 1 /\ ~ HostNetworkOnly /\ flags.vm
    [] p = "server-host" -> ncount > 1 /\ HostNetwork /\ flags.pod
    [] p = "server" -> (~ HostNetworkOnly \/ flags.local) /\ flags.pod
    [] p = "server-vm" -> (~ HostNetworkOnly \/ flags.local) /\ flags.vm

\* Required node affinity: without zone labels only the two clients that are always
\* restricted to workers are.
NodesFor(p) ==
  IF p \in {"client", "client-host"} \/ z # NoZone THEN Eligible ELSE DOMAIN cl

\* Mutants: the servers keep away from the wrong clients, or from all of them.
AvoidsLocal(p) ==
  IF p = "client" \/ (flags.local /\ p \in {"server", "server-vm", "server-host"}) THEN {}
  ELSE {"client-local"}

AvoidsAll(p) ==
  CASE p \in {"client-host", "client-across", "client-vm"} -> {"client-local"}
    [] p \in {"server", "server-vm", "server-host"} ->
         IF flags.local THEN {} ELSE {"client-across", "host-client"}
    [] p = "client" -> {}

\* Required pod anti-affinity: the role p keeps away from.
Avoids(p) ==
  CASE p \in {"client-host", "client-across", "client-vm"} -> {"client-local"}
    [] p \in {"server", "server-vm"} -> IF flags.local THEN {} ELSE {"client-across"}
    [] p = "server-host" -> IF flags.local THEN {} ELSE {"host-client"}
    [] p = "client" -> {}

\* Required pod affinity: only the server pod has it, and only with --local.
Joins(p) == IF p = "server" /\ flags.local THEN {"client-local"} ELSE {}

RolesOn(n) == {Role(p) : p \in {q \in Pods : node[q] = n}}

Fits(p, n) == /\ n \in NodesFor(p)
              /\ Avoids(p) \cap RolesOn(n) = {}
              /\ Joins(p) \subseteq RolesOn(n)

After(p) ==
  IF flags.external \/ p = "server-vm" THEN "ready"
  ELSE Deployments[1 + CHOOSE k \in DOMAIN Deployments : Deployments[k] = p]

\* Mutant: --hostNet leaves s.ClientNodeInfo alone.
ClientInfoFromPods(p) ==
  CASE p = "client" /\ (flags.external \/ flags.local) -> {"client"}
    [] p = "client-vm" /\ Wanted(p) -> {"client-vm"}
    [] p = "server" /\ Wanted(p) /\ ~ flags.local -> {"client-across", "client-vm"}
    [] OTHER -> {}

\* The calls of GetPodNodeInfo after p: which of s.ClientNodeInfo and s.ServerNodeInfo is
\* set from the first pod of which kind.  A pod and a VM share the role client-across.
ClientInfoFrom(p) ==
  CASE p = "client" /\ (flags.external \/ flags.local) -> {"client"}
    [] p = "client-host" /\ ncount > 1 /\ HostNetworkOnly -> {"client-host"}
    [] p = "client-vm" /\ Wanted(p) -> {"client-vm"}
    [] p = "server" /\ Wanted(p) /\ ~ flags.local -> {"client-across", "client-vm"}
    [] OTHER -> {}

ServerInfoFrom(p) ==
  CASE p = "server-host" /\ ncount > 1 /\ HostNetworkOnly -> {"server-host"}
    [] p \in {"server", "server-vm"} /\ Wanted(p) -> {p}
    [] OTHER -> {}

\* What the info is set to, Nowhere standing for a read of the first pod of none.
InfoAfter(kinds, info) ==
  IF kinds = {} THEN {info}
  ELSE LET at == {node'[q] : q \in kinds} \ {Nowhere} IN IF at = {} THEN {Nowhere} ELSE at

CollectNodeInfo(p) ==
  /\ clientInfo' \in InfoAfter(ClientInfoFrom(p), clientInfo)
  /\ serverInfo' \in InfoAfter(ServerInfoFrom(p), serverInfo)
  /\ pc' = IF \/ ClientInfoFrom(p) # {} /\ clientInfo' = Nowhere
              \/ ServerInfoFrom(p) # {} /\ serverInfo' = Nowhere
           THEN "panic" ELSE After(p)

\* deployDeployment, launchClientVM or launchServerVM, and what follows it: the pod is
\* created, scheduled, waited for and listed.
Deploy(p) ==
  /\ pc = p /\ Wanted(p)
  /\ \E n \in DOMAIN cl : Fits(p, n) /\ node' = [node EXCEPT ![p] = n]
  /\ CollectNodeInfo(p)
  /\ UNCHANGED << cl, flags, z >>

SkipDeployment(p) ==
  /\ pc = p /\ ~ Wanted(p)
  /\ UNCHANGED node
  /\ CollectNodeInfo(p)
  /\ UNCHANGED << cl, flags, z >>

\* No node fits: WaitForReady or WaitForVMI waits for as long as its watch lasts.
Unschedulable(p) ==
  /\ pc = p /\ Wanted(p)
  /\ ~ \E n \in DOMAIN cl : Fits(p, n)
  /\ UNCHANGED vars

Ended == pc \in Ends /\ UNCHANGED vars

Init ==
  /\ cl \in Clusters
  /\ flags \in FlagSets
  /\ pc = "count"
  /\ z = NoZone
  /\ node = [p \in Pods |-> Nowhere]
  /\ clientInfo = Nowhere
  /\ serverInfo = Nowhere

Next == \/ CountNodes \/ CheckZones \/ Ended
        \/ \E p \in Pods : Deploy(p) \/ SkipDeployment(p) \/ Unschedulable(p)

\* BuildSUT is one goroutine that keeps taking steps, and the scheduler binds a pod that
\* fits somewhere.
Spec == Init /\ [][Next]_vars /\ WF_vars(Next)

----------------------------------------------------------------------------
(***************************************************************************)
(* The pairing of executeWorkload.                                         *)
(***************************************************************************)

\* The tests the loops of main ask for (module Workload); with an external server there
\* is no VM to connect to.
Tests ==
  { t \in [virt : BOOLEAN, hostNet : BOOLEAN, service : BOOLEAN] :
      /\ IF t.virt THEN flags.vm /\ ~ flags.external ELSE flags.pod
      /\ IF t.hostNet THEN ~ t.virt /\ HostNetwork /\ ~ t.service ELSE ~ HostNetworkOnly }

\* Whose address serverIP is, or, through a Service, who is behind it.
ServerOf(t) ==
  CASE t.service \/ flags.net = "attached" -> IF t.virt THEN "server-vm" ELSE "server"
    [] ~ t.service /\ flags.net = "primary" -> "server"
    [] ~ t.service /\ flags.net = "default" ->
         IF t.virt THEN "server-vm"
         ELSE IF t.hostNet /\ ~ flags.local THEN "server-host" ELSE "server"

\* The list Client, whose first pod every driver reads.
ClientList(t) ==
  IF t.hostNet /\ ~ flags.local THEN "client-host"
  ELSE IF flags.local \/ flags.external THEN "client"
  ELSE IF t.virt THEN "client-vm" ELSE "client-across"

\* Who really runs the benchmark: between VMs the connection to the client VM.
ClientOf(t) == IF t.virt THEN "client-vm" ELSE ClientList(t)

\* Mutant: a zone of two nodes counts as single.
AcrossLabelTwo == /\ ~ flags.local
                  /\ Zones # {} /\ Unlabelled = {} /\ InZone(GetZone) <= 2

\* npr.SameNode and npr.AcrossAZ.
SameNode    == flags.local
AcrossLabel == /\ ~ flags.local
               /\ AcrossAZ \/ (Zones # {} /\ Unlabelled = {} /\ InZone(GetZone) <= 1)

Paired(t) == {node[ClientOf(t)], node[ServerOf(t)]}

----------------------------------------------------------------------------
(***************************************************************************)
(* Properties.                                                             *)
(***************************************************************************)

\* Every variable has its type.
TypeOK ==
  /\ cl \in Clusters
  /\ flags \in FlagSets
  /\ pc \in PCs
  /\ z \in {GetZone, NoZone}
  /\ node \in [Pods -> DOMAIN cl \cup {Nowhere}]
  /\ clientInfo \in DOMAIN cl \cup {Nowhere}
  /\ serverInfo \in DOMAIN cl \cup {Nowhere}

\* Every pod list executeWorkload and the drivers read the first element of is non-empty,
\* except for the combinations main does not refuse: an external server with host network
\* tests, and a network of its own without the server pod its address is read from; and
\* VMs with --local on one node, which have no client.
EndpointsRun ==
  pc = "ready" =>
    \A t \in Tests :
      /\ flags.external => (t.hostNet /\ ~ flags.local) \/ node[ClientList(t)] # Nowhere
      /\ ~ flags.external =>
           \/ Nowhere \notin Paired(t) /\ node[ClientList(t)] # Nowhere
           \/ flags.net # "default" /\ HostNetworkOnly /\ ~ flags.local
           \/ flags.net = "primary" /\ ~ flags.pod
           \/ t.virt /\ flags.local /\ ncount < 2

\* The two ends of a test are on different nodes, and on the same one if the result is
\* marked SameNode (VMs excepted), wherever the scheduler puts what is deployed before and
\* between them.
EndsApartOrTogether ==
  pc = "ready" /\ ~ flags.external =>
    \A t \in Tests :
      Nowhere \notin Paired(t) =>
        IF SameNode THEN t.virt \/ Cardinality(Paired(t)) = 1
        ELSE Cardinality(Paired(t)) = 2 \/ (t.hostNet /\ flags.net # "default")
                                        \/ (t.virt /\ flags.net = "primary")

\* A result marked AcrossAZ was measured between two zones (main calls GetZone a second
\* time, after BuildSUT used its answer to the first call).
AcrossLabelSound ==
  pc = "ready" /\ z # NoZone /\ AcrossLabel =>
    \A t \in Tests :
      Cardinality(Paired(t)) = 2 /\ Nowhere \notin Paired(t) =>
        cl[node[ClientOf(t)]].zone # cl[node[ServerOf(t)]].zone

\* One run, one kind of test: then the node information every result gets is that of the
\* nodes it was measured on.
NodeInfoTruthful ==
  pc = "ready" /\ ~ flags.external /\ flags.net = "default" /\ flags.pod # flags.vm
    /\ flags.host # "all" /\ ~ (flags.local /\ HostNetworkOnly) =>
      \A t \in Tests : Nowhere \notin Paired(t) =>
        /\ clientInfo = node[ClientOf(t)]
        /\ serverInfo = node[ServerOf(t)]

\* With room for a client pod, a client VM and a server on nodes of their own, or two
\* nodes for pods or VMs alone, everything gets scheduled and BuildSUT comes to an end.
Room == Cardinality(Eligible) >= IF flags.pod /\ flags.vm THEN 3 ELSE 2
SetupEnds == Room => <>(pc \in Ends)
==============================================================================
