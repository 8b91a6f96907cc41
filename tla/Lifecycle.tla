------------------------------ MODULE Lifecycle ------------------------------
(***************************************************************************)
(* What successive runs of k8s-netperf create in a cluster and remove from *)
(* it: cleanup at the start, BuildInfra, the network objects, the          *)
(* deployments, the tests, the report and cleanup at the end (main,        *)
(* k8s-netperf.go 227-634).  A run ends by itself, through log.Fatal or    *)
(* os.Exit anywhere, or is killed; the next one starts with other flags on *)
(* whatever is left.  The controllers that carry deletions out run by      *)
(* themselves.                                                             *)
(***************************************************************************)
EXTENDS Naturals, FiniteSets

CONSTANTS
  FlagSets,    \* the flags a run may be started with: [clean, net, bridge, vm]
  MaxRuns,     \* bound: how many runs follow each other
  MaxPolls     \* polls of WaitForSriovNad (24 in the code)

Nets == {"none", "udn", "cudn", "sriov", "macvlan"}

ASSUME FlagsAssumption ==
  FlagSets \subseteq [clean : BOOLEAN, net : Nets, bridge : BOOLEAN, vm : BOOLEAN]
ASSUME BoundsAssumption == MaxRuns \in Nat \ {0} /\ MaxPolls \in Nat \ {0}

\* What lives in the netperf namespace.  "sut" stands for the services and deployments,
\* which are all created or reused in the same way, "ssh" for the client VM's SSH Service
\* and its Route.
Kinds == {"sa", "rb", "udn", "bridgeNad", "macvlanNad", "sriovnad", "sut", "clientVM", "ssh",
          "serverVM"}
Runs  == 1 .. MaxRuns
None  == 0

VARIABLES
  run,        \* the number of the current run
  flags,      \* its flags
  pc,         \* where main is
  final,      \* whether the cleanup in progress is the one at the end
  polls,      \* WaitForSriovNad's loop counter
  hiccup,     \* history: an API error was only logged, or taken for "not found"
  collision,  \* history: the object whose Create met an existing one, or "none"
  ns,         \* the namespace: "absent", "active" or "terminating"
  label,      \* its label: "udn" (primary network) or "test"
  content,    \* who created what is in it: a run or None
  \* The objects outside the namespace: who created each (by), and whether its deletion has
  \* been requested and is not done yet (deleting).
  cudn,       \* the ClusterUserDefinedNetwork
  sriovNet,   \* the SriovNetwork
  sriovPolicy \* the SriovNetworkNodePolicy

proc    == << run, flags, final, polls, hiccup, collision >>
netObjs == << cudn, sriovNet, sriovPolicy >>
nsObjs  == << ns, label, content >>
vars    == << proc, pc, nsObjs, netObjs >>

NoContent == [k \in Kinds |-> None]

Objects        == [by : Runs \cup {None}, deleting : BOOLEAN]
CreatedBy(r)   == [by |-> r, deleting |-> FALSE]
NoObject       == CreatedBy(None)
OnItsWayOut(o) == o.by = None \/ o.deleting

\* "exit": os.Exit at the end of main; "fatal": log.Fatal, os.Exit(1) or a panic before
\* that; "killed": ended from outside.
Ended == {"exit", "fatal", "killed"}
PCs == {"cleanCudn", "cleanSriovNet", "cleanSriovPolicy", "nsGet", "nsDelete", "nsWait",
        "nodes", "namespace", "sa", "rb", "net", "bridgeNad", "policy", "sriovNetwork",
        "nadWait", "macvlanNad", "sut", "clientVM", "ssh", "serverVM", "test", "report"}
       \cup Ended

----------------------------------------------------------------------------
(***************************************************************************)
(* The cluster's controllers.                                              *)
(***************************************************************************)
Controllers == UNCHANGED << proc, pc >>

\* The namespace controller removes the content and then the namespace.
NamespaceGone ==
  /\ ns = "terminating"
  /\ ns' = "absent"
  /\ content' = NoContent
  /\ UNCHANGED << label, netObjs >>
  /\ Controllers

\* The network controller releases a deleted network once no pod is attached to it.
CudnGone ==
  /\ cudn.deleting
  /\ content["sut"] = None
  /\ cudn' = NoObject
  /\ UNCHANGED << nsObjs, sriovNet, sriovPolicy >>
  /\ Controllers

\* The SR-IOV operator generates the NetworkAttachmentDefinition of a SriovNetwork ...
OperatorMakesNad ==
  /\ sriovNet.by # None /\ ~ sriovNet.deleting
  /\ ns = "active"
  /\ content["sriovnad"] = None
  /\ content' = [content EXCEPT !["sriovnad"] = sriovNet.by]
  /\ UNCHANGED << ns, label, netObjs >>
  /\ Controllers

\* ... and lets go of a deleted one, with or without what it generated for it ...
SriovNetGone ==
  /\ sriovNet.deleting
  /\ sriovNet' = NoObject
  /\ content' \in {content, [content EXCEPT !["sriovnad"] = None]}
  /\ UNCHANGED << ns, label, cudn, sriovPolicy >>
  /\ Controllers

\* ... and of a deleted policy.
SriovPolicyGone ==
  /\ sriovPolicy.deleting
  /\ sriovPolicy' = NoObject
  /\ UNCHANGED << nsObjs, cudn, sriovNet >>
  /\ Controllers

----------------------------------------------------------------------------
(***************************************************************************)
(* cleanup (k8s-netperf.go 666-692), run twice by a run with --clean.      *)
(***************************************************************************)
Goto(l) == pc' = l /\ UNCHANGED proc

\* An API error that is logged and forgotten.
Ignored(l) == /\ pc' = l /\ hiccup' = TRUE
              /\ UNCHANGED << run, flags, final, polls, collision, nsObjs, netObjs >>

\* A Delete is a request: the object stays until its controller has let go of it.  NotFound
\* is logged like any other error.
RequestDelete(o) == [o EXCEPT !.deleting = o.by # None]

\* Mutant: the SR-IOV objects are forgotten.
CleanStartNoSriov(f) == IF f.net = "cudn" THEN "cleanCudn" ELSE "nsGet"

CleanStart(f) == IF f.net = "cudn" THEN "cleanCudn"
                 ELSE IF f.net = "sriov" THEN "cleanSriovNet" ELSE "nsGet"

\* DestroyCUdn: the deletion is not waited for.
CleanCudn ==
  /\ pc = "cleanCudn"
  /\ \/ /\ Goto("nsGet")
        /\ cudn' = RequestDelete(cudn)
        /\ UNCHANGED << nsObjs, sriovNet, sriovPolicy >>
     \/ Ignored("nsGet")

\* DestroySriovResources: two deletions with foreground propagation that are not waited for
\* either and whose errors are only warned about.
CleanSriovNet ==
  /\ pc = "cleanSriovNet"
  /\ \/ /\ Goto("cleanSriovPolicy")
        /\ sriovNet' = RequestDelete(sriovNet)
        /\ UNCHANGED << nsObjs, cudn, sriovPolicy >>
     \/ Ignored("cleanSriovPolicy")

\* Mutant: the policy is not deleted.
CleanSriovPolicyNot ==
  /\ pc = "cleanSriovPolicy"
  /\ \/ Goto("nsGet") /\ UNCHANGED << nsObjs, netObjs >>
     \/ Ignored("nsGet")

CleanSriovPolicy ==
  /\ pc = "cleanSriovPolicy"
  /\ \/ /\ Goto("nsGet")
        /\ sriovPolicy' = RequestDelete(sriovPolicy)
        /\ UNCHANGED << nsObjs, cudn, sriovNet >>
     \/ Ignored("nsGet")

AfterCleanup == IF final THEN "exit" ELSE "nodes"

\* DestroyNamespace: Get, with any error taken for "there is none" ...
NsGet ==
  /\ pc = "nsGet"
  /\ \/ ns # "absent" /\ Goto("nsDelete") /\ UNCHANGED << nsObjs, netObjs >>
     \/ ns = "absent" /\ Goto(AfterCleanup) /\ UNCHANGED << nsObjs, netObjs >>
     \/ ns # "absent" /\ Ignored(AfterCleanup)

\* Mutant: the deletion is not waited for.
NsDeleteNoWait ==
  /\ pc = "nsDelete"
  /\ ns # "absent"
  /\ Goto(AfterCleanup)
  /\ ns' = "terminating"
  /\ UNCHANGED << label, content, netObjs >>

\* ... Delete, where NotFound is an error like any other ...
NsDelete ==
  /\ pc = "nsDelete"
  /\ ns # "absent"
  /\ Goto("nsWait")
  /\ ns' = "terminating"
  /\ UNCHANGED << label, content, netObjs >>

\* ... and waitForNamespaceDelete (module ClusterWait).
NsWait ==
  /\ pc = "nsWait"
  /\ ns = "absent"
  /\ Goto(AfterCleanup)
  /\ UNCHANGED << nsObjs, netObjs >>

----------------------------------------------------------------------------
(***************************************************************************)
(* Setting up.                                                             *)
(***************************************************************************)

\* Create an object named by k if there is none; otherwise, and while it is being deleted
\* too, the server answers AlreadyExists.  Nothing can be created in a terminating namespace.
AlreadyExists(k) ==
  /\ pc' = "fatal"
  /\ collision' = k
  /\ UNCHANGED << run, flags, final, polls, hiccup, nsObjs, netObjs >>

CreateIn(k, l) ==
  \/ /\ ns = "active" /\ content[k] = None
     /\ content' = [content EXCEPT ![k] = run]
     /\ Goto(l)
     /\ UNCHANGED << ns, label, netObjs >>
  \/ ns = "active" /\ content[k] # None /\ AlreadyExists(k)

\* Get, and Create only if there is none.
Reuse(k, l) == content[k] # None /\ Goto(l) /\ UNCHANGED << nsObjs, netObjs >>

GetOrCreate(k, l) == Reuse(k, l) \/ (content[k] = None /\ CreateIn(k, l))

\* The node count check, and everything else before the cluster is touched.
Nodes == pc = "nodes" /\ Goto("namespace") /\ UNCHANGED << nsObjs, netObjs >>

\* BuildInfra: an existing namespace is reused whatever its label, and even while it
\* is terminating.
BuildNamespace ==
  /\ pc = "namespace"
  /\ Goto("sa")
  /\ ns' = IF ns = "absent" THEN "active" ELSE ns
  /\ label' = IF ns = "absent" THEN (IF flags.net = "udn" THEN "udn" ELSE "test") ELSE label
  /\ UNCHANGED << content, netObjs >>

BuildServiceAccount == pc = "sa" /\ GetOrCreate("sa", "rb")

BuildRoleBinding == pc = "rb" /\ GetOrCreate("rb", "net")

\* DeployL2Udn, DeployL3Udn.
DeployUdn == pc = "net" /\ flags.net = "udn" /\ CreateIn("udn", "bridgeNad")

DeployCUDN ==
  /\ pc = "net" /\ flags.net = "cudn"
  /\ \/ /\ cudn.by = None
        /\ cudn' = CreatedBy(run)
        /\ Goto("bridgeNad")
        /\ UNCHANGED << nsObjs, sriovNet, sriovPolicy >>
     \/ cudn.by # None /\ AlreadyExists("cudn")

NoUdn ==
  /\ pc = "net" /\ flags.net \notin {"udn", "cudn"}
  /\ Goto("bridgeNad")
  /\ UNCHANGED << nsObjs, netObjs >>

NetStep == CASE flags.net = "sriov"   -> "policy"
             [] flags.net = "macvlan" -> "macvlanNad"
             [] OTHER                 -> "sut"

\* DeployNADBridge, for --vm --bridge: its error is only logged.
DeployNADBridge ==
  /\ pc = "bridgeNad"
  /\ \/ /\ flags.vm /\ flags.bridge /\ ns = "active" /\ content["bridgeNad"] = None
        /\ content' = [content EXCEPT !["bridgeNad"] = run]
        /\ Goto(NetStep)
        /\ UNCHANGED << ns, label, netObjs >>
     \/ flags.vm /\ flags.bridge /\ Ignored(NetStep)
     \/ /\ ~ (flags.vm /\ flags.bridge)
        /\ Goto(NetStep)
        /\ UNCHANGED << nsObjs, netObjs >>

\* ValidateBridgeNetwork, for pods on a bridge somebody else has set up.
ValidateBridgeFails ==
  /\ pc = "bridgeNad" /\ flags.bridge /\ ~ flags.vm
  /\ Goto("fatal")
  /\ UNCHANGED << nsObjs, netObjs >>

\* DeploySriovOperatorConfig (an update that is never undone) and DeploySriovPolicy.
DeploySriovPolicy ==
  /\ pc = "policy"
  /\ \/ /\ sriovPolicy.by = None
        /\ sriovPolicy' = CreatedBy(run)
        /\ Goto("sriovNetwork")
        /\ UNCHANGED << nsObjs, cudn, sriovNet >>
     \/ sriovPolicy.by # None /\ AlreadyExists("policy")

DeploySriovNetwork ==
  /\ pc = "sriovNetwork"
  /\ \/ /\ sriovNet.by = None
        /\ sriovNet' = CreatedBy(run)
        /\ pc' = "nadWait" /\ polls' = 0
        /\ UNCHANGED << run, flags, final, hiccup, collision, nsObjs, cudn, sriovPolicy >>
     \/ sriovNet.by # None /\ AlreadyExists("sriovNetwork")

\* Mutant: one poll too many.
NadPollOnceMore ==
  /\ pc = "nadWait"
  /\ IF content["sriovnad"] # None
       THEN Goto("sut")
       ELSE /\ polls' = polls + 1
            /\ pc' = IF polls = MaxPolls THEN "fatal" ELSE "nadWait"
            /\ UNCHANGED << run, flags, final, hiccup, collision >>
  /\ UNCHANGED << nsObjs, netObjs >>

\* WaitForSriovNad.
NadPoll ==
  /\ pc = "nadWait"
  /\ IF content["sriovnad"] # None
       THEN Goto("sut")
       ELSE /\ polls' = polls + 1
            /\ pc' = IF polls + 1 = MaxPolls THEN "fatal" ELSE "nadWait"
            /\ UNCHANGED << run, flags, final, hiccup, collision >>
  /\ UNCHANGED << nsObjs, netObjs >>

DeployNADMacvlan == pc = "macvlanNad" /\ CreateIn("macvlanNad", "sut")

\* BuildSUT's services and deployments: existing ones are reused (a deployment without a
\* ready replica is not, and its Create fails).
BuildSUT ==
  /\ pc = "sut"
  /\ LET l == IF flags.vm THEN "clientVM" ELSE "test" IN
       \/ GetOrCreate("sut", l)
       \/ content["sut"] # None /\ CreateIn("sut", l)

\* CreateVMI does not look for an existing one.
CreateVMI(k, next) == CreateIn(k, next)

CreateVMClient == pc = "clientVM" /\ CreateVMI("clientVM", "ssh")

\* createCommService and exposeService, at the end of CreateVMClient, do not either.
CreateCommService == pc = "ssh" /\ CreateIn("ssh", "serverVM")

CreateVMServer == pc = "serverVM" /\ CreateVMI("serverVM", "test")

\* The measuring part (module Workload).
Measure == pc = "test" /\ Goto("report") /\ UNCHANGED << nsObjs, netObjs >>

\* Show, archive and index; then, with --clean, clean up again.
Report ==
  /\ pc = "report"
  /\ pc' = IF flags.clean THEN CleanStart(flags) ELSE "exit"
  /\ final' = TRUE
  /\ UNCHANGED << run, flags, polls, hiccup, collision, nsObjs, netObjs >>

\* The steps whose errors end the process through log.Fatal or os.Exit(1): nothing else
\* is done, and no cleanup in particular.
FatalSteps == {"nsDelete", "nsWait", "nodes", "namespace", "sa", "rb", "net", "policy",
               "sriovNetwork", "macvlanNad", "sut", "clientVM", "ssh", "serverVM",
               "test", "report"}

Dies ==
  /\ pc \in FatalSteps
  /\ Goto("fatal")
  /\ UNCHANGED << nsObjs, netObjs >>

\* The process is killed, or its machine dies, at any point.
Killed ==
  /\ pc \notin Ended
  /\ Goto("killed")
  /\ UNCHANGED << nsObjs, netObjs >>

\* Somebody starts k8s-netperf again.
StartRun ==
  /\ pc \in Ended
  /\ run < MaxRuns
  /\ run' = run + 1
  /\ flags' \in FlagSets
  /\ pc' = IF flags'.clean THEN CleanStart(flags') ELSE "nodes"
  /\ final' = FALSE /\ polls' = 0 /\ hiccup' = FALSE /\ collision' = "none"
  /\ UNCHANGED << nsObjs, netObjs >>

Init ==
  /\ run = 1
  /\ flags \in FlagSets
  /\ pc = IF flags.clean THEN CleanStart(flags) ELSE "nodes"
  /\ final = FALSE /\ polls = 0 /\ hiccup = FALSE /\ collision = "none"
  /\ ns = "absent" /\ label = "test" /\ content = NoContent
  /\ cudn = NoObject /\ sriovNet = NoObject /\ sriovPolicy = NoObject

Cleanup == CleanCudn \/ CleanSriovNet \/ CleanSriovPolicy \/ NsGet \/ NsDelete \/ NsWait
Setup   == \/ Nodes \/ BuildNamespace \/ BuildServiceAccount \/ BuildRoleBinding
           \/ DeployUdn \/ DeployCUDN \/ NoUdn \/ DeployNADBridge \/ ValidateBridgeFails
           \/ DeploySriovPolicy \/ DeploySriovNetwork \/ NadPoll \/ DeployNADMacvlan
           \/ BuildSUT \/ CreateVMClient \/ CreateCommService \/ CreateVMServer
Cluster == NamespaceGone \/ CudnGone \/ OperatorMakesNad \/ SriovNetGone \/ SriovPolicyGone

Finished == pc \in Ended /\ run = MaxRuns /\ UNCHANGED vars

Next == Cleanup \/ Setup \/ Measure \/ Report \/ Dies \/ Killed \/ StartRun \/ Cluster \/ Finished

Spec == Init /\ [][Next]_vars

----------------------------------------------------------------------------
(***************************************************************************)
(* Properties.                                                             *)
(***************************************************************************)

\* Every variable has its type.
TypeOK ==
  /\ run \in Runs
  /\ flags \in FlagSets
  /\ pc \in PCs
  /\ final \in BOOLEAN
  /\ polls \in 0 .. MaxPolls
  /\ hiccup \in BOOLEAN
  /\ collision \in Kinds \cup {"none", "cudn", "policy", "sriovNetwork"}
  /\ ns \in {"absent", "active", "terminating"}
  /\ label \in {"udn", "test"}
  /\ content \in [Kinds -> Runs \cup {None}]
  /\ cudn \in Objects /\ sriovNet \in Objects /\ sriovPolicy \in Objects

\* A run with --clean measures on what it created itself, in a namespace with the label
\* its networks need, whatever earlier runs with whatever flags left behind and wherever
\* they died (cleanup before BuildInfra; BuildInfra, CreateService and CreateDeployment
\* reuse what they find).
MeasuresOwnObjects ==
  pc \in {"test", "report"} /\ flags.clean /\ ~ hiccup =>
     /\ ns = "active"
     /\ label = IF flags.net = "udn" THEN "udn" ELSE "test"
     /\ \A k \in Kinds : content[k] \notin {None, run} => k = "sriovnad" /\ flags.net # "sriov"
     /\ flags.net = "cudn" => cudn = CreatedBy(run)
     /\ flags.net = "sriov" => /\ sriovPolicy = CreatedBy(run)
                               /\ sriovNet = CreatedBy(run)
                               /\ content["sriovnad"] = run

\* A run with --clean recovers from any earlier run: no Create of its own meets anything
\* earlier runs left in the namespace, and the only object outside it that one may meet is
\* that of this run's own network while its deletion is still under way (DestroyCUdn and
\* DestroySriovResources request deletions and do not wait; DeployCUDN, DeploySriovPolicy and
\* DeploySriovNetwork do not look first).
CollidesOnlyWithDeleted ==
  flags.clean /\ ~ hiccup =>
     \/ collision = "none"
     \/ collision = "cudn" /\ flags.net = "cudn" /\ OnItsWayOut(cudn)
     \/ collision = "policy" /\ flags.net = "sriov" /\ OnItsWayOut(sriovPolicy)
     \/ collision = "sriovNetwork" /\ flags.net = "sriov" /\ OnItsWayOut(sriovNet)

\* A run with --clean that gets to its end has removed the namespace with everything in it,
\* which it waits for, and has requested the deletion of every object it created outside,
\* which it does not wait for (the cleanup at the end of main).
CleanExitDeletesAll ==
  pc = "exit" /\ flags.clean /\ ~ hiccup =>
     /\ ns = "absent"
     /\ \A k \in Kinds : content[k] # run
     /\ \A o \in {cudn, sriovNet, sriovPolicy} : o.by = run => o.deleting
==============================================================================
