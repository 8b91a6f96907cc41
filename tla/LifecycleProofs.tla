--------------------------- MODULE LifecycleProofs ---------------------------
(***************************************************************************)
(* Proofs about Lifecycle for any flags, any number of runs and any number *)
(* of polls.  The facts the properties need are about a careful run: one   *)
(* with --clean in which no API error was swallowed.  The invariant says   *)
(* what it has swept away and what it has not yet created at each point.   *)
(***************************************************************************)
EXTENDS Lifecycle, TLAPS

Careful == flags.clean /\ ~ hiccup

\* Where the cluster-wide objects of this run's network have been dealt with, and where the
\* namespace is gone as well.
Swept == {"nsGet", "nsDelete", "nsWait", "nodes", "namespace", "exit"}
Empty == {"nodes", "namespace", "exit"}

\* Where main works in the namespace, and up to where each object in it is not created yet.
ToNet    == {"sa", "rb", "net"}
ToPolicy == ToNet \cup {"bridgeNad", "policy"}
ToSriov  == ToPolicy \cup {"sriovNetwork"}
ToSut    == ToSriov \cup {"nadWait", "macvlanNad", "sut"}
InNamespace == ToSut \cup {"clientVM", "ssh", "serverVM", "test", "report"}
NotYet(k) ==
  CASE k = "sa"       -> {"sa"}
    [] k = "rb"       -> {"sa", "rb"}
    [] k = "udn"      -> ToNet
    [] k = "bridgeNad"  -> ToNet \cup {"bridgeNad"}
    [] k = "macvlanNad" -> ToNet \cup {"bridgeNad", "macvlanNad"}
    [] k = "sut"      -> ToSut
    [] k = "clientVM" -> ToSut \cup {"clientVM"}
    [] k = "ssh"      -> ToSut \cup {"clientVM", "ssh"}
    [] k = "serverVM" -> ToSut \cup {"clientVM", "ssh", "serverVM"}
    [] k = "sriovnad" -> {}

\* Each network has its own steps.
PlaceInv ==
  /\ pc = "cleanCudn" => flags.net = "cudn"
  /\ pc \in {"cleanSriovNet", "cleanSriovPolicy", "policy", "sriovNetwork", "nadWait"}
       => flags.net = "sriov"
  /\ pc = "macvlanNad" => flags.net = "macvlan"
  /\ pc = "nadWait" => polls < MaxPolls
  /\ collision # "none" => pc = "fatal"

\* Whose objects there may be.
OwnerInv ==
  /\ \A k \in Kinds : content[k] <= run
  /\ ns = "absent" => \A k \in Kinds : content[k] = None
  /\ cudn.by <= run /\ (flags.net # "cudn" => cudn.by # run)
  /\ sriovNet.by <= run /\ (flags.net # "sriov" => sriovNet.by # run)
  /\ sriovPolicy.by <= run /\ (flags.net # "sriov" => sriovPolicy.by # run)

SweptInv ==
  /\ pc \in Swept /\ flags.net = "cudn" => OnItsWayOut(cudn)
  /\ pc \in Swept \cup {"cleanSriovPolicy"} /\ flags.net = "sriov" => OnItsWayOut(sriovNet)
  /\ pc \in Swept /\ flags.net = "sriov" => OnItsWayOut(sriovPolicy)
  /\ pc = "nsWait" => ns # "active"
  /\ pc \in Empty => ns = "absent"

NamespaceInv ==
  pc \in InNamespace =>
    /\ ns = "active"
    /\ label = IF flags.net = "udn" THEN "udn" ELSE "test"
    /\ \A k \in Kinds : content[k] \notin {None, run} => k = "sriovnad" /\ flags.net # "sriov"
    /\ \A k \in Kinds : pc \in NotYet(k) => content[k] = None

NetworkInv ==
  pc \in InNamespace =>
    /\ flags.net = "cudn" =>
         IF pc \in ToNet THEN OnItsWayOut(cudn) ELSE cudn = CreatedBy(run)
    /\ flags.net = "sriov" =>
         /\ IF pc \in ToPolicy THEN OnItsWayOut(sriovPolicy) ELSE sriovPolicy = CreatedBy(run)
         /\ IF pc \in ToSriov THEN OnItsWayOut(sriovNet) ELSE sriovNet = CreatedBy(run)
         /\ pc \notin ToSriov \cup {"nadWait"} => content["sriovnad"] # None

\* What a Create of the run may have met.
CollisionInv ==
  \/ collision = "none"
  \/ collision = "cudn" /\ flags.net = "cudn" /\ OnItsWayOut(cudn)
  \/ collision = "policy" /\ flags.net = "sriov" /\ OnItsWayOut(sriovPolicy)
  \/ collision = "sriovNetwork" /\ flags.net = "sriov" /\ OnItsWayOut(sriovNet)

CleanInv == SweptInv /\ NamespaceInv /\ NetworkInv /\ CollisionInv

IInv == TypeOK /\ PlaceInv /\ OwnerInv /\ (Careful => CleanInv)

-----------------------------------------------------------------------------
\* What every part of the argument uses of the flags.
LEMMA FlagTypes ==
  ASSUME TypeOK
  PROVE  flags.net \in Nets /\ flags.clean \in BOOLEAN /\ flags.vm \in BOOLEAN
  BY FlagsAssumption DEF TypeOK

\* What the provers need to know of the records of the objects outside the namespace.
LEMMA CreatedObject ==
  ASSUME NEW r \in Runs \cup {None}
  PROVE  CreatedBy(r) \in Objects /\ CreatedBy(r).by = r /\ ~ CreatedBy(r).deleting
  BY DEF CreatedBy, Objects

LEMMA GoneObject ==
  /\ NoObject \in Objects /\ NoObject.by = None /\ OnItsWayOut(NoObject)
  BY DEF NoObject, CreatedBy, Objects, OnItsWayOut

LEMMA RequestedObject ==
  ASSUME NEW o \in Objects
  PROVE  /\ RequestDelete(o) \in Objects /\ RequestDelete(o).by = o.by
         /\ OnItsWayOut(RequestDelete(o))
  <1>1. CASE o.by = None
    BY <1>1 DEF RequestDelete, Objects, OnItsWayOut
  <1>2. CASE o.by # None
    BY <1>2 DEF RequestDelete, Objects, OnItsWayOut
  <1> QED BY <1>1, <1>2

\* A step that leaves the objects alone and moves within one run keeps all but the facts
\* about where it goes.
LEMMA GotoStep ==
  ASSUME IInv, NEW l \in PCs, Goto(l), UNCHANGED << nsObjs, netObjs >>, PlaceInv',
         Careful => CleanInv'
  PROVE  IInv'
  <1>1. /\ run' = run /\ flags' = flags /\ final' = final /\ polls' = polls
        /\ hiccup' = hiccup /\ collision' = collision /\ pc' = l
        /\ ns' = ns /\ label' = label /\ content' = content
        /\ cudn' = cudn /\ sriovNet' = sriovNet /\ sriovPolicy' = sriovPolicy
    BY DEF Goto, proc, nsObjs, netObjs
  <1>2. final' \in BOOLEAN /\ hiccup' \in BOOLEAN
    BY <1>1, Zenon DEF IInv, TypeOK
  <1>3. TypeOK'
    BY <1>1, <1>2 DEF IInv, TypeOK
  <1>4. OwnerInv'
    BY <1>1 DEF IInv, OwnerInv
  <1>5. Careful' => Careful
    BY <1>1, Zenon DEF Careful
  <1> QED BY <1>3, <1>4, <1>5 DEF IInv

\* An error that is only logged ends the careful part of a run.
LEMMA IgnoredStep ==
  ASSUME IInv, NEW l \in PCs, Ignored(l), PlaceInv'
  PROVE  IInv'
  <1>1. /\ run' = run /\ flags' = flags /\ final' = final /\ polls' = polls
        /\ collision' = collision /\ pc' = l
        /\ ns' = ns /\ label' = label /\ content' = content
        /\ cudn' = cudn /\ sriovNet' = sriovNet /\ sriovPolicy' = sriovPolicy
    BY DEF Ignored, nsObjs, netObjs
  <1>2. final' \in BOOLEAN /\ hiccup' \in BOOLEAN /\ hiccup' = TRUE
    BY <1>1, Zenon DEF IInv, TypeOK, Ignored
  <1>3. TypeOK'
    BY <1>1, <1>2 DEF IInv, TypeOK
  <1>4. OwnerInv'
    BY <1>1 DEF IInv, OwnerInv
  <1>5. ~ Careful'
    BY <1>2, Zenon DEF Careful
  <1> QED BY <1>3, <1>4, <1>5 DEF IInv

\* A failed Create; a careful run meets only what is being deleted.
LEMMA AlreadyExistsStep ==
  ASSUME IInv, NEW k \in Kinds \cup {"cudn", "policy", "sriovNetwork"}, AlreadyExists(k),
         pc \notin Ended, Careful => CollisionInv'
  PROVE  IInv'
  <1>1. /\ run' = run /\ flags' = flags /\ final' = final /\ polls' = polls
        /\ hiccup' = hiccup /\ collision' = k /\ pc' = "fatal"
        /\ ns' = ns /\ label' = label /\ content' = content
        /\ cudn' = cudn /\ sriovNet' = sriovNet /\ sriovPolicy' = sriovPolicy
    BY DEF AlreadyExists, nsObjs, netObjs
  <1>2. final' \in BOOLEAN /\ hiccup' \in BOOLEAN
    BY <1>1, Zenon DEF IInv, TypeOK
  <1>3. TypeOK'
    BY <1>1, <1>2 DEF IInv, TypeOK, PCs, Ended
  <1>4. OwnerInv' /\ PlaceInv'
    BY <1>1 DEF IInv, OwnerInv, PlaceInv
  <1>5. Careful' => Careful
    BY <1>1, Zenon DEF Careful
  <1>6. Careful => CleanInv'
    BY <1>1 DEF CleanInv, CollisionInv, SweptInv, NamespaceInv, NetworkInv, Swept, Empty, InNamespace,
                ToSut, ToSriov, ToPolicy, ToNet
  <1> QED BY <1>3, <1>4, <1>5, <1>6 DEF IInv

\* A successful Create of an object in the namespace, which moves main from the last point
\* where it does not exist to one where it may.
LEMMA CreatedStep ==
  ASSUME IInv, NEW k \in Kinds \ {"sriovnad"}, NEW l \in InNamespace, pc \in InNamespace,
         ns = "active", content[k] = None, content' = [content EXCEPT ![k] = run],
         Goto(l), UNCHANGED << ns, label, netObjs >>, PlaceInv',
         \A n \in Kinds : l \in NotYet(n) => n # k /\ pc \in NotYet(n),
         Careful => NetworkInv'
  PROVE  IInv'
  <1>1. /\ run' = run /\ flags' = flags /\ final' = final /\ polls' = polls
        /\ hiccup' = hiccup /\ collision' = collision /\ pc' = l
        /\ ns' = ns /\ label' = label
        /\ cudn' = cudn /\ sriovNet' = sriovNet /\ sriovPolicy' = sriovPolicy
    BY DEF Goto, proc, netObjs
  <1>c. /\ content \in [Kinds -> Runs \cup {None}] /\ run \in Runs
        /\ content'[k] = run
        /\ \A n \in Kinds \ {k} : content'[n] = content[n]
        /\ content' \in [Kinds -> Runs \cup {None}]
    BY DEF IInv, TypeOK
  <1>l. l \in PCs /\ l \notin Swept \cup {"cleanSriovPolicy"}
    BY DEF PCs, Swept, InNamespace, ToSut, ToSriov, ToPolicy, ToNet
  <1>2. final' \in BOOLEAN /\ hiccup' \in BOOLEAN
    BY <1>1, Zenon DEF IInv, TypeOK
  <1>3. TypeOK'
    BY <1>1, <1>2, <1>c, <1>l DEF IInv, TypeOK
  <1>4. OwnerInv'
    BY <1>1, <1>c DEF IInv, OwnerInv, Runs
  <1>5. Careful' => Careful
    BY <1>1, Zenon DEF Careful
  <1>6. ASSUME Careful PROVE CleanInv'
    <2>1. NamespaceInv /\ CollisionInv'
      BY <1>6, <1>1 DEF IInv, CleanInv, CollisionInv
    <2>2. SweptInv'
      BY <1>1, <1>l DEF SweptInv, Swept, Empty
    <2>3. NamespaceInv'
      <3>1. \A n \in Kinds : content[n] \notin {None, run} => n = "sriovnad" /\ flags.net # "sriov"
        BY <2>1 DEF NamespaceInv
      <3>2. \A n \in Kinds : pc \in NotYet(n) => content[n] = None
        BY <2>1 DEF NamespaceInv
      <3>3. label = IF flags.net = "udn" THEN "udn" ELSE "test"
        BY <2>1 DEF NamespaceInv
      <3>4. \A n \in Kinds : content'[n] \notin {None, run} => n = "sriovnad" /\ flags.net # "sriov"
        BY <3>1, <1>c
      <3>5. \A n \in Kinds : l \in NotYet(n) => content'[n] = None
        BY <3>2, <1>c
      <3> QED BY <3>3, <3>4, <3>5, <1>1 DEF NamespaceInv
    <2> QED BY <2>1, <2>2, <2>3, <1>1, <1>6 DEF CleanInv
  <1> QED BY <1>3, <1>4, <1>5, <1>6 DEF IInv

\* The steps main goes on to after a Create in the namespace.
Targets == {"rb", "net", "bridgeNad", "policy", "macvlanNad", "sut", "clientVM", "ssh", "serverVM", "test"}

\* Going from pc to l agrees with what exists: l is behind the creation of k and of nothing
\* else, and the network of this run is no further than before.
Follows(k, l) ==
  /\ pc \in InNamespace /\ pc \in NotYet(k)
  /\ \A n \in Kinds : l \in NotYet(n) => n # k /\ pc \in NotYet(n)
  /\ l = "policy" => flags.net = "sriov"
  /\ l = "macvlanNad" => flags.net = "macvlan"
  /\ flags.net = "cudn" => (pc \in ToNet <=> l \in ToNet)
  /\ flags.net = "sriov" => /\ pc \in ToPolicy <=> l \in ToPolicy
                            /\ pc \in ToSriov <=> l \in ToSriov
                            /\ pc \in ToSriov \cup {"nadWait"} <=> l \in ToSriov

LEMMA CreateInStep ==
  ASSUME IInv, NEW k \in Kinds \ {"sriovnad"}, NEW l \in Targets, Follows(k, l), CreateIn(k, l)
  PROVE  IInv'
  <1>l. l \in InNamespace
    BY DEF Targets, InNamespace, ToSut, ToSriov, ToPolicy, ToNet
  <1>n. Careful => content[k] = None
    BY DEF IInv, CleanInv, NamespaceInv, Follows
  <1>p. collision = "none" /\ pc \notin Ended
    BY DEF IInv, PlaceInv, Follows, Ended, InNamespace, ToSut, ToSriov, ToPolicy, ToNet
  <1>1. CASE /\ ns = "active" /\ content[k] = None
             /\ content' = [content EXCEPT ![k] = run]
             /\ Goto(l)
             /\ UNCHANGED << ns, label, netObjs >>
    <2>1. /\ pc' = l /\ flags' = flags /\ run' = run /\ polls' = polls /\ collision' = collision
          /\ cudn' = cudn /\ sriovNet' = sriovNet /\ sriovPolicy' = sriovPolicy
          /\ content'["sriovnad"] = content["sriovnad"]
      BY <1>1 DEF Goto, proc, netObjs, IInv, TypeOK, Kinds
    <2>2. PlaceInv'
      BY <2>1, <1>p DEF PlaceInv, Targets, Follows
    <2>3. ASSUME Careful PROVE NetworkInv'
      <3>1. NetworkInv
        BY <2>3 DEF IInv, CleanInv
      <3>2. CASE flags.net = "cudn"
        BY <3>1, <3>2, <2>1 DEF NetworkInv, Follows
      <3>3. CASE flags.net = "sriov"
        <4>1. "nadWait" \notin ToSriov /\ l # "nadWait"
          BY DEF ToSriov, ToPolicy, ToNet, Targets
        <4> QED BY <3>1, <3>3, <4>1, <2>1 DEF NetworkInv, Follows
      <3>4. CASE flags.net \notin {"cudn", "sriov"}
        BY <3>4, <2>1 DEF NetworkInv
      <3> QED BY <3>2, <3>3, <3>4
    <2> QED BY <1>1, <1>l, <2>2, <2>3, CreatedStep DEF Follows
  <1>2. CASE ns = "active" /\ content[k] # None /\ AlreadyExists(k)
    BY <1>2, <1>n, <1>p, AlreadyExistsStep
  <1> QED BY <1>1, <1>2 DEF CreateIn

LEMMA GetOrCreateStep ==
  ASSUME IInv, NEW k \in Kinds \ {"sriovnad"}, NEW l \in Targets, Follows(k, l),
         GetOrCreate(k, l)
  PROVE  IInv'
  <1>1. CASE Reuse(k, l)
    <2>1. ~ Careful
      BY <1>1 DEF IInv, CleanInv, NamespaceInv, Follows, Reuse
    <2>p. collision = "none"
      BY DEF IInv, PlaceInv, Follows, InNamespace, ToSut, ToSriov, ToPolicy, ToNet
    <2>2. PlaceInv' /\ l \in PCs
      BY <1>1, <2>p DEF PlaceInv, Targets, Follows, Reuse, Goto, PCs, proc
    <2> QED BY <1>1, <2>1, <2>2, GotoStep DEF Reuse
  <1>2. CASE content[k] = None /\ CreateIn(k, l)
    BY <1>2, CreateInStep
  <1> QED BY <1>1, <1>2 DEF GetOrCreate

LEMMA CreateStep ==
  ASSUME IInv,
         \/ BuildServiceAccount \/ BuildRoleBinding \/ DeployUdn \/ DeployNADMacvlan \/ BuildSUT
         \/ CreateVMClient \/ CreateCommService \/ CreateVMServer
  PROVE  IInv'
  <1> USE DEF Follows, Kinds, NotYet, InNamespace, ToSut, ToSriov, ToPolicy, ToNet
  <1>1. CASE BuildServiceAccount
    <2>1. Follows("sa", "rb") /\ "rb" \in Targets
      BY <1>1 DEF BuildServiceAccount, Targets
    <2> QED BY ONLY IInv, <1>1, <2>1, GetOrCreateStep DEF BuildServiceAccount, Kinds
  <1>2. CASE BuildRoleBinding
    <2>1. Follows("rb", "net") /\ "net" \in Targets
      BY <1>2 DEF BuildRoleBinding, Targets
    <2> QED BY ONLY IInv, <1>2, <2>1, GetOrCreateStep DEF BuildRoleBinding, Kinds
  <1>3. CASE DeployUdn
    <2>1. Follows("udn", "bridgeNad") /\ "bridgeNad" \in Targets
      BY <1>3 DEF DeployUdn, Targets
    <2> QED BY ONLY IInv, <1>3, <2>1, CreateInStep DEF DeployUdn, Kinds
  <1>4. CASE DeployNADMacvlan
    <2>1. Follows("macvlanNad", "sut") /\ "sut" \in Targets
      BY <1>4 DEF DeployNADMacvlan, Targets, IInv, PlaceInv
    <2> QED BY ONLY IInv, <1>4, <2>1, CreateInStep DEF DeployNADMacvlan, Kinds
  <1>5. CASE BuildSUT
    <2>1. /\ Follows("sut", "clientVM") /\ "clientVM" \in Targets
          /\ Follows("sut", "test") /\ "test" \in Targets
      BY <1>5 DEF BuildSUT, Targets
    <2>2. PICK l \in {"clientVM", "test"} : GetOrCreate("sut", l) \/ CreateIn("sut", l)
      BY <1>5 DEF BuildSUT
    <2> QED BY ONLY IInv, <2>1, <2>2, CreateInStep, GetOrCreateStep DEF Kinds
  <1>6. CASE CreateVMClient
    <2>1. Follows("clientVM", "ssh") /\ "ssh" \in Targets
      BY <1>6 DEF CreateVMClient, Targets
    <2> QED BY ONLY IInv, <1>6, <2>1, CreateInStep DEF CreateVMClient, CreateVMI, Kinds
  <1>7. CASE CreateCommService
    <2>1. Follows("ssh", "serverVM") /\ "serverVM" \in Targets
      BY <1>7 DEF CreateCommService, Targets
    <2> QED BY ONLY IInv, <1>7, <2>1, CreateInStep DEF CreateCommService, Kinds
  <1>8. CASE CreateVMServer
    <2>1. Follows("serverVM", "test") /\ "test" \in Targets
      BY <1>8 DEF CreateVMServer, Targets
    <2> QED BY ONLY IInv, <1>8, <2>1, CreateInStep DEF CreateVMServer, CreateVMI, Kinds
  <1> QED BY ONLY <1>1, <1>2, <1>3, <1>4, <1>5, <1>6, <1>7, <1>8,
          \/ BuildServiceAccount \/ BuildRoleBinding \/ DeployUdn \/ DeployNADMacvlan
          \/ BuildSUT \/ CreateVMClient \/ CreateCommService \/ CreateVMServer

\* The steps that only move on, and those that end the process.
LEMMA PlainStep ==
  ASSUME IInv, Nodes \/ NoUdn \/ ValidateBridgeFails \/ Measure \/ Dies \/ Killed
  PROVE  IInv'
  <1> USE DEF Swept, Empty, InNamespace, ToSut, ToSriov, ToPolicy, ToNet, PCs, Ended
  <1>0. PICK l \in {"namespace", "bridgeNad", "report", "fatal", "killed"} :
           /\ Goto(l) /\ UNCHANGED << nsObjs, netObjs >>
           /\ l = "namespace" => pc = "nodes"
           /\ l = "bridgeNad" => pc = "net" /\ flags.net \notin {"udn", "cudn"}
           /\ l = "report" => pc = "test"
           /\ pc # "fatal"
    BY DEF Nodes, NoUdn, ValidateBridgeFails, Measure, Dies, Killed, FatalSteps
  <1>1. /\ run' = run /\ flags' = flags /\ collision' = collision /\ pc' = l
        /\ ns' = ns /\ label' = label /\ content' = content
        /\ cudn' = cudn /\ sriovNet' = sriovNet /\ sriovPolicy' = sriovPolicy
    BY <1>0 DEF Goto, proc, nsObjs, netObjs
  <1>2. PlaceInv'
    BY <1>0, <1>1 DEF IInv, PlaceInv
  <1>3. ASSUME Careful PROVE CleanInv'
    <2>1. CleanInv
      BY <1>3 DEF IInv
    <2>2. SweptInv'
      BY <2>1, <1>0, <1>1 DEF CleanInv, SweptInv
    <2>3. NamespaceInv'
      BY <2>1, <1>0, <1>1 DEF CleanInv, NamespaceInv, NotYet, Kinds
    <2>4. NetworkInv'
      BY <2>1, <1>0, <1>1 DEF CleanInv, NetworkInv
    <2> QED BY <2>1, <2>2, <2>3, <2>4, <1>1 DEF CleanInv, CollisionInv
  <1> QED BY <1>0, <1>2, <1>3, GotoStep

\* BuildInfra's namespace: a careful run finds none, and makes one with its label.
LEMMA NamespaceStep ==
  ASSUME IInv, BuildNamespace
  PROVE  IInv'
  <1> USE DEF Swept, Empty, InNamespace, ToSut, ToSriov, ToPolicy, ToNet
  <1>1. /\ run' = run /\ flags' = flags /\ final' = final /\ polls' = polls
        /\ hiccup' = hiccup /\ collision' = collision /\ pc = "namespace" /\ pc' = "sa"
        /\ content' = content
        /\ cudn' = cudn /\ sriovNet' = sriovNet /\ sriovPolicy' = sriovPolicy
        /\ ns' = IF ns = "absent" THEN "active" ELSE ns
        /\ label' = IF ns = "absent" THEN (IF flags.net = "udn" THEN "udn" ELSE "test") ELSE label
    BY DEF BuildNamespace, Goto, proc, netObjs
  <1>2. final' \in BOOLEAN /\ hiccup' \in BOOLEAN
    BY <1>1, Zenon DEF IInv, TypeOK
  <1>3. TypeOK'
    BY <1>1, <1>2 DEF IInv, TypeOK, PCs
  <1>4. OwnerInv' /\ PlaceInv'
    BY <1>1 DEF IInv, OwnerInv, PlaceInv
  <1>5. Careful' => Careful
    BY <1>1, Zenon DEF Careful
  <1>6. ASSUME Careful PROVE CleanInv'
    <2>1. CleanInv /\ SweptInv /\ ns = "absent" /\ \A k \in Kinds : content[k] = None
      BY <1>6, <1>1 DEF IInv, CleanInv, SweptInv, OwnerInv
    <2>2. SweptInv'
      BY <1>1 DEF SweptInv
    <2>3. NamespaceInv'
      BY <2>1, <1>1 DEF NamespaceInv
    <2>4. NetworkInv'
      BY <2>1, <1>1 DEF SweptInv, NetworkInv
    <2> QED BY <2>1, <2>2, <2>3, <2>4, <1>1 DEF CleanInv, CollisionInv
  <1> QED BY <1>3, <1>4, <1>5, <1>6 DEF IInv

\* DeployNADBridge, whose error is only logged.
LEMMA BridgeStep ==
  ASSUME IInv, DeployNADBridge
  PROVE  IInv'
  <1> USE DEF Swept, Empty, InNamespace, ToSut, ToSriov, ToPolicy, ToNet
  <1>0. pc = "bridgeNad"
    BY DEF DeployNADBridge
  <1>n. /\ NetStep \in {"policy", "macvlanNad", "sut"}
        /\ NetStep = "policy" <=> flags.net = "sriov"
        /\ NetStep = "macvlanNad" <=> flags.net = "macvlan"
    BY DEF NetStep
  <1>1. CASE /\ flags.bridge /\ ns = "active" /\ content["bridgeNad"] = None
             /\ content' = [content EXCEPT !["bridgeNad"] = run]
             /\ Goto(NetStep)
             /\ UNCHANGED << ns, label, netObjs >>
    <2>1. Follows("bridgeNad", NetStep)
      <3>1. CASE NetStep = "policy"
        BY <1>0, <1>n, <3>1 DEF Follows, Kinds, NotYet
      <3>2. CASE NetStep = "macvlanNad"
        BY <1>0, <1>n, <3>2 DEF Follows, Kinds, NotYet
      <3>3. CASE NetStep = "sut"
        BY <1>0, <1>n, <3>3 DEF Follows, Kinds, NotYet
      <3> QED BY <1>n, <3>1, <3>2, <3>3
    <2>2. CreateIn("bridgeNad", NetStep)
      BY <1>1 DEF CreateIn
    <2> QED BY <1>n, <2>1, <2>2, CreateInStep DEF Kinds, Targets
  <1>2. CASE Ignored(NetStep)
    <2>1. PlaceInv' /\ NetStep \in PCs
      BY <1>0, <1>2, <1>n DEF Ignored, IInv, PlaceInv, PCs
    <2> QED BY <1>2, <2>1, IgnoredStep
  <1>3. CASE Goto(NetStep) /\ UNCHANGED << nsObjs, netObjs >>
    <2>1. /\ run' = run /\ flags' = flags /\ collision' = collision /\ pc' = NetStep
          /\ ns' = ns /\ label' = label /\ content' = content
          /\ cudn' = cudn /\ sriovNet' = sriovNet /\ sriovPolicy' = sriovPolicy
      BY <1>3 DEF Goto, proc, nsObjs, netObjs
    <2>2. PlaceInv' /\ NetStep \in PCs
      BY <2>1, <1>0, <1>n DEF IInv, PlaceInv, PCs
    <2>3. ASSUME Careful PROVE CleanInv'
      <3>1. CleanInv
        BY <2>3 DEF IInv
      <3>2. SweptInv'
        BY <2>1, <1>n DEF SweptInv
      <3>3. NamespaceInv'
        BY <3>1, <1>0, <1>n, <2>1 DEF CleanInv, NamespaceInv, NotYet, Kinds
      <3>4. NetworkInv'
        BY <3>1, <1>0, <1>n, <2>1 DEF CleanInv, NetworkInv
      <3> QED BY <3>1, <3>2, <3>3, <3>4, <2>1 DEF CleanInv, CollisionInv
    <2> QED BY <1>3, <2>2, <2>3, GotoStep
  <1> QED BY <1>1, <1>2, <1>3 DEF DeployNADBridge

\* The objects outside the namespace: the C-UDN, the SR-IOV policy and network.
LEMMA DeployStep ==
  ASSUME IInv, DeployCUDN \/ DeploySriovPolicy \/ DeploySriovNetwork
  PROVE  IInv'
  <1> USE DEF Swept, Empty, InNamespace, ToSut, ToSriov, ToPolicy, ToNet
  <1>c. ASSUME Careful
        PROVE  /\ CleanInv /\ NamespaceInv /\ NetworkInv
               /\ pc = "net" /\ flags.net = "cudn" => OnItsWayOut(cudn)
               /\ pc = "policy" => OnItsWayOut(sriovPolicy)
               /\ pc = "sriovNetwork" => OnItsWayOut(sriovNet)
    BY <1>c DEF IInv, CleanInv, NetworkInv, PlaceInv
  <1>p. /\ pc \in {"net", "policy", "sriovNetwork"} /\ pc \notin Ended /\ collision = "none"
        /\ pc # "net" => flags.net = "sriov"
    BY DEF DeployCUDN, DeploySriovPolicy, DeploySriovNetwork, IInv, PlaceInv, Ended
  <1>1. CASE pc = "net" /\ flags.net = "cudn" /\ AlreadyExists("cudn")
    <2>1. Careful => CollisionInv'
      BY <1>1, <1>c DEF AlreadyExists, CollisionInv, netObjs
    <2> QED BY <1>1, <1>p, <2>1, AlreadyExistsStep
  <1>2. CASE pc = "policy" /\ AlreadyExists("policy")
    <2>1. Careful => CollisionInv'
      BY <1>2, <1>p, <1>c DEF AlreadyExists, CollisionInv, netObjs
    <2> QED BY <1>2, <1>p, <2>1, AlreadyExistsStep
  <1>3. CASE pc = "sriovNetwork" /\ AlreadyExists("sriovNetwork")
    <2>1. Careful => CollisionInv'
      BY <1>3, <1>p, <1>c DEF AlreadyExists, CollisionInv, netObjs
    <2> QED BY <1>3, <1>p, <2>1, AlreadyExistsStep
  <1>4. CASE \/ /\ pc = "net" /\ flags.net = "cudn" /\ pc' = "bridgeNad" /\ polls' = polls
                /\ cudn' = CreatedBy(run)
                /\ sriovNet' = sriovNet /\ sriovPolicy' = sriovPolicy
             \/ /\ pc = "policy" /\ pc' = "sriovNetwork" /\ polls' = polls
                /\ sriovPolicy' = CreatedBy(run) /\ cudn' = cudn /\ sriovNet' = sriovNet
             \/ /\ pc = "sriovNetwork" /\ pc' = "nadWait" /\ polls' = 0
                /\ sriovNet' = CreatedBy(run) /\ cudn' = cudn /\ sriovPolicy' = sriovPolicy
    <2>1. /\ run' = run /\ flags' = flags /\ final' = final
          /\ hiccup' = hiccup /\ collision' = collision
          /\ ns' = ns /\ label' = label /\ content' = content
      BY <1>4 DEF DeployCUDN, DeploySriovPolicy, DeploySriovNetwork, Goto, proc, nsObjs,
                  AlreadyExists
    <2>2. final' \in BOOLEAN /\ hiccup' \in BOOLEAN
      BY <2>1, Zenon DEF IInv, TypeOK
    <2>3. /\ CreatedBy(run) \in Objects /\ CreatedBy(run).by = run
      BY CreatedObject DEF IInv, TypeOK
    <2>4. TypeOK'
      BY <1>4, <2>1, <2>2, <2>3, BoundsAssumption DEF IInv, TypeOK, PCs
    <2>5. flags.net = "sriov" \/ pc = "net"
      BY <1>4 DEF IInv, PlaceInv
    <2>6. OwnerInv'
      <3>1. run <= run /\ run \in Nat
        BY DEF IInv, TypeOK, Runs
      <3> QED BY <1>4, <2>1, <2>3, <2>5, <3>1 DEF IInv, OwnerInv
    <2>7. PlaceInv'
      BY <1>4, <1>p, <2>1, <2>5, BoundsAssumption DEF PlaceInv
    <2>8. Careful' => Careful
      BY <2>1, Zenon DEF Careful
    <2>9. ASSUME Careful PROVE CleanInv'
      <3>1. SweptInv'
        BY <1>4 DEF SweptInv
      <3>2. NamespaceInv'
        BY <1>c, <2>9, <1>4, <2>1 DEF NamespaceInv, NotYet, Kinds
      <3>3. NetworkInv'
        BY <1>c, <2>9, <1>4, <2>1, <2>5 DEF NetworkInv
      <3> QED BY <1>p, <2>9, <2>1, <3>1, <3>2, <3>3 DEF CleanInv, CollisionInv
    <2> QED BY <2>4, <2>6, <2>7, <2>8, <2>9 DEF IInv
  <1> QED BY <1>1, <1>2, <1>3, <1>4 DEF DeployCUDN, DeploySriovPolicy, DeploySriovNetwork, Goto, proc

\* WaitForSriovNad.
LEMMA NadPollStep ==
  ASSUME IInv, NadPoll
  PROVE  IInv'
  <1> USE DEF Swept, Empty, InNamespace, ToSut, ToSriov, ToPolicy, ToNet
  <1>1. /\ run' = run /\ flags' = flags /\ final' = final
        /\ hiccup' = hiccup /\ collision' = collision /\ pc = "nadWait"
        /\ ns' = ns /\ label' = label /\ content' = content
        /\ cudn' = cudn /\ sriovNet' = sriovNet /\ sriovPolicy' = sriovPolicy
    BY DEF NadPoll, Goto, proc, nsObjs, netObjs
  <1>2. /\ pc' \in {"sut", "fatal", "nadWait"} /\ polls' \in 0 .. MaxPolls
        /\ pc' = "nadWait" => polls' < MaxPolls
        /\ pc' = "sut" => content["sriovnad"] # None
    BY <1>1, BoundsAssumption DEF NadPoll, Goto, proc, IInv, TypeOK, PlaceInv
  <1>3. final' \in BOOLEAN /\ hiccup' \in BOOLEAN
    BY <1>1, Zenon DEF IInv, TypeOK
  <1>4. TypeOK'
    BY <1>1, <1>2, <1>3 DEF IInv, TypeOK, PCs, Ended
  <1>5. OwnerInv' /\ PlaceInv'
    BY <1>1, <1>2 DEF IInv, OwnerInv, PlaceInv
  <1>6. Careful' => Careful
    BY <1>1, Zenon DEF Careful
  <1>7. ASSUME Careful PROVE CleanInv'
    <2>1. CleanInv
      BY <1>7 DEF IInv
    <2>2. SweptInv'
      BY <1>2 DEF SweptInv
    <2>3. NamespaceInv'
      BY <2>1, <1>1, <1>2 DEF CleanInv, NamespaceInv, NotYet, Kinds
    <2>4. NetworkInv'
      BY <2>1, <1>1, <1>2 DEF CleanInv, NetworkInv
    <2> QED BY <2>1, <2>2, <2>3, <2>4, <1>1 DEF CleanInv, CollisionInv
  <1> QED BY <1>4, <1>5, <1>6, <1>7 DEF IInv

\* A Report starts the second cleanup, and a new run the first one.
LEMMA ReportStep ==
  ASSUME IInv, Report
  PROVE  IInv'
  <1> USE DEF Swept, Empty, InNamespace, ToSut, ToSriov, ToPolicy, ToNet
  <1>1. /\ run' = run /\ flags' = flags /\ polls' = polls
        /\ hiccup' = hiccup /\ collision' = collision
        /\ ns' = ns /\ label' = label /\ content' = content
        /\ cudn' = cudn /\ sriovNet' = sriovNet /\ sriovPolicy' = sriovPolicy
    BY DEF Report, nsObjs, netObjs
  <1>2. final' \in BOOLEAN /\ hiccup' \in BOOLEAN
    BY <1>1, Zenon DEF IInv, TypeOK, Report
  <1>3. pc' \in {CleanStart(flags), "exit"}
    BY Zenon DEF Report
  <1>4. Careful => pc' = CleanStart(flags)
    BY Zenon DEF Report, Careful
  <1>5. /\ CleanStart(flags) \in {"cleanCudn", "cleanSriovNet", "nsGet"}
        /\ CleanStart(flags) = "cleanCudn" <=> flags.net = "cudn"
        /\ CleanStart(flags) = "cleanSriovNet" <=> flags.net = "sriov"
    BY DEF CleanStart
  <1>6. TypeOK'
    BY <1>1, <1>2, <1>3, <1>5 DEF IInv, TypeOK, PCs, Ended
  <1>7. OwnerInv' /\ PlaceInv'
    BY <1>1, <1>3, <1>5 DEF IInv, OwnerInv, PlaceInv, Report
  <1>8. Careful' => Careful
    BY <1>1, Zenon DEF Careful
  <1>9. ASSUME Careful PROVE CleanInv'
    <2>1. CleanInv
      BY <1>9 DEF IInv
    <2> QED BY <2>1, <1>9, <1>1, <1>4, <1>5
            DEF CleanInv, CollisionInv, SweptInv, NamespaceInv, NetworkInv
  <1> QED BY <1>6, <1>7, <1>8, <1>9 DEF IInv

\* A new run owns nothing yet.
LEMMA StartStep ==
  ASSUME IInv, StartRun
  PROVE  IInv'
  <1> USE DEF Swept, Empty, InNamespace, ToSut, ToSriov, ToPolicy, ToNet
  <1>1. /\ run' = run + 1 /\ run' \in Runs /\ run \in Nat /\ flags' \in FlagSets /\ polls' = 0
        /\ hiccup' = FALSE /\ final' = FALSE /\ collision' = "none"
        /\ ns' = ns /\ label' = label /\ content' = content
        /\ cudn' = cudn /\ sriovNet' = sriovNet /\ sriovPolicy' = sriovPolicy
    BY BoundsAssumption DEF StartRun, nsObjs, netObjs, IInv, TypeOK, Runs
  <1>2. final' \in BOOLEAN /\ hiccup' \in BOOLEAN
    BY <1>1, Zenon
  <1>3. pc' \in {CleanStart(flags'), "nodes"}
    BY Zenon DEF StartRun
  <1>4. Careful' => pc' = CleanStart(flags')
    BY Zenon DEF StartRun, Careful
  <1>5. /\ CleanStart(flags') \in {"cleanCudn", "cleanSriovNet", "nsGet"}
        /\ CleanStart(flags') = "cleanCudn" <=> flags'.net = "cudn"
        /\ CleanStart(flags') = "cleanSriovNet" <=> flags'.net = "sriov"
    BY DEF CleanStart
  <1>6. TypeOK'
    BY <1>1, <1>2, <1>3, <1>5, BoundsAssumption DEF IInv, TypeOK, PCs, Ended
  <1>7. OwnerInv'
    <2>1. /\ \A k \in Kinds : content[k] \in Nat /\ content[k] <= run
          /\ cudn.by \in Nat /\ cudn.by <= run
          /\ sriovNet.by \in Nat /\ sriovNet.by <= run
          /\ sriovPolicy.by \in Nat /\ sriovPolicy.by <= run
      BY DEF IInv, TypeOK, Objects, OwnerInv, Runs, None
    <2> QED BY <2>1, <1>1 DEF IInv, OwnerInv
  <1>8. PlaceInv'
    BY <1>1, <1>3, <1>5 DEF PlaceInv
  <1>9. ASSUME Careful' PROVE CleanInv'
    BY <1>9, <1>1, <1>4, <1>5 DEF CleanInv, CollisionInv, SweptInv, NamespaceInv, NetworkInv
  <1> QED BY <1>6, <1>7, <1>8, <1>9 DEF IInv

LEMMA InitIInv == Init => IInv
  <1> USE DEF Swept, Empty, InNamespace, ToSut, ToSriov, ToPolicy, ToNet
  <1> SUFFICES ASSUME Init PROVE IInv
    OBVIOUS
  <1>2. final \in BOOLEAN /\ hiccup \in BOOLEAN
    BY Zenon DEF Init
  <1>3. pc \in {CleanStart(flags), "nodes"}
    BY Zenon DEF Init
  <1>4. Careful => pc = CleanStart(flags)
    BY Zenon DEF Init, Careful
  <1>5. /\ CleanStart(flags) \in {"cleanCudn", "cleanSriovNet", "nsGet"}
        /\ CleanStart(flags) = "cleanCudn" <=> flags.net = "cudn"
        /\ CleanStart(flags) = "cleanSriovNet" <=> flags.net = "sriov"
    BY DEF CleanStart
  <1>6. TypeOK
    BY <1>2, <1>3, <1>5, GoneObject, BoundsAssumption DEF Init, TypeOK, PCs, Runs, NoContent
  <1>7. OwnerInv
    BY GoneObject DEF Init, OwnerInv, NoContent, None
  <1>8. PlaceInv
    BY <1>3, <1>5 DEF Init, PlaceInv
  <1>9. ASSUME Careful PROVE CleanInv
    BY <1>9, <1>4, <1>5 DEF Init, CleanInv, CollisionInv, SweptInv, NamespaceInv, NetworkInv
  <1> QED BY <1>6, <1>7, <1>8, <1>9 DEF IInv

\* The deletions of cleanup that are asked for before the namespace's.
LEMMA CleanNetStep ==
  ASSUME IInv, CleanCudn \/ CleanSriovNet \/ CleanSriovPolicy
  PROVE  IInv'
  <1> USE DEF Swept, Empty, InNamespace, ToSut, ToSriov, ToPolicy, ToNet
  <1>0. pc \in {"cleanCudn", "cleanSriovNet", "cleanSriovPolicy"}
        /\ (pc = "cleanCudn" <=> flags.net = "cudn") /\ (pc # "cleanCudn" <=> flags.net = "sriov")
    BY DEF CleanCudn, CleanSriovNet, CleanSriovPolicy, IInv, PlaceInv
  <1>1. CASE Ignored("nsGet") \/ (Ignored("cleanSriovPolicy") /\ pc = "cleanSriovNet")
    <2>1. PlaceInv' /\ "nsGet" \in PCs /\ "cleanSriovPolicy" \in PCs
      BY <1>0, <1>1 DEF Ignored, IInv, PlaceInv, PCs
    <2> QED BY <1>1, <2>1, IgnoredStep
  <1>2. CASE \/ /\ pc = "cleanCudn" /\ Goto("nsGet")
                /\ cudn' = RequestDelete(cudn)
                /\ UNCHANGED << nsObjs, sriovNet, sriovPolicy >>
             \/ /\ pc = "cleanSriovNet" /\ Goto("cleanSriovPolicy")
                /\ sriovNet' = RequestDelete(sriovNet)
                /\ UNCHANGED << nsObjs, cudn, sriovPolicy >>
             \/ /\ pc = "cleanSriovPolicy" /\ Goto("nsGet")
                /\ sriovPolicy' = RequestDelete(sriovPolicy)
                /\ UNCHANGED << nsObjs, cudn, sriovNet >>
    <2>1. /\ run' = run /\ flags' = flags /\ final' = final /\ polls' = polls
          /\ hiccup' = hiccup /\ collision' = collision
          /\ ns' = ns /\ label' = label /\ content' = content
          /\ pc' = IF pc = "cleanSriovNet" THEN "cleanSriovPolicy" ELSE "nsGet"
          /\ cudn' = IF pc = "cleanCudn" THEN RequestDelete(cudn) ELSE cudn
          /\ sriovNet' = IF pc = "cleanSriovNet" THEN RequestDelete(sriovNet) ELSE sriovNet
          /\ sriovPolicy' = IF pc = "cleanSriovPolicy" THEN RequestDelete(sriovPolicy)
                            ELSE sriovPolicy
      BY <1>2 DEF Goto, proc, nsObjs
    <2>2. final' \in BOOLEAN /\ hiccup' \in BOOLEAN
      BY <2>1, Zenon DEF IInv, TypeOK
    <2>3. /\ cudn' \in Objects /\ cudn'.by = cudn.by
          /\ sriovNet' \in Objects /\ sriovNet'.by = sriovNet.by
          /\ sriovPolicy' \in Objects /\ sriovPolicy'.by = sriovPolicy.by
          /\ pc = "cleanCudn" => OnItsWayOut(cudn')
          /\ pc = "cleanSriovNet" => OnItsWayOut(sriovNet')
          /\ pc = "cleanSriovPolicy" => OnItsWayOut(sriovPolicy')
      BY <2>1, RequestedObject DEF IInv, TypeOK
    <2>4. TypeOK'
      BY <2>1, <2>2, <2>3 DEF IInv, TypeOK, PCs
    <2>5. OwnerInv'
      <3>1. run \in Nat /\ run # None /\ None <= run
        BY DEF IInv, TypeOK, Runs, None
      <3> QED BY <2>1, <2>3, <3>1 DEF IInv, OwnerInv
    <2>6. PlaceInv' /\ collision' = "none"
      BY <2>1, <1>0 DEF IInv, PlaceInv
    <2>7. Careful' => Careful
      BY <2>1, Zenon DEF Careful
    <2>8. ASSUME Careful PROVE CleanInv'
      <3>1. CleanInv /\ SweptInv
        BY <2>8 DEF IInv, CleanInv
      <3>2. SweptInv'
        BY <3>1, <2>1, <2>3, <1>0 DEF SweptInv
      <3>3. NamespaceInv' /\ NetworkInv'
        BY <2>1, <1>0 DEF NamespaceInv, NetworkInv
      <3> QED BY <3>2, <3>3, <2>6 DEF CleanInv, CollisionInv
    <2> QED BY <2>4, <2>5, <2>6, <2>7, <2>8 DEF IInv
  <1> QED BY <1>1, <1>2 DEF CleanCudn, CleanSriovNet, CleanSriovPolicy

\* DestroyNamespace.
LEMMA CleanNamespaceStep ==
  ASSUME IInv, NsGet \/ NsDelete \/ NsWait
  PROVE  IInv'
  <1> USE DEF Swept, Empty, InNamespace, ToSut, ToSriov, ToPolicy, ToNet
  <1>0. AfterCleanup \in {"exit", "nodes"} /\ AfterCleanup \in PCs
    BY DEF AfterCleanup, PCs, Ended
  <1>1. CASE Ignored(AfterCleanup)
    <2>1. PlaceInv'
      BY <1>0, <1>1 DEF NsGet, NsDelete, NsWait, Ignored, IInv, PlaceInv
    <2> QED BY <1>0, <1>1, <2>1, IgnoredStep
  <1>2. CASE \E l \in {"nsDelete", AfterCleanup} :
               /\ pc \in {"nsGet", "nsWait"} /\ Goto(l) /\ UNCHANGED << nsObjs, netObjs >>
               /\ l # "nsDelete" => ns = "absent"
    <2>0. PICK l \in {"nsDelete", AfterCleanup} :
               /\ pc \in {"nsGet", "nsWait"} /\ Goto(l) /\ UNCHANGED << nsObjs, netObjs >>
               /\ l # "nsDelete" => ns = "absent"
      BY <1>2
    <2>1. /\ run' = run /\ flags' = flags /\ collision' = collision /\ pc' = l
          /\ ns' = ns /\ label' = label /\ content' = content
          /\ cudn' = cudn /\ sriovNet' = sriovNet /\ sriovPolicy' = sriovPolicy
      BY <2>0 DEF Goto, proc, nsObjs, netObjs
    <2>2. l \in PCs /\ l \in {"nsDelete", "exit", "nodes"}
      BY <1>0 DEF PCs
    <2>3. PlaceInv'
      BY <2>0, <2>1, <2>2 DEF IInv, PlaceInv
    <2>4. ASSUME Careful PROVE CleanInv'
      <3>1. CleanInv
        BY <2>4 DEF IInv
      <3> QED BY <3>1, <2>0, <2>1, <2>2 DEF CleanInv, CollisionInv, SweptInv, NamespaceInv, NetworkInv
    <2> QED BY <2>0, <2>2, <2>3, <2>4, GotoStep
  <1>3. CASE NsDelete
    <2>1. /\ run' = run /\ flags' = flags /\ final' = final /\ polls' = polls
          /\ hiccup' = hiccup /\ collision' = collision /\ pc = "nsDelete" /\ pc' = "nsWait"
          /\ ns' = "terminating" /\ label' = label /\ content' = content
          /\ cudn' = cudn /\ sriovNet' = sriovNet /\ sriovPolicy' = sriovPolicy
      BY <1>3 DEF NsDelete, Goto, proc, netObjs
    <2>2. final' \in BOOLEAN /\ hiccup' \in BOOLEAN
      BY <2>1, Zenon DEF IInv, TypeOK
    <2>3. TypeOK'
      BY <2>1, <2>2 DEF IInv, TypeOK, PCs
    <2>4. OwnerInv' /\ PlaceInv'
      BY <2>1 DEF IInv, OwnerInv, PlaceInv
    <2>5. Careful' => Careful
      BY <2>1, Zenon DEF Careful
    <2>6. ASSUME Careful PROVE CleanInv'
      <3>1. CleanInv
        BY <2>6 DEF IInv
      <3> QED BY <3>1, <2>1 DEF CleanInv, CollisionInv, SweptInv, NamespaceInv, NetworkInv
    <2> QED BY <2>3, <2>4, <2>5, <2>6 DEF IInv
  <1> QED BY <1>1, <1>2, <1>3 DEF NsGet, NsWait

\* The controllers.
LEMMA ClusterStep ==
  ASSUME IInv, Cluster
  PROVE  IInv'
  <1> USE DEF Swept, Empty, InNamespace, ToSut, ToSriov, ToPolicy, ToNet
  <1>1. /\ run' = run /\ flags' = flags /\ final' = final /\ polls' = polls
        /\ hiccup' = hiccup /\ collision' = collision /\ pc' = pc /\ label' = label
    BY DEF Cluster, NamespaceGone, CudnGone, OperatorMakesNad, SriovNetGone, SriovPolicyGone,
           Controllers, proc, nsObjs, netObjs
  <1>2. final' \in BOOLEAN /\ hiccup' \in BOOLEAN
    BY <1>1, Zenon DEF IInv, TypeOK
  <1>3. Careful' => Careful
    BY <1>1, Zenon DEF Careful
  <1>r. run \in Nat /\ run # None /\ None <= run
    BY DEF IInv, TypeOK, Runs, None
  <1>p. PlaceInv'
    BY <1>1 DEF IInv, PlaceInv
  <1>a. CASE NamespaceGone
    <2>1. /\ ns = "terminating" /\ ns' = "absent" /\ content' = NoContent
          /\ \A k \in Kinds : content'[k] = None
          /\ cudn' = cudn /\ sriovNet' = sriovNet /\ sriovPolicy' = sriovPolicy
      BY <1>a DEF NamespaceGone, netObjs, NoContent
    <2>2. TypeOK'
      BY <2>1, <1>1, <1>2 DEF IInv, TypeOK, NoContent
    <2>3. OwnerInv'
      BY <2>1, <1>1, <1>r DEF IInv, OwnerInv
    <2>4. ASSUME Careful PROVE CleanInv'
      <3>1. CleanInv
        BY <2>4 DEF IInv
      <3> QED BY <3>1, <2>1, <1>1 DEF CleanInv, CollisionInv, SweptInv, NamespaceInv, NetworkInv
    <2> QED BY <2>2, <2>3, <2>4, <1>3, <1>p DEF IInv
  <1>b. CASE OperatorMakesNad
    <2>1. /\ ns = "active" /\ ns' = ns /\ ~ OnItsWayOut(sriovNet)
          /\ content'["sriovnad"] = sriovNet.by
          /\ \A k \in Kinds \ {"sriovnad"} : content'[k] = content[k]
          /\ content' \in [Kinds -> Runs \cup {None}] /\ sriovNet.by # None
          /\ cudn' = cudn /\ sriovNet' = sriovNet /\ sriovPolicy' = sriovPolicy
      BY <1>b DEF OperatorMakesNad, netObjs, IInv, TypeOK, Objects, Kinds, OnItsWayOut
    <2>2. TypeOK'
      BY <2>1, <1>1, <1>2 DEF IInv, TypeOK
    <2>3. OwnerInv'
      BY <2>1, <1>1, <1>r DEF IInv, OwnerInv
    <2>4. ASSUME Careful PROVE CleanInv'
      <3>1. CleanInv
        BY <2>4 DEF IInv
      <3>2. SweptInv' /\ CollisionInv'
        BY <3>1, <2>1, <1>1 DEF CleanInv, CollisionInv, SweptInv
      <3>3. NamespaceInv'
        <4> SUFFICES ASSUME pc \in InNamespace
                     PROVE  NamespaceInv'
          BY <1>1 DEF NamespaceInv
        <4>0. flags.net = "sriov" => sriovNet.by = run
          <5>1. flags.net = "sriov" => sriovNet = CreatedBy(run)
            BY <3>1, <2>1 DEF CleanInv, NetworkInv
          <5> QED BY <5>1 DEF CreatedBy
        <4>1. \A k \in Kinds : content'[k] \notin {None, run}
                                => k = "sriovnad" /\ flags.net # "sriov"
          BY <4>0, <3>1, <2>1 DEF CleanInv, NamespaceInv
        <4>2. \A k \in Kinds : pc \in NotYet(k) => content'[k] = None
          <5>1. NotYet("sriovnad") = {}
            BY DEF NotYet
          <5> QED BY <5>1, <3>1, <2>1 DEF CleanInv, NamespaceInv
        <4> QED BY <4>1, <4>2, <3>1, <2>1, <1>1 DEF CleanInv, NamespaceInv
      <3>4. NetworkInv'
        BY <3>1, <2>1, <1>1 DEF CleanInv, NetworkInv
      <3> QED BY <3>2, <3>3, <3>4 DEF CleanInv
    <2> QED BY <2>2, <2>3, <2>4, <1>3, <1>p DEF IInv
  <1>c. CASE CudnGone \/ SriovNetGone \/ SriovPolicyGone
    <2>1. /\ ns' = ns
          /\ content' \in [Kinds -> Runs \cup {None}]
          /\ \A k \in Kinds : content'[k] \in {None, content[k]}
          /\ content' # content => sriovNet.deleting
      BY <1>c DEF CudnGone, SriovNetGone, SriovPolicyGone, nsObjs, IInv, TypeOK
    <2>2. /\ cudn' = cudn \/ (cudn.deleting /\ cudn' = NoObject)
          /\ sriovNet' = sriovNet \/ (sriovNet.deleting /\ sriovNet' = NoObject)
          /\ sriovPolicy' = sriovPolicy \/ (sriovPolicy.deleting /\ sriovPolicy' = NoObject)
      BY <1>c DEF CudnGone, SriovNetGone, SriovPolicyGone
    <2>3. TypeOK'
      BY <2>1, <2>2, <1>1, <1>2, GoneObject DEF IInv, TypeOK
    <2>4. OwnerInv'
      BY <2>1, <2>2, <1>1, <1>r, GoneObject DEF IInv, OwnerInv
    <2>5. ASSUME Careful PROVE CleanInv'
      <3>1. CleanInv
        BY <2>5 DEF IInv
      <3>2. SweptInv' /\ CollisionInv'
        BY <3>1, <2>1, <2>2, <1>1, GoneObject DEF CleanInv, CollisionInv, SweptInv
      <3>3. NamespaceInv'
        BY <3>1, <2>1, <1>1 DEF CleanInv, NamespaceInv
      <3>4. ~ CreatedBy(run).deleting
        BY CreatedObject DEF IInv, TypeOK
      <3>5. NetworkInv'
        BY <3>1, <3>4, <2>1, <2>2, <1>1, GoneObject DEF CleanInv, NetworkInv
      <3> QED BY <3>2, <3>3, <3>5 DEF CleanInv
    <2> QED BY <2>3, <2>4, <2>5, <1>3, <1>p DEF IInv
  <1> QED BY <1>a, <1>b, <1>c DEF Cluster

LEMMA StutterStep ==
  ASSUME IInv, UNCHANGED vars
  PROVE  IInv'
  <1>1. /\ run' = run /\ flags' = flags /\ final' = final /\ polls' = polls
        /\ hiccup' = hiccup /\ collision' = collision /\ pc' = pc
        /\ ns' = ns /\ label' = label /\ content' = content
        /\ cudn' = cudn /\ sriovNet' = sriovNet /\ sriovPolicy' = sriovPolicy
    BY DEF vars, proc, nsObjs, netObjs
  <1>2. PlaceInv' /\ pc \in PCs
    BY <1>1 DEF IInv, PlaceInv, TypeOK
  <1>3. ASSUME Careful PROVE CleanInv'
    <2>1. CleanInv
      BY <1>3 DEF IInv
    <2> QED BY <2>1, <1>1 DEF CleanInv, CollisionInv, SweptInv, NamespaceInv, NetworkInv
  <1> QED BY <1>1, <1>2, <1>3, GotoStep DEF Goto, proc, nsObjs, netObjs

LEMMA StepIInv == IInv /\ [Next]_vars => IInv'
  BY CleanNetStep, CleanNamespaceStep, PlainStep, NamespaceStep, CreateStep, BridgeStep,
     DeployStep, NadPollStep, ReportStep, StartStep, ClusterStep, StutterStep
  DEF Next, Cleanup, Setup, Finished

LEMMA Invariance == Spec => []IInv
  BY InitIInv, StepIInv, PTL DEF Spec

-----------------------------------------------------------------------------
\* Every variable keeps its type over any number of runs; WaitForSriovNad gives up after
\* its last poll.
THEOREM TypeCorrect == Spec => []TypeOK
  BY Invariance, PTL DEF IInv

LEMMA OwnObjects == IInv => MeasuresOwnObjects
  <1> USE DEF InNamespace, ToSut, ToSriov, ToPolicy, ToNet
  <1> SUFFICES ASSUME IInv, pc \in {"test", "report"}, Careful, CleanInv
               PROVE  /\ ns = "active"
                      /\ label = IF flags.net = "udn" THEN "udn" ELSE "test"
                      /\ \A k \in Kinds : content[k] \notin {None, run}
                                           => k = "sriovnad" /\ flags.net # "sriov"
                      /\ flags.net = "cudn" => cudn = CreatedBy(run)
                      /\ flags.net = "sriov" => /\ sriovPolicy = CreatedBy(run)
                                                /\ sriovNet = CreatedBy(run)
                                                /\ content["sriovnad"] = run
    BY Zenon DEF MeasuresOwnObjects, IInv, Careful
  <1>1. flags.net = "sriov" => content["sriovnad"] = run
    BY DEF CleanInv, NamespaceInv, NetworkInv, Kinds
  <1> QED BY <1>1 DEF CleanInv, NamespaceInv, NetworkInv

\* A run with --clean measures on what it created itself, in a namespace with its own label,
\* after any number of earlier runs with any flags that ended anywhere.
THEOREM CleanRunMeasuresItsOwn == Spec => []MeasuresOwnObjects
  BY Invariance, OwnObjects, PTL

LEMMA MeetsOnlyDeleted == IInv => CollidesOnlyWithDeleted
  <1>1. IInv /\ Careful => CollisionInv
    BY DEF IInv, CleanInv
  <1> QED BY <1>1, Zenon DEF Careful, CollidesOnlyWithDeleted, CollisionInv

\* However many runs went before, with whatever flags and wherever they ended: no Create of a
\* run with --clean finds anything in its namespace, and outside it only an object of its own
\* network whose deletion is still under way.
THEOREM CleanRunRecovers == Spec => []CollidesOnlyWithDeleted
  BY Invariance, MeetsOnlyDeleted, PTL

LEMMA AllDeleted == IInv => CleanExitDeletesAll
  <1> SUFFICES ASSUME IInv, pc = "exit", Careful, CleanInv
               PROVE  /\ ns = "absent"
                      /\ \A k \in Kinds : content[k] # run
                      /\ \A o \in {cudn, sriovNet, sriovPolicy} : o.by = run => o.deleting
    BY Zenon DEF CleanExitDeletesAll, IInv, Careful
  <1>1. run # None
    BY DEF IInv, TypeOK, Runs, None
  <1>2. /\ ns = "absent"
        /\ flags.net = "cudn" => OnItsWayOut(cudn)
        /\ flags.net = "sriov" => OnItsWayOut(sriovNet) /\ OnItsWayOut(sriovPolicy)
    BY DEF CleanInv, SweptInv, Swept, Empty
  <1>3. \A k \in Kinds : content[k] = None
    BY <1>2 DEF IInv, OwnerInv
  <1>4. /\ flags.net # "cudn" => cudn.by # run
        /\ flags.net # "sriov" => sriovNet.by # run /\ sriovPolicy.by # run
    BY DEF IInv, OwnerInv
  <1> QED BY <1>1, <1>2, <1>3, <1>4 DEF OnItsWayOut

\* A run with --clean that gets to its end has removed its namespace and has requested the
\* deletion of every object it created outside it, for any flags.
THEOREM CleanRunDeletesAll == Spec => []CleanExitDeletesAll
  BY Invariance, AllDeleted, PTL
==============================================================================
