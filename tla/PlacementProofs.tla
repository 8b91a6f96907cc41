--------------------------- MODULE PlacementProofs ---------------------------
(***************************************************************************)
(* Proofs about Placement for clusters of any size with any labels, and    *)
(* for all command lines.                                                  *)
(***************************************************************************)
EXTENDS Placement, FiniteSetTheorems, WellFoundedInduction, TLAPS

\* The deployments BuildSUT has behind it at l: deployed if they are wanted, skipped if not.
Done(l) ==
  CASE l = "client-host"   -> {"client"}
    [] l = "client-across" -> {"client", "client-host"}
    [] l = "client-vm"     -> {"client", "client-host", "client-across"}
    [] l = "server-host"   -> {"client", "client-host", "client-across", "client-vm"}
    [] l = "server"        -> {"client", "client-host", "client-across", "client-vm",
                               "server-host"}
    [] l = "server-vm"     -> {"client", "client-host", "client-across", "client-vm",
                               "server-host", "server"}
    [] l = "ready"         -> IF flags.external THEN {"client"} ELSE Pods
    [] OTHER               -> {}

\* What the checks before the deployments, and the reads of GetPodNodeInfo, have made sure of.
FlowInv ==
  /\ flags.external => pc \in {"count", "client"} \cup Ends
  /\ pc \in Pods \cup {"ready"} => flags.external \/ flags.local \/ ncount >= 2
  /\ "client" \in Done(pc) /\ flags.local => flags.external \/ flags.pod

PlacedInv ==
  pc # "panic" => \A p \in Pods : node[p] # Nowhere <=> p \in Done(pc) /\ Wanted(p)

\* The Required terms still hold between what is scheduled.
ApartInv ==
  \A p \in Pods : \A q \in Done(p) :
    node[p] # Nowhere /\ node[q] # Nowhere /\ Role(q) \in Avoids(p) => node[q] # node[p]
JoinInv == flags.local /\ node["server"] # Nowhere => node["server"] = node["client"]
EligibleInv == z # NoZone => \A p \in Pods : node[p] # Nowhere => node[p] \in Eligible

\* One kind of test.
OneKind == /\ ~ flags.external /\ flags.net = "default" /\ flags.pod # flags.vm
           /\ flags.host # "all" /\ ~ (flags.local /\ HostNetworkOnly)

InfoInv ==
  OneKind /\ pc # "panic" =>
    /\ flags.local =>
         /\ "client" \in Done(pc) => clientInfo = node["client"]
         /\ "server" \in Done(pc) => serverInfo = node["server"]
    /\ ~ flags.local /\ HostNetworkOnly =>
         /\ "client-host" \in Done(pc) => clientInfo = node["client-host"]
         /\ "server-host" \in Done(pc) => serverInfo = node["server-host"]
    /\ ~ flags.local /\ ~ HostNetworkOnly /\ flags.vm =>
         /\ "client-vm" \in Done(pc) => clientInfo = node["client-vm"]
         /\ "server-vm" \in Done(pc) => serverInfo = node["server-vm"]
    /\ ~ flags.local /\ ~ HostNetworkOnly /\ flags.pod =>
         /\ "server" \in Done(pc) => clientInfo = node["client-across"]
         /\ "server" \in Done(pc) => serverInfo = node["server"]

IInv == TypeOK /\ FlowInv /\ PlacedInv /\ ApartInv /\ JoinInv /\ EligibleInv /\ InfoInv

-----------------------------------------------------------------------------
LEMMA PodNames ==
  Pods = {"client", "client-host", "client-across", "client-vm", "server-host", "server",
          "server-vm"}
  <1>1. DOMAIN Deployments = 1 .. 7
    BY DEF Deployments
  <1>2. \A k \in 1 .. 7 : k \in {1, 2, 3, 4, 5, 6, 7}
    OBVIOUS
  <1> QED BY <1>1, <1>2 DEF Pods, Deployments

LEMMA FlagTypes ==
  ASSUME flags \in FlagSets
  PROVE  /\ flags.local \in BOOLEAN /\ flags.pod \in BOOLEAN /\ flags.vm \in BOOLEAN
         /\ flags.external \in BOOLEAN
         /\ flags.host \in {"no", "all", "only"}
         /\ flags.net \in {"default", "primary", "attached"}
  BY FlagsAssumption DEF FlagType

\* A cluster has finitely many nodes, so its workers can be counted.
LEMMA NodeCount ==
  ASSUME cl \in Clusters
  PROVE  /\ DOMAIN cl = 1 .. Len(cl) /\ Len(cl) \in Nat
         /\ IsFiniteSet(DOMAIN cl) /\ IsFiniteSet(Workers)
         /\ ncount \in Nat
         /\ Nowhere \notin DOMAIN cl
  <1>1. DOMAIN cl = 1 .. Len(cl) /\ Len(cl) \in Nat
    BY ClustersAssumption
  <1>2. IsFiniteSet(DOMAIN cl)
    BY <1>1, FS_Interval
  <1>3. IsFiniteSet(Workers)
    BY <1>2, FS_Subset DEF Workers
  <1>4. IsFiniteSet({n \in Workers : ~ cl[n].infra})
    BY <1>3, FS_Subset
  <1> QED BY <1>1, <1>2, <1>3, <1>4, FS_CardinalityType DEF ncount, Nowhere

\* The order of the deployments.
LEMMA AfterEach ==
  ASSUME NEW p \in Pods, flags.external \in BOOLEAN
  PROVE  IF flags.external \/ p = "server-vm" THEN After(p) = "ready"
         ELSE /\ p = "client" => After(p) = "client-host"
              /\ p = "client-host" => After(p) = "client-across"
              /\ p = "client-across" => After(p) = "client-vm"
              /\ p = "client-vm" => After(p) = "server-host"
              /\ p = "server-host" => After(p) = "server"
              /\ p = "server" => After(p) = "server-vm"
  <1> DEFINE At == CHOOSE k \in DOMAIN Deployments : Deployments[k] = p
  <1>1. \A k \in 1 .. 7 : k \in {1, 2, 3, 4, 5, 6, 7}
    OBVIOUS
  <1>2. DOMAIN Deployments = 1 .. 7
    BY DEF Deployments
  <1>3. \E k \in DOMAIN Deployments : Deployments[k] = p
    BY DEF Pods
  <1>4. At \in {1, 2, 3, 4, 5, 6, 7} /\ Deployments[At] = p
    BY <1>1, <1>2, <1>3
  <1>5. After(p) = IF flags.external \/ p = "server-vm" THEN "ready" ELSE Deployments[1 + At]
    BY DEF After
  <1> HIDE DEF At
  <1>6. /\ p = "client" => At = 1
        /\ p = "client-host" => At = 2
        /\ p = "client-across" => At = 3
        /\ p = "client-vm" => At = 4
        /\ p = "server-host" => At = 5
        /\ p = "server" => At = 6
    BY <1>4 DEF Deployments
  <1> QED BY <1>5, <1>6 DEF Deployments

LEMMA AfterDone ==
  ASSUME NEW p \in Pods, flags.external \in BOOLEAN, flags.external => p = "client"
  PROVE  /\ After(p) \in Pods \cup {"ready"} /\ After(p) # "panic" /\ After(p) # "client"
         /\ Done(After(p)) = Done(p) \cup {p}
         /\ p \notin Done(p)
         /\ Done(p) \subseteq Pods
         /\ \A q \in Pods : p \in Done(q) => q \notin Done(p)
  <1>1. CASE flags.external
    BY <1>1, AfterEach, PodNames DEF Done
  <1>2. CASE ~ flags.external
    BY <1>2, AfterEach, PodNames DEF Done
  <1> QED BY <1>1, <1>2
\* What depends only on the cluster and the command line stays as it is.
LEMMA SameConfig ==
  ASSUME cl' = cl, flags' = flags
  PROVE  /\ ncount' = ncount /\ GetZone' = GetZone /\ Eligible' = Eligible
         /\ HostNetworkOnly' = HostNetworkOnly /\ OneKind' = OneKind
         /\ \A p \in Pods : /\ Wanted(p)' = Wanted(p) /\ Avoids(p)' = Avoids(p)
                            /\ Done(p)' = Done(p)
  <1>1. ncount' = ncount /\ Eligible' = Eligible
    BY DEF ncount, Eligible, Workers
  <1>2. GetZone' = GetZone
    BY DEF GetZone, Workers, Unlabelled
  <1>3. HostNetworkOnly' = HostNetworkOnly /\ OneKind' = OneKind /\ HostNetwork' = HostNetwork
    BY DEF HostNetworkOnly, HostNetwork, OneKind
  <1>4. ASSUME NEW p \in Pods PROVE Wanted(p)' = Wanted(p)
    BY <1>1, <1>3 DEF Wanted
  <1>5. ASSUME NEW p \in Pods PROVE Avoids(p)' = Avoids(p) /\ Done(p)' = Done(p)
    BY DEF Avoids, Done
  <1> QED BY <1>1, <1>2, <1>3, <1>4, <1>5

\* What a deployment, made or skipped, changes.
Settled(p) ==
  /\ pc = p /\ cl' = cl /\ flags' = flags /\ z' = z
  /\ flags.external => p = "client"
  /\ node' \in [Pods -> DOMAIN cl \cup {Nowhere}]
  /\ node[p] = Nowhere
  /\ node'[p] # Nowhere <=> Wanted(p)
  /\ node'[p] # Nowhere => Fits(p, node'[p])
  /\ \A q \in Pods \ {p} : node'[q] = node[q]
  /\ pc' # "panic" => pc' = After(p) /\ Done(pc)' = Done(p) \cup {p}

LEMMA DeploySettles ==
  ASSUME IInv, NEW p \in Pods, Deploy(p) \/ SkipDeployment(p)
  PROVE  Settled(p)
  <1>1. pc = p /\ cl' = cl /\ flags' = flags /\ z' = z /\ CollectNodeInfo(p)
    BY DEF Deploy, SkipDeployment
  <1>b. flags.external \in BOOLEAN
    BY FlagTypes DEF IInv, TypeOK
  <1>2. flags.external => p = "client"
    BY <1>1, PodNames DEF IInv, FlowInv, Ends
  <1>3. p \notin Done(p)
    BY <1>2, <1>b, AfterDone
  <1>4. p # "panic"
    BY PodNames
  <1>5. node[p] = Nowhere
    BY <1>1, <1>3, <1>4 DEF IInv, PlacedInv
  <1>6. node \in [Pods -> DOMAIN cl \cup {Nowhere}] /\ Nowhere \notin DOMAIN cl
    BY NodeCount DEF IInv, TypeOK
  <1>7. /\ node' \in [Pods -> DOMAIN cl \cup {Nowhere}]
        /\ node'[p] # Nowhere <=> Wanted(p)
        /\ node'[p] # Nowhere => Fits(p, node'[p])
        /\ \A q \in Pods \ {p} : node'[q] = node[q]
    <2>1. CASE Deploy(p)
      <3>1. PICK n \in DOMAIN cl : Fits(p, n) /\ node' = [node EXCEPT ![p] = n]
        BY <2>1 DEF Deploy
      <3>2. Wanted(p)
        BY <2>1 DEF Deploy
      <3>3. node'[p] = n
        BY <3>1, <1>6
      <3> QED BY <3>1, <3>2, <3>3, <1>6
    <2>2. CASE SkipDeployment(p)
      BY <2>2, <1>5, <1>6 DEF SkipDeployment
    <2> QED BY <2>1, <2>2
  <1>8. ASSUME pc' # "panic" PROVE pc' = After(p) /\ Done(pc)' = Done(p) \cup {p}
    <2>1. pc' = After(p)
      BY <1>1, <1>8 DEF CollectNodeInfo
    <2>2. Done(pc)' = Done(After(p))
      BY <2>1, <1>1 DEF Done
    <2> QED BY <2>1, <2>2, <1>2, <1>b, AfterDone
  <1> QED BY <1>1, <1>2, <1>5, <1>7, <1>8 DEF Settled

\* Where the node information comes from.
LEMMA InfoRead ==
  ASSUME IInv, NEW p \in Pods, Settled(p), CollectNodeInfo(p)
  PROVE  /\ clientInfo' \in DOMAIN cl \cup {Nowhere} /\ serverInfo' \in DOMAIN cl \cup {Nowhere}
         /\ ClientInfoFrom(p) = {} => clientInfo' = clientInfo
         /\ ServerInfoFrom(p) = {} => serverInfo' = serverInfo
         /\ ClientInfoFrom(p) # {} /\ pc' # "panic" =>
               \E q \in ClientInfoFrom(p) : clientInfo' = node'[q] /\ node'[q] # Nowhere
         /\ ServerInfoFrom(p) # {} /\ pc' # "panic" =>
               \E q \in ServerInfoFrom(p) : serverInfo' = node'[q] /\ node'[q] # Nowhere
  <1>1. ClientInfoFrom(p) \subseteq Pods /\ ServerInfoFrom(p) \subseteq Pods
    BY PodNames DEF ClientInfoFrom, ServerInfoFrom
  <1>2. \A q \in Pods : node'[q] \in DOMAIN cl \cup {Nowhere}
    BY DEF Settled
  <1>3. /\ clientInfo \in DOMAIN cl \cup {Nowhere} /\ serverInfo \in DOMAIN cl \cup {Nowhere}
    BY DEF IInv, TypeOK
  <1>4. /\ clientInfo' \in InfoAfter(ClientInfoFrom(p), clientInfo)
        /\ serverInfo' \in InfoAfter(ServerInfoFrom(p), serverInfo)
        /\ pc' # "panic" => /\ ClientInfoFrom(p) # {} => clientInfo' # Nowhere
                            /\ ServerInfoFrom(p) # {} => serverInfo' # Nowhere
    BY DEF CollectNodeInfo
  <1>5. ASSUME NEW S \in SUBSET Pods, NEW old \in DOMAIN cl \cup {Nowhere},
               NEW x \in InfoAfter(S, old)
        PROVE  /\ x \in DOMAIN cl \cup {Nowhere}
               /\ S = {} => x = old
               /\ S # {} /\ x # Nowhere => \E q \in S : x = node'[q] /\ node'[q] # Nowhere
    <2>1. CASE S = {}
      BY <2>1, <1>5 DEF InfoAfter
    <2>2. CASE S # {}
      <3>1. x \in {node'[q] : q \in S} \/ x = Nowhere
        BY <2>2, <1>5 DEF InfoAfter
      <3> QED BY <2>2, <3>1, <1>2
    <2> QED BY <2>1, <2>2
  <1> QED BY <1>1, <1>3, <1>4, <1>5

LEMMA DeployFlow ==
  ASSUME IInv, NEW p \in Pods, Settled(p), CollectNodeInfo(p)
  PROVE  TypeOK' /\ FlowInv' /\ PlacedInv'
  <1>0. /\ pc = p /\ cl' = cl /\ flags' = flags /\ z' = z
        /\ flags.external => p = "client"
    BY DEF Settled
  <1>b. /\ flags.local \in BOOLEAN /\ flags.pod \in BOOLEAN /\ flags.vm \in BOOLEAN
        /\ flags.external \in BOOLEAN
    BY FlagTypes DEF IInv, TypeOK
  <1>s. /\ ncount' = ncount /\ GetZone' = GetZone
        /\ \A q \in Pods : Wanted(q)' = Wanted(q)
    BY <1>0, SameConfig
  <1>a. /\ After(p) \in Pods \cup {"ready"} /\ After(p) # "panic"
        /\ Done(After(p)) = Done(p) \cup {p} /\ p \notin Done(p)
    BY <1>0, <1>b, AfterDone
  <1>p. pc' = "panic" \/ (pc' = After(p) /\ Done(pc)' = Done(p) \cup {p})
    BY DEF Settled
  <1>1. TypeOK'
    <2>1. pc' \in PCs
      BY <1>a, <1>p DEF PCs, Ends
    <2>2. clientInfo' \in DOMAIN cl \cup {Nowhere} /\ serverInfo' \in DOMAIN cl \cup {Nowhere}
      BY InfoRead
    <2>3. z' \in {GetZone', NoZone}
      BY <1>0, <1>s DEF IInv, TypeOK
    <2>4. node' \in [Pods -> DOMAIN cl \cup {Nowhere}]
      BY DEF Settled
    <2> QED BY <1>0, <2>1, <2>2, <2>3, <2>4 DEF IInv, TypeOK
  <1>2. FlowInv'
    <2>1. flags.external => pc' \in Ends
      <3>1. flags.external => After(p) = "ready"
        BY <1>b, AfterEach
      <3> QED BY <3>1, <1>p DEF Ends
    <2>2. flags.external \/ flags.local \/ ncount >= 2
      BY <1>0 DEF IInv, FlowInv
    <2>3. ASSUME "client" \in Done(pc)', flags.local PROVE flags.external \/ flags.pod
      <3>1. pc' # "panic" /\ "client" \in Done(p) \cup {p}
        BY <1>p, <2>3 DEF Done
      <3>2. CASE p = "client"
        <4>1. ClientInfoFrom(p) = {"client"}
          BY <3>2, <2>3 DEF ClientInfoFrom
        <4>2. node'[p] # Nowhere
          BY <4>1, <3>1, <3>2, InfoRead
        <4>3. Wanted(p)
          BY <4>2 DEF Settled
        <4> QED BY <4>3, <3>2, <1>b DEF Wanted
      <3>3. CASE "client" \in Done(p)
        BY <3>3, <2>3, <1>0 DEF IInv, FlowInv
      <3> QED BY <3>1, <3>2, <3>3
    <2> QED BY <1>0, <1>s, <2>1, <2>2, <2>3 DEF FlowInv
  <1>3. PlacedInv'
    <2> SUFFICES ASSUME pc' # "panic", NEW q \in Pods
                 PROVE  node'[q] # Nowhere <=> q \in Done(pc)' /\ Wanted(q)'
      BY DEF PlacedInv
    <2>1. Done(pc)' = Done(p) \cup {p}
      BY <1>p
    <2>2. p # "panic"
      BY PodNames
    <2>3. node[q] # Nowhere <=> q \in Done(p) /\ Wanted(q)
      BY <1>0, <2>2 DEF IInv, PlacedInv
    <2>4. CASE q = p
      BY <2>1, <2>4, <1>s DEF Settled
    <2>5. CASE q # p
      BY <2>1, <2>3, <2>5, <1>s DEF Settled
    <2> QED BY <2>4, <2>5
  <1> QED BY <1>1, <1>2, <1>3
\* A new pod keeps away from the earlier ones it must, and no later one is there yet.
LEMMA DeployApart ==
  ASSUME IInv, NEW p \in Pods, Settled(p)
  PROVE  ApartInv' /\ JoinInv' /\ EligibleInv'
  <1>0. /\ pc = p /\ cl' = cl /\ flags' = flags /\ z' = z /\ p # "panic"
        /\ flags.external => p = "client"
        /\ \A r \in Pods \ {p} : node'[r] = node[r]
        /\ node[p] = Nowhere
    BY PodNames DEF Settled
  <1>b. /\ flags.external \in BOOLEAN /\ flags.local \in BOOLEAN
    BY FlagTypes DEF IInv, TypeOK
  <1>a. /\ p \notin Done(p)
        /\ \A q \in Pods : p \in Done(q) => q \notin Done(p)
    BY <1>0, <1>b, AfterDone
  <1>n. \A q \in Pods : q \notin Done(p) => node[q] = Nowhere
    BY <1>0 DEF IInv, PlacedInv
  <1>s. /\ \A q \in Pods : Avoids(q)' = Avoids(q) /\ Done(q)' = Done(q)
        /\ Eligible' = Eligible
    BY <1>0, SameConfig
  <1>f. node'[p] # Nowhere => /\ node'[p] \in NodesFor(p)
                              /\ Avoids(p) \cap RolesOn(node'[p]) = {}
                              /\ Joins(p) \subseteq RolesOn(node'[p])
    BY DEF Settled, Fits
  <1>1. ApartInv'
    <2> SUFFICES ASSUME NEW r \in Pods, NEW q \in Done(r), node'[r] # Nowhere,
                        node'[q] # Nowhere, Role(q) \in Avoids(r), node'[q] = node'[r]
                 PROVE  FALSE
      BY <1>s DEF ApartInv
    <2>0. q \in Pods
      BY PodNames DEF Done
    <2>q. q # r
      BY PodNames DEF Done
    <2>1. CASE r = p
      <3>1. node'[q] = node[q]
        BY <2>0, <2>q, <2>1, <1>0
      <3>2. Role(q) \in RolesOn(node'[p])
        BY <2>0, <2>1, <3>1 DEF RolesOn
      <3> QED BY <2>1, <3>2, <1>f
    <2>2. CASE q = p
      BY <2>2, <2>q, <1>a, <1>n, <1>0
    <2>3. CASE r # p /\ q # p
      BY <2>0, <2>3, <1>0 DEF IInv, ApartInv
    <2> QED BY <2>1, <2>2, <2>3
  <1>2. JoinInv'
    <2> SUFFICES ASSUME flags.local, node'["server"] # Nowhere
                 PROVE  node'["server"] = node'["client"]
      BY <1>0 DEF JoinInv
    <2>0. "server" \in Pods /\ "client" \in Pods
      BY PodNames
    <2>1. CASE p = "server"
      <3>1. "client-local" \in RolesOn(node'[p])
        BY <2>1, <1>f DEF Joins
      <3>2. PICK q \in Pods : node[q] = node'[p] /\ Role(q) = "client-local"
        BY <3>1 DEF RolesOn
      <3>3. q = "client"
        BY <3>2, PodNames DEF Role
      <3> QED BY <2>0, <2>1, <3>2, <3>3, <1>0
    <2>2. CASE p = "client"
      <3>1. "server" \notin Done(p)
        BY <2>2 DEF Done
      <3> QED BY <2>0, <2>2, <3>1, <1>n, <1>0
    <2>3. CASE p \notin {"server", "client"}
      BY <2>0, <2>3, <1>0 DEF IInv, JoinInv
    <2> QED BY <2>1, <2>2, <2>3
  <1>3. EligibleInv'
    <2> SUFFICES ASSUME z # NoZone, NEW q \in Pods, node'[q] # Nowhere
                 PROVE  node'[q] \in Eligible
      BY <1>0, <1>s DEF EligibleInv
    <2>1. CASE q = p
      BY <2>1, <1>f DEF NodesFor
    <2>2. CASE q # p
      BY <2>2, <1>0 DEF IInv, EligibleInv
    <2> QED BY <2>1, <2>2
  <1> QED BY <1>1, <1>2, <1>3

\* With one kind of test, the information is read from its pods, and not overwritten.
LEMMA DeployInfo ==
  ASSUME IInv, NEW p \in Pods, Settled(p), CollectNodeInfo(p)
  PROVE  InfoInv'
  <1>0. /\ pc = p /\ cl' = cl /\ flags' = flags /\ z' = z /\ p # "panic"
        /\ \A r \in Pods \ {p} : node'[r] = node[r]
        /\ node[p] = Nowhere
    BY PodNames DEF Settled
  <1>b. /\ flags.local \in BOOLEAN /\ flags.pod \in BOOLEAN /\ flags.vm \in BOOLEAN
        /\ flags.external \in BOOLEAN
    BY FlagTypes DEF IInv, TypeOK
  <1>s. HostNetworkOnly' = HostNetworkOnly /\ OneKind' = OneKind
    BY <1>0, SameConfig
  <1> SUFFICES ASSUME OneKind, pc' # "panic"
               PROVE  InfoInv'
    BY <1>s DEF InfoInv
  <1>p. Done(pc)' = Done(p) \cup {p}
    BY DEF Settled
  <1>c. ncount \in Nat
    BY NodeCount DEF IInv, TypeOK
  <1>k. /\ ~ flags.external /\ flags.pod # flags.vm
        /\ flags.host \in {"no", "only"} /\ (HostNetworkOnly <=> flags.host = "only")
        /\ flags.local => ~ HostNetworkOnly
        /\ flags.local \/ ncount > 1
    BY <1>b, <1>0, <1>c, FlagTypes DEF OneKind, HostNetworkOnly, IInv, TypeOK, FlowInv
  <1>i. /\ ClientInfoFrom(p) = {} => clientInfo' = clientInfo
        /\ ServerInfoFrom(p) = {} => serverInfo' = serverInfo
        /\ ClientInfoFrom(p) # {} =>
              \E q \in ClientInfoFrom(p) : clientInfo' = node'[q] /\ node'[q] # Nowhere
        /\ ServerInfoFrom(p) # {} =>
              \E q \in ServerInfoFrom(p) : serverInfo' = node'[q] /\ node'[q] # Nowhere
    BY InfoRead
  <1>d. "client" \in Done(pc)' /\ flags.local => flags.pod
    BY DeployFlow, <1>0, <1>k DEF FlowInv
  <1>o. InfoInv
    BY DEF IInv
  <1>1. CASE flags.local
    <2>1. ClientInfoFrom(p) \in {{}, {"client"}} /\ (p = "client" <=> ClientInfoFrom(p) = {"client"})
      <3>1. p # "client" => "client" \in Done(pc)' /\ flags.pod
        BY <1>1, <1>d, <1>p, PodNames DEF Done
      <3> QED BY <3>1, <1>1, <1>k, <1>b DEF ClientInfoFrom, Wanted
    <2>2. p = "server" => ServerInfoFrom(p) = {"server"}
      <3>1. p = "server" => flags.pod
        BY <1>1, <1>d, <1>p DEF Done
      <3> QED BY <3>1, <1>1 DEF ServerInfoFrom, Wanted
    <2>3. p # "server" => ServerInfoFrom(p) = {}
      <3>1. p # "client" => "client" \in Done(pc)' /\ flags.pod
        BY <1>1, <1>d, <1>p, PodNames DEF Done
      <3> QED BY <3>1, <1>1, <1>k, <1>b DEF ServerInfoFrom, Wanted
    <2> QED BY <2>1, <2>2, <2>3, <1>0, <1>1, <1>i, <1>o, <1>p, <1>s, PodNames DEF InfoInv
  <1>2. CASE ~ flags.local /\ HostNetworkOnly
    <2>1. /\ ClientInfoFrom(p) \in {{}, {"client-host"}}
          /\ p = "client-host" <=> ClientInfoFrom(p) = {"client-host"}
      BY <1>2, <1>k, <1>b DEF ClientInfoFrom, Wanted
    <2>2. /\ ServerInfoFrom(p) \in {{}, {"server-host"}}
          /\ p = "server-host" <=> ServerInfoFrom(p) = {"server-host"}
      BY <1>2, <1>k, <1>b DEF ServerInfoFrom, Wanted
    <2> QED BY <2>1, <2>2, <1>0, <1>2, <1>i, <1>o, <1>p, <1>s, PodNames DEF InfoInv
  <1>3. CASE ~ flags.local /\ ~ HostNetworkOnly /\ flags.vm
    <2>1. /\ ClientInfoFrom(p) \in {{}, {"client-vm"}}
          /\ p = "client-vm" <=> ClientInfoFrom(p) = {"client-vm"}
      BY <1>3, <1>k, <1>b DEF ClientInfoFrom, Wanted
    <2>2. /\ ServerInfoFrom(p) \in {{}, {"server-vm"}}
          /\ p = "server-vm" <=> ServerInfoFrom(p) = {"server-vm"}
      BY <1>3, <1>k, <1>b DEF ServerInfoFrom, Wanted
    <2>3. ~ flags.pod
      BY <1>3, <1>k, <1>b
    <2> QED BY <2>1, <2>2, <2>3, <1>0, <1>3, <1>i, <1>o, <1>p, <1>s, PodNames DEF InfoInv
  <1>4. CASE ~ flags.local /\ ~ HostNetworkOnly /\ flags.pod
    <2>3. ~ flags.vm
      BY <1>4, <1>k, <1>b
    <2>1. p # "server" => ClientInfoFrom(p) = {} /\ ServerInfoFrom(p) = {}
      BY <1>4, <2>3, <1>k, <1>b DEF ClientInfoFrom, ServerInfoFrom, Wanted
    <2>2. p = "server" => ClientInfoFrom(p) = {"client-across", "client-vm"}
                          /\ ServerInfoFrom(p) = {"server"}
      BY <1>4, <1>k, <1>b DEF ClientInfoFrom, ServerInfoFrom, Wanted
    <2>4. p = "server" => node'["client-vm"] = Nowhere
      <3>1. ~ Wanted("client-vm")
        BY <2>3 DEF Wanted
      <3> QED BY <3>1, <1>0, PodNames DEF IInv, PlacedInv
    <2>5. p = "server" => clientInfo' = node'["client-across"] /\ serverInfo' = node'["server"]
      BY <2>2, <2>4, <1>i
    <2>6. p # "server" => clientInfo' = clientInfo /\ serverInfo' = serverInfo
      BY <2>1, <1>i
    <2>7. "server" \in Done(p) => p # "client-across" /\ p # "server"
      BY PodNames DEF Done
    <2> QED BY <2>3, <2>5, <2>6, <2>7, <1>0, <1>4, <1>o, <1>p, <1>s, PodNames DEF InfoInv
  <1>5. \/ flags.local \/ (~ flags.local /\ HostNetworkOnly)
        \/ (~ flags.local /\ ~ HostNetworkOnly /\ flags.vm)
        \/ (~ flags.local /\ ~ HostNetworkOnly /\ flags.pod)
    BY <1>b, <1>k
  <1> QED BY <1>1, <1>2, <1>3, <1>4, <1>5
\* While nothing is deployed there is nothing to compare.
LEMMA NothingDeployed ==
  ASSUME TypeOK, FlowInv, pc \in {"count", "zones", "client", "error"},
         \A p \in Pods : node[p] = Nowhere
  PROVE  IInv
  <1>1. Done(pc) = {}
    BY DEF Done
  <1>2. PlacedInv /\ InfoInv
    BY <1>1 DEF PlacedInv, InfoInv
  <1>3. ApartInv /\ EligibleInv
    BY DEF ApartInv, EligibleInv
  <1>4. JoinInv
    BY PodNames DEF JoinInv
  <1> QED BY <1>2, <1>3, <1>4 DEF IInv

LEMMA InitIInv == Init => IInv
  <1> SUFFICES ASSUME Init PROVE IInv
    OBVIOUS
  <1>1. TypeOK
    BY DEF Init, TypeOK, PCs
  <1>2. FlowInv
    BY PodNames DEF Init, FlowInv, Done
  <1>3. \A p \in Pods : node[p] = Nowhere
    BY DEF Init
  <1> QED BY <1>1, <1>2, <1>3, NothingDeployed DEF Init

LEMMA CheckStep ==
  ASSUME IInv, CountNodes \/ CheckZones
  PROVE  IInv'
  <1>0. /\ cl' = cl /\ flags' = flags /\ node' = node /\ clientInfo' = clientInfo
        /\ serverInfo' = serverInfo /\ pc \in {"count", "zones"}
        /\ z' \in {GetZone, NoZone}
        /\ pc' \in {"error", "client", "zones"}
    BY DEF CountNodes, CheckZones, IInv, TypeOK
  <1>s. ncount' = ncount /\ GetZone' = GetZone
    BY <1>0, SameConfig
  <1>b. flags.external \in BOOLEAN /\ flags.local \in BOOLEAN
    BY FlagTypes DEF IInv, TypeOK
  <1>c. ncount \in Nat
    BY NodeCount DEF IInv, TypeOK
  <1>1. TypeOK'
    BY <1>0, <1>s DEF IInv, TypeOK, PCs, Ends, Pods, Deployments
  <1>2. FlowInv'
    <2>1. flags.external => pc' \in {"client", "error"}
      <3>1. flags.external => pc # "zones"
        BY <1>0 DEF IInv, FlowInv, Ends
      <3> QED BY <1>0, <1>b, <3>1 DEF CountNodes, CheckZones
    <2>2. pc' \in Pods \cup {"ready"} => flags.external \/ flags.local \/ ncount >= 2
      <3>1. pc' \in Pods \cup {"ready"} => pc' = "client"
        BY <1>0, PodNames
      <3>2. CASE CountNodes
        BY <3>1, <3>2 DEF CountNodes
      <3>3. CASE CheckZones
        BY <3>1, <3>3, <1>b, <1>c DEF CheckZones
      <3> QED BY <3>2, <3>3
    <2>3. Done(pc)' = {}
      BY <1>0 DEF Done
    <2> QED BY <1>0, <1>s, <2>1, <2>2, <2>3 DEF FlowInv, Ends
  <1>3. \A p \in Pods : node'[p] = Nowhere
    BY <1>0 DEF IInv, PlacedInv, Done
  <1>4. (\A p \in Pods : node[p] = Nowhere)'
    BY <1>3
  <1>5. (TypeOK /\ FlowInv /\ pc \in {"count", "zones", "client", "error"})'
    BY <1>0, <1>1, <1>2
  <1> QED BY <1>4, <1>5, NothingDeployed, PTL

LEMMA StutterStep ==
  ASSUME IInv, UNCHANGED vars
  PROVE  IInv'
  <1>1. /\ cl' = cl /\ flags' = flags /\ pc' = pc /\ z' = z /\ node' = node
        /\ clientInfo' = clientInfo /\ serverInfo' = serverInfo
    BY DEF vars
  <1>2. Done(pc)' = Done(pc)
    BY <1>1 DEF Done
  <1>3. /\ ncount' = ncount /\ GetZone' = GetZone /\ Eligible' = Eligible
        /\ HostNetworkOnly' = HostNetworkOnly /\ OneKind' = OneKind
        /\ \A p \in Pods : /\ Wanted(p)' = Wanted(p) /\ Avoids(p)' = Avoids(p)
                           /\ Done(p)' = Done(p)
    BY <1>1, SameConfig
  <1>4. TypeOK'
    BY <1>1, <1>3 DEF IInv, TypeOK
  <1>5. FlowInv' /\ PlacedInv'
    BY <1>1, <1>2, <1>3 DEF IInv, FlowInv, PlacedInv
  <1>6. ApartInv' /\ JoinInv' /\ EligibleInv'
    BY <1>1, <1>3 DEF IInv, ApartInv, JoinInv, EligibleInv
  <1>7. InfoInv'
    BY <1>1, <1>2, <1>3 DEF IInv, InfoInv
  <1> QED BY <1>4, <1>5, <1>6, <1>7 DEF IInv

LEMMA StepIInv == IInv /\ [Next]_vars => IInv'
  <1> SUFFICES ASSUME IInv, [Next]_vars PROVE IInv'
    OBVIOUS
  <1>1. ASSUME NEW p \in Pods, Deploy(p) \/ SkipDeployment(p) PROVE IInv'
    <2>1. Settled(p) /\ CollectNodeInfo(p)
      BY <1>1, DeploySettles DEF Deploy, SkipDeployment
    <2> QED BY <2>1, DeployFlow, DeployApart, DeployInfo DEF IInv
  <1> QED BY <1>1, CheckStep, StutterStep DEF Next, Ended, Unschedulable

LEMMA Invariance == Spec => []IInv
  BY InitIInv, StepIInv, PTL DEF Spec

-----------------------------------------------------------------------------
\* Every variable keeps its type, whatever the cluster.
THEOREM TypeCorrect == Spec => []TypeOK
  BY Invariance, PTL DEF IInv

LEMMA PairCardinality ==
  ASSUME NEW a, NEW b
  PROVE  Cardinality({a, b}) = IF a = b THEN 1 ELSE 2
  <1>1. IsFiniteSet({a}) /\ Cardinality({a}) = 1
    BY FS_Singleton
  <1>2. CASE a = b
    <2>1. {a, b} = {a}
      BY <1>2
    <2> QED BY <1>1, <1>2, <2>1
  <1>3. CASE a # b
    <2>1. {a, b} = {a} \cup {b}
      OBVIOUS
    <2>2. Cardinality({a} \cup {b}) = Cardinality({a}) + 1
      BY <1>1, <1>3, FS_AddElement
    <2> QED BY <1>1, <1>3, <2>1, <2>2
  <1> QED BY <1>2, <1>3

LEMMA ApartOrTogether == IInv => EndsApartOrTogether
  <1> SUFFICES ASSUME IInv, pc = "ready", ~ flags.external, NEW t \in Tests,
                      Nowhere \notin Paired(t)
               PROVE  IF SameNode THEN t.virt \/ Cardinality(Paired(t)) = 1
                      ELSE \/ Cardinality(Paired(t)) = 2 \/ (t.hostNet /\ flags.net # "default")
                           \/ (t.virt /\ flags.net = "primary")
    BY DEF EndsApartOrTogether
  <1>b. /\ flags.local \in BOOLEAN /\ flags.pod \in BOOLEAN /\ flags.vm \in BOOLEAN
        /\ flags.external \in BOOLEAN
        /\ flags.host \in {"no", "all", "only"}
        /\ flags.net \in {"default", "primary", "attached"}
    BY FlagTypes DEF IInv, TypeOK
  <1>t. /\ t.virt \in BOOLEAN /\ t.hostNet \in BOOLEAN /\ t.service \in BOOLEAN
        /\ t.hostNet => ~ t.virt /\ ~ t.service
    BY DEF Tests
  <1>p. "client" \in Pods /\ "server" \in Pods
    BY PodNames
  <1>1. CASE flags.local /\ ~ t.virt
    <2>1. ClientOf(t) = "client" /\ ServerOf(t) = "server"
      BY <1>1, <1>b, <1>t DEF ClientOf, ClientList, ServerOf
    <2>2. node["server"] # Nowhere
      BY <2>1 DEF Paired
    <2>3. node["server"] = node["client"]
      BY <1>1, <2>2 DEF IInv, JoinInv
    <2>4. Cardinality({node["client"], node["server"]}) = 1
      BY <2>3, PairCardinality
    <2>5. Paired(t) = {node["client"], node["server"]}
      BY <2>1 DEF Paired
    <2> QED BY <1>1, <2>4, <2>5 DEF SameNode
  <1>2. CASE ~ flags.local
    <2>1. CASE t.hostNet /\ flags.net = "default"
      <3>1. ClientOf(t) = "client-host" /\ ServerOf(t) = "server-host"
        BY <1>2, <2>1, <1>b, <1>t DEF ClientOf, ClientList, ServerOf
      <3>2. Role("client-host") \in Avoids("server-host") /\ "client-host" \in Done("server-host")
            /\ "server-host" \in Pods
        BY <1>2, PodNames DEF Role, Avoids, Done
      <3>3. node["client-host"] # node["server-host"]
        BY <3>1, <3>2 DEF IInv, ApartInv, Paired
      <3> QED BY <1>2, <3>1, <3>3, PairCardinality DEF Paired, SameNode
    <2>2. CASE t.virt /\ flags.net # "primary"
      <3>1. ClientOf(t) = "client-vm" /\ ServerOf(t) = "server-vm"
        BY <1>2, <2>2, <1>b, <1>t DEF ClientOf, ClientList, ServerOf
      <3>2. Role("client-vm") \in Avoids("server-vm") /\ "client-vm" \in Done("server-vm")
            /\ "server-vm" \in Pods
        BY <1>2, PodNames DEF Role, Avoids, Done
      <3>3. node["client-vm"] # node["server-vm"]
        BY <3>1, <3>2 DEF IInv, ApartInv, Paired
      <3> QED BY <1>2, <3>1, <3>3, PairCardinality DEF Paired, SameNode
    <2>3. CASE ~ t.virt /\ ~ t.hostNet
      <3>1. ClientOf(t) = "client-across" /\ ServerOf(t) = "server"
        BY <1>2, <2>3, <1>b, <1>t DEF ClientOf, ClientList, ServerOf
      <3>2. Role("client-across") \in Avoids("server") /\ "client-across" \in Done("server")
        BY <1>2 DEF Role, Avoids, Done
      <3>3. node["client-across"] # node["server"]
        BY <3>1, <3>2, <1>p DEF IInv, ApartInv, Paired
      <3> QED BY <1>2, <3>1, <3>3, PairCardinality DEF Paired, SameNode
    <2> QED BY <1>2, <1>t, <2>1, <2>2, <2>3 DEF SameNode
  <1>3. CASE flags.local /\ t.virt
    BY <1>3 DEF SameNode
  <1> QED BY <1>1, <1>2, <1>3

\* The ends of a test are on two nodes, or on one if the result says so, on clusters of any
\* size, for every choice of the scheduler within the Required terms.
THEOREM EndsWhereTheResultSays == Spec => []EndsApartOrTogether
  BY Invariance, ApartOrTogether, PTL
LEMMA EndpointsOfTests == IInv => EndpointsRun
  <1> SUFFICES ASSUME IInv, pc = "ready", NEW t \in Tests
               PROVE  /\ flags.external =>
                           (t.hostNet /\ ~ flags.local) \/ node[ClientList(t)] # Nowhere
                      /\ ~ flags.external =>
                           \/ Nowhere \notin Paired(t) /\ node[ClientList(t)] # Nowhere
                           \/ flags.net # "default" /\ HostNetworkOnly /\ ~ flags.local
                           \/ flags.net = "primary" /\ ~ flags.pod
                           \/ t.virt /\ flags.local /\ ncount < 2
    BY DEF EndpointsRun
  <1>b. /\ flags.local \in BOOLEAN /\ flags.pod \in BOOLEAN /\ flags.vm \in BOOLEAN
        /\ flags.external \in BOOLEAN
        /\ flags.host \in {"no", "all", "only"}
        /\ flags.net \in {"default", "primary", "attached"}
    BY FlagTypes DEF IInv, TypeOK
  <1>c. ncount \in Nat
    BY NodeCount DEF IInv, TypeOK
  <1>t. /\ t.virt \in BOOLEAN /\ t.hostNet \in BOOLEAN /\ t.service \in BOOLEAN
        /\ IF t.virt THEN flags.vm /\ ~ flags.external ELSE flags.pod
        /\ IF t.hostNet THEN ~ t.virt /\ flags.host # "no" /\ ~ t.service ELSE flags.host # "only"
    BY DEF Tests, HostNetwork, HostNetworkOnly
  <1>n. \A p \in Pods : node[p] # Nowhere <=> p \in Done("ready") /\ Wanted(p)
    BY DEF IInv, PlacedInv
  <1>1. CASE flags.external
    <2>1. Done("ready") = {"client"} /\ Wanted("client") /\ "client" \in Pods
      BY <1>1, PodNames DEF Done, Wanted
    <2>2. node["client"] # Nowhere
      BY <2>1, <1>n
    <2>3. (t.hostNet /\ ~ flags.local) \/ ClientList(t) = "client"
      BY <1>1 DEF ClientList
    <2> QED BY <1>1, <2>2, <2>3
  <1>2. CASE ~ flags.external
    <2>0. Done("ready") = Pods
      BY <1>2 DEF Done
    <2>w. /\ node["client"] # Nowhere <=> flags.local /\ flags.pod
          /\ node["client-host"] # Nowhere <=> ncount > 1 /\ flags.host # "no" /\ flags.pod
          /\ node["client-across"] # Nowhere <=> ncount > 1 /\ flags.host # "only" /\ flags.pod
          /\ node["client-vm"] # Nowhere <=> ncount > 1 /\ flags.host # "only" /\ flags.vm
          /\ node["server-host"] # Nowhere <=> ncount > 1 /\ flags.host # "no" /\ flags.pod
          /\ node["server"] # Nowhere <=> (flags.host # "only" \/ flags.local) /\ flags.pod
          /\ node["server-vm"] # Nowhere <=> (flags.host # "only" \/ flags.local) /\ flags.vm
      BY <1>2, <2>0, <1>n, PodNames DEF Wanted, HostNetwork, HostNetworkOnly
    <2>f. /\ flags.local => flags.pod
          /\ flags.local \/ ncount >= 2
      BY <1>2, <2>0, PodNames DEF IInv, FlowInv
    <2>1. CASE flags.local /\ ~ t.virt
      <3>1. ClientOf(t) = "client" /\ ServerOf(t) = "server" /\ ClientList(t) = "client"
        BY <2>1, <1>b, <1>t DEF ClientOf, ClientList, ServerOf
      <3>2. node["client"] # Nowhere /\ node["server"] # Nowhere
        BY <2>w, <2>f, <2>1, <1>t
      <3> QED BY <1>2, <3>1, <3>2 DEF Paired
    <2>2. CASE flags.local /\ t.virt /\ ncount >= 2
      <3>1. ClientOf(t) = "client-vm" /\ ServerOf(t) \in {"server", "server-vm"}
            /\ ClientList(t) = "client"
        BY <2>2, <1>b, <1>t DEF ClientOf, ClientList, ServerOf
      <3>2. ncount > 1
        BY <2>2, <1>c
      <3>3. /\ node["client"] # Nowhere /\ node["server"] # Nowhere
            /\ node["client-vm"] # Nowhere /\ node["server-vm"] # Nowhere
        BY <2>w, <2>f, <2>2, <1>t, <3>2
      <3> QED BY <1>2, <3>1, <3>3 DEF Paired
    <2>3. CASE flags.local /\ t.virt /\ ~ (ncount >= 2)
      <3>1. ncount < 2
        BY <2>3, <1>c
      <3> QED BY <1>2, <2>3, <3>1
    <2>4. CASE ~ flags.local
      <3>0. ncount > 1
        BY <2>4, <2>f, <1>c
      <3>1. CASE t.hostNet
        <4>1. /\ ClientOf(t) = "client-host" /\ ClientList(t) = "client-host"
              /\ ServerOf(t) = IF flags.net = "default" THEN "server-host" ELSE "server"
          BY <3>1, <2>4, <1>b, <1>t DEF ClientOf, ClientList, ServerOf
        <4>2. /\ node["client-host"] # Nowhere /\ node["server-host"] # Nowhere
              /\ flags.host = "only" \/ node["server"] # Nowhere
          BY <2>w, <3>0, <3>1, <1>t
        <4> QED BY <1>2, <4>1, <4>2, <2>4 DEF Paired, HostNetworkOnly
      <3>2. CASE t.virt
        <4>1. /\ ClientOf(t) = "client-vm" /\ ClientList(t) = "client-vm"
              /\ ServerOf(t) = "server-vm" \/ (flags.net = "primary" /\ ServerOf(t) = "server")
          BY <1>2, <3>2, <2>4, <1>b, <1>t DEF ClientOf, ClientList, ServerOf
        <4>2. /\ node["client-vm"] # Nowhere /\ node["server-vm"] # Nowhere
              /\ ~ flags.pod \/ node["server"] # Nowhere
          BY <2>w, <3>0, <3>2, <1>t
        <4> QED BY <1>2, <4>1, <4>2 DEF Paired
      <3>3. CASE ~ t.hostNet /\ ~ t.virt
        <4>1. /\ ClientOf(t) = "client-across" /\ ClientList(t) = "client-across"
              /\ ServerOf(t) = "server"
          BY <1>2, <3>3, <2>4, <1>b, <1>t DEF ClientOf, ClientList, ServerOf
        <4>2. node["client-across"] # Nowhere /\ node["server"] # Nowhere
          BY <2>w, <3>0, <3>3, <1>t
        <4> QED BY <1>2, <4>1, <4>2 DEF Paired
      <3> QED BY <3>1, <3>2, <3>3
    <2> QED BY <2>1, <2>2, <2>3, <2>4
  <1> QED BY <1>1, <1>2

\* Once BuildSUT returns, every list executeWorkload and the drivers take the first element
\* of has one, but for the combinations the property names.
THEOREM NoEmptyListIsRead == Spec => []EndpointsRun
  BY Invariance, EndpointsOfTests, PTL

LEMMA InfoOfTests == IInv => NodeInfoTruthful
  <1> SUFFICES ASSUME IInv, pc = "ready", OneKind, NEW t \in Tests, Nowhere \notin Paired(t)
               PROVE  clientInfo = node[ClientOf(t)] /\ serverInfo = node[ServerOf(t)]
    BY DEF NodeInfoTruthful, OneKind
  <1>b. /\ flags.local \in BOOLEAN /\ flags.pod \in BOOLEAN /\ flags.vm \in BOOLEAN
        /\ flags.external \in BOOLEAN
    BY FlagTypes DEF IInv, TypeOK
  <1>k. /\ ~ flags.external /\ flags.net = "default" /\ flags.pod # flags.vm
        /\ flags.local => ~ HostNetworkOnly
        /\ HostNetwork => HostNetworkOnly
    BY FlagTypes DEF OneKind, HostNetwork, HostNetworkOnly, IInv, TypeOK
  <1>t. /\ t.virt \in BOOLEAN /\ t.hostNet \in BOOLEAN /\ t.service \in BOOLEAN
        /\ IF t.virt THEN flags.vm ELSE flags.pod
        /\ IF t.hostNet THEN ~ t.virt /\ HostNetwork /\ ~ t.service ELSE ~ HostNetworkOnly
    BY DEF Tests
  <1>d. Done("ready") = Pods
    BY <1>k DEF Done
  <1>p. Pods = {"client", "client-host", "client-across", "client-vm", "server-host", "server",
                "server-vm"}
    BY PodNames
  <1>f. flags.local => flags.pod
    BY <1>d, <1>k, <1>p DEF IInv, FlowInv
  <1>i. InfoInv
    BY DEF IInv
  <1>1. CASE flags.local
    <2>1. ~ t.virt /\ ~ t.hostNet
      BY <1>1, <1>b, <1>f, <1>k, <1>t
    <2>2. ClientOf(t) = "client" /\ ServerOf(t) = "server"
      BY <1>1, <2>1, <1>k DEF ClientOf, ClientList, ServerOf
    <2> QED BY <1>1, <2>2, <1>d, <1>p, <1>i DEF InfoInv
  <1>2. CASE ~ flags.local /\ HostNetworkOnly
    <2>1. t.hostNet /\ ~ t.virt /\ ~ t.service
      BY <1>2, <1>t
    <2>2. ClientOf(t) = "client-host" /\ ServerOf(t) = "server-host"
      BY <1>2, <2>1, <1>k DEF ClientOf, ClientList, ServerOf
    <2> QED BY <1>2, <2>2, <1>d, <1>p, <1>i DEF InfoInv
  <1>3. CASE ~ flags.local /\ ~ HostNetworkOnly /\ flags.vm
    <2>1. t.virt /\ ~ t.hostNet
      BY <1>3, <1>b, <1>k, <1>t
    <2>2. ClientOf(t) = "client-vm" /\ ServerOf(t) = "server-vm"
      BY <1>3, <2>1, <1>k DEF ClientOf, ClientList, ServerOf
    <2> QED BY <1>3, <2>2, <1>d, <1>p, <1>i DEF InfoInv
  <1>4. CASE ~ flags.local /\ ~ HostNetworkOnly /\ ~ flags.vm
    <2>1. ~ t.virt /\ ~ t.hostNet /\ flags.pod
      BY <1>4, <1>b, <1>k, <1>t
    <2>2. ClientOf(t) = "client-across" /\ ServerOf(t) = "server"
      BY <1>4, <2>1, <1>k DEF ClientOf, ClientList, ServerOf
    <2> QED BY <1>4, <2>1, <2>2, <1>d, <1>p, <1>i DEF InfoInv
  <1> QED BY <1>1, <1>2, <1>3, <1>4

\* In a run of one kind of test every result names the nodes it was measured on.
THEOREM NodeInfoIsTheEnds == Spec => []NodeInfoTruthful
  BY Invariance, InfoOfTests, PTL
\* A set of nodes that is not empty has a last one.
LEMMA MaxOfNodes ==
  ASSUME NEW L \in Nat, NEW S \in SUBSET (1 .. L), S # {}
  PROVE  Max(S) \in S
  <1> DEFINE R == {ss \in Nat \X Nat : ss[1] < ss[2]}
             D == {L - x : x \in S}
  <1>1. IsWellFoundedOn(R, Nat)
    BY NatLessThanWellFounded, Zenon DEF OpToRel
  <1>2. D \in SUBSET Nat /\ D # {}
    <2>1. \A x \in S : L - x \in Nat
      OBVIOUS
    <2>2. PICK x \in S : TRUE
      OBVIOUS
    <2>3. L - x \in D
      OBVIOUS
    <2> QED BY <2>1, <2>3
  <1>3. PICK d \in D : \A y \in D : << y, d >> \notin R
    <2> HIDE DEF R, D
    <2> QED BY <1>1, <1>2, WFMin, Zenon
  <1>4. PICK x \in S : d = L - x
    OBVIOUS
  <1>5. ASSUME NEW y \in S PROVE x >= y
    <2>1. L - y \in D /\ L - y \in Nat /\ d \in Nat
      BY <1>2
    <2>2. /\ << L - y, d >> \in Nat \X Nat
          /\ << L - y, d >>[1] = L - y /\ << L - y, d >>[2] = d
      BY <2>1
    <2>3. << L - y, d >> \notin R
      BY <1>3, <2>1
    <2>4. ~ (L - y < d)
      BY <2>2, <2>3
    <2> QED BY <1>4, <2>1, <2>4
  <1> QED BY <1>5 DEF Max

\* Where the label says that zones were crossed, no two workers share one: had GetZone met a
\* zone twice, it would have returned such a zone.
LEMMA OneWorkerPerZone ==
  ASSUME cl \in Clusters, AcrossLabel, NEW a \in Workers, NEW b \in Workers, a # b
  PROVE  cl[a].zone # cl[b].zone
  <1> SUFFICES ASSUME cl[a].zone = cl[b].zone PROVE FALSE
    OBVIOUS
  <1> DEFINE repeated == {n \in Workers : \E m \in Workers : m < n /\ cl[m].zone = cl[n].zone}
             r == Max(repeated)
  <1>0. DOMAIN cl = 1 .. Len(cl) /\ Len(cl) \in Nat /\ IsFiniteSet(Workers)
        /\ Workers \subseteq 1 .. Len(cl)
    BY NodeCount DEF Workers
  <1>1. Unlabelled = {} /\ InZone(GetZone) <= 1
    BY DEF AcrossLabel, AcrossAZ
  <1>2. ZonesRead = Workers
    BY <1>1 DEF ZonesRead
  <1>3. repeated # {}
    <2>1. CASE a < b
      BY <2>1
    <2>2. CASE b < a
      BY <2>2
    <2> QED BY <1>0, <2>1, <2>2
  <1>4. r \in repeated
    <2>1. repeated \in SUBSET (1 .. Len(cl))
      BY <1>0
    <2> HIDE DEF repeated
    <2> QED BY <1>0, <1>3, <2>1, MaxOfNodes
  <1>5. GetZone = cl[r].zone
    BY <1>1, <1>3 DEF GetZone
  <1> HIDE DEF r
  <1>6. PICK m \in Workers : m < r /\ cl[m].zone = cl[r].zone /\ r \in Workers
    BY <1>4
  <1>7. m # r
    BY <1>0, <1>6
  <1> DEFINE T == {n \in ZonesRead : cl[n].zone = GetZone}
  <1>8. IsFiniteSet(T) /\ {m, r} \in SUBSET T
    <2>1. T \in SUBSET Workers
      BY <1>2
    <2> QED BY <1>0, <1>2, <1>5, <1>6, <2>1, FS_Subset
  <1>9. Cardinality({m, r}) <= Cardinality(T) /\ Cardinality({m, r}) = 2
    <2> HIDE DEF T
    <2> QED BY <1>7, <1>8, FS_Subset, PairCardinality
  <1>10. Cardinality(T) \in Nat /\ Cardinality(T) <= 1
    BY <1>1, <1>8, FS_CardinalityType DEF InZone
  <1> HIDE DEF T
  <1> QED BY <1>9, <1>10

LEMMA LabelOfTests == IInv => AcrossLabelSound
  <1> SUFFICES ASSUME IInv, pc = "ready", z # NoZone, AcrossLabel, NEW t \in Tests,
                      Cardinality(Paired(t)) = 2, Nowhere \notin Paired(t)
               PROVE  cl[node[ClientOf(t)]].zone # cl[node[ServerOf(t)]].zone
    BY DEF AcrossLabelSound
  <1>1. node[ClientOf(t)] # node[ServerOf(t)]
    <2>1. Cardinality({node[ClientOf(t)], node[ServerOf(t)]}) = 2
      BY DEF Paired
    <2>2. /\ Cardinality({node[ClientOf(t)], node[ServerOf(t)]})
               = IF node[ClientOf(t)] = node[ServerOf(t)] THEN 1 ELSE 2
      BY PairCardinality, Zenon
    <2> QED BY <2>1, <2>2
  <1>2. ClientOf(t) \in Pods /\ ServerOf(t) \in Pods
    <2>1. flags.net \in {"default", "primary", "attached"}
      BY FlagTypes DEF IInv, TypeOK
    <2> QED BY <2>1, PodNames DEF ClientOf, ClientList, ServerOf
  <1>3. node[ClientOf(t)] \in Workers /\ node[ServerOf(t)] \in Workers
    BY <1>2 DEF IInv, EligibleInv, Eligible, Paired
  <1> QED BY <1>1, <1>3, OneWorkerPerZone DEF IInv, TypeOK

\* A result marked AcrossAZ was measured between two zones, on clusters of any size and
\* with any labels.
THEOREM AcrossLabelIsTrue == Spec => []AcrossLabelSound
  BY Invariance, LabelOfTests, PTL
==============================================================================
