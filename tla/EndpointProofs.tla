--------------------------- MODULE EndpointProofs ---------------------------
(***************************************************************************)
(* Proofs about Endpoint, for every list of configurations and drivers,    *)
(* and every combination of flags, networks and clusters main lets         *)
(* through.                                                                *)
(***************************************************************************)
EXTENDS Endpoint, FiniteSetTheorems, WellFoundedInduction, TLAPS

Servers == {"server", "server-host", "server-vm"}

\* The Services once BuildSUT has made them.
AllServices ==
  UNION {ServicesFor(in.drivers[k], virt) :
           k \in DOMAIN in.drivers, virt \in {v \in BOOLEAN : IF v THEN in.vm ELSE in.pod}}

\* The Services and listeners are those of the input.
SetupInv ==
  /\ in \in Inputs
  /\ DOMAIN listening = Servers
  /\ pc # "services" => services = IF in.external THEN {} ELSE AllServices
  /\ pc \notin {"services", "servers"} /\ ~ in.external =>
       \A p \in Servers : Deployed(p) =>
         listening[p] = [ports |-> ServerPorts(p), duration |-> IbDuration]

\* While a test is in progress, or has ended the process, serverIP is what became of the
\* address it looked for.
Outcome == Resolved(Address(Test))
CallInv ==
  /\ pc \in {"profile", "contact", "fatal", "panic"} =>
       n <= Iterations /\ IsAsked(Test) /\ serverIP = Outcome[2]
  /\ pc \in {"profile", "contact"} =>
       Outcome[1] = "ok" /\ IsTestSupported(Test.driver, Test.cfg.profile)
  /\ pc = "contact" => Deployed(ClientList(Test))
  /\ pc = "fatal" => Outcome[1] = "fatal"
  /\ pc = "panic" => Outcome[1] = "panic" \/ ~ Deployed(ClientList(Test))

\* The uperf profile was written for the test that reads it.
FileInv ==
  pc = "contact" /\ Test.driver = "uperf" =>
    /\ << ClientOf(Test), FilePath(Test.cfg) >> \in DOMAIN file
    /\ ProfileRead(Test) = FileContent(Test.cfg)

IInv == TypeOK /\ SetupInv /\ CallInv /\ FileInv

----------------------------------------------------------------------------
(***************************************************************************)
(* The test of an iteration.                                               *)
(***************************************************************************)
LEMMA DivBelow ==
  ASSUME NEW a \in Nat, NEW b \in Nat \ {0}, NEW c \in Nat, a < b * c
  PROVE  a \div b \in 0 .. c - 1 /\ a % b \in 0 .. b - 1
  <1> DEFINE d == a \div b
  <1>1. d \in Nat /\ a % b \in 0 .. b - 1 /\ b * d <= a
    OBVIOUS
  <1> HIDE DEF d
  <1>2. d < c
    <2> SUFFICES ASSUME d >= c PROVE FALSE
      BY <1>1
    <2>1. b * d >= b * c
      BY <1>1
    <2> QED BY <1>1, <2>1
  <1> QED BY <1>1, <1>2 DEF d

\* It is of one of the configurations and one of the drivers.
LEMMA TestTyped ==
  ASSUME in \in InputType, n \in 1 .. Iterations
  PROVE  /\ \E c \in DOMAIN in.configs : Test.cfg = in.configs[c]
         /\ Test.cfg \in ConfigType
         /\ Test.driver \in DriverNames /\ Requested(in, Test.driver)
         /\ Test.hostNet \in BOOLEAN /\ Test.virt \in BOOLEAN
  <1> DEFINE nd == Len(in.drivers)
             nc == Len(in.configs)
             half == 2 * nd * nc
             a == (n - 1) % half
             c == a \div (2 * nd)
             r == a % (2 * nd)
             d == r \div 2
             hh == n % 2 = 1
             vv == n > half
             cf == in.configs[c + 1]
             dr == in.drivers[d + 1]
  <1>1. /\ in.configs \in Seq(ConfigType) /\ in.drivers \in Seq(DriverNames)
        /\ nd \in Nat /\ nc \in Nat
    BY DEF InputType
  <1>2. Test = [cfg |-> cf, driver |-> dr, hostNet |-> hh, virt |-> vv]
    BY DEF Test
  <1>3. n \in 1 .. 4 * nd * nc
    BY DEF Iterations
  <1>4. hh \in BOOLEAN /\ vv \in BOOLEAN
    OBVIOUS
  <1> HIDE DEF nd, nc, hh, vv
  <1>5. n \in Nat /\ n >= 1 /\ nd # 0 /\ nc # 0
    <2>1. 4 * nd * nc \in Nat
      BY <1>1
    <2>2. n \in Nat /\ n >= 1 /\ 1 <= 4 * nd * nc
      BY <1>3, <2>1
    <2> QED BY <1>1, <2>2
  <1>6. half \in Nat \ {0} /\ 2 * nd \in Nat \ {0} /\ half = (2 * nd) * nc
    BY <1>1, <1>5
  <1>7. a \in Nat /\ a < (2 * nd) * nc
    <2> HIDE DEF half
    <2>1. n - 1 \in Nat
      BY <1>5
    <2>2. a \in 0 .. half - 1
      BY <1>6, <2>1
    <2> QED BY <1>6, <2>2
  <1> HIDE DEF a
  <1>8. c \in 0 .. nc - 1 /\ r \in 0 .. 2 * nd - 1
    BY <1>1, <1>6, <1>7, DivBelow
  <1> HIDE DEF c, r
  <1>9. d \in 0 .. nd - 1
    <2>1. r \in Nat /\ r < 2 * nd
      BY <1>1, <1>8
    <2> QED BY <1>1, <2>1, DivBelow
  <1> HIDE DEF d
  <1>10. c + 1 \in 1 .. nc /\ d + 1 \in 1 .. nd
    BY <1>1, <1>8, <1>9
  <1>11. DOMAIN in.configs = 1 .. nc /\ DOMAIN in.drivers = 1 .. nd
    BY <1>1 DEF nc, nd
  <1>12. cf \in ConfigType /\ dr \in DriverNames
    BY <1>1, <1>10, <1>11
  <1>13. Requested(in, dr)
    BY <1>10, <1>11 DEF Requested
  <1>14. Test.cfg = cf /\ Test.driver = dr /\ Test.hostNet = hh /\ Test.virt = vv
    <2> HIDE DEF cf, dr
    <2> QED BY <1>2
  <1>15. \E k \in DOMAIN in.configs : Test.cfg = in.configs[k]
    BY <1>10, <1>11, <1>14
  <1> HIDE DEF cf, dr
  <1> QED BY <1>4, <1>12, <1>13, <1>14, <1>15

----------------------------------------------------------------------------
(***************************************************************************)
(* The networks main lets through, and which comes first in which list.    *)
(***************************************************************************)
NetsAccepted ==
  {{}, {"udn"}, {"cudn"}, {"sriov"}, {"bridge"}, {"macvlan"},
   {"udn", "bridge"}, {"cudn", "bridge"}}

LEMMA NetCases ==
  ASSUME in \in InputType, FlagsAccepted(in)
  PROVE  in.nets \in NetsAccepted
  <1>1. in.nets \subseteq Networks
    BY DEF InputType
  <1>2. CASE in.nets \in {{"udn", "bridge"}, {"cudn", "bridge"}}
    BY <1>2 DEF NetsAccepted
  <1>3. CASE Cardinality(in.nets) <= 1
    <2>1. IsFiniteSet(in.nets)
      <3>1. IsFiniteSet(Networks)
        <4>1. Networks = {"udn"} \cup {"cudn"} \cup {"sriov"} \cup {"bridge"} \cup {"macvlan"}
          BY DEF Networks
        <4>2. IsFiniteSet({"udn"})
          BY FS_Singleton
        <4>3. IsFiniteSet({"udn"} \cup {"cudn"})
          BY <4>2, FS_AddElement
        <4>4. IsFiniteSet({"udn"} \cup {"cudn"} \cup {"sriov"})
          BY <4>3, FS_AddElement
        <4>5. IsFiniteSet({"udn"} \cup {"cudn"} \cup {"sriov"} \cup {"bridge"})
          BY <4>4, FS_AddElement
        <4> QED BY <4>1, <4>5, FS_AddElement
      <3> QED BY <1>1, <3>1, FS_Subset
    <2>2. Cardinality(in.nets) \in {0, 1}
      BY <1>3, <2>1, FS_CardinalityType
    <2>3. in.nets = {} \/ \E w : in.nets = {w}
      BY <2>1, <2>2, FS_EmptySet, FS_Singleton
    <2> QED BY <1>1, <2>3 DEF NetsAccepted, Networks
  <1> QED BY <1>2, <1>3 DEF FlagsAccepted

\* The list of the annotations, of the VM's interfaces, and of executeWorkload.
LEMMA FirstOfAnnotations ==
  FirstOf(<< "bridge", "cudn", "sriov", "macvlan" >>) =
    {w \in in.nets : \/ w = "bridge"
                     \/ w = "cudn" /\ "bridge" \notin in.nets
                     \/ w = "sriov" /\ "bridge" \notin in.nets /\ "cudn" \notin in.nets
                     \/ w = "macvlan" /\ "bridge" \notin in.nets /\ "cudn" \notin in.nets
                        /\ "sriov" \notin in.nets}
  <1> DEFINE l == << "bridge", "cudn", "sriov", "macvlan" >>
  <1>1. DOMAIN l = 1 .. 4 /\ l[1] = "bridge" /\ l[2] = "cudn" /\ l[3] = "sriov" /\ l[4] = "macvlan"
    OBVIOUS
  <1>2. \A k \in 1 .. 4 : k \in {1, 2, 3, 4}
    OBVIOUS
  <1> HIDE DEF l
  <1>3. /\ \A j : j \notin 1 .. 1 - 1
        /\ \A j \in 1 .. 2 - 1 : j = 1
        /\ \A j \in 1 .. 3 - 1 : j \in {1, 2}
        /\ \A j \in 1 .. 4 - 1 : j \in {1, 2, 3}
        /\ 1 \in 1 .. 2 - 1 /\ 1 \in 1 .. 3 - 1 /\ 2 \in 1 .. 3 - 1
        /\ 1 \in 1 .. 4 - 1 /\ 2 \in 1 .. 4 - 1 /\ 3 \in 1 .. 4 - 1
    OBVIOUS
  <1>4. FirstOf(l) =
    {w \in in.nets : \/ w = "bridge"
                     \/ w = "cudn" /\ "bridge" \notin in.nets
                     \/ w = "sriov" /\ "bridge" \notin in.nets /\ "cudn" \notin in.nets
                     \/ w = "macvlan" /\ "bridge" \notin in.nets /\ "cudn" \notin in.nets
                        /\ "sriov" \notin in.nets}
    BY <1>1, <1>2, <1>3 DEF FirstOf
  <1> QED BY <1>4 DEF l

LEMMA FirstOfInterfaces ==
  FirstOf(<< "cudn", "sriov" >>) =
    {w \in in.nets : w = "cudn" \/ (w = "sriov" /\ "cudn" \notin in.nets)}
  <1> DEFINE l == << "cudn", "sriov" >>
  <1>1. DOMAIN l = 1 .. 2 /\ l[1] = "cudn" /\ l[2] = "sriov"
    OBVIOUS
  <1>2. \A k \in 1 .. 2 : k \in {1, 2}
    OBVIOUS
  <1>3. (\A j : j \notin 1 .. 1 - 1) /\ (\A j \in 1 .. 2 - 1 : j = 1) /\ 1 \in 1 .. 2 - 1
    OBVIOUS
  <1> HIDE DEF l
  <1>4. FirstOf(l) = {w \in in.nets : w = "cudn" \/ (w = "sriov" /\ "cudn" \notin in.nets)}
    BY <1>1, <1>2, <1>3 DEF FirstOf
  <1> QED BY <1>4 DEF l

LEMMA FirstOfAddress ==
  FirstOf(<< "udn", "cudn", "sriov", "bridge", "macvlan" >>) =
    {w \in in.nets : \/ w = "udn"
                     \/ w = "cudn" /\ "udn" \notin in.nets
                     \/ w = "sriov" /\ "udn" \notin in.nets /\ "cudn" \notin in.nets
                     \/ w = "bridge" /\ "udn" \notin in.nets /\ "cudn" \notin in.nets
                        /\ "sriov" \notin in.nets
                     \/ w = "macvlan" /\ "udn" \notin in.nets /\ "cudn" \notin in.nets
                        /\ "sriov" \notin in.nets /\ "bridge" \notin in.nets}
  <1> DEFINE l == << "udn", "cudn", "sriov", "bridge", "macvlan" >>
  <1>1. /\ DOMAIN l = 1 .. 5 /\ l[1] = "udn" /\ l[2] = "cudn" /\ l[3] = "sriov"
        /\ l[4] = "bridge" /\ l[5] = "macvlan"
    OBVIOUS
  <1>2. \A k \in 1 .. 5 : k \in {1, 2, 3, 4, 5}
    OBVIOUS
  <1> HIDE DEF l
  <1>3. /\ \A j : j \notin 1 .. 1 - 1
        /\ \A j \in 1 .. 2 - 1 : j = 1
        /\ \A j \in 1 .. 3 - 1 : j \in {1, 2}
        /\ \A j \in 1 .. 4 - 1 : j \in {1, 2, 3}
        /\ \A j \in 1 .. 5 - 1 : j \in {1, 2, 3, 4}
        /\ 1 \in 1 .. 2 - 1 /\ 1 \in 1 .. 3 - 1 /\ 2 \in 1 .. 3 - 1
        /\ 1 \in 1 .. 4 - 1 /\ 2 \in 1 .. 4 - 1 /\ 3 \in 1 .. 4 - 1
        /\ 1 \in 1 .. 5 - 1 /\ 2 \in 1 .. 5 - 1 /\ 3 \in 1 .. 5 - 1 /\ 4 \in 1 .. 5 - 1
    OBVIOUS
  <1>4. FirstOf(l) =
    {w \in in.nets : \/ w = "udn"
                     \/ w = "cudn" /\ "udn" \notin in.nets
                     \/ w = "sriov" /\ "udn" \notin in.nets /\ "cudn" \notin in.nets
                     \/ w = "bridge" /\ "udn" \notin in.nets /\ "cudn" \notin in.nets
                        /\ "sriov" \notin in.nets
                     \/ w = "macvlan" /\ "udn" \notin in.nets /\ "cudn" \notin in.nets
                        /\ "sriov" \notin in.nets /\ "bridge" \notin in.nets}
    BY <1>1, <1>2, <1>3 DEF FirstOf
  <1> QED BY <1>4 DEF l

\* The network executeWorkload takes: a bridge gives way to a UDN or a CUDN.
LEMMA NetPicked ==
  ASSUME in.nets \in NetsAccepted
  PROVE  LET net == FirstOf(<< "udn", "cudn", "sriov", "bridge", "macvlan" >>)
         IN  /\ net = {} => in.nets = {}
             /\ net # {} => LET w == CHOOSE w \in net : TRUE
                            IN  w \in in.nets /\ (w = "bridge" => in.nets = {"bridge"})
  <1> DEFINE net == FirstOf(<< "udn", "cudn", "sriov", "bridge", "macvlan" >>)
  <1>1. net = {w \in in.nets : w = "bridge" => in.nets = {"bridge"}}
    BY FirstOfAddress DEF NetsAccepted
  <1>2. net = {} => in.nets = {}
    BY <1>1 DEF NetsAccepted
  <1> HIDE DEF net
  <1>3. \A w \in net : w \in in.nets /\ (w = "bridge" => in.nets = {"bridge"})
    BY <1>1
  <1>4. net # {} => (CHOOSE w \in net : TRUE) \in net
    OBVIOUS
  <1> QED BY <1>2, <1>3, <1>4 DEF net

----------------------------------------------------------------------------
(***************************************************************************)
(* The outcome of a call, by the five ways executeWorkload goes.           *)
(***************************************************************************)
ByExternal == in.external /\ Outcome = << "ok", [kind |-> "external", of |-> "none", net |-> "none"] >>
ByService  == /\ ~ in.external /\ Test.cfg.service
              /\ Outcome = << "ok", [kind |-> "service", of |-> ServiceOf(Test), net |-> "default"] >>
ByBridgeVM == /\ ~ in.external /\ ~ Test.cfg.service /\ Test.virt /\ in.nets = {"bridge"}
              /\ Outcome = << IF in.brconf THEN "ok" ELSE "fatal", At("server-vm", "bridge") >>
ByNetwork(w) ==
  /\ ~ in.external /\ ~ Test.cfg.service /\ w \in in.nets
  /\ w = "bridge" => in.nets = {"bridge"} /\ ~ Test.virt
  /\ LET p == ServerOn(Test, w)
     IN  Outcome = IF ~ Deployed(p) THEN << "panic", At(p, w) >>
                   ELSE IF w \notin NetworksOf(p) THEN << "fatal", At(p, w) >>
                   ELSE IF in.ipv4 THEN << "ok", At(p, w) >>
                   ELSE IF w \in {"udn", "cudn"} THEN << "ok", NilAddress >>
                   ELSE << "fatal", At(p, w) >>
ByPodIP ==
  /\ ~ in.external /\ ~ Test.cfg.service /\ in.nets = {}
  /\ LET p == PodIPOf(Test)
         a == At(p, IF HostNetwork(p) THEN "host" ELSE "default")
     IN  Outcome = IF ~ Deployed(p) THEN << "panic", a >> ELSE << "ok", a >>

\* The input as the proofs use it.
LEMMA InputFacts ==
  ASSUME in \in Inputs
  PROVE  /\ in \in InputType /\ FlagsAccepted(in) /\ Builds(in)
         /\ in.nets \in NetsAccepted /\ in.nets \subseteq Networks
         /\ in.external \in BOOLEAN /\ in.pod \in BOOLEAN /\ in.vm \in BOOLEAN
         /\ in.local \in BOOLEAN /\ in.brconf \in BOOLEAN /\ in.fresh \in BOOLEAN
         /\ in.ipv4 \in BOOLEAN /\ in.host \in {"no", "all", "only"}
  <1>1. in \in InputType /\ FlagsAccepted(in) /\ Builds(in)
    BY InputsAssumption
  <1>2. in.nets \in NetsAccepted
    BY <1>1, NetCases
  <1> QED BY <1>1, <1>2 DEF InputType

LEMMA AtFields ==
  ASSUME NEW p, NEW w
  PROVE  /\ At(p, w).kind = "pod" /\ At(p, w).of = p /\ At(p, w).net = w
         /\ \A o, v : At(p, w) = At(o, v) <=> p = o /\ w = v
  <1>1. At(p, w).kind = "pod" /\ At(p, w).of = p /\ At(p, w).net = w
    BY DEF At
  <1>2. \A o, v : At(o, v).of = o /\ At(o, v).net = v
    BY DEF At
  <1> QED BY <1>1, <1>2

\* What Resolved makes of an address of a pod.
LEMMA ResolvedPod ==
  ASSUME NEW p, NEW w, At(p, w) # At("server-vm", "bridge")
  PROVE  Resolved(At(p, w)) =
           IF ~ Deployed(p) THEN << "panic", At(p, w) >>
           ELSE IF w \in {"default", "host"} THEN << "ok", At(p, w) >>
           ELSE IF w \notin NetworksOf(p) THEN << "fatal", At(p, w) >>
           ELSE IF in.ipv4 THEN << "ok", At(p, w) >>
           ELSE IF w \in {"udn", "cudn"} THEN << "ok", NilAddress >> ELSE << "fatal", At(p, w) >>
  <1> DEFINE a == At(p, w)
  <1>1. a.kind = "pod" /\ a.of = p /\ a.net = w
    BY AtFields
  <1> HIDE DEF a
  <1>2. Resolved(a) =
           IF ~ Deployed(a.of) THEN << "panic", a >>
           ELSE IF a.net \in {"default", "host"} THEN << "ok", a >>
           ELSE IF a.net \notin NetworksOf(a.of) THEN << "fatal", a >>
           ELSE IF in.ipv4 THEN << "ok", a >>
           ELSE IF a.net \in {"udn", "cudn"} THEN << "ok", NilAddress >> ELSE << "fatal", a >>
    BY <1>1 DEF Resolved, a
  <1> QED BY <1>1, <1>2 DEF a

LEMMA OutcomeCases ==
  ASSUME in \in Inputs, n \in 1 .. Iterations
  PROVE  ByExternal \/ ByService \/ ByBridgeVM \/ (\E w \in in.nets : ByNetwork(w)) \/ ByPodIP
  <1> DEFINE t == Test
             net == FirstOf(<< "udn", "cudn", "sriov", "bridge", "macvlan" >>)
  <1>1. /\ in.external \in BOOLEAN /\ in.nets \in NetsAccepted /\ in.nets \subseteq Networks
        /\ in \in InputType
    BY InputFacts
  <1>2. t.cfg.service \in BOOLEAN /\ t.virt \in BOOLEAN
    BY <1>1, TestTyped DEF ConfigType
  <1>3. CASE in.external
    <2> DEFINE a == [kind |-> "external", of |-> "none", net |-> "none"]
    <2>1. Address(t) = a
      BY <1>3 DEF Address
    <2>2. a.kind # "pod"
      OBVIOUS
    <2> HIDE DEF a
    <2>3. Resolved(a) = << "ok", a >>
      BY <2>2, AtFields DEF Resolved
    <2> QED BY <1>3, <2>1, <2>3 DEF ByExternal, Outcome, a
  <1>4. CASE ~ in.external /\ t.cfg.service
    <2> DEFINE a == [kind |-> "service", of |-> ServiceOf(t), net |-> "default"]
    <2>1. Address(t) = a
      BY <1>4 DEF Address
    <2>2. a.kind # "pod"
      OBVIOUS
    <2> HIDE DEF a
    <2>3. Resolved(a) = << "ok", a >>
      BY <2>2, AtFields DEF Resolved
    <2> QED BY <1>4, <2>1, <2>3 DEF ByService, Outcome, a
  <1>5. CASE ~ in.external /\ ~ t.cfg.service /\ net # {}
    <2> DEFINE w == CHOOSE w \in net : TRUE
               p == ServerOn(t, w)
    <2>1. Address(t) = At(p, w)
      <3> HIDE DEF net
      <3>1. Address(t) = LET v == CHOOSE v \in net : TRUE IN At(ServerOn(t, v), v)
        BY <1>5 DEF Address, net
      <3> QED BY <3>1
    <2>2. w \in in.nets /\ (w = "bridge" => in.nets = {"bridge"})
      BY <1>1, <1>5, NetPicked
    <2> HIDE DEF w
    <2>3. w \in Networks /\ w \notin {"default", "host"}
      BY <1>1, <2>2 DEF Networks
    <2>4. CASE At(p, w) = At("server-vm", "bridge")
      <3>1. w = "bridge" /\ p = "server-vm"
        BY <2>4, AtFields
      <3>2. t.virt
        BY <3>1 DEF ServerOn
      <3>3. At("server-vm", "bridge").kind = "pod"
        BY AtFields
      <3> DEFINE a == At("server-vm", "bridge")
      <3>4. Resolved(a) = << IF in.brconf THEN "ok" ELSE "fatal", a >>
        <4> HIDE DEF a
        <4> QED BY <3>3 DEF Resolved, a
      <3> QED BY <1>5, <2>1, <2>2, <2>4, <3>1, <3>2, <3>4 DEF ByBridgeVM, Outcome
    <2>5. CASE At(p, w) # At("server-vm", "bridge")
      <3>1. w = "bridge" => ~ t.virt
        BY <2>5 DEF ServerOn
      <3>2. Outcome = IF ~ Deployed(p) THEN << "panic", At(p, w) >>
                   ELSE IF w \notin NetworksOf(p) THEN << "fatal", At(p, w) >>
                   ELSE IF in.ipv4 THEN << "ok", At(p, w) >>
                   ELSE IF w \in {"udn", "cudn"} THEN << "ok", NilAddress >>
                   ELSE << "fatal", At(p, w) >>
        <4> HIDE DEF p
        <4> QED BY <2>1, <2>3, <2>5, ResolvedPod DEF Outcome
      <3>3. ByNetwork(w)
        BY <1>5, <2>2, <3>1, <3>2 DEF ByNetwork
      <3> QED BY <2>2, <3>3
    <2> QED BY <2>4, <2>5
  <1>6. CASE ~ in.external /\ ~ t.cfg.service /\ net = {}
    <2> DEFINE p == PodIPOf(t)
               v == IF HostNetwork(p) THEN "host" ELSE "default"
    <2>1. Address(t) = At(p, v)
      <3> HIDE DEF net
      <3> QED BY <1>6 DEF Address, net
    <2>2. in.nets = {}
      BY <1>1, <1>6, NetPicked
    <2>3. v \in {"default", "host"}
      OBVIOUS
    <2> HIDE DEF v
    <2>4. Outcome = IF ~ Deployed(p) THEN << "panic", At(p, v) >> ELSE << "ok", At(p, v) >>
      <3>1. At(p, v) # At("server-vm", "bridge")
        BY <2>3, AtFields
      <3> HIDE DEF p
      <3> QED BY <2>1, <2>3, <3>1, ResolvedPod DEF Outcome
    <2> QED BY <1>6, <2>2, <2>4 DEF ByPodIP, v
  <1> QED BY <1>1, <1>2, <1>3, <1>4, <1>5, <1>6

\* In every case the outcome has its type.
LEMMA OutcomeTyped ==
  ASSUME in \in Inputs, n \in 1 .. Iterations
  PROVE  /\ Outcome[1] \in {"ok", "fatal", "panic"}
         /\ Outcome[2].kind \in {"external", "service", "pod", "<nil>"}
         /\ Outcome[2].kind = "pod" => Outcome[2].of \in Servers
  <1>1. CASE ByExternal
    BY <1>1 DEF ByExternal
  <1>2. CASE ByService
    BY <1>2 DEF ByService
  <1>3. CASE ByBridgeVM
    BY <1>3, AtFields DEF ByBridgeVM, Servers
  <1>4. ASSUME NEW w \in in.nets, ByNetwork(w)
        PROVE  /\ Outcome[1] \in {"ok", "fatal", "panic"}
               /\ Outcome[2].kind \in {"external", "service", "pod", "<nil>"}
               /\ Outcome[2].kind = "pod" => Outcome[2].of \in Servers
    <2> DEFINE p == ServerOn(Test, w)
    <2>1. p \in Servers
      BY DEF ServerOn, Servers
    <2>2. /\ Outcome[1] \in {"ok", "fatal", "panic"}
          /\ Outcome[2] = At(p, w) \/ Outcome[2] = NilAddress
      BY <1>4 DEF ByNetwork
    <2> HIDE DEF p
    <2> QED BY <2>1, <2>2, AtFields DEF NilAddress
  <1>5. CASE ByPodIP
    <2> DEFINE p == PodIPOf(Test)
               v == IF HostNetwork(p) THEN "host" ELSE "default"
    <2>1. p \in Servers
      BY DEF PodIPOf, Servers
    <2>2. Outcome[1] \in {"ok", "fatal", "panic"} /\ Outcome[2] = At(p, v)
      BY <1>5 DEF ByPodIP
    <2> HIDE DEF p, v
    <2> QED BY <2>1, <2>2, AtFields
  <1> QED BY <1>1, <1>2, <1>3, <1>4, <1>5, OutcomeCases

----------------------------------------------------------------------------
(***************************************************************************)
(* The invariant holds initially, and every step keeps it.                 *)
(***************************************************************************)

\* Iterations is a number.
LEMMA IterationsTyped ==
  ASSUME in \in InputType
  PROVE  Iterations \in Nat
  <1> DEFINE a == Len(in.drivers)
             b == Len(in.configs)
  <1>1. a \in Nat /\ b \in Nat
    BY DEF InputType
  <1> HIDE DEF a, b
  <1>2. 4 * a * b \in Nat
    BY <1>1
  <1> QED BY <1>2 DEF Iterations, a, b

LEMMA InitIInv == Init => IInv
  <1> SUFFICES ASSUME Init PROVE IInv
    OBVIOUS
  <1>1. in \in Inputs /\ in \in InputType /\ Iterations \in Nat
    BY InputFacts, IterationsTyped DEF Init
  <1>2. TypeOK
    BY <1>1 DEF Init, TypeOK, PCs, NilAddress
  <1>3. SetupInv /\ CallInv /\ FileInv
    BY <1>1 DEF Init, SetupInv, CallInv, FileInv, Servers
  <1> QED BY <1>2, <1>3 DEF IInv

\* A Service stands before a server pod or the server VM.
LEMMA ServicesTyped ==
  ASSUME NEW d \in DriverNames, NEW virt \in BOOLEAN, NEW s \in ServicesFor(d, virt)
  PROVE  /\ s.backend = IF virt THEN "server-vm" ELSE "server"
         /\ \E name : s.name = << name, virt >>
  BY DEF ServicesFor, Service, DriverNames

LEMMA CreateServicesStep == ASSUME IInv, CreateServices PROVE IInv'
  <1>1. /\ pc = "services" /\ pc' = (IF in.external THEN "test" ELSE "servers")
        /\ in' = in /\ listening' = listening /\ n' = n /\ serverIP' = serverIP /\ file' = file
        /\ services' = IF in.external THEN {} ELSE AllServices
    BY DEF CreateServices, AllServices
  <1>2. in \in InputType /\ in.external \in BOOLEAN /\ in \in Inputs
    BY InputFacts DEF IInv, SetupInv
  <1>3. AllServices' = AllServices /\ Iterations' = Iterations
    BY <1>1 DEF AllServices, Iterations
  <1>4. \A s \in AllServices : s.backend \in {"server", "server-vm"}
    <2> SUFFICES ASSUME NEW s \in AllServices PROVE s.backend \in {"server", "server-vm"}
      OBVIOUS
    <2>1. PICK k \in DOMAIN in.drivers, virt \in BOOLEAN : s \in ServicesFor(in.drivers[k], virt)
      BY DEF AllServices
    <2>2. in.drivers[k] \in DriverNames
      BY <1>2 DEF InputType
    <2> QED BY <2>1, <2>2, ServicesTyped
  <1>5. \A s \in services' : s.backend \in {"server", "server-vm"}
    BY <1>1, <1>4
  <1>6. pc' \in {"test", "servers"} /\ (pc' = "test" => in.external)
    BY <1>1, <1>2
  <1>7. TypeOK'
    BY <1>1, <1>2, <1>3, <1>5, <1>6 DEF IInv, TypeOK, PCs
  <1>8. SetupInv'
    BY <1>1, <1>2, <1>3, <1>6 DEF IInv, SetupInv
  <1>9. CallInv' /\ FileInv'
    BY <1>6 DEF CallInv, FileInv
  <1> QED BY <1>7, <1>8, <1>9 DEF IInv

\* What depends on the input only, or on input and iteration.
LEMMA InputKept ==
  ASSUME in' = in
  PROVE  /\ AllServices' = AllServices /\ Iterations' = Iterations /\ IbDuration' = IbDuration
         /\ \A p : (Deployed(p)' <=> Deployed(p)) /\ ServerPorts(p)' = ServerPorts(p)
  <1>1. AllServices' = AllServices /\ Iterations' = Iterations
    BY DEF AllServices, Iterations
  <1>2. \A ks : DurationOf(ks)' = DurationOf(ks)
    BY DEF DurationOf
  <1>3. IbDuration' = IbDuration
    BY <1>2 DEF IbDuration, DurationOf
  <1>4. \A p : Deployed(p)' <=> Deployed(p)
    BY DEF Deployed
  <1>5. NeedsHistogram' <=> NeedsHistogram
    BY DEF NeedsHistogram
  <1>6. \A p : ServerPorts(p)' = ServerPorts(p)
    BY <1>5 DEF ServerPorts
  <1> QED BY <1>1, <1>3, <1>4, <1>6

LEMMA TestKept ==
  ASSUME in' = in, n' = n
  PROVE  Test' = Test /\ Outcome' = Outcome
  <1>1. Test' = Test
    BY DEF Test
  <1>2. Address(Test)' = Address(Test)
    BY <1>1 DEF Address, FirstOf, ServiceOf, ServerOn, PodIPOf, HostNetwork, At
  <1>3. Outcome' = Outcome
    BY <1>1, <1>2 DEF Outcome, Resolved, Deployed, NetworksOf, NetworkAnnotations, HostNetwork,
                      Interfaces, FirstOf, At, NilAddress
  <1> QED BY <1>1, <1>3

LEMMA StartServersStep == ASSUME IInv, StartServers PROVE IInv'
  <1>1. /\ pc = "servers" /\ pc' = "test" /\ in' = in /\ services' = services /\ n' = n
        /\ serverIP' = serverIP /\ file' = file
        /\ listening' = [p \in Servers |->
                           IF Deployed(p) THEN [ports |-> ServerPorts(p), duration |-> IbDuration]
                           ELSE listening[p]]
    BY DEF StartServers, Servers
  <1>2. /\ AllServices' = AllServices /\ Iterations' = Iterations /\ IbDuration' = IbDuration
        /\ \A p : (Deployed(p)' <=> Deployed(p)) /\ ServerPorts(p)' = ServerPorts(p)
    BY <1>1, InputKept
  <1>3. TypeOK'
    BY <1>1, <1>2 DEF IInv, TypeOK, PCs, SetupInv
  <1>4. SetupInv'
    BY <1>1, <1>2 DEF IInv, SetupInv
  <1>5. CallInv' /\ FileInv'
    BY <1>1 DEF CallInv, FileInv
  <1> QED BY <1>3, <1>4, <1>5 DEF IInv

\* After BuildSUT, Services and listeners stay.
LEMMA SetupKept ==
  ASSUME IInv, in' = in, services' = services, listening' = listening,
         pc \notin {"services", "servers"}, pc' \notin {"services", "servers"}
  PROVE  SetupInv'
  BY InputKept DEF IInv, SetupInv

\* What a step that stays with its test keeps of it.
LEMMA CallKept ==
  ASSUME in' = in, n' = n
  PROVE  /\ Iterations' = Iterations /\ Test' = Test /\ Outcome' = Outcome
         /\ (IsAsked(Test)' <=> IsAsked(Test))
         /\ (Deployed(ClientList(Test))' <=> Deployed(ClientList(Test)))
         /\ ClientOf(Test)' = ClientOf(Test)
         /\ (IsTestSupported(Test.driver, Test.cfg.profile)'
               <=> IsTestSupported(Test.driver, Test.cfg.profile))
  <1>1. Test' = Test /\ Outcome' = Outcome /\ Iterations' = Iterations
    BY TestKept, InputKept
  <1>2. IsAsked(Test)' <=> IsAsked(Test)
    BY <1>1 DEF IsAsked
  <1>3. ClientList(Test)' = ClientList(Test)
    BY <1>1 DEF ClientList
  <1>4. ClientOf(Test)' = ClientOf(Test)
    BY <1>1, <1>3 DEF ClientOf
  <1>5. Deployed(ClientList(Test))' <=> Deployed(ClientList(Test))
    BY <1>3 DEF Deployed
  <1>6. IsTestSupported(Test.driver, Test.cfg.profile)'
               <=> IsTestSupported(Test.driver, Test.cfg.profile)
    BY <1>1 DEF IsTestSupported
  <1> QED BY <1>1, <1>2, <1>4, <1>5, <1>6

LEMMA PickAddressStep == ASSUME IInv, PickAddress PROVE IInv'
  <1> DEFINE sup == IsTestSupported(Test.driver, Test.cfg.profile)
  <1>1. /\ pc = "test" /\ n <= Iterations /\ IsAsked(Test)
        /\ in' = in /\ services' = services /\ listening' = listening /\ file' = file
        /\ serverIP' = Outcome[2]
        /\ pc' = (IF Outcome[1] # "ok" THEN Outcome[1] ELSE IF sup THEN "profile" ELSE "test")
        /\ n' = (IF Outcome[1] = "ok" /\ ~ sup THEN n + 1 ELSE n)
    BY DEF PickAddress, Outcome
  <1>2. in \in Inputs /\ in \in InputType /\ Iterations \in Nat /\ n \in 1 .. Iterations
    BY <1>1, InputFacts, IterationsTyped DEF IInv, SetupInv, TypeOK
  <1>3. /\ Outcome[1] \in {"ok", "fatal", "panic"}
        /\ Outcome[2].kind \in {"external", "service", "pod", "<nil>"}
        /\ Outcome[2].kind = "pod" => Outcome[2].of \in Servers
    BY <1>2, OutcomeTyped
  <1> HIDE DEF sup
  <1>4. /\ pc' \in {"fatal", "panic", "profile", "test"}
        /\ pc' # "test" => n' = n
        /\ pc' \in {"fatal", "panic"} => Outcome[1] = pc'
        /\ pc' = "profile" => Outcome[1] = "ok" /\ sup
        /\ n' = n \/ n' = n + 1
    BY <1>1, <1>3
  <1>5. TypeOK'
    <2>1. Iterations' = Iterations /\ n' \in 1 .. Iterations + 1
      BY <1>1, <1>2, <1>4, InputKept
    <2>2. /\ serverIP'.kind \in {"external", "service", "pod", "<nil>"}
          /\ serverIP'.kind = "pod" => serverIP'.of \in DOMAIN listening
      BY <1>1, <1>3 DEF IInv, SetupInv
    <2> QED BY <1>1, <1>4, <2>1, <2>2 DEF IInv, TypeOK, PCs
  <1>6. SetupInv'
    BY <1>1, <1>4, SetupKept
  <1>7. CallInv'
    <2>1. CASE pc' = "test"
      BY <2>1 DEF CallInv
    <2>2. CASE pc' # "test"
      BY <1>1, <1>4, <2>2, CallKept DEF CallInv, sup
    <2> QED BY <2>1, <2>2
  <1>8. FileInv'
    BY <1>4 DEF FileInv
  <1> QED BY <1>5, <1>6, <1>7, <1>8 DEF IInv

\* Steps to the next iteration, or to the end.
LEMMA AdvanceStep ==
  ASSUME IInv, in' = in, services' = services, listening' = listening, file' = file,
         serverIP' = serverIP, pc \in {"test", "contact"}, pc' \in {"test", "done"},
         n' \in 1 .. Iterations + 1
  PROVE  IInv'
  <1>1. TypeOK'
    BY InputKept DEF IInv, TypeOK, PCs
  <1>2. SetupInv'
    BY SetupKept
  <1>3. CallInv' /\ FileInv'
    BY DEF CallInv, FileInv
  <1> QED BY <1>1, <1>2, <1>3 DEF IInv

LEMMA PrepareRunStep == ASSUME IInv, PrepareRun PROVE IInv'
  <1> DEFINE at == << ClientOf(Test), FilePath(Test.cfg) >>
             content == FileContent(Test.cfg)
  <1>1. /\ pc = "profile" /\ in' = in /\ services' = services /\ listening' = listening
        /\ n' = n /\ serverIP' = serverIP
        /\ \/ Deployed(ClientList(Test)) /\ CreateUperfProfile /\ pc' = "contact"
           \/ ~ Deployed(ClientList(Test)) /\ pc' = "panic" /\ file' = file
    BY DEF PrepareRun
  <1>2. /\ Iterations' = Iterations /\ Test' = Test /\ Outcome' = Outcome
        /\ (IsAsked(Test)' <=> IsAsked(Test))
        /\ (Deployed(ClientList(Test))' <=> Deployed(ClientList(Test)))
        /\ ClientOf(Test)' = ClientOf(Test)
        /\ (IsTestSupported(Test.driver, Test.cfg.profile)'
               <=> IsTestSupported(Test.driver, Test.cfg.profile))
    BY <1>1, CallKept
  <1>3. ClientOf(Test) \in Pods \cup VMs
    BY DEF ClientOf, ClientList, Pods, VMs
  <1>4. \/ file' = file /\ (pc' = "contact" => Test.driver # "uperf")
        \/ file' = Written(at, content)
    BY <1>1 DEF CreateUperfProfile
  <1>5. file' = Written(at, content) =>
          DOMAIN file' = DOMAIN file \cup {at} /\ file'[at] = content
    <2> HIDE DEF at, content
    <2> QED BY DEF Written
  <1>6. TypeOK'
    <2>1. \A a \in DOMAIN file' : a[1] \in Pods \cup VMs
      <3>1. at[1] = ClientOf(Test)
        OBVIOUS
      <3> HIDE DEF at, content
      <3> QED BY <1>3, <1>4, <1>5, <3>1 DEF IInv, TypeOK
    <2>2. pc' \in PCs
      BY <1>1 DEF PCs
    <2> QED BY <1>1, <1>2, <2>1, <2>2 DEF IInv, TypeOK
  <1>7. SetupInv'
    BY <1>1, SetupKept
  <1>8. CallInv'
    BY <1>1, <1>2 DEF IInv, CallInv
  <1>9. FileInv'
    <2> SUFFICES ASSUME pc' = "contact", Test.driver = "uperf"
                 PROVE  /\ << ClientOf(Test), FilePath(Test.cfg) >>' \in DOMAIN file'
                        /\ ProfileRead(Test)' = FileContent(Test.cfg)'
      BY <1>2 DEF FileInv
    <2>1. FilePath(Test.cfg)' = FilePath(Test.cfg) /\ FileContent(Test.cfg)' = FileContent(Test.cfg)
      BY <1>1, <1>2 DEF FilePath, FileContent
    <2>2. << ClientOf(Test), FilePath(Test.cfg) >>' = at
      BY <1>2, <2>1
    <2>3. at \in DOMAIN file' /\ file'[at] = content
      BY <1>4, <1>5
    <2>4. ProfileRead(Test)' = file'[at]
      BY <2>2 DEF ProfileRead
    <2> QED BY <2>1, <2>2, <2>3, <2>4
  <1> QED BY <1>6, <1>7, <1>8, <1>9 DEF IInv

LEMMA StutterStep == ASSUME IInv, UNCHANGED vars PROVE IInv'
  <1>1. /\ in' = in /\ pc' = pc /\ services' = services /\ listening' = listening /\ n' = n
        /\ serverIP' = serverIP /\ file' = file
    BY DEF vars
  <1>2. TypeOK'
    BY <1>1, InputKept DEF IInv, TypeOK
  <1>3. SetupInv'
    BY <1>1, InputKept DEF IInv, SetupInv
  <1>4. CallInv'
    BY <1>1, CallKept DEF IInv, CallInv
  <1>5. FileInv'
    <2>1. Test' = Test /\ ClientOf(Test)' = ClientOf(Test)
      BY <1>1, CallKept
    <2>2. FilePath(Test.cfg)' = FilePath(Test.cfg) /\ FileContent(Test.cfg)' = FileContent(Test.cfg)
      BY <1>1, <2>1 DEF FilePath, FileContent
    <2>3. ProfileRead(Test)' = ProfileRead(Test)
      BY <1>1, <2>1, <2>2 DEF ProfileRead
    <2> QED BY <1>1, <2>1, <2>2, <2>3 DEF IInv, FileInv
  <1> QED BY <1>2, <1>3, <1>4, <1>5 DEF IInv

LEMMA StepIInv == IInv /\ [Next]_vars => IInv'
  <1> SUFFICES ASSUME IInv, [Next]_vars PROVE IInv'
    OBVIOUS
  <1>1. in \in Inputs /\ in \in InputType /\ Iterations \in Nat /\ n \in 1 .. Iterations + 1
    BY InputFacts, IterationsTyped DEF IInv, SetupInv, TypeOK
  <1>2. CASE CreateServices
    BY <1>2, CreateServicesStep
  <1>3. CASE StartServers
    BY <1>3, StartServersStep
  <1>4. CASE PickAddress
    BY <1>4, PickAddressStep
  <1>5. CASE PassOver
    <2>1. n' \in 1 .. Iterations + 1
      BY <1>1, <1>5 DEF PassOver
    <2> QED BY <1>5, <2>1, AdvanceStep DEF PassOver
  <1>6. CASE TestsOver
    BY <1>1, <1>6, AdvanceStep DEF TestsOver
  <1>7. CASE PrepareRun
    BY <1>7, PrepareRunStep
  <1>8. CASE Contact
    <2>1. n' \in 1 .. Iterations + 1
      BY <1>1, <1>8 DEF Contact, IInv, CallInv
    <2> QED BY <1>8, <2>1, AdvanceStep DEF Contact
  <1>9. CASE Finished \/ UNCHANGED vars
    BY <1>9, StutterStep DEF Finished
  <1> QED BY <1>2, <1>3, <1>4, <1>5, <1>6, <1>7, <1>8, <1>9 DEF Next

LEMMA Invariance == Spec => []IInv
  BY InitIInv, StepIInv, PTL DEF Spec

\* At every moment of every run of BuildSUT and main's loops, TypeOK.
THEOREM TypeCorrect == Spec => []TypeOK
  <1>1. IInv => TypeOK
    BY DEF IInv
  <1> QED BY <1>1, Invariance, PTL

\* The uperf profile a client reads was written by the createUperfProfile of the same test:
\* ProfileIsOwn.
THEOREM ReadsItsOwnProfile == Spec => []ProfileIsOwn
  <1>1. IInv => ProfileIsOwn
    BY DEF IInv, FileInv, ProfileIsOwn, Running, FileContent
  <1> QED BY <1>1, Invariance, PTL

----------------------------------------------------------------------------
(***************************************************************************)
(* What the invariant says of a test that is running, or that ended the    *)
(* process.                                                                *)
(***************************************************************************)
InCall == pc \in {"profile", "contact", "fatal", "panic"}

LEMMA CallFacts ==
  ASSUME IInv, InCall
  PROVE  /\ in \in Inputs /\ in \in InputType /\ n \in 1 .. Iterations
         /\ IsAsked(Test) /\ serverIP = Outcome[2]
         /\ \E c \in DOMAIN in.configs : Test.cfg = in.configs[c]
         /\ Test.cfg \in ConfigType
         /\ Test.driver \in DriverNames /\ Requested(in, Test.driver)
         /\ Test.hostNet \in BOOLEAN /\ Test.virt \in BOOLEAN /\ Test.cfg.service \in BOOLEAN
  <1>1. in \in Inputs /\ in \in InputType
    BY InputFacts DEF IInv, SetupInv
  <1>2. n \in 1 .. Iterations /\ IsAsked(Test) /\ serverIP = Outcome[2]
    BY <1>1, IterationsTyped DEF IInv, TypeOK, CallInv, InCall
  <1> QED BY <1>1, <1>2, TestTyped DEF ConfigType

\* What the loops ask for, flag by flag.
LEMMA AskedFor ==
  ASSUME in \in Inputs, IsAsked(Test), Test.virt \in BOOLEAN, Test.hostNet \in BOOLEAN
  PROVE  /\ Test.virt => in.vm /\ ~ Test.hostNet /\ ~ in.external
         /\ ~ Test.virt => in.pod
         /\ Test.hostNet => in.host # "no" /\ ~ Test.cfg.service
         /\ ~ Test.hostNet => in.host # "only"
  BY InputFacts DEF IsAsked

LEMMA DeployedIs ==
  /\ Deployed("client") <=> in.external \/ (in.local /\ in.pod)
  /\ Deployed("client-host") <=> ~ in.external /\ in.host # "no" /\ in.pod
  /\ Deployed("server-host") <=> ~ in.external /\ in.host # "no" /\ in.pod
  /\ Deployed("client-across") <=> ~ in.external /\ in.host # "only" /\ in.pod
  /\ Deployed("client-vm") <=> ~ in.external /\ in.host # "only" /\ in.vm
  /\ Deployed("server") <=> ~ in.external /\ (in.host # "only" \/ in.local) /\ in.pod
  /\ Deployed("server-vm") <=> ~ in.external /\ (in.host # "only" \/ in.local) /\ in.vm
  BY DEF Deployed

\* Which networks the server pod and the server VM are on.
LEMMA ServerNetworks ==
  ASSUME in \in Inputs
  PROVE  /\ HostNetwork("server") <=> in.local /\ in.host # "no" /\ ~ in.external
         /\ ~ HostNetwork("server-vm")
         /\ \A w \in in.nets : ~ HostNetwork("server") =>
              (w \notin NetworksOf("server")
                 => (w = "udn" /\ ~ in.fresh) \/ (w \in {"udn", "cudn"} /\ "bridge" \in in.nets))
         /\ "sriov" \in in.nets => "sriov" \in NetworksOf("server-vm")
  <1>1. in.nets \in NetsAccepted
    BY InputFacts
  <1>2. HostNetwork("server") <=> in.local /\ in.host # "no" /\ ~ in.external
    BY DEF HostNetwork
  <1>3. ~ HostNetwork("server-vm")
    BY DEF HostNetwork
  <1>4. ASSUME NEW w \in in.nets, ~ HostNetwork("server"), w \notin NetworksOf("server")
        PROVE  (w = "udn" /\ ~ in.fresh) \/ (w \in {"udn", "cudn"} /\ "bridge" \in in.nets)
    <2>1. NetworksOf("server") = {"default"} \cup NetworkAnnotations("server")
                                   \cup {v \in in.nets : v = "udn" /\ in.fresh}
      BY <1>4 DEF NetworksOf, VMs
    <2>2. w = "udn" => ~ in.fresh
      BY <1>4, <2>1
    <2>3. w \notin FirstOf(<< "bridge", "cudn", "sriov", "macvlan" >>)
      BY <1>4, <2>1 DEF NetworkAnnotations
    <2>4. w # "bridge"
      BY <1>4, <2>3, FirstOfAnnotations
    <2>5. w \in {"sriov", "macvlan"} => FALSE
      BY <1>1, <1>4, <2>3, FirstOfAnnotations DEF NetsAccepted
    <2>6. w = "cudn" => "bridge" \in in.nets
      BY <1>4, <2>3, FirstOfAnnotations
    <2> QED BY <1>1, <1>4, <2>2, <2>4, <2>5, <2>6 DEF NetsAccepted
  <1>5. ASSUME "sriov" \in in.nets PROVE "sriov" \in NetworksOf("server-vm")
    <2>1. NetworksOf("server-vm") = Interfaces
      BY <1>3 DEF NetworksOf, VMs
    <2>2. "bridge" \notin in.nets /\ "udn" \notin in.nets /\ "cudn" \notin in.nets
      BY <1>1, <1>5 DEF NetsAccepted
    <2> QED BY <1>5, <2>1, <2>2, FirstOfInterfaces DEF Interfaces
  <1> QED BY <1>2, <1>3, <1>4, <1>5

\* A test ends the process with an error only for one of the reasons named.
LEMMA FatalCause ==
  ASSUME IInv, pc = "fatal"
  PROVE  \/ ~ in.ipv4 /\ in.nets \cap {"sriov", "bridge", "macvlan"} # {}
         \/ Test.virt /\ "bridge" \in in.nets /\ ~ in.brconf
         \/ in.nets = {"cudn", "bridge"}
         \/ "udn" \in in.nets /\ ~ in.fresh
         \/ in.local /\ in.host # "no"
  <1>1. in \in Inputs /\ n \in 1 .. Iterations /\ Test.virt \in BOOLEAN
    BY CallFacts DEF InCall
  <1>2. Outcome[1] = "fatal"
    BY DEF IInv, CallInv
  <1>3. in.nets \in NetsAccepted /\ in.nets \subseteq Networks
    BY <1>1, InputFacts
  <1>4. ~ ByExternal /\ ~ ByService /\ ~ ByPodIP
    BY <1>2 DEF ByExternal, ByService, ByPodIP
  <1>5. ByBridgeVM => Test.virt /\ "bridge" \in in.nets /\ ~ in.brconf
    BY <1>2 DEF ByBridgeVM
  <1>6. ASSUME NEW w \in in.nets, ByNetwork(w)
        PROVE  \/ ~ in.ipv4 /\ in.nets \cap {"sriov", "bridge", "macvlan"} # {}
               \/ in.nets = {"cudn", "bridge"}
               \/ "udn" \in in.nets /\ ~ in.fresh
               \/ in.local /\ in.host # "no"
    <2> DEFINE p == ServerOn(Test, w)
    <2>1. \/ ~ in.ipv4 /\ w \notin {"udn", "cudn"}
          \/ w \notin NetworksOf(p)
      <3> HIDE DEF p
      <3> QED BY <1>2, <1>6 DEF ByNetwork, p
    <2>2. CASE w \notin {"udn", "cudn"} /\ ~ in.ipv4
      BY <1>3, <2>2 DEF Networks
    <2>3. CASE w \notin NetworksOf(p)
      <3>1. p = "server" \/ (p = "server-vm" /\ Test.virt /\ w \in {"sriov", "bridge"})
        BY DEF ServerOn
      <3>2. w = "bridge" => in.nets = {"bridge"} /\ ~ Test.virt
        BY <1>6 DEF ByNetwork
      <3>3. p = "server"
        BY <1>1, <2>3, <3>1, <3>2, ServerNetworks
      <3>4. \/ in.local /\ in.host # "no"
            \/ w = "udn" /\ ~ in.fresh
            \/ w \in {"udn", "cudn"} /\ "bridge" \in in.nets
        BY <1>1, <2>3, <3>3, ServerNetworks
      <3>5. w = "udn" /\ in.fresh /\ ~ (in.local /\ in.host # "no") => FALSE
        <4>1. ~ HostNetwork("server") => "udn" \in NetworksOf("server") \/ ~ in.fresh
                                         \/ "udn" \notin in.nets
          BY DEF NetworksOf, VMs
        <4> QED BY <1>1, <2>3, <3>3, <4>1, ServerNetworks
      <3> QED BY <1>3, <3>4, <3>5 DEF NetsAccepted
    <2> QED BY <2>1, <2>2, <2>3
  <1> QED BY <1>1, <1>4, <1>5, <1>6, OutcomeCases

LEMMA PanicCause ==
  ASSUME IInv, pc = "panic"
  PROVE  \/ in.nets # {} /\ in.host = "only" /\ ~ in.local
         \/ in.nets \cap {"udn", "cudn"} # {} /\ ~ in.pod
         \/ in.external /\ Test.hostNet
  <1>1. /\ in \in Inputs /\ n \in 1 .. Iterations /\ IsAsked(Test)
        /\ Test.virt \in BOOLEAN /\ Test.hostNet \in BOOLEAN
    BY CallFacts DEF InCall
  <1>2. Outcome[1] = "panic" \/ ~ Deployed(ClientList(Test))
    BY DEF IInv, CallInv
  <1>3. /\ in.nets \in NetsAccepted /\ in.nets \subseteq Networks /\ FlagsAccepted(in)
        /\ Builds(in) /\ in.pod \in BOOLEAN /\ in.local \in BOOLEAN /\ in.external \in BOOLEAN
    BY <1>1, InputFacts
  <1>4. /\ Test.virt => in.vm /\ ~ Test.hostNet /\ ~ in.external
        /\ ~ Test.virt => in.pod
        /\ Test.hostNet => in.host # "no" /\ ~ Test.cfg.service
        /\ ~ Test.hostNet => in.host # "only"
    BY <1>1, AskedFor
  <1>5. CASE Outcome[1] = "panic"
    <2>1. ~ ByExternal /\ ~ ByService /\ ~ ByBridgeVM
      BY <1>5 DEF ByExternal, ByService, ByBridgeVM
    <2>2. ASSUME NEW w \in in.nets, ByNetwork(w)
          PROVE  \/ in.nets # {} /\ in.host = "only" /\ ~ in.local
                 \/ in.nets \cap {"udn", "cudn"} # {} /\ ~ in.pod
      <3> DEFINE p == ServerOn(Test, w)
      <3>1. ~ in.external /\ ~ Deployed(p)
        <4> HIDE DEF p
        <4> QED BY <1>5, <2>2 DEF ByNetwork, p
      <3>2. \/ p = "server" /\ ~ (Test.virt /\ w \in {"sriov", "bridge"})
            \/ p = "server-vm" /\ Test.virt
        BY DEF ServerOn
      <3>3. p = "server"
        BY <1>3, <1>4, <3>1, <3>2, DeployedIs
      <3>4. (in.host = "only" /\ ~ in.local) \/ ~ in.pod
        BY <1>3, <3>1, <3>3, DeployedIs
      <3>5. ~ in.pod => w \in {"udn", "cudn"}
        <4>1. w = "macvlan" => ~ in.vm
          BY <1>3 DEF FlagsAccepted
        <4> QED BY <1>1, <1>3, <1>4, <3>2, <3>3, <4>1 DEF Networks
      <3> QED BY <3>4, <3>5
    <2>3. ~ ByPodIP
      <3> SUFFICES ASSUME ByPodIP PROVE FALSE
        OBVIOUS
      <3> DEFINE p == PodIPOf(Test)
      <3>1. ~ in.external /\ ~ Deployed(p)
        <4> HIDE DEF p
        <4> QED BY <1>5 DEF ByPodIP, p
      <3>2. \/ p = "server-vm" /\ Test.virt
            \/ p = "server-host" /\ ~ Test.virt /\ Test.hostNet
            \/ p = "server" /\ ~ Test.virt /\ (~ Test.hostNet \/ in.local)
        BY <1>1, <1>3 DEF PodIPOf
      <3> QED BY <1>1, <1>3, <1>4, <3>1, <3>2, DeployedIs
    <2> QED BY <1>1, <2>1, <2>2, <2>3, OutcomeCases
  <1>6. CASE ~ Deployed(ClientList(Test))
    <2>1. \/ ClientList(Test) = "client-host" /\ Test.hostNet /\ ~ in.local
          \/ ClientList(Test) = "client" /\ (in.local \/ in.external)
          \/ ClientList(Test) = "client-vm" /\ Test.virt /\ ~ in.local /\ ~ in.external
          \/ /\ ClientList(Test) = "client-across" /\ ~ Test.virt /\ ~ Test.hostNet
             /\ ~ in.local /\ ~ in.external
      BY <1>1, <1>3 DEF ClientList
    <2>2. Test.hostNet => ~ Test.virt
      BY <1>4
    <2>3. ClientList(Test) = "client-host" => in.external /\ Test.hostNet
      BY <1>1, <1>3, <1>4, <1>6, <2>1, <2>2, DeployedIs
    <2>4. ClientList(Test) # "client"
      BY <1>3, <1>6, <2>1, DeployedIs DEF Builds
    <2>5. ClientList(Test) \notin {"client-vm", "client-across"}
      BY <1>1, <1>3, <1>4, <1>6, <2>1, DeployedIs
    <2> QED BY <2>1, <2>3, <2>4, <2>5
  <1> QED BY <1>2, <1>5, <1>6

\* The process ends early - the fatal log of executeWorkload, or an index out of the range of
\* an empty pod list - only for the reasons StopsOnlyWithCause lists.
THEOREM EndsEarlyOnlyWithCause == Spec => []StopsOnlyWithCause
  <1>1. IInv => StopsOnlyWithCause
    BY FatalCause, PanicCause DEF StopsOnlyWithCause
  <1> QED BY <1>1, Invariance, PTL

----------------------------------------------------------------------------
(***************************************************************************)
(* The client's and the server's -D of ib_write_bw.                        *)
(***************************************************************************)
LEMMA LeastIndex ==
  ASSUME NEW S \in SUBSET Nat, S # {}
  PROVE  Min(S) \in S
  <1> DEFINE R == {ss \in Nat \X Nat : ss[1] < ss[2]}
  <1>1. IsWellFoundedOn(R, Nat)
    BY NatLessThanWellFounded, Zenon DEF OpToRel
  <1>2. PICK x \in S : \A y \in S : << y, x >> \notin R
    <2> HIDE DEF R
    <2> QED BY <1>1, WFMin, Zenon
  <1>3. ASSUME NEW y \in S PROVE x =< y
    <2>1. << y, x >> \in Nat \X Nat /\ << y, x >>[1] = y /\ << y, x >>[2] = x
      OBVIOUS
    <2>2. << y, x >> \notin R
      BY <1>2
    <2> QED BY <2>1, <2>2
  <1> QED BY <1>3 DEF Min

\* ib_write_bw runs between pods on the host network only, with a UDP_STREAM profile.
LEMMA IbRuns ==
  ASSUME IInv, InCall, Test.driver = "ib_write_bw"
  PROVE  in.nets = {} /\ ~ Test.virt /\ Test.hostNet
  <1>1. /\ in \in Inputs /\ IsAsked(Test) /\ Requested(in, "ib_write_bw")
        /\ Test.virt \in BOOLEAN /\ Test.hostNet \in BOOLEAN
    BY CallFacts
  <1>2. in.host = "only" /\ ~ in.vm /\ in.nets = {}
    BY <1>1, InputFacts DEF FlagsAccepted
  <1> QED BY <1>1, <1>2, AskedFor

LEMMA DurationsAgree == IInv => SameDuration
  <1> SUFFICES ASSUME IInv, pc = "contact", Test.driver = "ib_write_bw", serverIP.kind = "pod"
               PROVE  \/ listening[serverIP.of].duration = Test.cfg.duration
                      \/ \E j, k \in DOMAIN in.configs :
                           /\ in.configs[j].profile.name = "UDP_STREAM"
                           /\ in.configs[k].profile.name = "UDP_STREAM"
                           /\ in.configs[j].duration # in.configs[k].duration
    BY DEF SameDuration, Running
  <1>1. /\ in \in Inputs /\ in \in InputType /\ n \in 1 .. Iterations /\ serverIP = Outcome[2]
        /\ in.nets = {}
    BY CallFacts, IbRuns DEF InCall
  <1>2. PICK c \in DOMAIN in.configs : Test.cfg = in.configs[c]
    BY CallFacts DEF InCall
  <1>3. Outcome[1] = "ok" /\ in.configs[c].profile.name = "UDP_STREAM"
    BY <1>2 DEF IInv, CallInv, IsTestSupported, IsTestSupportedIbWriteBw
  <1>4. ByPodIP
    <2>1. ~ ByExternal /\ ~ ByService
      BY <1>1 DEF ByExternal, ByService
    <2>2. ~ ByBridgeVM
      BY <1>1 DEF ByBridgeVM
    <2> QED BY <1>1, <2>1, <2>2, OutcomeCases
  <1> DEFINE p == PodIPOf(Test)
             v == IF HostNetwork(p) THEN "host" ELSE "default"
  <1>5. ~ in.external /\ Deployed(p) /\ serverIP = At(p, v)
    <2> HIDE DEF p, v
    <2> QED BY <1>1, <1>3, <1>4 DEF ByPodIP, p, v
  <1>6. serverIP.of = p
    <2> HIDE DEF p, v
    <2> QED BY <1>5, AtFields
  <1>7. p \in Servers
    BY DEF PodIPOf, Servers
  <1>8. listening[p].duration = IbDuration
    <2> HIDE DEF p
    <2> QED BY <1>5, <1>7 DEF IInv, SetupInv
  <1> DEFINE ks == {k \in DOMAIN in.configs : in.configs[k].profile.name = "UDP_STREAM"}
  <1>9. ks \in SUBSET Nat /\ c \in ks
    BY <1>1, <1>2, <1>3 DEF InputType
  <1>10. IbDuration = DurationOf(ks)
    BY DEF IbDuration
  <1>11. \A k \in ks : k \in DOMAIN in.configs /\ in.configs[k].profile.name = "UDP_STREAM"
    OBVIOUS
  <1> HIDE DEF ks
  <1>12. Min(ks) \in ks /\ IbDuration = in.configs[Min(ks)].duration
    BY <1>9, <1>10, LeastIndex DEF DurationOf
  <1> QED BY <1>2, <1>3, <1>6, <1>8, <1>11, <1>12

\* "perftest requires server and client to use identical -D values": SameDuration.
THEOREM PerftestDurations == Spec => []SameDuration
  BY DurationsAgree, Invariance, PTL

----------------------------------------------------------------------------
(***************************************************************************)
(* The networks of the client.                                             *)
(***************************************************************************)

\* A client that is not on the host network is on the networks of the server pod.
LEMMA ClientNetworks ==
  ASSUME ~ HostNetwork("server")
  PROVE  /\ NetworksOf("client-across") = NetworksOf("server")
         /\ NetworksOf("client") = NetworksOf("server")
  <1>1. ~ HostNetwork("client") /\ ~ HostNetwork("client-across")
    BY DEF HostNetwork
  <1>2. /\ NetworkAnnotations("client") = NetworkAnnotations("server")
        /\ NetworkAnnotations("client-across") = NetworkAnnotations("server")
    BY DEF NetworkAnnotations
  <1> QED BY <1>1, <1>2 DEF NetworksOf, VMs

LEMMA NetworksOfVMs ==
  ASSUME in \in Inputs
  PROVE  /\ NetworksOf("server-vm") = Interfaces /\ NetworksOf("client-vm") = Interfaces
         /\ in.nets = {"bridge"} /\ in.brconf => "bridge" \in Interfaces
         /\ \A w \in {"udn", "cudn", "sriov"} :
              w \in in.nets /\ "bridge" \notin in.nets => w \in Interfaces
  <1>1. in.nets \in NetsAccepted
    BY InputFacts
  <1>2. ~ HostNetwork("server-vm") /\ ~ HostNetwork("client-vm")
    BY DEF HostNetwork
  <1>3. NetworksOf("server-vm") = Interfaces /\ NetworksOf("client-vm") = Interfaces
    BY <1>2 DEF NetworksOf, VMs
  <1>4. in.nets = {"bridge"} /\ in.brconf => "bridge" \in Interfaces
    BY DEF Interfaces
  <1>5. ASSUME NEW w \in {"udn", "cudn", "sriov"}, w \in in.nets, "bridge" \notin in.nets
        PROVE  w \in Interfaces
    <2>1. in.nets = {w}
      BY <1>1, <1>5 DEF NetsAccepted
    <2>2. CASE w = "udn"
      BY <2>1, <2>2 DEF Interfaces
    <2>3. CASE w # "udn"
      <3>1. Interfaces = {"default"} \cup FirstOf(<< "cudn", "sriov" >>)
        BY <1>5, <2>1, <2>3 DEF Interfaces
      <3> QED BY <1>5, <2>1, <2>3, <3>1, FirstOfInterfaces
    <2> QED BY <2>2, <2>3
  <1> QED BY <1>3, <1>4, <1>5

LEMMA OneNetwork == IInv => OnOneNetwork
  <1> SUFFICES ASSUME IInv, pc = "contact", serverIP.kind = "pod",
                      serverIP.net \notin {"default", "host"}
               PROVE  \/ /\ serverIP.net \in NetworksOf(serverIP.of)
                         /\ serverIP.net \in NetworksOf(ClientOf(Test))
                      \/ Test.hostNet
                      \/ Test.virt /\ serverIP.net \in {"udn", "cudn"} /\ "bridge" \in in.nets
    BY DEF OnOneNetwork, Running
  <1>1. /\ in \in Inputs /\ n \in 1 .. Iterations /\ serverIP = Outcome[2] /\ IsAsked(Test)
        /\ Test.virt \in BOOLEAN /\ Test.hostNet \in BOOLEAN
    BY CallFacts DEF InCall
  <1>2. Outcome[1] = "ok"
    BY DEF IInv, CallInv
  <1>3. /\ in.nets \in NetsAccepted /\ in.nets \subseteq Networks /\ FlagsAccepted(in)
        /\ in.local \in BOOLEAN /\ in.external \in BOOLEAN
    BY <1>1, InputFacts
  <1>4. /\ Test.virt => in.vm /\ ~ Test.hostNet /\ ~ in.external
        /\ ~ Test.hostNet => in.host # "only"
    BY <1>1, AskedFor
  <1>5. Test.virt => ClientOf(Test) = "client-vm"
    BY DEF ClientOf
  <1>6. ~ ByExternal /\ ~ ByService
    BY <1>1 DEF ByExternal, ByService
  <1>7. CASE ByBridgeVM
    <2>1. in.brconf /\ Test.virt /\ in.nets = {"bridge"} /\ serverIP = At("server-vm", "bridge")
      BY <1>1, <1>2, <1>7 DEF ByBridgeVM
    <2>2. serverIP.of = "server-vm" /\ serverIP.net = "bridge"
      BY <2>1, AtFields
    <2> QED BY <1>1, <1>5, <2>1, <2>2, NetworksOfVMs
  <1>8. ASSUME NEW w \in in.nets, ByNetwork(w)
        PROVE  \/ /\ serverIP.net \in NetworksOf(serverIP.of)
                  /\ serverIP.net \in NetworksOf(ClientOf(Test))
               \/ Test.hostNet
               \/ Test.virt /\ serverIP.net \in {"udn", "cudn"} /\ "bridge" \in in.nets
    <2> DEFINE p == ServerOn(Test, w)
    <2>1. serverIP # NilAddress
      <3>1. NilAddress.kind # "pod"
        BY DEF NilAddress
      <3> QED BY <3>1
    <2>2. ~ in.external /\ Deployed(p) /\ w \in NetworksOf(p) /\ serverIP = At(p, w)
      <3> HIDE DEF p
      <3> QED BY <1>1, <1>2, <1>8, <2>1 DEF ByNetwork, p
    <2>3. serverIP.of = p /\ serverIP.net = w
      <3> HIDE DEF p
      <3> QED BY <2>2, AtFields
    <2>4. CASE Test.virt
      <3>1. w # "bridge" /\ w # "macvlan" /\ w \in Networks
        BY <1>3, <1>4, <1>8, <2>4 DEF ByNetwork, FlagsAccepted
      <3>2. "bridge" \in in.nets => w \in {"udn", "cudn"}
        BY <1>3, <3>1 DEF NetsAccepted
      <3>3. "bridge" \notin in.nets => w \in NetworksOf("client-vm")
        BY <1>1, <3>1, NetworksOfVMs DEF Networks
      <3> HIDE DEF p
      <3> QED BY <1>5, <2>2, <2>3, <2>4, <3>2, <3>3
    <2>5. CASE ~ Test.virt /\ ~ Test.hostNet
      <3>1. p = "server"
        BY <2>5 DEF ServerOn
      <3>2. ClientOf(Test) \in {"client", "client-across"}
        BY <2>5 DEF ClientOf, ClientList
      <3>3. ~ HostNetwork("server")
        BY <1>3, <2>2, <3>1 DEF NetworksOf, Networks
      <3> HIDE DEF p
      <3> QED BY <2>2, <2>3, <3>1, <3>2, <3>3, ClientNetworks
    <2> QED BY <1>1, <2>4, <2>5
  <1>9. ~ ByPodIP
    <2> SUFFICES ASSUME ByPodIP PROVE FALSE
      OBVIOUS
    <2> DEFINE p == PodIPOf(Test)
               v == IF HostNetwork(p) THEN "host" ELSE "default"
    <2>1. serverIP = At(p, v)
      <3> HIDE DEF p, v
      <3> QED BY <1>1, <1>2 DEF ByPodIP, p, v
    <2>2. v \in {"default", "host"}
      OBVIOUS
    <2> HIDE DEF p, v
    <2> QED BY <2>1, <2>2, AtFields
  <1> QED BY <1>1, <1>6, <1>7, <1>8, <1>9, OutcomeCases

\* When the address is one of a secondary or user-defined network, client and server are both
\* attached to it: OnOneNetwork.
THEOREM ClientAndServerOnOneNetwork == Spec => []OnOneNetwork
  BY OneNetwork, Invariance, PTL

----------------------------------------------------------------------------
(***************************************************************************)
(* Who answers.                                                            *)
(***************************************************************************)

\* What the address of a running test can be: the outside server; a Service; "<nil>"; or the
\* address of a server that was deployed.
LEMMA AddressCases ==
  ASSUME IInv, pc = "contact"
  PROVE  \/ serverIP.kind = "external" /\ in.external
         \/ /\ serverIP.kind = "service" /\ ~ in.external /\ Test.cfg.service
            /\ serverIP.of = ServiceOf(Test)
         \/ serverIP.kind = "<nil>" /\ ~ in.ipv4 /\ in.nets \cap {"udn", "cudn"} # {}
         \/ /\ serverIP.kind = "pod" /\ ~ in.external /\ ~ Test.cfg.service
            /\ serverIP.of \in Servers /\ Deployed(serverIP.of)
            /\ \/ serverIP.of = "server-vm" /\ Test.virt
               \/ serverIP.of = "server" /\ Test.virt /\ in.nets \cap {"udn", "cudn"} # {}
               \/ serverIP.of = "server" /\ ~ Test.virt /\ in.nets # {}
               \/ serverIP.of = PodIPOf(Test) /\ ~ Test.virt
  <1>1. /\ in \in Inputs /\ n \in 1 .. Iterations /\ serverIP = Outcome[2] /\ IsAsked(Test)
        /\ Test.virt \in BOOLEAN /\ Test.hostNet \in BOOLEAN
    BY CallFacts DEF InCall
  <1>2. Outcome[1] = "ok"
    BY DEF IInv, CallInv
  <1>3. in.nets \subseteq Networks /\ FlagsAccepted(in)
    BY <1>1, InputFacts
  <1>4. /\ Test.virt => in.vm /\ ~ Test.hostNet /\ ~ in.external
        /\ ~ Test.hostNet => in.host # "only"
    BY <1>1, AskedFor
  <1>5. CASE ByExternal
    BY <1>1, <1>5 DEF ByExternal
  <1>6. CASE ByService
    <2> DEFINE sv == ServiceOf(Test)
    <2>1. ~ in.external /\ Test.cfg.service
          /\ serverIP = [kind |-> "service", of |-> sv, net |-> "default"]
      BY <1>1, <1>6 DEF ByService
    <2> HIDE DEF sv
    <2>2. serverIP.kind = "service" /\ serverIP.of = sv
      BY <2>1
    <2> QED BY <2>1, <2>2 DEF sv
  <1>7. CASE ByBridgeVM
    <2>1. Test.virt /\ ~ in.external /\ ~ Test.cfg.service /\ serverIP = At("server-vm", "bridge")
      BY <1>1, <1>7 DEF ByBridgeVM
    <2>2. Deployed("server-vm")
      BY <1>4, <2>1, DeployedIs
    <2>3. serverIP.kind = "pod" /\ serverIP.of = "server-vm"
      BY <2>1, AtFields
    <2> QED BY <2>1, <2>2, <2>3 DEF Servers
  <1>8. ASSUME NEW w \in in.nets, ByNetwork(w)
        PROVE  \/ serverIP.kind = "<nil>" /\ ~ in.ipv4 /\ in.nets \cap {"udn", "cudn"} # {}
               \/ /\ serverIP.kind = "pod" /\ ~ in.external /\ ~ Test.cfg.service
                  /\ serverIP.of \in Servers /\ Deployed(serverIP.of)
                  /\ \/ serverIP.of = "server-vm" /\ Test.virt
                     \/ serverIP.of = "server" /\ Test.virt /\ in.nets \cap {"udn", "cudn"} # {}
                     \/ serverIP.of = "server" /\ ~ Test.virt /\ in.nets # {}
    <2> DEFINE p == ServerOn(Test, w)
    <2>1. /\ ~ in.external /\ ~ Test.cfg.service /\ Deployed(p)
          /\ \/ serverIP = At(p, w)
             \/ serverIP = NilAddress /\ ~ in.ipv4 /\ w \in {"udn", "cudn"}
      <3> HIDE DEF p
      <3> QED BY <1>1, <1>2, <1>8 DEF ByNetwork, p
    <2>2. \/ p = "server-vm" /\ Test.virt
          \/ p = "server" /\ ~ (Test.virt /\ w \in {"sriov", "bridge"})
      BY DEF ServerOn
    <2>3. Test.virt => w # "macvlan"
      BY <1>3, <1>4 DEF FlagsAccepted
    <2>4. p = "server" /\ Test.virt => w \in {"udn", "cudn"}
      BY <1>3, <2>2, <2>3 DEF Networks
    <2>5. p \in Servers
      BY <2>2 DEF Servers
    <2> HIDE DEF p
    <2>6. CASE serverIP = At(p, w)
      <3>1. serverIP.kind = "pod" /\ serverIP.of = p
        BY <2>6, AtFields
      <3>2. in.nets # {} /\ (w \in {"udn", "cudn"} => in.nets \cap {"udn", "cudn"} # {})
        OBVIOUS
      <3> QED BY <1>1, <2>1, <2>2, <2>4, <2>5, <3>1, <3>2
    <2>7. CASE serverIP = NilAddress /\ ~ in.ipv4 /\ w \in {"udn", "cudn"}
      <3>1. serverIP.kind = "<nil>"
        BY <2>7 DEF NilAddress
      <3> QED BY <2>7, <3>1
    <2> QED BY <2>1, <2>6, <2>7
  <1>9. CASE ByPodIP
    <2> DEFINE p == PodIPOf(Test)
               v == IF HostNetwork(p) THEN "host" ELSE "default"
    <2>1. ~ in.external /\ ~ Test.cfg.service /\ Deployed(p) /\ serverIP = At(p, v)
      <3> HIDE DEF p, v
      <3> QED BY <1>1, <1>2, <1>9 DEF ByPodIP, p, v
    <2>2. p \in Servers /\ (Test.virt => p = "server-vm")
      BY DEF PodIPOf, Servers
    <2>3. serverIP.kind = "pod" /\ serverIP.of = p
      <3> HIDE DEF p, v
      <3> QED BY <2>1, AtFields
    <2> QED BY <1>1, <2>1, <2>2, <2>3
  <1> QED BY <1>1, <1>5, <1>6, <1>7, <1>8, <1>9, OutcomeCases

\* A Service of a test's name stands before the server of its kind.
LEMMA BackendOf ==
  ASSUME in \in InputType, NEW t, t.virt \in BOOLEAN, NEW s \in AllServices, s.name = ServiceOf(t)
  PROVE  s.backend = IF t.virt THEN "server-vm" ELSE "server"
  <1>1. PICK k \in DOMAIN in.drivers, v \in BOOLEAN : s \in ServicesFor(in.drivers[k], v)
    BY DEF AllServices
  <1>2. in.drivers[k] \in DriverNames
    BY DEF InputType
  <1>3. s.backend = (IF v THEN "server-vm" ELSE "server") /\ s.name[2] = v
    BY <1>1, <1>2, ServicesTyped
  <1>4. s.name[2] = t.virt
    BY DEF ServiceOf
  <1> QED BY <1>3, <1>4

\* Every driver but ib_write_bw has its Service, and what it forwards.
LEMMA ServiceThere ==
  ASSUME in \in InputType, NEW t, t.virt \in BOOLEAN, Requested(in, t.driver),
         IF t.virt THEN in.vm ELSE in.pod,
         t.driver \in {"netperf", "uperf", "iperf3"}
  PROVE  \E s \in AllServices :
           /\ s.name = ServiceOf(t)
           /\ t.driver = "netperf" => s.ports = {NetperfServerCtlPort} \cup NetperfDataPorts
           /\ t.driver = "iperf3"  => IperfServerCtlPort \in s.ports
           /\ t.driver = "uperf"   => UperfServerCtlPort \in s.ports
           /\ t.driver = "uperf" /\ ~ t.virt => UperfServerDataPort \in s.ports
  <1> DEFINE b == IF t.virt THEN "server-vm" ELSE "server"
             nm == ServiceOf(t)
  <1>1. PICK k \in DOMAIN in.drivers : in.drivers[k] = t.driver
    BY DEF Requested
  <1>2. t.virt \in {v \in BOOLEAN : IF v THEN in.vm ELSE in.pod}
    OBVIOUS
  <1>3. \A s \in ServicesFor(t.driver, t.virt) : s \in AllServices
    BY <1>1, <1>2 DEF AllServices
  <1>4. \A nn, bb, ctl, data :
           /\ Service(nn, bb, ctl, data).name = nn
           /\ Service(nn, bb, ctl, data).ports = {ctl} \cup data
    BY DEF Service
  <1>5. CASE t.driver = "netperf"
    <2>1. Service(<< "netperf", t.virt >>, b, NetperfServerCtlPort, NetperfDataPorts)
            \in ServicesFor("netperf", t.virt)
      BY DEF ServicesFor
    <2>2. nm = << "netperf", t.virt >>
      BY <1>5 DEF ServiceOf
    <2> QED BY <1>3, <1>4, <1>5, <2>1, <2>2
  <1>6. CASE t.driver = "iperf3"
    <2> DEFINE data == {IF t.virt THEN IperfVmServerDataPort ELSE IperfServerDataPort}
    <2>1. Service(<< "iperf", t.virt >>, b, IperfServerCtlPort, data)
            \in ServicesFor("iperf3", t.virt)
      BY DEF ServicesFor
    <2>2. nm = << "iperf", t.virt >>
      BY <1>6 DEF ServiceOf
    <2> HIDE DEF data
    <2> QED BY <1>3, <1>4, <1>6, <2>1, <2>2
  <1>7. CASE t.driver = "uperf"
    <2> DEFINE data == {IF t.virt THEN UperfVmServerDataPort ELSE UperfServerDataPort}
    <2>1. Service(<< "uperf", t.virt >>, b, UperfServerCtlPort, data)
            \in ServicesFor("uperf", t.virt)
      BY DEF ServicesFor
    <2>2. nm = << "uperf", t.virt >>
      BY <1>7 DEF ServiceOf
    <2>3. ~ t.virt => UperfServerDataPort \in data
      OBVIOUS
    <2> HIDE DEF data
    <2> QED BY <1>3, <1>4, <1>7, <2>1, <2>2, <2>3
  <1> QED BY <1>5, <1>6, <1>7

\* A test through a Service: its drivers, and that it is of the pod network.
LEMMA ServiceRuns ==
  ASSUME IInv, pc = "contact", serverIP.kind = "service"
  PROVE  /\ ~ in.external /\ Test.cfg.service /\ serverIP.of = ServiceOf(Test)
         /\ services = AllServices /\ ~ Test.hostNet /\ in.host # "only"
         /\ Test.driver \in {"netperf", "uperf", "iperf3"}
         /\ IF Test.virt THEN in.vm ELSE in.pod
         /\ Deployed(IF Test.virt THEN "server-vm" ELSE "server")
  <1>1. /\ in \in Inputs /\ IsAsked(Test) /\ Test.driver \in DriverNames
        /\ Test.virt \in BOOLEAN /\ Test.hostNet \in BOOLEAN /\ Test.cfg.service \in BOOLEAN
    BY CallFacts DEF InCall
  <1>2. ~ in.external /\ Test.cfg.service /\ serverIP.of = ServiceOf(Test)
    BY AddressCases
  <1>3. services = AllServices
    BY <1>2 DEF IInv, SetupInv
  <1>4. ~ Test.hostNet /\ in.host # "only"
    BY <1>1, <1>2, AskedFor
  <1>5. Test.driver # "ib_write_bw"
    BY <1>4, IbRuns DEF InCall
  <1>6. IF Test.virt THEN in.vm ELSE in.pod
    BY <1>1, AskedFor
  <1>7. Deployed(IF Test.virt THEN "server-vm" ELSE "server")
    BY <1>1, <1>2, <1>4, <1>6, DeployedIs
  <1> QED BY <1>1, <1>2, <1>3, <1>4, <1>5, <1>6, <1>7 DEF DriverNames

\* Who is reached through a Service.
LEMMA ReachedByService ==
  ASSUME IInv, pc = "contact", serverIP.kind = "service"
  PROVE  Reached = {IF Test.virt THEN "server-vm" ELSE "server"}
  <1> DEFINE b == IF Test.virt THEN "server-vm" ELSE "server"
  <1>1. in \in InputType /\ Test.virt \in BOOLEAN /\ Requested(in, Test.driver)
    BY CallFacts DEF InCall
  <1>2. /\ serverIP.of = ServiceOf(Test) /\ services = AllServices
        /\ Test.driver \in {"netperf", "uperf", "iperf3"}
        /\ IF Test.virt THEN in.vm ELSE in.pod
    BY ServiceRuns
  <1>3. \A s \in AllServices : s.name = ServiceOf(Test) => s.backend = b
    BY <1>1, BackendOf
  <1>4. \E s \in AllServices : s.name = ServiceOf(Test)
    BY <1>1, <1>2, ServiceThere
  <1> HIDE DEF b
  <1>5. Reached = {b}
    BY <1>2, <1>3, <1>4 DEF Reached
  <1> QED BY <1>5 DEF b

\* The listener of a deployed server.
LEMMA Listens ==
  ASSUME IInv, pc = "contact", ~ in.external, NEW p \in Servers, Deployed(p),
         ~ (IsTCPStreamLat(Test.cfg.profile) /\ Test.virt), p = "server-vm" => Test.virt
  PROVE  CtlPort(Test) \in listening[p].ports
  <1>1. /\ Test.driver \in DriverNames /\ Requested(in, Test.driver) /\ Test.virt \in BOOLEAN
    BY CallFacts DEF InCall
  <1>2. listening[p].ports = ServerPorts(p)
    BY DEF IInv, SetupInv
  <1>3. PICK c \in DOMAIN in.configs : Test.cfg = in.configs[c]
    BY CallFacts DEF InCall
  <1>4. IsTCPStreamLat(Test.cfg.profile) => NeedsHistogram
    BY <1>3 DEF NeedsHistogram
  <1>5. CASE p = "server-vm"
    <2>1. Test.driver # "ib_write_bw" /\ ~ IsTCPStreamLat(Test.cfg.profile)
      BY <1>5, IbRuns DEF InCall
    <2>2. ServerPorts(p) = {UperfServerCtlPort, IperfServerCtlPort, NetperfServerCtlPort}
      BY <1>5 DEF ServerPorts, VMs
    <2> QED BY <1>1, <1>2, <2>1, <2>2 DEF CtlPort, DriverNames
  <1>6. CASE p # "server-vm"
    <2>1. p \notin VMs
      BY <1>6 DEF Servers, VMs
    <2>2. CASE Test.driver = "uperf"
      BY <1>1, <1>2, <1>4, <2>1, <2>2 DEF CtlPort, ServerPorts
    <2>3. CASE Test.driver # "uperf"
      BY <1>1, <1>2, <2>1, <2>3 DEF CtlPort, ServerPorts, DriverNames
    <2> QED BY <2>2, <2>3
  <1> QED BY <1>5, <1>6

LEMMA Answers == IInv => SomethingAnswers
  <1> DEFINE Lat == IsTCPStreamLat(Test.cfg.profile)
             Exc == \/ Lat /\ (Test.cfg.service \/ Test.virt)
                    \/ Test.driver = "uperf" /\ Test.cfg.service /\ Test.virt
                    \/ Test.driver = "netperf" /\ Test.cfg.service /\ Test.cfg.streams > 16
             Nil == serverIP.kind = "<nil>" /\ ~ in.ipv4 /\ in.nets \cap {"udn", "cudn"} # {}
             Ans == /\ serverIP.kind # "<nil>"
                    /\ \A p \in Reached : CtlPort(Test) \in listening[p].ports
                    /\ serverIP.kind = "service" =>
                         \E s \in services : /\ s.name = serverIP.of
                                             /\ {CtlPort(Test)} \cup DataPorts(Test) \subseteq s.ports
  <1> SUFFICES ASSUME IInv, pc = "contact", serverIP.kind # "external", ~ Exc
               PROVE  Ans \/ Nil
    BY DEF SomethingAnswers, Running
  <1>1. /\ in \in Inputs /\ in \in InputType /\ Requested(in, Test.driver)
        /\ Test.virt \in BOOLEAN /\ Test.cfg \in ConfigType
    BY CallFacts DEF InCall
  <1>2. CASE serverIP.kind = "<nil>"
    BY <1>2, AddressCases
  <1>3. CASE serverIP.kind = "pod"
    <2>1. /\ ~ in.external /\ serverIP.of \in Servers /\ Deployed(serverIP.of)
          /\ serverIP.of = "server-vm" => Test.virt
      BY <1>3, AddressCases DEF PodIPOf
    <2>2. Reached = {serverIP.of}
      BY <1>3 DEF Reached
    <2>3. CtlPort(Test) \in listening[serverIP.of].ports
      BY <2>1, Listens
    <2> QED BY <1>3, <2>2, <2>3
  <1>4. CASE serverIP.kind = "service"
    <2> DEFINE b == IF Test.virt THEN "server-vm" ELSE "server"
    <2>1. /\ ~ in.external /\ Test.cfg.service /\ serverIP.of = ServiceOf(Test)
          /\ services = AllServices /\ Test.driver \in {"netperf", "uperf", "iperf3"}
          /\ IF Test.virt THEN in.vm ELSE in.pod
          /\ Deployed(b)
      BY <1>4, ServiceRuns
    <2>2. Reached = {b}
      BY <1>4, ReachedByService
    <2>3. b \in Servers /\ (b = "server-vm" => Test.virt)
      BY DEF Servers
    <2>4. ~ Lat
      BY <2>1
    <2>5. CtlPort(Test) \in listening[b].ports
      <3> HIDE DEF b
      <3> QED BY <2>1, <2>3, <2>4, Listens
    <2>6. PICK s \in AllServices :
           /\ s.name = ServiceOf(Test)
           /\ Test.driver = "netperf" => s.ports = {NetperfServerCtlPort} \cup NetperfDataPorts
           /\ Test.driver = "iperf3"  => IperfServerCtlPort \in s.ports
           /\ Test.driver = "uperf"   => UperfServerCtlPort \in s.ports
           /\ Test.driver = "uperf" /\ ~ Test.virt => UperfServerDataPort \in s.ports
      BY <1>1, <2>1, ServiceThere
    <2>7. {CtlPort(Test)} \cup DataPorts(Test) \subseteq s.ports
      <3>1. CASE Test.driver = "netperf"
        <4>1. Test.cfg.streams \in Nat /\ Test.cfg.streams <= 16
          BY <1>1, <2>1, <3>1 DEF ConfigType
        <4>2. DataPorts(Test) = NetperfServerDataPort .. NetperfServerDataPort + Test.cfg.streams - 1
          BY <3>1 DEF DataPorts
        <4>3. DataPorts(Test) \subseteq NetperfDataPorts
          <5> DEFINE m == Test.cfg.streams
          <5>1. m \in Nat /\ m <= 16
            BY <4>1
          <5> HIDE DEF m
          <5>2. \A x \in 42424 .. 42424 + m - 1 : x \in 42424 .. 42424 + 15
            BY <5>1
          <5> QED BY <4>2, <5>2 DEF NetperfDataPorts, NetperfServerDataPort, m
        <4>4. CtlPort(Test) = NetperfServerCtlPort
          BY <3>1 DEF CtlPort
        <4> QED BY <2>6, <3>1, <4>3, <4>4
      <3>2. CASE Test.driver = "iperf3"
        <4>1. CtlPort(Test) = IperfServerCtlPort /\ DataPorts(Test) = {}
          BY <3>2 DEF CtlPort, DataPorts
        <4> QED BY <2>6, <3>2, <4>1
      <3>3. CASE Test.driver = "uperf"
        <4>1. ~ Test.virt
          BY <2>1, <3>3
        <4>2. ProfileRead(Test).port = UperfServerDataPort
          BY <2>4, <3>3 DEF IInv, FileInv, FileContent
        <4>3. CtlPort(Test) = UperfServerCtlPort /\ DataPorts(Test) = {UperfServerDataPort}
          BY <2>4, <3>3, <4>2 DEF CtlPort, DataPorts
        <4> QED BY <2>6, <3>3, <4>1, <4>3
      <3> QED BY <2>1, <3>1, <3>2, <3>3
    <2>8. \E q \in services : /\ q.name = serverIP.of
                              /\ {CtlPort(Test)} \cup DataPorts(Test) \subseteq q.ports
      BY <2>1, <2>6, <2>7
    <2> HIDE DEF b
    <2> QED BY <1>4, <2>2, <2>5, <2>8
  <1> QED BY <1>2, <1>3, <1>4, AddressCases

\* A client never calls a port nobody listens on, or that a Service does not forward:
\* SomethingAnswers.
THEOREM EveryCallIsAnswered == Spec => []SomethingAnswers
  BY Answers, Invariance, PTL

LEMMA AsLabelled == IInv => MeasuresAsLabelled
  <1> SUFFICES ASSUME IInv, pc = "contact", serverIP.kind \in {"pod", "service"}
               PROVE  /\ \/ ("server-vm" \in Reached) = Test.virt
                         \/ Test.virt /\ ~ Test.cfg.service /\ in.nets \cap {"udn", "cudn"} # {}
                      /\ \/ \A p \in Reached : HostNetwork(p) = Test.hostNet
                         \/ Test.hostNet /\ in.nets # {}
                         \/ in.local /\ in.host = "all"
    BY DEF MeasuresAsLabelled, Running
  <1>1. /\ in \in Inputs /\ IsAsked(Test)
        /\ Test.virt \in BOOLEAN /\ Test.hostNet \in BOOLEAN
    BY CallFacts DEF InCall
  <1>2. /\ Test.virt => in.vm /\ ~ Test.hostNet /\ ~ in.external
        /\ Test.hostNet => in.host # "no"
        /\ ~ Test.hostNet => in.host # "only"
    BY <1>1, AskedFor
  <1>3. in.host \in {"no", "all", "only"} /\ in.local \in BOOLEAN
    BY <1>1, InputFacts
  <1>4. PICK q : /\ Reached = {q}
                 /\ \/ q = "server-vm" /\ Test.virt
                    \/ /\ q = "server" /\ Test.virt /\ ~ Test.cfg.service
                       /\ in.nets \cap {"udn", "cudn"} # {}
                    \/ q = "server" /\ ~ Test.virt /\ in.nets # {}
                    \/ q = "server" /\ ~ Test.virt /\ ~ Test.hostNet
                    \/ q = PodIPOf(Test) /\ ~ Test.virt /\ ~ in.external
    <2>1. CASE serverIP.kind = "service"
      BY <1>1, <2>1, ReachedByService, ServiceRuns
    <2>2. CASE serverIP.kind = "pod"
      <3>1. Reached = {serverIP.of}
        BY <2>2 DEF Reached
      <3> QED BY <2>2, <3>1, AddressCases
    <2> QED BY <2>1, <2>2
  <1>5. q = PodIPOf(Test) /\ ~ Test.virt =>
           q = (IF Test.hostNet /\ ~ in.local THEN "server-host" ELSE "server")
    BY DEF PodIPOf
  <1>6. \/ ("server-vm" \in Reached) = Test.virt
        \/ Test.virt /\ ~ Test.cfg.service /\ in.nets \cap {"udn", "cudn"} # {}
    <2>1. "server-vm" \in Reached <=> q = "server-vm"
      BY <1>4
    <2>2. CASE Test.virt
      BY <1>4, <2>1, <2>2
    <2>3. CASE ~ Test.virt
      <3>1. q # "server-vm"
        BY <1>4, <1>5, <2>3
      <3>2. ("server-vm" \in Reached) = FALSE
        BY <2>1, <3>1
      <3>3. Test.virt = FALSE
        BY <1>1, <2>3
      <3> QED BY <3>2, <3>3
    <2> QED BY <2>2, <2>3
  <1>7. \/ \A p \in Reached : HostNetwork(p) = Test.hostNet
        \/ Test.hostNet /\ in.nets # {}
        \/ in.local /\ in.host = "all"
    <2> SUFFICES ASSUME ~ (Test.hostNet /\ in.nets # {}), ~ (in.local /\ in.host = "all")
                 PROVE  HostNetwork(q) = Test.hostNet
      BY <1>4
    <2>1. CASE ~ Test.hostNet
      <3>1. ~ HostNetwork("server") /\ ~ HostNetwork("server-vm")
        BY <1>1, <1>2, <1>3, <2>1, ServerNetworks
      <3>2. q \in {"server", "server-vm"}
        BY <1>4, <1>5, <2>1
      <3>3. HostNetwork(q) = FALSE
        BY <3>1, <3>2 DEF HostNetwork
      <3>4. Test.hostNet = FALSE
        BY <1>1, <2>1
      <3> QED BY <3>3, <3>4
    <2>2. CASE Test.hostNet
      <3>1. ~ Test.virt /\ q = PodIPOf(Test) /\ ~ in.external
        BY <1>2, <1>4, <2>2
      <3>2. HostNetwork("server-host")
        BY DEF HostNetwork
      <3>3. in.local => HostNetwork("server")
        BY <1>1, <1>2, <2>2, <3>1, ServerNetworks
      <3>4. HostNetwork(q)
        BY <1>5, <2>2, <3>1, <3>2, <3>3
      <3>5. HostNetwork(q) = TRUE
        BY <3>4 DEF HostNetwork
      <3>6. Test.hostNet = TRUE
        BY <1>1, <2>2
      <3> QED BY <3>5, <3>6
    <2> QED BY <1>1, <2>1, <2>2
  <1> QED BY <1>6, <1>7

\* A result is of the server its labels Virt and HostNetwork name: MeasuresAsLabelled.
THEOREM ResultIsOfItsLabel == Spec => []MeasuresAsLabelled
  BY AsLabelled, Invariance, PTL

=============================================================================
