------------------------------ MODULE Endpoint ------------------------------
(***************************************************************************)
(* What answers where the client of a test calls: the Services, server     *)
(* commands and network annotations BuildSUT makes (pkg/k8s/kubernetes.go  *)
(* 610-1182), the address executeWorkload picks (k8s-netperf.go 745-857),  *)
(* and the ports the drivers' Run put on the command line (pkg/drivers).   *)
(* These places agree on port numbers, network names and orders of         *)
(* precedence only by convention.                                          *)
(*                                                                         *)
(* Two workers or more, so that everything that is wanted is deployed      *)
(* (module Placement), and one sample per test (module Workload).          *)
(***************************************************************************)
EXTENDS Integers, Sequences, FiniteSets, FiniteSetsExt, Drivers

CONSTANT Inputs      \* the command lines, configuration files and clusters

ConfigType == [profile : Profiles, msg : Nat, streams : Nat \ {0}, duration : Nat,
               service : BOOLEAN]
Networks == {"udn", "cudn", "sriov", "bridge", "macvlan"}
InputType ==
  [ configs : Seq(ConfigType), drivers : Seq(DriverNames), pod : BOOLEAN, vm : BOOLEAN,
    local : BOOLEAN, host : {"no", "all", "only"},     \* --all, --hostNet
    external : BOOLEAN,                                \* --serverIP
    nets : SUBSET Networks,                            \* --udnl2/3, --cudn, --sriov, ...
    brconf : BOOLEAN,                                  \* bridgeNetwork.json could be read
    fresh : BOOLEAN,                                   \* BuildInfra made the namespace
    ipv4 : BOOLEAN ]                                   \* the networks have IPv4 addresses

Requested(x, d) == \E k \in DOMAIN x.drivers : x.drivers[k] = d

\* The combinations main 99-157 lets through.
FlagsAccepted(x) ==
  /\ x.drivers # << >> /\ (x.pod \/ x.vm)
  /\ Cardinality(x.nets) <= 1 \/ x.nets \in {{"udn", "bridge"}, {"cudn", "bridge"}}
  /\ Requested(x, "ib_write_bw") => x.host = "only" /\ ~ x.vm /\ x.nets = {}
  /\ "sriov" \in x.nets => x.host # "only" /\ ~ (x.vm /\ x.pod)
  /\ "macvlan" \in x.nets => x.host # "only" /\ ~ x.vm

\* BuildSUT does not get past these without a client pod (module Placement).
Builds(x) == x.external \/ x.pod \/ ~ (x.local \/ x.host = "only")

ASSUME InputsAssumption ==
  \A x \in Inputs : x \in InputType /\ FlagsAccepted(x) /\ Builds(x)

VARIABLES
  in,        \* the input
  pc,        \* where the program is
  services,  \* the Services of the namespace
  listening, \* the control ports of each server, and ib_write_bw's -D
  n,         \* the iteration of main's loops in progress
  serverIP,  \* the address of its executeWorkload
  file       \* the uperf profiles on the clients

vars == << in, pc, services, listening, n, serverIP, file >>

PCs   == {"services", "servers", "test", "profile", "contact", "done", "fatal", "panic"}
Ended == pc \in {"done", "fatal", "panic"}

\* pkg/k8s/kubernetes.go 68-95.
NetperfServerCtlPort  == 12865
IperfServerCtlPort    == 22865
UperfServerCtlPort    == 30000
UperfLatServerCtlPort == 31000
NetperfServerDataPort == 42424
IperfServerDataPort   == 43433
IperfVmServerDataPort == 43533
UperfServerDataPort   == 30001
UperfLatServerDataPort   == 31001
UperfVmServerDataPort    == 30101
UperfLatVmServerDataPort == 31101

\* perftest's own default.
IbPort == 18515

----------------------------------------------------------------------------
(***************************************************************************)
(* The iterations of main's loops: pods and then VMs; for each             *)
(* configuration and each driver the host network, then the pod network.   *)
(***************************************************************************)
Iterations == 4 * Len(in.drivers) * Len(in.configs)

Test ==
  LET nd   == Len(in.drivers)
      half == 2 * nd * Len(in.configs)
  IN  [ cfg     |-> in.configs[((n - 1) % half) \div (2 * nd) + 1],
        driver  |-> in.drivers[(((n - 1) % half) % (2 * nd)) \div 2 + 1],
        hostNet |-> n % 2 = 1,
        virt    |-> n > half ]

\* Whether the loops call executeWorkload.
IsAsked(t) ==
  /\ IF t.virt THEN in.vm /\ ~ t.hostNet /\ ~ in.external ELSE in.pod
  /\ IF t.hostNet THEN in.host # "no" /\ ~ t.cfg.service ELSE in.host # "only"

----------------------------------------------------------------------------
(***************************************************************************)
(* The pods and VMs, and the networks they are on.                         *)
(***************************************************************************)
Pods == {"client", "client-host", "client-across", "server-host", "server"}
VMs  == {"client-vm", "server-vm"}

Deployed(p) ==
  CASE p = "client" -> in.external \/ (in.local /\ in.pod)
    [] p \in {"client-host", "server-host"} -> ~ in.external /\ in.host # "no" /\ in.pod
    [] p = "client-across" -> ~ in.external /\ in.host # "only" /\ in.pod
    [] p = "client-vm" -> ~ in.external /\ in.host # "only" /\ in.vm
    [] p = "server" -> ~ in.external /\ (in.host # "only" \/ in.local) /\ in.pod
    [] p = "server-vm" -> ~ in.external /\ (in.host # "only" \/ in.local) /\ in.vm

HostNetwork(p) ==
  \/ p \in {"client-host", "server-host"}
  \/ p \in {"client", "server"} /\ in.local /\ in.host # "no" /\ ~ in.external

\* The first of the networks in the list that was asked for.
FirstOf(list) ==
  {w \in in.nets : \E k \in DOMAIN list :
                     list[k] = w /\ \A j \in 1 .. k - 1 : list[j] \notin in.nets}

\* Mutants: no branch for the CUDN; the client of --local left out.
NetworkAnnotationsNoCudn(p) ==
  IF p \in {"client-host", "server-host"} THEN {}
  ELSE FirstOf(<< "bridge", "sriov", "macvlan" >>)

NetworkAnnotationsNotLocal(p) ==
  IF p \in {"client-host", "server-host", "client"} THEN {}
  ELSE FirstOf(<< "bridge", "cudn", "sriov", "macvlan" >>)

\* The network in the annotation of a pod.
NetworkAnnotations(p) ==
  IF p \in {"client-host", "server-host"} THEN {}
  ELSE FirstOf(<< "bridge", "cudn", "sriov", "macvlan" >>)

\* The interfaces of a VM.
Interfaces ==
  IF "bridge" \in in.nets /\ in.brconf THEN {"default", "bridge"}
  ELSE IF "udn" \in in.nets THEN {"udn"}
  ELSE {"default"} \cup FirstOf(<< "cudn", "sriov" >>)

\* Multus and OVN: no network but the node's for a pod on the host network; a primary UDN
\* for all others, if the namespace was created with its label.
NetworksOf(p) ==
  IF HostNetwork(p) THEN {"host"}
  ELSE IF p \in VMs THEN Interfaces
  ELSE {"default"} \cup NetworkAnnotations(p) \cup {w \in in.nets : w = "udn" /\ in.fresh}

----------------------------------------------------------------------------
(***************************************************************************)
(* BuildSUT.                                                               *)
(***************************************************************************)
Service(name, backend, ctl, data) ==
  [name |-> name, backend |-> backend, ports |-> {ctl} \cup data]

\* Mutant: fifteen data ports.
NetperfDataPortsFewer == NetperfServerDataPort .. NetperfServerDataPort + 14

NetperfDataPorts == NetperfServerDataPort .. NetperfServerDataPort + 15

\* The Services of a driver, for pods and for VMs; none for ib_write_bw.
ServicesFor(d, virt) ==
  LET to(name, ctl, data) == Service(<< name, virt >>, IF virt THEN "server-vm" ELSE "server",
                                     ctl, data)
  IN  CASE d = "iperf3" ->
             {to("iperf", IperfServerCtlPort,
                 {IF virt THEN IperfVmServerDataPort ELSE IperfServerDataPort})}
        [] d = "uperf" ->
             {to("uperf", UperfServerCtlPort,
                 {IF virt THEN UperfVmServerDataPort ELSE UperfServerDataPort}),
              to("uperf-histogram", UperfLatServerCtlPort,
                 {IF virt THEN UperfLatVmServerDataPort ELSE UperfLatServerDataPort})}
        [] d = "netperf" -> {to("netperf", NetperfServerCtlPort, NetperfDataPorts)}
        [] d = "ib_write_bw" -> {}

\* With an external server BuildSUT creates the client and returns.
CreateServices ==
  /\ pc = "services"
  /\ services' = IF in.external THEN {}
                 ELSE UNION {ServicesFor(in.drivers[k], virt) :
                             k \in DOMAIN in.drivers,
                             virt \in {v \in BOOLEAN : IF v THEN in.vm ELSE in.pod}}
  /\ pc' = IF in.external THEN "test" ELSE "servers"
  /\ UNCHANGED << in, listening, n, serverIP, file >>

DurationOf(ks) == IF ks = {} THEN 10 ELSE in.configs[Min(ks)].duration

\* Mutant: the profile compared as it is spelled.
IbDurationExact ==
  DurationOf({k \in DOMAIN in.configs :
                in.configs[k].profile = [name |-> "UDP_STREAM", upper |-> TRUE]})

\* The -D of the ib_write_bw server: that of the first UDP_STREAM config, in any case.
IbDuration ==
  DurationOf({k \in DOMAIN in.configs : in.configs[k].profile.name = "UDP_STREAM"})

NeedsHistogram == \E k \in DOMAIN in.configs : IsTCPStreamLat(in.configs[k].profile)

\* The control ports of the server commands; a VM's cloud-init always starts the same three.
ServerPorts(p) ==
  IF p \in VMs THEN {UperfServerCtlPort, IperfServerCtlPort, NetperfServerCtlPort}
  ELSE {port \in {NetperfServerCtlPort, IperfServerCtlPort, UperfServerCtlPort,
                  UperfLatServerCtlPort, IbPort} :
          \/ port = NetperfServerCtlPort  /\ Requested(in, "netperf")
          \/ port = IperfServerCtlPort    /\ Requested(in, "iperf3")
          \/ port = UperfServerCtlPort    /\ Requested(in, "uperf")
          \/ port = UperfLatServerCtlPort /\ Requested(in, "uperf") /\ NeedsHistogram
          \/ port = IbPort                /\ Requested(in, "ib_write_bw")}

StartServers ==
  /\ pc = "servers"
  /\ listening' = [p \in {"server", "server-host", "server-vm"} |->
                     IF Deployed(p) THEN [ports |-> ServerPorts(p), duration |-> IbDuration]
                     ELSE listening[p]]
  /\ pc' = "test"
  /\ UNCHANGED << in, services, n, serverIP, file >>

----------------------------------------------------------------------------
(***************************************************************************)
(* executeWorkload: the address.                                           *)
(***************************************************************************)
At(p, net) == [kind |-> "pod", of |-> p, net |-> net]
NilAddress == [kind |-> "<nil>", of |-> "none", net |-> "none"]

ServiceOf(t) ==
  << IF t.driver = "iperf3" THEN "iperf" ELSE IF t.driver = "uperf" THEN "uperf" ELSE "netperf",
     t.virt >>

\* Only SR-IOV and bridge networks tell pods and VMs apart.
ServerOn(t, w) == IF t.virt /\ w \in {"sriov", "bridge"} THEN "server-vm" ELSE "server"

\* Mutant: s.HostNetwork asked instead of hostNet.
PodIPOfScenario(t) ==
  IF t.virt THEN "server-vm"
  ELSE IF in.host # "no" /\ ~ in.local THEN "server-host" ELSE "server"

\* Whose pod address it is when no network of its own is asked for.
PodIPOf(t) ==
  IF t.virt THEN "server-vm"
  ELSE IF t.hostNet /\ ~ in.local THEN "server-host" ELSE "server"

\* Whose address on which network executeWorkload looks for, in its order.
Address(t) ==
  LET net == FirstOf(<< "udn", "cudn", "sriov", "bridge", "macvlan" >>)
  IN  CASE in.external -> [kind |-> "external", of |-> "none", net |-> "none"]
        [] ~ in.external /\ t.cfg.service -> [kind |-> "service", of |-> ServiceOf(t),
                                              net |-> "default"]
        [] ~ in.external /\ ~ t.cfg.service /\ net # {} ->
             LET w == CHOOSE w \in net : TRUE IN At(ServerOn(t, w), w)
        [] ~ in.external /\ ~ t.cfg.service /\ net = {} ->
             At(PodIPOf(t), IF HostNetwork(PodIPOf(t)) THEN "host" ELSE "default")

\* What becomes of it: the first pod of an empty list; no annotation for the network; an
\* address that is not IPv4, of which ExtractUdnIp makes the string "<nil>".  A VM's bridge
\* address is the one of the configuration file.
Resolved(a) ==
  CASE a.kind # "pod" -> << "ok", a >>
    [] a = At("server-vm", "bridge") -> << IF in.brconf THEN "ok" ELSE "fatal", a >>
    [] a.kind = "pod" /\ a # At("server-vm", "bridge") ->
         IF ~ Deployed(a.of) THEN << "panic", a >>
         ELSE IF a.net \in {"default", "host"} THEN << "ok", a >>
         ELSE IF a.net \notin NetworksOf(a.of) THEN << "fatal", a >>
         ELSE IF in.ipv4 THEN << "ok", a >>
         ELSE IF a.net \in {"udn", "cudn"} THEN << "ok", NilAddress >> ELSE << "fatal", a >>

\* Mutant: the loop passes over two tests when one is not supported.
PickAddressSkipTwo ==
  /\ pc = "test" /\ n <= Iterations /\ IsAsked(Test)
  /\ LET r == Resolved(Address(Test))
         supported == IsTestSupported(Test.driver, Test.cfg.profile)
     IN  /\ serverIP' = r[2]
         /\ pc' = IF r[1] # "ok" THEN r[1] ELSE IF supported THEN "profile" ELSE "test"
         /\ n' = IF r[1] = "ok" /\ ~ supported THEN n + 2 ELSE n
  /\ UNCHANGED << in, services, listening, file >>

\* The address, and then whether the driver supports the profile at all.
PickAddress ==
  /\ pc = "test" /\ n <= Iterations /\ IsAsked(Test)
  /\ LET r == Resolved(Address(Test))
         supported == IsTestSupported(Test.driver, Test.cfg.profile)
     IN  /\ serverIP' = r[2]
         /\ pc' = IF r[1] # "ok" THEN r[1] ELSE IF supported THEN "profile" ELSE "test"
         /\ n' = IF r[1] = "ok" /\ ~ supported THEN n + 1 ELSE n
  /\ UNCHANGED << in, services, listening, file >>

\* An iteration without a call.
PassOver ==
  /\ pc = "test" /\ n <= Iterations /\ ~ IsAsked(Test)
  /\ n' = n + 1
  /\ UNCHANGED << in, pc, services, listening, serverIP, file >>

TestsOver ==
  /\ pc = "test" /\ n > Iterations
  /\ pc' = "done"
  /\ UNCHANGED << in, services, listening, n, serverIP, file >>

----------------------------------------------------------------------------
(***************************************************************************)
(* The drivers' Run.                                                       *)
(***************************************************************************)
ClientList(t) ==
  IF t.hostNet /\ ~ in.local THEN "client-host"
  ELSE IF in.local \/ in.external THEN "client"
  ELSE IF t.virt THEN "client-vm" ELSE "client-across"
ClientOf(t) == IF t.virt THEN "client-vm" ELSE ClientList(t)

ContainsUDP(p) == p.upper /\ p.name \in {"UDP_STREAM", "UDP_RR", "UDP_CRR"}

\* The name of a uperf profile, and what is in it.
FilePath(c) ==
  << IF IsTCPStreamLat(c.profile) THEN "stream-lat"
     ELSE IF ContainsSTREAM(c.profile) THEN "stream" ELSE "rr",
     ContainsUDP(c.profile), c.msg, c.streams >>
FileContent(c) ==
  [server |-> serverIP, duration |-> c.duration,
   port |-> IF IsTCPStreamLat(c.profile) THEN UperfLatServerDataPort ELSE UperfServerDataPort]

Written(at, content) == [a \in DOMAIN file \cup {at} |-> IF a = at THEN content ELSE file[a]]

\* Mutant: a profile that is already there is kept.
CreateUperfProfileOnce ==
  LET at == << ClientOf(Test), FilePath(Test.cfg) >>
  IN  file' = IF Test.driver = "uperf" /\ at \notin DOMAIN file
              THEN Written(at, FileContent(Test.cfg)) ELSE file

\* createUperfProfile writes the profile before every run of uperf.
CreateUperfProfile ==
  LET at == << ClientOf(Test), FilePath(Test.cfg) >>
  IN  file' = IF Test.driver = "uperf" THEN Written(at, FileContent(Test.cfg)) ELSE file

\* Run reads the first pod of its list, between VMs too.
PrepareRun ==
  /\ pc = "profile"
  /\ IF Deployed(ClientList(Test)) THEN CreateUperfProfile /\ pc' = "contact"
                                   ELSE pc' = "panic" /\ UNCHANGED file
  /\ UNCHANGED << in, services, listening, n, serverIP >>

\* The ports of the command line and of the profile it names.
CtlPort(t) ==
  CASE t.driver = "netperf" -> NetperfServerCtlPort
    [] t.driver = "iperf3" -> IperfServerCtlPort
    [] t.driver = "uperf" ->
         IF IsTCPStreamLat(t.cfg.profile) THEN UperfLatServerCtlPort ELSE UperfServerCtlPort
    [] t.driver = "ib_write_bw" -> IbPort
ProfileRead(t) == file[<< ClientOf(t), FilePath(t.cfg) >>]
DataPorts(t) ==
  CASE t.driver = "netperf" -> NetperfServerDataPort .. NetperfServerDataPort + t.cfg.streams - 1
    [] t.driver = "uperf" -> {ProfileRead(t).port}
    [] t.driver \in {"iperf3", "ib_write_bw"} -> {}

\* The benchmark runs, and main goes on to the next test.
Contact ==
  /\ pc = "contact"
  /\ n' = n + 1
  /\ pc' = "test"
  /\ UNCHANGED << in, services, listening, serverIP, file >>

Finished == Ended /\ UNCHANGED vars

Init ==
  /\ in \in Inputs
  /\ pc = "services"
  /\ services = {}
  /\ listening = [p \in {"server", "server-host", "server-vm"} |->
                    [ports |-> {}, duration |-> 0]]
  /\ n = 1
  /\ serverIP = NilAddress
  /\ file = << >>

Next == CreateServices \/ StartServers \/ PickAddress \/ PassOver \/ TestsOver \/ PrepareRun \/ Contact
        \/ Finished

Spec == Init /\ [][Next]_vars

----------------------------------------------------------------------------
(***************************************************************************)
(* Properties.                                                             *)
(***************************************************************************)
Running == pc = "contact"

\* Who the client's packets come to.
Reached ==
  IF serverIP.kind = "service"
  THEN {s.backend : s \in {s \in services : s.name = serverIP.of}}
  ELSE {serverIP.of}

\* Every variable has its type.
TypeOK ==
  /\ in \in InputType
  /\ pc \in PCs
  /\ \A s \in services : s.backend \in {"server", "server-vm"}
  /\ n \in 1 .. Iterations + 1
  /\ serverIP.kind \in {"external", "service", "pod", "<nil>"}
  /\ serverIP.kind = "pod" => serverIP.of \in DOMAIN listening
  /\ \A at \in DOMAIN file : at[1] \in Pods \cup VMs

\* Whatever the client calls is there: the control port has a listener behind it, and
\* through a Service every port the client uses, on either side of the negotiation, is one
\* the Service forwards.  Not so for: TCP_STREAM_LAT through a Service (it goes to the
\* Service of the other uperf), and between VMs (nothing starts the server); uperf through
\* the Service of a VM (the data port is another one); more than sixteen netperf streams
\* through a Service; and a UDN or CUDN without IPv4, whose address is "<nil>".
SomethingAnswers ==
  Running /\ serverIP.kind # "external" =>
    \/ /\ serverIP.kind # "<nil>"
       /\ \A p \in Reached : CtlPort(Test) \in listening[p].ports
       /\ serverIP.kind = "service" =>
            \E s \in services : /\ s.name = serverIP.of
                                /\ {CtlPort(Test)} \cup DataPorts(Test) \subseteq s.ports
    \/ serverIP.kind = "<nil>" /\ ~ in.ipv4 /\ in.nets \cap {"udn", "cudn"} # {}
    \/ IsTCPStreamLat(Test.cfg.profile) /\ (Test.cfg.service \/ Test.virt)
    \/ Test.driver = "uperf" /\ Test.cfg.service /\ Test.virt
    \/ Test.driver = "netperf" /\ Test.cfg.service /\ Test.cfg.streams > 16

\* A result is about what it is labelled with: a Virt result about the server VM, any other
\* about a server pod (a UDN's or CUDN's address is the server pod's even between VMs), and
\* a HostNetwork result about a server on the host network, any other not (--local has one
\* server for both, and a network of its own one address for both).
MeasuresAsLabelled ==
  Running /\ serverIP.kind \in {"pod", "service"} =>
    /\ \/ ("server-vm" \in Reached) = Test.virt
       \/ Test.virt /\ ~ Test.cfg.service /\ in.nets \cap {"udn", "cudn"} # {}
    /\ \/ \A p \in Reached : HostNetwork(p) = Test.hostNet
       \/ Test.hostNet /\ in.nets # {}
       \/ in.local /\ in.host = "all"

\* Client and server are both on the network of the address: the orders of precedence of
\* annotations, interfaces and addresses agree, or executeWorkload finds no address.  Not so
\* for the host network client, which is attached to nothing, and for UDN VMs that got a
\* bridge interface instead.
OnOneNetwork ==
  Running /\ serverIP.kind = "pod" /\ serverIP.net \notin {"default", "host"} =>
    \/ serverIP.net \in NetworksOf(serverIP.of) \cap NetworksOf(ClientOf(Test))
    \/ Test.hostNet
    \/ Test.virt /\ serverIP.net \in {"udn", "cudn"} /\ "bridge" \in in.nets

\* The run ends early only for these reasons: a network without IPv4 (of a UDN or CUDN that
\* goes unnoticed), no bridge configuration, a CUDN hidden by a bridge, a UDN in a namespace
\* that was there before, --local pods on the host network; and with a panic for a network
\* whose address is read from a server pod that --hostNet or --pod=false left out, or host
\* network tests with an external server.
StopsOnlyWithCause ==
  /\ pc = "fatal" =>
       \/ ~ in.ipv4 /\ in.nets \cap {"sriov", "bridge", "macvlan"} # {}
       \/ Test.virt /\ "bridge" \in in.nets /\ ~ in.brconf
       \/ in.nets = {"cudn", "bridge"}
       \/ "udn" \in in.nets /\ ~ in.fresh
       \/ in.local /\ in.host # "no"
  /\ pc = "panic" =>
       \/ in.nets # {} /\ in.host = "only" /\ ~ in.local
       \/ in.nets \cap {"udn", "cudn"} # {} /\ ~ in.pod
       \/ in.external /\ Test.hostNet

\* "perftest requires server and client to use identical -D values": they do when all
\* UDP_STREAM configs have one duration, however the profile is spelled.
SameDuration ==
  Running /\ Test.driver = "ib_write_bw" /\ serverIP.kind = "pod" =>
    \/ listening[serverIP.of].duration = Test.cfg.duration
    \/ \E j, k \in DOMAIN in.configs : /\ in.configs[j].profile.name = "UDP_STREAM"
                                       /\ in.configs[k].profile.name = "UDP_STREAM"
                                       /\ in.configs[j].duration # in.configs[k].duration

\* The profile uperf reads is the one of this test, although tests to different servers,
\* for different times, share its name.
ProfileIsOwn ==
  Running /\ Test.driver = "uperf" =>
    /\ ProfileRead(Test).server = serverIP
    /\ ProfileRead(Test).duration = Test.cfg.duration
==============================================================================
