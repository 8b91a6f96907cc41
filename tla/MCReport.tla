------------------------------ MODULE MCReport ------------------------------
(***************************************************************************)
(* Instances of Report for TLC.                                            *)
(***************************************************************************)
EXTENDS Report

Cfg(name, upper, msg, streams, service) ==
  [profile |-> [name |-> name, upper |-> upper], msg |-> msg, streams |-> streams,
   service |-> service]
TcpStream(msg) == Cfg("TCP_STREAM", TRUE, msg, 1, FALSE)

Plain ==
  [ configs |-> << TcpStream(64) >>, drivers |-> << "netperf" >>, pod |-> TRUE, vm |-> FALSE,
    host |-> "all", speeds |-> {5, 9, 10}, json |-> FALSE, csv |-> TRUE, search |-> FALSE, metrics |-> FALSE,
    clean |-> FALSE, tcpt |-> 10, nodes |-> [client |-> "n1", server |-> "n2"],
    agent |-> FALSE, degraded |-> FALSE, distribution |-> "Kubernetes", prom |-> FALSE ]

\* Without Prometheus: what the gate may have to compare, two to four results, and the
\* flags of the report.
GateInputs ==
  { [Plain EXCEPT !.configs = c, !.drivers = d, !.host = h[1], !.tcpt = h[2]] :
      c \in { << TcpStream(64), TcpStream(1024) >>, << TcpStream(64), TcpStream(64) >>,
              << TcpStream(64), Cfg("TCP_STREAM", TRUE, 1024, 2, FALSE) >>,
              << TcpStream(64), Cfg("TCP_STREAM", TRUE, 64, 1, TRUE) >>,
              << Cfg("TCP_STREAM", FALSE, 64, 1, FALSE), Cfg("TCP_CRR", TRUE, 64, 1, FALSE) >> },
      d \in { << "netperf" >>, << "uperf" >> }, h \in {<< "all", 10 >>, << "all", 67 >>, << "only", 10 >>} }
  \cup { [Plain EXCEPT !.drivers = << d, e >>, !.pod = v[1], !.vm = v[2]] :
           d \in {"netperf", "iperf3"}, e \in {"iperf3", "uperf"},
           v \in {<< TRUE, FALSE >>, << TRUE, TRUE >>, << FALSE, TRUE >>} }

ReportInputs ==
  { [Plain EXCEPT !.configs = c, !.drivers = << "uperf" >>, !.speeds = {10}, !.json = j, !.csv = v,
                  !.search = x, !.metrics = m, !.clean = l] :
      c \in { << >>, << Cfg("TCP_RR", TRUE, 64, 1, FALSE) >>,
              << Cfg("TCP_STREAM_LAT", TRUE, 64, 1, FALSE), Cfg("UDP_CRR", FALSE, 64, 1, TRUE) >> },
      j, v, x, m, l \in BOOLEAN }
  \cup { [Plain EXCEPT !.configs = << Cfg("UDP_STREAM", u, 64, 1, FALSE) >>, !.speeds = {10},
                       !.json = j, !.search = TRUE] : u, j \in BOOLEAN }

\* Prometheus, looked for in every way there is, by a run with an external server.
DiscoveryInputs ==
  { [Plain EXCEPT !.host = "no", !.speeds = {10}, !.nodes.server = NoNode, !.agent = a,
                  !.degraded = g, !.distribution = d, !.prom = p] :
      a, g \in BOOLEAN, d \in Distributions, p \in BOOLEAN }

\* One result, or a host and a pod result, and a Prometheus that may not answer.
QueryInputs ==
  { [Plain EXCEPT !.host = "no", !.speeds = {10}, !.json = j, !.search = TRUE,
                  !.distribution = d, !.prom = TRUE] :
      j \in BOOLEAN, d \in {"OpenShift", "Kubernetes"} }
  \cup { [Plain EXCEPT !.prom = TRUE, !.search = TRUE, !.speeds = {10}] }

AllInputs == GateInputs \cup ReportInputs \cup DiscoveryInputs \cup QueryInputs

TwoDrivers == {[Plain EXCEPT !.drivers = << "netperf", "iperf3" >>]}
=============================================================================
