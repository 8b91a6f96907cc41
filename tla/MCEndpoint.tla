----------------------------- MODULE MCEndpoint -----------------------------
(***************************************************************************)
(* Instances of Endpoint for TLC.                                          *)
(***************************************************************************)
EXTENDS Endpoint

Upper(name) == [name |-> name, upper |-> TRUE]
Cfg(p, streams, duration, service) ==
  [profile |-> p, msg |-> 64, streams |-> streams, duration |-> duration, service |-> service]

\* A Service test and one without share the name of the uperf profile; sixteen streams are
\* as many as a Service has data ports, seventeen one more.
Configs == << Cfg(Upper("TCP_STREAM"), 16, 10, FALSE), Cfg(Upper("TCP_STREAM"), 16, 20, TRUE),
              Cfg(Upper("TCP_STREAM_LAT"), 1, 10, FALSE), Cfg(Upper("TCP_STREAM_LAT"), 1, 10, TRUE),
              Cfg(Upper("UDP_RR"), 17, 10, TRUE) >>

Rdma(d1, d2) == << Cfg([name |-> "UDP_STREAM", upper |-> FALSE], 1, d1, FALSE),
                   Cfg(Upper("UDP_STREAM"), 1, d2, FALSE) >>

Plain == [configs |-> Configs, drivers |-> << "netperf", "uperf", "iperf3" >>, pod |-> TRUE,
          vm |-> FALSE, local |-> FALSE, host |-> "no", external |-> FALSE, nets |-> {},
          brconf |-> TRUE, fresh |-> TRUE, ipv4 |-> TRUE]

\* Every accepted combination of flags, networks and clusters (what matters only to one
\* network varies only with it), without and with RDMA.
AllInputs ==
  LET any == { [Plain EXCEPT !.pod = p, !.vm = v, !.local = l, !.host = h, !.external = e,
                             !.nets = ws, !.brconf = b, !.fresh = f, !.ipv4 = i] :
               p, v, l, e, b, f, i \in BOOLEAN, h \in {"no", "all", "only"},
               ws \in SUBSET Networks }
      rdma == { [Plain EXCEPT !.configs = Rdma(d1, d2), !.host = "only", !.local = l,
                              !.drivers = << "netperf", "ib_write_bw" >>] :
                l \in BOOLEAN, d1, d2 \in {10, 20} }
      lower == { [x EXCEPT !.configs = << x.configs[1] >>] : x \in rdma }
      matters(x) == /\ ~ x.brconf => "bridge" \in x.nets
                    /\ ~ x.fresh => "udn" \in x.nets
                    /\ ~ x.ipv4 => x.nets # {}
  IN  {x \in any \cup rdma \cup lower : FlagsAccepted(x) /\ Builds(x) /\ matters(x)}
==============================================================================
