----------------------------- MODULE MCWorkload -----------------------------
(***************************************************************************)
(* Instances of Workload for TLC.                                          *)
(***************************************************************************)
EXTENDS Workload

Upper(name) == [name |-> name, upper |-> TRUE]
Lower(name) == [name |-> name, upper |-> FALSE]

Cfg(profile, samples, service) ==
  [profile |-> profile, samples |-> samples, service |-> service]

ScenariosOf(cfgs, drivers) ==
  { sc \in [Configs : {cfgs}, RequestedDrivers : {drivers}, Pod : BOOLEAN, VM : BOOLEAN,
            HostNetwork : BOOLEAN, HostNetOnly : BOOLEAN] : FlagsAccepted(sc) }

\* Many tests, one sample each: all flag combinations, a config through a Service, one
\* a driver does not support, one spelled in lower case, and an empty file.
WideScenarios ==
  ScenariosOf(<< Cfg(Upper("TCP_STREAM"), 1, FALSE), Cfg(Upper("TCP_CRR"), 1, TRUE) >>,
              << "netperf", "uperf" >>)
  \cup ScenariosOf(<< Cfg(Lower("UDP_STREAM"), 1, FALSE) >>, << "uperf", "iperf3" >>)
  \cup ScenariosOf(<< Cfg(Lower("UDP_STREAM"), 1, FALSE) >>, << "iperf3", "ib_write_bw" >>)
  \cup ScenariosOf(<< >>, << "netperf" >>)

\* One test, several samples, the retry budget of the code and every output.
DeepScenarios ==
  { [Configs |-> << Cfg(Upper("UDP_STREAM"), 3, FALSE) >>, RequestedDrivers |-> << d >>,
     Pod |-> TRUE, VM |-> FALSE, HostNetwork |-> d = "ib_write_bw",
     HostNetOnly |-> d = "ib_write_bw"] : d \in DriverNames }

=============================================================================
