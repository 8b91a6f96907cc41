------------------------------ MODULE Scenario ------------------------------
(***************************************************************************)
(* The input of one run: what the flags and the configuration file ask     *)
(* for, and the tests this gives rise to.                                  *)
(***************************************************************************)
EXTENDS Naturals, Sequences, Drivers

CONSTANT
  Scenarios      \* the scenarios a run may be started with

\* config.Config: profile, samples and whether the test goes through a Service.
ConfigType == [profile : Profiles, samples : Nat, service : BOOLEAN]

\* ParseConf and ParseV2Conf return a list only if validConfig accepts each entry.
ValidConfigs(cfgs) == \A i \in 1 .. Len(cfgs) : cfgs[i].samples > 0

\* config.PerfScenarios, as far as the loops read it.
ScenarioType ==
  [ Configs          : Seq(ConfigType),
    RequestedDrivers : Seq(DriverNames),
    Pod              : BOOLEAN,
    VM               : BOOLEAN,
    HostNetwork      : BOOLEAN,
    HostNetOnly      : BOOLEAN ]

\* HostNetwork is (--all or --hostNet), HostNetOnly is --hostNet: the second implies the
\* first.  main wants a driver, and with ib_write_bw wants --hostNet and refuses --vm.
FlagsAccepted(sc) ==
  /\ sc.RequestedDrivers # << >>
  /\ sc.HostNetOnly => sc.HostNetwork
  /\ (\E i \in DOMAIN sc.RequestedDrivers : sc.RequestedDrivers[i] = "ib_write_bw")
       => sc.HostNetOnly /\ ~ sc.VM

ASSUME ScenariosAssumption ==
  \A sc \in Scenarios : /\ sc \in ScenarioType
                        /\ ValidConfigs(sc.Configs)
                        /\ FlagsAccepted(sc)

\* One call of executeWorkload: a config, a driver, pod or VM, host network or not.
TestsOf(sc) == [virt : BOOLEAN, ci : 1 .. Len(sc.Configs),
                di : 1 .. Len(sc.RequestedDrivers), hostNet : BOOLEAN]

\* Pods before VMs, then by config, then by driver, host network first.
Earlier(t, u) ==
  \/ ~ t.virt /\ u.virt
  \/ /\ t.virt = u.virt
     /\ \/ t.ci < u.ci
        \/ t.ci = u.ci /\ t.di < u.di
        \/ t.ci = u.ci /\ t.di = u.di /\ t.hostNet /\ ~ u.hostNet

=============================================================================
