----------------------------- MODULE MCVMSession -----------------------------
(***************************************************************************)
(* Instances of VMSession for TLC.                                         *)
(***************************************************************************)
EXTENDS VMSession

\* Every driver over both kinds of connection, on hosts with and without virtctl; the
\* second sample is taken over the connection of the first.
AllInputs == [useVirtctl : BOOLEAN, sriov : BOOLEAN, driver : DriverNames, samples : {2},
              embedded : BOOLEAN, system : BOOLEAN]

SystemVirtctl == {x \in AllInputs : x.useVirtctl /\ x.system /\ ~ x.embedded}
==============================================================================
