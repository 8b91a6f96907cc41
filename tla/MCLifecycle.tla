----------------------------- MODULE MCLifecycle -----------------------------
(***************************************************************************)
(* Instances of Lifecycle for TLC.                                         *)
(***************************************************************************)
EXTENDS Lifecycle

\* Every combination main accepts: --sriov and --macvlan exclude --bridge, and --macvlan
\* excludes --vm.
AllFlags ==
  { f \in [clean : BOOLEAN, net : Nets, bridge : BOOLEAN, vm : BOOLEAN] :
      /\ f.net = "macvlan" => ~ f.vm
      /\ f.bridge => f.net \notin {"sriov", "macvlan"} }
==============================================================================
