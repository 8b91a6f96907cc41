----------------------------- MODULE MCPlacement -----------------------------
(***************************************************************************)
(* Instances of Placement for TLC.                                         *)
(***************************************************************************)
EXTENDS Placement

Worker(zone) == [worker |-> TRUE, infra |-> FALSE, workload |-> FALSE, zone |-> zone]
Infra        == [Worker("a") EXCEPT !.infra = TRUE]
Workload     == [Worker("a") EXCEPT !.workload = TRUE]
Other        == [Worker(NoZone) EXCEPT !.worker = FALSE]

\* One to three nodes of every kind; zone labels on all workers, on some or on none.
SmallClusters ==
  LET kinds == {Worker(NoZone), Worker("a"), Worker("b"), Infra, Workload, Other}
  IN  UNION {[1 .. k -> kinds] : k \in 1 .. 3}

\* Everything main accepts: at least pods or VMs; --sriov and --macvlan with host network
\* only are refused, but the UDNs and --bridge are not.
Accepted == {f \in FlagType : f.pod \/ f.vm}
==============================================================================
