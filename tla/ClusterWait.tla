----------------------------- MODULE ClusterWait -----------------------------
(***************************************************************************)
(* The three operations of pkg/k8s that change one API object and then     *)
(* wait for the cluster, over a watch, to finish the job:                  *)
(*   deployDeployment   (CreateDeployment, WaitForReady, GetPods);         *)
(*   launchServerVM and launchClientVM (CreateVMI, WaitForVMI, GetPods,    *)
(*                      GetPodNodeInfo);                                   *)
(*   DestroyNamespace   (Get, Delete, waitForNamespaceDelete).             *)
(* The cluster moves between any two calls: objects become ready, lose     *)
(* their pod or vanish, and the API server ends a watch when it likes.     *)
(***************************************************************************)
EXTENDS Naturals, Sequences, SequencesExt

CONSTANTS
  Ops,          \* the operations to run, among "deployment", "vmi" and "namespace"
  Target,       \* the object the operation is about
  Others,       \* other objects of the kind in the namespace
  MaxChanges    \* bound on what the cluster does by itself

ASSUME OpsAssumption == Ops \subseteq {"deployment", "vmi", "namespace"}
ASSUME TargetAssumption == Target \notin Others /\ IsFiniteSet(Others)
ASSUME BoundAssumption == MaxChanges \in Nat

Names == Others \cup {Target}

VARIABLES
  op,        \* the operation of this behaviour
  pc,        \* where it is
  obj,       \* the API objects
  watch,     \* "none", "open" or "closed" by the server
  stream,    \* events sent and not yet received
  pods,      \* how many Running pods GetPods returned
  err,       \* where the error that is returned comes from
  changes,   \* what the cluster did by itself so far
  reached,   \* history: the target has been in the state waited for
  lost       \* history: ... and left it again

vars == << op, pc, obj, watch, stream, pods, err, changes, reached, lost >>
history == << reached, lost >>
cluster == << obj, changes, history >>

Done == {"ok", "error", "panic"}
PCs  == {"get", "delete", "create", "watch", "loop", "list", "nodeinfo"} \cup Done

\* A Deployment or VMI is pending or ready; a Namespace is ready (Active) or terminating.
Phases == {"absent", "pending", "ready", "terminating"}

Event(type, n, phase) == [type |-> type, name |-> n, phase |-> phase]
Events == [type : {"Added", "Modified", "Deleted", "Error"}, name : Names, phase : Phases]

Goal(phase) == phase = IF op = "namespace" THEN "absent" ELSE "ready"

----------------------------------------------------------------------------
(***************************************************************************)
(* The cluster.                                                            *)
(***************************************************************************)

\* waitForNamespaceDelete selects by name; the other two watch the whole namespace.
Selected(n) == op # "namespace" \/ n = Target

\* Object n becomes phase; an open watch is told.
Become(type, n, phase, sent) ==
  /\ obj' = [obj EXCEPT ![n] = phase]
  /\ stream' = IF watch = "open" /\ Selected(n)
               THEN Append(stream, Event(type, n, sent)) ELSE stream
  /\ reached' = (reached \/ (n = Target /\ Goal(phase)))
  /\ lost' = (lost \/ (n = Target /\ reached /\ ~ Goal(phase)))

ClusterChange ==
  /\ pc \notin Done
  /\ changes < MaxChanges
  /\ changes' = changes + 1
  /\ \E n \in Names :
       \/ obj[n] = "pending" /\ Become("Modified", n, "ready", "ready")
       \/ obj[n] = "ready" /\ op # "namespace" /\ Become("Modified", n, "pending", "pending")
       \/ obj[n] \in {"pending", "ready"} /\ op # "namespace"
                              /\ Become("Deleted", n, "absent", obj[n])
       \/ obj[n] = "terminating" /\ Become("Deleted", n, "absent", "terminating")
  /\ UNCHANGED << op, pc, watch, pods, err >>

\* The server ends the watch: what it sent before is still received.
CloseWatch ==
  /\ watch = "open"
  /\ pc \notin Done
  /\ watch' = "closed"
  /\ UNCHANGED << op, pc, obj, stream, pods, err, changes, history >>

\* The same, after an event whose object is a Status.
FailWatch ==
  /\ watch = "open"
  /\ pc \notin Done
  /\ watch' = "closed"
  /\ stream' = Append(stream, Event("Error", Target, "absent"))
  /\ UNCHANGED << op, pc, obj, pods, err, changes, history >>

----------------------------------------------------------------------------
(***************************************************************************)
(* The operations.                                                         *)
(***************************************************************************)
Goto(l) == pc' = l /\ UNCHANGED << op, watch, stream, pods, err >>

Fail(origin) == pc' = "error" /\ err' = origin /\ UNCHANGED << op, watch, stream, pods >>

\* DestroyNamespace: any error of Get is taken for "there is none".
DestroyGet ==
  /\ op = "namespace" /\ pc = "get"
  /\ \/ obj[Target] = "absent" /\ Goto("ok")
     \/ obj[Target] # "absent" /\ Goto("delete")
     \/ pc' = "ok" /\ err' = "get" /\ UNCHANGED << op, watch, stream, pods >>
  /\ UNCHANGED cluster

DestroyDelete ==
  /\ op = "namespace" /\ pc = "delete"
  /\ IF obj[Target] = "absent"
       THEN Fail("api") /\ UNCHANGED cluster
       ELSE Goto("watch") /\ obj' = [obj EXCEPT ![Target] = "terminating"]
                          /\ UNCHANGED << changes, history >>

\* CreateDeployment: an existing one is reused if it has a ready replica; otherwise it
\* is created, which fails if it exists.
CreateDeployment ==
  /\ op = "deployment" /\ pc = "get"
  /\ \/ obj[Target] = "ready" /\ Goto("watch")
     \/ Goto("create") /\ obj[Target] # "ready"
     \/ Goto("create") /\ obj[Target] = "ready"        \* Get failed
  /\ UNCHANGED cluster

\* CreateDeployment's and CreateVMI's call of Create; a VMI is never reused.
Create ==
  /\ pc = "create"
  /\ IF obj[Target] = "absent"
       THEN Goto("watch") /\ obj' = [obj EXCEPT ![Target] = "pending"]
                          /\ UNCHANGED << changes, history >>
       ELSE Fail("api") /\ UNCHANGED cluster

\* Mutant: a watch that only tells what happens from now on.
OpenWatchLate ==
  /\ pc = "watch"
  /\ watch' = "open"
  /\ stream' = << >>
  /\ pc' = "loop"
  /\ UNCHANGED << op, pods, err, cluster >>

\* A watch without a resource version starts with what there is, in any order.
OpenWatch ==
  /\ pc = "watch"
  /\ watch' = "open"
  /\ \E q \in SetToSeqs({n \in Names : obj[n] # "absent" /\ Selected(n)}) :
        stream' = [k \in DOMAIN q |-> Event("Added", q[k], obj[q[k]])]
  /\ pc' = "loop"
  /\ UNCHANGED << op, pods, err, cluster >>

\* Any call but Get returns the error it meets.
ApiError ==
  /\ pc \in {"delete", "create", "watch", "list"}
  /\ Fail("api")
  /\ UNCHANGED cluster

Receive == stream' = Tail(stream) /\ UNCHANGED << op, watch, pods, err, cluster >>

\* Mutant: any ready Deployment will do.
WaitForAnyReady ==
  /\ op = "deployment" /\ pc = "loop" /\ stream # << >>
  /\ LET e == Head(stream) IN
       pc' = CASE e.type = "Error" -> "panic"
               [] e.type # "Error" /\ e.phase = "ready" -> "list"
               [] OTHER -> "loop"
  /\ Receive

\* The body of WaitForReady's loop: an object that is no Deployment is logged, and its
\* Name is read all the same.
WaitForReady ==
  /\ op = "deployment" /\ pc = "loop" /\ stream # << >>
  /\ LET e == Head(stream) IN
       pc' = CASE e.type = "Error" -> "panic"
               [] e.type # "Error" /\ e.name = Target /\ e.phase = "ready" -> "list"
               [] OTHER -> "loop"
  /\ Receive

\* Mutant: any running VMI will do.
WaitForAnyVMI ==
  /\ op = "vmi" /\ pc = "loop" /\ stream # << >>
  /\ LET e == Head(stream) IN
       pc' = CASE e.type = "Error" -> "error"
               [] e.type # "Error" /\ e.phase = "ready" -> "list"
               [] OTHER -> "loop"
  /\ Receive

\* The body of WaitForVMI's loop.
WaitForVMI ==
  /\ op = "vmi" /\ pc = "loop" /\ stream # << >>
  /\ LET e == Head(stream) IN
       pc' = CASE e.type = "Error" -> "error"
               [] e.type # "Error" /\ e.name = Target /\ e.phase = "ready" -> "list"
               [] OTHER -> "loop"
  /\ Receive

\* Mutant: the wrong type of event.
WaitForNamespaceModified ==
  /\ op = "namespace" /\ pc = "loop" /\ stream # << >>
  /\ pc' = IF Head(stream).type = "Modified" THEN "ok" ELSE "loop"
  /\ Receive

\* The body of waitForNamespaceDelete's loop.
WaitForNamespaceDelete ==
  /\ op = "namespace" /\ pc = "loop" /\ stream # << >>
  /\ pc' = IF Head(stream).type = "Deleted" THEN "ok" ELSE "loop"
  /\ Receive

\* Mutant: WaitForReady takes the end of its watch for success, too.
StreamEndsQuietly ==
  /\ pc = "loop" /\ stream = << >> /\ watch = "closed"
  /\ IF op \in {"vmi", "deployment"} THEN Goto("list") ELSE Fail("stream")
  /\ UNCHANGED cluster

\* The channel is closed and drained: an error, except that WaitForVMI returns nil.
StreamEnds ==
  /\ pc = "loop" /\ stream = << >> /\ watch = "closed"
  /\ IF op = "vmi" THEN Goto("list") ELSE Fail("stream")
  /\ UNCHANGED cluster

\* Mutant: GetPods without its field selector also lists a pod that is not Running.
GetAllPods ==
  /\ pc = "list"
  /\ pods' \in IF obj[Target] = "ready" THEN {1, 2} ELSE {0, 1}
  /\ pc' = IF op = "vmi" THEN "nodeinfo" ELSE "ok"
  /\ UNCHANGED << op, watch, stream, err, cluster >>

\* GetPods: the pods with the target's label that are Running now.  A ready target has
\* one; without it there may be one that is starting or going.
GetPods ==
  /\ pc = "list"
  /\ pods' \in IF obj[Target] = "ready" THEN {1} ELSE {0, 1}
  /\ pc' = IF op = "vmi" THEN "nodeinfo" ELSE "ok"
  /\ UNCHANGED << op, watch, stream, err, cluster >>

\* GetPodNodeInfo lists them again and takes the first one; its error is dropped.
GetPodNodeInfo ==
  /\ pc = "nodeinfo"
  /\ \/ Goto("ok")
     \/ obj[Target] # "ready" /\ Goto("panic")
  /\ UNCHANGED cluster

Init ==
  /\ op \in Ops
  /\ pc = IF op = "vmi" THEN "create" ELSE "get"
  /\ obj \in [Names -> IF op = "namespace" THEN {"absent", "ready", "terminating"}
                                          ELSE {"absent", "pending", "ready"}]
  /\ watch = "none"
  /\ stream = << >>
  /\ pods = 0
  /\ err = "none"
  /\ changes = 0
  /\ reached = Goal(obj[Target])
  /\ lost = FALSE

Exited == pc \in Done /\ UNCHANGED vars

Step == \/ DestroyGet \/ DestroyDelete \/ CreateDeployment \/ Create \/ OpenWatch
        \/ ApiError \/ WaitForReady \/ WaitForVMI \/ WaitForNamespaceDelete \/ StreamEnds
        \/ GetPods \/ GetPodNodeInfo

Next == Step \/ ClusterChange \/ CloseWatch \/ FailWatch \/ Exited

\* The caller is a running goroutine and API calls return; nothing is assumed of the
\* cluster, and in particular not that the server ever ends the watch.
Spec == Init /\ [][Next]_vars /\ WF_vars(Step)

----------------------------------------------------------------------------
(***************************************************************************)
(* Properties.                                                             *)
(***************************************************************************)

\* Every variable has its type.
TypeOK ==
  /\ op \in Ops
  /\ pc \in PCs
  /\ obj \in [Names -> Phases]
  /\ watch \in {"none", "open", "closed"}
  /\ stream \in Seq(Events)
  /\ pods \in 0 .. 1
  /\ err \in {"none", "get", "api", "stream"}
  /\ changes \in 0 .. MaxChanges
  /\ reached \in BOOLEAN /\ lost \in BOOLEAN

\* A nil error means that the target has been in the state waited for, with the two
\* exceptions the code makes: WaitForVMI takes the end of its watch for success, and
\* DestroyNamespace a failing Get for an absent namespace.
SuccessMeansReached ==
  pc = "ok" => \/ reached
               \/ op = "vmi" /\ watch = "closed"
               \/ op = "namespace" /\ err = "get"

\* deployDeployment and the VM launchers hand their caller an empty pod list, whose first
\* element the caller reads, only if the target lost its pod after it was seen ready (or
\* was never waited for, see above).
EmptyPodListOnlyIfLost ==
  pc = "ok" /\ op # "namespace" /\ pods = 0 => lost \/ (op = "vmi" /\ watch = "closed")

\* The process crashes here only if the server failed the watch (WaitForReady reads the
\* name of an object that is no Deployment), or if the VMI lost its pod or was never waited
\* for (GetPodNodeInfo reads the first pod of none).
CrashNeedsCause ==
  pc = "panic" => watch = "closed" \/ (op = "vmi" /\ lost)

\* A Deployment or VMI that is ready and stays so is noticed, however the events about
\* it and the others interleave with the calls.
ReadyIsNoticed ==
  (op # "namespace" /\ <>[](obj[Target] = "ready")) => <>(pc \in Done)

\* A namespace that is still terminating when the events are being read is not missed
\* when it goes.
DeletionIsNoticed ==
  [](op = "namespace" /\ pc = "loop" /\ obj[Target] = "terminating"
       => ([](obj[Target] # "absent") \/ <>(pc \in Done)))
==============================================================================
