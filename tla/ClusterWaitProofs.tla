-------------------------- MODULE ClusterWaitProofs --------------------------
(***************************************************************************)
(* Proofs about ClusterWait for any set of operations, any number of other *)
(* objects and any number of changes the cluster makes by itself.          *)
(***************************************************************************)
EXTENDS ClusterWait, FiniteSetTheorems, TLAPS

\* WaitForVMI takes the end of its watch for success.
GaveUp == op = "vmi" /\ watch = "closed"

\* Which operation gets where.
PlaceInv ==
  /\ pc = "create" => op # "namespace"
  /\ pc = "list" => op # "namespace"
  /\ pc = "nodeinfo" => op = "vmi"

\* The history variables are what the object's past was.
HistoryInv ==
  /\ Goal(obj[Target]) => reached
  /\ ~ Goal(obj[Target]) /\ reached => lost

\* An event on its way is proof of what it tells: whatever the loops take for success has
\* happened, and an error comes with the end of the watch.
Evidence(o, w, r, e) ==
  /\ e.type = "Error" => w = "closed"
  /\ o # "namespace" /\ e.type # "Error" /\ e.name = Target /\ e.phase = "ready" => r
  /\ o = "namespace" /\ e.type = "Deleted" => r
StreamInv == \A k \in 1 .. Len(stream) : Evidence(op, watch, reached, stream[k])

\* Past the loop, the wait was not in vain, or there was none.
WaitedInv ==
  /\ pc \in {"list", "nodeinfo"} => reached \/ GaveUp
  /\ pc \in {"nodeinfo", "ok"} /\ op # "namespace" /\ pods = 0 => lost \/ GaveUp

IInv == /\ TypeOK /\ PlaceInv /\ HistoryInv /\ StreamInv /\ WaitedInv
        /\ SuccessMeansReached /\ CrashNeedsCause

-----------------------------------------------------------------------------
\* An event is what the watch delivers.
LEMMA EventType ==
  ASSUME NEW type \in {"Added", "Modified", "Deleted", "Error"}, NEW n \in Names,
         NEW phase \in Phases
  PROVE  /\ Event(type, n, phase) \in Events
         /\ Event(type, n, phase).type = type
         /\ Event(type, n, phase).name = n
         /\ Event(type, n, phase).phase = phase
  BY DEF Event, Events

\* Evidence stays evidence, as the history variables only grow and a closed watch stays
\* closed: an event that is appended needs evidence of its own.
LEMMA AppendEvidence ==
  ASSUME TypeOK, StreamInv, NEW e \in Events, Evidence(op', watch', reached', e), op' = op,
         watch = "closed" => watch' = "closed", reached => reached',
         stream' = Append(stream, e)
  PROVE  stream' \in Seq(Events) /\ StreamInv'
  <1>1. stream \in Seq(Events) BY DEF TypeOK
  <1>2. /\ stream' \in Seq(Events) /\ Len(stream') = Len(stream) + 1 /\ Len(stream) \in Nat
        /\ \A k \in 1 .. Len(stream) : stream'[k] = stream[k]
        /\ stream'[Len(stream) + 1] = e
    BY <1>1
  <1>3. ASSUME NEW k \in 1 .. Len(stream') PROVE Evidence(op', watch', reached', stream'[k])
    <2>1. CASE k = Len(stream) + 1
      BY <1>2, <2>1
    <2>2. CASE k \in 1 .. Len(stream)
      <3>1. Evidence(op, watch, reached, stream[k]) BY <2>2 DEF StreamInv
      <3>2. Evidence(op', watch', reached', stream[k])
        BY <3>1 DEF Evidence
      <3> QED BY <3>2, <2>2, <1>2
    <2> QED BY <1>2, <2>1, <2>2
  <1> QED BY <1>2, <1>3 DEF StreamInv

\* The same for a stream that stays as it is.
LEMMA KeepEvidence ==
  ASSUME StreamInv, op' = op, watch = "closed" => watch' = "closed", reached => reached',
         stream' = stream
  PROVE  StreamInv'
  BY DEF StreamInv, Evidence

\* Receiving an event takes it from the front.
LEMMA ReceiveEvidence ==
  ASSUME TypeOK, StreamInv, stream # << >>, stream' = Tail(stream),
         op' = op, watch' = watch, reached' = reached
  PROVE  /\ Head(stream) \in Events /\ Evidence(op, watch, reached, Head(stream))
         /\ stream' \in Seq(Events) /\ StreamInv'
  <1>1. stream \in Seq(Events) BY DEF TypeOK
  <1>2. /\ stream' \in Seq(Events) /\ Len(stream) \in Nat \ {0}
        /\ Len(stream') = Len(stream) - 1
        /\ \A k \in 1 .. Len(stream') : stream'[k] = stream[k + 1]
        /\ Head(stream) = stream[1] /\ Head(stream) \in Events
    BY <1>1
  <1>3. ASSUME NEW k \in 1 .. Len(stream') PROVE Evidence(op', watch', reached', stream'[k])
    <2>1. k + 1 \in 1 .. Len(stream) BY <1>2
    <2> QED BY <2>1, <1>2 DEF StreamInv
  <1>4. Evidence(op, watch, reached, Head(stream))
    BY <1>2 DEF StreamInv
  <1> QED BY <1>2, <1>3, <1>4 DEF StreamInv

\* A change of an object the cluster makes.
LEMMA BecomePreserves ==
  ASSUME IInv, NEW n \in Names, NEW phase \in Phases, NEW sent \in Phases,
         NEW type \in {"Modified", "Deleted"}, Become(type, n, phase, sent),
         op # "namespace" /\ n = Target /\ sent = "ready" => reached \/ phase = "ready",
         op = "namespace" /\ type = "Deleted" => phase = "absent",
         pc \notin Done, changes' \in 0 .. MaxChanges,
         UNCHANGED << op, pc, watch, pods, err >>
  PROVE  IInv'
  <1> USE DEF IInv
  <1>0. op' = op /\ pc' = pc /\ watch' = watch /\ pods' = pods /\ err' = err
    OBVIOUS
  <1>1. /\ reached => reached'
        /\ n = Target /\ Goal(phase) => reached'
        /\ reached' => reached \/ (n = Target /\ Goal(phase))
        /\ lost => lost'
        /\ n = Target /\ reached /\ ~ Goal(phase) => lost'
        /\ reached' \in BOOLEAN /\ lost' \in BOOLEAN
    BY Zenon DEF Become, TypeOK
  <1>2. obj' \in [Names -> Phases] /\ obj'[n] = phase
        /\ \A m \in Names : m # n => obj'[m] = obj[m]
    BY DEF Become, TypeOK
  <1>3. HistoryInv'
    <2>1. CASE n = Target
      BY <1>0, <1>1, <1>2, <2>1, Zenon DEF HistoryInv, Goal
    <2>2. CASE n # Target
      <3>1. obj'[Target] = obj[Target] BY <1>2, <2>2 DEF Names
      <3> QED BY <1>0, <1>1, <2>2, <3>1, Zenon DEF HistoryInv, Goal
    <2> QED BY <2>1, <2>2
  <1>4. stream' \in Seq(Events) /\ StreamInv'
    <2>1. CASE stream' = stream
      BY <1>0, <1>1, <2>1, KeepEvidence, Zenon DEF TypeOK
    <2>2. CASE Selected(n) /\ stream' = Append(stream, Event(type, n, sent))
      <3> DEFINE e == Event(type, n, sent)
      <3>1. /\ e \in Events /\ e.type = type /\ e.name = n /\ e.phase = sent
        BY EventType
      <3> HIDE DEF e
      <3>2. Evidence(op', watch', reached', e)
        BY <1>0, <1>1, <2>2, <3>1, Zenon DEF Evidence, Goal, Selected
      <3> QED BY <1>0, <1>1, <2>2, <3>1, <3>2, AppendEvidence, Zenon DEF e
    <2> QED BY <2>1, <2>2 DEF Become
  <1>5. TypeOK'
    BY <1>1, <1>2, <1>4 DEF TypeOK
  <1>6. PlaceInv' /\ WaitedInv' /\ SuccessMeansReached' /\ CrashNeedsCause'
    BY <1>0, <1>1, Zenon DEF PlaceInv, WaitedInv, SuccessMeansReached, CrashNeedsCause, GaveUp, Done
  <1> QED BY <1>3, <1>4, <1>5, <1>6

\* What is left to show of a step of the operation that leaves the cluster alone.
LEMMA CallerPreserves ==
  ASSUME IInv, UNCHANGED cluster, UNCHANGED << op, watch >>,
         stream' \in Seq(Events), StreamInv',
         pc' \in PCs, pods' \in 0 .. 1, err' \in {"none", "get", "api", "stream"},
         PlaceInv', WaitedInv', SuccessMeansReached', CrashNeedsCause'
  PROVE  IInv'
  <1>1. TypeOK' BY DEF IInv, TypeOK, cluster, history
  <1>2. HistoryInv' BY Zenon DEF IInv, HistoryInv, Goal, cluster, history
  <1> QED BY <1>1, <1>2 DEF IInv

\* The same if stream, pods and err stay as well.
LEMMA GotoPreserves ==
  ASSUME IInv, NEW l \in PCs, Goto(l), UNCHANGED cluster,
         PlaceInv', WaitedInv', SuccessMeansReached', CrashNeedsCause'
  PROVE  IInv'
  <1>1. StreamInv' BY KeepEvidence DEF IInv, Goto, cluster, history
  <1> QED BY <1>1, CallerPreserves DEF IInv, TypeOK, Goto

LEMMA FailPreserves ==
  ASSUME IInv, NEW origin \in {"api", "stream"}, Fail(origin), UNCHANGED cluster
  PROVE  IInv'
  <1>1. StreamInv' BY KeepEvidence DEF IInv, Fail, cluster, history
  <1>2. PlaceInv' /\ WaitedInv' /\ SuccessMeansReached' /\ CrashNeedsCause'
    BY DEF Fail, PlaceInv, WaitedInv, SuccessMeansReached, CrashNeedsCause
  <1> QED BY <1>1, <1>2, CallerPreserves DEF IInv, TypeOK, Fail, PCs, Done

LEMMA InitIInv == Init => IInv
  <1> SUFFICES ASSUME Init PROVE IInv OBVIOUS
  <1>1. reached \in BOOLEAN /\ lost \in BOOLEAN /\ HistoryInv
    BY Zenon DEF Init, HistoryInv, Goal
  <1>2. TypeOK
    BY <1>1, BoundAssumption, OpsAssumption DEF Init, TypeOK, PCs, Done, Phases
  <1>3. PlaceInv /\ StreamInv /\ WaitedInv /\ SuccessMeansReached /\ CrashNeedsCause
    BY DEF Init, PlaceInv, StreamInv, WaitedInv, SuccessMeansReached, CrashNeedsCause
  <1> QED BY <1>1, <1>2, <1>3 DEF IInv

\* The cluster and its watches.
LEMMA ClusterIInv ==
  ASSUME IInv, ClusterChange \/ CloseWatch \/ FailWatch
  PROVE  IInv'
  <1> USE DEF IInv
  <1>0. obj \in [Names -> Phases] /\ op \in {"deployment", "vmi", "namespace"}
        /\ Target \in Names
    BY OpsAssumption DEF TypeOK, Names
  <1>1. CASE ClusterChange
    <2>1. /\ pc \notin Done /\ changes' \in 0 .. MaxChanges
          /\ UNCHANGED << op, pc, watch, pods, err >>
      BY <1>1, BoundAssumption DEF ClusterChange, TypeOK
    <2>2. PICK n \in Names :
            \/ obj[n] = "pending" /\ Become("Modified", n, "ready", "ready")
            \/ obj[n] = "ready" /\ op # "namespace"
                 /\ Become("Modified", n, "pending", "pending")
            \/ obj[n] \in {"pending", "ready"} /\ op # "namespace"
                 /\ Become("Deleted", n, "absent", obj[n])
            \/ obj[n] = "terminating" /\ Become("Deleted", n, "absent", "terminating")
      BY <1>1 DEF ClusterChange
    <2>3. /\ obj[n] \in Phases
          /\ {"ready", "pending", "absent", "terminating"} \subseteq Phases
          /\ obj[Target] = "ready" /\ op # "namespace" => reached
      BY <1>0, Zenon DEF Phases, HistoryInv, Goal
    <2>4. CASE Become("Modified", n, "ready", "ready")
      BY <2>1, <2>3, <2>4, BecomePreserves
    <2>5. CASE Become("Modified", n, "pending", "pending")
      BY <2>1, <2>3, <2>5, BecomePreserves
    <2>6. CASE op # "namespace" /\ Become("Deleted", n, "absent", obj[n])
      BY <2>1, <2>3, <2>6, BecomePreserves
    <2>7. CASE Become("Deleted", n, "absent", "terminating")
      BY <2>1, <2>3, <2>7, BecomePreserves
    <2> QED BY <2>2, <2>4, <2>5, <2>6, <2>7
  <1>2. CASE CloseWatch
    <2>1. StreamInv' BY <1>2, KeepEvidence DEF CloseWatch, history
    <2>2. TypeOK' BY <1>2 DEF CloseWatch, history, TypeOK
    <2>3. PlaceInv' /\ HistoryInv' /\ WaitedInv' /\ SuccessMeansReached' /\ CrashNeedsCause'
      BY <1>2 DEF CloseWatch, history, PlaceInv, HistoryInv, Goal, WaitedInv,
                  SuccessMeansReached, CrashNeedsCause, GaveUp, Done
    <2> QED BY <2>1, <2>2, <2>3
  <1>3. CASE FailWatch
    <2> DEFINE e == Event("Error", Target, "absent")
    <2>1. e \in Events /\ e.type = "Error"
      BY <1>0, EventType DEF Phases
    <2> HIDE DEF e
    <2>2. Evidence(op', watch', reached', e)
      BY <1>3, <2>1 DEF Evidence, FailWatch
    <2>3. stream' \in Seq(Events) /\ StreamInv'
      BY <1>3, <2>1, <2>2, AppendEvidence DEF FailWatch, history, e
    <2>4. TypeOK' BY <1>3, <2>3 DEF FailWatch, history, TypeOK
    <2>5. PlaceInv' /\ HistoryInv' /\ WaitedInv' /\ SuccessMeansReached' /\ CrashNeedsCause'
      BY <1>3 DEF FailWatch, history, PlaceInv, HistoryInv, Goal, WaitedInv,
                  SuccessMeansReached, CrashNeedsCause, GaveUp, Done
    <2> QED BY <2>3, <2>4, <2>5
  <1> QED BY <1>1, <1>2, <1>3

\* A new watch begins with the objects there are: what it tells of the target is true.
LEMMA OpenWatchIInv ==
  ASSUME IInv, OpenWatch
  PROVE  IInv'
  <1> USE DEF IInv
  <1> DEFINE S == {n \in Names : obj[n] # "absent" /\ Selected(n)}
  <1>1. Cardinality(S) \in Nat
    <2>1. IsFiniteSet(Names)
      BY TargetAssumption, FS_AddElement DEF Names
    <2> QED BY <2>1, FS_Subset, FS_CardinalityType
  <1>2. PICK q \in SetToSeqs(S) :
          stream' = [k \in DOMAIN q |-> Event("Added", q[k], obj[q[k]])]
    BY DEF OpenWatch
  <1>3. q \in [1 .. Cardinality(S) -> S]
    BY DEF SetToSeqs
  <1>4. ASSUME NEW k \in 1 .. Cardinality(S)
        PROVE  /\ stream'[k] \in Events /\ stream'[k].type = "Added"
               /\ stream'[k].name = q[k] /\ stream'[k].phase = obj[q[k]]
    <2>1. q[k] \in Names /\ obj[q[k]] \in Phases
      BY <1>3 DEF TypeOK
    <2>2. stream'[k] = Event("Added", q[k], obj[q[k]])
      BY <1>2, <1>3
    <2> QED BY <2>1, <2>2, EventType
  <1>5. stream' \in Seq(Events) /\ Len(stream') = Cardinality(S)
    BY <1>1, <1>2, <1>3, <1>4
  <1>6. /\ pc' = "loop" /\ watch' = "open" /\ op' = op /\ pods' = pods /\ err' = err
        /\ obj' = obj /\ changes' = changes /\ reached' = reached /\ lost' = lost
    BY DEF OpenWatch, cluster, history
  <1>7. StreamInv'
    <2> SUFFICES ASSUME NEW k \in 1 .. Cardinality(S)
                 PROVE  Evidence(op', watch', reached', stream'[k])
      BY <1>5 DEF StreamInv
    <2>1. op # "namespace" /\ obj[Target] = "ready" => reached
      BY DEF HistoryInv, Goal
    <2> QED BY <1>4, <1>6, <2>1 DEF Evidence
  <1>8. TypeOK'
    BY <1>5, <1>6 DEF TypeOK, PCs
  <1>9. PlaceInv' /\ HistoryInv' /\ WaitedInv' /\ SuccessMeansReached' /\ CrashNeedsCause'
    BY <1>6 DEF PlaceInv, HistoryInv, Goal, WaitedInv, SuccessMeansReached, CrashNeedsCause
  <1> QED BY <1>7, <1>8, <1>9

\* The three loops over the events.
LEMMA LoopIInv ==
  ASSUME IInv, WaitForReady \/ WaitForVMI \/ WaitForNamespaceDelete
  PROVE  IInv'
  <1> USE DEF IInv
  <1>1. /\ stream # << >> /\ stream' = Tail(stream) /\ UNCHANGED << op, watch, pods, err >>
        /\ UNCHANGED cluster /\ reached' = reached /\ lost' = lost
        /\ pc = "loop"
    BY DEF WaitForReady, WaitForVMI, WaitForNamespaceDelete, Receive, cluster, history
  <1> DEFINE e == Head(stream)
  <1>2. /\ e \in Events /\ Evidence(op, watch, reached, e)
        /\ stream' \in Seq(Events) /\ StreamInv'
    BY <1>1, ReceiveEvidence
  <1>3. \/ pc' = "loop" \/ pc' = "error"
        \/ pc' = "panic" /\ watch = "closed"
        \/ pc' = "list" /\ op # "namespace" /\ reached
        \/ pc' = "ok" /\ op = "namespace" /\ reached
    <2> HIDE DEF e
    <2>1. CASE WaitForReady
      BY <1>2, <2>1 DEF WaitForReady, Evidence, e
    <2>2. CASE WaitForVMI
      BY <1>2, <2>2 DEF WaitForVMI, Evidence, e
    <2>3. CASE WaitForNamespaceDelete
      BY <1>2, <2>3 DEF WaitForNamespaceDelete, Evidence, e
    <2> QED BY <2>1, <2>2, <2>3
  <1>4. PlaceInv' /\ WaitedInv' /\ SuccessMeansReached' /\ CrashNeedsCause'
    BY <1>1, <1>3 DEF PlaceInv, WaitedInv, SuccessMeansReached, CrashNeedsCause
  <1>5. pc' \in PCs BY <1>3 DEF PCs, Done
  <1> QED BY <1>1, <1>2, <1>4, <1>5, CallerPreserves DEF TypeOK

\* The other calls of the operation.
LEMMA CallIInv ==
  ASSUME IInv, \/ DestroyGet \/ DestroyDelete \/ CreateDeployment \/ Create \/ ApiError
               \/ StreamEnds \/ GetPods \/ GetPodNodeInfo
  PROVE  IInv'
  <1> USE DEF IInv
  <1>0. /\ Target \in Names /\ obj \in [Names -> Phases]
        /\ op = "namespace" /\ obj[Target] = "absent" => reached
        /\ op # "namespace" /\ obj[Target] # "ready" /\ reached => lost
    BY DEF TypeOK, Names, HistoryInv, Goal
  <1>1. CASE DestroyGet
    <2>1. op = "namespace" /\ UNCHANGED cluster BY <1>1 DEF DestroyGet
    <2>2. CASE obj[Target] = "absent" /\ Goto("ok")
      <3>1. PlaceInv' /\ WaitedInv' /\ SuccessMeansReached' /\ CrashNeedsCause'
        BY <1>0, <2>1, <2>2 DEF Goto, cluster, history, PlaceInv, WaitedInv,
                                SuccessMeansReached, CrashNeedsCause
      <3> QED BY <2>1, <2>2, <3>1, GotoPreserves DEF PCs, Done
    <2>3. CASE Goto("delete")
      <3>1. PlaceInv' /\ WaitedInv' /\ SuccessMeansReached' /\ CrashNeedsCause'
        BY <2>3 DEF Goto, PlaceInv, WaitedInv, SuccessMeansReached, CrashNeedsCause
      <3> QED BY <2>1, <2>3, <3>1, GotoPreserves DEF PCs
    <2>4. CASE pc' = "ok" /\ err' = "get" /\ UNCHANGED << op, watch, stream, pods >>
      <3>1. PlaceInv' /\ WaitedInv' /\ SuccessMeansReached' /\ CrashNeedsCause'
        BY <2>1, <2>4 DEF PlaceInv, WaitedInv, SuccessMeansReached, CrashNeedsCause
      <3>2. StreamInv' BY <2>1, <2>4, KeepEvidence DEF cluster, history
      <3> QED BY <2>1, <2>4, <3>1, <3>2, CallerPreserves DEF TypeOK, PCs, Done
    <2> QED BY <1>1, <2>2, <2>3, <2>4 DEF DestroyGet
  <1>2. CASE DestroyDelete
    <2>1. CASE Fail("api") /\ UNCHANGED cluster
      BY <2>1, FailPreserves
    <2>2. CASE /\ obj[Target] # "absent" /\ Goto("watch")
               /\ obj' = [obj EXCEPT ![Target] = "terminating"]
               /\ UNCHANGED << changes, history >>
      <3>1. StreamInv' BY <2>2, KeepEvidence DEF Goto, history
      <3>2. TypeOK'
        BY <1>0, <2>2 DEF TypeOK, Goto, history, PCs, Phases
      <3>3. HistoryInv'
        BY <1>0, <1>2, <2>2 DEF HistoryInv, Goal, DestroyDelete, Goto, history
      <3>4. PlaceInv' /\ WaitedInv' /\ SuccessMeansReached' /\ CrashNeedsCause'
        BY <2>2 DEF Goto, PlaceInv, WaitedInv, SuccessMeansReached, CrashNeedsCause
      <3> QED BY <3>1, <3>2, <3>3, <3>4
    <2> QED BY <1>2, <2>1, <2>2 DEF DestroyDelete
  <1>3. CASE CreateDeployment
    <2>1. UNCHANGED cluster /\ op = "deployment" BY <1>3 DEF CreateDeployment
    <2>2. PICK l \in {"watch", "create"} : Goto(l)
      BY <1>3 DEF CreateDeployment
    <2>3. PlaceInv' /\ WaitedInv' /\ SuccessMeansReached' /\ CrashNeedsCause'
      BY <2>1, <2>2 DEF Goto, PlaceInv, WaitedInv, SuccessMeansReached, CrashNeedsCause
    <2> QED BY <2>1, <2>2, <2>3, GotoPreserves DEF PCs
  <1>4. CASE Create
    <2>1. CASE Fail("api") /\ UNCHANGED cluster
      BY <2>1, FailPreserves
    <2>2. CASE /\ obj[Target] = "absent" /\ Goto("watch")
               /\ obj' = [obj EXCEPT ![Target] = "pending"]
               /\ UNCHANGED << changes, history >>
      <3>1. StreamInv' BY <2>2, KeepEvidence DEF Goto, history
      <3>2. TypeOK'
        BY <1>0, <2>2 DEF TypeOK, Goto, history, PCs, Phases
      <3>3. HistoryInv'
        BY <1>0, <1>4, <2>2 DEF HistoryInv, Goal, Create, Goto, history, PlaceInv
      <3>4. PlaceInv' /\ WaitedInv' /\ SuccessMeansReached' /\ CrashNeedsCause'
        BY <2>2 DEF Goto, PlaceInv, WaitedInv, SuccessMeansReached, CrashNeedsCause
      <3> QED BY <3>1, <3>2, <3>3, <3>4
    <2> QED BY <1>4, <2>1, <2>2 DEF Create
  <1>5. CASE ApiError
    BY <1>5, FailPreserves DEF ApiError
  <1>6. CASE StreamEnds
    <2>1. CASE Fail("stream") /\ UNCHANGED cluster
      BY <2>1, FailPreserves
    <2>2. CASE op = "vmi" /\ watch = "closed" /\ Goto("list") /\ UNCHANGED cluster
      <3>1. PlaceInv' /\ WaitedInv' /\ SuccessMeansReached' /\ CrashNeedsCause'
        BY <2>2 DEF Goto, PlaceInv, WaitedInv, SuccessMeansReached, CrashNeedsCause, GaveUp
      <3> QED BY <2>2, <3>1, GotoPreserves DEF PCs
    <2> QED BY <1>6, <2>1, <2>2 DEF StreamEnds
  <1>7. CASE GetPods
    <2>1. /\ pc = "list" /\ pods' \in 0 .. 1 /\ (obj[Target] = "ready" => pods' = 1)
          /\ op # "namespace" /\ (reached \/ GaveUp)
          /\ pc' = IF op = "vmi" THEN "nodeinfo" ELSE "ok"
          /\ UNCHANGED << op, watch, stream, err >> /\ UNCHANGED cluster
          /\ reached' = reached /\ lost' = lost
      BY <1>7 DEF GetPods, PlaceInv, WaitedInv, cluster, history
    <2>2. StreamInv' BY <2>1, KeepEvidence
    <2>3. PlaceInv' /\ WaitedInv' /\ SuccessMeansReached' /\ CrashNeedsCause'
      BY <1>0, <2>1 DEF PlaceInv, WaitedInv, SuccessMeansReached, CrashNeedsCause, GaveUp
    <2> QED BY <2>1, <2>2, <2>3, CallerPreserves DEF TypeOK, PCs, Done
  <1>8. CASE GetPodNodeInfo
    <2>1. /\ pc = "nodeinfo" /\ op = "vmi" /\ (reached \/ GaveUp) /\ UNCHANGED cluster
          /\ (pods = 0 => lost \/ GaveUp)
      BY <1>8 DEF GetPodNodeInfo, PlaceInv, WaitedInv
    <2>2. CASE Goto("ok")
      <3>1. PlaceInv' /\ WaitedInv' /\ SuccessMeansReached' /\ CrashNeedsCause'
        BY <2>1, <2>2 DEF Goto, cluster, history, PlaceInv, WaitedInv, SuccessMeansReached,
                          CrashNeedsCause, GaveUp
      <3> QED BY <2>1, <2>2, <3>1, GotoPreserves DEF PCs, Done
    <2>3. CASE obj[Target] # "ready" /\ Goto("panic")
      <3>1. PlaceInv' /\ WaitedInv' /\ SuccessMeansReached' /\ CrashNeedsCause'
        BY <1>0, <2>1, <2>3 DEF Goto, cluster, history, PlaceInv, WaitedInv,
                                SuccessMeansReached, CrashNeedsCause, GaveUp
      <3> QED BY <2>1, <2>3, <3>1, GotoPreserves DEF PCs, Done
    <2> QED BY <1>8, <2>2, <2>3 DEF GetPodNodeInfo
  <1> QED BY <1>1, <1>2, <1>3, <1>4, <1>5, <1>6, <1>7, <1>8

\* The invariant holds throughout.
LEMMA Invariance == Spec => []IInv
  <1>1. IInv /\ [Next]_vars => IInv'
    <2> SUFFICES ASSUME IInv, [Next]_vars PROVE IInv' OBVIOUS
    <2>1. CASE Step
      BY <2>1, OpenWatchIInv, LoopIInv, CallIInv DEF Step
    <2>2. CASE UNCHANGED vars
      BY <2>2 DEF vars, IInv, TypeOK, PlaceInv, HistoryInv, Goal, StreamInv, WaitedInv,
                  SuccessMeansReached, CrashNeedsCause, GaveUp
    <2> QED BY <2>1, <2>2, ClusterIInv DEF Next, Exited
  <1> QED BY <1>1, InitIInv, PTL DEF Spec

\* Every variable keeps its type, and every event on its way is a well-formed one.
THEOREM TypeCorrect == Spec => []TypeOK
  <1>1. IInv => TypeOK BY DEF IInv
  <1> QED BY <1>1, Invariance, PTL

\* WaitForReady, WaitForVMI and DestroyNamespace return nil only after the target was in the
\* state waited for, but for the two exceptions the code makes, however the cluster moves
\* between the calls and whatever the watch tells of other objects.
THEOREM NilErrorMeansReached == Spec => []SuccessMeansReached
  <1>1. IInv => SuccessMeansReached BY DEF IInv
  <1> QED BY <1>1, Invariance, PTL

\* The pod lists BuildSUT gets are empty only if the target lost its pod after it was ready.
THEOREM PodListEmptyOnlyIfLost == Spec => []EmptyPodListOnlyIfLost
  <1>1. IInv => EmptyPodListOnlyIfLost
    BY DEF IInv, EmptyPodListOnlyIfLost, WaitedInv, GaveUp
  <1> QED BY <1>1, Invariance, PTL

\* WaitForReady and GetPodNodeInfo dereference nothing that is not there, unless the server
\* failed the watch or the VMI lost its pod.
THEOREM PanicNeedsCause == Spec => []CrashNeedsCause
  <1>1. IInv => CrashNeedsCause BY DEF IInv
  <1> QED BY <1>1, Invariance, PTL
==============================================================================
