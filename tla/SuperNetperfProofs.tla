------------------------- MODULE SuperNetperfProofs -------------------------
(***************************************************************************)
(* Proofs about SuperNetperf for any number of streams, of calls and of    *)
(* lost connections.                                                       *)
(***************************************************************************)
EXTENDS SuperNetperf, WellFoundedInduction, TLAPS

Own(s) == << gen, s >>

\* Where the script is limits what else there is.
ScriptInv ==
  /\ pc # "idle" => gen >= 1
  /\ pc # "start" => running = {}
  /\ pc \in {"process", "report"} => i = loops
  /\ pc = "start" => counted = {}
  /\ pc = "report" => todo = {}

\* A file is of a stream of this call, or of one that was cut off.
FilesInv ==
  \A s \in Streams : tmp[s] # Absent => s < leftover \/ (pc # "idle" /\ s < i)

\* The file of a stream of this call is empty until the stream ends, and never another's.
StreamsInv ==
  \A s \in Streams :
    (s < i /\ (pc = "start" \/ (pc = "process" /\ s \in todo))) =>
      tmp[s] = Empty \/ (s \notin running /\ tmp[s] = Own(s))

\* The loop over the files has removed the ones it has read, and counted each stream or
\* found a file without a figure; anything else it counted was left by a call cut off.
SumInv ==
  pc \in {"process", "report"} =>
    /\ \A s \in Streams : s \in todo <=> tmp[s] # Absent
    /\ \A s \in 0 .. loops - 1 : s \in todo \/ blank \/ Own(s) \in counted
    /\ \A c \in counted : loops < leftover \/ \E s \in 0 .. loops - 1 : c = Own(s)

IInv == TypeOK /\ ScriptInv /\ FilesInv /\ StreamsInv /\ SumInv

-----------------------------------------------------------------------------
\* What CutOff keeps: the larger of two numbers.
LEMMA MaxOfTwo ==
  ASSUME NEW a \in Int, NEW b \in Int
  PROVE  Max({a, b}) = IF a >= b THEN a ELSE b
  <1>1. \E x \in {a, b} : \A y \in {a, b} : x >= y
    OBVIOUS
  <1> QED BY <1>1 DEF Max

\* ls lists something first: a set of natural numbers that is not empty has a least element.
LEMMA MinOfNats ==
  ASSUME NEW S \in SUBSET Nat, S # {}
  PROVE  Min(S) \in S
  <1> DEFINE R == {ss \in Nat \X Nat : ss[1] < ss[2]}
  <1>1. IsWellFoundedOn(R, Nat)
    BY NatLessThanWellFounded, Zenon DEF OpToRel
  <1>2. PICK x \in S : \A y \in S : << y, x >> \notin R
    <2> HIDE DEF R
    <2> QED BY <1>1, WFMin, Zenon
  <1>3. ASSUME NEW y \in S PROVE x =< y
    <2>1. << y, x >> \in Nat \X Nat /\ << y, x >>[1] = y /\ << y, x >>[2] = x
      OBVIOUS
    <2>2. << y, x >> \notin R
      BY <1>2
    <2> QED BY <2>1, <2>2
  <1> QED BY <1>3 DEF Min

\* The initial state satisfies the invariant.
LEMMA InitIInv == Init => IInv
  <1> SUFFICES ASSUME Init PROVE IInv OBVIOUS
  <1>1. tmp \in [Streams -> {Absent, Empty} \cup ((1 .. gen) \X Streams)]
    BY DEF Init
  <1>b. blank \in BOOLEAN
    BY Zenon DEF Init
  <1>t. TypeOK
    BY <1>1, <1>b, BoundsAssumption DEF Init, TypeOK
  <1>2. ScriptInv /\ SumInv BY DEF Init, ScriptInv, SumInv
  <1>3. FilesInv /\ StreamsInv BY DEF Init, FilesInv, StreamsInv
  <1> QED BY <1>t, <1>2, <1>3 DEF IInv

\* Every step preserves the invariant, one action at a time.
LEMMA NextIInv == IInv /\ [Next]_vars => IInv'
  <1> SUFFICES ASSUME IInv, [Next]_vars PROVE IInv' OBVIOUS
  <1> USE BoundsAssumption DEF IInv
  <1>0. /\ Streams \subseteq Nat
        /\ \A s \in Int : s \in Streams <=> 0 <= s /\ s < MaxStreams
        /\ gen \in Nat /\ loops \in Nat /\ i \in Nat /\ leftover \in Nat /\ i <= loops
        /\ loops <= MaxStreams
    BY DEF Streams, TypeOK
  <1>1. CASE Call
    <2>a. 1 .. gen \subseteq 1 .. gen'
      BY <1>0, <1>1 DEF Call
    <2>b. (1 .. gen) \X Streams \subseteq (1 .. gen') \X Streams
      BY <2>a
    <2>c. tmp' \in [Streams -> {Absent, Empty} \cup ((1 .. gen') \X Streams)]
      BY <1>1, <2>b DEF Call, TypeOK
    <2>d. blank' \in BOOLEAN
      BY <1>1, Zenon DEF Call
    <2>1. TypeOK'
      BY <1>0, <1>1, <2>c, <2>d DEF Call, TypeOK
    <2>2. ScriptInv' /\ SumInv' /\ StreamsInv'
      BY <1>0, <1>1 DEF Call, ScriptInv, SumInv, StreamsInv
    <2>3. FilesInv'
      BY <1>1 DEF Call, FilesInv
    <2> QED BY <2>1, <2>2, <2>3
  <1>2. CASE StartStream
    <2>1. TypeOK'
      BY <1>0, <1>2 DEF StartStream, TypeOK
    <2>2. ScriptInv' /\ SumInv'
      BY <1>2 DEF StartStream, ScriptInv, SumInv
    <2>3. FilesInv'
      BY <1>0, <1>2 DEF StartStream, FilesInv, TypeOK
    <2>4. StreamsInv'
      BY <1>0, <1>2 DEF StartStream, StreamsInv, TypeOK, Own
    <2> QED BY <2>1, <2>2, <2>3, <2>4
  <1>3. CASE Wait
    <2>1. TypeOK' /\ ScriptInv' /\ FilesInv'
      BY <1>3 DEF Wait, TypeOK, ScriptInv, FilesInv, Listed
    <2>2. StreamsInv'
      BY <1>3 DEF Wait, StreamsInv, Own
    <2>3. SumInv'
      BY <1>0, <1>3 DEF Wait, SumInv, Listed, StreamsInv, ScriptInv, Own, Absent, Empty
    <2> QED BY <2>1, <2>2, <2>3
  <1>4. CASE ProcessFile
    <2> DEFINE s == Min(todo)
    <2>1. s \in todo /\ s \in Streams
      BY <1>0, <1>4, MinOfNats DEF ProcessFile, TypeOK
    <2>2. /\ todo' = todo \ {s}
          /\ counted' = counted \cup ({tmp[s]} \ {Empty})
          /\ blank' = (blank \/ tmp[s] = Empty)
          /\ tmp' = [tmp EXCEPT ![s] = Absent]
          /\ pc = "process" /\ UNCHANGED << pc, gen, loops, i, running, cuts, leftover >>
      BY <1>4 DEF ProcessFile
    <2> HIDE DEF s
    <2>3. tmp[s] # Absent
      BY <2>1, <2>2 DEF SumInv
    <2>4. TypeOK'
      BY <2>1, <2>2, <2>3 DEF TypeOK
    <2>5. ScriptInv' /\ FilesInv'
      BY <2>1, <2>2 DEF ScriptInv, FilesInv, TypeOK
    <2>6. StreamsInv'
      BY <2>1, <2>2 DEF StreamsInv, TypeOK, Own
    <2>7. s < loops => tmp[s] = Empty \/ tmp[s] = Own(s)
      BY <2>1, <2>2 DEF StreamsInv, ScriptInv
    <2>8. s >= loops => loops < leftover
      BY <1>0, <2>1, <2>2, <2>3 DEF FilesInv, ScriptInv
    <2>9. SumInv'
      <3>1. \A r \in Streams : r \in todo' <=> tmp'[r] # Absent
        BY <2>1, <2>2 DEF SumInv, TypeOK
      <3>2. \A r \in 0 .. loops - 1 : r \in todo' \/ blank' \/ Own(r) \in counted'
        <4> SUFFICES ASSUME NEW r \in 0 .. loops - 1
                     PROVE  r \in todo' \/ blank' \/ Own(r) \in counted'
          OBVIOUS
        <4>1. CASE r = s
          <5>1. s < loops BY <1>0, <4>1
          <5>2. CASE tmp[s] = Empty
            BY <2>2, <5>2, Zenon
          <5>3. CASE tmp[s] # Empty /\ tmp[s] = Own(s)
            BY <2>2, <4>1, <5>3
          <5> QED BY <2>7, <5>1, <5>2, <5>3
        <4>2. CASE r # s
          BY <2>2, <4>2 DEF SumInv
        <4> QED BY <4>1, <4>2
      <3>3. ASSUME NEW c \in counted'
            PROVE  loops < leftover \/ \E r \in 0 .. loops - 1 : c = Own(r)
        <4>1. CASE c \in counted
          BY <2>2, <4>1 DEF SumInv
        <4>2. CASE c = tmp[s] /\ c # Empty
          BY <1>0, <2>1, <2>7, <2>8, <4>2
        <4> QED BY <2>2, <3>3, <4>1, <4>2
      <3> QED BY <2>2, <3>1, <3>2, <3>3 DEF SumInv, Own
    <2> QED BY <2>4, <2>5, <2>6, <2>9
  <1>5. CASE PrintReport
    BY <1>5 DEF PrintReport, TypeOK, ScriptInv, FilesInv, StreamsInv, SumInv, Own
  <1>6. CASE Return
    <2>1. \A s \in Streams : tmp[s] = Absent
      BY <1>6 DEF Return, SumInv, ScriptInv
    <2>2. TypeOK' /\ ScriptInv' /\ SumInv'
      BY <1>6 DEF Return, TypeOK, ScriptInv, SumInv
    <2>3. FilesInv' /\ StreamsInv'
      BY <1>6, <2>1 DEF Return, FilesInv, StreamsInv
    <2> QED BY <2>2, <2>3
  <1>7. CASE CutOff
    <2>1. leftover' = IF leftover >= i THEN leftover ELSE i
      BY <1>0, <1>7, MaxOfTwo DEF CutOff
    <2>2. TypeOK'
      BY <1>0, <1>7, <2>1 DEF CutOff, TypeOK
    <2>3. ScriptInv' /\ SumInv' /\ StreamsInv'
      BY <1>7 DEF CutOff, ScriptInv, SumInv, StreamsInv
    <2>4. FilesInv'
      BY <1>0, <1>7, <2>1 DEF CutOff, FilesInv
    <2> QED BY <2>2, <2>3, <2>4
  <1>8. ASSUME NEW s \in Streams, StreamEnds(s) PROVE IInv'
    <2>1. pc = "start" /\ gen >= 1 /\ s < i
      BY <1>0, <1>8 DEF StreamEnds, ScriptInv, TypeOK
    <2>2. TypeOK'
      BY <1>0, <1>8, <2>1 DEF StreamEnds, TypeOK
    <2>3. ScriptInv' /\ SumInv'
      BY <1>8, <2>1 DEF StreamEnds, ScriptInv, SumInv
    <2>4. FilesInv'
      BY <1>8, <2>1 DEF StreamEnds, FilesInv, TypeOK
    <2>5. StreamsInv'
      BY <1>8, <2>1 DEF StreamEnds, StreamsInv, TypeOK, Own
    <2> QED BY <2>2, <2>3, <2>4, <2>5
  <1>9. CASE UNCHANGED vars
    BY <1>9 DEF vars, TypeOK, ScriptInv, FilesInv, StreamsInv, SumInv, Own
  <1> QED
    BY <1>1, <1>2, <1>3, <1>4, <1>5, <1>6, <1>7, <1>8, <1>9 DEF Next, Deleted

\* The invariant holds throughout.
LEMMA Invariance == Spec => []IInv
  BY InitIInv, NextIInv, PTL DEF Spec

\* Every variable keeps its type, whatever the number of streams, calls and cuts.
THEOREM TypeCorrect == Spec => []TypeOK
  <1>1. IInv => TypeOK BY DEF IInv
  <1> QED BY <1>1, Invariance, PTL

\* A throughput ParseResults accepts is the sum over exactly the streams of this call of
\* super-netperf, unless a call with more streams was cut off and none completed since.
THEOREM AcceptedSumIsOwn == Spec => []SumIsOwn
  <1>1. IInv => SumIsOwn
    <2> SUFFICES ASSUME IInv, Accepted
                 PROVE  LET own == {<< gen, s >> : s \in 0 .. loops - 1}
                        IN  own \subseteq counted /\ (counted = own \/ loops < leftover)
      BY DEF SumIsOwn
    <2>1. /\ \A s \in 0 .. loops - 1 : Own(s) \in counted
          /\ \A c \in counted : loops < leftover \/ \E s \in 0 .. loops - 1 : c = Own(s)
      BY DEF IInv, Accepted, SumInv, ScriptInv
    <2> QED BY <2>1 DEF Own
  <1> QED BY <1>1, Invariance, PTL

\* A call that comes to its end has removed every result file, its own and the ones it found.
THEOREM CompleteCallLeavesNoFile == Spec => []LeavesNoFile
  <1>1. IInv => LeavesNoFile
    BY DEF IInv, LeavesNoFile, SumInv, ScriptInv
  <1> QED BY <1>1, Invariance, PTL
==============================================================================
