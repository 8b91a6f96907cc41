---------------------------- MODULE ReportProofs ----------------------------
(***************************************************************************)
(* Proofs about Report, for every set of finished measurements, every      *)
(* number of attempts and every answer of Prometheus.                      *)
(***************************************************************************)
EXTENDS Report, FiniteSetTheorems, WellFoundedInduction, TLAPS

(***************************************************************************)
(* The results as a sequence: Nth enumerates the iterations that ran.      *)
(***************************************************************************)

\* The number of elements of S up to k.
Rank(S, k) == Cardinality({j \in S : j <= k})

\* Ranks count from one, and grow with the element.
LEMMA RankGrows ==
  ASSUME NEW S, S \subseteq Nat, IsFiniteSet(S), NEW k \in S
  PROVE  /\ Rank(S, k) \in 1 .. Cardinality(S)
         /\ \A j \in S : j < k => Rank(S, j) < Rank(S, k)
  <1> DEFINE Upto(m) == {j \in S : j <= m}
  <1>1. /\ IsFiniteSet(Upto(k)) /\ Cardinality(Upto(k)) <= Cardinality(S)
        /\ Cardinality(Upto(k)) \in Nat /\ Cardinality(S) \in Nat
    BY FS_Subset, FS_CardinalityType
  <1>2. Cardinality(Upto(k)) # 0
    <2>1. k \in Upto(k)
      OBVIOUS
    <2> QED BY <1>1, <2>1, FS_EmptySet
  <1>3. ASSUME NEW j \in S, j < k PROVE Cardinality(Upto(j)) < Cardinality(Upto(k))
    <2>1. Upto(j) \in SUBSET Upto(k) /\ k \in Upto(k) /\ k \notin Upto(j)
      <3>1. j \in Nat /\ k \in Nat
        OBVIOUS
      <3>2. \A a \in Nat : a <= j => a <= k
        BY <1>3, <3>1
      <3>3. Upto(j) \in SUBSET Upto(k)
        BY <3>2
      <3> QED BY <1>3, <3>1, <3>3
    <2> HIDE DEF Upto
    <2>2. /\ Cardinality(Upto(j)) <= Cardinality(Upto(k))
          /\ Cardinality(Upto(k)) # Cardinality(Upto(j)) /\ IsFiniteSet(Upto(j))
      BY <1>1, <2>1, FS_Subset
    <2> QED BY <1>1, <2>2, FS_CardinalityType
  <1> QED BY <1>1, <1>2, <1>3 DEF Rank

\* Every rank from one to the size of S is the rank of an element.
LEMMA RankIsOnto ==
  ASSUME NEW S, S \subseteq Nat, IsFiniteSet(S), NEW m \in 1 .. Cardinality(S)
  PROVE  \E k \in S : Rank(S, k) = m
  <1> DEFINE T == 1 .. Cardinality(S)
             f == [k \in S |-> Rank(S, k)]
  <1>1. Cardinality(S) \in Nat
    BY FS_CardinalityType
  <1>2. IsFiniteSet(T) /\ Cardinality(T) = Cardinality(S)
    BY <1>1, FS_Interval
  <1>3. f \in [S -> T]
    BY RankGrows
  <1>4. \A a, b \in S : f[a] = f[b] => a = b
    <2> SUFFICES ASSUME NEW a \in S, NEW b \in S, a # b PROVE Rank(S, a) # Rank(S, b)
      OBVIOUS
    <2>1. a < b \/ b < a
      OBVIOUS
    <2>2. Rank(S, a) < Rank(S, b) \/ Rank(S, b) < Rank(S, a)
      BY <2>1, RankGrows
    <2>3. Rank(S, a) \in 1 .. Cardinality(S) /\ Rank(S, b) \in 1 .. Cardinality(S)
      BY RankGrows
    <2> QED BY <1>1, <2>2, <2>3
  <1>5. f \in Injection(S, T)
    BY <1>3, <1>4 DEF Injection, IsInjective
  <1>6. f \in Surjection(S, T)
    <2> HIDE DEF f, T
    <2> QED BY <1>2, <1>5, FS_Injection
  <1>7. PICK k \in S : f[k] = m
    BY <1>6 DEF Surjection
  <1> QED BY <1>7

\* Nth(S, m) is the element of rank m; so Nth numbers the elements of S, each once.
LEMMA NthNumbers ==
  ASSUME NEW S, S \subseteq Nat, IsFiniteSet(S)
  PROVE  /\ Cardinality(S) \in Nat
         /\ \A m \in 1 .. Cardinality(S) : Nth(S, m) \in S
         /\ \A m, n \in 1 .. Cardinality(S) : Nth(S, m) = Nth(S, n) => m = n
         /\ \A k \in S : \E m \in 1 .. Cardinality(S) : Nth(S, m) = k
  <1>1. \A m \in 1 .. Cardinality(S) : Nth(S, m) \in S /\ Rank(S, Nth(S, m)) = m
    <2> SUFFICES ASSUME NEW m \in 1 .. Cardinality(S)
                 PROVE  Nth(S, m) \in S /\ Rank(S, Nth(S, m)) = m
      OBVIOUS
    <2>1. \E k \in S : Rank(S, k) = m
      BY RankIsOnto
    <2>2. Nth(S, m) = CHOOSE k \in S : Rank(S, k) = m
      BY DEF Nth, Rank
    <2> QED BY <2>1, <2>2
  <1>2. ASSUME NEW k \in S PROVE \E m \in 1 .. Cardinality(S) : Nth(S, m) = k
    <2> DEFINE m == Rank(S, k)
               n == Nth(S, m)
    <2>1. m \in 1 .. Cardinality(S)
      BY RankGrows
    <2>2. n \in S /\ Rank(S, n) = m
      BY <1>1, <2>1
    <2> HIDE DEF n
    <2>3. Cardinality(S) \in Nat
      BY FS_CardinalityType
    <2>4. n < k => Rank(S, n) < Rank(S, k)
      BY <2>2, RankGrows
    <2>5. k < n => Rank(S, k) < Rank(S, n)
      BY <2>2, RankGrows
    <2>6. n = k
      BY <2>1, <2>2, <2>3, <2>4, <2>5
    <2> QED BY <2>1, <2>6 DEF n
  <1> QED BY <1>1, <1>2, FS_CardinalityType

----------------------------------------------------------------------------
(***************************************************************************)
(* Where the iterations are.                                               *)
(***************************************************************************)

\* Quotient and remainder of a number below b * c.
LEMMA DivBelow ==
  ASSUME NEW a \in Nat, NEW b \in Nat \ {0}, NEW c \in Nat, a < b * c
  PROVE  /\ a \div b \in 0 .. c - 1 /\ a % b \in 0 .. b - 1
         /\ a = b * (a \div b) + (a % b)
  <1>1. a \div b \in Nat /\ a % b \in 0 .. b - 1 /\ a = b * (a \div b) + (a % b)
    OBVIOUS
  <1>2. a \div b < c
    <2> DEFINE d == a \div b
    <2>1. d \in Nat /\ b * d <= a
      BY <1>1
    <2> HIDE DEF d
    <2>2. SUFFICES ASSUME d >= c PROVE FALSE
      BY <2>1 DEF d
    <2>3. b * d >= b * c
      BY <2>1, <2>2
    <2> QED BY <2>1, <2>3
  <1> QED BY <1>1, <1>2

LEMMA DivMod ==
  ASSUME NEW a \in Nat, NEW b \in Nat \ {0}
  PROVE  a \div b \in Nat /\ a % b \in 0 .. b - 1 /\ a = b * (a \div b) + (a % b)
  OBVIOUS

LEMMA DivOf ==
  ASSUME NEW b \in Nat \ {0}, NEW d \in Nat, NEW r \in 0 .. b - 1
  PROVE  (b * d + r) \div b = d /\ (b * d + r) % b = r
  OBVIOUS

\* The configuration and the driver of iteration k, counted from zero.
ConfigOf(x, k) == ((k - 1) % (2 * Len(x.drivers) * Len(x.configs))) \div (2 * Len(x.drivers))
DriverOf(x, k) ==
  (((k - 1) % (2 * Len(x.drivers) * Len(x.configs))) % (2 * Len(x.drivers))) \div 2

TestType == [cfg : ConfigType, driver : DriverNames, hostNet : BOOLEAN, virt : BOOLEAN]

LEMMA PositionsInRange ==
  ASSUME NEW x \in InputType, NEW k \in 1 .. 4 * Len(x.drivers) * Len(x.configs)
  PROVE  /\ Len(x.drivers) \in Nat \ {0} /\ Len(x.configs) \in Nat \ {0}
         /\ ConfigOf(x, k) \in 0 .. Len(x.configs) - 1
         /\ DriverOf(x, k) \in 0 .. Len(x.drivers) - 1
  <1> DEFINE nd == Len(x.drivers)
             nc == Len(x.configs)
  <1>1. nd \in Nat /\ nc \in Nat
    BY DEF InputType
  <1> HIDE DEF nd, nc
  <1>2. 1 <= 4 * nd * nc /\ k \in Nat /\ k >= 1
    <2>1. 4 * nd * nc \in Nat
      BY <1>1
    <2>2. k \in 1 .. 4 * nd * nc
      BY DEF nd, nc
    <2> QED BY <2>1, <2>2
  <1>3. nd # 0 /\ nc # 0
    BY <1>1, <1>2
  <1>4. 2 * nd * nc \in Nat \ {0} /\ 2 * nd \in Nat \ {0} /\ 2 * nd * nc = (2 * nd) * nc
    BY <1>1, <1>3
  <1> DEFINE a == (k - 1) % (2 * nd * nc)
             r == a % (2 * nd)
  <1>5. a \in Nat /\ a < (2 * nd) * nc
    BY <1>2, <1>4
  <1> HIDE DEF a
  <1>6. a \div (2 * nd) \in 0 .. nc - 1 /\ r \in 0 .. 2 * nd - 1
    BY <1>1, <1>4, <1>5, DivBelow
  <1> HIDE DEF r
  <1>7. r \in Nat /\ r < 2 * nd
    BY <1>1, <1>6
  <1>8. r \div 2 \in 0 .. nd - 1
    BY <1>1, <1>7, DivBelow
  <1> QED BY <1>1, <1>3, <1>6, <1>8 DEF ConfigOf, DriverOf, nd, nc, a, r

\* Every iteration is a test of the configurations and drivers.
LEMMA TestTyped ==
  ASSUME NEW x \in InputType, NEW k \in 1 .. 4 * Len(x.drivers) * Len(x.configs)
  PROVE  /\ TestAt(x, k).cfg = x.configs[ConfigOf(x, k) + 1]
         /\ TestAt(x, k).driver = x.drivers[DriverOf(x, k) + 1]
         /\ TestAt(x, k).hostNet <=> k % 2 = 1
         /\ TestAt(x, k).virt <=> k > 2 * Len(x.drivers) * Len(x.configs)
         /\ TestAt(x, k) \in TestType
  <1> DEFINE h == k % 2 = 1
             v == k > 2 * Len(x.drivers) * Len(x.configs)
             cf == x.configs[ConfigOf(x, k) + 1]
             dr == x.drivers[DriverOf(x, k) + 1]
  <1>1. TestAt(x, k) = [cfg |-> cf, driver |-> dr, hostNet |-> h, virt |-> v]
    BY DEF TestAt, ConfigOf, DriverOf
  <1>2. x.configs \in Seq(ConfigType) /\ x.drivers \in Seq(DriverNames)
    BY DEF InputType
  <1>3. /\ ConfigOf(x, k) + 1 \in 1 .. Len(x.configs)
        /\ DriverOf(x, k) + 1 \in 1 .. Len(x.drivers)
    <2>1. /\ Len(x.drivers) \in Nat \ {0} /\ Len(x.configs) \in Nat \ {0}
          /\ ConfigOf(x, k) \in 0 .. Len(x.configs) - 1
          /\ DriverOf(x, k) \in 0 .. Len(x.drivers) - 1
      BY PositionsInRange
    <2> QED BY <2>1
  <1>4. cf \in ConfigType /\ dr \in DriverNames
    BY <1>2, <1>3
  <1>5. h \in BOOLEAN /\ v \in BOOLEAN
    OBVIOUS
  <1> HIDE DEF h, v, cf, dr
  <1>6. /\ TestAt(x, k).cfg = cf /\ TestAt(x, k).driver = dr
        /\ TestAt(x, k).hostNet = h /\ TestAt(x, k).virt = v
    BY <1>1
  <1>7. TestAt(x, k) \in TestType
    BY <1>1, <1>4, <1>5 DEF TestType
  <1> QED BY <1>6, <1>7, Zenon DEF h, v, cf, dr

\* A test on the host network is followed by the same test on the pod network.
LEMMA PodPartner ==
  ASSUME NEW x \in InputType, NEW k \in RunAt(x), TestAt(x, k).hostNet, x.host # "only"
  PROVE  /\ k + 1 \in RunAt(x)
         /\ ~ TestAt(x, k).virt /\ ~ TestAt(x, k + 1).virt /\ ~ TestAt(x, k + 1).hostNet
         /\ TestAt(x, k + 1).cfg = TestAt(x, k).cfg
         /\ TestAt(x, k + 1).driver = TestAt(x, k).driver
  <1> DEFINE nd == Len(x.drivers)
             nc == Len(x.configs)
  <1>1. k \in 1 .. 4 * nd * nc /\ IsRun(x, TestAt(x, k))
    BY DEF RunAt
  <1>2. nd \in Nat \ {0} /\ nc \in Nat \ {0}
    BY <1>1, PositionsInRange
  <1>3. /\ TestAt(x, k).hostNet <=> k % 2 = 1
        /\ TestAt(x, k).virt <=> k > 2 * nd * nc
    BY <1>1, TestTyped
  <1>4. k % 2 = 1 /\ ~ TestAt(x, k).virt /\ x.pod
    BY <1>1, <1>3 DEF IsRun
  <1>5. IsTestSupported(TestAt(x, k).driver, TestAt(x, k).cfg.profile)
    BY <1>1 DEF IsRun
  <1> HIDE DEF nd, nc
  <1> DEFINE e == nd * nc
  <1>6. /\ e \in Nat \ {0} /\ 2 * nd * nc = 2 * e /\ 4 * nd * nc = 4 * e
        /\ k \in Nat /\ k >= 1 /\ k <= 2 * e
    BY <1>1, <1>2, <1>3, <1>4
  <1> HIDE DEF e
  <1>7. k < 2 * e /\ k + 1 \in 1 .. 4 * e /\ k - 1 \in Nat /\ (k + 1) % 2 # 1 /\ ~ (k + 1 > 2 * e)
    BY <1>4, <1>6
  <1>8. (k - 1) % (2 * e) = k - 1 /\ k % (2 * e) = k
    BY <1>6, <1>7
  <1> DEFINE b == 2 * nd
             c == (k - 1) \div b
             r == (k - 1) % b
  <1>9. b \in Nat \ {0}
    BY <1>2
  <1>10. c \in Nat /\ r \in 0 .. b - 1 /\ k - 1 = b * c + r
    <2> HIDE DEF b
    <2> QED BY <1>7, <1>9, DivMod
  <1>11. r % 2 = 0 /\ r + 1 \in 0 .. b - 1
    <2>1. b * c = 2 * (nd * c) /\ nd * c \in Nat
      BY <1>2, <1>10
    <2>2. r \in Nat /\ r < 2 * nd
      BY <1>2, <1>10
    <2> HIDE DEF c, r
    <2>3. (k - 1) % 2 = 0
      BY <1>4, <1>6
    <2>4. PICK n \in Nat : n = nd * c
      BY <2>1
    <2>5. k - 1 = 2 * n + r
      BY <1>10, <2>1, <2>4
    <2>6. r % 2 = 0
      BY <2>2, <2>3, <2>5, <1>6
    <2> QED BY <1>2, <2>2, <2>6
  <1>12. k = b * c + (r + 1)
    <2>1. b * c \in Nat
      BY <1>9, <1>10
    <2> HIDE DEF b, c, r
    <2> QED BY <1>6, <1>9, <1>10, <2>1
  <1>13. k \div b = c /\ k % b = r + 1
    <2> HIDE DEF b, c, r
    <2> QED BY <1>9, <1>10, <1>11, <1>12, DivOf
  <1>14. (r + 1) \div 2 = r \div 2
    <2> HIDE DEF r
    <2> QED BY <1>9, <1>10, <1>11
  <1>15. ConfigOf(x, k + 1) = ConfigOf(x, k) /\ DriverOf(x, k + 1) = DriverOf(x, k)
    <2>1. (k + 1) - 1 = k
      BY <1>6
    <2>2. ConfigOf(x, k) = c /\ DriverOf(x, k) = r \div 2
      BY <1>6, <1>8 DEF ConfigOf, DriverOf, nd, nc
    <2>3. ConfigOf(x, k + 1) = k \div b /\ DriverOf(x, k + 1) = (k % b) \div 2
      BY <1>6, <1>8, <2>1 DEF ConfigOf, DriverOf, nd, nc
    <2> HIDE DEF b, c, r
    <2> QED BY <1>13, <1>14, <2>2, <2>3
  <1>16. /\ TestAt(x, k + 1).cfg = TestAt(x, k).cfg
         /\ TestAt(x, k + 1).driver = TestAt(x, k).driver
         /\ ~ TestAt(x, k + 1).hostNet /\ ~ TestAt(x, k + 1).virt
    BY <1>1, <1>6, <1>7, <1>15, TestTyped DEF nd, nc
  <1>17. IsRun(x, TestAt(x, k + 1))
    BY <1>4, <1>5, <1>16 DEF IsRun
  <1> QED BY <1>4, <1>6, <1>7, <1>16, <1>17 DEF RunAt, nd, nc

\* With one driver and different message sizes, the network and the size tell the tests of
\* pods apart.
LEMMA OneTestPerSize ==
  ASSUME NEW x \in InputType, Len(x.drivers) = 1,
         \A a, b \in DOMAIN x.configs : x.configs[a].msg = x.configs[b].msg => a = b,
         NEW k \in RunAt(x), NEW l \in RunAt(x),
         ~ TestAt(x, k).virt, ~ TestAt(x, l).virt,
         TestAt(x, k).hostNet = TestAt(x, l).hostNet,
         TestAt(x, k).cfg.msg = TestAt(x, l).cfg.msg
  PROVE  k = l
  <1> DEFINE nc == Len(x.configs)
  <1>1. k \in 1 .. 4 * 1 * nc /\ l \in 1 .. 4 * 1 * nc
    BY DEF RunAt
  <1>2. nc \in Nat \ {0} /\ ConfigOf(x, k) \in 0 .. nc - 1 /\ ConfigOf(x, l) \in 0 .. nc - 1
    BY <1>1, PositionsInRange
  <1>3. /\ ~ (k > 2 * nc) /\ ~ (l > 2 * nc) /\ (k % 2 = 1 <=> l % 2 = 1)
        /\ x.configs[ConfigOf(x, k) + 1].msg = x.configs[ConfigOf(x, l) + 1].msg
    <2>1. /\ TestAt(x, k).hostNet <=> k % 2 = 1
          /\ TestAt(x, l).hostNet <=> l % 2 = 1
          /\ TestAt(x, k).virt <=> k > 2 * 1 * nc
          /\ TestAt(x, l).virt <=> l > 2 * 1 * nc
          /\ TestAt(x, k).cfg = x.configs[ConfigOf(x, k) + 1]
          /\ TestAt(x, l).cfg = x.configs[ConfigOf(x, l) + 1]
      BY <1>1, TestTyped
    <2>2. 2 * 1 * nc = 2 * nc
      BY <1>2
    <2>3. k % 2 = 1 <=> l % 2 = 1
      BY <2>1, Zenon
    <2> QED BY <2>1, <2>2, <2>3
  <1>4. DOMAIN x.configs = 1 .. nc
    BY DEF InputType
  <1>5. ConfigOf(x, k) = ConfigOf(x, l)
    BY <1>2, <1>3, <1>4
  <1>6. ConfigOf(x, k) = (k - 1) \div 2 /\ ConfigOf(x, l) = (l - 1) \div 2
    <2>1. /\ ConfigOf(x, k) = ((k - 1) % (2 * nc)) \div 2
          /\ ConfigOf(x, l) = ((l - 1) % (2 * nc)) \div 2
      BY <1>2 DEF ConfigOf
    <2>2. (k - 1) % (2 * nc) = k - 1 /\ (l - 1) % (2 * nc) = l - 1
      <3> HIDE DEF nc
      <3> QED BY <1>1, <1>2, <1>3
    <2> QED BY <2>1, <2>2
  <1>7. k \in Nat /\ l \in Nat /\ k >= 1 /\ l >= 1
    BY <1>1, <1>2
  <1>8. (k - 1) \div 2 = (l - 1) \div 2
    BY <1>5, <1>6
  <1> QED BY <1>3, <1>7, <1>8

----------------------------------------------------------------------------
(***************************************************************************)
(* The inductive invariant.                                                *)
(***************************************************************************)

\* Whether the figure f of side s of result k has been asked for.
AskedFor(k, s, f) == \/ k < i
                     \/ k = i /\ \E j \in 1 .. q - 1 : Queries[j] = << s, f >>

\* There is a Prometheus while it is queried, and perf has a figure for every result.
FlowInv ==
  /\ pc \in {"collect", "query"} => pavail /\ conn.url # "none"
  /\ perf \in [Indices -> in.speeds \cup {0, NaN}]

\* A field of the record holds the answer, or what it held before there was one; only what
\* was asked for is answered.
RecInv ==
  /\ rec \in [Indices -> [Sides -> [cpu : {Zero, NaN} \cup (STRING \X Nat),
                                    vcpu : {Zero, NaN} \cup (STRING \X Nat),
                                    vmem : {Zero, NaN} \cup (STRING \X Nat),
                                    podcpu : {Zero, NaN} \cup (STRING \X Nat),
                                    podmem : {Zero, NaN} \cup (STRING \X Nat),
                                    collected : BOOLEAN]]]
  /\ \A k \in Indices, s \in Sides :
       /\ rec[k][s].collected <=> << k, s, "cpu" >> \in got
       /\ << k, s, "cpu" >> \notin got => rec[k][s].cpu = Zero
       /\ \A f \in Kinds :
            /\ << k, s, f >> \in got => rec[k][s][f] = Value(k, s) /\ AskedFor(k, s, f)
            /\ << k, s, f >> \notin got => rec[k][s][f] \in {Zero, NaN}

\* Nothing is archived before the queries are over; a row about nodes holds the record.
ArchiveInv ==
  /\ pc \in {"discover", "collect", "query", "details", "show", "csv"} => archive = {}
  /\ \A row \in archive : row.to \in {"promCsv", "index"} =>
       row.k \in Indices /\ row.side \in Sides /\ row.data = rec[row.k][row.side]

\* From the CSV files on, the results have been shown.
Shown ==
  IF in.json THEN IF Marshals THEN {"json"} \X Indices ELSE {}
  ELSE {tk \in Tables \X Indices : InTable(tk[1], Results[tk[2]])}
ScreenInv ==
  pc \in {"csv", "promCsv", "specificCsv", "index", "gate", "finish", "exit", "fatal"} =>
    screen = Shown

\* The exit code is what Gate computed.
GateFails ==
  /\ in.host # "only" /\ CheckHostResults
  /\ \E k \in Indices :
       LET r == Results[k]
       IN  /\ IsTCPStream(r) /\ ~ r.cfg.service /\ r.cfg.streams = 1 /\ r.hostNet
           /\ Above(doPerfDiff(TRUE, r.cfg.msg), doPerfDiff(FALSE, r.cfg.msg))
GateInv == pc \in {"finish", "exit"} => (retCode = 1 <=> GateFails)

IInv == TypeOK /\ FlowInv /\ RecInv /\ ArchiveInv /\ ScreenInv /\ GateInv

----------------------------------------------------------------------------
(***************************************************************************)
(* Facts the steps need.                                                   *)
(***************************************************************************)

\* The results are a sequence of tests that ran.
LEMMA RunAtFinite ==
  ASSUME NEW x \in InputType
  PROVE  RunAt(x) \subseteq Nat /\ IsFiniteSet(RunAt(x))
  <1> DEFINE n == 4 * Len(x.drivers) * Len(x.configs)
  <1>1. n \in Nat
    <2> DEFINE a == Len(x.drivers)
               b == Len(x.configs)
    <2>1. a \in Nat /\ b \in Nat
      BY DEF InputType
    <2> HIDE DEF a, b
    <2>2. 4 * a * b \in Nat
      BY <2>1
    <2> QED BY <2>2 DEF a, b
  <1>2. RunAt(x) \in SUBSET (1 .. n)
    BY DEF RunAt
  <1> HIDE DEF n
  <1>3. IsFiniteSet(1 .. n)
    BY <1>1, FS_Interval
  <1> QED BY <1>1, <1>2, <1>3, FS_Subset

LEMMA ResultsAreTests ==
  ASSUME in \in Inputs, Results = Recorded(in)
  PROVE  /\ Len(Results) \in Nat /\ Indices = 1 .. Len(Results) /\ in \in InputType
         /\ \A k \in Indices : /\ Nth(RunAt(in), k) \in RunAt(in)
                               /\ Results[k] = TestAt(in, Nth(RunAt(in), k))
                               /\ Results[k] \in TestType
         /\ \A a, b \in Indices : Nth(RunAt(in), a) = Nth(RunAt(in), b) => a = b
         /\ \A l \in RunAt(in) : \E k \in Indices : Nth(RunAt(in), k) = l
  <1> DEFINE S == RunAt(in)
             n == Cardinality(S)
  <1>1. in \in InputType
    BY InputsAssumption
  <1>2. S \subseteq Nat /\ IsFiniteSet(S)
    BY <1>1, RunAtFinite
  <1>3. S \subseteq 1 .. 4 * Len(in.drivers) * Len(in.configs)
    BY DEF RunAt
  <1> HIDE DEF S
  <1>4. /\ n \in Nat
        /\ \A m \in 1 .. n : Nth(S, m) \in S
        /\ \A a, b \in 1 .. n : Nth(S, a) = Nth(S, b) => a = b
        /\ \A l \in S : \E m \in 1 .. n : Nth(S, m) = l
    BY <1>2, NthNumbers
  <1>5. Results = [m \in 1 .. n |-> TestAt(in, Nth(S, m))]
    BY DEF Recorded, S
  <1> HIDE DEF n
  <1>6. \A m \in 1 .. n : TestAt(in, Nth(S, m)) \in TestType
    BY <1>1, <1>3, <1>4, TestTyped
  <1>7. Results \in [1 .. n -> TestType]
    BY <1>5, <1>6
  <1>8. Len(Results) = n /\ Indices = 1 .. n
    BY <1>4, <1>7 DEF Indices
  <1> QED BY <1>1, <1>4, <1>5, <1>6, <1>8 DEF S

\* The ten queries: none is made twice, and those for the CPU of the nodes come first.
LEMMA QueryOrder ==
  /\ Len(Queries) = 10
  /\ \A a \in 1 .. 10 : /\ Queries[a] = << Queries[a][1], Queries[a][2] >>
                        /\ Queries[a][1] \in Sides /\ Queries[a][2] \in Kinds
  /\ \A a, b \in 1 .. 10 : Queries[a] = Queries[b] => a = b
  /\ \A a, b \in 1 .. 10 : b < a /\ Queries[a][2] = "cpu" => Queries[b][2] = "cpu"
  <1>1. Len(Queries) = 10
    BY DEF Queries
  <1>2. \A a \in 1 .. 10 : a \in {1, 2, 3, 4, 5, 6, 7, 8, 9, 10}
    OBVIOUS
  <1>3. /\ Queries[1] = << "client", "cpu" >> /\ Queries[2] = << "server", "cpu" >>
        /\ Queries[3] = << "client", "vcpu" >> /\ Queries[4] = << "client", "vmem" >>
        /\ Queries[5] = << "server", "vcpu" >> /\ Queries[6] = << "server", "vmem" >>
        /\ Queries[7] = << "client", "podcpu" >> /\ Queries[8] = << "server", "podcpu" >>
        /\ Queries[9] = << "client", "podmem" >> /\ Queries[10] = << "server", "podmem" >>
    BY DEF Queries
  <1>4. \A a \in 1 .. 10 : /\ Queries[a] = << Queries[a][1], Queries[a][2] >>
                          /\ Queries[a][1] \in Sides /\ Queries[a][2] \in Kinds
    BY <1>2, <1>3 DEF Sides, Kinds
  <1>5. \A a, b \in 1 .. 10 : Queries[a] = Queries[b] => a = b
    BY <1>2, <1>3
  <1>6. \A a, b \in 1 .. 10 : b < a /\ Queries[a][2] = "cpu" => Queries[b][2] = "cpu"
    BY <1>2, <1>3
  <1> QED BY <1>1, <1>4, <1>5, <1>6

\* What is being asked for has not been answered, and before the CPU of a node nothing
\* else about it.
LEMMA AskedOnce ==
  ASSUME IInv, pc = "query"
  PROVE  /\ i \in Indices /\ side \in Sides /\ kind \in Kinds
         /\ Queries[q] = << side, kind >>
         /\ << i, side, kind >> \notin got
         /\ kind = "cpu" => \A f \in Kinds : << i, side, f >> \notin got
  <1>1. q \in 1 .. 10 /\ i \in 1 .. Len(Results) /\ Len(Results) \in Nat
    BY QueryOrder, ResultsAreTests DEF IInv, TypeOK
  <1>2. i \in Indices
    BY <1>1, ResultsAreTests DEF IInv, TypeOK
  <1>3. side \in Sides /\ kind \in Kinds /\ Queries[q] = << side, kind >>
    BY <1>1, QueryOrder DEF side, kind
  <1>4. ASSUME NEW f \in Kinds, << i, side, f >> \in got
        PROVE  \E j \in 1 .. 10 : j < q /\ Queries[j] = << side, f >>
    <2>1. AskedFor(i, side, f)
      BY <1>2, <1>3, <1>4 DEF IInv, RecInv
    <2>2. PICK j \in 1 .. q - 1 : Queries[j] = << side, f >>
      BY <1>1, <2>1 DEF AskedFor
    <2> QED BY <1>1, <2>2
  <1>5. << i, side, kind >> \notin got
    <2> SUFFICES ASSUME << i, side, kind >> \in got PROVE FALSE
      OBVIOUS
    <2>1. PICK j \in 1 .. 10 : j < q /\ Queries[j] = << side, kind >>
      BY <1>3, <1>4
    <2>2. j = q
      BY <1>1, <1>3, <2>1, QueryOrder
    <2> QED BY <1>1, <2>1, <2>2
  <1>6. ASSUME kind = "cpu", NEW f \in Kinds, << i, side, f >> \in got PROVE FALSE
    <2>1. PICK j \in 1 .. 10 : j < q /\ Queries[j] = << side, f >>
      BY <1>4, <1>6
    <2>2. Queries[j][2] = "cpu"
      BY <1>1, <1>6, <2>1, QueryOrder DEF kind
    <2>3. f = "cpu"
      BY <2>1, <2>2
    <2> QED BY <1>5, <1>6, <2>3
  <1> QED BY <1>2, <1>3, <1>5, <1>6

LEMMA RecHolds ==
  ASSUME RecInv, NEW k \in Indices, NEW s \in Sides, NEW f \in Kinds
  PROVE  /\ << k, s, f >> \in got => rec[k][s][f] = Value(k, s)
         /\ << k, s, f >> \notin got => rec[k][s][f] \in {Zero, NaN}
  BY DEF RecInv

\* What the record of a result can hold, from what Prometheus answered.
FiguresTyped ==
  \A k \in Indices, s \in Sides :
    rec[k][s] \in [cpu : {Zero, Value(k, s)}, vcpu : {Zero, NaN, Value(k, s)},
                   vmem : {Zero, NaN, Value(k, s)}, podcpu : {Zero, NaN, Value(k, s)},
                   podmem : {Zero, NaN, Value(k, s)}, collected : BOOLEAN]

LEMMA RecTyped == RecInv => FiguresTyped
  <1> SUFFICES ASSUME RecInv, NEW k \in Indices, NEW s \in Sides
               PROVE  rec[k][s] \in [cpu : {Zero, Value(k, s)}, vcpu : {Zero, NaN, Value(k, s)},
                        vmem : {Zero, NaN, Value(k, s)}, podcpu : {Zero, NaN, Value(k, s)},
                        podmem : {Zero, NaN, Value(k, s)}, collected : BOOLEAN]
    BY DEF FiguresTyped
  <1> DEFINE F == {Zero, NaN} \cup (STRING \X Nat)
             r == rec[k][s]
  <1>1. r \in [cpu : F, vcpu : F, vmem : F, podcpu : F, podmem : F, collected : BOOLEAN]
    BY DEF RecInv
  <1>2. ASSUME NEW f \in Kinds PROVE r[f] \in {Zero, NaN, Value(k, s)}
    <2>1. /\ << k, s, f >> \in got => r[f] = Value(k, s)
          /\ << k, s, f >> \notin got => r[f] \in {Zero, NaN}
      BY RecHolds
    <2> HIDE DEF r
    <2> QED BY <2>1
  <1>3. r.cpu \in {Zero, Value(k, s)}
    BY DEF RecInv, Kinds
  <1>4. /\ r["vcpu"] \in {Zero, NaN, Value(k, s)} /\ r["vmem"] \in {Zero, NaN, Value(k, s)}
        /\ r["podcpu"] \in {Zero, NaN, Value(k, s)}
        /\ r["podmem"] \in {Zero, NaN, Value(k, s)}
    BY <1>2 DEF Kinds
  <1> HIDE DEF F, r
  <1>5. r \in [cpu : {Zero, Value(k, s)}, vcpu : {Zero, NaN, Value(k, s)},
               vmem : {Zero, NaN, Value(k, s)}, podcpu : {Zero, NaN, Value(k, s)},
               podmem : {Zero, NaN, Value(k, s)}, collected : BOOLEAN]
    BY <1>1, <1>3, <1>4
  <1> QED BY <1>5 DEF r

----------------------------------------------------------------------------
(***************************************************************************)
(* The invariant holds initially, and every step keeps it.                 *)
(***************************************************************************)
LEMMA InitIInv == Init => IInv
  <1> SUFFICES ASSUME Init PROVE IInv
    OBVIOUS
  <1>1. in \in Inputs /\ Results = Recorded(in)
    BY DEF Init
  <1>2. Len(Results) \in Nat /\ Len(Queries) = 10 /\ Attempts \in Nat \ {0}
    BY <1>1, ResultsAreTests, QueryOrder, AttemptsAssumption
  <1>3. RecInv
    <2> DEFINE F == {Zero, NaN} \cup (STRING \X Nat)
    <2>1. NoMetrics \in [cpu : F, vcpu : F, vmem : F, podcpu : F, podmem : F,
                         collected : BOOLEAN]
      BY DEF NoMetrics
    <2>2. \A k \in Indices, s \in Sides : rec[k][s] = NoMetrics
      BY DEF Init
    <2>3. NoMetrics.cpu = Zero /\ \A f \in Kinds : NoMetrics[f] = Zero
      BY DEF NoMetrics, Kinds
    <2>4. NoMetrics.collected = FALSE
      BY DEF NoMetrics
    <2>5. got = {}
      BY DEF Init
    <2>6. rec \in [Indices -> [Sides -> [cpu : F, vcpu : F, vmem : F, podcpu : F, podmem : F,
                                        collected : BOOLEAN]]]
      BY <2>1 DEF Init
    <2> HIDE DEF F
    <2>7. ASSUME NEW k \in Indices, NEW s \in Sides
          PROVE  /\ rec[k][s].collected <=> << k, s, "cpu" >> \in got
                 /\ rec[k][s].cpu = Zero
                 /\ \A f \in Kinds : << k, s, f >> \notin got /\ rec[k][s][f] \in {Zero, NaN}
      BY <2>2, <2>3, <2>4, <2>5
    <2> QED BY <2>6, <2>7 DEF RecInv, F
  <1>4. TypeOK
    <2>1. FiguresTyped
      BY <1>3, RecTyped
    <2>2. /\ i = 1 /\ q = 1 /\ attempt = 1 /\ pc = "discover" /\ pavail = TRUE /\ retCode = 0
      BY DEF Init
    <2>3. pavail \in BOOLEAN
      BY <2>2, Zenon
    <2> QED BY <1>1, <1>2, <2>1, <2>2, <2>3 DEF TypeOK, PCs, FiguresTyped
  <1>5. FlowInv /\ ArchiveInv /\ ScreenInv /\ GateInv
    BY DEF Init, FlowInv, ArchiveInv, ScreenInv, GateInv
  <1> QED BY <1>3, <1>4, <1>5 DEF IInv

\* Outside the queries the records stay as they are.
LEMMA RecordsKept ==
  ASSUME IInv, UNCHANGED << fixed, loopVars >>
  PROVE  /\ RecInv' /\ Indices' = Indices /\ Shown' = Shown
         /\ GateFails' <=> GateFails
         /\ perf' = perf /\ in' = in /\ Results' = Results /\ rec' = rec /\ i' = i /\ q' = q
         /\ attempt' = attempt
  <1>1. /\ in' = in /\ Results' = Results /\ perf' = perf /\ loss' = loss /\ i' = i /\ q' = q
        /\ attempt' = attempt /\ rec' = rec /\ got' = got
    BY DEF fixed, loopVars
  <1>2. Indices' = Indices
    BY <1>1 DEF Indices
  <1>3. RecInv'
    <2>1. \A k, s : Value(k, s)' = Value(k, s)
      BY <1>1 DEF Value
    <2>2. \A k, s, f : AskedFor(k, s, f)' <=> AskedFor(k, s, f)
      BY <1>1 DEF AskedFor
    <2>3. RecInv
      BY DEF IInv
    <2>4. ASSUME NEW k \in Indices, NEW s \in Sides
          PROVE  /\ rec'[k][s].collected <=> << k, s, "cpu" >> \in got'
                 /\ << k, s, "cpu" >> \notin got' => rec'[k][s].cpu = Zero
      BY <1>1, <2>3 DEF RecInv
    <2>5. ASSUME NEW k \in Indices, NEW s \in Sides, NEW f \in Kinds
          PROVE  /\ << k, s, f >> \in got' => /\ rec'[k][s][f] = Value(k, s)'
                                             /\ AskedFor(k, s, f)'
                 /\ << k, s, f >> \notin got' => rec'[k][s][f] \in {Zero, NaN}
      BY <1>1, <2>1, <2>2, <2>3 DEF RecInv
    <2> QED BY <1>1, <1>2, <2>3, <2>4, <2>5 DEF RecInv
  <1>4. Marshals' <=> Marshals
    BY <1>1, <1>2 DEF Marshals
  <1>5. \A t, r : InTable(t, r)' <=> InTable(t, r)
    BY <1>1 DEF InTable
  <1>6. Shown' = Shown
    BY <1>1, <1>2, <1>4, <1>5 DEF Shown
  <1>7. \A h, m : doPerfDiff(h, m)' = doPerfDiff(h, m)
    BY <1>1, <1>2 DEF doPerfDiff
  <1>8. CheckHostResults' <=> CheckHostResults
    BY <1>1, <1>2 DEF CheckHostResults
  <1>9. \A h, p : Above(h, p)' <=> Above(h, p)
    BY <1>1 DEF Above
  <1>10. GateFails' <=> GateFails
    BY <1>1, <1>2, <1>7, <1>8, <1>9 DEF GateFails
  <1> QED BY <1>1, <1>2, <1>3, <1>6, <1>10

\* So a step that keeps records and moves on is left with the flow, the archive, the screen
\* and the exit code.
LEMMA QuietStep ==
  ASSUME IInv, UNCHANGED << fixed, loopVars >>,
         pc' \in PCs, pavail' \in BOOLEAN, retCode' \in {0, 1},
         pc' = "query" => FALSE,
         pc' = "collect" => pavail' /\ conn'.url # "none",
         ArchiveInv', ScreenInv', GateInv'
  PROVE  IInv'
  <1>1. /\ RecInv' /\ Indices' = Indices
        /\ perf' = perf /\ in' = in /\ Results' = Results /\ rec' = rec /\ i' = i /\ q' = q
        /\ attempt' = attempt
    BY RecordsKept
  <1>2. FlowInv'
    BY <1>1 DEF IInv, FlowInv
  <1>3. \A k, s : Value(k, s)' = Value(k, s)
    BY <1>1 DEF Value
  <1>4. TypeOK'
    BY <1>1, <1>3 DEF IInv, TypeOK
  <1> QED BY <1>1, <1>2, <1>4 DEF IInv

\* Between the queries nothing is shown, archived or decided: a step of the loops is left
\* with its cursor and the records.
LEMMA LoopStep ==
  ASSUME IInv, UNCHANGED << fixed, conn, pavail, outVars >>,
         pc \in {"collect", "query"}, pc' \in {"collect", "query", "details", "panic"},
         i' \in 1 .. Len(Results) + 1, q' \in 1 .. Len(Queries), attempt' \in 1 .. Attempts,
         pc' = "query" => i' <= Len(Results),
         RecInv'
  PROVE  IInv'
  <1>1. /\ in' = in /\ Results' = Results /\ perf' = perf /\ conn' = conn
        /\ pavail' = pavail /\ screen' = screen /\ archive' = archive /\ retCode' = retCode
    BY DEF fixed, outVars
  <1>2. Indices' = Indices /\ \A k, s : Value(k, s)' = Value(k, s)
    BY <1>1 DEF Indices, Value
  <1>3. pavail /\ conn.url # "none" /\ archive = {}
    BY DEF IInv, FlowInv, ArchiveInv
  <1>4. FlowInv' /\ ArchiveInv' /\ ScreenInv' /\ GateInv'
    <2>1. perf' \in [Indices' -> in'.speeds \cup {0, NaN}]
      BY <1>1, <1>2 DEF IInv, FlowInv
    <2>2. conn'.url # "none"
      BY <1>1, <1>3
    <2>3. pavail' = TRUE
      BY <1>1, <1>3
    <2> QED BY <1>1, <1>3, <2>1, <2>2, <2>3 DEF FlowInv, ArchiveInv, ScreenInv, GateInv
  <1>5. FiguresTyped'
    BY RecTyped, PTL
  <1>6. TypeOK'
    <2>1. /\ in' \in Inputs /\ Results' = Recorded(in') /\ retCode' \in {0, 1}
      BY <1>1 DEF IInv, TypeOK
    <2>2. pavail' \in BOOLEAN
      BY <1>1, Zenon DEF IInv, TypeOK
    <2>3. pc' \in PCs
      BY DEF PCs
    <2>4. pc' = "query" => i' <= Len(Results') /\ pavail' /\ conn'.url # "none"
      <3>1. conn'.url # "none"
        BY <1>1, <1>3
      <3>2. pavail' = TRUE
        BY <1>1, <1>3
      <3> QED BY <1>1, <3>1, <3>2
    <2>5. i' \in 1 .. Len(Results') + 1
      BY <1>1
    <2> QED BY <1>5, <2>1, <2>2, <2>3, <2>4, <2>5 DEF TypeOK, FiguresTyped
  <1> QED BY <1>4, <1>6 DEF IInv

\* The cursor only moves forward, so that what was asked for stays asked for.
LEMMA CursorMoves ==
  ASSUME IInv, pc \in {"collect", "query"},
         \/ i' = i /\ q' = q
         \/ i' = i + 1 /\ q' = q
         \/ Advance
  PROVE  \A k \in Indices, s \in Sides, f \in Kinds : AskedFor(k, s, f) => AskedFor(k, s, f)'
  <1>1. i \in Nat /\ q \in 1 .. 10 /\ Indices \subseteq Nat
    BY QueryOrder, ResultsAreTests DEF IInv, TypeOK
  <1>2. \/ i' = i /\ q' = q
        \/ i' = i + 1
        \/ i' = i /\ q' = q + 1
    BY DEF Advance
  <1> SUFFICES ASSUME NEW k \in Indices, NEW s \in Sides, NEW f \in Kinds, AskedFor(k, s, f)
               PROVE  k < i' \/ (k = i' /\ \E j \in 1 .. q' - 1 : Queries[j] = << s, f >>)
    BY DEF AskedFor
  <1>3. k \in Nat /\ (k < i \/ (k = i /\ \E j \in 1 .. q - 1 : Queries[j] = << s, f >>))
    BY <1>1 DEF AskedFor
  <1>4. CASE i' = i /\ q' = q
    BY <1>3, <1>4
  <1>5. CASE i' = i + 1
    BY <1>1, <1>3, <1>5
  <1>6. CASE i' = i /\ q' = q + 1
    <2>1. CASE k < i
      BY <1>6, <2>1
    <2>2. CASE k = i /\ \E j \in 1 .. q - 1 : Queries[j] = << s, f >>
      <3>1. PICK j \in 1 .. q - 1 : Queries[j] = << s, f >>
        BY <2>2
      <3>2. j \in 1 .. q' - 1
        BY <1>1, <1>6, <3>1
      <3> QED BY <1>6, <2>2, <3>1, <3>2
    <2> QED BY <1>3, <2>1, <2>2
  <1> QED BY <1>2, <1>4, <1>5, <1>6

\* After the step the query in progress has been asked.
LEMMA AskedNow ==
  ASSUME IInv, pc = "query", Advance, NEW k, NEW s, NEW f, k = i, s = side, f = kind
  PROVE  k < i' \/ (k = i' /\ \E j \in 1 .. q' - 1 : Queries[j] = << s, f >>)
  <1>1. q \in 1 .. 10 /\ Len(Queries) = 10 /\ i \in Nat
    BY QueryOrder, ResultsAreTests DEF IInv, TypeOK
  <1>2. Queries[q] = << s, f >>
    BY AskedOnce
  <1>3. CASE i' = i /\ q' = q + 1
    <2>1. q \in 1 .. q' - 1
      BY <1>1, <1>3
    <2> QED BY <1>2, <1>3, <2>1
  <1>4. CASE i' = i + 1
    BY <1>1, <1>4
  <1> QED BY <1>3, <1>4 DEF Advance

\* A step of the loops without a new figure.
LEMMA NothingRecorded ==
  ASSUME IInv, UNCHANGED fixed, pc \in {"collect", "query"}, rec' = rec, got' = got,
         \/ i' = i /\ q' = q
         \/ i' = i + 1 /\ q' = q
         \/ Advance
  PROVE  RecInv'
  <1>1. in' = in /\ Results' = Results
    BY DEF fixed
  <1>2. Indices' = Indices /\ \A k, s : Value(k, s)' = Value(k, s)
    BY <1>1 DEF Indices, Value
  <1>3. RecInv
    BY DEF IInv
  <1>4. ASSUME NEW k \in Indices, NEW s \in Sides
        PROVE  /\ rec'[k][s].collected <=> << k, s, "cpu" >> \in got'
               /\ << k, s, "cpu" >> \notin got' => rec'[k][s].cpu = Zero
    BY <1>3 DEF RecInv
  <1>5. ASSUME NEW k \in Indices, NEW s \in Sides, NEW f \in Kinds
        PROVE  /\ << k, s, f >> \in got' => /\ rec'[k][s][f] = Value(k, s)'
                                           /\ AskedFor(k, s, f)'
               /\ << k, s, f >> \notin got' => rec'[k][s][f] \in {Zero, NaN}
    BY <1>2, <1>3, CursorMoves DEF RecInv
  <1> QED BY <1>2, <1>3, <1>4, <1>5 DEF RecInv

LEMMA NextResultStep == ASSUME IInv, NextResult PROVE IInv'
  <1>1. /\ pc = "collect" /\ q' = q /\ attempt' = attempt /\ rec' = rec /\ got' = got
        /\ UNCHANGED << fixed, conn, pavail, outVars >> /\ UNCHANGED fixed
    BY DEF NextResult
  <1>2. /\ i \in 1 .. Len(Results) + 1 /\ Len(Results) \in Nat
        /\ q \in 1 .. Len(Queries) /\ attempt \in 1 .. Attempts
    BY ResultsAreTests DEF IInv, TypeOK
  <1>3. /\ pc' \in {"collect", "query", "details"}
        /\ (i' = i \/ i' = i + 1)
        /\ i' \in 1 .. Len(Results) + 1
        /\ pc' = "query" => i' <= Len(Results)
    BY <1>2 DEF NextResult
  <1>4. RecInv'
    BY <1>1, <1>3, NothingRecorded
  <1> QED BY <1>1, <1>2, <1>3, <1>4, LoopStep

\* Where Advance leaves the cursor.
LEMMA AdvanceInRange ==
  ASSUME IInv, pc = "query", Advance
  PROVE  /\ i' \in 1 .. Len(Results) + 1 /\ q' \in 1 .. Len(Queries)
         /\ pc' \in {"query", "collect"} /\ (pc' = "query" => i' <= Len(Results))
  <1>1. /\ i \in 1 .. Len(Results) /\ Len(Results) \in Nat
        /\ q \in 1 .. 10 /\ Len(Queries) = 10
    BY ResultsAreTests, QueryOrder DEF IInv, TypeOK
  <1> QED BY <1>1 DEF Advance

LEMMA NodeCPUFailsStep == ASSUME IInv, NodeCPUFails PROVE IInv'
  <1>1. /\ pc = "query" /\ rec' = rec
        /\ UNCHANGED << fixed, conn, pavail, outVars >> /\ UNCHANGED fixed
    BY DEF NodeCPUFails
  <1>2. got' = got
    BY DEF NodeCPUFails, Answered
  <1>3. /\ i \in 1 .. Len(Results) /\ Len(Results) \in Nat /\ Attempts \in Nat \ {0}
        /\ q \in 1 .. Len(Queries) /\ attempt \in 1 .. Attempts
    BY <1>1, ResultsAreTests, AttemptsAssumption DEF IInv, TypeOK
  <1>4. CASE attempt < Attempts
    <2>1. attempt' = attempt + 1 /\ i' = i /\ q' = q /\ pc' = pc
      BY <1>4 DEF NodeCPUFails
    <2>2. attempt' \in 1 .. Attempts /\ i' \in 1 .. Len(Results) + 1 /\ i' <= Len(Results)
      BY <1>3, <1>4, <2>1
    <2>3. RecInv'
      BY <1>1, <1>2, <2>1, NothingRecorded
    <2> QED BY <1>1, <1>3, <2>1, <2>2, <2>3, LoopStep
  <1>5. CASE ~ (attempt < Attempts)
    <2>1. attempt' = 1 /\ Advance
      BY <1>5 DEF NodeCPUFails
    <2>2. attempt' \in 1 .. Attempts
      BY <1>3, <2>1
    <2>3. RecInv'
      BY <1>1, <1>2, <2>1, NothingRecorded
    <2> QED BY <1>1, <2>1, <2>2, <2>3, AdvanceInRange, LoopStep
  <1> QED BY <1>4, <1>5

LEMMA WrongShapeStep == ASSUME IInv, WrongShape PROVE IInv'
  <1>1. /\ pc = "query" /\ pc' = "panic" /\ rec' = rec /\ i' = i /\ q' = q
        /\ attempt' = attempt
        /\ UNCHANGED << fixed, conn, pavail, outVars >> /\ UNCHANGED fixed
    BY DEF WrongShape
  <1>2. got' = got
    BY DEF WrongShape, Answered
  <1>3. /\ i \in 1 .. Len(Results) + 1 /\ q \in 1 .. Len(Queries)
        /\ attempt \in 1 .. Attempts
    BY DEF IInv, TypeOK
  <1>4. RecInv'
    BY <1>1, <1>2, NothingRecorded
  <1> QED BY <1>1, <1>3, <1>4, LoopStep

LEMMA ValueTyped ==
  ASSUME IInv, NEW k \in Indices, NEW s \in Sides
  PROVE  Value(k, s) \in STRING \X Nat
  <1>1. in \in InputType /\ k \in Nat
    BY ResultsAreTests DEF IInv, TypeOK
  <1>2. in.nodes \in [client : STRING, server : STRING]
    BY <1>1 DEF InputType
  <1>3. in.nodes[s] \in STRING
    BY <1>2 DEF Sides
  <1> QED BY <1>1, <1>3 DEF Value

\* A step that replaces one record, by one that agrees with the answers, keeps RecInv.
LEMMA OneRecorded ==
  ASSUME IInv, pc = "query", UNCHANGED fixed, Advance,
         NEW new,
         new \in [cpu : {Zero, NaN} \cup (STRING \X Nat),
                  vcpu : {Zero, NaN} \cup (STRING \X Nat),
                  vmem : {Zero, NaN} \cup (STRING \X Nat),
                  podcpu : {Zero, NaN} \cup (STRING \X Nat),
                  podmem : {Zero, NaN} \cup (STRING \X Nat),
                  collected : BOOLEAN],
         rec' = [rec EXCEPT ![i][side] = new],
         got' = got \/ got' = got \cup {<< i, side, kind >>},
         new.collected <=> << i, side, "cpu" >> \in got',
         << i, side, "cpu" >> \notin got' => new.cpu = Zero,
         \A f \in Kinds :
            /\ << i, side, f >> \in got' => new[f] = Value(i, side)
            /\ << i, side, f >> \notin got' => new[f] \in {Zero, NaN}
  PROVE  RecInv'
  <1> DEFINE F == {Zero, NaN} \cup (STRING \X Nat)
             M == [cpu : F, vcpu : F, vmem : F, podcpu : F, podmem : F, collected : BOOLEAN]
  <1>1. in' = in /\ Results' = Results
    BY DEF fixed
  <1>2. Indices' = Indices /\ \A k, s : Value(k, s)' = Value(k, s)
    BY <1>1 DEF Indices, Value
  <1>3. RecInv /\ rec \in [Indices -> [Sides -> M]]
    BY DEF IInv, RecInv
  <1>4. i \in Indices /\ side \in Sides /\ kind \in Kinds
    BY AskedOnce
  <1>5. new \in M
    OBVIOUS
  <1> HIDE DEF M
  <1>6. /\ rec' \in [Indices -> [Sides -> M]]
        /\ rec'[i][side] = new
        /\ \A k \in Indices, s \in Sides : (k # i \/ s # side) => rec'[k][s] = rec[k][s]
    BY <1>3, <1>4, <1>5
  <1>7. \A k, s, f : (k # i \/ s # side) => (<< k, s, f >> \in got' <=> << k, s, f >> \in got)
    OBVIOUS
  <1>8. ASSUME NEW k \in Indices, NEW s \in Sides
        PROVE  /\ rec'[k][s].collected <=> << k, s, "cpu" >> \in got'
               /\ << k, s, "cpu" >> \notin got' => rec'[k][s].cpu = Zero
    <2>1. CASE k = i /\ s = side
      BY <1>6, <2>1
    <2>2. CASE k # i \/ s # side
      BY <1>3, <1>6, <1>7, <2>2 DEF RecInv
    <2> QED BY <2>1, <2>2
  <1>9. ASSUME NEW k \in Indices, NEW s \in Sides, NEW f \in Kinds
        PROVE  /\ << k, s, f >> \in got' => rec'[k][s][f] = Value(k, s)'
               /\ << k, s, f >> \notin got' => rec'[k][s][f] \in {Zero, NaN}
    <2>1. CASE k = i /\ s = side
      <3>1. rec'[k][s] = new /\ Value(k, s)' = Value(i, side)
        BY <1>2, <1>6, <2>1
      <3>2. << k, s, f >> = << i, side, f >>
        BY <2>1
      <3> QED BY <3>1, <3>2
    <2>2. CASE k # i \/ s # side
      <3>1. rec'[k][s] = rec[k][s] /\ Value(k, s)' = Value(k, s)
        BY <1>2, <1>6, <2>2
      <3>2. << k, s, f >> \in got' <=> << k, s, f >> \in got
        BY <1>7, <2>2
      <3>3. /\ << k, s, f >> \in got => rec[k][s][f] = Value(k, s)
            /\ << k, s, f >> \notin got => rec[k][s][f] \in {Zero, NaN}
        BY <1>3, RecHolds
      <3> QED BY <3>1, <3>2, <3>3
    <2> QED BY <2>1, <2>2
  <1>10. ASSUME NEW k \in Indices, NEW s \in Sides, NEW f \in Kinds, << k, s, f >> \in got'
         PROVE  AskedFor(k, s, f)'
    <2>1. CASE << k, s, f >> \in got
      BY <1>3, <2>1, CursorMoves DEF RecInv
    <2>2. CASE << k, s, f >> = << i, side, kind >>
      <3>1. k = i /\ s = side /\ f = kind
        BY <2>2
      <3>2. k < i' \/ (k = i' /\ \E j \in 1 .. q' - 1 : Queries[j] = << s, f >>)
        BY <3>1, AskedNow
      <3> QED BY <3>2 DEF AskedFor
    <2> QED BY <1>10, <2>1, <2>2
  <1> QED BY <1>2, <1>6, <1>8, <1>9, <1>10 DEF RecInv, M

LEMMA NodeCPUCollectedStep == ASSUME IInv, NodeCPUCollected PROVE IInv'
  <1> DEFINE F == {Zero, NaN} \cup (STRING \X Nat)
             old == rec[i][side]
             new == [old EXCEPT !.cpu = Value(i, side), !.vcpu = Zero, !.vmem = Zero,
                                !.collected = TRUE]
  <1>1. /\ pc = "query" /\ kind = "cpu" /\ attempt' = 1 /\ Advance
        /\ rec' = [rec EXCEPT ![i][side] = new]
        /\ UNCHANGED << fixed, conn, pavail, outVars >> /\ UNCHANGED fixed
    BY DEF NodeCPUCollected
  <1>2. got' = got \cup {<< i, side, kind >>}
    BY DEF NodeCPUCollected, Answered
  <1>3. /\ i \in Indices /\ side \in Sides
        /\ \A f \in Kinds : << i, side, f >> \notin got
    BY <1>1, AskedOnce
  <1>4. old \in [cpu : F, vcpu : F, vmem : F, podcpu : F, podmem : F, collected : BOOLEAN]
    BY <1>3 DEF IInv, RecInv
  <1>5. old["podcpu"] \in {Zero, NaN} /\ old["podmem"] \in {Zero, NaN}
    BY <1>3 DEF IInv, RecInv, Kinds
  <1>6. Value(i, side) \in F
    BY <1>3, ValueTyped
  <1> HIDE DEF old, F
  <1>z. Zero \in F
    BY DEF F
  <1>7. new \in [cpu : F, vcpu : F, vmem : F, podcpu : F, podmem : F, collected : BOOLEAN]
    BY <1>4, <1>6, <1>z
  <1>8. /\ new.cpu = Value(i, side) /\ new.vcpu = Zero /\ new.vmem = Zero
        /\ new.podcpu = old.podcpu /\ new.podmem = old.podmem /\ new.collected = TRUE
    BY <1>4
  <1> HIDE DEF new
  <1>9. << i, side, "cpu" >> \in got'
    BY <1>1, <1>2
  <1>10. ASSUME NEW f \in Kinds
         PROVE  /\ << i, side, f >> \in got' => new[f] = Value(i, side)
                /\ << i, side, f >> \notin got' => new[f] \in {Zero, NaN}
    <2>1. CASE f = "cpu"
      BY <1>8, <1>9, <2>1
    <2>2. CASE f # "cpu"
      <3>1. << i, side, f >> \notin got'
        BY <1>1, <1>2, <1>3, <2>2
      <3>2. new[f] \in {Zero, NaN}
        BY <1>5, <1>8, <2>2 DEF Kinds
      <3> QED BY <3>1, <3>2
    <2> QED BY <2>1, <2>2
  <1>11. RecInv'
    <2>1. new.collected <=> << i, side, "cpu" >> \in got'
      BY <1>8, <1>9
    <2> QED BY <1>1, <1>2, <1>7, <1>9, <1>10, <2>1, OneRecorded DEF F
  <1>12. attempt' \in 1 .. Attempts
    BY <1>1, AttemptsAssumption
  <1> QED BY <1>1, <1>11, <1>12, AdvanceInRange, LoopStep

LEMMA OtherQueryStep == ASSUME IInv, OtherQuery PROVE IInv'
  <1> DEFINE F == {Zero, NaN} \cup (STRING \X Nat)
             old == rec[i][side]
  <1>1. /\ pc = "query" /\ kind # "cpu" /\ attempt' = attempt /\ Advance
        /\ UNCHANGED << fixed, conn, pavail, outVars >> /\ UNCHANGED fixed
    BY DEF OtherQuery
  <1>2. PICK a \in Answers \ {"shape"} :
          /\ Answered(a)
          /\ rec' = [rec EXCEPT ![i][side][kind] =
                       CASE a = "value"               -> Value(i, side)
                         [] a = "hollow"              -> NaN
                         [] a \in {"error", "empty"}  -> @]
    BY DEF OtherQuery
  <1> DEFINE v == CASE a = "value"               -> Value(i, side)
                    [] a = "hollow"              -> NaN
                    [] a \in {"error", "empty"}  -> old[kind]
             new == [old EXCEPT ![kind] = v]
  <1>3. /\ i \in Indices /\ side \in Sides /\ kind \in Kinds
        /\ << i, side, kind >> \notin got
    BY <1>1, AskedOnce
  <1>4. /\ rec \in [Indices -> [Sides -> [cpu : F, vcpu : F, vmem : F, podcpu : F, podmem : F,
                                          collected : BOOLEAN]]]
        /\ old \in [cpu : F, vcpu : F, vmem : F, podcpu : F, podmem : F, collected : BOOLEAN]
    BY <1>3 DEF IInv, RecInv
  <1>5. /\ old.collected <=> << i, side, "cpu" >> \in got
        /\ << i, side, "cpu" >> \notin got => old.cpu = Zero
        /\ \A f \in Kinds :
             /\ << i, side, f >> \in got => old[f] = Value(i, side)
             /\ << i, side, f >> \notin got => old[f] \in {Zero, NaN}
    BY <1>3 DEF IInv, RecInv
  <1>6. Value(i, side) \in F /\ NaN \in F
    BY <1>3, ValueTyped
  <1>7. rec' = [rec EXCEPT ![i][side] = new]
    BY <1>2
  <1>8. /\ a = "value" => v = Value(i, side) /\ got' = got \cup {<< i, side, kind >>}
        /\ a # "value" => v \in {Zero, NaN} /\ got' = got
    <2>1. a \in {"value", "hollow", "error", "empty"}
      BY <1>2 DEF Answers
    <2>2. old[kind] \in {Zero, NaN}
      BY <1>3, <1>5
    <2>3. a # "value" => got' = got
      BY <1>2 DEF Answered
    <2>4. a = "value" => got' = got \cup {<< i, side, kind >>}
      BY <1>2 DEF Answered
    <2> HIDE DEF old
    <2> QED BY <2>1, <2>2, <2>3, <2>4
  <1> HIDE DEF old, v
  <1>9. v \in F
    BY <1>6, <1>8
  <1>10. kind \in {"vcpu", "vmem", "podcpu", "podmem"}
    BY <1>1, <1>3 DEF Kinds
  <1> HIDE DEF F
  <1>11. /\ new \in [cpu : F, vcpu : F, vmem : F, podcpu : F, podmem : F, collected : BOOLEAN]
         /\ new.collected = old.collected /\ new.cpu = old.cpu
         /\ new[kind] = v /\ \A f \in Kinds : f # kind => new[f] = old[f]
    BY <1>4, <1>9, <1>10 DEF Kinds
  <1> HIDE DEF new
  <1>12. \A f : f # kind => (<< i, side, f >> \in got' <=> << i, side, f >> \in got)
    BY <1>8
  <1>13. ASSUME NEW f \in Kinds
         PROVE  /\ << i, side, f >> \in got' => new[f] = Value(i, side)
                /\ << i, side, f >> \notin got' => new[f] \in {Zero, NaN}
    <2>1. CASE f = kind
      BY <1>3, <1>8, <1>11, <2>1
    <2>2. CASE f # kind
      BY <1>5, <1>11, <1>12, <2>2
    <2> QED BY <2>1, <2>2
  <1>14. /\ new.collected <=> << i, side, "cpu" >> \in got'
         /\ << i, side, "cpu" >> \notin got' => new.cpu = Zero
    BY <1>1, <1>5, <1>11, <1>12
  <1>15. got' = got \/ got' = got \cup {<< i, side, kind >>}
    BY <1>8
  <1>16. RecInv'
    BY <1>1, <1>7, <1>11, <1>13, <1>14, <1>15, OneRecorded DEF F
  <1>17. attempt' \in 1 .. Attempts
    BY <1>1 DEF IInv, TypeOK
  <1> QED BY <1>1, <1>16, <1>17, AdvanceInRange, LoopStep

\* New rows about nodes hold the records.
LEMMA Archived ==
  ASSUME IInv, UNCHANGED << fixed, loopVars >>, NEW rows, archive' = archive \cup rows,
         pc' \in {"discover", "collect", "query", "details", "show", "csv"} =>
           archive = {} /\ rows = {},
         \A row \in rows : row.to \in {"promCsv", "index"} =>
           row.k \in Indices /\ row.side \in Sides /\ row.data = rec[row.k][row.side]
  PROVE  ArchiveInv'
  <1>1. Indices' = Indices /\ rec' = rec
    BY RecordsKept
  <1>2. ArchiveInv
    BY DEF IInv
  <1> QED BY <1>1, <1>2 DEF ArchiveInv

LEMMA ArchiveKept ==
  ASSUME IInv, UNCHANGED << fixed, loopVars >>, archive' = archive,
         pc' \in {"discover", "collect", "query", "details", "show", "csv"} => archive = {}
  PROVE  ArchiveInv'
  <1>1. Indices' = Indices /\ rec' = rec
    BY RecordsKept
  <1>2. ArchiveInv
    BY DEF IInv
  <1> QED BY <1>1, <1>2 DEF ArchiveInv

\* The steps that archive and decide nothing.
LEMMA PlainStep ==
  ASSUME IInv, UNCHANGED << fixed, loopVars >>, archive' = archive, retCode' = retCode,
         pavail' \in BOOLEAN, pc' = "collect" => pavail' /\ conn'.url # "none",
         pc' \in {"collect", "panic", "show", "csv", "fatal", "exit"},
         pc' \in {"collect", "show", "csv"} => archive = {},
         pc' \in {"csv", "fatal", "exit"} => screen' = Shown,
         pc' = "exit" => pc = "finish"
  PROVE  IInv'
  <1>1. ArchiveInv'
    BY ArchiveKept
  <1>2. ScreenInv'
    BY RecordsKept DEF ScreenInv
  <1>3. GateInv'
    <2>1. GateFails' <=> GateFails
      BY RecordsKept
    <2>2. pc = "finish" => (retCode = 1 <=> GateFails)
      BY DEF IInv, GateInv
    <2> QED BY <2>1, <2>2 DEF GateInv
  <1>4. retCode' \in {0, 1} /\ pc' \in PCs /\ pc' # "query"
    BY DEF IInv, TypeOK, PCs
  <1> QED BY <1>1, <1>2, <1>3, <1>4, QuietStep

LEMMA DiscoverStep == ASSUME IInv, DiscoverPrometheus PROVE IInv'
  <1>1. PICK found \in BOOLEAN, client \in BOOLEAN :
          LET seen == found /\ shouldDiscoverPrometheus
              url  == IF in.prom THEN "user" ELSE IF seen THEN "found" ELSE "none"
          IN  /\ conn' = [url        |-> url,
                          openshift  |-> seen \/ in.distribution = "OpenShift",
                          microshift |-> in.distribution = "MicroShift"]
              /\ pavail' = (url # "none" /\ client)
    BY Zenon DEF DiscoverPrometheus
  <1> DEFINE seen == found /\ shouldDiscoverPrometheus
             url  == IF in.prom THEN "user" ELSE IF seen THEN "found" ELSE "none"
  <1>2. pavail' = (url # "none" /\ client)
    BY <1>1, Zenon
  <1>3. conn'.url = url
    BY <1>1
  <1> HIDE DEF url
  <1>4. pavail' \in BOOLEAN
    BY <1>2, Zenon
  <1>5. /\ pc = "discover" /\ pc' = (IF pavail' THEN "collect" ELSE "show")
        /\ UNCHANGED << fixed, loopVars >> /\ archive' = archive /\ retCode' = retCode
    BY Zenon DEF DiscoverPrometheus, outVars
  <1>6. pavail' => conn'.url # "none"
    BY <1>2, <1>3, Zenon
  <1>7. pc' \in {"collect", "show"} /\ (pc' = "collect" => pavail')
    BY <1>5
  <1>8. archive = {}
    BY <1>5 DEF IInv, ArchiveInv
  <1> QED BY <1>4, <1>5, <1>6, <1>7, <1>8, PlainStep

LEMMA DetailsStep == ASSUME IInv, Details PROVE IInv'
  <1>1. /\ pc = "details" /\ pc' \in {"panic", "show"}
        /\ UNCHANGED << fixed, loopVars >> /\ archive' = archive /\ retCode' = retCode
        /\ pavail' = pavail
    BY DEF Details, outVars
  <1>2. archive = {} /\ pavail' \in BOOLEAN
    BY <1>1 DEF IInv, ArchiveInv, TypeOK
  <1> QED BY <1>1, <1>2, PlainStep

LEMMA ShowStep == ASSUME IInv, ShowResults \/ WriteJSONResult PROVE IInv'
  <1>1. /\ pc = "show" /\ pc' = "csv"
        /\ UNCHANGED << fixed, loopVars >> /\ archive' = archive /\ retCode' = retCode
        /\ pavail' = pavail
    BY DEF ShowResults, WriteJSONResult
  <1>2. archive = {} /\ pavail' \in BOOLEAN
    BY <1>1 DEF IInv, ArchiveInv, TypeOK
  <1>3. screen' = Shown
    <2>1. CASE ShowResults
      BY <2>1 DEF ShowResults, Shown
    <2>2. CASE WriteJSONResult
      BY <2>2 DEF WriteJSONResult, Shown
    <2> QED BY <2>1, <2>2
  <1> QED BY <1>1, <1>2, <1>3, PlainStep

\* The ends: after a failed file, an index without documents, a failed cleanup, or main's
\* return.
LEMMA EndStep ==
  ASSUME IInv, CSVFails \/ NothingToIndex \/ CleanupFails \/ Exit
  PROVE  IInv'
  <1>1. /\ pc \in {"csv", "promCsv", "specificCsv", "index", "finish"}
        /\ pc' \in {"fatal", "exit"} /\ (pc' = "exit" => pc = "finish")
        /\ UNCHANGED << fixed, loopVars >> /\ archive' = archive /\ retCode' = retCode
        /\ pavail' = pavail /\ screen' = screen
    BY DEF CSVFails, NothingToIndex, CleanupFails, Exit, Fatal, outVars
  <1>2. screen = Shown /\ pavail' \in BOOLEAN
    BY <1>1 DEF IInv, ScreenInv, TypeOK
  <1> QED BY <1>1, <1>2, PlainStep

\* The steps that archive.
LEMMA FileStep ==
  ASSUME IInv, WriteCSVResult \/ WritePromCSVResult \/ WriteSpecificCSV \/ Index
  PROVE  IInv'
  <1>1. /\ pc \in {"csv", "promCsv", "specificCsv", "index"}
        /\ pc' \in {"promCsv", "specificCsv", "index", "gate"}
        /\ UNCHANGED << fixed, loopVars >> /\ retCode' = retCode
        /\ pavail' = pavail /\ screen' = screen
    BY DEF WriteCSVResult, WritePromCSVResult, WriteSpecificCSV, Index
  <1>2. PICK rows : /\ archive' = archive \cup rows
                    /\ \A row \in rows : row.to \in {"promCsv", "index"} =>
                         /\ row.k \in Indices /\ row.side \in Sides
                         /\ row.data = rec[row.k][row.side]
    <2>1. CASE WriteCSVResult
      <3> DEFINE R == IF in.csv THEN {Row("csv", k, "client", NoMetrics) : k \in Indices} ELSE {}
      <3>1. archive' = archive \cup R
        BY <2>1 DEF WriteCSVResult
      <3>2. \A row \in R : row.to = "csv"
        BY DEF Row
      <3> HIDE DEF R
      <3> QED BY <3>1, <3>2
    <2>2. CASE WritePromCSVResult
      <3> DEFINE R == {RoleRow(k, s) : k \in Indices, s \in Sides}
      <3>1. archive' = archive \cup R
        BY <2>2 DEF WritePromCSVResult
      <3>2. \A row \in R : /\ row.k \in Indices /\ row.side \in Sides
                           /\ row.data = rec[row.k][row.side]
        BY DEF RoleRow, Row
      <3> HIDE DEF R
      <3> QED BY <3>1, <3>2
    <2>3. CASE WriteSpecificCSV
      <3> DEFINE R == {Row("specificCsv", k, "client", NoMetrics) :
                         k \in {j \in Indices : InTable("specific", Results[j])}}
      <3>1. archive' = archive \cup R
        BY <2>3 DEF WriteSpecificCSV
      <3>2. \A row \in R : row.to = "specificCsv"
        BY DEF Row
      <3> HIDE DEF R
      <3> QED BY <3>1, <3>2
    <2>4. CASE Index
      <3>1. PICK stored \in BOOLEAN :
              archive' = archive \cup (IF in.search /\ stored
                                       THEN {Row("index", k, s, rec[k][s]) :
                                             k \in Indices, s \in Sides} ELSE {})
        BY <2>4 DEF Index
      <3> DEFINE R == IF in.search /\ stored
                      THEN {Row("index", k, s, rec[k][s]) : k \in Indices, s \in Sides} ELSE {}
      <3>2. \A row \in R : /\ row.k \in Indices /\ row.side \in Sides
                           /\ row.data = rec[row.k][row.side]
        BY DEF Row
      <3>3. archive' = archive \cup R
        BY <3>1
      <3> HIDE DEF R
      <3> QED BY <3>2, <3>3
    <2> QED BY <2>1, <2>2, <2>3, <2>4
  <1>3. ArchiveInv'
    BY <1>1, <1>2, Archived
  <1>4. ScreenInv'
    <2>1. screen = Shown /\ Shown' = Shown
      BY <1>1, RecordsKept DEF IInv, ScreenInv
    <2> QED BY <1>1, <2>1 DEF ScreenInv
  <1>5. GateInv'
    BY <1>1 DEF GateInv
  <1>6. retCode' \in {0, 1} /\ pc' \in PCs /\ pavail' \in BOOLEAN /\ pc' # "query" /\ pc' # "collect"
    BY <1>1 DEF IInv, TypeOK, PCs
  <1> QED BY <1>1, <1>3, <1>4, <1>5, <1>6, QuietStep

LEMMA GateStep == ASSUME IInv, Gate PROVE IInv'
  <1>1. /\ pc = "gate" /\ pc' = "finish" /\ UNCHANGED << fixed, loopVars >>
        /\ archive' = archive /\ pavail' = pavail /\ screen' = screen
    BY DEF Gate
  <1>2. retCode' = IF GateFails THEN 1 ELSE 0
    BY DEF Gate, GateFails
  <1>3. ArchiveInv'
    BY <1>1, ArchiveKept
  <1>4. ScreenInv'
    <2>1. screen = Shown /\ Shown' = Shown
      BY <1>1, RecordsKept DEF IInv, ScreenInv
    <2> QED BY <1>1, <2>1 DEF ScreenInv
  <1>5. GateInv'
    BY <1>1, <1>2, RecordsKept DEF GateInv
  <1>6. retCode' \in {0, 1} /\ pc' \in PCs /\ pavail' \in BOOLEAN /\ pc' # "query" /\ pc' # "collect"
    BY <1>1, <1>2 DEF IInv, TypeOK, PCs
  <1> QED BY <1>1, <1>3, <1>4, <1>5, <1>6, QuietStep

LEMMA StutterStep == ASSUME IInv, UNCHANGED vars PROVE IInv'
  <1>1. /\ UNCHANGED << fixed, loopVars >> /\ pc' = pc /\ conn' = conn /\ pavail' = pavail
        /\ screen' = screen /\ archive' = archive /\ retCode' = retCode
        /\ in' = in /\ Results' = Results
    BY DEF vars, fixed, loopVars
  <1>2. /\ RecInv' /\ Indices' = Indices /\ Shown' = Shown /\ (GateFails' <=> GateFails)
        /\ perf' = perf /\ rec' = rec /\ i' = i /\ q' = q /\ attempt' = attempt
    BY <1>1, RecordsKept
  <1>3. \A k, s : Value(k, s)' = Value(k, s)
    BY <1>1 DEF Value
  <1>4. TypeOK'
    BY <1>1, <1>2, <1>3 DEF IInv, TypeOK
  <1>5. FlowInv' /\ ArchiveInv' /\ ScreenInv' /\ GateInv'
    BY <1>1, <1>2 DEF IInv, FlowInv, ArchiveInv, ScreenInv, GateInv
  <1> QED BY <1>2, <1>4, <1>5 DEF IInv

LEMMA StepIInv == IInv /\ [Next]_vars => IInv'
  BY NextResultStep, NodeCPUFailsStep, WrongShapeStep, NodeCPUCollectedStep, OtherQueryStep,
     DiscoverStep, DetailsStep, ShowStep, EndStep, FileStep, GateStep, StutterStep
     DEF Next, Terminated

LEMMA Invariance == Spec => []IInv
  BY InitIInv, StepIInv, PTL DEF Spec

----------------------------------------------------------------------------
\* Every variable keeps its type, and no figure is asked for more than Attempts times.
THEOREM TypeCorrect == Spec => []TypeOK
  BY Invariance, PTL DEF IInv

----------------------------------------------------------------------------
LEMMA RowsMeasured == IInv => ArchivedAsMeasured
  <1> SUFFICES ASSUME IInv, NEW row \in archive, row.to \in {"promCsv", "index"}
               PROVE  /\ row.data.collected = (<< row.k, row.side, "cpu" >> \in got)
                      /\ \A f \in Kinds :
                           IF << row.k, row.side, f >> \in got
                           THEN row.data[f] = Value(row.k, row.side)
                           ELSE row.data[f] \in {Zero, NaN}
    BY DEF ArchivedAsMeasured
  <1>1. row.k \in Indices /\ row.side \in Sides /\ row.data = rec[row.k][row.side] /\ RecInv
    BY DEF IInv, ArchiveInv
  <1>2. /\ rec[row.k][row.side].collected <=> << row.k, row.side, "cpu" >> \in got
        /\ rec[row.k][row.side].collected \in BOOLEAN
    BY <1>1 DEF RecInv
  <1>3. row.data.collected = (<< row.k, row.side, "cpu" >> \in got)
    BY <1>1, <1>2
  <1>4. ASSUME NEW f \in Kinds
        PROVE  IF << row.k, row.side, f >> \in got
               THEN row.data[f] = Value(row.k, row.side) ELSE row.data[f] \in {Zero, NaN}
    BY <1>1, RecHolds
  <1> QED BY <1>3, <1>4

\* Every archived row about the nodes holds exactly what Prometheus answered for that end
\* of that test, for every number of results and every sequence of failed queries.
THEOREM RowsHoldTheAnswers == Spec => []ArchivedAsMeasured
  BY Invariance, RowsMeasured, PTL

----------------------------------------------------------------------------
LEMMA ShownBeforeArchived == IInv => NothingLostToArchiving
  <1> SUFFICES ASSUME IInv, pc \in {"fatal", "exit"}, NEW k \in Indices
               PROVE  IF in.json THEN << "json", k >> \in screen \/ ~ Marshals
                      ELSE Results[k].cfg.profile.upper =>
                             /\ << "stream", k >> \in screen <=> << "rr", k >> \notin screen
                             /\ << "rr", k >> \in screen => << "latency", k >> \in screen
    BY DEF NothingLostToArchiving
  <1>1. screen = Shown
    BY DEF IInv, ScreenInv
  <1>2. CASE in.json
    BY <1>1, <1>2 DEF Shown
  <1>3. CASE ~ in.json
    <2> DEFINE p == Results[k].cfg.profile
    <2>1. screen = {tk \in Tables \X Indices : InTable(tk[1], Results[tk[2]])}
      BY <1>1, <1>3 DEF Shown
    <2>2. p \in Profiles
      BY ResultsAreTests DEF IInv, TypeOK, TestType, ConfigType
    <2>3. \A t \in Tables : << t, k >> \in screen <=> InTable(t, Results[k])
      BY <2>1
    <2>4. /\ << "stream", k >> \in screen <=> ContainsSTREAM(p)
          /\ << "rr", k >> \in screen <=> ContainsRR(p)
          /\ << "latency", k >> \in screen <=> IsTCPStreamLat(p) \/ ContainsRR(p)
      <3>1. "stream" \in Tables /\ "rr" \in Tables /\ "latency" \in Tables
        BY DEF Tables
      <3>2. /\ InTable("stream", Results[k]) <=> ContainsSTREAM(p)
            /\ InTable("rr", Results[k]) <=> ContainsRR(p)
            /\ InTable("latency", Results[k]) <=> IsTCPStreamLat(p) \/ ContainsRR(p)
        BY DEF InTable
      <3> QED BY <2>3, <3>1, <3>2
    <2> HIDE DEF p
    <2>5. p.upper => (ContainsSTREAM(p) <=> ~ ContainsRR(p))
      BY <2>2 DEF Profiles, ContainsSTREAM, ContainsRR, StreamNames, ProfileNames
    <2> QED BY <1>3, <2>4, <2>5 DEF p
  <1> QED BY <1>2, <1>3

\* A process that ends while it archives, compares or cleans up has shown every result.
THEOREM ShownWhateverFails == Spec => []NothingLostToArchiving
  BY Invariance, ShownBeforeArchived, PTL

----------------------------------------------------------------------------
(***************************************************************************)
(* The gate.                                                               *)
(***************************************************************************)
LEMMA LargestIndex ==
  ASSUME NEW n \in Nat, NEW S \in SUBSET (1 .. n), S # {}
  PROVE  Max(S) \in S
  <1> DEFINE R == {ss \in Nat \X Nat : ss[1] < ss[2]}
             D == {n - x : x \in S}
  <1>1. IsWellFoundedOn(R, Nat)
    BY NatLessThanWellFounded, Zenon DEF OpToRel
  <1>2. D \in SUBSET Nat /\ D # {}
    <2>1. \A x \in S : n - x \in Nat
      OBVIOUS
    <2>2. PICK x \in S : TRUE
      OBVIOUS
    <2>3. n - x \in D
      OBVIOUS
    <2> QED BY <2>1, <2>3
  <1>3. PICK d \in D : \A y \in D : << y, d >> \notin R
    <2> HIDE DEF R, D
    <2> QED BY <1>1, <1>2, WFMin, Zenon
  <1>4. PICK x \in S : d = n - x
    OBVIOUS
  <1>5. ASSUME NEW y \in S PROVE x >= y
    <2>1. n - y \in D /\ n - y \in Nat /\ d \in Nat
      BY <1>2
    <2>2. << n - y, d >> \in Nat \X Nat /\ << n - y, d >> \notin R
      BY <1>3, <2>1
    <2>3. ~ (n - y < d)
      BY <2>2
    <2> QED BY <1>4, <2>3
  <1> QED BY <1>4, <1>5 DEF Max

\* A figure that counts is a number; doPerfDiff returns one of them or zero.
Counts(hostNet, msg) ==
  {k \in Indices : /\ Compared(Results[k]) /\ Results[k].hostNet = hostNet
                   /\ Results[k].cfg.msg = msg /\ Results[k].cfg.streams = 1
                   /\ Positive(perf[k])}

LEMMA FigureOfDiff ==
  ASSUME IInv, NEW hostNet \in BOOLEAN, NEW msg
  PROVE  /\ \A k \in Indices : Positive(perf[k]) => perf[k] \in Nat \ {0}
         /\ doPerfDiff(hostNet, msg) \in Nat
         /\ doPerfDiff(hostNet, msg) = 0 => Counts(hostNet, msg) = {}
         /\ Counts(hostNet, msg) = {} => doPerfDiff(hostNet, msg) = 0
         /\ Counts(hostNet, msg) # {} =>
              \E k \in Counts(hostNet, msg) : doPerfDiff(hostNet, msg) = perf[k]
  <1> DEFINE S == Counts(hostNet, msg)
  <1>1. Len(Results) \in Nat /\ Indices = 1 .. Len(Results) /\ in \in InputType
    BY ResultsAreTests DEF IInv, TypeOK
  <1>2. in.speeds \subseteq Nat \ {0}
    BY <1>1 DEF InputType
  <1>3. \A k \in Indices : Positive(perf[k]) => perf[k] \in Nat \ {0}
    BY <1>2 DEF IInv, FlowInv, Positive
  <1>4. S \in SUBSET (1 .. Len(Results)) /\ \A k \in S : perf[k] \in Nat \ {0}
    BY <1>1, <1>3 DEF Counts
  <1>5. doPerfDiff(hostNet, msg) = IF S = {} THEN 0 ELSE perf[Max(S)]
    BY DEF doPerfDiff, Counts
  <1> HIDE DEF S
  <1>6. S # {} => Max(S) \in S
    BY <1>1, <1>4, LargestIndex
  <1>7. S = {} => doPerfDiff(hostNet, msg) = 0
    BY <1>5
  <1>8. S # {} => /\ doPerfDiff(hostNet, msg) = perf[Max(S)]
                  /\ doPerfDiff(hostNet, msg) \in Nat \ {0}
    BY <1>4, <1>5, <1>6
  <1>9. doPerfDiff(hostNet, msg) \in Nat
    BY <1>7, <1>8
  <1> QED BY <1>3, <1>6, <1>7, <1>8, <1>9 DEF S

\* Every result on the host network has one on the pod network, of the same test.
LEMMA PartnerOf ==
  ASSUME IInv, NEW h \in Indices, Results[h].hostNet
  PROVE  /\ ~ Results[h].virt /\ ~ Results[h].cfg.service
         /\ in.host # "only" =>
              \E p \in Indices : /\ ~ Results[p].hostNet /\ ~ Results[p].virt
                                 /\ Results[p].cfg = Results[h].cfg
                                 /\ Results[p].driver = Results[h].driver
  <1>1. in \in Inputs /\ Results = Recorded(in)
    BY DEF IInv, TypeOK
  <1> DEFINE k == Nth(RunAt(in), h)
  <1>2. k \in RunAt(in) /\ Results[h] = TestAt(in, k) /\ in \in InputType
    BY <1>1, ResultsAreTests
  <1> HIDE DEF k
  <1>3. ~ Results[h].virt /\ ~ Results[h].cfg.service
    BY <1>2 DEF RunAt, IsRun
  <1>4. ASSUME in.host # "only"
        PROVE  \E p \in Indices : /\ ~ Results[p].hostNet /\ ~ Results[p].virt
                                  /\ Results[p].cfg = Results[h].cfg
                                  /\ Results[p].driver = Results[h].driver
    <2>1. /\ k + 1 \in RunAt(in)
          /\ ~ TestAt(in, k + 1).virt /\ ~ TestAt(in, k + 1).hostNet
          /\ TestAt(in, k + 1).cfg = TestAt(in, k).cfg
          /\ TestAt(in, k + 1).driver = TestAt(in, k).driver
      BY <1>2, <1>4, PodPartner
    <2>2. PICK p \in Indices : Nth(RunAt(in), p) = k + 1
      BY <1>1, <2>1, ResultsAreTests
    <2>3. Results[p] = TestAt(in, k + 1)
      BY <1>1, <2>2, ResultsAreTests
    <2> QED BY <1>2, <2>1, <2>3
  <1> QED BY <1>3, <1>4

\* A difference above the tolerance needs a figure on the host network.
LEMMA AboveNeedsHost ==
  ASSUME NEW h \in Nat, NEW p \in Nat, in.tcpt \in Nat, Above(h, p)
  PROVE  h # 0
  <1> SUFFICES ASSUME h = 0 PROVE FALSE
    OBVIOUS
  <1>1. in.tcpt * (h + p) >= 0
    OBVIOUS
  <1>2. 200 * (h - p) <= 0 /\ 200 * (h - p) \in Int /\ in.tcpt * (h + p) \in Int
    OBVIOUS
  <1> QED BY <1>1, <1>2 DEF Above

\* Above is the comparison of PairFails.
LEMMA AboveIsPairFails ==
  ASSUME IInv, NEW h \in Indices, NEW p \in Indices, Positive(perf[h])
  PROVE  PairFails(h, p) <=> Above(perf[h], IF Positive(perf[p]) THEN perf[p] ELSE 0)
  <1> DEFINE pod == IF Positive(perf[p]) THEN perf[p] ELSE 0
  <1>1. perf[h] \in Nat \ {0} /\ pod \in Nat
    BY FigureOfDiff
  <1>2. PairFails(h, p) <=> 100 * (perf[h] - pod) * 2 > in.tcpt * (perf[h] + pod)
    BY DEF PairFails
  <1> HIDE DEF pod
  <1>3. 100 * (perf[h] - pod) * 2 = 200 * (perf[h] - pod) /\ perf[h] + pod > 0
    BY <1>1
  <1>4. PairFails(h, p) <=> Above(perf[h], pod)
    BY <1>2, <1>3 DEF Above
  <1> QED BY <1>4 DEF pod

\* If the gate fails, there are a size, a host figure that counts, a result on the host
\* network of that size, and the pods' figure is too low.
LEMMA GateCause ==
  ASSUME IInv, GateFails
  PROVE  \E k \in Indices :
           /\ in.host # "only" /\ IsTCPStream(Results[k]) /\ ~ Results[k].cfg.service
           /\ Results[k].cfg.streams = 1 /\ Results[k].hostNet
           /\ \E h \in Counts(TRUE, Results[k].cfg.msg) :
                Above(perf[h], doPerfDiff(FALSE, Results[k].cfg.msg))
  <1>1. PICK k \in Indices :
          /\ IsTCPStream(Results[k]) /\ ~ Results[k].cfg.service
          /\ Results[k].cfg.streams = 1 /\ Results[k].hostNet
          /\ Above(doPerfDiff(TRUE, Results[k].cfg.msg), doPerfDiff(FALSE, Results[k].cfg.msg))
    BY DEF GateFails
  <1> DEFINE m == Results[k].cfg.msg
  <1>2. in.tcpt \in Nat /\ in.host # "only"
    BY ResultsAreTests DEF IInv, TypeOK, InputType, GateFails
  <1>3. doPerfDiff(TRUE, m) \in Nat /\ doPerfDiff(FALSE, m) \in Nat
    BY FigureOfDiff
  <1>4. doPerfDiff(TRUE, m) # 0
    BY <1>1, <1>2, <1>3, AboveNeedsHost
  <1>5. PICK h \in Counts(TRUE, m) : doPerfDiff(TRUE, m) = perf[h]
    BY <1>4, FigureOfDiff
  <1>6. Above(perf[h], doPerfDiff(FALSE, m))
    BY <1>1, <1>5
  <1> QED BY <1>1, <1>2, <1>5, <1>6

LEMMA FailureHasCause == IInv => FailsOnlyWithCause
  <1> SUFFICES ASSUME IInv, pc = "exit", retCode = 1
               PROVE  \E h, p \in Indices :
                        /\ \A k \in {h, p} : /\ IsTCPStream(Results[k])
                                             /\ ~ Results[k].cfg.service /\ ~ Results[k].virt
                        /\ Results[h].hostNet /\ ~ Results[p].hostNet
                        /\ Results[h].cfg.msg = Results[p].cfg.msg
                        /\ PairFails(h, p)
    BY DEF FailsOnlyWithCause
  <1>1. GateFails
    BY DEF IInv, GateInv
  <1>2. PICK k \in Indices :
           /\ in.host # "only" /\ IsTCPStream(Results[k]) /\ ~ Results[k].cfg.service
           /\ Results[k].cfg.streams = 1 /\ Results[k].hostNet
           /\ \E h \in Counts(TRUE, Results[k].cfg.msg) :
                Above(perf[h], doPerfDiff(FALSE, Results[k].cfg.msg))
    BY <1>1, GateCause
  <1> DEFINE m == Results[k].cfg.msg
  <1>3. PICK h \in Counts(TRUE, m) : Above(perf[h], doPerfDiff(FALSE, m))
    BY <1>2
  <1>4. /\ h \in Indices /\ IsTCPStream(Results[h]) /\ ~ Results[h].cfg.service
        /\ ~ Results[h].virt /\ Results[h].hostNet /\ Results[h].cfg.msg = m
        /\ Positive(perf[h])
    BY <1>3 DEF Counts, Compared
  <1>5. CASE Counts(FALSE, m) = {}
    <2>1. PICK p \in Indices : /\ ~ Results[p].hostNet /\ ~ Results[p].virt
                              /\ Results[p].cfg = Results[k].cfg
      BY <1>2, PartnerOf
    <2>2. IsTCPStream(Results[p]) /\ ~ Results[p].cfg.service /\ Results[p].cfg.msg = m
          /\ Results[p].cfg.streams = 1
      BY <1>2, <2>1 DEF IsTCPStream
    <2>3. Results[p].hostNet \in BOOLEAN
      BY ResultsAreTests DEF IInv, TypeOK, TestType
    <2>4. ~ Positive(perf[p])
      BY <1>5, <2>1, <2>2, <2>3 DEF Counts, Compared
    <2>5. doPerfDiff(FALSE, m) = 0
      BY <1>5, FigureOfDiff
    <2>6. PairFails(h, p)
      BY <1>3, <1>4, <2>4, <2>5, AboveIsPairFails
    <2> QED BY <1>4, <2>1, <2>2, <2>6
  <1>6. CASE Counts(FALSE, m) # {}
    <2>1. PICK p \in Counts(FALSE, m) : doPerfDiff(FALSE, m) = perf[p]
      BY <1>6, FigureOfDiff
    <2>2. /\ p \in Indices /\ IsTCPStream(Results[p]) /\ ~ Results[p].cfg.service
          /\ ~ Results[p].virt /\ ~ Results[p].hostNet /\ Results[p].cfg.msg = m
          /\ Positive(perf[p])
      BY <2>1 DEF Counts, Compared
    <2>3. PairFails(h, p)
      BY <1>3, <1>4, <2>1, <2>2, AboveIsPairFails
    <2> QED BY <1>4, <2>2, <2>3
  <1> QED BY <1>5, <1>6

\* An exit code of 1 has a host figure and a pod figure of the same message size that are
\* too far apart, for every list of tests and drivers and every tolerance.
THEOREM FailureNeedsCause == Spec => []FailsOnlyWithCause
  BY Invariance, FailureHasCause, PTL

----------------------------------------------------------------------------
\* With one driver and different sizes a network and a size belong to one result.
Separate == /\ in.host = "all" /\ Len(in.drivers) = 1
            /\ \A a, b \in DOMAIN in.configs : in.configs[a].msg = in.configs[b].msg => a = b

LEMMA OneResultPerSize ==
  ASSUME IInv, Separate, NEW a \in Indices, NEW b \in Indices,
         ~ Results[a].virt, ~ Results[b].virt, Results[a].hostNet = Results[b].hostNet,
         Results[a].cfg.msg = Results[b].cfg.msg
  PROVE  a = b
  <1>1. in \in Inputs /\ Results = Recorded(in)
    BY DEF IInv, TypeOK
  <1>2. /\ Nth(RunAt(in), a) \in RunAt(in) /\ Results[a] = TestAt(in, Nth(RunAt(in), a))
        /\ Nth(RunAt(in), b) \in RunAt(in) /\ Results[b] = TestAt(in, Nth(RunAt(in), b))
        /\ in \in InputType
    BY <1>1, ResultsAreTests
  <1>3. Nth(RunAt(in), a) = Nth(RunAt(in), b)
    BY <1>2, OneTestPerSize DEF Separate
  <1> QED BY <1>1, <1>3, ResultsAreTests

\* So the figures doPerfDiff compares are those of the pair.
LEMMA DiffOfPair ==
  ASSUME IInv, Separate, NEW h \in Indices, NEW p \in Indices,
         IsTCPStream(Results[h]), Results[h].hostNet, Results[h].cfg.streams = 1,
         ~ Results[h].virt, ~ Results[p].hostNet, ~ Results[p].virt,
         Results[h].cfg = Results[p].cfg
  PROVE  /\ Positive(perf[h]) => doPerfDiff(TRUE, Results[h].cfg.msg) = perf[h]
         /\ doPerfDiff(FALSE, Results[h].cfg.msg) =
              IF Positive(perf[p]) THEN perf[p] ELSE 0
  <1> DEFINE m == Results[h].cfg.msg
  <1>1. ~ Results[h].cfg.service
    BY PartnerOf
  <1>2. /\ Compared(Results[h]) /\ Compared(Results[p])
        /\ Results[p].cfg.msg = m /\ Results[p].cfg.streams = 1
    BY <1>1 DEF Compared, IsTCPStream
  <1>3. Results[h].hostNet = TRUE /\ Results[p].hostNet = FALSE
    BY ResultsAreTests DEF IInv, TypeOK, TestType
  <1>4. \A k \in Counts(TRUE, m) : k = h
    <2> SUFFICES ASSUME NEW k \in Counts(TRUE, m) PROVE k = h
      OBVIOUS
    <2>1. /\ k \in Indices /\ ~ Results[k].virt /\ Results[k].hostNet = Results[h].hostNet
          /\ Results[k].cfg.msg = Results[h].cfg.msg
      BY <1>3 DEF Counts, Compared
    <2> QED BY <2>1, OneResultPerSize
  <1>5. \A k \in Counts(FALSE, m) : k = p
    <2> SUFFICES ASSUME NEW k \in Counts(FALSE, m) PROVE k = p
      OBVIOUS
    <2>1. /\ k \in Indices /\ ~ Results[k].virt /\ Results[k].hostNet = Results[p].hostNet
          /\ Results[k].cfg.msg = Results[p].cfg.msg
      BY <1>2, <1>3 DEF Counts, Compared
    <2> QED BY <2>1, OneResultPerSize
  <1>6. ASSUME Positive(perf[h]) PROVE doPerfDiff(TRUE, m) = perf[h]
    <2>1. h \in Counts(TRUE, m)
      BY <1>2, <1>3, <1>6 DEF Counts
    <2> QED BY <1>4, <2>1, FigureOfDiff
  <1>7. CASE Positive(perf[p])
    <2>1. p \in Counts(FALSE, m)
      BY <1>2, <1>3, <1>7 DEF Counts
    <2> QED BY <1>5, <1>6, <1>7, <2>1, FigureOfDiff
  <1>8. CASE ~ Positive(perf[p])
    <2>1. Counts(FALSE, m) = {}
      BY <1>5, <1>8 DEF Counts
    <2> QED BY <1>6, <1>8, <2>1, FigureOfDiff
  <1> QED BY <1>7, <1>8

LEMMA GateOfPairs == IInv => GateExact
  <1> SUFFICES ASSUME IInv, pc = "exit", Separate
               PROVE  retCode = 1 <=> \E hp \in Pairs : PairFails(hp[1], hp[2])
    BY DEF GateExact, Separate
  <1>1. retCode = 1 <=> GateFails
    BY DEF IInv, GateInv
  <1>2. ASSUME GateFails PROVE \E hp \in Pairs : PairFails(hp[1], hp[2])
    <2>1. PICK k \in Indices :
           /\ in.host # "only" /\ IsTCPStream(Results[k]) /\ ~ Results[k].cfg.service
           /\ Results[k].cfg.streams = 1 /\ Results[k].hostNet
           /\ \E h \in Counts(TRUE, Results[k].cfg.msg) :
                Above(perf[h], doPerfDiff(FALSE, Results[k].cfg.msg))
      BY <1>2, GateCause
    <2>2. PICK h \in Counts(TRUE, Results[k].cfg.msg) :
                Above(perf[h], doPerfDiff(FALSE, Results[k].cfg.msg))
      BY <2>1
    <2>3. /\ h \in Indices /\ IsTCPStream(Results[h]) /\ ~ Results[h].virt
          /\ Results[h].hostNet /\ Results[h].cfg.streams = 1
          /\ Results[h].cfg.msg = Results[k].cfg.msg /\ Positive(perf[h])
      BY <2>2 DEF Counts, Compared
    <2>4. PICK p \in Indices : /\ ~ Results[p].hostNet /\ ~ Results[p].virt
                              /\ Results[p].cfg = Results[h].cfg
                              /\ Results[p].driver = Results[h].driver
      BY <2>1, <2>3, PartnerOf
    <2>5. Above(perf[h], IF Positive(perf[p]) THEN perf[p] ELSE 0)
      BY <2>2, <2>3, <2>4, DiffOfPair
    <2>6. PairFails(h, p)
      BY <2>3, <2>5, AboveIsPairFails
    <2>7. << h, p >> \in Pairs
      BY <2>3, <2>4 DEF Pairs
    <2>8. << h, p >>[1] = h /\ << h, p >>[2] = p
      OBVIOUS
    <2> QED BY <2>6, <2>7, <2>8
  <1>3. ASSUME NEW hp \in Pairs, PairFails(hp[1], hp[2]) PROVE GateFails
    <2> DEFINE h == hp[1]
               p == hp[2]
    <2>1. /\ h \in Indices /\ p \in Indices
          /\ IsTCPStream(Results[h]) /\ Results[h].hostNet /\ Results[h].cfg.streams = 1
          /\ ~ Results[h].virt /\ ~ Results[p].hostNet /\ ~ Results[p].virt
          /\ Results[h].cfg = Results[p].cfg
      BY DEF Pairs
    <2>2. PairFails(h, p)
      BY <1>3
    <2> HIDE DEF h, p
    <2>3. Positive(perf[h])
      BY <2>2 DEF PairFails
    <2>4. ~ Results[h].cfg.service
      BY <2>1, PartnerOf
    <2>5. Above(perf[h], IF Positive(perf[p]) THEN perf[p] ELSE 0)
      BY <2>1, <2>2, <2>3, AboveIsPairFails
    <2>6. Above(doPerfDiff(TRUE, Results[h].cfg.msg), doPerfDiff(FALSE, Results[h].cfg.msg))
      BY <2>1, <2>3, <2>5, DiffOfPair
    <2>7. CheckHostResults
      BY <2>1 DEF CheckHostResults
    <2>8. in.host # "only"
      BY DEF Separate
    <2> QED BY <2>1, <2>4, <2>6, <2>7, <2>8 DEF GateFails
  <1> QED BY <1>1, <1>2, <1>3

\* With one driver and message sizes that differ the exit code is exact, for every
\* number of tests, every figure and every tolerance.
THEOREM GateIsExact == Spec => []GateExact
  BY Invariance, GateOfPairs, PTL

=============================================================================
