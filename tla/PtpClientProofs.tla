--------------------------- MODULE PtpClientProofs ---------------------------
(***************************************************************************)
(* Theorems about PtpClient, for any number of ports, domains, announces   *)
(* and any length of the window and of the timeouts.                       *)
(***************************************************************************)
EXTENDS PtpClient, WellFoundedInduction, TLAPS

(* What the scan of RunBmca returns, for any number of ports and any       *)
(* table.  The scan is a recursive function over the ports; its facts are  *)
(* proved from the well-foundedness of < on the naturals.                  *)

(* Induction on a set of naturals.                                         *)
LEMMA SetInduction ==
    ASSUME NEW S, 0 \in S, \A n \in Nat : n \in S => n + 1 \in S
    PROVE  Nat \subseteq S
<1> DEFINE T == Nat \ S
           R == OpToRel(<, Nat)
<1> SUFFICES ASSUME T # {} PROVE FALSE
    OBVIOUS
<1>1. IsWellFoundedOn(R, Nat)
    BY NatLessThanWellFounded
<1>2. T \subseteq Nat
    OBVIOUS
<1> HIDE DEF T, R
<1>3. PICK x \in T : \A y \in T : ~(<<y, x>> \in R)
    BY <1>1, <1>2, WFMin
<1>4. x \in Nat /\ x # 0 /\ x \notin S
    BY <1>3 DEF T
<1>5. x - 1 \in Nat /\ <<x - 1, x>> \in R
    BY <1>4 DEF R, OpToRel
<1>6. x - 1 \in S
    BY <1>3, <1>5 DEF T
<1>7. (x - 1) + 1 \in S
    BY <1>5, <1>6
<1> QED
    BY <1>4, <1>7

(* The same for a prefix of the naturals.                                  *)
LEMMA PrefixInduction ==
    ASSUME NEW n \in Nat, NEW S, 0 \in S,
           \A i \in 1..n : i - 1 \in S => i \in S
    PROVE  0..n \subseteq S
<1> DEFINE U == {i \in Nat : i <= n => i \in S}
<1>1. 0 \in U
    OBVIOUS
<1>2. \A i \in Nat : i \in U => i + 1 \in U
  <2> SUFFICES ASSUME NEW i \in Nat, i \in U, i + 1 <= n PROVE i + 1 \in S
      OBVIOUS
  <2>1. i \in S /\ i + 1 \in 1..n /\ (i + 1) - 1 = i
      OBVIOUS
  <2> QED
      BY <2>1
<1> HIDE DEF U
<1>3. Nat \subseteq U
    BY <1>1, <1>2, SetInduction
<1> QED
    BY <1>3 DEF U

----------------------------------------------------------------------------
(* The values of the scan as it goes over the ports.                       *)
IsScan(table, b) ==
    b = [i \in 0..N |-> IF i = 0 THEN None ELSE ScanStep(table, i, b[i - 1])]

(* The scan is well defined.                                               *)
LEMMA ScanExists ==
    ASSUME NEW table PROVE \E b : IsScan(table, b)
<1>N. N \in Nat
    BY PortAssumption
<1> DEFINE Upto(n, b) ==
        b = [i \in 0..n |-> IF i = 0 THEN None ELSE ScanStep(table, i, b[i - 1])]
           S == {n \in Nat : \E b : Upto(n, b)}
<1>1. 0 \in S
  <2> DEFINE z == [i \in 0..0 |-> None]
  <2>1. z = [i \in 0..0 |-> IF i = 0 THEN None ELSE ScanStep(table, i, z[i - 1])]
      OBVIOUS
  <2> HIDE DEF z
  <2> QED
      BY <2>1
<1>2. \A n \in Nat : n \in S => n + 1 \in S
  <2> SUFFICES ASSUME NEW n \in Nat, NEW b, Upto(n, b)
               PROVE  \E c : Upto(n + 1, c)
      OBVIOUS
  <2> DEFINE c == [i \in 0..(n + 1) |->
                      IF i = n + 1 THEN ScanStep(table, i, b[n]) ELSE b[i]]
  <2>1. \A i \in 0..n : b[i] = IF i = 0 THEN None ELSE ScanStep(table, i, b[i - 1])
      OBVIOUS
  <2>2. \A i \in 0..n : c[i] = b[i]
      OBVIOUS
  <2>3. c[n + 1] = ScanStep(table, n + 1, c[n])
      OBVIOUS
  <2>4. \A i \in 1..n : i - 1 \in 0..n /\ c[i - 1] = b[i - 1]
      BY <2>2
  <2>5. c = [i \in 0..(n + 1) |-> c[i]]
      OBVIOUS
  <2> HIDE DEF c, Upto
  <2>6. \A i \in 0..(n + 1) : c[i] = IF i = 0 THEN None ELSE ScanStep(table, i, c[i - 1])
    <3> TAKE i \in 0..(n + 1)
    <3>1. CASE i = n + 1
        BY <2>3, <3>1
    <3>2. CASE i = 0
        BY <2>1, <2>2, <3>2
    <3>3. CASE i \in 1..n
        BY <2>1, <2>2, <2>4, <3>3
    <3> QED
        BY <3>1, <3>2, <3>3
  <2>7. Upto(n + 1, c)
      BY <2>5, <2>6 DEF Upto
  <2> QED
      BY <2>7
<1> HIDE DEF S
<1>3. N \in S
    BY <1>1, <1>2, <1>N, SetInduction
<1> QED
    BY <1>3 DEF S, IsScan

(* ScanBest is the last value of the scan.                                 *)
LEMMA ScanBestIs ==
    ASSUME NEW table
    PROVE  \E b : IsScan(table, b) /\ ScanBest(table) = b[N]
<1> DEFINE best == CHOOSE b : IsScan(table, b)
<1>1. IsScan(table, best)
    BY ScanExists
<1>2. ScanBest(table) = best[N]
    BY DEF ScanBest, IsScan
<1> QED
    BY <1>1, <1>2

(* What the scan holds after i ports is None or a port among them.         *)
LEMMA ScanType ==
    ASSUME NEW table, NEW b, IsScan(table, b)
    PROVE  \A i \in 0..N : b[i] \in 0..i /\ (b[i] # None => b[i] \in Qualified(table))
<1>N. N \in Nat
    BY PortAssumption
<1> DEFINE S == {i \in 0..N : b[i] \in 0..i /\ (b[i] # None => b[i] \in Qualified(table))}
<1>1. \A i \in 0..N : b[i] = IF i = 0 THEN None ELSE ScanStep(table, i, b[i - 1])
    BY DEF IsScan
<1>2. 0 \in S
    BY <1>1, <1>N DEF None
<1>3. \A i \in 1..N : i - 1 \in S => i \in S
  <2> SUFFICES ASSUME NEW i \in 1..N, i - 1 \in S PROVE i \in S
      OBVIOUS
  <2>1. (b[i] = i /\ i \in Qualified(table)) \/ b[i] = b[i - 1]
      BY <1>1, <1>N DEF ScanStep
  <2> QED
      BY <2>1, <1>N DEF None
<1> HIDE DEF S
<1>4. 0..N \subseteq S
    BY <1>2, <1>3, <1>N, PrefixInduction
<1> QED
    BY <1>4 DEF S

(* A scan that only differs in the table but not in its steps ends alike.  *)
LEMMA ScanUnique ==
    ASSUME NEW t, NEW u, NEW b, NEW c, IsScan(t, b), IsScan(u, c),
           \A i \in Ports, x \in 0..N : ScanStep(t, i, x) = ScanStep(u, i, x)
    PROVE  b[N] = c[N]
<1>N. N \in Nat
    BY PortAssumption
<1> DEFINE S == {i \in 0..N : b[i] = c[i]}
<1>1. \A i \in 0..N : /\ b[i] = IF i = 0 THEN None ELSE ScanStep(t, i, b[i - 1])
                      /\ c[i] = IF i = 0 THEN None ELSE ScanStep(u, i, c[i - 1])
    BY DEF IsScan
<1>2. 0 \in S
    BY <1>1, <1>N
<1>3. \A i \in 1..N : i - 1 \in S => i \in S
  <2> SUFFICES ASSUME NEW i \in 1..N, i - 1 \in S PROVE i \in S
      OBVIOUS
  <2>1. i - 1 \in 0..N /\ i \in 0..N /\ i # 0 /\ i \in Ports
      BY <1>N DEF Ports
  <2>2. b[i - 1] \in 0..(i - 1)
      BY <2>1, ScanType
  <2>3. b[i - 1] \in 0..N /\ b[i - 1] = c[i - 1]
      BY <2>1, <2>2, <1>N
  <2> QED
      BY <2>1, <2>3, <1>1
<1> HIDE DEF S
<1>4. 0..N \subseteq S
    BY <1>2, <1>3, <1>N, PrefixInduction
<1> QED
    BY <1>4, <1>N DEF S

----------------------------------------------------------------------------
(* RunBmca selects no master, or a qualified one.                          *)
LEMMA ScanBestType ==
    ASSUME NEW table
    PROVE  /\ ScanBest(table) \in Ports \cup {None}
           /\ ScanBest(table) # None => ScanBest(table) \in Qualified(table)
<1>1. PICK b : IsScan(table, b) /\ ScanBest(table) = b[N]
    BY ScanBestIs
<1>2. N \in 0..N
    BY PortAssumption
<1>3. b[N] \in 0..N /\ (b[N] # None => b[N] \in Qualified(table))
    BY <1>1, <1>2, ScanType
<1> QED
    BY <1>1, <1>3, PortAssumption DEF Ports, None

(* The choice depends on the announce counts and the datasets alone.       *)
LEMMA ScanBestSame ==
    ASSUME NEW t, NEW u,
           \A p \in Ports : t[p].amber = u[p].amber /\ t[p].ds = u[p].ds
    PROVE  ScanBest(t) = ScanBest(u)
<1>1. PICK b : IsScan(t, b) /\ ScanBest(t) = b[N]
    BY ScanBestIs
<1>2. PICK c : IsScan(u, c) /\ ScanBest(u) = c[N]
    BY ScanBestIs
<1>3. \A i \in Ports, x \in 0..N : ScanStep(t, i, x) = ScanStep(u, i, x)
  <2> TAKE i \in Ports, x \in 0..N
  <2>1. i \in Qualified(t) <=> i \in Qualified(u)
      BY DEF Qualified
  <2>2. x # None => x \in Ports
      BY PortAssumption DEF None, Ports
  <2>3. x # None => t[x].ds = u[x].ds
      BY <2>2
  <2> QED
      BY <2>1, <2>3 DEF ScanStep
<1> QED
    BY <1>1, <1>2, <1>3, ScanUnique

----------------------------------------------------------------------------
(* The comparison of tuples of one length is the lexicographic order.      *)
LEMMA LeastElement ==
    ASSUME NEW T, T \subseteq Nat, T # {}
    PROVE  \E x \in T : \A y \in T : x <= y
<1> DEFINE R == OpToRel(<, Nat)
<1>1. IsWellFoundedOn(R, Nat)
    BY NatLessThanWellFounded
<1> HIDE DEF R
<1>2. PICK x \in T : \A y \in T : ~(<<y, x>> \in R)
    BY <1>1, WFMin
<1>3. ASSUME NEW y \in T PROVE x <= y
  <2>1. ~(y < x)
      BY <1>2 DEF R, OpToRel
  <2> QED
      BY <2>1
<1> QED
    BY <1>3

LEMMA DecidingIs ==
    ASSUME NEW n \in Nat, NEW s \in [1..n -> Nat], NEW t \in [1..n -> Nat], s # t
    PROVE  /\ Deciding(s, t) \in 1..n
           /\ s[Deciding(s, t)] # t[Deciding(s, t)]
           /\ \A j \in 1..(Deciding(s, t) - 1) : s[j] = t[j]
<1> DEFINE T == {i \in 1..n : s[i] # t[i]}
           P(i) == s[i] # t[i] /\ \A j \in 1..(i - 1) : s[j] = t[j]
<1>1. T # {} /\ T \subseteq Nat
    OBVIOUS
<1>2. PICK x \in T : \A y \in T : x <= y
  <2> HIDE DEF T
  <2> QED
      BY <1>1, LeastElement
<1>3. x \in DOMAIN s /\ P(x)
    BY <1>2
<1>4. \E i \in DOMAIN s : P(i)
    BY <1>3
<1>5. Deciding(s, t) = CHOOSE i \in DOMAIN s : P(i)
    BY DEF Deciding
<1> HIDE DEF P
<1>6. Deciding(s, t) \in DOMAIN s /\ P(Deciding(s, t))
    BY <1>4, <1>5
<1> QED
    BY <1>6 DEF P

LEMMA DecidingUnique ==
    ASSUME NEW n \in Nat, NEW s \in [1..n -> Nat], NEW t \in [1..n -> Nat],
           NEW k \in 1..n, s[k] # t[k], \A j \in 1..(k - 1) : s[j] = t[j]
    PROVE  Deciding(s, t) = k
<1> DEFINE d == Deciding(s, t)
<1>1. /\ d \in 1..n
      /\ s[d] # t[d]
      /\ \A j \in 1..(d - 1) : s[j] = t[j]
    BY DecidingIs
<1> HIDE DEF d
<1>2. ~(d < k) /\ ~(k < d)
    BY <1>1
<1>3. d = k
    BY <1>1, <1>2
<1> QED
    BY <1>3 DEF d

LEMMA FieldTotal ==
    ASSUME NEW n \in Nat, NEW s \in [1..n -> Nat], NEW t \in [1..n -> Nat]
    PROVE  /\ FieldCompare(s, t) \in {-1, 0, 1}
           /\ FieldCompare(s, t) = 0 <=> s = t
           /\ FieldCompare(s, t) < 0 <=> FieldCompare(t, s) > 0
<1>1. CASE s = t
    BY <1>1 DEF FieldCompare
<1>2. CASE s # t
  <2> DEFINE d == Deciding(s, t)
  <2>1. d \in 1..n /\ s[d] # t[d] /\ \A j \in 1..(d - 1) : s[j] = t[j]
      BY <1>2, DecidingIs
  <2> HIDE DEF d
  <2>2. Deciding(t, s) = d
      BY <2>1, DecidingUnique, Zenon
  <2>3. Deciding(s, t) = d
      BY DEF d
  <2>4. s[d] \in Nat /\ t[d] \in Nat
      BY <2>1
  <2> QED
      BY <1>2, <2>1, <2>2, <2>3, <2>4 DEF FieldCompare
<1> QED
    BY <1>1, <1>2

(* A field decides when the ones before it are equal.                      *)
LEMMA FieldLess ==
    ASSUME NEW n \in Nat, NEW s \in [1..n -> Nat], NEW t \in [1..n -> Nat],
           NEW k \in 1..n, s[k] < t[k], \A j \in 1..(k - 1) : s[j] = t[j]
    PROVE  FieldCompare(s, t) < 0
<1>1. s[k] \in Nat /\ t[k] \in Nat
    OBVIOUS
<1>2. s[k] # t[k]
    BY <1>1
<1>3. Deciding(s, t) = k
    BY <1>2, DecidingUnique
<1>4. s # t
    BY <1>2
<1>5. QED
    BY <1>3, <1>4 DEF FieldCompare

LEMMA FieldTransitive ==
    ASSUME NEW n \in Nat,
           NEW s \in [1..n -> Nat], NEW t \in [1..n -> Nat], NEW u \in [1..n -> Nat],
           FieldCompare(s, t) < 0, FieldCompare(t, u) < 0
    PROVE  FieldCompare(s, u) < 0
<1>1. s # t /\ t # u
    BY DEF FieldCompare
<1> DEFINE d == Deciding(s, t)
           e == Deciding(t, u)
<1>2. d \in 1..n /\ s[d] # t[d] /\ \A j \in 1..(d - 1) : s[j] = t[j]
    BY <1>1, DecidingIs
<1>3. e \in 1..n /\ t[e] # u[e] /\ \A j \in 1..(e - 1) : t[j] = u[j]
    BY <1>1, DecidingIs
<1>4. s[d] < t[d] /\ t[e] < u[e]
    BY <1>1 DEF FieldCompare
<1> HIDE DEF d, e
<1> DEFINE k == IF d < e THEN d ELSE e
<1>5. k \in 1..n /\ s[k] < u[k] /\ \A j \in 1..(k - 1) : s[j] = u[j]
  <2>1. CASE d < e
    <3>1. t[d] = u[d] /\ \A j \in 1..(d - 1) : s[j] = t[j] /\ t[j] = u[j]
        BY <1>2, <1>3, <2>1
    <3> QED
        BY <1>2, <1>4, <2>1, <3>1
  <2>2. CASE d = e
    <3>1. \A j \in 1..(e - 1) : s[j] = t[j] /\ t[j] = u[j]
        BY <1>2, <1>3, <2>2
    <3>2. s[e] \in Nat /\ t[e] \in Nat /\ u[e] \in Nat
        BY <1>3
    <3> QED
        BY <1>3, <1>4, <2>2, <3>1, <3>2
  <2>3. CASE d > e
    <3>1. s[e] = t[e] /\ \A j \in 1..(e - 1) : s[j] = t[j] /\ t[j] = u[j]
        BY <1>2, <1>3, <2>3
    <3> QED
        BY <1>2, <1>3, <1>4, <2>3, <3>1
  <2> QED
      BY <1>2, <1>3, <2>1, <2>2, <2>3
<1> HIDE DEF k
<1>6. QED
    BY <1>5, FieldLess

----------------------------------------------------------------------------
LEMMA Tuples ==
    ASSUME NEW a \in AnnounceDataset
    PROVE  GmAttributes(a) \in [1..6 -> Nat] /\ Topology(a) \in [1..2 -> Nat]
    BY DEF AnnounceDataset, GmAttributes, Topology

LEMMA TupleGm ==
    ASSUME NEW a \in AnnounceDataset, NEW b \in AnnounceDataset,
           GmAttributes(a) = GmAttributes(b)
    PROVE  a.gm = b.gm
<1>1. GmAttributes(a)[6] = a.gm /\ GmAttributes(b)[6] = b.gm
    BY DEF GmAttributes
<1> QED
    BY <1>1

LEMMA TupleSource ==
    ASSUME NEW a \in AnnounceDataset, NEW b \in AnnounceDataset,
           Topology(a) = Topology(b)
    PROVE  a.source = b.source
<1>1. Topology(a)[2] = a.source /\ Topology(b)[2] = b.source
    BY DEF Topology
<1> QED
    BY <1>1

(* Of two datasets from different ports one wins, and the comparison does  *)
(* not depend on which is looked at first.                                 *)
LEMMA CompareTotal ==
    ASSUME NEW a \in AnnounceDataset, NEW b \in AnnounceDataset
    PROVE  /\ CompareDatasets(a, b) \in {-1, 0, 1}
           /\ CompareDatasets(a, b) < 0 <=> CompareDatasets(b, a) > 0
           /\ a.source # b.source => CompareDatasets(a, b) # 0
<1> DEFINE F(s, t) == /\ FieldCompare(s, t) \in {-1, 0, 1}
                      /\ FieldCompare(s, t) = 0 <=> s = t
                      /\ FieldCompare(s, t) < 0 <=> FieldCompare(t, s) > 0
<1>1. CASE a.gm # b.gm
  <2>1. GmAttributes(a) # GmAttributes(b)
      BY <1>1, TupleGm
  <2>2. \A s, t \in [1..6 -> Nat] : F(s, t)
      BY FieldTotal
  <2>3. F(GmAttributes(a), GmAttributes(b))
      BY <2>2, Tuples
  <2> QED
      BY <1>1, <2>1, <2>3 DEF CompareDatasets
<1>2. CASE a.gm = b.gm
  <2>1. a.source # b.source => Topology(a) # Topology(b)
      BY TupleSource
  <2>2. \A s, t \in [1..2 -> Nat] : F(s, t)
      BY FieldTotal
  <2>3. F(Topology(a), Topology(b))
      BY <2>2, Tuples
  <2> QED
      BY <1>2, <2>1, <2>3 DEF CompareDatasets
<1> QED
    BY <1>1, <1>2

(* Two datasets that name one grandmaster describe it alike.               *)
Agree(a, b) == a.gm = b.gm => GmAttributes(a) = GmAttributes(b)

(* Among datasets that agree about their grandmasters the comparison is    *)
(* transitive.  Without that it is not: the topology of two paths to one   *)
(* grandmaster may disagree with how they compare with a third.            *)
LEMMA CompareTransitive ==
    ASSUME NEW a \in AnnounceDataset, NEW b \in AnnounceDataset, NEW c \in AnnounceDataset,
           Agree(a, b), Agree(b, c), Agree(a, c),
           CompareDatasets(a, b) < 0, CompareDatasets(b, c) < 0
    PROVE  CompareDatasets(a, c) < 0
<1> DEFINE A == GmAttributes(a)
           B == GmAttributes(b)
           C == GmAttributes(c)
<1>1. A \in [1..6 -> Nat] /\ B \in [1..6 -> Nat] /\ C \in [1..6 -> Nat]
    BY Tuples
<1>2. CASE a.gm = b.gm /\ b.gm = c.gm
  <2>1. FieldCompare(Topology(a), Topology(b)) < 0 /\ FieldCompare(Topology(b), Topology(c)) < 0
      BY <1>2 DEF CompareDatasets
  <2>2. FieldCompare(Topology(a), Topology(c)) < 0
      BY <2>1, Tuples, FieldTransitive
  <2> QED
      BY <1>2, <2>2 DEF CompareDatasets
<1>3. CASE a.gm = b.gm /\ b.gm # c.gm
  <2>1. A = B
      BY <1>3 DEF Agree
  <2> QED
      BY <1>3, <2>1 DEF CompareDatasets
<1>4. CASE a.gm # b.gm /\ b.gm = c.gm
  <2>1. B = C
      BY <1>4 DEF Agree
  <2> QED
      BY <1>4, <2>1 DEF CompareDatasets
<1>5. CASE a.gm # b.gm /\ b.gm # c.gm
  <2>1. FieldCompare(A, B) < 0 /\ FieldCompare(B, C) < 0
      BY <1>5 DEF CompareDatasets
  <2> HIDE DEF A, B, C
  <2>2. FieldCompare(A, C) < 0
      BY <1>1, <2>1, FieldTransitive
  <2>3. A # C
      BY <2>2 DEF FieldCompare
  <2>4. a.gm # c.gm
      BY <2>3 DEF Agree, A, C
  <2> QED
      BY <2>2, <2>4 DEF CompareDatasets, A, C
<1> QED
    BY <1>2, <1>3, <1>4, <1>5

(* The table as PtpClient keeps it: the dataset of port p came from p.     *)
WellFormed(table) ==
    \A p \in Qualified(table) : table[p].ds \in AnnounceDataset /\ table[p].ds.source = p

(* The outcome of the scan beats every other qualified master.             *)
LEMMA ScanBestWins ==
    ASSUME NEW table, WellFormed(table), Consistent(table)
    PROVE  \A p \in Qualified(table) \ {ScanBest(table)} :
               /\ ScanBest(table) # None
               /\ CompareDatasets(table[ScanBest(table)].ds, table[p].ds) < 0
<1>N. N \in Nat
    BY PortAssumption
<1>Q. Qualified(table) \subseteq 1..N
    BY DEF Qualified, Ports
<1> DEFINE ds(p) == table[p].ds
           Wins(x, i) == \A p \in Qualified(table) : p <= i /\ p # x =>
                             x # None /\ CompareDatasets(ds(x), ds(p)) < 0
<1>1. PICK b : IsScan(table, b) /\ ScanBest(table) = b[N]
    BY ScanBestIs
<1>2. \A i \in 0..N : b[i] = IF i = 0 THEN None ELSE ScanStep(table, i, b[i - 1])
    BY <1>1 DEF IsScan
<1>3. \A i \in 0..N : b[i] \in 0..i /\ (b[i] # None => b[i] \in Qualified(table))
    BY <1>1, ScanType
<1>4. \A p, q \in Qualified(table) :
          /\ ds(p) \in AnnounceDataset /\ Agree(ds(p), ds(q))
          /\ p # q => ds(p).source # ds(q).source
    BY DEF WellFormed, Consistent, Agree
<1> DEFINE S == {i \in 0..N : Wins(b[i], i)}
<1>5. 0 \in S
    BY <1>N, <1>Q
<1>6. \A i \in 1..N : i - 1 \in S => i \in S
  <2> SUFFICES ASSUME NEW i \in 1..N, Wins(b[i - 1], i - 1) PROVE Wins(b[i], i)
      OBVIOUS
  <2>1. i - 1 \in 0..N /\ i \in 0..N /\ i # 0
      BY <1>N
  <2>2. b[i] = ScanStep(table, i, b[i - 1])
      BY <1>2, <2>1
  <2>3. b[i - 1] \in 0..(i - 1) /\ (b[i - 1] # None => b[i - 1] \in Qualified(table))
      BY <1>3, <2>1
  <2>4. CASE i \notin Qualified(table)
    <3>1. b[i] = b[i - 1]
        BY <2>2, <2>4 DEF ScanStep
    <3>2. \A p \in Qualified(table) : p <= i => p <= i - 1
        BY <1>Q, <2>4
    <3> QED
        BY <3>1, <3>2
  <2>5. CASE i \in Qualified(table) /\ b[i - 1] = None
    <3>1. b[i] = i
        BY <2>2, <2>5 DEF ScanStep
    <3>2. \A p \in Qualified(table) : p <= i => p = i
        BY <1>Q, <2>5 DEF None
    <3> QED
        BY <3>1, <3>2
  <2>6. CASE i \in Qualified(table) /\ b[i - 1] # None
    <3> DEFINE x == b[i - 1]
    <3>1. x \in Qualified(table) /\ x # i
        BY <2>3, <2>6
    <3>2. \A p \in Qualified(table) : p <= i => p <= i - 1 \/ p = i
        BY <1>Q
    <3>3. CASE CompareDatasets(ds(i), ds(x)) < 0
      <4>1. b[i] = i
          BY <2>2, <2>6, <3>3 DEF ScanStep
      <4>2. i # None
          BY DEF None
      <4> HIDE DEF x
      <4>3. ASSUME NEW p \in Qualified(table), p <= i, p # i
            PROVE  CompareDatasets(ds(i), ds(p)) < 0
        <5>1. CASE p = x
            BY <3>3, <5>1
        <5>2. CASE p # x
          <6>1. CompareDatasets(ds(x), ds(p)) < 0
              BY <3>2, <4>3, <5>2 DEF x
          <6> QED
              BY <1>4, <2>6, <3>1, <3>3, <4>3, <6>1, CompareTransitive
        <5> QED
            BY <5>1, <5>2
      <4> QED
          BY <4>1, <4>2, <4>3
    <3>4. CASE ~(CompareDatasets(ds(i), ds(x)) < 0)
      <4>1. b[i] = x
          BY <2>2, <2>6, <3>4 DEF ScanStep
      <4> HIDE DEF x
      <4>2. CompareDatasets(ds(x), ds(i)) < 0
          BY <1>4, <2>6, <3>1, <3>4, CompareTotal
      <4>3. ASSUME NEW p \in Qualified(table), p <= i, p # x
            PROVE  x # None /\ CompareDatasets(ds(x), ds(p)) < 0
          BY <2>6, <3>2, <4>2, <4>3 DEF x
      <4> QED
          BY <4>1, <4>3
    <3> QED
        BY <3>3, <3>4
  <2> QED
      BY <2>4, <2>5, <2>6
<1> HIDE DEF S
<1>7. 0..N \subseteq S
    BY <1>5, <1>6, <1>N, PrefixInduction
<1>8. Wins(b[N], N)
    BY <1>7, <1>N DEF S
<1> QED
    BY <1>1, <1>8, <1>Q

----------------------------------------------------------------------------
(* PtpClient                                                               *)
(* The message of a type has the fields of that type.                      *)
LEMMA MessageFields ==
    ASSUME NEW m \in Messages
    PROVE  /\ m.type \in {"announce", "sync", "followUp", "delayResp"}
           /\ m.dom \in Domains
           /\ m.type = "announce" => m.ds \in Announces /\ m.net \in Nets
           /\ m.type = "sync" => m.clk \in Clocks /\ m.seq \in Seqs /\ m.twoStep \in BOOLEAN
           /\ m.type = "followUp" => m.clk \in Clocks /\ m.seq \in Seqs
           /\ m.type = "delayResp" => m.clk \in Clocks /\ m.seq \in Seqs
    BY DEF Messages, AnnounceMsg, SyncMsg, FollowUpMsg, DelayRespMsg

LEMMA MessageIsSome ==
    ASSUME NEW m \in Messages \cup {NoMsg}, m # NoMsg PROVE m \in Messages
    OBVIOUS

LEMMA NoEntryType == NoEntry \in Entry
    BY PtpAssumption DEF NoEntry, Entry, DefaultDataset, AnnounceDataset, QUALIFIED

LEMMA AnnouncedType ==
    ASSUME NEW e \in Entry, NEW m \in Messages, m.type = "announce"
    PROVE  Announced(e, m) \in Entry
<1>1. m.ds \in AnnounceDataset /\ m.dom \in Domains /\ m.net \in {0, 1}
    BY MessageFields, PtpAssumption
<1>2. Least(e.amber + 1, QUALIFIED) \in 0..QUALIFIED /\ e.amber \in 0..QUALIFIED
    BY DEF Entry, Least, QUALIFIED
<1>3. e.blue \in 0..1 /\ e.ds \in AnnounceDataset /\ e.dom \in Domains \cup {NoDomain}
    BY DEF Entry
<1>4. 0 \in 0..(ANNOUNCE_TIMEOUT + 1)
    BY PtpAssumption
<1> QED
    BY <1>1, <1>2, <1>3, <1>4 DEF Announced, Entry

(* RunBmca leaves the variables it assigns with values of their types.     *)
LEMMA RunBmcaType ==
    ASSUME TypeOK, NEW table \in [Ports -> Entry], RunBmca(table)
    PROVE  /\ foreign' \in [Ports -> Entry]
           /\ selected' \in Ports \cup {None}
           /\ await' \in [seq : Seqs, rx : SUBSET Origins]
           /\ window' \in Seq(Sample) /\ Len(window') <= WINDOW
           /\ mapping' \in Mapping /\ delayFrom' \subseteq Domains
           /\ synced' \in BOOLEAN /\ early' \in BOOLEAN
<1>1. ScanBest(table) \in Ports \cup {None}
    BY ScanBestType
<1>2. NoSync \in [seq : Seqs, rx : SUBSET Origins]
    BY PtpAssumption DEF NoSync, Seqs
<1>3. <<>> \in Seq(Sample) /\ Len(<<>>) <= WINDOW
    BY PtpAssumption
<1>4. synced' \in BOOLEAN /\ early' \in BOOLEAN
    BY Zenon DEF RunBmca, TypeOK
<1>5. mapping' \in Mapping /\ delayFrom' \subseteq Domains
    BY DEF RunBmca, TypeOK
<1> QED
    BY <1>1, <1>2, <1>3, <1>4, <1>5 DEF RunBmca, TypeOK

(* What AddOffsetSample does to the window and the mapping: samples are    *)
(* kept or are the new one, and enough of them yield a mapping.            *)
LEMMA SampleIs ==
    ASSUME TypeOK, NEW sample \in Sample, AddOffsetSample(sample)
    PROVE  /\ window' \in Seq(Sample) /\ Len(window') <= WINDOW
           /\ \A i \in DOMAIN window' :
                  window'[i] = sample \/ \E j \in DOMAIN window : window'[i] = window[j]
           /\ \/ /\ Len(window') >= MIN_SAMPLES /\ synced' = TRUE
                 /\ \E i \in DOMAIN window' : mapping' = Smoothed(window'[i])
              \/ /\ Len(window') < MIN_SAMPLES
                 /\ UNCHANGED <<mapping, synced>>
<1>1. PICK base \in {window} \cup (IF Len(window) >= SETTLED THEN {<<>>} ELSE {}) :
        LET longer == Append(base, sample)
            samples == IF Len(longer) > WINDOW THEN Tail(longer) ELSE longer
        IN  /\ window' = samples
            /\ \/ /\ Len(samples) >= MIN_SAMPLES
                  /\ \E i \in DOMAIN samples : mapping' = Smoothed(samples[i])
                  /\ synced' = TRUE
               \/ /\ Len(samples) < MIN_SAMPLES
                  /\ UNCHANGED <<mapping, synced>>
    BY DEF AddOffsetSample
<1> DEFINE longer == Append(base, sample)
           samples == IF Len(longer) > WINDOW THEN Tail(longer) ELSE longer
<1>2. WINDOW \in Nat \ {0} /\ window \in Seq(Sample) /\ Len(window) <= WINDOW
    BY PtpAssumption DEF TypeOK
<1>3. /\ base \in Seq(Sample) /\ Len(base) <= WINDOW
      /\ \A i \in 1..Len(base) : \E j \in DOMAIN window : base[i] = window[j]
  <2>1. base = window \/ base = <<>>
      BY <1>1
  <2>2. CASE base = window
      BY <1>2, <2>2
  <2>3. CASE base = <<>>
      BY <1>2, <2>3
  <2> QED
      BY <2>1, <2>2, <2>3
<1>4. /\ longer \in Seq(Sample) /\ Len(longer) = Len(base) + 1
      /\ \A i \in 1..Len(base) : longer[i] = base[i]
      /\ longer[Len(base) + 1] = sample
    BY <1>3
<1>5. \A i \in 1..Len(longer) :
          longer[i] = sample \/ \E j \in DOMAIN window : longer[i] = window[j]
  <2> TAKE i \in 1..Len(longer)
  <2>1. i \in 1..Len(base) \/ i = Len(base) + 1
      BY <1>3, <1>4
  <2> QED
      BY <1>3, <1>4, <2>1
<1> HIDE DEF longer
<1>6. samples = IF Len(longer) > WINDOW THEN Tail(longer) ELSE longer
    OBVIOUS
<1>7. window' = samples
    BY <1>1 DEF longer
<1>8. \/ /\ Len(samples) >= MIN_SAMPLES /\ synced' = TRUE
         /\ \E i \in DOMAIN samples : mapping' = Smoothed(samples[i])
      \/ /\ Len(samples) < MIN_SAMPLES
         /\ UNCHANGED <<mapping, synced>>
    BY <1>1 DEF longer
<1> HIDE DEF samples
<1>9. /\ samples \in Seq(Sample) /\ Len(samples) <= WINDOW
      /\ \A i \in DOMAIN samples : \E k \in 1..Len(longer) : samples[i] = longer[k]
  <2>1. CASE Len(longer) > WINDOW
    <3>1. /\ samples = Tail(longer) /\ longer # <<>>
          /\ Tail(longer) \in Seq(Sample) /\ Len(Tail(longer)) = Len(longer) - 1
          /\ \A i \in 1..(Len(longer) - 1) : Tail(longer)[i] = longer[i + 1]
        BY <1>6, <1>2, <1>4, <2>1
    <3>2. \A i \in 1..(Len(longer) - 1) : i + 1 \in 1..Len(longer)
        BY <1>4
    <3>3. DOMAIN samples = 1..(Len(longer) - 1)
        BY <3>1
    <3>4. Len(Tail(longer)) <= WINDOW
        BY <1>2, <1>3, <1>4, <3>1
    <3> QED
        BY <3>1, <3>2, <3>3, <3>4
  <2>2. CASE ~(Len(longer) > WINDOW)
    <3>1. samples = longer
        BY <1>6, <2>2
    <3>2. Len(longer) <= WINDOW
        BY <1>2, <1>4, <2>2
    <3>3. DOMAIN longer = 1..Len(longer)
        BY <1>4
    <3> QED
        BY <1>4, <3>1, <3>2, <3>3
  <2> QED
      BY <2>1, <2>2
<1> QED
    BY <1>5, <1>9, <1>7, <1>8

LEMMA SmoothedType ==
    ASSUME TypeOK, NEW sample \in Sample
    PROVE  Smoothed(sample) \in Mapping
<1> DEFINE kept == IF synced THEN mapping ELSE NoMapping
<1>1. kept \in Mapping
    BY DEF TypeOK, NoMapping, Mapping
<1>2. \A o \in sample.times : o[1] \in Domains
    BY DEF Sample, Origins
<1>3. sample.delay \subseteq Domains
    BY DEF Sample
<1>4. Smoothed(sample) = [times |-> kept.times \cup {o[1] : o \in sample.times},
                          delay |-> kept.delay \cup sample.delay]
    BY DEF Smoothed
<1> HIDE DEF kept
<1> QED
    BY <1>1, <1>2, <1>3, <1>4 DEF Mapping

(* A measurement keeps the types of what it changes.                       *)
LEMMA MeasurementType ==
    ASSUME TypeOK, NEW t1 \in SUBSET Origins, NEW t2 \in SUBSET Origins,
           CompleteMeasurement(t1, t2)
    PROVE  /\ window' \in Seq(Sample) /\ Len(window') <= WINDOW
           /\ mapping' \in Mapping /\ synced' \in BOOLEAN
<1> DEFINE s == [times |-> t1 \cup t2, delay |-> delayFrom]
<1>1. s \in Sample /\ AddOffsetSample(s)
    BY DEF Sample, CompleteMeasurement, TypeOK
<1> HIDE DEF s
<1>2. /\ window' \in Seq(Sample) /\ Len(window') <= WINDOW
      /\ \/ /\ Len(window') >= MIN_SAMPLES /\ synced' = TRUE
            /\ \E i \in DOMAIN window' : mapping' = Smoothed(window'[i])
         \/ /\ Len(window') < MIN_SAMPLES
            /\ UNCHANGED <<mapping, synced>>
    BY <1>1, SampleIs
<1>3. synced' \in BOOLEAN
  <2>1. synced' = TRUE \/ synced' = synced
      BY <1>2
  <2> QED
      BY <2>1, Zenon DEF TypeOK
<1>4. \A i \in DOMAIN window' : window'[i] \in Sample
    BY <1>2
<1>5. mapping' \in Mapping
    BY <1>2, <1>4, SmoothedType DEF TypeOK
<1> QED
    BY <1>2, <1>3, <1>5

----------------------------------------------------------------------------
LEMMA TypeInit == Init => TypeOK
<1> SUFFICES ASSUME Init PROVE TypeOK
    OBVIOUS
<1>1. EmptyTable \in [Ports -> Entry]
    BY NoEntryType DEF EmptyTable
<1>2. 0 \in Seqs /\ NoSync \in [seq : Seqs, rx : SUBSET Origins]
    BY PtpAssumption DEF Seqs, NoSync
<1>3. <<>> \in Seq(Sample) /\ Len(<<>>) <= WINDOW
    BY PtpAssumption
<1>4. 0 \in 0..(DELAY_EVERY - 1) /\ SYNC_TIMEOUT + 1 \in 0..(SYNC_TIMEOUT + 1)
    BY PtpAssumption
<1>5. NoMapping \in Mapping
    BY DEF NoMapping, Mapping
<1> QED
    BY <1>1, <1>2, <1>3, <1>4, <1>5 DEF Init, TypeOK

(* The handler of a message keeps the types of the variables it changes.   *)
LEMMA RxHandleType ==
    ASSUME TypeOK, RxHandle PROVE TypeOK'
<1> DEFINE m == inflight
<1>1. m \in Messages
    BY DEF RxHandle, TypeOK
<1>2. /\ domain' = domain /\ switching' = switching /\ delaySeq' = delaySeq
      /\ asked' = asked /\ timer' = timer /\ tick' = tick /\ inflight' = NoMsg
    BY DEF RxHandle, ctlVars, delayVars, timerVars
<1>3. m.type # "announce" => Origin(m) \in SUBSET Origins
    BY <1>1, MessageFields DEF Origin, Origins
<1> SUFFICES /\ foreign' \in [Ports -> Entry]
             /\ selected' \in Ports \cup {None}
             /\ await' \in [seq : Seqs, rx : SUBSET Origins]
             /\ syncAge' \in 0..(SYNC_TIMEOUT + 1)
             /\ window' \in Seq(Sample) /\ Len(window') <= WINDOW
             /\ mapping' \in Mapping /\ delayFrom' \subseteq Domains
             /\ synced' \in BOOLEAN /\ early' \in BOOLEAN
    BY <1>2 DEF TypeOK
<1>4. CASE m.type = "announce" /\ HandleAnnounce(m)
  <2> DEFINE table == [foreign EXCEPT ![m.ds.source] = Announced(@, m)]
  <2>1. m.ds.source \in Ports
      BY <1>1, <1>4, MessageFields, PtpAssumption
  <2>2. table \in [Ports -> Entry]
      BY <1>1, <1>4, <2>1, AnnouncedType DEF TypeOK
  <2>3. RunBmca(table) /\ syncAge' = syncAge
      BY <1>4 DEF HandleAnnounce
  <2> HIDE DEF table
  <2> QED
      BY <2>2, <2>3, RunBmcaType DEF TypeOK
<1>5. CASE m.type = "sync" /\ HandleSync(m)
  <2>1. syncAge' \in 0..(SYNC_TIMEOUT + 1)
      BY <1>5, PtpAssumption DEF HandleSync
  <2>2. await' \in [seq : Seqs, rx : SUBSET Origins]
    <3>1. NoSync \in [seq : Seqs, rx : SUBSET Origins]
        BY PtpAssumption DEF NoSync, Seqs
    <3>2. m.seq \in Seqs
        BY <1>1, <1>5, MessageFields
    <3> QED
        BY <1>3, <1>5, <3>1, <3>2 DEF HandleSync
  <2>3. /\ window' \in Seq(Sample) /\ Len(window') <= WINDOW
        /\ mapping' \in Mapping /\ synced' \in BOOLEAN
    <3>1. CASE m.twoStep
      <4>1. UNCHANGED <<window, mapping, synced>>
          BY <1>5, <3>1 DEF HandleSync
      <4> QED
          BY <4>1 DEF TypeOK
    <3>2. CASE ~m.twoStep
        BY <1>3, <1>5, <3>2, MeasurementType DEF HandleSync
    <3> QED
        BY <3>1, <3>2
  <2>4. UNCHANGED <<masterVars, delayFrom, early>>
      BY <1>5 DEF HandleSync
  <2> QED
      BY <2>1, <2>2, <2>3, <2>4 DEF TypeOK, masterVars
<1>6. CASE m.type = "followUp" /\ HandleFollowUp(m)
  <2>1. await' \in [seq : Seqs, rx : SUBSET Origins] /\ await.rx \in SUBSET Origins
      BY <1>6, PtpAssumption DEF HandleFollowUp, NoSync, Seqs, TypeOK
  <2>2. CompleteMeasurement(Origin(m), await.rx)
      BY <1>6 DEF HandleFollowUp
  <2>3. /\ window' \in Seq(Sample) /\ Len(window') <= WINDOW
        /\ mapping' \in Mapping /\ synced' \in BOOLEAN
      BY <1>3, <1>6, <2>1, <2>2, MeasurementType
  <2>4. UNCHANGED <<masterVars, delayFrom, early, syncAge>>
      BY <1>6 DEF HandleFollowUp
  <2> QED
      BY <2>1, <2>3, <2>4 DEF TypeOK, masterVars
<1>7. CASE m.type = "delayResp" /\ HandleDelayResp(m)
  <2>1. UNCHANGED <<masterVars, await, syncAge, window, mapping, synced>>
      BY <1>7 DEF HandleDelayResp
  <2>2. early' \in BOOLEAN
      BY <1>7, Zenon DEF HandleDelayResp
  <2>3. delayFrom' \subseteq Domains
    <3>1. m.dom \in Domains /\ mapping.times \subseteq Domains /\ mapping.delay \subseteq Domains
        BY <1>1, MessageFields DEF TypeOK, Mapping
    <3> QED
        BY <1>7, <3>1 DEF HandleDelayResp, TypeOK
  <2> QED
      BY <2>1, <2>2, <2>3 DEF TypeOK, masterVars
<1>8. CASE Ignore(m)
    BY <1>8 DEF Ignore, TypeOK, masterVars, measVars
<1> QED
    BY <1>4, <1>5, <1>6, <1>7, <1>8 DEF RxHandle

LEMMA TypeStep == TypeOK /\ [Next]_vars => TypeOK'
<1> SUFFICES ASSUME TypeOK, [Next]_vars PROVE TypeOK'
    OBVIOUS
<1> USE DEF ctlVars, masterVars, measVars, delayVars, timerVars
<1>1. CASE RxAccept
    BY <1>1 DEF RxAccept, TypeOK
<1>2. CASE RxHandle
    BY <1>2, RxHandleType
<1>3. CASE SetDomainStore
    BY <1>3 DEF SetDomainStore, TypeOK
<1>4. CASE SetDomainClear
  <2>1. EmptyTable \in [Ports -> Entry]
      BY NoEntryType DEF EmptyTable
  <2>2. <<>> \in Seq(Sample) /\ Len(<<>>) <= WINDOW
      BY PtpAssumption
  <2> QED
      BY <1>4, <2>1, <2>2 DEF SetDomainClear, TypeOK
<1>5. CASE Elapse
  <2>1. syncAge' \in 0..(SYNC_TIMEOUT + 1)
      BY <1>5, PtpAssumption DEF Elapse, Least, TypeOK
  <2>2. \A e \in Entry :
            [e EXCEPT !.age = Least(@ + 1, ANNOUNCE_TIMEOUT + 1)] \in Entry
      BY PtpAssumption DEF Entry, Least
  <2>3. foreign' \in [Ports -> Entry]
      BY <1>5, <2>2 DEF Elapse, TypeOK
  <2> QED
      BY <1>5, <2>1, <2>3 DEF Elapse, TypeOK
<1>6. CASE TimerWake
    BY <1>6, PtpAssumption DEF TimerWake, TypeOK
<1>7. CASE TimerErase
  <2>1. PICK p \in Ports : RunBmca([foreign EXCEPT ![p] = NoEntry])
      BY <1>7 DEF TimerErase
  <2>2. [foreign EXCEPT ![p] = NoEntry] \in [Ports -> Entry]
      BY NoEntryType DEF TypeOK
  <2>3. /\ foreign' \in [Ports -> Entry]
        /\ selected' \in Ports \cup {None}
        /\ await' \in [seq : Seqs, rx : SUBSET Origins]
        /\ window' \in Seq(Sample) /\ Len(window') <= WINDOW
        /\ mapping' \in Mapping /\ delayFrom' \subseteq Domains
        /\ synced' \in BOOLEAN /\ early' \in BOOLEAN
      BY <2>1, <2>2, RunBmcaType
  <2> QED
      BY <1>7, <2>3 DEF TimerErase, TypeOK
<1>8. CASE TimerFinish
  <2>1. <<>> \in Seq(Sample) /\ Len(<<>>) <= WINDOW
      BY PtpAssumption
  <2> QED
      BY <1>8, <2>1 DEF TimerFinish, TypeOK
<1>9. CASE SendDelayReq
    BY <1>9, PtpAssumption DEF SendDelayReq, TypeOK, Seqs
<1>10. CASE UNCHANGED vars
    BY <1>10 DEF vars, TypeOK
<1> QED
    BY <1>1, <1>2, <1>3, <1>4, <1>5, <1>6, <1>7, <1>8, <1>9, <1>10 DEF Next

(* Every variable keeps its type, in particular the sample window its      *)
(* bound and the selected master a port of the table.                      *)
THEOREM TypeCorrect == Spec => []TypeOK
    BY TypeInit, TypeStep, PTL DEF Spec

----------------------------------------------------------------------------
(* The inductive invariant.  WindowFromSelected, MappingFromDomain and     *)
(* SelectedFromDomain say nothing of the message in flight, of the awaited *)
(* follow-up and of masters that are not selected; the parts below do.     *)

(* The dataset of a port in the table came from that port.                 *)
DatasetsOwn ==
    \A p \in Ports : foreign[p].amber > 0 \/ foreign[p].blue > 0 => foreign[p].ds.source = p

(* A message that outlived a domain change finds the session empty, since  *)
(* the receive thread has handled nothing since.                           *)
OldMessageFindsNothing ==
    ~switching /\ inflight # NoMsg /\ inflight.dom # domain =>
        /\ selected = None
        /\ \A p \in Ports : foreign[p].amber = 0

(* So it adds at most one announce, which does not qualify a master.       *)
QualifiedCurrent ==
    ~switching => \A p \in Ports : foreign[p].amber >= QUALIFIED => foreign[p].dom = domain

(* The receive time kept for a follow-up is that of a sync of the selected *)
(* master; one from before a domain change is dropped with the selection.  *)
AwaitFromSelected ==
    selected # None => \A o \in await.rx : /\ o[2] = ClockOf[selected]
                                           /\ ~switching => o[1] = domain

(* The path delay is of the current domain, if no delay response was       *)
(* applied too early.                                                      *)
DelayFromDomain == ~switching /\ ~early => delayFrom \subseteq {domain}

IInv ==
    /\ TypeOK
    /\ SelectionCurrent
    /\ SyncedHasMaster
    /\ DatasetsOwn
    /\ OldMessageFindsNothing
    /\ QualifiedCurrent
    /\ AwaitFromSelected
    /\ DelayFromDomain
    /\ WindowFromSelected
    /\ MappingFromDomain

(* RunBmca re-establishes what relates the selection to the rest.          *)
LEMMA RunBmcaStep ==
    ASSUME TypeOK, SyncedHasMaster, AwaitFromSelected, DelayFromDomain, WindowFromSelected,
           MappingFromDomain,
           NEW table \in [Ports -> Entry], RunBmca(table),
           domain' = domain, switching' = switching
    PROVE  /\ SelectionCurrent' /\ SyncedHasMaster' /\ AwaitFromSelected'
           /\ DelayFromDomain' /\ WindowFromSelected' /\ MappingFromDomain'
<1> DEFINE best == ScanBest(table)
<1>1. foreign' = table /\ selected' = best /\ UNCHANGED <<mapping, early>>
    BY DEF RunBmca
<1>2. SelectionCurrent'
    BY <1>1 DEF SelectionCurrent
<1>3. CASE best = selected
  <2>1. selected' = selected /\ UNCHANGED <<await, delayFrom, window, mapping, synced, early>>
      BY <1>1, <1>3 DEF RunBmca
  <2> QED
      BY <1>2, <2>1 DEF SyncedHasMaster, IsSynced, AwaitFromSelected, DelayFromDomain,
                        WindowFromSelected, MappingFromDomain
<1>4. CASE best # selected
  <2>1. /\ await' = NoSync /\ window' = <<>> /\ delayFrom' = {}
        /\ synced' = (synced /\ best # None)
      BY <1>4 DEF RunBmca
  <2>2. SyncedHasMaster'
      BY <1>1, <2>1, Zenon DEF SyncedHasMaster, IsSynced
  <2>3. AwaitFromSelected' /\ DelayFromDomain'
      BY <2>1 DEF AwaitFromSelected, NoSync, DelayFromDomain
  <2>4. WindowFromSelected'
      BY <2>1 DEF WindowFromSelected
  <2>5. synced' => synced
      BY <2>1, Zenon
  <2>6. MappingFromDomain'
      BY <1>1, <2>5 DEF MappingFromDomain
  <2> QED
      BY <1>2, <2>2, <2>3, <2>4, <2>6
<1> QED
    BY <1>3, <1>4

(* A measurement of the selected master keeps window and mapping its own.  *)
LEMMA MeasurementStep ==
    ASSUME TypeOK, DelayFromDomain, WindowFromSelected, MappingFromDomain, selected # None,
           NEW t1 \in SUBSET Origins, NEW t2 \in SUBSET Origins, t1 # {},
           \A o \in t1 \cup t2 : /\ o[2] = ClockOf[selected]
                                 /\ ~switching => o[1] = domain,
           CompleteMeasurement(t1, t2),
           domain' = domain, switching' = switching, selected' = selected, early' = early
    PROVE  SyncedHasMaster' /\ WindowFromSelected' /\ MappingFromDomain'
<1> DEFINE s == [times |-> t1 \cup t2, delay |-> delayFrom]
           Good(w) == /\ w \in Sample /\ w.times # {}
                      /\ \A o \in w.times : o[2] = ClockOf[selected] /\ (~switching => o[1] = domain)
                      /\ ~switching /\ ~early => w.delay \subseteq {domain}
<1>1. s \in Sample /\ AddOffsetSample(s)
    BY DEF Sample, CompleteMeasurement, TypeOK
<1>2. s.times # {} /\ s.times = t1 \cup t2 /\ s.delay = delayFrom
    OBVIOUS
<1> HIDE DEF s
<1>3. Good(s)
    BY <1>1, <1>2 DEF DelayFromDomain
<1>4. \A j \in DOMAIN window : Good(window[j])
  <2> TAKE j \in DOMAIN window
  <2>1. window[j] \in Sample
      BY DEF TypeOK
  <2>2. /\ window[j].times # {} /\ \A o \in window[j].times : o[2] = ClockOf[selected]
        /\ ~switching => window[j].times = {<<domain, ClockOf[selected]>>}
        /\ ~switching /\ ~early => window[j].delay \subseteq {domain}
      BY DEF WindowFromSelected
  <2> QED
      BY <2>1, <2>2
<1>5. /\ \A i \in DOMAIN window' :
             window'[i] = s \/ \E j \in DOMAIN window : window'[i] = window[j]
      /\ \/ /\ Len(window') >= MIN_SAMPLES /\ synced' = TRUE
            /\ \E i \in DOMAIN window' : mapping' = Smoothed(window'[i])
         \/ /\ Len(window') < MIN_SAMPLES
            /\ UNCHANGED <<mapping, synced>>
    BY <1>1, SampleIs
<1> HIDE DEF Good
<1>6. \A i \in DOMAIN window' : Good(window'[i])
    BY <1>3, <1>4, <1>5
<1>7. WindowFromSelected'
  <2> SUFFICES ASSUME NEW i \in DOMAIN window'
               PROVE  /\ window'[i].times # {}
                      /\ \A o \in window'[i].times : o[2] = ClockOf[selected]
                      /\ ~switching => window'[i].times = {<<domain, ClockOf[selected]>>}
                      /\ ~switching /\ ~early => window'[i].delay \subseteq {domain}
      BY DEF WindowFromSelected
  <2>1. Good(window'[i])
      BY <1>6
  <2>2. ASSUME ~switching, NEW o \in window'[i].times PROVE o = <<domain, ClockOf[selected]>>
      BY <2>1, <2>2 DEF Good, Origins, Sample
  <2> QED
      BY <2>1, <2>2 DEF Good
<1>8. MappingFromDomain'
  <2>1. CASE UNCHANGED <<mapping, synced>>
      BY <2>1 DEF MappingFromDomain
  <2>2. ASSUME NEW i \in DOMAIN window', mapping' = Smoothed(window'[i]), ~switching
        PROVE  /\ mapping'.times \subseteq {domain}
               /\ ~early => mapping'.delay \subseteq {domain}
    <3> DEFINE w == window'[i]
               kept == IF synced THEN mapping ELSE NoMapping
    <3>1. Good(w)
        BY <1>6
    <3>2. kept.times \subseteq {domain} /\ (~early => kept.delay \subseteq {domain})
        BY <2>2 DEF MappingFromDomain, NoMapping
    <3>3. mapping' = [times |-> kept.times \cup {o[1] : o \in w.times},
                      delay |-> kept.delay \cup w.delay]
        BY <2>2 DEF Smoothed
    <3> HIDE DEF w, kept
    <3> QED
        BY <2>2, <3>1, <3>2, <3>3 DEF Good
  <2> QED
      BY <1>5, <2>1, <2>2 DEF MappingFromDomain
<1>9. SyncedHasMaster'
    BY DEF SyncedHasMaster
<1> QED
    BY <1>7, <1>8, <1>9

LEMMA IInvInit == Init => IInv
<1> SUFFICES ASSUME Init PROVE IInv
    OBVIOUS
<1>1. TypeOK
    BY TypeInit
<1>2. \A p \in Ports : foreign[p] = NoEntry
    BY DEF Init, EmptyTable
<1>3. Qualified(foreign) = {}
    BY <1>2 DEF Qualified, NoEntry, QUALIFIED
<1>4. SelectionCurrent
    BY <1>3, ScanBestType DEF SelectionCurrent, Init
<1>5. DatasetsOwn /\ QualifiedCurrent
    BY <1>2 DEF DatasetsOwn, QualifiedCurrent, NoEntry, QUALIFIED
<1> QED
    BY <1>1, <1>4, <1>5 DEF Init, IInv, SyncedHasMaster, IsSynced, OldMessageFindsNothing,
       AwaitFromSelected, DelayFromDomain, WindowFromSelected, MappingFromDomain

LEMMA RxHandleStep ==
    ASSUME IInv, RxHandle PROVE IInv'
<1> DEFINE m == inflight
<1>1. m \in Messages /\ m # NoMsg
    BY DEF RxHandle, IInv, TypeOK
<1>2. domain' = domain /\ switching' = switching /\ inflight' = NoMsg
    BY DEF RxHandle, ctlVars
<1>3. TypeOK'
    BY RxHandleType DEF IInv
<1>4. OldMessageFindsNothing'
    BY <1>2 DEF OldMessageFindsNothing
<1>5. CASE m.type = "announce" /\ HandleAnnounce(m)
  <2> DEFINE p == m.ds.source
             table == [foreign EXCEPT ![p] = Announced(@, m)]
  <2>1. p \in Ports /\ m.net \in {0, 1}
      BY <1>1, <1>5, MessageFields, PtpAssumption
  <2>2. table \in [Ports -> Entry] /\ foreign \in [Ports -> Entry]
      BY <1>1, <1>5, <2>1, AnnouncedType DEF IInv, TypeOK
  <2>3. RunBmca(table) /\ foreign' = table
      BY <1>5 DEF HandleAnnounce, RunBmca
  <2>4. /\ table[p] = Announced(foreign[p], m)
        /\ \A q \in Ports \ {p} : table[q] = foreign[q]
      BY <2>1, <2>2
  <2>5. foreign[p].amber \in 0..QUALIFIED /\ foreign[p].blue \in 0..1
      BY <2>1, <2>2 DEF Entry
  <2> HIDE DEF table
  <2>6. /\ SelectionCurrent' /\ SyncedHasMaster' /\ AwaitFromSelected'
        /\ DelayFromDomain' /\ WindowFromSelected' /\ MappingFromDomain'
      BY <1>2, <2>2, <2>3, RunBmcaStep DEF IInv
  <2>7. DatasetsOwn'
    <3> SUFFICES ASSUME NEW q \in Ports, table[q].amber > 0 \/ table[q].blue > 0
                 PROVE  table[q].ds.source = q
        BY <2>3 DEF DatasetsOwn
    <3>1. CASE q # p
        BY <2>4, <3>1 DEF IInv, DatasetsOwn
    <3>2. CASE q = p
        BY <2>1, <2>4, <2>5, <3>2 DEF IInv, DatasetsOwn, Announced
    <3> QED
        BY <3>1, <3>2
  <2>8. QualifiedCurrent'
    <3> SUFFICES ASSUME ~switching, NEW q \in Ports, table[q].amber >= QUALIFIED
                 PROVE  table[q].dom = domain
        BY <1>2, <2>3 DEF QualifiedCurrent
    <3>1. CASE q # p
        BY <2>4, <3>1 DEF IInv, QualifiedCurrent
    <3>2. CASE q = p /\ m.dom = domain
        BY <2>1, <2>4, <2>5, <3>2 DEF IInv, QualifiedCurrent, Announced, QUALIFIED
    <3>3. CASE q = p /\ m.dom # domain
      <4>1. foreign[p].amber = 0
          BY <1>1, <2>1, <3>3 DEF IInv, OldMessageFindsNothing
      <4>2. table[q].amber <= 1
          BY <2>1, <2>4, <3>3, <4>1 DEF Announced, Least, QUALIFIED
      <4> QED
          BY <2>2, <4>2 DEF QUALIFIED, Entry
    <3> QED
        BY <3>1, <3>2, <3>3
  <2> QED
      BY <1>3, <1>4, <2>6, <2>7, <2>8 DEF IInv
<1>6. CASE \/ m.type = "sync" /\ HandleSync(m)
           \/ m.type = "followUp" /\ HandleFollowUp(m)
  <2>1. foreign' = foreign /\ selected' = selected
      BY <1>6 DEF HandleSync, HandleFollowUp, masterVars
  <2>2. SelectionCurrent' /\ DatasetsOwn' /\ QualifiedCurrent'
      BY <1>2, <2>1 DEF IInv, SelectionCurrent, DatasetsOwn, QualifiedCurrent
  <2>3. FromSelected(m) /\ selected # None /\ m.clk = ClockOf[selected]
      BY <1>6 DEF HandleSync, HandleFollowUp, FromSelected
  <2>4. ~switching => m.dom = domain
      BY <1>1, <2>3 DEF IInv, OldMessageFindsNothing
  <2>5. /\ Origin(m) \in SUBSET Origins /\ Origin(m) # {}
        /\ \A o \in Origin(m) : o[2] = ClockOf[selected] /\ (~switching => o[1] = domain)
      BY <1>1, <1>6, <2>3, <2>4, MessageFields DEF Origin, Origins
  <2>6. AwaitFromSelected'
    <3>1. await'.rx = Origin(m) \/ await'.rx = {}
        BY <1>6 DEF HandleSync, HandleFollowUp, NoSync
    <3> QED
        BY <1>2, <2>1, <2>5, <3>1 DEF AwaitFromSelected
  <2>8. UNCHANGED <<delayFrom, early>>
      BY <1>6 DEF HandleSync, HandleFollowUp
  <2>9. DelayFromDomain'
      BY <1>2, <2>8 DEF IInv, DelayFromDomain
  <2>7. SyncedHasMaster' /\ WindowFromSelected' /\ MappingFromDomain'
    <3>1. CASE UNCHANGED <<window, mapping, synced>>
        BY <1>2, <2>1, <2>8, <3>1
        DEF IInv, SyncedHasMaster, IsSynced, WindowFromSelected, MappingFromDomain
    <3>2. CASE CompleteMeasurement(Origin(m), Origin(m))
        BY <1>2, <2>1, <2>3, <2>5, <2>8, <3>2, MeasurementStep DEF IInv
    <3>3. CASE CompleteMeasurement(Origin(m), await.rx)
      <4>1. /\ await.rx \in SUBSET Origins
            /\ \A o \in await.rx : o[2] = ClockOf[selected] /\ (~switching => o[1] = domain)
          BY <2>3 DEF IInv, TypeOK, AwaitFromSelected
      <4> QED
          BY <1>2, <2>1, <2>3, <2>5, <2>8, <3>3, <4>1, MeasurementStep DEF IInv
    <3> QED
        BY <1>6, <3>1, <3>2, <3>3 DEF HandleSync, HandleFollowUp
  <2> QED
      BY <1>3, <1>4, <2>2, <2>6, <2>7, <2>9 DEF IInv
<1>8. CASE m.type = "delayResp" /\ HandleDelayResp(m)
  <2>1. UNCHANGED <<masterVars, await, window, mapping, synced>>
      BY <1>8 DEF HandleDelayResp
  <2>2. ~early' => ~early /\ m.dom = domain /\ synced
      BY <1>8, Zenon DEF HandleDelayResp
  <2>3. DelayFromDomain'
    <3> SUFFICES ASSUME ~switching, ~early' PROVE delayFrom' \subseteq {domain}
        BY <1>2 DEF DelayFromDomain
    <3>1. ~early /\ m.dom = domain /\ synced
        BY <2>2
    <3>2. mapping.times \subseteq {domain} /\ mapping.delay \subseteq {domain}
        BY <3>1 DEF IInv, MappingFromDomain
    <3> QED
        BY <1>8, <3>1, <3>2 DEF HandleDelayResp, IInv, DelayFromDomain
  <2>4. WindowFromSelected' /\ MappingFromDomain'
      BY <1>2, <2>1, <2>2 DEF IInv, WindowFromSelected, MappingFromDomain, masterVars
  <2> QED
      BY <1>2, <1>3, <1>4, <2>1, <2>3, <2>4
      DEF IInv, masterVars, SelectionCurrent, SyncedHasMaster, IsSynced, DatasetsOwn,
          QualifiedCurrent, AwaitFromSelected
<1>7. CASE UNCHANGED <<masterVars, await, window, mapping, synced, delayFrom, early>>
    BY <1>2, <1>3, <1>4, <1>7
    DEF IInv, masterVars, SelectionCurrent, SyncedHasMaster, IsSynced, DatasetsOwn,
        QualifiedCurrent, AwaitFromSelected, DelayFromDomain, WindowFromSelected, MappingFromDomain
<1> QED
    BY <1>5, <1>6, <1>7, <1>8 DEF RxHandle, Ignore, measVars

LEMMA IInvStep == IInv /\ [Next]_vars => IInv'
<1> SUFFICES ASSUME IInv, [Next]_vars PROVE IInv'
    OBVIOUS
<1>T. TypeOK'
    BY TypeStep DEF IInv
<1> USE DEF ctlVars, masterVars, measVars, delayVars, timerVars
<1>1. CASE RxAccept
  <2>1. inflight' # NoMsg => inflight'.dom = domain
      BY <1>1 DEF RxAccept
  <2>2. OldMessageFindsNothing'
      BY <1>1, <2>1 DEF RxAccept, OldMessageFindsNothing
  <2> QED
      BY <1>1, <1>T, <2>2
      DEF RxAccept, IInv, SelectionCurrent, SyncedHasMaster, IsSynced, DatasetsOwn,
          QualifiedCurrent, AwaitFromSelected, DelayFromDomain, WindowFromSelected, MappingFromDomain
<1>2. CASE RxHandle
    BY <1>2, RxHandleStep
<1>3. CASE SetDomainStore
    BY <1>3, <1>T
    DEF SetDomainStore, IInv, SelectionCurrent, SyncedHasMaster, IsSynced, DatasetsOwn,
        OldMessageFindsNothing, QualifiedCurrent, AwaitFromSelected, DelayFromDomain, WindowFromSelected,
        MappingFromDomain
<1>4. CASE SetDomainClear
  <2>1. \A p \in Ports : foreign'[p] = NoEntry
      BY <1>4 DEF SetDomainClear, EmptyTable
  <2>2. Qualified(foreign') = {}
      BY <2>1 DEF Qualified, NoEntry, QUALIFIED
  <2>3. SelectionCurrent'
      BY <1>4, <2>2, ScanBestType DEF SetDomainClear, SelectionCurrent
  <2>4. DatasetsOwn' /\ QualifiedCurrent' /\ OldMessageFindsNothing'
      BY <1>4, <2>1
      DEF SetDomainClear, DatasetsOwn, QualifiedCurrent, OldMessageFindsNothing, NoEntry, QUALIFIED
  <2>5. /\ SyncedHasMaster' /\ AwaitFromSelected' /\ DelayFromDomain'
        /\ WindowFromSelected' /\ MappingFromDomain'
      BY <1>4
      DEF SetDomainClear, SyncedHasMaster, IsSynced, AwaitFromSelected, DelayFromDomain, WindowFromSelected,
          MappingFromDomain
  <2> QED
      BY <1>T, <2>3, <2>4, <2>5 DEF IInv
<1>5. CASE Elapse
  <2>1. \A p \in Ports : /\ foreign'[p].amber = foreign[p].amber
                         /\ foreign'[p].blue = foreign[p].blue
                         /\ foreign'[p].ds = foreign[p].ds
                         /\ foreign'[p].dom = foreign[p].dom
    <3> TAKE p \in Ports
    <3>1. foreign[p] \in Entry
        BY DEF IInv, TypeOK
    <3>2. \/ foreign'[p] = foreign[p]
          \/ foreign'[p] = [foreign[p] EXCEPT !.age = Least(@ + 1, ANNOUNCE_TIMEOUT + 1)]
        BY <1>5 DEF Elapse
    <3> QED
        BY <3>1, <3>2 DEF Entry
  <2>2. ScanBest(foreign') = ScanBest(foreign)
      BY <2>1, ScanBestSame
  <2>3. SelectionCurrent'
      BY <1>5, <2>2 DEF Elapse, IInv, SelectionCurrent
  <2>4. DatasetsOwn' /\ QualifiedCurrent' /\ OldMessageFindsNothing'
      BY <1>5, <2>1
      DEF Elapse, IInv, DatasetsOwn, QualifiedCurrent, OldMessageFindsNothing
  <2>5. /\ SyncedHasMaster' /\ AwaitFromSelected' /\ DelayFromDomain'
        /\ WindowFromSelected' /\ MappingFromDomain'
      BY <1>5
      DEF Elapse, IInv, SyncedHasMaster, IsSynced, AwaitFromSelected, DelayFromDomain, WindowFromSelected,
          MappingFromDomain
  <2> QED
      BY <1>T, <2>3, <2>4, <2>5 DEF IInv
<1>6. CASE TimerErase
  <2>1. PICK p \in Ports : RunBmca([foreign EXCEPT ![p] = NoEntry])
      BY <1>6 DEF TimerErase
  <2> DEFINE table == [foreign EXCEPT ![p] = NoEntry]
  <2>2. table \in [Ports -> Entry] /\ foreign \in [Ports -> Entry]
      BY NoEntryType DEF IInv, TypeOK
  <2>3. \A q \in Ports : table[q] = NoEntry \/ table[q] = foreign[q]
      BY <2>2
  <2>4. RunBmca(table) /\ foreign' = table
      BY <2>1 DEF RunBmca
  <2>5. domain' = domain /\ switching' = switching /\ inflight' = inflight
      BY <1>6 DEF TimerErase
  <2> HIDE DEF table
  <2>6. /\ SelectionCurrent' /\ SyncedHasMaster' /\ AwaitFromSelected'
        /\ DelayFromDomain' /\ WindowFromSelected' /\ MappingFromDomain'
      BY <2>2, <2>4, <2>5, RunBmcaStep DEF IInv
  <2>7. DatasetsOwn' /\ QualifiedCurrent'
      BY <2>3, <2>4, <2>5 DEF IInv, DatasetsOwn, QualifiedCurrent, NoEntry, QUALIFIED
  <2>8. OldMessageFindsNothing'
    <3> SUFFICES ASSUME ~switching, inflight # NoMsg, inflight.dom # domain
                 PROVE  selected' = None /\ \A q \in Ports : table[q].amber = 0
        BY <2>4, <2>5 DEF OldMessageFindsNothing
    <3>1. \A q \in Ports : table[q].amber = 0
        BY <2>3 DEF IInv, OldMessageFindsNothing, NoEntry
    <3>2. Qualified(table) = {}
        BY <3>1 DEF Qualified, QUALIFIED
    <3>3. selected' = None
        BY <2>4, <3>2, ScanBestType DEF RunBmca
    <3> QED
        BY <3>1, <3>3
  <2> QED
      BY <1>T, <2>6, <2>7, <2>8 DEF IInv
<1>7. CASE TimerFinish
  <2>1. synced' => synced
      BY <1>7, Zenon DEF TimerFinish
  <2> QED
    BY <1>7, <1>T, <2>1
    DEF TimerFinish, IInv, SelectionCurrent, SyncedHasMaster, IsSynced, DatasetsOwn,
        OldMessageFindsNothing, QualifiedCurrent, AwaitFromSelected, DelayFromDomain, WindowFromSelected,
        MappingFromDomain
<1>8. CASE TimerWake \/ SendDelayReq \/ UNCHANGED vars
  <2>1. UNCHANGED <<ctlVars, masterVars, measVars, inflight>>
      BY <1>8 DEF TimerWake, SendDelayReq, vars
  <2> QED
      BY <1>T, <2>1
      DEF IInv, SelectionCurrent, SyncedHasMaster, IsSynced, DatasetsOwn,
          OldMessageFindsNothing, QualifiedCurrent, AwaitFromSelected, DelayFromDomain, WindowFromSelected,
          MappingFromDomain
<1> QED
    BY <1>1, <1>2, <1>3, <1>4, <1>5, <1>6, <1>7, <1>8 DEF Next

LEMMA Inductive == Spec => []IInv
    BY IInvInit, IInvStep, PTL DEF Spec

----------------------------------------------------------------------------
(* No announce, ageing step, passage of time or domain change leaves a     *)
(* selection behind that the table no longer supports (RunBmca).           *)
THEOREM SelectionStaysCurrent == Spec => []SelectionCurrent
<1>1. IInv => SelectionCurrent
    BY DEF IInv
<1> QED
    BY Inductive, <1>1, PTL

(* IsSynced implies a selected master.                                     *)
THEOREM SyncNeedsMaster == Spec => []SyncedHasMaster
<1>1. IInv => SyncedHasMaster
    BY DEF IInv
<1> QED
    BY Inductive, <1>1, PTL

(* Every sample of the window pairs times of the selected master, in the   *)
(* current domain once SetDomain has returned.                             *)
THEOREM WindowIsOwn == Spec => []WindowFromSelected
<1>1. IInv => WindowFromSelected
    BY DEF IInv
<1> QED
    BY Inductive, <1>1, PTL

(* Once SetDomain has returned, the mapping is of the current domain.      *)
THEOREM MappingIsOwn == Spec => []MappingFromDomain
<1>1. IInv => MappingFromDomain
    BY DEF IInv
<1> QED
    BY Inductive, <1>1, PTL

(* An announce that outlives SetDomain does not get its sender selected.   *)
THEOREM SelectionIsOwn == Spec => []SelectedFromDomain
<1>1. IInv => SelectedFromDomain
  <2> SUFFICES ASSUME IInv, selected # None, ~switching PROVE foreign[selected].dom = domain
      BY DEF SelectedFromDomain
  <2>1. selected \in Qualified(foreign)
      BY ScanBestType DEF IInv, SelectionCurrent
  <2> QED
      BY <2>1 DEF Qualified, IInv, QualifiedCurrent
<1> QED
    BY Inductive, <1>1, PTL

(* If the table describes each grandmaster consistently, the selected      *)
(* master beats every other qualified one, whatever the order in which the *)
(* scan meets them.                                                        *)
THEOREM SelectionIsBest == Spec => []SelectedIsBest
<1>1. IInv => SelectedIsBest
  <2> SUFFICES ASSUME IInv, Consistent(foreign),
                      NEW p \in Qualified(foreign) \ {selected}
               PROVE  CompareDatasets(foreign[selected].ds, foreign[p].ds) < 0
      BY DEF SelectedIsBest
  <2>1. WellFormed(foreign)
    <3> SUFFICES ASSUME NEW q \in Qualified(foreign)
                 PROVE  foreign[q].ds \in AnnounceDataset /\ foreign[q].ds.source = q
        BY DEF WellFormed
    <3>1. q \in Ports /\ foreign[q].amber >= QUALIFIED /\ foreign[q] \in Entry
        BY DEF Qualified, IInv, TypeOK
    <3>2. foreign[q].amber > 0
        BY <3>1 DEF QUALIFIED, Entry
    <3> QED
        BY <3>1, <3>2 DEF IInv, DatasetsOwn, Entry
  <2> QED
      BY <2>1, ScanBestWins DEF IInv, SelectionCurrent
<1> QED
    BY Inductive, <1>1, PTL

----------------------------------------------------------------------------
(* How a measurement changes the number of samples, and when it yields a   *)
(* mapping.                                                                *)
LEMMA MeasurementCounts ==
    ASSUME TypeOK, NEW t1 \in SUBSET Origins, NEW t2 \in SUBSET Origins,
           CompleteMeasurement(t1, t2)
    PROVE  /\ \/ Len(window') = 1
              \/ Len(window') = Len(window) + 1 /\ Len(window') <= WINDOW
              \/ Len(window') = Len(window) /\ Len(window) = WINDOW
           /\ synced' = (synced \/ Len(window') >= MIN_SAMPLES)
<1> DEFINE s == [times |-> t1 \cup t2, delay |-> delayFrom]
<1>0. s \in Sample /\ AddOffsetSample(s)
    BY DEF Sample, CompleteMeasurement, TypeOK
<1> HIDE DEF s
<1>1. /\ window' \in Seq(Sample) /\ Len(window') <= WINDOW
      /\ \/ Len(window') >= MIN_SAMPLES /\ synced' = TRUE
         \/ Len(window') < MIN_SAMPLES /\ synced' = synced
    BY <1>0, SampleIs
<1>2. PICK base \in {window} \cup (IF Len(window) >= SETTLED THEN {<<>>} ELSE {}) :
        LET longer == Append(base, s)
        IN  window' = IF Len(longer) > WINDOW THEN Tail(longer) ELSE longer
    BY <1>0 DEF AddOffsetSample
<1>4. /\ WINDOW \in Nat \ {0} /\ MIN_SAMPLES \in Nat
      /\ window \in Seq(Sample) /\ Len(window) <= WINDOW /\ Len(window) \in Nat
    BY PtpAssumption DEF TypeOK
<1>5. window' \in Seq(Sample) /\ Len(window') \in Nat
    BY <1>1
<1>6. synced' = (synced \/ Len(window') >= MIN_SAMPLES)
  <2>1. Len(window') < MIN_SAMPLES => ~(Len(window') >= MIN_SAMPLES)
      BY <1>4, <1>5
  <2> QED
      BY <1>1, <2>1, Zenon DEF TypeOK
<1>7. base = window \/ base = <<>>
    OBVIOUS
<1>8. base \in Seq(Sample) /\ Len(base) \in Nat /\ Len(base) <= WINDOW
  <2>1. CASE base = window
      BY <1>4, <2>1
  <2>2. CASE base = <<>>
      BY <1>4, <2>2
  <2> QED
      BY <1>7, <2>1, <2>2
<1> DEFINE longer == Append(base, s)
<1>9. longer \in Seq(Sample) /\ Len(longer) = Len(base) + 1
    BY <1>0, <1>8
<1>10. window' = IF Len(longer) > WINDOW THEN Tail(longer) ELSE longer
    BY <1>2
<1> HIDE DEF longer
<1>11. \/ Len(window') = Len(base) + 1 /\ Len(window') <= WINDOW
       \/ Len(window') = Len(base) /\ Len(base) = WINDOW
  <2>1. CASE Len(longer) > WINDOW
    <3>1. longer # <<>> /\ Len(Tail(longer)) = Len(longer) - 1
        BY <1>4, <1>8, <1>9, <2>1
    <3> QED
        BY <1>4, <1>8, <1>9, <1>10, <2>1, <3>1
  <2>2. CASE ~(Len(longer) > WINDOW)
      BY <1>4, <1>8, <1>9, <1>10, <2>2
  <2> QED
      BY <2>1, <2>2
<1>12. CASE base = window
    BY <1>6, <1>11, <1>12
<1>13. CASE base = <<>>
    BY <1>4, <1>6, <1>11, <1>13
<1> QED
    BY <1>7, <1>12, <1>13

(* RunBmca is an election of MediaClock, or changes nothing it shows.      *)
LEMMA RunBmcaElects ==
    ASSUME TypeOK, NEW table \in [Ports -> Entry], RunBmca(table),
           domain' = domain, switching' = switching
    PROVE  Clock!Elect \/ UNCHANGED Clock!vars
<1> DEFINE best == ScanBest(table)
<1>1. best \in Ports \cup {None} /\ selected' = best
    BY ScanBestType DEF RunBmca
<1>2. CASE best = selected
    BY <1>1, <1>2 DEF RunBmca, Clock!vars, IsSynced
<1>3. CASE best # selected
  <2>1. window' = <<>> /\ synced' = (synced /\ best # None)
      BY <1>3 DEF RunBmca
  <2>2. Len(window') = 0
      BY <2>1
  <2>3. IsSynced' = (IsSynced /\ best # None)
      BY <2>1 DEF IsSynced
  <2> QED
      BY <1>1, <1>3, <2>2, <2>3 DEF Clock!Elect
<1> QED
    BY <1>2, <1>3

(* Every step of the client is a step of MediaClock or leaves what it      *)
(* shows unchanged.                                                        *)
LEMMA ClockStep == IInv /\ [Next]_vars => [Clock!Next]_(Clock!vars)
<1> SUFFICES ASSUME IInv, [Next]_vars PROVE Clock!Next \/ UNCHANGED Clock!vars
    OBVIOUS
<1> USE DEF ctlVars, masterVars, measVars, delayVars, timerVars
<1>1. CASE RxHandle
  <2> DEFINE m == inflight
  <2>1. m \in Messages /\ domain' = domain /\ switching' = switching
      BY <1>1 DEF RxHandle, IInv, TypeOK
  <2>2. CASE m.type = "announce" /\ HandleAnnounce(m)
    <3> DEFINE table == [foreign EXCEPT ![m.ds.source] = Announced(@, m)]
    <3>1. m.ds.source \in Ports
        BY <2>1, <2>2, MessageFields, PtpAssumption
    <3>2. table \in [Ports -> Entry]
        BY <2>1, <2>2, <3>1, AnnouncedType DEF IInv, TypeOK
    <3>3. RunBmca(table)
        BY <2>2 DEF HandleAnnounce
    <3> HIDE DEF table
    <3> QED
        BY <2>1, <3>2, <3>3, RunBmcaElects DEF IInv, Clock!Next
  <2>3. ASSUME NEW t2 \in SUBSET Origins, CompleteMeasurement(Origin(m), t2),
               m.type \in {"sync", "followUp"}, selected # None, selected' = selected
        PROVE  Clock!Measure
    <3>1. Origin(m) \in SUBSET Origins
        BY <2>1, <2>3, MessageFields DEF Origin, Origins
    <3>3. /\ \/ Len(window') = 1
             \/ Len(window') = Len(window) + 1 /\ Len(window') <= WINDOW
             \/ Len(window') = Len(window) /\ Len(window) = WINDOW
          /\ synced' = (synced \/ Len(window') >= MIN_SAMPLES)
        BY <2>3, <3>1, MeasurementCounts DEF IInv
    <3> QED
        BY <2>1, <2>3, <3>3 DEF Clock!Measure, IsSynced
  <2>4. CASE m.type = "sync" /\ HandleSync(m)
    <3>1. selected # None /\ selected' = selected
        BY <2>4 DEF HandleSync, FromSelected
    <3>2. CASE m.twoStep
        BY <2>1, <2>4, <3>2 DEF HandleSync, Clock!vars, IsSynced
    <3>3. CASE ~m.twoStep
      <4>1. CompleteMeasurement(Origin(m), Origin(m))
          BY <2>4, <3>3 DEF HandleSync
      <4>2. Origin(m) \in SUBSET Origins
          BY <2>1, <2>4, MessageFields DEF Origin, Origins
      <4> QED
          BY <2>3, <2>4, <3>1, <4>1, <4>2 DEF Clock!Next
    <3> QED
        BY <3>2, <3>3
  <2>5. CASE m.type = "followUp" /\ HandleFollowUp(m)
    <3>1. selected # None /\ selected' = selected /\ await.rx \in SUBSET Origins
        BY <2>5 DEF HandleFollowUp, FromSelected, IInv, TypeOK
    <3>2. CompleteMeasurement(Origin(m), await.rx)
        BY <2>5 DEF HandleFollowUp
    <3> QED
        BY <2>3, <2>5, <3>1, <3>2 DEF Clock!Next
  <2>6. CASE UNCHANGED <<masterVars, window, synced>>
      BY <2>1, <2>6 DEF Clock!vars, IsSynced
  <2> QED
      BY <1>1, <2>2, <2>4, <2>5, <2>6 DEF RxHandle, HandleDelayResp, Ignore
<1>2. CASE SetDomainStore
  <2>1. NoDomain \notin Domains /\ domain \in Domains
      BY NoDomainAssumption DEF IInv, TypeOK
  <2> QED
      BY <1>2, <2>1 DEF SetDomainStore, Clock!Next, Clock!BeginChange, IsSynced
<1>3. CASE SetDomainClear
  <2>1. Len(window') = 0 /\ domain' \in Domains
      BY <1>3 DEF SetDomainClear, IInv, TypeOK
  <2> QED
      BY <1>3, <2>1 DEF SetDomainClear, Clock!Next, Clock!EndChange, IsSynced
<1>4. CASE TimerErase
  <2>1. PICK p \in Ports : RunBmca([foreign EXCEPT ![p] = NoEntry])
      BY <1>4 DEF TimerErase
  <2>2. [foreign EXCEPT ![p] = NoEntry] \in [Ports -> Entry]
      BY NoEntryType DEF IInv, TypeOK
  <2>3. domain' = domain /\ switching' = switching
      BY <1>4 DEF TimerErase
  <2> QED
      BY <2>1, <2>2, <2>3, RunBmcaElects DEF IInv, Clock!Next
<1>5. CASE TimerFinish
  <2>1. CASE IsSynced /\ syncAge > SYNC_TIMEOUT
    <3>1. synced' = FALSE /\ Len(window') = 0
        BY <1>5, <2>1 DEF TimerFinish
    <3> QED
        BY <1>5, <2>1, <3>1 DEF TimerFinish, Clock!Next, Clock!Lose, IsSynced
  <2>2. CASE ~(IsSynced /\ syncAge > SYNC_TIMEOUT)
      BY <1>5, <2>2 DEF TimerFinish, Clock!vars, IsSynced
  <2> QED
      BY <2>1, <2>2
<1>6. CASE RxAccept \/ Elapse \/ TimerWake \/ SendDelayReq \/ UNCHANGED vars
    BY <1>6 DEF RxAccept, Elapse, TimerWake, SendDelayReq, vars, Clock!vars, IsSynced
<1> QED
    BY <1>1, <1>2, <1>3, <1>4, <1>5, <1>6 DEF Next

(* PtpClient implements MediaClock, for any ports, domains and constants.  *)
THEOREM ClockImplemented == Spec => ImplementsMediaClock
<1>1. Init => Clock!Init
  <2> SUFFICES ASSUME Init PROVE Clock!Init
      OBVIOUS
  <2>1. Len(window) = 0 /\ ~IsSynced
      BY DEF Init, IsSynced
  <2> QED
      BY <2>1 DEF Init, Clock!Init
<1> QED
    BY <1>1, Inductive, ClockStep, PTL DEF Spec, ImplementsMediaClock, Clock!Spec
==============================================================================
