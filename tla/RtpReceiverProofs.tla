-------------------------- MODULE RtpReceiverProofs --------------------------
(***************************************************************************)
(* Theorems about the RTP receiver, for every range of sequence numbers    *)
(* and any number of packets: LegCounter, the loss counter of a leg, and   *)
(* RtpReceiver, the jitter buffer.                                         *)
(***************************************************************************)
EXTENDS RtpReceiver, LegCounter, TLAPS, FiniteSetTheorems

(* Arithmetic modulo m, which the provers do not know for a variable m.    *)
LEMMA DivMod ==
    ASSUME NEW m \in Nat \ {0}, NEW a \in Int
    PROVE  /\ a % m \in 0..(m - 1) /\ a \div m \in Int
           /\ a = m * (a \div m) + (a % m)
  OBVIOUS

LEMMA QuotientUnique ==
    ASSUME NEW m \in Nat \ {0}, NEW q \in Int, NEW p \in Int, NEW r \in 0..(m - 1),
           NEW s \in 0..(m - 1), m * q + r = m * p + s
    PROVE  q = p /\ r = s
<1>1. ASSUME NEW x \in Int, NEW y \in Int, NEW u \in 0..(m - 1), NEW v \in 0..(m - 1),
             m * x + u = m * y + v, x < y
      PROVE  FALSE
  <2>1. PICK k \in Nat : y = x + 1 + k
    <3>1. y - x - 1 \in Nat /\ y = x + 1 + (y - x - 1)
      BY <1>1
    <3>2. QED
      BY <3>1
  <2>2. m * y = m * x + m + m * k
    BY <2>1
  <2>3. m * k \in Nat
    OBVIOUS
  <2>4. QED
    BY <1>1, <2>2, <2>3
<1>2. ~(q < p) /\ ~(p < q)
  BY <1>1
<1>3. QED
  BY <1>2

LEMMA ModIs ==
    ASSUME NEW m \in Nat \ {0}, NEW a \in Int, NEW q \in Int, NEW r \in 0..(m - 1),
           a = m * q + r
    PROVE  a % m = r
<1>1. PICK p \in Int, s \in 0..(m - 1) : s = a % m /\ a = m * p + s
  BY DivMod
<1>2. m * q + r = m * p + s
  BY <1>1
<1>3. r = s
  BY <1>2, QuotientUnique
<1>4. QED
  BY <1>1, <1>3

LEMMA ModSmall ==
    ASSUME NEW m \in Nat \ {0}, NEW r \in -m..(m - 1)
    PROVE  r % m = IF r < 0 THEN r + m ELSE r
  OBVIOUS

(* Adding a multiple changes nothing.                                      *)
LEMMA ModShift ==
    ASSUME NEW m \in Nat \ {0}, NEW a \in Int, NEW k \in Int
    PROVE  (a + m * k) % m = a % m
<1>1. PICK q \in Int, r \in 0..(m - 1) : r = a % m /\ a = m * q + r
  BY DivMod
<1> DEFINE b == a + m * k
           p == q + k
<1>2. b \in Int /\ p \in Int /\ b = m * p + r
  <2>1. m * (q + k) = m * q + m * k
    OBVIOUS
  <2>2. QED
    BY <1>1, <2>1
<1> HIDE DEF b, p
<1>3. b % m = r
  BY <1>2, ModIs
<1>4. QED
  BY <1>1, <1>3 DEF b

(* Numbers that were reduced may be subtracted.                            *)
LEMMA ModDiff ==
    ASSUME NEW m \in Nat \ {0}, NEW a \in Int, NEW b \in Int
    PROVE  ((a % m) - (b % m)) % m = (a - b) % m
<1>1. PICK p \in Int : a = m * p + (a % m)
  BY DivMod
<1>2. PICK s \in Int : b = m * s + (b % m)
  BY DivMod
<1>3. a % m \in Int /\ b % m \in Int
  BY DivMod
<1> DEFINE d == (a % m) - (b % m)
           k == p - s
<1>4. d \in Int /\ k \in Int /\ a - b = d + m * k
  <2>1. m * (p - s) = m * p - m * s
    OBVIOUS
  <2>2. QED
    BY <1>1, <1>2, <1>3, <2>1
<1> HIDE DEF d, k
<1>5. (d + m * k) % m = d % m
  BY <1>4, ModShift
<1>6. QED
  BY <1>4, <1>5 DEF d

LEMMA LeastNumber ==
    ASSUME NEW T \in SUBSET Nat, T # {}
    PROVE  \E m \in T : \A k \in T : m <= k
<1> DEFINE R == OpToRel(<, Nat)
<1>1. IsWellFoundedOn(R, Nat)
  BY NatLessThanWellFounded
<1> HIDE DEF R
<1>2. PICK m \in T : \A k \in T : ~(<<k, m>> \in R)
  BY <1>1, WFMin
<1>3. ASSUME NEW k \in T PROVE m <= k
  <2>1. ~(k < m)
    BY <1>2 DEF R, OpToRel
  <2>2. QED
    BY <2>1
<1>4. QED
  BY <1>3

(* The greatest number of a set that is bounded, from the least bound.     *)
LEMMA MaxIs ==
    ASSUME NEW n \in Nat, NEW T \in SUBSET (0..n), T # {}
    PROVE  Max(T) \in T /\ \A k \in T : k <= Max(T)
<1> DEFINE B == {b \in Nat : \A k \in T : k <= b}
<1>1. n \in B /\ B \in SUBSET Nat
  OBVIOUS
<1>2. PICK m \in B : \A b \in B : m <= b
  <2> HIDE DEF B
  <2> QED
    BY <1>1, LeastNumber
<1>3. m \in T
  <2> SUFFICES ASSUME m \notin T PROVE FALSE
    OBVIOUS
  <2>1. PICK k \in T : TRUE
    OBVIOUS
  <2>2. \A j \in T : j <= m /\ j # m /\ j \in Nat
    BY <1>2
  <2>3. m - 1 \in Nat /\ \A j \in T : j <= m - 1
    BY <2>1, <2>2
  <2>4. m - 1 \in B
    BY <2>3
  <2>5. QED
    BY <1>2, <2>4
<1>4. \A k \in T : k <= m
  BY <1>2
<1>5. \E x \in T : \A y \in T : x >= y
  BY <1>3, <1>4
<1>6. Max(T) \in T /\ \A y \in T : Max(T) >= y
  BY <1>5, Zenon DEF Max
<1>7. QED
  BY <1>6

----------------------------------------------------------------------------
(* LegCounter                                                              *)
LEMMA LegConstants ==
    /\ SeqMod \in Nat \ {0} /\ StartSeq \in Nat /\ MaxPackets \in Nat \ {0}
    /\ MaxSessions \in Nat \ {0} /\ Half \in Nat \ {0} /\ SeqMod = 2 * Half
    /\ \A n \in Packets : n \in Nat /\ SeqOf(n) \in 0..(SeqMod - 1)
<1>1. /\ SeqMod \in Nat \ {0} /\ StartSeq \in Nat /\ MaxPackets \in Nat \ {0}
      /\ MaxSessions \in Nat \ {0}
  BY SequenceAssumption, LegAssumption
<1>2. Half \in Nat \ {0} /\ SeqMod = 2 * Half
  BY <1>1, LegAssumption DEF Half
<1>3. ASSUME NEW n \in Packets PROVE n \in Nat /\ SeqOf(n) \in 0..(SeqMod - 1)
  <2>1. n \in Nat
    BY <1>1, <1>3 DEF Packets
  <2>2. QED
    BY <1>1, <2>1, DivMod DEF SeqOf
<1>4. QED
  BY <1>1, <1>2, <1>3

(* The signed difference of two sequence numbers is that of the packets,   *)
(* as long as these are less than half the range apart.                    *)
LEMMA DiffExact ==
    ASSUME NEW n \in Packets, NEW l \in Packets, n - l < Half, l - n <= Half
    PROVE  Diff(SeqOf(n), SeqOf(l)) = n - l
<1>1. n \in Nat /\ l \in Nat /\ SeqMod = 2 * Half /\ Half \in Nat \ {0} /\ StartSeq \in Nat
  BY LegConstants
<1> DEFINE d == (SeqOf(n) - SeqOf(l)) % SeqMod
           a == StartSeq + n
           b == StartSeq + l
<1>2. a \in Int /\ b \in Int /\ SeqMod \in Nat \ {0} /\ a - b = n - l
  BY <1>1
<1>3. d = (n - l) % SeqMod
  <2>1. d = ((a % SeqMod) - (b % SeqMod)) % SeqMod
    BY DEF SeqOf
  <2> HIDE DEF a, b, d
  <2>2. QED
    BY <1>2, <2>1, ModDiff
<1>4. n - l \in -SeqMod..(SeqMod - 1) /\ -Half <= n - l /\ n - l < Half
  BY <1>1
<1>5. d = IF n - l < 0 THEN n - l + SeqMod ELSE n - l
  BY <1>2, <1>3, <1>4, ModSmall
<1> HIDE DEF d
<1>6. (IF d >= Half THEN d - SeqMod ELSE d) = n - l
  BY <1>1, <1>4, <1>5
<1>7. QED
  BY <1>6 DEF Diff, d

LEMMA MaxOfPackets ==
    ASSUME NEW S \in SUBSET Packets, S # {}
    PROVE  Max(S) \in S /\ Max(S) \in Nat /\ \A k \in S : k <= Max(S)
<1>1. MaxPackets - 1 \in Nat /\ S \in SUBSET (0..(MaxPackets - 1))
  BY LegConstants DEF Packets
<1>2. PICK n \in Nat : S \in SUBSET (0..n)
  BY <1>1
<1>3. Max(S) \in S /\ \A k \in S : k <= Max(S)
  BY <1>2, MaxIs
<1>4. QED
  BY <1>3, LegConstants

LEMMA MaxUnique ==
    ASSUME NEW S \in SUBSET Packets, NEW m \in S, \A k \in S : k <= m
    PROVE  Max(S) = m
<1>1. Max(S) \in S /\ Max(S) \in Nat /\ m <= Max(S) /\ Max(S) <= m
  BY MaxOfPackets
<1>2. m \in Nat
  BY LegConstants
<1>3. QED
  BY <1>1, <1>2

(* The packets missing between the first and the newest one.               *)
Gaps(f, S) == (f..Max(S)) \ S

LEMMA GapsFinite ==
    ASSUME NEW S \in SUBSET Packets, S # {}, NEW f \in Packets
    PROVE  IsFiniteSet(Gaps(f, S)) /\ Cardinality(Gaps(f, S)) \in Nat
<1>1. Max(S) \in Int /\ f \in Int
  BY MaxOfPackets, LegConstants
<1>2. IsFiniteSet(f..Max(S))
  BY <1>1, FS_Interval
<1>3. IsFiniteSet(Gaps(f, S))
  BY <1>2, FS_Difference DEF Gaps
<1>4. QED
  BY <1>3, FS_CardinalityType

(* A packet newer than all others opens a gap of the packets it skips.     *)
LEMMA GapsGrow ==
    ASSUME NEW S \in SUBSET Packets, NEW f \in S, NEW n \in Packets, n > Max(S)
    PROVE  Cardinality(Gaps(f, S \cup {n})) = Cardinality(Gaps(f, S)) + (n - Max(S) - 1)
<1>1. /\ Max(S) \in Nat /\ \A k \in S : k \in Nat /\ k <= Max(S)
      /\ n \in Nat /\ f \in Nat /\ f <= Max(S)
  BY MaxOfPackets, LegConstants
<1>2. Max(S \cup {n}) = n
  <2>1. S \cup {n} \in SUBSET Packets /\ n \in S \cup {n} /\ \A k \in S \cup {n} : k <= n
    BY <1>1
  <2>2. QED
    BY <2>1, MaxUnique
<1> DEFINE A == Gaps(f, S)
           B == (Max(S) + 1)..(n - 1)
<1>3. Gaps(f, S \cup {n}) = A \cup B /\ A \cap B = {}
  <2>1. ASSUME NEW x PROVE x \in Gaps(f, S \cup {n}) <=> x \in A \cup B
    BY <1>1, <1>2 DEF Gaps
  <2>2. ASSUME NEW x \in A, x \in B PROVE FALSE
    BY <1>1, <2>2 DEF Gaps
  <2> HIDE DEF A, B
  <2>3. QED
    BY <2>1, <2>2
<1>4. IsFiniteSet(A) /\ Cardinality(A) \in Nat
  BY GapsFinite
<1>5. IsFiniteSet(B) /\ Cardinality(B) = n - Max(S) - 1
  <2>1. Max(S) + 1 \in Int /\ n - 1 \in Int
    BY <1>1
  <2>2. /\ IsFiniteSet(B)
        /\ Cardinality(B) = IF Max(S) + 1 > n - 1 THEN 0 ELSE (n - 1) - (Max(S) + 1) + 1
    BY <2>1, FS_Interval
  <2>3. QED
    BY <1>1, <2>2
<1>6. Cardinality(A \cup B) = Cardinality(A) + Cardinality(B) - Cardinality(A \cap B)
  <2> HIDE DEF A, B
  <2> QED
    BY <1>4, <1>5, FS_Union
<1>7. Cardinality(A \cap B) = 0
  BY <1>3, FS_EmptySet
<1> HIDE DEF A, B
<1>8. Cardinality(A \cup B) = Cardinality(A) + (n - Max(S) - 1)
  BY <1>1, <1>4, <1>5, <1>6, <1>7
<1>9. QED
  BY <1>3, <1>8 DEF A

(* One that is late opens none.                                            *)
LEMMA GapsShrink ==
    ASSUME NEW S \in SUBSET Packets, S # {}, NEW f \in Packets, NEW n \in Packets,
           n <= Max(S)
    PROVE  Cardinality(Gaps(f, S \cup {n})) <= Cardinality(Gaps(f, S))
<1>1. Max(S) \in S /\ Max(S) \in Nat /\ \A k \in S : k <= Max(S)
  BY MaxOfPackets
<1>2. Max(S \cup {n}) = Max(S)
  <2>1. /\ S \cup {n} \in SUBSET Packets /\ Max(S) \in S \cup {n}
        /\ \A k \in S \cup {n} : k <= Max(S)
    BY <1>1
  <2>2. QED
    BY <2>1, MaxUnique
<1>3. Gaps(f, S \cup {n}) \subseteq Gaps(f, S)
  BY <1>2 DEF Gaps
<1>4. QED
  BY <1>3, GapsFinite, FS_Subset

LEMMA GapsOfOne ==
    ASSUME NEW n \in Packets
    PROVE  Cardinality(Gaps(n, {n})) = 0
<1>1. n \in Nat
  BY LegConstants
<1>2. Max({n}) = n
  BY <1>1, MaxUnique
<1>3. Gaps(n, {n}) = {}
  BY <1>1, <1>2 DEF Gaps
<1>4. QED
  BY <1>3, FS_EmptySet

(* What an arrival adds to the count.                                      *)
Added(n) == IF haveSeq THEN Skipped(Diff(SeqOf(n), lastSeq)) ELSE 0

LEMMA AddedType ==
    ASSUME NEW n \in Packets, lastSeq \in 0..(SeqMod - 1)
    PROVE  Added(n) \in Nat
<1>1. SeqMod \in Nat \ {0} /\ SeqOf(n) \in Int /\ lastSeq \in Int
  BY LegConstants
<1>2. (SeqOf(n) - lastSeq) % SeqMod \in Int
  BY <1>1, DivMod
<1>3. Diff(SeqOf(n), lastSeq) \in Int
  BY <1>1, <1>2 DEF Diff
<1> HIDE DEF Diff
<1>4. QED
  BY <1>3 DEF Added, Skipped

(* The losses that are counted but not yet passed on are at least what the *)
(* next poll of the feed will add.                                         *)
Unreported == total - counter >= IF lost < lastLost THEN lost ELSE lost - lastLost

(* What the leg remembers of the packets that arrived.                     *)
LegMemory ==
    /\ haveSeq => run /\ lastSeq = SeqOf(last)
    /\ run => (haveSeq <=> got # {})
    /\ got # {} => last \in got /\ first \in got
    /\ got = {} => ordered
    /\ ordered => \A k \in got : k <= last

LossBounds == LossExact /\ LossNotMissed

LegIInv == LegTypeOK /\ Unreported /\ LegMemory /\ LossBounds

LEMMA MissingIs == Missing = IF got = {} THEN 0 ELSE Cardinality(Gaps(first, got))
  BY DEF Missing, Gaps

LEMMA LegIInvInit == LegInit => LegIInv
<1> SUFFICES ASSUME LegInit PROVE LegIInv
  OBVIOUS
<1>1. 0 \in Packets /\ 0 \in 0..MaxSessions /\ 0 \in 0..(SeqMod - 1)
  BY LegConstants DEF Packets
<1>2. LegTypeOK
  BY <1>1 DEF LegInit, LegTypeOK
<1>3. Unreported
  BY DEF LegInit, Unreported
<1>4. LegMemory /\ LossBounds
  BY DEF LegInit, LegMemory, LossBounds, LossExact, LossNotMissed, Missing
<1> QED
  BY <1>2, <1>3, <1>4 DEF LegIInv

(* An arrival counts the packets between it and the last one, which are at *)
(* least those that it leaves out after the newest.                        *)
LEMMA ArriveCounts ==
    ASSUME LegIInv, NEW n \in Packets, Arrive(n)
    PROVE  LegMemory' /\ LossBounds'
<1>1. /\ got \in SUBSET Packets /\ last \in Packets /\ first \in Packets /\ lost \in Nat
      /\ n \in Nat /\ last \in Nat /\ lastSeq \in 0..(SeqMod - 1)
  BY LegConstants DEF LegIInv, LegTypeOK
<1>2. /\ run /\ run' /\ haveSeq' /\ lastSeq' = SeqOf(n) /\ last' = n
      /\ got' = got \cup {n} /\ first' = (IF got = {} THEN n ELSE first)
      /\ lost' = lost + Added(n)
  BY DEF Arrive, Added
<1>3. ordered' => ordered /\ (haveSeq => n >= last)
  BY DEF Arrive
<1>4. haveSeq => n - last < Half /\ last - n <= Half
  BY DEF Arrive
<1>5. haveSeq <=> got # {}
  BY <1>2 DEF LegIInv, LegMemory
<1>6. got # {} => last \in got /\ first \in got /\ lastSeq = SeqOf(last)
  BY <1>5 DEF LegIInv, LegMemory
<1>7. ordered => \A k \in got : k <= last
  BY DEF LegIInv, LegMemory
<1>8. \A k \in got : k \in Nat
  BY <1>1, LegConstants
<1>9. LegMemory'
  <2>1. ordered' => \A k \in got \cup {n} : k <= n
    BY <1>1, <1>3, <1>5, <1>7, <1>8
  <2>2. first' \in got'
    BY <1>2, <1>6
  <2>3. QED
    BY <1>2, <2>1, <2>2 DEF LegMemory
<1>10. Missing' = Cardinality(Gaps(first', got'))
  <2>1. got' # {}
    BY <1>2
  <2>2. QED
    BY <2>1 DEF Missing, Gaps
<1>11. CASE got = {}
  <2>1. got' = {n} /\ first' = n /\ Missing' = 0
    BY <1>2, <1>10, <1>11, GapsOfOne
  <2>2. Added(n) = 0 /\ lost = 0
    <3>1. ordered /\ Missing = 0
      BY <1>11 DEF LegIInv, LegMemory, Missing
    <3>2. QED
      BY <1>5, <1>11, <3>1 DEF LegIInv, LossBounds, LossExact, Added
  <2>3. QED
    BY <1>2, <1>9, <2>1, <2>2 DEF LossBounds, LossExact, LossNotMissed
<1>12. CASE got # {}
  <2>1. /\ Missing = Cardinality(Gaps(first, got)) /\ Missing \in Nat
        /\ lost >= Missing /\ (ordered => lost = Missing)
    BY <1>1, <1>12, MissingIs, GapsFinite DEF LegIInv, LossBounds, LossExact, LossNotMissed
  <2>2. Max(got) \in got /\ Max(got) \in Nat /\ \A k \in got : k <= Max(got)
    BY <1>1, <1>12, MaxOfPackets
  <2>3. last <= Max(got) /\ (ordered => last = Max(got))
    BY <1>1, <1>6, <1>7, <1>12, <2>2
  <2>4. Added(n) = IF n - last > 1 THEN n - last - 1 ELSE 0
    <3>1. Diff(SeqOf(n), lastSeq) = n - last
      BY <1>1, <1>4, <1>5, <1>6, <1>12, DiffExact
    <3>2. QED
      BY <1>5, <1>12, <3>1 DEF Added, Skipped
  <2>5. CASE n > Max(got)
    <3>1. Missing' = Missing + (n - Max(got) - 1)
      BY <1>1, <1>2, <1>6, <1>10, <1>12, <2>1, <2>5, GapsGrow
    <3>2. QED
      BY <1>1, <1>2, <1>3, <1>9, <2>1, <2>2, <2>3, <2>4, <2>5, <3>1
      DEF LossBounds, LossExact, LossNotMissed
  <2>6. CASE n <= Max(got)
    <3>1. Missing' <= Missing /\ Missing' \in Nat
      <4>1. Missing' = Cardinality(Gaps(first, got \cup {n}))
        BY <1>2, <1>10, <1>12
      <4>2. got \cup {n} \in SUBSET Packets /\ got \cup {n} # {}
        BY <1>1
      <4>3. QED
        BY <1>1, <1>12, <2>1, <2>6, <4>1, <4>2, GapsShrink, GapsFinite
    <3>2. ordered' => Missing' = Missing /\ Added(n) = 0
      <4>1. SUFFICES ASSUME ordered' PROVE Missing' = Missing /\ Added(n) = 0
        OBVIOUS
      <4>2. n = last
        BY <1>1, <1>3, <1>5, <1>12, <2>2, <2>3, <2>6, <4>1
      <4>3. got' = got /\ first' = first
        BY <1>2, <1>6, <1>12, <4>2
      <4>4. QED
        BY <1>1, <1>10, <2>1, <2>4, <4>2, <4>3
    <3>3. QED
      BY <1>1, <1>2, <1>3, <1>9, <2>1, <2>4, <3>1, <3>2 DEF LossBounds, LossExact, LossNotMissed
  <2>7. QED
    BY <1>1, <2>2, <2>5, <2>6, <1>9
<1>13. QED
  BY <1>9, <1>11, <1>12

LEMMA LegIInvStep == LegIInv /\ [LegNext]_counterVars => LegIInv'
<1> SUFFICES ASSUME LegIInv, [LegNext]_counterVars PROVE LegIInv'
  OBVIOUS
<1> USE DEF legVars, feedVars, histVars
<1>1. ASSUME NEW n \in Packets, Arrive(n) PROVE LegIInv'
  <2>1. Added(n) \in Nat /\ SeqOf(n) \in 0..(SeqMod - 1)
    BY AddedType, LegConstants DEF LegIInv, LegTypeOK
  <2>2. lost' = lost + Added(n) /\ total' = total + Added(n) /\ UNCHANGED <<lastLost, counter>>
    BY <1>1 DEF Arrive, Added
  <2>3. LegTypeOK'
    BY <1>1, <2>1, <2>2 DEF Arrive, LegIInv, LegTypeOK
  <2>4. Unreported'
    BY <2>1, <2>2 DEF LegIInv, LegTypeOK, Unreported
  <2>5. QED
    BY <1>1, <2>3, <2>4, ArriveCounts DEF LegIInv
<1>2. CASE Silence
  BY <1>2 DEF Silence, LegIInv, LegTypeOK, Unreported, LegMemory, LossBounds, LossExact,
              LossNotMissed, Missing
<1>3. CASE Stop
  BY <1>3 DEF Stop, LegIInv, LegTypeOK, Unreported, LegMemory, LossBounds, LossExact,
              LossNotMissed, Missing
<1>4. CASE Configure \/ ConfigureFails
  <2>1. 0 \in Packets /\ MaxSessions \in Nat
    BY LegConstants DEF Packets
  <2>2. LegTypeOK' /\ Unreported'
    <3>1. CASE Configure
      BY <3>1, <2>1 DEF Configure, LegIInv, LegTypeOK, Unreported
    <3>2. CASE ConfigureFails
      BY <3>2, <2>1 DEF ConfigureFails, LegIInv, LegTypeOK, Unreported
    <3>3. QED
      BY <1>4, <3>1, <3>2
  <2>3. /\ ~haveSeq' /\ got' = {} /\ lost' = 0 /\ ordered'
    BY <1>4 DEF Configure, ConfigureFails, LegIInv, LegMemory
  <2>4. LegMemory' /\ LossBounds'
    BY <2>3 DEF LegMemory, LossBounds, LossExact, LossNotMissed, Missing
  <2>5. QED
    BY <2>2, <2>4 DEF LegIInv
<1>6. CASE FeedLook
  BY <1>6 DEF FeedLook, LegIInv, LegTypeOK, Unreported, LegMemory, LossBounds, LossExact,
              LossNotMissed, Missing
<1>7. CASE FeedRead
  BY <1>7 DEF FeedRead, LegIInv, LegTypeOK, Unreported, LegMemory, LossBounds, LossExact,
              LossNotMissed, Missing
<1>8. CASE ResetCounters
  BY <1>8 DEF ResetCounters, LegIInv, LegTypeOK, Unreported, LegMemory, LossBounds,
              LossExact, LossNotMissed, Missing
<1>9. CASE UNCHANGED counterVars
  BY <1>9 DEF counterVars, LegIInv, LegTypeOK, Unreported, LegMemory, LossBounds, LossExact,
              LossNotMissed, Missing
<1> QED
  BY <1>1, <1>2, <1>3, <1>4, <1>6, <1>7, <1>8, <1>9 DEF LegNext

(* However the polls of the feed fall between packets, restarts of the     *)
(* receiver and resets of the counters, no loss is reported twice.         *)
THEOREM ReportedOnce == LegSpec => []NoLossReportedTwice
<1>1. LegIInv => NoLossReportedTwice
  BY DEF LegIInv, LegTypeOK, Unreported, NoLossReportedTwice
<1> QED
  BY LegIInvInit, LegIInvStep, <1>1, PTL DEF LegSpec

(* While the packets of a leg arrive in order, its counter is the number   *)
(* of packets that are missing, over any number of turns of the 16-bit     *)
(* sequence number.                                                        *)
THEOREM LossCountedExactly == LegSpec => []LossExact
<1>1. LegIInv => LossExact
  BY DEF LegIInv, LossBounds
<1> QED
  BY LegIInvInit, LegIInvStep, <1>1, PTL DEF LegSpec

(* In whatever order they arrive, no missing packet goes uncounted: a late *)
(* packet, which sets nLastSeq back, only makes the count too high.        *)
THEOREM LossNeverMissed == LegSpec => []LossNotMissed
<1>1. LegIInv => LossNotMissed
  BY DEF LegIInv, LossBounds
<1> QED
  BY LegIInvInit, LegIInvStep, <1>1, PTL DEF LegSpec

----------------------------------------------------------------------------
(* RtpReceiver                                                             *)
LEMMA ReceiverConstants ==
    /\ SeqMod \in Nat \ {0} /\ StartSeq \in 0..(SeqMod - 1) /\ MaxPackets \in Nat \ {0}
    /\ Slots \in Nat \ {0} /\ Slots <= SeqMod /\ SeqMod % Slots = 0
    /\ MaxLead \in Nat /\ MaxRun \in Nat /\ MaxLead <= Slots /\ MaxLead + MaxRun < SeqMod
<1>1. /\ SeqMod \in Nat \ {0} /\ StartSeq \in 0..(SeqMod - 1) /\ MaxPackets \in Nat \ {0}
      /\ Slots \in Nat \ {0} /\ SeqMod % Slots = 0
      /\ MaxLead \in Nat /\ MaxRun \in Nat /\ MaxLead <= Slots /\ MaxLead + MaxRun < SeqMod
  BY SequenceAssumption, ReceiverAssumption
<1>2. ~(SeqMod < Slots)
  <2>1. ASSUME SeqMod < Slots PROVE SeqMod % Slots = SeqMod
    BY <1>1, <2>1, ModSmall
  <2>2. QED
    BY <1>1, <2>1
<1>3. QED
  BY <1>1, <1>2

(* Numbers with the same remainder are a multiple apart.                   *)
LEMMA ModInjective ==
    ASSUME NEW m \in Nat \ {0}, NEW a \in Int, NEW b \in Int, a % m = b % m,
           a - b < m, b - a < m
    PROVE  a = b
<1>1. PICK p \in Int, r \in 0..(m - 1) : r = a % m /\ a = m * p + r
  BY DivMod
<1>2. PICK q \in Int, s \in 0..(m - 1) : s = b % m /\ b = m * q + s
  BY DivMod
<1>3. r = s /\ a - b = m * p - m * q
  BY <1>1, <1>2
<1>4. ASSUME NEW x \in Int, NEW y \in Int, x < y PROVE m * y - m * x >= m
  <2>1. PICK k \in Nat : y = x + 1 + k
    <3>1. y - x - 1 \in Nat /\ y = x + 1 + (y - x - 1)
      BY <1>4
    <3>2. QED
      BY <3>1
  <2>2. m * y = m * x + m + m * k /\ m * k \in Nat
    BY <2>1
  <2>3. QED
    BY <2>2
<1>5. m * p \in Int /\ m * q \in Int
  OBVIOUS
<1>6. ~(p < q) /\ ~(q < p)
  BY <1>3, <1>4, <1>5
<1>7. p = q
  BY <1>6
<1>8. QED
  BY <1>1, <1>2, <1>3, <1>7

LEMMA NumberType ==
    /\ \A n \in Nat : SeqOf(n) \in Seqs
    /\ \A s \in Seqs : s \in Int /\ SlotOf(s) \in 0..(Slots - 1)
<1>1. ASSUME NEW n \in Nat PROVE SeqOf(n) \in Seqs
  <2>1. StartSeq + n \in Int
    BY ReceiverConstants
  <2>2. QED
    BY <2>1, ReceiverConstants, DivMod DEF SeqOf, Seqs
<1>2. ASSUME NEW s \in Seqs PROVE s \in Int /\ SlotOf(s) \in 0..(Slots - 1)
  BY <1>2, ReceiverConstants, DivMod DEF SlotOf, Seqs
<1>3. QED
  BY <1>1, <1>2

(* A number stands for one packet of each turn ...                         *)
LEMMA SameNumber ==
    ASSUME NEW n \in Nat, NEW k \in Nat, SeqOf(n) = SeqOf(k), n - k < SeqMod, k - n < SeqMod
    PROVE  n = k
<1> DEFINE a == StartSeq + n
           b == StartSeq + k
<1>1. a \in Int /\ b \in Int /\ a - b = n - k /\ b - a = k - n /\ (a = b => n = k)
  BY ReceiverConstants
<1>2. a % SeqMod = b % SeqMod
  BY DEF SeqOf
<1> HIDE DEF a, b
<1>3. a - b < SeqMod /\ b - a < SeqMod
  BY <1>1
<1>4. a = b
  BY <1>1, <1>2, <1>3, ReceiverConstants, ModInjective
<1>5. QED
  BY <1>1, <1>4

(* ... and a slot for one of each turn of the buffer, since the number of  *)
(* slots divides the range of sequence numbers.                            *)
LEMMA SameSlot ==
    ASSUME NEW n \in Nat, NEW k \in Nat, SlotOf(SeqOf(n)) = SlotOf(SeqOf(k)),
           n - k < Slots, k - n < Slots
    PROVE  n = k
<1>1. ASSUME NEW x \in Nat PROVE SlotOf(SeqOf(x)) = (StartSeq + x) % Slots
  <2> DEFINE a == StartSeq + x
  <2>1. a \in Int
    BY ReceiverConstants
  <2>2. PICK q \in Int : a = SeqMod * q + SeqOf(x)
    BY <2>1, ReceiverConstants, DivMod DEF SeqOf
  <2>3. PICK t \in Int : SeqMod = Slots * t
    <3> DEFINE d == SeqMod
    <3>1. d \in Int /\ d % Slots = 0 /\ Slots \in Nat \ {0}
      BY ReceiverConstants
    <3> HIDE DEF d
    <3>2. PICK u \in Int : d = Slots * u + 0
      BY <3>1, DivMod
    <3>3. SeqMod = Slots * u
      BY <3>1, <3>2 DEF d
    <3>4. QED
      BY <3>3
  <2>4. SeqMod * q = Slots * (t * q)
    BY <2>3, ReceiverConstants
  <2>5. SeqOf(x) \in Int
    BY NumberType
  <2>6. PICK v \in Int : a = SeqOf(x) + Slots * v
    <3>1. t * q \in Int /\ Slots * (t * q) \in Int
      BY ReceiverConstants
    <3>2. a = SeqOf(x) + Slots * (t * q)
      BY <2>1, <2>2, <2>4, <2>5, <3>1
    <3>3. QED
      BY <3>1, <3>2
  <2>7. (SeqOf(x) + Slots * v) % Slots = SeqOf(x) % Slots
    BY <2>5, ReceiverConstants, ModShift
  <2>8. QED
    BY <2>6, <2>7 DEF SlotOf
<1> DEFINE a == StartSeq + n
           b == StartSeq + k
<1>2. a \in Int /\ b \in Int /\ a - b = n - k /\ b - a = k - n /\ (a = b => n = k)
  BY ReceiverConstants
<1>3. a % Slots = b % Slots
  BY <1>1
<1> HIDE DEF a, b
<1>4. a - b < Slots /\ b - a < Slots
  BY <1>2
<1>5. a = b
  BY <1>2, <1>3, <1>4, ReceiverConstants, ModInjective
<1>6. QED
  BY <1>2, <1>5

LEMMA NextNumber ==
    ASSUME NEW n \in Nat
    PROVE  (SeqOf(n) + 1) % SeqMod = SeqOf(n + 1)
<1> DEFINE a == StartSeq + n
           b == SeqOf(n) + 1
<1>1. a \in Int /\ SeqOf(n) \in Int
  BY ReceiverConstants, NumberType
<1>2. PICK q \in Int : a = SeqMod * q + SeqOf(n)
  BY <1>1, ReceiverConstants, DivMod DEF SeqOf
<1>3. b \in Int /\ StartSeq + (n + 1) = b + SeqMod * q
  BY <1>1, <1>2, ReceiverConstants
<1> HIDE DEF b
<1>4. (b + SeqMod * q) % SeqMod = b % SeqMod
  BY <1>3, ReceiverConstants, ModShift
<1>5. QED
  BY <1>3, <1>4 DEF SeqOf, b

Playing == play \notin {"wait", "anchor", "parked"}

(* The packets the threads know of were sent ...                           *)
KnownSent ==
    /\ \A l \in Legs : todo[l] <= sent
    /\ rx.at # "select" => rx.n \in 0..(sent - 1)
    /\ stored \subseteq 0..(sent - 1)
    /\ haveFirst => firstPkt \in 0..(sent - 1)
    /\ play = "anchor" => haveFirst

(* ... and the sender is at most MaxLead ahead of those still to be taken. *)
WithinLead ==
    /\ \A l \in Legs : sent <= todo[l] + MaxLead
    /\ rx.at # "select" => sent <= rx.n + MaxLead
    /\ Playing => sent <= pos + MaxLead
    /\ ~Playing /\ haveFirst => sent <= firstPkt + MaxLead

(* The slot that the receive thread has filled and not yet published.      *)
Filling(i) == rx.at = "publish" /\ SlotOf(SeqOf(rx.n)) = i

Holds(i, m) ==
    /\ gen[i] = SeqOf(m) + 1 /\ SlotOf(SeqOf(m)) = i
    /\ sent + MaxRun < m + SeqMod
    /\ data[i] = m \/ Filling(i)

(* A slot that is not empty holds a packet of the last turn, the one whose *)
(* number it has.                                                          *)
SlotsHold ==
    \A i \in 0..(Slots - 1) : gen[i] # Empty => \E m \in stored : Holds(i, m)

(* The receive thread writes only a slot that does not have its packet.    *)
StoresNew ==
    /\ rx.at \in {"store", "publish"} => ~Ready(SeqOf(rx.n))
    /\ rx.at = "publish" => data[SlotOf(SeqOf(rx.n))] = rx.n

(* Playout expects the packet pos and reads only a slot that has it.       *)
OnPosition ==
    ~strayed =>
        /\ Playing => next = SeqOf(pos) /\ pos <= sent + MaxRun
        /\ play \in {"read", "clear"} => Ready(next)

BufferIInv == TypeOK /\ KnownSent /\ WithinLead /\ SlotsHold /\ StoresNew /\ OnPosition

LEMMA PacketNumbers ==
    ASSUME TypeOK
    PROVE  /\ \A m \in stored : m \in Nat /\ SeqOf(m) \in Seqs /\ SlotOf(SeqOf(m)) \in 0..(Slots - 1)
           /\ sent \in Nat /\ pos \in Nat /\ next \in Int /\ SlotOf(next) \in 0..(Slots - 1)
           /\ rx.n \in Nat => SeqOf(rx.n) \in Seqs /\ SlotOf(SeqOf(rx.n)) \in 0..(Slots - 1)
<1>1. sent \in Nat /\ pos \in Nat /\ next \in Seqs /\ \A m \in stored : m \in Nat
  BY ReceiverConstants DEF TypeOK
<1>2. QED
  BY <1>1, NumberType

(* A slot that has the number playout expects holds the packet it expects. *)
LEMMA ReadyIsDue ==
    ASSUME BufferIInv, ~strayed, Playing, Ready(next)
    PROVE  pos \in stored /\ pos < sent /\ Holds(SlotOf(next), pos)
<1> DEFINE i == SlotOf(next)
<1>1. i \in 0..(Slots - 1) /\ gen[i] = next + 1 /\ gen[i] # Empty
  <2>1. next \in Seqs /\ TypeOK
    BY DEF BufferIInv, TypeOK
  <2>2. gen[i] = next + 1
    BY DEF Ready
  <2>3. next + 1 # Empty
    BY <2>1, ReceiverConstants DEF Seqs, Empty
  <2>4. QED
    BY <2>1, <2>2, <2>3, PacketNumbers
<1>2. PICK m \in stored : Holds(i, m)
  BY <1>1 DEF BufferIInv, SlotsHold
<1>3. m \in Nat /\ pos \in Nat /\ sent \in Nat /\ m < sent
  BY PacketNumbers DEF BufferIInv, KnownSent
<1>4. next = SeqOf(pos) /\ pos <= sent + MaxRun
  BY DEF BufferIInv, OnPosition
<1>5. SeqOf(m) = SeqOf(pos)
  <2>1. SeqOf(m) + 1 = SeqOf(pos) + 1
    BY <1>1, <1>2, <1>4 DEF Holds
  <2>2. SeqOf(m) \in Int /\ SeqOf(pos) \in Int
    BY <1>3, NumberType
  <2>3. QED
    BY <2>1, <2>2
<1>6. pos - m < SeqMod
  <2>1. sent + MaxRun < m + SeqMod
    BY <1>2 DEF Holds
  <2>2. QED
    BY <1>3, <1>4, <2>1, ReceiverConstants
<1>7. m - pos < SeqMod
  <2>1. sent <= pos + MaxLead
    BY DEF BufferIInv, WithinLead, Playing
  <2>2. QED
    BY <1>3, <2>1, ReceiverConstants
<1>8. m = pos
  BY <1>3, <1>5, <1>6, <1>7, SameNumber
<1>9. QED
  BY <1>2, <1>3, <1>8

(* The two threads are never in the same slot: a packet in the slot that   *)
(* playout reads would be the packet that is there already.                *)
LEMMA NoRace == BufferIInv => NoSlotRace
<1> SUFFICES ASSUME BufferIInv, ~strayed, play \in {"read", "clear"},
                    rx.at \in {"store", "publish"}, SlotOf(SeqOf(rx.n)) = SlotOf(next)
             PROVE  FALSE
  BY DEF NoSlotRace
<1>1. Playing /\ Ready(next) /\ next = SeqOf(pos)
  BY DEF Playing, BufferIInv, OnPosition
<1>2. pos < sent /\ pos \in Nat /\ sent \in Nat
  BY <1>1, ReadyIsDue, PacketNumbers DEF BufferIInv
<1>3. rx.n \in Nat /\ rx.n < sent
  BY <1>2 DEF BufferIInv, KnownSent
<1>4. sent <= pos + MaxLead /\ sent <= rx.n + MaxLead
  BY <1>1 DEF BufferIInv, WithinLead, Playing
<1>5. pos - rx.n < Slots /\ rx.n - pos < Slots
  BY <1>2, <1>3, <1>4, ReceiverConstants
<1>6. rx.n = pos
  BY <1>1, <1>2, <1>3, <1>5, SameSlot
<1>7. ~Ready(SeqOf(rx.n))
  BY DEF BufferIInv, StoresNew
<1>8. QED
  BY <1>1, <1>6, <1>7

LEMMA PlaysDue == BufferIInv => PlaysPacketDue
<1> SUFFICES ASSUME BufferIInv, ~strayed, play = "read"
             PROVE  data[SlotOf(next)] = pos
  BY DEF PlaysPacketDue
<1>1. Playing /\ Ready(next)
  BY DEF Playing, BufferIInv, OnPosition
<1>2. Holds(SlotOf(next), pos)
  BY <1>1, ReadyIsDue
<1>3. ~Filling(SlotOf(next))
  BY NoRace DEF NoSlotRace, Filling
<1>4. QED
  BY <1>2, <1>3 DEF Holds

LEMMA BufferInit == Init => BufferIInv
<1> SUFFICES ASSUME Init PROVE BufferIInv
  OBVIOUS
<1> USE ReceiverConstants
<1>1. TypeOK
  <2>1. 0 \in 0..SeqMod /\ 0 \in 0..MaxPackets /\ 0 \in Seqs /\ -1 \in -1..(MaxPackets - 1)
    BY DEF Seqs
  <2>2. QED
    BY <2>1, Zenon DEF Init, TypeOK, Empty, NoPacket
<1>2. KnownSent
  BY DEF Init, KnownSent, Legs
<1>3. WithinLead
  BY DEF Init, WithinLead, Legs, Playing
<1>4. SlotsHold
  BY DEF Init, SlotsHold
<1>5. StoresNew /\ OnPosition
  BY DEF Init, StoresNew, OnPosition, Playing
<1>6. QED
  BY <1>1, <1>2, <1>3, <1>4, <1>5 DEF BufferIInv

LEMMA BufferSend == ASSUME BufferIInv, Send PROVE BufferIInv'
<1> USE DEF rxVars, slotVars, headVars, playVars
<1>1. TypeOK' /\ KnownSent' /\ StoresNew' /\ OnPosition'
  <2>1. TypeOK'
    BY ReceiverConstants DEF BufferIInv, Send, TypeOK
  <2>2. KnownSent'
    BY ReceiverConstants DEF BufferIInv, Send, TypeOK, KnownSent
  <2>3. StoresNew'
    BY DEF BufferIInv, Send, StoresNew, Ready
  <2>4. OnPosition'
    BY ReceiverConstants DEF BufferIInv, Send, TypeOK, OnPosition, Playing, Ready
  <2>5. QED
    BY <2>1, <2>2, <2>3, <2>4
<1>2. sent \in Nat /\ sent' = sent + 1 /\ todo' = todo /\ TypeOK
  BY PacketNumbers DEF BufferIInv, Send
<1>3. WithinLead'
  <2>1. ASSUME NEW n \in Int, sent < n + MaxLead PROVE sent + 1 <= n + MaxLead
    BY <1>2, <2>1, ReceiverConstants
  <2>2. \A l \in Legs : todo[l] \in Pending /\ todo[l] \in Int
    BY <1>2, ReceiverConstants DEF Pending, TypeOK
  <2>3. /\ rx.at # "select" => rx.n \in Pending
        /\ Playing => pos \in Pending
        /\ ~Playing /\ haveFirst => firstPkt \in Pending
        /\ {rx.n, pos, firstPkt} \subseteq Int
    BY <1>2, ReceiverConstants DEF Pending, Playing, TypeOK
  <2>4. \A n \in Pending : sent < n + MaxLead
    BY DEF Send
  <2>5. UNCHANGED <<todo, rx, play, pos, haveFirst, firstPkt>>
    BY DEF Send
  <2>6. QED
    BY <1>2, <2>1, <2>2, <2>3, <2>4, <2>5 DEF WithinLead, Playing
<1>4. SlotsHold'
  <2> SUFFICES ASSUME NEW i \in 0..(Slots - 1), gen[i] # Empty
               PROVE  \E m \in stored : Holds(i, m)'
    BY DEF SlotsHold, Send
  <2>1. PICK m \in stored : Holds(i, m)
    BY DEF BufferIInv, SlotsHold
  <2>2. PICK k \in stored : gen[i] = SeqOf(k) + 1 /\ sent + 1 + MaxRun < k + SeqMod
    BY DEF Send, WithinTurn
  <2>3. m \in Nat /\ k \in Nat /\ m < sent /\ k < sent
    BY <1>2, PacketNumbers DEF BufferIInv, KnownSent
  <2>4. SeqOf(m) = SeqOf(k)
    <3>1. SeqOf(m) \in Int /\ SeqOf(k) \in Int /\ SeqOf(m) + 1 = SeqOf(k) + 1
      BY <2>1, <2>2, <2>3, NumberType DEF Holds
    <3>2. QED
      BY <3>1
  <2>5. m - k < SeqMod /\ k - m < SeqMod
    BY <1>2, <2>1, <2>2, <2>3, ReceiverConstants DEF Holds
  <2>6. m = k
    BY <2>3, <2>4, <2>5, SameNumber
  <2>7. Holds(i, m)'
    BY <1>2, <2>1, <2>2, <2>6 DEF Holds, Filling, Send
  <2>8. QED
    BY <2>7
<1>5. QED
  BY <1>1, <1>3, <1>4 DEF BufferIInv

LEMMA BufferLose == ASSUME BufferIInv, NEW l \in Legs, Lose(l) PROVE BufferIInv'
<1> USE DEF rxVars, slotVars, headVars, playVars
<1>1. /\ sent \in 0..MaxPackets /\ todo \in [Legs -> 0..MaxPackets] /\ todo[l] < sent
      /\ todo' = [todo EXCEPT ![l] = @ + 1] /\ UNCHANGED <<sent, rxVars, slotVars, headVars, playVars>>
  BY DEF BufferIInv, TypeOK, Lose
<1>2. todo[l] + 1 \in 0..MaxPackets /\ todo[l] + 1 <= sent
  BY <1>1, ReceiverConstants
<1>3. TypeOK'
  BY <1>1, <1>2 DEF BufferIInv, TypeOK
<1>4. KnownSent' /\ WithinLead'
  BY <1>1, <1>2, ReceiverConstants DEF BufferIInv, KnownSent, WithinLead, Playing
<1>5. SlotsHold' /\ StoresNew' /\ OnPosition'
  BY <1>1 DEF BufferIInv, SlotsHold, Holds, Filling, StoresNew, Ready, OnPosition, Playing
<1>6. QED
  BY <1>3, <1>4, <1>5 DEF BufferIInv

LEMMA BufferRxPacket == ASSUME BufferIInv, NEW l \in Legs, RxPacket(l) PROVE BufferIInv'
<1> USE DEF rxVars, slotVars, headVars, playVars
<1>1. /\ sent \in 0..MaxPackets /\ todo \in [Legs -> 0..MaxPackets] /\ todo[l] < sent
      /\ rx.at = "select" /\ rx' = [at |-> "check", n |-> todo[l]] /\ receiving' = TRUE
      /\ todo' = [todo EXCEPT ![l] = @ + 1] /\ UNCHANGED <<sent, slotVars, headVars, playVars>>
  BY DEF BufferIInv, TypeOK, RxPacket
<1>2. /\ todo[l] + 1 \in 0..MaxPackets /\ todo[l] + 1 <= sent
      /\ todo[l] \in -1..(MaxPackets - 1) /\ todo[l] \in 0..(sent - 1)
  BY <1>1, ReceiverConstants
<1>3. TypeOK'
  BY <1>1, <1>2 DEF BufferIInv, TypeOK
<1>4. KnownSent' /\ WithinLead'
  BY <1>1, <1>2, ReceiverConstants DEF BufferIInv, KnownSent, WithinLead, Playing
<1>5. SlotsHold' /\ StoresNew' /\ OnPosition'
  BY <1>1 DEF BufferIInv, SlotsHold, Holds, Filling, StoresNew, Ready, OnPosition, Playing
<1>6. QED
  BY <1>3, <1>4, <1>5 DEF BufferIInv

LEMMA BufferRxEmpty == ASSUME BufferIInv, NEW l \in Legs, RxEmpty(l) PROVE BufferIInv'
<1> USE DEF rxVars, slotVars, headVars, playVars
<1>1. /\ sent \in 0..MaxPackets /\ todo \in [Legs -> 0..MaxPackets] /\ todo[l] < sent
      /\ todo' = [todo EXCEPT ![l] = @ + 1] /\ receiving' = TRUE
      /\ UNCHANGED <<sent, rx, slotVars, headVars, playVars>>
  BY DEF BufferIInv, TypeOK, RxEmpty
<1>2. todo[l] + 1 \in 0..MaxPackets /\ todo[l] + 1 <= sent
  BY <1>1, ReceiverConstants
<1>3. TypeOK'
  BY <1>1, <1>2 DEF BufferIInv, TypeOK
<1>4. KnownSent' /\ WithinLead'
  BY <1>1, <1>2, ReceiverConstants DEF BufferIInv, KnownSent, WithinLead, Playing
<1>5. SlotsHold' /\ StoresNew' /\ OnPosition'
  BY <1>1 DEF BufferIInv, SlotsHold, Holds, Filling, StoresNew, Ready, OnPosition, Playing
<1>6. QED
  BY <1>3, <1>4, <1>5 DEF BufferIInv

LEMMA BufferRxStore == ASSUME BufferIInv, RxStore PROVE BufferIInv'
<1> USE DEF rxVars, netVars, headVars, playVars
<1> DEFINE j == SlotOf(SeqOf(rx.n))
<1>1. rx.n \in Nat /\ j \in 0..(Slots - 1)
  BY PacketNumbers DEF BufferIInv, TypeOK, KnownSent, RxStore
<1>2. /\ rx.at = "store" /\ rx' = [rx EXCEPT !.at = "publish"]
      /\ data' = [data EXCEPT ![j] = rx.n]
      /\ UNCHANGED <<receiving, netVars, gen, stored, headVars, playVars>>
  BY DEF RxStore
<1>3. rx'.at = "publish" /\ rx'.n = rx.n /\ rx.n \in -1..(MaxPackets - 1)
  BY <1>2 DEF BufferIInv, TypeOK
<1> HIDE DEF j
<1>4. TypeOK'
  BY <1>1, <1>2, <1>3 DEF BufferIInv, TypeOK
<1>5. KnownSent' /\ WithinLead'
  BY <1>2, <1>3 DEF BufferIInv, KnownSent, WithinLead, Playing
<1>6. SlotsHold'
  <2> SUFFICES ASSUME NEW i \in 0..(Slots - 1), gen[i] # Empty
               PROVE  \E m \in stored : Holds(i, m)'
    BY <1>2 DEF SlotsHold
  <2>1. PICK m \in stored : Holds(i, m)
    BY DEF BufferIInv, SlotsHold
  <2>2. data'[i] = data[i] \/ i = j
    BY <1>1, <1>2 DEF BufferIInv, TypeOK
  <2>3. data'[i] = m \/ Filling(i)'
    BY <1>2, <1>3, <2>1, <2>2 DEF Holds, Filling, j
  <2>4. QED
    BY <1>2, <2>1, <2>3 DEF Holds
<1>7. StoresNew'
  <2>1. data'[j] = rx.n
    BY <1>1, <1>2 DEF BufferIInv, TypeOK
  <2>2. ~Ready(SeqOf(rx.n))
    BY <1>2 DEF BufferIInv, StoresNew
  <2>3. QED
    BY <1>2, <1>3, <2>1, <2>2 DEF StoresNew, Ready, j
<1>8. OnPosition'
  BY <1>2 DEF BufferIInv, OnPosition, Playing, Ready
<1>9. QED
  BY <1>4, <1>5, <1>6, <1>7, <1>8 DEF BufferIInv

(* Publishing fills a slot that playout does not read, with a packet of    *)
(* the last turn.                                                          *)
LEMMA BufferRxPublish == ASSUME BufferIInv, RxPublish PROVE BufferIInv'
<1> USE DEF rxVars, netVars, headVars, playVars
<1> DEFINE j == SlotOf(SeqOf(rx.n))
           g == SeqOf(rx.n) + 1
<1>1. /\ rx.n \in Nat /\ j \in 0..(Slots - 1) /\ rx.n \in 0..(sent - 1) /\ g \in 0..SeqMod
      /\ sent \in Nat
  <2>1. rx.n \in 0..(sent - 1) /\ rx.n \in Nat /\ sent \in Nat
    BY PacketNumbers DEF BufferIInv, TypeOK, KnownSent, RxPublish
  <2>2. j \in 0..(Slots - 1) /\ SeqOf(rx.n) \in Seqs
    BY <2>1, NumberType
  <2>3. g \in 0..SeqMod
    BY <2>2, ReceiverConstants DEF Seqs
  <2>4. QED
    BY <2>1, <2>2, <2>3
<1>2. /\ rx.at = "publish" /\ rx' = [rx EXCEPT !.at = "first"]
      /\ gen' = [gen EXCEPT ![j] = g] /\ stored' = stored \cup {rx.n}
      /\ UNCHANGED <<receiving, netVars, data, headVars, playVars>>
  BY DEF RxPublish
<1>3. /\ rx'.at = "first" /\ rx'.n = rx.n /\ rx.n \in 0..(MaxPackets - 1)
      /\ gen'[j] = g /\ \A i \in 0..(Slots - 1) : i # j => gen'[i] = gen[i]
  BY <1>1, <1>2, ReceiverConstants DEF BufferIInv, TypeOK
<1>4. data[j] = rx.n /\ sent <= rx.n + MaxLead
  BY <1>2 DEF BufferIInv, StoresNew, WithinLead
<1>5. TypeOK'
  BY <1>1, <1>2, <1>3 DEF BufferIInv, TypeOK
<1>6. KnownSent' /\ WithinLead'
  BY <1>1, <1>2, <1>3 DEF BufferIInv, KnownSent, WithinLead, Playing
<1>7. SlotsHold'
  <2> SUFFICES ASSUME NEW i \in 0..(Slots - 1), gen'[i] # Empty
               PROVE  \E m \in stored' : Holds(i, m)'
    BY DEF SlotsHold
  <2>1. CASE i = j
    <3>1. sent + MaxRun < rx.n + SeqMod
      BY <1>1, <1>4, ReceiverConstants
    <3>2. Holds(j, rx.n)'
      BY <1>2, <1>3, <1>4, <3>1 DEF Holds
    <3>3. QED
      BY <1>2, <2>1, <3>2
  <2>2. CASE i # j
    <3>1. PICK m \in stored : Holds(i, m)
      BY <1>3, <2>2 DEF BufferIInv, SlotsHold
    <3>2. data[i] = m
      BY <2>2, <3>1 DEF Holds, Filling
    <3>3. Holds(i, m)'
      BY <1>2, <1>3, <2>2, <3>1, <3>2 DEF Holds
    <3>4. QED
      BY <1>2, <3>3
  <2>3. QED
    BY <2>1, <2>2
<1>8. StoresNew'
  BY <1>3 DEF StoresNew
<1>9. OnPosition'
  <2>1. ~strayed /\ play \in {"read", "clear"} => SlotOf(next) # j
    BY <1>2, NoRace DEF NoSlotRace
  <2>2. SlotOf(next) \in 0..(Slots - 1)
    BY PacketNumbers DEF BufferIInv
  <2>3. ~strayed /\ play \in {"read", "clear"} => gen'[SlotOf(next)] = gen[SlotOf(next)]
    BY <1>3, <2>1, <2>2
  <2>4. QED
    BY <1>2, <2>3 DEF BufferIInv, OnPosition, Playing, Ready
<1>10. QED
  BY <1>5, <1>6, <1>7, <1>8, <1>9 DEF BufferIInv

(* Playout goes on to the next packet, whether it has emptied the slot of  *)
(* the one before or not.                                                  *)
LEMMA BufferAdvance ==
    ASSUME BufferIInv, Playing, Advance, ~strayed => pos < sent + MaxRun,
           \/ gen' = [gen EXCEPT ![SlotOf(next)] = Empty]
           \/ gen' = gen,
           play' \in {"steer", "check"}, level' \in Nat,
           UNCHANGED <<rxVars, netVars, data, stored, headVars, strayed, played>>
    PROVE  BufferIInv'
<1> USE DEF rxVars, netVars, headVars
<1>1. /\ next' = (next + 1) % SeqMod /\ pos' = pos + 1 /\ pos \in Nat /\ sent \in Nat
      /\ next \in Int /\ SlotOf(next) \in 0..(Slots - 1)
  BY PacketNumbers DEF BufferIInv, Advance
<1>2. gen \in [0..(Slots - 1) -> 0..SeqMod] /\ \A i \in 0..(Slots - 1) : gen'[i] \in {gen[i], Empty}
  <2>1. gen \in [0..(Slots - 1) -> 0..SeqMod]
    BY DEF BufferIInv, TypeOK
  <2>2. QED
    BY <1>1, <2>1
<1>3. TypeOK'
  <2>1. next' \in Seqs
    <3>1. next + 1 \in Int
      BY <1>1
    <3>2. QED
      BY <1>1, <3>1, ReceiverConstants, DivMod DEF Seqs
  <2>2. gen' \in [0..(Slots - 1) -> 0..SeqMod]
    <3>1. Empty \in 0..SeqMod
      BY ReceiverConstants DEF Empty
    <3>2. QED
      BY <1>1, <1>2, <3>1
  <2>3. pos' \in Nat
    BY <1>1
  <2>4. QED
    BY <2>1, <2>2, <2>3 DEF BufferIInv, TypeOK
<1>4. KnownSent' /\ WithinLead'
  BY <1>1, ReceiverConstants DEF BufferIInv, KnownSent, WithinLead, Playing
<1>5. SlotsHold'
  BY <1>2 DEF BufferIInv, SlotsHold, Holds, Filling
<1>6. StoresNew'
  <2> SUFFICES ASSUME rx.at \in {"store", "publish"} PROVE ~Ready(SeqOf(rx.n))'
    BY DEF BufferIInv, StoresNew
  <2>1. rx.n \in Nat
    BY <1>1 DEF BufferIInv, KnownSent
  <2>2. SeqOf(rx.n) \in Seqs /\ SlotOf(SeqOf(rx.n)) \in 0..(Slots - 1)
    BY <2>1, NumberType
  <2>3. SeqOf(rx.n) + 1 # Empty
    BY <2>2, ReceiverConstants DEF Seqs, Empty
  <2>4. gen[SlotOf(SeqOf(rx.n))] # SeqOf(rx.n) + 1
    BY DEF BufferIInv, StoresNew, Ready
  <2>5. QED
    BY <1>2, <2>2, <2>3, <2>4 DEF Ready
<1>7. OnPosition'
  <2> SUFFICES ASSUME ~strayed PROVE next' = SeqOf(pos') /\ pos' <= sent + MaxRun
    BY DEF OnPosition
  <2>1. next = SeqOf(pos)
    BY DEF BufferIInv, OnPosition
  <2>2. next' = SeqOf(pos + 1)
    BY <1>1, <2>1, NextNumber
  <2>3. QED
    BY <1>1, <2>2, ReceiverConstants
<1>8. QED
  BY <1>3, <1>4, <1>5, <1>6, <1>7 DEF BufferIInv

LEMMA BufferStep == BufferIInv /\ [Next]_vars => BufferIInv'
<1> SUFFICES ASSUME BufferIInv, [Next]_vars PROVE BufferIInv'
  OBVIOUS
<1> USE DEF rxVars, netVars, slotVars, headVars, playVars
<1>1. CASE Send
  BY <1>1, BufferSend
<1>2. CASE Consume
  <2>1. TypeOK'
    BY <1>2 DEF Consume, BufferIInv, TypeOK
  <2>2. QED
    BY <1>2, <2>1 DEF Consume, BufferIInv, KnownSent, WithinLead, SlotsHold, Holds, Filling,
                      StoresNew, Ready, OnPosition, Playing
<1>3. ASSUME NEW l \in Legs, Lose(l) PROVE BufferIInv'
  BY <1>3, BufferLose
<1>4. ASSUME NEW l \in Legs, RxPacket(l) PROVE BufferIInv'
  BY <1>4, BufferRxPacket
<1>4a. ASSUME NEW l \in Legs, RxEmpty(l) PROVE BufferIInv'
  BY <1>4a, BufferRxEmpty
<1>5. CASE RxAge
  BY <1>5 DEF RxAge, BufferIInv, TypeOK, KnownSent, WithinLead, SlotsHold, Holds, Filling,
              StoresNew, Ready, OnPosition, Playing
<1>6. CASE RxCheck
  <2>1. TypeOK' /\ KnownSent' /\ WithinLead'
    BY <1>6 DEF RxCheck, BufferIInv, TypeOK, KnownSent, WithinLead, Playing
  <2>2. SlotsHold' /\ StoresNew' /\ OnPosition'
    BY <1>6 DEF RxCheck, BufferIInv, TypeOK, SlotsHold, Holds, Filling, StoresNew, Ready,
                OnPosition, Playing
  <2>3. QED
    BY <2>1, <2>2 DEF BufferIInv
<1>7. CASE RxStore
  BY <1>7, BufferRxStore
<1>8. CASE RxPublish
  BY <1>8, BufferRxPublish
<1>9. CASE RxFirst
  <2>1. TypeOK' /\ KnownSent' /\ WithinLead'
    BY <1>9 DEF RxFirst, BufferIInv, TypeOK, KnownSent, WithinLead, Playing
  <2>2. SlotsHold' /\ StoresNew' /\ OnPosition'
    BY <1>9 DEF RxFirst, BufferIInv, TypeOK, SlotsHold, Holds, Filling, StoresNew, Ready,
                OnPosition, Playing
  <2>3. QED
    BY <2>1, <2>2 DEF BufferIInv
<1>10. CASE RxFirstSeq
  <2>1. rx.n \in Nat
    BY <1>10, PacketNumbers DEF RxFirstSeq, BufferIInv, KnownSent
  <2>2. SeqOf(rx.n) \in Seqs
    BY <2>1, NumberType
  <2>3. TypeOK' /\ KnownSent' /\ WithinLead'
    BY <1>10, <2>2 DEF RxFirstSeq, BufferIInv, TypeOK, KnownSent, WithinLead, Playing
  <2>4. SlotsHold' /\ StoresNew' /\ OnPosition'
    BY <1>10 DEF RxFirstSeq, BufferIInv, TypeOK, SlotsHold, Holds, Filling, StoresNew, Ready,
                 OnPosition, Playing
  <2>5. QED
    BY <2>3, <2>4 DEF BufferIInv
<1>11. CASE PlayWait
  BY <1>11 DEF PlayWait, BufferIInv, TypeOK, KnownSent, WithinLead, SlotsHold, Holds, Filling,
               StoresNew, Ready, OnPosition, Playing
<1>12. CASE PlayAnchor
  <2>1. /\ haveFirst /\ next' = firstSeq /\ pos' = firstPkt /\ ~Playing
        /\ play' \in {"check", "steer"} /\ strayed' = (strayed \/ firstSeq # SeqOf(firstPkt))
        /\ UNCHANGED <<rxVars, netVars, slotVars, headVars, level, played>>
    BY <1>12 DEF PlayAnchor, BufferIInv, KnownSent, Playing
  <2>2. firstPkt \in 0..(sent - 1) /\ sent \in Nat /\ firstPkt \in Nat
    BY <2>1, PacketNumbers DEF BufferIInv, KnownSent
  <2>3. TypeOK'
    BY <2>1, <2>2 DEF BufferIInv, TypeOK
  <2>4. KnownSent' /\ WithinLead'
    BY <2>1 DEF BufferIInv, KnownSent, WithinLead, Playing
  <2>5. SlotsHold' /\ StoresNew'
    BY <2>1 DEF BufferIInv, SlotsHold, Holds, Filling, StoresNew, Ready
  <2>6. OnPosition'
    <3>1. firstPkt <= sent + MaxRun
      BY <2>2, ReceiverConstants
    <3>2. ~strayed' => firstSeq = SeqOf(firstPkt)
      BY <2>1, Zenon
    <3>3. QED
      BY <2>1, <3>1, <3>2 DEF OnPosition
  <2>7. QED
    BY <2>3, <2>4, <2>5, <2>6 DEF BufferIInv
<1>13. ASSUME NEW to \in {"read", "late", "silent"}, PlayCheck(to) PROVE BufferIInv'
  BY <1>13 DEF PlayCheck, BufferIInv, TypeOK, KnownSent, WithinLead, SlotsHold, Holds, Filling,
               StoresNew, Ready, OnPosition, Playing
<1>14. CASE PlayRead
  <2>1. TypeOK'
    <3>1. played' \in -1..(MaxPackets - 1)
      BY <1>14, PacketNumbers DEF PlayRead, BufferIInv, TypeOK
    <3>2. QED
      BY <1>14, <3>1 DEF PlayRead, BufferIInv, TypeOK
  <2>2. QED
    BY <1>14, <2>1 DEF PlayRead, BufferIInv, KnownSent, WithinLead, SlotsHold, Holds, Filling,
                       StoresNew, Ready, OnPosition, Playing
<1>15. CASE PlayClear
  <2>1. Playing /\ level \in Nat /\ sent \in Nat /\ pos \in Nat
    BY <1>15, PacketNumbers DEF PlayClear, Playing, BufferIInv, TypeOK
  <2>2. ~strayed => pos < sent
    BY <1>15, <2>1, ReadyIsDue DEF PlayClear, BufferIInv, OnPosition
  <2>3. ~strayed => pos < sent + MaxRun
    BY <2>1, <2>2, ReceiverConstants
  <2>4. QED
    BY <1>15, <2>1, <2>3, BufferAdvance DEF PlayClear
<1>16. CASE PlayConceal
  <2>1. Playing /\ level' \in Nat
    BY <1>16 DEF PlayConceal, Playing, BufferIInv, TypeOK
  <2>2. QED
    BY <1>16, <2>1, BufferAdvance DEF PlayConceal
<1>17. CASE PlayLate
  BY <1>17 DEF PlayLate, BufferIInv, TypeOK, KnownSent, WithinLead, SlotsHold, Holds, Filling,
               StoresNew, Ready, OnPosition, Playing
<1>18. CASE PlayPark
  BY <1>18 DEF PlayPark, BufferIInv, TypeOK, KnownSent, WithinLead, SlotsHold, Holds, Filling,
               StoresNew, Ready, OnPosition, Playing
<1>19. CASE PlaySteer
  <2>1. Playing /\ level \in Nat /\ sent \in Nat /\ pos \in Nat
    BY <1>19, PacketNumbers DEF PlaySteer, Playing, BufferIInv, TypeOK
  <2>2. CASE Ready(next) /\ gen' = [gen EXCEPT ![SlotOf(next)] = Empty] /\ Advance
    <3>1. ~strayed => pos < sent
      BY <2>1, <2>2, ReadyIsDue
    <3>2. ~strayed => pos < sent + MaxRun
      BY <2>1, <3>1, ReceiverConstants
    <3>3. QED
      BY <1>19, <2>1, <2>2, <3>2, BufferAdvance DEF PlaySteer
  <2>3. CASE UNCHANGED <<gen, next, pos>>
    BY <1>19, <2>3 DEF PlaySteer, BufferIInv, TypeOK, KnownSent, WithinLead, SlotsHold, Holds,
                       Filling, StoresNew, Ready, OnPosition, Playing
  <2>4. QED
    BY <1>19, <2>2, <2>3 DEF PlaySteer
<1>20. CASE UNCHANGED vars
  BY <1>20 DEF vars, BufferIInv, TypeOK, KnownSent, WithinLead, SlotsHold, Holds, Filling,
               StoresNew, Ready, OnPosition, Playing
<1>21. QED
  BY <1>1, <1>2, <1>3, <1>4, <1>4a, <1>5, <1>6, <1>7, <1>8, <1>9, <1>10, <1>11, <1>12, <1>13,
     <1>14, <1>15, <1>16, <1>17, <1>18, <1>19, <1>20
  DEF Next

(* The receive thread and playout share the samples of the slots without a *)
(* lock and never use those of the same slot, for any size of the buffer   *)
(* and any losses, as long as the sender is not more than the buffer ahead *)
(* of playout.                                                             *)
THEOREM SlotsNeverRace == Spec => []NoSlotRace
  BY BufferInit, BufferStep, NoRace, PTL DEF Spec

(* What playout reads is the packet that is due, over any number of turns  *)
(* of the buffer and of the sequence number.                               *)
THEOREM DuePacketPlayed == Spec => []PlaysPacketDue
  BY BufferInit, BufferStep, PlaysDue, PTL DEF Spec

----------------------------------------------------------------------------
(* The packets that are still to come are newer than the one played last.  *)
Ahead ==
    /\ \A l \in Legs : played < todo[l]
    /\ rx.at # "select" => played < rx.n

(* Once the stream counts as stopped, every packet that was stored has     *)
(* come or got lost on both legs.                                          *)
Quiet ==
    ~receiving => /\ rx.at = "select"
                  /\ \A l \in Legs, m \in stored : m < todo[l]

(* Where the packet played last stands: before the one playout expects,    *)
(* the one it will begin with, and, while it parks, before all to come.    *)
InOrder ==
    ~strayed =>
        /\ played \in stored \cup {NoPacket}
        /\ Playing => played <= pos /\ (play # "clear" => played < pos)
        /\ ~Playing /\ haveFirst => played < firstPkt
        /\ play = "silent" \/ (~Playing /\ ~haveFirst) => Ahead

OrderIInv == BufferIInv /\ Quiet /\ InOrder

LEMMA OrderInit == Init => OrderIInv
<1> SUFFICES ASSUME Init PROVE OrderIInv
  OBVIOUS
<1>1. Quiet /\ InOrder
  BY DEF Init, Quiet, InOrder, Ahead, Playing, Legs, NoPacket
<1>2. QED
  BY <1>1, BufferInit DEF OrderIInv

LEMMA OrderTypes ==
    ASSUME TypeOK
    PROVE  /\ sent \in Int /\ pos \in Int /\ played \in Int /\ firstPkt \in Int /\ rx.n \in Int
           /\ \A l \in Legs : todo[l] \in Nat
           /\ todo \in [Legs -> Nat] /\ NoPacket = -1
           /\ \A m \in stored : m \in Int
  BY ReceiverConstants DEF TypeOK, NoPacket

(* What the stream leaves when it stops is behind, and the packet playout  *)
(* reads is ahead of the one it played before.                             *)
LEMMA OrderStep == OrderIInv /\ [Next]_vars => OrderIInv'
<1> SUFFICES ASSUME OrderIInv, [Next]_vars PROVE Quiet' /\ InOrder'
  BY BufferStep DEF OrderIInv
<1> USE DEF rxVars, netVars, slotVars, headVars, playVars, Quiet, InOrder, Ahead, Playing
<1>1. BufferIInv /\ TypeOK /\ Quiet /\ InOrder
  BY DEF OrderIInv, BufferIInv
<1>2. CASE Send \/ Consume
  BY <1>1, <1>2, OrderTypes DEF Send, Consume
<1>3. ASSUME NEW l \in Legs, Lose(l) PROVE Quiet' /\ InOrder'
  BY <1>1, <1>3, OrderTypes DEF Lose
<1>4. ASSUME NEW l \in Legs, RxPacket(l) PROVE Quiet' /\ InOrder'
  BY <1>1, <1>4, OrderTypes DEF RxPacket
<1>4a. ASSUME NEW l \in Legs, RxEmpty(l) PROVE Quiet' /\ InOrder'
  BY <1>1, <1>4a, OrderTypes DEF RxEmpty
<1>5. CASE RxAge
  BY <1>1, <1>5, OrderTypes DEF RxAge, BufferIInv, KnownSent
<1>6. CASE RxCheck \/ RxStore \/ RxFirstSeq
  BY <1>1, <1>6, OrderTypes DEF RxCheck, RxStore, RxFirstSeq, TypeOK
<1>7. CASE RxPublish
  BY <1>1, <1>7, OrderTypes DEF RxPublish, TypeOK
<1>8. CASE RxFirst
  BY <1>1, <1>8, OrderTypes DEF RxFirst, TypeOK
<1>9. CASE PlayWait \/ PlayPark \/ PlayLate
  BY <1>1, <1>9, OrderTypes DEF PlayWait, PlayPark, PlayLate
<1>10. CASE PlayAnchor
  <2>1. /\ haveFirst /\ ~Playing /\ play' \in {"check", "steer"} /\ pos' = firstPkt
        /\ UNCHANGED <<receiving, rx, todo, stored, played>>
    BY <1>1, <1>10 DEF PlayAnchor, BufferIInv, KnownSent
  <2>2. ~strayed' => ~strayed
    BY <1>10, Zenon DEF PlayAnchor
  <2>3. Quiet'
    BY <1>1, <2>1
  <2>4. ~strayed => played \in stored \cup {NoPacket} /\ played < firstPkt
    BY <1>1, <2>1
  <2>5. InOrder'
    BY <2>1, <2>2, <2>4, <1>1, OrderTypes
  <2>6. QED
    BY <2>3, <2>5
<1>11. ASSUME NEW to \in {"read", "late", "silent"}, PlayCheck(to) PROVE Quiet' /\ InOrder'
  BY <1>1, <1>11, OrderTypes DEF PlayCheck
<1>12. CASE PlayRead
  <2>1. ~strayed => data[SlotOf(next)] = pos /\ pos \in stored
    BY <1>1, <1>12, PlaysDue, ReadyIsDue DEF PlayRead, PlaysPacketDue, BufferIInv, OnPosition
  <2>2. QED
    BY <1>1, <1>12, <2>1, OrderTypes DEF PlayRead
<1>13. CASE PlayClear \/ PlayConceal \/ PlaySteer
  BY <1>1, <1>13, OrderTypes DEF PlayClear, PlayConceal, PlaySteer, Advance
<1>14. CASE UNCHANGED vars
  BY <1>1, <1>14 DEF vars
<1>15. QED
  BY <1>2, <1>3, <1>4, <1>4a, <1>5, <1>6, <1>7, <1>8, <1>9, <1>10, <1>11, <1>12, <1>13, <1>14
  DEF Next

(* No packet is played twice and none after a newer one, although a late   *)
(* copy is stored again once its slot was cleared, and although playout    *)
(* begins anew, after every pause of the stream, with whatever arrives.    *)
THEOREM PacketsPlayedInOrder == Spec => PlaysInOrder
<1>1. OrderIInv /\ [Next]_vars
        => [play = "read" /\ play' # "read" /\ ~strayed => played' > played]_vars
  <2> SUFFICES ASSUME OrderIInv, [Next]_vars, play = "read", play' # "read", ~strayed
               PROVE  played' > played
    OBVIOUS
  <2>1. PlayRead
    BY DEF Next, vars, Send, Consume, Lose, RxPacket, RxEmpty, RxAge, RxCheck, RxStore, RxPublish,
           RxFirst, RxFirstSeq, PlayWait, PlayAnchor, PlayCheck, PlayClear, PlayConceal,
           PlayLate, PlayPark, PlaySteer, playVars
  <2>2. played' = pos
    BY <2>1, PlaysDue DEF PlayRead, OrderIInv, PlaysPacketDue
  <2>3. played < pos /\ pos \in Int /\ played \in Int
    BY OrderTypes DEF OrderIInv, BufferIInv, InOrder, Playing
  <2>4. QED
    BY <2>2, <2>3
<1>2. QED
  BY <1>1, OrderInit, OrderStep, PTL DEF Spec, PlaysInOrder
==============================================================================
