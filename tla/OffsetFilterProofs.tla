-------------------------- MODULE OffsetFilterProofs --------------------------
(***************************************************************************)
(* Theorems about OffsetFilter, for any set of offsets and any sizes of    *)
(* the window.  They rest on what a median is: the definition chooses an   *)
(* element with no more than half of the window below it, and the lemmas   *)
(* show that there always is one and that it is a value that fills more    *)
(* than half of the window.                                                *)
(***************************************************************************)
EXTENDS OffsetFilter, TLAPS, FiniteSetTheorems, SequenceTheorems

LEMMA LeastNumber ==
    ASSUME NEW T \in SUBSET Nat, T # {}
    PROVE  \E m \in T : \A k \in T : m <= k
<1> DEFINE R == OpToRel(<, Nat)
<1>1. IsWellFoundedOn(R, Nat)
  BY NatLessThanWellFounded
<1> HIDE DEF R
<1>2. PICK m \in T : \A k \in T : ~(<<k, m>> \in R)
  BY <1>1, WFMin
<1>3. ASSUME NEW k \in T PROVE m <= k
  <2>1. ~(k < m)
    BY <1>2 DEF R, OpToRel
  <2>2. QED
    BY <2>1
<1>4. QED
  BY <1>3

(* The greatest number of a set that is bounded, from the least distance   *)
(* to the bound.                                                           *)
LEMMA GreatestNumber ==
    ASSUME NEW n \in Nat, NEW T \in SUBSET (0..n), T # {}
    PROVE  \E m \in T : \A k \in T : k <= m
<1> DEFINE D == {k \in 0..n : n - k \in T}
<1>1. D \in SUBSET Nat /\ D # {}
  <2>1. PICK k \in T : TRUE
    OBVIOUS
  <2>2. n - (n - k) = k /\ n - k \in 0..n
    OBVIOUS
  <2>3. n - k \in D
    BY <2>2
  <2>4. D \subseteq 0..n
    OBVIOUS
  <2> HIDE DEF D
  <2>5. QED
    BY <2>3, <2>4
<1>2. PICK d \in D : \A e \in D : d <= e
  <2> HIDE DEF D
  <2> QED
    BY <1>1, LeastNumber
<1>3. ASSUME NEW k \in T PROVE k <= n - d
  <2>1. n - (n - k) = k /\ n - k \in 0..n
    OBVIOUS
  <2>2. n - k \in D
    BY <2>1
  <2>3. QED
    BY <1>2, <2>2
<1>4. QED
  BY <1>2, <1>3

Values(w) == {w[i] : i \in DOMAIN w}

LEMMA WindowDomain ==
    ASSUME NEW w \in Seq(Int)
    PROVE  /\ DOMAIN w = 1..Len(w) /\ Len(w) \in Nat
           /\ IsFiniteSet(DOMAIN w) /\ Cardinality(DOMAIN w) = Len(w)
           /\ \A i \in DOMAIN w : w[i] \in Int
           /\ w # <<>> => DOMAIN w # {} /\ Len(w) > 0
<1>1. DOMAIN w = 1..Len(w) /\ Len(w) \in Nat /\ \A i \in DOMAIN w : w[i] \in Int
  OBVIOUS
<1>2. IsFiniteSet(DOMAIN w) /\ Cardinality(DOMAIN w) = Len(w)
  BY <1>1, FS_Interval
<1>3. ASSUME w # <<>> PROVE DOMAIN w # {} /\ Len(w) > 0
  <2>1. Len(w) > 0
    BY <1>3
  <2>2. 1 \in 1..Len(w)
    BY <1>1, <2>1
  <2>3. QED
    BY <1>1, <2>1, <2>2
<1>4. QED
  BY <1>1, <1>2, <1>3

(* The counts of the elements below and up to a value.                     *)
LEMMA Counts ==
    ASSUME NEW w \in Seq(Int), NEW x \in Int
    PROVE  /\ IsFiniteSet({i \in DOMAIN w : w[i] < x}) /\ Below(w, x) \in Nat
           /\ Below(w, x) <= Len(w)
           /\ IsFiniteSet({i \in DOMAIN w : w[i] <= x}) /\ UpTo(w, x) \in Nat
           /\ UpTo(w, x) <= Len(w)
<1>1. Len(w) \in Nat
  OBVIOUS
<1>2. IsFiniteSet(DOMAIN w) /\ Cardinality(DOMAIN w) = Len(w)
  BY WindowDomain
<1>3. ASSUME NEW S \in SUBSET (DOMAIN w)
      PROVE  IsFiniteSet(S) /\ Cardinality(S) \in Nat /\ Cardinality(S) <= Len(w)
  <2>1. IsFiniteSet(S) /\ Cardinality(S) <= Cardinality(DOMAIN w)
    BY <1>2, FS_Subset
  <2>2. Cardinality(S) \in Nat
    BY <2>1, FS_CardinalityType
  <2>3. QED
    BY <1>1, <1>2, <2>1, <2>2
<1>4. QED
  BY <1>3 DEF Below, UpTo

(* A greater element has more elements up to it.                           *)
LEMMA UpToGrows ==
    ASSUME NEW w \in Seq(Int), NEW j \in DOMAIN w, NEW y \in Int, y < w[j]
    PROVE  /\ UpTo(w, y) <= Below(w, w[j])
           /\ Below(w, w[j]) < UpTo(w, w[j])
<1> DEFINE A == {i \in DOMAIN w : w[i] <= y}
           B == {i \in DOMAIN w : w[i] < w[j]}
           C == {i \in DOMAIN w : w[i] <= w[j]}
<1>1. w[j] \in Int /\ \A i \in DOMAIN w : w[i] \in Int
  OBVIOUS
<1>2. A \subseteq B /\ B \subseteq C /\ j \in C /\ j \notin B
  BY <1>1
<1>3. IsFiniteSet(B) /\ IsFiniteSet(C) /\ Cardinality(B) \in Nat /\ Cardinality(C) \in Nat
  <2>1. /\ IsFiniteSet(B) /\ Below(w, w[j]) \in Nat
        /\ IsFiniteSet(C) /\ UpTo(w, w[j]) \in Nat
    BY <1>1, Counts
  <2>2. QED
    BY <2>1 DEF Below, UpTo
<1>4. Cardinality(A) <= Cardinality(B) /\ Cardinality(B) <= Cardinality(C)
         /\ Cardinality(B) # Cardinality(C)
  <2> HIDE DEF A, B, C
  <2>1. B # C
    BY <1>2
  <2>2. QED
    BY <1>2, <1>3, <2>1, FS_Subset
<1>5. QED
  BY <1>3, <1>4 DEF Below, UpTo

(* The greatest among some elements of a sequence.                         *)
LEMMA GreatestElement ==
    ASSUME NEW w \in Seq(Int), NEW S \in SUBSET (DOMAIN w), S # {}
    PROVE  \E j \in S : \A i \in S : w[i] <= w[j]
<1>1. \A i \in S : w[i] \in Int
  OBVIOUS
<1>2. ASSUME NEW i \in S
      PROVE  UpTo(w, w[i]) \in Nat /\ Below(w, w[i]) \in Nat /\ UpTo(w, w[i]) <= Len(w)
  <2>1. w[i] \in Int
    BY <1>1
  <2>2. QED
    BY <2>1, Counts
<1> DEFINE T == {UpTo(w, w[i]) : i \in S}
<1>3. T \in SUBSET (0..Len(w)) /\ T # {} /\ Len(w) \in Nat
  BY <1>2
<1>4. PICK m \in T : \A k \in T : k <= m
  <2> HIDE DEF T
  <2> QED
    BY <1>3, GreatestNumber
<1>5. PICK j \in S : m = UpTo(w, w[j])
  BY <1>4
<1>6. ASSUME NEW i \in S PROVE w[i] <= w[j]
  <2>1. SUFFICES ASSUME w[j] < w[i] PROVE FALSE
    BY <1>1
  <2>2. UpTo(w, w[j]) < UpTo(w, w[i])
    <3>1. /\ UpTo(w, w[j]) <= Below(w, w[i])
          /\ Below(w, w[i]) < UpTo(w, w[i])
      BY <1>1, <2>1, UpToGrows
    <3>2. QED
      BY <1>2, <3>1
  <2>3. UpTo(w, w[i]) <= UpTo(w, w[j])
    BY <1>4, <1>5
  <2>4. QED
    BY <1>2, <2>2, <2>3
<1>7. QED
  BY <1>6

(* There is a median: take, of the elements with more than half of the     *)
(* window up to them, the one with the fewest.                             *)
LEMMA MedianExists ==
    ASSUME NEW w \in Seq(Int), w # <<>>
    PROVE  \E x \in Values(w) : Below(w, x) <= Len(w) \div 2 /\ Len(w) \div 2 < UpTo(w, x)
<1> DEFINE h == Len(w) \div 2
<1>1. /\ Len(w) \in Nat /\ h \in Nat /\ h < Len(w) /\ DOMAIN w # {}
      /\ Cardinality(DOMAIN w) = Len(w)
      /\ \A i \in DOMAIN w : w[i] \in Int
  <2>1. Len(w) \in Nat /\ Len(w) > 0
    BY WindowDomain
  <2>2. h \in Nat /\ h < Len(w)
    BY <2>1
  <2>3. QED
    BY <2>1, <2>2, WindowDomain
<1>2. ASSUME NEW i \in DOMAIN w
      PROVE  UpTo(w, w[i]) \in Nat /\ Below(w, w[i]) \in Nat
  <2>1. w[i] \in Int
    BY <1>1
  <2>2. QED
    BY <2>1, Counts
<1> HIDE DEF h
<1> DEFINE T == {UpTo(w, w[i]) : i \in {i \in DOMAIN w : h < UpTo(w, w[i])}}
<1>3. T # {}
  <2>1. PICK j \in DOMAIN w : \A i \in DOMAIN w : w[i] <= w[j]
    <3>1. DOMAIN w \in SUBSET (DOMAIN w)
      OBVIOUS
    <3>2. QED
      BY <1>1, <3>1, GreatestElement
  <2>2. {i \in DOMAIN w : w[i] <= w[j]} = DOMAIN w
    BY <2>1
  <2>3. UpTo(w, w[j]) = Len(w)
    BY <1>1, <2>2 DEF UpTo
  <2>4. QED
    BY <1>1, <2>3
<1>4. T \in SUBSET Nat
  BY <1>2
<1>5. PICK m \in T : \A k \in T : m <= k
  <2> HIDE DEF T
  <2> QED
    BY <1>3, <1>4, LeastNumber
<1>6. PICK j \in DOMAIN w : m = UpTo(w, w[j]) /\ h < UpTo(w, w[j])
  BY <1>5
<1>7. Below(w, w[j]) <= h
  <2>1. SUFFICES ASSUME h < Below(w, w[j]) PROVE FALSE
    BY <1>1, <1>2
  <2> DEFINE S == {i \in DOMAIN w : w[i] < w[j]}
  <2>2. S # {}
    <3>1. Cardinality(S) # 0
      BY <1>1, <1>2, <2>1 DEF Below
    <3>2. QED
      BY <3>1, FS_EmptySet
  <2>3. PICK k \in S : \A i \in S : w[i] <= w[k]
    <3>1. S \in SUBSET (DOMAIN w)
      OBVIOUS
    <3> HIDE DEF S
    <3> QED
      BY <2>2, <3>1, GreatestElement
  <2>4. {i \in DOMAIN w : w[i] <= w[k]} = S
    BY <1>1, <2>3
  <2>5. UpTo(w, w[k]) = Below(w, w[j])
    BY <2>4 DEF UpTo, Below
  <2>6. UpTo(w, w[k]) \in T
    BY <2>1, <2>3, <2>5
  <2>7. m <= UpTo(w, w[k])
    BY <1>5, <2>6
  <2>8. Below(w, w[j]) < UpTo(w, w[j])
    BY <1>1, <2>3, UpToGrows
  <2>9. QED
    BY <1>2, <1>6, <2>5, <2>7, <2>8
<1>8. w[j] \in Values(w)
  BY DEF Values
<1>9. QED
  BY <1>6, <1>7, <1>8 DEF h

LEMMA MedianIs ==
    ASSUME NEW w \in Seq(Int), w # <<>>
    PROVE  /\ Median(w) \in Values(w)
           /\ Below(w, Median(w)) <= Len(w) \div 2
           /\ Len(w) \div 2 < UpTo(w, Median(w))
  BY MedianExists, Zenon DEF Median, Values

(* A value that fills more than half of the window is its median.          *)
LEMMA MajorityIsMedian ==
    ASSUME NEW w \in Seq(Int), NEW b \in Int, w # <<>>, Majority(w, b)
    PROVE  Median(w) = b
<1> DEFINE M == {i \in DOMAIN w : w[i] = b}
           x == Median(w)
<1>1. /\ Len(w) \in Nat /\ IsFiniteSet(DOMAIN w) /\ Cardinality(DOMAIN w) = Len(w)
      /\ \A i \in DOMAIN w : w[i] \in Int
  BY WindowDomain
<1>2. x \in Int /\ Below(w, x) <= Len(w) \div 2 /\ Len(w) \div 2 < UpTo(w, x)
  BY <1>1, MedianIs DEF Values
<1> HIDE DEF x
<1>3. /\ Below(w, x) \in Nat /\ IsFiniteSet({i \in DOMAIN w : w[i] < x})
      /\ UpTo(w, x) \in Nat /\ IsFiniteSet({i \in DOMAIN w : w[i] <= x})
  BY <1>2, Counts
<1>4. IsFiniteSet(M) /\ Cardinality(M) \in Nat /\ 2 * Cardinality(M) > Len(w)
  <2>1. IsFiniteSet(M)
    BY <1>1, FS_Subset
  <2>2. QED
    BY <2>1, FS_CardinalityType DEF Majority
<1>5. CASE b < x
  <2>1. M \subseteq {i \in DOMAIN w : w[i] < x}
    BY <1>2, <1>5
  <2>2. Cardinality(M) <= Below(w, x)
    <3> HIDE DEF M
    <3> QED
      BY <1>3, <2>1, FS_Subset DEF Below
  <2>3. QED
    BY <1>1, <1>2, <1>3, <1>4, <2>2
<1>6. CASE x < b
  <2> DEFINE U == {i \in DOMAIN w : w[i] <= x}
  <2>1. M \cap U = {} /\ M \cup U \subseteq DOMAIN w
    BY <1>2, <1>6
  <2>2. Cardinality(M) + UpTo(w, x) <= Len(w)
    <3>1. Cardinality(M \cup U) = Cardinality(M) + Cardinality(U) - 0
      <4> HIDE DEF M, U
      <4>1. IsFiniteSet(U)
        BY <1>3 DEF U
      <4>2. QED
        BY <1>4, <2>1, <4>1, FS_Union, FS_EmptySet
    <3>2. Cardinality(M \cup U) <= Cardinality(DOMAIN w)
      <4> HIDE DEF M, U
      <4> QED
        BY <1>1, <2>1, FS_Subset
    <3>3. Cardinality(U) = UpTo(w, x)
      BY DEF UpTo
    <3> HIDE DEF M, U
    <3>4. QED
      BY <1>1, <1>3, <1>4, <3>1, <3>2, <3>3
  <2>3. QED
    BY <1>1, <1>2, <1>3, <1>4, <2>2
<1>7. QED
  BY <1>2, <1>5, <1>6 DEF x
----------------------------------------------------------------------------
(* The low-pass ends between the old mapping and the median, rounded.      *)
LEMMA LowPassBetween ==
    ASSUME NEW a \in Int, NEW b \in Int, NEW l \in Int, NEW h \in Int,
           l <= a, a <= h, l <= b, b <= h
    PROVE  LowPass(a, b) \in Int /\ l <= LowPass(a, b) /\ LowPass(a, b) <= h
  BY DEF LowPass

LEMMA WindowOfNumbers ==
    ASSUME NEW w \in Seq(Offsets)
    PROVE  w \in Seq(Int)
  BY FilterAssumption, SeqMonotonic

LEMMA EmptyWindow == <<>> \in Seq(Offsets) /\ Len(<<>>) = 0 /\ DOMAIN <<>> = {}
  OBVIOUS

(* The window after a sample: not empty, not too long, with only the       *)
(* sample and what was there before.                                       *)
LEMMA NextWindow ==
    ASSUME TypeOK, NEW v \in Offsets, NEW old \in {<<>>, window}
    PROVE  LET w == Trimmed(Append(old, v))
           IN  /\ w \in Seq(Offsets) /\ w # <<>> /\ Len(w) <= WINDOW
               /\ \A i \in DOMAIN w : w[i] = v \/ \E j \in DOMAIN old : w[i] = old[j]
<1> DEFINE a == Append(old, v)
           w == Trimmed(a)
<1>1. old \in Seq(Offsets) /\ Len(old) <= WINDOW /\ WINDOW \in Nat \ {0}
  <2>1. WINDOW \in Nat \ {0}
    BY FilterAssumption
  <2>2. CASE old = <<>>
    BY <2>1, <2>2, EmptyWindow
  <2>3. CASE old = window
    BY <2>1, <2>3 DEF TypeOK
  <2>4. QED
    BY <2>1, <2>2, <2>3
<1>2. /\ a \in Seq(Offsets) /\ Len(a) = Len(old) + 1 /\ a # <<>>
      /\ \A i \in 1..Len(a) : a[i] = v \/ \E j \in DOMAIN old : a[i] = old[j]
  <2>1. /\ a \in Seq(Offsets) /\ Len(a) = Len(old) + 1 /\ a # <<>>
        /\ \A i \in 1..Len(old) : a[i] = old[i]
        /\ a[Len(old) + 1] = v
    BY <1>1, AppendProperties
  <2>2. DOMAIN old = 1..Len(old) /\ Len(old) \in Nat
    BY <1>1
  <2> HIDE DEF a
  <2>3. ASSUME NEW i \in 1..Len(a) PROVE a[i] = v \/ \E j \in DOMAIN old : a[i] = old[j]
    <3>1. i \in 1..Len(old) \/ i = Len(old) + 1
      BY <2>1, <2>2
    <3>2. QED
      BY <2>1, <2>2, <3>1
  <2>4. QED
    BY <2>1, <2>3
<1> HIDE DEF a
<1>3. CASE Len(a) > WINDOW
  <2>1. w = Tail(a)
    BY <1>3 DEF Trimmed
  <2>2. /\ Tail(a) \in Seq(Offsets) /\ Len(Tail(a)) = Len(a) - 1
        /\ \A i \in 1..Len(Tail(a)) : Tail(a)[i] = a[i + 1]
    BY <1>2, HeadTailProperties
  <2>3. Len(Tail(a)) = WINDOW
    BY <1>1, <1>2, <1>3, <2>2
  <2>4. Tail(a) # <<>>
    BY <1>1, <2>3
  <2>5. DOMAIN Tail(a) = 1..Len(Tail(a))
    BY <2>2
  <2>6. ASSUME NEW i \in DOMAIN Tail(a)
        PROVE  Tail(a)[i] = v \/ \E j \in DOMAIN old : Tail(a)[i] = old[j]
    <3>1. i + 1 \in 1..Len(a) /\ Tail(a)[i] = a[i + 1]
      BY <1>1, <1>2, <2>2, <2>5
    <3>2. QED
      BY <1>2, <3>1
  <2>7. QED
    BY <1>1, <2>1, <2>2, <2>3, <2>4, <2>6 DEF a
<1>4. CASE ~(Len(a) > WINDOW)
  <2>1. w = a /\ Len(a) <= WINDOW
    BY <1>1, <1>2, <1>4 DEF Trimmed
  <2>2. DOMAIN a = 1..Len(a)
    BY <1>2
  <2>3. QED
    BY <1>2, <2>1, <2>2 DEF a
<1>5. QED
  BY <1>3, <1>4

(* All samples of the window are in the range, and so is their median.     *)
WindowInRange == \A i \in DOMAIN window : low <= window[i] /\ window[i] <= high

IInv == TypeOK /\ WindowInRange /\ MappingInRange

LEMMA IInvInit == Init => IInv
<1> SUFFICES ASSUME Init PROVE IInv
  OBVIOUS
<1>1. WINDOW \in Nat /\ 0 <= WINDOW
  BY FilterAssumption
<1>2. TypeOK
  <2>1. window \in Seq(Offsets) /\ Len(window) <= WINDOW
    BY <1>1, EmptyWindow DEF Init
  <2>2. synced \in BOOLEAN /\ jumped \in BOOLEAN /\ odd \in BOOLEAN
    BY Zenon DEF Init
  <2>3. smoothed \in Int /\ {last, low, high} \subseteq Offsets
    BY DEF Init
  <2>4. QED
    BY <2>1, <2>2, <2>3 DEF TypeOK
<1>3. WindowInRange /\ MappingInRange
  BY EmptyWindow DEF Init, WindowInRange, MappingInRange
<1>4. QED
  BY <1>2, <1>3 DEF IInv

LEMMA IInvStep == IInv /\ [Next]_vars => IInv'
<1> SUFFICES ASSUME IInv, [Next]_vars PROVE IInv'
  OBVIOUS
<1>1. ASSUME NEW v \in Offsets, AddOffsetSample(v) PROVE IInv'
  <2> DEFINE old == IF IsJump(v) THEN <<>> ELSE window
             w == Trimmed(Append(old, v))
  <2>1. old \in {<<>>, window}
    OBVIOUS
  <2>2. /\ w \in Seq(Offsets) /\ w # <<>> /\ Len(w) <= WINDOW
        /\ \A i \in DOMAIN w : w[i] = v \/ \E j \in DOMAIN window : w[i] = window[j]
    <3>1. \A j \in DOMAIN old : j \in DOMAIN window /\ old[j] = window[j]
      OBVIOUS
    <3> HIDE DEF old
    <3>2. /\ w \in Seq(Offsets) /\ w # <<>> /\ Len(w) <= WINDOW
          /\ \A i \in DOMAIN w : w[i] = v \/ \E j \in DOMAIN old : w[i] = old[j]
      BY <2>1, NextWindow DEF IInv
    <3> HIDE DEF w
    <3>3. QED
      BY <3>1, <3>2
  <2> HIDE DEF w
  <2>3. /\ window' = w /\ last' = v /\ odd' = ~odd
        /\ IF Len(w) >= MIN_SAMPLES
             THEN /\ smoothed' = IF synced THEN LowPass(smoothed, Median(w)) ELSE Median(w)
                  /\ synced' = TRUE
             ELSE UNCHANGED <<smoothed, synced>>
        /\ jumped' = (IsJump(v) \/ (jumped /\ Len(w) <= MIN_SAMPLES))
        /\ low'  = IF window = <<>> /\ ~synced THEN v ELSE Smaller(low, v)
        /\ high' = IF window = <<>> /\ ~synced THEN v ELSE Larger(high, v)
    BY <1>1 DEF AddOffsetSample, w
  <2>4. /\ v \in Int /\ low \in Int /\ high \in Int /\ smoothed \in Int
        /\ low' \in Offsets /\ high' \in Offsets /\ low' \in Int /\ high' \in Int
        /\ low' <= v /\ v <= high'
        /\ window # <<>> \/ synced => low' <= low /\ high <= high'
    BY <2>3, FilterAssumption DEF IInv, TypeOK, Smaller, Larger
  <2>5. WindowInRange'
    <3>1. ASSUME NEW i \in DOMAIN w PROVE low' <= w[i] /\ w[i] <= high'
      <4>1. CASE w[i] = v
        BY <2>4, <4>1
      <4>2. CASE \E j \in DOMAIN window : w[i] = window[j]
        <5>1. PICK j \in DOMAIN window : w[i] = window[j]
          BY <4>2
        <5>2. window # <<>>
          OBVIOUS
        <5>3. window[j] \in Int /\ low <= window[j] /\ window[j] <= high
          <6>1. window \in Seq(Int)
            BY WindowOfNumbers DEF IInv, TypeOK
          <6>2. window[j] \in Int
            BY <6>1
          <6>3. QED
            BY <6>2 DEF IInv, WindowInRange
        <5>4. QED
          BY <2>4, <5>1, <5>2, <5>3
      <4>3. QED
        BY <2>2, <4>1, <4>2
    <3>2. QED
      BY <2>3, <3>1 DEF WindowInRange
  <2>6. Median(w) \in Int /\ low' <= Median(w) /\ Median(w) <= high'
    <3>1. w \in Seq(Int)
      BY <2>2, WindowOfNumbers
    <3>2. PICK i \in DOMAIN w : Median(w) = w[i]
      BY <2>2, <3>1, MedianIs DEF Values
    <3>3. w[i] \in Int
      BY <3>1
    <3>4. QED
      BY <2>3, <2>5, <3>2, <3>3 DEF WindowInRange
  <2>7. smoothed' \in Int /\ MappingInRange'
    <3>1. synced => low' <= smoothed /\ smoothed <= high'
      BY <2>4 DEF IInv, MappingInRange
    <3>2. synced => /\ LowPass(smoothed, Median(w)) \in Int
                    /\ low' <= LowPass(smoothed, Median(w))
                    /\ LowPass(smoothed, Median(w)) <= high'
      BY <2>4, <2>6, <3>1, LowPassBetween
    <3>3. QED
      BY <2>3, <2>4, <2>6, <3>1, <3>2 DEF MappingInRange
  <2>8. TypeOK'
    <3>1. jumped' \in BOOLEAN /\ synced' \in BOOLEAN /\ odd' \in BOOLEAN
      BY <2>3, Zenon DEF IInv, TypeOK
    <3>2. QED
      BY <2>2, <2>3, <2>4, <2>7, <3>1 DEF TypeOK
  <2>9. QED
    BY <2>5, <2>7, <2>8 DEF IInv
<1>2. CASE MasterChanged
  <2>1. WINDOW \in Nat /\ 0 <= WINDOW
    BY FilterAssumption
  <2>2. TypeOK'
    BY <1>2, <2>1, EmptyWindow DEF MasterChanged, IInv, TypeOK
  <2>3. WindowInRange' /\ MappingInRange'
    BY <1>2, EmptyWindow DEF MasterChanged, IInv, WindowInRange, MappingInRange
  <2>4. QED
    BY <2>2, <2>3 DEF IInv
<1>3. CASE SyncLost
  <2>1. WINDOW \in Nat /\ 0 <= WINDOW
    BY FilterAssumption
  <2>2. TypeOK'
    BY <1>3, <2>1, EmptyWindow DEF SyncLost, IInv, TypeOK
  <2>3. WindowInRange' /\ MappingInRange'
    BY <1>3, EmptyWindow DEF SyncLost, IInv, WindowInRange, MappingInRange
  <2>4. QED
    BY <2>2, <2>3 DEF IInv
<1>4. CASE UNCHANGED vars
  BY <1>4 DEF vars, IInv, TypeOK, WindowInRange, MappingInRange
<1>5. QED
  BY <1>1, <1>2, <1>3, <1>4 DEF Next, Measure

(* The mapping stays within the offsets that were measured since the       *)
(* filter was last empty: neither the low-pass and its rounding nor the    *)
(* restart of the window by AddOffsetSample or RunBmca overshoots.         *)
THEOREM MappingStaysInRange == Spec => []MappingInRange
<1>1. IInv => MappingInRange
  BY DEF IInv
<1>2. QED
  BY <1>1, IInvInit, IInvStep, PTL DEF Spec

(* While more than half of the window agrees on an offset, AddOffsetSample *)
(* moves the mapping towards it only, whatever the new sample is.          *)
THEOREM OutliersStayIgnored == Spec => OutliersIgnored
<1>1. ASSUME IInv, [Next]_vars
      PROVE  [\A b \in Offsets :
                 synced /\ Majority(window', b) =>
                    /\ Smaller(smoothed, b) <= smoothed'
                    /\ smoothed' <= Larger(smoothed, b)]_vars
  <2> SUFFICES ASSUME Next, NEW b \in Offsets, synced, Majority(window', b)
               PROVE  Smaller(smoothed, b) <= smoothed' /\ smoothed' <= Larger(smoothed, b)
    BY <1>1
  <2>1. b \in Int /\ smoothed \in Int
    BY <1>1, FilterAssumption DEF IInv, TypeOK
  <2>2. /\ Smaller(smoothed, b) \in Int /\ Smaller(smoothed, b) <= smoothed
        /\ Smaller(smoothed, b) <= b
        /\ Larger(smoothed, b) \in Int /\ smoothed <= Larger(smoothed, b)
        /\ b <= Larger(smoothed, b)
    BY <2>1 DEF Smaller, Larger
  <2>3. CASE smoothed' = smoothed
    BY <2>2, <2>3
  <2>4. CASE smoothed' # smoothed
    <3>1. PICK v \in Offsets : AddOffsetSample(v)
      BY <2>4 DEF Next, Measure, MasterChanged, SyncLost
    <3>2. smoothed' = LowPass(smoothed, Median(window'))
      BY <2>4, <3>1 DEF AddOffsetSample
    <3>3. window' \in Seq(Int) /\ window' # <<>>
      <4>1. IInv'
        BY <1>1, IInvStep
      <4>2. window' \in Seq(Int)
        BY <4>1, WindowOfNumbers DEF IInv, TypeOK
      <4>3. Len(window') >= MIN_SAMPLES
        BY <2>4, <3>1 DEF AddOffsetSample
      <4>4. QED
        BY <4>2, <4>3, FilterAssumption
    <3>4. Median(window') = b
      BY <2>1, <3>3, MajorityIsMedian
    <3>5. QED
      BY <2>1, <2>2, <3>2, <3>4, LowPassBetween
  <2>5. QED
    BY <2>3, <2>4
<1>2. QED
  BY <1>1, IInvInit, IInvStep, PTL DEF Spec, OutliersIgnored
==============================================================================
