----------------------------- MODULE OffsetFilter -----------------------------
(***************************************************************************)
(* PtpClient::AddOffsetSample (src/src/ptp/ptpclient.cpp) with its         *)
(* arithmetic: the window of measured offsets, the median, the low-pass    *)
(* and the test for a jump.  PtpClient.tla has the control around it; here *)
(* the offsets are numbers.  The code computes in double precision         *)
(* nanoseconds; the model in integers, so the low-pass rounds down to the  *)
(* unit.                                                                   *)
(***************************************************************************)
EXTENDS Integers, Sequences, FiniteSets

CONSTANTS Offsets,      \* the offsets a measurement can yield
          JUMP,         \* 50 ms in the units of Offsets
          MIN_SAMPLES,  \* 4
          SETTLED,      \* 8
          WINDOW        \* 16

ASSUME FilterAssumption ==
    /\ Offsets \subseteq Int
    /\ JUMP \in Nat
    /\ {MIN_SAMPLES, SETTLED, WINDOW} \subseteq Nat \ {0}
    /\ MIN_SAMPLES <= SETTLED /\ SETTLED <= WINDOW

VARIABLES
    window,    \* m_qOffsetWindow
    smoothed,  \* m_dSmoothedOffsetNs, and m_nMappingNs while synced
    synced,    \* m_bSynced
    last,      \* the offset measured last
    jumped,    \* a jump has emptied the window, which is still filling
    low, high, \* the least and greatest offset since the filter was empty
    odd        \* parity of the number of measurements: one that changes nothing
               \* else is still a step

vars == <<window, smoothed, synced, last, jumped, low, high, odd>>

Distance(a, b) == IF a < b THEN b - a ELSE a - b
Smaller(a, b)  == IF a < b THEN a ELSE b
Larger(a, b)   == IF a < b THEN b ELSE a

(* The number of elements of w that satisfy a bound.                       *)
Below(w, x)  == Cardinality({i \in DOMAIN w : w[i] < x})
UpTo(w, x)   == Cardinality({i \in DOMAIN w : w[i] <= x})

(* sorted[size/2] of a copy sorted in ascending order.                     *)
Median_Max(w) ==
    CHOOSE x \in {w[i] : i \in DOMAIN w} : UpTo(w, x) = Len(w)

Median(w) ==
    CHOOSE x \in {w[i] : i \in DOMAIN w} :
        Below(w, x) <= Len(w) \div 2 /\ Len(w) \div 2 < UpTo(w, x)

(* The oldest sample leaves a full window.                                 *)
Trimmed(w) == IF Len(w) > WINDOW THEN Tail(w) ELSE w

(* smoothed * 0.9 + median * 0.1                                           *)
LowPass_Overshoot(old, new) == old + (11 * (new - old)) \div 10

LowPass(old, new) == (9 * old + new) \div 10

Init ==
    /\ window = <<>>
    /\ smoothed = 0
    /\ synced = FALSE
    /\ last \in Offsets
    /\ jumped = FALSE
    /\ low = last /\ high = last
    /\ odd = FALSE

(* A jump is only looked for once the window has SETTLED samples.          *)
IsJump(v) == Len(window) >= SETTLED /\ Distance(v, smoothed) > JUMP

(* Plausible bug: samples far from the mapping are discarded for good.     *)
AddOffsetSample_Rejects(v) ==
    LET w == Trimmed(Append(window, v))
    IN  /\ window' = IF IsJump(v) THEN window ELSE w
        /\ last' = v
        /\ odd' = ~odd
        /\ IF Len(window') >= MIN_SAMPLES /\ ~IsJump(v)
             THEN /\ smoothed' = IF synced THEN LowPass(smoothed, Median(w)) ELSE Median(w)
                  /\ synced' = TRUE
             ELSE UNCHANGED <<smoothed, synced>>
        /\ jumped' = FALSE
        /\ low'  = Smaller(low, v)
        /\ high' = Larger(high, v)

AddOffsetSample(v) ==
    LET w     == Trimmed(Append(IF IsJump(v) THEN <<>> ELSE window, v))
        fresh == window = <<>> /\ ~synced
    IN  /\ window' = w
        /\ last' = v
        /\ odd' = ~odd
        /\ IF Len(w) >= MIN_SAMPLES
             THEN /\ smoothed' = IF synced THEN LowPass(smoothed, Median(w)) ELSE Median(w)
                  /\ synced' = TRUE
             ELSE UNCHANGED <<smoothed, synced>>
        /\ jumped' = (IsJump(v) \/ (jumped /\ Len(w) <= MIN_SAMPLES))
        /\ low'  = IF fresh THEN v ELSE Smaller(low, v)
        /\ high' = IF fresh THEN v ELSE Larger(high, v)

(* RunBmca selects another master: the window is emptied, the mapping is   *)
(* kept and still synced.                                                  *)
MasterChanged ==
    /\ window' = <<>>
    /\ jumped' = FALSE
    /\ UNCHANGED <<smoothed, synced, last, low, high, odd>>

(* No master left, syncs stopped or SetDomain.                             *)
SyncLost ==
    /\ window' = <<>>
    /\ synced' = FALSE
    /\ jumped' = FALSE
    /\ UNCHANGED <<smoothed, last, low, high, odd>>

Measure == \E v \in Offsets : AddOffsetSample(v)

Next == Measure \/ MasterChanged \/ SyncLost

Spec == Init /\ [][Next]_vars

(* A synced client keeps measuring: syncs that stop end in SyncLost.       *)
FairSpec == Spec /\ WF_vars(Measure)

----------------------------------------------------------------------------
TypeOK ==
    /\ window \in Seq(Offsets) /\ Len(window) <= WINDOW
    /\ smoothed \in Int
    /\ synced \in BOOLEAN /\ jumped \in BOOLEAN /\ odd \in BOOLEAN
    /\ {last, low, high} \subseteq Offsets

(* The mapping never leaves the range of the offsets that were measured    *)
(* since the filter was last empty and unsynced: restarts of the window,   *)
(* changes of master and the rounding of the low-pass do not overshoot.    *)
MappingInRange == synced => low <= smoothed /\ smoothed <= high

(* "robust against delayed packets": while more than half of the window    *)
(* is one offset b, a new sample, however far off, only moves the mapping  *)
(* towards b.                                                              *)
Majority(w, b) == 2 * Cardinality({i \in DOMAIN w : w[i] = b}) > Len(w)

OutliersIgnored ==
    [][\A b \in Offsets :
          synced /\ Majority(window', b) =>
              /\ Smaller(smoothed, b) <= smoothed'
              /\ smoothed' <= Larger(smoothed, b)]_vars

(* If the master stays (nothing but a jump restarts the window) and its    *)
(* offset settles on one value, the mapping comes to within 50 ms of it    *)
(* and stays there, although every jump empties the window again.          *)
MappingRecovers ==
    \A v \in Offsets :
        <>[](last = v /\ synced /\ window # <<>>) => <>[](Distance(smoothed, v) <= JUMP)

(* ptpclient.cpp:423 "50ms jump - restart mapping": when the window has    *)
(* filled again after a jump, the mapping is computed from it alone.       *)
JumpRestartsMapping ==
    jumped /\ Len(window) = MIN_SAMPLES => smoothed = Median(window)
==============================================================================
