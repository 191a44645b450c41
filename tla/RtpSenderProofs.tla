--------------------------- MODULE RtpSenderProofs ---------------------------
(***************************************************************************)
(* Theorems about RtpSender, for any packet time, any limit, any steps of  *)
(* the mapping and any number of them.                                     *)
(***************************************************************************)
EXTENDS RtpSender, TLAPS

(* A packet leaves when its deadline has come or the mapping has fallen    *)
(* back since it was planned: a sleep ends at most SPIN before the         *)
(* deadline, so even after small corrections no time stamp is as far ahead *)
(* of the clock as a new grid.                                             *)
SentWhenDue ==
    /\ gap < AHEAD
    /\ at = "sleep" => sleep >= 0 /\ (lead = FAR \/ lead < sleep + AHEAD)
    /\ at \in {"spin", "send"} => sleep = 0 /\ (lead = FAR \/ lead < AHEAD)

(* The deadline of the grid is after the last time stamp, or so long ago   *)
(* that the grid will be anchored again.                                   *)
GridAhead ==
    /\ at = "check" => ~needAnchor
    /\ at \in {"top", "wait", "start", "check"} /\ ~needAnchor => lead > gap \/ lead = -FAR

(* As long as no grid was anchored on a PtpTimeNs of 0.                    *)
GridOK == ~zeroed => ~zero /\ SentWhenDue /\ GridAhead

LEMMA Constants ==
    /\ PTIME \in Nat /\ PTIME > 0 /\ LIMIT \in Nat /\ AHEAD \in Nat
    /\ 1 < AHEAD /\ AHEAD < LIMIT /\ PTIME < LIMIT
    /\ FAR = LIMIT + PTIME + 1 /\ FAR \in Nat /\ SPIN = 1 /\ Never = -1
    /\ MaxStall \in Nat /\ MaxJumps \in Nat
    /\ \A d \in Steps : d \in Nat /\ d > 0
  BY SenderAssumption DEF FAR, SPIN, Never

LEMMA TypeInit == Init => TypeOK
<1> SUFFICES ASSUME Init PROVE TypeOK
  OBVIOUS
<1>1. /\ synced \in BOOLEAN /\ run \in BOOLEAN /\ needAnchor \in BOOLEAN
      /\ waiting \in BOOLEAN /\ zero \in BOOLEAN /\ zeroed \in BOOLEAN
  BY Zenon DEF Init
<1>2. lead \in -FAR..FAR /\ gap \in -FAR..FAR /\ sleep \in Never..FAR
  BY Constants DEF Init
<1>3. stall \in 0..MaxStall /\ jumps \in 0..MaxJumps
  BY Constants DEF Init
<1>4. QED
  BY <1>1, <1>2, <1>3 DEF Init, TypeOK

LEMMA TypeStep == TypeOK /\ [Next]_vars => TypeOK'
<1> SUFFICES ASSUME TypeOK, [Next]_vars PROVE TypeOK'
  OBVIOUS
<1> USE Constants DEF ptpVars, anchorVars, Goto, TypeOK
<1>1. ASSUME NEW d \in Nat, Moved(d) PROVE lead' \in -FAR..FAR /\ gap' \in -FAR..FAR
  BY <1>1 DEF Moved, Clamp
<1>2. CASE Tick
  <2>1. lead' \in -FAR..FAR /\ gap' \in -FAR..FAR
    BY <1>1, <1>2 DEF Tick
  <2>2. stall' \in 0..MaxStall
    BY <1>2 DEF Tick
  <2>3. sleep' \in Never..FAR
    BY <1>2 DEF Tick
  <2>4. QED
    BY <1>2, <2>1, <2>2, <2>3 DEF Tick
<1>3. CASE StepForward
  <2>1. lead' \in -FAR..FAR /\ gap' \in -FAR..FAR
    BY <1>1, <1>3 DEF StepForward
  <2>2. jumps' \in 0..MaxJumps
    BY <1>3 DEF StepForward
  <2>3. QED
    BY <1>3, <2>1, <2>2 DEF StepForward
<1>4. CASE JumpBack \/ StepBack
  BY <1>4 DEF JumpBack, StepBack
<1>5. CASE SyncLost
  <2>1. synced' \in BOOLEAN
    BY <1>5, Zenon DEF SyncLost
  <2>2. jumps' \in 0..MaxJumps
    BY <1>5 DEF SyncLost
  <2>3. QED
    BY <1>5, <2>1, <2>2 DEF SyncLost
<1>6. CASE SyncGained \/ Stop
  BY <1>6 DEF SyncGained, Stop
<1>7. CASE Top
  <2>1. waiting' \in BOOLEAN
    BY <1>7, Zenon DEF Top
  <2>2. at' \in {"end", "wait", "check"} /\ stall' = 0
    BY <1>7 DEF Top
  <2>3. QED
    BY <1>7, <2>1, <2>2 DEF Top
<1>8. CASE WaitForPtp
  <2>1. waiting' \in BOOLEAN
    BY <1>8, Zenon DEF WaitForPtp
  <2>2. at' \in {"end", "start"} /\ stall' = 0
    BY <1>8 DEF WaitForPtp
  <2>3. QED
    BY <1>8, <2>1, <2>2 DEF WaitForPtp
<1>9. CASE Anchor
  <2>1. zero' \in BOOLEAN /\ zeroed' \in BOOLEAN /\ needAnchor' \in BOOLEAN
    BY <1>9, Zenon DEF Anchor
  <2>2. QED
    BY <1>9, <2>1 DEF Anchor
<1>10. CASE Check
  <2>1. needAnchor' \in BOOLEAN
    BY <1>10, Zenon DEF Check
  <2>2. at' \in {"top", "plan"} /\ stall' = 0
    BY <1>10 DEF Check
  <2>3. QED
    BY <1>10, <2>1, <2>2 DEF Check
<1>11. CASE Plan
  BY <1>11 DEF Plan
<1>12. CASE Wake \/ Spin
  BY <1>12 DEF Wake, Spin
<1>13. CASE Send
  BY <1>13 DEF Send, Clamp
<1>14. CASE UNCHANGED vars
  BY <1>14 DEF vars
<1>15. QED
  BY <1>2, <1>3, <1>4, <1>5, <1>6, <1>7, <1>8, <1>9, <1>10, <1>11, <1>12, <1>13, <1>14
  DEF Next, SendLoop

(* The mapped time moves on by d.                                          *)
LEMMA MovedKeeps ==
    ASSUME TypeOK, GridOK, NEW d \in Nat, d > 0, Moved(d), UNCHANGED <<at, needAnchor, zero, zeroed>>
    PROVE  /\ lead' \in -FAR..FAR /\ gap' \in -FAR..FAR
           /\ ~zeroed => gap' < AHEAD
           /\ ~zeroed => lead' = lead \/ lead' <= lead - 1 \/ lead' = -FAR
           /\ ~zeroed /\ lead = FAR => lead' = FAR
           /\ ~zeroed /\ lead' = lead => lead = FAR \/ lead = -FAR
           /\ ~zeroed => GridAhead'
<1> USE Constants DEF Moved, Clamp
<1>1. /\ lead \in -FAR..FAR /\ gap \in -FAR..FAR
  BY DEF TypeOK
<1>2. lead' \in -FAR..FAR /\ gap' \in -FAR..FAR
  BY <1>1
<1>3. ASSUME ~zeroed PROVE gap' < AHEAD
  BY <1>1, <1>3 DEF GridOK, SentWhenDue
<1>4. ASSUME ~zeroed
      PROVE  /\ lead' = lead \/ lead' <= lead - 1 \/ lead' = -FAR
             /\ lead = FAR => lead' = FAR
             /\ lead' = lead => lead = FAR \/ lead = -FAR
  BY <1>1, <1>4 DEF GridOK
<1>5. ASSUME ~zeroed, lead > gap \/ lead = -FAR PROVE lead' > gap' \/ lead' = -FAR
  <2>1. ~zero /\ gap < AHEAD
    BY <1>5 DEF GridOK, SentWhenDue
  <2>2. QED
    BY <1>1, <1>5, <2>1
<1>6. ASSUME ~zeroed PROVE GridAhead'
  BY <1>5, <1>6 DEF GridOK, GridAhead
<1>7. QED
  BY <1>2, <1>3, <1>4, <1>6

LEMMA GridStep == TypeOK /\ GridOK /\ [Next]_vars => GridOK'
<1> SUFFICES ASSUME TypeOK, GridOK, [Next]_vars, ~zeroed'
             PROVE  ~zero' /\ SentWhenDue' /\ GridAhead'
  BY DEF GridOK
<1>1. ~zeroed
  BY DEF Next, SendLoop, vars, anchorVars, Tick, StepForward, JumpBack, StepBack, SyncLost, SyncGained,
         Stop, Top, WaitForPtp, Anchor, Check, Plan, Wake, Spin, Send, TypeOK
<1>2. ~zero /\ SentWhenDue /\ GridAhead
  BY <1>1 DEF GridOK
<1>3. lead \in -FAR..FAR /\ gap \in -FAR..FAR /\ sleep \in Never..FAR
  BY DEF TypeOK
<1> USE Constants DEF ptpVars, anchorVars, Goto
<1>4. CASE Tick
  <2>1. /\ gap' < AHEAD /\ GridAhead' /\ lead' \in -FAR..FAR
        /\ lead' = lead \/ lead' <= lead - 1 \/ lead' = -FAR
        /\ lead = FAR => lead' = FAR
        /\ lead' = lead => lead = FAR \/ lead = -FAR
    BY <1>1, <1>4, MovedKeeps DEF Tick
  <2>2. at' = at /\ zero' = zero /\ sleep' = IF sleep > 0 THEN sleep - 1 ELSE sleep
    BY <1>4 DEF Tick
  <2>3. QED
    BY <1>2, <1>3, <2>1, <2>2 DEF SentWhenDue
<1>5. CASE StepForward
  <2>1. PICK d \in Steps : Moved(d)
    BY <1>5 DEF StepForward
  <2>2. /\ gap' < AHEAD /\ GridAhead' /\ lead' \in -FAR..FAR
        /\ lead = FAR => lead' = FAR
        /\ lead' = lead \/ lead' <= lead - 1 \/ lead' = -FAR
    BY <1>1, <1>5, <2>1, MovedKeeps DEF StepForward
  <2>3. at' = at /\ zero' = zero /\ sleep' = sleep
    BY <1>5 DEF StepForward
  <2>4. QED
    BY <1>2, <1>3, <2>2, <2>3 DEF SentWhenDue
<1>6. CASE JumpBack
  BY <1>2, <1>3, <1>6 DEF JumpBack, SentWhenDue, GridAhead
<1>6a. CASE StepBack
  BY <1>2, <1>3, <1>6a DEF StepBack, SentWhenDue, GridAhead
<1>7. CASE SyncLost \/ SyncGained \/ Stop
  BY <1>2, <1>7 DEF SyncLost, SyncGained, Stop, SentWhenDue, GridAhead
<1>8. CASE Top
  BY <1>2, <1>8 DEF Top, SentWhenDue, GridAhead
<1>9. CASE WaitForPtp
  BY <1>2, <1>9 DEF WaitForPtp, SentWhenDue, GridAhead
<1>10. CASE Anchor
  <2>1. ~zero'
    BY <1>10, Zenon DEF Anchor
  <2>2. lead' = AHEAD /\ gap' = gap /\ at' = "check" /\ ~needAnchor'
    BY <1>10 DEF Anchor
  <2>3. QED
    BY <1>2, <1>3, <2>1, <2>2 DEF SentWhenDue, GridAhead
<1>11. CASE Check
  BY <1>2, <1>11 DEF Check, SentWhenDue, GridAhead
<1>12. CASE Plan
  BY <1>2, <1>3, <1>12 DEF Plan, SentWhenDue, GridAhead
<1>13. CASE Wake
  BY <1>2, <1>3, <1>13 DEF Wake, SentWhenDue, GridAhead
<1>14. CASE Spin
  BY <1>2, <1>14 DEF Spin, SentWhenDue, GridAhead
<1>15. CASE Send
  BY <1>2, <1>3, <1>15 DEF Send, Clamp, SentWhenDue, GridAhead
<1>16. CASE UNCHANGED vars
  BY <1>2, <1>16 DEF vars, SentWhenDue, GridAhead
<1>17. QED
  BY <1>4, <1>5, <1>6, <1>7, <1>8, <1>9, <1>10, <1>11, <1>12, <1>13, <1>14, <1>15, <1>16, <1>6a
  DEF Next, SendLoop

(* The packet that SendLoop goes on to build has a later time stamp than   *)
(* the one before, however the mapping has moved, sync was lost or the     *)
(* thread has stalled between its reads of the PTP state.                  *)
THEOREM TimestampsAlwaysIncrease == Spec => TimestampsIncrease
<1>1. ASSUME TypeOK, GridOK, [Next]_vars
      PROVE  [~zeroed /\ at = "check" /\ at' = "plan" => lead > gap]_vars
  <2> SUFFICES ASSUME Next, ~zeroed, at = "check", at' = "plan" PROVE lead > gap
    BY <1>1 DEF vars
  <2>1. Check
    BY DEF Next, SendLoop, Tick, StepForward, JumpBack, StepBack, SyncLost, SyncGained, Stop, Top,
           WaitForPtp, Anchor, Plan, Wake, Spin, Send
  <2>2. ~(Remaining > LIMIT \/ Remaining < -LIMIT)
    BY <2>1 DEF Check, Goto
  <2>3. ~zero /\ ~needAnchor /\ (lead > gap \/ lead = -FAR)
    BY <1>1 DEF GridOK, GridAhead
  <2>4. Remaining = lead \/ Remaining = FAR
    BY <2>3 DEF Remaining
  <2>5. QED
    BY <1>1, <2>2, <2>3, <2>4, Constants DEF TypeOK
<1>2. Init => GridOK
  BY Constants DEF Init, GridOK, SentWhenDue, GridAhead
<1>3. QED
  BY <1>1, <1>2, TypeInit, TypeStep, GridStep, PTL DEF Spec, TimestampsIncrease
==============================================================================
