------------------------------- MODULE RtpSender -------------------------------
(***************************************************************************)
(* RtpSender::SendLoop of src/src/rtp/rtpsender.cpp: packets leave on a    *)
(* grid of PTP times that is anchored when the loop begins and again when  *)
(* PTP was lost or has jumped.  The sending thread reads the state of the  *)
(* PTP client without a lock, twice or more per packet, so each read is a  *)
(* step of its own.                                                        *)
(*                                                                         *)
(* Mapped time is CLOCK_REALTIME plus m_nMappingNs, which keeps its value  *)
(* when sync is lost; PtpTimeNs is the mapped time while synced and 0 else.*)
(* A deadline is kept as its distance from the mapped time, or, when it    *)
(* was anchored on a PtpTimeNs of 0, from 0.  Distances are counted in     *)
(* units of SPIN_NS and saturate at FAR, beyond every value they are       *)
(* compared with.  The content of a packet is its time stamp, that is its  *)
(* deadline.                                                               *)
(***************************************************************************)
EXTENDS Integers

CONSTANTS PTIME,      \* packet time
          AHEAD,      \* the first deadline after anchoring (20 ms)
          LIMIT,      \* a deadline this far from now is a jump (2 s)
          Steps,      \* the steps forward that the mapping can take
          MaxJumps,   \* bound: steps and jumps of the mapping, losses of sync
          MaxStall    \* bound: units of time for which the thread may stall

ASSUME SenderAssumption ==
    /\ {PTIME, AHEAD, LIMIT} \subseteq Nat \ {0} /\ PTIME < LIMIT
    /\ 1 < AHEAD /\ AHEAD < LIMIT
    /\ MaxStall \in Nat /\ MaxStall <= LIMIT
    /\ Steps \subseteq Nat \ {0} /\ MaxJumps \in Nat

SPIN  == 1
FAR   == LIMIT + PTIME + 1
Never == -1             \* an absolute sleep until a time that has wrapped

VARIABLES
    synced,      \* PtpClient::IsSynced
    run,         \* m_bRun
    at,          \* where the thread is
    needAnchor,  \* bNeedAnchor
    waiting,     \* m_bWaitingForPtp
    lead,        \* nDeadlineNs: distance from mapped time, or from 0 if zero
    zero,        \* the grid was anchored on a PtpTimeNs of 0
    sleep,       \* time until the absolute sleep ends, or Never
    stall,       \* time for which the thread has stalled in its current step
    jumps,       \* how often the mapping or sync has changed
    \* history, read by properties only
    gap,         \* the last time stamp sent: distance from mapped time
    zeroed       \* some grid was anchored on a PtpTimeNs of 0

ptpVars    == <<synced, jumps>>
anchorVars == <<needAnchor, waiting, zero, zeroed>>
vars == <<ptpVars, run, at, anchorVars, lead, sleep, stall, gap>>

Clamp(x) == IF x > FAR THEN FAR ELSE IF x < -FAR THEN -FAR ELSE x

Init ==
    /\ synced = FALSE /\ jumps = 0
    /\ run = TRUE
    /\ at = "top"
    /\ needAnchor = TRUE /\ waiting = FALSE /\ zero = FALSE /\ zeroed = FALSE
    /\ lead = 0
    /\ sleep = 0
    /\ stall = 0
    /\ gap = -FAR

----------------------------------------------------------------------------
(* The PTP client, and time.                                               *)
Moved(d) ==
    /\ lead' = IF zero \/ lead = FAR THEN lead ELSE Clamp(lead - d)
    /\ gap' = Clamp(gap - d)

Computing == at \notin {"wait", "sleep", "spin", "end"}

Tick ==
    /\ Computing => stall < MaxStall
    /\ stall' = IF Computing THEN stall + 1 ELSE 0
    /\ Moved(1)
    /\ sleep' = IF sleep > 0 THEN sleep - 1 ELSE sleep
    /\ UNCHANGED <<ptpVars, run, at, anchorVars>>

(* The mapping grows: another master, or the servo.                        *)
StepForward ==
    /\ jumps < MaxJumps /\ jumps' = jumps + 1
    /\ \E d \in Steps : Moved(d)
    /\ UNCHANGED <<synced, run, at, anchorVars, sleep, stall>>

(* The mapping falls back, by more than time and steps make good.          *)
JumpBack ==
    /\ jumps < MaxJumps /\ jumps' = jumps + 1
    /\ lead' = IF zero THEN lead ELSE FAR
    /\ gap' = -FAR
    /\ UNCHANGED <<synced, run, at, anchorVars, sleep, stall>>

(* The servo takes a little back.  Bound: the last time stamp, and a       *)
(* deadline that is slept for, stay less than AHEAD ahead of the clock.    *)
StepBack ==
    /\ jumps < MaxJumps /\ jumps' = jumps + 1
    /\ gap + 1 < AHEAD
    /\ at \in {"sleep", "spin", "send"} => zero \/ lead = FAR \/ lead + 1 < sleep + AHEAD
    /\ lead' = IF zero \/ lead \in {FAR, -FAR} THEN lead ELSE lead + 1
    /\ gap' = gap + 1
    /\ UNCHANGED <<synced, run, at, anchorVars, sleep, stall>>

SyncLost ==
    /\ synced /\ jumps < MaxJumps
    /\ synced' = FALSE /\ jumps' = jumps + 1
    /\ UNCHANGED <<run, at, anchorVars, lead, sleep, stall, gap>>

SyncGained ==
    /\ ~synced
    /\ synced' = TRUE
    /\ UNCHANGED <<jumps, run, at, anchorVars, lead, sleep, stall, gap>>

(* Stop: the caller then waits for the thread to end.                      *)
Stop ==
    /\ run
    /\ run' = FALSE
    /\ UNCHANGED <<ptpVars, at, anchorVars, lead, sleep, stall, gap>>

----------------------------------------------------------------------------
(* nDeadlineNs - PtpTimeNs(), as the thread would compute it now.          *)
Remaining ==
    IF zero THEN IF synced THEN -FAR ELSE lead
            ELSE IF synced THEN lead ELSE FAR

Goto(where) == at' = where /\ stall' = 0

(* The loop condition, and whether the grid must be anchored.              *)
Top ==
    /\ at = "top"
    /\ \/ ~run /\ Goto("end") /\ UNCHANGED waiting
       \/ run /\ (needAnchor \/ ~synced) /\ Goto("wait") /\ waiting' = TRUE
       \/ run /\ ~needAnchor /\ synced /\ Goto("check") /\ UNCHANGED waiting
    /\ UNCHANGED <<ptpVars, run, needAnchor, zero, zeroed, lead, sleep, gap>>

WaitForPtp_IgnoresStop ==
    /\ at = "wait"
    /\ synced
    /\ waiting' = FALSE
    /\ Goto("start")
    /\ UNCHANGED <<ptpVars, run, needAnchor, zero, zeroed, lead, sleep, gap>>

WaitForPtp ==
    /\ at = "wait"
    /\ ~run \/ synced
    /\ waiting' = FALSE
    /\ Goto(IF run THEN "start" ELSE "end")
    /\ UNCHANGED <<ptpVars, run, needAnchor, zero, zeroed, lead, sleep, gap>>

(* nStartNs = PtpTimeNs() + 20 ms.                                         *)
Anchor_NotAhead ==
    /\ at = "start"
    /\ lead' = 0
    /\ zero' = ~synced
    /\ zeroed' = (zeroed \/ ~synced)
    /\ needAnchor' = FALSE
    /\ Goto("check")
    /\ UNCHANGED <<ptpVars, run, waiting, sleep, gap>>

Anchor ==
    /\ at = "start"
    /\ lead' = AHEAD
    /\ zero' = ~synced
    /\ zeroed' = (zeroed \/ ~synced)
    /\ needAnchor' = FALSE
    /\ Goto("check")
    /\ UNCHANGED <<ptpVars, run, waiting, sleep, gap>>

(* A deadline that is too far away starts a new grid.                      *)
Check ==
    /\ at = "check"
    /\ IF Remaining > LIMIT \/ Remaining < -LIMIT
         THEN needAnchor' = TRUE /\ Goto("top")
         ELSE UNCHANGED needAnchor /\ Goto("plan")
    /\ UNCHANGED <<ptpVars, run, waiting, zero, zeroed, lead, sleep, gap>>

(* The packet is built and the wakeup computed with the current mapping:   *)
(* uint64_t(deadline - mapping) wraps for a deadline counted from 0 when   *)
(* the mapping is greater, as TAI is 37 s ahead of UTC; which it is, is    *)
(* left open.                                                              *)
Plan ==
    /\ at = "plan"
    /\ \/ ~zero /\ sleep' = IF lead > SPIN THEN lead - SPIN ELSE 0
       \/ zero /\ sleep' \in {0, Never}
    /\ Goto("sleep")
    /\ UNCHANGED <<ptpVars, run, anchorVars, lead, gap>>

Wake ==
    /\ at = "sleep" /\ sleep = 0
    /\ Goto("spin")
    /\ UNCHANGED <<ptpVars, run, anchorVars, lead, sleep, gap>>

(* The last stretch: until the deadline, or the mapping has moved.         *)
Spin_UntilDeadline ==
    /\ at = "spin"
    /\ Remaining <= 0
    /\ Goto("send")
    /\ UNCHANGED <<ptpVars, run, anchorVars, lead, sleep, gap>>

Spin ==
    /\ at = "spin"
    /\ Remaining <= 0 \/ Remaining > 2 * SPIN
    /\ Goto("send")
    /\ UNCHANGED <<ptpVars, run, anchorVars, lead, sleep, gap>>

(* The packet leaves on every enabled leg; nSeq and nPacket are counted.   *)
Send ==
    /\ at = "send"
    /\ gap' = IF zero \/ lead = FAR THEN -FAR ELSE lead
    /\ lead' = Clamp(lead + PTIME)
    /\ Goto("top")
    /\ UNCHANGED <<ptpVars, run, anchorVars, sleep>>

SendLoop == Top \/ WaitForPtp \/ Anchor \/ Check \/ Plan \/ Wake \/ Spin \/ Send

Next ==
    \/ Tick \/ StepForward \/ StepBack \/ JumpBack \/ SyncLost \/ SyncGained
    \/ Stop \/ SendLoop

Spec == Init /\ [][Next]_vars

(* The thread runs and time passes; nothing is assumed of PTP or of Stop.  *)
FairSpec == Spec /\ WF_vars(SendLoop) /\ WF_vars(Tick)

----------------------------------------------------------------------------
TypeOK ==
    /\ synced \in BOOLEAN /\ run \in BOOLEAN /\ needAnchor \in BOOLEAN
    /\ waiting \in BOOLEAN /\ zero \in BOOLEAN /\ zeroed \in BOOLEAN
    /\ at \in {"top", "wait", "start", "check", "plan", "sleep", "spin", "send", "end"}
    /\ lead \in -FAR..FAR /\ gap \in -FAR..FAR
    /\ sleep \in Never..FAR
    /\ stall \in 0..MaxStall /\ jumps \in 0..MaxJumps

(* Time stamps increase from packet to packet, over new grids, steps of    *)
(* the mapping, stalls of the thread and losses of sync between any two    *)
(* reads of the PTP state, as long as the clock itself does not go back by *)
(* more than the grid is anchored ahead of it.                             *)
(* Needs that no grid was anchored on a PtpTimeNs of 0 (see SendsWhenSynced).  *)
TimestampsIncrease ==
    [][~zeroed /\ at = "check" /\ at' = "plan" => lead > gap]_vars

(* Stop returns: the thread ends whatever PTP does meanwhile.              *)
StopReturns == ~run ~> (at = "end" \/ zeroed)

(* If PTP is synced from some time on, a running sender sends for ever.    *)
KeepsSending ==
    <>[](synced /\ run) => ([]<>(at = "send") \/ <>zeroed)

(* rtpsender.cpp:157 "(re)anchor whenever ptp is not usable or the mapping *)
(* jumped": the same without the proviso.                                  *)
SendsWhenSynced == <>[](synced /\ run) => []<>(at = "send")
==============================================================================
