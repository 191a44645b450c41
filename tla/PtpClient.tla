------------------------------ MODULE PtpClient ------------------------------
(***************************************************************************)
(* PtpClient of src/src/ptp/ptpclient.cpp: the table of foreign masters,   *)
(* the choice of a master, the measurement of its clock and the loss of    *)
(* synchronisation.  Three threads share the state under m_mutex:          *)
(*                                                                         *)
(*   - the receive thread (RxLoop): HandleMessage tests the domain without *)
(*     the lock, then one handler runs under it.  A message between the    *)
(*     two is `inflight';                                                  *)
(*   - the timer thread (TimerLoop): ages out masters and the sync state,  *)
(*     holding the lock over several calls of RunBmca, and sends the delay *)
(*     request after releasing it;                                         *)
(*   - a control thread that calls SetDomain: the new domain is stored     *)
(*     before the lock is taken and the session is cleared.                *)
(*                                                                         *)
(* The network is arbitrary: any message of the sets below may arrive, be  *)
(* lost, repeated or reordered.  Time is a number of units since an event, *)
(* kept up to one past the timeout it is compared with.  A measured value  *)
(* is abstracted to its origins: a pair of times to the <<domain, clock>>  *)
(* of each, a path delay to the domains it was measured or corrected in.   *)
(* The arithmetic on the values is in module OffsetFilter.                 *)
(***************************************************************************)
EXTENDS Bmca, Sequences, FiniteSets

CONSTANTS Domains,           \* PTP domains in use on the network
          Announces,         \* the datasets that ports announce
          Nets,              \* interfaces: 0 is primary (amber), 1 secondary (blue)
          MsgTypes,          \* the types of message the network carries
          SeqMod,            \* sequence numbers are counted modulo SeqMod (2^16)
          MIN_SAMPLES,       \* samples before a mapping is computed (4)
          SETTLED,           \* samples before a jump is detected (8)
          WINDOW,            \* length of the sample window (16)
          ANNOUNCE_TIMEOUT,  \* 6000 ms in time units
          SYNC_TIMEOUT,      \* 5000 ms in time units
          DELAY_EVERY        \* a delay request every so many timer passes (4)

ASSUME PtpAssumption ==
    /\ Announces \subseteq AnnounceDataset
    /\ \A d \in Announces : d.source \in Ports
    /\ Nets \subseteq {0, 1}
    /\ {SeqMod, MIN_SAMPLES, SETTLED, WINDOW, DELAY_EVERY} \subseteq Nat \ {0}
    /\ ANNOUNCE_TIMEOUT \in Nat /\ SYNC_TIMEOUT \in Nat
    /\ MIN_SAMPLES <= WINDOW

NoDomain == "no domain"
ASSUME NoDomainAssumption == NoDomain \notin Domains

NoMsg  == [type |-> "none"]
NoSync == [seq |-> 0, rx |-> {}]

VARIABLES
    domain,     \* m_nDomain
    switching,  \* the control thread is in SetDomain, before the lock
    foreign,    \* m_mForeign: an entry for every port, empty ones included
    selected,   \* m_selectedMaster
    await,      \* the sync whose follow-up is awaited (m_bAwaitFollowUp)
    syncAge,    \* time since m_lastSyncSeen
    window,     \* m_qOffsetWindow: the origins of each sample
    mapping,    \* m_dSmoothedOffsetNs: its origins; it outlives m_bSynced
    synced,     \* m_bSynced
    delayFrom,  \* m_dMeanPathDelayNs: its domains, {} unless m_bHaveDelay
    early,      \* history: since SetDomain, a delay response was applied that
                \* answers a request of the old domain, or with no mapping yet
    delaySeq,   \* m_nDelaySeq
    asked,      \* the domain the last delay request was sent in
    inflight,   \* the message the receive thread has accepted, not yet handled
    timer,      \* the timer thread: "sleep", "age" (holds m_mutex), "send"
    tick        \* nTick modulo DELAY_EVERY

ctlVars    == <<domain, switching>>
masterVars == <<foreign, selected>>
measVars   == <<await, syncAge, window, mapping, synced, delayFrom, early>>
delayVars  == <<delaySeq, asked>>
timerVars  == <<timer, tick>>
vars == <<ctlVars, masterVars, measVars, delayVars, inflight, timerVars>>

Clocks  == {ClockOf[p] : p \in Ports}
Origins == Domains \X Clocks
Seqs    == 0..(SeqMod - 1)

(* What an offset depends on: the two times it compares and the path delay *)
(* that was added.  Of the mapping, which several clocks may have          *)
(* contributed to, only the domains are kept.                              *)
Sample    == [times : SUBSET Origins, delay : SUBSET Domains]
Mapping   == [times : SUBSET Domains, delay : SUBSET Domains]
NoMapping == [times |-> {}, delay |-> {}]

(* ForeignMaster.  Announce counts are only compared with 0 and QUALIFIED  *)
(* and saturate there; dom is the domain of the announce ds came from.     *)
Entry == [amber : 0..QUALIFIED, blue : 0..1, ds : AnnounceDataset,
          dom : Domains \cup {NoDomain}, age : 0..(ANNOUNCE_TIMEOUT + 1)]

DefaultDataset == [source |-> 0, priority1 |-> 255, clockClass |-> 255,
                   clockAccuracy |-> 254, variance |-> 65535, priority2 |-> 255,
                   gm |-> 0, stepsRemoved |-> 0]

NoEntry == [amber |-> 0, blue |-> 0, ds |-> DefaultDataset, dom |-> NoDomain, age |-> 0]

EmptyTable == [p \in Ports |-> NoEntry]

(* The keys of m_mForeign: an entry is created by its first announce.      *)
Present(table) == {p \in Ports : table[p].amber + table[p].blue > 0}

AnnounceMsg  == [type : {"announce"}, dom : Domains, ds : Announces, net : Nets]
SyncMsg      == [type : {"sync"}, dom : Domains, clk : Clocks, seq : Seqs, twoStep : BOOLEAN]
FollowUpMsg  == [type : {"followUp"}, dom : Domains, clk : Clocks, seq : Seqs]
DelayRespMsg == [type : {"delayResp"}, dom : Domains, clk : Clocks, seq : Seqs]
Messages     == {m \in AnnounceMsg \cup SyncMsg \cup FollowUpMsg \cup DelayRespMsg :
                    m.type \in MsgTypes}

MutexFree == timer # "age"

Least(a, b) == IF a < b THEN a ELSE b

----------------------------------------------------------------------------
Init ==
    /\ domain \in Domains
    /\ switching = FALSE
    /\ foreign = EmptyTable
    /\ selected = None
    /\ await = NoSync
    /\ syncAge = SYNC_TIMEOUT + 1
    /\ window = <<>>
    /\ mapping = NoMapping
    /\ synced = FALSE
    /\ delayFrom = {}
    /\ early = FALSE
    /\ delaySeq = 0
    /\ asked = NoDomain
    /\ inflight = NoMsg
    /\ timer = "sleep"
    /\ tick = 0

IsSynced == synced

----------------------------------------------------------------------------
(* RunBmca on the table as just changed: the caller holds m_mutex.         *)
RunBmca_KeepsSync(table) ==
    LET best == ScanBest(table)
    IN  /\ foreign' = table
        /\ selected' = best
        /\ IF best = selected
             THEN UNCHANGED <<await, delayFrom, window, synced>>
             ELSE /\ await' = NoSync
                  /\ delayFrom' = {}
                  /\ window' = <<>>
                  /\ synced' = synced
        /\ UNCHANGED <<mapping, early>>

RunBmca(table) ==
    LET best == ScanBest(table)
    IN  /\ foreign' = table
        /\ selected' = best
        /\ IF best = selected
             THEN UNCHANGED <<await, delayFrom, window, synced>>
             ELSE /\ await' = NoSync
                  /\ delayFrom' = {}
                  /\ window' = <<>>
                  /\ synced' = (synced /\ best # None)
        /\ UNCHANGED <<mapping, early>>

(* The entry of a source after one more announce on interface net.  Only   *)
(* announces on amber, or on blue before any on amber, replace the dataset.*)
Announced(e, m) ==
    LET takes == m.net = 0 \/ e.amber = 0
    IN  [amber |-> IF m.net = 0 THEN Least(e.amber + 1, QUALIFIED) ELSE e.amber,
         blue  |-> IF m.net = 1 THEN 1 ELSE e.blue,
         ds    |-> IF takes THEN m.ds ELSE e.ds,
         dom   |-> IF takes THEN m.dom ELSE e.dom,
         age   |-> 0]

HandleAnnounce(m) ==
    /\ RunBmca([foreign EXCEPT ![m.ds.source] = Announced(@, m)])
    /\ UNCHANGED syncAge

----------------------------------------------------------------------------
(* The low-pass of AddOffsetSample starts afresh when not synchronised.    *)
Smoothed(sample) ==
    LET kept == IF synced THEN mapping ELSE NoMapping
    IN  [times |-> kept.times \cup {o[1] : o \in sample.times},
         delay |-> kept.delay \cup sample.delay]

(* Which sample is the median and whether a sample is a jump of 50 ms      *)
(* depends on the values, so both are left open.                           *)
AddOffsetSample_Early(sample) ==
    LET longer == Append(window, sample)
    IN  /\ window' = IF Len(longer) > WINDOW THEN Tail(longer) ELSE longer
        /\ mapping' = Smoothed(sample)
        /\ synced' = TRUE

AddOffsetSample(sample) ==
    \E base \in {window} \cup (IF Len(window) >= SETTLED THEN {<<>>} ELSE {}) :
        LET longer == Append(base, sample)
            samples == IF Len(longer) > WINDOW THEN Tail(longer) ELSE longer
        IN  /\ window' = samples
            /\ \/ /\ Len(samples) >= MIN_SAMPLES
                  /\ \E i \in DOMAIN samples : mapping' = Smoothed(samples[i])
                  /\ synced' = TRUE
               \/ /\ Len(samples) < MIN_SAMPLES
                  /\ UNCHANGED <<mapping, synced>>

(* t1 and t2 hold the origins of the master's transmit time and of our     *)
(* receive time; the path delay is added to their difference.              *)
CompleteMeasurement(t1, t2) ==
    AddOffsetSample([times |-> t1 \cup t2, delay |-> delayFrom])

FromSelected(m) == selected # None /\ m.clk = ClockOf[selected]

Origin(m) == {<<m.dom, m.clk>>}

(* A one-step sync overwrites the sequence number and receive time of a    *)
(* sync that still awaits its follow-up.                                   *)
HandleSync(m) ==
    /\ FromSelected(m)
    /\ syncAge' = 0
    /\ await' = IF m.twoStep \/ await # NoSync
                  THEN [seq |-> m.seq, rx |-> Origin(m)] ELSE NoSync
    /\ IF m.twoStep THEN UNCHANGED <<window, mapping, synced>>
                    ELSE CompleteMeasurement(Origin(m), Origin(m))
    /\ UNCHANGED <<masterVars, delayFrom, early>>

HandleFollowUp_AnyMaster(m) ==
    /\ await # NoSync /\ selected # None
    /\ m.seq = await.seq
    /\ await' = NoSync
    /\ CompleteMeasurement(Origin(m), await.rx)
    /\ UNCHANGED <<masterVars, delayFrom, early, syncAge>>

HandleFollowUp(m) ==
    /\ await # NoSync /\ FromSelected(m)
    /\ m.seq = await.seq
    /\ await' = NoSync
    /\ CompleteMeasurement(Origin(m), await.rx)
    /\ UNCHANGED <<masterVars, delayFrom, early, syncAge>>

(* The answering clock is not compared with the selected master, and the   *)
(* smoothed offset is subtracted whether or not it is a mapping in use.    *)
HandleDelayResp(m) ==
    /\ m.seq = delaySeq
    /\ delayFrom' = delayFrom \cup {m.dom} \cup mapping.times \cup mapping.delay
    /\ early' = (early \/ m.dom # domain \/ ~synced)
    /\ UNCHANGED <<masterVars, await, syncAge, window, mapping, synced>>

(* A handler that returns early, or a delay outside 0..100 ms (left open). *)
Ignore(m) ==
    /\ m.type # "announce"
    /\ m.type = "sync" => ~FromSelected(m)
    /\ m.type = "followUp"
         => ~(await # NoSync /\ FromSelected(m) /\ m.seq = await.seq)
    /\ UNCHANGED <<masterVars, measVars>>

----------------------------------------------------------------------------
(* RxLoop and HandleMessage up to the handler: messages of other domains,  *)
(* and on the secondary net all but announces, are dropped.  A response    *)
(* carries the domain of the request it answers.                           *)
RxAccept ==
    /\ inflight = NoMsg
    /\ \E m \in Messages :
          /\ m.dom = domain
          /\ m.type = "delayResp" => m.dom = asked
          /\ inflight' = m
    /\ UNCHANGED <<ctlVars, masterVars, measVars, delayVars, timerVars>>

(* The handler of the accepted message, under m_mutex.                     *)
RxHandle ==
    /\ inflight # NoMsg
    /\ MutexFree
    /\ \/ inflight.type = "announce" /\ HandleAnnounce(inflight)
       \/ inflight.type = "sync" /\ HandleSync(inflight)
       \/ inflight.type = "followUp" /\ HandleFollowUp(inflight)
       \/ inflight.type = "delayResp" /\ HandleDelayResp(inflight)
       \/ Ignore(inflight)
    /\ inflight' = NoMsg
    /\ UNCHANGED <<ctlVars, delayVars, timerVars>>

----------------------------------------------------------------------------
(* SetDomain stores the domain, then waits for the lock to clear.          *)
SetDomainStore ==
    /\ ~switching
    /\ \E d \in Domains \ {domain} : domain' = d
    /\ switching' = TRUE
    /\ UNCHANGED <<masterVars, measVars, delayVars, inflight, timerVars>>

SetDomainClear_KeepsSync ==
    /\ switching /\ MutexFree
    /\ foreign' = EmptyTable
    /\ selected' = None
    /\ delayFrom' = {}
    /\ window' = <<>>
    /\ early' = FALSE
    /\ switching' = FALSE
    /\ UNCHANGED <<domain, await, mapping, synced, syncAge, delayVars, inflight, timerVars>>

SetDomainClear_KeepsTable ==
    /\ switching /\ MutexFree
    /\ selected' = None
    /\ synced' = FALSE
    /\ delayFrom' = {}
    /\ window' = <<>>
    /\ early' = FALSE
    /\ switching' = FALSE
    /\ UNCHANGED <<domain, await, mapping, foreign, syncAge, delayVars, inflight, timerVars>>

(* An awaited follow-up survives, until a master is selected again, and so *)
(* does the smoothed offset.                                               *)
SetDomainClear ==
    /\ switching /\ MutexFree
    /\ foreign' = EmptyTable
    /\ selected' = None
    /\ synced' = FALSE
    /\ delayFrom' = {}
    /\ window' = <<>>
    /\ early' = FALSE
    /\ switching' = FALSE
    /\ UNCHANGED <<domain, await, mapping, syncAge, delayVars, inflight, timerVars>>

----------------------------------------------------------------------------
(* Time passes.  The timer pass reads the clock once, after taking the     *)
(* lock, so the ages it compares do not change while it holds it.          *)
Elapse ==
    /\ MutexFree
    /\ foreign' = [p \in Ports |->
           IF p \in Present(foreign)
             THEN [foreign[p] EXCEPT !.age = Least(@ + 1, ANNOUNCE_TIMEOUT + 1)]
             ELSE foreign[p]]
    /\ syncAge' = Least(syncAge + 1, SYNC_TIMEOUT + 1)
    /\ UNCHANGED <<ctlVars, selected, await, window, mapping, synced, delayFrom, early,
                   delayVars, inflight, timerVars>>

(* TimerLoop: the pass begins with the lock.                               *)
TimerWake ==
    /\ timer = "sleep"
    /\ timer' = "age"
    /\ tick' = (tick + 1) % DELAY_EVERY
    /\ UNCHANGED <<ctlVars, masterVars, measVars, delayVars, inflight>>

Stale(p) == p \in Present(foreign) /\ foreign[p].age > ANNOUNCE_TIMEOUT

(* One silent master is erased, in key order, and the election repeated.   *)
TimerErase_NotSelected ==
    /\ timer = "age"
    /\ \E p \in Ports :
          /\ Stale(p) /\ p # selected
          /\ RunBmca([foreign EXCEPT ![p] = NoEntry])
    /\ UNCHANGED <<ctlVars, syncAge, delayVars, inflight, timerVars>>

TimerErase ==
    /\ timer = "age"
    /\ \E p \in Ports :
          /\ Stale(p) /\ \A q \in 1..(p - 1) : ~Stale(q)
          /\ RunBmca([foreign EXCEPT ![p] = NoEntry])
    /\ UNCHANGED <<ctlVars, syncAge, delayVars, inflight, timerVars>>

(* No silent master is left: drop the sync state when syncs have stopped,  *)
(* decide on a delay request and release the lock.                         *)
TimerFinish_NeverDrops ==
    /\ timer = "age"
    /\ \A p \in Ports : ~Stale(p)
    /\ timer' = IF selected # None /\ tick = 0 THEN "send" ELSE "sleep"
    /\ UNCHANGED <<ctlVars, masterVars, measVars, delayVars, inflight, tick>>

TimerFinish ==
    /\ timer = "age"
    /\ \A p \in Ports : ~Stale(p)
    /\ IF IsSynced /\ syncAge > SYNC_TIMEOUT
         THEN synced' = FALSE /\ window' = <<>>
         ELSE UNCHANGED <<synced, window>>
    /\ timer' = IF selected # None /\ tick = 0 THEN "send" ELSE "sleep"
    /\ UNCHANGED <<ctlVars, masterVars, await, syncAge, mapping, delayFrom, early, delayVars,
                   inflight, tick>>

(* SendDelayReq: the lock is taken again for the sequence number.          *)
SendDelayReq ==
    /\ timer = "send"
    /\ delaySeq' = (delaySeq + 1) % SeqMod
    /\ asked' = domain
    /\ timer' = "sleep"
    /\ UNCHANGED <<ctlVars, masterVars, measVars, inflight, tick>>

----------------------------------------------------------------------------
Next ==
    \/ RxAccept \/ RxHandle
    \/ SetDomainStore \/ SetDomainClear
    \/ Elapse
    \/ TimerWake \/ TimerErase \/ TimerFinish \/ SendDelayReq

Spec == Init /\ [][Next]_vars

(* The timer thread runs for ever and time passes.  Nothing is assumed of  *)
(* the network or of the control thread.                                   *)
Fairness ==
    /\ WF_vars(Elapse)
    /\ WF_vars(TimerWake \/ TimerErase \/ TimerFinish \/ SendDelayReq)

FairSpec == Spec /\ Fairness

----------------------------------------------------------------------------
TypeOK ==
    /\ domain \in Domains
    /\ switching \in BOOLEAN
    /\ foreign \in [Ports -> Entry]
    /\ selected \in Ports \cup {None}
    /\ await \in [seq : Seqs, rx : SUBSET Origins]
    /\ delaySeq \in Seqs
    /\ syncAge \in 0..(SYNC_TIMEOUT + 1)
    /\ window \in Seq(Sample) /\ Len(window) <= WINDOW
    /\ mapping \in Mapping /\ delayFrom \subseteq Domains
    /\ synced \in BOOLEAN /\ early \in BOOLEAN
    /\ asked \in Domains \cup {NoDomain}
    /\ inflight \in Messages \cup {NoMsg}
    /\ timer \in {"sleep", "age", "send"}
    /\ tick \in 0..(DELAY_EVERY - 1)

(* The selected master is always the outcome of the scan of the table as   *)
(* it stands: no announce, ageing step or domain change leaves a selection *)
(* behind that the table no longer supports (RunBmca and its callers).     *)
SelectionCurrent == selected = ScanBest(foreign)

(* IsSynced is only true while a master is selected, so no consumer of the *)
(* media clock runs on a clock that no longer exists on the domain.        *)
SyncedHasMaster == IsSynced => selected # None

(* Whatever the interleaving of a domain change with the receive thread, a *)
(* sample in the offset window pairs a transmit time and a receive time of *)
(* one clock, the selected master's, and outside SetDomain of the current  *)
(* domain.  The path delay added to it (ptpclient.cpp:413) is of that      *)
(* domain too, if no delay response was applied too early: before the      *)
(* session had a mapping, or in answer to a request of the old domain.     *)
WindowFromSelected ==
    \A i \in DOMAIN window :
        /\ selected # None
        /\ window[i].times # {} /\ \A o \in window[i].times : o[2] = ClockOf[selected]
        /\ ~switching => window[i].times = {<<domain, ClockOf[selected]>>}
        /\ ~switching /\ ~early => window[i].delay \subseteq {domain}

(* Once a domain change is complete, a mapping in use is derived from      *)
(* times of the new domain alone, although the smoothed offset itself      *)
(* survives the change; so are the path delays in it, unless a delay       *)
(* response was applied too early (ptpclient.cpp:484).                     *)
MappingFromDomain ==
    ~switching /\ synced =>
        /\ mapping.times \subseteq {domain}
        /\ ~early => mapping.delay \subseteq {domain}

(* An announce of the old domain that passed the domain test before the    *)
(* change may still enter the cleared table, but it cannot get its sender  *)
(* selected: the dataset of a selected master is of the current domain.    *)
SelectedFromDomain ==
    selected # None /\ ~switching => foreign[selected].dom = domain

(* A selected master beats every other qualified one if the table          *)
(* describes each grandmaster consistently.                                *)
SelectedIsBest ==
    selected # None /\ Consistent(foreign) =>
        \A p \in Qualified(foreign) \ {selected} :
            CompareDatasets(foreign[selected].ds, foreign[p].ds) < 0

(* A master that falls silent leaves the table (or speaks again).          *)
SilentMasterForgotten == \A p \in Ports : Stale(p) ~> ~Stale(p)

(* When syncs stop, the client stops claiming to be synchronised (or a new *)
(* sync has arrived).                                                      *)
SilenceDropsSync == (IsSynced /\ syncAge > SYNC_TIMEOUT) ~> (~IsSynced \/ syncAge = 0)

(* The client as its users see it: the implementation of MediaClock.       *)
Clock == INSTANCE MediaClock WITH
    Masters <- Ports, NoMaster <- None, Changing <- NoDomain,
    MinSamples <- MIN_SAMPLES, MaxSamples <- WINDOW,
    master <- selected, samples <- Len(window), synced <- IsSynced,
    domain <- IF switching THEN NoDomain ELSE domain

(* Whatever the three threads and the network do, the users of the clock   *)
(* see it behave as MediaClock says: synchronisation is earned again after *)
(* every loss, and never survives the last master or a domain change.      *)
ImplementsMediaClock == Clock!Spec

(* ptpclient.h:35 "restarts the session state": when SetDomain is done the *)
(* path delay in use is of the new domain.                                 *)
SessionRestarted ==
    ~switching => delayFrom \subseteq {domain}
============================================================================
