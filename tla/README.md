# Verification of pi-audio-node

TLA+ models of the concurrent core of pi-audio-node (`src/src/`), the TLC runs
that check them and the theorems that TLAPS proves about them. Source paths
below are relative to `src/src/`.

## 1. The system

pi-audio-node is a daemon that makes a small computer an ST 2110-30 / AES67
audio endpoint: it follows a PTP clock, receives and sends redundant RTP
streams and is controlled over NMOS (IS-04, IS-05, IS-12) and a web page.

| Part | State it keeps | Operations | Threads |
| --- | --- | --- | --- |
| PTP client (`ptp/`) | table of foreign masters, selected master, awaited follow-up, offset window, mapping, path delay, domain | announce, sync, follow-up, delay request/response, ageing, SetDomain | receive, timer, caller of SetDomain |
| RTP receiver (`rtp/rtpreceiver.*`) | jitter buffer indexed by sequence number, first packet, playout position, counters per leg | HandlePacket, PlayoutLoop, Stop, Configure | receive, playout, control |
| RTP sender (`rtp/rtpsender.*`) | sockets, source, grid of deadlines | SendLoop, Stop, Configure, SetLegEnabled | sending, control |
| IS-04 node (`nmos/node.*`) | versions, registry in use | RegistrationLoop, RegisterAll, BumpVersion | registration, callers of BumpVersion |
| IS-05 (`nmos/connection.*`) | staged and active parameters of sender and receiver | PATCH, activation, callbacks to main | server pool (one mutex) |
| IS-12 (`nmos/is12.*`) | status domains with their pending states, counters, subscriptions | commands, subscriptions, notifications, feed of main | connection threads, main |
| main (`main.cpp`) | base values of the status feed | ApplySender, actions of the web page, feed | main, server pools |
| Web server (`web/`) | set of websocket clients | POST config, GET status, actions, push of meters and status, Stop | server pool (6), push, main |
| Configuration (`config.*`) | JSON document and its file | Load, GetValue, SetValue, Update, Save | every caller |
| SDP (`rtp/sdp.*`) | | GenerateSdp, ParseSdp | caller |
| Discovery (`nmos/dnssd.*`) | | DiscoverRegistries | registration |
| Sources, ALSA, logging | | conversions and I/O | |

How they interact: IS-05 and the web page change the configuration and call
`ApplySender` or the receiver callback in main, which stop and configure sender
and receiver; a request that gets that far ends in `BumpVersion`, which the
registration thread polls. Some resources change without it: the label of the
device, the clock state in the node, the host addresses. The sender and the
receiver read the PTP client through atomics. The feed in main polls all of them
once a second and updates IS-12. The status that the web server pushes holds the
IS-12 monitors, so building it waits for the lock of the IS-12 server. A
controller hands the SDP that a sender describes to a receiver; the registration
thread tries the registries that discovery returns, in its order.

The hard part is that almost every pair of these threads shares state with no
lock or with a lock released half way: a message tested against the domain before
the lock, a flag published before the number it announces, IsSynced and
PtpTimeNs read one after the other, a version noted after the request it stands
for, a thread handle without a mutex. `PROJECT.json` lists these hazards at their
lines, each with the properties that would catch it.

What makes each part correct:

- PTP: the selection is always the outcome of the election over the table; the
  two times of a sample are of the selected master, and the selection and the
  times behind the mapping are of one domain. The path delay in them is too,
  except after a delay response that came too early in a session (`early`).
- Receiver: playout reads the packet that is due and never a slot that is being
  written; losses are counted once.
- Sender: time stamps increase, it sends whenever PTP is there, Stop returns.
- Media clock: synchronisation is earned from one master alone and lost with
  the last one; that is all the sender and the receiver build on.
- IS-04: at rest the registry holds the resources as they were at the last
  `BumpVersion` or newer, unless that call fell into a RegisterAll; the registry
  that is joined is the best one of a current list that can be reached.
- IS-05: sender and receiver follow the configuration and `/active`; the
  receiver joins what the transport file describes.
- Configuration: what was saved survives the end of the process (not of the
  power: Save does not wait for the disk).
- Web server: browsers that read are shown every lasting state, those that do
  not read keep nobody else from it, and the server stops.
- IS-12: the overall status is the worst one, short disturbances stay hidden,
  lasting ones are shown, subscribers are up to date.

## 2. Modules

| Module | Models |
| --- | --- |
| `Bmca` | `ptp/bmca.cpp` CompareDatasets and the scan of RunBmca, as operators |
| `PtpClient`, `MCPtpClient` | `ptp/ptpclient.cpp`: three threads around m_mutex |
| `MediaClock` | what the users of the PTP client see of it: master, domain, number of samples, IsSynced. Abstract; `PtpClient` implements it |
| `OffsetFilter` | AddOffsetSample with its arithmetic |
| `RtpReceiver` | HandlePacket and PlayoutLoop, one step per shared access |
| `LegCounter` | loss counter of a leg: HandlePacket, Stop/Configure, feed of main, IS-12 counter |
| `RtpSender` | SendLoop against a PTP clock that steps, jumps and is lost |
| `ConfigStore` | Config: settings in memory and in the file, one step per lock |
| `SenderControl`, `MCSenderControl` | web POST, IS-05 PATCH, ApplySender, Stop/Configure, sending thread, restart of the process |
| `Sdp` | GenerateSdp and ParseSdp as operators over documents of abstract lines |
| `ReceiverConnection`, `MCReceiverConnection` | IS-05 receiver, web actions, callback of main, and the way of an SDP from a sender to the receiver |
| `Is12Monitor` | both status monitors and their feed |
| `Is12Session` | IS-12 websocket sessions |
| `WebServer` | websockets, push loop, GET of the status and Stop, composed with the IS-12 server |
| `Discovery` | DiscoverRegistries as an operator on the answers of DNS |
| `Registration`, `MCRegistration` | registration thread against failing registries and a changing DNS |
| `RtpSequence` | sequence numbers of a stream, shared by `RtpReceiver` and `LegCounter` |
| `*Proofs` | theorems about the module of that name; `PtpClientProofs` is about `Bmca` as well, `RtpReceiverProofs` about `LegCounter`, and `Is12Proofs` about `Is12Session`, `WebServer` and `Is12Monitor` |

`PtpClient` extends `Bmca` and maps its state to `MediaClock`. `SenderControl`
is built on `ConfigStore`, `ReceiverConnection` on `Sdp`, `Registration` on
`Discovery`; `WebServer` extends `Is12Session`, whose steps are the only ones it
takes on that state (theorem `WebKeepsSessions`). `LegCounter`, `SenderControl`
and `ReceiverConnection` each compose the parts of several source files that one
operation runs through. `MC` modules give constants their values where a
configuration file cannot. `LegCounter` and `Is12Monitor` name their
specifications `LegSpec` and `MonitorSpec`, so that one module of proofs can
extend them together with another component.

How state and actions correspond to the code:

- A step is what runs under one lock, or one atomic access where there is none.
  In `PtpClient` a message is `inflight` between the domain test and its
  handler; the ageing loop is a step per erased master because `RunBmca` runs
  after each. In `RtpReceiver` `RxFirst` and `RxFirstSeq` are the two stores
  that end HandlePacket. In `RtpSender` each read of the PTP state is a step.
  In `SenderControl` Stop and Configure are split where another request can
  come between, and what `ApplySender` or `join` throws ends the request there;
  in `Registration` each POST of RegisterAll is a step. In
  `ConfigStore` a change and the Save that follows it are separate, and Save is
  two steps: opening the file, which empties it, and writing it. In
  `Is12Session` a notification to each subscriber is a step under the lock, in
  `WebServer` the copy of the clients, the building of the message and each
  write are steps.
- Values are abstracted to what the properties tell apart. A measured time in
  `PtpClient` is its origin, a set of `<<domain, clock>>`: a sample that pairs
  times of two clocks has two origins. A path delay is the set of domains it was
  measured in, with those of the smoothed offset it was corrected by, and each
  sample and the mapping remember the delays that went into them. A resource,
  and an IS-12 property, is its revision. A document in `Sdp` is a sequence of
  lines, a line its kind and the value it carries; a stream in
  `ReceiverConnection` is the whole session that was parsed. The settings of
  `SenderControl` are four (enabled, an address, the port, the switch of a leg),
  and the port may be of a type that `ApplySender` cannot convert. A distance in
  time in `RtpSender` is counted in units and saturates beyond everything it is
  compared with.
- Sequence numbers wrap: `SeqMod` stands for 2^16. `LegCounter` computes the
  signed 16-bit difference as the code does.
- A datagram may be lost, repeated and reordered where the code must cope with
  it; the registry may be unreachable, forget, or lose an answer; DNS may answer
  something else; a client may not read what is written to it, and the write
  then ends with the timeout of the transport; the process may end between any
  two steps of a request and starts again from its file.
- History variables (`raced`, `strayed`, `zeroed`, `behind`, `total`,
  `played`, `refused`, `dirty`, `crossed`, `early`, `due`, ...) are only written by
  the actions and read by properties.
- Definitions named `X_Something` next to a definition `X` are plausible wrong
  versions of it. They are not used by any specification; putting one in place
  of `X` must break the property it is listed with in `PROJECT.json`.

## 3. Runs

| Run | Checks |
| --- | --- |
| `ptp_domains` | SetDomain against messages in flight, path delays and the timer: `SelectionCurrent`, `SelectedFromDomain`, `WindowFromSelected`, `MappingFromDomain`, and the refinement `ImplementsMediaClock` |
| `ptp_election` | two paths to one grandmaster on two nets, silence, a window of more than one sample: `SelectedIsBest`, `ImplementsMediaClock`, `SilentMasterForgotten`, `SilenceDropsSync` |
| `offset_filter` | `MappingInRange`, `OutliersIgnored`, `MappingRecovers` |
| `rtp_merge` | `NoSlotRace`, `PlaysPacketDue`, `PlaysInOrder` over losses, turns of buffer and sequence number, parking |
| `leg_counter` | `LossExact`, `LossNotMissed`, `NoLossReportedTwice` |
| `rtp_sender` | `TimestampsIncrease`, `StopReturns`, `KeepsSending` |
| `is12_delay` | both monitors: `OverallIsWorst`, `PathAndSyncPersisted`, `LastingStateReported` |
| `websockets` | IS-12 sessions beside the web server, with clients that do not read: `ClosedNotWritten`, `SubscriberCurrent`, `StaleForOneRound`, `StatusShown`, `StopEnds` |
| `registration` | `RegistryCurrent`, `JoinsPreferred`, `EventuallyRegistered` |
| `sender_control` | two requests at a time, settings that cannot be converted, updates that throw, Saves that fail, a sending thread that sleeps for good, restarts at any step: `SenderFollowsConfig`, `ChangesBumped`, `WaitsEnd`, `RestartKeepsSettings` |
| `receiver_connection` | `ReceiverFollowsActive`, `SubscriptionBumped`, `ReceivesDescribed` |
| `registration_push` | expected to be violated: `ChangesPushed`, the comment at `nmos/node.cpp:459` taken at its word |

### Where the code departs from its comments

Several properties have a proviso. Each proviso names a behaviour of the code
that the repository's own comments rule out. The comment is stated as a
property of its own next to the weaker one, and TLC refutes it with the
configuration named here (`tlc -config X.cfg Module`). `registration_push` is a
run of the project; the others are kept to be repeated when the code changes.

| Configuration, module | Property, comment | What the counterexample shows |
| --- | --- | --- |
| `RegistrationPush`, `MCRegistration` | `ChangesPushed`, `nmos/node.cpp:459` "push is-05/config changes to the registry right away" | a change and its BumpVersion after a resource was posted and before `m_nRegisteredVersion = m_nVersion` is noted as pushed (`raced`) |
| `RegistrationQuiet`, `MCRegistration` | `ChangesRegistered`, `nmos/node.h:58` "resource change -> re-register" | a resource changes and no BumpVersion follows: the callback for `device.label` (`main.cpp:401`) has none, nor has a change of the PTP clock in `BuildSelf` |
| `PtpSession`, `MCPtpClient` | `SessionRestarted`, `ptp/ptpclient.h:35` "restarts the session state" | a delay response of the old domain is between the domain test and its handler while SetDomain clears the session, and sets the path delay afterwards (`early`; the same comes of a response before the new session has a mapping, which is corrected by the old smoothed offset, `ptp/ptpclient.cpp:484`) |
| `OffsetJump`, `OffsetFilter` | `JumpRestartsMapping`, `ptp/ptpclient.cpp:423` "50ms jump - restart mapping" | only the window is emptied; the mapping is slewed from its old value |
| `RtpAnchor`, `RtpReceiver` | `ReanchorsOnNextPacket`, `rtp/rtpreceiver.cpp:348` "park and re-anchor on the next packet" | `m_bHaveFirst` is set before `m_nFirstSeq`; playout that sees the flag in between anchors on the old number (`strayed`) |
| `RtpCopy`, `RtpReceiver` | `CopyDropped`, `rtp/rtpreceiver.h:22` "first arrival wins, the copy is dropped" | playout clears the slot it has played, so the copy of the slower leg is stored again (`PlaysPacketDue` and `PlaysInOrder` show that it is not played) |
| `RtpSenderZero`, `RtpSender` | `SendsWhenSynced`, `rtp/rtpsender.cpp:157` "(re)anchor whenever ptp is not usable" | sync is lost between IsSynced and PtpTimeNs, which returns 0 twice; the wake-up time wraps below zero and the thread sleeps for good (`zeroed`), also when Stop joins it |
| `Is12Stale`, `Is12Monitor` | `AllPersisted`, `nmos/is12.cpp:346` "only reported once it has persisted for the delay" | link and stream keep an old pending time while the feed leaves them alone, and the next transient is reported at once |
| `SenderRequests`, `MCSenderControl` | `SocketsStable`, `rtp/rtpsender.cpp:182` "source and sockets only change while the thread is stopped" | two requests at a time find no thread to join; one configures the sender and starts it, and the Stop of the other closes the sockets under the running thread |
| `SenderStaged`, `MCSenderControl` | `OnlyStagedOverrides`, `nmos/connection.cpp:218` "apply staged destination overrides" | with a client that stages only `master_enable`, an activation writes the default port 5004 and the default `rtp_enabled` of the staged legs over the settings of the web page |
| `ReceiverSubscription`, `MCReceiverConnection` | `SubscriptionIsReceived`, `nmos/connection.h:28` "active subscription for IS-04" | a patch with a transport file and no sender_id keeps the sender_id of the connection before |

Some behaviour is worth knowing though no comment rules it out. In the middle of
Save the file is empty, and a process that ends there comes up with the defaults
(the proviso of `RestartKeepsSettings`); so does one whose write failed on a full
disk. A setting that `ApplySender` cannot convert (the page posts null for an
empty port) is saved all the same: the request fails, the sender stays as it was,
nothing is announced, and the next start of the process ends in the same
exception, which nobody catches (`Unusable`, `Restart`). Two requests that stop
the sender at once may join the same thread, which throws (`StopJoin`), or
assign a thread over a running one, which ends the process (`ConfigureSpawn`);
`SenderFollowsConfig` holds again when a later request has had the sender to
itself (`crossed`). An update that throws half way stays in
memory, unsaved and unapplied, until the next one (`unsaved`, `partial`).
Another master takes over without a loss of synchronisation, so for a few
measurements the mapping is that of the old one (`Elect` of `MediaClock`).
`DescribeSession` never sets the PTP domain, so `ts-refclk` names domain 0
whatever is configured; the round trip in `ReceivesDescribed` is therefore over
sessions of domain 0. In a document with a stream that is not audio, the `c=`
and `mid` lines of that stream are taken for the audio stream before it
(`ParseLine`); the documents of `MCReceiverConnection` have no such stream.
A slot of the jitter buffer is marked with the 16-bit sequence number. A late
copy that is stored again stays in its slot until another packet overwrites it;
if none does for a whole turn of the numbers (an outage of 65536 packets while
playout conceals), it counts as the packet that is due. The third guard of
`Send` in `RtpReceiver` leaves this out, and without it TLC refutes
`PlaysPacketDue`; the attempt to prove that property for any number of turns
showed the case.

### Bounds

- PTP: two ports and two domains are enough for a change of master and of
  domain; `ScanBestWins` covers longer tables. Window sizes (4, 8, 16) are
  scaled to 1 in `ptp_domains`, where path delays multiply the states, and to 2
  in `ptp_election`, which has no delay responses and checks the refinement
  again: synchronisation takes enough samples of one master. Timeouts are scaled
  to the shortest silence that can be told from none. `SeqMod` is 1 in these
  runs, the worst case: every sequence number matches.
- `OffsetFilter`: three offsets, two gaps beyond the jump limit; window 2/3/5.
- `RtpReceiver`: two slots and four sequence numbers, the first in the middle of
  the range, and six packets: the buffer turns three times, the numbers wrap and
  come round. `MaxLead` is the buffer size, i.e. a playout delay that fits the
  buffer (the code does not enforce it, see hazards). `MaxRun` bounds how far
  playout conceals beyond what was sent; lead and run together are less than a
  turn of the numbers (`ReceiverAssumption`; in the code about 1024 slots of
  65536 numbers).
- `LegCounter`: range 6, seven packets that may each arrive any number of times,
  two sessions: a wrap in each. `MaxLost` ends a session in which late packets
  are counted again and again.
- `RtpSender`: a packet is four units, a jump limit of eight, three changes of
  the clock, stalls of up to one packet. The clock goes back by less than the
  20 ms between anchor and first deadline (`StepBack`, a correction of the
  servo) or by more than the limit (`JumpBack`).
- `Registration`: two registries, two resources, one change each, two faults of
  any kind at any time: losses of requests, answers or of a database, changes of
  DNS and of the override. DNS answers with both registries in the wrong order,
  with a missing priority, or nothing. A discovery serves for two turns instead
  of five.
- `SenderControl`: any number of requests, two at a time, failures and restarts;
  two ports and one that cannot be converted. The page switches the leg, stops
  the sender with a switch in one update and sets a bad port; IS-05 starts it
  with another port than the first; the theorems have any updates.
  One update that throws until the next ApplySender and Save.
- `ReceiverConnection`: any number of requests; two senders, one with both legs
  and one with one, and three documents of other equipment: one address for the
  session; a group that names two of three streams in the other order; no audio.
- `WebServer`: one IS-12 client and one of two browsers do not read; a full
  status on every second tick instead of every fifth. `MaxChanges` bounds only
  revisions.

Deadlock is checked except where a bound ends the run (the packets of
`RtpReceiver` and `LegCounter`) or the thread itself ends on Stop (`RtpSender`,
`Registration`). In `SenderControl` a process that has ended is started again.

### Fairness

Only threads that run on their own are fair: the timer thread and time itself
(`PtpClient`), the sending thread and time (`RtpSender`), the feed
(`Is12Monitor`), the registration thread (`Registration`), a request that has
begun (`SenderControl`), and measurements of a synchronised client
(`OffsetFilter`; if syncs stop, sync is lost). In `WebServer` the push loop, the
end of Stop, requests and writes are fair: the transport ends a write that the
client does not read after its timeout. Weak fairness is enough where nothing
waits for a condition that can come and go; a request of `SenderControl` waits
for the lock of the configuration, which others take in turn, and a mutex that
is released again and again is granted in the end (strong fairness). The sending
thread of `SenderControl` ends once it is told to, unless it sleeps for good,
which `SendLoopSticks` lets it do whenever it should end, as `RtpSenderZero`
shows it can. With these assumptions (`FairSpec`) `RequestsServed` holds: every
request ends, or joins a thread that sleeps for good or that another request has
started. Its instance is `SenderServed.cfg`, module `MCSenderControl`, kept
beside the runs; what it rests on is the invariant `WaitsEnd` of the run.
Nothing is assumed of the network, of clients or of registries, except that
`EventuallyRegistered` speaks of registries that stay reachable from some time
on.

## 4. Theorems

| Theorem | States |
| --- | --- |
| `PtpClientProofs` `CompareTransitive`, `ScanBestWins` | over consistent datasets the comparison is transitive; the scan finds the one that beats all others |
| `PtpClientProofs` `TypeCorrect`, `SelectionStaysCurrent`, `SyncNeedsMaster`, `WindowIsOwn`, `MappingIsOwn`, `SelectionIsOwn`, `SelectionIsBest` | the invariants of the PTP runs, for all constants |
| `PtpClientProofs` `ClockImplemented` | `ImplementsMediaClock`: the client implements the media clock |
| `OffsetFilterProofs` `MappingStaysInRange`, `OutliersStayIgnored` | `MappingInRange`, `OutliersIgnored`, for any window sizes and offsets |
| `RtpReceiverProofs` `SlotsNeverRace`, `DuePacketPlayed`, `PacketsPlayedInOrder` | `NoSlotRace`, `PlaysPacketDue`, `PlaysInOrder`, for any buffer size, range of numbers and number of packets |
| `RtpReceiverProofs` `LossCountedExactly`, `LossNeverMissed`, `ReportedOnce` | `LossExact`, `LossNotMissed`, `NoLossReportedTwice` |
| `RtpSenderProofs` `TimestampsAlwaysIncrease` | `TimestampsIncrease` |
| `SenderControlProofs` `RequestsFollowConfig`, `RequestsBump`, `RequestsWait`, `SettingsSurvive` | `SenderFollowsConfig`, `ChangesBumped`, `WaitsEnd`, `RestartKeepsSettings`, for any number of requests at the same time |
| `RegistrationProofs` `TypeCorrect`, `HeartbeatHasAddress`, `RegistryStaysCurrent`, `PreferredJoined` | type correctness, `RegisteredSomewhere`, `RegistryCurrent`, `JoinsPreferred` |
| `ReceiverConnectionProofs` `ReceiverFollows`, `SubscriptionAnnounced` | `ReceiverFollowsActive`, `SubscriptionBumped` |
| `ReceiverConnectionProofs` `DescribedIsReceived` | `ReceivesDescribed`, if each file by itself parses to what it describes |
| `Is12Proofs` `SubscribersStayCurrent`, `ClosedConnections` | `SubscriberCurrent`, `ClosedNotWritten` |
| `Is12Proofs` `PushStaleForOneRound`, `WebKeepsSessions` | `StaleForOneRound`; the composition with the web server implements the IS-12 server by itself |
| `Is12Proofs` `WorseOnlyWhenPersisted`, `OverallStaysWorst` | `PathAndSyncPersisted`, `OverallIsWorst` |

The assumptions are the named `ASSUME`s of the modules: constants are naturals,
ports are ordered by clock, window sizes are ordered, and the like. Two say
something about the code. `SenderAssumption` has 1 < AHEAD < LIMIT: the first
deadline after anchoring is 20 ms ahead, more than the time for which the thread
spins and less than the 2 s that count as a jump. `ReceiverAssumption` has
`MaxLead` at most the number of slots and `MaxLead + MaxRun` less than the range
of sequence numbers.

Arguments:

- `PtpClient`. The properties are not inductive one by one. The invariant adds
  where the parts of a sample can come from: the awaited sync is of the
  selected clock and, outside SetDomain, of the current domain; a qualified
  entry of the table is of the current domain, while an unqualified one may be
  a leftover of the old one (`SelectedFromDomain` holds because a leftover is
  counted once and two announces are needed); an entry names its own port; and
  in a session with no early delay response the path delay, once there is one,
  and the mapping in use are of the current domain. The
  election part rests on `ScanBestWins`, whose loop invariant is stated over
  the prefix of the table.
- `MediaClock`. Every handler, the timer and both halves of SetDomain are mapped
  to one step of the abstract clock or to none. The type invariant is needed for
  the number of samples (a window is never longer than its limit), and
  `SelectionCurrent` for the timer, which elects after each erased master.
- `OffsetFilter`. Every sample of the window lies in the range of the offsets
  measured, a median is one of the samples, and the low-pass ends between the
  old mapping and the median; so the mapping stays in the range. That an outlier
  is ignored rests on a lemma about the median: what the majority of a window
  agrees on is its median (`MajorityIsMedian`). That a window has a median at all
  needs the existence of a greatest element, by well-founded induction
  (`GreatestNumber`) instead of an induction over the window.
- `RtpSender`. A packet is not sent more than the spin before its deadline
  (`SentWhenDue`), so a deadline that is anchored anew, 20 ms ahead, is after
  the last time stamp; and the deadline of the grid is after it too, or so long
  ago that the grid is anchored again (`GridAhead`). Both hold as long as no
  grid was anchored on a time of 0 (`zeroed`).
- `RtpReceiver`. Every packet known to a thread was sent (`KnownSent`), and the
  sender is at most the buffer ahead of each (`WithinLead`). A slot that is
  not empty holds a stored packet of the last turn, the one whose number it has
  (`SlotsHold`), the receive thread only writes a slot that does not have its
  packet (`StoresNew`), and playout is at the number of the packet that is due
  and reads only a slot that has it (`OnPosition`). Two lemmas carry
  the modular arithmetic: packets less than a turn apart with the same number,
  or less than the buffer apart with the same slot, are the same packet. For
  `PlaysInOrder` the invariant adds where the packet played last stands: before
  the one expected, before the one playout will begin with, and while it parks
  before all that are to come (`InOrder`). That a pause leaves nothing of the
  past on the way is needed here (`Quiet`); if the stream counted as stopped
  while one leg still delivers, playout would begin with an old packet.
- `LegCounter`, losses. The number a leg remembers is that of the last packet
  that arrived (`LegMemory`), and the signed difference of two numbers is the
  distance of the packets while that is less than half the range (`DiffExact`).
  In order, a packet adds to the counter the gap before it, and the missing
  packets grow by the same number (`GapsGrow`); out of order it adds no less.
- `LegCounter`, reports. The base the feed keeps is at most what was reported of this
  session or belongs to an earlier one; the invariant relates counter, base and
  total in both cases.
- `SenderControl`. `RequestsBump` rests on who still has to announce: when a
  start or stop is not announced, some request joins the thread or is past the
  join, or will join a thread that is joinable; a join throws only when another
  request has joined or is joining, and then that one announces (`Announcer`).
  `RequestsFollowConfig` is about a request that is alone (`Solo`): while
  `crossed` is FALSE one thread at most is being served, so where it stands says
  what has been applied of the settings (`Progress`): all of them at the end,
  all but the leg switch while a toggle is on its way, none that have been read
  but not yet started; and between requests nothing is left to apply (`Quiet`).
  A request that begins beside another sets `crossed`, and the next ApplySender
  that is alone establishes the invariant anew, whatever the state of the
  sender. `SettingsSurvive`: outside of Save the file holds what is in memory,
  or a thread is on its way to Save, or the change is marked unsaved.
  `RequestsWait` adds that a lock has a holder that is being served; Save must
  not be the last step of a request for that (`LockInv`).
- `Registration`. While RegisterAll runs, its job says whether the node was
  registered and where; a join has no address yet, a push and a re-registration
  keep theirs (`CallerKnown`). For `RegistryCurrent`: what RegisterAll has posted
  is there as long as the node is (`PostedKept`), a push is for a version not
  yet noted (`PushIsNew`), so a push that fails half way leaves something to
  push, and a node that rests has all that the last BumpVersion announced
  (`RestComplete`). For
  `JoinsPreferred`: a list that is not stale is one that discovery returns for
  the present answers (`FreshList`), and every entry that a join has passed over
  cannot be reached (`PassedOver`).
- `ReceiverConnection`. From the callback to the end of a request the receiver
  is where the active parameters want it; a refused request never gets there.
  What a document parses to is left unexpanded; `DescribedIsReceived` reduces
  `ReceivesDescribed` to its hypothesis about each document, which the run
  evaluates for the documents of `MCReceiverConnection`.
- `WebServer`. The set of clients is exactly the websockets (`PushInv`), so the
  copy of a round can only be out of date by what was closed during the round.
- `Is12Session`. An answer that waits may be older than what was announced; then
  the client was notified in between and the answer is marked as overtaken.
- `Is12Monitor`. The pending state of an updated domain is the one the feed found
  last, and has not been pending for longer than it lasted. This fails
  for link and stream, which the feed may leave alone (`Is12Stale.cfg`).

Only model-checked: all liveness properties (TLAPS 1.4.5 proves neither fairness
nor ENABLED: `MappingRecovers`, `SilentMasterForgotten`, `SilenceDropsSync`,
`StopReturns`, `KeepsSending`, `LastingStateReported`, `StatusShown`,
`StopEnds`, `EventuallyRegistered`, `RequestsServed`), and what the parser makes
of a document (a fold over its lines: the hypothesis of `DescribedIsReceived`).

## 5. Not modelled

- The words of an SDP line, JSON and DNS packets: parsing by `sscanf` and by
  libraries. `Sdp` and `Discovery` begin where a value has been read.
- Sample formats, sources, meters and ALSA: sequential, floating point or device
  I/O. The fill level of ALSA appears as a counter in `RtpReceiver`. The time at
  which the first packet is played (PTP alignment, a single sleep).
- The read-only Node API, the static pages, the audio files and the query of the
  registry for the web page (`nmos-senders`, which pages through the senders):
  they change no state of the node.
- The network actions of the web page: shell commands on the system.
- The joins in the Stop of the receiver, whose two threads both test `m_bRun`,
  and the interface of a leg, which goes by the number of the leg and not by the
  document: `ReceiverConnection` has one step for the callback.
- A `master_enable` that is not a boolean, which makes an activation throw before
  anything is changed; steps of the clock back by 20 ms to 2 s in `RtpSender`.
- The limit of six workers in the web server and the buffers of sockets: a write
  either completes or times out.
- Logging and the browser code.

## 6. Plan

1. An abstract specification of registration (a register that is eventually
   current) that `Registration` implements. For the receiver `PlaysInOrder` and
   `PlaysPacketDue` together say what an abstract player would: packets in
   order, with gaps.
2. A composition of `SenderControl` or `ReceiverConnection` with `Registration`:
   from a PATCH to the revision the registry holds. The composition takes the
   place of the runs of its parts where it checks the same properties.
3. `RtpSender` on `MediaClock` instead of its own clock of sync and loss.
