# HiNA-DCN: a TLA+ verification development

HiNA is a data-centre network model for the OMNeT++ simulator. The repository
is a copy of the INET framework (`src/*`) with HiNA's own logic in `src/HiNA`:
priority queues with a shared switch buffer, ECN and PFC; weighted and priority
schedulers; a MAC that speaks PAUSE and PFC; backpressure variants of the same
chain (BFC, BCN); and ten congestion-control modules between UDP and IP. INET
is vendored: it is modelled only where HiNA's code runs inside it.

The program is one simulator thread. What makes it concurrent is its events:
packets, timers, signals and lifecycle operations of many modules, in every order
that arrival times allow. One handler, with every call that it nests, is one
atomic step; the order of handlers is what the models leave open.

## 1. Inventory

| Component (`src/HiNA/...`) | State | Operations | Model |
|---|---|---|---|
| `Ethernet/HiQueue/REDPFCQueue` | packet queue, `sharedBuffer[switchid]` (static, one per switch), `paused` interfaces, `markNext` | `handleMessage`, `BufferManagement`, `pushPacket`, `pullPacket`, RED; `removePacket`, `removeAllPackets` | `REDPFCQueue` |
| `HiScheduler/HiPriorityScheduler` | `ispaused` per priority | `schedulePacket`, `canPullSomePacket`, `processpfcframe` | `PfcLink`, `HiQueue` |
| `HiScheduler/WrrScheduler` | `buckets` | `schedulePacket`, `pullPacket` | `WrrScheduler`, `HiQueue` |
| `HiEthernetMac`, `SwitchMacQueue` | transmit state, frame, signal, three timers, stored pause, lifecycle | frames in and out, PAUSE, PFC command and frame, TIMELY acknowledgement, stop, crash, start | `HiEthernetMac`, `PfcLink` |
| `CC/DCQCN` | flow map, iterator, sender state, timers, rates | application packet, `senddata`, rate and alpha timers, CNP | `DCQCN` |
| `HiQueue/RateLimitQueue` | queue, `lasttime`, `canpull` timer | push with drops, pull, `canPullSomePacket`, timer | `HiQueue` |
| `HiQueue/HiClassifier` | none | gate of a packet | `HiQueue` |
| `HiQueue/BFCQueue/*`, `BFCMac` | queue of each flow, paused flows and sources, pause counters, upstream queues | classify, push, pull, pause, resume | `BFC` |
| `HiEthernetEncap` | sockets, `flow_upstreamQueue` | encapsulate, decapsulate | the upstream queue, in `BFC` |
| `CC/XPASS` | flows of the sender, credits, states and timers of both ends | requests, credits, data, stops, feedback | `XPASS` |
| `HiQueue/ABMQueue`, `PCNQueue` | as `REDPFCQueue`, and a count of congested queues, or `PN` | admission, or marking | not modelled |
| `HiQueue/BCNQueue/*`, `BCNMac` | as BFC, and tokens | as BFC | not modelled |
| `App/HiUdpApp`, `App/TcpApp` | workload, script index, pieces of a message | send, receive, timers | not modelled |
| `CC/HOMA` | grants, flow maps of both ends | requests, grants, data, resends | not modelled |
| `CC/TIMELY, SWIFT, HPCC, POSEIDON, PCN, BFC, BCN` | flow map, iterator, rates | as DCQCN's sender, other rate laws | not modelled |
| `HiHost`, `HiSwitch`, `Messages` | - | NED composition, generated code | not modelled |

How they interact:

* A packet of the switch goes classifier -> `REDPFCQueue` of its priority ->
  `HiPriorityScheduler` -> `WrrScheduler` -> `SwitchMacQueue` -> `HiEthernetMac`.
  The chain is *pulled*: a push calls `handleCanPullPacketChanged` towards the
  MAC, and an idle MAC pulls inside that call.
* A `REDPFCQueue` that fills or drains emits `pfcPaused` / `pfcResume` on the
  node. The MAC of the interface that the packet came in by makes a PFC frame of
  it; the `HiPriorityScheduler` of the port at the other end sets `ispaused`.
* All queues of a switch charge and credit one static counter.
* A receiver's congestion control answers marked packets with CNPs; the sender's
  module changes the rate of the flow, and paces what it sends with timers.
* With ExpressPass the receiver paces: it sends credits, which take one packet each
  from the sender. A `RateLimitQueue` in every port slows credits down to a share of
  the link, and drops those that are too many.
* With BFC a full queue pauses one *queue* of the upstream port, named in the header
  of the packet; the scheduler there counts the pauses of each of its queues.

What is hard to test in it, and the correctness that is at stake (the lines are
in `PROJECT.json`, "hazards"):

* *Accounting* of the shared buffer: charged packet by packet on arrival, credited
  by another rule on departure. It should neither leak nor grow.
* *PFC as a distributed protocol*: queue, MAC, wire and scheduler should agree
  about a pause; it should be lossless, and end.
* *The MAC's callbacks*: six kinds of callers drive one transmitter, whose handlers
  throw unless they find the state that they expect, also around crashes.
* *Fairness* of the weighted scheduler while providers come and go.
* *The CC sender's iterators, timers and copies*: flows and timers disappear while
  others refer to them, and handlers write back copies.
* *Two ends of a credit protocol*: credits, stops and requests cross each other, are
  lost, are overtaken, and nothing is repeated. Both ends should agree, and data should
  not be forgotten.
* *Notifications and timers of a rate-limited queue*: the MAC asks when it is told; a
  credit whose moment nobody announces stays.
* *Backpressure per flow*: flows are given to queues and queues to other flows while
  packets, pauses and resumes are under way; packets of a flow should keep their order,
  pauses be counted right, and end.
* In the parts not modelled: a script index of `HiUdpApp` that is advanced twice, stale
  flags of `ABMQueue`, missing RESUMEs of `PCNQueue`, flows that `HOMA` has erased.

## 2. Modules

| Module | Models | Extends or uses |
|---|---|---|
| `PrefixSum` | sums over a finite sequence, as a recursive function | - |
| `REDPFCQueue` | all priority queues of one switch | `PrefixSum` |
| `WrrScheduler` | the choice of a weighted round robin | - |
| `PfcLink` | the queues and MAC of an egress port, and the ports upstream of it | instance of `REDPFCQueue` |
| `HiEthernetMac` | one transmitter in full, with its node's lifecycle | - |
| `DCQCN` | the sender of one host | - |
| `XPASS` | a sender, its receivers, and a network that loses and reorders | `PrefixSum` |
| `BFC` | an egress port with BFC queues, and the ports upstream of it | - |
| `HiQueue` | the classes of queues of one port, by time, under scheduler and MAC | `PrefixSum`, `WrrScheduler` |
| `MC*` | finite parameters of each for TLC | the module |
| `*_proofs` | lemmas and theorems | the module, `TLAPS` |

Names ending in `_Something` next to a definition (`Release_AfterPop`) are faults
that were seeded into that definition to see that the property notices them; no
action uses them.

**REDPFCQueue.** The state of the switch is a record `sw` and handlers are
operators on it, so that `PfcLink` can nest them as the code does. `handleMessage`
is the whole arrival: `BufferManagement` (S_drop, overload, dynamic threshold
`maxSize`), the charge, the push and the pause decision. `pullPacket` is the whole
departure: credit, pop, RED, mark and resume decision. S_drop is compared with all that the port
holds (`PortLengths`); what its credit and best-effort queue hold is an input, one of
`OtherLengths` at each arrival. A packet is its length, its
interface, its ECN code and whether it is `UData`. RED's random draw is a
nondeterministic choice, restricted to the outcomes of positive probability. Where
the code compares with a `uint64_t` the model keeps what the conversion does
(`Fits`: a negative left-hand side never fits, a negative product is undefined
and may do either).

**WrrScheduler.** `schedulePacket` picks the first ready provider with a token, or
refills when no ready provider has one. It is a function of the buckets and of which
providers are ready; `HiQueue` has the state.

**PfcLink.** One action is one event: a frame's arrival pushes, signals, wakes the
egress MAC, which pulls and signals again (`Arrived`). The MACs are reduced to busy
or idle, which is all that these handlers test. `processpfccommand` keeps the
code's behaviour of dropping the command when the MAC is at work, and `lost` (history) records that it did. Upstream
ports pause, resume and start frames as `HiPriorityScheduler` and the MAC do, and
a RESUME wakes nobody. At any time the clock may pass the stopTime of a MAC (`StopTimePasses`; the MACs may
be configured with different ones): from then on it deletes the packet that it takes from its queue, and stays idle. Wires are FIFO; `PfcDelay` limits how many data frames an
upstream port can start while a PFC frame is under way to it.

**HiEthernetMac.** The state variables are those of the code; `timers` holds the
scheduled ones of `endTxTimer`, `endIfgTimer`, `endPauseTimer`. An `ASSERT` or
`cRuntimeError` that fails sets `failed`, which stops the model as it stops the
simulation. Stop, crash and restart are those of `EthernetMacBase` and
`OperationalMixin`, including the errors of a module that is down. Reception keeps
what reaches the transmitter: PAUSE frames, and the acknowledgement of a TIMELY
segment.

**DCQCN.** `sender_flowMap` is a function from flow ids to the fields that
decide something; `iter` is the id it points to, 0 for `end()`. `NotLastPacket`
keeps the copy `snd_info` of the code apart from the entry that the byte counter
changes meanwhile. `cut` (history) records what the last CNP found, and counts the
steps of the rate timer since. Doubles are integers with the rounding that keeps their order;
alpha and gamma count in `1/AlphaUnit`. The receiver is the environment: a CNP may
come for any flow, at any moment, also for one that has ended. Flow ids grow in
the order of sending, as `GlobalFlowId` issues them.

**XPASS.** One sender, several receivers, and three channels for each: requests and
stops (`ctl`), `credits`, `data`. `receive_credit` is the whole handler: a packet from the
first flow of the map, whatever the flow's destination, with what it lacks from the
next flow, or a stop timer when nothing is left. Sizes are unsigned and wrap at
`Word`; `remainSize` is signed, and compared as unsigned where the code does so. `begin()`
of an empty map ends the model (`failed`), as does the division by a rate of 0. Of the
rate only that is kept; the ratio that decides it is computed from the credit
numbers. Everything may be lost. `ctl` may be overtaken, because
a stop carries no `HiTag` and `HiClassifier` then uses an unset priority; data of two
priorities may, too. `faults` (history) says what has gone wrong so far, so that
a property can exempt exactly that.

**BFC.** Like `PfcLink` for the BFC chain. `Arrived` is the classification (a known flow
keeps its queue, a new one gets the first empty queue, or any), the admission, the push
with its tags and PAUSE, the wake-up of the egress MAC and its pull. A tag on a packet
remembers that its departure sends the RESUME. The upstream scheduler counts
pauses for each of its queues and, as the code does, asks for a packet in a queue that is not
paused but then takes any. `lost` counts the commands that busy MACs dropped. The upstream queue in the headers
of a flow (`named`) is what its first packet said. `HiEthernetEncapsulation.cc:203` would write a variable
without a value for a flow that its map does not have; that is not met, since every packet that comes in puts
its flow there and only the flow's last, behind all others (`FlowsKeepOrder`), takes it out.

**HiQueue.** The only model with a clock: credits are what time they take at their
rate (`mintime`), and `Tick` lets one unit pass when no event is due. `pullPacket`
restarts the `canpull` timer for the next credit, `pushPacket` announces a credit that
may not go yet and sets no timer. The choice among the inputs is `schedulePacket` of
`WrrScheduler`, for any number of other queues and any weights; the credit queue's rate, empty
queues and PFC pauses of the `HiPriorityScheduler` (one of its priorities is in use) decide which
are ready. What the credit queue holds is limited by `packetCapacity` and `dataCapacity`
(`isOverloaded`), each of which may be off, as the first is by default. After stopTime (`stopped`) the MAC deletes what it
takes. `early` (history) marks a credit that came to an empty queue within its `mintime`
after the last; `passed` (history) counts how often one provider was served at pulls that
found another ready as well.

## 3. Runs

| Run | Shows | Result |
|---|---|---|
| `pool` | `PoolNotLeaked`, `PoolNotOverdrawn`, `PausedOnlyIfBacklogged`, `EcnMarking`, `TypeOK` of two queues that share a buffer | holds, 1.1 million states |
| `overcredit` | the shared buffer can grow past its configured size | violated |
| `wrr` | no ready provider is passed by another more than twice its weight, no bucket overflows, no queue is overloaded | holds, 21,564 states |
| `two_ports` | queue and upstream ports agree on pauses, until stopTime the egress port never idles on a backlog and every pause ends | holds, with fairness, 72,192 states |
| `lossless` | a packet is dropped only after a PAUSE command was lost | holds, 424,272 states |
| `mac` | timers, state, frame and queue agree, no check fails, the backlog is served | holds, with fairness, 621 states |
| `mac_pause` | a stored PAUSE does not keep the next frame back | violated |
| `dcqcn_rates` | iterator, timers and rates of two flows, all flows are sent | holds, with fairness |
| `dcqcn_bytes` | the byte counter's recovery step is lost | violated |
| `xpass` | both ends agree, credits flow, no data is forgotten, the rate stays positive, the sizes of the flows cover what remains, a stop arrives | holds, with fairness, 1.26 million states |
| `bfc` | every pause has a packet that ends it, pauses are counted right, flows keep their order, pauses end | holds, with fairness, 272,076 states |
| `credit` | no credit is overlooked, the timer expires when the first credit may go, credits leave | holds, with fairness, 187,592 states |

The violated runs check what a comment, a document or an error message of the
repository says; each has an entry under "findings" with the line that disagrees:

1. `REDPFCQueue.cc:146` credits what lies beyond `dataCapacity`, line 304 admits the
   packet that crosses it without a charge, so the "remaining" buffer exceeds the whole.
2. `HiEthernetMac.cc:598` stores a PAUSE that arrives in the interframe gap, but only
   the end of a frame looks at it.
3. `DCQCN.cc:229` overwrites what the byte counter has just changed.

Other behaviour that surprises is part of the models, and the properties that hold
exempt exactly it:

* `HiEthernetMac.cc:661` (`BFCMac.cc:577`) drops a PFC or BFC command when the transmitter
  works, while the queue records the pause or the resume as sent. `PausesAgree`,
  `LosslessUnlessPauseLost`, `PausesCounted` and both `PauseEnds` exempt the port and priority
  whose command was dropped, no others.
* `HiPriorityScheduler.cc:139` and the BFC scheduler wake nobody when a RESUME arrives:
  `EgressWorkConserving` is about the egress port only, and `PauseEnds` about the flag, not
  about the packets behind it.
* The same line 661 makes a MAC transmit that has crashed, whose timer then raises
  an error: `NoCheckFails` holds up to the first stop or crash.
* XPASS repeats no request (`NotStranded` exempts `reqLost` and `overtaken`), and its stop timer does not look
  whether new data has come (`lateStop`). It reads `begin()` of an empty map once `remainSize` is
  negative (`SizesCoverRemain` says: not before).
* `RateLimitQueue` forgets a credit that comes early (`early` in `CreditNotOverlooked` and
  `CreditsLeave`): the port idles on it until other traffic makes the MAC ask.
* A MAC that deletes a packet after stopTime (`HiEthernetMac.cc:268`) does not take the next one, so its queues stay as they are
  until something is pushed: `EgressWorkConserving`, `PauseEnds` of `PfcLink`, `IdleOnlyWhenEmpty`,
  `BacklogIsServed`, `CreditNotOverlooked` and `CreditsLeave` say what holds before.
* The BFC scheduler takes packets of a paused queue when another has one to send (`BFCScheduler.cc:144`);
  no property forbids it.

### Bounds, and why they suffice

* `pool`: two queues of at most 4 packets, lengths 1 and 2, `dataCapacity` 2, shared
  buffer 4, XOFF 4, and the ECN region in between. The accounting errors in reach
  need packets of different lengths on both sides of the `dataCapacity` line, and one
  queue that takes what another released: two queues and two lengths. The port's
  other queues hold 0 or 3 (`OtherLengths`), so an arrival may meet S_drop with short queues as well as with long ones. `MaxShared` stops
  arrivals once the over-credit of finding 1 has become visible, else the state
  space is infinite. The theorems have none of these bounds.
* `two_ports`, `lossless`: XOFF 2, 4 to 7 packets: a pause, its resume and a second
  pause. `lossless` gives the queue the headroom of the frames that can be under way
  (one on the way when the PAUSE leaves, one started before it arrives); with less
  room the property fails, as it should (`HeadroomSuffices`, section 4). stopTime may pass at each of
the MACs, at any moment. `DataCapacity` of the others is large
  enough that drops do not hide the pauses.
* `mac`: up to three packets, pauses of 0, 1 and 2 units; every state of the MAC with
  every caller, 621 states.
* `dcqcn_rates`: two flows, of one packet and of two, `frSteps_th` 2 and
  up to 3 rate steps between CNPs (`MaxFrSteps`), so fast recovery ends and additive
  increase reaches the link's speed; the byte counter expires with the first
  packet of a flow in recovery. `dcqcn_bytes` has a longer flow.
* `xpass`: two receivers, two messages of 1 or 3 bytes with packets of 2, two
  priorities, 4 credits in all. A message ends with or without a rest that the next one has to fill up;
  the second request can meet the stop of the first, and four credits suffice for two
  feedbacks and for a stop timer of every credit that found nothing. `StopArrives` says
  nothing of the credits, so their bound does not help it.
* `bfc`: three flows of two packets through queues 0 and 1 of one upstream port, two
  egress queues that share one buffer, XOFF 2. Three flows for two queues make flows share a queue and
  queues change flows; two egress queues can pause one upstream queue together, which is what
  counting is about.
* `credit`: credits of 2, 3 and 4 units, at most 9 units and at most 3 credits in the queue, so that a
  push can drop for either reason; a data packet keeps the transmitter longer than the shortest credit
  waits, so timers expire both at an idle and at a busy MAC. All weights are 1, as in `HiQueue.ned`.
* `wrr`: weights 3, 0 and 2 (of the credit queue: 0), two packets in every queue, by `packetCapacity` in that of the credits, whose
  `dataCapacity` is off: refills with one, two or
  three providers ready, and pulls from the one that has no weight. Both weighted providers are `Watched`.

### Fairness

`FairSpec` of each module is weak fairness of the events that the simulator has
scheduled (timers, deliveries of frames that are on a wire): an event in the
future-event set is executed unless it is cancelled. Nothing obliges the environment
to push, pause or send. For `handleEndPausePeriod` fairness also says that the peer does
not prolong a pause for ever. `two_ports` assumes it of the gaps of the egress
MAC and of the PFC frames; `xpass` of the stop timers and of
the control channel, which may deliver or lose; `bfc` of the gaps of the egress MAC and
of the backpressure frames; `credit` of the timer, the gap and of time itself. Deadlock is checked except where the system may be done:
when arrivals have reached their bound, when the bounded traffic is through, when a failed check has ended the
simulation, or when all flows are sent.

## 4. Proofs

For every value of the constants that the modules' assumptions allow:

* `PrefixSum_proofs`: sums of naturals are naturals, change with one element by its
  change, and so on; how often a packet occurs on a wire. Induction is by the least counterexample (`LeastNat`), since the
  induction theorems with an operator parameter are out of the provers' reach.
* `REDPFCQueue_proofs`: `TypeCorrect`. `PoolConserved` (`PoolNotLeaked` is inductive: a push
  that is charged adds at most as much excess as it takes, a pull credits exactly the
  excess that leaves) and `PoolGrantsOnlyFree`, when `packetCapacity` is off
  (with it a packet may be charged for memory below `dataCapacity`), the
  latter for alpha at most 1. `MarkingCorrect`, an action property, for Kmin at most
  Kmax (with Kmin above Kmax, a queue between the two marks below Kmin). `PauseHasBacklog`, for a positive `dataCapacity`, with the
  strengthening that without PFC nothing is paused.
* `HiEthernetMac_proofs`: `TimersCorrect` and `WorkConserving` from `MacInv`, which adds that
  a MAC that is up is connected; `NeverFails` from the further fact that until the
  first stop or crash no transmission leaves `curTxSignal` behind.
* `DCQCN_proofs`: `IteratorCorrect`, `NoOrphanTimer`, `RatesBounded`, `RecoveryTarget`. The
  invariant adds that a new flow's id is above all that the map holds and that the
  history does not know it: this makes a new flow the last, so the iterator
  stays on the oldest. The cut of a rate by alpha/2 and the decay of alpha are
  lemmas of integer arithmetic (`CutArithmetic`, `AlphaArithmetic`).

* `PfcLink_proofs`: `TypeCorrect`, `Agreement` (`PausesAgree`), `WorkConserving`
  (`EgressWorkConserving`) and `Lossless` (`LosslessUnlessPauseLost`), for any ports, priorities, thresholds and wire lengths. The
  nested handlers are operators on the switch record, so the lemmas say of each that it keeps
  `Agree` and `Works` of a switch *value*; a command appended to a wire decides what the port will
  hold, and a frame taken from it changes nothing of that. `IInv` adds
  `BacklogWasSent`, which bounds the backlogs for the types. `Lossless` assumes `HeadroomSuffices`: XON below
  XOFF, and `dataCapacity` at least XOFF - 2 plus, for each upstream port, the frames that fit on its wire and
  those it starts while a PAUSE is under way. The invariant `Room` grants every port a budget of packets,
  the most while the port is not paused and what is still under way (`Covers`) afterwards: queue length and budgets
  together never exceed XOFF - 1 plus all full budgets. An arrival spends what it adds to the queue, the
  `PausesAgree` of above keeps a paused port from starting frames that no budget covers, and a RESUME, at XON,
  grants everything anew. `HeadroomSuffices` is sharp: with `dataCapacity` one below it, TLC finds
  a drop without a lost PAUSE with one port (and with two). `MCPfcLink` has TLC evaluate it for both networks.
* `HiQueue_proofs`: `TypeCorrect`, which holds the ASSERT of `pushPacket` whatever bounds the queue, `NotOverlooked` and `TimerExact`. The invariant (`QueueOK`) says of every moment at which a handler looks
  that a credit which is due has no timer left, one which is not has a timer that expires in time, and a
  timer left over expires before any time has passed. `NoStarvation`, for any number of providers and any
  weights: the bound is not inductive by itself; what is, `BypassAccount`, adds the tokens that the other
  provider still has. Together they come out of one bucket, or of two while provider i has tokens of its own.
* `XPASS_proofs`: `Agreement`, `CreditsDoNotCease` and `NoDataStranded` from `AgreeInv`,
  which adds that while control packets arrive in order, waiting data keeps the sender in
  `CREDIT_RECEIVING` for somebody. `RateStaysPositive` from `OrderInv`: the numbers of data and credits under
  way go up, from beyond the last feedback by at least the packets counted, to the next
  credit's. `RemainCovered` from `CoverInv`: a new message is a new entry, and a size that wraps
  around makes the sum larger. They hold whatever is lost, for any messages and hosts.

* `BFC_proofs`: `TypeCorrect`, `PausesWitnessed` (`PauseHasWitness`), `CountsCorrect` (`PausesCounted`) and
  `OrderKept` (`FlowsKeepOrder`), for any flows, queues, ports and buffers. As in `PfcLink_proofs` the lemmas speak of
  switch values. `Witnessed` is stronger than the property: each *flow* that is marked has a tagged
  packet, and each source that is paused a flow that is marked; so a packet that leaves takes with it only what it was the
  witness of. `Balance` is what is under way and lost less what is paused, and every handler of the switch keeps
  it; only `processbfcframe` moves it to the counter. `OrderedBy` relates the queues to the packets that
  have come (`EnteredOf`: made, neither waiting upstream nor on the wire): a flow that the classifier does not know
  has not begun or is over, so that a flow whose queue is chosen anew has no packet in another.
  None of it needs an assumption on the buffers, and what a busy MAC drops is counted, not excluded.

Only model-checked: the liveness properties (`PauseEnds`, `BacklogIsServed`, `EveryFlowSent`, `StopArrives`,
`CreditsLeave`), which TLAPS does not prove.

## 5. Not modelled

Left out for what they are:

* INET itself beyond what the MAC and the queues use of it (`EthernetMacBase`,
  `OperationalMixin`, the passive queue protocol), generated messages, NED composition,
  display and statistics, address filtering, packet contents. INET is vendored and
  makes up nearly all of the repository's lines.
* The rate laws of TIMELY, SWIFT, HPCC, POSEIDON, PCN and of the BFC and BCN
  senders: floating-point control whose correctness is a matter of convergence, which TLC
  cannot judge. Their flow map, iterator and `senddata` timer are copies of DCQCN's, and
  what is shown for `DCQCN` is an argument for these parts only.

Components of HiNA with logic of their own that no module covers:

* `ABMQueue` and `PCNQueue`. Push and pull are copies of `REDPFCQueue`'s, with another
  admission rule or another mark. `ABMQueue.cc:58` changes a count on the edge of a flag
  that may be stale; `PCNQueue.cc:19` pulls without a RESUME, so a port that its
  inherited push has paused stays paused.
* The BCN chain: BFC's with token counters. What it shares with BFC is in `BFC`; the tokens
  are not.
* `HiUdpApp` and `TcpApp`. The script index is advanced twice for one command
  (`HiUdpApp.cc:197`); otherwise they are sequential, and the models take from them only that flow
  ids grow in the order of sending.
* `HOMA`. No configuration of the repository uses it. `HOMA.cc:412` uses a flow that may have been erased.

In the parts that are modelled:

* `removePacket` and `removeAllPackets` of all queues, which nothing in HiNA's chain calls. A MAC that
  goes down empties its queue with `dequeuePacket`, packet by packet (`EthernetMacBase.cc:364`), which is modelled.
  `SwitchMacQueue::isEmpty` is true except inside a dequeue, so a stopping MAC drops its backlog.
* DCQCN's receiver beyond the fact that CNPs may come, and the overflow of `ByteCounter`
  after 2 GiB without a CNP.
* A cable plugged at run time; pauses of the egress port of `PfcLink` and `BFC`
  themselves, and packets of different lengths there (`REDPFCQueue` has them); stopTime in `BFC`, whose
  MAC has none.
* RED in the BFC queues, and the weights of the BFC scheduler.
* Of XPASS's rate, anything but whether it is 0; the segmentation of a message.

A crash in the middle of a frame leaves `curTxSignal` set, and the `ASSERT` of
`HiEthernetMac.cc:212` fails after the restart; a stop with a gap or pause timer scheduled raises an error of a
module that is down. `HiEthernetMac` reaches both, after which it promises nothing.
