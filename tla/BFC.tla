-------------------------------- MODULE BFC --------------------------------
(***************************************************************************)
(* Backpressure per flow: an egress port with BFC queues (BFCClassifier,   *)
(* BFCqueue, BFCMac) and the ports upstream of it (BFCScheduler, BFCMac).  *)
(*                                                                         *)
(*   upstream port i                        switch                         *)
(*   backlog of each flow                   BFCClassifier: flow -> queue   *)
(*    -> BFCScheduler (pauses[i])           BFCqueue of each number        *)
(*    -> MAC (upBusy) -- wire[i] -------->   -> MAC (egBusy)               *)
(*   pauses[i] <---------- bfcWire[i] ----  MAC of interface i (macBusy)   *)
(*                                                                         *)
(* A packet names the queue of the upstream port that it came through; a   *)
(* full queue pauses that queue of the interface the packet came in by, and*)
(* remembers why by a tag on the first packet of each flow.  As in PfcLink *)
(* all that one event of the simulator does is one step, a MAC is busy or  *)
(* idle, the egress port is not paused itself, and packets have one length.*)
(* The weights of the schedulers are 1: any waiting packet can be next.    *)
(***************************************************************************)
EXTENDS Integers, Sequences, FiniteSets

CONSTANTS
    Flows,
    FlowLength,      \* packets of a flow
    Ifaces,          \* the upstream ports
    IfaceOf,         \* flow -> upstream port
    HomeOf,          \* flow -> its queue there
    UpQueues,        \* queues of an upstream port
    NumQueues,       \* queues of the egress port are 0..NumQueues - 1
    numb,            \* queue -> index of its shared buffer (BFCQueue.ned)
    PacketCapacity,  \* packetCapacity and dataCapacity, or NoLimit
    DataCapacity,
    SharedBuffer,
    Headroom,
    XOFF,
    WireFrames       \* frames that fit on a wire

NoLimit == -1
Queues  == 0..(NumQueues - 1)

ASSUME BfcAssumption ==
    /\ FlowLength \in Nat \ {0}
    /\ IfaceOf \in [Flows -> Ifaces]
    /\ HomeOf \in [Flows -> UpQueues] /\ 0 \in UpQueues
    /\ NumQueues \in Nat \ {0}
    /\ numb \in [Queues -> Queues]
    /\ {PacketCapacity, DataCapacity} \subseteq Nat \cup {NoLimit}
    /\ {SharedBuffer, Headroom, WireFrames} \subseteq Nat
    /\ XOFF \in Nat \ {0}

VARIABLES
    d,          \* the switch, see Init
    named,      \* flow -> the upstream queue in the headers of its packets
    backlog,    \* flow -> its packets that wait in the upstream port
    given,      \* flow -> packets that its application made so far
    pauses,     \* [i -> [u -> BFCScheduler::ispaused of upstream queue u]]
    upBusy,     \* i -> whether the MAC of upstream port i is busy
    wire        \* i -> packets on the wire from i

vars == <<d, named, backlog, given, pauses, upBusy, wire>>

\* A packet is its flow and its number in the flow; tagged stands for the tag
\* isPause.
Packets == [flow : Flows, n : 1..FlowLength, tagged : BOOLEAN]

\* What a pause names: the interface and its queue (the map ispaused).
Source(f) == <<IfaceOf[f], named[f]>>

\* std::map: insertion or assignment, and erasure.
Store(map, f, q) == [g \in DOMAIN map \cup {f} |-> IF g = f THEN q ELSE map[g]]
Erase(map, f) == [g \in DOMAIN map \ {f} |-> map[g]]

-----------------------------------------------------------------------------
\* Of flow_upstreamQueue (HiEthernetEncapsulation) a flow keeps what its first
\* packet said: its queue, if that packet was tagged there, or what the node
\* that sent it had written, which is 0.  For a flow that is not in the map the
\* encapsulation writes a variable without a value.  That is not reached: every
\* packet that comes in puts its flow there, and the only one to take it out is
\* the flow's last, which comes after all others, by one port and one queue of
\* the hop before (FlowsKeepOrder).
Init ==
    /\ d = [queue        |-> [q \in Queues |-> <<>>],
            isPausedFlow |-> [q \in Queues |-> {}],
            ispaused     |-> [q \in Queues |-> {}],
            flowid_queue |-> [f \in {} |-> 0],
            sharedBuffer |-> [q \in Queues |-> SharedBuffer],
            egBusy       |-> FALSE,
            macBusy      |-> [i \in Ifaces |-> FALSE],
            bfcWire      |-> [i \in Ifaces |-> <<>>],
            \* commands that were dropped: PAUSEs less RESUMEs (history)
            lost         |-> [i \in Ifaces |-> [u \in UpQueues |-> 0]],
            \* the last packet of each flow that left (history)
            passed       |-> [f \in Flows |-> 0]]
    /\ named \in {m \in [Flows -> UpQueues] : \A f \in Flows : m[f] \in {HomeOf[f], 0}}
    /\ backlog = [f \in Flows |-> 0]
    /\ given = [f \in Flows |-> 0]
    /\ pauses = [i \in Ifaces |-> [u \in UpQueues |-> 0]]
    /\ upBusy = [i \in Ifaces |-> FALSE]
    /\ wire = [i \in Ifaces |-> <<>>]

-----------------------------------------------------------------------------
(***************************************************************************)
(* Commands to the upstream ports.                                         *)
(***************************************************************************)
\* BFCMac::processbfccommand: the MAC of the interface that s names sends the
\* command if it is idle, and drops it otherwise.
processbfccommand(n, op, s) ==
    LET i == s[1]
        u == s[2]
    IN  IF n.macBusy[i]
        THEN [n EXCEPT !.lost[i][u] = @ + (IF op = "PAUSE" THEN 1 ELSE -1)]
        ELSE [n EXCEPT !.macBusy[i] = TRUE,
                       !.bfcWire[i] = Append(@, [op |-> op, queueID |-> u])]

-----------------------------------------------------------------------------
(***************************************************************************)
(* The queues of the egress port.                                          *)
(***************************************************************************)
Size(n, q) == Len(n.queue[q])

\* BFCqueue::pullPacket without what follows the pause handling: a tagged
\* packet takes its flow out of isPausedFlow and its source out of ispaused,
\* which sends a RESUME.
Resumed_KeepsFlow(n, q, p) ==
    LET s == Source(p.flow)
        m == [n EXCEPT !.ispaused[q] = @ \ {s}]
    IN  IF ~p.tagged \/ p.flow \notin n.isPausedFlow[q] THEN n
        ELSE IF s \in n.ispaused[q] THEN processbfccommand(m, "RESUME", s)
        ELSE m

Resumed_KeepsPair(n, q, p) ==
    LET s == Source(p.flow)
        m == [n EXCEPT !.isPausedFlow[q] = @ \ {p.flow}]
    IN  IF ~p.tagged \/ p.flow \notin n.isPausedFlow[q] THEN n
        ELSE IF s \in n.ispaused[q] THEN processbfccommand(m, "RESUME", s)
        ELSE m

Resumed_Always(n, q, p) ==
    LET s == Source(p.flow)
        m == [n EXCEPT !.isPausedFlow[q] = @ \ {p.flow}, !.ispaused[q] = @ \ {s}]
    IN  IF ~p.tagged \/ p.flow \notin n.isPausedFlow[q] THEN n
        ELSE processbfccommand(m, "RESUME", s)

Resumed(n, q, p) ==
    LET s == Source(p.flow)
        m == [n EXCEPT !.isPausedFlow[q] = @ \ {p.flow}, !.ispaused[q] = @ \ {s}]
    IN  IF ~p.tagged \/ p.flow \notin n.isPausedFlow[q] THEN n
        ELSE IF s \in n.ispaused[q] THEN processbfccommand(m, "RESUME", s)
        ELSE m

\* BFCqueue::pullPacket: what exceeds the queue's own capacity goes back to the
\* shared buffer, and the packet leaves.
Pulled(n, q) ==
    LET p == Head(n.queue[q])
        m == Resumed(n, q, p)
    IN  [m EXCEPT !.sharedBuffer[numb[q]] = @ + (IF Size(n, q) > DataCapacity THEN 1 ELSE 0),
                  !.queue[q] = Tail(@),
                  !.passed[p.flow] = p.n]

\* The egress MAC is free: it pulls from a queue that has a packet, if any.
Dequeued(n) ==
    LET full == {q \in Queues : n.queue[q] # <<>>}
    IN  IF full = {} THEN {[n EXCEPT !.egBusy = FALSE]}
        ELSE {[Pulled(n, q) EXCEPT !.egBusy = TRUE] : q \in full}

\* BFCMac::handleCanPullPacketChanged
handleCanPullPacketChanged(n) == IF n.egBusy THEN {n} ELSE Dequeued(n)

\* The condition of pushPacket to pause, when packet p was inserted into q.
IsFull(n, q) ==
    \/ Size(n, q) >= XOFF
    \/ Size(n, q) > DataCapacity /\ n.sharedBuffer[numb[q]] < Headroom

\* BFCqueue::pushPacket up to its call of the collector: a queue that is full
\* tags the first packet of each flow, and pauses a source that it has not
\* paused yet.
Pushed(n, q, f, k) ==
    LET m   == [n EXCEPT !.queue[q] = Append(@, [flow |-> f, n |-> k, tagged |-> FALSE])]
        new == f \notin n.isPausedFlow[q]
        s   == Source(f)
        t   == [n EXCEPT !.queue[q] = Append(@, [flow |-> f, n |-> k, tagged |-> new]),
                         !.isPausedFlow[q] = @ \cup {f},
                         !.ispaused[q] = @ \cup {s}]
    IN  IF ~IsFull(m, q) THEN m
        ELSE IF s \in n.ispaused[q] THEN t
        ELSE processbfccommand(t, "PAUSE", s)

isOverloaded(n, q) ==
    \/ PacketCapacity # NoLimit /\ Size(n, q) > PacketCapacity
    \/ DataCapacity # NoLimit /\ Size(n, q) > DataCapacity

\* BFCqueue::BufferManagement, with the default 1 of alpha: whether the packet
\* is taken in, and what the shared buffer is then.
BufferManagement(n, q) ==
    LET b == n.sharedBuffer[numb[q]]
    IN  IF ~isOverloaded(n, q) THEN [ok |-> TRUE, shared |-> b]
        ELSE IF Size(n, q) + 1 > b THEN [ok |-> FALSE, shared |-> b]
        ELSE [ok |-> TRUE, shared |-> b - 1]

\* BFCClassifier::classifyPacket: a flow keeps its queue up to its last packet;
\* a new flow gets the first empty queue, or any.
QueuesFor(n, f) ==
    LET empty == {q \in Queues : n.queue[q] = <<>>}
    IN  IF f \in DOMAIN n.flowid_queue THEN {n.flowid_queue[f]}
        ELSE IF empty # {} THEN {CHOOSE q \in empty : \A r \in empty : q <= r}
        ELSE Queues

\* classifyPacket looks for the last packet only when it finds the flow, so a
\* flow of one packet stays in the map.
Classified_ForgetsAtEmpty(n, q, f, k) ==
    [n EXCEPT !.flowid_queue = IF n.queue[q] = <<>> THEN Erase(@, f) ELSE Store(@, f, q)]

Classified(n, q, f, k) ==
    [n EXCEPT !.flowid_queue = IF f \in DOMAIN @ /\ k = FlowLength THEN Erase(@, f)
                               ELSE Store(@, f, q)]

\* BFCqueue::handleMessage in queue q.
Queued(n, q, f, k) ==
    LET b == BufferManagement(n, q)
    IN  IF b.ok
        THEN handleCanPullPacketChanged(
                Pushed([n EXCEPT !.sharedBuffer[numb[q]] = b.shared], q, f, k))
        ELSE {n}

\* BFCClassifier::handleMessage: packet k of flow f arrives.
Arrived(n, f, k) ==
    UNION {Queued(Classified(n, q, f, k), q, f, k) : q \in QueuesFor(n, f)}

-----------------------------------------------------------------------------
(***************************************************************************)
(* The upstream ports.                                                     *)
(***************************************************************************)
\* BFCScheduler::canPullSomePacket wants a packet in a queue that is not
\* paused; schedulePacket then takes any, from paused queues too.
Waiting_EmptyToo(i, b) == {f \in Flows : IfaceOf[f] = i /\ b[f] >= 0}

Waiting(i, b) == {f \in Flows : IfaceOf[f] = i /\ b[f] > 0}
canPullSomePacket(i, b) == \E f \in Waiting(i, b) : pauses[i][HomeOf[f]] = 0

\* The MAC of port i is free and the backlog is b.
StartsFrame(i, b) ==
    \/ /\ ~canPullSomePacket(i, b)
       /\ backlog' = b
       /\ upBusy' = [upBusy EXCEPT ![i] = FALSE]
       /\ UNCHANGED wire
    \/ /\ canPullSomePacket(i, b)
       /\ Len(wire[i]) < WireFrames
       /\ \E f \in Waiting(i, b) :
             /\ backlog' = [b EXCEPT ![f] = @ - 1]
             /\ wire' = [wire EXCEPT ![i] = Append(@, f)]
       /\ upBusy' = [upBusy EXCEPT ![i] = TRUE]

\* The application of flow f makes a packet, which wakes an idle MAC.
UpstreamPush(f) ==
    LET i == IfaceOf[f]
        b == [backlog EXCEPT ![f] = @ + 1]
        g == [given EXCEPT ![f] = @ + 1]
    IN  /\ given[f] < FlowLength
        /\ given' = g
        /\ IF upBusy[i] THEN backlog' = b /\ UNCHANGED <<upBusy, wire>>
           ELSE StartsFrame(i, b)
        /\ UNCHANGED <<d, named, pauses>>

\* The gap after a frame of upstream port i is over.
UpstreamEndIFG(i) ==
    /\ upBusy[i]
    /\ StartsFrame(i, backlog)
    /\ UNCHANGED <<d, named, given, pauses>>

OnWire(f) == Cardinality({k \in 1..Len(wire[IfaceOf[f]]) : wire[IfaceOf[f]][k] = f})

\* A packet reaches the switch; its number follows from what is behind it.
FrameArrives(i) ==
    /\ wire[i] # <<>>
    /\ LET f == Head(wire[i])
       IN  d' \in Arrived(d, f, given[f] - backlog[f] - OnWire(f) + 1)
    /\ wire' = [wire EXCEPT ![i] = Tail(@)]
    /\ UNCHANGED <<named, backlog, given, pauses, upBusy>>

\* BFCScheduler::processbfcframe: a frame reaches upstream port i; nobody is
\* woken.
Counted(i, f) == [pauses[i] EXCEPT ![f.queueID] = @ + (IF f.op = "PAUSE" THEN 1 ELSE -1)]

processbfcframe(i) ==
    /\ d.bfcWire[i] # <<>>
    /\ pauses' = [pauses EXCEPT ![i] = Counted(i, Head(d.bfcWire[i]))]
    /\ d' = [d EXCEPT !.bfcWire[i] = Tail(@)]
    /\ UNCHANGED <<named, backlog, given, upBusy, wire>>

\* The switch's MAC towards port i starts a frame of its own traffic.
ReverseFrame(i) ==
    /\ ~d.macBusy[i]
    /\ d' = [d EXCEPT !.macBusy[i] = TRUE]
    /\ UNCHANGED <<named, backlog, given, pauses, upBusy, wire>>

\* The gap after a frame of that MAC is over.
ReverseEndIFG(i) ==
    /\ d.macBusy[i]
    /\ d' = [d EXCEPT !.macBusy[i] = FALSE]
    /\ UNCHANGED <<named, backlog, given, pauses, upBusy, wire>>

\* The gap after a frame of the egress MAC is over.
EgressEndIFG ==
    /\ d.egBusy
    /\ d' \in Dequeued(d)
    /\ UNCHANGED <<named, backlog, given, pauses, upBusy, wire>>

Next ==
    \/ \E f \in Flows : UpstreamPush(f)
    \/ \E i \in Ifaces :
          \/ UpstreamEndIFG(i)
          \/ FrameArrives(i)
          \/ processbfcframe(i)
          \/ ReverseFrame(i)
          \/ ReverseEndIFG(i)
    \/ EgressEndIFG

Spec == Init /\ [][Next]_vars

\* Scheduled events are executed.  What PauseEnds needs of it is that the gaps of
\* the egress port end and that backpressure frames arrive.
FairSpec == Spec /\ WF_vars(EgressEndIFG) /\ \A i \in Ifaces : WF_vars(processbfcframe(i))

-----------------------------------------------------------------------------
(***************************************************************************)
(* Properties.                                                             *)
(***************************************************************************)
Commands == [op : {"PAUSE", "RESUME"}, queueID : UpQueues]

TypeOK ==
    /\ d \in [queue        : [Queues -> Seq(Packets)],
              isPausedFlow : [Queues -> SUBSET Flows],
              ispaused     : [Queues -> SUBSET (Ifaces \X UpQueues)],
              flowid_queue : UNION {[F -> Queues] : F \in SUBSET Flows},
              sharedBuffer : [Queues -> Nat],
              egBusy       : BOOLEAN,
              macBusy      : [Ifaces -> BOOLEAN],
              bfcWire      : [Ifaces -> Seq(Commands)],
              lost         : [Ifaces -> [UpQueues -> Int]],
              passed       : [Flows -> 0..FlowLength]]
    /\ named \in [Flows -> UpQueues]
    /\ backlog \in [Flows -> 0..FlowLength]
    /\ given \in [Flows -> 0..FlowLength]
    /\ pauses \in [Ifaces -> [UpQueues -> Int]]
    /\ upBusy \in [Ifaces -> BOOLEAN]
    /\ wire \in [Ifaces -> Seq(Flows)]

\* A pause that a queue holds has a cause that will end it: a tagged packet of
\* its source waits in the queue, of a flow that is marked as paused, so that
\* pulling it sends the RESUME.
PauseHasWitness ==
    \A q \in Queues : \A s \in d.ispaused[q] :
        \E k \in 1..Len(d.queue[q]) :
            LET p == d.queue[q][k]
            IN  p.tagged /\ p.flow \in d.isPausedFlow[q] /\ Source(p.flow) = s

\* PAUSEs less RESUMEs that are under way to queue u of port i.
UnderWay(i, u) ==
    LET sent(op) == Cardinality({k \in 1..Len(d.bfcWire[i]) :
                                    d.bfcWire[i][k] = [op |-> op, queueID |-> u]})
    IN  sent("PAUSE") - sent("RESUME")

\* The counter of an upstream queue, with what is under way and what busy MACs
\* dropped, is the number of queues of the egress port that hold a pause for it:
\* no order of pauses of several queues makes the two drift apart.
PausesCounted ==
    \A i \in Ifaces, u \in UpQueues :
        pauses[i][u] + UnderWay(i, u) + d.lost[i][u]
            = Cardinality({q \in Queues : <<i, u>> \in d.ispaused[q]})

\* Flows are given to queues, and queues to other flows, without a packet that
\* overtakes another of its flow: the packets of a flow wait in one queue, in
\* order, behind all that have left.
FlowsKeepOrder ==
    \A q \in Queues : \A k \in 1..Len(d.queue[q]) :
        LET p == d.queue[q][k] IN
        /\ p.n > d.passed[p.flow]
        /\ \A r \in Queues : \A j \in 1..Len(d.queue[r]) :
              d.queue[r][j].flow = p.flow => r = q /\ (j > k => d.queue[r][j].n > p.n)

\* An upstream queue that counts a pause gets free again, unless a command for
\* it was dropped.
PauseEnds ==
    \A i \in Ifaces, u \in UpQueues :
        (pauses[i][u] # 0) ~> (pauses[i][u] = 0 \/ d.lost[i][u] # 0)
=============================================================================
