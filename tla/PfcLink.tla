------------------------------ MODULE PfcLink ------------------------------
(***************************************************************************)
(* Priority flow control between an egress port of a switch and the ports  *)
(* upstream of it (HiEthernetMac, SwitchMacQueue, HiPriorityScheduler and  *)
(* REDPFCQueue on both sides of the links).                                *)
(*                                                                         *)
(*   upstream port i                       switch                          *)
(*   backlog -> HiPriorityScheduler        REDPFCQueue of each priority    *)
(*           -> MAC (upBusy) -- wire --->  -> MAC (egBusy) -> downstream   *)
(*   ispaused  <------------- pfcWire ---  MAC of interface i (macBusy)    *)
(*                                                                         *)
(* A queue that fills or drains emits pfcPaused signals, and the MAC of    *)
(* the interface they name makes a PFC frame of them, if it is idle.  All  *)
(* that one event of the simulator does is one step: an arrival pushes the *)
(* packet, signals, wakes the egress MAC, which pulls, which may signal.   *)
(*                                                                         *)
(* A MAC is busy while it transmits and in the gap after a frame (no       *)
(* handler here tells the two apart; HiEthernetMac.tla does).  The switch's*)
(* egress port is not paused itself, and packets have one length.          *)
(***************************************************************************)
EXTENDS Integers, Sequences, FiniteSets

CONSTANTS
    Ifaces,          \* the upstream ports
    NumPriorities,   \* priorities; the queue of priority p is Queues[p]
    DataCapacity,    \* as in REDPFCQueue: the queues' parameters
    SharedBuffer,
    Headroom,
    XON, XOFF,
    Packets,         \* bound: packets that the upstream ports send in all
    WireFrames,      \* frames that fit on a wire
    PfcDelay         \* frames an upstream port can start before a PFC frame
                     \* that is under way to it has arrived

ASSUME PfcLinkAssumption ==
    /\ NumPriorities \in Nat \ {0}
    /\ DataCapacity \in Nat \cup {-1}
    /\ {SharedBuffer, Headroom, XON, XOFF} \subseteq Nat
    /\ {Packets, WireFrames, PfcDelay} \subseteq Nat

Priorities == 1..NumPriorities
PacketsOf  == [len : {1}, iface : Ifaces, ecn : {"NOT_ECT"}, udata : {FALSE}]
PacketOf(i) == [len |-> 1, iface |-> i, ecn |-> "NOT_ECT", udata |-> FALSE]

VARIABLES
    d,         \* the switch: [sw, egBusy, macBusy, pfcWire, lost, dropped]
    backlog,   \* [i -> [p -> packets waiting in upstream port i]]
    ispaused,  \* [i -> [p -> HiPriorityScheduler::ispaused]]
    upBusy,    \* [i -> whether the MAC of upstream port i is busy]
    wire,      \* [i -> priorities of the frames on the wire from i]
    sent,      \* packets the upstream ports were given so far
    egStopped, \* the clock has passed stopTime of the egress MAC
    upStopped  \* [i -> the clock has passed that of upstream port i]

clocks == <<egStopped, upStopped>>
vars == <<d, backlog, ispaused, upBusy, wire, sent, clocks>>

\* The queues of the egress port, without ECN, S_drop and packetCapacity.
Q == INSTANCE REDPFCQueue WITH
        NumQueues <- NumPriorities, PortOf <- [p \in Priorities |-> 1],
        Traffic <- PacketsOf, PacketCapacity <- -1,
        AlphaNum <- 1, AlphaDen <- 1, UsePfc <- TRUE,
        UseEcn <- FALSE, Kmin <- 0, Kmax <- 0, Pmax <- 0, SDrop <- 0, OtherLengths <- {0},
        MaxLen <- Packets, MaxShared <- SharedBuffer,
        sw <- d.sw, out <- "NOT_ECT"

-----------------------------------------------------------------------------
(***************************************************************************)
(* The switch.                                                             *)
(***************************************************************************)
\* The interfaces that queue p signals when its pause set changes to new's.
Commands(old, new, p) ==
    {i \in Ifaces : (i \in old.paused[p]) # (i \in new.paused[p])}

\* The pfcPaused signals of queue p, whose state becomes s, and what the MAC
\* of every interface they name makes of them: an idle MAC sends a PFC frame
\* at once, a busy one drops the command.
processpfccommand(n, s, p) ==
    LET told  == Commands(n.sw, s, p)
        op(i) == IF i \in s.paused[p] THEN "PAUSE" ELSE "RESUME"
    IN  [sw      |-> s,
         egBusy  |-> n.egBusy,
         macBusy |-> [i \in Ifaces |-> n.macBusy[i] \/ i \in told],
         pfcWire |-> [i \in Ifaces |->
                        IF i \in told /\ ~n.macBusy[i]
                        THEN Append(n.pfcWire[i], [op |-> op(i), priority |-> p, overtaken |-> 0])
                        ELSE n.pfcWire[i]],
         lost    |-> [i \in Ifaces |->
                        IF i \in told THEN [n.lost[i] EXCEPT ![p] = n.macBusy[i]] ELSE n.lost[i]],
         dropped |-> n.dropped]

\* The egress MAC is idle: it dequeues the first packet of the first queue
\* that has one (SwitchMacQueue, HiPriorityScheduler::schedulePacket).  After
\* stopTime it deletes the packet and stays idle (handleUpperPacket).
Dequeued(n) ==
    LET full == {p \in Priorities : n.sw.queue[p] # <<>>}
        p    == CHOOSE x \in full : \A y \in full : x <= y
    IN  IF full = {} THEN [n EXCEPT !.egBusy = FALSE]
        ELSE [processpfccommand(n, Q!Pulled(n.sw, p, FALSE), p) EXCEPT !.egBusy = ~egStopped]

\* HiEthernetMac::handleCanPullPacketChanged
handleCanPullPacketChanged(n) == IF n.egBusy THEN n ELSE Dequeued(n)

\* REDPFCQueue::handleMessage in the queue of priority p.
Arrived(n, i, p) ==
    LET pushed(s) == handleCanPullPacketChanged(
                        processpfccommand(n, Q!Pushed(s, p, PacketOf(i)), p))
    IN  {CASE outcome = "drop"   -> [n EXCEPT !.dropped = @ \cup {p}]
           [] outcome = "free"   -> pushed(n.sw)
           [] outcome = "charge" -> pushed(Q!Charged(n.sw, PacketOf(i)))
         : outcome \in Q!BufferManagement(n.sw, p, PacketOf(i))}

-----------------------------------------------------------------------------
(***************************************************************************)
(* The upstream ports.                                                     *)
(***************************************************************************)
\* HiPriorityScheduler: the priorities canPullSomePacket and schedulePacket
\* find, when the queues of port i hold b.
Pullable_IgnoresPause(i, b) == {p \in Priorities : b[p] > 0}

Pullable_EmptyToo(i, b) == {p \in Priorities : b[p] >= 0 /\ ~ispaused[i][p]}

Pullable(i, b) == {p \in Priorities : b[p] > 0 /\ ~ispaused[i][p]}

\* PFC frames on a wire after one more data frame was started in the meantime.
Aged(w) == [k \in DOMAIN w |-> [w[k] EXCEPT !.overtaken = @ + 1]]

\* The MAC of port i is free and its queues hold b: it starts the first frame
\* that can be pulled, or is idle; after stopTime it deletes that frame and is
\* idle.  The bounds on the wires say that what was sent long before has arrived
\* by now.
StartsFrame(i, b) ==
    LET p == CHOOSE x \in Pullable(i, b) : \A y \in Pullable(i, b) : x <= y
    IN  IF Pullable(i, b) = {}
        THEN /\ backlog' = [backlog EXCEPT ![i] = b]
             /\ upBusy' = [upBusy EXCEPT ![i] = FALSE]
             /\ UNCHANGED <<d, wire>>
        ELSE /\ backlog' = [backlog EXCEPT ![i] = [b EXCEPT ![p] = @ - 1]]
             /\ upBusy' = [upBusy EXCEPT ![i] = ~upStopped[i]]
             /\ IF upStopped[i]
                THEN UNCHANGED <<d, wire>>
                ELSE /\ Len(wire[i]) < WireFrames
                     /\ \A k \in 1..Len(d.pfcWire[i]) :
                            d.pfcWire[i][k].overtaken < PfcDelay
                     /\ wire' = [wire EXCEPT ![i] = Append(@, p)]
                     /\ d' = [d EXCEPT !.pfcWire[i] = Aged(@)]

-----------------------------------------------------------------------------
Init ==
    /\ d = [sw      |-> [shared   |-> SharedBuffer,
                         queue    |-> [p \in Priorities |-> <<>>],
                         paused   |-> [p \in Priorities |-> {}],
                         markNext |-> [p \in Priorities |-> FALSE]],
            egBusy  |-> FALSE,
            macBusy |-> [i \in Ifaces |-> FALSE],
            pfcWire |-> [i \in Ifaces |-> <<>>],
            lost    |-> [i \in Ifaces |-> [p \in Priorities |-> FALSE]],
            dropped |-> {}]
    /\ backlog = [i \in Ifaces |-> [p \in Priorities |-> 0]]
    /\ ispaused = [i \in Ifaces |-> [p \in Priorities |-> FALSE]]
    /\ upBusy = [i \in Ifaces |-> FALSE]
    /\ wire = [i \in Ifaces |-> <<>>]
    /\ sent = 0
    /\ egStopped = FALSE
    /\ upStopped = [i \in Ifaces |-> FALSE]

\* A packet of priority p is pushed into a queue of upstream port i, which
\* wakes the MAC (handleCanPullPacketChanged).
UpstreamPush(i, p) ==
    LET b == [backlog[i] EXCEPT ![p] = @ + 1] IN
    /\ sent < Packets
    /\ sent' = sent + 1
    /\ IF upBusy[i]
       THEN /\ backlog' = [backlog EXCEPT ![i] = b]
            /\ UNCHANGED <<d, upBusy, wire>>
       ELSE StartsFrame(i, b)
    /\ UNCHANGED <<ispaused, clocks>>

\* The gap after a frame of upstream port i is over (handleEndIFGPeriod).
UpstreamEndIFG(i) ==
    /\ upBusy[i]
    /\ StartsFrame(i, backlog[i])
    /\ UNCHANGED <<ispaused, sent, clocks>>

\* A data frame reaches the switch.
FrameArrives(i) ==
    /\ wire[i] # <<>>
    /\ d' \in Arrived(d, i, Head(wire[i]))
    /\ wire' = [wire EXCEPT ![i] = Tail(@)]
    /\ UNCHANGED <<backlog, ispaused, upBusy, sent, clocks>>

\* A PFC frame reaches upstream port i: processpfcframe sets or clears the
\* flag of its priority and calls nothing else.
Paused_ResumesAll(i, f) ==
    IF f.op = "PAUSE" THEN [ispaused[i] EXCEPT ![f.priority] = TRUE]
    ELSE [p \in Priorities |-> FALSE]

Paused_Latched(i, f) == [ispaused[i] EXCEPT ![f.priority] = @ \/ f.op = "PAUSE"]

Paused(i, f) == [ispaused[i] EXCEPT ![f.priority] = f.op = "PAUSE"]

processpfcframe(i) ==
    /\ d.pfcWire[i] # <<>>
    /\ ispaused' = [ispaused EXCEPT ![i] = Paused(i, Head(d.pfcWire[i]))]
    /\ d' = [d EXCEPT !.pfcWire[i] = Tail(@)]
    /\ UNCHANGED <<backlog, upBusy, wire, sent, clocks>>

\* The switch's MAC towards upstream port i starts a frame of its own traffic.
ReverseFrame(i) ==
    /\ ~d.macBusy[i]
    /\ d' = [d EXCEPT !.macBusy[i] = TRUE]
    /\ UNCHANGED <<backlog, ispaused, upBusy, wire, sent, clocks>>

\* The gap after a frame of that MAC is over.
ReverseEndIFG(i) ==
    /\ d.macBusy[i]
    /\ d' = [d EXCEPT !.macBusy[i] = FALSE]
    /\ UNCHANGED <<backlog, ispaused, upBusy, wire, sent, clocks>>

\* The gap after a frame of the egress MAC is over: it dequeues the next.
AfterIFG_Idle(n) == [n EXCEPT !.egBusy = FALSE]

AfterIFG(n) == Dequeued(n)

EgressEndIFG ==
    /\ d.egBusy
    /\ d' = AfterIFG(d)
    /\ UNCHANGED <<backlog, ispaused, upBusy, wire, sent, clocks>>

\* The clock passes stopTime of a MAC, a parameter of each.
StopTimePasses ==
    /\ \/ ~egStopped /\ egStopped' = TRUE /\ UNCHANGED upStopped
       \/ \E i \in Ifaces : /\ ~upStopped[i]
                            /\ upStopped' = [upStopped EXCEPT ![i] = TRUE]
                            /\ UNCHANGED egStopped
    /\ UNCHANGED <<d, backlog, ispaused, upBusy, wire, sent>>

Next ==
    \/ \E i \in Ifaces :
          \/ \E p \in Priorities : UpstreamPush(i, p)
          \/ UpstreamEndIFG(i)
          \/ FrameArrives(i)
          \/ processpfcframe(i)
          \/ ReverseFrame(i)
          \/ ReverseEndIFG(i)
    \/ EgressEndIFG
    \/ StopTimePasses

Spec == Init /\ [][Next]_vars

\* The gaps of the egress MAC end and PFC frames are delivered: the simulator
\* runs every event that it has scheduled.  That is all the properties need of
\* it; nothing makes the environment push packets.
Fairness == WF_vars(EgressEndIFG) /\ \A i \in Ifaces : WF_vars(processpfcframe(i))

FairSpec == Spec /\ Fairness

-----------------------------------------------------------------------------
(***************************************************************************)
(* Properties.                                                             *)
(***************************************************************************)
\* Types: no backlog is overdrawn, the wires carry what their readers expect.
Switches ==
    [sw      : [shared   : Int,
                queue    : [Priorities -> Seq(PacketsOf)],
                paused   : [Priorities -> SUBSET Ifaces],
                markNext : [Priorities -> BOOLEAN]],
     egBusy  : BOOLEAN,
     macBusy : [Ifaces -> BOOLEAN],
     pfcWire : [Ifaces -> Seq([op        : {"PAUSE", "RESUME"},
                               priority  : Priorities,
                               overtaken : Nat])],
     lost    : [Ifaces -> [Priorities -> BOOLEAN]],
     dropped : SUBSET Priorities]

TypeOK ==
    /\ d \in Switches
    /\ backlog \in [Ifaces -> [Priorities -> 0..Packets]]
    /\ ispaused \in [Ifaces -> [Priorities -> BOOLEAN]]
    /\ upBusy \in [Ifaces -> BOOLEAN]
    /\ wire \in [Ifaces -> Seq(Priorities)]
    /\ sent \in 0..Packets
    /\ egStopped \in BOOLEAN
    /\ upStopped \in [Ifaces -> BOOLEAN]

\* What a port that holds flag b for priority p will hold once the PFC frames w
\* have arrived: the operation of the last of them that is for p.
AfterFrames(w, b, p) ==
    LET LastFor(k) == \A j \in (k + 1)..Len(w) : w[j].priority # p
    IN  \/ LastFor(0) /\ b
        \/ \E k \in 1..Len(w) : w[k].priority = p /\ w[k].op = "PAUSE" /\ LastFor(k)

WillBePaused(i, p) == AfterFrames(d.pfcWire[i], ispaused[i][p], p)

\* The pause set of a queue and the upstream scheduler agree, up to the frames
\* under way, whatever the order of arrivals, pulls and deliveries -- unless
\* the last command was dropped by the MAC that should have sent it.
PausesAgree ==
    \A i \in Ifaces, p \in Priorities :
        d.lost[i][p] \/ (WillBePaused(i, p) <=> i \in d.sw.paused[p])

\* PFC is there to make the queue lossless: with room for the frames that are
\* under way beyond XOFF, a packet is dropped only after a PAUSE was lost.
LosslessUnlessPauseLost ==
    [][\A p \in d'.dropped \ d.dropped : \E i \in Ifaces : d.lost[i][p]]_vars

\* The thresholds that PFC is configured with for that: a queue that resumes
\* the ports is below XOFF again, and dataCapacity lies as far beyond XOFF as
\* the upstream ports can overshoot.
HeadroomSuffices ==
    /\ IsFiniteSet(Ifaces)
    /\ XON < XOFF
    /\ \/ DataCapacity = -1
       \/ XOFF + Cardinality(Ifaces) * (WireFrames + PfcDelay) - 2 <= DataCapacity

\* Until stopTime the egress port never idles on a backlog: every packet pushed
\* either finds the MAC at work or wakes it.
EgressWorkConserving ==
    \A p \in Priorities : d.sw.queue[p] # <<>> => d.egBusy \/ egStopped

\* A pause ends: the queue that asked for it drains and resumes the port,
\* unless the RESUME is the command that the busy MAC dropped, or stopTime has
\* come and the egress port sends no more.
PauseEnds ==
    \A i \in Ifaces, p \in Priorities :
        ispaused[i][p] ~> (~ispaused[i][p] \/ d.lost[i][p] \/ egStopped)
=============================================================================
