---------------------------- MODULE REDPFCQueue ----------------------------
(***************************************************************************)
(* The REDPFCQueue objects of one switch (HiNA/Ethernet/HiQueue/           *)
(* REDPFCQueue): the priority queues of its ports.  They share one static  *)
(* counter, sharedBuffer[switchid], that buffer management charges when a  *)
(* queue grows past its own dataCapacity and credits when packets leave.   *)
(* Each queue asks the upstream ports for a priority pause (PFC) when it   *)
(* fills, lets them go when it drains, and marks ECN by RED on departure.  *)
(*                                                                         *)
(* A packet is what these decisions read of it: its length, the interface  *)
(* it came in by, its ECN code and whether its name contains "UData".      *)
(* Lengths count in one unit (the code mixes bits and bytes, 1 B = 8 b).   *)
(*                                                                         *)
(* The state of the switch is one record and every handler is an operator  *)
(* from records to records: the code nests pullPacket in pushPacket (the   *)
(* collector pulls from inside handleCanPullPacketChanged), and a module   *)
(* that composes this one nests the operators the same way.                *)
(***************************************************************************)
EXTENDS Integers, Sequences, PrefixSum

CONSTANTS
    NumQueues,       \* queues of the switch
    PortOf,          \* [Queues -> port]: the interface a queue belongs to
    Ifaces,          \* interfaces that packets come in by
    Traffic,         \* the packets that may arrive
    PacketCapacity,  \* packetCapacity, or NoLimit
    DataCapacity,    \* dataCapacity, or NoLimit
    SharedBuffer,    \* sharedBuffer, the switch's shared memory
    AlphaNum,        \* alpha = AlphaNum / AlphaDen
    AlphaDen,
    Headroom,        \* headroom
    UsePfc,          \* usePfc
    XON, XOFF,       \* XON, XOFF
    UseEcn,          \* useEcn
    Kmin, Kmax,      \* Kmin, Kmax
    Pmax,            \* Pmax, in percent
    SDrop,           \* S_drop, 0: off
    OtherLengths,    \* what a port's credit and best-effort queue may hold
    MaxLen,          \* bound: packets in one queue (environment)
    MaxShared        \* bound: arrivals stop once sharedBuffer is above it

NoLimit  == -1
Queues   == 1..NumQueues
EcnCodes == {"NOT_ECT", "ECT", "CE"}

ASSUME SwitchAssumption ==
    /\ NumQueues \in Nat \ {0}
    /\ \A p \in Traffic : /\ p.len \in Nat \ {0}
                          /\ p.iface \in Ifaces
                          /\ p.ecn \in EcnCodes
                          /\ p.udata \in BOOLEAN
    /\ PacketCapacity \in Nat \cup {NoLimit}
    /\ DataCapacity \in Nat \cup {NoLimit}
    /\ SharedBuffer \in Nat
    /\ AlphaNum \in Nat /\ AlphaDen \in Nat \ {0}
    /\ Headroom \in Nat
    /\ XON \in Nat /\ XOFF \in Nat
    /\ Kmin \in Nat /\ Kmax \in Nat /\ Pmax \in 0..100
    /\ SDrop \in Nat /\ OtherLengths \subseteq Nat
    /\ UsePfc \in BOOLEAN /\ UseEcn \in BOOLEAN

VARIABLES
    sw,    \* [shared, queue, paused, markNext] of the switch's queues
    out    \* the ECN code of the packet that pullPacket returned last

vars == <<sw, out>>

-----------------------------------------------------------------------------
(***************************************************************************)
(* Buffer management.                                                      *)
(***************************************************************************)
\* The part of a queue's length that lies beyond its own dataCapacity.
Excess(s, q) ==
    LET n == Length(s.queue[q]) - DataCapacity IN IF n > 0 THEN n ELSE 0

TotalExcess(s) == SumTo([q \in Queues |-> Excess(s, q)], NumQueues)

isOverloaded(s, q) ==
    \/ PacketCapacity # NoLimit /\ Len(s.queue[q]) > PacketCapacity
    \/ DataCapacity # NoLimit /\ Length(s.queue[q]) > DataCapacity

\* What WrrScheduler::getTotalLength may be for the port of q: its priority
\* queues, and what waits in its other queues at the time.
PortLengths(s, q) ==
    LET prioritized(r) == IF PortOf[r] = PortOf[q] THEN Length(s.queue[r]) ELSE 0
    IN  {SumTo([r \in Queues |-> prioritized(r)], NumQueues) + n : n \in OtherLengths}

\* What maxSize allows: the uint64_t maxSize turns a negative left-hand side
\* into a huge one, and a negative alpha * shared into either (undefined).
Fits_LengthForgotten(s, q, p) ==
    LET need  == Length(s.queue[q]) - DataCapacity
        limit == (AlphaNum * s.shared) \div AlphaDen
    IN  IF limit < 0 THEN BOOLEAN ELSE {need >= 0 /\ need <= limit}

Fits(s, q, p) ==
    LET need  == Length(s.queue[q]) - DataCapacity + p.len
        limit == (AlphaNum * s.shared) \div AlphaDen
    IN  IF limit < 0 THEN BOOLEAN ELSE {need >= 0 /\ need <= limit}

\* The outcomes of BufferManagement: the packet is dropped, admitted within
\* dataCapacity for free, or admitted and charged to the shared buffer.
BufferManagement(s, q, p) ==
    UNION {IF SDrop > 0 /\ p.udata /\ n > SDrop THEN {"drop"}
           ELSE IF ~isOverloaded(s, q) THEN {"free"}
           ELSE {IF fits THEN "charge" ELSE "drop" : fits \in Fits(s, q, p)}
           : n \in PortLengths(s, q)}

Charged(s, p) == [s EXCEPT !.shared = @ - p.len]

-----------------------------------------------------------------------------
(***************************************************************************)
(* pushPacket and pullPacket.  The pfcPaused signals a call emits are the  *)
(* differences it makes to paused: PAUSE(q, i) for every interface i it    *)
(* adds, RESUME(q, i) for every one it takes out.                          *)
(***************************************************************************)
PauseDue(n, free) == n >= XOFF \/ (n > DataCapacity /\ free < Headroom)

Pushed_PriorityForIface(s, q, p) ==
    LET longer == Append(s.queue[q], p)
        asked  == IF UsePfc /\ PauseDue(Length(longer), s.shared)
                  THEN s.paused[q] \cup {q} ELSE s.paused[q]
    IN  [shared   |-> s.shared,
         queue    |-> [s.queue EXCEPT ![q] = longer],
         paused   |-> [s.paused EXCEPT ![q] = asked],
         markNext |-> s.markNext]

Pushed(s, q, p) ==
    LET longer == Append(s.queue[q], p)
        asked  == IF UsePfc /\ PauseDue(Length(longer), s.shared)
                  THEN s.paused[q] \cup {p.iface} ELSE s.paused[q]
    IN  [shared   |-> s.shared,
         queue    |-> [s.queue EXCEPT ![q] = longer],
         paused   |-> [s.paused EXCEPT ![q] = asked],
         markNext |-> s.markNext]

\* What leaves the shared buffer's account with the first packet of q.
Release_AfterPop(s, q) ==
    LET n == Length(Tail(s.queue[q]))
        p == Head(s.queue[q])
    IN  IF n - DataCapacity >= p.len THEN p.len
        ELSE IF n >= DataCapacity THEN n - DataCapacity
        ELSE 0

Release(s, q) ==
    LET n == Length(s.queue[q])
        p == Head(s.queue[q])
    IN  IF n - DataCapacity >= p.len THEN p.len
        ELSE IF n >= DataCapacity THEN n - DataCapacity
        ELSE 0

ResumeDue_BelowXON(n, free) == n < XON /\ (n < DataCapacity \/ free > Headroom)

ResumeDue(n, free) == n <= XON /\ (n < DataCapacity \/ free > Headroom)

\* doRandomEarlyDetection on the n that the packet leaves behind: whether the
\* result may be "above the limit".  Between Kmin and Kmax it is drawn with
\* probability Pmax * (n - Kmin) / (Kmax - Kmin), which is 0 at Kmin.
AboveLimit(n) ==
    {above \in BOOLEAN : IF Kmin <= n /\ n < Kmax
                           THEN above => (n > Kmin /\ Pmax > 0)
                           ELSE above <=> n >= Kmax}

\* The ECN code and the markNext flag after the switch on lastResult.
Marked_NotEctToo(above, ecn, next) ==
    IF ~UseEcn \/ ~above THEN [ecn |-> ecn, next |-> next]
    ELSE [ecn |-> "CE", next |-> ecn = "CE"]

Marked(above, ecn, next) ==
    IF ~UseEcn \/ ~above \/ ecn = "NOT_ECT" THEN [ecn |-> ecn, next |-> next]
    ELSE IF next /\ ecn # "CE" THEN [ecn |-> "CE", next |-> FALSE]
    ELSE IF ecn = "CE" THEN [ecn |-> ecn, next |-> TRUE]
    ELSE [ecn |-> "CE", next |-> next]

\* The queues after the first packet of q was pulled, RED having said above.
Pulled(s, q, above) ==
    LET rest == Tail(s.queue[q])
        free == s.shared + Release(s, q)
        asked == IF UsePfc /\ ResumeDue(Length(rest), free) THEN {} ELSE s.paused[q]
        mark == Marked(above, Head(s.queue[q]).ecn, s.markNext[q])
    IN  [shared   |-> free,
         queue    |-> [s.queue EXCEPT ![q] = rest],
         paused   |-> [s.paused EXCEPT ![q] = asked],
         markNext |-> [s.markNext EXCEPT ![q] = mark.next]]

-----------------------------------------------------------------------------
Init ==
    /\ sw = [shared   |-> SharedBuffer,
             queue    |-> [q \in Queues |-> <<>>],
             paused   |-> [q \in Queues |-> {}],
             markNext |-> [q \in Queues |-> FALSE]]
    /\ out = "NOT_ECT"

\* handleMessage: a packet from the classifier is dropped or pushed.
handleMessage(q, p) ==
    /\ Len(sw.queue[q]) < MaxLen
    /\ sw.shared <= MaxShared
    /\ \E outcome \in BufferManagement(sw, q, p) :
          sw' = CASE outcome = "drop"   -> sw
                  [] outcome = "free"   -> Pushed(sw, q, p)
                  [] outcome = "charge" -> Pushed(Charged(sw, p), q, p)
    /\ UNCHANGED out

\* pullPacket: the collector takes the first packet.
pullPacket(q) ==
    /\ sw.queue[q] # <<>>
    /\ \E above \in AboveLimit(Length(Tail(sw.queue[q]))) :
          /\ sw' = Pulled(sw, q, above)
          /\ out' = Marked(above, Head(sw.queue[q]).ecn, sw.markNext[q]).ecn

Next ==
    \E q \in Queues : \/ \E p \in Traffic : handleMessage(q, p)
                      \/ pullPacket(q)

Spec == Init /\ [][Next]_vars

-----------------------------------------------------------------------------
(***************************************************************************)
(* Properties.                                                             *)
(***************************************************************************)
\* Types: in particular paused holds interfaces (not priorities), which is
\* what the MACs compare the signals with.
TypeOK ==
    /\ sw \in [shared   : Int,
               queue    : [Queues -> Seq(Traffic)],
               paused   : [Queues -> SUBSET Ifaces],
               markNext : [Queues -> BOOLEAN]]
    /\ out \in EcnCodes

\* The shared buffer never loses memory: what is free and what the queues
\* hold beyond dataCapacity make up at least the configured size, whatever
\* the order in which pullPacket credits packets that buffer management
\* charged one by one with other lengths.
PoolNotLeaked == sw.shared + TotalExcess(sw) >= SharedBuffer

\* Buffer management never grants memory that is not there.
PoolNotOverdrawn == sw.shared >= 0

\* An upstream port is kept paused only by a queue that still holds packets:
\* once the queue is empty no pullPacket is left to send the RESUME.
PausedOnlyIfBacklogged == \A q \in Queues : sw.paused[q] # {} => sw.queue[q] # <<>>

\* RED marking on departure: a packet that is not ECN capable never leaves as
\* CE, a CE mark of an earlier hop is never erased, below Kmin nothing is
\* marked, and from Kmax on every ECN capable packet leaves as CE whatever
\* markNext has been deferred.
Departs(q) == Len(sw'.queue[q]) < Len(sw.queue[q])

EcnStep(q) ==
    LET ecn == Head(sw.queue[q]).ecn
        n   == Length(sw'.queue[q])
    IN  /\ (ecn = "NOT_ECT" \/ n < Kmin) => out' = ecn
        /\ ecn = "CE" => out' = "CE"
        /\ (UseEcn /\ ecn # "NOT_ECT" /\ n >= Kmax) => out' = "CE"

EcnMarking == [][\A q \in Queues : Departs(q) => EcnStep(q)]_vars

\* ABMQueue.cc and BufferManagement read sharedBuffer[switchid] as "the
\* remaining size of the switch's shared buffer": it cannot remain more than
\* there is.
PoolWithinConfigured == sw.shared <= SharedBuffer
=============================================================================
