------------------------------ MODULE HiQueue ------------------------------
(***************************************************************************)
(* The queues of a switch port as their MAC sees them (HiQueue.ned): the   *)
(* credit queue, which a RateLimitQueue slows down to a share of the link, *)
(* the best-effort queue and the priority queues, and the WrrScheduler that *)
(* chooses between them.                                                   *)
(*                                                                         *)
(*   HiClassifier --> beQueue ------\                                      *)
(*                --> creditQueue ---> WrrScheduler --> MAC                *)
(*                --> Priority_0..7 /                                      *)
(*                                                                         *)
(* Besides the queue that holds the credits, any number of providers have  *)
(* packets for the scheduler, with any weights (HiQueue.ned has one each   *)
(* and gives all of them weight 1).  One is the HiPriorityScheduler, of    *)
(* whose queues one is in use; PFC frames pause and resume it.             *)
(*                                                                         *)
(* Time is discrete.  Credits differ in length, and the length of one is   *)
(* given by mintime, the time that the rate of the queue reserves for it.  *)
(* The transmitter is idle or has a frame and the gap after it to send     *)
(* (HiEthernetMac.tla has the rest of its state, PfcLink.tla several       *)
(* priorities and the port that pauses them); after stopTime it deletes    *)
(* what it takes.                                                          *)
(***************************************************************************)
EXTENDS WrrScheduler, PrefixSum

CONSTANTS
    Credits,        \* the inputs of the WrrScheduler from the credit queue and
    Prioritized,    \*     from the HiPriorityScheduler
    Watched,        \* the providers whose wait is counted
    CreditTimes,    \* mintime of the credits
    MaxTime,        \* the longest
    dataCapacity,   \* of the credit queue, in the same unit or None, and
    packetCapacity, \*     the credits it holds at most, or None
    CreditTx,       \* how long a credit, and any other packet, keeps the
    DataTx,         \*     transmitter busy
    MaxWaiting      \* bound: packets in each of the other queues

None == -1

ASSUME HiQueueAssumption ==
    /\ Credits \in Providers /\ Prioritized \in Providers \ {Credits}
    /\ Watched \subseteq Providers
    /\ MaxTime \in Nat /\ CreditTimes \subseteq 1..MaxTime
    /\ dataCapacity = None \/ (dataCapacity \in Nat /\ MaxTime <= dataCapacity)
    /\ packetCapacity = None \/ packetCapacity \in Nat \ {0}
    /\ CreditTx \in Nat \ {0} /\ DataTx \in Nat \ {0}
    /\ MaxWaiting \in Nat

VARIABLES
    creditQueue,   \* mintime of the credits that wait
    interval,      \* time since lasttime, up to MaxTime
    canpull,       \* time until the timer of that name expires, None
    waiting,       \* packets in the other queues
    ispaused,      \* the priority in use is paused
    buckets,       \* buckets[i], the tokens of provider i
    txleft,        \* time until the transmitter has sent frame and gap, None
    stopped,       \* simTime() > stopTime
    early,         \* the first credit came to an empty queue within its
                   \* mintime after the last (history variable)
    passed         \* passed[i][j], for i with a weight: pulls from j with i
                   \* ready, since i was served or not ready at a pull
                   \* (history variable)

queueVars == <<creditQueue, interval, canpull, early>>
wrrVars == <<buckets, passed>>
vars == <<queueVars, waiting, ispaused, wrrVars, txleft, stopped>>

Others == Providers \ {Credits}

NonePassed == [j \in Providers |-> 0]

\* RateLimitQueue::isOverloaded, with the first n of the credits q.
isOverloaded(q, n) ==
    \/ packetCapacity # None /\ n > packetCapacity
    \/ dataCapacity # None /\ SumTo(q, n) > dataCapacity

-----------------------------------------------------------------------------
Init ==
    /\ creditQueue = <<>>
    /\ interval = 0
    /\ canpull = None
    /\ waiting = [i \in Others |-> 0]
    /\ ispaused = FALSE
    /\ buckets = Weights
    /\ txleft = None
    /\ stopped = FALSE
    /\ early = FALSE
    /\ passed = [i \in Watched |-> NonePassed]

\* RateLimitQueue::canPullSomePacket, for credits q.
CanPullCredit(q) == q # <<>> /\ interval >= Head(q)

\* The providers that have a packet for the scheduler: w[i] packets in queue i,
\* if the HiPriorityScheduler does not skip it.
Pullable(q, w) ==
    {i \in Providers : IF i = Credits THEN CanPullCredit(q)
                       ELSE w[i] > 0 /\ ~(i = Prioritized /\ ispaused)}

\* RateLimitQueue::pullPacket: with credits left the timer is set anew, without
\* one that is scheduled stays.
pullPacket_OldFront(q, timer) ==
    /\ creditQueue' = Tail(q)
    /\ interval' = 0
    /\ canpull' = IF Len(q) > 1 THEN q[1] ELSE timer
    /\ early' = FALSE

pullPacket_NoTimer(q, timer) ==
    /\ creditQueue' = Tail(q)
    /\ interval' = 0
    /\ canpull' = timer
    /\ early' = FALSE

pullPacket(q, timer) ==
    /\ creditQueue' = Tail(q)
    /\ interval' = 0
    /\ canpull' = IF Len(q) > 1 THEN q[2] ELSE timer
    /\ early' = FALSE

\* Nothing is pulled; e tells whether the first credit came early.
Keep(q, timer, e) ==
    /\ creditQueue' = q
    /\ canpull' = timer
    /\ early' = e
    /\ UNCHANGED interval

\* WrrScheduler::pullPacket: a packet of the provider that was scheduled.  The
\* MAC sends it or, after stopTime, deletes it and is idle.
pullScheduled(q, w, timer, e) ==
    LET ready == Pullable(q, w)
        s     == schedulePacket(buckets, ready)
    IN  /\ buckets' = s.buckets
        /\ passed' = [i \in Watched |->
                         IF i \in ready \ {s.index} /\ Weights[i] > 0
                         THEN [passed[i] EXCEPT ![s.index] = passed[i][s.index] + 1]
                         ELSE NonePassed]
        /\ IF s.index = Credits
           THEN /\ pullPacket(q, timer)
                /\ waiting' = w
                /\ txleft' = IF stopped THEN None ELSE CreditTx
           ELSE /\ Keep(q, timer, e)
                /\ waiting' = [w EXCEPT ![s.index] = @ - 1]
                /\ txleft' = IF stopped THEN None ELSE DataTx

\* The idle transmitter takes the packet of the scheduler's choice, if any.
DequeueOrIdle(q, w, timer, e) ==
    IF Pullable(q, w) = {}
    THEN /\ Keep(q, timer, e)
         /\ waiting' = w
         /\ txleft' = None
         /\ UNCHANGED wrrVars
    ELSE pullScheduled(q, w, timer, e)

\* A queue has something new for the scheduler, which only an idle MAC asks.
handleCanPullPacketChanged(q, w, timer, e) ==
    IF txleft = None
    THEN DequeueOrIdle(q, w, timer, e)
    ELSE Keep(q, timer, e) /\ waiting' = w /\ UNCHANGED <<wrrVars, txleft>>

\* What is left of the credits q: the last are dropped while it is too much.
Fitting(q) ==
    SubSeq(q, 1, CHOOSE n \in 0..Len(q) :
                     ~isOverloaded(q, n) /\ \A m \in (n + 1)..Len(q) : isOverloaded(q, m))

\* RateLimitQueue::pushPacket, of a credit.
PushCredit(n) ==
    LET q == Fitting(Append(creditQueue, n))
        e == early \/ (creditQueue = <<>> /\ interval < n)
    IN  handleCanPullPacketChanged(q, waiting, canpull, e)

\* A packet is pushed into one of the other queues.
PushOther(i) ==
    /\ waiting[i] < MaxWaiting
    /\ handleCanPullPacketChanged(creditQueue, [waiting EXCEPT ![i] = @ + 1], canpull, early)

\* HiClassifier::handleMessage: a packet is a credit by its name, and goes to a
\* priority queue by its tag or to the best-effort queue; one without a tag goes
\* by a variable that has no value yet.
handleMessage ==
    /\ \/ \E n \in CreditTimes : PushCredit(n)
       \/ \E i \in Others : PushOther(i)
    /\ UNCHANGED <<ispaused, stopped>>

\* HiPriorityScheduler::processpfcframe, of a PAUSE or RESUME: the MAC is not
\* told that there may be something to pull.
processpfcframe ==
    /\ ispaused' \in BOOLEAN
    /\ UNCHANGED <<queueVars, waiting, wrrVars, txleft, stopped>>

\* RateLimitQueue::handleMessage, of the canpull timer.
CanPullExpires ==
    /\ canpull = 0
    /\ IF creditQueue # <<>>
       THEN handleCanPullPacketChanged(creditQueue, waiting, None, early)
       ELSE Keep(creditQueue, None, early) /\ UNCHANGED <<waiting, wrrVars, txleft>>
    /\ UNCHANGED <<ispaused, stopped>>

\* The gap after a frame ends.
handleEndIFGPeriod ==
    /\ txleft = 0
    /\ DequeueOrIdle(creditQueue, waiting, canpull, early)
    /\ UNCHANGED <<ispaused, stopped>>

\* The clock passes stopTime.
StopTimePasses ==
    /\ ~stopped
    /\ stopped' = TRUE
    /\ UNCHANGED <<queueVars, waiting, ispaused, wrrVars, txleft>>

\* Time passes when no event is due.
Tick ==
    /\ canpull # 0 /\ txleft # 0
    /\ interval < MaxTime \/ canpull # None \/ txleft # None
    /\ interval' = IF interval < MaxTime THEN interval + 1 ELSE interval
    /\ canpull' = IF canpull = None THEN None ELSE canpull - 1
    /\ txleft' = IF txleft = None THEN None ELSE txleft - 1
    /\ UNCHANGED <<creditQueue, early, waiting, ispaused, wrrVars, stopped>>

Next ==
    \/ handleMessage \/ processpfcframe
    \/ CanPullExpires \/ handleEndIFGPeriod \/ StopTimePasses \/ Tick

Spec == Init /\ [][Next]_vars

\* The simulator executes what is scheduled, and time goes on.
FairSpec ==
    Spec /\ WF_vars(CanPullExpires) /\ WF_vars(handleEndIFGPeriod) /\ WF_vars(Tick)

-----------------------------------------------------------------------------
(***************************************************************************)
(* Properties.                                                             *)
(***************************************************************************)
\* Types, and what ASSERT(!isOverloaded()) in pushPacket says.  The code keeps
\* buckets in an unsigned int: a count that went below zero would give its
\* provider four billion packets in a row.
TypeOK ==
    /\ creditQueue \in Seq(CreditTimes)
    /\ ~isOverloaded(creditQueue, Len(creditQueue))
    /\ interval \in 0..MaxTime
    /\ canpull \in {None} \cup 0..MaxTime
    /\ waiting \in [Others -> 0..MaxWaiting]
    /\ ispaused \in BOOLEAN
    /\ buckets \in [Providers -> Nat]
    /\ \A i \in Providers : buckets[i] <= Weights[i]
    /\ txleft \in {None} \cup 0..CreditTx \cup 0..DataTx
    /\ stopped \in BOOLEAN
    /\ early \in BOOLEAN
    /\ passed \in [Watched -> [Providers -> Nat]]

\* Until stopTime the MAC does not idle on a credit that is due, or will be: the
\* timer of the credit queue is still to come.  The exception is a credit that came to the
\* empty queue within its mintime after the last pull: pushPacket announces it
\* before it may go, nothing announces it afterwards, and it stays until other
\* traffic makes the MAC ask again.
CreditNotOverlooked ==
    txleft = None /\ creditQueue # <<>> => canpull # None \/ early \/ stopped

\* However credits of different lengths follow each other, and whatever the MAC
\* sends in between, the timer that is scheduled for the first of them expires
\* the moment it may go: not before, when its announcement would be in vain, and
\* not later, which would cost the flow some of its rate.
TimerMatchesFirst ==
    creditQueue # <<>> /\ canpull # None /\ ~early => interval + canpull = Head(creditQueue)

\* No provider with a weight starves: however the other providers come and
\* go, while it has a packet at every pull each of them is served at most twice
\* its weight (and a provider of weight 0 not at all) before it is its turn.
BoundedBypass ==
    \A i \in Watched, j \in Providers : Weights[i] > 0 => passed[i][j] <= 2 * Weights[j]

\* The credits that wait get through, however much other traffic there is.
CreditsLeave == creditQueue # <<>> ~> (interval = 0 \/ early \/ stopped)
=============================================================================
