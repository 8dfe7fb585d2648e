-------------------------------- MODULE Link --------------------------------
(***************************************************************************)
(* A route of the simulator: Hops output queues (queue.cpp, with the       *)
(* random drops of randomqueue.cpp), each followed by a propagation pipe   *)
(* (pipe.cpp), driven by the event list.  A traffic source, external to    *)
(* this module, puts packets on the route at event times.                  *)
(*                                                                         *)
(* One step is one event: the handler runs to completion, with every       *)
(* synchronous receivePacket call it makes.  The handlers are operators on *)
(* a record of the simulator's state, applied in the order of the calls.   *)
(*                                                                         *)
(* One queue has a sampling logger.  The logger schedules itself for ever, *)
(* so it exists in the simulations that have an end time, as those of the  *)
(* experiments do.                                                         *)
(***************************************************************************)
EXTENDS EventList, QueueLogger, Sums

CONSTANTS
    Hops,          \* queue-and-pipe pairs on the route
    PsPerByte,     \* [1 .. Hops -> Nat]: _ps_per_byte of each queue
    MaxSize,       \* [1 .. Hops -> Nat]: _maxsize of each queue
    EcnThreshold,  \* [1 .. Hops -> Nat]: dctcpThreshold() of each queue
    Delay,         \* [1 .. Hops -> Nat]: _delay of each pipe
    EarlyDrop,     \* hops whose queue is a RandomQueue
    DropThreshold, \* RandomQueue::_drop_th
    Logged,        \* the hop whose queue was given the logger
    LogsArrivals,  \* hops whose discipline logs the packets it accepts: not
                   \* a StocFairQueue, a FIFO for the packets of one flow
    LogPeriod,     \* QueueLoggerSampling::_period
    Endtimes,      \* what an experiment may call setEndtime with, or 0
    Packets,       \* bound: packets the source sends
    Sizes,         \* bytes a packet may have
    Gaps           \* times the source may leave between two packets

HopSet == 1 .. Hops

ASSUME LinkAssumption ==
    /\ Hops \in Nat \ {0} /\ Packets \in Nat \ {0} /\ Endtimes \subseteq Nat
    /\ {PsPerByte, MaxSize, EcnThreshold, Delay} \subseteq [HopSet -> Nat]
    /\ EarlyDrop \subseteq HopSet /\ DropThreshold \in Nat
    /\ Logged \in HopSet /\ LogsArrivals \subseteq HopSet
    /\ LogPeriod \in Nat \ {0}
    /\ Sizes \subseteq Nat \ {0} /\ Gaps \subseteq Nat

VARIABLES
    endtime,     \* EventList::_endtime
    now,         \* EventList::_lasteventtime
    pending,     \* EventList::_pendingsources
    enqueued,    \* Queue::_enqueued of each hop, next to be served first
    queuesize,   \* Queue::_queuesize of each hop
    inflight,    \* Pipe::_inflight of each hop, next to leave first
    log,         \* the logger of queue Logged
    sampled,     \* history: that queue's size when the logger last looked
    sent,        \* packets the source has sent
    dropped,     \* packets dropped by a queue
    delivered    \* packets that reached the end of the route, with the time

vars == <<endtime, now, pending, enqueued, queuesize, inflight, log, sampled,
          sent, dropped, delivered>>

Source == <<"source", 0>>
Queue(h) == <<"queue", h>>
Pipe(h) == <<"pipe", h>>
Logger == <<"logger", 0>>

PacketIds == 1 .. Packets

\* The state the handlers work on.
Now == [pending |-> pending, enqueued |-> enqueued, queuesize |-> queuesize,
        inflight |-> inflight, log |-> log, dropped |-> dropped,
        delivered |-> delivered]

Become(s) ==
    /\ pending' = s.pending
    /\ enqueued' = s.enqueued
    /\ queuesize' = s.queuesize
    /\ inflight' = s.inflight
    /\ log' = s.log
    /\ dropped' = s.dropped
    /\ delivered' = s.delivered

Schedule(s, at, src) ==
    [s EXCEPT !.pending = SourceIsPending(@, endtime, at, src)]

----------------------------------------------------------------------------
(* Queue *)

DrainTime(h, p) == p.size * PsPerByte[h]

HasLogger(h) == h = Logged /\ endtime # 0

\* The call of _logger->logQueue, where there is a logger.
Logs(s, h, ev, p, t) ==
    IF HasLogger(h)
    THEN [s EXCEPT !.log = LogQueue(@, ev, s.queuesize[h], p.size,
                                    DrainTime(h, p), t)]
    ELSE s

BeginService(s, h, t) ==
    Schedule(s, t + DrainTime(h, Head(s.enqueued[h])), Queue(h))

\* Mutant: the size of the queue is compared without the new packet.
OverflowsLate(size, h, p) == size > MaxSize[h]

Overflows(size, h, p) == size + p.size > MaxSize[h]

\* Mutant: the wrong end of the list.
EnqueueAtHead(queue, p) == <<p>> \o queue

Enqueue(queue, p) == Append(queue, p)

\* A packet joins queue h, or leaves it.
Joins(s, h, p) == [s EXCEPT !.enqueued[h] = Enqueue(@, p), !.queuesize[h] = @ + p.size]
Leaves(s, h, p) == [s EXCEPT !.enqueued[h] = Tail(@), !.queuesize[h] = @ - p.size]

\* receivePacket of Queue; early is the outcome of RandomQueue's draw.
QueueReceive(s, h, p, t, early) ==
    IF Overflows(s.queuesize[h], h, p)
       \/ (early /\ h \in EarlyDrop /\ s.queuesize[h] + p.size > DropThreshold)
    THEN [Logs(s, h, "PKT_DROP", p, t) EXCEPT !.dropped = @ \cup {p.id}]
    ELSE LET a == Joins(s, h, p)
             e == IF h \in LogsArrivals THEN Logs(a, h, "PKT_ENQUEUE", p, t) ELSE a
         IN  IF s.enqueued[h] = <<>> THEN BeginService(e, h, t) ELSE e

----------------------------------------------------------------------------
(* Pipe *)

PipeReceive(s, h, p, t) ==
    LET e == IF s.inflight[h] = <<>> THEN Schedule(s, t + Delay[h], Pipe(h))
             ELSE s
    IN  [e EXCEPT !.inflight[h] = Append(@, [due |-> t + Delay[h], pkt |-> p])]

----------------------------------------------------------------------------
(* The event handlers *)

\* Mutant: the departing packet counts itself.
MarkCountsItself(s, h, p) ==
    IF s.queuesize[h] + p.size > EcnThreshold[h] THEN [p EXCEPT !.ecn = TRUE]
    ELSE p

\* applyEcnMark, on the size without the departing packet.
EcnMark(s, h, p) ==
    IF s.queuesize[h] > EcnThreshold[h] THEN [p EXCEPT !.ecn = TRUE] ELSE p

\* Mutant: the packet behind the departing one is not served.
ForgetsNextService(s, h, t) ==
    LET p == Head(s.enqueued[h])
        d == Leaves(s, h, p)
    IN  PipeReceive(Logs(d, h, "PKT_SERVICE", p, t), h, EcnMark(d, h, p), t)

\* Mutant: the departure is logged before its bytes are subtracted.
LogsServiceEarly(s, h, t) ==
    LET p == Head(s.enqueued[h])
        l == Logs(s, h, "PKT_SERVICE", p, t)
        d == Leaves(l, h, p)
        f == PipeReceive(d, h, EcnMark(d, h, p), t)
    IN  IF f.enqueued[h] # <<>> THEN BeginService(f, h, t) ELSE f

\* Queue::completeService: the packet goes straight into the hop's pipe.
CompleteService(s, h, t) ==
    LET p == Head(s.enqueued[h])
        d == Leaves(s, h, p)
        f == PipeReceive(Logs(d, h, "PKT_SERVICE", p, t), h, EcnMark(d, h, p), t)
    IN  IF f.enqueued[h] # <<>> THEN BeginService(f, h, t) ELSE f

\* Packet::sendOn at the end of a pipe: the next queue, or the destination.
SendOn(s, h, p, t, early) ==
    IF h < Hops THEN QueueReceive(s, h + 1, p, t, early)
    ELSE [s EXCEPT !.delivered = Append(@, [pkt |-> p, at |-> t])]

\* Mutant: the next packet is announced a whole delay from now.
RestartsDelay(s, h, t) == t + Delay[h]

NextDue(s, h, t) == Head(s.inflight[h]).due

\* Pipe::doNextEvent
PipeEvent(s, h, t, early) ==
    IF s.inflight[h] = <<>> THEN s
    ELSE LET d == [s EXCEPT !.inflight[h] = Tail(@)]
             f == SendOn(d, h, Head(s.inflight[h]).pkt, t, early)
         IN  IF f.inflight[h] = <<>> THEN f
             ELSE Schedule(f, NextDue(f, h, t), Pipe(h))

\* EventList::doNextEvent, for the source at the head of the pending events.
Take(src) ==
    /\ pending # <<>> /\ Head(pending).src = src
    /\ now' = Head(pending).at
    /\ UNCHANGED endtime

Rest == [Now EXCEPT !.pending = Tail(@)]

QueueEvent(h) ==
    /\ Take(Queue(h))
    /\ Become(CompleteService(Rest, h, now'))
    /\ UNCHANGED <<sampled, sent>>

PipeDelivers(h) ==
    /\ Take(Pipe(h))
    /\ \E early \in BOOLEAN : Become(PipeEvent(Rest, h, now', early))
    /\ UNCHANGED <<sampled, sent>>

\* QueueLoggerSampling::doNextEvent
LoggerEvent ==
    /\ Take(Logger)
    /\ Become([Schedule(Rest, now' + LogPeriod, Logger) EXCEPT
                  !.log = Sample(@, queuesize[Logged], now')])
    /\ sampled' = queuesize[Logged]
    /\ UNCHANGED sent

\* The source sends a packet and comes back after a gap, while it has more.
SourceEvent ==
    /\ Take(Source)
    /\ \E size \in Sizes, gap \in Gaps, early \in BOOLEAN :
          LET p == [id |-> Len(sent) + 1, size |-> size, ecn |-> FALSE]
              f == QueueReceive(Rest, 1, p, now', early)
          IN  /\ sent' = Append(sent, [size |-> size, at |-> now'])
              /\ Become(IF p.id < Packets THEN Schedule(f, now' + gap, Source)
                        ELSE f)
    /\ UNCHANGED sampled

\* The logger is created, and schedules itself, before the traffic.
Init ==
    /\ endtime \in Endtimes
    /\ now = 0
    /\ pending = (IF endtime # 0 THEN <<[at |-> 0, src |-> Logger]>> ELSE <<>>)
                   \o <<[at |-> 0, src |-> Source]>>
    /\ enqueued = [h \in HopSet |-> <<>>]
    /\ queuesize = [h \in HopSet |-> 0]
    /\ inflight = [h \in HopSet |-> <<>>]
    /\ log = NoLog
    /\ sampled = 0
    /\ sent = <<>>
    /\ dropped = {}
    /\ delivered = <<>>

Next ==
    \/ SourceEvent \/ LoggerEvent
    \/ \E h \in HopSet : QueueEvent(h) \/ PipeDelivers(h)

Spec == Init /\ [][Next]_vars

\* main calls doNextEvent until it returns false.
FairSpec == Spec /\ WF_vars(Next)

----------------------------------------------------------------------------
EventsOf(src) == {i \in 1 .. Len(pending) : pending[i].src = src}

\* A queue or pipe that holds packets has exactly one event pending, one that
\* is empty has none, so no packet is stranded and no service starts twice
\* (queue.cpp:46-48, 79-82, pipe.cpp:14-18, 35-39).  The event is missing only
\* when it falls after the end of the simulation (eventlist.cpp:79).
OneEventPerServer ==
    \A h \in HopSet :
       /\ IF enqueued[h] = <<>> THEN EventsOf(Queue(h)) = {}
          ELSE \/ Cardinality(EventsOf(Queue(h))) = 1
               \/ /\ EventsOf(Queue(h)) = {} /\ endtime # 0
                  /\ now + DrainTime(h, Head(enqueued[h])) > endtime
       /\ IF inflight[h] = <<>> THEN EventsOf(Pipe(h)) = {}
          ELSE \/ \E i \in EventsOf(Pipe(h)) :
                     /\ EventsOf(Pipe(h)) = {i}
                     /\ pending[i].at = Head(inflight[h]).due
               \/ /\ EventsOf(Pipe(h)) = {} /\ endtime # 0
                  /\ Head(inflight[h]).due > endtime

\* A packet takes at least its transmission and propagation times, and at
\* most the time to drain a full buffer at every hop: nothing overtakes it
\* and no server idles while it waits.
TransitTimeBounded ==
    \A i \in 1 .. Len(delivered) :
        LET p    == delivered[i].pkt
            took == delivered[i].at - sent[p.id].at
        IN  /\ took >= Total([h \in HopSet |-> DrainTime(h, p) + Delay[h]])
            /\ took <= Total([h \in HopSet |-> MaxSize[h] * PsPerByte[h] + Delay[h]])

\* A packet is marked only by a queue that can hold more than the threshold
\* behind it; one that never had company arrives unmarked (queue.cpp:85-91).
LonePacketIsUnmarked ==
    \A i \in 1 .. Len(delivered) :
        delivered[i].pkt.ecn =>
            \E q \in 1 .. Len(sent) :
                /\ q > delivered[i].pkt.id
                /\ sent[q].at < delivered[i].at

QueueEvents == EventsOf(Queue(Logged))

\* The logger's books account for the whole time: idle time and the drain
\* times of the packets accepted add up to the time of its last look when the
\* queue is empty, and to the time at which the queue will have drained while
\* its next departure is scheduled (loggers.cpp:54-57, 96-120).
BooksAddUp ==
    log.attached =>
        LET booked == log.cumidle + log.cumarr - log.cumdrop IN
        IF enqueued[Logged] = <<>> THEN booked = log.lastlook
        ELSE \A i \in QueueEvents :
                booked = pending[i].at
                         + PsPerByte[Logged] * SizeOf(Tail(enqueued[Logged]))

\* The comment of loggers.cpp:34: when the logger has seen nothing since its
\* last look, the queue's size has not changed since, and the size it records
\* for the period is right.
UnseenMeansUnchanged ==
    log.attached /\ ~log.seen =>
        queuesize[Logged] = sampled /\ log.lastq = sampled

\* What the route holds, oldest first: the last pipe, the last queue, ...
Ids(queue) == [i \in 1 .. Len(queue) |-> queue[i].id]
PipeIds(pipe) == [i \in 1 .. Len(pipe) |-> pipe[i].pkt.id]
Inside ==
    FlattenSeq([i \in HopSet |-> LET h == Hops + 1 - i IN
                                 PipeIds(inflight[h]) \o Ids(enqueued[h])])

Route == INSTANCE LossyFifo
    WITH entered <- Len(sent), inside <- Inside, lost <- dropped,
         delivered <- PipeIds(delivered)

\* The route is a lossy first-in first-out channel: nothing is duplicated,
\* reordered or forgotten, in particular when queue, pipe and source events
\* fall on the same time.
ImplementsLossyFifo == Route!Spec

\* Every packet sent is eventually delivered or dropped, and the event list
\* runs empty, unless the simulation is ended before.
RouteDrains ==
    endtime = 0 => <>(/\ pending = <<>>
                      /\ Len(delivered) + Cardinality(dropped) = Packets)
=============================================================================
