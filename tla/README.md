# A verification project for CS740

The repository holds two programs:

* `src/Lab2/htsim`, a discrete-event simulator of data-center networks: endhost
  transports (TCP NewReno, DCTCP, Timely, packet-pair), links, queueing
  disciplines (drop-tail, priority, fair queueing, deficit round robin,
  approximate fair queueing), a flow generator and experiments;
* `src/Lab1`, a sliding-window transfer between a client and a server written
  on DPDK.

This directory models the parts of both that keep state and take decisions,
checks them with TLC on small instances, and proves for every value of the
constants, with TLAPS, the safety of the TCP flow and that it implements a reliable
transfer, the safety of the Lab1 transfer, the accounts and the fairness of the
scheduling disciplines, the books of the flow generator, the routes of the
testbeds, and that the receiver's ordered list implements a cumulative receiver.
`PROJECT.json` is the machine readable index: components, runs, the line every definition models, a mutant
for every property, findings, hazards and theorems.

## 1. Inventory

| component | state | operations | what makes it correct |
|---|---|---|---|
| `EventList` (eventlist) | clock, pending events by time | `sourceIsPending`, `doNextEvent` | events run in time order and, at one time, in the order scheduled; no event in the past; events after `_endtime` are dropped |
| `Queue`, `Pipe`, `Packet::sendOn` | packets and bytes queued; packets in flight with due times | arrival, service start and end, delivery | one pending event per busy server; lossy FIFO; bounded transit; marks only with company |
| `PriorityQueue`, `FairQueue`, `StocFairQueue`, `AprxFairQueue` | ordered set or FIFOs, per-flow or per-queue accounts, packet in service | arrival with eviction, service start and end | a work-conserving packet server; fairness; accounts exact across drops |
| `TcpSrc`/`TcpSink`, `DataSource`/`DataSink` | windows, recovery point, dup acks, timer; cumulative ack and out-of-order list | start, timeout, ack, data, cleanup | no stall, no early completion, sound windows, honest acks, clean end |
| `TimelySrc`, `PacketPairSrc` and sinks | as above with a BDP estimate and a paced event chain | start, poll, timeout, ack, data, cleanup | the same, and the unsigned gate never shuts for good |
| `FlowGenerator` | live flows, per-flow records, totals, trace, count of arrivals | arrival, end event, `finishFlow` | books agree with flows; live pointers are live objects; closed loop keeps its load |
| `QueueLoggerSampling` | a copy of the queue's size, idle time, work arrived and dropped | `logQueue`, periodic sample | the books add up; a size reported as unchanged has not changed |
| `LeafSwitch` and the experiments' networks | averages per destination and uplink; the routes of each flow | sample, feedback, `pick_uplink_for`, route generation | routes lead from the source to the destination and back; which core CONGA picks |
| Lab1 client and server, in two generations | per-flow window edges, 64-bit byte count or segment count; per-flow window slots and byte count | send, ack, receive, reset, rerun | done means delivered; byte counts are real across wrap-around and reruns |
| `Workloads`, `ExoQueue`, other loggers, `Clock`, `main` | | | see section 8 |

How they interact. The generator creates a flow and schedules its source; the
source puts packets on a route (queue, pipe, ..., sink) by `sendOn`; every
server on it has its own events in the `EventList`; the sink sends an ack on
the reverse route; the source's `receivePacket` sends more, and on the last ack
calls the generator's `finishFlow`, which may create the next flow *inside*
that call. The generator asks the experiment for the routes of every flow it
creates; the CONGA testbed asks the leaf switch, which a sampler event feeds. A
queue reports its events to its logger, which also has an event of its own. A finished source deletes itself, its sink and its routes at a later
event, when the flow's packet count is 0. Everything runs on one thread: the
hard part is the order of events and what one handler leaves for the next, not
locks. Lab1 is two single-threaded loops that exchange packets over a link which
may lose them; nothing is ever retransmitted.

Hard behaviours, with their lines, are the `hazards` of `PROJECT.json`. The
main ones: a timeout pulls `_highest_sent` back while acks of older
transmissions are under way (tcp.cpp:115, timely.cpp, packetpair.cpp), so
unsigned differences meet operands in the wrong order; the timer is disarmed by
one rule and armed by another; several events of different servers, or two event
chains of one source, fall on the same time; evictions happen after accounts were
charged; a deleted flow may still be named by an event, a packet or the
generator; 32-bit acks wrap around and a server outlives its clients; a logger's copy of a queue's
size is only as good as the calls the queue makes.

## 2. Plan

Order of the work, most important behaviour first.

1. `ReliableTransfer`, `TcpFlow`, `TcpFlowProofs` - the transport (done)
2. `PrefixReceiver`, `DataSink` - the receiver's list (done)
3. `EventList`, `LossyFifo`, `Link` - events, queues, pipes (done)
4. `PacketServer` and the four disciplines, composed by `Scheduler` (done)
5. `Lab1Transfer` (done)
6. `PacedSource`, `TimelyFlow`, `PacketPairFlow`, composed by `PacedFlow` (done)
7. `FlowGenerator` (done)
8. `DataSinkProofs`: the list implements `PrefixReceiver`; the sink composed
   with the flows that feed it (done)
9. `Lab1TransferProofs`: the safety of the Lab1 transfer (done)
10. the experiments: `LeafSwitch` and `Testbed` on top of the generator; the
    queue's logger on `Link`; the earlier Lab1 programs (done)
11. more proofs, in `CommonLemmas`, `SchedulerProofs` and `TestbedProofs`: the refinement of `ReliableTransfer` by `TcpFlow`; every
    invariant of `FairQueue`, `StocFairQueue` and `AprxFairQueue`; the generator's
    books; `RoutesConnect` and what CONGA's choice comes to (done)
12. `LinkProofs`: from "each busy server has one event" to the transit time, the
    marks, the logger's books and the refinement of `LossyFifo`, with the times at
    which the packets of each queue depart as the witness (done)
13. `PacedFlowProofs`: `NeverStuck` and the refinements of `ReliableTransfer` and
    `PrefixReceiver`; in `SchedulerProofs`, `DropsTheLeastUrgent` of `PriorityQueue`
    and `PacketServer` implemented by each discipline (done)
14. the generator composed with a flow model (finish, replace and delete inside
    one ack) (open)

## 3. Modules

| module | models | remarks |
|---|---|---|
| `ReliableTransfer` | - | what any finite flow promises: bytes are sent, then delivered in order, then known; finish only when delivered; reclaimed once |
| `TcpFlow` | tcp.cpp, datasource, datapacket counts | `Start`, `Timeout`, `Cleanup` are the branches of `doNextEvent`; `ReceiveAck` is `receivePacket` with one operator per branch (`NewAck`, `FullAck`, `PartialAck`, `DupAck`, `DupAckInRecovery`, `ThirdDupNoRecovery`, `FastRetransmit`), each including the `sendPackets` and `retransmitPacket` calls it makes; `ReceiveData` is `TcpSink::receivePacket` |
| `TcpFlowProofs` | - | theorems about `TcpFlow` |
| `PrefixReceiver` | - | what a cumulative receiver promises: its ack is the end of the segments it has without a gap |
| `DataSink` | datasink.cpp | the list as a sequence; `Place` says where the insertion loop stops, `Pops` how many packets the popping loop takes; `PacedFlow` checks it against `PrefixReceiver` |
| `DataSinkProofs` | - | the refinement, for every size |
| `Sums` | - | sums over the packets of a queue, as recursive functions, which both TLC and the provers can use |
| `EventList` | eventlist.cpp | insertion at the upper end of equal times, end-time filter |
| `LossyFifo`, `Link`, `MCLink` | queue, pipe, network | a route of `Hops` pairs of queue and pipe with the event list as state; handlers are operators on a record, applied in the order of the calls; one queue, `Logged`, has a logger |
| `LinkProofs` | - | theorems about `Link`, for every length of the route |
| `QueueLogger` | loggers.cpp (`QueueLoggerSampling`) | `LogQueue` and `Sample` as operators on the logger's record; `LogsArrivals` says which queues report arrivals |
| `PacketServer` | - | what every discipline promises |
| `PriorityQueue`, `FairQueue`, `StocFairQueue`, `AprxFairQueue` | the file of that name | `ReceivePacket` includes eviction and the start of service, `CompleteService` the start of the next one; the loop of `StocFairQueue::beginService` is `Rotate`, the list turned by the least number of looks that ends at a queue whose credit suffices |
| `Scheduler`, `MCScheduler` | test_single_link.cpp (choice of discipline) | one discipline per behaviour; its properties name those of the disciplines |
| `CommonLemmas` | - | lemmas about remainders, induction, sums, the event list and the identities a queue holds |
| `SchedulerProofs` | - | theorems about the four disciplines, for every flow set, buffer, quantum, calendar and sketch |
| `Lab1Transfer` | lab1-client.c, lab1-server.c, client-gpt.c, server-gpt.c | `SendSegment`, `ReceiveAck`, `ReceiveSegment`, `NewRun`; for the earlier pair, when `version` is "gpt", `OldReceiveAck`, `OldReceiveSegment`, `OldNewRun` |
| `Lab1TransferProofs` | - | theorems about both pairs |
| `PacedSource` | what timely.cpp and packetpair.cpp share | handlers as operators on the source's state |
| `TimelyFlow`, `PacketPairFlow` | timely.cpp, packetpair.cpp | gate, poll, timeout, cleanup; the pair's event at `_first_rto` is `first_rto`, its other chain `paced` |
| `PacedFlow` | flow-generator.cpp:717-720 | one transport per behaviour |
| `PacedFlowProofs` | - | theorems about both transports and their sink |
| `FlowGenerator` | flow-generator.cpp | flows are external: start, finish after a `Duration`, delete; `FlushAllSummaries` is what the experiment calls after the event loop |
| `LeafSwitch` | leafswitch.cpp | operators on a leaf's record |
| `Testbed`, `MCTestbed` | test_single_link.cpp, test_conga_testbed.cpp, test_fat-tree_testbed.cpp | the generator with the route generator of one `scheme`, and the sampler's event; a route is a sequence of links between nodes |
| `TestbedProofs` | - | theorems about the generator and the testbeds |

Abstractions common to all: packets carry only what some handler reads;
logging, statistics and printing are left out; random draws are members of small
sets. In the flow models time is reduced to what handlers compare: a timer
is armed or not, and an armed one may expire at any poll. `MaxSpurious` bounds
the timeouts that find packets still on the routes; timeouts with empty routes
are free. In `Link` and `FlowGenerator` time is exact.

`window`, `sender`, `sink`, `budget` (TcpFlow) and the like are tuples of
variables; history variables (`max_sent`, `unrecovered`, `got`, `lead`, `roundBytes`,
`sent`, `delivered`) are marked as such where they are declared and no guard of
the code depends on them.

## 4. Runs

| run | instance | shows |
|---|---|---|
| `tcp_newreno` | 8 segments of 2 bytes, 3 losses, 2 early timeouts, FIFO routes, fairness | `TimerArmed`, `SentCoversAcked`, `RecoveryWindow`, `FinishedIsDelivered`, refinement of `ReliableTransfer`, and that every flow is delivered, finishes and is deleted |
| `tcp_dctcp` | 5 segments (the last one short), DCTCP, time limit, reordering routes, 1 loss, 1 early timeout | `TypeOK`, `CollapsedWindowIsIdle`, `AcksAreHonest`, `NoSegmentLeftBehind` |
| `tcp_fast_recovery` | 5 segments, 2 early timeouts | violation, see section 6 |
| `link_events` | 2 hops, 4 packets, 2 sizes, without an end time and with one at 13, a logger on the second queue | one event per server, transit times, marks, the logger's idle time, arrivals and drops against those of the queue, no unseen change of size, refinement of `LossyFifo`, the route drains |
| `unlogged_arrivals` | the same with a queue that does not report arrivals | violation |
| `schedulers` | 5 to 7 packets of 2 sizes, 2 or 3 flows | fairness and accounts of the four disciplines, refinement of `PacketServer` |
| `lab1_loss` | both pairs; 7 segments, and 4 for the earlier pair with the last one full or short, window of 3, 2 losses, up to 3 runs, sequence numbers that wrap | client and server agree; lossless runs complete |
| `lab1_echo` | 2 flows, server state for 1 | violation |
| `paced_flows` | 6 segments, 3 faults (losses, and early timeouts, of which there is at most one), BDP estimates of half a segment and four | `NeverStuck`, refinement of `ReliableTransfer`, the sink as a `PrefixReceiver`, clean end |
| `packetpair_cleanup` | 2 segments, no loss | violation |
| `flow_generator` | four networks with 2 of everything, up to 2 flows in the loop, stop event at 3, end time 2 or 5 | books, live pointers, load; routes connect; the stop event and the trace end as planned |
| `conga_samples` | the CONGA testbed with open arrivals | violation |

Why the bounds suffice. TCP: three losses and two early timeouts in 8 segments
reach fast recovery, partial acks, a third duplicate ack that may not start
recovery, a timeout in recovery, late acks beyond a pulled-back `_highest_sent`
and the collapse of the window. `link_events`: both queues overflow, events
of different servers share times, and the logger's samples, every 4, fall between
and on them. The logger's event repeats for ever, so the logger is present only in
the behaviours with an end time, as in the experiments. `schedulers`: each buffer overflows several
times and the calendar of the AFQ wraps around; the hash makes flows collide in
each row. `lab1_loss`: `Word = 13` is smaller than a run of the current pair, so
its acks wrap in every run, and three runs meet the state of their predecessors.
`flow_generator`: two of every kind of node are enough for each pair of indices to
differ or be equal: the same and different leaves, subtrees, top-of-rack switches
and aggregation switches; arrivals, finishes and samples meet the stop event at 3,
and the end times lie before it, as in the CONGA testbed, and after it. `paced_flows`:
estimates below and above what is in flight. An estimate of four segments lets six
be outstanding; when the first and the last of them and one duplicate ack are lost, a timely flow
gets a partial ack of five segments after three duplicate acks, and `_dupacks` wraps
to `DupWord - 1`, which opens the gate far beyond the estimate (timely.cpp:257). Two
losses and an early timeout let acks pass a pulled-back `_highest_sent`, so that the flight
size of the gate wraps. All three losses and the early timeout together would take
three times the states; `PacedFlowProofs` covers them. Every property has a mutant of the code's definition that breaks it in its
run (`PROJECT.json`), so the interesting case does occur.

Deadlock is not checked where the system really stops: a deleted flow, an empty
event list, finished transfers, bounds used up.

Limits of the models: flows are of finite size (a flow size of 0 means a flow
without end, which no workload draws); `_duration` is set by no
experiment, and `Timed` only covers what the TCP handler would do with it; paced
flows use FIFO routes, as in the experiments; traces are sorted by time;
a Lab1 run starts on a quiet link and does not draw the very number the
server remembers; Lab1's acks stay in order (the server answers from one queue).

## 5. Fairness

* TCP: weak fairness of start, timeout, cleanup and both receive actions. The
  event list runs every pending event: a packet on a route has an event until it
  is delivered or dropped, and the source polls itself at every RTT
  (tcp.cpp:125-130). Losses are not fair and are bounded.
* `Link`: weak fairness of `Next`: `main` calls `doNextEvent` until it returns
  false (main.cpp:59).
* `PacedFlow`: weak fairness of "some event that is not a loss". Nothing says
  which event: a timer need not expire while its packets may still be
  acknowledged.
* Lab1: weak fairness of sending and receiving, both loops poll for ever. No
  fairness of `NewRun`, which is the user's.

## 6. Findings

* `tcp_fast_recovery`: two timeouts in a row lower `_recover_seq` (tcp.cpp:114
  reads `_highest_sent` after 115 of the previous timeout pulled it back), and
  fast recovery starts before the losses have been recovered, contrary to the
  comment at tcp.cpp:318.
* `unlogged_arrivals`: StocFairQueue and AprxFairQueue never report an arrival
  to the logger (stoc-fairqueue.cpp:75-110), which then writes the last size it was
  told for a period in which the queue grew, against loggers.cpp:34.
* `lab1_echo`: flows beyond the server's `MAX_FLOWS` get an echo of the
  segment's own number instead of the cumulative ack of lab1-server.c:487.
* `packetpair_cleanup`: a packet-pair flow of at most two segments finishes
  before it has a paced chain; its event at `_first_rto` returns at
  packetpair.cpp:114-116 and the flow is never deleted (comment at 121).
  The same return ends a chain whose poll falls exactly on `_first_rto`; that is
  why `FlowEndsClean` of `PacedFlow` allows a packet-pair flow to be abandoned.

* `conga_samples`: the comment at test_conga_testbed.cpp:179 says that a sampler feeds
  the queueing and sending information of the 12 uplinks to `LeafSwitch`, and
  leafswitch.h:13 and 17 describe a choice made on such samples. The sampler hands
  out zeros (101-104, with a TODO), so no leaf ever sees traffic; as a leaf's feedback is
  added for all uplinks alike (leafswitch.cpp:29), every flow takes core 0. The
  theorem `OnlyTheFirstCore` shows this for every size of the testbed.

What follows is true of the code and modelled as it is, but contradicts no doc or is
shown by a theorem in place of a run:

* `_currentPkt` of `PriorityQueue` and of `FairQueue` is never initialised, although
  `receivePacket` starts service only when it is null (priorityqueue.cpp:7-10, 59;
  fairqueue.cpp:7-12, 77). Where the memory that new returned is not zero the queue, "that
  drains packets based on their priority" (priorityqueue.h:5), never sends one:
  `UninitialisedQueueIsSilent`. The runs assume zeroed memory (`ZeroedMemory`).
* PriorityQueue and FairQueue log a departure before they subtract its bytes
  (priorityqueue.cpp:36-49, fairqueue.cpp:53-67), so the size logged counts the
  departed packet. The mutant of `UnseenMeansUnchanged` is this order.
* The CONGA testbed ends at 0.1 s, before the generator's stop event at 0.18 s: only
  the summary after the event loop reports its flows. The end time 2 of
  `flow_generator` is this case, and `EndsAsPlanned` says what it leads to.
* An arrival at exactly the stop time is taken for the stop event (flow-generator.cpp:676):
  the flow is not created, the summary is printed once more, and in a trace nothing after
  it is read. `EndsAsPlanned` is as weak as that: it allows a trace to stop at an entry
  due at the stop time, and nowhere else before the end.
* The client of client-gpt.c counts whole segments of full size: a flow whose last
  segment is short is acked in full and never done. `LosslessCompletes` promises
  nothing for it (`Completable`).
* rand() is never seeded in client-gpt.c and server-gpt.c never forgets a flow: a
  second run is acked with what the first one sent. `DoneIsDelivered` still holds in
  the sense that the server has the bytes of these numbers; `InFlightExact` is
  stated for the first run of this pair.

## 7. Proofs

### The TCP flow

`TcpFlowProofs` proves, for every segment size, flow size, bound and option
(DCTCP, time limit, reordering), from the named assumptions of `TcpFlow`
(`SizeAssumption`: positive sizes and a word that holds the flow and two
segments; `OptionAssumption`; `BoundAssumption`):

`InductiveInvariant`, `TypeCorrect` (`TypeOK`, and `SequenceInv`: every position is a
boundary of segments), `NoStall` (`TimerArmed`),
`FlightSizeIsSound` (`SentCoversAcked`), `CollapseIsHarmless`
(`CollapsedWindowIsIdle`), `RecoveryIsBounded` (`RecoveryWindow`), `AcksAreSound`
(`AcksAreHonest`), `SinkIsPrompt` (`NoSegmentLeftBehind`), `FinishIsHonest`
(`FinishedIsDelivered`), and `FlowIsReliable`, that `TcpFlow` implements
`ReliableTransfer`.

The argument. None of the properties is inductive. `IInv` joins them with three
facts the code relies on and never states:

* `SequenceInv`: all sequence numbers are whole segments, data on the routes
  lies below `max_sent`, acks at or below `_cumulative_ack`. Without it an ack in
  the middle of a segment could leave `_last_acked` above `_highest_sent`, and
  `FinishedIsDelivered` would have nothing to start from.
* `WindowInv`: `_ssthresh` is at least a segment, and a window below a segment
  is 0, in congestion avoidance, with nothing outstanding. Without it the unsigned
  flight size of tcp.cpp:266 could collapse a window with data outstanding, and the
  timer would not be armed again: this is what `TimerArmed` needs.
* `IdleInv`: a flow that has not started has nothing on its routes.

There is one lemma per action (`StartStep`, `TimeoutStep`, ...) and one per
branch of the ack handler; the branches share `AckFacts` (what an ack of this
flow can say) and `TransmitStep` (what the sending loop leaves). The closed form
of the loop, `NumToSend`, is justified by `SendingLoop`. `NextIInv` collects
them and the theorems follow by temporal reasoning.

The refinement maps a flow to the bytes it has sent (`max_sent`), those the sink
has in order (`_cumulative_ack`), those it knows to be delivered (`_last_acked`) and its
phase. Each action moves one of them or none (`SendingStep`, `AckedStep`,
`DeliveryStep`), and `DeletedInv` says that nothing touches a deleted flow: that is
what lets the abstract flow be reclaimed once.

### The receiver

`DataSinkProofs` proves `SinkIsCumulative`, that `DataSink` implements
`PrefixReceiver`, for every segment size and number of segments (`SinkAssumption`).
The invariant `Sound` says that the ack is the end of a segment and the list holds
first bytes of segments, in increasing order, all behind the segment the ack waits
for. The refinement mapping takes a sink to the set of segments it has acked or
lists (`HeldBy`), and `AckIsPrefix` shows that the ack of a sound sink is the end of
that set's prefix. Two lemmas carry the step: `PopStep`, when the awaited packet
arrives and the loop takes what has become contiguous, and `InsertStep`, when a
packet ahead of the gap takes its place or is a duplicate.

### The paced flows

`PacedFlowProofs` proves of `PacedFlow`, for every segment and flow size, every
estimate and any number of losses and early timeouts: `PacedFlowIsSound`
(its invariant), `NeverGetsStuck` (`NeverStuck`), `PacedFlowIsReliable`
(`ImplementsReliableTransfer`) and `SinkIsAPrefixReceiver`
(`ImplementsPrefixReceiver`). The assumptions are `PacedAssumption` and
`EstimateAssumption`, that the estimate a timely flow starts with is not negative
(it is 8 packets, timely.cpp:66).

* `FlowInv` is one invariant for both transports. `SourceOk`: the positions
  of the source are ends of segments, what is on the route was sent, and a flow that has
  not finished lacks an ack. `Armed`: a timer that is off leaves nothing outstanding. Acks
  on the route and `_last_acked` tell no more than the sink has.
* `Armed` is why a flow never gets stuck. The gate compares an unsigned flight size,
  which wraps around when an ack passes `_highest_sent` after a timeout has set that back;
  the gate then stays shut. But an ack turns the timer off only when it is the end of
  what was sent, and then there is nothing in flight to wrap.
* The handlers are compositions of sends (`SendOk`, `SendNewOk`) and changes of
  the window; each is shown once to keep `SourceOk` and `Armed` and to lose no byte
  of `max_sent` (`Sends`), for both transports.
* Refinement: `max_sent`, the sink's `_cumulative_ack` and, for timely, `_last_acked` are
  the bytes sent, delivered and known. A packet-pair source forgets what it knows
  when it starts again, so it is mapped to a flow that knows nothing until it
  finishes.
* The sink's part is `DataSinkProofs` taken as an instance: a packet on the route has a
  sequence number of the flow, so `SinkInv` of that module is kept.

### The Lab1 transfer

`Lab1TransferProofs` proves, for every number of flows, flow size, segment size,
window, modulus, loss and run bound of `LabAssumption` and for both pairs of
programs: `InvariantHolds`, `DoneMeansDelivered` (`DoneIsDelivered`),
`PrefixIsCounted` (`CountsThePrefix`), `AckedBytesArrived` (`AckBytesAreReal`),
`InFlightIsExact` (`InFlightExact`), `WindowHoldsAll` (`NothingBeyondWindow`).

The argument. The client and the server share no state; what relates them is on the
link. The inductive invariant `IInv` has, besides types:

* `Edges`, `Counts`, `Active`: the client's window edges, its byte and segment
  counts, and the number of flows not done agree with each other;
* `Serves`: the server's state of a flow is either of another run, and then nothing
  of this run has arrived, or `Books` describes it: the left edge is the first
  segment missing, the byte count is that of the segments before it, and a window
  slot is filled exactly when its segment has arrived. The client's left edge is
  not beyond the server's;
* `Carries`: a segment on the link was sent, with the number of its index;
* `AcksCovered`: there is, for every ack on the link, a number of segments it covers,
  between the two left edges and in the order of the acks. 32 bits do not tell this
  number, so it is an existential witness. It is why the wrapped difference of
  lab1-client.c:384 is the true one: a step is shorter than the modulus.

`AnswerStep` is the server's side (`MarkBooks`: marking and eating keep `Books`;
`MoreAcks` extends the witness), `AckStep` and `OldAckStep` the client's (`FirstAck`
gives the unwrapped bytes, `FewerAcks` drops the witness's head). Facts about the
eating loop (`Eaten`, `ContigAfter`) need induction on natural numbers. The induction
theorems that take a predicate as a parameter cannot be used, so `Least` and
`Induct` derive it, for sets, from the well-foundedness of the naturals.

### The disciplines

`SchedulerProofs` proves of `Scheduler`, for every value of the constants of
`SchedulerAssumption` and any number of packets: `SharesAreFair`
(`FairShare`), `FlowsKeepOrder` (`FlowsInOrder`), `DropsAreFree`
(`DropsAreNotCharged`), `ActiveListIsExact`, `CreditSuffices` (`CreditCoversPacket`),
`SketchCovers` (`SketchCoversQueue`), `LeastUrgentIsDropped`
(`DropsTheLeastUrgent`) and `DisciplinesAreServers`
(`ImplementsPacketServer`). Each discipline has an inductive invariant.

* `FairInv`, of `FairQueue`. The packet being sent and those that wait form a line.
  What the code keeps, the round at which a flow's last packet ends, does not say
  why the next drop or departure is charged rightly. The witness is the *base* of each
  flow: the rounds of its packets are its base and the running sum of their bytes
  (`Stamped`). The base of a flow in the line is not beyond the round number
  (`Based`), the line is ordered by rounds, and two waiting flows differ in bytes sent
  by no more than their bases do and a packet (`Led`). A departure raises the base of
  one flow by the packet's size, a drop takes the end of the line and with it the
  end of the sums, so both keep the form; fairness is then a comparison of bases.
* `StocInv`, of `StocFairQueue`. The list names the queues with packets once
  (`Listed`), no queue saves up more than a packet and a quantum (`Saved`), and what a
  queue has been sent *and may still send* is ahead of another's by at most a packet, or
  a packet and a quantum if it is behind the other in the list (`Balanced`). `FairShare` alone
  is not inductive: the credit left decides how far the next visit goes. The loop is
  shown to end within the looks `Rotate` ranges over, and `Balanced` to hold
  of every turn of the list.
* `AprxInv`, of `AprxFairQueue`. Every bucket of a flow is charged with the rounds
  that have passed and what the flow gets of its latest round (`Covered`), although
  buckets are shared, idle flows are charged up to the current round and the calendar wraps
  around; no flow gets more than a round's bytes and a packet (`Bounded`); a flow's
  packets lie in order in the calendar (`InOrder`). `Covered` is what keeps the unsigned
  difference of aprx-fairqueue.cpp:64-73 from wrapping, and what puts a flow's
  next packet at or behind its last one.
* `PqInv`, of `PriorityQueue`. The packets wait in the order of their priorities, with
  identities of their own, none of which is lost, and `_queuesize` is the bytes of the
  packets, the one being sent included (`PqSends`). The order makes the end of the queue
  its least urgent part; `_queuesize` is needed because the eviction loop works on
  what it says and not on the packets.

`DisciplinesAreServers` maps each discipline to what it holds, the packet it is sending
and the sets of the lost and the served. Two shapes cover the four: a queue beside
the packet being sent (`PriorityQueue`, `FairQueue`), where a step is shown to take its
dropped packets from the end and its next one from the head (`QueueTakes`, `QueueGives`);
and a pool of FIFO queues whose packet being sent is the head of one of them
(`StocFairQueue`, `AprxFairQueue`; `PoolGrows`, `PoolShrinks`). These lemmas are in
`CommonLemmas`. Each needs that no two packets have an identity in common,
and that the packet being sent is one that is held: the calendar's current FIFO and the head of the
list of active queues are not empty, which `AprxInv` and `StocInv` say.
The theorem has the hypothesis `ZeroedMemory`. The constructors of `PriorityQueue` and
`FairQueue` do not assign `_currentPkt`; if memory holds something else
than null there, such a queue takes packets and never sends one, and it does not implement
a server that idles only when empty: `UninitialisedQueueIsSilent` proves that from
any such pointer (`GarbagePointer`), no packet is ever in service or sent, since service
is started only by an arrival that finds the pointer null and nothing else ever assigns it.
Everything else in this section holds with or without it.

### The generator and the testbeds

`TestbedProofs` proves of `TestbedSpec`, for every workload, number of flows and
size of the networks: `FlowsAreAccounted` (`FlowsAccounted`), `LiveFlowsAreThere`
(`LiveFlowsExist`), `TheLoadIsKept` (`LoadIsKept`), `RunsEndAsPlanned`
(`EndsAsPlanned`), `RoutesAreGood` (`RoutesConnect`) and `OnlyTheFirstCore`, that no leaf
ever learns of traffic and every CONGA flow takes the first core (`CongaIsBlind`).

* `BooksInv`: table, states and live set are three views of the same flows
  (`Listed`); the counters are cardinalities of sets of the table's rows, and the sum of
  completion times a sum over its rows (`Counted`); at most one arrival is pending
  (`Lone`), and in the closed loop the count of flows is that of the live ones
  (`LoadInv`). Without `Lone` the count could pass the load: two pending arrivals would both
  find room. A finish that creates the next flow inside the same event is one step.
* `EndsInv`: as long as the stop event is pending or in time it will be printed, the next
  entry of a trace is pending at its own time as long as one is left, and only the stop event prints
  a summary in the closed loop before the last. At the end nothing is pending that
  is in time, which gives `EndsAsPlanned`.
* `CongaInv`: every leaf is still as it was constructed. The sampler's zeros and the
  feedback, which counts for all uplinks alike, leave the averages equal, and the
  first of equals is taken.
* `Connects`: a route found to run along the steps of a walk (`Along`, `Back`) that
  repeats no step connects its ends (`Road`); there is one walk for each case of the
  three topologies, and the index arithmetic of the code (quotients and remainders
  of server numbers) is shown to lead to the nodes of that walk.

### The link

`LinkProofs` proves of `Link`, for every number of hops, speeds, buffers, delays,
thresholds, packet sizes, gaps and end times of `LinkAssumption`:
`ServersAreScheduled` (`OneEventPerServer`), `RouteIsFifo` (`ImplementsLossyFifo`),
`TransitIsBounded` (`TransitTimeBounded`), `LonePacketsAreUnmarked`
(`LonePacketIsUnmarked`), `TheBooksAddUp` (`BooksAddUp`) and `SeenOrUnchanged`
(`UnseenMeansUnchanged`).

* The invariant under all of them is `Held(d)`, with a witness the code never
  computes: `d[h][j]` is the time at which packet `j` of queue `h` will have been
  sent. `_queuesize` is the bytes of the packets; their departures lie one drain time
  apart and the first is at most a drain time away (`Line`); a pipe's packets
  are due in order, within a delay from now (`Flight`); each server with packets has
  one event, at its first departure, unless that falls after the end (`QueueOk`,
  `PipeOk`). `OneEventPerServer` alone says nothing of the packets behind the first, so
  it would not tell when a pipe's next event is due.
* The handlers, which are compositions of synchronous calls, are shown once to
  come to one of four changes of state: the source sends a packet, the logger
  looks, a queue serves, a pipe hands on (`Steps`). In the middle of a handler one
  server is without its event: `HeldBut` excepts it. The other proofs
  are about `Steps` and need nothing of the event list.
* Refinement: the packets of each hop form a block, the route is the blocks from the
  last hop to the first (`Chained`). A step moves the end of one block to the
  head of the next, drops it, or moves nothing at all when a queue serves into its
  own pipe (`ChainStep`); `Enter`, `Drop` and `Deliver` of `LossyFifo` follow.
* Times: a packet in queue `h` or pipe `h` leaves it no earlier than `Shortest`
  and no later than `Longest` allow since it was sent (`Timely`). The upper bound is where
  `Line` is needed: the last departure of a queue is at most its buffer's drain time
  away. A marked packet has a later one at its hop or behind it, sent before it
  leaves (its company), and the route keeps the order of the ids.
* Books: idle time and accepted work add up to the last departure of the logged queue,
  or to the last look if it is empty (`BooksOk`).

Three of the theorems have a hypothesis on the constants. `LonePacketsAreUnmarked`
needs a last pipe that takes time (`Delay[Hops] > 0`): else a packet may be marked for one
that is sent at the very time at which it arrives. Every pipe of the experiments
has a delay, by default 12 microseconds or 0.1 to 1 microsecond (test_single_link.cpp:25,
62; test_conga_testbed.cpp:170-175; test_fat-tree_testbed.cpp:38).
`SeenOrUnchanged` needs a queue that logs its arrivals (`Logged \in LogsArrivals`);
the run `unlogged_arrivals` shows that it does not hold without.
`TheBooksAddUp` needs that too, and that an empty queue has room for any packet, as
buffers of 512000 bytes and more have (`LoggedFits`): a drop at an empty queue counts as work
both ways, but the look that goes with it skips the idle time before it. The code
says so itself (loggers.cpp:112-113, the assertion and the comment below it).

`CommonLemmas` holds what these proofs share: `Total` over concatenation and over
an update, sums by weights, the places of an inserted event, quotients and remainders,
and induction over the naturals in a form for sets.

### What is only model-checked

* Liveness (`FlowEndsClean`, `RouteDrains`, `LosslessCompletes`), which is beyond
  the prover.
* That recursive definitions compute what they are meant to compute for every input, which
  would need induction over data; what is proved of sums and loops is stated over
  intervals and sets instead.
* The bounds in the guards (packets, losses, timeouts) do not restrict the theorems, which
  hold for every value of them; the runs use the small values of section 4.

## 8. Not modelled

`Workloads` (sampling in floating point: the generator's sizes are members of a
set), `ExoQueue` (not instantiated), `RandomQueue::_plr` (never set), `FairQueue`'s
PRECISE mode (never set), deadlines of D-TCP, the other loggers and the log file
(they change nothing the simulation reads), `Clock`, scripts, argument parsing, the
construction of queues and pipes by the experiments, DPDK set-up and header
formatting. `LeafSwitch`'s averages are whole numbers, which is exact for the
samples the experiments give it, all zero.

## 9. Running

    tlc -config TcpNewReno.cfg TcpFlow.tla
    tlapm TcpFlowProofs.tla
    tlapm DataSinkProofs.tla
    tlapm Lab1TransferProofs.tla
    tlapm PacedFlowProofs.tla
    tlapm SchedulerProofs.tla
    tlapm TestbedProofs.tla
    tlapm LinkProofs.tla

The module of every other cfg is in `PROJECT.json`. The longest run takes
about a minute and a half. The proofs of the disciplines take about 20 minutes, those of the
link and of Lab1 ten or a little more, the others less. `CommonLemmas` is checked by
`tlapm CommonLemmas.tla`.
