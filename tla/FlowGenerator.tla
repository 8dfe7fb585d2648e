---------------------------- MODULE FlowGenerator ----------------------------
(***************************************************************************)
(* FlowGenerator (flow-generator.cpp): it creates flows at random times,   *)
(* from a trace, or in a closed loop of _maxFlows flows, is told by each   *)
(* flow that it has finished, and keeps the completion-time statistics.    *)
(*                                                                         *)
(* The flows are external here (TcpFlow, PacedFlow): a flow starts at its  *)
(* start time, calls finishFlow some time after and is deleted later.      *)
(* Times are units of the event list, and random draws are members of      *)
(* small sets.                                                             *)
(***************************************************************************)
EXTENDS EventList, Sums

CONSTANTS
    Modes,       \* among "open", "closed" (setReplaceFlow) and "trace"
    Traces,      \* what setTrace may have read: sequences of [at, size]
    MaxFlows,    \* _maxFlows
    StopTime,    \* _endTime
    Endtimes,    \* what the experiment may call setEndtime with
    Sizes,       \* flow sizes of the workload
    SMALL_TH,
    Gaps,        \* times between two arrivals
    Jitters,     \* random part of a flow's start
    Sleeps,      \* off times of a replaced flow; {0} when _avgOffTime is 0
    Durations    \* how long a flow may take

ASSUME GeneratorAssumption ==
    /\ Modes \subseteq {"open", "closed", "trace"}
    /\ MaxFlows \in Nat \ {0}
    /\ {StopTime, SMALL_TH} \cup Endtimes \subseteq Nat \ {0}
    /\ Gaps \subseteq Nat \ {0} /\ Durations \subseteq Nat \ {0}
    /\ Sleeps \subseteq Nat /\ Jitters \subseteq Nat
    /\ Sizes \subseteq Nat \ {0}
    /\ \A t \in Traces : t # <<>> /\ t \in Seq([at : Nat, size : Nat \ {0}])

VARIABLES
    mode,              \* _useTrace and _replaceFlow
    endtime, now, pending,  \* the event list
    flowTrace,         \* _flowTrace
    concurrentFlows,   \* _concurrentFlows
    liveFlows,         \* the keys of _liveFlows
    meta,              \* _meta, by flow: size, start, end and finished
    completed, sum_fct, cnt_small, cnt_large,   \* _completed, ...
    summaries,         \* _completed of each summary printed
    flushed,           \* the program has printed its last summary
    flow               \* the flow objects: "waiting", "running", "finished"
                       \* or "deleted"

stats == <<completed, sum_fct, cnt_small, cnt_large>>
vars == <<mode, endtime, now, pending, flowTrace, concurrentFlows, liveFlows,
          meta, stats, summaries, flushed, flow>>

Generator == <<"generator", 0>>
Flow(id) == <<"flow", id>>
Flows == 1 .. Len(meta)

\* EventList::doNextEvent, for the source at the head of the pending events.
Take(src) ==
    /\ pending # <<>> /\ Head(pending).src = src
    /\ now' = Head(pending).at
    /\ UNCHANGED <<mode, endtime, flushed>>

Schedule(s, at, src) ==
    [s EXCEPT !.pending = SourceIsPending(@, endtime, at, src)]

\* The books and the event list, without the event being handled.
Rest == [pending |-> Tail(pending), live |-> liveFlows, meta |-> meta,
         flow |-> flow]

Become(s) ==
    /\ pending' = s.pending
    /\ liveFlows' = s.live
    /\ meta' = s.meta
    /\ flow' = s.flow

----------------------------------------------------------------------------
\* createFlow at time t: the new flow's start is scheduled, and the flow is
\* entered in the books with the time of its creation.
CreateFlow(s, size, delay, t) ==
    LET id == Len(s.meta) + 1 IN
    [Schedule(s, t + delay, Flow(id)) EXCEPT
        !.meta = Append(@, [size |-> size, start |-> t, end |-> 0,
                            finished |-> FALSE]),
        !.live = @ \cup {id},
        !.flow = Append(@, "waiting")]

\* Mutant: what comes later is taken for the stop event as well.
AtOrAfterEnd(t) == t >= StopTime

\* The stop event is known by its time alone.
AtEnd(t) == t = StopTime

\* doNextEvent at _endTime: the summary is printed, nothing is scheduled.
StopEvent ==
    /\ Take(Generator) /\ AtEnd(now')
    /\ summaries' = Append(summaries, completed)
    /\ Become(Rest)
    /\ UNCHANGED <<flowTrace, concurrentFlows, stats>>

\* Mutant: one arrival too many before the loop closes.
OneMoreArrival(n) == mode = "closed" => n <= MaxFlows

MoreArrivals(n) == mode = "closed" => n < MaxFlows

\* doNextEvent at any other time: a flow, and the next arrival.
ArrivalEvent ==
    /\ Take(Generator) /\ ~AtEnd(now')
    /\ mode # "trace"
    /\ concurrentFlows' = concurrentFlows + 1
    /\ \E size \in Sizes, jitter \in Jitters, gap \in Gaps :
          LET s == CreateFlow(Rest, size, jitter, now') IN
          Become(IF MoreArrivals(concurrentFlows')
                 THEN Schedule(s, now' + gap, Generator) ELSE s)
    /\ UNCHANGED <<flowTrace, stats, summaries>>

TraceEvent ==
    /\ Take(Generator) /\ ~AtEnd(now')
    /\ mode = "trace"
    /\ concurrentFlows' = concurrentFlows + 1
    /\ flowTrace' = Tail(flowTrace)
    /\ \E jitter \in Jitters :
          LET s == CreateFlow(Rest, Head(flowTrace).size, jitter, now') IN
          Become(IF flowTrace' = <<>> THEN s
                 ELSE Schedule(s, Head(flowTrace').at, Generator))
    /\ UNCHANGED <<stats, summaries>>

\* FlushAllSummaries, once main's event loop has ended.
FlushAllSummaries ==
    /\ pending = <<>> /\ ~flushed
    /\ flushed' = TRUE
    /\ summaries' = Append(summaries, completed)
    /\ UNCHANGED <<mode, endtime, now, pending, flowTrace, concurrentFlows,
                   liveFlows, meta, stats, flow>>

----------------------------------------------------------------------------
(* finishFlow *)

\* Mutant: a flow of the threshold's size is small.
SmallOrEqual(size) == size <= SMALL_TH

IsSmall(size) == size < SMALL_TH

NoteFlowFinish(id, t) ==
    LET fct == t - meta[id].start IN
    /\ completed' = completed + 1
    /\ sum_fct' = sum_fct + fct
    /\ cnt_small' = cnt_small + (IF IsSmall(meta[id].size) THEN 1 ELSE 0)
    /\ cnt_large' = cnt_large + (IF IsSmall(meta[id].size) THEN 0 ELSE 1)

Ended(entry, t) == [entry EXCEPT !.end = t, !.finished = TRUE]

\* Mutant: the finished flow is not erased.
KeepsEntry(live, id) == live

Erase(live, id) == live \ {id}

\* The flow with the given number calls finishFlow and later polls itself once
\* more; in a closed loop it is replaced, otherwise the last one to finish
\* prints the summary.
FinishEvent(id) ==
    /\ Take(Flow(id)) /\ flow[id] = "running"
    /\ NoteFlowFinish(id, now')
    /\ LET done == [pending |-> Tail(pending),
                    live |-> Erase(liveFlows, id),
                    meta |-> [meta EXCEPT ![id] = Ended(@, now')],
                    flow |-> [flow EXCEPT ![id] = "finished"]]
           Poll(s) == Schedule(s, now' + 1, Flow(id))
       IN  \/ /\ mode = "closed"
              /\ \E size \in Sizes, sleep \in Sleeps, jitter \in Jitters :
                    Become(Poll(CreateFlow(done, size, sleep + jitter, now')))
           \/ mode # "closed" /\ Become(Poll(done))
    /\ summaries' = IF mode # "closed" /\ liveFlows' = {}
                    THEN Append(summaries, completed') ELSE summaries
    /\ UNCHANGED <<flowTrace, concurrentFlows>>

----------------------------------------------------------------------------
(* The flows *)

StartEvent(id) ==
    /\ Take(Flow(id)) /\ flow[id] = "waiting"
    /\ \E d \in Durations :
          Become(Schedule([Rest EXCEPT !.flow[id] = "running"], now' + d, Flow(id)))
    /\ UNCHANGED <<flowTrace, concurrentFlows, stats, summaries>>

DeleteEvent(id) ==
    /\ Take(Flow(id)) /\ flow[id] = "finished"
    /\ Become([Rest EXCEPT !.flow[id] = "deleted"])
    /\ UNCHANGED <<flowTrace, concurrentFlows, stats, summaries>>

\* The constructor and setTimeLimits: the first arrival, then the stop event,
\* behind the events there are already.
InitWith(events) ==
    /\ mode \in Modes
    /\ now = 0
    /\ flowTrace \in IF mode = "trace" THEN Traces ELSE {<<>>}
    /\ LET first == IF mode = "trace" THEN Head(flowTrace).at ELSE 0 IN
       pending = SourceIsPending(SourceIsPending(events, endtime, first, Generator),
                                 endtime, StopTime, Generator)
    /\ concurrentFlows = 0
    /\ liveFlows = {}
    /\ meta = <<>>
    /\ completed = 0 /\ sum_fct = 0 /\ cnt_small = 0 /\ cnt_large = 0
    /\ summaries = <<>> /\ flushed = FALSE
    /\ flow = <<>>

Init == endtime \in Endtimes /\ InitWith(<<>>)

Next ==
    \/ StopEvent
    \/ ArrivalEvent
    \/ TraceEvent
    \/ FlushAllSummaries
    \/ \E id \in Flows : StartEvent(id) \/ FinishEvent(id) \/ DeleteEvent(id)

Spec == Init /\ [][Next]_vars

----------------------------------------------------------------------------
\* Every flow generated is either live or counted once, as small or as large,
\* with the time from its creation to its finish, and the last summary counts
\* all of them (flow-generator.cpp:743-754, 801-830, 868-914).
FlowsAccounted ==
    LET Finished == {id \in Flows : meta[id].finished}
        Small == {id \in Finished : meta[id].size < SMALL_TH}
    IN  /\ Flows = liveFlows \cup Finished
        /\ completed = Cardinality(Finished)
        /\ cnt_small = Cardinality(Small)
        /\ cnt_large = completed - cnt_small
        /\ sum_fct = Total([id \in Flows |->
                         IF meta[id].finished THEN meta[id].end - meta[id].start
                         ELSE 0])
        /\ flushed => summaries[Len(summaries)] = Cardinality(Finished)

\* The flows the generator holds pointers to are those that have not finished:
\* dumpLiveFlows never touches a deleted flow (flow-generator.cpp:745, 754,
\* 771-777).
LiveFlowsExist ==
    liveFlows = {id \in Flows : flow[id] \in {"waiting", "running"}}

\* In a closed loop the number of live flows is the number of arrivals and never
\* exceeds _maxFlows: every finished flow has been replaced at once
\* (flow-generator.cpp:687, 697, 762-767).
LoadIsKept ==
    mode = "closed" => /\ Cardinality(liveFlows) = concurrentFlows
                       /\ concurrentFlows <= MaxFlows

\* A run ends as it was set up, although the stop event is known by its time
\* alone and a simulation that ends before it drops it.  Its summary is printed
\* before the last one whenever the simulation comes to it; in a closed loop,
\* where no finish prints one, the last is the only one otherwise.  Of a trace
\* only that is left out which was due at the stop time itself, taken for the
\* stop event, or after the simulation's end, with what follows it
\* (flow-generator.cpp:675-679, 690-694, test_conga_testbed.cpp:163, 202).
EndsAsPlanned ==
    flushed =>
        /\ StopTime <= endtime => Len(summaries) >= 2
        /\ StopTime > endtime /\ mode = "closed" => Len(summaries) = 1
        /\ flowTrace # <<>> => \/ Head(flowTrace).at = StopTime
                               \/ Head(flowTrace).at > endtime
=============================================================================
