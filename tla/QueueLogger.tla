---------------------------- MODULE QueueLogger ----------------------------
(***************************************************************************)
(* The sampling queue logger (QueueLoggerSampling of loggers.cpp): what a  *)
(* queue's calls of logQueue and the logger's own periodic event make of   *)
(* its books.  Times and drain times are in the units of the event list;   *)
(* minima, maxima and byte counts of a period, and the records written to  *)
(* the log file, are left out.                                             *)
(***************************************************************************)
EXTENDS Integers

NoLog == [attached |-> FALSE,  \* _queue # NULL
          seen     |-> FALSE,  \* _seenQueueInD
          lastq    |-> 0,      \* _lastq
          lastlook |-> 0,      \* _lastlook
          cumidle  |-> 0,      \* _cumidle
          cumarr   |-> 0,      \* _cumarr
          cumdrop  |-> 0]      \* _cumdrop

\* Mutant: a packet that finds company is taken for one that ends idling.
AfterIdling(queuesize, size) == queuesize >= size

\* The queue holds nothing but the packet that has just been counted.
EndsIdling(queuesize, size) == queuesize <= size

\* logQueue(queue, ev, pkt) at time t, for a packet of size bytes that takes
\* work to drain; queuesize is what the queue has counted when it calls.
LogQueue(log, ev, queuesize, size, work, t) ==
    LET dt     == t - log.lastlook
        looked == [log EXCEPT !.attached = TRUE, !.seen = TRUE,
                              !.lastq = queuesize, !.lastlook = t]
    IN  CASE ev = "PKT_SERVICE" -> looked
          [] ev = "PKT_ENQUEUE" ->
                [looked EXCEPT !.cumarr = @ + work,
                               !.cumidle = @ + IF EndsIdling(queuesize, size)
                                               THEN dt ELSE 0]
          [] ev = "PKT_DROP" ->
                [looked EXCEPT !.cumarr = @ + work, !.cumdrop = @ + work]

\* The rest of doNextEvent, once the next sample is scheduled.
Sample(log, queuesize, t) ==
    IF ~log.attached THEN log
    ELSE [log EXCEPT !.seen = FALSE,
                     !.lastlook = t,
                     !.cumidle = @ + IF queuesize = 0 THEN t - log.lastlook ELSE 0]
=============================================================================
