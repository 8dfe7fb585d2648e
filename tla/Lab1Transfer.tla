---------------------------- MODULE Lab1Transfer ----------------------------
(***************************************************************************)
(* The sliding-window transfer of Lab1: lab1-client.c sends FlowNum flows  *)
(* of numbered segments over one link, lab1-server.c answers each segment  *)
(* with a cumulative ack of bytes.  Neither side retransmits.              *)
(*                                                                         *)
(* The client is one loop that fills the windows and takes in acks; a send *)
(* that fails (no mbuf, full ring) is a step not taken.  The server's      *)
(* handler is one step per packet; an ack it cannot allocate or transmit   *)
(* is an ack lost.                                                         *)
(*                                                                         *)
(* client-gpt.c and server-gpt.c are an earlier pair of the two programs,  *)
(* with the same segments, windows and acks: the client reads acks and     *)
(* decides completion in another way, never seeds rand(), and the server   *)
(* does not tell one run of the client from the next.                      *)
(***************************************************************************)
EXTENDS Integers, Sequences, SequencesExt

CONSTANTS
    FlowNum,        \* flow_num
    MaxFlows,       \* MAX_FLOWS: the flows the server keeps state for
    Versions,       \* the pairs run: among "lab1" and "gpt"
    FlowSizes,      \* what lab1-client may be given as flow_size, in bytes
    OldFlowSizes,   \* the same for client-gpt, whose flow_size is an int
    Mss,            \* MSS_BYTES
    Mini,           \* sizeof(mini_hdr_t)
    ClientWindow,   \* MAX_WINDOW_LEN of the client, in segments
    ServerWindow,   \* MAX_WINDOW_LEN of the server, in segments
    Word,           \* 2^32: the modulus of sequence numbers and acks
    Isns,           \* initial sequence numbers rand() may give
    Reorder,        \* segments may overtake each other on the way there
    MaxLosses,      \* bound: packets the link and the rings lose
    MaxRuns         \* bound: runs of the client against one run of the server

ASSUME LabAssumption ==
    /\ {FlowNum, MaxFlows, ClientWindow, ServerWindow, MaxRuns}
           \subseteq Nat \ {0}
    /\ Versions \subseteq {"lab1", "gpt"}
    /\ FlowSizes \cup OldFlowSizes \subseteq Nat \ {0}
    /\ Mini \in Nat \ {0} /\ Mss \in Nat /\ Mini < Mss
    /\ Word \in Nat /\ Isns \subseteq 0 .. Word - 1
    /\ Reorder \in BOOLEAN /\ MaxLosses \in Nat
    /\ ClientWindow * Mss < Word /\ ClientWindow <= ServerWindow

Flows == 1 .. FlowNum
Served == {f \in Flows : f <= MaxFlows}

DataPerSeg == Mss - Mini

VARIABLES
    version,    \* the pair of programs that runs
    flow_size,  \* the client's, which is also its total_bytes
    client_isn, next_seg, base_seg, in_flight,  \* the client's, by flow
    last_ack32, ack_bytes64,                    \* the client's, by flow
    active_flows,                               \* the client's
    flows,      \* the server's: inited, client_isn, base_seg, bytes_contig, win
    fwd,        \* segments on the link: flow, sent_seq, seg_idx and bytes
    rev,        \* acks on the link: flow and recv_ack
    got,        \* history: segments that reached the server, in this run of
                \* the client or, for the earlier server, in any run
    losses,     \* packets lost so far
    runs        \* runs of the client so far

client == <<client_isn, next_seg, base_seg, in_flight, last_ack32,
            ack_bytes64, active_flows, runs>>
vars == <<version, flow_size, client, flows, fwd, rev, got, losses>>

TotalSegs == (flow_size + DataPerSeg - 1) \div DataPerSeg
GoalBytes == flow_size + TotalSegs * Mini

----------------------------------------------------------------------------
(* The client *)

\* Bytes of a segment on the wire, its mini_hdr included: the last one carries
\* what remains.
SegBytes(s) == (IF s = TotalSegs - 1 THEN flow_size - s * DataPerSeg
                ELSE DataPerSeg) + Mini

SeqNo(isn, s) == (isn + s * Mss) % Word

\* Mutant: the window may hold one segment more.
WindowOneMore(f) == in_flight[f] <= ClientWindow

WindowOpen(f) == in_flight[f] < ClientWindow

SendSegment(f) ==
    /\ base_seg[f] < TotalSegs
    /\ WindowOpen(f) /\ next_seg[f] < TotalSegs
    /\ fwd' = Append(fwd, [flow |-> f, idx |-> next_seg[f],
                           seq |-> SeqNo(client_isn[f], next_seg[f]),
                           bytes |-> SegBytes(next_seg[f])])
    /\ next_seg' = [next_seg EXCEPT ![f] = @ + 1]
    /\ in_flight' = [in_flight EXCEPT ![f] = @ + 1]
    /\ UNCHANGED <<version, flow_size, client_isn, base_seg, last_ack32,
                   ack_bytes64, active_flows, runs, flows, rev, got, losses>>

\* Mutant: an ack below the last one is not taken for a wrap of 32 bits.
NoWrapAround(cur, prev) == IF cur >= prev THEN cur - prev ELSE 0

\* The bytes an ack adds, computed modulo 2^32.
Delta32(cur, prev) == (cur - prev) % Word

\* Mutant: the flow is done when its data, without the headers, is covered.
ForgetsHeaders(bytes) == bytes >= flow_size

Completes(bytes) == bytes >= GoalBytes

\* Mutant: the whole window is released by any progress.
ReleasesAll(inflight, newly) == 0

Released(inflight, newly) == IF newly > inflight THEN 0 ELSE inflight - newly

AlreadyDone(f) == base_seg[f] >= TotalSegs

\* One ack of the burst; acks for other ports are not for this program.
ReceiveAck ==
    /\ version = "lab1"
    /\ rev # <<>>
    /\ rev' = Tail(rev)
    /\ LET f     == Head(rev).flow
           cur   == Head(rev).ack
           bytes == ack_bytes64[f] + Delta32(cur, last_ack32[f])
           segs  == bytes \div Mss
       IN  /\ ack_bytes64' = [ack_bytes64 EXCEPT ![f] = bytes]
           /\ last_ack32' = [last_ack32 EXCEPT ![f] = cur]
           /\ \/ /\ AlreadyDone(f)
                 /\ UNCHANGED <<base_seg, in_flight, active_flows>>
              \/ /\ ~AlreadyDone(f) /\ Completes(bytes)
                 /\ in_flight' = [in_flight EXCEPT ![f] = 0]
                 /\ base_seg' = [base_seg EXCEPT ![f] = TotalSegs]
                 /\ active_flows' = active_flows - 1
              \/ /\ ~AlreadyDone(f) /\ ~Completes(bytes)
                 /\ segs > base_seg[f]
                 /\ base_seg' = [base_seg EXCEPT ![f] = segs]
                 /\ in_flight' = [in_flight EXCEPT
                                     ![f] = Released(@, segs - base_seg[f])]
                 /\ UNCHANGED active_flows
              \/ /\ ~AlreadyDone(f) /\ ~Completes(bytes)
                 /\ segs <= base_seg[f]
                 /\ UNCHANGED <<base_seg, in_flight, active_flows>>
    /\ UNCHANGED <<version, flow_size, client_isn, next_seg, runs, flows, fwd,
                   got, losses>>

\* The earlier client: whole segments of 32-bit bytes since the initial number,
\* and a flow is done when as many as it has are covered.
OldReceiveAck ==
    /\ version = "gpt"
    /\ rev # <<>>
    /\ rev' = Tail(rev)
    /\ LET f    == Head(rev).flow
           segs == Delta32(Head(rev).ack, client_isn[f]) \div Mss
       IN  \/ /\ segs > base_seg[f]
              /\ base_seg' = [base_seg EXCEPT ![f] = segs]
              /\ in_flight' = [in_flight EXCEPT
                                  ![f] = Released(@, segs - base_seg[f])]
              /\ active_flows' = active_flows - (IF segs >= TotalSegs THEN 1 ELSE 0)
           \/ /\ segs <= base_seg[f]
              /\ UNCHANGED <<base_seg, in_flight, active_flows>>
    /\ UNCHANGED <<version, flow_size, client_isn, next_seg, last_ack32,
                   ack_bytes64, runs, flows, fwd, got, losses>>

\* The state of every flow at the start of a run, for the numbers drawn.
StartRun(isn) ==
    /\ client_isn' = isn
    /\ next_seg' = [f \in Flows |-> 0]
    /\ base_seg' = [f \in Flows |-> 0]
    /\ in_flight' = [f \in Flows |-> 0]
    /\ last_ack32' = isn
    /\ ack_bytes64' = [f \in Flows |-> 0]
    /\ active_flows' = FlowNum

\* The client has ended, or was stopped by its user when it hung, and is run
\* again: the link is quiet by then, and rand() does not give a flow the very
\* number the server remembers.
NewRun ==
    /\ version = "lab1"
    /\ runs < MaxRuns /\ runs' = runs + 1
    /\ fwd = <<>> /\ rev = <<>>
    /\ \E isn \in [Flows -> Isns] :
          /\ \A f \in Flows :
                 ~(flows[f].inited /\ flows[f].client_isn = isn[f])
          /\ StartRun(isn)
    /\ got' = [f \in Flows |-> {}]
    /\ UNCHANGED <<version, flow_size, flows, fwd, rev, losses>>

\* The earlier client draws the same numbers in every run.
OldNewRun ==
    /\ version = "gpt"
    /\ runs < MaxRuns /\ runs' = runs + 1
    /\ fwd = <<>> /\ rev = <<>>
    /\ StartRun(client_isn)
    /\ UNCHANGED <<version, flow_size, flows, fwd, rev, got, losses>>

----------------------------------------------------------------------------
(* The server *)

EmptyWindow == [r \in 0 .. ServerWindow - 1 |-> 0]

\* The initial sequence number a segment's number and index imply.
InferredIsn(p) == (p.seq - p.idx * Mss) % Word

\* Mutant: what was received for the previous number is kept.
KeepsProgress(st, isn) == [st EXCEPT !.inited = TRUE, !.client_isn = isn]

Reset(st, isn) ==
    [inited |-> TRUE, client_isn |-> isn, base_seg |-> 0, bytes_contig |-> 0,
     win |-> EmptyWindow]

\* Mutant: an "if" where the code has a "while".
EatsOne(win) == IF win[0] > 0 THEN 1 ELSE 0

\* Slots the loop of sw_mark_and_advance eats from the left edge.
Eaten(win) ==
    CHOOSE k \in 0 .. ServerWindow :
        /\ \A r \in 0 .. k - 1 : win[r] > 0
        /\ k < ServerWindow => win[k] = 0

\* bytes_contig after r slots are eaten.
ContigAfter(st) ==
    LET bytes[r \in 0 .. ServerWindow] ==
            IF r = 0 THEN st.bytes_contig ELSE bytes[r - 1] + st.win[r - 1]
    IN  bytes

Advance(st) ==
    LET k == Eaten(st.win)
    IN  [st EXCEPT
            !.base_seg = @ + k,
            !.bytes_contig = ContigAfter(st)[k],
            !.win = [r \in 0 .. ServerWindow - 1 |->
                        IF r + k < ServerWindow THEN @[r + k] ELSE 0]]

MarkAndAdvance(st, idx, bytes) ==
    IF idx < st.base_seg \/ idx - st.base_seg >= ServerWindow THEN st
    ELSE Advance([st EXCEPT !.win[idx - st.base_seg] = bytes])

Deliverable == IF Reorder THEN 1 .. Len(fwd) ELSE (1 .. Len(fwd)) \cap {1}

\* The state a segment is counted in.
StateFor(st, isn) ==
    IF st.inited /\ st.client_isn = isn THEN st ELSE Reset(st, isn)

OldStateFor(st, isn) == IF st.inited THEN st ELSE Reset(st, isn)

\* The i-th segment on the link is counted in state known and answered: with a
\* cumulative ack, or an echo of its number where there is no state.
Answer(i, known) ==
    LET p   == fwd[i]
        st  == IF p.flow \in Served THEN MarkAndAdvance(known, p.idx, p.bytes)
               ELSE flows[p.flow]
        ack == IF st.inited THEN (st.client_isn + st.bytes_contig) % Word
               ELSE p.seq
    IN  /\ fwd' = RemoveAt(fwd, i)
        /\ flows' = [flows EXCEPT ![p.flow] = st]
        /\ got' = [got EXCEPT ![p.flow] = @ \cup {p.idx}]
        /\ \/ /\ rev' = Append(rev, [flow |-> p.flow, ack |-> ack])
              /\ UNCHANGED losses
           \/ /\ losses < MaxLosses /\ losses' = losses + 1
              /\ UNCHANGED rev
        /\ UNCHANGED <<version, flow_size, client>>

\* The handler, one packet of a burst.
ReceiveSegment ==
    /\ version = "lab1"
    /\ \E i \in Deliverable :
          Answer(i, StateFor(flows[fwd[i].flow], InferredIsn(fwd[i])))

OldReceiveSegment ==
    /\ version = "gpt"
    /\ \E i \in Deliverable :
          Answer(i, OldStateFor(flows[fwd[i].flow], InferredIsn(fwd[i])))

\* The link or a full receive ring loses a packet; the rest keeps its order.
Lose ==
    /\ losses < MaxLosses /\ losses' = losses + 1
    /\ \/ /\ \E i \in 1 .. Len(fwd) : fwd' = RemoveAt(fwd, i)
          /\ UNCHANGED rev
       \/ /\ \E i \in 1 .. Len(rev) : rev' = RemoveAt(rev, i)
          /\ UNCHANGED fwd
    /\ UNCHANGED <<version, flow_size, client, flows, got>>

----------------------------------------------------------------------------
Init ==
    /\ version \in Versions
    /\ flow_size \in IF version = "lab1" THEN FlowSizes ELSE OldFlowSizes
    /\ client_isn \in [Flows -> Isns]
    /\ next_seg = [f \in Flows |-> 0]
    /\ base_seg = [f \in Flows |-> 0]
    /\ in_flight = [f \in Flows |-> 0]
    /\ last_ack32 = client_isn
    /\ ack_bytes64 = [f \in Flows |-> 0]
    /\ active_flows = FlowNum
    /\ flows = [f \in Flows |-> [inited |-> FALSE, client_isn |-> 0,
                                 base_seg |-> 0, bytes_contig |-> 0,
                                 win |-> EmptyWindow]]
    /\ fwd = <<>> /\ rev = <<>>
    /\ got = [f \in Flows |-> {}]
    /\ losses = 0
    /\ runs = 1

Next ==
    \/ \E f \in Flows : SendSegment(f)
    \/ ReceiveAck \/ OldReceiveAck
    \/ NewRun \/ OldNewRun
    \/ ReceiveSegment \/ OldReceiveSegment
    \/ Lose

Spec == Init /\ [][Next]_vars

\* Both loops poll for ever: every segment the window allows is sent in the
\* end, and every packet on the link is taken in.
FairSpec ==
    /\ Spec
    /\ \A f \in Flows : WF_vars(SendSegment(f))
    /\ WF_vars(ReceiveAck \/ OldReceiveAck)
    /\ WF_vars(ReceiveSegment \/ OldReceiveSegment)

----------------------------------------------------------------------------
Done(f) == base_seg[f] >= TotalSegs

\* Segments that have reached the server, up to the first gap.
Prefix(f) == CHOOSE k \in 0 .. TotalSegs : /\ 0 .. k - 1 \subseteq got[f]
                                            /\ k \notin got[f]

\* The earlier client counts whole segments of Mss bytes; the last one is whole
\* only if the flow's size is a multiple of the data of a segment.
Completable == version = "lab1" \/ flow_size % DataPerSeg = 0

BytesOf(k) == IF k = TotalSegs THEN GoalBytes ELSE k * Mss

\* The client reports a flow the server keeps state for done only when the
\* server has every segment of it, and counts each flow once.  For the earlier
\* pair the segments may be those of an earlier run, and a flow whose last
\* segment is short is never done
\* (lab1-client.c:402-422, lab1-server.c:431-445, client-gpt.c:353-364,
\* server-gpt.c:429-443).
DoneIsDelivered ==
    /\ \A f \in Served : Done(f) => Completable /\ got[f] = 0 .. TotalSegs - 1
    /\ active_flows = Cardinality({f \in Flows : ~Done(f)})

\* The server's byte count and left edge are those of the segments it has
\* without a gap: a new run starts from nothing, and the window never holds
\* back what is there (lab1-server.c:85-105, 432-438, server-gpt.c:85-105).
CountsThePrefix ==
    \A f \in Served : got[f] # {} =>
        /\ flows[f].client_isn = client_isn[f]
        /\ flows[f].base_seg = Prefix(f)
        /\ flows[f].bytes_contig = BytesOf(Prefix(f))

\* The 64-bit byte count the client accumulates from 32-bit acks is the number
\* of bytes some earlier ack covered, across any wrap of the sequence numbers
\* and any loss of acks (lab1-client.c:377-388); the earlier client's segment
\* count never covers more than the server has (client-gpt.c:353-357).
AckBytesAreReal ==
    \A f \in Served :
        IF version = "gpt" THEN base_seg[f] * Mss <= BytesOf(Prefix(f))
        ELSE /\ ack_bytes64[f] <= BytesOf(Prefix(f))
             /\ last_ack32[f] = (client_isn[f] + ack_bytes64[f]) % Word

\* Of the flows the server keeps state for, in_flight counts the segments between
\* the two edges of the client's window (lab1-client.c:348-362, 425-430,
\* client-gpt.c:333-358).  A second run of the earlier client may be told of
\* segments it has not sent.
InFlightExact ==
    \A f \in Served : ~Done(f) /\ (version = "lab1" \/ runs = 1) =>
        /\ in_flight[f] = next_seg[f] - base_seg[f]
        /\ base_seg[f] <= next_seg[f] /\ next_seg[f] <= TotalSegs

\* No segment arrives beyond the server's window, where it would be dropped
\* and, without retransmission, never come again (lab1-server.c:88-90).
NothingBeyondWindow ==
    \A i \in 1 .. Len(fwd) : fwd[i].flow \in Served =>
        fwd[i].idx < Prefix(fwd[i].flow) + ServerWindow

\* "Byte-level cumulative ACK" (lab1-server.c:487): an ack covers only segments
\* that have arrived without a gap.
AcksAreCumulative ==
    \A i \in 1 .. Len(rev) :
        (rev[i].ack - client_isn[rev[i].flow]) % Word
            <= BytesOf(Prefix(rev[i].flow))

\* A transfer that loses nothing completes, as long as the server keeps state
\* for its flows: no window stays shut with nothing in flight.  With the earlier
\* client that takes a size that fills the last segment
\* (lab1-client.c:399-422, client-gpt.c:354-364).
LosslessCompletes ==
    [](losses = 0) /\ Completable => <>(\A f \in Served : Done(f))
=============================================================================
