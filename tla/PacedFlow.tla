------------------------------ MODULE PacedFlow ------------------------------
(***************************************************************************)
(* A flow with the rate-based transport an experiment has chosen for it    *)
(* (flow-generator.cpp:717-720): TimelyFlow or PacketPairFlow.  Both have  *)
(* the variables of PacedSource; what belongs to the other one never moves. *)
(***************************************************************************)
EXTENDS PacedSource

CONSTANT FirstEstimate   \* see TimelyFlow

ASSUME EstimateAssumption == FirstEstimate \in Nat

VARIABLES
    transport,
    last_rtt_bytes,                      \* TimelyFlow
    first_rto, paced, first_pair_seqno   \* PacketPairFlow

pairOnly == <<first_rto, paced, first_pair_seqno>>
vars == <<transport, pacedVars, last_rtt_bytes, pairOnly>>

Timely == INSTANCE TimelyFlow
Pair   == INSTANCE PacketPairFlow

Init ==
    /\ transport \in {"timely", "pktpair"}
    /\ Timely!Init /\ Pair!Init

TimelyIs(action) == /\ transport = "timely" /\ action
                    /\ UNCHANGED <<transport, pairOnly>>
PairIs(action)   == /\ transport = "pktpair" /\ action
                    /\ UNCHANGED <<transport, last_rtt_bytes>>

TimelyStep == TimelyIs(Timely!Next)
PairStep == PairIs(Pair!Next)

Next == TimelyStep \/ PairStep

Spec == Init /\ [][Next]_vars

\* The event list goes on with the next event until there is none; a timer
\* whose packets may yet be acknowledged need not be the next.
FairSpec == Spec /\ WF_vars(TimelyIs(Timely!Event) \/ PairIs(Pair!Event))

----------------------------------------------------------------------------
\* A running flow, of a packet-pair source one whose paced chain runs, has a
\* packet to send at its next poll or a timer that will make it send one, also
\* when the unsigned flight size has wrapped around and keeps its gate shut
\* (timely.cpp:244, 310; packetpair.cpp:287, 366).
NeverStuck ==
    /\ transport = "timely"  => Timely!NeverStuck
    /\ transport = "pktpair" => Pair!NeverStuck

Phase == IF deleted THEN "deleted"
         ELSE CASE state = "FINISH"   -> "finished"
                [] state \in Running  -> "active"
                [] OTHER              -> "idle"

\* What a packet-pair source knows it forgets when it starts again.
Promise == INSTANCE ReliableTransfer
    WITH Size <- FlowSize, MayExpire <- FALSE, phase <- Phase,
         sent <- max_sent, delivered <- cumulative_ack,
         known <- IF transport = "timely" THEN last_acked ELSE 0

\* Under both transports the flow implements ReliableTransfer: it finishes only
\* when the sink has every byte, and is deleted once, after that.
ImplementsReliableTransfer == Promise!Spec

\* The sink of either transport, fed by a source that retransmits, over routes
\* that lose packets, is a cumulative receiver: the ack is always the end of the
\* received prefix (datasink.cpp:17-59, timely.cpp:358-379, packetpair.cpp:446).
ImplementsPrefixReceiver == Sink!ImplementsPrefixReceiver

\* A timely flow is delivered, finishes and is deleted, whatever is lost.  A
\* packet-pair flow ends that way or is left by its last event; it does not
\* send for ever without coming to an end.
FlowEndsClean ==
    <>(deleted \/ (transport = "pktpair" /\ Pair!Abandoned))
=============================================================================
