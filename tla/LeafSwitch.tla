----------------------------- MODULE LeafSwitch -----------------------------
(***************************************************************************)
(* A leaf switch's choice of uplinks (leafswitch.cpp, leafswitch.h): for   *)
(* each destination leaf and each uplink it keeps a moving average of the  *)
(* utilisation and of the queueing delay, and for each destination leaf    *)
(* what that leaf last reported.  The averages, doubles in the code, are   *)
(* whole numbers of some unit here.                                        *)
(***************************************************************************)
EXTENDS Integers, FiniteSetsExt

NewLeaf(dsts, choices) ==
    [to_leaf |-> [d \in dsts |-> [c \in choices |-> [util |-> 0, qd |-> 0]]],
     from_leaf_best |-> [d \in dsts |-> 0]]

\* Both averages give the new sample a weight of 0.2.
Ewma(average, sample) == (4 * average + sample) \div 5

\* on_sample: uplink c counts the same towards every destination.
OnSample(leaf, c, util, qd) ==
    LET to == leaf.to_leaf
        Updated(d) == [util |-> Ewma(to[d][c].util, util),
                       qd |-> Ewma(to[d][c].qd, qd)]
    IN  [leaf EXCEPT !.to_leaf =
            [d \in DOMAIN to |-> [to[d] EXCEPT ![c] = Updated(d)]]]

OnFeedback(leaf, dst, remote_best) ==
    [leaf EXCEPT !.from_leaf_best[dst] = remote_best]

Local(leaf, dst, c) == leaf.to_leaf[dst][c].util + leaf.to_leaf[dst][c].qd

\* The report of the destination leaf is added for every uplink alike.
Metric(leaf, dst, c) == Local(leaf, dst, c) + leaf.from_leaf_best[dst]

\* The first of the uplinks with the least metric.
PickUplinkFor(leaf, dst) ==
    Min({c \in DOMAIN leaf.to_leaf[dst] :
            \A e \in DOMAIN leaf.to_leaf[dst] :
                Metric(leaf, dst, c) <= Metric(leaf, dst, e)})

BestMetricTo(leaf, dst) ==
    Min({Local(leaf, dst, c) : c \in DOMAIN leaf.to_leaf[dst]})
=============================================================================
