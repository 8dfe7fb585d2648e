------------------------------- MODULE Testbed -------------------------------
(***************************************************************************)
(* The experiments: a FlowGenerator on a network that gives each new flow  *)
(* its routes.  The networks are one link (test_single_link.cpp), leaves   *)
(* and cores with ECMP or CONGA (test_conga_testbed.cpp), and a fat tree   *)
(* (test_fat-tree_testbed.cpp).                                            *)
(*                                                                         *)
(* A queue and its pipe are a link between two nodes.  The code names the  *)
(* queues by array indices only; their nodes are what the indices mean,    *)
(* and a core of the fat tree is known by the aggregation switches and the *)
(* uplink that lead to it.                                                 *)
(***************************************************************************)
EXTENDS FlowGenerator, LeafSwitch

CONSTANTS
    Schemes,                        \* among "single", "ecmp", "conga", "fattree"
    N_LEAF, N_UL, N_SRV,            \* test_conga_testbed.cpp
    FlowHash,                       \* flow_hash, a function of the two servers
    SamplePeriod,                   \* LeafSampler::period_
    N_SUBTREE, N_TOR, N_AGG, N_UPLINK, N_SERVER  \* test_fat-tree_testbed.cpp

Servers == 0 .. N_LEAF * N_SRV - 1
Leaves == 0 .. N_LEAF - 1
N_NODES == N_SUBTREE * N_TOR * N_SERVER

ASSUME TestbedAssumption ==
    /\ Schemes \subseteq {"single", "ecmp", "conga", "fattree"}
    /\ {N_LEAF, N_UL, N_SRV, SamplePeriod} \subseteq Nat \ {0}
    /\ {N_SUBTREE, N_TOR, N_AGG, N_UPLINK, N_SERVER} \subseteq Nat \ {0}
    /\ FlowHash \in [Servers \X Servers -> Nat]

VARIABLES
    scheme,
    leafs,    \* the LeafSwitch of each leaf
    route     \* the routes of the flow created by the last event, if it did

testbedVars == <<vars, scheme, leafs, route>>

Sampler == <<"sampler", 0>>
NoRoute == <<>>

Link(a, b) == [from |-> a, to |-> b]

----------------------------------------------------------------------------
(* Leaves and cores *)

Srv2ls(sid) == [leaf |-> sid \div N_SRV, srv |-> sid % N_SRV]
Server(s) == <<"server", s>>
Leaf(l) == <<"leaf", l>>
Core(k) == <<"core", k>>

\* build_route: also within a leaf the way is over a core; the way back is the
\* same with the ends exchanged.
Way(s, d, k) ==
    <<Link(Server(s), Leaf(s.leaf)), Link(Leaf(s.leaf), Core(k)),
      Link(Core(k), Leaf(d.leaf)), Link(Leaf(d.leaf), Server(d))>>

BuildRoute(src, dst, k) ==
    LET s == Srv2ls(src)  d == Srv2ls(dst) IN
    [src |-> Server(s), dst |-> Server(d), core |-> k,
     fwd |-> Way(s, d, k), rev |-> Way(d, s, k)]

GenRouteEcmp ==
    /\ \E src, dst \in Servers :
          /\ src # dst
          /\ route' = BuildRoute(src, dst, FlowHash[src, dst] % N_UL)
    /\ UNCHANGED leafs

\* The source leaf decides; then it hears of the destination leaf's best.
GenRouteConga ==
    \E src, dst \in Servers :
        LET sl == Srv2ls(src).leaf
            dl == Srv2ls(dst).leaf
        IN  /\ src # dst
            /\ route' = BuildRoute(src, dst, PickUplinkFor(leafs[sl], dl))
            /\ leafs' = [leafs EXCEPT
                            ![sl] = OnFeedback(@, dl, BestMetricTo(leafs[dl], sl))]

\* LeafSampler::doNextEvent, for a leaf: the bytes sent and queued it reports
\* of each uplink are zeros.
Sampled(leaf) ==
    LET after[k \in 0 .. N_UL] ==
            IF k = 0 THEN leaf ELSE OnSample(after[k - 1], k - 1, 0, 0)
    IN  after[N_UL]

SampleEvent ==
    /\ Take(Sampler)
    /\ leafs' = [l \in Leaves |-> Sampled(leafs[l])]
    /\ Become(Schedule(Rest, now' + SamplePeriod, Sampler))
    /\ route' = NoRoute
    /\ UNCHANGED <<flowTrace, concurrentFlows, stats, summaries, scheme>>

----------------------------------------------------------------------------
(* The fat tree *)

NodeOf(n) == [tree |-> n \div (N_TOR * N_SERVER),
              tor  |-> (n \div N_SERVER) % N_TOR,
              svr  |-> n % N_SERVER]
Tor(s) == <<"tor", s.tree, s.tor>>
Agg(tree, a) == <<"agg", tree, a>>
TreeCore(a, up) == <<"core", a, up>>

\* From s up to aggregation switch sa of its tree, and down from da of d's.
TreeWay(s, d, sa, da, up) ==
    LET leavesTor  == Tor(s) # Tor(d)
        leavesTree == s.tree # d.tree
        When(b, links) == IF b THEN links ELSE <<>>
    IN  <<Link(Server(s), Tor(s))>>
        \o When(leavesTor, <<Link(Tor(s), Agg(s.tree, sa))>>)
        \o When(leavesTree, <<Link(Agg(s.tree, sa), TreeCore(sa, up)),
                              Link(TreeCore(da, up), Agg(d.tree, da))>>)
        \o When(leavesTor, <<Link(Agg(d.tree, da), Tor(d))>>)
        \o <<Link(Tor(d), Server(d))>>

\* Mutant: the two ends do not agree on the aggregation switch.
NextAgg(src_agg) == (src_agg + 1) % N_AGG

DstAgg(src_agg) == src_agg

\* A draw for the source from all nodes but one is moved past the destination.
SrcFor(draw, dst) == IF draw >= dst THEN draw + 1 ELSE draw

\* generateRandomRoute, called with both ends 0: to be drawn.
GenerateRandomRoute ==
    /\ \E dst \in 0 .. N_NODES - 1, draw \in 0 .. N_NODES - 2,
          up \in 0 .. N_UPLINK - 1, sa \in 0 .. N_AGG - 1 :
          LET s == NodeOf(SrcFor(draw, dst))
              d == NodeOf(dst)
          IN  route' = [src |-> Server(s), dst |-> Server(d), core |-> up,
                        fwd |-> TreeWay(s, d, sa, DstAgg(sa), up),
                        rev |-> TreeWay(d, s, DstAgg(sa), sa, up)]
    /\ UNCHANGED leafs

----------------------------------------------------------------------------
(* One link *)

Ends == [src |-> <<"server", 0>>, dst |-> <<"server", 1>>]

GenerateRoute ==
    /\ route' = [src |-> Ends.src, dst |-> Ends.dst, core |-> 0,
                 fwd |-> <<Link(Ends.src, Ends.dst)>>,
                 rev |-> <<Link(Ends.dst, Ends.src)>>]
    /\ UNCHANGED leafs

----------------------------------------------------------------------------
\* createFlow calls _routeGen once for the flow it creates.
RouteGen ==
    \/ scheme = "single"  /\ GenerateRoute
    \/ scheme = "ecmp"    /\ GenRouteEcmp
    \/ scheme = "conga"   /\ GenRouteConga
    \/ scheme = "fattree" /\ GenerateRandomRoute

Creates == Len(meta') > Len(meta)

GeneratorStep ==
    /\ Next
    /\ \/ Creates /\ RouteGen
       \/ ~Creates /\ route' = NoRoute /\ UNCHANGED leafs
    /\ UNCHANGED scheme

\* The samplers are attached before the generator schedules itself.  Only the
\* single link has a closed loop or a trace.
TestbedInit ==
    /\ scheme \in Schemes /\ endtime \in Endtimes
    /\ InitWith(IF scheme \in {"ecmp", "conga"}
                THEN SourceIsPending(<<>>, endtime, SamplePeriod, Sampler)
                ELSE <<>>)
    /\ scheme # "single" => mode = "open"
    /\ leafs = [l \in Leaves |-> NewLeaf(Leaves, 0 .. N_UL - 1)]
    /\ route = NoRoute

TestbedNext == GeneratorStep \/ SampleEvent

TestbedSpec == TestbedInit /\ [][TestbedNext]_testbedVars

----------------------------------------------------------------------------
IsPath(links, a, b) ==
    /\ links[1].from = a /\ links[Len(links)].to = b
    /\ \A i \in 1 .. Len(links) - 1 : links[i].to = links[i + 1].from

NodesOf(links) == [i \in 1 .. Len(links) |-> links[i].to]

\* The routes of a new flow lead from one server to another and back through
\* the same switches, and pass no queue twice (test_conga_testbed.cpp:53-70,
\* test_fat-tree_testbed.cpp:217-291).
RoutesConnect ==
    route # NoRoute =>
        /\ route.src # route.dst
        /\ IsPath(route.fwd, route.src, route.dst)
        /\ IsPath(route.rev, route.dst, route.src)
        /\ Len(route.fwd) = Len(route.rev)
        /\ Cardinality(ToSet(route.fwd)) = Len(route.fwd)
        /\ \A i \in 1 .. Len(route.fwd) :
              route.fwd[i].to = route.rev[Len(route.rev) + 1 - i].from

\* "(Key) each leaf gets a sampler, which periodically feeds the queueing and
\* sending information of the 12 uplinks to LeafSwitch"
\* (test_conga_testbed.cpp:179, in Chinese): every route passes an uplink, so
\* once a flow has finished the samples of some leaf show traffic.  An average
\* that was above 0 does not return to it (leafswitch.cpp:15-16).
SamplesShowTraffic ==
    [][scheme = "conga" /\ completed > 0 /\ Take(Sampler) =>
          \E l, d \in Leaves, c \in 0 .. N_UL - 1 : Local(leafs'[l], d, c) > 0
      ]_testbedVars
=============================================================================
