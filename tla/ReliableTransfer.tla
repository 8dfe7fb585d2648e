-------------------------- MODULE ReliableTransfer --------------------------
(***************************************************************************)
(* What a finite flow of the simulator promises, with no window, timer or  *)
(* packet in sight: bytes are sent, then delivered in order, then the      *)
(* sender learns of it; the flow finishes once every byte is delivered and *)
(* its objects are reclaimed after that, once.                             *)
(***************************************************************************)
EXTENDS Integers

CONSTANTS Size,       \* bytes the application wants to move
          MayExpire   \* TRUE when the flow also has a time limit

VARIABLES phase,      \* "idle", "active", "finished" or "deleted"
          sent,       \* highest byte ever put on the wire
          delivered,  \* length of the prefix the receiver holds
          known       \* length of the prefix the sender knows to be delivered

vars == <<phase, sent, delivered, known>>

Init ==
    /\ phase = "idle"
    /\ sent = 0 /\ delivered = 0 /\ known = 0

\* The sender learns of some delivered bytes and puts new ones on the wire.
SenderStep ==
    /\ phase \in {"idle", "active"} /\ phase' = "active"
    /\ known <= known' /\ known' <= delivered
    /\ sent <= sent' /\ sent' \in Int
    /\ UNCHANGED delivered

\* The receiver's prefix grows, but never beyond what was sent.
Deliver ==
    /\ phase \in {"active", "finished"}
    /\ delivered < delivered' /\ delivered' <= sent
    /\ UNCHANGED <<phase, sent, known>>

Finish ==
    /\ phase = "active" /\ phase' = "finished"
    /\ delivered >= Size \/ MayExpire
    /\ UNCHANGED <<sent, delivered, known>>

Reclaim ==
    /\ phase = "finished" /\ phase' = "deleted"
    /\ UNCHANGED <<sent, delivered, known>>

Next == SenderStep \/ Deliver \/ Finish \/ Reclaim

Spec == Init /\ [][Next]_vars
=============================================================================
