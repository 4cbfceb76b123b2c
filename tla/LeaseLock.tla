----------------------------- MODULE LeaseLock -----------------------------
(***************************************************************************)
(* What the execution lock of a chat promises while leases hold: a turn    *)
(* enters an empty section, and nobody else enters before it has left.     *)
(* (A holder that outlives its lease counts as gone.)                      *)
(***************************************************************************)
CONSTANT Jobs

VARIABLE inside

Init == inside = {}

Enter(j) == inside = {} /\ inside' = {j}

Leave(j) == inside = {j} /\ inside' = {}

Next == \E j \in Jobs : Enter(j) \/ Leave(j)

Spec == Init /\ [][Next]_inside
=============================================================================
