------------------------------ MODULE MCResync ------------------------------
(* A transaction t, unfinished when the node stopped, that had locked x.   *)
EXTENDS Resync

CONSTANTS n1, n2, n3, t, x

OwnerOf == [p \in Part |-> t]
=============================================================================
