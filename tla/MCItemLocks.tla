----------------------------- MODULE MCItemLocks -----------------------------
\* The item x exists, y does not.  a revokes x and creates y; c revokes x; v creates y
\* and revokes it again; b revokes y.  So a and c want the same item, a and v too, b and
\* v too, and b goes on from what a makes.
EXTENDS ItemLocks

CONSTANTS a, b, c, v, x, y

Revoked == [t \in Tx |-> IF t \in {a, c} THEN {x} ELSE {y}]
Created == [t \in Tx |-> IF t \in {a, v} THEN {y} ELSE {}]
=============================================================================
