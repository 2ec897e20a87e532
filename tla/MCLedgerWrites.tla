--------------------------- MODULE MCLedgerWrites ---------------------------
\* a and b both create x and y, c creates z.
EXTENDS LedgerWrites

CONSTANTS a, b, c, x, y, z

Contested == [t \in Tx |-> IF t = c THEN {z} ELSE {x, y}]

\* a and b both create x.
Shared == [t \in Tx |-> {x}]
=============================================================================
