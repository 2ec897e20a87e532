----------------------------- MODULE ItemVerdict -----------------------------
(***************************************************************************)
(* What the vote on an item promises (the class comment of ItemProcessor   *)
(* and the thresholds of Config), without processors or messages: every    *)
(* node takes a side once, and a node records a verdict only when enough   *)
(* nodes have taken its side.                                              *)
(***************************************************************************)
EXTENDS Integers, FiniteSets

CONSTANTS Node,      \* the nodes of the network
          Positive,  \* sides "yes" an approval needs
          Negative   \* sides "no" a refusal needs

VARIABLES ballot,    \* ballot[n]: the side node n took, or "none"
          verdict    \* verdict[n]: what n's ledger records, or "none"

vars == <<ballot, verdict>>

SideFor(v) == IF v = "APPROVED" THEN "yes" ELSE "no"
Needed(v) == IF v = "APPROVED" THEN Positive ELSE Negative

Init ==
  /\ ballot = [n \in Node |-> "none"]
  /\ verdict = [n \in Node |-> "none"]

\* A node that has checked the item takes a side.
Cast(n, side) ==
  /\ ballot[n] = "none"
  /\ ballot' = [ballot EXCEPT ![n] = side]
  /\ UNCHANGED verdict

\* A node records a verdict that enough nodes support; one that had no side
\* of its own joins them.
Record(n, v) ==
  /\ verdict[n] = "none"
  /\ Cardinality({m \in Node : ballot[m] = SideFor(v)}) >= Needed(v)
  /\ verdict' = [verdict EXCEPT ![n] = v]
  /\ ballot' = [ballot EXCEPT ![n] = IF @ = "none" THEN SideFor(v) ELSE @]

Next ==
  \E n \in Node :
    \/ \E side \in {"yes", "no"} : Cast(n, side)
    \/ \E v \in {"APPROVED", "DECLINED"} : Record(n, v)

Spec == Init /\ [][Next]_vars
=============================================================================
