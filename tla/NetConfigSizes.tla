--------------------------- MODULE NetConfigSizes ---------------------------
(***************************************************************************)
(* The thresholds of networks of every size: a network grows one node at a *)
(* time up to MaxNodes, and the nodes recompute their thresholds.          *)
(***************************************************************************)
EXTENDS NetConfig, TLAPS

CONSTANT MaxNodes                \* bound on the network size of a run

ASSUME MaxNodesAssumption == MaxNodes \in Nat \ {0}

VARIABLES nodes,                 \* number of nodes of the network
          negativeConsensus,     \* "no" votes that decline an item
          positiveConsensus,     \* "yes" votes that approve an item
          resyncBreakConsensus   \* "unknown" answers that end a resync

vars == <<nodes, negativeConsensus, positiveConsensus, resyncBreakConsensus>>

-----------------------------------------------------------------------------
UpdateConsensus(n) ==
  /\ negativeConsensus' = NegativeConsensus(n)
  /\ positiveConsensus' = PositiveConsensus(n)
  /\ resyncBreakConsensus' = ResyncBreakConsensus(n)

Init ==
  /\ nodes = 1
  /\ negativeConsensus = NegativeConsensus(1)
  /\ positiveConsensus = PositiveConsensus(1)
  /\ resyncBreakConsensus = ResyncBreakConsensus(1)

\* A network with one more node is started: every Node constructor calls
\* updateConsensus with the new count.
Grow ==
  /\ nodes < MaxNodes
  /\ nodes' = nodes + 1
  /\ UpdateConsensus(nodes')

Next == Grow

Spec == Init /\ [][Next]_vars

-----------------------------------------------------------------------------
\* Every threshold is a number of nodes of the network: none is trivially met
\* by no vote, and each can be met by some set of the network's nodes.
TypeOK ==
  /\ nodes \in 1..MaxNodes
  /\ positiveConsensus \in 1..nodes
  /\ negativeConsensus \in 1..nodes
  /\ resyncBreakConsensus \in 1..nodes

\* One set of votes cannot approve and decline the same item
\* (ItemProcessor.vote counts each node on one side only), and one set of answers
\* cannot both restore an item and declare it unknown (ResyncingItem counts each once).
VerdictsExclude ==
  /\ negativeConsensus + positiveConsensus > nodes
  /\ resyncBreakConsensus + positiveConsensus > nodes

\* Two approvals, of any two items, share a node that voted for both: this is
\* what keeps two transactions that spend the same item from both passing.
\* A network of two nodes does not have it (one vote approves there).
ApprovalsIntersect == nodes # 2 => 2 * positiveConsensus > nodes

\* When every node has voted, one of the two thresholds is met.  It stops
\* being so at 110 nodes: there 99 "yes" and 13 "no" are needed, and 98 and 12
\* leave the election open until it expires.
TurnoutDecides ==
  nodes < 110 => negativeConsensus + positiveConsensus <= nodes + 1

-----------------------------------------------------------------------------
\* Every threshold of updateConsensus is between one and the number of nodes.
LEMMA ThresholdRange ==
  ASSUME NEW n \in Nat \ {0}
  PROVE  /\ PositiveConsensus(n) \in 1..n
         /\ NegativeConsensus(n) \in 1..n
         /\ ResyncBreakConsensus(n) \in 1..n
BY DEF PositiveConsensus, NegativeConsensus, ResyncBreakConsensus, Exclusive, AtLeastOne

\* The negative and the resync thresholds of updateConsensus cannot be met by
\* nodes that do not also take part in a positive verdict.
LEMMA ThresholdsShareANode ==
  ASSUME NEW n \in Nat \ {0}
  PROVE  /\ NegativeConsensus(n) + PositiveConsensus(n) > n
         /\ ResyncBreakConsensus(n) + PositiveConsensus(n) > n
BY DEF PositiveConsensus, NegativeConsensus, ResyncBreakConsensus, Exclusive, AtLeastOne

\* Two positive verdicts share a node, in any network but one of two nodes.
LEMMA PositiveMajority ==
  ASSUME NEW n \in Nat \ {0}, n # 2
  PROVE  2 * PositiveConsensus(n) > n
BY DEF PositiveConsensus, AtLeastOne

\* Below 110 nodes the positive and the negative threshold leave no gap for a
\* full turnout to fall into: what rounding up adds is at most one vote.
LEMMA ThresholdsMeet ==
  ASSUME NEW n \in Nat \ {0}, n < 110
  PROVE  NegativeConsensus(n) + PositiveConsensus(n) <= n + 1
BY DEF PositiveConsensus, NegativeConsensus, Exclusive, AtLeastOne

-----------------------------------------------------------------------------
ConfigInv ==
  /\ TypeOK
  /\ negativeConsensus = NegativeConsensus(nodes)
  /\ positiveConsensus = PositiveConsensus(nodes)
  /\ resyncBreakConsensus = ResyncBreakConsensus(nodes)

\* The thresholds of a node are those updateConsensus computes for the size of
\* its network, at every size.
LEMMA ConfigIsCurrent == Spec => []ConfigInv
<1> USE MaxNodesAssumption
<1>1. Init => ConfigInv
  BY ThresholdRange DEF Init, ConfigInv, TypeOK
<1>2. ConfigInv /\ [Next]_vars => ConfigInv'
  <2> SUFFICES ASSUME ConfigInv, [Next]_vars
               PROVE  ConfigInv'
    OBVIOUS
  <2>1. CASE Grow
    <3>1. nodes' \in 1..MaxNodes /\ nodes' \in Nat \ {0}
      BY <2>1 DEF Grow, ConfigInv, TypeOK
    <3>2. QED
      BY <2>1, <3>1, ThresholdRange DEF Grow, UpdateConsensus, ConfigInv, TypeOK
  <2>2. CASE UNCHANGED vars
    BY <2>2 DEF vars, ConfigInv, TypeOK
  <2>3. QED
    BY <2>1, <2>2 DEF Next
<1>3. QED
  BY <1>1, <1>2, PTL DEF Spec

\* updateConsensus never lets one set of votes approve and decline an item, and
\* never lets one set of answers restore an item and give it up.
THEOREM ThresholdsExclude == Spec => []VerdictsExclude
<1>1. ConfigInv => VerdictsExclude
  BY ThresholdsShareANode DEF ConfigInv, TypeOK, VerdictsExclude
<1>2. QED
  BY <1>1, ConfigIsCurrent, PTL

\* Two approvals share a voter in every network but that of two nodes: the 90%
\* of updateConsensus is rounded down.
THEOREM ApprovalsShareANode == Spec => []ApprovalsIntersect
<1>1. ConfigInv => ApprovalsIntersect
  BY PositiveMajority DEF ConfigInv, TypeOK, ApprovalsIntersect
<1>2. QED
  BY <1>1, ConfigIsCurrent, PTL

\* A full turnout decides every election of a network of fewer than 110 nodes.
THEOREM TurnoutIsDecisive == Spec => []TurnoutDecides
<1>1. ConfigInv => TurnoutDecides
  BY ThresholdsMeet DEF ConfigInv, TypeOK, TurnoutDecides
<1>2. QED
  BY <1>1, ConfigIsCurrent, PTL

=============================================================================
