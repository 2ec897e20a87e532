----------------------------- MODULE NetConfig -----------------------------
(***************************************************************************)
(* The thresholds every vote in the network is counted against             *)
(* (jslib/config.js, Config.updateConsensus).  The code multiplies doubles *)
(* by 0.11, 0.90 and 0.2; the integer formulas below give the same results *)
(* for every network size.                                                 *)
(***************************************************************************)
EXTENDS Integers

AtLeastOne(k) == IF k < 1 THEN 1 ELSE k

\* A threshold that only just shares the network with the positive one is
\* raised, so that the two cannot both be met.
Exclusive(k, pos, n) == IF k + pos = n THEN k + 1 ELSE k

\* Mutant: half of the network approves
HalfApproves(n) == AtLeastOne(n \div 2)

\* Math.floor(n * 0.90), but never 0
PositiveConsensus(n) == AtLeastOne((90 * n) \div 100)

\* Mutants: the negative threshold not raised, and taken for a 20% one
NotRaised(n) == AtLeastOne((11 * n + 99) \div 100)
FifthDeclines(n) ==
  Exclusive(AtLeastOne((20 * n + 99) \div 100), PositiveConsensus(n), n)

\* Math.ceil(n * 0.11), raised if it is exactly what the positive one leaves
NegativeConsensus(n) ==
  Exclusive(AtLeastOne((11 * n + 99) \div 100), PositiveConsensus(n), n)

\* Math.ceil(n * 0.2), raised in the same way
ResyncBreakConsensus(n) ==
  Exclusive(AtLeastOne((20 * n + 99) \div 100), PositiveConsensus(n), n)

=============================================================================
