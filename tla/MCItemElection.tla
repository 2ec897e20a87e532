--------------------------- MODULE MCItemElection ---------------------------
(* Elections among three nodes, the item handed to one of them.    *)
EXTENDS ItemElectionProofs, TLC

CONSTANTS n1, n2, n3

\* The nodes with no role of their own are interchangeable.
Symmetry == Permutations(Node \ UNION {Entry, Quitter, Failing, Lossy})
=============================================================================
