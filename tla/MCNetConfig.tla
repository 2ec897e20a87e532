---------------------------- MODULE MCNetConfig ----------------------------
(* The thresholds of every network of up to MaxNodes nodes.                *)
EXTENDS NetConfigSizes
=============================================================================
