--------------------------- MODULE HAProxyAgentMC ---------------------------
(***************************************************************************)
(* Small instances of HAProxyAgent for TLC.                                *)
(***************************************************************************)
EXTENDS HAProxyAgent

CONSTANTS a, b, c, w1
=============================================================================
