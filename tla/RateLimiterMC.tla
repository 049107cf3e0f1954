--------------------------- MODULE RateLimiterMC ---------------------------
(***************************************************************************)
(* Small instances of RateLimiter for TLC: clients behind one address, of  *)
(* which some do not have the PAT.                                         *)
(***************************************************************************)
EXTENDS RateLimiter

OneAddress == [c \in Clients |-> "shared"]
=============================================================================
