-------------------------- MODULE ContentVerdictsMC --------------------------
(***************************************************************************)
(* Small instances of ContentVerdicts for TLC: all places hold the same    *)
(* content to begin with.                                                  *)
(***************************************************************************)
EXTENDS ContentVerdicts

AllAlike == [p \in Places |-> CHOOSE c \in Contents : c \in Sensitive]
=============================================================================
