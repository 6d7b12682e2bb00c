-------------------------- MODULE MCAttentionSignals -------------------------
(* Small instances of AttentionSignals for TLC. *)
EXTENDS AttentionSignals

\* Agent ids are only compared.
Symmetry == Permutations(Agent)
=============================================================================
