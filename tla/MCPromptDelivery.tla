--------------------------- MODULE MCPromptDelivery --------------------------
(* Small instances of PromptDelivery for TLC. *)
EXTENDS PromptDelivery, TLC

\* Request ids are only compared (safety runs only).
Symmetry == Permutations(Req) \cup Permutations(Aux)
=============================================================================
