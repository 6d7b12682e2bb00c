--------------------------- MODULE MCResumeControl ---------------------------
(* Small instances of ResumeControl for TLC. *)
EXTENDS ResumeControl, TLC

\* UUIDs, operations and sessions are only compared (safety runs only).
Symmetry == Permutations(Uuid) \cup Permutations(Op) \cup Permutations(Run)
=============================================================================
