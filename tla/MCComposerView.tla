--------------------------- MODULE MCComposerView ---------------------------
(* A small instance of ComposerView for TLC. *)
EXTENDS ComposerView, TLC
Symmetry == Permutations(Conv)
=============================================================================
