-------------------------- MODULE MCSessionManager --------------------------
(* Small instances of SessionManager for TLC. *)
EXTENDS SessionManager, TLC

\* Ids are only compared, so sessions are interchangeable (safety runs only).
Symmetry == Permutations(Session)
=============================================================================
