---------------------- MODULE MCAttentionNotifications ----------------------
EXTENDS AttentionNotifications, TLC

Symmetry == Permutations(Session) \cup Permutations(Helper)
=============================================================================
