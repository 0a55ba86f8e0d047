--------------------------- MODULE MCStorageSync ---------------------------
(* Two requests, two sessions and two messages.                            *)
EXTENDS StorageSync, TLC

Symmetry == Permutations(Sessions) \cup Permutations(Msgs) \cup Permutations(Requests)
=============================================================================
