--------------------------- MODULE MCLiveUpdates ---------------------------
(* The page and the server of LiveUpdates for TLC. *)
EXTENDS LiveUpdates, TLC

Symmetry == Permutations(Days)

=============================================================================
