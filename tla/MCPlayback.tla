----------------------------- MODULE MCPlayback -----------------------------
(* Instances of Playback for TLC. *)
EXTENDS Playback, TLC

\* Sessions are interchangeable; sound for the safety runs only.
Symmetry == Permutations(Sessions)

=============================================================================
