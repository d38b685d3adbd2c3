----------------------------- MODULE MCIndexing -----------------------------
(* Instances of Indexing for TLC. *)
EXTENDS Indexing, TLC

\* Requests are interchangeable; sound for the safety runs only.
Symmetry == Permutations(Requests)

=============================================================================
