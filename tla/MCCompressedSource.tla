------------------------ MODULE MCCompressedSource ------------------------
(* Instances of CompressedSource for TLC. *)
EXTENDS CompressedSource

\* The second camera recorded nothing at the second position.
OneGap == {<<2, 2>>}

\* The two cameras recorded in turns, as motion clips often are.
InTurns == {<<1, 2>>, <<2, 1>>}

=============================================================================
