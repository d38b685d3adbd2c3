-------------------------- MODULE MCPlaybackClock --------------------------
(* Instances of PlaybackClock for TLC. *)
EXTENDS PlaybackClock

\* The second camera joins the first one; then nobody recorded for a while.
Joining == {<<1, 0, 2>>, <<2, 1, 2>>, <<1, 3, 4>>}

\* Two cameras that recorded at the same time.
Together == {<<1, 0, 2>>, <<2, 0, 2>>}

=============================================================================
