----------------------------- MODULE MCPlayback -----------------------------
(* Small instances of PlaybackSession for TLC. *)
EXTENDS PlaybackSession

TwoSongs == <<"first", "second">>
=============================================================================
