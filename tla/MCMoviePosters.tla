--------------------------- MODULE MCMoviePosters ---------------------------
(* Two cells that may show the same two posters, or one that is no URL. *)
EXTENDS MoviePosters
=============================================================================
