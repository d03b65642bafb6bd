---------------------------- MODULE MCMovieSearch ----------------------------
(* Instances of MovieSearch for TLC. *)
EXTENDS MovieSearch
==============================================================================
