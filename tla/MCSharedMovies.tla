---------------------------- MODULE MCSharedMovies ----------------------------
(* The instance of SharedMovies that MCSharedMovies.cfg checks. *)
EXTENDS SharedMovies
===============================================================================
