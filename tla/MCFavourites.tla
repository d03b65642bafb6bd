---------------------------- MODULE MCFavourites ----------------------------
(* Instances of Favourites for TLC. *)
EXTENDS Favourites, TLC

Symmetry == Permutations(Movie) \union Permutations(Screen)
=============================================================================
