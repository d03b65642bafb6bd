----------------------------- MODULE FavouriteSet -----------------------------
(***************************************************************************)
(* What the favourites feature promises, without screens, buttons, rows or *)
(* a database: a set of favourite movies that outlives the process and     *)
(* changes by one movie at a time, and a list that is a copy of the set    *)
(* for as long as the user looks at it.  Favourites.tla implements it.     *)
(***************************************************************************)
CONSTANT Movie

VARIABLES
  favs,     \* the favourite movies
  mode,     \* "hidden", "shown", or "failed" when the last reading failed
  listed    \* the movies of the list

setVars == <<favs, mode, listed>>

Mode == {"hidden", "shown", "failed"}

SetInit ==
  /\ favs \in SUBSET Movie
  /\ mode = "hidden"
  /\ listed = {}

(* One movie joins or leaves the set while the list is not on the screen. *)
Add(m) ==
  /\ mode = "hidden"
  /\ favs' = favs \union {m}
  /\ UNCHANGED <<mode, listed>>

Remove(m) ==
  /\ mode = "hidden"
  /\ favs' = favs \ {m}
  /\ UNCHANGED <<mode, listed>>

(* The list comes on the screen: with a fresh copy of the set, or with what *)
(* it held before when the set cannot be read.                              *)
Show ==
  /\ mode' = "shown"
  /\ listed' = favs
  /\ UNCHANGED favs

ShowFails ==
  /\ mode' = "failed"
  /\ UNCHANGED <<favs, listed>>

Hide ==
  /\ mode' = "hidden"
  /\ UNCHANGED <<favs, listed>>

(* The process ends and starts again: only the set survives. *)
Restart ==
  /\ mode' = "hidden"
  /\ listed' = {}
  /\ UNCHANGED favs

SetNext ==
  \/ \E m \in Movie : Add(m) \/ Remove(m)
  \/ Show
  \/ ShowFails
  \/ Hide
  \/ Restart

SetSpec == SetInit /\ [][SetNext]_setVars
===============================================================================
