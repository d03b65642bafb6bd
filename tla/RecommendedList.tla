---------------------------- MODULE RecommendedList ----------------------------
(***************************************************************************)
(* The list of the movies shared by the users:                             *)
(* RecommendedMoviesTableViewController, RecommendedMoviesPresenter and    *)
(* RecommendedModel over the observation of the Firebase database.         *)
(*                                                                         *)
(* The list appears on the main thread; observe(_:with:) runs on Firebase's*)
(* own queue and raises its events back on the main queue, so the list     *)
(* lives between them with its movies emptied and its rows still those of  *)
(* before.  Every appearance adds an observer and nothing removes one.     *)
(***************************************************************************)
EXTENDS Naturals, Sequences, FiniteSets, Functions

CONSTANTS
  Movie,         \* the keys under pelis
  MaxObservers,  \* bound: the appearances of a run of the process
  MaxInbox       \* bound: data changes wait while this many events are queued

ASSUME BoundsAssumption == MaxObservers \in Nat /\ MaxInbox \in Nat

VARIABLES
  onScreen,          \* the list is on the screen
  recommendedMovies, \* RecommendedModel.recommendedMovies: how many of each
  movies,            \* the controller's movies
  rows,              \* what the table showed at its last reloadData
  registering,       \* observe calls Firebase's queue has not run yet
  observers,         \* the value registrations of the root view
  view,              \* the root view: "none", "listening", "complete"
  cache,             \* the movies under pelis in the view's event cache
  inbox              \* events on their way to the main queue

screenVars == <<onScreen, recommendedMovies, movies, rows>>
firebaseVars == <<registering, observers, view, cache, inbox>>
vars == <<screenVars, firebaseVars>>

(* A list of movies, up to the order a dictionary gives it. *)
Bag == [Movie -> Nat]
NoMovies == [m \in Movie |-> 0]
Size(bag) == FoldFunction(+, 0, bag)

ValueEvent(pelis) == [type |-> "value", pelis |-> pelis]
CancelEvent == [type |-> "cancel"]
Event == {ValueEvent(pelis) : pelis \in SUBSET Movie} \union {CancelEvent}

(* One event per registration. *)
Raised(event, count) == [i \in 1 .. count |-> event]

Init ==
  /\ onScreen = FALSE
  /\ recommendedMovies = NoMovies
  /\ movies = NoMovies
  /\ rows = NoMovies
  /\ registering = 0
  /\ observers = 0
  /\ view = "none"
  /\ cache = {}
  /\ inbox = <<>>

(* A crash and the launch that follows. *)
Relaunched ==
  /\ onScreen' = FALSE
  /\ recommendedMovies' = NoMovies
  /\ movies' = NoMovies
  /\ rows' = NoMovies
  /\ registering' = 0
  /\ observers' = 0
  /\ view' = "none"
  /\ cache' = {}
  /\ inbox' = <<>>

-------------------------------------------------------------------------------
(* The main thread. *)

(* viewDidAppear: the movies are emptied, the table is not reloaded. *)
ViewDidAppear ==
  /\ ~onScreen
  /\ registering + observers < MaxObservers
  /\ onScreen' = TRUE
  /\ movies' = NoMovies
  /\ registering' = registering + 1
  /\ UNCHANGED <<recommendedMovies, rows, observers, view, cache, inbox>>

(* Another tab comes on the screen. *)
Leave ==
  /\ onScreen
  /\ onScreen' = FALSE
  /\ UNCHANGED <<recommendedMovies, movies, rows, firebaseVars>>

(* didSelectRowAt, of a row the table shows: movies[row] traps when there  *)
(* is no such movie, and pushes the detail screen otherwise.               *)
DidSelectRow(row) ==
  /\ onScreen
  /\ row \in 1 .. Size(rows)
  /\ IF row <= Size(movies)
     THEN onScreen' = FALSE /\ UNCHANGED <<recommendedMovies, movies, rows, firebaseVars>>
     ELSE Relaunched

(* Slip: the model's list is not emptied before a snapshot is added. *)
RebuiltOnTop(pelis) ==
  [m \in Movie |-> recommendedMovies[m] + IF m \in pelis THEN 1 ELSE 0]

(* RecommendedModel's list for a snapshot: emptied, then one per child. *)
Rebuilt(pelis) == [m \in Movie |-> IF m \in pelis THEN 1 ELSE 0]

(* Slip: success sets the movies and does not reload the table. *)
HandleValueWithoutReload ==
  /\ inbox # <<>> /\ Head(inbox).type = "value"
  /\ recommendedMovies' = Rebuilt(Head(inbox).pelis)
  /\ movies' = recommendedMovies'
  /\ inbox' = Tail(inbox)
  /\ UNCHANGED <<onScreen, rows, registering, observers, view, cache>>

(* The observer's block: the model's list, then the controller's success. *)
HandleValue ==
  /\ inbox # <<>> /\ Head(inbox).type = "value"
  /\ recommendedMovies' = Rebuilt(Head(inbox).pelis)
  /\ movies' = recommendedMovies'
  /\ rows' = movies'
  /\ inbox' = Tail(inbox)
  /\ UNCHANGED <<onScreen, registering, observers, view, cache>>

(* The cancel block: failed shows an alert and reloads nothing. *)
HandleCancel ==
  /\ inbox # <<>> /\ Head(inbox).type = "cancel"
  /\ inbox' = Tail(inbox)
  /\ UNCHANGED <<screenVars, registering, observers, view, cache>>

-------------------------------------------------------------------------------
(* Firebase's queue. *)

(* Slip: a later registration waits for the next change of the data. *)
AddEventRegistrationSilently ==
  /\ registering > 0
  /\ registering' = registering - 1
  /\ observers' = observers + 1
  /\ view' = IF view = "none" THEN "listening" ELSE view
  /\ UNCHANGED <<screenVars, cache, inbox>>

(* FRepo.addEventRegistration: the first registration starts a listen, a   *)
(* later one gets the data at once when the view has them.                 *)
AddEventRegistration ==
  /\ registering > 0
  /\ registering' = registering - 1
  /\ observers' = observers + 1
  /\ view' = IF view = "none" THEN "listening" ELSE view
  /\ inbox' = IF view = "complete" THEN Append(inbox, ValueEvent(cache)) ELSE inbox
  /\ UNCHANGED <<screenVars, cache>>

(* Data of the server, or a write of this device: a movie comes or goes,   *)
(* or a field of one changes, and every registration gets an event.        *)
DataUpdate(pelis) ==
  /\ Len(inbox) < MaxInbox
  /\ view # "none"
  /\ view' = "complete"
  /\ cache' = pelis
  /\ inbox' = inbox \o Raised(ValueEvent(pelis), observers)
  /\ UNCHANGED <<screenVars, registering, observers>>

(* The listen is refused or revoked: every registration is removed and told. *)
ListenFails ==
  /\ Len(inbox) < MaxInbox
  /\ view # "none"
  /\ view' = "none"
  /\ cache' = {}
  /\ observers' = 0
  /\ inbox' = inbox \o Raised(CancelEvent, observers)
  /\ UNCHANGED <<screenVars, registering>>

-------------------------------------------------------------------------------
HandleEvent == HandleValue \/ HandleCancel

Next ==
  \/ ViewDidAppear
  \/ Leave
  \/ \E row \in 1 .. Cardinality(Movie) : DidSelectRow(row)
  \/ HandleEvent
  \/ AddEventRegistration
  \/ \E pelis \in SUBSET Movie : DataUpdate(pelis)
  \/ ListenFails

(* Both queues are served; neither the user nor the server owes a step. *)
Fairness == WF_vars(HandleEvent) /\ WF_vars(AddEventRegistration)

SafetySpec == Init /\ [][Next]_vars
Spec == SafetySpec /\ Fairness

-------------------------------------------------------------------------------
(* Properties. *)

TypeOK ==
  /\ onScreen \in BOOLEAN
  /\ recommendedMovies \in Bag
  /\ movies \in Bag
  /\ rows \in Bag
  /\ registering \in 0 .. MaxObservers
  /\ observers \in 0 .. MaxObservers
  /\ view \in {"none", "listening", "complete"}
  /\ cache \in SUBSET Movie
  /\ inbox \in Seq(Event)

(* Once every observation is registered and every event handled, the list  *)
(* holds each shared movie exactly once, and the table shows that list:    *)
(* the many observers repeat events but neither reorder nor double them.   *)
ListCurrentWhenQuiet ==
  registering = 0 /\ inbox = <<>> /\ view = "complete" =>
    /\ \A m \in Movie : movies[m] = IF m \in cache THEN 1 ELSE 0
    /\ rows = movies

(* The rows and the movies they index part only when an appearance empties *)
(* the movies, and only until an event of that appearance is handled:      *)
(* outside that window no row is beyond the movies.                        *)
RowsBeyondMoviesOnlyWhenEmptied ==
  rows # movies =>
    /\ movies = NoMovies
    /\ view = "complete" => registering > 0 \/ inbox # <<>>

(* While the listen holds, the rows catch up with the movies. *)
RowsCatchUp ==
  rows # movies /\ view = "complete" ~> rows = movies \/ view # "complete"
================================================================================
