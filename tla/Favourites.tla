------------------------------ MODULE Favourites ------------------------------
(***************************************************************************)
(* The favourites of the app: the Core Data store (StorageService,         *)
(* MovieEntity), the detail screens that add and remove a favourite        *)
(* (MovieDetailController) and the favourites list (FavouritesController,  *)
(* FavouritesPresenter, FavouritesModel), under the tab bar and its        *)
(* navigation controllers.                                                 *)
(*                                                                         *)
(* Everything here runs on the main thread: an action is one callback of   *)
(* UIKit or one answer of Alamofire, run to its end.  What interleaves is  *)
(* the order of the callbacks: each of three tabs keeps a detail screen of *)
(* its own alive under the tab that is on the screen, and the answer to a  *)
(* detail request may come while the screen is in another tab or popped.   *)
(***************************************************************************)
EXTENDS Naturals, FiniteSets

CONSTANTS
  Movie,      \* the imdbIDs
  Screen,     \* the instances of MovieDetailController
  NoID,       \* an absent imdbID: nil in an answer, "" in a request
  NoScreen    \* a navigation controller that shows its root

ASSUME NoIDAssumption == NoID \notin Movie
ASSUME NoScreenAssumption == NoScreen \notin Screen

VARIABLES
  store,            \* MovieEntity: the row of each movie, and its isFavourite
  tab,              \* the tab on the screen
  stack,            \* the detail screen each navigation controller has pushed
  imdbID,           \* MovieDetailController.imdbID
  request,          \* its request to OMDb: "none", "pending", "done"
  dtoID,            \* movieDetailDto?.imdbID
  isFavourite,      \* MovieDetailController.isFavourite
  favButton,        \* the image of favButton
  favouritesMovies, \* FavouritesController.favouritesMovies
  fetchFailed,      \* the last getFavouritesMovies ended in failed(error:)
  outdated          \* history: screens whose movie another screen changed
                    \* after they last read or wrote it

screenVars == <<imdbID, request, dtoID, isFavourite, favButton, outdated>>
listVars == <<favouritesMovies, fetchFailed>>
vars == <<store, tab, stack, screenVars, listVars>>

Tab == {"search", "favourites", "recommended", "info"}
ListTab == Tab \ {"info"}     \* the tabs whose rows push a detail screen
Row == {"absent", "favourite", "notFavourite"}
FavState == {"nil", "isFavourite", "notFavourite"}

-------------------------------------------------------------------------------
(* The state in the words of the user. *)

Favourite == {m \in Movie : store[m] = "favourite"}

OnStack(s) == \E t \in Tab : stack[t] = s
OnScreen(s) == stack[tab] = s
ListOnScreen == tab = "favourites" /\ stack["favourites"] = NoScreen

(* A controller nothing refers to any more: not pushed, and its answer in. *)
(* Such a value stands for the next instance the storyboard makes.         *)
Fresh(s) == ~OnStack(s) /\ request[s] # "pending"

-------------------------------------------------------------------------------
(* The launch: every row of the store comes from earlier runs. *)
Launched ==
  /\ tab' = "search"
  /\ stack' = [t \in Tab |-> NoScreen]
  /\ imdbID' = [s \in Screen |-> NoID]
  /\ request' = [s \in Screen |-> "none"]
  /\ dtoID' = [s \in Screen |-> NoID]
  /\ isFavourite' = [s \in Screen |-> "nil"]
  /\ favButton' = [s \in Screen |-> "none"]
  /\ favouritesMovies' = {}
  /\ fetchFailed' = FALSE
  /\ outdated' = {}

Init ==
  /\ store \in [Movie -> Row]
  /\ tab = "search"
  /\ stack = [t \in Tab |-> NoScreen]
  /\ imdbID = [s \in Screen |-> NoID]
  /\ request = [s \in Screen |-> "none"]
  /\ dtoID = [s \in Screen |-> NoID]
  /\ isFavourite = [s \in Screen |-> "nil"]
  /\ favButton = [s \in Screen |-> "none"]
  /\ favouritesMovies = {}
  /\ fetchFailed = FALSE
  /\ outdated = {}

-------------------------------------------------------------------------------
(* The favourites list. *)

(* FavouritesModel.getFavourites fetches the rows with isFavourite true and *)
(* calls back at once; failed(error:) keeps the rows it had.                *)
GetFavouritesMovies ==
  \/ /\ favouritesMovies' = Favourite
     /\ fetchFailed' = FALSE
  \/ /\ fetchFailed' = TRUE
     /\ UNCHANGED favouritesMovies

(* Slip: a list that is there is not read again. *)
ViewDidAppearOnce(shown) ==
  IF shown /\ favouritesMovies = {} THEN GetFavouritesMovies ELSE UNCHANGED listVars

(* viewDidAppear of the favourites list. *)
ViewDidAppear(shown) ==
  IF shown THEN GetFavouritesMovies ELSE UNCHANGED listVars

(* The user touches another tab. *)
SelectTab(t) ==
  /\ t # tab
  /\ tab' = t
  /\ ViewDidAppear(t = "favourites" /\ stack[t] = NoScreen)
  /\ UNCHANGED <<store, stack, screenVars>>

(* The user leaves a detail screen, by Back or by touching its own tab. *)
PopDetail ==
  /\ stack[tab] # NoScreen
  /\ stack' = [stack EXCEPT ![tab] = NoScreen]
  /\ ViewDidAppear(tab = "favourites")
  /\ UNCHANGED <<store, tab, screenVars>>

-------------------------------------------------------------------------------
(* A detail screen. *)

(* didSelectRowAt of the three lists, then viewDidLoad, which sends the    *)
(* request.  A search row may lack its imdbID; rows of the favourites list *)
(* are those fetched.                                                      *)
OpenDetail(s, id) ==
  /\ tab \in ListTab
  /\ stack[tab] = NoScreen
  /\ Fresh(s)
  /\ tab = "favourites" => id \in favouritesMovies
  /\ tab = "recommended" => id # NoID
  /\ stack' = [stack EXCEPT ![tab] = s]
  /\ imdbID' = [imdbID EXCEPT ![s] = id]
  /\ request' = [request EXCEPT ![s] = "pending"]
  /\ dtoID' = [dtoID EXCEPT ![s] = NoID]
  /\ isFavourite' = [isFavourite EXCEPT ![s] = "nil"]
  /\ favButton' = [favButton EXCEPT ![s] = "none"]
  /\ outdated' = outdated \ {s}
  /\ UNCHANGED <<store, tab, listVars>>

(* updateFavouriteUI(for:) *)
ButtonOf(state) == IF state = "isFavourite" THEN "remove" ELSE "add"

(* The count with imdbID == %@ AND isFavourite == YES. *)
CountedState(id) == IF store[id] = "favourite" THEN "isFavourite" ELSE "notFavourite"

(* Slip: the button is drawn before the flag is counted. *)
SuccessSearchDrawsFirst(s, id) ==
  /\ request[s] = "pending"
  /\ id \in {imdbID[s], NoID}
  /\ request' = [request EXCEPT ![s] = "done"]
  /\ dtoID' = [dtoID EXCEPT ![s] = id]
  /\ isFavourite' = IF id = NoID THEN isFavourite
                    ELSE [isFavourite EXCEPT ![s] = CountedState(id)]
  /\ favButton' = [favButton EXCEPT ![s] = ButtonOf(isFavourite[s])]
  /\ outdated' = outdated \ {s}
  /\ UNCHANGED <<store, tab, stack, imdbID, listVars>>

(* successSearch(movieDetail:), wherever the screen is by now: the answer  *)
(* carries the imdbID asked for or, when OMDb knows no such movie, none,   *)
(* and then only the button is drawn.                                      *)
SuccessSearch(s, id) ==
  /\ request[s] = "pending"
  /\ id \in {imdbID[s], NoID}
  /\ request' = [request EXCEPT ![s] = "done"]
  /\ dtoID' = [dtoID EXCEPT ![s] = id]
  /\ isFavourite' = IF id = NoID THEN isFavourite
                    ELSE [isFavourite EXCEPT ![s] = CountedState(id)]
  /\ favButton' = [favButton EXCEPT ![s] = ButtonOf(isFavourite'[s])]
  /\ outdated' = outdated \ {s}
  /\ UNCHANGED <<store, tab, stack, imdbID, listVars>>

(* failed(error:): an alert, nothing else. *)
Failed(s) ==
  /\ request[s] = "pending"
  /\ request' = [request EXCEPT ![s] = "done"]
  /\ UNCHANGED <<store, tab, stack, imdbID, dtoID, isFavourite, favButton,
                 outdated, listVars>>

(* The screens showing movie m that did not take part in its change by s. *)
OthersOf(s, m) == {r \in Screen \ {s} : dtoID[r] = m}

(* A new MovieEntity is saved under the store's merge policy: when a row    *)
(* with this imdbID is there already, its properties trump the new ones.    *)
Inserted(m) == IF store[m] = "absent" THEN "favourite" ELSE store[m]

(* Slip: a row is inserted without counting those there are. *)
AddedByInsert(m) == Inserted(m)

(* The row addToFavourites leaves: it counts the rows with this imdbID, sets *)
(* isFavourite on the one there is, or inserts one.                          *)
Added(m) == IF store[m] = "absent" THEN Inserted(m) ELSE "favourite"

(* toFavourites on a screen without an imdbID does nothing: addToFavourites *)
(* returns at its guard, and removeFromFavourites cannot be reached.        *)
CanTap(s) == OnScreen(s) /\ dtoID[s] # NoID

AddToFavourites(s) ==
  LET m == dtoID[s] IN
    /\ CanTap(s)
    /\ isFavourite[s] # "isFavourite"
    /\ store' = [store EXCEPT ![m] = Added(m)]
    /\ isFavourite' = [isFavourite EXCEPT ![s] = "isFavourite"]
    /\ favButton' = [favButton EXCEPT ![s] = ButtonOf("isFavourite")]
    /\ outdated' = (outdated \ {s}) \union OthersOf(s, m)
    /\ UNCHANGED <<tab, stack, imdbID, request, dtoID, listVars>>

(* The row removeFromFavourites leaves: first? of no rows sets nothing. *)
Removed(m) == IF store[m] = "absent" THEN "absent" ELSE "notFavourite"

RemoveFromFavourites(s) ==
  LET m == dtoID[s] IN
    /\ CanTap(s)
    /\ isFavourite[s] = "isFavourite"
    /\ store' = [store EXCEPT ![m] = Removed(m)]
    /\ isFavourite' = [isFavourite EXCEPT ![s] = "notFavourite"]
    /\ favButton' = [favButton EXCEPT ![s] = ButtonOf("notFavourite")]
    /\ outdated' = (outdated \ {s}) \union OthersOf(s, m)
    /\ UNCHANGED <<tab, stack, imdbID, request, dtoID, listVars>>

-------------------------------------------------------------------------------
(* Ends of the process, and the launch that follows. *)

(* saveContext cannot save and calls fatalError: the row in memory is lost. *)
SaveFails(s) ==
  /\ CanTap(s)
  /\ Launched
  /\ UNCHANGED store

(* successSearch cannot count: isFavourite is still nil and is unwrapped. *)
CountFails(s) ==
  /\ request[s] = "pending"
  /\ imdbID[s] # NoID
  /\ Launched
  /\ UNCHANGED store

(* The user or the system ends the process. *)
ProcessDies ==
  /\ Launched
  /\ UNCHANGED store

-------------------------------------------------------------------------------
Next ==
  \/ \E t \in Tab : SelectTab(t)
  \/ PopDetail
  \/ \E s \in Screen, id \in Movie \union {NoID} : OpenDetail(s, id)
  \/ \E s \in Screen, id \in Movie \union {NoID} : SuccessSearch(s, id)
  \/ \E s \in Screen : Failed(s)
  \/ \E s \in Screen : AddToFavourites(s)
  \/ \E s \in Screen : RemoveFromFavourites(s)
  \/ \E s \in Screen : SaveFails(s) \/ CountFails(s)
  \/ ProcessDies

Spec == Init /\ [][Next]_vars

-------------------------------------------------------------------------------
(* Properties. *)

TypeOK ==
  /\ store \in [Movie -> Row]
  /\ tab \in Tab
  /\ stack \in [Tab -> Screen \union {NoScreen}]
  /\ imdbID \in [Screen -> Movie \union {NoID}]
  /\ request \in [Screen -> {"none", "pending", "done"}]
  /\ dtoID \in [Screen -> Movie \union {NoID}]
  /\ isFavourite \in [Screen -> FavState]
  /\ favButton \in [Screen -> {"none", "add", "remove"}]
  /\ favouritesMovies \in SUBSET Movie
  /\ fetchFailed \in BOOLEAN
  /\ outdated \in SUBSET Screen

(* While the favourites list is on the screen, its rows are the favourites *)
(* of the store, unless its last fetch failed: the refetch of viewDidAppear *)
(* sees every change made in the meantime by a detail screen of any tab.    *)
ListMatchesStore ==
  ListOnScreen /\ ~fetchFailed => favouritesMovies = Favourite

(* A loaded detail screen disagrees with the store only after another      *)
(* screen changed its movie: its own reads and taps leave the flag, the    *)
(* button image and the row telling the same.                              *)
ScreenHonest(s) ==
  dtoID[s] # NoID /\ s \notin outdated =>
    /\ isFavourite[s] = CountedState(dtoID[s])
    /\ favButton[s] = ButtonOf(isFavourite[s])

ButtonHonest == \A s \in Screen : ScreenHonest(s)

(* What a loaded screen knows agrees with itself: the movie it was opened   *)
(* with is the movie it changes, and the image of its button is the one of *)
(* its flag.  With it the properties above are inductive.                   *)
ScreenLoaded(s) ==
  dtoID[s] # NoID =>
    /\ dtoID[s] = imdbID[s]
    /\ favButton[s] = ButtonOf(isFavourite[s])

Inductive ==
  /\ TypeOK
  /\ ListMatchesStore
  /\ ButtonHonest
  /\ \A s \in Screen : ScreenLoaded(s)

(* The store changes only by the button of the screen the user looks at,   *)
(* for the movie that screen was opened with, and to what the button said; *)
(* no answer, no other screen and no restart changes a row.                *)
Tapped(s) ==
  /\ OnScreen(s) /\ imdbID[s] \in Movie
  /\ \A m \in Movie \ {imdbID[s]} : store'[m] = store[m]
  /\ store'[imdbID[s]] =
       IF favButton[s] = "remove" THEN "notFavourite" ELSE "favourite"

OnlyTheTappedMovieChanges ==
  [][store' # store => \E s \in Screen : Tapped(s)]_vars

(* The favourites feature is a persistent set with a list that copies it.  *)
Abstract == INSTANCE FavouriteSet
  WITH favs <- Favourite,
       mode <- IF ~ListOnScreen THEN "hidden"
               ELSE IF fetchFailed THEN "failed" ELSE "shown",
       listed <- favouritesMovies

ImplementsFavouriteSet == Abstract!SetSpec
===============================================================================
