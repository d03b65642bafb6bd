--------------------------- MODULE FavouritesProofs ---------------------------
(***************************************************************************)
(* Theorems of Favourites, for every set of movies and of screens.         *)
(***************************************************************************)
EXTENDS Favourites, TLAPS

ID == Movie \union {NoID}

-------------------------------------------------------------------------------
(* What the operators on rows return. *)

(* The row addToFavourites leaves is a favourite, whatever was there: the   *)
(* merge policy of the store never undoes a tap.                            *)
LEMMA AddedIsFavourite ==
  ASSUME NEW m \in Movie
  PROVE  Added(m) = "favourite"
  BY DEF Added, Inserted

(* The row removeFromFavourites leaves is not a favourite. *)
LEMMA RemovedIsNot ==
  ASSUME NEW m \in Movie
  PROVE  Removed(m) \in {"absent", "notFavourite"}
  BY DEF Removed

(* The button image and the counted state are of their types. *)
LEMMA DrawnTypes ==
  ASSUME NEW state, NEW id
  PROVE  /\ ButtonOf(state) \in {"none", "add", "remove"}
         /\ CountedState(id) \in FavState
  BY DEF ButtonOf, CountedState, FavState

-------------------------------------------------------------------------------
(* Type correctness. *)

(* The appearance of the list keeps its variables in their types. *)
LEMMA AppearTypes ==
  ASSUME TypeOK, NEW shown \in BOOLEAN, ViewDidAppear(shown)
  PROVE  favouritesMovies' \in SUBSET Movie /\ fetchFailed' \in BOOLEAN
  BY DEF TypeOK, ViewDidAppear, GetFavouritesMovies, Favourite, listVars

(* The states of a launch are of their types when the store is. *)
LEMMA LaunchedTypes ==
  ASSUME TypeOK, Launched, UNCHANGED store
  PROVE  TypeOK'
  BY DEF TypeOK, Launched, Tab, FavState

(* Every step keeps the types. *)
LEMMA TypeStep ==
  ASSUME TypeOK, [Next]_vars
  PROVE  TypeOK'
<1>1. ASSUME NEW t \in Tab, SelectTab(t) PROVE TypeOK'
  <2>1. favouritesMovies' \in SUBSET Movie /\ fetchFailed' \in BOOLEAN
    BY <1>1, AppearTypes DEF SelectTab
  <2> QED
    BY <1>1, <2>1 DEF SelectTab, TypeOK, screenVars
<1>2. CASE PopDetail
  <2>1. favouritesMovies' \in SUBSET Movie /\ fetchFailed' \in BOOLEAN
    BY <1>2, AppearTypes DEF PopDetail
  <2> QED
    BY <1>2, <2>1 DEF PopDetail, TypeOK, screenVars
<1>3. ASSUME NEW s \in Screen, NEW id \in ID, OpenDetail(s, id) PROVE TypeOK'
  BY <1>3 DEF OpenDetail, TypeOK, ID, FavState, listVars
<1>4. ASSUME NEW s \in Screen, NEW id \in ID, SuccessSearch(s, id) PROVE TypeOK'
  <2>1. isFavourite' \in [Screen -> FavState]
    BY <1>4, DrawnTypes DEF SuccessSearch, TypeOK
  <2>2. favButton' \in [Screen -> {"none", "add", "remove"}]
    BY <1>4, DrawnTypes DEF SuccessSearch, TypeOK
  <2> QED
    BY <1>4, <2>1, <2>2 DEF SuccessSearch, TypeOK, ID, listVars
<1>5. ASSUME NEW s \in Screen, Failed(s) PROVE TypeOK'
  BY <1>5 DEF Failed, TypeOK, listVars
<1>6. ASSUME NEW s \in Screen, AddToFavourites(s) PROVE TypeOK'
  <2>1. dtoID[s] \in Movie
    BY <1>6 DEF AddToFavourites, CanTap, TypeOK
  <2>2. store' \in [Movie -> Row]
    BY <1>6, <2>1, AddedIsFavourite DEF AddToFavourites, TypeOK, Row
  <2>3. favButton' \in [Screen -> {"none", "add", "remove"}]
    BY <1>6, DrawnTypes DEF AddToFavourites, TypeOK
  <2> QED
    BY <1>6, <2>2, <2>3 DEF AddToFavourites, TypeOK, FavState, OthersOf, listVars
<1>7. ASSUME NEW s \in Screen, RemoveFromFavourites(s) PROVE TypeOK'
  <2>1. dtoID[s] \in Movie
    BY <1>7 DEF RemoveFromFavourites, CanTap, TypeOK
  <2>2. store' \in [Movie -> Row]
    BY <1>7, <2>1, RemovedIsNot DEF RemoveFromFavourites, TypeOK, Row
  <2>3. favButton' \in [Screen -> {"none", "add", "remove"}]
    BY <1>7, DrawnTypes DEF RemoveFromFavourites, TypeOK
  <2> QED
    BY <1>7, <2>2, <2>3 DEF RemoveFromFavourites, TypeOK, FavState, OthersOf, listVars
<1>8. ASSUME Launched, UNCHANGED store PROVE TypeOK'
  BY <1>8, LaunchedTypes
<1>9. CASE UNCHANGED vars
  BY <1>9 DEF vars, screenVars, listVars, TypeOK
<1> QED
  BY <1>1, <1>2, <1>3, <1>4, <1>5, <1>6, <1>7, <1>8, <1>9
  DEF Next, ID, SaveFails, CountFails, ProcessDies

(* Every variable keeps its type. *)
THEOREM TypeCorrect == Spec => []TypeOK
<1>1. Init => TypeOK
  <2> SUFFICES ASSUME Init PROVE TypeOK
    OBVIOUS
  <2>1. tab \in Tab /\ stack \in [Tab -> Screen \union {NoScreen}]
    BY DEF Init, Tab
  <2>2. /\ imdbID \in [Screen -> Movie \union {NoID}]
        /\ request \in [Screen -> {"none", "pending", "done"}]
        /\ dtoID \in [Screen -> Movie \union {NoID}]
    BY DEF Init
  <2>3. /\ isFavourite \in [Screen -> FavState]
        /\ favButton \in [Screen -> {"none", "add", "remove"}]
    BY DEF Init, FavState
  <2> QED
    BY <2>1, <2>2, <2>3 DEF Init, TypeOK
<1> QED
  BY <1>1, TypeStep, PTL DEF Spec

-------------------------------------------------------------------------------
(* The safety invariants. *)

(* The favourites list is freshly read, or its reading failed, whenever it  *)
(* comes on the screen.                                                     *)
LEMMA AppearReads ==
  ASSUME ViewDidAppear(TRUE)
  PROVE  fetchFailed' = FALSE => favouritesMovies' = Favourite
  BY DEF ViewDidAppear, GetFavouritesMovies

(* A launch leaves the list off the screen and no screen loaded. *)
LEMMA LaunchedInductive ==
  ASSUME Inductive, Launched, UNCHANGED store
  PROVE  Inductive'
<1>1. TypeOK'
  BY LaunchedTypes DEF Inductive
<1>2. ListMatchesStore'
  BY DEF Launched, ListMatchesStore, ListOnScreen
<1>3. ButtonHonest' /\ \A s \in Screen : ScreenLoaded(s)'
  BY DEF Launched, ButtonHonest, ScreenHonest, ScreenLoaded
<1> QED
  BY <1>1, <1>2, <1>3 DEF Inductive

(* A tap that leaves the row of its movie as the flag of its screen says   *)
(* keeps the invariant: the list is off the screen, and the other screens  *)
(* of the movie become outdated.                                           *)
LEMMA TapInductive ==
  ASSUME Inductive, TypeOK',
         NEW s \in Screen, CanTap(s),
         NEW row, store' = [store EXCEPT ![dtoID[s]] = row],
         NEW flag,
         isFavourite' = [isFavourite EXCEPT ![s] = flag],
         favButton' = [favButton EXCEPT ![s] = ButtonOf(flag)],
         flag = (IF row = "favourite" THEN "isFavourite" ELSE "notFavourite"),
         outdated' = (outdated \ {s}) \union OthersOf(s, dtoID[s]),
         UNCHANGED <<tab, stack, imdbID, dtoID, favouritesMovies, fetchFailed>>
  PROVE  Inductive'
<1> USE DEF Inductive, TypeOK
<1>1. ListMatchesStore'
  BY NoScreenAssumption DEF ListMatchesStore, ListOnScreen, CanTap, OnScreen
<1>2. dtoID[s] \in Movie
  BY DEF CanTap
<1>3. ASSUME NEW r \in Screen PROVE ScreenHonest(r)' /\ ScreenLoaded(r)'
  <2>1. CASE r = s
    BY <1>2, <2>1 DEF ScreenHonest, ScreenLoaded, CountedState, ButtonHonest
  <2>2. CASE r # s /\ dtoID[r] = dtoID[s]
    <3>1. r \in outdated'
      BY <2>2 DEF OthersOf
    <3> QED
      BY <2>2, <3>1 DEF ScreenHonest, ScreenLoaded
  <2>3. CASE r # s /\ dtoID[r] # dtoID[s]
    <3>1. CASE dtoID[r] = NoID
      BY <2>3, <3>1 DEF ScreenHonest, ScreenLoaded
    <3>2. CASE dtoID[r] # NoID
      <4>1. store'[dtoID[r]] = store[dtoID[r]]
        BY <2>3, <3>2, <1>2
      <4>2. r \notin outdated' => r \notin outdated
        BY <2>3 DEF OthersOf
      <4> QED
        BY <2>3, <4>1, <4>2
        DEF ScreenHonest, ScreenLoaded, CountedState, ButtonHonest
    <3> QED
      BY <3>1, <3>2
  <2> QED
    BY <2>1, <2>2, <2>3
<1> QED
  BY <1>1, <1>3 DEF ButtonHonest

(* Every step keeps the inductive invariant. *)
LEMMA InductiveStep ==
  ASSUME Inductive, [Next]_vars
  PROVE  Inductive'
<1>1. TypeOK /\ TypeOK'
  BY TypeStep DEF Inductive
<1>2. ASSUME UNCHANGED <<store, screenVars>>, ListMatchesStore' PROVE Inductive'
  BY <1>1, <1>2 DEF Inductive, screenVars, ButtonHonest, ScreenHonest,
     ScreenLoaded, CountedState
<1>3. ASSUME NEW t \in Tab, SelectTab(t) PROVE Inductive'
  <2> SUFFICES ASSUME ListOnScreen', fetchFailed' = FALSE
               PROVE  favouritesMovies' = Favourite'
    BY <1>1, <1>2, <1>3 DEF SelectTab, ListMatchesStore, TypeOK
  <2>1. t = "favourites" /\ stack[t] = NoScreen
    BY <1>3 DEF SelectTab, ListOnScreen
  <2>2. favouritesMovies' = Favourite
    BY <1>3, <2>1, AppearReads DEF SelectTab
  <2> QED
    BY <1>3, <2>2 DEF SelectTab, Favourite
<1>4. CASE PopDetail
  <2> SUFFICES ASSUME ListOnScreen', fetchFailed' = FALSE
               PROVE  favouritesMovies' = Favourite'
    BY <1>1, <1>2, <1>4 DEF PopDetail, ListMatchesStore, TypeOK
  <2>1. tab = "favourites"
    BY <1>4 DEF PopDetail, ListOnScreen
  <2>2. favouritesMovies' = Favourite
    BY <1>4, <2>1, AppearReads DEF PopDetail
  <2> QED
    BY <1>4, <2>2 DEF PopDetail, Favourite
<1>5. ASSUME NEW s \in Screen, NEW id \in ID, OpenDetail(s, id) PROVE Inductive'
  <2>1. ListMatchesStore'
    BY <1>1, <1>5, NoScreenAssumption
    DEF OpenDetail, ListMatchesStore, ListOnScreen, TypeOK
  <2>2. ASSUME NEW r \in Screen PROVE ScreenHonest(r)' /\ ScreenLoaded(r)'
    BY <1>1, <1>5
    DEF OpenDetail, Inductive, TypeOK, ButtonHonest, ScreenHonest,
        ScreenLoaded, CountedState
  <2> QED
    BY <1>1, <2>1, <2>2 DEF Inductive, ButtonHonest
<1>6. ASSUME NEW s \in Screen, NEW id \in ID, SuccessSearch(s, id) PROVE Inductive'
  <2>1. ListMatchesStore'
    BY <1>6 DEF SuccessSearch, Inductive, ListMatchesStore, ListOnScreen,
       Favourite, listVars
  <2>2. ASSUME NEW r \in Screen PROVE ScreenHonest(r)' /\ ScreenLoaded(r)'
    <3>1. CASE r = s
      BY <1>1, <1>6, <3>1
      DEF SuccessSearch, TypeOK, ScreenHonest, ScreenLoaded, CountedState
    <3>2. CASE r # s
      BY <1>1, <1>6, <3>2
      DEF SuccessSearch, Inductive, TypeOK, ButtonHonest, ScreenHonest,
          ScreenLoaded, CountedState
    <3> QED
      BY <3>1, <3>2
  <2> QED
    BY <1>1, <2>1, <2>2 DEF Inductive, ButtonHonest
<1>7. ASSUME NEW s \in Screen, Failed(s) PROVE Inductive'
  BY <1>1, <1>7
  DEF Failed, Inductive, ListMatchesStore, ListOnScreen, Favourite, listVars,
      ButtonHonest, ScreenHonest, ScreenLoaded, CountedState
<1>8. ASSUME NEW s \in Screen, AddToFavourites(s) PROVE Inductive'
  <2>1. Added(dtoID[s]) = "favourite"
    BY <1>1, <1>8, AddedIsFavourite DEF AddToFavourites, CanTap, TypeOK
  <2> QED
    BY <1>1, <1>8, <2>1, TapInductive DEF AddToFavourites, listVars
<1>9. ASSUME NEW s \in Screen, RemoveFromFavourites(s) PROVE Inductive'
  <2>1. Removed(dtoID[s]) # "favourite"
    BY <1>1, <1>9, RemovedIsNot DEF RemoveFromFavourites, CanTap, TypeOK
  <2> QED
    BY <1>1, <1>9, <2>1, TapInductive DEF RemoveFromFavourites, listVars
<1>10. ASSUME Launched, UNCHANGED store PROVE Inductive'
  BY <1>10, LaunchedInductive
<1>11. CASE UNCHANGED vars
  BY <1>11
  DEF vars, screenVars, listVars, Inductive, TypeOK, ListMatchesStore,
      ListOnScreen, Favourite, ButtonHonest, ScreenHonest, ScreenLoaded,
      CountedState
<1> QED
  BY <1>3, <1>4, <1>5, <1>6, <1>7, <1>8, <1>9, <1>10, <1>11
  DEF Next, ID, SaveFails, CountFails, ProcessDies

(* The inductive invariant holds in every reachable state. *)
THEOREM InductiveInvariant == Spec => []Inductive
<1>1. Init => Inductive
  <2> SUFFICES ASSUME Init PROVE Inductive
    OBVIOUS
  <2>1. TypeOK
    BY DEF Init, TypeOK, Tab, FavState
  <2>2. ListMatchesStore
    BY DEF Init, ListMatchesStore, ListOnScreen
  <2>3. ButtonHonest /\ \A s \in Screen : ScreenLoaded(s)
    BY DEF Init, ButtonHonest, ScreenHonest, ScreenLoaded
  <2> QED
    BY <2>1, <2>2, <2>3 DEF Inductive
<1> QED
  BY <1>1, InductiveStep, PTL DEF Spec

(* Whenever the favourites list is on the screen and its last fetch went    *)
(* well, its rows are the favourites of the store.                          *)
THEOREM ListCorrect == Spec => []ListMatchesStore
<1>1. Inductive => ListMatchesStore
  BY DEF Inductive
<1> QED
  BY <1>1, InductiveInvariant, PTL

(* A loaded detail screen tells the state of its movie in the store until   *)
(* another screen changes it.                                               *)
THEOREM ButtonCorrect == Spec => []ButtonHonest
<1>1. Inductive => ButtonHonest
  BY DEF Inductive
<1> QED
  BY <1>1, InductiveInvariant, PTL

-------------------------------------------------------------------------------
(* Only taps change the store. *)

(* A step that changes the store is a tap on the screen the user looks at, *)
(* for the movie it shows, in the direction its button announces.          *)
LEMMA StoreStep ==
  ASSUME Inductive, Next, store' # store
  PROVE  \E s \in Screen : Tapped(s)
<1>1. TypeOK
  BY DEF Inductive
<1>2. ASSUME NEW s \in Screen, AddToFavourites(s) PROVE Tapped(s)
  <2>1. /\ dtoID[s] \in Movie
        /\ dtoID[s] = imdbID[s]
        /\ favButton[s] = "add"
    BY <1>1, <1>2
    DEF AddToFavourites, CanTap, Inductive, TypeOK, ScreenLoaded, ButtonOf
  <2>2. Added(dtoID[s]) = "favourite"
    BY <2>1, AddedIsFavourite
  <2> QED
    BY <1>1, <1>2, <2>1, <2>2 DEF AddToFavourites, CanTap, Tapped, TypeOK
<1>3. ASSUME NEW s \in Screen, RemoveFromFavourites(s) PROVE Tapped(s)
  <2>1. /\ dtoID[s] \in Movie
        /\ dtoID[s] = imdbID[s]
        /\ favButton[s] = "remove"
    BY <1>1, <1>3
    DEF RemoveFromFavourites, CanTap, Inductive, TypeOK, ScreenLoaded, ButtonOf
  <2>2. store[dtoID[s]] # "absent"
    BY <1>1, <1>3, <2>1 DEF RemoveFromFavourites, Removed, TypeOK
  <2> QED
    BY <1>1, <1>3, <2>1, <2>2
    DEF RemoveFromFavourites, CanTap, Tapped, TypeOK, Removed
<1> QED
  BY <1>2, <1>3
  DEF Next, SelectTab, PopDetail, OpenDetail, SuccessSearch, Failed,
      SaveFails, CountFails, ProcessDies

(* No answer, no other screen and no restart changes a row of the store. *)
THEOREM TapsAlone == Spec => OnlyTheTappedMovieChanges
<1>1. Inductive /\ [Next]_vars
        => [store' # store => \E s \in Screen : Tapped(s)]_vars
  BY StoreStep
<1> QED
  BY <1>1, InductiveInvariant, PTL DEF Spec, OnlyTheTappedMovieChanges

-------------------------------------------------------------------------------
(* The refinement of FavouriteSet. *)

(* A tap is the abstract Add or Remove of the movie of its screen. *)
LEMMA TapRefines ==
  ASSUME Inductive, NEW s \in Screen, CanTap(s),
         NEW row \in Row, store' = [store EXCEPT ![dtoID[s]] = row],
         UNCHANGED <<tab, stack, favouritesMovies, fetchFailed>>
  PROVE  Abstract!SetNext
<1> DEFINE m == dtoID[s]
<1>1. TypeOK /\ m \in Movie
  BY DEF Inductive, TypeOK, CanTap
<1>2. ~ListOnScreen /\ ~ListOnScreen'
  BY <1>1, NoScreenAssumption DEF ListOnScreen, CanTap, OnScreen
<1>3. CASE row = "favourite"
  <2>1. Favourite' = Favourite \union {m}
    BY <1>1, <1>3 DEF Favourite, TypeOK
  <2>2. Abstract!Add(m)
    BY <1>2, <2>1 DEF Abstract!Add
  <2> QED
    BY <1>1, <2>2 DEF Abstract!SetNext
<1>4. CASE row # "favourite"
  <2>1. Favourite' = Favourite \ {m}
    BY <1>1, <1>4 DEF Favourite, TypeOK
  <2>2. Abstract!Remove(m)
    BY <1>2, <2>1 DEF Abstract!Remove
  <2> QED
    BY <1>1, <2>2 DEF Abstract!SetNext
<1> QED
  BY <1>3, <1>4

(* A launch is the abstract Restart. *)
LEMMA LaunchRefines ==
  ASSUME Launched, UNCHANGED store
  PROVE  Abstract!SetNext
<1>1. Favourite' = Favourite
  BY DEF Favourite
<1>2. ~ListOnScreen' /\ favouritesMovies' = {}
  BY DEF Launched, ListOnScreen
<1> QED
  BY <1>1, <1>2 DEF Abstract!SetNext, Abstract!Restart

(* The appearance of the list is the abstract Show or ShowFails. *)
LEMMA AppearRefines ==
  ASSUME ViewDidAppear(TRUE), ListOnScreen', UNCHANGED store
  PROVE  Abstract!SetNext
<1>1. Favourite' = Favourite
  BY DEF Favourite
<1> QED
  BY <1>1 DEF ViewDidAppear, GetFavouritesMovies, Abstract!SetNext,
     Abstract!Show, Abstract!ShowFails

(* A step that hides the list, or finds it hidden, is the abstract Hide. *)
LEMMA HideRefines ==
  ASSUME ~ListOnScreen', UNCHANGED <<store, favouritesMovies>>
  PROVE  Abstract!SetNext
<1>1. Favourite' = Favourite
  BY DEF Favourite
<1> QED
  BY <1>1 DEF Abstract!SetNext, Abstract!Hide

(* A step that leaves store, list and screen as they are is a stutter. *)
LEMMA StutterRefines ==
  ASSUME UNCHANGED <<store, tab, stack, favouritesMovies, fetchFailed>>
  PROVE  UNCHANGED Abstract!setVars
  BY DEF Abstract!setVars, Favourite, ListOnScreen

(* Every step maps to a step of the set or to a stutter. *)
LEMMA StepRefines ==
  ASSUME Inductive, [Next]_vars
  PROVE  [Abstract!SetNext]_Abstract!setVars
<1>1. TypeOK
  BY DEF Inductive
<1>2. ASSUME NEW t \in Tab, SelectTab(t)
      PROVE  [Abstract!SetNext]_Abstract!setVars
  <2>1. CASE t = "favourites" /\ stack[t] = NoScreen
    BY <1>2, <2>1, AppearRefines DEF SelectTab, ListOnScreen
  <2>2. CASE ~(t = "favourites" /\ stack[t] = NoScreen)
    BY <1>2, <2>2, HideRefines DEF SelectTab, ListOnScreen, ViewDidAppear, listVars
  <2> QED
    BY <2>1, <2>2
<1>3. CASE PopDetail
  <2>1. CASE tab = "favourites"
    BY <1>1, <1>3, <2>1, AppearRefines DEF PopDetail, ListOnScreen, TypeOK
  <2>2. CASE tab # "favourites"
    BY <1>3, <2>2, HideRefines DEF PopDetail, ListOnScreen, ViewDidAppear, listVars
  <2> QED
    BY <2>1, <2>2
<1>4. ASSUME NEW s \in Screen, NEW id \in ID, OpenDetail(s, id)
      PROVE  [Abstract!SetNext]_Abstract!setVars
  <2>1. ~ListOnScreen'
    BY <1>1, <1>4, NoScreenAssumption DEF OpenDetail, ListOnScreen, TypeOK
  <2> QED
    BY <1>4, <2>1, HideRefines DEF OpenDetail, listVars
<1>5. ASSUME NEW s \in Screen, NEW id \in ID, SuccessSearch(s, id) \/ Failed(s)
      PROVE  [Abstract!SetNext]_Abstract!setVars
  BY <1>5, StutterRefines DEF SuccessSearch, Failed, listVars
<1>6. ASSUME NEW s \in Screen, AddToFavourites(s)
      PROVE  [Abstract!SetNext]_Abstract!setVars
  <2>1. Added(dtoID[s]) \in Row
    BY <1>1, <1>6, AddedIsFavourite DEF AddToFavourites, CanTap, TypeOK, Row
  <2> QED
    BY <1>6, <2>1, TapRefines DEF AddToFavourites, listVars
<1>7. ASSUME NEW s \in Screen, RemoveFromFavourites(s)
      PROVE  [Abstract!SetNext]_Abstract!setVars
  <2>1. Removed(dtoID[s]) \in Row
    BY <1>1, <1>7, RemovedIsNot DEF RemoveFromFavourites, CanTap, TypeOK, Row
  <2> QED
    BY <1>7, <2>1, TapRefines DEF RemoveFromFavourites, listVars
<1>8. ASSUME Launched, UNCHANGED store
      PROVE  [Abstract!SetNext]_Abstract!setVars
  BY <1>8, LaunchRefines
<1>9. CASE UNCHANGED vars
  BY <1>9, StutterRefines DEF vars, listVars
<1> QED
  BY <1>2, <1>3, <1>4, <1>5, <1>6, <1>7, <1>8, <1>9
  DEF Next, ID, SaveFails, CountFails, ProcessDies

(* The screens, the rows and the refetches implement a persistent set of    *)
(* movies with a list that copies it.                                       *)
THEOREM Refinement == Spec => ImplementsFavouriteSet
<1>1. Init => Abstract!SetInit
  BY DEF Init, Abstract!SetInit, Favourite, ListOnScreen
<1> QED
  BY <1>1, StepRefines, InductiveInvariant, PTL
  DEF Spec, ImplementsFavouriteSet, Abstract!SetSpec
===============================================================================
