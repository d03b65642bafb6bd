----------------------------- MODULE LoaderManager -----------------------------
(***************************************************************************)
(* SDOSLoader's LoaderManager, the spinner of every screen of the app, and *)
(* the removeLoadingView of the controllers that use it.                   *)
(*                                                                         *)
(* showLoader does not show: it hides the loader, then sets a timer of the *)
(* run loop; the timer puts a block on the main queue; the block shows the *)
(* loader and makes it active.  hideLoader cancels the timer and puts a    *)
(* block on the queue, and hideLoaderOfView hides the loaders of a view    *)
(* that are active by now.  Timers and the queue are run by the same       *)
(* thread, in an order the code does not fix.                              *)
(***************************************************************************)
EXTENDS Naturals, Sequences, FiniteSets, Functions

CONSTANTS
  Loader,     \* the LoaderObjects, by uuid
  View,       \* the views that hold them
  ParentView, \* LoaderObject.parentView
  MaxQueue    \* bound: callers wait while this many blocks are queued

ASSUME LoaderAssumption == IsFiniteSet(Loader)
ASSUME ParentViewAssumption == ParentView \in [Loader -> View]
ASSUME MaxQueueAssumption == MaxQueue \in Nat

VARIABLES
  timers,   \* loaders whose perform(_showLoader, afterDelay:) is scheduled
  queue,    \* DispatchQueue.main
  active,   \* shared.activeLoaders
  wanted    \* history: loaders whose last showLoader or hideLoader is a show

managerVars == <<timers, queue, active>>
loaderVars == <<timers, queue, active, wanted>>

ShowBlock(l) == [op |-> "show", loader |-> l]
HideBlock(l) == [op |-> "hide", loader |-> l]
RemoveBlock(v) == [op |-> "removeLoadingView", view |-> v]

Block ==
  {ShowBlock(l) : l \in Loader} \union {HideBlock(l) : l \in Loader}
    \union {RemoveBlock(v) : v \in View}

LoaderInit ==
  /\ timers = {}
  /\ queue = <<>>
  /\ active = {}
  /\ wanted = {}

LoadersOf(v) == {l \in Loader : ParentView[l] = v}

-------------------------------------------------------------------------------
(* Calls on the main thread. *)

(* Slip: the timer is set first, and hideLoader cancels it. *)
ShowLoaderThenHide(l) ==
  /\ timers' = timers \ {l}
  /\ queue' = Append(queue, HideBlock(l))
  /\ wanted' = wanted \union {l}
  /\ UNCHANGED active

(* showLoader: hideLoader first, then the timer. *)
ShowLoader(l) ==
  /\ timers' = timers \union {l}
  /\ queue' = Append(queue, HideBlock(l))
  /\ wanted' = wanted \union {l}
  /\ UNCHANGED active

(* Slip: the scheduled _showLoader is not cancelled. *)
HideLoaderKeepsTimer(l) ==
  /\ queue' = Append(queue, HideBlock(l))
  /\ wanted' = wanted \ {l}
  /\ UNCHANGED <<timers, active>>

(* hideLoader *)
HideLoader(l) ==
  /\ timers' = timers \ {l}
  /\ queue' = Append(queue, HideBlock(l))
  /\ wanted' = wanted \ {l}
  /\ UNCHANGED active

(* hideLoader for each loader of a set, in the order of a dictionary. *)
HideEach(loaders, blocks) ==
  \E order \in Bijection(1 .. Cardinality(loaders), loaders) :
    /\ timers' = timers \ loaders
    /\ queue' = blocks \o [i \in DOMAIN order |-> HideBlock(order[i])]
    /\ wanted' = wanted \ loaders

(* hideLoaderOfView: the loaders of the view among the active ones. *)
HideLoaderOfView(v, blocks) ==
  /\ HideEach(active \intersect LoadersOf(v), blocks)
  /\ UNCHANGED active

(* hideAllLoaders *)
HideAllLoaders ==
  /\ HideEach(active, queue)
  /\ UNCHANGED active

(* removeLoadingView of a controller: hideLoaderOfView in a block. *)
RemoveLoadingView(v) ==
  /\ queue' = Append(queue, RemoveBlock(v))
  /\ UNCHANGED <<timers, active, wanted>>

-------------------------------------------------------------------------------
(* The run loop. *)

(* Slip: the timer shows the loader itself, ahead of the queued blocks. *)
FireTimerShowsAtOnce(l) ==
  /\ l \in timers
  /\ timers' = timers \ {l}
  /\ active' = active \union {l}
  /\ UNCHANGED <<queue, wanted>>

(* _showLoader, when its timer fires. *)
FireTimer(l) ==
  /\ l \in timers
  /\ timers' = timers \ {l}
  /\ queue' = Append(queue, ShowBlock(l))
  /\ UNCHANGED <<active, wanted>>

RunShow ==
  /\ queue # <<>> /\ Head(queue).op = "show"
  /\ active' = active \union {Head(queue).loader}
  /\ queue' = Tail(queue)
  /\ UNCHANGED <<timers, wanted>>

(* The block of hideLoader; a loader that is not active is left alone. *)
RunHide ==
  /\ queue # <<>> /\ Head(queue).op = "hide"
  /\ active' = active \ {Head(queue).loader}
  /\ queue' = Tail(queue)
  /\ UNCHANGED <<timers, wanted>>

RunRemove ==
  /\ queue # <<>> /\ Head(queue).op = "removeLoadingView"
  /\ HideLoaderOfView(Head(queue).view, Tail(queue))

RunBlock == RunShow \/ RunHide \/ RunRemove

RunLoop == RunBlock \/ \E l \in Loader : FireTimer(l)

-------------------------------------------------------------------------------
(* The manager under callers that may call anything at any time. *)
Call ==
  /\ Len(queue) < MaxQueue
  /\ \/ \E l \in Loader : ShowLoader(l) \/ HideLoader(l)
     \/ \E v \in View : HideLoaderOfView(v, queue) \/ RemoveLoadingView(v)
     \/ HideAllLoaders

LoaderNext == Call \/ RunLoop

(* The run loop serves its queue and its timers; the callers owe nothing. *)
RunLoopFairness ==
  /\ WF_loaderVars(RunBlock)
  /\ \A l \in Loader : WF_loaderVars(FireTimer(l))

LoaderSafetySpec == LoaderInit /\ [][LoaderNext]_loaderVars
LoaderSpec == LoaderSafetySpec /\ RunLoopFairness

-------------------------------------------------------------------------------
(* Properties. *)

LoaderTypeOK ==
  /\ timers \in SUBSET Loader
  /\ queue \in Seq(Block)
  /\ active \in SUBSET Loader
  /\ wanted \in SUBSET Loader

Quiet == timers = {} /\ queue = <<>>

(* Once the timers and the queue are empty, the loaders on the screen are  *)
(* exactly those whose last call was a showLoader, in whatever order calls,*)
(* timers and blocks came: no hide is lost to a show on its way.           *)
SettledAsAsked == Quiet => active = wanted

(* A loader not wanted leaves the screen, and one wanted comes on it,      *)
(* unless the callers change their mind.                                   *)
HiddenForGood == \A l \in Loader : l \notin wanted ~> l \notin active \/ l \in wanted
ShownAtLast == \A l \in Loader : l \in wanted ~> l \in active \/ l \notin wanted
===============================================================================
