------------------------------ MODULE MovieSearch ------------------------------
(***************************************************************************)
(* The search screen: MovieController, MoviesPresenter, MoviesModel and    *)
(* ApiManager, composed with the LoaderManager that shows its spinner.     *)
(*                                                                         *)
(* Every change of a text longer than three characters shows a new loader  *)
(* and sends a request; the search button sends one without a loader.      *)
(* Nothing cancels a request, and Alamofire answers each in its own time.  *)
(***************************************************************************)
EXTENDS Naturals, Sequences, FiniteSets, Functions

CONSTANTS
  Text,         \* what the search bar may hold
  Empty,        \* the empty text
  Long,         \* the texts of more than three characters
  MaxRequests   \* bound: the searches of a run

ASSUME TextAssumption == Empty \in Text \ Long /\ Long \subseteq Text
ASSUME MaxRequestsAssumption == MaxRequests \in Nat

VARIABLES
  text,               \* searchBar.text
  showsCancelButton,  \* searchBar.showsCancelButton
  requests,           \* the searches sent: their text, and their answer
  moviesDto,          \* the request whose answer is on the list; 0 is nil
  alert,              \* an alert is on the screen
  early,              \* history: requests answered before their loader was on
  late,               \* history: an answer came after one of a later request
  timers, queue, active, wanted   \* of the LoaderManager

screenVars == <<text, showsCancelButton, alert>>
searchVars == <<requests, moviesDto, early, late>>

Request == 1 .. MaxRequests

(* The loader of a request has its number. *)
Manager == INSTANCE LoaderManager
  WITH Loader <- Request,
       View <- {"searchView"},
       ParentView <- [r \in Request |-> "searchView"],
       MaxQueue <- 0

loaderVars == <<timers, queue, active, wanted>>
vars == <<screenVars, searchVars, loaderVars>>

Init ==
  /\ text = Empty
  /\ showsCancelButton = FALSE
  /\ requests = <<>>
  /\ moviesDto = 0
  /\ alert = FALSE
  /\ early = {}
  /\ late = FALSE
  /\ Manager!LoaderInit

Sent(r) == r \in DOMAIN requests /\ requests[r].answer = "none"
Succeeded(r) == r \in DOMAIN requests /\ requests[r].answer = "success"
Idle == \A r \in DOMAIN requests : ~Sent(r)

-------------------------------------------------------------------------------
(* The user; an alert on the screen takes all touches. *)

(* presenter.searchMovie, down to ApiManager.get. *)
SearchMovie(t) ==
  /\ Len(requests) < MaxRequests
  /\ requests' = Append(requests, [text |-> t, answer |-> "none"])

(* searchBar(textDidChange:) *)
TextDidChange(t) ==
  /\ ~alert
  /\ t # text
  /\ text' = t
  /\ showsCancelButton' = TRUE
  /\ IF t \in Long
     THEN SearchMovie(t) /\ Manager!ShowLoader(Len(requests'))
     ELSE UNCHANGED <<requests, loaderVars>>
  /\ UNCHANGED <<moviesDto, alert, early, late>>

(* searchBarSearchButtonClicked; UIKit disables the key on an empty text. *)
SearchButtonClicked ==
  /\ ~alert
  /\ text # Empty
  /\ showsCancelButton' = FALSE
  /\ SearchMovie(text)
  /\ UNCHANGED <<text, moviesDto, alert, early, late, loaderVars>>

(* searchBarCancelButtonClicked leaves text, list and requests. *)
CancelButtonClicked ==
  /\ ~alert
  /\ showsCancelButton
  /\ showsCancelButton' = FALSE
  /\ UNCHANGED <<text, alert, searchVars, loaderVars>>

DismissAlert ==
  /\ alert
  /\ alert' = FALSE
  /\ UNCHANGED <<text, showsCancelButton, searchVars, loaderVars>>

-------------------------------------------------------------------------------
(* The answers, in any order. *)

Answered(r, answer) ==
  /\ Sent(r)
  /\ requests' = [requests EXCEPT ![r].answer = answer]
  /\ early' = IF r \in active THEN early ELSE early \union {r}
  /\ late' = (late \/ \E q \in DOMAIN requests : q > r /\ ~Sent(q))

(* Slip: the spinners are left to failed. *)
SuccessSearchKeepsSpinners(r) ==
  /\ Answered(r, "success")
  /\ moviesDto' = r
  /\ UNCHANGED <<screenVars, loaderVars>>

(* Slip: a list that is there is kept. *)
SuccessSearchKeepsList(r) ==
  /\ Answered(r, "success")
  /\ Manager!RemoveLoadingView("searchView")
  /\ moviesDto' = IF moviesDto = 0 THEN r ELSE moviesDto
  /\ UNCHANGED screenVars

(* Slip: the spinners are removed for the first list only. *)
SuccessSearchHidesOnce(r) ==
  /\ Answered(r, "success")
  /\ IF moviesDto = 0 THEN Manager!RemoveLoadingView("searchView")
                      ELSE UNCHANGED loaderVars
  /\ moviesDto' = r
  /\ UNCHANGED screenVars

(* successSearch: the spinners of the view, the list, its rows. *)
SuccessSearch(r) ==
  /\ Answered(r, "success")
  /\ Manager!RemoveLoadingView("searchView")
  /\ moviesDto' = r
  /\ UNCHANGED screenVars

(* failed: an alert, unless one is up already; the spinners stay. *)
Failed(r) ==
  /\ Answered(r, "failure")
  /\ alert' = TRUE
  /\ UNCHANGED <<text, showsCancelButton, moviesDto, loaderVars>>

RunLoop == Manager!RunLoop /\ UNCHANGED <<screenVars, searchVars>>

-------------------------------------------------------------------------------
Next ==
  \/ \E t \in Text : TextDidChange(t)
  \/ SearchButtonClicked
  \/ CancelButtonClicked
  \/ DismissAlert
  \/ \E r \in Request : SuccessSearch(r)
  \/ \E r \in Request : Failed(r)
  \/ RunLoop

(* The run loop serves its queue and timers; neither the user nor the      *)
(* network owes a step.                                                    *)
Fairness ==
  /\ WF_vars(Manager!RunBlock /\ UNCHANGED <<screenVars, searchVars>>)
  /\ \A l \in Request :
       WF_vars(Manager!FireTimer(l) /\ UNCHANGED <<screenVars, searchVars>>)

SafetySpec == Init /\ [][Next]_vars
Spec == SafetySpec /\ Fairness

-------------------------------------------------------------------------------
(* Properties. *)

TypeOK ==
  /\ text \in Text
  /\ showsCancelButton \in BOOLEAN
  /\ requests \in Seq([text : Text, answer : {"none", "success", "failure"}])
  /\ Len(requests) <= MaxRequests
  /\ moviesDto \in 0 .. Len(requests)
  /\ alert \in BOOLEAN
  /\ early \in SUBSET Request
  /\ late \in BOOLEAN
  /\ Manager!LoaderTypeOK

(* The spinners left on a screen with nothing more to come are those of    *)
(* searches that failed and of searches answered before their spinner was  *)
(* on: a search that succeeds after its spinner is on leaves none.         *)
SpinnersLeft ==
  Idle /\ Manager!Quiet =>
    \A l \in active : requests[l].answer = "failure" \/ l \in early

(* A search that succeeds after its spinner is on loses it for good.       *)
SpinnerGone ==
  \A r \in Request : Succeeded(r) /\ r \notin early ~> [](r \notin active)

(* The list shows the last search that succeeded, as long as no answer     *)
(* comes after one of a later search.                                      *)
ListFreshUnlessLate ==
  ~late => \A r \in DOMAIN requests : Succeeded(r) => r <= moviesDto
================================================================================
