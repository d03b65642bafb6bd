------------------------------ MODULE SharedMovies ------------------------------
(***************************************************************************)
(* Sharing a movie: shareTapped of MovieDetailController on any number of  *)
(* devices, and the way its three setValue calls take through Firebase's   *)
(* queue, its outstanding puts, a connection that comes and goes, and the  *)
(* database all devices share.                                             *)
(*                                                                         *)
(* A share is three writes, not one: three blocks of Firebase's queue, each*)
(* kept in memory until it is acknowledged, and sent again by every new    *)
(* connection.  shareTapped does not ask whether the movie has been loaded:*)
(* before that its values are nil, and a nil value removes what is there.  *)
(***************************************************************************)
EXTENDS Naturals, Sequences, SequencesExt, FiniteSets

CONSTANTS
  Device,         \* the installations of the app
  Movie,          \* the imdbIDs
  MaxOutstanding  \* bound: a user shares no more while this many writes wait

ASSUME MaxOutstandingAssumption == MaxOutstanding \in Nat

VARIABLES
  pelis,     \* the database: the fields of each movie under pelis
  calls,     \* setValue calls Firebase's queue has not run yet
  puts,      \* FPersistentConnection.outstandingPuts, in the order of their index
  connected, \* connectionState is ConnectionStateConnected
  wire,      \* the puts on their way to the server
  acks,      \* how many answers are on their way back
  shared,    \* history: movies shared with their values
  erased,    \* history: movies shared before they were loaded
  lost       \* history: movies of which a write was lost with its process

connectionVars == <<puts, connected, wire, acks>>
historyVars == <<shared, erased, lost>>
sharedVars == <<pelis, calls, connectionVars, historyVars>>

Field == {"title", "year", "poster"}

(* The fields in the order shareTapped writes them. *)
FieldOrder == <<"title", "year", "poster">>

Put == [movie : Movie, field : Field, nil : BOOLEAN]

ShareInit ==
  /\ pelis = [m \in Movie |-> {}]
  /\ calls = [d \in Device |-> <<>>]
  /\ puts = [d \in Device |-> <<>>]
  /\ connected = [d \in Device |-> FALSE]
  /\ wire = [d \in Device |-> <<>>]
  /\ acks = [d \in Device |-> 0]
  /\ shared = {}
  /\ erased = {}
  /\ lost = {}

(* A write of movie m waits in the memory of the device. *)
Outstanding(d, m) == \E put \in ToSet(calls[d] \o puts[d]) : put.movie = m

-------------------------------------------------------------------------------
(* The main thread of the device. *)

(* shareTapped, on a screen whose movie is loaded or is still nil. *)
ShareTapped(d, m, loaded) ==
  /\ Len(calls[d]) + Len(puts[d]) < MaxOutstanding
  /\ calls' = [calls EXCEPT ![d] =
       @ \o [i \in 1 .. 3 |-> [movie |-> m, field |-> FieldOrder[i], nil |-> ~loaded]]]
  /\ shared' = IF loaded THEN shared \union {m} ELSE shared
  /\ erased' = IF loaded THEN erased ELSE erased \union {m}
  /\ UNCHANGED <<pelis, connectionVars, lost>>

-------------------------------------------------------------------------------
(* Firebase's queue on the device. *)

(* FRepo.set and putInternal: a put that is sent if there is a connection. *)
Set(d) ==
  /\ calls[d] # <<>>
  /\ calls' = [calls EXCEPT ![d] = Tail(@)]
  /\ puts' = [puts EXCEPT ![d] = Append(@, Head(calls[d]))]
  /\ wire' = IF connected[d] THEN [wire EXCEPT ![d] = Append(@, Head(calls[d]))]
                             ELSE wire
  /\ UNCHANGED <<pelis, connected, acks, historyVars>>

(* Slip: the outstanding puts are sent from the latest to the oldest. *)
RestoredLatestFirst(d) == Reverse(puts[d])

(* restoreState sends the outstanding puts sorted by index. *)
Restored(d) == puts[d]

(* onReady of a new connection; the app signs nobody in, so that the state *)
(* is restored at once.                                                    *)
OnReady(d) ==
  /\ ~connected[d]
  /\ connected' = [connected EXCEPT ![d] = TRUE]
  /\ wire' = [wire EXCEPT ![d] = Restored(d)]
  /\ UNCHANGED <<pelis, calls, puts, acks, historyVars>>

(* The callback of sendPut, for the oldest put: it is outstanding no more. *)
PutAcknowledged(d) ==
  /\ acks[d] > 0
  /\ acks' = [acks EXCEPT ![d] = @ - 1]
  /\ puts' = [puts EXCEPT ![d] = Tail(@)]
  /\ UNCHANGED <<pelis, calls, connected, wire, historyVars>>

(* Slip: the puts sent are cancelled, as sent transactions are. *)
OnDisconnectCancelsSent(d) ==
  /\ connected[d]
  /\ connected' = [connected EXCEPT ![d] = FALSE]
  /\ puts' = [puts EXCEPT ![d] = <<>>]
  /\ wire' = [wire EXCEPT ![d] = <<>>]
  /\ acks' = [acks EXCEPT ![d] = 0]
  /\ UNCHANGED <<pelis, calls, historyVars>>

(* onDisconnect: what is on its way is gone, in both directions, with the  *)
(* callbacks; the puts stay.                                               *)
OnDisconnect(d) ==
  /\ connected[d]
  /\ connected' = [connected EXCEPT ![d] = FALSE]
  /\ wire' = [wire EXCEPT ![d] = <<>>]
  /\ acks' = [acks EXCEPT ![d] = 0]
  /\ UNCHANGED <<pelis, calls, puts, historyVars>>

(* Persistence is off: what is in memory dies with the process. *)
ProcessDies(d) ==
  /\ calls' = [calls EXCEPT ![d] = <<>>]
  /\ puts' = [puts EXCEPT ![d] = <<>>]
  /\ connected' = [connected EXCEPT ![d] = FALSE]
  /\ wire' = [wire EXCEPT ![d] = <<>>]
  /\ acks' = [acks EXCEPT ![d] = 0]
  /\ lost' = lost \union {m \in Movie : Outstanding(d, m)}
  /\ UNCHANGED <<pelis, shared, erased>>

-------------------------------------------------------------------------------
(* The server: it applies the puts of a connection in their order. *)

Applied(fields, put) ==
  IF put.nil THEN fields \ {put.field} ELSE fields \union {put.field}

ServerApplies(d) ==
  /\ wire[d] # <<>>
  /\ LET put == Head(wire[d]) IN
       pelis' = [pelis EXCEPT ![put.movie] = Applied(@, put)]
  /\ wire' = [wire EXCEPT ![d] = Tail(@)]
  /\ acks' = [acks EXCEPT ![d] = @ + 1]
  /\ UNCHANGED <<calls, puts, connected, historyVars>>

-------------------------------------------------------------------------------
ShareNext ==
  \E d \in Device :
    \/ \E m \in Movie, loaded \in BOOLEAN : ShareTapped(d, m, loaded)
    \/ Set(d)
    \/ OnReady(d)
    \/ PutAcknowledged(d)
    \/ OnDisconnect(d)
    \/ ProcessDies(d)
    \/ ServerApplies(d)

(* Firebase's queue is served and the connection retried for ever, and a   *)
(* network that keeps coming back lets each message through at last.       *)
ShareFairness ==
  \A d \in Device :
    /\ WF_sharedVars(Set(d))
    /\ WF_sharedVars(OnReady(d))
    /\ SF_sharedVars(ServerApplies(d))
    /\ SF_sharedVars(PutAcknowledged(d))

ShareSafetySpec == ShareInit /\ [][ShareNext]_sharedVars
ShareSpec == ShareSafetySpec /\ ShareFairness

-------------------------------------------------------------------------------
(* Properties. *)

ShareTypeOK ==
  /\ pelis \in [Movie -> SUBSET Field]
  /\ calls \in [Device -> Seq(Put)]
  /\ puts \in [Device -> Seq(Put)]
  /\ connected \in [Device -> BOOLEAN]
  /\ wire \in [Device -> Seq(Put)]
  /\ acks \in [Device -> Nat]
  /\ shared \in SUBSET Movie
  /\ erased \in SUBSET Movie
  /\ lost \in SUBSET Movie

(* The bookkeeping of a connection: every outstanding put is on the wire   *)
(* or answered, in the order of the puts, so that an answer always ends    *)
(* the put it is the answer of; without a connection nothing is on its way.*)
InFlight ==
  \A d \in Device :
    /\ acks[d] <= Len(puts[d])
    /\ wire[d] = IF connected[d] THEN SubSeq(puts[d], acks[d] + 1, Len(puts[d])) ELSE <<>>
    /\ ~connected[d] => acks[d] = 0

(* A movie never shared before it was loaded has its fields in the order   *)
(* of the writes: whatever is lost, sent again or written by several       *)
(* devices, no entry has a year or a poster without a title.               *)
FieldsInOrder ==
  \A m \in Movie \ erased :
    pelis[m] \in {{}, {"title"}, {"title", "year"}, Field}

(* A shared movie none of whose puts died with a process is complete in    *)
(* the database as soon as no device has a put for it left.                *)
SharedIsComplete ==
  \A m \in shared \ (erased \union lost) :
    (\A d \in Device : ~Outstanding(d, m)) => pelis[m] = Field

(* A shared movie gets complete, unless someone erases it or the process   *)
(* that shared it dies.                                                    *)
SharedAtLast ==
  \A m \in Movie :
    m \in shared ~> pelis[m] = Field \/ m \in erased \union lost
===============================================================================
