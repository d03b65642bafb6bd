-------------------------- MODULE MoviePostersProofs --------------------------
(***************************************************************************)
(* Proofs about MoviePosters: no cell shows the poster of a row it no      *)
(* longer has, and whatever is downloaded is wanted.                       *)
(***************************************************************************)
EXTENDS MoviePosters, SequenceTheorems, TLAPS

Active(l) == loads[l].state \in {"cache", "download"}

(* A view knows its load under way, and there is no other: each load under *)
(* way is the latest of its cell, and is for the row the cell has now.     *)
LatestRight ==
  /\ \A c \in Cell : latest[c] # 0 => loads[latest[c]].cell = c /\ Active(latest[c])
  /\ \A l \in DOMAIN loads :
       Active(l) => /\ latest[loads[l].cell] = l
                    /\ row[loads[l].cell] \in {loads[l].url, NoUrl}

(* The callbacks of an operation are of loads that wait for it, and of no  *)
(* other operation; only one that has answered may have some of loads that *)
(* have ended, and only a finished one some of cancelled loads.            *)
CallbacksRight ==
  /\ \A d \in DOMAIN downloads : \A l \in downloads[d].callbackBlocks :
       /\ l \in DOMAIN loads /\ loads[l].url = downloads[d].url
       /\ \/ loads[l].state = "download"
          \/ loads[l].state = "done" /\ downloads[d].state = "answered"
          \/ loads[l].state = "cancelled" /\ Finished(downloads[d])
  /\ \A d, e \in DOMAIN downloads :
       d # e => downloads[d].callbackBlocks \intersect downloads[e].callbackBlocks = {}

Queries == {i \in DOMAIN mainQueue : mainQueue[i].type = "queried"}
Answers == {i \in DOMAIN mainQueue : mainQueue[i].type = "completed"}

(* A block of the main queue tells loads that have not been told, and that *)
(* nobody else will tell.                                                  *)
BlocksRight ==
  /\ \A i \in Queries : /\ mainQueue[i].load \in DOMAIN loads
                        /\ loads[mainQueue[i].load].state \in {"cache", "cancelled"}
  /\ \A i \in Answers : \A l \in mainQueue[i].loads :
       /\ l \in DOMAIN loads /\ loads[l].url = mainQueue[i].url
       /\ loads[l].state \in {"download", "cancelled"}
       /\ \A d \in DOMAIN downloads :
            l \in downloads[d].callbackBlocks => downloads[d].state = "answered"
  /\ \A i, j \in Answers : i # j => mainQueue[i].loads \intersect mainQueue[j].loads = {}

(* The disk is asked in the order of the loads, and answers in that order; *)
(* each download was made by a load before all of these.                   *)
QueriesInOrder ==
  /\ \A i \in DOMAIN ioQueue : /\ loads[ioQueue[i]].state \in {"cache", "cancelled"}
                               /\ Len(downloads) < ioQueue[i]
                               /\ \A j \in DOMAIN ioQueue : i < j => ioQueue[i] < ioQueue[j]
  /\ \A i \in Queries : /\ Len(downloads) < mainQueue[i].load
                        /\ \A j \in Queries : i < j => mainQueue[i].load < mainQueue[j].load
                        /\ \A j \in DOMAIN ioQueue : mainQueue[i].load < ioQueue[j]

Live(d) == downloads[d].state \in {"pending", "executing"} /\ ~downloads[d].cancelled

(* An older operation of the same URL has been removed. *)
Displaced(d) ==
  \E e \in 1..(d - 1) : downloads[e].url = downloads[d].url /\ downloads[e].state = "removed"

(* An operation that still runs has callbacks, and is the one of its URL   *)
(* and the last that was made for it, but for what the completion block of *)
(* an older one does.                                                      *)
OperationRight(d) ==
  /\ downloads[d].callbackBlocks # {}
  /\ \/ Displaced(d)
     \/ /\ URLOperations[downloads[d].url] = d
        /\ \A e \in DOMAIN downloads : d < e => downloads[e].url # downloads[d].url

OperationsRight ==
  /\ \A u \in Url : URLOperations[u] # 0 => downloads[URLOperations[u]].url = u
  /\ \A d \in DOMAIN downloads : Live(d) => OperationRight(d)

(* The load that is to be added waits for the operation its URL has, and   *)
(* all whose query is under way came after it.                             *)
JoinRight ==
  adding # 0 =>
    /\ loads[adding].state = "cache"
    /\ URLOperations[loads[adding].url] # 0
    /\ \A i \in DOMAIN ioQueue : adding < ioQueue[i]
    /\ \A i \in Queries : adding < mainQueue[i].load

IInv ==
  /\ TypeOK /\ PosterOfRow
  /\ LatestRight /\ CallbacksRight /\ BlocksRight /\ QueriesInOrder /\ OperationsRight /\ JoinRight

-------------------------------------------------------------------------------
(* Sequences. *)

LEMMA SameLength ==
  ASSUME NEW S, NEW T, NEW s \in Seq(S), NEW t \in Seq(T), DOMAIN s = DOMAIN t
  PROVE  Len(s) = Len(t)
<1>1. /\ Len(s) \in Nat /\ DOMAIN s = 1..Len(s)
      /\ Len(t) \in Nat /\ DOMAIN t = 1..Len(t)
  BY LenProperties
<1>2. \A m, n \in Nat : m < n => n \in 1..n /\ n \notin 1..m
  OBVIOUS
<1>3. 1..Len(s) = 1..Len(t)
  BY <1>1
<1>4. ~(Len(s) < Len(t))
  BY <1>1, <1>2, <1>3, Zenon
<1>5. ~(Len(t) < Len(s))
  BY <1>1, <1>2, <1>3, Zenon
<1>6. \A m, n \in Nat : m < n \/ n < m \/ m = n
  OBVIOUS
<1> QED BY <1>1, <1>4, <1>5, <1>6, Zenon

(* Changing the elements of a sequence keeps its length. *)
LEMMA MappedSeq ==
  ASSUME NEW S, NEW s \in Seq(S), NEW t, DOMAIN t = DOMAIN s, t = [i \in DOMAIN t |-> t[i]],
         \A i \in DOMAIN s : t[i] \in S
  PROVE  t \in Seq(S) /\ Len(t) = Len(s)
<1>1. Len(s) \in Nat /\ DOMAIN s = 1..Len(s)
  BY LenProperties
<1>2. t \in [1..Len(s) -> S]
  BY <1>1
<1>3. t \in Seq(S)
  BY <1>1, <1>2, SeqDef
<1> QED BY <1>3, SameLength

LEMMA Shape ==
  ASSUME TypeOK
  PROVE  /\ Len(loads) \in Nat /\ DOMAIN loads = 1..Len(loads) /\ \A l \in DOMAIN loads : loads[l] \in Load
         /\ Len(downloads) \in Nat /\ DOMAIN downloads = 1..Len(downloads)
         /\ \A d \in DOMAIN downloads : downloads[d] \in Download
         /\ Len(ioQueue) \in Nat /\ DOMAIN ioQueue = 1..Len(ioQueue)
         /\ \A i \in DOMAIN ioQueue : ioQueue[i] \in DOMAIN loads
         /\ Len(mainQueue) \in Nat /\ DOMAIN mainQueue = 1..Len(mainQueue)
         /\ \A i \in DOMAIN mainQueue : mainQueue[i] \in Block
BY LenProperties, ElementOfSeq DEF TypeOK

-------------------------------------------------------------------------------
(* Cancelling. *)

(* The load under way of a view is cancelled, and nothing else changes. *)
LEMMA WithoutFacts ==
  ASSUME TypeOK, NEW c \in Cell
  PROVE  /\ LoadsWithout(c) \in Seq(Load) /\ Len(LoadsWithout(c)) = Len(loads)
         /\ DOMAIN LoadsWithout(c) = DOMAIN loads
         /\ \A l \in DOMAIN loads :
              /\ LoadsWithout(c)[l].cell = loads[l].cell /\ LoadsWithout(c)[l].url = loads[l].url
              /\ LoadsWithout(c)[l].state = IF l = latest[c] THEN "cancelled" ELSE loads[l].state
<1> DEFINE t == LoadsWithout(c)
<1>1. DOMAIN t = DOMAIN loads /\ t = [l \in DOMAIN t |-> t[l]]
  BY DEF LoadsWithout
<1>2. \A l \in DOMAIN loads :
        /\ t[l] \in Load
        /\ t[l].cell = loads[l].cell /\ t[l].url = loads[l].url
        /\ t[l].state = IF l = latest[c] THEN "cancelled" ELSE loads[l].state
  BY Shape DEF LoadsWithout, Load
<1>3. t \in Seq(Load) /\ Len(t) = Len(loads)
  <2> HIDE DEF t
  <2> QED BY <1>1, <1>2, MappedSeq DEF TypeOK
<1> QED BY <1>1, <1>2, <1>3

(* Every operation that has not finished loses that load among its         *)
(* callbacks; one that loses its last callback runs no more for anybody.   *)
LEMMA CancelFacts ==
  ASSUME TypeOK, CallbacksRight, NEW c \in Cell, CancelLoad(c)
  PROVE  /\ downloads' \in Seq(Download) /\ Len(downloads') = Len(downloads)
         /\ DOMAIN downloads' = DOMAIN downloads
         /\ \A d \in DOMAIN downloads :
              /\ downloads'[d].url = downloads[d].url
              /\ downloads'[d].callbackBlocks \subseteq downloads[d].callbackBlocks
              /\ latest[c] \in downloads'[d].callbackBlocks => Finished(downloads'[d])
              /\ Finished(downloads[d]) => Finished(downloads'[d])
              /\ downloads'[d].state = "removed" <=> downloads[d].state = "removed"
              /\ downloads'[d].state = "answered" <=> downloads[d].state = "answered"
              /\ Live(d)' => Live(d)
              /\ Live(d)' /\ downloads[d].callbackBlocks # {} => downloads'[d].callbackBlocks # {}
<1>1. DOMAIN downloads' = DOMAIN downloads /\ downloads' = [d \in DOMAIN downloads' |-> downloads'[d]]
  BY DEF CancelLoad
<1>2. ASSUME NEW d \in DOMAIN downloads
      PROVE  /\ downloads'[d] \in Download
             /\ downloads'[d].url = downloads[d].url
             /\ downloads'[d].callbackBlocks \subseteq downloads[d].callbackBlocks
             /\ latest[c] \in downloads'[d].callbackBlocks => Finished(downloads'[d])
             /\ Finished(downloads[d]) => Finished(downloads'[d])
             /\ downloads'[d].state = "removed" <=> downloads[d].state = "removed"
             /\ downloads'[d].state = "answered" <=> downloads[d].state = "answered"
             /\ Live(d)' => Live(d)
             /\ Live(d)' /\ downloads[d].callbackBlocks # {} => downloads'[d].callbackBlocks # {}
  <2>1. downloads[d] \in Download
    BY Shape
  <2>2. CASE latest[c] \notin downloads[d].callbackBlocks
    BY <2>1, <2>2 DEF CancelLoad, Download, Live
  <2>3. CASE latest[c] \in downloads[d].callbackBlocks /\ downloads[d].callbackBlocks # {latest[c]}
    BY <2>1, <2>3 DEF CancelLoad, CancelToken, Download, Live, Finished
  <2>4. CASE downloads[d].callbackBlocks = {latest[c]}
    BY <2>1, <2>4 DEF CancelLoad, CancelToken, Download, Live, Finished
  <2> QED BY <2>2, <2>3, <2>4
<1>3. downloads' \in Seq(Download) /\ Len(downloads') = Len(downloads)
  BY <1>1, <1>2, MappedSeq DEF TypeOK
<1> QED BY <1>1, <1>2, <1>3

-------------------------------------------------------------------------------
(* The cells. *)

(* What a cell's new row does to the loads there were: the one under way   *)
(* is cancelled.  A new load may have been added behind them.              *)
Reused(c) ==
  /\ loads' \in Seq(Load) /\ Len(loads) <= Len(loads')
  /\ DOMAIN loads \subseteq DOMAIN loads'
  /\ \A l \in DOMAIN loads :
       /\ loads'[l].cell = loads[l].cell /\ loads'[l].url = loads[l].url
       /\ loads'[l].state = IF l = latest[c] THEN "cancelled" ELSE loads[l].state

(* The operations keep their callbacks, their order and their table, while *)
(* the load under way of c is cancelled.                                   *)
LEMMA CancelKeeps ==
  ASSUME IInv, NEW c \in Cell, CancelLoad(c), Reused(c),
         UNCHANGED <<URLOperations, mainQueue>>
  PROVE  CallbacksRight' /\ BlocksRight' /\ OperationsRight'
<1>0. TypeOK /\ CallbacksRight
  BY DEF IInv
<1>1. DOMAIN downloads' = DOMAIN downloads /\ Len(downloads') = Len(downloads)
  BY <1>0, CancelFacts
<1>2. \A d \in DOMAIN downloads :
        /\ downloads'[d].url = downloads[d].url
        /\ downloads'[d].callbackBlocks \subseteq downloads[d].callbackBlocks
        /\ latest[c] \in downloads'[d].callbackBlocks => Finished(downloads'[d])
        /\ Finished(downloads[d]) => Finished(downloads'[d])
        /\ downloads'[d].state = "removed" <=> downloads[d].state = "removed"
        /\ downloads'[d].state = "answered" <=> downloads[d].state = "answered"
        /\ Live(d)' => Live(d)
        /\ Live(d)' /\ downloads[d].callbackBlocks # {} => downloads'[d].callbackBlocks # {}
  BY <1>0, CancelFacts
<1>3. CallbacksRight'
  BY <1>0, <1>1, <1>2 DEF CallbacksRight, Reused
<1>4. BlocksRight'
  BY <1>0, <1>1, <1>2 DEF IInv, BlocksRight, Queries, Answers, Reused
<1>5. OperationsRight'
  <2>a. \A u \in Url : URLOperations[u] # 0 => downloads'[URLOperations[u]].url = u
    <3>1. \A u \in Url : URLOperations[u] # 0 => URLOperations[u] \in DOMAIN downloads
      BY <1>0, Shape DEF TypeOK
    <3> QED BY <1>2, <3>1 DEF IInv, OperationsRight
  <2> SUFFICES ASSUME NEW d \in DOMAIN downloads, Live(d)' PROVE OperationRight(d)'
    BY <1>1, <2>a DEF OperationsRight
  <2>1. OperationRight(d)
    BY <1>2 DEF IInv, OperationsRight
  <2>2. downloads'[d].callbackBlocks # {}
    BY <1>2, <2>1 DEF OperationRight
  <2>3. Displaced(d) => Displaced(d)'
    BY <1>0, <1>2, Shape DEF Displaced
  <2> QED BY <1>1, <1>2, <2>1, <2>2, <2>3 DEF OperationRight
<1> QED BY <1>3, <1>4, <1>5

(* A row whose image is there at once, or known to be missing. *)
LEMMA SetImageAtOnceIInv ==
  ASSUME IInv, NEW c \in Cell, NEW u \in Url,
         row' = [row EXCEPT ![c] = u],
         CancelLoad(c), SetImageAtOnce(c, u),
         adding = 0, UNCHANGED <<URLOperations, adding, overtaken, cacheVars, mainQueue>>
  PROVE  IInv'
<1> USE DEF SetImageAtOnce, cacheVars
<1>0. TypeOK /\ CallbacksRight
  BY DEF IInv
<1>1. Reused(c) /\ Len(loads') = Len(loads) /\ DOMAIN loads' = DOMAIN loads
  BY <1>0, WithoutFacts, Shape DEF Reused
<1>2. CallbacksRight' /\ BlocksRight' /\ OperationsRight'
  BY <1>1, CancelKeeps
<1>3. /\ downloads' \in Seq(Download) /\ Len(downloads') = Len(downloads)
      /\ DOMAIN downloads' = DOMAIN downloads
  BY <1>0, CancelFacts
<1>4. TypeOK'
  BY <1>0, <1>1, <1>3 DEF TypeOK, Reused
<1>5. PosterOfRow'
  BY <1>0, PosterAssumption DEF IInv, PosterOfRow, TypeOK
<1>6. LatestRight'
  <2>1. \A d \in Cell : latest'[d] # 0 => latest'[d] = latest[d] /\ d # c /\ latest[d] \in DOMAIN loads
    BY <1>0, Shape DEF TypeOK
  <2>2. \A d \in Cell : latest'[d] # 0 => loads'[latest'[d]].cell = d /\ Active(latest[d])'
    BY <1>0, <1>1, <2>1 DEF IInv, LatestRight, Reused, Active
  <2>3. ASSUME NEW l \in DOMAIN loads, Active(l)'
        PROVE  /\ latest'[loads'[l].cell] = l
               /\ row'[loads'[l].cell] \in {loads'[l].url, NoUrl}
    <3>1. l # latest[c] /\ Active(l)
      BY <1>1, <2>3 DEF Reused, Active
    <3>2. loads[l].cell \in Cell /\ loads[l].cell # c
      BY <1>0, <3>1, Shape DEF IInv, LatestRight, Load
    <3> QED BY <1>0, <1>1, <3>1, <3>2 DEF IInv, LatestRight, Reused, TypeOK
  <2> QED BY <1>1, <2>2, <2>3 DEF LatestRight, Active
<1>7. QueriesInOrder'
  BY <1>0, <1>1, <1>3, Shape DEF IInv, QueriesInOrder, Queries, Reused
<1>8. JoinRight'
  BY DEF JoinRight
<1> QED BY <1>2, <1>4, <1>5, <1>6, <1>7, <1>8 DEF IInv

(* A row whose image is to be loaded. *)
LEMMA LoadImageIInv ==
  ASSUME IInv, NEW c \in Cell, NEW u \in Url,
         row' = [row EXCEPT ![c] = u],
         CancelLoad(c), LoadImage(c, u),
         adding = 0, UNCHANGED <<URLOperations, adding, overtaken, cacheVars, mainQueue>>
  PROVE  IInv'
<1> DEFINE n == Len(loads) + 1
           new == [cell |-> c, url |-> u, state |-> "cache"]
<1> USE DEF LoadImage, cacheVars
<1>0. TypeOK /\ CallbacksRight
  BY DEF IInv
<1>a. /\ new \in Load
      /\ loads' \in Seq(Load) /\ Len(loads') = n /\ DOMAIN loads' = 1..n /\ loads'[n] = new
      /\ \A l \in DOMAIN loads : loads'[l] = LoadsWithout(c)[l]
  <2> DEFINE t == LoadsWithout(c)
  <2>1. new \in Load
    BY DEF Load
  <2>2. t \in Seq(Load) /\ Len(t) = Len(loads) /\ DOMAIN loads = 1..Len(loads) /\ loads' = Append(t, new)
    BY <1>0, WithoutFacts, Shape
  <2>3. /\ loads' \in Seq(Load) /\ Len(loads') = Len(t) + 1 /\ DOMAIN loads' = 1..(Len(t) + 1)
        /\ loads'[Len(t) + 1] = new /\ \A l \in 1..Len(t) : loads'[l] = t[l]
    <3> HIDE DEF t, new, LoadImage
    <3>1. /\ Append(t, new) \in Seq(Load) /\ Len(Append(t, new)) = Len(t) + 1
          /\ Append(t, new)[Len(t) + 1] = new /\ \A l \in 1..Len(t) : Append(t, new)[l] = t[l]
      BY <2>1, <2>2, AppendProperties
    <3> QED BY <2>2, <3>1, LenProperties
  <2> QED BY <2>1, <2>2, <2>3
<1>b. Len(loads) \in Nat /\ DOMAIN loads = 1..Len(loads) /\ n \in DOMAIN loads' /\ n \notin DOMAIN loads
  BY <1>0, <1>a, Shape
<1>1. Reused(c)
  BY <1>0, <1>a, <1>b, WithoutFacts DEF Reused
<1>2. CallbacksRight' /\ BlocksRight' /\ OperationsRight'
  BY <1>1, CancelKeeps
<1>3. /\ downloads' \in Seq(Download) /\ Len(downloads') = Len(downloads)
      /\ DOMAIN downloads' = DOMAIN downloads
  BY <1>0, CancelFacts
<1>c. /\ ioQueue' \in Seq(DOMAIN loads') /\ Len(ioQueue') = Len(ioQueue) + 1 /\ DOMAIN ioQueue' = 1..(Len(ioQueue) + 1)
      /\ ioQueue'[Len(ioQueue) + 1] = n /\ \A i \in DOMAIN ioQueue : ioQueue'[i] = ioQueue[i]
  <2>1. ioQueue \in Seq(DOMAIN loads') /\ n \in DOMAIN loads'
    BY <1>0, <1>1, <1>b, SeqMonotonic DEF TypeOK, Reused
  <2> QED BY <1>0, <2>1, AppendProperties, Shape
<1> HIDE DEF new
<1>4. TypeOK'
  <2>1. n <= MaxLoads /\ n \in Nat
    BY <1>b, PosterAssumption
  <2>2. latest' \in [Cell -> 0..n]
    BY <1>0, <1>b DEF TypeOK
  <2>3. overtaken' \subseteq DOMAIN loads'
    BY <1>0, <1>1 DEF TypeOK, Reused
  <2> QED BY <1>0, <1>a, <1>b, <1>c, <1>3, <2>1, <2>2, <2>3 DEF TypeOK
<1>5. PosterOfRow'
  BY <1>0, PosterAssumption DEF IInv, PosterOfRow, TypeOK
<1>6. LatestRight'
  <2>0. new.cell = c /\ new.url = u /\ new.state = "cache"
    BY DEF new
  <2>1. ASSUME NEW d \in Cell, d # c, latest[d] # 0
        PROVE  latest'[d] = latest[d] /\ latest[d] \in DOMAIN loads /\ latest[d] # latest[c]
    <3>1. latest'[d] = latest[d] /\ latest[d] \in DOMAIN loads
      BY <1>0, <1>b, <2>1 DEF TypeOK
    <3>2. loads[latest[d]].cell = d /\ (latest[c] # 0 => loads[latest[c]].cell = c)
      BY <2>1 DEF IInv, LatestRight
    <3> QED BY <2>1, <3>1, <3>2
  <2>2. ASSUME NEW d \in Cell, latest'[d] # 0
        PROVE  loads'[latest'[d]].cell = d /\ Active(latest[d])'
    <3>1. CASE d = c
      <4>1. latest'[d] = n
        BY <1>0, <3>1 DEF TypeOK
      <4> QED BY <1>a, <2>0, <3>1, <4>1 DEF Active
    <3>2. CASE d # c
      <4>1. latest[d] # 0
        BY <1>0, <2>2, <3>2 DEF TypeOK
      <4>2. latest'[d] = latest[d] /\ latest[d] \in DOMAIN loads /\ latest[d] # latest[c]
        BY <2>1, <3>2, <4>1
      <4>3. loads[latest[d]].cell = d /\ Active(latest[d])
        BY <4>1 DEF IInv, LatestRight
      <4> QED BY <1>1, <4>2, <4>3 DEF Reused, Active
    <3> QED BY <3>1, <3>2
  <2>3. ASSUME NEW l \in DOMAIN loads', Active(l)'
        PROVE  /\ latest'[loads'[l].cell] = l
               /\ row'[loads'[l].cell] \in {loads'[l].url, NoUrl}
    <3>1. CASE l = n
      BY <1>0, <1>a, <2>0, <3>1 DEF TypeOK
    <3>2. CASE l # n
      <4>0. l \in DOMAIN loads
        BY <1>a, <1>b, <3>2
      <4>1. l # latest[c] /\ Active(l)
        BY <1>1, <2>3, <4>0 DEF Reused, Active
      <4>2. loads[l].cell \in Cell /\ loads[l].cell # c
        BY <1>0, <4>0, <4>1, Shape DEF IInv, LatestRight, Load
      <4>3. latest[loads[l].cell] = l /\ row[loads[l].cell] \in {loads[l].url, NoUrl}
        BY <4>0, <4>1 DEF IInv, LatestRight
      <4> QED BY <1>0, <1>1, <4>0, <4>1, <4>2, <4>3 DEF Reused, TypeOK
    <3> QED BY <3>1, <3>2
  <2> QED BY <2>2, <2>3 DEF LatestRight, Active
<1>7. QueriesInOrder'
  <2>0. new.state = "cache" /\ Len(downloads) < n /\ Len(downloads) \in Nat
    BY <1>0, <1>b, Shape DEF new, TypeOK
  <2>1. \A i \in DOMAIN ioQueue' : /\ loads'[ioQueue'[i]].state \in {"cache", "cancelled"}
                                   /\ Len(downloads') < ioQueue'[i]
    <3>1. \A i \in DOMAIN ioQueue : /\ loads'[ioQueue[i]].state \in {"cache", "cancelled"}
                                    /\ Len(downloads) < ioQueue[i]
      BY <1>0, <1>1, Shape DEF IInv, QueriesInOrder, Reused
    <3>2. loads'[n].state = "cache"
      BY <1>a, <2>0
    <3> HIDE DEF n, LoadImage
    <3> QED BY <1>0, <1>3, <1>c, <2>0, <3>1, <3>2, Shape
  <2>2. \A i, j \in DOMAIN ioQueue' : i < j => ioQueue'[i] < ioQueue'[j]
    BY <1>0, <1>b, <1>c, Shape DEF IInv, QueriesInOrder
  <2>3. \A i \in Queries : mainQueue[i].load \in DOMAIN loads
    BY DEF IInv, BlocksRight
  <2>4. \A i \in Queries, j \in DOMAIN ioQueue' : mainQueue[i].load < ioQueue'[j]
    BY <1>0, <1>b, <1>c, <2>3, Shape DEF IInv, QueriesInOrder
  <2> QED BY <1>3, <2>1, <2>2, <2>4 DEF IInv, QueriesInOrder, Queries
<1>8. JoinRight'
  BY DEF JoinRight
<1> QED BY <1>2, <1>4, <1>5, <1>6, <1>7, <1>8 DEF IInv

(* The exception: a row whose poster is no URL lets the load under way go  *)
(* on.                                                                     *)
LEMMA SetNoImageIInv ==
  ASSUME IInv, NEW c \in Cell,
         row' = [row EXCEPT ![c] = NoUrl], SetNoImage(c)
  PROVE  IInv'
<1> USE DEF SetNoImage, downloadVars, cacheVars
<1>0. TypeOK
  BY DEF IInv
<1>1. TypeOK'
  BY <1>0 DEF TypeOK
<1>2. PosterOfRow'
  BY <1>0, PosterAssumption DEF IInv, PosterOfRow, TypeOK
<1>3. LatestRight'
  BY <1>0, Shape DEF IInv, LatestRight, Active, TypeOK, Load
<1>4. CallbacksRight' /\ BlocksRight' /\ QueriesInOrder' /\ OperationsRight'
  BY DEF IInv, CallbacksRight, BlocksRight, QueriesInOrder, OperationsRight, OperationRight, Displaced,
         Live, Queries, Answers
<1>5. JoinRight'
  BY DEF IInv, JoinRight, Queries
<1> QED BY <1>1, <1>2, <1>3, <1>4, <1>5 DEF IInv

LEMMA CellForRowIInv ==
  ASSUME IInv, NEW c \in Cell, NEW poster \in Url \union {NoUrl}, CellForRow(c, poster)
  PROVE  IInv'
<1>1. CASE poster = NoUrl
  BY <1>1, SetNoImageIInv DEF CellForRow
<1>2. CASE poster # NoUrl
  BY <1>2, SetImageAtOnceIInv, LoadImageIInv DEF CellForRow, SetImage
<1> QED BY <1>1, <1>2

-------------------------------------------------------------------------------
(* The cache. *)

LEMMA EvictIInv ==
  ASSUME IInv, NEW u \in Url, Evict(u)
  PROVE  IInv'
<1>1. UNCHANGED <<row, image, latest, loads, downloads, URLOperations, adding, overtaken, failedURLs, ioQueue, mainQueue>>
  BY DEF Evict, viewVars, downloadVars
<1>2. TypeOK'
  BY <1>1 DEF IInv, TypeOK, Evict
<1> QED BY <1>1, <1>2
  DEF IInv, PosterOfRow, LatestRight, Active, CallbacksRight, BlocksRight, QueriesInOrder, OperationsRight,
      OperationRight, Displaced, Live, Queries, Answers, JoinRight

(* The query at the head of the disk's queue is answered behind the        *)
(* answers there are, or forgotten.                                        *)
LEMMA QueryDiskIInv ==
  ASSUME IInv, NEW found \in BOOLEAN, QueryDisk(found)
  PROVE  IInv'
<1> DEFINE l == Head(ioQueue)
           b == [type |-> "queried", load |-> l, found |-> found]
<1>0. TypeOK
  BY DEF IInv
<1>1. /\ UNCHANGED <<row, image, latest, loads, downloads, URLOperations, adding, overtaken, failedURLs>>
      /\ ioQueue # <<>> /\ ioQueue' = Tail(ioQueue)
  BY DEF QueryDisk, viewVars, downloadVars
<1>2. /\ l = ioQueue[1] /\ l \in DOMAIN loads /\ loads[l].state \in {"cache", "cancelled"}
      /\ Len(downloads) < l /\ 1 \in DOMAIN ioQueue
      /\ ioQueue' \in Seq(DOMAIN loads) /\ DOMAIN ioQueue' = 1..(Len(ioQueue) - 1)
      /\ \A i \in DOMAIN ioQueue' : i + 1 \in DOMAIN ioQueue /\ ioQueue'[i] = ioQueue[i + 1] /\ l < ioQueue'[i]
  <2>1. /\ l = ioQueue[1] /\ Len(ioQueue) > 0 /\ ioQueue' \in Seq(DOMAIN loads) /\ Len(ioQueue') = Len(ioQueue) - 1
        /\ \A i \in 1..(Len(ioQueue) - 1) : ioQueue'[i] = ioQueue[i + 1]
    BY <1>0, <1>1, HeadTailProperties, EmptySeq, Shape DEF TypeOK
  <2>2. DOMAIN ioQueue' = 1..(Len(ioQueue) - 1) /\ DOMAIN ioQueue = 1..Len(ioQueue) /\ Len(ioQueue) \in Nat
    BY <1>0, <2>1, LenProperties, Shape
  <2>3. 1 \in DOMAIN ioQueue /\ ioQueue[1] \in DOMAIN loads
    BY <1>0, <2>1, <2>2, Shape
  <2>4. loads[ioQueue[1]].state \in {"cache", "cancelled"} /\ Len(downloads) < ioQueue[1]
    BY <2>3 DEF IInv, QueriesInOrder
  <2>5. ASSUME NEW i \in DOMAIN ioQueue'
        PROVE  i + 1 \in DOMAIN ioQueue /\ ioQueue'[i] = ioQueue[i + 1] /\ ioQueue[1] < ioQueue'[i]
    <3>1. i + 1 \in DOMAIN ioQueue /\ ioQueue'[i] = ioQueue[i + 1] /\ 1 < i + 1
      BY <2>1, <2>2, <2>5
    <3> QED BY <2>3, <3>1 DEF IInv, QueriesInOrder
  <2> QED BY <2>1, <2>2, <2>3, <2>4, <2>5
<1> HIDE DEF l
<1>a. /\ \A i \in DOMAIN ioQueue' :
           /\ loads'[ioQueue'[i]].state \in {"cache", "cancelled"} /\ Len(downloads') < ioQueue'[i]
           /\ \A j \in DOMAIN ioQueue' : i < j => ioQueue'[i] < ioQueue'[j]
      /\ \A i \in Queries : /\ mainQueue[i].load < l
                            /\ \A j \in DOMAIN ioQueue' : mainQueue[i].load < ioQueue'[j]
  <2>1. ASSUME NEW i \in DOMAIN ioQueue', NEW j \in DOMAIN ioQueue', i < j
        PROVE  ioQueue'[i] < ioQueue'[j]
    <3>1. i + 1 < j + 1
      BY <1>2, <2>1
    <3> QED BY <1>2, <3>1 DEF IInv, QueriesInOrder
  <2>2. ASSUME NEW i \in DOMAIN ioQueue'
        PROVE  loads'[ioQueue'[i]].state \in {"cache", "cancelled"} /\ Len(downloads') < ioQueue'[i]
    BY <1>1, <1>2 DEF IInv, QueriesInOrder
  <2>3. ASSUME NEW i \in Queries
        PROVE  mainQueue[i].load < l /\ \A j \in DOMAIN ioQueue' : mainQueue[i].load < ioQueue'[j]
    BY <1>2 DEF IInv, QueriesInOrder
  <2> QED BY <2>1, <2>2, <2>3
<1>b. adding # 0 => /\ loads[adding].state = "cache" /\ URLOperations[loads[adding].url] # 0 /\ adding < l
                    /\ \A i \in DOMAIN ioQueue' : adding < ioQueue'[i]
                    /\ \A i \in Queries : adding < mainQueue[i].load
  BY <1>2 DEF IInv, JoinRight
<1>3. CASE Cancelled(l)
  <2>1. UNCHANGED <<memory, mainQueue>>
    BY <1>3 DEF QueryDisk, l
  <2>2. TypeOK'
    BY <1>0, <1>1, <1>2, <2>1 DEF TypeOK
  <2>3. QueriesInOrder' /\ JoinRight'
    BY <1>1, <1>a, <1>b, <2>1 DEF IInv, QueriesInOrder, Queries, JoinRight
  <2> QED BY <1>1, <2>1, <2>2, <2>3
    DEF IInv, PosterOfRow, LatestRight, Active, CallbacksRight, BlocksRight, OperationsRight,
        OperationRight, Displaced, Live, Queries, Answers
<1>4. CASE ~Cancelled(l)
  <2> DEFINE n == Len(mainQueue) + 1
  <2>1. /\ memory' = (IF found THEN memory \union {loads[l].url} ELSE memory)
        /\ mainQueue' = Append(mainQueue, b)
    BY <1>4 DEF QueryDisk, l
  <2>2. b \in Block /\ loads[l].url \in Url
    <3>1. l \in 1..MaxLoads
      BY <1>0, <1>2, Shape, PosterAssumption DEF TypeOK
    <3> QED BY <1>0, <1>2, <3>1, Shape DEF Block, Load
  <2>3. b.type = "queried" /\ b.load = l
    OBVIOUS
  <2>4. /\ mainQueue' \in Seq(Block) /\ DOMAIN mainQueue' = 1..n /\ Len(mainQueue) \in Nat
        /\ DOMAIN mainQueue = 1..Len(mainQueue)
        /\ mainQueue'[n] = b /\ \A i \in DOMAIN mainQueue : mainQueue'[i] = mainQueue[i]
    <3> HIDE DEF b
    <3> QED BY <1>0, <2>1, <2>2, AppendProperties, LenProperties, Shape DEF TypeOK
  <2> HIDE DEF b
  <2>5. Queries' = Queries \union {n} /\ Answers' = Answers /\ Queries \subseteq 1..Len(mainQueue)
        /\ Answers \subseteq 1..Len(mainQueue)
    BY <2>3, <2>4 DEF Queries, Answers
  <2>6. TypeOK'
    BY <1>0, <1>1, <1>2, <2>1, <2>2, <2>4 DEF TypeOK
  <2>a. mainQueue'[n].load = l /\ n \notin Queries /\ n \notin Answers
        /\ (\A i \in Queries : mainQueue'[i] = mainQueue[i] /\ i < n)
        /\ (\A i \in Answers : mainQueue'[i] = mainQueue[i])
    <3>1. \A i \in 1..Len(mainQueue) : i < n /\ i # n
      BY <2>4
    <3> QED BY <2>3, <2>4, <2>5, <3>1
  <2>7. BlocksRight'
    BY <1>1, <1>2, <2>5, <2>a DEF IInv, BlocksRight
  <2>8. QueriesInOrder'
    <3>1. \A i \in Queries : Len(downloads') < mainQueue'[i].load
      BY <1>1, <2>a DEF IInv, QueriesInOrder
    <3>2. \A i \in Queries, j \in Queries' : i < j => mainQueue'[i].load < mainQueue'[j].load
      BY <1>a, <2>5, <2>a DEF IInv, QueriesInOrder
    <3>3. \A j \in Queries' : ~(n < j)
      BY <2>4, <2>5
    <3>4. \A i \in Queries', j \in DOMAIN ioQueue' : mainQueue'[i].load < ioQueue'[j]
      BY <1>2, <1>a, <2>5, <2>a
    <3>5. Len(downloads') < mainQueue'[n].load
      BY <1>1, <1>2, <2>a
    <3> QED BY <1>a, <2>5, <3>1, <3>2, <3>3, <3>4, <3>5 DEF QueriesInOrder
  <2>9. JoinRight'
    BY <1>1, <1>b, <2>5, <2>a DEF JoinRight
  <2> QED BY <1>1, <2>1, <2>6, <2>7, <2>8, <2>9
    DEF IInv, PosterOfRow, LatestRight, Active, CallbacksRight, OperationsRight,
        OperationRight, Displaced, Live
<1> QED BY <1>3, <1>4

-------------------------------------------------------------------------------
(* The operations of the downloader. *)

(* The operation d becomes op: it loses its callbacks as it finishes, or   *)
(* goes on with them, and then it had not answered yet.                    *)
OperationBecomes(d, op) ==
  /\ downloads' = [downloads EXCEPT ![d] = op]
  /\ op \in Download /\ op.url = downloads[d].url /\ op.cancelled = downloads[d].cancelled
  /\ downloads[d].state # "removed" /\ (Finished(downloads[d]) => Finished(op))
  /\ \/ op.callbackBlocks = {} /\ op.state = "finished"
     \/ /\ op.callbackBlocks = downloads[d].callbackBlocks /\ downloads[d].state # "answered"
        /\ op.state # "pending" /\ (op.state = "executing" => downloads[d].state = "pending")

LEMMA OperationFacts ==
  ASSUME TypeOK, NEW d \in DOMAIN downloads, NEW op, OperationBecomes(d, op)
  PROVE  /\ downloads' \in Seq(Download) /\ Len(downloads') = Len(downloads)
         /\ DOMAIN downloads' = DOMAIN downloads /\ downloads'[d] = op
         /\ \A e \in DOMAIN downloads : e # d => downloads'[e] = downloads[e]
<1>1. DOMAIN downloads' = DOMAIN downloads /\ downloads' = [e \in DOMAIN downloads' |-> downloads'[e]]
      /\ downloads'[d] = op /\ \A e \in DOMAIN downloads : e # d => downloads'[e] = downloads[e]
  BY DEF OperationBecomes
<1>2. \A e \in DOMAIN downloads : downloads'[e] \in Download
  BY <1>1, Shape DEF OperationBecomes
<1>3. downloads' \in Seq(Download) /\ Len(downloads') = Len(downloads)
  BY <1>1, <1>2, MappedSeq DEF TypeOK
<1> QED BY <1>1, <1>3

LEMMA OperationKeeps ==
  ASSUME IInv, NEW d \in DOMAIN downloads, NEW op, OperationBecomes(d, op),
         UNCHANGED <<loads, row, image, latest>>
  PROVE  /\ PosterOfRow' /\ LatestRight' /\ CallbacksRight'
         /\ UNCHANGED URLOperations => OperationsRight'
<1>0. TypeOK /\ CallbacksRight
  BY DEF IInv
<1>1. /\ DOMAIN downloads' = DOMAIN downloads /\ downloads'[d] = op
      /\ \A e \in DOMAIN downloads : e # d => downloads'[e] = downloads[e]
  BY <1>0, OperationFacts
<1>2. PosterOfRow' /\ LatestRight'
  BY DEF IInv, PosterOfRow, LatestRight, Active
<1>3. \A e \in DOMAIN downloads : downloads'[e].url = downloads[e].url
  BY <1>1 DEF OperationBecomes
<1>4. CallbacksRight'
  <2>1. \A e \in DOMAIN downloads : downloads'[e].callbackBlocks \subseteq downloads[e].callbackBlocks
    BY <1>1 DEF OperationBecomes
  <2>2. ASSUME NEW e \in DOMAIN downloads, NEW l \in downloads'[e].callbackBlocks
        PROVE  /\ l \in DOMAIN loads /\ loads[l].url = downloads[e].url
               /\ \/ loads[l].state = "download"
                  \/ loads[l].state = "done" /\ downloads'[e].state = "answered"
                  \/ loads[l].state = "cancelled" /\ Finished(downloads'[e])
    BY <1>0, <1>1, <2>1 DEF CallbacksRight, OperationBecomes
  <2>3. \A e, f \in DOMAIN downloads :
          e # f => downloads'[e].callbackBlocks \intersect downloads'[f].callbackBlocks = {}
    BY <1>0, <2>1 DEF CallbacksRight
  <2> QED BY <1>1, <1>3, <2>2, <2>3 DEF CallbacksRight
<1>5. ASSUME UNCHANGED URLOperations PROVE OperationsRight'
  <2>a. \A u \in Url : URLOperations[u] # 0 => downloads'[URLOperations[u]].url = u
    <3>1. \A u \in Url : URLOperations[u] # 0 => URLOperations[u] \in DOMAIN downloads
      BY <1>0, Shape DEF TypeOK
    <3> QED BY <1>3, <3>1 DEF IInv, OperationsRight
  <2> SUFFICES ASSUME NEW e \in DOMAIN downloads, Live(e)' PROVE OperationRight(e)'
    BY <1>1, <1>5, <2>a DEF OperationsRight
  <2>1. Live(e) /\ downloads'[e].callbackBlocks = downloads[e].callbackBlocks
    BY <1>1 DEF Live, OperationBecomes
  <2>2. OperationRight(e)
    BY <2>1 DEF IInv, OperationsRight
  <2>3. Displaced(e) => Displaced(e)'
    BY <1>0, <1>1, <1>3, Shape DEF Displaced, OperationBecomes
  <2> QED BY <1>1, <1>3, <1>5, <2>1, <2>2, <2>3 DEF OperationRight
<1> QED BY <1>2, <1>4, <1>5

(* A step of an operation that tells nobody. *)
LEMMA QuietOperationIInv ==
  ASSUME IInv, NEW d \in DOMAIN downloads, NEW op, OperationBecomes(d, op),
         UNCHANGED <<row, image, latest, loads, URLOperations, adding, overtaken, memory, failedURLs, ioQueue, mainQueue>>
  PROVE  IInv'
<1>0. TypeOK
  BY DEF IInv
<1>1. /\ downloads' \in Seq(Download) /\ Len(downloads') = Len(downloads)
      /\ DOMAIN downloads' = DOMAIN downloads /\ downloads'[d] = op
      /\ \A e \in DOMAIN downloads : e # d => downloads'[e] = downloads[e]
  BY <1>0, OperationFacts
<1>2. PosterOfRow' /\ LatestRight' /\ CallbacksRight' /\ OperationsRight'
  BY OperationKeeps
<1>3. TypeOK'
  BY <1>0, <1>1 DEF TypeOK
<1>4. BlocksRight'
  BY <1>1 DEF IInv, BlocksRight, Queries, Answers, OperationBecomes
<1>5. QueriesInOrder' /\ JoinRight'
  BY <1>1 DEF IInv, QueriesInOrder, Queries, JoinRight
<1> QED BY <1>2, <1>3, <1>4, <1>5 DEF IInv

LEMMA StateBecomes ==
  ASSUME TypeOK, NEW d \in DOMAIN downloads, NEW st \in {"executing", "decoding", "answered", "finished"},
         downloads[d].state \notin {"answered", "finished", "removed"},
         st = "executing" => downloads[d].state = "pending",
         downloads' = [downloads EXCEPT ![d].state = st]
  PROVE  OperationBecomes(d, [downloads[d] EXCEPT !.state = st])
<1>1. downloads[d] \in Download
  BY Shape
<1> QED BY <1>1 DEF OperationBecomes, Download, Finished

LEMMA StartIInv ==
  ASSUME IInv, NEW d \in DOMAIN downloads, Start(d)
  PROVE  IInv'
BY StateBecomes, QuietOperationIInv DEF IInv, Start, Becomes, viewVars, cacheVars

LEMMA ReceiveIInv ==
  ASSUME IInv, NEW d \in DOMAIN downloads, Receive(d)
  PROVE  IInv'
BY StateBecomes, QuietOperationIInv DEF IInv, Receive, Becomes, viewVars, cacheVars

LEMMA DoneIInv ==
  ASSUME IInv, NEW d \in DOMAIN downloads, Done(d)
  PROVE  IInv'
<1> DEFINE op == [downloads[d] EXCEPT !.state = "finished", !.callbackBlocks = {}]
<1>1. downloads[d] \in Download
  BY Shape DEF IInv
<1>2. downloads' = [downloads EXCEPT ![d] = op]
  BY <1>1 DEF Done, Download
<1>3. OperationBecomes(d, op)
  BY <1>1, <1>2 DEF OperationBecomes, Download, Done, Finished
<1> QED BY <1>3, QuietOperationIInv DEF Done, viewVars, cacheVars

(* The completion block takes the operation of its URL out of the table.   *)
(* One that still runs and was there is newer, and displaced from now on.  *)
LEMMA RemoveOperationIInv ==
  ASSUME IInv, NEW d \in DOMAIN downloads, RemoveOperation(d)
  PROVE  IInv'
<1> DEFINE op == [downloads[d] EXCEPT !.state = "removed"]
<1>0. TypeOK
  BY DEF IInv
<1>1. downloads[d] \in Download /\ downloads[d].state = "finished"
  BY <1>0, Shape DEF RemoveOperation
<1>2. OperationBecomes(d, op)
  BY <1>1 DEF OperationBecomes, RemoveOperation, Download, Finished
<1>a. op.state = "removed" /\ op.url = downloads[d].url
  BY <1>1 DEF Download
<1> HIDE DEF op
<1>3. /\ downloads' \in Seq(Download) /\ Len(downloads') = Len(downloads)
      /\ DOMAIN downloads' = DOMAIN downloads /\ downloads'[d] = op
      /\ \A e \in DOMAIN downloads : e # d => downloads'[e] = downloads[e]
  BY <1>0, <1>2, OperationFacts
<1>4. PosterOfRow' /\ LatestRight' /\ CallbacksRight'
  BY <1>2, OperationKeeps DEF RemoveOperation, viewVars
<1>5. TypeOK'
  <2>1. downloads[d].url \in Url
    BY <1>1 DEF Download
  <2>2. URLOperations' \in [Url -> 0..Len(downloads)]
    BY <1>0, <2>1, Shape DEF TypeOK, RemoveOperation
  <2> QED BY <1>0, <1>3, <2>2 DEF TypeOK, RemoveOperation, viewVars, cacheVars
<1>6. BlocksRight' /\ QueriesInOrder'
  BY <1>2, <1>3 DEF IInv, BlocksRight, QueriesInOrder, Queries, Answers, RemoveOperation, OperationBecomes
<1>7. JoinRight'
  BY DEF JoinRight, RemoveOperation
<1>8. OperationsRight'
  <2>a. \A u \in Url : URLOperations'[u] # 0 => downloads'[URLOperations'[u]].url = u
    <3>1. \A e \in DOMAIN downloads : downloads'[e].url = downloads[e].url
      BY <1>2, <1>3 DEF OperationBecomes
    <3>2. \A u \in Url : URLOperations'[u] # 0 => URLOperations'[u] = URLOperations[u]
      BY <1>0 DEF RemoveOperation, TypeOK
    <3>3. \A u \in Url : URLOperations[u] # 0 => URLOperations[u] \in DOMAIN downloads
      BY <1>0, Shape DEF TypeOK
    <3> QED BY <3>1, <3>2, <3>3 DEF IInv, OperationsRight
  <2> SUFFICES ASSUME NEW e \in DOMAIN downloads, Live(e)' PROVE OperationRight(e)'
    BY <1>3, <2>a DEF OperationsRight
  <2>1. e # d /\ Live(e) /\ downloads'[e] = downloads[e]
    BY <1>3, <1>a DEF Live
  <2>2. OperationRight(e)
    BY <2>1 DEF IInv, OperationsRight
  <2>3. \A f \in DOMAIN downloads : downloads'[f].url = downloads[f].url
    BY <1>2, <1>3 DEF OperationBecomes
  <2>4. CASE Displaced(e)
    <3>1. Displaced(e)'
      BY <1>0, <1>1, <1>3, <2>1, <2>4, Shape DEF Displaced
    <3> QED BY <2>1, <2>2, <3>1 DEF OperationRight
  <2>5. CASE ~Displaced(e) /\ downloads[d].url = downloads[e].url
    <3>1. ~(e < d)
      BY <2>2, <2>5 DEF OperationRight
    <3>2. d \in 1..(e - 1)
      BY <1>0, <2>1, <3>1, Shape
    <3>3. Displaced(e)'
      BY <1>3, <1>a, <2>1, <2>5, <3>2 DEF Displaced
    <3> QED BY <2>1, <2>2, <3>3 DEF OperationRight
  <2>6. CASE ~Displaced(e) /\ downloads[d].url # downloads[e].url
    <3>1. URLOperations'[downloads[e].url] = URLOperations[downloads[e].url]
      BY <1>0, <1>1, <2>1, <2>6, Shape DEF RemoveOperation, TypeOK, Download
    <3> QED BY <1>3, <2>1, <2>2, <2>3, <2>6, <3>1 DEF OperationRight
  <2> QED BY <2>4, <2>5, <2>6
<1> QED BY <1>4, <1>5, <1>6, <1>7, <1>8 DEF IInv

(* An operation answers: a block tells the callbacks it has now. *)
LEMMA CallCompletionBlocksIInv ==
  ASSUME IInv, NEW d \in DOMAIN downloads, NEW outcome \in Outcome,
         downloads[d].state \in {"executing", "decoding"}, CallCompletionBlocks(d, outcome)
  PROVE  IInv'
<1> DEFINE op == [downloads[d] EXCEPT !.state = "answered"]
           b == [type |-> "completed", url |-> downloads[d].url, loads |-> downloads[d].callbackBlocks,
                 outcome |-> outcome]
           n == Len(mainQueue) + 1
<1>0. TypeOK
  BY DEF IInv
<1>1. OperationBecomes(d, op)
  BY <1>0, StateBecomes DEF CallCompletionBlocks, Becomes
<1>2. downloads[d] \in Download
  BY <1>0, Shape
<1>3. op.state = "answered" /\ op.callbackBlocks = downloads[d].callbackBlocks
  BY <1>2 DEF Download
<1>4. /\ mainQueue' = Append(mainQueue, b)
      /\ UNCHANGED <<row, image, latest, loads, URLOperations, adding, memory, failedURLs, ioQueue>>
      /\ overtaken' \subseteq overtaken \union ({adding} \ {0})
  BY DEF CallCompletionBlocks, Becomes, viewVars, cacheVars
<1>5. b \in Block /\ b.type = "completed" /\ b.url = downloads[d].url /\ b.loads = downloads[d].callbackBlocks
  BY <1>2 DEF Download, Block
<1> HIDE DEF op, b
<1>6. /\ downloads' \in Seq(Download) /\ Len(downloads') = Len(downloads)
      /\ DOMAIN downloads' = DOMAIN downloads /\ downloads'[d] = op
      /\ \A e \in DOMAIN downloads : e # d => downloads'[e] = downloads[e]
  BY <1>0, <1>1, OperationFacts
<1>7. /\ mainQueue' \in Seq(Block) /\ DOMAIN mainQueue' = 1..n /\ mainQueue'[n] = b
      /\ DOMAIN mainQueue = 1..Len(mainQueue) /\ Len(mainQueue) \in Nat
      /\ \A i \in DOMAIN mainQueue : mainQueue'[i] = mainQueue[i]
  BY <1>0, <1>4, <1>5, AppendProperties, LenProperties, Shape DEF TypeOK
<1>8. /\ \A i \in 1..Len(mainQueue) : i < n /\ i # n
      /\ Queries' = Queries /\ Answers' = Answers \union {n}
      /\ \A i \in Queries \union Answers : mainQueue'[i] = mainQueue[i] /\ i # n
  <2>1. \A i \in 1..Len(mainQueue) : i < n /\ i # n
    BY <1>7
  <2> QED BY <1>5, <1>7, <2>1 DEF Queries, Answers
<1>9. PosterOfRow' /\ LatestRight' /\ CallbacksRight' /\ OperationsRight'
  BY <1>1, <1>4, OperationKeeps
<1>10. TypeOK'
  <2>1. overtaken' \subseteq DOMAIN loads
    BY <1>0, <1>4, Shape DEF TypeOK
  <2> QED BY <1>0, <1>4, <1>6, <1>7, <2>1 DEF TypeOK
<1>11. QueriesInOrder' /\ JoinRight'
  <2>1. \A i \in Queries' : i \in Queries /\ mainQueue'[i] = mainQueue[i]
    BY <1>8
  <2>2. Len(downloads') = Len(downloads) /\ UNCHANGED <<loads, ioQueue>>
    BY <1>4, <1>6
  <2> QED BY <1>4, <2>1, <2>2 DEF IInv, QueriesInOrder, JoinRight
<1>12. BlocksRight'
  <2>1. \A i \in Answers : mainQueue[i].loads \intersect downloads[d].callbackBlocks = {}
    BY DEF IInv, BlocksRight
  <2>2. ASSUME NEW l \in downloads[d].callbackBlocks
        PROVE  /\ l \in DOMAIN loads /\ loads[l].url = downloads[d].url /\ loads[l].state = "download"
               /\ \A e \in DOMAIN downloads : l \in downloads'[e].callbackBlocks => downloads'[e].state = "answered"
    BY <1>3, <1>6 DEF IInv, CallbacksRight, Finished
  <2>3. ASSUME NEW i \in Answers, NEW l \in mainQueue[i].loads
        PROVE  /\ l \in DOMAIN loads /\ loads[l].url = mainQueue[i].url
               /\ loads[l].state \in {"download", "cancelled"}
               /\ \A e \in DOMAIN downloads : l \in downloads'[e].callbackBlocks => downloads'[e].state = "answered"
    BY <1>3, <1>6 DEF IInv, BlocksRight
  <2>4. \A i \in Queries' : /\ mainQueue'[i].load \in DOMAIN loads'
                            /\ loads'[mainQueue'[i].load].state \in {"cache", "cancelled"}
    BY <1>4, <1>8 DEF IInv, BlocksRight
  <2>5. ASSUME NEW i \in Answers', NEW l \in mainQueue'[i].loads
        PROVE  /\ l \in DOMAIN loads' /\ loads'[l].url = mainQueue'[i].url
               /\ loads'[l].state \in {"download", "cancelled"}
               /\ \A e \in DOMAIN downloads' :
                    l \in downloads'[e].callbackBlocks => downloads'[e].state = "answered"
    <3>1. CASE i = n
      <4>1. mainQueue'[i].loads = downloads[d].callbackBlocks /\ mainQueue'[i].url = downloads[d].url
        BY <1>5, <1>7, <3>1
      <4> QED BY <1>4, <1>6, <2>2, <2>5, <4>1
    <3>2. CASE i # n
      <4>1. i \in Answers /\ mainQueue'[i] = mainQueue[i]
        BY <1>8, <3>2
      <4> QED BY <1>4, <1>6, <2>3, <2>5, <4>1
    <3> QED BY <3>1, <3>2
  <2>6. \A i, j \in Answers' : i # j => mainQueue'[i].loads \intersect mainQueue'[j].loads = {}
    <3>1. \A i, j \in Answers : i # j => mainQueue[i].loads \intersect mainQueue[j].loads = {}
      BY DEF IInv, BlocksRight
    <3> QED BY <1>5, <1>7, <1>8, <2>1, <3>1
  <2> QED BY <2>4, <2>5, <2>6 DEF BlocksRight
<1> QED BY <1>9, <1>10, <1>11, <1>12 DEF IInv

LEMMA FailIInv ==
  ASSUME IInv, NEW d \in DOMAIN downloads, Fail(d)
  PROVE  IInv'
BY CallCompletionBlocksIInv DEF Fail, Outcome

LEMMA DecodeIInv ==
  ASSUME IInv, NEW d \in DOMAIN downloads, Decode(d)
  PROVE  IInv'
BY CallCompletionBlocksIInv DEF Decode, Outcome

-------------------------------------------------------------------------------
(* The main queue. *)

(* The blocks move up by one. *)
LEMMA TailFacts ==
  ASSUME TypeOK, mainQueue # <<>>, mainQueue' = Tail(mainQueue)
  PROVE  /\ mainQueue' \in Seq(Block) /\ 1 \in DOMAIN mainQueue /\ Head(mainQueue) = mainQueue[1]
         /\ \A i \in DOMAIN mainQueue' : /\ i \in Nat /\ 1 < i + 1 /\ i + 1 \in DOMAIN mainQueue
                                         /\ mainQueue'[i] = mainQueue[i + 1]
<1>1. /\ mainQueue' \in Seq(Block) /\ Len(mainQueue') = Len(mainQueue) - 1
      /\ Head(mainQueue) = mainQueue[1] /\ Len(mainQueue) > 0
      /\ \A i \in 1..(Len(mainQueue) - 1) : mainQueue'[i] = mainQueue[i + 1]
  BY HeadTailProperties, EmptySeq, Shape DEF TypeOK
<1>2. DOMAIN mainQueue' = 1..(Len(mainQueue) - 1) /\ Len(mainQueue) \in Nat /\ DOMAIN mainQueue = 1..Len(mainQueue)
  BY <1>1, LenProperties, Shape
<1> QED BY <1>1, <1>2

(* What remains of the queue after its head asks in the same order, of     *)
(* loads behind that of the head.                                          *)
LEMMA RestInOrder ==
  ASSUME IInv, mainQueue # <<>>, mainQueue' = Tail(mainQueue)
  PROVE  /\ \A i \in Queries' : /\ i + 1 \in Queries /\ mainQueue'[i] = mainQueue[i + 1]
                                /\ 1 \in Queries => mainQueue[1].load < mainQueue'[i].load
                                /\ \A j \in Queries' : i < j => mainQueue'[i].load < mainQueue'[j].load
         /\ \A i \in Answers' : /\ i + 1 \in Answers /\ mainQueue'[i] = mainQueue[i + 1]
                                /\ 1 \in Answers => mainQueue[1].loads \intersect mainQueue'[i].loads = {}
                                /\ \A j \in Answers' : i # j => mainQueue'[i].loads \intersect mainQueue'[j].loads = {}
<1>0. TypeOK
  BY DEF IInv
<1>1. \A i \in DOMAIN mainQueue' : /\ i \in Nat /\ 1 < i + 1 /\ 1 # i + 1 /\ i + 1 \in DOMAIN mainQueue
                                   /\ mainQueue'[i] = mainQueue[i + 1]
  BY <1>0, TailFacts
<1>2. \A i, j \in Nat : (i < j => i + 1 < j + 1) /\ (i # j => i + 1 # j + 1)
  OBVIOUS
<1>3. \A i \in Queries' : i \in Nat /\ 1 < i + 1 /\ i + 1 \in Queries /\ mainQueue'[i] = mainQueue[i + 1]
  BY <1>1 DEF Queries
<1>4. \A i \in Answers' : i \in Nat /\ 1 # i + 1 /\ i + 1 \in Answers /\ mainQueue'[i] = mainQueue[i + 1]
  BY <1>1 DEF Answers
<1>5. /\ \A i, j \in Queries : i < j => mainQueue[i].load < mainQueue[j].load
      /\ \A i, j \in Answers : i # j => mainQueue[i].loads \intersect mainQueue[j].loads = {}
  BY DEF IInv, QueriesInOrder, BlocksRight
<1> QED BY <1>2, <1>3, <1>4, <1>5

(* Of the loads ls, those that are not cancelled. *)
Ended(ls) == {l \in ls : ~Cancelled(l)}

LEMMA EndFacts ==
  ASSUME TypeOK, NEW ls, NEW img, End(ls, img)
  PROVE  /\ loads' \in Seq(Load) /\ Len(loads') = Len(loads) /\ DOMAIN loads' = DOMAIN loads
         /\ \A l \in DOMAIN loads :
              /\ loads'[l].cell = loads[l].cell /\ loads'[l].url = loads[l].url
              /\ loads'[l].state = IF l \in Ended(ls) THEN "done" ELSE loads[l].state
<1>1. DOMAIN loads' = DOMAIN loads /\ loads' = [l \in DOMAIN loads' |-> loads'[l]]
  BY DEF End
<1>2. \A l \in DOMAIN loads :
        /\ loads'[l] \in Load
        /\ loads'[l].cell = loads[l].cell /\ loads'[l].url = loads[l].url
        /\ loads'[l].state = IF l \in Ended(ls) THEN "done" ELSE loads[l].state
  BY Shape DEF End, Ended, Load
<1>3. loads' \in Seq(Load) /\ Len(loads') = Len(loads)
  BY <1>1, <1>2, MappedSeq DEF TypeOK
<1> QED BY <1>1, <1>2, <1>3

(* The views of the loads that end have the row they had when these began, *)
(* or one that is no URL; no operation will tell these loads again.        *)
LEMMA EndKeeps ==
  ASSUME IInv, NEW ls \in SUBSET DOMAIN loads, NEW img \in Url \union {Nothing}, End(ls, img),
         \A l \in Ended(ls) : Active(l) /\ (img # Nothing => loads[l].url = img),
         \A l \in Ended(ls), d \in DOMAIN downloads :
           l \in downloads[d].callbackBlocks => downloads[d].state = "answered",
         UNCHANGED <<row, downloads>>
  PROVE  /\ image' \in [Cell -> Url \union {Nothing, Placeholder}]
         /\ latest' \in [Cell -> 0..Len(loads')]
         /\ PosterOfRow' /\ LatestRight' /\ CallbacksRight'
<1>0. TypeOK
  BY DEF IInv
<1>1. /\ Len(loads') = Len(loads) /\ DOMAIN loads' = DOMAIN loads
      /\ \A l \in DOMAIN loads :
           /\ loads'[l].cell = loads[l].cell /\ loads'[l].url = loads[l].url
           /\ loads'[l].state = IF l \in Ended(ls) THEN "done" ELSE loads[l].state
  BY <1>0, EndFacts
<1>2. /\ latest' = [c \in Cell |-> IF latest[c] \in Ended(ls) THEN 0 ELSE latest[c]]
      /\ image' = [c \in Cell |-> IF img # Nothing /\ \E l \in Ended(ls) : loads[l].cell = c THEN img ELSE image[c]]
  BY DEF End, Ended
<1>3. Ended(ls) \subseteq DOMAIN loads
  BY DEF Ended
<1>4. image' \in [Cell -> Url \union {Nothing, Placeholder}]
  BY <1>0, <1>2 DEF TypeOK
<1>5. latest' \in [Cell -> 0..Len(loads')]
  BY <1>0, <1>1, <1>2, Shape DEF TypeOK
<1>6. PosterOfRow'
  <2> SUFFICES ASSUME NEW c \in Cell, image'[c] \in Url PROVE image'[c] = row[c] \/ row[c] = NoUrl
    BY DEF PosterOfRow
  <2>1. CASE img # Nothing /\ \E l \in Ended(ls) : loads[l].cell = c
    BY <1>2, <1>3, <2>1 DEF IInv, LatestRight
  <2>2. CASE ~(img # Nothing /\ \E l \in Ended(ls) : loads[l].cell = c)
    BY <1>2, <2>2 DEF IInv, PosterOfRow
  <2> QED BY <2>1, <2>2
<1>7. LatestRight'
  <2>1. ASSUME NEW c \in Cell, latest'[c] # 0
        PROVE  loads'[latest'[c]].cell = c /\ loads'[latest'[c]].state \in {"cache", "download"}
    <3>1. latest'[c] = latest[c] /\ latest[c] \notin Ended(ls) /\ latest[c] # 0
      BY <1>2, <2>1
    <3>2. latest[c] \in DOMAIN loads
      BY <1>0, <3>1, Shape DEF TypeOK
    <3> QED BY <1>1, <3>1, <3>2 DEF IInv, LatestRight, Active
  <2>2. ASSUME NEW l \in DOMAIN loads, Active(l)'
        PROVE  latest'[loads'[l].cell] = l /\ row'[loads'[l].cell] \in {loads'[l].url, NoUrl}
    <3>1. l \notin Ended(ls) /\ Active(l)
      BY <1>1, <2>2 DEF Active
    <3>2. loads[l].cell \in Cell
      BY <1>0, Shape DEF Load
    <3> QED BY <1>1, <1>2, <3>1, <3>2 DEF IInv, LatestRight
  <2> QED BY <1>1, <2>1, <2>2 DEF LatestRight, Active
<1>8. CallbacksRight'
  BY <1>1 DEF IInv, CallbacksRight
<1> QED BY <1>4, <1>5, <1>6, <1>7, <1>8

(* The manager has the image, or the load was cancelled meanwhile. *)
LEMMA QueriedEndsIInv ==
  ASSUME IInv, adding = 0, mainQueue # <<>>, mainQueue' = Tail(mainQueue), UNCHANGED <<row, ioQueue>>,
         NEW b, b = Head(mainQueue), b.type = "queried",
         End({b.load}, loads[b.load].url), UNCHANGED <<downloadVars, cacheVars>>
  PROVE  IInv'
<1> DEFINE l == b.load
<1> USE DEF downloadVars, cacheVars
<1>0. TypeOK
  BY DEF IInv
<1>1. 1 \in Queries /\ b = mainQueue[1] /\ mainQueue' \in Seq(Block)
  BY <1>0, TailFacts DEF Queries
<1>2. l \in DOMAIN loads /\ loads[l].state \in {"cache", "cancelled"} /\ loads[l].url \in Url
  BY <1>0, <1>1, Shape DEF IInv, BlocksRight, Load
<1>3. Ended({l}) \subseteq {l} /\ (l \in Ended({l}) => loads[l].state = "cache")
  BY <1>2 DEF Ended, Cancelled
<1>4. /\ loads' \in Seq(Load) /\ Len(loads') = Len(loads) /\ DOMAIN loads' = DOMAIN loads
      /\ \A k \in DOMAIN loads :
           /\ loads'[k].cell = loads[k].cell /\ loads'[k].url = loads[k].url
           /\ loads'[k].state = IF k \in Ended({l}) THEN "done" ELSE loads[k].state
  BY <1>0, EndFacts
<1>5. /\ image' \in [Cell -> Url \union {Nothing, Placeholder}]
      /\ latest' \in [Cell -> 0..Len(loads')]
      /\ PosterOfRow' /\ LatestRight' /\ CallbacksRight'
  <2>1. \A d \in DOMAIN downloads : loads[l].state = "cache" => l \notin downloads[d].callbackBlocks
    BY DEF IInv, CallbacksRight
  <2> QED BY <1>2, <1>3, <2>1, EndKeeps DEF Active
<1>6. TypeOK'
  BY <1>0, <1>1, <1>4, <1>5 DEF TypeOK
<1>7. \A k \in DOMAIN loads : k # l => loads'[k].state = loads[k].state
  BY <1>3, <1>4
<1>8. QueriesInOrder'
  <2>1. \A i \in DOMAIN ioQueue : ioQueue[i] \in DOMAIN loads /\ l < ioQueue[i]
    BY <1>0, <1>1, Shape DEF IInv, QueriesInOrder
  <2>2. \A i \in DOMAIN ioQueue : loads'[ioQueue[i]].state = loads[ioQueue[i]].state
    BY <1>0, <1>2, <1>7, <2>1, Shape
  <2> QED BY <1>1, <2>2, RestInOrder DEF IInv, QueriesInOrder
<1>9. BlocksRight'
  <2>1. ASSUME NEW i \in Queries'
        PROVE  mainQueue'[i].load \in DOMAIN loads' /\ loads'[mainQueue'[i].load].state \in {"cache", "cancelled"}
    <3>1. i + 1 \in Queries /\ mainQueue'[i] = mainQueue[i + 1] /\ l < mainQueue'[i].load
      BY <1>1, RestInOrder
    <3>2. mainQueue[i + 1].load \in DOMAIN loads /\ loads[mainQueue[i + 1].load].state \in {"cache", "cancelled"}
      BY <3>1 DEF IInv, BlocksRight
    <3>3. mainQueue'[i].load # l
      <4>1. l \in Nat
        BY <1>0, <1>2, Shape
      <4>2. ~(l < l)
        BY <4>1
      <4> QED BY <3>1, <4>2, Zenon
    <3> QED BY <1>4, <1>7, <3>1, <3>2, <3>3
  <2>2. ASSUME NEW i \in Answers', NEW k \in mainQueue'[i].loads
        PROVE  /\ k \in DOMAIN loads' /\ loads'[k].url = mainQueue'[i].url
               /\ loads'[k].state \in {"download", "cancelled"}
               /\ \A d \in DOMAIN downloads' :
                    k \in downloads'[d].callbackBlocks => downloads'[d].state = "answered"
    <3>1. i + 1 \in Answers /\ mainQueue'[i] = mainQueue[i + 1]
      BY RestInOrder
    <3>2. /\ k \in DOMAIN loads /\ loads[k].url = mainQueue[i + 1].url
          /\ loads[k].state \in {"download", "cancelled"}
          /\ \A d \in DOMAIN downloads :
               k \in downloads[d].callbackBlocks => downloads[d].state = "answered"
      BY <2>2, <3>1 DEF IInv, BlocksRight
    <3>3. k \notin Ended({l})
      BY <1>3, <3>2
    <3> QED BY <1>4, <3>1, <3>2, <3>3
  <2>3. \A i, j \in Answers' : i # j => mainQueue'[i].loads \intersect mainQueue'[j].loads = {}
    BY RestInOrder
  <2> QED BY <2>1, <2>2, <2>3 DEF BlocksRight
<1>10. OperationsRight' /\ JoinRight'
  BY DEF IInv, OperationsRight, OperationRight, Displaced, Live, JoinRight
<1> QED BY <1>5, <1>6, <1>8, <1>9, <1>10 DEF IInv

(* An operation has answered, and its callbacks are told. *)
LEMMA CompletedIInv ==
  ASSUME IInv, adding = 0, mainQueue # <<>>, mainQueue' = Tail(mainQueue), UNCHANGED <<row, ioQueue>>,
         NEW b, b = Head(mainQueue), Completed(b)
  PROVE  IInv'
<1> DEFINE img == IF b.outcome = "image" THEN b.url ELSE Nothing
<1>0. TypeOK
  BY DEF IInv
<1>1. 1 \in Answers /\ b = mainQueue[1] /\ mainQueue' \in Seq(Block) /\ b \in Block /\ b.type = "completed"
  BY <1>0, TailFacts, Shape DEF Answers, Completed
<1>2. b.url \in Url
  BY <1>1 DEF Block
<1>3. \A l \in b.loads :
        /\ l \in DOMAIN loads /\ loads[l].url = b.url /\ loads[l].state \in {"download", "cancelled"}
        /\ \A d \in DOMAIN downloads : l \in downloads[d].callbackBlocks => downloads[d].state = "answered"
  BY <1>1 DEF IInv, BlocksRight
<1>4. End(b.loads, img) /\ UNCHANGED <<downloads, URLOperations, adding, overtaken>>
  BY DEF Completed, downloadVars
<1>5. \A l \in Ended(b.loads) : l \in b.loads /\ loads[l].state = "download"
  BY <1>3 DEF Ended, Cancelled
<1> HIDE DEF img
<1>6. /\ loads' \in Seq(Load) /\ Len(loads') = Len(loads) /\ DOMAIN loads' = DOMAIN loads
      /\ \A k \in DOMAIN loads :
           /\ loads'[k].cell = loads[k].cell /\ loads'[k].url = loads[k].url
           /\ loads'[k].state = IF k \in Ended(b.loads) THEN "done" ELSE loads[k].state
  BY <1>0, <1>4, EndFacts
<1>7. /\ image' \in [Cell -> Url \union {Nothing, Placeholder}]
      /\ latest' \in [Cell -> 0..Len(loads')]
      /\ PosterOfRow' /\ LatestRight' /\ CallbacksRight'
  <2>1. img \in Url \union {Nothing} /\ (img # Nothing => img = b.url)
    BY <1>2 DEF img
  <2> QED BY <1>3, <1>4, <1>5, <2>1, EndKeeps DEF Active
<1>8. TypeOK'
  <2>1. memory' \subseteq Url /\ failedURLs' \subseteq Url
    BY <1>0, <1>2 DEF TypeOK, Completed
  <2> QED BY <1>0, <1>1, <1>4, <1>6, <1>7, <2>1 DEF TypeOK
<1>9. QueriesInOrder'
  <2>1. \A i \in DOMAIN ioQueue : loads'[ioQueue[i]].state = loads[ioQueue[i]].state
    BY <1>0, <1>5, <1>6, Shape DEF IInv, QueriesInOrder
  <2> QED BY <1>4, <2>1, RestInOrder DEF IInv, QueriesInOrder
<1>10. BlocksRight'
  <2>1. ASSUME NEW i \in Queries'
        PROVE  mainQueue'[i].load \in DOMAIN loads' /\ loads'[mainQueue'[i].load].state \in {"cache", "cancelled"}
    <3>1. i + 1 \in Queries /\ mainQueue'[i] = mainQueue[i + 1]
      BY RestInOrder
    <3>2. mainQueue[i + 1].load \in DOMAIN loads /\ loads[mainQueue[i + 1].load].state \in {"cache", "cancelled"}
      BY <3>1 DEF IInv, BlocksRight
    <3>3. mainQueue[i + 1].load \notin Ended(b.loads)
      BY <1>5, <3>2
    <3> QED BY <1>6, <3>1, <3>2, <3>3
  <2>2. ASSUME NEW i \in Answers', NEW k \in mainQueue'[i].loads
        PROVE  /\ k \in DOMAIN loads' /\ loads'[k].url = mainQueue'[i].url
               /\ loads'[k].state \in {"download", "cancelled"}
               /\ \A d \in DOMAIN downloads' :
                    k \in downloads'[d].callbackBlocks => downloads'[d].state = "answered"
    <3>1. i + 1 \in Answers /\ mainQueue'[i] = mainQueue[i + 1] /\ b.loads \intersect mainQueue'[i].loads = {}
      BY <1>1, RestInOrder
    <3>2. k \notin Ended(b.loads)
      BY <1>5, <2>2, <3>1
    <3>3. /\ k \in DOMAIN loads /\ loads[k].url = mainQueue[i + 1].url
          /\ loads[k].state \in {"download", "cancelled"}
          /\ \A d \in DOMAIN downloads :
               k \in downloads[d].callbackBlocks => downloads[d].state = "answered"
      BY <2>2, <3>1 DEF IInv, BlocksRight
    <3> QED BY <1>4, <1>6, <3>1, <3>2, <3>3
  <2> QED BY <2>1, <2>2, RestInOrder DEF BlocksRight
<1>11. OperationsRight' /\ JoinRight'
  BY <1>4 DEF IInv, OperationsRight, OperationRight, Displaced, Live, JoinRight
<1> QED BY <1>7, <1>8, <1>9, <1>10, <1>11 DEF IInv

(* Nothing was found, and an operation can be joined: the load is about to *)
(* be added to it.                                                         *)
LEMMA JoinIInv ==
  ASSUME IInv, adding = 0, mainQueue # <<>>, mainQueue' = Tail(mainQueue),
         UNCHANGED <<row, ioQueue, latest, image, cacheVars>>,
         NEW b, b = Head(mainQueue), b.type = "queried", ~Cancelled(b.load), DownloadImage(b.load),
         Reusable(URLOperations[loads[b.load].url])
  PROVE  IInv'
<1> DEFINE l == b.load
<1>0. TypeOK
  BY DEF IInv
<1>1. 1 \in Queries /\ b = mainQueue[1] /\ mainQueue' \in Seq(Block)
  BY <1>0, TailFacts DEF Queries
<1>2. l \in DOMAIN loads /\ loads[l].state = "cache"
  BY <1>0, <1>1, Shape DEF IInv, BlocksRight, Cancelled
<1>3. /\ UNCHANGED <<row, image, latest, loads, downloads, URLOperations, memory, failedURLs, ioQueue>>
      /\ adding' = l /\ overtaken' \subseteq overtaken \union {l}
  BY DEF DownloadImage, cacheVars
<1>4. TypeOK'
  BY <1>0, <1>1, <1>2, <1>3, Shape DEF TypeOK
<1>5. PosterOfRow' /\ LatestRight' /\ CallbacksRight' /\ OperationsRight'
  BY <1>3 DEF IInv, PosterOfRow, LatestRight, Active, CallbacksRight, OperationsRight, OperationRight, Displaced, Live
<1>6. BlocksRight' /\ QueriesInOrder'
  <2>1. \A i \in Queries' : i + 1 \in Queries /\ mainQueue'[i] = mainQueue[i + 1]
    BY RestInOrder
  <2>2. \A i \in Answers' : i + 1 \in Answers /\ mainQueue'[i] = mainQueue[i + 1]
    BY RestInOrder
  <2>3. /\ \A i, j \in Queries' : i < j => mainQueue'[i].load < mainQueue'[j].load
        /\ \A i, j \in Answers' : i # j => mainQueue'[i].loads \intersect mainQueue'[j].loads = {}
    BY RestInOrder
  <2>4. BlocksRight'
    <3>1. \A i \in Queries' : /\ mainQueue'[i].load \in DOMAIN loads'
                              /\ loads'[mainQueue'[i].load].state \in {"cache", "cancelled"}
      BY <1>3, <2>1 DEF IInv, BlocksRight
    <3>2. ASSUME NEW i \in Answers', NEW k \in mainQueue'[i].loads
          PROVE  /\ k \in DOMAIN loads' /\ loads'[k].url = mainQueue'[i].url
                 /\ loads'[k].state \in {"download", "cancelled"}
                 /\ \A e \in DOMAIN downloads' :
                      k \in downloads'[e].callbackBlocks => downloads'[e].state = "answered"
      <4>1. i + 1 \in Answers /\ k \in mainQueue[i + 1].loads /\ mainQueue'[i] = mainQueue[i + 1]
        BY <2>2, <3>2
      <4>2. /\ k \in DOMAIN loads /\ loads[k].url = mainQueue[i + 1].url
            /\ loads[k].state \in {"download", "cancelled"}
            /\ \A e \in DOMAIN downloads :
                 k \in downloads[e].callbackBlocks => downloads[e].state = "answered"
        BY <4>1 DEF IInv, BlocksRight
      <4> QED BY <1>3, <4>1, <4>2
    <3> QED BY <2>3, <3>1, <3>2 DEF BlocksRight
  <2>5. QueriesInOrder'
    BY <1>3, <2>1, <2>3 DEF IInv, QueriesInOrder
  <2> QED BY <2>4, <2>5
<1>7. JoinRight'
  <2>1. \A i \in DOMAIN ioQueue : l < ioQueue[i]
    BY <1>1 DEF IInv, QueriesInOrder
  <2>2. \A i \in Queries' : l < mainQueue'[i].load
    BY <1>1, RestInOrder
  <2>3. URLOperations[loads[l].url] # 0
    BY DEF Reusable
  <2> QED BY <1>2, <1>3, <2>1, <2>2, <2>3 DEF JoinRight
<1> QED BY <1>4, <1>5, <1>6, <1>7 DEF IInv

(* Nothing was found, and no operation can be joined: the load has one of  *)
(* its own.                                                                *)
LEMMA DownloadIInv ==
  ASSUME IInv, adding = 0, mainQueue # <<>>, mainQueue' = Tail(mainQueue),
         UNCHANGED <<row, ioQueue, latest, image, cacheVars>>,
         NEW b, b = Head(mainQueue), b.type = "queried", ~Cancelled(b.load), DownloadImage(b.load),
         ~Reusable(URLOperations[loads[b.load].url])
  PROVE  IInv'
<1> DEFINE l == b.load
           u == loads[l].url
           d == URLOperations[u]
<1>0. TypeOK
  BY DEF IInv
<1>1. 1 \in Queries /\ b = mainQueue[1] /\ mainQueue' \in Seq(Block)
  BY <1>0, TailFacts DEF Queries
<1>2. l \in DOMAIN loads /\ loads[l].state = "cache" /\ u \in Url /\ l \in Nat /\ Len(downloads) < l
  BY <1>0, <1>1, Shape DEF IInv, BlocksRight, QueriesInOrder, Load, Cancelled
<1>3. d \in 0..Len(downloads) /\ (d # 0 => d \in DOMAIN downloads /\ downloads[d].url = u)
  BY <1>0, <1>2, Shape, SMTT(30) DEF IInv, OperationsRight, TypeOK
<1>4. /\ loads' \in Seq(Load) /\ Len(loads') = Len(loads) /\ DOMAIN loads' = DOMAIN loads
      /\ loads'[l].state = "download"
      /\ \A k \in DOMAIN loads : /\ loads'[k].cell = loads[k].cell /\ loads'[k].url = loads[k].url
                                 /\ k # l => loads'[k].state = loads[k].state
  <2>1. loads' = [loads EXCEPT ![l].state = "download"]
    BY DEF DownloadImage
  <2>2. DOMAIN loads' = DOMAIN loads /\ loads' = [k \in DOMAIN loads' |-> loads'[k]]
    BY <2>1
  <2>3. \A k \in DOMAIN loads : /\ loads'[k] \in Load
                                /\ loads'[k].cell = loads[k].cell /\ loads'[k].url = loads[k].url
                                /\ loads'[k].state = IF k = l THEN "download" ELSE loads[k].state
    BY <1>0, <2>1, Shape DEF Load
  <2>4. loads' \in Seq(Load) /\ Len(loads') = Len(loads)
    BY <1>0, <2>2, <2>3, MappedSeq DEF TypeOK
  <2> QED BY <1>2, <2>2, <2>3, <2>4
<1>5. \A i \in Queries' : /\ i + 1 \in Queries /\ mainQueue'[i] = mainQueue[i + 1] /\ l < mainQueue'[i].load
                          /\ mainQueue'[i].load # l /\ mainQueue'[i].load \in DOMAIN loads
                          /\ loads'[mainQueue'[i].load].state \in {"cache", "cancelled"}
  <2> SUFFICES ASSUME NEW i \in Queries'
               PROVE  /\ i + 1 \in Queries /\ mainQueue'[i] = mainQueue[i + 1] /\ l < mainQueue'[i].load
                      /\ mainQueue'[i].load # l /\ mainQueue'[i].load \in DOMAIN loads
                      /\ loads'[mainQueue'[i].load].state \in {"cache", "cancelled"}
    OBVIOUS
  <2>1. i + 1 \in Queries /\ mainQueue'[i] = mainQueue[i + 1] /\ l < mainQueue'[i].load
    BY <1>1, RestInOrder
  <2>2. mainQueue'[i].load \in DOMAIN loads /\ loads[mainQueue'[i].load].state \in {"cache", "cancelled"}
    BY <2>1 DEF IInv, BlocksRight
  <2>3. mainQueue'[i].load # l
    <3>1. ~(l < l)
      BY <1>2
    <3> QED BY <2>1, <3>1, Zenon
  <2> QED BY <1>4, <2>1, <2>2, <2>3
<1>6. \A i \in DOMAIN ioQueue : /\ ioQueue[i] \in DOMAIN loads /\ l < ioQueue[i]
                                /\ loads'[ioQueue[i]].state \in {"cache", "cancelled"}
  <2>1. \A i \in DOMAIN ioQueue : ioQueue[i] \in DOMAIN loads /\ l < ioQueue[i]
    BY <1>0, <1>1, Shape DEF IInv, QueriesInOrder
  <2>2. \A k \in DOMAIN loads : l < k => k # l
    BY <1>0, <1>2, Shape
  <2> QED BY <1>4, <2>1, <2>2 DEF IInv, QueriesInOrder
<1>7. PosterOfRow' /\ LatestRight'
  <2>1. \A k \in DOMAIN loads : Active(k)' <=> Active(k)
    BY <1>2, <1>4 DEF Active
  <2>2. \A c \in Cell : latest[c] # 0 => latest[c] \in DOMAIN loads
    BY <1>0, Shape DEF TypeOK
  <2> QED BY <1>4, <2>1, <2>2 DEF IInv, PosterOfRow, LatestRight
<1>8. \A e \in DOMAIN downloads : l \notin downloads[e].callbackBlocks
  BY <1>2 DEF IInv, CallbacksRight
<1>9. \A e \in DOMAIN downloads : \A k \in downloads[e].callbackBlocks : loads'[k].state = loads[k].state
  BY <1>4, <1>8 DEF IInv, CallbacksRight
<1>10. ASSUME NEW i \in Answers', NEW k \in mainQueue'[i].loads
       PROVE  /\ k \in DOMAIN loads' /\ k # l /\ loads'[k].url = mainQueue'[i].url
              /\ loads'[k].state \in {"download", "cancelled"}
              /\ \A e \in DOMAIN downloads : k \in downloads[e].callbackBlocks => downloads[e].state = "answered"
  <2>1. i + 1 \in Answers /\ mainQueue'[i] = mainQueue[i + 1]
    BY RestInOrder
  <2>2. /\ k \in DOMAIN loads /\ loads[k].url = mainQueue[i + 1].url
        /\ loads[k].state \in {"download", "cancelled"}
        /\ \A e \in DOMAIN downloads : k \in downloads[e].callbackBlocks => downloads[e].state = "answered"
    BY <1>10, <2>1 DEF IInv, BlocksRight
  <2> QED BY <1>2, <1>4, <2>1, <2>2
<1>11. \A i, j \in Answers' : i # j => mainQueue'[i].loads \intersect mainQueue'[j].loads = {}
  BY RestInOrder
<1> DEFINE op == [url |-> u, state |-> "pending", cancelled |-> FALSE, callbackBlocks |-> {l}]
           n == Len(downloads) + 1
<1>12. downloads' = Append(downloads, op) /\ URLOperations' = [URLOperations EXCEPT ![u] = n]
       /\ UNCHANGED <<adding, overtaken>>
  BY DEF DownloadImage
<1>13. /\ op \in Download /\ op.url = u /\ op.state = "pending" /\ ~op.cancelled /\ op.callbackBlocks = {l}
  <2>1. l \in 1..MaxLoads
    BY <1>0, <1>2, Shape, PosterAssumption DEF TypeOK
  <2> QED BY <1>2, <2>1 DEF Download
<1> HIDE DEF op
<1>14. /\ downloads' \in Seq(Download) /\ Len(downloads') = n /\ DOMAIN downloads' = 1..n
       /\ downloads'[n] = op /\ \A e \in DOMAIN downloads : downloads'[e] = downloads[e]
       /\ Len(downloads) \in Nat /\ DOMAIN downloads = 1..Len(downloads)
  BY <1>0, <1>12, <1>13, AppendProperties, LenProperties, Shape DEF TypeOK
<1>15. /\ DOMAIN downloads' = DOMAIN downloads \union {n} /\ n \notin DOMAIN downloads /\ n # 0
       /\ (\A e \in DOMAIN downloads : e < n /\ ~(n < e)) /\ ~(n < n) /\ n <= l /\ n \in Nat
  BY <1>2, <1>14
<1>16. TypeOK'
  <2>1. n <= Len(loads)
    BY <1>0, <1>2, <1>15, Shape
  <2>2. URLOperations' \in [Url -> 0..n]
    <3>1. URLOperations \in [Url -> 0..Len(downloads)] /\ 0..Len(downloads) \subseteq 0..n /\ n \in 0..n
      BY <1>0, <1>14, <1>15 DEF TypeOK
    <3> HIDE DEF n
    <3> QED BY <1>12, <3>1
  <2> QED BY <1>0, <1>1, <1>4, <1>12, <1>14, <2>1, <2>2 DEF TypeOK, cacheVars
<1>17. CallbacksRight'
  <2>1. ASSUME NEW e \in DOMAIN downloads, NEW k \in downloads[e].callbackBlocks
        PROVE  /\ k \in DOMAIN loads' /\ loads'[k].url = downloads[e].url /\ k # l
               /\ \/ loads'[k].state = "download"
                  \/ loads'[k].state = "done" /\ downloads[e].state = "answered"
                  \/ loads'[k].state = "cancelled" /\ Finished(downloads[e])
    BY <1>4, <1>8, <1>9 DEF IInv, CallbacksRight
  <2>2. \A e, f \in DOMAIN downloads :
          e # f => downloads[e].callbackBlocks \intersect downloads[f].callbackBlocks = {}
    BY DEF IInv, CallbacksRight
  <2>3. l \in DOMAIN loads' /\ loads'[l].url = u /\ loads'[l].state = "download"
    BY <1>2, <1>4
  <2>4. ASSUME NEW e \in DOMAIN downloads', NEW k \in downloads'[e].callbackBlocks
        PROVE  /\ k \in DOMAIN loads' /\ loads'[k].url = downloads'[e].url
               /\ \/ loads'[k].state = "download"
                  \/ loads'[k].state = "done" /\ downloads'[e].state = "answered"
                  \/ loads'[k].state = "cancelled" /\ Finished(downloads'[e])
    <3>1. CASE e = n
      BY <1>13, <1>14, <2>3, <2>4, <3>1
    <3>2. CASE e # n
      <4>1. e \in DOMAIN downloads /\ downloads'[e] = downloads[e] /\ k \in downloads[e].callbackBlocks
        BY <1>14, <1>15, <2>4, <3>2
      <4> QED BY <2>1, <4>1
    <3> QED BY <3>1, <3>2
  <2>5. \A e, f \in DOMAIN downloads' :
          e # f => downloads'[e].callbackBlocks \intersect downloads'[f].callbackBlocks = {}
    BY <1>8, <1>13, <1>14, <1>15, <2>2
  <2> QED BY <2>4, <2>5 DEF CallbacksRight
<1>18. BlocksRight'
  <2>1. ASSUME NEW i \in Answers', NEW k \in mainQueue'[i].loads
        PROVE  /\ k \in DOMAIN loads' /\ loads'[k].url = mainQueue'[i].url
               /\ loads'[k].state \in {"download", "cancelled"}
               /\ \A e \in DOMAIN downloads' : k \in downloads'[e].callbackBlocks => downloads'[e].state = "answered"
    <3>1. /\ k \in DOMAIN loads' /\ k # l /\ loads'[k].url = mainQueue'[i].url
          /\ loads'[k].state \in {"download", "cancelled"}
          /\ \A e \in DOMAIN downloads : k \in downloads[e].callbackBlocks => downloads[e].state = "answered"
      BY <1>10, <2>1
    <3>2. ASSUME NEW e \in DOMAIN downloads', k \in downloads'[e].callbackBlocks PROVE downloads'[e].state = "answered"
      <4>1. e # n
        BY <1>13, <1>14, <3>1, <3>2
      <4> QED BY <1>14, <1>15, <3>1, <3>2, <4>1
    <3> QED BY <3>1, <3>2
  <2> QED BY <1>4, <1>5, <1>11, <2>1 DEF BlocksRight
<1>19. QueriesInOrder'
  <2>1. \A i \in Queries' : Len(downloads') < mainQueue'[i].load
    <3>1. \A k \in DOMAIN loads : k \in Nat
      BY <1>0, Shape
    <3>2. \A k \in Nat : l < k => n < k
      BY <1>2, <1>15
    <3> QED BY <1>5, <1>14, <3>1, <3>2
  <2>2. \A i \in DOMAIN ioQueue : Len(downloads') < ioQueue[i]
    BY <1>0, <1>2, <1>6, <1>14, <1>15, Shape
  <2> QED BY <1>5, <1>6, <2>1, <2>2, RestInOrder DEF IInv, QueriesInOrder
<1>20. OperationsRight'
  <2>1. \A v \in Url : URLOperations'[v] # 0 => downloads'[URLOperations'[v]].url = v
    <3>1. \A v \in Url : v # u => URLOperations'[v] = URLOperations[v]
      BY <1>0, <1>12 DEF TypeOK
    <3>2. URLOperations'[u] = n
      BY <1>0, <1>2, <1>12 DEF TypeOK
    <3>3. \A v \in Url : URLOperations[v] # 0 => URLOperations[v] \in DOMAIN downloads
      BY <1>0, Shape DEF TypeOK
    <3> QED BY <1>13, <1>14, <3>1, <3>2, <3>3 DEF IInv, OperationsRight
  <2>2. ASSUME NEW e \in DOMAIN downloads, Live(e)' PROVE OperationRight(e)'
    <3>1. Live(e) /\ OperationRight(e) /\ downloads'[e] = downloads[e] /\ downloads[e].url \in Url
      BY <1>0, <1>14, <2>2, Shape DEF IInv, OperationsRight, Live, Download
    <3>2. CASE Displaced(e)
      <4>1. Displaced(e)'
        BY <1>14, <3>1, <3>2 DEF Displaced
      <4> QED BY <3>1, <4>1 DEF OperationRight
    <3>3. CASE ~Displaced(e)
      <4>1. downloads[e].url # u
        <5>1. e # 0
          BY <1>14
        <5> QED BY <3>1, <3>3, <5>1 DEF OperationRight, Reusable, Finished, Live
      <4>2. URLOperations'[downloads[e].url] = e
        BY <1>0, <1>12, <3>1, <3>3, <4>1 DEF OperationRight, TypeOK
      <4> QED BY <1>13, <1>14, <1>15, <3>1, <3>3, <4>1, <4>2 DEF OperationRight
    <3> QED BY <3>2, <3>3
  <2>3. ASSUME NEW e \in DOMAIN downloads', e = n PROVE OperationRight(e)'
    <3>1. URLOperations'[u] = n
      BY <1>0, <1>2, <1>12 DEF TypeOK
    <3>2. \A f \in DOMAIN downloads' : ~(e < f)
      BY <1>15, <2>3
    <3> QED BY <1>13, <1>14, <2>3, <3>1, <3>2 DEF OperationRight
  <2> QED BY <1>15, <2>1, <2>2, <2>3 DEF OperationsRight
<1>21. JoinRight'
  BY <1>12 DEF JoinRight
<1> QED BY <1>7, <1>16, <1>17, <1>18, <1>19, <1>20, <1>21 DEF IInv

(* The load is added to the operation of its URL, whatever that has done   *)
(* since it was found.                                                     *)
LEMMA AddHandlersIInv ==
  ASSUME IInv, AddHandlers
  PROVE  IInv'
<1> DEFINE l == adding
           u == loads[l].url
           d == URLOperations[u]
<1>0. TypeOK
  BY DEF IInv
<1>1. /\ UNCHANGED <<row, image, latest, URLOperations, overtaken, memory, failedURLs, ioQueue, mainQueue>>
      /\ l # 0 /\ adding' = 0
  BY DEF AddHandlers, viewVars, cacheVars
<1>2. l \in DOMAIN loads /\ loads[l].state = "cache" /\ u \in Url /\ l \in Nat
  BY <1>0, <1>1, Shape DEF IInv, JoinRight, TypeOK, Load
<1>3. d \in DOMAIN downloads /\ downloads[d].url = u
  <2>1. d # 0
    BY <1>1 DEF IInv, JoinRight
  <2>2. d \in 0..Len(downloads)
    BY <1>0, <1>2 DEF TypeOK
  <2> QED BY <1>0, <1>2, <2>1, <2>2, Shape DEF IInv, OperationsRight
<1>4. /\ loads' \in Seq(Load) /\ Len(loads') = Len(loads) /\ DOMAIN loads' = DOMAIN loads
      /\ loads'[l].state = "download"
      /\ \A k \in DOMAIN loads : /\ loads'[k].cell = loads[k].cell /\ loads'[k].url = loads[k].url
                                 /\ k # l => loads'[k].state = loads[k].state
  <2>1. loads' = [loads EXCEPT ![l].state = "download"]
    BY DEF AddHandlers
  <2>2. DOMAIN loads' = DOMAIN loads /\ loads' = [k \in DOMAIN loads' |-> loads'[k]]
    BY <2>1
  <2>3. \A k \in DOMAIN loads : /\ loads'[k] \in Load
                                /\ loads'[k].cell = loads[k].cell /\ loads'[k].url = loads[k].url
                                /\ loads'[k].state = IF k = l THEN "download" ELSE loads[k].state
    BY <1>0, <2>1, Shape DEF Load
  <2>4. loads' \in Seq(Load) /\ Len(loads') = Len(loads)
    BY <1>0, <2>2, <2>3, MappedSeq DEF TypeOK
  <2> QED BY <1>2, <2>2, <2>3, <2>4
<1>5. \A i \in Queries : /\ mainQueue[i].load \in DOMAIN loads /\ mainQueue[i].load # l
                         /\ loads'[mainQueue[i].load].state \in {"cache", "cancelled"}
  <2>1. \A i \in Queries : /\ mainQueue[i].load \in DOMAIN loads /\ l < mainQueue[i].load
                           /\ loads[mainQueue[i].load].state \in {"cache", "cancelled"}
    BY <1>1 DEF IInv, BlocksRight, JoinRight
  <2>2. \A k \in DOMAIN loads : l < k => k # l
    BY <1>0, <1>2, Shape
  <2> QED BY <1>4, <2>1, <2>2
<1>6. \A i \in DOMAIN ioQueue : loads'[ioQueue[i]].state \in {"cache", "cancelled"}
  <2>1. \A i \in DOMAIN ioQueue : ioQueue[i] \in DOMAIN loads /\ l < ioQueue[i]
    BY <1>0, <1>1, Shape DEF IInv, JoinRight
  <2>2. \A k \in DOMAIN loads : l < k => k # l
    BY <1>0, <1>2, Shape
  <2> QED BY <1>4, <2>1, <2>2 DEF IInv, QueriesInOrder
<1>7. PosterOfRow' /\ LatestRight'
  <2>1. \A k \in DOMAIN loads : Active(k)' <=> Active(k)
    BY <1>2, <1>4 DEF Active
  <2>2. \A c \in Cell : latest[c] # 0 => latest[c] \in DOMAIN loads
    BY <1>0, Shape DEF TypeOK
  <2> QED BY <1>1, <1>4, <2>1, <2>2 DEF IInv, PosterOfRow, LatestRight
<1>8. \A e \in DOMAIN downloads : l \notin downloads[e].callbackBlocks
  BY <1>2 DEF IInv, CallbacksRight
<1>9. \A e \in DOMAIN downloads : \A k \in downloads[e].callbackBlocks : loads'[k].state = loads[k].state
  BY <1>4, <1>8 DEF IInv, CallbacksRight
<1>10. ASSUME NEW i \in Answers, NEW k \in mainQueue[i].loads
       PROVE  /\ k \in DOMAIN loads' /\ k # l /\ loads'[k].url = mainQueue[i].url
              /\ loads'[k].state \in {"download", "cancelled"}
              /\ \A e \in DOMAIN downloads : k \in downloads[e].callbackBlocks => downloads[e].state = "answered"
  BY <1>2, <1>4, <1>10 DEF IInv, BlocksRight
<1>11. \A i, j \in Answers : i # j => mainQueue[i].loads \intersect mainQueue[j].loads = {}
  BY DEF IInv, BlocksRight
<1> DEFINE op == [downloads[d] EXCEPT !.callbackBlocks = @ \union {l}]
<1>12. downloads' = [downloads EXCEPT ![d] = op]
  BY DEF AddHandlers
<1>13. d \in DOMAIN downloads /\ downloads[d] \in Download /\ downloads[d].url = u
  BY <1>0, <1>3, Shape
<1>14. /\ op \in Download /\ op.url = u /\ op.state = downloads[d].state /\ op.cancelled = downloads[d].cancelled
       /\ op.callbackBlocks = downloads[d].callbackBlocks \union {l}
  <2>1. l \in 1..MaxLoads
    BY <1>0, <1>2, Shape, PosterAssumption DEF TypeOK
  <2> QED BY <1>13, <2>1 DEF Download
<1> HIDE DEF op
<1>15. /\ DOMAIN downloads' = DOMAIN downloads /\ downloads'[d] = op
       /\ \A e \in DOMAIN downloads : e # d => downloads'[e] = downloads[e]
       /\ downloads' \in Seq(Download) /\ Len(downloads') = Len(downloads)
  <2>1. /\ DOMAIN downloads' = DOMAIN downloads /\ downloads' = [e \in DOMAIN downloads' |-> downloads'[e]]
        /\ downloads'[d] = op /\ \A e \in DOMAIN downloads : e # d => downloads'[e] = downloads[e]
    BY <1>12, <1>13
  <2>2. \A e \in DOMAIN downloads : downloads'[e] \in Download
    BY <1>0, <1>14, <2>1, Shape
  <2> QED BY <1>0, <2>1, <2>2, MappedSeq DEF TypeOK
<1>16. \A e \in DOMAIN downloads : /\ downloads'[e].url = downloads[e].url /\ downloads'[e].state = downloads[e].state
                                   /\ downloads'[e].cancelled = downloads[e].cancelled
                                   /\ downloads[e].callbackBlocks \subseteq downloads'[e].callbackBlocks
                                   /\ downloads'[e].callbackBlocks \ {l} = downloads[e].callbackBlocks
                                   /\ e # d => l \notin downloads'[e].callbackBlocks
  BY <1>8, <1>13, <1>14, <1>15
<1>17. TypeOK'
  <2>1. adding' \in 0..Len(loads')
    BY <1>0, <1>1, <1>4, Shape
  <2> QED BY <1>0, <1>1, <1>4, <1>15, <2>1 DEF TypeOK
<1>18. CallbacksRight'
  <2>1. ASSUME NEW e \in DOMAIN downloads, NEW k \in downloads'[e].callbackBlocks
        PROVE  /\ k \in DOMAIN loads' /\ loads'[k].url = downloads'[e].url
               /\ \/ loads'[k].state = "download"
                  \/ loads'[k].state = "done" /\ downloads'[e].state = "answered"
                  \/ loads'[k].state = "cancelled" /\ Finished(downloads'[e])
    <3>1. CASE k = l
      BY <1>2, <1>4, <1>13, <1>16, <2>1, <3>1
    <3>2. CASE k # l
      <4>1. k \in downloads[e].callbackBlocks
        BY <1>16, <2>1, <3>2
      <4> QED BY <1>4, <1>9, <1>16, <4>1 DEF IInv, CallbacksRight, Finished
    <3> QED BY <3>1, <3>2
  <2>2. \A e, f \in DOMAIN downloads :
          e # f => downloads'[e].callbackBlocks \intersect downloads'[f].callbackBlocks = {}
    <3>1. \A e, f \in DOMAIN downloads :
            e # f => downloads[e].callbackBlocks \intersect downloads[f].callbackBlocks = {}
      BY DEF IInv, CallbacksRight
    <3> QED BY <1>16, <3>1
  <2> QED BY <1>15, <2>1, <2>2 DEF CallbacksRight
<1>19. BlocksRight'
  <2>1. ASSUME NEW i \in Answers, NEW k \in mainQueue[i].loads
        PROVE  /\ k \in DOMAIN loads' /\ loads'[k].url = mainQueue[i].url
               /\ loads'[k].state \in {"download", "cancelled"}
               /\ \A e \in DOMAIN downloads' : k \in downloads'[e].callbackBlocks => downloads'[e].state = "answered"
    <3>1. /\ k \in DOMAIN loads' /\ k # l /\ loads'[k].url = mainQueue[i].url
          /\ loads'[k].state \in {"download", "cancelled"}
          /\ \A e \in DOMAIN downloads : k \in downloads[e].callbackBlocks => downloads[e].state = "answered"
      BY <1>10, <2>1
    <3>2. \A e \in DOMAIN downloads : k \in downloads'[e].callbackBlocks => k \in downloads[e].callbackBlocks
      BY <1>16, <3>1
    <3> QED BY <1>15, <1>16, <3>1, <3>2
  <2> QED BY <1>1, <1>4, <1>5, <1>11, <2>1 DEF BlocksRight, Queries, Answers
<1>20. QueriesInOrder'
  BY <1>1, <1>5, <1>6, <1>15 DEF IInv, QueriesInOrder, Queries
<1>21. OperationsRight'
  <2>1. \A v \in Url : URLOperations'[v] # 0 => downloads'[URLOperations'[v]].url = v
    BY <1>0, <1>1, <1>16, Shape DEF IInv, OperationsRight, TypeOK
  <2>2. ASSUME NEW e \in DOMAIN downloads, Live(e)' PROVE OperationRight(e)'
    <3>1. Live(e) /\ OperationRight(e)
      BY <1>16, <2>2 DEF IInv, OperationsRight, Live
    <3>2. Displaced(e) => Displaced(e)'
      BY <1>0, <1>16, Shape DEF Displaced
    <3>3. downloads'[e].callbackBlocks # {} /\ downloads'[e].url = downloads[e].url
      BY <1>16, <3>1 DEF OperationRight
    <3>4. CASE Displaced(e)
      BY <3>2, <3>3, <3>4 DEF OperationRight
    <3>5. CASE ~Displaced(e)
      <4>1. /\ URLOperations[downloads[e].url] = e
            /\ \A f \in DOMAIN downloads : e < f => downloads[f].url # downloads[e].url
        BY <3>1, <3>5 DEF OperationRight
      <4>2. URLOperations'[downloads'[e].url] = e
        BY <1>1, <3>3, <4>1
      <4>3. \A f \in DOMAIN downloads' : e < f => downloads'[f].url # downloads'[e].url
        BY <1>15, <1>16, <3>3, <4>1
      <4> QED BY <3>3, <4>2, <4>3 DEF OperationRight
    <3> QED BY <3>4, <3>5
  <2> QED BY <1>15, <2>1, <2>2 DEF OperationsRight
<1>22. JoinRight'
  BY <1>1 DEF JoinRight
<1> QED BY <1>7, <1>17, <1>18, <1>19, <1>20, <1>21, <1>22 DEF IInv

LEMMA RunBlockIInv ==
  ASSUME IInv, RunBlock
  PROVE  IInv'
<1> DEFINE b == Head(mainQueue)
<1>1. /\ mainQueue # <<>> /\ mainQueue' = Tail(mainQueue) /\ UNCHANGED <<row, ioQueue>> /\ adding = 0
      /\ Queried(b) \/ Completed(b)
  BY DEF RunBlock
<1> HIDE DEF b
<1>2. b = Head(mainQueue)
  BY DEF b
<1>3. CASE Completed(b)
  BY <1>1, <1>2, <1>3, CompletedIInv
<1>4. CASE Queried(b)
  <2>1. CASE End({b.load}, loads[b.load].url) /\ UNCHANGED downloadVars
    BY <1>1, <1>2, <1>4, <2>1, QueriedEndsIInv DEF Queried
  <2>2. CASE ~Cancelled(b.load) /\ DownloadImage(b.load) /\ UNCHANGED <<latest, image>>
    BY <1>1, <1>2, <1>4, <2>2, JoinIInv, DownloadIInv DEF Queried
  <2> QED BY <1>4, <2>1, <2>2 DEF Queried
<1> QED BY <1>1, <1>3, <1>4

-------------------------------------------------------------------------------
(* The specification. *)

LEMMA InitIInv == Init => IInv
<1> SUFFICES ASSUME Init PROVE IInv
  OBVIOUS
<1> USE DEF Init
<1>1. /\ <<>> \in Seq(Load) /\ <<>> \in Seq(Download) /\ <<>> \in Seq(Block) /\ <<>> \in Seq(DOMAIN loads)
      /\ Len(<<>>) = 0 /\ DOMAIN <<>> = {}
  OBVIOUS
<1>2. TypeOK
  BY <1>1, PosterAssumption DEF TypeOK
<1>3. PosterOfRow
  BY PosterAssumption DEF PosterOfRow
<1>4. LatestRight /\ CallbacksRight /\ BlocksRight /\ QueriesInOrder /\ OperationsRight /\ JoinRight
  BY <1>1 DEF LatestRight, CallbacksRight, BlocksRight, QueriesInOrder, OperationsRight, JoinRight, Queries, Answers
<1> QED BY <1>2, <1>3, <1>4 DEF IInv

LEMMA NextIInv == IInv /\ [Next]_vars => IInv'
<1> SUFFICES ASSUME IInv, [Next]_vars PROVE IInv'
  OBVIOUS
<1>1. ASSUME NEW c \in Cell, NEW poster \in Url \union {NoUrl}, CellForRow(c, poster) PROVE IInv'
  BY <1>1, CellForRowIInv
<1>2. ASSUME NEW found \in BOOLEAN, QueryDisk(found) PROVE IInv'
  BY <1>2, QueryDiskIInv
<1>3. ASSUME NEW u \in Url, Evict(u) PROVE IInv'
  BY <1>3, EvictIInv
<1>4. CASE RunBlock
  BY <1>4, RunBlockIInv
<1>5. ASSUME NEW d \in DOMAIN downloads, Start(d) \/ Network(d) \/ Decode(d) \/ Done(d) \/ RemoveOperation(d)
      PROVE  IInv'
  BY <1>5, StartIInv, FailIInv, ReceiveIInv, DecodeIInv, DoneIInv, RemoveOperationIInv DEF Network
<1>6. CASE AddHandlers
  BY <1>6, AddHandlersIInv
<1>7. CASE UNCHANGED vars
  <2>1. UNCHANGED <<row, image, latest, loads, downloads, URLOperations, adding, overtaken, memory, failedURLs,
                    ioQueue, mainQueue>>
    BY <1>7 DEF vars, viewVars, downloadVars, cacheVars
  <2>2. TypeOK' /\ PosterOfRow' /\ LatestRight' /\ CallbacksRight'
    BY <2>1 DEF IInv, TypeOK, PosterOfRow, LatestRight, Active, CallbacksRight
  <2>3. BlocksRight' /\ QueriesInOrder' /\ JoinRight'
    BY <2>1 DEF IInv, BlocksRight, QueriesInOrder, JoinRight, Queries, Answers
  <2>4. OperationsRight'
    BY <2>1 DEF IInv, OperationsRight, OperationRight, Displaced, Live
  <2> QED BY <2>2, <2>3, <2>4 DEF IInv
<1> QED BY <1>1, <1>2, <1>3, <1>4, <1>5, <1>6, <1>7 DEF Next

(* The invariant holds of every behaviour.                                 *)
THEOREM PostersInvariant == Spec => []IInv
  BY InitIInv, NextIInv, PTL DEF Spec

(* Every part of the state keeps its shape.                                *)
THEOREM PostersTypeCorrect == Spec => []TypeOK
<1>1. IInv => TypeOK
  BY DEF IInv
<1> QED BY <1>1, PostersInvariant, PTL

(* No cell shows the poster of a row it no longer has, whatever ends late: *)
(* a disk query, a download, a decoding, or a block already queued.        *)
THEOREM PosterMatchesRow == Spec => []PosterOfRow
<1>1. IInv => PosterOfRow
  BY DEF IInv
<1> QED BY <1>1, PostersInvariant, PTL

(* What is downloaded is wanted, by loads that would be told of it; and a  *)
(* later load of its URL finds it, but for what the completion block of an *)
(* older operation removes.                                                *)
THEOREM DownloadsAreWanted == Spec => []DownloadsWanted
<1>1. ASSUME IInv, NEW d \in DOMAIN downloads, Live(d)
      PROVE  /\ downloads[d].callbackBlocks # {}
             /\ \A l \in downloads[d].callbackBlocks :
                  loads[l].state = "download" /\ loads[l].url = downloads[d].url
             /\ URLOperations[downloads[d].url] = d \/ Displaced(d)
  <2>1. OperationRight(d)
    BY <1>1 DEF IInv, OperationsRight
  <2>2. downloads[d].state # "answered"
    BY <1>1 DEF Live
  <2> QED BY <1>1, <2>1, <2>2 DEF IInv, CallbacksRight, OperationRight, Live, Finished
<1>2. IInv => DownloadsWanted
  BY <1>1 DEF DownloadsWanted, Live, Displaced
<1> QED BY <1>2, PostersInvariant, PTL
===============================================================================
