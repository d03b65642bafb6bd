----------------------------- MODULE MoviePosters -----------------------------
(***************************************************************************)
(* The posters of the movie cells: MovieCell.swift over SDWebImage's       *)
(* sd_setImage, its manager, image cache, downloader and operations.       *)
(*                                                                         *)
(* Four kinds of threads: the main thread (cells, the manager's callbacks, *)
(* cancelling), the cache's ioQueue, the downloads' queue, and the queues  *)
(* on which an operation hears of the network and decodes.  All they hand  *)
(* back passes through the main queue.  Options are 0, as the app has      *)
(* them: memory first, then the disk, then one download per URL.           *)
(*                                                                         *)
(* Left out: blocks that only report a cancellation (the view does nothing *)
(* on them), indicators, progress, transformers, and the disk's content: a *)
(* query of it may find the image or not.                                  *)
(***************************************************************************)
EXTENDS Naturals, Sequences, FiniteSets

CONSTANTS
  Cell,         \* the cells a table reuses; the detail's poster is one more
  Url,          \* posters that are URLs
  NoUrl,        \* a poster that is none, where URL(string:) is nil
  Nothing,      \* no image, or no row yet
  Placeholder,  \* "noposter"
  MaxLoads      \* bound: loads that go beyond the memory cache

ASSUME PosterAssumption ==
  /\ NoUrl \notin Url /\ {Nothing, Placeholder} \intersect Url = {}
  /\ MaxLoads \in Nat

VARIABLES
  row,            \* the poster of the movie each cell shows
  image,          \* movieImageView.image of each cell
  latest,         \* sd_operationDictionary: the load under way of each view, 0 if none
  loads,          \* the SDWebImageCombinedOperations, in the order they began
  downloads,      \* the SDWebImageDownloaderOperations, in the order they were made
  URLOperations,  \* of the downloader: the operation of each URL, 0 if none
  memory,         \* the images in the memory cache
  failedURLs,     \* of the manager
  ioQueue,        \* the loads whose disk query waits
  mainQueue,      \* blocks dispatched to the main queue
  adding,         \* the load that has found an operation to join and is yet to be added, 0 if none
  overtaken       \* history: the loads whose operation had answered before they were added

viewVars == <<row, image, latest>>
cacheVars == <<memory, failedURLs>>
downloadVars == <<downloads, URLOperations, adding, overtaken>>
vars == <<viewVars, loads, downloadVars, cacheVars, ioQueue, mainQueue>>

Outcome == {"image", "blocked", "unblocked"}

Load == [cell : Cell, url : Url, state : {"cache", "download", "done", "cancelled"}]

Download ==
  [url : Url, cancelled : BOOLEAN, callbackBlocks : SUBSET (1..MaxLoads),
   state : {"pending", "executing", "decoding", "answered", "finished", "removed"}]

Block ==
  [type : {"queried"}, load : 1..MaxLoads, found : BOOLEAN]
    \union [type : {"completed"}, url : Url, loads : SUBSET (1..MaxLoads), outcome : Outcome]

(* Every part of the state has its shape. *)
TypeOK ==
  /\ row \in [Cell -> Url \union {NoUrl, Nothing}]
  /\ image \in [Cell -> Url \union {Nothing, Placeholder}]
  /\ loads \in Seq(Load) /\ Len(loads) <= MaxLoads
  /\ latest \in [Cell -> 0..Len(loads)]
  /\ downloads \in Seq(Download) /\ Len(downloads) <= Len(loads)
  /\ URLOperations \in [Url -> 0..Len(downloads)]
  /\ memory \subseteq Url /\ failedURLs \subseteq Url
  /\ ioQueue \in Seq(DOMAIN loads) /\ mainQueue \in Seq(Block)
  /\ adding \in 0..Len(loads) /\ overtaken \subseteq DOMAIN loads

Finished(download) == download.state \in {"finished", "removed"}

Cancelled(l) == loads[l].state = "cancelled"

----------------------------------------------------------------------------
(* Cancelling, on the main thread. *)

(* Slip: the operation goes on when its last token is cancelled. *)
CancelTokenOnly(download, l) == [download EXCEPT !.callbackBlocks = @ \ {l}]

(* cancel: of a download, without the token of load l.  The last token     *)
(* cancels the operation; one that is executing has a task to cancel and   *)
(* is finished at once, the others go on to their end with no callbacks.   *)
(* A finished one is left as it is, with what was added to it too late.    *)
CancelToken(download, l) ==
  IF download.callbackBlocks # {l} THEN [download EXCEPT !.callbackBlocks = @ \ {l}]
  ELSE IF Finished(download) THEN download
  ELSE [download EXCEPT !.callbackBlocks = {}, !.cancelled = TRUE,
                        !.state = IF @ = "executing" THEN "finished" ELSE @]

(* Slip: the load of the row before is not cancelled. *)
LoadsAllKept(c) == loads

(* sd_cancelImageLoadOperationWithKey of a view.  The load's disk query    *)
(* and its blocks stay where they are, and find it cancelled.              *)
LoadsWithout(c) ==
  [l \in DOMAIN loads |-> IF l = latest[c] THEN [loads[l] EXCEPT !.state = "cancelled"] ELSE loads[l]]

CancelLoad(c) ==
  downloads' = [d \in DOMAIN downloads |->
                  IF latest[c] \in downloads[d].callbackBlocks THEN CancelToken(downloads[d], latest[c])
                  ELSE downloads[d]]

----------------------------------------------------------------------------
(* The cells, on the main thread. *)

(* Slip: the operation of a load that never ran is registered with the view. *)
SetImageAtOnceRegistered(c, u) ==
  /\ u \in failedURLs \union memory
  /\ image' = [image EXCEPT ![c] = IF u \in failedURLs THEN Placeholder ELSE u]
  /\ latest' = [latest EXCEPT ![c] = Len(loads) + 1]
  /\ loads' = LoadsWithout(c)
  /\ UNCHANGED ioQueue

(* The image that is there at once: that of the memory cache; or the       *)
(* placeholder, which stays when the URL has failed before.                *)
SetImageAtOnce(c, u) ==
  /\ u \in failedURLs \union memory
  /\ image' = [image EXCEPT ![c] = IF u \in failedURLs THEN Placeholder ELSE u]
  /\ latest' = [latest EXCEPT ![c] = 0]
  /\ loads' = LoadsWithout(c)
  /\ UNCHANGED ioQueue

(* loadImageWithURL, as far as the disk query. *)
LoadImage(c, u) ==
  /\ u \notin failedURLs \union memory
  /\ Len(loads) < MaxLoads
  /\ image' = [image EXCEPT ![c] = Placeholder]
  /\ latest' = [latest EXCEPT ![c] = Len(loads) + 1]
  /\ loads' = Append(LoadsWithout(c), [cell |-> c, url |-> u, state |-> "cache"])
  /\ ioQueue' = Append(ioQueue, Len(loads) + 1)

(* sd_setImage. *)
SetImage(c, u) ==
  /\ CancelLoad(c)
  /\ SetImageAtOnce(c, u) \/ LoadImage(c, u)
  /\ UNCHANGED <<URLOperations, adding, overtaken, cacheVars, mainQueue>>

(* setCellValues returns before sd_setImage, and cancels nothing. *)
SetNoImage(c) ==
  /\ image' = [image EXCEPT ![c] = Nothing]
  /\ UNCHANGED <<latest, loads, downloadVars, cacheVars, ioQueue, mainQueue>>

(* cellForRowAt: a cell is new or reused, prepareForReuse, setCellValues. *)
CellForRow(c, poster) ==
  /\ adding = 0
  /\ row' = [row EXCEPT ![c] = poster]
  /\ IF poster = NoUrl THEN SetNoImage(c) ELSE SetImage(c, poster)

----------------------------------------------------------------------------
(* The image cache. *)

(* queryDiskBlock: what is found goes to the memory cache on the ioQueue,  *)
(* and to the view through the main queue.                                 *)
QueryDisk(found) ==
  /\ ioQueue # <<>> /\ ioQueue' = Tail(ioQueue)
  /\ LET l == Head(ioQueue)
     IN IF Cancelled(l) THEN UNCHANGED <<memory, mainQueue>>
        ELSE /\ memory' = IF found THEN memory \union {loads[l].url} ELSE memory
             /\ mainQueue' = Append(mainQueue, [type |-> "queried", load |-> l, found |-> found])
  /\ UNCHANGED <<viewVars, loads, downloadVars, failedURLs>>

(* The memory cache drops what it likes, when it likes. *)
Evict(u) ==
  /\ u \in memory /\ memory' = memory \ {u}
  /\ UNCHANGED <<viewVars, loads, downloadVars, failedURLs, ioQueue, mainQueue>>

----------------------------------------------------------------------------
(* The main queue. *)

(* What the view and the manager do when loads end: those of ls that are   *)
(* not cancelled leave the running operations, and the views take img.     *)
End(ls, img) ==
  LET ended == {l \in ls : ~Cancelled(l)}
  IN /\ loads' = [l \in DOMAIN loads |-> IF l \in ended THEN [loads[l] EXCEPT !.state = "done"] ELSE loads[l]]
     /\ latest' = [c \in Cell |-> IF latest[c] \in ended THEN 0 ELSE latest[c]]
     /\ image' = [c \in Cell |-> IF img # Nothing /\ \E l \in ended : loads[l].cell = c THEN img ELSE image[c]]

(* Slip: a finished operation takes callbacks. *)
ReusableFinished(d) == d # 0 /\ ~downloads[d].cancelled

(* An operation that will still be told of the network.  It may have       *)
(* answered already: until it is finished nobody can tell.                 *)
Reusable(d) == d # 0 /\ ~Finished(downloads[d]) /\ ~downloads[d].cancelled

(* downloadImageWithURL, as far as its check: the load is to join an        *)
(* operation; or it has one of its own, which no queue has without it.     *)
DownloadImage(l) ==
  LET u == loads[l].url
      d == URLOperations[u]
  IN \/ /\ Reusable(d)
        /\ adding' = l
        /\ overtaken' = IF downloads[d].state = "answered" THEN overtaken \union {l} ELSE overtaken
        /\ UNCHANGED <<loads, downloads, URLOperations>>
     \/ /\ ~Reusable(d)
        /\ loads' = [loads EXCEPT ![l].state = "download"]
        /\ downloads' = Append(downloads, [url |-> u, state |-> "pending", cancelled |-> FALSE,
                                           callbackBlocks |-> {l}])
        /\ URLOperations' = [URLOperations EXCEPT ![u] = Len(downloads) + 1]
        /\ UNCHANGED <<adding, overtaken>>

(* addHandlersForProgress, a step of its own: the operation's queues have  *)
(* gone on since the check, and it may have finished.  operationsLock is   *)
(* held from the check to here, so that it is still the one of its URL.    *)
AddHandlers ==
  /\ adding # 0 /\ adding' = 0
  /\ loads' = [loads EXCEPT ![adding].state = "download"]
  /\ downloads' = [downloads EXCEPT ![URLOperations[loads[adding].url]].callbackBlocks = @ \union {adding}]
  /\ UNCHANGED <<viewVars, URLOperations, overtaken, cacheVars, ioQueue, mainQueue>>

(* The manager after the disk query: the image, or the download. *)
Queried(b) ==
  /\ b.type = "queried"
  /\ \/ /\ b.found \/ Cancelled(b.load)
        /\ End({b.load}, loads[b.load].url)
        /\ UNCHANGED downloadVars
     \/ /\ ~b.found /\ ~Cancelled(b.load)
        /\ DownloadImage(b.load)
        /\ UNCHANGED <<latest, image>>
  /\ UNCHANGED cacheVars

(* The manager after the download, for each of its callbacks.  An error    *)
(* that is not the network's bars the URL until the process ends.          *)
Completed(b) ==
  /\ b.type = "completed"
  /\ End(b.loads, IF b.outcome = "image" THEN b.url ELSE Nothing)
  /\ LET heard == {b.url : l \in {k \in b.loads : ~Cancelled(k)}}
     IN /\ memory' = IF b.outcome = "image" THEN memory \union heard ELSE memory
        /\ failedURLs' = IF b.outcome = "blocked" THEN failedURLs \union heard ELSE failedURLs
  /\ UNCHANGED downloadVars

RunBlock ==
  /\ adding = 0
  /\ mainQueue # <<>> /\ mainQueue' = Tail(mainQueue)
  /\ Queried(Head(mainQueue)) \/ Completed(Head(mainQueue))
  /\ UNCHANGED <<row, ioQueue>>

----------------------------------------------------------------------------
(* The operations of the downloader, on their queues. *)

Becomes(d, state) ==
  /\ downloads' = [downloads EXCEPT ![d].state = state]
  /\ UNCHANGED <<viewVars, loads, URLOperations, adding, cacheVars, ioQueue>>

(* start. *)
Start(d) ==
  /\ downloads[d].state = "pending"
  /\ Becomes(d, IF downloads[d].cancelled THEN "finished" ELSE "executing")
  /\ UNCHANGED <<overtaken, mainQueue>>

(* callCompletionBlocksWithImage: the callbacks of this moment, without    *)
(* that of a load which is only about to join.                             *)
CallCompletionBlocks(d, outcome) ==
  /\ mainQueue' = Append(mainQueue, [type |-> "completed", url |-> downloads[d].url,
                                     loads |-> downloads[d].callbackBlocks, outcome |-> outcome])
  /\ overtaken' = overtaken \union {l \in {adding} \ {0} : URLOperations[loads[l].url] = d}
  /\ Becomes(d, "answered")

(* didCompleteWithError with an error: the network's own, or the server's. *)
Fail(d) ==
  /\ downloads[d].state = "executing"
  /\ \E outcome \in {"blocked", "unblocked"} : CallCompletionBlocks(d, outcome)

(* didCompleteWithError without one: the task is gone, decoding begins. *)
Receive(d) ==
  /\ downloads[d].state = "executing"
  /\ Becomes(d, "decoding")
  /\ UNCHANGED <<overtaken, mainQueue>>

(* The block of the coder queue; bad data bar the URL. *)
Decode(d) ==
  /\ downloads[d].state = "decoding"
  /\ \E outcome \in {"image", "blocked"} : CallCompletionBlocks(d, outcome)

(* done: finished, and the callbacks are forgotten. *)
Done(d) ==
  /\ downloads[d].state = "answered"
  /\ downloads' = [downloads EXCEPT ![d].state = "finished", ![d].callbackBlocks = {}]
  /\ UNCHANGED <<viewVars, loads, URLOperations, adding, overtaken, cacheVars, ioQueue, mainQueue>>

(* The completionBlock of a finished operation removes the one of its URL, *)
(* whichever that is by now, when it gets operationsLock.                  *)
RemoveOperation(d) ==
  /\ adding = 0
  /\ downloads[d].state = "finished"
  /\ downloads' = [downloads EXCEPT ![d].state = "removed"]
  /\ URLOperations' = [URLOperations EXCEPT ![downloads[d].url] = 0]
  /\ UNCHANGED <<viewVars, loads, adding, overtaken, cacheVars, ioQueue, mainQueue>>

----------------------------------------------------------------------------
Init ==
  /\ row = [c \in Cell |-> Nothing] /\ image = [c \in Cell |-> Nothing]
  /\ latest = [c \in Cell |-> 0]
  /\ loads = <<>> /\ downloads = <<>> /\ adding = 0 /\ overtaken = {}
  /\ URLOperations = [u \in Url |-> 0]
  /\ memory = {} /\ failedURLs = {}
  /\ ioQueue = <<>> /\ mainQueue = <<>>

Network(d) == Fail(d) \/ Receive(d)

Next ==
  \/ \E c \in Cell, poster \in Url \union {NoUrl} : CellForRow(c, poster)
  \/ \E found \in BOOLEAN : QueryDisk(found)
  \/ \E u \in Url : Evict(u)
  \/ RunBlock
  \/ AddHandlers
  \/ \E d \in DOMAIN downloads :
       Start(d) \/ Network(d) \/ Decode(d) \/ Done(d) \/ RemoveOperation(d)

(* The queues are served, the main thread goes on with the block it has    *)
(* begun, and a task ends: by its answer, or by the                        *)
(* downloadTimeout of 15 seconds.  Nobody has to touch the table.          *)
Fairness ==
  /\ WF_vars(\E found \in BOOLEAN : QueryDisk(found))
  /\ WF_vars(RunBlock)
  /\ WF_vars(AddHandlers)
  /\ \A d \in 1..MaxLoads :
       /\ WF_vars(d \in DOMAIN downloads /\ Start(d))
       /\ WF_vars(d \in DOMAIN downloads /\ Network(d))
       /\ WF_vars(d \in DOMAIN downloads /\ Decode(d))
       /\ WF_vars(d \in DOMAIN downloads /\ Done(d))

Spec == Init /\ [][Next]_vars /\ Fairness

----------------------------------------------------------------------------
(* A cell shows the poster of its own row, the placeholder or nothing,     *)
(* however its earlier loads end.  The exception is a row whose poster is  *)
(* no URL: setCellValues leaves without cancelling, and the load of the    *)
(* row before may still put its image there.                               *)
PosterOfRow ==
  \A c \in Cell : image[c] \in Url => image[c] = row[c] \/ row[c] = NoUrl

(* What is being downloaded is wanted: some load of that URL waits for it  *)
(* and would be told; and a later load would find it, unless the           *)
(* completion block of an older operation has removed it from the table.   *)
DownloadsWanted ==
  \A d \in DOMAIN downloads :
    downloads[d].state \in {"pending", "executing"} /\ ~downloads[d].cancelled =>
      /\ downloads[d].callbackBlocks # {}
      /\ \A l \in downloads[d].callbackBlocks :
           loads[l].state = "download" /\ loads[l].url = downloads[d].url
      /\ \/ URLOperations[downloads[d].url] = d
         \/ \E e \in 1..(d - 1) : downloads[e].url = downloads[d].url /\ downloads[e].state = "removed"

(* Each load ends: with the image, with an error, or cancelled by a reuse. *)
(* The exception is a load that found its operation unfinished and was     *)
(* added after the operation had collected its callbacks, be it before or  *)
(* after done: it is never called back and waits for ever, under the       *)
(* placeholder.                                                            *)
LoadsEnd ==
  \A l \in 1..MaxLoads :
    l \in DOMAIN loads ~>
      l \in DOMAIN loads /\ (loads[l].state \in {"done", "cancelled"} \/ l \in overtaken)
===============================================================================
