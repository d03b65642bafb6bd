# MyMovies: TLA+ models, checks and proofs

MyMovies is an iOS app (about 2000 lines of Swift in `src/src/main`, Model-View-Presenter)
that searches films in OMDb, keeps favourites in Core Data and shares films with the other
users of the app through a Firebase Realtime Database. Its own code is small; what makes it
hard is what runs between its callbacks: three navigation stacks kept alive under one tab bar,
requests nobody cancels, a spinner shown through a timer and two blocks of the main queue, posters
that arrive for cells already reused, and a database client with its own thread, its own queue and
its own retries.

The repository also vendors its pods. Three of them carry state the app depends on and are
modelled from their source: `SDOSLoader` (the spinner), `SDWebImage` (the posters) and
`FirebaseDatabase` (the shared films). A fourth, `leveldb-library`, is the storage engine
`FirebaseDatabase` links, and the only C++ in the repository; it is modelled in five modules of
its own. UIKit, Alamofire and the Firebase server are modelled from how the code uses them.

Paths below are relative to `src/src/main` or to `src/src/Pods`, unless they start with `src/`.

## The system

| Part | State | Operations | Talks to |
|---|---|---|---|
| Favourites list (`FavouritesController`, its presenter and model) | `favouritesMovies` | refetch at each `viewDidAppear`, open a row | the store, synchronously |
| Store (`StorageService`, `Movie.xcdatamodel`) | rows of `MovieEntity`, unique by `imdbID` | load, fetch, count, insert, save | every screen, through one context of the main thread |
| Detail screen (`MovieDetailController`, its presenter and model) | `imdbID`, `movieDetailDto`, `isFavourite`, the button, the poster's frame | load, add and remove a favourite, share, zoom | OMDb, the store, Firebase, the loader manager |
| Search screen (`MovieController`, `MoviesPresenter`, `MoviesModel`, `ApiManager`) | text, `moviesDto`, requests under way | search while typing, search button, cancel button, open a row | OMDb through Alamofire, the loader manager |
| Recommended list (`RecommendedMoviesTableViewController`, its presenter, `RecommendedModel`) | `movies`, the rows of the table, `recommendedMovies` | observe at each `viewDidAppear`, open a row | Firebase, the loader manager |
| Tab bar and navigation (`CustomTabBar`, storyboard) | selected tab, one stack per tab | select, push, pop | all screens |
| Movie cells (`MovieCell`) and `SDWebImage` | each view's load, memory cache, failed URLs, downloads, three queues | set an image, cancel, query the disk, download, decode | the network, the main queue |
| `LoaderManager` (SDOSLoader) | scheduled timers, blocks of the main queue, `activeLoaders` | show, hide, hide those of a view, hide all | the run loop |
| Firebase client | registrations, view cache, outstanding puts, connection | observe, set, reconnect, acknowledge | its queue, the main queue, the server |
| leveldb: writes and recovery (`db/db_impl.cc`) | queue of writers, log, two memtables, counters, manifest, files | write, flush, merge, delete files, close, crash, recover | the file system, one background thread |
| leveldb: versions and reads (`db/version_set.cc`) | tables in levels, snapshots, held versions | flush, compact, `CompactRange`, `Get`, snapshots, iterators | the same threads |
| leveldb: iterators (`db/db_iter.cc`, `table/merger.cc`) | position of each child, direction, saved key and value | seek, next, previous, against insertions | the memtable and tables of one version |
| leveldb: log format (`db/log_writer.cc`, `db/log_reader.cc`) | `block_offset_`, buffer, fragments | add a record, read a record, over failing and torn files | the file |
| leveldb: table cache (`util/cache.cc`, `db/table_cache.cc`) | entries, references, two lists, a hash table, usage | find, open, release, evict, prune | readers on any thread |
| Launch services, DTOs, utilities, library list | none, or one value | | |

What is hard, part by part, and what makes each part correct:

* **Favourites.** The same film can be open in three tabs at once, while the list under one of
  them holds a copy of the store. Correct means: the list on the screen is the store; a button
  tells the truth about its film as far as its own screen can know; a row changes only by a tap
  on that film, whatever answers, other screens or restarts come in between.
* **Loader manager.** A show takes a timer and a block, a hide takes a block and cancels a timer,
  and neither side fixes the order of timers and blocks. Correct means: each loader ends as it was
  last asked to be.
* **Search.** Answers come in any order, over spinners that may not be on yet. Correct means: a
  search that ends leaves no spinner, and the list is the one asked for last.
* **Recommended list.** Every visit empties the movies, keeps the rows, and adds an observer whose
  event comes back through two queues. Correct means: when the queues are empty the list is the
  database's, once, and every row has a movie behind it.
* **Sharing.** A share is three writes that are kept in memory, sent, answered, and sent again
  by each new connection. Correct means: the fields of an entry arrive in order, and all of them
  arrive unless the process dies.
* **Posters.** An active load is the `latest` of its cell and loads the poster of the cell's row, unless that
  is no URL; every other load is done or cancelled, which is what a block of the main queue looks at before it
  sets an image (`LatestRight`, `BlocksRight`). For `DownloadsWanted`: a callback sits in one operation only
  and its load waits for it (`CallbacksRight`); the disk answers in the order of the loads, and each download
  was made by a load before those (`QueriesInOrder`); an operation that runs has callbacks and is the one of
  its URL, unless the completion block of an older one displaced it (`OperationsRight`).
* **leveldb's writes.** Groups of writes are logged without the mutex by whoever is first in the
  queue, flushed and merged by another thread, and any write to a file may fail or be the last.
  Correct means: what was acknowledged is there after a crash as far as `sync` promises it, no file
  that is needed is deleted, no number is used twice, and nobody sleeps through the signal meant for
  him.
* **leveldb's reads.** Entries move down through levels, and are dropped, under readers that hold
  snapshots and versions. Correct means: every `Get` finds the last write its snapshot may see.
* **leveldb's iterators, log and cache.** An iterator that turns round while entries are inserted;
  records in fragments in blocks in a torn file; an open table shared, evicted and opened twice.
  Correct means: the walk is that over the snapshot; the reader returns records that were added, whole
  and in order, and all those before the first damage; no handle outlives its table.

## The modules

| Module | What it is |
|---|---|
| `FavouriteSet` | abstract: a set that outlives the process, and a list that copies it |
| `Favourites` | store, favourites list, detail screens, tabs and stacks; implements `FavouriteSet` |
| `LoaderManager` | SDOSLoader's manager and the `removeLoadingView` of the controllers |
| `MovieSearch` | the search screen, composed with an instance of `LoaderManager` |
| `RecommendedList` | the recommended list over Firebase's observation |
| `SharedMovies` | sharing on several devices, over outstanding puts and connections |
| `MoviePosters` | cells over SDWebImage: views, manager, image cache, downloader, operations |
| `DurableStore` | abstract: what a database promises its writers, crashes and failures included |
| `LevelDBWrites` | leveldb's writers, background thread, files and recovery; implements `DurableStore` |
| `LevelDBVersions` | leveldb's levels, compactions, snapshots and reads |
| `LevelDBIterator` | one iterator over several children, with a writer beside it |
| `LevelDBLog` | the record format of the log and the manifest |
| `LevelDBCache` | the cache of open tables and its users |
| `FavouritesProofs`, `MoviePostersProofs`, `LevelDBWritesProofs`, `LevelDBVersionsProofs` | the theorems about those modules |
| `LevelDBReadProofs` | those about `LevelDBCache` and `LevelDBIterator` |
| `SearchAndShareProofs` | those about `MovieSearch` and `SharedMovies` |
| `LoadedListProofs` | those about `LoaderManager` and `RecommendedList` |
| `LevelDBDurabilityProofs` | those about `LevelDBLog` and `DurableStore` |
| `MC...` | instances for TLC |

An operator called *Slip* in a comment is a plausible mistake in the definition that follows it.
No specification uses them; each shows, put in the place of that definition, that a property
would notice.

### Favourites

One action is one callback of the main thread, run to its end, because Core Data's `viewContext`,
UIKit and Alamofire's handlers all run there. `store` gives each film its row: absent, favourite,
or there with `isFavourite` false (removing keeps the row). `stack` holds the detail screen each
tab has pushed, and `imdbID`, `request`, `dtoID`, `isFavourite`, `favButton` are the state of each
screen. `OpenDetail` is `didSelectRowAt` followed by `viewDidLoad`; `SuccessSearch` and `Failed`
are the answer of OMDb, which comes whether the screen is visible, in another tab or popped.
`AddToFavourites` keeps the code's two branches in `Added` and `Inserted`: count, then update the row
or insert one under the merge policy (`NSMergeByPropertyStoreTrumpMergePolicy`), by which the
stored row would win. `SaveFails` is `fatalError` of `saveContext`, `CountFails` the unwrapping of
the flag when the count throws; both, like `ProcessDies`, are followed by a launch that keeps only
the store. A screen whose controller is released stands for the next one the storyboard makes.

`outdated` is a history variable: the screens whose film another screen changed after they last
read or wrote it. The code does not refresh those, and `ButtonHonest` says that they are the only
ones whose button can be wrong.

### LoaderManager and MovieSearch

`timers` are the scheduled `perform(_:with:afterDelay:)`, `queue` is the main queue with the blocks
the manager and the controllers put on it, `active` is `activeLoaders`. `ShowLoader` contains the
`hideLoader` the code starts with. `HideLoaderOfView` hides those that are active at that moment, in
any order of the dictionary. `wanted` is history: what each loader was last asked.

`LoaderNext` lets callers call anything at any time. `MovieSearch` takes the same actions through
`INSTANCE` as the manager of its only view: each long text makes a loader with the number of its
request. A request carries its text and its answer; `Answered` may happen to any of those sent.
`early` (answered before the loader was active) and `late` (answered after a later one) are history.

### RecommendedList

Two threads: the main thread handles `inbox`, Firebase's queue handles `registering`. `movies` and
`rows` are kept apart: `rows` is what the table got at its last `reloadData`, since the code empties
`movies` without reloading. Lists are counted per film, the order of a dictionary being arbitrary.
`DidSelectRow` on a row that has no movie traps, and the app is launched again. `view` is Firebase's
view of the root: without listeners, listening, or complete; a registration on a complete view gets its
event at once (`FView.initialEvents`); a failed listen removes every registration with a cancel event.

### SharedMovies

`ShareTapped` puts three `setValue` blocks on Firebase's queue; `Set` makes each an outstanding put and
sends it when there is a connection; `OnReady` sends all outstanding puts again in the order of their
index (`restoreState`); `PutAcknowledged` removes the oldest; `OnDisconnect` forgets what was on its
way; `ProcessDies` forgets everything, because the app does not turn Firebase's persistence on. The
server applies the puts of a connection in order. `loaded` is whether `movieDetailDto` was there: a nil
value removes a field. `shared`, `erased` (shared before they were loaded) and `lost` (the process died
with a put outstanding) are history.

### MoviePosters

Four kinds of threads: the main thread, the cache's `ioQueue`, the download queue, and the queues on
which an operation hears of the network and decodes. `row` is the poster of the row each cell shows,
`image` what the view shows, `latest` the load in the view's `sd_operationDictionary`. A load is a
`SDWebImageCombinedOperation`: at the cache, at its download, done or cancelled. A download is a
`SDWebImageDownloaderOperation`: pending, executing, decoding, answered (its callbacks are collected and
on the main queue), finished, and removed from `URLOperations` by its `completionBlock`.

`CellForRow` is `cellForRowAt` with `prepareForReuse` and `setCellValues`, and everything those call on
the main thread: `sd_setImage` cancels the load of the row before, down to the token of its download
(`CancelToken`: the last token cancels the operation), sets the placeholder, and asks the memory cache.
`QueryDisk` is one block of the `ioQueue`; `RunBlock` is one of the main queue, `Queried` after the disk
or `Completed` after the download. `Start`, `Fail`, `Receive`, `Decode`, `Done` and `RemoveOperation` are
what an operation does on its own queues.

Joining an operation takes two steps of the main thread. `DownloadImage` checks that it is neither finished
nor cancelled (`SDWebImageDownloader.m:209`) and remembers the load in `adding`; `AddHandlers` adds it (line
239). Between them the main thread does nothing else and `operationsLock` is held, so no cell changes, no
block runs and no `RemoveOperation` happens; but `start`, the answer and `done` do not take that lock, and
the operation may go on, to its end even. `overtaken` is history: the loads whose operation had collected
its callbacks before they were added, whether it was finished by then or not.

### DurableStore and LevelDBWrites

`DurableStore` has four variables: the `answer` to each writer, the `store` (which writes, and in which
order), those that are `durable`, and those that are `exposed`. A group enters the store whole, behind
what is there. A crash of the process keeps everything but what is exposed, a loss of power what is
durable; either may find writes that were never answered, or refused, behind the rest. Only writes behind
a failed one are ever exposed.

`LevelDBWrites` is the machinery. A step is what a thread does between two releases of `mutex_`, or one
write to a file. A writer goes from `Call` (join the queue) to the head of it, through the loop of
`MakeRoomForWrite` (`YieldError`, `HaveRoom`, `Sleep`, `Switch`, `NoNewLog`), to `LogRecord`, `SyncLog` and
`Finish`, which answers the whole group that `BuildBatchGroup` put together (`GroupSize`, `Joins`). A
null batch (`TEST_CompactMemTable`) forces a switch and awaits the flush. The background thread serves one
call at a time: `BeginFlush`, `BuildTable`, `WriteManifest`, `InstallFlush`; `BeginMerge`, `OpenOutput`,
`FinishOutput`, `WriteManifest`, `InstallMerge`; a flush may start in the middle of a merge, as
`DoCompactionWork` does it. Both installs delete obsolete files (`Cleaned`), but not after an error. Every
write to a file has an action that fails. `Close` waits for the background; `Crash` ends the process at
any moment, the recovery included, and says which records of which log a reader will find. `DB::Open` is
`Recover` (the version the manifest holds, and the logs to read), `RecoverLogFile` for each of those logs in
turn (a table at level 0, its number, the numbers of its entries), `Recovered` (a new log), `WriteManifest`
and `Opened`.

The refinement (`Promise`) maps the store to the entries in tables and memtables, or, while the database is
down, to those the manifest and the intact records of its logs hold; durable are those in tables the
manifest names or in synced records; exposed are those in the store that such a recovery would not find.

### LevelDBVersions

An entry is its sequence number, and `written`, a history, says which key it wrote or deleted. `Write`,
`Switch` and `Flush` bring entries to a table at the level `PickLevelForMemTableOutput` chooses.
`PickCompaction` and `CompactRange` choose inputs through the whole of the code's rules: overlapping
inputs at level 0, `AddBoundaryInputs`, `SetupOtherInputs` with its expansion, the trivial move.
`FinishCompaction` drops what `DoCompactionWork` drops and cuts the outputs anywhere. Sizes do not
appear: wherever the code decides by bytes, both ways are open. `Get` is the search itself, by level and
by binary search, and is compared with `Answer`, the last write of the key, 0 when that is a deletion. `cut`,
another history, collects the keys whose entries a compaction left in two of its outputs. The
loops over levels and over growing inputs are stated by what they find: the first place that knows the key,
the least set of tables closed under overlap.

### LevelDBIterator

`MergingIterator` is given by functions of its state (`MergerNext`, `MergerPrev`, ...), `DBIter` by actions: a
call (`SeekToFirst`, `Seek`, `Forth`, `Back`, ...) goes as far as its loop, and a step of `FindNextUserEntry`,
`FindPrevUserEntry` or `TurnRound`, the loop in `DBIter::Prev`, is one pass of it with the move of the merger
that ends it. `SkipListInsert` puts entries with new sequence numbers into the first child, the memtable,
between any two of these steps; the other children never change. A move calls the memtable's iterator
once, and is atomic for that; only where the merger turns to go back does it call it twice, `Seek` and then
`Prev` or `SeekToLast`, which are `OthersSought` and `Turned`. `call` is the loop the iterator is in. `at` is
history, chosen when a call begins: the key where a walk over the snapshot would be after it.

### LevelDBLog

A byte is the number of the fragment it belongs to and its place in it, so that the model can tell which
bytes are whose without checksums. `EmitPhysicalRecord` is one turn of `AddRecord`'s loop, trailer included;
`EmitPhysicalRecordFails` leaves any part of it in the file and moves `block_offset_` all the same. `Stop`
cuts the file anywhere. The reader has one action for each way out of `ReadPhysicalRecord`. A header put
together from the bytes of several fragments may mean any length and has a wrong checksum.

### LevelDBCache

Each call of `LRUCache` holds its mutex and is one step: `Ref`, `Unref`, `Insert` with its evictions, `Erase`,
`Prune`. `TableCache::FindTable` is three: a miss, the opening without any lock, and the insertion.
Entries are addresses, which `malloc` gives out again. A user holds a version with his file
while he reads; a compaction takes a file out of the current version, and `Evict` comes when no version
has it any more.

## The runs

| Run | Instance | Shows |
|---|---|---|
| `favourites` | 2 films, 3 screens, symmetry | `ListMatchesStore`, `ButtonHonest`; `OnlyTheTappedMovieChanges`; `ImplementsFavouriteSet` |
| `loader` | 3 loaders in 2 views, calls while fewer than 3 blocks wait | `SettledAsAsked`: no order of calls, timers and blocks loses a hide or a show; `HiddenForGood`, `ShownAtLast` under fairness |
| `search` | 2 requests, 4 texts | `SpinnersLeft`: the only spinners left are those of failed searches and of answers that overtook them; `ListFreshUnlessLate`; `SpinnerGone` under fairness |
| `recommended` | 2 films, 3 appearances per process | `ListCurrentWhenQuiet`, `RowsBeyondMoviesOnlyWhenEmptied`; `RowsCatchUp` under fairness |
| `shared` | 2 devices, 1 film, a device shares again with one write waiting | `FieldsInOrder`, `SharedIsComplete`; `SharedAtLast` under fairness |
| `posters` | 2 cells, 2 posters and one that is no URL, 2 loads that miss the memory (130 thousand states) | `PosterOfRow`, `DownloadsWanted`; `LoadsEnd` under fairness; `TypeOK` |
| `db_writes` | 4 writers (two plain, one synced, one null batch), 1 close or crash, 1 failing write (353 thousand states) | `NothingMissing`, `NumbersFresh`, `NobodyForgotten`; `Promise`: it implements `DurableStore`; `TypeOK` |
| `db_compaction` | 4 writes to 2 keys, 3 levels, 1 snapshot or iterator at a time (888 thousand states) | `LastPutFound`, `DeletedStaysDeleted`, `HeldFilesExist`, `LevelsDisjoint`, `OlderBelow` |
| `levels_overlap` | 5 puts to 3 keys, a flush inside a manual compaction | ends in a violation of `LevelsDisjoint`, see below |
| `db_iterator` | 2 children, up to 3 entries in any of them and 1 insertion, 3 keys (882 thousand states) | `CursorRight`; `IteratorTypeOK` |
| `log_format` | blocks of 6 bytes, headers of 2, records of 0, 1, 3 and 8, up to 3 records and 2 failures (436 thousand states) | `ReadsOnlyRecords`, `NothingLostBeforeFlaw`, `TornTailIsNoCorruption`; `ReadEnds` under fairness |
| `table_cache` | 3 files, 2 users, 4 addresses, capacities 0, 1 and 2 (392 thousand states) | `HandlesGood`, `ListsRight`, `UsageBounded`, `EvictedAreClosed` |

`levels_overlap` takes the assertion of `version_set.cc:747` ("Must not overlap", lines 724-731 and
747) as the property. `CompactRange` may choose inputs with a gap between them; a memtable that fills
while they are merged is flushed from inside `DoCompactionWork`, and `PickLevelForMemTableOutput`
(`version_set.cc:491`) looks at the current version, where nothing lies in the gap, and not at the
outputs under way, one of which reaches across it. In `db_compaction` the constant `ManualQuiet`
leaves that interleaving out, and everything else holds; automatic compactions have no such gap. This
repository uses leveldb so: outside leveldb itself nothing calls `CompactRange`.

In `db_iterator` the merger's turn is overtaken by writers, which its comments leave out ("Ensure that all children
are positioned before key()", `merger.cc:84`; "Step back one to be < key()", line 95). An entry of a larger
key that is inserted into the memtable between `child->Seek(key())` and `child->Prev()` or `child->SeekToLast()`
is where the child steps back to; `FindLargest` then chooses it, and the merger's `Prev` has gone forward.
Callers see nothing of it: the entry is newer than the snapshot, and the loop in `DBIter::Prev` goes back until
the user key changes. That is what `CursorRight` says of such turns, and `CoversTurn` why.

`DeletedStaysDeleted` excepts the keys in `cut`, those an output of a compaction was once cut inside of. The
comment that lets `DoCompactionWork` drop a deletion (`db_impl.cc:955`) says that what is older "will be
dropped in the next few iterations of this loop". A snapshot makes one compaction keep both the deletion of a
key and an older put of it, and the output is cut between the two; the snapshot is released. The next
compaction chooses, at the level above, tables that overlap only the first of the two. `SetupOtherInputs`
(`version_set.cc:1410`) takes that one in and adds boundary tables to the upper level only;
`IsBaseLevelForKey` looks from two levels below on; the deletion is dropped, and `Get` finds the put again.
TLC finds this with the writes of `db_compaction` when the exception is left out. A put is never lost that
way (`PutsAreFound`), and no other deletion comes back (`DeletionsHold`).

### Bounds

* `Screen` (3): one detail screen per tab with rows is all the storyboard allows; a screen popped
  with its request pending occupies a value until the answer, so all cases with up to three
  controllers alive are there. `Movie` (2): one film that changes and one that must not. In `shared`
  films do not interact except through their order in one device's puts, and one suffices for it.
* `MaxQueue` (3): callers wait while three blocks are queued; timers and the show blocks they
  make come on top, so that a hide, a show and a removal of the same loader meet in every order.
* `MaxRequests` (2): two answers out of order need two requests.
* `MaxObservers` (3), `MaxInbox` (3): repeated events of several visits. The data change only while
  fewer than three events wait, but each change appends one per observer, so up to five wait.
* `MaxOutstanding` (2): a device may share again while one write of the share before waits.
* `MaxLoads` (2): two loads share a download, join it late, or succeed one another in one cell; loads
  answered at once by the memory cache or refused as failed are not counted. With three loads, states
  under symmetry (4.4 million) satisfy the three invariants too; liveness has been run with two.
* `LevelDBWrites`: the memtable is full after one write (`MemLimit` 0), level 0 is due at one table and
  stops writers at two, so that every wait, switch, flush and merge happens with four writers. The group
  limits are such that a group of two and a group cut off by its size both occur. One crash or close and
  one failure, anywhere, together: a failure followed by a crash is the case the promise is about.
* `LevelDBVersions`: three levels give a compaction a level above, one below its output and the one
  `IsBaseLevelForKey` looks at. Four writes to two keys give each key older entries below and beside, and
  an output something to be cut between; the third is a deletion of either, and the put that follows may be of
  the deleted key. `MaxReaders` 1: a snapshot or an iterator at a time, taken and released anywhere; a compaction
  looks at the oldest snapshot only, and versions are held one by one. `MaxMemLevel` 1 lets a flush skip a level.
* `LevelDBIterator`: three entries in two children cover entries before, behind and at the cursor in
  the same and in another child, hidden versions and deletions; one insertion at any moment is what a turn
  can be overtaken by, and further ones are as invisible as the first.
* `LevelDBLog`: sizes 1 and 3 leave trailers of each length, 8 needs three blocks, 0 is a record without
  bytes; two failures put two flaws in one file, or one flaw and one failing read.
* `LevelDBCache`: two users are what a race needs; four addresses are one more than both users and the
  largest capacity keep, so that freed addresses come back.

Deadlock is checked in the runs of the app, `posters` among them. The runs of leveldb say
`CHECK_DEADLOCK FALSE`: they come to a rest when each writer has his answer and no restart is left, when the
writes are used up, when the reader is done, or when every file is evicted.

### Fairness

Users, the network and the server owe nothing, except where said.

* `LoaderManager`, `MovieSearch`: weak fairness of running a block of the main queue and of firing each
  timer. A run loop serves both; nothing else is assumed about their order.
* `RecommendedList`: weak fairness of handling an event and of registering an observer, the two queues.
* `SharedMovies`: weak fairness of Firebase's queue and of `OnReady`, since `tryScheduleReconnect` retries
  for ever; strong fairness of the server applying a put and of its answer arriving, that is, a
  network that keeps coming back does not lose each message every time. Without it no protocol
  delivers.
* `MoviePosters`: weak fairness of each queue, of the main thread's way from the check of an operation to
  `AddHandlers`, and of each step of an operation. A task ends by an answer or
  by `downloadTimeout`, 15 seconds (`SDWebImageDownloaderConfig.m:27`). Nobody has to touch the table, and
  the `completionBlock`, which runs on a queue of its own, may never come.
* `LevelDBLog`: weak fairness of the reader, a loop.
* `Favourites` and the other modules of leveldb state no fairness: they promise no progress. That nobody
  sleeps for ever is the invariant `NobodyForgotten`: whoever sleeps has a signal coming.

## What the code does not do

Known weaknesses met while modelling. The models contain them, and each property names what it excepts.

* `LoaderManager.swift:164`: `hideLoaderOfView`, documented as hiding all the loaders of the view (line
  160), misses those shown just before, which come on afterwards (`early` in `SpinnersLeft`).
* `MovieController.swift:93`: the search button sends texts of any length, against `src/README.md:14`.
* `MovieController.swift:67`: an answer to an earlier text that arrives last replaces the list (`late` in
  `ListFreshUnlessLate`).
* `RecommendedMoviesTableViewController.swift:41`: an appearance empties the films under the rows; a row
  touched before the next event is out of range (`RowsBeyondMoviesOnlyWhenEmptied`).
* `MovieDetailController.swift:75`: sharing before the detail is loaded sets three nil values, which erases
  what another user shared (`erased` in `FieldsInOrder`, `SharedIsComplete`, `SharedAtLast`).
* `MovieCell.swift:39`: a poster that is no URL leaves `setCellValues` without cancelling the load of the
  row before, whose image may land on the new row (the exception of `PosterOfRow`).
* `SDWebImageDownloader.m:209`: the check that an operation is not finished and the adding of the load to it
  (line 239) are two steps, and so are the collecting of the callbacks and `done`. A load added after the
  collecting, before `done` or after it, is never called back (`overtaken` in `LoadsEnd`); the lock the
  comment at line 236 speaks of orders the steps and does not join them. `SDWebImageDownloader.m:226`: the `completionBlock` of an old operation removes a
  newer one of the same URL from the table (the exception of `DownloadsWanted`).
* `merger.cc:84`: a child may be behind `key()` after the merger has turned; no value is missed.
* `version_set.cc:491`: a memtable flushed inside a manual compaction may go to a level where it overlaps an
  output under way (`levels_overlap`).
* `version_set.cc:1410`: after a snapshot has kept a deletion and an older put of the key, a compaction may
  drop the deletion alone (`cut` in `DeletedStaysDeleted`).
* `db_impl.cc:1215`: after an `AddRecord` that failed, later writes go on behind a torn record and are
  acknowledged, synced ones too, though a recovery may not read them (`exposed`).

## The proofs

Every theorem holds for all values of the constants that satisfy the module's named assumptions
(`NoID \notin Movie` and the like; `LogAssumption`, that a header fits in a block; `CacheAssumption`,
`IteratorAssumption` and `WritersAssumption`, that the sets are finite; `BoundsAssumption`, that limits are
numbers; `NoneAssumption`, that no memtable is taken for none). Five results about `LevelDBVersions` assume `ManualQuiet` besides, without which
the run `levels_overlap` shows the order violated. None rests on anything else.

| Module | Theorems |
|---|---|
| `FavouritesProofs` | `TypeCorrect`, `InductiveInvariant`, `ListCorrect`, `ButtonCorrect`, `TapsAlone`, `Refinement` |
| `LoadedListProofs` | `LoaderInvariant`, `LoaderTypeCorrect`, `LoadersSettle`; `RecommendedInvariant`, `RecommendedTypeCorrect`, `ListEndsCurrent`, `RowsBeyondOnlyWhenEmptied` |
| `SearchAndShareProofs` | `SearchInvariant`, `SearchTypeCorrect`, `ListFresh`, `SpinnersAccounted`; `SharedInvariant`, `SharedTypeCorrect`, `InFlightCorrect`, `FieldsArriveInOrder`, `SharedEndsComplete` |
| `LevelDBReadProofs` | `CacheInvariant`, `TypeCorrect`, `CountCorrect`, `HandlesCorrect`, `ListsCorrect`, `UsageCorrect`, `EvictionCorrect`; `CursorInvariant`, `IteratorTypeCorrect`, `CursorIsRight` |
| `MoviePostersProofs` | `PostersInvariant`, `PostersTypeCorrect`, `PosterMatchesRow`, `DownloadsAreWanted` |
| `LevelDBWritesProofs` | `WritesInvariant`, `WritesTypeCorrect`, `FilesAreKept`, `NumbersAreFresh`, `NobodyIsForgotten`, `WritesImplementStore` |
| `LevelDBVersionsProofs` | `VersionsInvariant`, `VersionsTypeCorrect`, `HeldTablesExist`, `PresentInvariant`; with `ManualQuiet`: `OrderInvariant`, `TablesDoNotOverlap`, `DeeperIsOlder`, `PutsAreFound`, `DeletionsHold` |
| `LevelDBDurabilityProofs` | `LogInvariant`, `LogTypeCorrect`, `WriterAligned`, `ReaderInvariant`, `LogReadsOnlyRecords`, `NothingLostInLog`, `TornTailIsSilent`; `StoreTypeCorrect`, `NoLoss`, `DurabilityHolds`, `AnswersHold` |

The arguments:

* **Favourites.** `ListMatchesStore` and `ButtonHonest` are not inductive alone. A tap writes the row of
  `dtoID` and says what to write by `isFavourite`, while `TapsAlone` speaks of the film the screen was opened
  with and of the image on the button, so the invariant also needs `ScreenLoaded`: a loaded screen's `dtoID`
  is its `imdbID`, and its image is that of its flag. And a change of a row keeps the list right only because
  no tap happens while the list is on the screen. In the refinement taps are `Add` or `Remove`, appearances
  `Show` or `ShowFails`, leaving `Hide`, launches `Restart`, everything else a stutter.
* **Loader manager.** What a loader was last asked is what it will be: `OnItsWay`. Wanted, it has its timer,
  or its show is the last word of the queue about it, or it is active and nothing queued hides it; and the
  other way round. When timers and queue are empty only the last case is left.
* **Search.** The list needs nothing but itself. For the spinners, `ShownOnce` says the loader of a request
  waits for its timer, or for its one block, or is on, never two of these; `Leaving` says that one whose
  search succeeded after it came on is gone or has a block coming that hides it.
* **Recommended list.** The last value event on its way is the data, or an observation that will raise one
  is, or the list is the data already (`CurrentAtLast`); rows differ from the movies only if those are empty.
* **Sharing.** The writes of a device the server has not confirmed are its puts and then its calls
  (`Waiting`). Each is in its turn: the field before it is in the database, or is the write before it
  (`AllInTurn`). What is answered is there, and a field of a shared film is there or waiting (`NoFieldLost`).
  Sending again repeats a prefix of `Waiting`, and so keeps all of it.
* **Posters.** A load under way is the `latest` of its cell and loads the cell's row; one that is not is done
  or cancelled, and a block on the main queue looks at that before it sets an image (`LatestRight`,
  `BlocksRight`). For `DownloadsWanted`, each callback belongs to one load at its download and sits in one
  operation that has not answered yet (`CallbacksRight`, which leaves a finished one what was added too late;
  `JoinRight` says what the load that is about to be added joins); the query of the disk of a load precedes its
  download (`QueriesInOrder`); and an operation that is in no table any more is either over or was displaced
  by a newer one of its URL (`OperationsRight`).
* **leveldb's writes.** The head of the queue runs and all others are parked (`QueueRight`), and a call of the
  background is scheduled whenever somebody sleeps or there is work and no error (`CallsRight`). For the
  files: the tables of the version in use and of the manifest exist and have numbers below `next`; so do those
  of the edit under way (`EditRight`), while the table being built is in no version yet (`WorkRight`). Why
  cleaning is safe is `ManifestRight`: as long as there is no error, the manifest says what the version in use
  says, with the edit when that is written and not yet installed. After an error it may say either, and that
  is why nothing is deleted then. A recovery has read the logs that are not in `unread`, and their numbers are
  below `next` (`LogsRight`), so that the new log and the tables get numbers of their own.
* **leveldb's writes implement the store** (`WritesImplementStore`). `Entries` puts tables, memtables and
  records together by taking, of each writer, what any of them says; that this is well determined is the
  heart of it. `RInv(N)` says that one number `N[w]` per writer is what all batches, memtables, logs and
  tables with its entry agree on (`Agreed`), whether in use, obsolete or left behind by a crash. Then each
  map of the refinement is a set of writers with their numbers, and a step needs only to say which sets it
  moves. `N` may change only when a group is formed (`Proceed`, in `HaveRoom` and `Switch`): it takes the next numbers, and
  its writers have no entry anywhere yet (`PlacesRight`). The numbers that are kept are no larger than the last
  one, in memory, in the manifest and in the edit (`NumbersRight`), so that what comes is behind what is
  there, after a restart too. For the crashes, `LogKept` says where the entries of a log are: those of an
  older one in imm or in the manifest, those of the last one in the memtable, in the group being written, or
  of a write whose sync failed; `LastRight` that a record is flawed only if a write failed, and that whoever
  is about to be answered has its record there, synced if it asked for it. `WorkKept` says that a table holds
  what it replaces, and `RecoveryKept` that a recovery has in its tables what it replayed. A call
  is `Ask`, `Finish` is `Commit`, or `Refuse` as the other answers with an error are, the end of a process
  is `ProcessCrash` or `PowerLoss`, and every other step, those of the background thread and of the recovery
  included, is at most `Settle`: what they change is in which file an entry is, never whether it is found.
* **leveldb's versions.** Four invariants, each resting on those before.
  `StoreInv`: the tables of every version that is held are on disk, none is empty, numbers are fresh, and the
  inputs of a compaction belong to the version it holds; nothing else is needed for `HeldFilesExist`.
  `OrderInv`: of two tables of a level below 0 one wholly precedes the other (`LevelsApart`), of one user key
  what is deeper is older (`LevelsOrdered`), at level 0 what has the smaller number is (`NewestLast`). A
  compaction keeps these only because of what its inputs are and stay while it runs (`Underway`): `in0` leaves
  no older entry of its keys in its level, which is what `AddBoundaryInputs` is for, or at level 0 the
  closure of `OverlappingInputs`; each other table of the next level is wholly before or behind all inputs and
  has no key of `in0`; and the inputs of an automatic compaction leave no gap, every key between them being in
  the range of one (`Covered`, from `Convex`), so that a memtable flushed meanwhile either meets an input, and
  stays above, or lies outside. A manual compaction has gaps, and there `ManualQuiet` enters.
  `PresentInv`: the newest put that a reader may see is in the tree. A compaction drops an entry that a newer
  one of the same key, seen by the smallest snapshot, hides; `SmallestIsLow` says that no reader is below it.
  Where it is found: a key's entries are ordered by place (memtable, the one before it, the levels), and the
  first place that knows the key, `FirstPlaceKnows`, finds in it the newest entry that the reader may see,
  the binary search included. That is `PutsAreFound`.
  `DeleteInv`, for the keys that are not in `cut`: as long as anything of a key that a reader might take is in
  the tree, what it ought to find is there too, a deletion included (`Buried`); no two tables of a level below
  0 share the key (`KeysApart`: what two outputs share goes to `cut`); and everything that came to the deeper
  levels while a compaction runs is newer than its inputs (`InputsAreOld`), so that a deletion judged obsolete
  by the version the compaction holds is obsolete still. When a deletion is dropped that a reader ought to
  find, each older entry of the key is then dropped with it or not there (`DroppedTop`).
* **Table cache.** `Counted` and the two lists support each other: an entry leaves `lru_` when its count
  rises from 1, and the eviction of an unused entry frees it. For `EvictedAreClosed`, whoever opens a file
  holds a version with it, so that the file is not yet obsolete (`UsersRight`).
* **Iterator.** `CursorInv` says for each loop what `at` is in terms of what the children have still to come.
  Going forward (`NextRight`), it is the first present key behind the one to skip whose last write is still to
  come, and of each key behind that one of which anything is to come, the last write is; each child
  stands at or in front of every visible entry of its own that is (`CoversForward`), and `current_` is the smallest
  of them. Going back (`PrevRight`), it is the last one to come, or the one saved, and what is in front of that is
  all to come. Between calls (`RestRight`) the merger is at the entry shown, or in front of all of its key. In a
  turn, every child is first behind the visible entries of smaller keys, or nowhere (`Halfway`), and then
  has them before it (`CoversTurn`); nothing is said of larger keys, which is what makes it true when the turn
  is overtaken. All of this speaks of entries the snapshot sees, and an insertion adds none.
* **Log.** The bytes of file and buffer come from fragments that were emitted, or are zeros; the reader is
  untouched while the writer writes. `WriterAligned` counts whole blocks: a trailer fills one exactly.
  What is read rests on `ReadInv`, which says that there are places `from[i]` and `to[i]` for each fragment:
  they follow one another, the file has the fragment's bytes there as far as it reaches, the fragment is there
  in full unless its append failed (`Laid`), and before the first failure none crosses a block and each begins
  where the last one ended, but for a trailer (`InBlocks`). So a sound physical record can only be a fragment,
  where the reader is; and what is collected is a run of one record's fragments, of which none was missed, or
  else the buffer holds no more of them (`CollectedRight`): that is `ReadsOnlyRecords`. For the other two, the
  reader is in step with the writer, with fragments 1 to c behind it and every record among them returned,
  until the next is from behind the first failure or lost with the tail (`InTurn`). A bad record is met only
  behind a failure, since the fragment that comes next is either whole or cut by the end of the file.
* **Durable store.** Without a refused write nothing is exposed, and every synced and acknowledged write is
  durable (`NoLoss`); what is durable stays, in its place; an answer is final. By
  `WritesImplementStore` they hold of the store that `LevelDBWrites` keeps.

Only model-checked: all liveness, which is out of the prover's reach. The inductive invariants of
`MoviePosters`, `LevelDBWrites`, `LevelDBVersions` and `LevelDBIterator` have been checked by TLC on
the instances of their runs too, and `ReadInv` on that of `log_format`, with `from` and
`to` as histories.

## Abstractions

The app:

* A film is its `imdbID`; titles, posters and years appear only as the fields of a shared entry.
* Alerts are modelled in `MovieSearch`, where they take the touches of the screen; elsewhere they would
  only remove steps. One alert stands for all: UIKit drops one presented over another.
* A disconnection empties what is on its way. A server that still handles a put of a connection the
  device has given up applies a value that is outstanding and comes again, which adds no new entry.
* Refused writes (security rules) are not modelled; the rules are not part of the repository.
* `DataUpdate` lets the database hold any set of films: other devices and this one write it.
* Animations, layout, texts and logging are left out. The spinner of the detail and of the recommended
  screen is left out of their modules; it behaves as that of `MovieSearch`.
* SDWebImage is called with no options, and only what happens then is modelled. A query of the disk may find
  the image or not, at any time; the memory cache may drop anything. Blocks that only report a cancellation
  change nothing and are left out, as are progress, indicators and transformers. Two loads never reach the
  limit of six downloads at a time.

leveldb:

* Sizes are abstract, as said of each module. A writer makes one call; a batch is one entry of the memtable.
* A write to the manifest that fails is there whole or not at all; the bytes of a torn one are those of
  `LevelDBLog`, whose reader stops before it. Switching `CURRENT` by a rename, and the creation of a log, are
  atomic and durable.
* A failure while the database opens is a crash of the process that opens it.
* Left out: the sleep of one millisecond at eight tables of level 0, `reuse_logs`, and the reader's
  `initial_offset`, which every caller in the repository leaves at 0.
* Memtables and tables are sets of entries in order. One call of a child's iterator is atomic: it reads a
  table nobody changes, or a skip list into which nothing but insertions happens.
* One shard of the cache, with charge 1 for each table, as `TableCache` inserts them.

## Not modelled

* leveldb's skip list: its lock-free reads depend on the memory order of single loads and stores, below the
  steps of these models. Table files, blocks, filters and codings: sequential encodings of sorted entries.
  The environment beyond failing and torn files; repair, dump and the C interface.
* Firebase's persistence (`FLevelDBStorageEngine`, `APLevelDB`): it writes to leveldb with `sync` off, and the
  app never turns it on (`FRepo.m:127`). What would reach the disk is leveldb's promise.
* nanopb: a decoder and an encoder of bytes driven by tables of field descriptors, used by the transport of
  diagnostics only; sequential code that keeps no state between calls.
* Alamofire, GTMSessionFetcher, the analytics frameworks (headers only), and the other pods.
* Launch services (`AppDelegate`, `SceneDelegate`, `services/` but for the store), the poster's zoom,
  `Utilities`, the library list, the mapping of DTOs: straight lines of calls, layout and values.

`PROJECT.json` gives the reason of each, and the hazards without a property. Counted in lines of C and C++,
the models cover a small part of the repository: most of those lines are headers of frameworks, nanopb,
and the encodings and tools of leveldb listed above.

## Plan

Done, in this order: `FavouriteSet`, `Favourites`, its proofs; `LoaderManager`; `MovieSearch`;
`RecommendedList`; `SharedMovies`; the proofs of these; `DurableStore` and `LevelDBWrites`;
`LevelDBVersions`; `LevelDBIterator`; `LevelDBLog` and `LevelDBCache` with their proofs; `MoviePosters`; the
proofs of `MoviePosters`, `LevelDBWrites` and of the log's reader; `LevelDBVersions` without recursion, and
its proofs; the proof that `LevelDBWrites` implements `DurableStore`;
`LevelDBIterator` by passes, without recursion, and its proofs.

What is left:

1. `RecommendedList` composed with `SharedMovies`: entries seen between two of the three writes, local
   events of a device's own writes and their reversal.
2. The detail screen by itself: zoom, recognizers, navigation bar, share sheet.
3. The skip list's reads beside one insertion, with the stores of `SetNext` and the loads of `Next` as steps.
