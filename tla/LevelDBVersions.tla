--------------------------- MODULE LevelDBVersions ---------------------------
(***************************************************************************)
(* What a reader of leveldb finds (Pods/leveldb-library/db/version_set.cc  *)
(* and the reading and compacting half of db_impl.cc): a memtable and the  *)
(* one before it, tables in levels, flushes and compactions that move      *)
(* entries down and drop those nobody can see, snapshots, and iterators    *)
(* that hold on to a version.                                              *)
(*                                                                         *)
(* An entry is its sequence number.  Logs, crashes and failures are in     *)
(* LevelDBWrites.tla.  Sizes are left out: a memtable may be full after    *)
(* any write, a level due for compaction at any time, an output cut        *)
(* anywhere, and a choice the code makes by bytes may go both ways.        *)
(***************************************************************************)
EXTENDS Naturals, FiniteSets, SequencesExt

CONSTANTS
  Key,           \* user keys, numbers
  NumLevels,     \* kNumLevels
  MaxMemLevel,   \* kMaxMemCompactLevel
  ManualQuiet,   \* nothing is flushed while a manual compaction runs
  Workload,      \* bound: what the first write may say, the second, ...
  MaxReaders,    \* bound: snapshots and iterators at a time
  None

ASSUME VersionsAssumption ==
  /\ Key \subseteq Nat /\ IsFiniteSet(Key)
  /\ NumLevels \in Nat /\ MaxMemLevel \in 0..(NumLevels - 1) /\ NumLevels > 1
  /\ ManualQuiet \in BOOLEAN
  /\ Workload \in Seq(SUBSET [key : Key, delete : BOOLEAN])
  /\ MaxReaders \in Nat

(* No memtable is taken for none. *)
ASSUME NoneAssumption == \A entries \in SUBSET (1..Len(Workload)) : entries # None

VARIABLES
  written,     \* history: what the entry of each sequence number says
  mem, imm,    \* mem_ and imm_: sets of entries
  files,       \* the tables on disk, by number
  nextFile,    \* next_file_number_
  current,     \* current_: the numbers of the tables of each level
  compaction,  \* the one under way in DoCompactionWork, or None
  snapshots,   \* snapshots_
  iterators,   \* the version each open iterator holds
  cut          \* history: the user keys that an output was cut inside of

vars == <<written, mem, imm, files, nextFile, current, compaction, snapshots, iterators, cut>>

Level == 0..(NumLevels - 1)
LastSequence == Len(written)
KeyOf(n) == written[n].key
AllFiles(version) == UNION {version[l] : l \in Level}
Entries(fs) == UNION {files[f] : f \in fs}

----------------------------------------------------------------------------
(* Internal keys: by user key, the newer entry first. *)

Before(a, b) == KeyOf(a) < KeyOf(b) \/ (KeyOf(a) = KeyOf(b) /\ a > b)

FirstEntry(entries) == CHOOSE a \in entries : \A b \in entries \ {a} : Before(a, b)
LastEntry(entries) == CHOOSE a \in entries : \A b \in entries \ {a} : Before(b, a)

Smallest(f) == FirstEntry(files[f])
Largest(f) == LastEntry(files[f])
LowKey(fs) == KeyOf(FirstEntry(Entries(fs)))
HighKey(fs) == KeyOf(LastEntry(Entries(fs)))

(* BySmallestKey: the order of the tables of a level below 0. *)
InFront(f, g) == Before(Smallest(f), Smallest(g))

Overlapping(fs, low, high) ==
  {f \in fs : KeyOf(Largest(f)) >= low /\ KeyOf(Smallest(f)) <= high}

Meeting(level, f) == Overlapping(current[level], KeyOf(Smallest(f)), KeyOf(Largest(f)))

(* GetOverlappingInputs: at level 0, where tables overlap, the range grows *)
(* with those it meets, and the search restarts: the least set that takes  *)
(* with a table all it meets.                                              *)
OverlappingInputs(level, low, high) ==
  LET met == Overlapping(current[level], low, high)
      closed == {fs \in SUBSET current[level] : met \subseteq fs /\ \A f \in fs : Meeting(level, f) \subseteq fs}
  IN IF level > 0 THEN met ELSE {f \in current[level] : \A fs \in closed : f \in fs}

(* Slip: a compaction takes no table along for its last key. *)
NoBoundaryInputs(level, inputs) == inputs

(* AddBoundaryInputs: the table behind the last key must come along if it  *)
(* begins with older entries of the user key that is cut there, then the   *)
(* next one, and so on.                                                    *)
AddBoundaryInputs(level, inputs) ==
  LET behind == {f \in current[level] : Before(LastEntry(Entries(inputs)), Smallest(f))}
      joined(f) == \E g \in current[level] : /\ KeyOf(Largest(g)) = KeyOf(Smallest(f))
                                            /\ Before(Largest(g), Smallest(f))
  IN IF inputs = {} THEN inputs
     ELSE inputs \union {f \in behind : \A g \in behind : InFront(f, g) \/ joined(g)}

(* Slip: nothing of the next level. *)
SetupNoInputs(level, chosen) == {<<AddBoundaryInputs(level, chosen), {}>>}

(* SetupOtherInputs: the tables of the next level that overlap, and more   *)
(* of this level where that takes no more of the next and not too many     *)
(* bytes.  The result is the set of pairs that sizes may lead to.          *)
SetupOtherInputs(level, chosen) ==
  LET in0 == AddBoundaryInputs(level, chosen)
      Next1(fs) == OverlappingInputs(level + 1, LowKey(fs), HighKey(fs))
      in1 == Next1(in0)
      all == in0 \union in1
      expanded0 == AddBoundaryInputs(level, OverlappingInputs(level, LowKey(all), HighKey(all)))
      grows == /\ in1 # {} /\ Cardinality(expanded0) > Cardinality(in0)
               /\ Cardinality(Next1(expanded0)) = Cardinality(in1)
  IN {<<in0, in1>>} \union (IF grows THEN {<<expanded0, Next1(expanded0)>>} ELSE {})

----------------------------------------------------------------------------
(* Reading. *)

(* MemTable::Get, and a look into one table: the newest entry of the key   *)
(* that the snapshot may see, 0 if there is none.                          *)
NewestIn(entries, key, seq) ==
  LET seen == {n \in entries : KeyOf(n) = key /\ n <= seq}
  IN IF seen = {} THEN 0 ELSE Max(seen)

(* Version::Get below level 0: the first table whose largest internal key  *)
(* is not before the one looked up, if it begins at the key or before.     *)
FindInLevel(level, key, seq) ==
  LET reach == {f \in current[level] : LET n == Largest(f)
                                       IN KeyOf(n) > key \/ (KeyOf(n) = key /\ n <= seq)}
      file == CHOOSE f \in reach : \A g \in reach \ {f} : InFront(f, g)
  IN IF reach = {} \/ KeyOf(Smallest(file)) > key THEN 0 ELSE NewestIn(files[file], key, seq)

(* The tables of level 0 are searched from the newest to the oldest. *)
FindInLevel0(key, seq) ==
  LET hits == {f \in Overlapping(current[0], key, key) : NewestIn(files[f], key, seq) # 0}
  IN IF hits = {} THEN 0 ELSE NewestIn(files[Max(hits)], key, seq)

FindAt(place, key, seq) ==
  CASE place = 0 -> NewestIn(mem, key, seq)
    [] place = 1 -> IF imm = None THEN 0 ELSE NewestIn(imm, key, seq)
    [] place = 2 -> FindInLevel0(key, seq)
    [] OTHER -> FindInLevel(place - 2, key, seq)

(* DBImpl::Get: the first place that knows the key answers, a deletion     *)
(* included.                                                               *)
Get(key, seq) ==
  LET known == {place \in 0..(NumLevels + 1) : FindAt(place, key, seq) # 0}
      n == FindAt(Min(known), key, seq)
  IN IF known = {} THEN 0 ELSE IF written[n].delete THEN 0 ELSE n

(* What the reader should have found: the last write of the key. *)
Answer(key, seq) ==
  LET n == NewestIn(1..LastSequence, key, seq)
  IN IF n = 0 THEN 0 ELSE IF written[n].delete THEN 0 ELSE n

----------------------------------------------------------------------------
(* Slip: only the current version keeps its tables. *)
LiveNow(version, held) == AllFiles(version)

(* AddLiveFiles: the tables of every version somebody holds. *)
LiveFiles(version, held) == AllFiles(version) \union UNION {AllFiles(v) : v \in held}

Held(c) == {iterators[i] : i \in DOMAIN iterators} \union (IF c = None THEN {} ELSE {c.version})

(* DeleteObsoleteFiles, on the disk with the new tables. *)
Cleaned(disk, version, c) ==
  [f \in DOMAIN disk \intersect LiveFiles(version, Held(c)) |-> disk[f]]

(* The tables on disk when new ones have been written. *)
WithTables(new) ==
  [f \in DOMAIN files \union DOMAIN new |-> IF f \in DOMAIN new THEN new[f] ELSE files[f]]

Write ==
  /\ LastSequence < Len(Workload)
  /\ \E entry \in Workload[LastSequence + 1] : written' = Append(written, entry)
  /\ mem' = mem \union {LastSequence + 1}
  /\ UNCHANGED <<imm, files, nextFile, current, compaction, snapshots, iterators, cut>>

(* MakeRoomForWrite switches memtables.  One that is empty would make no   *)
(* table, and is left out.                                                 *)
Switch ==
  /\ mem # {} /\ imm = None
  /\ ManualQuiet /\ compaction # None => ~compaction.manual
  /\ imm' = mem /\ mem' = {}
  /\ UNCHANGED <<written, files, nextFile, current, compaction, snapshots, iterators, cut>>

(* PickLevelForMemTableOutput: as deep as nothing overlaps on the way, or, *)
(* where too many bytes of the level below the next one do, less deep.     *)
PickLevelForMemTableOutput(low, high) ==
  LET clear(l) == \A m \in 0..l : Overlapping(current[m], low, high) = {}
      heavy(l) == l + 2 < NumLevels /\ Overlapping(current[l + 2], low, high) # {}
  IN {l \in 0..MaxMemLevel : /\ l > 0 => clear(l)
                             /\ l = MaxMemLevel \/ ~clear(0) \/ ~clear(l + 1) \/ heavy(l)}

(* CompactMemTable, at any moment of a compaction too. *)
Flush ==
  /\ imm # None
  /\ \E level \in PickLevelForMemTableOutput(KeyOf(FirstEntry(imm)), KeyOf(LastEntry(imm))) :
       current' = [current EXCEPT ![level] = @ \union {nextFile}]
  /\ files' = Cleaned(WithTables([f \in {nextFile} |-> imm]), current', compaction)
  /\ nextFile' = nextFile + 1
  /\ imm' = None
  /\ UNCHANGED <<written, mem, compaction, snapshots, iterators, cut>>

(* DoCompactionWork begins: its inputs, their version, and the oldest      *)
(* sequence number anybody may still ask for.                              *)
Begin(level, pair, manual) ==
  compaction' = [level |-> level, in0 |-> pair[1], in1 |-> pair[2], version |-> current,
                 manual |-> manual,
                 smallest |-> IF snapshots = <<>> THEN LastSequence ELSE snapshots[1]]

(* PickCompaction, for the size of a level or for the seeks of a table:    *)
(* one table, with those of level 0 that overlap it.  A table that meets   *)
(* nothing in the next level is moved, unless it overlaps too much of the  *)
(* one behind it.                                                          *)
PickCompaction(level, f) ==
  /\ imm = None /\ compaction = None
  /\ LET seed == IF level > 0 THEN {f} ELSE OverlappingInputs(0, LowKey({f}), HighKey({f}))
     IN \E pair \in SetupOtherInputs(level, seed) :
          LET lone == Cardinality(pair[1]) = 1 /\ pair[2] = {}
              behind == IF level + 2 < NumLevels
                        THEN OverlappingInputs(level + 2, LowKey(pair[1]), HighKey(pair[1])) ELSE {}
          IN \/ /\ lone
                /\ current' = [current EXCEPT ![level] = @ \ pair[1],
                                              ![level + 1] = @ \union pair[1]]
                /\ UNCHANGED compaction
             \/ /\ lone => behind # {}
                /\ Begin(level, pair, FALSE)
                /\ UNCHANGED current
  /\ UNCHANGED <<written, mem, imm, files, nextFile, snapshots, iterators, cut>>

(* CompactRange: the tables of the level that overlap the range, but below *)
(* level 0 not all of them if they are big.                                *)
CompactRange(level, low, high) ==
  /\ imm = None /\ compaction = None
  /\ LET all == OverlappingInputs(level, low, high)
         starts == {fs \in SUBSET all : \A f \in fs : \A g \in all \ fs : InFront(f, g)}
     IN /\ all # {}
        /\ \E chosen \in IF level = 0 THEN {all} ELSE starts \ {{}} : \E pair \in SetupOtherInputs(level, chosen) :
             Begin(level, pair, TRUE)
  /\ UNCHANGED <<written, mem, imm, files, nextFile, current, snapshots, iterators, cut>>

(* Compaction::IsBaseLevelForKey, in the version the inputs are from. *)
IsBaseLevelForKey(c, key) ==
  \A l \in (c.level + 2)..(NumLevels - 1) : Overlapping(c.version[l], key, key) = {}

(* Slip: a deletion is dropped whatever lies below. *)
DroppedDeletions(c, inputs) ==
  {n \in inputs : \/ \E m \in inputs : KeyOf(m) = KeyOf(n) /\ m > n /\ m <= c.smallest
                  \/ written[n].delete /\ n <= c.smallest}

(* Slip: an entry behind a newer one is dropped though a snapshot sees it. *)
DroppedHidden(c, inputs) ==
  {n \in inputs : \/ \E m \in inputs : KeyOf(m) = KeyOf(n) /\ m > n
                  \/ written[n].delete /\ n <= c.smallest /\ IsBaseLevelForKey(c, KeyOf(n))}

(* The entries DoCompactionWork drops: those behind a newer one that every *)
(* snapshot sees (A), and deletions of a key that is nowhere below.        *)
Dropped(c, inputs) ==
  {n \in inputs : \/ \E m \in inputs : KeyOf(m) = KeyOf(n) /\ m > n /\ m <= c.smallest
                  \/ written[n].delete /\ n <= c.smallest /\ IsBaseLevelForKey(c, KeyOf(n))}

(* The outputs, cut behind any of their entries: each entry goes to the    *)
(* table that follows those cut off before it.                             *)
OutputOf(ends, n) == nextFile + Cardinality({e \in ends : Before(e, n)})
Outputs(ends, kept) ==
  [f \in {OutputOf(ends, e) : e \in ends} |-> {n \in kept : OutputOf(ends, n) = f}]

(* The user keys whose entries an output ends between. *)
CutKeys(ends, kept) ==
  {KeyOf(n) : n \in {a \in kept : \E b \in kept : /\ KeyOf(a) = KeyOf(b)
                                                 /\ OutputOf(ends, a) # OutputOf(ends, b)}}

(* The outputs take the place of the inputs. *)
FinishCompaction ==
  /\ compaction # None
  /\ LET c == compaction
         inputs == Entries(c.in0 \union c.in1)
         kept == inputs \ Dropped(c, inputs)
     IN \E ends \in SUBSET kept :
          /\ kept # {} => LastEntry(kept) \in ends
          /\ current' = [current EXCEPT ![c.level] = @ \ c.in0,
                                        ![c.level + 1] = (@ \ c.in1) \union DOMAIN Outputs(ends, kept)]
          /\ files' = Cleaned(WithTables(Outputs(ends, kept)), current', None)
          /\ nextFile' = nextFile + Cardinality(ends)
          /\ cut' = cut \union CutKeys(ends, kept)
  /\ compaction' = None
  /\ UNCHANGED <<written, mem, imm, snapshots, iterators>>

(* SnapshotList keeps the oldest first. *)
GetSnapshot ==
  /\ Len(snapshots) + Len(iterators) < MaxReaders
  /\ snapshots' = Append(snapshots, LastSequence)
  /\ UNCHANGED <<written, mem, imm, files, nextFile, current, compaction, iterators, cut>>

ReleaseSnapshot(i) ==
  /\ snapshots' = RemoveAt(snapshots, i)
  /\ UNCHANGED <<written, mem, imm, files, nextFile, current, compaction, iterators, cut>>

(* NewInternalIterator refers to the current version, and so does a Get    *)
(* while it reads without the mutex.                                       *)
NewIterator ==
  /\ Len(snapshots) + Len(iterators) < MaxReaders
  /\ iterators' = Append(iterators, current)
  /\ UNCHANGED <<written, mem, imm, files, nextFile, current, compaction, snapshots, cut>>

CleanupIteratorState(i) ==
  /\ iterators' = RemoveAt(iterators, i)
  /\ UNCHANGED <<written, mem, imm, files, nextFile, current, compaction, snapshots, cut>>

Init ==
  /\ written = <<>> /\ mem = {} /\ imm = None
  /\ files = [f \in {} |-> {}] /\ nextFile = 1 /\ current = [l \in Level |-> {}]
  /\ compaction = None /\ snapshots = <<>> /\ iterators = <<>> /\ cut = {}

Next ==
  \/ Write \/ Switch \/ Flush
  \/ \E level \in 0..(NumLevels - 2) :
       \/ \E f \in current[level] : PickCompaction(level, f)
       \/ \E low, high \in Key : low <= high /\ CompactRange(level, low, high)
  \/ FinishCompaction
  \/ GetSnapshot \/ \E i \in DOMAIN snapshots : ReleaseSnapshot(i)
  \/ NewIterator \/ \E i \in DOMAIN iterators : CleanupIteratorState(i)

Spec == Init /\ [][Next]_vars

----------------------------------------------------------------------------
(* Every part of the state has its shape; no table is empty. *)
TypeOK ==
  /\ written \in Seq([key : Key, delete : BOOLEAN])
  /\ mem \subseteq 1..LastSequence
  /\ imm = None \/ (imm # {} /\ imm \subseteq 1..LastSequence)
  /\ \A f \in DOMAIN files : files[f] # {} /\ files[f] \subseteq 1..LastSequence
  /\ nextFile \in Nat /\ \A f \in DOMAIN files : f < nextFile
  /\ current \in [Level -> SUBSET Nat]
  /\ \A i \in DOMAIN snapshots : snapshots[i] <= LastSequence
  /\ cut \subseteq Key

Readable == {LastSequence} \union {snapshots[i] : i \in DOMAIN snapshots}

(* Whatever was flushed, moved, merged and dropped meanwhile, a Get at any *)
(* snapshot, and one without, finds the last write of the key if that was  *)
(* a Put.                                                                  *)
LastPutFound ==
  \A key \in Key, seq \in Readable : Answer(key, seq) # 0 => Get(key, seq) = Answer(key, seq)

(* What was deleted is not found again (DB::Delete): a Get of a key whose  *)
(* last write was a deletion, or that was never written, finds nothing.    *)
(* The keys a compaction once left in two of its outputs are excepted: of  *)
(* those a later compaction may drop the deletion and leave the put.       *)
DeletedStaysDeleted ==
  \A key \in Key \ cut, seq \in Readable : Answer(key, seq) = 0 => Get(key, seq) = 0

(* No table that is in use, by the current version, by an iterator or as   *)
(* the input of a compaction, is deleted.                                  *)
HeldFilesExist ==
  /\ AllFiles(current) \subseteq DOMAIN files
  /\ \A i \in DOMAIN iterators : AllFiles(iterators[i]) \subseteq DOMAIN files
  /\ compaction # None => compaction.in0 \union compaction.in1 \subseteq DOMAIN files

(* Below level 0 the tables of a level do not overlap ("Must not overlap"  *)
(* in MaybeAddFile): the binary searches rely on it.                       *)
LevelsDisjoint ==
  \A l \in Level \ {0} : \A f, g \in current[l] :
    f # g => Before(Largest(f), Smallest(g)) \/ Before(Largest(g), Smallest(f))

(* Entries never hop across levels (Version::Get): the deeper, the older,  *)
(* so that the first place that knows a key knows its last write.          *)
OlderBelow ==
  LET older(lower, upper) == \A n \in lower, m \in upper : KeyOf(n) = KeyOf(m) => n < m
      memtables == mem \union (IF imm = None THEN {} ELSE imm)
      at(l) == Entries(current[l])
  IN /\ imm # None => older(imm, mem)
     /\ \A l \in Level : older(at(l), memtables)
     /\ \A l \in Level : \A k \in 0..(l - 1) : older(at(l), at(k))
     /\ \A f, g \in current[0] : f < g => older(files[f], files[g])
=============================================================================
