---------------------------- MODULE LevelDBCache ----------------------------
(***************************************************************************)
(* leveldb's cache of open tables: one shard of LRUCache                   *)
(* (Pods/leveldb-library/util/cache.cc) and TableCache over it             *)
(* (db/table_cache.cc), with reads and iterators as users.  Every call of  *)
(* the cache holds its mutex and is one step; TableCache::FindTable holds  *)
(* none between its Lookup and its Insert, when it opens the file, so that *)
(* several users may open a table at once.                                 *)
(*                                                                         *)
(* An entry is its address: malloc may give a freed one out again.  Each   *)
(* table has charge 1.                                                     *)
(***************************************************************************)
EXTENDS Naturals, Sequences, FiniteSets

CONSTANTS
  Key,       \* file numbers whose hash is in this shard
  User,      \* one call of TableCache::Get, or one iterator over a table
  Entry,     \* addresses of LRUHandles
  Capacity,  \* the capacities to try, 0 among them: it turns caching off
  None

ASSUME CacheAssumption ==
  /\ IsFiniteSet(Key) /\ IsFiniteSet(User) /\ IsFiniteSet(Entry)
  /\ Capacity \subseteq Nat /\ None \notin Entry /\ None \notin Key

VARIABLES
  capacity,  \* capacity_
  key,       \* LRUHandle::key_data of each entry, None before the first malloc
  in_cache,  \* LRUHandle::in_cache
  refs,      \* LRUHandle::refs, 0 when the entry is not allocated
  table,     \* table_: the entry of each key, or None
  lru,       \* lru_, the oldest entry first
  in_use,    \* in_use_, in no particular order
  usage,     \* usage_
  user,      \* what each user does: at, its file, and its handle
  live,      \* the files of the current version
  evicted    \* history: the files TableCache::Evict was called for

vars == <<capacity, key, in_cache, refs, table, lru, in_use, usage, user, live, evicted>>
files == <<live, evicted>>

Idle == [at |-> "idle", file |-> None, handle |-> None]
Listed(s) == {s[i] : i \in DOMAIN s}
Place(s, e) == CHOOSE i \in DOMAIN s : s[i] = e
LRU_Remove(s, e) ==
  IF e \in Listed(s) THEN SubSeq(s, 1, Place(s, e) - 1) \o SubSeq(s, Place(s, e) + 1, Len(s)) ELSE s

Holders(e) == {u \in User : user[u].handle = e}

----------------------------------------------------------------------------
(* Calls of the cache. *)

(* Lookup, found: Ref. *)
Ref(e) ==
  /\ refs' = [refs EXCEPT ![e] = @ + 1]
  /\ lru' = LRU_Remove(lru, e)
  /\ in_use' = IF in_cache[e] THEN in_use \union {e} ELSE in_use
  /\ UNCHANGED <<capacity, key, in_cache, table, usage>>

(* Release: Unref, which calls the deleter at 0 references. *)
Unref(e) ==
  /\ refs' = [refs EXCEPT ![e] = @ - 1]
  /\ lru' = IF in_cache[e] /\ refs[e] = 2 THEN Append(lru, e) ELSE lru
  /\ in_use' = IF in_cache[e] /\ refs[e] = 2 THEN in_use \ {e} ELSE in_use
  /\ UNCHANGED <<capacity, key, in_cache, table, usage>>

(* Slip: an entry that leaves the cache is freed at once. *)
UnreffedFreed(e) == 0

(* What is left of the references of an entry that the cache lets go. *)
Unreffed(e) == refs[e] - 1

(* FinishErase of several entries: each leaves its list, the table and the *)
(* cache, and loses the cache's reference.                                 *)
Erased(es) ==
  /\ in_cache' = [e \in Entry |-> in_cache[e] /\ e \notin es]
  /\ refs' = [e \in Entry |-> IF e \in es THEN Unreffed(e) ELSE refs[e]]
  /\ table' = [k \in Key |-> IF table[k] \in es THEN None ELSE table[k]]

Erase(k) ==
  LET es == {table[k]} \ {None}
  IN /\ Erased(es)
     /\ lru' = LRU_Remove(lru, table[k]) /\ in_use' = in_use \ es
     /\ usage' = usage - Cardinality(es)
     /\ UNCHANGED <<capacity, key>>

(* Prune erases all of lru_; so does the destructor. *)
Prune ==
  /\ Erased(Listed(lru))
  /\ lru' = <<>> /\ usage' = usage - Len(lru)
  /\ UNCHANGED <<capacity, key, in_use>>

(* Slip: Insert leaves an entry of the same key in the cache. *)
OldOfNone(k) == {}

(* The entry of the same key that Insert finds in the table. *)
OldOf(k) == {table[k]} \ {None}

(* Slip: the loop looks at the usage before the insertion. *)
ExcessBefore(old) ==
  LET rest == Len(lru) - Cardinality(old \intersect Listed(lru))
  IN IF usage <= capacity \/ rest = 0 THEN 0 ELSE IF usage - capacity < rest THEN usage - capacity ELSE rest

(* How many entries of lru_ the loop at the end of Insert evicts, after    *)
(* the old one is gone.                                                    *)
Excess(old) ==
  LET over == usage + 1 - Cardinality(old) - capacity
      rest == Len(lru) - Cardinality(old \intersect Listed(lru))
  IN IF usage + 1 - Cardinality(old) <= capacity THEN 0 ELSE IF over < rest THEN over ELSE rest

(* Insert of a new entry e, with a reference for the handle and, unless    *)
(* caching is off, one for the cache.                                      *)
Insert(e, k) ==
  LET old == IF capacity > 0 THEN OldOf(k) ELSE {}
      rest == IF old = {} THEN lru ELSE LRU_Remove(lru, table[k])
      n == IF capacity > 0 THEN Excess(old) ELSE 0
      gone == old \union {rest[i] : i \in 1..n}
  IN /\ key' = [key EXCEPT ![e] = k]
     /\ refs' = [f \in Entry |-> IF f = e THEN IF capacity > 0 THEN 2 ELSE 1
                                 ELSE IF f \in gone THEN Unreffed(f) ELSE refs[f]]
     /\ in_cache' = [f \in Entry |-> IF f = e THEN capacity > 0 ELSE in_cache[f] /\ f \notin gone]
     /\ table' = IF capacity > 0
                 THEN [j \in Key |-> IF j = k THEN e ELSE IF table[j] \in gone THEN None ELSE table[j]]
                 ELSE table
     /\ lru' = SubSeq(rest, n + 1, Len(rest))
     /\ in_use' = IF capacity > 0 THEN (in_use \ gone) \union {e} ELSE in_use
     /\ usage' = IF capacity > 0 THEN usage + 1 - Cardinality(gone) ELSE usage
     /\ UNCHANGED capacity

----------------------------------------------------------------------------
(* TableCache and its users.  A user holds a version with the file in it   *)
(* from before it looks the table up until it has released the handle.     *)

TakeVersion(u, k) ==
  /\ user[u] = Idle /\ k \in live
  /\ user' = [user EXCEPT ![u] = [at |-> "ready", file |-> k, handle |-> None]]
  /\ UNCHANGED <<capacity, key, in_cache, refs, table, lru, in_use, usage, files>>

LetVersionGo(u) ==
  /\ user[u].at = "ready"
  /\ user' = [user EXCEPT ![u] = Idle]
  /\ UNCHANGED <<capacity, key, in_cache, refs, table, lru, in_use, usage, files>>

FindTableHit(u) ==
  /\ user[u].at = "ready" /\ table[user[u].file] # None
  /\ Ref(table[user[u].file])
  /\ user' = [user EXCEPT ![u].at = "holding", ![u].handle = table[user[u].file]]
  /\ UNCHANGED files

FindTableMiss(u) ==
  /\ user[u].at = "ready" /\ table[user[u].file] = None
  /\ user' = [user EXCEPT ![u].at = "opening"]
  /\ UNCHANGED <<capacity, key, in_cache, refs, table, lru, in_use, usage, files>>

(* The file or the table does not open: nothing is cached. *)
OpenFails(u) ==
  /\ user[u].at = "opening"
  /\ user' = [user EXCEPT ![u].at = "ready"]
  /\ UNCHANGED <<capacity, key, in_cache, refs, table, lru, in_use, usage, files>>

Opened(u) ==
  /\ user[u].at = "opening"
  /\ \E e \in Entry :
       /\ refs[e] = 0 /\ Insert(e, user[u].file)
       /\ user' = [user EXCEPT ![u].at = "holding", ![u].handle = e]
  /\ UNCHANGED files

(* Get has its answer, or the iterator is deleted (UnrefEntry). *)
Release(u) ==
  /\ user[u].at = "holding"
  /\ Unref(user[u].handle)
  /\ user' = [user EXCEPT ![u].at = "ready", ![u].handle = None]
  /\ UNCHANGED files

(* A compaction takes the file out of the current version. *)
Compacted(k) ==
  /\ k \in live /\ live' = live \ {k}
  /\ UNCHANGED <<capacity, key, in_cache, refs, table, lru, in_use, usage, user, evicted>>

(* Slip: a file out of the current version is obsolete. *)
ObsoleteNow(k) == k \notin live

(* No version has the file any more. *)
Obsolete(k) == k \notin live /\ \A u \in User : user[u].file # k

(* DeleteObsoleteFiles: Evict, and the file is removed. *)
Evict(k) ==
  /\ Obsolete(k) /\ k \notin evicted
  /\ Erase(k)
  /\ evicted' = evicted \union {k}
  /\ UNCHANGED <<user, live>>

PruneCache == lru # <<>> /\ Prune /\ UNCHANGED <<user, files>>

Init ==
  /\ capacity \in Capacity
  /\ key = [e \in Entry |-> None]
  /\ in_cache = [e \in Entry |-> FALSE] /\ refs = [e \in Entry |-> 0]
  /\ table = [k \in Key |-> None]
  /\ lru = <<>> /\ in_use = {} /\ usage = 0
  /\ user = [u \in User |-> Idle]
  /\ live = Key /\ evicted = {}

Next ==
  \/ \E u \in User :
       \/ \E k \in Key : TakeVersion(u, k)
       \/ LetVersionGo(u) \/ FindTableHit(u) \/ FindTableMiss(u)
       \/ OpenFails(u) \/ Opened(u) \/ Release(u)
  \/ \E k \in Key : Compacted(k) \/ Evict(k)
  \/ PruneCache

Spec == Init /\ [][Next]_vars

----------------------------------------------------------------------------
(* Every part of the state has its shape. *)
TypeOK ==
  /\ capacity \in Capacity
  /\ key \in [Entry -> Key \union {None}]
  /\ in_cache \in [Entry -> BOOLEAN] /\ refs \in [Entry -> Nat]
  /\ table \in [Key -> Entry \union {None}]
  /\ lru \in Seq(Entry) /\ in_use \subseteq Entry /\ usage \in Nat
  /\ user \in [User -> [at : {"idle", "ready", "opening", "holding"},
                        file : Key \union {None}, handle : Entry \union {None}]]
  /\ live \subseteq Key /\ evicted \subseteq Key

(* References are neither lost nor invented: an entry has one for each     *)
(* user that holds it and one for the cache.  So the deleter closes the    *)
(* table when the last of them is gone, and not before.                    *)
Counted ==
  \A e \in Entry : refs[e] = Cardinality(Holders(e)) + IF in_cache[e] THEN 1 ELSE 0

(* Nobody reads a table that was closed, or, after malloc gave the address *)
(* out again, the table of another file.                                   *)
HandlesGood ==
  \A u \in User : user[u].at = "holding" =>
    refs[user[u].handle] > 0 /\ key[user[u].handle] = user[u].file

(* cache.cc:28-38: "All items in the cache are in one list or the other,   *)
(* and never both", in_use_ those referenced by clients; the table finds   *)
(* those and only those, and usage_ is their charge.                       *)
ListsRight ==
  /\ Listed(lru) = {e \in Entry : in_cache[e] /\ refs[e] = 1}
  /\ Cardinality(Listed(lru)) = Len(lru)
  /\ in_use = {e \in Entry : in_cache[e] /\ refs[e] > 1}
  /\ \A e \in Entry : in_cache[e] <=> \E k \in Key : table[k] = e
  /\ \A k \in Key : table[k] # None => key[table[k]] = k
  /\ usage = Cardinality({e \in Entry : in_cache[e]})

(* Release evicts nothing, so that the cache may stay above its capacity   *)
(* with unused entries; but never above what its users once held at the    *)
(* same time.                                                              *)
UsageBounded == usage <= capacity \/ usage <= Cardinality(User)

(* Although FindTable holds no lock while it opens a file: once a file is  *)
(* evicted, no open table of it is left, in the cache or out of it, and no *)
(* user brings one back.                                                   *)
EvictedAreClosed ==
  \A k \in evicted : \A e \in Entry : refs[e] > 0 => key[e] # k
=============================================================================
