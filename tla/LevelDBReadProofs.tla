-------------------------- MODULE LevelDBReadProofs --------------------------
(***************************************************************************)
(* Theorems of LevelDBCache and LevelDBIterator, which a read goes through *)
(* after the version is chosen: every invariant that their runs check, for *)
(* any values of the constants.                                            *)
(*                                                                         *)
(* The cache's follow together from one inductive invariant, IInv: the     *)
(* counts, the lists and the table only keep each other right, and none of *)
(* them is inductive alone.  The iterator's follow from CursorInv: in each *)
(* of its loops the key where the call will end is that of what its        *)
(* children have still to come, which no insertion changes.                *)
(***************************************************************************)
EXTENDS LevelDBCache, LevelDBIterator, FiniteSetTheorems, SequenceTheorems, WellFoundedInduction, TLAPS

(* Sequences without repetition, as lru_ is one. *)

Distinct(s) == \A i, j \in 1..Len(s) : s[i] = s[j] => i = j

(* LRU_Remove takes its entry out and nothing else. *)
LEMMA RemoveElement ==
  ASSUME NEW S, NEW s \in Seq(S), Distinct(s), NEW e \in Listed(s)
  PROVE  /\ LRU_Remove(s, e) \in Seq(S)
         /\ Len(LRU_Remove(s, e)) = Len(s) - 1
         /\ Distinct(LRU_Remove(s, e))
         /\ Listed(LRU_Remove(s, e)) = Listed(s) \ {e}
<1> DEFINE p == Place(s, e)
           a == SubSeq(s, 1, p - 1)
           b == SubSeq(s, p + 1, Len(s))
           t == LRU_Remove(s, e)
<1>1. p \in 1..Len(s) /\ s[p] = e
  BY DEF Place, Listed
<1>2. /\ a \in Seq(S) /\ Len(a) = p - 1
      /\ \A i \in 1..p-1 : a[i] = s[i]
  <2>1. 1 \in Int /\ p - 1 \in Int
    BY <1>1
  <2>2. \A i \in 1..p-1 : s[i] \in S
    BY <1>1
  <2> QED BY <1>1, <2>1, <2>2
<1>3. /\ b \in Seq(S) /\ Len(b) = Len(s) - p
      /\ \A i \in 1..Len(s)-p : b[i] = s[p+i]
  BY <1>1
<1>4. t = a \o b
  BY DEF LRU_Remove
<1> HIDE DEF p, a, b, t
<1>5. /\ t \in Seq(S) /\ Len(t) = Len(s) - 1
      /\ \A i \in 1..Len(t) : t[i] = IF i < p THEN s[i] ELSE s[i+1]
  <2>1. /\ t \in Seq(S) /\ Len(t) = Len(a) + Len(b)
        /\ \A i \in 1..Len(t) : t[i] = IF i <= Len(a) THEN a[i] ELSE b[i - Len(a)]
    <3>1. /\ a \o b \in Seq(S) /\ Len(a \o b) = Len(a) + Len(b)
          /\ \A i \in 1..Len(a) + Len(b) : (a \o b)[i] = IF i <= Len(a) THEN a[i] ELSE b[i - Len(a)]
      BY <1>2, <1>3, ConcatProperties, Zenon
    <3> QED BY <3>1, <1>4
  <2>2. Len(t) = Len(s) - 1
    BY <1>1, <1>2, <1>3, <2>1
  <2>3. ASSUME NEW i \in 1..Len(t) PROVE t[i] = IF i < p THEN s[i] ELSE s[i+1]
    <3>1. CASE i < p
      BY <1>1, <1>2, <1>3, <2>1, <2>3, <3>1
    <3>2. CASE i >= p
      <4>1. i - Len(a) \in 1..Len(s) - p /\ p + (i - Len(a)) = i + 1
        BY <1>1, <1>2, <2>2, <2>3, <3>2
      <4>2. b[i - Len(a)] = s[p + (i - Len(a))]
        BY <4>1, <1>3
      <4> QED BY <1>1, <1>2, <2>1, <2>3, <3>2, <4>1, <4>2
    <3> QED BY <3>1, <3>2, <1>1
  <2> QED BY <2>1, <2>2, <2>3
<1>6. Distinct(t)
  BY <1>1, <1>5 DEF Distinct
<1>7. Listed(t) = Listed(s) \ {e}
  <2>1. ASSUME NEW x \in Listed(t) PROVE x \in Listed(s) \ {e}
    BY <1>1, <1>5 DEF Distinct, Listed
  <2>2. ASSUME NEW x \in Listed(s) \ {e} PROVE x \in Listed(t)
    <3>1. PICK i \in 1..Len(s) : s[i] = x
      BY DEF Listed
    <3>2. i # p
      BY <3>1, <1>1
    <3>3. CASE i < p
      BY <3>1, <3>3, <1>1, <1>5 DEF Listed
    <3>4. CASE i > p
      <4>1. i - 1 \in 1..Len(t) /\ t[i-1] = x
        BY <3>1, <3>4, <1>1, <1>5
      <4> QED BY <4>1, <1>5 DEF Listed
    <3> QED BY <3>2, <3>3, <3>4, <1>1
  <2> QED BY <2>1, <2>2
<1> QED BY <1>5, <1>6, <1>7 DEF t

(* What is left when the oldest n go. *)
LEMMA DropPrefix ==
  ASSUME NEW S, NEW s \in Seq(S), Distinct(s), NEW n \in 0..Len(s)
  PROVE  /\ SubSeq(s, n + 1, Len(s)) \in Seq(S)
         /\ Distinct(SubSeq(s, n + 1, Len(s)))
         /\ Listed(SubSeq(s, n + 1, Len(s))) = Listed(s) \ {s[i] : i \in 1..n}
         /\ n = Len(s) => SubSeq(s, n + 1, Len(s)) = <<>>
<1> DEFINE t == SubSeq(s, n + 1, Len(s))
<1>1. /\ t \in Seq(S) /\ Len(t) = Len(s) - n
      /\ \A i \in 1..Len(t) : t[i] = s[n + i]
  OBVIOUS
<1> HIDE DEF t
<1>2. Distinct(t)
  BY <1>1 DEF Distinct
<1>3. Listed(t) = Listed(s) \ {s[i] : i \in 1..n}
  <2>1. ASSUME NEW x \in Listed(t) PROVE x \in Listed(s) \ {s[i] : i \in 1..n}
    <3>1. PICK i \in 1..Len(t) : t[i] = x
      BY <1>1 DEF Listed
    <3>2. n + i \in 1..Len(s) /\ s[n + i] = x
      BY <1>1, <3>1
    <3> QED BY <3>2, <3>1 DEF Distinct, Listed
  <2>2. ASSUME NEW x \in Listed(s) \ {s[i] : i \in 1..n} PROVE x \in Listed(t)
    <3>1. PICK i \in 1..Len(s) : s[i] = x /\ i \notin 1..n
      BY DEF Listed
    <3>2. i - n \in 1..Len(t) /\ t[i - n] = x
      BY <3>1, <1>1
    <3> QED BY <3>2, <1>1 DEF Listed
  <2> QED BY <2>1, <2>2
<1>4. n = Len(s) => t = <<>>
  BY <1>1
<1> QED BY <1>1, <1>2, <1>3, <1>4 DEF t

(* The first n are n. *)
LEMMA DistinctCount ==
  ASSUME NEW S, NEW s \in Seq(S), Distinct(s), NEW n \in 0..Len(s)
  PROVE  /\ IsFiniteSet({s[i] : i \in 1..n})
         /\ Cardinality({s[i] : i \in 1..n}) = n
<1> DEFINE T == {s[i] : i \in 1..n}
           f == [i \in 1..n |-> s[i]]
<1>1. f \in Bijection(1..n, T)
  BY DEF Distinct, Bijection, Injection, Surjection, IsInjective
<1>2. IsFiniteSet(1..n) /\ Cardinality(1..n) = n
  BY FS_Interval
<1> QED BY <1>1, <1>2, FS_Bijection DEF ExistsBijection

(* As many entries as places. *)
LEMMA ListedCount ==
  ASSUME NEW S, NEW s \in Seq(S), Distinct(s)
  PROVE  IsFiniteSet(Listed(s)) /\ Cardinality(Listed(s)) = Len(s)
<1>1. Listed(s) = {s[i] : i \in 1..Len(s)} /\ Len(s) \in 0..Len(s)
  BY DEF Listed
<1> QED BY <1>1, DistinctCount

---------------------------------------------------------------------------
(* The inductive invariant. *)

InCache == {e \in Entry : in_cache[e]}

(* A user holds a handle while it says so, and its file is not evicted. *)
UsersRight ==
  \A u \in User :
    /\ user[u].at = "holding" <=> user[u].handle # None
    /\ user[u].at # "idle" => user[u].file \in Key
    /\ user[u].file \notin evicted

(* The table finds the entries of the cache and only those, each under its key. *)
TablesRight ==
  /\ \A k \in Key : table[k] # None => in_cache[table[k]] /\ key[table[k]] = k
  /\ \A e \in Entry : in_cache[e] => key[e] \in Key /\ table[key[e]] = e

(* ListsRight, with lru_ free of repetition in place of its count. *)
ListsInv ==
  /\ Distinct(lru)
  /\ Listed(lru) = {e \in Entry : in_cache[e] /\ refs[e] = 1}
  /\ in_use = {e \in Entry : in_cache[e] /\ refs[e] > 1}
  /\ usage = Cardinality(InCache)

(* All of it. *)
IInv ==
  /\ TypeOK /\ Counted /\ UsersRight /\ HandlesGood /\ TablesRight
  /\ ListsInv /\ UsageBounded /\ evicted \intersect live = {} /\ EvictedAreClosed

(* What the count of references says of an entry. *)
LEMMA CountFacts ==
  ASSUME TypeOK, Counted
  PROVE  \A e \in Entry :
           /\ IsFiniteSet(Holders(e)) /\ Cardinality(Holders(e)) \in Nat
           /\ refs[e] = 0 <=> Holders(e) = {} /\ ~in_cache[e]
           /\ in_cache[e] => refs[e] >= 1
           /\ in_cache[e] => (refs[e] = 1 <=> Holders(e) = {})
           /\ Holders(e) # {} => refs[e] >= 1
<1> TAKE e \in Entry
<1>1. IsFiniteSet(Holders(e)) /\ Cardinality(Holders(e)) \in Nat
  <2>1. Holders(e) \in SUBSET User
    BY DEF Holders
  <2> QED BY <2>1, CacheAssumption, FS_Subset, FS_CardinalityType DEF CacheAssumption
<1>2. Cardinality(Holders(e)) = 0 <=> Holders(e) = {}
  BY <1>1, FS_EmptySet
<1>3. refs[e] = Cardinality(Holders(e)) + IF in_cache[e] THEN 1 ELSE 0
  BY DEF Counted
<1>4. in_cache[e] \in BOOLEAN
  BY DEF TypeOK
<1> HIDE DEF Holders
<1> QED BY <1>1, <1>2, <1>3, <1>4

(* A user takes or lets go a handle. *)
LEMMA HandleChange ==
  ASSUME TypeOK, NEW u \in User, NEW h,
         user' \in [User -> [at : {"idle", "ready", "opening", "holding"},
                             file : Key \union {None}, handle : Entry \union {None}]],
         user'[u].handle = h,
         \A v \in User \ {u} : user'[v] = user[v],
         NEW e \in Entry
  PROVE  Holders(e)' = IF h = e THEN Holders(e) \union {u} ELSE Holders(e) \ {u}
  BY DEF Holders

(* Steps that leave the cache and the handles alone. *)
LEMMA QuietStep ==
  ASSUME IInv, UNCHANGED <<capacity, key, in_cache, refs, table, lru, in_use, usage, evicted>>,
         \A u \in User : user'[u].handle = user[u].handle,
         TypeOK', UsersRight', live' \subseteq live,
         \A u \in User : user'[u].at = "holding" => user[u].at = "holding" /\ user'[u].file = user[u].file
  PROVE  IInv'
<1>1. \A e \in Entry : Holders(e)' = Holders(e)
  BY DEF Holders
<1>2. Counted'
  BY <1>1 DEF IInv, Counted
<1>3. HandlesGood'
  BY DEF IInv, HandlesGood
<1>4. TablesRight' /\ UsageBounded' /\ EvictedAreClosed'
  BY DEF IInv, TablesRight, UsageBounded, EvictedAreClosed
<1>5. ListsInv'
  <2>1. Listed(lru)' = Listed(lru) /\ Distinct(lru)' /\ InCache' = InCache
    BY DEF IInv, ListsInv, Listed, Distinct, InCache
  <2> QED BY <2>1 DEF IInv, ListsInv
<1>6. (evicted \intersect live = {})'
  BY DEF IInv
<1> QED BY <1>2, <1>3, <1>4, <1>5, <1>6 DEF IInv

(* A lookup that finds: one more reference, one more holder. *)
LEMMA HitStep ==
  ASSUME IInv, NEW u \in User, FindTableHit(u)
  PROVE  IInv'
<1> DEFINE e == table[user[u].file]
<1>0. /\ user[u].at = "ready" /\ user[u].file \in Key /\ user[u].handle = None
      /\ e \in Entry /\ in_cache[e] /\ key[e] = user[u].file
  BY DEF FindTableHit, IInv, UsersRight, TablesRight, TypeOK
<1>1. /\ refs' = [refs EXCEPT ![e] = @ + 1] /\ lru' = LRU_Remove(lru, e)
      /\ in_use' = in_use \union {e}
      /\ UNCHANGED <<capacity, key, in_cache, table, usage, live, evicted>>
      /\ user' = [user EXCEPT ![u].at = "holding", ![u].handle = e]
  BY <1>0 DEF FindTableHit, Ref, files
<1>2. /\ user'[u].at = "holding" /\ user'[u].handle = e /\ user'[u].file = user[u].file
      /\ \A v \in User \ {u} : user'[v] = user[v]
      /\ user' \in [User -> [at : {"idle", "ready", "opening", "holding"},
                             file : Key \union {None}, handle : Entry \union {None}]]
  <2>1. user \in [User -> [at : {"idle", "ready", "opening", "holding"},
                           file : Key \union {None}, handle : Entry \union {None}]]
    BY DEF IInv, TypeOK
  <2> HIDE DEF e
  <2>2. user'[u] = [at |-> "holding", file |-> user[u].file, handle |-> e]
    BY <1>1, <2>1
  <2>3. \A v \in User \ {u} : user'[v] = user[v]
    BY <1>1, <2>1
  <2>4. user' = [v \in User |-> user'[v]]
    BY <1>1, <2>1
  <2> QED BY <1>0, <2>1, <2>2, <2>3, <2>4
<1>3. TypeOK /\ Counted
  BY DEF IInv
<1>4. /\ refs[e] \in Nat /\ refs[e] >= 1 /\ refs'[e] = refs[e] + 1
      /\ \A f \in Entry \ {e} : refs'[f] = refs[f]
  BY <1>0, <1>1, <1>3, CountFacts DEF TypeOK
<1> HIDE DEF e
<1>5. /\ lru' \in Seq(Entry) /\ Distinct(lru') /\ Listed(lru') = Listed(lru) \ {e}
  <2>1. lru \in Seq(Entry) /\ Distinct(lru)
    BY DEF IInv, TypeOK, ListsInv
  <2>2. CASE e \in Listed(lru)
    BY <1>1, <2>1, <2>2, RemoveElement
  <2>3. CASE e \notin Listed(lru)
    BY <1>1, <2>1, <2>3 DEF LRU_Remove
  <2> QED BY <2>2, <2>3
<1>6. TypeOK'
  BY <1>0, <1>1, <1>2, <1>5, <1>3 DEF TypeOK
<1>7. Counted'
  <2> SUFFICES ASSUME NEW f \in Entry
               PROVE  refs'[f] = Cardinality(Holders(f)') + IF in_cache'[f] THEN 1 ELSE 0
    BY DEF Counted
  <2>1. Holders(f)' = IF e = f THEN Holders(f) \union {u} ELSE Holders(f) \ {u}
    BY <1>2, <1>3, HandleChange
  <2>2. u \notin Holders(f)
    BY <1>0 , CacheAssumption DEF Holders, CacheAssumption
  <2>3. refs[f] = Cardinality(Holders(f)) + IF in_cache[f] THEN 1 ELSE 0
    BY DEF IInv, Counted
  <2>4. IsFiniteSet(Holders(f)) /\ Cardinality(Holders(f)) \in Nat
    BY <1>3, CountFacts
  <2>5. CASE e = f
    <3>1. Cardinality(Holders(f)') = Cardinality(Holders(f)) + 1
      BY <2>1, <2>2, <2>4, <2>5, FS_AddElement
    <3> QED BY <3>1, <2>3, <2>4, <2>5, <1>1, <1>4
  <2>6. CASE e # f
    <3>1. Holders(f)' = Holders(f)
      BY <2>1, <2>2, <2>6
    <3> QED BY <3>1, <2>3, <2>6, <1>1, <1>4
  <2> QED BY <2>5, <2>6
<1>8. UsersRight' /\ HandlesGood'
  BY <1>0, <1>1, <1>2, <1>4, CacheAssumption, <1>3 DEF IInv, UsersRight, HandlesGood, CacheAssumption, TypeOK
<1>9. TablesRight'
  BY <1>1 DEF IInv, TablesRight
<1>10. ListsInv'
  <2>1. \A f \in Entry : refs[f] \in Nat
    BY <1>3 DEF TypeOK
  <2>2. Listed(lru)' = {f \in Entry : in_cache'[f] /\ refs'[f] = 1}
    BY <1>0, <1>1, <1>4, <1>5, <2>1 DEF IInv, ListsInv
  <2>3. in_use' = {f \in Entry : in_cache'[f] /\ refs'[f] > 1}
    BY <1>0, <1>1, <1>4, <2>1 DEF IInv, ListsInv
  <2>4. InCache' = InCache
    BY <1>1 DEF InCache
  <2> QED BY <1>1, <1>5, <2>2, <2>3, <2>4 DEF IInv, ListsInv
<1>11. UsageBounded' /\ (evicted \intersect live = {})' /\ EvictedAreClosed'
  BY <1>0, <1>1, <1>4, <1>3 DEF IInv, UsageBounded, EvictedAreClosed, TypeOK
<1> QED BY <1>6, <1>7, <1>8, <1>9, <1>10, <1>11 DEF IInv

(* A release: the last user puts the entry back on lru_, as its newest. *)
LEMMA ReleaseStep ==
  ASSUME IInv, NEW u \in User, Release(u)
  PROVE  IInv'
<1> DEFINE e == user[u].handle
<1>0. user[u].at = "holding" /\ e \in Entry /\ user[u].file \in Key /\ e # None
  BY DEF Release, IInv, UsersRight, TypeOK
<1>1. /\ refs' = [refs EXCEPT ![e] = @ - 1]
      /\ lru' = IF in_cache[e] /\ refs[e] = 2 THEN Append(lru, e) ELSE lru
      /\ in_use' = IF in_cache[e] /\ refs[e] = 2 THEN in_use \ {e} ELSE in_use
      /\ UNCHANGED <<capacity, key, in_cache, table, usage, live, evicted>>
      /\ user' = [user EXCEPT ![u].at = "ready", ![u].handle = None]
  BY DEF Release, Unref, files
<1>2. /\ user'[u].at = "ready" /\ user'[u].handle = None /\ user'[u].file = user[u].file
      /\ \A v \in User \ {u} : user'[v] = user[v]
      /\ user' \in [User -> [at : {"idle", "ready", "opening", "holding"},
                             file : Key \union {None}, handle : Entry \union {None}]]
  BY <1>0, <1>1 DEF IInv, TypeOK
<1>3. TypeOK /\ Counted
  BY DEF IInv
<1>4. u \in Holders(e)
  BY DEF Holders
<1>5. /\ refs[e] \in Nat /\ refs[e] >= 1 /\ refs'[e] = refs[e] - 1
      /\ in_cache[e] => refs[e] >= 2
      /\ \A f \in Entry \ {e} : refs'[f] = refs[f]
  BY <1>0, <1>1, <1>3, <1>4, CountFacts DEF TypeOK
<1> HIDE DEF e
<1>6. Counted'
  <2> SUFFICES ASSUME NEW f \in Entry
               PROVE  refs'[f] = Cardinality(Holders(f)') + IF in_cache'[f] THEN 1 ELSE 0
    BY DEF Counted
  <2>1. Holders(f)' = Holders(f) \ {u}
    <3>1. None # f
      BY CacheAssumption DEF CacheAssumption
    <3> QED BY <3>1, <1>2, <1>3, HandleChange
  <2>2. u \in Holders(f) <=> f = e
    BY DEF Holders, e
  <2>3. refs[f] = Cardinality(Holders(f)) + IF in_cache[f] THEN 1 ELSE 0
    BY DEF IInv, Counted
  <2>4. IsFiniteSet(Holders(f)) /\ Cardinality(Holders(f)) \in Nat
    BY <1>3, CountFacts
  <2>5. Cardinality(Holders(f)') = IF f = e THEN Cardinality(Holders(f)) - 1 ELSE Cardinality(Holders(f))
    BY <2>1, <2>2, <2>4, FS_RemoveElement
  <2> QED BY <2>3, <2>4, <2>5, <1>1, <1>5
<1>7. ASSUME in_cache[e] /\ refs[e] = 2
      PROVE  /\ lru' \in Seq(Entry) /\ Distinct(lru')
             /\ Listed(lru') = {f \in Entry : in_cache'[f] /\ refs'[f] = 1}
             /\ in_use' = {f \in Entry : in_cache'[f] /\ refs'[f] > 1}
  <2>1. e \notin Listed(lru) /\ lru \in Seq(Entry) /\ Distinct(lru) /\ e \in Entry
    BY <1>0, <1>7 DEF IInv, ListsInv, TypeOK
  <2>2. /\ lru' \in Seq(Entry) /\ Len(lru') = Len(lru) + 1
        /\ \A i \in 1..Len(lru') : lru'[i] = IF i <= Len(lru) THEN lru[i] ELSE e
    BY <1>1, <1>7, <2>1
  <2>3. Distinct(lru')
    BY <2>1, <2>2 DEF Distinct, Listed
  <2>4. Listed(lru') = Listed(lru) \union {e}
    <3>1. ASSUME NEW x \in Listed(lru') PROVE x \in Listed(lru) \union {e}
      BY <2>1, <2>2 DEF Listed
    <3>2. ASSUME NEW x \in Listed(lru) PROVE x \in Listed(lru')
      <4>1. PICK i \in 1..Len(lru) : lru[i] = x
        BY <2>1 DEF Listed
      <4>2. i \in 1..Len(lru') /\ lru'[i] = x
        BY <2>1, <2>2, <4>1
      <4> QED BY <4>2, <2>2 DEF Listed
    <3>3. e \in Listed(lru')
      <4>1. Len(lru') \in 1..Len(lru') /\ lru'[Len(lru')] = e
        BY <2>1, <2>2
      <4> QED BY <4>1, <2>2 DEF Listed
    <3> QED BY <3>1, <3>2, <3>3
  <2>5. Listed(lru') = {f \in Entry : in_cache'[f] /\ refs'[f] = 1}
    BY <1>0, <1>1, <1>5, <1>7, <2>4 DEF IInv, ListsInv
  <2>6. in_use' = {f \in Entry : in_cache'[f] /\ refs'[f] > 1}
    BY <1>0, <1>1, <1>5, <1>7 DEF IInv, ListsInv
  <2> QED BY <2>2, <2>3, <2>5, <2>6
<1>8. ASSUME ~(in_cache[e] /\ refs[e] = 2)
      PROVE  /\ lru' \in Seq(Entry) /\ Distinct(lru')
             /\ Listed(lru') = {f \in Entry : in_cache'[f] /\ refs'[f] = 1}
             /\ in_use' = {f \in Entry : in_cache'[f] /\ refs'[f] > 1}
  <2>1. lru' = lru /\ in_use' = in_use
    BY <1>1, <1>8
  <2>2. lru' \in Seq(Entry) /\ Distinct(lru')
    BY <2>1 DEF IInv, ListsInv, TypeOK
  <2>3. in_cache[e] => refs[e] > 2
    BY <1>5, <1>8
  <2>4. Listed(lru') = {f \in Entry : in_cache'[f] /\ refs'[f] = 1}
    BY <1>0, <1>1, <1>5, <2>3, <2>1 DEF IInv, ListsInv
  <2>5. in_use' = {f \in Entry : in_cache'[f] /\ refs'[f] > 1}
    BY <1>0, <1>1, <1>5, <2>3, <2>1 DEF IInv, ListsInv
  <2> QED BY <2>2, <2>4, <2>5
<1>9. ListsInv'
  <2>1. InCache' = InCache
    BY <1>1 DEF InCache
  <2> QED BY <1>1, <1>7, <1>8, <2>1 DEF IInv, ListsInv
<1>10. TypeOK'
  <2>1. refs' \in [Entry -> Nat]
    BY <1>0, <1>1, <1>5, <1>3 DEF TypeOK
  <2>2. lru' \in Seq(Entry) /\ in_use' \subseteq Entry
    BY <1>7, <1>8
  <2> QED BY <1>1, <1>2, <2>1, <2>2, <1>3 DEF TypeOK
<1>11. UsersRight'
  BY <1>0, <1>1, <1>2 DEF IInv, UsersRight
<1>12. HandlesGood'
  <2> SUFFICES ASSUME NEW v \in User, user'[v].at = "holding", NEW f \in Entry, f = user'[v].handle
               PROVE  refs'[f] > 0 /\ key'[f] = user'[v].file
    BY <1>10, <1>11 DEF HandlesGood, UsersRight, TypeOK
  <2>1. v # u /\ user'[v] = user[v]
    BY <1>2
  <2>2. v \in Holders(f)'
    BY DEF Holders
  <2>3. Cardinality(Holders(f)') \in Nat /\ Cardinality(Holders(f)') # 0
    <3>1. Holders(f)' \in SUBSET User
      BY DEF Holders
    <3>2. IsFiniteSet(Holders(f)')
      BY <3>1, CacheAssumption, FS_Subset DEF CacheAssumption
    <3> QED BY <3>2, <2>2, FS_CardinalityType, FS_EmptySet
  <2>4. refs'[f] = Cardinality(Holders(f)') + IF in_cache'[f] THEN 1 ELSE 0
    BY <1>6 DEF Counted
  <2>5. refs'[f] > 0
    BY <2>3, <2>4
  <2>6. key[user[v].handle] = user[v].file
    BY <2>1 DEF IInv, HandlesGood
  <2> QED BY <2>1, <2>5, <2>6, <1>1
<1>13. TablesRight' /\ UsageBounded' /\ (evicted \intersect live = {})'
  BY <1>1 DEF IInv, TablesRight, UsageBounded
<1>14. EvictedAreClosed'
  BY <1>1, <1>5, <1>0 DEF IInv, EvictedAreClosed
<1> QED BY <1>6, <1>9, <1>10, <1>11, <1>12, <1>13, <1>14 DEF IInv

(* The cache is finite, as the addresses are. *)
LEMMA InCacheFinite == IsFiniteSet(InCache)
<1>1. InCache \in SUBSET Entry
  BY DEF InCache
<1> QED BY <1>1, CacheAssumption, FS_Subset DEF CacheAssumption

(* What erasing any entries of the cache keeps. *)
LEMMA ErasedKeeps ==
  ASSUME IInv, NEW es \in SUBSET InCache, Erased(es),
         lru' \in Seq(Entry), Distinct(lru'), Listed(lru') = Listed(lru) \ es,
         in_use' = in_use \ es, usage' = usage - Cardinality(es),
         UNCHANGED <<capacity, key, user, live>>, evicted' \subseteq Key
  PROVE  /\ TypeOK' /\ Counted' /\ HandlesGood' /\ TablesRight' /\ ListsInv' /\ UsageBounded'
         /\ \A f \in Entry : refs'[f] > 0 => refs[f] > 0
<1>1. TypeOK /\ Counted
  BY DEF IInv
<1>2. /\ in_cache' = [f \in Entry |-> in_cache[f] /\ f \notin es]
      /\ refs' = [f \in Entry |-> IF f \in es THEN refs[f] - 1 ELSE refs[f]]
      /\ table' = [k \in Key |-> IF table[k] \in es THEN None ELSE table[k]]
  BY DEF Erased, Unreffed
<1>3. /\ \A f \in es : in_cache[f] /\ refs[f] >= 1 /\ f \in Entry
      /\ \A f \in Entry : refs[f] \in Nat
  BY <1>1, CountFacts DEF InCache, TypeOK
<1>4. InCache' = InCache \ es
  BY <1>2 DEF InCache
<1>5. IsFiniteSet(es) /\ Cardinality(es) \in Nat /\ Cardinality(InCache) \in Nat
      /\ Cardinality(InCache \ es) = Cardinality(InCache) - Cardinality(es)
      /\ Cardinality(InCache \ es) \in Nat
  <2>1. InCache \intersect es = es
    OBVIOUS
  <2> QED BY <2>1, InCacheFinite, FS_Difference, FS_Subset, FS_CardinalityType
<1>6. usage = Cardinality(InCache) /\ usage' = Cardinality(InCache') /\ usage' \in Nat /\ usage' <= usage
  BY <1>4, <1>5 DEF IInv, ListsInv
<1>7. \A f \in Entry : Holders(f)' = Holders(f)
  BY DEF Holders
<1>8. TypeOK'
  <2>1. refs' \in [Entry -> Nat]
    BY <1>2, <1>3
  <2>2. in_cache' \in [Entry -> BOOLEAN] /\ table' \in [Key -> Entry \union {None}]
    BY <1>1, <1>2 DEF TypeOK
  <2> QED BY <1>1, <2>1, <2>2, <1>6 DEF TypeOK
<1>9. Counted'
  <2> SUFFICES ASSUME NEW f \in Entry
               PROVE  refs'[f] = Cardinality(Holders(f)') + IF in_cache'[f] THEN 1 ELSE 0
    BY DEF Counted
  <2>1. refs[f] = Cardinality(Holders(f)) + IF in_cache[f] THEN 1 ELSE 0
    BY <1>1 DEF Counted
  <2>2. Holders(f)' = Holders(f) /\ Cardinality(Holders(f)) \in Nat
    BY <1>1, <1>7, CountFacts
  <2>3. Cardinality(Holders(f)') = Cardinality(Holders(f))
    BY <2>2
  <2>4. CASE f \in es
    <3>1. in_cache[f] /\ ~in_cache'[f] /\ refs'[f] = refs[f] - 1
      BY <2>4, <1>2, <1>3
    <3> QED BY <3>1, <2>1, <2>2, <2>3
  <2>5. CASE f \notin es
    <3>1. (in_cache'[f] <=> in_cache[f]) /\ refs'[f] = refs[f]
      BY <2>5, <1>1, <1>2 DEF TypeOK
    <3> QED BY <3>1, <2>1, <2>2, <2>3
  <2> QED BY <2>4, <2>5
<1>10. \A f \in Entry : Holders(f) # {} => refs'[f] >= 1
  <2> SUFFICES ASSUME NEW f \in Entry, Holders(f) # {} PROVE refs'[f] >= 1
    OBVIOUS
  <2>1. refs[f] >= 1 /\ (in_cache[f] => refs[f] # 1)
    BY <1>1, CountFacts
  <2> QED BY <2>1, <1>2, <1>3
<1>11. HandlesGood'
  <2> SUFFICES ASSUME NEW v \in User, user[v].at = "holding"
               PROVE  refs'[user[v].handle] > 0 /\ key[user[v].handle] = user[v].file
    BY DEF HandlesGood
  <2>1. user[v].handle \in Entry /\ v \in Holders(user[v].handle)
    BY <1>1 DEF IInv, UsersRight, TypeOK, Holders
  <2>2. refs'[user[v].handle] >= 1 /\ refs'[user[v].handle] \in Nat
    BY <2>1, <1>8, <1>10 DEF TypeOK
  <2>3. key[user[v].handle] = user[v].file
    BY DEF IInv, HandlesGood
  <2> QED BY <2>2, <2>3
<1>12. TablesRight'
  <2>1. ASSUME NEW k \in Key, table'[k] # None PROVE in_cache'[table'[k]] /\ key'[table'[k]] = k
    <3>1. table'[k] = table[k] /\ table[k] \notin es /\ table[k] \in Entry
      BY <1>2, <2>1, <1>1 DEF TypeOK
    <3> QED BY <3>1, <2>1, <1>2 DEF IInv, TablesRight
  <2>2. ASSUME NEW f \in Entry, in_cache'[f] PROVE key'[f] \in Key /\ table'[key'[f]] = f
    <3>1. in_cache[f] /\ f \notin es
      BY <1>2, <2>2
    <3> QED BY <3>1, <1>2 DEF IInv, TablesRight
  <2> QED BY <2>1, <2>2 DEF TablesRight
<1>13. ListsInv'
  <2>1. Listed(lru') = {f \in Entry : in_cache'[f] /\ refs'[f] = 1}
    BY <1>2 DEF IInv, ListsInv
  <2>2. in_use' = {f \in Entry : in_cache'[f] /\ refs'[f] > 1}
    BY <1>2 DEF IInv, ListsInv
  <2> QED BY <2>1, <2>2, <1>6 DEF ListsInv
<1>14. UsageBounded'
  <2>1. Cardinality(User) \in Nat /\ capacity \in Nat
    BY <1>1, CacheAssumption, FS_CardinalityType DEF CacheAssumption, TypeOK
  <2> QED BY <2>1, <1>5, <1>6 DEF IInv, UsageBounded
<1>15. \A f \in Entry : refs'[f] > 0 => refs[f] > 0
  BY <1>2, <1>3
<1> QED BY <1>8, <1>9, <1>11, <1>12, <1>13, <1>14, <1>15

(* Prune erases what lru_ lists. *)
LEMMA PruneStep ==
  ASSUME IInv, PruneCache
  PROVE  IInv'
<1> DEFINE es == Listed(lru)
<1>1. /\ Erased(es) /\ lru' = <<>> /\ usage' = usage - Len(lru)
      /\ UNCHANGED <<capacity, key, in_use, user, live, evicted>>
  BY DEF PruneCache, Prune, files
<1>2. es \in SUBSET InCache /\ in_use \ es = in_use
  BY DEF IInv, ListsInv, InCache
<1>3. Cardinality(es) = Len(lru)
  BY ListedCount DEF IInv, TypeOK, ListsInv
<1>4. lru' \in Seq(Entry) /\ Distinct(lru') /\ Listed(lru') = Listed(lru) \ es
  BY <1>1 DEF Distinct, Listed
<1>5. evicted' \subseteq Key
  BY <1>1 DEF IInv, TypeOK
<1> HIDE DEF es
<1>6. /\ TypeOK' /\ Counted' /\ HandlesGood' /\ TablesRight' /\ ListsInv' /\ UsageBounded'
      /\ \A f \in Entry : refs'[f] > 0 => refs[f] > 0
  BY <1>1, <1>2, <1>3, <1>4, <1>5, ErasedKeeps
<1>7. UsersRight' /\ (evicted \intersect live = {})' /\ EvictedAreClosed'
  BY <1>1, <1>6 DEF IInv, UsersRight, EvictedAreClosed
<1> QED BY <1>6, <1>7 DEF IInv

(* Evict erases what the table has, and what it has not nobody holds. *)
LEMMA EvictStep ==
  ASSUME IInv, NEW k \in Key, Evict(k)
  PROVE  IInv'
<1> DEFINE es == {table[k]} \ {None}
<1>1. /\ Erased(es) /\ lru' = LRU_Remove(lru, table[k]) /\ in_use' = in_use \ es
      /\ usage' = usage - Cardinality(es)
      /\ UNCHANGED <<capacity, key, user, live>>
      /\ evicted' = evicted \union {k}
      /\ Obsolete(k)
  BY DEF Evict, Erase
<1>2. es \in SUBSET InCache
  BY DEF IInv, TablesRight, TypeOK, InCache
<1>3. lru' \in Seq(Entry) /\ Distinct(lru') /\ Listed(lru') = Listed(lru) \ es
  <2>1. lru \in Seq(Entry) /\ Distinct(lru)
    BY DEF IInv, TypeOK, ListsInv
  <2>2. CASE table[k] \in Listed(lru)
    <3>1. table[k] # None
      BY <2>1, <2>2, CacheAssumption DEF Listed, CacheAssumption
    <3> QED BY <3>1, <1>1, <2>1, <2>2, RemoveElement
  <2>3. CASE table[k] \notin Listed(lru)
    BY <1>1, <2>1, <2>3 DEF LRU_Remove
  <2> QED BY <2>2, <2>3
<1>4. evicted' \subseteq Key
  BY <1>1 DEF IInv, TypeOK
<1>5. /\ TypeOK' /\ Counted' /\ HandlesGood' /\ TablesRight' /\ ListsInv' /\ UsageBounded'
      /\ \A f \in Entry : refs'[f] > 0 => refs[f] > 0
  <2> HIDE DEF es
  <2> QED BY <1>1, <1>2, <1>3, <1>4, ErasedKeeps
<1>6. UsersRight' /\ (evicted \intersect live = {})'
  BY <1>1 DEF IInv, UsersRight, Obsolete
<1>7. EvictedAreClosed'
  <2> SUFFICES ASSUME NEW f \in Entry, refs'[f] > 0, key[f] = k PROVE FALSE
    BY <1>1, <1>5 DEF IInv, EvictedAreClosed
  <2>1. Holders(f) = {}
    <3> SUFFICES ASSUME NEW v \in User, user[v].handle = f PROVE FALSE
      BY DEF Holders
    <3>1. f # None /\ user[v].at = "holding"
      BY CacheAssumption DEF CacheAssumption, IInv, UsersRight
    <3>2. user[v].file = k
      BY <3>1 DEF IInv, HandlesGood
    <3> QED BY <3>2, <1>1 DEF Obsolete
  <2>2. TypeOK /\ Counted
    BY DEF IInv
  <2>3. refs[f] \in Nat /\ refs[f] > 0
    BY <2>2, <1>5 DEF TypeOK
  <2>4. in_cache[f] /\ refs[f] = 1
    BY <2>1, <2>2, <2>3, CountFacts
  <2>5. f \in es
    BY <2>4, CacheAssumption DEF IInv, TablesRight, CacheAssumption
  <2>6. refs'[f] = refs[f] - 1
    BY <2>5, <1>1 DEF Erased, Unreffed
  <2> QED BY <2>4, <2>6
<1> QED BY <1>5, <1>6, <1>7 DEF IInv

(* The entries that an insertion makes the cache let go. *)
Rest(k) == IF OldOf(k) = {} THEN lru ELSE LRU_Remove(lru, table[k])
Gone(k) == OldOf(k) \union {Rest(k)[i] : i \in 1..Excess(OldOf(k))}

(* The list without the old entry of the key. *)
LEMMA RestFacts ==
  ASSUME IInv, NEW k \in Key
  PROVE  /\ OldOf(k) \subseteq InCache /\ IsFiniteSet(OldOf(k)) /\ Cardinality(OldOf(k)) \in 0..1
         /\ Rest(k) \in Seq(Entry) /\ Len(Rest(k)) \in Nat /\ Distinct(Rest(k))
         /\ Listed(Rest(k)) = Listed(lru) \ OldOf(k)
         /\ Len(Rest(k)) = Len(lru) - Cardinality(OldOf(k) \intersect Listed(lru))
<1>1. lru \in Seq(Entry) /\ Distinct(lru) /\ None \notin Listed(lru) /\ Len(lru) \in Nat
  BY CacheAssumption DEF IInv, TypeOK, ListsInv, CacheAssumption
<1>2. OldOf(k) \subseteq InCache
  BY DEF IInv, TablesRight, TypeOK, InCache, OldOf
<1>3. CASE table[k] = None
  <2>1. OldOf(k) = {} /\ Rest(k) = lru
    BY <1>3 DEF OldOf, Rest
  <2>2. {} \intersect Listed(lru) = {} /\ Listed(lru) \ {} = Listed(lru)
    OBVIOUS
  <2>3. IsFiniteSet({}) /\ Cardinality({}) = 0
    BY FS_EmptySet
  <2>4. Len(lru) = Len(lru) - Cardinality({} \intersect Listed(lru))
    BY <1>1, <2>2, <2>3
  <2> QED BY <2>1, <2>2, <2>3, <2>4, <1>1, <1>2
<1>4. CASE table[k] # None
  <2>1. OldOf(k) = {table[k]} /\ Rest(k) = LRU_Remove(lru, table[k])
    BY <1>4 DEF OldOf, Rest
  <2>2. IsFiniteSet(OldOf(k)) /\ Cardinality(OldOf(k)) = 1
    BY <2>1, FS_Singleton
  <2>3. CASE table[k] \in Listed(lru)
    <3>1. OldOf(k) \intersect Listed(lru) = OldOf(k)
      BY <2>1, <2>3
    <3>2. /\ Rest(k) \in Seq(Entry) /\ Distinct(Rest(k)) /\ Len(Rest(k)) = Len(lru) - 1
          /\ Listed(Rest(k)) = Listed(lru) \ OldOf(k)
      BY <2>1, <2>3, <1>1, RemoveElement
    <3>3. Len(Rest(k)) = Len(lru) - Cardinality(OldOf(k) \intersect Listed(lru))
      BY <2>2, <3>1, <3>2
    <3>4. Len(Rest(k)) \in Nat
      BY <3>2
    <3> QED BY <2>2, <3>2, <3>3, <3>4, <1>2
  <2>4. CASE table[k] \notin Listed(lru)
    <3>1. OldOf(k) \intersect Listed(lru) = {} /\ Rest(k) = lru /\ Listed(lru) \ OldOf(k) = Listed(lru)
      BY <2>1, <2>4 DEF LRU_Remove
    <3>2. Len(lru) = Len(lru) - Cardinality(OldOf(k) \intersect Listed(lru))
      <4>1. Cardinality(OldOf(k) \intersect Listed(lru)) = 0
        BY <3>1, FS_EmptySet
      <4> QED BY <4>1, <1>1
    <3> QED BY <2>2, <3>1, <3>2, <1>1, <1>2
  <2> QED BY <2>3, <2>4
<1> QED BY <1>3, <1>4

(* The loop of Insert evicts no more than there is, and stops early only
   when the usage is down to the capacity. *)
LEMMA GoneFacts ==
  ASSUME IInv, NEW k \in Key
  PROVE  /\ Excess(OldOf(k)) \in 0..Len(Rest(k))
         /\ Gone(k) \subseteq InCache
         /\ IsFiniteSet(Gone(k)) /\ Cardinality(Gone(k)) = Cardinality(OldOf(k)) + Excess(OldOf(k))
         /\ Excess(OldOf(k)) < Len(Rest(k)) =>
              usage + 1 - Cardinality(OldOf(k)) - Excess(OldOf(k)) <= capacity
<1> DEFINE old == OldOf(k)
           n == Excess(old)
           rest == Rest(k)
           first == {rest[i] : i \in 1..n}
<1>1. /\ old \subseteq InCache /\ IsFiniteSet(old) /\ Cardinality(old) \in 0..1
      /\ rest \in Seq(Entry) /\ Distinct(rest) /\ Len(rest) \in Nat
      /\ Listed(rest) = Listed(lru) \ old
      /\ Len(rest) = Len(lru) - Cardinality(old \intersect Listed(lru))
  <2> HIDE DEF old, rest
  <2>1. old = OldOf(k) /\ rest = Rest(k)
    BY DEF old, rest
  <2> QED BY <2>1, RestFacts
<1>2. usage \in Nat /\ capacity \in Nat
  BY CacheAssumption DEF IInv, TypeOK, CacheAssumption
<1>3. n = IF usage + 1 - Cardinality(old) <= capacity THEN 0
          ELSE IF usage + 1 - Cardinality(old) - capacity < Len(rest)
               THEN usage + 1 - Cardinality(old) - capacity ELSE Len(rest)
  BY <1>1 DEF Excess
<1> HIDE DEF old, n, rest
<1>4. n \in 0..Len(rest) /\ (n < Len(rest) => usage + 1 - Cardinality(old) - n <= capacity)
  BY <1>1, <1>2, <1>3
<1>5. IsFiniteSet(first) /\ Cardinality(first) = n
  BY <1>1, <1>4, DistinctCount
<1>6. first \subseteq Listed(rest)
  <2>1. DOMAIN rest = 1..Len(rest)
    BY <1>1
  <2>2. ASSUME NEW i \in 1..n PROVE rest[i] \in Listed(rest)
    <3>1. i \in DOMAIN rest
      BY <2>1, <1>1, <1>4
    <3> QED BY <3>1 DEF Listed
  <2> QED BY <2>2 DEF first
<1>7. Listed(lru) \subseteq InCache
  BY DEF IInv, ListsInv, InCache
<1>8. Gone(k) = old \union first
  BY DEF Gone, old, n, rest
<1> HIDE DEF first
<1>9. old \intersect first = {} /\ Gone(k) \subseteq InCache
  BY <1>1, <1>6, <1>7, <1>8
<1>10. IsFiniteSet(Gone(k)) /\ Cardinality(Gone(k)) = Cardinality(old) + n
  <2>1. IsFiniteSet(Gone(k)) /\ Cardinality(Gone(k)) = Cardinality(old) + Cardinality(first) - Cardinality(old \intersect first)
    BY <1>1, <1>5, <1>8, FS_Union
  <2>2. Cardinality(old \intersect first) = 0
    BY <1>9, FS_EmptySet
  <2> QED BY <2>1, <2>2, <1>1, <1>4, <1>5
<1> QED BY <1>4, <1>9, <1>10 DEF old, n, rest

(* Entries that no list and no table knows stay so when one of them is     *)
(* given out, with the reference of its handle.                            *)
LEMMA InsertedLists ==
  ASSUME IInv, NEW k \in Key, NEW e \in Entry, refs[e] = 0, Insert(e, k), capacity > 0,
         NEW u \in User, user[u].handle = None
  PROVE  /\ lru' \in Seq(Entry) /\ ListsInv' /\ UsageBounded' /\ usage' \in Nat
         /\ in_use' \subseteq Entry
<1> DEFINE n == Excess(OldOf(k))
           rest == Rest(k)
           gone == Gone(k)
<1>1. /\ n \in 0..Len(rest) /\ gone \subseteq InCache
      /\ IsFiniteSet(gone) /\ Cardinality(gone) = Cardinality(OldOf(k)) + n
      /\ n < Len(rest) => usage + 1 - Cardinality(OldOf(k)) - n <= capacity
  BY GoneFacts
<1>2. /\ OldOf(k) \subseteq InCache /\ Cardinality(OldOf(k)) \in 0..1
      /\ rest \in Seq(Entry) /\ Distinct(rest) /\ Len(rest) \in Nat
      /\ Listed(rest) = Listed(lru) \ OldOf(k)
  <2> HIDE DEF n, gone
  <2> QED BY RestFacts
<1>3. TypeOK /\ Counted
  BY DEF IInv
<1>4. ~in_cache[e] /\ e \notin gone /\ Holders(e) = {} /\ e \notin InCache
  BY <1>1, <1>3, CountFacts DEF InCache
<1>5. /\ refs' = [f \in Entry |-> IF f = e THEN 2 ELSE IF f \in gone THEN refs[f] - 1 ELSE refs[f]]
      /\ in_cache' = [f \in Entry |-> IF f = e THEN TRUE ELSE in_cache[f] /\ f \notin gone]
      /\ lru' = SubSeq(rest, n + 1, Len(rest))
      /\ in_use' = (in_use \ gone) \union {e}
      /\ usage' = usage + 1 - Cardinality(gone) /\ capacity' = capacity
  BY DEF Insert, Gone, Rest, Unreffed
<1>6. Gone(k) = OldOf(k) \union {rest[i] : i \in 1..n}
  BY DEF Gone
<1> HIDE DEF n, rest, gone
<1>7. /\ lru' \in Seq(Entry) /\ Distinct(lru')
      /\ Listed(lru') = Listed(rest) \ {rest[i] : i \in 1..n}
      /\ n = Len(rest) => lru' = <<>>
  BY <1>1, <1>2, <1>5, DropPrefix
<1>8. Listed(lru') = Listed(lru) \ gone
  BY <1>2, <1>6, <1>7 DEF gone
<1>9. \A f \in Entry : refs[f] \in Nat
  BY <1>3 DEF TypeOK
<1>22. /\ in_cache'[e] /\ refs'[e] = 2
       /\ \A f \in Entry \ {e} : in_cache'[f] <=> in_cache[f] /\ f \notin gone
       /\ \A f \in Entry \ {e} : f \notin gone => refs'[f] = refs[f]
  BY <1>5
<1>10. Listed(lru') = {f \in Entry : in_cache'[f] /\ refs'[f] = 1}
  BY <1>4, <1>8, <1>9, <1>22 DEF IInv, ListsInv
<1>11. in_use' = {f \in Entry : in_cache'[f] /\ refs'[f] > 1}
  <2>1. \A f \in Entry \ {e} : f \in in_use' <=> in_cache'[f] /\ refs'[f] > 1
    BY <1>5, <1>22 DEF IInv, ListsInv
  <2>2. e \in in_use' /\ in_use' \subseteq Entry
    BY <1>5 DEF IInv, ListsInv
  <2> QED BY <1>22, <2>1, <2>2
<1>12. InCache' = (InCache \ gone) \union {e}
  BY <1>5 DEF InCache
<1>13. Cardinality(InCache') = Cardinality(InCache) - Cardinality(gone) + 1
       /\ Cardinality(InCache') \in Nat /\ Cardinality(InCache) \in Nat
  <2>1. InCache \intersect gone = gone
    BY <1>1
  <2>2. IsFiniteSet(InCache \ gone) /\ Cardinality(InCache \ gone) = Cardinality(InCache) - Cardinality(gone)
    BY <2>1, InCacheFinite, FS_Difference
  <2>3. e \notin InCache \ gone
    BY <1>4
  <2>4. IsFiniteSet(InCache') /\ Cardinality(InCache') = Cardinality(InCache \ gone) + 1
    BY <2>2, <2>3, <1>12, FS_AddElement
  <2> QED BY <2>2, <2>4, InCacheFinite, FS_CardinalityType
<1>14. usage = Cardinality(InCache) /\ Cardinality(gone) \in Nat
  BY <1>1, FS_CardinalityType DEF IInv, ListsInv
<1>15. usage' = Cardinality(InCache') /\ usage' \in Nat
  BY <1>5, <1>13, <1>14
<1>16. ListsInv'
  BY <1>7, <1>10, <1>11, <1>15 DEF ListsInv
<1>17. in_use' \subseteq Entry
  BY <1>11
<1>18. usage' = usage + 1 - Cardinality(OldOf(k)) - n
  BY <1>1, <1>2, <1>5, <1>14, <1>15
<1>19. n < Len(rest) => usage' <= capacity'
  BY <1>1, <1>5, <1>18
<1>20. ASSUME n = Len(rest) PROVE usage' <= Cardinality(User)
  <2>1. ASSUME NEW f \in InCache', f # e PROVE Holders(f) # {}
    <3>1. f \in Entry /\ in_cache[f] /\ f \notin gone /\ refs'[f] = refs[f]
      BY <2>1, <1>22, <1>12 DEF InCache
    <3>2. refs'[f] # 1
      BY <1>7, <1>10, <1>20, <3>1, <1>22, <2>1 DEF Listed
    <3> QED BY <3>1, <3>2, <1>3, CountFacts
  <2> DEFINE g == [f \in InCache' |-> IF f = e THEN u ELSE CHOOSE v \in User : v \in Holders(f)]
  <2>2. \A f \in InCache' : f # e => g[f] \in User /\ g[f] \in Holders(f)
    BY <2>1 DEF Holders
  <2>3. \A f \in InCache' : f # e => g[f] \in User /\ user[g[f]].handle = f /\ f # None
    BY <2>2, <1>12, CacheAssumption DEF Holders, InCache, CacheAssumption
  <2>4. \A f \in InCache' : f = e => g[f] = u
    OBVIOUS
  <2>5. g \in [InCache' -> User]
    BY <2>3
  <2> HIDE DEF g
  <2>6. \A f, h \in InCache' : g[f] = g[h] => f = h
    BY <2>3, <2>4
  <2>7. g \in Injection(InCache', User)
    BY <2>5, <2>6 DEF Injection, IsInjective
  <2> QED BY <2>7, <1>15, CacheAssumption, FS_Injection DEF CacheAssumption
<1>21. UsageBounded'
  BY <1>1, <1>2, <1>19, <1>20 DEF UsageBounded
<1> QED BY <1>7, <1>15, <1>16, <1>17, <1>21

(* A table opened without the lock, perhaps twice, enters the cache. *)
LEMMA OpenedStep ==
  ASSUME IInv, NEW u \in User, Opened(u)
  PROVE  IInv'
<1> DEFINE k == user[u].file
<1>0. user[u].at = "opening" /\ k \in Key /\ k \notin evicted /\ user[u].handle = None
  BY DEF Opened, IInv, UsersRight, TypeOK
<1> HIDE DEF k
<1>1. PICK e \in Entry :
        /\ refs[e] = 0 /\ Insert(e, k)
        /\ user' = [user EXCEPT ![u].at = "holding", ![u].handle = e]
  BY DEF Opened, k
<1>2. UNCHANGED <<live, evicted>>
  BY DEF Opened, files
<1>3. TypeOK /\ Counted
  BY DEF IInv
<1>4. e # None /\ ~in_cache[e] /\ Holders(e) = {} /\ capacity \in Nat
  BY <1>1, <1>3, CountFacts, CacheAssumption DEF CacheAssumption, TypeOK
<1>5. /\ user'[u].at = "holding" /\ user'[u].handle = e /\ user'[u].file = k
      /\ \A v \in User \ {u} : user'[v] = user[v]
      /\ user' \in [User -> [at : {"idle", "ready", "opening", "holding"},
                             file : Key \union {None}, handle : Entry \union {None}]]
  <2>1. user \in [User -> [at : {"idle", "ready", "opening", "holding"},
                           file : Key \union {None}, handle : Entry \union {None}]]
    BY DEF IInv, TypeOK
  <2>2. user'[u] = [at |-> "holding", file |-> user[u].file, handle |-> e]
    BY <1>1, <2>1
  <2>3. \A v \in User \ {u} : user'[v] = user[v]
    BY <1>1, <2>1
  <2>4. user' = [v \in User |-> user'[v]]
    BY <1>1, <2>1
  <2> QED BY <2>1, <2>2, <2>3, <2>4 DEF k
<1> DEFINE gone == IF capacity > 0 THEN Gone(k) ELSE {}
<1>6. gone \subseteq InCache /\ e \notin gone
  BY <1>0, <1>4, GoneFacts DEF InCache
<1>7. /\ key' = [key EXCEPT ![e] = k]
      /\ refs' = [f \in Entry |-> IF f = e THEN IF capacity > 0 THEN 2 ELSE 1
                                  ELSE IF f \in gone THEN refs[f] - 1 ELSE refs[f]]
      /\ in_cache' = [f \in Entry |-> IF f = e THEN capacity > 0 ELSE in_cache[f] /\ f \notin gone]
      /\ table' = IF capacity > 0
                  THEN [j \in Key |-> IF j = k THEN e ELSE IF table[j] \in gone THEN None ELSE table[j]]
                  ELSE table
      /\ capacity' = capacity
  <2>1. CASE capacity > 0
    BY <1>1, <2>1 DEF Insert, Gone, Rest, Unreffed
  <2>2. CASE ~(capacity > 0)
    <3>1. 1..0 = {}
      OBVIOUS
    <3> QED BY <1>1, <2>2, <3>1 DEF Insert, Unreffed
  <2> QED BY <2>1, <2>2
<1>8. capacity > 0 => OldOf(k) \subseteq gone
  BY DEF Gone
<1> HIDE DEF gone
<1>9. /\ refs'[e] = IF capacity > 0 THEN 2 ELSE 1
      /\ in_cache'[e] <=> capacity > 0
      /\ key'[e] = k
      /\ \A f \in Entry \ {e} :
           /\ key'[f] = key[f]
           /\ in_cache'[f] <=> in_cache[f] /\ f \notin gone
           /\ f \in gone => refs'[f] = refs[f] - 1 /\ in_cache[f] /\ refs[f] >= 1
           /\ f \notin gone => refs'[f] = refs[f]
           /\ refs[f] \in Nat /\ in_cache[f] \in BOOLEAN
  BY <1>3, <1>6, <1>7, CountFacts DEF TypeOK, InCache
<1>10. /\ lru' \in Seq(Entry) /\ ListsInv' /\ UsageBounded' /\ usage' \in Nat /\ in_use' \subseteq Entry
  <2>1. CASE capacity > 0
    BY <1>0, <1>1, <2>1, InsertedLists
  <2>2. CASE ~(capacity > 0)
    <3>1. lru' = SubSeq(lru, 1, Len(lru)) /\ in_use' = in_use /\ usage' = usage /\ gone = {}
      BY <1>1, <2>2 DEF Insert, gone
    <3>2. lru \in Seq(Entry) /\ Distinct(lru) /\ in_use \subseteq Entry /\ usage \in Nat
      BY DEF IInv, ListsInv, TypeOK
    <3>3. lru' = lru
      BY <3>1, <3>2, SubSeqFull
    <3>4. /\ ~in_cache'[e]
          /\ \A f \in Entry \ {e} : (in_cache'[f] <=> in_cache[f]) /\ refs'[f] = refs[f]
      BY <1>9, <2>2, <3>1
    <3>5. InCache' = InCache
      BY <3>4, <1>4 DEF InCache
    <3>6. Listed(lru') = {f \in Entry : in_cache'[f] /\ refs'[f] = 1}
      BY <3>3, <3>4, <1>4 DEF IInv, ListsInv
    <3>7. in_use' = {f \in Entry : in_cache'[f] /\ refs'[f] > 1}
      BY <3>1, <3>4, <1>4 DEF IInv, ListsInv
    <3>8. ListsInv'
      BY <3>1, <3>2, <3>3, <3>5, <3>6, <3>7 DEF IInv, ListsInv
    <3> QED BY <3>1, <3>2, <3>3, <3>8, <1>7 DEF IInv, UsageBounded
  <2> QED BY <2>1, <2>2
<1>11. TypeOK'
  <2>1. refs' \in [Entry -> Nat] /\ in_cache' \in [Entry -> BOOLEAN]
    <3>1. in_cache' \in [Entry -> BOOLEAN]
      <4>1. CASE capacity > 0
        <5>1. in_cache' = [f \in Entry |-> f = e \/ (in_cache[f] /\ f \notin gone)]
          BY <4>1, <1>7
        <5> QED BY <5>1
      <4>2. CASE ~(capacity > 0)
        <5>1. in_cache' = [f \in Entry |-> f # e /\ in_cache[f] /\ f \notin gone]
          BY <4>2, <1>7
        <5> QED BY <5>1
      <4> QED BY <4>1, <4>2
    <3>2. \A f \in Entry : refs'[f] \in Nat
      BY <1>9
    <3>3. refs' = [f \in Entry |-> refs'[f]]
      BY <1>7
    <3> QED BY <3>1, <3>2, <3>3
  <2>2. key' \in [Entry -> Key \union {None}]
    BY <1>0, <1>3, <1>7 DEF TypeOK
  <2>3. table' \in [Key -> Entry \union {None}]
    BY <1>0, <1>3, <1>7 DEF TypeOK
  <2> QED BY <2>1, <2>2, <2>3, <1>2, <1>3, <1>5, <1>7, <1>10 DEF TypeOK
<1>12. Counted'
  <2> SUFFICES ASSUME NEW f \in Entry
               PROVE  refs'[f] = Cardinality(Holders(f)') + IF in_cache'[f] THEN 1 ELSE 0
    BY DEF Counted
  <2>1. Holders(f)' = IF e = f THEN Holders(f) \union {u} ELSE Holders(f) \ {u}
    BY <1>3, <1>5, HandleChange
  <2>2. CASE f = e
    <3>1. Holders(f)' = {u}
      BY <2>1, <2>2, <1>4
    <3>2. Cardinality(Holders(f)') = 1
      BY <3>1, FS_Singleton
    <3> QED BY <3>2, <2>2, <1>9
  <2>3. CASE f # e
    <3>1. u \notin Holders(f)
      BY <1>0, CacheAssumption DEF Holders, CacheAssumption
    <3>2. Holders(f)' = Holders(f)
      BY <3>1, <2>1, <2>3
    <3>3. refs[f] = Cardinality(Holders(f)) + IF in_cache[f] THEN 1 ELSE 0
      BY <1>3 DEF Counted
    <3>4. Cardinality(Holders(f)) \in Nat
      BY <1>3, CountFacts
    <3>5. Cardinality(Holders(f)') = Cardinality(Holders(f))
      BY <3>2
    <3>6. CASE f \in gone
      <4>1. in_cache[f] /\ ~in_cache'[f] /\ refs'[f] = refs[f] - 1
        BY <3>6, <2>3, <1>9
      <4> QED BY <4>1, <3>3, <3>4, <3>5
    <3>7. CASE f \notin gone
      <4>1. (in_cache'[f] <=> in_cache[f]) /\ refs'[f] = refs[f]
        BY <3>7, <2>3, <1>9
      <4> QED BY <4>1, <3>3, <3>4, <3>5
    <3> QED BY <3>6, <3>7
  <2> QED BY <2>2, <2>3
<1>13. UsersRight'
  BY <1>0, <1>2, <1>4, <1>5 DEF IInv, UsersRight
<1>14. HandlesGood'
  <2> SUFFICES ASSUME NEW v \in User, user'[v].at = "holding", NEW f \in Entry, f = user'[v].handle
               PROVE  refs'[f] > 0 /\ key'[f] = user'[v].file
    BY <1>11, <1>13 DEF HandlesGood, UsersRight, TypeOK
  <2>1. CASE v = u
    BY <2>1, <1>5, <1>9
  <2>2. CASE v # u
    <3>1. user'[v] = user[v]
      BY <2>2, <1>5
    <3>2. refs[f] > 0 /\ key[f] = user[v].file /\ v \in Holders(f)
      BY <3>1 DEF IInv, HandlesGood, Holders
    <3>3. f # e /\ (in_cache[f] => refs[f] # 1)
      BY <3>2, <1>3, <1>4, CountFacts
    <3> QED BY <3>1, <3>2, <3>3, <1>9
  <2> QED BY <2>1, <2>2
<1>15. TablesRight'
  <2>1. ASSUME NEW j \in Key, table'[j] # None PROVE in_cache'[table'[j]] /\ key'[table'[j]] = j
    <3>1. CASE capacity > 0 /\ j = k
      BY <3>1, <1>0, <1>7, <1>9
    <3>2. CASE ~(capacity > 0 /\ j = k)
      <4>1. table'[j] = table[j] /\ table[j] \notin gone /\ table[j] \in Entry
        BY <2>1, <3>2, <1>3, <1>7 DEF gone, TypeOK
      <4>2. in_cache[table[j]] /\ key[table[j]] = j
        BY <2>1, <4>1 DEF IInv, TablesRight
      <4> QED BY <4>1, <4>2, <1>4, <1>9
    <3> QED BY <3>1, <3>2
  <2>2. ASSUME NEW f \in Entry, in_cache'[f] PROVE key'[f] \in Key /\ table'[key'[f]] = f
    <3>1. CASE f = e
      BY <2>2, <3>1, <1>0, <1>7, <1>9
    <3>2. CASE f # e
      <4>1. in_cache[f] /\ f \notin gone /\ key'[f] = key[f]
        BY <2>2, <3>2, <1>9
      <4>2. key[f] \in Key /\ table[key[f]] = f
        BY <4>1 DEF IInv, TablesRight
      <4>3. CASE capacity > 0
        <5>1. key[f] # k
          BY <4>1, <4>2, <4>3, <1>8, CacheAssumption DEF OldOf, CacheAssumption
        <5> QED BY <5>1, <4>1, <4>2, <4>3, <1>7
      <4>4. CASE ~(capacity > 0)
        BY <4>1, <4>2, <4>4, <1>7
      <4> QED BY <4>3, <4>4
    <3> QED BY <3>1, <3>2
  <2> QED BY <2>1, <2>2 DEF TablesRight
<1>16. EvictedAreClosed' /\ (evicted \intersect live = {})'
  BY <1>0, <1>2, <1>9 DEF IInv, EvictedAreClosed
<1> QED BY <1>10, <1>11, <1>12, <1>13, <1>14, <1>15, <1>16 DEF IInv
---------------------------------------------------------------------------
(* The theorems. *)

(* The invariant holds of an empty cache. *)
LEMMA InitInv ==
  ASSUME Init
  PROVE  IInv
<1>1. \A e \in Entry : Holders(e) = {}
  BY CacheAssumption DEF Init, Holders, Idle, CacheAssumption
<1>2. InCache = {} /\ Listed(<<>>) = {} /\ Distinct(<<>>)
  BY DEF Init, InCache, Listed, Distinct
<1>3. Cardinality({}) = 0
  BY FS_EmptySet
<1>4. TypeOK
  BY DEF Init, TypeOK, Idle
<1>5. Counted
  <2>1. \A e \in Entry : refs[e] = 0 /\ ~in_cache[e]
    BY DEF Init
  <2>2. \A e \in Entry : Cardinality(Holders(e)) = 0
    BY <1>1, <1>3
  <2> QED BY <2>1, <2>2 DEF Counted
<1>6. ListsInv
  BY <1>2, <1>3 DEF Init, ListsInv
<1>7. UsersRight /\ HandlesGood /\ TablesRight
  BY DEF Init, UsersRight, HandlesGood, TablesRight, Idle
<1>8. UsageBounded
  BY CacheAssumption DEF Init, UsageBounded, CacheAssumption
<1>9. evicted \intersect live = {} /\ EvictedAreClosed
  BY DEF Init, EvictedAreClosed
<1> QED BY <1>4, <1>5, <1>6, <1>7, <1>8, <1>9 DEF IInv

(* Every step keeps it. *)
LEMMA NextInv ==
  ASSUME IInv, [Next]_vars
  PROVE  IInv'
<1>0. TypeOK /\ UsersRight
  BY DEF IInv
<1>1. ASSUME NEW u \in User, NEW k \in Key, TakeVersion(u, k) PROVE IInv'
  <2>1. TypeOK'
    BY <1>0, <1>1 DEF TakeVersion, TypeOK, files
  <2>2. UsersRight'
    BY <1>0, <1>1 DEF TakeVersion, TypeOK, UsersRight, files, Idle, IInv
  <2> QED BY <1>0, <1>1, <2>1, <2>2, QuietStep DEF TakeVersion, TypeOK, files, Idle
<1>2. ASSUME NEW u \in User, LetVersionGo(u) PROVE IInv'
  <2>1. TypeOK'
    BY <1>0, <1>2 DEF LetVersionGo, TypeOK, files, Idle
  <2>2. UsersRight'
    BY <1>0, <1>2, CacheAssumption DEF LetVersionGo, TypeOK, UsersRight, files, Idle, CacheAssumption
  <2> QED BY <1>0, <1>2, <2>1, <2>2, QuietStep DEF LetVersionGo, TypeOK, files, Idle, UsersRight
<1>3. ASSUME NEW u \in User, FindTableMiss(u) PROVE IInv'
  <2>1. TypeOK'
    <3>1. user' \in [User -> [at : {"idle", "ready", "opening", "holding"},
                              file : Key \union {None}, handle : Entry \union {None}]]
      <4>1. user \in [User -> [at : {"idle", "ready", "opening", "holding"},
                               file : Key \union {None}, handle : Entry \union {None}]]
        BY <1>0 DEF TypeOK
      <4>2. user' = [user EXCEPT ![u].at = "opening"]
        BY <1>3 DEF FindTableMiss
      <4> QED BY <4>1, <4>2
    <3> QED BY <3>1, <1>0, <1>3 DEF FindTableMiss, TypeOK, files
  <2>2. UsersRight'
    BY <1>0, <1>3 DEF FindTableMiss, TypeOK, UsersRight, files
  <2> QED BY <1>0, <1>3, <2>1, <2>2, QuietStep DEF FindTableMiss, TypeOK, files
<1>4. ASSUME NEW u \in User, OpenFails(u) PROVE IInv'
  <2>1. TypeOK'
    <3>1. user' \in [User -> [at : {"idle", "ready", "opening", "holding"},
                              file : Key \union {None}, handle : Entry \union {None}]]
      BY <1>0, <1>4 DEF OpenFails, TypeOK
    <3> QED BY <3>1, <1>0, <1>4 DEF OpenFails, TypeOK, files
  <2>2. UsersRight'
    BY <1>0, <1>4 DEF OpenFails, TypeOK, UsersRight, files
  <2> QED BY <1>0, <1>4, <2>1, <2>2, QuietStep DEF OpenFails, TypeOK, files
<1>5. ASSUME NEW k \in Key, Compacted(k) PROVE IInv'
  <2>1. TypeOK' /\ UsersRight'
    BY <1>0, <1>5 DEF Compacted, TypeOK, UsersRight
  <2> QED BY <1>5, <2>1, QuietStep DEF Compacted
<1>6. CASE UNCHANGED vars
  <2>1. TypeOK' /\ UsersRight'
    BY <1>0, <1>6 DEF vars, TypeOK, UsersRight
  <2> QED BY <1>6, <2>1, QuietStep DEF vars
<1> QED BY <1>1, <1>2, <1>3, <1>4, <1>5, <1>6, HitStep, OpenedStep, ReleaseStep, EvictStep, PruneStep DEF Next

(* The invariant is one of the specification: no order of lookups, opens,
   releases, evictions and prunes by any number of users breaks it. *)
THEOREM CacheInvariant == Spec => []IInv
  BY InitInv, NextInv, PTL DEF Spec

(* Every reachable state is of its types; usage_, unsigned in the code,
   never goes below 0. *)
THEOREM TypeCorrect == Spec => []TypeOK
<1>1. IInv => TypeOK
  BY DEF IInv
<1> QED BY <1>1, CacheInvariant, PTL

(* An entry has a reference for each holder and one for the cache. *)
THEOREM CountCorrect == Spec => []Counted
<1>1. IInv => Counted
  BY DEF IInv
<1> QED BY <1>1, CacheInvariant, PTL

(* No user reads a table that was closed, or another file's. *)
THEOREM HandlesCorrect == Spec => []HandlesGood
<1>1. IInv => HandlesGood
  BY DEF IInv
<1> QED BY <1>1, CacheInvariant, PTL

(* The two lists, the table and the usage agree (cache.cc:28-38). *)
THEOREM ListsCorrect == Spec => []ListsRight
<1>1. IInv => ListsRight
  <2> SUFFICES ASSUME IInv PROVE ListsRight
    OBVIOUS
  <2>1. Cardinality(Listed(lru)) = Len(lru)
    BY ListedCount DEF IInv, TypeOK, ListsInv
  <2>2. \A e \in Entry : in_cache[e] <=> \E k \in Key : table[k] = e
    BY CacheAssumption DEF IInv, TypeOK, TablesRight, CacheAssumption
  <2>3. \A k \in Key : table[k] # None => key[table[k]] = k
    BY DEF IInv, TablesRight
  <2> QED BY <2>1, <2>2, <2>3 DEF IInv, ListsInv, ListsRight, InCache
<1> QED BY <1>1, CacheInvariant, PTL

(* The usage passes the capacity only up to the number of users. *)
THEOREM UsageCorrect == Spec => []UsageBounded
<1>1. IInv => UsageBounded
  BY DEF IInv
<1> QED BY <1>1, CacheInvariant, PTL

(* No table of a file stays open once the file is evicted. *)
THEOREM EvictionCorrect == Spec => []EvictedAreClosed
<1>1. IInv => EvictedAreClosed
  BY DEF IInv
<1> QED BY <1>1, CacheInvariant, PTL

-------------------------------------------------------------------------------
(* Entries and their order. *)

Entries == DOMAIN written

(* What was written, where it is, and what may be seen of it. *)
DataOK ==
  /\ \E n \in Nat : Entries = 1..n /\ sequence \in Nat /\ sequence <= n
  /\ written \in [Entries -> Said]
  /\ children \in [Child -> SUBSET Entries]
  /\ \A c, d \in Child : c # d => children[c] \intersect children[d] = {}
  /\ \A n \in Entries : \E c \in Child : n \in children[c]

(* The pairs of R put the elements of E in an order. *)
Orders(R, E) ==
  /\ \A a, b \in E : a # b => <<a, b>> \in R \/ <<b, a>> \in R
  /\ \A a, b, c \in E : <<a, b>> \in R /\ <<b, c>> \in R => <<a, c>> \in R

(* A finite set whose elements are in a strict order has a first one: a    *)
(* smallest set without one would still have none with one element less.   *)
LEMMA FiniteFirst ==
  ASSUME NEW E, NEW R, Orders(R, E), NEW S \in SUBSET E, IsFiniteSet(S), S # {}
  PROVE  \E a \in S : \A b \in S \ {a} : <<a, b>> \in R
<1> DEFINE Without == {T \in FiniteSubsetsOf(S) : T # {} /\ ~\E a \in T : \A b \in T \ {a} : <<a, b>> \in R}
<1>1. Without = {}
  <2> SUFFICES ASSUME Without # {} PROVE FALSE
    OBVIOUS
  <2>1. PICK T \in Without : \A U \in Without : <<U, T>> \notin StrictSubsetOrdering(S)
    <3>1. IsWellFoundedOn(StrictSubsetOrdering(S), FiniteSubsetsOf(S))
      BY FS_StrictSubsetOrderingWellFounded
    <3>2. Without \subseteq FiniteSubsetsOf(S)
      OBVIOUS
    <3> HIDE DEF Without
    <3> QED BY <3>1, <3>2, WFMin
  <2>2. T \subseteq S /\ IsFiniteSet(T) /\ T # {} /\ ~\E a \in T : \A b \in T \ {a} : <<a, b>> \in R
    BY DEF FiniteSubsetsOf
  <2>3. PICK x : x \in T
    BY <2>2
  <2>4. T \ {x} \in FiniteSubsetsOf(S)
    BY <2>2, FS_RemoveElement DEF FiniteSubsetsOf
  <2>5. <<T \ {x}, T>> \in StrictSubsetOrdering(S)
    BY <2>2, <2>3 DEF StrictSubsetOrdering
  <2>6. T \ {x} # {}
    BY <2>2, <2>3
  <2>7. PICK m \in T \ {x} : \A b \in (T \ {x}) \ {m} : <<m, b>> \in R
    BY <2>1, <2>4, <2>5, <2>6
  <2>8. m \in E /\ x \in E /\ T \subseteq E /\ m # x
    BY <2>2, <2>3
  <2> HIDE DEF Without
  <2>11. <<m, x>> \in R \/ <<x, m>> \in R
    BY <2>8 DEF Orders
  <2>9. CASE <<m, x>> \in R
    <3>1. \A b \in T \ {m} : <<m, b>> \in R
      BY <2>7, <2>9
    <3> QED BY <2>2, <2>7, <3>1
  <2>10. CASE <<x, m>> \in R
    <3>1. \A b \in T \ {x} : b = m \/ <<m, b>> \in R
      BY <2>7
    <3>2. \A b \in T \ {x} : <<x, b>> \in R
      BY <2>8, <2>10, <3>1 DEF Orders
    <3> QED BY <2>2, <2>3, <3>2
  <2> QED BY <2>9, <2>10, <2>11
<1>2. S \in FiniteSubsetsOf(S)
  BY DEF FiniteSubsetsOf
<1> QED BY <1>1, <1>2

(* Entries are numbers from 1, finitely many, and have user keys. *)
LEMMA EntryFacts ==
  ASSUME DataOK
  PROVE  /\ 0 \notin Entries /\ Entries \subseteq Nat \ {0} /\ IsFiniteSet(Entries)
         /\ \A n \in Entries : KeyOf(n) \in UserKey /\ KeyOf(n) \in Nat \ {0}
         /\ sequence \in Nat
<1>1. PICK n \in Nat : Entries = 1..n /\ sequence \in Nat
  BY DEF DataOK
<1>2. IsFiniteSet(Entries) /\ 0 \notin Entries /\ Entries \subseteq Nat \ {0}
  BY <1>1, FS_Interval
<1>3. ASSUME NEW m \in Entries PROVE KeyOf(m) \in UserKey
  <2>1. written[m] \in Said
    BY DEF DataOK
  <2> QED BY <2>1 DEF Said, KeyOf
<1> QED BY <1>1, <1>2, <1>3, IteratorAssumption

(* Internal keys are in a strict total order. *)
LEMMA Ordered ==
  ASSUME DataOK
  PROVE  /\ \A a \in Entries : ~Before(a, a)
         /\ \A a, b \in Entries : Before(a, b) => ~Before(b, a)
         /\ \A a, b \in Entries : a # b => Before(a, b) \/ Before(b, a)
         /\ \A a, b, c \in Entries : Before(a, b) /\ Before(b, c) => Before(a, c)
<1>1. \A n \in Entries : KeyOf(n) \in Nat /\ n \in Nat
  BY EntryFacts
<1> QED BY <1>1 DEF Before

(* What the order says of user keys. *)
LEMMA OrderOfKeys ==
  ASSUME DataOK, NEW a \in Entries, NEW b \in Entries
  PROVE  /\ Before(a, b) => KeyOf(a) <= KeyOf(b)
         /\ KeyOf(a) < KeyOf(b) => Before(a, b)
         /\ Before(a, b) /\ KeyOf(a) = KeyOf(b) => b < a
         /\ KeyOf(a) = KeyOf(b) /\ b < a => Before(a, b)
<1>1. KeyOf(a) \in Nat /\ KeyOf(b) \in Nat /\ a \in Nat /\ b \in Nat
  BY EntryFacts
<1> QED BY <1>1 DEF Before

(* FirstOf is the first of a set of entries. *)
LEMMA FirstIs ==
  ASSUME DataOK, NEW S \in SUBSET Entries
  PROVE  /\ S = {} => FirstOf(S) = 0
         /\ S # {} => FirstOf(S) \in S /\ FirstOf(S) # 0
         /\ \A b \in S : b = FirstOf(S) \/ Before(FirstOf(S), b)
<1>1. CASE S = {}
  BY <1>1 DEF FirstOf
<1>2. CASE S # {}
  <2> DEFINE R == {p \in Entries \X Entries : Before(p[1], p[2])}
  <2>1. \A a, b \in Entries : <<a, b>> \in R <=> Before(a, b)
    OBVIOUS
  <2> HIDE DEF R
  <2>2. IsFiniteSet(S)
    BY EntryFacts, FS_Subset
  <2>3. Orders(R, Entries)
    BY <2>1, Ordered DEF Orders
  <2>4. \E a \in S : \A b \in S \ {a} : <<a, b>> \in R
    BY <1>2, <2>2, <2>3, FiniteFirst
  <2>5. \E a \in S : \A b \in S \ {a} : Before(a, b)
    BY <2>1, <2>4
  <2>6. FirstOf(S) \in S /\ \A b \in S \ {FirstOf(S)} : Before(FirstOf(S), b)
    BY <1>2, <2>5 DEF FirstOf
  <2> QED BY <1>2, <2>6, EntryFacts
<1> QED BY <1>1, <1>2

(* LastOf is the last of a set of entries. *)
LEMMA LastIs ==
  ASSUME DataOK, NEW S \in SUBSET Entries
  PROVE  /\ S = {} => LastOf(S) = 0
         /\ S # {} => LastOf(S) \in S /\ LastOf(S) # 0
         /\ \A b \in S : b = LastOf(S) \/ Before(b, LastOf(S))
<1>1. CASE S = {}
  BY <1>1 DEF LastOf
<1>2. CASE S # {}
  <2> DEFINE R == {p \in Entries \X Entries : Before(p[2], p[1])}
  <2>1. \A a, b \in Entries : <<a, b>> \in R <=> Before(b, a)
    OBVIOUS
  <2> HIDE DEF R
  <2>2. IsFiniteSet(S)
    BY EntryFacts, FS_Subset
  <2>3. Orders(R, Entries)
    BY <2>1, Ordered DEF Orders
  <2>4. \E a \in S : \A b \in S \ {a} : <<a, b>> \in R
    BY <1>2, <2>2, <2>3, FiniteFirst
  <2>5. \E a \in S : \A b \in S \ {a} : Before(b, a)
    BY <2>1, <2>4
  <2>6. LastOf(S) \in S /\ \A b \in S \ {LastOf(S)} : Before(b, LastOf(S))
    BY <1>2, <2>5 DEF LastOf
  <2> QED BY <1>2, <2>6, EntryFacts
<1> QED BY <1>1, <1>2

(* Lowest is the least of a set of keys, 0 of none. *)
LEMMA LowestIs ==
  ASSUME NEW S \in SUBSET UserKey
  PROVE  /\ S = {} <=> Lowest(S) = 0
         /\ S # {} => Lowest(S) \in S /\ Lowest(S) \in Nat /\ \A k \in S : Lowest(S) <= k
<1>1. CASE S = {}
  BY <1>1 DEF Lowest
<1>2. CASE S # {}
  <2> DEFINE R == {p \in Nat \X Nat : p[1] < p[2]}
  <2>1. \A a, b \in Nat : <<a, b>> \in R <=> a < b
    OBVIOUS
  <2> HIDE DEF R
  <2>2. IsFiniteSet(S) /\ S \subseteq Nat /\ 0 \notin S
    BY IteratorAssumption, FS_Subset
  <2>3. Orders(R, Nat)
    BY <2>1 DEF Orders
  <2>4. PICK a \in S : \A b \in S \ {a} : <<a, b>> \in R
    BY <1>2, <2>2, <2>3, FiniteFirst
  <2>5. ASSUME NEW b \in S PROVE a <= b
    <3>1. a \in Nat /\ b \in Nat /\ (a = b \/ <<a, b>> \in R)
      BY <2>2, <2>4
    <3> QED BY <2>1, <3>1
  <2>6. Min(S) \in S /\ \A b \in S : Min(S) <= b
    BY <2>5 DEF Min
  <2> QED BY <1>2, <2>2, <2>6 DEF Lowest
<1> QED BY <1>1, <1>2

(* Max is the greatest of a finite set of numbers. *)
LEMMA MaxIs ==
  ASSUME NEW S \in SUBSET Nat, IsFiniteSet(S), S # {}
  PROVE  Max(S) \in S /\ \A k \in S : Max(S) >= k
<1> DEFINE R == {p \in Nat \X Nat : p[1] > p[2]}
<1>1. \A a, b \in Nat : <<a, b>> \in R <=> a > b
  OBVIOUS
<1> HIDE DEF R
<1>3. Orders(R, Nat)
  BY <1>1 DEF Orders
<1>4. PICK a \in S : \A b \in S \ {a} : <<a, b>> \in R
  BY <1>3, FiniteFirst
<1>5. ASSUME NEW b \in S PROVE a >= b
  <2>1. a \in Nat /\ b \in Nat /\ (a = b \/ <<a, b>> \in R)
    BY <1>4
  <2> QED BY <1>1, <2>1
<1> QED BY <1>5 DEF Max

(* Highest is the greatest of a set of keys, 0 of none. *)
LEMMA HighestIs ==
  ASSUME NEW S \in SUBSET UserKey
  PROVE  /\ S = {} <=> Highest(S) = 0
         /\ S # {} => Highest(S) \in S /\ Highest(S) \in Nat /\ \A k \in S : Highest(S) >= k
<1>1. CASE S = {}
  BY <1>1 DEF Highest
<1>2. CASE S # {}
  <2>1. IsFiniteSet(S) /\ S \subseteq Nat /\ 0 \notin S
    BY IteratorAssumption, FS_Subset
  <2>2. Max(S) \in S /\ \A k \in S : Max(S) >= k
    BY <1>2, <2>1, MaxIs
  <2> QED BY <1>2, <2>1, <2>2 DEF Highest
<1> QED BY <1>1, <1>2

(* What may be seen. *)
Seen == {n \in Entries : Visible(n)}

(* The last write of a key is the first of its visible entries. *)
LEMMA LastWriteIs ==
  ASSUME DataOK, NEW k
  PROVE  /\ LastWrite(k) = 0 <=> \A n \in Seen : KeyOf(n) # k
         /\ LastWrite(k) # 0 => LastWrite(k) \in Seen /\ KeyOf(LastWrite(k)) = k
         /\ \A n \in Seen : KeyOf(n) = k => n = LastWrite(k) \/ Before(LastWrite(k), n)
<1> DEFINE S == {n \in Entries : KeyOf(n) = k /\ Visible(n)}
<1>1. LastWrite(k) = IF S = {} THEN 0 ELSE Max(S)
  BY DEF LastWrite, Entries
<1>2. S \in SUBSET Nat /\ IsFiniteSet(S) /\ 0 \notin S
  <2>1. S \subseteq Entries
    OBVIOUS
  <2> HIDE DEF S
  <2> QED BY <2>1, EntryFacts, FS_Subset
<1>3. \A n : n \in S <=> n \in Seen /\ KeyOf(n) = k
  BY DEF Seen
<1> HIDE DEF S
<1>4. CASE S = {}
  BY <1>1, <1>3, <1>4
<1>5. CASE S # {}
  <2>1. Max(S) \in S /\ \A n \in S : Max(S) >= n
    BY <1>2, <1>5, MaxIs
  <2>2. LastWrite(k) = Max(S) /\ LastWrite(k) # 0
    BY <1>1, <1>2, <1>5, <2>1
  <2>3. \A n \in S : n = Max(S) \/ Before(Max(S), n)
    <3> SUFFICES ASSUME NEW n \in S, n # Max(S) PROVE Before(Max(S), n)
      OBVIOUS
    <3>1. n \in Nat /\ Max(S) \in Nat /\ Max(S) >= n
      BY <1>2, <2>1
    <3>2. n \in Entries /\ Max(S) \in Entries /\ KeyOf(n) = KeyOf(Max(S)) /\ n < Max(S)
      BY <1>3, <2>1, <3>1 DEF Seen
    <3> QED BY <3>2, OrderOfKeys
  <2> QED BY <1>3, <2>1, <2>2, <2>3
<1> QED BY <1>4, <1>5

-------------------------------------------------------------------------------
(* The merger: where its children are. *)

PosOK(p) == p \in [Child -> Entries \union {0}] /\ \A c \in Child : p[c] \in children[c] \union {0}

MergerOK(m) ==
  /\ m \in [pos : [Child -> Entries \union {0}], current : Child \union {0}, forward : BOOLEAN]
  /\ PosOK(m.pos) /\ (m.current # 0 => m.pos[m.current] # 0)

(* current_ is the smallest child, or the largest one. *)
AtSmallest(m) ==
  /\ m.forward
  /\ \A c \in Child : m.pos[c] # 0 => Current(m) # 0 /\ (m.pos[c] = Current(m) \/ Before(Current(m), m.pos[c]))

AtLargest(m) ==
  /\ ~m.forward
  /\ \A c \in Child : m.pos[c] # 0 => Current(m) # 0 /\ (m.pos[c] = Current(m) \/ Before(m.pos[c], Current(m)))

(* Entries that are at the merger or behind it, as it goes forward; and    *)
(* those that are at it or before it.                                      *)
Coming(m, n) == Current(m) # 0 /\ (n = Current(m) \/ Before(Current(m), n))

Going(m, n) == Current(m) # 0 /\ (n = Current(m) \/ Before(n, Current(m)))

(* No visible entry is missed on the way forward, or back. *)
CoversForward(m) ==
  \A c \in Child : \A n \in Seen \intersect children[c] :
    Coming(m, n) => m.pos[c] # 0 /\ (n = m.pos[c] \/ Before(m.pos[c], n))

CoversBack(m) ==
  \A c \in Child : \A n \in Seen \intersect children[c] :
    Going(m, n) => m.pos[c] # 0 /\ (n = m.pos[c] \/ Before(n, m.pos[c]))

(* Where all can be named. *)
LEMMA CurrentIn ==
  ASSUME DataOK, NEW m, MergerOK(m)
  PROVE  /\ Current(m) \in Entries \union {0}
         /\ Current(m) # 0 => /\ m.current \in Child /\ m.pos[m.current] = Current(m)
                              /\ Current(m) \in children[m.current]
         /\ Current(m) = 0 => m.current = 0
BY DEF MergerOK, PosOK, Current

(* A child that is at the outermost position is pointed to. *)
LEMMA PointedIs ==
  ASSUME NEW p, NEW n, n = 0 \/ \E c \in Child : p[c] = n
  PROVE  /\ n = 0 => Pointed(p, n) = 0
         /\ n # 0 => Pointed(p, n) \in Child /\ p[Pointed(p, n)] = n
BY DEF Pointed

(* No child is numbered 0, which stands for none. *)
LEMMA NoChildZero == 0 \notin Child
BY DEF Child

(* FindSmallest points to the first of the positions. *)
LEMMA SmallestIs ==
  ASSUME DataOK, NEW p, PosOK(p)
  PROVE  /\ MergerOK(FindSmallest(p)) /\ FindSmallest(p).pos = p /\ AtSmallest(FindSmallest(p))
         /\ Current(FindSmallest(p)) # 0 => \E c \in Child : p[c] = Current(FindSmallest(p))
<1> DEFINE S == {p[c] : c \in Child} \ {0}
           f == FirstOf(S)
           m == FindSmallest(p)
<1>1. S \in SUBSET Entries /\ \A c \in Child : p[c] # 0 => p[c] \in S
  BY DEF PosOK
<1>2. f \in S \union {0} /\ (S # {} => f \in S /\ f # 0) /\ \A b \in S : b = f \/ Before(f, b)
  <2> HIDE DEF S
  <2> QED BY <1>1, FirstIs
<1>3. f = 0 \/ \E c \in Child : p[c] = f
  BY <1>2
<1>4. m = [pos |-> p, forward |-> TRUE, current |-> Pointed(p, f)]
  BY DEF FindSmallest
<1> HIDE DEF m, f
<1>5. /\ f = 0 => Pointed(p, f) = 0
      /\ f # 0 => Pointed(p, f) \in Child /\ p[Pointed(p, f)] = f
  BY <1>3, PointedIs
<1>6. Current(m) = f
  BY <1>4, <1>5, NoChildZero DEF Current
<1>7. MergerOK(m)
  BY <1>4, <1>5 DEF MergerOK, PosOK
<1>8. AtSmallest(m)
  <2>1. ASSUME NEW c \in Child, p[c] # 0 PROVE f # 0 /\ (p[c] = f \/ Before(f, p[c]))
    <3> HIDE DEF S
    <3> QED BY <1>1, <1>2, <2>1
  <2>2. m.forward = TRUE /\ m.pos = p
    BY <1>4
  <2> QED BY <1>6, <2>1, <2>2 DEF AtSmallest
<1>9. m.pos = p /\ (Current(m) # 0 => \E c \in Child : p[c] = Current(m))
  BY <1>3, <1>4, <1>6
<1> QED BY <1>7, <1>8, <1>9 DEF m

(* FindLargest points to the last of them. *)
LEMMA LargestIs ==
  ASSUME DataOK, NEW p, PosOK(p)
  PROVE  /\ MergerOK(FindLargest(p)) /\ FindLargest(p).pos = p /\ AtLargest(FindLargest(p))
         /\ Current(FindLargest(p)) # 0 => \E c \in Child : p[c] = Current(FindLargest(p))
<1> DEFINE S == {p[c] : c \in Child} \ {0}
           f == LastOf(S)
           m == FindLargest(p)
<1>1. S \in SUBSET Entries /\ \A c \in Child : p[c] # 0 => p[c] \in S
  BY DEF PosOK
<1>2. f \in S \union {0} /\ (S # {} => f \in S /\ f # 0) /\ \A b \in S : b = f \/ Before(b, f)
  <2> HIDE DEF S
  <2> QED BY <1>1, LastIs
<1>3. f = 0 \/ \E c \in Child : p[c] = f
  BY <1>2
<1>4. m = [pos |-> p, forward |-> FALSE, current |-> Pointed(p, f)]
  BY DEF FindLargest
<1> HIDE DEF m, f
<1>5. /\ f = 0 => Pointed(p, f) = 0
      /\ f # 0 => Pointed(p, f) \in Child /\ p[Pointed(p, f)] = f
  BY <1>3, PointedIs
<1>6. Current(m) = f
  BY <1>4, <1>5, NoChildZero DEF Current
<1>7. MergerOK(m)
  BY <1>4, <1>5 DEF MergerOK, PosOK
<1>8. AtLargest(m)
  <2>1. ASSUME NEW c \in Child, p[c] # 0 PROVE f # 0 /\ (p[c] = f \/ Before(p[c], f))
    <3> HIDE DEF S
    <3> QED BY <1>1, <1>2, <2>1
  <2>2. m.forward = FALSE /\ m.pos = p
    BY <1>4
  <2> QED BY <1>6, <2>1, <2>2 DEF AtLargest
<1>9. m.pos = p /\ (Current(m) # 0 => \E c \in Child : p[c] = Current(m))
  BY <1>3, <1>4, <1>6
<1> QED BY <1>7, <1>8, <1>9 DEF m

(* Where every child is at the first of its entries in W, or before it,    *)
(* and behind the visible ones that are not in W, the merger has W before  *)
(* it.                                                                     *)
LEMMA SmallestCovers ==
  ASSUME DataOK, NEW p, PosOK(p), NEW W \in SUBSET Seen,
         \A c \in Child : \A n \in W \intersect children[c] : p[c] # 0 /\ (n = p[c] \/ Before(p[c], n)),
         \A c \in Child : p[c] # 0 => \A n \in Seen \ W : Before(n, p[c])
  PROVE  /\ CoversForward(FindSmallest(p))
         /\ \A n \in Seen : Coming(FindSmallest(p), n) <=> n \in W
<1> DEFINE m == FindSmallest(p)
           e == Current(m)
<1>1. MergerOK(m) /\ m.pos = p /\ AtSmallest(m) /\ (e # 0 => \E c \in Child : p[c] = e)
  BY SmallestIs
<1> HIDE DEF m
<1>2. Seen \subseteq Entries /\ \A c \in Child : p[c] # 0 => p[c] \in Entries
  BY DEF Seen, PosOK
<1>3. e \in Entries \union {0}
  BY <1>1, CurrentIn
<1>4. ASSUME NEW n \in W PROVE Coming(m, n)
  <2>1. PICK c \in Child : n \in children[c]
    BY <1>2 DEF DataOK
  <2>2. p[c] # 0 /\ (n = p[c] \/ Before(p[c], n))
    BY <2>1
  <2>3. e # 0 /\ (p[c] = e \/ Before(e, p[c]))
    BY <1>1, <2>2 DEF AtSmallest
  <2>4. n \in Entries /\ p[c] \in Entries /\ e \in Entries
    BY <1>2, <1>3, <2>2, <2>3
  <2>5. n = e \/ Before(e, n)
    BY <2>2, <2>3, <2>4, Ordered
  <2> QED BY <2>3, <2>5 DEF Coming
<1>5. ASSUME NEW n \in Seen \ W PROVE ~Coming(m, n)
  <2> SUFFICES ASSUME Coming(m, n) PROVE FALSE
    OBVIOUS
  <2>1. e # 0 /\ (n = e \/ Before(e, n))
    BY DEF Coming
  <2>2. Before(n, e)
    BY <1>1, <2>1
  <2>3. n \in Entries /\ e \in Entries
    BY <1>2, <1>3, <2>1
  <2> QED BY <2>1, <2>2, <2>3, Ordered
<1>6. \A n \in Seen : Coming(m, n) <=> n \in W
  BY <1>4, <1>5
<1>7. CoversForward(m)
  BY <1>1, <1>6 DEF CoversForward
<1> QED BY <1>6, <1>7 DEF m

(* The same for the last of the positions, on the way back. *)
LEMMA LargestCovers ==
  ASSUME DataOK, NEW p, PosOK(p), NEW W \in SUBSET Seen,
         \A c \in Child : \A n \in W \intersect children[c] : p[c] # 0 /\ (n = p[c] \/ Before(n, p[c])),
         \A c \in Child : p[c] # 0 => \A n \in Seen \ W : Before(p[c], n)
  PROVE  /\ CoversBack(FindLargest(p))
         /\ \A n \in Seen : Going(FindLargest(p), n) <=> n \in W
<1> DEFINE m == FindLargest(p)
           e == Current(m)
<1>1. MergerOK(m) /\ m.pos = p /\ AtLargest(m) /\ (e # 0 => \E c \in Child : p[c] = e)
  BY LargestIs
<1> HIDE DEF m
<1>2. Seen \subseteq Entries /\ \A c \in Child : p[c] # 0 => p[c] \in Entries
  BY DEF Seen, PosOK
<1>3. e \in Entries \union {0}
  BY <1>1, CurrentIn
<1>4. ASSUME NEW n \in W PROVE Going(m, n)
  <2>1. PICK c \in Child : n \in children[c]
    BY <1>2 DEF DataOK
  <2>2. p[c] # 0 /\ (n = p[c] \/ Before(n, p[c]))
    BY <2>1
  <2>3. e # 0 /\ (p[c] = e \/ Before(p[c], e))
    BY <1>1, <2>2 DEF AtLargest
  <2>4. n \in Entries /\ p[c] \in Entries /\ e \in Entries
    BY <1>2, <1>3, <2>2, <2>3
  <2>5. n = e \/ Before(n, e)
    BY <2>2, <2>3, <2>4, Ordered
  <2> QED BY <2>3, <2>5 DEF Going
<1>5. ASSUME NEW n \in Seen \ W PROVE ~Going(m, n)
  <2> SUFFICES ASSUME Going(m, n) PROVE FALSE
    OBVIOUS
  <2>1. e # 0 /\ (n = e \/ Before(n, e))
    BY DEF Going
  <2>2. Before(e, n)
    BY <1>1, <2>1
  <2>3. n \in Entries /\ e \in Entries
    BY <1>2, <1>3, <2>1
  <2> QED BY <2>1, <2>2, <2>3, Ordered
<1>6. \A n \in Seen : Going(m, n) <=> n \in W
  BY <1>4, <1>5
<1>7. CoversBack(m)
  BY <1>1, <1>6 DEF CoversBack
<1> QED BY <1>6, <1>7 DEF m

(* Steps of one child. *)
LEMMA AfterIs ==
  ASSUME DataOK, NEW c \in Child, NEW n \in Entries
  PROVE  /\ After(c, n) \in children[c] \union {0}
         /\ After(c, n) # 0 => Before(n, After(c, n))
         /\ \A x \in children[c] : Before(n, x) =>
              After(c, n) # 0 /\ (x = After(c, n) \/ Before(After(c, n), x))
<1> DEFINE S == {x \in children[c] : Before(n, x)}
<1>1. S \in SUBSET Entries
  BY DEF DataOK
<1>2. After(c, n) = FirstOf(S)
  BY DEF After
<1>3. \A x : x \in S <=> x \in children[c] /\ Before(n, x)
  OBVIOUS
<1> HIDE DEF S
<1>4. /\ FirstOf(S) \in S \/ FirstOf(S) = 0
      /\ S # {} => FirstOf(S) # 0
      /\ \A x \in S : x = FirstOf(S) \/ Before(FirstOf(S), x)
  BY <1>1, FirstIs
<1>5. FirstOf(S) # 0 => FirstOf(S) \in S
  BY <1>4
<1> QED BY <1>2, <1>3, <1>4, <1>5

(* Ahead is the last entry of a child in front of another. *)
LEMMA AheadIs ==
  ASSUME DataOK, NEW c \in Child, NEW n \in Entries
  PROVE  /\ Ahead(c, n) \in children[c] \union {0}
         /\ Ahead(c, n) # 0 => Before(Ahead(c, n), n)
         /\ \A x \in children[c] : Before(x, n) =>
              Ahead(c, n) # 0 /\ (x = Ahead(c, n) \/ Before(x, Ahead(c, n)))
<1> DEFINE S == {x \in children[c] : Before(x, n)}
<1>1. S \in SUBSET Entries
  BY DEF DataOK
<1>2. Ahead(c, n) = LastOf(S)
  BY DEF Ahead
<1>3. \A x : x \in S <=> x \in children[c] /\ Before(x, n)
  OBVIOUS
<1> HIDE DEF S
<1>4. /\ LastOf(S) \in S \/ LastOf(S) = 0
      /\ S # {} => LastOf(S) # 0
      /\ \A x \in S : x = LastOf(S) \/ Before(x, LastOf(S))
  BY <1>1, LastIs
<1>5. LastOf(S) # 0 => LastOf(S) \in S
  BY <1>4
<1> QED BY <1>2, <1>3, <1>4, <1>5

(* The entries of a child are entries. *)
LEMMA ChildIn ==
  ASSUME DataOK, NEW c \in Child
  PROVE  children[c] \in SUBSET Entries
BY DEF DataOK

(* The seeks. *)
LEMMA MergerFirstIs ==
  ASSUME DataOK
  PROVE  /\ MergerOK(MergerFirst) /\ AtSmallest(MergerFirst) /\ CoversForward(MergerFirst)
         /\ \A n \in Seen : Coming(MergerFirst, n)
<1> DEFINE p == [c \in Child |-> FirstOf(children[c])]
<1>1. ASSUME NEW c \in Child
      PROVE  /\ p[c] \in children[c] \union {0} /\ p[c] \in Entries \union {0}
             /\ \A n \in children[c] : p[c] # 0 /\ (n = p[c] \/ Before(p[c], n))
  BY ChildIn, FirstIs
<1>2. MergerFirst = FindSmallest(p)
  BY DEF MergerFirst
<1>3. p \in [Child -> Entries \union {0}]
  BY <1>1
<1> HIDE DEF p
<1>4. PosOK(p)
  BY <1>1, <1>3 DEF PosOK
<1>5. CoversForward(FindSmallest(p)) /\ \A n \in Seen : Coming(FindSmallest(p), n) <=> n \in Seen
  BY <1>1, <1>4, SmallestCovers
<1> QED BY <1>2, <1>4, <1>5, SmallestIs

(* A seek to the last entry has all of them before it, on the way back. *)
LEMMA MergerLastIs ==
  ASSUME DataOK
  PROVE  /\ MergerOK(MergerLast) /\ AtLargest(MergerLast) /\ CoversBack(MergerLast)
         /\ \A n \in Seen : Going(MergerLast, n)
<1> DEFINE p == [c \in Child |-> LastOf(children[c])]
<1>1. ASSUME NEW c \in Child
      PROVE  /\ p[c] \in children[c] \union {0} /\ p[c] \in Entries \union {0}
             /\ \A n \in children[c] : p[c] # 0 /\ (n = p[c] \/ Before(n, p[c]))
  BY ChildIn, LastIs
<1>2. MergerLast = FindLargest(p)
  BY DEF MergerLast
<1>3. p \in [Child -> Entries \union {0}]
  BY <1>1
<1> HIDE DEF p
<1>4. PosOK(p)
  BY <1>1, <1>3 DEF PosOK
<1>5. CoversBack(FindLargest(p)) /\ \A n \in Seen : Going(FindLargest(p), n) <=> n \in Seen
  BY <1>1, <1>4, LargestCovers
<1> QED BY <1>2, <1>4, <1>5, LargestIs

(* A seek to a key has the visible entries from that key on before it. *)
LEMMA MergerSeekIs ==
  ASSUME DataOK, NEW k \in UserKey
  PROVE  /\ MergerOK(MergerSeek(k)) /\ AtSmallest(MergerSeek(k)) /\ CoversForward(MergerSeek(k))
         /\ \A n \in Seen : Coming(MergerSeek(k), n) <=> KeyOf(n) >= k
<1> DEFINE S(c) == {n \in children[c] : KeyOf(n) > k \/ (KeyOf(n) = k /\ n <= sequence)}
           p == [c \in Child |-> FirstOf(S(c))]
           W == {n \in Seen : KeyOf(n) >= k}
<1>0. k \in Nat /\ \A n \in Entries : KeyOf(n) \in Nat
  BY EntryFacts, IteratorAssumption
<1>1. ASSUME NEW c \in Child
      PROVE  /\ S(c) \in SUBSET Entries /\ S(c) \subseteq children[c]
             /\ \A n \in S(c) : KeyOf(n) >= k
             /\ \A n \in W : n \in children[c] => n \in S(c)
  <2>1. S(c) \in SUBSET Entries /\ S(c) \subseteq children[c]
    BY ChildIn
  <2>2. \A n \in S(c) : KeyOf(n) >= k
    BY <1>0, <2>1
  <2>3. \A n \in W : n \in children[c] => n \in S(c)
    BY <1>0 DEF Seen, Visible
  <2> QED BY <2>1, <2>2, <2>3
<1>2. ASSUME NEW c \in Child
      PROVE  /\ p[c] \in S(c) \union {0}
             /\ \A n \in S(c) : p[c] # 0 /\ (n = p[c] \/ Before(p[c], n))
  <2>1. p[c] = FirstOf(S(c)) /\ S(c) \in SUBSET Entries
    BY <1>1
  <2> HIDE DEF S, p
  <2> QED BY <2>1, FirstIs
<1>3. MergerSeek(k) = FindSmallest(p)
  BY DEF MergerSeek
<1>4. p = [c \in Child |-> p[c]]
  OBVIOUS
<1>5. W \in SUBSET Seen /\ (\A n \in Seen : n \in W <=> KeyOf(n) >= k)
  OBVIOUS
<1> HIDE DEF p, W, S
<1>6. PosOK(p)
  BY <1>1, <1>2, <1>4 DEF PosOK
<1>7. \A c \in Child : \A n \in W \intersect children[c] : p[c] # 0 /\ (n = p[c] \/ Before(p[c], n))
  BY <1>1, <1>2
<1>8. ASSUME NEW c \in Child, p[c] # 0, NEW n \in Seen \ W PROVE Before(n, p[c])
  <2>1. p[c] \in Entries /\ KeyOf(p[c]) >= k
    BY <1>1, <1>2, <1>8
  <2>2. n \in Entries /\ ~(KeyOf(n) >= k)
    BY <1>5 DEF Seen
  <2>3. KeyOf(n) < KeyOf(p[c])
    BY <1>0, <2>1, <2>2
  <2> QED BY <2>1, <2>2, <2>3, OrderOfKeys
<1>9. CoversForward(FindSmallest(p)) /\ \A n \in Seen : Coming(FindSmallest(p), n) <=> n \in W
  BY <1>5, <1>6, <1>7, <1>8, SmallestCovers
<1> QED BY <1>3, <1>5, <1>6, <1>9, SmallestIs

(* Next: what is behind the entry it leaves is still to come. *)
LEMMA MergerNextIs ==
  ASSUME DataOK, NEW m, MergerOK(m), Current(m) # 0, m.forward => AtSmallest(m) /\ CoversForward(m)
  PROVE  /\ MergerOK(MergerNext(m)) /\ AtSmallest(MergerNext(m)) /\ CoversForward(MergerNext(m))
         /\ \A n \in Seen : Coming(MergerNext(m), n) <=> Before(Current(m), n)
<1> DEFINE e == Current(m)
           p == [c \in Child |-> IF c = m.current \/ ~m.forward THEN After(c, e) ELSE m.pos[c]]
           W == {n \in Seen : Before(e, n)}
<1>1. e \in Entries /\ m.current \in Child /\ e \in children[m.current]
  BY CurrentIn
<1>2. MergerNext(m) = FindSmallest(p)
  BY DEF MergerNext
<1>3. W \in SUBSET Seen /\ (\A n \in Seen : n \in W <=> Before(e, n)) /\ Seen \subseteq Entries
  BY DEF Seen
<1> HIDE DEF W, e
<1>4. ASSUME NEW c \in Child
      PROVE  /\ p[c] \in children[c] \union {0} /\ p[c] \in Entries \union {0}
             /\ p[c] # 0 => Before(e, p[c])
             /\ \A n \in W \intersect children[c] : p[c] # 0 /\ (n = p[c] \/ Before(p[c], n))
  <2>1. CASE c = m.current \/ ~m.forward
    <3>1. p[c] = After(c, e)
      BY <2>1
    <3> HIDE DEF p
    <3>2. \A n \in W \intersect children[c] : Before(e, n)
      BY <1>3
    <3> QED BY <1>1, <3>1, <3>2, AfterIs, ChildIn
  <2>2. CASE c # m.current /\ m.forward
    <3>1. p[c] = m.pos[c]
      BY <2>2
    <3> HIDE DEF p
    <3>2. p[c] \in children[c] \union {0} /\ p[c] \in Entries \union {0}
      BY <3>1, ChildIn DEF MergerOK, PosOK
    <3>3. p[c] # 0 => p[c] = e \/ Before(e, p[c])
      BY <2>2, <3>1 DEF AtSmallest, e
    <3>4. p[c] # e
      BY <1>1, <2>2, <3>2, EntryFacts DEF DataOK
    <3>5. ASSUME NEW n \in W \intersect children[c] PROVE p[c] # 0 /\ (n = p[c] \/ Before(p[c], n))
      <4>1. Coming(m, n) /\ n \in Seen \intersect children[c]
        BY <1>3 DEF Coming, e
      <4> QED BY <2>2, <3>1, <4>1 DEF CoversForward
    <3> QED BY <3>2, <3>3, <3>4, <3>5
  <2> QED BY <2>1, <2>2
<1>5. p \in [Child -> Entries \union {0}]
  BY <1>4
<1> HIDE DEF p
<1>6. PosOK(p)
  BY <1>4, <1>5 DEF PosOK
<1>7. ASSUME NEW c \in Child, p[c] # 0, NEW n \in Seen \ W PROVE Before(n, p[c])
  <2>1. Before(e, p[c]) /\ p[c] \in Entries
    BY <1>4, <1>7
  <2>2. n \in Entries /\ ~Before(e, n)
    BY <1>3
  <2> QED BY <1>1, <2>1, <2>2, Ordered
<1>8. CoversForward(FindSmallest(p)) /\ \A n \in Seen : Coming(FindSmallest(p), n) <=> n \in W
  BY <1>3, <1>4, <1>6, <1>7, SmallestCovers
<1> QED BY <1>2, <1>3, <1>6, <1>8, SmallestIs DEF e

(* Prev: what is before it is still to come. *)
LEMMA MergerPrevIs ==
  ASSUME DataOK, NEW m, MergerOK(m), Current(m) # 0, AtLargest(m), CoversBack(m)
  PROVE  /\ MergerOK(MergerPrev(m)) /\ AtLargest(MergerPrev(m)) /\ CoversBack(MergerPrev(m))
         /\ \A n \in Seen : Going(MergerPrev(m), n) <=> Before(n, Current(m))
         /\ Current(MergerPrev(m)) # 0 => Before(Current(MergerPrev(m)), Current(m))
<1> DEFINE e == Current(m)
           p == [c \in Child |-> IF c = m.current THEN Ahead(c, e) ELSE m.pos[c]]
           W == {n \in Seen : Before(n, e)}
<1>1. e \in Entries /\ m.current \in Child /\ e \in children[m.current]
  BY CurrentIn
<1>2. MergerPrev(m) = FindLargest(p)
  BY DEF MergerPrev
<1>3. W \in SUBSET Seen /\ (\A n \in Seen : n \in W <=> Before(n, e)) /\ Seen \subseteq Entries
  BY DEF Seen
<1> HIDE DEF W, e
<1>4. ASSUME NEW c \in Child
      PROVE  /\ p[c] \in children[c] \union {0} /\ p[c] \in Entries \union {0}
             /\ p[c] # 0 => Before(p[c], e)
             /\ \A n \in W \intersect children[c] : p[c] # 0 /\ (n = p[c] \/ Before(n, p[c]))
  <2>1. CASE c = m.current
    <3>1. p[c] = Ahead(c, e)
      BY <2>1
    <3> HIDE DEF p
    <3>2. \A n \in W \intersect children[c] : Before(n, e)
      BY <1>3
    <3> QED BY <1>1, <3>1, <3>2, AheadIs, ChildIn
  <2>2. CASE c # m.current
    <3>1. p[c] = m.pos[c]
      BY <2>2
    <3> HIDE DEF p
    <3>2. p[c] \in children[c] \union {0} /\ p[c] \in Entries \union {0}
      BY <3>1, ChildIn DEF MergerOK, PosOK
    <3>3. p[c] # 0 => p[c] = e \/ Before(p[c], e)
      BY <3>1 DEF AtLargest, e
    <3>4. p[c] # e
      BY <1>1, <2>2, <3>2, EntryFacts DEF DataOK
    <3>5. ASSUME NEW n \in W \intersect children[c] PROVE p[c] # 0 /\ (n = p[c] \/ Before(n, p[c]))
      <4>1. Going(m, n) /\ n \in Seen \intersect children[c]
        BY <1>3 DEF Going, e
      <4> QED BY <3>1, <4>1 DEF CoversBack
    <3> QED BY <3>2, <3>3, <3>4, <3>5
  <2> QED BY <2>1, <2>2
<1>5. p \in [Child -> Entries \union {0}]
  BY <1>4
<1> HIDE DEF p
<1>6. PosOK(p)
  BY <1>4, <1>5 DEF PosOK
<1>7. ASSUME NEW c \in Child, p[c] # 0, NEW n \in Seen \ W PROVE Before(p[c], n)
  <2>1. Before(p[c], e) /\ p[c] \in Entries
    BY <1>4, <1>7
  <2>2. n \in Entries /\ ~Before(n, e)
    BY <1>3
  <2> QED BY <1>1, <2>1, <2>2, Ordered
<1>8. CoversBack(FindLargest(p)) /\ \A n \in Seen : Going(FindLargest(p), n) <=> n \in W
  BY <1>3, <1>4, <1>6, <1>7, LargestCovers
<1>9. Current(FindLargest(p)) # 0 => Before(Current(FindLargest(p)), e)
  BY <1>4, <1>6, LargestIs
<1> QED BY <1>2, <1>3, <1>6, <1>8, <1>9, LargestIs DEF e

-------------------------------------------------------------------------------
(* Turning round. *)

(* In the middle of it every child is behind the visible entries of        *)
(* smaller keys, or found nothing behind the current one.                  *)
Halfway(m, k) ==
  \A c \in Child : \A n \in Seen \intersect children[c] :
    KeyOf(n) < k /\ m.pos[c] # 0 => Before(n, m.pos[c])

(* After it these are still to come, whatever was inserted behind them. *)
CoversTurn(m, k) ==
  \A c \in Child : \A n \in Seen \intersect children[c] :
    KeyOf(n) < k => m.pos[c] # 0 /\ (n = m.pos[c] \/ Before(n, m.pos[c]))

(* The first half of a turn, in which the others are sought. *)
LEMMA OthersSoughtIs ==
  ASSUME DataOK, NEW m, MergerOK(m), Current(m) # 0
  PROVE  /\ MergerOK(OthersSought(m)) /\ OthersSought(m).forward = m.forward
         /\ Halfway(OthersSought(m), KeyOf(Current(m)))
<1> DEFINE e == Current(m)
           p == [c \in Child |-> IF c = m.current THEN m.pos[c] ELSE After(c, e)]
           s == OthersSought(m)
<1>1. /\ e \in Entries /\ m.current \in Child /\ m.pos[m.current] = e
      /\ m \in [pos : [Child -> Entries \union {0}], current : Child \union {0}, forward : BOOLEAN]
  BY CurrentIn DEF MergerOK
<1>2. s = [m EXCEPT !.pos = p]
  BY DEF OthersSought
<1>3. s.pos = p /\ s.current = m.current /\ s.forward = m.forward
      /\ s = [pos |-> p, current |-> m.current, forward |-> m.forward]
  BY <1>1, <1>2
<1> HIDE DEF s
<1>4. ASSUME NEW c \in Child
      PROVE  /\ p[c] \in children[c] \union {0} /\ p[c] \in Entries \union {0}
             /\ p[c] # 0 => p[c] = e \/ Before(e, p[c])
  <2>1. CASE c = m.current
    BY <1>1, <2>1, ChildIn DEF MergerOK, PosOK
  <2>2. CASE c # m.current
    <3>1. p[c] = After(c, e)
      BY <2>2
    <3> HIDE DEF p, e
    <3> QED BY <1>1, <3>1, AfterIs, ChildIn
  <2> QED BY <2>1, <2>2
<1>5. p \in [Child -> Entries \union {0}] /\ p[m.current] = e
  BY <1>1, <1>4
<1> HIDE DEF p, e
<1>6. PosOK(p)
  BY <1>4, <1>5 DEF PosOK
<1>7. MergerOK(s)
  BY <1>1, <1>3, <1>5, <1>6 DEF MergerOK, e
<1>8. ASSUME NEW c \in Child, NEW n \in Seen \intersect children[c], KeyOf(n) < KeyOf(e), p[c] # 0
      PROVE  Before(n, p[c])
  <2>1. n \in Entries /\ p[c] \in Entries
    BY <1>4, <1>8 DEF Seen
  <2>2. Before(n, e)
    BY <1>1, <1>8, <2>1, OrderOfKeys
  <2> QED BY <1>1, <1>4, <1>8, <2>1, <2>2, Ordered
<1>9. Halfway(s, KeyOf(e))
  BY <1>3, <1>8 DEF Halfway
<1> QED BY <1>3, <1>7, <1>9 DEF s, e

(* The second half: nothing visible of a smaller key is left behind,       *)
(* although an insertion in between may leave a child past the key.        *)
LEMMA TurnedIs ==
  ASSUME DataOK, NEW m, MergerOK(m), NEW k, Halfway(m, k)
  PROVE  MergerOK(Turned(m)) /\ AtLargest(Turned(m)) /\ CoversTurn(Turned(m), k)
<1> DEFINE p == [c \in Child |-> IF m.pos[c] = 0 THEN LastOf(children[c]) ELSE Ahead(c, m.pos[c])]
<1>1. Turned(m) = FindLargest(p)
  BY DEF Turned
<1>2. ASSUME NEW c \in Child
      PROVE  /\ p[c] \in children[c] \union {0} /\ p[c] \in Entries \union {0}
             /\ \A n \in Seen \intersect children[c] :
                  KeyOf(n) < k => p[c] # 0 /\ (n = p[c] \/ Before(n, p[c]))
  <2>1. CASE m.pos[c] = 0
    <3>1. p[c] = LastOf(children[c])
      BY <2>1
    <3> HIDE DEF p
    <3> QED BY <3>1, ChildIn, LastIs
  <2>2. CASE m.pos[c] # 0
    <3>1. p[c] = Ahead(c, m.pos[c])
      BY <2>2
    <3> HIDE DEF p
    <3>2. m.pos[c] \in Entries
      BY <2>2 DEF MergerOK, PosOK
    <3>3. \A n \in Seen \intersect children[c] : KeyOf(n) < k => Before(n, m.pos[c])
      BY <2>2 DEF Halfway
    <3> QED BY <3>1, <3>2, <3>3, AheadIs, ChildIn
  <2> QED BY <2>1, <2>2
<1>3. p \in [Child -> Entries \union {0}]
  BY <1>2
<1> HIDE DEF p
<1>4. PosOK(p)
  BY <1>2, <1>3 DEF PosOK
<1>5. CoversTurn(FindLargest(p), k)
  BY <1>2, <1>4, LargestIs DEF CoversTurn
<1> QED BY <1>1, <1>4, <1>5, LargestIs

(* A step back over the entries of the key, or past an entry that came.    *)
LEMMA TurnPrevIs ==
  ASSUME DataOK, NEW m, MergerOK(m), NEW k \in UserKey, Current(m) # 0, KeyOf(Current(m)) >= k, CoversTurn(m, k)
  PROVE  MergerOK(MergerPrev(m)) /\ AtLargest(MergerPrev(m)) /\ CoversTurn(MergerPrev(m), k)
<1> DEFINE e == Current(m)
           p == [c \in Child |-> IF c = m.current THEN Ahead(c, e) ELSE m.pos[c]]
<1>0. k \in Nat
  BY IteratorAssumption
<1>1. e \in Entries
  BY CurrentIn
<1>2. MergerPrev(m) = FindLargest(p)
  BY DEF MergerPrev
<1>3. ASSUME NEW c \in Child
      PROVE  /\ p[c] \in children[c] \union {0} /\ p[c] \in Entries \union {0}
             /\ \A n \in Seen \intersect children[c] :
                  KeyOf(n) < k => p[c] # 0 /\ (n = p[c] \/ Before(n, p[c]))
  <2>1. CASE c = m.current
    <3>1. p[c] = Ahead(c, e)
      BY <2>1
    <3> HIDE DEF p
    <3>2. ASSUME NEW n \in Seen \intersect children[c], KeyOf(n) < k PROVE Before(n, e)
      <4>1. n \in Entries
        BY DEF Seen
      <4>2. KeyOf(n) \in Nat /\ KeyOf(e) \in Nat
        BY <1>1, <4>1, EntryFacts
      <4>3. KeyOf(n) < KeyOf(e)
        BY <1>0, <3>2, <4>2
      <4> QED BY <1>1, <4>1, <4>3, OrderOfKeys
    <3> HIDE DEF e
    <3> QED BY <1>1, <3>1, <3>2, AheadIs, ChildIn
  <2>2. CASE c # m.current
    BY <2>2, ChildIn DEF CoversTurn, MergerOK, PosOK
  <2> QED BY <2>1, <2>2
<1>4. p \in [Child -> Entries \union {0}]
  BY <1>3
<1> HIDE DEF p
<1>5. PosOK(p)
  BY <1>3, <1>4 DEF PosOK
<1>6. CoversTurn(FindLargest(p), k)
  BY <1>3, <1>5, LargestIs DEF CoversTurn
<1> QED BY <1>2, <1>5, <1>6, LargestIs

(* Where the key changes, what is to come are the smaller keys. *)
LEMMA TurnEnds ==
  ASSUME DataOK, NEW m, MergerOK(m), AtLargest(m), NEW k \in UserKey, CoversTurn(m, k)
  PROVE  /\ Current(m) = 0 => \A n \in Seen : KeyOf(n) >= k
         /\ Current(m) # 0 /\ KeyOf(Current(m)) < k =>
              CoversBack(m) /\ \A n \in Seen : Going(m, n) <=> KeyOf(n) < k
<1> DEFINE e == Current(m)
<1>1. k \in Nat /\ Seen \subseteq Entries /\ \A n \in Entries : KeyOf(n) \in Nat
  BY EntryFacts, IteratorAssumption DEF Seen
<1>2. ASSUME NEW n \in Seen, KeyOf(n) < k PROVE Going(m, n)
  <2>1. PICK c \in Child : n \in children[c]
    BY <1>1 DEF DataOK
  <2>2. m.pos[c] # 0 /\ (n = m.pos[c] \/ Before(n, m.pos[c])) /\ m.pos[c] \in Entries
    BY <1>2, <2>1 DEF CoversTurn, MergerOK, PosOK
  <2>3. e # 0 /\ (m.pos[c] = e \/ Before(m.pos[c], e)) /\ e \in Entries
    BY <2>2, CurrentIn DEF AtLargest
  <2>4. n = e \/ Before(n, e)
    BY <1>1, <2>2, <2>3, Ordered
  <2> QED BY <2>3, <2>4 DEF Going
<1>3. ASSUME e = 0, NEW n \in Seen PROVE KeyOf(n) >= k
  BY <1>1, <1>2, <1>3 DEF Going
<1>4. ASSUME e # 0, KeyOf(e) < k
      PROVE  CoversBack(m) /\ \A n \in Seen : Going(m, n) <=> KeyOf(n) < k
  <2>1. e \in Entries
    BY <1>4, CurrentIn
  <2>2. ASSUME NEW n \in Seen, Going(m, n) PROVE KeyOf(n) < k
    <3>1. n = e \/ KeyOf(n) <= KeyOf(e)
      BY <1>1, <2>1, <2>2, OrderOfKeys DEF Going
    <3> QED BY <1>1, <1>4, <2>1, <3>1
  <2>3. CoversBack(m)
    BY <2>2 DEF CoversBack, CoversTurn
  <2> QED BY <1>2, <2>2, <2>3
<1> QED BY <1>3, <1>4

-------------------------------------------------------------------------------
(* The iterator: what holds in each of its loops, and between the calls. *)

Fields == [valid : BOOLEAN, forward : BOOLEAN, key : UserKey \union {0}, value : Entries \union {0}]

(* Going forward: the caller will be at the first present key behind the   *)
(* saved one whose last write is still to come; so is that of every key    *)
(* behind the saved one of which anything is to come.                      *)
NextRight(m, i, a) ==
  /\ AtSmallest(m) /\ CoversForward(m) /\ i.forward
  /\ \A n \in Seen : Coming(m, n) =>
       KeyOf(n) >= i.key /\ (KeyOf(n) > i.key => Coming(m, LastWrite(KeyOf(n))))
  /\ a = Lowest({k \in Present : k > i.key /\ Coming(m, LastWrite(k))})

(* Going back: at the last present key whose last write is still to come,  *)
(* or is what was saved, and that is in front of the visible entries.      *)
PrevRight(m, i, a) ==
  /\ AtLargest(m) /\ CoversBack(m) /\ ~i.forward
  /\ a = Highest({k \in Present : Going(m, LastWrite(k)) \/ LastWrite(k) = i.value})
  /\ i.value # 0 =>
       /\ i.value \in Seen /\ ~written[i.value].delete /\ i.key = KeyOf(i.value)
       /\ Current(m) # 0 => Before(Current(m), i.value)
       /\ \A n \in Seen : Before(n, i.value) => Going(m, n)

TurnRight(m, i, a) ==
  /\ i.key \in UserKey
  /\ a = Highest({k \in Present : k < i.key})
  /\ IF m.forward THEN Halfway(m, i.key) ELSE AtLargest(m) /\ CoversTurn(m, i.key)

RestRight(m, i, a) ==
  /\ i.valid <=> a # 0
  /\ i.valid =>
       /\ a \in Present
       /\ IF i.forward
          THEN AtSmallest(m) /\ CoversForward(m) /\ Current(m) = LastWrite(a)
          ELSE /\ AtLargest(m) /\ CoversBack(m) /\ i.key = a /\ i.value = LastWrite(a)
               /\ Current(m) # 0 => Current(m) \in Seen /\ KeyOf(Current(m)) < a
               /\ \A n \in Seen : Before(n, i.value) => Going(m, n)

Right(c, m, i, a) ==
  /\ c = "none" => RestRight(m, i, a)
  /\ c = "next" => NextRight(m, i, a)
  /\ c = "turn" => TurnRight(m, i, a)
  /\ c = "prev" => PrevRight(m, i, a)

CursorInv ==
  /\ DataOK /\ MergerOK(merger) /\ iter \in Fields
  /\ call \in {"none", "next", "turn", "prev"} /\ at \in UserKey \union {0}
  /\ Right(call, merger, iter, at)

(* The keys a walk would show. *)
LEMMA PresentIs ==
  ASSUME DataOK
  PROVE  /\ Present \in SUBSET UserKey
         /\ \A k \in Present : /\ k \in Nat /\ k > 0 /\ LastWrite(k) # 0 /\ LastWrite(k) \in Seen
                               /\ KeyOf(LastWrite(k)) = k /\ ~written[LastWrite(k)].delete
         /\ Seen \subseteq Entries
<1>1. ASSUME NEW k \in Present
      PROVE  /\ k \in Nat /\ k > 0 /\ LastWrite(k) # 0 /\ LastWrite(k) \in Seen
             /\ KeyOf(LastWrite(k)) = k /\ ~written[LastWrite(k)].delete
  <2>1. LastWrite(k) # 0 /\ ~written[LastWrite(k)].delete /\ k \in UserKey
    BY DEF Present
  <2> QED BY <2>1, LastWriteIs, IteratorAssumption
<1> QED BY <1>1 DEF Present, Seen

(* One pass forward: what is skipped is not to be seen. *)
LEMMA NextSkips ==
  ASSUME DataOK, NEW m, MergerOK(m), NEW i \in Fields, NEW a, NextRight(m, i, a), NEW e, e = Current(m), e # 0,
         ~(Visible(e) /\ ~written[e].delete /\ KeyOf(e) > i.key),
         NEW j, j = [i EXCEPT !.key = IF Visible(e) /\ written[e].delete THEN KeyOf(e) ELSE @]
  PROVE  MergerOK(MergerNext(m)) /\ NextRight(MergerNext(m), j, a) /\ j \in Fields
<1> DEFINE s == MergerNext(m)
<1>1. /\ MergerOK(s) /\ AtSmallest(s) /\ CoversForward(s)
      /\ \A n \in Seen : Coming(s, n) <=> Before(e, n)
  BY MergerNextIs DEF NextRight
<1> HIDE DEF s
<1>2. /\ e \in Entries /\ Seen \subseteq Entries /\ KeyOf(e) \in UserKey
      /\ \A n \in Entries : KeyOf(n) \in Nat
      /\ i.key \in Nat /\ i.key \in UserKey \union {0} /\ i.forward = TRUE
      /\ (e \in Seen <=> Visible(e))
  BY CurrentIn, EntryFacts, IteratorAssumption DEF Fields, NextRight, Seen
<1>3. j.key = (IF Visible(e) /\ written[e].delete THEN KeyOf(e) ELSE i.key) /\ j.forward /\ j \in Fields
  BY <1>2 DEF Fields
<1>4. /\ \A n \in Seen : Coming(m, n) => KeyOf(n) >= i.key /\ (KeyOf(n) > i.key => Coming(m, LastWrite(KeyOf(n))))
      /\ a = Lowest({k \in Present : k > i.key /\ Coming(m, LastWrite(k))})
      /\ \A n \in Entries : Coming(m, n) <=> n = e \/ Before(e, n)
  BY <1>2 DEF NextRight, Coming
<1>5. j.key \in Nat /\ j.key >= i.key
  BY <1>2, <1>3, <1>4
<1>6. ASSUME NEW n \in Seen, Before(e, n) PROVE KeyOf(n) >= j.key
  <2>1. KeyOf(n) >= i.key /\ KeyOf(n) \in Nat /\ KeyOf(e) \in Nat /\ KeyOf(e) <= KeyOf(n)
    BY <1>2, <1>4, <1>6, OrderOfKeys
  <2> QED BY <1>2, <1>3, <2>1
<1>7. ASSUME e \in Seen, written[e].delete, NEW n \in Seen, KeyOf(n) > KeyOf(e) PROVE Before(e, n)
  BY <1>2, <1>7, OrderOfKeys
<1>8. ASSUME NEW n \in Seen, KeyOf(n) > j.key, LastWrite(KeyOf(n)) = e PROVE FALSE
  <2>1. e \in Seen /\ KeyOf(e) = KeyOf(n)
    BY <1>8, LastWriteIs
  <2>2. Visible(e) /\ KeyOf(e) \in Nat
    BY <1>2, <2>1
  <2>3. CASE written[e].delete
    BY <1>3, <1>8, <2>1, <2>2, <2>3
  <2>4. CASE ~written[e].delete
    <3>1. j.key = i.key
      BY <1>3, <2>4
    <3> QED BY <1>8, <2>1, <2>2, <2>4, <3>1
  <2> QED BY <2>3, <2>4
<1>9. ASSUME NEW n \in Seen, Before(e, n), KeyOf(n) > j.key PROVE Before(e, LastWrite(KeyOf(n)))
  <2>1. KeyOf(n) > i.key /\ Coming(m, n)
    BY <1>2, <1>3, <1>4, <1>5, <1>9
  <2>2. Coming(m, LastWrite(KeyOf(n))) /\ LastWrite(KeyOf(n)) \in Entries
    BY <1>2, <1>4, <2>1, LastWriteIs
  <2> QED BY <1>4, <1>8, <1>9, <2>2
<1>10. ASSUME NEW k \in Present
       PROVE  k > i.key /\ Coming(m, LastWrite(k)) <=> k > j.key /\ Coming(s, LastWrite(k))
  <2> DEFINE w == LastWrite(k)
  <2>1. /\ k \in Nat /\ w \in Seen /\ w \in Entries /\ KeyOf(w) = k /\ ~written[w].delete
    BY <1>2, PresentIs
  <2>2. \A n \in Seen : KeyOf(n) = k => n = w \/ Before(w, n)
    BY LastWriteIs
  <2> HIDE DEF w
  <2>3. ASSUME k > i.key, Coming(m, w) PROVE k > j.key /\ Coming(s, w)
    <3>1. w # e
      BY <1>2, <2>1, <2>3
    <3>2. Before(e, w)
      BY <1>4, <2>1, <2>3, <3>1
    <3>3. k >= j.key
      BY <1>6, <2>1, <3>2
    <3>4. CASE k = j.key
      <4>1. Visible(e) /\ KeyOf(e) = k
        BY <1>2, <1>3, <2>1, <2>3, <3>4
      <4>2. Before(w, e)
        BY <1>2, <2>2, <3>1, <4>1
      <4> QED BY <1>2, <2>1, <3>2, <4>2, Ordered
    <3> QED BY <1>1, <1>2, <1>3, <2>1, <3>2, <3>3, <3>4
  <2>4. ASSUME k > j.key, Coming(s, w) PROVE k > i.key /\ Coming(m, w)
    <3>1. Before(e, w)
      BY <1>1, <2>1, <2>4
    <3>2. k > i.key
      BY <1>2, <1>3, <1>5, <2>1, <2>4
    <3> QED BY <1>4, <2>1, <3>1, <3>2
  <2> QED BY <2>3, <2>4 DEF w
<1>11. {k \in Present : k > i.key /\ Coming(m, LastWrite(k))} = {k \in Present : k > j.key /\ Coming(s, LastWrite(k))}
  BY <1>10
<1>12. a = Lowest({k \in Present : k > j.key /\ Coming(s, LastWrite(k))})
  BY <1>4, <1>11
<1>13. ASSUME NEW n \in Seen, Coming(s, n), KeyOf(n) > j.key PROVE Coming(s, LastWrite(KeyOf(n)))
  <2>1. LastWrite(KeyOf(n)) \in Seen
    BY LastWriteIs
  <2> QED BY <1>1, <1>9, <1>13, <2>1
<1>14. NextRight(s, j, a)
  BY <1>1, <1>3, <1>6, <1>12, <1>13 DEF NextRight
<1> QED BY <1>1, <1>3, <1>14 DEF s

(* What it stops at is the last write of the first key to be shown. *)
LEMMA NextShows ==
  ASSUME DataOK, NEW m, MergerOK(m), NEW i \in Fields, NEW a, NextRight(m, i, a), NEW e, e = Current(m), e # 0,
         Visible(e), ~written[e].delete, KeyOf(e) > i.key,
         NEW j, j = [i EXCEPT !.valid = TRUE, !.key = 0]
  PROVE  RestRight(m, j, a) /\ j \in Fields
<1> DEFINE k == KeyOf(e)
           S == {x \in Present : x > i.key /\ Coming(m, LastWrite(x))}
<1>1. /\ e \in Seen /\ e \in Entries /\ k \in UserKey /\ k \in Nat /\ k # 0
  BY CurrentIn, EntryFacts DEF Seen
<1>2. j \in Fields /\ j.valid = TRUE /\ j.forward
  BY DEF Fields, NextRight
<1>3. e = LastWrite(k)
  <2>1. Coming(m, e)
    BY DEF Coming
  <2>2. Coming(m, LastWrite(k))
    BY <1>1, <2>1 DEF NextRight
  <2>3. e = LastWrite(k) \/ Before(LastWrite(k), e)
    BY <1>1, LastWriteIs
  <2>4. LastWrite(k) \in Entries
    BY <1>1, LastWriteIs DEF Seen
  <2> QED BY <1>1, <2>2, <2>3, <2>4, Ordered DEF Coming
<1>4. k \in S
  BY <1>1, <1>3 DEF Present, Coming
<1>5. ASSUME NEW x \in S PROVE x >= k /\ x \in Nat
  <2>1. x \in Nat /\ LastWrite(x) \in Entries /\ KeyOf(LastWrite(x)) = x
    BY PresentIs
  <2>2. LastWrite(x) = e \/ Before(e, LastWrite(x))
    BY DEF Coming
  <2>3. k <= x
    BY <1>1, <2>1, <2>2, OrderOfKeys
  <2> QED BY <1>1, <2>1, <2>3
<1>6. a = Lowest(S) /\ S \in SUBSET UserKey /\ k \in Present
  BY <1>4 DEF NextRight, Present
<1> HIDE DEF S, k
<1>7. a = k
  <2>1. Lowest(S) \in S /\ Lowest(S) <= k
    BY <1>4, <1>6, LowestIs
  <2>2. Lowest(S) >= k /\ Lowest(S) \in Nat
    BY <1>5, <2>1
  <2> QED BY <1>1, <1>6, <2>1, <2>2
<1> QED BY <1>1, <1>2, <1>3, <1>6, <1>7 DEF RestRight, NextRight

(* At the end of all there is none left. *)
LEMMA NextEnds ==
  ASSUME DataOK, NEW m, NEW i, NEW a, NextRight(m, i, a), Current(m) = 0
  PROVE  a = 0
<1> DEFINE S == {x \in Present : x > i.key /\ Coming(m, LastWrite(x))}
<1>1. S = {} /\ a = Lowest(S)
  BY DEF Coming, NextRight
<1> HIDE DEF S
<1> QED BY <1>1, LowestIs

(* One pass back: the newest visible entry of a key is the last to come. *)
LEMMA PrevMoves ==
  ASSUME DataOK, NEW m, MergerOK(m), NEW i \in Fields, NEW a, PrevRight(m, i, a), NEW e, e = Current(m), e # 0,
         ~(Visible(e) /\ i.value # 0 /\ KeyOf(e) < i.key),
         NEW j, j = IF ~Visible(e) THEN i
                    ELSE IF written[e].delete THEN [i EXCEPT !.key = 0, !.value = 0]
                    ELSE [i EXCEPT !.key = KeyOf(e), !.value = e]
  PROVE  MergerOK(MergerPrev(m)) /\ PrevRight(MergerPrev(m), j, a) /\ j \in Fields
<1> DEFINE s == MergerPrev(m)
<1>1. /\ MergerOK(s) /\ AtLargest(s) /\ CoversBack(s)
      /\ \A n \in Seen : Going(s, n) <=> Before(n, e)
      /\ Current(s) # 0 => Before(Current(s), e)
      /\ Current(s) \in Entries \union {0}
  BY MergerPrevIs, CurrentIn DEF PrevRight
<1> HIDE DEF s
<1>2. /\ e \in Entries /\ Seen \subseteq Entries /\ 0 \notin Entries /\ KeyOf(e) \in UserKey
      /\ \A n \in Entries : KeyOf(n) \in Nat
      /\ i.forward = FALSE /\ (e \in Seen <=> Visible(e))
  BY CurrentIn, EntryFacts DEF Fields, PrevRight, Seen
<1>3. \A n \in Seen : Going(m, n) <=> n = e \/ Before(n, e)
  BY DEF Going
<1>4. i.value # 0 => /\ i.value \in Seen /\ i.key = KeyOf(i.value) /\ Before(e, i.value)
                     /\ \A n \in Seen : Before(n, i.value) => Going(m, n)
  BY DEF PrevRight
<1>5. /\ j \in Fields /\ ~j.forward
      /\ ~Visible(e) => j = i
      /\ Visible(e) /\ written[e].delete => j.value = 0
      /\ Visible(e) /\ ~written[e].delete => j.value = e /\ j.key = KeyOf(e)
  BY <1>2 DEF Fields
<1>6. ASSUME NEW k \in Present, Visible(e) PROVE LastWrite(k) # i.value
  <2> SUFFICES ASSUME LastWrite(k) = i.value PROVE FALSE
    OBVIOUS
  <2>1. i.value # 0 /\ i.value \in Entries /\ KeyOf(i.value) = k
    BY PresentIs, <1>2
  <2>2. KeyOf(e) <= KeyOf(i.value) /\ ~(KeyOf(e) < KeyOf(i.value))
    BY <1>2, <1>4, <1>6, <2>1, OrderOfKeys
  <2>3. KeyOf(e) = k
    BY <1>2, <2>1, <2>2
  <2>4. e = i.value \/ Before(i.value, e)
    BY <1>2, <1>6, <2>3, LastWriteIs
  <2> QED BY <1>2, <1>4, <2>1, <2>4, Ordered
<1>7. ASSUME NEW k \in Present
      PROVE  Going(m, LastWrite(k)) \/ LastWrite(k) = i.value <=> Going(s, LastWrite(k)) \/ LastWrite(k) = j.value
  <2>1. LastWrite(k) \in Seen /\ LastWrite(k) # 0 /\ ~written[LastWrite(k)].delete
    BY PresentIs
  <2>2. CASE ~Visible(e)
    BY <1>1, <1>2, <1>3, <1>5, <2>1, <2>2
  <2>3. CASE Visible(e) /\ written[e].delete
    BY <1>1, <1>3, <1>5, <1>6, <2>1, <2>3
  <2>4. CASE Visible(e) /\ ~written[e].delete
    BY <1>1, <1>3, <1>5, <1>6, <2>1, <2>4
  <2> QED BY <2>2, <2>3, <2>4
<1>8. a = Highest({k \in Present : Going(s, LastWrite(k)) \/ LastWrite(k) = j.value})
  <2>1. {k \in Present : Going(m, LastWrite(k)) \/ LastWrite(k) = i.value}
          = {k \in Present : Going(s, LastWrite(k)) \/ LastWrite(k) = j.value}
    BY <1>7
  <2> QED BY <2>1 DEF PrevRight
<1>9. ASSUME j.value # 0
      PROVE  /\ j.value \in Seen /\ ~written[j.value].delete /\ j.key = KeyOf(j.value)
             /\ Current(s) # 0 => Before(Current(s), j.value)
             /\ \A n \in Seen : Before(n, j.value) => Going(s, n)
  <2>1. CASE ~Visible(e)
    <3>1. j = i /\ i.value # 0
      BY <1>5, <1>9, <2>1
    <3>2. i.value \in Entries
      BY <1>2, <1>4, <3>1
    <3>3. Current(s) # 0 => Before(Current(s), i.value)
      BY <1>1, <1>2, <1>4, <3>1, <3>2, Ordered
    <3>4. \A n \in Seen : Before(n, i.value) => Going(s, n)
      BY <1>1, <1>2, <1>3, <1>4, <2>1, <3>1
    <3> QED BY <3>1, <3>3, <3>4 DEF PrevRight
  <2>2. CASE Visible(e)
    BY <1>1, <1>2, <1>5, <1>9, <2>2
  <2> QED BY <2>1, <2>2
<1>10. PrevRight(s, j, a)
  BY <1>1, <1>5, <1>8, <1>9 DEF PrevRight
<1> QED BY <1>1, <1>5, <1>10 DEF s

(* What is saved when it stops is the last write of the last key. *)
LEMMA PrevShows ==
  ASSUME DataOK, NEW m, MergerOK(m), NEW i \in Fields, NEW a, PrevRight(m, i, a), i.value # 0,
         NEW e, e = Current(m), e = 0 \/ (Visible(e) /\ KeyOf(e) < i.key),
         NEW j, j = [i EXCEPT !.valid = TRUE]
  PROVE  RestRight(m, j, a) /\ j \in Fields
<1> DEFINE v == i.value
           k == i.key
           S == {x \in Present : Going(m, LastWrite(x)) \/ LastWrite(x) = v}
<1>1. /\ v \in Seen /\ v \in Entries /\ ~written[v].delete /\ k = KeyOf(v) /\ k \in UserKey /\ k \in Nat /\ k # 0
      /\ \A n \in Seen : Before(n, v) => Going(m, n)
      /\ e \in Entries \union {0} /\ (e # 0 => e \in Seen)
  BY CurrentIn, EntryFacts DEF Seen, PrevRight
<1>2. j \in Fields /\ j.valid = TRUE /\ ~j.forward /\ j.key = k /\ j.value = v
  BY DEF Fields, PrevRight
<1>3. ASSUME NEW n \in Seen, Going(m, n) PROVE KeyOf(n) < k
  <2>1. e # 0 /\ (n = e \/ Before(n, e)) /\ n \in Entries /\ e \in Entries
    BY <1>1, <1>3 DEF Going, Seen
  <2>2. KeyOf(n) <= KeyOf(e) /\ KeyOf(n) \in Nat /\ KeyOf(e) \in Nat
    BY <2>1, OrderOfKeys, EntryFacts
  <2> QED BY <1>1, <2>1, <2>2
<1>4. v = LastWrite(k)
  <2>1. LastWrite(k) \in Seen /\ KeyOf(LastWrite(k)) = k /\ (v = LastWrite(k) \/ Before(LastWrite(k), v))
    BY <1>1, LastWriteIs
  <2> QED BY <1>1, <1>3, <2>1
<1>5. k \in S
  BY <1>1, <1>4 DEF Present
<1>6. ASSUME NEW x \in S PROVE k >= x /\ x \in Nat
  <2>1. x \in Nat /\ LastWrite(x) \in Seen /\ KeyOf(LastWrite(x)) = x
    BY PresentIs
  <2>2. CASE LastWrite(x) = v
    BY <1>1, <2>1, <2>2
  <2>3. CASE Going(m, LastWrite(x))
    BY <1>1, <1>3, <2>1, <2>3
  <2> QED BY <2>2, <2>3
<1>7. a = Highest(S) /\ S \in SUBSET UserKey /\ k \in Present
  BY <1>5 DEF PrevRight, Present
<1> HIDE DEF S, k, v
<1>8. a = k
  <2>1. Highest(S) \in S /\ Highest(S) >= k
    BY <1>5, <1>7, HighestIs
  <2>2. k >= Highest(S) /\ Highest(S) \in Nat
    BY <1>6, <2>1
  <2> QED BY <1>1, <1>7, <2>1, <2>2
<1>9. Current(m) # 0 => Current(m) \in Seen /\ KeyOf(Current(m)) < a
  BY <1>1, <1>8 DEF k
<1>10. AtLargest(m) /\ CoversBack(m)
  BY DEF PrevRight
<1> QED BY <1>1, <1>2, <1>4, <1>7, <1>8, <1>9, <1>10 DEF RestRight

(* At the front with nothing saved there is no key left. *)
LEMMA PrevEnds ==
  ASSUME DataOK, NEW m, NEW i, NEW a, PrevRight(m, i, a), Current(m) = 0, i.value = 0
  PROVE  a = 0
<1> DEFINE S == {x \in Present : Going(m, LastWrite(x)) \/ LastWrite(x) = i.value}
<1>1. S = {}
  BY PresentIs DEF Going
<1>2. a = Highest(S)
  BY DEF PrevRight
<1> HIDE DEF S
<1> QED BY <1>1, <1>2, HighestIs

(* The iterator's own steps change nothing that was written. *)
LEMMA DataStays ==
  ASSUME UNCHANGED <<written, children, sequence>>
  PROVE  /\ Entries' = Entries /\ Seen' = Seen /\ (DataOK' <=> DataOK) /\ Fields' = Fields
         /\ Present' = Present
         /\ \A k : LastWrite(k)' = LastWrite(k)
         /\ \A n : KeyOf(n)' = KeyOf(n)
         /\ \A x, y : Before(x, y)' <=> Before(x, y)
<1>1. Entries' = Entries /\ Seen' = Seen /\ Fields' = Fields /\ (DataOK' <=> DataOK)
  BY DEF Entries, Seen, Visible, Fields, DataOK
<1>2. \A n : KeyOf(n)' = KeyOf(n)
  BY DEF KeyOf
<1>3. \A k : LastWrite(k)' = LastWrite(k)
  BY DEF LastWrite, KeyOf, Visible
<1>4. Present' = Present
  BY DEF Present, LastWrite, KeyOf, Visible
<1>5. \A x, y : Before(x, y)' <=> Before(x, y)
  BY DEF Before, KeyOf
<1> QED BY <1>1, <1>2, <1>3, <1>4, <1>5

(* It is enough to show that the loop it goes to is right. *)
LEMMA RightStays ==
  ASSUME UNCHANGED <<written, children, sequence>>, DataOK, MergerOK(merger'), iter' \in Fields,
         call' \in {"none", "next", "turn", "prev"}, at' \in UserKey \union {0},
         Right(call', merger', iter', at')
  PROVE  CursorInv'
<1>1. DataOK' /\ iter' \in Fields'
  BY DataStays
<1>2. MergerOK(merger)'
  BY DataStays DEF MergerOK, PosOK
<1>3. Right(call, merger, iter, at)'
  BY DataStays DEF Right, NextRight, PrevRight, TurnRight, RestRight, AtSmallest, AtLargest, Coming, Going,
     CoversForward, CoversBack, Halfway, CoversTurn
<1> QED BY <1>1, <1>2, <1>3 DEF CursorInv

-------------------------------------------------------------------------------
(* One lemma per step of the iterator. *)

(* A call that goes forward ends at the first key behind the one to skip, *)
(* if all that is behind that is still to come.                           *)
LEMMA AllForward ==
  ASSUME DataOK, NEW m, MergerOK(m), AtSmallest(m), CoversForward(m), NEW k \in UserKey \union {0},
         \A n \in Seen : Coming(m, n) => KeyOf(n) >= k,
         \A n \in Seen : KeyOf(n) > k => Coming(m, n),
         NEW i, i.forward, i.key = k
  PROVE  NextRight(m, i, Lowest({x \in Present : x > k}))
<1>1. k \in Nat /\ Seen \subseteq Entries
  BY IteratorAssumption DEF Seen
<1>2. ASSUME NEW n \in Seen, KeyOf(n) > k PROVE Coming(m, LastWrite(KeyOf(n)))
  <2>1. LastWrite(KeyOf(n)) \in Seen /\ KeyOf(LastWrite(KeyOf(n))) = KeyOf(n)
    BY LastWriteIs
  <2> QED BY <1>2, <2>1
<1>3. {x \in Present : x > k} = {x \in Present : x > i.key /\ Coming(m, LastWrite(x))}
  <2>1. ASSUME NEW x \in Present, x > k PROVE Coming(m, LastWrite(x))
    BY <2>1, PresentIs
  <2> QED BY <2>1
<1> QED BY <1>2, <1>3 DEF NextRight

(* A call that goes forward starts its loop. *)
LEMMA ForwardsIs ==
  ASSUME CursorInv, NEW m, MergerOK(m), NEW k \in UserKey \union {0}, NEW target,
         Called(target), Forwards(m, k), target \in UserKey \union {0},
         \A i : i.forward /\ i.key = k => NextRight(m, i, target)
  PROVE  CursorInv'
<1>1. iter \in Fields /\ DataOK
  BY DEF CursorInv
<1>2. iter' \in Fields /\ iter'.forward /\ iter'.key = k /\ merger' = m /\ call' = "next" /\ at' = target
      /\ UNCHANGED <<written, children, sequence>>
  BY <1>1 DEF Forwards, Called, Fields
<1>3. NextRight(merger', iter', at')
  BY <1>2
<1>4. Right(call', merger', iter', at')
  BY <1>2, <1>3 DEF Right
<1> QED BY <1>1, <1>2, <1>4, RightStays

(* A call that goes back starts its loop. *)
LEMMA BackwardsIs ==
  ASSUME CursorInv, MergerOK(merger'), AtLargest(merger'), CoversBack(merger'),
         call' = "prev", iter' = [iter EXCEPT !.forward = FALSE, !.key = 0, !.value = 0],
         UNCHANGED <<written, children, sequence>>, at' \in UserKey \union {0},
         at' = Highest({k \in Present : Going(merger', LastWrite(k))})
  PROVE  CursorInv'
<1>1. iter \in Fields /\ DataOK
  BY DEF CursorInv
<1>2. iter' \in Fields /\ ~iter'.forward /\ iter'.value = 0
  BY <1>1 DEF Fields
<1>3. {k \in Present : Going(merger', LastWrite(k))}
        = {k \in Present : Going(merger', LastWrite(k)) \/ LastWrite(k) = iter'.value}
  BY <1>1, <1>2, PresentIs
<1>4. PrevRight(merger', iter', at')
  BY <1>2, <1>3 DEF PrevRight
<1>5. Right(call', merger', iter', at')
  BY <1>4 DEF Right
<1> QED BY <1>1, <1>2, <1>5, RightStays

(* What is called for is a key, or none. *)
LEMMA TargetIn ==
  ASSUME NEW S \in SUBSET Present
  PROVE  Lowest(S) \in UserKey \union {0} /\ Highest(S) \in UserKey \union {0}
<1>1. S \in SUBSET UserKey
  BY DEF Present
<1> QED BY <1>1, LowestIs, HighestIs

(* SeekToFirst. *)
LEMMA SeekToFirstRight == CursorInv /\ SeekToFirst => CursorInv'
<1> SUFFICES ASSUME CursorInv, SeekToFirst PROVE CursorInv'
  OBVIOUS
<1>1. DataOK
  BY DEF CursorInv
<1>2. \A n \in Seen : KeyOf(n) >= 0
  BY <1>1, EntryFacts DEF Seen
<1>3. {x \in Present : x > 0} = Present
  BY <1>1, PresentIs
<1>4. \A i : i.forward /\ i.key = 0 => NextRight(MergerFirst, i, Lowest(Present))
  BY <1>1, <1>2, <1>3, MergerFirstIs, AllForward
<1> QED BY <1>1, <1>4, TargetIn, MergerFirstIs, ForwardsIs DEF SeekToFirst

(* SeekToLast. *)
LEMMA SeekToLastRight == CursorInv /\ SeekToLast => CursorInv'
<1> SUFFICES ASSUME CursorInv, SeekToLast PROVE CursorInv'
  OBVIOUS
<1>1. DataOK
  BY DEF CursorInv
<1>2. /\ merger' = MergerLast /\ call' = "prev" /\ iter' = [iter EXCEPT !.forward = FALSE, !.key = 0, !.value = 0]
      /\ UNCHANGED <<written, children, sequence>> /\ at' = Highest(Present)
  BY DEF SeekToLast, Called, Backwards
<1>3. MergerOK(merger') /\ AtLargest(merger') /\ CoversBack(merger') /\ \A n \in Seen : Going(merger', n)
  BY <1>1, <1>2, MergerLastIs
<1>4. {k \in Present : Going(merger', LastWrite(k))} = Present
  BY <1>1, <1>3, PresentIs
<1> QED BY <1>2, <1>3, <1>4, TargetIn, BackwardsIs

(* Seek. *)
LEMMA SeekRight == CursorInv /\ (\E low \in UserKey : Seek(low)) => CursorInv'
<1> SUFFICES ASSUME CursorInv, NEW low \in UserKey, Seek(low) PROVE CursorInv'
  OBVIOUS
<1> DEFINE m == MergerSeek(low)
           S == {k \in Present : k >= low}
<1>1. DataOK
  BY DEF CursorInv
<1>2. MergerOK(m) /\ AtSmallest(m) /\ CoversForward(m) /\ \A n \in Seen : Coming(m, n) <=> KeyOf(n) >= low
  BY <1>1, MergerSeekIs
<1>3. Called(Lowest(S)) /\ Forwards(m, 0)
  BY DEF Seek
<1> HIDE DEF m
<1>4. Lowest(S) \in UserKey \union {0}
  BY TargetIn
<1>5. ASSUME NEW i, i.forward, i.key = 0 PROVE NextRight(m, i, Lowest(S))
  <2>1. ASSUME NEW n \in Seen, Coming(m, n)
        PROVE  KeyOf(n) >= i.key /\ Coming(m, LastWrite(KeyOf(n)))
    <3>1. n \in Entries /\ LastWrite(KeyOf(n)) \in Seen /\ KeyOf(LastWrite(KeyOf(n))) = KeyOf(n)
      BY <1>1, LastWriteIs DEF Seen
    <3> QED BY <1>1, <1>2, <1>5, <2>1, <3>1, EntryFacts
  <2>2. S = {k \in Present : k > i.key /\ Coming(m, LastWrite(k))}
    BY <1>1, <1>2, <1>5, PresentIs
  <2> QED BY <1>2, <1>5, <2>1, <2>2 DEF NextRight
<1> QED BY <1>2, <1>3, <1>4, <1>5, ForwardsIs

(* Next, from the entry it is at. *)
LEMMA ForthForward ==
  ASSUME CursorInv, call = "none", iter.valid, iter.forward
  PROVE  /\ KeyOf(Current(merger)) = at /\ at \in UserKey
         /\ \A i : i.forward /\ i.key = at => NextRight(merger, i, Lowest({k \in Present : k > at}))
<1> DEFINE e == Current(merger)
<1>1. DataOK /\ MergerOK(merger) /\ RestRight(merger, iter, at)
  BY DEF CursorInv, Right
<1>2. AtSmallest(merger) /\ CoversForward(merger) /\ e = LastWrite(at) /\ at \in Present
  BY <1>1 DEF RestRight
<1>3. e \in Seen /\ e # 0 /\ KeyOf(e) = at /\ at \in UserKey /\ Seen \subseteq Entries
  BY <1>1, <1>2, PresentIs
<1>4. ASSUME NEW n \in Seen PROVE (Coming(merger, n) => KeyOf(n) >= at) /\ (KeyOf(n) > at => Coming(merger, n))
  <2>1. n \in Entries /\ e \in Entries /\ KeyOf(n) \in Nat /\ at \in Nat
    BY <1>1, <1>3, EntryFacts
  <2> QED BY <1>1, <1>3, <2>1, OrderOfKeys DEF Coming
<1> QED BY <1>1, <1>2, <1>3, <1>4, AllForward

(* Next, from before all entries of the key it shows. *)
LEMMA ForthBack ==
  ASSUME CursorInv, call = "none", iter.valid, ~iter.forward,
         NEW m, m = IF Current(merger) = 0 THEN MergerFirst ELSE MergerNext(merger)
  PROVE  /\ MergerOK(m) /\ iter.key = at /\ at \in UserKey
         /\ \A i : i.forward /\ i.key = at => NextRight(m, i, Lowest({k \in Present : k > at}))
<1> DEFINE e == Current(merger)
           v == iter.value
<1>1. DataOK /\ MergerOK(merger) /\ RestRight(merger, iter, at)
  BY DEF CursorInv, Right
<1>2. /\ AtLargest(merger) /\ iter.key = at /\ v = LastWrite(at) /\ at \in Present
      /\ e # 0 => e \in Seen /\ KeyOf(e) < at
      /\ \A n \in Seen : Before(n, v) => Going(merger, n)
  BY <1>1 DEF RestRight
<1>3. v \in Seen /\ KeyOf(v) = at /\ at \in UserKey /\ Seen \subseteq Entries
  BY <1>1, <1>2, PresentIs
<1>4. \A n \in Entries : KeyOf(n) \in Nat
  BY <1>1, EntryFacts
<1>5. ASSUME NEW n \in Seen, KeyOf(n) < at PROVE e # 0 /\ (n = e \/ Before(n, e))
  BY <1>1, <1>2, <1>3, <1>5, OrderOfKeys DEF Going
<1>6. CASE e = 0
  <2>1. \A n \in Seen : KeyOf(n) >= at
    BY <1>3, <1>4, <1>5, <1>6
  <2>2. m = MergerFirst
    BY <1>6
  <2> QED BY <1>1, <1>2, <1>3, <2>1, <2>2, MergerFirstIs, AllForward
<1>7. CASE e # 0
  <2>1. m = MergerNext(merger) /\ ~merger.forward
    BY <1>2, <1>7 DEF AtLargest
  <2>2. /\ MergerOK(m) /\ AtSmallest(m) /\ CoversForward(m)
        /\ \A n \in Seen : Coming(m, n) <=> Before(e, n)
    BY <1>1, <1>7, <2>1, MergerNextIs
  <2>3. ASSUME NEW n \in Seen, Before(e, n) PROVE KeyOf(n) >= at
    <3>1. n \in Entries /\ e \in Entries
      BY <1>2, <1>3, <1>7
    <3>2. ~(KeyOf(n) < at)
      BY <1>1, <1>5, <2>3, <3>1, Ordered
    <3> QED BY <1>3, <1>4, <3>1, <3>2
  <2>4. ASSUME NEW n \in Seen, KeyOf(n) > at PROVE Before(e, n)
    <3>1. n \in Entries /\ e \in Entries /\ KeyOf(e) < at
      BY <1>2, <1>3, <1>7
    <3>2. KeyOf(e) < KeyOf(n)
      BY <1>3, <1>4, <2>4, <3>1
    <3> QED BY <1>1, <3>1, <3>2, OrderOfKeys
  <2> HIDE DEF e
  <2> QED BY <1>1, <1>2, <1>3, <2>2, <2>3, <2>4, AllForward
<1> QED BY <1>6, <1>7

(* Next, from either direction. *)
LEMMA ForthRight == CursorInv /\ Forth => CursorInv'
<1> SUFFICES ASSUME CursorInv, Forth PROVE CursorInv'
  OBVIOUS
<1> DEFINE target == Lowest({k \in Present : k > at})
<1>1. iter.valid /\ call = "none" /\ Called(target) /\ MergerOK(merger)
  BY DEF Forth, Called, CursorInv
<1>2. target \in UserKey \union {0}
  BY TargetIn
<1>3. CASE iter.forward
  <2>1. Forwards(merger, KeyOf(Current(merger)))
    BY <1>3 DEF Forth
  <2> HIDE DEF target
  <2>2. /\ KeyOf(Current(merger)) = at /\ at \in UserKey
        /\ \A i : i.forward /\ i.key = at => NextRight(merger, i, target)
    BY <1>1, <1>3, ForthForward DEF target
  <2> QED BY <1>1, <1>2, <2>1, <2>2, ForwardsIs
<1>4. CASE ~iter.forward
  <2> DEFINE m == IF Current(merger) = 0 THEN MergerFirst ELSE MergerNext(merger)
  <2>1. Forwards(m, iter.key)
    BY <1>4 DEF Forth
  <2> HIDE DEF target, m
  <2>2. /\ MergerOK(m) /\ iter.key = at /\ at \in UserKey
        /\ \A i : i.forward /\ i.key = at => NextRight(m, i, target)
    BY <1>1, <1>4, ForthBack DEF target, m
  <2> QED BY <1>1, <1>2, <2>1, <2>2, ForwardsIs
<1> QED BY <1>3, <1>4

(* Prev. *)
LEMMA BackRight == CursorInv /\ Back => CursorInv'
<1> SUFFICES ASSUME CursorInv, Back PROVE CursorInv'
  OBVIOUS
<1> DEFINE target == Highest({k \in Present : k < at})
           e == Current(merger)
<1>1. /\ iter.valid /\ call = "none" /\ at' = target /\ UNCHANGED <<written, children, sequence>>
      /\ MergerOK(merger) /\ DataOK /\ iter \in Fields /\ RestRight(merger, iter, at)
  BY DEF Back, Called, CursorInv, Right
<1>2. target \in UserKey \union {0}
  BY TargetIn
<1>3. at \in Present /\ at \in UserKey /\ at \in Nat /\ LastWrite(at) \in Seen /\ KeyOf(LastWrite(at)) = at
      /\ Seen \subseteq Entries /\ LastWrite(at) # 0 /\ \A n \in Entries : KeyOf(n) \in Nat
  BY <1>1, PresentIs, EntryFacts DEF RestRight
<1>4. CASE iter.forward
  <2>1. call' = "turn" /\ merger' = OthersSought(merger) /\ iter' = [iter EXCEPT !.key = KeyOf(Current(merger))]
    BY <1>4 DEF Back
  <2>2. e = LastWrite(at) /\ merger.forward /\ e # 0
    BY <1>1, <1>3, <1>4 DEF RestRight, AtSmallest
  <2>3. MergerOK(merger') /\ merger'.forward /\ Halfway(merger', at)
    BY <1>1, <1>3, <2>1, <2>2, OthersSoughtIs
  <2>4. iter'.key = at /\ iter' \in Fields
    BY <1>1, <1>3, <2>1, <2>2 DEF Fields
  <2>5. TurnRight(merger', iter', at')
    BY <1>1, <1>3, <2>3, <2>4 DEF TurnRight
  <2>6. Right(call', merger', iter', at')
    BY <2>1, <2>5 DEF Right
  <2> HIDE DEF target
  <2> QED BY <1>1, <1>2, <2>1, <2>3, <2>4, <2>6, RightStays
<1>5. CASE ~iter.forward
  <2>1. call' = "prev" /\ merger' = merger /\ iter' = [iter EXCEPT !.forward = FALSE, !.key = 0, !.value = 0]
    BY <1>5 DEF Back, Backwards
  <2>2. /\ AtLargest(merger) /\ CoversBack(merger) /\ iter.value = LastWrite(at)
        /\ e # 0 => e \in Seen /\ KeyOf(e) < at
        /\ \A n \in Seen : Before(n, iter.value) => Going(merger, n)
    BY <1>1, <1>5 DEF RestRight
  <2>3. ASSUME NEW k \in Present PROVE k < at <=> Going(merger, LastWrite(k))
    <3> DEFINE w == LastWrite(k)
    <3>1. w \in Seen /\ w \in Entries /\ KeyOf(w) = k /\ k \in Nat
      BY <1>1, <1>3, PresentIs
    <3> HIDE DEF w
    <3>2. ASSUME k < at PROVE Going(merger, w)
      <4>1. Before(w, LastWrite(at))
        BY <1>1, <1>3, <3>1, <3>2, OrderOfKeys
      <4> QED BY <2>2, <3>1, <4>1
    <3>3. ASSUME Going(merger, w) PROVE k < at
      <4>1. e # 0 /\ (w = e \/ Before(w, e)) /\ e \in Entries /\ KeyOf(e) < at
        BY <1>3, <2>2, <3>3 DEF Going
      <4>2. KeyOf(w) <= KeyOf(e)
        BY <1>1, <1>3, <3>1, <4>1, OrderOfKeys
      <4> QED BY <1>3, <3>1, <4>1, <4>2
    <3> QED BY <3>2, <3>3 DEF w
  <2>4. {k \in Present : k < at} = {k \in Present : Going(merger', LastWrite(k))}
    BY <2>1, <2>3
  <2>5. at' \in UserKey \union {0} /\ at' = Highest({k \in Present : Going(merger', LastWrite(k))})
    BY <1>1, <1>2, <2>4
  <2>6. MergerOK(merger') /\ AtLargest(merger') /\ CoversBack(merger')
    BY <1>1, <2>1, <2>2
  <2> QED BY <1>1, <2>1, <2>5, <2>6, BackwardsIs
<1> QED BY <1>4, <1>5

(* A call that ends with nothing to show. *)
LEMMA EndsRight ==
  ASSUME CursorInv, Ends, UNCHANGED <<written, children, sequence, at>>, at = 0
  PROVE  CursorInv'
<1>1. DataOK /\ MergerOK(merger') /\ call' = "none" /\ at' = 0 /\ at' \in UserKey \union {0}
  BY DEF CursorInv, Ends
<1>2. iter' = [valid |-> FALSE, forward |-> TRUE, key |-> 0, value |-> 0]
  BY DEF Ends
<1>3. iter' \in Fields /\ ~iter'.valid
  BY <1>2 DEF Fields
<1>4. Right(call', merger', iter', at')
  BY <1>1, <1>3 DEF Right, RestRight
<1> QED BY <1>1, <1>3, <1>4, RightStays

(* A pass of the loop that looks for the next key. *)
LEMMA FindNextRight == CursorInv /\ FindNextUserEntry => CursorInv'
<1> SUFFICES ASSUME CursorInv, FindNextUserEntry PROVE CursorInv'
  OBVIOUS
<1> DEFINE e == Current(merger)
           shown == Visible(e) /\ ~written[e].delete /\ KeyOf(e) > iter.key
<1>1. /\ DataOK /\ MergerOK(merger) /\ iter \in Fields /\ NextRight(merger, iter, at)
      /\ at' = at /\ at' \in UserKey \union {0} /\ UNCHANGED <<written, children, sequence, at>> /\ call = "next"
  BY DEF FindNextUserEntry, CursorInv, Right
<1>2. CASE e = 0 /\ Ends
  BY <1>1, <1>2, NextEnds, EndsRight
<1>3. CASE e # 0 /\ shown /\ Shows([iter EXCEPT !.valid = TRUE, !.key = 0])
  <2>1. merger' = merger /\ call' = "none" /\ iter' = [iter EXCEPT !.valid = TRUE, !.key = 0]
    BY <1>3 DEF Shows
  <2>2. RestRight(merger', iter', at') /\ iter' \in Fields
    BY <1>1, <1>3, <2>1, NextShows
  <2>3. Right(call', merger', iter', at') /\ MergerOK(merger')
    BY <1>1, <2>1, <2>2 DEF Right
  <2> QED BY <1>1, <2>1, <2>2, <2>3, RightStays
<1>4. CASE /\ e # 0 /\ ~shown /\ merger' = MergerNext(merger) /\ UNCHANGED call
           /\ iter' = [iter EXCEPT !.key = IF Visible(e) /\ written[e].delete THEN KeyOf(e) ELSE @]
  <2>1. MergerOK(merger') /\ NextRight(merger', iter', at') /\ iter' \in Fields
    BY <1>1, <1>4, NextSkips
  <2>2. Right(call', merger', iter', at') /\ call' = "next"
    BY <1>1, <1>4, <2>1 DEF Right
  <2> QED BY <1>1, <2>1, <2>2, RightStays
<1>5. \/ e = 0 /\ Ends
      \/ e # 0 /\ shown /\ Shows([iter EXCEPT !.valid = TRUE, !.key = 0])
      \/ /\ e # 0 /\ ~shown /\ merger' = MergerNext(merger) /\ UNCHANGED call
         /\ iter' = [iter EXCEPT !.key = IF Visible(e) /\ written[e].delete THEN KeyOf(e) ELSE @]
  BY DEF FindNextUserEntry
<1> QED BY <1>2, <1>3, <1>4, <1>5

(* A pass of the loop that looks for the one before. *)
LEMMA FindPrevRight == CursorInv /\ FindPrevUserEntry => CursorInv'
<1> SUFFICES ASSUME CursorInv, FindPrevUserEntry PROVE CursorInv'
  OBVIOUS
<1> DEFINE e == Current(merger)
           past == Visible(e) /\ iter.value # 0 /\ KeyOf(e) < iter.key
           saved == IF ~Visible(e) THEN iter
                    ELSE IF written[e].delete THEN [iter EXCEPT !.key = 0, !.value = 0]
                    ELSE [iter EXCEPT !.key = KeyOf(e), !.value = e]
<1>1. /\ DataOK /\ MergerOK(merger) /\ iter \in Fields /\ PrevRight(merger, iter, at)
      /\ at' = at /\ at' \in UserKey \union {0} /\ UNCHANGED <<written, children, sequence, at>> /\ call = "prev"
  BY DEF FindPrevUserEntry, CursorInv, Right
<1>2. CASE e = 0 /\ iter.value = 0 /\ Ends
  BY <1>1, <1>2, PrevEnds, EndsRight
<1>3. CASE iter.value # 0 /\ (e = 0 \/ past) /\ Shows([iter EXCEPT !.valid = TRUE])
  <2>1. merger' = merger /\ call' = "none" /\ iter' = [iter EXCEPT !.valid = TRUE]
    BY <1>3 DEF Shows
  <2>2. RestRight(merger', iter', at') /\ iter' \in Fields
    BY <1>1, <1>3, <2>1, PrevShows
  <2>3. Right(call', merger', iter', at') /\ MergerOK(merger')
    BY <1>1, <2>1, <2>2 DEF Right
  <2> QED BY <1>1, <2>1, <2>2, <2>3, RightStays
<1>4. CASE e # 0 /\ ~past /\ merger' = MergerPrev(merger) /\ UNCHANGED call /\ iter' = saved
  <2>1. /\ merger' = MergerPrev(merger) /\ e = Current(merger) /\ e # 0
        /\ ~(Visible(e) /\ iter.value # 0 /\ KeyOf(e) < iter.key)
        /\ iter' = IF ~Visible(e) THEN iter
                   ELSE IF written[e].delete THEN [iter EXCEPT !.key = 0, !.value = 0]
                   ELSE [iter EXCEPT !.key = KeyOf(e), !.value = e]
    BY <1>4
  <2>2. \A j : j = iter' => MergerOK(MergerPrev(merger)) /\ PrevRight(MergerPrev(merger), j, at) /\ j \in Fields
    <3> HIDE DEF e
    <3> QED BY <1>1, <2>1, PrevMoves
  <2>3. MergerOK(merger') /\ PrevRight(merger', iter', at') /\ iter' \in Fields
    BY <1>1, <2>1, <2>2
  <2>4. Right(call', merger', iter', at') /\ call' = "prev"
    BY <1>1, <1>4, <2>3 DEF Right
  <2> QED BY <1>1, <2>4, <2>3, RightStays
<1>5. \/ e = 0 /\ iter.value = 0 /\ Ends
      \/ iter.value # 0 /\ (e = 0 \/ past) /\ Shows([iter EXCEPT !.valid = TRUE])
      \/ e # 0 /\ ~past /\ merger' = MergerPrev(merger) /\ UNCHANGED call /\ iter' = saved
  BY DEF FindPrevUserEntry
<1> QED BY <1>2, <1>3, <1>4, <1>5

(* A pass of the loop that turns round. *)
LEMMA TurnRoundRight == CursorInv /\ TurnRound => CursorInv'
<1> SUFFICES ASSUME CursorInv, TurnRound PROVE CursorInv'
  OBVIOUS
<1> DEFINE e == Current(merger)
           S == {k \in Present : k < iter.key}
<1>1. /\ DataOK /\ MergerOK(merger) /\ iter \in Fields /\ TurnRight(merger, iter, at)
      /\ at' = at /\ at' \in UserKey \union {0} /\ UNCHANGED <<written, children, sequence, at>> /\ call = "turn"
  BY DEF TurnRound, CursorInv, Right
<1>2. /\ iter.key \in UserKey /\ iter.key \in Nat /\ at = Highest(S)
      /\ ~merger.forward => AtLargest(merger) /\ CoversTurn(merger, iter.key)
  BY <1>1, IteratorAssumption DEF TurnRight
<1>3. CASE merger.forward /\ merger' = Turned(merger) /\ UNCHANGED <<call, iter>>
  <2>1. MergerOK(merger') /\ AtLargest(merger') /\ CoversTurn(merger', iter.key)
    BY <1>1, <1>3, TurnedIs DEF TurnRight
  <2>2. TurnRight(merger', iter', at')
    BY <1>1, <1>3, <2>1 DEF TurnRight, AtLargest
  <2>3. Right(call', merger', iter', at')
    BY <1>1, <1>3, <2>2 DEF Right
  <2> QED BY <1>1, <1>3, <2>1, <2>3, RightStays
<1>4. CASE ~merger.forward /\ e = 0 /\ Ends
  <2>1. \A n \in Seen : KeyOf(n) >= iter.key
    BY <1>1, <1>2, <1>4, TurnEnds
  <2>2. S = {}
    <3> SUFFICES ASSUME NEW k \in Present, k < iter.key PROVE FALSE
      OBVIOUS
    <3>1. k \in Nat /\ k >= iter.key
      BY <1>1, <2>1, PresentIs
    <3> QED BY <1>2, <3>1
  <2> HIDE DEF S
  <2>3. at = 0
    BY <1>2, <2>2, LowestIs, HighestIs
  <2> QED BY <1>1, <1>4, <2>3, EndsRight
<1>5. CASE ~merger.forward /\ e # 0 /\ KeyOf(e) < iter.key /\ Backwards(merger)
  <2>1. merger' = merger /\ call' = "prev" /\ iter' = [iter EXCEPT !.forward = FALSE, !.key = 0, !.value = 0]
    BY <1>5 DEF Backwards
  <2>2. CoversBack(merger) /\ AtLargest(merger) /\ \A n \in Seen : Going(merger, n) <=> KeyOf(n) < iter.key
    BY <1>1, <1>2, <1>5, TurnEnds
  <2>3. S = {k \in Present : Going(merger', LastWrite(k))}
    BY <1>1, <2>1, <2>2, PresentIs
  <2>4. at' = Highest({k \in Present : Going(merger', LastWrite(k))})
    BY <1>1, <1>2, <2>3
  <2> HIDE DEF S
  <2>5. MergerOK(merger') /\ AtLargest(merger') /\ CoversBack(merger')
    BY <1>1, <2>1, <2>2
  <2> QED BY <1>1, <2>1, <2>4, <2>5, BackwardsIs
<1>6. CASE ~merger.forward /\ e # 0 /\ KeyOf(e) >= iter.key /\ merger' = MergerPrev(merger) /\ UNCHANGED <<call, iter>>
  <2>1. MergerOK(merger') /\ AtLargest(merger') /\ CoversTurn(merger', iter.key)
    BY <1>1, <1>2, <1>6, TurnPrevIs
  <2>2. TurnRight(merger', iter', at')
    BY <1>1, <1>6, <2>1 DEF TurnRight, AtLargest
  <2>3. Right(call', merger', iter', at')
    BY <1>1, <1>6, <2>2 DEF Right
  <2> QED BY <1>1, <1>6, <2>1, <2>3, RightStays
<1>7. \/ merger.forward /\ merger' = Turned(merger) /\ UNCHANGED <<call, iter>>
      \/ ~merger.forward /\ e = 0 /\ Ends
      \/ ~merger.forward /\ e # 0 /\ KeyOf(e) < iter.key /\ Backwards(merger)
      \/ ~merger.forward /\ e # 0 /\ KeyOf(e) >= iter.key /\ merger' = MergerPrev(merger) /\ UNCHANGED <<call, iter>>
  BY DEF TurnRound
<1> QED BY <1>3, <1>4, <1>5, <1>6, <1>7

(* An insertion is behind the snapshot, and moves nothing. *)
LEMMA InsertFacts ==
  ASSUME DataOK, NEW entry \in Said, SkipListInsert(entry)
  PROVE  /\ DataOK' /\ Entries \subseteq Entries' /\ Seen' = Seen
         /\ \A n \in Entries : written'[n] = written[n] /\ KeyOf(n)' = KeyOf(n)
         /\ \A x, y \in Entries : Before(x, y)' <=> Before(x, y)
         /\ \A c \in Child : children[c] \subseteq children'[c]
            /\ Seen \intersect children'[c] = Seen \intersect children[c]
         /\ \A k : LastWrite(k)' = LastWrite(k)
         /\ Present' = Present
<1>1. PICK N \in Nat : Entries = 1..N /\ sequence \in Nat /\ sequence <= N
  BY DEF DataOK
<1>2. Cardinality(DOMAIN written) = N
  BY <1>1, FS_Interval DEF Entries
<1> DEFINE n == N + 1
<1>3. /\ written' = [m \in 1..n |-> IF m = n THEN entry ELSE written[m]]
      /\ children' = [children EXCEPT ![1] = @ \union {n}] /\ sequence' = sequence
  BY <1>2 DEF SkipListInsert
<1>4. Entries' = 1..n /\ n \in Nat /\ Entries' = Entries \union {n} /\ n \notin Entries /\ n > sequence
  BY <1>1, <1>3 DEF Entries
<1>5. /\ \A m \in Entries : written'[m] = written[m]
      /\ written' \in [Entries' -> Said] /\ written'[n] = entry
  BY <1>1, <1>3, <1>4 DEF DataOK
<1> HIDE DEF n
<1>6. 1 \in Child
  BY IteratorAssumption DEF Child
<1>7. /\ \A c \in Child : children'[c] = IF c = 1 THEN children[c] \union {n} ELSE children[c]
      /\ children' \in [Child -> SUBSET Entries']
  BY <1>3, <1>4, <1>6 DEF DataOK
<1>8. DataOK'
  <2>1. \E x \in Nat : Entries' = 1..x /\ sequence' \in Nat /\ sequence' <= x
    BY <1>1, <1>3, <1>4
  <2>2. \A c, d \in Child : c # d => children'[c] \intersect children'[d] = {}
    BY <1>4, <1>7 DEF DataOK
  <2>3. \A m \in Entries' : \E c \in Child : m \in children'[c]
    BY <1>4, <1>6, <1>7 DEF DataOK
  <2> QED BY <1>5, <1>7, <2>1, <2>2, <2>3 DEF DataOK
<1>9. Seen' = Seen
  <2>1. \A m : (m \in Entries' /\ m <= sequence') <=> (m \in Entries /\ m <= sequence)
    BY <1>1, <1>3, <1>4
  <2> QED BY <2>1 DEF Seen, Visible
<1>10. \A m \in Entries : KeyOf(m)' = KeyOf(m)
  BY <1>5 DEF KeyOf
<1>11. \A x, y \in Entries : Before(x, y)' <=> Before(x, y)
  BY <1>10 DEF Before
<1>12. \A c \in Child : children[c] \subseteq children'[c]
       /\ Seen \intersect children'[c] = Seen \intersect children[c]
  BY <1>4, <1>7 DEF Seen
<1>13. ASSUME NEW k PROVE LastWrite(k)' = LastWrite(k)
  <2>1. {m \in Entries : KeyOf(m) = k /\ Visible(m)} = {m \in Seen : KeyOf(m) = k}
    BY DEF Seen
  <2>2. {m \in Entries : KeyOf(m) = k /\ Visible(m)}' = {m \in Seen' : KeyOf(m)' = k}
    BY DEF Seen
  <2>3. {m \in Seen' : KeyOf(m)' = k} = {m \in Seen : KeyOf(m) = k}
    BY <1>9, <1>10 DEF Seen
  <2>4. LastWrite(k) = IF {m \in Seen : KeyOf(m) = k} = {} THEN 0 ELSE Max({m \in Seen : KeyOf(m) = k})
    BY <2>1 DEF LastWrite, Entries
  <2>5. LastWrite(k)' = IF {m \in Seen' : KeyOf(m)' = k} = {} THEN 0 ELSE Max({m \in Seen' : KeyOf(m)' = k})
    BY <2>2 DEF LastWrite, Entries
  <2> QED BY <2>3, <2>4, <2>5
<1>14. Present' = Present
  <2>1. ASSUME NEW k \in UserKey, LastWrite(k) # 0 PROVE written'[LastWrite(k)'] = written[LastWrite(k)]
    <3>1. LastWrite(k) \in Entries
      BY <2>1, LastWriteIs DEF Seen
    <3> QED BY <1>5, <1>13, <3>1
  <2> QED BY <1>13, <2>1 DEF Present
<1> QED BY <1>4, <1>5, <1>8, <1>9, <1>10, <1>11, <1>12, <1>13, <1>14

(* So it leaves every loop right, the middle of a turn among them. *)
LEMMA InsertRight == CursorInv /\ (\E entry \in Said : SkipListInsert(entry)) => CursorInv'
<1> SUFFICES ASSUME CursorInv, NEW entry \in Said, SkipListInsert(entry) PROVE CursorInv'
  OBVIOUS
<1>1. /\ DataOK /\ MergerOK(merger) /\ iter \in Fields /\ Right(call, merger, iter, at)
      /\ call \in {"none", "next", "turn", "prev"} /\ at \in UserKey \union {0}
      /\ UNCHANGED <<merger, iter, call, at>>
  BY DEF CursorInv, SkipListInsert
<1>2. /\ DataOK' /\ Entries \subseteq Entries' /\ Seen' = Seen
      /\ \A n \in Entries : written'[n] = written[n] /\ KeyOf(n)' = KeyOf(n)
      /\ \A x, y \in Entries : Before(x, y)' <=> Before(x, y)
      /\ \A c \in Child : children[c] \subseteq children'[c]
         /\ Seen \intersect children'[c] = Seen \intersect children[c]
      /\ \A k : LastWrite(k)' = LastWrite(k)
      /\ Present' = Present
  BY <1>1, InsertFacts
<1>3. /\ Seen \subseteq Entries /\ Current(merger) \in Entries \union {0}
      /\ \A c \in Child : merger.pos[c] \in Entries \union {0}
      /\ \A k \in Present : LastWrite(k) \in Seen
      /\ \A n \in Seen : LastWrite(KeyOf(n)) \in Seen
  BY <1>1, CurrentIn, PresentIs, LastWriteIs DEF MergerOK, PosOK
<1>4. MergerOK(merger)' /\ iter' \in Fields'
  BY <1>1, <1>2 DEF MergerOK, PosOK, Fields
<1>5. Current(merger)' = Current(merger)
  BY <1>1 DEF Current
<1>6. AtSmallest(merger) => AtSmallest(merger)'
  BY <1>1, <1>2, <1>3, <1>5 DEF AtSmallest
<1>7. AtLargest(merger) => AtLargest(merger)'
  BY <1>1, <1>2, <1>3, <1>5 DEF AtLargest
<1>8. \A n \in Seen : (Coming(merger, n)' <=> Coming(merger, n)) /\ (Going(merger, n)' <=> Going(merger, n))
  BY <1>1, <1>2, <1>3, <1>5 DEF Coming, Going
<1>9. CoversForward(merger) => CoversForward(merger)'
  BY <1>1, <1>2, <1>3, <1>8 DEF CoversForward
<1>10. CoversBack(merger) => CoversBack(merger)'
  BY <1>1, <1>2, <1>3, <1>8 DEF CoversBack
<1>11. CASE call = "next"
  <2>1. NextRight(merger, iter, at)
    BY <1>1, <1>11 DEF Right
  <2>2. ASSUME NEW n \in Seen', Coming(merger, n)'
        PROVE  KeyOf(n)' >= iter.key /\ (KeyOf(n)' > iter.key => Coming(merger, LastWrite(KeyOf(n)))')
    <3>1. n \in Seen /\ n \in Entries /\ Coming(merger, n) /\ KeyOf(n)' = KeyOf(n) /\ LastWrite(KeyOf(n)) \in Seen
      BY <1>2, <1>3, <1>8, <2>2
    <3>2. LastWrite(KeyOf(n))' = LastWrite(KeyOf(n))
      BY <1>2, <3>1
    <3> QED BY <1>8, <2>1, <3>1, <3>2 DEF NextRight
  <2>3. {k \in Present : k > iter.key /\ Coming(merger, LastWrite(k))}'
          = {k \in Present : k > iter.key /\ Coming(merger, LastWrite(k))}
    BY <1>1, <1>2, <1>3, <1>8
  <2>4. NextRight(merger, iter, at)'
    BY <1>1, <1>6, <1>9, <2>1, <2>2, <2>3 DEF NextRight
  <2> QED BY <1>1, <1>2, <1>4, <1>11, <2>4 DEF CursorInv, Right
<1>12. CASE call = "prev"
  <2>1. PrevRight(merger, iter, at)
    BY <1>1, <1>12 DEF Right
  <2>2. {k \in Present : Going(merger, LastWrite(k)) \/ LastWrite(k) = iter.value}'
          = {k \in Present : Going(merger, LastWrite(k)) \/ LastWrite(k) = iter.value}
    BY <1>1, <1>2, <1>3, <1>8
  <2>3. (iter.value # 0 =>
           /\ iter.value \in Seen /\ ~written[iter.value].delete /\ iter.key = KeyOf(iter.value)
           /\ Current(merger) # 0 => Before(Current(merger), iter.value)
           /\ \A n \in Seen : Before(n, iter.value) => Going(merger, n))'
    <3> SUFFICES ASSUME iter.value # 0
                 PROVE  /\ iter.value \in Seen /\ ~written'[iter.value].delete /\ iter.key = KeyOf(iter.value)'
                        /\ Current(merger) # 0 => Before(Current(merger), iter.value)'
                        /\ \A n \in Seen : Before(n, iter.value)' => Going(merger, n)'
      BY <1>1, <1>2, <1>5
    <3>1. iter.value \in Seen /\ iter.value \in Entries
      BY <1>3, <2>1 DEF PrevRight
    <3>2. KeyOf(iter.value)' = KeyOf(iter.value) /\ written'[iter.value] = written[iter.value]
      BY <1>1, <1>2, <3>1
    <3>3. \A x \in Entries : Before(x, iter.value)' <=> Before(x, iter.value)
      BY <1>1, <1>2, <3>1
    <3>4. Current(merger) # 0 => (Before(Current(merger), iter.value)' <=> Before(Current(merger), iter.value))
      BY <1>1, <1>2, <1>3, <1>5, <3>1
    <3> QED BY <1>3, <1>8, <2>1, <3>1, <3>2, <3>3, <3>4 DEF PrevRight
  <2>4. PrevRight(merger, iter, at)'
    BY <1>1, <1>7, <1>10, <2>1, <2>2, <2>3 DEF PrevRight
  <2> QED BY <1>1, <1>2, <1>4, <1>12, <2>4 DEF CursorInv, Right
<1>13. CASE call = "turn"
  <2>1. TurnRight(merger, iter, at)
    BY <1>1, <1>13 DEF Right
  <2>2. Halfway(merger, iter.key) => Halfway(merger, iter.key)'
    BY <1>1, <1>2, <1>3 DEF Halfway
  <2>3. CoversTurn(merger, iter.key) => CoversTurn(merger, iter.key)'
    BY <1>1, <1>2, <1>3 DEF CoversTurn
  <2>4. TurnRight(merger, iter, at)'
    BY <1>1, <1>2, <1>7, <2>1, <2>2, <2>3 DEF TurnRight
  <2> QED BY <1>1, <1>2, <1>4, <1>13, <2>4 DEF CursorInv, Right
<1>14. CASE call = "none"
  <2>1. RestRight(merger, iter, at)
    BY <1>1, <1>14 DEF Right
  <2>2. RestRight(merger, iter, at)'
    <3>1. CASE ~iter.valid
      BY <1>1, <2>1, <3>1 DEF RestRight
    <3>2. CASE iter.valid /\ iter.forward
      BY <1>1, <1>2, <1>5, <1>6, <1>9, <2>1, <3>2 DEF RestRight
    <3>3. CASE iter.valid /\ ~iter.forward
      <4>1. /\ at \in Present /\ AtLargest(merger) /\ CoversBack(merger) /\ iter.key = at /\ iter.value = LastWrite(at)
            /\ Current(merger) # 0 => Current(merger) \in Seen /\ KeyOf(Current(merger)) < at
            /\ \A n \in Seen : Before(n, iter.value) => Going(merger, n)
        BY <2>1, <3>3 DEF RestRight
      <4>2. iter.value \in Entries
        BY <1>3, <4>1
      <4>3. (\A n \in Seen : Before(n, iter.value) => Going(merger, n))'
        BY <1>1, <1>2, <1>3, <1>8, <4>1, <4>2
      <4>4. (Current(merger) # 0 => Current(merger) \in Seen /\ KeyOf(Current(merger)) < at)'
        BY <1>1, <1>2, <1>3, <1>5, <4>1
      <4>5. iter'.value = LastWrite(at)'
        BY <1>1, <1>2, <4>1
      <4> QED BY <1>1, <1>2, <1>7, <1>10, <2>1, <3>3, <4>1, <4>3, <4>4, <4>5 DEF RestRight
    <3> QED BY <3>1, <3>2, <3>3
  <2> QED BY <1>1, <1>2, <1>4, <1>14, <2>2 DEF CursorInv, Right
<1> QED BY <1>1, <1>11, <1>12, <1>13, <1>14

(* At first nothing is at anything. *)
LEMMA CursorInit == IteratorInit => CursorInv
<1> SUFFICES ASSUME IteratorInit PROVE CursorInv
  OBVIOUS
<1>1. PICK n \in 1..MaxEntries :
        /\ written \in [1..n -> Said]
        /\ \E place \in [1..n -> Child] : children = [c \in Child |-> {m \in 1..n : place[m] = c}]
        /\ sequence \in {n - 1, n}
  BY DEF IteratorInit
<1>2. n \in Nat \ {0} /\ Entries = 1..n /\ written \in [Entries -> Said]
  BY <1>1, IteratorAssumption DEF Entries
<1>3. PICK place \in [Entries -> Child] : children = [c \in Child |-> {m \in Entries : place[m] = c}]
  BY <1>1, <1>2
<1>4. DataOK
  <2>1. \E x \in Nat : Entries = 1..x /\ sequence \in Nat /\ sequence <= x
    BY <1>1, <1>2
  <2>2. children \in [Child -> SUBSET Entries]
    BY <1>3
  <2>3. \A c, d \in Child : c # d => children[c] \intersect children[d] = {}
    BY <1>3
  <2>4. \A m \in Entries : \E c \in Child : m \in children[c]
    BY <1>3
  <2> QED BY <1>2, <2>1, <2>2, <2>3, <2>4 DEF DataOK
<1>5. /\ merger = [pos |-> [c \in Child |-> 0], current |-> 0, forward |-> TRUE]
      /\ iter = [valid |-> FALSE, forward |-> TRUE, key |-> 0, value |-> 0]
      /\ call = "none" /\ at = 0
  BY DEF IteratorInit
<1>6. MergerOK(merger) /\ iter \in Fields
  BY <1>5 DEF MergerOK, PosOK, Fields
<1>7. Right(call, merger, iter, at)
  BY <1>5 DEF Right, RestRight
<1> QED BY <1>4, <1>5, <1>6, <1>7 DEF CursorInv

(* Where nothing changes nothing changes. *)
LEMMA CursorStutters == CursorInv /\ UNCHANGED iteratorVars => CursorInv'
<1> SUFFICES ASSUME CursorInv, UNCHANGED iteratorVars PROVE CursorInv'
  OBVIOUS
<1> QED BY RightStays DEF iteratorVars, CursorInv

(* In every loop of DBIter the key where the call will end is that of what *)
(* the children have still to come, whatever is inserted between two       *)
(* passes.                                                                 *)
THEOREM CursorInvariant == IteratorSpec => []CursorInv
<1>1. CursorInv /\ [IteratorNext]_iteratorVars => CursorInv'
  BY SeekToFirstRight, SeekToLastRight, SeekRight, ForthRight, BackRight, FindNextRight, TurnRoundRight,
     FindPrevRight, InsertRight, CursorStutters DEF IteratorNext
<1> QED BY <1>1, CursorInit, PTL DEF IteratorSpec

(* Every child of the merger is at an entry of its own, and DBIter saves    *)
(* only keys and values that were written.                                 *)
THEOREM IteratorTypeCorrect == IteratorSpec => []IteratorTypeOK
<1>1. CursorInv => IteratorTypeOK
  <2> SUFFICES ASSUME CursorInv PROVE IteratorTypeOK
    OBVIOUS
  <2>1. DataOK /\ MergerOK(merger) /\ iter \in Fields
    BY DEF CursorInv
  <2>2. written \in [DOMAIN written -> Said] /\ \A c \in Child : merger.pos[c] \in children[c] \union {0}
    BY <2>1 DEF DataOK, Entries, MergerOK, PosOK
  <2> QED BY <2>1, <2>2 DEF IteratorTypeOK, CursorInv, MergerOK, Fields, Entries
<1> QED BY <1>1, CursorInvariant, PTL

(* A call of Next, Prev or Seek leaves the iterator at the key where a walk *)
(* over the snapshot would be, with its last value, or invalid where there *)
(* is none.                                                                *)
THEOREM CursorIsRight == IteratorSpec => []CursorRight
<1>1. CursorInv => CursorRight
  <2> SUFFICES ASSUME CursorInv, call = "none"
               PROVE  /\ iter.valid <=> at # 0
                      /\ iter.valid => IF iter.forward
                                       THEN KeyOf(Current(merger)) = at /\ Current(merger) = LastWrite(at)
                                       ELSE iter.key = at /\ iter.value = LastWrite(at)
    BY DEF CursorRight
  <2>1. RestRight(merger, iter, at) /\ DataOK
    BY DEF CursorInv, Right
  <2>2. iter.valid => KeyOf(LastWrite(at)) = at
    BY <2>1, PresentIs DEF RestRight
  <2> QED BY <2>1, <2>2 DEF RestRight
<1> QED BY <1>1, CursorInvariant, PTL
===============================================================================
