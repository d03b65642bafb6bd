--------------------------- MODULE LevelDBIterator ---------------------------
(***************************************************************************)
(* One iterator of leveldb: DBIter (Pods/leveldb-library/db/db_iter.cc)    *)
(* over MergingIterator (table/merger.cc) over its children, the memtables *)
(* and tables of the version it holds.  It walks over entries of all       *)
(* sequence numbers in both directions, turns round anywhere, and shows    *)
(* one value per user key, while writers insert into its first child.      *)
(*                                                                         *)
(* An entry is its sequence number.  A step of the iterator is one pass of *)
(* a loop of DBIter, with the move of the merger that ends it.  It holds   *)
(* no lock: insertions come between any two steps.  Only the memtable      *)
(* changes, so a move is as many steps as it makes calls of one child: two *)
(* where the merger turns to go back (Seek and then Prev or SeekToLast),   *)
(* and one everywhere else.                                                *)
(***************************************************************************)
EXTENDS Naturals, FiniteSets, FiniteSetsExt

CONSTANTS
  UserKey,     \* user keys, numbers from 1
  NumChildren, \* the memtable is the first
  MaxEntries,  \* bound: entries when the iterator is made
  MaxInserts   \* bound: entries that come later

ASSUME IteratorAssumption ==
  /\ UserKey \subseteq Nat \ {0} /\ IsFiniteSet(UserKey)
  /\ NumChildren \in Nat \ {0} /\ {MaxEntries, MaxInserts} \subseteq Nat

VARIABLES
  written,   \* history: what each entry says
  children,  \* the entries of each child
  sequence,  \* sequence_, what the iterator may see
  merger,    \* MergingIterator: where each child is (0: not valid), current_, direction_
  iter,      \* DBIter: valid_, direction_, saved_key_ (0: clear) and saved_value_
  call,      \* the loop the iterator is in, none between the calls of its user
  at         \* history: the key where the call will leave the caller, 0 if at none

iteratorVars == <<written, children, sequence, merger, iter, call, at>>

Child == 1..NumChildren
KeyOf(n) == written[n].key

(* Internal keys: by user key, the newer entry first. *)
Before(a, b) == KeyOf(a) < KeyOf(b) \/ (KeyOf(a) = KeyOf(b) /\ a > b)

FirstOf(entries) ==
  IF entries = {} THEN 0 ELSE CHOOSE a \in entries : \A b \in entries \ {a} : Before(a, b)
LastOf(entries) ==
  IF entries = {} THEN 0 ELSE CHOOSE a \in entries : \A b \in entries \ {a} : Before(b, a)

After(c, n) == FirstOf({m \in children[c] : Before(n, m)})

(* Slip: a child steps back into the entries of the first one. *)
AheadInFirst(c, n) == LastOf({m \in children[1] : Before(m, n)})

Ahead(c, n) == LastOf({m \in children[c] : Before(m, n)})

----------------------------------------------------------------------------
(* MergingIterator. *)

Current(m) == IF m.current = 0 THEN 0 ELSE m.pos[m.current]

(* FindSmallest and FindLargest make current_ the child with the outermost *)
(* of the valid positions.                                                 *)
Pointed(pos, n) == IF n = 0 THEN 0 ELSE CHOOSE c \in Child : pos[c] = n

FindSmallest(pos) ==
  [pos |-> pos, forward |-> TRUE,
   current |-> Pointed(pos, FirstOf({pos[c] : c \in Child} \ {0}))]
FindLargest(pos) ==
  [pos |-> pos, forward |-> FALSE,
   current |-> Pointed(pos, LastOf({pos[c] : c \in Child} \ {0}))]

MergerFirst == FindSmallest([c \in Child |-> FirstOf(children[c])])
MergerLast == FindLargest([c \in Child |-> LastOf(children[c])])

(* Seek to the internal key of a user key and what may be seen of it. *)
MergerSeek(key) ==
  FindSmallest([c \in Child |->
    FirstOf({n \in children[c] : KeyOf(n) > key \/ (KeyOf(n) = key /\ n <= sequence)})])

(* The other children are put behind the current entry first, if the       *)
(* iterator comes from the other direction.                                *)
MergerNext(m) ==
  FindSmallest([c \in Child |-> IF c = m.current \/ ~m.forward THEN After(c, Current(m)) ELSE m.pos[c]])

MergerPrev(m) ==
  FindLargest([c \in Child |-> IF c = m.current THEN Ahead(c, Current(m)) ELSE m.pos[c]])

(* To go back, the other children are first put behind the current entry,  *)
(* and then all of them step back, or to their ends where they found none. *)
OthersSought(m) ==
  [m EXCEPT !.pos = [c \in Child |-> IF c = m.current THEN @[c] ELSE After(c, Current(m))]]

(* Slip: a child that found none behind the current entry stays nowhere. *)
TurnedOnlyFound(m) ==
  FindLargest([c \in Child |-> IF m.pos[c] = 0 THEN 0 ELSE Ahead(c, m.pos[c])])

(* A child steps back to an entry that was inserted behind the current one *)
(* meanwhile, if there is one.                                             *)
Turned(m) ==
  FindLargest([c \in Child |-> IF m.pos[c] = 0 THEN LastOf(children[c]) ELSE Ahead(c, m.pos[c])])

----------------------------------------------------------------------------
(* What the caller should see: the keys whose last visible entry is a      *)
(* value, in order.                                                        *)

Visible(n) == n <= sequence

LastWrite(key) ==
  LET seen == {n \in DOMAIN written : KeyOf(n) = key /\ Visible(n)}
  IN IF seen = {} THEN 0 ELSE Max(seen)

Present == {key \in UserKey : LastWrite(key) # 0 /\ ~written[LastWrite(key)].delete}

Lowest(keys) == IF keys = {} THEN 0 ELSE Min(keys)
Highest(keys) == IF keys = {} THEN 0 ELSE Max(keys)

----------------------------------------------------------------------------
(* DBIter: the calls of its user, up to their loops. *)

Called(target) ==
  /\ call = "none" /\ at' = target
  /\ UNCHANGED <<written, children, sequence>>

(* skip: the key to skip past, 0 if none. *)
Forwards(m, skip) ==
  /\ call' = "next" /\ merger' = m
  /\ iter' = [iter EXCEPT !.forward = TRUE, !.key = skip, !.value = 0]

(* The key and value of what it has found, 0 while that is a deletion. *)
Backwards(m) ==
  /\ call' = "prev" /\ merger' = m
  /\ iter' = [iter EXCEPT !.forward = FALSE, !.key = 0, !.value = 0]

SeekToFirst == Called(Lowest(Present)) /\ Forwards(MergerFirst, 0)
SeekToLast == Called(Highest(Present)) /\ Backwards(MergerLast)
Seek(key) == Called(Lowest({k \in Present : k >= key})) /\ Forwards(MergerSeek(key), 0)

(* Next, from an entry of the key it shows, or from before all of them.    *)
(* Next and Prev may only be called on a valid iterator.                   *)
Forth ==
  /\ iter.valid /\ Called(Lowest({k \in Present : k > at}))
  /\ IF iter.forward THEN Forwards(merger, KeyOf(Current(merger)))
     ELSE Forwards(IF Current(merger) = 0 THEN MergerFirst ELSE MergerNext(merger), iter.key)

(* Prev.  The merger turns with the iterator. *)
Back ==
  /\ iter.valid /\ Called(Highest({k \in Present : k < at}))
  /\ IF iter.forward
     THEN /\ call' = "turn" /\ merger' = OthersSought(merger)
          /\ iter' = [iter EXCEPT !.key = KeyOf(Current(merger))]
     ELSE Backwards(merger)

----------------------------------------------------------------------------
(* DBIter: one pass of a loop. *)

Ends ==
  /\ call' = "none" /\ UNCHANGED merger
  /\ iter' = [valid |-> FALSE, forward |-> TRUE, key |-> 0, value |-> 0]

Shows(fields) == call' = "none" /\ UNCHANGED merger /\ iter' = fields

(* Skips what the iterator may not see, deletions, and all entries of keys *)
(* up to the saved one, those a deletion hides among them.                 *)
FindNextUserEntry ==
  /\ call = "next" /\ UNCHANGED <<written, children, sequence, at>>
  /\ LET n == Current(merger)
         shown == Visible(n) /\ ~written[n].delete /\ KeyOf(n) > iter.key
     IN \/ n = 0 /\ Ends
        \/ n # 0 /\ shown /\ Shows([iter EXCEPT !.valid = TRUE, !.key = 0])
        \/ /\ n # 0 /\ ~shown /\ merger' = MergerNext(merger)
           /\ iter' = [iter EXCEPT !.key = IF Visible(n) /\ written[n].delete THEN KeyOf(n) ELSE @]
           /\ UNCHANGED call

(* Back until the key changes. *)
TurnRound ==
  /\ call = "turn" /\ UNCHANGED <<written, children, sequence, at>>
  /\ LET n == Current(merger)
     IN \/ merger.forward /\ merger' = Turned(merger) /\ UNCHANGED <<call, iter>>
        \/ ~merger.forward /\ n = 0 /\ Ends
        \/ ~merger.forward /\ n # 0 /\ KeyOf(n) < iter.key /\ Backwards(merger)
        \/ /\ ~merger.forward /\ n # 0 /\ KeyOf(n) >= iter.key
           /\ merger' = MergerPrev(merger) /\ UNCHANGED <<call, iter>>

(* Goes back over all entries of a key, from the oldest to the newest, and *)
(* keeps the last it may see; stops in front of them if that is a value.   *)
FindPrevUserEntry ==
  /\ call = "prev" /\ UNCHANGED <<written, children, sequence, at>>
  /\ LET n == Current(merger)
         past == Visible(n) /\ iter.value # 0 /\ KeyOf(n) < iter.key
     IN \/ n = 0 /\ iter.value = 0 /\ Ends
        \/ n = 0 /\ iter.value # 0 /\ Shows([iter EXCEPT !.valid = TRUE])
        \/ n # 0 /\ past /\ Shows([iter EXCEPT !.valid = TRUE])
        \/ /\ n # 0 /\ ~past /\ merger' = MergerPrev(merger) /\ UNCHANGED call
           /\ iter' = IF ~Visible(n) THEN iter
                      ELSE IF written[n].delete THEN [iter EXCEPT !.key = 0, !.value = 0]
                      ELSE [iter EXCEPT !.key = KeyOf(n), !.value = n]

----------------------------------------------------------------------------
(* A writer inserts into the memtable, with a new sequence number. *)
SkipListInsert(entry) ==
  /\ Cardinality(DOMAIN written) < MaxEntries + MaxInserts
  /\ LET n == Cardinality(DOMAIN written) + 1
     IN /\ written' = [m \in 1..n |-> IF m = n THEN entry ELSE written[m]]
        /\ children' = [children EXCEPT ![1] = @ \union {n}]
  /\ UNCHANGED <<sequence, merger, iter, call, at>>

Said == [key : UserKey, delete : BOOLEAN]

(* Any entries, in any of the children, and a snapshot not far behind. *)
IteratorInit ==
  /\ \E n \in 1..MaxEntries :
       /\ written \in [1..n -> Said]
       /\ \E place \in [1..n -> Child] : children = [c \in Child |-> {m \in 1..n : place[m] = c}]
       /\ sequence \in {n - 1, n}
  /\ merger = [pos |-> [c \in Child |-> 0], current |-> 0, forward |-> TRUE]
  /\ iter = [valid |-> FALSE, forward |-> TRUE, key |-> 0, value |-> 0]
  /\ call = "none" /\ at = 0

IteratorNext ==
  \/ SeekToFirst \/ SeekToLast \/ \E key \in UserKey : Seek(key)
  \/ Forth \/ Back
  \/ FindNextUserEntry \/ TurnRound \/ FindPrevUserEntry
  \/ \E entry \in Said : SkipListInsert(entry)

IteratorSpec == IteratorInit /\ [][IteratorNext]_iteratorVars

----------------------------------------------------------------------------
(* Every part of the state has its shape, and each child is at an entry of *)
(* its own.                                                                *)
IteratorTypeOK ==
  /\ written \in [DOMAIN written -> Said]
  /\ \A c \in Child : merger.pos[c] \in children[c] \union {0}
  /\ merger.current \in Child \union {0} /\ merger.forward \in BOOLEAN
  /\ iter \in [valid : BOOLEAN, forward : BOOLEAN, key : UserKey \union {0},
               value : DOMAIN written \union {0}]
  /\ call \in {"none", "next", "turn", "prev"} /\ at \in UserKey \union {0}

(* However the caller goes back and forth, and whatever is inserted        *)
(* meanwhile, between two calls or in the middle of one, a call leaves the *)
(* iterator at the key where a walk over the snapshot would be, with its   *)
(* last value.                                                             *)
CursorRight ==
  call = "none" =>
    /\ iter.valid <=> at # 0
    /\ iter.valid => IF iter.forward
                     THEN KeyOf(Current(merger)) = at /\ Current(merger) = LastWrite(at)
                     ELSE iter.key = at /\ iter.value = LastWrite(at)
=============================================================================
