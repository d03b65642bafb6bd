------------------------- MODULE LevelDBWritesProofs -------------------------
(***************************************************************************)
(* Proofs about LevelDBWrites: no file that is needed is thrown away, no   *)
(* number is given twice, and nobody waits for a signal that will not come *)
(* (the invariant IInv); then that it implements DurableStore (RInv).      *)
(*                                                                         *)
(* The second half gives every writer one number, N[w], that all batches,  *)
(* memtables, logs and tables with its entry agree on.  With it the store  *)
(* is a set of writers, and each step is proved from what it moves between *)
(* the memtable, imm, the logs and the tables.  The numbers of a group are *)
(* settled when it is formed, so that N may change in that step only.      *)
(***************************************************************************)
EXTENDS LevelDBWrites, FiniteSetTheorems, SequenceTheorems, TLAPS

(* The shape of the state. *)

Batches == UNION {[S -> Nat \ {0}] : S \in SUBSET (Writer \ Compact)}

Records == [batch : Batches, synced : BOOLEAN]

Versions == [last : Nat, next : Nat, log : Nat, l0 : SUBSET Nat, l1 : SUBSET Nat]

Edits == [add0 : SUBSET Nat, add1 : SUBSET Nat, gone : SUBSET Nat, log : Nat, next : Nat, last : Nat]

Calls == [scheduled : BOOLEAN, error : BOOLEAN, flush : {"none", "build", "write", "install"},
          merge : {"none", "scan", "output", "write", "install"},
          table : Nat, inputs : SUBSET Nat, output : Nat, edit : Edits]

(* f maps some numbers to elements of T. *)
Maps(f, T) == f = [n \in DOMAIN f |-> f[n]] /\ DOMAIN f \subseteq Nat /\ \A n \in DOMAIN f : f[n] \in T

Writing == {"logging", "syncing", "applying", "failing", "unsure"}

Running == {"head", "asleep"} \union Writing

Outside == {"idle", "ok", "error", "gone"}

DiskOK ==
  /\ disk = [logs |-> disk.logs, tables |-> disk.tables, manifest |-> disk.manifest]
  /\ disk.logs = [n \in DOMAIN disk.logs |-> disk.logs[n]] /\ DOMAIN disk.logs \subseteq Nat
  /\ \A n \in DOMAIN disk.logs : Maps(disk.logs[n], Records)
  /\ Maps(disk.tables, Batches)
  /\ disk.manifest \in Versions

ShapeOK ==
  /\ pc \in [Writer -> Running \union Outside \union {"parked", "await", "flushing"}]
  /\ queue \in Seq(Writer)
  /\ group \in [size : Nat, batch : Batches]
  /\ mem \in Batches /\ (imm = None \/ imm \in Batches)
  /\ logfile \in Nat /\ versions \in Versions /\ bg \in Calls
  /\ DiskOK
  /\ phase \in {"open", "closing", "down", "recovering", "recovered", "saved"}
  /\ unread \subseteq DOMAIN disk.logs

(* The first of the queue runs, the others wait for their turn, and nobody *)
(* else is in DBImpl::Write.  Its group is a beginning of the queue.       *)
QueueRight ==
  /\ \A i \in DOMAIN queue : IF i = 1 THEN pc[queue[i]] \in Running ELSE pc[queue[i]] = "parked"
  /\ \A i, j \in DOMAIN queue : queue[i] = queue[j] => i = j
  /\ \A w \in Writer : pc[w] \in Running \union {"parked"} => \E i \in DOMAIN queue : queue[i] = w
  /\ IF \E w \in Writer : pc[w] \in Writing THEN group.size \in 1..Len(queue) ELSE group.size = 0
  /\ phase # "open" => \A w \in Writer : pc[w] \in Outside

(* Whoever sleeps has a call of the background coming, and so does the     *)
(* work there is to do, unless an error has stopped it.                    *)
CallsRight ==
  /\ (\E w \in Writer : pc[w] \in {"asleep", "flushing"}) => bg.scheduled
  /\ InCall => bg.scheduled
  /\ phase = "open" /\ ~bg.error /\ (imm # None \/ Cardinality(versions.l0) >= L0Trigger) => bg.scheduled
  /\ phase \notin {"open", "closing"} => ~bg.scheduled /\ ~bg.error /\ imm = None

(* The numbers of files that have been given away. *)
Given == 1..(versions.next - 1)

TablesRight ==
  /\ disk.manifest.l0 \union disk.manifest.l1 \subseteq DOMAIN disk.tables
  /\ disk.manifest.l0 \union disk.manifest.l1 \subseteq 1..(disk.manifest.next - 1)
  /\ disk.manifest.log < disk.manifest.next
  /\ phase # "down" => Tables \subseteq DOMAIN disk.tables \intersect Given /\ disk.manifest.next <= versions.next
  /\ phase = "down" => Tables = {}

LogsRight ==
  /\ phase = "recovering" => unread \subseteq LogsFrom(versions.log) /\ versions.log < versions.next
  /\ phase # "down" => LogsFrom(versions.log) \ unread \subseteq 0..(versions.next - 1)
  /\ phase # "recovering" => unread = {}
  /\ phase \notin {"down", "recovering"} =>
       /\ versions.log <= logfile /\ logfile < versions.next
       /\ logfile \in DOMAIN disk.logs /\ disk.logs[logfile] \in Seq(Records)

(* What the background thread works on is there, and its numbers are its own. *)
WorkRight ==
  /\ bg.flush # "none" => imm # None /\ bg.merge \in {"none", "scan", "output"} /\ bg.table \in Given \ Tables
  /\ bg.flush # "none" /\ bg.merge = "output" => bg.table # bg.output
  /\ bg.inputs \subseteq IF bg.merge = "none" THEN {} ELSE Tables
  /\ bg.merge \in {"output", "write", "install"} =>
       /\ bg.output \in {0} \union (Given \intersect DOMAIN disk.tables)
       /\ bg.output \notin Tables
  /\ bg.merge = "output" => bg.output # 0

(* An edit is being written to the manifest, or is about to be installed. *)
Editing ==
  bg.flush \in {"write", "install"} \/ bg.merge \in {"write", "install"} \/ phase \in {"recovered", "saved"}

EditRight ==
  /\ phase = "recovering" => /\ bg.edit.add0 \subseteq DOMAIN disk.tables \intersect Given
  /\ Editing =>
       /\ bg.edit.add0 \union bg.edit.add1 \subseteq DOMAIN disk.tables \intersect (1..(bg.edit.next - 1))
       /\ bg.edit.next <= versions.next /\ disk.manifest.next <= bg.edit.next
       /\ versions.log <= bg.edit.log /\ bg.edit.log <= logfile /\ bg.edit.log < bg.edit.next
  /\ bg.flush \in {"write", "install"} => bg.edit.add0 \subseteq {bg.table} /\ bg.edit.add1 = {} /\ bg.edit.gone = {}

(* The edit is in the manifest and not yet in the version in use. *)
Ahead == bg.flush = "install" \/ bg.merge = "install" \/ phase = "saved"

(* Without an error, the manifest says what the version in use is. *)
ManifestRight ==
  phase # "down" /\ ~bg.error =>
    LET v == IF Ahead THEN Edited(versions, bg.edit) ELSE versions
    IN disk.manifest.l0 = v.l0 /\ disk.manifest.l1 = v.l1 /\ disk.manifest.log = v.log

IInv ==
  /\ ShapeOK /\ QueueRight /\ CallsRight
  /\ TablesRight /\ LogsRight /\ WorkRight /\ EditRight /\ ManifestRight

FilesRight == TablesRight /\ LogsRight /\ WorkRight /\ EditRight /\ ManifestRight

-------------------------------------------------------------------------------
(* Batches. *)

LEMMA BatchShape ==
  \A f : f \in Batches <=> /\ f = [w \in DOMAIN f |-> f[w]] /\ DOMAIN f \subseteq Writer \ Compact
                           /\ \A w \in DOMAIN f : f[w] \in Nat \ {0}
<1>1. ASSUME NEW f, f \in Batches
      PROVE  /\ f = [w \in DOMAIN f |-> f[w]] /\ DOMAIN f \subseteq Writer \ Compact
             /\ \A w \in DOMAIN f : f[w] \in Nat \ {0}
  <2>1. PICK S \in SUBSET (Writer \ Compact) : f \in [S -> Nat \ {0}]
    BY <1>1 DEF Batches
  <2> QED BY <2>1
<1>2. ASSUME NEW f, f = [w \in DOMAIN f |-> f[w]], DOMAIN f \subseteq Writer \ Compact,
             \A w \in DOMAIN f : f[w] \in Nat \ {0}
      PROVE  f \in Batches
  <2>1. f \in [DOMAIN f -> Nat \ {0}] /\ DOMAIN f \in SUBSET (Writer \ Compact)
    BY <1>2
  <2> QED BY <2>1 DEF Batches
<1> QED BY <1>1, <1>2

LEMMA NothingBatch == Nothing \in Batches
<1>1. Nothing = [w \in DOMAIN Nothing |-> Nothing[w]] /\ DOMAIN Nothing = {}
  BY DEF Nothing
<1> QED BY <1>1, BatchShape

(* What is made of batches is a batch. *)
LEMMA EntriesBatch ==
  ASSUME NEW fs \in SUBSET Batches
  PROVE  Entries(fs) \in Batches
<1> DEFINE e == Entries(fs)
<1>1. e = [w \in DOMAIN e |-> e[w]] /\ DOMAIN e = UNION {DOMAIN f : f \in fs}
      /\ \A w \in DOMAIN e : e[w] = (CHOOSE f \in fs : w \in DOMAIN f)[w]
  BY DEF Entries
<1>2. ASSUME NEW w \in DOMAIN e PROVE w \in Writer \ Compact /\ e[w] \in Nat \ {0}
  <2> DEFINE g == CHOOSE f \in fs : w \in DOMAIN f
  <2>1. g \in fs /\ w \in DOMAIN g
    BY <1>1
  <2>2. e[w] = g[w]
    BY <1>1
  <2> HIDE DEF g
  <2> QED BY <2>1, <2>2, BatchShape
<1> HIDE DEF e
<1>3. e \in Batches
  BY <1>1, <1>2, BatchShape
<1> QED BY <1>3 DEF e

-------------------------------------------------------------------------------
(* Greatest numbers. *)

LEMMA MaxPair ==
  ASSUME NEW a \in Nat, NEW b \in Nat
  PROVE  Max({a, b}) \in {a, b} /\ Max({a, b}) >= a /\ Max({a, b}) >= b
<1>1. \E x \in {a, b} : \A y \in {a, b} : x >= y
  OBVIOUS
<1> QED BY <1>1 DEF Max

(* A finite set of numbers has a greatest one: a smallest set without one  *)
(* would still have none with one element less.                            *)
LEMMA FiniteMax ==
  ASSUME NEW S \in SUBSET Nat, IsFiniteSet(S), S # {}
  PROVE  Max(S) \in S /\ \A y \in S : Max(S) >= y
<1> DEFINE Without == {T \in FiniteSubsetsOf(S) : T # {} /\ ~\E x \in T : \A y \in T : x >= y}
<1>1. Without = {}
  <2> SUFFICES ASSUME Without # {} PROVE FALSE
    OBVIOUS
  <2>1. PICK T \in Without : \A U \in Without : <<U, T>> \notin StrictSubsetOrdering(S)
    <3>1. IsWellFoundedOn(StrictSubsetOrdering(S), FiniteSubsetsOf(S))
      BY FS_StrictSubsetOrderingWellFounded
    <3>2. Without \subseteq FiniteSubsetsOf(S)
      OBVIOUS
    <3> HIDE DEF Without
    <3> QED BY <3>1, <3>2, WFMin
  <2>2. T \subseteq S /\ IsFiniteSet(T) /\ T # {} /\ ~\E x \in T : \A y \in T : x >= y
    BY DEF FiniteSubsetsOf
  <2>3. PICK x : x \in T
    BY <2>2
  <2>4. T \ {x} \in FiniteSubsetsOf(S)
    BY <2>2, FS_RemoveElement DEF FiniteSubsetsOf
  <2>5. <<T \ {x}, T>> \in StrictSubsetOrdering(S)
    BY <2>2, <2>3 DEF StrictSubsetOrdering
  <2>6. T \ {x} # {}
    BY <2>2, <2>3
  <2>7. PICK m \in T \ {x} : \A y \in T \ {x} : m >= y
    BY <2>1, <2>4, <2>5, <2>6
  <2>8. m \in Nat /\ x \in Nat /\ T \subseteq Nat
    BY <2>2, <2>3
  <2>9. CASE m >= x
    BY <2>2, <2>7, <2>8, <2>9
  <2>10. CASE x >= m
    <3>1. \A y \in T : x >= y
      BY <2>7, <2>8, <2>10
    <3> QED BY <2>2, <2>3, <3>1
  <2> QED BY <2>8, <2>9, <2>10
<1>2. S \in FiniteSubsetsOf(S)
  BY DEF FiniteSubsetsOf
<1>3. \E x \in S : \A y \in S : x >= y
  BY <1>1, <1>2
<1> QED BY <1>3 DEF Max

LEMMA MaxNumber ==
  ASSUME NEW v \in Nat, NEW b \in Batches
  PROVE  /\ Max({v} \union Seqs(b)) \in Nat /\ Max({v} \union Seqs(b)) >= v
         /\ \A w \in DOMAIN b : b[w] <= Max({v} \union Seqs(b))
<1>1. DOMAIN b \subseteq Writer \ Compact /\ \A w \in DOMAIN b : b[w] \in Nat
  BY BatchShape
<1>2. IsFiniteSet(DOMAIN b)
  BY <1>1, WritersAssumption, FS_Subset
<1>3. IsFiniteSet(Seqs(b))
  <2> DEFINE f == [w \in DOMAIN b |-> b[w]]
  <2>1. f \in Surjection(DOMAIN b, Seqs(b))
    BY DEF Surjection, Seqs
  <2> HIDE DEF f
  <2> QED BY <1>2, <2>1, FS_Surjection
<1>4. IsFiniteSet({v} \union Seqs(b))
  <2>1. IsFiniteSet(Seqs(b) \union {v})
    BY <1>3, FS_AddElement
  <2>2. Seqs(b) \union {v} = {v} \union Seqs(b)
    OBVIOUS
  <2> QED BY <2>1, <2>2
<1>5. {v} \union Seqs(b) \in SUBSET Nat /\ {v} \union Seqs(b) # {}
  BY <1>1 DEF Seqs
<1>6. /\ Max({v} \union Seqs(b)) \in Nat
      /\ \A y \in {v} \union Seqs(b) : Max({v} \union Seqs(b)) >= y
  BY <1>4, <1>5, FiniteMax
<1>7. \A w \in DOMAIN b : b[w] \in {v} \union Seqs(b)
  BY DEF Seqs
<1>8. \A w \in DOMAIN b : b[w] <= Max({v} \union Seqs(b))
  <2> SUFFICES ASSUME NEW w \in DOMAIN b PROVE b[w] <= Max({v} \union Seqs(b))
    OBVIOUS
  <2>1. b[w] \in Nat /\ Max({v} \union Seqs(b)) >= b[w]
    BY <1>1, <1>6, <1>7
  <2> QED BY <1>6, <2>1
<1> QED BY <1>6, <1>8

-------------------------------------------------------------------------------
(* The queue of the writers. *)

States == Running \union Outside \union {"parked", "await", "flushing"}

(* The head is always part of its group. *)
LEMMA GroupFacts ==
  ASSUME ShapeOK, queue # <<>>
  PROVE  GroupSize \in 1..Len(queue)
<1> DEFINE S == {n \in 1..Len(queue) : \A i \in 2..n : Joins(i)}
<1>1. Len(queue) \in Nat \ {0}
  BY LenProperties, EmptySeq DEF ShapeOK
<1>2. IsFiniteSet(1..Len(queue)) /\ Cardinality(1..Len(queue)) = Len(queue)
  BY <1>1, FS_Interval
<1>3. IsFiniteSet(S) /\ Cardinality(S) <= Len(queue) /\ Cardinality(S) \in Nat
  <2>1. S \in SUBSET (1..Len(queue))
    OBVIOUS
  <2> HIDE DEF S
  <2> QED BY <1>2, <2>1, FS_Subset, FS_CardinalityType
<1>4. 1 \in S
  BY <1>1
<1>5. Cardinality(S) # 0
  BY <1>3, <1>4, FS_EmptySet
<1>6. Cardinality(S) \in 1..Len(queue)
  <2> HIDE DEF S
  <2> QED BY <1>1, <1>3, <1>5
<1> QED BY <1>6 DEF GroupSize

(* Its entries get numbers that are not used. *)
LEMMA NumberedBatch ==
  ASSUME ShapeOK, NEW n \in 1..Len(queue)
  PROVE  Numbered(n) \in Batches
<1> DEFINE B(w) == {i \in 1..n : /\ queue[i] \notin Compact /\ \E j \in (i + 1)..n : queue[j] = w}
           b == Numbered(n)
<1>1. ASSUME NEW w PROVE Cardinality(B(w)) \in Nat
  <2>1. n \in Int /\ B(w) \in SUBSET (1..n)
    BY LenProperties DEF ShapeOK
  <2> HIDE DEF B
  <2>2. IsFiniteSet(1..n)
    BY <2>1, FS_Interval
  <2>3. IsFiniteSet(B(w))
    BY <2>1, <2>2, FS_Subset
  <2> QED BY <2>3, FS_CardinalityType
<1>2. /\ b = [w \in DOMAIN b |-> b[w]] /\ DOMAIN b = {queue[i] : i \in 1..n} \ Compact
      /\ \A w \in DOMAIN b : b[w] = versions.last + 1 + Cardinality(B(w))
  BY DEF Numbered
<1>3. versions.last \in Nat
  BY DEF ShapeOK, Versions
<1>4. \A i \in 1..n : queue[i] \in Writer
  BY LenProperties, ElementOfSeq DEF ShapeOK
<1> HIDE DEF b, B
<1>5. b \in Batches
  <2>1. DOMAIN b \subseteq Writer \ Compact
    BY <1>2, <1>4
  <2>2. \A w \in DOMAIN b : b[w] \in Nat \ {0}
    BY <1>1, <1>2, <1>3
  <2> QED BY <1>2, <2>1, <2>2, BatchShape
<1> QED BY <1>5 DEF b

(* Those who sleep go on. *)
WakesOnly(p) ==
  /\ p \in [Writer -> States]
  /\ \A w \in Writer : \/ p[w] = pc[w]
                       \/ pc[w] = "asleep" /\ p[w] = "head"
                       \/ pc[w] = "flushing" /\ p[w] = "await"

LEMMA WokenFacts ==
  ASSUME ShapeOK
  PROVE  WakesOnly(pc) /\ WakesOnly(Woken(pc)) /\ \A w \in Writer : Woken(pc)[w] \notin {"asleep", "flushing"}
BY DEF ShapeOK, States, WakesOnly, Woken, Running, Outside, Writing

LEMMA WakingKeepsQueue ==
  ASSUME ShapeOK, QueueRight, WakesOnly(pc'), UNCHANGED <<queue, group, phase>>
  PROVE  QueueRight'
<1>1. \A i \in DOMAIN queue : queue[i] \in Writer
  BY LenProperties, ElementOfSeq DEF ShapeOK
<1>2. \A w \in Writer : /\ pc'[w] \in Running <=> pc[w] \in Running
                        /\ pc'[w] = "parked" <=> pc[w] = "parked"
                        /\ pc'[w] \in Writing <=> pc[w] \in Writing
                        /\ pc[w] \in Outside => pc'[w] \in Outside
  BY DEF WakesOnly, Running, Writing, Outside
<1> QED BY <1>1, <1>2 DEF QueueRight

(* A group leaves the queue, and the next writer is its head. *)
LEMMA LeaveKeeps ==
  ASSUME ShapeOK, QueueRight, phase = "open", UNCHANGED phase, NEW n \in 1..Len(queue),
         NEW p, WakesOnly(p), NEW answer \in {"ok", "error"}, Leave(p, n, answer), group'.size = 0
  PROVE  /\ queue' \in Seq(Writer) /\ pc' \in [Writer -> States] /\ QueueRight'
         /\ \A w \in Writer : pc'[w] \in {"asleep", "flushing"} => pc[w] = pc'[w] /\ p[w] = pc'[w]
<1> DEFINE L == Len(queue)
<1>1. L \in Nat /\ DOMAIN queue = 1..L /\ n \in Nat /\ n <= L
  BY LenProperties DEF ShapeOK
<1>2. /\ queue' \in Seq(Writer) /\ Len(queue') = L - n /\ DOMAIN queue' = 1..(L - n)
      /\ \A i \in DOMAIN queue' : i + n \in DOMAIN queue /\ queue'[i] = queue[i + n] /\ queue'[i] \in Writer
  <2>1. queue' = SubSeq(queue, n + 1, L)
    BY Zenon DEF Leave
  <2>2. queue' \in Seq(Writer) /\ Len(queue') = L - n /\ \A i \in 1..(L - n) : queue'[i] = queue[i + n]
    <3>1. n + 1 \in Int /\ L \in Int /\ \A i \in (n + 1)..L : queue[i] \in Writer
      BY <1>1, ElementOfSeq DEF ShapeOK
    <3>2. /\ SubSeq(queue, n + 1, L) \in Seq(Writer)
          /\ Len(SubSeq(queue, n + 1, L)) = IF n + 1 <= L THEN L - (n + 1) + 1 ELSE 0
          /\ \A i \in 1..(L - (n + 1) + 1) : SubSeq(queue, n + 1, L)[i] = queue[n + 1 + i - 1]
      BY <3>1, SubSeqProperties
    <3>3. (IF n + 1 <= L THEN L - (n + 1) + 1 ELSE 0) = L - n /\ L - (n + 1) + 1 = L - n
      <4>1. \A a, b \in Nat :
              b <= a => (IF b + 1 <= a THEN a - (b + 1) + 1 ELSE 0) = a - b /\ a - (b + 1) + 1 = a - b
        OBVIOUS
      <4> HIDE DEF L
      <4> QED BY <1>1, <4>1
    <3>4. \A i \in 1..(L - n) : n + 1 + i - 1 = i + n
      BY <1>1
    <3> QED BY Zenon, <2>1, <3>2, <3>3, <3>4
  <2> QED BY <1>1, <2>2, LenProperties, ElementOfSeq
<1>3. pc' = [w \in Writer |->
               IF \E i \in 1..n : queue[i] = w THEN IF w \in Compact /\ answer = "ok" THEN "await" ELSE answer
               ELSE IF n < L /\ w = queue[n + 1] THEN "head" ELSE p[w]]
  <2>1. queue' # <<>> <=> n < L
    BY <1>1, <1>2
  <2>2. n < L => queue'[1] = queue[n + 1]
    BY <1>1, <1>2
  <2> QED BY <2>1, <2>2 DEF Leave, Answered
<1>4. pc' \in [Writer -> States]
  BY <1>3 DEF WakesOnly, States, Running, Outside
<1>5. \A i, j \in DOMAIN queue : queue[i] = queue[j] => i = j
  BY DEF QueueRight
<1>6. ASSUME NEW i \in DOMAIN queue'
      PROVE  IF i = 1 THEN pc'[queue'[i]] \in Running ELSE pc'[queue'[i]] = "parked"
  <2> DEFINE w == queue'[i]
  <2>1. i + n \in DOMAIN queue /\ w = queue[i + n] /\ w \in Writer /\ i \in Nat /\ i > 0
    BY <1>2
  <2>2. ~\E j \in 1..n : queue[j] = w
    BY <1>1, <1>5, <2>1
  <2>3. CASE i = 1
    BY <1>1, <1>3, <2>1, <2>2, <2>3 DEF Running
  <2>4. CASE i # 1
    <3>1. w # queue[n + 1]
      BY <1>1, <1>5, <2>1, <2>4
    <3>2. pc[w] = "parked"
      BY <1>1, <2>1 DEF QueueRight
    <3> QED BY <1>3, <2>1, <2>2, <2>4, <3>1, <3>2 DEF WakesOnly
  <2> QED BY <2>3, <2>4
<1>7. \A i, j \in DOMAIN queue' : queue'[i] = queue'[j] => i = j
  <2>1. ASSUME NEW i \in DOMAIN queue', NEW j \in DOMAIN queue', queue'[i] = queue'[j] PROVE i = j
    <3>1. i + n = j + n
      BY <1>2, <1>5, <2>1
    <3> QED BY <1>1, <1>2, <3>1
  <2> QED BY <2>1
<1>8. ASSUME NEW w \in Writer, pc'[w] \in Running \union {"parked"}
      PROVE  ~(\E i \in 1..n : queue[i] = w) /\ \E i \in DOMAIN queue' : queue'[i] = w
  <2>1. ~\E i \in 1..n : queue[i] = w
    BY <1>3, <1>8 DEF Running, Writing
  <2>2. CASE n < L /\ w = queue[n + 1]
    <3>1. 1 \in DOMAIN queue' /\ queue'[1] = queue[n + 1]
      BY <1>1, <1>2, <2>2
    <3> QED BY <2>1, <2>2, <3>1
  <2>3. CASE ~(n < L /\ w = queue[n + 1])
    <3>1. pc'[w] = p[w]
      BY <1>3, <2>1, <2>3
    <3>2. pc[w] \in Running \union {"parked"}
      BY <1>8, <3>1 DEF WakesOnly, Running, Writing
    <3>3. PICK i \in DOMAIN queue : queue[i] = w
      BY <3>2 DEF QueueRight
    <3>4. i \notin 1..n
      BY <2>1, <3>3
    <3>5. i - n \in DOMAIN queue' /\ (i - n) + n = i
      BY <1>1, <1>2, <3>4
    <3> QED BY <1>2, <2>1, <3>3, <3>5
  <2> QED BY <2>2, <2>3
<1>9. \A w \in Writer : pc'[w] \notin Writing
  <2> SUFFICES ASSUME NEW w \in Writer, pc'[w] \in Writing PROVE FALSE
    OBVIOUS
  <2>1. ~\E i \in 1..n : queue[i] = w
    BY <1>8 DEF Running
  <2>2. pc'[w] = p[w]
    BY <1>3, <2>1 DEF Writing
  <2>3. pc[w] \in Writing
    BY <2>2 DEF WakesOnly, Writing
  <2>4. PICK i \in DOMAIN queue : queue[i] = w
    BY <2>3 DEF QueueRight, Running
  <2>5. i = 1
    BY <2>3, <2>4 DEF QueueRight, Writing
  <2> QED BY <1>1, <2>1, <2>4, <2>5
<1>10. QueueRight'
  BY <1>6, <1>7, <1>8, <1>9 DEF QueueRight
<1>11. \A w \in Writer : pc'[w] \in {"asleep", "flushing"} => pc[w] = pc'[w] /\ p[w] = pc'[w]
  BY <1>3 DEF WakesOnly
<1> QED BY <1>2, <1>4, <1>10, <1>11

(* Whoever runs is the head of the queue, and the only one to run. *)
LEMMA HeadFacts ==
  ASSUME ShapeOK, QueueRight, NEW w \in Writer, pc[w] \in Running
  PROVE  /\ phase = "open" /\ queue # <<>> /\ Len(queue) \in Nat \ {0}
         /\ DOMAIN queue = 1..Len(queue) /\ 1 \in DOMAIN queue /\ queue[1] = w
         /\ \A v \in Writer : pc[v] \in Running => v = w
         /\ pc[w] \in Writing => group.size \in 1..Len(queue)
         /\ pc[w] \notin Writing => group.size = 0
<1>1. phase = "open"
  BY DEF QueueRight, Outside, Running, Writing
<1>2. \A v \in Writer : pc[v] \in Running => \E i \in DOMAIN queue : queue[i] = v
  BY DEF QueueRight
<1>3. \A i \in DOMAIN queue : pc[queue[i]] \in Running => i = 1
  BY DEF QueueRight, Running, Writing
<1>4. 1 \in DOMAIN queue /\ \A v \in Writer : pc[v] \in Running => queue[1] = v
  BY <1>2, <1>3
<1>5. Len(queue) \in Nat \ {0} /\ DOMAIN queue = 1..Len(queue) /\ queue # <<>>
  BY <1>4, LenProperties, EmptySeq DEF ShapeOK
<1>6. \A v \in Writer : pc[v] \in Running => v = w
  BY <1>4
<1>7. pc[w] \in Writing => group.size \in 1..Len(queue)
  BY DEF QueueRight
<1>8. pc[w] \notin Writing => group.size = 0
  BY <1>6 DEF QueueRight, Running
<1> QED BY <1>1, <1>4, <1>5, <1>6, <1>7, <1>8

LEMMA HeadMoves ==
  ASSUME ShapeOK, QueueRight, NEW w \in Writer, pc[w] \in Running, NEW st \in Running,
         pc' = [pc EXCEPT ![w] = st], UNCHANGED <<queue, phase>>,
         IF st \in Writing THEN group'.size \in 1..Len(queue) ELSE group'.size = 0
  PROVE  /\ pc' \in [Writer -> States] /\ QueueRight'
         /\ \A v \in Writer : pc'[v] \in {"asleep", "flushing"} => pc'[v] = pc[v] \/ (v = w /\ st = "asleep")
<1>1. pc \in [Writer -> States]
  BY DEF ShapeOK, States
<1>2. \A v \in Writer : pc'[v] = IF v = w THEN st ELSE pc[v]
  BY <1>1
<1>3. pc' \in [Writer -> States]
  BY <1>1 DEF States
<1>4. /\ phase = "open" /\ 1 \in DOMAIN queue /\ queue[1] = w
      /\ \A v \in Writer : pc[v] \in Running => v = w
  BY HeadFacts
<1>5. \A i \in DOMAIN queue : queue[i] \in Writer
  BY LenProperties, ElementOfSeq DEF ShapeOK
<1>6. \A i, j \in DOMAIN queue : queue[i] = queue[j] => i = j
  BY DEF QueueRight
<1>7. \A i \in DOMAIN queue : IF i = 1 THEN pc'[queue[i]] \in Running ELSE pc'[queue[i]] = "parked"
  BY <1>2, <1>4, <1>5, <1>6 DEF QueueRight
<1>8. \A v \in Writer : pc'[v] \in Running \union {"parked"} => \E i \in DOMAIN queue : queue[i] = v
  BY <1>2, <1>4 DEF QueueRight
<1>9. (\E v \in Writer : pc'[v] \in Writing) <=> st \in Writing
  BY <1>2, <1>4 DEF Running
<1>10. QueueRight'
  BY <1>4, <1>6, <1>7, <1>8, <1>9 DEF QueueRight
<1>11. \A v \in Writer : pc'[v] \in {"asleep", "flushing"} => pc'[v] = pc[v] \/ (v = w /\ st = "asleep")
  <2>1. st # "flushing"
    BY DEF Running, Writing
  <2> SUFFICES ASSUME NEW v \in Writer, pc'[v] \in {"asleep", "flushing"}
               PROVE  pc'[v] = pc[v] \/ (v = w /\ st = "asleep")
    OBVIOUS
  <2>2. CASE v = w
    BY <1>2, <2>1, <2>2
  <2>3. CASE v # w
    BY <1>2, <2>3
  <2> QED BY <2>2, <2>3
<1> QED BY <1>3, <1>10, <1>11

LEMMA ProceedKeeps ==
  ASSUME ShapeOK, QueueRight, NEW w \in Writer, pc[w] = "head", Proceed(w), UNCHANGED phase
  PROVE  /\ queue' \in Seq(Writer) /\ pc' \in [Writer -> States] /\ QueueRight'
         /\ group' \in [size : Nat, batch : Batches]
         /\ \A v \in Writer : pc'[v] \in {"asleep", "flushing"} => pc'[v] = pc[v]
<1>1. /\ phase = "open" /\ queue # <<>> /\ Len(queue) \in Nat \ {0} /\ group.size = 0
  BY HeadFacts DEF Running, Writing
<1>2. CASE NoBatch(w)
  <2>1. Leave(pc, 1, "ok") /\ group' = group
    BY <1>2 DEF Proceed
  <2>2. 1 \in 1..Len(queue) /\ WakesOnly(pc)
    BY <1>1, WokenFacts
  <2> QED BY <1>1, <2>1, <2>2, LeaveKeeps DEF ShapeOK
<1>3. CASE ~NoBatch(w)
  <2>1. /\ group' = [size |-> GroupSize, batch |-> Numbered(GroupSize)]
        /\ pc' = [pc EXCEPT ![w] = "logging"] /\ queue' = queue
    BY <1>3 DEF Proceed
  <2>2. GroupSize \in 1..Len(queue) /\ Numbered(GroupSize) \in Batches
    BY <1>1, GroupFacts, NumberedBatch
  <2>3. group' \in [size : Nat, batch : Batches] /\ group'.size \in 1..Len(queue)
    BY <1>1, <2>1, <2>2
  <2>4. "logging" \in Running /\ "logging" \in Writing /\ pc[w] \in Running
    BY DEF Running, Writing
  <2> QED BY <2>1, <2>3, <2>4, HeadMoves DEF ShapeOK
<1> QED BY <1>2, <1>3

-------------------------------------------------------------------------------
(* The steps of the writers. *)

LEMMA QuietFiles ==
  ASSUME FilesRight, UNCHANGED <<imm, logfile, versions, bg, disk, phase, unread>>
  PROVE  FilesRight'
<1>1. TablesRight' /\ LogsRight'
  BY DEF FilesRight, TablesRight, LogsRight, Tables, Given, LogsFrom
<1>2. WorkRight'
  BY DEF FilesRight, WorkRight, Tables, Given
<1>3. EditRight' /\ ManifestRight'
  BY DEF FilesRight, EditRight, Editing, ManifestRight, Ahead, Edited, Given
<1> QED BY <1>1, <1>2, <1>3 DEF FilesRight

LEMMA QuietCalls ==
  ASSUME CallsRight, UNCHANGED <<imm, versions, bg, phase>>,
         \A w \in Writer : pc'[w] \in {"asleep", "flushing"} => pc[w] \in {"asleep", "flushing"} \/ bg.scheduled
  PROVE  CallsRight'
BY DEF CallsRight, InCall

(* A step that only moves writers. *)
LEMMA QuietIInv ==
  ASSUME IInv, UNCHANGED <<mem, imm, logfile, versions, bg, disk, phase, unread>>,
         pc' \in [Writer -> States], queue' \in Seq(Writer), group' \in [size : Nat, batch : Batches],
         QueueRight',
         \A w \in Writer : pc'[w] \in {"asleep", "flushing"} => pc[w] \in {"asleep", "flushing"} \/ bg.scheduled
  PROVE  IInv'
<1>1. ShapeOK'
  BY DEF IInv, ShapeOK, DiskOK, States
<1>2. FilesRight'
  BY QuietFiles DEF IInv, FilesRight
<1>3. CallsRight'
  BY QuietCalls DEF IInv
<1> QED BY <1>1, <1>2, <1>3 DEF IInv, FilesRight

LEMMA CallIInv ==
  ASSUME IInv, NEW w \in Writer, Call(w)
  PROVE  IInv'
<1> DEFINE st == IF queue = <<>> THEN "head" ELSE "parked"
           n == Len(queue) + 1
<1>1. /\ phase = "open" /\ pc[w] = "idle" /\ queue' = Append(queue, w) /\ pc' = [pc EXCEPT ![w] = st]
      /\ UNCHANGED <<group, mem, imm, logfile, versions, bg, disk, phase, unread>>
  BY DEF Call
<1>2. ShapeOK /\ QueueRight
  BY DEF IInv
<1>3. /\ queue' \in Seq(Writer) /\ Len(queue') = n /\ DOMAIN queue' = 1..n /\ queue'[n] = w
      /\ Len(queue) \in Nat /\ DOMAIN queue = 1..Len(queue) /\ \A i \in DOMAIN queue : queue'[i] = queue[i]
  BY <1>1, <1>2, AppendProperties, LenProperties DEF ShapeOK
<1>4. DOMAIN queue' = DOMAIN queue \union {n} /\ n \notin DOMAIN queue /\ (queue = <<>> <=> n = 1)
      /\ 1..Len(queue) \subseteq 1..n
  BY <1>2, <1>3, EmptySeq DEF ShapeOK
<1>5. pc' \in [Writer -> States] /\ \A v \in Writer : pc'[v] = IF v = w THEN st ELSE pc[v]
  BY <1>1, <1>2 DEF ShapeOK, States, Running
<1>6. \A i \in DOMAIN queue : queue[i] \in Writer /\ queue[i] # w
  BY <1>1, <1>2, LenProperties, ElementOfSeq DEF ShapeOK, QueueRight, Running, Writing
<1>7. st \in {"head", "parked"} /\ (n = 1 <=> st = "head")
  BY <1>4
<1> HIDE DEF st, n
<1>8. QueueRight'
  <2>1. \A i \in DOMAIN queue' : IF i = 1 THEN pc'[queue'[i]] \in Running ELSE pc'[queue'[i]] = "parked"
    <3>1. ASSUME NEW i \in DOMAIN queue
          PROVE  IF i = 1 THEN pc'[queue'[i]] \in Running ELSE pc'[queue'[i]] = "parked"
      <4>1. queue'[i] = queue[i] /\ queue[i] # w /\ queue[i] \in Writer
        BY <1>3, <1>6
      <4>2. pc'[queue'[i]] = pc[queue[i]]
        BY <1>5, <4>1
      <4> QED BY <1>2, <4>2 DEF QueueRight
    <3>2. IF n = 1 THEN pc'[queue'[n]] \in Running ELSE pc'[queue'[n]] = "parked"
      BY <1>3, <1>5, <1>7 DEF Running
    <3> QED BY <1>4, <3>1, <3>2
  <2>2. \A i, j \in DOMAIN queue' : queue'[i] = queue'[j] => i = j
    BY <1>2, <1>3, <1>4, <1>6 DEF QueueRight
  <2>3. \A v \in Writer : pc'[v] \in Running \union {"parked"} => \E i \in DOMAIN queue' : queue'[i] = v
    BY <1>2, <1>3, <1>4, <1>5 DEF QueueRight
  <2>4. IF \E v \in Writer : pc'[v] \in Writing THEN group.size \in 1..Len(queue') ELSE group.size = 0
    <3>1. (\E v \in Writer : pc'[v] \in Writing) <=> \E v \in Writer : pc[v] \in Writing
      BY <1>1, <1>5, <1>7 DEF Writing
    <3> QED BY <1>2, <1>3, <1>4, <3>1 DEF QueueRight
  <2> QED BY <1>1, <2>1, <2>2, <2>3, <2>4 DEF QueueRight
<1>9. \A v \in Writer : pc'[v] \in {"asleep", "flushing"} => pc[v] \in {"asleep", "flushing"}
  BY <1>5, <1>7
<1> QED BY <1>1, <1>2, <1>3, <1>5, <1>8, <1>9, QuietIInv DEF ShapeOK

LEMMA YieldErrorIInv ==
  ASSUME IInv, NEW w \in Writer, YieldError(w) \/ NoNewLog(w)
  PROVE  IInv'
<1>1. /\ pc[w] = "head" /\ Leave(pc, 1, "error")
      /\ UNCHANGED <<group, mem, imm, logfile, versions, bg, disk, phase, unread>>
  BY DEF YieldError, NoNewLog
<1>2. ShapeOK /\ QueueRight /\ pc[w] \in Running /\ pc[w] \notin Writing
  BY <1>1 DEF IInv, Running, Writing
<1>3. phase = "open" /\ 1 \in 1..Len(queue) /\ group.size = 0 /\ WakesOnly(pc)
  BY <1>2, HeadFacts, WokenFacts
<1>4. /\ queue' \in Seq(Writer) /\ pc' \in [Writer -> States] /\ QueueRight'
      /\ \A v \in Writer : pc'[v] \in {"asleep", "flushing"} => pc[v] = pc'[v]
  BY <1>1, <1>2, <1>3, LeaveKeeps
<1> QED BY <1>1, <1>2, <1>4, QuietIInv DEF ShapeOK

LEMMA HaveRoomIInv ==
  ASSUME IInv, NEW w \in Writer, HaveRoom(w)
  PROVE  IInv'
<1>1. pc[w] = "head" /\ Proceed(w) /\ UNCHANGED <<mem, imm, logfile, versions, bg, disk, phase, unread>>
  BY DEF HaveRoom
<1>2. ShapeOK /\ QueueRight
  BY DEF IInv
<1>3. /\ queue' \in Seq(Writer) /\ pc' \in [Writer -> States] /\ QueueRight'
      /\ group' \in [size : Nat, batch : Batches]
      /\ \A v \in Writer : pc'[v] \in {"asleep", "flushing"} => pc'[v] = pc[v]
  BY <1>1, <1>2, ProceedKeeps
<1> QED BY <1>1, <1>3, QuietIInv

(* The tables of level 0 can be counted. *)
LEMMA FewTables ==
  ASSUME IInv, phase # "down"
  PROVE  Cardinality(versions.l0) \in Nat /\ (Cardinality(versions.l0) >= L0Stop => Cardinality(versions.l0) >= L0Trigger)
<1>1. versions.l0 \in SUBSET (1..(versions.next - 1)) /\ versions.next - 1 \in Int
  BY DEF IInv, TablesRight, Tables, Given, ShapeOK, Versions
<1>2. IsFiniteSet(1..(versions.next - 1))
  BY <1>1, FS_Interval
<1>3. Cardinality(versions.l0) \in Nat
  BY <1>1, <1>2, FS_Subset, FS_CardinalityType
<1> QED BY <1>3, BoundsAssumption

LEMMA SleepIInv ==
  ASSUME IInv, NEW w \in Writer, Sleep(w)
  PROVE  IInv'
<1>1. /\ pc[w] = "head" /\ ~bg.error /\ MustWait /\ pc' = [pc EXCEPT ![w] = "asleep"]
      /\ UNCHANGED <<queue, group, mem, imm, logfile, versions, bg, disk, phase, unread>>
  BY DEF Sleep
<1>2. /\ ShapeOK /\ QueueRight /\ pc[w] \in Running /\ pc[w] \notin Writing
      /\ "asleep" \in Running /\ "asleep" \notin Writing
  BY <1>1 DEF IInv, Running, Writing
<1>3. phase = "open" /\ group.size = 0
  BY <1>2, HeadFacts
<1>4. bg.scheduled
  <2>1. imm # None \/ Cardinality(versions.l0) >= L0Trigger
    BY <1>1, <1>3, FewTables DEF MustWait
  <2> QED BY <1>1, <1>3, <2>1 DEF IInv, CallsRight
<1>5. pc' \in [Writer -> States] /\ QueueRight'
  BY <1>1, <1>2, <1>3, HeadMoves
<1> QED BY <1>1, <1>2, <1>4, <1>5, QuietIInv DEF ShapeOK

LEMMA SyncLogFailsIInv ==
  ASSUME IInv, NEW w \in Writer, SyncLogFails(w)
  PROVE  IInv'
<1>1. /\ pc[w] = "syncing" /\ pc' = [pc EXCEPT ![w] = "unsure"]
      /\ UNCHANGED <<queue, group, mem, imm, logfile, versions, bg, disk, phase, unread>>
  BY DEF SyncLogFails
<1>2. /\ ShapeOK /\ QueueRight /\ pc[w] \in Running /\ pc[w] \in Writing
      /\ "unsure" \in Running /\ "unsure" \in Writing
  BY <1>1 DEF IInv, Running, Writing
<1>3. group.size \in 1..Len(queue)
  BY <1>2, HeadFacts
<1>4. /\ pc' \in [Writer -> States] /\ QueueRight'
      /\ \A v \in Writer : pc'[v] \in {"asleep", "flushing"} => pc'[v] = pc[v]
  BY <1>1, <1>2, <1>3, HeadMoves
<1> QED BY <1>1, <1>2, <1>4, QuietIInv DEF ShapeOK

LEMMA AwaitFlushIInv ==
  ASSUME IInv, NEW w \in Writer, AwaitFlush(w)
  PROVE  IInv'
<1> DEFINE st == IF imm = None THEN "ok" ELSE IF bg.error THEN "error" ELSE "flushing"
<1>1. /\ pc[w] = "await" /\ pc' = [pc EXCEPT ![w] = st]
      /\ UNCHANGED <<queue, group, mem, imm, logfile, versions, bg, disk, phase, unread>>
  BY DEF AwaitFlush
<1>2. ShapeOK /\ QueueRight
  BY DEF IInv
<1>3. st \in {"ok", "error", "flushing"} /\ (st = "flushing" => imm # None /\ ~bg.error)
  OBVIOUS
<1> HIDE DEF st
<1>4. phase = "open"
  BY <1>1, <1>2 DEF QueueRight, Outside
<1>5. st = "flushing" => bg.scheduled
  BY <1>3, <1>4 DEF IInv, CallsRight
<1>6. pc' \in [Writer -> States] /\ \A v \in Writer : pc'[v] = IF v = w THEN st ELSE pc[v]
  BY <1>1, <1>2, <1>3 DEF ShapeOK, States, Outside
<1>7. QueueRight'
  <2>1. \A i \in DOMAIN queue : queue[i] \in Writer
    BY <1>2, LenProperties, ElementOfSeq DEF ShapeOK
  <2>2. \A v \in Writer : v # w \/ (pc[v] \notin Running \union {"parked"} /\ pc'[v] \notin Running \union {"parked"})
    BY <1>1, <1>3, <1>6 DEF Running, Writing
  <2>3. (\E v \in Writer : pc'[v] \in Writing) <=> \E v \in Writer : pc[v] \in Writing
    BY <1>6, <2>2 DEF Running
  <2>4. \A i \in DOMAIN queue : queue[i] # w
    BY <1>2, <2>2 DEF QueueRight
  <2>5. \A i \in DOMAIN queue : IF i = 1 THEN pc'[queue[i]] \in Running ELSE pc'[queue[i]] = "parked"
    BY <1>2, <1>6, <2>1, <2>4 DEF QueueRight
  <2>6. \A v \in Writer : pc'[v] \in Running \union {"parked"} => \E i \in DOMAIN queue : queue[i] = v
    BY <1>2, <1>6, <2>2 DEF QueueRight
  <2> QED BY <1>1, <1>2, <1>4, <2>3, <2>5, <2>6 DEF QueueRight
<1>8. \A v \in Writer : pc'[v] \in {"asleep", "flushing"} => pc[v] \in {"asleep", "flushing"} \/ bg.scheduled
  BY <1>3, <1>5, <1>6
<1> QED BY <1>1, <1>2, <1>6, <1>7, <1>8, QuietIInv DEF ShapeOK

-------------------------------------------------------------------------------
(* The log. *)

LEMMA SeqMaps ==
  ASSUME NEW log \in Seq(Records)
  PROVE  Maps(log, Records)
BY LenProperties, ElementOfSeq DEF Maps

(* What the log becomes while it is written. *)
LEMMA LogWritten ==
  ASSUME IInv, phase = "open", NEW new \in Seq(Records), disk' = [disk EXCEPT !.logs[logfile] = new],
         UNCHANGED <<imm, logfile, versions, bg, phase, unread>>
  PROVE  DiskOK' /\ FilesRight' /\ DOMAIN disk'.logs = DOMAIN disk.logs
<1>1. logfile \in DOMAIN disk.logs
  BY DEF IInv, LogsRight
<1>2. /\ disk' = [logs |-> disk'.logs, tables |-> disk'.tables, manifest |-> disk'.manifest]
      /\ disk'.logs = [disk.logs EXCEPT ![logfile] = new]
      /\ disk'.tables = disk.tables /\ disk'.manifest = disk.manifest
  BY DEF IInv, ShapeOK, DiskOK
<1>3. /\ disk'.logs = [n \in DOMAIN disk'.logs |-> disk'.logs[n]] /\ DOMAIN disk'.logs = DOMAIN disk.logs
      /\ disk'.logs[logfile] = new /\ \A n \in DOMAIN disk.logs : n # logfile => disk'.logs[n] = disk.logs[n]
  BY <1>1, <1>2
<1>4. DiskOK'
  <2>1. \A n \in DOMAIN disk'.logs : Maps(disk'.logs[n], Records)
    BY <1>3, SeqMaps DEF IInv, ShapeOK, DiskOK
  <2>2. disk'.tables = disk.tables /\ Maps(disk.tables, Batches) /\ disk.manifest \in Versions /\ DOMAIN disk.logs \subseteq Nat
    BY <1>2 DEF IInv, ShapeOK, DiskOK
  <2> QED BY <1>2, <1>3, <2>1, <2>2 DEF DiskOK
<1>5. TablesRight'
  BY <1>2 DEF IInv, TablesRight, Tables, Given
<1>6. LogsRight'
  BY <1>3 DEF IInv, LogsRight, LogsFrom
<1>7. WorkRight'
  BY <1>2 DEF IInv, WorkRight, Tables, Given
<1>8. EditRight' /\ ManifestRight'
  BY <1>2 DEF IInv, EditRight, Editing, ManifestRight, Ahead, Edited, Given
<1> QED BY <1>3, <1>4, <1>5, <1>6, <1>7, <1>8 DEF FilesRight

LEMMA LogStepIInv ==
  ASSUME IInv, NEW w \in Writer, pc[w] \in Writing, NEW st \in Writing, pc' = [pc EXCEPT ![w] = st],
         NEW new \in Seq(Records), disk' = [disk EXCEPT !.logs[logfile] = new],
         UNCHANGED <<queue, group, mem, imm, logfile, versions, bg, phase, unread>>
  PROVE  IInv'
<1>1. ShapeOK /\ QueueRight /\ pc[w] \in Running /\ st \in Running
  BY DEF IInv, Running
<1>2. phase = "open" /\ group.size \in 1..Len(queue)
  BY <1>1, HeadFacts
<1>3. /\ pc' \in [Writer -> States] /\ QueueRight'
      /\ \A v \in Writer : pc'[v] \in {"asleep", "flushing"} => pc'[v] = pc[v]
  <2>1. st # "asleep"
    BY DEF Writing
  <2> QED BY <1>1, <1>2, <2>1, HeadMoves
<1>4. DiskOK' /\ FilesRight' /\ DOMAIN disk'.logs = DOMAIN disk.logs
  BY <1>2, LogWritten
<1>5. ShapeOK'
  BY <1>1, <1>3, <1>4 DEF ShapeOK, States
<1>6. CallsRight'
  BY <1>3, QuietCalls DEF IInv
<1> QED BY <1>3, <1>4, <1>5, <1>6 DEF IInv, FilesRight

LEMMA LogRecordIInv ==
  ASSUME IInv, NEW w \in Writer, LogRecord(w) \/ LogRecordFails(w)
  PROVE  IInv'
<1>1. pc[w] = "logging" /\ UNCHANGED <<queue, group, mem, imm, logfile, versions, bg, phase, unread>>
  BY DEF LogRecord, LogRecordFails
<1>2. PICK st \in Writing, batch \in Batches :
        /\ pc' = [pc EXCEPT ![w] = st]
        /\ disk' = [disk EXCEPT !.logs[logfile] = Append(@, Record(batch))]
  <2>1. CASE LogRecord(w)
    BY <2>1 DEF LogRecord, Writing, IInv, ShapeOK
  <2>2. CASE LogRecordFails(w)
    BY <2>2, NothingBatch DEF LogRecordFails, Writing
  <2> QED BY <2>1, <2>2
<1>3. phase = "open" /\ pc[w] \in Writing
  BY <1>1, HeadFacts DEF IInv, Running, Writing
<1>4. disk.logs[logfile] \in Seq(Records) /\ logfile \in DOMAIN disk.logs
  BY <1>3 DEF IInv, LogsRight
<1>5. Record(batch) \in Records
  BY <1>2 DEF Record, Records
<1>6. Append(disk.logs[logfile], Record(batch)) \in Seq(Records)
  BY <1>4, <1>5, AppendProperties
<1>7. disk' = [disk EXCEPT !.logs[logfile] = Append(disk.logs[logfile], Record(batch))]
  BY <1>2, <1>4
<1> QED BY <1>1, <1>2, <1>3, <1>6, <1>7, LogStepIInv

LEMMA SyncLogIInv ==
  ASSUME IInv, NEW w \in Writer, SyncLog(w)
  PROVE  IInv'
<1> DEFINE log == disk.logs[logfile]
           new == [i \in DOMAIN log |-> [log[i] EXCEPT !.synced = TRUE]]
<1>1. /\ pc[w] = "syncing" /\ pc' = [pc EXCEPT ![w] = "applying"]
      /\ UNCHANGED <<queue, group, mem, imm, logfile, versions, bg, phase, unread>>
  BY DEF SyncLog
<1>2. phase = "open" /\ pc[w] \in Writing /\ "applying" \in Writing
  BY <1>1, HeadFacts DEF IInv, Running, Writing
<1>3. log \in Seq(Records) /\ logfile \in DOMAIN disk.logs
  BY <1>2 DEF IInv, LogsRight
<1>4. disk' = [disk EXCEPT !.logs[logfile] = new]
  BY <1>3 DEF SyncLog
<1>5. new \in Seq(Records)
  <2>1. Len(log) \in Nat /\ DOMAIN log = 1..Len(log) /\ \A i \in DOMAIN log : log[i] \in Records
    BY <1>3, LenProperties, ElementOfSeq
  <2>2. \A i \in DOMAIN log : [log[i] EXCEPT !.synced = TRUE] \in Records
    BY <2>1 DEF Records
  <2>3. new \in [1..Len(log) -> Records]
    BY <2>1, <2>2
  <2> HIDE DEF new
  <2> QED BY <2>1, <2>3, SeqDef
<1> HIDE DEF new
<1> QED BY <1>1, <1>2, <1>4, <1>5, LogStepIInv

-------------------------------------------------------------------------------
(* Versions, edits and calls. *)

LEMMA EditedFields ==
  ASSUME NEW v \in Versions, NEW e \in Edits
  PROVE  /\ Edited(v, e) \in Versions
         /\ Edited(v, e).l0 = (v.l0 \ e.gone) \union e.add0
         /\ Edited(v, e).l1 = (v.l1 \ e.gone) \union e.add1
         /\ Edited(v, e).log = e.log /\ Edited(v, e).next = v.next /\ Edited(v, e).last = v.last
BY DEF Edited, Versions, Edits

LEMMA ScheduledFields ==
  ASSUME NEW b \in Calls, NEW i, NEW v
  PROVE  LET s == Scheduled(b, i, v)
         IN /\ s \in Calls
            /\ s.error = b.error /\ s.flush = b.flush /\ s.merge = b.merge /\ s.table = b.table
            /\ s.inputs = b.inputs /\ s.output = b.output /\ s.edit = b.edit
            /\ s.scheduled <=> b.scheduled \/ (/\ phase # "closing" /\ ~b.error
                                               /\ i # None \/ Cardinality(v.l0) >= L0Trigger)
BY DEF Scheduled, Calls

LEMMA SameVersions ==
  ASSUME NEW v \in Versions, NEW u \in Versions, NEW e \in Edits, NEW d \in Edits, d = e,
         u.log = v.log, u.l0 = v.l0, u.l1 = v.l1
  PROVE  /\ Edited(u, d).l0 = Edited(v, e).l0 /\ Edited(u, d).l1 = Edited(v, e).l1
         /\ Edited(u, d).log = Edited(v, e).log
BY DEF Edited, Versions, Edits

(* The numbers may grow, and an error be found: the files stay right. *)
LEMMA FilesKept ==
  ASSUME ShapeOK, FilesRight, UNCHANGED <<imm, logfile, disk, phase, unread>>,
         versions' \in Versions, bg' \in Calls,
         versions'.next >= versions.next, versions'.log = versions.log,
         versions'.l0 = versions.l0, versions'.l1 = versions.l1,
         bg'.flush = bg.flush, bg'.merge = bg.merge, bg'.table = bg.table, bg'.inputs = bg.inputs,
         bg'.output = bg.output, bg'.edit = bg.edit, bg.error => bg'.error
  PROVE  FilesRight'
<1>1. versions.next \in Nat /\ versions'.next \in Nat /\ versions \in Versions /\ bg.edit \in Edits
      /\ disk.manifest.next \in Nat /\ logfile \in Nat /\ bg.edit.next \in Nat
  BY DEF ShapeOK, Versions, DiskOK, Calls, Edits
<1>2. Given \subseteq Given' /\ 0..(versions.next - 1) \subseteq 0..(versions'.next - 1)
  BY <1>1 DEF Given
<1>3. TablesRight'
  BY <1>1, <1>2 DEF FilesRight, TablesRight, Tables
<1>4. LogsRight'
  <2>1. versions.next <= versions'.next /\ \A a \in Nat : a < versions.next => a < versions'.next
    BY <1>1
  <2>2. versions.log \in Nat
    BY <1>1 DEF Versions
  <2>3. LogsFrom(versions.log)' = LogsFrom(versions.log)
    BY DEF LogsFrom
  <2> QED BY <1>1, <1>2, <2>1, <2>2, <2>3 DEF FilesRight, LogsRight
<1>5. WorkRight'
  BY <1>2 DEF FilesRight, WorkRight, Tables
<1>6. EditRight'
  BY <1>1, <1>2 DEF FilesRight, EditRight, Editing
<1>7. ManifestRight'
  <2>1. /\ Edited(versions', bg'.edit).l0 = Edited(versions, bg.edit).l0
        /\ Edited(versions', bg'.edit).l1 = Edited(versions, bg.edit).l1
        /\ Edited(versions', bg'.edit).log = Edited(versions, bg.edit).log
    <3>1. versions' \in Versions /\ bg'.edit \in Edits
      BY <1>1
    <3> QED BY <1>1, <3>1, SameVersions
  <2>2. Ahead' <=> Ahead
    BY DEF Ahead
  <2> QED BY <2>1, <2>2 DEF FilesRight, ManifestRight
<1> QED BY <1>3, <1>4, <1>5, <1>6, <1>7 DEF FilesRight

-------------------------------------------------------------------------------
(* The end of a group, and a new memtable. *)

LEMMA FinishIInv ==
  ASSUME IInv, NEW w \in Writer, Finish(w)
  PROVE  IInv'
<1> DEFINE p == IF pc[w] = "unsure" /\ ~bg.error THEN Woken(pc) ELSE pc
           answer == IF pc[w] = "applying" THEN "ok" ELSE "error"
<1>1. /\ pc[w] \in {"applying", "failing", "unsure"} /\ Leave(p, group.size, answer)
      /\ mem' = IF pc[w] = "applying" THEN Entries({mem, group.batch}) ELSE mem
      /\ bg' = [bg EXCEPT !.error = @ \/ pc[w] = "unsure"]
      /\ versions' = [versions EXCEPT !.last = @ + Cardinality(DOMAIN group.batch)]
      /\ group' = [size |-> 0, batch |-> Nothing]
      /\ UNCHANGED <<imm, logfile, disk, phase, unread>>
  BY DEF Finish
<1>2. ShapeOK /\ QueueRight /\ pc[w] \in Running /\ pc[w] \in Writing
  BY <1>1 DEF IInv, Running, Writing
<1>3. phase = "open" /\ group.size \in 1..Len(queue)
  BY <1>2, HeadFacts
<1>4. WakesOnly(p) /\ answer \in {"ok", "error"}
  BY <1>2, WokenFacts
<1>5. group' \in [size : Nat, batch : Batches] /\ group'.size = 0
  BY <1>1, NothingBatch
<1>6. /\ queue' \in Seq(Writer) /\ pc' \in [Writer -> States] /\ QueueRight'
      /\ \A v \in Writer : pc'[v] \in {"asleep", "flushing"} => pc[v] = pc'[v]
  <2> HIDE DEF p, answer
  <2> QED BY <1>1, <1>2, <1>3, <1>4, <1>5, LeaveKeeps
<1>7. /\ bg' \in Calls /\ bg'.scheduled = bg.scheduled /\ (bg.error => bg'.error)
      /\ bg'.flush = bg.flush /\ bg'.merge = bg.merge /\ bg'.table = bg.table
      /\ bg'.inputs = bg.inputs /\ bg'.output = bg.output /\ bg'.edit = bg.edit
  BY <1>1, <1>2 DEF ShapeOK, Calls
<1>8. Cardinality(DOMAIN group.batch) \in Nat
  <2>1. DOMAIN group.batch \in SUBSET Writer
    BY <1>2, BatchShape DEF ShapeOK
  <2> QED BY <2>1, WritersAssumption, FS_Subset, FS_CardinalityType
<1>9. /\ versions' \in Versions /\ versions'.next = versions.next /\ versions'.log = versions.log
      /\ versions'.l0 = versions.l0 /\ versions'.l1 = versions.l1
  <2>1. versions \in Versions /\ versions' = [versions EXCEPT !.last = @ + Cardinality(DOMAIN group.batch)]
    BY <1>1, <1>2 DEF ShapeOK
  <2> QED BY <1>8, <2>1 DEF Versions
<1>10. versions'.next >= versions.next
  BY <1>2, <1>9 DEF ShapeOK, Versions
<1>11. FilesRight'
  BY <1>1, <1>2, <1>7, <1>9, <1>10, FilesKept DEF IInv, FilesRight
<1>12. CallsRight'
  BY <1>1, <1>3, <1>6, <1>7, <1>9 DEF IInv, CallsRight, InCall
<1>13. mem' \in Batches
  <2>1. mem \in Batches /\ group.batch \in Batches
    BY <1>2 DEF ShapeOK
  <2>2. Entries({mem, group.batch}) \in Batches
    BY <2>1, EntriesBatch
  <2> QED BY <1>1, <2>1, <2>2
<1>14. ShapeOK'
  BY <1>1, <1>2, <1>5, <1>6, <1>7, <1>9, <1>13 DEF ShapeOK, DiskOK, States
<1> QED BY <1>6, <1>11, <1>12, <1>14 DEF IInv, FilesRight

LEMMA SwitchIInv ==
  ASSUME IInv, NEW w \in Writer, Switch(w)
  PROVE  IInv'
<1> DEFINE n == versions.next
<1>1. /\ pc[w] = "head" /\ imm = None /\ logfile' = n /\ versions' = [versions EXCEPT !.next = @ + 1]
      /\ disk' = [disk EXCEPT !.logs = [m \in DOMAIN @ \union {n} |-> IF m = n THEN <<>> ELSE @[m]]]
      /\ imm' = mem /\ mem' = Nothing /\ bg' = Scheduled(bg, mem, versions)
      /\ Proceed(w) /\ UNCHANGED <<phase, unread>>
  BY DEF Switch, MustWait
<1>2. ShapeOK /\ QueueRight /\ pc[w] \in Running
  BY <1>1 DEF IInv, Running
<1>3. phase = "open" /\ n \in Nat /\ versions \in Versions /\ bg \in Calls
  BY <1>2, HeadFacts DEF ShapeOK, Versions
<1>4. /\ queue' \in Seq(Writer) /\ pc' \in [Writer -> States] /\ QueueRight'
      /\ group' \in [size : Nat, batch : Batches]
      /\ \A v \in Writer : pc'[v] \in {"asleep", "flushing"} => pc'[v] = pc[v]
  BY <1>1, <1>2, ProceedKeeps
<1>5. /\ versions' \in Versions /\ versions'.next = n + 1 /\ versions'.log = versions.log
      /\ versions'.l0 = versions.l0 /\ versions'.l1 = versions.l1
  BY <1>1, <1>3 DEF Versions
<1>6. /\ bg' \in Calls
      /\ bg'.error = bg.error /\ bg'.flush = bg.flush /\ bg'.merge = bg.merge /\ bg'.table = bg.table
      /\ bg'.inputs = bg.inputs /\ bg'.output = bg.output /\ bg'.edit = bg.edit
      /\ bg'.scheduled <=> bg.scheduled \/ (/\ ~bg.error
                                            /\ mem # None \/ Cardinality(versions.l0) >= L0Trigger)
  BY <1>1, <1>3, ScheduledFields
<1>7. /\ disk' = [logs |-> disk'.logs, tables |-> disk'.tables, manifest |-> disk'.manifest]
      /\ disk'.tables = disk.tables /\ disk'.manifest = disk.manifest
      /\ disk'.logs = [m \in DOMAIN disk'.logs |-> disk'.logs[m]] /\ DOMAIN disk'.logs = DOMAIN disk.logs \union {n}
      /\ disk'.logs[n] = <<>> /\ \A m \in DOMAIN disk.logs : m # n => disk'.logs[m] = disk.logs[m]
  BY <1>1, <1>2 DEF ShapeOK, DiskOK
<1>8. DiskOK'
  <2>1. <<>> \in Seq(Records)
    OBVIOUS
  <2>2. \A m \in DOMAIN disk'.logs : Maps(disk'.logs[m], Records)
    BY <1>2, <1>7, <2>1, SeqMaps DEF ShapeOK, DiskOK
  <2>3. DOMAIN disk'.logs \subseteq Nat
    BY <1>2, <1>3, <1>7 DEF ShapeOK, DiskOK
  <2> QED BY <1>2, <1>7, <2>2, <2>3 DEF ShapeOK, DiskOK
<1>9. ShapeOK'
  <2>1. mem' \in Batches /\ imm' \in Batches
    BY <1>1, <1>2, NothingBatch DEF ShapeOK
  <2>2. logfile' \in Nat /\ unread' \subseteq DOMAIN disk'.logs
    BY <1>1, <1>2, <1>3, <1>7 DEF ShapeOK
  <2>4. phase' \in {"open", "closing", "down", "recovering", "recovered", "saved"}
    BY <1>1, <1>3
  <2>3. /\ pc' \in [Writer -> Running \union Outside \union {"parked", "await", "flushing"}]
        /\ queue' \in Seq(Writer) /\ group' \in [size : Nat, batch : Batches]
    BY <1>4 DEF States
  <2> QED BY <1>5, <1>6, <1>8, <2>1, <2>2, <2>3, <2>4, Zenon DEF ShapeOK
<1>10. CallsRight'
  BY <1>1, <1>3, <1>4, <1>5, <1>6 DEF IInv, CallsRight, InCall
<1>11. Given \subseteq Given' /\ logfile \in Nat /\ disk.manifest.next \in Nat /\ bg.edit.log \in Nat
  <2>1. Given \subseteq Given'
    BY <1>3, <1>5 DEF Given
  <2>2. logfile \in Nat /\ disk.manifest.next \in Nat
    BY <1>2 DEF ShapeOK, DiskOK, Versions
  <2>3. bg.edit.log \in Nat
    BY <1>3 DEF Calls, Edits
  <2> QED BY <2>1, <2>2, <2>3
<1>12. TablesRight'
  BY <1>1, <1>3, <1>5, <1>7, <1>11 DEF IInv, TablesRight, Tables
<1>13. LogsRight'
  <2>1. versions.log <= logfile /\ logfile < n /\ unread = {} /\ LogsFrom(versions.log) \subseteq 0..(n - 1)
    BY <1>3 DEF IInv, LogsRight
  <2>2. LogsFrom(versions.log)' \subseteq LogsFrom(versions.log) \union {n}
    BY <1>5, <1>7 DEF LogsFrom
  <2>3. LogsFrom(versions.log)' \subseteq 0..n /\ (n + 1) - 1 = n
    BY <1>3, <2>1, <2>2
  <2>4. <<>> \in Seq(Records)
    OBVIOUS
  <2>5. versions.log \in Nat
    BY <1>3 DEF Versions
  <2> QED BY <1>1, <1>3, <1>5, <1>7, <1>11, <2>1, <2>3, <2>4, <2>5 DEF LogsRight
<1>14. WorkRight'
  BY <1>1, <1>5, <1>6, <1>7, <1>11 DEF IInv, WorkRight, Tables
<1>15. EditRight'
  <2>1. logfile < n
    BY <1>3 DEF IInv, LogsRight
  <2>2. bg.edit.next \in Nat
    BY <1>3 DEF Calls, Edits
  <2> QED BY <1>1, <1>3, <1>5, <1>6, <1>7, <1>11, <2>1, <2>2 DEF IInv, EditRight, Editing
<1>16. ManifestRight'
  <2>1. /\ Edited(versions', bg'.edit).l0 = Edited(versions, bg.edit).l0
        /\ Edited(versions', bg'.edit).l1 = Edited(versions, bg.edit).l1
        /\ Edited(versions', bg'.edit).log = Edited(versions, bg.edit).log
    <3>1. bg.edit \in Edits
      BY <1>3 DEF Calls
    <3>2. bg'.edit \in Edits
      BY <1>6, <3>1
    <3> QED BY <1>3, <1>5, <1>6, <3>1, <3>2, SameVersions
  <2> QED BY <1>1, <1>5, <1>6, <1>7, <2>1 DEF IInv, ManifestRight, Ahead
<1> QED BY <1>4, <1>9, <1>10, <1>12, <1>13, <1>14, <1>15, <1>16 DEF IInv

-------------------------------------------------------------------------------
(* The steps of the background thread.  They wake writers, and otherwise   *)
(* leave the queue alone.                                                  *)

LEMMA BackgroundIInv ==
  ASSUME IInv, UNCHANGED <<queue, group, mem, logfile, phase, unread>>, WakesOnly(pc'),
         versions' \in Versions, bg' \in Calls, imm' = None \/ imm' \in Batches,
         DiskOK', unread \subseteq DOMAIN disk'.logs, FilesRight', CallsRight'
  PROVE  IInv'
<1>1. ShapeOK /\ QueueRight
  BY DEF IInv
<1>2. ShapeOK'
  BY <1>1 DEF ShapeOK, WakesOnly, States
<1>3. QueueRight'
  BY <1>1, WakingKeepsQueue
<1> QED BY <1>2, <1>3 DEF IInv, FilesRight

(* While the background thread is in a call, the database is open or       *)
(* about to be closed.                                                     *)
LEMMA InCallFacts ==
  ASSUME IInv, InCall \/ bg.scheduled
  PROVE  /\ phase \in {"open", "closing"} /\ bg.scheduled /\ unread = {}
         /\ versions \in Versions /\ bg \in Calls /\ bg.edit \in Edits /\ versions.next \in Nat
         /\ versions.log \in Nat /\ versions.log <= logfile /\ logfile \in Nat /\ logfile < versions.next
BY DEF IInv, CallsRight, LogsRight, ShapeOK, Versions, Calls

IdleLike(b) == b.flush = "none" /\ b.merge = "none" /\ b.table = 0 /\ b.inputs = {} /\ b.output = 0

LEMMA IdleCall ==
  /\ Idle \in Calls /\ IdleLike(Idle) /\ ~Idle.scheduled /\ ~Idle.error
  /\ \A e \in BOOLEAN : [Idle EXCEPT !.error = e] \in Calls /\ IdleLike([Idle EXCEPT !.error = e])
                        /\ [Idle EXCEPT !.error = e].error = e /\ ~[Idle EXCEPT !.error = e].scheduled
<1>1. Idle.edit = Edit({}, {}, {}, 0, [next |-> 0, last |-> 0]) /\ Idle.edit \in Edits
  BY DEF Idle, Edit, Edits
<1> QED BY <1>1 DEF Idle, IdleLike, Calls

LEMMA CallEndsFacts ==
  ASSUME ShapeOK, NEW b, b.error \in BOOLEAN, NEW i, NEW v, CallEnds(b, i, v)
  PROVE  /\ WakesOnly(pc') /\ \A w \in Writer : pc'[w] \notin {"asleep", "flushing"}
         /\ bg' \in Calls /\ IdleLike(bg') /\ bg'.error = b.error
         /\ bg'.scheduled <=> (/\ phase # "closing" /\ ~b.error
                               /\ i # None \/ Cardinality(v.l0) >= L0Trigger)
<1> DEFINE e == [Idle EXCEPT !.error = b.error]
<1>1. e \in Calls /\ IdleLike(e) /\ e.error = b.error /\ ~e.scheduled
  BY IdleCall
<1>2. bg' = Scheduled(e, i, v) /\ pc' = Woken(pc)
  BY DEF CallEnds
<1> HIDE DEF e
<1>3. /\ bg' \in Calls /\ IdleLike(bg') /\ bg'.error = b.error
      /\ bg'.scheduled <=> (/\ phase # "closing" /\ ~b.error
                            /\ i # None \/ Cardinality(v.l0) >= L0Trigger)
  BY <1>1, <1>2, ScheduledFields DEF IdleLike
<1> QED BY <1>2, <1>3, WokenFacts

(* A call that ends has scheduled another one if there is work. *)
LEMMA CallEndsCalls ==
  ASSUME IInv, bg.scheduled, NEW b, b.error \in BOOLEAN, CallEnds(b, imm', versions'), UNCHANGED phase
  PROVE  CallsRight'
<1>1. ShapeOK /\ phase \in {"open", "closing"}
  BY DEF IInv, CallsRight
<1>2. /\ \A w \in Writer : pc'[w] \notin {"asleep", "flushing"}
      /\ IdleLike(bg') /\ bg'.error = b.error
      /\ bg'.scheduled <=> (/\ phase # "closing" /\ ~b.error
                            /\ imm' # None \/ Cardinality(versions'.l0) >= L0Trigger)
  BY <1>1, CallEndsFacts
<1> QED BY <1>1, <1>2 DEF CallsRight, InCall, IdleLike

LEMMA ReturnIInv ==
  ASSUME IInv, Return
  PROVE  IInv'
<1>1. /\ bg.scheduled /\ bg.flush = "none" /\ bg.merge = "none" /\ CallEnds(bg, imm, versions)
      /\ UNCHANGED <<queue, group, mem, imm, logfile, versions, disk, phase, unread>>
  BY DEF Return, InCall
<1>2. ShapeOK /\ phase \in {"open", "closing"} /\ bg \in Calls /\ bg.error \in BOOLEAN
  BY <1>1 DEF IInv, CallsRight, ShapeOK, Calls
<1>3. WakesOnly(pc') /\ bg' \in Calls /\ IdleLike(bg') /\ bg'.error = bg.error
  BY <1>1, <1>2, CallEndsFacts
<1>4. CallsRight'
  BY <1>1, <1>2, CallEndsCalls
<1>5. TablesRight' /\ LogsRight'
  BY <1>1 DEF IInv, TablesRight, LogsRight, Tables, Given, LogsFrom
<1>6. WorkRight' /\ EditRight'
  BY <1>1, <1>2, <1>3 DEF WorkRight, EditRight, Editing, IdleLike
<1>7. ManifestRight'
  BY <1>1, <1>2, <1>3 DEF IInv, ManifestRight, Ahead, IdleLike
<1>8. DiskOK' /\ unread \subseteq DOMAIN disk'.logs /\ versions' \in Versions /\ (imm' = None \/ imm' \in Batches)
  BY <1>1, <1>2 DEF ShapeOK, DiskOK
<1> QED BY <1>1, <1>3, <1>4, <1>5, <1>6, <1>7, <1>8, BackgroundIInv DEF FilesRight

(* A call that fails: what it was working on is dropped, the version in    *)
(* use stays, and the manifest may or may not have become another.         *)
LEMMA FailedIInv ==
  ASSUME IInv, bg.scheduled, UNCHANGED <<queue, group, mem, imm, logfile, versions, phase, unread>>,
         WakesOnly(pc'), bg' \in Calls, bg'.error, bg'.flush = "none",
         \/ IdleLike(bg')
         \/ /\ bg.merge \in {"none", "scan", "output"}
            /\ bg'.merge = bg.merge /\ bg'.inputs = bg.inputs /\ bg'.output = bg.output,
         bg'.scheduled \/ (IdleLike(bg') /\ \A w \in Writer : pc'[w] \notin {"asleep", "flushing"}),
         DiskOK', disk'.logs = disk.logs, DOMAIN disk.tables \subseteq DOMAIN disk'.tables, TablesRight'
  PROVE  IInv'
<1>1. /\ ShapeOK /\ phase \in {"open", "closing"} /\ versions' \in Versions /\ (imm' = None \/ imm' \in Batches)
      /\ unread \subseteq DOMAIN disk'.logs
  BY DEF IInv, CallsRight, ShapeOK
<1>2. CallsRight'
  BY <1>1 DEF CallsRight, InCall, IdleLike
<1>3. LogsRight'
  BY DEF IInv, LogsRight, LogsFrom
<1>4. WorkRight'
  BY DEF IInv, WorkRight, IdleLike, Tables, Given
<1>5. EditRight'
  BY <1>1 DEF EditRight, Editing, IdleLike
<1>6. ManifestRight'
  BY DEF ManifestRight
<1> QED BY <1>1, <1>2, <1>3, <1>4, <1>5, <1>6, BackgroundIInv DEF FilesRight

LEMMA MergeFailedIInv ==
  ASSUME IInv, InCall, MergeFailed, UNCHANGED <<queue, group, mem, imm, logfile, versions, phase, unread>>,
         DiskOK', disk'.logs = disk.logs, DOMAIN disk.tables \subseteq DOMAIN disk'.tables, TablesRight'
  PROVE  IInv'
<1> DEFINE b == [bg EXCEPT !.error = TRUE]
<1>1. ShapeOK /\ bg.scheduled /\ b.error = TRUE /\ b.error \in BOOLEAN
  BY DEF IInv, CallsRight, ShapeOK, Calls
<1>2. CallEnds(b, imm, versions)
  BY DEF MergeFailed
<1> HIDE DEF b
<1>3. /\ WakesOnly(pc') /\ bg' \in Calls /\ IdleLike(bg') /\ bg'.error
      /\ \A w \in Writer : pc'[w] \notin {"asleep", "flushing"}
  BY <1>1, <1>2, CallEndsFacts
<1> QED BY <1>1, <1>3, FailedIInv DEF IdleLike

LEMMA FlushFailedIInv ==
  ASSUME IInv, bg.flush # "none", FlushFailed,
         UNCHANGED <<queue, group, mem, imm, logfile, versions, phase, unread>>,
         DiskOK', disk'.logs = disk.logs, DOMAIN disk.tables \subseteq DOMAIN disk'.tables, TablesRight'
  PROVE  IInv'
<1>1. InCall /\ FlushEnds([bg EXCEPT !.error = TRUE], imm, versions)
  BY DEF InCall, FlushFailed
<1>2. CASE bg.merge = "none"
  BY <1>1, <1>2, MergeFailedIInv DEF FlushEnds, MergeFailed
<1>3. CASE bg.merge # "none"
  <2> DEFINE b == [bg EXCEPT !.error = TRUE]
  <2>1. bg' = [b EXCEPT !.flush = "none"] /\ pc' = Woken(pc)
    BY <1>1, <1>3 DEF FlushEnds
  <2>2. ShapeOK /\ bg.scheduled /\ bg \in Calls /\ bg.merge \in {"scan", "output"}
    BY <1>1, <1>3 DEF IInv, CallsRight, ShapeOK, WorkRight
  <2>3. /\ bg' \in Calls /\ bg'.error /\ bg'.flush = "none" /\ bg'.scheduled
        /\ bg'.merge = bg.merge /\ bg'.inputs = bg.inputs /\ bg'.output = bg.output
    BY <2>1, <2>2 DEF Calls
  <2>4. WakesOnly(pc')
    BY <2>1, <2>2, WokenFacts
  <2> QED BY <2>2, <2>3, <2>4, FailedIInv
<1> QED BY <1>2, <1>3

-------------------------------------------------------------------------------
(* The flush of a memtable. *)

LEMMA BeginFlushIInv ==
  ASSUME IInv, BeginFlush
  PROVE  IInv'
<1> DEFINE n == versions.next
<1>1. /\ phase = "open" /\ imm # None /\ bg.flush = "none" /\ bg.merge \in {"none", "scan", "output"}
      /\ bg.scheduled \/ InCall
      /\ bg' = [bg EXCEPT !.flush = "build", !.table = n] /\ versions' = [versions EXCEPT !.next = @ + 1]
      /\ UNCHANGED <<pc, queue, group, mem, imm, logfile, disk, phase, unread>>
  BY DEF BeginFlush, InCall
<1>2. ShapeOK /\ bg.scheduled /\ n \in Nat /\ n > 0 /\ versions \in Versions /\ bg \in Calls /\ unread = {}
      /\ versions.log \in Nat
  BY <1>1, InCallFacts DEF IInv
<1>3. /\ versions' \in Versions /\ versions'.next = n + 1 /\ versions'.log = versions.log
      /\ versions'.l0 = versions.l0 /\ versions'.l1 = versions.l1
  BY <1>1, <1>2 DEF Versions
<1>4. /\ bg' \in Calls /\ bg'.flush = "build" /\ bg'.table = n /\ bg'.merge = bg.merge /\ bg'.output = bg.output
      /\ bg'.inputs = bg.inputs /\ bg'.edit = bg.edit /\ bg'.error = bg.error /\ bg'.scheduled = bg.scheduled
  BY <1>1, <1>2 DEF Calls
<1>5. WakesOnly(pc')
  BY <1>1, <1>2, WokenFacts
<1>6. CallsRight'
  BY <1>1, <1>2, <1>3, <1>4 DEF IInv, CallsRight, InCall
<1>7. Given' = Given \union {n} /\ n \notin Given /\ Tables' = Tables /\ n # 0
  BY <1>2, <1>3 DEF Given, Tables
<1>8. TablesRight'
  <2>1. disk.manifest.next \in Nat /\ disk.manifest.next <= n
    BY <1>1, <1>2 DEF IInv, ShapeOK, DiskOK, Versions, TablesRight
  <2>2. disk.manifest.next <= n + 1
    BY <1>2, <2>1
  <2> QED BY <1>1, <1>3, <1>7, <2>2 DEF IInv, TablesRight
<1>9. LogsRight'
  <2>1. \A m \in 0..(n - 1) : m \in 0..((n + 1) - 1)
    BY <1>2
  <2>2. logfile \in Nat /\ logfile < n /\ logfile < n + 1
    BY <1>1, <1>2 DEF IInv, ShapeOK, LogsRight
  <2> QED BY <1>1, <1>2, <1>3, <2>1, <2>2 DEF IInv, LogsRight, LogsFrom
<1>10. WorkRight'
  BY <1>1, <1>4, <1>7 DEF IInv, WorkRight, TablesRight
<1>11. EditRight'
  BY <1>1, <1>4 DEF EditRight, Editing
<1>12. ManifestRight'
  BY <1>1, <1>3, <1>4 DEF IInv, ManifestRight, Ahead
<1>13. DiskOK' /\ unread \subseteq DOMAIN disk'.logs /\ (imm' = None \/ imm' \in Batches)
  BY <1>1, <1>2 DEF ShapeOK, DiskOK
<1> QED BY <1>1, <1>3, <1>4, <1>5, <1>6, <1>8, <1>9, <1>10, <1>11, <1>12, <1>13, BackgroundIInv DEF FilesRight

(* A new table, and what was on the disk stays. *)
LEMMA TableAdded ==
  ASSUME ShapeOK, NEW new \in SUBSET Nat, NEW batch, new = {} \/ batch \in Batches,
         disk' = [disk EXCEPT !.tables = [t \in DOMAIN @ \union new |-> IF t \in new THEN batch ELSE @[t]]]
  PROVE  /\ DiskOK' /\ disk'.logs = disk.logs /\ disk'.manifest = disk.manifest
         /\ DOMAIN disk'.tables = DOMAIN disk.tables \union new
<1>1. /\ disk' = [logs |-> disk'.logs, tables |-> disk'.tables, manifest |-> disk'.manifest]
      /\ disk'.logs = disk.logs /\ disk'.manifest = disk.manifest
      /\ disk'.tables = [t \in DOMAIN disk.tables \union new |-> IF t \in new THEN batch ELSE disk.tables[t]]
  BY DEF ShapeOK, DiskOK
<1>2. Maps(disk'.tables, Batches) /\ DOMAIN disk'.tables = DOMAIN disk.tables \union new
  BY <1>1 DEF ShapeOK, DiskOK, Maps
<1> QED BY <1>1, <1>2 DEF ShapeOK, DiskOK

LEMMA EditShape ==
  ASSUME NEW add0 \in SUBSET Nat, NEW add1 \in SUBSET Nat, NEW gone \in SUBSET Nat, NEW log \in Nat,
         NEW v \in Versions
  PROVE  LET e == Edit(add0, add1, gone, log, v)
         IN /\ e \in Edits /\ e.add0 = add0 /\ e.add1 = add1 /\ e.gone = gone /\ e.log = log
            /\ e.next = v.next /\ e.last = v.last
BY DEF Edit, Edits, Versions

LEMMA BuildTableIInv ==
  ASSUME IInv, BuildTable
  PROVE  IInv'
<1> DEFINE new == IF imm = Nothing THEN {} ELSE {bg.table}
<1>1. /\ bg.flush = "build"
      /\ disk' = [disk EXCEPT !.tables = [t \in DOMAIN @ \union new |-> IF t \in new THEN imm ELSE @[t]]]
      /\ UNCHANGED <<queue, group, mem, imm, logfile, versions, phase, unread>>
  BY DEF BuildTable
<1>2. InCall
  BY <1>1 DEF InCall
<1>3. /\ ShapeOK /\ bg.scheduled /\ versions \in Versions /\ bg \in Calls /\ unread = {} /\ versions.next \in Nat
      /\ phase \in {"open", "closing"} /\ imm # None /\ imm \in Batches
      /\ bg.table \in Given \ Tables /\ bg.table \in Nat /\ bg.merge \in {"none", "scan", "output"}
  BY <1>1, <1>2, InCallFacts DEF IInv, ShapeOK, WorkRight, Given
<1>4. new \in SUBSET Nat /\ new \subseteq {bg.table}
  BY <1>3
<1>5. /\ DiskOK' /\ disk'.logs = disk.logs /\ disk'.manifest = disk.manifest
      /\ DOMAIN disk'.tables = DOMAIN disk.tables \union new
  <2> HIDE DEF new
  <2> QED BY <1>1, <1>3, <1>4, TableAdded
<1>6. TablesRight'
  BY <1>1, <1>5 DEF IInv, TablesRight, Tables, Given
<1>7. CASE phase = "closing"
  <2>1. FlushFailed
    BY <1>7 DEF BuildTable
  <2> QED BY <1>1, <1>5, <1>6, <2>1, FlushFailedIInv
<1>8. CASE phase # "closing"
  <2> DEFINE e == Edit(new, {}, {}, logfile, versions)
  <2>1. pc' = pc /\ bg' = [bg EXCEPT !.flush = "write", !.edit = e]
    BY <1>8 DEF BuildTable
  <2>2. /\ e \in Edits /\ e.add0 = new /\ e.add1 = {} /\ e.gone = {} /\ e.log = logfile /\ e.next = versions.next
    <3> HIDE DEF new
    <3>1. logfile \in Nat /\ versions \in Versions
      BY <1>3 DEF ShapeOK
    <3>2. new \in SUBSET Nat /\ {} \in SUBSET Nat
      BY <1>4
    <3> QED BY <3>1, <3>2, EditShape
  <2> HIDE DEF e, new
  <2>3. /\ bg' \in Calls /\ bg'.flush = "write" /\ bg'.edit = e /\ bg'.merge = bg.merge /\ bg'.output = bg.output
        /\ bg'.table = bg.table /\ bg'.inputs = bg.inputs /\ bg'.error = bg.error /\ bg'.scheduled = bg.scheduled
    BY <1>3, <2>1, <2>2 DEF Calls
  <2>4. WakesOnly(pc')
    BY <1>3, <2>1, WokenFacts
  <2>5. CallsRight'
    BY <1>1, <1>3, <2>1, <2>3 DEF IInv, CallsRight, InCall
  <2>6. LogsRight'
    BY <1>1, <1>5 DEF IInv, LogsRight, LogsFrom
  <2>7. WorkRight'
    BY <1>1, <1>3, <1>5, <2>3 DEF IInv, WorkRight, Given, Tables
  <2>8. EditRight'
    <3>1. new \subseteq DOMAIN disk'.tables \intersect (1..(versions.next - 1))
      BY <1>3, <1>4, <1>5 DEF Given
    <3>2. /\ disk.manifest.next <= versions.next /\ versions.log <= logfile /\ logfile < versions.next
          /\ logfile \in Nat /\ logfile <= logfile
      BY <1>3 DEF IInv, TablesRight, LogsRight, ShapeOK
    <3> QED BY <1>1, <1>3, <1>4, <1>5, <2>2, <2>3, <3>1, <3>2 DEF EditRight
  <2>9. ManifestRight'
    BY <1>1, <1>3, <1>5, <2>3 DEF IInv, ManifestRight, Ahead
  <2>10. unread \subseteq DOMAIN disk'.logs /\ versions' \in Versions /\ (imm' = None \/ imm' \in Batches)
    BY <1>1, <1>3
  <2> QED BY <1>1, <1>5, <1>6, <2>3, <2>4, <2>5, <2>6, <2>7, <2>8, <2>9, <2>10, BackgroundIInv DEF FilesRight
<1> QED BY <1>7, <1>8

LEMMA BuildTableFailsIInv ==
  ASSUME IInv, BuildTableFails
  PROVE  IInv'
<1>1. /\ bg.flush = "build" /\ FlushFailed
      /\ UNCHANGED <<queue, group, mem, imm, logfile, versions, disk, phase, unread>>
  BY DEF BuildTableFails
<1>2. DiskOK' /\ TablesRight'
  BY <1>1 DEF IInv, ShapeOK, DiskOK, TablesRight, Tables, Given
<1> QED BY <1>1, <1>2, FlushFailedIInv

-------------------------------------------------------------------------------
(* What DeleteObsoleteFiles leaves. *)
LEMMA CleanedFacts ==
  ASSUME ShapeOK, NEW v \in Versions, NEW b, disk' = Cleaned(disk, v, b)
  PROVE  /\ DiskOK' /\ disk'.manifest = disk.manifest
         /\ DOMAIN disk'.logs \subseteq DOMAIN disk.logs
         /\ \A n \in DOMAIN disk.logs : n >= v.log => n \in DOMAIN disk'.logs /\ disk'.logs[n] = disk.logs[n]
         /\ DOMAIN disk.tables \intersect (v.l0 \union v.l1 \union Pending(b)) \subseteq DOMAIN disk'.tables
         /\ b.error => disk' = disk
<1>1. CASE b.error
  <2>1. disk' = disk
    BY <1>1 DEF Cleaned
  <2> QED BY <2>1 DEF ShapeOK, DiskOK
<1>2. CASE ~b.error
  <2> DEFINE live == v.l0 \union v.l1 \union Pending(b)
  <2>1. disk' = [disk EXCEPT !.logs = [n \in {m \in DOMAIN @ : m >= v.log} |-> @[n]],
                             !.tables = [t \in DOMAIN @ \intersect live |-> @[t]]]
    BY <1>2 DEF Cleaned
  <2> HIDE DEF live
  <2>2. /\ disk' = [logs |-> disk'.logs, tables |-> disk'.tables, manifest |-> disk'.manifest]
        /\ disk'.manifest = disk.manifest
        /\ disk'.logs = [n \in {m \in DOMAIN disk.logs : m >= v.log} |-> disk.logs[n]]
        /\ disk'.tables = [t \in DOMAIN disk.tables \intersect live |-> disk.tables[t]]
    BY <2>1 DEF ShapeOK, DiskOK
  <2>3. Maps(disk'.tables, Batches) /\ DOMAIN disk'.tables = DOMAIN disk.tables \intersect live
    BY <2>2 DEF ShapeOK, DiskOK, Maps
  <2>4. /\ disk'.logs = [n \in DOMAIN disk'.logs |-> disk'.logs[n]]
        /\ DOMAIN disk'.logs = {m \in DOMAIN disk.logs : m >= v.log}
        /\ \A n \in DOMAIN disk'.logs : disk'.logs[n] = disk.logs[n]
    BY <2>2
  <2>5. DiskOK'
    BY <2>2, <2>3, <2>4 DEF ShapeOK, DiskOK
  <2> QED BY <1>2, <2>2, <2>3, <2>4, <2>5 DEF live
<1> QED BY <1>1, <1>2

(* An edit that is in the manifest becomes part of the version in use, and *)
(* the files that are obsolete may go: those of the new version stay, and  *)
(* so do those the background thread still works on.                       *)
LEMMA InstallFiles ==
  ASSUME IInv, Ahead, versions' = Edited(versions, bg.edit), NEW b, b.error = bg.error,
         disk' = disk \/ disk' = Cleaned(disk, versions', b),
         UNCHANGED <<logfile, unread>>, phase' \in {"open", "closing"}
  PROVE  /\ versions' \in Versions /\ versions'.next = versions.next
         /\ versions'.l0 = (versions.l0 \ bg.edit.gone) \union bg.edit.add0
         /\ versions'.l1 = (versions.l1 \ bg.edit.gone) \union bg.edit.add1
         /\ DiskOK' /\ TablesRight' /\ LogsRight' /\ unread \subseteq DOMAIN disk'.logs
         /\ DOMAIN disk.tables \intersect Pending(b) \subseteq DOMAIN disk'.tables
         /\ ~bg.error => /\ disk'.manifest.l0 = versions'.l0 /\ disk'.manifest.l1 = versions'.l1
                         /\ disk'.manifest.log = versions'.log
<1>1. /\ ShapeOK /\ versions \in Versions /\ bg.edit \in Edits
      /\ versions.next \in Nat /\ versions.log \in Nat /\ logfile \in Nat /\ bg.edit.next \in Nat /\ bg.edit.log \in Nat
  BY DEF IInv, ShapeOK, Versions, Calls, Edits
<1>2. Editing /\ phase \notin {"down", "recovering"} /\ unread = {}
  BY DEF IInv, Ahead, Editing, CallsRight, InCall, LogsRight
<1>3. /\ versions' \in Versions /\ versions'.next = versions.next /\ versions'.log = bg.edit.log
      /\ versions'.l0 = (versions.l0 \ bg.edit.gone) \union bg.edit.add0
      /\ versions'.l1 = (versions.l1 \ bg.edit.gone) \union bg.edit.add1
  BY <1>1, EditedFields
<1>4. /\ DiskOK' /\ disk'.manifest = disk.manifest
      /\ DOMAIN disk'.logs \subseteq DOMAIN disk.logs
      /\ \A n \in DOMAIN disk.logs :
           n >= versions'.log => n \in DOMAIN disk'.logs /\ disk'.logs[n] = disk.logs[n]
      /\ DOMAIN disk.tables \intersect (versions'.l0 \union versions'.l1 \union Pending(b)) \subseteq DOMAIN disk'.tables
      /\ b.error => disk' = disk
  <2>1. CASE disk' = disk
    BY <1>1, <2>1 DEF ShapeOK, DiskOK
  <2>2. CASE disk' = Cleaned(disk, versions', b)
    BY <1>1, <1>3, <2>2, CleanedFacts
  <2> QED BY <2>1, <2>2
<1>5. ~bg.error => /\ disk.manifest.l0 = versions'.l0 /\ disk.manifest.l1 = versions'.l1
                   /\ disk.manifest.log = versions'.log
  BY <1>2 DEF IInv, ManifestRight
<1>6. TablesRight'
  <2>1. disk.manifest.l0 \union disk.manifest.l1 \subseteq DOMAIN disk.tables
    BY DEF IInv, TablesRight
  <2>2. disk.manifest.l0 \union disk.manifest.l1 \subseteq DOMAIN disk'.tables
    BY <1>4, <1>5, <2>1
  <2>3. Tables' \subseteq DOMAIN disk.tables \intersect Given
    <3>1. bg.edit.add0 \union bg.edit.add1 \subseteq DOMAIN disk.tables \intersect Given
      BY <1>1, <1>2 DEF IInv, EditRight, Given
    <3>2. Tables \subseteq DOMAIN disk.tables \intersect Given
      BY <1>2 DEF IInv, TablesRight
    <3> QED BY <1>3, <3>1, <3>2 DEF Tables
  <2>4. Tables' \subseteq DOMAIN disk'.tables \intersect Given'
    <3>1. Given' = Given /\ Tables' = versions'.l0 \union versions'.l1
      BY <1>3 DEF Given, Tables
    <3> QED BY <1>4, <2>3, <3>1
  <2> QED BY <1>2, <1>3, <1>4, <2>2, <2>4 DEF IInv, TablesRight
<1>7. LogsRight'
  <2>1. /\ versions.log <= bg.edit.log /\ bg.edit.log <= logfile /\ logfile < versions.next
        /\ logfile \in DOMAIN disk.logs /\ disk.logs[logfile] \in Seq(Records)
        /\ LogsFrom(versions.log) \subseteq 0..(versions.next - 1)
    BY <1>2 DEF IInv, EditRight, LogsRight
  <2>2. LogsFrom(versions.log)' \subseteq LogsFrom(versions.log)
    BY <1>1, <1>3, <1>4, <2>1 DEF LogsFrom, ShapeOK, DiskOK
  <2>3. logfile \in DOMAIN disk'.logs /\ disk'.logs[logfile] \in Seq(Records)
    BY <1>1, <1>3, <1>4, <2>1
  <2> QED BY <1>2, <1>3, <2>1, <2>2, <2>3 DEF LogsRight
<1> QED BY <1>2, <1>3, <1>4, <1>5, <1>6, <1>7

LEMMA InstallFlushIInv ==
  ASSUME IInv, InstallFlush
  PROVE  IInv'
<1> DEFINE b == [bg EXCEPT !.flush = "none"]
<1>1. /\ bg.flush = "install" /\ versions' = Edited(versions, bg.edit) /\ disk' = Cleaned(disk, versions', b)
      /\ FlushEnds(b, None, versions') /\ imm' = None /\ UNCHANGED <<queue, group, mem, logfile, phase, unread>>
  BY DEF InstallFlush
<1>2. InCall /\ Ahead
  BY <1>1 DEF InCall, Ahead
<1>3. /\ ShapeOK /\ bg.scheduled /\ phase \in {"open", "closing"} /\ bg \in Calls /\ bg.edit \in Edits
      /\ bg.merge \in {"none", "scan", "output"}
  BY <1>1, <1>2, InCallFacts DEF IInv, WorkRight
<1>4. /\ b \in Calls /\ b.error = bg.error /\ b.error \in BOOLEAN /\ b.flush = "none" /\ b.merge = bg.merge
      /\ b.output = bg.output /\ b.inputs = bg.inputs /\ b.scheduled = bg.scheduled /\ b.edit = bg.edit
  BY <1>3 DEF Calls
<1> HIDE DEF b
<1>5. /\ versions' \in Versions /\ versions'.next = versions.next
      /\ versions'.l0 = (versions.l0 \ bg.edit.gone) \union bg.edit.add0
      /\ versions'.l1 = (versions.l1 \ bg.edit.gone) \union bg.edit.add1
      /\ DiskOK' /\ TablesRight' /\ LogsRight' /\ unread \subseteq DOMAIN disk'.logs
      /\ DOMAIN disk.tables \intersect Pending(b) \subseteq DOMAIN disk'.tables
      /\ ~bg.error => /\ disk'.manifest.l0 = versions'.l0 /\ disk'.manifest.l1 = versions'.l1
                      /\ disk'.manifest.log = versions'.log
  BY <1>1, <1>2, <1>3, <1>4, InstallFiles
<1>6. /\ WakesOnly(pc') /\ bg' \in Calls /\ bg'.error = bg.error /\ bg'.flush = "none" /\ CallsRight'
      /\ \/ IdleLike(bg')
         \/ bg.merge # "none" /\ bg'.merge = bg.merge /\ bg'.inputs = bg.inputs /\ bg'.output = bg.output
  <2>1. CASE bg.merge = "none"
    <3>1. CallEnds(b, imm', versions')
      BY <1>1, <2>1 DEF FlushEnds
    <3>2. CallsRight'
      BY <1>1, <1>3, <1>4, <3>1, CallEndsCalls
    <3> QED BY <1>3, <1>4, <3>1, <3>2, CallEndsFacts DEF IdleLike
  <2>2. CASE bg.merge # "none"
    <3>1. bg' = [b EXCEPT !.flush = "none"] /\ pc' = Woken(pc)
      BY <1>1, <2>2 DEF FlushEnds
    <3>2. /\ bg' \in Calls /\ bg'.error = bg.error /\ bg'.flush = "none" /\ bg'.merge = bg.merge
          /\ bg'.inputs = bg.inputs /\ bg'.output = bg.output /\ bg'.scheduled
      BY <1>3, <1>4, <3>1 DEF Calls
    <3>3. CallsRight'
      BY <1>1, <1>3, <3>2 DEF CallsRight
    <3> QED BY <1>3, <2>2, <3>1, <3>2, <3>3, WokenFacts
  <2> QED BY <2>1, <2>2
<1>7. WorkRight'
  <2>1. CASE IdleLike(bg')
    BY <2>1 DEF WorkRight, IdleLike
  <2>2. CASE bg.merge # "none" /\ bg'.merge = bg.merge /\ bg'.inputs = bg.inputs /\ bg'.output = bg.output
    <3>1. /\ bg.edit.add0 \subseteq {bg.table} /\ bg.edit.add1 = {} /\ bg.edit.gone = {}
          /\ bg.inputs \subseteq Tables /\ (bg.merge = "output" => bg.table # bg.output)
      BY <1>1, <2>2 DEF IInv, EditRight, WorkRight
    <3>2. Tables \subseteq Tables' /\ Tables' \subseteq Tables \union {bg.table}
      BY <1>5, <3>1 DEF Tables
    <3>3. bg.merge = "output" =>
            /\ bg.output \in {0} \union (Given' \intersect DOMAIN disk'.tables)
            /\ bg.output \notin Tables' /\ bg.output # 0
      <4>1. bg.merge = "output" => bg.output \in Pending(b)
        BY <1>4 DEF Pending
      <4>2. Given' = Given
        BY <1>5 DEF Given
      <4> QED BY <1>5, <3>1, <3>2, <4>1, <4>2 DEF IInv, WorkRight
    <3> QED BY <1>3, <1>6, <2>2, <3>1, <3>2, <3>3 DEF WorkRight
  <2> QED BY <1>6, <2>1, <2>2
<1>8. EditRight' /\ ManifestRight'
  <2>1. ~Editing' /\ ~Ahead'
    BY <1>1, <1>3, <1>6 DEF Editing, Ahead, IdleLike
  <2> QED BY <1>1, <1>3, <1>5, <1>6, <2>1 DEF EditRight, ManifestRight
<1> QED BY <1>1, <1>5, <1>6, <1>7, <1>8, BackgroundIInv DEF FilesRight

-------------------------------------------------------------------------------
(* The merge of tables. *)

(* A step of the merge that moves bg alone, and not the call it is in. *)
LEMMA MergeStepCalls ==
  ASSUME IInv, bg.scheduled, UNCHANGED <<pc, imm, phase>>, versions'.l0 = versions.l0,
         bg'.scheduled = bg.scheduled, bg'.error = bg.error
  PROVE  CallsRight'
BY DEF IInv, CallsRight

LEMMA BeginMergeIInv ==
  ASSUME IInv, BeginMerge
  PROVE  IInv'
<1> DEFINE e == Edit({}, versions.l0, versions.l0, versions.log, versions)
<1>1. /\ phase = "open" /\ bg.scheduled /\ bg.flush = "none" /\ bg.merge = "none"
      /\ UNCHANGED <<pc, queue, group, mem, imm, logfile, versions, disk, phase, unread>>
  BY DEF BeginMerge, InCall
<1>2. /\ ShapeOK /\ versions \in Versions /\ bg \in Calls /\ unread = {} /\ versions.next \in Nat
      /\ versions.log \in Nat /\ versions.log <= logfile /\ logfile < versions.next /\ logfile \in Nat
      /\ versions.l0 \subseteq Nat /\ versions.l1 \subseteq Nat /\ bg.inputs = {}
  BY <1>1, InCallFacts DEF IInv, Versions, WorkRight
<1>3. /\ e \in Edits /\ e.add0 = {} /\ e.add1 = versions.l0 /\ e.gone = versions.l0
      /\ e.log = versions.log /\ e.next = versions.next
  BY <1>2, EditShape
<1>4. \/ bg' = [bg EXCEPT !.merge = "write", !.output = 0, !.edit = e]
      \/ bg' = [bg EXCEPT !.merge = "scan", !.inputs = Tables]
  BY DEF BeginMerge, MergeInputs, Tables
<1> HIDE DEF e
<1>5. /\ bg' \in Calls /\ bg'.flush = bg.flush /\ bg'.error = bg.error /\ bg'.scheduled = bg.scheduled
      /\ \/ bg'.merge = "write" /\ bg'.output = 0 /\ bg'.inputs = {} /\ bg'.edit = e
         \/ bg'.merge = "scan" /\ bg'.inputs = Tables
  <2>1. Tables \subseteq Nat
    BY <1>2 DEF Tables
  <2>2. CASE bg' = [bg EXCEPT !.merge = "write", !.output = 0, !.edit = e]
    BY <1>2, <1>3, <2>2 DEF Calls
  <2>3. CASE bg' = [bg EXCEPT !.merge = "scan", !.inputs = Tables]
    BY <1>2, <2>1, <2>3 DEF Calls
  <2> QED BY <1>4, <2>2, <2>3
<1>6. WakesOnly(pc') /\ CallsRight'
  BY <1>1, <1>2, <1>5, WokenFacts, MergeStepCalls
<1>7. TablesRight' /\ LogsRight' /\ DiskOK'
  BY <1>1, <1>2 DEF IInv, ShapeOK, DiskOK, TablesRight, LogsRight, LogsFrom, Tables, Given
<1>8. WorkRight'
  <2>1. 0 \notin Tables
    BY <1>1 DEF IInv, TablesRight, Given
  <2>2. Tables' = Tables
    BY <1>1 DEF Tables
  <2> QED BY <1>1, <1>5, <2>1, <2>2 DEF WorkRight
<1>9. EditRight'
  <2>1. /\ versions.l0 \subseteq DOMAIN disk.tables \intersect (1..(versions.next - 1))
        /\ disk.manifest.next <= versions.next /\ versions.log < versions.next /\ versions.log <= versions.log
    BY <1>1, <1>2 DEF IInv, TablesRight, Tables, Given
  <2>2. CASE bg'.merge = "scan"
    BY <1>1, <1>5, <2>2 DEF EditRight, Editing
  <2>3. CASE bg'.merge = "write" /\ bg'.edit = e
    BY <1>1, <1>2, <1>3, <1>5, <2>1, <2>3 DEF EditRight
  <2> QED BY <1>5, <2>2, <2>3
<1>10. ManifestRight'
  BY <1>1, <1>5 DEF IInv, ManifestRight, Ahead
<1>11. versions' \in Versions /\ (imm' = None \/ imm' \in Batches) /\ unread \subseteq DOMAIN disk'.logs
  BY <1>1, <1>2 DEF ShapeOK
<1> QED BY <1>1, <1>5, <1>6, <1>7, <1>8, <1>9, <1>10, <1>11, BackgroundIInv DEF FilesRight

LEMMA OpenOutputIInv ==
  ASSUME IInv, OpenOutput
  PROVE  IInv'
<1> DEFINE n == versions.next
           batch == Content(bg.inputs)
<1>1. /\ bg.merge = "scan" /\ bg.flush = "none" /\ phase = "open"
      /\ disk' = [disk EXCEPT !.tables = [t \in DOMAIN @ \union {n} |-> IF t \in {n} THEN batch ELSE @[t]]]
      /\ bg' = [bg EXCEPT !.merge = "output", !.output = n] /\ versions' = [versions EXCEPT !.next = @ + 1]
      /\ UNCHANGED <<pc, queue, group, mem, imm, logfile, phase, unread>>
  BY DEF OpenOutput
<1>2. /\ ShapeOK /\ bg.scheduled /\ n \in Nat /\ n > 0 /\ versions \in Versions /\ bg \in Calls /\ unread = {}
      /\ versions.log \in Nat /\ logfile \in Nat /\ logfile < n
  BY <1>1, InCallFacts DEF IInv, InCall
<1>3. /\ versions' \in Versions /\ versions'.next = n + 1 /\ versions'.log = versions.log
      /\ versions'.l0 = versions.l0 /\ versions'.l1 = versions.l1
  BY <1>1, <1>2 DEF Versions
<1>4. /\ bg' \in Calls /\ bg'.flush = "none" /\ bg'.merge = "output" /\ bg'.output = n
      /\ bg'.inputs = bg.inputs /\ bg'.edit = bg.edit /\ bg'.error = bg.error /\ bg'.scheduled = bg.scheduled
  BY <1>1, <1>2 DEF Calls
<1>5. Given' = Given \union {n} /\ n \notin Given /\ Tables' = Tables /\ n # 0
  BY <1>2, <1>3 DEF Given, Tables
<1>6. batch \in Batches
  <2>1. bg.inputs \subseteq DOMAIN disk.tables
    BY <1>1 DEF IInv, WorkRight, TablesRight
  <2>2. {disk.tables[t] : t \in bg.inputs} \in SUBSET Batches
    BY <1>2, <2>1 DEF ShapeOK, DiskOK, Maps
  <2> QED BY <2>2, EntriesBatch DEF Content
<1> HIDE DEF batch
<1>7. /\ DiskOK' /\ disk'.logs = disk.logs /\ disk'.manifest = disk.manifest
      /\ DOMAIN disk'.tables = DOMAIN disk.tables \union {n}
  BY <1>1, <1>2, <1>6, TableAdded
<1>8. WakesOnly(pc') /\ CallsRight'
  BY <1>1, <1>2, <1>3, <1>4, WokenFacts, MergeStepCalls
<1>9. TablesRight'
  <2>1. disk.manifest.next \in Nat /\ disk.manifest.next <= n
    BY <1>1, <1>2 DEF IInv, ShapeOK, DiskOK, Versions, TablesRight
  <2>2. disk.manifest.next <= n + 1
    BY <1>2, <2>1
  <2> QED BY <1>1, <1>3, <1>5, <1>7, <2>2 DEF IInv, TablesRight
<1>10. LogsRight'
  <2>1. \A m \in 0..(n - 1) : m \in 0..((n + 1) - 1)
    BY <1>2
  <2>2. logfile < n + 1
    BY <1>2
  <2> QED BY <1>1, <1>2, <1>3, <1>7, <2>1, <2>2 DEF IInv, LogsRight, LogsFrom
<1>11. WorkRight'
  BY <1>1, <1>4, <1>5, <1>7 DEF IInv, WorkRight, TablesRight
<1>12. EditRight'
  BY <1>1, <1>4 DEF EditRight, Editing
<1>13. ManifestRight'
  BY <1>1, <1>3, <1>4, <1>7 DEF IInv, ManifestRight, Ahead
<1>14. unread \subseteq DOMAIN disk'.logs /\ (imm' = None \/ imm' \in Batches)
  BY <1>1, <1>2 DEF ShapeOK
<1> QED BY <1>1, <1>3, <1>4, <1>7, <1>8, <1>9, <1>10, <1>11, <1>12, <1>13, <1>14, BackgroundIInv DEF FilesRight

LEMMA FinishOutputIInv ==
  ASSUME IInv, FinishOutput
  PROVE  IInv'
<1> DEFINE e == Edit({}, {bg.output}, bg.inputs, versions.log, versions)
<1>1. /\ bg.merge = "output" /\ bg.flush = "none" /\ phase = "open"
      /\ bg' = [bg EXCEPT !.merge = "write", !.edit = e]
      /\ UNCHANGED <<pc, queue, group, mem, imm, logfile, versions, disk, phase, unread>>
  BY DEF FinishOutput
<1>2. /\ ShapeOK /\ bg.scheduled /\ versions \in Versions /\ bg \in Calls /\ unread = {} /\ versions.next \in Nat
      /\ versions.log \in Nat /\ versions.log <= logfile /\ logfile < versions.next /\ logfile \in Nat
      /\ bg.inputs \subseteq Nat /\ bg.output \in Nat
  BY <1>1, InCallFacts DEF IInv, InCall, Calls
<1>3. /\ e \in Edits /\ e.add0 = {} /\ e.add1 = {bg.output} /\ e.gone = bg.inputs
      /\ e.log = versions.log /\ e.next = versions.next
  BY <1>2, EditShape
<1> HIDE DEF e
<1>4. /\ bg' \in Calls /\ bg'.flush = "none" /\ bg'.merge = "write" /\ bg'.output = bg.output
      /\ bg'.inputs = bg.inputs /\ bg'.edit = e /\ bg'.error = bg.error /\ bg'.scheduled = bg.scheduled
  BY <1>1, <1>2, <1>3 DEF Calls
<1>5. WakesOnly(pc') /\ CallsRight'
  BY <1>1, <1>2, <1>4, WokenFacts, MergeStepCalls
<1>6. TablesRight' /\ LogsRight' /\ DiskOK'
  BY <1>1, <1>2 DEF IInv, ShapeOK, DiskOK, TablesRight, LogsRight, LogsFrom, Tables, Given
<1>7. WorkRight'
  BY <1>1, <1>4 DEF IInv, WorkRight, Tables, Given
<1>8. EditRight'
  <2>1. bg.output \in DOMAIN disk.tables \intersect (1..(versions.next - 1))
    BY <1>1 DEF IInv, WorkRight, Given
  <2>2. disk.manifest.next <= versions.next /\ versions.log < versions.next /\ versions.log <= versions.log
    BY <1>1, <1>2 DEF IInv, TablesRight
  <2> QED BY <1>1, <1>2, <1>3, <1>4, <2>1, <2>2 DEF EditRight
<1>9. ManifestRight'
  BY <1>1, <1>4 DEF IInv, ManifestRight, Ahead
<1>10. versions' \in Versions /\ (imm' = None \/ imm' \in Batches) /\ unread \subseteq DOMAIN disk'.logs
  BY <1>1, <1>2 DEF ShapeOK
<1> QED BY <1>1, <1>4, <1>5, <1>6, <1>7, <1>8, <1>9, <1>10, BackgroundIInv DEF FilesRight

LEMMA MergeFailsIInv ==
  ASSUME IInv, MergeFails
  PROVE  IInv'
<1>1. /\ InCall /\ MergeFailed /\ UNCHANGED <<queue, group, mem, imm, logfile, versions, disk, phase, unread>>
  BY DEF MergeFails, InCall
<1>2. DiskOK' /\ TablesRight'
  BY <1>1 DEF IInv, ShapeOK, DiskOK, TablesRight, Tables, Given
<1> QED BY <1>1, <1>2, MergeFailedIInv

LEMMA InstallMergeIInv ==
  ASSUME IInv, InstallMerge
  PROVE  IInv'
<1> DEFINE b == [bg EXCEPT !.merge = "none"]
<1>1. /\ bg.merge = "install" /\ versions' = Edited(versions, bg.edit)
      /\ disk' = disk \/ disk' = Cleaned(disk, versions', b)
      /\ CallEnds(bg, imm', versions') /\ UNCHANGED <<queue, group, mem, imm, logfile, phase, unread>>
  BY DEF InstallMerge
<1>2. InCall /\ Ahead
  BY <1>1 DEF InCall, Ahead
<1>3. ShapeOK /\ bg.scheduled /\ phase \in {"open", "closing"} /\ bg \in Calls /\ bg.error \in BOOLEAN
  BY <1>2, InCallFacts DEF IInv, Calls
<1>4. b.error = bg.error
  BY <1>3 DEF Calls
<1> HIDE DEF b
<1>5. /\ versions' \in Versions
      /\ DiskOK' /\ TablesRight' /\ LogsRight' /\ unread \subseteq DOMAIN disk'.logs
      /\ ~bg.error => /\ disk'.manifest.l0 = versions'.l0 /\ disk'.manifest.l1 = versions'.l1
                      /\ disk'.manifest.log = versions'.log
  BY <1>1, <1>2, <1>3, <1>4, InstallFiles
<1>6. WakesOnly(pc') /\ bg' \in Calls /\ IdleLike(bg') /\ bg'.error = bg.error
  BY <1>1, <1>3, CallEndsFacts
<1>7. CallsRight'
  BY <1>1, <1>3, CallEndsCalls
<1>8. WorkRight' /\ EditRight' /\ ManifestRight'
  BY <1>1, <1>3, <1>5, <1>6 DEF WorkRight, EditRight, ManifestRight, Editing, Ahead, IdleLike
<1>9. imm' = None \/ imm' \in Batches
  BY <1>1, <1>3 DEF ShapeOK
<1> QED BY <1>1, <1>5, <1>6, <1>7, <1>8, <1>9, BackgroundIInv DEF FilesRight

-------------------------------------------------------------------------------
(* The manifest. *)

(* The manifest is always that of some version whose files are there. *)
LEMMA ManifestWritten ==
  ASSUME IInv, Editing, disk' = [disk EXCEPT !.manifest = Written(@, bg.edit)], UNCHANGED <<versions, unread>>,
         phase' # "down"
  PROVE  /\ DiskOK' /\ disk'.logs = disk.logs /\ disk'.tables = disk.tables
         /\ disk'.manifest.l0 = (disk.manifest.l0 \ bg.edit.gone) \union bg.edit.add0
         /\ disk'.manifest.l1 = (disk.manifest.l1 \ bg.edit.gone) \union bg.edit.add1
         /\ disk'.manifest.log = bg.edit.log /\ disk'.manifest.next = bg.edit.next
         /\ TablesRight'
<1>1. /\ ShapeOK /\ bg.edit \in Edits /\ disk.manifest \in Versions /\ versions.next \in Nat
      /\ bg.edit.next \in Nat /\ disk.manifest.next \in Nat /\ phase # "down"
  BY DEF IInv, ShapeOK, DiskOK, Calls, Edits, Versions, Editing, CallsRight, InCall
<1>2. LET m == Written(disk.manifest, bg.edit)
      IN /\ m \in Versions /\ m.log = bg.edit.log /\ m.next = bg.edit.next
         /\ m.l0 = (disk.manifest.l0 \ bg.edit.gone) \union bg.edit.add0
         /\ m.l1 = (disk.manifest.l1 \ bg.edit.gone) \union bg.edit.add1
  BY <1>1 DEF Written, Edited, Versions, Edits
<1>3. /\ disk' = [logs |-> disk'.logs, tables |-> disk'.tables, manifest |-> disk'.manifest]
      /\ disk'.logs = disk.logs /\ disk'.tables = disk.tables
      /\ disk'.manifest = Written(disk.manifest, bg.edit)
  BY <1>1 DEF ShapeOK, DiskOK
<1>4. DiskOK'
  BY <1>1, <1>2, <1>3 DEF ShapeOK, DiskOK
<1>5. /\ bg.edit.add0 \union bg.edit.add1 \subseteq DOMAIN disk.tables \intersect (1..(bg.edit.next - 1))
      /\ bg.edit.next <= versions.next /\ disk.manifest.next <= bg.edit.next /\ bg.edit.log < bg.edit.next
  BY DEF IInv, EditRight
<1>6. /\ disk.manifest.l0 \union disk.manifest.l1 \subseteq DOMAIN disk.tables
      /\ disk.manifest.l0 \union disk.manifest.l1 \subseteq 1..(bg.edit.next - 1)
  <2>1. /\ disk.manifest.l0 \union disk.manifest.l1 \subseteq DOMAIN disk.tables
        /\ disk.manifest.l0 \union disk.manifest.l1 \subseteq 1..(disk.manifest.next - 1)
    BY DEF IInv, TablesRight
  <2>2. 1..(disk.manifest.next - 1) \subseteq 1..(bg.edit.next - 1)
    BY <1>1, <1>5
  <2> QED BY <2>1, <2>2
<1>7. /\ disk'.manifest.l0 \union disk'.manifest.l1 \subseteq DOMAIN disk'.tables
      /\ disk'.manifest.l0 \union disk'.manifest.l1 \subseteq 1..(disk'.manifest.next - 1)
  BY <1>2, <1>3, <1>5, <1>6
<1>8. TablesRight'
  BY <1>1, <1>2, <1>3, <1>5, <1>7 DEF IInv, TablesRight, Tables, Given
<1> QED BY <1>2, <1>3, <1>4, <1>8

LEMMA WriteManifestIInv ==
  ASSUME IInv, WriteManifest
  PROVE  IInv'
<1>1. /\ bg.flush = "write" \/ bg.merge = "write" \/ phase = "recovered"
      /\ disk' = [disk EXCEPT !.manifest = Written(@, bg.edit)]
      /\ bg' = [bg EXCEPT !.flush = IF @ = "write" THEN "install" ELSE @,
                          !.merge = IF @ = "write" THEN "install" ELSE @]
      /\ phase' = IF phase = "recovered" THEN "saved" ELSE phase
      /\ UNCHANGED <<pc, queue, group, mem, imm, logfile, versions, unread>>
  BY DEF WriteManifest
<1>2. ShapeOK /\ QueueRight /\ Editing /\ bg \in Calls /\ phase # "down" /\ phase' # "down" /\ phase # "recovering"
  BY <1>1 DEF IInv, ShapeOK, Editing, CallsRight, InCall
<1>3. ~Ahead
  BY <1>1 DEF IInv, Ahead, WorkRight, CallsRight, InCall
<1>4. /\ bg' \in Calls /\ bg'.scheduled = bg.scheduled /\ bg'.error = bg.error /\ bg'.table = bg.table
      /\ bg'.inputs = bg.inputs /\ bg'.output = bg.output /\ bg'.edit = bg.edit
      /\ bg'.flush = (IF bg.flush = "write" THEN "install" ELSE bg.flush)
      /\ bg'.merge = (IF bg.merge = "write" THEN "install" ELSE bg.merge)
  BY <1>1, <1>2 DEF Calls
<1>5. /\ DiskOK' /\ disk'.logs = disk.logs /\ disk'.tables = disk.tables
      /\ disk'.manifest.l0 = (disk.manifest.l0 \ bg.edit.gone) \union bg.edit.add0
      /\ disk'.manifest.l1 = (disk.manifest.l1 \ bg.edit.gone) \union bg.edit.add1
      /\ disk'.manifest.log = bg.edit.log /\ disk'.manifest.next = bg.edit.next
      /\ TablesRight'
  BY <1>1, <1>2, ManifestWritten
<1>6. phase' \in {"open", "closing", "saved"} /\ (phase' = phase \/ (phase = "recovered" /\ phase' = "saved"))
  BY <1>1, <1>2 DEF ShapeOK, IInv, Editing, CallsRight, InCall
<1>7. ShapeOK'
  BY <1>1, <1>2, <1>4, <1>5, <1>6 DEF ShapeOK
<1>8. QueueRight'
  BY <1>1, <1>2, <1>6 DEF QueueRight
<1>9. CallsRight'
  BY <1>1, <1>4, <1>6 DEF IInv, CallsRight, InCall
<1>10. LogsRight'
  BY <1>1, <1>2, <1>5, <1>6 DEF IInv, LogsRight, LogsFrom
<1>11. WorkRight'
  BY <1>1, <1>4, <1>5 DEF IInv, WorkRight, Tables, Given
<1>12. EditRight'
  <2>1. bg.edit.next \in Nat /\ bg.edit.next <= bg.edit.next
    BY <1>2 DEF Calls, Edits
  <2>2. bg'.flush \in {"write", "install"} <=> bg.flush \in {"write", "install"}
    BY <1>2, <1>4 DEF Calls
  <2> QED BY <1>1, <1>2, <1>4, <1>5, <1>6, <2>1, <2>2 DEF IInv, EditRight
<1>13. ManifestRight'
  <2>1. Ahead'
    BY <1>1, <1>4 DEF Ahead
  <2>2. ~bg.error => /\ disk.manifest.l0 = versions.l0 /\ disk.manifest.l1 = versions.l1
                     /\ disk.manifest.log = versions.log
    BY <1>2, <1>3 DEF IInv, ManifestRight
  <2>3. /\ Edited(versions', bg'.edit).l0 = (versions.l0 \ bg.edit.gone) \union bg.edit.add0
        /\ Edited(versions', bg'.edit).l1 = (versions.l1 \ bg.edit.gone) \union bg.edit.add1
        /\ Edited(versions', bg'.edit).log = bg.edit.log
    BY <1>1, <1>2, <1>4, EditedFields DEF ShapeOK, Calls
  <2> QED BY <1>4, <1>5, <2>1, <2>2, <2>3 DEF ManifestRight
<1> QED BY <1>5, <1>7, <1>8, <1>9, <1>10, <1>11, <1>12, <1>13 DEF IInv

LEMMA WriteManifestFailsIInv ==
  ASSUME IInv, WriteManifestFails
  PROVE  IInv'
<1>1. /\ bg.flush = "write" \/ bg.merge = "write"
      /\ disk' = disk \/ disk' = [disk EXCEPT !.manifest = Written(@, bg.edit)]
      /\ IF bg.flush = "write" THEN FlushFailed ELSE MergeFailed
      /\ UNCHANGED <<queue, group, mem, imm, logfile, versions, phase, unread>>
  BY DEF WriteManifestFails
<1>2. Editing /\ InCall /\ phase # "down"
  BY <1>1 DEF IInv, Editing, CallsRight, InCall
<1>3. DiskOK' /\ TablesRight' /\ disk'.logs = disk.logs /\ disk'.tables = disk.tables
  <2>1. CASE disk' = disk
    BY <1>1, <2>1 DEF IInv, ShapeOK, DiskOK, TablesRight, Tables, Given
  <2>2. CASE disk' = [disk EXCEPT !.manifest = Written(@, bg.edit)]
    BY <1>1, <1>2, <2>2, ManifestWritten
  <2> QED BY <1>1, <2>1, <2>2
<1>4. CASE bg.flush = "write"
  BY <1>1, <1>3, <1>4, FlushFailedIInv
<1>5. CASE bg.flush # "write"
  BY <1>1, <1>2, <1>3, <1>5, MergeFailedIInv
<1> QED BY <1>4, <1>5

-------------------------------------------------------------------------------
(* The end of a process. *)

LEMMA CloseIInv ==
  ASSUME IInv, Close
  PROVE  IInv'
<1>1. /\ phase = "open" /\ queue = <<>> /\ (\A w \in Writer : pc[w] \notin {"await", "flushing"})
      /\ phase' = "closing" /\ UNCHANGED <<pc, queue, group, mem, imm, logfile, versions, bg, disk, unread>>
  BY DEF Close
<1>2. ShapeOK'
  BY <1>1 DEF IInv, ShapeOK, DiskOK
<1>3. QueueRight'
  <2>1. \A w \in Writer : pc[w] \notin Running \union {"parked"}
    BY <1>1 DEF IInv, QueueRight
  <2>2. \A w \in Writer : pc[w] \in Outside
    BY <1>1, <2>1 DEF IInv, ShapeOK
  <2> QED BY <1>1, <2>2 DEF IInv, QueueRight
<1>4. CallsRight'
  BY <1>1 DEF IInv, CallsRight, InCall
<1>5. TablesRight' /\ LogsRight'
  BY <1>1 DEF IInv, TablesRight, LogsRight, Tables, Given, LogsFrom
<1>6. WorkRight' /\ EditRight' /\ ManifestRight'
  BY <1>1 DEF IInv, WorkRight, EditRight, ManifestRight, Editing, Ahead, Edited, Tables, Given
<1> QED BY <1>2, <1>3, <1>4, <1>5, <1>6 DEF IInv

(* What is found of a log are some of its records. *)
LEMMA FoundRecords ==
  ASSUME NEW log, Maps(log, Records)
  PROVE  /\ \A l \in Readable(log) : Maps(l, Records)
         /\ \A l \in Remains(log) : Maps(l, Records)
<1>1. ASSUME NEW found \in SUBSET DOMAIN log PROVE Maps([i \in found |-> log[i]], Records)
  BY DEF Maps
<1>2. \A l \in Readable(log) : Maps(l, Records)
  BY <1>1 DEF Readable, Sound
<1>3. ASSUME NEW kept \in SUBSET DOMAIN log
      PROVE  Maps([i \in kept |-> [log[i] EXCEPT !.synced = TRUE]], Records)
  <2>1. \A i \in kept : [log[i] EXCEPT !.synced = TRUE] \in Records
    BY DEF Maps, Records
  <2> QED BY <2>1 DEF Maps
<1>4. \A l \in Remains(log) : Maps(l, Records)
  BY <1>3 DEF Remains
<1> QED BY <1>2, <1>4

LEMMA SurviveFacts ==
  ASSUME ShapeOK, NEW outcomes, Survive(outcomes),
         \A n \in DOMAIN outcomes : \A l \in outcomes[n] : Maps(l, Records)
  PROVE  /\ DiskOK' /\ disk'.tables = disk.tables /\ disk'.manifest = disk.manifest
         /\ DOMAIN disk'.logs = DOMAIN disk.logs
<1>1. PICK found : /\ DOMAIN found = DOMAIN outcomes /\ \A n \in DOMAIN outcomes : found[n] \in outcomes[n]
                   /\ disk' = [disk EXCEPT !.logs = [n \in DOMAIN @ |-> IF n \in DOMAIN found THEN found[n] ELSE @[n]]]
  BY DEF Survive
<1>2. /\ disk' = [logs |-> disk'.logs, tables |-> disk'.tables, manifest |-> disk'.manifest]
      /\ disk'.tables = disk.tables /\ disk'.manifest = disk.manifest
      /\ disk'.logs = [n \in DOMAIN disk.logs |-> IF n \in DOMAIN found THEN found[n] ELSE disk.logs[n]]
  BY <1>1 DEF ShapeOK, DiskOK
<1>3. DOMAIN disk'.logs = DOMAIN disk.logs /\ \A n \in DOMAIN disk.logs : Maps(disk'.logs[n], Records)
  BY <1>1, <1>2 DEF ShapeOK, DiskOK
<1> QED BY <1>2, <1>3 DEF ShapeOK, DiskOK

LEMMA ProcessGone ==
  ASSUME IInv, ProcessEnds \/ PowerFails, Forget
  PROVE  IInv'
<1>1. ShapeOK /\ \A n \in DOMAIN disk.logs : Maps(disk.logs[n], Records)
  BY DEF IInv, ShapeOK, DiskOK
<1>2. /\ DiskOK' /\ disk'.tables = disk.tables /\ disk'.manifest = disk.manifest
      /\ DOMAIN disk'.logs = DOMAIN disk.logs
  <2>1. CASE ProcessEnds
    <3> DEFINE outcomes == [n \in ToRead |-> Readable(disk.logs[n])]
    <3>1. \A n \in DOMAIN outcomes : \A l \in outcomes[n] : Maps(l, Records)
      BY <1>1, FoundRecords DEF ToRead, LogsFrom
    <3>2. Survive(outcomes)
      BY <2>1 DEF ProcessEnds
    <3> HIDE DEF outcomes
    <3> QED BY <1>1, <3>1, <3>2, SurviveFacts
  <2>2. CASE PowerFails
    <3> DEFINE outcomes == [n \in ToRead |-> UNION {Readable(l) : l \in Remains(disk.logs[n])}]
    <3>1. ASSUME NEW n \in ToRead, NEW l \in UNION {Readable(k) : k \in Remains(disk.logs[n])}
          PROVE  Maps(l, Records)
      <4>1. PICK k \in Remains(disk.logs[n]) : l \in Readable(k)
        OBVIOUS
      <4>2. Maps(k, Records)
        BY <1>1, FoundRecords DEF ToRead, LogsFrom
      <4> QED BY <4>1, <4>2, FoundRecords
    <3>2. \A n \in DOMAIN outcomes : \A l \in outcomes[n] : Maps(l, Records)
      BY <3>1
    <3>3. Survive(outcomes)
      BY <2>2 DEF PowerFails
    <3> HIDE DEF outcomes
    <3> QED BY <1>1, <3>2, <3>3, SurviveFacts
  <2> QED BY <2>1, <2>2
<1>3. /\ pc' = [w \in Writer |-> IF pc[w] \in Outside THEN pc[w] ELSE "gone"]
      /\ queue' = <<>> /\ group' = [size |-> 0, batch |-> Nothing] /\ mem' = Nothing /\ imm' = None
      /\ logfile' = 0 /\ bg' = Idle /\ unread' = {} /\ phase' = "down"
      /\ versions' = [last |-> 0, next |-> 0, log |-> 0, l0 |-> {}, l1 |-> {}]
  BY DEF Forget, Outside
<1>4. (\A w \in Writer : pc'[w] \in Outside) /\ pc' \in [Writer -> States]
  BY <1>3 DEF Outside, States
<1>5. ShapeOK'
  <2>1. /\ group' \in [size : Nat, batch : Batches] /\ mem' \in Batches /\ versions' \in Versions /\ bg' \in Calls
        /\ queue' \in Seq(Writer)
    BY <1>3, NothingBatch, IdleCall DEF Versions
  <2> QED BY <1>2, <1>3, <1>4, <2>1 DEF ShapeOK, States
<1>6. QueueRight'
  <2>1. \A w \in Writer : pc'[w] \notin Running \union {"parked"}
    BY <1>4 DEF Outside, Running, Writing
  <2> QED BY <1>3, <1>4, <2>1 DEF QueueRight, Running
<1>7. CallsRight'
  BY <1>3, <1>4, IdleCall DEF CallsRight, InCall, IdleLike, Outside
<1>8. TablesRight'
  BY <1>2, <1>3 DEF IInv, TablesRight, Tables
<1>9. LogsRight'
  BY <1>3 DEF LogsRight
<1>10. WorkRight' /\ EditRight' /\ ManifestRight'
  BY <1>3, IdleCall DEF WorkRight, EditRight, ManifestRight, Editing, IdleLike
<1> QED BY <1>5, <1>6, <1>7, <1>8, <1>9, <1>10 DEF IInv

LEMMA EndIInv ==
  ASSUME IInv, Closed \/ Crash
  PROVE  IInv'
BY ProcessGone DEF Closed, Crash

-------------------------------------------------------------------------------
(* The recovery.  No call of the background is under way and no writer is  *)
(* in the database: the versions, the edit and the disk are all it touches.*)
LEMMA RecoveryIInv ==
  ASSUME IInv, phase \notin {"open", "closing"}, phase' \in {"recovering", "recovered"},
         UNCHANGED <<pc, queue, group, mem, imm>>, versions' \in Versions, logfile' \in Nat,
         NEW e \in Edits, bg' = [bg EXCEPT !.edit = e], DiskOK', unread' \subseteq DOMAIN disk'.logs,
         TablesRight', LogsRight',
         bg'.edit = e => EditRight',
         disk'.manifest.l0 = versions'.l0, disk'.manifest.l1 = versions'.l1, disk'.manifest.log = versions'.log
  PROVE  IInv'
<1>1. ShapeOK /\ bg \in Calls
  BY DEF IInv, ShapeOK
<1>2. bg.flush = "none" /\ bg.merge = "none" /\ bg.inputs = {} /\ ~bg.scheduled /\ ~bg.error /\ imm = None
  BY DEF IInv, CallsRight, InCall, WorkRight
<1>3. /\ bg' \in Calls /\ bg'.flush = "none" /\ bg'.merge = "none" /\ bg'.inputs = {}
      /\ ~bg'.scheduled /\ ~bg'.error /\ bg'.edit = e
  BY <1>1, <1>2 DEF Calls
<1>4. ShapeOK'
  BY <1>1, <1>3 DEF ShapeOK
<1>5. QueueRight'
  BY DEF IInv, QueueRight
<1>6. CallsRight'
  BY <1>2, <1>3 DEF IInv, CallsRight, InCall
<1>7. WorkRight' /\ ManifestRight'
  BY <1>3 DEF WorkRight, ManifestRight, Ahead
<1> QED BY <1>3, <1>4, <1>5, <1>6, <1>7 DEF IInv

LEMMA RecoverIInv ==
  ASSUME IInv, Recover
  PROVE  IInv'
<1> DEFINE m == disk.manifest
           e == Edit({}, {}, {}, versions'.log, versions')
<1>1. /\ phase = "down" /\ phase' = "recovering" /\ versions' = [m EXCEPT !.next = @ + 1]
      /\ bg' = [bg EXCEPT !.edit = e] /\ unread' = LogsFrom(m.log)
      /\ UNCHANGED <<pc, queue, group, mem, imm, logfile, disk>>
  BY DEF Recover, ToRead
<1>2. ShapeOK /\ m \in Versions /\ m.next \in Nat /\ m.log \in Nat /\ logfile \in Nat
  BY DEF IInv, ShapeOK, DiskOK, Versions
<1>3. /\ versions' \in Versions /\ versions'.next = m.next + 1 /\ versions'.log = m.log
      /\ versions'.l0 = m.l0 /\ versions'.l1 = m.l1
  BY <1>1, <1>2 DEF Versions
<1>4. e \in Edits /\ e.add0 = {}
  <2>1. versions'.log \in Nat
    BY <1>2, <1>3
  <2> QED BY <1>3, <2>1, EditShape
<1> HIDE DEF e
<1>5. bg.flush = "none" /\ bg.merge = "none" /\ bg' \in Calls /\ bg'.flush = "none" /\ bg'.merge = "none"
  BY <1>1, <1>2, <1>4 DEF IInv, CallsRight, InCall, ShapeOK, Calls
<1>6. TablesRight'
  <2>1. /\ m.l0 \union m.l1 \subseteq DOMAIN disk.tables /\ m.l0 \union m.l1 \subseteq 1..(m.next - 1)
        /\ m.log < m.next
    BY DEF IInv, TablesRight
  <2>2. 1..(m.next - 1) \subseteq Given' /\ m.next <= versions'.next
    BY <1>2, <1>3 DEF Given
  <2> QED BY <1>1, <1>3, <2>1, <2>2 DEF TablesRight, Tables
<1>7. LogsRight'
  <2>1. m.log < m.next /\ m.log < m.next + 1
    BY <1>2 DEF IInv, TablesRight
  <2> QED BY <1>1, <1>3, <2>1 DEF LogsRight, LogsFrom
<1>8. bg'.edit = e => EditRight'
  BY <1>1, <1>4, <1>5 DEF EditRight, Editing
<1>9. DiskOK' /\ unread' \subseteq DOMAIN disk'.logs
  BY <1>1, <1>2 DEF ShapeOK, DiskOK, LogsFrom
<1> QED BY <1>1, <1>2, <1>3, <1>4, <1>6, <1>7, <1>8, <1>9, RecoveryIInv

LEMMA RecoverLogFileIInv ==
  ASSUME IInv, NEW n \in unread, RecoverLogFile(n)
  PROVE  IInv'
<1> DEFINE found == Entries({disk.logs[n][i].batch : i \in DOMAIN disk.logs[n]})
           t == versions.next
           v == IF found = Nothing THEN t ELSE t + 1
           new == IF found = Nothing THEN {} ELSE {t}
<1>1. /\ phase = "recovering" /\ unread' = unread \ {n}
      /\ UNCHANGED <<pc, queue, group, mem, imm, logfile, phase>>
  BY DEF RecoverLogFile
<1>2. /\ ShapeOK /\ versions \in Versions /\ bg \in Calls /\ bg.edit \in Edits /\ t \in Nat /\ logfile \in Nat
      /\ versions.log < t /\ versions.log \in Nat /\ t > 0 /\ n \in Nat /\ n \in DOMAIN disk.logs
      /\ disk.manifest.next \in Nat /\ versions.last \in Nat
  <2>1. /\ ShapeOK /\ versions \in Versions /\ bg \in Calls /\ logfile \in Nat /\ disk.manifest \in Versions
        /\ n \in DOMAIN disk.logs /\ DOMAIN disk.logs \subseteq Nat /\ versions.log < versions.next
    BY <1>1 DEF IInv, ShapeOK, DiskOK, LogsRight
  <2>2. /\ bg.edit \in Edits /\ t \in Nat /\ versions.log \in Nat /\ versions.last \in Nat
        /\ disk.manifest.next \in Nat
    BY <2>1 DEF Versions, Calls
  <2> QED BY <2>1, <2>2
<1>3. found \in Batches
  <2>1. {disk.logs[n][i].batch : i \in DOMAIN disk.logs[n]} \in SUBSET Batches
    BY <1>2 DEF ShapeOK, DiskOK, Maps, Records
  <2> QED BY <2>1, EntriesBatch
<1>4. bg.flush = "none" /\ bg.merge = "none"
  BY <1>1 DEF IInv, CallsRight, InCall
<1>5. /\ v \in Nat /\ v >= t /\ Marked(v, n) \in Nat /\ Marked(v, n) >= v /\ Marked(v, n) >= n + 1
  <2>1. v \in Nat /\ v >= t /\ n + 1 \in Nat
    BY <1>2
  <2> HIDE DEF v
  <2>2. Marked(v, n) = Max({v, n + 1})
    BY Zenon DEF Marked
  <2> QED BY <2>1, <2>2, MaxPair
<1>6. PICK last \in Nat : versions' = [versions EXCEPT !.next = Marked(v, n), !.last = last]
  <2>1. CASE found = Nothing
    <3>1. versions' = [versions EXCEPT !.next = Marked(v, n)]
      BY <2>1 DEF RecoverLogFile
    <3>2. versions' = [versions EXCEPT !.next = Marked(v, n), !.last = versions.last]
      BY <1>2, <3>1 DEF Versions
    <3> HIDE DEF found, t, v
    <3> QED BY Zenon, <1>2, <3>2
  <2>2. CASE found # Nothing
    <3>1. versions' = [versions EXCEPT !.next = Marked(t + 1, n), !.last = Max({versions.last} \union Seqs(found))]
      BY <2>2 DEF RecoverLogFile
    <3>2. v = t + 1
      BY <2>2
    <3> HIDE DEF found, v
    <3>3. Max({versions.last} \union Seqs(found)) \in Nat
      BY <1>2, <1>3, MaxNumber
    <3> QED BY Zenon, <3>1, <3>2, <3>3
  <2> HIDE DEF found, t, v
  <2> QED BY Zenon, <2>1, <2>2
<1>7. disk' = [disk EXCEPT !.tables = [u \in DOMAIN @ \union new |-> IF u \in new THEN found ELSE @[u]]]
  <2>1. CASE found = Nothing
    <3>1. disk' = disk /\ new = {}
      BY <2>1 DEF RecoverLogFile
    <3>2. [u \in DOMAIN disk.tables \union new |-> IF u \in new THEN found ELSE disk.tables[u]] = disk.tables
      BY <1>2, <3>1 DEF ShapeOK, DiskOK, Maps
    <3>3. [disk EXCEPT !.tables = disk.tables] = disk
      BY <1>2 DEF ShapeOK, DiskOK
    <3> HIDE DEF new, found
    <3> QED BY <3>1, <3>2, <3>3
  <2>2. CASE found # Nothing
    <3>1. disk' = [disk EXCEPT !.tables = [u \in DOMAIN @ \union {t} |-> IF u = t THEN found ELSE @[u]]]
      BY <2>2 DEF RecoverLogFile
    <3> QED BY <2>2, <3>1
  <2> QED BY <2>1, <2>2
<1>8. bg' = [bg EXCEPT !.edit = [bg.edit EXCEPT !.add0 = @ \union new]]
  <2>1. CASE found = Nothing
    <3>1. bg' = bg /\ new = {}
      BY <2>1 DEF RecoverLogFile
    <3>2. [bg.edit EXCEPT !.add0 = @ \union new] = bg.edit
      BY <1>2, <3>1 DEF Edits
    <3> QED BY <1>2, <3>1, <3>2 DEF Calls
  <2>2. CASE found # Nothing
    <3>1. bg' = [bg EXCEPT !.edit.add0 = @ \union {t}]
      BY <2>2 DEF RecoverLogFile
    <3> QED BY <1>2, <2>2, <3>1 DEF Calls, Edits
  <2> QED BY <2>1, <2>2
<1>9. new \in SUBSET Nat /\ new \subseteq {t} /\ (new # {} => Marked(v, n) >= t + 1)
  BY <1>2, <1>5
<1> HIDE DEF found, v, new
<1>10. /\ DiskOK' /\ disk'.logs = disk.logs /\ disk'.manifest = disk.manifest
       /\ DOMAIN disk'.tables = DOMAIN disk.tables \union new
  BY <1>2, <1>3, <1>7, <1>9, TableAdded
<1>11. /\ versions' \in Versions /\ versions'.next = Marked(v, n) /\ versions'.log = versions.log
       /\ versions'.l0 = versions.l0 /\ versions'.l1 = versions.l1
  BY <1>2, <1>5, <1>6 DEF Versions
<1> DEFINE e == [bg.edit EXCEPT !.add0 = @ \union new]
<1>12. e \in Edits /\ e.add0 = bg.edit.add0 \union new
  BY <1>2, <1>9 DEF Edits
<1>13. bg' \in Calls /\ bg'.flush = "none" /\ bg'.merge = "none" /\ bg' = [bg EXCEPT !.edit = e]
  BY <1>2, <1>4, <1>8, <1>12 DEF Calls
<1> HIDE DEF e
<1>14. Given \subseteq Given' /\ new \subseteq Given' /\ Tables' = Tables
  <2>1. \A i \in 1..(t - 1) : i \in 1..(Marked(v, n) - 1)
    BY <1>2, <1>5
  <2>2. ASSUME new # {} PROVE t \in 1..(Marked(v, n) - 1)
    BY <1>2, <1>5, <1>9, <2>2
  <2> QED BY <1>9, <1>11, <2>1, <2>2 DEF Given, Tables
<1>15. TablesRight'
  <2>1. disk.manifest.next <= t /\ disk.manifest.next <= Marked(v, n)
    BY <1>1, <1>2, <1>5 DEF IInv, TablesRight
  <2> QED BY <1>1, <1>10, <1>11, <1>14, <2>1 DEF IInv, TablesRight
<1>16. LogsRight'
  <2>1. LogsFrom(versions.log)' = LogsFrom(versions.log)
    BY <1>10, <1>11 DEF LogsFrom
  <2>2. n \in 0..(Marked(v, n) - 1) /\ \A i \in 0..(t - 1) : i \in 0..(Marked(v, n) - 1)
    BY <1>2, <1>5
  <2>3. versions.log < Marked(v, n)
    BY <1>2, <1>5
  <2> QED BY <1>1, <1>11, <2>1, <2>2, <2>3 DEF IInv, LogsRight
<1>17. bg'.edit = e => EditRight'
  BY <1>1, <1>9, <1>10, <1>12, <1>13, <1>14 DEF IInv, EditRight, Editing
<1>18. /\ disk'.manifest.l0 = versions'.l0 /\ disk'.manifest.l1 = versions'.l1
       /\ disk'.manifest.log = versions'.log
  BY <1>1, <1>4, <1>10, <1>11 DEF IInv, ManifestRight, Ahead, CallsRight
<1>19. unread' \subseteq DOMAIN disk'.logs
  BY <1>1, <1>2, <1>10 DEF ShapeOK
<1> QED BY <1>1, <1>2, <1>10, <1>11, <1>12, <1>13, <1>15, <1>16, <1>17, <1>18, <1>19, RecoveryIInv

LEMMA RecoveredIInv ==
  ASSUME IInv, Recovered
  PROVE  IInv'
<1> DEFINE n == versions.next
           e == Edit(bg.edit.add0, {}, {}, n, versions')
<1>1. /\ phase = "recovering" /\ unread = {} /\ phase' = "recovered" /\ logfile' = n
      /\ versions' = [versions EXCEPT !.next = @ + 1]
      /\ disk' = [disk EXCEPT !.logs = [m \in DOMAIN @ \union {n} |-> IF m = n THEN <<>> ELSE @[m]]]
      /\ UNCHANGED <<pc, queue, group, mem, imm, unread>>
  BY DEF Recovered
<1>2. /\ ShapeOK /\ versions \in Versions /\ bg \in Calls /\ disk.manifest \in Versions
      /\ versions.log < n /\ LogsFrom(versions.log) \subseteq 0..(n - 1) /\ disk.manifest.next <= n
      /\ bg.edit.add0 \subseteq DOMAIN disk.tables \intersect Given
  BY <1>1 DEF IInv, ShapeOK, DiskOK, LogsRight, TablesRight, EditRight
<1>3. /\ bg.edit \in Edits /\ n \in Nat /\ versions.log \in Nat /\ disk.manifest.next \in Nat
      /\ bg.edit.add0 \in SUBSET Nat
  BY <1>2 DEF Versions, Calls, Edits
<1>4. bg' = [bg EXCEPT !.edit = e]
  BY <1>2 DEF Recovered, Calls
<1>5. bg.flush = "none" /\ bg.merge = "none" /\ ~bg.error
  BY <1>1 DEF IInv, CallsRight, InCall
<1>6. /\ versions' \in Versions /\ versions'.next = n + 1 /\ versions'.log = versions.log
      /\ versions'.l0 = versions.l0 /\ versions'.l1 = versions.l1
  BY <1>1, <1>2, <1>3 DEF Versions
<1>7. e \in Edits /\ e.add0 = bg.edit.add0 /\ e.add1 = {} /\ e.log = n /\ e.next = n + 1
  BY <1>3, <1>6, EditShape
<1> HIDE DEF e
<1>8. bg' \in Calls /\ bg'.flush = "none" /\ bg'.merge = "none"
  BY <1>2, <1>4, <1>5, <1>7 DEF Calls
<1>9. /\ DiskOK' /\ disk'.tables = disk.tables /\ disk'.manifest = disk.manifest
      /\ DOMAIN disk'.logs = DOMAIN disk.logs \union {n} /\ disk'.logs[n] = <<>>
  <2>1. /\ disk' = [logs |-> disk'.logs, tables |-> disk'.tables, manifest |-> disk'.manifest]
        /\ disk'.tables = disk.tables /\ disk'.manifest = disk.manifest
        /\ disk'.logs = [m \in DOMAIN disk'.logs |-> disk'.logs[m]]
        /\ DOMAIN disk'.logs = DOMAIN disk.logs \union {n} /\ disk'.logs[n] = <<>>
        /\ \A m \in DOMAIN disk.logs : m # n => disk'.logs[m] = disk.logs[m]
    BY <1>1, <1>2 DEF ShapeOK, DiskOK
  <2>2. <<>> \in Seq(Records)
    OBVIOUS
  <2>3. \A m \in DOMAIN disk'.logs : Maps(disk'.logs[m], Records)
    BY <1>2, <2>1, <2>2, SeqMaps DEF ShapeOK, DiskOK
  <2>4. DOMAIN disk'.logs \subseteq Nat
    BY <1>2, <1>3, <2>1 DEF ShapeOK, DiskOK
  <2> QED BY <1>2, <2>1, <2>3, <2>4 DEF ShapeOK, DiskOK
<1>10. Given \subseteq Given' /\ Given \subseteq 1..((n + 1) - 1) /\ Tables' = Tables
  BY <1>3, <1>6 DEF Given, Tables
<1>11. n < n + 1 /\ n <= n /\ n + 1 <= n + 1 /\ versions.log <= n /\ disk.manifest.next <= n + 1
  BY <1>2, <1>3
<1>12. TablesRight'
  BY <1>1, <1>6, <1>9, <1>10, <1>11 DEF IInv, TablesRight
<1>13. LogsRight'
  <2>1. LogsFrom(versions.log)' \subseteq LogsFrom(versions.log) \union {n}
    BY <1>6, <1>9 DEF LogsFrom
  <2>2. LogsFrom(versions.log)' \subseteq 0..((n + 1) - 1)
    BY <1>2, <1>3, <2>1
  <2>3. <<>> \in Seq(Records)
    OBVIOUS
  <2> QED BY <1>1, <1>6, <1>9, <1>11, <2>2, <2>3 DEF LogsRight
<1>14. bg'.edit = e => EditRight'
  <2>1. e.add0 \union e.add1 \subseteq DOMAIN disk'.tables \intersect (1..((n + 1) - 1))
    BY <1>2, <1>7, <1>9, <1>10
  <2> QED BY <1>1, <1>6, <1>7, <1>8, <1>9, <1>11, <2>1 DEF EditRight
<1>15. /\ disk'.manifest.l0 = versions'.l0 /\ disk'.manifest.l1 = versions'.l1
       /\ disk'.manifest.log = versions'.log
  BY <1>1, <1>5, <1>6, <1>9 DEF IInv, ManifestRight, Ahead
<1>16. unread' \subseteq DOMAIN disk'.logs /\ logfile' \in Nat
  BY <1>1, <1>3
<1> QED BY <1>1, <1>4, <1>6, <1>7, <1>9, <1>12, <1>13, <1>14, <1>15, <1>16, RecoveryIInv

LEMMA OpenedIInv ==
  ASSUME IInv, Opened
  PROVE  IInv'
<1>1. /\ phase = "saved" /\ phase' = "open" /\ versions' = Edited(versions, bg.edit)
      /\ disk' = Cleaned(disk, versions', Idle) /\ bg' = Scheduled(Idle, None, versions')
      /\ UNCHANGED <<pc, queue, group, mem, imm, logfile, unread>>
  BY DEF Opened
<1>2. ShapeOK /\ Ahead /\ imm = None /\ ~bg.error /\ bg \in Calls
  BY <1>1 DEF IInv, Ahead, CallsRight, ShapeOK
<1>3. Idle.error = bg.error
  BY <1>2, IdleCall DEF Calls
<1>4. /\ versions' \in Versions
      /\ DiskOK' /\ TablesRight' /\ LogsRight' /\ unread \subseteq DOMAIN disk'.logs
      /\ /\ disk'.manifest.l0 = versions'.l0 /\ disk'.manifest.l1 = versions'.l1
         /\ disk'.manifest.log = versions'.log
  BY <1>1, <1>2, <1>3, InstallFiles
<1>5. /\ bg' \in Calls /\ IdleLike(bg') /\ ~bg'.error
      /\ bg'.scheduled <=> Cardinality(versions'.l0) >= L0Trigger
  BY <1>1, IdleCall, ScheduledFields DEF IdleLike
<1>6. ShapeOK'
  BY <1>1, <1>2, <1>4, <1>5 DEF ShapeOK
<1>7. QueueRight' /\ \A w \in Writer : pc'[w] \in Outside
  BY <1>1 DEF IInv, QueueRight
<1>8. CallsRight'
  BY <1>1, <1>2, <1>5, <1>7 DEF CallsRight, InCall, IdleLike, Outside
<1>9. WorkRight' /\ EditRight' /\ ManifestRight'
  BY <1>1, <1>4, <1>5 DEF WorkRight, EditRight, ManifestRight, Editing, Ahead, IdleLike
<1> QED BY <1>4, <1>6, <1>7, <1>8, <1>9 DEF IInv

-------------------------------------------------------------------------------
(* The invariant. *)

LEMMA InitIInv == Init => IInv
<1> SUFFICES ASSUME Init PROVE IInv
  OBVIOUS
<1>1. /\ pc = [w \in Writer |-> "idle"] /\ queue = <<>> /\ group = [size |-> 0, batch |-> Nothing]
      /\ mem = Nothing /\ imm = None /\ logfile = 3
      /\ versions = [last |-> 0, next |-> 4, log |-> 3, l0 |-> {}, l1 |-> {}]
      /\ disk = [logs |-> [n \in {3} |-> <<>>], tables |-> Nothing, manifest |-> versions]
      /\ bg = Idle /\ phase = "open" /\ unread = {}
  BY DEF Init
<1>2. versions \in Versions /\ bg \in Calls /\ IdleLike(bg) /\ ~bg.scheduled /\ ~bg.error
  BY <1>1, IdleCall DEF Versions
<1>3. DiskOK
  <2>1. DOMAIN Nothing = {} /\ Nothing = [w \in {} |-> Nothing[w]]
    BY DEF Nothing
  <2>2. Maps(disk.tables, Batches)
    BY <1>1, <2>1 DEF Maps
  <2>3. <<>> \in Seq(Records)
    OBVIOUS
  <2>4. \A n \in DOMAIN disk.logs : Maps(disk.logs[n], Records)
    BY <1>1, <2>3, SeqMaps
  <2> QED BY <1>1, <1>2, <2>2, <2>4 DEF DiskOK
<1>4. ShapeOK
  <2>1. group \in [size : Nat, batch : Batches] /\ mem \in Batches
    BY <1>1, NothingBatch
  <2>2. queue \in Seq(Writer) /\ pc \in [Writer -> Running \union Outside \union {"parked", "await", "flushing"}]
    BY <1>1 DEF Outside
  <2> QED BY <1>1, <1>2, <1>3, <2>1, <2>2 DEF ShapeOK
<1>5. QueueRight
  BY <1>1 DEF QueueRight, Running, Writing, Outside
<1>6. CallsRight
  <2>1. Cardinality(versions.l0) = 0
    BY <1>1, FS_EmptySet
  <2>2. ~(Cardinality(versions.l0) >= L0Trigger)
    BY <2>1, BoundsAssumption
  <2> QED BY <1>1, <1>2, <2>2 DEF CallsRight, InCall, IdleLike
<1>7. TablesRight
  BY <1>1 DEF TablesRight, Tables
<1>8. LogsRight
  <2>1. <<>> \in Seq(Records)
    OBVIOUS
  <2> QED BY <1>1, <2>1 DEF LogsRight, LogsFrom
<1>9. WorkRight /\ EditRight /\ ManifestRight
  BY <1>1, <1>2 DEF WorkRight, EditRight, ManifestRight, Editing, Ahead, IdleLike
<1> QED BY <1>4, <1>5, <1>6, <1>7, <1>8, <1>9 DEF IInv

LEMMA StutterIInv == IInv /\ UNCHANGED vars => IInv'
<1> SUFFICES ASSUME IInv, UNCHANGED vars PROVE IInv'
  OBVIOUS
<1>1. UNCHANGED <<pc, queue, group, mem, imm, logfile, versions, bg, disk, phase, unread>>
  BY DEF vars
<1>2. QueueRight'
  BY <1>1 DEF IInv, QueueRight
<1> QED BY <1>1, <1>2, QuietIInv DEF IInv, ShapeOK, States

LEMMA WriterIInv ==
  ASSUME IInv, NEW w \in Writer, Call(w) \/ WriterStep(w)
  PROVE  IInv'
BY CallIInv, YieldErrorIInv, HaveRoomIInv, SleepIInv, SwitchIInv, LogRecordIInv, SyncLogIInv, SyncLogFailsIInv,
   FinishIInv, AwaitFlushIInv
   DEF WriterStep

LEMMA NextIInv == IInv /\ [Next]_vars => IInv'
<1> SUFFICES ASSUME IInv, [Next]_vars PROVE IInv'
  OBVIOUS
<1>1. ASSUME NEW w \in Writer, Call(w) \/ WriterStep(w) PROVE IInv'
  BY <1>1, WriterIInv
<1>2. CASE Background
  BY <1>2, ReturnIInv, BeginFlushIInv, BuildTableIInv, InstallFlushIInv, BeginMergeIInv, OpenOutputIInv,
     FinishOutputIInv, InstallMergeIInv, WriteManifestIInv, BuildTableFailsIInv, MergeFailsIInv,
     WriteManifestFailsIInv
     DEF Background
<1>3. CASE Close \/ Closed \/ Crash
  BY <1>3, CloseIInv, EndIInv
<1>4. CASE Recover \/ Recovered \/ Opened
  BY <1>4, RecoverIInv, RecoveredIInv, OpenedIInv
<1>5. ASSUME NEW n \in unread, RecoverLogFile(n) PROVE IInv'
  BY <1>5, RecoverLogFileIInv
<1>6. CASE UNCHANGED vars
  BY <1>6, StutterIInv
<1> QED BY <1>1, <1>2, <1>3, <1>4, <1>5, <1>6 DEF Next

(* Whatever writers, the background thread, failing writes, crashes and    *)
(* recoveries do, in any order and number.                                 *)
THEOREM WritesInvariant == Spec => []IInv
BY InitIInv, NextIInv, PTL DEF Spec

-------------------------------------------------------------------------------
(* What it means. *)

LEMMA BatchIsBatch == \A f \in Batches : Batch(f)
BY BatchShape DEF Batch, Seqs

LEMMA TypeStep == IInv => TypeOK
<1> SUFFICES ASSUME IInv PROVE TypeOK
  OBVIOUS
<1>1. ShapeOK
  BY DEF IInv
<1>2. group.size \in 0..Len(queue)
  <2>1. group.size = 0 \/ group.size \in 1..Len(queue)
    BY DEF IInv, QueueRight
  <2>2. Len(queue) \in Nat
    BY <1>1, LenProperties DEF ShapeOK
  <2> QED BY <2>1, <2>2
<1>3. Batch(group.batch) /\ Batch(mem) /\ (imm = None \/ Batch(imm))
  BY <1>1, BatchIsBatch DEF ShapeOK
<1>4. \A t \in DOMAIN disk.tables : Batch(disk.tables[t])
  BY <1>1, BatchIsBatch DEF ShapeOK, DiskOK, Maps
<1>5. \A n \in DOMAIN disk.logs : \A i \in DOMAIN disk.logs[n] : Batch(disk.logs[n][i].batch)
  BY <1>1, BatchIsBatch DEF ShapeOK, DiskOK, Maps, Records
<1>6. pc \in [Writer -> {"idle", "parked", "head", "asleep", "logging", "syncing", "applying",
                         "failing", "unsure", "await", "flushing", "ok", "error", "gone"}]
  BY <1>1 DEF ShapeOK, Running, Writing, Outside
<1> QED BY <1>1, <1>2, <1>3, <1>4, <1>5, <1>6 DEF ShapeOK, TypeOK

(* Every part of the state has its shape: each batch, memtable, table and  *)
(* record of a log gives numbers to writers of entries, and a group is a   *)
(* beginning of the queue (DBImpl::BuildBatchGroup).                       *)
THEOREM WritesTypeCorrect == Spec => []TypeOK
BY WritesInvariant, TypeStep, PTL

LEMMA MissingStep == IInv => NothingMissing
<1> SUFFICES ASSUME IInv PROVE NothingMissing
  OBVIOUS
<1>1. disk.manifest.l0 \union disk.manifest.l1 \subseteq DOMAIN disk.tables
  BY DEF IInv, TablesRight
<1>2. phase \in {"open", "closing"} => logfile \in DOMAIN disk.logs
  BY DEF IInv, LogsRight
<1>3. bg.inputs \subseteq IF bg.merge = "none" THEN {} ELSE Tables
  BY DEF IInv, WorkRight
<1>4. Tables \subseteq DOMAIN disk.tables
  BY DEF IInv, TablesRight
<1> QED BY <1>1, <1>2, <1>3, <1>4 DEF NothingMissing

(* No file that is needed is thrown away (DBImpl::DeleteObsoleteFiles),    *)
(* whatever failed before and whenever the process ended: the tables of    *)
(* the version in use and of a merge, the log being written, and the       *)
(* tables the manifest names are there.                                    *)
THEOREM FilesAreKept == Spec => []NothingMissing
BY WritesInvariant, MissingStep, PTL

LEMMA FreshStep == IInv => NumbersFresh
<1> SUFFICES ASSUME IInv PROVE NumbersFresh
  OBVIOUS
<1>1. disk.manifest.l0 \union disk.manifest.l1 \subseteq 0..(disk.manifest.next - 1)
  BY DEF IInv, TablesRight
<1>2. ASSUME phase \in {"open", "closing", "recovered", "saved"}
      PROVE  /\ Tables \union {logfile, versions.log} \union LogsFrom(versions.log) \subseteq Numbers
             /\ Pending(bg) \subseteq Numbers \ Tables
             /\ versions.log <= logfile
             /\ disk.manifest.next <= versions.next
  <2>1. /\ Tables \subseteq Given /\ disk.manifest.next <= versions.next
        /\ versions.log <= logfile /\ logfile < versions.next
        /\ LogsFrom(versions.log) \subseteq 0..(versions.next - 1)
    BY <1>2 DEF IInv, TablesRight, LogsRight
  <2>2. versions.next \in Nat /\ logfile \in Nat /\ versions.log \in Nat /\ bg \in Calls
    BY DEF IInv, ShapeOK, Versions
  <2>3. Given \subseteq Numbers /\ {logfile, versions.log, 0} \subseteq Numbers
    BY <2>1, <2>2 DEF Given, Numbers
  <2>4. bg.flush = "build" => bg.table \in Given \ Tables
    BY DEF IInv, WorkRight
  <2>5. bg.merge \notin {"none", "scan"} => bg.output \in {0} \union Given /\ bg.output \notin Tables
    BY <2>2 DEF IInv, WorkRight, Calls
  <2>6. Pending(bg) \subseteq Numbers \ Tables
    BY <2>3, <2>4, <2>5 DEF Pending
  <2> QED BY <2>1, <2>3, <2>6 DEF Numbers
<1> QED BY <1>1, <1>2 DEF NumbersFresh

(* No number is used twice (VersionSet::NewFileNumber, MarkFileNumberUsed, *)
(* the assertions of LogAndApply): those of the tables and logs in use, of *)
(* the outputs being built and of the logs a recovery would read are       *)
(* behind the next one, in this process and in the manifest.               *)
THEOREM NumbersAreFresh == Spec => []NumbersFresh
BY WritesInvariant, FreshStep, PTL

LEMMA ForgottenStep == IInv => NobodyForgotten
<1> SUFFICES ASSUME IInv PROVE NobodyForgotten
  OBVIOUS
<1>1. ShapeOK /\ QueueRight
  BY DEF IInv
<1>2. queue # <<>> => pc[queue[1]] # "parked"
  <2> SUFFICES ASSUME queue # <<>> PROVE pc[queue[1]] # "parked"
    OBVIOUS
  <2>1. 1 \in DOMAIN queue
    BY <1>1, LenProperties, EmptySeq DEF ShapeOK
  <2> QED BY <1>1, <2>1 DEF QueueRight, Running, Writing
<1> QED BY <1>1, <1>2 DEF IInv, NobodyForgotten, QueueRight, CallsRight

(* No signal is lost (writers_, background_work_finished_signal_): whoever *)
(* sleeps has a call of the background coming, the head of the queue is    *)
(* never asleep on its own condition variable, and who waits for a turn is *)
(* in the queue.                                                           *)
THEOREM NobodyIsForgotten == Spec => []NobodyForgotten
BY WritesInvariant, ForgottenStep, PTL

-------------------------------------------------------------------------------
(* The store that the promise is about: which writers have an entry where. *)

Live == phase \in {"open", "closing"}

InTables(ts) == UNION {DOMAIN disk.tables[t] : t \in ts}

InManifest == InTables(disk.manifest.l0 \union disk.manifest.l1)

InUse == InTables(Tables)

InImm == IF imm = None THEN {} ELSE DOMAIN imm

InLog(n) == UNION {DOMAIN disk.logs[n][i].batch : i \in DOMAIN disk.logs[n]}

Busy == \E w \in Writer : pc[w] \in Writing

Logging == \E w \in Writer : pc[w] \in {"syncing", "applying", "unsure"}

(* Nobody has answered these yet. *)
Early == {w \in Writer : pc[w] \in {"idle", "parked"} \union Running}

(* Whatever holds the entry of a writer gives it the same number. *)
Told(N, f) == \A w \in DOMAIN f : f[w] = N[w]

Agreed(N) ==
  /\ Told(N, mem) /\ Told(N, group.batch) /\ (imm # None => Told(N, imm))
  /\ \A t \in DOMAIN disk.tables : Told(N, disk.tables[t])
  /\ \A n \in DOMAIN disk.logs : \A i \in DOMAIN disk.logs[n] : Told(N, disk.logs[n][i].batch)

(* The group of the head: who is in it, that a synced write has a head that *)
(* syncs, and that its numbers are the next ones.                          *)
GroupRight(N) ==
  /\ \A w \in Writer : pc[w] \in Writing => w \notin Compact
  /\ \A w \in Writer : pc[w] \in {"await", "flushing"} => w \in Compact
  /\ DOMAIN group.batch = {queue[i] : i \in 1..group.size} \ Compact
  /\ \A i \in 1..group.size : queue[i] \in Sync => queue[1] \in Sync
  /\ \A w \in DOMAIN group.batch :
       versions.last < N[w] /\ N[w] <= versions.last + Cardinality(DOMAIN group.batch)

(* Before the answer an entry is nowhere but in the log of its group. *)
PlacesRight ==
  /\ \A w \in Early : w \notin DOMAIN mem \union InImm \union InTables(DOMAIN disk.tables)
  /\ \A w \in Early, n \in DOMAIN disk.logs :
       w \in InLog(n) => n = logfile /\ w \in DOMAIN group.batch /\ Logging

(* No number is above the last one, in memory and in the manifest. *)
NumbersRight(N) ==
  /\ Live => \A w \in InUse \union DOMAIN mem \union InImm : N[w] <= versions.last
  /\ phase \in {"recovering", "recovered", "saved"} =>
       \A w \in InTables(Tables \union bg.edit.add0) : N[w] <= versions.last
  /\ \A w \in InManifest : N[w] <= disk.manifest.last
  /\ phase # "down" => disk.manifest.last <= versions.last
  /\ Editing => /\ disk.manifest.last <= bg.edit.last /\ bg.edit.last <= versions.last
                /\ \A w \in InTables(bg.edit.add0 \union bg.edit.add1) : N[w] <= bg.edit.last

(* In the log and not in the memtable: its sync failed, and nothing is     *)
(* written any more.                                                       *)
Refused(N, w) ==
  /\ bg.error /\ ~Busy /\ pc[w] = "error"
  /\ \A v \in InUse \union DOMAIN mem \union InImm : N[v] < N[w]

(* What an older log holds is in imm or in the manifest, and what the last  *)
(* one holds is in the memtable, or in the group, or was refused.          *)
LogKept(N) ==
  Live =>
    /\ versions.log <= disk.manifest.log /\ disk.manifest.log <= logfile
    /\ \A n \in LogsFrom(versions.log) :
         n <= logfile /\ (n < logfile => InLog(n) \subseteq InImm \union InManifest)
    /\ InManifest \subseteq InUse \union InImm
    /\ versions.log < disk.manifest.log => InImm \subseteq InManifest
    /\ \A w \in InLog(logfile) : w \in DOMAIN mem \/ w \in DOMAIN group.batch \/ Refused(N, w)

(* The record of the group, and the flawed ones. *)
LastRight ==
  Live =>
    /\ (\E i \in DOMAIN disk.logs[logfile] : Flawed(disk.logs[logfile][i])) =>
         \E w \in Writer \ Compact : pc[w] \in {"error", "failing"}
    /\ Logging => \E i \in DOMAIN disk.logs[logfile] : disk.logs[logfile][i].batch = group.batch
    /\ \A w \in Sync : pc[w] = "applying" =>
         \A i \in DOMAIN disk.logs[logfile] : disk.logs[logfile][i].synced

(* What the background works on holds what it is to replace. *)
WorkKept ==
  /\ Live => DOMAIN disk.tables \subseteq Given
  /\ bg.flush = "build" => bg.table \notin DOMAIN disk.tables
  /\ bg.flush \in {"write", "install"} => bg.edit.log = logfile /\ InTables(bg.edit.add0) = InImm
  /\ bg.flush = "install" => bg.edit.add0 \subseteq disk.manifest.l0 /\ disk.manifest.log = logfile
  /\ bg.merge = "output" => InTables({bg.output}) = InTables(bg.inputs)
  /\ bg.merge \in {"write", "install"} =>
       /\ bg.edit.add0 = {} /\ bg.edit.gone \subseteq Tables /\ bg.edit.log = versions.log
       /\ InTables(bg.edit.gone) = InTables(bg.edit.add1)

(* A recovery has in its tables what it replayed. *)
RecoveryKept ==
  ~Live =>
    /\ DOMAIN mem = {} 
    /\ \A n \in LogsFrom(disk.manifest.log) : \A i \in DOMAIN disk.logs[n] : ~Flawed(disk.logs[n][i])
    /\ phase = "recovering" =>
         InTables(bg.edit.add0) = UNION {InLog(n) : n \in LogsFrom(disk.manifest.log) \ unread}
    /\ phase = "recovered" =>
         InTables(bg.edit.add0) = UNION {InLog(n) : n \in LogsFrom(disk.manifest.log)}
    /\ phase \in {"recovered", "saved"} =>
         /\ bg.edit.add1 = {} /\ bg.edit.gone = {} /\ bg.edit.log = logfile
         /\ disk.logs[logfile] = <<>>
         /\ \A n \in LogsFrom(disk.manifest.log) : n <= logfile

(* All of it. *)
RInv(N) ==
  /\ Agreed(N) /\ GroupRight(N) /\ PlacesRight /\ NumbersRight(N) /\ LogKept(N)
  /\ LastRight /\ WorkKept /\ RecoveryKept

-------------------------------------------------------------------------------
(* The store in terms of who is where. *)

InKept(n) == UNION {DOMAIN disk.logs[n][i].batch : i \in Intact(disk.logs[n])}

InFirm(n) ==
  UNION {DOMAIN disk.logs[n][i].batch : i \in {j \in Intact(disk.logs[n]) : disk.logs[n][j].synced}}

InMemory == InUse \union DOMAIN mem \union InImm

KeptLogs == UNION {InKept(n) : n \in LogsFrom(disk.manifest.log)}

FirmLogs == UNION {InFirm(n) : n \in LogsFrom(disk.manifest.log)}

(* What a crash of the process leaves, and what power loss leaves. *)
Sure == InManifest \union KeptLogs

Firm == InManifest \union FirmLogs

Seen == IF Live THEN InMemory ELSE Sure

NumbersOf(N, S) == [w \in S |-> N[w]]

(* Where all give a writer the same number, none is lost in putting them together. *)
LEMMA EntriesTold ==
  ASSUME NEW fs, NEW N, \A f \in fs : Told(N, f)
  PROVE  Entries(fs) = NumbersOf(N, UNION {DOMAIN f : f \in fs})
<1> DEFINE D == UNION {DOMAIN f : f \in fs}
<1>1. \A w \in D : (CHOOSE f \in fs : w \in DOMAIN f)[w] = N[w]
  <2> SUFFICES ASSUME NEW w \in D PROVE (CHOOSE f \in fs : w \in DOMAIN f)[w] = N[w]
    OBVIOUS
  <2> DEFINE g == CHOOSE f \in fs : w \in DOMAIN f
  <2>1. g \in fs /\ w \in DOMAIN g
    OBVIOUS
  <2> HIDE DEF g
  <2>2. g[w] = N[w]
    BY <2>1 DEF Told
  <2> QED BY <2>2 DEF g
<1>2. Entries(fs) = [w \in D |-> (CHOOSE f \in fs : w \in DOMAIN f)[w]]
  BY DEF Entries
<1>3. NumbersOf(N, D) = [w \in D |-> N[w]]
  BY DEF NumbersOf
<1> HIDE DEF D
<1>4. Entries(fs) = NumbersOf(N, D)
  BY <1>1, <1>2, <1>3
<1> QED BY <1>4 DEF D

(* The writers of a set with their numbers. *)
LEMMA NumbersTold ==
  ASSUME NEW S, NEW N
  PROVE  Told(N, NumbersOf(N, S)) /\ DOMAIN NumbersOf(N, S) = S
BY DEF NumbersOf, Told

(* Another order that agrees on them gives the same numbers. *)
LEMMA SameNumbers ==
  ASSUME NEW S, NEW N, NEW M, \A w \in S : M[w] = N[w]
  PROVE  NumbersOf(M, S) = NumbersOf(N, S)
BY DEF NumbersOf

(* What some tables hold. *)
LEMMA ContentTold ==
  ASSUME NEW N, Agreed(N), NEW ts \in SUBSET DOMAIN disk.tables
  PROVE  Content(ts) = NumbersOf(N, InTables(ts))
<1> DEFINE fs == {disk.tables[t] : t \in ts}
<1>1. \A f \in fs : Told(N, f)
  BY DEF Agreed
<1>2. UNION {DOMAIN f : f \in fs} = InTables(ts)
  BY DEF InTables
<1> HIDE DEF fs
<1>3. Entries(fs) = NumbersOf(N, InTables(ts))
  BY <1>1, <1>2, EntriesTold
<1> QED BY <1>3 DEF fs, Content

KeptBatches ==
  UNION {{disk.logs[n][i].batch : i \in {j \in Intact(disk.logs[n]) : TRUE}} : n \in LogsFrom(disk.manifest.log)}

FirmBatches ==
  UNION {{disk.logs[n][i].batch : i \in {j \in Intact(disk.logs[n]) : disk.logs[n][j].synced}}
           : n \in LogsFrom(disk.manifest.log)}

(* What the logs to be read hold, and what of that is synced. *)
LEMMA LoggedTold ==
  ASSUME NEW N, Agreed(N)
  PROVE  /\ Entries(KeptBatches) = NumbersOf(N, KeptLogs)
         /\ Entries(FirmBatches) = NumbersOf(N, FirmLogs)
<1> DEFINE L == LogsFrom(disk.manifest.log)
<1>1. L \subseteq DOMAIN disk.logs /\ \A n \in L : Intact(disk.logs[n]) \subseteq DOMAIN disk.logs[n]
  BY DEF LogsFrom, Intact
<1>2. \A f \in KeptBatches : Told(N, f)
  BY <1>1 DEF Agreed, KeptBatches
<1>3. \A f \in FirmBatches : Told(N, f)
  BY <1>1 DEF Agreed, FirmBatches
<1>4. UNION {DOMAIN f : f \in KeptBatches} = KeptLogs
  BY DEF InKept, KeptLogs, KeptBatches
<1>5. UNION {DOMAIN f : f \in FirmBatches} = FirmLogs
  BY DEF InFirm, FirmLogs, FirmBatches
<1>6. /\ Entries(KeptBatches) = NumbersOf(N, KeptLogs)
      /\ Entries(FirmBatches) = NumbersOf(N, FirmLogs)
  BY <1>2, <1>3, <1>4, <1>5, EntriesTold
<1> QED BY <1>6

(* Two sets of writers together. *)
LEMMA PairTold ==
  ASSUME NEW N, NEW S, NEW T
  PROVE  Entries({NumbersOf(N, S), NumbersOf(N, T)}) = NumbersOf(N, S \union T)
<1> DEFINE fs == {NumbersOf(N, S), NumbersOf(N, T)}
<1>1. \A f \in fs : Told(N, f)
  BY NumbersTold
<1>2. UNION {DOMAIN f : f \in fs} = S \union T
  BY NumbersTold
<1> HIDE DEF fs
<1>3. Entries(fs) = NumbersOf(N, S \union T)
  BY <1>1, <1>2, EntriesTold
<1> QED BY <1>3 DEF fs

(* The refinement mapping, in terms of who is where. *)
LEMMA StoreFacts ==
  ASSUME IInv, NEW N, Agreed(N)
  PROVE  /\ storeBar = NumbersOf(N, Seen) /\ DOMAIN storeBar = Seen
         /\ Safe = Sure /\ durableBar = Seen \intersect Firm
<1>1. Content(disk.manifest.l0 \union disk.manifest.l1) = NumbersOf(N, InManifest)
  <2>1. disk.manifest.l0 \union disk.manifest.l1 \in SUBSET DOMAIN disk.tables
    BY DEF IInv, TablesRight
  <2> QED BY <2>1, ContentTold DEF InManifest
<1>2. Saved = NumbersOf(N, InManifest)
  BY <1>1 DEF Saved
<1>3. Entries({Saved, Logged(LAMBDA n, i : TRUE)}) = NumbersOf(N, Sure)
  <2>1. Entries({Saved, Entries(KeptBatches)}) = NumbersOf(N, Sure)
    BY <1>2, LoggedTold, PairTold DEF Sure
  <2> QED BY <2>1 DEF Logged, KeptBatches
<1>4. Entries({Saved, Logged(LAMBDA n, i : disk.logs[n][i].synced)}) = NumbersOf(N, Firm)
  <2>1. Entries({Saved, Entries(FirmBatches)}) = NumbersOf(N, Firm)
    BY <1>2, LoggedTold, PairTold DEF Firm
  <2> QED BY <2>1 DEF Logged, FirmBatches
<1>5. Safe = Sure
  BY <1>3, NumbersTold DEF Safe
<1>6. ASSUME Live
      PROVE  Entries({Content(Tables), mem, IF imm = None THEN Nothing ELSE imm}) = NumbersOf(N, InMemory)
  <2>1. Content(Tables) = NumbersOf(N, InUse)
    <3>1. Tables \in SUBSET DOMAIN disk.tables
      BY <1>6 DEF IInv, TablesRight, Live
    <3> QED BY <3>1, ContentTold DEF InUse
  <2> DEFINE i == IF imm = None THEN Nothing ELSE imm
             fs == {Content(Tables), mem, i}
  <2>2. Told(N, i) /\ DOMAIN i = InImm
    BY DEF Agreed, InImm, Nothing, Told
  <2>3. \A f \in fs : Told(N, f)
    BY <2>1, <2>2, NumbersTold DEF Agreed
  <2>4. UNION {DOMAIN f : f \in fs} = InMemory
    <3>1. DOMAIN Content(Tables) = InUse
      BY <2>1, NumbersTold
    <3> HIDE DEF i
    <3> QED BY <2>2, <3>1 DEF InMemory
  <2> HIDE DEF fs
  <2>5. Entries(fs) = NumbersOf(N, InMemory)
    BY <2>3, <2>4, EntriesTold
  <2> QED BY <2>5 DEF fs
<1>7. storeBar = NumbersOf(N, Seen)
  BY <1>3, <1>6 DEF storeBar, Seen, Live
<1>8. DOMAIN storeBar = Seen
  BY <1>7, NumbersTold
<1>9. durableBar = Seen \intersect Firm
  BY <1>4, <1>8, NumbersTold DEF durableBar
<1> QED BY <1>5, <1>7, <1>8, <1>9

StoreIs == \A N : IInv /\ Agreed(N) => /\ storeBar = NumbersOf(N, Seen) /\ DOMAIN storeBar = Seen
                                        /\ Safe = Sure /\ durableBar = Seen \intersect Firm

(* The same for every order, in this state and in the next one. *)
LEMMA StoreAlways == StoreIs
BY StoreFacts DEF StoreIs

(* The disk catches up, or nothing at all happens to the store. *)
LEMMA SettleStore ==
  ASSUME IInv, IInv', NEW N, NEW M, Agreed(N), Agreed(M)', \A w \in Seen : M[w] = N[w],
         Seen' = Seen, Firm \intersect Seen \subseteq Firm', Sure \intersect Seen \subseteq Sure',
         (Sure' \intersect Seen) \ Sure \subseteq Firm', answerBar' = answerBar
  PROVE  Store!DNext
<1>1. storeBar = NumbersOf(N, Seen) /\ DOMAIN storeBar = Seen /\ Safe = Sure /\ durableBar = Seen \intersect Firm
  BY StoreFacts
<1>2. storeBar' = NumbersOf(M, Seen') /\ DOMAIN storeBar' = Seen' /\ Safe' = Sure' /\ durableBar' = Seen' \intersect Firm'
  <2>1. StoreIs'
    BY StoreAlways, PTL
  <2> QED BY <2>1 DEF StoreIs
<1>3. storeBar' = storeBar
  <2>1. storeBar' = NumbersOf(M, Seen)
    BY <1>2
  <2>2. NumbersOf(M, Seen) = NumbersOf(N, Seen)
    BY SameNumbers
  <2> QED BY <1>1, <2>1, <2>2
<1>4. Store!Settle
  BY <1>1, <1>2, <1>3 DEF Store!Settle, Store!Stored
<1> QED BY <1>4 DEF Store!DNext

(* What the store is made of does not change with the writers. *)
LEMMA QuietSets ==
  ASSUME UNCHANGED <<mem, imm, versions, disk, phase>>
  PROVE  Seen' = Seen /\ Sure' = Sure /\ Firm' = Firm /\ InMemory' = InMemory
<1>1. InMemory' = InMemory
  BY DEF InMemory, InUse, InTables, Tables, InImm
<1>2. Sure' = Sure
  BY DEF Sure, InManifest, InTables, KeptLogs, InKept, LogsFrom, Intact, Sound, Flawed
<1>3. Firm' = Firm
  BY DEF Firm, InManifest, InTables, FirmLogs, InFirm, LogsFrom, Intact, Sound, Flawed
<1> QED BY <1>1, <1>2, <1>3 DEF Seen, Live

(* Who is still in DBImpl::Write has no answer. *)
LEMMA SameAnswers ==
  ASSUME \A w \in Writer \ Compact : pc'[w] = pc[w] \/ (pc[w] \notin Outside /\ pc'[w] \notin Outside)
  PROVE  answerBar' = answerBar
<1> DEFINE a(s) == CASE s = "idle" -> "none" [] s \in {"ok", "error"} -> s [] s = "gone" -> "lost"
                     [] OTHER -> "waiting"
<1>1. answerBar = [w \in Writer \ Compact |-> a(pc[w])] /\ answerBar' = [w \in Writer \ Compact |-> a(pc'[w])]
  BY DEF answerBar
<1>2. \A s, t : s \notin Outside /\ t \notin Outside => a(s) = a(t)
  BY DEF Outside
<1> HIDE DEF a
<1>3. \A w \in Writer \ Compact : a(pc'[w]) = a(pc[w])
  BY <1>2
<1> QED BY <1>1, <1>3

(* Writers move, and nobody begins or ends to write. *)
Moves ==
  /\ Early' \subseteq Early
  /\ Busy' <=> Busy
  /\ Logging' <=> Logging
  /\ \A w \in Writer : /\ pc[w] \in {"error", "failing"} => pc'[w] = pc[w]
                       /\ pc'[w] \in Writing => pc[w] \in Writing
                       /\ pc'[w] \in {"await", "flushing"} => w \in Compact
                       /\ pc'[w] = "applying" => pc[w] = "applying"
  /\ \A i \in 1..group.size : queue'[i] = queue[i]

(* Where only writers move, all the rest stays right. *)
LEMMA MovesR ==
  ASSUME IInv, NEW N \in [Writer -> Nat], RInv(N), Moves,
         UNCHANGED <<group, mem, imm, logfile, versions, bg, disk, phase, unread>>
  PROVE  RInv(N)'
<1>1. Agreed(N)'
  BY DEF RInv, Agreed
<1>2. GroupRight(N)'
  <2>1. group.size \in Nat /\ (group.size # 0 => 1 \in 1..group.size)
    BY DEF IInv, ShapeOK
  <2>2. \A i \in 1..group.size : queue'[i] = queue[i] /\ queue'[1] = queue[1]
    BY <2>1 DEF Moves
  <2>3. {queue'[i] : i \in 1..group.size} = {queue[i] : i \in 1..group.size}
    BY <2>2
  <2> QED BY <2>2, <2>3 DEF RInv, GroupRight, Moves
<1>3. PlacesRight'
  BY DEF RInv, PlacesRight, Moves, InImm, InTables, InLog
<1>4. NumbersRight(N)'
  BY DEF RInv, NumbersRight, Live, InUse, InTables, Tables, InImm, InManifest, Editing
<1>5. WorkKept' /\ RecoveryKept'
  <2>1. /\ InTables(bg.edit.add0)' = InTables(bg.edit.add0) /\ InTables(bg.edit.add1)' = InTables(bg.edit.add1)
        /\ InTables(bg.edit.gone)' = InTables(bg.edit.gone) /\ InTables({bg.output})' = InTables({bg.output})
        /\ InTables(bg.inputs)' = InTables(bg.inputs) /\ InImm' = InImm /\ Given' = Given /\ Tables' = Tables
        /\ Live' = Live
    BY DEF InTables, InImm, Given, Tables, Live
  <2>2. WorkKept'
    BY <2>1 DEF RInv, WorkKept
  <2>3. /\ UNION {InLog(n) : n \in LogsFrom(disk.manifest.log) \ unread}' = UNION {InLog(n) : n \in LogsFrom(disk.manifest.log) \ unread}
        /\ UNION {InLog(n) : n \in LogsFrom(disk.manifest.log)}' = UNION {InLog(n) : n \in LogsFrom(disk.manifest.log)}
        /\ LogsFrom(disk.manifest.log)' = LogsFrom(disk.manifest.log)
    BY DEF InLog, LogsFrom
  <2>4. RecoveryKept'
    BY <2>1, <2>3 DEF RInv, RecoveryKept, Flawed
  <2> QED BY <2>2, <2>4
<1>6. InManifest' = InManifest /\ InUse' = InUse /\ InImm' = InImm /\ InLog(logfile)' = InLog(logfile)
      /\ LogsFrom(versions.log)' = LogsFrom(versions.log) /\ \A n \in DOMAIN disk.logs : InLog(n)' = InLog(n)
  BY DEF InManifest, InUse, InTables, Tables, InImm, InLog, LogsFrom
<1>7. LogKept(N)'
  <2>1. ASSUME NEW w, w \in Writer, Refused(N, w) PROVE Refused(N, w)'
    BY <1>6, <2>1 DEF Refused, Moves
  <2>2. ASSUME Live, NEW w \in InLog(logfile)
        PROVE  w \in DOMAIN mem \/ w \in DOMAIN group.batch \/ Refused(N, w)'
    <3>1. w \in Writer
      BY <2>2, BatchShape DEF InLog, IInv, ShapeOK, DiskOK, Maps, Records, LogsRight, Live
    <3> QED BY <2>1, <2>2, <3>1 DEF RInv, LogKept
  <2>3. \A n : n \in LogsFrom(versions.log) => n \in DOMAIN disk.logs
    BY DEF LogsFrom
  <2> QED BY <1>6, <2>2, <2>3 DEF RInv, LogKept, Live
<1>8. LastRight'
  BY WritersAssumption DEF RInv, LastRight, Moves, Live, Flawed
<1> QED BY <1>1, <1>2, <1>3, <1>4, <1>5, <1>7, <1>8 DEF RInv

(* A step that touches no file and no memtable settles nothing. *)
LEMMA QuietSettles ==
  ASSUME IInv, IInv', NEW N \in [Writer -> Nat], RInv(N), NEW M, Agreed(M)', \A w \in Seen : M[w] = N[w],
         UNCHANGED <<mem, imm, versions, disk, phase>>,
         \A w \in Writer \ Compact : pc'[w] = pc[w] \/ (pc[w] \notin Outside /\ pc'[w] \notin Outside)
  PROVE  Store!DNext
<1>1. answerBar' = answerBar
  BY SameAnswers
<1>2. Seen' = Seen /\ Sure' = Sure /\ Firm' = Firm
  BY QuietSets
<1>3. Agreed(N)
  BY DEF RInv
<1>4. Firm \intersect Seen \subseteq Firm' /\ Sure \intersect Seen \subseteq Sure'
      /\ (Sure' \intersect Seen) \ Sure \subseteq Firm'
  BY <1>2
<1> QED BY <1>1, <1>2, <1>3, <1>4, SettleStore

(* Who leaves, and who is next. *)
LEMMA LeaveMoves ==
  ASSUME ShapeOK, QueueRight, NEW n \in 1..Len(queue), NEW p, NEW answer, Leave(p, n, answer)
  PROVE  /\ \A v \in Writer : IF \E i \in 1..n : queue[i] = v
                              THEN pc'[v] = IF v \in Compact /\ answer = "ok" THEN "await" ELSE answer
                              ELSE pc'[v] = p[v] \/ (pc[v] = "parked" /\ pc'[v] = "head")
         /\ \A i \in 1..n : queue[i] \in Writer
<1> DEFINE L == Len(queue)
           left == SubSeq(queue, n + 1, L)
<1>1. L \in Nat /\ DOMAIN queue = 1..L /\ n \in Nat /\ n <= L /\ n > 0
  BY LenProperties DEF ShapeOK
<1>2. left # <<>> => left[1] = queue[n + 1] /\ n + 1 \in DOMAIN queue
  <2>1. n + 1 \in Int /\ L \in Int /\ \A i \in (n + 1)..L : queue[i] \in Writer
    BY <1>1, ElementOfSeq DEF ShapeOK
  <2>2. /\ left \in Seq(Writer)
        /\ Len(left) = IF n + 1 <= L THEN L - (n + 1) + 1 ELSE 0
        /\ \A i \in 1..(L - (n + 1) + 1) : left[i] = queue[n + 1 + i - 1]
    BY <2>1, SubSeqProperties
  <2> SUFFICES ASSUME left # <<>> PROVE left[1] = queue[n + 1] /\ n + 1 \in DOMAIN queue
    OBVIOUS
  <2>3. Len(left) # 0
    BY <2>2, EmptySeq
  <2> HIDE DEF left, L
  <2>4. n + 1 <= L
    BY <2>2, <2>3
  <2>5. 1 \in 1..(L - (n + 1) + 1) /\ n + 1 + 1 - 1 = n + 1
    BY <1>1, <2>4
  <2> QED BY <1>1, <2>2, <2>4, <2>5
<1>3. pc' = [w \in Writer |->
               IF \E i \in 1..n : queue[i] = w THEN IF w \in Compact /\ answer = "ok" THEN "await" ELSE answer
               ELSE IF left # <<>> /\ w = left[1] THEN "head" ELSE p[w]]
  BY DEF Leave, Answered
<1>4. left # <<>> => pc[queue[n + 1]] = "parked"
  BY <1>1, <1>2 DEF QueueRight
<1> HIDE DEF left
<1>5. \A i \in 1..n : queue[i] \in Writer
  BY <1>1, ElementOfSeq DEF ShapeOK
<1> QED BY <1>2, <1>3, <1>4, <1>5

(* A writer asks: nobody has seen it, so that any number will do. *)
LEMMA CallR ==
  ASSUME IInv, IInv', NEW N \in [Writer -> Nat], RInv(N), NEW w \in Writer, Call(w)
  PROVE  RInv(N)' /\ Store!DNext
<1>1. /\ pc[w] = "idle" /\ queue' = Append(queue, w)
      /\ pc' = [pc EXCEPT ![w] = IF queue = <<>> THEN "head" ELSE "parked"]
      /\ UNCHANGED <<group, mem, imm, logfile, versions, bg, disk, phase, unread>>
  BY DEF Call
<1>2. ShapeOK /\ QueueRight
  BY DEF IInv
<1>3. pc'[w] \in {"head", "parked"} /\ \A v \in Writer : v # w => pc'[v] = pc[v]
  BY <1>1, <1>2 DEF ShapeOK
<1>4. \A i \in 1..group.size : queue'[i] = queue[i]
  <2>1. group.size = 0 \/ group.size \in 1..Len(queue)
    BY <1>2 DEF QueueRight
  <2>2. \A i \in 1..Len(queue) : queue'[i] = queue[i]
    BY <1>1, <1>2, AppendProperties DEF ShapeOK
  <2>3. Len(queue) \in Nat
    BY <1>2, LenProperties DEF ShapeOK
  <2> QED BY <2>1, <2>2, <2>3
<1>5. Moves
  BY <1>1, <1>3, <1>4 DEF Moves, Early, Busy, Logging, Writing, Running, RInv, GroupRight
<1>6. RInv(N)'
  BY <1>1, <1>5, MovesR
<1>7. CASE w \in Compact
  <2>1. \A v \in Writer \ Compact : pc'[v] = pc[v]
    BY <1>3, <1>7
  <2> QED BY <1>1, <1>6, <2>1, QuietSettles DEF RInv
<1>8. CASE w \notin Compact
  <2>1. storeBar' = storeBar /\ Safe' = Safe /\ durableBar' = durableBar
    <3>1. Seen' = Seen /\ Sure' = Sure /\ Firm' = Firm
      BY <1>1, QuietSets
    <3>2. storeBar = NumbersOf(N, Seen) /\ Safe = Sure /\ durableBar = Seen \intersect Firm
      BY StoreFacts DEF RInv
    <3>3. storeBar' = NumbersOf(N, Seen') /\ Safe' = Sure' /\ durableBar' = Seen' \intersect Firm'
      <4>1. StoreIs'
        BY StoreAlways, PTL
      <4> QED BY <1>6, <4>1 DEF StoreIs, RInv
    <3> QED BY <3>1, <3>2, <3>3
  <2>2. answerBar[w] = "none" /\ answerBar' = [answerBar EXCEPT ![w] = "waiting"]
    <3>1. pc'[w] \notin Outside
      BY <1>3 DEF Outside
    <3>2. \A v \in Writer \ Compact : answerBar'[v] = IF v = w THEN "waiting" ELSE answerBar[v]
      BY <1>3, <1>8, <3>1 DEF answerBar, Outside
    <3>3. answerBar' = [v \in Writer \ Compact |-> answerBar'[v]] /\ answerBar = [v \in Writer \ Compact |-> answerBar[v]]
      BY DEF answerBar
    <3>4. answerBar[w] = "none"
      BY <1>1, <1>8 DEF answerBar
    <3> HIDE DEF answerBar
    <3> QED BY <1>8, <3>2, <3>3, <3>4
  <2>3. Store!Ask(w)
    BY <2>1, <2>2 DEF Store!Ask
  <2> QED BY <1>6, <1>8, <2>3 DEF Store!DNext
<1> QED BY <1>7, <1>8

-------------------------------------------------------------------------------
(* Writers that get nothing. *)

(* Writes that fail are answered, and the store is as it was. *)
LEMMA RefuseStore ==
  ASSUME IInv, IInv', NEW N \in [Writer -> Nat], RInv(N), RInv(N)',
         Seen' = Seen, Sure' = Sure, Firm' = Firm, NEW G \in SUBSET (Writer \ Compact),
         \A w \in G : pc[w] \notin Outside /\ pc'[w] = "error",
         \A w \in (Writer \ Compact) \ G : pc'[w] = pc[w] \/ (pc[w] \notin Outside /\ pc'[w] \notin Outside)
  PROVE  Store!DNext
<1>1. storeBar' = storeBar /\ Safe' = Safe /\ durableBar' = durableBar
  <2>1. storeBar = NumbersOf(N, Seen) /\ Safe = Sure /\ durableBar = Seen \intersect Firm
    BY StoreFacts DEF RInv
  <2>2. storeBar' = NumbersOf(N, Seen') /\ Safe' = Sure' /\ durableBar' = Seen' \intersect Firm'
    <3>1. StoreIs'
      BY StoreAlways, PTL
    <3> QED BY <3>1 DEF StoreIs, RInv
  <2> QED BY <2>1, <2>2
<1>2. \A w \in G : answerBar[w] = "waiting"
  BY DEF answerBar, Outside
<1>3. \A w \in Writer \ Compact : answerBar'[w] = IF w \in G THEN "error" ELSE answerBar[w]
  BY DEF answerBar, Outside
<1>4. answerBar' = [w \in Writer \ Compact |-> answerBar'[w]]
  BY DEF answerBar
<1>5. answerBar' = [w \in Writer \ Compact |-> IF w \in G THEN "error" ELSE answerBar[w]]
  <2> HIDE DEF answerBar
  <2> QED BY <1>3, <1>4
<1>6. Store!Refuse(G)
  BY <1>1, <1>2, <1>5 DEF Store!Refuse
<1> QED BY <1>6 DEF Store!DNext

(* A writer is refused before it wrote anything. *)
LEMMA YieldErrorR ==
  ASSUME IInv, IInv', NEW N \in [Writer -> Nat], RInv(N), NEW w \in Writer, YieldError(w) \/ NoNewLog(w)
  PROVE  RInv(N)' /\ Store!DNext
<1>1. /\ pc[w] = "head" /\ Leave(pc, 1, "error")
      /\ UNCHANGED <<group, mem, imm, logfile, versions, bg, disk, phase, unread>>
  BY DEF YieldError, NoNewLog
<1>2. ShapeOK /\ QueueRight /\ pc[w] \in Running /\ pc[w] \notin Writing
  BY <1>1 DEF IInv, Running, Writing
<1>3. /\ 1 \in 1..Len(queue) /\ group.size = 0 /\ queue[1] = w
      /\ \A v \in Writer : pc[v] \in Running => v = w
  BY <1>2, HeadFacts
<1>4. \A v \in Writer : IF v = w THEN pc'[v] = "error"
                        ELSE pc'[v] = pc[v] \/ (pc[v] = "parked" /\ pc'[v] = "head")
  BY <1>1, <1>2, <1>3, LeaveMoves
<1>5. Moves
  BY <1>1, <1>3, <1>4 DEF Moves, Early, Busy, Logging, Writing, Running, RInv, GroupRight
<1>6. RInv(N)'
  BY <1>1, <1>5, MovesR
<1>7. Seen' = Seen /\ Sure' = Sure /\ Firm' = Firm
  BY <1>1, QuietSets
<1>8. Store!DNext
  <2> DEFINE G == {w} \ Compact
  <2>1. G \in SUBSET (Writer \ Compact)
    OBVIOUS
  <2>2. \A v \in G : pc[v] \notin Outside /\ pc'[v] = "error"
    BY <1>1, <1>4 DEF Outside
  <2>3. \A v \in (Writer \ Compact) \ G : pc'[v] = pc[v] \/ (pc[v] \notin Outside /\ pc'[v] \notin Outside)
    BY <1>4 DEF Outside
  <2> HIDE DEF G
  <2> QED BY <1>6, <1>7, <2>1, <2>2, <2>3, RefuseStore
<1> QED BY <1>6, <1>8

(* A writer waits, or learns how its wait ended. *)
LEMMA SleepR ==
  ASSUME IInv, IInv', NEW N \in [Writer -> Nat], RInv(N), NEW w \in Writer,
         Sleep(w) \/ SyncLogFails(w) \/ AwaitFlush(w)
  PROVE  RInv(N)' /\ Store!DNext
<1>1. /\ UNCHANGED <<queue, group, mem, imm, logfile, versions, bg, disk, phase, unread>>
      /\ \A v \in Writer : v # w => pc'[v] = pc[v]
      /\ \/ pc[w] = "head" /\ pc'[w] = "asleep"
         \/ pc[w] = "syncing" /\ pc'[w] = "unsure"
         \/ pc[w] = "await" /\ pc'[w] \in {"ok", "error", "flushing"}
  <2>1. pc \in [Writer -> Running \union Outside \union {"parked", "await", "flushing"}]
    BY DEF IInv, ShapeOK
  <2> QED BY <2>1 DEF Sleep, SyncLogFails, AwaitFlush
<1>2. pc[w] = "await" => w \in Compact
  BY DEF RInv, GroupRight
<1>3. Moves
  BY <1>1, <1>2 DEF Moves, Early, Busy, Logging, Writing, Running, RInv, GroupRight
<1>4. RInv(N)'
  BY <1>1, <1>3, MovesR
<1>5. \A v \in Writer \ Compact : pc'[v] = pc[v] \/ (pc[v] \notin Outside /\ pc'[v] \notin Outside)
  BY <1>1, <1>2 DEF Outside
<1> QED BY <1>1, <1>4, <1>5, QuietSettles DEF RInv

-------------------------------------------------------------------------------
(* A group is formed. *)

(* It ends before the first writer that may not join it. *)
LEMMA GroupJoins ==
  ASSUME ShapeOK, queue # <<>>
  PROVE  \A i \in 2..GroupSize : Joins(i)
<1> DEFINE S == {n \in 1..Len(queue) : \A i \in 2..n : Joins(i)}
           g == GroupSize
<1>1. g \in 1..Len(queue) /\ g = Cardinality(S) /\ Len(queue) \in Nat
  BY GroupFacts, LenProperties DEF ShapeOK, GroupSize
<1>2. \A n \in S : \A m \in 1..n : m \in S
  BY <1>1
<1>3. S \subseteq 1..Len(queue) /\ (g \in S => \A i \in 2..g : Joins(i))
  OBVIOUS
<1> HIDE DEF S, g
<1>4. g \in S
  <2> SUFFICES ASSUME g \notin S PROVE FALSE
    OBVIOUS
  <2>1. S \in SUBSET (1..(g - 1))
    BY <1>1, <1>2, <1>3
  <2>2. IsFiniteSet(1..(g - 1)) /\ Cardinality(1..(g - 1)) = g - 1
    <3>1. g - 1 \in Int /\ 1 \in Int /\ g - 1 >= 0
      BY <1>1
    <3>2. IsFiniteSet(1..(g - 1)) /\ Cardinality(1..(g - 1)) = IF 1 > g - 1 THEN 0 ELSE g - 1 - 1 + 1
      BY <3>1, FS_Interval
    <3> QED BY <1>1, <3>2
  <2>3. Cardinality(S) <= g - 1
    BY <2>1, <2>2, FS_Subset
  <2> QED BY <1>1, <2>3
<1> QED BY <1>3, <1>4 DEF g

(* Its numbers follow the last one, one for each entry. *)
LEMMA NumberedRange ==
  ASSUME ShapeOK, QueueRight, NEW n \in 1..Len(queue)
  PROVE  /\ DOMAIN Numbered(n) = {queue[i] : i \in 1..n} \ Compact
         /\ Cardinality(DOMAIN Numbered(n)) \in Nat
         /\ \A w \in DOMAIN Numbered(n) :
              versions.last < Numbered(n)[w] /\ Numbered(n)[w] <= versions.last + Cardinality(DOMAIN Numbered(n))
<1> DEFINE B(w) == {i \in 1..n : /\ queue[i] \notin Compact /\ \E j \in (i + 1)..n : queue[j] = w}
           b == Numbered(n)
<1>1. /\ DOMAIN b = {queue[i] : i \in 1..n} \ Compact
      /\ \A w \in DOMAIN b : b[w] = versions.last + 1 + Cardinality(B(w))
  BY DEF Numbered
<1>2. versions.last \in Nat /\ n \in Nat /\ DOMAIN queue = 1..Len(queue) /\ Len(queue) \in Nat
      /\ 1..n \subseteq DOMAIN queue
  BY LenProperties DEF ShapeOK, Versions
<1>3. \A i \in 1..n : queue[i] \in Writer
  BY <1>2, ElementOfSeq DEF ShapeOK
<1> HIDE DEF b
<1>4. IsFiniteSet(DOMAIN b) /\ Cardinality(DOMAIN b) \in Nat
  <2>1. DOMAIN b \in SUBSET Writer
    BY <1>1, <1>3
  <2> QED BY <2>1, WritersAssumption, FS_Subset, FS_CardinalityType
<1>5. ASSUME NEW w \in DOMAIN b
      PROVE  Cardinality(B(w)) \in Nat /\ Cardinality(B(w)) <= Cardinality(DOMAIN b) - 1
  <2> DEFINE R == DOMAIN b \ {w}
             f == [i \in B(w) |-> queue[i]]
  <2>1. IsFiniteSet(R) /\ Cardinality(R) = Cardinality(DOMAIN b) - 1
    BY <1>4, FS_RemoveElement
  <2>2. ASSUME NEW i \in B(w) PROVE queue[i] \in R /\ i \in DOMAIN queue
    <3>1. PICK j \in (i + 1)..n : queue[j] = w
      OBVIOUS
    <3>2. i \in 1..n /\ j \in 1..n /\ i # j /\ queue[i] \notin Compact
      BY <1>2
    <3>3. queue[i] # w
      BY <1>2, <3>1, <3>2 DEF QueueRight
    <3> QED BY <1>1, <1>2, <3>2, <3>3
  <2>3. f \in Injection(B(w), R)
    <3>1. \A i, j \in B(w) : queue[i] = queue[j] => i = j
      BY <2>2 DEF QueueRight
    <3> HIDE DEF R
    <3>2. f \in [B(w) -> R]
      BY <2>2
    <3> QED BY <3>1, <3>2 DEF Injection, IsInjective
  <2> HIDE DEF R, f, B
  <2>4. IsFiniteSet(B(w)) /\ Cardinality(B(w)) <= Cardinality(R)
    BY <2>1, <2>3, FS_Injection
  <2> QED BY <2>1, <2>4, FS_CardinalityType
<1> HIDE DEF B
<1>6. \A w \in DOMAIN b : versions.last < b[w] /\ b[w] <= versions.last + Cardinality(DOMAIN b)
  <2>1. \A x, y, z \in Nat : y <= z - 1 => x < x + 1 + y /\ x + 1 + y <= x + z
    OBVIOUS
  <2>2. PICK x, z : x = versions.last /\ z = Cardinality(DOMAIN b)
    OBVIOUS
  <2>3. x \in Nat /\ z \in Nat
    BY <1>2, <1>4, <2>2
  <2>4. ASSUME NEW w \in DOMAIN b PROVE x < b[w] /\ b[w] <= x + z
    <3>1. b[w] = x + 1 + Cardinality(B(w))
      BY <1>1, <2>2
    <3>2. Cardinality(B(w)) \in Nat /\ Cardinality(B(w)) <= z - 1
      BY <1>5, <2>2
    <3> QED BY <2>1, <2>3, <3>1, <3>2
  <2> QED BY <2>2, <2>4
<1> QED BY <1>1, <1>4, <1>6 DEF b

Renumbered(N, b) == [v \in Writer |-> IF v \in DOMAIN b THEN b[v] ELSE N[v]]

(* Everything but the group. *)
Elsewhere(N) ==
  /\ Told(N, mem) /\ (imm # None => Told(N, imm))
  /\ \A t \in DOMAIN disk.tables : Told(N, disk.tables[t])
  /\ \A n \in DOMAIN disk.logs : \A i \in DOMAIN disk.logs[n] : Told(N, disk.logs[n][i].batch)

(* The entries of a memtable or a table, and those of a log, are writers. *)
LEMMA EntryWriters ==
  ASSUME IInv
  PROVE  /\ DOMAIN mem \subseteq Writer /\ InImm \subseteq Writer
         /\ \A t \in DOMAIN disk.tables : DOMAIN disk.tables[t] \subseteq Writer \ Compact
         /\ \A n \in DOMAIN disk.logs : /\ InLog(n) \subseteq Writer \ Compact
                                       /\ \A i \in DOMAIN disk.logs[n] : DOMAIN disk.logs[n][i].batch \subseteq Writer \ Compact
         /\ DOMAIN group.batch \subseteq Writer \ Compact
<1>1. ShapeOK /\ DiskOK
  BY DEF IInv, ShapeOK
<1>2. DOMAIN mem \subseteq Writer /\ InImm \subseteq Writer
  BY <1>1, BatchShape DEF ShapeOK, InImm
<1>3. \A t \in DOMAIN disk.tables : DOMAIN disk.tables[t] \subseteq Writer \ Compact
  BY <1>1, BatchShape DEF DiskOK, Maps
<1>4. ASSUME NEW n \in DOMAIN disk.logs, NEW i \in DOMAIN disk.logs[n]
      PROVE  DOMAIN disk.logs[n][i].batch \subseteq Writer \ Compact
  <2>1. disk.logs[n][i] \in Records
    BY <1>1 DEF DiskOK, Maps
  <2>2. disk.logs[n][i].batch \in Batches
    BY <2>1 DEF Records
  <2> QED BY <2>2, BatchShape
<1>5. DOMAIN group.batch \subseteq Writer \ Compact
  BY <1>1, BatchShape DEF ShapeOK
<1> QED BY <1>2, <1>3, <1>4, <1>5 DEF InLog

(* Who is about to write has not written. *)
LEMMA EarlyNowhere ==
  ASSUME IInv, NEW N \in [Writer -> Nat], RInv(N), ~Logging, NEW G \in SUBSET Early
  PROVE  /\ G \intersect DOMAIN mem = {} /\ G \intersect InImm = {}
         /\ \A t \in DOMAIN disk.tables : G \intersect DOMAIN disk.tables[t] = {}
         /\ \A n \in DOMAIN disk.logs : \A i \in DOMAIN disk.logs[n] :
              G \intersect DOMAIN disk.logs[n][i].batch = {}
<1>1. PlacesRight
  BY DEF RInv
<1>2. G \intersect DOMAIN mem = {} /\ G \intersect InImm = {}
  BY <1>1 DEF PlacesRight
<1>3. \A t \in DOMAIN disk.tables : G \intersect DOMAIN disk.tables[t] = {}
  BY <1>1 DEF PlacesRight, InTables
<1>4. \A n \in DOMAIN disk.logs : \A i \in DOMAIN disk.logs[n] :
        G \intersect DOMAIN disk.logs[n][i].batch = {}
  BY <1>1 DEF PlacesRight, InLog
<1> QED BY <1>2, <1>3, <1>4

(* The numbers of a group are settled when it is formed. *)
LEMMA GroupFormed ==
  ASSUME IInv, NEW N \in [Writer -> Nat], RInv(N), NEW w \in Writer, pc[w] = "head", ~NoBatch(w),
         Proceed(w), versions'.last = versions.last
  PROVE  \E M \in [Writer -> Nat] :
            /\ Told(M, group'.batch) /\ Elsewhere(M)
            /\ \A t \in DOMAIN disk.tables : \A v \in DOMAIN disk.tables[t] : M[v] = N[v]
            /\ \A v \in DOMAIN mem \union InImm : M[v] = N[v]
            /\ GroupRight(M)' /\ Early' = Early /\ ~Logging /\ ~Logging' /\ ~Busy /\ DOMAIN group.batch = {}
            /\ \A v \in Writer : pc'[v] = pc[v] \/ (v = w /\ pc'[v] = "logging")
<1> DEFINE n == GroupSize
           b == Numbered(n)
<1>0. PICK M : M = Renumbered(N, b)
  OBVIOUS
<1>1. ShapeOK /\ QueueRight /\ pc[w] \in Running /\ pc[w] \notin Writing
  BY DEF IInv, Running, Writing
<1>2. /\ queue # <<>> /\ queue[1] = w /\ group.size = 0 /\ Len(queue) \in Nat \ {0} /\ DOMAIN queue = 1..Len(queue)
      /\ \A v \in Writer : pc[v] \in Running => v = w
  BY <1>1, HeadFacts
<1>3. /\ group' = [size |-> n, batch |-> b] /\ pc' = [pc EXCEPT ![w] = "logging"] /\ queue' = queue
  BY DEF Proceed
<1>4. n \in 1..Len(queue) /\ b \in Batches /\ \A i \in 2..n : Joins(i)
  BY <1>1, <1>2, GroupFacts, NumberedBatch, GroupJoins
<1>5. /\ DOMAIN b = {queue[i] : i \in 1..n} \ Compact
      /\ \A v \in DOMAIN b : versions.last < b[v] /\ b[v] <= versions.last + Cardinality(DOMAIN b)
  BY <1>1, <1>4, NumberedRange
<1>6. \A i \in 1..n : i \in DOMAIN queue /\ queue[i] \in Writer
  BY <1>1, <1>2, <1>4, ElementOfSeq DEF ShapeOK
<1> HIDE DEF b, n
<1>7. pc'[w] = "logging" /\ \A v \in Writer : v # w => pc'[v] = pc[v]
  BY <1>1, <1>3 DEF ShapeOK
<1>8. /\ Early' = Early /\ ~Logging /\ ~Logging' /\ ~Busy
  BY <1>1, <1>2, <1>7 DEF Early, Logging, Busy, Running, Writing
<1>9. DOMAIN group.batch = {}
  <2>1. 1..group.size = {}
    BY <1>2
  <2> QED BY <2>1 DEF RInv, GroupRight
<1>10. DOMAIN b \in SUBSET Early
  <2>1. ASSUME NEW i \in 1..n PROVE queue[i] \in Early
    <3>1. IF i = 1 THEN pc[queue[i]] \in Running ELSE pc[queue[i]] = "parked"
      BY <1>1, <1>6 DEF QueueRight
    <3> QED BY <1>6, <3>1 DEF Early
  <2> QED BY <1>5, <2>1
<1>11. /\ DOMAIN b \intersect DOMAIN mem = {} /\ DOMAIN b \intersect InImm = {}
       /\ \A t \in DOMAIN disk.tables : DOMAIN b \intersect DOMAIN disk.tables[t] = {}
       /\ \A m \in DOMAIN disk.logs : \A i \in DOMAIN disk.logs[m] :
            DOMAIN b \intersect DOMAIN disk.logs[m][i].batch = {}
  BY <1>8, <1>10, EarlyNowhere
<1>12. M \in [Writer -> Nat]
  BY <1>0, <1>4, BatchShape DEF Renumbered
<1>13. DOMAIN b \subseteq Writer /\ \A v \in DOMAIN b : M[v] = b[v]
  BY <1>0, <1>4, BatchShape DEF Renumbered
<1>14. \A v \in Writer : v \notin DOMAIN b => M[v] = N[v]
  BY <1>0 DEF Renumbered
<1>15. Told(M, group'.batch)
  BY <1>3, <1>13 DEF Told
<1>16. \A t \in DOMAIN disk.tables : \A v \in DOMAIN disk.tables[t] : M[v] = N[v]
  BY <1>11, <1>14, EntryWriters
<1>17. \A v \in DOMAIN mem \union InImm : M[v] = N[v]
  BY <1>11, <1>14, EntryWriters
<1>18. Elsewhere(M)
  <2>1. Agreed(N)
    BY DEF RInv
  <2>2. \A m \in DOMAIN disk.logs : \A i \in DOMAIN disk.logs[m] :
          \A v \in DOMAIN disk.logs[m][i].batch : M[v] = N[v]
    <3>1. \A m \in DOMAIN disk.logs : \A i \in DOMAIN disk.logs[m] :
            DOMAIN disk.logs[m][i].batch \subseteq Writer
      BY EntryWriters
    <3> QED BY <1>11, <1>14, <3>1
  <2> QED BY <1>16, <1>17, <2>1, <2>2 DEF Elsewhere, Agreed, Told, InImm
<1>19. GroupRight(M)'
  <2>1. DOMAIN group'.batch = {queue'[i] : i \in 1..group'.size} \ Compact
    BY <1>3, <1>5
  <2>2. \A i \in 1..group'.size : queue'[i] \in Sync => queue'[1] \in Sync
    <3> SUFFICES ASSUME NEW i \in 1..n, queue[i] \in Sync PROVE queue[1] \in Sync
      BY <1>3
    <3>1. i = 1 \/ i \in 2..n
      BY <1>4
    <3> QED BY <1>4, <3>1 DEF Joins
  <2>3. \A v \in DOMAIN group'.batch :
          versions'.last < M[v] /\ M[v] <= versions'.last + Cardinality(DOMAIN group'.batch)
    BY <1>3, <1>5, <1>13
  <2>4. \A v \in Writer : pc'[v] \in Writing => v \notin Compact
    BY <1>7, <1>8 DEF Busy, NoBatch
  <2>5. \A v \in Writer : pc'[v] \in {"await", "flushing"} => v \in Compact
    BY <1>7 DEF RInv, GroupRight
  <2> QED BY <2>1, <2>2, <2>3, <2>4, <2>5 DEF GroupRight
<1>20. \A v \in Writer : pc'[v] = pc[v] \/ (v = w /\ pc'[v] = "logging")
  BY <1>7
<1> QED BY <1>4, <1>8, <1>9, <1>12, <1>15, <1>16, <1>17, <1>18, <1>19, <1>20

(* MakeRoomForWrite gave way. *)
LEMMA Proceeds ==
  ASSUME IInv, NEW N \in [Writer -> Nat], RInv(N), NEW w \in Writer, pc[w] = "head",
         Proceed(w), versions'.last = versions.last
  PROVE  \E M \in [Writer -> Nat] :
            /\ Told(M, group'.batch) /\ Elsewhere(M)
            /\ \A t \in DOMAIN disk.tables : \A v \in DOMAIN disk.tables[t] : M[v] = N[v]
            /\ \A v \in DOMAIN mem \union InImm : M[v] = N[v]
            /\ GroupRight(M)' /\ Early' \subseteq Early /\ ~Logging /\ ~Logging' /\ ~Busy /\ DOMAIN group.batch = {}
            /\ \A v \in Writer : /\ pc[v] \in {"error", "failing"} => pc'[v] = pc[v]
                                 /\ pc'[v] = "applying" => pc[v] = "applying"
                                 /\ v \notin Compact => pc'[v] = pc[v] \/ (pc[v] \notin Outside /\ pc'[v] \notin Outside)
<1>1. ShapeOK /\ QueueRight /\ pc[w] \in Running /\ pc[w] \notin Writing
  BY DEF IInv, Running, Writing
<1>2. /\ 1 \in 1..Len(queue) /\ group.size = 0 /\ queue[1] = w /\ phase = "open"
      /\ \A v \in Writer : pc[v] \in Running => v = w
  BY <1>1, HeadFacts
<1>3. CASE NoBatch(w)
  <2>1. Leave(pc, 1, "ok") /\ group' = group
    BY <1>3 DEF Proceed
  <2>2. \A v \in Writer : IF v = w THEN pc'[v] = "await"
                          ELSE pc'[v] = pc[v] \/ (pc[v] = "parked" /\ pc'[v] = "head")
    BY <1>1, <1>2, <1>3, <2>1, LeaveMoves DEF NoBatch
  <2>3. Early' \subseteq Early /\ ~Logging /\ ~Logging' /\ ~Busy
    BY <1>1, <1>2, <2>2 DEF Early, Busy, Logging, Writing, Running
  <2>4. 1..group.size = {}
    BY <1>2
  <2>5. DOMAIN group.batch = {}
    BY <2>4 DEF RInv, GroupRight
  <2>6. GroupRight(N)'
    <3>1. \A v \in Writer : pc'[v] \in Writing => v \notin Compact
      BY <2>2, <2>3 DEF Busy, Writing
    <3>2. \A v \in Writer : pc'[v] \in {"await", "flushing"} => v \in Compact
      BY <1>3, <2>2 DEF RInv, GroupRight, NoBatch
    <3>3. 1..group'.size = {} /\ DOMAIN group'.batch = {}
      BY <2>1, <2>4, <2>5
    <3> QED BY <3>1, <3>2, <3>3 DEF GroupRight
  <2>7. \A v \in Writer : /\ pc[v] \in {"error", "failing"} => pc'[v] = pc[v]
                          /\ pc'[v] = "applying" => pc[v] = "applying"
                          /\ v \notin Compact => pc'[v] = pc[v] \/ (pc[v] \notin Outside /\ pc'[v] \notin Outside)
    BY <1>1, <1>3, <2>2 DEF NoBatch, Outside, Running
  <2>8. Told(N, group'.batch) /\ Elsewhere(N)
    BY <2>1 DEF RInv, Agreed, Elsewhere
  <2> QED BY <2>3, <2>5, <2>6, <2>7, <2>8
<1>4. CASE ~NoBatch(w)
  <2>1. PICK M \in [Writer -> Nat] :
        /\ Told(M, group'.batch) /\ Elsewhere(M)
        /\ \A t \in DOMAIN disk.tables : \A v \in DOMAIN disk.tables[t] : M[v] = N[v]
        /\ \A v \in DOMAIN mem \union InImm : M[v] = N[v]
        /\ GroupRight(M)' /\ Early' = Early /\ ~Logging /\ ~Logging' /\ ~Busy /\ DOMAIN group.batch = {}
        /\ \A v \in Writer : pc'[v] = pc[v] \/ (v = w /\ pc'[v] = "logging")
    BY <1>4, GroupFormed
  <2>2. \A v \in Writer : /\ pc[v] \in {"error", "failing"} => pc'[v] = pc[v]
                          /\ pc'[v] = "applying" => pc[v] = "applying"
                          /\ v \notin Compact => pc'[v] = pc[v] \/ (pc[v] \notin Outside /\ pc'[v] \notin Outside)
    BY <2>1 DEF Outside
  <2> QED BY <2>1, <2>2
<1> QED BY <1>3, <1>4

(* The memtable has room. *)
LEMMA HaveRoomR ==
  ASSUME IInv, IInv', NEW N \in [Writer -> Nat], RInv(N), NEW w \in Writer, HaveRoom(w)
  PROVE  \E M \in [Writer -> Nat] : RInv(M)' /\ Store!DNext
<1>1. /\ pc[w] = "head" /\ ~bg.error /\ Proceed(w)
      /\ UNCHANGED <<mem, imm, logfile, versions, bg, disk, phase, unread>>
  BY DEF HaveRoom
<1>2. ShapeOK /\ QueueRight /\ pc[w] \in Running /\ pc[w] \notin Writing
  BY <1>1 DEF IInv, Running, Writing
<1>3. /\ 1 \in 1..Len(queue) /\ group.size = 0 /\ queue[1] = w /\ phase = "open"
      /\ \A v \in Writer : pc[v] \in Running => v = w
  BY <1>2, HeadFacts
<1>4. PICK M \in [Writer -> Nat] :
            /\ Told(M, group'.batch) /\ Elsewhere(M)
            /\ \A t \in DOMAIN disk.tables : \A v \in DOMAIN disk.tables[t] : M[v] = N[v]
            /\ \A v \in DOMAIN mem \union InImm : M[v] = N[v]
            /\ GroupRight(M)' /\ Early' \subseteq Early /\ ~Logging /\ ~Logging' /\ ~Busy /\ DOMAIN group.batch = {}
            /\ \A v \in Writer : /\ pc[v] \in {"error", "failing"} => pc'[v] = pc[v]
                                 /\ pc'[v] = "applying" => pc[v] = "applying"
                                 /\ v \notin Compact => pc'[v] = pc[v] \/ (pc[v] \notin Outside /\ pc'[v] \notin Outside)
  BY <1>1, Proceeds
<1>5. Agreed(M)'
  BY <1>1, <1>4 DEF Agreed, Elsewhere, Told
<1>6. PlacesRight'
  BY <1>1, <1>4 DEF RInv, PlacesRight, InImm, InTables, InLog
<1>7. \A ts \in SUBSET DOMAIN disk.tables : \A v \in InTables(ts) : M[v] = N[v]
  BY <1>4 DEF InTables
<1>8. InUse \subseteq InTables(DOMAIN disk.tables) /\ InManifest \subseteq InTables(DOMAIN disk.tables)
      /\ (Editing => InTables(bg.edit.add0 \union bg.edit.add1) \subseteq InTables(DOMAIN disk.tables))
  BY <1>3 DEF InUse, InManifest, InTables, IInv, TablesRight, EditRight
<1>9. \A v \in InUse \union InManifest : M[v] = N[v]
  BY <1>7, <1>8
<1>10. NumbersRight(M)'
  <2>1. NumbersRight(M)
    BY <1>3, <1>4, <1>7, <1>8, <1>9 DEF RInv, NumbersRight, Live
  <2> QED BY <1>1, <2>1 DEF NumbersRight, Live, InUse, InTables, Tables, InImm, InManifest, Editing
<1>11. WorkKept' /\ RecoveryKept'
  <2>1. WorkKept'
    <3>1. /\ InTables(bg.edit.add0)' = InTables(bg.edit.add0) /\ InTables(bg.edit.add1)' = InTables(bg.edit.add1)
          /\ InTables(bg.edit.gone)' = InTables(bg.edit.gone) /\ InTables({bg.output})' = InTables({bg.output})
          /\ InTables(bg.inputs)' = InTables(bg.inputs) /\ InImm' = InImm /\ Given' = Given /\ Tables' = Tables
          /\ Live' = Live
      BY <1>1 DEF InTables, InImm, Given, Tables, Live
    <3> QED BY <1>1, <3>1 DEF RInv, WorkKept
  <2> QED BY <1>1, <1>3, <2>1 DEF RecoveryKept, Live
<1>12. LogKept(M)'
  <2>1. InManifest' = InManifest /\ InUse' = InUse /\ InImm' = InImm /\ InLog(logfile)' = InLog(logfile)
        /\ LogsFrom(versions.log)' = LogsFrom(versions.log) /\ \A n \in DOMAIN disk.logs : InLog(n)' = InLog(n)
    BY <1>1 DEF InManifest, InUse, InTables, Tables, InImm, InLog, LogsFrom
  <2>2. \A v \in InLog(logfile) : v \in DOMAIN mem
    BY <1>1, <1>3, <1>4 DEF RInv, LogKept, Live, Refused
  <2>3. \A n : n \in LogsFrom(versions.log) => n \in DOMAIN disk.logs
    BY DEF LogsFrom
  <2> QED BY <1>1, <2>1, <2>2, <2>3 DEF RInv, LogKept, Live
<1>13. LastRight'
  <2>1. \A v \in Sync : pc'[v] = "applying" => pc[v] = "applying"
    BY <1>4, WritersAssumption
  <2>2. \A v \in Writer : pc[v] \in {"error", "failing"} => pc'[v] = pc[v]
    BY <1>1, <1>4
  <2> QED BY <1>1, <1>4, <2>1, <2>2 DEF RInv, LastRight, Live, Flawed
<1>14. RInv(M)'
  BY <1>4, <1>5, <1>6, <1>10, <1>11, <1>12, <1>13 DEF RInv
<1>15. \A v \in Writer \ Compact : pc'[v] = pc[v] \/ (pc[v] \notin Outside /\ pc'[v] \notin Outside)
  BY <1>1, <1>4 DEF Outside
<1>16. \A v \in Seen : M[v] = N[v]
  BY <1>3, <1>4, <1>9 DEF Seen, Live, InMemory
<1>17. Store!DNext
  BY <1>1, <1>14, <1>15, <1>16, QuietSettles DEF RInv
<1> QED BY <1>4, <1>14, <1>17

(* A batch is a memtable, never the lack of one. *)
LEMMA BatchNotNone == \A f \in Batches : f # None
<1> SUFFICES ASSUME NEW f \in Batches, f = None PROVE FALSE
  OBVIOUS
<1>1. DOMAIN f \in SUBSET Writer /\ f \in [DOMAIN f -> Nat]
  BY BatchShape
<1> QED BY <1>1, NoneAssumption

(* A log that stays as it is holds what it held. *)
LEMMA LogSame ==
  ASSUME NEW n, disk'.logs[n] = disk.logs[n]
  PROVE  InLog(n)' = InLog(n) /\ InKept(n)' = InKept(n) /\ InFirm(n)' = InFirm(n)
<1>1. Intact(disk.logs[n])' = Intact(disk.logs[n])
  BY DEF Intact, Sound, Flawed
<1> QED BY <1>1 DEF InLog, InKept, InFirm

(* An empty log holds nothing. *)
LEMMA LogEmpty ==
  ASSUME NEW n, disk'.logs[n] = <<>>
  PROVE  InLog(n)' = {} /\ InKept(n)' = {} /\ InFirm(n)' = {}
<1>1. DOMAIN disk'.logs[n] = {}
  OBVIOUS
<1>2. Intact(disk.logs[n])' = {}
  BY <1>1 DEF Intact
<1> QED BY <1>1, <1>2 DEF InLog, InKept, InFirm

(* A new memtable and a new log, the old ones wait for the flush. *)
LEMMA SwitchSets ==
  ASSUME IInv, NEW N \in [Writer -> Nat], RInv(N), NEW w \in Writer, Switch(w)
  PROVE  /\ Live /\ Live' /\ InUse' = InUse /\ InManifest' = InManifest /\ DOMAIN mem' = {} /\ InImm' = DOMAIN mem
         /\ InImm = {} /\ Seen' = Seen /\ Sure' = Sure /\ Firm' = Firm
         /\ logfile' \notin LogsFrom(versions.log) /\ logfile' >= versions.log /\ logfile < logfile'
         /\ logfile' \in Nat /\ logfile \in Nat
         /\ disk'.tables = disk.tables /\ disk'.manifest = disk.manifest
         /\ disk'.logs = [n \in DOMAIN disk.logs \union {logfile'} |-> IF n = logfile' THEN <<>> ELSE disk.logs[n]]
<1>0. PICK k : k = versions.next
  OBVIOUS
<1>1. /\ pc[w] = "head" /\ imm = None /\ logfile' = k /\ versions' = [versions EXCEPT !.next = @ + 1]
      /\ disk' = [disk EXCEPT !.logs = [m \in DOMAIN @ \union {k} |-> IF m = k THEN <<>> ELSE @[m]]]
      /\ imm' = mem /\ mem' = Nothing /\ phase' = phase
  BY <1>0 DEF Switch, MustWait
<1>2. ShapeOK /\ QueueRight /\ pc[w] \in Running
  BY <1>1 DEF IInv, Running
<1>3. phase = "open" /\ k \in Nat /\ versions \in Versions /\ logfile \in Nat /\ versions.log \in Nat
  BY <1>0, <1>2, HeadFacts DEF ShapeOK, Versions
<1>4. /\ versions'.log = versions.log /\ versions'.l0 = versions.l0 /\ versions'.l1 = versions.l1
  BY <1>1, <1>3 DEF Versions
<1>5. /\ disk'.tables = disk.tables /\ disk'.manifest = disk.manifest
      /\ disk'.logs = [n \in DOMAIN disk.logs \union {k} |-> IF n = k THEN <<>> ELSE disk.logs[n]]
  BY <1>1, <1>2 DEF ShapeOK, DiskOK
<1>6. /\ versions.log <= logfile /\ logfile < k /\ unread = {} /\ LogsFrom(versions.log) \subseteq 0..(k - 1)
  BY <1>0, <1>3 DEF IInv, LogsRight
<1>7. k \notin LogsFrom(versions.log) /\ k >= versions.log
  BY <1>3, <1>6
<1>8. Live /\ Live' /\ InUse' = InUse /\ InManifest' = InManifest
  BY <1>1, <1>3, <1>4, <1>5 DEF Live, InUse, InManifest, InTables, Tables
<1>9. DOMAIN mem' = {} /\ InImm = {}
  BY <1>1 DEF InImm, Nothing
<1>10. InImm' = DOMAIN mem
  BY <1>1, <1>2, BatchNotNone DEF InImm, ShapeOK
<1>11. Seen' = Seen
  BY <1>8, <1>9, <1>10 DEF Seen, InMemory
<1>12. disk.manifest.log \in Nat /\ versions.log <= disk.manifest.log /\ disk.manifest.log <= logfile
  BY <1>2, <1>8 DEF ShapeOK, DiskOK, Versions, RInv, LogKept
<1>13. LogsFrom(disk.manifest.log)' = LogsFrom(disk.manifest.log) \union {k} /\ k \notin LogsFrom(disk.manifest.log)
       /\ \A n \in LogsFrom(disk.manifest.log) : disk'.logs[n] = disk.logs[n]
  <2>1. DOMAIN disk.logs \subseteq Nat
    BY <1>2 DEF ShapeOK, DiskOK
  <2>2. k >= disk.manifest.log
    BY <1>3, <1>6, <1>12
  <2>3. k \notin LogsFrom(disk.manifest.log)
    <3>1. LogsFrom(disk.manifest.log) \subseteq LogsFrom(versions.log)
      BY <1>3, <1>12, <2>1 DEF LogsFrom
    <3> QED BY <1>7, <3>1
  <2> QED BY <1>5, <2>2, <2>3 DEF LogsFrom
<1>14. Sure' = Sure /\ Firm' = Firm
  <2>1. \A n \in LogsFrom(disk.manifest.log) : InKept(n)' = InKept(n) /\ InFirm(n)' = InFirm(n)
    BY <1>13, LogSame
  <2>2. InKept(k)' = {} /\ InFirm(k)' = {}
    BY <1>5, LogEmpty
  <2>3. KeptLogs' = KeptLogs /\ FirmLogs' = FirmLogs
    BY <1>13, <2>1, <2>2 DEF KeptLogs, FirmLogs
  <2> QED BY <1>8, <2>3 DEF Sure, Firm
<1>15. logfile' = k
  BY <1>1
<1>16. logfile' \notin LogsFrom(versions.log) /\ logfile' >= versions.log /\ logfile < logfile' /\ logfile' \in Nat
  BY <1>3, <1>6, <1>7, <1>15
<1> QED BY <1>3, <1>5, <1>8, <1>9, <1>10, <1>11, <1>14, <1>15, <1>16

-------------------------------------------------------------------------------
(* The log and the memtable. *)

(* MakeRoomForWrite: the new log is empty, and what the old one holds is in imm. *)
LEMMA SwitchR ==
  ASSUME IInv, IInv', NEW N \in [Writer -> Nat], RInv(N), NEW w \in Writer, Switch(w)
  PROVE  \E M \in [Writer -> Nat] : RInv(M)' /\ Store!DNext
<1>1. /\ pc[w] = "head" /\ ~bg.error /\ imm = None /\ versions' = [versions EXCEPT !.next = @ + 1]
      /\ imm' = mem /\ mem' = Nothing /\ bg' = Scheduled(bg, mem, versions) /\ Proceed(w) /\ UNCHANGED <<phase, unread>>
      /\ logfile' = versions.next
  BY DEF Switch, MustWait
<1>2. /\ ShapeOK /\ bg \in Calls /\ versions \in Versions /\ bg.edit \in Edits /\ versions.next \in Nat
      /\ disk.manifest.log \in Nat /\ versions.log \in Nat
  BY DEF IInv, ShapeOK, Calls, DiskOK, Versions
<1>3. /\ versions'.last = versions.last /\ versions'.next = versions.next + 1 /\ versions'.log = versions.log
      /\ versions'.l0 = versions.l0 /\ versions'.l1 = versions.l1
  BY <1>1, <1>2 DEF Versions
<1>4. /\ bg'.error = bg.error /\ bg'.flush = bg.flush /\ bg'.merge = bg.merge /\ bg'.table = bg.table
      /\ bg'.inputs = bg.inputs /\ bg'.output = bg.output /\ bg'.edit = bg.edit
  BY <1>1, <1>2, ScheduledFields
<1>5. PICK M \in [Writer -> Nat] :
            /\ Told(M, group'.batch) /\ Elsewhere(M)
            /\ \A t \in DOMAIN disk.tables : \A v \in DOMAIN disk.tables[t] : M[v] = N[v]
            /\ \A v \in DOMAIN mem \union InImm : M[v] = N[v]
            /\ GroupRight(M)' /\ Early' \subseteq Early /\ ~Logging /\ ~Logging' /\ ~Busy /\ DOMAIN group.batch = {}
            /\ \A v \in Writer : /\ pc[v] \in {"error", "failing"} => pc'[v] = pc[v]
                                 /\ pc'[v] = "applying" => pc[v] = "applying"
                                 /\ v \notin Compact => pc'[v] = pc[v] \/ (pc[v] \notin Outside /\ pc'[v] \notin Outside)
  BY <1>1, <1>3, Proceeds
<1>6. /\ Live /\ Live' /\ InUse' = InUse /\ InManifest' = InManifest /\ DOMAIN mem' = {} /\ InImm' = DOMAIN mem
      /\ InImm = {} /\ Seen' = Seen /\ Sure' = Sure /\ Firm' = Firm
      /\ logfile' \notin LogsFrom(versions.log) /\ logfile' >= versions.log /\ logfile < logfile'
      /\ logfile' \in Nat /\ logfile \in Nat
      /\ disk'.tables = disk.tables /\ disk'.manifest = disk.manifest
      /\ disk'.logs = [n \in DOMAIN disk.logs \union {logfile'} |-> IF n = logfile' THEN <<>> ELSE disk.logs[n]]
  BY SwitchSets
<1>7. DOMAIN disk'.logs = DOMAIN disk.logs \union {logfile'} /\ disk'.logs[logfile'] = <<>>
      /\ \A n \in DOMAIN disk.logs : n # logfile' => disk'.logs[n] = disk.logs[n]
  BY <1>6
<1>8. Agreed(M)'
  <2>1. \A n \in DOMAIN disk'.logs : \A i \in DOMAIN disk'.logs[n] :
          n # logfile' /\ n \in DOMAIN disk.logs /\ disk'.logs[n] = disk.logs[n]
    BY <1>7
  <2>2. \A n \in DOMAIN disk'.logs : \A i \in DOMAIN disk'.logs[n] : Told(M, disk'.logs[n][i].batch)
    BY <1>5, <2>1 DEF Elsewhere
  <2>3. Told(M, mem') /\ Told(M, imm')
    BY <1>1, <1>5, <1>6 DEF Elsewhere, Told
  <2> QED BY <1>5, <1>6, <2>2, <2>3 DEF Agreed, Elsewhere, Told
<1>9. PlacesRight'
  <2>1. \A v \in Early, n \in DOMAIN disk.logs : v \notin InLog(n)
    BY <1>5 DEF RInv, PlacesRight
  <2>2. \A n \in DOMAIN disk'.logs : InLog(n)' \subseteq IF n = logfile' THEN {} ELSE InLog(n)
    <3> SUFFICES ASSUME NEW n \in DOMAIN disk'.logs PROVE InLog(n)' \subseteq IF n = logfile' THEN {} ELSE InLog(n)
      OBVIOUS
    <3> QED BY <1>7, LogSame, LogEmpty
  <2>3. \A v \in Early', n \in DOMAIN disk'.logs : v \notin InLog(n)'
    BY <1>5, <1>7, <2>1, <2>2
  <2>4. InTables(DOMAIN disk.tables)' = InTables(DOMAIN disk.tables)
    BY <1>6 DEF InTables
  <2> QED BY <1>5, <1>6, <2>3, <2>4 DEF PlacesRight, RInv
<1>10. /\ \A ts \in SUBSET DOMAIN disk.tables : \A v \in InTables(ts) : M[v] = N[v]
       /\ InUse \subseteq InTables(DOMAIN disk.tables) /\ InManifest \subseteq InTables(DOMAIN disk.tables)
       /\ (Editing => InTables(bg.edit.add0 \union bg.edit.add1) \subseteq InTables(DOMAIN disk.tables))
  BY <1>5, <1>6 DEF InTables, InUse, InManifest, IInv, TablesRight, EditRight, Live
<1>11. NumbersRight(M)'
  <2>1. NumbersRight(M)
    <3>1. NumbersRight(N)
      BY <1>5 DEF RInv
    <3> QED BY <1>5, <1>6, <1>10, <3>1 DEF NumbersRight, Live
  <2>2. InTables(bg.edit.add0 \union bg.edit.add1)' = InTables(bg.edit.add0 \union bg.edit.add1)
        /\ Editing' = Editing
    BY <1>1, <1>4, <1>6 DEF InTables, Editing
  <2> QED BY <1>1, <1>3, <1>4, <1>6, <2>1, <2>2 DEF NumbersRight, Live
<1>12. WorkKept'
  <2>1. /\ InTables(bg.edit.add0)' = InTables(bg.edit.add0) /\ InTables(bg.edit.add1)' = InTables(bg.edit.add1)
        /\ InTables(bg.edit.gone)' = InTables(bg.edit.gone) /\ InTables({bg.output})' = InTables({bg.output})
        /\ InTables(bg.inputs)' = InTables(bg.inputs) /\ Tables' = Tables
    BY <1>3, <1>4, <1>6 DEF InTables, Tables
  <2>2. Given \subseteq Given'
    BY <1>2, <1>3 DEF Given
  <2>3. bg.flush = "none"
    BY <1>1 DEF IInv, WorkRight
  <2> QED BY <1>3, <1>4, <1>6, <2>1, <2>2, <2>3 DEF RInv, WorkKept
<1>13. RecoveryKept'
  BY <1>6 DEF RecoveryKept
<1>14. LogKept(M)'
  <2>1. LogsFrom(versions.log)' = LogsFrom(versions.log) \union {logfile'}
    BY <1>2, <1>3, <1>6, <1>7 DEF LogsFrom
  <2>2. /\ versions.log <= disk.manifest.log /\ disk.manifest.log <= logfile
        /\ \A n \in LogsFrom(versions.log) :
             n <= logfile /\ (n < logfile => InLog(n) \subseteq InImm \union InManifest)
        /\ InManifest \subseteq InUse \union InImm
        /\ \A v \in InLog(logfile) : v \in DOMAIN mem
    BY <1>1, <1>5, <1>6 DEF RInv, LogKept, Refused
  <2>3. LogsFrom(versions.log) \subseteq Nat
    BY <1>2 DEF LogsFrom, ShapeOK, DiskOK
  <2>4. ASSUME NEW n \in LogsFrom(versions.log)
        PROVE  n <= logfile' /\ InLog(n)' \subseteq DOMAIN mem \union InManifest
    <3>1. n <= logfile /\ n # logfile' /\ n \in DOMAIN disk.logs
      BY <1>6, <2>2 DEF LogsFrom
    <3>2. InLog(n)' = InLog(n)
      BY <1>7, <3>1, LogSame
    <3>3. n < logfile \/ n = logfile
      BY <1>6, <2>3, <3>1
    <3>4. InLog(n) \subseteq DOMAIN mem \union InManifest
      BY <1>6, <2>2, <3>3
    <3>5. n <= logfile'
      BY <1>6, <2>3, <3>1
    <3> QED BY <3>2, <3>4, <3>5
  <2>5. disk.manifest.log <= logfile'
    BY <1>2, <1>6, <2>2
  <2>6. InLog(logfile)' = {}
    <3>1. PICK k : k = logfile'
      OBVIOUS
    <3>2. InLog(k)' = {}
      BY <1>7, <3>1, LogEmpty
    <3>3. InLog(logfile)' = InLog(k)'
      BY <3>1 DEF InLog
    <3> QED BY <3>2, <3>3
  <2>7. InManifest' \subseteq InUse' \union InImm'
    BY <1>6, <2>2
  <2>8. \A n \in LogsFrom(versions.log)' : n <= logfile' /\ (n < logfile' => InLog(n)' \subseteq InImm' \union InManifest')
    BY <1>6, <2>1, <2>4
  <2>9. disk.manifest.log = versions.log
    <3>1. bg.flush = "none" /\ phase = "open"
      BY <1>1, <1>2, <1>6 DEF IInv, WorkRight, Live, CallsRight, QueueRight, Outside
    <3>2. CASE bg.merge = "install"
      <4>1. bg.edit.log = versions.log /\ Ahead
        BY <3>2 DEF RInv, WorkKept, Ahead
      <4>2. Edited(versions, bg.edit).log = bg.edit.log
        BY <1>2, EditedFields
      <4> QED BY <1>1, <3>1, <4>1, <4>2 DEF IInv, ManifestRight
    <3>3. CASE bg.merge # "install"
      BY <1>1, <3>1, <3>3 DEF IInv, ManifestRight, Ahead
    <3> QED BY <3>2, <3>3
  <2> QED BY <1>2, <1>3, <1>6, <2>2, <2>5, <2>6, <2>7, <2>8, <2>9 DEF LogKept
<1>15. LastRight'
  <2>1. DOMAIN disk'.logs[logfile'] = {}
    BY <1>7
  <2> QED BY <1>5, <2>1 DEF LastRight
<1>16. RInv(M)'
  BY <1>5, <1>8, <1>9, <1>11, <1>12, <1>13, <1>14, <1>15 DEF RInv
<1>17. \A v \in Seen : M[v] = N[v]
  BY <1>5, <1>6, <1>10 DEF Seen, InMemory
<1>18. Store!DNext
  <2>1. answerBar' = answerBar
    BY <1>5, SameAnswers
  <2>2. Firm \intersect Seen \subseteq Firm' /\ Sure \intersect Seen \subseteq Sure'
        /\ (Sure' \intersect Seen) \ Sure \subseteq Firm'
    BY <1>6
  <2>3. Agreed(N) /\ Agreed(M)' /\ Seen' = Seen
    BY <1>6, <1>16 DEF RInv
  <2> QED BY <1>17, <2>1, <2>2, <2>3, SettleStore
<1> QED BY <1>16, <1>18

(* Those of the group have no answer yet. *)
LEMMA GroupEarly ==
  ASSUME IInv, NEW N, RInv(N)
  PROVE  /\ DOMAIN group.batch \subseteq Early
         /\ DOMAIN group.batch \intersect (DOMAIN mem \union InImm \union InTables(DOMAIN disk.tables)) = {}
<1>1. ShapeOK /\ QueueRight
  BY DEF IInv
<1>2. group.size \in Nat /\ Len(queue) \in Nat /\ DOMAIN queue = 1..Len(queue)
  BY <1>1, LenProperties DEF ShapeOK
<1>3. 1..group.size \subseteq DOMAIN queue
  <2>1. group.size = 0 \/ group.size \in 1..Len(queue)
    BY <1>1 DEF QueueRight
  <2> QED BY <1>2, <2>1
<1>4. \A i \in DOMAIN queue : queue[i] \in Early
  <2>1. \A i \in DOMAIN queue : queue[i] \in Writer
    BY <1>1, ElementOfSeq DEF ShapeOK
  <2> QED BY <1>1, <2>1 DEF QueueRight, Early
<1>5. DOMAIN group.batch \subseteq Early
  BY <1>3, <1>4 DEF RInv, GroupRight
<1> QED BY <1>5 DEF RInv, PlacesRight

(* The log becomes another, by the group of the head at most. *)
LEMMA LogStepR ==
  ASSUME IInv, IInv', NEW N \in [Writer -> Nat], RInv(N), NEW w \in Writer, pc[w] \in Writing,
         NEW st \in Writing, pc' = [pc EXCEPT ![w] = st], Live,
         UNCHANGED <<queue, group, mem, imm, logfile, versions, bg, phase, unread>>,
         disk'.tables = disk.tables, disk'.manifest = disk.manifest, DOMAIN disk'.logs = DOMAIN disk.logs,
         \A n \in DOMAIN disk.logs : n # logfile => disk'.logs[n] = disk.logs[n],
         \A i \in DOMAIN disk'.logs[logfile] : Told(N, disk'.logs[logfile][i].batch),
         InLog(logfile)' \subseteq InLog(logfile) \union DOMAIN group.batch,
         \A v \in Early : v \in InLog(logfile)' => v \in DOMAIN group.batch /\ Logging',
         LastRight',
         InKept(logfile) \subseteq InKept(logfile)', InFirm(logfile) \subseteq InFirm(logfile)',
         InKept(logfile)' \subseteq InKept(logfile) \union DOMAIN group.batch
  PROVE  RInv(N)' /\ Store!DNext
<1>0. PICK k : k = logfile
  OBVIOUS
<1>1. ShapeOK /\ QueueRight /\ pc[w] \in Running /\ st \in Running
  BY DEF IInv, Running
<1>2. \A v \in Writer : pc[v] \in Running => v = w
  BY <1>1, HeadFacts
<1>3. pc'[w] = st /\ \A v \in Writer : v # w => pc'[v] = pc[v]
  BY <1>1 DEF ShapeOK
<1>4. Early' = Early /\ Busy
  BY <1>1, <1>3 DEF Early, Busy
<1>5. Agreed(N)'
  <2>1. ASSUME NEW n \in DOMAIN disk'.logs, NEW i \in DOMAIN disk'.logs[n] PROVE Told(N, disk'.logs[n][i].batch)
    <3>1. CASE n = logfile
      BY <2>1, <3>1
    <3>2. CASE n # logfile
      BY <2>1, <3>2 DEF RInv, Agreed
    <3> QED BY <3>1, <3>2
  <2>2. \A t \in DOMAIN disk'.tables : Told(N, disk'.tables[t])
    BY DEF RInv, Agreed
  <2> QED BY <2>1, <2>2 DEF RInv, Agreed
<1>6. GroupRight(N)'
  <2>1. \A v \in Writer : pc'[v] \in Writing => v \notin Compact
    BY <1>3 DEF RInv, GroupRight
  <2>2. \A v \in Writer : pc'[v] \in {"await", "flushing"} => v \in Compact
    BY <1>3 DEF RInv, GroupRight, Writing
  <2>3. /\ DOMAIN group.batch = {queue[i] : i \in 1..group.size} \ Compact
        /\ \A i \in 1..group.size : queue[i] \in Sync => queue[1] \in Sync
        /\ \A v \in DOMAIN group.batch :
             versions.last < N[v] /\ N[v] <= versions.last + Cardinality(DOMAIN group.batch)
    BY DEF RInv, GroupRight
  <2>4. /\ DOMAIN group'.batch = {queue'[i] : i \in 1..group'.size} \ Compact
        /\ \A i \in 1..group'.size : queue'[i] \in Sync => queue'[1] \in Sync
        /\ \A v \in DOMAIN group'.batch :
             versions'.last < N[v] /\ N[v] <= versions'.last + Cardinality(DOMAIN group'.batch)
    BY <2>3
  <2> QED BY <2>1, <2>2, <2>4 DEF GroupRight
<1>7. \A n \in DOMAIN disk.logs : n # k => InLog(n)' = InLog(n) /\ InKept(n)' = InKept(n) /\ InFirm(n)' = InFirm(n)
  BY <1>0, LogSame
<1>8. InTables(DOMAIN disk.tables)' = InTables(DOMAIN disk.tables) /\ InImm' = InImm /\ InManifest' = InManifest
      /\ InUse' = InUse /\ Live' = Live /\ LogsFrom(versions.log)' = LogsFrom(versions.log)
      /\ LogsFrom(disk.manifest.log)' = LogsFrom(disk.manifest.log)
  BY DEF InTables, InImm, InManifest, InUse, Tables, Live, LogsFrom
<1>9. /\ InLog(k)' \subseteq InLog(k) \union DOMAIN group.batch /\ InLog(logfile)' = InLog(k)'
      /\ InKept(k) \subseteq InKept(k)' /\ InFirm(k) \subseteq InFirm(k)'
      /\ InKept(k)' \subseteq InKept(k) \union DOMAIN group.batch
  BY <1>0 DEF InLog, InKept, InFirm
<1>10. PlacesRight'
  <2>1. ASSUME NEW v \in Early, NEW n \in DOMAIN disk.logs, v \in InLog(n)'
        PROVE  n = k /\ v \in DOMAIN group.batch /\ Logging'
    <3>1. CASE n = k
      BY <1>0, <1>9, <2>1, <3>1
    <3>2. CASE n # k
      <4>1. v \in InLog(n)
        BY <1>7, <2>1, <3>2
      <4> QED BY <1>0, <3>2, <4>1 DEF RInv, PlacesRight
    <3> QED BY <3>1, <3>2
  <2>2. \A v \in Early', n \in DOMAIN disk'.logs :
          v \in InLog(n)' => n = logfile' /\ v \in DOMAIN group'.batch /\ Logging'
    BY <1>0, <1>4, <2>1
  <2> QED BY <1>4, <1>8, <2>2 DEF RInv, PlacesRight
<1>11. NumbersRight(N)'
  <2>1. InTables(bg.edit.add0 \union bg.edit.add1)' = InTables(bg.edit.add0 \union bg.edit.add1)
        /\ Editing' = Editing /\ InTables(Tables \union bg.edit.add0)' = InTables(Tables \union bg.edit.add0)
    BY DEF InTables, Editing, Tables
  <2> QED BY <1>8, <2>1 DEF RInv, NumbersRight
<1>12. LogKept(N)'
  <2>1. LogsFrom(versions.log) \subseteq DOMAIN disk.logs
    BY DEF LogsFrom
  <2>2. \A n \in LogsFrom(versions.log)' : n <= k /\ (n < k => InLog(n)' \subseteq InImm' \union InManifest')
    <3>1. ASSUME NEW n \in LogsFrom(versions.log) PROVE n <= k /\ (n < k => InLog(n)' \subseteq InImm \union InManifest)
      <4>1. n <= k /\ (n < k => InLog(n) \subseteq InImm \union InManifest)
        BY <1>0 DEF RInv, LogKept
      <4>2. n < k => n # k
        <5>1. n \in Nat /\ k \in Nat
          BY <1>0, <1>1 DEF LogsFrom, ShapeOK, DiskOK
        <5> QED BY <5>1
      <4> QED BY <1>7, <2>1, <4>1, <4>2
    <3> QED BY <1>8, <3>1
  <2>3. \A v \in InLog(logfile)' : v \in DOMAIN mem \/ v \in DOMAIN group.batch
    <3>1. \A v \in InLog(k) : v \in DOMAIN mem \/ v \in DOMAIN group.batch
      BY <1>0, <1>4 DEF RInv, LogKept, Refused
    <3> QED BY <1>9, <3>1
  <2>4. versions.log <= disk.manifest.log /\ disk.manifest.log <= logfile /\ InManifest \subseteq InUse \union InImm
        /\ (versions.log < disk.manifest.log => InImm \subseteq InManifest)
    BY DEF RInv, LogKept
  <2> QED BY <1>0, <1>8, <2>2, <2>3, <2>4 DEF LogKept
<1>13. WorkKept'
  <2>1. /\ InTables(bg.edit.add0)' = InTables(bg.edit.add0) /\ InTables(bg.edit.add1)' = InTables(bg.edit.add1)
        /\ InTables(bg.edit.gone)' = InTables(bg.edit.gone) /\ InTables({bg.output})' = InTables({bg.output})
        /\ InTables(bg.inputs)' = InTables(bg.inputs) /\ Given' = Given /\ Tables' = Tables
    BY DEF InTables, Given, Tables
  <2> QED BY <1>8, <2>1 DEF RInv, WorkKept
<1>14. RecoveryKept'
  BY <1>8 DEF RecoveryKept
<1>15. RInv(N)'
  BY <1>5, <1>6, <1>10, <1>11, <1>12, <1>13, <1>14 DEF RInv
<1>16. Seen' = Seen /\ Seen = InMemory
  BY <1>8 DEF Seen, InMemory
<1>17. KeptLogs \subseteq KeptLogs' /\ FirmLogs \subseteq FirmLogs' /\ KeptLogs' \subseteq KeptLogs \union DOMAIN group.batch
  <2>1. LogsFrom(disk.manifest.log) \subseteq DOMAIN disk.logs
    BY DEF LogsFrom
  <2>2. \A n \in LogsFrom(disk.manifest.log) : /\ InKept(n) \subseteq InKept(n)' /\ InFirm(n) \subseteq InFirm(n)'
                                              /\ InKept(n)' \subseteq InKept(n) \union DOMAIN group.batch
    BY <1>7, <1>9, <2>1
  <2> QED BY <1>8, <2>2 DEF KeptLogs, FirmLogs
<1>18. DOMAIN group.batch \intersect Seen = {}
  <2>1. InUse \subseteq InTables(DOMAIN disk.tables)
    BY DEF InUse, InTables, IInv, TablesRight, Live
  <2> QED BY <1>16, <2>1, GroupEarly DEF InMemory
<1>19. answerBar' = answerBar
  <2>1. \A v \in Writer : pc'[v] = pc[v] \/ (pc[v] \notin Outside /\ pc'[v] \notin Outside)
    BY <1>3 DEF Writing, Outside
  <2> QED BY <2>1, SameAnswers
<1>20. /\ Firm \intersect Seen \subseteq Firm' /\ Sure \intersect Seen \subseteq Sure'
       /\ (Sure' \intersect Seen) \ Sure \subseteq Firm'
  BY <1>8, <1>17, <1>18 DEF Sure, Firm
<1>21. Store!DNext
  <2>1. Agreed(N) /\ \A v \in Seen : N[v] = N[v]
    BY DEF RInv
  <2> QED BY <1>5, <1>16, <1>19, <1>20, <2>1, SettleStore
<1> QED BY <1>15, <1>21

(* The log of a database that is open, when it becomes new. *)
LEMMA LogFields ==
  ASSUME IInv, phase = "open", NEW new, disk' = [disk EXCEPT !.logs[logfile] = new]
  PROVE  /\ disk'.tables = disk.tables /\ disk'.manifest = disk.manifest /\ DOMAIN disk'.logs = DOMAIN disk.logs
         /\ disk'.logs[logfile] = new /\ \A n \in DOMAIN disk.logs : n # logfile => disk'.logs[n] = disk.logs[n]
<1>1. logfile \in DOMAIN disk.logs
  BY DEF IInv, LogsRight
<1>2. disk'.logs = [disk.logs EXCEPT ![logfile] = new] /\ disk'.tables = disk.tables /\ disk'.manifest = disk.manifest
  BY DEF IInv, ShapeOK, DiskOK
<1> QED BY <1>1, <1>2

(* What a log holds as one more record is appended. *)
LEMMA LogAppended ==
  ASSUME NEW n, disk.logs[n] \in Seq(Records), NEW b \in Batches, disk'.logs[n] = Append(disk.logs[n], Record(b))
  PROVE  /\ InLog(n)' \subseteq InLog(n) \union DOMAIN b
         /\ InKept(n) \subseteq InKept(n)' /\ InKept(n)' \subseteq InKept(n) \union DOMAIN b
         /\ InFirm(n) \subseteq InFirm(n)'
         /\ DOMAIN disk.logs[n] \subseteq DOMAIN disk'.logs[n]
         /\ \A i \in DOMAIN disk.logs[n] : disk'.logs[n][i] = disk.logs[n][i]
         /\ \E i \in DOMAIN disk'.logs[n] : disk'.logs[n][i].batch = b
         /\ \A i \in DOMAIN disk'.logs[n] : i \in DOMAIN disk.logs[n] \/ disk'.logs[n][i].batch = b
<1>0. PICK log, new : log = disk.logs[n] /\ new = Append(log, Record(b))
  OBVIOUS
<1>1. Record(b) \in Records /\ Record(b).batch = b
  BY DEF Record, Records
<1>2. /\ Len(log) \in Nat /\ DOMAIN log = 1..Len(log) /\ DOMAIN new = 1..(Len(log) + 1)
      /\ \A i \in 1..Len(log) : new[i] = log[i] /\ new[Len(log) + 1] = Record(b)
      /\ new[Len(log) + 1] = Record(b)
  BY <1>0, <1>1, LenProperties, AppendProperties
<1>3. DOMAIN log \subseteq DOMAIN new /\ (\A i \in DOMAIN log : new[i] = log[i])
      /\ \A i \in DOMAIN new : i \in DOMAIN log \/ (new[i].batch = b /\ \A j \in DOMAIN log : j < i)
  BY <1>1, <1>2
<1>4. Intact(log) \subseteq Intact(new) /\ \A i \in Intact(new) : i \in DOMAIN log => i \in Intact(log)
  <2>1. ASSUME NEW i \in Intact(log) PROVE i \in Intact(new)
    <3>1. \A j \in DOMAIN new : j <= i => j \in DOMAIN log
      BY <1>2 DEF Intact
    <3> QED BY <1>3, <3>1 DEF Intact, Sound, Flawed
  <2>2. ASSUME NEW i \in Intact(new), i \in DOMAIN log PROVE i \in Intact(log)
    BY <1>3, <2>2 DEF Intact, Sound, Flawed
  <2> QED BY <2>1, <2>2
<1>5. /\ InLog(n) = UNION {DOMAIN log[i].batch : i \in DOMAIN log}
      /\ InLog(n)' = UNION {DOMAIN new[i].batch : i \in DOMAIN new}
      /\ InKept(n) = UNION {DOMAIN log[i].batch : i \in Intact(log)}
      /\ InKept(n)' = UNION {DOMAIN new[i].batch : i \in Intact(new)}
      /\ InFirm(n) = UNION {DOMAIN log[i].batch : i \in {j \in Intact(log) : log[j].synced}}
      /\ InFirm(n)' = UNION {DOMAIN new[i].batch : i \in {j \in Intact(new) : new[j].synced}}
  BY <1>0 DEF InLog, InKept, InFirm, Intact, Sound, Flawed
<1>6. Intact(log) \subseteq DOMAIN log /\ Intact(new) \subseteq DOMAIN new
  BY DEF Intact
<1>7. InLog(n)' \subseteq InLog(n) \union DOMAIN b
  BY <1>3, <1>5
<1>8. InKept(n) \subseteq InKept(n)' /\ InKept(n)' \subseteq InKept(n) \union DOMAIN b
  BY <1>3, <1>4, <1>5, <1>6
<1>9. InFirm(n) \subseteq InFirm(n)'
  BY <1>3, <1>4, <1>5, <1>6
<1>10. \E i \in DOMAIN new : new[i].batch = b
  <2>1. Len(log) + 1 \in DOMAIN new
    BY <1>2
  <2> QED BY <1>1, <1>2, <2>1
<1> QED BY <1>0, <1>3, <1>7, <1>8, <1>9, <1>10

(* The record of a group is in the log: nobody sees it yet. *)
LEMMA LogRecordR ==
  ASSUME IInv, IInv', NEW N \in [Writer -> Nat], RInv(N), NEW w \in Writer, LogRecord(w) \/ LogRecordFails(w)
  PROVE  RInv(N)' /\ Store!DNext
<1>1. pc[w] = "logging" /\ UNCHANGED <<queue, group, mem, imm, logfile, versions, bg, phase, unread>>
  BY DEF LogRecord, LogRecordFails
<1>2. ShapeOK /\ QueueRight /\ pc[w] \in Running /\ pc[w] \in Writing
  BY <1>1 DEF IInv, Running, Writing
<1>3. /\ phase = "open" /\ Live /\ 1 \in DOMAIN queue /\ queue[1] = w /\ group.size \in 1..Len(queue)
      /\ \A v \in Writer : pc[v] \in Running => v = w
  BY <1>2, HeadFacts DEF Live
<1>4. disk.logs[logfile] \in Seq(Records) /\ logfile \in DOMAIN disk.logs
  BY <1>3 DEF IInv, LogsRight
<1>5. w \notin Compact /\ w \in DOMAIN group.batch
  <2>1. 1 \in 1..group.size
    BY <1>3
  <2> QED BY <1>2, <1>3, <2>1 DEF RInv, GroupRight
<1>6. PICK st \in Writing, b \in Batches :
        /\ pc' = [pc EXCEPT ![w] = st]
        /\ disk' = [disk EXCEPT !.logs[logfile] = Append(disk.logs[logfile], Record(b))]
        /\ IF b = group.batch THEN st = (IF w \in Sync THEN "syncing" ELSE "applying") ELSE st = "failing" /\ b = Nothing
  <2>1. group.batch # Nothing
    BY <1>5 DEF Nothing
  <2>2. CASE LogRecord(w)
    BY <1>2, <1>4, <2>2 DEF LogRecord, Writing, ShapeOK
  <2>3. CASE LogRecordFails(w)
    BY <1>4, <2>1, <2>3, NothingBatch DEF LogRecordFails, Writing
  <2> QED BY <2>2, <2>3
<1>7. PICK k : k = logfile
  OBVIOUS
<1>8. /\ disk'.tables = disk.tables /\ disk'.manifest = disk.manifest /\ DOMAIN disk'.logs = DOMAIN disk.logs
      /\ disk'.logs[k] = Append(disk.logs[k], Record(b))
      /\ \A n \in DOMAIN disk.logs : n # k => disk'.logs[n] = disk.logs[n]
  BY <1>3, <1>6, <1>7, LogFields
<1>9. /\ InLog(k)' \subseteq InLog(k) \union DOMAIN b
      /\ InKept(k) \subseteq InKept(k)' /\ InKept(k)' \subseteq InKept(k) \union DOMAIN b
      /\ InFirm(k) \subseteq InFirm(k)'
      /\ DOMAIN disk.logs[k] \subseteq DOMAIN disk'.logs[k]
      /\ \A i \in DOMAIN disk.logs[k] : disk'.logs[k][i] = disk.logs[k][i]
      /\ \E i \in DOMAIN disk'.logs[k] : disk'.logs[k][i].batch = b
      /\ \A i \in DOMAIN disk'.logs[k] : i \in DOMAIN disk.logs[k] \/ disk'.logs[k][i].batch = b
  <2>1. disk.logs[k] \in Seq(Records) /\ disk'.logs[k] = Append(disk.logs[k], Record(b)) /\ b \in Batches
    BY <1>4, <1>7, <1>8
  <2> QED BY <2>1, LogAppended
<1>10. /\ InLog(logfile)' = InLog(k)' /\ InLog(logfile) = InLog(k)
       /\ InKept(logfile)' = InKept(k)' /\ InKept(logfile) = InKept(k)
       /\ InFirm(logfile)' = InFirm(k)' /\ InFirm(logfile) = InFirm(k)
  BY <1>1, <1>7 DEF InLog, InKept, InFirm
<1>11. DOMAIN b \subseteq DOMAIN group.batch /\ (b # group.batch => DOMAIN b = {})
  BY <1>6 DEF Nothing
<1>12. pc'[w] = st /\ \A v \in Writer : v # w => pc'[v] = pc[v]
  BY <1>2, <1>6 DEF ShapeOK
<1>13. ~Logging /\ (b = group.batch => Logging')
  <2>1. ~Logging
    BY <1>1, <1>3 DEF Logging, Running, Writing
  <2>2. b = group.batch => pc'[w] \in {"syncing", "applying"}
    BY <1>6, <1>12
  <2> QED BY <2>1, <2>2 DEF Logging
<1>14. \A v \in Early : v \in InLog(logfile)' => v \in DOMAIN group.batch /\ Logging'
  <2>1. \A v \in Early : v \notin InLog(k)
    BY <1>4, <1>7, <1>13 DEF RInv, PlacesRight
  <2> QED BY <1>9, <1>10, <1>11, <1>13, <2>1
<1>15. \A i \in DOMAIN disk'.logs[k] : Told(N, disk'.logs[k][i].batch)
  <2>1. Told(N, b)
    BY <1>6 DEF RInv, Agreed, Told, Nothing
  <2>2. \A i \in DOMAIN disk.logs[k] : Told(N, disk.logs[k][i].batch)
    BY <1>4, <1>7 DEF RInv, Agreed
  <2> QED BY <1>9, <2>1, <2>2
<1>16. LastRight'
  <2>1. ASSUME NEW i \in DOMAIN disk'.logs[k], Flawed(disk'.logs[k][i])
        PROVE  \E v \in Writer \ Compact : pc'[v] \in {"error", "failing"}
    <3>1. CASE b = group.batch
      <4>1. i \in DOMAIN disk.logs[k] /\ Flawed(disk.logs[k][i])
        BY <1>5, <1>9, <2>1, <3>1 DEF Flawed, Nothing
      <4>2. \E v \in Writer \ Compact : pc[v] \in {"error", "failing"}
        BY <1>3, <1>7, <4>1 DEF RInv, LastRight
      <4> QED BY <1>1, <1>12, <4>2
    <3>2. CASE b # group.batch
      BY <1>5, <1>6, <1>12, <3>2
    <3> QED BY <3>1, <3>2
  <2>2. Logging' => b = group.batch
    <3>1. b # group.batch => ~Logging'
      BY <1>3, <1>6, <1>12 DEF Logging, Running, Writing
    <3> QED BY <3>1
  <2>3. Logging' => \E i \in DOMAIN disk'.logs[k] : disk'.logs[k][i].batch = group.batch
    BY <1>9, <2>2
  <2>4. \A v \in Sync : pc'[v] # "applying"
    <3>1. Sync \subseteq Writer
      BY WritersAssumption
    <3>2. \A v \in Writer : pc[v] # "applying"
      BY <1>1, <1>3 DEF Running, Writing
    <3> QED BY <1>6, <1>12, <3>1, <3>2
  <2>5. (\E i \in DOMAIN disk'.logs[k] : Flawed(disk'.logs[k][i])) =>
          \E v \in Writer \ Compact : pc'[v] \in {"error", "failing"}
    BY <2>1
  <2> QED BY <1>1, <1>7, <2>3, <2>4, <2>5 DEF LastRight, Flawed
<1>17. /\ \A n \in DOMAIN disk.logs : n # logfile => disk'.logs[n] = disk.logs[n]
       /\ \A i \in DOMAIN disk'.logs[logfile] : Told(N, disk'.logs[logfile][i].batch)
       /\ InLog(logfile)' \subseteq InLog(logfile) \union DOMAIN group.batch
       /\ InKept(logfile) \subseteq InKept(logfile)' /\ InFirm(logfile) \subseteq InFirm(logfile)'
       /\ InKept(logfile)' \subseteq InKept(logfile) \union DOMAIN group.batch
  BY <1>7, <1>8, <1>9, <1>10, <1>11, <1>15
<1> QED BY <1>1, <1>2, <1>3, <1>6, <1>8, <1>14, <1>16, <1>17, LogStepR

(* The log is synced: the disk catches up. *)
LEMMA SyncLogR ==
  ASSUME IInv, IInv', NEW N \in [Writer -> Nat], RInv(N), NEW w \in Writer, SyncLog(w)
  PROVE  RInv(N)' /\ Store!DNext
<1>0. PICK k, log : k = logfile /\ log = disk.logs[k]
  OBVIOUS
<1>1. /\ pc[w] = "syncing" /\ pc' = [pc EXCEPT ![w] = "applying"]
      /\ UNCHANGED <<queue, group, mem, imm, logfile, versions, bg, phase, unread>>
  BY DEF SyncLog
<1>2. ShapeOK /\ QueueRight /\ pc[w] \in Running /\ pc[w] \in Writing /\ "applying" \in Writing
  BY <1>1 DEF IInv, Running, Writing
<1>3. phase = "open" /\ Live /\ \A v \in Writer : pc[v] \in Running => v = w
  BY <1>2, HeadFacts DEF Live
<1>4. log \in Seq(Records) /\ logfile \in DOMAIN disk.logs
  BY <1>0, <1>3 DEF IInv, LogsRight
<1>5. PICK new : new = [i \in DOMAIN log |-> [log[i] EXCEPT !.synced = TRUE]]
  OBVIOUS
<1>6. disk' = [disk EXCEPT !.logs[logfile] = new]
  BY <1>0, <1>4, <1>5 DEF SyncLog
<1>7. /\ disk'.tables = disk.tables /\ disk'.manifest = disk.manifest /\ DOMAIN disk'.logs = DOMAIN disk.logs
      /\ disk'.logs[k] = new
      /\ \A n \in DOMAIN disk.logs : n # k => disk'.logs[n] = disk.logs[n]
  BY <1>0, <1>3, <1>6, LogFields
<1>8. DOMAIN new = DOMAIN log /\ \A i \in DOMAIN log : new[i].batch = log[i].batch /\ new[i].synced
  <2>1. \A i \in DOMAIN log : log[i] \in Records
    BY <1>4, SeqMaps DEF Maps
  <2> QED BY <1>5, <2>1 DEF Records
<1>9. Intact(new) = Intact(log) /\ Intact(log) \subseteq DOMAIN log
  BY <1>8 DEF Intact, Sound, Flawed
<1>10. /\ InLog(k) = UNION {DOMAIN log[i].batch : i \in DOMAIN log}
       /\ InLog(k)' = UNION {DOMAIN new[i].batch : i \in DOMAIN new}
       /\ InKept(k) = UNION {DOMAIN log[i].batch : i \in Intact(log)}
       /\ InKept(k)' = UNION {DOMAIN new[i].batch : i \in Intact(new)}
       /\ InFirm(k) = UNION {DOMAIN log[i].batch : i \in {j \in Intact(log) : log[j].synced}}
       /\ InFirm(k)' = UNION {DOMAIN new[i].batch : i \in {j \in Intact(new) : new[j].synced}}
  BY <1>0, <1>7 DEF InLog, InKept, InFirm, Intact, Sound, Flawed
<1>11. InLog(k)' = InLog(k) /\ InKept(k)' = InKept(k) /\ InFirm(k) \subseteq InFirm(k)'
  BY <1>8, <1>9, <1>10
<1>12. /\ InLog(logfile)' = InLog(k)' /\ InLog(logfile) = InLog(k)
       /\ InKept(logfile)' = InKept(k)' /\ InKept(logfile) = InKept(k)
       /\ InFirm(logfile)' = InFirm(k)' /\ InFirm(logfile) = InFirm(k)
  BY <1>0, <1>1 DEF InLog, InKept, InFirm
<1>13. Logging /\ Logging' /\ pc'[w] = "applying" /\ \A v \in Writer : v # w => pc'[v] = pc[v]
  BY <1>1, <1>2 DEF Logging, ShapeOK
<1>14. \A v \in Early : v \in InLog(logfile)' => v \in DOMAIN group.batch /\ Logging'
  BY <1>0, <1>4, <1>11, <1>12, <1>13 DEF RInv, PlacesRight
<1>15. \A i \in DOMAIN new : Told(N, new[i].batch)
  BY <1>0, <1>4, <1>8 DEF RInv, Agreed
<1>16. LastRight'
  <2>1. (\E i \in DOMAIN log : Flawed(log[i])) => \E v \in Writer \ Compact : pc[v] \in {"error", "failing"}
    BY <1>0, <1>3 DEF RInv, LastRight
  <2>2. (\E i \in DOMAIN new : Flawed(new[i])) => \E v \in Writer \ Compact : pc'[v] \in {"error", "failing"}
    BY <1>1, <1>8, <1>13, <2>1 DEF Flawed
  <2>3. \E i \in DOMAIN new : new[i].batch = group.batch
    BY <1>0, <1>3, <1>8, <1>13 DEF RInv, LastRight
  <2> QED BY <1>0, <1>1, <1>7, <1>8, <2>2, <2>3 DEF LastRight, Flawed
<1>17. /\ \A n \in DOMAIN disk.logs : n # logfile => disk'.logs[n] = disk.logs[n]
       /\ \A i \in DOMAIN disk'.logs[logfile] : Told(N, disk'.logs[logfile][i].batch)
       /\ InLog(logfile)' \subseteq InLog(logfile) \union DOMAIN group.batch
       /\ InKept(logfile) \subseteq InKept(logfile)' /\ InFirm(logfile) \subseteq InFirm(logfile)'
       /\ InKept(logfile)' \subseteq InKept(logfile) \union DOMAIN group.batch
  BY <1>0, <1>7, <1>11, <1>12, <1>15
<1> QED BY <1>1, <1>2, <1>3, <1>7, <1>14, <1>16, <1>17, LogStepR

-------------------------------------------------------------------------------
(* The end of a group. *)

(* The group is done: what there was, and what becomes of it. *)
LEMMA FinishFacts ==
  ASSUME IInv, NEW N \in [Writer -> Nat], RInv(N), NEW w \in Writer, Finish(w)
  PROVE  /\ pc[w] \in {"applying", "failing", "unsure"} /\ Live /\ Live' /\ Busy /\ ~Busy' /\ ~Logging'
         /\ w \notin Compact /\ w \in DOMAIN group.batch /\ queue[1] = w
         /\ (\A v \in Writer : pc[v] \in Running => v = w)
         /\ Cardinality(DOMAIN group.batch) \in Nat /\ versions.last \in Nat
         /\ \A v \in DOMAIN group.batch : /\ v \in Writer \ Compact /\ pc[v] \notin Outside
                                          /\ pc'[v] = IF pc[w] = "applying" THEN "ok" ELSE "error"
         /\ \A v \in Writer : v \notin DOMAIN group.batch =>
              \/ v \in Compact /\ pc'[v] \in {"await", "error", "head", pc[v]}
              \/ v \notin Compact /\ (pc'[v] = pc[v] \/ (pc[v] = "parked" /\ pc'[v] = "head"))
         /\ Early' \subseteq Early \ DOMAIN group.batch
<1> DEFINE p == IF pc[w] = "unsure" /\ ~bg.error THEN Woken(pc) ELSE pc
           answer == IF pc[w] = "applying" THEN "ok" ELSE "error"
           n == group.size
<1>1. pc[w] \in {"applying", "failing", "unsure"} /\ Leave(p, n, answer) /\ phase' = phase
  BY DEF Finish
<1>2. ShapeOK /\ QueueRight /\ pc[w] \in Running /\ pc[w] \in Writing
  BY <1>1 DEF IInv, Running, Writing
<1>3. /\ phase = "open" /\ Live /\ Live' /\ Busy /\ 1 \in DOMAIN queue /\ queue[1] = w /\ n \in 1..Len(queue)
      /\ DOMAIN queue = 1..Len(queue) /\ Len(queue) \in Nat
      /\ \A v \in Writer : pc[v] \in Running => v = w
  BY <1>1, <1>2, HeadFacts DEF Live, Busy
<1>4. WakesOnly(p) /\ p[w] = pc[w]
  <2>1. WakesOnly(pc) /\ WakesOnly(Woken(pc))
    BY <1>2, WokenFacts
  <2>2. Woken(pc)[w] = pc[w]
    BY <1>1 DEF Woken
  <2> QED BY <2>1, <2>2
<1>5. answer \in {"ok", "error"} /\ (answer = "ok" <=> pc[w] = "applying")
  OBVIOUS
<1> HIDE DEF p, answer
<1>6. /\ \A v \in Writer : IF \E i \in 1..n : queue[i] = v
                           THEN pc'[v] = IF v \in Compact /\ answer = "ok" THEN "await" ELSE answer
                           ELSE pc'[v] = p[v] \/ (pc[v] = "parked" /\ pc'[v] = "head")
      /\ \A i \in 1..n : queue[i] \in Writer
  BY <1>1, <1>2, <1>3, LeaveMoves
<1>7. DOMAIN group.batch = {queue[i] : i \in 1..n} \ Compact /\ w \notin Compact
      /\ \A v \in Writer : pc[v] \in {"await", "flushing"} => v \in Compact
  BY <1>2 DEF RInv, GroupRight
<1>8. w \in DOMAIN group.batch
  <2>1. 1 \in 1..n
    BY <1>3
  <2> QED BY <1>3, <1>7, <2>1
<1>9. \A v \in DOMAIN group.batch : v \in Writer \ Compact /\ pc'[v] = answer
  BY <1>6, <1>7
<1>10. \A v \in DOMAIN group.batch : pc[v] \notin Outside
  <2>1. 1..n \subseteq DOMAIN queue
    BY <1>3
  <2>2. \A i \in 1..n : pc[queue[i]] \notin Outside
    BY <1>2, <2>1 DEF QueueRight, Outside, Running, Writing
  <2> QED BY <1>7, <2>2
<1>11. \A v \in Writer : (~\E i \in 1..n : queue[i] = v) =>
         \/ pc'[v] = pc[v] \/ (pc[v] = "parked" /\ pc'[v] = "head")
         \/ v \in Compact /\ pc'[v] = "await" /\ pc[v] = "flushing"
  <2> SUFFICES ASSUME NEW v \in Writer, ~\E i \in 1..n : queue[i] = v
               PROVE  \/ pc'[v] = pc[v] \/ (pc[v] = "parked" /\ pc'[v] = "head")
                      \/ v \in Compact /\ pc'[v] = "await" /\ pc[v] = "flushing"
    OBVIOUS
  <2>1. pc'[v] = p[v] \/ (pc[v] = "parked" /\ pc'[v] = "head")
    BY <1>6
  <2>2. v # w
    BY <1>7, <1>8
  <2>3. pc[v] # "asleep"
    BY <1>3, <2>2 DEF Running
  <2> QED BY <1>4, <1>7, <2>1, <2>3 DEF WakesOnly
<1>12. \A v \in Writer : v \notin DOMAIN group.batch =>
         \/ v \in Compact /\ pc'[v] \in {"await", "error", "head", pc[v]}
         \/ v \notin Compact /\ (pc'[v] = pc[v] \/ (pc[v] = "parked" /\ pc'[v] = "head"))
  <2> SUFFICES ASSUME NEW v \in Writer, v \notin DOMAIN group.batch
               PROVE  \/ v \in Compact /\ pc'[v] \in {"await", "error", "head", pc[v]}
                      \/ v \notin Compact /\ (pc'[v] = pc[v] \/ (pc[v] = "parked" /\ pc'[v] = "head"))
    OBVIOUS
  <2>1. CASE \E i \in 1..n : queue[i] = v
    BY <1>5, <1>6, <1>7, <2>1
  <2>2. CASE ~\E i \in 1..n : queue[i] = v
    BY <1>11, <2>2
  <2> QED BY <2>1, <2>2
<1>13. ~Busy' /\ ~Logging'
  <2>1. \A v \in Writer : pc'[v] \notin Writing
    <3> SUFFICES ASSUME NEW v \in Writer PROVE pc'[v] \notin Writing
      OBVIOUS
    <3>1. CASE \E i \in 1..n : queue[i] = v
      BY <1>5, <1>6, <3>1 DEF Writing
    <3>2. CASE ~\E i \in 1..n : queue[i] = v
      <4>1. v # w
        BY <1>7, <1>8, <3>2
      <4>2. pc[v] \notin Writing
        BY <1>3, <4>1 DEF Running
      <4> QED BY <1>11, <3>2, <4>2 DEF Writing
    <3> QED BY <3>1, <3>2
  <2> QED BY <2>1 DEF Busy, Logging, Writing
<1>14. Early' \subseteq Early \ DOMAIN group.batch
  <2> SUFFICES ASSUME NEW v \in Early' PROVE v \in Early /\ v \notin DOMAIN group.batch
    OBVIOUS
  <2>1. v \in Writer /\ pc'[v] \in {"idle", "parked"} \union Running
    BY DEF Early
  <2>2. CASE \E i \in 1..n : queue[i] = v
    BY <1>5, <1>6, <2>1, <2>2 DEF Running, Writing
  <2>3. CASE ~\E i \in 1..n : queue[i] = v
    <3>1. v \in Early
      BY <1>11, <2>1, <2>3 DEF Early, Running, Writing
    <3> QED BY <1>7, <2>3, <3>1
  <2> QED BY <2>2, <2>3
<1>15. Cardinality(DOMAIN group.batch) \in Nat /\ versions.last \in Nat
  <2>1. DOMAIN group.batch \in SUBSET Writer
    BY EntryWriters
  <2>2. versions.last \in Nat
    BY <1>2 DEF ShapeOK, Versions
  <2> QED BY <2>1, <2>2, WritersAssumption, FS_Subset, FS_CardinalityType
<1>16. \A v \in DOMAIN group.batch : pc'[v] = IF pc[w] = "applying" THEN "ok" ELSE "error"
  BY <1>5, <1>9
<1> QED BY <1>1, <1>3, <1>7, <1>8, <1>9, <1>10, <1>12, <1>13, <1>14, <1>15, <1>16

(* What the group adds to the memory of the database. *)
LEMMA FinishSets ==
  ASSUME IInv, NEW N \in [Writer -> Nat], RInv(N), NEW w \in Writer, Finish(w)
  PROVE  /\ Told(N, mem')
         /\ DOMAIN mem' = IF pc[w] = "applying" THEN DOMAIN mem \union DOMAIN group.batch ELSE DOMAIN mem
         /\ versions'.last = versions.last + Cardinality(DOMAIN group.batch)
         /\ versions'.log = versions.log /\ versions'.next = versions.next /\ Tables' = Tables
         /\ bg'.error = (bg.error \/ pc[w] = "unsure")
         /\ bg'.flush = bg.flush /\ bg'.merge = bg.merge /\ bg'.table = bg.table
         /\ bg'.inputs = bg.inputs /\ bg'.output = bg.output /\ bg'.edit = bg.edit
         /\ group' = [size |-> 0, batch |-> Nothing] /\ UNCHANGED <<imm, logfile, disk, phase, unread>>
<1>1. /\ mem' = IF pc[w] = "applying" THEN Entries({mem, group.batch}) ELSE mem
      /\ bg' = [bg EXCEPT !.error = @ \/ pc[w] = "unsure"]
      /\ versions' = [versions EXCEPT !.last = @ + Cardinality(DOMAIN group.batch)]
      /\ group' = [size |-> 0, batch |-> Nothing]
      /\ UNCHANGED <<imm, logfile, disk, phase, unread>>
  BY DEF Finish
<1>2. bg \in Calls /\ versions \in Versions
  BY DEF IInv, ShapeOK
<1>3. /\ bg'.error = (bg.error \/ pc[w] = "unsure")
      /\ bg'.flush = bg.flush /\ bg'.merge = bg.merge /\ bg'.table = bg.table
      /\ bg'.inputs = bg.inputs /\ bg'.output = bg.output /\ bg'.edit = bg.edit
  BY <1>1, <1>2 DEF Calls
<1>4. /\ versions'.last = versions.last + Cardinality(DOMAIN group.batch)
      /\ versions'.log = versions.log /\ versions'.next = versions.next /\ Tables' = Tables
  BY <1>1, <1>2 DEF Versions, Tables
<1>5. Entries({mem, group.batch}) = NumbersOf(N, DOMAIN mem \union DOMAIN group.batch)
  <2>1. Told(N, mem) /\ Told(N, group.batch)
    BY DEF RInv, Agreed
  <2> DEFINE fs == {mem, group.batch}
  <2>2. \A f \in fs : Told(N, f)
    BY <2>1
  <2>3. UNION {DOMAIN f : f \in fs} = DOMAIN mem \union DOMAIN group.batch
    OBVIOUS
  <2> HIDE DEF fs
  <2>4. Entries(fs) = NumbersOf(N, DOMAIN mem \union DOMAIN group.batch)
    BY <2>2, <2>3, EntriesTold
  <2> QED BY <2>4 DEF fs
<1>6. /\ Told(N, mem')
      /\ DOMAIN mem' = IF pc[w] = "applying" THEN DOMAIN mem \union DOMAIN group.batch ELSE DOMAIN mem
  <2>1. CASE pc[w] = "applying"
    BY <1>1, <1>5, <2>1, NumbersTold
  <2>2. CASE pc[w] # "applying"
    BY <1>1, <2>2 DEF RInv, Agreed
  <2> QED BY <2>1, <2>2
<1> QED BY <1>1, <1>3, <1>4, <1>6

(* The invariant after the group: what is in the log and was refused is behind all there is. *)
LEMMA FinishInv ==
  ASSUME IInv, IInv', NEW N \in [Writer -> Nat], RInv(N), NEW w \in Writer, Finish(w)
  PROVE  RInv(N)'
<1> DEFINE G == DOMAIN group.batch
<1>1. /\ pc[w] \in {"applying", "failing", "unsure"} /\ Live /\ Live' /\ Busy /\ ~Busy' /\ ~Logging'
      /\ w \notin Compact /\ w \in G /\ queue[1] = w
      /\ (\A v \in Writer : pc[v] \in Running => v = w)
      /\ Cardinality(G) \in Nat /\ versions.last \in Nat
      /\ \A v \in G : /\ v \in Writer \ Compact /\ pc[v] \notin Outside
                      /\ pc'[v] = IF pc[w] = "applying" THEN "ok" ELSE "error"
      /\ \A v \in Writer : v \notin G =>
           \/ v \in Compact /\ pc'[v] \in {"await", "error", "head", pc[v]}
           \/ v \notin Compact /\ (pc'[v] = pc[v] \/ (pc[v] = "parked" /\ pc'[v] = "head"))
      /\ Early' \subseteq Early \ G
  BY FinishFacts
<1>2. /\ Told(N, mem')
      /\ DOMAIN mem' = IF pc[w] = "applying" THEN DOMAIN mem \union G ELSE DOMAIN mem
      /\ versions'.last = versions.last + Cardinality(G)
      /\ versions'.log = versions.log /\ versions'.next = versions.next /\ Tables' = Tables
      /\ bg'.error = (bg.error \/ pc[w] = "unsure")
      /\ bg'.flush = bg.flush /\ bg'.merge = bg.merge /\ bg'.table = bg.table
      /\ bg'.inputs = bg.inputs /\ bg'.output = bg.output /\ bg'.edit = bg.edit
      /\ group' = [size |-> 0, batch |-> Nothing] /\ UNCHANGED <<imm, logfile, disk, phase, unread>>
  BY FinishSets
<1>3. PICK k : k = logfile
  OBVIOUS
<1>4. DOMAIN group'.batch = {} /\ group'.size = 0 /\ Told(N, group'.batch)
  BY <1>2 DEF Nothing, Told
<1>5. G \subseteq Early /\ G \intersect (DOMAIN mem \union InImm \union InTables(DOMAIN disk.tables)) = {}
  BY GroupEarly
<1> HIDE DEF G
<1>6. Agreed(N)'
  BY <1>2, <1>4 DEF RInv, Agreed
<1>7. GroupRight(N)'
  <2>1. \A v \in Writer : pc'[v] \notin Writing
    BY <1>1 DEF Busy
  <2>2. \A v \in Writer : pc'[v] \in {"await", "flushing"} => v \in Compact
    <3> SUFFICES ASSUME NEW v \in Writer, pc'[v] \in {"await", "flushing"}, v \notin Compact PROVE FALSE
      OBVIOUS
    <3>1. v \notin G
      BY <1>1
    <3>2. pc[v] \in {"await", "flushing"}
      BY <1>1, <3>1
    <3> QED BY <3>2 DEF RInv, GroupRight
  <2>3. 1..group'.size = {}
    BY <1>4
  <2> QED BY <1>4, <2>1, <2>2, <2>3 DEF GroupRight
<1>8. InTables(DOMAIN disk.tables)' = InTables(DOMAIN disk.tables) /\ InImm' = InImm /\ InManifest' = InManifest
      /\ InUse' = InUse /\ LogsFrom(versions.log)' = LogsFrom(versions.log) /\ InLog(logfile)' = InLog(k)
      /\ InLog(logfile) = InLog(k) /\ \A n \in DOMAIN disk.logs : InLog(n)' = InLog(n)
  BY <1>2, <1>3 DEF InTables, InImm, InManifest, InUse, LogsFrom, InLog
<1>9. PlacesRight'
  <2>1. \A v \in Early', n \in DOMAIN disk.logs : v \notin InLog(n)
    BY <1>1, <1>5 DEF RInv, PlacesRight, G
  <2>2. \A v \in Early' : v \notin DOMAIN mem' \union InImm \union InTables(DOMAIN disk.tables)
    BY <1>1, <1>2 DEF RInv, PlacesRight
  <2> QED BY <1>2, <1>8, <2>1, <2>2 DEF PlacesRight
<1>10. \A v \in G : versions.last < N[v] /\ N[v] <= versions.last + Cardinality(G)
  BY DEF RInv, GroupRight, G
<1>11. versions.last <= versions'.last /\ versions'.last \in Nat
  BY <1>1, <1>2
<1>12. NumbersRight(N)'
  <2>1. InTables(bg.edit.add0 \union bg.edit.add1)' = InTables(bg.edit.add0 \union bg.edit.add1) /\ Editing' = Editing
    BY <1>2 DEF InTables, Editing
  <2>2. /\ \A v \in InUse \union DOMAIN mem \union InImm : N[v] <= versions.last
        /\ \A v \in InManifest : N[v] <= disk.manifest.last
        /\ phase # "down" => disk.manifest.last <= versions.last
        /\ Editing => /\ disk.manifest.last <= bg.edit.last /\ bg.edit.last <= versions.last
                      /\ \A v \in InTables(bg.edit.add0 \union bg.edit.add1) : N[v] <= bg.edit.last
    BY <1>1 DEF RInv, NumbersRight
  <2>3. InUse \union InImm \union DOMAIN mem \subseteq Writer /\ G \subseteq Writer
    <3>1. InUse \subseteq Writer
      <4>1. Tables \subseteq DOMAIN disk.tables
        BY <1>1 DEF IInv, TablesRight, Live
      <4> QED BY <4>1, EntryWriters DEF InUse, InTables
    <3> QED BY <1>1, <3>1, EntryWriters
  <2>4. \A v \in InUse \union DOMAIN mem' \union InImm : N[v] <= versions'.last
    <3>1. \A v \in InUse \union DOMAIN mem \union InImm : N[v] <= versions'.last
      BY <1>1, <1>11, <2>2, <2>3
    <3>2. \A v \in G : N[v] <= versions'.last
      BY <1>2, <1>10
    <3> QED BY <1>2, <3>1, <3>2
  <2>5. /\ disk.manifest.last \in Nat /\ bg.edit.last \in Nat
    BY DEF IInv, ShapeOK, DiskOK, Versions, Calls, Edits
  <2>6. disk.manifest.last <= versions'.last /\ (Editing => bg.edit.last <= versions'.last)
    BY <1>1, <1>11, <2>2, <2>5 DEF Live
  <2>7. phase \notin {"recovering", "recovered", "saved"}
    BY <1>1 DEF Live
  <2> QED BY <1>2, <1>8, <2>1, <2>2, <2>4, <2>6, <2>7 DEF NumbersRight
<1>13. LogKept(N)'
  <2>1. \A v \in InLog(k) : v \in DOMAIN mem \/ v \in G
    BY <1>1, <1>3 DEF RInv, LogKept, Refused, G
  <2>2. \A v \in InLog(k) : v \in DOMAIN mem' \/ Refused(N, v)'
    <3>1. CASE pc[w] = "applying"
      BY <1>2, <2>1, <3>1
    <3>2. CASE pc[w] = "failing"
      <4>1. ~Logging
        BY <1>1, <3>2 DEF Logging, Running, Writing
      <4>2. \A v \in InLog(k) : v \notin G
        <5>1. k \in DOMAIN disk.logs
          BY <1>1, <1>3 DEF IInv, LogsRight, Live
        <5> QED BY <1>5, <4>1, <5>1 DEF RInv, PlacesRight
      <4> QED BY <1>2, <2>1, <3>2, <4>2
    <3>3. CASE pc[w] = "unsure"
      <4>1. ASSUME NEW v \in G PROVE Refused(N, v)'
        <5>1. bg'.error /\ ~Busy' /\ pc'[v] = "error"
          BY <1>1, <1>2, <3>3
        <5>2. \A u \in InUse \union DOMAIN mem \union InImm : N[u] < N[v]
          <6>1. \A u \in InUse \union DOMAIN mem \union InImm : N[u] <= versions.last /\ N[u] \in Nat
            <7>1. InUse \union InImm \union DOMAIN mem \subseteq Writer
              <8>1. Tables \subseteq DOMAIN disk.tables
                BY <1>1 DEF IInv, TablesRight, Live
              <8> QED BY <8>1, EntryWriters DEF InUse, InTables
            <7> QED BY <1>1, <7>1 DEF RInv, NumbersRight
          <6>2. N[v] \in Nat /\ versions.last < N[v]
            BY <1>1, <1>10
          <6> QED BY <1>1, <6>1, <6>2
        <5> QED BY <1>2, <1>8, <3>3, <5>1, <5>2 DEF Refused
      <4> QED BY <1>2, <2>1, <3>3, <4>1
    <3> QED BY <1>1, <3>1, <3>2, <3>3
  <2>3. LogsFrom(versions.log) \subseteq DOMAIN disk.logs
    BY DEF LogsFrom
  <2> QED BY <1>1, <1>2, <1>8, <2>2, <2>3 DEF RInv, LogKept
<1>14. LastRight'
  <2>1. (\E i \in DOMAIN disk.logs[logfile] : Flawed(disk.logs[logfile][i])) =>
          \E v \in Writer \ Compact : pc'[v] \in {"error", "failing"}
    <3> SUFFICES ASSUME \E i \in DOMAIN disk.logs[logfile] : Flawed(disk.logs[logfile][i])
                 PROVE  \E v \in Writer \ Compact : pc'[v] \in {"error", "failing"}
      OBVIOUS
    <3>1. PICK v \in Writer \ Compact : pc[v] \in {"error", "failing"}
      BY <1>1 DEF RInv, LastRight
    <3>2. CASE pc[v] = "error"
      <4>1. v \notin G
        BY <1>1, <3>2 DEF Outside
      <4> QED BY <1>1, <3>2, <4>1
    <3>3. CASE pc[v] = "failing"
      <4>1. v = w
        BY <1>1, <3>3 DEF Running, Writing
      <4> QED BY <1>1, <3>3, <4>1
    <3> QED BY <3>1, <3>2, <3>3
  <2>2. \A v \in Sync : pc'[v] # "applying"
    BY <1>1, WritersAssumption DEF Logging
  <2> QED BY <1>1, <1>2, <2>1, <2>2 DEF LastRight, Flawed
<1>15. WorkKept' /\ RecoveryKept'
  <2>1. /\ InTables(bg.edit.add0)' = InTables(bg.edit.add0) /\ InTables(bg.edit.add1)' = InTables(bg.edit.add1)
        /\ InTables(bg.edit.gone)' = InTables(bg.edit.gone) /\ InTables({bg.output})' = InTables({bg.output})
        /\ InTables(bg.inputs)' = InTables(bg.inputs) /\ Given' = Given
    BY <1>2 DEF InTables, Given
  <2>2. WorkKept'
    BY <1>1, <1>2, <1>8, <2>1 DEF RInv, WorkKept
  <2> QED BY <1>1, <2>2 DEF RecoveryKept
<1> QED BY <1>6, <1>7, <1>9, <1>12, <1>13, <1>14, <1>15 DEF RInv

(* A group commits or is refused, all of it. *)
LEMMA FinishR ==
  ASSUME IInv, IInv', NEW N \in [Writer -> Nat], RInv(N), NEW w \in Writer, Finish(w)
  PROVE  RInv(N)' /\ Store!DNext
<1> DEFINE G == DOMAIN group.batch
<1>1. /\ pc[w] \in {"applying", "failing", "unsure"} /\ Live /\ Live' /\ Busy /\ ~Busy' /\ ~Logging'
      /\ w \notin Compact /\ w \in G /\ queue[1] = w
      /\ (\A v \in Writer : pc[v] \in Running => v = w)
      /\ Cardinality(G) \in Nat /\ versions.last \in Nat
      /\ \A v \in G : /\ v \in Writer \ Compact /\ pc[v] \notin Outside
                      /\ pc'[v] = IF pc[w] = "applying" THEN "ok" ELSE "error"
      /\ \A v \in Writer : v \notin G =>
           \/ v \in Compact /\ pc'[v] \in {"await", "error", "head", pc[v]}
           \/ v \notin Compact /\ (pc'[v] = pc[v] \/ (pc[v] = "parked" /\ pc'[v] = "head"))
      /\ Early' \subseteq Early \ G
  BY FinishFacts
<1>2. /\ DOMAIN mem' = IF pc[w] = "applying" THEN DOMAIN mem \union G ELSE DOMAIN mem
      /\ Tables' = Tables /\ UNCHANGED <<imm, logfile, disk, phase>>
  BY FinishSets
<1>3. RInv(N)'
  BY FinishInv
<1>4. G \subseteq Early /\ G \intersect (DOMAIN mem \union InImm \union InTables(DOMAIN disk.tables)) = {}
  BY GroupEarly
<1>5. \A v \in (Writer \ Compact) \ G : pc'[v] = pc[v] \/ (pc[v] \notin Outside /\ pc'[v] \notin Outside)
  BY <1>1 DEF Outside
<1>6. Sure' = Sure /\ Firm' = Firm /\ InUse' = InUse /\ InImm' = InImm
  <2>1. InUse' = InUse /\ InImm' = InImm /\ InManifest' = InManifest
    BY <1>2 DEF InUse, InImm, InManifest, InTables
  <2>2. KeptLogs' = KeptLogs /\ FirmLogs' = FirmLogs
    BY <1>2 DEF KeptLogs, FirmLogs, InKept, InFirm, LogsFrom, Intact, Sound, Flawed
  <2> QED BY <2>1, <2>2 DEF Sure, Firm
<1>7. Seen = InMemory /\ Seen' = IF pc[w] = "applying" THEN Seen \union G ELSE Seen
  BY <1>1, <1>2, <1>6 DEF Seen, InMemory
<1>8. G \intersect Seen = {} /\ G \intersect InManifest = {}
  <2>1. Tables \subseteq DOMAIN disk.tables /\ disk.manifest.l0 \union disk.manifest.l1 \subseteq DOMAIN disk.tables
    BY <1>1 DEF IInv, TablesRight, Live
  <2>2. InUse \subseteq InTables(DOMAIN disk.tables) /\ InManifest \subseteq InTables(DOMAIN disk.tables)
    BY <2>1 DEF InUse, InManifest, InTables
  <2> QED BY <1>4, <1>7, <2>2 DEF InMemory
<1> HIDE DEF G
<1>9. CASE pc[w] # "applying"
  <2>1. Seen' = Seen /\ G \in SUBSET (Writer \ Compact)
    BY <1>1, <1>7, <1>9
  <2>2. \A v \in G : pc[v] \notin Outside /\ pc'[v] = "error"
    BY <1>1, <1>9
  <2> QED BY <1>3, <1>5, <1>6, <2>1, <2>2, RefuseStore
<1>10. CASE pc[w] = "applying"
  <2>1. storeBar = NumbersOf(N, Seen) /\ DOMAIN storeBar = Seen /\ Safe = Sure /\ durableBar = Seen \intersect Firm
    BY StoreFacts DEF RInv
  <2>2. storeBar' = NumbersOf(N, Seen') /\ DOMAIN storeBar' = Seen' /\ Safe' = Sure' /\ durableBar' = Seen' \intersect Firm'
    <3>1. StoreIs'
      BY StoreAlways, PTL
    <3> QED BY <1>3, <3>1 DEF StoreIs, RInv
  <2>3. Seen' = Seen \union G
    BY <1>7, <1>10
  <2>4. \A v \in G : answerBar[v] = "waiting"
    BY <1>1 DEF answerBar, Outside
  <2>5. answerBar' = [v \in Writer \ Compact |-> IF v \in G THEN "ok" ELSE answerBar[v]]
    <3>1. \A v \in Writer \ Compact : answerBar'[v] = IF v \in G THEN "ok" ELSE answerBar[v]
      BY <1>1, <1>5, <1>10 DEF answerBar, Outside
    <3>2. answerBar' = [v \in Writer \ Compact |-> answerBar'[v]]
      BY DEF answerBar
    <3> HIDE DEF answerBar
    <3> QED BY <3>1, <3>2
  <2>6. Store!GrowsBy(G)
    <3>1. \A v \in Seen : storeBar'[v] = N[v] /\ storeBar[v] = N[v]
      BY <2>1, <2>2, <2>3 DEF NumbersOf
    <3>2. \A v \in G : storeBar'[v] = N[v]
      BY <2>2, <2>3 DEF NumbersOf
    <3>3. \A u \in Seen, v \in G : N[u] < N[v]
      <4>1. \A u \in Seen : u \in Writer /\ N[u] <= versions.last
        <5>1. Tables \subseteq DOMAIN disk.tables
          BY <1>1 DEF IInv, TablesRight, Live
        <5>2. InMemory \subseteq Writer
          BY <5>1, EntryWriters DEF InUse, InTables, InMemory
        <5>3. \A u \in InMemory : N[u] <= versions.last
          BY <1>1 DEF RInv, NumbersRight, InMemory
        <5> QED BY <1>7, <5>2, <5>3
      <4>2. \A v \in G : v \in Writer /\ versions.last < N[v]
        BY <1>1 DEF RInv, GroupRight, G
      <4> QED BY <1>1, <4>1, <4>2
    <3> QED BY <1>8, <2>1, <2>2, <2>3, <3>1, <3>2, <3>3 DEF Store!GrowsBy, Store!Stored
  <2>7. Logging /\ logfile \in DOMAIN disk.logs /\ logfile \in LogsFrom(disk.manifest.log)
    <3>1. logfile \in DOMAIN disk.logs
      BY <1>1 DEF IInv, LogsRight, Live
    <3>2. disk.manifest.log <= logfile /\ disk.manifest.log \in Nat /\ logfile \in Nat
      BY <1>1 DEF RInv, LogKept, IInv, ShapeOK, DiskOK, Versions
    <3> QED BY <1>10, <3>1, <3>2 DEF Logging, LogsFrom
  <2>8. PICK j \in DOMAIN disk.logs[logfile] : disk.logs[logfile][j].batch = group.batch
    BY <1>1, <2>7 DEF RInv, LastRight
  <2>9. G \subseteq Sure \/ \E v \in Writer \ Compact : answerBar[v] = "error"
    <3>1. CASE \A i \in DOMAIN disk.logs[logfile] : ~Flawed(disk.logs[logfile][i])
      <4>1. j \in Intact(disk.logs[logfile])
        BY <2>8, <3>1 DEF Intact, Sound
      <4>2. G \subseteq InKept(logfile)
        BY <2>8, <4>1 DEF InKept, G
      <4> QED BY <2>7, <4>2 DEF Sure, KeptLogs
    <3>2. CASE \E i \in DOMAIN disk.logs[logfile] : Flawed(disk.logs[logfile][i])
      <4>1. PICK v \in Writer \ Compact : pc[v] \in {"error", "failing"}
        BY <1>1, <3>2 DEF RInv, LastRight
      <4>2. pc[v] = "error"
        BY <1>1, <1>10, <4>1 DEF Running, Writing
      <4> QED BY <4>2 DEF answerBar
    <3> QED BY <3>1, <3>2
  <2>10. \A v \in G : v \in Sync /\ v \in Sure => v \in Firm
    <3> SUFFICES ASSUME NEW v \in G, v \in Sync, v \in Sure PROVE v \in Firm
      OBVIOUS
    <3>1. w \in Sync
      <4>1. PICK i \in 1..group.size : queue[i] = v
        BY DEF RInv, GroupRight, G
      <4> QED BY <1>1, <4>1 DEF RInv, GroupRight
    <3>2. \A i \in DOMAIN disk.logs[logfile] : disk.logs[logfile][i].synced
      BY <1>1, <1>10, <3>1 DEF RInv, LastRight
    <3>3. PICK n \in LogsFrom(disk.manifest.log) : v \in InKept(n)
      BY <1>8 DEF Sure, KeptLogs
    <3>4. PICK i \in Intact(disk.logs[n]) : v \in DOMAIN disk.logs[n][i].batch
      BY <3>3 DEF InKept
    <3>5. n \in DOMAIN disk.logs /\ i \in DOMAIN disk.logs[n]
      BY <3>3, <3>4 DEF LogsFrom, Intact
    <3>6. n = logfile
      <4>1. v \in InLog(n) /\ v \in Early
        BY <1>4, <3>4, <3>5 DEF InLog
      <4> QED BY <3>5, <4>1 DEF RInv, PlacesRight
    <3>7. v \in InFirm(n)
      BY <3>2, <3>4, <3>5, <3>6 DEF InFirm
    <3> QED BY <3>3, <3>7 DEF Firm, FirmLogs
  <2>11. Store!Commit(G)
    <3>1. /\ durableBar \subseteq durableBar' /\ durableBar' \subseteq DOMAIN storeBar'
          /\ DOMAIN storeBar' \ Safe' \subseteq (DOMAIN storeBar \ Safe) \union G
      BY <1>6, <2>1, <2>2, <2>3
    <3>2. DOMAIN storeBar' \ Safe' \subseteq DOMAIN storeBar \ Safe \/ \E v \in Writer \ Compact : answerBar[v] = "error"
      BY <1>6, <2>1, <2>2, <2>3, <2>9
    <3>3. G \intersect Sync \subseteq durableBar' \union (DOMAIN storeBar' \ Safe')
      BY <1>6, <2>2, <2>3, <2>10
    <3> QED BY <2>4, <2>5, <2>6, <3>1, <3>2, <3>3 DEF Store!Commit
  <2>12. G \in SUBSET (Writer \ Compact)
    BY <1>1
  <2> QED BY <1>3, <2>11, <2>12 DEF Store!DNext
<1> QED BY <1>9, <1>10

-------------------------------------------------------------------------------
(* The background thread. *)

(* Who is woken goes on, and nobody is answered. *)
LEMMA WakeFacts ==
  ASSUME IInv, NEW N, RInv(N), WakesOnly(pc'), UNCHANGED <<queue, group>>
  PROVE  /\ Early' = Early /\ (Busy' <=> Busy) /\ (Logging' <=> Logging) /\ answerBar' = answerBar
         /\ \A v \in Writer : v \notin Compact => pc'[v] = pc[v] \/ (pc[v] \notin Outside /\ pc'[v] \notin Outside)
         /\ \A v \in Writer : \A s \in {"error", "failing", "applying"} : pc'[v] = s <=> pc[v] = s
         /\ (versions' = versions => GroupRight(N)')
         /\ (versions'.last = versions.last => GroupRight(N)')
<1>1. \A v \in Writer : \/ pc'[v] = pc[v]
                        \/ pc[v] = "asleep" /\ pc'[v] = "head"
                        \/ v \in Compact /\ pc[v] = "flushing" /\ pc'[v] = "await"
  BY DEF WakesOnly, RInv, GroupRight
<1>2. Early' = Early
  BY <1>1 DEF Early, Running, Writing
<1>3. (Busy' <=> Busy) /\ (Logging' <=> Logging)
  BY <1>1 DEF Busy, Logging, Writing
<1>4. \A v \in Writer : v \notin Compact => pc'[v] = pc[v] \/ (pc[v] \notin Outside /\ pc'[v] \notin Outside)
  BY <1>1 DEF Outside
<1>5. answerBar' = answerBar
  BY <1>4, SameAnswers
<1>6. \A v \in Writer : \A s \in {"error", "failing", "applying"} : pc'[v] = s <=> pc[v] = s
  BY <1>1
<1>7. ASSUME versions'.last = versions.last PROVE GroupRight(N)'
  <2>1. \A v \in Writer : pc'[v] \in Writing => v \notin Compact
    BY <1>1 DEF RInv, GroupRight, Writing
  <2>2. \A v \in Writer : pc'[v] \in {"await", "flushing"} => v \in Compact
    BY <1>1 DEF RInv, GroupRight
  <2>3. /\ DOMAIN group.batch = {queue[i] : i \in 1..group.size} \ Compact
        /\ \A i \in 1..group.size : queue[i] \in Sync => queue[1] \in Sync
        /\ \A v \in DOMAIN group.batch :
             versions.last < N[v] /\ N[v] <= versions.last + Cardinality(DOMAIN group.batch)
    BY DEF RInv, GroupRight
  <2>4. /\ DOMAIN group'.batch = {queue'[i] : i \in 1..group'.size} \ Compact
        /\ \A i \in 1..group'.size : queue'[i] \in Sync => queue'[1] \in Sync
        /\ \A v \in DOMAIN group'.batch :
             versions'.last < N[v] /\ N[v] <= versions'.last + Cardinality(DOMAIN group'.batch)
    BY <1>7, <2>3
  <2> QED BY <2>1, <2>2, <2>4 DEF GroupRight
<1> QED BY <1>2, <1>3, <1>4, <1>5, <1>6, <1>7

(* Tables that stay as they are hold what they held. *)
LEMMA TablesSame ==
  ASSUME NEW ts, ts \subseteq DOMAIN disk.tables \intersect DOMAIN disk'.tables,
         \A t \in ts : disk'.tables[t] = disk.tables[t]
  PROVE  InTables(ts)' = InTables(ts)
BY DEF InTables

(* The background thread works, and the manifest stays what it is. *)
LEMMA WorkStepR ==
  ASSUME IInv, IInv', NEW N \in [Writer -> Nat], RInv(N), Live, WakesOnly(pc'),
         UNCHANGED <<queue, group, mem, imm, logfile, phase, unread>>,
         versions'.last = versions.last, versions'.log = versions.log,
         versions'.l0 = versions.l0, versions'.l1 = versions.l1,
         disk'.logs = disk.logs, disk'.manifest = disk.manifest,
         DOMAIN disk.tables \subseteq DOMAIN disk'.tables,
         \A t \in DOMAIN disk.tables : disk'.tables[t] = disk.tables[t],
         \A t \in DOMAIN disk'.tables : t \in DOMAIN disk.tables \/ Told(N, disk'.tables[t]),
         InTables(DOMAIN disk.tables)' = InTables(DOMAIN disk.tables) \union (InTables(DOMAIN disk.tables)' \intersect InMemory),
         bg.error => bg'.error,
         WorkKept',
         Editing' => /\ disk.manifest.last <= bg'.edit.last /\ bg'.edit.last <= versions.last
                     /\ \A w \in InTables(bg.edit.add0 \union bg.edit.add1)' : N[w] <= bg'.edit.last
  PROVE  RInv(N)' /\ Store!DNext
<1>1. /\ Early' = Early /\ (Busy' <=> Busy) /\ (Logging' <=> Logging) /\ answerBar' = answerBar
      /\ \A v \in Writer : \A s \in {"error", "failing", "applying"} : pc'[v] = s <=> pc[v] = s
      /\ GroupRight(N)'
  BY WakeFacts
<1>2. Tables \subseteq DOMAIN disk.tables /\ disk.manifest.l0 \union disk.manifest.l1 \subseteq DOMAIN disk.tables
  BY DEF IInv, TablesRight, Live
<1>3. Agreed(N)'
  <2>1. ASSUME NEW t \in DOMAIN disk'.tables PROVE Told(N, disk'.tables[t])
    <3>1. CASE t \in DOMAIN disk.tables
      BY <3>1 DEF RInv, Agreed
    <3>2. CASE t \notin DOMAIN disk.tables
      BY <3>2
    <3> QED BY <3>1, <3>2
  <2> QED BY <2>1 DEF RInv, Agreed
<1>4. Live' /\ InImm' = InImm /\ LogsFrom(versions.log)' = LogsFrom(versions.log)
      /\ LogsFrom(disk.manifest.log)' = LogsFrom(disk.manifest.log) /\ Tables' = Tables
      /\ InLog(logfile)' = InLog(logfile) /\ \A n : InLog(n)' = InLog(n)
  BY DEF Live, InImm, LogsFrom, Tables, InLog
<1>5. InUse' = InUse /\ InManifest' = InManifest
  <2>1. \A t \in Tables : disk'.tables[t] = disk.tables[t]
    BY <1>2
  <2>2. \A t \in disk.manifest.l0 \union disk.manifest.l1 : disk'.tables[t] = disk.tables[t]
    BY <1>2
  <2> QED BY <1>4, <2>1, <2>2 DEF InUse, InManifest, InTables
<1>6. PlacesRight'
  <2>1. \A w \in Early : w \notin DOMAIN mem \union InImm \union InTables(DOMAIN disk.tables)
    BY DEF RInv, PlacesRight
  <2>2. InUse \subseteq InTables(DOMAIN disk.tables)
    BY <1>2 DEF InUse, InTables
  <2>3. \A w \in Early : w \notin InTables(DOMAIN disk.tables)'
    BY <2>1, <2>2 DEF InMemory
  <2> QED BY <1>1, <1>4, <2>1, <2>3 DEF RInv, PlacesRight
<1>7. NumbersRight(N)'
  BY <1>4, <1>5 DEF RInv, NumbersRight, Live
<1>8. LogKept(N)'
  <2>1. ASSUME NEW w \in InLog(logfile) PROVE w \in DOMAIN mem \/ w \in DOMAIN group.batch \/ Refused(N, w)'
    <3>1. ASSUME Refused(N, w) PROVE Refused(N, w)'
      <4>1. w \in Writer
        <5>1. logfile \in DOMAIN disk.logs
          BY DEF IInv, LogsRight, Live
        <5> QED BY <5>1, EntryWriters
      <4> QED BY <1>1, <1>4, <1>5, <3>1, <4>1 DEF Refused
    <3> QED BY <3>1 DEF RInv, LogKept
  <2> QED BY <1>4, <1>5, <2>1 DEF RInv, LogKept
<1>9. LastRight'
  BY <1>1, <1>4, WritersAssumption DEF RInv, LastRight, Flawed
<1>10. RInv(N)'
  BY <1>1, <1>3, <1>4, <1>6, <1>7, <1>8, <1>9 DEF RInv, RecoveryKept
<1>11. Seen' = Seen /\ Sure' = Sure /\ Firm' = Firm
  <2>1. \A n : InKept(n)' = InKept(n) /\ InFirm(n)' = InFirm(n)
    BY DEF InKept, InFirm, Intact, Sound, Flawed
  <2>2. KeptLogs' = KeptLogs /\ FirmLogs' = FirmLogs
    BY <1>4, <2>1 DEF KeptLogs, FirmLogs
  <2> QED BY <1>4, <1>5, <2>2 DEF Seen, InMemory, Sure, Firm
<1>12. Store!DNext
  <2>1. Agreed(N) /\ \A v \in Seen : N[v] = N[v]
    BY DEF RInv
  <2>2. Firm \intersect Seen \subseteq Firm' /\ Sure \intersect Seen \subseteq Sure'
        /\ (Sure' \intersect Seen) \ Sure \subseteq Firm'
    BY <1>11
  <2> QED BY <1>1, <1>3, <1>11, <2>1, <2>2, SettleStore
<1> QED BY <1>10, <1>12

(* The work of a call is over, or only that of a flush. *)
Over ==
  /\ bg'.flush = "none"
  /\ \/ IdleLike(bg')
     \/ /\ bg.merge \in {"scan", "output"} /\ bg'.merge = bg.merge
        /\ bg'.inputs = bg.inputs /\ bg'.output = bg.output

(* A call that failed wakes those who wait and leaves nothing to install. *)
LEMMA FailedFacts ==
  ASSUME IInv, InCall, (bg.flush # "none" /\ FlushFailed) \/ MergeFailed
  PROVE  WakesOnly(pc') /\ bg'.error /\ Over
<1> DEFINE b == [bg EXCEPT !.error = TRUE]
<1>1. ShapeOK /\ bg \in Calls /\ b.error = TRUE /\ b.error \in BOOLEAN
  BY DEF IInv, ShapeOK, Calls
<1>2. CASE CallEnds(b, imm, versions)
  <2> HIDE DEF b
  <2> QED BY <1>1, <1>2, CallEndsFacts DEF Over, IdleLike
<1>3. CASE bg.flush # "none" /\ bg.merge # "none" /\ bg' = [b EXCEPT !.flush = "none"] /\ pc' = Woken(pc)
  <2>1. bg.merge \in {"scan", "output"}
    BY <1>3 DEF IInv, WorkRight
  <2>2. /\ bg'.error /\ bg'.flush = "none" /\ bg'.merge = bg.merge
        /\ bg'.inputs = bg.inputs /\ bg'.output = bg.output
    BY <1>1, <1>3 DEF Calls
  <2> QED BY <1>1, <1>3, <2>1, <2>2, WokenFacts DEF Over
<1> QED BY <1>2, <1>3 DEF MergeFailed, FlushFailed, FlushEnds

(* Nothing is under way any more. *)
LEMMA OverKept ==
  ASSUME IInv, IInv', NEW N, RInv(N), Live, Live', Over, versions'.next >= versions.next, versions'.next \in Nat,
         DOMAIN disk'.tables \subseteq Given',
         \A t \in DOMAIN disk.tables \intersect DOMAIN disk'.tables : disk'.tables[t] = disk.tables[t]
  PROVE  WorkKept' /\ ~Editing'
<1>1. ~Editing' /\ bg'.merge \notin {"write", "install"}
  BY DEF Editing, Over, IdleLike, Live
<1>2. bg'.merge = "output" => InTables({bg.output})' = InTables(bg.inputs)'
  <2> SUFFICES ASSUME bg'.merge = "output" PROVE InTables({bg.output})' = InTables(bg.inputs)'
    OBVIOUS
  <2>0. PICK o, ins : o = bg.output /\ ins = bg.inputs
    OBVIOUS
  <2>1. bg.merge = "output" /\ bg'.inputs = ins /\ bg'.output = o
    BY <2>0 DEF Over, IdleLike
  <2>2. o \in DOMAIN disk.tables /\ ins \subseteq DOMAIN disk.tables
    BY <2>0, <2>1 DEF IInv, WorkRight, TablesRight, Live
  <2>3. o \in DOMAIN disk'.tables /\ ins \subseteq DOMAIN disk'.tables
    BY <2>1 DEF IInv, WorkRight, TablesRight, Live, Over, IdleLike
  <2>4. InTables({o})' = InTables({o}) /\ InTables(ins)' = InTables(ins)
    <3>1. {o} \subseteq DOMAIN disk.tables \intersect DOMAIN disk'.tables
          /\ ins \subseteq DOMAIN disk.tables \intersect DOMAIN disk'.tables
      BY <2>2, <2>3
    <3> QED BY <3>1, TablesSame
  <2>5. InTables({o}) = InTables(ins)
    BY <2>0, <2>1 DEF RInv, WorkKept
  <2>6. InTables({bg.output})' = InTables({o})' /\ InTables(bg.inputs)' = InTables(ins)'
    BY <2>1 DEF InTables
  <2> QED BY <2>4, <2>5, <2>6
<1> QED BY <1>1, <1>2 DEF WorkKept, Over

(* A call ends without a change of the version in use. *)
LEMMA EndedR ==
  ASSUME IInv, IInv', NEW N \in [Writer -> Nat], RInv(N), Return \/ BuildTableFails \/ MergeFails
  PROVE  RInv(N)' /\ Store!DNext
<1>1. UNCHANGED <<queue, group, mem, imm, logfile, versions, disk, phase, unread>>
  BY DEF Return, BuildTableFails, MergeFails
<1>2. WakesOnly(pc') /\ (bg.error => bg'.error) /\ Over /\ Live
  <2>1. CASE Return
    <3>1. bg.scheduled /\ CallEnds(bg, imm, versions)
      BY <2>1 DEF Return
    <3>2. ShapeOK /\ bg.error \in BOOLEAN /\ Live
      BY <3>1, InCallFacts DEF IInv, ShapeOK, Calls, Live
    <3> QED BY <3>1, <3>2, CallEndsFacts DEF Over, IdleLike
  <2>2. CASE BuildTableFails \/ MergeFails
    <3>1. InCall
      BY <2>2 DEF BuildTableFails, MergeFails, InCall
    <3>2. Live
      BY <3>1, InCallFacts DEF Live
    <3> QED BY <2>2, <3>1, <3>2, FailedFacts DEF BuildTableFails, MergeFails
  <2> QED BY <2>1, <2>2
<1>3. Live' /\ Given' = Given /\ DOMAIN disk.tables \subseteq Given /\ versions.next \in Nat
  BY <1>1, <1>2 DEF Live, Given, RInv, WorkKept, IInv, ShapeOK, Versions
<1>4. WorkKept' /\ ~Editing'
  BY <1>1, <1>2, <1>3, OverKept
<1>5. InTables(DOMAIN disk.tables)' = InTables(DOMAIN disk.tables)
  BY <1>1 DEF InTables
<1> QED BY <1>1, <1>2, <1>4, <1>5, WorkStepR

(* CompactMemTable takes a number for its table. *)
LEMMA BeginFlushR ==
  ASSUME IInv, IInv', NEW N \in [Writer -> Nat], RInv(N), BeginFlush
  PROVE  RInv(N)' /\ Store!DNext
<1>0. PICK k : k = versions.next
  OBVIOUS
<1>1. /\ phase = "open" /\ bg.flush = "none" /\ bg.merge \in {"none", "scan", "output"}
      /\ bg' = [bg EXCEPT !.flush = "build", !.table = k] /\ versions' = [versions EXCEPT !.next = @ + 1]
      /\ UNCHANGED <<pc, queue, group, mem, imm, logfile, disk, phase, unread>>
  BY <1>0 DEF BeginFlush
<1>2. ShapeOK /\ bg \in Calls /\ versions \in Versions /\ Live /\ Live' /\ k \in Nat
  BY <1>0, <1>1 DEF IInv, ShapeOK, Live, Versions
<1>3. /\ bg'.flush = "build" /\ bg'.table = k /\ bg'.merge = bg.merge /\ bg'.error = bg.error
      /\ bg'.inputs = bg.inputs /\ bg'.output = bg.output
  BY <1>1, <1>2 DEF Calls
<1>4. /\ versions'.last = versions.last /\ versions'.log = versions.log /\ versions'.next = k + 1
      /\ versions'.l0 = versions.l0 /\ versions'.l1 = versions.l1
  BY <1>0, <1>1, <1>2 DEF Versions
<1>5. DOMAIN disk.tables \subseteq 1..(k - 1) /\ Given' = 1..k
  BY <1>0, <1>2, <1>4 DEF RInv, WorkKept, Given
<1>6. ~Editing'
  BY <1>1, <1>3 DEF Editing
<1>7. WorkKept'
  <2>1. InTables({bg.output})' = InTables({bg.output}) /\ InTables(bg.inputs)' = InTables(bg.inputs)
    BY <1>1, <1>3 DEF InTables
  <2>2. DOMAIN disk'.tables \subseteq Given' /\ k \notin DOMAIN disk'.tables
    BY <1>1, <1>2, <1>5
  <2> QED BY <1>1, <1>3, <2>1, <2>2 DEF RInv, WorkKept
<1>8. WakesOnly(pc') /\ InTables(DOMAIN disk.tables)' = InTables(DOMAIN disk.tables)
  BY <1>1, <1>2, WokenFacts DEF InTables
<1> QED BY <1>1, <1>2, <1>3, <1>4, <1>6, <1>7, <1>8, WorkStepR

Union(f, ts) == UNION {DOMAIN f[t] : t \in ts}

(* What tables hold that stay as they are. *)
LEMMA UnionSame ==
  ASSUME NEW D, NEW x, NEW y, \A t \in D : x[t] = y[t]
  PROVE  Union(x, D) = Union(y, D)
<1>1. \A t \in D : DOMAIN x[t] = DOMAIN y[t]
  OBVIOUS
<1> QED BY <1>1 DEF Union

(* What tables hold together. *)
LEMMA UnionJoin ==
  ASSUME NEW D, NEW E, NEW x
  PROVE  Union(x, D \union E) = Union(x, D) \union Union(x, E)
BY DEF Union

(* A table is written: what it holds is in use already. *)
LEMMA AddedTable ==
  ASSUME IInv, NEW N \in [Writer -> Nat], RInv(N), NEW new \in SUBSET Nat, NEW batch, new = {} \/ batch \in Batches,
         new \intersect DOMAIN disk.tables = {}, Told(N, batch), new # {} => DOMAIN batch \subseteq InMemory,
         disk' = [disk EXCEPT !.tables = [t \in DOMAIN @ \union new |-> IF t \in new THEN batch ELSE @[t]]]
  PROVE  /\ disk'.logs = disk.logs /\ disk'.manifest = disk.manifest
         /\ DOMAIN disk'.tables = DOMAIN disk.tables \union new
         /\ \A t \in DOMAIN disk.tables : disk'.tables[t] = disk.tables[t]
         /\ \A t \in new : disk'.tables[t] = batch
         /\ \A t \in DOMAIN disk'.tables : t \in DOMAIN disk.tables \/ Told(N, disk'.tables[t])
         /\ InTables(DOMAIN disk.tables)' = InTables(DOMAIN disk.tables) \union (InTables(DOMAIN disk.tables)' \intersect InMemory)
<1>1. /\ disk'.logs = disk.logs /\ disk'.manifest = disk.manifest
      /\ disk'.tables = [t \in DOMAIN disk.tables \union new |-> IF t \in new THEN batch ELSE disk.tables[t]]
  BY DEF IInv, ShapeOK, DiskOK
<1>2. /\ DOMAIN disk'.tables = DOMAIN disk.tables \union new
      /\ \A t \in DOMAIN disk.tables : disk'.tables[t] = disk.tables[t]
      /\ \A t \in new : disk'.tables[t] = batch
  BY <1>1
<1>3. \A t \in DOMAIN disk'.tables : t \in DOMAIN disk.tables \/ Told(N, disk'.tables[t])
  BY <1>2
<1>4. InTables(DOMAIN disk.tables)' = InTables(DOMAIN disk.tables) \union UNION {DOMAIN disk'.tables[t] : t \in new}
  <2>1. InTables(DOMAIN disk.tables)' = Union(disk'.tables, DOMAIN disk.tables \union new)
    BY <1>2 DEF InTables, Union
  <2>2. Union(disk'.tables, DOMAIN disk.tables) = Union(disk.tables, DOMAIN disk.tables)
    BY <1>2, UnionSame
  <2>3. Union(disk.tables, DOMAIN disk.tables) = InTables(DOMAIN disk.tables)
    BY DEF InTables, Union
  <2>4. Union(disk'.tables, new) = UNION {DOMAIN disk'.tables[t] : t \in new}
    BY DEF Union
  <2> QED BY <2>1, <2>2, <2>3, <2>4, UnionJoin
<1>5. UNION {DOMAIN disk'.tables[t] : t \in new} \subseteq InMemory
  BY <1>2
<1> QED BY <1>1, <1>2, <1>3, <1>4, <1>5

(* BuildTable: the table holds what imm holds. *)
LEMMA BuildTableR ==
  ASSUME IInv, IInv', NEW N \in [Writer -> Nat], RInv(N), BuildTable
  PROVE  RInv(N)' /\ Store!DNext
<1>0. PICK new, batch, t : new = (IF imm = Nothing THEN {} ELSE {t}) /\ batch = imm /\ t = bg.table
  OBVIOUS
<1>1. /\ bg.flush = "build"
      /\ disk' = [disk EXCEPT !.tables = [u \in DOMAIN @ \union new |-> IF u \in new THEN batch ELSE @[u]]]
      /\ UNCHANGED <<queue, group, mem, imm, logfile, versions, phase, unread>>
  BY <1>0 DEF BuildTable
<1>2. InCall
  BY <1>1 DEF InCall
<1>3. /\ ShapeOK /\ versions \in Versions /\ bg \in Calls /\ versions.next \in Nat /\ logfile \in Nat
      /\ phase \in {"open", "closing"} /\ Live /\ Live' /\ imm # None /\ imm \in Batches /\ t \in Given /\ t \in Nat
      /\ t \notin DOMAIN disk.tables /\ bg.merge \in {"none", "scan", "output"} /\ DOMAIN disk.tables \subseteq Given
  BY <1>0, <1>1, <1>2, InCallFacts DEF IInv, ShapeOK, WorkRight, Given, Live, RInv, WorkKept
<1>4. new \in SUBSET Nat /\ new \subseteq {t} /\ Told(N, batch) /\ DOMAIN batch = InImm /\ InImm \subseteq InMemory
  BY <1>0, <1>3 DEF RInv, Agreed, InImm, InMemory
<1>5. /\ disk'.logs = disk.logs /\ disk'.manifest = disk.manifest
      /\ DOMAIN disk'.tables = DOMAIN disk.tables \union new
      /\ \A u \in DOMAIN disk.tables : disk'.tables[u] = disk.tables[u]
      /\ \A u \in new : disk'.tables[u] = batch
      /\ \A u \in DOMAIN disk'.tables : u \in DOMAIN disk.tables \/ Told(N, disk'.tables[u])
      /\ InTables(DOMAIN disk.tables)' = InTables(DOMAIN disk.tables) \union (InTables(DOMAIN disk.tables)' \intersect InMemory)
  <2>1. new = {} \/ batch \in Batches
    BY <1>0, <1>3
  <2>2. new \intersect DOMAIN disk.tables = {}
    BY <1>3, <1>4
  <2> QED BY <1>1, <1>4, <2>1, <2>2, AddedTable
<1>6. DOMAIN disk'.tables \subseteq Given'
  BY <1>1, <1>3, <1>4, <1>5 DEF Given
<1>7. WakesOnly(pc') /\ (bg.error => bg'.error) /\ WorkKept'
      /\ (Editing' => /\ disk.manifest.last <= bg'.edit.last /\ bg'.edit.last <= versions.last
                      /\ \A w \in InTables(bg.edit.add0 \union bg.edit.add1)' : N[w] <= bg'.edit.last)
  <2>1. CASE phase = "closing"
    <3>1. FlushFailed
      BY <2>1 DEF BuildTable
    <3>2. WakesOnly(pc') /\ bg'.error /\ Over
      BY <1>1, <1>2, <3>1, FailedFacts
    <3>3. versions'.next >= versions.next /\ versions'.next \in Nat
      BY <1>1, <1>3
    <3>4. \A u \in DOMAIN disk.tables \intersect DOMAIN disk'.tables : disk'.tables[u] = disk.tables[u]
      BY <1>5
    <3>5. WorkKept' /\ ~Editing'
      BY <1>3, <1>6, <3>2, <3>3, <3>4, OverKept
    <3> QED BY <3>2, <3>5
  <2>2. CASE phase # "closing"
    <3>0. PICK e : e = Edit(new, {}, {}, logfile, versions)
      OBVIOUS
    <3>1. pc' = pc /\ bg' = [bg EXCEPT !.flush = "write", !.edit = e]
      BY <1>0, <2>2, <3>0 DEF BuildTable
    <3>2. /\ e \in Edits /\ e.add0 = new /\ e.add1 = {} /\ e.log = logfile /\ e.last = versions.last
      <4>1. {} \in SUBSET Nat
        OBVIOUS
      <4> QED BY <1>3, <1>4, <3>0, <4>1, EditShape
    <3>3. /\ bg'.flush = "write" /\ bg'.edit = e /\ bg'.merge = bg.merge /\ bg'.output = bg.output
          /\ bg'.inputs = bg.inputs /\ bg'.error = bg.error
      BY <1>3, <3>1, <3>2 DEF Calls
    <3>4. InTables(bg.edit.add0)' = InImm /\ InTables(bg.edit.add0 \union bg.edit.add1)' = InImm
      <4>1. InTables(new)' = InImm
        <5>1. CASE imm = Nothing
          <6>1. new = {} /\ InImm = {}
            BY <1>0, <1>3, <5>1 DEF InImm, Nothing
          <6> QED BY <6>1 DEF InTables
        <5>2. CASE imm # Nothing
          <6>1. new = {t} /\ disk'.tables[t] = batch
            BY <1>0, <1>5, <5>2
          <6> QED BY <1>4, <6>1 DEF InTables
        <5> QED BY <5>1, <5>2
      <4>2. bg'.edit.add0 = new /\ bg'.edit.add0 \union bg'.edit.add1 = new
        BY <3>2, <3>3
      <4> QED BY <4>1, <4>2 DEF InTables
    <3>5. InImm' = InImm
      BY <1>1 DEF InImm
    <3>6. bg.merge = "output" => InTables({bg.output})' = InTables(bg.inputs)'
      <4> SUFFICES ASSUME bg.merge = "output" PROVE InTables({bg.output})' = InTables(bg.inputs)'
        OBVIOUS
      <4>0. PICK o, ins : o = bg.output /\ ins = bg.inputs
        OBVIOUS
      <4>1. o \in DOMAIN disk.tables /\ ins \subseteq DOMAIN disk.tables
        BY <1>3, <4>0 DEF IInv, WorkRight, TablesRight
      <4>2. InTables({o})' = InTables({o}) /\ InTables(ins)' = InTables(ins)
        <5>1. {o} \subseteq DOMAIN disk.tables \intersect DOMAIN disk'.tables
              /\ ins \subseteq DOMAIN disk.tables \intersect DOMAIN disk'.tables
          BY <1>5, <4>1
        <5> QED BY <1>5, <5>1, TablesSame
      <4>3. InTables({o}) = InTables(ins)
        BY <4>0 DEF RInv, WorkKept
      <4>4. InTables({bg.output})' = InTables({o})' /\ InTables(bg.inputs)' = InTables(ins)'
        BY <3>3, <4>0 DEF InTables
      <4> QED BY <4>2, <4>3, <4>4
    <3>7. WorkKept'
      BY <1>1, <1>3, <1>6, <3>2, <3>3, <3>4, <3>5, <3>6 DEF WorkKept
    <3>8. /\ disk.manifest.last <= versions.last /\ \A w \in InImm : N[w] <= versions.last
      BY <1>3 DEF RInv, NumbersRight, Live
    <3>9. WakesOnly(pc')
      BY <1>3, <3>1, WokenFacts
    <3>10. versions.last \in Nat /\ versions.last <= versions.last
      BY <1>3 DEF Versions
    <3> QED BY <3>2, <3>3, <3>4, <3>7, <3>8, <3>9, <3>10
  <2> QED BY <2>1, <2>2
<1>8. DOMAIN disk.tables \subseteq DOMAIN disk'.tables
  BY <1>5
<1> QED BY <1>1, <1>3, <1>5, <1>7, <1>8, WorkStepR

(* Fewer tables hold less. *)
LEMMA SomeTables ==
  ASSUME NEW ts, NEW us, ts \subseteq us
  PROVE  InTables(ts) \subseteq InTables(us)
BY DEF InTables

(* A merge begins: tables are chosen, or one is moved. *)
LEMMA BeginMergeR ==
  ASSUME IInv, IInv', NEW N \in [Writer -> Nat], RInv(N), BeginMerge
  PROVE  RInv(N)' /\ Store!DNext
<1>0. PICK e : e = Edit({}, versions.l0, versions.l0, versions.log, versions)
  OBVIOUS
<1>1. /\ phase = "open" /\ bg.scheduled /\ bg.flush = "none" /\ bg.merge = "none"
      /\ UNCHANGED <<pc, queue, group, mem, imm, logfile, versions, disk, phase, unread>>
      /\ \/ bg' = [bg EXCEPT !.merge = "write", !.output = 0, !.edit = e]
         \/ bg' = [bg EXCEPT !.merge = "scan", !.inputs = MergeInputs]
  BY <1>0 DEF BeginMerge, InCall
<1>2. ShapeOK /\ bg \in Calls /\ versions \in Versions /\ Live
  BY <1>1 DEF IInv, ShapeOK, Live
<1>3. /\ e \in Edits /\ e.add0 = {} /\ e.add1 = versions.l0 /\ e.gone = versions.l0
      /\ e.log = versions.log /\ e.last = versions.last
  <2>1. {} \in SUBSET Nat /\ versions.l0 \in SUBSET Nat /\ versions.log \in Nat
    BY <1>2 DEF Versions
  <2> QED BY <1>0, <1>2, <2>1, EditShape
<1>4. /\ bg'.flush = "none" /\ bg'.error = bg.error
      /\ \/ bg'.merge = "write" /\ bg'.edit = e
         \/ bg'.merge = "scan"
  BY <1>1, <1>2, <1>3 DEF Calls
<1>5. DOMAIN disk.tables \subseteq Given' /\ Live' /\ Given' = Given /\ Tables' = Tables
  BY <1>1, <1>2 DEF Live, Given, RInv, WorkKept, Tables
<1>6. WorkKept'
  <2>1. bg'.merge = "write" => /\ bg'.edit.add0 = {} /\ bg'.edit.gone \subseteq Tables /\ bg'.edit.log = versions.log
                               /\ bg'.edit.gone = bg'.edit.add1
    BY <1>3, <1>4 DEF Tables
  <2>2. bg'.merge = "write" => InTables(bg.edit.gone)' = InTables(bg.edit.add1)'
    BY <2>1 DEF InTables
  <2>3. bg'.flush = "none" /\ bg'.merge \in {"write", "scan"} /\ disk' = disk /\ versions' = versions
    BY <1>1, <1>4
  <2> QED BY <1>5, <2>1, <2>2, <2>3 DEF WorkKept
<1>7. Editing' => /\ disk.manifest.last <= bg'.edit.last /\ bg'.edit.last <= versions.last
                  /\ \A w \in InTables(bg.edit.add0 \union bg.edit.add1)' : N[w] <= bg'.edit.last
  <2> SUFFICES ASSUME Editing'
               PROVE  /\ disk.manifest.last <= bg'.edit.last /\ bg'.edit.last <= versions.last
                      /\ \A w \in InTables(bg.edit.add0 \union bg.edit.add1)' : N[w] <= bg'.edit.last
    OBVIOUS
  <2>1. bg'.edit = e
    BY <1>1, <1>4 DEF Editing
  <2>2. bg'.edit.last = versions.last /\ bg'.edit.add0 \union bg'.edit.add1 = versions.l0
    BY <1>3, <2>1
  <2>3. InTables(bg.edit.add0 \union bg.edit.add1)' = InTables(versions.l0)
    BY <1>1, <2>2 DEF InTables
  <2>4. InTables(versions.l0) \subseteq InUse
    BY SomeTables DEF InUse, Tables
  <2>5. disk.manifest.last <= versions.last /\ \A w \in InUse : N[w] <= versions.last
    BY <1>1, <1>2 DEF RInv, NumbersRight
  <2>6. versions.last \in Nat
    BY <1>2 DEF Versions
  <2> QED BY <2>2, <2>3, <2>4, <2>5, <2>6
<1>8. WakesOnly(pc') /\ InTables(DOMAIN disk.tables)' = InTables(DOMAIN disk.tables)
  BY <1>1, <1>2, WokenFacts DEF InTables
<1> QED BY <1>1, <1>2, <1>4, <1>6, <1>7, <1>8, WorkStepR

(* The output of a merge holds what its inputs hold. *)
LEMMA FinishOutputR ==
  ASSUME IInv, IInv', NEW N \in [Writer -> Nat], RInv(N), FinishOutput
  PROVE  RInv(N)' /\ Store!DNext
<1>0. PICK e, o, ins : e = Edit({}, {o}, ins, versions.log, versions) /\ o = bg.output /\ ins = bg.inputs
  OBVIOUS
<1>1. /\ phase = "open" /\ bg.flush = "none" /\ bg.merge = "output"
      /\ UNCHANGED <<pc, queue, group, mem, imm, logfile, versions, disk, phase, unread>>
      /\ bg' = [bg EXCEPT !.merge = "write", !.edit = e]
  BY <1>0 DEF FinishOutput
<1>2. ShapeOK /\ bg \in Calls /\ versions \in Versions /\ Live
  BY <1>1 DEF IInv, ShapeOK, Live
<1>3. /\ e \in Edits /\ e.add0 = {} /\ e.add1 = {o} /\ e.gone = ins
      /\ e.log = versions.log /\ e.last = versions.last
  <2>1. {} \in SUBSET Nat /\ {o} \in SUBSET Nat /\ ins \in SUBSET Nat /\ versions.log \in Nat
    BY <1>0, <1>2 DEF Versions, Calls
  <2> QED BY <1>0, <1>2, <2>1, EditShape
<1>4. bg'.flush = "none" /\ bg'.error = bg.error /\ bg'.merge = "write" /\ bg'.edit = e
  BY <1>1, <1>2, <1>3 DEF Calls
<1>5. DOMAIN disk.tables \subseteq Given' /\ Live' /\ Given' = Given /\ Tables' = Tables
  BY <1>1, <1>2 DEF Live, Given, RInv, WorkKept, Tables
<1>6. InTables({o}) = InTables(ins) /\ ins \subseteq Tables
  BY <1>0, <1>1 DEF RInv, WorkKept, IInv, WorkRight
<1>7. WorkKept'
  <2>1. InTables(bg.edit.gone)' = InTables(ins) /\ InTables(bg.edit.add1)' = InTables({o})
    BY <1>1, <1>3, <1>4 DEF InTables
  <2>2. disk' = disk /\ versions' = versions
    BY <1>1
  <2> QED BY <1>3, <1>4, <1>5, <1>6, <2>1, <2>2 DEF WorkKept
<1>8. /\ disk.manifest.last <= bg'.edit.last /\ bg'.edit.last <= versions.last
      /\ \A w \in InTables(bg.edit.add0 \union bg.edit.add1)' : N[w] <= bg'.edit.last
  <2>1. bg'.edit.last = versions.last /\ bg'.edit.add0 \union bg'.edit.add1 = {o}
    BY <1>3, <1>4
  <2>2. InTables(bg.edit.add0 \union bg.edit.add1)' = InTables({o})
    BY <1>1, <2>1 DEF InTables
  <2>3. InTables(ins) \subseteq InUse
    BY <1>6, SomeTables DEF InUse
  <2>4. disk.manifest.last <= versions.last /\ \A w \in InUse : N[w] <= versions.last
    BY <1>1, <1>2 DEF RInv, NumbersRight
  <2>5. versions.last \in Nat
    BY <1>2 DEF Versions
  <2> QED BY <1>6, <2>1, <2>2, <2>3, <2>4, <2>5
<1>9. WakesOnly(pc') /\ InTables(DOMAIN disk.tables)' = InTables(DOMAIN disk.tables)
  BY <1>1, <1>2, WokenFacts DEF InTables
<1> QED BY <1>1, <1>2, <1>4, <1>7, <1>8, <1>9, WorkStepR

(* The output of a merge is made. *)
LEMMA OpenOutputR ==
  ASSUME IInv, IInv', NEW N \in [Writer -> Nat], RInv(N), OpenOutput
  PROVE  RInv(N)' /\ Store!DNext
<1>0. PICK k, new, batch, ins : k = versions.next /\ new = {k} /\ batch = Content(ins) /\ ins = bg.inputs
  OBVIOUS
<1>1. /\ phase = "open" /\ bg.flush = "none" /\ bg.merge = "scan"
      /\ disk' = [disk EXCEPT !.tables = [t \in DOMAIN @ \union new |-> IF t \in new THEN batch ELSE @[t]]]
      /\ bg' = [bg EXCEPT !.merge = "output", !.output = k]
      /\ versions' = [versions EXCEPT !.next = @ + 1]
      /\ UNCHANGED <<pc, queue, group, mem, imm, logfile, phase, unread>>
  BY <1>0 DEF OpenOutput
<1>2. ShapeOK /\ bg \in Calls /\ versions \in Versions /\ Live /\ Live' /\ k \in Nat
  BY <1>0, <1>1 DEF IInv, ShapeOK, Live, Versions
<1>3. /\ versions'.last = versions.last /\ versions'.log = versions.log /\ versions'.next = k + 1
      /\ versions'.l0 = versions.l0 /\ versions'.l1 = versions.l1
  BY <1>0, <1>1, <1>2 DEF Versions
<1>4. /\ bg'.flush = "none" /\ bg'.error = bg.error /\ bg'.merge = "output" /\ bg'.output = k /\ bg'.inputs = ins
  BY <1>0, <1>1, <1>2 DEF Calls
<1>5. DOMAIN disk.tables \subseteq 1..(k - 1) /\ Given' = 1..k
  BY <1>0, <1>2, <1>3 DEF RInv, WorkKept, Given
<1>6. ins \subseteq Tables /\ Tables \subseteq DOMAIN disk.tables
  BY <1>0, <1>1 DEF IInv, WorkRight, TablesRight
<1>7. Told(N, batch) /\ DOMAIN batch = InTables(ins) /\ batch \in Batches
  <2>1. batch = NumbersOf(N, InTables(ins))
    BY <1>0, <1>6, ContentTold DEF RInv
  <2>2. {disk.tables[t] : t \in ins} \in SUBSET Batches
    BY <1>2, <1>6 DEF ShapeOK, DiskOK, Maps
  <2>3. batch \in Batches
    BY <1>0, <2>2, EntriesBatch DEF Content
  <2> QED BY <2>1, <2>3, NumbersTold
<1>8. InTables(ins) \subseteq InMemory
  BY <1>6, SomeTables DEF InUse, InMemory
<1>9. /\ disk'.logs = disk.logs /\ disk'.manifest = disk.manifest
      /\ DOMAIN disk'.tables = DOMAIN disk.tables \union new
      /\ \A u \in DOMAIN disk.tables : disk'.tables[u] = disk.tables[u]
      /\ \A u \in new : disk'.tables[u] = batch
      /\ \A u \in DOMAIN disk'.tables : u \in DOMAIN disk.tables \/ Told(N, disk'.tables[u])
      /\ InTables(DOMAIN disk.tables)' = InTables(DOMAIN disk.tables) \union (InTables(DOMAIN disk.tables)' \intersect InMemory)
  <2>1. new \in SUBSET Nat /\ new \intersect DOMAIN disk.tables = {}
    BY <1>0, <1>2, <1>5
  <2> QED BY <1>1, <1>7, <1>8, <2>1, AddedTable
<1>10. DOMAIN disk.tables \subseteq DOMAIN disk'.tables
  BY <1>9
<1>11. WorkKept' /\ ~Editing'
  <2>1. InTables({bg.output})' = InTables(ins)
    <3>1. {bg'.output} = new
      BY <1>0, <1>4
    <3>2. k \in new /\ disk'.tables[k] = batch
      BY <1>0, <1>9
    <3> QED BY <1>0, <1>7, <3>1, <3>2 DEF InTables
  <2>2. InTables(bg.inputs)' = InTables(ins)
    <3>1. ins \subseteq DOMAIN disk.tables \intersect DOMAIN disk'.tables
      BY <1>6, <1>10
    <3>2. \A u \in ins : disk'.tables[u] = disk.tables[u]
      BY <1>6, <1>9
    <3>3. InTables(ins)' = InTables(ins)
      BY <3>1, <3>2, TablesSame
    <3> QED BY <1>4, <3>3 DEF InTables
  <2>3. DOMAIN disk'.tables \subseteq Given'
    <3>1. DOMAIN disk'.tables = DOMAIN disk.tables \union new
      BY <1>9
    <3>2. 1..(k - 1) \subseteq 1..k /\ new \subseteq 1..k
      <4>1. k > 0
        BY <1>0, <1>2 DEF IInv, LogsRight, ShapeOK, Live
      <4> QED BY <1>0, <1>2, <4>1
    <3> QED BY <1>5, <3>1, <3>2
  <2>4. ~Editing'
    BY <1>1, <1>4 DEF Editing
  <2>5. InTables({bg.output})' = InTables(bg.inputs)'
    BY <2>1, <2>2
  <2>6. bg'.flush = "none" /\ bg'.merge = "output"
    BY <1>4
  <2>7. WorkKept'
    BY ONLY <2>3, <2>5, <2>6 DEF WorkKept
  <2> QED BY <2>4, <2>7
<1>12. WakesOnly(pc')
  BY <1>1, <1>2, WokenFacts
<1> QED BY <1>1, <1>2, <1>3, <1>4, <1>9, <1>10, <1>11, <1>12, WorkStepR

-------------------------------------------------------------------------------
(* An edit is installed. *)

(* Some files go, and what stays is what it was. *)
Thinned ==
  /\ disk'.manifest = disk.manifest
  /\ DOMAIN disk'.logs \subseteq DOMAIN disk.logs
  /\ \A n \in DOMAIN disk'.logs : disk'.logs[n] = disk.logs[n]
  /\ DOMAIN disk'.tables \subseteq DOMAIN disk.tables
  /\ \A t \in DOMAIN disk'.tables : disk'.tables[t] = disk.tables[t]
  /\ \A n \in DOMAIN disk.logs : n >= versions'.log => n \in DOMAIN disk'.logs

(* DeleteObsoleteFiles keeps the logs from the one of the version on. *)
LEMMA CleanedThins ==
  ASSUME ShapeOK, versions' \in Versions, NEW b, disk' = disk \/ disk' = Cleaned(disk, versions', b)
  PROVE  Thinned
<1>1. CASE disk' = disk
  BY <1>1 DEF Thinned
<1>2. CASE disk' = Cleaned(disk, versions', b) /\ b.error
  <2>1. disk' = disk
    BY <1>2 DEF Cleaned
  <2> QED BY <2>1 DEF Thinned
<1>3. CASE disk' = Cleaned(disk, versions', b) /\ ~b.error
  <2>0. PICK live : live = versions'.l0 \union versions'.l1 \union Pending(b)
    OBVIOUS
  <2>1. disk' = [disk EXCEPT !.logs = [n \in {m \in DOMAIN @ : m >= versions'.log} |-> @[n]],
                             !.tables = [t \in DOMAIN @ \intersect live |-> @[t]]]
    BY <1>3, <2>0 DEF Cleaned
  <2>2. /\ disk'.manifest = disk.manifest
        /\ disk'.logs = [n \in {m \in DOMAIN disk.logs : m >= versions'.log} |-> disk.logs[n]]
        /\ disk'.tables = [t \in DOMAIN disk.tables \intersect live |-> disk.tables[t]]
    BY <2>1 DEF ShapeOK, DiskOK
  <2>3. /\ DOMAIN disk'.logs = {m \in DOMAIN disk.logs : m >= versions'.log}
        /\ \A n \in DOMAIN disk'.logs : disk'.logs[n] = disk.logs[n]
    BY <2>2
  <2>4. /\ DOMAIN disk'.tables \subseteq DOMAIN disk.tables
        /\ \A t \in DOMAIN disk'.tables : disk'.tables[t] = disk.tables[t]
    BY <2>2
  <2>5. /\ DOMAIN disk'.logs \subseteq DOMAIN disk.logs
        /\ \A n \in DOMAIN disk.logs : n >= versions'.log => n \in DOMAIN disk'.logs
    BY <2>3
  <2> QED BY <2>2, <2>3, <2>4, <2>5 DEF Thinned
<1> QED BY <1>1, <1>2, <1>3

(* An edit becomes part of the version in use. *)
LEMMA InstallR ==
  ASSUME IInv, IInv', NEW N \in [Writer -> Nat], RInv(N), Live, WakesOnly(pc'), Thinned, WorkKept', ~Editing',
         UNCHANGED <<queue, group, mem, logfile, phase, unread>>, imm' = imm \/ imm' = None,
         versions'.last = versions.last, bg'.error = bg.error,
         versions.log <= versions'.log, versions'.log <= disk.manifest.log,
         InMemory' = InMemory, InUse \subseteq InUse', InManifest \subseteq InUse' \union InImm',
         \A n \in LogsFrom(versions'.log) : n < logfile => InLog(n) \subseteq InImm' \union InManifest,
         versions'.log < disk.manifest.log => InImm' \subseteq InManifest
  PROVE  RInv(N)' /\ Store!DNext
<1>1. /\ Early' = Early /\ (Busy' <=> Busy) /\ (Logging' <=> Logging) /\ answerBar' = answerBar
      /\ \A v \in Writer : \A s \in {"error", "failing", "applying"} : pc'[v] = s <=> pc[v] = s
      /\ GroupRight(N)'
  BY WakeFacts
<1>2. /\ disk'.manifest = disk.manifest /\ DOMAIN disk'.logs \subseteq DOMAIN disk.logs
      /\ \A n \in DOMAIN disk'.logs : disk'.logs[n] = disk.logs[n]
      /\ DOMAIN disk'.tables \subseteq DOMAIN disk.tables
      /\ \A t \in DOMAIN disk'.tables : disk'.tables[t] = disk.tables[t]
      /\ \A n \in DOMAIN disk.logs : n >= versions'.log => n \in DOMAIN disk'.logs
  BY DEF Thinned
<1>3. /\ disk.manifest.log \in Nat /\ logfile \in Nat /\ versions'.log \in Nat /\ versions.log \in Nat
      /\ DOMAIN disk.logs \subseteq Nat /\ disk.manifest.log <= logfile
      /\ logfile \in DOMAIN disk.logs
  BY DEF IInv, ShapeOK, DiskOK, Versions, LogKept, RInv, LogsRight, Live
<1>4. Live' /\ InImm' \subseteq InImm
  BY DEF Live, InImm
<1>5. Agreed(N)'
  <2>1. Told(N, mem') /\ Told(N, group'.batch) /\ (imm' # None => Told(N, imm'))
    BY DEF RInv, Agreed
  <2>2. \A t \in DOMAIN disk'.tables : Told(N, disk'.tables[t])
    BY <1>2 DEF RInv, Agreed
  <2>3. \A n \in DOMAIN disk'.logs : \A i \in DOMAIN disk'.logs[n] : Told(N, disk'.logs[n][i].batch)
    BY <1>2 DEF RInv, Agreed
  <2> QED BY <2>1, <2>2, <2>3 DEF Agreed
<1>6. InManifest' = InManifest
  <2>1. disk'.manifest.l0 \union disk'.manifest.l1 \subseteq DOMAIN disk'.tables
    BY DEF IInv, TablesRight
  <2> QED BY <1>2, <2>1 DEF InManifest, InTables
<1>7. \A n \in DOMAIN disk'.logs : InLog(n)' = InLog(n) /\ InKept(n)' = InKept(n) /\ InFirm(n)' = InFirm(n)
  BY <1>2 DEF InLog, InKept, InFirm, Intact, Sound, Flawed
<1>8. logfile \in DOMAIN disk'.logs /\ disk'.logs[logfile] = disk.logs[logfile] /\ InLog(logfile)' = InLog(logfile)
  <2>1. logfile >= versions'.log
    BY <1>3
  <2>2. logfile \in DOMAIN disk'.logs
    BY <1>2, <1>3, <2>1
  <2>3. InLog(logfile)' = InLog(logfile)' /\ disk'.logs[logfile] = disk.logs[logfile]
    BY <1>2, <2>2
  <2> QED BY <2>2, <2>3 DEF InLog
<1>9. PlacesRight'
  <2>1. InTables(DOMAIN disk.tables)' \subseteq InTables(DOMAIN disk.tables)
    BY <1>2 DEF InTables
  <2>2. \A w \in Early : w \notin DOMAIN mem \union InImm \union InTables(DOMAIN disk.tables)
    BY DEF RInv, PlacesRight
  <2>3. \A w \in Early' : w \notin DOMAIN mem' \union InImm' \union InTables(DOMAIN disk.tables)'
    BY <1>1, <1>4, <2>1, <2>2
  <2>4. \A w \in Early, n \in DOMAIN disk.logs : w \in InLog(n) => n = logfile /\ w \in DOMAIN group.batch /\ Logging
    BY DEF RInv, PlacesRight
  <2>5. \A w \in Early', n \in DOMAIN disk'.logs :
          w \in InLog(n)' => n = logfile' /\ w \in DOMAIN group'.batch /\ Logging'
    BY <1>1, <1>2, <1>7, <2>4
  <2> QED BY <2>3, <2>5 DEF PlacesRight
<1>10. NumbersRight(N)'
  <2>1. /\ \A w \in InUse' \union DOMAIN mem' \union InImm' : N[w] <= versions'.last
        /\ \A w \in InManifest' : N[w] <= disk'.manifest.last
        /\ disk'.manifest.last <= versions'.last
    BY <1>2, <1>6 DEF RInv, NumbersRight, Live, InMemory
  <2> QED BY <1>4, <2>1 DEF NumbersRight, Live
<1>11. LogKept(N)'
  <2>1. \A n \in LogsFrom(versions.log)' : n \in LogsFrom(versions'.log) /\ n \in LogsFrom(versions.log) /\ n \in DOMAIN disk'.logs
    BY <1>2, <1>3 DEF LogsFrom
  <2>2. \A n \in LogsFrom(versions.log)' : n <= logfile /\ (n < logfile => InLog(n)' \subseteq InImm' \union InManifest')
    BY <1>6, <1>7, <2>1 DEF RInv, LogKept
  <2>3. ASSUME NEW w \in InLog(logfile) PROVE w \in DOMAIN mem \/ w \in DOMAIN group.batch \/ Refused(N, w)'
    <3>1. ASSUME Refused(N, w) PROVE Refused(N, w)'
      <4>1. w \in Writer
        BY <1>3, EntryWriters
      <4>2. bg'.error /\ ~Busy' /\ pc'[w] = "error"
        BY <1>1, <3>1, <4>1 DEF Refused
      <4>3. \A v \in InMemory : N[v] < N[w]
        BY <3>1 DEF Refused, InMemory
      <4>4. \A v \in InUse' \union DOMAIN mem' \union InImm' : N[v] < N[w]
        BY <4>3 DEF InMemory
      <4> QED BY <4>2, <4>4 DEF Refused
    <3> QED BY <3>1 DEF RInv, LogKept
  <2>4. \A w \in InLog(logfile)' : w \in DOMAIN mem' \/ w \in DOMAIN group'.batch \/ Refused(N, w)'
    BY <1>8, <2>3
  <2>5. /\ versions'.log <= disk'.manifest.log /\ disk'.manifest.log <= logfile'
        /\ InManifest' \subseteq InUse' \union InImm'
        /\ versions'.log < disk'.manifest.log => InImm' \subseteq InManifest'
    BY <1>2, <1>3, <1>6
  <2> QED BY <2>2, <2>4, <2>5 DEF LogKept
<1>12. LastRight'
  <2>1. disk'.logs[logfile'] = disk.logs[logfile] /\ group' = group
    BY <1>8
  <2>2. /\ (\E i \in DOMAIN disk.logs[logfile] : Flawed(disk.logs[logfile][i])) =>
              \E w \in Writer \ Compact : pc'[w] \in {"error", "failing"}
        /\ Logging' => \E i \in DOMAIN disk.logs[logfile] : disk.logs[logfile][i].batch = group.batch
        /\ \A w \in Sync : pc'[w] = "applying" =>
             \A i \in DOMAIN disk.logs[logfile] : disk.logs[logfile][i].synced
    BY <1>1, WritersAssumption DEF RInv, LastRight
  <2> QED BY <2>1, <2>2 DEF LastRight, Flawed
<1>13. RInv(N)'
  BY <1>1, <1>4, <1>5, <1>9, <1>10, <1>11, <1>12 DEF RInv, RecoveryKept
<1>14. Seen' = Seen /\ Sure' = Sure /\ Firm' = Firm
  <2>1. LogsFrom(disk.manifest.log)' = LogsFrom(disk.manifest.log)
    BY <1>2, <1>3 DEF LogsFrom
  <2>2. \A n \in LogsFrom(disk.manifest.log) : n \in DOMAIN disk'.logs
    BY <2>1 DEF LogsFrom
  <2>3. KeptLogs' = KeptLogs /\ FirmLogs' = FirmLogs
    BY <1>7, <2>1, <2>2 DEF KeptLogs, FirmLogs
  <2> QED BY <1>4, <1>6, <2>3 DEF Seen, Sure, Firm
<1>15. Store!DNext
  <2>1. Agreed(N) /\ \A v \in Seen : N[v] = N[v]
    BY DEF RInv
  <2>2. Firm \intersect Seen \subseteq Firm' /\ Sure \intersect Seen \subseteq Sure'
        /\ (Sure' \intersect Seen) \ Sure \subseteq Firm'
    BY <1>14
  <2> QED BY <1>1, <1>5, <1>14, <2>1, <2>2, SettleStore
<1> QED BY <1>13, <1>15

(* The fields of a version an edit was applied to. *)
LEMMA EditedVersion ==
  ASSUME NEW v \in Versions, NEW e \in Edits
  PROVE  /\ Edited(v, e).last = v.last /\ Edited(v, e).next = v.next /\ Edited(v, e).log = e.log
         /\ Edited(v, e).l0 \union Edited(v, e).l1 = ((v.l0 \union v.l1) \ e.gone) \union (e.add0 \union e.add1)
<1>1. /\ Edited(v, e).last = v.last /\ Edited(v, e).next = v.next /\ Edited(v, e).log = e.log
      /\ Edited(v, e).l0 = (v.l0 \ e.gone) \union e.add0 /\ Edited(v, e).l1 = (v.l1 \ e.gone) \union e.add1
  BY DEF Edited, Versions, Edits
<1> QED BY <1>1

(* The tables of the version in use are all there after some went. *)
LEMMA InUseThinned ==
  ASSUME IInv', Thinned, Live'
  PROVE  InUse' = InTables(Tables') /\ Tables' \subseteq DOMAIN disk.tables
<1>1. Tables' \subseteq DOMAIN disk'.tables
  BY DEF IInv, TablesRight, Live
<1>2. \A t \in Tables' : disk'.tables[t] = disk.tables[t] /\ t \in DOMAIN disk.tables
  BY <1>1 DEF Thinned
<1> QED BY <1>2 DEF InUse, InTables

(* Two sets of tables together. *)
LEMMA JoinTables ==
  ASSUME NEW ts, NEW us
  PROVE  InTables(ts \union us) = InTables(ts) \union InTables(us)
BY DEF InTables

(* The table of imm takes its place. *)
LEMMA InstallFlushR ==
  ASSUME IInv, IInv', NEW N \in [Writer -> Nat], RInv(N), InstallFlush
  PROVE  RInv(N)' /\ Store!DNext
<1>0. PICK b, e : b = [bg EXCEPT !.flush = "none"] /\ e = bg.edit
  OBVIOUS
<1>1. /\ bg.flush = "install" /\ versions' = Edited(versions, e) /\ disk' = Cleaned(disk, versions', b)
      /\ FlushEnds(b, None, versions') /\ imm' = None /\ UNCHANGED <<queue, group, mem, logfile, phase, unread>>
  BY <1>0 DEF InstallFlush
<1>2. InCall
  BY <1>1 DEF InCall
<1>3. /\ ShapeOK /\ phase \in {"open", "closing"} /\ bg \in Calls /\ e \in Edits /\ versions \in Versions
      /\ bg.merge \in {"none", "scan", "output"} /\ Live /\ Live' /\ versions.next \in Nat
      /\ versions.log \in Nat /\ logfile \in Nat /\ versions.log <= logfile
  BY <1>0, <1>1, <1>2, InCallFacts DEF IInv, WorkRight, Live
<1>4. /\ b \in Calls /\ b.error = bg.error /\ b.error \in BOOLEAN /\ b.flush = "none" /\ b.merge = bg.merge
      /\ b.output = bg.output /\ b.inputs = bg.inputs
  BY <1>0, <1>3 DEF Calls
<1>5. e.add1 = {} /\ e.gone = {} /\ e.log = logfile /\ InTables(e.add0) = InImm /\ disk.manifest.log = logfile
      /\ e.add0 \subseteq disk.manifest.l0
  BY <1>0, <1>1 DEF IInv, EditRight, RInv, WorkKept
<1>6. /\ versions'.last = versions.last /\ versions'.next = versions.next /\ versions'.log = logfile
      /\ Tables' = Tables \union e.add0
  <2>1. versions'.l0 \union versions'.l1 = ((versions.l0 \union versions.l1) \ e.gone) \union (e.add0 \union e.add1)
    BY <1>1, <1>3, EditedVersion
  <2>2. Tables' = Tables \union e.add0
    BY <1>5, <2>1 DEF Tables
  <2> QED BY <1>1, <1>3, <1>5, <2>2, EditedVersion
<1>7. Thinned
  <2>1. versions' \in Versions
    BY DEF IInv, ShapeOK
  <2> QED BY <1>1, <1>3, <2>1, CleanedThins
<1>8. WakesOnly(pc') /\ bg'.error = bg.error /\ Over
  <2>1. CASE bg.merge = "none"
    <3>1. CallEnds(b, None, versions')
      BY <1>1, <2>1 DEF FlushEnds
    <3> QED BY <1>3, <1>4, <3>1, CallEndsFacts DEF Over, IdleLike
  <2>2. CASE bg.merge # "none"
    <3>1. bg' = [b EXCEPT !.flush = "none"] /\ pc' = Woken(pc)
      BY <1>1, <2>2 DEF FlushEnds
    <3>2. /\ bg'.error = bg.error /\ bg'.flush = "none" /\ bg'.merge = bg.merge
          /\ bg'.inputs = bg.inputs /\ bg'.output = bg.output
      BY <1>4, <3>1 DEF Calls
    <3>3. bg.merge \in {"scan", "output"}
      BY <1>3, <2>2
    <3>4. WakesOnly(pc')
      BY <1>3, <3>1, WokenFacts
    <3> QED BY <3>2, <3>3, <3>4 DEF Over
  <2> QED BY <2>1, <2>2
<1>9. WorkKept' /\ ~Editing'
  <2>1. DOMAIN disk'.tables \subseteq Given'
    BY <1>3, <1>6, <1>7 DEF Thinned, Given, RInv, WorkKept
  <2>2. \A t \in DOMAIN disk.tables \intersect DOMAIN disk'.tables : disk'.tables[t] = disk.tables[t]
    BY <1>7 DEF Thinned
  <2>3. versions'.next >= versions.next /\ versions'.next \in Nat
    BY <1>3, <1>6
  <2> QED BY <1>3, <1>8, <2>1, <2>2, <2>3, OverKept
<1>10. InUse' = InUse \union InImm
  <2>1. InUse' = InTables(Tables')
    BY <1>3, <1>7, InUseThinned
  <2>2. InTables(Tables \union e.add0) = InTables(Tables) \union InTables(e.add0)
    BY JoinTables
  <2> QED BY <1>5, <1>6, <2>1, <2>2 DEF InUse
<1>11. InImm' = {} /\ DOMAIN mem' = DOMAIN mem
  BY <1>1 DEF InImm
<1>12. InMemory' = InMemory /\ InUse \subseteq InUse' /\ InManifest \subseteq InUse' \union InImm'
  <2>1. InManifest \subseteq InUse \union InImm
    BY <1>3 DEF RInv, LogKept
  <2> QED BY <1>10, <1>11, <2>1 DEF InMemory
<1>13. \A n \in LogsFrom(versions'.log) : n < logfile => InLog(n) \subseteq InImm' \union InManifest
  <2>1. \A n \in LogsFrom(versions'.log) : n \in Nat /\ n >= logfile
    BY <1>3, <1>6 DEF LogsFrom, ShapeOK, DiskOK
  <2> QED BY <1>3, <2>1
<1>14. versions.log <= versions'.log /\ versions'.log <= disk.manifest.log /\ ~(versions'.log < disk.manifest.log)
  BY <1>3, <1>5, <1>6
<1> QED BY <1>1, <1>3, <1>6, <1>7, <1>8, <1>9, <1>12, <1>13, <1>14, InstallR

(* The output of a merge takes the place of its inputs. *)
LEMMA InstallMergeR ==
  ASSUME IInv, IInv', NEW N \in [Writer -> Nat], RInv(N), InstallMerge
  PROVE  RInv(N)' /\ Store!DNext
<1>0. PICK b, e : b = [bg EXCEPT !.merge = "none"] /\ e = bg.edit
  OBVIOUS
<1>1. /\ bg.merge = "install" /\ versions' = Edited(versions, e)
      /\ disk' = disk \/ disk' = Cleaned(disk, versions', b)
      /\ CallEnds(bg, imm, versions') /\ UNCHANGED <<queue, group, mem, imm, logfile, phase, unread>>
  BY <1>0 DEF InstallMerge
<1>2. InCall
  BY <1>1 DEF InCall
<1>3. /\ ShapeOK /\ phase \in {"open", "closing"} /\ bg \in Calls /\ e \in Edits /\ versions \in Versions
      /\ Live /\ Live' /\ versions.next \in Nat /\ bg.error \in BOOLEAN
      /\ versions.log \in Nat /\ logfile \in Nat /\ versions.log <= logfile
  BY <1>0, <1>1, <1>2, InCallFacts DEF IInv, Live, Calls
<1>4. e.add0 = {} /\ e.gone \subseteq Tables /\ e.log = versions.log /\ InTables(e.gone) = InTables(e.add1)
  BY <1>0, <1>1 DEF RInv, WorkKept
<1>5. /\ versions'.last = versions.last /\ versions'.next = versions.next /\ versions'.log = versions.log
      /\ Tables' = (Tables \ e.gone) \union e.add1
  <2>1. versions'.l0 \union versions'.l1 = ((versions.l0 \union versions.l1) \ e.gone) \union (e.add0 \union e.add1)
    BY <1>1, <1>3, EditedVersion
  <2>2. Tables' = (Tables \ e.gone) \union e.add1
    BY <1>4, <2>1 DEF Tables
  <2> QED BY <1>1, <1>3, <1>4, <2>2, EditedVersion
<1>6. Thinned
  <2>1. versions' \in Versions
    BY DEF IInv, ShapeOK
  <2> QED BY <1>1, <1>3, <2>1, CleanedThins
<1>7. WakesOnly(pc') /\ bg'.error = bg.error /\ Over
  BY <1>1, <1>3, CallEndsFacts DEF Over, IdleLike
<1>8. WorkKept' /\ ~Editing'
  <2>1. DOMAIN disk'.tables \subseteq Given'
    BY <1>3, <1>5, <1>6 DEF Thinned, Given, RInv, WorkKept
  <2>2. \A t \in DOMAIN disk.tables \intersect DOMAIN disk'.tables : disk'.tables[t] = disk.tables[t]
    BY <1>6 DEF Thinned
  <2>3. versions'.next >= versions.next /\ versions'.next \in Nat
    BY <1>3, <1>5
  <2> QED BY <1>3, <1>7, <2>1, <2>2, <2>3, OverKept
<1>9. InUse' = InUse
  <2>1. InUse' = InTables(Tables')
    BY <1>3, <1>6, InUseThinned
  <2>2. InTables((Tables \ e.gone) \union e.add1) = InTables(Tables \ e.gone) \union InTables(e.gone)
    BY <1>4, JoinTables
  <2>3. InTables((Tables \ e.gone) \union e.gone) = InTables(Tables \ e.gone) \union InTables(e.gone)
    BY JoinTables
  <2>4. (Tables \ e.gone) \union e.gone = Tables
    BY <1>4
  <2> QED BY <1>5, <2>1, <2>2, <2>3, <2>4 DEF InUse
<1>10. InImm' = InImm /\ DOMAIN mem' = DOMAIN mem
  BY <1>1 DEF InImm
<1>11. /\ versions.log <= disk.manifest.log /\ InManifest \subseteq InUse \union InImm
       /\ \A n \in LogsFrom(versions.log) : n < logfile => InLog(n) \subseteq InImm \union InManifest
       /\ versions.log < disk.manifest.log => InImm \subseteq InManifest
  BY <1>3 DEF RInv, LogKept
<1>12. InMemory' = InMemory /\ InUse \subseteq InUse' /\ InManifest \subseteq InUse' \union InImm'
  BY <1>9, <1>10, <1>11 DEF InMemory
<1>13. \A n \in LogsFrom(versions'.log) : n < logfile => InLog(n) \subseteq InImm' \union InManifest
  BY <1>5, <1>10, <1>11
<1>14. /\ versions.log <= versions'.log /\ versions'.log <= disk.manifest.log
       /\ versions'.log < disk.manifest.log => InImm' \subseteq InManifest
  BY <1>3, <1>5, <1>10, <1>11
<1> QED BY <1>1, <1>3, <1>5, <1>6, <1>7, <1>8, <1>12, <1>13, <1>14, InstallR

-------------------------------------------------------------------------------
(* The manifest is written. *)

(* What a record of the manifest changes, and what not. *)
LEMMA ManifestFacts ==
  ASSUME ShapeOK, disk' = [disk EXCEPT !.manifest = Written(@, bg.edit)]
  PROVE  /\ disk'.logs = disk.logs /\ disk'.tables = disk.tables
         /\ disk'.manifest.log = bg.edit.log /\ disk'.manifest.last = bg.edit.last
         /\ disk'.manifest.l0 = (disk.manifest.l0 \ bg.edit.gone) \union bg.edit.add0
         /\ disk'.manifest.l1 = (disk.manifest.l1 \ bg.edit.gone) \union bg.edit.add1
         /\ InManifest' = InTables((disk.manifest.l0 \union disk.manifest.l1) \ bg.edit.gone)
                            \union InTables(bg.edit.add0) \union InTables(bg.edit.add1)
<1>0. PICK m, e : m = disk.manifest /\ e = bg.edit
  OBVIOUS
<1>1. m \in Versions /\ e \in Edits
  BY <1>0 DEF ShapeOK, DiskOK, Calls
<1>2. LET x == Written(m, e)
      IN /\ x.log = e.log /\ x.last = e.last
         /\ x.l0 = (m.l0 \ e.gone) \union e.add0 /\ x.l1 = (m.l1 \ e.gone) \union e.add1
  BY <1>1 DEF Written, Edited, Versions, Edits
<1>3. /\ disk'.logs = disk.logs /\ disk'.tables = disk.tables /\ disk'.manifest = Written(m, e)
  BY <1>0 DEF ShapeOK, DiskOK
<1>4. InManifest' = InTables(((m.l0 \ e.gone) \union e.add0) \union ((m.l1 \ e.gone) \union e.add1))
  BY <1>2, <1>3 DEF InManifest, InTables
<1>5. ((m.l0 \ e.gone) \union e.add0) \union ((m.l1 \ e.gone) \union e.add1)
        = (((m.l0 \union m.l1) \ e.gone) \union e.add0) \union e.add1
  OBVIOUS
<1>6. InTables((((m.l0 \union m.l1) \ e.gone) \union e.add0) \union e.add1)
        = InTables((m.l0 \union m.l1) \ e.gone) \union InTables(e.add0) \union InTables(e.add1)
  <2> DEFINE a == (m.l0 \union m.l1) \ e.gone
  <2>1. InTables((a \union e.add0) \union e.add1) = InTables(a \union e.add0) \union InTables(e.add1)
    BY JoinTables
  <2>2. InTables(a \union e.add0) = InTables(a) \union InTables(e.add0)
    BY JoinTables
  <2> QED BY <2>1, <2>2
<1> QED BY <1>0, <1>2, <1>3, <1>4, <1>5, <1>6

(* The manifest grows by what is in memory, or by nothing. *)
Renewed ==
  /\ InManifest \subseteq InManifest' /\ InManifest' \subseteq InManifest \union InImm \union InUse
  /\ \/ disk'.manifest.log = logfile /\ InImm \subseteq InManifest'
     \/ disk'.manifest.log = versions.log

(* What the manifest names grows by imm, or stays the same. *)
LEMMA EditRenews ==
  ASSUME IInv, NEW N \in [Writer -> Nat], RInv(N), bg.flush = "write" \/ bg.merge = "write",
         disk' = [disk EXCEPT !.manifest = Written(@, bg.edit)]
  PROVE  Renewed
<1>0. PICK e, m : e = bg.edit /\ m = disk.manifest.l0 \union disk.manifest.l1
  OBVIOUS
<1>1. InManifest' = InTables(m \ e.gone) \union InTables(e.add0) \union InTables(e.add1) /\ disk'.manifest.log = e.log
  BY <1>0, ManifestFacts DEF IInv
<1>2. InManifest = InTables(m)
  BY <1>0 DEF InManifest
<1>3. CASE bg.flush = "write"
  <2>1. e.add1 = {} /\ e.gone = {} /\ e.log = logfile /\ InTables(e.add0) = InImm
    BY <1>0, <1>3 DEF IInv, EditRight, RInv, WorkKept
  <2>2. InTables({}) = {} /\ m \ {} = m
    BY DEF InTables
  <2> QED BY <1>1, <1>2, <2>1, <2>2 DEF Renewed
<1>4. CASE bg.merge = "write"
  <2>1. e.add0 = {} /\ e.gone \subseteq Tables /\ e.log = versions.log /\ InTables(e.gone) = InTables(e.add1)
    BY <1>0, <1>4 DEF RInv, WorkKept
  <2>2. InTables({}) = {}
    BY DEF InTables
  <2>3. InTables(e.gone) \subseteq InUse /\ InTables(m \ e.gone) \subseteq InTables(m)
    BY <2>1, SomeTables DEF InUse
  <2>4. InTables(m) \subseteq InTables(m \ e.gone) \union InTables(e.gone)
    <3>1. InTables((m \ e.gone) \union e.gone) = InTables(m \ e.gone) \union InTables(e.gone)
      BY JoinTables
    <3>2. InTables(m) \subseteq InTables((m \ e.gone) \union e.gone)
      BY SomeTables
    <3> QED BY <3>1, <3>2
  <2> QED BY <1>1, <1>2, <2>1, <2>2, <2>3, <2>4 DEF Renewed
<1> QED BY <1>3, <1>4

(* The manifest is written while the database is open. *)
LEMMA ManifestR ==
  ASSUME IInv, IInv', NEW N \in [Writer -> Nat], RInv(N), Live, WakesOnly(pc'),
         UNCHANGED <<queue, group, mem, imm, logfile, versions, phase, unread>>,
         disk' = [disk EXCEPT !.manifest = Written(@, bg.edit)],
         bg.flush = "write" \/ bg.merge = "write", bg.error => bg'.error, WorkKept', Editing' => bg'.edit = bg.edit
  PROVE  RInv(N)' /\ Store!DNext
<1>1. /\ Early' = Early /\ (Busy' <=> Busy) /\ (Logging' <=> Logging) /\ answerBar' = answerBar
      /\ \A v \in Writer : \A s \in {"error", "failing", "applying"} : pc'[v] = s <=> pc[v] = s
      /\ GroupRight(N)'
  BY WakeFacts
<1>2. Renewed
  BY EditRenews
<1>3. /\ disk'.logs = disk.logs /\ disk'.tables = disk.tables
      /\ disk'.manifest.log = bg.edit.log /\ disk'.manifest.last = bg.edit.last
      /\ InManifest' = InTables((disk.manifest.l0 \union disk.manifest.l1) \ bg.edit.gone)
                         \union InTables(bg.edit.add0) \union InTables(bg.edit.add1)
  BY ManifestFacts DEF IInv
<1>4. Live' /\ InImm' = InImm /\ LogsFrom(versions.log)' = LogsFrom(versions.log) /\ Tables' = Tables /\ InUse' = InUse
      /\ InLog(logfile)' = InLog(logfile) /\ \A n : InLog(n)' = InLog(n)
  BY <1>3 DEF Live, InImm, LogsFrom, Tables, InLog, InUse, InTables
<1>5. /\ versions.log \in Nat /\ logfile \in Nat /\ disk.manifest.log \in Nat /\ versions.log <= disk.manifest.log
      /\ disk.manifest.log <= logfile /\ logfile \in DOMAIN disk.logs /\ DOMAIN disk.logs \subseteq Nat
      /\ disk.manifest.last \in Nat /\ versions.last \in Nat /\ bg.edit.last \in Nat
  BY DEF IInv, ShapeOK, DiskOK, Versions, LogKept, RInv, LogsRight, Live, Calls, Edits
<1>6. Agreed(N)'
  BY <1>3 DEF RInv, Agreed
<1>7. PlacesRight'
  BY <1>1, <1>3, <1>4 DEF RInv, PlacesRight, InTables
<1>8. /\ disk.manifest.last <= bg.edit.last /\ bg.edit.last <= versions.last
      /\ \A w \in InTables(bg.edit.add0 \union bg.edit.add1) : N[w] <= bg.edit.last
  <2>1. Editing
    BY DEF Editing
  <2> QED BY <2>1 DEF RInv, NumbersRight
<1>9. NumbersRight(N)'
  <2>1. \A w \in InManifest' : N[w] <= bg.edit.last
    <3>1. InTables(bg.edit.add0 \union bg.edit.add1) = InTables(bg.edit.add0) \union InTables(bg.edit.add1)
      BY JoinTables
    <3>2. InTables((disk.manifest.l0 \union disk.manifest.l1) \ bg.edit.gone) \subseteq InManifest
      BY SomeTables DEF InManifest
    <3>3. \A w \in InManifest : N[w] <= disk.manifest.last /\ w \in Writer
      <4>1. \A w \in InManifest : w \in Writer
        BY EntryWriters DEF InManifest, InTables, IInv, TablesRight
      <4> QED BY <4>1 DEF RInv, NumbersRight
    <3>4. \A w \in InManifest : N[w] <= bg.edit.last
      <4> SUFFICES ASSUME NEW w \in InManifest PROVE N[w] <= bg.edit.last
        OBVIOUS
      <4>1. N[w] \in Nat /\ N[w] <= disk.manifest.last
        BY <3>3
      <4> QED BY <1>5, <1>8, <4>1
    <3> QED BY <1>3, <1>8, <3>1, <3>2, <3>4
  <2>2. ASSUME Editing'
        PROVE  \A w \in InTables(bg.edit.add0 \union bg.edit.add1)' : N[w] <= bg'.edit.last
    <3>1. InTables(bg.edit.add0 \union bg.edit.add1)' = InTables(bg.edit.add0 \union bg.edit.add1)
      BY <1>3, <2>2 DEF InTables
    <3> QED BY <1>8, <2>2, <3>1
  <2>3. \A w \in InUse' \union DOMAIN mem' \union InImm' : N[w] <= versions'.last
    BY <1>4 DEF RInv, NumbersRight
  <2>4. disk'.manifest.last <= versions'.last /\ (Editing' => disk'.manifest.last <= bg'.edit.last /\ bg'.edit.last <= versions'.last)
    BY <1>3, <1>5, <1>8
  <2> QED BY <1>3, <1>4, <2>1, <2>2, <2>3, <2>4 DEF NumbersRight, Live
<1>10. LogKept(N)'
  <2>1. ASSUME NEW w \in InLog(logfile) PROVE w \in DOMAIN mem \/ w \in DOMAIN group.batch \/ Refused(N, w)'
    <3>1. ASSUME Refused(N, w) PROVE Refused(N, w)'
      <4>1. w \in Writer
        BY <1>5, EntryWriters
      <4> QED BY <1>1, <1>4, <3>1, <4>1 DEF Refused
    <3> QED BY <3>1 DEF RInv, LogKept
  <2>2. \A n \in LogsFrom(versions.log) :
          n <= logfile /\ (n < logfile => InLog(n) \subseteq InImm \union InManifest')
    BY <1>2 DEF RInv, LogKept, Renewed
  <2>3. versions.log <= disk'.manifest.log /\ disk'.manifest.log <= logfile
    BY <1>2, <1>5 DEF Renewed
  <2>4. InManifest' \subseteq InUse \union InImm
    BY <1>2 DEF RInv, LogKept, Renewed
  <2>5. versions.log < disk'.manifest.log => InImm \subseteq InManifest'
    BY <1>2, <1>5 DEF Renewed
  <2>6. /\ \A n \in LogsFrom(versions.log)' :
              n <= logfile' /\ (n < logfile' => InLog(n)' \subseteq InImm' \union InManifest')
        /\ \A w \in InLog(logfile)' : w \in DOMAIN mem' \/ w \in DOMAIN group'.batch \/ Refused(N, w)'
    BY <1>4, <2>1, <2>2
  <2> QED BY <1>4, <2>3, <2>4, <2>5, <2>6 DEF LogKept
<1>11. LastRight'
  BY <1>1, <1>3, <1>4, WritersAssumption DEF RInv, LastRight, Flawed
<1>12. RInv(N)'
  BY <1>1, <1>4, <1>6, <1>7, <1>9, <1>10, <1>11 DEF RInv, RecoveryKept
<1>13. \A n : InKept(n)' = InKept(n) /\ InFirm(n)' = InFirm(n)
  BY <1>3 DEF InKept, InFirm, Intact, Sound, Flawed
<1>14. \A n : InKept(n) \subseteq InLog(n) /\ InFirm(n) \subseteq InKept(n)
  BY DEF InKept, InFirm, InLog, Intact
<1>15. Seen' = Seen
  BY <1>4 DEF Seen, InMemory
<1>16. InManifest \subseteq InManifest'
  BY <1>2 DEF Renewed
<1>17. Firm \subseteq Firm' /\ Sure \subseteq Sure' /\ Sure' \subseteq Sure \union InManifest'
  <2>1. \A n \in LogsFrom(disk.manifest.log) :
          n \in LogsFrom(versions.log) /\ n <= logfile /\ (n < logfile => InLog(n) \subseteq InImm \union InManifest)
    BY <1>5 DEF LogsFrom, RInv, LogKept
  <2>2. CASE disk'.manifest.log = logfile /\ InImm \subseteq InManifest'
    <3>1. \A n \in LogsFrom(disk.manifest.log) : n = logfile \/ InLog(n) \subseteq InManifest'
      BY <1>5, <1>16, <2>1, <2>2 DEF LogsFrom
    <3>2. logfile \in LogsFrom(disk.manifest.log)' /\ LogsFrom(disk.manifest.log)' \subseteq LogsFrom(disk.manifest.log)
      BY <1>3, <1>5, <2>2 DEF LogsFrom
    <3>3. FirmLogs \subseteq FirmLogs' \union InManifest' /\ KeptLogs \subseteq KeptLogs' \union InManifest'
      <4>1. ASSUME NEW n \in LogsFrom(disk.manifest.log)
            PROVE  InFirm(n) \subseteq FirmLogs' \union InManifest' /\ InKept(n) \subseteq KeptLogs' \union InManifest'
        <5>1. CASE n = logfile
          BY <1>13, <3>2, <5>1 DEF FirmLogs, KeptLogs
        <5>2. CASE InLog(n) \subseteq InManifest'
          BY <1>14, <5>2
        <5> QED BY <3>1, <5>1, <5>2
      <4> QED BY <4>1 DEF FirmLogs, KeptLogs
    <3>4. KeptLogs' \subseteq KeptLogs
      BY <1>13, <3>2 DEF KeptLogs
    <3> QED BY <1>16, <3>3, <3>4 DEF Firm, Sure
  <2>3. CASE disk'.manifest.log = versions.log
    <3>1. LogsFrom(disk.manifest.log) \subseteq LogsFrom(disk.manifest.log)'
      BY <1>3, <1>5, <2>3 DEF LogsFrom
    <3>2. FirmLogs \subseteq FirmLogs' /\ KeptLogs \subseteq KeptLogs'
      BY <1>13, <3>1 DEF FirmLogs, KeptLogs
    <3>3. \A n \in LogsFrom(disk.manifest.log)' : n \in LogsFrom(disk.manifest.log) \/ InLog(n) \subseteq InManifest
      <4> SUFFICES ASSUME NEW n \in LogsFrom(disk.manifest.log)', n \notin LogsFrom(disk.manifest.log)
                   PROVE  InLog(n) \subseteq InManifest
        OBVIOUS
      <4>1. n \in LogsFrom(versions.log) /\ n < disk.manifest.log /\ n \in Nat /\ versions.log <= n
        BY <1>3, <1>5, <2>3 DEF LogsFrom
      <4>2. n < logfile /\ versions.log < disk.manifest.log
        BY <1>5, <4>1
      <4> QED BY <4>1, <4>2 DEF RInv, LogKept
    <3>4. KeptLogs' \subseteq KeptLogs \union InManifest
      <4>1. ASSUME NEW n \in LogsFrom(disk.manifest.log)' PROVE InKept(n)' \subseteq KeptLogs \union InManifest
        <5>1. CASE n \in LogsFrom(disk.manifest.log)
          BY <1>13, <5>1 DEF KeptLogs
        <5>2. CASE InLog(n) \subseteq InManifest
          BY <1>13, <1>14, <5>2
        <5> QED BY <3>3, <5>1, <5>2
      <4> QED BY <4>1 DEF KeptLogs
    <3> QED BY <1>16, <3>2, <3>4 DEF Firm, Sure
  <2> QED BY <1>2, <2>2, <2>3 DEF Renewed
<1>18. Store!DNext
  <2>1. Agreed(N) /\ \A v \in Seen : N[v] = N[v]
    BY DEF RInv
  <2>2. Firm \intersect Seen \subseteq Firm' /\ Sure \intersect Seen \subseteq Sure'
        /\ (Sure' \intersect Seen) \ Sure \subseteq Firm'
    BY <1>17 DEF Firm
  <2> QED BY <1>1, <1>6, <1>15, <2>1, <2>2, SettleStore
<1> QED BY <1>12, <1>18

(* The manifest is written for a flush or a merge. *)
LEMMA WriteManifestLiveR ==
  ASSUME IInv, IInv', NEW N \in [Writer -> Nat], RInv(N), WriteManifest, bg.flush = "write" \/ bg.merge = "write"
  PROVE  RInv(N)' /\ Store!DNext
<1>1. /\ disk' = [disk EXCEPT !.manifest = Written(@, bg.edit)]
      /\ bg' = [bg EXCEPT !.flush = IF @ = "write" THEN "install" ELSE @,
                          !.merge = IF @ = "write" THEN "install" ELSE @]
      /\ phase' = IF phase = "recovered" THEN "saved" ELSE phase
      /\ UNCHANGED <<pc, queue, group, mem, imm, logfile, versions, unread>>
  BY DEF WriteManifest
<1>2. ShapeOK /\ bg \in Calls /\ Live /\ phase' = phase
  BY <1>1, InCallFacts DEF IInv, ShapeOK, InCall, Live
<1>3. /\ bg'.error = bg.error /\ bg'.edit = bg.edit /\ bg'.inputs = bg.inputs /\ bg'.output = bg.output
      /\ bg'.flush = (IF bg.flush = "write" THEN "install" ELSE bg.flush)
      /\ bg'.merge = (IF bg.merge = "write" THEN "install" ELSE bg.merge)
      /\ bg'.table = bg.table
  BY <1>1, <1>2 DEF Calls
<1>4. /\ disk'.tables = disk.tables /\ disk'.manifest.log = bg.edit.log
      /\ disk'.manifest.l0 = (disk.manifest.l0 \ bg.edit.gone) \union bg.edit.add0
  BY <1>1, <1>2, ManifestFacts
<1>5. /\ InTables(bg.edit.add0)' = InTables(bg.edit.add0) /\ InTables(bg.edit.add1)' = InTables(bg.edit.add1)
      /\ InTables(bg.edit.gone)' = InTables(bg.edit.gone) /\ InTables({bg.output})' = InTables({bg.output})
      /\ InTables(bg.inputs)' = InTables(bg.inputs) /\ InImm' = InImm /\ Given' = Given /\ Tables' = Tables
      /\ Live' = Live
  BY <1>1, <1>2, <1>3, <1>4 DEF InTables, InImm, Given, Tables, Live
<1>6. bg.merge \in {"write", "install"} => bg.flush = "none"
  BY DEF IInv, WorkRight
<1>7. WorkKept'
  <2>1. /\ Live' => DOMAIN disk'.tables \subseteq Given'
        /\ bg'.flush = "build" => bg'.table \notin DOMAIN disk'.tables
    BY <1>3, <1>4, <1>5 DEF RInv, WorkKept
  <2>2. bg'.flush \in {"write", "install"} => bg'.edit.log = logfile' /\ InTables(bg.edit.add0)' = InImm'
    BY <1>1, <1>3, <1>5 DEF RInv, WorkKept
  <2>3. bg'.flush = "install" => bg'.edit.add0 \subseteq disk'.manifest.l0 /\ disk'.manifest.log = logfile'
    <3> SUFFICES ASSUME bg'.flush = "install"
                 PROVE  bg'.edit.add0 \subseteq disk'.manifest.l0 /\ disk'.manifest.log = logfile'
      OBVIOUS
    <3>1. bg.flush \in {"write", "install"}
      BY <1>3
    <3>2. bg.edit.log = logfile
      BY <3>1 DEF RInv, WorkKept
    <3> QED BY <1>1, <1>3, <1>4, <3>2
  <2>4. bg'.merge = "output" => InTables({bg.output})' = InTables(bg.inputs)'
    BY <1>3, <1>5 DEF RInv, WorkKept
  <2>5. bg'.merge \in {"write", "install"} =>
          /\ bg'.edit.add0 = {} /\ bg'.edit.gone \subseteq Tables' /\ bg'.edit.log = versions'.log
          /\ InTables(bg.edit.gone)' = InTables(bg.edit.add1)'
    BY <1>1, <1>3, <1>5 DEF RInv, WorkKept
  <2> QED BY <2>1, <2>2, <2>3, <2>4, <2>5 DEF WorkKept
<1>8. WakesOnly(pc')
  BY <1>1, <1>2, WokenFacts
<1> QED BY <1>1, <1>2, <1>3, <1>7, <1>8, ManifestR

(* It may be written all the same when the write fails. *)
LEMMA WriteManifestFailsR ==
  ASSUME IInv, IInv', NEW N \in [Writer -> Nat], RInv(N), WriteManifestFails
  PROVE  RInv(N)' /\ Store!DNext
<1>1. /\ bg.flush = "write" \/ bg.merge = "write"
      /\ disk' = disk \/ disk' = [disk EXCEPT !.manifest = Written(@, bg.edit)]
      /\ IF bg.flush = "write" THEN FlushFailed ELSE MergeFailed
      /\ UNCHANGED <<queue, group, mem, imm, logfile, versions, phase, unread>>
  BY DEF WriteManifestFails
<1>2. InCall
  BY <1>1 DEF InCall
<1>3. ShapeOK /\ Live /\ Live' /\ versions.next \in Nat
  BY <1>1, <1>2, InCallFacts DEF IInv, Live
<1>4. WakesOnly(pc') /\ bg'.error /\ Over
  BY <1>1, <1>2, FailedFacts
<1>5. disk'.tables = disk.tables
  BY <1>1, <1>3, ManifestFacts
<1>6. WorkKept' /\ ~Editing'
  <2>1. DOMAIN disk'.tables \subseteq Given'
    BY <1>1, <1>3, <1>5 DEF Given, RInv, WorkKept
  <2>2. versions'.next >= versions.next /\ versions'.next \in Nat
    BY <1>1, <1>3
  <2> QED BY <1>3, <1>4, <1>5, <2>1, <2>2, OverKept
<1>7. CASE disk' = disk
  <2>1. InTables(DOMAIN disk.tables)' = InTables(DOMAIN disk.tables)
    BY <1>7 DEF InTables
  <2> QED BY <1>1, <1>3, <1>4, <1>6, <1>7, <2>1, WorkStepR
<1>8. CASE disk' = [disk EXCEPT !.manifest = Written(@, bg.edit)]
  BY <1>1, <1>3, <1>4, <1>6, <1>8, ManifestR
<1> QED BY <1>1, <1>7, <1>8

(* The recovery writes the manifest: what the logs held is in tables now. *)
LEMMA WriteManifestSavedR ==
  ASSUME IInv, IInv', NEW N \in [Writer -> Nat], RInv(N), WriteManifest, phase = "recovered"
  PROVE  RInv(N)' /\ Store!DNext
<1>0. PICK e, g : e = bg.edit /\ g = disk.manifest.log
  OBVIOUS
<1>1. /\ disk' = [disk EXCEPT !.manifest = Written(@, bg.edit)]
      /\ bg' = [bg EXCEPT !.flush = IF @ = "write" THEN "install" ELSE @,
                          !.merge = IF @ = "write" THEN "install" ELSE @]
      /\ phase' = "saved"
      /\ UNCHANGED <<pc, queue, group, mem, imm, logfile, versions, unread>>
  BY DEF WriteManifest
<1>2. ShapeOK /\ bg \in Calls /\ ~Live /\ ~Live' /\ bg.flush = "none" /\ bg.merge = "none" /\ ~bg.error /\ Editing
  BY <1>1 DEF IInv, ShapeOK, CallsRight, InCall, Live, Editing
<1>3. bg'.error = bg.error /\ bg'.edit = e /\ bg'.flush = "none" /\ bg'.merge = "none"
  BY <1>0, <1>1, <1>2 DEF Calls
<1>4. /\ disk'.logs = disk.logs /\ disk'.tables = disk.tables
      /\ disk'.manifest.log = e.log /\ disk'.manifest.last = e.last
      /\ InManifest' = InTables((disk.manifest.l0 \union disk.manifest.l1) \ e.gone)
                         \union InTables(e.add0) \union InTables(e.add1)
  BY <1>0, <1>1, <1>2, ManifestFacts
<1>5. /\ e.add1 = {} /\ e.gone = {} /\ e.log = logfile /\ disk.logs[logfile] = <<>>
      /\ DOMAIN mem = {}
      /\ \A n \in LogsFrom(g) : n <= logfile
      /\ \A n \in LogsFrom(g) : \A i \in DOMAIN disk.logs[n] : ~Flawed(disk.logs[n][i])
      /\ InTables(e.add0) = UNION {InLog(n) : n \in LogsFrom(g)}
  BY <1>0, <1>2 DEF RInv, RecoveryKept, Live
<1>6. /\ g \in Nat /\ logfile \in Nat /\ g <= logfile /\ logfile \in DOMAIN disk.logs /\ DOMAIN disk.logs \subseteq Nat
      /\ disk.manifest.last \in Nat /\ versions.last \in Nat /\ e.last \in Nat
  <2>1. ~Ahead
    BY <1>1, <1>2 DEF Ahead, WriteManifest
  <2>2. disk.manifest.log = versions.log
    BY <1>2, <2>1 DEF IInv, ManifestRight
  <2> QED BY <1>0, <1>2, <2>2 DEF IInv, ShapeOK, DiskOK, Versions, LogsRight, Calls, Edits
<1>7. InManifest' = InManifest \union InTables(e.add0)
  <2>1. InTables({}) = {} /\ (disk.manifest.l0 \union disk.manifest.l1) \ {} = disk.manifest.l0 \union disk.manifest.l1
    BY DEF InTables
  <2> QED BY <1>4, <1>5, <2>1 DEF InManifest
<1>8. \A n \in LogsFrom(g) : InKept(n) = InLog(n)
  <2>1. \A n \in LogsFrom(g) : Intact(disk.logs[n]) = DOMAIN disk.logs[n]
    BY <1>5 DEF Intact, Sound
  <2> QED BY <2>1 DEF InKept, InLog
<1>9. Sure = InManifest'
  <2>1. KeptLogs = InTables(e.add0)
    BY <1>0, <1>5, <1>8 DEF KeptLogs
  <2> QED BY <1>7, <2>1 DEF Sure
<1>10. LogsFrom(disk.manifest.log)' = {logfile}
  <2>1. \A n \in DOMAIN disk.logs : n >= logfile => n = logfile
    BY <1>5, <1>6 DEF LogsFrom
  <2> QED BY <1>4, <1>5, <1>6, <2>1 DEF LogsFrom
<1>11. KeptLogs' = {}
  <2>1. InKept(logfile)' = {}
    BY <1>1, <1>4, <1>5 DEF InKept, Intact
  <2> QED BY <1>1, <1>10, <2>1 DEF KeptLogs
<1>12. Seen = Sure /\ Seen' = Sure' /\ Sure' = Sure /\ Sure \subseteq Firm'
  BY <1>2, <1>9, <1>11 DEF Seen, Sure, Firm
<1>13. Agreed(N)' /\ GroupRight(N)' /\ PlacesRight'
  <2>1. Agreed(N)'
    BY <1>1, <1>4 DEF RInv, Agreed
  <2>2. GroupRight(N)'
    BY <1>1 DEF RInv, GroupRight
  <2>3. PlacesRight'
    BY <1>1, <1>4 DEF RInv, PlacesRight, Early, InImm, InTables, InLog, Logging
  <2> QED BY <2>1, <2>2, <2>3
<1>14. NumbersRight(N)'
  <2>1. /\ disk.manifest.last <= e.last /\ e.last <= versions.last
        /\ \A w \in InTables(e.add0 \union e.add1) : N[w] <= e.last
        /\ \A w \in InTables(Tables \union e.add0) : N[w] <= versions.last
        /\ \A w \in InManifest : N[w] <= disk.manifest.last
    BY <1>0, <1>1, <1>2 DEF RInv, NumbersRight, WriteManifest
  <2>2. \A w \in InManifest' : N[w] <= e.last
    <3>1. InTables(e.add0) \subseteq InTables(e.add0 \union e.add1)
      BY SomeTables
    <3>2. \A w \in InManifest : w \in Writer
      BY EntryWriters DEF InManifest, InTables, IInv, TablesRight
    <3>3. \A w \in InManifest : N[w] <= e.last
      <4> SUFFICES ASSUME NEW w \in InManifest PROVE N[w] <= e.last
        OBVIOUS
      <4>1. N[w] \in Nat /\ N[w] <= disk.manifest.last
        BY <2>1, <3>2
      <4> QED BY <1>6, <2>1, <4>1
    <3> QED BY <1>7, <2>1, <3>1, <3>3
  <2>3. /\ InTables(Tables \union bg.edit.add0)' = InTables(Tables \union e.add0)
        /\ InTables(bg.edit.add0 \union bg.edit.add1)' = InTables(e.add0 \union e.add1)
    BY <1>1, <1>3, <1>4 DEF InTables, Tables
  <2>4. versions'.last = versions.last /\ disk'.manifest.last = e.last /\ bg'.edit.last = e.last
    BY <1>1, <1>3, <1>4
  <2>5. \A w \in InTables(Tables \union bg.edit.add0)' : N[w] <= versions'.last
    BY <2>1, <2>3, <2>4
  <2>6. \A w \in InTables(bg.edit.add0 \union bg.edit.add1)' : N[w] <= bg'.edit.last
    BY <2>1, <2>3, <2>4
  <2>7. \A w \in InManifest' : N[w] <= disk'.manifest.last
    BY <2>2, <2>4
  <2>8. disk'.manifest.last <= versions'.last /\ disk'.manifest.last <= bg'.edit.last /\ bg'.edit.last <= versions'.last
    BY <1>6, <2>1, <2>4
  <2> QED BY <1>2, <2>5, <2>6, <2>7, <2>8 DEF NumbersRight
<1>15. LogKept(N)' /\ LastRight' /\ WorkKept'
  BY <1>2, <1>3 DEF LogKept, LastRight, WorkKept
<1>16. RecoveryKept'
  <2>1. \A n \in LogsFrom(disk.manifest.log)' : n <= logfile' /\ \A i \in DOMAIN disk'.logs[n] : ~Flawed(disk'.logs[n][i])
    BY <1>1, <1>4, <1>5, <1>6, <1>10
  <2>2. /\ bg'.edit.add1 = {} /\ bg'.edit.gone = {} /\ bg'.edit.log = logfile'
        /\ disk'.logs[logfile'] = <<>> /\ DOMAIN mem' = {}
    BY <1>1, <1>3, <1>4, <1>5
  <2> QED BY <1>1, <2>1, <2>2 DEF RecoveryKept, Flawed
<1>17. RInv(N)'
  BY <1>13, <1>14, <1>15, <1>16 DEF RInv
<1>18. Store!DNext
  <2>1. answerBar' = answerBar
    BY <1>1 DEF answerBar
  <2>2. Agreed(N) /\ \A v \in Seen : N[v] = N[v]
    BY DEF RInv
  <2>3. Firm \intersect Seen \subseteq Firm' /\ Sure \intersect Seen \subseteq Sure'
        /\ (Sure' \intersect Seen) \ Sure \subseteq Firm' /\ Seen' = Seen
    BY <1>12
  <2> QED BY <1>13, <2>1, <2>2, <2>3, SettleStore
<1> QED BY <1>17, <1>18

(* The manifest is written, whoever asked. *)
LEMMA WriteManifestR ==
  ASSUME IInv, IInv', NEW N \in [Writer -> Nat], RInv(N), WriteManifest
  PROVE  RInv(N)' /\ Store!DNext
BY WriteManifestLiveR, WriteManifestSavedR DEF WriteManifest

-------------------------------------------------------------------------------
(* The end of a process. *)

(* ~DBImpl begins. *)
LEMMA CloseR ==
  ASSUME IInv, IInv', NEW N \in [Writer -> Nat], RInv(N), Close
  PROVE  RInv(N)' /\ Store!DNext
<1>1. /\ phase = "open" /\ phase' = "closing"
      /\ UNCHANGED <<pc, queue, group, mem, imm, logfile, versions, bg, disk, unread>>
  BY DEF Close
<1>2. Live /\ Live' /\ Tables' = Tables /\ Given' = Given /\ InImm' = InImm /\ (Editing' <=> Editing)
      /\ Busy' = Busy /\ Logging' = Logging /\ Early' = Early /\ InUse' = InUse /\ InManifest' = InManifest
      /\ LogsFrom(versions.log)' = LogsFrom(versions.log)
  BY <1>1 DEF Live, Tables, Given, InImm, Editing, Busy, Logging, Early, InUse, InTables, InManifest, LogsFrom
<1>3. \A n : InLog(n)' = InLog(n) /\ InKept(n)' = InKept(n) /\ InFirm(n)' = InFirm(n)
  BY <1>1 DEF InLog, InKept, InFirm, Intact, Sound, Flawed
<1>4. Agreed(N)' /\ GroupRight(N)' /\ PlacesRight'
  <2>1. Agreed(N)'
    BY <1>1 DEF RInv, Agreed
  <2>2. GroupRight(N)'
    BY <1>1 DEF RInv, GroupRight
  <2>3. PlacesRight'
    BY <1>1, <1>2, <1>3 DEF RInv, PlacesRight, InTables
  <2> QED BY <2>1, <2>2, <2>3
<1>5. NumbersRight(N)'
  <2>1. InTables(bg.edit.add0 \union bg.edit.add1)' = InTables(bg.edit.add0 \union bg.edit.add1)
    BY <1>1 DEF InTables
  <2> QED BY <1>1, <1>2, <2>1 DEF RInv, NumbersRight
<1>6. LogKept(N)' /\ LastRight' /\ RecoveryKept'
  <2>1. \A w : Refused(N, w) => Refused(N, w)'
    BY <1>1, <1>2 DEF Refused
  <2>2. InLog(logfile)' = InLog(logfile)
    BY <1>1 DEF InLog
  <2>3. LogKept(N)'
    BY <1>1, <1>2, <1>3, <2>1, <2>2 DEF RInv, LogKept
  <2>4. LastRight'
    BY <1>1, <1>2 DEF RInv, LastRight, Flawed
  <2> QED BY <1>2, <2>3, <2>4 DEF RecoveryKept
<1>7. WorkKept'
  <2>1. /\ InTables(bg.edit.add0)' = InTables(bg.edit.add0) /\ InTables(bg.edit.add1)' = InTables(bg.edit.add1)
        /\ InTables(bg.edit.gone)' = InTables(bg.edit.gone) /\ InTables({bg.output})' = InTables({bg.output})
        /\ InTables(bg.inputs)' = InTables(bg.inputs)
    BY <1>1 DEF InTables
  <2> QED BY <1>1, <1>2, <2>1 DEF RInv, WorkKept
<1>8. RInv(N)'
  BY <1>4, <1>5, <1>6, <1>7 DEF RInv
<1>9. Store!DNext
  <2>1. answerBar' = answerBar
    BY <1>1 DEF answerBar
  <2>2. Agreed(N) /\ \A v \in Seen : N[v] = N[v]
    BY DEF RInv
  <2>3. KeptLogs' = KeptLogs /\ FirmLogs' = FirmLogs
    BY <1>1, <1>3 DEF KeptLogs, FirmLogs, LogsFrom
  <2>4. Seen' = Seen /\ Sure' = Sure /\ Firm' = Firm
    BY <1>1, <1>2, <2>3 DEF Seen, InMemory, Sure, Firm
  <2>5. Firm \intersect Seen \subseteq Firm' /\ Sure \intersect Seen \subseteq Sure'
        /\ (Sure' \intersect Seen) \ Sure \subseteq Firm'
    BY <2>4
  <2> QED BY <1>4, <2>1, <2>2, <2>4, <2>5, SettleStore
<1> QED BY <1>8, <1>9

-------------------------------------------------------------------------------
(* The end of a process. *)

(* What is found of a log are some of its records, the synced ones among   *)
(* them; after the crash of the process, all that no flaw precedes.        *)
FoundIn(log, l, all) ==
  /\ DOMAIN l \subseteq DOMAIN log
  /\ \A i \in DOMAIN l : l[i].batch = log[i].batch /\ ~Flawed(l[i])
  /\ \A i \in Intact(log) : log[i].synced => i \in DOMAIN l /\ l[i].synced
  /\ all => Intact(log) \subseteq DOMAIN l

(* A reader finds the intact records, and no others than sound ones. *)
LEMMA ReadableFound ==
  ASSUME NEW log, NEW l \in Readable(log)
  PROVE  FoundIn(log, l, TRUE)
<1>1. PICK found \in {s \in SUBSET Sound(log) : Intact(log) \subseteq s} : l = [i \in found |-> log[i]]
  BY DEF Readable
<1>2. DOMAIN l = found /\ \A i \in found : l[i] = log[i]
  BY <1>1
<1>3. found \subseteq Sound(log) /\ Intact(log) \subseteq found
  OBVIOUS
<1>4. found \subseteq DOMAIN log /\ \A i \in found : ~Flawed(log[i])
  BY <1>3 DEF Sound
<1> QED BY <1>2, <1>3, <1>4 DEF FoundIn

(* After power loss it finds the intact ones that were synced. *)
LEMMA RemainsFound ==
  ASSUME NEW log, Maps(log, Records), NEW k \in Remains(log), NEW l \in Readable(k)
  PROVE  FoundIn(log, l, FALSE)
<1>1. PICK kept : /\ kept \subseteq DOMAIN log /\ \A i \in kept, j \in DOMAIN log : j <= i => j \in kept
                  /\ {i \in DOMAIN log : log[i].synced} \subseteq kept
                  /\ k = [i \in kept |-> [log[i] EXCEPT !.synced = TRUE]]
  BY DEF Remains
<1>2. \A i \in kept : k[i].batch = log[i].batch /\ k[i].synced /\ (Flawed(k[i]) <=> Flawed(log[i]))
  BY <1>1 DEF Maps, Records, Flawed
<1>3. DOMAIN k = kept
  BY <1>1
<1>4. FoundIn(k, l, TRUE)
  BY ReadableFound
<1>5. \A i \in Intact(log) : log[i].synced => i \in Intact(k)
  <2> SUFFICES ASSUME NEW i \in Intact(log), log[i].synced PROVE i \in Intact(k)
    OBVIOUS
  <2>1. i \in kept /\ \A j \in DOMAIN log : j <= i => ~Flawed(log[j])
    BY <1>1 DEF Intact, Sound
  <2>2. \A j \in kept : j <= i => ~Flawed(k[j])
    BY <1>1, <1>2, <2>1
  <2> QED BY <1>3, <2>1, <2>2 DEF Intact, Sound
<1>6. DOMAIN l \subseteq DOMAIN log /\ \A i \in DOMAIN l : l[i].batch = log[i].batch /\ ~Flawed(l[i])
  BY <1>1, <1>2, <1>3, <1>4 DEF FoundIn
<1>7. \A i \in Intact(log) : log[i].synced => i \in DOMAIN l /\ l[i].synced
  <2> SUFFICES ASSUME NEW i \in Intact(log), log[i].synced PROVE i \in DOMAIN l /\ l[i].synced
    OBVIOUS
  <2>1. i \in Intact(k)
    BY <1>5
  <2>2. k[i].synced
    BY <1>2, <1>3, <2>1 DEF Intact
  <2> QED BY <1>4, <2>1, <2>2 DEF FoundIn
<1> QED BY <1>6, <1>7 DEF FoundIn

(* The same of all logs to be read. *)
LEMMA SurviveFound ==
  ASSUME ShapeOK, NEW all \in BOOLEAN, IF all THEN ProcessEnds ELSE PowerFails
  PROVE  /\ disk'.tables = disk.tables /\ disk'.manifest = disk.manifest
         /\ DOMAIN disk'.logs = DOMAIN disk.logs
         /\ \A n \in DOMAIN disk.logs :
              IF n \in LogsFrom(disk.manifest.log) THEN FoundIn(disk.logs[n], disk'.logs[n], all)
              ELSE disk'.logs[n] = disk.logs[n]
<1>0. PICK outcomes : outcomes = IF all THEN [n \in ToRead |-> Readable(disk.logs[n])]
                                 ELSE [n \in ToRead |-> UNION {Readable(l) : l \in Remains(disk.logs[n])}]
  OBVIOUS
<1>1. Survive(outcomes)
  BY <1>0 DEF ProcessEnds, PowerFails
<1>2. DOMAIN outcomes = ToRead
  BY <1>0
<1>3. \A n \in ToRead : \A l \in outcomes[n] : FoundIn(disk.logs[n], l, all)
  <2> SUFFICES ASSUME NEW n \in ToRead, NEW l \in outcomes[n] PROVE FoundIn(disk.logs[n], l, all)
    OBVIOUS
  <2>1. Maps(disk.logs[n], Records)
    BY DEF ShapeOK, DiskOK, ToRead, LogsFrom
  <2>2. CASE all
    BY <1>0, <2>2, ReadableFound
  <2>3. CASE ~all
    <3>1. PICK k \in Remains(disk.logs[n]) : l \in Readable(k)
      BY <1>0, <2>3
    <3>2. FoundIn(disk.logs[n], l, FALSE)
      BY <2>1, <3>1, RemainsFound
    <3> QED BY <2>3, <3>2 DEF FoundIn
  <2> QED BY <2>2, <2>3
<1>4. PICK found : /\ DOMAIN found = DOMAIN outcomes /\ \A n \in DOMAIN outcomes : found[n] \in outcomes[n]
                   /\ disk' = [disk EXCEPT !.logs = [n \in DOMAIN @ |-> IF n \in DOMAIN found THEN found[n] ELSE @[n]]]
  BY <1>1 DEF Survive
<1>5. /\ disk'.tables = disk.tables /\ disk'.manifest = disk.manifest
      /\ disk'.logs = [n \in DOMAIN disk.logs |-> IF n \in DOMAIN found THEN found[n] ELSE disk.logs[n]]
  BY <1>4 DEF ShapeOK, DiskOK
<1>6. DOMAIN disk'.logs = DOMAIN disk.logs
      /\ \A n \in DOMAIN disk.logs : disk'.logs[n] = IF n \in ToRead THEN found[n] ELSE disk.logs[n]
  BY <1>2, <1>4, <1>5
<1>7. \A n \in DOMAIN disk.logs :
        IF n \in ToRead THEN FoundIn(disk.logs[n], disk'.logs[n], all) ELSE disk'.logs[n] = disk.logs[n]
  BY <1>2, <1>3, <1>4, <1>6
<1> QED BY <1>5, <1>6, <1>7 DEF ToRead

(* What a process that ends leaves on the disk. *)
Remaining(all) ==
  /\ disk'.tables = disk.tables /\ disk'.manifest = disk.manifest /\ DOMAIN disk'.logs = DOMAIN disk.logs
  /\ \A n \in DOMAIN disk.logs :
       IF n \in LogsFrom(disk.manifest.log) THEN FoundIn(disk.logs[n], disk'.logs[n], all)
       ELSE disk'.logs[n] = disk.logs[n]

(* What a process that ends forgets. *)
LEMMA ForgetFacts ==
  ASSUME Forget
  PROVE  /\ pc' = [w \in Writer |-> IF pc[w] \in Outside THEN pc[w] ELSE "gone"]
         /\ queue' = <<>> /\ group'.size = 0 /\ group'.batch = Nothing /\ mem' = Nothing /\ imm' = None
         /\ phase' = "down" /\ bg'.flush = "none" /\ bg'.merge = "none" /\ DOMAIN Nothing = {}
<1>1. /\ pc' = [w \in Writer |-> IF pc[w] \in Outside THEN pc[w] ELSE "gone"]
      /\ queue' = <<>> /\ group' = [size |-> 0, batch |-> Nothing] /\ mem' = Nothing /\ imm' = None
      /\ phase' = "down" /\ bg' = Idle
  BY DEF Forget, Outside
<1>2. bg'.flush = "none" /\ bg'.merge = "none"
  BY <1>1, IdleCall DEF IdleLike
<1>3. DOMAIN Nothing = {}
  BY DEF Nothing
<1> QED BY <1>1, <1>2, <1>3

(* What the logs hold then, and what they held. *)
LEMMA FoundEntries ==
  ASSUME IInv, NEW all \in BOOLEAN, Remaining(all)
  PROVE  /\ LogsFrom(disk.manifest.log)' = LogsFrom(disk.manifest.log)
         /\ InManifest' = InManifest
         /\ \A n \in DOMAIN disk.logs : InLog(n)' \subseteq InLog(n)
         /\ \A n \in LogsFrom(disk.manifest.log) :
              /\ InKept(n)' = InLog(n)' /\ InFirm(n) \subseteq InFirm(n)'
              /\ all => InKept(n) \subseteq InLog(n)'
              /\ \A i \in DOMAIN disk'.logs[n] : ~Flawed(disk'.logs[n][i])
         /\ Firm \subseteq Firm' /\ Firm' \subseteq Sure'
         /\ Sure' \subseteq InManifest \union UNION {InLog(n) : n \in LogsFrom(disk.manifest.log)}
         /\ all => Sure \subseteq Sure'
<1> DEFINE L == LogsFrom(disk.manifest.log)
<1>1. L' = L /\ L \subseteq DOMAIN disk.logs /\ InManifest' = InManifest
  BY DEF Remaining, LogsFrom, InManifest, InTables
<1>2. \A n \in L : FoundIn(disk.logs[n], disk'.logs[n], all)
  BY DEF Remaining, LogsFrom
<1>3. \A n \in L : /\ \A i \in DOMAIN disk'.logs[n] : /\ i \in DOMAIN disk.logs[n] /\ ~Flawed(disk'.logs[n][i])
                                                        /\ disk'.logs[n][i].batch = disk.logs[n][i].batch
                   /\ \A i \in Intact(disk.logs[n]) :
                        disk.logs[n][i].synced => i \in DOMAIN disk'.logs[n] /\ disk'.logs[n][i].synced
                   /\ all => Intact(disk.logs[n]) \subseteq DOMAIN disk'.logs[n]
  BY <1>2 DEF FoundIn
<1>4. \A n \in L : Intact(disk'.logs[n]) = DOMAIN disk'.logs[n]
  BY <1>3 DEF Intact, Sound
<1>5. \A n \in L : InLog(n)' \subseteq InLog(n)
  BY <1>3 DEF InLog
<1>6. \A n \in DOMAIN disk.logs : InLog(n)' \subseteq InLog(n)
  BY <1>5 DEF Remaining, InLog
<1>7. \A n \in L : InKept(n)' = InLog(n)'
  BY <1>4 DEF InKept, InLog
<1>8. \A n \in L : InFirm(n) \subseteq InFirm(n)'
  <2> SUFFICES ASSUME NEW n \in L, NEW w \in InFirm(n) PROVE w \in InFirm(n)'
    OBVIOUS
  <2>1. PICK i \in Intact(disk.logs[n]) : disk.logs[n][i].synced /\ w \in DOMAIN disk.logs[n][i].batch
    BY DEF InFirm
  <2>2. i \in Intact(disk'.logs[n]) /\ disk'.logs[n][i].synced /\ w \in DOMAIN disk'.logs[n][i].batch
    BY <1>3, <1>4, <2>1
  <2> QED BY <2>2 DEF InFirm
<1>9. ASSUME all PROVE \A n \in L : InKept(n) \subseteq InLog(n)'
  <2> SUFFICES ASSUME NEW n \in L, NEW w \in InKept(n) PROVE w \in InLog(n)'
    OBVIOUS
  <2>1. PICK i \in Intact(disk.logs[n]) : w \in DOMAIN disk.logs[n][i].batch
    BY DEF InKept
  <2>2. i \in DOMAIN disk'.logs[n] /\ w \in DOMAIN disk'.logs[n][i].batch
    BY <1>3, <1>9, <2>1
  <2> QED BY <2>2 DEF InLog
<1>10. \A n \in L : \A i \in DOMAIN disk'.logs[n] : ~Flawed(disk'.logs[n][i])
  BY <1>3
<1>11. Firm \subseteq Firm'
  <2>1. FirmLogs' = UNION {InFirm(n)' : n \in L}
    BY <1>1 DEF FirmLogs
  <2> QED BY <1>1, <1>8, <2>1 DEF Firm, FirmLogs
<1>12. KeptLogs' = UNION {InKept(n)' : n \in L}
  BY <1>1 DEF KeptLogs
<1>13. Firm' \subseteq Sure'
  BY DEF Firm, Sure, FirmLogs, KeptLogs, InFirm, InKept
<1>14. Sure' \subseteq InManifest \union UNION {InLog(n) : n \in L}
  BY <1>1, <1>5, <1>7, <1>12 DEF Sure
<1>15. ASSUME all PROVE Sure \subseteq Sure'
  BY <1>1, <1>7, <1>9, <1>12, <1>15 DEF Sure, KeptLogs
<1> QED BY <1>1, <1>6, <1>7, <1>8, <1>9, <1>10, <1>11, <1>13, <1>14, <1>15

(* Whom a restart may find although no reader saw him: he got no answer,   *)
(* or an error, and his place is behind all the others.                    *)
LEMMA LateFacts ==
  ASSUME IInv, NEW N \in [Writer -> Nat], RInv(N), phase # "down", NEW all \in BOOLEAN, Remaining(all),
         NEW v \in Sure', v \notin Seen
  PROVE  /\ v \in Writer \ Compact /\ answerBar[v] \in {"waiting", "error"}
         /\ \A w \in Seen : N[w] < N[v]
<1>1. PICK g : g = disk.manifest.log
  OBVIOUS
<1>2. v \in InManifest \/ \E n \in LogsFrom(g) : v \in InLog(n)
  BY <1>1, FoundEntries
<1>3. Live
  <2> SUFFICES ASSUME ~Live PROVE FALSE
    OBVIOUS
  <2>1. \A n \in LogsFrom(g) : \A i \in DOMAIN disk.logs[n] : ~Flawed(disk.logs[n][i])
    BY <1>1 DEF RInv, RecoveryKept
  <2>2. \A n \in LogsFrom(g) : Intact(disk.logs[n]) = DOMAIN disk.logs[n]
    BY <2>1 DEF Intact, Sound
  <2>3. \A n \in LogsFrom(g) : InKept(n) = InLog(n)
    BY <2>2 DEF InKept, InLog
  <2>4. v \in Sure
    BY <1>1, <1>2, <2>3 DEF Sure, KeptLogs
  <2> QED BY <2>4 DEF Seen
<1>4. Seen = InMemory /\ v \notin InUse \union InImm \union DOMAIN mem
  BY <1>3 DEF Seen, InMemory
<1>5. /\ versions.log \in Nat /\ g \in Nat /\ logfile \in Nat /\ DOMAIN disk.logs \subseteq Nat
      /\ versions.log <= g /\ g <= logfile /\ logfile \in DOMAIN disk.logs /\ versions.last \in Nat
  BY <1>1, <1>3 DEF IInv, ShapeOK, DiskOK, Versions, LogKept, RInv, LogsRight, Live
<1>6. v \notin InManifest
  BY <1>3, <1>4 DEF RInv, LogKept
<1>7. v \in InLog(logfile)
  <2>1. PICK n \in LogsFrom(g) : v \in InLog(n)
    BY <1>2, <1>6
  <2>2. n \in Nat /\ n \in LogsFrom(versions.log)
    BY <1>5 DEF LogsFrom
  <2>3. n <= logfile /\ (n < logfile => InLog(n) \subseteq InImm \union InManifest)
    BY <1>3, <2>2 DEF RInv, LogKept
  <2>4. ~(n < logfile)
    BY <1>4, <1>6, <2>1, <2>3
  <2>5. n = logfile
    BY <1>5, <2>2, <2>3, <2>4
  <2> QED BY <2>1, <2>5
<1>8. v \in Writer \ Compact
  BY <1>5, <1>7, EntryWriters
<1>9. v \in DOMAIN group.batch \/ Refused(N, v)
  BY <1>3, <1>4, <1>7 DEF RInv, LogKept
<1>10. CASE v \in DOMAIN group.batch
  <2>1. versions.last < N[v]
    BY <1>10 DEF RInv, GroupRight
  <2>2. PICK i \in 1..group.size : v = queue[i]
    BY <1>10 DEF RInv, GroupRight
  <2>3. i \in DOMAIN queue
    <3>1. group.size = 0 \/ group.size \in 1..Len(queue)
      BY DEF IInv, QueueRight
    <3>2. DOMAIN queue = 1..Len(queue) /\ Len(queue) \in Nat
      BY LenProperties DEF IInv, ShapeOK
    <3> QED BY <2>2, <3>1, <3>2
  <2>4. pc[v] \in Running \union {"parked"}
    BY <2>2, <2>3 DEF IInv, QueueRight
  <2>5. answerBar[v] = "waiting"
    BY <1>8, <2>4 DEF answerBar, Running, Writing
  <2>6. \A w \in InMemory : N[w] <= versions.last /\ w \in Writer
    <3>1. \A w \in InMemory : w \in Writer
      <4>1. Tables \subseteq DOMAIN disk.tables
        BY <1>3 DEF IInv, TablesRight, Live
      <4> QED BY <4>1, EntryWriters DEF InMemory, InUse, InTables
    <3> QED BY <1>3, <3>1 DEF RInv, NumbersRight, InMemory
  <2>7. \A w \in InMemory : N[w] < N[v]
    <3> SUFFICES ASSUME NEW w \in InMemory PROVE N[w] < N[v]
      OBVIOUS
    <3>1. N[w] \in Nat /\ N[v] \in Nat /\ N[w] <= versions.last
      BY <1>8, <2>6
    <3> QED BY <1>5, <2>1, <3>1
  <2> QED BY <1>4, <1>8, <2>5, <2>7
<1>11. CASE Refused(N, v)
  <2>1. pc[v] = "error" /\ \A w \in InMemory : N[w] < N[v]
    BY <1>11 DEF Refused, InMemory
  <2> QED BY <1>4, <1>8, <2>1 DEF answerBar
<1> QED BY <1>9, <1>10, <1>11

(* The invariant between two processes. *)
LEMMA GoneR ==
  ASSUME IInv, IInv', NEW N \in [Writer -> Nat], RInv(N), NEW all \in BOOLEAN, Remaining(all), Forget
  PROVE  RInv(N)'
<1>1. /\ pc' = [w \in Writer |-> IF pc[w] \in Outside THEN pc[w] ELSE "gone"]
      /\ queue' = <<>> /\ group'.size = 0 /\ group'.batch = Nothing /\ mem' = Nothing /\ imm' = None
      /\ phase' = "down" /\ bg'.flush = "none" /\ bg'.merge = "none" /\ DOMAIN Nothing = {}
  BY ForgetFacts
<1>2. /\ disk'.tables = disk.tables /\ disk'.manifest = disk.manifest /\ DOMAIN disk'.logs = DOMAIN disk.logs
      /\ \A n \in DOMAIN disk.logs : \A i \in DOMAIN disk'.logs[n] :
           i \in DOMAIN disk.logs[n] /\ disk'.logs[n][i].batch = disk.logs[n][i].batch
  BY DEF Remaining, FoundIn
<1>3. ~Live' /\ ~Editing'
  BY <1>1 DEF Live, Editing
<1>4. Agreed(N)'
  <2>1. Told(N, mem') /\ Told(N, group'.batch) /\ imm' = None
    BY <1>1 DEF Told
  <2>2. \A t \in DOMAIN disk'.tables : Told(N, disk'.tables[t])
    BY <1>2 DEF RInv, Agreed
  <2>3. \A n \in DOMAIN disk'.logs : \A i \in DOMAIN disk'.logs[n] : Told(N, disk'.logs[n][i].batch)
    BY <1>2 DEF RInv, Agreed
  <2> QED BY <2>1, <2>2, <2>3 DEF Agreed
<1>5. GroupRight(N)'
  <2>1. \A w \in Writer : pc'[w] \in Outside
    BY <1>1 DEF Outside
  <2>2. \A w \in Writer : pc'[w] \notin Writing /\ pc'[w] \notin {"await", "flushing"}
    BY <2>1 DEF Outside, Writing
  <2>3. DOMAIN group'.batch = {} /\ 1..group'.size = {}
    BY <1>1
  <2>4. {queue'[i] : i \in 1..group'.size} = {}
    BY <2>3
  <2> QED BY <2>2, <2>3, <2>4 DEF GroupRight
<1>6. PlacesRight'
  <2>1. \A w \in Early' : w \in Writer /\ pc[w] = "idle" /\ w \in Early
    BY <1>1 DEF Early, Outside, Running, Writing
  <2>2. \A w \in Early' : w \notin DOMAIN mem' \union InImm' \union InTables(DOMAIN disk.tables)'
    <3>1. InTables(DOMAIN disk.tables)' = InTables(DOMAIN disk.tables)
      BY <1>2 DEF InTables
    <3>2. InImm' = {} /\ DOMAIN mem' = {}
      BY <1>1 DEF InImm
    <3> QED BY <2>1, <3>1, <3>2 DEF RInv, PlacesRight
  <2>3. \A w \in Early', n \in DOMAIN disk.logs : w \notin InLog(n)'
    <3> SUFFICES ASSUME NEW w \in Early', NEW n \in DOMAIN disk.logs, w \in InLog(n)' PROVE FALSE
      OBVIOUS
    <3>1. w \in InLog(n)
      BY FoundEntries
    <3>2. w \in DOMAIN group.batch
      BY <2>1, <3>1 DEF RInv, PlacesRight
    <3>3. PICK i \in 1..group.size : w = queue[i]
      BY <3>2 DEF RInv, GroupRight
    <3>4. i \in DOMAIN queue
      <4>1. group.size = 0 \/ group.size \in 1..Len(queue)
        BY DEF IInv, QueueRight
      <4>2. DOMAIN queue = 1..Len(queue) /\ Len(queue) \in Nat
        BY LenProperties DEF IInv, ShapeOK
      <4> QED BY <3>3, <4>1, <4>2
    <3>5. pc[w] \in Running \union {"parked"}
      BY <3>3, <3>4 DEF IInv, QueueRight
    <3> QED BY <2>1, <3>5 DEF Running, Writing
  <2> QED BY <1>2, <2>2, <2>3 DEF PlacesRight
<1>7. NumbersRight(N)'
  <2>1. InManifest' = InManifest
    BY FoundEntries
  <2> QED BY <1>1, <1>2, <1>3, <2>1 DEF RInv, NumbersRight
<1>8. LogKept(N)' /\ LastRight' /\ WorkKept'
  BY <1>1, <1>3 DEF LogKept, LastRight, WorkKept
<1>9. RecoveryKept'
  <2>1. \A n \in LogsFrom(disk.manifest.log)' : \A i \in DOMAIN disk'.logs[n] : ~Flawed(disk'.logs[n][i])
    BY FoundEntries
  <2>2. DOMAIN mem' = {}
    BY <1>1
  <2> QED BY <1>1, <2>1, <2>2 DEF RecoveryKept, Flawed
<1> QED BY <1>4, <1>5, <1>6, <1>7, <1>8, <1>9 DEF RInv

(* The store between two processes: what is lost was exposed, or not durable. *)
LEMMA GoneStore ==
  ASSUME IInv, IInv', NEW N \in [Writer -> Nat], RInv(N), RInv(N)', phase # "down",
         NEW all \in BOOLEAN, Remaining(all), Forget
  PROVE  IF all THEN Store!ProcessCrash ELSE Store!PowerLoss
<1>1. PICK old, new, gone, late : /\ old = Seen /\ new = Seen' /\ gone = old \ new /\ late = new \ old
  OBVIOUS
<1>2. storeBar = NumbersOf(N, Seen) /\ DOMAIN storeBar = Seen /\ Safe = Sure /\ durableBar = Seen \intersect Firm
  BY StoreFacts DEF RInv
<1>3. storeBar' = NumbersOf(N, Seen') /\ DOMAIN storeBar' = Seen' /\ Safe' = Sure' /\ durableBar' = Seen' \intersect Firm'
  <2>1. StoreIs'
    BY StoreAlways, PTL
  <2> QED BY <2>1 DEF StoreIs, RInv
<1>4. Seen' = Sure'
  BY ForgetFacts DEF Seen, Live
<1>5. Firm \subseteq Firm' /\ Firm' \subseteq Sure' /\ (all => Sure \subseteq Sure')
  BY FoundEntries
<1>6. late \subseteq Writer \ Compact /\ late \intersect old = {}
      /\ \A v \in late : answerBar[v] \in {"waiting", "error"} /\ \A w \in old : N[w] < N[v]
  BY <1>1, <1>4, LateFacts
<1>7. DOMAIN storeBar' = (old \ gone) \union late
  BY <1>1, <1>3
<1>8. \A w \in old : storeBar[w] = N[w]
  BY <1>1, <1>2 DEF NumbersOf
<1>9. \A w \in new : storeBar'[w] = N[w]
  BY <1>1, <1>3 DEF NumbersOf
<1>10. \A w \in old \ gone : storeBar'[w] = storeBar[w]
  BY <1>1, <1>8, <1>9
<1>11. \A w \in old \ gone, v \in late : storeBar[w] < storeBar'[v]
  BY <1>1, <1>6, <1>8, <1>9
<1>12. answerBar' = [w \in Writer \ Compact |-> IF answerBar[w] = "waiting" THEN "lost" ELSE answerBar[w]]
  <2>1. \A w \in Writer : pc'[w] = IF pc[w] \in Outside THEN pc[w] ELSE "gone"
    BY ForgetFacts
  <2>2. \A w \in Writer \ Compact : answerBar'[w] = IF answerBar[w] = "waiting" THEN "lost" ELSE answerBar[w]
    BY <2>1 DEF answerBar, Outside
  <2>3. answerBar' = [w \in Writer \ Compact |-> answerBar'[w]]
    BY DEF answerBar
  <2> HIDE DEF answerBar
  <2> QED BY <2>2, <2>3
<1>13. durableBar \subseteq old \ gone /\ durableBar \subseteq durableBar' /\ durableBar' \subseteq DOMAIN storeBar'
  BY <1>1, <1>2, <1>3, <1>4, <1>5
<1>14. DOMAIN storeBar' \ Safe' = {}
  BY <1>3, <1>4
<1>15. Store!Crash(old \ gone, late)
  <2>1. late \subseteq (Writer \ Compact) \ DOMAIN storeBar /\ old \ gone \subseteq DOMAIN storeBar
    BY <1>1, <1>2, <1>6
  <2> QED BY <1>6, <1>7, <1>10, <1>11, <1>12, <1>13, <1>14, <2>1 DEF Store!Crash, Store!Stored
<1>16. CASE all
  <2>1. gone \subseteq DOMAIN storeBar \ Safe
    BY <1>1, <1>2, <1>4, <1>5, <1>16
  <2>2. Store!ProcessCrash
    BY <1>1, <1>2, <1>6, <1>15, <2>1 DEF Store!ProcessCrash, Store!Stored
  <2> QED BY <1>16, <2>2
<1>17. CASE ~all
  <2>1. old \ gone \subseteq DOMAIN storeBar
    BY <1>1, <1>2
  <2>2. Store!PowerLoss
    BY <1>6, <1>15, <2>1 DEF Store!PowerLoss, Store!Stored
  <2> QED BY <1>17, <2>2
<1> QED BY <1>16, <1>17

(* A process ends, well or not. *)
LEMMA EndR ==
  ASSUME IInv, IInv', NEW N \in [Writer -> Nat], RInv(N), Closed \/ Crash
  PROVE  RInv(N)' /\ Store!DNext
<1>1. (ProcessEnds \/ PowerFails) /\ Forget /\ phase # "down"
  BY DEF Closed, Crash
<1>2. PICK all \in BOOLEAN : IF all THEN ProcessEnds ELSE PowerFails
  BY <1>1
<1>3. Remaining(all)
  BY <1>2, SurviveFound DEF Remaining, IInv
<1>4. RInv(N)'
  BY <1>1, <1>3, GoneR
<1>5. IF all THEN Store!ProcessCrash ELSE Store!PowerLoss
  BY <1>1, <1>3, <1>4, GoneStore
<1> QED BY <1>4, <1>5 DEF Store!DNext

-------------------------------------------------------------------------------
(* The recovery. *)

(* While the database is closed, nobody is in it. *)
LEMMA NobodyIn ==
  ASSUME IInv, NEW N, RInv(N), ~Live
  PROVE  /\ DOMAIN group.batch = {} /\ group.size = 0 /\ imm = None /\ InImm = {} /\ DOMAIN mem = {}
         /\ bg.flush = "none" /\ bg.merge = "none" /\ ~bg.error
         /\ \A w \in Writer : pc[w] \in Outside
         /\ \A w \in Early, n \in DOMAIN disk.logs : w \notin InLog(n)
         /\ bg \in Calls /\ bg.edit \in Edits /\ versions \in Versions /\ disk.manifest \in Versions
<1>1. \A w \in Writer : pc[w] \in Outside
  BY DEF IInv, QueueRight, Live
<1>2. group.size = 0
  BY <1>1 DEF IInv, QueueRight, Outside, Writing
<1>3. DOMAIN group.batch = {}
  <2>1. 1..0 = {}
    OBVIOUS
  <2> QED BY <1>2, <2>1 DEF RInv, GroupRight
<1>4. \A w \in Early, n \in DOMAIN disk.logs : w \notin InLog(n)
  BY <1>3 DEF RInv, PlacesRight
<1>5. imm = None /\ InImm = {} /\ bg.flush = "none" /\ bg.merge = "none" /\ ~bg.error
  BY DEF IInv, CallsRight, InCall, Live, InImm
<1>6. DOMAIN mem = {}
  BY DEF RInv, RecoveryKept
<1>7. bg \in Calls /\ bg.edit \in Edits /\ versions \in Versions /\ disk.manifest \in Versions
  BY DEF IInv, ShapeOK, DiskOK, Calls
<1> QED BY <1>1, <1>2, <1>3, <1>4, <1>5, <1>6, <1>7

(* A step of the recovery: what a restart would find stays the same. *)
LEMMA RecoveryStepR ==
  ASSUME IInv, IInv', NEW N \in [Writer -> Nat], RInv(N), ~Live, ~Live',
         UNCHANGED <<pc, queue, group, mem, imm>>, bg'.flush = "none", bg'.merge = "none",
         Agreed(N)', NumbersRight(N)', RecoveryKept', InManifest' = InManifest,
         KeptLogs' = KeptLogs, FirmLogs' = FirmLogs,
         \A w \in Early : w \notin InTables(DOMAIN disk.tables)' /\ \A n \in DOMAIN disk'.logs : w \notin InLog(n)'
  PROVE  RInv(N)' /\ Store!DNext
<1>1. /\ DOMAIN group.batch = {} /\ group.size = 0 /\ InImm = {} /\ DOMAIN mem = {}
      /\ \A w \in Writer : pc[w] \in Outside
  BY NobodyIn
<1>2. GroupRight(N)'
  <2>1. \A w \in Writer : pc'[w] \notin Writing /\ pc'[w] \notin {"await", "flushing"}
    BY <1>1 DEF Outside, Writing
  <2>2. DOMAIN group'.batch = {} /\ 1..group'.size = {}
    BY <1>1
  <2>3. {queue'[i] : i \in 1..group'.size} = {}
    BY <2>2
  <2> QED BY <2>1, <2>2, <2>3 DEF GroupRight
<1>3. PlacesRight'
  <2>1. Early' = Early /\ InImm' = {} /\ DOMAIN mem' = {}
    BY <1>1 DEF Early, InImm
  <2> QED BY <2>1 DEF PlacesRight
<1>4. LogKept(N)' /\ LastRight' /\ WorkKept'
  BY DEF LogKept, LastRight, WorkKept
<1>5. RInv(N)'
  BY <1>2, <1>3, <1>4 DEF RInv
<1>6. Seen' = Seen /\ Sure' = Sure /\ Firm' = Firm
  BY DEF Seen, Sure, Firm
<1>7. answerBar' = answerBar
  BY DEF answerBar
<1>8. Store!DNext
  <2>1. Agreed(N) /\ \A v \in Seen : N[v] = N[v]
    BY DEF RInv
  <2>2. Firm \intersect Seen \subseteq Firm' /\ Sure \intersect Seen \subseteq Sure'
        /\ (Sure' \intersect Seen) \ Sure \subseteq Firm'
    BY <1>6
  <2> QED BY <1>6, <1>7, <2>1, <2>2, SettleStore
<1> QED BY <1>5, <1>8

(* The manifest is read. *)
LEMMA RecoverR ==
  ASSUME IInv, IInv', NEW N \in [Writer -> Nat], RInv(N), Recover
  PROVE  RInv(N)' /\ Store!DNext
<1>0. PICK e, m : e = Edit({}, {}, {}, versions'.log, versions') /\ m = disk.manifest
  OBVIOUS
<1>1. /\ phase = "down" /\ phase' = "recovering" /\ versions' = [m EXCEPT !.next = @ + 1]
      /\ bg' = [bg EXCEPT !.edit = e] /\ unread' = LogsFrom(m.log)
      /\ UNCHANGED <<pc, queue, group, mem, imm, logfile, disk>>
  BY <1>0 DEF Recover, ToRead
<1>2. ~Live /\ ~Live'
  BY <1>1 DEF Live
<1>3. bg.flush = "none" /\ bg.merge = "none" /\ bg \in Calls /\ m \in Versions /\ DOMAIN mem = {}
  BY <1>0, <1>2, NobodyIn
<1>4. versions'.last = m.last /\ versions'.l0 = m.l0 /\ versions'.l1 = m.l1 /\ versions'.log \in Nat /\ versions' \in Versions
  BY <1>1, <1>3 DEF Versions
<1>5. e \in Edits /\ e.add0 = {}
  <2>1. {} \in SUBSET Nat
    OBVIOUS
  <2> QED BY <1>0, <1>4, <2>1, EditShape
<1>6. bg'.flush = "none" /\ bg'.merge = "none" /\ bg'.edit.add0 = {}
  BY <1>1, <1>3, <1>5 DEF Calls
<1>7. Agreed(N)' /\ InManifest' = InManifest /\ \A ts : InTables(ts)' = InTables(ts)
  BY <1>1 DEF RInv, Agreed, InManifest, InTables
<1>8. NumbersRight(N)'
  <2>1. InTables(Tables \union bg.edit.add0)' = InManifest
    BY <1>0, <1>1, <1>4, <1>6 DEF InTables, InManifest, Tables
  <2>2. \A w \in InManifest : N[w] <= m.last
    BY <1>0 DEF RInv, NumbersRight
  <2>3. ~Editing' /\ m.last <= m.last
    BY <1>1, <1>3, <1>6 DEF Editing, Versions
  <2>4. \A w \in InTables(Tables \union bg.edit.add0)' : N[w] <= versions'.last
    BY <1>4, <2>1, <2>2
  <2>5. disk'.manifest.last = m.last
    BY <1>0, <1>1
  <2>6. (\A w \in InManifest' : N[w] <= disk'.manifest.last) /\ disk'.manifest.last <= versions'.last
    BY <1>4, <1>7, <2>2, <2>3, <2>5
  <2> QED BY <1>2, <2>3, <2>4, <2>6 DEF NumbersRight
<1>9. RecoveryKept'
  <2>1. LogsFrom(disk.manifest.log)' \ unread' = {}
    BY <1>0, <1>1 DEF LogsFrom
  <2>2. InTables(bg.edit.add0)' = {}
    BY <1>6 DEF InTables
  <2>3. LogsFrom(disk.manifest.log)' = LogsFrom(disk.manifest.log)
    BY <1>1 DEF LogsFrom
  <2>4. \A n \in LogsFrom(disk.manifest.log) : \A i \in DOMAIN disk.logs[n] : ~Flawed(disk.logs[n][i])
    BY <1>2 DEF RInv, RecoveryKept
  <2>5. \A n \in LogsFrom(disk.manifest.log)' : \A i \in DOMAIN disk'.logs[n] : ~Flawed(disk'.logs[n][i])
    BY <1>1, <2>3, <2>4
  <2>6. UNION {InLog(n)' : n \in LogsFrom(disk.manifest.log)' \ unread'} = {}
    BY <2>1
  <2> QED BY <1>1, <1>3, <2>2, <2>5, <2>6 DEF RecoveryKept, Flawed
<1>10. KeptLogs' = KeptLogs /\ FirmLogs' = FirmLogs
  BY <1>1 DEF KeptLogs, FirmLogs, InKept, InFirm, Intact, Sound, Flawed, LogsFrom
<1>11. \A w \in Early : w \notin InTables(DOMAIN disk.tables)' /\ \A n \in DOMAIN disk'.logs : w \notin InLog(n)'
  <2>1. \A w \in Early, n \in DOMAIN disk.logs : w \notin InLog(n)
    BY <1>2, NobodyIn
  <2>2. \A w \in Early : w \notin InTables(DOMAIN disk.tables)
    BY DEF RInv, PlacesRight
  <2>3. InTables(DOMAIN disk.tables)' = InTables(DOMAIN disk.tables) /\ \A n : InLog(n)' = InLog(n)
    BY <1>1 DEF InTables, InLog
  <2> QED BY <1>1, <2>1, <2>2, <2>3
<1> QED BY <1>1, <1>2, <1>6, <1>7, <1>8, <1>9, <1>10, <1>11, RecoveryStepR

(* What a log holds, all records together. *)
LEMMA LogFound ==
  ASSUME NEW N, Agreed(N), NEW n \in DOMAIN disk.logs
  PROVE  LET found == Entries({disk.logs[n][i].batch : i \in DOMAIN disk.logs[n]})
         IN Told(N, found) /\ DOMAIN found = InLog(n)
<1> DEFINE fs == {disk.logs[n][i].batch : i \in DOMAIN disk.logs[n]}
<1>1. \A f \in fs : Told(N, f)
  BY DEF Agreed
<1>2. UNION {DOMAIN f : f \in fs} = InLog(n)
  BY DEF InLog
<1> HIDE DEF fs
<1>3. Entries(fs) = NumbersOf(N, InLog(n))
  BY <1>1, <1>2, EntriesTold
<1>4. Told(N, Entries(fs)) /\ DOMAIN Entries(fs) = InLog(n)
  BY <1>3, NumbersTold
<1> QED BY <1>4 DEF fs

(* A log is replayed: what it holds is in a new table, if there is any. *)
Replayed(N, n, new) ==
  /\ disk'.logs = disk.logs /\ disk'.manifest = disk.manifest
  /\ DOMAIN disk'.tables = DOMAIN disk.tables \union new
  /\ \A u \in DOMAIN disk.tables \ new : disk'.tables[u] = disk.tables[u]
  /\ \A u \in new : Told(N, disk'.tables[u])
  /\ UNION {DOMAIN disk'.tables[u] : u \in new} = InLog(n)
  /\ bg'.edit.add0 = bg.edit.add0 \union new
  /\ bg'.flush = "none" /\ bg'.merge = "none"
  /\ versions'.l0 = versions.l0 /\ versions'.l1 = versions.l1
  /\ versions'.last \in Nat /\ versions'.last >= versions.last
  /\ \A w \in InLog(n) : N[w] <= versions'.last

(* A log with no record in it. *)
LEMMA NothingReplayed ==
  ASSUME IInv, NEW N \in [Writer -> Nat], RInv(N), NEW n \in unread, RecoverLogFile(n), InLog(n) = {}
  PROVE  Replayed(N, n, {})
<1>1. PICK found : found = Entries({disk.logs[n][i].batch : i \in DOMAIN disk.logs[n]})
  OBVIOUS
<1>2. n \in DOMAIN disk.logs /\ phase = "recovering" /\ ~Live
  BY DEF IInv, ShapeOK, RecoverLogFile, Live
<1>3. DOMAIN found = {}
  BY <1>1, <1>2, LogFound DEF RInv
<1>4. found = Nothing
  <2>1. found = [w \in DOMAIN found |-> found[w]]
    BY <1>1 DEF Entries
  <2>2. [w \in {} |-> found[w]] = [w \in {} |-> 0]
    OBVIOUS
  <2> QED BY <1>3, <2>1, <2>2 DEF Nothing
<1>5. PICK k : versions' = [versions EXCEPT !.next = k] /\ bg' = bg /\ disk' = disk
  BY <1>1, <1>4 DEF RecoverLogFile
<1>6. /\ bg.flush = "none" /\ bg.merge = "none" /\ versions \in Versions /\ bg.edit \in Edits /\ versions.last \in Nat
  BY <1>2, NobodyIn DEF Versions
<1>7. versions'.last = versions.last /\ versions'.l0 = versions.l0 /\ versions'.l1 = versions.l1
  BY <1>5, <1>6 DEF Versions
<1>8. versions'.last >= versions.last
  BY <1>6, <1>7
<1> QED BY <1>5, <1>6, <1>7, <1>8 DEF Replayed

(* A log that becomes a table. *)
LEMMA SomeReplayed ==
  ASSUME IInv, NEW N \in [Writer -> Nat], RInv(N), NEW n \in unread, RecoverLogFile(n), InLog(n) # {}
  PROVE  Replayed(N, n, {versions.next})
<1>1. PICK found, t : found = Entries({disk.logs[n][i].batch : i \in DOMAIN disk.logs[n]}) /\ t = versions.next
  OBVIOUS
<1>2. n \in DOMAIN disk.logs /\ phase = "recovering" /\ ~Live /\ ShapeOK
  BY DEF IInv, ShapeOK, RecoverLogFile, Live
<1>3. DOMAIN found = InLog(n) /\ Told(N, found)
  BY <1>1, <1>2, LogFound DEF RInv
<1>4. found # Nothing /\ found \in Batches
  <2>1. {disk.logs[n][i].batch : i \in DOMAIN disk.logs[n]} \in SUBSET Batches
    BY <1>2 DEF ShapeOK, DiskOK, Maps, Records
  <2>2. found \in Batches
    BY <1>1, <2>1, EntriesBatch
  <2>3. DOMAIN Nothing = {}
    BY DEF Nothing
  <2> QED BY <1>3, <2>2, <2>3
<1>5. PICK k, m : /\ disk' = [disk EXCEPT !.tables = [u \in DOMAIN @ \union {t} |-> IF u = t THEN found ELSE @[u]]]
                  /\ bg' = [bg EXCEPT !.edit.add0 = @ \union {t}]
                  /\ versions' = [versions EXCEPT !.next = k, !.last = m]
                  /\ m = Max({versions.last} \union Seqs(found))
  BY <1>1, <1>4 DEF RecoverLogFile
<1>6. /\ bg.flush = "none" /\ bg.merge = "none" /\ bg \in Calls /\ bg.edit \in Edits
      /\ versions \in Versions /\ versions.last \in Nat
  BY <1>2, NobodyIn DEF Versions
<1>7. m \in Nat /\ m >= versions.last /\ \A w \in DOMAIN found : found[w] <= m
  BY <1>4, <1>5, <1>6, MaxNumber
<1>8. versions'.last = m /\ versions'.l0 = versions.l0 /\ versions'.l1 = versions.l1
  BY <1>5, <1>6 DEF Versions
<1>9. bg'.flush = "none" /\ bg'.merge = "none" /\ bg'.edit.add0 = bg.edit.add0 \union {t}
  BY <1>5, <1>6 DEF Calls, Edits
<1>10. /\ disk'.logs = disk.logs /\ disk'.manifest = disk.manifest
       /\ disk'.tables = [u \in DOMAIN disk.tables \union {t} |-> IF u = t THEN found ELSE disk.tables[u]]
  BY <1>2, <1>5 DEF ShapeOK, DiskOK
<1>11. /\ DOMAIN disk'.tables = DOMAIN disk.tables \union {t} /\ disk'.tables[t] = found
       /\ \A u \in DOMAIN disk.tables \ {t} : disk'.tables[u] = disk.tables[u]
  BY <1>10
<1>12. UNION {DOMAIN disk'.tables[u] : u \in {t}} = InLog(n)
  BY <1>3, <1>11
<1>13. \A w \in InLog(n) : N[w] <= versions'.last
  BY <1>3, <1>7, <1>8 DEF Told
<1>14. Replayed(N, n, {t})
  BY <1>3, <1>7, <1>8, <1>9, <1>10, <1>11, <1>12, <1>13 DEF Replayed
<1> QED BY <1>1, <1>14

(* A log is replayed: the new table holds what the log held. *)
LEMMA RecoverLogFileR ==
  ASSUME IInv, IInv', NEW N \in [Writer -> Nat], RInv(N), NEW n \in unread, RecoverLogFile(n)
  PROVE  RInv(N)' /\ Store!DNext
<1>1. PICK new \in SUBSET {versions.next} : Replayed(N, n, new)
  BY NothingReplayed, SomeReplayed
<1>2. /\ phase = "recovering" /\ phase' = "recovering" /\ unread' = unread \ {n}
      /\ UNCHANGED <<pc, queue, group, mem, imm, logfile>> /\ ~Live /\ ~Live'
  BY DEF RecoverLogFile, Live
<1>3. /\ disk'.logs = disk.logs /\ disk'.manifest = disk.manifest
      /\ DOMAIN disk'.tables = DOMAIN disk.tables \union new
      /\ \A u \in DOMAIN disk.tables \ new : disk'.tables[u] = disk.tables[u]
      /\ \A u \in new : Told(N, disk'.tables[u])
      /\ UNION {DOMAIN disk'.tables[u] : u \in new} = InLog(n)
      /\ bg'.edit.add0 = bg.edit.add0 \union new
      /\ bg'.flush = "none" /\ bg'.merge = "none"
      /\ versions'.l0 = versions.l0 /\ versions'.l1 = versions.l1
      /\ versions'.last \in Nat /\ versions'.last >= versions.last
      /\ \A w \in InLog(n) : N[w] <= versions'.last
  BY <1>1 DEF Replayed
<1>4. /\ versions.next \in Nat /\ versions.last \in Nat /\ disk.manifest.last \in Nat /\ disk.manifest.next \in Nat
      /\ disk.manifest.next <= versions.next
      /\ disk.manifest.l0 \union disk.manifest.l1 \subseteq 1..(disk.manifest.next - 1)
      /\ disk.manifest.l0 \union disk.manifest.l1 \subseteq DOMAIN disk.tables
      /\ Tables \subseteq DOMAIN disk.tables \intersect Given
      /\ bg.edit.add0 \subseteq DOMAIN disk.tables \intersect Given
  BY <1>2, NobodyIn DEF Versions, IInv, TablesRight, EditRight
<1>5. /\ (disk.manifest.l0 \union disk.manifest.l1) \intersect new = {}
      /\ Tables \intersect new = {} /\ bg.edit.add0 \intersect new = {}
  <2>1. versions.next \notin Given /\ versions.next \notin 1..(disk.manifest.next - 1)
    BY <1>4 DEF Given
  <2> QED BY <1>4, <2>1
<1>6. \A ts : ts \subseteq DOMAIN disk.tables /\ ts \intersect new = {} => InTables(ts)' = InTables(ts)
  <2> SUFFICES ASSUME NEW ts, ts \subseteq DOMAIN disk.tables \ new PROVE InTables(ts)' = InTables(ts)
    OBVIOUS
  <2>1. \A u \in ts : u \in DOMAIN disk.tables /\ disk'.tables[u] = disk.tables[u]
    BY <1>3
  <2>2. {DOMAIN disk'.tables[u] : u \in ts} = {DOMAIN disk.tables[u] : u \in ts}
    BY <2>1
  <2> QED BY <2>2 DEF InTables
<1>7. InManifest' = InManifest
  <2>1. InTables(disk.manifest.l0 \union disk.manifest.l1)' = InTables(disk.manifest.l0 \union disk.manifest.l1)
    <3>1. UNION {DOMAIN disk'.tables[t] : t \in disk.manifest.l0 \union disk.manifest.l1}
            = UNION {DOMAIN disk.tables[t] : t \in disk.manifest.l0 \union disk.manifest.l1}
      <4>1. \A t \in disk.manifest.l0 \union disk.manifest.l1 : disk'.tables[t] = disk.tables[t]
        BY <1>3, <1>4, <1>5
      <4> QED BY <4>1
    <3> QED BY <1>3, <3>1 DEF InTables
  <2> QED BY <2>1 DEF InManifest
<1>8. PICK old, add : old = Tables \union bg.edit.add0 /\ add = bg.edit.add0
  OBVIOUS
<1>9. /\ UNION {DOMAIN disk'.tables[t] : t \in old} = InTables(Tables \union bg.edit.add0)
      /\ UNION {DOMAIN disk'.tables[t] : t \in add} = InTables(bg.edit.add0)
  <2>1. \A t \in old : disk'.tables[t] = disk.tables[t]
    BY <1>3, <1>4, <1>5, <1>8
  <2>2. {DOMAIN disk'.tables[t] : t \in old} = {DOMAIN disk.tables[t] : t \in old}
        /\ {DOMAIN disk'.tables[t] : t \in add} = {DOMAIN disk.tables[t] : t \in add}
    BY <1>8, <2>1
  <2> QED BY <1>8, <2>2 DEF InTables
<1>10. /\ InTables(Tables \union bg.edit.add0)' = InTables(Tables \union bg.edit.add0) \union InLog(n)
       /\ InTables(bg.edit.add0)' = InTables(bg.edit.add0) \union InLog(n)
  <2>1. Tables' = Tables
    BY <1>3 DEF Tables
  <2>2. (Tables \union bg.edit.add0)' = old \union new /\ bg'.edit.add0 = add \union new
    BY <1>3, <1>8, <2>1
  <2> DEFINE in(S) == UNION {DOMAIN disk'.tables[u] : u \in S}
  <2>3. ASSUME NEW S, NEW T PROVE in(S \union T) = in(S) \union in(T)
    <3>1. ASSUME NEW w PROVE w \in in(S \union T) <=> w \in in(S) \/ w \in in(T)
      <4>1. \A U : w \in in(U) <=> \E u \in U : w \in DOMAIN disk'.tables[u]
        OBVIOUS
      <4> HIDE DEF in
      <4>2. (\E u \in S \union T : w \in DOMAIN disk'.tables[u])
              <=> \/ \E u \in S : w \in DOMAIN disk'.tables[u]
                  \/ \E u \in T : w \in DOMAIN disk'.tables[u]
        OBVIOUS
      <4> QED BY <4>1, <4>2
    <3> HIDE DEF in
    <3> QED BY <3>1
  <2>4. InTables(Tables \union bg.edit.add0)' = in(old \union new)
    BY <2>2 DEF InTables
  <2>5. InTables(bg.edit.add0)' = in(add \union new)
    BY <2>2 DEF InTables
  <2>6. /\ in(old) = InTables(Tables \union bg.edit.add0) /\ in(add) = InTables(bg.edit.add0)
        /\ in(new) = InLog(n)
    BY <1>3, <1>9
  <2> HIDE DEF in
  <2> QED BY <2>3, <2>4, <2>5, <2>6
<1>11. Agreed(N)'
  <2>1. \A t \in DOMAIN disk'.tables : Told(N, disk'.tables[t])
    BY <1>3 DEF RInv, Agreed
  <2>2. \A m \in DOMAIN disk'.logs : \A i \in DOMAIN disk'.logs[m] : Told(N, disk'.logs[m][i].batch)
    BY <1>3 DEF RInv, Agreed
  <2> QED BY <1>2, <2>1, <2>2 DEF RInv, Agreed
<1>12. NumbersRight(N)'
  <2>1. /\ \A w \in InTables(Tables \union bg.edit.add0) : N[w] <= versions.last
        /\ \A w \in InManifest : N[w] <= disk.manifest.last
        /\ disk.manifest.last <= versions.last
    BY <1>2 DEF RInv, NumbersRight
  <2>2. \A w \in InTables(Tables \union bg.edit.add0) : w \in Writer
    <3>1. \A t \in DOMAIN disk.tables : DOMAIN disk.tables[t] \subseteq Writer
      BY BatchShape DEF IInv, ShapeOK, DiskOK, Maps
    <3> QED BY <1>4, <3>1 DEF InTables
  <2>3. \A w \in InTables(Tables \union bg.edit.add0) : N[w] <= versions'.last
    <3> SUFFICES ASSUME NEW w \in InTables(Tables \union bg.edit.add0) PROVE N[w] <= versions'.last
      OBVIOUS
    <3>1. N[w] \in Nat /\ N[w] <= versions.last
      BY <2>1, <2>2
    <3> QED BY <1>3, <1>4, <3>1
  <2>4. \A w \in InTables(Tables \union bg.edit.add0)' : N[w] <= versions'.last
    BY <1>3, <1>10, <2>3
  <2>5. disk'.manifest.last = disk.manifest.last /\ disk.manifest.last <= versions'.last
    BY <1>3, <1>4, <2>1
  <2>6. ~Editing'
    BY <1>2, <1>3 DEF Editing
  <2>7. \A w \in InManifest' : N[w] <= disk'.manifest.last
    BY <1>7, <2>1, <2>5
  <2> QED BY <1>2, <2>4, <2>5, <2>6, <2>7 DEF NumbersRight
<1>13. LogsFrom(disk.manifest.log)' = LogsFrom(disk.manifest.log) /\ \A m : InLog(m)' = InLog(m)
  BY <1>3 DEF LogsFrom, InLog
<1>14. n \in LogsFrom(disk.manifest.log)
  <2>1. ~bg.error /\ ~Ahead
    BY <1>2, NobodyIn DEF Ahead
  <2>2. disk.manifest.log = versions.log
    BY <1>2, <2>1 DEF IInv, ManifestRight
  <2>3. unread \subseteq LogsFrom(versions.log)
    BY <1>2 DEF IInv, LogsRight
  <2> QED BY <2>2, <2>3
<1>15. RecoveryKept'
  <2>1. PICK L : L = LogsFrom(disk.manifest.log)
    OBVIOUS
  <2>2. InTables(bg.edit.add0) = UNION {InLog(m) : m \in L \ unread}
    BY <1>2, <2>1 DEF RInv, RecoveryKept
  <2>3. L \ unread' = (L \ unread) \union {n}
    BY <1>2, <1>14, <2>1
  <2>4. InTables(bg.edit.add0)' = UNION {InLog(m) : m \in L \ unread'}
    <3> DEFINE before == UNION {InLog(m) : m \in L \ unread}
               all == UNION {InLog(m) : m \in L \ unread'}
    <3>1. ASSUME NEW w PROVE w \in all <=> w \in before \/ w \in InLog(n)
      <4>1. w \in all <=> \E m \in L \ unread' : w \in InLog(m)
        OBVIOUS
      <4>2. w \in before <=> \E m \in L \ unread : w \in InLog(m)
        OBVIOUS
      <4> HIDE DEF all, before
      <4> QED BY <2>3, <4>1, <4>2
    <3> HIDE DEF all, before
    <3>2. all = before \union InLog(n)
      BY <3>1
    <3>3. InTables(bg.edit.add0) = before
      BY <2>2 DEF before
    <3> QED BY <1>10, <3>2, <3>3 DEF all
  <2>5. UNION {InLog(m)' : m \in LogsFrom(disk.manifest.log)' \ unread'} = UNION {InLog(m) : m \in L \ unread'}
    BY <1>13, <2>1
  <2>6. InTables(bg.edit.add0)' = UNION {InLog(m)' : m \in LogsFrom(disk.manifest.log)' \ unread'}
    BY <2>4, <2>5
  <2>7. \A m \in L : \A i \in DOMAIN disk.logs[m] : ~Flawed(disk.logs[m][i])
    BY <1>2, <2>1 DEF RInv, RecoveryKept
  <2>8. \A m \in LogsFrom(disk.manifest.log)' : \A i \in DOMAIN disk'.logs[m] : ~Flawed(disk'.logs[m][i])
    BY <1>3, <1>13, <2>1, <2>7
  <2>9. DOMAIN mem' = {}
    BY <1>2, NobodyIn
  <2> QED BY <1>2, <2>6, <2>8, <2>9 DEF RecoveryKept, Flawed
<1>16. KeptLogs' = KeptLogs /\ FirmLogs' = FirmLogs
  BY <1>3 DEF KeptLogs, FirmLogs, InKept, InFirm, Intact, Sound, Flawed, LogsFrom
<1>17. \A w \in Early : w \notin InTables(DOMAIN disk.tables)' /\ \A m \in DOMAIN disk'.logs : w \notin InLog(m)'
  <2>1. \A w \in Early, m \in DOMAIN disk.logs : w \notin InLog(m)
    BY <1>2, NobodyIn
  <2>2. \A w \in Early : w \notin InTables(DOMAIN disk.tables)
    BY DEF RInv, PlacesRight
  <2>3. n \in DOMAIN disk.logs
    BY <1>14 DEF LogsFrom
  <2>4. \A w \in InTables(DOMAIN disk.tables)' : w \in InTables(DOMAIN disk.tables) \/ w \in InLog(n)
    <3> SUFFICES ASSUME NEW w \in InTables(DOMAIN disk.tables)' PROVE w \in InTables(DOMAIN disk.tables) \/ w \in InLog(n)
      OBVIOUS
    <3>1. PICK t \in DOMAIN disk'.tables : w \in DOMAIN disk'.tables[t]
      BY DEF InTables
    <3>2. CASE t \in new
      BY <1>3, <3>1, <3>2
    <3>3. CASE t \notin new
      <4>1. t \in DOMAIN disk.tables /\ disk'.tables[t] = disk.tables[t]
        BY <1>3, <3>3
      <4> QED BY <3>1, <4>1 DEF InTables
    <3> QED BY <3>2, <3>3
  <2> QED BY <1>3, <1>13, <2>1, <2>2, <2>3, <2>4
<1> QED BY <1>2, <1>3, <1>7, <1>11, <1>12, <1>15, <1>16, <1>17, RecoveryStepR

(* A union of one more, of which nothing comes. *)
LEMMA OneMore ==
  ASSUME NEW D, NEW k, NEW x, NEW y, \A n \in D : y[n] = x[n], y[k] = {}
  PROVE  UNION {y[n] : n \in D \union {k}} = UNION {x[n] : n \in D}
<1> DEFINE all == UNION {y[n] : n \in D \union {k}}
           old == UNION {x[n] : n \in D}
<1>1. ASSUME NEW w PROVE w \in all <=> w \in old
  <2>1. w \in all <=> \E n \in D \union {k} : w \in y[n]
    OBVIOUS
  <2>2. w \in old <=> \E n \in D : w \in x[n]
    OBVIOUS
  <2> HIDE DEF all, old
  <2> QED BY <2>1, <2>2
<1> HIDE DEF all, old
<1>2. all = old
  BY <1>1
<1> QED BY <1>2 DEF all, old

(* A log is made, and nothing is in it. *)
LEMMA EmptyLog ==
  ASSUME NEW k, k \notin DOMAIN disk.logs, k >= disk.manifest.log, disk'.manifest = disk.manifest,
         disk'.logs = [m \in DOMAIN disk.logs \union {k} |-> IF m = k THEN <<>> ELSE disk.logs[m]]
  PROVE  /\ DOMAIN disk'.logs = DOMAIN disk.logs \union {k} /\ disk'.logs[k] = <<>>
         /\ \A m \in DOMAIN disk.logs : disk'.logs[m] = disk.logs[m] /\ InLog(m)' = InLog(m)
         /\ LogsFrom(disk.manifest.log)' = LogsFrom(disk.manifest.log) \union {k} /\ InLog(k)' = {}
         /\ KeptLogs' = KeptLogs /\ FirmLogs' = FirmLogs
         /\ UNION {InLog(m)' : m \in LogsFrom(disk.manifest.log)'} = UNION {InLog(m) : m \in LogsFrom(disk.manifest.log)}
<1>1. /\ DOMAIN disk'.logs = DOMAIN disk.logs \union {k} /\ disk'.logs[k] = <<>>
      /\ \A m \in DOMAIN disk.logs : disk'.logs[m] = disk.logs[m]
  OBVIOUS
<1>2. PICK L : L = LogsFrom(disk.manifest.log)
  OBVIOUS
<1>3. L \subseteq DOMAIN disk.logs /\ LogsFrom(disk.manifest.log)' = L \union {k}
  BY <1>1, <1>2 DEF LogsFrom
<1>4. ASSUME NEW m \in DOMAIN disk.logs
      PROVE  InLog(m)' = InLog(m) /\ InKept(m)' = InKept(m) /\ InFirm(m)' = InFirm(m)
  <2>1. disk'.logs[m] = disk.logs[m]
    BY <1>1
  <2>2. InLog(m)' = InLog(m)
    BY <2>1 DEF InLog
  <2>3. PICK log : log = disk.logs[m]
    OBVIOUS
  <2>4. Intact(disk.logs[m])' = Intact(log) /\ Intact(disk.logs[m]) = Intact(log)
    <3>1. Intact(disk.logs[m])' = Intact(disk'.logs[m])
      BY DEF Intact, Sound, Flawed
    <3> QED BY <2>1, <2>3, <3>1
  <2>5. InKept(m) = UNION {DOMAIN log[i].batch : i \in Intact(log)}
    BY <2>3, <2>4 DEF InKept
  <2>6. InKept(m)' = UNION {DOMAIN log[i].batch : i \in Intact(log)}
    BY <2>1, <2>3, <2>4 DEF InKept
  <2>7. InFirm(m) = UNION {DOMAIN log[i].batch : i \in {j \in Intact(log) : log[j].synced}}
    BY <2>3, <2>4 DEF InFirm
  <2>8. InFirm(m)' = UNION {DOMAIN log[i].batch : i \in {j \in Intact(log) : log[j].synced}}
    BY <2>1, <2>3, <2>4 DEF InFirm
  <2> QED BY <2>2, <2>5, <2>6, <2>7, <2>8
<1>5. DOMAIN disk'.logs[k] = {}
  BY <1>1
<1>6. InLog(k)' = {} /\ InKept(k)' = {} /\ InFirm(k)' = {}
  BY <1>5 DEF InLog, InKept, InFirm, Intact
<1>7. KeptLogs' = KeptLogs
  <2> DEFINE x == [m \in L |-> InKept(m)]
             y == [m \in L \union {k} |-> InKept(m)']
  <2>1. \A m \in L : x[m] = InKept(m) /\ y[m] = InKept(m)' /\ y[m] = x[m]
    BY <1>3, <1>4
  <2>2. y[k] = {}
    BY <1>6
  <2>3. \A m \in L \union {k} : y[m] = InKept(m)'
    OBVIOUS
  <2> HIDE DEF x, y
  <2>4. UNION {y[m] : m \in L \union {k}} = UNION {x[m] : m \in L}
    BY <2>1, <2>2, OneMore
  <2>5. {y[m] : m \in L \union {k}} = {InKept(m)' : m \in L \union {k}} /\ {x[m] : m \in L} = {InKept(m) : m \in L}
    BY <2>1, <2>3
  <2> QED BY <1>2, <1>3, <2>4, <2>5 DEF KeptLogs
<1>8. FirmLogs' = FirmLogs
  <2> DEFINE x == [m \in L |-> InFirm(m)]
             y == [m \in L \union {k} |-> InFirm(m)']
  <2>1. \A m \in L : x[m] = InFirm(m) /\ y[m] = InFirm(m)' /\ y[m] = x[m]
    BY <1>3, <1>4
  <2>2. y[k] = {}
    BY <1>6
  <2>3. \A m \in L \union {k} : y[m] = InFirm(m)'
    OBVIOUS
  <2> HIDE DEF x, y
  <2>4. UNION {y[m] : m \in L \union {k}} = UNION {x[m] : m \in L}
    BY <2>1, <2>2, OneMore
  <2>5. {y[m] : m \in L \union {k}} = {InFirm(m)' : m \in L \union {k}} /\ {x[m] : m \in L} = {InFirm(m) : m \in L}
    BY <2>1, <2>3
  <2> QED BY <1>2, <1>3, <2>4, <2>5 DEF FirmLogs
<1>9. UNION {InLog(m)' : m \in LogsFrom(disk.manifest.log)'} = UNION {InLog(m) : m \in LogsFrom(disk.manifest.log)}
  <2> DEFINE x == [m \in L |-> InLog(m)]
             y == [m \in L \union {k} |-> InLog(m)']
  <2>1. \A m \in L : x[m] = InLog(m) /\ y[m] = InLog(m)' /\ y[m] = x[m]
    BY <1>3, <1>4
  <2>2. y[k] = {}
    BY <1>6
  <2>3. \A m \in L \union {k} : y[m] = InLog(m)'
    OBVIOUS
  <2> HIDE DEF x, y
  <2>4. UNION {y[m] : m \in L \union {k}} = UNION {x[m] : m \in L}
    BY <2>1, <2>2, OneMore
  <2>5. {y[m] : m \in L \union {k}} = {InLog(m)' : m \in L \union {k}} /\ {x[m] : m \in L} = {InLog(m) : m \in L}
    BY <2>1, <2>3
  <2> QED BY <1>2, <1>3, <2>4, <2>5
<1> QED BY <1>1, <1>2, <1>3, <1>4, <1>6, <1>7, <1>8, <1>9

(* All logs are replayed, and there is a new one. *)
LEMMA RecoveredR ==
  ASSUME IInv, IInv', NEW N \in [Writer -> Nat], RInv(N), Recovered
  PROVE  RInv(N)' /\ Store!DNext
<1>1. PICK k, e : k = versions.next /\ e = Edit(bg.edit.add0, {}, {}, k, versions')
  OBVIOUS
<1>2. /\ phase = "recovering" /\ unread = {} /\ phase' = "recovered" /\ logfile' = k
      /\ versions' = [versions EXCEPT !.next = @ + 1]
      /\ disk' = [disk EXCEPT !.logs = [m \in DOMAIN @ \union {k} |-> IF m = k THEN <<>> ELSE @[m]]]
      /\ UNCHANGED <<pc, queue, group, mem, imm, unread>> /\ ~Live /\ ~Live'
  BY <1>1 DEF Recovered, Live
<1>3. /\ ShapeOK /\ versions \in Versions /\ bg \in Calls /\ bg.edit \in Edits /\ k \in Nat /\ versions.log \in Nat
      /\ versions.last \in Nat /\ DOMAIN mem = {}
      /\ bg.flush = "none" /\ bg.merge = "none" /\ ~bg.error /\ disk.manifest.last \in Nat
  BY <1>1, <1>2, NobodyIn DEF Versions, IInv
<1>4. bg' = [bg EXCEPT !.edit = e]
  BY <1>1, <1>3 DEF Recovered, Calls
<1>5. /\ versions'.last = versions.last /\ versions'.l0 = versions.l0 /\ versions'.l1 = versions.l1
      /\ versions' \in Versions
  <2>1. versions.next + 1 \in Nat
    BY <1>1, <1>3
  <2> QED BY <1>2, <1>3, <2>1 DEF Versions
<1>6. /\ e \in Edits /\ e.add0 = bg.edit.add0 /\ e.add1 = {} /\ e.gone = {} /\ e.log = k /\ e.last = versions.last
  <2>1. bg.edit.add0 \in SUBSET Nat /\ {} \in SUBSET Nat
    BY <1>3 DEF Edits
  <2>2. LET f == Edit(bg.edit.add0, {}, {}, k, versions')
        IN /\ f \in Edits /\ f.add0 = bg.edit.add0 /\ f.add1 = {} /\ f.gone = {} /\ f.log = k
           /\ f.next = versions'.next /\ f.last = versions'.last
    BY <1>3, <1>5, <2>1, EditShape
  <2> QED BY <1>1, <1>5, <2>2
<1>7. bg'.flush = "none" /\ bg'.merge = "none" /\ bg'.edit = e
  BY <1>3, <1>4 DEF Calls
<1>8. /\ disk'.tables = disk.tables /\ disk'.manifest = disk.manifest
      /\ disk'.logs = [m \in DOMAIN disk.logs \union {k} |-> IF m = k THEN <<>> ELSE disk.logs[m]]
  BY <1>2, <1>3 DEF ShapeOK, DiskOK
<1>9. disk.manifest.log = versions.log
  BY <1>2, <1>3 DEF IInv, ManifestRight, Ahead
<1>10. /\ versions.log < k /\ LogsFrom(versions.log) \subseteq 0..(k - 1)
       /\ k \notin DOMAIN disk.logs /\ k >= disk.manifest.log
  <2>1. versions.log < k /\ LogsFrom(versions.log) \subseteq 0..(k - 1)
    BY <1>1, <1>2 DEF IInv, LogsRight
  <2>2. k \notin 0..(k - 1) /\ k >= versions.log
    BY <1>3, <2>1
  <2>3. k \notin LogsFrom(versions.log)
    BY <2>1, <2>2
  <2> QED BY <1>9, <2>1, <2>2, <2>3 DEF LogsFrom
<1>11. /\ DOMAIN disk'.logs = DOMAIN disk.logs \union {k} /\ disk'.logs[k] = <<>>
       /\ \A m \in DOMAIN disk.logs : disk'.logs[m] = disk.logs[m] /\ InLog(m)' = InLog(m)
       /\ LogsFrom(disk.manifest.log)' = LogsFrom(disk.manifest.log) \union {k} /\ InLog(k)' = {}
       /\ KeptLogs' = KeptLogs /\ FirmLogs' = FirmLogs
       /\ UNION {InLog(m)' : m \in LogsFrom(disk.manifest.log)'} = UNION {InLog(m) : m \in LogsFrom(disk.manifest.log)}
  BY <1>8, <1>10, EmptyLog
<1>12. DOMAIN disk'.logs[k] = {}
  BY <1>11
<1>13. InManifest' = InManifest /\ \A ts : InTables(ts)' = InTables(ts)
  BY <1>8 DEF InManifest, InTables
<1>14. Agreed(N)'
  <2>1. \A t \in DOMAIN disk'.tables : Told(N, disk'.tables[t])
    BY <1>8 DEF RInv, Agreed
  <2>2. \A m \in DOMAIN disk'.logs : \A i \in DOMAIN disk'.logs[m] : Told(N, disk'.logs[m][i].batch)
    BY <1>11, <1>12 DEF RInv, Agreed
  <2> QED BY <1>2, <2>1, <2>2 DEF RInv, Agreed
<1>15. NumbersRight(N)'
  <2>1. /\ \A w \in InTables(Tables \union bg.edit.add0) : N[w] <= versions.last
        /\ \A w \in InManifest : N[w] <= disk.manifest.last
        /\ disk.manifest.last <= versions.last
    BY <1>2 DEF RInv, NumbersRight
  <2>2. Tables' = Tables
    BY <1>5 DEF Tables
  <2>3. InTables(Tables \union bg.edit.add0)' = InTables(Tables \union bg.edit.add0)
    BY <1>6, <1>7, <1>8, <2>2 DEF InTables
  <2>4. InTables(bg.edit.add0 \union bg.edit.add1)' = InTables(bg.edit.add0)
    <3>1. bg'.edit.add0 \union bg'.edit.add1 = bg.edit.add0
      BY <1>6, <1>7
    <3> QED BY <1>8, <3>1 DEF InTables
  <2>5. InTables(bg.edit.add0) \subseteq InTables(Tables \union bg.edit.add0)
    BY SomeTables
  <2>6. disk'.manifest.last = disk.manifest.last /\ bg'.edit.last = versions.last /\ versions.last <= versions'.last
    BY <1>3, <1>5, <1>6, <1>7, <1>8
  <2>7. \A w \in InTables(Tables \union bg.edit.add0)' : N[w] <= versions'.last
    BY <1>5, <2>1, <2>3
  <2>8. \A w \in InManifest' : N[w] <= disk'.manifest.last
    BY <1>13, <2>1, <2>6
  <2>9. \A w \in InTables(bg.edit.add0 \union bg.edit.add1)' : N[w] <= bg'.edit.last
    BY <2>1, <2>4, <2>5, <2>6
  <2>10. disk'.manifest.last <= bg'.edit.last /\ bg'.edit.last <= versions'.last /\ disk'.manifest.last <= versions'.last
    BY <1>5, <2>1, <2>6
  <2> QED BY <1>2, <2>7, <2>8, <2>9, <2>10 DEF NumbersRight
<1>16. RecoveryKept'
  <2>1. InTables(bg.edit.add0) = UNION {InLog(m) : m \in LogsFrom(disk.manifest.log)}
    <3>1. LogsFrom(disk.manifest.log) \ unread = LogsFrom(disk.manifest.log)
      BY <1>2
    <3> QED BY <1>2, <3>1 DEF RInv, RecoveryKept
  <2>2. InTables(bg.edit.add0)' = InTables(bg.edit.add0)
    BY <1>6, <1>7, <1>8 DEF InTables
  <2>3. InTables(bg.edit.add0)' = UNION {InLog(m)' : m \in LogsFrom(disk.manifest.log)'}
    BY <1>11, <2>1, <2>2
  <2>4. \A m \in LogsFrom(disk.manifest.log) : \A i \in DOMAIN disk.logs[m] : ~Flawed(disk.logs[m][i])
    BY <1>2 DEF RInv, RecoveryKept
  <2>5. \A m \in LogsFrom(disk.manifest.log)' : \A i \in DOMAIN disk'.logs[m] : ~Flawed(disk'.logs[m][i])
    <3>1. LogsFrom(disk.manifest.log) \subseteq DOMAIN disk.logs
      BY DEF LogsFrom
    <3> QED BY <1>11, <1>12, <2>4, <3>1
  <2>6. \A m \in LogsFrom(disk.manifest.log)' : m <= logfile'
    <3>1. \A m \in 0..(k - 1) \union {k} : m <= k
      BY <1>3
    <3> QED BY <1>2, <1>9, <1>10, <1>11, <3>1
  <2>7. DOMAIN mem' = {}
    BY <1>2, <1>3
  <2>8. bg'.edit.add1 = {} /\ bg'.edit.gone = {} /\ bg'.edit.log = logfile' /\ disk'.logs[logfile'] = <<>>
    BY <1>2, <1>6, <1>7, <1>11
  <2> QED BY <1>2, <2>3, <2>5, <2>6, <2>7, <2>8 DEF RecoveryKept, Flawed
<1>17. \A w \in Early : w \notin InTables(DOMAIN disk.tables)' /\ \A m \in DOMAIN disk'.logs : w \notin InLog(m)'
  <2>1. \A w \in Early, m \in DOMAIN disk.logs : w \notin InLog(m)
    BY <1>2, NobodyIn
  <2>2. \A w \in Early : w \notin InTables(DOMAIN disk.tables)
    BY DEF RInv, PlacesRight
  <2>3. InTables(DOMAIN disk.tables)' = InTables(DOMAIN disk.tables)
    BY <1>8 DEF InTables
  <2> QED BY <1>11, <2>1, <2>2, <2>3
<1> QED BY <1>2, <1>7, <1>11, <1>13, <1>14, <1>15, <1>16, <1>17, RecoveryStepR

(* Where the only log to be read is empty, nothing is in the logs. *)
OnlyEmpty == \A n \in LogsFrom(disk.manifest.log) : n = logfile /\ DOMAIN disk.logs[n] = {}

EmptyMeans == OnlyEmpty => KeptLogs = {} /\ FirmLogs = {}

(* Of both states of a step. *)
LEMMA OnlyEmptyLogs == EmptyMeans
<1> SUFFICES ASSUME OnlyEmpty PROVE KeptLogs = {} /\ FirmLogs = {}
  BY DEF EmptyMeans
<1>1. ASSUME NEW n \in LogsFrom(disk.manifest.log) PROVE InKept(n) = {} /\ InFirm(n) = {}
  <2>1. DOMAIN disk.logs[n] = {}
    BY DEF OnlyEmpty
  <2> QED BY <2>1 DEF InKept, InFirm, Intact
<1> QED BY <1>1 DEF KeptLogs, FirmLogs

(* The database is open: what a restart would find is what readers see. *)
LEMMA OpenedR ==
  ASSUME IInv, IInv', NEW N \in [Writer -> Nat], RInv(N), Opened
  PROVE  RInv(N)' /\ Store!DNext
<1>0. PICK e, m, l : e = bg.edit /\ m = disk.manifest /\ l = logfile
  OBVIOUS
<1>1. /\ phase = "saved" /\ phase' = "open" /\ versions' = Edited(versions, e)
      /\ disk' = Cleaned(disk, versions', Idle) /\ bg' = Scheduled(Idle, None, versions')
      /\ UNCHANGED <<pc, queue, group, mem, imm, logfile, unread>> /\ ~Live /\ Live'
  BY <1>0 DEF Opened, Live
<1>2. /\ DOMAIN group.batch = {} /\ group.size = 0 /\ imm = None /\ InImm = {} /\ DOMAIN mem = {}
      /\ ~bg.error /\ bg \in Calls /\ e \in Edits /\ versions \in Versions /\ m \in Versions /\ ShapeOK
      /\ \A w \in Writer : pc[w] \in Outside
  BY <1>0, <1>1, NobodyIn DEF IInv
<1>3. /\ m.l0 = versions'.l0 /\ m.l1 = versions'.l1 /\ m.log = versions'.log
  BY <1>0, <1>1, <1>2 DEF IInv, ManifestRight, Ahead
<1>4. /\ e.add1 = {} /\ e.gone = {} /\ e.log = l /\ disk.logs[l] = <<>>
      /\ \A n \in LogsFrom(m.log) : n <= l
  BY <1>0, <1>1 DEF RInv, RecoveryKept
<1>5. versions'.last = versions.last /\ versions'.log = l /\ m.log = l /\ l \in Nat /\ versions.last \in Nat
  <2>1. l \in Nat /\ versions.last \in Nat
    BY <1>0, <1>2 DEF ShapeOK, Versions
  <2>2. versions'.last = versions.last /\ versions'.log = l
    BY <1>1, <1>2, <1>4, <2>1, EditedVersion
  <2> QED BY <1>3, <2>1, <2>2
<1>6. versions' \in Versions /\ Thinned
  <2>1. versions' \in Versions
    BY DEF IInv, ShapeOK
  <2> QED BY <1>1, <1>2, <2>1, CleanedThins
<1>7. /\ disk'.manifest = m /\ DOMAIN disk'.logs \subseteq DOMAIN disk.logs
      /\ \A n \in DOMAIN disk'.logs : disk'.logs[n] = disk.logs[n]
      /\ DOMAIN disk'.tables \subseteq DOMAIN disk.tables
      /\ \A t \in DOMAIN disk'.tables : disk'.tables[t] = disk.tables[t]
  BY <1>0, <1>6 DEF Thinned
<1>8. bg'.flush = "none" /\ bg'.merge = "none"
  BY <1>1, IdleCall, ScheduledFields DEF IdleLike
<1>9. ~Editing'
  BY <1>1, <1>8 DEF Editing
<1>10. InManifest' = InManifest /\ InUse' = InManifest
  <2>1. InUse' = InTables(Tables')
    BY <1>1, <1>6, InUseThinned
  <2>2. Tables' = m.l0 \union m.l1
    BY <1>3 DEF Tables
  <2>3. InManifest' = InUse'
    BY <1>3, <1>7 DEF InManifest, InUse, InTables, Tables
  <2> QED BY <1>0, <2>1, <2>2, <2>3 DEF InManifest
<1>11. l \in DOMAIN disk'.logs /\ disk'.logs[l] = <<>> /\ DOMAIN disk'.logs[l] = {}
  <2>1. logfile' \in DOMAIN disk'.logs
    BY <1>1 DEF IInv, LogsRight
  <2> QED BY <1>0, <1>1, <1>4, <1>7, <2>1
<1>12. OnlyEmpty /\ OnlyEmpty'
  <2>1. \A n \in LogsFrom(m.log) : n = l
    <3>1. \A n \in LogsFrom(m.log) : n \in Nat /\ n >= m.log
      BY DEF LogsFrom, IInv, ShapeOK, DiskOK
    <3> QED BY <1>4, <1>5, <3>1
  <2>2. DOMAIN disk.logs[l] = {}
    BY <1>4
  <2>3. LogsFrom(disk.manifest.log)' \subseteq LogsFrom(m.log)
    BY <1>7 DEF LogsFrom
  <2>4. OnlyEmpty
    BY <1>0, <2>1, <2>2 DEF OnlyEmpty
  <2>5. \A n \in LogsFrom(disk.manifest.log)' : n = logfile' /\ DOMAIN disk'.logs[n] = {}
    BY <1>0, <1>1, <1>11, <2>1, <2>3
  <2> QED BY <2>4, <2>5 DEF OnlyEmpty
<1>13. KeptLogs = {} /\ FirmLogs = {} /\ KeptLogs' = {} /\ FirmLogs' = {}
  <2>1. EmptyMeans /\ EmptyMeans'
    BY OnlyEmptyLogs, PTL
  <2> QED BY <1>12, <2>1 DEF EmptyMeans
<1>14. InImm' = {} /\ DOMAIN mem' = {} /\ Early' = Early
  BY <1>1, <1>2 DEF InImm, Early
<1>15. Agreed(N)'
  <2>1. Told(N, mem') /\ Told(N, group'.batch) /\ imm' = None
    BY <1>1, <1>2 DEF RInv, Agreed
  <2>2. \A t \in DOMAIN disk'.tables : Told(N, disk'.tables[t])
    BY <1>7 DEF RInv, Agreed
  <2>3. \A n \in DOMAIN disk'.logs : \A i \in DOMAIN disk'.logs[n] : Told(N, disk'.logs[n][i].batch)
    BY <1>7 DEF RInv, Agreed
  <2> QED BY <2>1, <2>2, <2>3 DEF Agreed
<1>16. \A w \in Writer : pc'[w] \notin Writing /\ pc'[w] \notin {"await", "flushing"}
  BY <1>1, <1>2 DEF Outside, Writing
<1>17. GroupRight(N)'
  <2>1. DOMAIN group'.batch = {} /\ 1..group'.size = {}
    BY <1>1, <1>2
  <2>2. {queue'[i] : i \in 1..group'.size} = {}
    BY <2>1
  <2> QED BY <1>16, <2>1, <2>2 DEF GroupRight
<1>18. PlacesRight'
  <2>1. InTables(DOMAIN disk.tables)' \subseteq InTables(DOMAIN disk.tables)
    BY <1>7 DEF InTables
  <2>2. \A w \in Early : w \notin InTables(DOMAIN disk.tables)
    BY DEF RInv, PlacesRight
  <2>3. \A w \in Early, n \in DOMAIN disk.logs : w \notin InLog(n)
    BY <1>1, NobodyIn
  <2>4. \A n \in DOMAIN disk'.logs : n \in DOMAIN disk.logs /\ InLog(n)' = InLog(n)
    BY <1>7 DEF InLog
  <2> QED BY <1>14, <2>1, <2>2, <2>3, <2>4 DEF PlacesRight
<1>19. NumbersRight(N)'
  <2>1. \A w \in InManifest : w \in Writer /\ N[w] \in Nat /\ N[w] <= m.last
    <3>1. m.l0 \union m.l1 \subseteq DOMAIN disk.tables
      BY <1>0 DEF IInv, TablesRight
    <3>2. \A t \in DOMAIN disk.tables : DOMAIN disk.tables[t] \subseteq Writer
      BY BatchShape DEF IInv, ShapeOK, DiskOK, Maps
    <3>3. \A w \in InManifest : w \in Writer
      BY <1>0, <3>1, <3>2 DEF InManifest, InTables
    <3> QED BY <1>0, <3>3 DEF RInv, NumbersRight
  <2>2. m.last <= versions.last /\ m.last \in Nat
    BY <1>0, <1>1, <1>2 DEF RInv, NumbersRight, Versions
  <2>3. \A w \in InManifest : N[w] <= versions.last
    BY <1>5, <2>1, <2>2
  <2>4. InUse' \union DOMAIN mem' \union InImm' = InManifest
    BY <1>10, <1>14
  <2>5. \A w \in InUse' \union DOMAIN mem' \union InImm' : N[w] <= versions'.last
    BY <1>5, <2>3, <2>4
  <2>6. (\A w \in InManifest' : N[w] <= disk'.manifest.last) /\ disk'.manifest.last <= versions'.last
    BY <1>5, <1>7, <1>10, <2>1, <2>2
  <2> QED BY <1>1, <1>9, <2>5, <2>6 DEF NumbersRight
<1>20. InLog(logfile)' = {}
  BY <1>0, <1>1, <1>11 DEF InLog
<1>21. LogKept(N)'
  <2>1. LogsFrom(versions.log)' = LogsFrom(disk.manifest.log)'
    BY <1>3, <1>7
  <2>2. \A n \in LogsFrom(versions.log)' : n = logfile'
    BY <1>12, <2>1 DEF OnlyEmpty
  <2>3. versions'.log <= disk'.manifest.log /\ disk'.manifest.log <= logfile' /\ ~(versions'.log < disk'.manifest.log)
        /\ logfile' <= logfile' /\ ~(logfile' < logfile')
    BY <1>0, <1>1, <1>5, <1>7
  <2>4. InManifest' \subseteq InUse' \union InImm'
    BY <1>10
  <2> QED BY <1>20, <2>2, <2>3, <2>4 DEF LogKept
<1>22. LastRight'
  <2>1. ~Logging' /\ \A w \in Writer : pc'[w] # "applying"
    BY <1>16 DEF Logging, Writing
  <2>2. DOMAIN disk'.logs[logfile'] = {}
    BY <1>0, <1>1, <1>11
  <2> QED BY <2>1, <2>2, WritersAssumption DEF LastRight
<1>23. WorkKept'
  <2>1. PICK live : live = versions'.l0 \union versions'.l1 \union Pending(Idle)
    OBVIOUS
  <2>2. disk' = [disk EXCEPT !.logs = [n \in {k \in DOMAIN @ : k >= versions'.log} |-> @[n]],
                             !.tables = [t \in DOMAIN @ \intersect live |-> @[t]]]
    BY <1>1, <2>1, IdleCall DEF Cleaned
  <2>3. disk'.tables = [t \in DOMAIN disk.tables \intersect live |-> disk.tables[t]]
    BY <1>2, <2>2 DEF ShapeOK, DiskOK
  <2>4. Pending(Idle) = {}
    BY IdleCall DEF IdleLike, Pending
  <2>5. DOMAIN disk'.tables \subseteq Tables'
    BY <2>1, <2>3, <2>4 DEF Tables
  <2>6. Tables' \subseteq Given'
    BY <1>1 DEF IInv, TablesRight
  <2> QED BY <1>8, <2>5, <2>6 DEF WorkKept
<1>24. RInv(N)'
  BY <1>1, <1>15, <1>17, <1>18, <1>19, <1>21, <1>22, <1>23 DEF RInv, RecoveryKept
<1>25. Seen' = Seen /\ Sure' = Sure /\ Firm' = Firm
  <2>1. Seen = InManifest /\ Sure = InManifest /\ Firm = InManifest
    BY <1>1, <1>13 DEF Seen, Sure, Firm
  <2>2. Sure' = InManifest /\ Firm' = InManifest
    BY <1>10, <1>13 DEF Sure, Firm
  <2>3. Seen' = InManifest
    BY <1>1, <1>10, <1>14 DEF Seen, InMemory
  <2> QED BY <2>1, <2>2, <2>3
<1>26. answerBar' = answerBar
  BY <1>1 DEF answerBar
<1>27. Store!DNext
  <2>1. Agreed(N) /\ \A v \in Seen : N[v] = N[v]
    BY DEF RInv
  <2>2. Firm \intersect Seen \subseteq Firm' /\ Sure \intersect Seen \subseteq Sure'
        /\ (Sure' \intersect Seen) \ Sure \subseteq Firm'
    BY <1>25
  <2> QED BY <1>15, <1>25, <1>26, <2>1, <2>2, SettleStore
<1> QED BY <1>24, <1>27

(* Every writer of an entry has a place in the order. *)
StoreRight == \E N \in [Writer -> Nat] : RInv(N)

-------------------------------------------------------------------------------
(* The promise. *)

(* A new database is an empty store. *)
LEMMA InitStore == Init => StoreRight /\ Store!DInit
<1> SUFFICES ASSUME Init PROVE StoreRight /\ Store!DInit
  OBVIOUS
<1>1. /\ pc = [w \in Writer |-> "idle"] /\ queue = <<>> /\ group = [size |-> 0, batch |-> Nothing]
      /\ mem = Nothing /\ imm = None /\ logfile = 3
      /\ versions = [last |-> 0, next |-> 4, log |-> 3, l0 |-> {}, l1 |-> {}]
      /\ disk = [logs |-> [n \in {3} |-> <<>>], tables |-> Nothing, manifest |-> versions]
      /\ bg = Idle /\ phase = "open" /\ unread = {}
  BY DEF Init
<1>2. IInv /\ Live
  BY <1>1, InitIInv DEF Live
<1>3. PICK N \in [Writer -> Nat] : N = [w \in Writer |-> 0]
  OBVIOUS
<1>4. /\ DOMAIN Nothing = {} /\ group.size = 0 /\ group.batch = Nothing /\ DOMAIN mem = {} /\ DOMAIN group.batch = {}
      /\ DOMAIN disk.tables = {} /\ DOMAIN disk.logs = {3} /\ disk.logs[3] = <<>> /\ DOMAIN disk.logs[3] = {}
      /\ versions.l0 = {} /\ versions.l1 = {} /\ versions.last = 0 /\ versions.log = 3
      /\ disk.manifest.l0 = {} /\ disk.manifest.l1 = {} /\ disk.manifest.last = 0 /\ disk.manifest.log = 3
  BY <1>1 DEF Nothing
<1>5. IdleLike(bg)
  BY <1>1, IdleCall
<1>6. /\ InImm = {} /\ InUse = {} /\ InManifest = {} /\ InTables(DOMAIN disk.tables) = {} /\ InLog(3) = {}
      /\ InKept(3) = {} /\ InFirm(3) = {} /\ Tables = {}
  BY <1>1, <1>4 DEF InImm, InUse, InManifest, InTables, InLog, InKept, InFirm, Intact, Tables
<1>7. LogsFrom(versions.log) = {3} /\ LogsFrom(disk.manifest.log) = {3}
  BY <1>4 DEF LogsFrom
<1>8. Agreed(N)
  BY <1>1, <1>4 DEF Agreed, Told
<1>9. GroupRight(N)
  <2>1. 1..group.size = {}
    BY <1>4
  <2>2. {queue[i] : i \in 1..group.size} = {}
    BY <2>1
  <2> QED BY <1>1, <1>4, <2>1, <2>2 DEF GroupRight, Writing
<1>10. PlacesRight
  BY <1>4, <1>6 DEF PlacesRight
<1>11. ~Editing
  BY <1>1, <1>5 DEF Editing, IdleLike
<1>12. NumbersRight(N)
  BY <1>1, <1>2, <1>4, <1>6, <1>11 DEF NumbersRight
<1>13. LogKept(N)
  BY <1>1, <1>4, <1>6, <1>7 DEF LogKept
<1>14. LastRight
  BY <1>1, <1>4, WritersAssumption DEF LastRight, Logging
<1>15. WorkKept
  BY <1>4, <1>5 DEF WorkKept, IdleLike
<1>16. RInv(N)
  BY <1>2, <1>8, <1>9, <1>10, <1>12, <1>13, <1>14, <1>15 DEF RInv, RecoveryKept
<1>17. Store!DInit
  <2>1. KeptLogs = {} /\ FirmLogs = {}
    BY <1>6, <1>7 DEF KeptLogs, FirmLogs
  <2>2. Seen = {} /\ Sure = {} /\ Firm = {}
    BY <1>2, <1>4, <1>6, <2>1 DEF Seen, Sure, Firm, InMemory
  <2>3. storeBar = NumbersOf(N, {}) /\ DOMAIN storeBar = {} /\ durableBar = {}
    BY <1>2, <1>8, <2>2, StoreFacts
  <2>4. NumbersOf(N, {}) = [w \in {} |-> 0]
    BY DEF NumbersOf
  <2>5. answerBar = [w \in Writer \ Compact |-> "none"]
    BY <1>1 DEF answerBar
  <2> QED BY <2>3, <2>4, <2>5 DEF Store!DInit
<1> QED BY <1>16, <1>17 DEF StoreRight

(* Nothing happens. *)
LEMMA StutterR ==
  ASSUME IInv, IInv', NEW N \in [Writer -> Nat], RInv(N), UNCHANGED vars
  PROVE  RInv(N)' /\ Store!DNext
<1>1. UNCHANGED <<pc, queue, group, mem, imm, logfile, versions, bg, disk, phase, unread>>
  BY DEF vars
<1>2. \A w \in Writer : pc[w] \in {"await", "flushing"} => w \in Compact
  BY DEF RInv, GroupRight
<1>3. Moves
  BY <1>1, <1>2 DEF Moves, Early, Busy, Logging
<1>4. RInv(N)'
  BY <1>1, <1>3, MovesR
<1> QED BY <1>1, <1>4, QuietSettles DEF RInv

(* The steps of the writers. *)
LEMMA WriterR ==
  ASSUME IInv, IInv', NEW N \in [Writer -> Nat], RInv(N), NEW w \in Writer, Call(w) \/ WriterStep(w)
  PROVE  \E M \in [Writer -> Nat] : RInv(M)' /\ Store!DNext
<1>1. ASSUME RInv(N)' /\ Store!DNext PROVE \E M \in [Writer -> Nat] : RInv(M)' /\ Store!DNext
  BY <1>1
<1>2. CASE Call(w)
  BY <1>1, <1>2, CallR
<1>3. CASE YieldError(w) \/ NoNewLog(w)
  BY <1>1, <1>3, YieldErrorR
<1>4. CASE HaveRoom(w)
  BY <1>4, HaveRoomR
<1>5. CASE Switch(w)
  BY <1>5, SwitchR
<1>6. CASE Sleep(w) \/ SyncLogFails(w) \/ AwaitFlush(w)
  BY <1>1, <1>6, SleepR
<1>7. CASE LogRecord(w) \/ LogRecordFails(w)
  BY <1>1, <1>7, LogRecordR
<1>8. CASE SyncLog(w)
  BY <1>1, <1>8, SyncLogR
<1>9. CASE Finish(w)
  BY <1>1, <1>9, FinishR
<1> QED BY <1>2, <1>3, <1>4, <1>5, <1>6, <1>7, <1>8, <1>9 DEF WriterStep

(* The steps of the background thread. *)
LEMMA BackgroundR ==
  ASSUME IInv, IInv', NEW N \in [Writer -> Nat], RInv(N), Background
  PROVE  RInv(N)' /\ Store!DNext
<1>1. CASE Return \/ BuildTableFails \/ MergeFails
  BY <1>1, EndedR
<1>2. CASE BeginFlush \/ BuildTable \/ InstallFlush
  BY <1>2, BeginFlushR, BuildTableR, InstallFlushR
<1>3. CASE BeginMerge \/ OpenOutput \/ FinishOutput \/ InstallMerge
  BY <1>3, BeginMergeR, OpenOutputR, FinishOutputR, InstallMergeR
<1>4. CASE WriteManifest \/ WriteManifestFails
  BY <1>4, WriteManifestR, WriteManifestFailsR
<1> QED BY <1>1, <1>2, <1>3, <1>4 DEF Background

(* Every step of the database is one of the store, or none. *)
LEMMA NextStore ==
  ASSUME IInv, IInv', StoreRight, [Next]_vars
  PROVE  StoreRight' /\ Store!DNext
<1>1. PICK N \in [Writer -> Nat] : RInv(N)
  BY DEF StoreRight
<1>2. SUFFICES \E M \in [Writer -> Nat] : RInv(M)' /\ Store!DNext
  BY <1>2 DEF StoreRight
<1>3. ASSUME RInv(N)' /\ Store!DNext PROVE \E M \in [Writer -> Nat] : RInv(M)' /\ Store!DNext
  BY <1>3
<1>4. ASSUME NEW w \in Writer, Call(w) \/ WriterStep(w)
      PROVE  \E M \in [Writer -> Nat] : RInv(M)' /\ Store!DNext
  BY <1>1, <1>4, WriterR
<1>5. CASE Background
  BY <1>1, <1>3, <1>5, BackgroundR
<1>6. CASE Close
  BY <1>1, <1>3, <1>6, CloseR
<1>7. CASE Closed \/ Crash
  BY <1>1, <1>3, <1>7, EndR
<1>8. CASE Recover
  BY <1>1, <1>3, <1>8, RecoverR
<1>9. CASE Recovered
  BY <1>1, <1>3, <1>9, RecoveredR
<1>10. CASE Opened
  BY <1>1, <1>3, <1>10, OpenedR
<1>11. ASSUME NEW n \in unread, RecoverLogFile(n)
       PROVE  \E M \in [Writer -> Nat] : RInv(M)' /\ Store!DNext
  BY <1>1, <1>3, <1>11, RecoverLogFileR
<1>12. CASE UNCHANGED vars
  BY <1>1, <1>3, <1>12, StutterR
<1> QED BY <1>4, <1>5, <1>6, <1>7, <1>8, <1>9, <1>10, <1>11, <1>12 DEF Next

(* leveldb keeps what it promises its writers (the specification in         *)
(* DurableStore.tla), for any writers, batches, bounds, crashes and writes *)
(* to files that fail: a group becomes part of the store as a whole when   *)
(* its head answers (DBImpl::Write), what was synced survives power loss   *)
(* and what was answered survives the end of the process, through switched *)
(* memtables, flushes, merges, thrown away files and recoveries; and only  *)
(* the writes behind one that failed are exposed.                          *)
THEOREM WritesImplementStore == Spec => Promise
<1>1. Init => IInv /\ StoreRight /\ Store!DInit
  BY InitIInv, InitStore
<1>2. IInv /\ StoreRight /\ [Next]_vars => IInv' /\ StoreRight' /\ [Store!DNext]_(Store!storeVars)
  BY NextIInv, NextStore
<1> QED BY <1>1, <1>2, PTL DEF Spec, Promise, Store!DSpec
===============================================================================
