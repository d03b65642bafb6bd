----------------------------- MODULE DurableStore -----------------------------
(***************************************************************************)
(* What a database promises its writers, without queue, logs, memtables or *)
(* tables: a group of writes becomes part of the store at one instant, all *)
(* of them or none, behind what is there; what is durable survives every   *)
(* crash, and all that is in the store survives the crash of the process.  *)
(*                                                                         *)
(* The promise has a hole, and the hole has a name.  After a write that    *)
(* failed, the writes behind it may be exposed: acknowledged, readable and *)
(* lost by the next crash.  LevelDBWrites.tla implements it, hole included.*)
(***************************************************************************)
EXTENDS Naturals

CONSTANTS
  Writer,  \* each makes one write in its life
  Synced   \* of those, the ones whose WriteOptions say sync

VARIABLES
  answer,   \* of each write: none yet, waiting, or how it ended
  store,    \* the writes a reader sees, or a restart would find: their place in the order
  durable,  \* those that no crash can take away
  exposed   \* those that even the crash of the process may take away

storeVars == <<answer, store, durable, exposed>>

Answer == {"none", "waiting", "ok", "error", "lost"}

Stored == DOMAIN store

DInit ==
  /\ answer = [w \in Writer |-> "none"]
  /\ store = [w \in {} |-> 0]
  /\ durable = {}
  /\ exposed = {}

Ask(w) ==
  /\ answer[w] = "none"
  /\ answer' = [answer EXCEPT ![w] = "waiting"]
  /\ UNCHANGED <<store, durable, exposed>>

(* What is in the store stays, in its place; the others come behind it. *)
GrowsBy(group) ==
  /\ group \intersect Stored = {}
  /\ DOMAIN store' = Stored \union group
  /\ \A w \in Stored : store'[w] = store[w]
  /\ \A w \in Stored, v \in group : store[w] < store'[v]

(* A group of waiting writes enters the store and is acknowledged.  A      *)
(* synced one is durable from then on, unless it is exposed, as only the   *)
(* writes behind a failed one ever are.                                    *)
Commit(group) ==
  /\ \A w \in group : answer[w] = "waiting"
  /\ GrowsBy(group)
  /\ answer' = [w \in Writer |-> IF w \in group THEN "ok" ELSE answer[w]]
  /\ durable \subseteq durable' /\ durable' \subseteq DOMAIN store'
  /\ exposed' \subseteq exposed \union group
  /\ exposed' \subseteq exposed \/ \E w \in Writer : answer[w] = "error"
  /\ group \intersect Synced \subseteq durable' \union exposed'

(* What is waiting may fail, and then it is not in the store. *)
Refuse(group) ==
  /\ \A w \in group : answer[w] = "waiting"
  /\ answer' = [w \in Writer |-> IF w \in group THEN "error" ELSE answer[w]]
  /\ UNCHANGED <<store, durable, exposed>>

(* The disk catches up: more is durable, less is exposed. *)
Settle ==
  /\ durable \subseteq durable' /\ durable' \subseteq Stored
  /\ exposed' \subseteq exposed
  /\ exposed \ exposed' \subseteq durable'
  /\ UNCHANGED <<answer, store>>

(* The process ends, or the machine with it.  Of the store, kept remains.  *)
(* Nobody heard of the writes still waiting, and yet the restart may find  *)
(* some of them, and some that failed: late.                               *)
Crash(kept, late) ==
  /\ durable \subseteq kept /\ kept \subseteq Stored
  /\ late \subseteq Writer \ Stored
  /\ \A w \in late : answer[w] \in {"waiting", "error"}
  /\ DOMAIN store' = kept \union late
  /\ \A w \in kept : store'[w] = store[w]
  /\ \A w \in kept, v \in late : store[w] < store'[v]
  /\ answer' = [w \in Writer |-> IF answer[w] = "waiting" THEN "lost" ELSE answer[w]]
  /\ durable \subseteq durable' /\ durable' \subseteq DOMAIN store'
  /\ exposed' = {}

(* Only the process ends: what is not exposed is kept. *)
ProcessCrash ==
  \E gone \in SUBSET exposed, late \in SUBSET Writer : Crash(Stored \ gone, late)

(* The machine ends with it: what is not durable may go. *)
PowerLoss == \E kept \in SUBSET Stored, late \in SUBSET Writer : Crash(kept, late)

DNext ==
  \/ \E w \in Writer : Ask(w)
  \/ \E group \in SUBSET Writer : Commit(group) \/ Refuse(group)
  \/ Settle
  \/ ProcessCrash
  \/ PowerLoss

DSpec == DInit /\ [][DNext]_storeVars
===============================================================================
