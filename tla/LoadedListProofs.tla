--------------------------- MODULE LoadedListProofs ---------------------------
(***************************************************************************)
(* The recommended list and the loaders shown over it, two components that *)
(* share no state: every loader ends as it was last asked to, for any      *)
(* loaders, views and bound (LoaderManager), and the list ends current     *)
(* (RecommendedList), for any movies and bounds.                           *)
(***************************************************************************)
EXTENDS RecommendedList, LoaderManager, FiniteSetTheorems, SequenceTheorems, TLAPS

(* The loaders.                                                            *)

(* Queues. *)

(* The queue q holds a b with no c after it. *)
LastIs(q, b, c) ==
  \E i \in 1 .. Len(q) : q[i] = b /\ \A j \in 1 .. Len(q) : j > i => q[j] # c

Free(q, c) == \A j \in 1 .. Len(q) : q[j] # c

(* What is at the end of a queue stays there when something else comes.    *)
LEMMA AppendKeeps ==
  ASSUME NEW S, NEW q \in Seq(S), NEW x \in S, NEW b, NEW c, x # c
  PROVE  /\ LastIs(q, b, c) => LastIs(Append(q, x), b, c)
         /\ Free(q, c) => Free(Append(q, x), c)
  BY DEF LastIs, Free

(* What is appended is last.                                               *)
LEMMA AppendIsLast ==
  ASSUME NEW S, NEW q \in Seq(S), NEW b \in S, NEW c
  PROVE  LastIs(Append(q, b), b, c)
<1>1. Len(Append(q, b)) = Len(q) + 1 /\ Append(q, b)[Len(q) + 1] = b
  OBVIOUS
<1>2. Len(q) + 1 \in 1 .. Len(Append(q, b)) /\ \A j \in 1 .. Len(Append(q, b)) : ~(j > Len(q) + 1)
  BY <1>1
<1> QED BY <1>1, <1>2 DEF LastIs

(* Taking the head off a queue: a last b stays last, or was the head and   *)
(* leaves no c.                                                            *)
LEMMA TailKeeps ==
  ASSUME NEW S, NEW q \in Seq(S), q # <<>>, NEW b, NEW c
  PROVE  /\ LastIs(q, b, c) => LastIs(Tail(q), b, c) \/ (Head(q) = b /\ Free(Tail(q), c))
         /\ Free(q, c) => Free(Tail(q), c)
<1>1. /\ Len(q) \in Nat \ {0} /\ Len(Tail(q)) = Len(q) - 1 /\ Head(q) = q[1]
      /\ \A j \in 1 .. Len(Tail(q)) : Tail(q)[j] = q[j + 1]
  OBVIOUS
<1>2. ASSUME LastIs(q, b, c)
      PROVE  LastIs(Tail(q), b, c) \/ (Head(q) = b /\ Free(Tail(q), c))
  <2>1. PICK i \in 1 .. Len(q) : q[i] = b /\ \A j \in 1 .. Len(q) : j > i => q[j] # c
    BY <1>2 DEF LastIs
  <2>2. CASE i = 1
    BY <2>1, <2>2, <1>1 DEF Free
  <2>3. CASE i # 1
    <3>1. i - 1 \in 1 .. Len(Tail(q)) /\ Tail(q)[i - 1] = b
      BY <2>1, <2>3, <1>1
    <3>2. ASSUME NEW j \in 1 .. Len(Tail(q)), j > i - 1 PROVE Tail(q)[j] # c
      BY <3>2, <2>1, <1>1
    <3> QED BY <3>1, <3>2 DEF LastIs
  <2> QED BY <2>2, <2>3
<1>3. ASSUME Free(q, c) PROVE Free(Tail(q), c)
  BY <1>3, <1>1 DEF Free
<1> QED BY <1>2, <1>3

(* The same for a sequence that comes after.                               *)
LEMMA ConcatKeeps ==
  ASSUME NEW S, NEW q \in Seq(S), NEW r \in Seq(S), NEW b, NEW c, Free(r, c)
  PROVE  /\ LastIs(q, b, c) => LastIs(q \o r, b, c)
         /\ Free(q, c) => Free(q \o r, c)
         /\ (\E i \in 1 .. Len(r) : r[i] = b) => LastIs(q \o r, b, c)
<1>1. /\ Len(q \o r) = Len(q) + Len(r) /\ Len(q) \in Nat /\ Len(r) \in Nat
      /\ \A j \in 1 .. Len(q) : (q \o r)[j] = q[j]
      /\ \A j \in 1 .. Len(q \o r) : j > Len(q) => j - Len(q) \in 1 .. Len(r) /\ (q \o r)[j] = r[j - Len(q)]
      /\ \A i \in 1 .. Len(r) : (q \o r)[Len(q) + i] = r[i]
  OBVIOUS
<1>2. \A j \in 1 .. Len(q \o r) : j > Len(q) => (q \o r)[j] # c
  BY <1>1 DEF Free
<1>3. ASSUME LastIs(q, b, c) PROVE LastIs(q \o r, b, c)
  <2>1. PICK i \in 1 .. Len(q) : q[i] = b /\ \A j \in 1 .. Len(q) : j > i => q[j] # c
    BY <1>3 DEF LastIs
  <2>2. i \in 1 .. Len(q \o r) /\ (q \o r)[i] = b
    BY <2>1, <1>1
  <2>3. ASSUME NEW j \in 1 .. Len(q \o r), j > i PROVE (q \o r)[j] # c
    <3>1. CASE j > Len(q)
      BY <3>1, <1>2
    <3>2. CASE ~(j > Len(q))
      BY <3>2, <2>1, <2>3, <1>1
    <3> QED BY <3>1, <3>2
  <2> QED BY <2>2, <2>3 DEF LastIs
<1>4. ASSUME Free(q, c) PROVE Free(q \o r, c)
  BY <1>4, <1>1, <1>2 DEF Free
<1>5. ASSUME NEW i \in 1 .. Len(r), r[i] = b PROVE LastIs(q \o r, b, c)
  <2>1. Len(q) + i \in 1 .. Len(q \o r) /\ (q \o r)[Len(q) + i] = b
    BY <1>5, <1>1
  <2> QED BY <2>1, <1>1, <1>2 DEF LastIs
<1> QED BY <1>3, <1>4, <1>5

-------------------------------------------------------------------------------
(* Blocks. *)

(* Blocks of different calls, or of different loaders, differ.             *)
LEMMA BlocksDiffer ==
  ASSUME NEW k \in Loader, NEW l \in Loader
  PROVE  /\ ShowBlock(k) # HideBlock(l)
         /\ HideBlock(k) = HideBlock(l) => k = l
         /\ ShowBlock(k) = ShowBlock(l) => k = l
         /\ ShowBlock(l) \in Block /\ HideBlock(l) \in Block
         /\ \A v \in View : /\ RemoveBlock(v) \in Block
                           /\ RemoveBlock(v) # HideBlock(l) /\ RemoveBlock(v) # ShowBlock(l)
<1>1. /\ ShowBlock(k).op = "show" /\ HideBlock(l).op = "hide" /\ ShowBlock(l).op = "show"
      /\ HideBlock(k).loader = k /\ HideBlock(l).loader = l
      /\ ShowBlock(k).loader = k /\ ShowBlock(l).loader = l
      /\ \A v \in View : RemoveBlock(v).op = "removeLoadingView"
  BY DEF ShowBlock, HideBlock, RemoveBlock
<1>2. ShowBlock(l) \in Block /\ HideBlock(l) \in Block /\ \A v \in View : RemoveBlock(v) \in Block
  BY DEF Block
<1>3. ShowBlock(k) # HideBlock(l)
  BY <1>1
<1>4. \A v \in View : RemoveBlock(v) # HideBlock(l) /\ RemoveBlock(v) # ShowBlock(l)
  BY <1>1
<1>5. (HideBlock(k) = HideBlock(l) => k = l) /\ (ShowBlock(k) = ShowBlock(l) => k = l)
  BY <1>1
<1> QED BY <1>2, <1>3, <1>4, <1>5

(* A block at the head of the queue is what its op says.                   *)
LEMMA HeadBlock ==
  ASSUME NEW b \in Block
  PROVE  /\ b.op = "show" => b.loader \in Loader /\ b = ShowBlock(b.loader)
         /\ b.op = "hide" => b.loader \in Loader /\ b = HideBlock(b.loader)
         /\ b.op = "removeLoadingView" => b.view \in View /\ b = RemoveBlock(b.view)
<1>1. CASE \E l \in Loader : b = ShowBlock(l)
  BY <1>1 DEF ShowBlock
<1>2. CASE \E l \in Loader : b = HideBlock(l)
  BY <1>2 DEF HideBlock
<1>3. CASE \E v \in View : b = RemoveBlock(v)
  BY <1>3 DEF RemoveBlock
<1> QED BY <1>1, <1>2, <1>3 DEF Block

-------------------------------------------------------------------------------
(* The invariant. *)

(* A loader that is wanted has its timer, or its show is the last word of  *)
(* the queue, or it is active and nothing queued hides it.  One that is    *)
(* not wanted has no timer, and the queue's last word is its hide, or it   *)
(* is not active and nothing queued shows it.                              *)
OnItsWay(l) ==
  IF l \in wanted
  THEN \/ l \in timers
       \/ LastIs(queue, ShowBlock(l), HideBlock(l))
       \/ l \in active /\ Free(queue, HideBlock(l))
  ELSE /\ l \notin timers
       /\ \/ LastIs(queue, HideBlock(l), ShowBlock(l))
          \/ l \notin active /\ Free(queue, ShowBlock(l))

LoaderIInv == LoaderTypeOK /\ \A l \in Loader : OnItsWay(l)

LEMMA LoaderInitIInv == LoaderInit => LoaderIInv
<1> SUFFICES ASSUME LoaderInit PROVE LoaderIInv
  OBVIOUS
<1>1. LoaderTypeOK
  BY DEF LoaderInit, LoaderTypeOK
<1>2. ASSUME NEW l \in Loader PROVE OnItsWay(l)
  <2>1. queue = <<>> /\ Len(queue) = 0 /\ l \notin wanted /\ l \notin timers /\ l \notin active
    BY DEF LoaderInit
  <2>2. Free(queue, ShowBlock(l))
    BY <2>1 DEF Free
  <2> QED BY <2>1, <2>2 DEF OnItsWay
<1> QED BY <1>1, <1>2 DEF LoaderIInv

(* hideLoader for a set of loaders, after blocks the queue keeps.          *)
LEMMA HideEachIInv ==
  ASSUME LoaderTypeOK, NEW loaders \in SUBSET Loader, NEW blocks \in Seq(Block),
         HideEach(loaders, blocks), UNCHANGED active,
         \A l \in Loader :
           IF l \in wanted
           THEN \/ l \in timers
                \/ LastIs(blocks, ShowBlock(l), HideBlock(l))
                \/ l \in active /\ Free(blocks, HideBlock(l))
           ELSE /\ l \notin timers
                /\ \/ LastIs(blocks, HideBlock(l), ShowBlock(l))
                   \/ l \notin active /\ Free(blocks, ShowBlock(l))
  PROVE  LoaderIInv'
<1>1. PICK order \in Bijection(1 .. Cardinality(loaders), loaders) :
        /\ timers' = timers \ loaders
        /\ queue' = blocks \o [i \in DOMAIN order |-> HideBlock(order[i])]
        /\ wanted' = wanted \ loaders
  BY DEF HideEach
<1> DEFINE n == Cardinality(loaders)
           hides == [i \in 1 .. n |-> HideBlock(order[i])]
<1>2. n \in Nat
  BY LoaderAssumption, FS_Subset, FS_CardinalityType
<1>3. /\ order \in [1 .. n -> loaders] /\ \A l \in loaders : \E i \in 1 .. n : order[i] = l
  BY <1>1 DEF Bijection, Injection, Surjection
<1>4. queue' = blocks \o hides
  BY <1>1, <1>3
<1>5. hides \in Seq(Block) /\ Len(hides) = n /\ \A i \in 1 .. n : hides[i] = HideBlock(order[i])
  <2>1. \A i \in 1 .. n : HideBlock(order[i]) \in Block
    BY <1>3 DEF Block
  <2> QED BY <2>1, <1>2
<1> HIDE DEF n, hides
<1>6. LoaderTypeOK'
  <2>1. queue' \in Seq(Block)
    BY <1>4, <1>5
  <2>2. timers' \subseteq Loader /\ wanted' \subseteq Loader /\ active' \subseteq Loader
    BY <1>1 DEF LoaderTypeOK
  <2> QED BY <2>1, <2>2 DEF LoaderTypeOK
<1>7. ASSUME NEW l \in Loader PROVE OnItsWay(l)'
  <2>1. Free(hides, ShowBlock(l))
    BY <1>3, <1>5, BlocksDiffer DEF Free
  <2>2. CASE l \in loaders
    <3>1. \E i \in 1 .. Len(hides) : hides[i] = HideBlock(l)
      BY <2>2, <1>3, <1>5
    <3>2. LastIs(blocks \o hides, HideBlock(l), ShowBlock(l))
      BY <3>1, <2>1, <1>5, ConcatKeeps
    <3> QED BY <3>2, <2>2, <1>1, <1>4 DEF OnItsWay
  <2>3. CASE l \notin loaders
    <3>1. Free(hides, HideBlock(l))
      BY <2>3, <1>3, <1>5, BlocksDiffer DEF Free
    <3>2. /\ \A b, c : LastIs(blocks, b, c) /\ Free(hides, c) => LastIs(blocks \o hides, b, c)
          /\ \A c : Free(blocks, c) /\ Free(hides, c) => Free(blocks \o hides, c)
      BY <1>5, ConcatKeeps
    <3>3. (l \in wanted' <=> l \in wanted) /\ (l \in timers' <=> l \in timers)
          /\ (l \in active' <=> l \in active)
      BY <2>3, <1>1
    <3> QED BY <3>1, <3>2, <3>3, <2>1, <1>4 DEF OnItsWay
  <2> QED BY <2>2, <2>3
<1> QED BY <1>6, <1>7 DEF LoaderIInv

LEMMA LoaderNextIInv == LoaderIInv /\ [LoaderNext]_loaderVars => LoaderIInv'
<1> SUFFICES ASSUME LoaderIInv, [LoaderNext]_loaderVars PROVE LoaderIInv'
  OBVIOUS
<1> USE DEF LoaderIInv
<1>t. queue \in Seq(Block) /\ timers \subseteq Loader /\ active \subseteq Loader /\ wanted \subseteq Loader
  BY DEF LoaderTypeOK
<1>1. ASSUME NEW l \in Loader, ShowLoader(l) PROVE LoaderIInv'
  <2>1. LoaderTypeOK'
    BY <1>1, <1>t, BlocksDiffer DEF LoaderTypeOK, ShowLoader
  <2>2. ASSUME NEW k \in Loader PROVE OnItsWay(k)'
    <3>1. CASE k = l
      BY <3>1, <1>1 DEF OnItsWay, ShowLoader
    <3>2. CASE k # l
      <4>1. HideBlock(l) \in Block /\ HideBlock(l) # HideBlock(k) /\ HideBlock(l) # ShowBlock(k)
        BY <3>2, BlocksDiffer DEF Block
      <4>2. /\ \A b, c : LastIs(queue, b, c) /\ HideBlock(l) # c => LastIs(queue', b, c)
            /\ \A c : Free(queue, c) /\ HideBlock(l) # c => Free(queue', c)
        BY <4>1, <1>1, <1>t, AppendKeeps DEF ShowLoader
      <4> QED BY <4>1, <4>2, <3>2, <1>1 DEF OnItsWay, ShowLoader
    <3> QED BY <3>1, <3>2
  <2> QED BY <2>1, <2>2
<1>2. ASSUME NEW l \in Loader, HideLoader(l) PROVE LoaderIInv'
  <2>1. LoaderTypeOK'
    BY <1>2, <1>t, BlocksDiffer DEF LoaderTypeOK, HideLoader
  <2>2. ASSUME NEW k \in Loader PROVE OnItsWay(k)'
    <3>1. CASE k = l
      <4>1. LastIs(queue', HideBlock(k), ShowBlock(k))
        BY <3>1, <1>2, <1>t, BlocksDiffer, AppendIsLast DEF HideLoader, Block
      <4> QED BY <4>1, <3>1, <1>2 DEF OnItsWay, HideLoader
    <3>2. CASE k # l
      <4>1. HideBlock(l) \in Block /\ HideBlock(l) # HideBlock(k) /\ HideBlock(l) # ShowBlock(k)
        BY <3>2, BlocksDiffer DEF Block
      <4>2. /\ \A b, c : LastIs(queue, b, c) /\ HideBlock(l) # c => LastIs(queue', b, c)
            /\ \A c : Free(queue, c) /\ HideBlock(l) # c => Free(queue', c)
        BY <4>1, <1>2, <1>t, AppendKeeps DEF HideLoader
      <4> QED BY <4>1, <4>2, <3>2, <1>2 DEF OnItsWay, HideLoader
    <3> QED BY <3>1, <3>2
  <2> QED BY <2>1, <2>2
<1>3. ASSUME NEW v \in View, HideLoaderOfView(v, queue) PROVE LoaderIInv'
  <2>1. active \intersect LoadersOf(v) \in SUBSET Loader
    BY DEF LoadersOf
  <2> QED BY <2>1, <1>3, <1>t, HideEachIInv DEF HideLoaderOfView, OnItsWay
<1>4. CASE HideAllLoaders
  BY <1>4, <1>t, HideEachIInv DEF HideAllLoaders, OnItsWay
<1>5. ASSUME NEW v \in View, RemoveLoadingView(v) PROVE LoaderIInv'
  <2>1. LoaderTypeOK'
    BY <1>5, <1>t DEF LoaderTypeOK, RemoveLoadingView, Block
  <2>2. ASSUME NEW k \in Loader PROVE OnItsWay(k)'
    <3>1. RemoveBlock(v) \in Block /\ RemoveBlock(v) # HideBlock(k) /\ RemoveBlock(v) # ShowBlock(k)
      BY BlocksDiffer DEF Block
    <3>2. /\ \A b, c : LastIs(queue, b, c) /\ RemoveBlock(v) # c => LastIs(queue', b, c)
          /\ \A c : Free(queue, c) /\ RemoveBlock(v) # c => Free(queue', c)
      BY <3>1, <1>5, <1>t, AppendKeeps DEF RemoveLoadingView
    <3> QED BY <3>1, <3>2, <1>5 DEF OnItsWay, RemoveLoadingView
  <2> QED BY <2>1, <2>2
<1>6. ASSUME NEW l \in Loader, FireTimer(l) PROVE LoaderIInv'
  <2>1. LoaderTypeOK'
    BY <1>6, <1>t, BlocksDiffer DEF LoaderTypeOK, FireTimer, Block
  <2>2. ASSUME NEW k \in Loader PROVE OnItsWay(k)'
    <3>1. CASE k = l
      <4>1. k \in wanted'
        BY <3>1, <1>6 DEF OnItsWay, FireTimer
      <4>2. LastIs(queue', ShowBlock(k), HideBlock(k))
        BY <3>1, <1>6, <1>t, AppendIsLast DEF FireTimer, Block
      <4> QED BY <4>1, <4>2 DEF OnItsWay
    <3>2. CASE k # l
      <4>1. ShowBlock(l) \in Block /\ ShowBlock(l) # HideBlock(k) /\ ShowBlock(l) # ShowBlock(k)
        BY <3>2, BlocksDiffer DEF Block
      <4>2. /\ \A b, c : LastIs(queue, b, c) /\ ShowBlock(l) # c => LastIs(queue', b, c)
            /\ \A c : Free(queue, c) /\ ShowBlock(l) # c => Free(queue', c)
        BY <4>1, <1>6, <1>t, AppendKeeps DEF FireTimer
      <4> QED BY <4>1, <4>2, <3>2, <1>6 DEF OnItsWay, FireTimer
    <3> QED BY <3>1, <3>2
  <2> QED BY <2>1, <2>2
<1>h. ASSUME queue # <<>> PROVE
        /\ Head(queue) \in Block /\ Tail(queue) \in Seq(Block)
        /\ \A b, c : LastIs(queue, b, c) =>
             LastIs(Tail(queue), b, c) \/ (Head(queue) = b /\ Free(Tail(queue), c))
        /\ \A c : Free(queue, c) => Free(Tail(queue), c) /\ Head(queue) # c
  <2>1. Head(queue) \in Block /\ Tail(queue) \in Seq(Block) /\ Head(queue) = queue[1] /\ 1 \in 1 .. Len(queue)
    BY <1>h, <1>t
  <2> QED BY <2>1, <1>h, <1>t, TailKeeps DEF Free
<1>7. CASE RunShow
  <2> DEFINE l == Head(queue).loader
  <2>1. l \in Loader /\ Head(queue) = ShowBlock(l) /\ queue # <<>> /\ queue' = Tail(queue)
        /\ active' = active \union {l} /\ UNCHANGED <<timers, wanted>>
    BY <1>7, <1>h, HeadBlock DEF RunShow
  <2> HIDE DEF l
  <2>2. LoaderTypeOK'
    BY <2>1, <1>h, <1>t DEF LoaderTypeOK
  <2>3. ASSUME NEW k \in Loader PROVE OnItsWay(k)'
    <3>1. ShowBlock(l) # HideBlock(k) /\ (k # l => ShowBlock(l) # ShowBlock(k))
      BY <2>1, BlocksDiffer
    <3>2. CASE k = l
      BY <3>1, <3>2, <2>1, <1>h DEF OnItsWay
    <3>3. CASE k # l
      BY <3>1, <3>3, <2>1, <1>h DEF OnItsWay
    <3> QED BY <3>2, <3>3
  <2> QED BY <2>2, <2>3
<1>8. CASE RunHide
  <2> DEFINE l == Head(queue).loader
  <2>1. l \in Loader /\ Head(queue) = HideBlock(l) /\ queue # <<>> /\ queue' = Tail(queue)
        /\ active' = active \ {l} /\ UNCHANGED <<timers, wanted>>
    BY <1>8, <1>h, HeadBlock DEF RunHide
  <2> HIDE DEF l
  <2>2. LoaderTypeOK'
    BY <2>1, <1>h, <1>t DEF LoaderTypeOK
  <2>3. ASSUME NEW k \in Loader PROVE OnItsWay(k)'
    <3>1. HideBlock(l) # ShowBlock(k) /\ (k # l => HideBlock(l) # HideBlock(k))
      BY <2>1, BlocksDiffer
    <3>2. CASE k = l
      BY <3>1, <3>2, <2>1, <1>h DEF OnItsWay
    <3>3. CASE k # l
      BY <3>1, <3>3, <2>1, <1>h DEF OnItsWay
    <3> QED BY <3>2, <3>3
  <2> QED BY <2>2, <2>3
<1>9. CASE RunRemove
  <2> DEFINE v == Head(queue).view
  <2>1. v \in View /\ Head(queue) = RemoveBlock(v) /\ queue # <<>> /\ HideLoaderOfView(v, Tail(queue))
    BY <1>9, <1>h, HeadBlock DEF RunRemove
  <2> HIDE DEF v
  <2>2. active \intersect LoadersOf(v) \in SUBSET Loader
    BY DEF LoadersOf
  <2>3. ASSUME NEW k \in Loader
        PROVE IF k \in wanted
           THEN \/ k \in timers
                \/ LastIs(Tail(queue), ShowBlock(k), HideBlock(k))
                \/ k \in active /\ Free(Tail(queue), HideBlock(k))
           ELSE /\ k \notin timers
                /\ \/ LastIs(Tail(queue), HideBlock(k), ShowBlock(k))
                   \/ k \notin active /\ Free(Tail(queue), ShowBlock(k))
    <3>1. Head(queue) # ShowBlock(k) /\ Head(queue) # HideBlock(k)
      BY <2>1, BlocksDiffer
    <3> QED BY <3>1, <2>1, <1>h DEF OnItsWay
  <2> QED BY <2>1, <2>2, <2>3, <1>h, HideEachIInv DEF HideLoaderOfView
<1>10. CASE UNCHANGED loaderVars
  BY <1>10 DEF loaderVars, LoaderTypeOK, OnItsWay
<1> QED
  BY <1>1, <1>2, <1>3, <1>4, <1>5, <1>6, <1>7, <1>8, <1>9, <1>10
     DEF LoaderNext, Call, RunLoop, RunBlock

(* The invariant holds of every behaviour.                                 *)
THEOREM LoaderInvariant == LoaderSafetySpec => []LoaderIInv
  BY LoaderInitIInv, LoaderNextIInv, PTL DEF LoaderSafetySpec

(* Timers, queue and active loaders keep their types, whatever the callers *)
(* of LoaderManager do and in whatever order timers and blocks run.        *)
THEOREM LoaderTypeCorrect == LoaderSafetySpec => []LoaderTypeOK
<1>1. LoaderIInv => LoaderTypeOK
  BY DEF LoaderIInv
<1> QED BY <1>1, LoaderInvariant, PTL

(* With no timer and no block left, the loaders on the screen are exactly  *)
(* those whose last call was a showLoader: hideLoader's cancelled timer and*)
(* queued block between them lose no hide and no show.                     *)
THEOREM LoadersSettle == LoaderSafetySpec => []SettledAsAsked
<1>1. ASSUME LoaderIInv, Quiet PROVE active = wanted
  <2>1. queue = <<>> /\ Len(queue) = 0 /\ timers = {}
    BY <1>1 DEF Quiet
  <2>2. \A b, c : ~LastIs(queue, b, c)
    BY <2>1 DEF LastIs
  <2>3. \A l \in Loader : l \in wanted <=> l \in active
    BY <1>1, <2>1, <2>2 DEF LoaderIInv, OnItsWay
  <2> QED BY <1>1, <2>3 DEF LoaderIInv, LoaderTypeOK
<1>2. LoaderIInv => SettledAsAsked
  BY <1>1 DEF SettledAsAsked
<1> QED BY <1>2, LoaderInvariant, PTL

-------------------------------------------------------------------------------
(* The list: its types, that it ends current, and where rows and movies    *)
(* part.                                                                   *)

(* The last value event of the queue q brings pelis.                       *)
LastValue(q, pelis) ==
  \E i \in 1 .. Len(q) :
    /\ q[i] = ValueEvent(pelis)
    /\ \A j \in 1 .. Len(q) : j > i => q[j].type # "value"

NoValue(q) == \A j \in 1 .. Len(q) : q[j].type # "value"

(* With data in the view, the last value event on its way brings them; with*)
(* none on its way, an observation will, or the list has them already.     *)
CurrentAtLast ==
  view = "complete" =>
    \/ LastValue(inbox, cache)
    \/ NoValue(inbox) /\ registering > 0
    \/ NoValue(inbox) /\ movies = Rebuilt(cache) /\ rows = movies

IInv ==
  /\ TypeOK
  /\ registering + observers <= MaxObservers
  /\ observers > 0 <=> view # "none"
  /\ rows # movies => movies = NoMovies
  /\ CurrentAtLast

-------------------------------------------------------------------------------
(* Queues of events. *)

LEMMA EventKinds ==
  ASSUME NEW pelis \in SUBSET Movie
  PROVE  /\ ValueEvent(pelis) \in Event /\ ValueEvent(pelis).type = "value"
         /\ ValueEvent(pelis).pelis = pelis
         /\ CancelEvent \in Event /\ CancelEvent.type = "cancel"
  BY DEF ValueEvent, CancelEvent, Event

LEMMA ValueOf ==
  ASSUME NEW e \in Event, e.type = "value"
  PROVE  e.pelis \in SUBSET Movie /\ e = ValueEvent(e.pelis)
<1>1. CASE e = CancelEvent
  BY <1>1 DEF CancelEvent
<1>2. CASE \E pelis \in SUBSET Movie : e = ValueEvent(pelis)
  BY <1>2 DEF ValueEvent
<1> QED BY <1>1, <1>2 DEF Event

(* A sequence of copies of one event.                                      *)
LEMMA RaisedFacts ==
  ASSUME NEW e \in Event, NEW n \in Nat
  PROVE  /\ Raised(e, n) \in Seq(Event) /\ Len(Raised(e, n)) = n
         /\ \A i \in 1 .. n : Raised(e, n)[i] = e
  BY DEF Raised

(* The head taken off: its data are the last, or others still are.         *)
LEMMA TailValue ==
  ASSUME NEW q \in Seq(Event), q # <<>>, NEW pelis
  PROVE  /\ Head(q) \in Event /\ Tail(q) \in Seq(Event)
         /\ LastValue(q, pelis) => \/ LastValue(Tail(q), pelis)
                                   \/ Head(q) = ValueEvent(pelis) /\ NoValue(Tail(q))
         /\ NoValue(q) => NoValue(Tail(q)) /\ Head(q).type # "value"
<1>1. /\ Len(q) \in Nat \ {0} /\ Len(Tail(q)) = Len(q) - 1 /\ Head(q) = q[1]
      /\ Head(q) \in Event /\ Tail(q) \in Seq(Event)
      /\ \A j \in 1 .. Len(Tail(q)) : Tail(q)[j] = q[j + 1]
  OBVIOUS
<1>2. ASSUME LastValue(q, pelis)
      PROVE  LastValue(Tail(q), pelis) \/ (Head(q) = ValueEvent(pelis) /\ NoValue(Tail(q)))
  <2>1. PICK i \in 1 .. Len(q) :
          q[i] = ValueEvent(pelis) /\ \A j \in 1 .. Len(q) : j > i => q[j].type # "value"
    BY <1>2 DEF LastValue
  <2>2. CASE i = 1
    BY <2>1, <2>2, <1>1 DEF NoValue
  <2>3. CASE i # 1
    <3>1. i - 1 \in 1 .. Len(Tail(q)) /\ Tail(q)[i - 1] = ValueEvent(pelis)
      BY <2>1, <2>3, <1>1
    <3>2. ASSUME NEW j \in 1 .. Len(Tail(q)), j > i - 1 PROVE Tail(q)[j].type # "value"
      BY <3>2, <2>1, <1>1
    <3> QED BY <3>1, <3>2 DEF LastValue
  <2> QED BY <2>2, <2>3
<1>3. ASSUME NoValue(q) PROVE NoValue(Tail(q)) /\ Head(q).type # "value"
  BY <1>3, <1>1 DEF NoValue
<1> QED BY <1>1, <1>2, <1>3

(* The data of events appended to the queue are the last.                  *)
LEMMA ConcatValue ==
  ASSUME NEW q \in Seq(Event), NEW n \in Nat \ {0}, NEW pelis \in SUBSET Movie
  PROVE  /\ q \o Raised(ValueEvent(pelis), n) \in Seq(Event)
         /\ LastValue(q \o Raised(ValueEvent(pelis), n), pelis)
<1> DEFINE r == Raised(ValueEvent(pelis), n)
<1>1. r \in Seq(Event) /\ Len(r) = n /\ \A i \in 1 .. n : r[i] = ValueEvent(pelis)
  BY RaisedFacts, EventKinds
<1> HIDE DEF r
<1>2. /\ q \o r \in Seq(Event) /\ Len(q \o r) = Len(q) + n /\ Len(q) \in Nat
      /\ (q \o r)[Len(q) + n] = r[n]
  BY <1>1
<1>3. /\ Len(q) + n \in 1 .. Len(q \o r) /\ (q \o r)[Len(q) + n] = ValueEvent(pelis)
      /\ \A j \in 1 .. Len(q \o r) : ~(j > Len(q) + n)
  BY <1>1, <1>2
<1> QED BY <1>2, <1>3 DEF LastValue, r

LEMMA AppendValue ==
  ASSUME NEW q \in Seq(Event), NEW pelis \in SUBSET Movie
  PROVE  /\ Append(q, ValueEvent(pelis)) \in Seq(Event)
         /\ LastValue(Append(q, ValueEvent(pelis)), pelis)
<1> DEFINE t == Append(q, ValueEvent(pelis))
<1>1. t \in Seq(Event) /\ Len(t) = Len(q) + 1 /\ t[Len(q) + 1] = ValueEvent(pelis) /\ Len(q) \in Nat
  BY EventKinds
<1> HIDE DEF t
<1>2. Len(q) + 1 \in 1 .. Len(t) /\ \A j \in 1 .. Len(t) : ~(j > Len(q) + 1)
  BY <1>1
<1> QED BY <1>1, <1>2 DEF LastValue, t

LEMMA Lists ==
  /\ NoMovies \in Bag
  /\ \A pelis \in SUBSET Movie : Rebuilt(pelis) \in Bag
  BY DEF NoMovies, Rebuilt, Bag

-------------------------------------------------------------------------------
LEMMA RelaunchedIInv == Relaunched => IInv'
<1> SUFFICES ASSUME Relaunched PROVE IInv'
  OBVIOUS
<1> USE DEF Relaunched
<1>1. TypeOK'
  <2>1. recommendedMovies' \in Bag /\ movies' \in Bag /\ rows' \in Bag
    BY Lists, Zenon
  <2>2. registering' \in 0 .. MaxObservers /\ observers' \in 0 .. MaxObservers
    BY BoundsAssumption
  <2>3. inbox' \in Seq(Event)
    OBVIOUS
  <2> QED BY <2>1, <2>2, <2>3 DEF TypeOK
<1>2. registering' + observers' <= MaxObservers /\ (observers' > 0 <=> view' # "none")
  BY BoundsAssumption
<1>3. rows' = movies' /\ CurrentAtLast'
  BY DEF CurrentAtLast
<1> QED BY <1>1, <1>2, <1>3 DEF IInv

LEMMA InitIInv == Init => IInv
<1> SUFFICES ASSUME Init PROVE IInv
  OBVIOUS
<1> USE DEF Init
<1>1. TypeOK
  <2>1. recommendedMovies \in Bag /\ movies \in Bag /\ rows \in Bag
    BY Lists, Zenon
  <2>2. registering \in 0 .. MaxObservers /\ observers \in 0 .. MaxObservers
    BY BoundsAssumption
  <2>3. inbox \in Seq(Event)
    OBVIOUS
  <2> QED BY <2>1, <2>2, <2>3 DEF TypeOK
<1>2. registering + observers <= MaxObservers /\ (observers > 0 <=> view # "none")
  BY BoundsAssumption
<1>3. rows = movies /\ CurrentAtLast
  BY DEF CurrentAtLast
<1> QED BY <1>1, <1>2, <1>3 DEF IInv

LEMMA NextIInv == IInv /\ [Next]_vars => IInv'
<1> SUFFICES ASSUME IInv, [Next]_vars PROVE IInv'
  OBVIOUS
<1>t. /\ registering \in Nat /\ observers \in Nat /\ inbox \in Seq(Event) /\ cache \in SUBSET Movie
      /\ MaxObservers \in Nat
  BY BoundsAssumption DEF IInv, TypeOK
<1>1. CASE ViewDidAppear
  <2>1. TypeOK'
    BY <1>1, <1>t, Lists DEF IInv, TypeOK, ViewDidAppear
  <2>2. registering' + observers' <= MaxObservers /\ registering' > 0 /\ movies' = NoMovies
    BY <1>1, <1>t DEF ViewDidAppear
  <2>3. CurrentAtLast'
    BY <1>1, <2>2 DEF IInv, CurrentAtLast, ViewDidAppear
  <2> QED BY <1>1, <2>1, <2>2, <2>3 DEF IInv, ViewDidAppear
<1>2. CASE Leave
  BY <1>2 DEF Leave, IInv, TypeOK, CurrentAtLast, firebaseVars
<1>3. ASSUME NEW row, DidSelectRow(row) PROVE IInv'
  <2>1. CASE Relaunched
    BY <2>1, RelaunchedIInv
  <2>2. CASE onScreen' = FALSE /\ UNCHANGED <<recommendedMovies, movies, rows, firebaseVars>>
    BY <2>2 DEF IInv, TypeOK, CurrentAtLast, firebaseVars
  <2> QED BY <1>3, <2>1, <2>2 DEF DidSelectRow
<1>4. CASE HandleValue
  <2> DEFINE pelis == Head(inbox).pelis
  <2>1. /\ inbox # <<>> /\ Head(inbox).type = "value" /\ movies' = Rebuilt(pelis) /\ rows' = movies'
        /\ recommendedMovies' = Rebuilt(pelis) /\ inbox' = Tail(inbox)
        /\ UNCHANGED <<onScreen, registering, observers, view, cache>>
    BY <1>4 DEF HandleValue
  <2>2. /\ Head(inbox) \in Event /\ Tail(inbox) \in Seq(Event)
        /\ LastValue(inbox, cache) => \/ LastValue(Tail(inbox), cache)
                                      \/ Head(inbox) = ValueEvent(cache) /\ NoValue(Tail(inbox))
        /\ ~NoValue(inbox)
    BY <1>t, <2>1, TailValue
  <2>3. pelis \in SUBSET Movie /\ (Head(inbox) = ValueEvent(cache) => pelis = cache)
    BY <1>t, <2>1, <2>2, ValueOf, EventKinds
  <2> HIDE DEF pelis
  <2>4. TypeOK'
    BY <2>1, <2>2, <2>3, Lists DEF IInv, TypeOK
  <2>5. CurrentAtLast'
    BY <2>1, <2>2, <2>3 DEF IInv, CurrentAtLast
  <2> QED BY <2>1, <2>4, <2>5 DEF IInv
<1>5. CASE HandleCancel
  <2>1. /\ inbox # <<>> /\ inbox' = Tail(inbox) /\ Head(inbox).type = "cancel"
        /\ UNCHANGED <<onScreen, recommendedMovies, movies, rows, registering, observers, view, cache>>
    BY <1>5 DEF HandleCancel, screenVars
  <2>2. /\ Tail(inbox) \in Seq(Event)
        /\ LastValue(inbox, cache) => \/ LastValue(Tail(inbox), cache)
                                      \/ Head(inbox) = ValueEvent(cache)
        /\ NoValue(inbox) => NoValue(Tail(inbox))
    BY <1>t, <2>1, TailValue
  <2>3. Head(inbox) # ValueEvent(cache)
    BY <1>t, <2>1, EventKinds
  <2>4. TypeOK'
    BY <2>1, <2>2 DEF IInv, TypeOK
  <2>5. CurrentAtLast'
    BY <2>1, <2>2, <2>3 DEF IInv, CurrentAtLast
  <2> QED BY <2>1, <2>4, <2>5 DEF IInv
<1>6. CASE AddEventRegistration
  <2>1. /\ registering > 0 /\ registering' = registering - 1 /\ observers' = observers + 1
        /\ view' = IF view = "none" THEN "listening" ELSE view
        /\ inbox' = IF view = "complete" THEN Append(inbox, ValueEvent(cache)) ELSE inbox
        /\ UNCHANGED <<onScreen, recommendedMovies, movies, rows, cache>>
    BY <1>6 DEF AddEventRegistration, screenVars
  <2>2. /\ Append(inbox, ValueEvent(cache)) \in Seq(Event)
        /\ LastValue(Append(inbox, ValueEvent(cache)), cache)
    BY <1>t, AppendValue
  <2>3. /\ registering' + observers' <= MaxObservers /\ observers' > 0
        /\ registering' \in 0 .. MaxObservers /\ observers' \in 0 .. MaxObservers
    BY <1>t, <2>1 DEF IInv
  <2>4. TypeOK'
    BY <2>1, <2>2, <2>3 DEF IInv, TypeOK
  <2>5. CurrentAtLast'
    BY <2>1, <2>2 DEF CurrentAtLast
  <2>6. view' # "none"
    BY <2>1
  <2> QED BY <2>1, <2>3, <2>4, <2>5, <2>6 DEF IInv
<1>7. ASSUME NEW pelis \in SUBSET Movie, DataUpdate(pelis) PROVE IInv'
  <2>1. /\ view # "none" /\ view' = "complete" /\ cache' = pelis
        /\ inbox' = inbox \o Raised(ValueEvent(pelis), observers)
        /\ UNCHANGED <<onScreen, recommendedMovies, movies, rows, registering, observers>>
    BY <1>7 DEF DataUpdate, screenVars
  <2>2. observers \in Nat \ {0}
    BY <1>t, <2>1 DEF IInv
  <2>3. inbox' \in Seq(Event) /\ LastValue(inbox', pelis)
    BY <1>t, <2>1, <2>2, ConcatValue
  <2>4. TypeOK'
    BY <2>1, <2>3 DEF IInv, TypeOK
  <2>5. CurrentAtLast'
    BY <2>1, <2>3 DEF CurrentAtLast
  <2> QED BY <2>1, <2>2, <2>4, <2>5 DEF IInv
<1>8. CASE ListenFails
  <2>1. /\ view' = "none" /\ cache' = {} /\ observers' = 0
        /\ inbox' = inbox \o Raised(CancelEvent, observers)
        /\ UNCHANGED <<onScreen, recommendedMovies, movies, rows, registering>>
    BY <1>8 DEF ListenFails, screenVars
  <2>2. inbox' \in Seq(Event)
    <3>1. Raised(CancelEvent, observers) \in Seq(Event)
      BY <1>t, RaisedFacts, EventKinds
    <3> QED BY <1>t, <2>1, <3>1
  <2>3. registering' + observers' <= MaxObservers
    BY <1>t, <2>1 DEF IInv
  <2>4. TypeOK'
    BY <2>1, <2>2, <1>t DEF IInv, TypeOK
  <2> QED BY <2>1, <2>3, <2>4 DEF IInv, CurrentAtLast
<1>9. CASE UNCHANGED vars
  BY <1>9 DEF vars, screenVars, firebaseVars, IInv, TypeOK, CurrentAtLast
<1> QED BY <1>1, <1>2, <1>3, <1>4, <1>5, <1>6, <1>7, <1>8, <1>9 DEF Next, HandleEvent

(* The invariant holds of every behaviour.                                 *)
THEOREM RecommendedInvariant == SafetySpec => []IInv
  BY InitIInv, NextIInv, PTL DEF SafetySpec

(* The lists, the registrations and the queued events keep their types.    *)
THEOREM RecommendedTypeCorrect == SafetySpec => []TypeOK
  BY RecommendedInvariant, PTL DEF IInv

(* With nothing on its way, the list holds each shared movie once and the  *)
(* table shows it, however many observers the appearances have left.       *)
THEOREM ListEndsCurrent == SafetySpec => []ListCurrentWhenQuiet
<1>1. ASSUME IInv, registering = 0, inbox = <<>>, view = "complete"
      PROVE  (\A m \in Movie : movies[m] = IF m \in cache THEN 1 ELSE 0) /\ rows = movies
  <2>1. ~LastValue(inbox, cache)
    BY <1>1 DEF LastValue
  <2>2. movies = Rebuilt(cache) /\ rows = movies
    BY <1>1, <2>1 DEF IInv, CurrentAtLast
  <2> QED BY <2>2 DEF Rebuilt
<1>2. IInv => ListCurrentWhenQuiet
  BY <1>1 DEF ListCurrentWhenQuiet
<1> QED BY <1>2, RecommendedInvariant, PTL

(* Rows beyond the movies, which the tap of a row would trap on, are there *)
(* only from an appearance until an event of it is handled.                *)
THEOREM RowsBeyondOnlyWhenEmptied == SafetySpec => []RowsBeyondMoviesOnlyWhenEmptied
<1>1. ASSUME IInv, rows # movies
      PROVE  movies = NoMovies /\ (view = "complete" => registering > 0 \/ inbox # <<>>)
  <2>1. movies = NoMovies
    BY <1>1 DEF IInv
  <2>2. ASSUME view = "complete", inbox = <<>> PROVE registering > 0
    <3>1. ~LastValue(inbox, cache)
      BY <2>2 DEF LastValue
    <3> QED BY <1>1, <2>2, <3>1 DEF IInv, CurrentAtLast
  <2> QED BY <2>1, <2>2
<1>2. IInv => RowsBeyondMoviesOnlyWhenEmptied
  BY <1>1 DEF RowsBeyondMoviesOnlyWhenEmptied
<1> QED BY <1>2, RecommendedInvariant, PTL
===============================================================================
