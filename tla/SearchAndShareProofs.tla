------------------------ MODULE SearchAndShareProofs ------------------------
(***************************************************************************)
(* Proofs about MovieSearch, for any texts and any number of searches: its *)
(* types, whose spinners may stay on the screen, and when the list is that *)
(* of the newest search; then about SharedMovies, for any number of devices*)
(* and movies and any bound: the types, the bookkeeping of a connection,   *)
(* the order in which the fields of a movie arrive, and that nothing but a *)
(* dead process loses a field of a shared movie.                           *)
(***************************************************************************)
EXTENDS MovieSearch, SharedMovies, FiniteSetTheorems, SequenceTheorems, TLAPS

Block == Manager!Block
Show(l) == Manager!ShowBlock(l)
Hide(l) == Manager!HideBlock(l)
HideAll == Manager!RemoveBlock("searchView")

In(q, b) == \E i \in 1 .. Len(q) : q[i] = b
Once(q, b) == \A i, j \in 1 .. Len(q) : q[i] = b /\ q[j] = b => i = j

(* The loader of a request is shown once: it waits for its timer, or for   *)
(* its block, or is on the screen, and before its request it does none.    *)
ShownOnce(l) ==
  /\ Once(queue, Show(l))
  /\ l \in timers => ~In(queue, Show(l)) /\ l \notin active
  /\ l \in active => ~In(queue, Show(l))
  /\ l \notin DOMAIN requests => l \notin timers /\ l \notin active /\ ~In(queue, Show(l))

(* A search that succeeded with its loader on: the loader is gone, or a    *)
(* block that hides it, itself or through removeLoadingView, is on its way.*)
Leaving(l) ==
  Succeeded(l) /\ l \notin early =>
    /\ l \notin timers /\ ~In(queue, Show(l))
    /\ l \notin active \/ In(queue, Hide(l)) \/ In(queue, HideAll)

IInv ==
  /\ TypeOK
  /\ ListFreshUnlessLate
  /\ \A l \in Request : ShownOnce(l) /\ Leaving(l)

-------------------------------------------------------------------------------
(* Queues of blocks. *)

LEMMA BlockFacts ==
  ASSUME NEW k \in Request, NEW l \in Request
  PROVE  /\ Show(k) \in Block /\ Hide(k) \in Block /\ HideAll \in Block
         /\ Hide(k) # Show(l) /\ HideAll # Show(l) /\ HideAll # Hide(l)
         /\ k # l => Show(k) # Show(l) /\ Hide(k) # Hide(l)
<1> USE DEF Show, Hide, HideAll, Manager!ShowBlock, Manager!HideBlock, Manager!RemoveBlock
<1>1. Show(k) \in Block /\ Hide(k) \in Block /\ HideAll \in Block
  BY DEF Block, Manager!Block
<1>2. /\ Show(l).op = "show" /\ Hide(k).op = "hide" /\ Hide(l).op = "hide" /\ HideAll.op = "removeLoadingView"
      /\ Show(k).loader = k /\ Show(l).loader = l /\ Hide(k).loader = k /\ Hide(l).loader = l
  OBVIOUS
<1>3. Hide(k) # Show(l) /\ HideAll # Show(l) /\ HideAll # Hide(l)
  BY <1>2
<1>4. k # l => Show(k) # Show(l) /\ Hide(k) # Hide(l)
  BY <1>2
<1> QED BY <1>1, <1>3, <1>4

LEMMA HeadBlock ==
  ASSUME NEW b \in Block
  PROVE  /\ b.op = "show" => b.loader \in Request /\ b = Show(b.loader)
         /\ b.op = "hide" => b.loader \in Request /\ b = Hide(b.loader)
         /\ b.op = "removeLoadingView" => b.view = "searchView" /\ b = HideAll
<1> USE DEF Show, Hide, HideAll, Manager!ShowBlock, Manager!HideBlock, Manager!RemoveBlock
<1>1. CASE \E l \in Request : b = Show(l)
  BY <1>1
<1>2. CASE \E l \in Request : b = Hide(l)
  BY <1>2
<1>3. CASE b = HideAll
  BY <1>3
<1>4. (\E l \in Request : b = Show(l)) \/ (\E l \in Request : b = Hide(l)) \/ b = HideAll
  BY DEF Block, Manager!Block
<1> QED BY <1>1, <1>2, <1>3, <1>4

LEMMA AppendIn ==
  ASSUME NEW q \in Seq(Block), NEW x \in Block, NEW b
  PROVE  /\ Append(q, x) \in Seq(Block)
         /\ In(Append(q, x), b) <=> In(q, b) \/ x = b
         /\ Once(q, b) /\ (x # b \/ ~In(q, b)) => Once(Append(q, x), b)
<1> DEFINE t == Append(q, x)
<1>1. t \in Seq(Block) /\ Len(t) = Len(q) + 1 /\ Len(q) \in Nat
      /\ (\A i \in 1 .. Len(q) : t[i] = q[i]) /\ t[Len(q) + 1] = x
  OBVIOUS
<1> HIDE DEF t
<1>2. \A i \in 1 .. Len(t) : i \in 1 .. Len(q) \/ i = Len(q) + 1
  BY <1>1
<1>3. \A i \in 1 .. Len(q) : i \in 1 .. Len(t)
  BY <1>1
<1>4. Len(q) + 1 \in 1 .. Len(t)
  BY <1>1
<1>5. In(t, b) <=> In(q, b) \/ x = b
  BY <1>1, <1>2, <1>3, <1>4 DEF In
<1>6. Once(q, b) /\ (x # b \/ ~In(q, b)) => Once(t, b)
  BY <1>1, <1>2 DEF Once, In
<1> QED BY <1>1, <1>5, <1>6 DEF t

LEMMA TailIn ==
  ASSUME NEW q \in Seq(Block), q # <<>>
  PROVE  /\ Head(q) \in Block /\ Tail(q) \in Seq(Block)
         /\ \A b : In(q, b) <=> Head(q) = b \/ In(Tail(q), b)
         /\ \A b : Once(q, b) => Once(Tail(q), b) /\ (Head(q) = b => ~In(Tail(q), b))
<1> DEFINE t == Tail(q)
<1>1. /\ Head(q) \in Block /\ t \in Seq(Block) /\ Len(q) \in Nat \ {0} /\ Len(t) = Len(q) - 1
      /\ Head(q) = q[1] /\ \A i \in 1 .. Len(t) : t[i] = q[i + 1]
  OBVIOUS
<1> HIDE DEF t
<1>2. \A i \in 1 .. Len(t) : i + 1 \in 1 .. Len(q) /\ i + 1 # 1
  BY <1>1
<1>3. \A i \in 1 .. Len(q) : i = 1 \/ (i - 1 \in 1 .. Len(t) /\ (i - 1) + 1 = i)
  BY <1>1
<1>4. 1 \in 1 .. Len(q)
  BY <1>1
<1>5. ASSUME NEW b PROVE In(q, b) <=> Head(q) = b \/ In(t, b)
  <2>1. ASSUME NEW i \in 1 .. Len(t), t[i] = b PROVE In(q, b)
    BY <2>1, <1>1, <1>2 DEF In
  <2>2. ASSUME NEW i \in 1 .. Len(q), q[i] = b PROVE Head(q) = b \/ In(t, b)
    BY <2>2, <1>1, <1>3 DEF In
  <2> QED BY <2>1, <2>2, <1>1, <1>4 DEF In
<1>6. ASSUME NEW b, Once(q, b) PROVE Once(t, b) /\ (Head(q) = b => ~In(t, b))
  <2>1. ASSUME NEW i \in 1 .. Len(t), NEW j \in 1 .. Len(t), t[i] = b, t[j] = b PROVE i = j
    <3>1. i + 1 = j + 1
      BY <2>1, <1>1, <1>2, <1>6 DEF Once
    <3> QED BY <3>1
  <2>2. ASSUME Head(q) = b, NEW i \in 1 .. Len(t), t[i] = b PROVE FALSE
    BY <2>2, <1>1, <1>2, <1>4, <1>6 DEF Once
  <2> QED BY <2>1, <2>2 DEF Once, In
<1> QED BY <1>1, <1>5, <1>6 DEF t

LEMMA ConcatIn ==
  ASSUME NEW q \in Seq(Block), NEW r \in Seq(Block)
  PROVE  /\ q \o r \in Seq(Block)
         /\ \A b : In(q \o r, b) <=> In(q, b) \/ In(r, b)
         /\ \A b : Once(q, b) /\ ~In(r, b) => Once(q \o r, b)
<1> DEFINE t == q \o r
<1>1. /\ t \in Seq(Block) /\ Len(t) = Len(q) + Len(r) /\ Len(q) \in Nat /\ Len(r) \in Nat
      /\ \A i \in 1 .. Len(q) : t[i] = q[i]
      /\ \A i \in 1 .. Len(r) : t[Len(q) + i] = r[i]
  OBVIOUS
<1> HIDE DEF t
<1>2. \A i \in 1 .. Len(t) : \/ i \in 1 .. Len(q)
                             \/ i - Len(q) \in 1 .. Len(r) /\ Len(q) + (i - Len(q)) = i
  BY <1>1
<1>3. /\ \A i \in 1 .. Len(q) : i \in 1 .. Len(t)
      /\ \A i \in 1 .. Len(r) : Len(q) + i \in 1 .. Len(t)
  BY <1>1
<1>4. ASSUME NEW b PROVE In(t, b) <=> In(q, b) \/ In(r, b)
  <2>1. ASSUME NEW i \in 1 .. Len(t), t[i] = b PROVE In(q, b) \/ In(r, b)
    BY <2>1, <1>1, <1>2 DEF In
  <2>2. ASSUME NEW i \in 1 .. Len(q), q[i] = b PROVE In(t, b)
    BY <2>2, <1>1, <1>3 DEF In
  <2>3. ASSUME NEW i \in 1 .. Len(r), r[i] = b PROVE In(t, b)
    BY <2>3, <1>1, <1>3 DEF In
  <2> QED BY <2>1, <2>2, <2>3 DEF In
<1>5. ASSUME NEW b, Once(q, b), ~In(r, b) PROVE Once(t, b)
  <2>1. \A i \in 1 .. Len(t) : t[i] = b => i \in 1 .. Len(q) /\ q[i] = b
    BY <1>1, <1>2, <1>5 DEF In
  <2> QED BY <2>1, <1>5 DEF Once
<1> QED BY <1>1, <1>4, <1>5 DEF t

-------------------------------------------------------------------------------
LEMMA InitIInv == Init => IInv
<1> SUFFICES ASSUME Init PROVE IInv
  OBVIOUS
<1> USE DEF Init, Manager!LoaderInit
<1>1. TypeOK
  <2>1. Manager!LoaderTypeOK
    BY DEF Manager!LoaderTypeOK
  <2>2. text \in Text
    BY TextAssumption
  <2>3. Len(requests) = 0 /\ requests \in Seq([text : Text, answer : {"none", "success", "failure"}])
    OBVIOUS
  <2>4. Len(requests) <= MaxRequests /\ moviesDto \in 0 .. Len(requests)
    BY <2>3, MaxRequestsAssumption
  <2>5. showsCancelButton \in BOOLEAN /\ alert \in BOOLEAN /\ late \in BOOLEAN /\ early \in SUBSET Request
    OBVIOUS
  <2> HIDE DEF Init
  <2> QED BY <2>1, <2>2, <2>3, <2>4, <2>5 DEF TypeOK
<1>2. DOMAIN requests = {} /\ queue = <<>> /\ Len(queue) = 0
  OBVIOUS
<1>3. ListFreshUnlessLate
  BY <1>2 DEF ListFreshUnlessLate
<1>4. ASSUME NEW l \in Request PROVE ShownOnce(l) /\ Leaving(l)
  BY <1>2 DEF ShownOnce, Leaving, Succeeded, In, Once
<1> QED BY <1>1, <1>3, <1>4 DEF IInv

(* What TypeOK says of the manager's variables.                            *)
LEMMA ManagerTypes ==
  ASSUME TypeOK
  PROVE  timers \subseteq Request /\ active \subseteq Request /\ wanted \subseteq Request
         /\ queue \in Seq(Block)
  BY DEF TypeOK, Manager!LoaderTypeOK, Block

(* A request sent, with or without the loader of its number.               *)
LEMMA SentFacts ==
  ASSUME TypeOK, NEW t \in Text, SearchMovie(t)
  PROVE  /\ requests' \in Seq([text : Text, answer : {"none", "success", "failure"}])
         /\ Len(requests') = Len(requests) + 1 /\ Len(requests') <= MaxRequests
         /\ Len(requests') \in Request /\ Len(requests) \in Nat
         /\ DOMAIN requests' = DOMAIN requests \union {Len(requests')}
         /\ Len(requests') \notin DOMAIN requests
         /\ \A r \in DOMAIN requests : requests'[r] = requests[r]
         /\ requests'[Len(requests')].answer = "none"
<1> DEFINE R == [text : Text, answer : {"none", "success", "failure"}]
           new == [text |-> t, answer |-> "none"]
<1>1. requests \in Seq(R) /\ new \in R /\ new.answer = "none" /\ Len(requests) < MaxRequests
      /\ requests' = Append(requests, new)
  BY DEF TypeOK, SearchMovie
<1> HIDE DEF R, new
<1>2. /\ requests' \in Seq(R) /\ Len(requests') = Len(requests) + 1 /\ Len(requests) \in Nat
      /\ requests'[Len(requests) + 1] = new
      /\ DOMAIN requests = 1 .. Len(requests) /\ DOMAIN requests' = 1 .. Len(requests')
      /\ \A r \in 1 .. Len(requests) : requests'[r] = requests[r]
  BY <1>1
<1>3. Len(requests') <= MaxRequests /\ Len(requests') \in Request
  BY <1>1, <1>2, MaxRequestsAssumption DEF Request
<1>4. /\ DOMAIN requests' = DOMAIN requests \union {Len(requests')}
      /\ Len(requests') \notin DOMAIN requests
  BY <1>2
<1> QED BY <1>1, <1>2, <1>3, <1>4 DEF R

LEMMA SendIInv ==
  ASSUME IInv, NEW t \in Text, SearchMovie(t),
         UNCHANGED <<moviesDto, alert, early, late>>,
         text' \in Text, showsCancelButton' \in BOOLEAN,
         Manager!ShowLoader(Len(requests')) \/ UNCHANGED loaderVars
  PROVE  IInv'
<1> DEFINE n == Len(requests')
<1>0. TypeOK /\ ListFreshUnlessLate /\ \A l \in Request : ShownOnce(l) /\ Leaving(l)
  BY DEF IInv
<1>1. /\ requests' \in Seq([text : Text, answer : {"none", "success", "failure"}])
      /\ n = Len(requests) + 1 /\ n <= MaxRequests /\ n \in Request /\ Len(requests) \in Nat
      /\ DOMAIN requests' = DOMAIN requests \union {n} /\ n \notin DOMAIN requests
      /\ \A r \in DOMAIN requests : requests'[r] = requests[r]
      /\ requests'[n].answer = "none"
  BY <1>0, SentFacts
<1> HIDE DEF n
<1>2. \A r : Succeeded(r)' <=> Succeeded(r)
  BY <1>1 DEF Succeeded
<1>3. Manager!ShowLoader(n) \/ UNCHANGED loaderVars
  BY DEF n
<1>4. timers \subseteq Request /\ active \subseteq Request /\ wanted \subseteq Request /\ queue \in Seq(Block)
  BY <1>0, ManagerTypes
<1>5. CASE Manager!ShowLoader(n)
  <2>1. timers' = timers \union {n} /\ queue' = Append(queue, Hide(n)) /\ wanted' = wanted \union {n}
        /\ active' = active
    BY <1>5 DEF Manager!ShowLoader, Hide
  <2>2. Hide(n) \in Block /\ \A l \in Request : Hide(n) # Show(l)
    BY <1>1, BlockFacts
  <2>3. /\ queue' \in Seq(Block)
        /\ \A b : In(queue, b) => In(queue', b)
        /\ \A l \in Request : In(queue', Show(l)) <=> In(queue, Show(l))
        /\ \A l \in Request : Once(queue, Show(l)) => Once(queue', Show(l))
    BY <2>1, <2>2, <1>4, AppendIn
  <2>4. Manager!LoaderTypeOK'
    BY <2>1, <2>3, <1>1, <1>4 DEF Manager!LoaderTypeOK, Block
  <2>5. TypeOK'
    <3>1. moviesDto' \in 0 .. Len(requests')
      BY <1>0, <1>1 DEF TypeOK, n
    <3> QED BY <3>1, <2>4, <1>0, <1>1 DEF TypeOK, n
  <2>6. ASSUME NEW l \in Request PROVE ShownOnce(l)' /\ Leaving(l)'
    <3>1. ShownOnce(l) /\ Leaving(l)
      BY <1>0
    <3>2. CASE l = n
      <4>1. l \notin DOMAIN requests /\ l \in DOMAIN requests' /\ ~Succeeded(l)'
        BY <3>2, <1>1 DEF Succeeded
      <4> QED BY <4>1, <3>1, <2>1, <2>3 DEF ShownOnce, Leaving
    <3>3. CASE l # n
      <4>1. l \in DOMAIN requests' <=> l \in DOMAIN requests
        BY <3>3, <1>1
      <4>2. ShownOnce(l)'
        BY <4>1, <3>1, <3>3, <2>1, <2>3 DEF ShownOnce
      <4>3. Leaving(l)'
        BY <3>1, <3>3, <2>1, <2>3, <1>2 DEF Leaving
      <4> QED BY <4>2, <4>3
    <3> QED BY <3>2, <3>3
  <2>7. ListFreshUnlessLate'
    BY <1>0, <1>2, <1>1 DEF ListFreshUnlessLate, Succeeded
  <2> QED BY <2>5, <2>6, <2>7 DEF IInv
<1>6. CASE UNCHANGED loaderVars
  <2>1. UNCHANGED <<timers, queue, active, wanted>>
    BY <1>6 DEF loaderVars
  <2>2. TypeOK'
    <3>1. moviesDto' \in 0 .. Len(requests')
      BY <1>0, <1>1 DEF TypeOK, n
    <3>2. Manager!LoaderTypeOK'
      BY <2>1, <1>0 DEF TypeOK, Manager!LoaderTypeOK
    <3> QED BY <3>1, <3>2, <1>0, <1>1 DEF TypeOK, n
  <2>3. ASSUME NEW l \in Request PROVE ShownOnce(l)' /\ Leaving(l)'
    <3>1. ShownOnce(l) /\ Leaving(l)
      BY <1>0
    <3>2. l \in DOMAIN requests => l \in DOMAIN requests'
      BY <1>1
    <3>3. ShownOnce(l)'
      BY <3>1, <3>2, <2>1 DEF ShownOnce
    <3>4. Leaving(l)'
      BY <3>1, <2>1, <1>2 DEF Leaving
    <3> QED BY <3>3, <3>4
  <2>4. ListFreshUnlessLate'
    BY <1>0, <1>2, <1>1 DEF ListFreshUnlessLate, Succeeded
  <2> QED BY <2>2, <2>3, <2>4 DEF IInv
<1> QED BY <1>3, <1>5, <1>6

(* A step of the user that sends nothing.                                  *)
LEMMA QuietIInv ==
  ASSUME IInv, UNCHANGED <<requests, moviesDto, early, late, timers, queue, active, wanted>>,
         text' \in Text, showsCancelButton' \in BOOLEAN, alert' \in BOOLEAN
  PROVE  IInv'
<1>1. TypeOK'
  BY DEF IInv, TypeOK, Manager!LoaderTypeOK
<1>2. \A l \in Request : ShownOnce(l)' /\ Leaving(l)'
  BY DEF IInv, ShownOnce, Leaving, Succeeded
<1>3. ListFreshUnlessLate'
  BY DEF IInv, ListFreshUnlessLate, Succeeded
<1> QED BY <1>1, <1>2, <1>3 DEF IInv

(* The answer of a request, before its list or its alert.                  *)
LEMMA AnsweredFacts ==
  ASSUME IInv, NEW r \in Request, NEW answer \in {"success", "failure"}, Answered(r, answer)
  PROVE  /\ requests' \in Seq([text : Text, answer : {"none", "success", "failure"}])
         /\ Len(requests') = Len(requests) /\ DOMAIN requests' = DOMAIN requests
         /\ DOMAIN requests = 1 .. Len(requests) /\ Len(requests) \in Nat
         /\ r \in 1 .. Len(requests)
         /\ requests'[r].answer = answer
         /\ \A q \in DOMAIN requests : q # r => requests'[q] = requests[q]
         /\ early' \in SUBSET Request /\ early \subseteq early' /\ late' \in BOOLEAN
         /\ r \notin early' => r \in active
         /\ ~late' => ~late /\ \A q \in DOMAIN requests : Succeeded(q) => q <= r
<1> DEFINE R == [text : Text, answer : {"none", "success", "failure"}]
<1>1. /\ requests \in Seq(R) /\ r \in DOMAIN requests /\ requests[r].answer = "none"
      /\ requests' = [requests EXCEPT ![r].answer = answer]
      /\ early' = IF r \in active THEN early ELSE early \union {r}
      /\ late' = (late \/ \E q \in DOMAIN requests : q > r /\ ~Sent(q))
      /\ late \in BOOLEAN /\ early \in SUBSET Request
  BY DEF IInv, TypeOK, Answered, Sent
<1>2. DOMAIN requests = 1 .. Len(requests) /\ Len(requests) \in Nat /\ requests[r] \in R
  <2>1. requests \in Seq(R) /\ r \in DOMAIN requests
    BY <1>1
  <2> HIDE DEF R
  <2> QED BY <2>1, LenProperties
<1>3. /\ requests' \in Seq(R) /\ Len(requests') = Len(requests) /\ DOMAIN requests' = DOMAIN requests
      /\ requests'[r].answer = answer
      /\ \A q \in DOMAIN requests : q # r => requests'[q] = requests[q]
  <2>1. [requests[r] EXCEPT !.answer = answer] \in R /\ [requests[r] EXCEPT !.answer = answer].answer = answer
    BY <1>2
  <2>2. requests' = [requests EXCEPT ![r] = [requests[r] EXCEPT !.answer = answer]]
    BY <1>1
  <2> HIDE DEF R
  <2> DEFINE x == [requests[r] EXCEPT !.answer = answer]
  <2>3. x \in R /\ x.answer = answer /\ requests' = [requests EXCEPT ![r] = x]
    BY <2>1, <2>2
  <2> HIDE DEF x
  <2>4. requests' \in Seq(R) /\ Len(requests') = Len(requests)
        /\ \A j \in 1 .. Len(requests) : requests'[j] = IF j = r THEN x ELSE requests[j]
    BY <1>1, <1>2, <2>3, ExceptSeq
  <2> QED BY <2>3, <2>4, <1>1, <1>2
<1>4. ASSUME ~late' PROVE ~late /\ \A q \in DOMAIN requests : Succeeded(q) => q <= r
  <2>1. ~late /\ \A q \in DOMAIN requests : q > r => Sent(q)
    BY <1>1, <1>4
  <2>2. ASSUME NEW q \in DOMAIN requests, Succeeded(q) PROVE q <= r
    <3>1. ~Sent(q)
      BY <2>2 DEF Sent, Succeeded
    <3>2. ~(q > r) /\ q \in Nat /\ r \in Nat
      BY <3>1, <2>1, <1>1, <1>2
    <3> QED BY <3>2
  <2> QED BY <2>1, <2>2
<1> QED BY <1>1, <1>2, <1>3, <1>4

LEMMA SuccessIInv ==
  ASSUME IInv, NEW r \in Request, SuccessSearch(r)
  PROVE  IInv'
<1>0. TypeOK /\ ListFreshUnlessLate /\ \A l \in Request : ShownOnce(l) /\ Leaving(l)
  BY DEF IInv
<1>1. /\ requests' \in Seq([text : Text, answer : {"none", "success", "failure"}])
      /\ Len(requests') = Len(requests) /\ DOMAIN requests' = DOMAIN requests
      /\ DOMAIN requests = 1 .. Len(requests) /\ Len(requests) \in Nat
      /\ r \in 1 .. Len(requests)
      /\ requests'[r].answer = "success"
      /\ \A q \in DOMAIN requests : q # r => requests'[q] = requests[q]
      /\ early' \in SUBSET Request /\ early \subseteq early' /\ late' \in BOOLEAN
      /\ r \notin early' => r \in active
      /\ ~late' => ~late /\ \A q \in DOMAIN requests : Succeeded(q) => q <= r
  BY AnsweredFacts DEF SuccessSearch
<1>2. /\ queue' = Append(queue, HideAll) /\ UNCHANGED <<timers, active, wanted>>
      /\ moviesDto' = r /\ UNCHANGED <<text, showsCancelButton, alert>>
  BY DEF SuccessSearch, Manager!RemoveLoadingView, HideAll, screenVars
<1>3. timers \subseteq Request /\ active \subseteq Request /\ wanted \subseteq Request /\ queue \in Seq(Block)
  BY <1>0, ManagerTypes
<1>4. HideAll \in Block /\ \A l \in Request : HideAll # Show(l)
  BY BlockFacts
<1>5. /\ queue' \in Seq(Block) /\ In(queue', HideAll)
      /\ \A l \in Request : In(queue', Show(l)) <=> In(queue, Show(l))
      /\ \A l \in Request : Once(queue, Show(l)) => Once(queue', Show(l))
  BY <1>2, <1>3, <1>4, AppendIn
<1>6. TypeOK'
  <2>1. Manager!LoaderTypeOK'
    BY <1>2, <1>3, <1>5 DEF Manager!LoaderTypeOK, Block
  <2>2. moviesDto' \in 0 .. Len(requests') /\ Len(requests') <= MaxRequests
    BY <1>0, <1>1, <1>2 DEF TypeOK
  <2> QED BY <2>1, <2>2, <1>0, <1>1, <1>2 DEF TypeOK
<1>7. ASSUME NEW l \in Request PROVE ShownOnce(l)' /\ Leaving(l)'
  <2>1. ShownOnce(l) /\ Leaving(l)
    BY <1>0
  <2>2. ShownOnce(l)'
    BY <2>1, <1>1, <1>2, <1>5 DEF ShownOnce
  <2>3. Leaving(l)'
    <3>1. CASE l = r
      BY <3>1, <2>1, <1>1, <1>2, <1>5 DEF Leaving, ShownOnce
    <3>2. CASE l # r
      <4>1. Succeeded(l)' => Succeeded(l)
        BY <3>2, <1>1 DEF Succeeded
      <4> QED BY <4>1, <2>1, <1>1, <1>2, <1>5 DEF Leaving
    <3> QED BY <3>1, <3>2
  <2> QED BY <2>2, <2>3
<1>8. ListFreshUnlessLate'
  <2> SUFFICES ASSUME ~late', NEW q \in DOMAIN requests, Succeeded(q)' PROVE q <= r
    BY <1>1, <1>2 DEF ListFreshUnlessLate
  <2>1. CASE q = r
    BY <2>1, <1>1
  <2>2. CASE q # r
    <3>1. Succeeded(q)
      BY <2>2, <1>1 DEF Succeeded
    <3> QED BY <3>1, <1>1
  <2> QED BY <2>1, <2>2
<1> QED BY <1>6, <1>7, <1>8 DEF IInv

LEMMA FailedIInv ==
  ASSUME IInv, NEW r \in Request, Failed(r)
  PROVE  IInv'
<1>0. TypeOK /\ ListFreshUnlessLate /\ \A l \in Request : ShownOnce(l) /\ Leaving(l)
  BY DEF IInv
<1>1. /\ requests' \in Seq([text : Text, answer : {"none", "success", "failure"}])
      /\ Len(requests') = Len(requests) /\ DOMAIN requests' = DOMAIN requests
      /\ requests'[r].answer = "failure"
      /\ \A q \in DOMAIN requests : q # r => requests'[q] = requests[q]
      /\ early' \in SUBSET Request /\ early \subseteq early' /\ late' \in BOOLEAN
      /\ ~late' => ~late
  BY AnsweredFacts DEF Failed
<1>2. /\ alert' = TRUE /\ UNCHANGED <<text, showsCancelButton, moviesDto, timers, queue, active, wanted>>
  BY DEF Failed, loaderVars
<1>3. \A l : Succeeded(l)' => Succeeded(l)
  BY <1>1 DEF Succeeded
<1>4. TypeOK'
  <2>1. Manager!LoaderTypeOK'
    BY <1>0, <1>2 DEF TypeOK, Manager!LoaderTypeOK
  <2> QED BY <2>1, <1>0, <1>1, <1>2 DEF TypeOK
<1>5. \A l \in Request : ShownOnce(l)' /\ Leaving(l)'
  BY <1>0, <1>1, <1>2, <1>3 DEF ShownOnce, Leaving
<1>6. ListFreshUnlessLate'
  BY <1>0, <1>1, <1>2, <1>3 DEF ListFreshUnlessLate
<1> QED BY <1>4, <1>5, <1>6 DEF IInv

-------------------------------------------------------------------------------
(* The run loop. *)

LEMMA FireTimerIInv ==
  ASSUME IInv, NEW l \in Request, Manager!FireTimer(l), UNCHANGED <<screenVars, searchVars>>
  PROVE  IInv'
<1>0. TypeOK /\ ListFreshUnlessLate /\ \A k \in Request : ShownOnce(k) /\ Leaving(k)
  BY DEF IInv
<1>1. /\ l \in timers /\ timers' = timers \ {l} /\ queue' = Append(queue, Show(l))
      /\ UNCHANGED <<active, wanted>>
  BY DEF Manager!FireTimer, Show
<1>2. UNCHANGED <<text, showsCancelButton, alert, requests, moviesDto, early, late>>
  BY DEF screenVars, searchVars
<1>3. timers \subseteq Request /\ active \subseteq Request /\ wanted \subseteq Request /\ queue \in Seq(Block)
  BY <1>0, ManagerTypes
<1>4. Show(l) \in Block /\ \A k \in Request : k # l => Show(l) # Show(k)
  BY BlockFacts
<1>5. /\ queue' \in Seq(Block)
      /\ \A b : In(queue', b) <=> In(queue, b) \/ Show(l) = b
      /\ \A b : Once(queue, b) /\ (Show(l) # b \/ ~In(queue, b)) => Once(queue', b)
  BY <1>1, <1>3, <1>4, AppendIn
<1>6. TypeOK'
  <2>1. Manager!LoaderTypeOK'
    BY <1>1, <1>3, <1>5 DEF Manager!LoaderTypeOK, Block
  <2> QED BY <2>1, <1>0, <1>2 DEF TypeOK
<1>7. ASSUME NEW k \in Request PROVE ShownOnce(k)' /\ Leaving(k)'
  <2>1. ShownOnce(k) /\ Leaving(k)
    BY <1>0
  <2>2. CASE k = l
    <3>1. ShownOnce(k)'
      BY <2>1, <2>2, <1>1, <1>2, <1>5 DEF ShownOnce
    <3>2. Leaving(k)'
      BY <2>1, <2>2, <1>1, <1>2 DEF Leaving, Succeeded
    <3> QED BY <3>1, <3>2
  <2>3. CASE k # l
    <3>1. ShownOnce(k)'
      BY <2>1, <2>3, <1>1, <1>2, <1>4, <1>5 DEF ShownOnce
    <3>2. Leaving(k)'
      BY <2>1, <2>3, <1>1, <1>2, <1>4, <1>5 DEF Leaving, Succeeded
    <3> QED BY <3>1, <3>2
  <2> QED BY <2>2, <2>3
<1>8. ListFreshUnlessLate'
  BY <1>0, <1>2 DEF ListFreshUnlessLate, Succeeded
<1> QED BY <1>6, <1>7, <1>8 DEF IInv

LEMMA RunBlockIInv ==
  ASSUME IInv, Manager!RunBlock, UNCHANGED <<screenVars, searchVars>>
  PROVE  IInv'
<1>0. TypeOK /\ ListFreshUnlessLate /\ \A k \in Request : ShownOnce(k) /\ Leaving(k)
  BY DEF IInv
<1>2. UNCHANGED <<text, showsCancelButton, alert, requests, moviesDto, early, late>>
  BY DEF screenVars, searchVars
<1>3. timers \subseteq Request /\ active \subseteq Request /\ wanted \subseteq Request /\ queue \in Seq(Block)
  BY <1>0, ManagerTypes
<1>4. queue # <<>>
  BY DEF Manager!RunBlock, Manager!RunShow, Manager!RunHide, Manager!RunRemove
<1>5. /\ Head(queue) \in Block /\ Tail(queue) \in Seq(Block)
      /\ \A b : In(queue, b) <=> Head(queue) = b \/ In(Tail(queue), b)
      /\ \A b : Once(queue, b) => Once(Tail(queue), b) /\ (Head(queue) = b => ~In(Tail(queue), b))
  BY <1>3, <1>4, TailIn
<1>6. ListFreshUnlessLate'
  BY <1>0, <1>2 DEF ListFreshUnlessLate, Succeeded
<1>7. CASE Manager!RunShow
  <2> DEFINE l == Head(queue).loader
  <2>1. /\ l \in Request /\ Head(queue) = Show(l) /\ active' = active \union {l} /\ queue' = Tail(queue)
        /\ UNCHANGED <<timers, wanted>>
    BY <1>5, <1>7, HeadBlock DEF Manager!RunShow
  <2> HIDE DEF l
  <2>2. TypeOK'
    <3>1. Manager!LoaderTypeOK'
      BY <2>1, <1>3, <1>5 DEF Manager!LoaderTypeOK, Block
    <3> QED BY <3>1, <1>0, <1>2 DEF TypeOK
  <2>3. ASSUME NEW k \in Request PROVE ShownOnce(k)' /\ Leaving(k)'
    <3>1. ShownOnce(k) /\ Leaving(k)
      BY <1>0
    <3>2. Show(l) # Hide(k) /\ Show(l) # HideAll /\ (k # l => Show(l) # Show(k))
      BY <2>1, BlockFacts
    <3>3. ShownOnce(k)'
      BY <3>1, <3>2, <2>1, <1>2, <1>5 DEF ShownOnce
    <3>4. Leaving(k)'
      BY <3>1, <3>2, <2>1, <1>2, <1>5 DEF Leaving, Succeeded
    <3> QED BY <3>3, <3>4
  <2> QED BY <2>2, <2>3, <1>6 DEF IInv
<1>8. CASE Manager!RunHide
  <2> DEFINE l == Head(queue).loader
  <2>1. /\ l \in Request /\ Head(queue) = Hide(l) /\ active' = active \ {l} /\ queue' = Tail(queue)
        /\ UNCHANGED <<timers, wanted>>
    BY <1>5, <1>8, HeadBlock DEF Manager!RunHide
  <2> HIDE DEF l
  <2>2. TypeOK'
    <3>1. Manager!LoaderTypeOK'
      BY <2>1, <1>3, <1>5 DEF Manager!LoaderTypeOK, Block
    <3> QED BY <3>1, <1>0, <1>2 DEF TypeOK
  <2>3. ASSUME NEW k \in Request PROVE ShownOnce(k)' /\ Leaving(k)'
    <3>1. ShownOnce(k) /\ Leaving(k)
      BY <1>0
    <3>2. Hide(l) # Show(k) /\ Hide(l) # HideAll /\ (k # l => Hide(l) # Hide(k))
      BY <2>1, BlockFacts
    <3>3. ShownOnce(k)'
      BY <3>1, <3>2, <2>1, <1>2, <1>5 DEF ShownOnce
    <3>4. Leaving(k)'
      BY <3>1, <3>2, <2>1, <1>2, <1>5 DEF Leaving, Succeeded
    <3> QED BY <3>3, <3>4
  <2> QED BY <2>2, <2>3, <1>6 DEF IInv
<1>9. CASE Manager!RunRemove
  <2> DEFINE loaders == active \intersect Manager!LoadersOf("searchView")
  <2>1. /\ Head(queue) = HideAll /\ Manager!HideEach(loaders, Tail(queue)) /\ active' = active
    <3>1. Head(queue).op = "removeLoadingView" /\ Manager!HideLoaderOfView(Head(queue).view, Tail(queue))
      BY <1>9 DEF Manager!RunRemove
    <3>2. Head(queue).view = "searchView" /\ Head(queue) = HideAll
      BY <3>1, <1>5, HeadBlock
    <3> QED BY <3>1, <3>2 DEF Manager!HideLoaderOfView
  <2>2. loaders = active
    BY <1>3 DEF Manager!LoadersOf
  <2> HIDE DEF loaders
  <2>3. PICK order \in Bijection(1 .. Cardinality(active), active) :
          /\ timers' = timers \ active
          /\ queue' = Tail(queue) \o [i \in DOMAIN order |-> Hide(order[i])]
          /\ wanted' = wanted \ active
    <3>1. Manager!HideEach(active, Tail(queue))
      BY <2>1, <2>2
    <3>2. Manager!Cardinality(active) = Cardinality(active)
      BY Zenon DEF Manager!Cardinality, Cardinality
    <3>3. Manager!Bijection(1 .. Cardinality(active), active) = Bijection(1 .. Cardinality(active), active)
      BY Zenon DEF Manager!Bijection, Manager!Injection, Manager!Surjection, Manager!IsInjective,
                  Bijection, Injection, Surjection, IsInjective
    <3> QED BY <3>1, <3>2, <3>3, Zenon DEF Manager!HideEach, Hide
  <2> DEFINE n == Cardinality(active)
             hides == [i \in 1 .. n |-> Hide(order[i])]
  <2>4. n \in Nat
    <3>1. IsFiniteSet(Request)
      BY MaxRequestsAssumption, FS_Interval DEF Request
    <3> QED BY <3>1, <1>3, FS_Subset, FS_CardinalityType
  <2>5. order \in [1 .. n -> active] /\ \A l \in active : \E i \in 1 .. n : order[i] = l
    BY <2>3 DEF Bijection, Injection, Surjection
  <2>6. queue' = Tail(queue) \o hides
    BY <2>3, <2>5
  <2>7. hides \in Seq(Block) /\ Len(hides) = n /\ \A i \in 1 .. n : hides[i] = Hide(order[i]) /\ order[i] \in Request
    <3>1. \A i \in 1 .. n : order[i] \in Request /\ Hide(order[i]) \in Block
      BY <2>5, <1>3, BlockFacts
    <3> QED BY <3>1, <2>4
  <2> HIDE DEF n, hides
  <2>8. \A l \in Request : ~In(hides, Show(l))
    BY <2>7, BlockFacts DEF In
  <2>9. \A l \in active : In(hides, Hide(l))
    BY <2>5, <2>7 DEF In
  <2>10. /\ queue' \in Seq(Block)
         /\ \A b : In(queue', b) <=> In(Tail(queue), b) \/ In(hides, b)
         /\ \A b : Once(Tail(queue), b) /\ ~In(hides, b) => Once(queue', b)
    BY <2>6, <2>7, <1>5, ConcatIn
  <2>11. TypeOK'
    <3>1. Manager!LoaderTypeOK'
      BY <2>1, <2>3, <2>10, <1>3 DEF Manager!LoaderTypeOK, Block
    <3> QED BY <3>1, <1>0, <1>2 DEF TypeOK
  <2>12. ASSUME NEW k \in Request PROVE ShownOnce(k)' /\ Leaving(k)'
    <3>1. ShownOnce(k) /\ Leaving(k)
      BY <1>0
    <3>2. HideAll # Show(k) /\ HideAll # Hide(k)
      BY BlockFacts
    <3>3. /\ In(queue', Show(k)) <=> In(queue, Show(k))
          /\ Once(queue, Show(k)) => Once(queue', Show(k))
      BY <3>2, <2>1, <2>8, <2>10, <1>5
    <3>4. ShownOnce(k)'
      BY <3>1, <3>3, <2>1, <2>3, <1>2 DEF ShownOnce
    <3>5. Leaving(k)'
      BY <3>1, <3>3, <2>1, <2>3, <2>9, <2>10, <1>2 DEF Leaving, Succeeded
    <3> QED BY <3>4, <3>5
  <2> QED BY <2>11, <2>12, <1>6 DEF IInv
<1> QED BY <1>7, <1>8, <1>9 DEF Manager!RunBlock

LEMMA NextIInv == IInv /\ [Next]_vars => IInv'
<1> SUFFICES ASSUME IInv, [Next]_vars PROVE IInv'
  OBVIOUS
<1>t. text \in Text /\ showsCancelButton \in BOOLEAN /\ alert \in BOOLEAN
  BY DEF IInv, TypeOK
<1>1. ASSUME NEW t \in Text, TextDidChange(t) PROVE IInv'
  <2>1. text' = t /\ showsCancelButton' = TRUE /\ UNCHANGED <<moviesDto, alert, early, late>>
    BY <1>1 DEF TextDidChange
  <2>2. CASE t \in Long
    BY <1>1, <2>1, <2>2, SendIInv DEF TextDidChange
  <2>3. CASE t \notin Long
    BY <1>1, <1>t, <2>1, <2>3, QuietIInv DEF TextDidChange, loaderVars
  <2> QED BY <2>2, <2>3
<1>2. CASE SearchButtonClicked
  BY <1>2, <1>t, SendIInv DEF SearchButtonClicked
<1>3. CASE CancelButtonClicked
  BY <1>3, <1>t, QuietIInv DEF CancelButtonClicked, searchVars, loaderVars
<1>4. CASE DismissAlert
  BY <1>4, <1>t, QuietIInv DEF DismissAlert, searchVars, loaderVars
<1>5. CASE RunLoop
  <2>1. ASSUME NEW l \in Request, Manager!FireTimer(l) PROVE IInv'
    BY <1>5, <2>1, FireTimerIInv DEF RunLoop
  <2>2. CASE Manager!RunBlock
    BY <1>5, <2>2, RunBlockIInv DEF RunLoop
  <2> QED BY <1>5, <2>1, <2>2 DEF RunLoop, Manager!RunLoop
<1>6. CASE UNCHANGED vars
  BY <1>6, <1>t, QuietIInv DEF vars, screenVars, searchVars, loaderVars
<1> QED BY <1>1, <1>2, <1>3, <1>4, <1>5, <1>6, SuccessIInv, FailedIInv DEF Next

(* The invariant holds of every behaviour.                                 *)
THEOREM SearchInvariant == SafetySpec => []IInv
  BY InitIInv, NextIInv, PTL DEF SafetySpec

(* Texts, requests, the list and the loaders keep their types.             *)
THEOREM SearchTypeCorrect == SafetySpec => []TypeOK
  BY SearchInvariant, PTL DEF IInv

(* The list shows the last search that succeeded, as long as no answer     *)
(* comes after one of a later search.                                      *)
THEOREM ListFresh == SafetySpec => []ListFreshUnlessLate
  BY SearchInvariant, PTL DEF IInv

(* The spinners left when nothing more is to come are those of searches    *)
(* that failed or were answered before their spinner was on.               *)
THEOREM SpinnersAccounted == SafetySpec => []SpinnersLeft
<1>1. ASSUME IInv, Idle, Manager!Quiet, NEW l \in active
      PROVE  requests[l].answer = "failure" \/ l \in early
  <2>1. TypeOK /\ l \in Request /\ ShownOnce(l) /\ Leaving(l)
    BY <1>1, ManagerTypes DEF IInv
  <2>2. queue = <<>> /\ Len(queue) = 0
    BY <1>1 DEF Manager!Quiet
  <2>3. \A b : ~In(queue, b)
    BY <2>2 DEF In
  <2>4. l \in DOMAIN requests /\ ~Sent(l)
    BY <1>1, <2>1 DEF ShownOnce, Idle
  <2>5. Succeeded(l) => l \in early
    BY <1>1, <2>1, <2>3 DEF Leaving
  <2>6. requests[l].answer \in {"none", "success", "failure"}
    <3>1. requests \in Seq([text : Text, answer : {"none", "success", "failure"}])
      BY <2>1 DEF TypeOK
    <3> DEFINE R == [text : Text, answer : {"none", "success", "failure"}]
    <3>2. requests \in Seq(R)
      BY <3>1
    <3>3. requests[l] \in R
      <4> HIDE DEF R
      <4> QED BY <3>2, <2>4
    <3> QED BY <3>3
  <2> QED BY <2>4, <2>5, <2>6 DEF Sent, Succeeded
<1>2. IInv => SpinnersLeft
  BY <1>1 DEF SpinnersLeft
<1> QED BY <1>2, SearchInvariant, PTL
-------------------------------------------------------------------------------

(* The writes of a device the server has not confirmed, oldest first.      *)
Waiting(d) == puts[d] \o calls[d]

Earlier(field) == IF field = "poster" THEN "year" ELSE "title"

(* The write i of a device is not the first of its share to reach the      *)
(* database: the field before it is there, or is the write before it.      *)
InTurn(d, i) ==
  LET put == Waiting(d)[i] IN
    put.movie \notin erased =>
      /\ ~put.nil
      /\ \/ put.field = "title"
         \/ Earlier(put.field) \in pelis[put.movie]
         \/ /\ i > 1
            /\ Waiting(d)[i - 1].movie = put.movie
            /\ Waiting(d)[i - 1].field = Earlier(put.field)

AllInTurn == \A d \in Device : \A i \in 1 .. Len(Waiting(d)) : InTurn(d, i)

(* What the server has answered is in the database.                        *)
AnsweredIsThere ==
  \A d \in Device : \A i \in 1 .. acks[d] :
    puts[d][i].movie \notin erased => puts[d][i].field \in pelis[puts[d][i].movie]

HasWaiting(m, field) ==
  \E d \in Device : \E i \in 1 .. Len(Waiting(d)) :
    Waiting(d)[i].movie = m /\ Waiting(d)[i].field = field

(* A field of a shared movie is in the database or on its way.             *)
NoFieldLost ==
  \A m \in shared \ (erased \union lost) : \A field \in Field :
    field \in pelis[m] \/ HasWaiting(m, field)

ShareInv ==
  /\ ShareTypeOK
  /\ InFlight
  /\ AllInTurn
  /\ AnsweredIsThere
  /\ FieldsInOrder
  /\ NoFieldLost

-------------------------------------------------------------------------------
(* Two sequences end to end.                                               *)
LEMMA Joined ==
  ASSUME NEW p \in Seq(Put), NEW q \in Seq(Put)
  PROVE  /\ Len(p) \in Nat /\ Len(q) \in Nat
         /\ p \o q \in Seq(Put) /\ Len(p \o q) = Len(p) + Len(q)
         /\ \A i \in 1 .. Len(p) : (p \o q)[i] = p[i] /\ p[i] \in Put
         /\ \A i \in 1 .. Len(q) : (p \o q)[Len(p) + i] = q[i]
         /\ \A i \in 1 .. Len(p \o q) :
              /\ (p \o q)[i] \in Put
              /\ i > Len(p) => i - Len(p) \in 1 .. Len(q) /\ (p \o q)[i] = q[i - Len(p)]
  OBVIOUS

(* What is in the two of them is there when they are swapped.              *)
LEMMA Swapped ==
  ASSUME NEW p \in Seq(Put), NEW q \in Seq(Put), NEW i \in 1 .. Len(p \o q)
  PROVE  \E j \in DOMAIN (q \o p) : (q \o p)[j] = (p \o q)[i]
<1>1. CASE i <= Len(p)
  <2>1. Len(q) + i \in DOMAIN (q \o p) /\ (q \o p)[Len(q) + i] = p[i] /\ (p \o q)[i] = p[i]
    BY <1>1
  <2> QED BY <2>1
<1>2. CASE ~(i <= Len(p))
  <2>1. /\ i - Len(p) \in DOMAIN (q \o p) /\ (q \o p)[i - Len(p)] = q[i - Len(p)]
        /\ (p \o q)[i] = q[i - Len(p)]
    BY <1>2
  <2> QED BY <2>1
<1> QED BY <1>1, <1>2

(* The first of them loses its head.                                       *)
LEMMA JoinedTail ==
  ASSUME NEW p \in Seq(Put), NEW q \in Seq(Put), p # <<>>
  PROVE  /\ Len(p) \in Nat \ {0}
         /\ Tail(p) \in Seq(Put) /\ Len(Tail(p)) = Len(p) - 1
         /\ \A i \in 1 .. Len(Tail(p)) : Tail(p)[i] = p[i + 1]
         /\ Len(Tail(p) \o q) = Len(p \o q) - 1 /\ Len(p \o q) \in Nat \ {0}
         /\ (p \o q)[1] = p[1]
         /\ \A i \in 1 .. Len(Tail(p) \o q) : (Tail(p) \o q)[i] = (p \o q)[i + 1]
  OBVIOUS

LEMMA Associative ==
  ASSUME NEW p \in Seq(Put), NEW q \in Seq(Put), NEW r \in Seq(Put)
  PROVE  (p \o q) \o r = p \o (q \o r)
  BY ConcatAssociative

(* The head of the second moves to the end of the first.                   *)
LEMMA Moved ==
  ASSUME NEW p \in Seq(Put), NEW q \in Seq(Put), q # <<>>
  PROVE  /\ Head(q) \in Put /\ Tail(q) \in Seq(Put)
         /\ Append(p, Head(q)) \in Seq(Put) /\ Append(p, Head(q)) \o Tail(q) = p \o q
<1>1. /\ Head(q) \in Put /\ Tail(q) \in Seq(Put) /\ Append(p, Head(q)) \in Seq(Put)
  BY HeadTailProperties
<1>2. Append(p, Head(q)) \o Tail(q) \in Seq(Put) /\ p \o q \in Seq(Put)
  BY <1>1
<1>3. Len(Append(p, Head(q)) \o Tail(q)) = Len(p \o q)
  BY <1>1
<1>4. \A i \in 1 .. Len(p \o q) : (Append(p, Head(q)) \o Tail(q))[i] = (p \o q)[i]
  BY <1>1
<1> QED BY <1>1, <1>2, <1>3, <1>4, SeqEqual

(* The part of a sequence after its first n elements.                      *)
LEMMA Rest ==
  ASSUME NEW p \in Seq(Put), NEW n \in Nat, n <= Len(p)
  PROVE  /\ Len(p) \in Nat
         /\ n = 0 => SubSeq(p, n + 1, Len(p)) = p
         /\ SubSeq(p, n + 1, Len(p)) \in Seq(Put)
         /\ SubSeq(p, n + 1, Len(p)) # <<>> =>
              /\ n + 1 \in 1 .. Len(p)
              /\ Head(SubSeq(p, n + 1, Len(p))) = p[n + 1]
              /\ Tail(SubSeq(p, n + 1, Len(p))) = SubSeq(p, (n + 1) + 1, Len(p))
<1>1. Len(p) \in Nat /\ SubSeq(p, n + 1, Len(p)) \in Seq(Put)
  OBVIOUS
<1>2. SubSeq(p, n + 1, Len(p)) # <<>> => n + 1 \in 1 .. Len(p)
  BY <1>1, SubSeqEmpty
<1>3. n + 1 \in 1 .. Len(p) =>
        /\ Head(SubSeq(p, n + 1, Len(p))) = p[n + 1]
        /\ Tail(SubSeq(p, n + 1, Len(p))) = SubSeq(p, (n + 1) + 1, Len(p))
  BY <1>1, HeadTailOfSubSeq
<1>4. SubSeq(p, 1, Len(p)) = p
  BY SubSeqFull
<1> QED BY <1>1, <1>2, <1>3, <1>4

LEMMA RestOfAppend ==
  ASSUME NEW p \in Seq(Put), NEW n \in Nat, n <= Len(p), NEW x \in Put
  PROVE  /\ Len(Append(p, x)) = Len(p) + 1
         /\ SubSeq(Append(p, x), n + 1, Len(p) + 1) = Append(SubSeq(p, n + 1, Len(p)), x)
         /\ \A i \in 1 .. Len(p) : Append(p, x)[i] = p[i]
<1> DEFINE a == SubSeq(Append(p, x), n + 1, Len(p) + 1)
           b == Append(SubSeq(p, n + 1, Len(p)), x)
<1>1. Len(p) \in Nat /\ Append(p, x) \in Seq(Put) /\ Len(Append(p, x)) = Len(p) + 1
      /\ \A i \in 1 .. Len(p) : Append(p, x)[i] = p[i]
      /\ Append(p, x)[Len(p) + 1] = x
  OBVIOUS
<1>2. a \in Seq(Put) /\ Len(a) = Len(p) + 1 - n
      /\ \A i \in 1 .. (Len(p) + 1 - n) : a[i] = Append(p, x)[n + i]
  BY <1>1
<1>3. b \in Seq(Put) /\ Len(b) = Len(p) + 1 - n
      /\ \A i \in 1 .. (Len(p) - n) : b[i] = p[n + i]
      /\ b[Len(p) + 1 - n] = x
  BY <1>1
<1>4. \A i \in 1 .. Len(a) : a[i] = b[i]
  BY <1>1, <1>2, <1>3
<1>5. a = b
  BY <1>2, <1>3, <1>4, SeqEqual
<1> QED BY <1>1, <1>5

LEMMA RestOfTail ==
  ASSUME NEW p \in Seq(Put), NEW n \in Nat, n > 0, n <= Len(p)
  PROVE  /\ p # <<>>
         /\ SubSeq(Tail(p), (n - 1) + 1, Len(p) - 1) = SubSeq(p, n + 1, Len(p))
<1> DEFINE a == SubSeq(Tail(p), n, Len(p) - 1)
           b == SubSeq(p, n + 1, Len(p))
<1>1. p # <<>> /\ Len(p) \in Nat \ {0}
  OBVIOUS
<1>2. Tail(p) \in Seq(Put) /\ Len(Tail(p)) = Len(p) - 1
      /\ \A i \in 1 .. Len(Tail(p)) : Tail(p)[i] = p[i + 1]
  BY <1>1, HeadTailProperties
<1>3. a \in Seq(Put) /\ Len(a) = Len(p) - n /\ \A i \in 1 .. (Len(p) - n) : a[i] = Tail(p)[n + i - 1]
  <2>1. \A i \in n .. (Len(p) - 1) : Tail(p)[i] \in Put
    BY <1>1, <1>2
  <2>2. /\ a \in Seq(Put)
        /\ Len(a) = IF n <= Len(p) - 1 THEN (Len(p) - 1) - n + 1 ELSE 0
        /\ \A i \in 1 .. (Len(p) - 1) - n + 1 : a[i] = Tail(p)[n + i - 1]
    BY <1>1, <2>1, SubSeqProperties
  <2> HIDE DEF a
  <2> QED BY <2>2, <1>1
<1>4. b \in Seq(Put) /\ Len(b) = Len(p) - n /\ \A i \in 1 .. (Len(p) - n) : b[i] = p[n + i]
  BY <1>1
<1> HIDE DEF a, b
<1>5. ASSUME NEW i \in 1 .. Len(a) PROVE a[i] = b[i]
  <2>1. i \in 1 .. (Len(p) - n) /\ n + i - 1 \in 1 .. (Len(p) - 1) /\ (n + i - 1) + 1 = n + i
    BY <1>1, <1>3, <1>5
  <2> QED BY <2>1, <1>2, <1>3, <1>4
<1>6. a = b /\ (n - 1) + 1 = n
  BY <1>3, <1>4, <1>5, SeqEqual
<1> QED BY <1>1, <1>6 DEF a, b

-------------------------------------------------------------------------------
(* The writes that wait, as a sequence: their types and places.            *)
LEMMA WaitingType ==
  ASSUME ShareTypeOK, NEW d \in Device
  PROVE  /\ puts[d] \in Seq(Put) /\ calls[d] \in Seq(Put) /\ wire[d] \in Seq(Put)
         /\ acks[d] \in Nat /\ connected[d] \in BOOLEAN
         /\ Len(puts[d]) \in Nat /\ Len(calls[d]) \in Nat
         /\ Waiting(d) \in Seq(Put) /\ Len(Waiting(d)) = Len(puts[d]) + Len(calls[d])
         /\ \A i \in 1 .. Len(puts[d]) : Waiting(d)[i] = puts[d][i]
         /\ \A i \in 1 .. Len(Waiting(d)) : Waiting(d)[i] \in Put
<1>1. puts[d] \in Seq(Put) /\ calls[d] \in Seq(Put) /\ wire[d] \in Seq(Put)
      /\ acks[d] \in Nat /\ connected[d] \in BOOLEAN
  BY DEF ShareTypeOK
<1>2. /\ Len(puts[d]) \in Nat /\ Len(calls[d]) \in Nat
      /\ puts[d] \o calls[d] \in Seq(Put)
      /\ Len(puts[d] \o calls[d]) = Len(puts[d]) + Len(calls[d])
      /\ \A i \in 1 .. Len(puts[d]) : (puts[d] \o calls[d])[i] = puts[d][i]
      /\ \A i \in 1 .. Len(puts[d] \o calls[d]) : (puts[d] \o calls[d])[i] \in Put
  <2>1. puts[d] \in Seq(Put) /\ calls[d] \in Seq(Put)
    BY <1>1
  <2> QED BY <2>1, Joined, Zenon
<1> QED BY <1>1, <1>2, Zenon DEF Waiting

LEMMA PutType ==
  ASSUME NEW put \in Put
  PROVE  put.movie \in Movie /\ put.field \in Field /\ put.nil \in BOOLEAN
  BY DEF Put

(* Outstanding sees every write that waits.                                *)
LEMMA WaitingIsOutstanding ==
  ASSUME ShareTypeOK, NEW d \in Device, NEW i \in 1 .. Len(Waiting(d)), NEW m, Waiting(d)[i].movie = m
  PROVE  Outstanding(d, m)
<1>1. puts[d] \in Seq(Put) /\ calls[d] \in Seq(Put)
  BY WaitingType
<1>2. i \in 1 .. Len(puts[d] \o calls[d]) /\ (puts[d] \o calls[d])[i].movie = m
  BY Zenon DEF Waiting
<1>3. \E j \in DOMAIN (calls[d] \o puts[d]) : (calls[d] \o puts[d])[j] = (puts[d] \o calls[d])[i]
  <2>1. i \in 1 .. Len(puts[d] \o calls[d])
    BY <1>2
  <2> QED BY <1>1, <2>1, Swapped, Zenon
<1> QED BY <1>2, <1>3 DEF Outstanding, ToSet

LEMMA InitShareInv == ShareInit => ShareInv
<1> SUFFICES ASSUME ShareInit PROVE ShareInv
  OBVIOUS
<1> USE DEF ShareInit
<1>1. ShareTypeOK
  BY DEF ShareTypeOK, Field
<1>2. \A d \in Device : puts[d] = <<>> /\ calls[d] = <<>> /\ Waiting(d) = <<>> /\ Len(Waiting(d)) = 0
                        /\ wire[d] = <<>> /\ acks[d] = 0 /\ connected[d] = FALSE
  BY DEF Waiting
<1>3. InFlight
  BY <1>2 DEF InFlight
<1>4. AllInTurn /\ AnsweredIsThere
  BY <1>2 DEF AllInTurn, AnsweredIsThere
<1>5. FieldsInOrder /\ NoFieldLost
  BY DEF FieldsInOrder, NoFieldLost
<1> QED BY <1>1, <1>3, <1>4, <1>5 DEF ShareInv

-------------------------------------------------------------------------------
(* A step that leaves the waiting writes, the answers and the database     *)
(* alone keeps what the invariant says of them.                            *)
LEMMA SameWaiting ==
  ASSUME ShareInv, \A d \in Device : Waiting(d)' = Waiting(d),
         UNCHANGED <<pelis, erased, shared, lost>>
  PROVE  AllInTurn' /\ FieldsInOrder' /\ NoFieldLost'
<1>1. AllInTurn'
  BY DEF ShareInv, AllInTurn, InTurn
<1>2. FieldsInOrder'
  BY DEF ShareInv, FieldsInOrder
<1>3. NoFieldLost'
  BY DEF ShareInv, NoFieldLost, HasWaiting
<1> QED BY <1>1, <1>2, <1>3

LEMMA ShareTappedShareInv ==
  ASSUME ShareInv, NEW d \in Device, NEW m \in Movie, NEW loaded \in BOOLEAN,
         ShareTapped(d, m, loaded)
  PROVE  ShareInv'
<1> DEFINE new == [i \in 1 .. 3 |-> [movie |-> m, field |-> FieldOrder[i], nil |-> ~loaded]]
<1>0. ShareTypeOK /\ InFlight /\ AllInTurn /\ AnsweredIsThere /\ FieldsInOrder /\ NoFieldLost
  BY DEF ShareInv
<1>1. /\ new \in Seq(Put) /\ Len(new) = 3
      /\ \A i \in 1 .. 3 : new[i].movie = m /\ new[i].nil = ~loaded
      /\ new[1].field = "title" /\ new[2].field = "year" /\ new[3].field = "poster"
  BY DEF Put, Field, FieldOrder
<1>2. /\ calls' = [calls EXCEPT ![d] = calls[d] \o new]
      /\ shared' = IF loaded THEN shared \union {m} ELSE shared
      /\ erased' = IF loaded THEN erased ELSE erased \union {m}
      /\ UNCHANGED <<pelis, puts, connected, wire, acks, lost>>
  BY <1>0, <1>1 DEF ShareTapped, connectionVars
<1> HIDE DEF new
<1>3. ShareTypeOK'
  <2>1. calls' \in [Device -> Seq(Put)]
    BY <1>0, <1>1, <1>2 DEF ShareTypeOK
  <2> QED BY <2>1, <1>0, <1>2 DEF ShareTypeOK
<1>4. InFlight'
  BY <1>0, <1>2 DEF InFlight
<1>5. /\ Waiting(d)' = Waiting(d) \o new
      /\ \A e \in Device : e # d => Waiting(e)' = Waiting(e)
  <2>1. calls'[d] = calls[d] \o new /\ puts' = puts
    BY <1>2, <1>0 DEF ShareTypeOK
  <2>2. (puts[d] \o calls[d]) \o new = puts[d] \o (calls[d] \o new)
    <3>1. puts[d] \in Seq(Put) /\ calls[d] \in Seq(Put)
      BY <1>0, WaitingType
    <3>2. new \in Seq(Put)
      BY <1>1
    <3> QED BY <3>1, <3>2, Associative, Zenon
  <2> QED BY <2>1, <2>2, <1>2, <1>0 DEF Waiting, ShareTypeOK
<1>6. /\ Len(Waiting(d)') = Len(Waiting(d)) + 3 /\ Len(Waiting(d)) \in Nat
      /\ \A i \in 1 .. Len(Waiting(d)) : Waiting(d)'[i] = Waiting(d)[i]
      /\ \A i \in 1 .. 3 : Waiting(d)'[Len(Waiting(d)) + i] = new[i]
  <2>1. Waiting(d) \in Seq(Put) /\ new \in Seq(Put)
    BY <1>0, <1>1, WaitingType
  <2>2. /\ Len(Waiting(d) \o new) = Len(Waiting(d)) + Len(new) /\ Len(Waiting(d)) \in Nat
        /\ \A i \in 1 .. Len(Waiting(d)) : (Waiting(d) \o new)[i] = Waiting(d)[i]
        /\ \A i \in 1 .. Len(new) : (Waiting(d) \o new)[Len(Waiting(d)) + i] = new[i]
    BY <2>1, Joined, Zenon
  <2> QED BY <2>2, <1>1, <1>5, Zenon
<1>7. erased \subseteq erased' /\ (~loaded => m \in erased')
  BY <1>2
<1>8. AllInTurn'
  <2> SUFFICES ASSUME NEW e \in Device, NEW i \in 1 .. Len(Waiting(e)') PROVE InTurn(e, i)'
    BY DEF AllInTurn
  <2>1. CASE e # d
    <3>1. InTurn(e, i) /\ Waiting(e)' = Waiting(e)
      BY <2>1, <1>0, <1>5 DEF AllInTurn
    <3> QED BY <3>1, <1>2, <1>7 DEF InTurn
  <2>2. CASE e = d /\ i \in 1 .. Len(Waiting(d))
    <3>1. InTurn(d, i) /\ Waiting(d)'[i] = Waiting(d)[i] /\ (i > 1 => Waiting(d)'[i - 1] = Waiting(d)[i - 1])
      BY <2>2, <1>0, <1>6 DEF AllInTurn
    <3> QED BY <3>1, <2>2, <1>2, <1>7 DEF InTurn
  <2>3. CASE e = d /\ i \notin 1 .. Len(Waiting(d))
    <3>1. PICK k \in 1 .. 3 : i = Len(Waiting(d)) + k
      <4>1. i - Len(Waiting(d)) \in 1 .. 3
        BY <2>3, <1>6
      <4> QED BY <4>1, <1>6
    <3>2. Waiting(d)'[i] = new[k]
      BY <3>1, <1>6
    <3>3. k = 1 \/ (k > 1 /\ i > 1 /\ Waiting(d)'[i - 1] = new[k - 1])
      <4>1. CASE k > 1
        <5>1. k - 1 \in 1 .. 3 /\ i - 1 = Len(Waiting(d)) + (k - 1) /\ i > 1
          BY <4>1, <3>1, <1>6
        <5> QED BY <5>1, <4>1, <1>6
      <4> QED BY <4>1
    <3>4. new[k].movie \notin erased' => ~new[k].nil
      BY <1>1, <1>7
    <3>5. k = 1 => new[k].field = "title"
      BY <1>1
    <3>6. k > 1 => new[k - 1].movie = new[k].movie /\ new[k - 1].field = Earlier(new[k].field)
      <4>1. k > 1 => k = 2 \/ k = 3
        OBVIOUS
      <4>2. k = 2 => new[k - 1] = new[1] /\ new[k].field = "year"
        BY <1>1
      <4>3. k = 3 => new[k - 1] = new[2] /\ new[k].field = "poster"
        BY <1>1
      <4> QED BY <4>1, <4>2, <4>3, <1>1 DEF Earlier
    <3> QED BY <3>2, <3>3, <3>4, <3>5, <3>6, <2>3 DEF InTurn
  <2> QED BY <2>1, <2>2, <2>3
<1>9. AnsweredIsThere'
  BY <1>0, <1>2, <1>7 DEF AnsweredIsThere
<1>10. FieldsInOrder'
  BY <1>0, <1>2, <1>7 DEF FieldsInOrder
<1>11. NoFieldLost'
  <2> SUFFICES ASSUME NEW n \in shared' \ (erased' \union lost'), NEW field \in Field
               PROVE field \in pelis'[n] \/ HasWaiting(n, field)'
    BY DEF NoFieldLost
  <2>1. CASE n = m /\ loaded
    <3>1. PICK k \in 1 .. 3 : new[k].field = field
      BY <1>1 DEF Field
    <3>2. Len(Waiting(d)) + k \in 1 .. Len(Waiting(d)') /\ Waiting(d)'[Len(Waiting(d)) + k] = new[k]
      BY <1>6
    <3> QED BY <3>1, <3>2, <2>1, <1>1 DEF HasWaiting
  <2>2. CASE ~(n = m /\ loaded)
    <3>1. n \in shared \ (erased \union lost)
      BY <2>2, <1>2, <1>7
    <3>2. CASE HasWaiting(n, field)
      <4>0. PICK e \in Device : \E i \in 1 .. Len(Waiting(e)) :
              Waiting(e)[i].movie = n /\ Waiting(e)[i].field = field
        BY <3>2 DEF HasWaiting
      <4>1. PICK i \in 1 .. Len(Waiting(e)) : Waiting(e)[i].movie = n /\ Waiting(e)[i].field = field
        BY <4>0
      <4>2. i \in 1 .. Len(Waiting(e)') /\ Waiting(e)'[i] = Waiting(e)[i]
        BY <1>5, <1>6
      <4> QED BY <4>1, <4>2 DEF HasWaiting
    <3> QED BY <3>1, <3>2, <1>0, <1>2 DEF NoFieldLost
  <2> QED BY <2>1, <2>2
<1> QED BY <1>3, <1>4, <1>8, <1>9, <1>10, <1>11 DEF ShareInv

LEMMA SetShareInv ==
  ASSUME ShareInv, NEW d \in Device, Set(d)
  PROVE  ShareInv'
<1>0. ShareTypeOK /\ InFlight /\ AnsweredIsThere
  BY DEF ShareInv
<1>1. /\ calls[d] # <<>> /\ calls[d] \in Seq(Put) /\ puts[d] \in Seq(Put)
      /\ Head(calls[d]) \in Put /\ Tail(calls[d]) \in Seq(Put)
  <2>1. calls[d] # <<>> /\ calls[d] \in Seq(Put) /\ puts[d] \in Seq(Put)
    BY <1>0, WaitingType DEF Set
  <2> QED BY <2>1, Moved
<1>2. /\ calls' = [calls EXCEPT ![d] = Tail(calls[d])]
      /\ puts' = [puts EXCEPT ![d] = Append(puts[d], Head(calls[d]))]
      /\ wire' = IF connected[d] THEN [wire EXCEPT ![d] = Append(wire[d], Head(calls[d]))] ELSE wire
      /\ UNCHANGED <<pelis, connected, acks, shared, erased, lost>>
  BY DEF Set, historyVars
<1>3. ShareTypeOK'
  <2>1. calls' \in [Device -> Seq(Put)] /\ puts' \in [Device -> Seq(Put)]
    BY <1>0, <1>1, <1>2 DEF ShareTypeOK
  <2>2. wire' \in [Device -> Seq(Put)]
    BY <1>0, <1>1, <1>2 DEF ShareTypeOK
  <2> QED BY <2>1, <2>2, <1>0, <1>2 DEF ShareTypeOK
<1>4. \A e \in Device : Waiting(e)' = Waiting(e)
  <2>1. Append(puts[d], Head(calls[d])) \o Tail(calls[d]) = puts[d] \o calls[d]
    BY <1>1, Moved
  <2> QED BY <2>1, <1>0, <1>2 DEF Waiting, ShareTypeOK
<1>5. InFlight'
  <2> SUFFICES ASSUME NEW e \in Device
               PROVE /\ acks'[e] <= Len(puts'[e])
                     /\ wire'[e] = IF connected'[e] THEN SubSeq(puts'[e], acks'[e] + 1, Len(puts'[e])) ELSE <<>>
                     /\ ~connected'[e] => acks'[e] = 0
    BY DEF InFlight
  <2>1. CASE e # d
    BY <2>1, <1>0, <1>2 DEF InFlight, ShareTypeOK
  <2>2. CASE e = d
    <3>1. /\ puts'[d] = Append(puts[d], Head(calls[d])) /\ acks'[d] = acks[d] /\ connected'[d] = connected[d]
          /\ wire'[d] = IF connected[d] THEN Append(wire[d], Head(calls[d])) ELSE wire[d]
      BY <1>0, <1>2 DEF ShareTypeOK
    <3>2. /\ acks[d] \in Nat /\ acks[d] <= Len(puts[d]) /\ Len(puts[d]) \in Nat
          /\ wire[d] = IF connected[d] THEN SubSeq(puts[d], acks[d] + 1, Len(puts[d])) ELSE <<>>
          /\ ~connected[d] => acks[d] = 0
      BY <1>0, WaitingType DEF InFlight
    <3>3. /\ Len(puts'[d]) = Len(puts[d]) + 1
          /\ SubSeq(puts'[d], acks[d] + 1, Len(puts[d]) + 1)
               = Append(SubSeq(puts[d], acks[d] + 1, Len(puts[d])), Head(calls[d]))
      <4>1. /\ Len(Append(puts[d], Head(calls[d]))) = Len(puts[d]) + 1
            /\ SubSeq(Append(puts[d], Head(calls[d])), acks[d] + 1, Len(puts[d]) + 1)
                 = Append(SubSeq(puts[d], acks[d] + 1, Len(puts[d])), Head(calls[d]))
        BY <3>2, <1>1, RestOfAppend, Zenon
      <4> QED BY <4>1, <3>1, Zenon
    <3>4. acks'[d] <= Len(puts'[d])
      BY <3>1, <3>2, <3>3
    <3> QED BY <2>2, <3>1, <3>2, <3>3, <3>4, Zenon
  <2> QED BY <2>1, <2>2
<1>6. AnsweredIsThere'
  <2>1. ASSUME NEW e \in Device, NEW i \in 1 .. acks[e] PROVE puts'[e][i] = puts[e][i]
    <3>1. i \in 1 .. Len(puts[e])
      <4>1. acks[e] \in Nat /\ Len(puts[e]) \in Nat /\ acks[e] <= Len(puts[e])
        BY <1>0, WaitingType DEF InFlight
      <4> QED BY <4>1
    <3>2. e # d => puts'[e] = puts[e]
      BY <1>0, <1>2 DEF ShareTypeOK
    <3>3. e = d => puts'[e] = Append(puts[e], Head(calls[e]))
      BY <1>0, <1>2 DEF ShareTypeOK
    <3>4. e = d => Append(puts[e], Head(calls[e]))[i] = puts[e][i]
      <4>1. puts[d] \in Seq(Put) /\ Head(calls[d]) \in Put
        BY <1>1
      <4>2. \A j \in 1 .. Len(puts[d]) : Append(puts[d], Head(calls[d]))[j] = puts[d][j]
        BY <4>1, AppendProperties, SMT
      <4> QED BY <4>2, <3>1, Zenon
    <3>5. CASE e = d
      BY <3>3, <3>4, <3>5, Zenon
    <3>6. CASE e # d
      BY <3>2, <3>6, Zenon
    <3> QED BY <3>5, <3>6
  <2> SUFFICES ASSUME NEW e \in Device, NEW i \in 1 .. acks'[e], puts'[e][i].movie \notin erased
               PROVE puts'[e][i].field \in pelis[puts'[e][i].movie]
    BY <1>2 DEF AnsweredIsThere
  <2>2. i \in 1 .. acks[e]
    BY <1>2
  <2> QED BY <2>1, <2>2, <1>0, Zenon DEF AnsweredIsThere
<1> QED BY <1>2, <1>3, <1>4, <1>5, <1>6, SameWaiting DEF ShareInv

LEMMA ConnectionShareInv ==
  ASSUME ShareInv, NEW d \in Device, OnReady(d) \/ OnDisconnect(d)
  PROVE  ShareInv'
<1>0. ShareTypeOK /\ InFlight /\ AnsweredIsThere
  BY DEF ShareInv
<1>1. /\ connected' = [connected EXCEPT ![d] = ~connected[d]]
      /\ wire' = [wire EXCEPT ![d] = IF connected[d] THEN <<>> ELSE puts[d]]
      /\ acks' = [acks EXCEPT ![d] = 0]
      /\ UNCHANGED <<pelis, calls, puts, shared, erased, lost>>
  BY <1>0 DEF OnReady, OnDisconnect, historyVars, Restored, InFlight, ShareTypeOK
<1>2. ShareTypeOK'
  <2>1. wire' \in [Device -> Seq(Put)]
    BY <1>0, <1>1, WaitingType DEF ShareTypeOK
  <2> QED BY <2>1, <1>0, <1>1 DEF ShareTypeOK
<1>3. \A e \in Device : Waiting(e)' = Waiting(e)
  BY <1>1 DEF Waiting
<1>4. InFlight'
  <2> SUFFICES ASSUME NEW e \in Device
               PROVE /\ acks'[e] <= Len(puts'[e])
                     /\ wire'[e] = IF connected'[e] THEN SubSeq(puts'[e], acks'[e] + 1, Len(puts'[e])) ELSE <<>>
                     /\ ~connected'[e] => acks'[e] = 0
    BY DEF InFlight
  <2>1. SubSeq(puts[d], 0 + 1, Len(puts[d])) = puts[d] /\ Len(puts[d]) \in Nat
    <3>1. puts[d] \in Seq(Put)
      BY <1>0, WaitingType
    <3> QED BY <3>1, SubSeqFull, LenProperties
  <2>2. CASE e = d
    <3>1. acks'[d] = 0 /\ puts'[d] = puts[d] /\ connected'[d] = ~connected[d]
          /\ wire'[d] = IF connected[d] THEN <<>> ELSE puts[d]
      BY <1>0, <1>1 DEF ShareTypeOK
    <3>2. connected[d] \in BOOLEAN
      BY <1>0, WaitingType
    <3>3. acks'[d] <= Len(puts'[d])
      BY <2>1, <3>1
    <3>4. SubSeq(puts'[d], acks'[d] + 1, Len(puts'[d])) = puts[d]
      BY <2>1, <3>1, Zenon
    <3> QED BY <2>2, <3>1, <3>2, <3>3, <3>4, Zenon
  <2>3. CASE e # d
    BY <2>3, <1>0, <1>1 DEF InFlight, ShareTypeOK
  <2> QED BY <2>2, <2>3
<1>5. AnsweredIsThere'
  BY <1>0, <1>1 DEF AnsweredIsThere, ShareTypeOK
<1> QED BY <1>1, <1>2, <1>3, <1>4, <1>5, SameWaiting DEF ShareInv

LEMMA PutAcknowledgedShareInv ==
  ASSUME ShareInv, NEW d \in Device, PutAcknowledged(d)
  PROVE  ShareInv'
<1>0. ShareTypeOK /\ InFlight /\ AllInTurn /\ AnsweredIsThere /\ FieldsInOrder /\ NoFieldLost
  BY DEF ShareInv
<1>1. /\ acks[d] > 0 /\ acks' = [acks EXCEPT ![d] = acks[d] - 1]
      /\ puts' = [puts EXCEPT ![d] = Tail(puts[d])]
      /\ UNCHANGED <<calls, pelis, connected, wire, shared, erased, lost>>
  BY DEF PutAcknowledged, historyVars
<1>2. /\ puts[d] \in Seq(Put) /\ puts[d] # <<>> /\ Len(puts[d]) \in Nat \ {0}
      /\ acks[d] \in Nat /\ acks[d] <= Len(puts[d])
      /\ Tail(puts[d]) \in Seq(Put) /\ Len(Tail(puts[d])) = Len(puts[d]) - 1
      /\ \A i \in 1 .. Len(Tail(puts[d])) : Tail(puts[d])[i] = puts[d][i + 1]
  <2>1. puts[d] \in Seq(Put) /\ Len(puts[d]) \in Nat /\ acks[d] \in Nat /\ acks[d] <= Len(puts[d])
    BY <1>0, WaitingType DEF InFlight
  <2> QED BY <2>1, <1>1
<1>3. ShareTypeOK'
  <2>1. puts' \in [Device -> Seq(Put)] /\ acks' \in [Device -> Nat]
    BY <1>0, <1>1, <1>2 DEF ShareTypeOK
  <2> QED BY <2>1, <1>0, <1>1 DEF ShareTypeOK
<1>4. InFlight'
  <2> SUFFICES ASSUME NEW e \in Device
               PROVE /\ acks'[e] <= Len(puts'[e])
                     /\ wire'[e] = IF connected'[e] THEN SubSeq(puts'[e], acks'[e] + 1, Len(puts'[e])) ELSE <<>>
                     /\ ~connected'[e] => acks'[e] = 0
    BY DEF InFlight
  <2>1. CASE e # d
    BY <2>1, <1>0, <1>1 DEF InFlight, ShareTypeOK
  <2>2. CASE e = d
    <3>1. acks'[d] = acks[d] - 1 /\ puts'[d] = Tail(puts[d]) /\ connected'[d] = connected[d] /\ wire'[d] = wire[d]
      BY <1>0, <1>1 DEF ShareTypeOK
    <3>2. connected[d] /\ wire[d] = SubSeq(puts[d], acks[d] + 1, Len(puts[d]))
      <4>1. ~connected[d] => acks[d] = 0
        BY <1>0 DEF InFlight
      <4>2. wire[d] = IF connected[d] THEN SubSeq(puts[d], acks[d] + 1, Len(puts[d])) ELSE <<>>
        BY <1>0 DEF InFlight
      <4>3. acks[d] # 0
        BY <1>1
      <4> QED BY <4>1, <4>2, <4>3, Zenon
    <3>3. SubSeq(Tail(puts[d]), (acks[d] - 1) + 1, Len(puts[d]) - 1) = SubSeq(puts[d], acks[d] + 1, Len(puts[d]))
      BY <1>1, <1>2, RestOfTail
    <3>4. acks'[d] <= Len(puts'[d]) /\ Len(puts'[d]) = Len(puts[d]) - 1
      BY <3>1, <1>2
    <3> QED BY <2>2, <3>1, <3>2, <3>3, <3>4
  <2> QED BY <2>1, <2>2
<1>5. /\ Len(Waiting(d)') = Len(Waiting(d)) - 1 /\ Len(Waiting(d)) \in Nat \ {0}
      /\ \A i \in 1 .. Len(Waiting(d)') : Waiting(d)'[i] = Waiting(d)[i + 1]
      /\ Waiting(d)[1] = puts[d][1]
      /\ \A e \in Device : e # d => Waiting(e)' = Waiting(e)
  <2>1. Waiting(d)' = Tail(puts[d]) \o calls[d]
    BY <1>0, <1>1 DEF Waiting, ShareTypeOK
  <2>2. calls[d] \in Seq(Put)
    BY <1>0, WaitingType
  <2>3. \A e \in Device : e # d => Waiting(e)' = Waiting(e)
    BY <1>0, <1>1 DEF Waiting, ShareTypeOK
  <2>4. /\ Len(Tail(puts[d]) \o calls[d]) = Len(puts[d] \o calls[d]) - 1
        /\ Len(puts[d] \o calls[d]) \in Nat \ {0}
        /\ (puts[d] \o calls[d])[1] = puts[d][1]
        /\ \A i \in 1 .. Len(Tail(puts[d]) \o calls[d]) :
             (Tail(puts[d]) \o calls[d])[i] = (puts[d] \o calls[d])[i + 1]
    <3>1. puts[d] \in Seq(Put) /\ puts[d] # <<>>
      BY <1>2
    <3> QED BY <2>2, <3>1, JoinedTail, Zenon
  <2> QED BY <2>1, <2>3, <2>4, Zenon DEF Waiting
<1>6. puts[d][1].movie \notin erased => puts[d][1].field \in pelis[puts[d][1].movie]
  BY <1>0, <1>1, <1>2 DEF AnsweredIsThere
<1>7. AllInTurn'
  <2> SUFFICES ASSUME NEW e \in Device, NEW i \in 1 .. Len(Waiting(e)') PROVE InTurn(e, i)'
    BY DEF AllInTurn
  <2>1. CASE e # d
    <3>1. InTurn(e, i) /\ Waiting(e)' = Waiting(e)
      BY <2>1, <1>0, <1>5 DEF AllInTurn
    <3> QED BY <3>1, <1>1 DEF InTurn
  <2>2. CASE e = d
    <3>1. /\ i + 1 \in 1 .. Len(Waiting(d)) /\ Waiting(d)'[i] = Waiting(d)[i + 1]
          /\ i \in Nat /\ (i + 1) - 1 = i /\ (i > 1 => Waiting(d)'[i - 1] = Waiting(d)[i])
      <4>1. i \in 1 .. Len(Waiting(d)') /\ Len(Waiting(d)') = Len(Waiting(d)) - 1 /\ Len(Waiting(d)) \in Nat
        BY <2>2, <1>5
      <4>2. i \in Nat /\ i + 1 \in 1 .. Len(Waiting(d)) /\ (i + 1) - 1 = i
            /\ (i > 1 => i - 1 \in 1 .. Len(Waiting(d)') /\ (i - 1) + 1 = i)
        BY <4>1
      <4> QED BY <4>1, <4>2, <1>5
    <3>2. InTurn(d, i + 1)
      BY <3>1, <1>0 DEF AllInTurn
    <3>3. i = 1 => Waiting(d)[i] = puts[d][1]
      BY <1>5
    <3> QED BY <3>1, <3>2, <3>3, <2>2, <1>1, <1>6 DEF InTurn
  <2> QED BY <2>1, <2>2
<1>8. AnsweredIsThere'
  <2> SUFFICES ASSUME NEW e \in Device, NEW i \in 1 .. acks'[e],
                      puts'[e][i].movie \notin erased
               PROVE puts'[e][i].field \in pelis[puts'[e][i].movie]
    BY <1>1 DEF AnsweredIsThere
  <2>1. CASE e # d
    BY <2>1, <1>0, <1>1 DEF AnsweredIsThere, ShareTypeOK
  <2>2. CASE e = d
    <3>1. i + 1 \in 1 .. acks[d] /\ puts'[d][i] = puts[d][i + 1]
      BY <2>2, <1>0, <1>1, <1>2 DEF ShareTypeOK
    <3> QED BY <3>1, <2>2, <1>0 DEF AnsweredIsThere
  <2> QED BY <2>1, <2>2
<1>9. FieldsInOrder'
  BY <1>0, <1>1 DEF FieldsInOrder
<1>10. NoFieldLost'
  <2> SUFFICES ASSUME NEW m \in shared \ (erased \union lost), NEW field \in Field,
                      HasWaiting(m, field)
               PROVE field \in pelis[m] \/ HasWaiting(m, field)'
    BY <1>0, <1>1 DEF NoFieldLost
  <2>0. PICK e \in Device : \E i \in 1 .. Len(Waiting(e)) :
          Waiting(e)[i].movie = m /\ Waiting(e)[i].field = field
    BY DEF HasWaiting
  <2>1. PICK i \in 1 .. Len(Waiting(e)) : Waiting(e)[i].movie = m /\ Waiting(e)[i].field = field
    BY <2>0
  <2>2. CASE e # d
    BY <2>1, <2>2, <1>5 DEF HasWaiting
  <2>3. CASE e = d /\ i = 1
    BY <2>1, <2>3, <1>5, <1>6
  <2>4. CASE e = d /\ i # 1
    <3>1. i - 1 \in 1 .. Len(Waiting(d)') /\ (i - 1) + 1 = i
      BY <2>4, <1>5
    <3>2. Waiting(d)'[i - 1] = Waiting(d)[i]
      BY <3>1, <1>5
    <3> QED BY <3>1, <3>2, <2>1, <2>4 DEF HasWaiting
  <2> QED BY <2>2, <2>3, <2>4
<1> QED BY <1>3, <1>4, <1>7, <1>8, <1>9, <1>10 DEF ShareInv

LEMMA ProcessDiesShareInv ==
  ASSUME ShareInv, NEW d \in Device, ProcessDies(d)
  PROVE  ShareInv'
<1>0. ShareTypeOK /\ InFlight /\ AllInTurn /\ AnsweredIsThere /\ FieldsInOrder /\ NoFieldLost
  BY DEF ShareInv
<1>1. /\ calls' = [calls EXCEPT ![d] = <<>>] /\ puts' = [puts EXCEPT ![d] = <<>>]
      /\ connected' = [connected EXCEPT ![d] = FALSE]
      /\ wire' = [wire EXCEPT ![d] = <<>>] /\ acks' = [acks EXCEPT ![d] = 0]
      /\ lost' = lost \union {m \in Movie : Outstanding(d, m)}
      /\ UNCHANGED <<pelis, shared, erased>>
  BY DEF ProcessDies
<1>2. ShareTypeOK'
  BY <1>0, <1>1 DEF ShareTypeOK
<1>3. InFlight'
  <2>1. \A e \in Device : e # d => UNCHANGED <<puts[e], acks[e], wire[e], connected[e]>>
    BY <1>0, <1>1 DEF ShareTypeOK
  <2>2. puts'[d] = <<>> /\ acks'[d] = 0 /\ wire'[d] = <<>> /\ connected'[d] = FALSE /\ Len(<<>>) = 0
    BY <1>0, <1>1 DEF ShareTypeOK
  <2> QED BY <2>1, <2>2, <1>0 DEF InFlight
<1>4. /\ Waiting(d)' = <<>> /\ Len(Waiting(d)') = 0
      /\ \A e \in Device : e # d => Waiting(e)' = Waiting(e)
  BY <1>0, <1>1 DEF Waiting, ShareTypeOK
<1>5. AllInTurn'
  <2> SUFFICES ASSUME NEW e \in Device, NEW i \in 1 .. Len(Waiting(e)') PROVE InTurn(e, i)'
    BY DEF AllInTurn
  <2>1. e # d /\ InTurn(e, i) /\ Waiting(e)' = Waiting(e)
    BY <1>0, <1>4 DEF AllInTurn
  <2> QED BY <2>1, <1>1 DEF InTurn
<1>6. AnsweredIsThere'
  BY <1>0, <1>1 DEF AnsweredIsThere, ShareTypeOK
<1>7. FieldsInOrder'
  BY <1>0, <1>1 DEF FieldsInOrder
<1>8. NoFieldLost'
  <2> SUFFICES ASSUME NEW m \in shared \ (erased \union lost'), NEW field \in Field,
                      HasWaiting(m, field)
               PROVE HasWaiting(m, field)'
    BY <1>0, <1>1 DEF NoFieldLost
  <2>0. PICK e \in Device : \E i \in 1 .. Len(Waiting(e)) :
          Waiting(e)[i].movie = m /\ Waiting(e)[i].field = field
    BY DEF HasWaiting
  <2>1. PICK i \in 1 .. Len(Waiting(e)) : Waiting(e)[i].movie = m /\ Waiting(e)[i].field = field
    BY <2>0
  <2>2. e # d
    <3> SUFFICES ASSUME e = d PROVE FALSE
      OBVIOUS
    <3>3. Outstanding(d, m)
      BY <1>0, <2>1, WaitingIsOutstanding
    <3>4. m \in Movie
      BY <1>0 DEF ShareTypeOK
    <3> QED BY <3>3, <3>4, <1>1
  <2> QED BY <2>1, <2>2, <1>4 DEF HasWaiting
<1> QED BY <1>2, <1>3, <1>5, <1>6, <1>7, <1>8 DEF ShareInv

LEMMA ServerAppliesShareInv ==
  ASSUME ShareInv, NEW d \in Device, ServerApplies(d)
  PROVE  ShareInv'
<1> DEFINE k == acks[d] + 1
           put == puts[d][k]
<1>0. ShareTypeOK /\ InFlight /\ AllInTurn /\ AnsweredIsThere /\ FieldsInOrder /\ NoFieldLost
  BY DEF ShareInv
<1>1. /\ connected[d] /\ wire[d] = SubSeq(puts[d], k, Len(puts[d])) /\ wire[d] # <<>>
      /\ puts[d] \in Seq(Put) /\ acks[d] \in Nat /\ Len(puts[d]) \in Nat /\ acks[d] <= Len(puts[d])
  BY <1>0, WaitingType DEF InFlight, ServerApplies
<1>2. k \in 1 .. Len(puts[d]) /\ k \in Nat /\ Head(wire[d]) = put
      /\ Tail(wire[d]) = SubSeq(puts[d], k + 1, Len(puts[d]))
  <2>1. k \in 1 .. Len(puts[d]) /\ Head(wire[d]) = put
        /\ Tail(wire[d]) = SubSeq(puts[d], k + 1, Len(puts[d]))
    <3>1. puts[d] \in Seq(Put) /\ acks[d] \in Nat /\ acks[d] <= Len(puts[d])
      BY <1>1
    <3>2. SubSeq(puts[d], acks[d] + 1, Len(puts[d])) # <<>> /\ wire[d] = SubSeq(puts[d], acks[d] + 1, Len(puts[d]))
      BY <1>1
    <3>3. /\ acks[d] + 1 \in 1 .. Len(puts[d])
          /\ Head(SubSeq(puts[d], acks[d] + 1, Len(puts[d]))) = puts[d][acks[d] + 1]
          /\ Tail(SubSeq(puts[d], acks[d] + 1, Len(puts[d]))) = SubSeq(puts[d], (acks[d] + 1) + 1, Len(puts[d]))
      BY <3>1, <3>2, Rest, Zenon
    <3> QED BY <3>2, <3>3, Zenon
  <2>2. k \in Nat
    BY <1>1
  <2> QED BY <2>1, <2>2, Zenon
<1>3. put \in Put
  BY <1>1, <1>2, ElementOfSeq, Zenon
<1>4. /\ pelis' = [pelis EXCEPT ![put.movie] = Applied(pelis[put.movie], put)]
      /\ wire' = [wire EXCEPT ![d] = Tail(wire[d])]
      /\ acks' = [acks EXCEPT ![d] = acks[d] + 1]
      /\ UNCHANGED <<calls, puts, connected, shared, erased, lost>>
  BY <1>2 DEF ServerApplies, historyVars
<1>5. put.movie \in Movie /\ put.field \in Field
  BY <1>3, PutType
<1>6. Waiting(d)[k] = put /\ InTurn(d, k) /\ (k > 1 => Waiting(d)[k - 1] = puts[d][k - 1] /\ k - 1 \in 1 .. acks[d])
  <2>1. Len(Waiting(d)) = Len(puts[d]) + Len(calls[d]) /\ Len(calls[d]) \in Nat
        /\ \A i \in 1 .. Len(puts[d]) : Waiting(d)[i] = puts[d][i]
    BY <1>0, WaitingType
  <2>2. k \in 1 .. Len(Waiting(d)) /\ (k > 1 => k - 1 \in 1 .. Len(puts[d]) /\ k - 1 \in 1 .. acks[d])
    <3>1. k = acks[d] + 1 /\ k \in 1 .. Len(puts[d]) /\ acks[d] \in Nat /\ Len(puts[d]) \in Nat
      BY <1>1, <1>2
    <3>2. Len(Waiting(d)) = Len(puts[d]) + Len(calls[d]) /\ Len(calls[d]) \in Nat
      BY <2>1
    <3> HIDE DEF k
    <3>3. k \in 1 .. Len(Waiting(d))
      <4>1. \A a, b \in Nat : \A j \in 1 .. a : j \in 1 .. (a + b)
        OBVIOUS
      <4> QED BY <3>1, <3>2, <4>1, Zenon
    <3>4. k > 1 => k - 1 \in 1 .. Len(puts[d]) /\ k - 1 \in 1 .. acks[d]
      BY <3>1
    <3> QED BY <3>3, <3>4
  <2> QED BY <2>1, <2>2, <1>0, <1>2, Zenon DEF AllInTurn
<1> HIDE DEF put
<1>7. put.movie \notin erased => ~put.nil /\ (put.field = "title" \/ Earlier(put.field) \in pelis[put.movie])
  <2> SUFFICES ASSUME put.movie \notin erased, k > 1, Waiting(d)[k - 1].movie = put.movie,
                      Waiting(d)[k - 1].field = Earlier(put.field)
               PROVE Earlier(put.field) \in pelis[put.movie]
    BY <1>6 DEF InTurn
  <2> QED BY <1>0, <1>6 DEF AnsweredIsThere
<1>8. \A m \in Movie : m \notin erased => pelis[m] \subseteq pelis'[m]
  BY <1>0, <1>4, <1>5, <1>7 DEF Applied, ShareTypeOK
<1>9. put.movie \notin erased => put.field \in pelis'[put.movie]
  BY <1>0, <1>4, <1>5, <1>7 DEF Applied, ShareTypeOK
<1>10. \A e \in Device : Waiting(e)' = Waiting(e)
  BY <1>4 DEF Waiting
<1>11. ShareTypeOK'
  <2>1. pelis' \in [Movie -> SUBSET Field]
    BY <1>0, <1>4, <1>5 DEF ShareTypeOK, Applied
  <2>2. wire' \in [Device -> Seq(Put)] /\ acks' \in [Device -> Nat]
    <3>1. Tail(wire[d]) \in Seq(Put)
      BY <1>0, <1>1, WaitingType
    <3> QED BY <3>1, <1>0, <1>1, <1>4 DEF ShareTypeOK
  <2> QED BY <2>1, <2>2, <1>0, <1>4 DEF ShareTypeOK
<1>12. InFlight'
  <2> SUFFICES ASSUME NEW e \in Device
               PROVE /\ acks'[e] <= Len(puts'[e])
                     /\ wire'[e] = IF connected'[e] THEN SubSeq(puts'[e], acks'[e] + 1, Len(puts'[e])) ELSE <<>>
                     /\ ~connected'[e] => acks'[e] = 0
    BY DEF InFlight
  <2>1. CASE e # d
    BY <2>1, <1>0, <1>4 DEF InFlight, ShareTypeOK
  <2>2. CASE e = d
    <3>1. acks'[d] = k /\ wire'[d] = Tail(wire[d]) /\ puts' = puts /\ connected' = connected
      BY <1>0, <1>4 DEF ShareTypeOK
    <3>2. k <= Len(puts[d])
      BY <1>1, <1>2
    <3> QED BY <2>2, <3>1, <3>2, <1>1, <1>2
  <2> QED BY <2>1, <2>2
<1>13. AllInTurn'
  <2> SUFFICES ASSUME NEW e \in Device, NEW i \in 1 .. Len(Waiting(e)) PROVE InTurn(e, i)'
    BY <1>10 DEF AllInTurn
  <2>1. InTurn(e, i) /\ Waiting(e)[i].movie \in Movie
    BY <1>0, WaitingType, PutType DEF AllInTurn
  <2> QED BY <2>1, <1>4, <1>8, <1>10 DEF InTurn
<1>14. AnsweredIsThere'
  <2> SUFFICES ASSUME NEW e \in Device, NEW i \in 1 .. acks'[e], puts[e][i].movie \notin erased
               PROVE puts[e][i].field \in pelis'[puts[e][i].movie]
    BY <1>4 DEF AnsweredIsThere
  <2>1. CASE e = d /\ i = k
    BY <2>1, <1>9 DEF put
  <2>2. CASE ~(e = d /\ i = k)
    <3>1. i \in 1 .. acks[e]
      BY <2>2, <1>0, <1>1, <1>4 DEF ShareTypeOK
    <3>2. puts[e][i].movie \in Movie
      <4>1. puts[e] \in Seq(Put) /\ i \in 1 .. Len(puts[e])
        <5>1. puts[e] \in Seq(Put) /\ Len(puts[e]) \in Nat /\ acks[e] \in Nat /\ acks[e] <= Len(puts[e])
          BY <1>0, WaitingType DEF InFlight
        <5> QED BY <3>1, <5>1
      <4>2. puts[e][i] \in Put
        BY <4>1
      <4> QED BY <4>2, PutType
    <3> QED BY <3>1, <3>2, <1>0, <1>8 DEF AnsweredIsThere
  <2> QED BY <2>1, <2>2
<1>15. FieldsInOrder'
  <2> SUFFICES ASSUME NEW m \in Movie \ erased
               PROVE pelis'[m] \in {{}, {"title"}, {"title", "year"}, Field}
    BY <1>4 DEF FieldsInOrder
  <2>1. pelis[m] \in {{}, {"title"}, {"title", "year"}, Field}
    BY <1>0 DEF FieldsInOrder
  <2>2. CASE m # put.movie
    BY <2>1, <2>2, <1>0, <1>4 DEF ShareTypeOK
  <2>3. CASE m = put.movie
    <3>1. pelis'[m] = pelis[m] \union {put.field} /\ (put.field = "title" \/ Earlier(put.field) \in pelis[m])
      BY <2>3, <1>0, <1>4, <1>7 DEF ShareTypeOK, Applied
    <3> QED BY <3>1, <2>1, <1>5 DEF Earlier, Field
  <2> QED BY <2>2, <2>3
<1>16. NoFieldLost'
  <2>1. \A m, field : HasWaiting(m, field) => HasWaiting(m, field)'
    BY <1>10 DEF HasWaiting
  <2>2. shared \ (erased \union lost) \subseteq Movie \ erased
    BY <1>0 DEF ShareTypeOK
  <2> QED BY <2>1, <2>2, <1>0, <1>4, <1>8 DEF NoFieldLost
<1> QED BY <1>11, <1>12, <1>13, <1>14, <1>15, <1>16 DEF ShareInv

LEMMA NextShareInv == ShareInv /\ [ShareNext]_sharedVars => ShareInv'
<1> SUFFICES ASSUME ShareInv, [ShareNext]_sharedVars PROVE ShareInv'
  OBVIOUS
<1>1. CASE ShareNext
  BY <1>1, ShareTappedShareInv, SetShareInv, ConnectionShareInv, PutAcknowledgedShareInv, ProcessDiesShareInv,
     ServerAppliesShareInv DEF ShareNext
<1>2. CASE UNCHANGED sharedVars
  <2> USE <1>2 DEF sharedVars, connectionVars, historyVars
  <2>1. \A d \in Device : Waiting(d)' = Waiting(d)
    BY DEF Waiting
  <2>2. ShareTypeOK' /\ InFlight' /\ AnsweredIsThere'
    BY DEF ShareInv, ShareTypeOK, InFlight, AnsweredIsThere
  <2> QED BY <2>1, <2>2, SameWaiting DEF ShareInv
<1> QED BY <1>1, <1>2

(* The invariant holds of every behaviour.                                 *)
THEOREM SharedInvariant == ShareSafetySpec => []ShareInv
  BY InitShareInv, NextShareInv, PTL DEF ShareSafetySpec

(* Every part of the state keeps its type; of the code, an answer of the   *)
(* server always finds an outstanding put to end.                          *)
THEOREM SharedTypeCorrect == ShareSafetySpec => []ShareTypeOK
  BY SharedInvariant, PTL DEF ShareInv

(* FPersistentConnection's bookkeeping: connections that come and go leave *)
(* no put unsent, sent twice on a connection, or ended by the answer of    *)
(* another.                                                                *)
THEOREM InFlightCorrect == ShareSafetySpec => []InFlight
  BY SharedInvariant, PTL DEF ShareInv

(* A movie only ever shared after it was loaded has no year without a      *)
(* title and no poster without a year, whatever is lost or sent again.     *)
THEOREM FieldsArriveInOrder == ShareSafetySpec => []FieldsInOrder
  BY SharedInvariant, PTL DEF ShareInv

(* A shared movie none of whose writes died with a process is complete in  *)
(* the database once no device has a write for it left.                    *)
THEOREM SharedEndsComplete == ShareSafetySpec => []SharedIsComplete
<1>1. ASSUME ShareInv, NEW m \in shared \ (erased \union lost), \A d \in Device : ~Outstanding(d, m)
      PROVE pelis[m] = Field
  <2>1. ShareTypeOK /\ NoFieldLost /\ m \in Movie
    BY <1>1 DEF ShareInv, ShareTypeOK
  <2>2. ASSUME NEW field \in Field PROVE ~HasWaiting(m, field)
    <3> SUFFICES ASSUME NEW d \in Device, NEW i \in 1 .. Len(Waiting(d)), Waiting(d)[i].movie = m
                 PROVE FALSE
      BY DEF HasWaiting
    <3>1. Outstanding(d, m)
      BY <2>1, WaitingIsOutstanding
    <3> QED BY <3>1, <1>1
  <2> QED BY <2>1, <2>2 DEF NoFieldLost, ShareTypeOK
<1>2. ShareInv => SharedIsComplete
  BY <1>1 DEF SharedIsComplete
<1> QED BY <1>2, SharedInvariant, PTL
===============================================================================
