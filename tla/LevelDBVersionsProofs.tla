------------------------ MODULE LevelDBVersionsProofs ------------------------
(***************************************************************************)
(* Proofs about LevelDBVersions: the types, the tables somebody holds, the *)
(* order of the levels, and that a reader finds the last write of a key.   *)
(***************************************************************************)
EXTENDS LevelDBVersions, FiniteSetTheorems, WellFoundedInduction, SequenceTheorems, TLAPS

(* Entries and their order.                                                *)

(* The entries: the numbers that were written.                             *)
Entry == 1..LastSequence

(* What was written has its type. *)
WrittenOK == written \in Seq([key : Key, delete : BOOLEAN])

(* Every set of numbers that has an element has a least one. *)
LEMMA Least ==
  ASSUME NEW S \in SUBSET Nat, S # {}
  PROVE  \E x \in S : \A y \in S : x <= y
<1> DEFINE R == OpToRel(<, Nat)
<1>1. IsWellFoundedOn(R, Nat)
  BY NatLessThanWellFounded
<1>2. \A x, y \in Nat : <<y, x>> \in R <=> y < x
  BY DEF OpToRel
<1> HIDE DEF R
<1>3. PICK x \in S : \A y \in S : ~(<<y, x>> \in R)
  BY <1>1, WFMin
<1>4. ASSUME NEW y \in S
      PROVE  x <= y
  <2>1. x \in Nat /\ y \in Nat
    OBVIOUS
  <2>2. ~(y < x)
    BY <1>2, <1>3, <2>1
  <2> QED BY <2>1, <2>2
<1> QED BY <1>4

(* A sequence has a length, and elements where it says.                    *)
LEMMA SeqShape ==
  ASSUME NEW K, NEW s \in Seq(K)
  PROVE  Len(s) \in Nat /\ \A i \in 1 .. Len(s) : s[i] \in K
OBVIOUS

(* The user key of an entry is a number. *)
LEMMA KeyNat ==
  ASSUME WrittenOK
  PROVE  LastSequence \in Nat /\ \A n \in Entry : KeyOf(n) \in Key /\ KeyOf(n) \in Nat /\ n \in Nat
<1>1. Len(written) \in Nat /\ \A n \in 1 .. Len(written) : written[n] \in [key : Key, delete : BOOLEAN]
  <2> DEFINE K == [key : Key, delete : BOOLEAN]
  <2>1. written \in Seq(K)
    BY DEF WrittenOK
  <2> HIDE DEF K
  <2>2. Len(written) \in Nat /\ \A n \in 1 .. Len(written) : written[n] \in K
    BY <2>1, SeqShape
  <2> QED BY <2>2 DEF K
<1>2. \A n \in 1 .. Len(written) : n \in Nat /\ written[n].key \in Key
  BY <1>1
<1> QED BY <1>1, <1>2, VersionsAssumption DEF Entry, LastSequence, KeyOf

(* Internal keys are in a strict total order. *)
LEMMA Ordered ==
  ASSUME WrittenOK
  PROVE  /\ \A a \in Entry : ~Before(a, a)
         /\ \A a, b \in Entry : Before(a, b) => ~Before(b, a)
         /\ \A a, b \in Entry : a # b => Before(a, b) \/ Before(b, a)
         /\ \A a, b, c \in Entry : Before(a, b) /\ Before(b, c) => Before(a, c)
<1>1. \A n \in Entry : KeyOf(n) \in Nat /\ n \in Nat
  BY KeyNat
<1> QED BY <1>1 DEF Before

(* Of two entries in order, the first has the smaller key.                 *)
LEMMA OrderOfKeys ==
  ASSUME WrittenOK, NEW a \in Entry, NEW b \in Entry
  PROVE  /\ Before(a, b) => KeyOf(a) <= KeyOf(b)
         /\ KeyOf(a) < KeyOf(b) => Before(a, b)
         /\ Before(a, b) /\ KeyOf(a) = KeyOf(b) => b < a
         /\ KeyOf(a) = KeyOf(b) /\ b < a => Before(a, b)
<1>1. KeyOf(a) \in Nat /\ KeyOf(b) \in Nat /\ a \in Nat /\ b \in Nat
  BY KeyNat
<1> QED BY <1>1 DEF Before

(* A set of entries has a first one and a last one.                        *)
LEMMA FirstExists ==
  ASSUME WrittenOK, NEW S \in SUBSET Entry, S # {}
  PROVE  \E a \in S : \A b \in S \ {a} : Before(a, b)
<1> DEFINE With(m) == {n \in S : n <= m}
           Bad == {m \in Nat : With(m) # {} /\ ~\E a \in With(m) : \A b \in With(m) \ {a} : Before(a, b)}
<1>0. LastSequence \in Nat /\ \A n \in Entry : n \in Nat /\ n >= 1 /\ n <= LastSequence
  BY KeyNat DEF Entry
<1>1. S \subseteq Nat /\ LastSequence \in Nat /\ \A n \in S : n >= 1 /\ n <= LastSequence
  BY <1>0
<1>2. Bad = {}
  <2> SUFFICES ASSUME Bad # {} PROVE FALSE
    OBVIOUS
  <2>1. PICK m \in Bad : \A k \in Bad : m <= k
    <3> HIDE DEF Bad
    <3>1. Bad \subseteq Nat
      BY DEF Bad
    <3> QED BY <3>1, Least
  <2>2. m \in Nat /\ With(m) # {} /\ ~\E a \in With(m) : \A b \in With(m) \ {a} : Before(a, b)
    BY <2>1
  <2>3. m # 0
    <3>1. PICK n : n \in S /\ n <= m
      BY <2>2
    <3> QED BY <1>1, <2>2, <3>1
  <2>4. m - 1 \in Nat /\ m - 1 \notin Bad
    BY <2>1, <2>2, <2>3
  <2>5. With(m - 1) # {} => \E a \in With(m - 1) : \A b \in With(m - 1) \ {a} : Before(a, b)
    BY <2>4
  <2> HIDE DEF Bad
  <2>6. With(m) \subseteq With(m - 1) \union {m} /\ With(m - 1) \subseteq With(m)
    <3>1. \A n \in S : n \in Nat
      BY <1>1
    <3>2. \A n \in S : n <= m => n <= m - 1 \/ n = m
      BY <3>1, <2>2
    <3>3. \A n \in S : n <= m - 1 => n <= m
      BY <3>1, <2>2
    <3> QED BY <3>2, <3>3
  <2>7. m \in S
    BY <2>2, <2>5, <2>6
  <2>8. With(m - 1) # {}
    BY <2>2, <2>6, <2>7
  <2>9. PICK a \in With(m - 1) : \A b \in With(m - 1) \ {a} : Before(a, b)
    BY <2>5, <2>8
  <2>10. m \in With(m) /\ a \in With(m) /\ a # m /\ With(m) \subseteq Entry
    <3>1. a \in S /\ a <= m - 1 /\ a \in Nat /\ m \in Nat
      BY <1>1, <2>2, <2>9
    <3>2. a <= m /\ a # m
      BY <3>1
    <3>3. m <= m
      BY <3>1
    <3>4. m \in With(m) /\ a \in With(m)
      BY <2>7, <3>1, <3>2, <3>3
    <3> QED BY <3>2, <3>4
  <2> HIDE DEF Bad, With
  <2>11. Before(a, m) \/ Before(m, a)
    BY <2>10, Ordered
  <2>12. CASE Before(a, m)
    BY <2>2, <2>6, <2>9, <2>10, <2>12
  <2>13. CASE Before(m, a)
    <3>1. \A b \in With(m) \ {m} : b = a \/ Before(a, b)
      BY <2>6, <2>9
    <3>2. \A b \in With(m) \ {m} : Before(m, b)
      BY <3>1, <2>10, <2>13, Ordered
    <3> QED BY <2>2, <2>10, <3>2
  <2> QED BY <2>11, <2>12, <2>13
<1>3. With(LastSequence) = S
  BY <1>1
<1> QED BY <1>1, <1>2, <1>3

(* And a last one.                                                         *)
LEMMA LastExists ==
  ASSUME WrittenOK, NEW S \in SUBSET Entry, S # {}
  PROVE  \E a \in S : \A b \in S \ {a} : Before(b, a)
<1> DEFINE With(m) == {n \in S : n <= m}
           Bad == {m \in Nat : With(m) # {} /\ ~\E a \in With(m) : \A b \in With(m) \ {a} : Before(b, a)}
<1>0. LastSequence \in Nat /\ \A n \in Entry : n \in Nat /\ n >= 1 /\ n <= LastSequence
  BY KeyNat DEF Entry
<1>1. S \subseteq Nat /\ LastSequence \in Nat /\ \A n \in S : n >= 1 /\ n <= LastSequence
  BY <1>0
<1>2. Bad = {}
  <2> SUFFICES ASSUME Bad # {} PROVE FALSE
    OBVIOUS
  <2>1. PICK m \in Bad : \A k \in Bad : m <= k
    <3> HIDE DEF Bad
    <3>1. Bad \subseteq Nat
      BY DEF Bad
    <3> QED BY <3>1, Least
  <2>2. m \in Nat /\ With(m) # {} /\ ~\E a \in With(m) : \A b \in With(m) \ {a} : Before(b, a)
    BY <2>1
  <2>3. m # 0
    <3>1. PICK n : n \in S /\ n <= m
      BY <2>2
    <3> QED BY <1>1, <2>2, <3>1
  <2>4. m - 1 \in Nat /\ m - 1 \notin Bad
    BY <2>1, <2>2, <2>3
  <2>5. With(m - 1) # {} => \E a \in With(m - 1) : \A b \in With(m - 1) \ {a} : Before(b, a)
    BY <2>4
  <2> HIDE DEF Bad
  <2>6. With(m) \subseteq With(m - 1) \union {m} /\ With(m - 1) \subseteq With(m)
    <3>1. \A n \in S : n \in Nat
      BY <1>1
    <3>2. \A n \in S : n <= m => n <= m - 1 \/ n = m
      BY <3>1, <2>2
    <3>3. \A n \in S : n <= m - 1 => n <= m
      BY <3>1, <2>2
    <3> QED BY <3>2, <3>3
  <2>7. m \in S
    BY <2>2, <2>5, <2>6
  <2>8. With(m - 1) # {}
    BY <2>2, <2>6, <2>7
  <2>9. PICK a \in With(m - 1) : \A b \in With(m - 1) \ {a} : Before(b, a)
    BY <2>5, <2>8
  <2>10. m \in With(m) /\ a \in With(m) /\ a # m /\ With(m) \subseteq Entry
    <3>1. a \in S /\ a <= m - 1 /\ a \in Nat /\ m \in Nat
      BY <1>1, <2>2, <2>9
    <3>2. a <= m /\ a # m
      BY <3>1
    <3>3. m <= m
      BY <3>1
    <3>4. m \in With(m) /\ a \in With(m)
      BY <2>7, <3>1, <3>2, <3>3
    <3> QED BY <3>2, <3>4
  <2> HIDE DEF Bad, With
  <2>11. Before(a, m) \/ Before(m, a)
    BY <2>10, Ordered
  <2>12. CASE Before(m, a)
    BY <2>2, <2>6, <2>9, <2>10, <2>12
  <2>13. CASE Before(a, m)
    <3>1. \A b \in With(m) \ {m} : b = a \/ Before(b, a)
      BY <2>6, <2>9
    <3>2. \A b \in With(m) \ {m} : Before(b, m)
      BY <3>1, <2>10, <2>13, Ordered
    <3> QED BY <2>2, <2>10, <3>2
  <2> QED BY <2>11, <2>12, <2>13
<1>3. With(LastSequence) = S
  BY <1>1
<1> QED BY <1>1, <1>2, <1>3

(* FirstEntry and LastEntry are what their names say.                      *)
LEMMA FirstIs ==
  ASSUME WrittenOK, NEW S \in SUBSET Entry, S # {}
  PROVE  FirstEntry(S) \in S /\ \A b \in S : b = FirstEntry(S) \/ Before(FirstEntry(S), b)
BY FirstExists DEF FirstEntry

(* The same of the last entry.                                             *)
LEMMA LastIs ==
  ASSUME WrittenOK, NEW S \in SUBSET Entry, S # {}
  PROVE  LastEntry(S) \in S /\ \A b \in S : b = LastEntry(S) \/ Before(b, LastEntry(S))
BY LastExists DEF LastEntry

----------------------------------------------------------------------------
(* Tables.                                                                 *)

(* No table is empty, and its entries were written. *)
TablesOK == \A f \in DOMAIN files : files[f] # {} /\ files[f] \subseteq Entry

(* The user keys of the table f reach from low or below to high or above:  *)
(* it has one from low on, and one up to high.                             *)
Meets(f, low, high) ==
  (\E a \in files[f] : low <= KeyOf(a)) /\ (\E a \in files[f] : KeyOf(a) <= high)

(* Every entry of f is before every entry of g. *)
Precedes(f, g) == \A a \in files[f], b \in files[g] : Before(a, b)

(* The first and the last entry of a table. *)
LEMMA TableEnds ==
  ASSUME WrittenOK, TablesOK, NEW f \in DOMAIN files
  PROVE  /\ Smallest(f) \in files[f] /\ Largest(f) \in files[f] /\ files[f] \subseteq Entry
         /\ \A a \in files[f] : a = Smallest(f) \/ Before(Smallest(f), a)
         /\ \A a \in files[f] : a = Largest(f) \/ Before(a, Largest(f))
         /\ \A a \in files[f] : KeyOf(Smallest(f)) <= KeyOf(a) /\ KeyOf(a) <= KeyOf(Largest(f))
<1>1. files[f] \in SUBSET Entry /\ files[f] # {}
  BY DEF TablesOK
<1>2. Smallest(f) \in files[f] /\ \A a \in files[f] : a = Smallest(f) \/ Before(Smallest(f), a)
  BY <1>1, FirstIs DEF Smallest
<1>3. Largest(f) \in files[f] /\ \A a \in files[f] : a = Largest(f) \/ Before(a, Largest(f))
  BY <1>1, LastIs DEF Largest
<1>4. ASSUME NEW a \in files[f]
      PROVE  KeyOf(Smallest(f)) <= KeyOf(a) /\ KeyOf(a) <= KeyOf(Largest(f))
  <2>1. a \in Entry /\ Smallest(f) \in Entry /\ Largest(f) \in Entry
    BY <1>1, <1>2, <1>3
  <2>2. KeyOf(a) \in Nat /\ KeyOf(Smallest(f)) \in Nat /\ KeyOf(Largest(f)) \in Nat
    BY <2>1, KeyNat
  <2>3. a = Smallest(f) \/ KeyOf(Smallest(f)) <= KeyOf(a)
    BY <1>2, <2>1, OrderOfKeys
  <2>4. a = Largest(f) \/ KeyOf(a) <= KeyOf(Largest(f))
    BY <1>3, <2>1, OrderOfKeys
  <2> QED BY <2>2, <2>3, <2>4
<1> QED BY <1>1, <1>2, <1>3, <1>4

(* The tables that overlap a range of user keys are those that meet it.    *)
LEMMA OverlapMeets ==
  ASSUME WrittenOK, TablesOK, NEW fs \in SUBSET DOMAIN files, NEW low \in Nat, NEW high \in Nat
  PROVE  \A f \in fs : f \in Overlapping(fs, low, high) <=> Meets(f, low, high)
<1> SUFFICES ASSUME NEW f \in fs
             PROVE  f \in Overlapping(fs, low, high) <=> Meets(f, low, high)
  OBVIOUS
<1>1. f \in DOMAIN files
  OBVIOUS
<1>2. /\ Smallest(f) \in files[f] /\ Largest(f) \in files[f] /\ files[f] \subseteq Entry
      /\ \A a \in files[f] : KeyOf(Smallest(f)) <= KeyOf(a) /\ KeyOf(a) <= KeyOf(Largest(f))
  BY <1>1, TableEnds
<1>3. \A a \in files[f] : KeyOf(a) \in Nat
  BY <1>2, KeyNat
<1>4. low <= KeyOf(Largest(f)) <=> \E a \in files[f] : low <= KeyOf(a)
  BY <1>2, <1>3
<1>5. KeyOf(Smallest(f)) <= high <=> \E a \in files[f] : KeyOf(a) <= high
  BY <1>2, <1>3
<1>6. f \in Overlapping(fs, low, high) <=> KeyOf(Largest(f)) >= low /\ KeyOf(Smallest(f)) <= high
  BY DEF Overlapping
<1>7. KeyOf(Largest(f)) >= low <=> low <= KeyOf(Largest(f))
  BY <1>2, <1>3
<1> QED BY <1>4, <1>5, <1>6, <1>7 DEF Meets

(* They are among those asked about.                                       *)
LEMMA OverlapIn ==
  ASSUME NEW fs, NEW low, NEW high
  PROVE  Overlapping(fs, low, high) \subseteq fs
BY DEF Overlapping

(* The hull of a set of tables. *)
LEMMA HullEnds ==
  ASSUME WrittenOK, TablesOK, NEW fs \in SUBSET DOMAIN files, fs # {}
  PROVE  /\ LowKey(fs) \in Nat /\ HighKey(fs) \in Nat /\ LowKey(fs) <= HighKey(fs)
         /\ \E a \in Entries(fs) : KeyOf(a) = LowKey(fs)
         /\ \E a \in Entries(fs) : KeyOf(a) = HighKey(fs)
         /\ \A a \in Entries(fs) : LowKey(fs) <= KeyOf(a) /\ KeyOf(a) <= HighKey(fs)
<1> DEFINE S == Entries(fs)
<1>1. S \in SUBSET Entry /\ S # {}
  BY DEF TablesOK, Entries
<1> HIDE DEF S
<1>2. /\ FirstEntry(S) \in S /\ \A a \in S : a = FirstEntry(S) \/ Before(FirstEntry(S), a)
      /\ LastEntry(S) \in S /\ \A a \in S : a = LastEntry(S) \/ Before(a, LastEntry(S))
  BY <1>1, FirstIs, LastIs
<1>3. LowKey(fs) = KeyOf(FirstEntry(S)) /\ HighKey(fs) = KeyOf(LastEntry(S))
  BY DEF S, LowKey, HighKey
<1>4. \A a \in S : a \in Entry /\ KeyOf(a) \in Nat
  BY <1>1, KeyNat
<1>5. ASSUME NEW a \in S
      PROVE  LowKey(fs) <= KeyOf(a) /\ KeyOf(a) <= HighKey(fs)
  <2>1. a \in Entry /\ FirstEntry(S) \in Entry /\ LastEntry(S) \in Entry
    BY <1>2, <1>4
  <2>2. KeyOf(a) \in Nat /\ KeyOf(FirstEntry(S)) \in Nat /\ KeyOf(LastEntry(S)) \in Nat
    BY <1>2, <1>4
  <2>3. a = FirstEntry(S) \/ KeyOf(FirstEntry(S)) <= KeyOf(a)
    BY <1>2, <2>1, OrderOfKeys
  <2>4. a = LastEntry(S) \/ KeyOf(a) <= KeyOf(LastEntry(S))
    BY <1>2, <2>1, OrderOfKeys
  <2> QED BY <1>3, <2>2, <2>3, <2>4
<1>6. LowKey(fs) \in Nat /\ HighKey(fs) \in Nat
  BY <1>2, <1>3, <1>4
<1>7. LowKey(fs) <= HighKey(fs)
  BY <1>2, <1>3, <1>5
<1> QED BY <1>2, <1>3, <1>5, <1>6, <1>7 DEF S

(* Two tables in order: the largest key of the one is before the smallest  *)
(* of the other.                                                           *)
LEMMA PrecedesIs ==
  ASSUME WrittenOK, TablesOK, NEW f \in DOMAIN files, NEW g \in DOMAIN files
  PROVE  Precedes(f, g) <=> Before(Largest(f), Smallest(g))
<1>1. /\ Largest(f) \in files[f] /\ Smallest(g) \in files[g]
      /\ files[f] \subseteq Entry /\ files[g] \subseteq Entry
      /\ \A a \in files[f] : a = Largest(f) \/ Before(a, Largest(f))
      /\ \A b \in files[g] : b = Smallest(g) \/ Before(Smallest(g), b)
  BY TableEnds
<1>2. ASSUME Before(Largest(f), Smallest(g)), NEW a \in files[f], NEW b \in files[g]
      PROVE  Before(a, b)
  <2>1. a \in Entry /\ b \in Entry /\ Largest(f) \in Entry /\ Smallest(g) \in Entry
    BY <1>1
  <2>2. Before(a, Smallest(g))
    BY <1>1, <1>2, <2>1, Ordered
  <2> QED BY <1>1, <2>1, <2>2, Ordered
<1> QED BY <1>1, <1>2 DEF Precedes

(* Order of tables that do not interleave. *)
LEMMA InFrontIs ==
  ASSUME WrittenOK, TablesOK, NEW f \in DOMAIN files, NEW g \in DOMAIN files,
         Precedes(f, g) \/ Precedes(g, f)
  PROVE  InFront(f, g) <=> Precedes(f, g)
<1>1. /\ Smallest(f) \in files[f] /\ Smallest(g) \in files[g]
      /\ files[f] \subseteq Entry /\ files[g] \subseteq Entry
  BY TableEnds
<1>2. Precedes(f, g) => Before(Smallest(f), Smallest(g))
  BY <1>1 DEF Precedes
<1>3. Precedes(g, f) => Before(Smallest(g), Smallest(f))
  BY <1>1 DEF Precedes
<1>4. ~(Before(Smallest(f), Smallest(g)) /\ Before(Smallest(g), Smallest(f)))
  BY <1>1, Ordered
<1> QED BY <1>2, <1>3, <1>4 DEF InFront

(* Precedes is a strict order of tables. *)
LEMMA PrecedesOrder ==
  ASSUME WrittenOK, TablesOK, NEW f \in DOMAIN files, NEW g \in DOMAIN files
  PROVE  /\ ~Precedes(f, f)
         /\ ~(Precedes(f, g) /\ Precedes(g, f))
         /\ \A h \in DOMAIN files : Precedes(f, g) /\ Precedes(g, h) => Precedes(f, h)
<1>1. /\ Smallest(f) \in files[f] /\ Smallest(g) \in files[g]
      /\ files[f] \subseteq Entry /\ files[g] \subseteq Entry
  BY TableEnds
<1>2. ~Precedes(f, f)
  BY <1>1, Ordered DEF Precedes
<1>3. ~(Precedes(f, g) /\ Precedes(g, f))
  BY <1>1, Ordered DEF Precedes
<1>4. ASSUME NEW h \in DOMAIN files, Precedes(f, g), Precedes(g, h)
      PROVE  Precedes(f, h)
  <2> SUFFICES ASSUME NEW a \in files[f], NEW c \in files[h]
               PROVE  Before(a, c)
    BY DEF Precedes
  <2>1. Before(a, Smallest(g)) /\ Before(Smallest(g), c)
    BY <1>1, <1>4 DEF Precedes
  <2>2. a \in Entry /\ c \in Entry /\ Smallest(g) \in Entry
    BY <1>1 DEF TablesOK
  <2> QED BY <2>1, <2>2, Ordered
<1> QED BY <1>2, <1>3, <1>4

----------------------------------------------------------------------------
(* The tables of a level, and those that overlap a range.                  *)

(* The tables of the current version are on disk. *)
CurrentOK == current \in [Level -> SUBSET DOMAIN files]

(* The tables of a level do not interleave. *)
Apart(level) == \A f, g \in current[level] : f # g => Precedes(f, g) \/ Precedes(g, f)

(* Two tables have entries of the same user key. *)
Share(f, g) == \E a \in files[f], b \in files[g] : KeyOf(a) = KeyOf(b)

(* Tables of a level without a gap: at level 0 with all they meet, below   *)
(* with all between any two.                                               *)
Convex(level, fs) ==
  /\ fs \subseteq current[level] /\ fs # {}
  /\ level = 0 => \A f \in fs : Meeting(level, f) \subseteq fs
  /\ level > 0 => \A f, h \in fs : \A g \in current[level] : Precedes(f, g) /\ Precedes(g, h) => g \in fs

(* Every user key in the hull of the tables is in the range of one. *)
Covered(fs) ==
  \A k \in Nat : /\ \E a \in Entries(fs) : KeyOf(a) <= k
                 /\ \E a \in Entries(fs) : k <= KeyOf(a)
                 => \E f \in fs : Meets(f, k, k)

(* What Meeting finds. *)
LEMMA MeetingIs ==
  ASSUME WrittenOK, TablesOK, CurrentOK, NEW level \in Level, NEW f \in DOMAIN files, NEW g \in current[level]
  PROVE  g \in Meeting(level, f) <=> /\ \E a \in files[f], b \in files[g] : KeyOf(a) <= KeyOf(b)
                                     /\ \E a \in files[f], b \in files[g] : KeyOf(b) <= KeyOf(a)
<1>1. current[level] \in SUBSET DOMAIN files /\ g \in DOMAIN files
  BY DEF CurrentOK
<1>2. /\ Smallest(f) \in files[f] /\ Largest(f) \in files[f] /\ files[f] \subseteq Entry
      /\ \A a \in files[f] : KeyOf(Smallest(f)) <= KeyOf(a) /\ KeyOf(a) <= KeyOf(Largest(f))
  BY TableEnds
<1>3. (\A a \in files[f] : KeyOf(a) \in Nat) /\ (\A a \in files[g] : KeyOf(a) \in Nat)
  BY <1>1, KeyNat DEF TablesOK
<1>4. KeyOf(Smallest(f)) \in Nat /\ KeyOf(Largest(f)) \in Nat
  BY <1>2, <1>3
<1>5. g \in Meeting(level, f) <=> Meets(g, KeyOf(Smallest(f)), KeyOf(Largest(f)))
  BY <1>1, <1>4, OverlapMeets DEF Meeting
<1>6. (\E b \in files[g] : KeyOf(Smallest(f)) <= KeyOf(b))
        <=> \E a \in files[f], b \in files[g] : KeyOf(a) <= KeyOf(b)
  BY <1>2, <1>3, <1>4
<1>7. (\E b \in files[g] : KeyOf(b) <= KeyOf(Largest(f)))
        <=> \E a \in files[f], b \in files[g] : KeyOf(b) <= KeyOf(a)
  BY <1>2, <1>3, <1>4
<1> QED BY <1>5, <1>6, <1>7 DEF Meets

(* Tables that share a user key meet. *)
LEMMA SharingMeets ==
  ASSUME WrittenOK, TablesOK, CurrentOK, NEW level \in Level, NEW f \in DOMAIN files, NEW g \in current[level],
         Share(f, g)
  PROVE  g \in Meeting(level, f)
<1>1. PICK a \in files[f], b \in files[g] : KeyOf(a) = KeyOf(b)
  BY DEF Share
<1>2. KeyOf(a) \in Nat
  BY KeyNat DEF TablesOK
<1>3. KeyOf(a) <= KeyOf(b) /\ KeyOf(b) <= KeyOf(a)
  BY <1>1, <1>2
<1> QED BY <1>3, MeetingIs

(* GetOverlappingInputs finds tables of the level, those that meet the     *)
(* range among them.                                                       *)
LEMMA InputsOfRange ==
  ASSUME WrittenOK, TablesOK, CurrentOK, NEW level \in Level, NEW low \in Nat, NEW high \in Nat
  PROVE  /\ OverlappingInputs(level, low, high) \subseteq current[level]
         /\ \A f \in current[level] : Meets(f, low, high) => f \in OverlappingInputs(level, low, high)
         /\ level > 0 => \A f \in OverlappingInputs(level, low, high) : Meets(f, low, high)
<1>1. current[level] \in SUBSET DOMAIN files
  BY DEF CurrentOK
<1>2. \A f \in current[level] : f \in Overlapping(current[level], low, high) <=> Meets(f, low, high)
  BY <1>1, OverlapMeets
<1>3. Overlapping(current[level], low, high) \subseteq current[level]
  BY OverlapIn
<1> QED BY <1>2, <1>3 DEF OverlappingInputs

(* At level 0 it finds with a table all it meets. *)
LEMMA InputsClosed ==
  ASSUME NEW low \in Nat, NEW high \in Nat, NEW f \in OverlappingInputs(0, low, high)
  PROVE  Meeting(0, f) \subseteq OverlappingInputs(0, low, high)
<1> DEFINE met == Overlapping(current[0], low, high)
           closed == {fs \in SUBSET current[0] : met \subseteq fs /\ \A g \in fs : Meeting(0, g) \subseteq fs}
<1>1. OverlappingInputs(0, low, high) = {g \in current[0] : \A fs \in closed : g \in fs}
  BY DEF OverlappingInputs
<1>2. Meeting(0, f) \subseteq current[0]
  BY OverlapIn DEF Meeting
<1>3. \A fs \in closed : Meeting(0, f) \subseteq fs
  BY <1>1
<1> QED BY <1>1, <1>2, <1>3

(* And no more than must be. *)
LEMMA InputsLeast ==
  ASSUME NEW low \in Nat, NEW high \in Nat, NEW fs \in SUBSET current[0],
         Overlapping(current[0], low, high) \subseteq fs, \A g \in fs : Meeting(0, g) \subseteq fs
  PROVE  OverlappingInputs(0, low, high) \subseteq fs
BY DEF OverlappingInputs

(* GetOverlappingInputs takes tables without a gap.                        *)
LEMMA InputsConvex ==
  ASSUME WrittenOK, TablesOK, CurrentOK, NEW level \in Level, NEW low \in Nat, NEW high \in Nat,
         OverlappingInputs(level, low, high) # {}
  PROVE  Convex(level, OverlappingInputs(level, low, high))
<1> DEFINE o == OverlappingInputs(level, low, high)
<1>1. o \subseteq current[level] /\ current[level] \subseteq DOMAIN files
  BY InputsOfRange DEF CurrentOK
<1>2. ASSUME level > 0, NEW f \in o, NEW h \in o, NEW g \in current[level], Precedes(f, g), Precedes(g, h)
      PROVE  g \in o
  <2>1. PICK a \in files[f] : low <= KeyOf(a)
    BY <1>2, InputsOfRange DEF Meets
  <2>2. PICK c \in files[h] : KeyOf(c) <= high
    BY <1>2, InputsOfRange DEF Meets
  <2>3. PICK b \in files[g] : TRUE
    BY <1>1 DEF TablesOK
  <2>4. a \in Entry /\ b \in Entry /\ c \in Entry
    BY <1>1, <2>1, <2>2, <2>3 DEF TablesOK
  <2>5. KeyOf(a) <= KeyOf(b) /\ KeyOf(b) <= KeyOf(c)
    BY <1>2, <2>4, OrderOfKeys DEF Precedes
  <2>6. KeyOf(a) \in Nat /\ KeyOf(b) \in Nat /\ KeyOf(c) \in Nat
    BY <2>4, KeyNat
  <2>7. low <= KeyOf(b) /\ KeyOf(b) <= high
    BY <2>1, <2>2, <2>5, <2>6
  <2> QED BY <2>3, <2>7, InputsOfRange DEF Meets
<1>3. level = 0 => \A f \in o : Meeting(level, f) \subseteq o
  BY InputsClosed
<1> QED BY <1>1, <1>2, <1>3 DEF Convex

(* The tables that meet the hull of tables without a gap leave none.       *)
LEMMA InputsCovered ==
  ASSUME WrittenOK, TablesOK, CurrentOK, NEW level \in Level,
         NEW C \in SUBSET DOMAIN files, C # {}, Covered(C)
  PROVE  Covered(OverlappingInputs(level, LowKey(C), HighKey(C)) \union C)
<1>1. PICK low \in Nat, high \in Nat : low = LowKey(C) /\ high = HighKey(C)
  BY HullEnds
<1>2. /\ \E a \in Entries(C) : KeyOf(a) = low
      /\ \E a \in Entries(C) : KeyOf(a) = high
      /\ \A a \in Entries(C) : low <= KeyOf(a) /\ KeyOf(a) <= high
  BY <1>1, HullEnds
<1>3. PICK o : o = OverlappingInputs(level, low, high)
  OBVIOUS
<1>4. o \subseteq current[level] /\ current[level] \subseteq DOMAIN files
  BY <1>3, InputsOfRange DEF CurrentOK
<1> SUFFICES ASSUME NEW k \in Nat, NEW a \in Entries(o \union C), KeyOf(a) <= k,
                    NEW b \in Entries(o \union C), k <= KeyOf(b),
                    \A f \in o \union C : ~Meets(f, k, k)
             PROVE  FALSE
  BY <1>1, <1>3 DEF Covered
<1>5. \A f \in o : \A n \in files[f] : n \in Entry /\ KeyOf(n) \in Nat
  BY <1>4, KeyNat DEF TablesOK
<1>6. ~(low <= k /\ k <= high)
  <2> SUFFICES ASSUME low <= k, k <= high PROVE FALSE
    OBVIOUS
  <2>1. (\E c \in Entries(C) : KeyOf(c) <= k) /\ (\E c \in Entries(C) : k <= KeyOf(c))
    BY <1>2
  <2> QED BY <2>1 DEF Covered
<1>7. \A f \in o : (\A n \in files[f] : k < KeyOf(n)) \/ (\A n \in files[f] : KeyOf(n) < k)
  <2> TAKE f \in o
  <2>1. ~Meets(f, k, k) /\ \A n \in files[f] : KeyOf(n) \in Nat
    BY <1>5
  <2> QED BY <2>1 DEF Meets
<1>8. CASE k < low
  <2>1. PICK f \in o : a \in files[f]
    <3>1. a \notin Entries(C)
      <4>1. \A c \in Entries(C) : KeyOf(c) \in Nat
        BY KeyNat DEF Entries, TablesOK
      <4> QED BY <1>2, <1>8, <4>1
    <3> QED BY <3>1 DEF Entries
  <2> DEFINE s == {g \in o : \A n \in files[g] : k < KeyOf(n)}
  <2>2. \A g \in o : (\E n \in files[g] : k < KeyOf(n)) => g \in s
    BY <1>5, <1>7
  <2>3. \A g \in current[level] : Meets(g, low, high) => g \in s
    <3> TAKE g \in current[level]
    <3> HAVE Meets(g, low, high)
    <3>1. g \in o
      BY <1>3, InputsOfRange
    <3>2. PICK n \in files[g] : low <= KeyOf(n)
      BY DEF Meets
    <3>3. k < KeyOf(n)
      BY <1>5, <1>8, <3>1, <3>2
    <3> QED BY <2>2, <3>1, <3>3
  <2>4. f \notin s
    BY <1>5, <2>1
  <2>5. CASE level > 0
    BY <1>3, <2>1, <2>3, <2>4, <2>5, InputsOfRange
  <2>6. CASE level = 0
    <3>1. \A g \in s : Meeting(level, g) \subseteq s
      <4> SUFFICES ASSUME NEW g \in s, NEW h \in Meeting(level, g)
                   PROVE  h \in s
        OBVIOUS
      <4>1. h \in o /\ h \in current[level] /\ g \in DOMAIN files
        BY <1>3, <1>4, <2>6, InputsClosed
      <4>2. PICK c \in files[g], d \in files[h] : KeyOf(c) <= KeyOf(d)
        BY <4>1, MeetingIs
      <4>3. k < KeyOf(c)
        OBVIOUS
      <4>4. k < KeyOf(d)
        BY <1>5, <4>1, <4>2, <4>3
      <4> QED BY <2>2, <4>1, <4>4
    <3>2. Overlapping(current[level], low, high) \subseteq s
      <4>1. \A g \in Overlapping(current[level], low, high) : g \in current[level] /\ Meets(g, low, high)
        BY <1>4, OverlapMeets, OverlapIn
      <4> QED BY <2>3, <4>1
    <3>3. s \in SUBSET current[level]
      BY <1>4
    <3> HIDE DEF s
    <3>4. o \subseteq s
      BY <1>3, <2>6, <3>1, <3>2, <3>3, InputsLeast
    <3> QED BY <2>1, <2>4, <3>4
  <2> QED BY <2>5, <2>6 DEF Level
<1>9. CASE high < k
  <2>1. PICK f \in o : b \in files[f]
    <3>1. b \notin Entries(C)
      <4>1. \A c \in Entries(C) : KeyOf(c) \in Nat
        BY KeyNat DEF Entries, TablesOK
      <4> QED BY <1>2, <1>9, <4>1
    <3> QED BY <3>1 DEF Entries
  <2> DEFINE s == {g \in o : \A n \in files[g] : KeyOf(n) < k}
  <2>2. \A g \in o : (\E n \in files[g] : KeyOf(n) < k) => g \in s
    BY <1>5, <1>7
  <2>3. \A g \in current[level] : Meets(g, low, high) => g \in s
    <3> TAKE g \in current[level]
    <3> HAVE Meets(g, low, high)
    <3>1. g \in o
      BY <1>3, InputsOfRange
    <3>2. PICK n \in files[g] : KeyOf(n) <= high
      BY DEF Meets
    <3>3. KeyOf(n) < k
      BY <1>5, <1>9, <3>1, <3>2
    <3> QED BY <2>2, <3>1, <3>3
  <2>4. f \notin s
    BY <1>5, <2>1
  <2>5. CASE level > 0
    BY <1>3, <2>1, <2>3, <2>4, <2>5, InputsOfRange
  <2>6. CASE level = 0
    <3>1. \A g \in s : Meeting(level, g) \subseteq s
      <4> SUFFICES ASSUME NEW g \in s, NEW h \in Meeting(level, g)
                   PROVE  h \in s
        OBVIOUS
      <4>1. h \in o /\ h \in current[level] /\ g \in DOMAIN files
        BY <1>3, <1>4, <2>6, InputsClosed
      <4>2. PICK c \in files[g], d \in files[h] : KeyOf(d) <= KeyOf(c)
        BY <4>1, MeetingIs
      <4>3. KeyOf(c) < k
        OBVIOUS
      <4>4. KeyOf(d) < k
        BY <1>5, <4>1, <4>2, <4>3
      <4> QED BY <2>2, <4>1, <4>4
    <3>2. Overlapping(current[level], low, high) \subseteq s
      <4>1. \A g \in Overlapping(current[level], low, high) : g \in current[level] /\ Meets(g, low, high)
        BY <1>4, OverlapMeets, OverlapIn
      <4> QED BY <2>3, <4>1
    <3>3. s \in SUBSET current[level]
      BY <1>4
    <3> HIDE DEF s
    <3>4. o \subseteq s
      BY <1>3, <2>6, <3>1, <3>2, <3>3, InputsLeast
    <3> QED BY <2>1, <2>4, <3>4
  <2> QED BY <2>5, <2>6 DEF Level
<1> QED BY <1>6, <1>8, <1>9

----------------------------------------------------------------------------
(* AddBoundaryInputs.                                                      *)

(* The tables of a level behind some of it, and those that begin with the  *)
(* user key that another one ends with (AddBoundaryInputs).                *)
Behind(level, fs) == {f \in current[level] : Before(LastEntry(Entries(fs)), Smallest(f))}
Joined(level, f) == \E g \in current[level] : /\ KeyOf(Largest(g)) = KeyOf(Smallest(f))
                                              /\ Before(Largest(g), Smallest(f))

(* What AddBoundaryInputs adds. *)
LEMMA BoundaryIs ==
  ASSUME NEW level, NEW fs, fs # {}
  PROVE  AddBoundaryInputs(level, fs)
           = fs \union {f \in Behind(level, fs) :
                          \A g \in Behind(level, fs) : InFront(f, g) \/ Joined(level, g)}
BY DEF AddBoundaryInputs, Behind, Joined

(* It adds to its inputs tables of the level only. *)
LEMMA BoundaryIn ==
  ASSUME NEW level, NEW fs, fs \subseteq current[level]
  PROVE  fs \subseteq AddBoundaryInputs(level, fs) /\ AddBoundaryInputs(level, fs) \subseteq current[level]
BY DEF AddBoundaryInputs

(* The last entry of some tables. *)
LEMMA LastOfTables ==
  ASSUME WrittenOK, TablesOK, NEW fs \in SUBSET DOMAIN files, fs # {}
  PROVE  /\ LastEntry(Entries(fs)) \in Entry
         /\ \E f \in fs : LastEntry(Entries(fs)) \in files[f]
         /\ \A a \in Entries(fs) : a \in Entry /\ (a = LastEntry(Entries(fs)) \/ Before(a, LastEntry(Entries(fs))))
<1> DEFINE S == Entries(fs)
<1>1. S \in SUBSET Entry /\ S # {}
  BY DEF TablesOK, Entries
<1> HIDE DEF S
<1>2. LastEntry(S) \in S /\ \A a \in S : a = LastEntry(S) \/ Before(a, LastEntry(S))
  BY <1>1, LastIs
<1>3. \E f \in fs : LastEntry(S) \in files[f]
  BY <1>2 DEF S, Entries
<1> QED BY <1>1, <1>2, <1>3 DEF S

(* A table behind the last entry, against a table that is not. *)
LEMMA BehindAfter ==
  ASSUME WrittenOK, TablesOK, CurrentOK, NEW level \in Level, NEW fs \in SUBSET current[level], fs # {},
         NEW f \in Behind(level, fs)
  PROVE  f \in current[level] /\ f \in DOMAIN files /\ \A n \in files[f] : Before(LastEntry(Entries(fs)), n)
<1>1. current[level] \in SUBSET DOMAIN files /\ fs \in SUBSET DOMAIN files
  BY DEF CurrentOK
<1>2. f \in current[level] /\ f \in DOMAIN files /\ Before(LastEntry(Entries(fs)), Smallest(f))
  BY <1>1 DEF Behind
<1>3. LastEntry(Entries(fs)) \in Entry
  BY <1>1, LastOfTables
<1>4. Smallest(f) \in Entry /\ files[f] \subseteq Entry /\ \A n \in files[f] : n = Smallest(f) \/ Before(Smallest(f), n)
  BY <1>2, TableEnds
<1> QED BY <1>2, <1>3, <1>4, Ordered

(* At level 0, where the inputs have met all they overlap, it adds nothing.*)
LEMMA NoBoundaryAtZero ==
  ASSUME WrittenOK, TablesOK, CurrentOK, 0 \in Level, NEW fs, Convex(0, fs)
  PROVE  AddBoundaryInputs(0, fs) = fs
<1>1. /\ fs \in SUBSET current[0] /\ fs # {} /\ current[0] \in SUBSET DOMAIN files /\ fs \in SUBSET DOMAIN files
      /\ \A f \in fs : Meeting(0, f) \subseteq fs
  BY DEF Convex, CurrentOK
<1> DEFINE last == LastEntry(Entries(fs))
           firsts == {Smallest(g) : g \in Behind(0, fs)}
<1> SUFFICES ASSUME NEW f \in Behind(0, fs), \A g \in Behind(0, fs) : InFront(f, g) \/ Joined(0, g)
             PROVE  FALSE
  BY <1>1, BoundaryIs
<1>2. \A g \in Behind(0, fs) : g \in current[0] /\ g \in DOMAIN files /\ Before(last, Smallest(g))
  BY <1>1 DEF Behind
<1>3. \A g \in Behind(0, fs) : Smallest(g) \in Entry
  BY <1>2, TableEnds
<1>4. firsts \in SUBSET Entry /\ firsts # {}
  BY <1>3
<1>5. PICK e \in firsts : \A b \in firsts \ {e} : Before(e, b)
  <2> HIDE DEF firsts
  <2> QED BY <1>4, FirstExists
<1>6. PICK g \in Behind(0, fs) : e = Smallest(g)
  BY <1>5
<1>7. \A h \in Behind(0, fs) : ~Before(Smallest(h), e)
  <2> TAKE h \in Behind(0, fs)
  <2>1. Smallest(h) = e \/ Before(e, Smallest(h))
    BY <1>5
  <2>2. e \in Entry /\ Smallest(h) \in Entry
    BY <1>3, <1>6
  <2> QED BY <2>1, <2>2, Ordered
<1>8. Joined(0, g)
  BY <1>6, <1>7 DEF InFront
<1>9. PICK h \in current[0] : KeyOf(Largest(h)) = KeyOf(e) /\ Before(Largest(h), e)
  BY <1>6, <1>8 DEF Joined
<1>10. /\ h \in DOMAIN files /\ Smallest(h) \in files[h] /\ Largest(h) \in files[h] /\ files[h] \subseteq Entry
       /\ (Smallest(h) = Largest(h) \/ Before(Smallest(h), Largest(h)))
  BY <1>1, TableEnds
<1>11. last \in Entry /\ e \in Entry /\ Smallest(h) \in Entry /\ Largest(h) \in Entry
  BY <1>1, <1>3, <1>6, <1>10, LastOfTables
<1>12. h \notin Behind(0, fs)
  <2> SUFFICES ASSUME h \in Behind(0, fs) PROVE FALSE
    OBVIOUS
  <2>1. Before(Smallest(h), e)
    BY <1>9, <1>10, <1>11, Ordered
  <2> QED BY <2>1, <1>7
<1>13. Smallest(h) = last \/ Before(Smallest(h), last)
  <2>1. ~Before(last, Smallest(h))
    BY <1>12 DEF Behind
  <2> QED BY <2>1, <1>11, Ordered
<1>14. PICK p \in fs : last \in files[p]
  BY <1>1, LastOfTables
<1>15. KeyOf(Smallest(h)) <= KeyOf(last) /\ KeyOf(last) <= KeyOf(e) /\ KeyOf(e) = KeyOf(Largest(h))
  <2>1. Before(last, e)
    BY <1>2, <1>6
  <2>2. KeyOf(last) \in Nat
    BY <1>11, KeyNat
  <2> QED BY <1>9, <1>11, <1>13, <2>1, <2>2, OrderOfKeys
<1>16. h \in Meeting(0, p)
  <2>1. p \in DOMAIN files
    BY <1>1
  <2>2. \E a \in files[p], b \in files[h] : KeyOf(a) <= KeyOf(b)
    BY <1>10, <1>14, <1>15
  <2>3. \E a \in files[p], b \in files[h] : KeyOf(b) <= KeyOf(a)
    BY <1>10, <1>14, <1>15
  <2> QED BY <2>1, <2>2, <2>3, MeetingIs
<1>17. Largest(h) \in Entries(fs)
  BY <1>1, <1>10, <1>14, <1>16 DEF Entries
<1>18. KeyOf(last) = KeyOf(e)
  <2>1. Largest(h) = last \/ Before(Largest(h), last)
    BY <1>1, <1>17, LastOfTables
  <2>2. KeyOf(Largest(h)) <= KeyOf(last)
    <3>1. KeyOf(last) \in Nat
      BY <1>11, KeyNat
    <3> QED BY <1>11, <2>1, <3>1, OrderOfKeys
  <2>3. KeyOf(last) \in Nat /\ KeyOf(e) \in Nat
    BY <1>11, KeyNat
  <2> QED BY <1>15, <2>2, <2>3
<1>19. e \in files[g] /\ g \in current[0]
  BY <1>2, <1>6, TableEnds
<1>20. g \in fs
  <2>1. Share(p, g)
    BY <1>14, <1>18, <1>19 DEF Share
  <2>2. g \in Meeting(0, p)
    BY <1>1, <1>14, <1>19, <2>1, SharingMeets
  <2> QED BY <1>1, <1>14, <2>2
<1>21. e \in Entries(fs)
  BY <1>19, <1>20 DEF Entries
<1>22. e = last \/ Before(e, last)
  BY <1>1, <1>21, LastOfTables
<1>23. Before(last, e)
  BY <1>2, <1>6
<1> QED BY <1>11, <1>22, <1>23, Ordered

(* Below level 0, a table between the inputs and an added table is added   *)
(* too, where each of those before it is joined.                           *)
LEMMA BoundaryKeeps ==
  ASSUME WrittenOK, TablesOK, CurrentOK, NEW level \in Level, level > 0, Apart(level), NEW fs, Convex(level, fs),
         NEW f \in AddBoundaryInputs(level, fs), NEW g \in current[level] \ AddBoundaryInputs(level, fs),
         Precedes(f, g)
  PROVE  ~Share(f, g)
<1>1. /\ fs \in SUBSET current[level] /\ fs # {} /\ current[level] \in SUBSET DOMAIN files
      /\ fs \in SUBSET DOMAIN files
  BY DEF Convex, CurrentOK
<1> DEFINE last == LastEntry(Entries(fs))
<1>2. fs \subseteq AddBoundaryInputs(level, fs) /\ AddBoundaryInputs(level, fs) \subseteq current[level]
  BY <1>1, BoundaryIn
<1>3. f \in current[level] /\ f \in DOMAIN files /\ g \in DOMAIN files /\ g \notin fs
  BY <1>1, <1>2
<1> SUFFICES ASSUME NEW a \in files[f], NEW b \in files[g], KeyOf(a) = KeyOf(b)
             PROVE  FALSE
  BY DEF Share
<1>4. /\ Largest(f) \in files[f] /\ Smallest(g) \in files[g] /\ files[f] \subseteq Entry /\ files[g] \subseteq Entry
      /\ KeyOf(a) <= KeyOf(Largest(f)) /\ KeyOf(Smallest(g)) <= KeyOf(b)
  BY <1>3, TableEnds
<1>5. Before(Largest(f), Smallest(g))
  BY <1>3, PrecedesIs
<1>6. /\ a \in Entry /\ b \in Entry /\ Largest(f) \in Entry /\ Smallest(g) \in Entry
      /\ KeyOf(a) \in Nat /\ KeyOf(b) \in Nat /\ KeyOf(Largest(f)) \in Nat /\ KeyOf(Smallest(g)) \in Nat
  BY <1>4, KeyNat
<1>7. KeyOf(Largest(f)) <= KeyOf(Smallest(g))
  BY <1>5, <1>6, OrderOfKeys
<1>8. KeyOf(Largest(f)) = KeyOf(a) /\ KeyOf(Smallest(g)) = KeyOf(a)
  BY <1>4, <1>6, <1>7
<1>9. last \in Entry
  BY <1>1, LastOfTables
(* Every table behind the inputs up to g is joined. *)
<1>10. ASSUME NEW h \in Behind(level, fs), ~InFront(g, h), Precedes(f, h)
       PROVE  Joined(level, h)
  <2>1. h \in current[level] /\ h \in DOMAIN files
    BY <1>1, BehindAfter
  <2>2. h = g \/ Precedes(h, g)
    BY <1>1, <1>3, <1>10, <2>1, InFrontIs DEF Apart
  <2>3. /\ Smallest(h) \in files[h] /\ files[h] \subseteq Entry
    BY <2>1, TableEnds
  <2>4. Before(Largest(f), Smallest(h)) /\ (h = g \/ Before(Smallest(h), Smallest(g)))
    BY <1>4, <1>10, <2>2, <2>3 DEF Precedes
  <2>5. Smallest(h) \in Entry /\ KeyOf(Smallest(h)) \in Nat
    BY <2>3, KeyNat
  <2>6. KeyOf(Largest(f)) <= KeyOf(Smallest(h)) /\ (h = g \/ KeyOf(Smallest(h)) <= KeyOf(Smallest(g)))
    BY <1>6, <2>4, <2>5, OrderOfKeys
  <2>7. KeyOf(Largest(f)) = KeyOf(Smallest(h))
    BY <1>6, <1>8, <2>5, <2>6
  <2> QED BY <1>3, <2>4, <2>7 DEF Joined
<1>11. CASE g \in Behind(level, fs)
  <2>1. PICK h \in Behind(level, fs) : ~InFront(g, h) /\ ~Joined(level, h)
    BY <1>1, <1>11, BoundaryIs
  <2>2. ~Precedes(f, h)
    BY <1>10, <2>1
  <2>3. h \in current[level] /\ h \in DOMAIN files /\ \A n \in files[h] : Before(last, n)
    BY <1>1, BehindAfter
  <2>4. f = h \/ Precedes(h, f)
    BY <1>3, <2>2, <2>3 DEF Apart
  <2>5. f \notin fs
    <3> SUFFICES ASSUME f \in fs PROVE FALSE
      OBVIOUS
    <3>1. Largest(f) \in Entries(fs)
      BY <1>4 DEF Entries
    <3>2. Largest(f) = last \/ Before(Largest(f), last)
      BY <1>1, <3>1, LastOfTables
    <3>3. Smallest(h) \in files[h] /\ Smallest(h) \in Entry
      BY <2>3, TableEnds
    <3>4. Before(last, Largest(f))
      <4>1. CASE f = h
        BY <1>4, <2>3, <4>1
      <4>2. CASE Precedes(h, f)
        <5>1. Before(last, Smallest(h)) /\ Before(Smallest(h), Largest(f))
          BY <1>4, <2>3, <3>3, <4>2 DEF Precedes
        <5> QED BY <1>6, <1>9, <3>3, <5>1, Ordered
      <4> QED BY <2>4, <4>1, <4>2
    <3> QED BY <1>6, <1>9, <3>2, <3>4, Ordered
  <2>6. f \in Behind(level, fs) /\ (InFront(f, h) \/ Joined(level, h))
    BY <1>1, <2>5, BoundaryIs
  <2>7. InFront(f, h)
    BY <2>1, <2>6
  <2>8. /\ Smallest(f) \in Entry /\ Smallest(h) \in Entry
        /\ Smallest(f) \in files[f] /\ Smallest(h) \in files[h]
    BY <1>3, <2>3, TableEnds
  <2>9. ~Before(Smallest(f), Smallest(h))
    <3>1. CASE f = h
      BY <2>8, <3>1, Ordered
    <3>2. CASE Precedes(h, f)
      BY <2>8, <3>2, Ordered DEF Precedes
    <3> QED BY <2>4, <3>1, <3>2
  <2> QED BY <2>7, <2>9 DEF InFront
<1>12. CASE g \notin Behind(level, fs)
  <2>1. PICK p \in fs : last \in files[p]
    BY <1>1, LastOfTables
  <2>2. ~Precedes(p, g)
    BY <1>4, <1>12, <2>1 DEF Behind, Precedes
  <2>3. Precedes(g, p)
    BY <1>1, <1>3, <2>1, <2>2 DEF Apart
  <2>4. CASE f \in fs
    BY <1>3, <2>1, <2>3, <2>4 DEF Convex
  <2>5. CASE f \notin fs
    <3>1. f \in Behind(level, fs)
      BY <1>1, <2>5, BoundaryIs
    <3>2. Before(last, Largest(f))
      BY <1>1, <1>4, <3>1, BehindAfter
    <3>3. Precedes(f, p)
      BY <1>1, <1>3, <2>1, <2>3, PrecedesOrder
    <3>4. Before(Largest(f), last)
      BY <1>4, <2>1, <3>3 DEF Precedes
    <3> QED BY <1>6, <1>9, <3>2, <3>4, Ordered
  <2> QED BY <2>4, <2>5
<1> QED BY <1>11, <1>12

----------------------------------------------------------------------------
(* Tables that leave no gap.                                               *)

(* Tables that meet tables without a gap leave none with them. *)
LEMMA CoveredMore ==
  ASSUME WrittenOK, TablesOK, NEW C \in SUBSET DOMAIN files, NEW D \in SUBSET DOMAIN files, Covered(C),
         \A g \in D : /\ \E b \in files[g], a \in Entries(C) : KeyOf(a) <= KeyOf(b)
                      /\ \E b \in files[g], a \in Entries(C) : KeyOf(b) <= KeyOf(a)
  PROVE  Covered(C \union D)
<1> SUFFICES ASSUME NEW k \in Nat, NEW a \in Entries(C \union D), KeyOf(a) <= k,
                    NEW b \in Entries(C \union D), k <= KeyOf(b),
                    \A f \in C \union D : ~Meets(f, k, k)
             PROVE  FALSE
  BY DEF Covered
<1>1. (\A n \in Entries(C) : KeyOf(n) \in Nat) /\ \A g \in D : \A n \in files[g] : KeyOf(n) \in Nat
  BY KeyNat DEF Entries, TablesOK
<1>2. ~((\E n \in Entries(C) : KeyOf(n) <= k) /\ (\E n \in Entries(C) : k <= KeyOf(n)))
  BY DEF Covered
<1>3. (\A n \in Entries(C) : k < KeyOf(n)) \/ (\A n \in Entries(C) : KeyOf(n) < k)
  BY <1>1, <1>2
<1>4. \A g \in D : (\A n \in files[g] : k < KeyOf(n)) \/ (\A n \in files[g] : KeyOf(n) < k)
  <2> TAKE g \in D
  <2>1. ~Meets(g, k, k) /\ \A n \in files[g] : KeyOf(n) \in Nat
    BY <1>1
  <2> QED BY <2>1 DEF Meets
<1>5. CASE \A n \in Entries(C) : k < KeyOf(n)
  <2>1. a \notin Entries(C)
    BY <1>1, <1>5
  <2>2. PICK g \in D : a \in files[g]
    BY <2>1 DEF Entries
  <2>3. PICK n \in files[g], c \in Entries(C) : KeyOf(c) <= KeyOf(n)
    OBVIOUS
  <2> QED BY <1>1, <1>4, <1>5, <2>2, <2>3
<1>6. CASE \A n \in Entries(C) : KeyOf(n) < k
  <2>1. b \notin Entries(C)
    BY <1>1, <1>6
  <2>2. PICK g \in D : b \in files[g]
    BY <2>1 DEF Entries
  <2>3. PICK n \in files[g], c \in Entries(C) : KeyOf(n) <= KeyOf(c)
    OBVIOUS
  <2> QED BY <1>1, <1>4, <1>6, <2>2, <2>3
<1> QED BY <1>3, <1>5, <1>6

(* AddBoundaryInputs leaves no gap where, with other tables X, there was   *)
(* none: a table it adds begins with the user key another ends with.       *)
LEMMA BoundaryCovered ==
  ASSUME WrittenOK, TablesOK, CurrentOK, NEW level \in Level, level > 0 => Apart(level), NEW fs, Convex(level, fs),
         NEW X \in SUBSET DOMAIN files, Covered(fs \union X)
  PROVE  Covered(AddBoundaryInputs(level, fs) \union X)
<1>1. /\ fs \in SUBSET current[level] /\ fs # {} /\ current[level] \in SUBSET DOMAIN files
      /\ fs \in SUBSET DOMAIN files
  BY DEF Convex, CurrentOK
<1>2. CASE level = 0
  BY <1>2, NoBoundaryAtZero
<1>3. CASE level # 0
  <2>0. level > 0 /\ Apart(level)
    BY <1>3, VersionsAssumption DEF Level
  <2> DEFINE last == LastEntry(Entries(fs))
             t == AddBoundaryInputs(level, fs)
  <2>1. fs \subseteq t /\ t \subseteq current[level] /\ t \subseteq DOMAIN files
    BY <1>1, BoundaryIn
  <2>2. last \in Entry /\ KeyOf(last) \in Nat /\ last \in Entries(fs)
    <3>1. last \in Entry /\ \E f \in fs : last \in files[f]
      BY <1>1, LastOfTables
    <3> QED BY <3>1, KeyNat DEF Entries
  <2> SUFFICES ASSUME NEW k \in Nat, NEW a \in Entries(t \union X), KeyOf(a) <= k,
                      NEW b \in Entries(t \union X), k <= KeyOf(b),
                      \A f \in t \union X : ~Meets(f, k, k)
               PROVE  FALSE
    BY DEF Covered
  <2>3. \A n \in Entries(fs \union X) : KeyOf(n) \in Nat
    BY <1>1, KeyNat DEF Entries, TablesOK
  <2>4. ~((\E n \in Entries(fs \union X) : KeyOf(n) <= k) /\ (\E n \in Entries(fs \union X) : k <= KeyOf(n)))
    BY <2>1 DEF Covered
  <2>5. last \in Entries(fs \union X)
    BY <2>2 DEF Entries
  <2>6. \A f \in t \ fs : f \in Behind(level, fs) /\ \A g \in Behind(level, fs) : InFront(f, g) \/ Joined(level, g)
    BY <1>1, BoundaryIs
  <2>7. \E n \in Entries(fs \union X) : KeyOf(n) <= k
    <3>1. CASE a \in Entries(fs \union X)
      BY <3>1
    <3>2. CASE a \notin Entries(fs \union X)
      <4>1. PICK f \in t \ fs : a \in files[f]
        BY <3>2 DEF Entries
      <4>2. Before(last, a) /\ a \in Entry
        BY <1>1, <2>1, <2>6, <4>1, BehindAfter DEF TablesOK
      <4>3. KeyOf(last) <= KeyOf(a) /\ KeyOf(a) \in Nat
        BY <2>2, <4>2, OrderOfKeys, KeyNat
      <4> QED BY <2>2, <2>5, <4>3
    <3> QED BY <3>1, <3>2
  <2>8. \A n \in Entries(fs \union X) : KeyOf(n) < k
    BY <2>3, <2>4, <2>7
  <2>9. b \notin Entries(fs \union X)
    BY <2>3, <2>8
  <2>10. PICK f \in t \ fs : b \in files[f]
    BY <2>9 DEF Entries
  <2>11. /\ f \in DOMAIN files /\ Smallest(f) \in files[f] /\ Largest(f) \in files[f] /\ files[f] \subseteq Entry
         /\ KeyOf(b) <= KeyOf(Largest(f))
    BY <2>1, <2>10, TableEnds
  <2>12. k < KeyOf(Smallest(f))
    <3>1. ~Meets(f, k, k)
      BY <2>10
    <3>2. KeyOf(Smallest(f)) \in Nat
      BY <2>11, KeyNat
    <3> QED BY <2>10, <2>11, <3>1, <3>2 DEF Meets
  <2> DEFINE beyond == {g \in Behind(level, fs) : k < KeyOf(Smallest(g))}
             firsts == {Smallest(g) : g \in beyond}
  <2>13. f \in beyond
    BY <2>6, <2>10, <2>12
  <2>14. \A g \in Behind(level, fs) : g \in current[level] /\ g \in DOMAIN files /\ Smallest(g) \in Entry
    <3> TAKE g \in Behind(level, fs)
    <3>1. g \in current[level] /\ g \in DOMAIN files
      BY <1>1, BehindAfter
    <3> QED BY <3>1, TableEnds
  <2>15. firsts \in SUBSET Entry /\ firsts # {}
    BY <2>13, <2>14
  <2>16. PICK e \in firsts : \A n \in firsts \ {e} : Before(e, n)
    <3> HIDE DEF firsts
    <3> QED BY <2>15, FirstExists
  <2>17. PICK g \in beyond : e = Smallest(g)
    BY <2>16
  <2>18. \A h \in beyond : ~Before(Smallest(h), e)
    <3> TAKE h \in beyond
    <3>1. Smallest(h) = e \/ Before(e, Smallest(h))
      BY <2>16
    <3>2. e \in Entry /\ Smallest(h) \in Entry
      BY <2>14, <2>17
    <3> QED BY <3>1, <3>2, Ordered
  <2>19. Joined(level, g)
    <3>1. ~InFront(f, g)
      BY <2>13, <2>17, <2>18 DEF InFront
    <3> QED BY <2>6, <2>10, <2>17, <3>1
  <2>20. PICK h \in current[level] : KeyOf(Largest(h)) = KeyOf(e) /\ Before(Largest(h), e)
    BY <2>17, <2>19 DEF Joined
  <2>21. /\ h \in DOMAIN files /\ Smallest(h) \in files[h] /\ Largest(h) \in files[h] /\ files[h] \subseteq Entry
         /\ (Smallest(h) = Largest(h) \/ Before(Smallest(h), Largest(h)))
    BY <1>1, TableEnds
  <2>22. /\ e \in Entry /\ Smallest(h) \in Entry /\ Largest(h) \in Entry
         /\ KeyOf(e) \in Nat /\ KeyOf(Smallest(h)) \in Nat /\ k < KeyOf(e)
    BY <2>14, <2>17, <2>21, KeyNat
  <2>23. Before(Smallest(h), e)
    BY <2>20, <2>21, <2>22, Ordered
  <2>24. h \notin beyond
    BY <2>18, <2>23
  <2>25. CASE h \in Behind(level, fs)
    <3>1. KeyOf(Smallest(h)) <= k
      BY <2>22, <2>24, <2>25
    <3>2. Meets(h, k, k)
      <4>1. k <= KeyOf(Largest(h))
        BY <2>20, <2>22
      <4> QED BY <2>21, <3>1, <4>1 DEF Meets
    <3>3. Precedes(h, f)
      <4>1. h # f
        BY <2>12, <2>22, <3>1
      <4>2. Smallest(f) \in Entry /\ KeyOf(Smallest(f)) \in Nat
        BY <2>11, KeyNat
      <4>3. Before(Smallest(h), Smallest(f))
        BY <2>12, <2>22, <3>1, <4>2, OrderOfKeys
      <4>4. ~Precedes(f, h)
        BY <2>11, <2>21, <2>22, <4>2, <4>3, Ordered DEF Precedes
      <4> QED BY <2>0, <2>1, <2>10, <4>1, <4>4 DEF Apart
    <3>4. ASSUME NEW g2 \in Behind(level, fs)
          PROVE  InFront(h, g2) \/ Joined(level, g2)
      <4> SUFFICES ASSUME ~InFront(h, g2), ~Joined(level, g2) PROVE FALSE
        OBVIOUS
      <4>1. g2 \in current[level] /\ g2 \in DOMAIN files
        BY <2>14
      <4>2. InFront(f, g2)
        BY <2>6, <2>10
      <4>3. g2 = h \/ Precedes(g2, h)
        BY <2>0, <2>21, <4>1, InFrontIs DEF Apart
      <4>4. g2 # f /\ ~Precedes(g2, f)
        <5>1. Smallest(g2) \in files[g2] /\ Smallest(g2) \in Entry /\ Smallest(f) \in Entry
          BY <2>11, <4>1, TableEnds
        <5>2. Before(Smallest(f), Smallest(g2))
          BY <4>2 DEF InFront
        <5> QED BY <2>11, <5>1, <5>2, Ordered DEF Precedes
      <4>5. Precedes(g2, f)
        BY <2>11, <2>21, <3>3, <4>1, <4>3, PrecedesOrder
      <4> QED BY <4>4, <4>5
    <3>5. h \in t
      BY <1>1, <2>25, <3>4, BoundaryIs
    <3> QED BY <3>2, <3>5
  <2>26. CASE h \notin Behind(level, fs)
    <3>1. PICK p \in fs : last \in files[p]
      BY <1>1, LastOfTables
    <3>2. ~Precedes(p, h)
      BY <2>21, <2>26, <3>1 DEF Behind, Precedes
    <3>3. h = p \/ Precedes(h, p)
      BY <1>1, <2>0, <3>1, <3>2 DEF Apart
    <3>4. KeyOf(Largest(h)) <= KeyOf(last)
      <4>1. CASE h = p
        <5>1. Largest(h) \in Entries(fs)
          BY <2>21, <3>1, <4>1 DEF Entries
        <5>2. Largest(h) = last \/ Before(Largest(h), last)
          BY <1>1, <5>1, LastOfTables
        <5> QED BY <2>2, <2>22, <5>2, OrderOfKeys
      <4>2. CASE Precedes(h, p)
        <5>1. Before(Largest(h), last)
          BY <2>21, <3>1, <4>2 DEF Precedes
        <5> QED BY <2>2, <2>22, <5>1, OrderOfKeys
      <4> QED BY <3>3, <4>1, <4>2
    <3>5. KeyOf(last) < k
      BY <2>5, <2>8
    <3> QED BY <2>2, <2>20, <2>22, <3>4, <3>5
  <2> QED BY <2>25, <2>26
<1> QED BY <1>2, <1>3

----------------------------------------------------------------------------
(* The inputs of a compaction.                                             *)

(* Of two entries of one user key, the one of the upper is the newer.      *)
Older(lower, upper) == \A n \in lower, m \in upper : KeyOf(n) = KeyOf(m) => n < m

(* What a pair of inputs of a compaction must be: in0 leaves no older      *)
(* entry of its user keys behind in the level, and in1 is every table of   *)
(* the next level that meets the hull of in0.                              *)
GoodPair(level, in0, in1) ==
  /\ in0 \subseteq current[level] /\ in0 # {}
  /\ \A f \in in0, g \in current[level] \ in0 : Older(files[f], files[g])
  /\ in1 \subseteq current[level + 1]
  /\ \A g \in current[level + 1] : g \in in1 <=> Meets(g, LowKey(in0), HighKey(in0))

(* The next level in the levels. *)
LEMMA NextLevel ==
  ASSUME NEW level \in 0 .. (NumLevels - 2)
  PROVE  level \in Level /\ level + 1 \in Level /\ level + 1 > 0 /\ level \in Nat /\ 0 \in Level
BY VersionsAssumption DEF Level

(* AddBoundaryInputs leaves no older entry of a user key behind.           *)
LEMMA NoneLeftBehind ==
  ASSUME WrittenOK, TablesOK, CurrentOK, NEW level \in Level, level > 0 => Apart(level), NEW fs, Convex(level, fs),
         NEW f \in AddBoundaryInputs(level, fs), NEW g \in current[level] \ AddBoundaryInputs(level, fs)
  PROVE  Older(files[f], files[g])
<1>1. /\ fs \in SUBSET current[level] /\ fs # {} /\ current[level] \in SUBSET DOMAIN files
  BY DEF Convex, CurrentOK
<1>2. fs \subseteq AddBoundaryInputs(level, fs) /\ AddBoundaryInputs(level, fs) \subseteq current[level]
  BY <1>1, BoundaryIn
<1>3. f \in current[level] /\ f \in DOMAIN files /\ g \in current[level] /\ g \in DOMAIN files /\ f # g
  BY <1>1, <1>2
<1>4. CASE level = 0
  <2>1. AddBoundaryInputs(level, fs) = fs
    BY <1>4, NoBoundaryAtZero
  <2>2. g \notin Meeting(0, f)
    BY <1>4, <2>1 DEF Convex
  <2>3. ~Share(f, g)
    BY <1>3, <1>4, <2>2, SharingMeets
  <2> QED BY <2>3 DEF Older, Share
<1>5. CASE level > 0
  <2>1. CASE Precedes(f, g)
    <3>1. ~Share(f, g)
      BY <1>5, <2>1, BoundaryKeeps
    <3> QED BY <3>1 DEF Older, Share
  <2>2. CASE Precedes(g, f)
    <3> SUFFICES ASSUME NEW n \in files[f], NEW m \in files[g], KeyOf(n) = KeyOf(m)
                 PROVE  n < m
      BY DEF Older
    <3>1. n \in Entry /\ m \in Entry /\ Before(m, n)
      BY <1>3, <2>2 DEF TablesOK, Precedes
    <3> QED BY <3>1, OrderOfKeys
  <2> QED BY <1>3, <1>5, <2>1, <2>2 DEF Apart
<1> QED BY <1>4, <1>5 DEF Level

(* The inputs in the next level: GetOverlappingInputs of the hull.         *)
LEMMA NextInputs ==
  ASSUME WrittenOK, TablesOK, CurrentOK, NEW level \in 0 .. (NumLevels - 2),
         level > 0 => Apart(level), NEW fs, Convex(level, fs)
  PROVE  GoodPair(level, AddBoundaryInputs(level, fs),
                  OverlappingInputs(level + 1, LowKey(AddBoundaryInputs(level, fs)), HighKey(AddBoundaryInputs(level, fs))))
<1> DEFINE in0 == AddBoundaryInputs(level, fs)
<1>0. level \in Level /\ level + 1 \in Level /\ level + 1 > 0
  BY NextLevel
<1>1. fs \in SUBSET current[level] /\ fs # {} /\ current[level] \in SUBSET DOMAIN files
  BY <1>0 DEF Convex, CurrentOK
<1>2. in0 \subseteq current[level] /\ in0 # {} /\ in0 \in SUBSET DOMAIN files
  BY <1>1, BoundaryIn
<1>3. \A f \in in0, g \in current[level] \ in0 : Older(files[f], files[g])
  BY <1>0, NoneLeftBehind
<1> HIDE DEF in0
<1>4. PICK low \in Nat, high \in Nat : low = LowKey(in0) /\ high = HighKey(in0)
  BY <1>2, HullEnds
<1>5. OverlappingInputs(level + 1, low, high) \subseteq current[level + 1]
  BY <1>0, InputsOfRange
<1>6. \A g \in current[level + 1] : g \in OverlappingInputs(level + 1, low, high) <=> Meets(g, low, high)
  BY <1>0, InputsOfRange
<1>7. GoodPair(level, in0, OverlappingInputs(level + 1, low, high))
  BY <1>2, <1>3, <1>4, <1>5, <1>6 DEF GoodPair
<1> QED BY <1>4, <1>7 DEF in0

(* With the tables of the next level that meet their hull, tables without  *)
(* a gap leave none.                                                       *)
LEMMA PairCovered ==
  ASSUME WrittenOK, TablesOK, CurrentOK, NEW level \in 0 .. (NumLevels - 2),
         NEW in0, NEW in1, GoodPair(level, in0, in1), NEW X \in SUBSET in1, Covered(in0 \union X)
  PROVE  Covered(in0 \union in1)
<1>0. level \in Level /\ level + 1 \in Level
  BY NextLevel
<1>1. in0 \in SUBSET DOMAIN files /\ in1 \in SUBSET DOMAIN files /\ in0 # {} /\ in0 \union X \in SUBSET DOMAIN files
  BY <1>0 DEF GoodPair, CurrentOK
<1>2. PICK low \in Nat, high \in Nat : low = LowKey(in0) /\ high = HighKey(in0)
  BY <1>1, HullEnds
<1>3. (\E a \in Entries(in0) : KeyOf(a) = low) /\ (\E a \in Entries(in0) : KeyOf(a) = high)
  BY <1>1, <1>2, HullEnds
<1>4. (\E a \in Entries(in0 \union X) : KeyOf(a) = low) /\ (\E a \in Entries(in0 \union X) : KeyOf(a) = high)
  BY <1>3 DEF Entries
<1>5. ASSUME NEW g \in in1
      PROVE  /\ \E b \in files[g], a \in Entries(in0 \union X) : KeyOf(a) <= KeyOf(b)
             /\ \E b \in files[g], a \in Entries(in0 \union X) : KeyOf(b) <= KeyOf(a)
  <2>1. Meets(g, low, high)
    BY <1>2 DEF GoodPair
  <2> QED BY <1>4, <2>1 DEF Meets
<1>6. Covered((in0 \union X) \union in1)
  BY <1>1, <1>5, CoveredMore
<1>7. (in0 \union X) \union in1 = in0 \union in1
  OBVIOUS
<1> QED BY <1>6, <1>7

----------------------------------------------------------------------------
(* SetupOtherInputs.                                                       *)

(* The tables that meet the hull of some are tables without a gap, if      *)
(* there is one.                                                           *)
LEMMA HullConvex ==
  ASSUME WrittenOK, TablesOK, CurrentOK, NEW level \in Level, NEW C \in SUBSET DOMAIN files, C # {},
         OverlappingInputs(level, LowKey(C), HighKey(C)) # {}
  PROVE  Convex(level, OverlappingInputs(level, LowKey(C), HighKey(C)))
BY HullEnds, InputsConvex

(* Tables of a level are among those of the level that meet their hull.    *)
LEMMA HullHolds ==
  ASSUME WrittenOK, TablesOK, CurrentOK, NEW level \in Level, NEW C \in SUBSET DOMAIN files, C # {},
         NEW f \in C, f \in current[level]
  PROVE  f \in OverlappingInputs(level, LowKey(C), HighKey(C))
<1>1. PICK low \in Nat, high \in Nat : low = LowKey(C) /\ high = HighKey(C)
  BY HullEnds
<1>2. PICK a \in files[f] : TRUE
  BY DEF TablesOK
<1>3. low <= KeyOf(a) /\ KeyOf(a) <= high
  <2>1. a \in Entries(C)
    BY DEF Entries
  <2> QED BY <1>1, <2>1, HullEnds
<1> QED BY <1>1, <1>3, InputsOfRange DEF Meets

(* SetupOtherInputs, from tables without a gap, makes a good pair; and if  *)
(* the tables met each other, those of the pair do.                        *)
LEMMA SetupIsGood ==
  ASSUME WrittenOK, TablesOK, CurrentOK, NEW level \in 0 .. (NumLevels - 2),
         level > 0 => Apart(level), NEW chosen, Convex(level, chosen), NEW pair \in SetupOtherInputs(level, chosen)
  PROVE  GoodPair(level, pair[1], pair[2]) /\ (Covered(chosen) => Covered(pair[1] \union pair[2]))
<1>0. level \in Level /\ level + 1 \in Level
  BY NextLevel
<1>1. PICK in0, in1 : /\ in0 = AddBoundaryInputs(level, chosen)
                      /\ in1 = OverlappingInputs(level + 1, LowKey(in0), HighKey(in0))
  OBVIOUS
<1>2. PICK all, more, exp0, exp1 : /\ all = in0 \union in1
                                   /\ more = OverlappingInputs(level, LowKey(all), HighKey(all))
                                   /\ exp0 = AddBoundaryInputs(level, more)
                                   /\ exp1 = OverlappingInputs(level + 1, LowKey(exp0), HighKey(exp0))
  OBVIOUS
<1>3. pair = <<in0, in1>> \/ pair = <<exp0, exp1>>
  BY <1>1, <1>2 DEF SetupOtherInputs
<1>4. GoodPair(level, in0, in1)
  BY <1>1, NextInputs
<1>5. all \in SUBSET DOMAIN files /\ all # {} /\ in0 # {} /\ in0 \subseteq current[level] /\ in1 \in SUBSET DOMAIN files
  BY <1>0, <1>2, <1>4 DEF GoodPair, CurrentOK
<1>6. in0 \subseteq more
  BY <1>0, <1>2, <1>5, HullHolds
<1>7. more # {} /\ Convex(level, more)
  BY <1>0, <1>2, <1>5, <1>6, HullConvex
<1>8. GoodPair(level, exp0, exp1)
  BY <1>2, <1>7, NextInputs
<1>9. ASSUME Covered(chosen) PROVE Covered(all)
  <2>1. chosen \union {} = chosen /\ in0 \union {} = in0 /\ {} \in SUBSET DOMAIN files /\ {} \in SUBSET in1
    OBVIOUS
  <2>2. Covered(chosen \union {})
    BY <1>9, <2>1
  <2>3. Covered(in0 \union {})
    BY <1>0, <1>1, <2>1, <2>2, BoundaryCovered
  <2> QED BY <1>2, <1>4, <2>1, <2>3, PairCovered
<1>10. ASSUME Covered(chosen) PROVE Covered(exp0 \union exp1)
  <2>1. Covered(more \union all)
    BY <1>0, <1>2, <1>5, <1>9, <1>10, InputsCovered
  <2>2. more \union all = more \union in1
    BY <1>2, <1>6
  <2>3. Covered(exp0 \union in1)
    BY <1>0, <1>2, <1>5, <1>7, <2>1, <2>2, BoundaryCovered
  <2>4. in1 \subseteq exp1
    <3> SUFFICES ASSUME NEW g \in in1 PROVE g \in exp1
      OBVIOUS
    <3>1. exp0 \in SUBSET DOMAIN files /\ exp0 # {} /\ in0 \subseteq exp0 /\ in0 \in SUBSET DOMAIN files
      <4>1. more \subseteq current[level]
        BY <1>7 DEF Convex
      <4>2. more \subseteq exp0
        BY <1>2, <4>1, BoundaryIn
      <4>3. exp0 \subseteq current[level]
        BY <1>8 DEF GoodPair
      <4> QED BY <1>0, <1>5, <1>6, <4>2, <4>3 DEF CurrentOK
    <3>2. PICK low \in Nat, high \in Nat : low = LowKey(in0) /\ high = HighKey(in0)
      BY <1>5, <3>1, HullEnds
    <3>3. PICK low2 \in Nat, high2 \in Nat : low2 = LowKey(exp0) /\ high2 = HighKey(exp0)
      BY <3>1, HullEnds
    <3>4. PICK a \in Entries(in0), b \in Entries(in0) : KeyOf(a) = low /\ KeyOf(b) = high
      BY <1>5, <3>1, <3>2, HullEnds
    <3>5. a \in Entries(exp0) /\ b \in Entries(exp0)
      BY <3>1 DEF Entries
    <3>6. low2 <= low /\ high <= high2
      BY <3>1, <3>3, <3>4, <3>5, HullEnds
    <3>7. g \in current[level + 1] /\ Meets(g, low, high)
      BY <1>4, <3>2 DEF GoodPair
    <3>8. \A n \in files[g] : KeyOf(n) \in Nat
      BY <1>5, KeyNat DEF TablesOK
    <3>9. Meets(g, low2, high2)
      BY <3>6, <3>7, <3>8 DEF Meets
    <3> QED BY <1>8, <3>3, <3>7, <3>9 DEF GoodPair
  <2> QED BY <1>8, <2>3, <2>4, PairCovered
<1>11. CASE pair = <<in0, in1>>
  <2>1. pair[1] = in0 /\ pair[2] = in1
    BY <1>11
  <2> QED BY <1>2, <1>4, <1>9, <2>1
<1>12. CASE pair = <<exp0, exp1>>
  <2>1. pair[1] = exp0 /\ pair[2] = exp1
    BY <1>12
  <2> QED BY <1>8, <1>10, <2>1
<1> QED BY <1>3, <1>11, <1>12

(* One table has no gap. *)
LEMMA OneIsCovered ==
  ASSUME NEW f
  PROVE  Covered({f})
BY DEF Covered, Meets, Entries

(* The tables PickCompaction begins with. *)
LEMMA SeedIsGood ==
  ASSUME WrittenOK, TablesOK, CurrentOK, NEW level \in 0 .. (NumLevels - 2),
         NEW f \in current[level],
         NEW seed, seed = IF level > 0 THEN {f} ELSE OverlappingInputs(0, LowKey({f}), HighKey({f}))
  PROVE  Convex(level, seed) /\ Covered(seed)
<1>0. level \in Level
  BY NextLevel
<1>1. f \in DOMAIN files /\ {f} \in SUBSET DOMAIN files /\ {f} # {}
  BY <1>0 DEF CurrentOK
<1>2. CASE level > 0
  <2>1. \A g \in DOMAIN files : ~(Precedes(f, g) /\ Precedes(g, f))
    BY <1>1, PrecedesOrder
  <2>2. Convex(level, {f})
    BY <1>0, <1>2, <2>1 DEF Convex, CurrentOK
  <2> QED BY <1>2, <2>2, OneIsCovered
<1>3. CASE level = 0
  <2>1. f \in OverlappingInputs(0, LowKey({f}), HighKey({f}))
    BY <1>0, <1>1, <1>3, HullHolds
  <2>2. Convex(0, OverlappingInputs(0, LowKey({f}), HighKey({f})))
    BY <1>0, <1>1, <1>3, <2>1, HullConvex
  <2>3. Covered(OverlappingInputs(0, LowKey({f}), HighKey({f})) \union {f})
    BY <1>0, <1>1, <1>3, OneIsCovered, InputsCovered
  <2>4. OverlappingInputs(0, LowKey({f}), HighKey({f})) \union {f} = OverlappingInputs(0, LowKey({f}), HighKey({f}))
    BY <2>1
  <2> QED BY <1>3, <2>2, <2>3, <2>4
<1> QED BY <1>0, <1>2, <1>3 DEF Level

(* The tables CompactRange begins with. *)
LEMMA RangeIsGood ==
  ASSUME WrittenOK, TablesOK, CurrentOK, NEW level \in 0 .. (NumLevels - 2),
         level > 0 => Apart(level), NEW low \in Nat, NEW high \in Nat,
         NEW chosen, chosen \subseteq OverlappingInputs(level, low, high), chosen # {},
         \/ chosen = OverlappingInputs(level, low, high)
         \/ /\ level > 0
            /\ \A f \in chosen : \A g \in OverlappingInputs(level, low, high) \ chosen : InFront(f, g)
  PROVE  Convex(level, chosen)
<1>0. level \in Level
  BY NextLevel
<1> DEFINE all == OverlappingInputs(level, low, high)
<1>1. Convex(level, all)
  BY <1>0, InputsConvex
<1>2. CASE chosen = all
  BY <1>1, <1>2
<1>3. CASE level > 0 /\ \A f \in chosen : \A g \in all \ chosen : InFront(f, g)
  <2> SUFFICES ASSUME NEW f \in chosen, NEW h \in chosen, NEW g \in current[level], Precedes(f, g), Precedes(g, h)
               PROVE  g \in chosen
    BY <1>1, <1>3 DEF Convex
  <2>1. g \in all
    BY <1>1, <1>3 DEF Convex
  <2>2. g \in DOMAIN files /\ h \in DOMAIN files
    BY <1>0, <1>1 DEF Convex, CurrentOK
  <2>3. g \notin chosen => InFront(h, g)
    BY <1>3, <2>1
  <2>4. InFront(h, g) => Precedes(h, g)
    BY <2>2, InFrontIs
  <2>5. ~Precedes(h, g)
    BY <2>2, PrecedesOrder
  <2> QED BY <2>3, <2>4, <2>5
<1> QED BY <1>2, <1>3

----------------------------------------------------------------------------
(* The outputs of a compaction.                                            *)

(* Sets of entries are finite, and so are their parts. *)
LEMMA EntriesFinite ==
  ASSUME WrittenOK, NEW S \in SUBSET Entry
  PROVE  IsFiniteSet(S) /\ Cardinality(S) \in Nat /\ \A T \in SUBSET S : Cardinality(T) \in Nat /\ Cardinality(T) <= Cardinality(S)
<1>1. LastSequence \in Nat
  BY KeyNat
<1>2. IsFiniteSet(Entry)
  BY <1>1, FS_Interval DEF Entry
<1>3. IsFiniteSet(S)
  BY <1>2, FS_Subset
<1>4. Cardinality(S) \in Nat
  BY <1>3, FS_CardinalityType
<1>5. ASSUME NEW T \in SUBSET S
      PROVE  Cardinality(T) \in Nat /\ Cardinality(T) <= Cardinality(S)
  BY <1>3, FS_Subset, FS_CardinalityType
<1> QED BY <1>3, <1>4, <1>5

(* The ends of the outputs, before an entry: the earlier the entry, the    *)
(* fewer.                                                                  *)
LEMMA EndsBefore ==
  ASSUME WrittenOK, nextFile \in Nat, NEW ends \in SUBSET Entry
  PROVE  /\ \A n \in Entry : OutputOf(ends, n) \in Nat /\ nextFile <= OutputOf(ends, n)
         /\ \A n \in ends : OutputOf(ends, n) < nextFile + Cardinality(ends)
         /\ \A a, b \in Entry : OutputOf(ends, a) < OutputOf(ends, b) => Before(a, b)
         /\ Cardinality(ends) \in Nat
<1> DEFINE E(n) == {e \in ends : Before(e, n)}
<1>1. \A n : OutputOf(ends, n) = nextFile + Cardinality(E(n))
  BY DEF OutputOf
<1>2. \A n : E(n) \in SUBSET ends /\ E(n) \in SUBSET Entry
  OBVIOUS
<1>3. IsFiniteSet(ends) /\ Cardinality(ends) \in Nat
  BY EntriesFinite
<1>4. ASSUME NEW n \in ends
      PROVE  Cardinality(E(n)) < Cardinality(ends)
  <2>1. n \notin E(n)
    BY Ordered
  <2>2. Cardinality(E(n)) \in Nat /\ Cardinality(E(n)) <= Cardinality(ends) /\ E(n) # ends
    <3> HIDE DEF E
    <3> QED BY <1>2, <2>1, EntriesFinite
  <2>3. Cardinality(E(n)) # Cardinality(ends)
    <3> HIDE DEF E
    <3> QED BY <1>2, <1>3, <2>2, FS_Subset
  <2> HIDE DEF E
  <2> QED BY <1>3, <2>2, <2>3
<1>5. ASSUME NEW a \in Entry, NEW b \in Entry, ~Before(a, b)
      PROVE  Cardinality(E(b)) <= Cardinality(E(a))
  <2>1. \A e \in ends : Before(e, b) => Before(e, a)
    BY <1>5, Ordered
  <2>2. E(b) \in SUBSET E(a)
    BY <2>1
  <2> HIDE DEF E
  <2> QED BY <1>2, <2>2, EntriesFinite
<1>6. \A n : Cardinality(E(n)) \in Nat
  <2> HIDE DEF E
  <2> QED BY <1>2, EntriesFinite
<1> HIDE DEF E
<1>7. \A n \in Entry : OutputOf(ends, n) \in Nat /\ nextFile <= OutputOf(ends, n)
  BY <1>1, <1>6
<1>8. \A n \in ends : OutputOf(ends, n) < nextFile + Cardinality(ends)
  BY <1>1, <1>3, <1>4, <1>6
<1>9. ASSUME NEW a \in Entry, NEW b \in Entry, OutputOf(ends, a) < OutputOf(ends, b)
      PROVE  Before(a, b)
  <2>1. Cardinality(E(a)) < Cardinality(E(b))
    BY <1>1, <1>6, <1>9
  <2> QED BY <1>5, <1>6, <2>1
<1> QED BY <1>3, <1>7, <1>8, <1>9

(* The outputs of a compaction: fresh tables, none empty, that hold the    *)
(* entries that are kept and no others, and do not interleave.             *)
LEMMA OutputsAre ==
  ASSUME WrittenOK, nextFile \in Nat, NEW kept \in SUBSET Entry, NEW ends \in SUBSET kept,
         kept # {} => LastEntry(kept) \in ends,
         NEW o, o = Outputs(ends, kept)
  PROVE  /\ \A f \in DOMAIN o : /\ f \in Nat /\ nextFile <= f /\ f < nextFile + Cardinality(ends)
                                /\ o[f] # {} /\ o[f] \subseteq kept
         /\ \A n \in kept : \E f \in DOMAIN o : n \in o[f]
         /\ \A f, g \in DOMAIN o : f # g => \/ \A a \in o[f], b \in o[g] : Before(a, b)
                                            \/ \A a \in o[f], b \in o[g] : Before(b, a)
         /\ Cardinality(ends) \in Nat
<1>0. ends \in SUBSET Entry
  OBVIOUS
<1>1. /\ \A n \in Entry : OutputOf(ends, n) \in Nat /\ nextFile <= OutputOf(ends, n)
      /\ \A n \in ends : OutputOf(ends, n) < nextFile + Cardinality(ends)
      /\ \A a, b \in Entry : OutputOf(ends, a) < OutputOf(ends, b) => Before(a, b)
      /\ Cardinality(ends) \in Nat
  BY <1>0, EndsBefore
<1>2. /\ DOMAIN o = {OutputOf(ends, e) : e \in ends}
      /\ \A f \in DOMAIN o : o[f] = {n \in kept : OutputOf(ends, n) = f}
  BY DEF Outputs
<1>3. ASSUME NEW f \in DOMAIN o
      PROVE  f \in Nat /\ nextFile <= f /\ f < nextFile + Cardinality(ends) /\ o[f] # {} /\ o[f] \subseteq kept
  <2>1. PICK e \in ends : f = OutputOf(ends, e)
    BY <1>2
  <2>2. e \in kept /\ e \in Entry
    OBVIOUS
  <2> QED BY <1>1, <1>2, <2>1, <2>2
<1>4. ASSUME NEW n \in kept
      PROVE  \E f \in DOMAIN o : n \in o[f]
  <2> DEFINE D == {x \in ends : ~Before(x, n)}
  <2>1. LastEntry(kept) \in ends /\ (n = LastEntry(kept) \/ Before(n, LastEntry(kept)))
    BY LastIs
  <2>2. LastEntry(kept) \in D
    BY <1>0, <2>1, Ordered
  <2>3. D \in SUBSET Entry /\ D # {}
    BY <1>0, <2>2
  <2>4. PICK e \in D : \A b \in D \ {e} : Before(e, b)
    <3> HIDE DEF D
    <3> QED BY <2>3, FirstExists
  <2>5. \A x \in ends : Before(x, e) <=> Before(x, n)
    <3> TAKE x \in ends
    <3>1. Before(x, e) => Before(x, n)
      <4> SUFFICES ASSUME Before(x, e), ~Before(x, n) PROVE FALSE
        OBVIOUS
      <4>1. x \in D
        OBVIOUS
      <4>2. x = e \/ Before(e, x)
        BY <2>4, <4>1
      <4> QED BY <1>0, <4>2, Ordered
    <3>2. Before(x, n) => Before(x, e)
      <4>1. e = n \/ Before(n, e)
        BY <1>0, Ordered
      <4> QED BY <1>0, <4>1, Ordered
    <3> QED BY <3>1, <3>2
  <2>6. OutputOf(ends, e) = OutputOf(ends, n)
    <3>1. {x \in ends : Before(x, e)} = {x \in ends : Before(x, n)}
      BY <2>5
    <3> QED BY <3>1 DEF OutputOf
  <2> QED BY <1>2, <2>6
<1>5. ASSUME NEW f \in DOMAIN o, NEW g \in DOMAIN o, f < g
      PROVE  \A a \in o[f], b \in o[g] : Before(a, b)
  BY <1>1, <1>2, <1>5
<1>6. \A f, g \in DOMAIN o : f # g => f < g \/ g < f
  BY <1>3
<1>7. ASSUME NEW f \in DOMAIN o, NEW g \in DOMAIN o, f # g
      PROVE  \/ \A a \in o[f], b \in o[g] : Before(a, b)
             \/ \A a \in o[f], b \in o[g] : Before(b, a)
  <2>1. CASE f < g
    BY <1>5, <2>1
  <2>2. CASE g < f
    BY <1>5, <2>2
  <2> QED BY <1>6, <1>7, <2>1, <2>2
<1> QED BY <1>1, <1>3, <1>4, <1>7

----------------------------------------------------------------------------
(* The types, and the tables that are held.                                *)

(* A version refers to tables that are on disk.                            *)
Version == [Level -> SUBSET DOMAIN files]

(* The parts of the state have their types.                                *)
MemtablesOK == mem \subseteq Entry /\ (imm = None \/ (imm # {} /\ imm \subseteq Entry))

FilesNumbered == nextFile \in Nat /\ \A f \in DOMAIN files : f \in Nat /\ f < nextFile

SnapshotsOK == snapshots \in Seq(Nat) /\ \A i \in DOMAIN snapshots : snapshots[i] <= LastSequence

IteratorsOK ==
  iterators \in Seq([Level -> SUBSET Nat]) /\ \A i \in DOMAIN iterators : iterators[i] \in Version

CompactionOK ==
  compaction # None =>
    /\ compaction.level \in 0 .. (NumLevels - 2)
    /\ compaction.version \in Version
    /\ compaction.in0 \subseteq compaction.version[compaction.level]
    /\ compaction.in1 \subseteq compaction.version[compaction.level + 1]

(* The inductive invariant of the types and of the tables that are held.   *)
StoreInv ==
  /\ WrittenOK /\ MemtablesOK /\ TablesOK /\ FilesNumbered /\ CurrentOK
  /\ SnapshotsOK /\ IteratorsOK /\ CompactionOK

(* A step leaves these tables as they are. *)
Kept(fs) == \A f \in fs : f \in DOMAIN files' /\ files'[f] = files[f]

(* A write is the newest entry, and leaves the others as they are.         *)
LEMMA WriteStep ==
  ASSUME WrittenOK, Write
  PROVE  /\ WrittenOK' /\ LastSequence' = LastSequence + 1 /\ LastSequence' \in Nat
         /\ \A n \in Entry : n \in Entry' /\ written'[n] = written[n] /\ KeyOf(n)' = KeyOf(n)
         /\ \A n \in Entry' : n \in Entry \/ n = LastSequence + 1
         /\ LastSequence + 1 \in Entry' /\ LastSequence + 1 \notin Entry
<1> DEFINE K == [key : Key, delete : BOOLEAN]
<1>1. written \in Seq(K) /\ Workload \in Seq(SUBSET K) /\ LastSequence = Len(written) /\ LastSequence < Len(Workload)
  BY VersionsAssumption DEF WrittenOK, LastSequence, Write
<1> HIDE DEF K
<1>2. Len(written) \in Nat /\ Len(Workload) \in Nat
  BY <1>1, SeqShape
<1>3. LastSequence + 1 \in 1 .. Len(Workload)
  BY <1>1, <1>2
<1>4. Workload[LastSequence + 1] \in SUBSET K
  BY <1>1, <1>3, SeqShape
<1>5. PICK entry \in K : written' = Append(written, entry)
  BY <1>4 DEF Write
<1>6. /\ written' \in Seq(K) /\ Len(written') = Len(written) + 1
      /\ \A n \in 1 .. Len(written) : written'[n] = written[n]
  BY <1>1, <1>5
<1>7. LastSequence' = LastSequence + 1 /\ LastSequence' \in Nat
  BY <1>1, <1>2, <1>6 DEF LastSequence
<1>8. \A n \in Entry : n \in Entry' /\ written'[n] = written[n] /\ KeyOf(n)' = KeyOf(n)
  BY <1>1, <1>2, <1>6, <1>7 DEF Entry, KeyOf
<1>9. /\ \A n \in Entry' : n \in Entry \/ n = LastSequence + 1
      /\ LastSequence + 1 \in Entry' /\ LastSequence + 1 \notin Entry
  BY <1>1, <1>2, <1>7 DEF Entry
<1>10. WrittenOK'
  BY <1>6 DEF WrittenOK, K
<1> QED BY <1>7, <1>8, <1>9, <1>10

(* The tables that stay on disk. *)
LEMMA CleanedIs ==
  ASSUME NEW disk, NEW version, NEW c, NEW f
  PROVE  /\ f \in DOMAIN Cleaned(disk, version, c) <=> f \in DOMAIN disk /\ f \in LiveFiles(version, Held(c))
         /\ f \in DOMAIN Cleaned(disk, version, c) => Cleaned(disk, version, c)[f] = disk[f]
BY DEF Cleaned

(* Every version somebody holds is live.                                   *)
LEMMA LiveIs ==
  ASSUME NEW version, NEW c
  PROVE  /\ AllFiles(version) \subseteq LiveFiles(version, Held(c))
         /\ \A i \in DOMAIN iterators : AllFiles(iterators[i]) \subseteq LiveFiles(version, Held(c))
         /\ c # None => AllFiles(c.version) \subseteq LiveFiles(version, Held(c))
BY DEF LiveFiles, Held

(* Fresh tables are new on the disk, and the others are still there.       *)
LEMMA WithTablesIs ==
  ASSUME FilesNumbered, NEW new, \A f \in DOMAIN new : f \in Nat /\ nextFile <= f
  PROVE  /\ DOMAIN WithTables(new) = DOMAIN files \union DOMAIN new
         /\ \A f \in DOMAIN new : f \notin DOMAIN files /\ WithTables(new)[f] = new[f]
         /\ \A f \in DOMAIN files : f \notin DOMAIN new /\ WithTables(new)[f] = files[f]
<1>1. \A f \in DOMAIN files : f \notin DOMAIN new
  BY DEF FilesNumbered
<1> QED BY <1>1 DEF WithTables

(* What CompactMemTable does to the tables. *)
LEMMA FlushStep ==
  ASSUME StoreInv, Flush
  PROVE  /\ imm # {} /\ imm \subseteq Entry
         /\ nextFile \notin DOMAIN files /\ nextFile \in DOMAIN files' /\ files'[nextFile] = imm
         /\ \E level \in PickLevelForMemTableOutput(KeyOf(FirstEntry(imm)), KeyOf(LastEntry(imm))) :
              level \in Level /\ current' = [current EXCEPT ![level] = @ \union {nextFile}]
         /\ Kept(AllFiles(current))
         /\ \A i \in DOMAIN iterators : Kept(AllFiles(iterators[i]))
         /\ compaction # None => Kept(AllFiles(compaction.version))
         /\ \A f \in DOMAIN files' : f = nextFile \/ (f \in DOMAIN files /\ files'[f] = files[f])
         /\ nextFile' = nextFile + 1 /\ imm' = None /\ UNCHANGED <<written, mem, compaction, snapshots, iterators>>
<1>1. imm # None /\ imm # {} /\ imm \subseteq Entry /\ nextFile \in Nat
  BY DEF Flush, StoreInv, MemtablesOK, FilesNumbered
<1>2. PICK level \in PickLevelForMemTableOutput(KeyOf(FirstEntry(imm)), KeyOf(LastEntry(imm))) :
        current' = [current EXCEPT ![level] = @ \union {nextFile}]
  BY DEF Flush
<1>3. level \in Level
  <2>1. level \in 0 .. MaxMemLevel
    BY <1>2 DEF PickLevelForMemTableOutput
  <2> QED BY <2>1, VersionsAssumption DEF Level
<1>4. PICK new : new = [f \in {nextFile} |-> imm]
  OBVIOUS
<1>5. DOMAIN new = {nextFile} /\ new[nextFile] = imm /\ \A f \in DOMAIN new : f \in Nat /\ nextFile <= f
  BY <1>1, <1>4
<1>6. PICK disk : disk = WithTables(new)
  OBVIOUS
<1>7. /\ DOMAIN disk = DOMAIN files \union {nextFile} /\ nextFile \notin DOMAIN files /\ disk[nextFile] = imm
      /\ \A f \in DOMAIN files : disk[f] = files[f]
  BY <1>5, <1>6, WithTablesIs DEF StoreInv
<1>8. files' = Cleaned(disk, current', compaction)
  BY <1>4, <1>6 DEF Flush
<1>9. PICK version : version = current'
  OBVIOUS
<1>10. PICK c : c = compaction
  OBVIOUS
<1>11. \A f : /\ f \in DOMAIN files' <=> f \in DOMAIN disk /\ f \in LiveFiles(version, Held(c))
              /\ f \in DOMAIN files' => files'[f] = disk[f]
  BY <1>8, <1>9, <1>10, CleanedIs
<1>12. /\ AllFiles(version) \subseteq LiveFiles(version, Held(c))
       /\ \A i \in DOMAIN iterators : AllFiles(iterators[i]) \subseteq LiveFiles(version, Held(c))
       /\ c # None => AllFiles(c.version) \subseteq LiveFiles(version, Held(c))
  BY LiveIs
<1>13. AllFiles(current) \subseteq AllFiles(version) /\ nextFile \in AllFiles(version)
  <2>1. current \in [Level -> SUBSET DOMAIN files]
    BY DEF StoreInv, CurrentOK
  <2> QED BY <1>2, <1>3, <1>9, <2>1 DEF AllFiles
<1>14. nextFile \in DOMAIN files' /\ files'[nextFile] = imm
  BY <1>7, <1>11, <1>12, <1>13
<1>15. /\ AllFiles(current) \subseteq DOMAIN files
       /\ \A i \in DOMAIN iterators : AllFiles(iterators[i]) \subseteq DOMAIN files
       /\ c # None => AllFiles(c.version) \subseteq DOMAIN files
  BY <1>10 DEF StoreInv, CurrentOK, IteratorsOK, CompactionOK, Version, AllFiles
<1>16. Kept(AllFiles(current))
  BY <1>7, <1>11, <1>12, <1>13, <1>15 DEF Kept
<1>17. \A i \in DOMAIN iterators : Kept(AllFiles(iterators[i]))
  BY <1>7, <1>11, <1>12, <1>15 DEF Kept
<1>18. c # None => Kept(AllFiles(c.version))
  BY <1>7, <1>11, <1>12, <1>15 DEF Kept
<1>19. \A f \in DOMAIN files' : f = nextFile \/ (f \in DOMAIN files /\ files'[f] = files[f])
  BY <1>7, <1>11
<1>20. nextFile' = nextFile + 1 /\ imm' = None /\ UNCHANGED <<written, mem, compaction, snapshots, iterators>>
  BY DEF Flush
<1> QED BY <1>1, <1>2, <1>3, <1>7, <1>10, <1>14, <1>16, <1>17, <1>18, <1>19, <1>20

----------------------------------------------------------------------------
(* The end of a compaction.                                                *)

(* The inputs of a compaction, and of their entries those it keeps.        *)
InputEntries == Entries(compaction.in0 \union compaction.in1)
KeptEntries == InputEntries \ Dropped(compaction, InputEntries)

(* What a compaction makes of the tables of a level, given its outputs.    *)
After(l, o) ==
  IF l = compaction.level THEN current[l] \ compaction.in0
  ELSE IF l = compaction.level + 1 THEN (current[l] \ compaction.in1) \union DOMAIN o ELSE current[l]

(* What the outputs of a compaction are: fresh tables that hold the        *)
(* entries it keeps, and do not interleave.                                *)
OutputsOK(o) ==
  /\ \A f \in DOMAIN o : f \in Nat /\ nextFile <= f /\ f \notin DOMAIN files /\ o[f] # {} /\ o[f] \subseteq KeptEntries
  /\ \A n \in KeptEntries : \E f \in DOMAIN o : n \in o[f]
  /\ \A f, g \in DOMAIN o : f # g => \/ \A a \in o[f], b \in o[g] : Before(a, b)
                                     \/ \A a \in o[f], b \in o[g] : Before(b, a)

(* A user key that two outputs have in common is among the keys.           *)
OutputsCut(o, keys) ==
  \A f, g \in DOMAIN o : f # g => \A a \in o[f], b \in o[g] : KeyOf(a) = KeyOf(b) => KeyOf(a) \in keys

(* What the end of a compaction does to the tables.                        *)
LEMMA FinishStep ==
  ASSUME StoreInv, FinishCompaction
  PROVE  /\ compaction # None /\ KeptEntries \subseteq InputEntries /\ InputEntries \subseteq Entry
         /\ nextFile' \in Nat
         /\ \E o : /\ OutputsOK(o) /\ \A f \in DOMAIN o : f \in DOMAIN files' /\ files'[f] = o[f] /\ f < nextFile'
                   /\ current' \in [Level -> SUBSET DOMAIN files']
                   /\ \A l \in Level : current'[l] = After(l, o)
                   /\ \A f \in DOMAIN files' : f \in DOMAIN o \/ (f \in DOMAIN files /\ files'[f] = files[f])
                   /\ OutputsCut(o, cut')
         /\ cut \subseteq cut' /\ \A key \in cut' : key \in cut \/ \E n \in KeptEntries : key = KeyOf(n)
         /\ \A f \in DOMAIN files : f < nextFile'
         /\ \A i \in DOMAIN iterators : Kept(AllFiles(iterators[i]))
         /\ compaction' = None /\ UNCHANGED <<written, mem, imm, snapshots, iterators>>
<1>1. /\ compaction # None /\ compaction.level \in 0 .. (NumLevels - 2)
      /\ compaction.in0 \subseteq DOMAIN files /\ compaction.in1 \subseteq DOMAIN files
  <2>1. compaction # None
    BY DEF FinishCompaction
  <2>2. compaction.level \in 0 .. (NumLevels - 2)
    BY <2>1 DEF StoreInv, CompactionOK
  <2>3. compaction.level \in Level /\ compaction.level + 1 \in Level
    BY <2>2, NextLevel
  <2> QED BY <2>1, <2>2, <2>3 DEF StoreInv, CompactionOK, Version
<1>2. InputEntries \subseteq Entry /\ KeptEntries \subseteq InputEntries
  BY <1>1 DEF InputEntries, KeptEntries, Entries, StoreInv, TablesOK
<1>3. PICK ends \in SUBSET KeptEntries :
        /\ KeptEntries # {} => LastEntry(KeptEntries) \in ends
        /\ current' = [current EXCEPT ![compaction.level] = @ \ compaction.in0,
                                      ![compaction.level + 1] = (@ \ compaction.in1) \union DOMAIN Outputs(ends, KeptEntries)]
        /\ files' = Cleaned(WithTables(Outputs(ends, KeptEntries)), current', None)
        /\ nextFile' = nextFile + Cardinality(ends)
        /\ cut' = cut \union CutKeys(ends, KeptEntries)
  BY DEF FinishCompaction, KeptEntries, InputEntries
<1>4. PICK kept \in SUBSET Entry : kept = KeptEntries
  BY <1>2
<1>5. PICK o : o = Outputs(ends, kept)
  OBVIOUS
<1>6. nextFile \in Nat /\ \A f \in DOMAIN files : f \in Nat /\ f < nextFile
  BY DEF StoreInv, FilesNumbered
<1>7. /\ \A f \in DOMAIN o : /\ f \in Nat /\ nextFile <= f /\ f < nextFile + Cardinality(ends)
                             /\ o[f] # {} /\ o[f] \subseteq kept
      /\ \A n \in kept : \E f \in DOMAIN o : n \in o[f]
      /\ \A f, g \in DOMAIN o : f # g => \/ \A a \in o[f], b \in o[g] : Before(a, b)
                                         \/ \A a \in o[f], b \in o[g] : Before(b, a)
      /\ Cardinality(ends) \in Nat
  <2>1. ends \in SUBSET kept /\ (kept # {} => LastEntry(kept) \in ends)
    BY <1>3, <1>4
  <2>2. WrittenOK /\ nextFile \in Nat
    BY <1>6 DEF StoreInv
  <2> QED BY <1>5, <2>1, <2>2, OutputsAre
<1>8. PICK disk : disk = WithTables(o)
  OBVIOUS
<1>9. /\ DOMAIN disk = DOMAIN files \union DOMAIN o
      /\ \A f \in DOMAIN o : f \notin DOMAIN files /\ disk[f] = o[f]
      /\ \A f \in DOMAIN files : f \notin DOMAIN o /\ disk[f] = files[f]
  BY <1>7, <1>8, WithTablesIs DEF StoreInv
<1>10. PICK version : version = current'
  OBVIOUS
<1>11. files' = Cleaned(disk, version, None)
  BY <1>3, <1>4, <1>5, <1>8, <1>10
<1>12. \A f : /\ f \in DOMAIN files' <=> f \in DOMAIN disk /\ f \in LiveFiles(version, Held(None))
              /\ f \in DOMAIN files' => files'[f] = disk[f]
  BY <1>11, CleanedIs
<1>13. /\ AllFiles(version) \subseteq LiveFiles(version, Held(None))
       /\ \A i \in DOMAIN iterators : AllFiles(iterators[i]) \subseteq LiveFiles(version, Held(None))
  BY LiveIs
<1>14. current \in [Level -> SUBSET DOMAIN files]
  BY DEF StoreInv, CurrentOK
<1>15. compaction.level \in Level /\ compaction.level + 1 \in Level /\ compaction.level # compaction.level + 1
  <2>1. compaction.level \in Nat
    BY <1>1
  <2> QED BY <1>1, <2>1, NextLevel
<1>16. /\ DOMAIN current' = Level
       /\ \A l \in Level : current'[l] = After(l, o)
  BY <1>3, <1>4, <1>5, <1>14, <1>15 DEF After
<1>17. \A l \in Level : After(l, o) \subseteq DOMAIN files \union DOMAIN o
  BY <1>14 DEF After
<1>18. \A l \in Level : current'[l] \subseteq DOMAIN files'
  <2> SUFFICES ASSUME NEW l \in Level, NEW f \in current'[l] PROVE f \in DOMAIN files'
    OBVIOUS
  <2>1. f \in AllFiles(version)
    BY <1>10 DEF AllFiles
  <2>2. f \in DOMAIN disk
    BY <1>9, <1>16, <1>17
  <2> QED BY <1>12, <1>13, <2>1, <2>2
<1>19. \A f \in DOMAIN o : f \in DOMAIN files' /\ files'[f] = o[f]
  <2> SUFFICES ASSUME NEW f \in DOMAIN o PROVE f \in DOMAIN files' /\ files'[f] = o[f]
    OBVIOUS
  <2>1. f \in current'[compaction.level + 1]
    BY <1>15, <1>16 DEF After
  <2>2. f \in DOMAIN files'
    BY <1>15, <1>18, <2>1
  <2> QED BY <1>9, <1>12, <2>2
<1>20. current' \in [Level -> SUBSET DOMAIN files']
  <2>1. current' = [l \in Level |-> current'[l]]
    BY <1>3, <1>14
  <2> QED BY <1>18, <2>1
<1>21. \A f \in DOMAIN files' : f \in DOMAIN o \/ (f \in DOMAIN files /\ files'[f] = files[f])
  BY <1>9, <1>12
<1>22. \A i \in DOMAIN iterators : AllFiles(iterators[i]) \subseteq DOMAIN files
  BY DEF StoreInv, IteratorsOK, Version, AllFiles
<1>23. \A i \in DOMAIN iterators : Kept(AllFiles(iterators[i]))
  BY <1>9, <1>12, <1>13, <1>22 DEF Kept
<1>24. nextFile' \in Nat /\ nextFile <= nextFile' /\ nextFile' = nextFile + Cardinality(ends)
  BY <1>3, <1>6, <1>7
<1>25. \A f \in DOMAIN files : f < nextFile'
  BY <1>6, <1>24
<1>26. \A f \in DOMAIN o : f < nextFile'
  BY <1>7, <1>24
<1>27. OutputsOK(o)
  BY <1>4, <1>7, <1>9 DEF OutputsOK
<1>28. compaction' = None /\ UNCHANGED <<written, mem, imm, snapshots, iterators>>
  BY DEF FinishCompaction
<1>29. OutputsCut(o, cut')
  <2> SUFFICES ASSUME NEW f \in DOMAIN o, NEW g \in DOMAIN o, f # g, NEW a \in o[f], NEW b \in o[g], KeyOf(a) = KeyOf(b)
               PROVE  KeyOf(a) \in cut'
    BY DEF OutputsCut
  <2>1. a \in kept /\ b \in kept /\ OutputOf(ends, a) = f /\ OutputOf(ends, b) = g
    BY <1>5 DEF Outputs
  <2>2. KeyOf(a) \in CutKeys(ends, kept)
    BY <2>1 DEF CutKeys
  <2> QED BY <1>3, <1>4, <2>2
<1>30. cut \subseteq cut' /\ \A key \in cut' : key \in cut \/ \E n \in KeptEntries : key = KeyOf(n)
  BY <1>3 DEF CutKeys
<1> QED BY <1>1, <1>2, <1>16, <1>19, <1>20, <1>21, <1>23, <1>24, <1>25, <1>26, <1>27, <1>28, <1>29, <1>30

----------------------------------------------------------------------------
(* The beginning of a compaction.                                          *)

(* A sequence without one of its elements: each of the others is there, in *)
(* the order it was in.                                                    *)
LEMMA Removed ==
  ASSUME NEW K, NEW s \in Seq(K), NEW i \in 1 .. Len(s)
  PROVE  /\ RemoveAt(s, i) \in Seq(K) /\ Len(RemoveAt(s, i)) = Len(s) - 1
         /\ \A j \in 1 .. Len(RemoveAt(s, i)) :
              /\ RemoveAt(s, i)[j] = IF j < i THEN s[j] ELSE s[j + 1]
              /\ (IF j < i THEN j ELSE j + 1) \in 1 .. Len(s)
<1>1. Len(s) \in Nat /\ i \in Nat
  OBVIOUS
<1>2. SubSeq(s, 1, i - 1) \in Seq(K) /\ Len(SubSeq(s, 1, i - 1)) = i - 1
      /\ \A j \in 1 .. (i - 1) : SubSeq(s, 1, i - 1)[j] = s[j]
  BY <1>1, SubSeqProperties
<1>3. SubSeq(s, i + 1, Len(s)) \in Seq(K) /\ Len(SubSeq(s, i + 1, Len(s))) = Len(s) - i
      /\ \A j \in 1 .. (Len(s) - i) : SubSeq(s, i + 1, Len(s))[j] = s[i + j]
  BY <1>1, SubSeqProperties
<1>4. PICK u \in Seq(K), v \in Seq(K) : u = SubSeq(s, 1, i - 1) /\ v = SubSeq(s, i + 1, Len(s))
  BY <1>2, <1>3
<1>5. RemoveAt(s, i) = u \o v
  BY <1>4 DEF RemoveAt
<1>6. Len(u) = i - 1 /\ Len(v) = Len(s) - i
  BY <1>2, <1>3, <1>4
<1>7. u \o v \in Seq(K) /\ Len(u \o v) = Len(s) - 1
  <2>1. u \o v \in Seq(K) /\ Len(u \o v) = Len(u) + Len(v)
    BY ConcatProperties
  <2>2. (i - 1) + (Len(s) - i) = Len(s) - 1
    BY <1>1
  <2> QED BY <1>6, <2>1, <2>2
<1>8. ASSUME NEW j \in 1 .. (Len(s) - 1)
      PROVE  /\ (u \o v)[j] = IF j < i THEN s[j] ELSE s[j + 1]
             /\ (IF j < i THEN j ELSE j + 1) \in 1 .. Len(s)
  <2>1. CASE j < i
    <3>1. j \in 1 .. (i - 1) /\ j \in 1 .. (Len(u) + Len(v)) /\ j <= Len(u)
      BY <1>1, <1>6, <2>1
    <3>2. (u \o v)[j] = u[j]
      BY <3>1, ConcatProperties
    <3> QED BY <1>1, <1>2, <1>4, <2>1, <3>1, <3>2
  <2>2. CASE ~(j < i)
    <3>1. j - Len(u) \in 1 .. (Len(s) - i) /\ j \in 1 .. (Len(u) + Len(v)) /\ ~(j <= Len(u)) /\ i + (j - Len(u)) = j + 1
      BY <1>1, <1>6, <2>2
    <3>2. (u \o v)[j] = v[j - Len(u)]
      BY <3>1, ConcatProperties
    <3>3. v[j - Len(u)] = s[j + 1]
      BY <1>3, <1>4, <3>1
    <3> QED BY <1>1, <2>2, <3>2, <3>3
  <2> QED BY <2>1, <2>2
<1> QED BY <1>5, <1>7, <1>8

(* SetupOtherInputs takes tables of the two levels only. *)
LEMMA SetupIn ==
  ASSUME NEW level \in 0 .. (NumLevels - 2), NEW chosen, chosen \subseteq current[level],
         NEW pair \in SetupOtherInputs(level, chosen)
  PROVE  pair[1] \subseteq current[level] /\ pair[2] \subseteq current[level + 1]
<1>1. \A l, low, high : OverlappingInputs(l, low, high) \subseteq current[l]
  BY OverlapIn DEF OverlappingInputs
<1>2. \A fs : fs \subseteq current[level] => AddBoundaryInputs(level, fs) \subseteq current[level]
  BY BoundaryIn
<1>3. PICK in0, exp0, low, high, low2, high2 :
        /\ in0 \subseteq current[level] /\ exp0 \subseteq current[level]
        /\ \/ pair = <<in0, OverlappingInputs(level + 1, low, high)>>
           \/ pair = <<exp0, OverlappingInputs(level + 1, low2, high2)>>
  BY <1>1, <1>2 DEF SetupOtherInputs
<1> QED BY <1>1, <1>3

(* What begins with DoCompactionWork. *)
LEMMA BeginStep ==
  ASSUME StoreInv, NEW level \in 0 .. (NumLevels - 2), NEW pair, NEW manual,
         pair[1] \subseteq current[level], pair[2] \subseteq current[level + 1], Begin(level, pair, manual)
  PROVE  /\ compaction'.level = level /\ compaction'.version = current /\ compaction'.manual = manual
         /\ compaction'.in0 = pair[1] /\ compaction'.in1 = pair[2]
         /\ compaction'.smallest = IF snapshots = <<>> THEN LastSequence ELSE snapshots[1]
BY DEF Begin

(* PickCompaction moves a table down, or begins a compaction.              *)
LEMMA PickStep ==
  ASSUME StoreInv, NEW level \in 0 .. (NumLevels - 2), NEW f \in current[level], PickCompaction(level, f)
  PROVE  \E seed : \E pair \in SetupOtherInputs(level, seed) :
           /\ seed = IF level > 0 THEN {f} ELSE OverlappingInputs(0, LowKey({f}), HighKey({f}))
           /\ seed \subseteq current[level]
           /\ \/ /\ Cardinality(pair[1]) = 1 /\ pair[2] = {}
                 /\ current' = [current EXCEPT ![level] = @ \ pair[1], ![level + 1] = @ \union pair[1]]
                 /\ UNCHANGED compaction
              \/ Begin(level, pair, FALSE) /\ UNCHANGED current
           /\ imm = None /\ compaction = None
           /\ UNCHANGED <<written, mem, imm, files, nextFile, snapshots, iterators>>
<1> DEFINE seed == IF level > 0 THEN {f} ELSE OverlappingInputs(0, LowKey({f}), HighKey({f}))
<1>1. \A low, high : OverlappingInputs(0, low, high) \subseteq current[0]
  BY OverlapIn DEF OverlappingInputs
<1>2. seed \subseteq current[level]
  BY <1>1 DEF Level
<1> HIDE DEF seed
<1>3. \E pair \in SetupOtherInputs(level, seed) :
         /\ \/ /\ Cardinality(pair[1]) = 1 /\ pair[2] = {}
               /\ current' = [current EXCEPT ![level] = @ \ pair[1], ![level + 1] = @ \union pair[1]]
               /\ UNCHANGED compaction
            \/ Begin(level, pair, FALSE) /\ UNCHANGED current
         /\ imm = None /\ compaction = None
         /\ UNCHANGED <<written, mem, imm, files, nextFile, snapshots, iterators>>
  BY DEF PickCompaction, seed
<1>4. PICK s : s = seed
  OBVIOUS
<1>5. s = IF level > 0 THEN {f} ELSE OverlappingInputs(0, LowKey({f}), HighKey({f}))
  BY <1>4 DEF seed
<1> QED BY <1>2, <1>3, <1>4, <1>5

(* CompactRange begins a compaction. *)
LEMMA RangeStep ==
  ASSUME StoreInv, NEW level \in 0 .. (NumLevels - 2), NEW low \in Key, NEW high \in Key, CompactRange(level, low, high)
  PROVE  \E chosen : \E pair \in SetupOtherInputs(level, chosen) :
           /\ chosen \subseteq OverlappingInputs(level, low, high) /\ chosen # {}
           /\ chosen \subseteq current[level]
           /\ \/ chosen = OverlappingInputs(level, low, high)
              \/ /\ level > 0
                 /\ \A f \in chosen : \A g \in OverlappingInputs(level, low, high) \ chosen : InFront(f, g)
           /\ Begin(level, pair, TRUE)
           /\ imm = None /\ compaction = None
           /\ UNCHANGED <<written, mem, imm, files, nextFile, current, snapshots, iterators>>
<1>1. OverlappingInputs(level, low, high) \subseteq current[level]
  BY OverlapIn DEF OverlappingInputs
<1>2. level = 0 \/ level > 0
  OBVIOUS
<1>3. PICK chosen : \E pair \in SetupOtherInputs(level, chosen) :
           /\ chosen \subseteq OverlappingInputs(level, low, high) /\ chosen # {}
           /\ \/ chosen = OverlappingInputs(level, low, high)
              \/ /\ level > 0
                 /\ \A f \in chosen : \A g \in OverlappingInputs(level, low, high) \ chosen : InFront(f, g)
           /\ Begin(level, pair, TRUE)
  BY <1>2 DEF CompactRange
<1>4. imm = None /\ compaction = None /\ UNCHANGED <<written, mem, imm, files, nextFile, current, snapshots, iterators>>
  BY DEF CompactRange
<1> QED BY <1>1, <1>3, <1>4

----------------------------------------------------------------------------
(* The types, step by step.                                                *)

(* The tables and what refers to them, after a step that leaves them: the  *)
(* iterators and the compaction keep what they held.                       *)
LEMMA SameTables ==
  ASSUME StoreInv, UNCHANGED <<files, nextFile>>
  PROVE  /\ FilesNumbered' /\ Version' = Version
         /\ (Entry' = Entry \/ \A n \in Entry : n \in Entry') => TablesOK'
BY DEF StoreInv, FilesNumbered, TablesOK, Version

(* The types after a write. *)
LEMMA StoreWrite ==
  ASSUME StoreInv, Write
  PROVE  StoreInv'
<1>1. /\ WrittenOK' /\ LastSequence' = LastSequence + 1 /\ LastSequence \in Nat
      /\ \A n \in Entry : n \in Entry' /\ written'[n] = written[n] /\ KeyOf(n)' = KeyOf(n)
      /\ LastSequence + 1 \in Entry'
  BY WriteStep, KeyNat DEF StoreInv
<1>2. mem' = mem \union {LastSequence + 1}
      /\ UNCHANGED <<imm, files, nextFile, current, compaction, snapshots, iterators>>
  BY DEF Write
<1>3. MemtablesOK'
  BY <1>1, <1>2 DEF StoreInv, MemtablesOK
<1>4. FilesNumbered' /\ TablesOK' /\ Version' = Version
  BY <1>1, <1>2, SameTables
<1>5. CurrentOK'
  BY <1>2 DEF StoreInv, CurrentOK
<1>6. SnapshotsOK'
  <2>1. snapshots' = snapshots /\ snapshots \in Seq(Nat) /\ \A i \in DOMAIN snapshots : snapshots[i] <= LastSequence
    BY <1>2 DEF StoreInv, SnapshotsOK
  <2>2. \A i \in DOMAIN snapshots : snapshots[i] \in Nat
    BY <2>1
  <2>3. \A i \in DOMAIN snapshots : snapshots[i] <= LastSequence + 1
    BY <1>1, <2>1, <2>2
  <2> QED BY <1>1, <2>1, <2>3 DEF SnapshotsOK
<1>7. IteratorsOK'
  BY <1>2, <1>4 DEF StoreInv, IteratorsOK
<1>8. CompactionOK'
  BY <1>2, <1>4 DEF StoreInv, CompactionOK
<1> QED BY <1>1, <1>3, <1>4, <1>5, <1>6, <1>7, <1>8 DEF StoreInv

(* The types after a switch of memtables. *)
LEMMA StoreSwitch ==
  ASSUME StoreInv, Switch
  PROVE  StoreInv'
<1>1. /\ mem # {} /\ imm' = mem /\ mem' = {}
      /\ UNCHANGED <<written, files, nextFile, current, compaction, snapshots, iterators>>
  BY DEF Switch
<1>2. Entry' = Entry /\ LastSequence' = LastSequence
  BY <1>1 DEF Entry, LastSequence
<1>3. FilesNumbered' /\ TablesOK' /\ Version' = Version
  BY <1>1, <1>2, SameTables
<1>4. WrittenOK' /\ MemtablesOK' /\ CurrentOK' /\ SnapshotsOK'
  BY <1>1, <1>2 DEF StoreInv, WrittenOK, MemtablesOK, CurrentOK, SnapshotsOK
<1>5. IteratorsOK' /\ CompactionOK'
  BY <1>1, <1>3 DEF StoreInv, IteratorsOK, CompactionOK
<1> QED BY <1>3, <1>4, <1>5 DEF StoreInv

(* The types after a flush. *)
LEMMA StoreFlush ==
  ASSUME StoreInv, Flush
  PROVE  StoreInv'
<1>1. /\ imm # {} /\ imm \subseteq Entry
      /\ nextFile \notin DOMAIN files /\ nextFile \in DOMAIN files' /\ files'[nextFile] = imm
      /\ Kept(AllFiles(current))
      /\ \A i \in DOMAIN iterators : Kept(AllFiles(iterators[i]))
      /\ compaction # None => Kept(AllFiles(compaction.version))
      /\ \A f \in DOMAIN files' : f = nextFile \/ (f \in DOMAIN files /\ files'[f] = files[f])
      /\ nextFile' = nextFile + 1 /\ imm' = None /\ UNCHANGED <<written, mem, compaction, snapshots, iterators>>
  BY FlushStep
<1>2. PICK level \in Level : current' = [current EXCEPT ![level] = @ \union {nextFile}]
  BY FlushStep
<1>3. Entry' = Entry /\ LastSequence' = LastSequence
  BY <1>1 DEF Entry, LastSequence
<1>4. WrittenOK' /\ MemtablesOK' /\ SnapshotsOK'
  BY <1>1, <1>3 DEF StoreInv, WrittenOK, MemtablesOK, SnapshotsOK
<1>5. TablesOK'
  BY <1>1, <1>3 DEF StoreInv, TablesOK
<1>6. FilesNumbered'
  <2>1. nextFile \in Nat /\ \A f \in DOMAIN files : f \in Nat /\ f < nextFile
    BY DEF StoreInv, FilesNumbered
  <2>2. \A f \in DOMAIN files' : f \in Nat /\ f < nextFile + 1
    BY <1>1, <2>1
  <2> QED BY <1>1, <2>1, <2>2 DEF FilesNumbered
<1>7. CurrentOK'
  <2>1. current \in [Level -> SUBSET DOMAIN files]
    BY DEF StoreInv, CurrentOK
  <2>2. \A l \in Level : current[l] \subseteq DOMAIN files'
    BY <1>1 DEF Kept, AllFiles
  <2> QED BY <1>1, <1>2, <2>1, <2>2 DEF CurrentOK
<1>8. IteratorsOK'
  <2>1. /\ iterators \in Seq([Level -> SUBSET Nat]) /\ iterators' = iterators
        /\ \A i \in DOMAIN iterators : iterators[i] \in [Level -> SUBSET DOMAIN files]
    BY <1>1 DEF StoreInv, IteratorsOK, Version
  <2>2. ASSUME NEW i \in DOMAIN iterators
        PROVE  iterators[i] \in [Level -> SUBSET DOMAIN files']
    <3>1. \A l \in Level : iterators[i][l] \subseteq DOMAIN files'
      BY <1>1 DEF Kept, AllFiles
    <3>2. iterators[i] \in [Level -> SUBSET DOMAIN files]
      BY <2>1
    <3> QED BY <3>1, <3>2
  <2> QED BY <2>1, <2>2 DEF IteratorsOK, Version
<1>9. CompactionOK'
  <2> SUFFICES ASSUME compaction # None
               PROVE  compaction.version \in [Level -> SUBSET DOMAIN files']
    BY <1>1 DEF StoreInv, CompactionOK, Version
  <2>1. compaction.version \in [Level -> SUBSET DOMAIN files]
    BY DEF StoreInv, CompactionOK, Version
  <2>2. \A l \in Level : compaction.version[l] \subseteq DOMAIN files'
    BY <1>1 DEF Kept, AllFiles
  <2> QED BY <2>1, <2>2
<1> QED BY <1>4, <1>5, <1>6, <1>7, <1>8, <1>9 DEF StoreInv

(* The types after a compaction began, or a table was moved down.          *)
LEMMA StoreBegin ==
  ASSUME StoreInv, NEW level \in 0 .. (NumLevels - 2), NEW pair, NEW manual,
         pair[1] \subseteq current[level], pair[2] \subseteq current[level + 1], Begin(level, pair, manual),
         UNCHANGED <<written, mem, imm, files, nextFile, current, snapshots, iterators>>
  PROVE  StoreInv'
<1>1. Entry' = Entry /\ LastSequence' = LastSequence
  BY DEF Entry, LastSequence
<1>2. FilesNumbered' /\ TablesOK' /\ Version' = Version
  BY <1>1, SameTables
<1>3. WrittenOK' /\ MemtablesOK' /\ CurrentOK' /\ SnapshotsOK'
  BY <1>1 DEF StoreInv, WrittenOK, MemtablesOK, CurrentOK, SnapshotsOK
<1>4. IteratorsOK'
  BY <1>2 DEF StoreInv, IteratorsOK
<1>5. CompactionOK'
  <2>1. /\ compaction'.level = level /\ compaction'.version = current
        /\ compaction'.in0 = pair[1] /\ compaction'.in1 = pair[2]
    BY BeginStep
  <2>2. current \in Version
    BY DEF StoreInv, CurrentOK, Version
  <2> QED BY <1>2, <2>1, <2>2 DEF CompactionOK
<1> QED BY <1>2, <1>3, <1>4, <1>5 DEF StoreInv

(* The types after PickCompaction.                                         *)
LEMMA StorePick ==
  ASSUME StoreInv, NEW level \in 0 .. (NumLevels - 2), NEW f \in current[level], PickCompaction(level, f)
  PROVE  StoreInv'
<1>0. PICK seed : \E pair \in SetupOtherInputs(level, seed) :
        /\ seed \subseteq current[level]
        /\ \/ /\ pair[2] = {}
              /\ current' = [current EXCEPT ![level] = @ \ pair[1], ![level + 1] = @ \union pair[1]]
              /\ UNCHANGED compaction
           \/ Begin(level, pair, FALSE) /\ UNCHANGED current
        /\ imm = None /\ compaction = None
        /\ UNCHANGED <<written, mem, imm, files, nextFile, snapshots, iterators>>
  BY PickStep
<1>1. PICK pair \in SetupOtherInputs(level, seed) :
        /\ seed \subseteq current[level]
        /\ \/ /\ pair[2] = {}
              /\ current' = [current EXCEPT ![level] = @ \ pair[1], ![level + 1] = @ \union pair[1]]
              /\ UNCHANGED compaction
           \/ Begin(level, pair, FALSE) /\ UNCHANGED current
        /\ imm = None /\ compaction = None
        /\ UNCHANGED <<written, mem, imm, files, nextFile, snapshots, iterators>>
  BY <1>0
<1>2. pair[1] \subseteq current[level] /\ pair[2] \subseteq current[level + 1]
  BY <1>1, SetupIn
<1>3. CASE Begin(level, pair, FALSE) /\ UNCHANGED current
  BY <1>1, <1>2, <1>3, StoreBegin
<1>4. CASE /\ current' = [current EXCEPT ![level] = @ \ pair[1], ![level + 1] = @ \union pair[1]]
           /\ UNCHANGED compaction
  <2>1. Entry' = Entry /\ LastSequence' = LastSequence
    BY <1>1 DEF Entry, LastSequence
  <2>2. FilesNumbered' /\ TablesOK' /\ Version' = Version
    BY <1>1, <2>1, SameTables
  <2>3. WrittenOK' /\ MemtablesOK' /\ SnapshotsOK'
    BY <1>1, <2>1 DEF StoreInv, WrittenOK, MemtablesOK, SnapshotsOK
  <2>4. CurrentOK'
    <3>1. current \in [Level -> SUBSET DOMAIN files] /\ files' = files
      BY <1>1 DEF StoreInv, CurrentOK
    <3>2. level \in Level /\ level + 1 \in Level
      BY NextLevel
    <3>3. pair[1] \in SUBSET DOMAIN files
      BY <1>2, <3>1, <3>2
    <3> QED BY <1>4, <3>1, <3>2, <3>3 DEF CurrentOK
  <2>5. IteratorsOK' /\ CompactionOK'
    BY <1>1, <1>4, <2>2 DEF StoreInv, IteratorsOK, CompactionOK
  <2> QED BY <2>2, <2>3, <2>4, <2>5 DEF StoreInv
<1> QED BY <1>1, <1>3, <1>4

(* The types after CompactRange.                                           *)
LEMMA StoreRange ==
  ASSUME StoreInv, NEW level \in 0 .. (NumLevels - 2), NEW low \in Key, NEW high \in Key, CompactRange(level, low, high)
  PROVE  StoreInv'
<1>0. PICK chosen : \E pair \in SetupOtherInputs(level, chosen) :
        /\ chosen \subseteq current[level] /\ Begin(level, pair, TRUE)
        /\ UNCHANGED <<written, mem, imm, files, nextFile, current, snapshots, iterators>>
  BY RangeStep
<1>1. PICK pair \in SetupOtherInputs(level, chosen) :
        /\ chosen \subseteq current[level] /\ Begin(level, pair, TRUE)
        /\ UNCHANGED <<written, mem, imm, files, nextFile, current, snapshots, iterators>>
  BY <1>0
<1>2. pair[1] \subseteq current[level] /\ pair[2] \subseteq current[level + 1]
  BY <1>1, SetupIn
<1> QED BY <1>1, <1>2, StoreBegin

(* The types after a compaction. *)
LEMMA StoreFinish ==
  ASSUME StoreInv, FinishCompaction
  PROVE  StoreInv'
<1>1. /\ KeptEntries \subseteq Entry /\ nextFile' \in Nat
      /\ \A f \in DOMAIN files : f < nextFile'
      /\ \A i \in DOMAIN iterators : Kept(AllFiles(iterators[i]))
      /\ compaction' = None /\ UNCHANGED <<written, mem, imm, snapshots, iterators>>
  BY FinishStep
<1>2. PICK o : /\ OutputsOK(o) /\ \A f \in DOMAIN o : f \in DOMAIN files' /\ files'[f] = o[f] /\ f < nextFile'
               /\ current' \in [Level -> SUBSET DOMAIN files']
               /\ \A f \in DOMAIN files' : f \in DOMAIN o \/ (f \in DOMAIN files /\ files'[f] = files[f])
  BY FinishStep
<1>3. Entry' = Entry /\ LastSequence' = LastSequence
  BY <1>1 DEF Entry, LastSequence
<1>4. WrittenOK' /\ MemtablesOK' /\ SnapshotsOK'
  BY <1>1, <1>3 DEF StoreInv, WrittenOK, MemtablesOK, SnapshotsOK
<1>5. TablesOK'
  BY <1>1, <1>2, <1>3 DEF StoreInv, TablesOK, OutputsOK
<1>6. FilesNumbered'
  BY <1>1, <1>2 DEF StoreInv, FilesNumbered, OutputsOK
<1>7. CurrentOK'
  BY <1>2 DEF CurrentOK
<1>8. IteratorsOK'
  <2>1. /\ iterators \in Seq([Level -> SUBSET Nat]) /\ iterators' = iterators
        /\ \A i \in DOMAIN iterators : iterators[i] \in [Level -> SUBSET DOMAIN files]
    BY <1>1 DEF StoreInv, IteratorsOK, Version
  <2>2. ASSUME NEW i \in DOMAIN iterators
        PROVE  iterators[i] \in [Level -> SUBSET DOMAIN files']
    <3>1. \A l \in Level : iterators[i][l] \subseteq DOMAIN files'
      BY <1>1 DEF Kept, AllFiles
    <3>2. iterators[i] \in [Level -> SUBSET DOMAIN files]
      BY <2>1
    <3> QED BY <3>1, <3>2
  <2> QED BY <2>1, <2>2 DEF IteratorsOK, Version
<1>9. CompactionOK'
  BY <1>1 DEF CompactionOK
<1> QED BY <1>4, <1>5, <1>6, <1>7, <1>8, <1>9 DEF StoreInv

(* The types after a snapshot is taken or released. *)
LEMMA StoreSnapshot ==
  ASSUME StoreInv, GetSnapshot \/ \E i \in DOMAIN snapshots : ReleaseSnapshot(i)
  PROVE  StoreInv'
<1>1. UNCHANGED <<written, mem, imm, files, nextFile, current, compaction, iterators>>
  BY DEF GetSnapshot, ReleaseSnapshot
<1>2. Entry' = Entry /\ LastSequence' = LastSequence
  BY <1>1 DEF Entry, LastSequence
<1>3. FilesNumbered' /\ TablesOK' /\ Version' = Version
  BY <1>1, <1>2, SameTables
<1>4. WrittenOK' /\ MemtablesOK' /\ CurrentOK' /\ IteratorsOK' /\ CompactionOK'
  BY <1>1, <1>2, <1>3 DEF StoreInv, WrittenOK, MemtablesOK, CurrentOK, IteratorsOK, CompactionOK
<1>5. snapshots \in Seq(Nat) /\ (\A i \in DOMAIN snapshots : snapshots[i] <= LastSequence) /\ LastSequence \in Nat
      /\ DOMAIN snapshots = 1 .. Len(snapshots)
  BY KeyNat DEF StoreInv, SnapshotsOK
<1>6. CASE GetSnapshot
  <2>1. snapshots' = Append(snapshots, LastSequence)
    BY <1>6 DEF GetSnapshot
  <2>2. /\ snapshots' \in Seq(Nat) /\ Len(snapshots') = Len(snapshots) + 1
        /\ \A i \in 1 .. Len(snapshots) : snapshots'[i] = snapshots[i]
        /\ snapshots'[Len(snapshots) + 1] = LastSequence
    BY <1>5, <2>1, AppendProperties
  <2>3. \A i \in 1 .. (Len(snapshots) + 1) : i \in 1 .. Len(snapshots) \/ i = Len(snapshots) + 1
    BY <1>5
  <2>4. \A i \in 1 .. (Len(snapshots) + 1) : snapshots'[i] <= LastSequence
    BY <1>5, <2>2, <2>3
  <2>5. SnapshotsOK'
    BY <1>2, <2>2, <2>4 DEF SnapshotsOK
  <2> QED BY <1>3, <1>4, <2>5 DEF StoreInv
<1>7. CASE \E i \in DOMAIN snapshots : ReleaseSnapshot(i)
  <2>1. PICK i \in 1 .. Len(snapshots) : snapshots' = RemoveAt(snapshots, i)
    BY <1>5, <1>7 DEF ReleaseSnapshot
  <2> DEFINE at(j) == IF j < i THEN j ELSE j + 1
  <2>2. /\ snapshots' \in Seq(Nat)
        /\ \A j \in 1 .. Len(snapshots') : snapshots'[j] = snapshots[at(j)] /\ at(j) \in 1 .. Len(snapshots)
    BY <1>5, <2>1, Removed
  <2> HIDE DEF at
  <2>3. \A j \in 1 .. Len(snapshots') : snapshots'[j] <= LastSequence
    BY <1>5, <2>2
  <2>4. SnapshotsOK'
    BY <1>2, <2>2, <2>3 DEF SnapshotsOK
  <2> QED BY <1>3, <1>4, <2>4 DEF StoreInv
<1> QED BY <1>6, <1>7

(* The types after an iterator is opened or closed. *)
LEMMA StoreIterator ==
  ASSUME StoreInv, NewIterator \/ \E i \in DOMAIN iterators : CleanupIteratorState(i)
  PROVE  StoreInv'
<1>1. UNCHANGED <<written, mem, imm, files, nextFile, current, compaction, snapshots>>
  BY DEF NewIterator, CleanupIteratorState
<1>2. Entry' = Entry /\ LastSequence' = LastSequence
  BY <1>1 DEF Entry, LastSequence
<1>3. FilesNumbered' /\ TablesOK' /\ Version' = Version
  BY <1>1, <1>2, SameTables
<1>4. WrittenOK' /\ MemtablesOK' /\ CurrentOK' /\ SnapshotsOK' /\ CompactionOK'
  BY <1>1, <1>2, <1>3 DEF StoreInv, WrittenOK, MemtablesOK, CurrentOK, SnapshotsOK, CompactionOK
<1> DEFINE V == [Level -> SUBSET Nat]
<1>5. current \in V /\ current \in Version
  <2>1. DOMAIN files \subseteq Nat
    BY DEF StoreInv, FilesNumbered
  <2> QED BY <2>1 DEF StoreInv, CurrentOK, Version
<1>6. iterators \in Seq(V) /\ (\A i \in DOMAIN iterators : iterators[i] \in Version)
  BY DEF StoreInv, IteratorsOK
<1> HIDE DEF V
<1>7. DOMAIN iterators = 1 .. Len(iterators) /\ Len(iterators) \in Nat
  BY <1>6
<1>8. CASE NewIterator
  <2>1. iterators' = Append(iterators, current)
    BY <1>8 DEF NewIterator
  <2>2. /\ iterators' \in Seq(V) /\ Len(iterators') = Len(iterators) + 1
        /\ \A i \in 1 .. Len(iterators) : iterators'[i] = iterators[i]
        /\ iterators'[Len(iterators) + 1] = current
    BY <1>5, <1>6, <2>1, AppendProperties
  <2>3. \A i \in 1 .. (Len(iterators) + 1) : i \in 1 .. Len(iterators) \/ i = Len(iterators) + 1
    BY <1>7
  <2>4. \A i \in 1 .. (Len(iterators) + 1) : iterators'[i] \in Version
    BY <1>5, <1>6, <1>7, <2>2, <2>3
  <2>5. DOMAIN iterators' = 1 .. (Len(iterators) + 1)
    BY <2>2
  <2>6. IteratorsOK'
    BY <1>3, <2>2, <2>4, <2>5 DEF IteratorsOK, V
  <2> QED BY <1>3, <1>4, <2>6 DEF StoreInv
<1>9. CASE \E i \in DOMAIN iterators : CleanupIteratorState(i)
  <2>1. PICK i \in 1 .. Len(iterators) : iterators' = RemoveAt(iterators, i)
    BY <1>7, <1>9 DEF CleanupIteratorState
  <2> DEFINE at(j) == IF j < i THEN j ELSE j + 1
  <2>2. /\ iterators' \in Seq(V)
        /\ \A j \in 1 .. Len(iterators') : iterators'[j] = iterators[at(j)] /\ at(j) \in 1 .. Len(iterators)
    BY <1>6, <2>1, Removed
  <2> HIDE DEF at
  <2>3. \A j \in 1 .. Len(iterators') : iterators'[j] \in Version
    BY <1>6, <1>7, <2>2
  <2>4. DOMAIN iterators' = 1 .. Len(iterators')
    BY <2>2
  <2>5. IteratorsOK'
    BY <1>3, <2>2, <2>3, <2>4 DEF IteratorsOK, V
  <2> QED BY <1>3, <1>4, <2>5 DEF StoreInv
<1> QED BY <1>8, <1>9

(* Every step keeps the types, and the tables that are held.               *)
LEMMA StoreStep ==
  ASSUME StoreInv, [Next]_vars
  PROVE  StoreInv'
<1>1. CASE Next
  <2>1. CASE Write
    BY <2>1, StoreWrite
  <2>2. CASE Switch
    BY <2>2, StoreSwitch
  <2>3. CASE Flush
    BY <2>3, StoreFlush
  <2>4. CASE \E level \in 0 .. (NumLevels - 2) : \E f \in current[level] : PickCompaction(level, f)
    BY <2>4, StorePick
  <2>5. CASE \E level \in 0 .. (NumLevels - 2) : \E low, high \in Key : low <= high /\ CompactRange(level, low, high)
    BY <2>5, StoreRange
  <2>6. CASE FinishCompaction
    BY <2>6, StoreFinish
  <2>7. CASE GetSnapshot \/ \E i \in DOMAIN snapshots : ReleaseSnapshot(i)
    BY <2>7, StoreSnapshot
  <2>8. CASE NewIterator \/ \E i \in DOMAIN iterators : CleanupIteratorState(i)
    BY <2>8, StoreIterator
  <2> QED BY <1>1, <2>1, <2>2, <2>3, <2>4, <2>5, <2>6, <2>7, <2>8 DEF Next
<1>2. CASE UNCHANGED vars
  <2>1. UNCHANGED <<written, mem, imm, files, nextFile, current, compaction, snapshots, iterators>>
    BY <1>2 DEF vars
  <2>2. Entry' = Entry /\ LastSequence' = LastSequence /\ Version' = Version
    BY <2>1 DEF Entry, LastSequence, Version
  <2> QED BY <2>1, <2>2 DEF StoreInv, WrittenOK, MemtablesOK, TablesOK, FilesNumbered, CurrentOK, SnapshotsOK,
                            IteratorsOK, CompactionOK
<1> QED BY <1>1, <1>2

(* It holds at the beginning. *)
LEMMA StoreInit ==
  ASSUME Init
  PROVE  StoreInv
<1>1. written = <<>> /\ snapshots = <<>> /\ iterators = <<>>
  BY DEF Init
<1>2. WrittenOK /\ SnapshotsOK /\ IteratorsOK
  BY <1>1 DEF WrittenOK, SnapshotsOK, IteratorsOK
<1>3. MemtablesOK /\ TablesOK /\ FilesNumbered /\ CompactionOK
  BY DEF Init, MemtablesOK, TablesOK, FilesNumbered, CompactionOK
<1>4. CurrentOK
  BY DEF Init, CurrentOK
<1> QED BY <1>2, <1>3, <1>4 DEF StoreInv

(* The types, and that every table somebody holds is on disk, hold in      *)
(* every state: the invariant the other theorems rest on.                  *)
THEOREM VersionsInvariant == Spec => []StoreInv
<1>1. Init => StoreInv
  BY StoreInit
<1>2. StoreInv /\ [Next]_vars => StoreInv'
  BY StoreStep
<1> QED BY <1>1, <1>2, PTL DEF Spec

(* Only a compaction cuts, and inside of keys that were written.           *)
LEMMA CutStep ==
  ASSUME StoreInv, cut \subseteq Key, [Next]_vars
  PROVE  cut' \subseteq Key
<1>1. CASE FinishCompaction
  <2>1. /\ KeptEntries \subseteq Entry
        /\ \A key \in cut' : key \in cut \/ \E n \in KeptEntries : key = KeyOf(n)
    BY <1>1, FinishStep
  <2> QED BY <2>1, KeyNat DEF StoreInv
<1>2. [Next]_vars => FinishCompaction \/ UNCHANGED cut
  BY DEF Next, vars, Write, Switch, Flush, PickCompaction, CompactRange, GetSnapshot, ReleaseSnapshot, NewIterator,
         CleanupIteratorState
<1> QED BY <1>1, <1>2

(* Every part of the state of the versions has its shape.                  *)
THEOREM VersionsTypeCorrect == Spec => []TypeOK
<1> DEFINE CutIn == cut \subseteq Key
<1>1. StoreInv /\ CutIn => TypeOK
  <2> SUFFICES ASSUME StoreInv, cut \subseteq Key PROVE TypeOK
    OBVIOUS
  <2>1. DOMAIN files \subseteq Nat
    BY DEF StoreInv, FilesNumbered
  <2>2. current \in [Level -> SUBSET Nat]
    BY <2>1 DEF StoreInv, CurrentOK
  <2> QED BY <2>2 DEF StoreInv, TypeOK, WrittenOK, MemtablesOK, TablesOK, FilesNumbered, SnapshotsOK, Entry
<1>2. Init => StoreInv /\ CutIn
  BY StoreInit DEF Init
<1>3. StoreInv /\ CutIn /\ [Next]_vars => (StoreInv /\ CutIn)'
  BY StoreStep, CutStep
<1> QED BY <1>1, <1>2, <1>3, PTL DEF Spec

(* No table that the current version, an iterator or a compaction uses is  *)
(* deleted (AddLiveFiles, DeleteObsoleteFiles).                            *)
THEOREM HeldTablesExist == Spec => []HeldFilesExist
<1>1. StoreInv => HeldFilesExist
  <2> SUFFICES ASSUME StoreInv PROVE HeldFilesExist
    OBVIOUS
  <2>1. AllFiles(current) \subseteq DOMAIN files
    BY DEF StoreInv, CurrentOK, AllFiles
  <2>2. \A i \in DOMAIN iterators : AllFiles(iterators[i]) \subseteq DOMAIN files
    BY DEF StoreInv, IteratorsOK, Version, AllFiles
  <2>3. compaction # None => compaction.in0 \union compaction.in1 \subseteq DOMAIN files
    <3> SUFFICES ASSUME compaction # None
                 PROVE  compaction.in0 \subseteq DOMAIN files /\ compaction.in1 \subseteq DOMAIN files
      OBVIOUS
    <3>1. compaction.level \in Level /\ compaction.level + 1 \in Level
      BY NextLevel DEF StoreInv, CompactionOK
    <3> QED BY <3>1 DEF StoreInv, CompactionOK, Version
  <2> QED BY <2>1, <2>2, <2>3 DEF HeldFilesExist
<1> QED BY <1>1, VersionsInvariant, PTL

----------------------------------------------------------------------------
(* The memtables and the tables.                                           *)

(* What is in the memtable is newer than what is in the one before it, and *)
(* both are newer than what is in a table.                                 *)
Ages ==
  /\ imm # None => \A a \in imm, b \in mem : a < b
  /\ \A f \in DOMAIN files : \A a \in files[f] :
       (\A b \in mem : a < b) /\ (imm # None => \A b \in imm : a < b)

(* Every step keeps the ages.                                              *)
LEMMA AgesStep ==
  ASSUME StoreInv, Ages, [Next]_vars
  PROVE  Ages'
<1>0. /\ mem \subseteq Entry /\ (imm # None => imm \subseteq Entry) /\ LastSequence \in Nat
      /\ \A f \in DOMAIN files : files[f] \subseteq Entry
  BY KeyNat DEF StoreInv, MemtablesOK, TablesOK
<1>1. CASE Write
  <2>1. mem' = mem \union {LastSequence + 1} /\ UNCHANGED <<imm, files>>
    BY <1>1 DEF Write
  <2>2. \A a \in Entry : a < LastSequence + 1
    BY <1>0 DEF Entry
  <2>3. imm' # None => \A a \in imm', b \in mem' : a < b
    BY <1>0, <2>1, <2>2 DEF Ages
  <2>4. \A f \in DOMAIN files' : \A a \in files'[f] : \A b \in mem' : a < b
    BY <1>0, <2>1, <2>2 DEF Ages
  <2>5. \A f \in DOMAIN files' : \A a \in files'[f] : imm' # None => \A b \in imm' : a < b
    BY <2>1 DEF Ages
  <2> QED BY <2>3, <2>4, <2>5 DEF Ages
<1>2. CASE Switch
  BY <1>2 DEF Switch, Ages
<1>3. CASE Flush
  <2>1. /\ files'[nextFile] = imm /\ imm # None /\ imm' = None /\ mem' = mem
        /\ \A f \in DOMAIN files' : f = nextFile \/ (f \in DOMAIN files /\ files'[f] = files[f])
    BY <1>3, FlushStep DEF Flush
  <2> QED BY <2>1 DEF Ages
<1>4. CASE FinishCompaction
  <2>1. compaction # None /\ KeptEntries \subseteq InputEntries /\ mem' = mem /\ imm' = imm
    BY <1>4, FinishStep
  <2>2. PICK o : /\ OutputsOK(o) /\ \A f \in DOMAIN o : files'[f] = o[f]
                 /\ \A f \in DOMAIN files' : f \in DOMAIN o \/ (f \in DOMAIN files /\ files'[f] = files[f])
    BY <1>4, FinishStep
  <2>3. compaction.in0 \union compaction.in1 \subseteq DOMAIN files
    <3>1. compaction.level \in Level /\ compaction.level + 1 \in Level
      BY <2>1, NextLevel DEF StoreInv, CompactionOK
    <3> QED BY <2>1, <3>1 DEF StoreInv, CompactionOK, Version
  <2>4. \A a \in InputEntries : \E f \in DOMAIN files : a \in files[f]
    BY <2>3 DEF InputEntries, Entries
  <2>5. \A f \in DOMAIN files' : \A a \in files'[f] : \E g \in DOMAIN files : a \in files[g]
    BY <2>1, <2>2, <2>4 DEF OutputsOK
  <2> QED BY <2>1, <2>5 DEF Ages
<1>5. CASE UNCHANGED <<mem, imm, files>>
  BY <1>5 DEF Ages
<1>6. ASSUME NEW level, NEW f, PickCompaction(level, f)
      PROVE  UNCHANGED <<mem, imm, files>>
  BY <1>6 DEF PickCompaction
<1>7. ASSUME NEW level, NEW low, NEW high, CompactRange(level, low, high)
      PROVE  UNCHANGED <<mem, imm, files>>
  BY <1>7 DEF CompactRange
<1>8. UNCHANGED vars => UNCHANGED <<mem, imm, files>>
  BY DEF vars
<1>9. GetSnapshot \/ (\E i \in DOMAIN snapshots : ReleaseSnapshot(i)) => UNCHANGED <<mem, imm, files>>
  BY DEF GetSnapshot, ReleaseSnapshot
<1>10. NewIterator \/ (\E i \in DOMAIN iterators : CleanupIteratorState(i)) => UNCHANGED <<mem, imm, files>>
  BY DEF NewIterator, CleanupIteratorState
<1> QED BY <1>1, <1>2, <1>3, <1>4, <1>5, <1>6, <1>7, <1>8, <1>9, <1>10 DEF Next

(* Of two tables, where they keep their entries: their order is kept.      *)
LEMMA SameOrder ==
  ASSUME WrittenOK, TablesOK, NEW f \in DOMAIN files, NEW g \in DOMAIN files,
         files'[f] = files[f], files'[g] = files[g], \A n \in Entry : KeyOf(n)' = KeyOf(n)
  PROVE  /\ Precedes(f, g)' <=> Precedes(f, g)
         /\ Share(f, g)' <=> Share(f, g)
         /\ Older(files[f], files[g])' <=> Older(files[f], files[g])
<1>1. files[f] \subseteq Entry /\ files[g] \subseteq Entry
  BY DEF TablesOK
<1>2. \A a, b \in Entry : Before(a, b)' <=> Before(a, b)
  BY DEF Before
<1>3. Precedes(f, g)' <=> Precedes(f, g)
  BY <1>1, <1>2 DEF Precedes
<1>4. Share(f, g)' <=> Share(f, g)
  BY <1>1 DEF Share
<1>5. Older(files[f], files[g])' <=> Older(files[f], files[g])
  BY <1>1 DEF Older
<1> QED BY <1>3, <1>4, <1>5

(* So is what they cover. *)
LEMMA SameCovered ==
  ASSUME WrittenOK, TablesOK, NEW fs \in SUBSET DOMAIN files,
         \A f \in fs : files'[f] = files[f], \A n \in Entry : KeyOf(n)' = KeyOf(n), Covered(fs)
  PROVE  Covered(fs)'
<1>1. \A f \in fs : files[f] \subseteq Entry
  BY DEF TablesOK
<1>2. Entries(fs)' = Entries(fs) /\ Entries(fs) \subseteq Entry
  BY <1>1 DEF Entries
<1>3. \A f \in fs : \A k \in Nat : Meets(f, k, k)' <=> Meets(f, k, k)
  BY <1>1 DEF Meets
<1> QED BY <1>2, <1>3 DEF Covered

(* The inputs of a compaction, among the tables of their levels while it   *)
(* runs: in0 leaves nothing older behind; each other table of the next     *)
(* level is wholly before or behind the inputs, without a user key of in0; *)
(* and the inputs of one that is not manual leave no gap.                  *)
Underway(level, in0, in1, manual) ==
  /\ in0 \subseteq current[level] /\ in1 \subseteq current[level + 1] /\ in0 # {}
  /\ \A f \in in0, g \in current[level] \ in0 : Older(files[f], files[g])
  /\ \A g \in current[level + 1] \ in1 : \/ \A f \in in0 \union in1 : Precedes(f, g)
                                         \/ \A f \in in0 \union in1 : Precedes(g, f)
  /\ \A g \in current[level + 1] \ in1, f \in in0 : ~Share(f, g)
  /\ ~manual => Covered(in0 \union in1)
  /\ manual => imm = None

(* Where a good pair begins. *)
LEMMA BesideInputs ==
  ASSUME WrittenOK, TablesOK, CurrentOK, NEW level \in 0 .. (NumLevels - 2), NEW in0, NEW in1, GoodPair(level, in0, in1),
         Apart(level + 1), NEW g \in current[level + 1] \ in1
  PROVE  /\ \/ \A f \in in0 \union in1 : Precedes(f, g)
            \/ \A f \in in0 \union in1 : Precedes(g, f)
         /\ \A f \in in0 : ~Share(f, g)
<1>0. level \in Level /\ level + 1 \in Level
  BY NextLevel
<1>1. /\ in0 \in SUBSET DOMAIN files /\ in0 # {} /\ in1 \subseteq current[level + 1] /\ in1 \in SUBSET DOMAIN files
      /\ g \in DOMAIN files /\ g \in current[level + 1] /\ g \notin in1
  BY <1>0 DEF GoodPair, CurrentOK
<1>2. PICK low \in Nat, high \in Nat : low = LowKey(in0) /\ high = HighKey(in0)
  BY <1>1, HullEnds
<1>3. \A f \in in0 : \A a \in files[f] : low <= KeyOf(a) /\ KeyOf(a) <= high
  BY <1>1, <1>2, HullEnds DEF Entries
<1>4. ~Meets(g, low, high) /\ \A h \in in1 : Meets(h, low, high)
  BY <1>1, <1>2 DEF GoodPair
<1>5. \A f \in DOMAIN files : \A a \in files[f] : a \in Entry /\ KeyOf(a) \in Nat
  BY KeyNat DEF TablesOK
<1>6. \A f \in in0 \union in1 : f \in DOMAIN files
  BY <1>1
<1>7. (\A b \in files[g] : KeyOf(b) < low) \/ (\A b \in files[g] : high < KeyOf(b))
  <2>1. \A b \in files[g] : KeyOf(b) \in Nat
    BY <1>1, <1>5
  <2> QED BY <1>4, <2>1 DEF Meets
<1>8. CASE \A b \in files[g] : KeyOf(b) < low
  <2>1. ASSUME NEW f \in in0, NEW a \in files[f], NEW b \in files[g]
        PROVE  KeyOf(b) < KeyOf(a) /\ KeyOf(b) # KeyOf(a) /\ Before(b, a)
    <3>1. a \in Entry /\ b \in Entry /\ KeyOf(a) \in Nat /\ KeyOf(b) \in Nat /\ low <= KeyOf(a) /\ KeyOf(b) < low
      BY <1>1, <1>3, <1>5, <1>8
    <3>2. KeyOf(b) < KeyOf(a)
      BY <3>1
    <3> QED BY <3>1, <3>2, OrderOfKeys
  <2>2. ASSUME NEW h \in in1
        PROVE  Precedes(g, h)
    <3>1. PICK a \in files[h] : low <= KeyOf(a)
      BY <1>4 DEF Meets
    <3>2. \A b \in files[g] : ~Before(a, b)
      <4> TAKE b \in files[g]
      <4>1. a \in Entry /\ b \in Entry /\ KeyOf(a) \in Nat /\ KeyOf(b) \in Nat /\ KeyOf(b) < low
        BY <1>1, <1>5, <1>8
      <4>2. KeyOf(b) < KeyOf(a)
        BY <3>1, <4>1
      <4> QED BY <4>1, <4>2 DEF Before
    <3>3. ~Precedes(h, g)
      BY <1>1, <3>2 DEF Precedes, TablesOK
    <3> QED BY <1>1, <3>3 DEF Apart
  <2>3. \A f \in in0 : Precedes(g, f) /\ ~Share(f, g)
    BY <2>1 DEF Precedes, Share
  <2> QED BY <2>2, <2>3
<1>9. CASE \A b \in files[g] : high < KeyOf(b)
  <2>1. ASSUME NEW f \in in0, NEW a \in files[f], NEW b \in files[g]
        PROVE  KeyOf(a) < KeyOf(b) /\ KeyOf(a) # KeyOf(b) /\ Before(a, b)
    <3>1. a \in Entry /\ b \in Entry /\ KeyOf(a) \in Nat /\ KeyOf(b) \in Nat /\ KeyOf(a) <= high /\ high < KeyOf(b)
      BY <1>1, <1>3, <1>5, <1>9
    <3>2. KeyOf(a) < KeyOf(b)
      BY <3>1
    <3> QED BY <3>1, <3>2, OrderOfKeys
  <2>2. ASSUME NEW h \in in1
        PROVE  Precedes(h, g)
    <3>1. PICK a \in files[h] : KeyOf(a) <= high
      BY <1>4 DEF Meets
    <3>2. \A b \in files[g] : ~Before(b, a)
      <4> TAKE b \in files[g]
      <4>1. a \in Entry /\ b \in Entry /\ KeyOf(a) \in Nat /\ KeyOf(b) \in Nat /\ high < KeyOf(b)
        BY <1>1, <1>5, <1>9
      <4>2. KeyOf(a) < KeyOf(b)
        BY <3>1, <4>1
      <4> QED BY <4>1, <4>2 DEF Before
    <3>3. ~Precedes(g, h)
      BY <1>1, <3>2 DEF Precedes, TablesOK
    <3> QED BY <1>1, <3>3 DEF Apart
  <2>3. \A f \in in0 : Precedes(f, g) /\ ~Share(f, g)
    BY <2>1 DEF Precedes, Share
  <2> QED BY <2>2, <2>3
<1> QED BY <1>7, <1>8, <1>9

(* All the user keys of a table are on one side of those of the memtable.  *)
AllBelow(f) == \A a \in files[f], b \in imm : KeyOf(a) < KeyOf(b)
AllAbove(f) == \A a \in files[f], b \in imm : KeyOf(b) < KeyOf(a)

(* A memtable is written to a level below 0 only where the tables of the   *)
(* levels down to it are on one side.                                      *)
LEMMA FlushIsClear ==
  ASSUME StoreInv, imm # None,
         NEW level \in PickLevelForMemTableOutput(KeyOf(FirstEntry(imm)), KeyOf(LastEntry(imm))), level > 0,
         NEW m \in Level, m <= level, NEW f \in current[m]
  PROVE  AllBelow(f) \/ AllAbove(f)
<1>1. imm \in SUBSET Entry /\ imm # {} /\ WrittenOK /\ TablesOK /\ CurrentOK
  BY DEF StoreInv, MemtablesOK
<1>2. /\ FirstEntry(imm) \in imm /\ \A b \in imm : b = FirstEntry(imm) \/ Before(FirstEntry(imm), b)
      /\ LastEntry(imm) \in imm /\ \A b \in imm : b = LastEntry(imm) \/ Before(b, LastEntry(imm))
  BY <1>1, FirstIs, LastIs
<1>3. \A b \in imm : b \in Entry /\ KeyOf(b) \in Nat
  BY <1>1, KeyNat
<1>4. PICK low \in Nat, high \in Nat : low = KeyOf(FirstEntry(imm)) /\ high = KeyOf(LastEntry(imm))
  BY <1>2, <1>3
<1>5. \A b \in imm : low <= KeyOf(b) /\ KeyOf(b) <= high
  <2> TAKE b \in imm
  <2>1. b \in Entry /\ FirstEntry(imm) \in Entry /\ LastEntry(imm) \in Entry
    BY <1>2, <1>3
  <2>2. b = FirstEntry(imm) \/ KeyOf(FirstEntry(imm)) <= KeyOf(b)
    BY <1>1, <1>2, <2>1, OrderOfKeys
  <2>3. b = LastEntry(imm) \/ KeyOf(b) <= KeyOf(LastEntry(imm))
    BY <1>1, <1>2, <2>1, OrderOfKeys
  <2>4. KeyOf(b) \in Nat
    BY <1>3
  <2> QED BY <1>4, <2>2, <2>3, <2>4
<1>6. f \in DOMAIN files /\ current[m] \in SUBSET DOMAIN files
  BY <1>1 DEF CurrentOK
<1>7. Overlapping(current[m], low, high) = {}
  <2>1. m \in 0 .. level
    BY DEF Level, PickLevelForMemTableOutput
  <2> QED BY <1>4, <2>1 DEF PickLevelForMemTableOutput
<1>8. ~Meets(f, low, high)
  BY <1>1, <1>6, <1>7, OverlapMeets
<1>9. \A a \in files[f] : KeyOf(a) \in Nat
  BY <1>1, <1>6, KeyNat DEF TablesOK
<1>10. (\A a \in files[f] : KeyOf(a) < low) \/ (\A a \in files[f] : high < KeyOf(a))
  BY <1>8, <1>9 DEF Meets
<1>11. CASE \A a \in files[f] : KeyOf(a) < low
  BY <1>3, <1>5, <1>9, <1>11 DEF AllBelow
<1>12. CASE \A a \in files[f] : high < KeyOf(a)
  BY <1>3, <1>5, <1>9, <1>12 DEF AllAbove
<1> QED BY <1>10, <1>11, <1>12

(* Tables without a gap are all on the same side.                          *)
LEMMA OneSide ==
  ASSUME StoreInv, imm # None, NEW fs \in SUBSET DOMAIN files, Covered(fs),
         \A f \in fs : AllBelow(f) \/ AllAbove(f)
  PROVE  (\A f \in fs : AllBelow(f)) \/ (\A f \in fs : AllAbove(f))
<1> SUFFICES ASSUME NEW f \in fs, ~AllBelow(f), NEW g \in fs, ~AllAbove(g)
             PROVE  FALSE
  OBVIOUS
<1>1. imm \in SUBSET Entry /\ imm # {} /\ WrittenOK /\ TablesOK
  BY DEF StoreInv, MemtablesOK
<1>2. PICK b \in imm : TRUE
  BY <1>1
<1>3. KeyOf(b) \in Nat
  BY <1>1, KeyNat
<1>4. PICK a \in files[f], c \in files[g] : TRUE
  BY <1>1 DEF TablesOK
<1>5. KeyOf(a) \in Nat /\ KeyOf(c) \in Nat /\ KeyOf(b) < KeyOf(a) /\ KeyOf(c) < KeyOf(b)
  BY <1>1, <1>4, KeyNat DEF TablesOK, AllBelow, AllAbove
<1>6. PICK h \in fs : Meets(h, KeyOf(b), KeyOf(b))
  <2>1. a \in Entries(fs) /\ c \in Entries(fs)
    BY <1>4 DEF Entries
  <2>2. KeyOf(c) <= KeyOf(b) /\ KeyOf(b) <= KeyOf(a)
    BY <1>3, <1>5
  <2> QED BY <1>3, <2>1, <2>2 DEF Covered
<1>7. PICK d \in files[h], e \in files[h] : KeyOf(b) <= KeyOf(d) /\ KeyOf(e) <= KeyOf(b)
  BY <1>6 DEF Meets
<1>8. KeyOf(d) \in Nat /\ KeyOf(e) \in Nat
  BY <1>1, KeyNat DEF TablesOK
<1> QED BY <1>3, <1>7, <1>8 DEF AllBelow, AllAbove

----------------------------------------------------------------------------
(* The order of the levels.                                                *)

(* Below level 0 the tables of a level do not interleave; what is deeper is *)
(* older, at level 0 what was flushed first; and a compaction is as it must be. *)
LevelsApart == \A l \in Level \ {0} : Apart(l)

LevelsOrdered ==
  \A l, k \in Level : k < l => \A f \in current[l], g \in current[k] : Older(files[f], files[g])

NewestLast == \A f, g \in current[0] : f < g => Older(files[f], files[g])

CompactionUnderway ==
  compaction # None => Underway(compaction.level, compaction.in0, compaction.in1, compaction.manual)

(* The inductive invariant of the order of the levels. *)
OrderInv == LevelsApart /\ LevelsOrdered /\ NewestLast /\ CompactionUnderway

(* The tables of the levels, as they were. *)
SameFiles == \A f \in AllFiles(current) : files'[f] = files[f]
SameKeys == \A n \in Entry : KeyOf(n)' = KeyOf(n)

(* What relates two tables of the levels still does. *)
LEMMA SameRelations ==
  ASSUME StoreInv, SameFiles, SameKeys, NEW l \in Level, NEW k \in Level, NEW f \in current[l], NEW g \in current[k]
  PROVE  /\ f \in DOMAIN files /\ g \in DOMAIN files
         /\ Precedes(f, g)' <=> Precedes(f, g)
         /\ Share(f, g)' <=> Share(f, g)
         /\ Older(files[f], files[g])' <=> Older(files[f], files[g])
<1>1. f \in DOMAIN files /\ g \in DOMAIN files
  BY DEF StoreInv, CurrentOK
<1>2. files'[f] = files[f] /\ files'[g] = files[g]
  BY DEF SameFiles, AllFiles
<1>3. \A n \in Entry : KeyOf(n)' = KeyOf(n)
  BY DEF SameKeys
<1>4. WrittenOK /\ TablesOK
  BY DEF StoreInv
<1> QED BY <1>1, <1>2, <1>3, <1>4, SameOrder

(* A compaction under way, where the levels stay as they are.              *)
LEMMA SameUnderway ==
  ASSUME StoreInv, SameFiles, SameKeys, UNCHANGED current,
         NEW level \in 0 .. (NumLevels - 2), NEW in0, NEW in1, NEW manual, Underway(level, in0, in1, manual),
         manual => imm' = None
  PROVE  Underway(level, in0, in1, manual)'
<1>0. level \in Level /\ level + 1 \in Level
  BY NextLevel
<1>1. in0 \subseteq current[level] /\ in1 \subseteq current[level + 1] /\ in0 # {}
  BY DEF Underway
<1>2. \A f \in in0, g \in current[level] \ in0 : Older(files[f], files[g])'
  BY <1>0, <1>1, SameRelations DEF Underway
<1>3. \A f \in in0 \union in1, g \in current[level + 1] :
         (Precedes(f, g)' <=> Precedes(f, g)) /\ (Precedes(g, f)' <=> Precedes(g, f))
  BY <1>0, <1>1, SameRelations
<1>4. \A g \in current[level + 1] \ in1 : \/ \A f \in in0 \union in1 : Precedes(f, g)'
                                         \/ \A f \in in0 \union in1 : Precedes(g, f)'
  BY <1>3 DEF Underway
<1>5. \A g \in current[level + 1] \ in1, f \in in0 : ~Share(f, g)'
  BY <1>0, <1>1, SameRelations DEF Underway
<1>6. ~manual => Covered(in0 \union in1)'
  <2> SUFFICES ASSUME ~manual PROVE Covered(in0 \union in1)'
    OBVIOUS
  <2>1. Covered(in0 \union in1) /\ WrittenOK /\ TablesOK
    BY DEF Underway, StoreInv
  <2>2. in0 \union in1 \in SUBSET DOMAIN files
    BY <1>0, <1>1 DEF StoreInv, CurrentOK
  <2>3. \A f \in in0 \union in1 : files'[f] = files[f]
    BY <1>0, <1>1 DEF SameFiles, AllFiles
  <2> QED BY <2>1, <2>2, <2>3, SameCovered DEF SameKeys
<1> QED BY <1>1, <1>2, <1>4, <1>5, <1>6 DEF Underway

(* The order of the levels, where they stay as they are.                   *)
LEMMA SameLevels ==
  ASSUME StoreInv, LevelsApart, LevelsOrdered, NewestLast, SameFiles, SameKeys, UNCHANGED current
  PROVE  LevelsApart' /\ LevelsOrdered' /\ NewestLast'
<1>0. 0 \in Level
  BY VersionsAssumption DEF Level
<1>1. LevelsApart'
  BY SameRelations DEF LevelsApart, Apart
<1>2. LevelsOrdered'
  BY SameRelations DEF LevelsOrdered
<1>3. NewestLast'
  BY <1>0, SameRelations DEF NewestLast
<1> QED BY <1>1, <1>2, <1>3

(* The order after a step that changes neither tables nor levels.          *)
LEMMA OrderStill ==
  ASSUME StoreInv, OrderInv, SameKeys, UNCHANGED <<files, current, compaction>>,
         compaction # None /\ compaction.manual => imm' = None
  PROVE  OrderInv'
<1>1. SameFiles
  BY DEF SameFiles
<1>2. LevelsApart' /\ LevelsOrdered' /\ NewestLast'
  BY <1>1, SameLevels DEF OrderInv
<1>3. CompactionUnderway'
  <2> SUFFICES ASSUME compaction # None
               PROVE  Underway(compaction.level, compaction.in0, compaction.in1, compaction.manual)'
    BY DEF CompactionUnderway
  <2>1. PICK level \in 0 .. (NumLevels - 2), in0 \in {compaction.in0}, in1 \in {compaction.in1},
          manual \in {compaction.manual} : level = compaction.level
    BY DEF StoreInv, CompactionOK
  <2>2. Underway(level, in0, in1, manual) /\ (manual => imm' = None)
    BY <2>1 DEF OrderInv, CompactionUnderway
  <2>3. Underway(level, in0, in1, manual)'
    BY <1>1, <2>2, SameUnderway
  <2>4. level = compaction'.level /\ in0 = compaction'.in0 /\ in1 = compaction'.in1 /\ manual = compaction'.manual
    BY <2>1
  <2> QED BY <2>3, <2>4
<1> QED BY <1>2, <1>3 DEF OrderInv

(* The order after a compaction began. *)
LEMMA OrderBegin ==
  ASSUME StoreInv, OrderInv, NEW level \in 0 .. (NumLevels - 2), NEW pair, NEW manual,
         GoodPair(level, pair[1], pair[2]), ~manual => Covered(pair[1] \union pair[2]), imm = None,
         Begin(level, pair, manual),
         UNCHANGED <<written, mem, imm, files, nextFile, current, snapshots, iterators>>
  PROVE  OrderInv'
<1>0. level \in Level /\ level + 1 \in Level /\ level + 1 > 0 /\ level + 1 # 0
  BY NextLevel
<1>1. SameFiles /\ SameKeys
  BY DEF SameFiles, SameKeys, KeyOf
<1>2. LevelsApart' /\ LevelsOrdered' /\ NewestLast'
  BY <1>1, SameLevels DEF OrderInv
<1>3. PICK in0, in1 : in0 = pair[1] /\ in1 = pair[2]
  OBVIOUS
<1>4. GoodPair(level, in0, in1) /\ (~manual => Covered(in0 \union in1))
  BY <1>3
<1>5. Apart(level + 1)
  BY <1>0 DEF OrderInv, LevelsApart
<1>6. \A g \in current[level + 1] \ in1 :
         /\ \/ \A f \in in0 \union in1 : Precedes(f, g)
            \/ \A f \in in0 \union in1 : Precedes(g, f)
         /\ \A f \in in0 : ~Share(f, g)
  BY <1>4, <1>5, BesideInputs DEF StoreInv
<1>7. Underway(level, in0, in1, manual)
  BY <1>4, <1>6 DEF GoodPair, Underway
<1>8. Underway(level, in0, in1, manual)'
  BY <1>1, <1>7, SameUnderway
<1>9. level = compaction'.level /\ in0 = compaction'.in0 /\ in1 = compaction'.in1 /\ manual = compaction'.manual
  BY <1>3 DEF Begin
<1>10. CompactionUnderway'
  BY <1>8, <1>9 DEF CompactionUnderway
<1> QED BY <1>2, <1>10 DEF OrderInv

(* The table a memtable becomes, against one that was there.               *)
LEMMA FlushedTable ==
  ASSUME StoreInv, Ages, Flush, NEW new, new = nextFile, NEW l \in Level, NEW f \in current[l]
  PROVE  /\ f # new /\ f < new
         /\ Older(files[f], files[new])'
         /\ AllBelow(f) \/ AllAbove(f) => ~Share(f, new)' /\ Older(files[new], files[f])'
         /\ AllBelow(f) => Precedes(f, new)'
         /\ AllAbove(f) => Precedes(new, f)'
<1>1. /\ imm # {} /\ imm \subseteq Entry /\ new \notin DOMAIN files /\ files'[new] = imm
      /\ Kept(AllFiles(current)) /\ written' = written
  BY FlushStep
<1>2. f \in DOMAIN files /\ files'[f] = files[f] /\ files[f] \subseteq Entry
  BY <1>1 DEF Kept, AllFiles, StoreInv, CurrentOK, TablesOK
<1>3. \A n \in Entry : KeyOf(n)' = KeyOf(n) /\ KeyOf(n) \in Nat
  BY <1>1, KeyNat DEF KeyOf, StoreInv
<1>4. \A a, b \in Entry : Before(a, b)' <=> Before(a, b)
  BY <1>3 DEF Before
<1>5. f # new /\ f < new
  BY <1>1, <1>2 DEF StoreInv, FilesNumbered
<1>6. Older(files[f], files[new])'
  <2>1. \A a \in files[f], b \in imm : a < b
    BY <1>2 DEF Ages, Flush
  <2> QED BY <1>1, <1>2, <2>1 DEF Older
<1>7. ASSUME AllBelow(f)
      PROVE  ~Share(f, new)' /\ Precedes(f, new)' /\ Older(files[new], files[f])'
  <2>1. \A a \in files[f], b \in imm : KeyOf(a) # KeyOf(b) /\ Before(a, b)
    BY <1>1, <1>2, <1>3, <1>7 DEF AllBelow, Before
  <2> QED BY <1>1, <1>2, <1>3, <1>4, <2>1 DEF Share, Precedes, Older
<1>8. ASSUME AllAbove(f)
      PROVE  ~Share(f, new)' /\ Precedes(new, f)' /\ Older(files[new], files[f])'
  <2>1. \A a \in files[f], b \in imm : KeyOf(a) # KeyOf(b) /\ Before(b, a)
    BY <1>1, <1>2, <1>3, <1>8 DEF AllAbove, Before
  <2> QED BY <1>1, <1>2, <1>3, <1>4, <2>1 DEF Share, Precedes, Older
<1> QED BY <1>5, <1>6, <1>7, <1>8

(* The order after a flush: a table goes below level 0 only where its keys *)
(* are on one side of those of each table down to there, and, as the       *)
(* inputs of a compaction leave no gap, on one side of all of them.        *)
LEMMA OrderFlush ==
  ASSUME StoreInv, Ages, OrderInv, Flush
  PROVE  OrderInv'
<1>1. PICK new : new = nextFile
  OBVIOUS
<1>2. /\ imm # None /\ Kept(AllFiles(current)) /\ UNCHANGED <<written, compaction>> /\ imm' = None
      /\ new \notin DOMAIN files
  BY <1>1, FlushStep DEF Flush
<1>3. PICK t \in Level : /\ t \in PickLevelForMemTableOutput(KeyOf(FirstEntry(imm)), KeyOf(LastEntry(imm)))
                         /\ current' = [current EXCEPT ![t] = @ \union {new}]
  BY <1>1, FlushStep
<1>4. SameFiles /\ SameKeys
  BY <1>2 DEF SameFiles, SameKeys, Kept, KeyOf
<1>5. current \in [Level -> SUBSET DOMAIN files]
  BY DEF StoreInv, CurrentOK
<1>6. /\ \A l \in Level : current[l] \subseteq current'[l]
      /\ \A l \in Level : \A f \in current'[l] : f \in current[l] \/ (f = new /\ l = t)
  BY <1>3, <1>5
<1>7. \A l \in Level : \A f \in current[l] :
        /\ f # new /\ f < new
        /\ Older(files[f], files[new])'
        /\ AllBelow(f) \/ AllAbove(f) => ~Share(f, new)' /\ Older(files[new], files[f])'
        /\ AllBelow(f) => Precedes(f, new)'
        /\ AllAbove(f) => Precedes(new, f)'
  BY <1>1, FlushedTable
<1>8. t > 0 => \A m \in Level : m <= t => \A f \in current[m] : AllBelow(f) \/ AllAbove(f)
  BY <1>2, <1>3, FlushIsClear
<1>9. t \in Nat /\ t >= 0 /\ \A l \in Level : l \in Nat /\ (l < t => l <= t) /\ (l = t => l <= t) /\ (l # 0 => l > 0)
  BY DEF Level
<1>10. LevelsApart'
  <2> SUFFICES ASSUME NEW l \in Level \ {0}, NEW f \in current'[l], NEW g \in current'[l], f # g
               PROVE  Precedes(f, g)' \/ Precedes(g, f)'
    BY DEF LevelsApart, Apart
  <2>1. CASE f \in current[l] /\ g \in current[l]
    BY <1>4, <2>1, SameRelations DEF OrderInv, LevelsApart, Apart
  <2>2. CASE f = new /\ l = t /\ g \in current[l]
    BY <1>7, <1>8, <1>9, <2>2
  <2>3. CASE g = new /\ l = t /\ f \in current[l]
    BY <1>7, <1>8, <1>9, <2>3
  <2> QED BY <1>6, <2>1, <2>2, <2>3
<1>11. LevelsOrdered'
  <2> SUFFICES ASSUME NEW l \in Level, NEW k \in Level, k < l, NEW f \in current'[l], NEW g \in current'[k]
               PROVE  Older(files[f], files[g])'
    BY DEF LevelsOrdered
  <2>1. CASE f \in current[l] /\ g \in current[k]
    BY <1>4, <2>1, SameRelations DEF OrderInv, LevelsOrdered
  <2>2. CASE f = new /\ l = t /\ g \in current[k]
    <3>1. t > 0 /\ k <= t
      BY <1>9, <2>2
    <3> QED BY <1>7, <1>8, <2>2, <3>1
  <2>3. CASE g = new /\ k = t /\ f \in current[l]
    BY <1>7, <2>3
  <2>4. l # t \/ k # t
    BY <1>9
  <2> QED BY <1>6, <2>1, <2>2, <2>3, <2>4
<1>12. NewestLast'
  <2>0. 0 \in Level
    BY VersionsAssumption DEF Level
  <2> SUFFICES ASSUME NEW f \in current'[0], NEW g \in current'[0], f < g
               PROVE  Older(files[f], files[g])'
    BY DEF NewestLast
  <2>1. CASE f \in current[0] /\ g \in current[0]
    BY <1>4, <2>0, <2>1, SameRelations DEF OrderInv, NewestLast
  <2>2. CASE f \in current[0] /\ g = new
    BY <1>7, <2>0, <2>2
  <2>3. ~(f = new)
    <3> SUFFICES ASSUME f = new PROVE FALSE
      OBVIOUS
    <3>1. nextFile \in Nat /\ \A h \in DOMAIN files : h \in Nat /\ h < nextFile
      BY DEF StoreInv, FilesNumbered
    <3>2. g = new \/ g \in DOMAIN files
      BY <1>5, <1>6, <2>0
    <3> QED BY <1>1, <3>1, <3>2
  <2> QED BY <1>6, <2>0, <2>1, <2>2, <2>3
<1>13. CompactionUnderway'
  <2> SUFFICES ASSUME compaction # None
               PROVE  Underway(compaction.level, compaction.in0, compaction.in1, compaction.manual)'
    BY <1>2 DEF CompactionUnderway
  <2>1. PICK level \in 0 .. (NumLevels - 2), in0 \in {compaction.in0}, in1 \in {compaction.in1},
          manual \in {compaction.manual} : level = compaction.level
    BY DEF StoreInv, CompactionOK
  <2>2. level \in Level /\ level + 1 \in Level /\ level + 1 > 0 /\ level <= level + 1 /\ level + 1 <= level + 1
    BY NextLevel
  <2>3. Underway(level, in0, in1, manual)
    BY <2>1 DEF OrderInv, CompactionUnderway
  <2>4. ~manual /\ Covered(in0 \union in1)
    BY <1>2, <2>3 DEF Underway
  <2>5. in0 \subseteq current[level] /\ in1 \subseteq current[level + 1] /\ in0 # {}
        /\ in0 \union in1 \in SUBSET DOMAIN files
    BY <1>5, <2>2, <2>3 DEF Underway
  <2>6. \A f \in in0, g \in current'[level] \ in0 : Older(files[f], files[g])'
    <3> SUFFICES ASSUME NEW f \in in0, NEW g \in current'[level] \ in0
                 PROVE  Older(files[f], files[g])'
      OBVIOUS
    <3>1. CASE g \in current[level]
      BY <1>4, <2>2, <2>3, <2>5, <3>1, SameRelations DEF Underway
    <3>2. CASE g = new
      BY <1>7, <2>2, <2>5, <3>2
    <3> QED BY <1>6, <2>2, <3>1, <3>2
  <2>7. ASSUME NEW g \in current'[level + 1] \ in1
        PROVE  /\ \/ \A f \in in0 \union in1 : Precedes(f, g)'
                  \/ \A f \in in0 \union in1 : Precedes(g, f)'
               /\ \A f \in in0 : ~Share(f, g)'
    <3>1. CASE g \in current[level + 1]
      <4>1. \A f \in in0 \union in1 : (Precedes(f, g)' <=> Precedes(f, g)) /\ (Precedes(g, f)' <=> Precedes(g, f))
                                      /\ (Share(f, g)' <=> Share(f, g))
        BY <1>4, <2>2, <2>5, <3>1, SameRelations
      <4> QED BY <2>3, <2>7, <3>1, <4>1 DEF Underway
    <3>2. CASE g = new /\ level + 1 = t
      <4>1. \A f \in in0 \union in1 : AllBelow(f) \/ AllAbove(f)
        BY <1>8, <2>2, <2>5, <3>2
      <4>2. (\A f \in in0 \union in1 : AllBelow(f)) \/ (\A f \in in0 \union in1 : AllAbove(f))
        BY <1>2, <2>4, <2>5, <4>1, OneSide
      <4>3. \A f \in in0 \union in1 : /\ AllBelow(f) => Precedes(f, g)' /\ ~Share(f, g)'
                                      /\ AllAbove(f) => Precedes(g, f)' /\ ~Share(f, g)'
        BY <1>7, <2>2, <2>5, <3>2
      <4> QED BY <4>2, <4>3
    <3> QED BY <1>6, <2>2, <2>7, <3>1, <3>2
  <2>8. Covered(in0 \union in1)'
    <3>1. \A f \in in0 \union in1 : files'[f] = files[f]
      BY <1>4, <2>2, <2>5 DEF SameFiles, AllFiles
    <3> QED BY <1>4, <2>4, <2>5, <3>1, SameCovered DEF SameKeys, StoreInv
  <2>9. in0 \subseteq current'[level] /\ in1 \subseteq current'[level + 1]
    BY <1>6, <2>2, <2>5
  <2>10. Underway(level, in0, in1, manual)'
    BY <2>4, <2>5, <2>6, <2>7, <2>8, <2>9 DEF Underway
  <2>11. level = compaction'.level /\ in0 = compaction'.in0 /\ in1 = compaction'.in1 /\ manual = compaction'.manual
    BY <1>2, <2>1
  <2> QED BY <2>10, <2>11
<1> QED BY <1>10, <1>11, <1>12, <1>13 DEF OrderInv

(* The order after a compaction: its outputs lie where its inputs lay.     *)
LEMMA OrderFinish ==
  ASSUME StoreInv, OrderInv, FinishCompaction
  PROVE  OrderInv'
<1>1. /\ compaction # None /\ KeptEntries \subseteq InputEntries /\ InputEntries \subseteq Entry
      /\ compaction' = None /\ written' = written
  BY FinishStep
<1>2. PICK o : /\ OutputsOK(o) /\ \A f \in DOMAIN o : files'[f] = o[f]
               /\ \A l \in Level : current'[l] = After(l, o)
               /\ current' \in [Level -> SUBSET DOMAIN files']
               /\ \A f \in DOMAIN files' : f \in DOMAIN o \/ (f \in DOMAIN files /\ files'[f] = files[f])
  BY FinishStep
<1>3. PICK level \in 0 .. (NumLevels - 2), in0 \in {compaction.in0}, in1 \in {compaction.in1},
        manual \in {compaction.manual} : level = compaction.level
  BY <1>1 DEF StoreInv, CompactionOK
<1>4. level \in Level /\ level + 1 \in Level /\ level # level + 1 /\ level + 1 > 0 /\ level + 1 # 0 /\ level \in Nat
  BY NextLevel
<1>5. Underway(level, in0, in1, manual)
  BY <1>1, <1>3 DEF OrderInv, CompactionUnderway
<1>6. current \in [Level -> SUBSET DOMAIN files]
  BY DEF StoreInv, CurrentOK
<1>7. in0 \subseteq current[level] /\ in1 \subseteq current[level + 1] /\ in0 \union in1 \subseteq DOMAIN files
  BY <1>4, <1>5, <1>6 DEF Underway
(* An old table is as it was, an output holds entries of the inputs. *)
<1>8. \A l \in Level : \A f \in current'[l] :
        \/ f \in DOMAIN o /\ l = level + 1
        \/ /\ f \in current[l] /\ f \notin DOMAIN o /\ files'[f] = files[f]
           /\ l = level => f \notin in0
           /\ l = level + 1 => f \notin in1
  <2> SUFFICES ASSUME NEW l \in Level, NEW f \in current'[l], ~(f \in DOMAIN o /\ l = level + 1)
               PROVE  /\ f \in current[l] /\ f \notin DOMAIN o /\ files'[f] = files[f]
                      /\ l = level => f \notin in0
                      /\ l = level + 1 => f \notin in1
    OBVIOUS
  <2>1. f \in After(l, o)
    BY <1>2
  <2>2. f \in current[l] /\ (l = level => f \notin in0) /\ (l = level + 1 => f \notin in1)
    BY <1>3, <1>4, <2>1 DEF After
  <2>3. f \notin DOMAIN o
    BY <1>2, <1>6, <2>2 DEF OutputsOK
  <2>4. f \in DOMAIN files'
    BY <1>2
  <2> QED BY <1>2, <2>2, <2>3, <2>4
<1>9. \A f \in DOMAIN o : files'[f] = o[f] /\ \A a \in o[f] : a \in Entry /\ \E h \in in0 \union in1 : a \in files[h]
  <2>1. \A a \in InputEntries : \E h \in in0 \union in1 : a \in files[h]
    BY <1>3 DEF InputEntries, Entries
  <2> QED BY <1>1, <1>2, <2>1 DEF OutputsOK
<1>10. \A n \in Entry : KeyOf(n)' = KeyOf(n)
  BY <1>1 DEF KeyOf
<1>11. \A a, b : Before(a, b)' <=> Before(a, b)
  BY <1>1 DEF Before, KeyOf
<1>12. \A f, g \in DOMAIN files : files'[f] = files[f] /\ files'[g] = files[g] =>
          /\ Precedes(f, g)' <=> Precedes(f, g)
          /\ Older(files[f], files[g])' <=> Older(files[f], files[g])
  <2>1. WrittenOK /\ TablesOK
    BY DEF StoreInv
  <2> QED BY <1>10, <2>1, SameOrder
<1>13. LevelsApart'
  <2> SUFFICES ASSUME NEW l \in Level \ {0}, NEW f \in current'[l], NEW g \in current'[l], f # g
               PROVE  Precedes(f, g)' \/ Precedes(g, f)'
    BY DEF LevelsApart, Apart
  <2>1. ASSUME NEW x \in DOMAIN o, NEW y \in current[level + 1], y \notin in1, files'[y] = files[y]
        PROVE  Precedes(x, y)' \/ Precedes(y, x)'
    <3>1. CASE \A h \in in0 \union in1 : Precedes(h, y)
      <4>1. \A a \in o[x], b \in files[y] : Before(a, b)
        BY <1>9, <3>1 DEF Precedes
      <4> QED BY <1>9, <1>11, <2>1, <4>1 DEF Precedes
    <3>2. CASE \A h \in in0 \union in1 : Precedes(y, h)
      <4>1. \A a \in o[x], b \in files[y] : Before(b, a)
        BY <1>9, <3>2 DEF Precedes
      <4> QED BY <1>9, <1>11, <2>1, <4>1 DEF Precedes
    <3> QED BY <1>5, <2>1, <3>1, <3>2 DEF Underway
  <2>2. CASE f \in DOMAIN o /\ g \in DOMAIN o
    <3>1. (\A a \in o[f], b \in o[g] : Before(a, b)) \/ (\A a \in o[f], b \in o[g] : Before(b, a))
      BY <1>2, <2>2 DEF OutputsOK
    <3> QED BY <1>9, <1>11, <2>2, <3>1 DEF Precedes
  <2>3. CASE f \in DOMAIN o /\ g \notin DOMAIN o
    BY <1>8, <2>1, <2>3
  <2>4. CASE f \notin DOMAIN o /\ g \in DOMAIN o
    BY <1>8, <2>1, <2>4
  <2>5. CASE f \notin DOMAIN o /\ g \notin DOMAIN o
    <3>1. f \in current[l] /\ g \in current[l] /\ files'[f] = files[f] /\ files'[g] = files[g]
      BY <1>8, <2>5
    <3>2. Precedes(f, g) \/ Precedes(g, f)
      BY <3>1 DEF OrderInv, LevelsApart, Apart
    <3> QED BY <1>6, <1>12, <3>1, <3>2
  <2> QED BY <2>2, <2>3, <2>4, <2>5
<1>14. LevelsOrdered'
  <2> SUFFICES ASSUME NEW l \in Level, NEW k \in Level, k < l, NEW f \in current'[l], NEW g \in current'[k]
               PROVE  Older(files[f], files[g])'
    BY DEF LevelsOrdered
  <2>0. \A x, y : x \in DOMAIN files' /\ y \in DOMAIN files' /\ (\A a \in files'[x], b \in files'[y] : KeyOf(a) = KeyOf(b) => a < b)
                  => Older(files[x], files[y])'
    BY <1>1 DEF Older, KeyOf
  <2>1. CASE f \in DOMAIN o
    <3>1. l = level + 1 /\ k # level + 1 /\ g \in current[k] /\ files'[g] = files[g] /\ (k = level => g \notin in0)
          /\ (k # level => k < level) /\ k < level + 1
      <4>1. l = level + 1
        BY <1>2, <1>6, <1>8, <2>1 DEF OutputsOK
      <4>2. k \in Nat /\ k < level + 1
        BY <4>1 DEF Level
      <4>3. k # level + 1 /\ (k # level => k < level)
        BY <1>4, <4>2
      <4> QED BY <1>8, <4>1, <4>2, <4>3
    <3>2. \A h \in in0 \union in1 : Older(files[h], files[g])
      <4>1. \A h \in in1 : Older(files[h], files[g])
        BY <1>4, <1>7, <3>1 DEF OrderInv, LevelsOrdered
      <4>2. \A h \in in0 : Older(files[h], files[g])
        BY <1>4, <1>5, <1>7, <3>1 DEF OrderInv, LevelsOrdered, Underway
      <4> QED BY <4>1, <4>2
    <3>3. \A a \in files'[f], b \in files'[g] : KeyOf(a) = KeyOf(b) => a < b
      BY <1>9, <2>1, <3>1, <3>2 DEF Older
    <3> QED BY <1>2, <2>0, <3>3
  <2>2. CASE g \in DOMAIN o
    <3>1. k = level + 1 /\ l # level + 1 /\ f \in current[l] /\ files'[f] = files[f] /\ level < l
      <4>1. k = level + 1
        BY <1>2, <1>6, <1>8, <2>2 DEF OutputsOK
      <4>2. l \in Nat /\ level + 1 < l
        BY <4>1 DEF Level
      <4>3. l # level + 1 /\ level < l
        BY <1>4, <4>2
      <4> QED BY <1>8, <4>1, <4>3
    <3>2. \A h \in in0 \union in1 : Older(files[f], files[h])
      BY <1>4, <1>7, <3>1 DEF OrderInv, LevelsOrdered
    <3>3. \A a \in files'[f], b \in files'[g] : KeyOf(a) = KeyOf(b) => a < b
      BY <1>9, <2>2, <3>1, <3>2 DEF Older
    <3> QED BY <1>2, <2>0, <3>3
  <2>3. CASE f \notin DOMAIN o /\ g \notin DOMAIN o
    <3>1. f \in current[l] /\ g \in current[k] /\ files'[f] = files[f] /\ files'[g] = files[g]
      BY <1>8, <2>3
    <3>2. Older(files[f], files[g])
      BY <3>1 DEF OrderInv, LevelsOrdered
    <3> QED BY <1>6, <1>12, <3>1, <3>2
  <2> QED BY <2>1, <2>2, <2>3
<1>15. NewestLast'
  <2>0. 0 \in Level
    BY VersionsAssumption DEF Level
  <2> SUFFICES ASSUME NEW f \in current'[0], NEW g \in current'[0], f < g
               PROVE  Older(files[f], files[g])'
    BY DEF NewestLast
  <2>1. f \in current[0] /\ g \in current[0] /\ files'[f] = files[f] /\ files'[g] = files[g]
    BY <1>4, <1>8, <2>0
  <2>2. Older(files[f], files[g])
    BY <2>1 DEF OrderInv, NewestLast
  <2> QED BY <1>6, <1>12, <2>0, <2>1, <2>2
<1>16. CompactionUnderway'
  BY <1>1 DEF CompactionUnderway
<1> QED BY <1>13, <1>14, <1>15, <1>16 DEF OrderInv

(* Tables are moved to the next level, a single one.                       *)
Moved(level, fs) == current' = [current EXCEPT ![level] = @ \ fs, ![level + 1] = @ \union fs]
Lone(fs) == \A f, g \in fs : f = g

(* The order after a table that meets nothing in the next level was moved  *)
(* there.                                                                  *)
LEMMA OrderMove ==
  ASSUME StoreInv, OrderInv, NEW level \in 0 .. (NumLevels - 2), NEW in0, GoodPair(level, in0, {}),
         Lone(in0), Moved(level, in0), compaction = None,
         UNCHANGED <<written, files, compaction>>
  PROVE  OrderInv'
<1>1. level \in Level /\ level + 1 \in Level /\ level # level + 1 /\ level + 1 > 0 /\ level + 1 # 0 /\ level \in Nat
  BY NextLevel
<1>2. current \in [Level -> SUBSET DOMAIN files] /\ SameFiles /\ SameKeys
  BY DEF StoreInv, CurrentOK, SameFiles, SameKeys, KeyOf
<1>3. in0 \subseteq current[level]
  BY DEF GoodPair
<1>4. \A l \in Level : \A f \in current'[l] :
        \/ f \in current[l] /\ (l = level => f \notin in0)
        \/ f \in in0 /\ l = level + 1
  BY <1>1, <1>2 DEF Moved
<1>5. \A l, k \in Level : \A f \in current[l], g \in current[k] :
        /\ Precedes(f, g)' <=> Precedes(f, g)
        /\ Older(files[f], files[g])' <=> Older(files[f], files[g])
  BY <1>2, SameRelations
<1>6. ASSUME NEW f \in in0, NEW g \in current[level + 1]
      PROVE  Precedes(f, g) \/ Precedes(g, f)
  <2>1. Apart(level + 1)
    BY <1>1 DEF OrderInv, LevelsApart
  <2> QED BY <1>6, <2>1, BesideInputs DEF StoreInv
<1>7. LevelsApart'
  <2> SUFFICES ASSUME NEW l \in Level \ {0}, NEW f \in current'[l], NEW g \in current'[l], f # g
               PROVE  Precedes(f, g)' \/ Precedes(g, f)'
    BY DEF LevelsApart, Apart
  <2>1. CASE f \in current[l] /\ g \in current[l]
    BY <1>5, <2>1 DEF OrderInv, LevelsApart, Apart
  <2>2. CASE f \in in0 /\ l = level + 1 /\ g \in current[l]
    BY <1>1, <1>3, <1>5, <1>6, <2>2
  <2>3. CASE g \in in0 /\ l = level + 1 /\ f \in current[l]
    BY <1>1, <1>3, <1>5, <1>6, <2>3
  <2> QED BY <1>4, <2>1, <2>2, <2>3 DEF Lone
<1>8. LevelsOrdered'
  <2> SUFFICES ASSUME NEW l \in Level, NEW k \in Level, k < l, NEW f \in current'[l], NEW g \in current'[k]
               PROVE  Older(files[f], files[g])'
    BY DEF LevelsOrdered
  <2>1. CASE f \in current[l] /\ g \in current[k]
    BY <1>5, <2>1 DEF OrderInv, LevelsOrdered
  <2>2. CASE f \in in0 /\ l = level + 1 /\ g \in current[k] /\ (k = level => g \notin in0)
    <3>1. k # level => k < level
      BY <1>1, <2>2 DEF Level
    <3>2. CASE k = level
      BY <1>1, <1>3, <1>5, <2>2, <3>2 DEF GoodPair
    <3>3. CASE k # level
      BY <1>1, <1>3, <1>5, <2>2, <3>1, <3>3 DEF OrderInv, LevelsOrdered
    <3> QED BY <3>2, <3>3
  <2>3. CASE g \in in0 /\ k = level + 1 /\ f \in current[l]
    <3>1. level < l
      BY <1>1, <2>3 DEF Level
    <3> QED BY <1>1, <1>3, <1>5, <2>3, <3>1 DEF OrderInv, LevelsOrdered
  <2>4. ~(l = level + 1 /\ k = level + 1)
    BY <1>1
  <2> QED BY <1>4, <2>1, <2>2, <2>3, <2>4
<1>9. NewestLast'
  <2>0. 0 \in Level
    BY VersionsAssumption DEF Level
  <2> SUFFICES ASSUME NEW f \in current'[0], NEW g \in current'[0], f < g
               PROVE  Older(files[f], files[g])'
    BY DEF NewestLast
  <2>1. f \in current[0] /\ g \in current[0]
    BY <1>1, <1>4, <2>0
  <2> QED BY <1>5, <2>0, <2>1 DEF OrderInv, NewestLast
<1>10. CompactionUnderway'
  BY DEF CompactionUnderway
<1> QED BY <1>7, <1>8, <1>9, <1>10 DEF OrderInv

(* PickCompaction moves a good table, or begins a compaction of good       *)
(* inputs.                                                                 *)
LEMMA PickIsGood ==
  ASSUME StoreInv, LevelsApart, NEW level \in 0 .. (NumLevels - 2), NEW f \in current[level], PickCompaction(level, f)
  PROVE  /\ \/ \E in0 : /\ GoodPair(level, in0, {}) /\ Lone(in0)
                         /\ Moved(level, in0) /\ UNCHANGED compaction
            \/ \E pair : /\ GoodPair(level, pair[1], pair[2]) /\ Covered(pair[1] \union pair[2])
                         /\ Begin(level, pair, FALSE) /\ UNCHANGED current
         /\ imm = None /\ compaction = None
         /\ UNCHANGED <<written, mem, imm, files, nextFile, snapshots, iterators>>
<1>0. PICK seed : \E pair \in SetupOtherInputs(level, seed) :
        /\ seed = IF level > 0 THEN {f} ELSE OverlappingInputs(0, LowKey({f}), HighKey({f}))
        /\ \/ /\ Cardinality(pair[1]) = 1 /\ pair[2] = {}
              /\ current' = [current EXCEPT ![level] = @ \ pair[1], ![level + 1] = @ \union pair[1]]
              /\ UNCHANGED compaction
           \/ Begin(level, pair, FALSE) /\ UNCHANGED current
        /\ imm = None /\ compaction = None
        /\ UNCHANGED <<written, mem, imm, files, nextFile, snapshots, iterators>>
  BY PickStep
<1>1. PICK pair \in SetupOtherInputs(level, seed) :
        /\ seed = IF level > 0 THEN {f} ELSE OverlappingInputs(0, LowKey({f}), HighKey({f}))
        /\ \/ /\ Cardinality(pair[1]) = 1 /\ pair[2] = {}
              /\ current' = [current EXCEPT ![level] = @ \ pair[1], ![level + 1] = @ \union pair[1]]
              /\ UNCHANGED compaction
           \/ Begin(level, pair, FALSE) /\ UNCHANGED current
        /\ imm = None /\ compaction = None
        /\ UNCHANGED <<written, mem, imm, files, nextFile, snapshots, iterators>>
  BY <1>0
<1>2. WrittenOK /\ TablesOK /\ CurrentOK
  BY DEF StoreInv
<1>3. level \in Level /\ (level > 0 => Apart(level))
  <2>1. level \in Level
    BY NextLevel
  <2> QED BY <2>1 DEF LevelsApart, Level
<1>4. Convex(level, seed) /\ Covered(seed)
  BY <1>1, <1>2, SeedIsGood
<1>5. GoodPair(level, pair[1], pair[2]) /\ Covered(pair[1] \union pair[2])
  BY <1>2, <1>3, <1>4, SetupIsGood
<1>6. CASE Begin(level, pair, FALSE) /\ UNCHANGED current
  BY <1>1, <1>5, <1>6
<1>7. CASE /\ Cardinality(pair[1]) = 1 /\ pair[2] = {}
           /\ current' = [current EXCEPT ![level] = @ \ pair[1], ![level + 1] = @ \union pair[1]]
           /\ UNCHANGED compaction
  <2>1. PICK in0 : in0 = pair[1]
    OBVIOUS
  <2>2. GoodPair(level, in0, {}) /\ Cardinality(in0) = 1
    BY <1>5, <1>7, <2>1
  <2>3. IsFiniteSet(in0)
    <3>1. in0 \in SUBSET Nat /\ nextFile \in Nat /\ \A g \in in0 : g <= nextFile
      <4>1. in0 \subseteq DOMAIN files
        BY <1>2, <1>3, <2>2 DEF GoodPair, CurrentOK
      <4>2. nextFile \in Nat /\ \A g \in DOMAIN files : g \in Nat /\ g < nextFile
        BY DEF StoreInv, FilesNumbered
      <4>3. \A g \in in0 : g \in Nat /\ g < nextFile
        BY <4>1, <4>2
      <4> QED BY <4>2, <4>3
    <3> QED BY <3>1, FS_BoundedSetOfNaturals
  <2>4. Lone(in0)
    BY <2>2, <2>3, FS_Singleton DEF Lone
  <2>5. Moved(level, in0)
    BY <1>7, <2>1 DEF Moved
  <2>6. UNCHANGED compaction
    BY <1>7
  <2>7. \E x : /\ GoodPair(level, x, {}) /\ Lone(x)
               /\ Moved(level, x) /\ UNCHANGED compaction
    BY <2>2, <2>4, <2>5, <2>6
  <2> QED BY <1>1, <2>7
<1> QED BY <1>1, <1>6, <1>7

(* The order after PickCompaction, and after CompactRange.                 *)
LEMMA OrderPick ==
  ASSUME StoreInv, OrderInv, NEW level \in 0 .. (NumLevels - 2), NEW f \in current[level], PickCompaction(level, f)
  PROVE  OrderInv'
<1>1. imm = None /\ compaction = None /\ UNCHANGED <<written, mem, imm, files, nextFile, snapshots, iterators>>
  BY PickIsGood DEF OrderInv
<1>2. LevelsApart
  BY DEF OrderInv
<1>3. \/ \E in0 : /\ GoodPair(level, in0, {}) /\ Lone(in0)
                  /\ Moved(level, in0) /\ UNCHANGED compaction
      \/ \E pair : /\ GoodPair(level, pair[1], pair[2]) /\ Covered(pair[1] \union pair[2])
                   /\ Begin(level, pair, FALSE) /\ UNCHANGED current
  BY <1>2, PickIsGood
<1>4. CASE \E in0 : /\ GoodPair(level, in0, {}) /\ Lone(in0)
                   /\ Moved(level, in0) /\ UNCHANGED compaction
  <2>1. PICK in0 : /\ GoodPair(level, in0, {}) /\ Lone(in0)
                   /\ Moved(level, in0) /\ UNCHANGED compaction
    BY <1>4
  <2>2. GoodPair(level, in0, {}) /\ Lone(in0) /\ Moved(level, in0) /\ UNCHANGED <<written, files, compaction>>
    BY <1>1, <2>1
  <2> QED BY <1>1, <2>2, OrderMove
<1>5. ASSUME NEW pair, GoodPair(level, pair[1], pair[2]), Covered(pair[1] \union pair[2]),
             Begin(level, pair, FALSE), UNCHANGED current
      PROVE  OrderInv'
  BY <1>1, <1>5, OrderBegin
<1> QED BY <1>3, <1>4, <1>5

(* The order after CompactRange.                                           *)
LEMMA OrderRange ==
  ASSUME StoreInv, OrderInv, NEW level \in 0 .. (NumLevels - 2), NEW low \in Key, NEW high \in Key,
         CompactRange(level, low, high)
  PROVE  OrderInv'
<1>0. PICK chosen : \E pair \in SetupOtherInputs(level, chosen) :
        /\ chosen \subseteq OverlappingInputs(level, low, high) /\ chosen # {}
        /\ \/ chosen = OverlappingInputs(level, low, high)
           \/ /\ level > 0
              /\ \A f \in chosen : \A g \in OverlappingInputs(level, low, high) \ chosen : InFront(f, g)
        /\ Begin(level, pair, TRUE)
        /\ imm = None /\ UNCHANGED <<written, mem, imm, files, nextFile, current, snapshots, iterators>>
  BY RangeStep
<1>1. PICK pair \in SetupOtherInputs(level, chosen) :
        /\ chosen \subseteq OverlappingInputs(level, low, high) /\ chosen # {}
        /\ \/ chosen = OverlappingInputs(level, low, high)
           \/ /\ level > 0
              /\ \A f \in chosen : \A g \in OverlappingInputs(level, low, high) \ chosen : InFront(f, g)
        /\ Begin(level, pair, TRUE)
        /\ imm = None /\ UNCHANGED <<written, mem, imm, files, nextFile, current, snapshots, iterators>>
  BY <1>0
<1>2. WrittenOK /\ TablesOK /\ CurrentOK /\ low \in Nat /\ high \in Nat
  BY VersionsAssumption DEF StoreInv
<1>3. level > 0 => Apart(level)
  <2>1. level \in Level
    BY NextLevel
  <2> QED BY <2>1 DEF OrderInv, LevelsApart, Level
<1>4. Convex(level, chosen)
  BY <1>1, <1>2, <1>3, RangeIsGood
<1>5. GoodPair(level, pair[1], pair[2])
  BY <1>2, <1>3, <1>4, SetupIsGood
<1> QED BY <1>1, <1>5, OrderBegin

(* Every step keeps the order, where nothing is flushed while a manual     *)
(* compaction runs.                                                        *)
LEMMA OrderStep ==
  ASSUME ManualQuiet, StoreInv, Ages, OrderInv, [Next]_vars
  PROVE  OrderInv'
<1>1. CASE Write
  <2>1. SameKeys
    BY <1>1, WriteStep DEF SameKeys, StoreInv
  <2>2. UNCHANGED <<files, current, compaction, imm>>
    BY <1>1 DEF Write
  <2>3. compaction # None /\ compaction.manual => imm' = None
    BY <2>2 DEF OrderInv, CompactionUnderway, Underway
  <2> QED BY <2>1, <2>2, <2>3, OrderStill
<1>2. CASE Switch
  <2>1. UNCHANGED <<written, files, current, compaction>> /\ ~(compaction # None /\ compaction.manual)
    BY <1>2 DEF Switch
  <2>2. SameKeys
    BY <2>1 DEF SameKeys, KeyOf
  <2> QED BY <2>1, <2>2, OrderStill
<1>3. CASE Flush
  BY <1>3, OrderFlush
<1>4. CASE \E level \in 0 .. (NumLevels - 2) : \E f \in current[level] : PickCompaction(level, f)
  BY <1>4, OrderPick
<1>5. CASE \E level \in 0 .. (NumLevels - 2) : \E low, high \in Key : low <= high /\ CompactRange(level, low, high)
  BY <1>5, OrderRange
<1>6. CASE FinishCompaction
  BY <1>6, OrderFinish
<1>7. CASE UNCHANGED <<written, imm, files, current, compaction>>
  <2>1. SameKeys
    BY <1>7 DEF SameKeys, KeyOf
  <2>2. compaction # None /\ compaction.manual => imm' = None
    BY <1>7 DEF OrderInv, CompactionUnderway, Underway
  <2> QED BY <1>7, <2>1, <2>2, OrderStill
<1>8. GetSnapshot \/ (\E i \in DOMAIN snapshots : ReleaseSnapshot(i)) => UNCHANGED <<written, imm, files, current, compaction>>
  BY DEF GetSnapshot, ReleaseSnapshot
<1>9. NewIterator \/ (\E i \in DOMAIN iterators : CleanupIteratorState(i)) => UNCHANGED <<written, imm, files, current, compaction>>
  BY DEF NewIterator, CleanupIteratorState
<1>10. UNCHANGED vars => UNCHANGED <<written, imm, files, current, compaction>>
  BY DEF vars
<1> QED BY <1>1, <1>2, <1>3, <1>4, <1>5, <1>6, <1>7, <1>8, <1>9, <1>10 DEF Next

(* The order holds at the beginning.                                       *)
LEMMA OrderInit ==
  ASSUME Init
  PROVE  Ages /\ OrderInv
<1>1. Ages
  BY DEF Init, Ages
<1>2. \A l \in Level : current[l] = {}
  BY DEF Init
<1>3. 0 \in Level
  BY VersionsAssumption DEF Level
<1>4. LevelsApart /\ LevelsOrdered
  BY <1>2 DEF LevelsApart, Apart, LevelsOrdered
<1>5. NewestLast
  BY <1>2, <1>3 DEF NewestLast
<1>6. CompactionUnderway
  BY DEF Init, CompactionUnderway
<1> QED BY <1>1, <1>4, <1>5, <1>6 DEF OrderInv

(* The order of the levels holds in every state, unless a memtable is      *)
(* flushed in the middle of a manual compaction.                           *)
THEOREM OrderInvariant ==
  ASSUME ManualQuiet
  PROVE  Spec => [](StoreInv /\ Ages /\ OrderInv)
<1> DEFINE I == StoreInv /\ Ages /\ OrderInv
<1>1. Init => I
  BY StoreInit, OrderInit
<1>2. I /\ [Next]_vars => I'
  BY StoreStep, AgesStep, OrderStep
<1> QED BY <1>1, <1>2, PTL DEF Spec

(* "Must not overlap" (MaybeAddFile): below level 0 no two tables of a     *)
(* level overlap.                                                          *)
THEOREM TablesDoNotOverlap ==
  ASSUME ManualQuiet
  PROVE  Spec => []LevelsDisjoint
<1>1. StoreInv /\ OrderInv => LevelsDisjoint
  <2> SUFFICES ASSUME StoreInv, OrderInv, NEW l \in Level \ {0}, NEW f \in current[l], NEW g \in current[l], f # g
               PROVE  Before(Largest(f), Smallest(g)) \/ Before(Largest(g), Smallest(f))
    BY DEF LevelsDisjoint
  <2>1. f \in DOMAIN files /\ g \in DOMAIN files /\ WrittenOK /\ TablesOK
    BY DEF StoreInv, CurrentOK
  <2>2. Precedes(f, g) \/ Precedes(g, f)
    BY DEF OrderInv, LevelsApart, Apart
  <2> QED BY <2>1, <2>2, PrecedesIs
<1> QED BY <1>1, OrderInvariant, PTL

(* "Entries never hop across data levels" (Version::Get): of a user key,   *)
(* what is in a deeper place is older.                                     *)
THEOREM DeeperIsOlder ==
  ASSUME ManualQuiet
  PROVE  Spec => []OlderBelow
<1>1. StoreInv /\ Ages /\ OrderInv => OlderBelow
  <2> SUFFICES ASSUME StoreInv, Ages, OrderInv PROVE OlderBelow
    OBVIOUS
  <2>0. \A l \in Level : current[l] \subseteq DOMAIN files
    BY DEF StoreInv, CurrentOK
  <2>1. imm # None => \A n \in imm, m \in mem : n < m
    BY DEF Ages
  <2>2. \A l \in Level : \A n \in Entries(current[l]), m \in mem \union (IF imm = None THEN {} ELSE imm) : n < m
    BY <2>0 DEF Ages, Entries
  <2>3. \A l \in Level : \A k \in 0 .. (l - 1) : \A n \in Entries(current[l]), m \in Entries(current[k]) :
           KeyOf(n) = KeyOf(m) => n < m
    <3> SUFFICES ASSUME NEW l \in Level, NEW k \in 0 .. (l - 1), NEW n \in Entries(current[l]),
                        NEW m \in Entries(current[k]), KeyOf(n) = KeyOf(m)
                 PROVE  n < m
      OBVIOUS
    <3>1. k \in Level /\ k < l
      BY VersionsAssumption DEF Level
    <3>2. PICK f \in current[l], g \in current[k] : n \in files[f] /\ m \in files[g]
      BY DEF Entries
    <3>3. Older(files[f], files[g])
      BY <3>1 DEF OrderInv, LevelsOrdered
    <3> QED BY <3>2, <3>3 DEF Older
  <2>4. \A f, g \in current[0] : f < g => \A n \in files[f], m \in files[g] : KeyOf(n) = KeyOf(m) => n < m
    BY DEF OrderInv, NewestLast, Older
  <2> QED BY <2>1, <2>2, <2>3, <2>4 DEF OlderBelow
<1> QED BY <1>1, OrderInvariant, PTL

----------------------------------------------------------------------------
(* What a look into a table finds.                                         *)

(* Every set of numbers that has a bound and an element has a greatest one.*)
LEMMA Greatest ==
  ASSUME NEW S \in SUBSET Nat, S # {}, NEW bound \in Nat, \A x \in S : x <= bound
  PROVE  \E x \in S : \A y \in S : y <= x
<1> DEFINE D == {d \in Nat : \E x \in S : x + d = bound}
<1>1. PICK x \in S : TRUE
  OBVIOUS
<1>2. bound - x \in Nat /\ x + (bound - x) = bound
  OBVIOUS
<1>3. D # {} /\ D \in SUBSET Nat
  BY <1>2
<1>4. PICK d \in D : \A e \in D : d <= e
  <2> HIDE DEF D
  <2> QED BY <1>3, Least
<1>5. PICK z \in S : z + d = bound
  BY <1>4
<1>6. ASSUME NEW y \in S
      PROVE  y <= z
  <2>1. bound - y \in Nat /\ y + (bound - y) = bound
    OBVIOUS
  <2>2. bound - y \in D
    BY <2>1
  <2>3. d <= bound - y
    BY <1>4, <2>2
  <2>4. d \in Nat /\ z \in Nat /\ y \in Nat
    BY <1>4
  <2> QED BY <1>5, <2>1, <2>3, <2>4
<1> QED BY <1>6

(* n is the newest entry of its user key up to seq, in S.                  *)
NewestOf(n, S, seq) == n \in S /\ n <= seq /\ \A m \in S : KeyOf(m) = KeyOf(n) /\ m <= seq => m <= n

(* What a look into a memtable or a table finds.                           *)
LEMMA NewestFound ==
  ASSUME WrittenOK, NEW S \in SUBSET Entry, NEW seq \in Nat, NEW n \in S, NewestOf(n, S, seq), NEW key, key = KeyOf(n)
  PROVE  NewestIn(S, key, seq) = n /\ n # 0
<1> DEFINE seen == {m \in S : KeyOf(m) = key /\ m <= seq}
<1>1. n \in seen /\ \A m \in seen : m \in Nat /\ m <= n
  BY KeyNat DEF NewestOf
<1>2. \A m \in seen : (\A y \in seen : m >= y) => m = n
  BY <1>1
<1>3. \A y \in seen : n >= y
  BY <1>1
<1> HIDE DEF seen
<1>4. Max(seen) = n
  BY <1>1, <1>2, <1>3 DEF Max
<1>5. n # 0
  BY DEF Entry
<1> QED BY <1>1, <1>4, <1>5 DEF NewestIn, seen

(* What such a look finds is the newest entry of the key.                  *)
LEMMA FoundIsNewest ==
  ASSUME WrittenOK, NEW S \in SUBSET Entry, NEW seq \in Nat, NEW key, NewestIn(S, key, seq) # 0
  PROVE  NewestOf(NewestIn(S, key, seq), S, seq) /\ KeyOf(NewestIn(S, key, seq)) = key
<1> DEFINE seen == {m \in S : KeyOf(m) = key /\ m <= seq}
<1>1. seen # {} /\ seen \in SUBSET Nat /\ \A m \in seen : m <= seq
  BY KeyNat DEF NewestIn
<1>2. PICK n \in seen : \A y \in seen : y <= n
  <2> HIDE DEF seen
  <2> QED BY <1>1, Greatest
<1>3. NewestOf(n, S, seq) /\ KeyOf(n) = key
  BY <1>2 DEF NewestOf
<1>4. NewestIn(S, key, seq) = n
  BY <1>3, NewestFound
<1> QED BY <1>3, <1>4

(* A reader at seq ought to find n. *)
LEMMA AnswerIs ==
  ASSUME WrittenOK, NEW key, NEW seq \in Nat, Answer(key, seq) # 0
  PROVE  /\ NewestOf(Answer(key, seq), Entry, seq) /\ KeyOf(Answer(key, seq)) = key
         /\ ~written[Answer(key, seq)].delete
<1>1. PICK n : n = NewestIn(Entry, key, seq)
  OBVIOUS
<1>2. n # 0 /\ ~written[n].delete /\ Answer(key, seq) = n
  BY <1>1 DEF Answer, Entry
<1>3. NewestOf(n, Entry, seq) /\ KeyOf(n) = key
  BY <1>1, <1>2, FoundIsNewest
<1> QED BY <1>2, <1>3

(* A reader at seq ought to find nothing: the last write was a deletion.   *)
LEMMA AnswerIsNot ==
  ASSUME WrittenOK, NEW key, NEW seq \in Nat, Answer(key, seq) = 0,
         NEW n \in Entry, NewestOf(n, Entry, seq), KeyOf(n) = key
  PROVE  written[n].delete
<1>1. NewestIn(Entry, key, seq) = n /\ n # 0
  BY NewestFound
<1>2. Entry = 1 .. LastSequence
  BY DEF Entry
<1> QED BY <1>1, <1>2 DEF Answer

----------------------------------------------------------------------------
(* What a reader ought to find is in the tree.                             *)

(* An entry is in a memtable or in a table of the current version.         *)
InTree(n) == n \in mem \/ (imm # None /\ n \in imm) \/ \E l \in Level : \E f \in current[l] : n \in files[f]

(* SnapshotList keeps the oldest first.                                    *)
SnapshotsSorted == \A i, j \in 1 .. Len(snapshots) : i < j => snapshots[i] <= snapshots[j]

(* A compaction drops what is hidden up to this number only.               *)
SmallestIsLow == compaction # None => \A seq \in Readable : compaction.smallest \in Nat /\ compaction.smallest <= seq

(* A put that is what some reader ought to find is in the tree.            *)
PutsArePresent ==
  \A seq \in Readable : \A n \in Entry : NewestOf(n, Entry, seq) /\ ~written[n].delete => InTree(n)

(* No more is written than the workload says.                              *)
WithinBound == LastSequence <= Len(Workload)

(* The inductive invariant of what is in the tree. *)
PresentInv == SnapshotsSorted /\ SmallestIsLow /\ PutsArePresent /\ WithinBound

(* The numbers a reader may read at. *)
LEMMA ReadableIs ==
  ASSUME StoreInv
  PROVE  /\ LastSequence \in Nat /\ LastSequence \in Readable
         /\ \A seq : seq \in Readable <=> seq = LastSequence \/ \E i \in 1 .. Len(snapshots) : seq = snapshots[i]
         /\ \A seq \in Readable : seq \in Nat /\ seq <= LastSequence
         /\ DOMAIN snapshots = 1 .. Len(snapshots) /\ Len(snapshots) \in Nat
<1>1. snapshots \in Seq(Nat) /\ (\A i \in DOMAIN snapshots : snapshots[i] <= LastSequence) /\ LastSequence \in Nat
  BY KeyNat DEF StoreInv, SnapshotsOK
<1>2. DOMAIN snapshots = 1 .. Len(snapshots) /\ Len(snapshots) \in Nat /\ \A i \in 1 .. Len(snapshots) : snapshots[i] \in Nat
  BY <1>1
<1>3. \A seq : seq \in Readable <=> seq = LastSequence \/ \E i \in 1 .. Len(snapshots) : seq = snapshots[i]
  BY <1>2 DEF Readable
<1>4. \A seq \in Readable : seq \in Nat /\ seq <= LastSequence
  BY <1>1, <1>2, <1>3
<1> QED BY <1>1, <1>2, <1>3, <1>4

(* A write puts its entry in the memtable.                                 *)
LEMMA PresentWrite ==
  ASSUME StoreInv, PresentInv, Write
  PROVE  PresentInv'
<1>1. /\ LastSequence' = LastSequence + 1
      /\ \A n \in Entry : n \in Entry' /\ written'[n] = written[n] /\ KeyOf(n)' = KeyOf(n)
      /\ \A n \in Entry' : n \in Entry \/ n = LastSequence + 1
      /\ LastSequence + 1 \in Entry'
  BY WriteStep DEF StoreInv
<1>2. /\ mem' = mem \union {LastSequence + 1} /\ LastSequence < Len(Workload)
      /\ UNCHANGED <<imm, files, nextFile, current, compaction, snapshots, iterators>>
  BY DEF Write
<1>3. StoreInv'
  BY StoreWrite
<1>4. /\ LastSequence \in Nat /\ LastSequence \in Readable
      /\ \A seq : seq \in Readable <=> seq = LastSequence \/ \E i \in 1 .. Len(snapshots) : seq = snapshots[i]
      /\ \A seq \in Readable : seq \in Nat /\ seq <= LastSequence
  BY ReadableIs
<1>5. \A seq : seq \in Readable' <=> seq = LastSequence' \/ \E i \in 1 .. Len(snapshots') : seq = snapshots'[i]
  <2>1. snapshots' \in Seq(Nat)
    BY <1>3 DEF StoreInv, SnapshotsOK
  <2>2. DOMAIN snapshots' = 1 .. Len(snapshots')
    BY <2>1
  <2> QED BY <2>2 DEF Readable
<1>6. \A seq \in Readable' : seq = LastSequence + 1 \/ seq \in Readable
  BY <1>1, <1>2, <1>4, <1>5
<1>7. SnapshotsSorted' /\ WithinBound'
  <2>1. Len(Workload) \in Nat
    <3> DEFINE K == SUBSET [key : Key, delete : BOOLEAN]
    <3>1. Workload \in Seq(K)
      BY VersionsAssumption
    <3> HIDE DEF K
    <3> QED BY <3>1, SeqShape
  <2> QED BY <1>1, <1>2, <1>4, <2>1 DEF PresentInv, SnapshotsSorted, WithinBound
<1>8. SmallestIsLow'
  <2> SUFFICES ASSUME compaction # None, NEW seq \in Readable'
               PROVE  compaction.smallest \in Nat /\ compaction.smallest <= seq
    BY <1>2 DEF SmallestIsLow
  <2>1. \A s \in Readable : compaction.smallest \in Nat /\ compaction.smallest <= s
    BY DEF PresentInv, SmallestIsLow
  <2>2. CASE seq \in Readable
    BY <2>1, <2>2
  <2>3. CASE seq = LastSequence + 1
    BY <1>4, <2>1, <2>3
  <2> QED BY <1>6, <2>2, <2>3
<1>9. PutsArePresent'
  <2> SUFFICES ASSUME NEW seq \in Readable', NEW n \in Entry', NewestOf(n, Entry, seq)', ~written'[n].delete
               PROVE  InTree(n)'
    BY DEF PutsArePresent
  <2>1. CASE n = LastSequence + 1
    BY <1>2, <2>1 DEF InTree
  <2>2. CASE n \in Entry
    <3>1. n <= seq /\ \A m \in Entry : KeyOf(m) = KeyOf(n) /\ m <= seq => m <= n
      BY <1>1, <2>2 DEF NewestOf
    <3>2. InTree(n)
      <4>1. CASE seq \in Readable
        <5>1. NewestOf(n, Entry, seq) /\ ~written[n].delete
          BY <1>1, <2>2, <3>1 DEF NewestOf
        <5> QED BY <2>2, <4>1, <5>1 DEF PresentInv, PutsArePresent
      <4>2. CASE seq = LastSequence + 1
        <5>1. \A m \in Entry : m \in Nat /\ m <= LastSequence /\ m <= LastSequence + 1
          BY <1>4 DEF Entry
        <5>2. NewestOf(n, Entry, LastSequence) /\ ~written[n].delete
          BY <1>1, <2>2, <3>1, <4>2, <5>1 DEF NewestOf
        <5> QED BY <1>4, <2>2, <5>2 DEF PresentInv, PutsArePresent
      <4> QED BY <1>6, <4>1, <4>2
    <3> QED BY <1>2, <3>2 DEF InTree
  <2> QED BY <1>1, <2>1, <2>2
<1> QED BY <1>7, <1>8, <1>9 DEF PresentInv

(* Where nothing is written and no snapshot taken: it is enough that the   *)
(* puts stay in the tree, and a new compaction starts low enough.          *)
LEMMA PresentSame ==
  ASSUME StoreInv, PresentInv, UNCHANGED <<written, snapshots>>, SmallestIsLow',
         \A n \in Entry : InTree(n) /\ (\E seq \in Readable : NewestOf(n, Entry, seq)) /\ ~written[n].delete => InTree(n)'
  PROVE  PresentInv'
<1>1. LastSequence' = LastSequence /\ Entry' = Entry /\ Readable' = Readable /\ \A n : KeyOf(n)' = KeyOf(n)
  BY DEF LastSequence, Entry, Readable, KeyOf
<1>2. SnapshotsSorted' /\ WithinBound'
  BY <1>1 DEF PresentInv, SnapshotsSorted, WithinBound
<1>3. \A n, seq : NewestOf(n, Entry, seq)' <=> NewestOf(n, Entry, seq)
  BY <1>1 DEF NewestOf
<1>4. PutsArePresent'
  BY <1>1, <1>3 DEF PresentInv, PutsArePresent
<1> QED BY <1>2, <1>4 DEF PresentInv

(* A compaction that goes on, or none, and one that begins.                *)
LEMMA SmallestSame ==
  ASSUME StoreInv, PresentInv, UNCHANGED <<written, snapshots>>, compaction' = compaction \/ compaction' = None
  PROVE  SmallestIsLow'
<1>1. Readable' = Readable
  BY DEF Readable, LastSequence
<1> QED BY <1>1 DEF PresentInv, SmallestIsLow

(* A compaction that begins reads the oldest snapshot.                     *)
LEMMA SmallestBegins ==
  ASSUME StoreInv, PresentInv, UNCHANGED <<written, snapshots>>, NEW level, NEW pair, NEW manual, Begin(level, pair, manual)
  PROVE  SmallestIsLow'
<1>1. Readable' = Readable
  BY DEF Readable, LastSequence
<1>2. compaction'.smallest = IF snapshots = <<>> THEN LastSequence ELSE snapshots[1]
  BY DEF Begin
<1>3. /\ LastSequence \in Nat
      /\ \A seq : seq \in Readable <=> seq = LastSequence \/ \E i \in 1 .. Len(snapshots) : seq = snapshots[i]
      /\ \A seq \in Readable : seq \in Nat /\ seq <= LastSequence
      /\ Len(snapshots) \in Nat
  BY ReadableIs
<1>4. snapshots \in Seq(Nat)
  BY DEF StoreInv, SnapshotsOK
<1>5. CASE snapshots = <<>>
  <2>1. Len(snapshots) = 0
    BY <1>5
  <2>2. \A seq \in Readable : seq = LastSequence
    BY <1>3, <2>1
  <2> QED BY <1>1, <1>2, <1>3, <1>5, <2>2 DEF SmallestIsLow
<1>6. CASE snapshots # <<>>
  <2>1. 1 \in 1 .. Len(snapshots)
    BY <1>3, <1>4, <1>6
  <2>2. snapshots[1] \in Readable /\ snapshots[1] \in Nat
    BY <1>3, <2>1
  <2>3. ASSUME NEW seq \in Readable
        PROVE  snapshots[1] <= seq
    <3>1. CASE seq = LastSequence
      BY <1>3, <2>2, <3>1
    <3>2. ASSUME NEW i \in 1 .. Len(snapshots), seq = snapshots[i]
          PROVE  snapshots[1] <= seq
      <4>1. CASE i = 1
        BY <2>2, <3>2, <4>1
      <4>2. CASE i # 1
        <5>1. 1 < i
          BY <4>2
        <5> QED BY <2>1, <3>2, <5>1 DEF PresentInv, SnapshotsSorted
      <4> QED BY <4>1, <4>2
    <3> QED BY <1>3, <3>1, <3>2
  <2> QED BY <1>1, <1>2, <1>6, <2>2, <2>3 DEF SmallestIsLow
<1> QED BY <1>5, <1>6

(* A switch of memtables, a flush and a move of tables take nothing out of *)
(* the tree and bring nothing in.                                          *)
LEMMA TreeSwitch ==
  ASSUME StoreInv, PresentInv, Switch
  PROVE  \A n : InTree(n)' <=> InTree(n)
<1>1. imm = None /\ imm' = mem /\ mem' = {} /\ UNCHANGED <<files, current>>
  BY DEF Switch
<1>2. mem # None
  <2>1. LastSequence \in Nat /\ Len(Workload) \in Nat /\ LastSequence <= Len(Workload) /\ mem \subseteq Entry
    <3> DEFINE K == SUBSET [key : Key, delete : BOOLEAN]
    <3>1. Workload \in Seq(K)
      BY VersionsAssumption
    <3> HIDE DEF K
    <3> QED BY <3>1, SeqShape, KeyNat DEF StoreInv, PresentInv, WithinBound, MemtablesOK
  <2>2. mem \in SUBSET (1 .. Len(Workload))
    BY <2>1 DEF Entry
  <2> QED BY <2>2, NoneAssumption
<1> QED BY <1>1, <1>2 DEF InTree

(* A flush makes a table of the older memtable.                            *)
LEMMA TreeFlush ==
  ASSUME StoreInv, Flush
  PROVE  \A n : InTree(n)' <=> InTree(n)
<1>1. /\ files'[nextFile] = imm /\ Kept(AllFiles(current)) /\ nextFile \notin DOMAIN files
      /\ imm # None /\ imm' = None /\ mem' = mem
  BY FlushStep DEF Flush
<1>2. PICK level \in Level : current' = [current EXCEPT ![level] = @ \union {nextFile}]
  BY FlushStep
<1>3. /\ \A l \in Level : current[l] \subseteq current'[l]
      /\ \A l \in Level : \A f \in current'[l] : f \in current[l] \/ f = nextFile
      /\ nextFile \in current'[level]
  BY <1>2 DEF StoreInv, CurrentOK
<1>4. \A l \in Level : \A f \in current[l] : files'[f] = files[f]
  BY <1>1 DEF Kept, AllFiles
<1>5. ASSUME NEW n, InTree(n)
      PROVE  InTree(n)'
  BY <1>1, <1>3, <1>4, <1>5 DEF InTree
<1>6. ASSUME NEW n, InTree(n)'
      PROVE  InTree(n)
  BY <1>1, <1>3, <1>4, <1>6 DEF InTree
<1> QED BY <1>5, <1>6

(* PickCompaction moves a table, or begins a compaction.                   *)
LEMMA TreePick ==
  ASSUME StoreInv, NEW level \in 0 .. (NumLevels - 2), NEW f \in current[level], PickCompaction(level, f)
  PROVE  /\ \A n : InTree(n)' <=> InTree(n)
         /\ compaction' = compaction \/ \E pair : Begin(level, pair, FALSE)
         /\ UNCHANGED <<written, snapshots>>
<1>1. PICK pair, in0 :
        /\ in0 = pair[1]
        /\ \/ current' = [current EXCEPT ![level] = @ \ in0, ![level + 1] = @ \union in0] /\ UNCHANGED compaction
           \/ Begin(level, pair, FALSE) /\ UNCHANGED current
        /\ in0 \subseteq current[level]
        /\ UNCHANGED <<written, mem, imm, files, snapshots>>
  <2>1. PICK seed : \E pair \in SetupOtherInputs(level, seed) :
          /\ seed \subseteq current[level]
          /\ \/ /\ current' = [current EXCEPT ![level] = @ \ pair[1], ![level + 1] = @ \union pair[1]]
                /\ UNCHANGED compaction
             \/ Begin(level, pair, FALSE) /\ UNCHANGED current
          /\ UNCHANGED <<written, mem, imm, files, snapshots>>
    BY PickStep
  <2>2. PICK pair \in SetupOtherInputs(level, seed) :
          /\ seed \subseteq current[level]
          /\ \/ /\ current' = [current EXCEPT ![level] = @ \ pair[1], ![level + 1] = @ \union pair[1]]
                /\ UNCHANGED compaction
             \/ Begin(level, pair, FALSE) /\ UNCHANGED current
          /\ UNCHANGED <<written, mem, imm, files, snapshots>>
    BY <2>1
  <2>3. pair[1] \subseteq current[level]
    BY <2>2, SetupIn
  <2> QED BY <2>2, <2>3
<1>2. /\ \A l \in Level : \A g \in current[l] : \E k \in Level : g \in current'[k]
      /\ \A l \in Level : \A g \in current'[l] : \E k \in Level : g \in current[k]
  <2>1. level \in Level /\ level + 1 \in Level
    BY NextLevel
  <2>2. CASE Begin(level, pair, FALSE) /\ UNCHANGED current
    BY <2>2
  <2>3. CASE current' = [current EXCEPT ![level] = @ \ in0, ![level + 1] = @ \union in0]
    <3>1. \A l \in Level : current'[l] = IF l = level + 1 THEN current[l] \union in0
                                        ELSE IF l = level THEN current[l] \ in0 ELSE current[l]
      BY <2>1, <2>3, NextLevel DEF StoreInv, CurrentOK
    <3>2. \A l \in Level : \A g \in current[l] : \E k \in Level : g \in current'[k]
      BY <2>1, <3>1
    <3>3. \A l \in Level : \A g \in current'[l] : \E k \in Level : g \in current[k]
      BY <1>1, <2>1, <3>1
    <3> QED BY <3>2, <3>3
  <2> QED BY <1>1, <2>2, <2>3
<1>3. \A n : InTree(n)' <=> InTree(n)
  BY <1>1, <1>2 DEF InTree
<1> QED BY <1>1, <1>3

(* A switch, a flush and a compaction that begins leave every put there.   *)
LEMMA PresentSwitch ==
  ASSUME StoreInv, PresentInv, Switch
  PROVE  PresentInv'
<1>1. UNCHANGED <<written, snapshots, compaction>>
  BY DEF Switch
<1>2. SmallestIsLow'
  BY <1>1, SmallestSame
<1> QED BY <1>1, <1>2, TreeSwitch, PresentSame

(* The same of a flush.                                                    *)
LEMMA PresentFlush ==
  ASSUME StoreInv, PresentInv, Flush
  PROVE  PresentInv'
<1>1. UNCHANGED <<written, snapshots, compaction>>
  BY DEF Flush
<1>2. SmallestIsLow'
  BY <1>1, SmallestSame
<1> QED BY <1>1, <1>2, TreeFlush, PresentSame

(* The same of PickCompaction.                                             *)
LEMMA PresentPick ==
  ASSUME StoreInv, PresentInv, NEW level \in 0 .. (NumLevels - 2), NEW f \in current[level], PickCompaction(level, f)
  PROVE  PresentInv'
<1>1. UNCHANGED <<written, snapshots>> /\ \A n : InTree(n)' <=> InTree(n)
  BY TreePick
<1>2. SmallestIsLow'
  <2>1. compaction' = compaction \/ \E pair : Begin(level, pair, FALSE)
    BY TreePick
  <2> QED BY <1>1, <2>1, SmallestSame, SmallestBegins
<1> QED BY <1>1, <1>2, PresentSame

(* The same of CompactRange.                                               *)
LEMMA PresentRange ==
  ASSUME StoreInv, PresentInv, NEW level \in 0 .. (NumLevels - 2), NEW low \in Key, NEW high \in Key,
         CompactRange(level, low, high)
  PROVE  PresentInv'
<1>1. \E pair : Begin(level, pair, TRUE) /\ UNCHANGED <<written, mem, imm, files, current, snapshots>>
  BY RangeStep
<1>2. SmallestIsLow'
  BY <1>1, SmallestBegins
<1>3. \A n : InTree(n) => InTree(n)'
  BY <1>1 DEF InTree
<1> QED BY <1>1, <1>2, <1>3, PresentSame

(* What is in the tree after a compaction: what it kept, and what it did   *)
(* not read.                                                               *)
LEMMA TreeFinish ==
  ASSUME StoreInv, FinishCompaction, NEW n \in Entry
  PROVE  /\ InTree(n) /\ n \notin InputEntries => InTree(n)'
         /\ n \in KeptEntries => InTree(n)'
<1>1. /\ compaction # None /\ UNCHANGED <<written, mem, imm, snapshots, iterators>>
  BY FinishStep
<1>2. PICK o : /\ OutputsOK(o) /\ \A f \in DOMAIN o : files'[f] = o[f]
               /\ current' \in [Level -> SUBSET DOMAIN files']
               /\ \A l \in Level : current'[l] = After(l, o)
               /\ \A f \in DOMAIN files' : f \in DOMAIN o \/ (f \in DOMAIN files /\ files'[f] = files[f])
  BY FinishStep
<1>3. compaction.level \in Level /\ compaction.level + 1 \in Level /\ compaction.level # compaction.level + 1
  <2>1. compaction.level \in 0 .. (NumLevels - 2)
    BY <1>1 DEF StoreInv, CompactionOK
  <2> QED BY <2>1, NextLevel
<1>4. ASSUME n \in KeptEntries
      PROVE  InTree(n)'
  <2>1. PICK f \in DOMAIN o : n \in o[f]
    BY <1>2, <1>4 DEF OutputsOK
  <2>2. f \in current'[compaction.level + 1]
    BY <1>2, <1>3 DEF After
  <2> QED BY <1>2, <1>3, <2>1, <2>2 DEF InTree
<1>5. ASSUME NEW l \in Level, NEW f \in current[l], n \in files[f], n \notin InputEntries
      PROVE  InTree(n)'
  <2>1. f \notin compaction.in0 /\ f \notin compaction.in1
    BY <1>5 DEF InputEntries, Entries
  <2>2. f \in current'[l]
    BY <1>2, <2>1 DEF After
  <2>3. f \in DOMAIN files /\ f \notin DOMAIN o
    BY <1>2 DEF StoreInv, CurrentOK, OutputsOK
  <2>4. files'[f] = files[f]
    BY <1>2, <2>2, <2>3
  <2> QED BY <1>5, <2>2, <2>4 DEF InTree
<1> QED BY <1>1, <1>4, <1>5 DEF InTree

(* A compaction drops no put that a reader ought to find.                  *)
LEMMA PresentFinish ==
  ASSUME StoreInv, PresentInv, FinishCompaction
  PROVE  PresentInv'
<1>1. compaction # None /\ compaction' = None /\ UNCHANGED <<written, mem, imm, snapshots, iterators>>
      /\ InputEntries \subseteq Entry
  BY FinishStep
<1>2. SmallestIsLow'
  BY <1>1, SmallestSame
<1>3. ASSUME NEW n \in Entry, InTree(n), NEW seq \in Readable, NewestOf(n, Entry, seq), ~written[n].delete
      PROVE  InTree(n)'
  <2>1. CASE n \notin InputEntries
    BY <1>3, <2>1, TreeFinish
  <2>2. CASE n \in InputEntries
    <3>1. n \notin Dropped(compaction, InputEntries)
      <4> SUFFICES ASSUME NEW m \in InputEntries, KeyOf(m) = KeyOf(n), m > n, m <= compaction.smallest
                   PROVE  FALSE
        BY <1>3 DEF Dropped
      <4>1. m \in Entry /\ m \in Nat /\ n \in Nat
        BY <1>1, KeyNat DEF StoreInv
      <4>2. compaction.smallest \in Nat /\ compaction.smallest <= seq /\ seq \in Nat
        BY <1>1, ReadableIs DEF PresentInv, SmallestIsLow
      <4>3. m <= seq
        BY <4>1, <4>2
      <4>4. m <= n
        BY <1>3, <4>1, <4>3 DEF NewestOf
      <4> QED BY <4>1, <4>4
    <3>2. n \in KeptEntries
      BY <2>2, <3>1 DEF KeptEntries
    <3> QED BY <3>2, TreeFinish
  <2> QED BY <2>1, <2>2
<1> QED BY <1>1, <1>2, <1>3, PresentSame

(* A snapshot is taken, and becomes the newest, or is released: nobody     *)
(* gets a number to read at that was not there.                            *)
LEMMA SnapshotsKept ==
  ASSUME StoreInv, PresentInv, GetSnapshot \/ \E i \in DOMAIN snapshots : ReleaseSnapshot(i)
  PROVE  (\A seq \in Readable' : seq \in Readable) /\ SnapshotsSorted'
<1>1. UNCHANGED written
  BY DEF GetSnapshot, ReleaseSnapshot
<1>2. LastSequence' = LastSequence
  BY <1>1 DEF LastSequence
<1>3. /\ LastSequence \in Nat /\ LastSequence \in Readable
      /\ \A seq : seq \in Readable <=> seq = LastSequence \/ \E i \in 1 .. Len(snapshots) : seq = snapshots[i]
      /\ \A seq \in Readable : seq \in Nat /\ seq <= LastSequence
      /\ DOMAIN snapshots = 1 .. Len(snapshots) /\ Len(snapshots) \in Nat
  BY ReadableIs
<1>4. snapshots \in Seq(Nat)
  BY DEF StoreInv, SnapshotsOK
<1>5. \A i \in 1 .. Len(snapshots) : snapshots[i] \in Nat /\ snapshots[i] <= LastSequence
  BY <1>3
<1>6. (\A seq \in Readable' : seq \in Readable) /\ SnapshotsSorted'
  <2>1. CASE GetSnapshot
    <3>1. snapshots' = Append(snapshots, LastSequence)
      BY <2>1 DEF GetSnapshot
    <3>2. /\ snapshots' \in Seq(Nat) /\ Len(snapshots') = Len(snapshots) + 1
          /\ \A i \in 1 .. Len(snapshots) : snapshots'[i] = snapshots[i]
          /\ snapshots'[Len(snapshots) + 1] = LastSequence
      BY <1>3, <1>4, <3>1, AppendProperties
    <3>3. DOMAIN snapshots' = 1 .. (Len(snapshots) + 1)
      BY <3>2
    <3>4. \A i \in 1 .. (Len(snapshots) + 1) : i \in 1 .. Len(snapshots) \/ i = Len(snapshots) + 1
      BY <1>3
    <3>5. \A seq \in Readable' : seq \in Readable
      BY <1>2, <1>3, <3>2, <3>3, <3>4 DEF Readable
    <3>6. ASSUME NEW i \in 1 .. Len(snapshots'), NEW j \in 1 .. Len(snapshots'), i < j
          PROVE  snapshots'[i] <= snapshots'[j]
      <4>1. i \in 1 .. Len(snapshots)
        BY <1>3, <3>2, <3>6
      <4>2. CASE j \in 1 .. Len(snapshots)
        BY <3>2, <3>6, <4>1, <4>2 DEF PresentInv, SnapshotsSorted
      <4>3. CASE j = Len(snapshots) + 1
        BY <1>5, <3>2, <4>1, <4>3
      <4> QED BY <3>2, <3>4, <4>2, <4>3
    <3> QED BY <3>5, <3>6 DEF SnapshotsSorted
  <2>2. CASE \E i \in DOMAIN snapshots : ReleaseSnapshot(i)
    <3>1. PICK i \in 1 .. Len(snapshots) : snapshots' = RemoveAt(snapshots, i)
      BY <1>3, <2>2 DEF ReleaseSnapshot
    <3> DEFINE at(j) == IF j < i THEN j ELSE j + 1
    <3>2. /\ snapshots' \in Seq(Nat)
          /\ \A j \in 1 .. Len(snapshots') : at(j) \in 1 .. Len(snapshots) /\ snapshots'[j] = snapshots[at(j)]
      BY <1>4, <3>1, Removed
    <3>3. DOMAIN snapshots' = 1 .. Len(snapshots') /\ Len(snapshots') \in Nat
      BY <3>2
    <3>4. \A j, k \in 1 .. Len(snapshots') : j < k => at(j) < at(k)
      BY <3>3
    <3> HIDE DEF at
    <3>5. \A seq \in Readable' : seq \in Readable
      BY <1>2, <1>3, <3>2, <3>3 DEF Readable
    <3>6. SnapshotsSorted'
      BY <3>2, <3>4 DEF PresentInv, SnapshotsSorted
    <3> QED BY <3>5, <3>6
  <2> QED BY <2>1, <2>2
<1> QED BY <1>6

(* What readers ought to find stays in the tree.                           *)
LEMMA PresentSnapshot ==
  ASSUME StoreInv, PresentInv, GetSnapshot \/ \E i \in DOMAIN snapshots : ReleaseSnapshot(i)
  PROVE  PresentInv'
<1>1. UNCHANGED <<written, mem, imm, files, nextFile, current, compaction, iterators>>
  BY DEF GetSnapshot, ReleaseSnapshot
<1>2. /\ LastSequence' = LastSequence /\ Entry' = Entry
      /\ \A n : KeyOf(n)' = KeyOf(n) /\ (InTree(n)' <=> InTree(n))
      /\ \A n, seq : NewestOf(n, Entry, seq)' <=> NewestOf(n, Entry, seq)
  BY <1>1 DEF LastSequence, Entry, KeyOf, InTree, NewestOf
<1>3. (\A seq \in Readable' : seq \in Readable) /\ SnapshotsSorted'
  BY SnapshotsKept
<1>4. SmallestIsLow' /\ WithinBound'
  BY <1>1, <1>2, <1>3 DEF PresentInv, SmallestIsLow, WithinBound
<1>5. PutsArePresent'
  BY <1>1, <1>2, <1>3 DEF PresentInv, PutsArePresent
<1> QED BY <1>3, <1>4, <1>5 DEF PresentInv

(* Every step keeps it. *)
LEMMA PresentStep ==
  ASSUME StoreInv, PresentInv, [Next]_vars
  PROVE  PresentInv'
<1>1. Write \/ Switch \/ Flush \/ FinishCompaction => PresentInv'
  BY PresentWrite, PresentSwitch, PresentFlush, PresentFinish
<1>2. (\E level \in 0 .. (NumLevels - 2) : \E f \in current[level] : PickCompaction(level, f)) => PresentInv'
  BY PresentPick
<1>3. (\E level \in 0 .. (NumLevels - 2) : \E low, high \in Key : low <= high /\ CompactRange(level, low, high)) => PresentInv'
  BY PresentRange
<1>4. GetSnapshot \/ (\E i \in DOMAIN snapshots : ReleaseSnapshot(i)) => PresentInv'
  BY PresentSnapshot
<1>5. UNCHANGED <<written, mem, imm, files, current, compaction, snapshots>> => PresentInv'
  <2> SUFFICES ASSUME UNCHANGED <<written, mem, imm, files, current, compaction, snapshots>> PROVE PresentInv'
    OBVIOUS
  <2>1. SmallestIsLow'
    BY SmallestSame
  <2>2. \A n : InTree(n) => InTree(n)'
    BY DEF InTree
  <2> QED BY <2>1, <2>2, PresentSame
<1>6. NewIterator \/ (\E i \in DOMAIN iterators : CleanupIteratorState(i)) \/ UNCHANGED vars => PresentInv'
  <2>1. NewIterator => UNCHANGED <<written, mem, imm, files, current, compaction, snapshots>>
    BY DEF NewIterator
  <2>2. (\E i \in DOMAIN iterators : CleanupIteratorState(i))
          => UNCHANGED <<written, mem, imm, files, current, compaction, snapshots>>
    BY DEF CleanupIteratorState
  <2>3. UNCHANGED vars => UNCHANGED <<written, mem, imm, files, current, compaction, snapshots>>
    BY DEF vars
  <2> QED BY <1>5, <2>1, <2>2, <2>3
<1> QED BY <1>1, <1>2, <1>3, <1>4, <1>6 DEF Next

(* It holds at the beginning.                                              *)
LEMMA PresentInit ==
  ASSUME Init
  PROVE  PresentInv
<1>1. written = <<>> /\ snapshots = <<>> /\ compaction = None
  BY DEF Init
<1>2. LastSequence = 0 /\ Entry = {} /\ Len(snapshots) = 0
  BY <1>1 DEF LastSequence, Entry
<1>3. Len(Workload) \in Nat
  <2> DEFINE K == SUBSET [key : Key, delete : BOOLEAN]
  <2>1. Workload \in Seq(K)
    BY VersionsAssumption
  <2> HIDE DEF K
  <2> QED BY <2>1, SeqShape
<1> QED BY <1>1, <1>2, <1>3 DEF PresentInv, SnapshotsSorted, SmallestIsLow, PutsArePresent, WithinBound

(* Whatever some reader ought to find is in a memtable or in a table of    *)
(* the current version.                                                    *)
THEOREM PresentInvariant == Spec => [](StoreInv /\ PresentInv)
<1> DEFINE I == StoreInv /\ PresentInv
<1>1. Init => I
  BY StoreInit, PresentInit
<1>2. I /\ [Next]_vars => I'
  BY StoreStep, PresentStep
<1> QED BY <1>1, <1>2, PTL DEF Spec

----------------------------------------------------------------------------
(* Where a reader finds it.                                                *)

(* The places a reader looks into, in their order: the memtable, the one   *)
(* before it, the levels.                                                  *)
Place == 0 .. (NumLevels + 1)

(* The entry n is in a place. *)
In(place, n) ==
  \/ place = 0 /\ n \in mem
  \/ place = 1 /\ imm # None /\ n \in imm
  \/ place >= 2 /\ \E f \in current[place - 2] : n \in files[f]

(* The greatest number of a set, and the least.                            *)
LEMMA MaxIs ==
  ASSUME NEW S \in SUBSET Nat, S # {}, NEW bound \in Nat, \A x \in S : x <= bound
  PROVE  Max(S) \in S /\ \A y \in S : y <= Max(S)
<1>1. PICK x \in S : \A y \in S : y <= x
  BY Greatest
<1>2. \A y \in S : x >= y
  BY <1>1
<1> QED BY <1>2 DEF Max

(* The least of a set of numbers.                                          *)
LEMMA MinIs ==
  ASSUME NEW S \in SUBSET Nat, NEW x \in S, \A y \in S : x <= y
  PROVE  Min(S) = x
<1>1. \A z \in S : (\A y \in S : z <= y) => z = x
  OBVIOUS
<1> QED BY <1>1 DEF Min

(* Of tables that do not interleave there is a first one, and only one is  *)
(* in front of the others.                                                 *)
LEMMA FirstTable ==
  ASSUME WrittenOK, TablesOK, CurrentOK, NEW level \in Level, Apart(level), NEW S \in SUBSET current[level], S # {}
  PROVE  /\ \E f \in S : \A g \in S \ {f} : InFront(f, g)
         /\ \A f, g \in S : (\A h \in S \ {f} : InFront(f, h)) /\ (\A h \in S \ {g} : InFront(g, h)) => f = g
<1>1. S \in SUBSET DOMAIN files
  BY DEF CurrentOK
<1>2. Entries(S) \in SUBSET Entry /\ Entries(S) # {}
  BY <1>1 DEF Entries, TablesOK
<1>3. PICK a \in Entries(S) : \A b \in Entries(S) \ {a} : Before(a, b)
  BY <1>2, FirstExists
<1>4. PICK f \in S : a \in files[f]
  BY DEF Entries
<1>5. ASSUME NEW g \in S \ {f}
      PROVE  InFront(f, g)
  <2>1. f \in DOMAIN files /\ g \in DOMAIN files /\ (Precedes(f, g) \/ Precedes(g, f))
    BY <1>1 DEF Apart
  <2>2. ~Precedes(g, f)
    <3>1. PICK b \in files[g] : TRUE
      BY <2>1 DEF TablesOK
    <3>2. b \in Entries(S) /\ a \in Entry /\ b \in Entry
      BY <1>2 DEF Entries
    <3>3. b = a \/ Before(a, b)
      BY <1>3, <3>2
    <3>4. ~Before(b, a)
      BY <3>2, <3>3, Ordered
    <3> QED BY <1>4, <3>4 DEF Precedes
  <2> QED BY <2>1, <2>2, InFrontIs
<1>6. ASSUME NEW g \in S, NEW h \in S, \A x \in S \ {g} : InFront(g, x), \A x \in S \ {h} : InFront(h, x), g # h
      PROVE  FALSE
  <2>1. Before(Smallest(g), Smallest(h)) /\ Before(Smallest(h), Smallest(g))
    BY <1>6 DEF InFront
  <2>2. Smallest(g) \in Entry /\ Smallest(h) \in Entry
    BY <1>1, TableEnds
  <2> QED BY <2>1, <2>2, Ordered
<1> QED BY <1>5, <1>6

(* The tables of a level that reach the key looked up, and what            *)
(* Version::Get makes of the first of them.                                *)
Reach(level, key, seq) ==
  {f \in current[level] : KeyOf(Largest(f)) > key \/ (KeyOf(Largest(f)) = key /\ Largest(f) <= seq)}

(* Version::Get looks into the first of them only.                         *)
LEMMA FindInLevelIs ==
  ASSUME WrittenOK, TablesOK, CurrentOK, NEW level \in Level, Apart(level), NEW key, NEW seq,
         NEW f \in Reach(level, key, seq), \A g \in Reach(level, key, seq) \ {f} : InFront(f, g)
  PROVE  FindInLevel(level, key, seq) = IF KeyOf(Smallest(f)) > key THEN 0 ELSE NewestIn(files[f], key, seq)
<1> DEFINE R == Reach(level, key, seq)
<1>1. R \in SUBSET current[level] /\ R # {}
  BY DEF Reach
<1>2. FindInLevel(level, key, seq) =
        LET file == CHOOSE h \in R : \A g \in R \ {h} : InFront(h, g)
        IN IF R = {} \/ KeyOf(Smallest(file)) > key THEN 0 ELSE NewestIn(files[file], key, seq)
  BY DEF FindInLevel, Reach
<1>3. f \in R /\ \A g \in R \ {f} : InFront(f, g)
  OBVIOUS
<1> HIDE DEF R
<1>4. \A h \in R : (\A g \in R \ {h} : InFront(h, g)) => h = f
  BY <1>1, <1>3, FirstTable
<1>5. (CHOOSE h \in R : \A g \in R \ {h} : InFront(h, g)) = f
  BY <1>3, <1>4
<1> QED BY <1>1, <1>2, <1>5

(* What is found in a place is in it: an entry of the key that the reader  *)
(* may see.                                                                *)
LEMMA FindIsIn ==
  ASSUME StoreInv, LevelsApart, NEW place \in Place, NEW key, NEW seq \in Nat, FindAt(place, key, seq) # 0
  PROVE  /\ FindAt(place, key, seq) \in Entry /\ In(place, FindAt(place, key, seq))
         /\ KeyOf(FindAt(place, key, seq)) = key /\ FindAt(place, key, seq) <= seq
<1>0. /\ WrittenOK /\ TablesOK /\ CurrentOK /\ mem \subseteq Entry /\ (imm # None => imm \subseteq Entry)
      /\ nextFile \in Nat /\ \A f \in DOMAIN files : f \in Nat /\ f < nextFile
  BY DEF StoreInv, MemtablesOK, FilesNumbered
<1>1. CASE place = 0
  <2>1. FindAt(place, key, seq) = NewestIn(mem, key, seq)
    BY <1>1 DEF FindAt
  <2> QED BY <1>0, <1>1, <2>1, FoundIsNewest DEF NewestOf, In
<1>2. CASE place = 1
  <2>1. imm # None /\ FindAt(place, key, seq) = NewestIn(imm, key, seq)
    BY <1>2 DEF FindAt
  <2> QED BY <1>0, <1>2, <2>1, FoundIsNewest DEF NewestOf, In
<1>3. CASE place = 2
  <2> DEFINE hits == {f \in Overlapping(current[0], key, key) : NewestIn(files[f], key, seq) # 0}
  <2>0. 0 \in Level
    BY VersionsAssumption DEF Level
  <2>1. hits # {} /\ FindAt(place, key, seq) = NewestIn(files[Max(hits)], key, seq)
    BY <1>3 DEF FindAt, FindInLevel0
  <2>2. hits \in SUBSET current[0] /\ hits \in SUBSET DOMAIN files
    BY <2>0, <1>0, OverlapIn DEF CurrentOK
  <2>3. Max(hits) \in hits
    <3>1. hits \in SUBSET Nat /\ \A x \in hits : x <= nextFile
      BY <1>0, <2>2
    <3> HIDE DEF hits
    <3> QED BY <1>0, <2>1, <3>1, MaxIs
  <2>4. PICK f \in current[0] : f = Max(hits) /\ f \in DOMAIN files
    BY <2>2, <2>3
  <2>5. files[f] \in SUBSET Entry /\ FindAt(place, key, seq) = NewestIn(files[f], key, seq)
    BY <1>0, <2>1, <2>4 DEF TablesOK
  <2>6. FindAt(place, key, seq) \in files[f] /\ KeyOf(FindAt(place, key, seq)) = key /\ FindAt(place, key, seq) <= seq
    BY <1>0, <2>5, FoundIsNewest DEF NewestOf
  <2> QED BY <1>3, <2>4, <2>5, <2>6 DEF In
<1>4. CASE place > 2
  <2>1. place - 2 \in Level \ {0} /\ place >= 2 /\ place # 0 /\ place # 1 /\ place # 2
    BY <1>4, VersionsAssumption DEF Place, Level
  <2> DEFINE l == place - 2
             R == Reach(l, key, seq)
  <2>2. FindAt(place, key, seq) = FindInLevel(l, key, seq)
    BY <2>1 DEF FindAt
  <2>3. Apart(l) /\ l \in Level /\ R \in SUBSET current[l] /\ R # {}
    BY <2>1, <2>2 DEF LevelsApart, Reach, FindInLevel
  <2> HIDE DEF l
  <2>4. PICK f \in R : \A g \in R \ {f} : InFront(f, g)
    BY <1>0, <2>3, FirstTable
  <2>5. FindAt(place, key, seq) = NewestIn(files[f], key, seq) /\ f \in current[l] /\ f \in DOMAIN files
    BY <1>0, <2>2, <2>3, <2>4, FindInLevelIs DEF CurrentOK
  <2>6. files[f] \in SUBSET Entry
    BY <1>0, <2>5 DEF TablesOK
  <2>7. FindAt(place, key, seq) \in files[f] /\ KeyOf(FindAt(place, key, seq)) = key /\ FindAt(place, key, seq) <= seq
    BY <1>0, <2>5, <2>6, FoundIsNewest DEF NewestOf
  <2> QED BY <2>1, <2>5, <2>6, <2>7 DEF In, l
<1>5. place = 0 \/ place = 1 \/ place = 2 \/ place > 2
  BY VersionsAssumption DEF Place
<1> QED BY <1>1, <1>2, <1>3, <1>4, <1>5

(* Where the last write of a key is, a look finds it.                      *)
LEMMA FindsNewest ==
  ASSUME StoreInv, OrderInv, NEW place \in Place, NEW n \in Entry, In(place, n), NEW seq \in Nat, NewestOf(n, Entry, seq),
         NEW key, key = KeyOf(n)
  PROVE  FindAt(place, key, seq) = n /\ n # 0
<1>0. /\ WrittenOK /\ TablesOK /\ CurrentOK /\ mem \subseteq Entry /\ (imm # None => imm \subseteq Entry)
      /\ nextFile \in Nat /\ \A f \in DOMAIN files : f \in Nat /\ f < nextFile
  BY DEF StoreInv, MemtablesOK, FilesNumbered
<1>1. \A S \in SUBSET Entry : n \in S => NewestOf(n, S, seq)
  BY DEF NewestOf
<1>2. \A S \in SUBSET Entry : n \in S => NewestIn(S, key, seq) = n
  BY <1>0, <1>1, NewestFound
<1>3. n # 0 /\ n \in Nat /\ key \in Nat
  BY <1>0, KeyNat DEF Entry
<1>4. CASE place = 0
  BY <1>0, <1>2, <1>3, <1>4 DEF FindAt, In
<1>5. CASE place = 1
  BY <1>0, <1>2, <1>3, <1>5 DEF FindAt, In
<1>6. CASE place = 2
  <2> DEFINE hits == {f \in Overlapping(current[0], key, key) : NewestIn(files[f], key, seq) # 0}
  <2>0. 0 \in Level /\ current[0] \in SUBSET DOMAIN files
    BY <1>0, VersionsAssumption DEF Level, CurrentOK
  <2>1. PICK f \in current[0] : n \in files[f]
    BY <1>6 DEF In
  <2>2. f \in DOMAIN files /\ files[f] \in SUBSET Entry
    BY <1>0, <2>0 DEF TablesOK
  <2>3. f \in hits
    <3>1. Meets(f, key, key)
      BY <1>3, <2>1 DEF Meets
    <3>2. f \in Overlapping(current[0], key, key)
      BY <1>0, <1>3, <2>0, <3>1, OverlapMeets
    <3> QED BY <1>2, <1>3, <2>1, <2>2, <3>2
  <2>4. hits \in SUBSET current[0] /\ hits # {} /\ hits \in SUBSET Nat /\ \A x \in hits : x <= nextFile
    BY <1>0, <2>0, <2>3, OverlapIn
  <2>5. Max(hits) \in hits /\ \A y \in hits : y <= Max(hits)
    <3> HIDE DEF hits
    <3> QED BY <1>0, <2>4, MaxIs
  <2>6. ASSUME f < Max(hits)
        PROVE  FALSE
    <3>1. PICK g \in current[0] : g = Max(hits) /\ g \in DOMAIN files /\ f < g
      BY <2>0, <2>4, <2>5, <2>6
    <3>2. NewestIn(files[g], key, seq) # 0 /\ files[g] \in SUBSET Entry
      BY <1>0, <2>5, <3>1 DEF TablesOK
    <3>3. PICK x \in files[g] : x = NewestIn(files[g], key, seq) /\ KeyOf(x) = key /\ x <= seq
      BY <1>0, <3>2, FoundIsNewest DEF NewestOf
    <3>4. n < x
      BY <2>1, <3>1, <3>3 DEF OrderInv, NewestLast, Older
    <3>5. x <= n /\ x \in Nat
      BY <1>0, <3>2, <3>3, KeyNat DEF NewestOf
    <3> QED BY <1>3, <3>4, <3>5
  <2>7. Max(hits) = f
    BY <2>3, <2>4, <2>5, <2>6
  <2>8. FindAt(place, key, seq) = NewestIn(files[Max(hits)], key, seq)
    BY <1>6, <2>4 DEF FindAt, FindInLevel0
  <2> QED BY <1>2, <1>3, <2>1, <2>2, <2>7, <2>8
<1>7. CASE place > 2
  <2>1. place - 2 \in Level \ {0} /\ place # 0 /\ place # 1 /\ place # 2
    BY <1>7, VersionsAssumption DEF Place, Level
  <2> DEFINE l == place - 2
             R == Reach(l, key, seq)
  <2>2. FindAt(place, key, seq) = FindInLevel(l, key, seq)
    BY <2>1 DEF FindAt
  <2>3. Apart(l) /\ l \in Level
    BY <2>1 DEF OrderInv, LevelsApart
  <2>4. PICK f \in current[l] : n \in files[f]
    BY <2>1 DEF In
  <2> HIDE DEF l
  <2>5. f \in DOMAIN files /\ files[f] \in SUBSET Entry /\ current[l] \in SUBSET DOMAIN files
    BY <1>0, <2>3 DEF CurrentOK, TablesOK
  <2>6. /\ Largest(f) \in Entry /\ Smallest(f) \in Entry /\ KeyOf(Smallest(f)) <= key /\ key <= KeyOf(Largest(f))
        /\ n = Largest(f) \/ Before(n, Largest(f))
    BY <1>0, <2>4, <2>5, TableEnds
  <2>7. f \in R
    <3>1. KeyOf(Largest(f)) \in Nat /\ Largest(f) \in Nat
      BY <1>0, <2>6, KeyNat
    <3>2. CASE KeyOf(Largest(f)) > key
      BY <3>2 DEF Reach
    <3>3. CASE KeyOf(Largest(f)) = key
      <4>1. Largest(f) <= n
        BY <1>0, <1>3, <2>6, <3>1, <3>3, OrderOfKeys
      <4>2. Largest(f) <= seq
        BY <1>3, <3>1, <4>1 DEF NewestOf
      <4> QED BY <3>3, <4>2 DEF Reach
    <3> QED BY <1>3, <2>6, <3>1, <3>2, <3>3
  <2>8. ASSUME NEW g \in R \ {f}
        PROVE  InFront(f, g)
    <3>1. g \in current[l] /\ g \in DOMAIN files /\ (Precedes(f, g) \/ Precedes(g, f))
      BY <2>3, <2>5 DEF Reach, Apart
    <3>2. Largest(g) \in files[g] /\ Largest(g) \in Entry
      BY <1>0, <3>1, TableEnds
    <3>3. PICK x \in files[g] : x = Largest(g) /\ x \in Entry /\ x \in Nat /\ KeyOf(x) \in Nat
      BY <1>0, <3>2, KeyNat
    <3>4. KeyOf(x) > key \/ (KeyOf(x) = key /\ x <= seq)
      BY <3>3 DEF Reach
    <3>5. ~Before(x, n)
      <4> SUFFICES ASSUME Before(x, n) PROVE FALSE
        OBVIOUS
      <4>1. KeyOf(x) <= key /\ (KeyOf(x) = key => n < x)
        BY <1>0, <3>3, OrderOfKeys
      <4>2. KeyOf(x) = key /\ x <= seq /\ n < x
        BY <1>3, <3>3, <3>4, <4>1
      <4>3. x <= n
        BY <3>3, <4>2 DEF NewestOf
      <4> QED BY <1>3, <3>3, <4>2, <4>3
    <3>6. ~Precedes(g, f)
      BY <2>4, <3>5 DEF Precedes
    <3> QED BY <1>0, <2>5, <3>1, <3>6, InFrontIs
  <2>9. FindInLevel(l, key, seq) = IF KeyOf(Smallest(f)) > key THEN 0 ELSE NewestIn(files[f], key, seq)
    BY <1>0, <2>3, <2>7, <2>8, FindInLevelIs
  <2>10. ~(KeyOf(Smallest(f)) > key)
    BY <1>0, <1>3, <2>6, KeyNat
  <2> QED BY <1>2, <1>3, <2>2, <2>4, <2>5, <2>9, <2>10
<1>8. place = 0 \/ place = 1 \/ place = 2 \/ place > 2
  BY VersionsAssumption DEF Place
<1> QED BY <1>4, <1>5, <1>6, <1>7, <1>8

(* The deeper a place, the older what it knows of a key.                   *)
LEMMA ShallowerIsNewer ==
  ASSUME StoreInv, Ages, OrderInv, NEW p \in Place, NEW q \in Place, p < q,
         NEW x \in Entry, NEW n \in Entry, In(p, x), In(q, n), KeyOf(x) = KeyOf(n)
  PROVE  n < x
<1>0. \A l \in Level : current[l] \subseteq DOMAIN files
  BY DEF StoreInv, CurrentOK
<1>1. CASE q = 1
  <2>1. p = 0 /\ q # 0 /\ ~(q >= 2)
    BY <1>1 DEF Place
  <2> QED BY <1>1, <2>1 DEF In, Ages
<1>2. CASE q >= 2
  <2>1. q - 2 \in Level /\ q # 0 /\ q # 1
    BY <1>2, VersionsAssumption DEF Place, Level
  <2>2. PICK f \in current[q - 2] : n \in files[f]
    BY <2>1 DEF In
  <2>3. f \in DOMAIN files
    BY <1>0, <2>1
  <2>4. CASE p = 0
    BY <2>2, <2>3, <2>4 DEF In, Ages
  <2>5. CASE p = 1
    BY <2>2, <2>3, <2>5 DEF In, Ages
  <2>6. CASE p >= 2
    <3>1. p - 2 \in Level /\ p # 0 /\ p # 1 /\ p - 2 < q - 2
      BY <2>6, VersionsAssumption DEF Place, Level
    <3>2. PICK g \in current[p - 2] : x \in files[g]
      BY <3>1 DEF In
    <3>3. Older(files[f], files[g])
      BY <2>1, <2>2, <3>1, <3>2 DEF OrderInv, LevelsOrdered
    <3> QED BY <2>2, <3>2, <3>3 DEF Older
  <2>7. p = 0 \/ p = 1 \/ p >= 2
    BY DEF Place
  <2> QED BY <2>4, <2>5, <2>6, <2>7
<1>3. q = 1 \/ q >= 2
  BY DEF Place
<1> QED BY <1>1, <1>2, <1>3

(* What is in the tree is in a place. *)
LEMMA TreeIsPlaces ==
  ASSUME NEW n
  PROVE  InTree(n) <=> \E place \in Place : In(place, n)
<1>1. ASSUME InTree(n)
      PROVE  \E place \in Place : In(place, n)
  <2>1. 0 \in Place /\ 1 \in Place
    BY VersionsAssumption DEF Place
  <2>2. ASSUME NEW l \in Level, NEW f \in current[l], n \in files[f]
        PROVE  \E place \in Place : In(place, n)
    <3>1. l + 2 \in Place /\ l + 2 >= 2 /\ (l + 2) - 2 = l
      BY VersionsAssumption DEF Place, Level
    <3> QED BY <2>2, <3>1 DEF In
  <2> QED BY <1>1, <2>1, <2>2 DEF InTree, In
<1>2. ASSUME NEW place \in Place, In(place, n)
      PROVE  InTree(n)
  <2>1. place >= 2 => place - 2 \in Level
    BY VersionsAssumption DEF Place, Level
  <2> QED BY <1>2, <2>1 DEF InTree, In
<1> QED BY <1>1, <1>2

(* The first place that knows a key knows its last write, wherever that    *)
(* is.                                                                     *)
LEMMA FirstPlaceKnows ==
  ASSUME StoreInv, Ages, OrderInv, NEW n \in Entry, InTree(n), NEW seq \in Nat, NewestOf(n, Entry, seq),
         NEW key, key = KeyOf(n)
  PROVE  Get(key, seq) = IF written[n].delete THEN 0 ELSE n
<1> DEFINE known == {place \in 0 .. (NumLevels + 1) : FindAt(place, key, seq) # 0}
<1>1. PICK q \in Place : In(q, n)
  BY TreeIsPlaces
<1>2. FindAt(q, key, seq) = n /\ n # 0
  BY <1>1, FindsNewest
<1>3. ASSUME NEW p \in known
      PROVE  q <= p
  <2> SUFFICES ASSUME p < q PROVE FALSE
    BY VersionsAssumption DEF Place
  <2>1. p \in Place /\ FindAt(p, key, seq) # 0
    BY DEF Place
  <2>2. PICK x \in Entry : In(p, x) /\ KeyOf(x) = key /\ x <= seq
    BY <2>1, FindIsIn DEF OrderInv
  <2>3. n < x
    BY <1>1, <2>1, <2>2, ShallowerIsNewer
  <2>4. x <= n
    BY <2>2 DEF NewestOf
  <2>5. x \in Nat /\ n \in Nat
    BY KeyNat DEF StoreInv
  <2> QED BY <2>3, <2>4, <2>5
<1>4. q \in known /\ known \in SUBSET Nat
  BY <1>2, VersionsAssumption DEF Place
<1>5. Min(known) = q
  <2> HIDE DEF known
  <2> QED BY <1>3, <1>4, MinIs
<1>6. Get(key, seq) = IF known = {} THEN 0 ELSE IF written[FindAt(Min(known), key, seq)].delete THEN 0
                                                 ELSE FindAt(Min(known), key, seq)
  BY DEF Get
<1> QED BY <1>2, <1>4, <1>5, <1>6

(* A Get at any number a reader may read at finds the last write of the    *)
(* key, if that was a Put (DBImpl::Get, Version::Get), unless a memtable   *)
(* is flushed in the middle of a manual compaction.                        *)
THEOREM PutsAreFound ==
  ASSUME ManualQuiet
  PROVE  Spec => []LastPutFound
<1>1. StoreInv /\ Ages /\ OrderInv /\ PresentInv => LastPutFound
  <2> SUFFICES ASSUME StoreInv, Ages, OrderInv, PresentInv, NEW key \in Key, NEW seq \in Readable, Answer(key, seq) # 0
               PROVE  Get(key, seq) = Answer(key, seq)
    BY DEF LastPutFound
  <2>1. seq \in Nat /\ WrittenOK
    BY ReadableIs DEF StoreInv
  <2>2. PICK n : n = Answer(key, seq)
    OBVIOUS
  <2>3. NewestOf(n, Entry, seq) /\ KeyOf(n) = key /\ ~written[n].delete /\ n \in Entry
    BY <2>1, <2>2, AnswerIs DEF NewestOf
  <2>4. InTree(n)
    BY <2>3 DEF PresentInv, PutsArePresent
  <2> QED BY <2>1, <2>2, <2>3, <2>4, FirstPlaceKnows
<1> QED BY <1>1, OrderInvariant, PresentInvariant, PTL

----------------------------------------------------------------------------
(* Deletions.                                                              *)

(* While anything a reader might take for the value of a key is in the     *)
(* tree, what it ought to find is there too, a deletion included; but for  *)
(* the keys an output was cut inside of.                                   *)
Buried ==
  \A seq \in Readable : \A n \in Entry : InTree(n) /\ n <= seq /\ KeyOf(n) \notin cut =>
    \E m \in Entry : InTree(m) /\ KeyOf(m) = KeyOf(n) /\ NewestOf(m, Entry, seq)

(* Two tables share a user key that no output was cut inside of.           *)
ShareUncut(f, g) == \E a \in files[f], b \in files[g] : KeyOf(a) = KeyOf(b) /\ KeyOf(a) \notin cut

(* Below level 0 no two tables of a level do.                              *)
KeysApart == \A l \in Level \ {0} : \A f, g \in current[l] : f # g => ~ShareUncut(f, g)

(* A table that came to a deeper level while a compaction runs is newer    *)
(* than what it reads.                                                     *)
InputsAreOld ==
  compaction # None =>
    \A l \in Level : l >= compaction.level + 2 =>
      \A g \in current[l] \ compaction.version[l] : \A n \in InputEntries, m \in files[g] : n < m

(* The inductive invariant of deletions. *)
DeleteInv == Buried /\ KeysApart /\ InputsAreOld

(* When a compaction drops what a reader ought to find, nothing the reader *)
(* might find instead is left in the tree: what the compaction read of the *)
(* key it dropped too, IsBaseLevelForKey answers for the deeper levels as  *)
(* they were when it began, and what came there since is newer.            *)
LEMMA DroppedTop ==
  ASSUME StoreInv, Ages, OrderInv, PresentInv, DeleteInv, FinishCompaction, NEW seq \in Readable,
         NEW m \in InputEntries, NewestOf(m, Entry, seq), KeyOf(m) \notin cut, m \notin KeptEntries,
         NEW n \in Entry, n <= seq, KeyOf(n) = KeyOf(m), InTree(n)'
  PROVE  FALSE
<1>1. /\ compaction # None /\ KeptEntries \subseteq InputEntries /\ InputEntries \subseteq Entry
      /\ UNCHANGED <<written, mem, imm>>
  BY FinishStep
<1>2. PICK o : /\ OutputsOK(o) /\ \A f \in DOMAIN o : files'[f] = o[f]
               /\ current' \in [Level -> SUBSET DOMAIN files']
               /\ \A l \in Level : current'[l] = After(l, o)
               /\ \A f \in DOMAIN files' : f \in DOMAIN o \/ (f \in DOMAIN files /\ files'[f] = files[f])
  BY FinishStep
<1>3. PICK level \in 0 .. (NumLevels - 2), in0 \in {compaction.in0}, in1 \in {compaction.in1},
        manual \in {compaction.manual} : level = compaction.level
  BY <1>1 DEF StoreInv, CompactionOK
<1>4. level \in Level /\ level + 1 \in Level /\ level # level + 1 /\ level + 1 > 0 /\ level + 1 # 0 /\ level \in Nat
  BY NextLevel
<1>5. Underway(level, in0, in1, manual)
  BY <1>1, <1>3 DEF OrderInv, CompactionUnderway
<1>6. in0 \subseteq current[level] /\ in1 \subseteq current[level + 1]
  BY <1>5 DEF Underway
<1>7. PICK h \in in0 \union in1 : m \in files[h]
  BY <1>3 DEF InputEntries, Entries
<1>8. m \in Entry /\ m \in Nat /\ n \in Nat /\ n <= m /\ ~(m < n) /\ KeyOf(n) \in Nat
  BY <1>1, KeyNat DEF NewestOf, StoreInv
<1>9. written[m].delete /\ m <= compaction.smallest /\ IsBaseLevelForKey(compaction, KeyOf(m))
  <2>1. m \in Dropped(compaction, InputEntries)
    BY DEF KeptEntries
  <2>2. ~\E x \in InputEntries : KeyOf(x) = KeyOf(m) /\ x > m /\ x <= compaction.smallest
    <3> SUFFICES ASSUME NEW x \in InputEntries, KeyOf(x) = KeyOf(m), x > m, x <= compaction.smallest
                 PROVE  FALSE
      OBVIOUS
    <3>1. x \in Entry /\ x \in Nat
      BY <1>1, KeyNat DEF StoreInv
    <3>2. compaction.smallest \in Nat /\ compaction.smallest <= seq /\ seq \in Nat
      BY <1>1, ReadableIs DEF PresentInv, SmallestIsLow
    <3>3. x <= seq
      BY <3>1, <3>2
    <3>4. x <= m
      BY <3>1, <3>3 DEF NewestOf
    <3> QED BY <1>8, <3>1, <3>4
  <2> QED BY <2>1, <2>2 DEF Dropped
<1>10. h \in DOMAIN files
  BY <1>4, <1>6 DEF StoreInv, CurrentOK
<1>11. ~(n \in mem) /\ ~(imm # None /\ n \in imm)
  BY <1>7, <1>8, <1>10 DEF Ages
<1>12. PICK l \in Level : \E f \in current'[l] : n \in files'[f]
  BY <1>1, <1>11 DEF InTree
<1>13. PICK f \in current'[l] : n \in files'[f]
  BY <1>12
<1>14. CASE f \in DOMAIN o
  <2>1. n \in KeptEntries
    BY <1>2, <1>13, <1>14 DEF OutputsOK
  <2>2. n # m
    BY <2>1
  <2>3. m > n
    BY <1>8, <2>2
  <2>4. n \in Dropped(compaction, InputEntries)
    BY <1>1, <1>9, <2>1, <2>3 DEF Dropped
  <2> QED BY <2>1, <2>4 DEF KeptEntries
<1>15. CASE f \notin DOMAIN o
  <2>1. f \in After(l, o) /\ files'[f] = files[f] /\ f \in DOMAIN files
    BY <1>2, <1>13, <1>15
  <2>2. f \in current[l] /\ (l = level => f \notin in0) /\ (l = level + 1 => f \notin in1)
    BY <1>3, <1>4, <1>15, <2>1 DEF After
  <2>3. n \in files[f]
    BY <1>13, <2>1
  <2>4. ~Older(files[h], files[f])
    BY <1>7, <1>8, <2>3 DEF Older
  <2>5. CASE l < level
    BY <1>4, <1>6, <2>2, <2>4, <2>5 DEF OrderInv, LevelsOrdered, Level
  <2>6. CASE l = level
    <3>1. h \in in0 => Older(files[h], files[f])
      BY <1>5, <2>2, <2>6 DEF Underway
    <3>2. h \in in1 => Older(files[h], files[f])
      BY <1>4, <1>6, <2>2, <2>6 DEF OrderInv, LevelsOrdered
    <3> QED BY <2>4, <3>1, <3>2
  <2>7. CASE l = level + 1
    <3>1. Share(h, f) /\ ShareUncut(h, f)
      BY <1>7, <2>3 DEF Share, ShareUncut
    <3>2. h \notin in0
      BY <1>5, <2>2, <2>7, <3>1 DEF Underway
    <3>3. h \in in1 /\ h # f /\ h \in current[level + 1] /\ f \in current[level + 1]
      BY <1>6, <2>2, <2>7, <3>2
    <3> QED BY <1>4, <3>1, <3>3 DEF DeleteInv, KeysApart
  <2>8. CASE l > level + 1
    <3>1. l >= level + 2 /\ l \in (level + 2) .. (NumLevels - 1)
      BY <1>4, <2>8, VersionsAssumption DEF Level
    <3>2. CASE f \in compaction.version[l]
      <4>1. Overlapping(compaction.version[l], KeyOf(m), KeyOf(m)) = {}
        BY <1>3, <1>9, <3>1 DEF IsBaseLevelForKey
      <4>2. compaction.version[l] \in SUBSET DOMAIN files
        BY <1>1 DEF StoreInv, CompactionOK, Version
      <4>3. Meets(f, KeyOf(m), KeyOf(m))
        BY <1>8, <2>3 DEF Meets
      <4>4. f \in Overlapping(compaction.version[l], KeyOf(m), KeyOf(m))
        BY <1>8, <3>2, <4>2, <4>3, OverlapMeets DEF StoreInv
      <4> QED BY <4>1, <4>4
    <3>3. CASE f \notin compaction.version[l]
      BY <1>1, <1>3, <1>8, <2>2, <2>3, <3>1, <3>3 DEF DeleteInv, InputsAreOld
    <3> QED BY <3>2, <3>3
  <2>9. l < level \/ l = level \/ l = level + 1 \/ l > level + 1
    BY <1>4 DEF Level
  <2> QED BY <2>5, <2>6, <2>7, <2>8, <2>9
<1> QED BY <1>14, <1>15

(* What readers ought to find, after a compaction.                         *)
LEMMA BuriedFinish ==
  ASSUME StoreInv, Ages, OrderInv, PresentInv, DeleteInv, FinishCompaction
  PROVE  Buried'
<1>1. /\ compaction # None /\ KeptEntries \subseteq InputEntries /\ InputEntries \subseteq Entry
      /\ cut \subseteq cut' /\ UNCHANGED <<written, mem, imm, snapshots>>
  BY FinishStep
<1>2. Entry' = Entry /\ Readable' = Readable /\ \A n : KeyOf(n)' = KeyOf(n)
  BY <1>1 DEF Entry, Readable, LastSequence, KeyOf
<1>3. \A n, seq : NewestOf(n, Entry, seq)' <=> NewestOf(n, Entry, seq)
  BY <1>2 DEF NewestOf
<1>4. ASSUME NEW n \in Entry, InTree(n)'
      PROVE  InTree(n)
  <2>1. PICK o : /\ OutputsOK(o) /\ \A f \in DOMAIN o : files'[f] = o[f]
                 /\ current' \in [Level -> SUBSET DOMAIN files']
                 /\ \A l \in Level : current'[l] = After(l, o)
                 /\ \A f \in DOMAIN files' : f \in DOMAIN o \/ (f \in DOMAIN files /\ files'[f] = files[f])
    BY FinishStep
  <2>2. n \in InputEntries => InTree(n)
    <3>1. compaction.level \in Level /\ compaction.level + 1 \in Level
      BY <1>1, NextLevel DEF StoreInv, CompactionOK
    <3>2. compaction.in0 \subseteq current[compaction.level] /\ compaction.in1 \subseteq current[compaction.level + 1]
      BY <1>1 DEF OrderInv, CompactionUnderway, Underway
    <3>3. InputEntries = UNION {files[f] : f \in compaction.in0 \union compaction.in1}
      BY DEF InputEntries, Entries
    <3> QED BY <3>1, <3>2, <3>3 DEF InTree
  <2>3. CASE \E l \in Level : \E f \in current'[l] : n \in files'[f]
    <3>1. PICK l \in Level : \E f \in current'[l] : n \in files'[f]
      BY <2>3
    <3>2. PICK f \in current'[l] : n \in files'[f]
      BY <3>1
    <3>3. CASE f \in DOMAIN o
      BY <1>1, <2>1, <2>2, <3>2, <3>3 DEF OutputsOK
    <3>4. CASE f \notin DOMAIN o
      <4>1. f \in After(l, o) /\ files'[f] = files[f]
        BY <2>1, <3>2, <3>4
      <4>2. f \in current[l]
        BY <3>4, <4>1 DEF After
      <4> QED BY <3>2, <4>1, <4>2 DEF InTree
    <3> QED BY <3>3, <3>4
  <2>4. CASE n \in mem \/ (imm # None /\ n \in imm)
    BY <2>4 DEF InTree
  <2> QED BY <1>1, <1>4, <2>3, <2>4 DEF InTree
<1> SUFFICES ASSUME NEW seq \in Readable, NEW n \in Entry, InTree(n)', n <= seq, KeyOf(n) \notin cut
             PROVE  \E m \in Entry : InTree(m)' /\ KeyOf(m) = KeyOf(n) /\ NewestOf(m, Entry, seq)
  BY <1>1, <1>2, <1>3 DEF Buried
<1>5. PICK m \in Entry : InTree(m) /\ KeyOf(m) = KeyOf(n) /\ NewestOf(m, Entry, seq)
  BY <1>4 DEF DeleteInv, Buried
<1>6. CASE m \notin InputEntries
  BY <1>5, <1>6, TreeFinish
<1>7. CASE m \in InputEntries
  <2>1. m \in KeptEntries
    BY <1>5, <1>7, DroppedTop
  <2> QED BY <1>5, <2>1, TreeFinish
<1> QED BY <1>6, <1>7

(* After a write, which somebody reads at the number of.                   *)
LEMMA BuriedWrite ==
  ASSUME StoreInv, DeleteInv, Write
  PROVE  Buried'
<1>0. PICK new : new = LastSequence + 1
  OBVIOUS
<1>1. /\ \A n \in Entry : n \in Entry' /\ KeyOf(n)' = KeyOf(n)
      /\ \A n \in Entry' : n \in Entry \/ n = new
      /\ new \in Entry' /\ LastSequence' = new
  BY <1>0, WriteStep DEF StoreInv
<1>2. mem' = mem \union {new} /\ UNCHANGED <<imm, files, current, snapshots, cut>>
  BY <1>0 DEF Write
<1>3. /\ LastSequence \in Nat /\ LastSequence \in Readable
      /\ \A seq \in Readable : seq \in Nat /\ seq <= LastSequence
  BY ReadableIs
<1>4. \A x \in Entry : x \in Nat /\ x <= LastSequence /\ x < new
  BY <1>0, <1>3 DEF Entry
<1>5. \A seq \in Readable' : seq = new \/ seq \in Readable
  BY <1>1, <1>2 DEF Readable
<1>6. \A n : InTree(n) => InTree(n)'
  BY <1>2 DEF InTree
<1>7. \A n : InTree(n)' => n = new \/ InTree(n)
  BY <1>2 DEF InTree
<1>8. InTree(new)'
  BY <1>2 DEF InTree
<1> SUFFICES ASSUME NEW seq \in Readable', NEW n \in Entry', InTree(n)', n <= seq, KeyOf(n)' \notin cut
             PROVE  \E m \in Entry' : /\ InTree(m)' /\ KeyOf(m)' = KeyOf(n)' /\ m <= seq
                                      /\ \A x \in Entry' : KeyOf(x)' = KeyOf(m)' /\ x <= seq => x <= m
  BY <1>2 DEF Buried, NewestOf
<1>9. new \in Nat /\ new <= new /\ \A x \in Entry' : x <= new
  BY <1>0, <1>1, <1>3, <1>4
(* At the number of the write, what is new is its own key.                 *)
<1>10. CASE seq = new /\ KeyOf(n)' = KeyOf(new)'
  BY <1>1, <1>8, <1>9, <1>10
(* What anybody reads of another key, or before, is as it was.             *)
<1>11. CASE seq \in Readable \/ KeyOf(n)' # KeyOf(new)'
  <2>1. PICK old \in Readable : /\ \A x \in Entry : x <= old <=> x <= seq
                                /\ seq = new \/ old = seq
    <3>1. CASE seq \in Readable
      BY <3>1
    <3>2. CASE seq = new
      BY <1>3, <1>4, <3>2, <1>9
    <3> QED BY <1>5, <3>1, <3>2
  <2>2. n \in Entry /\ InTree(n)
    <3>1. n # new
      <4>1. CASE seq \in Readable
        <5>1. seq \in Nat /\ seq <= LastSequence
          BY <1>3, <4>1
        <5> QED BY <1>0, <1>3, <5>1
      <4>2. CASE KeyOf(n)' # KeyOf(new)'
        BY <4>2
      <4> QED BY <1>11, <4>1, <4>2
    <3> QED BY <1>1, <1>7, <3>1
  <2>3. PICK m \in Entry : InTree(m) /\ KeyOf(m) = KeyOf(n) /\ NewestOf(m, Entry, old)
    BY <1>1, <2>1, <2>2 DEF DeleteInv, Buried
  <2>4. m \in Entry' /\ InTree(m)' /\ KeyOf(m)' = KeyOf(n)' /\ m <= seq
    BY <1>1, <1>6, <2>1, <2>2, <2>3 DEF NewestOf
  <2>5. ASSUME NEW x \in Entry', KeyOf(x)' = KeyOf(m)', x <= seq
        PROVE  x <= m
    <3>1. x # new
      <4>1. CASE seq \in Readable
        <5>1. seq \in Nat /\ seq <= LastSequence
          BY <1>3, <4>1
        <5> QED BY <1>0, <1>3, <2>5, <5>1
      <4>2. CASE KeyOf(n)' # KeyOf(new)'
        BY <2>4, <2>5, <4>2
      <4> QED BY <1>11, <4>1, <4>2
    <3>2. x \in Entry /\ KeyOf(x) = KeyOf(m) /\ x <= old
      BY <1>1, <2>1, <2>3, <2>5, <3>1
    <3> QED BY <2>3, <3>2 DEF NewestOf
  <2> QED BY <2>4, <2>5
<1> QED BY <1>5, <1>10, <1>11

(* The same after a step that leaves the tree, and gives nobody a number   *)
(* to read at that was not there.                                          *)
LEMMA BuriedSame ==
  ASSUME DeleteInv, UNCHANGED <<written, cut>>, \A n : InTree(n)' <=> InTree(n), \A seq \in Readable' : seq \in Readable
  PROVE  Buried'
<1>1. Entry' = Entry /\ \A n : KeyOf(n)' = KeyOf(n)
  BY DEF Entry, LastSequence, KeyOf
<1>2. \A n, seq : NewestOf(n, Entry, seq)' <=> NewestOf(n, Entry, seq)
  BY <1>1 DEF NewestOf
<1> QED BY <1>1, <1>2 DEF DeleteInv, Buried

(* The user keys of the levels, where these stay as they are; after a      *)
(* flush, which goes where none of its keys is; after a move, to a level   *)
(* where the table meets nothing; and after a compaction, which cuts some. *)
LEMMA SameUncut ==
  ASSUME StoreInv, SameFiles, SameKeys, UNCHANGED cut, NEW l \in Level, NEW f \in current[l], NEW g \in current[l]
  PROVE  ShareUncut(f, g)' <=> ShareUncut(f, g)
<1>1. f \in DOMAIN files /\ g \in DOMAIN files
  BY DEF StoreInv, CurrentOK
<1>2. files'[f] = files[f] /\ files'[g] = files[g]
  BY DEF SameFiles, AllFiles
<1>3. files[f] \subseteq Entry /\ files[g] \subseteq Entry
  BY <1>1 DEF StoreInv, TablesOK
<1> QED BY <1>2, <1>3 DEF ShareUncut, SameKeys

(* Where the levels stay as they are. *)
LEMMA KeysSame ==
  ASSUME StoreInv, DeleteInv, SameFiles, SameKeys, UNCHANGED <<current, cut>>
  PROVE  KeysApart'
BY SameUncut DEF DeleteInv, KeysApart

(* A flush below level 0 goes where none of its keys is.                   *)
LEMMA KeysFlush ==
  ASSUME StoreInv, Ages, DeleteInv, Flush
  PROVE  KeysApart'
<1>1. PICK new : new = nextFile
  OBVIOUS
<1>2. imm # None /\ Kept(AllFiles(current)) /\ UNCHANGED <<written, cut>>
  BY FlushStep DEF Flush
<1>3. PICK t \in Level : /\ t \in PickLevelForMemTableOutput(KeyOf(FirstEntry(imm)), KeyOf(LastEntry(imm)))
                         /\ current' = [current EXCEPT ![t] = @ \union {new}]
  BY <1>1, FlushStep
<1>4. SameFiles /\ SameKeys
  BY <1>2 DEF SameFiles, SameKeys, Kept, KeyOf
<1>5. \A l \in Level : \A f \in current'[l] : f \in current[l] \/ (f = new /\ l = t)
  BY <1>3 DEF StoreInv, CurrentOK
<1>6. t # 0 => \A f \in current[t] : ~Share(f, new)'
  <2> SUFFICES ASSUME t # 0, NEW f \in current[t] PROVE ~Share(f, new)'
    OBVIOUS
  <2>1. t > 0 /\ t <= t
    BY DEF Level
  <2>2. AllBelow(f) \/ AllAbove(f)
    BY <1>2, <1>3, <2>1, FlushIsClear
  <2> QED BY <1>1, <2>2, FlushedTable
<1>7. \A f, g : ShareUncut(f, g)' => Share(f, g)' /\ Share(g, f)'
  BY DEF Share, ShareUncut
<1> SUFFICES ASSUME NEW l \in Level \ {0}, NEW f \in current'[l], NEW g \in current'[l], f # g
             PROVE  ~ShareUncut(f, g)'
  BY DEF KeysApart
<1>8. CASE f \in current[l] /\ g \in current[l]
  BY <1>2, <1>4, <1>8, SameUncut DEF DeleteInv, KeysApart
<1>9. CASE f \in current[l] /\ g = new /\ l = t
  BY <1>6, <1>7, <1>9
<1>10. CASE g \in current[l] /\ f = new /\ l = t
  BY <1>6, <1>7, <1>10
<1> QED BY <1>5, <1>8, <1>9, <1>10

(* A moved table meets nothing where it goes.                              *)
LEMMA KeysMove ==
  ASSUME StoreInv, OrderInv, DeleteInv, NEW level \in 0 .. (NumLevels - 2), NEW in0, GoodPair(level, in0, {}),
         Lone(in0), Moved(level, in0), UNCHANGED <<written, files, cut>>
  PROVE  KeysApart'
<1>1. level \in Level /\ level + 1 \in Level /\ level # level + 1 /\ level + 1 # 0
  BY NextLevel
<1>2. current \in [Level -> SUBSET DOMAIN files] /\ in0 \subseteq current[level]
  BY DEF StoreInv, CurrentOK, GoodPair
<1>3. \A l \in Level : \A f \in current'[l] : f \in current[l] \/ (f \in in0 /\ l = level + 1)
  BY <1>1, <1>2 DEF Moved
<1>4. \A f, g : /\ ShareUncut(f, g)' <=> ShareUncut(f, g)
                /\ ShareUncut(f, g) => Share(f, g) /\ Share(g, f)
  BY DEF Share, ShareUncut, KeyOf
<1>5. ASSUME NEW f \in in0, NEW g \in current[level + 1]
      PROVE  ~Share(f, g)
  <2>1. Apart(level + 1)
    BY <1>1 DEF OrderInv, LevelsApart
  <2> QED BY <1>5, <2>1, BesideInputs DEF StoreInv
<1> SUFFICES ASSUME NEW l \in Level \ {0}, NEW f \in current'[l], NEW g \in current'[l], f # g
             PROVE  ~ShareUncut(f, g)
  BY <1>4 DEF KeysApart
<1>6. CASE f \in current[l] /\ g \in current[l]
  BY <1>6 DEF DeleteInv, KeysApart
<1>7. CASE f \in in0 /\ l = level + 1 /\ g \in current[l]
  BY <1>4, <1>5, <1>7
<1>8. CASE g \in in0 /\ l = level + 1 /\ f \in current[l]
  BY <1>4, <1>5, <1>8
<1>9. ~(f \in in0 /\ g \in in0)
  BY DEF Lone
<1> QED BY <1>3, <1>6, <1>7, <1>8, <1>9

(* The keys two outputs share were cut. *)
LEMMA KeysFinish ==
  ASSUME StoreInv, OrderInv, DeleteInv, FinishCompaction
  PROVE  KeysApart'
<1>1. /\ compaction # None /\ KeptEntries \subseteq InputEntries /\ InputEntries \subseteq Entry
      /\ cut \subseteq cut' /\ UNCHANGED written
  BY FinishStep
<1>2. PICK o : /\ OutputsOK(o) /\ \A f \in DOMAIN o : files'[f] = o[f]
               /\ \A l \in Level : current'[l] = After(l, o)
               /\ current' \in [Level -> SUBSET DOMAIN files']
               /\ \A f \in DOMAIN files' : f \in DOMAIN o \/ (f \in DOMAIN files /\ files'[f] = files[f])
               /\ OutputsCut(o, cut')
  BY FinishStep
<1>3. PICK level \in 0 .. (NumLevels - 2), in0 \in {compaction.in0}, in1 \in {compaction.in1},
        manual \in {compaction.manual} : level = compaction.level
  BY <1>1 DEF StoreInv, CompactionOK
<1>4. level \in Level /\ level + 1 \in Level /\ level # level + 1 /\ level + 1 # 0
  BY NextLevel
<1>5. Underway(level, in0, in1, manual)
  BY <1>1, <1>3 DEF OrderInv, CompactionUnderway
<1>6. in0 \subseteq current[level] /\ in1 \subseteq current[level + 1]
  BY <1>5 DEF Underway
<1>7. \A l \in Level : \A f \in current'[l] :
        \/ f \in DOMAIN o /\ l = level + 1 /\ files'[f] = o[f]
        \/ /\ f \in current[l] /\ f \notin DOMAIN o /\ files'[f] = files[f]
           /\ l = level + 1 => f \notin in1
  <2> SUFFICES ASSUME NEW l \in Level, NEW f \in current'[l]
               PROVE  \/ f \in DOMAIN o /\ l = level + 1 /\ files'[f] = o[f]
                      \/ /\ f \in current[l] /\ f \notin DOMAIN o /\ files'[f] = files[f]
                         /\ l = level + 1 => f \notin in1
    OBVIOUS
  <2>1. f \in After(l, o) /\ f \in DOMAIN files'
    BY <1>2
  <2>2. \/ f \in DOMAIN o /\ l = level + 1
        \/ f \in current[l] /\ (l = level + 1 => f \notin in1)
    BY <1>3, <1>4, <2>1 DEF After
  <2>3. f \in current[l] => f \notin DOMAIN o
    BY <1>2 DEF StoreInv, CurrentOK, OutputsOK
  <2> QED BY <1>2, <2>1, <2>2, <2>3
<1>8. \A f \in DOMAIN o : \A a \in o[f] : \E h \in in0 \union in1 : a \in files[h]
  <2>1. \A a \in InputEntries : \E h \in in0 \union in1 : a \in files[h]
    BY <1>3 DEF InputEntries, Entries
  <2> QED BY <1>1, <1>2, <2>1 DEF OutputsOK
<1>9. \A n : KeyOf(n)' = KeyOf(n)
  BY <1>1 DEF KeyOf
<1>10. ASSUME NEW x \in DOMAIN o, NEW y \in current[level + 1], y \notin in1
       PROVE  \A a \in o[x], b \in files[y] : KeyOf(a) # KeyOf(b) \/ KeyOf(a) \in cut
  <2> SUFFICES ASSUME NEW a \in o[x], NEW b \in files[y], KeyOf(a) = KeyOf(b), KeyOf(a) \notin cut
               PROVE  FALSE
    OBVIOUS
  <2>1. PICK h \in in0 \union in1 : a \in files[h]
    BY <1>8
  <2>2. Share(h, y) /\ ShareUncut(h, y)
    BY <2>1 DEF Share, ShareUncut
  <2>3. h \notin in0
    BY <1>5, <1>10, <2>2 DEF Underway
  <2>4. h \in in1 /\ h # y /\ h \in current[level + 1]
    BY <1>6, <1>10, <2>1, <2>3
  <2> QED BY <1>4, <2>2, <2>4 DEF DeleteInv, KeysApart
<1> SUFFICES ASSUME NEW l \in Level \ {0}, NEW f \in current'[l], NEW g \in current'[l], f # g,
                    NEW a \in files'[f], NEW b \in files'[g], KeyOf(a) = KeyOf(b), KeyOf(a) \notin cut'
             PROVE  FALSE
  BY <1>9 DEF KeysApart, ShareUncut
<1>11. KeyOf(a) \notin cut /\ KeyOf(b) \notin cut
  BY <1>1
<1>12. CASE f \in DOMAIN o /\ g \in DOMAIN o
  BY <1>2, <1>12 DEF OutputsCut
<1>13. CASE f \in DOMAIN o /\ g \notin DOMAIN o
  BY <1>7, <1>10, <1>11, <1>13
<1>14. CASE f \notin DOMAIN o /\ g \in DOMAIN o
  BY <1>7, <1>10, <1>11, <1>14
<1>15. CASE f \notin DOMAIN o /\ g \notin DOMAIN o
  <2>1. f \in current[l] /\ g \in current[l] /\ files'[f] = files[f] /\ files'[g] = files[g]
    BY <1>7, <1>15
  <2>2. ShareUncut(f, g)
    BY <1>11, <2>1 DEF ShareUncut
  <2> QED BY <2>1, <2>2 DEF DeleteInv, KeysApart
<1> QED BY <1>12, <1>13, <1>14, <1>15

(* The inputs of a compaction, where it goes on: each table that came to a *)
(* level since is newer.                                                   *)
LEMMA OldSame ==
  ASSUME StoreInv, OrderInv, DeleteInv, UNCHANGED compaction,
         compaction # None => Kept(AllFiles(current)),
         compaction # None =>
           \A l \in Level : \A g \in current'[l] : g \in current[l] \/ \A n \in InputEntries, m \in files'[g] : n < m
  PROVE  InputsAreOld'
<1> SUFFICES ASSUME compaction # None
             PROVE  \A l \in Level : l >= compaction.level + 2 =>
                      \A g \in current'[l] \ compaction.version[l] : \A n \in InputEntries', m \in files'[g] : n < m
  BY DEF InputsAreOld
<1>1. compaction.level \in Level /\ compaction.level + 1 \in Level
  BY NextLevel DEF StoreInv, CompactionOK
<1>2. compaction.in0 \subseteq current[compaction.level] /\ compaction.in1 \subseteq current[compaction.level + 1]
  BY DEF OrderInv, CompactionUnderway, Underway
<1>3. \A l \in Level : \A f \in current[l] : files'[f] = files[f]
  BY DEF Kept, AllFiles
<1>4. InputEntries' = InputEntries
  <2>1. \A f \in compaction.in0 \union compaction.in1 : files'[f] = files[f]
    BY <1>1, <1>2, <1>3
  <2> QED BY <2>1 DEF InputEntries, Entries
<1> QED BY <1>3, <1>4 DEF DeleteInv, InputsAreOld

(* A flush makes a table newer than the inputs.                            *)
LEMMA OldFlush ==
  ASSUME StoreInv, Ages, OrderInv, DeleteInv, Flush
  PROVE  InputsAreOld'
<1>1. PICK new : new = nextFile
  OBVIOUS
<1>2. imm # None /\ Kept(AllFiles(current)) /\ UNCHANGED compaction /\ files'[new] = imm
  BY <1>1, FlushStep DEF Flush
<1>3. PICK t \in Level : current' = [current EXCEPT ![t] = @ \union {new}]
  BY <1>1, FlushStep
<1>4. \A l \in Level : \A f \in current'[l] : f \in current[l] \/ f = new
  BY <1>3 DEF StoreInv, CurrentOK
<1>5. compaction # None => \A n \in InputEntries, m \in imm : n < m
  <2> SUFFICES ASSUME compaction # None, NEW n \in InputEntries PROVE \A m \in imm : n < m
    OBVIOUS
  <2>1. compaction.level \in Level /\ compaction.level + 1 \in Level
    BY NextLevel DEF StoreInv, CompactionOK
  <2>2. PICK f \in compaction.in0 \union compaction.in1 : n \in files[f]
    BY DEF InputEntries, Entries
  <2>3. f \in DOMAIN files
    BY <2>1, <2>2 DEF StoreInv, CompactionOK, Version
  <2> QED BY <1>2, <2>2, <2>3 DEF Ages
<1> QED BY <1>2, <1>4, <1>5, OldSame

(* A compaction that begins looks at the levels as they are.               *)
LEMMA OldBegin ==
  ASSUME NEW level, NEW pair, NEW manual, Begin(level, pair, manual), UNCHANGED current
  PROVE  InputsAreOld'
<1>1. compaction'.version = current'
  BY DEF Begin
<1> QED BY <1>1 DEF InputsAreOld

(* After a step that leaves the levels and what is in the tree.            *)
LEMMA DeleteStill ==
  ASSUME StoreInv, OrderInv, DeleteInv, UNCHANGED <<written, files, current, cut>>,
         \A n : InTree(n)' <=> InTree(n), \A seq \in Readable' : seq \in Readable,
         compaction' = compaction \/ \E level, pair, manual : Begin(level, pair, manual)
  PROVE  DeleteInv'
<1>1. SameFiles /\ SameKeys /\ Kept(AllFiles(current))
  BY DEF SameFiles, SameKeys, KeyOf, Kept, AllFiles, StoreInv, CurrentOK
<1>2. Buried' /\ KeysApart'
  BY <1>1, BuriedSame, KeysSame
<1>3. InputsAreOld'
  <2>1. CASE compaction' = compaction
    BY <1>1, <2>1, OldSame
  <2>2. CASE \E level, pair, manual : Begin(level, pair, manual)
    BY <2>2, OldBegin
  <2> QED BY <2>1, <2>2
<1> QED BY <1>2, <1>3 DEF DeleteInv

(* Where nothing is written and no snapshot taken or released, the numbers *)
(* to read at are the same.                                                *)
LEMMA SameReadable ==
  ASSUME UNCHANGED <<written, snapshots>>
  PROVE  Readable' = Readable
BY DEF Readable, LastSequence

(* After PickCompaction. *)
LEMMA DeletePick ==
  ASSUME StoreInv, OrderInv, DeleteInv, NEW level \in 0 .. (NumLevels - 2), NEW f \in current[level],
         PickCompaction(level, f)
  PROVE  DeleteInv'
<1>1. /\ imm = None /\ compaction = None /\ UNCHANGED <<written, mem, imm, files, nextFile, snapshots, iterators>>
      /\ LevelsApart
  BY PickIsGood DEF OrderInv
<1>2. (\A n : InTree(n)' <=> InTree(n)) /\ Readable' = Readable /\ UNCHANGED cut
  BY <1>1, TreePick, SameReadable DEF PickCompaction
<1>3. \/ \E in0 : /\ GoodPair(level, in0, {}) /\ Lone(in0)
                  /\ Moved(level, in0) /\ UNCHANGED compaction
      \/ \E pair : /\ GoodPair(level, pair[1], pair[2]) /\ Covered(pair[1] \union pair[2])
                   /\ Begin(level, pair, FALSE) /\ UNCHANGED current
  BY <1>1, PickIsGood
<1>4. ASSUME NEW in0, GoodPair(level, in0, {}), Lone(in0), Moved(level, in0), UNCHANGED compaction
      PROVE  DeleteInv'
  <2>1. KeysApart'
    BY <1>1, <1>2, <1>4, KeysMove
  <2>2. Buried'
    BY <1>1, <1>2, BuriedSame
  <2>3. InputsAreOld'
    BY <1>1, <1>4 DEF InputsAreOld
  <2> QED BY <2>1, <2>2, <2>3 DEF DeleteInv
<1>5. ASSUME NEW pair, Begin(level, pair, FALSE), UNCHANGED current
      PROVE  DeleteInv'
  BY <1>1, <1>2, <1>5, DeleteStill
<1> QED BY <1>3, <1>4, <1>5

(* Every step keeps it. *)
LEMMA DeleteStep ==
  ASSUME StoreInv, Ages, OrderInv, PresentInv, DeleteInv, [Next]_vars
  PROVE  DeleteInv'
<1>1. CASE Write
  <2>1. UNCHANGED <<files, current, compaction, cut>>
    BY <1>1 DEF Write
  <2>2. SameFiles /\ SameKeys /\ Kept(AllFiles(current))
    BY <1>1, <2>1, WriteStep DEF SameFiles, SameKeys, Kept, AllFiles, StoreInv, CurrentOK
  <2>3. Buried' /\ KeysApart' /\ InputsAreOld'
    BY <1>1, <2>1, <2>2, BuriedWrite, KeysSame, OldSame
  <2> QED BY <2>3 DEF DeleteInv
<1>2. CASE Flush
  <2>1. UNCHANGED <<written, snapshots, cut>>
    BY <1>2 DEF Flush
  <2>2. Readable' = Readable
    BY <2>1, SameReadable
  <2>3. Buried' /\ KeysApart' /\ InputsAreOld'
    BY <1>2, <2>1, <2>2, BuriedSame, TreeFlush, KeysFlush, OldFlush
  <2> QED BY <2>3 DEF DeleteInv
<1>3. CASE FinishCompaction
  <2>1. compaction' = None
    BY <1>3 DEF FinishCompaction
  <2>2. Buried' /\ KeysApart'
    BY <1>3, BuriedFinish, KeysFinish
  <2> QED BY <2>1, <2>2 DEF DeleteInv, InputsAreOld
<1>4. CASE Switch
  <2>1. UNCHANGED <<written, files, current, snapshots, cut>> /\ compaction' = compaction
    BY <1>4 DEF Switch
  <2>2. Readable' = Readable
    BY <2>1, SameReadable
  <2> QED BY <1>4, <2>1, <2>2, TreeSwitch, DeleteStill
<1>5. (\E level \in 0 .. (NumLevels - 2) : \E f \in current[level] : PickCompaction(level, f)) => DeleteInv'
  BY DeletePick
<1>6. ASSUME NEW level \in 0 .. (NumLevels - 2), NEW low \in Key, NEW high \in Key, CompactRange(level, low, high)
      PROVE  DeleteInv'
  <2>1. \E pair : Begin(level, pair, TRUE) /\ UNCHANGED <<written, mem, imm, files, current, snapshots>>
    BY <1>6, RangeStep
  <2>2. (\A n : InTree(n)' <=> InTree(n)) /\ Readable' = Readable
    BY <2>1, SameReadable DEF InTree
  <2>3. UNCHANGED cut
    BY <1>6 DEF CompactRange
  <2> QED BY <2>1, <2>2, <2>3, DeleteStill
<1>7. CASE GetSnapshot \/ \E i \in DOMAIN snapshots : ReleaseSnapshot(i)
  <2>1. UNCHANGED <<written, mem, imm, files, current, cut>> /\ compaction' = compaction
    BY <1>7 DEF GetSnapshot, ReleaseSnapshot
  <2>2. \A seq \in Readable' : seq \in Readable
    BY <1>7, SnapshotsKept
  <2>3. \A n : InTree(n)' <=> InTree(n)
    BY <2>1 DEF InTree
  <2> QED BY <2>1, <2>2, <2>3, DeleteStill
<1>8. CASE UNCHANGED <<written, mem, imm, files, current, snapshots, cut, compaction>>
  <2>1. (\A n : InTree(n)' <=> InTree(n)) /\ Readable' = Readable
    BY <1>8, SameReadable DEF InTree
  <2>2. compaction' = compaction
    BY <1>8
  <2> QED BY <1>8, <2>1, <2>2, DeleteStill
<1>9. NewIterator => UNCHANGED <<written, mem, imm, files, current, snapshots, cut, compaction>>
  BY DEF NewIterator
<1>10. (\E i \in DOMAIN iterators : CleanupIteratorState(i))
         => UNCHANGED <<written, mem, imm, files, current, snapshots, cut, compaction>>
  BY DEF CleanupIteratorState
<1>11. UNCHANGED vars => UNCHANGED <<written, mem, imm, files, current, snapshots, cut, compaction>>
  BY DEF vars
<1> QED BY <1>1, <1>2, <1>3, <1>4, <1>5, <1>6, <1>7, <1>8, <1>9, <1>10, <1>11 DEF Next

(* It holds at the beginning.                                              *)
LEMMA DeleteInit ==
  ASSUME Init
  PROVE  DeleteInv
<1>1. compaction = None /\ mem = {} /\ imm = None /\ \A l \in Level : current[l] = {}
  BY DEF Init
<1>2. \A n : ~InTree(n)
  BY <1>1 DEF InTree
<1> QED BY <1>1, <1>2 DEF DeleteInv, Buried, KeysApart, InputsAreOld

(* DB::Delete: a Get, at any number a reader may read at, of a key whose   *)
(* last write was a deletion, or that was never written, finds nothing,    *)
(* unless a compaction once left the key in two of its outputs, or a       *)
(* memtable is flushed in the middle of a manual compaction.               *)
THEOREM DeletionsHold ==
  ASSUME ManualQuiet
  PROVE  Spec => []DeletedStaysDeleted
<1> DEFINE I == StoreInv /\ Ages /\ OrderInv /\ PresentInv /\ DeleteInv
<1>1. Init => I
  BY StoreInit, OrderInit, PresentInit, DeleteInit
<1>2. I /\ [Next]_vars => I'
  BY StoreStep, AgesStep, OrderStep, PresentStep, DeleteStep
<1>3. I => DeletedStaysDeleted
  <2> SUFFICES ASSUME StoreInv, Ages, OrderInv, DeleteInv, NEW key \in Key \ cut, NEW seq \in Readable,
                      Answer(key, seq) = 0, Get(key, seq) # 0
               PROVE  FALSE
    BY DEF DeletedStaysDeleted
  <2>1. seq \in Nat /\ WrittenOK
    BY ReadableIs DEF StoreInv
  <2>2. PICK place \in Place : FindAt(place, key, seq) # 0
    BY DEF Get, Place
  <2>3. PICK n \in Entry : In(place, n) /\ KeyOf(n) = key /\ n <= seq
    BY <2>1, <2>2, FindIsIn DEF OrderInv
  <2>4. PICK m \in Entry : InTree(m) /\ KeyOf(m) = key /\ NewestOf(m, Entry, seq)
    BY <2>3, TreeIsPlaces DEF DeleteInv, Buried
  <2>5. Get(key, seq) = IF written[m].delete THEN 0 ELSE m
    BY <2>1, <2>4, FirstPlaceKnows
  <2>6. written[m].delete
    BY <2>1, <2>4, AnswerIsNot
  <2> QED BY <2>5, <2>6
<1> QED BY <1>1, <1>2, <1>3, PTL DEF Spec
=============================================================================
