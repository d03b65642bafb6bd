----------------------- MODULE LevelDBDurabilityProofs ------------------------
(***************************************************************************)
(* What leveldb keeps, in the two models that have no state in common: the *)
(* log's writer and reader (LevelDBLog), for any sizes of block, header and*)
(* record and any number of records and failures, and what the database    *)
(* promises its writers (DurableStore), which LevelDBWrites implements (the*)
(* property Promise of its run), so that it is said of DB::Write too.      *)
(***************************************************************************)
EXTENDS LevelDBLog, DurableStore, SequenceTheorems, TLAPS

(* The log: its types, that no physical record is longer than a block, and *)
(* that the writer knows where in the file it is as long as no append has  *)
(* failed.                                                                 *)

Status == {"adding", "added", "failed"}
PhysicalRecord == [record : Nat, length : Nat, type : {"full", "first", "middle", "last"}]

(* The bytes of the first n physical records, and zeros. *)
ByteOf(n) == (0 .. n) \X Nat

(* The blocks before the writer's are whole: the file and block_offset_    *)
(* agree on where in a block the next byte goes.                           *)
Aligned ==
  phase = "write" /\ failures = 0 =>
    \E b \in Nat : Len(file) = b * BlockSize + block_offset

WriterOK ==
  /\ block_offset \in 0 .. BlockSize /\ left \in Nat /\ begin \in BOOLEAN
  /\ records \in Seq(Status) /\ frags \in Seq(PhysicalRecord)
  /\ \A i \in 1 .. Len(frags) :
       frags[i].record \in 1 .. Len(records) /\ frags[i].length <= BlockSize - HeaderSize
  /\ failures \in 0 .. MaxFailures /\ phase \in {"write", "read", "done"}

FileOK ==
  /\ file \in Seq(ByteOf(Len(frags))) /\ buffer \in Seq(ByteOf(Len(frags)))
  /\ position \in 0 .. Len(file) /\ Len(buffer) <= BlockSize
  /\ phase = "write" => position = 0 /\ buffer = <<>>

CollectOK ==
  /\ eof \in BOOLEAN /\ in_fragmented_record \in BOOLEAN /\ reported \in BOOLEAN
  /\ scratch \in Seq(Nat)
  /\ in_fragmented_record <=> scratch # <<>>

IInv == WriterOK /\ FileOK /\ CollectOK /\ Aligned

-------------------------------------------------------------------------------
(* Sequences of bytes. *)

LEMMA ByteSubSeq ==
  ASSUME NEW n \in Nat, NEW s \in Seq(ByteOf(n)), NEW k \in Nat, NEW l \in Nat,
         k <= l, l <= Len(s)
  PROVE  SubSeq(s, k + 1, l) \in Seq(ByteOf(n)) /\ Len(SubSeq(s, k + 1, l)) = l - k
<1>1. \A i \in k + 1 .. l : s[i] \in ByteOf(n)
  OBVIOUS
<1> DEFINE B == ByteOf(n)
<1> HIDE DEF B
<1>2. \A i \in k + 1 .. l : s[i] \in B
  BY <1>1 DEF B
<1>3. SubSeq(s, k + 1, l) \in Seq(B) /\ Len(SubSeq(s, k + 1, l)) = IF k + 1 <= l THEN l - (k + 1) + 1 ELSE 0
  BY <1>2, SubSeqProperties
<1> QED BY <1>3 DEF B

LEMMA ByteConcat ==
  ASSUME NEW n \in Nat, NEW s \in Seq(ByteOf(n)), NEW t \in Seq(ByteOf(n + 1))
  PROVE  s \o t \in Seq(ByteOf(n + 1)) /\ Len(s \o t) = Len(s) + Len(t)
<1> DEFINE B == ByteOf(n + 1)
<1>1. ByteOf(n) \subseteq B
  BY DEF ByteOf
<1>2. t \in Seq(B)
  OBVIOUS
<1>3. s \in Seq(B)
  <2>1. \A i \in 1 .. Len(s) : s[i] \in ByteOf(n)
    OBVIOUS
  <2>2. \A i \in 1 .. Len(s) : s[i] \in B
    BY <2>1, <1>1
  <2>3. s = [i \in 1 .. Len(s) |-> s[i]] /\ Len(s) \in Nat
    OBVIOUS
  <2> HIDE DEF B
  <2> QED BY <2>2, <2>3
<1> HIDE DEF B
<1>4. s \o t \in Seq(B) /\ Len(s \o t) = Len(s) + Len(t)
  BY <1>2, <1>3
<1> QED BY <1>4 DEF B

LEMMA InvImpliesTypeOK == IInv => TypeOK
<1> SUFFICES ASSUME WriterOK, FileOK, CollectOK PROVE TypeOK
  BY DEF IInv
<1>1. /\ block_offset \in 0 .. BlockSize /\ left \in Nat /\ begin \in BOOLEAN
      /\ failures \in 0 .. MaxFailures /\ phase \in {"write", "read", "done"}
  BY DEF WriterOK
<1>2. \A i \in DOMAIN records : records[i] \in Status
  BY DEF WriterOK
<1>3. \A i \in DOMAIN frags :
        frags[i].record \in DOMAIN records /\ frags[i].length \in 0 .. (BlockSize - HeaderSize)
  <2>1. DOMAIN records = 1 .. Len(records) /\ DOMAIN frags = 1 .. Len(frags)
    BY DEF WriterOK
  <2>2. ASSUME NEW i \in 1 .. Len(frags)
        PROVE  frags[i].record \in 1 .. Len(records) /\ frags[i].length \in 0 .. (BlockSize - HeaderSize)
    <3>1. frags[i] \in PhysicalRecord
      BY <2>1 DEF WriterOK
    <3>2. frags[i].length \in Nat /\ frags[i].length <= BlockSize - HeaderSize
      BY <3>1 DEF PhysicalRecord, WriterOK
    <3> QED BY <3>2, LogAssumption DEF WriterOK
  <2> QED BY <2>1, <2>2
<1>4. position \in 0 .. Len(file) /\ Len(buffer) <= BlockSize
  BY DEF FileOK
<1>5. {eof, in_fragmented_record, reported} \subseteq BOOLEAN /\ (in_fragmented_record <=> scratch # <<>>)
  BY DEF CollectOK
<1> QED BY <1>1, <1>2, <1>3, <1>4, <1>5 DEF TypeOK, Status

-------------------------------------------------------------------------------
LEMMA InitIInv == Init => IInv
<1> SUFFICES ASSUME Init PROVE IInv
  OBVIOUS
<1> USE LogAssumption DEF Init
<1>1. file = <<>> /\ Len(file) = 0 /\ Len(buffer) = 0 /\ Len(frags) = 0 /\ Len(records) = 0
  OBVIOUS
<1>2. WriterOK
  BY <1>1 DEF WriterOK
<1>3. FileOK
  BY <1>1 DEF FileOK
<1>4. CollectOK
  <2>1. eof = FALSE /\ in_fragmented_record = FALSE /\ reported = FALSE /\ scratch = <<>>
    OBVIOUS
  <2>2. scratch \in Seq(Nat)
    BY <2>1, EmptySeq
  <2> QED BY <2>1, <2>2, Zenon DEF CollectOK
<1>5. Aligned
  <2>1. Len(file) = 0 * BlockSize + block_offset
    BY <1>1
  <2> QED BY <2>1 DEF Aligned
<1> QED BY <1>2, <1>3, <1>4, <1>5 DEF IInv

(* One turn of AddRecord's loop, whether the file takes its bytes or not.  *)
LEMMA EmitFacts ==
  ASSUME IInv, Adding, NEW status \in {"ok", "failed"}, Emit(status)
  PROVE  /\ block_offset' \in 0 .. BlockSize /\ left' \in Nat /\ begin' \in BOOLEAN
         /\ records' \in Seq(Status) /\ frags' \in Seq(PhysicalRecord)
         /\ Len(frags') = Len(frags) + 1 /\ Len(frags) \in Nat
         /\ \A i \in 1 .. Len(frags') :
              frags'[i].record \in 1 .. Len(records') /\ frags'[i].length <= BlockSize - HeaderSize
         /\ Fragment.length \in Nat /\ Start \in 0 .. BlockSize
         /\ block_offset' = Start + HeaderSize + Fragment.length
<1>1. /\ block_offset \in 0 .. BlockSize /\ left \in Nat
      /\ records \in Seq(Status) /\ frags \in Seq(PhysicalRecord) /\ records # <<>>
  BY DEF IInv, WriterOK, Adding
<1>2. BlockSize \in Nat /\ HeaderSize \in Nat /\ HeaderSize < BlockSize /\ 0 < HeaderSize
  BY LogAssumption
<1>3. Start \in 0 .. BlockSize /\ Start + HeaderSize <= BlockSize
  BY <1>1, <1>2 DEF Start, Leftover
<1>4. /\ Fragment.record = Len(records)
      /\ Fragment.length = IF left < BlockSize - Start - HeaderSize THEN left ELSE BlockSize - Start - HeaderSize
      /\ Fragment.type \in {"full", "first", "middle", "last"}
  BY DEF Fragment
<1>5. Fragment.length \in Nat /\ Fragment.length <= left /\ Start + HeaderSize + Fragment.length <= BlockSize
  BY <1>1, <1>2, <1>3, <1>4
<1>6. Len(records) \in Nat /\ Len(records) \in 1 .. Len(records)
  BY <1>1
<1>7. Fragment \in PhysicalRecord
  BY <1>4, <1>5, <1>6 DEF PhysicalRecord, Fragment
<1>8. /\ frags' = Append(frags, Fragment)
      /\ block_offset' = Start + HeaderSize + Fragment.length
      /\ left' = left - Fragment.length /\ begin' = FALSE
      /\ \E st \in Status : records' = [records EXCEPT ![Len(records)] = st]
  BY DEF Emit, Status
<1>9. records' \in Seq(Status) /\ Len(records') = Len(records)
  BY <1>1, <1>6, <1>8
<1> HIDE DEF PhysicalRecord
<1>10. /\ frags' \in Seq(PhysicalRecord) /\ Len(frags') = Len(frags) + 1 /\ Len(frags) \in Nat
       /\ frags'[Len(frags) + 1] = Fragment
       /\ \A i \in 1 .. Len(frags) : frags'[i] = frags[i]
  BY <1>1, <1>7, <1>8
<1>11. ASSUME NEW i \in 1 .. Len(frags')
       PROVE  frags'[i].record \in 1 .. Len(records') /\ frags'[i].length <= BlockSize - HeaderSize
  <2>1. CASE i = Len(frags) + 1
    BY <2>1, <1>2, <1>3, <1>4, <1>5, <1>6, <1>9, <1>10
  <2>2. CASE i # Len(frags) + 1
    <3>1. i \in 1 .. Len(frags) /\ frags'[i] = frags[i]
      BY <2>2, <1>10
    <3> QED BY <3>1, <1>9 DEF IInv, WriterOK
  <2> QED BY <2>1, <2>2
<1>12. begin' \in BOOLEAN
  BY <1>8, Zenon
<1>13. block_offset' \in 0 .. BlockSize /\ left' \in Nat
  <2>1. block_offset' = Start + HeaderSize + Fragment.length /\ left' = left - Fragment.length
    BY <1>8
  <2>2. block_offset' \in 0 .. BlockSize
    BY <2>1, <1>2, <1>3, <1>5
  <2>3. left' \in Nat
    BY <2>1, <1>1, <1>5
  <2> QED BY <2>2, <2>3
<1> QED BY <1>3, <1>5, <1>8, <1>9, <1>10, <1>11, <1>12, <1>13

(* The bytes that turn gives to the file. *)
LEMMA EmissionFacts ==
  ASSUME IInv, Fragment.length \in Nat
  PROVE  /\ Emission(Trailer) \in Seq(ByteOf(Len(frags) + 1))
         /\ Len(Emission(Trailer)) =
              (IF Leftover < HeaderSize THEN Leftover ELSE 0) + HeaderSize + Fragment.length
<1> DEFINE n == Len(frags)
           size == HeaderSize + Fragment.length
           body == [k \in 1 .. size |-> <<n + 1, k>>]
<1>1. n \in Nat /\ block_offset \in 0 .. BlockSize /\ BlockSize \in Nat /\ HeaderSize \in Nat
  BY LogAssumption DEF IInv, WriterOK
<1>2. size \in Nat /\ Leftover \in Nat
  BY <1>1 DEF Leftover
<1> HIDE DEF n, size
<1>3. \A k \in 1 .. size : <<n + 1, k>> \in ByteOf(n + 1)
  BY <1>1, <1>2 DEF ByteOf
<1>4. body \in Seq(ByteOf(n + 1)) /\ Len(body) = size
  <2> DEFINE B == ByteOf(n + 1)
  <2>1. \A k \in 1 .. size : <<n + 1, k>> \in B
    BY <1>3
  <2> HIDE DEF B
  <2>2. body \in Seq(B) /\ Len(body) = size
    BY <2>1, <1>2
  <2> QED BY <2>2 DEF B
<1>5. Trailer \in Seq(ByteOf(n)) /\ Len(Trailer) = IF Leftover < HeaderSize THEN Leftover ELSE 0
  <2> DEFINE B == ByteOf(n)
  <2>1. Zero \in B
    BY <1>1 DEF ByteOf, Zero
  <2> HIDE DEF B
  <2>2. Zeros(Leftover) \in Seq(B) /\ Len(Zeros(Leftover)) = Leftover
    BY <2>1, <1>2 DEF Zeros
  <2>3. Trailer \in Seq(B) /\ Len(Trailer) = IF Leftover < HeaderSize THEN Leftover ELSE 0
    BY <2>2 DEF Trailer
  <2> QED BY <2>3 DEF B
<1>6. Emission(Trailer) = Trailer \o body
  BY DEF Emission, n, size
<1> HIDE DEF body
<1>7. Trailer \o body \in Seq(ByteOf(n + 1)) /\ Len(Trailer \o body) = Len(Trailer) + Len(body)
  BY <1>1, <1>4, <1>5, ByteConcat
<1> QED BY <1>1, <1>2, <1>4, <1>5, <1>6, <1>7 DEF n, size

-------------------------------------------------------------------------------
(* The writer. *)

LEMMA AddRecordIInv ==
  ASSUME IInv, NEW size \in RecordSize, AddRecord(size)
  PROVE  IInv'
<1>1. /\ records \in Seq(Status) /\ records' = Append(records, "adding")
      /\ left' = size /\ begin' = TRUE
      /\ UNCHANGED <<file, block_offset, frags, failures, phase, reader>>
  BY DEF IInv, WriterOK, AddRecord
<1>2. records' \in Seq(Status) /\ Len(records') = Len(records) + 1 /\ Len(records) \in Nat
  BY <1>1 DEF Status
<1>3. \A i \in 1 .. Len(frags') :
        frags'[i].record \in 1 .. Len(records') /\ frags'[i].length <= BlockSize - HeaderSize
  BY <1>1, <1>2 DEF IInv, WriterOK
<1>4. left' \in Nat /\ begin' \in BOOLEAN
  BY <1>1, LogAssumption
<1>5. WriterOK'
  <2>1. /\ block_offset' \in 0 .. BlockSize /\ frags' \in Seq(PhysicalRecord)
        /\ failures' \in 0 .. MaxFailures /\ phase' \in {"write", "read", "done"}
    BY <1>1 DEF IInv, WriterOK
  <2> QED BY <2>1, <1>2, <1>3, <1>4, Zenon DEF WriterOK
<1>6. FileOK' /\ CollectOK' /\ Aligned'
  BY <1>1 DEF IInv, FileOK, CollectOK, Aligned, reader
<1> QED BY <1>5, <1>6 DEF IInv

(* The two ways a turn of the loop ends: the file has all the bytes of it, *)
(* or the append has failed and it has some.                               *)
LEMMA EmitIInv ==
  ASSUME IInv, phase = "write", Adding, NEW status \in {"ok", "failed"}, Emit(status),
         NEW n \in 0 .. Len(Emission(Trailer)),
         file' = file \o SubSeq(Emission(Trailer), 1, n),
         UNCHANGED <<phase, reader>>,
         failures' \in 0 .. MaxFailures,
         failures' = 0 => failures = 0 /\ n = Len(Emission(Trailer))
  PROVE  IInv'
<1> DEFINE tail == SubSeq(Emission(Trailer), 1, n)
           turn == (IF Leftover < HeaderSize THEN Leftover ELSE 0) + HeaderSize + Fragment.length
<1>1. /\ Len(frags') = Len(frags) + 1 /\ Len(frags) \in Nat
      /\ Fragment.length \in Nat /\ block_offset' = Start + HeaderSize + Fragment.length
  BY EmitFacts
<1>2. WriterOK'
  BY EmitFacts DEF WriterOK
<1>3. /\ Emission(Trailer) \in Seq(ByteOf(Len(frags) + 1)) /\ Len(Emission(Trailer)) = turn
  BY <1>1, EmissionFacts
<1>4. tail \in Seq(ByteOf(Len(frags) + 1)) /\ Len(tail) = n /\ n \in Nat
  <2>1. n \in Nat /\ n <= Len(Emission(Trailer)) /\ Len(frags) + 1 \in Nat
    BY <1>1, <1>3
  <2>2. SubSeq(Emission(Trailer), 0 + 1, n) \in Seq(ByteOf(Len(frags) + 1))
        /\ Len(SubSeq(Emission(Trailer), 0 + 1, n)) = n - 0
    BY <2>1, <1>3, ByteSubSeq
  <2> QED BY <2>1, <2>2
<1> HIDE DEF tail, turn
<1>5. file \in Seq(ByteOf(Len(frags))) /\ file' = file \o tail
  BY DEF IInv, FileOK, tail
<1>6. file' \in Seq(ByteOf(Len(frags'))) /\ Len(file') = Len(file) + Len(tail)
  BY <1>1, <1>4, <1>5, ByteConcat
<1>7. FileOK'
  <2>1. position' = 0 /\ buffer' = <<>> /\ phase' = "write"
    BY DEF IInv, FileOK, reader
  <2>2. Len(file') \in Nat
    BY <1>6
  <2>3. buffer' \in Seq(ByteOf(Len(frags'))) /\ Len(buffer') <= BlockSize
    BY <2>1, EmptySeq, LogAssumption
  <2> QED BY <1>6, <2>1, <2>2, <2>3 DEF FileOK
<1>8. CollectOK'
  BY DEF IInv, CollectOK, reader
<1>9. Aligned'
  <2>1. SUFFICES ASSUME failures' = 0
                 PROVE  \E b \in Nat : Len(file') = b * BlockSize + block_offset'
    BY DEF Aligned
  <2>2. PICK b \in Nat : Len(file) = b * BlockSize + block_offset
    BY <2>1 DEF IInv, Aligned
  <2>3. Len(file') = Len(file) + turn
    BY <2>1, <1>3, <1>4, <1>6
  <2>4. /\ BlockSize \in Nat /\ HeaderSize \in Nat /\ block_offset \in Nat
        /\ Leftover = BlockSize - block_offset /\ Start = IF Leftover < HeaderSize THEN 0 ELSE block_offset
    BY LogAssumption DEF IInv, WriterOK, Leftover, Start
  <2>5. CASE Leftover < HeaderSize
    <3>1. Len(file') = b * BlockSize + BlockSize + block_offset'
      BY <2>2, <2>3, <2>4, <2>5, <1>1 DEF turn
    <3>2. (b + 1) * BlockSize = b * BlockSize + BlockSize
      BY <2>4
    <3> QED BY <3>1, <3>2
  <2>6. CASE ~(Leftover < HeaderSize)
    <3>1. Len(file') = b * BlockSize + block_offset'
      BY <2>2, <2>3, <2>4, <2>6, <1>1 DEF turn
    <3> QED BY <3>1
  <2> QED BY <2>5, <2>6
<1> QED BY <1>2, <1>7, <1>8, <1>9 DEF IInv

LEMMA EmitPhysicalRecordIInv ==
  ASSUME IInv, EmitPhysicalRecord
  PROVE  IInv'
<1>1. /\ phase = "write" /\ Adding /\ Emit("ok") /\ file' = file \o Emission(Trailer)
      /\ UNCHANGED <<phase, reader>> /\ failures' = failures
  BY DEF EmitPhysicalRecord
<1> DEFINE n == Len(Emission(Trailer))
<1>2. Fragment.length \in Nat /\ Len(frags) \in Nat
  BY <1>1, EmitFacts
<1>3. Emission(Trailer) \in Seq(ByteOf(Len(frags) + 1))
  BY <1>2, EmissionFacts
<1>4. n \in 0 .. n /\ SubSeq(Emission(Trailer), 1, n) = Emission(Trailer)
  <2> DEFINE B == ByteOf(Len(frags) + 1)
             e == Emission(Trailer)
  <2>1. e \in Seq(B)
    BY <1>3
  <2> HIDE DEF B, e
  <2>2. Len(e) \in Nat /\ SubSeq(e, 1, Len(e)) = e
    BY <2>1, SubSeqFull
  <2> QED BY <2>2 DEF e
<1>5. failures' \in 0 .. MaxFailures
  BY <1>1 DEF IInv, WriterOK
<1> HIDE DEF n
<1> QED BY <1>1, <1>4, <1>5, EmitIInv DEF n

LEMMA EmitPhysicalRecordFailsIInv ==
  ASSUME IInv, EmitPhysicalRecordFails
  PROVE  IInv'
<1>1. /\ phase = "write" /\ Adding /\ Emit("failed") /\ failures < MaxFailures
      /\ UNCHANGED <<phase, reader>> /\ failures' = failures + 1
  BY DEF EmitPhysicalRecordFails
<1>2. PICK n \in 0 .. (Len(Emission(Trailer)) - 1) : file' = file \o SubSeq(Emission(Trailer), 1, n)
  BY DEF EmitPhysicalRecordFails
<1>3. n \in 0 .. Len(Emission(Trailer))
  <2>1. Fragment.length \in Nat /\ Len(frags) \in Nat
    BY <1>1, EmitFacts
  <2>2. Len(Emission(Trailer)) \in Nat
    BY <2>1, EmissionFacts
  <2> QED BY <1>2, <2>2
<1>4. failures' \in 0 .. MaxFailures /\ failures' # 0
  BY <1>1, LogAssumption DEF IInv, WriterOK
<1> QED BY <1>1, <1>2, <1>3, <1>4, EmitIInv

LEMMA StopIInv ==
  ASSUME IInv, Stop
  PROVE  IInv'
<1>1. /\ phase = "write" /\ phase' = "read" /\ UNCHANGED <<writer, failures, reader>>
  BY DEF Stop
<1>2. PICK n \in 0 .. Len(file) : file' = SubSeq(file, 1, n)
  BY DEF Stop
<1>3. file \in Seq(ByteOf(Len(frags))) /\ Len(frags) \in Nat
  BY DEF IInv, FileOK, WriterOK
<1>4. file' \in Seq(ByteOf(Len(frags))) /\ Len(file') = n /\ n \in Nat
  <2>1. n \in Nat /\ n <= Len(file)
    BY <1>2, <1>3
  <2>2. SubSeq(file, 0 + 1, n) \in Seq(ByteOf(Len(frags))) /\ Len(SubSeq(file, 0 + 1, n)) = n - 0
    BY <2>1, <1>3, ByteSubSeq
  <2> QED BY <2>1, <2>2, <1>2
<1>5. WriterOK' /\ CollectOK' /\ Aligned'
  BY <1>1 DEF IInv, WriterOK, CollectOK, Aligned, writer, reader
<1>6. FileOK'
  <2>1. /\ position' = 0 /\ buffer' = buffer /\ frags' = frags
        /\ buffer \in Seq(ByteOf(Len(frags))) /\ Len(buffer) <= BlockSize
    BY <1>1 DEF IInv, FileOK, reader, writer
  <2> QED BY <2>1, <1>1, <1>4 DEF FileOK
<1> QED BY <1>5, <1>6 DEF IInv

-------------------------------------------------------------------------------
(* The reader. *)

(* A reader that keeps to its buffer leaves the rest as it is.             *)
LEMMA ReadIInv ==
  ASSUME IInv, phase = "read", phase' \in {"read", "done"},
         UNCHANGED <<file, writer>>, failures' \in 0 .. MaxFailures,
         position' \in 0 .. Len(file),
         buffer' \in Seq(ByteOf(Len(frags))), Len(buffer') <= BlockSize,
         CollectOK'
  PROVE  IInv'
<1>1. WriterOK'
  BY DEF IInv, WriterOK, writer
<1>2. FileOK' /\ Aligned'
  BY DEF IInv, FileOK, Aligned, writer
<1> QED BY <1>1, <1>2 DEF IInv

LEMMA ReadBlockIInv ==
  ASSUME IInv, ReadBlock
  PROVE  IInv'
<1> DEFINE n == IF Len(file) - position < BlockSize THEN Len(file) - position ELSE BlockSize
<1>1. /\ phase = "read" /\ buffer' = Take(n) /\ position' = position + n /\ eof' = (n < BlockSize)
      /\ UNCHANGED <<file, writer, failures, phase, in_fragmented_record, scratch, read, reported>>
  BY DEF ReadBlock
<1>2. /\ file \in Seq(ByteOf(Len(frags))) /\ Len(frags) \in Nat
      /\ position \in 0 .. Len(file) /\ Len(file) \in Nat /\ BlockSize \in Nat
  BY LogAssumption DEF IInv, FileOK, WriterOK
<1>3. n \in Nat /\ n <= BlockSize /\ position + n <= Len(file)
  BY <1>2
<1> HIDE DEF n
<1>4. buffer' \in Seq(ByteOf(Len(frags))) /\ Len(buffer') = n
  <2>1. position \in Nat /\ position + n \in Nat /\ position <= position + n
    BY <1>2, <1>3
  <2>2. /\ SubSeq(file, position + 1, position + n) \in Seq(ByteOf(Len(frags)))
        /\ Len(SubSeq(file, position + 1, position + n)) = (position + n) - position
    BY <2>1, <1>2, <1>3, ByteSubSeq
  <2> QED BY <2>1, <2>2, <1>1, <1>3 DEF Take
<1>5. CollectOK'
  <2>1. eof' \in BOOLEAN
    <3>1. eof' = (n < BlockSize)
      BY <1>1
    <3>2. CASE n < BlockSize
      BY <3>1, <3>2
    <3>3. CASE ~(n < BlockSize)
      BY <3>1, <3>3
    <3> QED BY <3>2, <3>3
  <2> QED BY <2>1, <1>1 DEF IInv, CollectOK
<1>6. position' \in 0 .. Len(file)
  BY <1>1, <1>2, <1>3
<1>7. failures' \in 0 .. MaxFailures /\ phase' \in {"read", "done"} /\ UNCHANGED <<file, writer>>
  BY <1>1 DEF IInv, WriterOK
<1> QED BY <1>1, <1>3, <1>4, <1>5, <1>6, <1>7, ReadIInv

LEMMA ReadBlockFailsIInv ==
  ASSUME IInv, ReadBlockFails
  PROVE  IInv'
<1>1. /\ phase = "read" /\ failures < MaxFailures /\ failures' = failures + 1 /\ reported' = TRUE
      /\ buffer' = <<>> /\ eof' = TRUE /\ phase' = "done"
      /\ in_fragmented_record' = FALSE /\ scratch' = <<>>
      /\ UNCHANGED <<file, writer, position, read>>
  BY DEF ReadBlockFails
<1>2. failures' \in 0 .. MaxFailures
  BY <1>1, LogAssumption DEF IInv, WriterOK
<1>3. buffer' \in Seq(ByteOf(Len(frags))) /\ Len(buffer') <= BlockSize
  BY <1>1, EmptySeq, LogAssumption
<1>4. CollectOK'
  <2>1. scratch' \in Seq(Nat)
    BY <1>1, EmptySeq
  <2> QED BY <2>1, <1>1, Zenon DEF CollectOK
<1>5. position' \in 0 .. Len(file)
  BY <1>1 DEF IInv, FileOK
<1> QED BY <1>1, <1>2, <1>3, <1>4, <1>5, ReadIInv

LEMMA AtEofIInv ==
  ASSUME IInv, phase = "read", AtEof
  PROVE  IInv'
<1>1. /\ buffer' = <<>> /\ phase' = "done" /\ in_fragmented_record' = FALSE /\ scratch' = <<>>
      /\ UNCHANGED <<file, writer, failures, position, eof, read, reported>>
  BY DEF AtEof
<1>2. buffer' \in Seq(ByteOf(Len(frags))) /\ Len(buffer') <= BlockSize
  BY <1>1, EmptySeq, LogAssumption
<1>3. CollectOK'
  <2>1. scratch' \in Seq(Nat) /\ eof' \in BOOLEAN /\ reported' \in BOOLEAN
    BY <1>1, EmptySeq DEF IInv, CollectOK
  <2> QED BY <2>1, <1>1, Zenon DEF CollectOK
<1>4. position' \in 0 .. Len(file) /\ failures' \in 0 .. MaxFailures
  BY <1>1 DEF IInv, FileOK, WriterOK
<1> QED BY <1>1, <1>2, <1>3, <1>4, ReadIInv

LEMMA BadRecordIInv ==
  ASSUME IInv, phase = "read", NEW said \in BOOLEAN, BadRecord(said)
  PROVE  IInv'
<1>1. /\ buffer' = <<>> /\ reported' = (reported \/ said \/ in_fragmented_record)
      /\ in_fragmented_record' = FALSE /\ scratch' = <<>>
      /\ UNCHANGED <<file, writer, failures, phase, position, eof, read>>
  BY DEF BadRecord
<1>2. buffer' \in Seq(ByteOf(Len(frags))) /\ Len(buffer') <= BlockSize
  BY <1>1, EmptySeq, LogAssumption
<1>3. CollectOK'
  <2>1. scratch' \in Seq(Nat) /\ eof' \in BOOLEAN
    BY <1>1, EmptySeq DEF IInv, CollectOK
  <2>2. reported' \in BOOLEAN
    BY <1>1, Zenon
  <2> QED BY <2>1, <2>2, <1>1, Zenon DEF CollectOK
<1>4. position' \in 0 .. Len(file) /\ failures' \in 0 .. MaxFailures
  BY <1>1 DEF IInv, FileOK, WriterOK
<1> QED BY <1>1, <1>2, <1>3, <1>4, ReadIInv

LEMMA ReadBadIInv ==
  ASSUME IInv, ReadBad
  PROVE  IInv'
<1>1. phase = "read" /\ (BadRecord(TRUE) \/ BadRecord(FALSE) \/ AtEof)
  BY Zenon DEF ReadBad
<1> QED BY <1>1, AtEofIInv, BadRecordIInv

(* ReadRecord's fragments: some, as long as it is in a record.             *)
LEMMA CollectFacts ==
  ASSUME CollectOK, NEW i \in Nat, Collect(i), UNCHANGED eof
  PROVE  CollectOK'
<1>0. eof' \in BOOLEAN
  BY DEF CollectOK
<1>1. reported' \in BOOLEAN
  BY Zenon DEF Collect, CollectOK
<1>2. CASE in_fragmented_record' = FALSE /\ scratch' = <<>>
  <2>1. scratch' \in Seq(Nat)
    BY <1>2, EmptySeq
  <2> QED BY <2>1, <1>0, <1>1, <1>2, Zenon DEF CollectOK
<1>3. CASE in_fragmented_record' = TRUE /\ scratch' = <<i>>
  <2>1. scratch' \in Seq(Nat) /\ scratch' # <<>>
    BY <1>3
  <2> QED BY <2>1, <1>0, <1>1, <1>3, Zenon DEF CollectOK
<1>4. CASE UNCHANGED <<in_fragmented_record, scratch>>
  BY <1>0, <1>1, <1>4 DEF CollectOK
<1>5. CASE in_fragmented_record /\ scratch' = Append(scratch, i) /\ UNCHANGED in_fragmented_record
  <2>1. scratch' \in Seq(Nat) /\ scratch' # <<>>
    BY <1>5 DEF CollectOK
  <2> QED BY <2>1, <1>0, <1>1, <1>5, Zenon DEF CollectOK
<1> QED BY <1>2, <1>3, <1>4, <1>5, Zenon DEF Collect

LEMMA ReadPhysicalRecordIInv ==
  ASSUME IInv, ReadPhysicalRecord
  PROVE  IInv'
<1> DEFINE i == Head(buffer)[1]
           size == HeaderSize + frags[i].length
<1>1. /\ phase = "read" /\ Len(buffer) >= HeaderSize /\ i # 0 /\ size <= Len(buffer)
      /\ buffer' = SubSeq(buffer, size + 1, Len(buffer)) /\ Collect(i)
      /\ UNCHANGED <<file, writer, failures, phase, position, eof>>
  BY DEF ReadPhysicalRecord, Untorn
<1>2. /\ buffer \in Seq(ByteOf(Len(frags))) /\ Len(frags) \in Nat /\ Len(buffer) <= BlockSize
      /\ HeaderSize \in Nat /\ BlockSize \in Nat /\ 0 < HeaderSize
  BY LogAssumption DEF IInv, FileOK, WriterOK
<1>3. i \in 1 .. Len(frags)
  <2> DEFINE B == ByteOf(Len(frags))
  <2>1. buffer \in Seq(B)
    BY <1>2
  <2> HIDE DEF B
  <2>2. Head(buffer) \in B
    BY <2>1, <1>1, <1>2
  <2>3. i \in 0 .. Len(frags)
    BY <2>2 DEF B, ByteOf
  <2> QED BY <2>3, <1>1
<1>4. size \in Nat
  <2>1. frags[i] \in PhysicalRecord
    BY <1>3 DEF IInv, WriterOK
  <2> QED BY <2>1, <1>2 DEF PhysicalRecord
<1> HIDE DEF i, size
<1>5. buffer' \in Seq(ByteOf(Len(frags))) /\ Len(buffer') <= BlockSize
  <2>1. Len(buffer) \in Nat
    BY <1>2
  <2>2. /\ SubSeq(buffer, size + 1, Len(buffer)) \in Seq(ByteOf(Len(frags)))
        /\ Len(SubSeq(buffer, size + 1, Len(buffer))) = Len(buffer) - size
    BY <2>1, <1>1, <1>2, <1>4, ByteSubSeq
  <2> QED BY <2>1, <2>2, <1>1, <1>2, <1>4
<1>6. CollectOK'
  BY <1>1, <1>3, CollectFacts DEF IInv
<1>7. position' \in 0 .. Len(file) /\ failures' \in 0 .. MaxFailures
  BY <1>1 DEF IInv, FileOK, WriterOK
<1> QED BY <1>1, <1>5, <1>6, <1>7, ReadIInv

-------------------------------------------------------------------------------
LEMMA NextIInv == IInv /\ [Next]_vars => IInv'
<1> SUFFICES ASSUME IInv, [Next]_vars PROVE IInv'
  OBVIOUS
<1>1. CASE Write
  BY <1>1, AddRecordIInv, EmitPhysicalRecordIInv, EmitPhysicalRecordFailsIInv DEF Write
<1>2. CASE Stop
  BY <1>2, StopIInv
<1>3. CASE Read
  <2>1. CASE ReadEof
    BY <2>1, AtEofIInv DEF ReadEof
  <2> QED BY <1>3, <2>1, ReadBlockIInv, ReadBlockFailsIInv, ReadBadIInv, ReadPhysicalRecordIInv DEF Read
<1>4. CASE UNCHANGED vars
  BY <1>4 DEF vars, IInv, WriterOK, FileOK, CollectOK, Aligned
<1> QED BY <1>1, <1>2, <1>3, <1>4 DEF Next

(* The invariant holds of every behaviour.                                 *)
THEOREM LogInvariant == Spec => []IInv
  BY InitIInv, NextIInv, PTL DEF Spec

(* Every part of the state has its shape, block_offset_ stays in a block   *)
(* and no buffer of the reader is larger than one.                         *)
THEOREM LogTypeCorrect == Spec => []TypeOK
  BY LogInvariant, InvImpliesTypeOK, PTL

(* As long as no append has failed the writer's block_offset_ is where the *)
(* file ends, so that its records never cross a block of the file.         *)
THEOREM WriterAligned == Spec => []Aligned
  BY LogInvariant, PTL DEF IInv

-------------------------------------------------------------------------------
(* What the reader finds.                                                  *)

Rec(i) == frags[i].record
Size(i) == HeaderSize + frags[i].length
Begins(i) == frags[i].type \in {"full", "first"}
Ends(i) == frags[i].type \in {"full", "last"}

(* The file took all of fragment i: its append did not fail, or another    *)
(* one of its record would not have come after it.                         *)
Kept(i) == records[Rec(i)] # "failed" \/ (i + 1 \in DOMAIN frags /\ Rec(i + 1) = Rec(i))

(* Nothing failed up to the record of fragment i. *)
Early(i) == \A q \in 1..Rec(i) : records[q] # "failed"

(* The fragments of a record are next to each other, and their types say   *)
(* where it begins and ends.                                               *)
FragsRight ==
  /\ \A i, j \in DOMAIN frags : i <= j => Rec(i) <= Rec(j)
  /\ \A i \in DOMAIN frags : Begins(i) <=> (i = 1 \/ Rec(i - 1) < Rec(i))
  /\ \A i \in DOMAIN frags : i + 1 \in DOMAIN frags =>
       /\ Ends(i) => Rec(i) < Rec(i + 1)
       /\ ~Ends(i) /\ records[Rec(i)] # "failed" => Rec(i) = Rec(i + 1)
  /\ \A i \in DOMAIN frags : records[Rec(i)] = "adding" => ~Ends(i)
  /\ \A r \in DOMAIN records : records[r] = "added" => \E i \in DOMAIN frags : Rec(i) = r /\ Ends(i)
  /\ \A r \in DOMAIN records : records[r] = "adding" => r = Len(records)
  /\ Adding => IF begin THEN \A i \in DOMAIN frags : Rec(i) < Len(records)
               ELSE Len(frags) # 0 /\ Rec(Len(frags)) = Len(records)
  /\ failures = 0 => \A r \in DOMAIN records : records[r] # "failed"
  /\ phase = "write" /\ failures # 0 => \E r \in DOMAIN records : records[r] = "failed"

(* Fragment i takes the places behind from[i], up to to[i]: the fragments  *)
(* follow one another, one whose append failed without its end, and what   *)
(* the file still has is them and zeros.                                   *)
Laid(from, to) ==
  /\ \A i \in DOMAIN frags : /\ from[i] <= to[i] /\ to[i] <= from[i] + Size(i)
                             /\ Kept(i) <=> to[i] = from[i] + Size(i)
  /\ \A i, j \in DOMAIN frags : i < j => to[i] <= from[j]
  /\ \A i \in DOMAIN frags, a \in DOMAIN file : from[i] < a /\ a <= to[i] => file[a] = <<i, a - from[i]>>
  /\ \A a \in DOMAIN file : file[a] = Zero \/ \E i \in DOMAIN frags : from[i] < a /\ a <= to[i]
  /\ phase = "write" => \A i \in DOMAIN frags : to[i] <= Len(file)
  /\ failures = 0 => IF Len(frags) = 0 THEN Len(file) = 0 ELSE Len(file) <= to[Len(frags)]

(* Place a is the last one of a block. *)
BlockEnd(a) == \E b \in Nat : a = b * BlockSize

(* Up to the first failure no fragment crosses a block, and each begins    *)
(* where the one before it ended or, behind a trailer, with the next block.*)
InBlocks(from, to) ==
  \A i \in DOMAIN frags : Early(i) =>
    /\ \E b \in Nat : b * BlockSize <= from[i] /\ to[i] <= b * BlockSize + BlockSize
    /\ IF i = 1 THEN from[i] = 0
       ELSE from[i] = to[i - 1] \/ (from[i] < to[i - 1] + HeaderSize /\ BlockEnd(from[i]))

(* How far the reader is: behind the bytes it has read and thrown away or  *)
(* understood.                                                             *)
Here == position - Len(buffer)

(* The buffer is a part of the file, of one block.                         *)
BufferRight ==
  /\ Len(buffer) <= position
  /\ \A k \in DOMAIN buffer : buffer[k] = file[Here + k]
  /\ phase = "read" =>
       /\ \E b \in Nat : b * BlockSize <= Here /\ position <= b * BlockSize + BlockSize
       /\ IF eof THEN position = Len(file) ELSE BlockEnd(position)
  /\ phase = "write" => eof = FALSE

(* Fragments of one record, next to each other and from its first one on.  *)
RunOf(ids, to) ==
  /\ ids \in Seq(Nat) /\ Len(ids) # 0
  /\ \A n \in 1..Len(ids) : ids[n] \in DOMAIN frags /\ ids[n] = ids[1] + (n - 1) /\ Rec(ids[n]) = Rec(ids[1])
  /\ Begins(ids[1]) /\ Kept(ids[Len(ids)]) /\ to[ids[Len(ids)]] <= Here

(* The reader went past a fragment behind j that the file took. *)
Missed(j, from) == \E i \in DOMAIN frags : i > j /\ Kept(i) /\ from[i] < Here

(* It finds no fragment before the next block. *)
Stuck == IF Len(buffer) < HeaderSize THEN eof ELSE buffer[1][2] # 1

(* What is read is whole records, and what is collected is the beginning of*)
(* one, of which the reader missed nothing unless it finds no more of it.  *)
CollectedRight(from, to) ==
  /\ read \in Seq(Seq(Nat))
  /\ \A k \in 1..Len(read) : RunOf(read[k], to) /\ Ends(read[k][Len(read[k])])
  /\ \A k, l \in 1..Len(read) : k < l => read[k][Len(read[k])] < read[l][1]
  /\ scratch # <<>> =>
       /\ RunOf(scratch, to) /\ ~Ends(scratch[Len(scratch)])
       /\ \A k \in 1..Len(read) : read[k][Len(read[k])] < scratch[1]
       /\ phase = "read" /\ Missed(scratch[Len(scratch)], from) => Stuck

(* The record of fragment i is returned. *)
Given(i) == \E k \in 1..Len(read) : Rec(read[k][1]) = Rec(i)

(* The reader has fragments 1 to c behind it, and has them all.            *)
InStep(c, from, to) ==
  /\ c > 0 => Early(c)
  /\ \A i \in DOMAIN frags : IF i <= c THEN to[i] <= Here ELSE Here <= from[i]
  /\ IF c > 0 /\ ~Ends(c) THEN scratch # <<>> /\ scratch[Len(scratch)] = c ELSE scratch = <<>>
  /\ \A i \in 1..c : Ends(i) => Given(i)

(* The reader has everything that came before the first failure. *)
Passed(to) == \A i \in DOMAIN frags : Early(i) /\ Ends(i) /\ to[i] <= Len(file) => Given(i)

InTurn(from, to) ==
  /\ phase = "read" => (\E c \in 0..Len(frags) : InStep(c, from, to)) \/ (Passed(to) /\ failures # 0)
  /\ phase = "done" /\ position = Len(file) => Passed(to)
  /\ failures = 0 => reported = FALSE
  /\ phase = "write" => read = <<>> /\ scratch = <<>>

Layout(from, to) == Laid(from, to) /\ InBlocks(from, to) /\ CollectedRight(from, to) /\ InTurn(from, to)

ReadInv ==
  FragsRight /\ BufferRight /\ \E from, to \in [DOMAIN frags -> Nat] : Layout(from, to)

-------------------------------------------------------------------------------
(* The shapes of the histories and of the file, for any fragment.          *)
LEMMA Shapes ==
  ASSUME IInv
  PROVE  /\ DOMAIN frags = 1..Len(frags) /\ Len(frags) \in Nat
         /\ \A i \in DOMAIN frags : /\ frags[i] \in PhysicalRecord /\ Rec(i) \in DOMAIN records
                                    /\ Size(i) \in Nat /\ HeaderSize <= Size(i) /\ Size(i) <= BlockSize
         /\ DOMAIN records = 1..Len(records) /\ Len(records) \in Nat /\ \A r \in DOMAIN records : records[r] \in Status
         /\ DOMAIN file = 1..Len(file) /\ Len(file) \in Nat
         /\ HeaderSize \in Nat \ {0} /\ BlockSize \in Nat \ {0} /\ HeaderSize < BlockSize
<1>1. HeaderSize \in Nat \ {0} /\ BlockSize \in Nat \ {0} /\ HeaderSize < BlockSize
  BY LogAssumption
<1>2. DOMAIN frags = 1..Len(frags) /\ Len(frags) \in Nat
  BY DEF IInv, WriterOK
<1>3. DOMAIN records = 1..Len(records) /\ Len(records) \in Nat /\ \A r \in DOMAIN records : records[r] \in Status
  BY DEF IInv, WriterOK
<1>4. DOMAIN file = 1..Len(file) /\ Len(file) \in Nat
  BY DEF IInv, FileOK
<1>5. ASSUME NEW i \in DOMAIN frags
      PROVE  /\ frags[i] \in PhysicalRecord /\ Rec(i) \in DOMAIN records
             /\ Size(i) \in Nat /\ HeaderSize <= Size(i) /\ Size(i) <= BlockSize
  <2>1. frags[i] \in PhysicalRecord
    BY <1>2, <1>5 DEF IInv, WriterOK
  <2>2. frags[i].record \in 1..Len(records) /\ frags[i].length <= BlockSize - HeaderSize
    BY <1>2, <1>5 DEF IInv, WriterOK
  <2>3. frags[i].length \in Nat
    BY <2>1 DEF PhysicalRecord
  <2> QED BY <1>1, <1>3, <2>1, <2>2, <2>3 DEF Rec, Size
<1> QED BY <1>1, <1>2, <1>3, <1>4, <1>5

(* What a turn of AddRecord's loop does to the histories.                  *)
LEMMA EmitHistory ==
  ASSUME IInv, Adding, NEW status \in {"ok", "failed"}, Emit(status)
  PROVE  /\ Len(frags') = Len(frags) + 1 /\ DOMAIN frags' = 1..(Len(frags) + 1)
         /\ \A i \in DOMAIN frags : frags'[i] = frags[i]
         /\ frags'[Len(frags) + 1] = Fragment
         /\ Len(records) \in DOMAIN records /\ records[Len(records)] = "adding"
         /\ DOMAIN records' = DOMAIN records /\ Len(records') = Len(records)
         /\ \A r \in DOMAIN records : r # Len(records) => records'[r] = records[r]
         /\ records'[Len(records)] = IF status = "failed" THEN "failed"
                                     ELSE IF left = Fragment.length THEN "added" ELSE "adding"
         /\ begin' = FALSE
<1>1. /\ records \in Seq(Status) /\ frags \in Seq(PhysicalRecord) /\ records # <<>> /\ left \in Nat
      /\ Last(records) = "adding"
  BY DEF IInv, WriterOK, Adding
<1>2. Len(records) \in Nat \ {0} /\ DOMAIN records = 1..Len(records)
  BY <1>1
<1>3. records[Len(records)] = "adding"
  BY <1>1 DEF Last
<1>4. /\ frags' = Append(frags, Fragment) /\ begin' = FALSE /\ left' = left - Fragment.length
      /\ records' = [records EXCEPT ![Len(records)] =
                       IF status = "failed" THEN status ELSE IF left' = 0 THEN "added" ELSE "adding"]
  BY DEF Emit
<1>5. Fragment.length \in Nat
  BY EmitFacts
<1>6. left' = 0 <=> left = Fragment.length
  BY <1>1, <1>4, <1>5
<1>7. frags' \in Seq(PhysicalRecord) /\ records' \in Seq(Status)
  BY EmitFacts
<1>8. /\ Len(frags') = Len(frags) + 1 /\ DOMAIN frags' = 1..(Len(frags) + 1)
      /\ \A i \in DOMAIN frags : frags'[i] = frags[i]
      /\ frags'[Len(frags) + 1] = Fragment
  <2> HIDE DEF PhysicalRecord
  <2>1. Fragment \in PhysicalRecord
    <3>1. frags'[Len(frags')] = Fragment
      BY <1>1, <1>4
    <3>2. Len(frags') \in 1..Len(frags')
      BY <1>1, <1>4
    <3> QED BY <1>7, <3>1, <3>2, ElementOfSeq
  <2> QED BY <1>1, <1>4, <2>1, AppendProperties
<1>9. /\ DOMAIN records' = DOMAIN records
      /\ \A r \in DOMAIN records : r # Len(records) => records'[r] = records[r]
      /\ records'[Len(records)] = IF status = "failed" THEN "failed"
                                  ELSE IF left = Fragment.length THEN "added" ELSE "adding"
  BY <1>2, <1>4, <1>6
<1>10. Len(records') = Len(records)
  BY <1>1, <1>2, <1>7, <1>9
<1> QED BY <1>2, <1>3, <1>4, <1>8, <1>9, <1>10

(* A fragment says where it is in its record.                              *)
LEMMA EmitTypes ==
  ASSUME IInv, Adding, NEW status \in {"ok", "failed"}, Emit(status), NEW n, n = Len(frags) + 1
  PROVE     /\ Rec(n)' = Len(records) /\ Size(n)' = HeaderSize + Fragment.length
            /\ Begins(n)' <=> begin
            /\ Ends(n)' <=> left = Fragment.length
            /\ \A i \in DOMAIN frags : /\ Rec(i)' = Rec(i) /\ Size(i)' = Size(i)
                                       /\ Begins(i)' <=> Begins(i)
                                       /\ Ends(i)' <=> Ends(i)
<1>1. frags'[Len(frags) + 1] = Fragment /\ \A i \in DOMAIN frags : frags'[i] = frags[i]
  BY EmitHistory
<1>2. /\ Fragment.record = Len(records)
      /\ Fragment.type = IF begin THEN (IF left = Fragment.length THEN "full" ELSE "first")
                         ELSE IF left = Fragment.length THEN "last" ELSE "middle"
  BY DEF Fragment
<1> QED BY <1>1, <1>2 DEF Rec, Size, Begins, Ends

-------------------------------------------------------------------------------
(* The fragments of a record.                                              *)

(* A turn of AddRecord's loop adds the fragment that comes next.           *)
LEMMA EmitFragsRight ==
  ASSUME IInv, FragsRight, phase = "write", Adding, NEW status \in {"ok", "failed"}, Emit(status),
         phase' = "write", failures' = IF status = "failed" THEN failures + 1 ELSE failures,
         NEW n, n = Len(frags) + 1, NEW R, R = Len(records)
  PROVE  FragsRight'
<1>1. /\ DOMAIN frags = 1..Len(frags) /\ Len(frags) \in Nat /\ DOMAIN frags' = DOMAIN frags \union {n}
      /\ n \in Nat /\ n \notin DOMAIN frags /\ Len(frags') = n
      /\ \A i \in DOMAIN frags : Rec(i) \in DOMAIN records /\ Rec(i) <= R /\ i < n
      /\ DOMAIN records = 1..R /\ R \in Nat
  <2>1. /\ DOMAIN frags = 1..Len(frags) /\ Len(frags) \in Nat /\ DOMAIN records = 1..R /\ R \in Nat
        /\ \A i \in DOMAIN frags : Rec(i) \in DOMAIN records
    BY Shapes
  <2>2. Len(frags') = n /\ DOMAIN frags' = 1..n
    BY EmitHistory
  <2> QED BY <2>1, <2>2
<1>2. /\ R \in DOMAIN records /\ records[R] = "adding" /\ DOMAIN records' = DOMAIN records /\ Len(records') = R
      /\ \A r \in DOMAIN records : r # R => records'[r] = records[r]
      /\ records'[R] = IF status = "failed" THEN "failed"
                       ELSE IF left = Fragment.length THEN "added" ELSE "adding"
      /\ begin' = FALSE
  BY EmitHistory
<1>3. /\ Rec(n)' = R /\ (Begins(n)' <=> begin) /\ (Ends(n)' <=> left = Fragment.length)
      /\ \A i \in DOMAIN frags : Rec(i)' = Rec(i) /\ (Begins(i)' <=> Begins(i)) /\ (Ends(i)' <=> Ends(i))
  BY EmitTypes
<1>4. IF begin THEN \A i \in DOMAIN frags : Rec(i) < R ELSE n > 1 /\ Rec(n - 1) = R
  BY <1>1 DEF FragsRight
<1>5. \A i, j \in DOMAIN frags' : i <= j => Rec(i)' <= Rec(j)'
  <2> SUFFICES ASSUME NEW i \in DOMAIN frags', NEW j \in DOMAIN frags', i <= j PROVE Rec(i)' <= Rec(j)'
    OBVIOUS
  <2>1. CASE j = n
    BY <1>1, <1>3, <2>1
  <2>2. CASE j # n
    BY <1>1, <1>3, <2>2 DEF FragsRight
  <2> QED BY <2>1, <2>2
<1>6. ASSUME NEW i \in DOMAIN frags' PROVE Begins(i)' <=> (i = 1 \/ Rec(i - 1)' < Rec(i)')
  <2>1. CASE i = n
    <3>1. i # 1 => i - 1 \in DOMAIN frags
      BY <1>1, <2>1 
    <3>2. ~(R < R)
      BY <1>1
    <3> QED BY <1>1, <1>3, <1>4, <2>1, <3>1, <3>2
  <2>2. CASE i # n
    <3>1. i \in DOMAIN frags /\ (i # 1 => i - 1 \in DOMAIN frags)
      BY <1>1, <2>2
    <3> QED BY <1>3, <3>1 DEF FragsRight
  <2> QED BY <2>1, <2>2
<1>7. ASSUME NEW i \in DOMAIN frags', i + 1 \in DOMAIN frags'
      PROVE  /\ Ends(i)' => Rec(i)' < Rec(i + 1)'
             /\ ~Ends(i)' /\ records'[Rec(i)'] # "failed" => Rec(i)' = Rec(i + 1)'
  <2>0. i \in DOMAIN frags
    BY <1>1, <1>7
  <2>1. CASE i + 1 = n
    <3>1. i = n - 1 /\ \A j \in DOMAIN frags : j <= i
      BY <1>1, <2>1
    <3>2. CASE begin
      <4>1. Rec(i) < R /\ Rec(i) # R
        BY <1>1, <1>4, <2>0, <3>2
      <4>2. ASSUME ~Ends(i), records[Rec(i)] # "failed" PROVE FALSE
        <5>1. records[Rec(i)] # "adding"
          BY <1>1, <2>0, <4>1 DEF FragsRight
        <5>2. records[Rec(i)] = "added"
          BY <1>1, <2>0, <4>2, <5>1, Shapes DEF Status
        <5>3. PICK j \in DOMAIN frags : Rec(j) = Rec(i) /\ Ends(j)
          BY <1>1, <2>0, <5>2 DEF FragsRight
        <5>4. j # i /\ j < i /\ j + 1 \in DOMAIN frags /\ j + 1 <= i
          <6>1. j # i
            BY <4>2, <5>3
          <6>2. j \in 1..Len(frags) /\ i \in 1..Len(frags) /\ j <= i
            BY <1>1, <2>0, <3>1
          <6> QED BY <1>1, <6>1, <6>2
        <5>5. Rec(j) < Rec(j + 1) /\ Rec(j + 1) <= Rec(i)
          BY <2>0, <5>3, <5>4 DEF FragsRight
        <5> QED BY <1>1, <2>0, <5>3, <5>4, <5>5
      <4> QED BY <1>1, <1>2, <1>3, <2>0, <2>1, <4>1, <4>2
    <3>3. CASE ~begin
      <4>1. Rec(i) = R
        BY <1>4, <3>1, <3>3
      <4>2. ~Ends(i)
        BY <1>2, <2>0, <4>1 DEF FragsRight
      <4> QED BY <1>3, <2>0, <2>1, <4>1, <4>2
    <3> QED BY <3>2, <3>3
  <2>2. CASE i + 1 # n
    <3>1. i + 1 \in DOMAIN frags
      BY <1>1, <1>7, <2>2
    <3>2. records[Rec(i)] = "failed" => records'[Rec(i)] = "failed"
      BY <1>1, <1>2, <2>0
    <3> QED BY <1>3, <2>0, <3>1, <3>2 DEF FragsRight
  <2> QED BY <2>1, <2>2
<1>8. ASSUME NEW i \in DOMAIN frags', records'[Rec(i)'] = "adding" PROVE ~Ends(i)'
  <2>1. CASE i = n
    BY <1>2, <1>3, <1>8, <2>1
  <2>2. CASE i # n
    <3>1. i \in DOMAIN frags
      BY <1>1, <2>2
    <3>2. records[Rec(i)] = "adding"
      BY <1>1, <1>2, <1>3, <1>8, <3>1
    <3> QED BY <1>3, <3>1, <3>2 DEF FragsRight
  <2> QED BY <2>1, <2>2
<1>9. ASSUME NEW r \in DOMAIN records', records'[r] = "added" PROVE \E i \in DOMAIN frags' : Rec(i)' = r /\ Ends(i)'
  <2>1. CASE r = R
    BY <1>1, <1>2, <1>3, <1>9, <2>1
  <2>2. CASE r # R
    <3>1. PICK i \in DOMAIN frags : Rec(i) = r /\ Ends(i)
      BY <1>2, <1>9, <2>2 DEF FragsRight
    <3> QED BY <1>1, <1>3, <3>1
  <2> QED BY <2>1, <2>2
<1>10. \A r \in DOMAIN records' : records'[r] = "adding" => r = Len(records')
  BY <1>1, <1>2 DEF FragsRight
<1>11. Len(frags') # 0 /\ (Rec(Len(frags)) = Len(records))'
  <2>1. (Rec(Len(frags)) = Len(records))' <=> Rec(Len(frags))' = Len(records')
    OBVIOUS
  <2>2. Rec(n)' = frags'[n].record /\ Rec(Len(frags))' = frags'[Len(frags')].record
    BY DEF Rec
  <2> QED BY <1>1, <1>2, <1>3, <2>1, <2>2
<1>12. failures \in Nat
  BY LogAssumption DEF IInv, WriterOK
<1>13. failures' = 0 => \A r \in DOMAIN records' : records'[r] # "failed"
  BY <1>2, <1>12 DEF FragsRight
<1>14. failures' # 0 => \E r \in DOMAIN records' : records'[r] = "failed"
  <2>1. CASE status = "failed"
    BY <1>2, <2>1
  <2>2. CASE status # "failed"
    <3>1. ASSUME failures' # 0 PROVE \E r \in DOMAIN records' : records'[r] = "failed"
      <4>1. PICK r \in DOMAIN records : records[r] = "failed"
        BY <2>2, <3>1 DEF FragsRight
      <4>2. records'[r] = "failed" /\ r \in DOMAIN records'
        BY <1>2, <4>1
      <4> QED BY <4>2
    <3> QED BY <3>1
  <2> QED BY <2>1, <2>2
<1>15. (Adding => IF begin THEN \A i \in DOMAIN frags : Rec(i) < Len(records)
                  ELSE Len(frags) # 0 /\ Rec(Len(frags)) = Len(records))'
  BY <1>2, <1>11
<1>16. /\ (\A i, j \in DOMAIN frags : i <= j => Rec(i) <= Rec(j))'
       /\ (\A i \in DOMAIN frags : Begins(i) <=> (i = 1 \/ Rec(i - 1) < Rec(i)))'
  BY <1>5, <1>6
<1>17. (\A i \in DOMAIN frags : i + 1 \in DOMAIN frags =>
          /\ Ends(i) => Rec(i) < Rec(i + 1)
          /\ ~Ends(i) /\ records[Rec(i)] # "failed" => Rec(i) = Rec(i + 1))'
  BY <1>7
<1>18. /\ (\A i \in DOMAIN frags : records[Rec(i)] = "adding" => ~Ends(i))'
       /\ (\A r \in DOMAIN records : records[r] = "added" => \E i \in DOMAIN frags : Rec(i) = r /\ Ends(i))'
  BY <1>8, <1>9
<1> QED BY <1>10, <1>13, <1>14, <1>15, <1>16, <1>17, <1>18, Zenon DEF FragsRight

-------------------------------------------------------------------------------
(* What the writer does to the fragments and to the bytes of the file.     *)

(* A record that begins leaves the fragments of the others right.          *)
LEMMA AddRecordFragsRight ==
  ASSUME IInv, FragsRight, NEW size \in RecordSize, AddRecord(size)
  PROVE  /\ FragsRight'
         /\ \A i \in DOMAIN frags : (Kept(i)' <=> Kept(i)) /\ (Early(i)' <=> Early(i))
<1> DEFINE R == Len(records)
<1>1. /\ records \in Seq(Status) /\ R \in Nat /\ DOMAIN records = 1..R
      /\ \A i \in DOMAIN frags : Rec(i) \in 1..R
  BY Shapes DEF IInv, WriterOK
<1>2. /\ records' = Append(records, "adding") /\ begin' = TRUE /\ ~Adding
      /\ frags' = frags /\ failures' = failures /\ phase' = phase
  BY DEF AddRecord
<1>3. /\ DOMAIN records' = 1..(R + 1) /\ Len(records') = R + 1 /\ records'[R + 1] = "adding"
      /\ \A r \in 1..R : records'[r] = records[r]
  BY <1>1, <1>2 DEF Status
<1>4. \A i \in DOMAIN frags : /\ Rec(i)' = Rec(i) /\ (Begins(i)' <=> Begins(i)) /\ (Ends(i)' <=> Ends(i))
                             /\ records'[Rec(i)] = records[Rec(i)]
  BY <1>1, <1>2, <1>3 DEF Rec, Begins, Ends
<1>5. \A r \in 1..R : records[r] # "adding"
  <2>1. R # 0 => records # <<>> /\ Last(records) = records[R]
    BY <1>1 DEF Last
  <2>2. ASSUME NEW r \in 1..R, records[r] = "adding" PROVE FALSE
    <3>1. r = R
      BY <1>1, <2>2 DEF FragsRight
    <3> QED BY <1>2, <2>1, <2>2, <3>1 DEF Adding
  <2> QED BY <2>2
<1> HIDE DEF R
<1>6. \A i \in DOMAIN frags : (Kept(i)' <=> Kept(i)) /\ (Early(i)' <=> Early(i))
  <2> SUFFICES ASSUME NEW i \in DOMAIN frags PROVE (Kept(i)' <=> Kept(i)) /\ (Early(i)' <=> Early(i))
    OBVIOUS
  <2>1. Kept(i)' <=> Kept(i)
    BY <1>2, <1>4 DEF Kept
  <2>2. \A q \in 1..Rec(i) : records'[q] = records[q]
    BY <1>1, <1>3
  <2>3. Early(i)' <=> Early(i)
    BY <1>4, <2>2 DEF Early
  <2> QED BY <2>1, <2>3
<1>7. FragsRight'
  <2>1. (\A i, j \in DOMAIN frags : i <= j => Rec(i) <= Rec(j))'
    BY <1>2, <1>4 DEF FragsRight
  <2>10. (\A i \in DOMAIN frags : records[Rec(i)] = "adding" => ~Ends(i))'
    <3>1. \A i \in DOMAIN frags : records[Rec(i)] = "adding" => ~Ends(i)
      BY DEF FragsRight
    <3>2. ASSUME NEW i \in DOMAIN frags, records'[Rec(i)'] = "adding" PROVE ~Ends(i)'
      BY <1>4, <3>1, <3>2
    <3> QED BY <1>2, <3>2
  <2>2. ASSUME NEW i \in DOMAIN frags PROVE Begins(i)' <=> (i = 1 \/ Rec(i - 1)' < Rec(i)')
    <3>1. i # 1 => i - 1 \in DOMAIN frags
      BY Shapes
    <3> QED BY <1>4, <3>1 DEF FragsRight
  <2>3. (\A i \in DOMAIN frags : i + 1 \in DOMAIN frags =>
          /\ Ends(i) => Rec(i) < Rec(i + 1)
          /\ ~Ends(i) /\ records[Rec(i)] # "failed" => Rec(i) = Rec(i + 1))'
    BY <1>2, <1>4 DEF FragsRight
  <2>4. (\A r \in DOMAIN records : records[r] = "added" => \E i \in DOMAIN frags : Rec(i) = r /\ Ends(i))'
    <3> SUFFICES ASSUME NEW r \in 1..(R + 1), records'[r] = "added"
                 PROVE  \E i \in DOMAIN frags : Rec(i)' = r /\ Ends(i)'
      BY <1>2, <1>3
    <3>1. r \in 1..R /\ records[r] = "added"
      BY <1>1, <1>3
    <3>2. PICK i \in DOMAIN frags : Rec(i) = r /\ Ends(i)
      BY <1>1, <3>1 DEF FragsRight
    <3> QED BY <1>4, <3>2
  <2>5. (\A r \in DOMAIN records : records[r] = "adding" => r = Len(records))'
    BY <1>1, <1>3, <1>5
  <2>6. \A i \in DOMAIN frags : Rec(i)' < Len(records')
    BY <1>1, <1>3, <1>4
  <2>7. /\ failures' = 0 => \A r \in DOMAIN records' : records'[r] # "failed"
        /\ phase' = "write" /\ failures' # 0 => \E r \in DOMAIN records' : records'[r] = "failed"
    BY <1>1, <1>2, <1>3 DEF FragsRight
  <2>8. (\A i \in DOMAIN frags : Begins(i) <=> (i = 1 \/ Rec(i - 1) < Rec(i)))'
    BY <1>2, <2>2
  <2>9. (Adding => IF begin THEN \A i \in DOMAIN frags : Rec(i) < Len(records)
                  ELSE Len(frags) # 0 /\ Rec(Len(frags)) = Len(records))'
    BY <1>2, <2>6
  <2> QED BY <2>1, <2>10, <2>3, <2>4, <2>5, <2>7, <2>8, <2>9, Zenon DEF FragsRight
<1> QED BY <1>6, <1>7

(* Which fragments the file took, and which come before the first failure. *)
LEMMA EmitKept ==
  ASSUME IInv, FragsRight, phase = "write", Adding, NEW status \in {"ok", "failed"}, Emit(status),
         NEW n, n = Len(frags) + 1
  PROVE  /\ \A i \in DOMAIN frags : (Kept(i)' <=> Kept(i)) /\ (Early(i)' => Early(i))
         /\ Kept(n)' <=> status = "ok"
         /\ Early(n)' => status = "ok" /\ failures = 0
<1> DEFINE R == Len(records)
<1>1. /\ n \in Nat \ {0} /\ DOMAIN frags = 1..(n - 1) /\ DOMAIN frags' = 1..n /\ n - 1 = Len(frags)
      /\ R \in Nat /\ DOMAIN records = 1..R
      /\ \A i \in DOMAIN frags : Rec(i) \in 1..R
  <2>1. /\ DOMAIN frags = 1..Len(frags) /\ Len(frags) \in Nat /\ DOMAIN records = 1..R /\ R \in Nat
        /\ \A i \in DOMAIN frags : Rec(i) \in DOMAIN records
    BY Shapes
  <2>2. DOMAIN frags' = 1..n
    BY EmitHistory
  <2> QED BY <2>1, <2>2
<1>2. /\ R \in DOMAIN records /\ records[R] = "adding"
      /\ \A r \in DOMAIN records : r # R => records'[r] = records[r]
      /\ records'[R] = "failed" <=> status = "failed"
      /\ DOMAIN records' = DOMAIN records
  BY EmitHistory
<1>3. Rec(n)' = R /\ \A i \in DOMAIN frags : Rec(i)' = Rec(i)
  BY EmitTypes
<1> HIDE DEF R
<1>4. ASSUME NEW i \in DOMAIN frags PROVE Kept(i)' <=> Kept(i)
  <2>1. CASE Rec(i) = R
    <3>1. Kept(i)
      BY <1>2, <2>1 DEF Kept
    <3>2. i + 1 \in 1..n /\ (i + 1 = n \/ (i + 1 \in DOMAIN frags /\ Rec(i) <= Rec(i + 1)))
      BY <1>1 DEF FragsRight
    <3>3. Rec(i + 1)' = R
      <4>1. CASE i + 1 = n
        BY <1>3, <4>1
      <4>2. CASE i + 1 # n
        <5>1. i + 1 \in DOMAIN frags /\ R <= Rec(i + 1)
          BY <2>1, <3>2, <4>2
        <5>2. Rec(i + 1) = R
          BY <1>1, <5>1
        <5> QED BY <1>3, <5>1, <5>2
      <4> QED BY <4>1, <4>2
    <3>4. Kept(i)'
      BY <1>1, <1>3, <2>1, <3>2, <3>3 DEF Kept
    <3> QED BY <3>1, <3>4
  <2>2. CASE Rec(i) # R
    <3>1. records'[Rec(i)'] = records[Rec(i)]
      BY <1>1, <1>2, <1>3, <2>2
    <3>2. i + 1 \in DOMAIN frags' /\ Rec(i + 1)' = Rec(i)' <=> i + 1 \in DOMAIN frags /\ Rec(i + 1) = Rec(i)
      <4>1. CASE i + 1 = n
        BY <1>1, <1>3, <2>2, <4>1
      <4>2. CASE i + 1 # n
        BY <1>1, <1>3, <4>2
      <4> QED BY <4>1, <4>2
    <3> QED BY <1>3, <3>1, <3>2 DEF Kept
  <2> QED BY <2>1, <2>2
<1>5. Kept(n)' <=> status = "ok"
  <2>1. n + 1 \notin DOMAIN frags'
    BY <1>1
  <2>2. records'[Rec(n)'] = "failed" <=> status = "failed"
    BY <1>2, <1>3
  <2> QED BY <2>1, <2>2 DEF Kept
<1>6. ASSUME NEW i \in DOMAIN frags, Early(i)' PROVE Early(i)
  <2>1. \A q \in 1..Rec(i) : records'[q] # "failed" /\ (q # R => records'[q] = records[q])
    BY <1>1, <1>2, <1>3, <1>6 DEF Early
  <2> QED BY <1>2, <2>1 DEF Early
<1>7. ASSUME Early(n)' PROVE status = "ok" /\ failures = 0
  <2>1. \A q \in 1..R : records'[q] # "failed"
    BY <1>3, <1>7 DEF Early
  <2>2. status = "ok"
    BY <1>1, <1>2, <2>1
  <2>3. \A q \in DOMAIN records : records[q] # "failed"
    BY <1>1, <1>2, <2>1
  <2> QED BY <2>2, <2>3 DEF FragsRight
<1> QED BY <1>4, <1>5, <1>6, <1>7

(* A sequence that gets the first part of another.                         *)
LEMMA AppendPart ==
  ASSUME NEW B, NEW s \in Seq(B), NEW e \in Seq(B), NEW m \in 0..Len(e)
  PROVE  /\ Len(s \o SubSeq(e, 1, m)) = Len(s) + m /\ DOMAIN (s \o SubSeq(e, 1, m)) = 1..(Len(s) + m)
         /\ \A a \in 1..Len(s) : (s \o SubSeq(e, 1, m))[a] = s[a]
         /\ \A a \in (Len(s) + 1)..(Len(s) + m) : (s \o SubSeq(e, 1, m))[a] = e[a - Len(s)]
<1> DEFINE u == SubSeq(e, 1, m)
<1>1. Len(s) \in Nat /\ m \in Nat /\ m <= Len(e) /\ Len(e) \in Nat
  OBVIOUS
<1>2. u \in Seq(B) /\ Len(u) = m /\ \A k \in 1..m : u[k] = e[k]
  <2>1. \A i \in 1..m : e[i] \in B
    BY <1>1
  <2>2. Len(u) = IF 1 <= m THEN m - 1 + 1 ELSE 0
    BY <1>1, <2>1, SubSeqProperties
  <2>3. u \in Seq(B) /\ \A k \in 1..(m - 1 + 1) : u[k] = e[1 + k - 1]
    BY <1>1, <2>1, SubSeqProperties
  <2> QED BY <1>1, <2>2, <2>3
<1> HIDE DEF u
<1>3. Len(s \o u) = Len(s) + m /\ \A a \in 1..(Len(s) + m) : (s \o u)[a] = IF a <= Len(s) THEN s[a] ELSE u[a - Len(s)]
  BY <1>1, <1>2, ConcatProperties
<1>4. s \o u \in Seq(B)
  BY <1>2, ConcatProperties
<1>5. DOMAIN (s \o u) = 1..(Len(s) + m)
  BY <1>3, <1>4
<1>6. ASSUME NEW a \in (Len(s) + 1)..(Len(s) + m) PROVE (s \o u)[a] = e[a - Len(s)]
  <2>1. a \in 1..(Len(s) + m) /\ ~(a <= Len(s)) /\ a - Len(s) \in 1..m
    BY <1>1
  <2> QED BY <1>2, <1>3, <2>1
<1> QED BY <1>1, <1>3, <1>5, <1>6 DEF u

(* The trailer's length, and the fragment's. *)
Gap == IF Leftover < HeaderSize THEN Leftover ELSE 0
NewSize == HeaderSize + Fragment.length

(* The byte at place a when the trailer ends at place e and fragment i     *)
(* follows.                                                                *)
ByteBehind(e, i, a) == IF a <= e THEN Zero ELSE <<i, a - e>>

(* What the file gets of a turn of AddRecord's loop.                       *)
LEMMA EmitBytes ==
  ASSUME IInv, Adding, NEW status \in {"ok", "failed"}, Emit(status),
         NEW m \in 0..Len(Emission(Trailer)), file' = file \o SubSeq(Emission(Trailer), 1, m)
  PROVE  /\ Gap \in Nat /\ NewSize \in Nat \ {0} /\ m <= Gap + NewSize /\ Len(Emission(Trailer)) = Gap + NewSize
         /\ Len(file') = Len(file) + m /\ DOMAIN file' = 1..(Len(file) + m)
         /\ \A a \in 1..Len(file) : file'[a] = file[a]
         /\ \A a \in (Len(file) + 1)..(Len(file) + m) : file'[a] = ByteBehind(Len(file) + Gap, Len(frags) + 1, a)
<1> DEFINE n == Len(frags) + 1
           L == Len(file)
           t == Gap
           S == NewSize
           e == Emission(Trailer)
           B == ByteOf(n)
           body == [k \in 1..S |-> <<n, k>>]
<1>1. Len(frags) \in Nat /\ n \in Nat /\ HeaderSize \in Nat /\ Fragment.length \in Nat
      /\ block_offset \in 0..BlockSize /\ BlockSize \in Nat
  BY EmitFacts, LogAssumption DEF IInv, WriterOK
<1>2. L \in Nat /\ S \in Nat /\ Leftover \in Nat /\ t \in Nat
  BY <1>1 DEF IInv, FileOK, Leftover, Gap, NewSize
<1>3. e \in Seq(B) /\ Len(e) = t + S
  BY <1>1, <1>2, EmissionFacts DEF Gap, NewSize
<1>4. file \in Seq(B)
  <2>1. ByteOf(Len(frags)) \subseteq B
    BY <1>1 DEF ByteOf
  <2>2. file \in Seq(ByteOf(Len(frags)))
    BY DEF IInv, FileOK
  <2> DEFINE C == ByteOf(Len(frags))
  <2> HIDE DEF B, C
  <2>3. C \subseteq B /\ file \in Seq(C)
    BY <2>1, <2>2 DEF C
  <2> QED BY <2>3
<1>5. e = Trailer \o body
  BY DEF Emission, NewSize
<1>0. S # 0
  BY <1>1, LogAssumption DEF NewSize
<1>6. \A k \in 1..(t + S) : e[k] = IF k <= t THEN Zero ELSE <<n, k - t>>
  <2> DEFINE D == Nat \X Nat
  <2>0. Zero \in D /\ \A k \in 1..S : <<n, k>> \in D
    BY <1>1 DEF Zero
  <2> HIDE DEF D
  <2>1. Trailer \in Seq(D) /\ Len(Trailer) = t /\ \A k \in 1..t : Trailer[k] = Zero
    <3>1. CASE Leftover < HeaderSize
      <4>1. Trailer = [k \in 1..t |-> Zero]
        BY <3>1 DEF Trailer, Zeros, Gap
      <4> QED BY <1>2, <2>0, <4>1
    <3>2. CASE ~(Leftover < HeaderSize)
      <4>1. Trailer = <<>> /\ t = 0
        BY <3>2 DEF Trailer, Gap
      <4> QED BY <4>1
    <3> QED BY <3>1, <3>2
  <2>2. body \in Seq(D) /\ Len(body) = S /\ \A k \in 1..S : body[k] = <<n, k>>
    BY <1>2, <2>0
  <2> HIDE DEF body
  <2>4. \A k \in 1..(t + S) : (Trailer \o body)[k] = IF k <= t THEN Trailer[k] ELSE body[k - t]
    <3>1. \A k \in 1..(Len(Trailer) + Len(body)) :
            (Trailer \o body)[k] = IF k <= Len(Trailer) THEN Trailer[k] ELSE body[k - Len(Trailer)]
      BY <2>1, <2>2, ConcatProperties
    <3> QED BY <2>1, <2>2, <3>1
  <2>5. ASSUME NEW k \in 1..(t + S) PROVE e[k] = IF k <= t THEN Zero ELSE <<n, k - t>>
    <3>1. CASE k <= t
      <4>1. k \in 1..t
        BY <1>2, <3>1
      <4> QED BY <1>5, <2>1, <2>4, <3>1, <4>1
    <3>2. CASE ~(k <= t)
      <4>1. k - t \in 1..S
        BY <1>2, <3>2
      <4> QED BY <1>5, <2>2, <2>4, <3>2, <4>1
    <3> QED BY <3>1, <3>2
  <2> QED BY <2>5
<1> HIDE DEF e, B, body, n, L, t, S
<1>7. m \in 0..Len(e) /\ file' = file \o SubSeq(e, 1, m) /\ Len(file) = L
  BY DEF e, L
<1>8. m \in Nat /\ m <= t + S
  BY <1>2, <1>3, <1>7
<1>9. /\ Len(file') = L + m /\ DOMAIN file' = 1..(L + m)
      /\ \A a \in 1..L : file'[a] = file[a]
      /\ \A a \in (L + 1)..(L + m) : file'[a] = e[a - L]
  <2>1. /\ Len(file') = Len(file) + m /\ DOMAIN file' = 1..(Len(file) + m)
        /\ \A a \in 1..Len(file) : file'[a] = file[a]
        /\ \A a \in (Len(file) + 1)..(Len(file) + m) : file'[a] = e[a - Len(file)]
    <3> DEFINE w == file \o SubSeq(e, 1, m)
    <3>1. /\ Len(w) = Len(file) + m /\ DOMAIN w = 1..(Len(file) + m)
          /\ \A a \in 1..Len(file) : w[a] = file[a]
          /\ \A a \in (Len(file) + 1)..(Len(file) + m) : w[a] = e[a - Len(file)]
      BY <1>3, <1>4, <1>7, AppendPart
    <3>2. file' = w
      BY <1>7
    <3> HIDE DEF w
    <3> QED BY <3>1, <3>2
  <2> QED BY <1>7, <2>1
<1>10. ASSUME NEW a \in (L + 1)..(L + m)
       PROVE  file'[a] = ByteBehind(L + t, n, a)
  <2>1. a - L \in 1..(t + S) /\ (a - L <= t <=> a <= L + t) /\ (a - L) - t = a - (L + t)
    BY <1>2, <1>8
  <2> QED BY <1>6, <1>9, <2>1 DEF ByteBehind
<1> QED BY <1>0, <1>2, <1>3, <1>8, <1>9, <1>10 DEF e, n, L, t, S

(* Fragment n goes to the end of the file behind t zeros, or the first m   *)
(* bytes of both do.                                                       *)
Lays(from, to, from2, to2, n, m, t, S) ==
  /\ phase = "write" /\ Laid(from, to)
  /\ n \in Nat \ {0} /\ t \in Nat /\ S \in Nat \ {0} /\ m \in Nat /\ m <= t + S
  /\ Len(frags) = n - 1 /\ DOMAIN frags = 1..(n - 1) /\ DOMAIN frags' = 1..n /\ Len(frags') = n
  /\ Len(file) \in Nat /\ DOMAIN file = 1..Len(file)
  /\ Len(file') = Len(file) + m /\ DOMAIN file' = 1..(Len(file) + m)
  /\ \A a \in 1..Len(file) : file'[a] = file[a]
  /\ \A a \in (Len(file) + 1)..(Len(file) + m) : file'[a] = ByteBehind(Len(file) + t, n, a)
  /\ \A i \in DOMAIN frags : from2[i] = from[i] /\ to2[i] = to[i] /\ from[i] \in Nat /\ to[i] \in Nat
  /\ from2[n] = (IF m <= t THEN Len(file) + m ELSE Len(file) + t) /\ to2[n] = Len(file) + m
  /\ Size(n)' = S /\ \A i \in DOMAIN frags : Size(i)' = Size(i) /\ Size(i) \in Nat
  /\ (Kept(n)' <=> m = t + S) /\ \A i \in DOMAIN frags : Kept(i)' <=> Kept(i)
  /\ (Early(n)' => m = t + S /\ failures = 0) /\ \A i \in DOMAIN frags : Early(i)' => Early(i)

(* The fragments of the file, with the one a turn of the loop adds.        *)
LEMMA LaidGrows ==
  ASSUME NEW from, NEW to, NEW from2, NEW to2, NEW n, NEW m, NEW t, NEW S, Lays(from, to, from2, to2, n, m, t, S)
  PROVE  Laid(from2, to2)'
<1> DEFINE L == Len(file)
<1>0. n \in Nat \ {0} /\ L \in Nat /\ t \in Nat /\ S \in Nat \ {0} /\ m \in Nat /\ m <= t + S
  BY DEF Lays
<1>1. /\ DOMAIN frags = 1..(n - 1) /\ DOMAIN frags' = 1..n /\ Len(frags') = n /\ n # 0
      /\ n \in 1..n /\ \A i \in 1..n : i = n \/ (i \in DOMAIN frags /\ i < n)
  BY DEF Lays
<1>2. Len(file') = L + m /\ DOMAIN file' = 1..(L + m)
  BY DEF Lays
<1>3. /\ \A a \in 1..L : file'[a] = file[a]
      /\ \A a \in (L + 1)..(L + m) : file'[a] = ByteBehind(L + t, n, a)
  BY DEF Lays
<1>4. Size(n)' = S /\ \A i \in DOMAIN frags : Size(i)' = Size(i) /\ Size(i) \in Nat
  BY DEF Lays
<1>5. (Kept(n)' <=> m = t + S) /\ \A i \in DOMAIN frags : Kept(i)' <=> Kept(i)
  BY DEF Lays
<1>6. /\ \A i \in DOMAIN frags : from2[i] = from[i] /\ to2[i] = to[i] /\ from[i] \in Nat /\ to[i] \in Nat
      /\ from2[n] = (IF m <= t THEN L + m ELSE L + t) /\ to2[n] = L + m
  BY DEF Lays
<1>7. /\ \A i \in DOMAIN frags : /\ from[i] <= to[i] /\ to[i] <= from[i] + Size(i)
                                 /\ Kept(i) <=> to[i] = from[i] + Size(i)
                                 /\ to[i] <= L
      /\ \A i, j \in DOMAIN frags : i < j => to[i] <= from[j]
      /\ \A i \in DOMAIN frags, a \in 1..L : from[i] < a /\ a <= to[i] => file[a] = <<i, a - from[i]>>
      /\ \A a \in 1..L : file[a] = Zero \/ \E i \in DOMAIN frags : from[i] < a /\ a <= to[i]
  BY DEF Lays, Laid
<1> HIDE DEF L
<1>8. ASSUME NEW i \in DOMAIN frags'
      PROVE  /\ from2[i] <= to2[i] /\ to2[i] <= from2[i] + Size(i)'
             /\ Kept(i)' <=> to2[i] = from2[i] + Size(i)'
             /\ to2[i] <= Len(file')
  <2>1. CASE i = n
    <3>1. from2[n] <= to2[n] /\ to2[n] <= from2[n] + S /\ (m = t + S <=> to2[n] = from2[n] + S) /\ to2[n] <= Len(file')
      BY <1>0, <1>2, <1>6
    <3> QED BY <1>4, <1>5, <2>1, <3>1
  <2>2. CASE i # n
    <3>1. i \in DOMAIN frags
      BY <1>1, <2>2
    <3>2. to[i] <= Len(file')
      BY <1>0, <1>2, <1>6, <1>7, <3>1
    <3> QED BY <1>4, <1>5, <1>6, <1>7, <3>1, <3>2
  <2> QED BY <2>1, <2>2
<1>9. ASSUME NEW i \in DOMAIN frags', NEW j \in DOMAIN frags', i < j PROVE to2[i] <= from2[j]
  <2>0. i \in DOMAIN frags
    BY <1>1, <1>9
  <2>1. CASE j = n
    BY <1>0, <1>6, <1>7, <2>0, <2>1
  <2>2. CASE j # n
    <3>1. j \in DOMAIN frags
      BY <1>1, <2>2
    <3> QED BY <1>0, <1>6, <1>7, <1>9, <2>0, <3>1
  <2> QED BY <2>1, <2>2
<1>10. ASSUME NEW i \in DOMAIN frags', NEW a \in DOMAIN file', from2[i] < a, a <= to2[i]
       PROVE  file'[a] = <<i, a - from2[i]>>
  <2>1. CASE i = n
    <3>1. ~(m <= t) /\ from2[i] = L + t /\ a \in (L + 1)..(L + m) /\ ~(a <= L + t)
      BY <1>0, <1>2, <1>6, <1>10, <2>1
    <3> QED BY <1>0, <1>3, <2>1, <3>1 DEF ByteBehind
  <2>2. CASE i # n
    <3>1. i \in DOMAIN frags
      BY <1>1, <2>2
    <3>2. a \in 1..L
      BY <1>0, <1>2, <1>6, <1>7, <1>10, <3>1
    <3> QED BY <1>0, <1>3, <1>6, <1>7, <1>10, <3>1, <3>2
  <2> QED BY <2>1, <2>2
<1>11. ASSUME NEW a \in DOMAIN file'
       PROVE  file'[a] = Zero \/ \E i \in DOMAIN frags' : from2[i] < a /\ a <= to2[i]
  <2>1. CASE a <= L
    <3>1. a \in 1..L
      BY <1>0, <1>2, <2>1
    <3>2. CASE file[a] = Zero
      BY <1>0, <1>3, <3>1, <3>2
    <3>3. CASE \E i \in DOMAIN frags : from[i] < a /\ a <= to[i]
      BY <1>1, <1>6, <3>3
    <3> QED BY <1>7, <3>1, <3>2, <3>3
  <2>2. CASE ~(a <= L)
    <3>1. a \in (L + 1)..(L + m)
      BY <1>0, <1>2, <2>2
    <3>2. CASE a <= L + t
      BY <1>0, <1>3, <3>1, <3>2 DEF ByteBehind
    <3>3. CASE ~(a <= L + t)
      <4>1. from2[n] < a /\ a <= to2[n]
        BY <1>0, <1>6, <3>1, <3>3
      <4> QED BY <1>1, <4>1
    <3> QED BY <3>2, <3>3
  <2> QED BY <2>1, <2>2
<1>12. Len(frags') # 0 /\ Len(file') <= to2[Len(frags')]
  BY <1>0, <1>1, <1>2, <1>6
<1>13. (\A i \in DOMAIN frags : /\ from2[i] <= to2[i] /\ to2[i] <= from2[i] + Size(i)
                                /\ Kept(i) <=> to2[i] = from2[i] + Size(i))'
  BY <1>8
<1>14. /\ (\A i, j \in DOMAIN frags : i < j => to2[i] <= from2[j])'
       /\ (\A i \in DOMAIN frags, a \in DOMAIN file : from2[i] < a /\ a <= to2[i] => file[a] = <<i, a - from2[i]>>)'
  BY <1>9, <1>10
<1>15. /\ (\A a \in DOMAIN file : file[a] = Zero \/ \E i \in DOMAIN frags : from2[i] < a /\ a <= to2[i])'
       /\ (phase = "write" => \A i \in DOMAIN frags : to2[i] <= Len(file))'
       /\ (failures = 0 => IF Len(frags) = 0 THEN Len(file) = 0 ELSE Len(file) <= to2[Len(frags)])'
  BY <1>8, <1>11, <1>12 DEF Zero
<1> QED BY <1>13, <1>14, <1>15, Zenon DEF Laid

(* That one does not cross a block, as long as nothing failed.             *)
LEMMA BlocksGrow ==
  ASSUME NEW from, NEW to, NEW from2, NEW to2, NEW n, NEW m, NEW t, NEW S, Lays(from, to, from2, to2, n, m, t, S),
         InBlocks(from, to), IInv,
         t = IF Leftover < HeaderSize THEN Leftover ELSE 0, Start + S <= BlockSize
  PROVE  InBlocks(from2, to2)'
<1> DEFINE L == Len(file)
<1>0. n \in Nat \ {0} /\ L \in Nat /\ t \in Nat /\ S \in Nat \ {0} /\ m \in Nat /\ m <= t + S
  BY DEF Lays
<1>2. /\ Len(frags) = n - 1 /\ DOMAIN frags = 1..(n - 1) /\ DOMAIN frags' = 1..n
      /\ n \in 1..n /\ \A i \in 1..n : i = n \/ i \in DOMAIN frags
  BY DEF Lays
<1>3. (Early(n)' => m = t + S /\ failures = 0) /\ \A i \in DOMAIN frags : Early(i)' => Early(i)
  BY DEF Lays
<1>4. /\ \A i \in DOMAIN frags : from2[i] = from[i] /\ to2[i] = to[i] /\ from[i] \in Nat /\ to[i] \in Nat
      /\ from2[n] = (IF m <= t THEN L + m ELSE L + t) /\ to2[n] = L + m
  BY DEF Lays
<1>5. /\ HeaderSize \in Nat \ {0} /\ BlockSize \in Nat \ {0} /\ HeaderSize < BlockSize /\ block_offset \in 0..BlockSize
      /\ Start \in Nat /\ Start + S <= BlockSize /\ Leftover = BlockSize - block_offset
      /\ Start = IF Leftover < HeaderSize THEN 0 ELSE block_offset
  <2>2. HeaderSize \in Nat \ {0} /\ BlockSize \in Nat \ {0} /\ HeaderSize < BlockSize
    BY LogAssumption
  <2>3. block_offset \in 0..BlockSize
    BY DEF IInv, WriterOK
  <2> QED BY <2>2, <2>3 DEF Leftover, Start
<1> HIDE DEF L
<1>6. ASSUME Early(n)'
      PROVE  /\ \E b \in Nat : b * BlockSize <= from2[n] /\ to2[n] <= b * BlockSize + BlockSize
             /\ IF n = 1 THEN from2[n] = 0
                ELSE from2[n] = to2[n - 1] \/ (from2[n] < to2[n - 1] + HeaderSize /\ BlockEnd(from2[n]))
  <2>1. m = t + S /\ failures = 0 /\ from2[n] = L + t /\ to2[n] = L + t + S
    <3>1. m = t + S /\ failures = 0
      BY <1>3, <1>6, Zenon
    <3> QED BY <1>0, <1>4, <3>1
  <2>2. PICK b \in Nat : L = b * BlockSize + block_offset
    BY <2>1 DEF IInv, Aligned, Lays, L
  <2>3. IF n = 1 THEN L = 0 ELSE n - 1 \in DOMAIN frags /\ L = to2[n - 1]
    <3>1. CASE n = 1
      BY <1>2, <2>1, <3>1 DEF Laid, Lays, L
    <3>2. CASE n # 1
      <4>1. n - 1 \in DOMAIN frags /\ Len(frags) # 0
        BY <1>0, <1>2, <3>2
      <4>2. L <= to[n - 1] /\ to[n - 1] <= L
        BY <1>2, <2>1, <4>1 DEF Laid, Lays, L
      <4> QED BY <1>0, <1>4, <3>2, <4>1, <4>2
    <3> QED BY <3>1, <3>2
  <2> DEFINE base == b * BlockSize
  <2>4. base \in Nat /\ (b + 1) * BlockSize = base + BlockSize /\ L = base + block_offset
    BY <1>5, <2>2
  <2>5. CASE Leftover < HeaderSize
    <3> HIDE DEF base
    <3>1. from2[n] = base + BlockSize /\ to2[n] = base + BlockSize + S /\ S <= BlockSize /\ t < HeaderSize
      BY <1>0, <1>5, <2>1, <2>4, <2>5
    <3>2. BlockEnd(from2[n])
      BY <2>4, <3>1 DEF BlockEnd
    <3>3. \E c \in Nat : c * BlockSize <= from2[n] /\ to2[n] <= c * BlockSize + BlockSize
      <4>1. b + 1 \in Nat /\ base + BlockSize <= from2[n] /\ to2[n] <= base + BlockSize + BlockSize
        BY <1>0, <1>5, <2>4, <3>1
      <4> QED BY <2>4, <4>1
    <3>4. n # 1
      <4>1. CASE n = 1
        <5>1. block_offset = 0
          BY <1>5, <2>3, <2>4, <4>1
        <5> QED BY <1>5, <2>5, <5>1
      <4> QED BY <4>1
    <3>5. from2[n] < to2[n - 1] + HeaderSize
      BY <1>0, <1>5, <2>1, <2>3, <3>1, <3>4
    <3> QED BY <3>2, <3>3, <3>4, <3>5
  <2>6. CASE ~(Leftover < HeaderSize)
    <3>1. t = 0 /\ Start = block_offset
      BY <1>5, <2>6
    <3>2. from2[n] = L /\ to2[n] = L + S
      BY <1>0, <2>1, <3>1
    <3>3. base <= from2[n] /\ to2[n] <= base + BlockSize
      <4> HIDE DEF base
      <4> QED BY <1>0, <1>5, <2>4, <3>1, <3>2
    <3> QED BY <2>3, <3>2, <3>3
  <2> QED BY <2>5, <2>6
<1>7. ASSUME NEW i \in DOMAIN frags, Early(i)'
      PROVE  /\ \E b \in Nat : b * BlockSize <= from2[i] /\ to2[i] <= b * BlockSize + BlockSize
             /\ IF i = 1 THEN from2[i] = 0
                ELSE from2[i] = to2[i - 1] \/ (from2[i] < to2[i - 1] + HeaderSize /\ BlockEnd(from2[i]))
  <2>1. from2[i] = from[i] /\ to2[i] = to[i] /\ Early(i) /\ (i # 1 => to2[i - 1] = to[i - 1])
    BY <1>0, <1>2, <1>3, <1>4, <1>7
  <2> QED BY <2>1 DEF InBlocks
<1>8. ASSUME NEW i \in DOMAIN frags', Early(i)'
      PROVE  /\ \E b \in Nat : b * BlockSize <= from2[i] /\ to2[i] <= b * BlockSize + BlockSize
             /\ IF i = 1 THEN from2[i] = 0
                ELSE from2[i] = to2[i - 1] \/ (from2[i] < to2[i - 1] + HeaderSize /\ BlockEnd(from2[i])')
  BY <1>2, <1>6, <1>7, <1>8 DEF BlockEnd
<1> QED BY <1>8 DEF InBlocks

(* So the file's places go on, whatever it takes of the emission.          *)
LEMMA EmitLayout ==
  ASSUME IInv, FragsRight, phase = "write", Adding,
         NEW status \in {"ok", "failed"}, Emit(status),
         NEW m \in 0..Len(Emission(Trailer)), file' = file \o SubSeq(Emission(Trailer), 1, m),
         status = "ok" <=> m = Len(Emission(Trailer)),
         NEW from \in [DOMAIN frags -> Nat], NEW to \in [DOMAIN frags -> Nat], Laid(from, to), InBlocks(from, to)
  PROVE  \E from2, to2 \in [DOMAIN frags' -> Nat] : Laid(from2, to2)' /\ InBlocks(from2, to2)'
<1>0. PICK n, L, t, S : n = Len(frags) + 1 /\ L = Len(file) /\ t = Gap /\ S = NewSize
  OBVIOUS
<1>1. n \in Nat \ {0} /\ Len(frags) = n - 1 /\ DOMAIN frags = 1..(n - 1) /\ DOMAIN frags' = 1..n /\ Len(frags') = n
  <2>1. DOMAIN frags = 1..Len(frags) /\ Len(frags) \in Nat
    BY Shapes
  <2>2. DOMAIN frags' = 1..(Len(frags) + 1) /\ Len(frags') = Len(frags) + 1
    BY EmitHistory
  <2> QED BY <1>0, <2>1, <2>2
<1>2. DOMAIN file = 1..L /\ L \in Nat
  BY <1>0, Shapes
<1>3. /\ t \in Nat /\ S \in Nat \ {0} /\ m \in Nat /\ m <= t + S /\ Len(Emission(Trailer)) = t + S
      /\ Len(file') = L + m /\ DOMAIN file' = 1..(L + m)
      /\ \A a \in 1..L : file'[a] = file[a]
      /\ \A a \in (L + 1)..(L + m) : file'[a] = ByteBehind(L + t, n, a)
  <2>1. /\ Gap \in Nat /\ NewSize \in Nat \ {0} /\ m <= Gap + NewSize /\ Len(Emission(Trailer)) = Gap + NewSize
        /\ Len(file') = Len(file) + m /\ DOMAIN file' = 1..(Len(file) + m)
        /\ \A a \in 1..Len(file) : file'[a] = file[a]
        /\ \A a \in (Len(file) + 1)..(Len(file) + m) : file'[a] = ByteBehind(Len(file) + Gap, Len(frags) + 1, a)
    BY EmitBytes
  <2>2. m \in Nat
    BY <2>1
  <2> QED BY <1>0, <2>1, <2>2
<1>4. Size(n)' = S /\ \A i \in DOMAIN frags : Size(i)' = Size(i) /\ Size(i) \in Nat
  BY <1>0, EmitTypes, Shapes DEF NewSize
<1>5. (Kept(n)' <=> m = t + S) /\ \A i \in DOMAIN frags : Kept(i)' <=> Kept(i)
  BY <1>0, <1>3, EmitKept
<1>6. (Early(n)' => m = t + S /\ failures = 0) /\ \A i \in DOMAIN frags : Early(i)' => Early(i)
  BY <1>0, <1>3, EmitKept
<1>7. PICK from2, to2 : /\ from2 = [i \in 1..n |-> IF i < n THEN from[i] ELSE IF m <= t THEN L + m ELSE L + t]
                        /\ to2 = [i \in 1..n |-> IF i < n THEN to[i] ELSE L + m]
  OBVIOUS
<1>8. from2 \in [DOMAIN frags' -> Nat] /\ to2 \in [DOMAIN frags' -> Nat]
  <2>1. L + m \in Nat /\ L + t \in Nat
    BY <1>2, <1>3
  <2>2. DOMAIN frags' = 1..n /\ \A i \in 1..n : i < n => i \in DOMAIN frags
    BY <1>1
  <2>3. \A i \in 1..n : i < n => from[i] \in Nat /\ to[i] \in Nat
    BY <2>2
  <2>4. from2 \in [1..n -> Nat]
    BY <1>7, <2>1, <2>3
  <2>5. to2 \in [1..n -> Nat]
    BY <1>7, <2>1, <2>3
  <2> QED BY <2>2, <2>4, <2>5
<1>9. Lays(from, to, from2, to2, n, m, t, S)
  <2>1. /\ \A i \in DOMAIN frags : from2[i] = from[i] /\ to2[i] = to[i] /\ from[i] \in Nat /\ to[i] \in Nat
        /\ from2[n] = (IF m <= t THEN L + m ELSE L + t) /\ to2[n] = L + m
    BY <1>1, <1>2, <1>3, <1>7
  <2> QED BY <1>0, <1>1, <1>2, <1>3, <1>4, <1>5, <1>6, <2>1, Zenon DEF Lays
<1>10. t = (IF Leftover < HeaderSize THEN Leftover ELSE 0) /\ Start + S <= BlockSize
  <2>1. block_offset' \in 0..BlockSize /\ block_offset' = Start + HeaderSize + Fragment.length /\ Start \in 0..BlockSize
        /\ Fragment.length \in Nat /\ HeaderSize \in Nat /\ BlockSize \in Nat
    BY EmitFacts, LogAssumption
  <2> QED BY <1>0, <2>1 DEF Gap, NewSize
<1>11. Laid(from2, to2)' /\ InBlocks(from2, to2)'
  BY <1>9, <1>10, LaidGrows, BlocksGrow, Zenon
<1> QED BY <1>8, <1>11

-------------------------------------------------------------------------------
(* The writer's actions and Stop keep what the reader will find.           *)

(* A writer leaves the reader, which has not begun, as it is.              *)
LEMMA WriteReader ==
  ASSUME IInv, BufferRight, NEW from, NEW to, InTurn(from, to), phase = "write", phase' = "write",
         UNCHANGED reader, failures' = 0 => failures = 0, NEW from2, NEW to2
  PROVE  BufferRight' /\ CollectedRight(from2, to2)' /\ InTurn(from2, to2)'
<1>1. /\ position' = position /\ buffer' = buffer /\ eof' = eof /\ scratch' = scratch /\ read' = read
      /\ reported' = reported
  BY DEF reader
<1>2. position = 0 /\ buffer = <<>> /\ read = <<>> /\ scratch = <<>> /\ eof = FALSE
      /\ (failures = 0 => reported = FALSE)
  BY DEF IInv, FileOK, InTurn, BufferRight
<1>3. Len(buffer) = 0 /\ DOMAIN buffer = {} /\ Len(read) = 0
  BY <1>2
<1>4. read \in Seq(Seq(Nat))
  BY <1>2
<1>5. BufferRight'
  <2>1. (Len(buffer) <= position)' /\ (\A k \in DOMAIN buffer : buffer[k] = file[Here + k])'
    BY <1>1, <1>2, <1>3
  <2> QED BY <2>1, <1>1, <1>2 DEF BufferRight
<1>6. CollectedRight(from2, to2)'
  <2>1. 1..Len(read') = {}
    BY <1>1, <1>3
  <2> QED BY <1>1, <1>2, <1>4, <2>1 DEF CollectedRight
<1>7. InTurn(from2, to2)'
  BY <1>1, <1>2 DEF InTurn
<1> QED BY <1>5, <1>6, <1>7

(* Each action of the writer keeps the invariant.                          *)
LEMMA AddRecordReadInv ==
  ASSUME IInv, ReadInv, NEW size \in RecordSize, AddRecord(size)
  PROVE  ReadInv'
<1>1. /\ phase = "write" /\ phase' = phase /\ frags' = frags /\ file' = file /\ failures' = failures /\ UNCHANGED reader
  BY DEF AddRecord
<1>2. FragsRight' /\ \A i \in DOMAIN frags : (Kept(i)' <=> Kept(i)) /\ (Early(i)' <=> Early(i))
  BY AddRecordFragsRight DEF ReadInv
<1>3. PICK from, to \in [DOMAIN frags -> Nat] : Layout(from, to)
  BY DEF ReadInv
<1>4. \A i \in DOMAIN frags : Size(i)' = Size(i)
  BY <1>1 DEF Size
<1>5. Laid(from, to)'
  <2>1. (\A i \in DOMAIN frags : /\ from[i] <= to[i] /\ to[i] <= from[i] + Size(i)
                                 /\ Kept(i) <=> to[i] = from[i] + Size(i))'
    BY <1>1, <1>2, <1>3, <1>4 DEF Layout, Laid
  <2>2. /\ (\A i, j \in DOMAIN frags : i < j => to[i] <= from[j])'
        /\ (\A i \in DOMAIN frags, a \in DOMAIN file : from[i] < a /\ a <= to[i] => file[a] = <<i, a - from[i]>>)'
    BY <1>1, <1>3 DEF Layout, Laid
  <2>3. /\ (\A a \in DOMAIN file : file[a] = Zero \/ \E i \in DOMAIN frags : from[i] < a /\ a <= to[i])'
        /\ (phase = "write" => \A i \in DOMAIN frags : to[i] <= Len(file))'
        /\ (failures = 0 => IF Len(frags) = 0 THEN Len(file) = 0 ELSE Len(file) <= to[Len(frags)])'
    BY <1>1, <1>3 DEF Layout, Laid, Zero
  <2> QED BY <2>1, <2>2, <2>3, Zenon DEF Laid
<1>6. InBlocks(from, to)'
  BY <1>1, <1>2, <1>3 DEF Layout, InBlocks, BlockEnd
<1>7. BufferRight' /\ CollectedRight(from, to)' /\ InTurn(from, to)'
  BY <1>1, <1>3, WriteReader DEF Layout, ReadInv
<1> QED BY <1>1, <1>2, <1>3, <1>5, <1>6, <1>7 DEF ReadInv, Layout

(* A turn of the loop, of which the file takes all or a part.              *)
LEMMA EmitReadInv ==
  ASSUME IInv, ReadInv, phase = "write", phase' = "write", Adding,
         NEW status \in {"ok", "failed"}, Emit(status),
         NEW m \in 0..Len(Emission(Trailer)), file' = file \o SubSeq(Emission(Trailer), 1, m),
         status = "ok" <=> m = Len(Emission(Trailer)),
         failures' = IF status = "failed" THEN failures + 1 ELSE failures, UNCHANGED reader
  PROVE  ReadInv'
<1>1. PICK from, to \in [DOMAIN frags -> Nat] : Layout(from, to)
  BY DEF ReadInv
<1>2. PICK n, R : n = Len(frags) + 1 /\ R = Len(records)
  OBVIOUS
<1>3. FragsRight /\ BufferRight /\ Laid(from, to) /\ InBlocks(from, to) /\ InTurn(from, to)
  BY <1>1 DEF ReadInv, Layout
<1>4. FragsRight'
  BY <1>2, <1>3, EmitFragsRight
<1>5. PICK from2, to2 \in [DOMAIN frags' -> Nat] : Laid(from2, to2)' /\ InBlocks(from2, to2)'
  BY <1>3, EmitLayout
<1>6. failures' = 0 => failures = 0
  BY LogAssumption DEF IInv, WriterOK
<1>7. BufferRight' /\ CollectedRight(from2, to2)' /\ InTurn(from2, to2)'
  BY <1>3, <1>6, WriteReader
<1> QED BY <1>4, <1>5, <1>7 DEF ReadInv, Layout

(* The file takes all of it.                                               *)
LEMMA EmitPhysicalRecordReadInv ==
  ASSUME IInv, ReadInv, EmitPhysicalRecord
  PROVE  ReadInv'
<1>1. /\ phase = "write" /\ phase' = "write" /\ Adding /\ Emit("ok") /\ file' = file \o Emission(Trailer)
      /\ UNCHANGED reader /\ failures' = failures
  BY DEF EmitPhysicalRecord
<1> DEFINE m == Len(Emission(Trailer))
<1>2. Emission(Trailer) \in Seq(ByteOf(Len(frags) + 1))
  BY <1>1, EmitFacts, EmissionFacts
<1>3. m \in 0..m /\ SubSeq(Emission(Trailer), 1, m) = Emission(Trailer)
  <2> DEFINE B == ByteOf(Len(frags) + 1)
             e == Emission(Trailer)
  <2>1. e \in Seq(B)
    BY <1>2
  <2> HIDE DEF B, e
  <2>2. Len(e) \in Nat /\ SubSeq(e, 1, Len(e)) = e
    BY <2>1, SubSeqFull
  <2> QED BY <2>2 DEF e
<1> HIDE DEF m
<1>4. m = Len(Emission(Trailer))
  BY DEF m
<1> QED BY <1>1, <1>3, <1>4, EmitReadInv

(* The append fails.                                                       *)
LEMMA EmitPhysicalRecordFailsReadInv ==
  ASSUME IInv, ReadInv, EmitPhysicalRecordFails
  PROVE  ReadInv'
<1>1. /\ phase = "write" /\ phase' = "write" /\ Adding /\ Emit("failed")
      /\ UNCHANGED reader /\ failures' = failures + 1
  BY DEF EmitPhysicalRecordFails
<1>2. PICK m \in 0..(Len(Emission(Trailer)) - 1) : file' = file \o SubSeq(Emission(Trailer), 1, m)
  BY DEF EmitPhysicalRecordFails
<1>3. m \in 0..Len(Emission(Trailer)) /\ m # Len(Emission(Trailer))
  <2>1. Len(Emission(Trailer)) \in Nat
    BY <1>1, EmitFacts, EmissionFacts
  <2> QED BY <1>2, <2>1
<1> QED BY <1>1, <1>2, <1>3, EmitReadInv

(* Whatever tail of the file is lost, the rest lies where it lay.          *)
LEMMA StopReadInv ==
  ASSUME IInv, ReadInv, Stop
  PROVE  ReadInv'
<1>1. /\ phase = "write" /\ phase' = "read" /\ failures' = failures /\ frags' = frags /\ records' = records
      /\ begin' = begin /\ position' = position /\ buffer' = buffer /\ eof' = eof /\ scratch' = scratch
      /\ read' = read /\ reported' = reported
  BY DEF Stop, writer, reader
<1>2. PICK m \in 0..Len(file) : file' = SubSeq(file, 1, m)
  BY DEF Stop
<1>3. /\ Len(file) \in Nat /\ m \in Nat /\ m <= Len(file) /\ Len(file') = m /\ DOMAIN file' = 1..m
      /\ DOMAIN file = 1..Len(file) /\ \A a \in 1..m : file'[a] = file[a]
  <2> DEFINE B == ByteOf(Len(frags))
  <2>1. file \in Seq(B)
    BY DEF IInv, FileOK
  <2> HIDE DEF B
  <2>2. \A a \in 1..m : file[a] \in B
    BY <2>1
  <2>3. /\ SubSeq(file, 1, m) \in Seq(B) /\ Len(SubSeq(file, 1, m)) = IF 1 <= m THEN m - 1 + 1 ELSE 0
        /\ \A a \in 1..(m - 1 + 1) : SubSeq(file, 1, m)[a] = file[1 + a - 1]
    BY <2>2, SubSeqProperties
  <2> QED BY <1>2, <2>1, <2>3
<1>4. PICK from, to \in [DOMAIN frags -> Nat] : Layout(from, to)
  BY DEF ReadInv
<1>5. \A i \in DOMAIN frags : /\ Size(i)' = Size(i) /\ (Kept(i)' <=> Kept(i)) /\ (Early(i)' <=> Early(i))
                             /\ from[i] \in Nat /\ to[i] \in Nat
  BY <1>1, <1>4 DEF Size, Kept, Early, Rec
<1>6. FragsRight'
  <2>1. Adding' <=> Adding
    BY <1>1 DEF Adding
  <2>2. \A i : Rec(i)' = Rec(i) /\ (Begins(i)' <=> Begins(i)) /\ (Ends(i)' <=> Ends(i))
    BY <1>1 DEF Rec, Begins, Ends
  <2>3. phase' # "write"
    BY <1>1
  <2>4. FragsRight
    BY DEF ReadInv
  <2> QED BY <1>1, <2>1, <2>3, <2>4 DEF FragsRight, Rec, Begins, Ends
<1>7. Laid(from, to)'
  <2>1. (\A i \in DOMAIN frags : /\ from[i] <= to[i] /\ to[i] <= from[i] + Size(i)
                                 /\ Kept(i) <=> to[i] = from[i] + Size(i))'
    BY <1>1, <1>4, <1>5 DEF Layout, Laid
  <2>2. (\A i, j \in DOMAIN frags : i < j => to[i] <= from[j])'
    BY <1>1, <1>4 DEF Layout, Laid
  <2>3. (\A i \in DOMAIN frags, a \in DOMAIN file : from[i] < a /\ a <= to[i] => file[a] = <<i, a - from[i]>>)'
    <3>1. \A a \in 1..m : a \in DOMAIN file
      BY <1>3
    <3>2. \A i \in DOMAIN frags, a \in DOMAIN file : from[i] < a /\ a <= to[i] => file[a] = <<i, a - from[i]>>
      BY <1>4 DEF Layout, Laid
    <3> QED BY <1>1, <1>3, <3>1, <3>2
  <2>4. (\A a \in DOMAIN file : file[a] = Zero \/ \E i \in DOMAIN frags : from[i] < a /\ a <= to[i])'
    <3>1. \A a \in 1..m : a \in DOMAIN file
      BY <1>3
    <3>2. \A a \in DOMAIN file : file[a] = Zero \/ \E i \in DOMAIN frags : from[i] < a /\ a <= to[i]
      BY <1>4 DEF Layout, Laid
    <3> QED BY <1>1, <1>3, <3>1, <3>2 DEF Zero
  <2>5. failures = 0 => IF Len(frags) = 0 THEN m = 0 ELSE m <= to[Len(frags)]
    <3>1. failures = 0 => IF Len(frags) = 0 THEN Len(file) = 0 ELSE Len(file) <= to[Len(frags)]
      BY <1>4 DEF Layout, Laid
    <3>2. Len(frags) # 0 => to[Len(frags)] \in Nat
      BY <1>5, Shapes
    <3> QED BY <1>3, <3>1, <3>2
  <2>6. (phase = "write" => \A i \in DOMAIN frags : to[i] <= Len(file))'
    BY <1>1
  <2>7. (failures = 0 => IF Len(frags) = 0 THEN Len(file) = 0 ELSE Len(file) <= to[Len(frags)])'
    BY <1>1, <1>3, <2>5
  <2> QED BY <2>1, <2>2, <2>3, <2>4, <2>6, <2>7, Zenon DEF Laid
<1>8. InBlocks(from, to)'
  BY <1>1, <1>4, <1>5 DEF Layout, InBlocks, BlockEnd
<1>9. /\ position = 0 /\ buffer = <<>> /\ read = <<>> /\ scratch = <<>> /\ eof = FALSE
      /\ (failures = 0 => reported = FALSE)
  BY <1>1, <1>4 DEF IInv, FileOK, Layout, InTurn, ReadInv, BufferRight
<1>10. Len(buffer) = 0 /\ DOMAIN buffer = {} /\ Len(read) = 0 /\ Here' = 0
  <2>1. Len(buffer) = 0 /\ DOMAIN buffer = {} /\ Len(read) = 0
    BY <1>9
  <2>2. Here' = position' - Len(buffer') /\ position' = 0 /\ Len(buffer') = 0
    BY <1>1, <1>9, <2>1 DEF Here
  <2> QED BY <2>1, <2>2
<1>11. BufferRight'
  <2>1. BlockSize \in Nat /\ 0 * BlockSize = 0 /\ 0 \in Nat
    BY LogAssumption
  <2>2. BlockEnd(0) /\ \E b \in Nat : b * BlockSize <= 0 /\ 0 <= b * BlockSize + BlockSize
    <3>1. 0 = 0 * BlockSize /\ 0 * BlockSize <= 0 /\ 0 <= 0 * BlockSize + BlockSize
      BY <2>1
    <3> QED BY <2>1, <3>1, Zenon DEF BlockEnd
  <2>3. (Len(buffer) <= position)' /\ (\A k \in DOMAIN buffer : buffer[k] = file[Here + k])'
    BY <1>1, <1>9, <1>10
  <2> QED BY <1>1, <1>9, <1>10, <2>2, <2>3 DEF BufferRight, BlockEnd
<1>12. CollectedRight(from, to)'
  <2>1. 1..Len(read') = {} /\ read' \in Seq(Seq(Nat))
    BY <1>1, <1>9, <1>10
  <2> QED BY <1>1, <1>9, <2>1 DEF CollectedRight
<1>13. InTurn(from, to)'
  <2>1. InStep(0, from, to)'
    <3>1. \A i \in DOMAIN frags : ~(i <= 0) /\ 0 <= from[i]
      BY <1>5, Shapes
    <3> QED BY <1>1, <1>9, <1>10, <3>1 DEF InStep
  <2>2. 0 \in 0..Len(frags')
    BY <1>1, Shapes
  <2> QED BY <1>1, <1>9, <2>1, <2>2 DEF InTurn
<1> QED BY <1>1, <1>4, <1>6, <1>7, <1>8, <1>11, <1>12, <1>13 DEF ReadInv, Layout

-------------------------------------------------------------------------------
(* Where the reader is: its buffer and the fragments of the file.          *)

(* The reader leaves the file and the writer's histories as they are.      *)
LEMMA ReaderKeeps ==
  ASSUME FragsRight, phase = "read", phase' \in {"read", "done"}, UNCHANGED <<file, writer>>,
         failures' = 0 => failures = 0, NEW from, NEW to, Laid(from, to), InBlocks(from, to)
  PROVE  FragsRight' /\ Laid(from, to)' /\ InBlocks(from, to)'
<1>1. /\ file' = file /\ frags' = frags /\ records' = records /\ begin' = begin
      /\ phase' # "write"
  BY DEF writer
<1>2. FragsRight'
  <2>1. Adding' <=> Adding
    BY <1>1 DEF Adding
  <2> QED BY <1>1, <2>1 DEF FragsRight, Rec, Begins, Ends
<1>3. Laid(from, to)'
  BY <1>1 DEF Laid, Size, Kept, Rec, Zero
<1>4. InBlocks(from, to)'
  BY <1>1 DEF InBlocks, Early, Rec, BlockEnd
<1> QED BY <1>2, <1>3, <1>4

(* What the reader has in its buffer is what the file has there.           *)
LEMMA HereFacts ==
  ASSUME IInv, BufferRight
  PROVE  /\ Here \in Nat /\ position \in Nat /\ Len(buffer) \in Nat /\ position = Here + Len(buffer)
         /\ position <= Len(file) /\ Len(file) \in Nat
      /\ DOMAIN buffer = 1..Len(buffer)
         /\ \A k \in 1..Len(buffer) : buffer[k] = file[Here + k] /\ Here + k \in DOMAIN file
<1>1. position \in Nat /\ Len(buffer) \in Nat /\ position <= Len(file) /\ Len(file) \in Nat
      /\ DOMAIN buffer = 1..Len(buffer)
      /\ DOMAIN file = 1..Len(file)
  BY DEF IInv, FileOK
<1>2. Here = position - Len(buffer) /\ Len(buffer) <= position
  BY DEF Here, BufferRight
<1>3. Here \in Nat /\ position = Here + Len(buffer)
  BY <1>1, <1>2
<1>4. \A k \in 1..Len(buffer) : buffer[k] = file[Here + k]
  BY <1>1 DEF BufferRight
<1>5. \A k \in 1..Len(buffer) : Here + k \in DOMAIN file
  BY <1>1, <1>3
<1> QED BY <1>1, <1>3, <1>4, <1>5

(* A byte of a fragment is where the fragment is.                          *)
LEMMA BytePlace ==
  ASSUME IInv, NEW from \in [DOMAIN frags -> Nat], NEW to \in [DOMAIN frags -> Nat], Laid(from, to),
         NEW a \in DOMAIN file, NEW i, NEW k, file[a] = <<i, k>>, i # 0
  PROVE  i \in DOMAIN frags /\ from[i] + k = a /\ from[i] < a /\ a <= to[i]
<1>1. file[a] # Zero
  BY DEF Zero
<1>2. PICK j \in DOMAIN frags : from[j] < a /\ a <= to[j]
  BY <1>1 DEF Laid
<1>3. file[a] = <<j, a - from[j]>>
  BY <1>2 DEF Laid
<1>4. j = i /\ k = a - from[i]
  BY <1>3
<1>5. a \in Nat /\ from[i] \in Nat
  BY <1>2, <1>4, Shapes
<1> QED BY <1>2, <1>4, <1>5

(* A sound header is the beginning of a fragment.                          *)
LEMMA HeaderPlace ==
  ASSUME IInv, BufferRight, NEW from \in [DOMAIN frags -> Nat], NEW to \in [DOMAIN frags -> Nat], Laid(from, to),
         Len(buffer) >= HeaderSize, Untorn
  PROVE  LET i == Head(buffer)[1] IN i \in DOMAIN frags /\ from[i] = Here /\ Here < to[i] /\ buffer[1] = <<i, 1>>
<1> DEFINE i == Head(buffer)[1]
<1>1. HeaderSize \in Nat \ {0} /\ Len(buffer) \in Nat /\ 1 \in 1..Len(buffer) /\ 1 \in 1..HeaderSize
  BY HereFacts, LogAssumption
<1>2. i # 0 /\ Header = [k \in 1..HeaderSize |-> <<i, k>>]
  BY DEF Untorn
<1>3. Header[1] = buffer[1]
  <2> DEFINE B == ByteOf(Len(frags))
  <2>1. buffer \in Seq(B)
    BY DEF IInv, FileOK
  <2> HIDE DEF B
  <2>2. \A a \in 1..HeaderSize : buffer[a] \in B
    BY <1>1, <2>1
  <2>3. \A a \in 1..(HeaderSize - 1 + 1) : SubSeq(buffer, 1, HeaderSize)[a] = buffer[1 + a - 1]
    BY <1>1, <2>2, SubSeqProperties
  <2> QED BY <1>1, <2>3 DEF Header
<1>4. buffer[1] = <<i, 1>>
  BY <1>1, <1>2, <1>3
<1> HIDE DEF i
<1>5. Here \in Nat /\ Here + 1 \in DOMAIN file /\ file[Here + 1] = <<i, 1>>
  BY <1>1, <1>4, HereFacts
<1>6. i \in DOMAIN frags /\ from[i] + 1 = Here + 1 /\ Here + 1 <= to[i]
  <2>1. PICK a \in DOMAIN file : a = Here + 1 /\ file[a] = <<i, 1>> /\ i # 0
    BY <1>2, <1>5
  <2>2. i \in DOMAIN frags /\ from[i] + 1 = a /\ a <= to[i]
    BY <2>1, BytePlace
  <2> QED BY <2>1, <2>2
<1>7. from[i] \in Nat /\ to[i] \in Nat
  BY <1>6
<1> QED BY <1>4, <1>5, <1>6, <1>7 DEF i

(* A sound record is a fragment that the file took.                        *)
LEMMA WholePlace ==
  ASSUME IInv, BufferRight, NEW from \in [DOMAIN frags -> Nat], NEW to \in [DOMAIN frags -> Nat], Laid(from, to),
         NEW i \in DOMAIN frags, from[i] = Here, Size(i) <= Len(buffer), Whole(i)
  PROVE  Kept(i) /\ to[i] = Here + Size(i)
<1>1. Size(i) \in Nat \ {0} /\ Len(buffer) \in Nat /\ Here \in Nat /\ to[i] \in Nat
  <2>1. Size(i) \in Nat /\ HeaderSize <= Size(i) /\ HeaderSize \in Nat \ {0}
    BY Shapes
  <2> QED BY <2>1, HereFacts
<1>2. SubSeq(buffer, 1, Size(i)) = [k \in 1..Size(i) |-> <<i, k>>]
  BY DEF Whole, Size
<1>3. buffer[Size(i)] = <<i, Size(i)>>
  <2> DEFINE B == ByteOf(Len(frags))
             s == Size(i)
  <2>1. buffer \in Seq(B) /\ s \in Nat \ {0} /\ s <= Len(buffer) /\ Len(buffer) \in Nat
    BY <1>1 DEF IInv, FileOK
  <2>2. SubSeq(buffer, 1, s) = [k \in 1..s |-> <<i, k>>]
    BY <1>2
  <2> HIDE DEF B, s
  <2>3. \A a \in 1..s : buffer[a] \in B
    BY <2>1
  <2>4. \A a \in 1..(s - 1 + 1) : SubSeq(buffer, 1, s)[a] = buffer[1 + a - 1]
    BY <2>1, <2>3, SubSeqProperties
  <2>5. SubSeq(buffer, 1, s)[s] = buffer[s]
    BY <2>1, <2>4
  <2>6. buffer[s] = <<i, s>>
    BY <2>1, <2>2, <2>5
  <2> QED BY <2>6 DEF s
<1>4. Size(i) \in 1..Len(buffer)
  BY <1>1
<1>5. Here + Size(i) \in DOMAIN file /\ file[Here + Size(i)] = <<i, Size(i)>>
  BY <1>3, <1>4, HereFacts
<1>6. i # 0
  BY Shapes
<1>7. Here + Size(i) <= to[i]
  BY <1>5, <1>6, BytePlace
<1>8. to[i] <= from[i] + Size(i)
  BY DEF Laid
<1>9. to[i] = from[i] + Size(i)
  BY <1>1, <1>7, <1>8
<1> QED BY <1>9 DEF Laid

(* What was read stays behind a reader that goes on.                       *)
LEMMA RunStays ==
  ASSUME UNCHANGED <<frags, records>>, NEW to, NEW ids, RunOf(ids, to), Here \in Nat, Here' \in Nat, Here <= Here',
         \A i \in DOMAIN frags : to[i] \in Nat
  PROVE  RunOf(ids, to)'
<1>1. /\ ids \in Seq(Nat) /\ Len(ids) # 0
      /\ \A n \in 1..Len(ids) : ids[n] \in DOMAIN frags /\ ids[n] = ids[1] + (n - 1) /\ Rec(ids[n]) = Rec(ids[1])
      /\ Begins(ids[1]) /\ Kept(ids[Len(ids)]) /\ to[ids[Len(ids)]] <= Here
  BY DEF RunOf
<1>2. Len(ids) \in 1..Len(ids)
  BY <1>1
<1>3. to[ids[Len(ids)]] <= Here'
  <2>1. ids[Len(ids)] \in DOMAIN frags /\ to[ids[Len(ids)]] <= Here
    BY <1>1, <1>2
  <2>2. to[ids[Len(ids)]] \in Nat
    BY <2>1
  <2> QED BY <2>1, <2>2
<1>4. \A n \in 1..Len(ids) : ids[n] \in DOMAIN frags' /\ ids[n] = ids[1] + (n - 1) /\ Rec(ids[n])' = Rec(ids[1])'
  BY <1>1 DEF Rec
<1>5. Begins(ids[1])' /\ Kept(ids[Len(ids)])'
  BY <1>1 DEF Begins, Kept, Rec
<1> QED BY <1>1, <1>3, <1>4, <1>5 DEF RunOf

(* A reader that drops what it has collected, or keeps it.                 *)
LEMMA CollectedStays ==
  ASSUME UNCHANGED <<frags, records, read>>, NEW from, NEW to, CollectedRight(from, to),
         Here \in Nat, Here' \in Nat, Here <= Here', \A i \in DOMAIN frags : to[i] \in Nat,
         \/ scratch' = <<>>
         \/ scratch' = scratch /\ phase = "read" /\ (Missed(scratch[Len(scratch)], from)' => Stuck')
  PROVE  CollectedRight(from, to)'
<1>1. ASSUME NEW k \in 1..Len(read) PROVE RunOf(read[k], to)' /\ Ends(read[k][Len(read[k])])'
  <2>1. RunOf(read[k], to) /\ Ends(read[k][Len(read[k])])
    BY DEF CollectedRight
  <2>2. PICK ids : ids = read[k]
    OBVIOUS
  <2>3. RunOf(ids, to)'
    BY <2>1, <2>2, RunStays
  <2>4. ids = read'[k] /\ Ends(ids[Len(ids)])'
    BY <2>1, <2>2 DEF Ends
  <2> QED BY <2>3, <2>4 DEF RunOf, Ends, Rec
<1>2. scratch' # <<>> => RunOf(scratch, to)' /\ ~Ends(scratch[Len(scratch)])'
  <2>1. SUFFICES ASSUME scratch' # <<>> PROVE RunOf(scratch, to)' /\ ~Ends(scratch[Len(scratch)])'
    OBVIOUS
  <2>2. scratch' = scratch /\ RunOf(scratch, to) /\ ~Ends(scratch[Len(scratch)])
    BY <2>1 DEF CollectedRight
  <2>3. PICK ids : ids = scratch
    OBVIOUS
  <2>4. RunOf(ids, to)' /\ ~Ends(ids[Len(ids)])'
    BY <2>2, <2>3, RunStays DEF Ends
  <2> QED BY <2>2, <2>3, <2>4 DEF RunOf, Ends, Rec
<1> QED BY <1>1, <1>2 DEF CollectedRight

(* What ReadBlock leaves in the buffer, and where the reader is then.      *)
LEMMA ReadBlockPlace ==
  ASSUME IInv, BufferRight, ReadBlock
  PROVE  /\ BufferRight' /\ phase = "read" /\ phase' = "read" /\ Len(buffer) < HeaderSize /\ eof = FALSE
         /\ Here' = position /\ Here \in Nat /\ position \in Nat /\ Here <= position /\ position < Here + HeaderSize
         /\ BlockEnd(position) /\ (Len(buffer') < HeaderSize => eof' = TRUE)
         /\ Len(buffer') \in Nat
         /\ \A k \in 1..Len(buffer') : buffer'[k] = file[position + k] /\ position + k \in DOMAIN file
         /\ UNCHANGED <<file, writer, failures, in_fragmented_record, scratch, read, reported>>
<1>0. PICK n : n = IF Len(file) - position < BlockSize THEN Len(file) - position ELSE BlockSize
  OBVIOUS
<1>1. /\ phase = "read" /\ phase' = "read" /\ Len(buffer) < HeaderSize /\ ~eof
      /\ buffer' = Take(n) /\ position' = position + n /\ eof' = (n < BlockSize)
      /\ UNCHANGED <<file, writer, failures, in_fragmented_record, scratch, read, reported>>
  BY <1>0 DEF ReadBlock
<1>2. /\ Here \in Nat /\ position \in Nat /\ Len(buffer) \in Nat /\ position = Here + Len(buffer)
      /\ position <= Len(file) /\ Len(file) \in Nat
  BY HereFacts
<1>3. BlockSize \in Nat \ {0} /\ HeaderSize \in Nat \ {0} /\ HeaderSize < BlockSize
  BY LogAssumption
<1>4. n \in Nat /\ n <= BlockSize /\ position + n <= Len(file) /\ (n < BlockSize => position + n = Len(file))
      /\ (~(n < BlockSize) => n = BlockSize)
  <2>1. CASE Len(file) - position < BlockSize
    <3>1. n = Len(file) - position
      BY <1>0, <2>1
    <3> QED BY <1>2, <1>3, <2>1, <3>1
  <2>2. CASE ~(Len(file) - position < BlockSize)
    <3>1. n = BlockSize
      BY <1>0, <2>2
    <3> QED BY <1>2, <1>3, <2>2, <3>1
  <2> QED BY <2>1, <2>2
<1>5. Len(buffer') = n /\ DOMAIN buffer' = 1..n /\ \A k \in 1..n : buffer'[k] = file[position + k]
  <2> DEFINE B == ByteOf(Len(frags))
  <2>1. file \in Seq(B)
    BY DEF IInv, FileOK
  <2> HIDE DEF B
  <2>2. \A a \in (position + 1)..(position + n) : file[a] \in B
    BY <1>2, <1>4, <2>1
  <2> DEFINE s == SubSeq(file, position + 1, position + n)
  <2>3. s \in Seq(B) /\ Len(s) = (IF position + 1 <= position + n THEN position + n - (position + 1) + 1 ELSE 0)
    BY <1>2, <1>4, <2>2, SubSeqProperties
  <2>4. \A k \in 1..(position + n - (position + 1) + 1) : s[k] = file[(position + 1) + k - 1]
    BY <1>2, <1>4, <2>2, SubSeqProperties
  <2>5. buffer' = s
    BY <1>1 DEF Take
  <2> HIDE DEF s
  <2>6. Len(s) = n
    BY <1>2, <1>4, <2>3
  <2>7. \A k \in 1..n : s[k] = file[position + k]
    <3> SUFFICES ASSUME NEW k \in 1..n PROVE s[k] = file[position + k]
      OBVIOUS
    <3>1. k \in 1..(position + n - (position + 1) + 1) /\ (position + 1) + k - 1 = position + k
      BY <1>2, <1>4
    <3> QED BY <2>4, <3>1
  <2> QED BY <2>3, <2>5, <2>6, <2>7
<1>6. PICK b \in Nat : position = b * BlockSize
  BY <1>1 DEF BufferRight, BlockEnd
<1>7. Here' = position
  <2>1. Here' = position' - Len(buffer')
    BY DEF Here
  <2> QED BY <1>1, <1>2, <1>4, <1>5, <2>1
<1>8. \A k \in 1..n : position + k \in DOMAIN file
  <2>1. DOMAIN file = 1..Len(file)
    BY Shapes
  <2>2. ASSUME NEW k \in 1..n PROVE position + k \in 1..Len(file)
    BY <1>2, <1>4
  <2> QED BY <2>1, <2>2
<1>9. BufferRight'
  <2> DEFINE base == b * BlockSize
  <2>1. base \in Nat /\ (b + 1) * BlockSize = base + BlockSize /\ position = base
    BY <1>3, <1>6
  <2>2. b * BlockSize <= Here' /\ position' <= b * BlockSize + BlockSize
    <3>1. base <= Here' /\ position' <= base + BlockSize
      <4> HIDE DEF base
      <4> QED BY <1>1, <1>2, <1>3, <1>4, <1>7, <2>1
    <3> QED BY <3>1
  <2>3. IF eof' THEN position' = Len(file') ELSE \E c \in Nat : position' = c * BlockSize
    <3>1. CASE n < BlockSize
      BY <1>1, <1>4, <3>1
    <3>2. CASE ~(n < BlockSize)
      <4>1. position' = base + BlockSize
        <5> HIDE DEF base
        <5> QED BY <1>1, <1>4, <2>1, <3>2
      <4>2. b + 1 \in Nat /\ position' = (b + 1) * BlockSize
        BY <2>1, <4>1
      <4> QED BY <1>1, <3>2, <4>2
    <3> QED BY <3>1, <3>2
  <2>4. (Len(buffer) <= position)' /\ (\A k \in DOMAIN buffer : buffer[k] = file[Here + k])'
    BY <1>1, <1>2, <1>4, <1>5, <1>7
  <2>5. \E c \in Nat : c * BlockSize <= Here' /\ position' <= c * BlockSize + BlockSize
    BY <2>2
  <2>6. phase' # "write"
    BY <1>1
  <2> QED BY <2>3, <2>4, <2>5, <2>6 DEF BufferRight, BlockEnd
<1>10. position < Here + HeaderSize /\ Here <= position
  BY <1>1, <1>2, <1>3
<1>11. Len(buffer') < HeaderSize => eof' = TRUE
  <2>1. ASSUME Len(buffer') < HeaderSize PROVE eof' = TRUE
    <3>1. n < BlockSize
      BY <1>3, <1>4, <1>5, <2>1
    <3> QED BY <1>1, <3>1
  <2> QED BY <2>1
<1>12. BlockEnd(position)
  BY <1>6 DEF BlockEnd
<1>13. eof = FALSE
  BY <1>1 DEF IInv, CollectOK
<1> QED BY <1>1, <1>2, <1>4, <1>5, <1>7, <1>8, <1>9, <1>10, <1>11, <1>12, <1>13

(* A trailer is shorter than a header: a fragment that begins in the bytes *)
(* dropped goes on in the next block, where no header is found.            *)
LEMMA ReadBlockCollected ==
  ASSUME IInv, BufferRight, ReadBlock, NEW from \in [DOMAIN frags -> Nat], NEW to \in [DOMAIN frags -> Nat],
         Laid(from, to), CollectedRight(from, to)
  PROVE  CollectedRight(from, to)'
<1>1. /\ phase = "read" /\ Len(buffer) < HeaderSize /\ eof = FALSE
      /\ Here' = position /\ Here \in Nat /\ position \in Nat /\ Here <= position /\ position < Here + HeaderSize
      /\ (Len(buffer') < HeaderSize => eof' = TRUE) /\ Len(buffer') \in Nat
      /\ \A k \in 1..Len(buffer') : buffer'[k] = file[position + k] /\ position + k \in DOMAIN file
      /\ UNCHANGED <<file, writer, scratch, read>>
  BY ReadBlockPlace
<1>2. \A i \in DOMAIN frags : /\ from[i] \in Nat /\ to[i] \in Nat /\ Size(i) \in Nat /\ HeaderSize <= Size(i)
                             /\ (Kept(i) <=> to[i] = from[i] + Size(i))
  BY Shapes DEF Laid
<1>3. HeaderSize \in Nat \ {0}
  BY LogAssumption
<1>4. frags' = frags /\ records' = records
  BY <1>1 DEF writer
<1>5. ASSUME scratch # <<>>, Missed(scratch[Len(scratch)], from)' PROVE Stuck'
  <2>1. ~Missed(scratch[Len(scratch)], from)
    <3>1. ~Stuck
      BY <1>1 DEF Stuck
    <3> QED BY <1>1, <1>5, <3>1 DEF CollectedRight
  <2>2. PICK j \in DOMAIN frags : j > scratch[Len(scratch)] /\ Kept(j) /\ from[j] < position
    <3>1. \E j \in DOMAIN frags' : j > scratch'[Len(scratch')] /\ Kept(j)' /\ from[j] < Here'
      BY <1>5 DEF Missed
    <3>2. \A j : Kept(j)' <=> Kept(j)
      BY <1>4 DEF Kept, Rec
    <3> QED BY <1>1, <1>4, <3>1, <3>2
  <2>3. Here <= from[j]
    BY <1>1, <1>2, <2>1, <2>2 DEF Missed
  <2>4. from[j] < position + 1 /\ position + 1 <= to[j]
    BY <1>1, <1>2, <1>3, <2>2, <2>3
  <2>5. CASE Len(buffer') < HeaderSize
    BY <1>1, <2>5 DEF Stuck
  <2>6. CASE ~(Len(buffer') < HeaderSize)
    <3>1. 1 \in 1..Len(buffer')
      BY <1>1, <1>3, <2>6
    <3>2. buffer'[1] = file[position + 1] /\ position + 1 \in DOMAIN file
      BY <1>1, <3>1
    <3>3. file[position + 1] = <<j, (position + 1) - from[j]>>
      BY <2>4, <3>2 DEF Laid
    <3>4. (position + 1) - from[j] # 1
      BY <1>1, <1>2, <2>2
    <3>5. buffer'[1][2] # 1
      BY <3>2, <3>3, <3>4
    <3> QED BY <2>6, <3>5 DEF Stuck
  <2> QED BY <2>5, <2>6
<1>6. \/ scratch' = <<>>
      \/ scratch' = scratch /\ phase = "read" /\ (Missed(scratch[Len(scratch)], from)' => Stuck')
  BY <1>1, <1>5
<1> QED BY <1>1, <1>2, <1>4, <1>6, CollectedStays

(* The record read next is a fragment that follows those behind the reader.*)
LEMMA RecordPlace ==
  ASSUME IInv, BufferRight, ReadPhysicalRecord,
         NEW from \in [DOMAIN frags -> Nat], NEW to \in [DOMAIN frags -> Nat], Laid(from, to)
  PROVE  \E i \in DOMAIN frags :
           /\ phase = "read" /\ phase' = "read" /\ Collect(i) /\ Kept(i) /\ from[i] = Here /\ to[i] = Here' /\ Here < Here'
           /\ Here \in Nat /\ Here' \in Nat /\ ~Stuck
           /\ BufferRight'
           /\ \A j \in DOMAIN frags : to[j] <= Here => j < i
           /\ \A j \in DOMAIN frags : j > i => Here' <= from[j]
           /\ \A j \in DOMAIN frags : j < i => to[j] <= Here
           /\ UNCHANGED <<file, writer, failures>>
<1>0. PICK i : i = Head(buffer)[1]
  OBVIOUS
<1>1. /\ phase = "read" /\ phase' = "read" /\ Len(buffer) >= HeaderSize /\ Untorn
      /\ Size(i) <= Len(buffer) /\ Whole(i) /\ Collect(i)
      /\ buffer' = SubSeq(buffer, Size(i) + 1, Len(buffer))
      /\ UNCHANGED <<file, writer, failures, position, eof>>
  BY <1>0 DEF ReadPhysicalRecord, Size
<1>2. i \in DOMAIN frags /\ from[i] = Here /\ Here < to[i] /\ buffer[1] = <<i, 1>>
  BY <1>0, <1>1, HeaderPlace
<1>3. Kept(i) /\ to[i] = Here + Size(i)
  BY <1>1, <1>2, WholePlace
<1>4. /\ Here \in Nat /\ position \in Nat /\ Len(buffer) \in Nat /\ position = Here + Len(buffer)
      /\ \A k \in 1..Len(buffer) : buffer[k] = file[Here + k]
  BY HereFacts
<1>5. Size(i) \in Nat \ {0} /\ HeaderSize \in Nat \ {0} /\ BlockSize \in Nat
  <2>1. Size(i) \in Nat /\ HeaderSize <= Size(i) /\ HeaderSize \in Nat \ {0}
    BY <1>2, Shapes
  <2> QED BY <2>1, LogAssumption
<1>6. Len(buffer') = Len(buffer) - Size(i) /\ DOMAIN buffer' = 1..(Len(buffer) - Size(i))
      /\ \A k \in 1..(Len(buffer) - Size(i)) : buffer'[k] = buffer[Size(i) + k]
  <2> DEFINE B == ByteOf(Len(frags))
             s == Size(i)
             u == SubSeq(buffer, s + 1, Len(buffer))
  <2>1. buffer \in Seq(B)
    BY DEF IInv, FileOK
  <2>0. s \in Nat \ {0} /\ s <= Len(buffer) /\ buffer' = u
    BY <1>1, <1>5
  <2> HIDE DEF B, s
  <2>2. \A a \in (s + 1)..Len(buffer) : buffer[a] \in B
    BY <1>4, <2>0, <2>1
  <2>3. u \in Seq(B) /\ Len(u) = (IF s + 1 <= Len(buffer) THEN Len(buffer) - (s + 1) + 1 ELSE 0)
    BY <1>4, <2>0, <2>2, SubSeqProperties
  <2>4. \A k \in 1..(Len(buffer) - (s + 1) + 1) : u[k] = buffer[(s + 1) + k - 1]
    BY <1>4, <2>0, <2>2, SubSeqProperties
  <2> HIDE DEF u
  <2>5. Len(u) = Len(buffer) - s
    BY <1>4, <2>0, <2>3
  <2>6. \A k \in 1..(Len(buffer) - s) : u[k] = buffer[s + k]
    <3> SUFFICES ASSUME NEW k \in 1..(Len(buffer) - s) PROVE u[k] = buffer[s + k]
      OBVIOUS
    <3>1. k \in 1..(Len(buffer) - (s + 1) + 1) /\ (s + 1) + k - 1 = s + k
      BY <1>4, <2>0
    <3> QED BY <2>4, <3>1
  <2> QED BY <2>0, <2>3, <2>5, <2>6 DEF s
<1>7. Here' = Here + Size(i)
  <2>1. Here' = position' - Len(buffer')
    BY DEF Here
  <2> QED BY <1>1, <1>4, <1>5, <1>6, <2>1
<1>8. BufferRight'
  <2>1. (Len(buffer) <= position)'
    BY <1>1, <1>4, <1>5, <1>6
  <2>2. ASSUME NEW k \in DOMAIN buffer' PROVE buffer'[k] = file'[Here' + k]
    <3>1. Size(i) + k \in 1..Len(buffer) /\ Here + (Size(i) + k) = Here' + k
      <4>1. k \in 1..(Len(buffer) - Size(i))
        BY <1>6
      <4>2. Size(i) + k \in 1..Len(buffer)
        BY <1>1, <1>4, <1>5, <4>1
      <4>3. Here + (Size(i) + k) = (Here + Size(i)) + k
        BY <1>4, <1>5, <4>1
      <4> QED BY <1>7, <4>2, <4>3
    <3>2. buffer'[k] = buffer[Size(i) + k]
      BY <1>6
    <3> QED BY <1>1, <1>4, <3>1, <3>2
  <2>3. PICK b \in Nat : b * BlockSize <= Here /\ position <= b * BlockSize + BlockSize
    BY <1>1 DEF BufferRight
  <2>4. b * BlockSize <= Here' /\ position' <= b * BlockSize + BlockSize
    <3> DEFINE base == b * BlockSize
    <3>1. base \in Nat /\ base <= Here /\ position <= base + BlockSize
      BY <1>5, <2>3
    <3> HIDE DEF base
    <3>2. base <= Here' /\ position' <= base + BlockSize
      BY <1>1, <1>4, <1>5, <1>7, <3>1
    <3> QED BY <3>2 DEF base
  <2>5. (IF eof THEN position = Len(file) ELSE BlockEnd(position))'
    BY <1>1 DEF BufferRight, BlockEnd
  <2>6. (\A k \in DOMAIN buffer : buffer[k] = file[Here + k])'
    BY <2>2
  <2>7. (\E c \in Nat : c * BlockSize <= Here /\ position <= c * BlockSize + BlockSize)'
    BY <2>4
  <2>8. phase' # "write"
    BY <1>1
  <2> QED BY <2>1, <2>5, <2>6, <2>7, <2>8, Zenon DEF BufferRight
<1>9. \A j \in DOMAIN frags : /\ from[j] \in Nat /\ to[j] \in Nat /\ from[j] <= to[j] /\ j \in Nat
                             /\ (j < i => to[j] <= from[i]) /\ (i < j => to[i] <= from[j])
  <2>1. DOMAIN frags = 1..Len(frags) /\ Len(frags) \in Nat
    BY Shapes
  <2>2. \A j \in DOMAIN frags : j \in Nat /\ from[j] \in Nat /\ to[j] \in Nat
    BY <2>1
  <2>3. \A j \in DOMAIN frags : from[j] <= to[j] /\ (j < i => to[j] <= from[i]) /\ (i < j => to[i] <= from[j])
    BY <1>2 DEF Laid
  <2> QED BY <2>2, <2>3
<1>10. i \in Nat
  BY <1>2, <1>9
<1>11. ASSUME NEW j \in DOMAIN frags
       PROVE  (to[j] <= Here => j < i) /\ (j > i => Here' <= from[j]) /\ (j < i => to[j] <= Here)
  <2>1. j < i => to[j] <= Here
    BY <1>2, <1>9
  <2>2. j > i => Here' <= from[j]
    BY <1>3, <1>7, <1>9, <1>10
  <2>3. ASSUME to[j] <= Here PROVE j < i
    <3>1. j # i
      BY <1>2, <1>4, <1>9, <2>3
    <3>2. ~(i < j)
      <4>1. ASSUME i < j PROVE FALSE
        BY <1>2, <1>4, <1>9, <2>3, <4>1
      <4> QED BY <4>1
    <3> QED BY <1>9, <1>10, <3>1, <3>2
  <2> QED BY <2>1, <2>2, <2>3
<1>12. ~Stuck
  BY <1>1, <1>2, <1>4, <1>5 DEF Stuck
<1>13. Here' \in Nat /\ Here < Here' /\ to[i] = Here'
  BY <1>3, <1>4, <1>5, <1>7
<1> QED BY <1>1, <1>2, <1>3, <1>4, <1>8, <1>11, <1>12, <1>13

-------------------------------------------------------------------------------
(* What the reader collects: runs of fragments of one record.              *)

(* A fragment that goes on with a record follows the last one collected.   *)
LEMMA NextInRun ==
  ASSUME IInv, FragsRight, NEW from \in [DOMAIN frags -> Nat], NEW to \in [DOMAIN frags -> Nat],
         Laid(from, to), CollectedRight(from, to), phase = "read", ~Stuck, Here \in Nat,
         NEW i \in DOMAIN frags, from[i] = Here, \A j \in DOMAIN frags : to[j] <= Here => j < i,
         scratch # <<>>, ~Begins(i)
  PROVE  LET c == scratch[Len(scratch)]
         IN c \in DOMAIN frags /\ i = c + 1 /\ Rec(i) = Rec(c)
<1> DEFINE c == scratch[Len(scratch)]
<1>1. RunOf(scratch, to) /\ ~Missed(c, from)
  BY DEF CollectedRight
<1>2. c \in DOMAIN frags /\ to[c] <= Here
  <2>1. Len(scratch) \in 1..Len(scratch)
    BY <1>1 DEF RunOf
  <2> QED BY <1>1, <2>1 DEF RunOf
<1> HIDE DEF c
<1>3. c < i
  BY <1>2
<1>4. /\ DOMAIN frags = 1..Len(frags) /\ Len(frags) \in Nat
      /\ \A j \in DOMAIN frags : Size(j) \in Nat /\ HeaderSize <= Size(j) /\ Rec(j) \in Nat
      /\ HeaderSize \in Nat \ {0}
  <2>1. /\ DOMAIN frags = 1..Len(frags) /\ Len(frags) \in Nat /\ HeaderSize \in Nat \ {0}
        /\ DOMAIN records = 1..Len(records) /\ Len(records) \in Nat
        /\ \A j \in DOMAIN frags : Size(j) \in Nat /\ HeaderSize <= Size(j) /\ Rec(j) \in DOMAIN records
    BY Shapes
  <2> QED BY <2>1
<1>5. c \in Nat /\ i \in Nat /\ i - 1 \in DOMAIN frags /\ i # 1
  BY <1>2, <1>3, <1>4
<1>6. Rec(i - 1) = Rec(i)
  <2>1. ~(Rec(i - 1) < Rec(i))
    BY <1>5 DEF FragsRight
  <2>2. Rec(i - 1) <= Rec(i)
    BY <1>4, <1>5 DEF FragsRight
  <2>3. Rec(i - 1) \in Nat /\ Rec(i) \in Nat
    BY <1>4, <1>5
  <2> QED BY <2>1, <2>2, <2>3
<1>7. Kept(i - 1)
  <2>1. (i - 1) + 1 = i
    BY <1>5
  <2> QED BY <1>6, <2>1 DEF Kept
<1>8. from[i - 1] < Here
  <2>1. to[i - 1] = from[i - 1] + Size(i - 1) /\ to[i - 1] <= from[i]
    BY <1>4, <1>5, <1>7 DEF Laid
  <2>2. from[i - 1] \in Nat /\ Size(i - 1) \in Nat /\ HeaderSize <= Size(i - 1)
    BY <1>4, <1>5
  <2> QED BY <1>4, <2>1, <2>2
<1>9. ~(i - 1 > c)
  BY <1>1, <1>5, <1>7, <1>8 DEF Missed
<1>10. i = c + 1
  BY <1>3, <1>5, <1>9
<1>11. i - 1 = c
  BY <1>5, <1>10
<1> QED BY <1>2, <1>6, <1>10, <1>11 DEF c

(* A run goes on with the next fragment.                                   *)
LEMMA RunAppend ==
  ASSUME UNCHANGED <<frags, records>>, NEW to, NEW ids, RunOf(ids, to), NEW i \in DOMAIN frags, i \in Nat,
         i = ids[Len(ids)] + 1, Rec(i) = Rec(ids[Len(ids)]), Kept(i), to[i] <= Here', NEW ids2, ids2 = Append(ids, i)
  PROVE  RunOf(ids2, to)'
<1>1. /\ ids \in Seq(Nat) /\ Len(ids) # 0
      /\ \A n \in 1..Len(ids) : ids[n] \in DOMAIN frags /\ ids[n] = ids[1] + (n - 1) /\ Rec(ids[n]) = Rec(ids[1])
      /\ Begins(ids[1])
  BY DEF RunOf
<1>2. Len(ids) \in Nat \ {0} /\ Len(ids) \in 1..Len(ids) /\ 1 \in 1..Len(ids) /\ ids[1] \in Nat
  BY <1>1
<1>3. /\ ids2 \in Seq(Nat) /\ Len(ids2) = Len(ids) + 1 /\ ids2[Len(ids) + 1] = i
      /\ \A n \in 1..Len(ids) : ids2[n] = ids[n]
  BY <1>1, <1>2
<1>4. ids2[1] = ids[1] /\ ids2[Len(ids2)] = i /\ Len(ids2) # 0
  BY <1>2, <1>3
<1>5. i = ids[1] + Len(ids) /\ Rec(i) = Rec(ids[1])
  <2>1. ids[Len(ids)] = ids[1] + (Len(ids) - 1) /\ Rec(ids[Len(ids)]) = Rec(ids[1])
    BY <1>1, <1>2
  <2> QED BY <1>2, <2>1
<1>6. ASSUME NEW n \in 1..Len(ids2)
      PROVE  ids2[n] \in DOMAIN frags /\ ids2[n] = ids2[1] + (n - 1) /\ Rec(ids2[n]) = Rec(ids2[1])
  <2>1. CASE n = Len(ids) + 1
    <3>1. ids2[n] = i /\ i = ids[1] + (n - 1)
      BY <1>2, <1>3, <1>5, <2>1
    <3> QED BY <1>4, <1>5, <3>1
  <2>2. CASE n # Len(ids) + 1
    <3>1. n \in 1..Len(ids)
      BY <1>2, <1>3, <2>2
    <3> QED BY <1>1, <1>3, <1>4, <3>1
  <2> QED BY <2>1, <2>2
<1>7. \A n \in 1..Len(ids2) : ids2[n] \in DOMAIN frags' /\ ids2[n] = ids2[1] + (n - 1) /\ Rec(ids2[n])' = Rec(ids2[1])'
  BY <1>6 DEF Rec
<1>8. Begins(ids2[1])' /\ Kept(ids2[Len(ids2)])' /\ to[ids2[Len(ids2)]] <= Here'
  <2>1. Begins(ids2[1]) /\ Kept(ids2[Len(ids2)]) /\ to[ids2[Len(ids2)]] <= Here'
    BY <1>1, <1>4
  <2> QED BY <2>1 DEF Begins, Kept, Rec
<1> QED BY <1>3, <1>4, <1>7, <1>8 DEF RunOf

(* A run of the first fragment of a record.                                *)
LEMMA RunOfOne ==
  ASSUME UNCHANGED <<frags, records>>, NEW to, NEW i \in DOMAIN frags, i \in Nat,
         Begins(i), Kept(i), to[i] <= Here', NEW ids, ids = <<i>>
  PROVE  RunOf(ids, to)' /\ ids[Len(ids)] = i /\ ids[1] = i
<1>1. ids \in Seq(Nat) /\ Len(ids) = 1 /\ ids[1] = i
  OBVIOUS
<1>2. \A n \in 1..Len(ids) : ids[n] \in DOMAIN frags' /\ ids[n] = ids[1] + (n - 1) /\ Rec(ids[n])' = Rec(ids[1])'
  <2> SUFFICES ASSUME NEW n \in 1..Len(ids)
               PROVE  ids[n] \in DOMAIN frags' /\ ids[n] = ids[1] + (n - 1) /\ Rec(ids[n])' = Rec(ids[1])'
    OBVIOUS
  <2>1. n = 1
    BY <1>1
  <2> QED BY <1>1, <2>1
<1>3. Begins(ids[1])' /\ Kept(ids[Len(ids)])' /\ to[ids[Len(ids)]] <= Here'
  <2>1. Begins(ids[1]) /\ Kept(ids[Len(ids)]) /\ to[ids[Len(ids)]] <= Here'
    BY <1>1
  <2> QED BY <2>1 DEF Begins, Kept, Rec
<1> QED BY <1>1, <1>2, <1>3 DEF RunOf

(* A record is returned behind the others.                                 *)
LEMMA ReadGrows ==
  ASSUME UNCHANGED <<frags, records>>, NEW from, NEW to, CollectedRight(from, to),
         Here \in Nat, Here' \in Nat, Here <= Here',
         \A i \in DOMAIN frags : to[i] \in Nat,
         NEW ids, RunOf(ids, to)', Ends(ids[Len(ids)]), ids \in Seq(Nat),
         \A k \in 1..Len(read) : read[k][Len(read[k])] < ids[1],
         read' = Append(read, ids), scratch' = <<>>
  PROVE  CollectedRight(from, to)'
<1>1. read \in Seq(Seq(Nat)) /\ Len(read) \in Nat
  BY DEF CollectedRight
<1>2. /\ read' \in Seq(Seq(Nat)) /\ Len(read') = Len(read) + 1 /\ read'[Len(read) + 1] = ids
      /\ \A k \in 1..Len(read) : read'[k] = read[k]
  <2> DEFINE S == Seq(Nat)
  <2>1. read \in Seq(S) /\ ids \in S
    BY <1>1
  <2> HIDE DEF S
  <2>2. /\ Append(read, ids) \in Seq(S) /\ Len(Append(read, ids)) = Len(read) + 1
        /\ \A k \in 1..Len(read) : Append(read, ids)[k] = read[k]
        /\ Append(read, ids)[Len(read) + 1] = ids
    BY <2>1, AppendProperties
  <2> QED BY <2>2 DEF S
<1>3. ASSUME NEW k \in 1..Len(read') PROVE RunOf(read[k], to)' /\ Ends(read[k][Len(read[k])])'
  <2>1. CASE k = Len(read) + 1
    <3>1. Ends(ids[Len(ids)])'
      BY DEF Ends
    <3>2. ids = read'[k]
      BY <1>2, <2>1
    <3> QED BY <3>1, <3>2 DEF RunOf, Ends, Rec
  <2>2. CASE k # Len(read) + 1
    <3>1. k \in 1..Len(read)
      BY <1>1, <1>2, <2>2
    <3>2. RunOf(read[k], to) /\ Ends(read[k][Len(read[k])])
      BY <3>1 DEF CollectedRight
    <3>3. PICK old : old = read[k]
      OBVIOUS
    <3>4. RunOf(old, to)'
      BY <3>2, <3>3, RunStays
    <3>5. old = read'[k] /\ Ends(old[Len(old)])'
      BY <1>2, <3>1, <3>2, <3>3 DEF Ends
    <3> QED BY <3>4, <3>5 DEF RunOf, Ends, Rec
  <2> QED BY <2>1, <2>2
<1>4. ASSUME NEW k \in 1..Len(read'), NEW l \in 1..Len(read'), k < l
      PROVE  read'[k][Len(read'[k])] < read'[l][1]
  <2>0. k \in 1..Len(read)
    BY <1>1, <1>2, <1>4
  <2>1. CASE l = Len(read) + 1
    BY <1>2, <2>0, <2>1
  <2>2. CASE l # Len(read) + 1
    <3>1. l \in 1..Len(read)
      BY <1>1, <1>2, <2>2
    <3>2. read[k][Len(read[k])] < read[l][1]
      BY <1>4, <2>0, <3>1 DEF CollectedRight
    <3> QED BY <1>2, <2>0, <3>1, <3>2
  <2> QED BY <2>1, <2>2
<1>5. (\A k \in 1..Len(read) : RunOf(read[k], to) /\ Ends(read[k][Len(read[k])]))'
  BY <1>3
<1>6. (\A k, l \in 1..Len(read) : k < l => read[k][Len(read[k])] < read[l][1])'
  BY <1>4
<1> QED BY <1>2, <1>5, <1>6 DEF CollectedRight

(* ReadRecord's switch, with the fragments it has.                         *)
LEMMA CollectCases ==
  ASSUME IInv, FragsRight, NEW i \in DOMAIN frags, Collect(i)
  PROVE  \/ Begins(i) /\ Ends(i) /\ read' = Append(read, <<i>>) /\ scratch' = <<>>
            /\ (scratch = <<>> => reported' = reported)
         \/ Begins(i) /\ ~Ends(i) /\ read' = read /\ scratch' = <<i>> /\ (scratch = <<>> => reported' = reported)
         \/ ~Begins(i) /\ scratch = <<>> /\ read' = read /\ scratch' = scratch
         \/ ~Begins(i) /\ ~Ends(i) /\ scratch # <<>> /\ read' = read /\ scratch' = Append(scratch, i) /\ reported' = reported
         \/ ~Begins(i) /\ Ends(i) /\ scratch # <<>> /\ read' = Append(read, Append(scratch, i)) /\ scratch' = <<>>
            /\ reported' = reported
<1>1. (in_fragmented_record <=> scratch # <<>>) /\ reported \in BOOLEAN /\ in_fragmented_record \in BOOLEAN
  BY DEF IInv, CollectOK
<1> DEFINE type == frags[i].type
           unended == in_fragmented_record /\ Bytes(scratch) > 0
<1>2. (Begins(i) <=> type \in {"full", "first"}) /\ (Ends(i) <=> type \in {"full", "last"})
  BY DEF Begins, Ends
<1>3. scratch = <<>> => reported = (reported \/ unended)
  BY <1>1, Zenon
<1>4. \/ type = "full" /\ read' = Append(read, <<i>>) /\ scratch' = <<>> /\ reported' = (reported \/ unended)
      \/ type = "first" /\ scratch' = <<i>> /\ reported' = (reported \/ unended) /\ read' = read
      \/ type \in {"middle", "last"} /\ ~in_fragmented_record /\ read' = read /\ scratch' = scratch
      \/ type = "middle" /\ in_fragmented_record /\ scratch' = Append(scratch, i) /\ read' = read /\ reported' = reported
      \/ type = "last" /\ in_fragmented_record /\ read' = Append(read, Append(scratch, i)) /\ scratch' = <<>>
         /\ reported' = reported
  BY Zenon DEF Collect
<1> HIDE DEF type, unended
<1>5. CASE type = "full" /\ read' = Append(read, <<i>>) /\ scratch' = <<>> /\ reported' = (reported \/ unended)
  BY <1>2, <1>3, <1>5
<1>6. CASE type = "first" /\ scratch' = <<i>> /\ reported' = (reported \/ unended) /\ read' = read
  BY <1>2, <1>3, <1>6
<1>7. CASE type \in {"middle", "last"} /\ ~in_fragmented_record /\ read' = read /\ scratch' = scratch
  BY <1>1, <1>2, <1>7
<1>8. CASE type = "middle" /\ in_fragmented_record /\ scratch' = Append(scratch, i) /\ read' = read /\ reported' = reported
  BY <1>1, <1>2, <1>8
<1>9. CASE type = "last" /\ in_fragmented_record /\ read' = Append(read, Append(scratch, i)) /\ scratch' = <<>>
           /\ reported' = reported
  BY <1>1, <1>2, <1>9
<1> QED BY <1>4, <1>5, <1>6, <1>7, <1>8, <1>9

(* Whatever record is read, what is collected and returned is right.       *)
LEMMA ReadPhysicalRecordCollected ==
  ASSUME IInv, FragsRight, BufferRight, ReadPhysicalRecord,
         NEW from \in [DOMAIN frags -> Nat], NEW to \in [DOMAIN frags -> Nat], Laid(from, to), CollectedRight(from, to)
  PROVE  CollectedRight(from, to)'
<1>1. PICK i \in DOMAIN frags :
           /\ phase = "read" /\ phase' = "read" /\ Collect(i) /\ Kept(i) /\ from[i] = Here /\ to[i] = Here' /\ Here < Here'
           /\ Here \in Nat /\ Here' \in Nat /\ ~Stuck
           /\ BufferRight'
           /\ \A j \in DOMAIN frags : to[j] <= Here => j < i
           /\ \A j \in DOMAIN frags : j > i => Here' <= from[j]
           /\ \A j \in DOMAIN frags : j < i => to[j] <= Here
           /\ UNCHANGED <<file, writer, failures>>
  BY RecordPlace
<1>2. UNCHANGED <<frags, records>> /\ Here <= Here' /\ i \in Nat /\ to[i] <= Here'
      /\ \A j \in DOMAIN frags : to[j] \in Nat
  <2>1. DOMAIN frags = 1..Len(frags)
    BY Shapes
  <2> QED BY <1>1, <2>1 DEF writer
<1>3. ASSUME NEW k \in 1..Len(read) PROVE read[k][Len(read[k])] < i
  <2>1. RunOf(read[k], to)
    BY DEF CollectedRight
  <2> DEFINE ids == read[k]
  <2>2. ids \in Seq(Nat) /\ Len(ids) # 0 /\ to[ids[Len(ids)]] <= Here /\ \A n \in 1..Len(ids) : ids[n] \in DOMAIN frags
    BY <2>1 DEF RunOf
  <2> HIDE DEF ids
  <2>3. ids[Len(ids)] \in DOMAIN frags
    BY <2>2
  <2> QED BY <1>1, <2>2, <2>3 DEF ids
<1>4. ASSUME NEW j \in DOMAIN frags, j = i PROVE ~Missed(j, from)'
  <2>1. SUFFICES ASSUME NEW l \in DOMAIN frags, l > i, from[l] < Here' PROVE FALSE
    BY <1>2, <1>4 DEF Missed
  <2> QED BY <1>1, <1>2, <2>1
<1>5. CASE Begins(i) /\ Ends(i) /\ read' = Append(read, <<i>>) /\ scratch' = <<>>
  <2>1. PICK ids : ids = <<i>>
    OBVIOUS
  <2>2. RunOf(ids, to)' /\ ids[Len(ids)] = i /\ ids[1] = i
    BY <1>1, <1>2, <1>5, <2>1, RunOfOne
  <2>3. ids \in Seq(Nat)
    BY <1>2, <2>1
  <2>4. Ends(ids[Len(ids)]) /\ read' = Append(read, ids) /\ \A k \in 1..Len(read) : read[k][Len(read[k])] < ids[1]
    BY <1>3, <1>5, <2>1, <2>2
  <2> QED BY <1>1, <1>2, <1>5, <2>2, <2>3, <2>4, ReadGrows
<1>6. CASE Begins(i) /\ ~Ends(i) /\ read' = read /\ scratch' = <<i>>
  <2>1. PICK ids : ids = <<i>>
    OBVIOUS
  <2>2. RunOf(ids, to)' /\ ids[Len(ids)] = i /\ ids[1] = i
    BY <1>1, <1>2, <1>6, <2>1, RunOfOne
  <2>3. RunOf(scratch, to)' /\ ~Ends(scratch[Len(scratch)])'
    <3>1. scratch' = ids /\ ~Ends(ids[Len(ids)])'
      BY <1>2, <1>6, <2>1, <2>2 DEF Ends
    <3> QED BY <2>2, <3>1 DEF RunOf, Ends, Rec
  <2>4. ~Missed(scratch[Len(scratch)], from)'
    <3>1. scratch' = ids /\ ids[Len(ids)] = i
      BY <1>6, <2>1, <2>2
    <3>2. ~Missed(i, from)'
      BY <1>4
    <3> QED BY <3>1, <3>2 DEF Missed
  <2>5. \A k \in 1..Len(read') : read'[k][Len(read'[k])] < scratch'[1]
    BY <1>3, <1>6
  <2>6. PICK old : old = scratch'
    OBVIOUS
  <2>7. /\ read' \in Seq(Seq(Nat))
        /\ (\A k \in 1..Len(read) : RunOf(read[k], to) /\ Ends(read[k][Len(read[k])]))'
        /\ (\A k, l \in 1..Len(read) : k < l => read[k][Len(read[k])] < read[l][1])'
    <3>1. ASSUME NEW k \in 1..Len(read) PROVE RunOf(read[k], to)' /\ Ends(read[k][Len(read[k])])'
      <4>1. PICK run : run = read[k]
        OBVIOUS
      <4>2. RunOf(run, to) /\ Ends(run[Len(run)])
        BY <4>1 DEF CollectedRight
      <4>3. RunOf(run, to)' /\ Ends(run[Len(run)])'
        BY <1>1, <1>2, <4>2, RunStays DEF Ends
      <4>4. run = read'[k]
        BY <1>6, <4>1
      <4> QED BY <4>3, <4>4 DEF RunOf, Ends, Rec
    <3> QED BY <1>6, <3>1 DEF CollectedRight
  <2> QED BY <2>3, <2>4, <2>5, <2>7 DEF CollectedRight
<1>7. CASE ~Begins(i) /\ scratch = <<>> /\ read' = read /\ scratch' = scratch
  <2>1. scratch' = <<>>
    BY <1>7
  <2> QED BY <1>1, <1>2, <1>7, <2>1, CollectedStays
<1>8. ASSUME ~Begins(i), scratch # <<>>
      PROVE  \E ids : /\ ids = Append(scratch, i) /\ RunOf(ids, to)' /\ ids[Len(ids)] = i /\ ids[1] = scratch[1]
                      /\ ids \in Seq(Nat)
  <2>1. /\ scratch[Len(scratch)] \in DOMAIN frags /\ i = scratch[Len(scratch)] + 1 /\ Rec(i) = Rec(scratch[Len(scratch)])
    BY <1>1, <1>8, NextInRun
  <2>2. RunOf(scratch, to)
    BY <1>8 DEF CollectedRight
  <2>3. PICK old, ids : old = scratch /\ ids = Append(scratch, i)
    OBVIOUS
  <2>4. RunOf(ids, to)' /\ ids[Len(ids)] = i /\ ids[1] = old[1]
    <3>1. RunOf(old, to) /\ i = old[Len(old)] + 1 /\ Rec(i) = Rec(old[Len(old)]) /\ ids = Append(old, i)
      BY <2>1, <2>2, <2>3
    <3>2. RunOf(ids, to)'
      BY <1>1, <1>2, <3>1, RunAppend
    <3>3. ids[Len(ids)] = i /\ ids[1] = old[1]
      BY <1>2, <2>2, <2>3 DEF RunOf
    <3> QED BY <3>2, <3>3
  <2>5. ids \in Seq(Nat)
    BY <1>2, <2>2, <2>3 DEF RunOf
  <2> QED BY <2>3, <2>4, <2>5
<1>9. CASE ~Begins(i) /\ ~Ends(i) /\ scratch # <<>> /\ read' = read /\ scratch' = Append(scratch, i)
  <2>1. PICK ids : /\ ids = Append(scratch, i) /\ RunOf(ids, to)' /\ ids[Len(ids)] = i /\ ids[1] = scratch[1]
                   /\ ids \in Seq(Nat)
    BY <1>8, <1>9
  <2>3. RunOf(scratch, to)' /\ ~Ends(scratch[Len(scratch)])'
    <3>1. scratch' = ids /\ ~Ends(ids[Len(ids)])'
      BY <1>2, <1>9, <2>1 DEF Ends
    <3> QED BY <2>1, <3>1 DEF RunOf, Ends, Rec
  <2>4. ~Missed(scratch[Len(scratch)], from)'
    <3>1. scratch' = ids /\ ids[Len(ids)] = i
      BY <1>9, <2>1
    <3>2. ~Missed(i, from)'
      BY <1>4
    <3> QED BY <3>1, <3>2 DEF Missed
  <2>5. \A k \in 1..Len(read') : read'[k][Len(read'[k])] < scratch'[1]
    <3>1. \A k \in 1..Len(read) : read[k][Len(read[k])] < scratch[1]
      BY <1>9 DEF CollectedRight
    <3> QED BY <1>9, <2>1, <3>1
  <2>7. /\ read' \in Seq(Seq(Nat))
        /\ (\A k \in 1..Len(read) : RunOf(read[k], to) /\ Ends(read[k][Len(read[k])]))'
        /\ (\A k, l \in 1..Len(read) : k < l => read[k][Len(read[k])] < read[l][1])'
    <3>1. ASSUME NEW k \in 1..Len(read) PROVE RunOf(read[k], to)' /\ Ends(read[k][Len(read[k])])'
      <4>1. PICK run : run = read[k]
        OBVIOUS
      <4>2. RunOf(run, to) /\ Ends(run[Len(run)])
        BY <4>1 DEF CollectedRight
      <4>3. RunOf(run, to)' /\ Ends(run[Len(run)])'
        BY <1>1, <1>2, <4>2, RunStays DEF Ends
      <4>4. run = read'[k]
        BY <1>9, <4>1
      <4> QED BY <4>3, <4>4 DEF RunOf, Ends, Rec
    <3> QED BY <1>9, <3>1 DEF CollectedRight
  <2> QED BY <2>3, <2>4, <2>5, <2>7 DEF CollectedRight
<1>10. CASE ~Begins(i) /\ Ends(i) /\ scratch # <<>> /\ read' = Append(read, Append(scratch, i)) /\ scratch' = <<>>
  <2>1. PICK ids : /\ ids = Append(scratch, i) /\ RunOf(ids, to)' /\ ids[Len(ids)] = i /\ ids[1] = scratch[1]
                   /\ ids \in Seq(Nat)
    BY <1>8, <1>10
  <2>2. \A k \in 1..Len(read) : read[k][Len(read[k])] < ids[1]
    <3>1. \A k \in 1..Len(read) : read[k][Len(read[k])] < scratch[1]
      BY <1>10 DEF CollectedRight
    <3> QED BY <2>1, <3>1
  <2>3. Ends(ids[Len(ids)]) /\ read' = Append(read, ids)
    BY <1>10, <2>1
  <2> QED BY <1>1, <1>2, <1>10, <2>1, <2>2, <2>3, ReadGrows
<1> QED BY <1>1, <1>5, <1>6, <1>7, <1>9, <1>10, CollectCases

-------------------------------------------------------------------------------
(* The reader passes the fragments from before the failure in turn.        *)

(* Places of blocks: none begins inside another.                           *)
LEMMA BlockOrder ==
  ASSUME NEW b \in Nat, NEW c \in Nat, NEW B \in Nat, c * B < b * B + B
  PROVE  c * B <= b * B
<1>1. ASSUME b + 1 <= c PROVE FALSE
  <2>1. PICK d \in Nat : c = (b + 1) + d
    <3>1. c - (b + 1) \in Nat /\ c = (b + 1) + (c - (b + 1))
      BY <1>1
    <3> QED BY <3>1
  <2>2. c * B = b * B + B + d * B
    BY <2>1
  <2>3. d * B \in Nat /\ b * B \in Nat
    OBVIOUS
  <2> QED BY <2>2, <2>3
<1>2. PICK d \in Nat : b = c + d
  <2>1. b - c \in Nat /\ b = c + (b - c)
    BY <1>1
  <2> QED BY <2>1
<1>3. b * B = c * B + d * B /\ d * B \in Nat /\ c * B \in Nat
  BY <1>2
<1> QED BY <1>3

(* No block ends inside what is in the buffer.                             *)
LEMMA InOneBlock ==
  ASSUME IInv, BufferRight, phase = "read", NEW a \in Nat, BlockEnd(a), a < position
  PROVE  a <= Here
<1>1. PICK b \in Nat : b * BlockSize <= Here /\ position <= b * BlockSize + BlockSize
  BY DEF BufferRight
<1>2. PICK c \in Nat : a = c * BlockSize
  BY DEF BlockEnd
<1>3. BlockSize \in Nat /\ Here \in Nat /\ position \in Nat
  BY HereFacts, Shapes
<1> DEFINE u == b * BlockSize
           v == c * BlockSize
<1>4. u \in Nat /\ v \in Nat /\ a = v /\ u <= Here /\ position <= u + BlockSize
  BY <1>1, <1>2, <1>3
<1>5. v < u + BlockSize => v <= u
  BY <1>3, BlockOrder
<1> HIDE DEF u, v
<1> QED BY <1>3, <1>4, <1>5

(* What comes before a fragment from before the failure is from before it. *)
LEMMA EarlyDown ==
  ASSUME IInv, FragsRight, NEW i \in DOMAIN frags, NEW j \in DOMAIN frags, i <= j, Early(j)
  PROVE  Early(i)
<1>1. Rec(i) <= Rec(j)
  BY DEF FragsRight
<1>2. Rec(i) \in Nat /\ Rec(j) \in Nat
  <2>1. Rec(i) \in DOMAIN records /\ Rec(j) \in DOMAIN records /\ DOMAIN records = 1..Len(records) /\ Len(records) \in Nat
    BY Shapes
  <2> QED BY <2>1
<1>3. \A q \in 1..Rec(i) : q \in 1..Rec(j)
  BY <1>1, <1>2
<1> QED BY <1>3 DEF Early

(* The reader that has everything in turn, and none of what comes next is  *)
(* from before the first failure.                                          *)
LEMMA InStepPassed ==
  ASSUME IInv, FragsRight, NEW from, NEW to, NEW c \in 0..Len(frags), InStep(c, from, to),
         c + 1 \in DOMAIN frags => ~Early(c + 1)
  PROVE  Passed(to) /\ (c + 1 \in DOMAIN frags => failures # 0)
<1>1. DOMAIN frags = 1..Len(frags) /\ Len(frags) \in Nat
  BY Shapes
<1>2. ASSUME NEW i \in DOMAIN frags, Early(i), Ends(i) PROVE Given(i)
  <2>1. i \in 1..c
    <3>1. ASSUME ~(i <= c) PROVE FALSE
      <4>1. c + 1 \in DOMAIN frags /\ c + 1 <= i
        BY <1>1, <3>1
      <4> QED BY <1>2, <4>1, EarlyDown
    <3> QED BY <1>1, <3>1
  <2> QED BY <1>2, <2>1 DEF InStep
<1>3. ASSUME c + 1 \in DOMAIN frags PROVE failures # 0
  <2>1. PICK q \in 1..Rec(c + 1) : records[q] = "failed"
    BY <1>3 DEF Early
  <2>2. Rec(c + 1) \in DOMAIN records /\ DOMAIN records = 1..Len(records) /\ Len(records) \in Nat
    BY <1>3, Shapes
  <2>3. q \in DOMAIN records
    BY <2>2
  <2> QED BY <2>1, <2>3 DEF FragsRight
<1> QED BY <1>2, <1>3 DEF Passed

(* The next fragment from before the first failure is where the reader is, *)
(* if there is room for a header.                                          *)
LEMMA NextPlace ==
  ASSUME IInv, BufferRight, phase = "read", NEW from \in [DOMAIN frags -> Nat], NEW to \in [DOMAIN frags -> Nat],
         InBlocks(from, to), NEW c \in 0..Len(frags), InStep(c, from, to), NEW i \in DOMAIN frags, i = c + 1, Early(i),
         Len(buffer) >= HeaderSize
  PROVE  from[i] = Here
<1>1. /\ Here \in Nat /\ position \in Nat /\ Len(buffer) \in Nat /\ position = Here + Len(buffer)
      /\ HeaderSize \in Nat \ {0} /\ Len(frags) \in Nat /\ DOMAIN frags = 1..Len(frags)
  BY HereFacts, Shapes
<1>2. Here <= from[i] /\ from[i] \in Nat
  BY <1>1 DEF InStep
<1>3. IF i = 1 THEN from[i] = 0 ELSE from[i] = to[c] \/ (from[i] < to[c] + HeaderSize /\ BlockEnd(from[i]))
  <2>1. i - 1 = c
    BY <1>1
  <2> QED BY <2>1 DEF InBlocks
<1>4. CASE i = 1
  BY <1>1, <1>2, <1>3, <1>4
<1>5. CASE i # 1
  <2>1. c \in DOMAIN frags
    BY <1>1, <1>5
  <2>2. to[c] <= Here /\ to[c] \in Nat
    BY <1>1, <2>1 DEF InStep
  <2>3. CASE from[i] = to[c]
    BY <1>1, <1>2, <2>2, <2>3
  <2>4. CASE from[i] < to[c] + HeaderSize /\ BlockEnd(from[i])
    <3>1. from[i] < position
      BY <1>1, <1>2, <2>2, <2>4
    <3>2. from[i] <= Here
      BY <1>2, <2>4, <3>1, InOneBlock
    <3> QED BY <1>1, <1>2, <3>2
  <2> QED BY <1>3, <1>5, <2>3, <2>4
<1> QED BY <1>4, <1>5

(* A returned record stays returned.                                       *)
LEMMA GivenStays ==
  ASSUME UNCHANGED frags, read \in Seq(Seq(Nat)), read' = read \/ \E ids \in Seq(Nat) : read' = Append(read, ids),
         NEW i, Given(i)
  PROVE  Given(i)'
<1>1. PICK k \in 1..Len(read) : Rec(read[k][1]) = Rec(i)
  BY DEF Given
<1>2. PICK S : S = Seq(Nat)
  OBVIOUS
<1>3. k \in 1..Len(read') /\ read'[k] = read[k]
  <2>1. CASE read' = read
    BY <2>1
  <2>2. ASSUME NEW ids \in S, read' = Append(read, ids) PROVE k \in 1..Len(read') /\ read'[k] = read[k]
    <3>1. read \in Seq(S) /\ k \in 1..Len(read)
      BY <1>2
    <3> QED BY <2>2, <3>1, AppendProperties
  <2> QED BY <1>2, <2>1, <2>2
<1>4. \E l \in 1..Len(read') : frags'[read'[l][1]].record = frags'[i].record
  <2>1. frags[read[k][1]].record = frags[i].record
    BY <1>1 DEF Rec
  <2> QED BY <1>3, <2>1
<1> QED BY <1>4 DEF Given, Rec

(* The record returned last is returned.                                   *)
LEMMA GivenLast ==
  ASSUME UNCHANGED frags, read \in Seq(Seq(Nat)), NEW ids \in Seq(Nat), read' = Append(read, ids),
         NEW i, Rec(ids[1]) = Rec(i)
  PROVE  Given(i)'
<1>1. PICK S : S = Seq(Nat)
  OBVIOUS
<1>2. Len(read) + 1 \in 1..Len(read') /\ read'[Len(read) + 1] = ids
  <2>1. read \in Seq(S) /\ ids \in S /\ Len(read) \in Nat
    BY <1>1
  <2> QED BY <2>1, AppendProperties
<1>3. \E l \in 1..Len(read') : frags'[read'[l][1]].record = frags'[i].record
  <2>1. frags[ids[1]].record = frags[i].record
    BY DEF Rec
  <2> QED BY <1>2, <2>1
<1> QED BY <1>3 DEF Given, Rec

(* A reader that has everything goes on having it.                         *)
LEMMA PassedStays ==
  ASSUME UNCHANGED <<file, frags, records>>, NEW to, Passed(to),
         \A i \in DOMAIN frags : Given(i) => Given(i)'
  PROVE  Passed(to)'
<1>1. \A i \in DOMAIN frags : (Early(i)' <=> Early(i)) /\ (Ends(i)' <=> Ends(i))
  BY DEF Early, Ends, Rec
<1>2. \A i \in DOMAIN frags' : Early(i)' /\ Ends(i)' /\ to[i] <= Len(file') => Given(i)'
  BY <1>1 DEF Passed
<1> QED BY <1>2 DEF Passed

(* What the reader does with the fragment that comes next.                 *)
LEMMA CollectNext ==
  ASSUME IInv, FragsRight, NEW from, NEW to, CollectedRight(from, to), NEW c \in 0..Len(frags), InStep(c, from, to),
         NEW i \in DOMAIN frags, i = c + 1, Collect(i), UNCHANGED <<frags, records>>
  PROVE  /\ reported' = reported
         /\ IF Ends(i) THEN scratch' = <<>> ELSE scratch' # <<>> /\ scratch'[Len(scratch')] = i
         /\ \A j \in DOMAIN frags : Given(j) => Given(j)'
         /\ Ends(i) => Given(i)'
<1>1. DOMAIN frags = 1..Len(frags) /\ Len(frags) \in Nat /\ i \in Nat /\ c \in Nat /\ i - 1 = c /\ (i = 1 <=> c = 0)
      /\ (c # 0 => c \in DOMAIN frags) /\ read \in Seq(Seq(Nat)) /\ scratch \in Seq(Nat)
  <2>1. DOMAIN frags = 1..Len(frags) /\ Len(frags) \in Nat
    BY Shapes
  <2>2. i \in Nat /\ c \in Nat /\ i - 1 = c /\ (i = 1 <=> c = 0) /\ (c # 0 => c \in 1..Len(frags))
    BY <2>1
  <2>3. read \in Seq(Seq(Nat))
    BY DEF CollectedRight
  <2>4. scratch \in Seq(Nat)
    BY DEF IInv, CollectOK
  <2> QED BY <2>1, <2>2, <2>3, <2>4
<1>2. ASSUME c # 0 PROVE (Ends(c) <=> Begins(i)) /\ (~Ends(c) => Rec(c) = Rec(i))
  <2>1. Rec(c) \in Nat /\ Rec(i) \in Nat /\ Rec(c) \in 1..Rec(c)
    <3>1. Rec(c) \in 1..Len(records) /\ Rec(i) \in 1..Len(records) /\ Len(records) \in Nat
      BY <1>1, <1>2, Shapes
    <3> QED BY <3>1
  <2>2. records[Rec(c)] # "failed"
    <3>1. Early(c)
      BY <1>1, <1>2 DEF InStep
    <3> QED BY <2>1, <3>1 DEF Early
  <2>3. (Ends(c) => Rec(c) < Rec(i)) /\ (~Ends(c) => Rec(c) = Rec(i))
    BY <1>1, <1>2, <2>2 DEF FragsRight
  <2>4. Begins(i) <=> Rec(c) < Rec(i)
    BY <1>1, <1>2 DEF FragsRight
  <2> QED BY <2>1, <2>3, <2>4
<1>3. c = 0 => Begins(i)
  BY <1>1 DEF FragsRight
<1>4. IF c # 0 /\ ~Ends(c) THEN scratch # <<>> /\ scratch[Len(scratch)] = c ELSE scratch = <<>>
  BY <1>1 DEF InStep
<1>5. (scratch = <<>> <=> Begins(i)) /\ (scratch # <<>> => c # 0 /\ scratch[Len(scratch)] = c /\ Rec(c) = Rec(i))
  BY <1>2, <1>3, <1>4
<1>6. \/ Begins(i) /\ Ends(i) /\ read' = Append(read, <<i>>) /\ scratch' = <<>> /\ reported' = reported
      \/ Begins(i) /\ ~Ends(i) /\ read' = read /\ scratch' = <<i>> /\ reported' = reported
      \/ ~Begins(i) /\ ~Ends(i) /\ read' = read /\ scratch' = Append(scratch, i) /\ reported' = reported
      \/ ~Begins(i) /\ Ends(i) /\ read' = Append(read, Append(scratch, i)) /\ scratch' = <<>> /\ reported' = reported
  BY <1>5, CollectCases
<1>7. CASE Begins(i) /\ Ends(i) /\ read' = Append(read, <<i>>) /\ scratch' = <<>> /\ reported' = reported
  <2>1. PICK ids : ids = <<i>>
    OBVIOUS
  <2>2. ids \in Seq(Nat) /\ ids[1] = i /\ read' = Append(read, ids)
    BY <1>1, <1>7, <2>1
  <2>3. Rec(ids[1]) = Rec(i)
    BY <2>2
  <2>4. Given(i)'
    BY <1>1, <2>2, <2>3, GivenLast
  <2> QED BY <1>1, <1>7, <2>2, <2>4, GivenStays
<1>8. CASE Begins(i) /\ ~Ends(i) /\ read' = read /\ scratch' = <<i>> /\ reported' = reported
  <2>1. scratch' # <<>> /\ scratch'[Len(scratch')] = i
    BY <1>8
  <2> QED BY <1>1, <1>8, <2>1, GivenStays
<1>9. CASE ~Begins(i) /\ ~Ends(i) /\ read' = read /\ scratch' = Append(scratch, i) /\ reported' = reported
  <2>1. scratch' # <<>> /\ scratch'[Len(scratch')] = i
    BY <1>1, <1>9
  <2> QED BY <1>1, <1>9, <2>1, GivenStays
<1>10. CASE ~Begins(i) /\ Ends(i) /\ read' = Append(read, Append(scratch, i)) /\ scratch' = <<>> /\ reported' = reported
  <2>1. RunOf(scratch, to)
    BY <1>5, <1>10 DEF CollectedRight
  <2>2. Rec(scratch[Len(scratch)]) = Rec(scratch[1]) /\ Len(scratch) \in Nat /\ Len(scratch) # 0
    <3>1. Len(scratch) \in 1..Len(scratch)
      BY <1>1, <2>1 DEF RunOf
    <3> QED BY <2>1, <3>1 DEF RunOf
  <2>3. PICK ids : ids = Append(scratch, i)
    OBVIOUS
  <2>4. ids \in Seq(Nat) /\ ids[1] = scratch[1] /\ read' = Append(read, ids)
    BY <1>1, <1>10, <2>2, <2>3
  <2>5. Rec(ids[1]) = Rec(i)
    BY <1>5, <1>10, <2>2, <2>4
  <2>6. Given(i)'
    BY <1>1, <2>4, <2>5, GivenLast
  <2> QED BY <1>1, <1>10, <2>4, <2>6, GivenStays
<1> QED BY <1>6, <1>7, <1>8, <1>9, <1>10

(* The reader that takes the next fragment is in step with it.             *)
LEMMA NextInStep ==
  ASSUME IInv, FragsRight, NEW from, NEW to, CollectedRight(from, to), NEW c \in 0..Len(frags), InStep(c, from, to),
         NEW i \in DOMAIN frags, i = c + 1, Early(i), Collect(i), UNCHANGED <<frags, records>>,
         to[i] <= Here', \A j \in DOMAIN frags : j < i => to[j] <= Here', \A j \in DOMAIN frags : j > i => Here' <= from[j]
  PROVE  InStep(i, from, to)'
<1>1. /\ IF Ends(i) THEN scratch' = <<>> ELSE scratch' # <<>> /\ scratch'[Len(scratch')] = i
      /\ \A j \in DOMAIN frags : Given(j) => Given(j)'
      /\ Ends(i) => Given(i)'
  BY CollectNext
<1>2. DOMAIN frags = 1..Len(frags) /\ Len(frags) \in Nat /\ i \in Nat /\ c \in Nat /\ i > 0
  BY Shapes
<1>3. \A j \in DOMAIN frags : (Early(j)' <=> Early(j)) /\ (Ends(j)' <=> Ends(j))
  BY DEF Early, Ends, Rec
<1>4. \A j \in DOMAIN frags' : IF j <= i THEN to[j] <= Here' ELSE Here' <= from[j]
  <2>1. ASSUME NEW j \in DOMAIN frags PROVE IF j <= i THEN to[j] <= Here' ELSE Here' <= from[j]
    <3>1. j = i \/ j < i \/ j > i
      BY <1>2
    <3> QED BY <1>2, <3>1
  <2> QED BY <2>1
<1>5. ASSUME NEW j \in 1..i, Ends(j) PROVE Given(j)'
  <2>1. CASE j = i
    BY <1>1, <1>5, <2>1
  <2>2. CASE j # i
    <3>1. j \in 1..c /\ j \in DOMAIN frags
      BY <1>2, <2>2
    <3> QED BY <1>1, <1>5, <3>1 DEF InStep
  <2> QED BY <2>1, <2>2
<1>6. \A j \in 1..i : Ends(j)' => Given(j)'
  <2>1. \A j \in 1..i : j \in DOMAIN frags
    BY <1>2
  <2> QED BY <1>3, <1>5, <2>1
<1>7. IF i > 0 /\ ~Ends(i)' THEN scratch' # <<>> /\ scratch'[Len(scratch')] = i ELSE scratch' = <<>>
  BY <1>1, <1>2, <1>3
<1>8. i > 0 => Early(i)'
  BY <1>3
<1> QED BY <1>4, <1>6, <1>7, <1>8 DEF InStep

(* A record is read: the next fragment, or one from behind the failure.    *)
LEMMA ReadPhysicalRecordInTurn ==
  ASSUME IInv, FragsRight, BufferRight, ReadPhysicalRecord,
         NEW from \in [DOMAIN frags -> Nat], NEW to \in [DOMAIN frags -> Nat],
         Laid(from, to), InBlocks(from, to), CollectedRight(from, to), InTurn(from, to)
  PROVE  InTurn(from, to)'
<1>1. PICK i \in DOMAIN frags :
           /\ phase = "read" /\ phase' = "read" /\ Collect(i) /\ Kept(i) /\ from[i] = Here /\ to[i] = Here' /\ Here < Here'
           /\ Here \in Nat /\ Here' \in Nat
           /\ \A j \in DOMAIN frags : j > i => Here' <= from[j]
           /\ \A j \in DOMAIN frags : j < i => to[j] <= Here
           /\ UNCHANGED <<file, writer, failures>>
  BY RecordPlace
<1>2. /\ UNCHANGED <<frags, records>> /\ DOMAIN frags = 1..Len(frags) /\ Len(frags) \in Nat
      /\ \A j \in DOMAIN frags : to[j] \in Nat /\ from[j] \in Nat /\ Size(j) \in Nat \ {0}
                                 /\ (Kept(j) <=> to[j] = from[j] + Size(j))
  <2>1. UNCHANGED <<frags, records>>
    BY <1>1 DEF writer
  <2>2. /\ DOMAIN frags = 1..Len(frags) /\ Len(frags) \in Nat /\ HeaderSize \in Nat \ {0}
        /\ \A j \in DOMAIN frags : Size(j) \in Nat /\ HeaderSize <= Size(j)
    BY Shapes
  <2> QED BY <2>1, <2>2 DEF Laid
<1>3. \A j \in DOMAIN frags : Given(j) => Given(j)'
  <2>1. read \in Seq(Seq(Nat)) /\ i \in Nat /\ scratch \in Seq(Nat)
    BY <1>2 DEF CollectedRight, IInv, CollectOK
  <2>2. read' = read \/ read' = Append(read, <<i>>) \/ read' = Append(read, Append(scratch, i))
    BY <1>1, CollectCases
  <2>3. <<i>> \in Seq(Nat) /\ Append(scratch, i) \in Seq(Nat)
    BY <2>1
  <2>4. read' = read \/ \E ids \in Seq(Nat) : read' = Append(read, ids)
    BY <2>2, <2>3
  <2> QED BY <1>2, <2>1, <2>4, GivenStays
<1>4. ASSUME Passed(to), failures # 0 PROVE InTurn(from, to)'
  <2>1. Passed(to)'
    BY <1>1, <1>2, <1>3, <1>4, PassedStays
  <2> QED BY <1>1, <1>4, <2>1 DEF InTurn
<1>5. ASSUME NEW c \in 0..Len(frags), InStep(c, from, to) PROVE InTurn(from, to)'
  <2>1. c < i
    <3>1. ~(i <= c)
      BY <1>1, <1>2, <1>5 DEF InStep
    <3> QED BY <1>2, <3>1
  <2>2. c + 1 \in DOMAIN frags /\ c \in Nat /\ i \in Nat
    BY <1>2, <2>1
  <2>3. CASE ~Early(c + 1)
    BY <1>4, <1>5, <2>2, <2>3, InStepPassed
  <2>4. CASE Early(c + 1)
    <3>1. from[c + 1] = Here
      <4>1. Len(buffer) >= HeaderSize
        BY DEF ReadPhysicalRecord
      <4> QED BY <1>1, <1>5, <2>2, <2>4, <4>1, NextPlace
    <3>2. records[Rec(c + 1)] # "failed"
      <4>1. Rec(c + 1) \in 1..Rec(c + 1)
        <5>1. Rec(c + 1) \in 1..Len(records) /\ Len(records) \in Nat
          BY <2>2, Shapes
        <5> QED BY <5>1
      <4> QED BY <2>4, <4>1 DEF Early
    <3>3. to[c + 1] = from[c + 1] + Size(c + 1)
      BY <1>2, <2>2, <3>2 DEF Kept
    <3>4. i = c + 1
      <4>1. ASSUME c + 1 < i PROVE FALSE
        <5>1. to[c + 1] <= Here
          BY <1>1, <2>2, <4>1
        <5> QED BY <1>1, <1>2, <2>2, <3>1, <3>3, <5>1
      <4> QED BY <2>1, <2>2, <4>1
    <3>5. \A j \in DOMAIN frags : j < i => to[j] <= Here'
      BY <1>1, <1>2
    <3>6. to[i] <= Here'
      BY <1>1
    <3>7. InStep(i, from, to)'
      BY <1>1, <1>2, <1>5, <2>4, <3>4, <3>5, <3>6, NextInStep
    <3>8. reported' = reported
      BY <1>1, <1>2, <1>5, <3>4, CollectNext
    <3>9. i \in 0..Len(frags')
      BY <1>2
    <3> QED BY <1>1, <3>7, <3>8, <3>9 DEF InTurn
  <2> QED BY <2>3, <2>4
<1> QED BY <1>1, <1>4, <1>5 DEF InTurn

(* The file took a fragment from before the first failure as a whole.      *)
LEMMA EarlyKept ==
  ASSUME IInv, NEW from \in [DOMAIN frags -> Nat], NEW to \in [DOMAIN frags -> Nat], Laid(from, to),
         NEW i \in DOMAIN frags, Early(i)
  PROVE  /\ Kept(i) /\ to[i] = from[i] + Size(i) /\ HeaderSize <= Size(i)
         /\ Size(i) \in Nat /\ from[i] \in Nat /\ to[i] \in Nat /\ HeaderSize \in Nat \ {0}
<1>1. Rec(i) \in 1..Rec(i)
  <2>1. Rec(i) \in 1..Len(records) /\ Len(records) \in Nat
    BY Shapes
  <2> QED BY <2>1
<1>2. records[Rec(i)] # "failed"
  BY <1>1 DEF Early
<1>3. Kept(i)
  BY <1>2 DEF Kept
<1> QED BY <1>3, Shapes DEF Laid

(* What is behind the reader stays behind it, and what is returned stays.  *)
LEMMA InStepStays ==
  ASSUME IInv, UNCHANGED <<frags, records, read, scratch>>, NEW from, NEW to \in [DOMAIN frags -> Nat],
         NEW c \in 0..Len(frags), InStep(c, from, to), Here \in Nat, Here' \in Nat, Here <= Here', \A i \in DOMAIN frags : i > c => Here' <= from[i]
  PROVE  InStep(c, from, to)'
<1>1. DOMAIN frags = 1..Len(frags) /\ Len(frags) \in Nat
  BY Shapes
<1>2. \A i : (Early(i)' <=> Early(i)) /\ (Ends(i)' <=> Ends(i)) /\ (Given(i)' <=> Given(i))
  BY DEF Early, Ends, Rec, Given
<1>3. \A i \in DOMAIN frags' : IF i <= c THEN to[i] <= Here' ELSE Here' <= from[i]
  <2>1. ASSUME NEW i \in DOMAIN frags PROVE IF i <= c THEN to[i] <= Here' ELSE Here' <= from[i]
    <3>1. CASE i <= c
      <4>1. to[i] <= Here /\ to[i] \in Nat
        BY <3>1 DEF InStep
      <4> QED BY <3>1, <4>1
    <3>2. CASE ~(i <= c)
      BY <1>1, <3>2
    <3> QED BY <3>1, <3>2
  <2> QED BY <2>1
<1>4. IF c > 0 /\ ~Ends(c)' THEN scratch' # <<>> /\ scratch'[Len(scratch')] = c ELSE scratch' = <<>>
  BY <1>2 DEF InStep
<1>5. (c > 0 => Early(c)') /\ (\A i \in 1..c : Ends(i)' => Given(i)')
  BY <1>2 DEF InStep
<1> QED BY <1>3, <1>4, <1>5 DEF InStep

(* Less than a header is left of a block: no fragment begins there.        *)
LEMMA BlockPlace ==
  ASSUME IInv, BufferRight, ReadBlock, NEW from \in [DOMAIN frags -> Nat], NEW to \in [DOMAIN frags -> Nat],
         Laid(from, to), InBlocks(from, to), NEW i \in DOMAIN frags, Early(i), Here <= from[i]
  PROVE  position <= from[i]
<1>1. /\ Here \in Nat /\ position \in Nat /\ position < Here + HeaderSize /\ BlockEnd(position)
  BY ReadBlockPlace
<1>2. /\ to[i] = from[i] + Size(i) /\ HeaderSize <= Size(i)
      /\ Size(i) \in Nat /\ from[i] \in Nat /\ to[i] \in Nat /\ HeaderSize \in Nat /\ BlockSize \in Nat
  BY EarlyKept, Shapes
<1>3. PICK b \in Nat : b * BlockSize <= from[i] /\ to[i] <= b * BlockSize + BlockSize
  BY DEF InBlocks
<1>4. PICK c \in Nat : position = c * BlockSize
  BY <1>1 DEF BlockEnd
<1> DEFINE u == b * BlockSize
           v == c * BlockSize
<1>5. u \in Nat /\ v \in Nat /\ position = v /\ u <= from[i] /\ to[i] <= u + BlockSize
  BY <1>2, <1>3, <1>4
<1>6. v < u + BlockSize => v <= u
  BY <1>2, BlockOrder
<1> HIDE DEF u, v
<1> QED BY <1>1, <1>2, <1>5, <1>6

(* The reader stays in step over the rest of a block.                      *)
LEMMA ReadBlockInTurn ==
  ASSUME IInv, FragsRight, BufferRight, ReadBlock,
         NEW from \in [DOMAIN frags -> Nat], NEW to \in [DOMAIN frags -> Nat],
         Laid(from, to), InBlocks(from, to), InTurn(from, to)
  PROVE  InTurn(from, to)'
<1>1. /\ phase = "read" /\ phase' = "read" /\ Here' = position /\ Here \in Nat /\ position \in Nat /\ Here <= position
      /\ UNCHANGED <<file, frags, records, failures, scratch, read, reported>>
  BY ReadBlockPlace DEF writer
<1>2. ASSUME Passed(to), failures # 0 PROVE InTurn(from, to)'
  <2>1. \A i : Given(i) => Given(i)'
    BY <1>1 DEF Given, Rec
  <2>2. Passed(to)'
    BY <1>1, <1>2, <2>1, PassedStays
  <2> QED BY <1>1, <1>2, <2>2 DEF InTurn
<1>3. ASSUME NEW c \in 0..Len(frags), InStep(c, from, to) PROVE InTurn(from, to)'
  <2>1. DOMAIN frags = 1..Len(frags) /\ Len(frags) \in Nat /\ c \in Nat
    BY Shapes
  <2>2. CASE c + 1 \in DOMAIN frags /\ ~Early(c + 1)
    BY <1>2, <1>3, <2>2, InStepPassed
  <2>3. CASE ~(c + 1 \in DOMAIN frags /\ ~Early(c + 1))
    <3>1. ASSUME NEW i \in DOMAIN frags, i > c PROVE position <= from[i]
      <4>1. c + 1 \in DOMAIN frags /\ c + 1 <= i
        BY <2>1, <3>1
      <4>2. Here <= from[c + 1]
        BY <1>3, <2>1, <4>1 DEF InStep
      <4>3. position <= from[c + 1]
        BY <2>3, <4>1, <4>2, BlockPlace
      <4>4. from[c + 1] <= from[i]
        <5>1. CASE c + 1 = i
          <6>1. from[i] \in Nat
            OBVIOUS
          <6> QED BY <5>1, <6>1
        <5>2. CASE c + 1 # i
          <6>1. c + 1 < i
            BY <2>1, <4>1, <5>2
          <6>2. from[c + 1] <= to[c + 1] /\ to[c + 1] <= from[i]
            BY <4>1, <6>1 DEF Laid
          <6>3. from[c + 1] \in Nat /\ to[c + 1] \in Nat /\ from[i] \in Nat
            BY <4>1
          <6> QED BY <6>2, <6>3
        <5> QED BY <5>1, <5>2
      <4>5. from[c + 1] \in Nat /\ from[i] \in Nat
        BY <4>1
      <4> QED BY <1>1, <4>3, <4>4, <4>5
    <3>2. InStep(c, from, to)'
      BY <1>1, <1>3, <3>1, InStepStays
    <3>3. c \in 0..Len(frags')
      BY <1>1
    <3> QED BY <1>1, <3>2, <3>3 DEF InTurn
  <2> QED BY <2>2, <2>3
<1> QED BY <1>1, <1>2, <1>3 DEF InTurn

-------------------------------------------------------------------------------
(* Where the reader gives up: the end of the file and bad records.         *)

(* The buffer is dropped, and what was collected.                          *)
LEMMA Dropped ==
  ASSUME IInv, BufferRight, phase = "read", phase' \in {"read", "done"}, buffer' = <<>>, scratch' = <<>>,
         UNCHANGED <<file, frags, records, position, eof, read>>,
         NEW from, NEW to \in [DOMAIN frags -> Nat], CollectedRight(from, to)
  PROVE  BufferRight' /\ CollectedRight(from, to)'
<1>1. Here \in Nat /\ position \in Nat /\ Len(buffer) \in Nat /\ position = Here + Len(buffer) /\ BlockSize \in Nat
  BY HereFacts, Shapes
<1>2. Len(buffer') = 0 /\ DOMAIN buffer' = {} /\ position' = position
  OBVIOUS
<1>3. Here' = position' /\ Here' \in Nat /\ Here <= Here'
  BY <1>1, <1>2 DEF Here
<1>4. PICK b \in Nat : b * BlockSize <= Here /\ position <= b * BlockSize + BlockSize
  BY DEF BufferRight
<1>5. b * BlockSize <= Here' /\ position' <= b * BlockSize + BlockSize
  <2> DEFINE u == b * BlockSize
  <2>1. u \in Nat /\ u <= Here /\ position <= u + BlockSize
    BY <1>1, <1>4
  <2> HIDE DEF u
  <2>2. u <= Here' /\ position' <= u + BlockSize
    BY <1>1, <1>2, <1>3, <2>1
  <2> QED BY <2>2 DEF u
<1>6. (\E c \in Nat : c * BlockSize <= Here /\ position <= c * BlockSize + BlockSize)'
  BY <1>5
<1>7. (IF eof THEN position = Len(file) ELSE BlockEnd(position))'
  BY DEF BufferRight, BlockEnd
<1>8. (Len(buffer) <= position)' /\ (\A k \in DOMAIN buffer : buffer[k] = file[Here + k])' /\ phase' # "write"
  BY <1>1, <1>2
<1>9. BufferRight'
  BY <1>6, <1>7, <1>8, Zenon DEF BufferRight
<1>10. CollectedRight(from, to)'
  BY <1>1, <1>3, CollectedStays
<1> QED BY <1>9, <1>10

(* The reader at the end of the file has everything, if no fragment of its *)
(* turn fits into what is left.                                            *)
LEMMA EndPassed ==
  ASSUME IInv, FragsRight, BufferRight, phase = "read", position = Len(file),
         NEW from \in [DOMAIN frags -> Nat], NEW to \in [DOMAIN frags -> Nat], Laid(from, to), InTurn(from, to),
         \A c \in 0..Len(frags) : InStep(c, from, to) /\ c + 1 \in DOMAIN frags /\ Early(c + 1) => position < to[c + 1]
  PROVE  Passed(to)
<1>1. SUFFICES ASSUME NEW c \in 0..Len(frags), InStep(c, from, to) PROVE Passed(to)
  BY DEF InTurn
<1>2. DOMAIN frags = 1..Len(frags) /\ Len(frags) \in Nat /\ position \in Nat
  BY Shapes, HereFacts
<1>3. CASE ~(c + 1 \in DOMAIN frags /\ Early(c + 1))
  BY <1>1, <1>3, InStepPassed
<1>4. CASE c + 1 \in DOMAIN frags /\ Early(c + 1)
  <2>1. position < to[c + 1]
    BY <1>1, <1>4
  <2>2. ASSUME NEW i \in DOMAIN frags, Early(i), Ends(i), to[i] <= Len(file) PROVE Given(i)
    <3>1. CASE i <= c
      BY <1>1, <1>2, <2>2, <3>1 DEF InStep
    <3>2. CASE ~(i <= c)
      <4>1. c + 1 <= i
        BY <1>2, <3>2
      <4>2. to[c + 1] <= to[i]
        <5>1. to[c + 1] \in Nat /\ to[i] \in Nat /\ from[i] \in Nat
          BY <1>4
        <5>2. CASE c + 1 = i
          BY <5>1, <5>2
        <5>3. CASE c + 1 # i
          <6>1. c + 1 < i
            BY <1>2, <4>1, <5>3
          <6>2. to[c + 1] <= from[i] /\ from[i] <= to[i]
            BY <1>4, <6>1 DEF Laid
          <6> QED BY <5>1, <6>2
        <5> QED BY <5>2, <5>3
      <4>3. to[c + 1] \in Nat /\ to[i] \in Nat
        BY <1>4
      <4> QED BY <1>2, <2>1, <2>2, <4>2, <4>3
    <3> QED BY <3>1, <3>2
  <2> QED BY <2>2 DEF Passed
<1> QED BY <1>3, <1>4

(* The reader stops for good: it could not read, or there is nothing left. *)
LEMMA DoneInTurn ==
  ASSUME IInv, FragsRight, BufferRight, phase = "read", phase' = "done",
         UNCHANGED <<file, frags, records, position, read>>, failures' = 0 => failures = 0 /\ reported' = reported,
         NEW from \in [DOMAIN frags -> Nat], NEW to \in [DOMAIN frags -> Nat], Laid(from, to), InTurn(from, to),
         position = Len(file) =>
           \A c \in 0..Len(frags) : InStep(c, from, to) /\ c + 1 \in DOMAIN frags /\ Early(c + 1) => position < to[c + 1]
  PROVE  InTurn(from, to)'
<1>1. \A i : Given(i) => Given(i)'
  BY DEF Given, Rec
<1>2. ASSUME position = Len(file) PROVE Passed(to)'
  <2>1. Passed(to)
    BY <1>2, EndPassed
  <2> QED BY <1>1, <2>1, PassedStays
<1>3. (phase = "done" /\ position = Len(file) => Passed(to))'
  BY <1>2
<1>4. failures' = 0 => reported' = FALSE
  BY DEF InTurn
<1> QED BY <1>3, <1>4 DEF InTurn

(* No fragment fits into less than a header.                               *)
LEMMA ShortBlock ==
  ASSUME IInv, BufferRight, phase = "read", Len(buffer) < HeaderSize,
         NEW from \in [DOMAIN frags -> Nat], NEW to \in [DOMAIN frags -> Nat], Laid(from, to),
         NEW c \in 0..Len(frags), InStep(c, from, to), c + 1 \in DOMAIN frags, Early(c + 1)
  PROVE  position < to[c + 1]
<1>1. /\ Here \in Nat /\ position \in Nat /\ Len(buffer) \in Nat /\ position = Here + Len(buffer)
      /\ Len(frags) \in Nat
  BY HereFacts, Shapes
<1>2. Here <= from[c + 1]
  BY <1>1 DEF InStep
<1>3. to[c + 1] = from[c + 1] + Size(c + 1) /\ HeaderSize <= Size(c + 1) /\ Size(c + 1) \in Nat /\ from[c + 1] \in Nat
      /\ HeaderSize \in Nat
  BY EarlyKept
<1> QED BY <1>1, <1>2, <1>3

(* A block that cannot be read ends the reading.                           *)
LEMMA ReadBlockFailsReadInv ==
  ASSUME IInv, ReadInv, ReadBlockFails
  PROVE  ReadInv'
<1>1. /\ phase = "read" /\ phase' = "done" /\ Len(buffer) < HeaderSize /\ failures' = failures + 1 /\ buffer' = <<>>
      /\ eof = FALSE /\ failures \in Nat
      /\ eof' = TRUE /\ scratch' = <<>> /\ UNCHANGED <<file, writer, position, read>> /\ UNCHANGED <<frags, records>>
  BY LogAssumption DEF ReadBlockFails, writer, IInv, WriterOK, CollectOK
<1>2. PICK from, to \in [DOMAIN frags -> Nat] : Layout(from, to)
  BY DEF ReadInv
<1>3. FragsRight /\ BufferRight /\ Laid(from, to) /\ InBlocks(from, to) /\ CollectedRight(from, to) /\ InTurn(from, to)
  BY <1>2 DEF ReadInv, Layout
<1>4. failures' # 0
  BY <1>1
<1>5. FragsRight' /\ Laid(from, to)' /\ InBlocks(from, to)'
  BY <1>1, <1>3, <1>4, ReaderKeeps
<1>6. InTurn(from, to)'
  BY <1>1, <1>3, <1>4, ShortBlock, DoneInTurn
<1>7. /\ position \in Nat /\ Len(buffer) \in Nat /\ position = Here + Len(buffer) /\ Here \in Nat
  BY <1>3, HereFacts
<1>8. Here' = position' /\ Here' \in Nat /\ Here <= Here' /\ Len(buffer') = 0 /\ DOMAIN buffer' = {}
  BY <1>1, <1>7 DEF Here
<1>9. BufferRight'
  <2>1. (Len(buffer) <= position)' /\ (\A k \in DOMAIN buffer : buffer[k] = file[Here + k])' /\ phase' = "done"
    BY <1>1, <1>7, <1>8
  <2> QED BY <2>1 DEF BufferRight
<1>10. CollectedRight(from, to)'
  BY <1>1, <1>3, <1>7, <1>8, CollectedStays
<1>11. from \in [DOMAIN frags' -> Nat] /\ to \in [DOMAIN frags' -> Nat]
  BY <1>1
<1> QED BY <1>5, <1>6, <1>9, <1>10, <1>11 DEF ReadInv, Layout

(* The reader at the end of the file, with no fragment to come.            *)
LEMMA AtEofReadInv ==
  ASSUME IInv, ReadInv, phase = "read", eof, AtEof,
         \A from, to \in [DOMAIN frags -> Nat] : Layout(from, to) =>
           \A c \in 0..Len(frags) : InStep(c, from, to) /\ c + 1 \in DOMAIN frags /\ Early(c + 1) => position < to[c + 1]
  PROVE  ReadInv'
<1>1. /\ phase' = "done" /\ buffer' = <<>> /\ scratch' = <<>>
      /\ UNCHANGED <<file, writer, failures, position, eof, read, reported>> /\ UNCHANGED <<frags, records>>
  BY DEF AtEof, writer
<1>2. PICK from, to \in [DOMAIN frags -> Nat] : Layout(from, to)
  BY DEF ReadInv
<1>3. FragsRight /\ BufferRight /\ Laid(from, to) /\ InBlocks(from, to) /\ CollectedRight(from, to) /\ InTurn(from, to)
  BY <1>2 DEF ReadInv, Layout
<1>4. FragsRight' /\ Laid(from, to)' /\ InBlocks(from, to)'
  BY <1>1, <1>3, ReaderKeeps
<1>5. InTurn(from, to)'
  BY <1>1, <1>2, <1>3, DoneInTurn
<1>6. BufferRight' /\ CollectedRight(from, to)'
  BY <1>1, <1>3, Dropped
<1>7. from \in [DOMAIN frags' -> Nat] /\ to \in [DOMAIN frags' -> Nat]
  BY <1>1
<1> QED BY <1>4, <1>5, <1>6, <1>7 DEF ReadInv, Layout

(* The end of the file, with less than a header left.                      *)
LEMMA ReadEofReadInv ==
  ASSUME IInv, ReadInv, ReadEof
  PROVE  ReadInv'
<1>1. phase = "read" /\ Len(buffer) < HeaderSize /\ eof /\ AtEof
  BY DEF ReadEof
<1>2. ASSUME NEW from \in [DOMAIN frags -> Nat], NEW to \in [DOMAIN frags -> Nat], Layout(from, to),
             NEW c \in 0..Len(frags), InStep(c, from, to), c + 1 \in DOMAIN frags, Early(c + 1)
      PROVE  position < to[c + 1]
  <2>1. BufferRight /\ Laid(from, to)
    BY <1>2 DEF ReadInv, Layout
  <2> QED BY <1>1, <1>2, <2>1, ShortBlock
<1> QED BY <1>1, <1>2, AtEofReadInv

(* What the reader sees of a fragment that is there, as a whole or cut.    *)
LEMMA HeaderHere ==
  ASSUME IInv, BufferRight, NEW from \in [DOMAIN frags -> Nat], NEW to \in [DOMAIN frags -> Nat], Laid(from, to),
         NEW i \in DOMAIN frags, Early(i), from[i] = Here, Len(buffer) >= HeaderSize
  PROVE  /\ Head(buffer)[1] = i /\ Untorn /\ Header # Zeros(HeaderSize)
         /\ Size(i) <= Len(buffer) => Whole(i)
<1>1. /\ Here \in Nat /\ position \in Nat /\ Len(buffer) \in Nat /\ position = Here + Len(buffer)
      /\ \A k \in 1..Len(buffer) : buffer[k] = file[Here + k] /\ Here + k \in DOMAIN file
      /\ DOMAIN frags = 1..Len(frags) /\ Len(frags) \in Nat
  BY HereFacts, Shapes
<1>2. to[i] = Here + Size(i) /\ HeaderSize <= Size(i) /\ Size(i) \in Nat /\ HeaderSize \in Nat \ {0}
  BY EarlyKept
<1>3. ASSUME NEW k \in 1..Len(buffer), k <= Size(i) PROVE buffer[k] = <<i, k>>
  <2>1. Here + k \in DOMAIN file /\ from[i] < Here + k /\ Here + k <= to[i] /\ (Here + k) - from[i] = k
    BY <1>1, <1>2, <1>3
  <2>2. file[Here + k] = <<i, (Here + k) - from[i]>>
    BY <2>1 DEF Laid
  <2> QED BY <1>1, <2>1, <2>2
<1>4. PICK B : B = ByteOf(Len(frags))
  OBVIOUS
<1>5. buffer \in Seq(B)
  BY <1>4 DEF IInv, FileOK
<1>6. ASSUME NEW s \in Nat \ {0}, s <= Size(i), s <= Len(buffer)
      PROVE  SubSeq(buffer, 1, s) = [k \in 1..s |-> <<i, k>>]
  <2>1. \A k \in 1..s : buffer[k] \in B
    BY <1>5, <1>6
  <2>2. /\ SubSeq(buffer, 1, s) \in Seq(B) /\ Len(SubSeq(buffer, 1, s)) = s
        /\ \A k \in 1..s : SubSeq(buffer, 1, s)[k] = buffer[k]
    BY <1>1, <1>5, <1>6, <2>1
  <2>3. \A k \in 1..s : SubSeq(buffer, 1, s)[k] = <<i, k>>
    <3> SUFFICES ASSUME NEW k \in 1..s PROVE SubSeq(buffer, 1, s)[k] = <<i, k>>
      OBVIOUS
    <3>1. k \in 1..Len(buffer) /\ k <= Size(i)
      BY <1>1, <1>2, <1>6
    <3>2. buffer[k] = <<i, k>>
      BY <1>3, <3>1
    <3> QED BY <2>2, <3>2
  <2>4. /\ DOMAIN SubSeq(buffer, 1, s) = 1..s
        /\ SubSeq(buffer, 1, s) = [k \in DOMAIN SubSeq(buffer, 1, s) |-> SubSeq(buffer, 1, s)[k]]
    BY <2>2
  <2> QED BY <2>3, <2>4
<1>7. Header = [k \in 1..HeaderSize |-> <<i, k>>]
  BY <1>1, <1>2, <1>6 DEF Header
<1>8. Head(buffer) = <<i, 1>> /\ i # 0
  <2>1. 1 \in 1..Len(buffer) /\ 1 <= Size(i) /\ i # 0
    BY <1>1, <1>2
  <2>2. buffer[1] = <<i, 1>>
    BY <1>3, <2>1
  <2>3. Head(buffer) = buffer[1]
    BY <1>5, <2>1
  <2> QED BY <2>1, <2>2, <2>3
<1>9. Head(buffer)[1] = i
  BY <1>8
<1>10. Untorn
  BY <1>7, <1>8, <1>9 DEF Untorn
<1>11. Header # Zeros(HeaderSize)
  <2>1. 1 \in 1..HeaderSize /\ Header[1] = <<i, 1>>
    BY <1>2, <1>7
  <2>2. Zeros(HeaderSize)[1] = Zero
    BY <2>1 DEF Zeros
  <2>3. <<i, 1>> # Zero
    BY <1>8 DEF Zero
  <2> QED BY <2>1, <2>2, <2>3
<1>12. Size(i) <= Len(buffer) => Whole(i)
  <2>1. ASSUME Size(i) <= Len(buffer) PROVE Whole(i)
    <3>1. Size(i) \in Nat \ {0} /\ Size(i) <= Size(i)
      BY <1>2
    <3>2. SubSeq(buffer, 1, Size(i)) = [k \in 1..Size(i) |-> <<i, k>>]
      BY <1>6, <2>1, <3>1
    <3> QED BY <3>2 DEF Whole, Size
  <2> QED BY <2>1
<1> QED BY <1>9, <1>10, <1>11, <1>12

(* A bad record that was to come in turn is one the file was cut in.       *)
LEMMA BadInTurn ==
  ASSUME IInv, BufferRight, ReadBad, NEW from \in [DOMAIN frags -> Nat], NEW to \in [DOMAIN frags -> Nat],
         Laid(from, to), InBlocks(from, to), NEW c \in 0..Len(frags), InStep(c, from, to),
         NEW i \in DOMAIN frags, i = c + 1, Early(i)
  PROVE  eof /\ AtEof /\ position < to[i]
<1>1. phase = "read" /\ Len(buffer) >= HeaderSize
  BY DEF ReadBad
<1>2. from[i] = Here
  BY <1>1, NextPlace
<1>3. /\ Head(buffer)[1] = i /\ Untorn /\ Header # Zeros(HeaderSize)
      /\ Size(i) <= Len(buffer) => Whole(i)
  BY <1>1, <1>2, HeaderHere
<1>4. IF HeaderSize + frags[i].length > Len(buffer) THEN IF eof THEN AtEof ELSE BadRecord(TRUE)
      ELSE ~Whole(i) /\ BadRecord(TRUE)
  BY <1>3 DEF ReadBad
<1>5. /\ Here \in Nat /\ position \in Nat /\ Len(buffer) \in Nat /\ position = Here + Len(buffer)
      /\ BlockSize \in Nat /\ HeaderSize \in Nat \ {0}
  BY HereFacts, Shapes
<1>6. to[i] = Here + Size(i) /\ Size(i) \in Nat
  BY <1>2, EarlyKept
<1>7. Size(i) > Len(buffer)
  <2>1. Size(i) = HeaderSize + frags[i].length
    BY DEF Size
  <2>2. ASSUME Size(i) <= Len(buffer) PROVE FALSE
    <3>1. ~(HeaderSize + frags[i].length > Len(buffer))
      BY <1>5, <1>6, <2>1, <2>2
    <3> QED BY <1>3, <1>4, <2>2, <3>1, Zenon
  <2> QED BY <1>5, <1>6, <2>2
<1>8. position < to[i]
  BY <1>5, <1>6, <1>7
<1>9. eof
  <2>1. SUFFICES ASSUME ~eof PROVE FALSE
    OBVIOUS
  <2>2. PICK d \in Nat : position = d * BlockSize
    BY <1>1, <2>1 DEF BufferRight, BlockEnd
  <2>3. PICK b \in Nat : b * BlockSize <= from[i] /\ to[i] <= b * BlockSize + BlockSize
    BY DEF InBlocks
  <2> DEFINE u == b * BlockSize
             v == d * BlockSize
  <2>4. u \in Nat /\ v \in Nat /\ position = v /\ u <= Here /\ to[i] <= u + BlockSize
    <3>1. u \in Nat /\ v \in Nat
      BY <1>5
    <3>2. position = v /\ u <= Here /\ to[i] <= u + BlockSize
      BY <1>2, <2>2, <2>3
    <3> QED BY <3>1, <3>2
  <2>5. v < u + BlockSize => v <= u
    BY <1>5, BlockOrder
  <2> HIDE DEF u, v
  <2> QED BY <1>1, <1>5, <1>6, <1>8, <2>4, <2>5
<1>10. AtEof
  <2>1. HeaderSize + frags[i].length > Len(buffer)
    BY <1>7 DEF Size
  <2> QED BY <1>4, <1>9, <2>1
<1> QED BY <1>8, <1>9, <1>10

(* With a bad record the reader is past the first failure.                 *)
LEMMA BadRecordReadInv ==
  ASSUME IInv, ReadInv, ReadBad, NEW said \in BOOLEAN, BadRecord(said)
  PROVE  ReadInv'
<1>1. /\ phase = "read" /\ phase' = "read" /\ Len(buffer) >= HeaderSize /\ buffer' = <<>> /\ scratch' = <<>>
      /\ UNCHANGED <<file, writer, failures, position, eof, read>> /\ UNCHANGED <<frags, records>>
  BY DEF ReadBad, BadRecord, writer
<1>2. PICK from, to \in [DOMAIN frags -> Nat] : Layout(from, to)
  BY DEF ReadInv
<1>3. FragsRight /\ BufferRight /\ Laid(from, to) /\ InBlocks(from, to) /\ CollectedRight(from, to) /\ InTurn(from, to)
  BY <1>2 DEF ReadInv, Layout
<1>4. Passed(to) /\ failures # 0
  <2>1. SUFFICES ASSUME NEW c \in 0..Len(frags), InStep(c, from, to) PROVE Passed(to) /\ failures # 0
    BY <1>1, <1>3 DEF InTurn
  <2>2. /\ Here \in Nat /\ position \in Nat /\ Len(buffer) \in Nat /\ position = Here + Len(buffer) /\ position <= Len(file)
        /\ DOMAIN frags = 1..Len(frags) /\ Len(frags) \in Nat /\ HeaderSize \in Nat \ {0} /\ Len(file) \in Nat
    BY <1>3, HereFacts, Shapes
  <2>3. c + 1 \in DOMAIN frags => ~Early(c + 1)
    <3>1. ASSUME c + 1 \in DOMAIN frags, Early(c + 1) PROVE FALSE
      <4>1. AtEof
        BY <1>3, <2>1, <3>1, BadInTurn
      <4> QED BY <1>1, <4>1 DEF AtEof
    <3> QED BY <3>1
  <2>4. Passed(to) /\ (c + 1 \in DOMAIN frags => failures # 0)
    BY <1>3, <2>1, <2>3, InStepPassed
  <2>5. ASSUME c + 1 \notin DOMAIN frags PROVE failures # 0
    <3>1. c = Len(frags)
      <4>1. Len(frags) \in Nat /\ c \in Nat /\ c <= Len(frags) /\ ~(c + 1 \in 1..Len(frags))
        BY <2>2, <2>5
      <4> QED BY <4>1
    <3>2. Here < Len(file)
      BY <1>1, <2>2
    <3>3. CASE c = 0
      BY <1>3, <2>2, <3>1, <3>2, <3>3 DEF Laid
    <3>4. CASE c # 0
      <4>1. c \in DOMAIN frags
        BY <2>1, <2>2, <3>4
      <4>2. to[c] <= Here /\ to[c] \in Nat
        BY <2>1, <4>1 DEF InStep
      <4> QED BY <1>3, <2>2, <3>1, <3>2, <3>4, <4>2 DEF Laid
    <3> QED BY <3>3, <3>4
  <2> QED BY <2>4, <2>5
<1>5. FragsRight' /\ Laid(from, to)' /\ InBlocks(from, to)'
  BY <1>1, <1>3, ReaderKeeps
<1>6. BufferRight' /\ CollectedRight(from, to)'
  BY <1>1, <1>3, Dropped
<1>7. InTurn(from, to)'
  <2>1. \A i : Given(i) => Given(i)'
    BY <1>1 DEF Given, Rec
  <2>2. Passed(to)'
    BY <1>1, <1>4, <2>1, PassedStays
  <2> QED BY <1>1, <1>4, <2>2 DEF InTurn
<1>8. from \in [DOMAIN frags' -> Nat] /\ to \in [DOMAIN frags' -> Nat]
  BY <1>1
<1> QED BY <1>5, <1>6, <1>7, <1>8 DEF ReadInv, Layout

(* A bad record, reported or taken for the torn tail.                      *)
LEMMA ReadBadReadInv ==
  ASSUME IInv, ReadInv, ReadBad
  PROVE  ReadInv'
<1>1. (\E said \in BOOLEAN : BadRecord(said)) \/ (eof /\ AtEof)
  <2>1. \/ BadRecord(FALSE) \/ BadRecord(TRUE) \/ (eof /\ AtEof)
    BY Zenon DEF ReadBad
  <2> QED BY <2>1
<1>2. CASE eof /\ AtEof
  <2>1. phase = "read"
    BY DEF ReadBad
  <2>2. ASSUME NEW from \in [DOMAIN frags -> Nat], NEW to \in [DOMAIN frags -> Nat], Layout(from, to),
               NEW c \in 0..Len(frags), InStep(c, from, to), c + 1 \in DOMAIN frags, Early(c + 1)
        PROVE  position < to[c + 1]
    <3>1. BufferRight /\ Laid(from, to) /\ InBlocks(from, to)
      BY <2>2 DEF ReadInv, Layout
    <3> QED BY <2>2, <3>1, BadInTurn
  <2> QED BY <1>2, <2>1, <2>2, AtEofReadInv
<1> QED BY <1>1, <1>2, BadRecordReadInv

(* A sound record.                                                         *)
LEMMA ReadPhysicalRecordReadInv ==
  ASSUME IInv, ReadInv, ReadPhysicalRecord
  PROVE  ReadInv'
<1>1. PICK from, to \in [DOMAIN frags -> Nat] : Layout(from, to)
  BY DEF ReadInv
<1>2. FragsRight /\ BufferRight /\ Laid(from, to) /\ InBlocks(from, to) /\ CollectedRight(from, to) /\ InTurn(from, to)
  BY <1>1 DEF ReadInv, Layout
<1>3. /\ phase = "read" /\ phase' = "read" /\ BufferRight'
      /\ UNCHANGED <<file, writer, failures>> /\ UNCHANGED <<frags, records>>
  BY <1>2, RecordPlace DEF writer
<1>4. FragsRight' /\ Laid(from, to)' /\ InBlocks(from, to)'
  BY <1>2, <1>3, ReaderKeeps
<1>5. CollectedRight(from, to)' /\ InTurn(from, to)'
  BY <1>2, ReadPhysicalRecordCollected, ReadPhysicalRecordInTurn
<1>6. from \in [DOMAIN frags' -> Nat] /\ to \in [DOMAIN frags' -> Nat]
  BY <1>3
<1> QED BY <1>3, <1>4, <1>5, <1>6 DEF ReadInv, Layout

(* The next block.                                                         *)
LEMMA ReadBlockReadInv ==
  ASSUME IInv, ReadInv, ReadBlock
  PROVE  ReadInv'
<1>1. PICK from, to \in [DOMAIN frags -> Nat] : Layout(from, to)
  BY DEF ReadInv
<1>2. FragsRight /\ BufferRight /\ Laid(from, to) /\ InBlocks(from, to) /\ CollectedRight(from, to) /\ InTurn(from, to)
  BY <1>1 DEF ReadInv, Layout
<1>3. /\ phase = "read" /\ phase' = "read" /\ BufferRight'
      /\ UNCHANGED <<file, writer, failures>> /\ UNCHANGED <<frags, records>>
  BY <1>2, ReadBlockPlace DEF writer
<1>4. FragsRight' /\ Laid(from, to)' /\ InBlocks(from, to)'
  BY <1>2, <1>3, ReaderKeeps
<1>5. CollectedRight(from, to)' /\ InTurn(from, to)'
  BY <1>2, ReadBlockCollected, ReadBlockInTurn
<1>6. from \in [DOMAIN frags' -> Nat] /\ to \in [DOMAIN frags' -> Nat]
  BY <1>3
<1> QED BY <1>3, <1>4, <1>5, <1>6 DEF ReadInv, Layout

-------------------------------------------------------------------------------
(* The invariant of the reader, and what follows from it.                  *)

(* Nothing is written and nothing is read.                                 *)
LEMMA InitReadInv == Init => ReadInv
<1> SUFFICES ASSUME Init PROVE ReadInv
  OBVIOUS
<1>1. /\ file = <<>> /\ records = <<>> /\ frags = <<>> /\ failures = 0 /\ phase = "write" /\ begin = TRUE
      /\ position = 0 /\ buffer = <<>> /\ eof = FALSE /\ scratch = <<>> /\ read = <<>> /\ reported = FALSE
  BY DEF Init
<1>2. /\ DOMAIN frags = {} /\ DOMAIN records = {} /\ DOMAIN file = {} /\ DOMAIN buffer = {}
      /\ Len(frags) = 0 /\ Len(file) = 0 /\ Len(buffer) = 0 /\ Len(read) = 0 /\ 1..Len(read) = {}
  BY <1>1
<1>3. FragsRight
  BY <1>1, <1>2 DEF FragsRight, Adding
<1>4. BufferRight
  BY <1>1, <1>2 DEF BufferRight
<1>5. PICK none \in [DOMAIN frags -> Nat] : TRUE
  <2>1. [i \in DOMAIN frags |-> 0] \in [DOMAIN frags -> Nat]
    OBVIOUS
  <2> QED BY <2>1
<1>6. Laid(none, none) /\ InBlocks(none, none)
  BY <1>1, <1>2 DEF Laid, InBlocks
<1>7. CollectedRight(none, none)
  <2>1. read \in Seq(Seq(Nat))
    BY <1>1
  <2> QED BY <1>1, <1>2, <2>1 DEF CollectedRight
<1>8. InTurn(none, none)
  BY <1>1 DEF InTurn
<1> QED BY <1>3, <1>4, <1>6, <1>7, <1>8 DEF ReadInv, Layout

(* A step of something else.                                               *)
LEMMA StutterReadInv ==
  ASSUME ReadInv, UNCHANGED vars
  PROVE  ReadInv'
<1>1. /\ UNCHANGED <<file, begin, records, frags, failures, phase>>
      /\ UNCHANGED <<position, buffer, eof, scratch, read, reported>>
  BY DEF vars
<1>2. PICK from, to \in [DOMAIN frags -> Nat] : Layout(from, to)
  BY DEF ReadInv
<1>3. FragsRight /\ BufferRight /\ Laid(from, to) /\ InBlocks(from, to) /\ CollectedRight(from, to) /\ InTurn(from, to)
  BY <1>2 DEF ReadInv, Layout
<1>4. \A i : Rec(i)' = Rec(i) /\ Size(i)' = Size(i) /\ (Begins(i)' <=> Begins(i)) /\ (Ends(i)' <=> Ends(i))
  BY <1>1 DEF Rec, Size, Begins, Ends
<1>5. \A i : (Kept(i)' <=> Kept(i)) /\ (Early(i)' <=> Early(i))
  BY <1>1 DEF Kept, Early, Rec
<1>6. FragsRight'
  <2>1. Adding' <=> Adding
    BY <1>1 DEF Adding
  <2> QED BY <1>1, <1>3, <2>1 DEF FragsRight, Rec, Begins, Ends
<1>7. Here' = Here
  BY <1>1 DEF Here
<1>8. BufferRight'
  BY <1>1, <1>3, <1>7 DEF BufferRight, BlockEnd
<1>9. Laid(from, to)'
  BY <1>1, <1>3 DEF Laid, Size, Kept, Rec, Zero
<1>10. InBlocks(from, to)'
  BY <1>1, <1>3 DEF InBlocks, Early, Rec, BlockEnd
<1>11. CollectedRight(from, to)'
  BY <1>1, <1>3, <1>7 DEF CollectedRight, RunOf, Missed, Stuck, Begins, Ends, Kept, Rec
<1>12. InTurn(from, to)'
  <2>1. \A i : Given(i)' <=> Given(i)
    BY <1>1 DEF Given, Rec
  <2>2. \A c : InStep(c, from, to)' <=> InStep(c, from, to)
    BY <1>1, <1>4, <1>5, <1>7, <2>1 DEF InStep
  <2>3. Passed(to)' <=> Passed(to)
    BY <1>1, <1>4, <1>5, <2>1 DEF Passed
  <2> QED BY <1>1, <1>3, <2>2, <2>3 DEF InTurn
<1>13. from \in [DOMAIN frags' -> Nat] /\ to \in [DOMAIN frags' -> Nat]
  BY <1>1
<1> QED BY <1>6, <1>8, <1>9, <1>10, <1>11, <1>12, <1>13 DEF ReadInv, Layout

(* ReadInv is inductive relative to IInv.                                  *)
LEMMA NextReadInv == IInv /\ ReadInv /\ [Next]_vars => ReadInv'
<1> SUFFICES ASSUME IInv, ReadInv, [Next]_vars PROVE ReadInv'
  OBVIOUS
<1>1. CASE Write
  BY <1>1, AddRecordReadInv, EmitPhysicalRecordReadInv, EmitPhysicalRecordFailsReadInv DEF Write
<1>2. CASE Stop
  BY <1>2, StopReadInv
<1>3. CASE Read
  BY <1>3, ReadBlockReadInv, ReadBlockFailsReadInv, ReadEofReadInv, ReadBadReadInv, ReadPhysicalRecordReadInv DEF Read
<1>4. CASE UNCHANGED vars
  BY <1>4, StutterReadInv
<1> QED BY <1>1, <1>2, <1>3, <1>4 DEF Next

(* What a reader has read, at every step.                                  *)
THEOREM ReaderInvariant == Spec => []ReadInv
<1>1. Init => IInv /\ ReadInv
  BY InitIInv, InitReadInv
<1>2. IInv /\ ReadInv /\ [Next]_vars => IInv' /\ ReadInv'
  BY NextIInv, NextReadInv
<1> QED BY <1>1, <1>2, PTL DEF Spec

(* A run that ends with the end of a record is all of its fragments.       *)
LEMMA RunIsRecord ==
  ASSUME IInv, FragsRight, NEW to, NEW ids, RunOf(ids, to), Ends(ids[Len(ids)])
  PROVE  /\ RecordOf(ids) = Rec(ids[1]) /\ Rec(ids[Len(ids)]) = Rec(ids[1])
         /\ records[RecordOf(ids)] = "added"
         /\ Range(ids) = FragmentsOf(RecordOf(ids))
         /\ \A m, n \in DOMAIN ids : m < n => ids[m] < ids[n]
<1>1. PICK r, first, last : r = Rec(ids[1]) /\ first = ids[1] /\ last = ids[Len(ids)]
  OBVIOUS
<1>2. /\ ids \in Seq(Nat) /\ Len(ids) \in Nat \ {0} /\ DOMAIN ids = 1..Len(ids)
      /\ \A n \in 1..Len(ids) : ids[n] \in DOMAIN frags /\ ids[n] = first + (n - 1) /\ Rec(ids[n]) = r
      /\ Begins(first) /\ Kept(last) /\ Ends(last)
  BY <1>1 DEF RunOf
<1>3. /\ first \in DOMAIN frags /\ last \in DOMAIN frags /\ last = first + (Len(ids) - 1)
      /\ Rec(first) = r /\ Rec(last) = r
  BY <1>1, <1>2
<1>4. /\ DOMAIN frags = 1..Len(frags) /\ Len(frags) \in Nat /\ DOMAIN records = 1..Len(records) /\ Len(records) \in Nat
      /\ \A i \in DOMAIN frags : Rec(i) \in DOMAIN records
      /\ \A q \in DOMAIN records : records[q] \in Status
  BY Shapes
<1>5. RecordOf(ids) = r
  <2>1. Head(ids) = first
    BY <1>1, <1>2
  <2> QED BY <1>3, <2>1 DEF RecordOf, Rec
<1>6. last + 1 \in DOMAIN frags => r < Rec(last + 1)
  BY <1>2, <1>3 DEF FragsRight
<1>7. records[r] = "added"
  <2>1. r \in Nat /\ (last + 1 \in DOMAIN frags => Rec(last + 1) \in Nat) /\ records[r] \in Status
    BY <1>3, <1>4
  <2>2. records[r] # "failed"
    BY <1>2, <1>3, <1>6, <2>1 DEF Kept
  <2>3. records[r] # "adding"
    BY <1>2, <1>3 DEF FragsRight
  <2> QED BY <2>1, <2>2, <2>3 DEF Status
<1>8. ASSUME NEW i \in DOMAIN frags, Rec(i) = r PROVE \E n \in DOMAIN ids : ids[n] = i
  <2>1. i \in Nat /\ first \in Nat /\ last \in Nat /\ r \in Nat
    BY <1>3, <1>4
  <2>2. first <= i
    <3>1. ASSUME i < first PROVE FALSE
      <4>1. first # 1 /\ first - 1 \in DOMAIN frags /\ i <= first - 1
        BY <1>3, <1>4, <2>1, <3>1
      <4>2. Rec(first - 1) < r
        BY <1>2, <1>3, <4>1 DEF FragsRight
      <4>3. r <= Rec(first - 1)
        BY <1>8, <4>1 DEF FragsRight
      <4>4. Rec(first - 1) \in Nat
        BY <1>4, <4>1
      <4> QED BY <2>1, <4>2, <4>3, <4>4
    <3> QED BY <2>1, <3>1
  <2>3. i <= last
    <3>1. ASSUME last < i PROVE FALSE
      <4>1. last + 1 \in DOMAIN frags /\ last + 1 <= i
        BY <1>3, <1>4, <2>1, <3>1
      <4>2. r < Rec(last + 1)
        BY <1>6, <4>1
      <4>3. Rec(last + 1) <= r
        BY <1>8, <4>1 DEF FragsRight
      <4>4. Rec(last + 1) \in Nat
        BY <1>4, <4>1
      <4> QED BY <2>1, <4>2, <4>3, <4>4
    <3> QED BY <2>1, <3>1
  <2>4. (i - first) + 1 \in 1..Len(ids) /\ i = first + (((i - first) + 1) - 1)
    BY <1>2, <1>3, <2>1, <2>2, <2>3
  <2> QED BY <1>2, <2>4
<1>9. Range(ids) = FragmentsOf(r)
  <2>1. FragmentsOf(r) = {i \in DOMAIN frags : Rec(i) = r}
    BY DEF FragmentsOf, Rec
  <2>2. \A n \in DOMAIN ids : ids[n] \in DOMAIN frags /\ Rec(ids[n]) = r
    BY <1>2
  <2> QED BY <1>8, <2>1, <2>2 DEF Range
<1>10. \A m, n \in DOMAIN ids : m < n => ids[m] < ids[n]
  <2> SUFFICES ASSUME NEW m \in 1..Len(ids), NEW n \in 1..Len(ids), m < n PROVE ids[m] < ids[n]
    BY <1>2
  <2>1. ids[m] = first + (m - 1) /\ ids[n] = first + (n - 1) /\ first \in Nat
    BY <1>2, <1>3, <1>4
  <2> QED BY <2>1
<1> QED BY <1>1, <1>3, <1>5, <1>7, <1>9, <1>10

(* What is read, from the runs that were collected.                        *)
LEMMA OnlyRecords == IInv /\ ReadInv => ReadsOnlyRecords
<1> SUFFICES ASSUME IInv, ReadInv PROVE ReadsOnlyRecords
  OBVIOUS
<1>1. PICK from, to \in [DOMAIN frags -> Nat] : FragsRight /\ CollectedRight(from, to)
  BY DEF ReadInv, Layout
<1>2. DOMAIN read = 1..Len(read)
  BY <1>1 DEF CollectedRight
<1>3. ASSUME NEW k \in DOMAIN read PROVE RunOf(read[k], to) /\ Ends(read[k][Len(read[k])])
  BY <1>1, <1>2 DEF CollectedRight
<1>4. ASSUME NEW k \in DOMAIN read, NEW l \in DOMAIN read, k < l
      PROVE  RecordOf(read[k]) < RecordOf(read[l])
  <2>1. PICK a, b : a = read[k] /\ b = read[l]
    OBVIOUS
  <2>2. RunOf(a, to) /\ Ends(a[Len(a)]) /\ RunOf(b, to) /\ Ends(b[Len(b)])
    BY <1>3, <2>1
  <2>3. RecordOf(a) = Rec(a[Len(a)]) /\ RecordOf(b) = Rec(b[1])
    <3>1. RecordOf(a) = Rec(a[1]) /\ Rec(a[Len(a)]) = Rec(a[1])
      BY <1>1, <2>2, RunIsRecord
    <3>2. RecordOf(b) = Rec(b[1])
      BY <1>1, <2>2, RunIsRecord
    <3> QED BY <3>1, <3>2
  <2>4. PICK i, j : i = a[Len(a)] /\ j = b[1]
    OBVIOUS
  <2>5. i \in DOMAIN frags /\ j \in DOMAIN frags /\ Begins(j)
    <3>1. Len(a) \in 1..Len(a) /\ 1 \in 1..Len(b)
      BY <2>2 DEF RunOf
    <3> QED BY <2>2, <2>4, <3>1 DEF RunOf
  <2>6. i < j
    BY <1>1, <1>2, <1>4, <2>1, <2>4 DEF CollectedRight
  <2>7. j # 1 /\ j - 1 \in DOMAIN frags /\ i <= j - 1 /\ \A n \in DOMAIN frags : Rec(n) \in Nat
    <3>1. /\ DOMAIN frags = 1..Len(frags) /\ Len(frags) \in Nat /\ DOMAIN records = 1..Len(records) /\ Len(records) \in Nat
          /\ \A n \in DOMAIN frags : Rec(n) \in DOMAIN records
      BY Shapes
    <3> QED BY <2>5, <2>6, <3>1
  <2>8. Rec(i) <= Rec(j - 1) /\ Rec(j - 1) < Rec(j)
    BY <1>1, <2>5, <2>7 DEF FragsRight
  <2>9. Rec(i) < Rec(j)
    BY <2>5, <2>7, <2>8
  <2> QED BY <2>1, <2>3, <2>4, <2>9
<1>5. ASSUME NEW k \in DOMAIN read
      PROVE  /\ records[RecordOf(read[k])] = "added"
             /\ Range(read[k]) = FragmentsOf(RecordOf(read[k]))
             /\ \A m, n \in DOMAIN read[k] : m < n => read[k][m] < read[k][n]
  BY <1>1, <1>3, RunIsRecord
<1> QED BY <1>4, <1>5 DEF ReadsOnlyRecords

(* What is not lost, from the reader having passed it in turn.             *)
LEMMA NothingLost == IInv /\ ReadInv => NothingLostBeforeFlaw
<1> SUFFICES ASSUME IInv, ReadInv, phase = "done", position = Len(file), NEW r \in SafeRecords
             PROVE  \E k \in DOMAIN read : RecordOf(read[k]) = r
  BY DEF NothingLostBeforeFlaw
<1>1. PICK from, to \in [DOMAIN frags -> Nat] :
        FragsRight /\ Laid(from, to) /\ CollectedRight(from, to) /\ Passed(to)
  BY DEF ReadInv, Layout, InTurn
<1>2. /\ r \in DOMAIN records /\ \A q \in 1..r : records[q] = "added"
      /\ \A i \in FragmentsOf(r) : Contains(file, <<i, HeaderSize + frags[i].length>>)
  BY DEF SafeRecords
<1>3. records[r] = "added"
  <2>1. r \in 1..r
    BY <1>2, Shapes
  <2> QED BY <1>2, <2>1
<1>4. PICK i \in DOMAIN frags : Rec(i) = r /\ Ends(i)
  BY <1>1, <1>2, <1>3 DEF FragsRight
<1>5. Early(i)
  BY <1>2, <1>4 DEF Early
<1>6. to[i] <= Len(file)
  <2>1. Contains(file, <<i, Size(i)>>)
    BY <1>2, <1>4 DEF FragmentsOf, Rec, Size
  <2>2. PICK a \in 1..Len(file) : file[a] = <<i, Size(i)>>
    BY <2>1 DEF Contains
  <2>3. a \in DOMAIN file /\ i # 0 /\ Len(file) \in Nat /\ a \in Nat
    BY <2>2, Shapes
  <2>4. from[i] + Size(i) = a
    BY <1>1, <2>2, <2>3, BytePlace
  <2>5. to[i] = from[i] + Size(i)
    BY <1>1, <1>5, EarlyKept
  <2> QED BY <2>2, <2>3, <2>4, <2>5
<1>7. PICK k \in 1..Len(read) : Rec(read[k][1]) = r
  BY <1>1, <1>4, <1>5, <1>6 DEF Passed, Given
<1>8. k \in DOMAIN read /\ RunOf(read[k], to) /\ Ends(read[k][Len(read[k])])
  BY <1>1 DEF CollectedRight
<1>9. RecordOf(read[k]) = Rec(read[k][1])
  BY <1>1, <1>8, RunIsRecord
<1> QED BY <1>7, <1>8, <1>9

(* ReadRecord returns whole records that were added, in order and once,    *)
(* however appends failed and wherever the file was cut.                   *)
THEOREM LogReadsOnlyRecords == Spec => []ReadsOnlyRecords
  BY LogInvariant, ReaderInvariant, OnlyRecords, PTL

(* A reader that met no failing read has returned every record from before *)
(* the first failed append that the file still has.                        *)
THEOREM NothingLostInLog == Spec => []NothingLostBeforeFlaw
  BY LogInvariant, ReaderInvariant, NothingLost, PTL

(* With no failure, wherever the file was cut, nothing is reported.        *)
THEOREM TornTailIsSilent == Spec => []TornTailIsNoCorruption
<1>1. IInv /\ ReadInv => TornTailIsNoCorruption
  BY DEF ReadInv, Layout, InTurn, TornTailIsNoCorruption
<1> QED BY <1>1, LogInvariant, ReaderInvariant, PTL

-------------------------------------------------------------------------------
(* The promise: what it is worth to a writer.                              *)

(* Every part of the state has its shape; what is durable or exposed is in *)
(* the store.                                                              *)
DTypeOK ==
  /\ answer \in [Writer -> Answer]
  /\ durable \subseteq Stored /\ exposed \subseteq Stored
  /\ Stored \subseteq Writer

(* The writes that were promised to survive everything. *)
Promised == {w \in Writer \intersect Synced : answer[w] = "ok"}

(* While no write has failed nothing is exposed, and a synced write that   *)
(* was acknowledged is durable.                                            *)
NoFailureNoLoss ==
  (\A w \in Writer : answer[w] # "error") => exposed = {} /\ Promised \subseteq durable

(* What is durable stays durable, and readable, in its place. *)
DurableStays ==
  [][ /\ durable \subseteq durable'
      /\ \A w \in durable : w \in DOMAIN store' /\ store'[w] = store[w] ]_storeVars

(* A write that was refused or lost is never acknowledged afterwards, and  *)
(* an acknowledged one stays so.                                           *)
AnswersAreFinal ==
  [][\A w \in Writer : answer[w] \in {"ok", "error", "lost"} => answer'[w] = answer[w]]_storeVars

-------------------------------------------------------------------------------
(* Every step keeps the types. *)
LEMMA TypeStep ==
  ASSUME DTypeOK, [DNext]_storeVars
  PROVE  DTypeOK'
<1>1. ASSUME NEW w \in Writer, Ask(w) PROVE DTypeOK'
  BY <1>1 DEF Ask, DTypeOK, Stored, Answer
<1>2. ASSUME NEW group \in SUBSET Writer, Commit(group) PROVE DTypeOK'
  BY <1>2 DEF Commit, GrowsBy, DTypeOK, Stored, Answer
<1>3. ASSUME NEW group \in SUBSET Writer, Refuse(group) PROVE DTypeOK'
  BY <1>3 DEF Refuse, DTypeOK, Stored, Answer
<1>4. CASE Settle
  BY <1>4 DEF Settle, DTypeOK, Stored
<1>5. ASSUME NEW kept \in SUBSET Stored, NEW late \in SUBSET Writer, Crash(kept, late) PROVE DTypeOK'
  BY <1>5 DEF Crash, DTypeOK, Stored, Answer
<1>6. CASE UNCHANGED storeVars
  BY <1>6 DEF storeVars, DTypeOK, Stored
<1>7. CASE ProcessCrash
  BY <1>5, <1>7 DEF ProcessCrash
<1>8. CASE PowerLoss
  BY <1>5, <1>8 DEF PowerLoss
<1> QED BY <1>1, <1>2, <1>3, <1>4, <1>6, <1>7, <1>8 DEF DNext

(* A failed write has failed for good, so that the premise of the promise  *)
(* held before the step if it holds after it.                              *)
LEMMA PromiseStep ==
  ASSUME DTypeOK, NoFailureNoLoss, [DNext]_storeVars
  PROVE  NoFailureNoLoss'
<1> SUFFICES ASSUME \A w \in Writer : answer'[w] # "error"
             PROVE  exposed' = {} /\ \A w \in Writer \intersect Synced : answer'[w] = "ok" => w \in durable'
  BY DEF NoFailureNoLoss, Promised
<1>1. ASSUME NEW w \in Writer, Ask(w)
      PROVE exposed' = {} /\ \A v \in Writer \intersect Synced : answer'[v] = "ok" => v \in durable'
  BY <1>1 DEF Ask, DTypeOK, NoFailureNoLoss, Promised
<1>2. ASSUME NEW group \in SUBSET Writer, Commit(group)
      PROVE exposed' = {} /\ \A v \in Writer \intersect Synced : answer'[v] = "ok" => v \in durable'
  <2>1. \A w \in Writer : answer[w] # "error"
    BY <1>2 DEF Commit, DTypeOK
  <2>2. exposed = {} /\ \A v \in Writer \intersect Synced : answer[v] = "ok" => v \in durable
    BY <2>1 DEF NoFailureNoLoss, Promised
  <2>3. exposed' = {}
    BY <1>2, <2>1, <2>2 DEF Commit
  <2>4. group \intersect Synced \subseteq durable'
    BY <1>2, <2>3 DEF Commit
  <2> QED BY <1>2, <2>2, <2>3, <2>4 DEF Commit
<1>3. ASSUME NEW group \in SUBSET Writer, Refuse(group)
      PROVE exposed' = {} /\ \A v \in Writer \intersect Synced : answer'[v] = "ok" => v \in durable'
  BY <1>3 DEF Refuse, DTypeOK, NoFailureNoLoss, Promised
<1>4. CASE Settle
  BY <1>4 DEF Settle, NoFailureNoLoss, Promised
<1>5. ASSUME NEW kept \in SUBSET Stored, NEW late \in SUBSET Writer, Crash(kept, late)
      PROVE exposed' = {} /\ \A v \in Writer \intersect Synced : answer'[v] = "ok" => v \in durable'
  BY <1>5 DEF Crash, DTypeOK, NoFailureNoLoss, Promised
<1>6. CASE UNCHANGED storeVars
  BY <1>6 DEF storeVars, NoFailureNoLoss, Promised
<1>7. CASE ProcessCrash
  BY <1>5, <1>7 DEF ProcessCrash
<1>8. CASE PowerLoss
  BY <1>5, <1>8 DEF PowerLoss
<1> QED BY <1>1, <1>2, <1>3, <1>4, <1>6, <1>7, <1>8 DEF DNext

-------------------------------------------------------------------------------
(* The types hold always: nothing is durable or exposed that is not there. *)
THEOREM StoreTypeCorrect == DSpec => []DTypeOK
<1>1. DInit => DTypeOK
  BY DEF DInit, DTypeOK, Stored, Answer
<1> QED BY <1>1, TypeStep, PTL DEF DSpec

(* DB::Write with sync set: once acknowledged, it survives any crash, as   *)
(* long as no write has ever been answered with an error.                  *)
THEOREM NoLoss == DSpec => []NoFailureNoLoss
<1>1. DInit => DTypeOK /\ NoFailureNoLoss
  BY DEF DInit, DTypeOK, Stored, Answer, NoFailureNoLoss, Promised
<1>2. DTypeOK /\ NoFailureNoLoss /\ [DNext]_storeVars => (DTypeOK /\ NoFailureNoLoss)'
  BY TypeStep, PromiseStep
<1> QED BY <1>1, <1>2, PTL DEF DSpec

(* Durability is for good. *)
THEOREM DurabilityHolds == DSpec => DurableStays
<1>1. DTypeOK /\ [DNext]_storeVars =>
        [ /\ durable \subseteq durable'
          /\ \A w \in durable : w \in DOMAIN store' /\ store'[w] = store[w] ]_storeVars
  BY DEF DTypeOK, DNext, Stored, Ask, Commit, GrowsBy, Refuse, Settle, ProcessCrash, PowerLoss, Crash, storeVars
<1> QED BY <1>1, StoreTypeCorrect, PTL DEF DSpec, DurableStays

(* A writer's answer does not change under it. *)
THEOREM AnswersHold == DSpec => AnswersAreFinal
<1>1. DTypeOK /\ [DNext]_storeVars =>
        [\A w \in Writer : answer[w] \in {"ok", "error", "lost"} => answer'[w] = answer[w]]_storeVars
  BY DEF DTypeOK, DNext, Ask, Commit, Refuse, Settle, ProcessCrash, PowerLoss, Crash, storeVars
<1> QED BY <1>1, StoreTypeCorrect, PTL DEF DSpec, AnswersAreFinal
===============================================================================
