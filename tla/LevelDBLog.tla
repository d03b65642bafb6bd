----------------------------- MODULE LevelDBLog -----------------------------
(***************************************************************************)
(* The record format of leveldb's write-ahead log and of its MANIFEST:     *)
(* log::Writer (Pods/leveldb-library/db/log_writer.cc) appends records in  *)
(* fragments that never cross a block, some appends fail half way, the     *)
(* process stops and the file loses any tail of it, and log::Reader        *)
(* (db/log_reader.cc) reads what is left.                                  *)
(*                                                                         *)
(* A physical record is the fragment with the number it has in the history *)
(* frags; the byte k of fragment i is <<i, k>>, a zero byte <<0, 0>>.  The *)
(* first HeaderSize bytes are the header.  A header put together from      *)
(* bytes of several fragments has any length, and a checksum that does not *)
(* match.                                                                  *)
(***************************************************************************)
EXTENDS Naturals, Sequences, FiniteSets, SequencesExt

CONSTANTS
  BlockSize,   \* kBlockSize
  HeaderSize,  \* kHeaderSize
  RecordSize,  \* the sizes a record may have
  MaxRecords,  \* bound: records added
  MaxFailures  \* bound: appends and reads that fail

ASSUME LogAssumption ==
  /\ {BlockSize, HeaderSize, MaxRecords, MaxFailures} \subseteq Nat
  /\ 0 < HeaderSize /\ HeaderSize < BlockSize /\ RecordSize \subseteq Nat

VARIABLES
  file,          \* the bytes of the log
  block_offset,  \* Writer::block_offset_
  left,          \* the bytes of the record that AddRecord has not emitted yet
  begin,         \* nothing of that record is emitted yet
  records,       \* history: "adding", "added" or "failed", one for each record
  frags,         \* history: the physical records, in the order they were emitted
  failures,
  phase,         \* "write", "read" or "done"
  position,      \* how far the reader has read the file
  buffer, eof,   \* Reader::buffer_, eof_
  in_fragmented_record, scratch,  \* ReadRecord: the fragments collected
  read,          \* the records returned, each as its fragments
  reported       \* the reporter was told of a corruption

vars == <<file, block_offset, left, begin, records, frags, failures, phase,
          position, buffer, eof, in_fragmented_record, scratch, read, reported>>
writer == <<block_offset, left, begin, records, frags>>
reader == <<position, buffer, eof, in_fragmented_record, scratch, read, reported>>

Zero == <<0, 0>>
Zeros(n) == [k \in 1..n |-> Zero]

----------------------------------------------------------------------------
(* The writer. *)

Adding == records # <<>> /\ Last(records) = "adding"

AddRecord(size) ==
  /\ phase = "write" /\ ~Adding /\ Len(records) < MaxRecords
  /\ records' = Append(records, "adding") /\ left' = size /\ begin' = TRUE
  /\ UNCHANGED <<file, block_offset, frags, failures, phase, reader>>

Leftover == BlockSize - block_offset

(* Slip: the trailer is not written. *)
NoTrailer == <<>>

(* A block with no room for a header is filled with zeros and left. *)
Trailer == IF Leftover < HeaderSize THEN Zeros(Leftover) ELSE <<>>

Start == IF Leftover < HeaderSize THEN 0 ELSE block_offset

Fragment ==
  LET avail == BlockSize - Start - HeaderSize
      length == IF left < avail THEN left ELSE avail
      end == left = length
  IN [record |-> Len(records), length |-> length,
      type |-> IF begin THEN (IF end THEN "full" ELSE "first")
               ELSE IF end THEN "last" ELSE "middle"]

(* What one turn of AddRecord's loop gives to the file: the trailer and    *)
(* the physical record, which the file holds back until the Flush.         *)
Emission(trailer) ==
  LET i == Len(frags) + 1
  IN trailer \o [k \in 1..(HeaderSize + Fragment.length) |-> <<i, k>>]

(* Slip: block_offset_ starts over after each record. *)
EmitFromStart(status) ==
  /\ frags' = Append(frags, Fragment)
  /\ block_offset' = IF left = Fragment.length THEN 0 ELSE Start + HeaderSize + Fragment.length
  /\ left' = left - Fragment.length /\ begin' = FALSE
  /\ records' = [records EXCEPT ![Len(records)] =
                   IF status = "failed" THEN status
                   ELSE IF left' = 0 THEN "added" ELSE "adding"]

(* block_offset_ moves on whether the file took the bytes or not. *)
Emit(status) ==
  /\ frags' = Append(frags, Fragment)
  /\ block_offset' = Start + HeaderSize + Fragment.length
  /\ left' = left - Fragment.length /\ begin' = FALSE
  /\ records' = [records EXCEPT ![Len(records)] =
                   IF status = "failed" THEN status
                   ELSE IF left' = 0 THEN "added" ELSE "adding"]

EmitPhysicalRecord ==
  /\ phase = "write" /\ Adding
  /\ file' = file \o Emission(Trailer)
  /\ Emit("ok")
  /\ UNCHANGED <<failures, phase, reader>>

(* The file takes some of it only, and drops the rest of its buffer. *)
EmitPhysicalRecordFails ==
  /\ phase = "write" /\ Adding /\ failures < MaxFailures
  /\ \E n \in 0..(Len(Emission(Trailer)) - 1) :
       file' = file \o SubSeq(Emission(Trailer), 1, n)
  /\ Emit("failed")
  /\ failures' = failures + 1
  /\ UNCHANGED <<phase, reader>>

(* The process stops, in the middle of a record or not, and the file       *)
(* keeps a prefix.                                                         *)
Stop ==
  /\ phase = "write"
  /\ \E n \in 0..Len(file) : file' = SubSeq(file, 1, n)
  /\ phase' = "read"
  /\ UNCHANGED <<writer, failures, reader>>

----------------------------------------------------------------------------
(* The reader. *)

Take(n) == SubSeq(file, position + 1, position + n)

(* Slip: the reader does not see that a block is the last one. *)
ReadBlockNoEof ==
  /\ phase = "read" /\ Len(buffer) < HeaderSize /\ ~eof
  /\ LET n == IF Len(file) - position < BlockSize THEN Len(file) - position ELSE BlockSize
     IN buffer' = Take(n) /\ position' = position + n
  /\ UNCHANGED <<file, writer, failures, phase, eof, in_fragmented_record, scratch, read, reported>>

(* ReadPhysicalRecord: less than a header in the buffer is a trailer, and  *)
(* the next block is read.                                                 *)
ReadBlock ==
  /\ phase = "read" /\ Len(buffer) < HeaderSize /\ ~eof
  /\ LET n == IF Len(file) - position < BlockSize THEN Len(file) - position ELSE BlockSize
     IN /\ buffer' = Take(n) /\ position' = position + n
        /\ eof' = (n < BlockSize)
  /\ UNCHANGED <<file, writer, failures, phase, in_fragmented_record, scratch, read, reported>>

(* The read fails: reported, and taken for the end of the file. *)
ReadBlockFails ==
  /\ phase = "read" /\ Len(buffer) < HeaderSize /\ ~eof /\ failures < MaxFailures
  /\ failures' = failures + 1 /\ reported' = TRUE
  /\ buffer' = <<>> /\ eof' = TRUE /\ phase' = "done"
  /\ in_fragmented_record' = FALSE /\ scratch' = <<>>
  /\ UNCHANGED <<file, writer, position, read>>

(* kEof: ReadRecord ignores the fragments it has and returns false.        *)
AtEof ==
  /\ buffer' = <<>> /\ phase' = "done"
  /\ in_fragmented_record' = FALSE /\ scratch' = <<>>
  /\ UNCHANGED <<file, writer, failures, position, eof, read, reported>>

ReadEof == phase = "read" /\ Len(buffer) < HeaderSize /\ eof /\ AtEof

Header == SubSeq(buffer, 1, HeaderSize)
Untorn == Head(buffer)[1] # 0 /\ Header = [k \in 1..HeaderSize |-> <<Head(buffer)[1], k>>]
Whole(i) ==
  SubSeq(buffer, 1, HeaderSize + frags[i].length)
    = [k \in 1..(HeaderSize + frags[i].length) |-> <<i, k>>]

(* Slip: what was collected is kept over a bad record. *)
BadRecordKept(said) ==
  /\ buffer' = <<>>
  /\ reported' = (reported \/ said \/ in_fragmented_record)
  /\ UNCHANGED <<file, writer, failures, phase, position, eof, read, in_fragmented_record, scratch>>

(* kBadRecord, with the rest of the block dropped: said to the reporter or *)
(* not, and what was collected is always said.                             *)
BadRecord(said) ==
  /\ buffer' = <<>>
  /\ reported' = (reported \/ said \/ in_fragmented_record)
  /\ in_fragmented_record' = FALSE /\ scratch' = <<>>
  /\ UNCHANGED <<file, writer, failures, phase, position, eof, read>>

(* A header of zeros is skipped without a word; one of mixed bytes has a   *)
(* length that does not fit, or a wrong checksum.                          *)
ReadBad ==
  /\ phase = "read" /\ Len(buffer) >= HeaderSize
  /\ \/ Header = Zeros(HeaderSize) /\ BadRecord(FALSE)
     \/ Header # Zeros(HeaderSize) /\ ~Untorn
        /\ (BadRecord(TRUE) \/ BadRecord(FALSE) \/ (eof /\ AtEof))
     \/ /\ Untorn
        /\ LET i == Head(buffer)[1]
           IN IF HeaderSize + frags[i].length > Len(buffer)
              THEN IF eof THEN AtEof ELSE BadRecord(TRUE)
              ELSE ~Whole(i) /\ BadRecord(TRUE)

Bytes(ids) == FoldLeft(LAMBDA sum, i : sum + frags[i].length, 0, ids)

(* ReadRecord's switch over the types of a sound physical record. *)
Collect(i) ==
  LET type == frags[i].type
      unended == in_fragmented_record /\ Bytes(scratch) > 0
  IN \/ /\ type = "full"
        /\ read' = Append(read, <<i>>) /\ in_fragmented_record' = FALSE /\ scratch' = <<>>
        /\ reported' = (reported \/ unended)
     \/ /\ type = "first"
        /\ in_fragmented_record' = TRUE /\ scratch' = <<i>>
        /\ reported' = (reported \/ unended) /\ UNCHANGED read
     \/ /\ type \in {"middle", "last"} /\ ~in_fragmented_record
        /\ reported' = TRUE
        /\ UNCHANGED <<read, in_fragmented_record, scratch>>
     \/ /\ type = "middle" /\ in_fragmented_record
        /\ scratch' = Append(scratch, i)
        /\ UNCHANGED <<read, in_fragmented_record, reported>>
     \/ /\ type = "last" /\ in_fragmented_record
        /\ read' = Append(read, Append(scratch, i))
        /\ in_fragmented_record' = FALSE /\ scratch' = <<>>
        /\ UNCHANGED reported

ReadPhysicalRecord ==
  /\ phase = "read" /\ Len(buffer) >= HeaderSize /\ Untorn
  /\ LET i == Head(buffer)[1]
     IN /\ HeaderSize + frags[i].length <= Len(buffer) /\ Whole(i)
        /\ buffer' = SubSeq(buffer, HeaderSize + frags[i].length + 1, Len(buffer))
        /\ Collect(i)
  /\ UNCHANGED <<file, writer, failures, phase, position, eof>>

----------------------------------------------------------------------------
Init ==
  /\ file = <<>> /\ block_offset = 0 /\ left = 0 /\ begin = TRUE
  /\ records = <<>> /\ frags = <<>> /\ failures = 0 /\ phase = "write"
  /\ position = 0 /\ buffer = <<>> /\ eof = FALSE
  /\ in_fragmented_record = FALSE /\ scratch = <<>> /\ read = <<>> /\ reported = FALSE

Write == (\E size \in RecordSize : AddRecord(size)) \/ EmitPhysicalRecord \/ EmitPhysicalRecordFails
Read == ReadBlock \/ ReadBlockFails \/ ReadEof \/ ReadBad \/ ReadPhysicalRecord

Next == Write \/ Stop \/ Read

Spec == Init /\ [][Next]_vars
FairSpec == Spec /\ WF_vars(Read)

----------------------------------------------------------------------------
(* Every part of the state has its shape; block_offset_ stays in a block   *)
(* and the buffer is no larger than one.                                   *)
TypeOK ==
  /\ block_offset \in 0..BlockSize /\ left \in Nat /\ begin \in BOOLEAN
  /\ \A i \in DOMAIN records : records[i] \in {"adding", "added", "failed"}
  /\ \A i \in DOMAIN frags :
       frags[i].record \in DOMAIN records /\ frags[i].length \in 0..(BlockSize - HeaderSize)
  /\ failures \in 0..MaxFailures /\ phase \in {"write", "read", "done"}
  /\ position \in 0..Len(file) /\ Len(buffer) <= BlockSize
  /\ {eof, in_fragmented_record, reported} \subseteq BOOLEAN
  /\ in_fragmented_record <=> scratch # <<>>

FragmentsOf(r) == {i \in DOMAIN frags : frags[i].record = r}
RecordOf(ids) == frags[Head(ids)].record

(* However appends failed and wherever the file was cut, ReadRecord never  *)
(* makes up a record from fragments of several, never returns a record     *)
(* whose AddRecord failed, and returns the others in the order they were   *)
(* added and once.                                                         *)
ReadsOnlyRecords ==
  /\ \A k \in DOMAIN read :
       /\ records[RecordOf(read[k])] = "added"
       /\ Range(read[k]) = FragmentsOf(RecordOf(read[k]))
       /\ \A m, n \in DOMAIN read[k] : m < n => read[k][m] < read[k][n]
  /\ \A k, l \in DOMAIN read : k < l => RecordOf(read[k]) < RecordOf(read[l])

(* The records added before the first append that failed, all of whose     *)
(* bytes are left in the file.                                             *)
SafeRecords ==
  {r \in DOMAIN records :
     /\ \A q \in 1..r : records[q] = "added"
     /\ \A i \in FragmentsOf(r) : Contains(file, <<i, HeaderSize + frags[i].length>>)}

(* A reader that met no failing read has returned all of them: neither the *)
(* torn tail nor what a failed append left behind takes an earlier record  *)
(* away.                                                                   *)
NothingLostBeforeFlaw ==
  (phase = "done" /\ position = Len(file)) =>
    \A r \in SafeRecords : \E k \in DOMAIN read : RecordOf(read[k]) = r

(* "This can be caused by the writer dying ...; don't treat it as a        *)
(* corruption" (log_reader.cc:145-147, 207-210, 229-231): with no failed   *)
(* append or read, a file cut anywhere is read without a report.           *)
TornTailIsNoCorruption == failures = 0 => ~reported

(* The reader comes to an end, whatever is in the file. *)
ReadEnds == phase = "read" ~> phase = "done"
=============================================================================
