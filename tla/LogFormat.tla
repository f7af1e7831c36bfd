----------------------------- MODULE LogFormat -----------------------------
(***************************************************************************)
(* The log file of leveldb (db/log_writer.cc, db/log_reader.cc): records   *)
(* cut into physical records that fit blocks, appended by a writer whose   *)
(* appends may fail half-way, left by a crash at any byte, and read back   *)
(* by a reader that must tell a torn tail from a corruption.               *)
(*                                                                         *)
(* A byte of the file is <<p, i>>, byte i of the p-th physical record, or  *)
(* Zero, a byte of the padding of a block.  A checksum matches exactly     *)
(* when header and payload are those of one physical record; any other     *)
(* header is garbage, whose length and type may be anything.               *)
(***************************************************************************)
EXTENDS Integers, SequencesExt

CONSTANTS
    BlockSize, HeaderSize,     \* kBlockSize, kHeaderSize
    Lengths,                   \* sizes of the records
    ReuseLogs,                 \* Options::reuse_logs
    MaxRecords, MaxFailures, MaxCrashes      \* bounds

ASSUME LogFormatAssumption ==
    /\ {HeaderSize, BlockSize} \subseteq Nat \ {0} /\ HeaderSize < BlockSize
    /\ Lengths \subseteq Nat /\ ReuseLogs \in BOOLEAN
    /\ {MaxRecords, MaxFailures, MaxCrashes} \subseteq Nat

VARIABLES
    file,      \* the bytes of the log file
    pc,        \* "idle", "adding" a record, "reading", or "done" reading
    writer,    \* block_offset_, and what is left of the record being added
    added,     \* per call of AddRecord, how it ended
    emitted,   \* the physical records, written in full or not
    reader,    \* log::Reader and the locals of ReadRecord
    failed,    \* how many appends and reads of the file failed
    crash      \* how many crashes, and whether one was of the machine

vars == <<file, pc, writer, added, emitted, reader, failed, crash>>

Zero == <<0, 0>>

NewReader == [pos |-> 0, buffer |-> <<>>, eof |-> FALSE, scratch |-> <<>>,
              inFragmented |-> FALSE, records |-> <<>>, reports |-> 0]

Init ==
    /\ file = <<>> /\ pc = "idle" /\ added = <<>> /\ emitted = <<>>
    /\ writer = [offset |-> 0, left |-> 0, begin |-> TRUE]
    /\ reader = NewReader /\ failed = [appends |-> 0, reads |-> 0]
    /\ crash = [count |-> 0, machine |-> FALSE, torn |-> FALSE]

-----------------------------------------------------------------------------
\* AddRecord is called.
AddRecord(length) ==
    /\ pc = "idle" /\ Len(added) < MaxRecords
    /\ pc' = "adding"
    /\ added' = Append(added, "adding")
    /\ writer' = [writer EXCEPT !.left = length, !.begin = TRUE]
    /\ UNCHANGED <<file, emitted, reader, failed, crash>>

Leftover == BlockSize - writer.offset
\* (mutant) block_offset_ is not set to 0 for the new block
OffsetKept == writer.offset

\* Where the next physical record starts in its block.
Offset == IF Leftover < HeaderSize THEN 0 ELSE writer.offset

\* (mutant) the rest of the block is not filled
NoTrailer == <<>>

Trailer == IF Leftover < HeaderSize THEN [i \in 1..Leftover |-> Zero] ELSE <<>>

\* The next fragment of the record being added.
Fragment ==
    LET avail == BlockSize - Offset - HeaderSize
        length == IF writer.left < avail THEN writer.left ELSE avail
        end == writer.left = length
    IN  [record |-> Len(added), length |-> length,
         type |-> CASE writer.begin /\ end -> "full"
                    [] writer.begin /\ ~end -> "first"
                    [] ~writer.begin /\ end -> "last"
                    [] OTHER -> "middle"]

\* What one turn of the loop in AddRecord hands to the file.
Bytes == Trailer \o [i \in 1..(HeaderSize + Fragment.length) |-> <<Len(emitted) + 1, i>>]

\* block_offset_ after EmitPhysicalRecord, whether it succeeded or not.
Advanced(length) == Offset + HeaderSize + length

\* EmitPhysicalRecord succeeds; AddRecord returns when nothing is left.
EmitPhysicalRecord ==
    /\ pc = "adding"
    /\ file' = file \o Bytes
    /\ emitted' = Append(emitted, Fragment)
    /\ writer' = [offset |-> Advanced(Fragment.length),
                  left |-> writer.left - Fragment.length, begin |-> FALSE]
    /\ IF writer'.left = 0 THEN pc' = "idle" /\ added' = [added EXCEPT ![Len(added)] = "ok"]
                           ELSE UNCHANGED <<pc, added>>
    /\ UNCHANGED <<reader, failed, crash>>

\* It fails after some of the bytes are in the file: AddRecord returns the
\* error, and the database, which reports it to the writers, goes on.
EmitFails ==
    /\ pc = "adding" /\ failed.appends + failed.reads < MaxFailures
    /\ failed' = [failed EXCEPT !.appends = @ + 1]
    /\ \E n \in 0..(Len(Bytes) - 1) : file' = file \o SubSeq(Bytes, 1, n)
    /\ emitted' = Append(emitted, Fragment)
    /\ writer' = [writer EXCEPT !.offset = Advanced(Fragment.length)]
    /\ pc' = "idle" /\ added' = [added EXCEPT ![Len(added)] = "failed"]
    /\ UNCHANGED <<reader, crash>>

\* A crash of the process leaves what was appended, and perhaps a part of the
\* physical record being written; one of the machine leaves any beginning of
\* the file.  The next Open reads the log (one that crashes has read nothing).
Crash ==
    /\ pc \in {"idle", "adding"} /\ crash.count < MaxCrashes
    /\ LET written == IF pc = "adding" THEN file \o Front(Bytes) ELSE file
       IN  \E n \in 0..Len(written) :
              /\ file' = SubSeq(written, 1, n)
              /\ crash' = [crash EXCEPT !.count = @ + 1, !.machine = @ \/ n < Len(file)]
    /\ IF pc = "adding" THEN /\ emitted' = Append(emitted, Fragment)
                             /\ added' = [added EXCEPT ![Len(added)] = "failed"]
                        ELSE UNCHANGED <<emitted, added>>
    /\ pc' = "reading" /\ reader' = NewReader
    /\ UNCHANGED <<writer, failed>>

-----------------------------------------------------------------------------
\* (mutant) a short read does not set eof_
NeverShort(read) == FALSE

ShortRead(read) == Len(read) < BlockSize

\* ReadPhysicalRecord needs more bytes: the next block of the file.
FillBuffer ==
    /\ pc = "reading" /\ Len(reader.buffer) < HeaderSize /\ ~reader.eof
    /\ LET end == reader.pos + BlockSize
           read == SubSeq(file, reader.pos + 1, IF end < Len(file) THEN end ELSE Len(file))
       IN  reader' = [reader EXCEPT !.buffer = read, !.pos = @ + Len(read),
                                    !.eof = ShortRead(read)]
    /\ UNCHANGED <<file, pc, writer, added, emitted, failed, crash>>

\* Reading the file fails: it is reported, and ends the log.
ReadFails ==
    /\ pc = "reading" /\ Len(reader.buffer) < HeaderSize /\ ~reader.eof
    /\ failed.appends + failed.reads < MaxFailures
    /\ failed' = [failed EXCEPT !.reads = @ + 1]
    /\ reader' = [reader EXCEPT !.buffer = <<>>, !.eof = TRUE, !.reports = @ + 1]
    /\ pc' = "done"
    /\ UNCHANGED <<file, writer, added, emitted, crash>>

\* What ReadPhysicalRecord finds at the head of the buffer.
Found(type, p, rest, report) == [type |-> type, p |-> p, rest |-> rest, report |-> report]
Eof == Found("eof", 0, <<>>, FALSE)
BadRecord(report) == Found("bad", 0, <<>>, report)

\* (mutant) a record that is not all there is a corruption at the end of the
\* file as well
TooLongAnywhere == BadRecord(TRUE)

\* The length in the header leads beyond the buffer.
TooLong == IF reader.eof THEN Eof ELSE BadRecord(TRUE)

\* A checksum that does not match drops the rest of the block.
Physical ==
    LET buffer == reader.buffer
        p == Head(buffer)[1]
        Intact(n) == p # 0 /\ \A i \in 1..n : buffer[i] = <<p, i>>
        size == HeaderSize + emitted[p].length
    IN  IF ~Intact(HeaderSize) THEN {TooLong, BadRecord(TRUE), BadRecord(FALSE)}
        ELSE IF size > Len(buffer) THEN {TooLong}
        ELSE IF ~Intact(size) THEN {BadRecord(TRUE)}
        ELSE {Found(emitted[p].type, p, SubSeq(buffer, size + 1, Len(buffer)), FALSE)}

Size(fragments) == FoldLeft(LAMBDA n, p : n + emitted[p].length, 0, fragments)

\* (mutant) the fragments before a bad record are kept
FragmentsKept(r) == [r EXCEPT !.reports = @ + 1]

\* ReadRecord meets a bad record.
Dropped(r) ==
    IF r.inFragmented THEN [r EXCEPT !.reports = @ + 1, !.inFragmented = FALSE, !.scratch = <<>>]
    ELSE r

\* What ReadRecord does with it.  The record returned is the sequence of its
\* fragments.
Take(f) ==
    LET r == [reader EXCEPT !.buffer = f.rest, !.reports = IF f.report THEN @ + 1 ELSE @]
        unended == r.inFragmented /\ Size(r.scratch) > 0
        missingStart == [r EXCEPT !.reports = @ + 1]
        again == [r EXCEPT !.reports = IF unended THEN @ + 1 ELSE @]
        Returned(fragments, s) == [s EXCEPT !.records = Append(@, fragments),
                                            !.inFragmented = FALSE, !.scratch = <<>>]
    IN  CASE f.type = "full" -> Returned(<<f.p>>, again)
          [] f.type = "first" -> [again EXCEPT !.inFragmented = TRUE, !.scratch = <<f.p>>]
          [] f.type = "middle" -> IF r.inFragmented THEN [r EXCEPT !.scratch = Append(@, f.p)]
                                  ELSE missingStart
          [] f.type = "last" -> IF r.inFragmented THEN Returned(Append(r.scratch, f.p), r)
                                ELSE missingStart
          [] f.type = "bad" -> Dropped(r)
          [] f.type = "eof" -> r

ReadPhysicalRecord ==
    /\ pc = "reading" /\ (Len(reader.buffer) >= HeaderSize \/ reader.eof)
    /\ \E f \in IF Len(reader.buffer) >= HeaderSize THEN Physical ELSE {Eof} :
          /\ reader' = Take(f)
          /\ pc' = IF f.type = "eof" THEN "done" ELSE pc
    /\ UNCHANGED <<file, writer, added, emitted, failed, crash>>

-----------------------------------------------------------------------------
\* The file ends with a physical record, or in the filling of a block.
EndsWhole ==
    file = <<>> \/ Last(file) = Zero
        \/ (Last(file)[2] = HeaderSize + emitted[Last(file)[1]].length)

\* RecoverLogFile goes on with the log (reuse_logs): Writer(dest, dest_length).
Reuse ==
    /\ pc = "done" /\ ReuseLogs /\ pc' = "idle"
    /\ writer' = [offset |-> Len(file) % BlockSize, left |-> 0, begin |-> TRUE]
    /\ crash' = [crash EXCEPT !.torn = @ \/ ~EndsWhole]
    /\ reader' = NewReader
    /\ UNCHANGED <<file, added, emitted, failed>>

Next ==
    \/ \E length \in Lengths : AddRecord(length)
    \/ EmitPhysicalRecord \/ EmitFails \/ Crash
    \/ FillBuffer \/ ReadFails \/ ReadPhysicalRecord \/ Reuse

\* Open returns: the loops of AddRecord and of the reader run to their end.
Fairness == WF_vars(EmitPhysicalRecord) /\ WF_vars(FillBuffer) /\ WF_vars(ReadPhysicalRecord)

Spec == Init /\ [][Next]_vars /\ Fairness
=============================================================================
