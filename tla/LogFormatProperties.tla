------------------------ MODULE LogFormatProperties ------------------------
(* What the log of leveldb promises.                                       *)
EXTENDS LogFormat

(* Every byte of the file is of a physical record that the writer began,   *)
(* or padding, and no physical record is longer than a block: what the     *)
(* writer has done stays in the blocks, whatever failed before.            *)
TypeOK ==
    /\ pc \in {"idle", "adding", "reading", "done"}
    /\ \A n \in DOMAIN file : file[n] = Zero \/ file[n][1] \in DOMAIN emitted
    /\ \A p \in DOMAIN emitted : emitted[p].length \in 0..(BlockSize - HeaderSize)
    /\ writer.offset \in 0..BlockSize /\ writer.left \in Nat
    /\ Len(reader.buffer) <= BlockSize
    /\ reader.inFragmented <=> reader.scratch # <<>>

\* The physical records of record r.
Parts(r) == {p \in DOMAIN emitted : emitted[p].record = r}

\* The fragments are all those of record r, in order.
Joins(fragments, r) ==
    /\ ToSet(fragments) = Parts(r)
    /\ \A i, j \in DOMAIN fragments : i < j => fragments[i] < fragments[j]

\* All of record r is in the file.
Whole(r) ==
    /\ \E p \in Parts(r) : emitted[p].type \in {"full", "last"}
    /\ \A p \in Parts(r) :
          \A i \in 1..(HeaderSize + emitted[p].length) : Contains(file, <<p, i>>)

(* What ReadRecord returns is always a record that some AddRecord was      *)
(* given, whole, later than the one returned before it: no failed append   *)
(* and no crash makes it join fragments of two records (scratch is cleared *)
(* at every bad record) or return one twice.                               *)
RecordsAreWhole ==
    LET records == reader.records
    IN  /\ \A n \in DOMAIN records :
              \E r \in DOMAIN added : Whole(r) /\ Joins(records[n], r)
        /\ \A m, n \in DOMAIN records : m < n => records[m][1] < records[n][1]

(* When no operation on the file failed, the reader returns every record   *)
(* that is in the file, whatever byte a crash cut it at: writer and reader *)
(* agree about the blocks, also in a log that was gone on with after a     *)
(* crash between two physical records.  (RecordsAreWhole adds that it      *)
(* returns nothing else, and in the order of the calls of AddRecord.)      *)
RecordsAreRead ==
    pc = "done" /\ failed = [appends |-> 0, reads |-> 0] /\ ~crash.torn =>
        \A r \in DOMAIN added :
            Whole(r) => \E n \in DOMAIN reader.records : Joins(reader.records[n], r)

(* "assume the writer died in the middle of writing the record.  Don't     *)
(* report a corruption" (log_reader.cc:229, :207, :146): after a crash     *)
(* alone the reader reports nothing, so an Open with paranoid_checks       *)
(* succeeds.                                                               *)
CrashIsNoCorruption == failed = [appends |-> 0, reads |-> 0] /\ crash.count = 1 => reader.reports = 0

(* AddRecord and the reading of a log come to their end: every turn of     *)
(* their loops leaves less of the record, of the buffer or of the file,    *)
(* also where the file is corrupt.                                         *)
LoopsEnd == pc \in {"adding", "reading"} ~> pc \in {"idle", "done"}

(* "if it is just the process that crashes (i.e., the machine does not     *)
(* reboot), no writes will be lost even if sync==false" (options.h:174):   *)
(* every record whose AddRecord returned OK is read back.                  *)
NoWritesLost ==
    pc = "done" /\ failed.reads = 0 /\ ~crash.machine =>
        \A r \in DOMAIN added :
            added[r] = "ok" => \E n \in DOMAIN reader.records : Joins(reader.records[n], r)
=============================================================================
