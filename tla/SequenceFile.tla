---------------------------- MODULE SequenceFile ----------------------------
(***************************************************************************)
(* SequenceFileWriter and SequenceFileReader (src/io/sequence_file.h): one *)
(* file, its writer, and a reader that may run while the file is written   *)
(* or after the writer has crashed.                                        *)
(*                                                                         *)
(* The writer's stream buffers: the file is a prefix of what was handed to *)
(* it.  A device that fails keeps failing; from then on the stream takes   *)
(* nothing, and neither Append nor Close reports it.  The reader's stream  *)
(* stays at the end of file once it has met it.                            *)
(***************************************************************************)
EXTENDS Writables

CONSTANTS
    Magic,         \* kMagic, 4 bytes
    Syncs,         \* the values the random sync_ may have
    SyncInterval,  \* kSyncInterval
    Records,       \* the key/value pairs a caller appends, [key, value]
    MaxCount       \* bound: of count_

ASSUME SequenceFileAssumption ==
    /\ Magic \in [1..4 -> Byte]
    /\ Syncs # {} /\ Syncs \subseteq [1..MD5Len -> Byte]
    /\ SyncInterval \in Nat \ {0}
    /\ MaxCount \in Nat
    /\ Records \subseteq [key : Writable, value : Writable]
    /\ \A r \in Records : Len(Write(r.key)) + Len(Write(r.value)) \in Ints(4)

VARIABLES
    sync,      \* the writer's sync_
    writer,    \* "new", "open", "closed" or "crashed"
    good,      \* the state of the writer's stream
    count,     \* the writer's count_
    out,       \* all the bytes the stream has taken
    file,      \* how many of them are in the file
    reader,    \* "new", "reading", "eof" or "corrupt"
    pos,       \* the position of the reader's stream
    got,       \* history: the <<Key(), Value()>> the reader has returned
    appended,  \* history: the records whose bytes the stream has taken
    ends,      \* history: Len(out) after each of them
    whole      \* history: the records wholly in the file when the reader met its end

vars == <<sync, writer, good, count, out, file, reader, pos, got, appended,
          ends, whole>>

readerVars == <<reader, pos, got, whole>>
historyVars == <<appended, ends>>

Init ==
    /\ sync \in Syncs
    /\ writer = "new" /\ good = TRUE /\ count = 0 /\ out = <<>> /\ file = 0
    /\ reader = "new" /\ pos = 0 /\ got = <<>>
    /\ appended = <<>> /\ ends = <<>> /\ whole = 0

-----------------------------------------------------------------------------
\* SequenceFileWriter

KSyncEscape == -1

\* A closed writer may be opened anew: the file starts afresh, with the same
\* marker, and a stream that had failed is good again.  Callers do not truncate
\* a file that is being read.
Open ==
    /\ writer \in {"new", "closed"} /\ reader = "new"
    /\ writer' = "open" /\ good' = TRUE /\ count' = 0
    /\ out' = Magic \o sync /\ file' = 0
    /\ appended' = <<>> /\ ends' = <<>>
    /\ UNCHANGED <<sync, readerVars>>

\* Opening an ofstream that is open fails, and leaves it failed.
OpenAgain ==
    /\ writer = "open" /\ good
    /\ good' = FALSE
    /\ UNCHANGED <<sync, writer, count, out, file, readerVars, historyVars>>

\* A plausible bug: the escape is counted in records but its marker is left out.
BugSyncBytes == IF count > 0 /\ count % SyncInterval = 0 THEN WriteInt(KSyncEscape) ELSE <<>>

SyncBytes ==
    IF count > 0 /\ count % SyncInterval = 0 THEN WriteInt(KSyncEscape) \o sync ELSE <<>>

RecordBytes(k, v) == WriteInt(Len(k) + Len(v)) \o WriteInt(Len(k)) \o k \o v

\* Append and AppendRaw.  A key of no bytes is refused; a stream that is not
\* open or has failed drops the record, which is counted all the same.
Append_(r) ==
    LET k == Write(r.key)
        v == Write(r.value)
        record == SyncBytes \o RecordBytes(k, v)
    IN
    /\ writer # "crashed"
    /\ \/ /\ k = <<>>
          /\ UNCHANGED <<count, out, appended, ends>>
       \/ /\ k # <<>> /\ count < MaxCount
          /\ count' = count + 1
          /\ IF writer = "open" /\ good
               THEN /\ out' = out \o record
                    /\ appended' = Append(appended, r)
                    /\ ends' = Append(ends, Len(out) + Len(record))
               ELSE UNCHANGED <<out, appended, ends>>
    /\ UNCHANGED <<sync, writer, good, file, readerVars>>

\* The next byte of the stream's buffer reaches the file.
Flush ==
    /\ writer = "open" /\ file < Len(out)
    /\ file' = file + 1
    /\ UNCHANGED <<sync, writer, good, count, out, readerVars, historyVars>>

\* The device fails (it is full): what is not in the file yet never will be.
DeviceFails ==
    /\ writer = "open" /\ file < Len(out)
    /\ good' = FALSE /\ out' = SubSeq(out, 1, file)
    /\ UNCHANGED <<sync, writer, count, file, readerVars, historyVars>>

Close ==
    /\ writer = "open"
    /\ writer' = "closed" /\ file' = Len(out)
    /\ UNCHANGED <<sync, good, count, out, readerVars, historyVars>>

Crash ==
    /\ writer = "open"
    /\ writer' = "crashed" /\ out' = SubSeq(out, 1, file)
    /\ UNCHANGED <<sync, good, count, file, readerVars, historyVars>>

-----------------------------------------------------------------------------
\* SequenceFileReader

Contents == SubSeq(out, 1, file)

WholeRecords == Cardinality({i \in DOMAIN ends : ends[i] <= file})

ReaderOpen ==
    LET magic == ReadRawBytes([data |-> Contents, pos |-> 0], 4)
        mark  == ReadRawBytes([data |-> Contents, pos |-> 4], MD5Len)
    IN
    /\ reader = "new" /\ writer # "new"
    /\ IF magic.ok /\ magic.value = Magic /\ mark.ok
         THEN reader' = "reading" /\ pos' = mark.pos
         ELSE reader' = "corrupt" /\ pos' = pos
    /\ UNCHANGED <<sync, writer, good, count, out, file, got, whole, historyVars>>

ReadBE(data, p) == ReadInt([data |-> data, pos |-> p])

\* The start of Next's loop: the position after the escapes at p.
SkipSync(data, p) ==
    LET skip[q \in Nat] ==
          IF ReadBE(data, q) = Result(KSyncEscape, q + 4) THEN skip[q + 4 + MD5Len] ELSE q
    IN  skip[p]

\* The record at p, or Thrown: Next returns false, or throws for a negative size.
ReadRecord(data, p) ==
    LET len == ReadBE(data, p)
        keyLen == ReadBE(data, p + 4)
        key == ReadRawBytes([data |-> data, pos |-> p + 8], keyLen.value)
        val == ReadRawBytes([data |-> data, pos |-> key.pos], len.value - keyLen.value)
    IN  IF len.ok /\ keyLen.ok /\ 0 <= keyLen.value /\ keyLen.value <= len.value
             /\ key.ok /\ val.ok
          THEN Result(<<key.value, val.value>>, val.pos)
          ELSE Thrown

Next_ ==
    LET r == ReadRecord(Contents, SkipSync(Contents, pos)) IN
    /\ reader = "reading"
    /\ IF r.ok
         THEN /\ got' = Append(got, r.value) /\ pos' = r.pos
              /\ UNCHANGED <<reader, whole>>
         ELSE /\ reader' = "eof" /\ whole' = WholeRecords
              /\ UNCHANGED <<got, pos>>
    /\ UNCHANGED <<sync, writer, good, count, out, file, historyVars>>

\* A new reader object
ReaderClose ==
    /\ reader \in {"eof", "corrupt"}
    /\ reader' = "new" /\ pos' = 0 /\ got' = <<>> /\ whole' = 0
    /\ UNCHANGED <<sync, writer, good, count, out, file, historyVars>>

-----------------------------------------------------------------------------
Next ==
    \/ Open \/ OpenAgain \/ (\E r \in Records : Append_(r)) \/ Flush
    \/ DeviceFails \/ Close \/ Crash
    \/ ReaderOpen \/ Next_ \/ ReaderClose

Spec == Init /\ [][Next]_vars

-----------------------------------------------------------------------------
\* The types of both classes' state: the bytes are bytes, and the file is no
\* longer than what the stream has taken.
SeqTypeOK ==
    /\ sync \in Syncs
    /\ writer \in {"new", "open", "closed", "crashed"}
    /\ good \in BOOLEAN
    /\ count \in 0..MaxCount
    /\ out \in Seq(Byte) /\ file \in 0..Len(out)
    /\ reader \in {"new", "reading", "eof", "corrupt"}
    /\ pos \in 0..file
    /\ whole \in 0..Len(appended)
    /\ appended \in Seq(Records) /\ Len(ends) = Len(appended) /\ Len(got) <= Len(appended)

\* UTF8::Write writes only the low 16 bits of the length.
Fits(w) == w.type = "UTF8" => Len(w.v) < Power[2]

\* A Writable read from the bytes b by ReadFields is w, with none left.
DecodesTo(b, w) == ReadFields(w.type, [data |-> b, pos |-> 0]) = Result(w.v, Len(b))

\* What Next returns, decoded by ReadFields, are the records appended, in
\* their order and from the first, whatever was flushed, lost or torn and
\* wherever the sync markers fall.  A Writable comes back exactly when its
\* length fits in the field that holds it: a longer UTF8 is cut short.
RecordsRoundTrip ==
    /\ Len(got) <= Len(appended)
    /\ \A i \in DOMAIN got :
         /\ DecodesTo(got[i][1], appended[i].key) <=> Fits(appended[i].key)
         /\ DecodesTo(got[i][2], appended[i].value) <=> Fits(appended[i].value)

\* A reader that has met the end of the file has returned every record that
\* was in it as a whole: a torn tail costs the torn record and nothing before
\* it, a record that ends at the end of the file is not lost, and a file that
\* was closed cleanly is read to its last record.
WholeRecordsRead ==
    reader = "eof" => Len(got) = whole

\* Two keys of one type that has an order; the differences of two ints are ints.
Comparable(a, b) ==
    /\ a.type = b.type /\ a.type \notin {"Bytes", "Float"}
    /\ a.type = "Int" =>
         a.v - b.v \in Ints(4) /\ b.v - a.v \in Ints(4)

\* CompareTo orders the keys of one type totally, and finds two of them equal
\* exactly when they are written as the same bytes: a sort by CompareTo and a
\* grouping by bytes agree.  Of ints only those whose difference is an int.
KeysOrdered ==
    LET keys == {appended[i].key : i \in DOMAIN appended}
        peers(a) == {b \in keys : Comparable(a, b)}
    IN  \A a \in keys : \A b \in peers(a) :
          /\ Sign(CompareTo(a, b)) = - Sign(CompareTo(b, a))
          /\ CompareTo(a, b) = 0 <=> Write(a) = Write(b)
          /\ CompareTo(a, b) <= 0 =>
               \A c \in peers(a) \intersect peers(b) :
                 CompareTo(b, c) <= 0 => CompareTo(a, c) <= 0
=============================================================================
