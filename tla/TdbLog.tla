------------------------------- MODULE TdbLog -------------------------------
(***************************************************************************)
(* One `.tdb` append-only log of the treedx_store crate                    *)
(* (crates/treedx_store/src/log/mod.rs), its in-memory index, the          *)
(* compaction that rewrites it (crates/treedx_store/src/recovery/mod.rs)   *)
(* and the crashes that interrupt all of them.                             *)
(*                                                                         *)
(* The file is its sequence of lines after the header together with the    *)
(* state of its last byte; an append holds the per-path mutex from the     *)
(* moment it computes its sequence number to the moment it has updated the *)
(* index, and is split at the points where a crash or a compaction, which  *)
(* takes no lock, can come in between.                                     *)
(***************************************************************************)
EXTENDS Integers, Sequences

CONSTANTS
    Ids,          \* record ids, as naturals: their order is the BTreeMap's
    Vals,         \* payloads
    NoVal,        \* no payload: the record is absent or deleted
    NoId,         \* the id of a line that is no envelope
    AuditLog,     \* TRUE: audit/events.tdb;  FALSE: a latest-record log
    Compaction,   \* "never", "quiescent" (no append meanwhile) or "concurrent"
    MaxLines,     \* bound on the lines of the file
    MaxSeq,       \* bound on sequence numbers (u64 in the code)
    MaxBatch,     \* bound on the records of one append_records call
    MaxCrashes    \* bound on the crashes of a behaviour

ASSUME LogConstants ==
    /\ Ids \subseteq Nat
    /\ NoId \notin Ids
    /\ NoVal \notin Vals
    /\ AuditLog \in BOOLEAN
    /\ Compaction \in {"never", "quiescent", "concurrent"}
    /\ AuditLog => Compaction = "never"
    /\ MaxLines \in Nat /\ MaxSeq \in Nat /\ MaxBatch \in Nat \ {0} /\ MaxCrashes \in Nat

VARIABLES
    file,     \* the lines of the file at the log's path, after its header
    tail,     \* how that file ends: see Tails
    index,    \* the LOG_INDEXES entry of the log
    writer,   \* the append that holds the log's mutex
    compact,  \* the compaction under way
    acked,    \* history: the value last acknowledged for each id
    crashes   \* history: crashes so far

vars == <<file, tail, index, writer, compact, acked, crashes>>

-----------------------------------------------------------------------------
(***************************************************************************)
(* Lines.  An envelope keeps seq, op, recordId and payload.  Bad is a line *)
(* that does not parse; Skipped is a first line that starts with the       *)
(* header's prefix and has an envelope glued to it: replay skips it whole. *)
(***************************************************************************)
Put(s, id, v) == [seq |-> s, op |-> "put", id |-> id, val |-> v]
Delete(s, id) == [seq |-> s, op |-> "delete", id |-> id, val |-> NoVal]
Bad == [seq |-> 0, op |-> "bad", id |-> NoId, val |-> NoVal]
Skipped == [seq |-> 0, op |-> "skipped", id |-> NoId, val |-> NoVal]

Puts == [seq : Nat, op : {"put"}, id : Ids, val : Vals]
Deletes == [seq : Nat, op : {"delete"}, id : Ids, val : {NoVal}]
Envelopes == Puts \cup Deletes
Lines == Envelopes \cup {Bad, Skipped}

\* "none": no file.  "newline": the last line is terminated.  "open": the last
\* line is a whole envelope without its newline.  "header": the file is a
\* prefix of the header that already reads as one.  "partial": the file ends in
\* part of an envelope or in a shorter prefix of the header.
Tails == {"none", "newline", "open", "header", "partial"}

Maps == [Ids -> Vals \cup {NoVal}]
Empty == [id \in Ids |-> NoVal]

-----------------------------------------------------------------------------
(***************************************************************************)
(* What a replay computes.                                                 *)
(***************************************************************************)

\* The last line of f that names id.
IsLast(f, id, i) ==
    /\ i \in DOMAIN f
    /\ f[i].id = id
    /\ \A j \in DOMAIN f : f[j].id = id => j <= i

\* The map m after the lines f, taken in file order: a put inserts its payload,
\* a delete (whose val is NoVal) removes the id, other lines name no id.
Apply(m, f) ==
    [id \in Ids |->
        IF \E i \in DOMAIN f : f[i].id = id
        THEN f[CHOOSE i \in DOMAIN f : IsLast(f, id, i)].val
        ELSE m[id]]

Latest(f) == Apply(Empty, f)

\* Mutant: the last sequence number itself.
NextSeqRepeats(f) == IF f = <<>> THEN 1 ELSE f[Len(f)].seq

\* The sequence number after the last envelope, 1 for a log with none.
NextSeq(f) == IF f = <<>> THEN 1 ELSE f[Len(f)].seq + 1

\* replay_envelopes_unlocked succeeds: every line parses.
Readable(f, t) ==
    /\ t # "partial"
    /\ \A i \in DOMAIN f : f[i] # Bad

\* Mutant: the cached index is taken without comparing length and mtime.
EnsureIndexUnchecked == [index EXCEPT !.cached = TRUE]

\* ensure_index_unlocked: the cached index while its length and mtime are the
\* file's, a replay of the file otherwise.
EnsureIndex ==
    IF index.cached
    THEN index
    ELSE [cached |-> TRUE, next |-> NextSeq(file), latest |-> Latest(file)]

\* Whether ensure_index_unlocked returns Ok.
IndexAvailable == index.cached \/ Readable(file, tail)

-----------------------------------------------------------------------------
NoWriter == [pc |-> "idle", lines |-> <<>>, indexed |-> FALSE, attached |-> FALSE]
NoCompaction == [pc |-> "idle", out |-> <<>>]
NoIndex == [cached |-> FALSE, next |-> 1, latest |-> Empty]

Init ==
    /\ file = <<>>
    /\ tail = "none"
    /\ index = NoIndex
    /\ writer = NoWriter
    /\ compact = NoCompaction
    /\ acked = Empty
    /\ crashes = 0

\* ensure_log_unlocked, whole.
EnsuredTail == IF tail = "none" THEN "newline" ELSE tail

\* ensure_log / warm_log and every replay function: create the file if it is
\* missing and bring the index up to date.
WarmLog ==
    /\ writer.pc = "idle"
    /\ IndexAvailable
    /\ tail' = EnsuredTail
    /\ index' = EnsureIndex
    /\ UNCHANGED <<file, writer, compact, acked, crashes>>

\* Every operation on a log that cannot be replayed returns the replay's error.
ReturnError ==
    /\ writer.pc = "idle"
    /\ ~IndexAvailable
    /\ UNCHANGED vars

\* The start of every append: lock, ensure_log, next sequence number, open.
OpenLog(lines, indexed) ==
    /\ writer.pc = "idle"
    /\ Compaction = "quiescent" => compact.pc = "idle"
    /\ IndexAvailable
    /\ Len(file) + Len(lines) <= MaxLines
    /\ lines[Len(lines)].seq <= MaxSeq
    /\ tail' = EnsuredTail
    /\ index' = EnsureIndex
    /\ writer' = [pc |-> "opened", lines |-> lines, indexed |-> indexed, attached |-> TRUE]
    /\ UNCHANGED <<file, compact, acked, crashes>>

\* A batch of puts with consecutive sequence numbers.
PutLines(first, recs) ==
    [i \in DOMAIN recs |-> Put(first + i - 1, recs[i].id, recs[i].val)]

Batches == UNION {[1 .. n -> [id : Ids, val : Vals]] : n \in 1 .. MaxBatch}

AppendRecord(id, v) ==
    OpenLog(<<Put(EnsureIndex.next, id, v)>>, TRUE)

AppendDelete(id) ==
    /\ ~AuditLog
    /\ OpenLog(<<Delete(EnsureIndex.next, id)>>, TRUE)

\* An empty batch returns after ensure_log: it is WarmLog without the index.
AppendRecords(recs) ==
    OpenLog(PutLines(EnsureIndex.next, recs), TRUE)

\* append_audit_events_count: the index takes the length, mtime and next_seq only;
\* the audit log is read by replay_all, never through index.latest.
AppendRecordsUnindexed(recs) ==
    /\ AuditLog
    /\ OpenLog(PutLines(EnsureIndex.next, recs), FALSE)

\* What becomes of the line that is glued to the unfinished end of the file.
Glued(f, t) ==
    IF t = "header" \/ (t = "open" /\ f[Len(f)] = Skipped) THEN Skipped ELSE Bad

\* Mutant: the file is opened without append(true) and truncated.
WrittenOver(f, t, ls) == ls

\* The file once ls has been written at its end: the first line of ls continues
\* whatever the file ends in.
Written(f, t, ls) ==
    CASE t = "open"                  -> SubSeq(f, 1, Len(f) - 1) \o <<Glued(f, t)>> \o Tail(ls)
      [] t \in {"header", "partial"} -> f \o <<Glued(f, t)>> \o Tail(ls)
      [] OTHER                       -> f \o ls

\* The bytes reach the file the handle was opened on.  append_record and
\* append_delete write the newline separately (writeln!), a batch does not.
WriteLines ==
    /\ writer.pc = "opened"
    /\ writer' = [writer EXCEPT !.pc = "written"]
    /\ IF writer.attached
       THEN /\ file' = Written(file, tail, writer.lines)
            /\ tail' \in IF Len(writer.lines) = 1 THEN {"open", "newline"} ELSE {"newline"}
       ELSE UNCHANGED <<file, tail>>
    /\ UNCHANGED <<index, compact, acked, crashes>>

\* Newline, sync_data, update_index_after_write (or remove_from_index...),
\* which stamps the index with the file now at the path, unlock, Ok(()).
FinishAppend ==
    /\ writer.pc = "written"
    /\ tail' = IF writer.attached THEN "newline" ELSE tail
    /\ index' =
         [cached |-> TRUE,
          next   |-> writer.lines[Len(writer.lines)].seq + 1,
          latest |-> IF writer.indexed THEN Apply(index.latest, writer.lines)
                                       ELSE index.latest]
    /\ acked' = Apply(acked, writer.lines)
    /\ writer' = NoWriter
    /\ UNCHANGED <<file, compact, crashes>>

-----------------------------------------------------------------------------
(***************************************************************************)
(* compact_one: reads the file, keeps the newest envelope of every id that *)
(* is not deleted, in id order and with its own sequence number, and       *)
(* renames the result over the log if that is smaller.                     *)
(***************************************************************************)
\* Mutant: the first envelope of an id wins.
FirstSurvivors(f) ==
    {f[i] : i \in {k \in DOMAIN f : /\ f[k].op = "put"
                                   /\ \A j \in DOMAIN f : f[j].id = f[k].id => j >= k}}

Survivors(f) ==
    {f[i] : i \in {k \in DOMAIN f : f[k].op = "put" /\ IsLast(f, f[k].id, k)}}

SortedById(s) == \A i, j \in DOMAIN s : i < j => s[i].id < s[j].id

HeaderLine(f) == IF f # <<>> /\ f[1] = Skipped THEN <<Skipped>> ELSE <<>>

Compacted(f, s) ==
    /\ SortedById(s)
    /\ {s[i] : i \in DOMAIN s} = Survivors(f)

CompactRead ==
    /\ Compaction # "never"
    /\ Compaction = "quiescent" => writer.pc = "idle"
    /\ compact.pc = "idle"
    /\ tail # "none"
    /\ Readable(file, tail)
    /\ \E n \in 0 .. Len(file) : \E s \in [1 .. n -> Survivors(file)] :
         /\ Compacted(file, s)
         /\ Len(HeaderLine(file) \o s) < Len(file)
         /\ compact' = [pc |-> "read", out |-> HeaderLine(file) \o s]
    /\ UNCHANGED <<file, tail, index, writer, acked, crashes>>

\* The rename gives the path another length and mtime, so the index is stale,
\* and another inode, so an append that has the old one open writes to a file
\* that no path names.
CompactRename ==
    /\ compact.pc = "read"
    /\ file' = compact.out
    /\ tail' = "newline"
    /\ index' = [index EXCEPT !.cached = FALSE]
    /\ writer' = [writer EXCEPT !.attached = FALSE]
    /\ compact' = NoCompaction
    /\ UNCHANGED <<acked, crashes>>

-----------------------------------------------------------------------------
(***************************************************************************)
(* Crashes.  Memory (index, mutex, compaction) is lost; the file keeps     *)
(* what reached it.                                                        *)
(***************************************************************************)
Restart ==
    /\ crashes < MaxCrashes
    /\ crashes' = crashes + 1
    /\ index' = NoIndex
    /\ writer' = NoWriter
    /\ compact' = NoCompaction

\* Between operations, or after an append's bytes and before its return: the
\* caller was not told, and the record stands if the file is still at the path.
Crash ==
    /\ Restart
    /\ writer.pc # "opened"
    /\ acked' = IF writer.pc = "written" /\ writer.attached
                THEN Apply(acked, writer.lines) ELSE acked
    /\ UNCHANGED <<file, tail>>

\* In the middle of the write: k whole lines reached the file, the last with or
\* without its newline, or followed by part of the next one.
CrashInWrite ==
    /\ Restart
    /\ writer.pc = "opened" /\ writer.attached
    /\ \/ \E k \in 1 .. Len(writer.lines), t \in {"newline", "open", "partial"} :
            LET ls == SubSeq(writer.lines, 1, k) IN
            /\ t = "partial" => k < Len(writer.lines)
            /\ file' = Written(file, tail, ls)
            /\ tail' = t
            /\ acked' = Apply(acked, ls)
       \/ /\ tail' = IF tail # "newline" /\ Glued(file, tail) = Skipped THEN tail ELSE "partial"
          /\ UNCHANGED <<file, acked>>

\* Before any byte of the write reached the file, or after it was detached.
CrashBeforeWrite ==
    /\ Restart
    /\ writer.pc = "opened"
    /\ UNCHANGED <<file, tail, acked>>

\* While ensure_log_unlocked writes the header, a sequence of small writes.
CrashInHeader ==
    /\ Restart
    /\ tail = "none" /\ writer.pc = "idle"
    /\ tail' \in {"header", "partial"}
    /\ UNCHANGED <<file, acked>>

-----------------------------------------------------------------------------
StartAppend ==
    \/ \E id \in Ids, v \in Vals : AppendRecord(id, v)
    \/ \E id \in Ids : AppendDelete(id)
    \/ \E recs \in Batches : AppendRecords(recs)
    \/ \E recs \in Batches : AppendRecordsUnindexed(recs)

Next ==
    \/ WarmLog
    \/ ReturnError
    \/ StartAppend
    \/ WriteLines
    \/ FinishAppend
    \/ CompactRead
    \/ CompactRename
    \/ Crash
    \/ CrashInWrite
    \/ CrashBeforeWrite
    \/ CrashInHeader

Spec == Init /\ [][Next]_vars

-----------------------------------------------------------------------------
(***************************************************************************)
(* Properties.                                                             *)
(***************************************************************************)

TypeOK ==
    /\ file \in Seq(Lines)
    /\ tail \in Tails
    /\ index \in [cached : BOOLEAN, next : Nat, latest : Maps]
    /\ writer \in [pc : {"idle", "opened", "written"}, lines : Seq(Envelopes),
                   indexed : BOOLEAN, attached : BOOLEAN]
    /\ compact \in [pc : {"idle", "read"}, out : Seq(Lines)]
    /\ acked \in Maps
    /\ crashes \in 0 .. MaxCrashes

\* No append was swallowed by an unfinished header line.
HeaderIntact == \A i \in DOMAIN file : file[i] # Skipped

\* Every line of the file is a whole envelope.
Intact == Readable(file, tail) /\ HeaderIntact

\* Crash recovery: as long as no line was damaged, replaying the file gives for
\* each record id exactly the value of the last append that returned Ok (or that a
\* crash cut off after its bytes were down): no acknowledged write is lost and no
\* deleted record comes back, whatever crashes and rewrites came in between
\* (append_record, append_delete, append_records, compact_one).
AckedSurvives == Intact /\ writer.pc = "idle" => Latest(file) = acked

\* Stale index: whenever ensure_index_unlocked accepts the cached index, it holds
\* the acknowledged value of every record, also while the file itself can no longer
\* be replayed, so replay_latest and replay_record never answer from before a write.
ReadersSeeAcked ==
    ~AuditLog /\ HeaderIntact /\ index.cached /\ writer.pc = "idle" =>
        index.latest = acked

\* README.md: every line has a "monotonic `seq`": sequence numbers strictly increase
\* along an undamaged log.
SeqIncreasing ==
    Intact => \A i, j \in DOMAIN file : i < j => file[i].seq < file[j].seq

\* docs/architecture/native-storage-hardening.md: compaction "preserves the latest
\* record per `recordId`": the rename leaves what a replay returns as it was
\* (stated for a rename with no append under way, so that every record is an
\* acknowledged one).
CompactionPreservesLatest ==
    [][CompactRename /\ writer.pc = "idle" => Latest(file') = Latest(file)]_vars
=============================================================================
