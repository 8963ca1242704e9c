--------------------------- MODULE TransactionLog ---------------------------
(***************************************************************************)
(* wrp_cte::core::TransactionLog (src/unnamed/part_001): a write-ahead log  *)
(* of records [u8 type][u32 size][payload] written through a std::ofstream *)
(* opened in append mode.                                                  *)
(*                                                                         *)
(* The file is a sequence of bytes.  Every fixed-width field is written as *)
(* its little-endian bytes (WriteU32 and friends memcpy the value), so a   *)
(* u32 of value v is <<v, 0, 0, 0>> and Load, reading four bytes for a     *)
(* size, composes them exactly as the code does, also when the bytes come *)
(* from different fields because the parser is misaligned.                *)
(*                                                                         *)
(* buf is the ofstream's user-space buffer.  A write may spill any prefix  *)
(* of it to the file (the stream flushes when its buffer fills); flush()   *)
(* moves all of it.  A process crash loses buf and keeps the file.         *)
(***************************************************************************)
EXTENDS Naturals, Sequences, SequencesExt

CONSTANTS
  Types,         \* TxnType values the callers log
  Values,        \* values of the fixed-width fields (u32, u64, float, PoolQuery)
  Names,         \* blob and tag names (sequences of byte values)
  QueryBytes,    \* sizeof(chi::PoolQuery), written raw in each block
  MaxBlocks,     \* bound on the blocks of a TxnExtendBlob
  MaxLogs,       \* bound on Log calls
  MaxCrashes,    \* bound on process crashes
  MaxOpenFails,  \* bound on failed opens of the file
  MaxTruncates   \* bound on Truncate calls

\* Byte values stay below 128, so that four of them composed as a u32 fit
\* in TLC's integers.
ASSUME /\ Values \subseteq 0 .. 127 /\ QueryBytes \in Nat
       /\ \A n \in Names : \A i \in DOMAIN n : n[i] \in 0 .. 127

VARIABLES
  file,     \* bytes in the file
  buf,      \* bytes written to ofs_ and not yet handed to the file
  isOpen,   \* ofs_.is_open()
  pc,       \* "new" (constructed), "idle" (Open called), "closed",
            \* or "trunc" between the two halves of Truncate
  \* history, for the properties
  pending,  \* records passed to Log since the last flush: [rec, written]
  durable,  \* records passed to Log and then Sync'd / Close'd
  stable,   \* records written and flushed before the first crash
  clean,    \* no crash since the file was last emptied
  \* bounds
  nLogs, nCrashes, nOpenFails, nTruncates

history  == <<pending, durable, stable, clean>>
counters == <<nLogs, nCrashes, nOpenFails, nTruncates>>
vars     == <<file, buf, isOpen, pc, history, counters>>

(***************************************************************************)
(* Serialization                                                           *)
(***************************************************************************)

\* The TxnType values.
TxnTypes == 0 .. 5

\* memcpy of an unsigned value on a little-endian host: its n bytes.
Bytes(v, n) == [i \in 1 .. n |-> (v \div 256^(i - 1)) % 256]

\* memcpy into an unsigned value: the value of little-endian bytes.
RECURSIVE FromBytes(_)
FromBytes(b) == IF b = <<>> THEN 0 ELSE Head(b) + 256 * FromBytes(Tail(b))

\* sizeof of each fixed-width field kind.
FieldWidth(k) ==
  CASE k \in {"u32", "f32"} -> 4 [] k = "u64" -> 8 [] k = "query" -> QueryBytes

\* A TxnExtendBlobBlock: bdev_major_, bdev_minor_, target_query_,
\* target_offset_, size_, in the order the ExtendBlob overload writes them.
BlockLayout == <<"u32", "u32", "query", "u64", "u64">>
Blocks == [1 .. 5 -> Values]
BlockWidth == 4 + 4 + QueryBytes + 8 + 8
BlockBytes(blk) ==
  FlattenSeq([i \in 1 .. 5 |-> Bytes(blk[i], FieldWidth(BlockLayout[i]))])

\* The fields each Log overload writes, in order.
LogLayout(t) ==
  CASE t = 0         -> <<"u32", "u32", "str", "f32">>
    [] t = 1         -> <<"u32", "u32", "str", "blocks">>
    [] t \in {2, 3}  -> <<"u32", "u32", "str">>
    [] t \in {4, 5}  -> <<"str", "u32", "u32">>

FieldValues(k) ==
  CASE k = "str"    -> Names
    [] k = "blocks" -> UNION {[1 .. n -> Blocks] : n \in 0 .. MaxBlocks}
    [] OTHER        -> Values

\* The field tuples of a Txn struct with the given layout.
RECURSIVE TxnValues(_)
TxnValues(layout) ==
  IF layout = <<>> THEN {<<>>}
  ELSE {<<v>> \o r : v \in FieldValues(Head(layout)),
                     r \in TxnValues(Tail(layout))}

\* WriteU32 / WriteU64 / WriteFloat append the value's bytes; WriteString
\* appends the u32 length and then the characters; the ExtendBlob overload
\* writes the u32 block count and then each block.
WriteField(k, v) ==
  CASE k = "str"    -> Bytes(Len(v), 4) \o v
    [] k = "blocks" -> Bytes(Len(v), 4) \o FlattenSeq([b \in DOMAIN v |-> BlockBytes(v[b])])
    [] OTHER        -> Bytes(v, FieldWidth(k))

\* The Log overload of a Txn: buffer_.clear(), then its fields in order.
Serialize(layout, x) ==
  FlattenSeq([i \in 1 .. Len(layout) |-> WriteField(layout[i], x[i])])

\* The records callers pass to Log.
Records ==
  UNION {{[type |-> t, payload |-> Serialize(LogLayout(t), x)] :
            x \in TxnValues(LogLayout(t))} : t \in Types}

\* WriteRecord's bytes: the type byte, the u32 payload size, the payload.
Encode(r) == <<r.type>> \o Bytes(Len(r.payload), 4) \o r.payload

(***************************************************************************)
(* Deserialization.  The properties ask where a Deserialize helper stops   *)
(* reading, so only offsets are computed.                                  *)
(***************************************************************************)

\* The fields each Deserialize helper reads, in order.
DeserializeLayout(t) ==
  CASE t = 0         -> <<"u32", "u32", "str", "f32">>
    [] t = 1         -> <<"u32", "u32", "str", "blocks">>
    [] t \in {2, 3}  -> <<"u32", "u32", "str">>
    [] t \in {4, 5}  -> <<"str", "u32", "u32">>

\* ReadU32 at offset off: memcpy from data.data() + off without checking
\* data.size().  A byte past the end is undefined; 0 stands for every
\* value, since once one read passes the end every later one does too.
ByteAt(data, i) == IF i \in 1 .. Len(data) THEN data[i] ELSE 0
ReadU32(data, off) == FromBytes([i \in 1 .. 4 |-> ByteAt(data, off + i)])

\* Where the read of one field ends.  ReadString reads its u32 length and
\* then that many bytes; the ExtendBlob helper reads the u32 count and then
\* count blocks (a count beyond the data is cut, the read is past the end
\* either way).
FieldEnd(k, data, off) ==
  LET n == ReadU32(data, off)
  IN CASE k = "str"    -> off + 4 + n
       [] k = "blocks" ->
            off + 4 + (IF n > Len(data) THEN Len(data) + 1 ELSE n)
                        * BlockWidth
       [] OTHER        -> off + FieldWidth(k)

\* The offset where a Deserialize helper stops.
RECURSIVE ReadEnd(_, _, _)
ReadEnd(layout, data, off) ==
  IF layout = <<>> THEN off
  ELSE ReadEnd(Tail(layout), data, FieldEnd(Head(layout), data, off))

DeserializeEnd(t, data) == ReadEnd(DeserializeLayout(t), data, 0)

\* The records of a pending list, all of them or only those written.
AllRecs(p)     == [i \in 1 .. Len(p) |-> p[i].rec]
WrittenRecs(p) == AllRecs(SelectSeq(p, LAMBDA e : e.written))

(***************************************************************************)
(* TransactionLog::Load: read records until EOF; stop at the first record  *)
(* whose type byte, four size bytes or payload cannot be read in full.     *)
(***************************************************************************)
RECURSIVE Load(_)
Load(f) ==
  IF Len(f) < 5 THEN <<>>
  ELSE LET size == FromBytes(SubSeq(f, 2, 5))
       IN IF Len(f) - 5 < size THEN <<>>
          ELSE <<[type |-> f[1], payload |-> SubSeq(f, 6, 5 + size)]>>
                 \o Load(SubSeq(f, 6 + size, Len(f)))

\* ofs_.flush() when the stream is open: the buffer goes to the file.
FlushIfOpen ==
  IF isOpen THEN file' = file \o buf /\ buf' = <<>>
            ELSE UNCHANGED <<file, buf>>

\* History: the caller of Sync/Close is promised its earlier records are
\* on disk; the ones really written join stable while no crash happened.
Settle ==
  /\ durable' = durable \o AllRecs(pending)
  /\ stable' = IF clean THEN stable \o WrittenRecs(pending) ELSE stable
  /\ pending' = <<>>

Init ==
  /\ file = <<>>
  /\ buf = <<>>
  /\ isOpen = FALSE
  /\ pc = "new"
  /\ pending = <<>>
  /\ durable = <<>>
  /\ stable = <<>>
  /\ clean = TRUE
  /\ nLogs = 0 /\ nCrashes = 0 /\ nOpenFails = 0 /\ nTruncates = 0

\* TransactionLog::Open: ofs_.open(path, binary | app), which may fail
\* and leave the stream closed.
Open ==
  /\ pc \in {"new", "closed"}
  /\ \/ isOpen' = TRUE /\ UNCHANGED nOpenFails
     \/ /\ nOpenFails < MaxOpenFails
        /\ nOpenFails' = nOpenFails + 1
        /\ UNCHANGED isOpen
  /\ pc' = "idle"
  /\ UNCHANGED <<file, buf, history, nLogs, nCrashes, nTruncates>>

\* TransactionLog::Log(type, txn) -> WriteRecord: nothing when the stream
\* is closed; otherwise the record is appended to the stream, which may
\* hand any prefix of its buffer to the file.
Log ==
  /\ pc = "idle"
  /\ nLogs < MaxLogs
  /\ \E r \in Records :
       /\ pending' = Append(pending, [rec |-> r, written |-> isOpen])
       /\ IF isOpen
            THEN \E k \in 0 .. Len(buf) + Len(Encode(r)) :
                   LET b == buf \o Encode(r)
                   IN /\ file' = file \o SubSeq(b, 1, k)
                      /\ buf' = SubSeq(b, k + 1, Len(b))
            ELSE UNCHANGED <<file, buf>>
  /\ nLogs' = nLogs + 1
  /\ UNCHANGED <<isOpen, pc, durable, stable, clean,
                 nCrashes, nOpenFails, nTruncates>>

\* A Sync that forgets to flush the stream.
SyncNoFlush ==
  /\ pc = "idle"
  /\ Settle
  /\ UNCHANGED <<file, buf, isOpen, pc, clean, counters>>

\* TransactionLog::Sync: flush when open (a flush of the stream, no fsync).
Sync ==
  /\ pc = "idle"
  /\ FlushIfOpen
  /\ Settle
  /\ UNCHANGED <<isOpen, pc, clean, counters>>

\* A Close that closes the stream without flushing it.
CloseNoFlush ==
  /\ pc = "idle"
  /\ Settle
  /\ isOpen' = FALSE
  /\ pc' = "closed"
  /\ UNCHANGED <<file, buf, clean, counters>>

\* TransactionLog::Close: flush and close when open.
Close ==
  /\ pc = "idle"
  /\ FlushIfOpen
  /\ Settle
  /\ isOpen' = FALSE
  /\ pc' = "closed"
  /\ UNCHANGED <<clean, counters>>

\* TransactionLog::Truncate, first half: ofs_.close() (which flushes).
TruncateClose ==
  /\ pc = "idle"
  /\ nTruncates < MaxTruncates
  /\ FlushIfOpen
  /\ Settle
  /\ isOpen' = FALSE
  /\ pc' = "trunc"
  /\ nTruncates' = nTruncates + 1
  /\ UNCHANGED <<clean, nLogs, nCrashes, nOpenFails>>

\* Second half: ofs_.open(path, trunc), ofs_.close(), ofs_.open(path, app).
\* Either open may fail and Truncate checks neither: a failed truncating
\* open leaves the file as it was (the close then only sets failbit), a
\* failed append open leaves the stream closed; a successful open clears
\* the stream's error state.  Records logged before the Truncate are
\* superseded by the snapshot whether or not the file was emptied.
TruncateReopen ==
  \E truncOk, appOk \in BOOLEAN :
    LET fails == (IF truncOk THEN 0 ELSE 1) + (IF appOk THEN 0 ELSE 1)
    IN /\ pc = "trunc"
       /\ nOpenFails + fails <= MaxOpenFails
       /\ nOpenFails' = nOpenFails + fails
       /\ file' = IF truncOk THEN <<>> ELSE file
       /\ isOpen' = appOk
       /\ pc' = "idle"
       /\ pending' = <<>>
       /\ durable' = <<>>
       /\ stable' = IF truncOk THEN <<>> ELSE stable
       /\ clean' = (truncOk \/ clean)
       /\ UNCHANGED <<buf, nLogs, nCrashes, nTruncates>>

\* The process dies: the stream and its buffer are gone, the file stays;
\* the restarted process constructs a new TransactionLog.
Crash ==
  /\ nCrashes < MaxCrashes
  /\ buf' = <<>>
  /\ isOpen' = FALSE
  /\ pc' = "new"
  /\ pending' = <<>>
  /\ clean' = FALSE
  /\ nCrashes' = nCrashes + 1
  /\ UNCHANGED <<file, durable, stable, nLogs, nOpenFails, nTruncates>>

Next ==
  \/ Open \/ Log \/ Sync \/ Close
  \/ TruncateClose \/ TruncateReopen
  \/ Crash

Spec == Init /\ [][Next]_vars

-----------------------------------------------------------------------------
(* Properties *)

TypeOK ==
  /\ file \in Seq(0 .. 255) /\ buf \in Seq(0 .. 255)
  /\ ~isOpen => buf = <<>>
  /\ pc \in {"new", "idle", "closed", "trunc"}
  /\ pending \in Seq([rec : Records, written : BOOLEAN])
  /\ durable \in Seq(Records) /\ stable \in Seq(Records)
  /\ clean \in BOOLEAN
  /\ nLogs \in 0 .. MaxLogs /\ nCrashes \in 0 .. MaxCrashes
  /\ nOpenFails \in 0 .. MaxOpenFails /\ nTruncates \in 0 .. MaxTruncates

\* s occurs in t in order, possibly with other elements in between.
IsSubsequence(s, t) ==
  LET in[i \in 0 .. Len(s), j \in 0 .. Len(t)] ==
        IF i = 0 THEN TRUE
        ELSE IF j = 0 THEN FALSE
        ELSE \/ s[i] = t[j] /\ in[i - 1, j - 1]
             \/ in[i, j - 1]
  IN in[Len(s), Len(t)]

\* Every record written through an open stream and flushed by Sync, Close
\* or Truncate since the file was last emptied, and before any crash, is
\* replayed by Load, in order, at the front of what it returns, also after
\* later crashes, failed opens and truncations that left the file as it
\* was: the stream's partial spills, the append-mode opens and the byte
\* parser of Load agree, and nothing appended later changes how the
\* records before it are read.
StableRecordsReplayed == IsPrefix(stable, Load(file))

\* Replay can hand every record Load returns to the Deserialize helper of
\* its TxnType: none of them reads past the end of the payload Load
\* returned (ReadU32 and ReadString memcpy without checking data.size()).
ReplayedRecordsDecodable ==
  LET recs == Load(file)
  IN \A i \in 1 .. Len(recs) :
       recs[i].type \in TxnTypes =>
         DeserializeEnd(recs[i].type, recs[i].payload) <= Len(recs[i].payload)

=============================================================================
