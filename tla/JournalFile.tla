---------------------------- MODULE JournalFile ----------------------------
(***************************************************************************)
(* One PUJ2 generation of internal/unifiedjournal: its file, the live pane *)
(* object that writes it (Append, Sync, AdvanceCommitted with verified     *)
(* readback), the Sequencer that feeds readers only after verification,    *)
(* and recovery by a later broker incarnation (openExisting/parseJournal). *)
(*                                                                         *)
(* The file is a sequence of frames.  A frame is "append" or "commit" when *)
(* its bytes are the ones that were written; "tornAppend"/"tornCommit"     *)
(* when only a proper prefix of it is there; "invalid" when a complete     *)
(* frame fails validation (marker, sequence, offsets, type or hash); and   *)
(* "overlong" when an append's length field names more bytes than the file *)
(* has left.  Storage may lose everything after the last fsync, tear the   *)
(* frame being written, and damage a frame at any time.                    *)
(***************************************************************************)
EXTENDS Integers, Sequences, SequencesExt

CONSTANTS
  Payload,          \* output payloads a caller may append
  PayloadLen,       \* [Payload -> Nat], zero included
  Geometry,         \* valid geometries
  AppendFixed, CommitFixed, HeaderSize,   \* frame sizes in bytes
  MaxPending,       \* unverified appends at once: 1 through Writer, more below it
  MaxRecords,       \* bound: records one generation takes
  MaxDamage,        \* bound: frames the storage damages
  MaxReopens,       \* bound: broker restarts over this file
  DamageKinds       \* which damage happens, a subset of {"invalid", "overlong"}

ASSUME JournalFileAssumption ==
  /\ PayloadLen \in [Payload -> Nat]
  /\ Payload \cap Geometry = {}
  /\ {AppendFixed, CommitFixed, HeaderSize, MaxPending, MaxRecords} \subseteq Nat \ {0}
  /\ {MaxDamage, MaxReopens} \subseteq Nat
  /\ DamageKinds \subseteq {"invalid", "overlong"}

VARIABLES
  disk,       \* frames in the file, after the header
  synced,     \* how many of them the last successful fsync covers
  pane,       \* the paneJournal object of the current incarnation
  pc,         \* where the sequencer is in append/sync/commit/feed
  failed,     \* Sequencer.failed
  submitted,  \* history: every record whose append was attempted, in order
  fed,        \* history: number of records handed to the feed
  damage, reopens

vars == <<disk, synced, pane, pc, failed, submitted, fed, damage, reopens>>

geometryRecordCost == AppendFixed + CommitFixed

NoRecord == [kind |-> "none", sequence |-> 0, start |-> 0, end |-> 0, hash |-> "none"]

\* verifiedCursor: accepted frames.  view is the committed projection and tail
\* the projection with appends a commit has not covered yet.
EmptyCursor ==
  [frames |-> 0, end |-> 0, sequence |-> 0, committed |-> 0, committedSequence |-> 0,
   geometryCharge |-> 0, last |-> NoRecord, tail |-> <<>>, view |-> <<>>]

Length(rec) == IF rec.kind = "output" THEN PayloadLen[rec.hash] ELSE 0

\* Mutant: the commit that follows is not charged for.
physicalAppendCost_appendOnly(rec) == AppendFixed + Length(rec)

\* The capacity an append is charged before its frame is written: its frame
\* and the commit frame that will follow it.
physicalAppendCost(rec) == AppendFixed + Length(rec) + CommitFixed

logicalCost(rec) == IF rec.kind = "output" THEN Length(rec) ELSE geometryRecordCost

frameBytes(f) ==
  CASE f.type = "append"     -> AppendFixed + Length(f.rec)
    [] f.type = "commit"     -> CommitFixed
    [] f.type = "tornAppend" -> AppendFixed + Length(f.rec) - 1
    [] f.type = "tornCommit" -> CommitFixed - 1
    [] OTHER                 -> f.bytes

bytesOf(frames) == HeaderSize + FoldLeft(LAMBDA n, f : n + frameBytes(f), 0, frames)

fileBytes == bytesOf(disk)

-----------------------------------------------------------------------------
(* verifiedCursor.next: one frame.  The result's status is "ok", "torn"    *)
(* (errTornAppend) or "corrupt"; the cursor moves only when it is "ok".     *)

acceptsCommit(c, rec) ==
  /\ rec = c.last
  /\ rec.end <= c.end
  /\ rec.sequence > c.committedSequence

acceptsAppend(c, rec) ==
  /\ rec.sequence = c.sequence + 1
  /\ rec.start = c.end
  /\ rec.end = rec.start + Length(rec)

\* Mutant: the committed end is not moved.
afterCommit_keepsEnd(c, rec) ==
  [c EXCEPT !.committedSequence = rec.sequence, !.view = c.tail, !.frames = @ + 1]

afterCommit(c, rec) ==
  [c EXCEPT !.committed = rec.end, !.committedSequence = rec.sequence,
            !.view = c.tail, !.frames = @ + 1]

afterAppend(c, rec) ==
  [c EXCEPT !.tail = Append(@, rec), !.last = rec, !.sequence = rec.sequence,
            !.end = rec.end, !.frames = @ + 1,
            !.geometryCharge = @ + (IF rec.kind = "geometry" THEN geometryRecordCost ELSE 0)]

next(c, f) ==
  CASE f.type \in {"tornAppend", "overlong"} -> [status |-> "torn", cursor |-> c]
    [] f.type \in {"tornCommit", "invalid"}  -> [status |-> "corrupt", cursor |-> c]
    [] f.type = "commit" ->
         IF acceptsCommit(c, f.rec) THEN [status |-> "ok", cursor |-> afterCommit(c, f.rec)]
         ELSE [status |-> "corrupt", cursor |-> c]
    [] f.type = "append" ->
         IF acceptsAppend(c, f.rec) THEN [status |-> "ok", cursor |-> afterAppend(c, f.rec)]
         ELSE [status |-> "corrupt", cursor |-> c]

scanFrames(c, frames) ==
  FoldLeft(LAMBDA r, f : IF r.status = "ok" THEN next(r.cursor, f) ELSE r,
           [status |-> "ok", cursor |-> c], frames)

\* verifyCommitted: decode the suffix that is not verified yet, exactly the
\* pending appends followed by the commit of the requested record.
verifyCommitted(p, expected) ==
  LET r == scanFrames(p.verified, SubSeq(disk, p.verified.frames + 1, p.stored))
      c == r.cursor
  IN [cursor |-> c,
      accepted |-> /\ r.status = "ok"
                   /\ c.frames = p.stored
                   /\ SubSeq(c.tail, Len(p.verified.tail) + 1, Len(c.tail)) = p.pending
                   /\ c.last = expected
                   /\ c.committed = expected.end
                   /\ c.committedSequence = expected.sequence
                   /\ c.view = c.tail]

-----------------------------------------------------------------------------
\* createPaneWithHeader: a fresh generation owns an empty file with its header
\* charged to the physical ledger.
freshPane ==
  [state |-> "continuous", reason |-> "none", sequence |-> 0, end |-> 0, last |-> NoRecord,
   pending |-> <<>>, stored |-> 0, verified |-> EmptyCursor, committed |-> 0,
   committedSequence |-> 0, realmCharge |-> 0, physical |-> HeaderSize, corrupt |-> FALSE]

Init ==
  /\ disk = <<>> /\ synced = 0
  /\ pane = freshPane
  /\ pc = "idle" /\ failed = FALSE
  /\ submitted = <<>> /\ fed = 0
  /\ damage = 0 /\ reopens = 0

\* invalidatePane: the first reason is kept.
invalidated(p, why) ==
  IF p.state = "untrusted" THEN p ELSE [p EXCEPT !.state = "untrusted", !.reason = why]

\* A failing write or fsync leaves the sequencer failed for good.
fails(p, why) ==
  /\ pane' = invalidated(p, why)
  /\ pc' = "idle" /\ failed' = TRUE

StorageReasons == {"ENOSPC", "corruptJournal"}

-----------------------------------------------------------------------------
\* Realm.Append and appendGeometryLocked up to writeRecord: the physical cost
\* is charged first and kept whatever the write does.
outputRecord(p) ==
  [kind |-> "output", sequence |-> pane.sequence + 1, start |-> pane.end,
   end |-> pane.end + PayloadLen[p], hash |-> p]

geometryRecord(g) ==
  [kind |-> "geometry", sequence |-> pane.sequence + 1, start |-> pane.end,
   end |-> pane.end, hash |-> g]

mayAppend ==
  /\ pane.state = "continuous"
  /\ ~failed
  /\ \/ pc = "idle"
     \/ pc = "appended" /\ Len(pane.pending) < MaxPending
  /\ Len(submitted) < MaxRecords

charged(rec) == [pane EXCEPT !.physical = @ + physicalAppendCost(rec)]

\* writeRecord, whole frame written.
writeRecord(rec) ==
  /\ disk' = Append(disk, [type |-> "append", rec |-> rec])
  /\ pane' = [charged(rec) EXCEPT !.sequence = rec.sequence, !.last = rec,
                                  !.pending = Append(@, rec), !.stored = @ + 1,
                                  !.end = rec.end, !.realmCharge = @ + logicalCost(rec)]
  /\ pc' = "appended"
  /\ submitted' = Append(submitted, rec)
  /\ UNCHANGED <<synced, failed, fed, damage, reopens>>

\* writeRecord, the write failed: none of the frame or a part of it landed.
writeRecordFails(rec) ==
  /\ disk' \in {disk, Append(disk, [type |-> "tornAppend", rec |-> rec])}
  /\ \E why \in StorageReasons : fails(charged(rec), why)
  /\ submitted' = Append(submitted, rec)
  /\ UNCHANGED <<synced, fed, damage, reopens>>

AppendOutput(p) == mayAppend /\ (writeRecord(outputRecord(p)) \/ writeRecordFails(outputRecord(p)))

AppendGeometry(g) == mayAppend /\ (writeRecord(geometryRecord(g)) \/ writeRecordFails(geometryRecord(g)))

Sync ==
  /\ pc = "appended"
  /\ pane.state = "continuous"
  /\ \/ /\ synced' = Len(disk) /\ pc' = "synced"
        /\ UNCHANGED <<pane, failed>>
     \/ /\ \E why \in StorageReasons : fails(pane, why)
        /\ UNCHANGED synced
  /\ UNCHANGED <<disk, submitted, fed, damage, reopens>>

\* AdvanceCommitted, one step per storage call so that a crash can fall
\* between them: write the commit frame, fsync it, read the suffix back.
WriteCommit ==
  /\ pc = "synced"
  /\ pane.state = "continuous"
  /\ LET commit == [type |-> "commit", rec |-> pane.last]
         torn   == [type |-> "tornCommit", rec |-> pane.last]
     IN \/ /\ disk' = Append(disk, commit)
           /\ pc' = "marked"
           /\ UNCHANGED <<pane, failed>>
        \/ /\ disk' \in {disk, Append(disk, torn)}
           /\ fails(pane, "ENOSPC")
  /\ UNCHANGED <<synced, submitted, fed, damage, reopens>>

\* Mutant: the commit frame is not flushed.
SyncCommit_skipped ==
  /\ pc = "marked"
  /\ pane' = [pane EXCEPT !.stored = @ + 1]
  /\ pc' = "durable"
  /\ UNCHANGED <<disk, synced, failed, submitted, fed, damage, reopens>>

\* Mutant: the readback result is published before it is judged.
VerifyCommitted_publishesFirst ==
  /\ pc = "durable"
  /\ LET v == verifyCommitted(pane, pane.last)
         p == [pane EXCEPT !.verified = v.cursor]
     IN \/ /\ v.accepted
           /\ pane' = [p EXCEPT !.committed = v.cursor.committed,
                                !.committedSequence = v.cursor.committedSequence,
                                !.pending = <<>>]
           /\ pc' = "verified"
           /\ UNCHANGED failed
        \/ /\ ~v.accepted
           /\ fails(p, "corruptJournal")
  /\ UNCHANGED <<disk, synced, submitted, fed, damage, reopens>>

SyncCommit ==
  /\ pc = "marked"
  /\ \/ /\ synced' = Len(disk)
        /\ pane' = [pane EXCEPT !.stored = @ + 1]
        /\ pc' = "durable"
        /\ UNCHANGED failed
     \/ /\ fails(pane, "ENOSPC")
        /\ UNCHANGED synced
  /\ UNCHANGED <<disk, submitted, fed, damage, reopens>>

VerifyCommitted ==
  /\ pc = "durable"
  /\ LET v == verifyCommitted(pane, pane.last)
     IN \/ /\ v.accepted
           /\ pane' = [pane EXCEPT !.verified = v.cursor, !.committed = v.cursor.committed,
                                   !.committedSequence = v.cursor.committedSequence,
                                   !.pending = <<>>]
           /\ pc' = "verified"
           /\ UNCHANGED failed
        \/ /\ ~v.accepted
           /\ fails(pane, "corruptJournal")
  /\ UNCHANGED <<disk, synced, submitted, fed, damage, reopens>>

\* Mutant: the feed is numbered by the next sequence.
Feed_ahead ==
  /\ pc = "verified"
  /\ fed' = pane.committedSequence + 1
  /\ pc' = "idle"
  /\ UNCHANGED <<disk, synced, pane, failed, submitted, damage, reopens>>

\* The last call of WriteRecord: the record reaches readers.
Feed ==
  /\ pc = "verified"
  /\ fed' = pane.committedSequence
  /\ pc' = "idle"
  /\ UNCHANGED <<disk, synced, pane, failed, submitted, damage, reopens>>

-----------------------------------------------------------------------------
\* Environment.  A damaged frame keeps its size.  An overlong length field is
\* only possible in an append frame.
Damage(i, kind) ==
  /\ damage < MaxDamage
  /\ disk[i].type \in (IF kind = "overlong" THEN {"append"} ELSE {"append", "commit"})
  /\ disk' = [disk EXCEPT ![i] = [type |-> kind, bytes |-> frameBytes(disk[i])]]
  /\ damage' = damage + 1
  /\ UNCHANGED <<synced, pane, pc, failed, submitted, fed, reopens>>

\* The broker or its host stops.  Frames the last fsync covers survive; a
\* prefix of the later ones may, the last of them possibly torn.
tornForm(f) ==
  CASE f.type \in {"append", "overlong"} ->
         {[type |-> "tornAppend", rec |-> IF f.type = "append" THEN f.rec ELSE NoRecord]}
    [] f.type = "commit"  -> {[type |-> "tornCommit", rec |-> f.rec]}
    [] f.type = "invalid" -> {[type |-> "invalid", bytes |-> f.bytes - 1]}
    [] OTHER              -> {}

survivors ==
  {SubSeq(disk, 1, n) : n \in synced..Len(disk)}
    \cup UNION {{Append(SubSeq(disk, 1, n), t) : t \in tornForm(disk[n + 1])} :
                  n \in synced..(Len(disk) - 1)}

Crash ==
  /\ pc # "down"
  /\ reopens < MaxReopens
  /\ disk' \in survivors
  /\ synced' = Len(disk')
  /\ pc' = "down"
  /\ UNCHANGED <<pane, failed, submitted, fed, damage, reopens>>

\* openExisting: parse the whole file.  A torn final append ends the scan; any
\* other error discards the projection but keeps the geometry charge.
parsed ==
  LET r == scanFrames(EmptyCursor, disk)
      c == r.cursor
      base == [freshPane EXCEPT !.sequence = c.sequence, !.stored = c.frames,
                                !.physical = fileBytes]
  IN IF r.status = "corrupt"
     THEN [base EXCEPT !.state = "untrusted", !.reason = "corruptJournal", !.corrupt = TRUE,
                       !.realmCharge = c.geometryCharge]
     ELSE [base EXCEPT !.state = "legacy", !.reason = "volatileRestart", !.end = c.end,
                       !.verified = [c EXCEPT !.tail = c.view],
                       !.committed = c.committed, !.committedSequence = c.committedSequence,
                       !.realmCharge = c.end + c.geometryCharge]

Reopen ==
  /\ pc = "down"
  /\ pane' = parsed
  /\ pc' = "idle" /\ failed' = FALSE
  /\ reopens' = reopens + 1
  /\ UNCHANGED <<disk, synced, submitted, fed, damage>>

Next ==
  \/ \E p \in Payload : AppendOutput(p)
  \/ \E g \in Geometry : AppendGeometry(g)
  \/ Sync \/ WriteCommit \/ SyncCommit \/ VerifyCommitted \/ Feed
  \/ \E i \in DOMAIN disk, kind \in DamageKinds : Damage(i, kind)
  \/ Crash \/ Reopen

Spec == Init /\ [][Next]_vars

-----------------------------------------------------------------------------
FrameType == {"append", "commit", "tornAppend", "tornCommit", "invalid", "overlong"}
Records == {"output", "geometry", "none"}

\* Every variable keeps the shape the code gives it: frame types, eligibility
\* states, sequencer position, and counters inside their bounds.
TypeOK ==
  /\ \A i \in DOMAIN disk : disk[i].type \in FrameType
  /\ synced \in 0..Len(disk)
  /\ pane.state \in {"continuous", "untrusted", "legacy"}
  /\ pane.reason \in {"none", "ENOSPC", "corruptJournal", "volatileRestart"}
  /\ {pane.sequence, pane.end, pane.committed, pane.realmCharge, pane.physical} \subseteq Nat
  /\ pane.corrupt \in BOOLEAN /\ failed \in BOOLEAN
  /\ pc \in {"idle", "appended", "synced", "marked", "durable", "verified", "down"}
  /\ Len(submitted) \in 0..MaxRecords
  /\ fed \in 0..Len(submitted)
  /\ damage \in 0..MaxDamage /\ reopens \in 0..MaxReopens

\* committedEventsPane/ReadCommitted hand out a projection only when this holds.
readable == pc # "down" /\ ~pane.corrupt /\ pane.reason # "corruptJournal"

\* Whatever storage loses, tears or damages, a projection that readers may use
\* is a prefix of what was appended, in order, with the committed frontier at
\* its end: readback verification and recovery never publish a record that was
\* not appended, skip one, or move the frontier past the view.
CommittedViewIsPrefix ==
  readable =>
    /\ IsPrefix(pane.verified.view, submitted)
    /\ pane.committedSequence = Len(pane.verified.view)
    /\ pane.committed = (IF pane.verified.view = <<>> THEN 0
                         ELSE pane.verified.view[Len(pane.verified.view)].end)

\* A record that was fed to readers is in every projection a later incarnation
\* is willing to serve: feed happens only after append, fsync, commit, fsync
\* and readback, so no crash between them can take a fed record back.
FedRecordsSurvive == readable => fed <= pane.committedSequence

\* The physical charge covers the bytes the file occupies, torn frames and
\* failed commits included, because an append is charged for itself and its
\* commit before the first byte is written and never refunded; the logical
\* charge is exactly the cost of the records the generation holds, live and
\* after a reopen: recovery neither mints nor loses capacity.
ChargesCoverFile ==
  pc # "down" =>
    /\ pane.physical >= fileBytes
    /\ ~pane.corrupt =>
         pane.realmCharge =
           FoldLeft(LAMBDA n, r : n + logicalCost(r), 0, SubSeq(submitted, 1, pane.sequence))

\* Within one incarnation the published view only grows, and a step that
\* invalidates the generation publishes nothing: a failed commit keeps the
\* previous frontier and view.
PublishedViewOnlyGrows ==
  [][reopens' = reopens =>
       /\ IsPrefix(pane.verified.view, pane'.verified.view)
       /\ (pane'.state # pane.state => pane'.verified = pane.verified)]_vars

=============================================================================
