-------------------------- MODULE JournalFileProofs --------------------------
(***************************************************************************)
(* Proofs about the generation file (JournalFile), for every payload, any  *)
(* kind and amount of damage, and any number of records and restarts.      *)
(*                                                                         *)
(* The invariant FileInv has one part per thing that is remembered twice.  *)
(*                                                                         *)
(*   Written  the appended records are chained without a gap, and a whole  *)
(*            frame of the file is one of them;                            *)
(*   Bytes    which frames the storage calls of WriteRecord have written   *)
(*            so far, and how many of them are synced;                     *)
(*   Live     while the generation is continuous, the sequencer, the       *)
(*            parser's cursor and the frames of the file agree;            *)
(*   View     the published view is a beginning of what was appended, and  *)
(*            the frontier is where it ends;                               *)
(*   Charges  the physical and logical ledgers cover the file.             *)
(*                                                                         *)
(* The scan (next, scanFrames) folds over the frames; that a cursor which  *)
(* tracks the appended records still tracks them after any frames, damaged *)
(* or not, is proved with the folds of Folding.  Durable says in addition  *)
(* that the synced part of the file holds the commit of whatever was fed,  *)
(* with nothing before it that could end a scan early.  A length field     *)
(* that was overwritten does end it early and hides the frames after it,   *)
(* so Durable is proved for the damage that leaves length fields alone.    *)
(***************************************************************************)
EXTENDS JournalFile, SequenceTheorems, TLAPS

(***************************************************************************)
(* The shapes of the records.                                              *)
(***************************************************************************)
Hashes == Payload \cup Geometry \cup {"none"}
RecordType == {r \in [kind : Records, sequence : Nat, start : Nat, end : Nat, hash : Hashes] :
                 r.kind = "output" => r.hash \in Payload}
Frames == [type : {"append", "commit", "tornAppend", "tornCommit"}, rec : RecordType]
            \cup [type : {"invalid", "overlong"}, bytes : Nat]
Cursors == [frames : Nat, end : Nat, sequence : Nat, committed : Nat, committedSequence : Nat,
            geometryCharge : Nat, last : RecordType, tail : Seq(RecordType), view : Seq(RecordType)]
Panes == [state : {"continuous", "untrusted", "legacy"},
          reason : {"none", "ENOSPC", "corruptJournal", "volatileRestart"},
          sequence : Nat, end : Nat, last : RecordType, pending : Seq(RecordType), stored : Nat,
          verified : Cursors, committed : Nat, committedSequence : Nat, realmCharge : Nat,
          physical : Nat, corrupt : BOOLEAN]

Shapes ==
  /\ disk \in Seq(Frames) /\ submitted \in Seq(RecordType) /\ pane \in Panes
  /\ synced \in 0..Len(disk) /\ fed \in 0..Len(submitted) /\ Len(submitted) \in 0..MaxRecords
  /\ failed \in BOOLEAN /\ damage \in 0..MaxDamage /\ reopens \in 0..MaxReopens
  /\ pc \in {"idle", "appended", "synced", "marked", "durable", "verified", "down"}

(***************************************************************************)
(* The invariant.                                                          *)
(***************************************************************************)

\* Where the n-th record of s ends, and the n-th record.
endAt(s, n) == IF n = 0 THEN 0 ELSE s[n].end
recordAt(s, n) == IF n = 0 THEN NoRecord ELSE s[n]

\* Records follow each other without a gap.
chained(s) ==
  \A i \in 1..Len(s) :
    /\ s[i].kind \in {"output", "geometry"} /\ s[i].sequence = i
    /\ s[i].start = endAt(s, i - 1) /\ s[i].end = s[i].start + Length(s[i])

\* A frame that is whole names a record that was appended.
genuine(f, s) ==
  f.type \in {"append", "commit"} => f.rec.sequence \in 1..Len(s) /\ f.rec = s[f.rec.sequence]

begins(t, s) == Len(t) <= Len(s) /\ \A i \in 1..Len(t) : t[i] = s[i]

cost(s) == FoldLeft(LAMBDA n, r : n + logicalCost(r), 0, s)

\* What the cursor has accepted is a beginning of what was appended.
tracks(c, s) ==
  /\ begins(c.tail, s) /\ begins(c.view, s) /\ Len(c.view) <= Len(c.tail)
  /\ c.sequence = Len(c.tail) /\ c.last = recordAt(s, Len(c.tail)) /\ c.end = endAt(s, Len(c.tail))
  /\ c.committedSequence = Len(c.view) /\ c.committed = endAt(s, Len(c.view))
  /\ c.end + c.geometryCharge = cost(c.tail)

live == pc # "down" /\ pane.state = "continuous"

Written ==
  /\ chained(submitted)
  /\ \A i \in 1..Len(disk) : genuine(disk[i], submitted)

\* A damaged frame that a crash may still tear has bytes to lose.
Bytes ==
  \A i \in (synced + 1)..Len(disk) : disk[i].type = "invalid" => disk[i].bytes >= 1

\* The state of the writer.
Live ==
  /\ pc \notin {"idle", "down"} => pane.state = "continuous" /\ submitted # <<>>
  /\ pc = "down" => reopens < MaxReopens
  /\ live => /\ ~failed /\ ~pane.corrupt
             /\ pane.sequence = Len(submitted) /\ pane.end = endAt(submitted, Len(submitted))
             /\ pane.last = recordAt(submitted, Len(submitted))
             /\ pane.stored + (IF pc = "marked" THEN 1 ELSE 0) = Len(disk)
             /\ tracks(pane.verified, submitted)

\* What readers are given.
View ==
  /\ begins(pane.verified.view, submitted)
  /\ pane.committedSequence = Len(pane.verified.view)
  /\ pane.committed = endAt(submitted, Len(pane.verified.view))

\* The ledgers.
Charges ==
  pc # "down" =>
    /\ pane.physical >= fileBytes + (IF pc \in {"appended", "synced"} THEN CommitFixed ELSE 0)
    /\ pane.sequence <= Len(submitted)
    /\ ~pane.corrupt => pane.realmCharge = cost(SubSeq(submitted, 1, pane.sequence))

FileInv == Shapes /\ Written /\ Bytes /\ Live /\ View /\ Charges

\* A frame that holds up or refuses, and never ends, a scan.
firm(f) == f.type \in {"append", "commit", "invalid"}

\* The commit of record n, or what damage made of it.
sealed(f, n) == f.type = "invalid" \/ (f.type = "commit" /\ f.rec.sequence = n)

Durable ==
  /\ live => \A i \in 1..Len(disk) : firm(disk[i])
  /\ pc \in {"marked", "durable", "verified"} => disk # <<>> /\ sealed(disk[Len(disk)], Len(submitted))
  /\ pc \in {"durable", "verified"} => synced = Len(disk)
  /\ pc = "verified" => pane.committedSequence = Len(submitted)
  /\ fed > 0 => \E d \in 1..synced : sealed(disk[d], fed) /\ \A i \in 1..d : firm(disk[i])
  /\ pc # "down" /\ ~pane.corrupt => fed <= pane.committedSequence

(***************************************************************************)
(* The folds.                                                              *)
(***************************************************************************)
occupies(n, f) == n + frameBytes(f)
costs(n, r) == n + logicalCost(r)
reads(r, f) == IF r.status = "ok" THEN next(r.cursor, f) ELSE r

F == INSTANCE Folding WITH Op <- occupies, X <- Frames
C == INSTANCE Folding WITH Op <- costs, X <- RecordType
R == INSTANCE Folding WITH Op <- reads, X <- Frames

\* The folds of the model are those of Folding: over the bytes of the file,
LEMMA BytesFold == \A d : bytesOf(d) = HeaderSize + F!fold(0, d)
BY DEF bytesOf, occupies, F!fold, FoldLeft, MapThenFoldSet, Max, F!last

\* over what the records of a generation cost,
LEMMA CostFold == \A s : cost(s) = C!fold(0, s)
BY DEF cost, costs, C!fold, FoldLeft, MapThenFoldSet, Max, C!last

\* and over the frames a cursor reads.
LEMMA ScanFold == \A c, s : scanFrames(c, s) = R!fold([status |-> "ok", cursor |-> c], s)
BY DEF scanFrames, reads, R!fold, FoldLeft, MapThenFoldSet, Max, R!last

(***************************************************************************)
(* Records and frames.                                                     *)
(***************************************************************************)

\* The fields of a record, and what it costs.
LEMMA RecordFacts ==
  ASSUME NEW r \in RecordType
  PROVE  /\ r.sequence \in Nat /\ r.start \in Nat /\ r.end \in Nat /\ r.kind \in Records /\ r.hash \in Hashes
         /\ Length(r) \in Nat /\ logicalCost(r) \in Nat /\ physicalAppendCost(r) \in Nat
BY JournalFileAssumption DEF RecordType, Length, logicalCost, physicalAppendCost, geometryRecordCost

\* No record is a record.
LEMMA NoRecordFacts == NoRecord \in RecordType /\ NoRecord.sequence = 0 /\ NoRecord.end = 0 /\ Length(NoRecord) = 0
BY DEF NoRecord, RecordType, Records, Hashes, Length

\* The fields of a frame.
LEMMA FrameFacts ==
  ASSUME NEW f \in Frames
  PROVE  /\ f.type \in FrameType
         /\ f.type \in {"append", "commit", "tornAppend", "tornCommit"} => f.rec \in RecordType
         /\ f.type \in {"invalid", "overlong"} => f.bytes \in Nat
BY DEF Frames, FrameType

\* What a frame occupies.
LEMMA FrameBytes ==
  ASSUME NEW f \in Frames
  PROVE  /\ f.type = "append" => frameBytes(f) = AppendFixed + Length(f.rec)
         /\ f.type = "commit" => frameBytes(f) = CommitFixed
         /\ f.type = "tornAppend" => frameBytes(f) = AppendFixed + Length(f.rec) - 1
         /\ f.type = "tornCommit" => frameBytes(f) = CommitFixed - 1
         /\ f.type \in {"invalid", "overlong"} => frameBytes(f) = f.bytes
         /\ frameBytes(f) \in Nat
<1>1. f.type = "append" => frameBytes(f) = AppendFixed + Length(f.rec)
  BY DEF frameBytes
<1>2. f.type = "commit" => frameBytes(f) = CommitFixed
  BY DEF frameBytes
<1>3. f.type = "tornAppend" => frameBytes(f) = AppendFixed + Length(f.rec) - 1
  BY DEF frameBytes
<1>4. f.type = "tornCommit" => frameBytes(f) = CommitFixed - 1
  BY DEF frameBytes
<1>5. f.type \in {"invalid", "overlong"} => frameBytes(f) = f.bytes
  BY DEF frameBytes
<1>6. frameBytes(f) \in Nat
  <2>1. f.type \in {"append", "commit", "tornAppend", "tornCommit"} => Length(f.rec) \in Nat
    BY FrameFacts, RecordFacts
  <2>. QED BY <1>1, <1>2, <1>3, <1>4, <1>5, <2>1, FrameFacts, JournalFileAssumption DEF FrameType
<1>. QED BY <1>1, <1>2, <1>3, <1>4, <1>5, <1>6

\* A whole frame, a torn one and a damaged one are frames.
LEMMA FrameMade ==
  ASSUME NEW r \in RecordType, NEW n \in Nat
  PROVE  /\ \A t \in {"append", "commit", "tornAppend", "tornCommit"} : [type |-> t, rec |-> r] \in Frames
         /\ \A t \in {"invalid", "overlong"} : [type |-> t, bytes |-> n] \in Frames
BY DEF Frames

(***************************************************************************)
(* Sums.                                                                   *)
(***************************************************************************)

\* The bytes of a file are a number.
LEMMA BytesType ==
  ASSUME NEW s \in Seq(Frames)
  PROVE  F!fold(0, s) \in Nat
<1>1. \A v \in Nat, x \in Frames : occupies(v, x) \in Nat
  BY FrameBytes DEF occupies
<1>. QED BY <1>1, F!FoldStays

\* A frame more adds its bytes.
LEMMA BytesAppend ==
  ASSUME NEW s \in Seq(Frames), NEW f \in Frames
  PROVE  F!fold(0, Append(s, f)) = F!fold(0, s) + frameBytes(f)
BY F!FoldAppend DEF occupies

\* Frames of the same sizes make files of the same size.
LEMMA BytesSame ==
  ASSUME NEW s \in Seq(Frames), NEW t \in Seq(Frames), Len(s) = Len(t),
         \A i \in 1..Len(s) : frameBytes(s[i]) = frameBytes(t[i])
  PROVE  F!fold(0, s) = F!fold(0, t)
<1>. DEFINE same(u, v) == Len(u) = Len(v) /\ \A i \in 1..Len(u) : frameBytes(u[i]) = frameBytes(v[i])
            G == {u \in Seq(Frames) : \A v \in Seq(Frames) : same(u, v) => F!fold(0, u) = F!fold(0, v)}
<1>1. <<>> \in G
  <2>1. SUFFICES ASSUME NEW v \in Seq(Frames), same(<<>>, v) PROVE F!fold(0, <<>>) = F!fold(0, v)
    OBVIOUS
  <2>2. v = <<>>
    BY <2>1
  <2>. QED BY <2>2
<1>2. \A u \in Seq(Frames), x \in Frames : u \in G => Append(u, x) \in G
  <2>0. SUFFICES ASSUME NEW u \in Seq(Frames), NEW x \in Frames, u \in G PROVE Append(u, x) \in G
    OBVIOUS
  <2>. Append(u, x) \in Seq(Frames)
    OBVIOUS
  <2>1. SUFFICES ASSUME NEW v \in Seq(Frames), same(Append(u, x), v)
                 PROVE  F!fold(0, Append(u, x)) = F!fold(0, v)
    OBVIOUS
  <2>. DEFINE n == Len(v)
              w == SubSeq(v, 1, n - 1)
              y == v[n]
  <2>2. n = Len(u) + 1 /\ n \in Nat /\ Len(u) \in Nat
    BY <2>1
  <2>3. y \in Frames /\ w \in Seq(Frames) /\ Len(w) = n - 1 /\ v = Append(w, y) /\ \A i \in 1..(n - 1) : w[i] = v[i]
    <3>1. v # <<>>
      BY <2>2
    <3>. QED BY <2>2, <3>1
  <2>4. frameBytes(x) = frameBytes(y)
    <3>1. Append(u, x)[n] = x /\ n \in 1..Len(Append(u, x))
      BY <2>2
    <3>. QED BY <2>1, <3>1
  <2>5. same(u, w)
    <3>1. \A i \in 1..Len(u) : Append(u, x)[i] = u[i] /\ i \in 1..Len(Append(u, x))
      OBVIOUS
    <3>. QED BY <2>1, <2>2, <2>3, <3>1
  <2>. HIDE DEF w, y, n
  <2>6. F!fold(0, u) = F!fold(0, w)
    BY <2>0, <2>3, <2>5
  <2>. QED BY <2>3, <2>4, <2>6, BytesAppend
<1>. HIDE DEF G
<1>3. Seq(Frames) \subseteq G
  BY <1>1, <1>2, F!SequenceInduct
<1>4. s \in G
  BY <1>3
<1>. QED BY <1>4 DEF G

\* What records cost is a number, and one more adds its own cost.
LEMMA CostType ==
  ASSUME NEW s \in Seq(RecordType)
  PROVE  cost(s) \in Nat
<1>1. \A v \in Nat, x \in RecordType : costs(v, x) \in Nat
  BY RecordFacts DEF costs
<1>. QED BY <1>1, C!FoldStays, CostFold

\* No records cost nothing.
LEMMA CostEmpty == cost(<<>>) = 0
BY CostFold, C!FoldEmpty

\* A record more adds what it costs.
LEMMA CostAppend ==
  ASSUME NEW s \in Seq(RecordType), NEW r \in RecordType
  PROVE  cost(Append(s, r)) = cost(s) + logicalCost(r)
BY CostFold, C!FoldAppend DEF costs

(***************************************************************************)
(* What a cursor reads.                                                    *)
(***************************************************************************)

\* The fields of a cursor.
LEMMA CursorFacts ==
  ASSUME NEW c \in Cursors
  PROVE  /\ c.frames \in Nat /\ c.end \in Nat /\ c.sequence \in Nat /\ c.committed \in Nat
         /\ c.committedSequence \in Nat /\ c.geometryCharge \in Nat /\ c.last \in RecordType
         /\ c.tail \in Seq(RecordType) /\ c.view \in Seq(RecordType) /\ Len(c.tail) \in Nat /\ Len(c.view) \in Nat
BY DEF Cursors

\* A cursor with its view moved is a cursor.
LEMMA CursorCommitted ==
  ASSUME NEW c \in Cursors, NEW n \in Nat, NEW k \in Nat, NEW m \in Nat, NEW t \in Seq(RecordType), NEW q,
         q = [c EXCEPT !.committed = m, !.committedSequence = k, !.view = t, !.frames = n]
  PROVE  q \in Cursors
<1>. DEFINE S == Seq(RecordType)
            K == [frames : Nat, end : Nat, sequence : Nat, committed : Nat, committedSequence : Nat,
                  geometryCharge : Nat, last : RecordType, tail : S, view : S]
<1>1. K = Cursors /\ t \in S
  BY DEF Cursors
<1>. HIDE DEF S
<1>2. q \in K
  BY <1>1
<1>. QED BY <1>1, <1>2

\* The cursor of an empty file.
LEMMA EmptyTracks ==
  ASSUME NEW s \in Seq(RecordType)
  PROVE  EmptyCursor \in Cursors /\ tracks(EmptyCursor, s) /\ EmptyCursor.committedSequence = 0
<1>1. NoRecord \in RecordType
  BY NoRecordFacts
<1>2. EmptyCursor \in Cursors
  BY <1>1 DEF EmptyCursor, Cursors
<1>3. /\ EmptyCursor.tail = <<>> /\ EmptyCursor.view = <<>> /\ EmptyCursor.sequence = 0
      /\ EmptyCursor.last = NoRecord /\ EmptyCursor.end = 0 /\ EmptyCursor.committedSequence = 0
      /\ EmptyCursor.committed = 0 /\ EmptyCursor.geometryCharge = 0
  BY DEF EmptyCursor
<1>4. Len(s) \in Nat /\ cost(<<>>) = 0
  BY CostEmpty
<1>. QED BY <1>2, <1>3, <1>4 DEF tracks, begins, recordAt, endAt

\* The records of a chain.
LEMMA ChainFacts ==
  ASSUME NEW s \in Seq(RecordType), chained(s), NEW n \in 0..Len(s)
  PROVE  /\ recordAt(s, n) \in RecordType /\ recordAt(s, n).sequence = n /\ recordAt(s, n).end = endAt(s, n)
         /\ endAt(s, n) \in Nat
<1>1. CASE n = 0
  BY <1>1, NoRecordFacts DEF recordAt, endAt
<1>2. CASE n # 0
  <2>1. n \in 1..Len(s) /\ s[n] \in RecordType
    BY <1>2
  <2>2. recordAt(s, n) = s[n] /\ endAt(s, n) = s[n].end
    BY <1>2 DEF recordAt, endAt
  <2>. QED BY <2>1, <2>2, RecordFacts DEF chained
<1>. QED BY <1>1, <1>2

\* A commit a cursor accepts makes a view of all it has read.
LEMMA CommitTracks ==
  ASSUME NEW c \in Cursors, NEW s \in Seq(RecordType), chained(s), tracks(c, s),
         NEW r \in RecordType, acceptsCommit(c, r), NEW q, q = afterCommit(c, r)
  PROVE  q \in Cursors /\ tracks(q, s) /\ q.committedSequence = r.sequence /\ q.committedSequence > c.committedSequence
<1>1. /\ c.tail \in Seq(RecordType) /\ Len(c.tail) \in Nat /\ c.committedSequence \in Nat
      /\ r.sequence \in Nat /\ r.end \in Nat
  BY CursorFacts, RecordFacts
<1>2. /\ r = recordAt(s, Len(c.tail)) /\ r.sequence > c.committedSequence
      /\ Len(c.tail) \in 0..Len(s)
  BY <1>1 DEF acceptsCommit, tracks, begins
<1>3. r.sequence = Len(c.tail) /\ r.end = endAt(s, Len(c.tail))
  BY <1>2, ChainFacts
<1>4. q \in Cursors
  <2>1. q = [c EXCEPT !.committed = r.end, !.committedSequence = r.sequence,
                      !.view = c.tail, !.frames = c.frames + 1]
    BY DEF afterCommit
  <2>2. c.frames + 1 \in Nat
    BY CursorFacts
  <2>3. r.end \in Nat /\ r.sequence \in Nat /\ c.tail \in Seq(RecordType)
    BY <1>1
  <2>. QED BY <2>1, <2>2, <2>3, CursorCommitted
<1>5. /\ q.tail = c.tail /\ q.view = c.tail /\ q.sequence = c.sequence /\ q.last = c.last /\ q.end = c.end
      /\ q.committedSequence = r.sequence /\ q.committed = r.end /\ q.geometryCharge = c.geometryCharge
  BY DEF afterCommit, Cursors
<1>6. tracks(q, s)
  BY <1>1, <1>3, <1>5 DEF tracks
<1>. QED BY <1>2, <1>4, <1>5, <1>6

\* An append a cursor accepts is the next of the records that were appended.
LEMMA AppendTracks ==
  ASSUME NEW c \in Cursors, NEW s \in Seq(RecordType), chained(s), tracks(c, s),
         NEW r \in RecordType, r.sequence \in 1..Len(s), r = s[r.sequence], acceptsAppend(c, r),
         NEW q, q = afterAppend(c, r)
  PROVE  q \in Cursors /\ tracks(q, s) /\ q.committedSequence = c.committedSequence
<1>1. /\ c.tail \in Seq(RecordType) /\ Len(c.tail) \in Nat /\ c.end \in Nat /\ c.geometryCharge \in Nat
      /\ c.view \in Seq(RecordType) /\ Len(c.view) \in Nat /\ Len(s) \in Nat
      /\ r.end \in Nat /\ Length(r) \in Nat
  BY CursorFacts, RecordFacts
<1>2. r.sequence = Len(c.tail) + 1 /\ r.start = c.end /\ r.end = c.end + Length(r)
  BY DEF acceptsAppend, tracks
<1>. DEFINE extra == IF r.kind = "geometry" THEN geometryRecordCost ELSE 0
            t == Append(c.tail, r)
<1>3. r.kind \in {"output", "geometry"} /\ geometryRecordCost \in Nat
  BY JournalFileAssumption DEF chained, geometryRecordCost
<1>4. extra \in Nat /\ logicalCost(r) = Length(r) + extra
  BY <1>1, <1>3 DEF logicalCost, Length
<1>5. /\ t \in Seq(RecordType) /\ Len(t) = r.sequence /\ t[Len(t)] = r
      /\ \A i \in 1..Len(c.tail) : t[i] = c.tail[i]
  BY <1>1, <1>2
<1>6. cost(t) = cost(c.tail) + logicalCost(r) /\ cost(c.tail) \in Nat
  BY <1>1, CostAppend, CostType
<1>. HIDE DEF t, extra
<1>7. /\ q.tail = t /\ q.view = c.view /\ q.sequence = r.sequence /\ q.last = r /\ q.end = r.end
      /\ q.committedSequence = c.committedSequence /\ q.committed = c.committed
      /\ q.geometryCharge = c.geometryCharge + extra /\ q.frames = c.frames + 1
  BY DEF afterAppend, Cursors, t, extra
<1>8. q \in Cursors
  <2>1. q = [c EXCEPT !.tail = t, !.last = r, !.sequence = r.sequence, !.end = r.end,
                      !.frames = c.frames + 1, !.geometryCharge = c.geometryCharge + extra]
    BY DEF afterAppend, t, extra
  <2>2. c.frames \in Nat
    BY CursorFacts
  <2>3. c.frames + 1 \in Nat
    BY <2>2
  <2>4. c.geometryCharge + extra \in Nat
    BY <1>1, <1>4
  <2>5. r.sequence \in Nat /\ r.end \in Nat
    BY RecordFacts
  <2>6. t \in Seq(RecordType)
    BY <1>5
  <2>. DEFINE n == c.frames + 1
              g == c.geometryCharge + extra
  <2>7. n \in Nat /\ g \in Nat
    BY <2>3, <2>4
  <2>8. q = [c EXCEPT !.tail = t, !.last = r, !.sequence = r.sequence, !.end = r.end,
                      !.frames = n, !.geometryCharge = g]
    BY <2>1
  <2>. HIDE DEF n, g
  <2>. DEFINE S == Seq(RecordType)
              K == [frames : Nat, end : Nat, sequence : Nat, committed : Nat, committedSequence : Nat,
                    geometryCharge : Nat, last : RecordType, tail : S, view : S]
  <2>9. K = Cursors /\ t \in S
    BY <2>6 DEF Cursors
  <2>. HIDE DEF S
  <2>10. q \in K
    BY <2>5, <2>7, <2>8, <2>9
  <2>. QED BY <2>9, <2>10
<1>9. begins(t, s)
  <2>1. begins(c.tail, s)
    BY DEF tracks
  <2>2. \A i \in 1..Len(c.tail) : t[i] = s[i]
    BY <2>1, <1>5 DEF begins
  <2>3. t[Len(t)] = s[Len(t)] /\ Len(t) = Len(c.tail) + 1 /\ Len(t) <= Len(s)
    BY <1>1, <1>2, <1>5
  <2>4. \A i \in 1..Len(t) : i \in 1..Len(c.tail) \/ i = Len(t)
    BY <2>3, <1>1
  <2>. QED BY <2>2, <2>3, <2>4 DEF begins
<1>10. q.last = recordAt(s, Len(t)) /\ q.end = endAt(s, Len(t))
  BY <1>1, <1>2, <1>5, <1>7 DEF recordAt, endAt
<1>11. q.end + q.geometryCharge = cost(t)
  BY <1>1, <1>2, <1>4, <1>6, <1>7 DEF tracks
<1>12. begins(c.view, s) /\ Len(c.view) <= Len(t)
  BY <1>1, <1>2, <1>5 DEF tracks
<1>13. tracks(q, s)
  BY <1>5, <1>7, <1>9, <1>10, <1>11, <1>12 DEF tracks
<1>. QED BY <1>7, <1>8, <1>13

Results == [status : {"ok", "torn", "corrupt"}, cursor : Cursors]

\* What reading the frame f from cursor c makes.
readsSo(r, c, f, s) ==
  /\ r \in Results /\ tracks(r.cursor, s) /\ c.committedSequence <= r.cursor.committedSequence
  /\ r.status = "torn" => ~firm(f)
  /\ f.type = "invalid" => r.status = "corrupt"
  /\ r.status = "ok" /\ f.type = "commit" => r.cursor.committedSequence = f.rec.sequence

\* The steps of verifiedCursor.next.
LEMMA NextIs ==
  ASSUME NEW c, NEW f
  PROVE  /\ f.type \in {"tornAppend", "overlong"} => next(c, f) = [status |-> "torn", cursor |-> c]
         /\ f.type \in {"tornCommit", "invalid"} => next(c, f) = [status |-> "corrupt", cursor |-> c]
         /\ f.type = "commit" /\ acceptsCommit(c, f.rec) =>
              next(c, f) = [status |-> "ok", cursor |-> afterCommit(c, f.rec)]
         /\ f.type = "commit" /\ ~acceptsCommit(c, f.rec) => next(c, f) = [status |-> "corrupt", cursor |-> c]
         /\ f.type = "append" /\ acceptsAppend(c, f.rec) =>
              next(c, f) = [status |-> "ok", cursor |-> afterAppend(c, f.rec)]
         /\ f.type = "append" /\ ~acceptsAppend(c, f.rec) => next(c, f) = [status |-> "corrupt", cursor |-> c]
<1>1. f.type \in {"tornAppend", "overlong"} => next(c, f) = [status |-> "torn", cursor |-> c]
  BY Zenon DEF next
<1>2. f.type \in {"tornCommit", "invalid"} => next(c, f) = [status |-> "corrupt", cursor |-> c]
  BY Zenon DEF next
<1>3. f.type = "commit" => next(c, f) = IF acceptsCommit(c, f.rec) THEN [status |-> "ok", cursor |-> afterCommit(c, f.rec)]
                                        ELSE [status |-> "corrupt", cursor |-> c]
  BY Zenon DEF next
<1>4. f.type = "append" => next(c, f) = IF acceptsAppend(c, f.rec) THEN [status |-> "ok", cursor |-> afterAppend(c, f.rec)]
                                        ELSE [status |-> "corrupt", cursor |-> c]
  BY Zenon DEF next
<1>. QED BY <1>1, <1>2, <1>3, <1>4

\* A frame of the file takes a cursor along what was appended, or stops it.
LEMMA NextReads ==
  ASSUME NEW c \in Cursors, NEW s \in Seq(RecordType), chained(s), tracks(c, s),
         NEW f \in Frames, genuine(f, s), NEW r, r = next(c, f)
  PROVE  readsSo(r, c, f, s)
<1>0. c.committedSequence \in Nat
  BY CursorFacts
<1>1. CASE f.type \in {"tornAppend", "overlong"}
  <2>1. r.status = "torn" /\ r.cursor = c /\ r \in Results
    BY <1>1, NextIs DEF Results
  <2>. QED BY <1>0, <1>1, <2>1 DEF readsSo, firm
<1>2. CASE f.type \in {"tornCommit", "invalid"}
  <2>1. r.status = "corrupt" /\ r.cursor = c /\ r \in Results
    BY <1>2, NextIs DEF Results
  <2>. QED BY <1>0, <1>2, <2>1 DEF readsSo
<1>3. CASE f.type = "commit" /\ acceptsCommit(c, f.rec)
  <2>. DEFINE q == afterCommit(c, f.rec)
  <2>1. r = [status |-> "ok", cursor |-> q] /\ f.rec \in RecordType
    BY <1>3, NextIs, FrameFacts
  <2>2. q \in Cursors /\ tracks(q, s) /\ q.committedSequence = f.rec.sequence /\ q.committedSequence > c.committedSequence
    BY <1>3, <2>1, CommitTracks
  <2>. HIDE DEF q
  <2>3. r \in Results /\ r.status = "ok" /\ r.cursor = q
    BY <2>1, <2>2 DEF Results
  <2>4. q.committedSequence \in Nat
    BY <2>2, CursorFacts
  <2>. QED BY <1>0, <1>3, <2>2, <2>3, <2>4 DEF readsSo, firm
<1>4. CASE f.type = "append" /\ acceptsAppend(c, f.rec)
  <2>. DEFINE q == afterAppend(c, f.rec)
  <2>1. r = [status |-> "ok", cursor |-> q] /\ f.rec \in RecordType
    BY <1>4, NextIs, FrameFacts
  <2>2. f.rec.sequence \in 1..Len(s) /\ f.rec = s[f.rec.sequence]
    BY <1>4 DEF genuine
  <2>3. q \in Cursors /\ tracks(q, s) /\ q.committedSequence = c.committedSequence
    BY <1>4, <2>1, <2>2, AppendTracks
  <2>. HIDE DEF q
  <2>4. r \in Results /\ r.status = "ok" /\ r.cursor = q
    BY <2>1, <2>3 DEF Results
  <2>. QED BY <1>0, <1>4, <2>3, <2>4 DEF readsSo, firm
<1>5. CASE (f.type = "commit" /\ ~acceptsCommit(c, f.rec)) \/ (f.type = "append" /\ ~acceptsAppend(c, f.rec))
  <2>1. r.status = "corrupt" /\ r.cursor = c /\ r \in Results
    BY <1>5, NextIs DEF Results
  <2>. QED BY <1>0, <1>5, <2>1 DEF readsSo, firm
<1>. QED BY <1>1, <1>2, <1>3, <1>4, <1>5, FrameFacts DEF FrameType

\* What reading the frames u from cursor c makes, when record n may be sealed among them.
scanned(r, c, u, s, n) ==
  /\ r \in Results /\ tracks(r.cursor, s) /\ c.committedSequence <= r.cursor.committedSequence
  /\ (\A i \in 1..Len(u) : firm(u[i])) => r.status # "torn"
  /\ \A d \in 1..Len(u) : sealed(u[d], n) /\ (\A i \in 1..d : firm(u[i])) =>
       r.status = "corrupt" \/ n <= r.cursor.committedSequence

\* One frame more.
LEMMA ScanStep ==
  ASSUME NEW c \in Cursors, NEW s \in Seq(RecordType), chained(s), NEW n \in Nat,
         NEW u \in Seq(Frames), NEW f \in Frames, genuine(f, s),
         NEW p, scanned(p, c, u, s, n), NEW r, r = reads(p, f)
  PROVE  scanned(r, c, Append(u, f), s, n)
<1>. DEFINE w == Append(u, f)
            k == Len(u) + 1
<1>1. /\ Len(u) \in Nat /\ Len(w) = k /\ w[k] = f /\ \A i \in 1..Len(u) : w[i] = u[i]
      /\ c.committedSequence \in Nat
  BY CursorFacts
<1>2. /\ p \in Results /\ tracks(p.cursor, s) /\ c.committedSequence <= p.cursor.committedSequence
      /\ (\A i \in 1..Len(u) : firm(u[i])) => p.status # "torn"
      /\ \A d \in 1..Len(u) : sealed(u[d], n) /\ (\A i \in 1..d : firm(u[i])) =>
           p.status = "corrupt" \/ n <= p.cursor.committedSequence
  BY DEF scanned
<1>3. p.cursor \in Cursors /\ p.status \in {"ok", "torn", "corrupt"}
  BY <1>2 DEF Results
<1>4. p.cursor.committedSequence \in Nat
  BY <1>3, CursorFacts
<1>. HIDE DEF w
<1>5. (\A i \in 1..Len(w) : firm(w[i])) => (\A i \in 1..Len(u) : firm(u[i])) /\ firm(f)
  BY <1>1
<1>6. ASSUME NEW d \in 1..Len(w), sealed(w[d], n), \A i \in 1..d : firm(w[i])
      PROVE  \/ d \in 1..Len(u) /\ sealed(u[d], n) /\ \A i \in 1..d : firm(u[i])
             \/ sealed(f, n) /\ firm(f) /\ \A i \in 1..Len(u) : firm(u[i])
  <2>1. CASE d = k
    BY <1>1, <1>6, <2>1
  <2>2. CASE d # k
    <3>1. d \in 1..Len(u) /\ \A i \in 1..d : i \in 1..Len(u)
      BY <1>1, <1>6, <2>2
    <3>. QED BY <1>1, <1>6, <3>1
  <2>. QED BY <2>1, <2>2
<1>7. CASE p.status = "ok"
  <2>1. readsSo(r, p.cursor, f, s)
    <3>1. r = next(p.cursor, f)
      BY <1>7 DEF reads
    <3>. QED BY <3>1, <1>2, <1>3, NextReads
  <2>2. /\ r \in Results /\ tracks(r.cursor, s) /\ p.cursor.committedSequence <= r.cursor.committedSequence
        /\ r.status = "torn" => ~firm(f)
        /\ f.type = "invalid" => r.status = "corrupt"
        /\ r.status = "ok" /\ f.type = "commit" => r.cursor.committedSequence = f.rec.sequence
    BY <2>1 DEF readsSo
  <2>3. r.cursor.committedSequence \in Nat /\ r.status \in {"ok", "torn", "corrupt"}
    <3>1. r.cursor \in Cursors /\ r.status \in {"ok", "torn", "corrupt"}
      BY <2>2 DEF Results
    <3>. QED BY <3>1, CursorFacts
  <2>4. c.committedSequence <= r.cursor.committedSequence
    BY <1>1, <1>2, <1>4, <2>2, <2>3
  <2>5. (\A i \in 1..Len(w) : firm(w[i])) => r.status # "torn"
    BY <1>5, <2>2
  <2>6. ASSUME NEW d \in 1..Len(w), sealed(w[d], n), \A i \in 1..d : firm(w[i])
        PROVE  r.status = "corrupt" \/ n <= r.cursor.committedSequence
    <3>1. CASE d \in 1..Len(u) /\ sealed(u[d], n) /\ \A i \in 1..d : firm(u[i])
      <4>1. n <= p.cursor.committedSequence
        BY <3>1, <1>2, <1>7
      <4>. QED BY <4>1, <2>2, <2>3, <1>4
    <3>2. CASE sealed(f, n) /\ firm(f)
      BY <3>2, <2>2, <2>3 DEF sealed
    <3>. QED BY <2>6, <1>6, <3>1, <3>2
  <2>. QED BY <2>2, <2>4, <2>5, <2>6 DEF scanned, w
<1>8. CASE p.status # "ok"
  <2>1. r = p
    BY <1>8 DEF reads
  <2>2. (\A i \in 1..Len(w) : firm(w[i])) => r.status # "torn"
    BY <1>2, <1>5, <2>1
  <2>3. ASSUME NEW d \in 1..Len(w), sealed(w[d], n), \A i \in 1..d : firm(w[i])
        PROVE  r.status = "corrupt" \/ n <= r.cursor.committedSequence
    <3>1. CASE d \in 1..Len(u) /\ sealed(u[d], n) /\ \A i \in 1..d : firm(u[i])
      BY <1>2, <2>1, <3>1
    <3>2. CASE \A i \in 1..Len(u) : firm(u[i])
      BY <1>2, <1>3, <1>8, <2>1, <3>2
    <3>. QED BY <2>3, <1>6, <3>1, <3>2
  <2>. QED BY <1>2, <2>1, <2>2, <2>3 DEF scanned, w
<1>. QED BY <1>7, <1>8

\* Whatever frames it meets, a scan stays on what was appended; and a scan that gets
\* past the commit of record n, with no torn frame before it, has committed n.
LEMMA ScanReads ==
  ASSUME NEW c \in Cursors, NEW s \in Seq(RecordType), chained(s), tracks(c, s), NEW n \in Nat,
         NEW fr \in Seq(Frames), \A i \in 1..Len(fr) : genuine(fr[i], s)
  PROVE  scanned(scanFrames(c, fr), c, fr, s, n)
<1>. DEFINE b == [status |-> "ok", cursor |-> c]
            true(u) == \A i \in 1..Len(u) : genuine(u[i], s)
            G == {u \in Seq(Frames) : true(u) => scanned(R!fold(b, u), c, u, s, n)}
<1>1. <<>> \in G
  <2>1. R!fold(b, <<>>) = b
    BY R!FoldEmpty
  <2>2. b \in Results /\ b.cursor = c /\ b.status = "ok"
    BY DEF Results
  <2>3. c.committedSequence <= c.committedSequence
    BY CursorFacts
  <2>4. scanned(b, c, <<>>, s, n)
    BY <2>2, <2>3 DEF scanned
  <2>. QED BY <2>1, <2>4
<1>2. \A u \in Seq(Frames), f \in Frames : u \in G => Append(u, f) \in G
  <2>1. SUFFICES ASSUME NEW u \in Seq(Frames), NEW f \in Frames, u \in G PROVE Append(u, f) \in G
    OBVIOUS
  <2>2. Append(u, f) \in Seq(Frames)
    OBVIOUS
  <2>3. ASSUME true(Append(u, f)) PROVE scanned(R!fold(b, Append(u, f)), c, Append(u, f), s, n)
    <3>1. Len(Append(u, f)) = Len(u) + 1 /\ Append(u, f)[Len(u) + 1] = f /\ Len(u) \in Nat
      OBVIOUS
    <3>2. \A i \in 1..Len(u) : Append(u, f)[i] = u[i]
      OBVIOUS
    <3>3. true(u)
      BY <2>3, <3>1, <3>2
    <3>4. genuine(f, s)
      BY <2>3, <3>1
    <3>5. scanned(R!fold(b, u), c, u, s, n)
      BY <2>1, <3>3
    <3>6. R!fold(b, Append(u, f)) = reads(R!fold(b, u), f)
      BY R!FoldAppend
    <3>. QED BY <3>4, <3>5, <3>6, ScanStep
  <2>. HIDE DEF true
  <2>. QED BY <2>2, <2>3
<1>. HIDE DEF G
<1>3. Seq(Frames) \subseteq G
  BY <1>1, <1>2, R!SequenceInduct
<1>4. fr \in G
  BY <1>3
<1>5. scanned(R!fold(b, fr), c, fr, s, n)
  BY <1>4 DEF G
<1>. QED BY <1>5, ScanFold

(***************************************************************************)
(* What a step keeps.                                                      *)
(***************************************************************************)

\* The fields of the pane object.
LEMMA PaneFacts ==
  ASSUME NEW p \in Panes
  PROVE  /\ p.state \in {"continuous", "untrusted", "legacy"}
         /\ p.reason \in {"none", "ENOSPC", "corruptJournal", "volatileRestart"}
         /\ p.sequence \in Nat /\ p.end \in Nat /\ p.last \in RecordType /\ p.pending \in Seq(RecordType)
         /\ p.stored \in Nat /\ p.verified \in Cursors /\ p.committed \in Nat /\ p.committedSequence \in Nat
         /\ p.realmCharge \in Nat /\ p.physical \in Nat /\ p.corrupt \in BOOLEAN
BY DEF Panes

\* An invalidated pane keeps everything but its state.
LEMMA InvalidatedIs ==
  ASSUME NEW p \in Panes, p.state = "continuous", NEW why \in StorageReasons, NEW q, q = invalidated(p, why)
  PROVE  /\ q \in Panes /\ q.state = "untrusted" /\ q.reason = why
         /\ q.sequence = p.sequence /\ q.end = p.end /\ q.last = p.last /\ q.pending = p.pending
         /\ q.stored = p.stored /\ q.verified = p.verified /\ q.committed = p.committed
         /\ q.committedSequence = p.committedSequence /\ q.realmCharge = p.realmCharge
         /\ q.physical = p.physical /\ q.corrupt = p.corrupt
<1>1. q = [p EXCEPT !.state = "untrusted", !.reason = why]
  BY DEF invalidated
<1>. DEFINE S == Seq(RecordType)
            K == [state : {"continuous", "untrusted", "legacy"},
                  reason : {"none", "ENOSPC", "corruptJournal", "volatileRestart"},
                  sequence : Nat, end : Nat, last : RecordType, pending : S, stored : Nat,
                  verified : Cursors, committed : Nat, committedSequence : Nat, realmCharge : Nat,
                  physical : Nat, corrupt : BOOLEAN]
<1>2. K = Panes
  BY DEF Panes
<1>. HIDE DEF S
<1>3. q \in K
  BY <1>1, <1>2 DEF StorageReasons
<1>4. /\ q.state = "untrusted" /\ q.reason = why
      /\ q.sequence = p.sequence /\ q.end = p.end /\ q.last = p.last /\ q.pending = p.pending
      /\ q.stored = p.stored /\ q.verified = p.verified /\ q.committed = p.committed
      /\ q.committedSequence = p.committedSequence /\ q.realmCharge = p.realmCharge
      /\ q.physical = p.physical /\ q.corrupt = p.corrupt
  BY <1>1, <1>2
<1>. QED BY <1>2, <1>3, <1>4

\* A longer history.
longer(s, t) == t \in Seq(RecordType) /\ chained(t) /\ begins(s, t)

\* What was true of a history is true of a longer one.
LEMMA LongerKeeps ==
  ASSUME NEW s \in Seq(RecordType), NEW t, longer(s, t)
  PROVE  /\ Len(s) <= Len(t)
         /\ \A n \in 0..Len(s) : endAt(t, n) = endAt(s, n) /\ recordAt(t, n) = recordAt(s, n)
         /\ \A n \in 0..Len(s) : SubSeq(t, 1, n) = SubSeq(s, 1, n)
         /\ \A v \in Seq(RecordType) : begins(v, s) => begins(v, t)
         /\ \A f : genuine(f, s) => genuine(f, t)
         /\ \A c \in Cursors : tracks(c, s) => tracks(c, t)
<1>1. /\ t \in Seq(RecordType) /\ Len(s) \in Nat /\ Len(t) \in Nat /\ Len(s) <= Len(t)
      /\ \A i \in 1..Len(s) : s[i] = t[i]
  BY DEF longer, begins
<1>2. \A n \in 0..Len(s) : endAt(t, n) = endAt(s, n) /\ recordAt(t, n) = recordAt(s, n)
  BY <1>1 DEF endAt, recordAt
<1>3. \A n \in 0..Len(s) : SubSeq(t, 1, n) = SubSeq(s, 1, n)
  BY <1>1
<1>4. \A v \in Seq(RecordType) : begins(v, s) => begins(v, t)
  BY <1>1 DEF begins
<1>5. \A f : genuine(f, s) => genuine(f, t)
  BY <1>1 DEF genuine
<1>6. ASSUME NEW c \in Cursors, tracks(c, s) PROVE tracks(c, t)
  <2>1. c.tail \in Seq(RecordType) /\ c.view \in Seq(RecordType) /\ Len(c.tail) \in Nat /\ Len(c.view) \in Nat
    BY CursorFacts
  <2>2. begins(c.tail, t) /\ begins(c.view, t)
    BY <1>4, <1>6, <2>1 DEF tracks
  <2>3. Len(c.tail) \in 0..Len(s) /\ Len(c.view) \in 0..Len(s)
    BY <1>6, <2>1 DEF tracks, begins
  <2>. QED BY <1>2, <1>6, <2>2, <2>3 DEF tracks
<1>. QED BY <1>1, <1>2, <1>3, <1>4, <1>5, <1>6

\* Nothing appended is a longer history too.
LEMMA LongerSame ==
  ASSUME NEW s \in Seq(RecordType), chained(s)
  PROVE  longer(s, s)
BY DEF longer, begins

\* The next record of a chain.
LEMMA LongerByOne ==
  ASSUME NEW s \in Seq(RecordType), chained(s), NEW r \in RecordType,
         r.kind \in {"output", "geometry"}, r.sequence = Len(s) + 1,
         r.start = endAt(s, Len(s)), r.end = r.start + Length(r)
  PROVE  /\ longer(s, Append(s, r)) /\ Len(Append(s, r)) = Len(s) + 1
         /\ recordAt(Append(s, r), Len(s) + 1) = r /\ endAt(Append(s, r), Len(s) + 1) = r.end
         /\ genuine([type |-> "append", rec |-> r], Append(s, r))
<1>. DEFINE t == Append(s, r)
<1>1. /\ t \in Seq(RecordType) /\ Len(s) \in Nat /\ Len(t) = Len(s) + 1 /\ t[Len(s) + 1] = r
      /\ \A i \in 1..Len(s) : t[i] = s[i]
  OBVIOUS
<1>. HIDE DEF t
<1>2. begins(s, t)
  BY <1>1 DEF begins
<1>3. \A i \in 0..Len(s) : endAt(t, i) = endAt(s, i)
  BY <1>1 DEF endAt
<1>4. ASSUME NEW i \in 1..Len(t)
      PROVE  /\ t[i].kind \in {"output", "geometry"} /\ t[i].sequence = i
             /\ t[i].start = endAt(t, i - 1) /\ t[i].end = t[i].start + Length(t[i])
  <2>1. CASE i = Len(s) + 1
    <3>1. i - 1 = Len(s) /\ t[i] = r /\ endAt(t, i - 1) = endAt(s, Len(s))
      BY <1>1, <1>3, <2>1
    <3>. QED BY <2>1, <3>1
  <2>2. CASE i # Len(s) + 1
    <3>1. i \in 1..Len(s) /\ t[i] = s[i] /\ endAt(t, i - 1) = endAt(s, i - 1)
      <4>1. i \in 1..Len(s) /\ i - 1 \in 0..Len(s)
        BY <1>1, <2>2
      <4>. QED BY <4>1, <1>1, <1>3
    <3>. QED BY <3>1 DEF chained
  <2>. QED BY <2>1, <2>2
<1>5. chained(t)
  BY <1>4 DEF chained
<1>6. recordAt(t, Len(s) + 1) = r /\ endAt(t, Len(s) + 1) = r.end
  BY <1>1 DEF recordAt, endAt
<1>7. genuine([type |-> "append", rec |-> r], t)
  BY <1>1 DEF genuine
<1>. QED BY <1>1, <1>2, <1>5, <1>6, <1>7 DEF longer, t

\* A frame at the end of the file.
LEMMA FileAppend ==
  ASSUME disk \in Seq(Frames), NEW f \in Frames, disk' = Append(disk, f)
  PROVE  /\ disk' \in Seq(Frames) /\ Len(disk') = Len(disk) + 1 /\ disk'[Len(disk) + 1] = f
         /\ \A i \in 1..Len(disk) : disk'[i] = disk[i]
         /\ fileBytes' = fileBytes + frameBytes(f) /\ fileBytes \in Nat
<1>0. fileBytes = bytesOf(disk) /\ fileBytes' = bytesOf(disk')
  BY DEF fileBytes
<1>1. fileBytes = HeaderSize + F!fold(0, disk) /\ fileBytes' = HeaderSize + F!fold(0, disk')
  BY <1>0, BytesFold
<1>2. F!fold(0, disk') = F!fold(0, disk) + frameBytes(f) /\ F!fold(0, disk) \in Nat
  BY BytesAppend, BytesType
<1>3. frameBytes(f) \in Nat /\ HeaderSize \in Nat
  BY FrameBytes, JournalFileAssumption
<1>4. fileBytes' = fileBytes + frameBytes(f) /\ fileBytes \in Nat
  BY <1>1, <1>2, <1>3
<1>5. disk' \in Seq(Frames) /\ Len(disk') = Len(disk) + 1 /\ disk'[Len(disk) + 1] = f
  OBVIOUS
<1>6. \A i \in 1..Len(disk) : disk'[i] = disk[i]
  OBVIOUS
<1>. QED BY <1>4, <1>5, <1>6

\* The shapes of the variables.
LEMMA ShapeFacts ==
  ASSUME FileInv
  PROVE  /\ disk \in Seq(Frames) /\ Len(disk) \in Nat /\ \A i \in 1..Len(disk) : disk[i] \in Frames
         /\ submitted \in Seq(RecordType) /\ Len(submitted) \in Nat /\ Len(submitted) <= MaxRecords
         /\ chained(submitted) /\ \A i \in 1..Len(disk) : genuine(disk[i], submitted)
         /\ pane \in Panes /\ synced \in 0..Len(disk) /\ fed \in 0..Len(submitted)
         /\ fileBytes \in Nat
<1>1. /\ disk \in Seq(Frames) /\ submitted \in Seq(RecordType) /\ Len(submitted) \in 0..MaxRecords
      /\ pane \in Panes /\ synced \in 0..Len(disk) /\ fed \in 0..Len(submitted)
  BY DEF FileInv, Shapes
<1>2. Len(disk) \in Nat /\ Len(submitted) \in Nat /\ Len(submitted) <= MaxRecords
      /\ \A i \in 1..Len(disk) : disk[i] \in Frames
  BY <1>1, JournalFileAssumption
<1>3. fileBytes \in Nat
  <2>1. fileBytes = HeaderSize + F!fold(0, disk)
    BY BytesFold DEF fileBytes
  <2>2. F!fold(0, disk) \in Nat
    BY <1>1, BytesType
  <2>. QED BY <2>1, <2>2, JournalFileAssumption
<1>. QED BY <1>1, <1>2, <1>3 DEF FileInv, Written

\* What has to be shown of a step: the parts of FileInv.
LEMMA FileInvParts ==
  ASSUME Shapes', Written', Bytes', Live', View', Charges'
  PROVE  FileInv'
BY DEF FileInv

\* The end of the writer: its pane is invalidated, the file may have a torn frame
\* more, and nothing it had published moves.
LEMMA FailKeeps ==
  ASSUME FileInv, pc # "down", pane.state = "continuous",
         NEW p \in Panes, p.state = "continuous", p.sequence = pane.sequence, p.verified = pane.verified,
         p.committed = pane.committed, p.committedSequence = pane.committedSequence,
         p.realmCharge = pane.realmCharge, p.corrupt = pane.corrupt,
         NEW why \in StorageReasons, fails(p, why), p.physical >= fileBytes',
         \/ disk' = disk
         \/ \E f \in Frames : disk' = Append(disk, f) /\ f.type \in {"tornAppend", "tornCommit"},
         longer(submitted, submitted'), Len(submitted') <= MaxRecords,
         UNCHANGED <<synced, fed, damage, reopens>>
  PROVE  FileInv' /\ (Durable => Durable')
<1>1. /\ pane' \in Panes /\ pane'.state = "untrusted" /\ pane'.sequence = p.sequence
      /\ pane'.verified = p.verified /\ pane'.committed = p.committed
      /\ pane'.committedSequence = p.committedSequence /\ pane'.realmCharge = p.realmCharge
      /\ pane'.physical = p.physical /\ pane'.corrupt = p.corrupt /\ pc' = "idle" /\ failed' = TRUE
  BY InvalidatedIs DEF fails
<1>2. /\ disk \in Seq(Frames) /\ Len(disk) \in Nat /\ submitted \in Seq(RecordType) /\ Len(submitted) \in Nat
      /\ pane \in Panes /\ synced \in 0..Len(disk) /\ fed \in 0..Len(submitted)
      /\ \A i \in 1..Len(disk) : genuine(disk[i], submitted)
  BY ShapeFacts
<1>3. /\ submitted' \in Seq(RecordType) /\ Len(submitted') \in Nat /\ Len(submitted) <= Len(submitted')
      /\ chained(submitted')
  BY <1>2, LongerKeeps DEF longer
<1>4. /\ disk' \in Seq(Frames) /\ Len(disk') \in Nat /\ Len(disk) <= Len(disk') /\ Len(disk') <= Len(disk) + 1
      /\ \A i \in 1..Len(disk) : disk'[i] = disk[i]
      /\ \A i \in 1..Len(disk') : i > Len(disk) => disk'[i].type \in {"tornAppend", "tornCommit"}
  <2>1. CASE disk' = disk
    BY <1>2, <2>1
  <2>2. CASE \E f \in Frames : disk' = Append(disk, f) /\ f.type \in {"tornAppend", "tornCommit"}
    <3>1. PICK f \in Frames : disk' = Append(disk, f) /\ f.type \in {"tornAppend", "tornCommit"}
      BY <2>2
    <3>2. disk' \in Seq(Frames) /\ Len(disk') = Len(disk) + 1 /\ disk'[Len(disk) + 1] = f
          /\ \A i \in 1..Len(disk) : disk'[i] = disk[i]
      BY <1>2, <3>1, FileAppend
    <3>3. \A i \in 1..Len(disk') : i > Len(disk) => i = Len(disk) + 1
      BY <1>2, <3>2
    <3>. QED BY <1>2, <3>1, <3>2, <3>3
  <2>. QED BY <2>1, <2>2
<1>5. Shapes'
  <2>1. damage \in 0..MaxDamage /\ reopens \in 0..MaxReopens
    BY DEF FileInv, Shapes
  <2>2. Len(submitted') \in 0..MaxRecords
    BY <1>3, JournalFileAssumption
  <2>3. synced' \in 0..Len(disk') /\ fed' \in 0..Len(submitted')
    BY <1>2, <1>3, <1>4
  <2>. QED BY <1>1, <1>3, <1>4, <2>1, <2>2, <2>3 DEF Shapes
<1>6. Written'
  <2>1. ASSUME NEW i \in 1..Len(disk') PROVE genuine(disk'[i], submitted')
    <3>1. CASE i > Len(disk)
      <4>1. disk'[i].type \in {"tornAppend", "tornCommit"}
        BY <1>4, <3>1
      <4>. QED BY <4>1 DEF genuine
    <3>2. CASE ~(i > Len(disk))
      <4>1. i \in 1..Len(disk)
        BY <1>2, <1>4, <3>2
      <4>2. genuine(disk'[i], submitted)
        BY <1>2, <1>4, <4>1
      <4>. QED BY <1>2, <4>2, LongerKeeps
    <3>. QED BY <3>1, <3>2
  <2>. QED BY <1>3, <2>1 DEF Written
<1>7. Bytes'
  <2>1. ASSUME NEW i \in (synced + 1)..Len(disk'), disk'[i].type = "invalid" PROVE disk'[i].bytes >= 1
    <3>1. ~(i > Len(disk)) /\ i \in 1..Len(disk')
      BY <1>2, <1>4, <2>1
    <3>2. i \in (synced + 1)..Len(disk) /\ disk'[i] = disk[i]
      BY <1>2, <1>4, <3>1
    <3>. QED BY <2>1, <3>2 DEF FileInv, Bytes
  <2>. QED BY <2>1 DEF Bytes
<1>8. Live'
  BY <1>1 DEF Live, live
<1>9. View'
  <2>1. pane.verified.view \in Seq(RecordType) /\ Len(pane.verified.view) \in Nat
    <3>1. pane.verified \in Cursors
      BY <1>2, PaneFacts
    <3>. QED BY <3>1, CursorFacts
  <2>2. /\ begins(pane.verified.view, submitted)
        /\ pane.committedSequence = Len(pane.verified.view)
        /\ pane.committed = endAt(submitted, Len(pane.verified.view))
    BY DEF FileInv, View
  <2>3. Len(pane.verified.view) \in 0..Len(submitted)
    BY <2>1, <2>2 DEF begins
  <2>4. begins(pane.verified.view, submitted')
    BY <1>2, <2>1, <2>2, LongerKeeps
  <2>5. endAt(submitted', Len(pane.verified.view)) = endAt(submitted, Len(pane.verified.view))
    BY <1>2, <2>3, LongerKeeps
  <2>. QED BY <1>1, <2>2, <2>4, <2>5 DEF View
<1>10. Charges'
  <2>1. /\ pane.sequence <= Len(submitted) /\ pane.sequence \in Nat
        /\ ~pane.corrupt => pane.realmCharge = cost(SubSeq(submitted, 1, pane.sequence))
    BY <1>2, PaneFacts DEF FileInv, Charges
  <2>2. SubSeq(submitted', 1, pane.sequence) = SubSeq(submitted, 1, pane.sequence)
    BY <1>2, <2>1, LongerKeeps
  <2>3. fileBytes' \in Nat
    <3>1. fileBytes' = HeaderSize + F!fold(0, disk')
      BY BytesFold DEF fileBytes
    <3>2. F!fold(0, disk') \in Nat
      BY <1>4, BytesType
    <3>. QED BY <3>1, <3>2, JournalFileAssumption
  <2>4. pane'.physical >= fileBytes' + 0
    BY <1>1, <2>3
  <2>5. pane'.sequence <= Len(submitted')
    BY <1>1, <1>2, <1>3, <2>1
  <2>6. ~pane'.corrupt => pane'.realmCharge = cost(SubSeq(submitted', 1, pane'.sequence))
    BY <1>1, <2>1, <2>2
  <2>. QED BY <1>1, <2>4, <2>5, <2>6 DEF Charges
<1>11. ASSUME Durable PROVE Durable'
  <2>1. fed > 0 => \E d \in 1..synced : sealed(disk[d], fed) /\ \A i \in 1..d : firm(disk[i])
    BY <1>11 DEF Durable
  <2>2. ASSUME fed' > 0
        PROVE  \E d \in 1..(synced') : sealed(disk'[d], fed') /\ \A i \in 1..d : firm(disk'[i])
    <3>1. PICK d \in 1..synced : sealed(disk[d], fed) /\ \A i \in 1..d : firm(disk[i])
      BY <2>1, <2>2
    <3>2. disk'[d] = disk[d] /\ \A i \in 1..d : disk'[i] = disk[i]
      BY <1>2, <1>4
    <3>. QED BY <3>1, <3>2
  <2>3. ~pane.corrupt => fed <= pane.committedSequence
    BY <1>11 DEF Durable
  <2>. QED BY <1>1, <2>2, <2>3 DEF Durable, live
<1>. QED BY <1>5, <1>6, <1>7, <1>8, <1>9, <1>10, <1>11, FileInvParts

\* While the writer is alive its pane knows what was appended.
LEMMA LiveFacts ==
  ASSUME FileInv, live
  PROVE  /\ ~failed /\ ~pane.corrupt /\ pane.state = "continuous"
         /\ pane.sequence = Len(submitted) /\ pane.end = endAt(submitted, Len(submitted))
         /\ pane.last = recordAt(submitted, Len(submitted)) /\ pane.verified \in Cursors
         /\ pane.stored + (IF pc = "marked" THEN 1 ELSE 0) = Len(disk)
         /\ tracks(pane.verified, submitted)
         /\ pane.physical >= fileBytes + (IF pc \in {"appended", "synced"} THEN CommitFixed ELSE 0)
         /\ pane.realmCharge = cost(submitted)
<1>1. pane \in Panes /\ submitted \in Seq(RecordType)
  BY ShapeFacts
<1>2. /\ ~failed /\ ~pane.corrupt /\ pane.state = "continuous"
      /\ pane.sequence = Len(submitted) /\ pane.end = endAt(submitted, Len(submitted))
      /\ pane.last = recordAt(submitted, Len(submitted))
      /\ pane.stored + (IF pc = "marked" THEN 1 ELSE 0) = Len(disk)
      /\ tracks(pane.verified, submitted)
  BY DEF FileInv, Live, live
<1>3. /\ pane.physical >= fileBytes + (IF pc \in {"appended", "synced"} THEN CommitFixed ELSE 0)
      /\ pane.realmCharge = cost(SubSeq(submitted, 1, pane.sequence))
  BY <1>2 DEF FileInv, Charges, live
<1>4. SubSeq(submitted, 1, Len(submitted)) = submitted
  BY <1>1
<1>5. pane.verified \in Cursors
  BY <1>1, PaneFacts
<1>. QED BY <1>2, <1>3, <1>4, <1>5

\* A pane that has been charged for an append.
LEMMA ChargedPane ==
  ASSUME pane \in Panes, NEW r \in RecordType, NEW u, u = charged(r)
  PROVE  /\ u \in Panes /\ u.physical = pane.physical + physicalAppendCost(r)
         /\ u.state = pane.state /\ u.sequence = pane.sequence /\ u.verified = pane.verified
         /\ u.committed = pane.committed /\ u.committedSequence = pane.committedSequence
         /\ u.realmCharge = pane.realmCharge /\ u.corrupt = pane.corrupt
         /\ u.pending = pane.pending /\ u.stored = pane.stored /\ u.end = pane.end /\ u.last = pane.last
<1>. DEFINE x == pane.physical + physicalAppendCost(r)
            S == Seq(RecordType)
            K == [state : {"continuous", "untrusted", "legacy"},
                  reason : {"none", "ENOSPC", "corruptJournal", "volatileRestart"},
                  sequence : Nat, end : Nat, last : RecordType, pending : S, stored : Nat,
                  verified : Cursors, committed : Nat, committedSequence : Nat, realmCharge : Nat,
                  physical : Nat, corrupt : BOOLEAN]
<1>1. x \in Nat
  BY PaneFacts, RecordFacts
<1>2. u = [pane EXCEPT !.physical = x]
  BY DEF charged
<1>3. K = Panes
  BY DEF Panes
<1>. HIDE DEF S, x
<1>4. u \in K
  BY <1>1, <1>2, <1>3
<1>5. /\ u.physical = x
      /\ u.state = pane.state /\ u.sequence = pane.sequence /\ u.verified = pane.verified
      /\ u.committed = pane.committed /\ u.committedSequence = pane.committedSequence
      /\ u.realmCharge = pane.realmCharge /\ u.corrupt = pane.corrupt
      /\ u.pending = pane.pending /\ u.stored = pane.stored /\ u.end = pane.end /\ u.last = pane.last
  BY <1>2, <1>3
<1>. QED BY <1>3, <1>4, <1>5 DEF x

\* The pane after an append.
LEMMA AppendedPane ==
  ASSUME pane \in Panes, NEW r \in RecordType, writeRecord(r)
  PROVE  /\ pane' \in Panes /\ pane'.state = pane.state /\ pane'.corrupt = pane.corrupt
         /\ pane'.sequence = r.sequence /\ pane'.last = r /\ pane'.stored = pane.stored + 1
         /\ pane'.end = r.end /\ pane'.realmCharge = pane.realmCharge + logicalCost(r)
         /\ pane'.verified = pane.verified /\ pane'.committed = pane.committed
         /\ pane'.committedSequence = pane.committedSequence
         /\ pane'.physical = pane.physical + physicalAppendCost(r)
<1>. DEFINE u == charged(r)
            S == Seq(RecordType)
            K == [state : {"continuous", "untrusted", "legacy"},
                  reason : {"none", "ENOSPC", "corruptJournal", "volatileRestart"},
                  sequence : Nat, end : Nat, last : RecordType, pending : S, stored : Nat,
                  verified : Cursors, committed : Nat, committedSequence : Nat, realmCharge : Nat,
                  physical : Nat, corrupt : BOOLEAN]
            more == Append(u.pending, r)
            y == u.realmCharge + logicalCost(r)
            z == u.stored + 1
<1>1. K = Panes
  BY DEF Panes
<1>2. pane' = [u EXCEPT !.sequence = r.sequence, !.last = r, !.pending = more, !.stored = z,
                        !.end = r.end, !.realmCharge = y]
  BY DEF writeRecord
<1>3. /\ u \in Panes /\ u.physical = pane.physical + physicalAppendCost(r)
      /\ u.state = pane.state /\ u.sequence = pane.sequence /\ u.verified = pane.verified
      /\ u.committed = pane.committed /\ u.committedSequence = pane.committedSequence
      /\ u.realmCharge = pane.realmCharge /\ u.corrupt = pane.corrupt
      /\ u.stored = pane.stored
  BY ChargedPane
<1>. HIDE DEF u
<1>4. r.sequence \in Nat /\ r.end \in Nat
  BY RecordFacts
<1>5. more \in S /\ y \in Nat /\ z \in Nat
  <2>1. u.pending \in Seq(RecordType) /\ u.realmCharge \in Nat /\ u.stored \in Nat /\ logicalCost(r) \in Nat
    BY <1>3, PaneFacts, RecordFacts
  <2>. QED BY <2>1
<1>. HIDE DEF S, more, y, z
<1>6. pane' \in K
  BY <1>1, <1>2, <1>3, <1>4, <1>5
<1>7. /\ pane'.state = u.state /\ pane'.corrupt = u.corrupt
      /\ pane'.sequence = r.sequence /\ pane'.last = r /\ pane'.stored = z
      /\ pane'.end = r.end /\ pane'.realmCharge = y
      /\ pane'.verified = u.verified /\ pane'.committed = u.committed
      /\ pane'.committedSequence = u.committedSequence
      /\ pane'.physical = u.physical
  BY <1>1, <1>2, <1>3
<1>. QED BY <1>1, <1>3, <1>6, <1>7 DEF y, z

\* The view is kept by a step that keeps the pane's frontier and lengthens the history.
LEMMA ViewKeeps ==
  ASSUME FileInv, longer(submitted, submitted'), pane'.verified = pane.verified,
         pane'.committed = pane.committed, pane'.committedSequence = pane.committedSequence
  PROVE  View'
<1>1. submitted \in Seq(RecordType) /\ pane.verified \in Cursors
  BY ShapeFacts, PaneFacts
<1>2. pane.verified.view \in Seq(RecordType) /\ Len(pane.verified.view) \in Nat /\ Len(submitted) \in Nat
  BY <1>1, CursorFacts
<1>3. /\ begins(pane.verified.view, submitted)
      /\ pane.committedSequence = Len(pane.verified.view)
      /\ pane.committed = endAt(submitted, Len(pane.verified.view))
  BY DEF FileInv, View
<1>4. Len(pane.verified.view) \in 0..Len(submitted)
  BY <1>2, <1>3 DEF begins
<1>5. begins(pane.verified.view, submitted')
  BY <1>1, <1>2, <1>3, LongerKeeps
<1>6. endAt(submitted', Len(pane.verified.view)) = endAt(submitted, Len(pane.verified.view))
  BY <1>1, <1>4, LongerKeeps
<1>. QED BY <1>3, <1>5, <1>6 DEF View

\* The record that is appended next.
nextRecord(r) ==
  /\ r \in RecordType /\ r.kind \in {"output", "geometry"} /\ r.sequence = pane.sequence + 1
  /\ r.start = pane.end /\ r.end = r.start + Length(r)

\* A record whose frame is written whole.
LEMMA WriteKeeps ==
  ASSUME FileInv, mayAppend, NEW r, nextRecord(r), writeRecord(r)
  PROVE  FileInv' /\ (Durable => Durable')
<1>1. live /\ pc \in {"idle", "appended"} /\ Len(submitted) < MaxRecords
  BY DEF mayAppend, live
<1>2. /\ r \in RecordType /\ r.kind \in {"output", "geometry"} /\ r.sequence = Len(submitted) + 1
      /\ r.start = endAt(submitted, Len(submitted)) /\ r.end = r.start + Length(r)
  BY <1>1, LiveFacts DEF nextRecord
<1>3. /\ disk \in Seq(Frames) /\ Len(disk) \in Nat /\ submitted \in Seq(RecordType) /\ Len(submitted) \in Nat
      /\ pane \in Panes /\ synced \in 0..Len(disk) /\ fed \in 0..Len(submitted) /\ chained(submitted)
      /\ (\A i \in 1..Len(disk) : genuine(disk[i], submitted)) /\ fileBytes \in Nat
  BY ShapeFacts
<1>. DEFINE f == [type |-> "append", rec |-> r]
            a == physicalAppendCost(r)
            b == logicalCost(r)
<1>4. /\ disk' = Append(disk, f) /\ submitted' = Append(submitted, r) /\ pc' = "appended"
      /\ UNCHANGED <<synced, failed, fed, damage, reopens>>
  BY DEF writeRecord
<1>5. a \in Nat /\ b \in Nat /\ Length(r) \in Nat /\ f \in Frames /\ f.type = "append" /\ f.rec = r
  BY <1>2, RecordFacts, FrameMade
<1>6. a = AppendFixed + Length(r) + CommitFixed
  BY DEF physicalAppendCost
<1>7. frameBytes(f) = AppendFixed + Length(r)
  BY <1>5, FrameBytes
<1>. HIDE DEF f, b
<1>8. /\ pane' \in Panes /\ pane'.state = pane.state /\ pane'.corrupt = pane.corrupt
      /\ pane'.sequence = r.sequence /\ pane'.last = r /\ pane'.stored = pane.stored + 1
      /\ pane'.end = r.end /\ pane'.realmCharge = pane.realmCharge + b
      /\ pane'.verified = pane.verified /\ pane'.committed = pane.committed
      /\ pane'.committedSequence = pane.committedSequence /\ pane'.physical = pane.physical + a
  <2>1. pane \in Panes /\ r \in RecordType
    BY <1>2, <1>3
  <2>. QED BY <2>1, AppendedPane DEF b
<1>. HIDE DEF a
<1>9. /\ longer(submitted, submitted') /\ Len(submitted') = Len(submitted) + 1
      /\ recordAt(submitted', Len(submitted) + 1) = r /\ endAt(submitted', Len(submitted) + 1) = r.end
      /\ genuine(f, submitted')
  BY <1>2, <1>3, <1>4, LongerByOne DEF f
<1>10. /\ disk' \in Seq(Frames) /\ Len(disk') = Len(disk) + 1 /\ disk'[Len(disk) + 1] = f
       /\ \A i \in 1..Len(disk) : disk'[i] = disk[i]
       /\ fileBytes' = fileBytes + frameBytes(f)
  BY <1>3, <1>4, <1>5, FileAppend
<1>11. \A i \in 1..Len(disk') : i = Len(disk) + 1 \/ i \in 1..Len(disk)
  BY <1>3, <1>10
<1>12. submitted' \in Seq(RecordType) /\ chained(submitted')
  BY <1>9 DEF longer
<1>13. Shapes'
  <2>1. damage \in 0..MaxDamage /\ reopens \in 0..MaxReopens /\ failed \in BOOLEAN
    BY DEF FileInv, Shapes
  <2>2. Len(submitted') \in 0..MaxRecords
    BY <1>1, <1>3, <1>9, JournalFileAssumption
  <2>3. synced' \in 0..Len(disk') /\ fed' \in 0..Len(submitted')
    BY <1>3, <1>4, <1>9, <1>10
  <2>. QED BY <1>4, <1>8, <1>10, <1>12, <2>1, <2>2, <2>3 DEF Shapes
<1>14. Written'
  <2>1. ASSUME NEW i \in 1..Len(disk') PROVE genuine(disk'[i], submitted')
    <3>1. CASE i = Len(disk) + 1
      BY <1>9, <1>10, <3>1
    <3>2. CASE i \in 1..Len(disk)
      <4>1. genuine(disk'[i], submitted)
        BY <1>3, <1>10, <3>2
      <4>. QED BY <1>3, <1>9, <4>1, LongerKeeps
    <3>. QED BY <1>11, <3>1, <3>2
  <2>. QED BY <1>12, <2>1 DEF Written
<1>15. Bytes'
  <2>1. ASSUME NEW i \in (synced + 1)..Len(disk'), disk'[i].type = "invalid" PROVE disk'[i].bytes >= 1
    <3>1. i # Len(disk) + 1 /\ i \in 1..Len(disk')
      BY <1>3, <1>5, <1>10, <2>1
    <3>2. i \in (synced + 1)..Len(disk) /\ disk'[i] = disk[i]
      BY <1>3, <1>10, <1>11, <3>1
    <3>. QED BY <2>1, <3>2 DEF FileInv, Bytes
  <2>. QED BY <1>4, <2>1 DEF Bytes
<1>16. Live'
  <2>1. /\ ~failed /\ ~pane.corrupt /\ pane.state = "continuous" /\ tracks(pane.verified, submitted)
        /\ pane.stored = Len(disk) /\ pane.verified \in Cursors
    <3>1. pane.stored + (IF pc = "marked" THEN 1 ELSE 0) = Len(disk) /\ pane.stored \in Nat
      BY <1>1, <1>3, LiveFacts, PaneFacts
    <3>2. pane.stored = Len(disk)
      BY <1>1, <1>3, <3>1
    <3>. QED BY <1>1, <3>2, LiveFacts
  <2>2. tracks(pane.verified, submitted')
    BY <1>3, <1>9, <2>1, LongerKeeps
  <2>3. pane'.stored + 0 = Len(disk')
    BY <1>3, <1>8, <1>10, <2>1
  <2>4. pane'.sequence = Len(submitted') /\ pane'.end = endAt(submitted', Len(submitted'))
        /\ pane'.last = recordAt(submitted', Len(submitted'))
    BY <1>2, <1>8, <1>9
  <2>5. submitted' # <<>>
    BY <1>3, <1>9
  <2>. QED BY <1>4, <1>8, <2>1, <2>2, <2>3, <2>4, <2>5 DEF Live, live
<1>17. View'
  BY <1>8, <1>9, ViewKeeps
<1>18. Charges'
  <2>1. pane.physical >= fileBytes + (IF pc \in {"appended", "synced"} THEN CommitFixed ELSE 0)
        /\ pane.realmCharge = cost(submitted) /\ pane.physical \in Nat
    BY <1>1, <1>3, LiveFacts, PaneFacts
  <2>2. pane.physical >= fileBytes
    BY <1>3, <2>1, JournalFileAssumption
  <2>3. pane'.physical >= fileBytes' + CommitFixed
    <3>1. AppendFixed \in Nat /\ CommitFixed \in Nat
      BY JournalFileAssumption
    <3>2. pane'.physical = pane.physical + (AppendFixed + Length(r) + CommitFixed)
      BY <1>6, <1>8
    <3>3. fileBytes' = fileBytes + (AppendFixed + Length(r))
      BY <1>7, <1>10
    <3>. QED BY <1>3, <1>5, <2>1, <2>2, <3>1, <3>2, <3>3
  <2>4. SubSeq(submitted', 1, Len(submitted')) = submitted'
    BY <1>12
  <2>5. cost(submitted') = cost(submitted) + b
    BY <1>2, <1>3, <1>4, CostAppend DEF b
  <2>6. pane'.realmCharge = cost(SubSeq(submitted', 1, pane'.sequence)) /\ pane'.sequence = Len(submitted')
    BY <1>2, <1>8, <1>9, <2>1, <2>4, <2>5
  <2>7. pane'.sequence <= Len(submitted')
    BY <1>3, <1>9, <2>6
  <2>. QED BY <1>4, <2>3, <2>6, <2>7 DEF Charges
<1>19. ASSUME Durable PROVE Durable'
  <2>1. \A i \in 1..Len(disk) : firm(disk[i])
    BY <1>1, <1>19 DEF Durable
  <2>2. \A i \in 1..Len(disk') : firm(disk'[i])
    BY <1>5, <1>10, <1>11, <2>1 DEF firm
  <2>3. fed > 0 => \E d \in 1..synced : sealed(disk[d], fed) /\ \A i \in 1..d : firm(disk[i])
    BY <1>19 DEF Durable
  <2>4. ASSUME fed' > 0
        PROVE  \E d \in 1..(synced') : sealed(disk'[d], fed') /\ \A i \in 1..d : firm(disk'[i])
    <3>1. PICK d \in 1..synced : sealed(disk[d], fed) /\ \A i \in 1..d : firm(disk[i])
      BY <1>4, <2>3, <2>4
    <3>2. disk'[d] = disk[d] /\ \A i \in 1..d : disk'[i] = disk[i]
      BY <1>3, <1>10
    <3>. QED BY <1>4, <3>1, <3>2
  <2>5. fed <= pane.committedSequence
    <3>1. ~pane.corrupt /\ pc # "down"
      BY <1>1, LiveFacts DEF live
    <3>. QED BY <1>19, <3>1 DEF Durable
  <2>. QED BY <1>4, <1>8, <2>2, <2>4, <2>5 DEF Durable
<1>. QED BY <1>13, <1>14, <1>15, <1>16, <1>17, <1>18, <1>19, FileInvParts

\* A record whose write fails, with none of its frame or a part of it in the file.
LEMMA WriteFailKeeps ==
  ASSUME FileInv, mayAppend, NEW r, nextRecord(r), writeRecordFails(r)
  PROVE  FileInv' /\ (Durable => Durable')
<1>1. live /\ pc # "down" /\ pc \in {"idle", "appended"} /\ Len(submitted) < MaxRecords /\ pane.state = "continuous"
  BY DEF mayAppend, live
<1>2. /\ r \in RecordType /\ r.kind \in {"output", "geometry"} /\ r.sequence = Len(submitted) + 1
      /\ r.start = endAt(submitted, Len(submitted)) /\ r.end = r.start + Length(r)
  BY <1>1, LiveFacts DEF nextRecord
<1>3. /\ disk \in Seq(Frames) /\ submitted \in Seq(RecordType) /\ Len(submitted) \in Nat
      /\ pane \in Panes /\ chained(submitted) /\ fileBytes \in Nat
  BY ShapeFacts
<1>. DEFINE f == [type |-> "tornAppend", rec |-> r]
            u == charged(r)
<1>4. /\ disk' \in {disk, Append(disk, f)} /\ submitted' = Append(submitted, r)
      /\ UNCHANGED <<synced, fed, damage, reopens>>
  BY DEF writeRecordFails
<1>5. PICK why \in StorageReasons : fails(u, why)
  BY DEF writeRecordFails
<1>6. f \in Frames /\ f.type = "tornAppend" /\ f.rec = r
  BY <1>2, FrameMade
<1>7. /\ u \in Panes /\ u.physical = pane.physical + physicalAppendCost(r)
      /\ u.state = pane.state /\ u.sequence = pane.sequence /\ u.verified = pane.verified
      /\ u.committed = pane.committed /\ u.committedSequence = pane.committedSequence
      /\ u.realmCharge = pane.realmCharge /\ u.corrupt = pane.corrupt
  BY <1>2, <1>3, ChargedPane
<1>. HIDE DEF f, u
<1>8. longer(submitted, submitted') /\ Len(submitted') = Len(submitted) + 1
  BY <1>2, <1>3, <1>4, LongerByOne
<1>9. Len(submitted') <= MaxRecords
  BY <1>1, <1>3, <1>8, JournalFileAssumption
<1>10. u.physical >= fileBytes'
  <2>1. AppendFixed \in Nat /\ CommitFixed \in Nat /\ Length(r) \in Nat
    BY <1>2, RecordFacts, JournalFileAssumption
  <2>2. pane.physical >= fileBytes + (IF pc \in {"appended", "synced"} THEN CommitFixed ELSE 0)
    BY <1>1, LiveFacts
  <2>3. pane.physical \in Nat
    BY <1>3, PaneFacts
  <2>4. pane.physical >= fileBytes
    BY <1>3, <2>1, <2>2, <2>3
  <2>5. u.physical = pane.physical + (AppendFixed + Length(r) + CommitFixed)
    BY <1>7 DEF physicalAppendCost
  <2>6. CASE disk' = disk
    <3>1. fileBytes' = fileBytes
      BY <2>6 DEF fileBytes
    <3>. QED BY <1>3, <2>1, <2>3, <2>4, <2>5, <3>1
  <2>7. CASE disk' = Append(disk, f)
    <3>1. fileBytes' = fileBytes + frameBytes(f)
      BY <1>3, <1>6, <2>7, FileAppend
    <3>2. frameBytes(f) = AppendFixed + Length(r) - 1
      BY <1>6, FrameBytes
    <3>. QED BY <1>3, <2>1, <2>3, <2>4, <2>5, <3>1, <3>2
  <2>. QED BY <1>4, <2>6, <2>7
<1>11. \/ disk' = disk
       \/ \E g \in Frames : disk' = Append(disk, g) /\ g.type \in {"tornAppend", "tornCommit"}
  BY <1>4, <1>6
<1>. QED BY <1>1, <1>4, <1>5, <1>7, <1>8, <1>9, <1>10, <1>11, FailKeeps

\* An append is of the next record.
LEMMA AppendsRecord ==
  ASSUME FileInv, (\E p \in Payload : AppendOutput(p)) \/ (\E g \in Geometry : AppendGeometry(g))
  PROVE  \E r : nextRecord(r) /\ mayAppend /\ (writeRecord(r) \/ writeRecordFails(r))
<1>1. pane \in Panes
  BY ShapeFacts
<1>2. pane.sequence + 1 \in Nat /\ pane.end \in Nat
  BY <1>1, PaneFacts
<1>3. CASE \E p \in Payload : AppendOutput(p)
  <2>1. PICK p \in Payload : AppendOutput(p)
    BY <1>3
  <2>. DEFINE r == outputRecord(p)
              e == pane.end + PayloadLen[p]
  <2>2. PayloadLen[p] \in Nat
    BY JournalFileAssumption
  <2>3. r = [kind |-> "output", sequence |-> pane.sequence + 1, start |-> pane.end, end |-> e, hash |-> p]
        /\ e \in Nat
    BY <1>2, <2>2 DEF outputRecord
  <2>4. mayAppend /\ (writeRecord(r) \/ writeRecordFails(r))
    BY <2>1 DEF AppendOutput
  <2>5. r.end = r.start + Length(r)
    BY <2>3 DEF Length
  <2>. HIDE DEF e
  <2>6. r \in RecordType
    BY <1>2, <2>3 DEF RecordType, Records, Hashes
  <2>7. r.kind = "output" /\ r.sequence = pane.sequence + 1 /\ r.start = pane.end
    BY <2>3
  <2>. QED BY <2>4, <2>5, <2>6, <2>7 DEF nextRecord
<1>4. CASE \E g \in Geometry : AppendGeometry(g)
  <2>1. PICK g \in Geometry : AppendGeometry(g)
    BY <1>4
  <2>. DEFINE r == geometryRecord(g)
  <2>3. r = [kind |-> "geometry", sequence |-> pane.sequence + 1, start |-> pane.end, end |-> pane.end, hash |-> g]
    BY DEF geometryRecord
  <2>4. mayAppend /\ (writeRecord(r) \/ writeRecordFails(r))
    BY <2>1 DEF AppendGeometry
  <2>5. r.end = r.start + Length(r)
    BY <1>2, <2>3 DEF Length
  <2>6. r \in RecordType
    BY <1>2, <2>3 DEF RecordType, Records, Hashes
  <2>7. r.kind = "geometry" /\ r.sequence = pane.sequence + 1 /\ r.start = pane.end
    BY <2>3
  <2>. QED BY <2>4, <2>5, <2>6, <2>7 DEF nextRecord
<1>. QED BY <1>3, <1>4

\* An output, and a geometry.
LEMMA AppendKeeps ==
  ASSUME FileInv, (\E p \in Payload : AppendOutput(p)) \/ (\E g \in Geometry : AppendGeometry(g))
  PROVE  FileInv' /\ (Durable => Durable')
BY AppendsRecord, WriteKeeps, WriteFailKeeps

\* The pane's physical charge covers the file while the writer is alive.
LEMMA LiveCharge ==
  ASSUME FileInv, live
  PROVE  pane.physical >= fileBytes
<1>1. pane.physical >= fileBytes + (IF pc \in {"appended", "synced"} THEN CommitFixed ELSE 0)
  BY LiveFacts
<1>2. fileBytes \in Nat /\ pane.physical \in Nat /\ CommitFixed \in Nat
  BY ShapeFacts, PaneFacts, JournalFileAssumption
<1>. QED BY <1>1, <1>2

\* A storage call that fails and leaves the file as it was.
LEMMA FailInPlace ==
  ASSUME FileInv, pc # "down", pane.state = "continuous", NEW why \in StorageReasons, fails(pane, why),
         UNCHANGED <<disk, submitted, synced, fed, damage, reopens>>
  PROVE  FileInv' /\ (Durable => Durable')
<1>1. /\ pane \in Panes /\ submitted \in Seq(RecordType) /\ chained(submitted)
      /\ Len(submitted) <= MaxRecords
  BY ShapeFacts
<1>2. longer(submitted, submitted') /\ Len(submitted') <= MaxRecords
  BY <1>1, LongerSame
<1>3. pane.physical >= fileBytes'
  <2>1. fileBytes' = fileBytes
    BY DEF fileBytes
  <2>. QED BY <2>1, LiveCharge DEF live
<1>. QED BY <1>1, <1>2, <1>3, FailKeeps

\* The parts of the invariant that a step keeps which moves only the writer's place.
LEMMA SyncKeeps ==
  ASSUME FileInv, Sync
  PROVE  FileInv' /\ (Durable => Durable')
<1>1. pc = "appended" /\ pane.state = "continuous" /\ live
      /\ UNCHANGED <<disk, submitted, fed, damage, reopens>>
  BY DEF Sync, live
<1>2. CASE \E why \in StorageReasons : fails(pane, why) /\ UNCHANGED synced
  BY <1>1, <1>2, FailInPlace
<1>3. CASE synced' = Len(disk) /\ pc' = "synced" /\ UNCHANGED <<pane, failed>>
  <2>1. Len(disk) \in Nat /\ synced \in 0..Len(disk)
    BY ShapeFacts
  <2>2. Shapes'
    BY <1>1, <1>3, <2>1 DEF FileInv, Shapes
  <2>3. Written'
    BY <1>1 DEF FileInv, Written
  <2>4. Bytes'
    BY <1>1, <1>3, <2>1 DEF Bytes
  <2>5. Live'
    <3>1. /\ ~failed /\ ~pane.corrupt /\ pane.state = "continuous"
          /\ pane.sequence = Len(submitted) /\ pane.end = endAt(submitted, Len(submitted))
          /\ pane.last = recordAt(submitted, Len(submitted))
          /\ pane.stored + (IF pc = "marked" THEN 1 ELSE 0) = Len(disk)
          /\ tracks(pane.verified, submitted)
      BY <1>1, LiveFacts
    <3>2. submitted # <<>>
      BY <1>1 DEF FileInv, Live
    <3>. QED BY <1>1, <1>3, <3>1, <3>2 DEF Live, live
  <2>6. View'
    BY <1>1, <1>3 DEF FileInv, View
  <2>7. Charges'
    <3>1. fileBytes' = fileBytes
      BY <1>1 DEF fileBytes
    <3>2. /\ pane.physical >= fileBytes + (IF pc \in {"appended", "synced"} THEN CommitFixed ELSE 0)
          /\ pane.sequence <= Len(submitted)
          /\ ~pane.corrupt => pane.realmCharge = cost(SubSeq(submitted, 1, pane.sequence))
      BY <1>1 DEF FileInv, Charges
    <3>. QED BY <1>1, <1>3, <3>1, <3>2 DEF Charges
  <2>8. ASSUME Durable PROVE Durable'
    <3>1. \A i \in 1..Len(disk) : firm(disk[i])
      BY <1>1, <2>8 DEF Durable
    <3>2. ASSUME fed > 0 PROVE \E d \in 1..Len(disk) : sealed(disk[d], fed) /\ \A i \in 1..d : firm(disk[i])
      <4>1. PICK d \in 1..synced : sealed(disk[d], fed) /\ \A i \in 1..d : firm(disk[i])
        BY <2>8, <3>2 DEF Durable
      <4>. QED BY <2>1, <4>1
    <3>3. ~pane.corrupt => fed <= pane.committedSequence
      BY <1>1, <2>8 DEF Durable
    <3>. QED BY <1>1, <1>3, <3>1, <3>2, <3>3 DEF Durable, live
  <2>. QED BY <2>2, <2>3, <2>4, <2>5, <2>6, <2>7, <2>8, FileInvParts
<1>. QED BY <1>2, <1>3 DEF Sync

\* The commit frame is written.
LEMMA WriteCommitKeeps ==
  ASSUME FileInv, WriteCommit
  PROVE  FileInv' /\ (Durable => Durable')
<1>. DEFINE f == [type |-> "commit", rec |-> pane.last]
            g == [type |-> "tornCommit", rec |-> pane.last]
<1>1. pc = "synced" /\ pane.state = "continuous" /\ live
      /\ UNCHANGED <<synced, submitted, fed, damage, reopens>>
  BY DEF WriteCommit, live
<1>2. /\ disk \in Seq(Frames) /\ Len(disk) \in Nat /\ submitted \in Seq(RecordType) /\ Len(submitted) \in Nat
      /\ pane \in Panes /\ synced \in 0..Len(disk) /\ chained(submitted) /\ fileBytes \in Nat
      /\ Len(submitted) <= MaxRecords /\ \A i \in 1..Len(disk) : genuine(disk[i], submitted)
  BY ShapeFacts
<1>3. /\ ~failed /\ ~pane.corrupt /\ pane.last = recordAt(submitted, Len(submitted))
      /\ pane.sequence = Len(submitted) /\ pane.end = endAt(submitted, Len(submitted))
      /\ pane.stored = Len(disk) /\ tracks(pane.verified, submitted)
      /\ pane.physical >= fileBytes + CommitFixed
  <2>1. /\ pane.stored + (IF pc = "marked" THEN 1 ELSE 0) = Len(disk) /\ pane.stored \in Nat
        /\ pane.physical >= fileBytes + (IF pc \in {"appended", "synced"} THEN CommitFixed ELSE 0)
    BY <1>1, <1>2, LiveFacts, PaneFacts
  <2>2. pane.stored = Len(disk)
    BY <1>1, <2>1
  <2>3. pane.physical >= fileBytes + CommitFixed
    BY <1>1, <2>1
  <2>. QED BY <1>1, <2>2, <2>3, LiveFacts
<1>4. /\ pane.last \in RecordType /\ pane.last.sequence = Len(submitted)
  BY <1>2, <1>3, ChainFacts
<1>5. /\ f \in Frames /\ g \in Frames /\ f.type = "commit" /\ f.rec = pane.last /\ g.type = "tornCommit"
  BY <1>4, FrameMade
<1>6. \/ disk' = Append(disk, f) /\ pc' = "marked" /\ UNCHANGED <<pane, failed>>
      \/ disk' \in {disk, Append(disk, g)} /\ fails(pane, "ENOSPC")
  BY DEF WriteCommit
<1>7. CommitFixed \in Nat /\ CommitFixed >= 1 /\ pane.physical \in Nat
  BY <1>2, PaneFacts, JournalFileAssumption
<1>. HIDE DEF f, g
<1>8. CASE disk' \in {disk, Append(disk, g)} /\ fails(pane, "ENOSPC")
  <2>1. pane.physical >= fileBytes'
    <3>1. CASE disk' = disk
      <4>1. fileBytes' = fileBytes
        BY <3>1 DEF fileBytes
      <4>. QED BY <1>1, <4>1, LiveCharge
    <3>2. CASE disk' = Append(disk, g)
      <4>1. fileBytes' = fileBytes + frameBytes(g)
        BY <1>2, <1>5, <3>2, FileAppend
      <4>2. frameBytes(g) = CommitFixed - 1
        BY <1>5, FrameBytes
      <4>. QED BY <1>2, <1>3, <1>7, <4>1, <4>2
    <3>. QED BY <1>8, <3>1, <3>2
  <2>2. longer(submitted, submitted') /\ Len(submitted') <= MaxRecords
    BY <1>1, <1>2, LongerSame
  <2>3. \/ disk' = disk
        \/ \E h \in Frames : disk' = Append(disk, h) /\ h.type \in {"tornAppend", "tornCommit"}
    BY <1>5, <1>8
  <2>4. "ENOSPC" \in StorageReasons /\ fails(pane, "ENOSPC") /\ pc # "down"
    BY <1>1, <1>8 DEF StorageReasons
  <2>. QED BY <1>1, <1>2, <2>1, <2>2, <2>3, <2>4, FailKeeps
<1>9. CASE disk' = Append(disk, f) /\ pc' = "marked" /\ UNCHANGED <<pane, failed>>
  <2>1. /\ disk' \in Seq(Frames) /\ Len(disk') = Len(disk) + 1 /\ disk'[Len(disk) + 1] = f
        /\ \A i \in 1..Len(disk) : disk'[i] = disk[i]
        /\ fileBytes' = fileBytes + frameBytes(f)
    BY <1>2, <1>5, <1>9, FileAppend
  <2>2. \A i \in 1..Len(disk') : i = Len(disk) + 1 \/ i \in 1..Len(disk)
    BY <1>2, <2>1
  <2>3. frameBytes(f) = CommitFixed
    BY <1>5, FrameBytes
  <2>4. Shapes'
    <3>1. synced' \in 0..Len(disk')
      BY <1>1, <1>2, <2>1
    <3>. QED BY <1>1, <1>9, <2>1, <3>1 DEF FileInv, Shapes
  <2>5. Written'
    <3>1. genuine(f, submitted)
      <4>1. Len(submitted) # 0
        <5>1. submitted # <<>>
          BY <1>1 DEF FileInv, Live
        <5>. QED BY <1>2, <5>1
      <4>2. pane.last = submitted[Len(submitted)]
        BY <1>3, <4>1 DEF recordAt
      <4>. QED BY <1>2, <1>4, <1>5, <4>1, <4>2 DEF genuine
    <3>2. \A i \in 1..Len(disk') : genuine(disk'[i], submitted)
      BY <1>2, <2>1, <2>2, <3>1
    <3>. QED BY <1>1, <1>2, <3>2 DEF Written
  <2>6. Bytes'
    <3>1. ASSUME NEW i \in (synced + 1)..Len(disk'), disk'[i].type = "invalid" PROVE disk'[i].bytes >= 1
      <4>1. i # Len(disk) + 1 /\ i \in 1..Len(disk')
        BY <1>2, <1>5, <2>1, <3>1
      <4>2. i \in (synced + 1)..Len(disk) /\ disk'[i] = disk[i]
        BY <1>2, <2>1, <2>2, <4>1
      <4>. QED BY <3>1, <4>2 DEF FileInv, Bytes
    <3>. QED BY <1>1, <3>1 DEF Bytes
  <2>7. Live'
    <3>1. pane.stored + 1 = Len(disk')
      BY <1>3, <2>1
    <3>2. submitted # <<>>
      BY <1>1 DEF FileInv, Live
    <3>. QED BY <1>1, <1>3, <1>9, <3>1, <3>2 DEF Live, live
  <2>8. View'
    BY <1>1, <1>9 DEF FileInv, View
  <2>9. Charges'
    <3>1. pane.physical >= fileBytes' + 0
      BY <1>2, <1>3, <1>7, <2>1, <2>3
    <3>2. /\ pane.sequence <= Len(submitted)
          /\ ~pane.corrupt => pane.realmCharge = cost(SubSeq(submitted, 1, pane.sequence))
      BY <1>1 DEF FileInv, Charges
    <3>. QED BY <1>1, <1>9, <3>1, <3>2 DEF Charges
  <2>10. ASSUME Durable PROVE Durable'
    <3>1. \A i \in 1..Len(disk) : firm(disk[i])
      BY <1>1, <2>10 DEF Durable
    <3>2. firm(f) /\ sealed(f, Len(submitted))
      BY <1>4, <1>5 DEF firm, sealed
    <3>3. \A i \in 1..Len(disk') : firm(disk'[i])
      BY <2>1, <2>2, <3>1, <3>2
    <3>4. disk' # <<>> /\ sealed(disk'[Len(disk')], Len(submitted'))
      BY <1>1, <1>2, <2>1, <3>2
    <3>5. ASSUME fed > 0 PROVE \E d \in 1..synced : sealed(disk'[d], fed) /\ \A i \in 1..d : firm(disk'[i])
      <4>1. PICK d \in 1..synced : sealed(disk[d], fed) /\ \A i \in 1..d : firm(disk[i])
        BY <2>10, <3>5 DEF Durable
      <4>2. disk'[d] = disk[d] /\ \A i \in 1..d : disk'[i] = disk[i]
        BY <1>2, <2>1
      <4>. QED BY <4>1, <4>2
    <3>6. ~pane.corrupt => fed <= pane.committedSequence
      BY <1>1, <2>10 DEF Durable
    <3>. QED BY <1>1, <1>9, <3>3, <3>4, <3>5, <3>6 DEF Durable
  <2>. QED BY <2>4, <2>5, <2>6, <2>7, <2>8, <2>9, <2>10, FileInvParts
<1>. QED BY <1>6, <1>8, <1>9

\* A pane with one frame more stored.
LEMMA StoredPane ==
  ASSUME NEW p \in Panes, NEW q, q = [p EXCEPT !.stored = @ + 1]
  PROVE  /\ q \in Panes /\ q.stored = p.stored + 1 /\ q.state = p.state /\ q.corrupt = p.corrupt
         /\ q.sequence = p.sequence /\ q.last = p.last /\ q.end = p.end /\ q.realmCharge = p.realmCharge
         /\ q.verified = p.verified /\ q.committed = p.committed
         /\ q.committedSequence = p.committedSequence /\ q.physical = p.physical
<1>. DEFINE z == p.stored + 1
            S == Seq(RecordType)
            K == [state : {"continuous", "untrusted", "legacy"},
                  reason : {"none", "ENOSPC", "corruptJournal", "volatileRestart"},
                  sequence : Nat, end : Nat, last : RecordType, pending : S, stored : Nat,
                  verified : Cursors, committed : Nat, committedSequence : Nat, realmCharge : Nat,
                  physical : Nat, corrupt : BOOLEAN]
<1>1. z \in Nat
  BY PaneFacts
<1>2. K = Panes
  BY DEF Panes
<1>3. q = [p EXCEPT !.stored = z]
  OBVIOUS
<1>. HIDE DEF S, z
<1>4. q \in K
  BY <1>1, <1>2, <1>3
<1>5. /\ q.stored = z /\ q.state = p.state /\ q.corrupt = p.corrupt
      /\ q.sequence = p.sequence /\ q.last = p.last /\ q.end = p.end /\ q.realmCharge = p.realmCharge
      /\ q.verified = p.verified /\ q.committed = p.committed
      /\ q.committedSequence = p.committedSequence /\ q.physical = p.physical
  BY <1>2, <1>3
<1>. QED BY <1>2, <1>4, <1>5 DEF z

\* The commit frame is flushed.
LEMMA SyncCommitKeeps ==
  ASSUME FileInv, SyncCommit
  PROVE  FileInv' /\ (Durable => Durable')
<1>1. pc = "marked" /\ live /\ pane.state = "continuous" /\ submitted # <<>>
      /\ UNCHANGED <<disk, submitted, fed, damage, reopens>>
  BY DEF SyncCommit, live, FileInv, Live
<1>2. CASE fails(pane, "ENOSPC") /\ UNCHANGED synced
  <2>1. "ENOSPC" \in StorageReasons /\ pc # "down"
    BY <1>1 DEF StorageReasons
  <2>. QED BY <1>1, <1>2, <2>1, FailInPlace
<1>3. CASE synced' = Len(disk) /\ pane' = [pane EXCEPT !.stored = @ + 1] /\ pc' = "durable" /\ UNCHANGED failed
  <2>1. /\ Len(disk) \in Nat /\ synced \in 0..Len(disk) /\ pane \in Panes /\ submitted \in Seq(RecordType)
        /\ chained(submitted)
    BY ShapeFacts
  <2>2. /\ pane' \in Panes /\ pane'.stored = pane.stored + 1 /\ pane'.state = pane.state
        /\ pane'.corrupt = pane.corrupt /\ pane'.sequence = pane.sequence /\ pane'.last = pane.last
        /\ pane'.end = pane.end /\ pane'.realmCharge = pane.realmCharge
        /\ pane'.verified = pane.verified /\ pane'.committed = pane.committed
        /\ pane'.committedSequence = pane.committedSequence /\ pane'.physical = pane.physical
    BY <1>3, <2>1, StoredPane
  <2>3. Shapes'
    BY <1>1, <1>3, <2>1, <2>2 DEF FileInv, Shapes
  <2>4. Written'
    BY <1>1 DEF FileInv, Written
  <2>5. Bytes'
    BY <1>1, <1>3, <2>1 DEF Bytes
  <2>6. Live'
    <3>1. /\ ~failed /\ ~pane.corrupt
          /\ pane.sequence = Len(submitted) /\ pane.end = endAt(submitted, Len(submitted))
          /\ pane.last = recordAt(submitted, Len(submitted))
          /\ pane.stored + (IF pc = "marked" THEN 1 ELSE 0) = Len(disk)
          /\ tracks(pane.verified, submitted) /\ pane.stored \in Nat
      BY <1>1, <2>1, LiveFacts, PaneFacts
    <3>2. pane'.stored + 0 = Len(disk)
      BY <1>1, <2>1, <2>2, <3>1
    <3>. QED BY <1>1, <1>3, <2>2, <3>1, <3>2 DEF Live, live
  <2>7. View'
    <3>1. longer(submitted, submitted')
      BY <1>1, <2>1, LongerSame
    <3>. QED BY <2>2, <3>1, ViewKeeps
  <2>8. Charges'
    <3>1. fileBytes' = fileBytes
      BY <1>1 DEF fileBytes
    <3>2. /\ pane.physical >= fileBytes + 0
          /\ pane.sequence <= Len(submitted)
          /\ ~pane.corrupt => pane.realmCharge = cost(SubSeq(submitted, 1, pane.sequence))
      BY <1>1 DEF FileInv, Charges
    <3>. QED BY <1>1, <1>3, <2>2, <3>1, <3>2 DEF Charges
  <2>9. ASSUME Durable PROVE Durable'
    <3>1. /\ \A i \in 1..Len(disk) : firm(disk[i])
          /\ disk # <<>> /\ sealed(disk[Len(disk)], Len(submitted))
      BY <1>1, <2>9 DEF Durable
    <3>2. ASSUME fed > 0 PROVE \E d \in 1..Len(disk) : sealed(disk[d], fed) /\ \A i \in 1..d : firm(disk[i])
      <4>1. PICK d \in 1..synced : sealed(disk[d], fed) /\ \A i \in 1..d : firm(disk[i])
        BY <2>9, <3>2 DEF Durable
      <4>. QED BY <2>1, <4>1
    <3>3. ~pane.corrupt => fed <= pane.committedSequence
      BY <1>1, <2>9 DEF Durable
    <3>. QED BY <1>1, <1>3, <2>2, <3>1, <3>2, <3>3 DEF Durable, live
  <2>. QED BY <2>3, <2>4, <2>5, <2>6, <2>7, <2>8, <2>9, FileInvParts
<1>. QED BY <1>2, <1>3 DEF SyncCommit

\* A pane whose frontier has moved.
LEMMA PublishedPane ==
  ASSUME pane \in Panes, NEW c \in Cursors,
         pane' = [pane EXCEPT !.verified = c, !.committed = c.committed,
                              !.committedSequence = c.committedSequence, !.pending = <<>>]
  PROVE  /\ pane' \in Panes /\ pane'.stored = pane.stored /\ pane'.state = pane.state /\ pane'.corrupt = pane.corrupt
         /\ pane'.sequence = pane.sequence /\ pane'.last = pane.last /\ pane'.end = pane.end /\ pane'.realmCharge = pane.realmCharge
         /\ pane'.verified = c /\ pane'.committed = c.committed
         /\ pane'.committedSequence = c.committedSequence /\ pane'.physical = pane.physical
<1>. DEFINE S == Seq(RecordType)
            K == [state : {"continuous", "untrusted", "legacy"},
                  reason : {"none", "ENOSPC", "corruptJournal", "volatileRestart"},
                  sequence : Nat, end : Nat, last : RecordType, pending : S, stored : Nat,
                  verified : Cursors, committed : Nat, committedSequence : Nat, realmCharge : Nat,
                  physical : Nat, corrupt : BOOLEAN]
<1>1. c.committed \in Nat /\ c.committedSequence \in Nat /\ <<>> \in S
  BY CursorFacts
<1>2. K = Panes
  BY DEF Panes
<1>. HIDE DEF S
<1>4. pane' \in K
  BY <1>1, <1>2
<1>5. /\ pane'.stored = pane.stored /\ pane'.state = pane.state /\ pane'.corrupt = pane.corrupt
      /\ pane'.sequence = pane.sequence /\ pane'.last = pane.last /\ pane'.end = pane.end /\ pane'.realmCharge = pane.realmCharge
      /\ pane'.verified = c /\ pane'.committed = c.committed
      /\ pane'.committedSequence = c.committedSequence /\ pane'.physical = pane.physical
  BY <1>2
<1>. QED BY <1>2, <1>4, <1>5

\* What the readback finds, whether or not it is accepted.
LEMMA ReadbackIs ==
  ASSUME FileInv, pc = "durable", NEW v, v = verifyCommitted(pane, pane.last)
  PROVE  /\ v.cursor \in Cursors /\ tracks(v.cursor, submitted)
         /\ pane.verified.committedSequence <= v.cursor.committedSequence
         /\ v.accepted => v.cursor.committedSequence = Len(submitted)
<1>1. live /\ pane.state = "continuous"
  BY DEF FileInv, Live, live
<1>2. /\ disk \in Seq(Frames) /\ Len(disk) \in Nat /\ submitted \in Seq(RecordType) /\ Len(submitted) \in Nat
      /\ chained(submitted) /\ pane \in Panes /\ \A i \in 1..Len(disk) : genuine(disk[i], submitted)
  BY ShapeFacts
<1>3. /\ pane.verified \in Cursors /\ tracks(pane.verified, submitted)
      /\ pane.last = recordAt(submitted, Len(submitted)) /\ pane.stored = Len(disk)
  <2>1. pane.stored + (IF pc = "marked" THEN 1 ELSE 0) = Len(disk) /\ pane.stored \in Nat
    BY <1>1, <1>2, LiveFacts, PaneFacts
  <2>2. pane.stored = Len(disk)
    BY <2>1
  <2>. QED BY <1>1, <2>2, LiveFacts
<1>. DEFINE k == pane.verified.frames
            fr == SubSeq(disk, k + 1, pane.stored)
            r == scanFrames(pane.verified, fr)
<1>4. fr \in Seq(Frames) /\ \A i \in 1..Len(fr) : genuine(fr[i], submitted)
  <2>1. k \in Nat
    BY <1>3, CursorFacts
  <2>2. /\ fr \in Seq(Frames)
        /\ Len(fr) = IF k + 1 <= Len(disk) THEN Len(disk) - k ELSE 0
        /\ \A i \in 1..Len(fr) : fr[i] = disk[k + i]
    <3>. HIDE DEF k
    <3>1. fr = SubSeq(disk, k + 1, Len(disk))
      BY <1>3
    <3>. HIDE DEF fr
    <3>2. fr \in Seq(Frames)
      BY <1>2, <2>1, <3>1
    <3>3. Len(fr) = IF k + 1 <= Len(disk) THEN Len(disk) - k ELSE 0
      BY <1>2, <2>1, <3>1
    <3>4. \A i \in 1..Len(fr) : fr[i] = disk[k + i]
      BY <1>2, <2>1, <3>1
    <3>. QED BY <3>2, <3>3, <3>4
  <2>. HIDE DEF fr, k
  <2>3. ASSUME NEW i \in 1..Len(fr) PROVE genuine(fr[i], submitted)
    <3>1. k + i \in 1..Len(disk)
      BY <1>2, <2>1, <2>2, <2>3
    <3>. QED BY <1>2, <2>2, <3>1
  <2>. QED BY <2>2, <2>3
<1>. HIDE DEF fr
<1>5. scanned(r, pane.verified, fr, submitted, 0)
  BY <1>2, <1>3, <1>4, ScanReads
<1>. HIDE DEF r
<1>6. r.cursor \in Cursors /\ tracks(r.cursor, submitted)
      /\ pane.verified.committedSequence <= r.cursor.committedSequence
  BY <1>5 DEF scanned, Results
<1>7. v.cursor = r.cursor /\ (v.accepted => r.cursor.committedSequence = pane.last.sequence)
  BY DEF verifyCommitted, r, fr, k
<1>8. pane.last.sequence = Len(submitted)
  BY <1>2, <1>3, ChainFacts
<1>. QED BY <1>6, <1>7, <1>8

\* The readback.
LEMMA VerifyKeeps ==
  ASSUME FileInv, VerifyCommitted
  PROVE  FileInv' /\ (Durable => Durable')
<1>1. pc = "durable" /\ live /\ pane.state = "continuous" /\ submitted # <<>>
      /\ UNCHANGED <<disk, synced, submitted, fed, damage, reopens>>
  BY DEF VerifyCommitted, live, FileInv, Live
<1>. DEFINE v == verifyCommitted(pane, pane.last)
            c == v.cursor
<1>2. \/ /\ v.accepted
         /\ pane' = [pane EXCEPT !.verified = c, !.committed = c.committed,
                                 !.committedSequence = c.committedSequence, !.pending = <<>>]
         /\ pc' = "verified"
         /\ UNCHANGED failed
      \/ fails(pane, "corruptJournal")
  BY DEF VerifyCommitted
<1>3. /\ c \in Cursors /\ tracks(c, submitted)
      /\ pane.verified.committedSequence <= c.committedSequence
      /\ v.accepted => c.committedSequence = Len(submitted)
  BY <1>1, ReadbackIs
<1>. HIDE DEF v
<1>4. CASE fails(pane, "corruptJournal")
  <2>1. "corruptJournal" \in StorageReasons /\ pc # "down"
    BY <1>1 DEF StorageReasons
  <2>. QED BY <1>1, <1>4, <2>1, FailInPlace
<1>5. CASE /\ v.accepted
           /\ pane' = [pane EXCEPT !.verified = c, !.committed = c.committed,
                                   !.committedSequence = c.committedSequence, !.pending = <<>>]
           /\ pc' = "verified"
           /\ UNCHANGED failed
  <2>. HIDE DEF c
  <2>1. /\ Len(disk) \in Nat /\ synced \in 0..Len(disk) /\ pane \in Panes /\ submitted \in Seq(RecordType)
        /\ chained(submitted) /\ Len(submitted) \in Nat
    BY ShapeFacts
  <2>2. /\ pane' \in Panes /\ pane'.stored = pane.stored /\ pane'.state = pane.state
        /\ pane'.corrupt = pane.corrupt /\ pane'.sequence = pane.sequence /\ pane'.last = pane.last
        /\ pane'.end = pane.end /\ pane'.realmCharge = pane.realmCharge
        /\ pane'.verified = c /\ pane'.committed = c.committed
        /\ pane'.committedSequence = c.committedSequence /\ pane'.physical = pane.physical
    <3>1. pane \in Panes /\ c \in Cursors
      BY <1>3, <2>1
    <3>2. pane' = [pane EXCEPT !.verified = c, !.committed = c.committed,
                               !.committedSequence = c.committedSequence, !.pending = <<>>]
      BY <1>5
    <3>. QED BY <3>1, <3>2, PublishedPane
  <2>3. Shapes'
    BY <1>1, <1>5, <2>1, <2>2 DEF FileInv, Shapes
  <2>4. Written'
    BY <1>1 DEF FileInv, Written
  <2>5. Bytes'
    BY <1>1 DEF FileInv, Bytes
  <2>6. Live'
    <3>1. /\ ~failed /\ ~pane.corrupt
          /\ pane.sequence = Len(submitted) /\ pane.end = endAt(submitted, Len(submitted))
          /\ pane.last = recordAt(submitted, Len(submitted))
          /\ pane.stored + (IF pc = "marked" THEN 1 ELSE 0) = Len(disk)
      BY <1>1, LiveFacts
    <3>. QED BY <1>1, <1>3, <1>5, <2>2, <3>1 DEF Live, live
  <2>7. View'
    <3>1. begins(c.view, submitted) /\ c.committedSequence = Len(c.view) /\ c.committed = endAt(submitted, Len(c.view))
      BY <1>3 DEF tracks
    <3>. QED BY <1>1, <2>2, <3>1 DEF View
  <2>8. Charges'
    <3>1. fileBytes' = fileBytes
      BY <1>1 DEF fileBytes
    <3>2. /\ pane.physical >= fileBytes + 0
          /\ pane.sequence <= Len(submitted)
          /\ ~pane.corrupt => pane.realmCharge = cost(SubSeq(submitted, 1, pane.sequence))
      BY <1>1 DEF FileInv, Charges
    <3>. QED BY <1>1, <1>5, <2>2, <3>1, <3>2 DEF Charges
  <2>9. ASSUME Durable PROVE Durable'
    <3>1. /\ \A i \in 1..Len(disk) : firm(disk[i])
          /\ disk # <<>> /\ sealed(disk[Len(disk)], Len(submitted)) /\ synced = Len(disk)
          /\ fed > 0 => \E d \in 1..synced : sealed(disk[d], fed) /\ \A i \in 1..d : firm(disk[i])
      BY <1>1, <2>9 DEF Durable
    <3>2. fed <= pane'.committedSequence
      <4>1. fed \in 0..Len(submitted)
        BY ShapeFacts
      <4>. QED BY <1>3, <1>5, <2>1, <2>2, <4>1
    <3>. QED BY <1>1, <1>3, <1>5, <2>2, <3>1, <3>2 DEF Durable, live
  <2>. QED BY <2>3, <2>4, <2>5, <2>6, <2>7, <2>8, <2>9, FileInvParts
<1>. QED BY <1>2, <1>4, <1>5

\* The record is fed.
LEMMA FeedKeeps ==
  ASSUME FileInv, Feed
  PROVE  FileInv' /\ (Durable => Durable')
<1>1. pc = "verified" /\ live /\ pane.state = "continuous" /\ submitted # <<>>
      /\ fed' = pane.committedSequence /\ pc' = "idle"
      /\ UNCHANGED <<disk, synced, pane, failed, submitted, damage, reopens>>
  BY DEF Feed, live, FileInv, Live
<1>2. /\ Len(disk) \in Nat /\ pane \in Panes /\ submitted \in Seq(RecordType)
      /\ Len(submitted) \in Nat
  BY ShapeFacts
<1>3. fed' \in 0..Len(submitted)
  <2>1. pane.verified \in Cursors
    BY <1>2, PaneFacts
  <2>2. pane.verified.view \in Seq(RecordType) /\ Len(pane.verified.view) \in Nat
    BY <2>1, CursorFacts
  <2>3. pane.committedSequence = Len(pane.verified.view) /\ Len(pane.verified.view) <= Len(submitted)
    BY DEF FileInv, View, begins
  <2>. QED BY <1>1, <1>2, <2>2, <2>3
<1>4. Shapes'
  BY <1>1, <1>3 DEF FileInv, Shapes
<1>5. Written'
  BY <1>1 DEF FileInv, Written
<1>6. Bytes'
  BY <1>1 DEF FileInv, Bytes
<1>7. Live'
  <2>1. /\ ~failed /\ ~pane.corrupt
        /\ pane.sequence = Len(submitted) /\ pane.end = endAt(submitted, Len(submitted))
        /\ pane.last = recordAt(submitted, Len(submitted))
        /\ pane.stored + (IF pc = "marked" THEN 1 ELSE 0) = Len(disk)
        /\ tracks(pane.verified, submitted)
    BY <1>1, LiveFacts
  <2>. QED BY <1>1, <2>1 DEF Live, live
<1>8. View'
  BY <1>1 DEF FileInv, View
<1>9. Charges'
  <2>1. fileBytes' = fileBytes
    BY <1>1 DEF fileBytes
  <2>2. /\ pane.physical >= fileBytes + 0
        /\ pane.sequence <= Len(submitted)
        /\ ~pane.corrupt => pane.realmCharge = cost(SubSeq(submitted, 1, pane.sequence))
    BY <1>1 DEF FileInv, Charges
  <2>. QED BY <1>1, <2>1, <2>2 DEF Charges
<1>10. ASSUME Durable PROVE Durable'
  <2>1. /\ \A i \in 1..Len(disk) : firm(disk[i])
        /\ disk # <<>> /\ sealed(disk[Len(disk)], Len(submitted)) /\ synced = Len(disk)
        /\ pane.committedSequence = Len(submitted)
    BY <1>1, <1>10 DEF Durable
  <2>2. \E d \in 1..synced : sealed(disk[d], Len(submitted)) /\ \A i \in 1..d : firm(disk[i])
    <3>1. Len(disk) \in 1..synced
      <4>1. disk \in Seq(Frames)
        BY ShapeFacts
      <4>. QED BY <1>2, <2>1, <4>1
    <3>. QED BY <2>1, <3>1
  <2>3. fed' <= pane'.committedSequence /\ fed' = Len(submitted)
    BY <1>1, <1>2, <2>1
  <2>4. fed' > 0 => \E d \in 1..(synced') : sealed(disk'[d], fed') /\ \A i \in 1..d : firm(disk'[i])
    BY <1>1, <2>2, <2>3
  <2>. QED BY <1>1, <2>1, <2>3, <2>4 DEF Durable, live
<1>. QED BY <1>4, <1>5, <1>6, <1>7, <1>8, <1>9, <1>10, FileInvParts

\* Storage damages a frame, which keeps its size.
LEMMA DamageKeeps ==
  ASSUME FileInv, NEW i \in DOMAIN disk, NEW kind \in DamageKinds, Damage(i, kind)
  PROVE  FileInv' /\ (Durable /\ kind = "invalid" => Durable')
<1>. DEFINE x == [type |-> kind, bytes |-> frameBytes(disk[i])]
<1>1. /\ disk \in Seq(Frames) /\ Len(disk) \in Nat /\ submitted \in Seq(RecordType) /\ Len(submitted) \in Nat
      /\ chained(submitted) /\ pane \in Panes /\ (\A j \in 1..Len(disk) : genuine(disk[j], submitted))
      /\ synced \in 0..Len(disk) /\ fileBytes \in Nat /\ \A j \in 1..Len(disk) : disk[j] \in Frames
  BY ShapeFacts
<1>2. i \in 1..Len(disk) /\ disk[i] \in Frames
  BY <1>1
<1>3. /\ damage < MaxDamage /\ disk[i].type \in {"append", "commit"} /\ disk' = [disk EXCEPT ![i] = x]
      /\ damage' = damage + 1
      /\ UNCHANGED <<synced, pane, pc, failed, submitted, fed, reopens>>
  BY DEF Damage
<1>4. kind \in {"invalid", "overlong"}
  BY JournalFileAssumption
<1>5. frameBytes(disk[i]) \in Nat /\ frameBytes(disk[i]) >= 1
  <2>1. Length(disk[i].rec) \in Nat
    BY <1>2, <1>3, FrameFacts, RecordFacts
  <2>2. AppendFixed \in Nat \ {0} /\ CommitFixed \in Nat \ {0}
    BY JournalFileAssumption
  <2>3. /\ disk[i].type = "append" => frameBytes(disk[i]) = AppendFixed + Length(disk[i].rec)
        /\ disk[i].type = "commit" => frameBytes(disk[i]) = CommitFixed
        /\ frameBytes(disk[i]) \in Nat
    BY <1>2, FrameBytes
  <2>. QED BY <1>3, <2>1, <2>2, <2>3
<1>6. x \in Frames /\ x.type = kind /\ x.bytes = frameBytes(disk[i])
  BY <1>4, <1>5 DEF Frames
<1>7. frameBytes(x) = frameBytes(disk[i])
  BY <1>4, <1>6, FrameBytes
<1>. HIDE DEF x
<1>8. /\ disk' \in Seq(Frames) /\ Len(disk') = Len(disk) /\ disk'[i] = x
      /\ \A j \in 1..Len(disk) : j # i => disk'[j] = disk[j]
  BY <1>1, <1>2, <1>3, <1>6
<1>9. fileBytes' = fileBytes
  <2>1. \A j \in 1..Len(disk') : frameBytes(disk'[j]) = frameBytes(disk[j])
    BY <1>7, <1>8
  <2>2. F!fold(0, disk') = F!fold(0, disk)
    BY <1>1, <1>8, <2>1, BytesSame
  <2>3. fileBytes = bytesOf(disk) /\ fileBytes' = bytesOf(disk')
    BY DEF fileBytes
  <2>. QED BY <2>2, <2>3, BytesFold
<1>10. Shapes'
  <2>1. damage \in 0..MaxDamage /\ MaxDamage \in Nat
    BY JournalFileAssumption DEF FileInv, Shapes
  <2>2. damage' \in 0..MaxDamage
    BY <1>3, <2>1
  <2>. QED BY <1>3, <1>8, <2>2 DEF FileInv, Shapes
<1>11. Written'
  <2>1. genuine(x, submitted)
    BY <1>4, <1>6 DEF genuine
  <2>2. \A j \in 1..Len(disk') : genuine(disk'[j], submitted)
    BY <1>1, <1>8, <2>1
  <2>. QED BY <1>1, <1>3, <2>2 DEF Written
<1>12. Bytes'
  <2>1. ASSUME NEW j \in (synced + 1)..Len(disk), disk'[j].type = "invalid" PROVE disk'[j].bytes >= 1
    <3>1. CASE j = i
      BY <1>5, <1>6, <1>8, <3>1
    <3>2. CASE j # i
      <4>1. disk'[j] = disk[j]
        BY <1>1, <1>8, <3>2
      <4>. QED BY <2>1, <4>1 DEF FileInv, Bytes
    <3>. QED BY <3>1, <3>2
  <2>. QED BY <1>3, <1>8, <2>1 DEF Bytes
<1>13. Live'
  BY <1>3, <1>8 DEF FileInv, Live, live
<1>14. View'
  BY <1>3 DEF FileInv, View
<1>15. Charges'
  BY <1>3, <1>9 DEF FileInv, Charges
<1>16. ASSUME Durable, kind = "invalid" PROVE Durable'
  <2>1. firm(x) /\ \A n : sealed(x, n)
    BY <1>6, <1>16 DEF firm, sealed
  <2>2. live => \A j \in 1..Len(disk') : firm(disk'[j])
    BY <1>8, <1>16, <2>1 DEF Durable
  <2>3. \A d \in 1..Len(disk) : \A n : sealed(disk[d], n) => sealed(disk'[d], n)
    BY <1>8, <2>1
  <2>4. \A d \in 1..Len(disk) : firm(disk[d]) => firm(disk'[d])
    BY <1>8, <2>1
  <2>5. pc \in {"marked", "durable", "verified"} => disk' # <<>> /\ sealed(disk'[Len(disk')], Len(submitted))
    <3>1. SUFFICES ASSUME pc \in {"marked", "durable", "verified"}
                   PROVE  disk' # <<>> /\ sealed(disk'[Len(disk')], Len(submitted))
      OBVIOUS
    <3>2. disk # <<>> /\ sealed(disk[Len(disk)], Len(submitted))
      BY <1>16, <3>1 DEF Durable
    <3>3. Len(disk) \in 1..Len(disk) /\ disk' # <<>>
      BY <1>1, <1>2, <1>8
    <3>. QED BY <1>8, <2>3, <3>2, <3>3
  <2>6. ASSUME fed > 0 PROVE \E d \in 1..synced : sealed(disk'[d], fed) /\ \A j \in 1..d : firm(disk'[j])
    <3>1. PICK d \in 1..synced : sealed(disk[d], fed) /\ \A j \in 1..d : firm(disk[j])
      BY <1>16, <2>6 DEF Durable
    <3>2. d \in 1..Len(disk) /\ \A j \in 1..d : j \in 1..Len(disk)
      BY <1>1
    <3>. QED BY <2>3, <2>4, <3>1, <3>2
  <2>7. /\ pc \in {"durable", "verified"} => synced = Len(disk)
        /\ pc = "verified" => pane.committedSequence = Len(submitted)
        /\ pc # "down" /\ ~pane.corrupt => fed <= pane.committedSequence
    BY <1>16 DEF Durable
  <2>8. live' = live
    BY <1>3 DEF live
  <2>. QED BY <1>3, <1>8, <2>2, <2>5, <2>6, <2>7, <2>8 DEF Durable
<1>. QED BY <1>10, <1>11, <1>12, <1>13, <1>14, <1>15, <1>16, FileInvParts

\* What a crash leaves of a frame is no whole frame.
LEMMA TornFormIs ==
  ASSUME NEW f \in Frames, f.type = "invalid" => f.bytes >= 1, NEW t \in tornForm(f)
  PROVE  t \in Frames /\ t.type \notin {"append", "commit"}
<1>1. f.type \in {"append", "overlong"} =>
        tornForm(f) = {[type |-> "tornAppend", rec |-> IF f.type = "append" THEN f.rec ELSE NoRecord]}
  BY Zenon DEF tornForm
<1>2. f.type = "commit" => tornForm(f) = {[type |-> "tornCommit", rec |-> f.rec]}
  BY Zenon DEF tornForm
<1>3. f.type = "invalid" => tornForm(f) = {[type |-> "invalid", bytes |-> f.bytes - 1]}
  BY Zenon DEF tornForm
<1>4. f.type \notin {"append", "overlong", "commit", "invalid"} => tornForm(f) = {}
  BY Zenon DEF tornForm
<1>5. CASE f.type \in {"append", "overlong"}
  <2>. DEFINE r == IF f.type = "append" THEN f.rec ELSE NoRecord
  <2>1. r \in RecordType
    BY FrameFacts, NoRecordFacts
  <2>2. t = [type |-> "tornAppend", rec |-> r]
    BY <1>1, <1>5
  <2>. QED BY <2>1, <2>2, FrameMade
<1>6. CASE f.type = "commit"
  <2>1. f.rec \in RecordType
    BY <1>6, FrameFacts
  <2>2. t = [type |-> "tornCommit", rec |-> f.rec]
    BY <1>2, <1>6
  <2>. QED BY <2>1, <2>2, FrameMade
<1>7. CASE f.type = "invalid"
  <2>1. f.bytes \in Nat /\ f.bytes - 1 \in Nat
    <3>1. f.bytes \in Nat
      BY <1>7, FrameFacts
    <3>. QED BY <1>7, <3>1
  <2>2. t = [type |-> "invalid", bytes |-> f.bytes - 1]
    BY <1>3, <1>7
  <2>. QED BY <2>1, <2>2 DEF Frames
<1>. QED BY <1>4, <1>5, <1>6, <1>7

\* The broker or its host stops.
LEMMA CrashKeeps ==
  ASSUME FileInv, Crash
  PROVE  FileInv' /\ (Durable => Durable')
<1>1. /\ pc' = "down" /\ disk' \in survivors /\ synced' = Len(disk')
      /\ UNCHANGED <<pane, failed, submitted, fed, damage, reopens>>
  BY DEF Crash
<1>2. /\ disk \in Seq(Frames) /\ Len(disk) \in Nat /\ submitted \in Seq(RecordType) /\ Len(submitted) \in Nat
      /\ chained(submitted) /\ pane \in Panes /\ (\A j \in 1..Len(disk) : genuine(disk[j], submitted))
      /\ synced \in 0..Len(disk) /\ \A j \in 1..Len(disk) : disk[j] \in Frames
  BY ShapeFacts
<1>3. \A n \in 0..Len(disk) :
        /\ SubSeq(disk, 1, n) \in Seq(Frames) /\ Len(SubSeq(disk, 1, n)) = n
        /\ \A j \in 1..n : SubSeq(disk, 1, n)[j] = disk[j]
  BY <1>2
<1>4. \E n \in synced..Len(disk) :
        /\ disk' \in Seq(Frames) /\ n <= Len(disk')
        /\ \A j \in 1..n : disk'[j] = disk[j]
        /\ \A j \in 1..Len(disk') : j > n => disk'[j].type \notin {"append", "commit"}
  <2>1. CASE \E n \in synced..Len(disk) : disk' = SubSeq(disk, 1, n)
    <3>1. PICK n \in synced..Len(disk) : disk' = SubSeq(disk, 1, n)
      BY <2>1
    <3>2. n \in 0..Len(disk)
      BY <1>2
    <3>3. disk' \in Seq(Frames) /\ Len(disk') = n /\ \A j \in 1..n : disk'[j] = disk[j]
      BY <1>3, <3>1, <3>2
    <3>. QED BY <3>2, <3>3
  <2>2. CASE \E n \in synced..(Len(disk) - 1) : \E t \in tornForm(disk[n + 1]) :
               disk' = Append(SubSeq(disk, 1, n), t)
    <3>1. PICK n \in synced..(Len(disk) - 1) : \E s \in tornForm(disk[n + 1]) :
                 disk' = Append(SubSeq(disk, 1, n), s)
      BY <2>2
    <3>1a. PICK t \in tornForm(disk[n + 1]) : disk' = Append(SubSeq(disk, 1, n), t)
      BY <3>1
    <3>. DEFINE u == SubSeq(disk, 1, n)
    <3>2. n \in 0..Len(disk) /\ n + 1 \in 1..Len(disk) /\ n \in synced..Len(disk) /\ n + 1 \in (synced + 1)..Len(disk)
      BY <1>2
    <3>3. u \in Seq(Frames) /\ Len(u) = n /\ \A j \in 1..n : u[j] = disk[j]
      BY <1>3, <3>2
    <3>4. disk[n + 1].type = "invalid" => disk[n + 1].bytes >= 1
      BY <3>2 DEF FileInv, Bytes
    <3>5. t \in Frames /\ t.type \notin {"append", "commit"}
      BY <1>2, <3>2, <3>4, TornFormIs
    <3>6. disk' = Append(u, t)
      BY <3>1a
    <3>. HIDE DEF u
    <3>7. /\ disk' \in Seq(Frames) /\ Len(disk') = n + 1 /\ disk'[n + 1] = t
          /\ \A j \in 1..n : disk'[j] = u[j]
      BY <3>2, <3>3, <3>5, <3>6
    <3>8. \A j \in 1..Len(disk') : j > n => j = n + 1
      BY <3>2, <3>7
    <3>. QED BY <3>2, <3>3, <3>5, <3>7, <3>8
  <2>3. \/ disk' \in {SubSeq(disk, 1, n) : n \in synced..Len(disk)}
        \/ disk' \in UNION {{Append(SubSeq(disk, 1, n), t) : t \in tornForm(disk[n + 1])} :
                             n \in synced..(Len(disk) - 1)}
    BY <1>1, Zenon DEF survivors
  <2>4. CASE disk' \in UNION {{Append(SubSeq(disk, 1, n), t) : t \in tornForm(disk[n + 1])} :
                               n \in synced..(Len(disk) - 1)}
    <3>1. \E n \in synced..(Len(disk) - 1) : \E t \in tornForm(disk[n + 1]) :
            disk' = Append(SubSeq(disk, 1, n), t)
      BY <2>4, Zenon
    <3>. QED BY <2>2, <3>1
  <2>5. CASE disk' \in {SubSeq(disk, 1, n) : n \in synced..Len(disk)}
    <3>1. \E n \in synced..Len(disk) : disk' = SubSeq(disk, 1, n)
      BY <2>5, Zenon
    <3>. QED BY <2>1, <3>1
  <2>. QED BY <2>3, <2>4, <2>5
<1>5. PICK n \in synced..Len(disk) :
        /\ disk' \in Seq(Frames) /\ n <= Len(disk')
        /\ \A j \in 1..n : disk'[j] = disk[j]
        /\ \A j \in 1..Len(disk') : j > n => disk'[j].type \notin {"append", "commit"}
  BY <1>4
<1>6. n \in 0..Len(disk) /\ synced <= n /\ Len(disk') \in Nat
  BY <1>2, <1>5
<1>7. Shapes'
  BY <1>1, <1>5, <1>6 DEF FileInv, Shapes
<1>8. Written'
  <2>1. ASSUME NEW j \in 1..Len(disk') PROVE genuine(disk'[j], submitted)
    <3>1. CASE j > n
      <4>1. disk'[j].type \notin {"append", "commit"}
        BY <1>5, <3>1
      <4>. QED BY <4>1 DEF genuine
    <3>2. CASE ~(j > n)
      <4>1. j \in 1..n /\ j \in 1..Len(disk)
        BY <1>2, <1>6, <3>2
      <4>. QED BY <1>2, <1>5, <4>1
    <3>. QED BY <3>1, <3>2
  <2>. QED BY <1>1, <1>2, <2>1 DEF Written
<1>9. Bytes'
  BY <1>1, <1>6 DEF Bytes
<1>10. Live'
  <2>1. reopens < MaxReopens
    BY DEF Crash
  <2>. QED BY <1>1, <2>1 DEF Live, live
<1>11. View'
  BY <1>1 DEF FileInv, View
<1>12. Charges'
  BY <1>1 DEF Charges
<1>13. ASSUME Durable PROVE Durable'
  <2>1. ASSUME fed > 0 PROVE \E d \in 1..Len(disk') : sealed(disk'[d], fed) /\ \A j \in 1..d : firm(disk'[j])
    <3>1. PICK d \in 1..synced : sealed(disk[d], fed) /\ \A j \in 1..d : firm(disk[j])
      BY <1>13, <2>1 DEF Durable
    <3>2. d \in 1..Len(disk') /\ d \in 1..n /\ \A j \in 1..d : j \in 1..n
      BY <1>2, <1>5, <1>6
    <3>. QED BY <1>5, <3>1, <3>2
  <2>. QED BY <1>1, <2>1 DEF Durable, live
<1>. QED BY <1>7, <1>8, <1>9, <1>10, <1>11, <1>12, <1>13, FileInvParts

\* The pane of a fresh generation.
LEMMA FreshIs ==
  /\ freshPane \in Panes
  /\ freshPane.state = "continuous" /\ freshPane.sequence = 0 /\ freshPane.end = 0
  /\ freshPane.last = NoRecord /\ freshPane.stored = 0 /\ freshPane.verified = EmptyCursor
  /\ freshPane.committed = 0 /\ freshPane.committedSequence = 0 /\ freshPane.realmCharge = 0
  /\ freshPane.physical = HeaderSize /\ freshPane.corrupt = FALSE
<1>1. EmptyCursor \in Cursors /\ NoRecord \in RecordType /\ HeaderSize \in Nat
  <2>1. <<>> \in Seq(RecordType)
    OBVIOUS
  <2>. QED BY <2>1, EmptyTracks, NoRecordFacts, JournalFileAssumption
<1>2. freshPane \in Panes
  BY <1>1 DEF freshPane, Panes
<1>. QED BY <1>2 DEF freshPane

\* What recovery reads of a file, and the pane it makes of it.
LEMMA ParsedIs ==
  ASSUME FileInv, NEW r, r = scanFrames(EmptyCursor, disk), NEW q, q = parsed
  PROVE  /\ q \in Panes /\ q.state # "continuous" /\ q.physical = fileBytes
         /\ q.sequence = r.cursor.sequence
         /\ r.status = "corrupt" =>
              q.corrupt /\ q.verified = EmptyCursor /\ q.committed = 0 /\ q.committedSequence = 0
         /\ r.status # "corrupt" =>
              /\ ~q.corrupt /\ q.verified.view = r.cursor.view /\ q.committed = r.cursor.committed
              /\ q.committedSequence = r.cursor.committedSequence
              /\ q.realmCharge = r.cursor.end + r.cursor.geometryCharge
         /\ scanned(r, EmptyCursor, disk, submitted, fed)
<1>1. /\ disk \in Seq(Frames) /\ submitted \in Seq(RecordType) /\ chained(submitted)
      /\ (\A j \in 1..Len(disk) : genuine(disk[j], submitted)) /\ fed \in 0..Len(submitted)
      /\ Len(submitted) \in Nat /\ fileBytes \in Nat
  BY ShapeFacts
<1>2. EmptyCursor \in Cursors /\ tracks(EmptyCursor, submitted) /\ fed \in Nat
  BY <1>1, EmptyTracks
<1>3. scanned(r, EmptyCursor, disk, submitted, fed)
  BY <1>1, <1>2, ScanReads
<1>. DEFINE c == r.cursor
            b == fileBytes
            base == [freshPane EXCEPT !.sequence = c.sequence, !.stored = c.frames, !.physical = b]
            S == Seq(RecordType)
            K == [state : {"continuous", "untrusted", "legacy"},
                  reason : {"none", "ENOSPC", "corruptJournal", "volatileRestart"},
                  sequence : Nat, end : Nat, last : RecordType, pending : S, stored : Nat,
                  verified : Cursors, committed : Nat, committedSequence : Nat, realmCharge : Nat,
                  physical : Nat, corrupt : BOOLEAN]
            w == [c EXCEPT !.tail = c.view]
            x == c.end + c.geometryCharge
<1>4. c \in Cursors /\ b \in Nat
  BY <1>1, <1>3 DEF scanned, Results
<1>5. /\ c.sequence \in Nat /\ c.frames \in Nat /\ c.end \in Nat /\ c.geometryCharge \in Nat
      /\ c.committed \in Nat /\ c.committedSequence \in Nat /\ c.view \in S
  BY <1>4, CursorFacts
<1>6. q = IF r.status = "corrupt"
          THEN [base EXCEPT !.state = "untrusted", !.reason = "corruptJournal", !.corrupt = TRUE,
                            !.realmCharge = c.geometryCharge]
          ELSE [base EXCEPT !.state = "legacy", !.reason = "volatileRestart", !.end = c.end,
                            !.verified = w, !.committed = c.committed,
                            !.committedSequence = c.committedSequence, !.realmCharge = x]
  BY DEF parsed
<1>7. K = Panes /\ x \in Nat
  BY <1>5 DEF Panes
<1>8. w \in Cursors /\ w.view = c.view
  BY <1>4, <1>5 DEF Cursors
<1>. HIDE DEF S, c, b, w, x
<1>9. base \in K
  <2>1. freshPane \in K
    BY <1>7, FreshIs
  <2>. QED BY <1>4, <1>5, <2>1
<1>10. /\ base.sequence = c.sequence /\ base.physical = b /\ base.verified = EmptyCursor /\ base.corrupt = FALSE
       /\ base.committed = 0 /\ base.committedSequence = 0
  <2>1. freshPane \in K
    BY <1>7, FreshIs
  <2>. QED BY <2>1, FreshIs
<1>. HIDE DEF base
<1>11. CASE r.status = "corrupt"
  <2>1. q = [base EXCEPT !.state = "untrusted", !.reason = "corruptJournal", !.corrupt = TRUE,
                         !.realmCharge = c.geometryCharge]
    BY <1>6, <1>11
  <2>2. q \in K
    BY <1>5, <1>9, <2>1
  <2>3. /\ q.state = "untrusted" /\ q.physical = base.physical /\ q.sequence = base.sequence /\ q.corrupt = TRUE
        /\ q.verified = base.verified /\ q.committed = base.committed
        /\ q.committedSequence = base.committedSequence
    BY <1>9, <2>1
  <2>. QED BY <1>3, <1>7, <1>10, <1>11, <2>2, <2>3 DEF b, c
<1>12. CASE r.status # "corrupt"
  <2>1. q = [base EXCEPT !.state = "legacy", !.reason = "volatileRestart", !.end = c.end,
                         !.verified = w, !.committed = c.committed,
                         !.committedSequence = c.committedSequence, !.realmCharge = x]
    BY <1>6, <1>12
  <2>2. q \in K
    BY <1>5, <1>7, <1>8, <1>9, <2>1
  <2>3. /\ q.state = "legacy" /\ q.physical = base.physical /\ q.sequence = base.sequence /\ q.corrupt = base.corrupt
        /\ q.verified = w /\ q.committed = c.committed
        /\ q.committedSequence = c.committedSequence /\ q.realmCharge = x
    BY <1>9, <2>1
  <2>. QED BY <1>3, <1>7, <1>8, <1>10, <1>12, <2>2, <2>3 DEF b, c, x
<1>. QED BY <1>11, <1>12

\* A later incarnation opens the file.
LEMMA ReopenKeeps ==
  ASSUME FileInv, Reopen
  PROVE  FileInv' /\ (Durable => Durable')
<1>. DEFINE r == scanFrames(EmptyCursor, disk)
            c == r.cursor
<1>1. /\ pc = "down" /\ pane' = parsed /\ pc' = "idle" /\ failed' = FALSE /\ reopens' = reopens + 1
      /\ UNCHANGED <<disk, synced, submitted, fed, damage>>
  BY DEF Reopen
<1>2. /\ pane' \in Panes /\ pane'.state # "continuous" /\ pane'.physical = fileBytes
      /\ pane'.sequence = c.sequence
      /\ r.status = "corrupt" =>
           pane'.corrupt /\ pane'.verified = EmptyCursor /\ pane'.committed = 0 /\ pane'.committedSequence = 0
      /\ r.status # "corrupt" =>
           /\ ~pane'.corrupt /\ pane'.verified.view = c.view /\ pane'.committed = c.committed
           /\ pane'.committedSequence = c.committedSequence
           /\ pane'.realmCharge = c.end + c.geometryCharge
      /\ scanned(r, EmptyCursor, disk, submitted, fed)
  BY <1>1, ParsedIs
<1>. HIDE DEF r
<1>3. c \in Cursors /\ tracks(c, submitted)
  BY <1>2 DEF scanned, Results
<1>4. /\ submitted \in Seq(RecordType) /\ Len(submitted) \in Nat /\ fileBytes \in Nat
      /\ fed \in 0..Len(submitted) /\ synced \in 0..Len(disk) /\ Len(disk) \in Nat
  BY ShapeFacts
<1>5. /\ c.tail \in Seq(RecordType) /\ c.view \in Seq(RecordType) /\ Len(c.tail) \in Nat /\ Len(c.view) \in Nat
  BY <1>3, CursorFacts
<1>. HIDE DEF c
<1>6. /\ begins(c.tail, submitted) /\ begins(c.view, submitted) /\ c.sequence = Len(c.tail)
      /\ c.committedSequence = Len(c.view) /\ c.committed = endAt(submitted, Len(c.view))
      /\ c.end + c.geometryCharge = cost(c.tail)
  BY <1>3 DEF tracks
<1>7. Shapes'
  <2>1. reopens \in 0..MaxReopens /\ MaxReopens \in Nat /\ reopens < MaxReopens
    BY <1>1, JournalFileAssumption DEF FileInv, Shapes, Live
  <2>2. reopens' \in 0..MaxReopens
    BY <1>1, <2>1
  <2>. QED BY <1>1, <1>2, <2>2 DEF FileInv, Shapes
<1>8. Written'
  BY <1>1 DEF FileInv, Written
<1>9. Bytes'
  BY <1>1 DEF FileInv, Bytes
<1>10. Live'
  BY <1>1, <1>2 DEF Live, live
<1>11. View'
  <2>1. CASE r.status = "corrupt"
    <3>1. EmptyCursor.view = <<>> /\ Len(EmptyCursor.view) = 0
      BY DEF EmptyCursor
    <3>2. begins(EmptyCursor.view, submitted) /\ endAt(submitted, 0) = 0
      BY <1>4, <3>1 DEF begins, endAt
    <3>. QED BY <1>1, <1>2, <2>1, <3>1, <3>2 DEF View
  <2>2. CASE r.status # "corrupt"
    BY <1>1, <1>2, <1>6, <2>2 DEF View
  <2>. QED BY <2>1, <2>2
<1>12. Charges'
  <2>1. fileBytes' = fileBytes
    BY <1>1 DEF fileBytes
  <2>2. pane'.physical >= fileBytes' + 0
    BY <1>2, <1>4, <2>1
  <2>3. c.sequence <= Len(submitted) /\ c.sequence \in 0..Len(submitted)
    BY <1>4, <1>5, <1>6 DEF begins
  <2>4. c.tail = SubSeq(submitted, 1, c.sequence)
    <3>1. /\ SubSeq(submitted, 1, c.sequence) \in Seq(RecordType)
          /\ Len(SubSeq(submitted, 1, c.sequence)) = c.sequence
          /\ \A i \in 1..c.sequence : SubSeq(submitted, 1, c.sequence)[i] = submitted[i]
      BY <1>4, <2>3
    <3>2. Len(c.tail) = c.sequence /\ \A i \in 1..c.sequence : c.tail[i] = submitted[i]
      BY <1>6 DEF begins
    <3>. HIDE DEF c
    <3>. QED BY <1>5, <3>1, <3>2, SeqEqual
  <2>5. ~pane'.corrupt => pane'.realmCharge = cost(SubSeq(submitted', 1, pane'.sequence))
    BY <1>1, <1>2, <1>6, <2>4
  <2>6. pane'.sequence <= Len(submitted')
    BY <1>1, <1>2, <2>3
  <2>. QED BY <1>1, <2>2, <2>5, <2>6 DEF Charges
<1>13. ASSUME Durable PROVE Durable'
  <2>1. fed > 0 => \E d \in 1..synced : sealed(disk[d], fed) /\ \A i \in 1..d : firm(disk[i])
    BY <1>13 DEF Durable
  <2>2. ASSUME ~pane'.corrupt PROVE fed <= pane'.committedSequence
    <3>1. r.status # "corrupt" /\ pane'.committedSequence = c.committedSequence
      BY <1>2, <2>2
    <3>2. CASE fed > 0
      <4>1. PICK d \in 1..synced : sealed(disk[d], fed) /\ \A i \in 1..d : firm(disk[i])
        BY <2>1, <3>2
      <4>2. d \in 1..Len(disk)
        BY <1>4
      <4>. QED BY <1>2, <3>1, <4>1, <4>2 DEF scanned, c
    <3>3. CASE ~(fed > 0)
      <4>1. fed = 0 /\ c.committedSequence \in Nat
        BY <1>4, <1>5, <1>6, <3>3
      <4>. QED BY <3>1, <4>1
    <3>. QED BY <3>2, <3>3
  <2>. QED BY <1>1, <1>2, <2>1, <2>2 DEF Durable, live
<1>. QED BY <1>7, <1>8, <1>9, <1>10, <1>11, <1>12, <1>13, FileInvParts

(***************************************************************************)
(* The invariant holds.                                                    *)
(***************************************************************************)

\* A fresh generation.
LEMMA InitInv ==
  ASSUME Init
  PROVE  FileInv /\ Durable
<1>1. /\ disk = <<>> /\ synced = 0 /\ pane = freshPane /\ pc = "idle" /\ failed = FALSE
      /\ submitted = <<>> /\ fed = 0 /\ damage = 0 /\ reopens = 0
  BY DEF Init
<1>2. /\ disk \in Seq(Frames) /\ submitted \in Seq(RecordType) /\ Len(disk) = 0 /\ Len(submitted) = 0
      /\ SubSeq(submitted, 1, 0) = <<>>
  BY <1>1
<1>3. /\ pane \in Panes
      /\ pane.state = "continuous" /\ pane.sequence = 0 /\ pane.end = 0
      /\ pane.last = NoRecord /\ pane.stored = 0 /\ pane.verified = EmptyCursor
      /\ pane.committed = 0 /\ pane.committedSequence = 0 /\ pane.realmCharge = 0
      /\ pane.physical = HeaderSize /\ pane.corrupt = FALSE
  BY <1>1, FreshIs
<1>4. EmptyCursor \in Cursors /\ tracks(EmptyCursor, submitted)
  BY <1>2, EmptyTracks
<1>5. EmptyCursor.view = <<>> /\ Len(EmptyCursor.view) = 0
  BY DEF EmptyCursor
<1>6. endAt(submitted, 0) = 0 /\ recordAt(submitted, 0) = NoRecord
  BY DEF endAt, recordAt
<1>7. Shapes
  <2>1. MaxRecords \in Nat /\ MaxDamage \in Nat /\ MaxReopens \in Nat
    BY JournalFileAssumption
  <2>2. /\ synced \in 0..Len(disk) /\ fed \in 0..Len(submitted) /\ Len(submitted) \in 0..MaxRecords
        /\ damage \in 0..MaxDamage /\ reopens \in 0..MaxReopens
    BY <1>1, <1>2, <2>1
  <2>3. failed \in BOOLEAN /\ pc \in {"idle", "appended", "synced", "marked", "durable", "verified", "down"}
    BY <1>1
  <2>. QED BY <1>2, <1>3, <2>2, <2>3 DEF Shapes
<1>8. Written
  BY <1>2 DEF Written, chained
<1>9. Bytes
  BY <1>1, <1>2 DEF Bytes
<1>10. Live
  BY <1>1, <1>2, <1>3, <1>4, <1>6 DEF Live, live
<1>11. View
  <2>1. begins(EmptyCursor.view, submitted)
    BY <1>2, <1>5 DEF begins
  <2>. QED BY <1>3, <1>5, <1>6, <2>1 DEF View
<1>12. Charges
  <2>1. fileBytes = HeaderSize
    <3>1. fileBytes = HeaderSize + F!fold(0, <<>>)
      BY <1>1, BytesFold DEF fileBytes
    <3>2. F!fold(0, <<>>) = 0
      BY F!FoldEmpty
    <3>. QED BY <3>1, <3>2, JournalFileAssumption
  <2>2. pane.physical >= fileBytes + 0
    BY <1>3, <2>1, JournalFileAssumption
  <2>3. pane.realmCharge = cost(SubSeq(submitted, 1, pane.sequence))
    BY <1>2, <1>3, CostEmpty
  <2>. QED BY <1>1, <1>2, <1>3, <2>2, <2>3 DEF Charges
<1>13. Durable
  BY <1>1, <1>2, <1>3 DEF Durable
<1>. QED BY <1>7, <1>8, <1>9, <1>10, <1>11, <1>12, <1>13 DEF FileInv

\* A step of the file, whatever storage does.
LEMMA NextKeeps ==
  ASSUME FileInv, [Next]_vars
  PROVE  FileInv' /\ (Durable /\ "overlong" \notin DamageKinds => Durable')
<1>1. CASE (\E p \in Payload : AppendOutput(p)) \/ (\E g \in Geometry : AppendGeometry(g))
  BY <1>1, AppendKeeps
<1>2. CASE Sync
  BY <1>2, SyncKeeps
<1>3. CASE WriteCommit
  BY <1>3, WriteCommitKeeps
<1>4. CASE SyncCommit
  BY <1>4, SyncCommitKeeps
<1>5. CASE VerifyCommitted
  BY <1>5, VerifyKeeps
<1>6. CASE Feed
  BY <1>6, FeedKeeps
<1>7. CASE \E i \in DOMAIN disk, kind \in DamageKinds : Damage(i, kind)
  <2>1. PICK i \in DOMAIN disk, kind \in DamageKinds : Damage(i, kind)
    BY <1>7
  <2>2. kind \in {"invalid", "overlong"}
    BY JournalFileAssumption
  <2>3. FileInv' /\ (Durable /\ kind = "invalid" => Durable')
    BY <2>1, DamageKeeps
  <2>. QED BY <2>2, <2>3
<1>8. CASE Crash
  BY <1>8, CrashKeeps
<1>9. CASE Reopen
  BY <1>9, ReopenKeeps
<1>10. CASE UNCHANGED vars
  <2>1. UNCHANGED <<disk, synced, pane, pc, failed, submitted, fed, damage, reopens>>
    BY <1>10 DEF vars
  <2>2. fileBytes' = fileBytes
    BY <2>1 DEF fileBytes
  <2>3. Shapes' /\ Written' /\ Bytes' /\ Live' /\ View' /\ Charges'
    BY <2>1, <2>2 DEF FileInv, Shapes, Written, Bytes, Live, live, View, Charges
  <2>4. Durable => Durable'
    BY <2>1 DEF Durable, live
  <2>. QED BY <2>3, <2>4, FileInvParts
<1>. QED BY <1>1, <1>2, <1>3, <1>4, <1>5, <1>6, <1>7, <1>8, <1>9, <1>10 DEF Next

\* The shape of every reachable generation.
THEOREM FileInvariant == Spec => []FileInv
<1>1. Init => FileInv
  BY InitInv
<1>2. FileInv /\ [Next]_vars => FileInv'
  BY NextKeeps
<1>. QED BY <1>1, <1>2, PTL DEF Spec

\* What is fed is on disk, when damage cannot pass for a torn tail.
THEOREM FedIsDurable ==
  ASSUME "overlong" \notin DamageKinds
  PROVE  Spec => []Durable
<1>1. Init => FileInv /\ Durable
  BY InitInv
<1>2. FileInv /\ Durable /\ [Next]_vars => FileInv' /\ Durable'
  BY NextKeeps
<1>. QED BY <1>1, <1>2, PTL DEF Spec

(***************************************************************************)
(* What follows.                                                           *)
(***************************************************************************)

\* The type invariant.
LEMMA TypesHold == FileInv => TypeOK
<1>1. SUFFICES ASSUME FileInv PROVE TypeOK
  OBVIOUS
<1>2. /\ \A i \in 1..Len(disk) : disk[i] \in Frames
      /\ disk \in Seq(Frames) /\ pane \in Panes
  BY <1>1, ShapeFacts
<1>3. \A i \in DOMAIN disk : disk[i].type \in FrameType
  BY <1>2, FrameFacts
<1>4. /\ pane.state \in {"continuous", "untrusted", "legacy"}
      /\ pane.reason \in {"none", "ENOSPC", "corruptJournal", "volatileRestart"}
      /\ {pane.sequence, pane.end, pane.committed, pane.realmCharge, pane.physical} \subseteq Nat
      /\ pane.corrupt \in BOOLEAN
  BY <1>2, PaneFacts
<1>. QED BY <1>1, <1>3, <1>4 DEF TypeOK, FileInv, Shapes

\* A beginning is a prefix.
LEMMA BeginsPrefix ==
  ASSUME NEW t \in Seq(RecordType), NEW s \in Seq(RecordType), begins(t, s)
  PROVE  IsPrefix(t, s)
<1>1. Len(t) \in Nat /\ Len(s) \in Nat /\ Len(t) <= Len(s) /\ \A i \in 1..Len(t) : t[i] = s[i]
  BY DEF begins
<1>2. SubSeq(s, 1, Len(t)) = SubSeq(t, 1, Len(t))
  BY <1>1
<1>. QED BY <1>1, <1>2 DEF IsPrefix

\* The view and its frontier.
LEMMA ViewHolds == FileInv => CommittedViewIsPrefix
<1>1. SUFFICES ASSUME FileInv PROVE CommittedViewIsPrefix
  OBVIOUS
<1>2. submitted \in Seq(RecordType) /\ pane.verified \in Cursors
  BY <1>1, ShapeFacts, PaneFacts
<1>3. pane.verified.view \in Seq(RecordType) /\ Len(pane.verified.view) \in Nat
  BY <1>2, CursorFacts
<1>4. /\ begins(pane.verified.view, submitted)
      /\ pane.committedSequence = Len(pane.verified.view)
      /\ pane.committed = endAt(submitted, Len(pane.verified.view))
  BY <1>1 DEF FileInv, View
<1>5. IsPrefix(pane.verified.view, submitted)
  BY <1>2, <1>3, <1>4, BeginsPrefix
<1>6. endAt(submitted, Len(pane.verified.view))
        = IF pane.verified.view = <<>> THEN 0 ELSE pane.verified.view[Len(pane.verified.view)].end
  <2>1. CASE pane.verified.view = <<>>
    BY <2>1 DEF endAt
  <2>2. CASE pane.verified.view # <<>>
    <3>1. Len(pane.verified.view) \in 1..Len(pane.verified.view)
      BY <1>3, <2>2
    <3>2. submitted[Len(pane.verified.view)] = pane.verified.view[Len(pane.verified.view)]
      BY <1>4, <3>1 DEF begins
    <3>. QED BY <2>2, <3>1, <3>2 DEF endAt
  <2>. QED BY <2>1, <2>2
<1>. QED BY <1>4, <1>5, <1>6 DEF CommittedViewIsPrefix

\* The ledgers.
LEMMA ChargesHold == FileInv => ChargesCoverFile
<1>1. SUFFICES ASSUME FileInv, pc # "down"
               PROVE  /\ pane.physical >= fileBytes
                      /\ ~pane.corrupt =>
                           pane.realmCharge =
                             FoldLeft(LAMBDA n, r : n + logicalCost(r), 0, SubSeq(submitted, 1, pane.sequence))
  BY DEF ChargesCoverFile
<1>2. /\ pane.physical >= fileBytes + (IF pc \in {"appended", "synced"} THEN CommitFixed ELSE 0)
      /\ ~pane.corrupt => pane.realmCharge = cost(SubSeq(submitted, 1, pane.sequence))
  BY <1>1 DEF FileInv, Charges
<1>3. fileBytes \in Nat /\ pane.physical \in Nat /\ CommitFixed \in Nat
  BY <1>1, ShapeFacts, PaneFacts, JournalFileAssumption
<1>4. pane.physical >= fileBytes
  BY <1>2, <1>3
<1>5. cost(SubSeq(submitted, 1, pane.sequence))
        = FoldLeft(LAMBDA n, r : n + logicalCost(r), 0, SubSeq(submitted, 1, pane.sequence))
  BY DEF cost
<1>. QED BY <1>2, <1>4, <1>5

\* What a step does to the published view.
LEMMA StepPublishes ==
  ASSUME FileInv, Next, reopens' = reopens
  PROVE  \/ pane'.verified = pane.verified
         \/ /\ pane'.state = pane.state /\ live
            /\ pane'.verified \in Cursors /\ tracks(pane'.verified, submitted)
            /\ pane.verified.committedSequence <= pane'.verified.committedSequence
<1>1. pane \in Panes
  BY ShapeFacts
<1>2. ASSUME NEW p \in Panes, p.verified = pane.verified, NEW why, fails(p, why)
      PROVE  pane'.verified = pane.verified
  <2>1. pane' = p \/ pane' = [p EXCEPT !.state = "untrusted", !.reason = why]
    BY <1>2 DEF fails, invalidated
  <2>. QED BY <1>2, <2>1 DEF Panes
<1>3. CASE (\E p \in Payload : AppendOutput(p)) \/ (\E g \in Geometry : AppendGeometry(g))
  <2>1. \E r : nextRecord(r) /\ (writeRecord(r) \/ writeRecordFails(r))
    BY <1>3, AppendsRecord
  <2>2. PICK r : nextRecord(r) /\ (writeRecord(r) \/ writeRecordFails(r))
    BY <2>1
  <2>3. r \in RecordType
    BY <2>2 DEF nextRecord
  <2>4. CASE writeRecord(r)
    BY <1>1, <2>3, <2>4, AppendedPane
  <2>5. CASE writeRecordFails(r)
    <3>1. PICK why \in StorageReasons : fails(charged(r), why)
      BY <2>5 DEF writeRecordFails
    <3>2. charged(r) \in Panes /\ charged(r).verified = pane.verified
      BY <1>1, <2>3, ChargedPane
    <3>. QED BY <1>2, <3>1, <3>2
  <2>. QED BY <2>2, <2>4, <2>5
<1>4. CASE Sync
  BY <1>1, <1>2, <1>4 DEF Sync
<1>5. CASE WriteCommit
  BY <1>1, <1>2, <1>5 DEF WriteCommit
<1>6. CASE SyncCommit
  <2>1. CASE fails(pane, "ENOSPC")
    BY <1>1, <1>2, <2>1
  <2>2. CASE pane' = [pane EXCEPT !.stored = @ + 1]
    BY <1>1, <2>2, StoredPane
  <2>. QED BY <1>6, <2>1, <2>2 DEF SyncCommit
<1>7. CASE VerifyCommitted
  <2>. DEFINE v == verifyCommitted(pane, pane.last)
              c == v.cursor
  <2>1. \/ pane' = [pane EXCEPT !.verified = c, !.committed = c.committed,
                                !.committedSequence = c.committedSequence, !.pending = <<>>]
        \/ fails(pane, "corruptJournal")
    BY <1>7 DEF VerifyCommitted
  <2>2. c \in Cursors /\ tracks(c, submitted) /\ pane.verified.committedSequence <= c.committedSequence
    BY <1>7, ReadbackIs DEF VerifyCommitted
  <2>5. live
    BY <1>7 DEF VerifyCommitted, FileInv, Live, live
  <2>. HIDE DEF c
  <2>3. CASE fails(pane, "corruptJournal")
    BY <1>1, <1>2, <2>3
  <2>4. CASE pane' = [pane EXCEPT !.verified = c, !.committed = c.committed,
                                  !.committedSequence = c.committedSequence, !.pending = <<>>]
    BY <1>1, <2>2, <2>4, <2>5, PublishedPane
  <2>. QED BY <2>1, <2>3, <2>4
<1>8. CASE Feed
  BY <1>8 DEF Feed
<1>9. CASE \E i \in DOMAIN disk, kind \in DamageKinds : Damage(i, kind)
  BY <1>9 DEF Damage
<1>10. CASE Crash
  BY <1>10 DEF Crash
<1>11. CASE Reopen
  <2>1. reopens \in Nat /\ reopens' = reopens + 1
    BY <1>11, JournalFileAssumption DEF Reopen, FileInv, Shapes
  <2>. QED BY <2>1
<1>. QED BY <1>3, <1>4, <1>5, <1>6, <1>7, <1>8, <1>9, <1>10, <1>11 DEF Next

\* The view grows.
LEMMA ViewGrows ==
  ASSUME FileInv, [Next]_vars, reopens' = reopens
  PROVE  /\ IsPrefix(pane.verified.view, pane'.verified.view)
         /\ pane'.state # pane.state => pane'.verified = pane.verified
<1>1. submitted \in Seq(RecordType) /\ pane.verified \in Cursors /\ Len(submitted) \in Nat
  BY ShapeFacts, PaneFacts
<1>2. pane.verified.view \in Seq(RecordType) /\ Len(pane.verified.view) \in Nat
  BY <1>1, CursorFacts
<1>3. begins(pane.verified.view, submitted)
  BY DEF FileInv, View
<1>4. CASE pane'.verified = pane.verified
  <2>1. begins(pane.verified.view, pane'.verified.view)
    BY <1>2, <1>4 DEF begins
  <2>. QED BY <1>2, <1>4, <2>1, BeginsPrefix
<1>5. CASE /\ pane'.state = pane.state
           /\ pane'.verified \in Cursors /\ tracks(pane'.verified, submitted)
           /\ pane.verified.committedSequence <= pane'.verified.committedSequence
           /\ live
  <2>1. pane'.verified.view \in Seq(RecordType) /\ Len(pane'.verified.view) \in Nat
    BY <1>5, CursorFacts
  <2>2. begins(pane'.verified.view, submitted) /\ pane'.verified.committedSequence = Len(pane'.verified.view)
    BY <1>5 DEF tracks
  <2>3. pane.verified.committedSequence = Len(pane.verified.view)
    <3>1. tracks(pane.verified, submitted)
      BY <1>5, LiveFacts
    <3>. QED BY <3>1 DEF tracks
  <2>4. begins(pane.verified.view, pane'.verified.view)
    BY <1>2, <1>3, <1>5, <2>1, <2>2, <2>3 DEF begins
  <2>. QED BY <1>2, <1>5, <2>1, <2>4, BeginsPrefix
<1>6. CASE UNCHANGED vars
  <2>1. pane'.verified = pane.verified
    BY <1>6 DEF vars
  <2>. QED BY <1>4, <2>1
<1>. QED BY <1>4, <1>5, <1>6, StepPublishes

\* Every reachable state has its type.
THEOREM FileTypes == Spec => []TypeOK
  BY FileInvariant, TypesHold, PTL

\* For every payload, damage and number of restarts: what readers may use is a prefix of
\* what was appended, with the frontier at its end (verifyCommitted, parseJournal).
THEOREM ViewIsPrefix == Spec => []CommittedViewIsPrefix
  BY FileInvariant, ViewHolds, PTL

\* No crash between the storage calls of Sequencer.WriteRecord takes a fed record back.
THEOREM FedNeverLost ==
  ASSUME "overlong" \notin DamageKinds
  PROVE  Spec => []FedRecordsSurvive
<1>1. Durable => FedRecordsSurvive
  BY DEF Durable, FedRecordsSurvive, readable
<1>. QED BY <1>1, FedIsDurable, PTL

\* The physical charge covers the file and the logical charge is what the records cost.
THEOREM ChargesCover == Spec => []ChargesCoverFile
  BY FileInvariant, ChargesHold, PTL

\* Within one incarnation the view only grows, and an invalidation publishes nothing.
THEOREM ViewOnlyGrows == Spec => PublishedViewOnlyGrows
<1>1. FileInv /\ [Next]_vars =>
        [reopens' = reopens =>
           /\ IsPrefix(pane.verified.view, pane'.verified.view)
           /\ (pane'.state # pane.state => pane'.verified = pane.verified)]_vars
  BY ViewGrows
<1>. QED BY <1>1, FileInvariant, PTL DEF Spec, PublishedViewOnlyGrows

=============================================================================
