--------------------------- MODULE RecordingStream ---------------------------
(***************************************************************************)
(* The read path of a recording (internal/broker and ui/src): commits of   *)
(* the unified journal, their publication to subscribers, and how one page *)
(* follows them through attachment after attachment, each with a snapshot, *)
(* a live tail, catch-up reads, a typed verdict and a reader lease.        *)
(*                                                                         *)
(* A generation is the number of its stream, a record the number of its    *)
(* sequence.  Record s holds Sizes[s] units of output; a record of size 0  *)
(* is a geometry and counts as one atom <<s, 0>>, a unit of output as the  *)
(* atom <<s, u>>.  Every generation has the same sizes, so only the number *)
(* of the stream tells two of them apart.                                  *)
(*                                                                         *)
(* Every section of code under journalMu or subscriberMu is one action.    *)
(* writer.mu is held between steps: see muFree.  A write to the connection *)
(* waits for room.                                                         *)
(***************************************************************************)
EXTENDS Naturals, Sequences, FiniteSets, FiniteSetsExt, SequencesExt

CONSTANTS
    Sizes,          \* units of output in record 1, 2, ... of a generation
    Generations,    \* bound: generations of the session
    Attachments,    \* bound: connections the page makes
    Birth,          \* records a generation is admitted with
    FrameUnits,     \* unifiedLiveFrameBytes
    ReplayUnits,    \* unifiedAdmissionReplayBytes
    WireFrames,     \* frames a connection takes before a write waits
    Prepare,        \* recordingPrepareBytes
    Fixed,          \* recordingWriterBytes, recordingReaderFloor, recordingAttachmentBytes
    Floor,          \* recordingReaderFloor
    TailCap,        \* recordingTailBytes
    CatchUpCap,     \* recordingCatchUpReadBytes
    ReaderCap,      \* recordingReaderBudget.capacity
    Attempts,       \* registrationAttempts
    MaxResizes,     \* bound: resizes the page asks for
    MaxHappenings   \* bound: commits, new generations and connections together

ASSUME StreamAssumption ==
    /\ Sizes \in Seq(Nat)
    /\ {Generations, Attachments, Birth, FrameUnits, ReplayUnits, WireFrames, Prepare, Fixed,
        Floor, TailCap, CatchUpCap, ReaderCap, Attempts, MaxResizes, MaxHappenings} \subseteq Nat
    /\ Birth <= Len(Sizes)
    /\ {Generations, Attachments, FrameUnits, WireFrames, Prepare, Fixed} \subseteq Nat \ {0}

VARIABLES
    journal,    \* the session's generations, and who holds journalMu
    sub,        \* unifiedDevSubscriber of each attachment
    att,        \* unifiedAttachmentFrameWriter of each attachment
    lease,      \* recordingReaderLease of each attachment
    conn,       \* the connections: frames in flight, and whether they still take any
    page        \* the browser page

vars == <<journal, sub, att, lease, conn, page>>

A == 1..Attachments
Gen == 1..Generations
LastRecord == Len(Sizes)
Reason == {"generation_rotated", "generation_failed", "subscriber_lagged"}

(***************************************************************************)
(* The committed stream and positions in it.                               *)
(***************************************************************************)
atomsOf(s) == IF Sizes[s] = 0 THEN << <<s, 0>> >> ELSE [u \in 1..Sizes[s] |-> <<s, u>>]

followed(atoms, s) == atoms \o atomsOf(s)
stream == [n \in 0..LastRecord |-> FoldLeft(followed, <<>>, [s \in 1..n |-> s])]
endOf == [n \in 0..LastRecord |-> FoldLeft(+, 0, SubSeq(Sizes, 1, n))]

\* CommittedCursor, and how many atoms a reader at it has consumed.
cursor(seq, offset) == [seq |-> seq, offset |-> offset]
Origin == cursor(0, 0)
consumed(c) == Len(stream[c.seq]) + c.offset - endOf[c.seq]

\* positionWithin: a position inside a record names the record before it.
after(atom) ==
    IF atom[2] < Sizes[atom[1]]
    THEN cursor(atom[1] - 1, endOf[atom[1] - 1] + atom[2])
    ELSE cursor(atom[1], endOf[atom[1]])

\* continuesAt, committedSuffix: where a committed record begins or goes on.
validCursor(c, committed) ==
    /\ c.seq <= committed
    /\ \/ c.offset = endOf[c.seq]
       \/ c.seq < committed /\ c.offset \in endOf[c.seq]..(endOf[c.seq + 1] - 1)

suffix(c, committed) == SubSeq(stream[committed], consumed(c) + 1, Len(stream[committed]))

\* GeometryAt: the newest geometry record at or before seq, 0 for the birth geometry.
geometryAt(seq) == Max({0} \cup {s \in 1..seq : Sizes[s] = 0})

isOutput(atom) == atom[2] # 0
units(atoms) == Cardinality({i \in DOMAIN atoms : isOutput(atoms[i])})
records(atoms) == Cardinality({atoms[i][1] : i \in DOMAIN atoms})
\* SnapshotAllocation, SuffixAllocation, recordingEventBytes: payload and index.
cost(atoms) == units(atoms) + records(atoms)

\* The lengths at which a run of atoms ends with a record.
recordEnds(atoms) ==
    {i \in DOMAIN atoms : i = Len(atoms) \/ atoms[i][1] # atoms[i + 1][1]}

\* PREPARE carries whole output records up to the first geometry or its bound.
replayLength(atoms) ==
    Max({0} \cup {i \in recordEnds(atoms) :
                     i <= ReplayUnits /\ \A j \in 1..i : isOutput(atoms[j])})

\* One catch-up round: as many records as fit, and always one.
roundLength(atoms) ==
    LET fits == {i \in recordEnds(atoms) : cost(SubSeq(atoms, 1, i)) <= CatchUpCap}
    IN IF fits = {} THEN Min(recordEnds(atoms)) ELSE Max(fits)

(***************************************************************************)
(* Frames.  Output is packed into LIVE frames of at most FrameUnits, and a *)
(* geometry ends the run before it.                                        *)
(***************************************************************************)
frame(kind, atoms, at) ==
    [kind |-> kind, atoms |-> atoms, at |-> at, stream |-> 0, resumed |-> FALSE, geometry |-> 0]

\* Mutant: a full frame takes one more unit.
packed_overfull(fs, atom) ==
    IF isOutput(atom) /\ fs # <<>> /\ Last(fs).kind = "LIVE" /\ Len(Last(fs).atoms) <= FrameUnits
    THEN Append(Front(fs), frame("LIVE", Append(Last(fs).atoms, atom), after(atom)))
    ELSE Append(fs, frame(IF isOutput(atom) THEN "LIVE" ELSE "RESIZE", <<atom>>, after(atom)))

packed(fs, atom) ==
    IF isOutput(atom) /\ fs # <<>> /\ Last(fs).kind = "LIVE" /\ Len(Last(fs).atoms) < FrameUnits
    THEN Append(Front(fs), frame("LIVE", Append(Last(fs).atoms, atom), after(atom)))
    ELSE Append(fs, frame(IF isOutput(atom) THEN "LIVE" ELSE "RESIZE", <<atom>>, after(atom)))

frames(atoms) == FoldLeft(packed, <<>>, atoms)

(***************************************************************************)
(* Records of the state.  An attachment's pc is where its writer stands:   *)
(*   attaching                before the lease is acquired                 *)
(*   opening, reading,                                                     *)
(*   holding, refused         in openStream, from PREPARE                  *)
(*   preparing, prepared      writing PREPARE, waiting for READY           *)
(*   backlog                  after COMMIT, in writeBacklogLocked          *)
(*   live, event              in streamTail, with an event in hand         *)
(*   again, round             in catchUp, with a round in hand             *)
(*   ending, stopped          in terminate; no output any more             *)
(* held says that a write has passed its checks and waits for room.        *)
(***************************************************************************)
Where == {"none", "attaching", "opening", "reading", "holding", "refused", "preparing", "prepared",
          "backlog", "live", "event", "again", "round", "ending", "stopped"}

NoPoint == [stream |-> 0, at |-> Origin, generation |-> 0]
NoSub == [key |-> 0, cursor |-> 0, queue |-> <<>>, catchingUp |-> FALSE,
          registered |-> FALSE, verdict |-> "none"]
NoLease == [fixed |-> 0, snapshot |-> 0, events |-> 0, catchUp |-> 0,
            detached |-> FALSE, owned |-> FALSE]
Idle == [pc |-> "none", resume |-> NoPoint, tries |-> 0, key |-> 0, from |-> Origin, to |-> 0, out |-> <<>>,
         delivered |-> Origin, event |-> 0, charge |-> 0, held |-> FALSE, ready |-> FALSE, closing |-> FALSE,
         fence |-> "none"]
\* A writer that has stopped has a closed connection, and reads none of this again.
Stopped == [Idle EXCEPT !.pc = "stopped", !.closing = TRUE]

Init ==
    /\ journal = [active |-> 1, latest |-> 1, ended |-> {}, rotation |-> "none", lock |-> 0,
                  committed |-> [g \in Gen |-> IF g = 1 THEN Birth ELSE 0],
                  published |-> [g \in Gen |-> IF g = 1 THEN Birth ELSE 0]]
    /\ sub = [a \in A |-> NoSub]
    /\ att = [a \in A |-> Idle]
    /\ lease = [a \in A |-> NoLease]
    /\ conn = [a \in A |-> [wire |-> <<>>, open |-> FALSE]]
    /\ page = [generation |-> 0, open |-> FALSE, prepared |-> 0, committed |-> FALSE, shown |-> <<>>,
               stream |-> 0, geometry |-> 0, queue |-> <<>>, point |-> NoPoint, offer |-> NoPoint,
               resizes |-> 0]

(***************************************************************************)
(* The reader budget.  A lease is charged for its fixed part, its snapshot,*)
(* its catch-up round, and its events beyond the floor its fixed part      *)
(* holds; it is gone when nothing of it is left.                           *)
(***************************************************************************)
floored(bytes) == Max({bytes, Floor})
charged(l) == l.fixed + l.snapshot + l.catchUp + floored(l.events) - Floor
charges(leases) == [a \in A |-> charged(leases[a])]
bytesOf(leases) == MapThenSumSet(LAMBDA a : charges(leases)[a], A)
budget == bytesOf(lease)

settled(l) ==
    IF l.detached /\ l.snapshot = 0 /\ l.events = 0 /\ l.catchUp = 0 /\ ~l.owned
    THEN NoLease ELSE l

releaseSnapshot(l) == settled([l EXCEPT !.snapshot = 0])
releaseEvent(l, bytes) == settled([l EXCEPT !.events = @ - bytes])
releaseCatchUp(l) == settled([l EXCEPT !.catchUp = 0])
detach(l) == settled([l EXCEPT !.detached = TRUE])

(***************************************************************************)
(* Subscribers.                                                            *)
(***************************************************************************)
eventBytes == [s \in 1..LastRecord |-> cost(atomsOf(s))]
queued(bytes, seq) == bytes + eventBytes[seq]
queueBytes(queue) == FoldLeft(queued, 0, queue)

\* removeSubscriberLocked, the tail's close and drainClosed.
removed(s) == [s EXCEPT !.registered = FALSE, !.queue = <<>>]
\* Mutant: what a closed queue owned stays charged.
drained_nothing(l, s) == l
drained(l, s) == IF s.registered THEN releaseEvent(l, queueBytes(s.queue)) ELSE l

\* closeTyped: only a registered subscriber gets a verdict.
closed(s, reason) == IF s.registered THEN [removed(s) EXCEPT !.verdict = reason] ELSE s

CloseSubscribers(g, reason) ==
    LET of(a) == sub[a].key = g
    IN /\ sub' = [a \in A |-> IF of(a) THEN closed(sub[a], reason) ELSE sub[a]]
       /\ lease' = [a \in A |-> IF of(a) THEN drained(lease[a], sub[a]) ELSE lease[a]]

\* publishEvent's turn of one subscriber.  Publication never waits for a reader.
offered(st, a) ==
    LET s == st.sub[a]
        l == st.lease[a]
        bytes == eventBytes[st.seq]
        grow == floored(l.events + bytes) - floored(l.events)
        put(news, newl) == [st EXCEPT !.sub[a] = news, !.lease[a] = newl]
        skipped == ~s.registered \/ s.key # st.of \/ s.catchingUp \/ s.cursor >= st.seq
        gap == s.cursor # st.seq - 1
        full == l.events + bytes > TailCap \/ grow > ReaderCap - bytesOf(st.lease)
    IN IF skipped THEN st
       ELSE IF gap THEN put(closed(s, "subscriber_lagged"), drained(l, s))
       ELSE IF full THEN put([s EXCEPT !.catchingUp = TRUE], l)
       ELSE put([s EXCEPT !.queue = Append(@, st.seq), !.cursor = st.seq], [l EXCEPT !.events = @ + bytes])

(***************************************************************************)
(* The journal and its generations.                                        *)
(***************************************************************************)
commits == FoldFunction(+, 0, journal.committed) - journal.latest * Birth
mayHappen == commits + (journal.latest - 1) + page.generation < MaxHappenings

Commit ==
    LET g == journal.active
    IN /\ g # 0 /\ journal.lock = 0 /\ journal.rotation # "sealed" /\ journal.committed[g] < LastRecord
       /\ mayHappen
       /\ journal' = [journal EXCEPT !.committed[g] = @ + 1]
       /\ UNCHANGED <<sub, att, lease, conn, page>>

\* The dispatcher delivers one feed; the map of subscribers has no order.
Publish(g) ==
    LET seq == journal.published[g] + 1
    IN /\ seq <= journal.committed[g]
       /\ journal' = [journal EXCEPT !.published[g] = seq]
       /\ \E order \in {o \in [A -> A] : IsInjective(o)} :
            LET st == FoldLeft(offered, [sub |-> sub, lease |-> lease, of |-> g, seq |-> seq], order)
            IN sub' = st.sub /\ lease' = st.lease
       /\ UNCHANGED <<att, conn, page>>

\* A rotation of the active generation begins, seals it, waits until all of it is
\* dispatched, and swaps.  Only before the seal is there a way back; after it a failure
\* is the generation's.
RotationBegins ==
    /\ journal.active # 0 /\ journal.latest < Generations /\ journal.rotation = "none"
    /\ mayHappen
    /\ journal' = [journal EXCEPT !.rotation = "begun"]
    /\ UNCHANGED <<sub, att, lease, conn, page>>

RotationSeals ==
    /\ journal.rotation = "begun" /\ journal.lock = 0
    /\ journal' = [journal EXCEPT !.rotation = "sealed"]
    /\ UNCHANGED <<sub, att, lease, conn, page>>

RotationAborts ==
    /\ journal.rotation = "begun"
    /\ journal' = [journal EXCEPT !.rotation = "none"]
    /\ UNCHANGED <<sub, att, lease, conn, page>>

admitted(j) ==
    LET g == j.latest + 1
    IN [j EXCEPT !.active = g, !.latest = g, !.rotation = "none", !.committed[g] = Birth, !.published[g] = Birth]

RotationSwaps ==
    LET g == journal.active
    IN /\ journal.rotation = "sealed" /\ journal.published[g] = journal.committed[g] /\ mayHappen
       /\ journal' = admitted(journal)
       /\ CloseSubscribers(g, "generation_rotated")
       /\ UNCHANGED <<att, conn, page>>

\* What is still to be dispatched of a generation without subscribers reaches nobody.
dispatched(j, g) == [j EXCEPT !.published[g] = j.committed[g], !.ended = @ \ {g}]

\* A reap takes the active key away and closes the subscribers in the same section
\* (reapFaultedUnitOnceWithReason, settleOwnerGone) ...
GenerationFails ==
    LET g == journal.active
    IN /\ g # 0
       /\ journal' = dispatched([journal EXCEPT !.active = 0, !.rotation = "none"], g)
       /\ CloseSubscribers(g, "generation_failed")
       /\ UNCHANGED <<att, conn, page>>

\* ... or in a later one (reapUnitOnceContext).
GenerationEnds ==
    /\ journal.active # 0
    /\ journal' = [journal EXCEPT !.active = 0, !.rotation = "none", !.ended = @ \cup {journal.active}]
    /\ UNCHANGED <<sub, att, lease, conn, page>>

EndedClosesSubscribers(g) ==
    /\ g \in journal.ended
    /\ journal' = dispatched(journal, g)
    /\ CloseSubscribers(g, "generation_failed")
    /\ UNCHANGED <<att, conn, page>>

GenerationStarts ==
    /\ journal.active = 0 /\ journal.latest < Generations /\ mayHappen
    /\ journal' = admitted(journal)
    /\ UNCHANGED <<sub, att, lease, conn, page>>

\* Retirement may by now have released the projection of a generation that is over.
mayBeRetired(g) == IF g = journal.active THEN {FALSE} ELSE BOOLEAN

(***************************************************************************)
(* Opening: acquireAttachment, then openStream under writer.mu.            *)
(***************************************************************************)
goes(a, pc) == att' = [att EXCEPT ![a].pc = pc]
stops(a) == att' = [att EXCEPT ![a] = Stopped]
hangsUp(a) == conn' = [conn EXCEPT ![a].open = FALSE]

AttachAcquires(a) ==
    /\ att[a].pc = "attaching"
    /\ IF Fixed + Prepare <= ReaderCap - budget
       THEN /\ goes(a, "opening")
            /\ lease' = [lease EXCEPT ![a] = [@ EXCEPT !.fixed = Fixed, !.snapshot = Prepare, !.owned = TRUE]]
            /\ UNCHANGED conn
       ELSE stops(a) /\ hangsUp(a) /\ UNCHANGED lease
    /\ UNCHANGED <<journal, sub, page>>

\* Epoch.Start reports the failure and the attachment ends.
OpenFails(a) == stops(a) /\ hangsUp(a)

OpenResolves(a) ==
    /\ att[a].pc = "opening"
    /\ IF journal.active = 0 \/ att[a].tries = Attempts THEN OpenFails(a)
       ELSE /\ att' = [att EXCEPT ![a].key = journal.active, ![a].tries = @ + 1, ![a].pc = "reading"]
            /\ UNCHANGED conn
    /\ UNCHANGED <<journal, sub, lease, page>>

\* Mutant: a point in any generation's stream is taken for one in this one's.
resumeFrom_anyStream(resume, g, to) == IF validCursor(resume.at, to) THEN resume.at ELSE Origin
\* Where the snapshot begins: at the page's point if it lies in this stream.
resumeFrom(resume, g, to) ==
    IF resume.stream = g /\ validCursor(resume.at, to) THEN resume.at ELSE Origin

\* The read under journalMu, which stays locked until the registration.
OpenReads(a) ==
    \E retired \in mayBeRetired(att[a].key) :
    LET g == att[a].key
        to == journal.committed[g]
        from == resumeFrom(att[a].resume, g, to)
        bytes == Prepare + cost(suffix(from, to))
        granted == ~retired /\ bytes - lease[a].snapshot <= ReaderCap - budget
    IN /\ att[a].pc = "reading" /\ journal.lock = 0
       /\ journal' = [journal EXCEPT !.lock = a]
       /\ IF granted
          THEN /\ att' = [att EXCEPT ![a].pc = "holding", ![a].from = from, ![a].to = to]
               /\ lease' = [lease EXCEPT ![a].snapshot = bytes]
          ELSE goes(a, "refused") /\ UNCHANGED lease
       /\ UNCHANGED <<sub, conn, page>>

resumes(a) == att[a].resume.stream = att[a].key /\ att[a].from = att[a].resume.at

prepareFrame(a) ==
    LET atoms == suffix(att[a].from, att[a].to)
        n == replayLength(atoms)
    IN [kind |-> "PREPARE", atoms |-> SubSeq(atoms, 1, n),
        at |-> IF n = 0 THEN att[a].from ELSE after(atoms[n]),
        stream |-> att[a].key, resumed |-> resumes(a), geometry |-> geometryAt(att[a].from.seq)]

backlog(a) ==
    LET atoms == suffix(att[a].from, att[a].to)
    IN SubSeq(atoms, replayLength(atoms) + 1, Len(atoms))

\* The active key and the publication head are read again, with every publisher and
\* every swap excluded; whoever lost the race tries again.
OpenRegisters(a) ==
    LET g == att[a].key
        to == att[a].to
        stale == journal.active # g \/ journal.published[g] > to
        released == lease' = [lease EXCEPT ![a] = releaseSnapshot(@)]
    IN /\ att[a].pc = "holding"
       /\ journal' = [journal EXCEPT !.lock = 0]
       /\ \/ stale /\ journal.active # 0 /\ goes(a, "opening") /\ released /\ UNCHANGED <<sub, conn>>
          \/ journal.active = 0 /\ OpenFails(a) /\ released /\ UNCHANGED sub
          \/ /\ ~stale
             /\ sub' = [sub EXCEPT ![a] = [NoSub EXCEPT !.key = g, !.cursor = to, !.catchingUp = TRUE,
                                                       !.registered = TRUE]]
             /\ att' = [att EXCEPT ![a] = [Idle EXCEPT !.pc = "preparing", !.delivered = cursor(to, endOf[to]),
                                                       !.out = <<prepareFrame(a)>> \o frames(backlog(a))]]
             /\ UNCHANGED <<lease, conn>>
       /\ UNCHANGED page

OpenRefused(a) ==
    /\ att[a].pc = "refused"
    /\ journal' = [journal EXCEPT !.lock = 0]
    /\ lease' = [lease EXCEPT ![a] = releaseSnapshot(@)]
    /\ IF journal.active # 0 /\ (journal.active # att[a].key \/ journal.rotation # "none")
       THEN goes(a, "opening") /\ UNCHANGED conn
       ELSE OpenFails(a)
    /\ UNCHANGED <<sub, page>>

(***************************************************************************)
(* Writing.  writer.mu is held through openStream, PREPARE, COMMIT and the *)
(* backlog, and otherwise while a write that passed its checks is parked.  *)
(***************************************************************************)
muFree(a) ==
    /\ att[a].pc \in {"attaching", "prepared", "live", "event", "again", "round", "stopped"}
    /\ ~att[a].held

verdict(a) == sub[a].verdict
room(a) == Len(conn[a].wire) < WireFrames
sends(a, f) == conn' = [conn EXCEPT ![a].wire = Append(@, f)]

\* A failed WriteFrame settles its snapshot and cancels its subscriber.
cancels(a) ==
    /\ sub' = [sub EXCEPT ![a] = NoSub]
    /\ lease' = [lease EXCEPT ![a] = detach(releaseSnapshot(drained(@, sub[a])))]

WriteFails(a) ==
    /\ ~conn[a].open
    /\ \/ att[a].pc \in {"preparing", "backlog"}
       \/ att[a].pc = "prepared" /\ att[a].ready
    /\ stops(a) /\ cancels(a)
    /\ UNCHANGED <<journal, conn, page>>

PrepareWrites(a) ==
    /\ att[a].pc = "preparing" /\ conn[a].open /\ room(a)
    /\ att' = [att EXCEPT ![a].pc = "prepared", ![a].out = Tail(@)]
    /\ sends(a, Head(att[a].out))
    /\ UNCHANGED <<journal, sub, lease, page>>

\* READY has arrived: checkVerdict, COMMIT, and the backlog after it.
CommitWrites(a) ==
    /\ att[a].pc = "prepared" /\ att[a].ready /\ conn[a].open /\ room(a)
    /\ att[a].held \/ verdict(a) = "none"
    /\ att' = [att EXCEPT ![a].pc = "backlog", ![a].held = FALSE]
    /\ sends(a, frame("COMMIT", <<>>, Origin))
    /\ UNCHANGED <<journal, sub, lease, page>>

\* The checks before a write: a verdict; and outside WriteFrame also the writer's
\* closing and, for a geometry, the resize this attachment has begun.
mayWrite(a) ==
    \/ att[a].held
    \/ /\ verdict(a) = "none"
       /\ att[a].pc = "backlog" \/
            /\ ~att[a].closing
            /\ Head(att[a].out).kind = "RESIZE" => att[a].fence \in {"none", "ok"}

FrameWrites(a) ==
    /\ att[a].pc \in {"backlog", "event", "round"} /\ att[a].out # <<>> /\ mayWrite(a)
    /\ conn[a].open /\ room(a)
    /\ sends(a, Head(att[a].out))
    /\ att' = [att EXCEPT ![a].out = Tail(@), ![a].held = (att[a].pc = "event" /\ Len(att[a].out) > 1)]
    /\ UNCHANGED <<journal, sub, lease, page>>

\* A write that finds no room is past its checks.
WriteParks(a) ==
    /\ ~att[a].held /\ conn[a].open /\ ~room(a)
    /\ \/ att[a].pc = "prepared" /\ att[a].ready /\ verdict(a) = "none"
       \/ att[a].pc \in {"backlog", "event", "round"} /\ att[a].out # <<>> /\ mayWrite(a)
    /\ att' = [att EXCEPT ![a].held = TRUE]
    /\ UNCHANGED <<journal, sub, lease, conn, page>>

BacklogEnds(a) ==
    /\ att[a].pc = "backlog" /\ att[a].out = <<>>
    /\ goes(a, "live")
    /\ lease' = [lease EXCEPT ![a] = releaseSnapshot(@)]
    /\ UNCHANGED <<journal, sub, conn, page>>

\* What streamTail has in hand is settled only when its last write has returned.
handBytes(a) == IF att[a].event = 0 THEN 0 ELSE eventBytes[att[a].event]
handSettled(a) == releaseCatchUp(releaseEvent(lease[a], handBytes(a)))

HandEnds(a) ==
    /\ att[a].pc \in {"event", "round"} /\ att[a].out = <<>>
    /\ att' = [att EXCEPT ![a].pc = IF @ = "event" THEN "live" ELSE "again",
                          ![a].delivered = cursor(att[a].to, endOf[att[a].to]),
                          ![a].to = 0, ![a].event = 0, ![a].charge = 0]
    /\ lease' = [lease EXCEPT ![a] = handSettled(a)]
    /\ UNCHANGED <<journal, sub, conn, page>>

\* A write that failed, or a check that refused it: with a verdict the writer
\* terminates, without one it stops.
HandFails(a) ==
    /\ att[a].pc \in {"event", "round"} /\ att[a].out # <<>>
    /\ \/ ~conn[a].open
       \/ ~att[a].held /\ (verdict(a) # "none" \/ att[a].closing)
       \/ ~att[a].held /\ Head(att[a].out).kind = "RESIZE" /\ att[a].fence = "failed"
    /\ IF verdict(a) # "none"
       THEN /\ att' = [att EXCEPT ![a] = [Idle EXCEPT !.pc = "ending", !.closing = TRUE, !.fence = att[a].fence]]
            /\ lease' = [lease EXCEPT ![a] = handSettled(a)]
            /\ UNCHANGED sub
       ELSE /\ stops(a)
            /\ sub' = [sub EXCEPT ![a] = NoSub]
            /\ lease' = [lease EXCEPT ![a] = detach(drained(handSettled(a), sub[a]))]
    /\ UNCHANGED <<journal, conn, page>>

(***************************************************************************)
(* streamTail and catchUp.                                                 *)
(***************************************************************************)
TailTakes(a) ==
    /\ att[a].pc = "live" /\ verdict(a) = "none" /\ sub[a].queue # <<>>
    /\ LET seq == Head(sub[a].queue)
       IN /\ att' = [att EXCEPT ![a].pc = "event", ![a].event = seq, ![a].to = seq,
                                ![a].out = frames(atomsOf(seq))]
          /\ sub' = [sub EXCEPT ![a].queue = Tail(@)]
    /\ UNCHANGED <<journal, lease, conn, page>>

TailCatchesUp(a) ==
    /\ att[a].pc = "live" /\ verdict(a) = "none" /\ sub[a].registered
    /\ sub[a].queue = <<>> /\ sub[a].catchingUp
    /\ goes(a, "again")
    /\ UNCHANGED <<journal, sub, lease, conn, page>>

\* Mutant: a reader behind the frontier rejoins the queue.
Rejoins_behind(a) ==
    /\ att[a].pc = "again" /\ journal.lock = 0 /\ sub[a].registered
    /\ sub' = [sub EXCEPT ![a].cursor = att[a].delivered.seq, ![a].catchingUp = FALSE]
    /\ goes(a, "live")
    /\ UNCHANGED <<journal, lease, conn, page>>

\* readCatchUp at the committed frontier: under both locks it rejoins the queue.
Rejoins(a) ==
    /\ att[a].pc = "again" /\ journal.lock = 0 /\ sub[a].registered
    /\ journal.committed[sub[a].key] = att[a].delivered.seq
    /\ sub' = [sub EXCEPT ![a].cursor = att[a].delivered.seq, ![a].catchingUp = FALSE]
    /\ goes(a, "live")
    /\ UNCHANGED <<journal, lease, conn, page>>

\* readCatchUp behind it: a bounded round, charged before it is copied, or a refusal,
\* which ends a subscriber still registered.
ReadsRound(a) ==
    \E retired \in mayBeRetired(sub[a].key) :
    LET g == sub[a].key
        atoms == suffix(att[a].delivered, journal.committed[g])
        round == SubSeq(atoms, 1, roundLength(atoms))
        granted == ~retired /\ ~lease[a].detached /\ cost(round) <= ReaderCap - budget
    IN /\ att[a].pc = "again" /\ journal.lock = 0
       /\ journal.committed[g] # att[a].delivered.seq
       /\ IF granted
          THEN /\ att' = [att EXCEPT ![a].pc = "round", ![a].out = frames(round),
                                     ![a].charge = cost(round), ![a].to = Last(round)[1]]
               /\ lease' = [lease EXCEPT ![a].catchUp = @ + cost(round)]
               /\ UNCHANGED sub
          ELSE /\ sub' = [sub EXCEPT ![a] = closed(@, "subscriber_lagged")]
               /\ lease' = [lease EXCEPT ![a] = drained(@, sub[a])]
               /\ goes(a, "live")
       /\ UNCHANGED <<journal, conn, page>>

CatchUpEnds(a) ==
    /\ att[a].pc = "again" /\ ~sub[a].registered
    /\ journal.committed[sub[a].key] = att[a].delivered.seq
    /\ goes(a, "live")
    /\ UNCHANGED <<journal, sub, lease, conn, page>>

\* A closed tail without a verdict is the attachment's own end.
TailStops(a) ==
    /\ att[a].pc = "live" /\ ~sub[a].registered /\ verdict(a) = "none"
    /\ stops(a) /\ cancels(a)
    /\ UNCHANGED <<journal, conn, page>>

(***************************************************************************)
(* Ends.  A verdict outranks everything not yet written.                   *)
(***************************************************************************)
SeesVerdict(a) ==
    /\ verdict(a) # "none" /\ ~att[a].held
    /\ \/ att[a].pc = "live"
       \/ att[a].pc = "prepared" /\ att[a].ready
       \/ att[a].pc = "backlog" /\ att[a].out # <<>>
    /\ att' = [att EXCEPT ![a] = [Idle EXCEPT !.pc = "ending", !.closing = TRUE, !.fence = att[a].fence]]
    /\ UNCHANGED <<journal, sub, lease, conn, page>>

settledFence(fence) == IF fence = "open" THEN "failed" ELSE fence

\* terminate: the typed reason in-band, the connection closed, the output stopped.
Terminates(a) ==
    /\ att[a].pc = "ending"
    /\ \/ ~conn[a].open /\ UNCHANGED conn
       \/ /\ conn[a].open /\ room(a)
          /\ conn' = [conn EXCEPT ![a] = [wire |-> Append(@.wire, frame("END", <<>>, Origin)), open |-> FALSE]]
    /\ stops(a) /\ cancels(a)
    /\ UNCHANGED <<journal, page>>

\* watchVerdict: after the grace the connection is closed from outside writer.mu.
GraceEnds(a) ==
    /\ verdict(a) # "none" /\ conn[a].open
    /\ hangsUp(a)
    /\ UNCHANGED <<journal, sub, att, lease, page>>

\* The attach loop returns from a closed connection: stopOutput, Finalize, done.
LoopEnds(a) ==
    /\ ~conn[a].open /\ lease[a].owned /\ muFree(a)
    /\ IF att[a].pc \in {"prepared", "stopped"}
       THEN stops(a) /\ sub' = [sub EXCEPT ![a] = NoSub]
       ELSE /\ att' = [att EXCEPT ![a].closing = TRUE, ![a].fence = settledFence(@)]
            /\ sub' = [sub EXCEPT ![a] = removed(@)]
    /\ lease' = [lease EXCEPT ![a] =
                   settled([detach(releaseSnapshot(drained(@, sub[a]))) EXCEPT !.owned = FALSE])]
    /\ UNCHANGED <<journal, conn, page>>

(***************************************************************************)
(* The resize fence: begun by the input reader, settled on READY's own     *)
(* goroutine, or with an error, which ends the attachment.                 *)
(***************************************************************************)
BeginResize(a) ==
    /\ page.open /\ page.generation = a /\ page.committed /\ page.resizes < MaxResizes
    /\ conn[a].open /\ muFree(a) /\ ~att[a].closing /\ att[a].fence # "open"
    /\ att' = [att EXCEPT ![a].fence = "open"]
    /\ page' = [page EXCEPT !.resizes = @ + 1]
    /\ UNCHANGED <<journal, sub, lease, conn>>

SettleResize(a) ==
    /\ att[a].fence = "open" /\ muFree(a)
    /\ \/ att' = [att EXCEPT ![a].fence = "ok"] /\ UNCHANGED conn
       \/ att' = [att EXCEPT ![a].fence = "failed"] /\ hangsUp(a)
    /\ UNCHANGED <<journal, sub, lease, page>>

(***************************************************************************)
(* The page.  Everything that changes what the terminal shows goes through *)
(* its write queue, and the resume point moves as the queue is parsed.     *)
(***************************************************************************)
write(op, f) == [op |-> op, gen |-> page.generation, frame |-> f]

\* resumeHolds: a resumed PREPARE continues exactly what the terminal shows.
resumeHolds(f) ==
    LET offer == page.offer
    IN /\ offer # NoPoint /\ page.point # NoPoint /\ page.queue = <<>>
       /\ page.point.stream = offer.stream /\ page.point.at = offer.at
       /\ f.stream = offer.stream /\ f.geometry = page.geometry
       /\ f.at.offset = offer.at.offset + Len(f.atoms)
       /\ IF f.atoms = <<>> THEN f.at.seq = offer.at.seq ELSE f.at.seq > offer.at.seq

inState(f) ==
    \/ f.kind = "PREPARE" /\ (f.resumed => resumeHolds(f))
    \/ f.kind = "COMMIT" /\ page.prepared = page.generation
    \/ f.kind \in {"LIVE", "RESIZE"} /\ page.committed

pageClosed(p) == [p EXCEPT !.open = FALSE, !.committed = FALSE]
pageHangsUp == conn' = [conn EXCEPT ![page.generation] = [wire |-> <<>>, open |-> FALSE]]

PageReceives ==
    LET g == page.generation
        f == Head(conn[g].wire)
        forgotten == [page EXCEPT !.point = NoPoint, !.offer = NoPoint]
        admission == [forgotten EXCEPT !.prepared = g]
    IN /\ page.open /\ conn[g].wire # <<>> /\ Len(page.queue) < WireFrames
       /\ \/ /\ ~inState(f)
             /\ page' = pageClosed(IF f.kind = "PREPARE" THEN forgotten ELSE page)
             /\ pageHangsUp
          \/ /\ inState(f)
             /\ conn' = [conn EXCEPT ![g].wire = Tail(@)]
             /\ \/ /\ f.kind = "PREPARE" /\ f.resumed
                   /\ page' = [admission EXCEPT !.queue = Append(@, write("REPLAY", f))]
                \/ /\ f.kind = "PREPARE" /\ ~f.resumed
                   /\ page' = [admission EXCEPT !.queue = @ \o <<write("RESET", f), write("REPLAY", f)>>]
                \/ /\ f.kind = "COMMIT"
                   /\ page' = [page EXCEPT !.committed = TRUE]
                \/ /\ f.kind \in {"LIVE", "RESIZE"}
                   /\ page' = [page EXCEPT !.queue = Append(@, write(f.kind, f))]
       /\ UNCHANGED <<journal, sub, att, lease>>

\* advanceResume: a frame that does not follow the point loses it.
advanced(point, w) ==
    LET n == units(w.frame.atoms)
        follows == /\ point # NoPoint /\ w.gen = point.generation
                   /\ w.frame.at.offset = point.at.offset + n
                   /\ IF n = 0 THEN w.frame.at.seq > point.at.seq ELSE w.frame.at.seq >= point.at.seq
    IN IF follows THEN [point EXCEPT !.at = w.frame.at] ELSE NoPoint

\* xterm parses one write and runs its callback.
PageParses ==
    LET w == Head(page.queue)
        current == page.prepared = w.gen
        rest == [page EXCEPT !.queue = Tail(@)]
        grown == [rest EXCEPT !.shown = @ \o w.frame.atoms]
    IN /\ page.queue # <<>>
       /\ \/ /\ w.op = "RESET" /\ current
             /\ page' = [rest EXCEPT !.shown = <<>>, !.stream = w.frame.stream, !.geometry = w.frame.geometry]
          \/ w.op = "RESET" /\ ~current /\ page' = rest
          \/ /\ w.op = "REPLAY" /\ current
             /\ page' = [grown EXCEPT !.point = [stream |-> w.frame.stream, at |-> w.frame.at, generation |-> w.gen]]
          \/ w.op = "REPLAY" /\ ~current /\ page' = grown
          \/ w.op = "LIVE" /\ page' = [grown EXCEPT !.point = advanced(@, w)]
          \/ /\ w.op = "RESIZE"
             /\ page' = [grown EXCEPT !.point = advanced(@, w), !.geometry = w.frame.atoms[1][1]]
       /\ IF w.op = "REPLAY" /\ current /\ conn[w.gen].open
          THEN att' = [att EXCEPT ![w.gen].ready = TRUE]
          ELSE UNCHANGED att
       /\ UNCHANGED <<journal, sub, lease, conn>>

\* The network, the page or the front door ends the connection, at any time.
PageDisconnects ==
    /\ page.open
    /\ page' = pageClosed(page)
    /\ pageHangsUp
    /\ UNCHANGED <<journal, sub, att, lease>>

\* openTransport after resumeProtocol; a history reload has forgotten the point.
PageConnects(reload) ==
    LET g == page.generation + 1
        point == IF reload THEN NoPoint ELSE page.point
        offer == IF page.queue = <<>> THEN point ELSE NoPoint
    IN /\ ~page.open /\ page.generation < Attachments /\ mayHappen
       /\ page' = [page EXCEPT !.generation = g, !.open = TRUE, !.prepared = 0, !.committed = FALSE,
                               !.point = point, !.offer = offer]
       /\ att' = [att EXCEPT ![g] = [@ EXCEPT !.pc = "attaching", !.resume = offer]]
       /\ conn' = [conn EXCEPT ![g].open = TRUE]
       /\ UNCHANGED <<journal, sub, lease>>

(***************************************************************************)
(* The specification.                                                      *)
(***************************************************************************)
Writer(a) ==
    \/ AttachAcquires(a) \/ OpenResolves(a) \/ OpenReads(a) \/ OpenRegisters(a) \/ OpenRefused(a)
    \/ PrepareWrites(a) \/ CommitWrites(a) \/ FrameWrites(a) \/ WriteParks(a) \/ WriteFails(a)
    \/ BacklogEnds(a) \/ HandEnds(a) \/ HandFails(a)
    \/ TailTakes(a) \/ TailCatchesUp(a) \/ Rejoins(a) \/ ReadsRound(a) \/ CatchUpEnds(a) \/ TailStops(a)
    \/ SeesVerdict(a) \/ Terminates(a)

Journal ==
    \/ Commit \/ RotationBegins \/ RotationSeals \/ RotationAborts \/ RotationSwaps \/ GenerationStarts
    \/ GenerationFails \/ GenerationEnds
    \/ \E g \in Gen : Publish(g) \/ EndedClosesSubscribers(g)

Page ==
    \/ PageReceives \/ PageParses \/ PageDisconnects
    \/ \E reload \in BOOLEAN : PageConnects(reload)

Next ==
    \/ Journal
    \/ Page
    \/ \E a \in A : Writer(a) \/ GraceEnds(a) \/ LoopEnds(a) \/ BeginResize(a) \/ SettleResize(a)

\* The broker's own goroutines run on and its timers fire; the page, the network, the
\* recording and its rotations owe nothing.
Fairness ==
    /\ WF_vars(\E g \in Gen : Publish(g)) /\ WF_vars(\E g \in Gen : EndedClosesSubscribers(g))
    /\ \A a \in A : WF_vars(Writer(a)) /\ WF_vars(GraceEnds(a)) /\ WF_vars(LoopEnds(a))
                    /\ WF_vars(SettleResize(a))

Spec == Init /\ [][Next]_vars /\ Fairness

(***************************************************************************)
(* Properties.                                                             *)
(***************************************************************************)
Atom == UNION {{<<s, u>> : u \in 0..Sizes[s]} : s \in 1..LastRecord}
Cursor == [seq : 0..LastRecord, offset : 0..endOf[LastRecord]]
Point == [stream : 0..Generations, at : Cursor, generation : 0..Attachments]
isFrame(f) ==
    /\ f \in [kind : {"PREPARE", "COMMIT", "LIVE", "RESIZE", "END"}, atoms : Seq(Atom), at : Cursor,
              stream : 0..Generations, resumed : BOOLEAN, geometry : 0..LastRecord]
    /\ f.kind = "LIVE" => Len(f.atoms) \in 1..FrameUnits
    /\ f.kind = "PREPARE" => Len(f.atoms) <= ReplayUnits

\* Every variable has its type.  A LIVE frame and a PREPARE stay within their bounds, and a
\* connection holds no more frames than it takes (writeLiveLocked, WriteFrame).
TypeOK ==
    /\ journal \in [active : 0..Generations, latest : Gen, ended : SUBSET Gen,
                    rotation : {"none", "begun", "sealed"},
                    lock : 0..Attachments, committed : [Gen -> 0..LastRecord],
                    published : [Gen -> 0..LastRecord]]
    /\ sub \in [A -> [key : 0..Generations, cursor : 0..LastRecord, queue : Seq(1..LastRecord),
                      catchingUp : BOOLEAN, registered : BOOLEAN, verdict : Reason \cup {"none"}]]
    /\ \A a \in A :
         /\ att[a].pc \in Where /\ att[a].resume \in Point /\ att[a].from \in Cursor
         /\ att[a].delivered \in Cursor /\ att[a].fence \in {"none", "open", "ok", "failed"}
         /\ \A i \in DOMAIN att[a].out : isFrame(att[a].out[i])
         /\ \A i \in DOMAIN conn[a].wire : isFrame(conn[a].wire[i])
         /\ Len(conn[a].wire) <= WireFrames
    /\ lease \in [A -> [fixed : {0, Fixed}, snapshot : Nat, events : Nat, catchUp : Nat,
                        detached : BOOLEAN, owned : BOOLEAN]]
    /\ page.shown \in Seq(Atom) /\ page.point \in Point /\ page.offer \in Point

\* A page that is admitted, or holds a resume point, shows a view of the recording.
shownView ==
    IF ~page.committed /\ page.point = NoPoint
    THEN [stream |-> 0, shown |-> <<>>, geometry |-> 0, resume |-> 0]
    ELSE [stream |-> page.stream, shown |-> page.shown, geometry |-> page.geometry,
          resume |-> IF page.point = NoPoint THEN Len(page.shown)
                     ELSE IF page.point.stream = page.stream THEN consumed(page.point.at)
                     ELSE Len(stream[LastRecord]) + 1]

Promised == INSTANCE RecordedView WITH
    Content <- stream, committed <- journal.committed, view <- shownView

\* Through rotations, lagging, catch-up, lost connections and resumed admissions, a page
\* that is admitted, or that holds a resume point, shows the beginning of what one
\* generation committed, at the geometry in force there, and from then on only more of
\* it; its point is exactly what it shows (openStream, publishEvent, readCatchUp,
\* streamTail, acceptPrepare, advanceResume).
PageFollowsRecording == Promised!Spec

\* The aggregate budget is never exceeded, and follows copies: a lease is charged for
\* exactly the events its queue and its writer own and for the round its writer holds,
\* and whatever is still to be written is still charged (recording_readers.go).
BudgetBalances ==
    /\ budget <= ReaderCap
    /\ \A a \in A :
         /\ lease[a].events = queueBytes(sub[a].queue) + handBytes(a)
         /\ lease[a].catchUp = att[a].charge
         /\ att[a].pc \in {"preparing", "backlog"} => lease[a].snapshot # 0
         /\ att[a].pc \in {"live", "again", "event", "round"} => lease[a].snapshot = 0
         /\ sub[a].registered => lease[a].fixed # 0 /\ ~lease[a].detached

\* A reader the provider has removed, or whose connection is gone, gives everything back,
\* whatever its page does: also when the writer is parked behind a page that reads
\* nothing (watchVerdict, terminate, stopOutput, releaseLocked).
ReadersEnd ==
    \A a \in A : (verdict(a) # "none" \/ (att[a].pc # "none" /\ ~conn[a].open)) ~> lease[a] = NoLease

\* A page that goes on reading on a connection that stays up shows everything its
\* generation has committed: catching up from the journal and rejoining the queue loses
\* no record and no wakeup (recording_tail.go, readCatchUp).
PageCatchesUp ==
    \A a \in A :
        /\ WF_vars(PageReceives) /\ WF_vars(PageParses)
        /\ <>[](page.generation = a /\ page.open /\ conn[a].open)
        => []<>(page.stream \in Gen /\ page.shown = stream[journal.committed[page.stream]])

\* Both of the above: no reader is left waiting, and none is left holding.
EveryReaderSettles == ReadersEnd /\ PageCatchesUp
=============================================================================
