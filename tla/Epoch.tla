------------------------------- MODULE Epoch -------------------------------
(***************************************************************************)
(* One terminal.Epoch (internal/terminal): the owner of one browser        *)
(* attachment to one tmux pane, from BIND to exact-ID cleanup.             *)
(*                                                                         *)
(* e is the Epoch struct; every section of code under e.mu is one action,  *)
(* built from operators that take the struct to its next value.  The other *)
(* variables are the program counters of the goroutines that call into it: *)
(* the PTY reader, the attachment's frame loop, the journal writer's       *)
(* server-side READY, the owner loop, the goroutine that runs a cut, the   *)
(* pending-history goroutines, teardown and Finalize.                      *)
(*                                                                         *)
(* PTY output is the sequence 1, 2, 3, ...: one number stands for the      *)
(* bytes of one read.  generationLease changes only when the terminal      *)
(* result is published, so a lease is stale exactly when e.terminal is     *)
(* set and needs no variable.  RECONNECT takes the path of INITIAL.        *)
(***************************************************************************)
EXTENDS Naturals, Sequences, SequencesExt

CONSTANTS
    Scenarios,          \* what an epoch is given; see Scenario
    ReplayCap,          \* ReplayByteCap, in reads
    HeldCap,            \* HeldByteCap, in reads
    MaxInputFrames,     \* of the transitional buffer and of the pump
    MaxTransitionalModeRequests

(***************************************************************************)
(* outputOwner says that the frame writer is journal backed, max bounds    *)
(* what the PTY and the browser do (cuts: after so many no scheduled or    *)
(* deferred cut starts), rooms is what a full egress queue may still take, *)
(* faults are the failures the environment may inject.                     *)
(***************************************************************************)
Room == {"none", "end", "all"}
Fault == {"bind", "cut", "resize", "refuse", "pty", "marker",
          "input", "egress", "cleanup", "cancel"}
Bounds == [output : Nat, cuts : Nat, history : Nat, resizes : Nat, input : Nat, modes : Nat]
Scenario == [outputOwner : BOOLEAN, max : Bounds, rooms : SUBSET Room, faults : SUBSET Fault]

ASSUME EpochAssumption ==
    /\ Scenarios \subseteq Scenario
    /\ \A s \in Scenarios : "all" \in s.rooms
    /\ {ReplayCap, HeldCap, MaxInputFrames, MaxTransitionalModeRequests} \subseteq Nat

VARIABLES
    e,          \* the Epoch struct; e.given never changes
    attached,   \* tmux holds the shadow session and client whose IDs BIND learned
    stray,      \* what a BIND client that ended without an ID left in tmux
    canceled,   \* the context of NewEpoch is done
    starter,    \* runStartAttempt
    runner,     \* the goroutine inside runCut or source.resize
    reader,     \* delayedPTY.drain
    browser,    \* the attachment's frame loop
    acker,      \* the journal writer's server-side READY
    histories,  \* spawned beginPendingHistory goroutines that have not run
    owner,      \* ownerLoop
    teardown,   \* teardown
    finalizer   \* Finalize

threads == <<starter, runner, reader, browser, acker, histories, owner, teardown, finalizer>>
vars == <<e, attached, stray, canceled, threads>>

Kind == {"initial", "ongoing", "resize", "history"}
Mode == {"observe", "control"}
Cause == {"orderly", "canceled", "fault", "invariant", "outOfState",
          "scheduler", "resizeBusy", "historyBusy", "unresolvedBind"}
InputId == 1..e.given.max.input
Request == 1..e.given.max.history

NoCut == [id |-> 0]
NoTerminal == [cause |-> "none"]
NoRunner == [who |-> "none", id |-> 0, pc |-> "none"]

(***************************************************************************)
(* Frames.  at is a ghost: the reads the PTY had delivered before the      *)
(* marker of the cut a PREPARE publishes.                                  *)
(***************************************************************************)
frame(type, cut, data) == [type |-> type, cut |-> cut, data |-> data,
                           kind |-> "none", request |-> 0, at |-> 0]
live(s, data) == frame("LIVE", s.protocol.cut, data)
modeFrame(m) == frame("MODE", 0, m)

(***************************************************************************)
(* automaton.apply, one guard per frame type.                              *)
(***************************************************************************)
mayPrepare(p, c) ==
    /\ p.state \in {"awaitPrepare", "live"}
    /\ c.id > p.cut
    /\ (p.state = "awaitPrepare") = (c.kind = "initial")

afterPrepare(p, c) == [p EXCEPT !.state = "prepared", !.cut = c.id]

mayAnswer(p, cut) == p.state = "prepared" /\ p.cut = cut
mayLive(p) == p.state = "live"
mayMode(p) == p.state = "live"
mayInput(p) == p.state = "live" /\ p.mode = "control"
mayHistory(p) == p.state \in {"live", "prepared", "ready"}

(***************************************************************************)
(* egress.enqueueBatch: every frame or none, and a journal-backed writer   *)
(* drops LIVE.  room says what the bounded queue has place for: all of the *)
(* batch, the END frame only, or nothing.                                  *)
(***************************************************************************)
kept(frames) ==
    SelectSeq(frames, LAMBDA f : ~(e.given.outputOwner /\ f.type = "LIVE"))

mayEnqueue(s, frames, room) ==
    /\ ~s.egress.closed
    /\ kept(frames) = <<>> \/ room = "all"

enqueued(s, frames) == [s EXCEPT !.egress.wire = @ \o kept(frames)]

(***************************************************************************)
(* inputPump, without its generations: an item of an older one was         *)
(* discarded when the generation moved.                                    *)
(***************************************************************************)
settle(s, ids) ==
    [s EXCEPT !.settled = [i \in InputId |-> @[i] + (IF i \in ids THEN 1 ELSE 0)]]

\* discardQueuedLocked, with the running write's context cancelled.
revoke(s) ==
    [settle(s, ToSet(s.input.queue)) EXCEPT
        !.input.queue = <<>>, !.input.mode = "observe", !.input.revoked = TRUE]

setMode(s, m) == IF m = "observe" THEN revoke(s) ELSE [s EXCEPT !.input.mode = m]

seal(s) == IF s.input.sealed THEN s
           ELSE [revoke(s) EXCEPT !.input.closed = TRUE, !.input.sealed = TRUE]

\* Mutant: a batch is measured without what the pump already holds.
mayPump_batchOnly(s, n) ==
    ~s.input.closed /\ s.input.mode = "control" /\ n <= MaxInputFrames

mayPump(s, n) ==
    /\ ~s.input.closed
    /\ s.input.mode = "control"
    /\ n + Len(s.input.queue) <= MaxInputFrames

pumped(s, ids) == [s EXCEPT !.input.queue = @ \o ids]

(***************************************************************************)
(* Terminal publication.                                                   *)
(***************************************************************************)
finishActive(s) == [s EXCEPT !.active = NoCut]

\* Mutant: input held by a cut disappears with the cut.
dropTransitional_silent(s) ==
    [s EXCEPT !.transitionalInput = <<>>, !.transitionalModes = <<>>]

dropTransitional(s) ==
    [settle(s, ToSet(s.transitionalInput)) EXCEPT
        !.transitionalInput = <<>>, !.transitionalModes = <<>>]

clearTransitional(s) ==
    [s EXCEPT !.transitionalInput = <<>>, !.transitionalModes = <<>>]

\* END is published unless the protocol ended or the queue refuses it.
published(s, room) ==
    IF s.protocol.state # "ended" /\ ~s.egress.closed /\ room # "none"
    THEN [s EXCEPT !.egress.wire = Append(@, frame("END", 0, <<>>)),
                   !.protocol.state = "ended"]
    ELSE s

resolveStart(s) ==
    IF s.start.phase # "none" /\ s.start.result = "none"
    THEN [s EXCEPT !.start.result = "terminal", !.start.phase = "terminal"]
    ELSE s

publishTerminal(s, cause, room) ==
    LET owned == IF s.start.phase = "none" THEN "none" ELSE s.start.ownership
        quiet == finishActive([dropTransitional(s) EXCEPT !.ingress = <<>>, !.replay = <<>>])
    IN  resolveStart(seal([published(quiet, room) EXCEPT
                             !.terminal = [cause |-> cause, ownership |-> owned]]))

\* Mutant: the end is published while BIND is still out.
requestTerminal_eager(s, cause, room) ==
    IF s.terminal # NoTerminal THEN s ELSE publishTerminal(s, cause, room)

\* While BIND may still hand over an attachment the request is only recorded:
\* the terminal result must name the ownership it leaves behind.
requestTerminal(s, cause, room) ==
    IF s.terminal # NoTerminal THEN s
    ELSE IF s.start.phase = "binding" /\ s.start.ownership = "pending"
         THEN IF s.start.pending # "none" THEN s
              ELSE [s EXCEPT !.start.pending = cause, !.ingress = <<>>, !.replay = <<>>]
    ELSE publishTerminal(s, IF s.start.pending # "none" THEN s.start.pending ELSE cause, room)

\* The outcome of a step that may fail: the struct, and why it must end.
ok(s) == [s |-> s, err |-> "ok"]
fails(s, cause) == [s |-> s, err |-> cause]
resolve(o, room) == IF o.err = "ok" THEN o.s ELSE requestTerminal(o.s, o.err, room)

(***************************************************************************)
(* PREPARE needs the capture of the CUT transaction and the marker on the  *)
(* PTY, which arrive in either order on different goroutines.              *)
(***************************************************************************)
maybePublishPrepare(s, room) ==
    LET c == s.active
        prepare == [frame("PREPARE", c.id, IF e.given.outputOwner THEN <<>> ELSE c.pre)
                      EXCEPT !.kind = c.kind, !.request = c.request, !.at = c.at]
        sent == [enqueued(s, <<prepare>>) EXCEPT
                   !.protocol = afterPrepare(@, c), !.active.prepared = TRUE]
        contradicted ==
            \/ /\ c.kind = "initial"
               /\ \/ s.start.phase # "awaiting"
                  \/ s.start.pending # "none"
                  \/ s.start.ownership # "exact"
            \/ c.kind = "history" /\ s.phase[c.request] # "issued"
            \/ ~mayPrepare(s.protocol, c)
    IN  IF s.terminal # NoTerminal THEN ok(s)
        ELSE IF c = NoCut THEN fails(s, "invariant")
        ELSE IF c.prepared \/ ~c.captured \/ ~c.marked THEN ok(s)
        ELSE IF contradicted THEN fails(s, "invariant")
        ELSE IF ~mayEnqueue(s, <<prepare>>, room) THEN fails(s, "fault")
        ELSE IF c.kind = "initial"
             THEN ok([sent EXCEPT !.start.result = "prepared", !.start.phase = "prepared"])
             ELSE ok(sent)

(***************************************************************************)
(* PTY ingress.                                                            *)
(***************************************************************************)
bindingIngress(s) == s.start.phase = "binding" /\ s.start.result = "none"

sendLive(s, data, room) ==
    IF ~mayLive(s.protocol) THEN fails(s, "outOfState")
    ELSE IF ~mayEnqueue(s, <<live(s, data)>>, room) THEN fails(s, "fault")
    ELSE ok(enqueued(s, <<live(s, data)>>))

\* Mutant: an ONGOING or HISTORY cut keeps sending LIVE behind its marker.
feedOrdinary_passesFence(s, data, room) ==
    IF s.active.kind \in {"ongoing", "history"} THEN sendLive(s, data, room)
    ELSE IF s.active.marked THEN ok([s EXCEPT !.active.held = @ \o data])
    ELSE ok([s EXCEPT !.active.pre = @ \o data])

feedOrdinary(s, data, room) ==
    LET c == s.active
    IN  IF c.marked
        THEN IF Len(c.held) + Len(data) > HeldCap THEN fails(s, "fault")
             ELSE ok([s EXCEPT !.active.held = @ \o data])
        ELSE IF c.kind \in {"ongoing", "history"} THEN sendLive(s, data, room)
        ELSE IF Len(c.pre) + Len(data) > ReplayCap THEN fails(s, "fault")
        ELSE ok([s EXCEPT !.active.pre = @ \o data])

routeOrdinary(s, data, room) ==
    IF data = <<>> THEN ok(s)
    ELSE IF s.active # NoCut
         THEN LET o == feedOrdinary(s, data, room)
              IN  IF o.err = "ok" THEN maybePublishPrepare(o.s, room) ELSE o
    ELSE IF bindingIngress(s)
         THEN IF Len(s.replay) + Len(data) > ReplayCap THEN fails(s, "fault")
              ELSE ok([s EXCEPT !.replay = @ \o data])
    ELSE sendLive(s, data, room)

\* Output that must make the scheduler dirty.
isActivity(s, data) ==
    data # <<>> /\ IF s.active # NoCut THEN s.active.marked ELSE ~bindingIngress(s)

acceptMarker(s, cut, room) ==
    IF s.active = NoCut \/ s.active.marked \/ s.active.id # cut THEN fails(s, "fault")
    ELSE maybePublishPrepare([s EXCEPT !.active.marked = TRUE, !.active.at = s.out], room)

(***************************************************************************)
(* scheduler.  Every command is answered by its goroutine in order, so a   *)
(* command is a step; the quiet and maximum timers only decide when Due    *)
(* fires.                                                                  *)
(***************************************************************************)
beginExternal(s) == [s EXCEPT !.scheduler.inFlight = TRUE]

busy(s) == s.scheduler.inFlight \/ s.scheduler.stopped

activity(s) == [s EXCEPT !.scheduler.dirty = TRUE]

complete(s, retry) ==
    [s EXCEPT !.scheduler.inFlight = FALSE,
              !.scheduler.dirty = @ \/ (retry /\ ~e.given.outputOwner)]

newCut(s, kind, request) ==
    [s EXCEPT !.nextCut = @ + 1,
              !.active = [id |-> s.nextCut + 1, kind |-> kind, request |-> request,
                          issued |-> FALSE, captured |-> FALSE, marked |-> FALSE,
                          prepared |-> FALSE, pre |-> <<>>, held |-> <<>>, at |-> 0]]

runs(who, s, pc) == [who |-> who, id |-> s.active.id, pc |-> pc]

-----------------------------------------------------------------------------
Init ==
    /\ \E g \in Scenarios :
       e = [given |-> g,
            protocol |-> [state |-> "awaitPrepare", cut |-> 0, mode |-> "observe"],
            scheduler |-> [dirty |-> FALSE, inFlight |-> FALSE, due |-> FALSE, stopped |-> FALSE],
            egress |-> [wire |-> <<>>, closed |-> FALSE, failed |-> FALSE],
            input |-> [mode |-> "observe", queue |-> <<>>, writing |-> 0, revoked |-> FALSE,
                       closed |-> FALSE, sealed |-> FALSE, failed |-> FALSE],
            settled |-> [i \in 1..g.max.input |-> 0], typed |-> <<>>,
            ingress |-> <<>>, replay |-> <<>>, out |-> 0,
            active |-> NoCut, nextCut |-> 0,
            start |-> [phase |-> "none", ownership |-> "none", pending |-> "none", result |-> "none"],
            terminal |-> NoTerminal,
            transitionalInput |-> <<>>, transitionalModes |-> <<>>,
            pendingHistory |-> 0, lastHistoryRequest |-> 0,
            phase |-> [r \in 1..g.max.history |-> "new"],
            cleanup |-> [complete |-> FALSE, err |-> FALSE, reported |-> FALSE],
            sent |-> 0, admitted |-> {}, modes |-> 0, resizes |-> 0]
    /\ attached = FALSE
    /\ stray = "none"
    /\ canceled = FALSE
    /\ starter = "idle"
    /\ runner = NoRunner
    /\ reader = "idle"
    /\ browser = "idle"
    /\ acker = "idle"
    /\ histories = 0
    /\ owner = "loop"
    /\ teardown = "none"
    /\ finalizer = "idle"

\* Publication launches teardown, so every step that may publish carries this.
launches(s) == teardown' = IF teardown = "none" /\ s.terminal # NoTerminal
                           THEN "scheduler" ELSE teardown
Becomes(s) == e' = s /\ launches(s)
Ends(cause, room) == Becomes(requestTerminal(e, cause, room))

-----------------------------------------------------------------------------
(***************************************************************************)
(* Start: one BIND transaction, whose attachment is transferred before its *)
(* error is looked at, then the INITIAL cut.                               *)
(***************************************************************************)
Start(room) ==
    /\ starter = "idle" /\ e.terminal = NoTerminal /\ browser # "gone"
    /\ IF canceled
       THEN Ends("canceled", room) /\ starter' = "done"
       ELSE /\ Becomes([e EXCEPT !.start.phase = "binding", !.start.ownership = "pending"])
            /\ starter' = "bind"
    /\ UNCHANGED <<attached, stray, canceled, runner, reader, browser, acker, histories, owner, finalizer>>

\* The guarded command created the shadow, whose ID the client printed or the lookup
\* after it found.
BindMutates ==
    /\ starter = "bind"
    /\ attached' = TRUE
    /\ starter' = "mutated"
    /\ UNCHANGED <<e, stray, canceled, runner, reader, browser, acker, histories, owner, teardown, finalizer>>

\* transferStartOwnershipLocked, the first call after the transaction.
BindTransfers(room) ==
    /\ starter = "mutated"
    /\ IF e.start.phase = "binding" /\ e.start.ownership = "pending"
       THEN Becomes([e EXCEPT !.start.ownership = "exact"])
       ELSE Ends("invariant", room)
    /\ starter' = "bound"
    /\ UNCHANGED <<attached, stray, canceled, runner, reader, browser, acker, histories, owner, finalizer>>

\* The context of BIND may fail it: a fault, its timeout, or an end already asked for.
bindMayFail == "bind" \in e.given.faults \/ e.start.pending # "none" \/ e.terminal # NoTerminal

\* PinnedSource.bind returns.
BindReturns ==
    /\ \/ starter = "bound" /\ starter' = "succeeded"
       \/ /\ starter \in {"bind", "bound"} /\ bindMayFail
          /\ starter' = IF starter = "bind" THEN "noOwner" ELSE "failed"
    /\ UNCHANGED <<e, attached, stray, canceled, runner, reader, browser, acker, histories, owner, teardown, finalizer>>

\* The guarded command failed, or its client was killed, with no ID printed and none
\* found by the one lookup: only the client's name is known, a partial identity.
BindUnresolved ==
    /\ starter = "bind" /\ bindMayFail
    /\ starter' = "unresolved"
    /\ stray' = "possible"
    /\ UNCHANGED <<e, attached, canceled, runner, reader, browser, acker, histories, owner, teardown, finalizer>>

\* tmux runs, or had run unseen, the command of a client that is gone.
StrayAppears ==
    /\ stray = "possible"
    /\ stray' = "shadow"
    /\ UNCHANGED <<e, attached, canceled, threads>>

\* prepareStartCutLocked adopts the output that arrived during BIND.
startCut(s) ==
    LET c == newCut(beginExternal(s), "initial", 0)
    IN  [c EXCEPT !.active.pre = s.replay, !.replay = <<>>, !.start.phase = "cutting"]

\* reconcileBindLocked and prepareStartCutLocked.
Reconcile(room) ==
    /\ starter \in {"succeeded", "failed", "noOwner", "unresolved"}
    /\ LET s == IF starter \in {"noOwner", "unresolved"} THEN [e EXCEPT !.start.ownership = "none"]
                ELSE e
           cause == IF starter = "unresolved" THEN "unresolvedBind" ELSE "fault"
       IN  IF e.terminal # NoTerminal
           THEN Becomes(e) /\ starter' = "done" /\ runner' = runner
           ELSE IF starter # "succeeded" \/ s.start.pending # "none"
           THEN /\ Becomes(requestTerminal(s, cause, room))
                /\ starter' = "done" /\ runner' = runner
           ELSE IF s.start.phase # "binding" \/ s.active # NoCut \/ s.protocol.state # "awaitPrepare"
           THEN Ends("invariant", room) /\ starter' = "done" /\ runner' = runner
           ELSE IF busy(s)
           THEN Ends("scheduler", room) /\ starter' = "done" /\ runner' = runner
           ELSE /\ Becomes(startCut(s))
                /\ starter' = "cutting"
                /\ runner' = runs("start", startCut(s), "issue")
    /\ UNCHANGED <<attached, stray, canceled, reader, browser, acker, histories, owner, finalizer>>

\* runStartAttempt keeps its work claim until the attempt is resolved.
StartReturns ==
    /\ starter = "cutting" /\ runner.who # "start" /\ e.start.result # "none"
    /\ starter' = "done"
    /\ UNCHANGED <<e, attached, stray, canceled, runner, reader, browser, acker, histories, owner, teardown, finalizer>>

\* watchStartOwner.
WatchStartOwner(room) ==
    /\ canceled /\ e.terminal = NoTerminal
    /\ e.start.phase \in {"binding", "cutting", "awaiting"}
    /\ Ends("canceled", room)
    /\ UNCHANGED <<attached, stray, canceled, starter, runner, reader, browser, acker, histories, owner, finalizer>>

-----------------------------------------------------------------------------
(***************************************************************************)
(* runCut, for whichever goroutine owns the active cut.                    *)
(***************************************************************************)
RunnerEnds(good) ==
    /\ runner' = NoRunner
    /\ owner' = IF runner.who = "owner" THEN IF good THEN "loop" ELSE "done" ELSE owner
    /\ browser' = IF runner.who = "browser" THEN "idle" ELSE browser

issue(s) ==
    IF s.active.request = 0 THEN [s EXCEPT !.active.issued = TRUE]
    ELSE [s EXCEPT !.active.issued = TRUE, !.phase[s.active.request] = "issued"]

CutIssue(room) ==
    /\ runner.pc = "issue"
    /\ IF \/ e.active.id # runner.id
          \/ e.active.issued
          \/ e.active.request # 0 /\ e.phase[e.active.request] # "queued"
       THEN Ends("invariant", room) /\ RunnerEnds(FALSE)
       ELSE /\ Becomes(issue(e))
            /\ runner' = [runner EXCEPT !.pc = "capture"]
            /\ UNCHANGED <<owner, browser>>
    /\ UNCHANGED <<attached, stray, canceled, starter, reader, acker, histories, finalizer>>

CutFails(room) ==
    /\ runner.pc = "capture"
    /\ "cut" \in e.given.faults \/ e.terminal # NoTerminal
    /\ Ends("fault", room) /\ RunnerEnds(FALSE)
    /\ UNCHANGED <<attached, stray, canceled, starter, reader, acker, histories, finalizer>>

captured(s, who) ==
    IF who = "start" THEN [s EXCEPT !.active.captured = TRUE, !.start.phase = "awaiting"]
    ELSE [s EXCEPT !.active.captured = TRUE]

CutReturns(room) ==
    /\ runner.pc = "capture"
    /\ IF e.terminal # NoTerminal
       THEN Becomes(e) /\ RunnerEnds(FALSE)
       ELSE IF \/ e.active.id # runner.id
               \/ runner.who = "start" /\ e.start.phase # "cutting"
       THEN Ends("invariant", room) /\ RunnerEnds(FALSE)
       ELSE LET o == maybePublishPrepare(captured(e, runner.who), room)
            IN  Becomes(resolve(o, room)) /\ RunnerEnds(o.err = "ok")
    /\ UNCHANGED <<attached, stray, canceled, starter, reader, acker, histories, finalizer>>

\* watchCut: the cut timer runs until the cut is answered.
CutTimeout(room) ==
    /\ e.active # NoCut
    /\ Ends("fault", room)
    /\ UNCHANGED <<attached, stray, canceled, starter, runner, reader, browser, acker, histories, owner, finalizer>>

-----------------------------------------------------------------------------
(***************************************************************************)
(* delayedPTY.drain and PTYBytes.  An error stops the reader, which        *)
(* reports it with Fault.  held is the ingress framer keeping a read that  *)
(* may still turn out to be the start of a marker.                         *)
(***************************************************************************)
refusesBytes(s) ==
    s.active = NoCut /\ ~bindingIngress(s) /\ (s.protocol.state # "live" \/ s.protocol.cut = 0)

admitBytes(s) ==
    IF s.terminal # NoTerminal THEN fails(s, "fault")
    ELSE IF refusesBytes(s) THEN fails(s, "outOfState")
    ELSE IF s.start.phase = "binding" /\ s.start.pending # "none" THEN fails(s, "fault")
    ELSE ok(s)

Consumed(o, active, room) ==
    /\ Becomes(resolve(o, room))
    /\ reader' = IF o.err # "ok" \/ o.s.terminal # NoTerminal THEN "stopped"
                 ELSE IF active /\ ~e.given.outputOwner THEN "activity" ELSE "idle"
    /\ UNCHANGED <<attached, stray, canceled, starter, runner, browser, acker, histories, owner, finalizer>>

PTYOutput(room, hold) ==
    /\ reader = "idle" /\ attached /\ e.out < e.given.max.output
    /\ hold => e.ingress = <<>>
    /\ LET data == Append(e.ingress, e.out + 1)
           read == [e EXCEPT !.out = @ + 1, !.ingress = IF hold THEN data ELSE <<>>]
           o == IF admitBytes(e).err # "ok" THEN admitBytes(e)
                ELSE IF hold THEN ok(read) ELSE routeOrdinary(read, data, room)
       IN  Consumed(o, ~hold /\ isActivity(e, data), room)

\* The marker of a CUT that was issued, after whatever the framer still kept.
PTYMarker(room) ==
    /\ reader = "idle" /\ attached
    /\ e.active # NoCut /\ e.active.issued /\ ~e.active.marked
    /\ LET kept1 == routeOrdinary([e EXCEPT !.ingress = <<>>], e.ingress, room)
       IN  Consumed(IF kept1.err # "ok" THEN kept1 ELSE acceptMarker(kept1.s, e.active.id, room),
                    FALSE, room)

\* A malformed or foreign marker, or a failed read.
PTYFails(room) ==
    /\ reader = "idle" /\ attached /\ {"marker", "pty"} \cap e.given.faults # {}
    /\ Consumed(fails(e, "fault"), FALSE, room)

Activity ==
    /\ reader = "activity"
    /\ IF e.scheduler.stopped THEN e' = e /\ reader' = "stopped"
       ELSE e' = activity(e) /\ reader' = "idle"
    /\ UNCHANGED <<attached, stray, canceled, starter, runner, browser, acker, histories, owner, teardown, finalizer>>

-----------------------------------------------------------------------------
(***************************************************************************)
(* ownerLoop and the scheduled cuts.                                       *)
(***************************************************************************)
\* Mutant: the timer fires while a cut holds the scheduler.
SchedulerDue_ignoresHold ==
    /\ e.scheduler.dirty /\ ~e.scheduler.stopped /\ e.nextCut < e.given.max.cuts
    /\ e' = [e EXCEPT !.scheduler.dirty = FALSE, !.scheduler.inFlight = TRUE, !.scheduler.due = TRUE]
    /\ UNCHANGED <<attached, stray, canceled, threads>>

SchedulerDue ==
    /\ e.scheduler.dirty /\ ~e.scheduler.inFlight /\ ~e.scheduler.stopped
    /\ e.nextCut < e.given.max.cuts
    /\ e' = [e EXCEPT !.scheduler.dirty = FALSE, !.scheduler.inFlight = TRUE, !.scheduler.due = TRUE]
    /\ UNCHANGED <<attached, stray, canceled, threads>>

OwnerDue ==
    /\ owner = "loop" /\ e.scheduler.due
    /\ e' = [e EXCEPT !.scheduler.due = FALSE]
    /\ owner' = "due"
    /\ UNCHANGED <<attached, stray, canceled, starter, runner, reader, browser, acker, histories, teardown, finalizer>>

\* beginOngoingCut.
BeginOngoingCut(room) ==
    /\ owner = "due"
    /\ IF e.terminal # NoTerminal
       THEN Becomes(e) /\ owner' = "done" /\ runner' = runner
       ELSE IF e.active # NoCut \/ e.protocol.state # "live" \/ e.start.ownership # "exact"
       THEN Ends("invariant", room) /\ owner' = "done" /\ runner' = runner
       ELSE /\ Becomes(newCut(e, "ongoing", 0))
            /\ owner' = "cutting"
            /\ runner' = runs("owner", newCut(e, "ongoing", 0), "issue")
    /\ UNCHANGED <<attached, stray, canceled, starter, reader, browser, acker, histories, finalizer>>

OwnerStops(room) ==
    /\ owner = "loop"
    /\ \/ (canceled \/ e.terminal # NoTerminal) /\ Ends("canceled", room)
       \/ (e.input.failed \/ e.egress.failed) /\ Ends("fault", room)
    /\ owner' = "done"
    /\ UNCHANGED <<attached, stray, canceled, starter, runner, reader, browser, acker, histories, finalizer>>

-----------------------------------------------------------------------------
(***************************************************************************)
(* HandleFrame.  A browser answers a PREPARE it received; after admission  *)
(* a journal-backed writer answers READY itself, on a goroutine of its own *)
(* (unifiedAttachmentFrameWriter.WriteFrame).  scheduler.Complete runs     *)
(* after e.mu is released.                                                 *)
(***************************************************************************)
serverSide(c) == e.given.outputOwner /\ c.kind # "initial"

transitional(s) ==
    /\ s.active # NoCut /\ s.active.prepared
    /\ s.active.kind \in {"ongoing", "history"}
    /\ s.protocol.state \in {"prepared", "ready"}

heldFrames(s) == IF s.active.held = <<>> THEN <<>> ELSE <<live(s, s.active.held)>>

\* releaseTransitionalLocked: held input goes to the pump before the held mode
\* requests, and a downgrade that would revoke it is answered with a retry.
releaseFrames(s) ==
    [i \in DOMAIN s.transitionalModes |->
        modeFrame(IF s.transitionalInput # <<>> THEN s.protocol.mode ELSE s.transitionalModes[i])]

releasedMode(s) ==
    IF s.transitionalInput # <<>> \/ s.transitionalModes = <<>>
    THEN s.protocol.mode ELSE Last(s.transitionalModes)

mayRelease(s) ==
    /\ s.transitionalInput # <<>> => mayPump(s, Len(s.transitionalInput))
    /\ s.transitionalModes # <<>> => ~s.input.closed

released(s) ==
    LET asked == IF s.transitionalInput = <<>> THEN ToSet(s.transitionalModes) ELSE {}
        dropped == IF "observe" \in asked THEN revoke(s) ELSE s
        moded == [dropped EXCEPT !.protocol.mode = releasedMode(s),
                                 !.input.mode = IF asked = {} THEN @ ELSE releasedMode(s)]
    IN  clearTransitional(pumped(moded, s.transitionalInput))

historyEnds(s, outcome) ==
    IF s.active.kind = "history" THEN [s EXCEPT !.phase[s.active.request] = outcome] ELSE s

\* READY (commit is the COMMIT frame) or DEFER (no commit) of the prepared cut.
answered(s, commit, outcome, room) ==
    LET back == [s EXCEPT !.protocol.state = "live"]
        frames == commit \o heldFrames(s) \o releaseFrames(s)
    IN  IF ~mayRelease(s) THEN fails(s, "fault")
        ELSE IF frames # <<>> /\ ~mayEnqueue(s, frames, room) THEN fails(s, "fault")
        ELSE IF s.active.kind = "history" /\ s.phase[s.active.request] # "issued"
             THEN fails(s, "invariant")
        ELSE ok(finishActive(historyEnds(released(enqueued(back, frames)), outcome)))

Answers(o, room, next) ==
    /\ Becomes(resolve(o, room))
    /\ LET pc == IF o.err = "ok" THEN next ELSE "idle"
       IN  IF serverSide(e.active)
           THEN acker = "idle" /\ acker' = pc /\ browser' = browser
           ELSE browser = "idle" /\ browser' = pc /\ acker' = acker
    /\ UNCHANGED <<attached, stray, canceled, starter, runner, reader, histories, owner, finalizer>>

Ready(room) ==
    /\ e.active # NoCut /\ e.active.prepared /\ mayAnswer(e.protocol, e.active.id)
    /\ Answers(answered(e, <<frame("COMMIT", e.active.id, <<>>)>>, "committed", room),
               room, "complete")

Defer(room) ==
    /\ e.active # NoCut /\ e.active.prepared /\ mayAnswer(e.protocol, e.active.id)
    /\ ~serverSide(e.active) /\ e.nextCut < e.given.max.cuts
    /\ IF e.active.kind \in {"ongoing", "history"}
       THEN Answers(answered(e, <<>>, "deferred", room), room,
                    IF e.active.kind = "ongoing" THEN "retry" ELSE "complete")
       ELSE Answers(fails(e, "fault"), room, "idle")

\* Mutant: the queued depth is not tried again after a cut.
completes_only(pc, room) ==
    IF e.scheduler.stopped THEN Ends("fault", room) /\ histories' = histories
    ELSE Becomes(complete(e, pc = "retry")) /\ histories' = histories

\* scheduler.Complete, then go beginPendingHistory().
completes(pc, room) ==
    IF e.scheduler.stopped THEN Ends("fault", room) /\ histories' = histories
    ELSE IF ~e.scheduler.inFlight THEN Ends("scheduler", room) /\ histories' = histories
    ELSE /\ Becomes(complete(e, pc = "retry"))
         /\ histories' = histories + 1

Complete(room) ==
    /\ \/ /\ browser \in {"complete", "retry"}
          /\ completes(browser, room) /\ browser' = "idle" /\ acker' = acker
       \/ /\ acker = "complete"
          /\ completes(acker, room) /\ acker' = "idle" /\ browser' = browser
    /\ UNCHANGED <<attached, stray, canceled, starter, runner, reader, owner, finalizer>>

BrowserFrame == browser = "idle" /\ e.terminal = NoTerminal

ModeRequest(m, room) ==
    /\ BrowserFrame /\ e.modes < e.given.max.modes
    /\ transitional(e) \/ mayMode(e.protocol)
    /\ LET s == [e EXCEPT !.modes = @ + 1]
           set == [setMode(s, m) EXCEPT !.protocol.mode = m]
           o == IF transitional(s)
                THEN IF Len(s.transitionalModes) >= MaxTransitionalModeRequests
                     THEN fails(s, "fault")
                     ELSE ok([s EXCEPT !.transitionalModes = Append(@, m)])
                ELSE IF s.input.closed THEN fails(s, "fault")
                ELSE IF ~mayEnqueue(s, <<modeFrame(m)>>, room)
                     THEN fails(setMode(s, "observe"), "fault")
                ELSE ok(enqueued(set, <<modeFrame(m)>>))
       IN  Becomes(resolve(o, room))
    /\ UNCHANGED <<attached, stray, canceled, starter, runner, reader, browser, acker, histories, owner, finalizer>>

\* ErrObserveOnly refuses the frame and nothing else.
Input(room) ==
    /\ BrowserFrame /\ e.sent < e.given.max.input
    /\ LET id == e.sent + 1
           s == [e EXCEPT !.sent = id]
           taken == [s EXCEPT !.admitted = @ \cup {id}]
           o == IF transitional(s)
                THEN IF s.protocol.mode # "control" THEN ok(s)
                     ELSE IF Len(s.transitionalInput) >= MaxInputFrames THEN fails(s, "fault")
                     ELSE ok([taken EXCEPT !.transitionalInput = Append(@, id)])
                ELSE IF ~mayInput(s.protocol) THEN ok(s)
                ELSE IF ~mayPump(s, 1) THEN fails(s, "fault")
                ELSE ok(pumped(taken, <<id>>))
       IN  Becomes(resolve(o, room))
    /\ UNCHANGED <<attached, stray, canceled, starter, runner, reader, browser, acker, histories, owner, finalizer>>

-----------------------------------------------------------------------------
(***************************************************************************)
(* Resize and RequestHistory.                                              *)
(***************************************************************************)
Resize(room) ==
    /\ BrowserFrame /\ e.resizes < e.given.max.resizes
    /\ e.active = NoCut /\ mayInput(e.protocol) /\ e.start.ownership = "exact"
    /\ LET s == [e EXCEPT !.resizes = @ + 1]
           c == newCut(beginExternal(s), "resize", 0)
       IN  IF busy(s)
           THEN /\ Becomes(requestTerminal(s, "resizeBusy", room))
                /\ UNCHANGED <<runner, browser>>
           ELSE /\ Becomes(c)
                /\ runner' = runs("browser", c, "resize")
                /\ browser' = "resizing"
    /\ UNCHANGED <<attached, stray, canceled, starter, reader, acker, histories, owner, finalizer>>

\* source.resize returns, or fails where the geometry may have been applied.
ResizeReturns(room) ==
    /\ runner.pc = "resize"
    /\ \/ /\ runner' = [runner EXCEPT !.pc = "issue"]
          /\ Becomes(e) /\ UNCHANGED <<owner, browser>>
       \/ /\ "resize" \in e.given.faults \/ e.terminal # NoTerminal
          /\ Ends("fault", room) /\ RunnerEnds(FALSE)
    /\ UNCHANGED <<attached, stray, canceled, starter, reader, acker, histories, finalizer>>

\* abandonResize, on a typed refusal: the output the cut kept back is LIVE
\* output of the cut still in force.
AbandonResize(room) ==
    /\ runner.pc = "resize" /\ "refuse" \in e.given.faults
    /\ runner' = NoRunner
    /\ IF e.terminal # NoTerminal
       THEN Becomes(e) /\ browser' = "idle"
       ELSE IF e.active.id # runner.id \/ e.active.issued
       THEN Ends("invariant", room) /\ browser' = "idle"
       ELSE LET o == IF e.active.pre = <<>> THEN ok(e) ELSE sendLive(e, e.active.pre, room)
            IN  IF o.err # "ok" THEN Becomes(resolve(o, room)) /\ browser' = "idle"
                ELSE /\ Becomes(finishActive(o.s))
                     /\ browser' = IF e.active.pre = <<>> THEN "abandoned" ELSE "abandonedDirty"
    /\ UNCHANGED <<attached, stray, canceled, starter, reader, acker, histories, owner, finalizer>>

\* The scheduler.Complete of abandonResize.
AbandonCompletes(room) ==
    /\ browser \in {"abandoned", "abandonedDirty"}
    /\ IF e.scheduler.stopped THEN Ends("fault", room)
       ELSE IF ~e.scheduler.inFlight THEN Ends("scheduler", room)
       ELSE Becomes(complete(e, browser = "abandonedDirty"))
    /\ browser' = "idle"
    /\ UNCHANGED <<attached, stray, canceled, starter, runner, reader, acker, histories, owner, finalizer>>

\* A repeated or older request number changes nothing.
RequestHistory(room) ==
    /\ BrowserFrame /\ e.lastHistoryRequest < e.given.max.history /\ mayHistory(e.protocol)
    /\ LET r == e.lastHistoryRequest + 1
           q == e.pendingHistory
           queued == [e EXCEPT !.pendingHistory = r, !.lastHistoryRequest = r, !.phase[r] = "queued"]
       IN  IF q = 0 THEN Becomes(queued) /\ histories' = histories + 1
           ELSE IF e.phase[q] # "queued" THEN Ends("invariant", room) /\ histories' = histories
           ELSE /\ Becomes([queued EXCEPT !.phase[q] = "superseded"])
                /\ histories' = histories + 1
    /\ UNCHANGED <<attached, stray, canceled, starter, runner, reader, browser, acker, owner, finalizer>>

BeginPendingHistory(room) ==
    /\ histories > 0
    /\ histories' = histories - 1
    /\ LET r == e.pendingHistory
           c == newCut(beginExternal([e EXCEPT !.pendingHistory = 0]), "history", r)
       IN  IF \/ e.terminal # NoTerminal \/ r = 0 \/ e.active # NoCut
              \/ e.protocol.state # "live" \/ e.start.ownership # "exact"
           THEN Becomes(e) /\ runner' = runner
           ELSE IF e.phase[r] # "queued" THEN Ends("invariant", room) /\ runner' = runner
           ELSE IF busy(e) THEN Ends("historyBusy", room) /\ runner' = runner
           ELSE Becomes(c) /\ runner' = runs("history", c, "issue")
    /\ UNCHANGED <<attached, stray, canceled, starter, reader, browser, acker, owner, finalizer>>

-----------------------------------------------------------------------------
(***************************************************************************)
(* inputPump.run and the transport.                                        *)
(***************************************************************************)
PumpTakes ==
    /\ ~e.input.closed /\ e.input.writing = 0 /\ e.input.queue # <<>>
    /\ e' = [e EXCEPT !.input.writing = Head(e.input.queue), !.input.queue = Tail(@),
                      !.input.revoked = FALSE]
    /\ UNCHANGED <<attached, stray, canceled, threads>>

\* A revoked write may still have reached the PTY, wholly or in part.
PumpWrites ==
    /\ e.input.writing # 0
    /\ \E reached \in {TRUE} \cup (IF e.input.revoked THEN {FALSE} ELSE {}) :
         e' = [settle(e, {e.input.writing}) EXCEPT
                 !.input.writing = 0,
                 !.typed = IF reached THEN Append(@, e.input.writing) ELSE @]
    /\ UNCHANGED <<attached, stray, canceled, threads>>

\* failLocked.
PumpFails ==
    /\ e.input.writing # 0 /\ ~e.input.revoked /\ "input" \in e.given.faults
    /\ e' = [revoke(settle(e, {e.input.writing})) EXCEPT
               !.input.writing = 0, !.input.closed = TRUE, !.input.failed = TRUE]
    /\ UNCHANGED <<attached, stray, canceled, threads>>

EgressFails ==
    /\ "egress" \in e.given.faults /\ ~e.egress.closed
    /\ e' = [e EXCEPT !.egress.closed = TRUE, !.egress.failed = TRUE]
    /\ UNCHANGED <<attached, stray, canceled, threads>>

Cancel ==
    /\ "cancel" \in e.given.faults /\ ~canceled
    /\ canceled' = TRUE
    /\ UNCHANGED <<e, attached, stray, threads>>

-----------------------------------------------------------------------------
(***************************************************************************)
(* teardown and Finalize.  Every teardown step waits for the part it       *)
(* stops; the work gate is quiescent when no goroutine holds a claim.      *)
(***************************************************************************)
quiescent ==
    /\ starter \in {"idle", "done"} /\ runner = NoRunner
    /\ browser \notin {"resizing", "abandoned", "abandonedDirty"}

executeCleanup(s, works) ==
    IF s.terminal.ownership = "none" \/ works
    THEN [s EXCEPT !.cleanup.complete = TRUE, !.cleanup.err = FALSE]
    ELSE [s EXCEPT !.cleanup.err = TRUE]

CleansUp(works) ==
    /\ works \/ "cleanup" \in e.given.faults
    /\ e' = executeCleanup(e, works)
    /\ attached' = IF e.terminal.ownership = "exact" /\ works THEN FALSE ELSE attached

Teardown ==
    /\ \/ /\ teardown = "scheduler"
          /\ e' = [e EXCEPT !.scheduler.stopped = TRUE]
          /\ teardown' = "input" /\ UNCHANGED attached
       \/ /\ teardown = "input" /\ e.input.writing = 0
          /\ teardown' = "owner" /\ UNCHANGED <<e, attached>>
       \/ /\ teardown = "owner" /\ owner = "done"
          /\ teardown' = "gate" /\ UNCHANGED <<e, attached>>
       \/ /\ teardown = "gate" /\ quiescent
          /\ e' = [e EXCEPT !.egress.closed = TRUE]
          /\ teardown' = "cleanup" /\ UNCHANGED attached
       \/ /\ teardown = "cleanup"
          /\ \E works \in BOOLEAN : CleansUp(works)
          /\ teardown' = "done"
    /\ UNCHANGED <<stray, canceled, starter, runner, reader, browser, acker, histories, owner, finalizer>>

\* finishIngressLocked: what the framer kept is ordinary output, unless it had
\* already become the reserved namespace.
finishIngress(s, room) ==
    IF s.ingress = <<>> THEN {ok(s)}
    ELSE {fails([s EXCEPT !.ingress = <<>>], "fault"),
          routeOrdinary([s EXCEPT !.ingress = <<>>], s.ingress, room)}

Finalize(room) ==
    /\ finalizer = "idle" /\ browser = "idle"
    /\ IF canceled \/ e.terminal # NoTerminal
       THEN Ends("canceled", room)
       ELSE \E o \in finishIngress(e, room) :
              Becomes(requestTerminal(o.s, IF o.err = "ok" THEN "orderly" ELSE o.err, room))
    /\ finalizer' = "waiting" /\ browser' = "gone"
    /\ UNCHANGED <<attached, stray, canceled, starter, runner, reader, acker, histories, owner>>

\* The first return reports a failed cleanup; a later call retries it.
FinalizeReturns ==
    /\ finalizer = "waiting" /\ teardown = "done"
    /\ finalizer' = "returned"
    /\ IF e.cleanup.complete THEN UNCHANGED <<e, attached>>
       ELSE IF e.cleanup.err /\ ~e.cleanup.reported
       THEN e' = [e EXCEPT !.cleanup.reported = TRUE] /\ UNCHANGED attached
       ELSE \E works \in BOOLEAN : CleansUp(works)
    /\ UNCHANGED <<stray, canceled, starter, runner, reader, browser, acker, histories, owner, teardown>>

FinalizeAgain ==
    /\ finalizer = "returned" /\ ~e.cleanup.complete
    /\ finalizer' = "waiting"
    /\ UNCHANGED <<e, attached, stray, canceled, starter, runner, reader, browser, acker, histories, owner, teardown>>

-----------------------------------------------------------------------------
Starts == \E room \in e.given.rooms :
    Start(room) \/ BindTransfers(room) \/ Reconcile(room) \/ WatchStartOwner(room)
Binds == BindMutates \/ BindReturns \/ BindUnresolved \/ StartReturns
Cuts == \E room \in e.given.rooms :
    CutIssue(room) \/ CutFails(room) \/ CutReturns(room) \/ CutTimeout(room)
Reads == \E room \in e.given.rooms :
    \/ \E hold \in BOOLEAN : PTYOutput(room, hold)
    \/ PTYMarker(room) \/ PTYFails(room)
Owner == OwnerDue \/ \E room \in e.given.rooms : BeginOngoingCut(room) \/ OwnerStops(room)
Frames == \E room \in e.given.rooms :
    \/ Ready(room) \/ Defer(room) \/ Complete(room) \/ Input(room)
    \/ \E m \in Mode : ModeRequest(m, room)
Requests == \E room \in e.given.rooms :
    \/ Resize(room) \/ ResizeReturns(room) \/ AbandonResize(room) \/ AbandonCompletes(room)
    \/ RequestHistory(room) \/ BeginPendingHistory(room)
Pump == PumpTakes \/ PumpWrites \/ PumpFails
Closing == Teardown \/ FinalizeReturns \/ FinalizeAgain \/ \E room \in e.given.rooms : Finalize(room)

Next ==
    \/ Starts \/ Binds \/ StrayAppears \/ Cuts \/ Reads \/ Activity \/ SchedulerDue \/ Owner
    \/ Frames \/ Requests \/ Pump \/ EgressFails \/ Cancel \/ Closing

Spec == Init /\ [][Next]_vars

\* Every call the epoch makes returns: tmux transactions run under a context
\* that termination cancels, and the cut timer always fires.  Neither the
\* browser nor the PTY owes a step, nor does tmux to a client that is gone.  One
\* goroutine waits at one place at a time, so each has one condition.
Fairness ==
    /\ WF_vars(Binds \/ \E room \in e.given.rooms : BindTransfers(room) \/ Reconcile(room))
    /\ WF_vars(\E room \in e.given.rooms :
                   \/ CutIssue(room) \/ CutFails(room) \/ CutReturns(room)
                   \/ ResizeReturns(room) \/ AbandonResize(room))
    /\ WF_vars(\E room \in e.given.rooms : CutTimeout(room))
    /\ WF_vars(Owner)
    /\ WF_vars(\E room \in e.given.rooms : Complete(room) \/ AbandonCompletes(room))
    /\ WF_vars(\E room \in e.given.rooms : BeginPendingHistory(room))
    /\ WF_vars(PumpWrites \/ PumpFails) /\ WF_vars(Teardown)

FairSpec == Spec /\ Fairness

-----------------------------------------------------------------------------
Protocol == [state : {"awaitPrepare", "prepared", "live", "ended"},
             cut : Nat, mode : Mode]

\* The struct and the program counters stay in their ranges, and the two
\* queues of input within their bound.
TypeOK ==
    /\ e.protocol \in Protocol
    /\ e.active # NoCut => e.active.kind \in Kind /\ e.active.id = e.nextCut
    /\ e.start.ownership \in {"pending", "none", "exact"}
    /\ e.terminal = NoTerminal \/ e.terminal.cause \in Cause
    /\ Len(e.input.queue) <= MaxInputFrames
    /\ Len(e.transitionalInput) <= MaxInputFrames
    /\ Len(e.transitionalModes) <= MaxTransitionalModeRequests
    /\ starter \in {"idle", "bind", "mutated", "bound", "succeeded", "failed",
                    "noOwner", "unresolved", "cutting", "done"}
    /\ stray \in {"none", "possible", "shadow"}
    /\ runner.who \in {"none", "start", "owner", "history", "browser"}
    /\ runner.pc \in {"none", "resize", "issue", "capture"}
    /\ reader \in {"idle", "activity", "stopped"}
    /\ browser \in {"idle", "complete", "retry", "resizing", "abandoned", "abandonedDirty", "gone"}
    /\ acker \in {"idle", "complete"}
    /\ histories \in Nat
    /\ owner \in {"loop", "due", "cutting", "done"}
    /\ teardown \in {"none", "scheduler", "input", "owner", "gate", "cleanup", "done"}
    /\ finalizer \in {"idle", "waiting", "returned"}

carried(f) == IF f.type \in {"PREPARE", "LIVE"} THEN f.data ELSE <<>>
delivered(wire) == FlattenSeq([i \in DOMAIN wire |-> carried(wire[i])])
waiting(s) ==
    s.replay \o (IF s.active = NoCut THEN <<>>
                 ELSE (IF s.active.prepared THEN <<>> ELSE s.active.pre) \o s.active.held)
             \o s.ingress
readSoFar == [i \in 1..e.out |-> i]

\* What a writer without a journal gets, in PREPARE replays and LIVE frames, and
\* what the epoch still holds is exactly what the PTY delivered, in order:
\* nothing is lost, repeated or reordered across BIND, marker, fence, refused
\* resize or framer, and after the end what was sent is a prefix of it.
NothingLost ==
    IF e.terminal = NoTerminal /\ e.start.pending = "none"
    THEN delivered(e.egress.wire) \o waiting(e) = readSoFar
    ELSE IsPrefix(delivered(e.egress.wire), readSoFar)

\* A PREPARE is published where its marker stood in the output, and no output
\* passes it until the browser answers.
FenceAtMarker ==
    /\ \A i \in DOMAIN e.egress.wire :
         LET f == e.egress.wire[i]
         IN  f.type = "PREPARE" => Len(delivered(SubSeq(e.egress.wire, 1, i))) = f.at
    /\ e.active # NoCut /\ e.active.prepared =>
         Len(delivered(e.egress.wire)) = e.active.at

requestsSent == SelectSeq(e.egress.wire, LAMBDA f : f.request # 0)

\* History depths are published in request order, at most one is issued, and
\* the queued one is the newest the browser asked for.
HistoryInOrder ==
    /\ \A i, j \in DOMAIN requestsSent : i < j => requestsSent[i].request < requestsSent[j].request
    /\ e.pendingHistory # 0 =>
         e.pendingHistory = e.lastHistoryRequest /\ e.phase[e.pendingHistory] = "queued"
    /\ \A r \in Request : e.phase[r] = "issued" /\ e.terminal = NoTerminal =>
         e.active # NoCut /\ e.active.request = r

\* All of the above: the browser can rebuild the screen and its history from what it
\* is sent (dispatchLocked, the framer, HandleFrame, RequestHistory).
OutputPreserved == HistoryInOrder /\ (~e.given.outputOwner => NothingLost /\ FenceAtMarker)

\* The branches the code calls invariant violations, an idle scheduler asked to
\* complete, and output outside every protocol state are never reached; but for one: a
\* BIND whose shadow stayed unresolved ends its epoch so, with nothing owned.
NoContradiction ==
    e.terminal # NoTerminal =>
        /\ e.terminal.cause \notin {"invariant", "scheduler", "outOfState"}
        /\ e.terminal.cause = "unresolvedBind" => stray # "none" /\ e.terminal.ownership = "none"

holders ==
    (IF e.active # NoCut THEN 1 ELSE 0) + (IF e.scheduler.due THEN 1 ELSE 0)
    + (IF owner = "due" THEN 1 ELSE 0) + (IF acker # "idle" THEN 1 ELSE 0)
    + (IF browser \in {"complete", "retry", "abandoned", "abandonedDirty"} THEN 1 ELSE 0)

\* The scheduler is held by exactly one cut, due notification or pending
\* Complete, or by none: a hold is never leaked, which would end scheduled
\* captures, and never shared.
OneHolder ==
    e.terminal = NoTerminal =>
        /\ holders = IF e.scheduler.inFlight THEN 1 ELSE 0
        /\ e.active = NoCut => runner = NoRunner

finds(cause) ==
    e.terminal = NoTerminal /\ e'.terminal # NoTerminal /\ e'.terminal.cause = cause

heldElsewhere ==
    \/ e.scheduler.due \/ owner = "due" \/ acker # "idle"
    \/ browser \in {"complete", "retry", "abandoned", "abandonedDirty"}

\* A resize or a history depth ends its epoch for a busy scheduler only in the windows
\* between unlocking e.mu and the command to the scheduler: the hold it meets belongs to
\* a due notification, the owner loop's next cut or a Complete on another goroutine.
BusyIsAnothers == finds("resizeBusy") \/ finds("historyBusy") => heldElsewhere

count(i) == Len(SelectSeq(e.transitionalInput \o e.input.queue \o <<e.input.writing>>,
                          LAMBDA x : x = i))

\* The scheduler never contradicts the epoch: all of the above.
SchedulerAgrees == [](NoContradiction /\ OneHolder) /\ [][BusyIsAnothers]_vars

\* Every admitted INPUT frame is in exactly one place until it is settled, is
\* settled exactly once, and reaches the PTY in the order it was sent.
SettledOnce ==
    /\ \A i \in InputId : e.settled[i] + count(i) = IF i \in e.admitted THEN 1 ELSE 0
    /\ \A i, j \in DOMAIN e.typed : i < j => e.typed[i] < e.typed[j]

modesSent == SelectSeq(e.egress.wire, LAMBDA f : f.type = "MODE")

\* The pump writes under the mode the browser was told: protocol, pump and the
\* last MODE frame agree while the epoch lives.
ModesAgree ==
    e.terminal = NoTerminal /\ ~e.input.closed =>
        /\ e.input.mode = e.protocol.mode
        /\ e.input.queue # <<>> => e.input.mode = "control"
        /\ e.protocol.mode = IF modesSent = <<>> THEN "observe" ELSE Last(modesSent).data

\* Both of the above: input held by a cut, refused with it or written behind it is
\* settled once, under the mode then in force (dropTransitional, the input pump).
InputSettledOnce == SettledOnce /\ ModesAgree

\* tmux never holds an attachment nobody will clean up: from BIND's return on
\* its exact IDs are owned, the terminal result names them, and cleanup is
\* complete only when tmux let go.
ExactIsOwned ==
    /\ attached => starter = "mutated" \/ e.start.ownership = "exact"
    /\ e.terminal # NoTerminal =>
         /\ e.terminal.ownership # "pending"
         /\ attached => e.terminal.ownership = "exact"
    /\ e.cleanup.complete => ~attached

\* A shadow without an owner is left only by a BIND that saw no ID, whose epoch then ends
\* without an attachment, saying so unless its end had been asked for before.
StrayIsTold ==
    stray # "none" =>
        /\ ~attached
        /\ \/ starter = "unresolved" /\ e.terminal = NoTerminal
           \/ /\ e.terminal # NoTerminal /\ e.terminal.ownership = "none"
              /\ e.terminal.cause = "unresolvedBind" \/ e.start.pending # "none"

\* What BIND made in tmux is owned or told of: both of the above.
AttachmentOwned == ExactIsOwned /\ StrayIsTold

\* An admitted Start is answered, whatever happens to its BIND and its cut.
StartResolves == e.start.phase = "binding" ~> e.start.result # "none"

\* A published end is torn down: teardown never waits for a part that waits
\* for teardown.
TeardownCompletes == e.terminal # NoTerminal ~> teardown = "done"

\* abandonResize ends the hold of a refused resize and begins no depth that was queued
\* meanwhile: nothing that runs will, and only a later cut or request may.
strandedByRefusal ==
    /\ "refuse" \in e.given.faults /\ e.resizes > 0
    /\ e.active = NoCut /\ runner = NoRunner /\ histories = 0 /\ holders = 0

\* A queued history depth is issued or superseded, or the epoch ends, or a refused resize
\* has stranded it.
PendingHistoryServed ==
    \A r \in 1..2 :
        e.pendingHistory = r ~>
            e.pendingHistory # r \/ e.terminal # NoTerminal \/ strandedByRefusal

\* Every wait of the epoch ends: Start, teardown and, with its exception, history.
EveryWaitEnds == StartResolves /\ TeardownCompletes /\ PendingHistoryServed

=============================================================================
