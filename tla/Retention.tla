------------------------------ MODULE Retention ------------------------------
(***************************************************************************)
(* The retention runtime (internal/broker/retention_runtime.go): accepted  *)
(* output of every pane passes through one command queue to one manager,   *)
(* which batches it, commits it to the journal and hands it to one         *)
(* dispatcher.  Every byte on the way is paid for by a reservation of      *)
(* commands (q), envelopes (e) and bytes (b).                              *)
(*                                                                         *)
(* A reservation has a number.  A byte of output is known by the number of *)
(* the reservation that paid for it, so a stream is a sequence of numbers. *)
(* Ingress and outbox bytes are charged and refunded together and are one  *)
(* ledger.  A section under runtime.mu is one action; so is what the       *)
(* manager does for one command and the dispatcher for one envelope.       *)
(* Observations that settle no part are left out.                          *)
(***************************************************************************)
EXTENDS Integers, Sequences, FiniteSets, FiniteSetsExt, SequencesExt

CONSTANTS
    Keys,           \* pane keys
    MaxPanes,       \* options.maxPanes
    MaxCommands,    \* options.maxCommands
    MaxEnvelopes,   \* options.maxEnvelopes
    MaxBytes,       \* options.maxIngressBytes, options.maxOutboxBytes
    MaxBatch,       \* options.maxBatchBytes
    Sizes,          \* bytes of one observed output
    Rooms,          \* records a journal takes before storage fails
    MaxReservations,\* bound: reservations ever made
    MaxOutputs,     \* bound: outputs ever observed
    Scenes          \* bound: the callers that take part in one behaviour

None == "none"
Callers == {"output", "admit", "fit", "seal", "end", "refuse", "control", "close"}

ASSUME RetentionAssumption ==
    /\ {MaxPanes, MaxCommands, MaxEnvelopes, MaxBytes, MaxBatch} \subseteq Nat \ {0}
    /\ MaxCommands >= 2 * MaxPanes
    /\ MaxBytes >= MaxBatch
    /\ Sizes \subseteq Nat \ {0}
    /\ Rooms \subseteq Nat /\ Rooms # {} /\ IsFiniteSet(Rooms)
    /\ {MaxReservations, MaxOutputs} \subseteq Nat
    /\ Scenes \subseteq SUBSET (Callers \X (Keys \cup {None}))
    /\ IsFiniteSet(Keys)

VARIABLES
    gens,       \* runtime.generations
    res,        \* reservations not released
    use,        \* pUsed, qUsed, eUsed, bUsed
    queue,      \* runtime.queue
    panes,      \* runtime.panes
    last,       \* runtime.last
    outbox,     \* envelopes published and not taken by the dispatcher
    mgr,        \* what the manager does between two commands
    disp,       \* what the dispatcher has taken
    life,       \* runtime.closing, runtime.closed
    dur,        \* durableRetires
    reg,        \* paneRegistry: admission, router eligibility, failure markers, breaker
    fit,        \* one explicit Fit per pane and its ticket
    seal,       \* one rotation seal per pane
    obs,        \* the reservation the observer loop holds before routing, or 0
    gone,       \* the reservation the end of a pane made, and why it ends
    owner,      \* geometryOwners
    answers,    \* command.done of the awaited boundaries
    room,       \* records each journal still takes
    scene,      \* the callers of this behaviour
    outputs,    \* outputs observed so far
    next,       \* number of the next reservation
    log         \* bytes accepted and not yet stored, stored and not yet fed; answered seals;
                \* panes that failed, panes whose order was broken

vars == <<gens, res, use, queue, panes, last, outbox, mgr, disp, life, dur, reg, fit, seal,
          obs, gone, owner, answers, room, scene, outputs, next, log>>

plays(caller, k) == <<caller, k>> \in scene

NewGen == [admitted |-> FALSE, bound |-> FALSE, failed |-> FALSE, spent |-> FALSE,
           retire |-> FALSE, durable |-> FALSE, refs |-> 0]
NewPane == [pending |-> <<>>, held |-> <<>>, paused |-> FALSE, timer |-> FALSE, failed |-> FALSE]
Resting == [pc |-> "idle", r |-> 0]
Ended == [r |-> 0, reason |-> "none"]
Quiet == [busy |-> FALSE, parts |-> <<>>, cleanup |-> None]

chunks(n) == (n + MaxBatch - 1) \div MaxBatch
needOf(n) == 2 + 7 * (IF n = 0 THEN 1 ELSE chunks(n) + 1)

\* Bytes of a sequence of components, and the reservation of each of them.
bytesOf(comps) == FoldLeft(LAMBDA total, c : total + c.n, 0, comps)
ridsOf(comps) == [i \in DOMAIN comps |-> comps[i].r]
streamOf(comps) == FoldLeft(LAMBDA s, c : s \o [i \in 1..c.n |-> c.r], <<>>, comps)

(***************************************************************************)
(* The state a handler works on: Here before it, Becomes(w) after it.      *)
(***************************************************************************)
Here == [gens |-> gens, res |-> res, use |-> use, queue |-> queue, panes |-> panes,
         last |-> last, outbox |-> outbox, dur |-> dur, reg |-> reg, answers |-> answers,
         room |-> room, next |-> next, log |-> log, err |-> FALSE]

Becomes(w) ==
    /\ gens' = w.gens /\ res' = w.res /\ use' = w.use /\ queue' = w.queue
    /\ panes' = w.panes /\ last' = w.last /\ outbox' = w.outbox /\ dur' = w.dur
    /\ reg' = w.reg /\ answers' = w.answers /\ room' = w.room /\ next' = w.next
    /\ log' = w.log

without(f, x) == [y \in DOMAIN f \ {x} |-> f[y]]
with(f, x, v) == [y \in DOMAIN f \cup {x} |-> IF y = x THEN v ELSE f[y]]

(***************************************************************************)
(* Retirement and refunds.                                                 *)
(***************************************************************************)
finishRetire(w, k) ==
    [w EXCEPT !.gens = without(@, k), !.use.p = @ - 1, !.use.q = @ - 2,
              !.log.accepted[k] = <<>>, !.log.stored[k] = <<>>]

\* tryRetireLocked, and the attempt retireDurable starts when it returns true.
tryRetire(w, k) ==
    LET g == w.gens[k] IN
    IF k \notin DOMAIN w.gens \/ g.refs # 0 \/ ~g.retire \/ (g.failed /\ ~g.spent) THEN w
    ELSE IF ~g.durable THEN finishRetire(w, k)
    ELSE IF life = "open" /\ w.dur[k] = "none" THEN [w EXCEPT !.dur[k] = "try"]
    ELSE w

\* Mutant: ingress and outbox bytes are both taken from the one counter.
refund_twice(w, r) ==
    LET x == w.res[r] IN
    [w EXCEPT !.res = without(@, r), !.gens[x.key].refs = @ - 1,
              !.use = [@ EXCEPT !.q = @ - x.q, !.e = @ - needOf(x.n), !.b = @ - 2 * x.n]]

refund(w, r) ==
    LET x == w.res[r] IN
    [w EXCEPT !.res = without(@, r), !.gens[x.key].refs = @ - 1,
              !.use = [@ EXCEPT !.q = @ - x.q, !.e = @ - needOf(x.n), !.b = @ - x.n]]

cancelReservation(w, r) ==
    IF r \in DOMAIN w.res THEN tryRetire(refund(w, r), w.res[r].key) ELSE w

\* releaseCompletedReservationLocked
releaseCompleted(w, r) ==
    IF w.res[r].q = 0 /\ w.res[r].done >= w.res[r].parts THEN refund(w, r) ELSE w

releaseCommand(w, r) ==
    LET k == w.res[r].key
        spent == [w EXCEPT !.use.q = @ - 1, !.res[r].q = 0]
    IN tryRetire(releaseCompleted(spent, r), k)

completePart(w, r) ==
    IF r \notin DOMAIN w.res THEN w
    ELSE tryRetire(releaseCompleted([w EXCEPT !.res[r].done = @ + 1], r), w.res[r].key)

(***************************************************************************)
(* Reservations.                                                           *)
(***************************************************************************)
\* reserveWithAdmission: what it refuses, and what it grants.
canReserve(w, k, n, mustExist) ==
    LET fresh == k \notin DOMAIN w.gens
        add == IF fresh THEN 2 ELSE 0
    IN /\ life = "open"
       /\ w.next <= MaxReservations
       /\ fresh => ~mustExist /\ n = 0 /\ w.use.p < MaxPanes
       /\ ~fresh => ~w.gens[k].retire /\ (n > 0 => w.gens[k].bound)
       /\ w.use.q + add + 1 <= MaxCommands
       /\ w.use.e + needOf(n) <= MaxEnvelopes
       /\ w.use.b + n <= MaxBytes

ensured(w, k) ==
    IF k \in DOMAIN w.gens THEN w
    ELSE [w EXCEPT !.gens = with(@, k, NewGen), !.use.p = @ + 1, !.use.q = @ + 2]

reserved(w, k, n) ==
    LET v == ensured(w, k)
        x == [key |-> k, n |-> n, q |-> 1, parts |-> 1, done |-> 0,
              failed |-> v.gens[k].failed]
    IN [v EXCEPT !.res = with(@, v.next, x), !.next = @ + 1, !.gens[k].refs = @ + 1,
                 !.use = [@ EXCEPT !.q = @ + 1, !.e = @ + needOf(n), !.b = @ + n]]

(***************************************************************************)
(* The command queue.                                                      *)
(***************************************************************************)
command(kind, r, k, retire, mark) ==
    [kind |-> kind, r |-> r, key |-> k, retire |-> retire, mark |-> mark]

ControlRun == command("control", 0, None, FALSE, 0)
Cleanup(k) == command("cleanup", 0, k, FALSE, 0)
CloseMark == command("close", 0, None, FALSE, 0)

pushed(w, c) == [w EXCEPT !.queue = Append(@, c)]

\* enqueue refuses everything but Close and cleanup while closing, and refunds.
enqueue(w, c) == IF life = "open" THEN pushed(w, c) ELSE cancelReservation(w, c.r)

\* A rejected-output diagnostic or a fence joins a control run at the back.
controlRun(w) ==
    IF w.queue # <<>> /\ Last(w.queue).kind = "control" THEN w ELSE pushed(w, ControlRun)

(***************************************************************************)
(* Publication and faults.                                                 *)
(***************************************************************************)
publish(w, k, feed, parts) ==
    [w EXCEPT !.outbox = Append(@, [key |-> k, feed |-> feed, parts |-> parts])]

\* publishObservation, publishAbortObservation, publishDiscardParts: no feed.
settle(w, k, parts) == publish(w, k, <<>>, parts)

\* publishRetentionFailureLocked: an exact marker, or the realm-wide breaker.
publishFailure(w, k) ==
    IF w.reg.broken \/ k \in w.reg.marked THEN w
    ELSE IF k \in w.reg.admitted /\ w.reg.count < MaxPanes
    THEN [w EXCEPT !.reg.marked = @ \cup {k}, !.reg.count = @ + 1]
    ELSE [w EXCEPT !.reg.broken = TRUE, !.reg.marked = {}, !.reg.count = 0, !.reg.admitted = {}]

\* commitRetentionFaultLocked; a loser changes nothing.
commitFault(w, k) ==
    LET v == IF k \in DOMAIN w.gens THEN w
             ELSE [w EXCEPT !.gens = with(@, k, NewGen), !.use.q = @ + 2]
    IN IF v.gens[k].failed THEN v
       ELSE publishFailure([v EXCEPT !.gens[k].failed = TRUE, !.log.lost = @ \cup {k}], k)

wins(w, k) == k \notin DOMAIN w.gens \/ ~w.gens[k].failed

\* classifyFault on the manager, and the cleanup it elects.
classify(w, k) == IF wins(w, k) THEN pushed(commitFault(w, k), Cleanup(k)) ELSE w

(***************************************************************************)
(* Batching.                                                               *)
(***************************************************************************)
\* The history of a stream: bytes leave the front of what precedes them.
stores(w, k, bytes) ==
    IF ~IsPrefix(bytes, w.log.accepted[k]) THEN [w EXCEPT !.log.torn = @ \cup {k}]
    ELSE [w EXCEPT !.log.accepted[k] = SubSeq(@, Len(bytes) + 1, Len(@)), !.log.stored[k] = @ \o bytes]
feeds(w, k, bytes) ==
    IF ~IsPrefix(bytes, w.log.stored[k]) THEN [w EXCEPT !.log.torn = @ \cup {k}]
    ELSE [w EXCEPT !.log.stored[k] = SubSeq(@, Len(bytes) + 1, Len(@))]

withPane(w, k) == IF k \in DOMAIN w.panes THEN w ELSE [w EXCEPT !.panes = with(@, k, NewPane)]

\* Mutant: the batch is published before it is committed.
flush_eager(w, k) ==
    IF k \notin DOMAIN w.panes THEN [w EXCEPT !.err = FALSE]
    ELSE IF w.panes[k].pending = <<>> THEN [w EXCEPT !.err = FALSE]
    ELSE LET batch == w.panes[k].pending
             taken == [w EXCEPT !.panes[k].pending = <<>>, !.panes[k].timer = FALSE]
             sent == publish(taken, k, streamOf(batch), ridsOf(batch))
         IN IF w.room[k] = 0
            THEN classify([sent EXCEPT !.err = TRUE, !.panes[k].failed = TRUE], k)
            ELSE stores([sent EXCEPT !.err = FALSE, !.room[k] = @ - 1], k, streamOf(batch))

\* flushPane through Sequencer.WriteRecord: append, sync, commit and only then
\* publishFeed, which finds the generation alive or aborts the batch.
flush(w, k) ==
    IF k \notin DOMAIN w.panes THEN [w EXCEPT !.err = FALSE]
    ELSE IF w.panes[k].pending = <<>> THEN [w EXCEPT !.err = FALSE]
    ELSE LET batch == w.panes[k].pending
             taken == [w EXCEPT !.panes[k].pending = <<>>, !.panes[k].timer = FALSE]
             stored == stores([taken EXCEPT !.err = FALSE, !.room[k] = @ - 1], k, streamOf(batch))
         IN IF w.room[k] = 0
            THEN settle(classify([taken EXCEPT !.err = TRUE, !.panes[k].failed = TRUE], k),
                        k, ridsOf(batch))
            ELSE IF k \in DOMAIN w.gens /\ ~w.gens[k].failed
            THEN publish(stored, k, streamOf(batch), ridsOf(batch))
            ELSE settle(stored, k, ridsOf(batch))

\* The pieces enqueueComponent cuts n bytes into when a batch holds b already.
pieces(b, n) ==
    LET lead == IF n < MaxBatch - b THEN n ELSE MaxBatch - b
        rest == n - lead
    IN <<lead>> \o [i \in 1..chunks(rest) |->
                       IF i < chunks(rest) THEN MaxBatch ELSE rest - (i - 1) * MaxBatch]

appendPiece(w, k, r, n) ==
    LET p == w.panes[k]
        v == IF p.paused THEN [w EXCEPT !.panes[k].held = Append(@, [r |-> r, n |-> n])]
             ELSE [w EXCEPT !.panes[k].pending = Append(@, [r |-> r, n |-> n]),
                            !.panes[k].timer = (p.pending = <<>>) \/ @]
    IN IF ~p.paused /\ bytesOf(p.pending) + n = MaxBatch THEN flush(v, k) ELSE v

settleLeft(w, k, rids) == IF rids = <<>> THEN w ELSE settle(w, k, rids)

\* Mutant: the pieces after a failed flush are forgotten.
enqueueComponent_dropped(w, k, r, n) ==
    LET cut == pieces(bytesOf(w.panes[k].pending), n)
        step(a, size) == IF a.err THEN a ELSE appendPiece(a, k, r, size)
    IN FoldLeft(step, [w EXCEPT !.res[r].parts = Len(cut), !.err = FALSE], cut)

\* parts is fixed before the first piece; after a failed flush the pieces left
\* are discarded together.
enqueueComponent(w, k, r, n) ==
    LET cut == pieces(bytesOf(w.panes[k].pending), n)
        step(a, size) == IF a.w.err THEN [a EXCEPT !.left = Append(@, r)]
                         ELSE [a EXCEPT !.w = appendPiece(a.w, k, r, size)]
        end == FoldLeft(step, [w |-> [w EXCEPT !.res[r].parts = Len(cut), !.err = FALSE],
                               left |-> <<>>], cut)
    IN settleLeft(end.w, k, end.left)

\* drainHeld: whole components, never two deliveries in one oversize batch.
drainHeld(w, k) ==
    LET held == w.panes[k].held
        start == [w EXCEPT !.panes[k].held = <<>>, !.err = FALSE]
        room1(v, c) == LET b == bytesOf(v.panes[k].pending) IN
                       IF b # 0 /\ b + c.n > MaxBatch THEN flush(v, k) ELSE v
        add(v, c) == LET u == [v EXCEPT !.panes[k].pending = Append(@, c)] IN
                     IF bytesOf(u.panes[k].pending) = MaxBatch THEN flush(u, k) ELSE u
        step(a, c) ==
            LET v == IF a.w.err THEN a.w ELSE room1(a.w, c) IN
            IF v.err THEN [w |-> v, lost |-> Append(a.lost, c)]
            ELSE [w |-> add(v, c), lost |-> a.lost]
        end == FoldLeft(step, [w |-> start, lost |-> <<>>], held)
    IN settleLeft(end.w, k, ridsOf(end.lost))

(***************************************************************************)
(* What the manager does for one command.                                  *)
(***************************************************************************)
\* answered writes command.done; only the awaited ones are kept.
answered(w, c, ok) ==
    IF \/ \E k \in Keys : fit[k].pc \in {"pausing", "committing", "faulting"} /\ fit[k].awaits = c.r
       \/ \E k \in Keys : seal[k] = c.r
    THEN [w EXCEPT !.answers = with(@, c.r, [ok |-> ok, mark |-> c.mark])]
    ELSE w

dropPane(w, k) ==
    [w EXCEPT !.panes = without(@, k), !.last = IF @ = k THEN None ELSE @]

requestRetire(w, k) ==
    LET idle == /\ k \in DOMAIN w.panes
                /\ w.panes[k].pending = <<>> /\ w.panes[k].held = <<>> /\ ~w.panes[k].timer
        v == IF idle THEN dropPane(w, k) ELSE w
    IN IF k \notin DOMAIN v.gens THEN v
       ELSE tryRetire([v EXCEPT !.gens[k].retire = TRUE, !.gens[k].admitted = FALSE], k)

failedKey(w, k) == k \in DOMAIN w.gens /\ w.gens[k].failed

processOutput(w, c) ==
    LET v == IF w.last \in DOMAIN w.panes \ {c.key} THEN flush(w, w.last) ELSE w
        u == withPane([v EXCEPT !.last = c.key], c.key)
    IN IF failedKey(u, c.key) THEN settle(u, c.key, <<c.r>>)
       ELSE enqueueComponent(u, c.key, c.r, u.res[c.r].n)

processDiscard(w, c) ==
    LET v == settle(w, c.key, <<c.r>>)
    IN IF c.retire THEN requestRetire(v, c.key) ELSE v

pauseStart(w, c) ==
    LET v == flush(w, c.key)
    IN settle(IF v.err THEN v ELSE [v EXCEPT !.panes[c.key].paused = TRUE], c.key, <<c.r>>)

\* The held output goes out whatever the first flush said.
pauseEnd(w, c) ==
    LET resumed(v) == drainHeld([v EXCEPT !.panes[c.key].paused = FALSE], c.key)
        rest(u, failed) == IF failed \/ u.err THEN [u EXCEPT !.err = TRUE] ELSE flush(u, c.key)
        end(v) == rest(resumed(v), v.err)
    IN settle(end(flush(w, c.key)), c.key, <<c.r>>)

faultBoundary(w, c) ==
    LET v == flush(w, c.key)
    IN [settle(classify(v, c.key), c.key, <<c.r>>) EXCEPT !.err = v.err]

processBoundary(w, c) ==
    LET passed(p) == CASE c.kind = "pause_start" -> pauseStart(p, c)
                       [] c.kind = "pause_end" -> pauseEnd(p, c)
                       [] c.kind = "geometry_fault" -> faultBoundary(p, c)
                       [] OTHER -> settle(flush(p, c.key), c.key, <<c.r>>)
        ended(v) == IF c.kind = "terminal_gone" /\ c.key \in DOMAIN v.gens
                    THEN [v EXCEPT !.gens[c.key].durable = TRUE] ELSE v
        retired(u) == IF c.retire THEN requestRetire(u, c.key) ELSE u
        done(v) == answered(retired(ended(v)), c, ~v.err)
    IN done(passed(withPane(w, c.key)))

\* A geometry is one record of the journal; it carries no byte of output.
processGeometry(w, c) ==
    LET v == flush(withPane(w, c.key), c.key)
        ok == ~v.err /\ ~failedKey(v, c.key) /\ v.room[c.key] > 0
    IN IF ok THEN answered(publish([v EXCEPT !.room[c.key] = @ - 1], c.key, <<>>, <<c.r>>), c, TRUE)
       ELSE answered(settle(classify([v EXCEPT !.room[c.key] = IF v.err \/ failedKey(v, c.key)
                                                               THEN @ ELSE 0], c.key),
                            c.key, <<c.r>>), c, FALSE)

processCleanup(w, c) ==
    LET k == c.key
        v == IF k \notin DOMAIN w.panes THEN w
             ELSE dropPane(settleLeft(w, k, ridsOf(w.panes[k].pending \o w.panes[k].held)), k)
    IN IF k \notin DOMAIN v.gens THEN v
       ELSE tryRetire([v EXCEPT !.gens[k].spent = TRUE, !.gens[k].retire = TRUE], k)

\* flushAll: held output of a healthy pane first.
flushAll(w) ==
    LET one(v, k) ==
            LET u == IF v.panes[k].paused /\ ~v.panes[k].failed
                     THEN drainHeld([v EXCEPT !.panes[k].paused = FALSE], k) ELSE v
            IN flush(u, k)
    IN FoldLeft(one, w, SetToSeq(DOMAIN w.panes))

process(w, c) ==
    CASE c.kind = "output" -> processOutput(w, c)
      [] c.kind = "discard" -> processDiscard(w, c)
      [] c.kind = "cleanup" -> processCleanup(w, c)
      [] c.kind = "geometry" -> processGeometry(w, c)
      [] c.kind = "control" -> w
      [] c.kind = "close" -> flushAll(w)
      [] OTHER -> processBoundary(w, c)

(***************************************************************************)
(* The manager.                                                            *)
(***************************************************************************)
elsewhere == UNCHANGED <<life, fit, seal, owner, scene, outputs, disp, obs, gone>>

ManagerTake ==
    /\ mgr.pc = "idle" /\ queue # <<>>
    /\ LET c == Head(queue) IN
       \E w \in {process([Here EXCEPT !.queue = Tail(@)], c)} :
          /\ Becomes(IF c.r = 0 \/ c.kind = "output" THEN w ELSE releaseCommand(w, c.r))
          /\ mgr' = IF c.kind = "output" THEN [pc |-> "release", r |-> c.r]
                    ELSE IF c.kind = "close" THEN [pc |-> "barrier", r |-> 0] ELSE Resting
    /\ elsewhere

\* The manager may still own the bytes of an output whose last piece is settled.
ManagerRelease ==
    /\ mgr.pc = "release"
    /\ Becomes(releaseCommand(Here, mgr.r))
    /\ mgr' = Resting
    /\ elsewhere

\* processDueTimers on an empty queue; processTimersThrough before an output.
TimerFires(k) ==
    /\ mgr.pc = "idle" /\ k \in DOMAIN panes /\ panes[k].timer
    /\ (IF queue = <<>> THEN TRUE ELSE Head(queue).kind = "output")
    /\ Becomes(flush(Here, k))
    /\ UNCHANGED mgr
    /\ elsewhere

\* processClose after its barrier: work that arrived meanwhile goes first.
CloseAgain ==
    /\ mgr.pc = "barrier" /\ outbox = <<>> /\ ~disp.busy /\ queue # <<>>
    /\ Becomes(pushed(Here, CloseMark))
    /\ mgr' = Resting
    /\ elsewhere

ManagerCloses ==
    /\ mgr.pc = "barrier" /\ outbox = <<>> /\ ~disp.busy /\ queue = <<>>
    /\ life' = "closed"
    /\ gens' = <<>> /\ res' = <<>> /\ panes' = <<>> /\ last' = None
    /\ use' = [p |-> 0, q |-> 0, e |-> 0, b |-> 0]
    /\ dur' = [k \in Keys |-> "none"]
    /\ mgr' = [pc |-> "done", r |-> 0]
    /\ UNCHANGED <<queue, outbox, disp, reg, fit, seal, owner, answers, room, scene, outputs, next, log, obs, gone>>

\* retireDurable: one attempt at a time; a failed one waits for its timer.
RetireAttempt(k, settled) ==
    /\ life # "closed" /\ dur[k] = "try"
    /\ LET g == gens[k]
           w == [Here EXCEPT !.dur[k] = IF settled \/ life # "open" THEN "none" ELSE "wait"]
       IN Becomes(IF /\ settled /\ k \in DOMAIN gens
                     /\ g.durable /\ g.refs = 0 /\ g.retire /\ (g.failed => g.spent)
                  THEN finishRetire(w, k) ELSE w)
    /\ UNCHANGED mgr
    /\ elsewhere

RetireRetry(k) ==
    /\ life = "open" /\ mgr.pc = "idle" /\ dur[k] = "wait"
    /\ Becomes([Here EXCEPT !.dur[k] = "try"])
    /\ UNCHANGED mgr
    /\ elsewhere

Manager ==
    \/ ManagerTake \/ ManagerRelease \/ CloseAgain \/ ManagerCloses
    \/ \E k \in Keys : TimerFires(k) \/ RetireRetry(k)

(***************************************************************************)
(* The dispatcher.  A refused feed faults the generation; its cleanup is   *)
(* queued only after the parts of the envelope are settled.                *)
(***************************************************************************)
fedBy(env) ==
    LET w == [Here EXCEPT !.outbox = Tail(@)]
    IN IF env.feed = <<>> THEN w ELSE feeds(w, env.key, env.feed)

Dispatch ==
    /\ ~disp.busy /\ outbox # <<>>
    /\ LET env == Head(outbox) IN Becomes(FoldLeft(completePart, fedBy(env), env.parts))
    /\ UNCHANGED <<mgr, disp, life, fit, seal, owner, scene, outputs, obs, gone>>

FeedRefused ==
    /\ ~disp.busy /\ outbox # <<>>
    /\ LET env == Head(outbox) IN
       /\ env.feed # <<>> /\ plays("refuse", env.key)
       /\ Becomes(commitFault(fedBy(env), env.key))
       /\ disp' = [busy |-> TRUE, parts |-> env.parts,
                   cleanup |-> IF wins(Here, env.key) THEN env.key ELSE None]
    /\ UNCHANGED <<mgr, life, fit, seal, owner, scene, outputs, obs, gone>>

FaultSettled ==
    /\ disp.busy
    /\ LET w == FoldLeft(completePart, Here, disp.parts)
       IN Becomes(IF disp.cleanup = None THEN w ELSE pushed(w, Cleanup(disp.cleanup)))
    /\ disp' = Quiet
    /\ UNCHANGED <<mgr, life, fit, seal, owner, scene, outputs, obs, gone>>

Dispatcher == Dispatch \/ FeedRefused \/ FaultSettled

(***************************************************************************)
(* The registry and the observer loop of one control session per key.  A   *)
(* section under registry.mu is one action; between the reservation and    *)
(* the routing of an observation the observer holds neither lock.          *)
(***************************************************************************)
closingOrBroken == reg.closing \/ reg.broken

releaseUnadmitted(w, k, created) ==
    IF created /\ k \in DOMAIN w.gens /\ ~w.gens[k].admitted /\ w.gens[k].refs = 0
    THEN finishRetire(w, k) ELSE w

\* AdmitPane: ensureGeneration, then the section under both locks.  A key holds
\* a fresh control generation, so it is admitted once.
AdmitEnsure(k) ==
    /\ plays("admit", k) /\ reg.phase[k] = "new" /\ life = "open"
    /\ IF k \in DOMAIN gens THEN ~gens[k].retire
       ELSE use.p < MaxPanes /\ use.q + 2 <= MaxCommands
    /\ Becomes([ensured(Here, k) EXCEPT !.reg.phase[k] =
                    IF k \in DOMAIN gens THEN "found" ELSE "created"])
    /\ UNCHANGED mgr /\ elsewhere

AdmitFinish(k) ==
    /\ reg.phase[k] \in {"found", "created"}
    /\ LET created == reg.phase[k] = "created"
           markable == k \in DOMAIN gens /\ ~gens[k].retire /\ ~gens[k].failed
       IN Becomes(
            IF closingOrBroken \/ k \in reg.marked \/ ~markable
            THEN releaseUnadmitted([Here EXCEPT !.reg.phase[k] = "ended"], k, created)
            ELSE [Here EXCEPT !.gens[k].admitted = TRUE, !.reg.phase[k] = "admitted",
                              !.reg.admitted = @ \cup {k}, !.reg.routed = @ \cup {k}])
    /\ UNCHANGED mgr /\ elsewhere

\* bindSource, before the first output may be paid for; the pane is active then.
Bind(k) ==
    /\ reg.phase[k] = "admitted"
    /\ LET ready == /\ life = "open"
                    /\ IF k \in DOMAIN gens THEN ~gens[k].retire /\ ~gens[k].failed
                       ELSE use.p < MaxPanes /\ use.q + 2 <= MaxCommands
       IN Becomes(IF ready
                  THEN [ensured(Here, k) EXCEPT !.gens[k].bound = TRUE, !.reg.phase[k] = "live"]
                  ELSE [Here EXCEPT !.reg.phase[k] = "ended"])
    /\ UNCHANGED mgr /\ elsewhere

\* ObservePane of output up to its reservation; the loop reads on until it ends.
Accept(k, n) ==
    /\ plays("output", k) /\ outputs < MaxOutputs
    /\ obs[k] = 0 /\ reg.phase[k] \in {"live", "ended"} /\ ~closingOrBroken
    /\ canReserve(Here, k, n, FALSE)
    /\ Becomes(reserved(Here, k, n))
    /\ obs' = [obs EXCEPT ![k] = next]
    /\ outputs' = outputs + 1
    /\ UNCHANGED <<mgr, life, fit, seal, owner, scene, disp, gone>>

\* rejectReservation: an ordered discard that retires, or a bare refund.
revoked(w, k) ==
    IF k \in DOMAIN w.gens
    THEN [w EXCEPT !.gens[k].admitted = FALSE, !.gens[k].retire = TRUE] ELSE w

reject(w, k, r) ==
    IF w.res[r].n # 0 /\ life = "open" THEN pushed(w, command("discard", r, k, TRUE, 0))
    ELSE cancelReservation(revoked(w, k), r)

failedMark(k, r) == k \in reg.marked \/ res[r].failed \/ failedKey(Here, k)

\* ObservePane of output after its reservation; the router takes output only of
\* a pane that is still eligible.
Route(k) ==
    /\ obs[k] # 0
    /\ LET r == obs[k]
           fate == enqueue([Here EXCEPT !.log.accepted[k] =
                                IF life = "open" THEN @ \o [i \in 1..res[r].n |-> r] ELSE @],
                           command("output", r, k, FALSE, 0))
       IN Becomes(
            IF closingOrBroken THEN cancelReservation(revoked(Here, k), r)
            ELSE IF failedMark(k, r) THEN reject(Here, k, r)
            ELSE IF k \notin reg.routed THEN enqueue(Here, command("discard", r, k, FALSE, 0))
            ELSE fate)
    /\ obs' = [obs EXCEPT ![k] = 0]
    /\ UNCHANGED <<mgr, life, fit, seal, owner, scene, outputs, disp, gone>>

\* Output of a failed incarnation that no reservation pays for, or a fence.
ControlArrives ==
    /\ plays("control", None) /\ life = "open"
    /\ Becomes(controlRun(Here))
    /\ UNCHANGED mgr /\ elsewhere

(***************************************************************************)
(* The end of a pane: its session is gone (beginOwnerGone, then            *)
(* finishOwnerGone once the subscribers are settled), another pane took    *)
(* its place, or the control connection is lost (ObservePane).             *)
(***************************************************************************)
authority(k) == k \in reg.admitted \cap reg.routed

EndBegin(k, reason) ==
    /\ plays("end", k) /\ gone[k].r = 0 /\ reg.phase[k] = "live" /\ ~closingOrBroken
    /\ LET owned == reason # "terminal_handoff"
           w == [reserved(Here, k, 0) EXCEPT !.reg.phase[k] = "ended"]
       IN /\ canReserve(Here, k, 0, owned)
          /\ owned => authority(k) /\ gens[k].admitted
          /\ Becomes(IF reason # "terminal_gone" THEN w
                     ELSE [w EXCEPT !.reg.admitted = @ \ {k}, !.reg.routed = @ \ {k},
                                    !.reg.marked = @ \ {k}])
    /\ gone' = [gone EXCEPT ![k] = [r |-> next, reason |-> reason]]
    /\ UNCHANGED <<mgr, life, fit, seal, owner, scene, outputs, disp, obs>>

EndFinish(k) ==
    /\ gone[k].r # 0
    /\ LET r == gone[k].r
           boundary == command(gone[k].reason, r, k, gone[k].reason # "reconnect", 0)
           w == [Here EXCEPT !.reg.routed = @ \ {k}]
       IN Becomes(
            IF gone[k].reason = "terminal_gone" THEN enqueue(w, boundary)
            ELSE IF closingOrBroken THEN cancelReservation(revoked(Here, k), r)
            ELSE IF gone[k].reason = "reconnect" /\ ~authority(k) THEN cancelReservation(Here, r)
            ELSE IF failedMark(k, r) THEN reject(Here, k, r)
            ELSE enqueue(w, boundary))
    /\ gone' = [gone EXCEPT ![k] = Ended]
    /\ UNCHANGED <<mgr, life, fit, seal, owner, scene, outputs, disp, obs>>

(***************************************************************************)
(* One Fit per pane (unified_dev_geometry.go).  Everything it may need is  *)
(* reserved before anything is held: commit, release and fault slots are   *)
(* the reservations base, base+1 and base+2.                               *)
(***************************************************************************)
IdleFit == [pc |-> "idle", base |-> 0, awaits |-> 0]

\* BeginGeometry looks the active pane up under another lock.
FitAsks(k) ==
    /\ plays("fit", k) /\ fit[k].pc = "idle" /\ reg.phase[k] = "live"
    /\ Becomes(Here)
    /\ fit' = [fit EXCEPT ![k].pc = "asked"]
    /\ UNCHANGED <<mgr, life, seal, owner, scene, outputs, disp, obs, gone>>

\* errGeometryPauseOwned, or no room for the slots.
FitDeclined(k) ==
    /\ fit[k].pc = "asked"
    /\ Becomes(Here)
    /\ fit' = [fit EXCEPT ![k].pc = "idle"]
    /\ UNCHANGED <<mgr, life, seal, owner, scene, outputs, disp, obs, gone>>

\* BeginGeometry up to the queued pause_start.  A slot that is refused gives
\* back the ones before it and the owner, which no other section can see.
FitBegin(k) ==
    /\ fit[k].pc = "asked" /\ owner[k] = "free" /\ life = "open"
    /\ LET slot(w) == reserved(w, k, 0)
           one == slot(Here)
           two == slot(one)
           three == slot(two)
       IN /\ canReserve(Here, k, 0, FALSE) /\ canReserve(one, k, 0, FALSE)
          /\ canReserve(two, k, 0, FALSE) /\ canReserve(three, k, 0, TRUE)
          /\ Becomes(enqueue(slot(three), command("pause_start", next + 3, k, FALSE, 0)))
    /\ owner' = [owner EXCEPT ![k] = "refit"]
    /\ fit' = [fit EXCEPT ![k] = [pc |-> "pausing", base |-> next, awaits |-> next + 3]]
    /\ UNCHANGED <<mgr, life, seal, scene, outputs, disp, obs, gone>>

EndPause(w, k) == enqueue(w, command("pause_end", fit[k].base + 1, k, FALSE, 0))
CommitSlot(k) == fit[k].base
FaultSlot(k) == fit[k].base + 2

\* Every way out of a Fit ends with the owner free, after pause_end is queued.
fitEnds(k) ==
    /\ fit' = [fit EXCEPT ![k] = IdleFit]
    /\ owner' = [owner EXCEPT ![k] = "free"]
    /\ UNCHANGED <<mgr, life, seal, scene, outputs, disp, obs, gone>>

fitMoves(k, pc, r) ==
    /\ fit' = [fit EXCEPT ![k].pc = pc, ![k].awaits = r]
    /\ UNCHANGED <<mgr, life, seal, owner, scene, outputs, disp, obs, gone>>

forget(w, r) == [w EXCEPT !.answers = without(@, r)]

\* The pause settled: a ticket, or a fatal verdict that returns every slot.
FitStarted(k) ==
    /\ fit[k].pc = "pausing" /\ fit[k].awaits \in DOMAIN answers
    /\ LET r == fit[k].awaits IN
       IF answers[r].ok
       THEN /\ Becomes(forget(Here, r))
            /\ fitMoves(k, "ticket", 0)
       ELSE /\ Becomes(FoldLeft(cancelReservation, forget(Here, r),
                                <<CommitSlot(k), fit[k].base + 1, FaultSlot(k)>>))
            /\ fitEnds(k)

\* Mutant: a cancelled Fit returns its slots and leaves the pause behind.
FitCancelled_silent(k) ==
    /\ fit[k].pc = "pausing" /\ fit[k].awaits \notin DOMAIN answers
    /\ Becomes(FoldLeft(cancelReservation, Here,
                        <<CommitSlot(k), fit[k].base + 1, FaultSlot(k)>>))
    /\ fitEnds(k)

\* The request ended before the pause was answered: pause_end is queued first,
\* and only then may another owner queue a pause.
FitCancelled(k) ==
    /\ fit[k].pc = "pausing" /\ fit[k].awaits \notin DOMAIN answers
    /\ Becomes(FoldLeft(cancelReservation, EndPause(Here, k), <<CommitSlot(k), FaultSlot(k)>>))
    /\ fitEnds(k)

\* The journal refuses its reservation, or the guarded command is not issued.
FitRefused(k) ==
    /\ fit[k].pc = "ticket"
    /\ Becomes(EndPause(cancelReservation(cancelReservation(Here, CommitSlot(k)), FaultSlot(k)), k))
    /\ fitEnds(k)

FitIssue(k) ==
    /\ fit[k].pc = "ticket"
    /\ Becomes(Here)
    /\ fitMoves(k, "issued", 0)

FitCommit(k) ==
    /\ fit[k].pc = "issued" /\ life = "open"
    /\ Becomes(enqueue(Here, command("geometry", CommitSlot(k), k, FALSE, 0)))
    /\ fitMoves(k, "committing", CommitSlot(k))

FitCommitted(k) ==
    /\ fit[k].pc = "committing" /\ CommitSlot(k) \in DOMAIN answers
    /\ answers[CommitSlot(k)].ok
    /\ Becomes(EndPause(cancelReservation(forget(Here, CommitSlot(k)), FaultSlot(k)), k))
    /\ fitEnds(k)

\* Issued and not committed: the command failed after it was issued, the
\* commit failed, the request ended or the runtime is closing.
FitFails(k) ==
    /\ \/ fit[k].pc = "issued"
       \/ fit[k].pc = "committing"
          /\ (CommitSlot(k) \in DOMAIN answers => ~answers[CommitSlot(k)].ok)
    /\ LET w == IF fit[k].pc = "issued" THEN cancelReservation(Here, CommitSlot(k))
                ELSE forget(Here, CommitSlot(k))
       IN Becomes(enqueue(w, command("geometry_fault", FaultSlot(k), k, FALSE, 0)))
    /\ fitMoves(k, "faulting", IF life = "open" THEN FaultSlot(k) ELSE 0)

\* The fault was answered, was refused because of Close, or timed out.
FitFaulted(k) ==
    /\ fit[k].pc = "faulting"
    /\ Becomes(EndPause(forget(Here, fit[k].awaits), k))
    /\ fitEnds(k)

Fit(k) ==
    \/ FitAsks(k) \/ FitDeclined(k) \/ FitBegin(k) \/ FitStarted(k) \/ FitCancelled(k)
    \/ FitRefused(k) \/ FitIssue(k) \/ FitCommit(k)
    \/ FitCommitted(k) \/ FitFails(k) \/ FitFaulted(k)

(***************************************************************************)
(* The seal of a rotation (unified_rotation.go): the pause owner of the    *)
(* pane queues a retiring boundary and waits for its answer.               *)
(***************************************************************************)
\* Mutant: the seal is queued beside a pause somebody else owns.
SealBegin_unowned(k) ==
    /\ plays("seal", k) /\ seal[k] = 0 /\ canReserve(Here, k, 0, TRUE)
    /\ gens[k].admitted /\ ~gens[k].failed
    /\ Becomes(enqueue(reserved(Here, k, 0), command("rotation_seal", next, k, TRUE,
                           IF log.accepted[k] = <<>> THEN 0 ELSE Last(log.accepted[k]))))
    /\ seal' = [seal EXCEPT ![k] = next]
    /\ owner' = [owner EXCEPT ![k] = "seal"]
    /\ UNCHANGED <<mgr, life, fit, scene, outputs, disp, obs, gone>>

SealBegin(k) ==
    /\ plays("seal", k) /\ seal[k] = 0 /\ owner[k] = "free" /\ canReserve(Here, k, 0, TRUE)
    /\ gens[k].admitted /\ ~gens[k].failed
    /\ Becomes(enqueue(reserved(Here, k, 0), command("rotation_seal", next, k, TRUE,
                           IF log.accepted[k] = <<>> THEN 0 ELSE Last(log.accepted[k]))))
    /\ seal' = [seal EXCEPT ![k] = next]
    /\ owner' = [owner EXCEPT ![k] = "seal"]
    /\ UNCHANGED <<mgr, life, fit, scene, outputs, disp, obs, gone>>

SealAnswered(k) ==
    /\ seal[k] \in DOMAIN answers
    /\ LET w == forget(Here, seal[k]) IN
       Becomes(IF answers[seal[k]].ok
               THEN [w EXCEPT !.log.sealed[k] = answers[seal[k]].mark] ELSE w)
    /\ seal' = [seal EXCEPT ![k] = 0]
    /\ owner' = [owner EXCEPT ![k] = "free"]
    /\ UNCHANGED <<mgr, life, fit, scene, outputs, disp, obs, gone>>

(***************************************************************************)
(* Close: the registry refuses first, then the runtime queues its mark.    *)
(***************************************************************************)
RegistryCloses ==
    /\ plays("close", None) /\ ~reg.closing
    /\ Becomes([Here EXCEPT !.reg.closing = TRUE])
    /\ UNCHANGED mgr /\ elsewhere

Close ==
    /\ reg.closing /\ life = "open"
    /\ life' = "closing"
    /\ Becomes(pushed(Here, CloseMark))
    /\ UNCHANGED <<mgr, fit, seal, owner, scene, outputs, disp, obs, gone>>

\* At rest: closed, or open with no work and no caller waiting for an answer.
Done ==
    /\ queue = <<>> /\ outbox = <<>> /\ ~disp.busy
    /\ \/ life = "closed"
       \/ life = "open" /\ mgr.pc = "idle" /\ \A k \in Keys : fit[k].pc = "idle" /\ seal[k] = 0
    /\ UNCHANGED vars

\* A pane the scene admits has never been seen; every other is live.
Init ==
    /\ scene \in Scenes
    /\ LET live == {k \in Keys : ~plays("admit", k)} IN
       /\ gens = [k \in live |-> [NewGen EXCEPT !.admitted = TRUE, !.bound = TRUE]]
       /\ use = [p |-> Cardinality(live), q |-> 2 * Cardinality(live), e |-> 0, b |-> 0]
       /\ reg = [phase |-> [k \in Keys |-> IF k \in live THEN "live" ELSE "new"],
                 admitted |-> live, routed |-> live, marked |-> {}, count |-> 0,
                 broken |-> FALSE, closing |-> FALSE]
    /\ res = <<>> /\ queue = <<>> /\ panes = <<>> /\ last = None /\ outbox = <<>>
    /\ mgr = Resting /\ disp = Quiet /\ life = "open"
    /\ dur = [k \in Keys |-> "none"]
    /\ fit = [k \in Keys |-> IdleFit]
    /\ seal = [k \in Keys |-> 0]
    /\ obs = [k \in Keys |-> 0]
    /\ gone = [k \in Keys |-> Ended]
    /\ owner = [k \in Keys |-> "free"]
    /\ answers = <<>>
    /\ room \in {r \in [Keys -> Rooms] : \A k \in Keys : plays("output", k) \/ r[k] = Max(Rooms)}
    /\ outputs = 0 /\ next = 1
    /\ log = [accepted |-> [k \in Keys |-> <<>>], stored |-> [k \in Keys |-> <<>>],
              sealed |-> [k \in Keys |-> 0], lost |-> {}, torn |-> {}]

Observer(k) ==
    \/ AdmitEnsure(k) \/ AdmitFinish(k) \/ Bind(k) \/ Route(k) \/ EndFinish(k)
    \/ \E n \in Sizes : Accept(k, n)
    \/ \E reason \in {"terminal_gone", "terminal_handoff", "reconnect"} : EndBegin(k, reason)

Next ==
    \/ Manager \/ Dispatcher \/ ControlArrives \/ RegistryCloses \/ Close \/ Done
    \/ \E k \in Keys : \/ Observer(k) \/ Fit(k) \/ SealBegin(k) \/ SealAnswered(k)
                       \/ \E settled \in BOOLEAN : RetireAttempt(k, settled)

Spec == Init /\ [][Next]_vars

(***************************************************************************)
(* Properties.                                                             *)
(***************************************************************************)
Commands == {"output", "discard", "cleanup", "geometry", "control", "close", "pause_start", "pause_end",
             "geometry_fault", "terminal_gone", "terminal_handoff", "reconnect", "rotation_seal"}
Rids == 1..MaxReservations
Flags == {"admitted", "bound", "failed", "spent", "retire", "durable"}

\* The variables keep their shape: generations, reservations and ledgers of the
\* runtime, its queue, the manager, the dispatcher and the callers.
TypeOK ==
    /\ DOMAIN gens \subseteq Keys
    /\ \A k \in DOMAIN gens : gens[k].refs \in Nat /\ \A f \in Flags : gens[k][f] \in BOOLEAN
    /\ DOMAIN res \subseteq Rids
    /\ \A r \in DOMAIN res :
          /\ res[r].key \in Keys /\ res[r].n \in Sizes \cup {0} /\ res[r].q \in {0, 1}
          /\ {res[r].parts, res[r].done} \subseteq Nat /\ res[r].failed \in BOOLEAN
    /\ use \in [{"p", "q", "e", "b"} -> Nat]
    /\ \A i \in DOMAIN queue : /\ queue[i].kind \in Commands
                               /\ queue[i].key \in Keys \cup {None}
                               /\ queue[i].r \in Rids \cup {0} /\ queue[i].retire \in BOOLEAN
    /\ DOMAIN panes \subseteq Keys /\ last \in Keys \cup {None}
    /\ life \in {"open", "closing", "closed"}
    /\ dur \in [Keys -> {"none", "try", "wait"}]
    /\ owner \in [Keys -> {"free", "refit", "seal"}]
    /\ room \in [Keys -> Nat]
    /\ next \in 1..MaxReservations + 1

SumOf(f(_)) == FoldSet(LAMBDA r, total : f(r) + total, 0, DOMAIN res)

\* What is charged is what is owed: two commands for every generation, and the
\* command, envelopes and bytes of every reservation not released; no counter
\* passes its limit, and a generation knows how many reservations refer to it
\* (retention_runtime.go reserveWithAdmission, cancelReservation, releaseCommand,
\* completePart, finishRetireLocked).
Charged ==
    life # "closed" =>
    /\ use.p = Cardinality(DOMAIN gens) /\ use.p <= MaxPanes
    /\ use.q = 2 * use.p + SumOf(LAMBDA r : res[r].q) /\ use.q <= MaxCommands
    /\ use.e = SumOf(LAMBDA r : needOf(res[r].n)) /\ use.e <= MaxEnvelopes
    /\ use.b = SumOf(LAMBDA r : res[r].n) /\ use.b <= MaxBytes
    /\ \A k \in DOMAIN gens :
          gens[k].refs = Cardinality({r \in DOMAIN res : res[r].key = k})

\* A reservation of output is released only when every piece the manager cut it
\* into is settled: the pieces still pending, held, published or being
\* dispatched are exactly the parts not done, and none belongs to a released
\* reservation (releaseCompletedReservationLocked, publishAbortObservation).
Carried ==
    LET ofPane(k) == ridsOf(panes[k].pending \o panes[k].held) IN
    FoldSet(LAMBDA k, s : s \o ofPane(k), <<>>, DOMAIN panes)
    \o FoldLeft(LAMBDA s, env : s \o env.parts, <<>>, outbox) \o disp.parts
Waiting == {queue[i].r : i \in DOMAIN queue} \cup {obs[k] : k \in Keys} \cup {gone[k].r : k \in Keys}
           \cup UNION {{fit[k].base, fit[k].base + 1, fit[k].base + 2} : k \in Keys}
PartsBalance ==
    life # "closed" =>
    LET carried == Carried IN
    /\ \A i \in DOMAIN carried : carried[i] \in DOMAIN res
    /\ \A r \in DOMAIN res \ Waiting :
          res[r].done + Cardinality({i \in DOMAIN carried : carried[i] = r}) = res[r].parts

\* The queue cannot overflow: ordinary commands are paid for by reservations,
\* every failed generation has at most one cleanup, Close has one mark, and two
\* control runs are never adjacent (retention_queue.go newRetentionCommandQueue;
\* pushCommandLocked panics otherwise).
QueueFunded ==
    LET at(kind) == {i \in DOMAIN queue : queue[i].kind = kind}
        ordinary == {i \in DOMAIN queue : queue[i].r # 0}
    IN /\ Cardinality(ordinary) + 2 * use.p <= MaxCommands
       /\ Cardinality(at("cleanup")) <= Cardinality({k \in DOMAIN gens : gens[k].failed /\ ~gens[k].spent})
       /\ Cardinality(at("close")) <= 1
       /\ \A i \in at("control") : i + 1 \notin at("control")

\* All of the above: whatever is accepted is charged once, settled once and given back.
LedgersBalance == Charged /\ PartsBalance /\ QueueFunded

\* What the journal commits is a prefix of what the observer accepted and what
\* the page is fed is a prefix of what was committed, whatever pauses, faults and
\* retirements come between (flushPane, publishFeed, drainHeld, processCleanup).
StreamsInOrder == log.torn = {}

\* A seal that succeeded has all the output accepted before it in the journal,
\* none of it held by a pause (unified_rotation.go:886; retention_runtime.go
\* acquireGeometryOwner).
SealIsCommitted ==
    \A k \in Keys : k \in log.lost \/ \A i \in DOMAIN log.accepted[k] : log.accepted[k][i] > log.sealed[k]

\* A paused pane has somebody bound to resume it: the Fit that owns the pause, or
\* its pause_end in the queue; a faulted generation drops the held output
\* (unified_dev_geometry.go BeginGeometry, Release).
NoStrandedHold ==
    \A k \in DOMAIN panes :
        life = "open" /\ panes[k].paused =>
            \/ owner[k] = "refit" \/ failedKey(Here, k)
            \/ \E i \in DOMAIN queue : queue[i].kind = "pause_end" /\ queue[i].key = k

\* Output that waits in a batch has a timer that will flush it.
BatchIsTimed ==
    \A k \in DOMAIN panes :
        life = "open" /\ panes[k].pending # <<>> =>
            panes[k].timer \/ failedKey(Here, k)

\* Nothing that was accepted waits for something nobody is bound to do: both of the above.
NothingStranded == NoStrandedHold /\ BatchIsTimed

=============================================================================
