------------------------------ MODULE InputGate ------------------------------
(***************************************************************************)
(* What stands between a keystroke on a Control page and its terminal: the *)
(* flow window and stall clock of the relay, the consumption receipts it   *)
(* forwards, the freshness gate of the broker, and the results that come   *)
(* back.  One attachment of one generation.                                *)
(*                                                                         *)
(* conn and req are the two directions of the broker's socket, down and up *)
(* those of the page's; each is one FIFO.  A frame is the record it        *)
(* completes, or 0.  Time is counted in ticks.                             *)
(***************************************************************************)
EXTENDS Integers, Sequences, FiniteSets, SequencesExt

CONSTANTS
    Sizes,            \* the bytes of a frame of each record
    FlowWindow,       \* FlowWindowBytes
    StallTimeout,     \* FlowStallTimeout
    ReceiptInterval,  \* ConsumptionReceiptInterval
    Window,           \* inputFreshnessWindow
    Resolution,       \* Window / frontierClockResolution
    Quiet,            \* inputResumeQuiet
    FrontierMarks,    \* frontierClockMarks
    DeliveredMarks,   \* deliveredMarks
    MaxInputBacklog,  \* maxInputBacklog
    ConnCap,          \* what the broker's socket buffers
    Scenes            \* bounds of a run: records, those of two frames (long), inputs, horizon, outcomes, retires

ASSUME ClockAssumption ==
    /\ Window \in Nat /\ Resolution \in 1..Window /\ Quiet \in Nat
    /\ StallTimeout \in Nat \ {0} /\ ReceiptInterval \in Nat

\* The marks reach back over the window: 72 of them, a 64th of it apart.
ASSUME BoundAssumption ==
    /\ FrontierMarks \in Nat \ {0} /\ Window <= (FrontierMarks - 1) * Resolution
    /\ DeliveredMarks \in Nat \ {0} /\ MaxInputBacklog \in Nat
    /\ FlowWindow \in Nat /\ ConnCap \in Nat

ASSUME SceneAssumption ==
    /\ Sizes \in Seq(Nat \ {0})
    /\ \A s \in Scenes : /\ s.records \in 1..Len(Sizes) /\ s.inputs \in Nat /\ s.horizon \in Nat
                         /\ s.outcomes \subseteq {"written", "partial", "dropped", "refused"}

VARIABLES
    scene,
    now,
    prov,      \* the provider: publications of the generation and its clock
    writer,    \* unifiedAttachmentFrameWriter
    fresh,     \* inputFreshness
    desk,      \* the broker's attachment loop, its ledger and its reporter
    net,       \* the four directions
    front,     \* the relay loop
    page,
    end        \* why the attachment ended

vars == <<scene, now, prov, writer, fresh, desk, net, front, page, end>>

Outcomes == {"written", "partial", "dropped", "refused", "paused"}

frame(n, size) == [kind |-> "frame", n |-> n, size |-> size, code |-> ""]
mode == [kind |-> "mode", n |-> 0, size |-> 1, code |-> ""]
verdict(run) == [kind |-> "input", n |-> run.through, size |-> 0, code |-> run.result]
ack(k) == [kind |-> "ack", n |-> k, seen |-> 0]
\* seen: what the page had acknowledged when it typed this.
input(n, seen) == [kind |-> "input", n |-> n, seen |-> seen]

NoClock == [known |-> FALSE, marks |-> <<>>, pruned |-> FALSE]
NewClock == [NoClock EXCEPT !.known = TRUE]
NoJudgement == [id |-> 0, known |-> FALSE, required |-> 0, at |-> 0, seen |-> 0]

Here == [prov |-> prov, writer |-> writer, fresh |-> fresh, desk |-> desk, net |-> net,
         front |-> front, page |-> page, end |-> end]
Becomes(w) ==
    /\ prov' = w.prov /\ writer' = w.writer /\ fresh' = w.fresh /\ desk' = w.desk
    /\ net' = w.net /\ front' = w.front /\ page' = w.page /\ end' = w.end
    /\ UNCHANGED <<scene, now>>
ends(why) == [Here EXCEPT !.end = why]

records == 1..Len(Sizes)
published == Len(prov.pub)
room == Len(net.conn) < ConnCap
total(sizes) == FoldLeft(LAMBDA a, b : a + b, 0, sizes)

(***************************************************************************)
(* frontierClock.                                                          *)
(***************************************************************************)
\* Mutant: the mark that answers for the window is dropped with the older ones.
observe_eager(clock, at, n) ==
    LET last == Len(clock.marks)
        near == last > 0 /\ at - clock.marks[last].at < Resolution
        marks == IF near THEN [clock.marks EXCEPT ![last].sequence = Max({@, n})]
                 ELSE Append(clock.marks, [at |-> at, sequence |-> n])
        drop == Cardinality({d \in 1..(Len(marks) - 1) : marks[d].at <= at - Window})
    IN [clock EXCEPT !.marks = SubSeq(marks, drop + 1, Len(marks)), !.pruned = @ \/ drop > 0]

observe(clock, at, n) ==
    LET last == Len(clock.marks)
        near == last > 0 /\ at - clock.marks[last].at < Resolution
        marks == IF near THEN [clock.marks EXCEPT ![last].sequence = Max({@, n})]
                 ELSE Append(clock.marks, [at |-> at, sequence |-> n])
        old == Max({0} \cup {d \in 1..(Len(marks) - 1) : marks[d + 1].at <= at - Window})
        drop == Max({old, Len(marks) - FrontierMarks})
    IN [clock EXCEPT !.marks = SubSeq(marks, drop + 1, Len(marks)), !.pruned = @ \/ drop > 0]

clockAt(clock, instant) ==
    LET past == {i \in DOMAIN clock.marks : clock.marks[i].at <= instant}
    IN IF past # {} THEN clock.marks[Max(past)].sequence
       ELSE IF clock.pruned /\ clock.marks # <<>> THEN clock.marks[1].sequence ELSE 0

(***************************************************************************)
(* inputFreshness.                                                         *)
(***************************************************************************)
\* Mutant: a receipt completes the mark of the frame after it.
applyReceipted_next(f) ==
    LET covered == Max({0} \cup {i \in DOMAIN f.marks : f.marks[i].frames <= f.receipted + 1})
    IN IF covered = 0 THEN f
       ELSE [f EXCEPT !.consumed = f.marks[covered].sequence,
                      !.marks = SubSeq(@, covered + 1, Len(@))]

\* applyReceiptedLocked; the frames of the marks increase.
applyReceipted(f) ==
    LET covered == Max({0} \cup {i \in DOMAIN f.marks : f.marks[i].frames <= f.receipted})
    IN IF covered = 0 THEN f
       ELSE [f EXCEPT !.consumed = f.marks[covered].sequence,
                      !.marks = SubSeq(@, covered + 1, Len(@))]

\* Mutant: the list of marks is not bounded.
delivered_unbounded(f, frames, n) ==
    IF (f.marks # <<>> /\ n <= Last(f.marks).sequence) \/ n <= f.consumed THEN f
    ELSE applyReceipted([f EXCEPT !.marks = Append(@, [frames |-> frames, sequence |-> n])])

delivered(f, frames, n) ==
    LET kept == IF Len(f.marks) = DeliveredMarks THEN Tail(f.marks) ELSE f.marks
    IN IF (f.marks # <<>> /\ n <= Last(f.marks).sequence) \/ n <= f.consumed THEN f
       ELSE applyReceipted([f EXCEPT !.marks = Append(kept, [frames |-> frames, sequence |-> n])])

(***************************************************************************)
(* Publication and retirement.                                             *)
(***************************************************************************)
\* publishEvent
Publish ==
    /\ end = "no" /\ ~prov.gone /\ published < scene.records
    /\ Becomes([Here EXCEPT !.prov.pub = Append(@, now),
                            !.prov.clock = observe(@, now, published + 1)])

\* forgetPublishedLocked, with the subscribers closed; the page stays for its grace.
Forget ==
    /\ end = "no" /\ scene.retires /\ ~prov.gone
    /\ Becomes([Here EXCEPT !.prov.gone = TRUE, !.prov.clock = NoClock])

\* A feed was still in the dispatcher: publishEvent makes a clock again.
LateFeed ==
    /\ end = "no" /\ prov.gone /\ ~prov.revived /\ published < scene.records
    /\ Becomes([Here EXCEPT !.prov.pub = Append(@, now), !.prov.revived = TRUE,
                            !.prov.clock = observe(NewClock, now, published + 1)])

\* watchVerdict: the grace is over.
GraceEnds == end = "no" /\ prov.gone /\ Becomes(ends("retired"))

(***************************************************************************)
(* The attachment writer.                                                  *)
(***************************************************************************)
\* A frame of the next record.  In the backlog and in a catch-up round records
\* follow each other and only the last is recorded.
WriterWrites ==
    LET n == writer.at + 1
        chunk == n \in scene.long /\ ~writer.part
        f == frame(IF chunk THEN 0 ELSE n, Sizes[n])
        sent == [Here EXCEPT !.net.conn = Append(@, f), !.writer.wire = Append(@, f.n)]
    IN /\ end = "no" /\ ~prov.gone /\ room /\ n <= published /\ (writer.live \/ n <= 1)
       /\ Becomes(IF chunk THEN [sent EXCEPT !.writer.part = TRUE]
                  ELSE [sent EXCEPT !.writer.part = FALSE, !.writer.at = n, !.writer.owes = n])

\* recordDelivered counts what is on the wire by now; after the backlog, start.
WriterRecords ==
    /\ end = "no" /\ writer.owes # 0
    /\ Becomes([Here EXCEPT !.fresh = delivered(@, Len(writer.wire), writer.owes),
                            !.writer.owes = 0, !.writer.live = TRUE])

\* The epoch grants control.
ModeGranted ==
    /\ end = "no" /\ writer.live /\ ~writer.granted /\ room
    /\ Becomes([Here EXCEPT !.net.conn = Append(@, mode), !.writer.wire = Append(@, 0),
                            !.writer.granted = TRUE])

(***************************************************************************)
(* The attachment loop of the broker and its ledger.                       *)
(***************************************************************************)
receive(w) == [w EXCEPT !.desk.received = @ + 1, !.desk.window = Append(@, "none"),
                        !.desk.fate = Append(@, "none")]

\* Mutant: the reporter is woken only by the oldest unsettled input.
settle_oldest(d, id, result) ==
    IF id <= d.reported \/ d.window[id - d.reported] # "none" THEN d
    ELSE [d EXCEPT !.window[id - d.reported] = result, !.fate[id] = result,
                   !.wake = @ \/ id = Len(d.fate)]

\* The first result stands.
settle(d, id, result) ==
    IF id <= d.reported \/ d.window[id - d.reported] # "none" THEN d
    ELSE [d EXCEPT !.window[id - d.reported] = result, !.fate[id] = result, !.wake = TRUE]

\* attachValidated reads a receipt or an input.  required is sampled first.
BrokerReads ==
    LET m == Head(net.req)
        read == [Here EXCEPT !.net.req = Tail(@)]
        judged == [id |-> desk.received + 1, known |-> prov.clock.known,
                   required |-> clockAt(prov.clock, now - Window), at |-> now, seen |-> m.seen]
    IN /\ end = "no" /\ net.req # <<>> /\ desk.judge = NoJudgement
       /\ Becomes(CASE m.kind = "ack" ->
                         IF m.n <= fresh.receipted \/ m.n > Len(writer.wire) THEN ends("protocol")
                         ELSE [read EXCEPT !.fresh = applyReceipted([@ EXCEPT !.receipted = m.n])]
                    [] OTHER ->
                         IF desk.received - desk.written >= MaxInputBacklog THEN ends("input_backlog")
                         ELSE [receive(read) EXCEPT !.desk.judge = judged])

\* inputFreshness.admit; then the epoch takes the input, or refuses it in a cut.
\* Before start the gate admits everything, but no page has control by then.
BrokerJudges ==
    LET j == desk.judge
        done == [Here EXCEPT !.desk.judge = NoJudgement]
        current == j.known /\ fresh.consumed >= j.required
        admitted == current /\ (fresh.paused => now - fresh.refusedAt >= Quiet)
        given == [done EXCEPT !.fresh.paused = FALSE, !.desk.given = @ \cup {j.id}]
    IN /\ end = "no" /\ j # NoJudgement
       /\ IF admitted
          THEN \/ Becomes(given)
               \/ /\ "refused" \in scene.outcomes
                  /\ Becomes([done EXCEPT !.fresh.paused = FALSE, !.desk = settle(@, j.id, "refused")])
          ELSE Becomes([done EXCEPT !.fresh.paused = TRUE, !.fresh.refusedAt = now,
                                    !.desk = settle(@, j.id, "paused")])

\* The pump writes in order; input of a cut is dropped whenever the cut ends badly.
EpochSettles(id) ==
    /\ end = "no" /\ id \in desk.given
    /\ \E result \in scene.outcomes \cap {"written", "partial", "dropped"} :
         /\ result # "dropped" => id = Min(desk.given)
         /\ LET taken == [desk EXCEPT !.given = @ \ {id}]
            IN Becomes([Here EXCEPT !.desk = settle(taken, id, result)])

\* A result of the same kind extends the last run.
extends(runs, run) ==
    IF runs # <<>> /\ Last(runs).result = run.result THEN [runs EXCEPT ![Len(runs)] = run]
    ELSE Append(runs, run)

\* inputLedger.take: the settled prefix, in runs of one result.
ReporterTakes ==
    LET w == desk.window
        n == Max({0} \cup {i \in DOMAIN w : \A j \in 1..i : w[j] # "none"})
        prefix == [i \in 1..n |-> [through |-> desk.reported + i, result |-> w[i]]]
    IN /\ end = "no" /\ desk.wake /\ desk.runs = <<>>
       /\ Becomes([Here EXCEPT !.desk.wake = FALSE, !.desk.runs = FoldLeft(extends, <<>>, prefix),
                               !.desk.reported = @ + n, !.desk.window = SubSeq(w, n + 1, Len(w))])

\* inputLedger.report
ReporterWrites ==
    /\ end = "no" /\ desk.runs # <<>> /\ room
    /\ Becomes([Here EXCEPT !.net.conn = Append(@, verdict(Head(desk.runs))),
                            !.desk.written = Head(desk.runs).through, !.desk.runs = Tail(@)])

(***************************************************************************)
(* The relay loop: flowWindow, flowStallClock and the receipts.            *)
(***************************************************************************)
outstanding(f) == IF f.armed THEN f ELSE [f EXCEPT !.armed = TRUE, !.deadline = now + StallTimeout]

\* Mutant: the clock is stopped by progress and not started again.
progressed_stops(f) == [f EXCEPT !.armed = FALSE]

progressed(f) == LET stopped == [f EXCEPT !.armed = FALSE]
                 IN IF f.inflight > 0 THEN outstanding(stopped) ELSE stopped

acked(f, n) ==
    LET k == n - f.acked
    IN progressed([f EXCEPT !.acked = n, !.sizes = SubSeq(@, k + 1, Len(@)),
                            !.inflight = @ - total(SubSeq(f.sizes, 1, k)), !.acknowledged = n])

sendReceipt(w) == [w EXCEPT !.front.receipted = w.front.acknowledged, !.front.receiptSent = now,
                            !.net.req = Append(@, ack(w.front.acknowledged))]
expired == front.armed /\ now >= front.deadline

StallFires == end = "no" /\ expired /\ Becomes(ends("flow_stalled"))

\* An acknowledgement of the page, or an input.
FrontReadsPage ==
    LET m == Head(net.up)
        read == [Here EXCEPT !.net.up = Tail(@)]
        took == [read EXCEPT !.front = acked(@, m.n)]
        due == took.front.inflight = 0 \/ now - front.receiptSent >= ReceiptInterval
        shown == IF front.acknowledged > front.receipted THEN sendReceipt(read) ELSE read
    IN /\ end = "no" /\ net.up # <<>>
       /\ Becomes(IF expired THEN ends("flow_stalled")
                  ELSE IF m.kind = "input"
                  THEN [shown EXCEPT !.net.req = Append(@, m), !.front.inputsRelayed = @ + 1]
                  ELSE IF m.n <= front.acked \/ m.n > front.sent THEN ends("bad_flow")
                  ELSE IF due THEN sendReceipt(took) ELSE took)

\* Only while the window is open.
FrontReadsBroker ==
    LET m == Head(net.conn)
        read == [Here EXCEPT !.net.conn = Tail(@)]
        passed == [read EXCEPT !.net.down = Append(@, m)]
        counted == [front EXCEPT !.sizes = Append(@, m.size), !.sent = @ + 1, !.inflight = @ + m.size]
    IN /\ end = "no" /\ net.conn # <<>> /\ front.inflight < FlowWindow
       /\ Becomes(CASE m.kind = "input" ->
                         IF m.n <= front.inputsSettled \/ m.n > front.inputsRelayed
                         THEN ends("broker_protocol")
                         ELSE [passed EXCEPT !.front.inputsSettled = m.n]
                    [] OTHER -> [passed EXCEPT !.front = outstanding(counted)])

(***************************************************************************)
(* The page.                                                               *)
(***************************************************************************)
PageReads ==
    LET m == Head(net.down)
        read == [Here EXCEPT !.net.down = Tail(@)]
    IN /\ end = "no" /\ net.down # <<>>
       /\ Becomes(CASE m.kind = "input" ->
                         IF m.n <= page.settled \/ m.n > page.sent THEN ends("malformed")
                         ELSE [read EXCEPT !.page.settled = m.n, !.page.paused = @ \/ m.code = "paused",
                                           !.page.told = @ \o [i \in 1..(m.n - page.settled) |-> m.code]]
                    [] OTHER -> [read EXCEPT !.page.got = @ + 1, !.page.mode = @ \/ m.kind = "mode"])

\* The terminal has parsed what arrived; FlowAcknowledger sends one count.  A
\* frame not parsed yet is as one that has not arrived.
PageParses ==
    /\ end = "no" /\ page.acked < page.got
    /\ Becomes([Here EXCEPT !.page.acked = page.got, !.net.up = Append(@, ack(page.got))])

PageTypes ==
    /\ end = "no" /\ page.mode /\ ~page.paused /\ page.sent < scene.inputs
    /\ Becomes([Here EXCEPT !.page.sent = @ + 1,
                            !.net.up = Append(@, input(page.sent + 1, page.acked))])

\* The operator presses Resume typing.
PageResumes == end = "no" /\ page.paused /\ Becomes([Here EXCEPT !.page.paused = FALSE])

Tick == /\ end = "no" /\ now < scene.horizon
        /\ now' = now + 1
        /\ UNCHANGED <<scene, prov, writer, fresh, desk, net, front, page, end>>

\* Nothing is left to do, or the attachment is over.
AtRest == \/ end # "no"
          \/ /\ net = [conn |-> <<>>, req |-> <<>>, down |-> <<>>, up |-> <<>>]
             /\ page.acked = page.got /\ page.settled = page.sent
             /\ writer.at = published /\ writer.owes = 0 /\ writer.granted
             /\ desk.judge = NoJudgement /\ desk.runs = <<>>
Done == AtRest /\ UNCHANGED vars

Init ==
    /\ scene \in Scenes /\ now = 0 /\ end = "no"
    /\ prov = [pub |-> <<0>>, clock |-> observe(NewClock, 0, 1), gone |-> FALSE, revived |-> FALSE]
    /\ writer = [wire |-> <<>>, at |-> 0, part |-> FALSE, owes |-> 0, live |-> FALSE, granted |-> FALSE]
    /\ fresh = [marks |-> <<>>, receipted |-> 0, consumed |-> 0, paused |-> FALSE, refusedAt |-> 0]
    /\ desk = [judge |-> NoJudgement, received |-> 0, reported |-> 0, written |-> 0, window |-> <<>>,
               wake |-> FALSE, runs |-> <<>>, given |-> {}, fate |-> <<>>]
    /\ net = [conn |-> <<>>, req |-> <<>>, down |-> <<>>, up |-> <<>>]
    /\ front = [sizes |-> <<>>, sent |-> 0, acked |-> 0, inflight |-> 0, armed |-> FALSE, deadline |-> 0,
                acknowledged |-> 0, receipted |-> 0, receiptSent |-> -ReceiptInterval,
                inputsRelayed |-> 0, inputsSettled |-> 0]
    /\ page = [got |-> 0, acked |-> 0, mode |-> FALSE, sent |-> 0, settled |-> 0, told |-> <<>>,
               paused |-> FALSE]

Next ==
    \/ Publish \/ Forget \/ LateFeed \/ GraceEnds
    \/ WriterWrites \/ WriterRecords \/ ModeGranted
    \/ BrokerReads \/ BrokerJudges \/ (\E id \in desk.given : EpochSettles(id))
    \/ ReporterTakes \/ ReporterWrites
    \/ StallFires \/ FrontReadsPage \/ FrontReadsBroker
    \/ PageReads \/ PageParses \/ PageTypes \/ PageResumes \/ Tick \/ Done

Spec == Init /\ [][Next]_vars

(***************************************************************************)
(* Properties.                                                             *)
(***************************************************************************)
\* The shapes, and the bounds of the marks and of the ledger.
TypeOK ==
    /\ scene \in Scenes /\ now \in 0..scene.horizon
    /\ prov.clock.marks \in Seq([at : 0..now, sequence : records]) /\ Len(prov.clock.marks) <= FrontierMarks
    /\ fresh.marks \in Seq([frames : 1..Len(writer.wire), sequence : records])
    /\ Len(fresh.marks) <= DeliveredMarks
    /\ desk.received - desk.written \in 0..MaxInputBacklog
    /\ Len(desk.window) = desk.received - desk.reported
    /\ Range(desk.window) \subseteq Outcomes \cup {"none"} /\ Range(desk.fate) \subseteq Outcomes \cup {"none"}
    /\ Len(net.conn) <= ConnCap
    /\ end \in {"no", "retired", "flow_stalled", "input_backlog"}

\* What was published a window ago is never under-stated, and over-stated by
\* less than one step of the clock (frontierClock.at: pruning and merging keep
\* the mark that answers).
FrontierExact ==
    LET by(instant) == Cardinality({n \in DOMAIN prov.pub : prov.pub[n] <= instant})
    IN ~prov.gone => /\ clockAt(prov.clock, now - Window) >= by(now - Window)
                     /\ clockAt(prov.clock, now - Window) <= by(now - Window + Resolution - 1)

\* The frames of the page's first n acknowledged frames hold record r to its end.
shown(r, n) == \E i \in 1..n : writer.wire[i] = r

\* A judged input goes to the terminal.
admits == desk.judge # NoJudgement /\ desk'.judge = NoJudgement /\ desk.judge.id \in desk'.given

\* The page had parsed all that was published a window before the input was judged.
upToDate ==
    \A r \in DOMAIN prov.pub : prov.pub[r] <= desk.judge.at - Window => shown(r, desk.judge.seen)

\* An input is judged on exactly what its page had acknowledged when it was typed,
\* and goes to the terminal only if the page had parsed everything published a
\* window before (input_freshness.go:158-235, flow_stall.go:73-81): of every page
\* whose clock is the one its subscription made, and of a retired one without a
\* clock.  It says nothing of a clock made again after the retirement.
AdmittedByItsClock ==
    [][ /\ desk.judge # NoJudgement /\ desk'.judge = NoJudgement => fresh.receipted = desk.judge.seen
        /\ admits /\ ~(prov.gone /\ prov.revived) => upToDate ]_vars

\* "Input is therefore accepted only from a page that has consumed every event
\* committed at least inputFreshnessWindow ago", and that of a retired generation
\* "is never fresh" (input_freshness.go:10-12 and 23-25).
AdmittedIsFresh == [][ admits => upToDate ]_vars

\* The page is told of each input what became of it, in order and once; a
\* settled head of the window always has the reporter on its way; no answer
\* ends the attachment (input_results.go, unified_terminal_page.ts inputResult).
ResultsAreTrue ==
    /\ page.told = SubSeq(desk.fate, 1, page.settled) /\ "none" \notin Range(page.told)
    /\ desk.window # <<>> /\ Head(desk.window) # "none" /\ desk.runs = <<>> => desk.wake
    /\ page.settled <= desk.written /\ desk.written <= desk.reported
    /\ Len(page.told) = page.settled

\* The window counts what is between relay and parser, the stall clock runs
\* exactly while something is unacknowledged, and a page that has consumed
\* everything relayed is known to have (flow_window.go, flow_stall.go).
FlowBalances ==
    LET frames == {i \in DOMAIN net.down : net.down[i].kind # "input"}
    IN /\ front.inflight = total(front.sizes) /\ Len(front.sizes) = front.sent - front.acked
       /\ front.inflight < FlowWindow + Max(Range(Sizes) \cup {1})
       /\ front.armed <=> front.inflight > 0
       /\ front.acked <= page.acked /\ page.got + Cardinality(frames) = front.sent
       /\ front.inflight = 0 => front.receipted = front.acked
==============================================================================
