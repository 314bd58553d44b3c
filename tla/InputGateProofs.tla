--------------------------- MODULE InputGateProofs ---------------------------
(***************************************************************************)
(* What holds of InputGate for every size, window, timeout and scene.      *)
(*                                                                         *)
(* The argument.  Each direction of a socket is one FIFO, so what its      *)
(* reader will have once it has drained the queue is what its writer has   *)
(* already said (Arrives, Departs): a fold of what the reader does over    *)
(* what is on the way.  A reader's own protocol check is part of the fold, *)
(* so it never fails.  The results a page is told, those on the way to it  *)
(* and the runs not written yet are then, in order, the fate of each input *)
(* up to the last one reported.  The frontier clock answers within a step  *)
(* (ClockAnswers), the consumed record is one whose frames are receipted   *)
(* (Covered), and what the gate required when it read an input is kept     *)
(* with its judgement (JudgedFairly).                                      *)
(***************************************************************************)
EXTENDS InputGate, FiniteSetTheorems, SequenceTheorems, TLAPS

(***************************************************************************)
(* The shapes of the records.                                              *)
(***************************************************************************)
MaxSize == Max(Range(Sizes) \cup {1})
Frames == {"frame", "mode"}
Downward ==
  {m \in [kind : Frames \cup {"input"}, n : Nat, size : Nat, code : Outcomes \cup {""}] :
     /\ m.kind \in Frames => m.size > 0 /\ m.size <= MaxSize
     /\ m.kind = "input" => m.code \in Outcomes}
Upward == [kind : {"ack", "input"}, n : Nat, seen : Nat]
Runs == [through : Nat, result : Outcomes]
Settled == Outcomes \cup {"none"}
Marks == [at : Nat, sequence : Nat]
Clocks == [known : BOOLEAN, marks : Seq(Marks), pruned : BOOLEAN]

Judgements == [id : Nat, known : BOOLEAN, required : Nat, at : Nat, seen : Nat]
Desks == [judge : Judgements, received : Nat, reported : Nat, written : Nat, window : Seq(Settled),
          wake : BOOLEAN, runs : Seq(Runs), given : SUBSET Nat, fate : Seq(Settled)]

Delivered == [frames : Nat, sequence : Nat]
Gates == [marks : Seq(Delivered), receipted : Nat, consumed : Nat, paused : BOOLEAN, refusedAt : Nat]
Fronts == [sizes : Seq(Int), sent : Nat, acked : Nat, inflight : Int, armed : BOOLEAN, deadline : Nat,
           acknowledged : Nat, receipted : Nat, receiptSent : Int, inputsRelayed : Nat, inputsSettled : Nat]

Shapes ==
  /\ prov \in [pub : Seq(Nat), clock : Clocks, gone : BOOLEAN, revived : BOOLEAN]
  /\ writer \in [wire : Seq(Nat), at : Nat, part : BOOLEAN, owes : Nat, live : BOOLEAN, granted : BOOLEAN]
  /\ fresh \in Gates
  /\ desk \in Desks
  /\ net \in [conn : Seq(Downward), req : Seq(Upward), down : Seq(Downward), up : Seq(Upward)]
  /\ front \in Fronts
  /\ page \in [got : Nat, acked : Nat, mode : BOOLEAN, sent : Nat, settled : Nat,
               told : Seq(Outcomes), paused : BOOLEAN]
  /\ scene \in Scenes /\ now \in 0..scene.horizon
  /\ end \in {"no", "retired", "flow_stalled", "input_backlog"}
  /\ Len(net.conn) <= ConnCap

(***************************************************************************)
(* The frontier clock.                                                     *)
(***************************************************************************)
bounded(clock, t, n) ==
  /\ clock \in Clocks /\ Len(clock.marks) <= FrontierMarks
  /\ \A i \in 1..Len(clock.marks) : clock.marks[i].at <= t /\ clock.marks[i].sequence \in 1..n

ClockBounded ==
  /\ bounded(prov.clock, now, published)
  /\ published \in 1..scene.records
  /\ \A r \in 1..published : prov.pub[r] <= now
  /\ prov.clock.known <=> ~prov.gone \/ prov.revived
  /\ prov.revived => prov.gone

\* A step of the clock apart; what a mark counts was out within a step of it,
\* what it does not count was not out before the next one.
timeline(m, pub) ==
  /\ m # <<>> /\ m[Len(m)].sequence = Len(pub)
  /\ \A i \in 1..(Len(m) - 1) : m[i + 1].at >= m[i].at + Resolution
  /\ \A i \in 1..Len(m) : \A r \in 1..Len(pub) : r <= m[i].sequence => pub[r] <= m[i].at + Resolution - 1
  /\ \A i \in 1..(Len(m) - 1) : \A r \in 1..Len(pub) : r > m[i].sequence => pub[r] >= m[i + 1].at

\* The first mark is as old as the window, or none was dropped.
reachesBack(m, pub, pruned, t) ==
  IF pruned THEN m[1].at <= t - Window ELSE \A r \in 1..Len(pub) : pub[r] >= m[1].at

ClockAnswers ==
  ~prov.gone => /\ timeline(prov.clock.marks, prov.pub)
                /\ reachesBack(prov.clock.marks, prov.pub, prov.clock.pruned, now)

(***************************************************************************)
(* What the receipts cover.                                                *)
(***************************************************************************)
\* The first k frames hold the first n records to their ends.
holds(wire, n, k) == \A r \in 1..n : \E i \in 1..k : wire[i] = r

gated(f, wire, n) ==
  /\ Len(f.marks) <= DeliveredMarks
  /\ \A i \in 1..Len(f.marks) :
        /\ f.marks[i].frames \in 1..Len(wire) /\ f.marks[i].sequence \in 1..n
        /\ holds(wire, f.marks[i].sequence, f.marks[i].frames)
  /\ f.receipted <= Len(wire) /\ holds(wire, f.consumed, f.receipted)

Covered ==
  /\ writer.at <= published /\ holds(writer.wire, writer.at, Len(writer.wire))
  /\ writer.owes \in {0, writer.at}
  /\ gated(fresh, writer.wire, writer.at)

JudgedFairly ==
  LET j == desk.judge
  IN j # NoJudgement =>
       /\ j.id = desk.received /\ j.id > 0 /\ j.id \notin desk.given /\ j.seen = fresh.receipted /\ j.at <= now
       /\ j.known => \/ prov.gone /\ prov.revived
                     \/ \A r \in 1..published : prov.pub[r] <= j.at - Window => r <= j.required

(***************************************************************************)
(* The ledger of the desk.                                                 *)
(***************************************************************************)
balanced(d) ==
  /\ Len(d.fate) = d.received
  /\ d.written <= d.reported /\ d.reported <= d.received
  /\ d.received - d.written <= MaxInputBacklog
  /\ d.window = SubSeq(d.fate, d.reported + 1, d.received)
  /\ \A i \in 1..d.reported : d.fate[i] # "none"
  /\ d.window # <<>> /\ d.window[1] # "none" => d.wake
  /\ \A id \in d.given : id \in 1..d.received

Ledger == balanced(desk)

(***************************************************************************)
(* The two directions.                                                     *)
(***************************************************************************)
\* What a page makes of a message; got is -1 once it has refused one.
atPage(st, m) ==
  IF st.got < 0 \/ (m.kind = "input" /\ m.n <= Len(st.told)) THEN [st EXCEPT !.got = -1]
  ELSE IF m.kind = "input" THEN [st EXCEPT !.told = @ \o [i \in 1..(m.n - Len(st.told)) |-> m.code]]
  ELSE [st EXCEPT !.got = @ + 1]

verdicts(runs) == [i \in DOMAIN runs |-> verdict(runs[i])]

thePage == [got |-> page.got, told |-> page.told]
afterDown == FoldLeft(atPage, thePage, net.down)
afterConn == FoldLeft(atPage, afterDown, net.conn)
afterRuns == FoldLeft(atPage, [got |-> 0, told |-> afterConn.told], verdicts(desk.runs))

Arrives ==
  /\ page.settled = Len(page.told)
  /\ afterDown.got = front.sent /\ Len(afterDown.told) = front.inputsSettled
  /\ afterConn.got = Len(writer.wire) /\ Len(afterConn.told) = desk.written
  /\ afterRuns = [got |-> 0, told |-> SubSeq(desk.fate, 1, desk.reported)]

\* What the broker makes of a message; ack is -1 once it has refused one.
atBroker(st, m) ==
  IF \/ st.ack < 0
     \/ m.kind = "ack" /\ m.n <= st.ack
     \/ m.kind = "input" /\ (m.n # st.id + 1 \/ m.seen # st.ack)
  THEN [st EXCEPT !.ack = -1]
  ELSE IF m.kind = "ack" THEN [st EXCEPT !.ack = m.n] ELSE [st EXCEPT !.id = m.n]

reader(k, id) == [ack |-> k, id |-> id]
theBroker == reader(fresh.receipted, desk.received)
theRelay == reader(front.acked, front.inputsRelayed)

Departs ==
  /\ FoldLeft(atBroker, theBroker, net.req) = [ack |-> front.receipted, id |-> front.inputsRelayed]
  /\ FoldLeft(atBroker, theRelay, net.up) = [ack |-> page.acked, id |-> page.sent]

(***************************************************************************)
(* The flow window.                                                        *)
(***************************************************************************)
flowing(f) ==
  /\ f.inflight = total(f.sizes) /\ Len(f.sizes) = f.sent - f.acked
  /\ \A i \in 1..Len(f.sizes) : f.sizes[i] > 0
  /\ f.inflight < FlowWindow + MaxSize
  /\ f.armed <=> f.inflight > 0
  /\ f.acknowledged = f.acked /\ f.receipted <= f.acked

Flows ==
  /\ flowing(front)
  /\ front.inflight = 0 => front.receipted = front.acked
  /\ page.acked <= page.got

GateInv ==
  /\ Shapes /\ ClockBounded /\ ClockAnswers /\ Covered /\ JudgedFairly
  /\ Ledger /\ Arrives /\ Departs /\ Flows

(***************************************************************************)
(* What each action does, variable by variable.                            *)
(***************************************************************************)
\* The records have their fields.
Fields ==
  /\ prov = [pub |-> prov.pub, clock |-> prov.clock, gone |-> prov.gone, revived |-> prov.revived]
  /\ writer = [wire |-> writer.wire, at |-> writer.at, part |-> writer.part, owes |-> writer.owes,
               live |-> writer.live, granted |-> writer.granted]
  /\ fresh = [marks |-> fresh.marks, receipted |-> fresh.receipted, consumed |-> fresh.consumed,
              paused |-> fresh.paused, refusedAt |-> fresh.refusedAt]
  /\ desk = [judge |-> desk.judge, received |-> desk.received, reported |-> desk.reported,
             written |-> desk.written, window |-> desk.window, wake |-> desk.wake, runs |-> desk.runs,
             given |-> desk.given, fate |-> desk.fate]
  /\ net = [conn |-> net.conn, req |-> net.req, down |-> net.down, up |-> net.up]
  /\ front = [sizes |-> front.sizes, sent |-> front.sent, acked |-> front.acked,
              inflight |-> front.inflight, armed |-> front.armed, deadline |-> front.deadline,
              acknowledged |-> front.acknowledged, receipted |-> front.receipted,
              receiptSent |-> front.receiptSent, inputsRelayed |-> front.inputsRelayed,
              inputsSettled |-> front.inputsSettled]
  /\ page = [got |-> page.got, acked |-> page.acked, mode |-> page.mode, sent |-> page.sent,
             settled |-> page.settled, told |-> page.told, paused |-> page.paused]

\* The shapes of the components are those of their fields.
LEMMA ShapesFields == Shapes => Fields
<1>. SUFFICES ASSUME Shapes PROVE Fields
  OBVIOUS
<1>1. prov = [pub |-> prov.pub, clock |-> prov.clock, gone |-> prov.gone, revived |-> prov.revived]
  BY DEF Shapes, Desks, Fronts, Gates
<1>2. writer = [wire |-> writer.wire, at |-> writer.at, part |-> writer.part, owes |-> writer.owes,
                live |-> writer.live, granted |-> writer.granted]
  BY DEF Shapes, Desks, Fronts, Gates
<1>3. fresh = [marks |-> fresh.marks, receipted |-> fresh.receipted, consumed |-> fresh.consumed,
               paused |-> fresh.paused, refusedAt |-> fresh.refusedAt]
  BY DEF Shapes, Desks, Fronts, Gates
<1>4. desk = [judge |-> desk.judge, received |-> desk.received, reported |-> desk.reported,
              written |-> desk.written, window |-> desk.window, wake |-> desk.wake, runs |-> desk.runs,
              given |-> desk.given, fate |-> desk.fate]
  BY DEF Shapes, Desks, Fronts, Gates
<1>5. net = [conn |-> net.conn, req |-> net.req, down |-> net.down, up |-> net.up]
  BY DEF Shapes, Desks, Fronts, Gates
<1>6. front = [sizes |-> front.sizes, sent |-> front.sent, acked |-> front.acked,
              inflight |-> front.inflight, armed |-> front.armed, deadline |-> front.deadline,
              acknowledged |-> front.acknowledged, receipted |-> front.receipted,
              receiptSent |-> front.receiptSent, inputsRelayed |-> front.inputsRelayed,
              inputsSettled |-> front.inputsSettled]
  BY DEF Shapes, Desks, Fronts, Gates
<1>7. page = [got |-> page.got, acked |-> page.acked, mode |-> page.mode, sent |-> page.sent,
             settled |-> page.settled, told |-> page.told, paused |-> page.paused]
  BY DEF Shapes, Desks, Fronts, Gates
<1>. QED BY <1>1, <1>2, <1>3, <1>4, <1>5, <1>6, <1>7 DEF Fields

\* What a publication does, to a live clock and to one made again.
LEMMA PublishStep ==
  ASSUME Fields, Publish \/ LateFeed
  PROVE  /\ published < scene.records
         /\ \/ ~prov.gone
               /\ prov' = [prov EXCEPT !.pub = Append(@, now), !.clock = observe(@, now, published + 1)]
            \/ prov.gone /\ ~prov.revived
               /\ prov' = [prov EXCEPT !.pub = Append(@, now), !.revived = TRUE,
                                       !.clock = observe(NewClock, now, published + 1)]
         /\ UNCHANGED <<scene, now, writer, fresh, desk, net, front, page, end>>
BY DEF Fields, Publish, LateFeed, Here, Becomes

\* What forgetting the generation does.
LEMMA ForgetStep ==
  ASSUME Fields, Forget
  PROVE  /\ ~prov.gone /\ prov' = [prov EXCEPT !.gone = TRUE, !.clock = NoClock]
         /\ UNCHANGED <<scene, now, writer, fresh, desk, net, front, page, end>>
BY DEF Fields, Forget, Here, Becomes

\* The two actions that only end the attachment.
LEMMA EndsStep ==
  ASSUME Fields, GraceEnds \/ StallFires
  PROVE  /\ end' \in {"retired", "flow_stalled"}
         /\ UNCHANGED <<scene, now, prov, writer, fresh, desk, net, front, page>>
BY DEF Fields, GraceEnds, StallFires, ends, Here, Becomes

\* What one frame of the writer does, whole or a part of a publication.
LEMMA WriterWritesStep ==
  ASSUME Fields, WriterWrites, NEW n, n = writer.at + 1
  PROVE  /\ room /\ n <= published
         /\ \/ net' = [net EXCEPT !.conn = Append(@, frame(0, Sizes[n]))]
               /\ writer' = [writer EXCEPT !.wire = Append(@, 0), !.part = TRUE]
            \/ net' = [net EXCEPT !.conn = Append(@, frame(n, Sizes[n]))]
               /\ writer' = [writer EXCEPT !.wire = Append(@, n), !.part = FALSE, !.at = n, !.owes = n]
         /\ UNCHANGED <<scene, now, prov, fresh, desk, front, page, end>>
BY DEF Fields, WriterWrites, Here, Becomes, frame

\* What recording a delivery does.
LEMMA WriterRecordsStep ==
  ASSUME Fields, WriterRecords
  PROVE  /\ writer.owes # 0 /\ fresh' = delivered(fresh, Len(writer.wire), writer.owes)
         /\ writer' = [writer EXCEPT !.owes = 0, !.live = TRUE]
         /\ UNCHANGED <<scene, now, prov, desk, net, front, page, end>>
BY DEF Fields, WriterRecords, Here, Becomes

\* What granting the mode does.
LEMMA ModeGrantedStep ==
  ASSUME Fields, ModeGranted
  PROVE  /\ room /\ net' = [net EXCEPT !.conn = Append(@, mode)]
         /\ writer' = [writer EXCEPT !.wire = Append(@, 0), !.granted = TRUE]
         /\ UNCHANGED <<scene, now, prov, fresh, desk, front, page, end>>
BY DEF Fields, ModeGranted, Here, Becomes

\* The desk with one more input; with the settled head taken; with a run written.
readInto(d, j) == [d EXCEPT !.received = @ + 1, !.window = Append(@, "none"),
                            !.fate = Append(@, "none"), !.judge = j]
takenFrom(d, n, runs) == [d EXCEPT !.wake = FALSE, !.reported = @ + n,
                                   !.window = SubSeq(@, n + 1, Len(@)), !.runs = runs]
writtenFrom(d) == [d EXCEPT !.written = Head(d.runs).through, !.runs = Tail(@)]

\* What the broker does with the head of what the relay sent it.
LEMMA BrokerReadsStep ==
  ASSUME Fields, BrokerReads, NEW m, m = Head(net.req)
  PROVE  /\ net.req # <<>> /\ desk.judge = NoJudgement
         /\ \/ /\ m.kind = "ack" /\ (m.n <= fresh.receipted \/ m.n > Len(writer.wire))
               /\ end' = "protocol" /\ UNCHANGED <<fresh, desk, net>>
            \/ /\ m.kind = "ack" /\ ~(m.n <= fresh.receipted \/ m.n > Len(writer.wire))
               /\ fresh' = applyReceipted([fresh EXCEPT !.receipted = m.n])
               /\ net' = [net EXCEPT !.req = Tail(@)] /\ UNCHANGED <<desk, end>>
            \/ end' = "input_backlog" /\ UNCHANGED <<fresh, desk, net>>
            \/ /\ m.kind # "ack" /\ ~(desk.received - desk.written >= MaxInputBacklog)
               /\ desk' = readInto(desk, [id |-> desk.received + 1, known |-> prov.clock.known,
                                          required |-> clockAt(prov.clock, now - Window),
                                          at |-> now, seen |-> m.seen])
               /\ net' = [net EXCEPT !.req = Tail(@)] /\ UNCHANGED <<fresh, end>>
         /\ UNCHANGED <<scene, now, prov, writer, front, page>>
<1>1. CASE m.kind = "ack" /\ (m.n <= fresh.receipted \/ m.n > Len(writer.wire))
  BY <1>1 DEF Fields, BrokerReads, Here, Becomes, ends
<1>2. CASE m.kind = "ack" /\ ~(m.n <= fresh.receipted \/ m.n > Len(writer.wire))
  BY <1>2 DEF Fields, BrokerReads, Here, Becomes
<1>3. CASE m.kind # "ack" /\ desk.received - desk.written >= MaxInputBacklog
  BY <1>3 DEF Fields, BrokerReads, Here, Becomes, ends
<1>4. CASE m.kind # "ack" /\ ~(desk.received - desk.written >= MaxInputBacklog)
  BY <1>4 DEF Fields, BrokerReads, Here, Becomes, receive, readInto
<1>. QED BY <1>1, <1>2, <1>3, <1>4

\* All of the state with another desk and another gate.
with(d, f) == [prov |-> prov, writer |-> writer, fresh |-> f, desk |-> d, net |-> net,
               front |-> front, page |-> page, end |-> end]

\* What judging an input does, admitted or not.
LEMMA BrokerJudgesStep ==
  ASSUME Fields, BrokerJudges, NEW j, j = desk.judge
  PROVE  /\ j # NoJudgement
         /\ \E paused \in BOOLEAN, at \in {now, fresh.refusedAt} :
              fresh' = [fresh EXCEPT !.paused = paused, !.refusedAt = at]
         /\ \/ /\ j.known /\ fresh.consumed >= j.required
               /\ desk' = [desk EXCEPT !.judge = NoJudgement, !.given = @ \cup {j.id}]
            \/ desk' = settle([desk EXCEPT !.judge = NoJudgement], j.id, "refused")
            \/ desk' = settle([desk EXCEPT !.judge = NoJudgement], j.id, "paused")
         /\ UNCHANGED <<scene, now, prov, writer, net, front, page, end>>
<1>. DEFINE admitted == /\ j.known /\ fresh.consumed >= j.required
                        /\ fresh.paused => now - fresh.refusedAt >= Quiet
            done == [Here EXCEPT !.desk.judge = NoJudgement]
            d == [desk EXCEPT !.judge = NoJudgement]
            open == [fresh EXCEPT !.paused = FALSE, !.refusedAt = fresh.refusedAt]
            shut == [fresh EXCEPT !.paused = TRUE, !.refusedAt = now]
<1>1. done = with(d, fresh)
  BY DEF Here, with
<1>2. [fresh EXCEPT !.paused = FALSE] = open /\ [[fresh EXCEPT !.paused = TRUE] EXCEPT !.refusedAt = now] = shut
  BY DEF Fields
<1>3. with(d, fresh).desk = d
  BY DEF with
<1>4. [d EXCEPT !.given = @ \cup {j.id}] = [desk EXCEPT !.judge = NoJudgement, !.given = @ \cup {j.id}]
  BY DEF Fields
<1>5. j # NoJudgement
  BY DEF BrokerJudges
<1>6. \/ admitted /\ Becomes([done EXCEPT !.fresh.paused = FALSE, !.desk.given = @ \cup {j.id}])
      \/ Becomes([done EXCEPT !.fresh.paused = FALSE, !.desk = settle(@, j.id, "refused")])
      \/ Becomes([done EXCEPT !.fresh.paused = TRUE, !.fresh.refusedAt = now,
                              !.desk = settle(@, j.id, "paused")])
  BY DEF BrokerJudges
<1>. HIDE DEF done, open, shut
<1>7. CASE admitted /\ Becomes([done EXCEPT !.fresh.paused = FALSE, !.desk.given = @ \cup {j.id}])
  <2>. HIDE DEF d
  <2>1. /\ desk' = [d EXCEPT !.given = @ \cup {j.id}] /\ fresh' = [fresh EXCEPT !.paused = FALSE]
        /\ UNCHANGED <<scene, now, prov, writer, net, front, page, end>>
    BY <1>1, <1>7 DEF Becomes, with
  <2>. QED BY <1>2, <1>4, <1>5, <1>7, <2>1 DEF open, d
<1>8. CASE Becomes([done EXCEPT !.fresh.paused = FALSE, !.desk = settle(@, j.id, "refused")])
  <2>. DEFINE x == settle(d, j.id, "refused")
  <2>1. Becomes([with(d, fresh) EXCEPT !.fresh.paused = FALSE, !.desk = x])
    BY <1>1, <1>3, <1>8
  <2>2. /\ desk' = x /\ fresh' = [fresh EXCEPT !.paused = FALSE]
        /\ UNCHANGED <<scene, now, prov, writer, net, front, page, end>>
    <3>. HIDE DEF x, d
    <3>. QED BY <2>1 DEF Becomes, with
  <2>. QED BY <1>2, <1>5, <2>2 DEF open
<1>9. CASE Becomes([done EXCEPT !.fresh.paused = TRUE, !.fresh.refusedAt = now, !.desk = settle(@, j.id, "paused")])
  <2>. DEFINE x == settle(d, j.id, "paused")
  <2>1. Becomes([with(d, fresh) EXCEPT !.fresh.paused = TRUE, !.fresh.refusedAt = now, !.desk = x])
    BY <1>1, <1>3, <1>9
  <2>2. /\ desk' = x /\ fresh' = [[fresh EXCEPT !.paused = TRUE] EXCEPT !.refusedAt = now]
        /\ UNCHANGED <<scene, now, prov, writer, net, front, page, end>>
    <3>. HIDE DEF x, d
    <3>. QED BY <2>1 DEF Becomes, with
  <2>. QED BY <1>2, <1>5, <2>2 DEF shut
<1>. QED BY <1>6, <1>7, <1>8, <1>9

\* What an input settled by the epoch does.
LEMMA EpochSettlesStep ==
  ASSUME Fields, NEW id, EpochSettles(id)
  PROVE  /\ id \in desk.given
         /\ \E result \in {"written", "partial", "dropped"} :
              desk' = settle([desk EXCEPT !.given = @ \ {id}], id, result)
         /\ UNCHANGED <<scene, now, prov, writer, fresh, net, front, page, end>>
<1>1. PICK result \in {"written", "partial", "dropped"} :
        Becomes([Here EXCEPT !.desk = settle([desk EXCEPT !.given = @ \ {id}], id, result)])
  BY DEF EpochSettles
<1>. DEFINE d == settle([desk EXCEPT !.given = @ \ {id}], id, result)
<1>2. desk' = d /\ UNCHANGED <<scene, now, prov, writer, fresh, net, front, page, end>>
  <2>1. Becomes([Here EXCEPT !.desk = d])
    BY <1>1
  <2>. HIDE DEF d
  <2>. QED BY <2>1 DEF Here, Becomes
<1>. QED BY <1>2 DEF EpochSettles

\* The number of inputs at the head of the window that are settled.
settledRuns(w, t, n) == [i \in 1..n |-> [through |-> t + i, result |-> w[i]]]
settledHead(w) == Max({0} \cup {i \in DOMAIN w : \A j \in 1..i : w[j] # "none"})

\* What the reporter takes from the settled window.
LEMMA ReporterTakesStep ==
  ASSUME Fields, ReporterTakes, NEW n, n = settledHead(desk.window)
  PROVE  /\ desk.wake /\ desk.runs = <<>>
         /\ desk' = takenFrom(desk, n, FoldLeft(extends, <<>>, settledRuns(desk.window, desk.reported, n)))
         /\ UNCHANGED <<scene, now, prov, writer, fresh, net, front, page, end>>
BY DEF Fields, ReporterTakes, Here, Becomes, settledHead, settledRuns, takenFrom

\* What the reporter writes.
LEMMA ReporterWritesStep ==
  ASSUME Fields, ReporterWrites
  PROVE  /\ room /\ desk.runs # <<>>
         /\ net' = [net EXCEPT !.conn = Append(@, verdict(Head(desk.runs)))]
         /\ desk' = writtenFrom(desk)
         /\ UNCHANGED <<scene, now, prov, writer, fresh, front, page, end>>
BY DEF Fields, ReporterWrites, Here, Becomes, writtenFrom

\* One more frame of that size is with the page.
relayed(f, size) ==
  outstanding([f EXCEPT !.sizes = Append(@, size), !.sent = @ + 1, !.inflight = @ + size])

\* What the relay does with the head of what the broker sent it.
LEMMA FrontReadsBrokerStep ==
  ASSUME Fields, FrontReadsBroker, NEW m, m = Head(net.conn)
  PROVE  /\ net.conn # <<>> /\ front.inflight < FlowWindow
         /\ \/ /\ m.kind = "input" /\ (m.n <= front.inputsSettled \/ m.n > front.inputsRelayed)
               /\ end' = "broker_protocol" /\ UNCHANGED <<net, front>>
            \/ /\ m.kind = "input" /\ front' = [front EXCEPT !.inputsSettled = m.n]
               /\ net' = [net EXCEPT !.conn = Tail(@), !.down = Append(@, m)] /\ UNCHANGED end
            \/ /\ m.kind # "input"
               /\ front' = relayed(front, m.size)
               /\ net' = [net EXCEPT !.conn = Tail(@), !.down = Append(@, m)] /\ UNCHANGED end
         /\ UNCHANGED <<scene, now, prov, writer, fresh, desk, page>>
<1>1. CASE m.kind = "input" /\ (m.n <= front.inputsSettled \/ m.n > front.inputsRelayed)
  BY <1>1 DEF Fields, FrontReadsBroker, Here, Becomes, ends
<1>2. CASE m.kind = "input" /\ ~(m.n <= front.inputsSettled \/ m.n > front.inputsRelayed)
  BY <1>2 DEF Fields, FrontReadsBroker, Here, Becomes
<1>3. CASE m.kind # "input"
  BY <1>3 DEF Fields, FrontReadsBroker, Here, Becomes, relayed
<1>. QED BY <1>1, <1>2, <1>3

\* A receipt of what the relay has, from front to req.
receiptOf(f) == [f EXCEPT !.receipted = f.acknowledged, !.receiptSent = now]

\* Of a state, everything but what the relay's loop touches is still so.
relays(w) ==
  /\ w.prov = prov /\ w.writer = writer /\ w.fresh = fresh /\ w.desk = desk /\ w.page = page /\ w.end = end
  /\ DOMAIN w = {"prov", "writer", "fresh", "desk", "net", "front", "page", "end"}

\* What sending a receipt does to the relay and its queue.
LEMMA SendReceiptIs ==
  ASSUME NEW w, relays(w)
  PROVE  /\ sendReceipt(w).front = receiptOf(w.front)
         /\ sendReceipt(w).net = [w.net EXCEPT !.req = Append(@, ack(w.front.acknowledged))]
         /\ relays(sendReceipt(w))
BY DEF relays, sendReceipt, receiptOf

\* What the relay does with the head of what the page sent it.
LEMMA FrontReadsPageStep ==
  ASSUME Fields, FrontReadsPage, NEW m, m = Head(net.up)
  PROVE  /\ net.up # <<>>
         /\ \/ end' = "flow_stalled" /\ UNCHANGED <<net, front>>
            \/ /\ m.kind # "input" /\ (m.n <= front.acked \/ m.n > front.sent)
               /\ end' = "bad_flow" /\ UNCHANGED <<net, front>>
            \/ /\ m.kind # "input" /\ ~(m.n <= front.acked \/ m.n > front.sent)
               /\ \/ /\ front' = receiptOf(acked(front, m.n))
                     /\ net' = [net EXCEPT !.up = Tail(@),
                                           !.req = Append(@, ack(acked(front, m.n).acknowledged))]
                  \/ /\ acked(front, m.n).inflight # 0 /\ front' = acked(front, m.n)
                     /\ net' = [net EXCEPT !.up = Tail(@)]
               /\ UNCHANGED end
            \/ /\ m.kind = "input"
               /\ \/ /\ front.acknowledged > front.receipted
                     /\ front' = [receiptOf(front) EXCEPT !.inputsRelayed = @ + 1]
                     /\ net' = [net EXCEPT !.up = Tail(@),
                                           !.req = Append(Append(@, ack(front.acknowledged)), m)]
                  \/ /\ ~(front.acknowledged > front.receipted)
                     /\ front' = [front EXCEPT !.inputsRelayed = @ + 1]
                     /\ net' = [net EXCEPT !.up = Tail(@), !.req = Append(@, m)]
               /\ UNCHANGED end
         /\ UNCHANGED <<scene, now, prov, writer, fresh, desk, page>>
<1>. DEFINE read == [Here EXCEPT !.net.up = Tail(@)]
            took == [read EXCEPT !.front = acked(@, m.n)]
            f == acked(front, m.n)
            n == [net EXCEPT !.up = Tail(@)]
<1>0. net.up # <<>> /\ end = "no"
  BY DEF FrontReadsPage
<1>a. /\ read.net = n /\ read.front = front /\ read.prov = prov /\ read.writer = writer
      /\ read.fresh = fresh /\ read.desk = desk /\ read.page = page /\ read.end = end
      /\ DOMAIN read = DOMAIN Here
  BY DEF Here
<1>d. Becomes(IF expired THEN ends("flow_stalled")
              ELSE IF m.kind = "input" THEN [(IF front.acknowledged > front.receipted THEN sendReceipt(read) ELSE read)
                    EXCEPT !.net.req = Append(@, m), !.front.inputsRelayed = @ + 1]
              ELSE IF m.n <= front.acked \/ m.n > front.sent THEN ends("bad_flow")
              ELSE IF took.front.inflight = 0 \/ now - front.receiptSent >= ReceiptInterval
              THEN sendReceipt(took) ELSE took)
  BY DEF FrontReadsPage
<1>1. CASE expired
  <2>1. Becomes(ends("flow_stalled"))
    BY <1>1, <1>d
  <2>. QED BY <1>0, <2>1 DEF Here, Becomes, ends
<1>2. CASE ~expired /\ m.kind # "input" /\ (m.n <= front.acked \/ m.n > front.sent)
  <2>1. Becomes(ends("bad_flow"))
    BY <1>2, <1>d
  <2>. QED BY <1>0, <1>2, <2>1 DEF Here, Becomes, ends
<1>b. relays(read) /\ relays(took) /\ took.front = f /\ took.net = n
  BY <1>a DEF relays, Here
<1>. HIDE DEF read, took
<1>3. CASE ~expired /\ m.kind # "input" /\ ~(m.n <= front.acked \/ m.n > front.sent)
  <2>1. Becomes(sendReceipt(took)) \/ (took.front.inflight # 0 /\ Becomes(took))
    BY <1>3, <1>d
  <2>. HIDE DEF f
  <2>2. CASE Becomes(sendReceipt(took))
    <3>1. [n EXCEPT !.req = Append(@, ack(f.acknowledged))]
            = [net EXCEPT !.up = Tail(@), !.req = Append(@, ack(f.acknowledged))]
      BY DEF Fields
    <3>. HIDE DEF n
    <3>2. /\ net' = [n EXCEPT !.req = Append(@, ack(f.acknowledged))] /\ front' = receiptOf(f)
          /\ UNCHANGED <<scene, now, prov, writer, fresh, desk, page, end>>
      BY <1>b, <2>2, SendReceiptIs DEF Becomes, relays
    <3>. QED BY <1>0, <1>3, <3>1, <3>2 DEF f
  <2>3. CASE took.front.inflight # 0 /\ Becomes(took)
    <3>1. net' = n /\ front' = f /\ UNCHANGED <<scene, now, prov, writer, fresh, desk, page, end>>
      BY <1>b, <2>3 DEF Becomes, relays
    <3>. QED BY <1>0, <1>b, <1>3, <2>3, <3>1 DEF f
  <2>. QED BY <2>1, <2>2, <2>3
<1>4. CASE ~expired /\ m.kind = "input" /\ front.acknowledged > front.receipted
  <2>. DEFINE w == sendReceipt(read)
              k == [n EXCEPT !.req = Append(@, ack(front.acknowledged))]
  <2>1. Becomes([w EXCEPT !.net.req = Append(@, m), !.front.inputsRelayed = @ + 1])
    BY <1>4, <1>d
  <2>2. relays(w) /\ w.front = receiptOf(front) /\ w.net = k
    BY <1>a, <1>b, SendReceiptIs
  <2>3. [k EXCEPT !.req = Append(@, m)]
          = [net EXCEPT !.up = Tail(@), !.req = Append(Append(@, ack(front.acknowledged)), m)]
    BY DEF Fields
  <2>4. /\ net' = [k EXCEPT !.req = Append(@, m)]
        /\ front' = [receiptOf(front) EXCEPT !.inputsRelayed = @ + 1]
        /\ UNCHANGED <<scene, now, prov, writer, fresh, desk, page, end>>
    <3>. HIDE DEF w, k
    <3>. QED BY <2>1, <2>2 DEF Becomes, relays
  <2>. QED BY <1>0, <1>4, <2>3, <2>4
<1>5. CASE ~expired /\ m.kind = "input" /\ ~(front.acknowledged > front.receipted)
  <2>1. Becomes([read EXCEPT !.net.req = Append(@, m), !.front.inputsRelayed = @ + 1])
    BY <1>5, <1>d
  <2>2. [n EXCEPT !.req = Append(@, m)] = [net EXCEPT !.up = Tail(@), !.req = Append(@, m)]
    BY DEF Fields
  <2>3. /\ net' = [n EXCEPT !.req = Append(@, m)] /\ front' = [front EXCEPT !.inputsRelayed = @ + 1]
        /\ UNCHANGED <<scene, now, prov, writer, fresh, desk, page, end>>
    <3>. HIDE DEF n
    <3>. QED BY <1>a, <1>b, <2>1 DEF Becomes, relays
  <2>. QED BY <1>0, <1>5, <2>2, <2>3
<1>. QED BY <1>1, <1>2, <1>3, <1>4, <1>5

\* What the page does with the head of what the relay sent it.
LEMMA PageReadsStep ==
  ASSUME Fields, PageReads, NEW m, m = Head(net.down)
  PROVE  /\ net.down # <<>>
         /\ \/ /\ m.kind = "input" /\ (m.n <= page.settled \/ m.n > page.sent)
               /\ end' = "malformed" /\ UNCHANGED <<net, page>>
            \/ /\ m.kind = "input"
               /\ page' = [page EXCEPT !.settled = m.n, !.paused = @ \/ m.code = "paused",
                             !.told = @ \o [i \in 1..(m.n - page.settled) |-> m.code]]
               /\ net' = [net EXCEPT !.down = Tail(@)] /\ UNCHANGED end
            \/ /\ m.kind # "input"
               /\ page' = [page EXCEPT !.got = @ + 1, !.mode = @ \/ m.kind = "mode"]
               /\ net' = [net EXCEPT !.down = Tail(@)] /\ UNCHANGED end
         /\ UNCHANGED <<scene, now, prov, writer, fresh, desk, front>>
<1>1. CASE m.kind = "input" /\ (m.n <= page.settled \/ m.n > page.sent)
  BY <1>1 DEF Fields, PageReads, Here, Becomes, ends
<1>2. CASE m.kind = "input" /\ ~(m.n <= page.settled \/ m.n > page.sent)
  BY <1>2 DEF Fields, PageReads, Here, Becomes
<1>3. CASE m.kind # "input"
  BY <1>3 DEF Fields, PageReads, Here, Becomes
<1>. QED BY <1>1, <1>2, <1>3

\* What the page may do of its own.
LEMMA PageActsStep ==
  ASSUME Fields, PageParses \/ PageTypes \/ PageResumes
  PROVE  /\ \/ /\ page.acked < page.got /\ page' = [page EXCEPT !.acked = page.got]
               /\ net' = [net EXCEPT !.up = Append(@, ack(page.got))]
            \/ /\ page' = [page EXCEPT !.sent = @ + 1]
               /\ net' = [net EXCEPT !.up = Append(@, input(page.sent + 1, page.acked))]
            \/ page' = [page EXCEPT !.paused = FALSE] /\ net' = net
         /\ UNCHANGED <<scene, now, prov, writer, fresh, desk, front, end>>
<1>1. CASE PageParses
  BY <1>1 DEF Fields, PageParses, Here, Becomes
<1>2. CASE PageTypes
  BY <1>2 DEF Fields, PageTypes, Here, Becomes
<1>3. CASE PageResumes
  BY <1>3 DEF Fields, PageResumes, Here, Becomes
<1>. QED BY <1>1, <1>2, <1>3

(***************************************************************************)
(* The folds.                                                              *)
(***************************************************************************)
P == INSTANCE Folding WITH Op <- atPage, X <- Downward
B == INSTANCE Folding WITH Op <- atBroker, X <- Upward
N == INSTANCE Folding WITH Op <- LAMBDA a, b : a + b, X <- Int
R == INSTANCE Folding WITH Op <- extends, X <- Runs

\* The folds of the model are those of Folding: over what the page reads,
LEMMA PageFold == \A b, s : FoldLeft(atPage, b, s) = P!fold(b, s)
BY DEF P!fold, FoldLeft, MapThenFoldSet, Max, P!last

\* over what the broker reads,
LEMMA BrokerFold == \A b, s : FoldLeft(atBroker, b, s) = B!fold(b, s)
BY DEF B!fold, FoldLeft, MapThenFoldSet, Max, B!last

\* over sizes,
LEMMA TotalFold == \A s : total(s) = N!fold(0, s)
BY DEF total, N!fold, FoldLeft, MapThenFoldSet, Max, N!last

\* and over the runs of results.
LEMMA RunsFold == \A s : FoldLeft(extends, <<>>, s) = R!fold(<<>>, s)
BY DEF R!fold, FoldLeft, MapThenFoldSet, Max, R!last

\* Sets of naturals that are bounded have a greatest element.
LEMMA MaxIs ==
  ASSUME NEW n \in Nat, NEW T \in SUBSET (0..n), T # {}
  PROVE  Max(T) \in T /\ \A y \in T : y <= Max(T)
<1>1. \E x \in T : \A y \in T : x >= y
  <2>. DEFINE U == {n - i : i \in T}
  <2>1. U \in SUBSET Nat /\ U # {}
    <3>1. \A i \in T : n - i \in Nat
      OBVIOUS
    <3>2. PICK i \in T : TRUE
      OBVIOUS
    <3>. QED BY <3>1, <3>2
  <2>2. PICK x \in U : \A y \in U : x <= y
    <3>. HIDE DEF U
    <3>. QED BY <2>1, P!Least
  <2>3. PICK i \in T : x = n - i
    BY <2>2
  <2>4. \A y \in T : i >= y
    <3>. TAKE y \in T
    <3>1. n - y \in U
      OBVIOUS
    <3>2. x <= n - y
      BY <2>2, <3>1
    <3>. HIDE DEF U
    <3>. QED BY <2>3, <3>2
  <2>. QED BY <2>4
<1>2. Max(T) = CHOOSE x \in T : \A y \in T : x >= y
  BY DEF Max
<1>3. Max(T) \in T /\ \A y \in T : Max(T) >= y
  BY <1>1, <1>2
<1>. QED BY <1>3

\* What is told is told to the end.
PageStates == [got : Int, told : Seq(Outcomes)]

\* The fields of a frame on its way to the page.
LEMMA DownwardFacts ==
  \A m \in Downward :
    /\ m.kind \in {"frame", "mode", "input"} /\ m.n \in Nat /\ m.size \in Nat
    /\ m.kind # "input" => m.size > 0 /\ m.size <= MaxSize
    /\ m.kind = "input" => m.code \in Outcomes
BY DEF Downward, Frames

\* The fields of a state of the page's reader.
LEMMA PageStateFacts ==
  \A st \in PageStates : st.got \in Int /\ st.told \in Seq(Outcomes) /\ Len(st.told) \in Nat
BY DEF PageStates

\* The page's steps on what it is sent: what it refuses, a result, a frame.
LEMMA AtPageRefuses ==
  ASSUME NEW st \in PageStates, NEW m \in Downward,
         st.got < 0 \/ (m.kind = "input" /\ m.n <= Len(st.told))
  PROVE  atPage(st, m) \in PageStates /\ atPage(st, m).got = -1 /\ atPage(st, m).told = st.told
BY DEF atPage, PageStates

\* A frame or a mode is counted by the page's reader.
LEMMA AtPageFrame ==
  ASSUME NEW st \in PageStates, NEW m \in Downward, st.got >= 0, m.kind # "input"
  PROVE  atPage(st, m) \in PageStates /\ atPage(st, m).got = st.got + 1 /\ atPage(st, m).told = st.told
<1>1. ~(st.got < 0)
  BY PageStateFacts
<1>2. atPage(st, m) = [st EXCEPT !.got = @ + 1]
  BY <1>1 DEF atPage
<1>. QED BY <1>2 DEF PageStates

\* A result that runs ahead tells the fates up to it.
LEMMA AtPageResult ==
  ASSUME NEW st \in PageStates, NEW m \in Downward, st.got >= 0, m.kind = "input", m.n > Len(st.told),
         NEW more, more = [i \in 1..(m.n - Len(st.told)) |-> m.code]
  PROVE  /\ more \in Seq(Outcomes) /\ Len(more) = m.n - Len(st.told)
         /\ atPage(st, m) \in PageStates
         /\ atPage(st, m).got = st.got /\ atPage(st, m).told = st.told \o more
<1>1. /\ ~(st.got < 0) /\ ~(m.n <= Len(st.told)) /\ m.n - Len(st.told) \in Nat /\ m.code \in Outcomes
      /\ st.told \in Seq(Outcomes)
  BY PageStateFacts, DownwardFacts
<1>2. more \in Seq(Outcomes) /\ Len(more) = m.n - Len(st.told)
  BY <1>1
<1>3. atPage(st, m) = [st EXCEPT !.told = @ \o more]
  BY <1>1 DEF atPage
<1>4. st.told \o more \in Seq(Outcomes)
  BY <1>1, <1>2
<1>. QED BY <1>2, <1>3, <1>4 DEF PageStates

\* What the page's reader may meet.
LEMMA AtPageCases ==
  ASSUME NEW st \in PageStates, NEW m \in Downward
  PROVE  \/ st.got < 0 \/ (m.kind = "input" /\ m.n <= Len(st.told))
         \/ st.got >= 0 /\ m.kind = "input" /\ m.n > Len(st.told)
         \/ st.got >= 0 /\ m.kind # "input"
BY PageStateFacts, DownwardFacts

\* Its reader stays a reader.
LEMMA AtPageType ==
  ASSUME NEW st \in PageStates, NEW m \in Downward
  PROVE  atPage(st, m) \in PageStates
BY AtPageCases, AtPageRefuses, AtPageFrame, AtPageResult

\* A page that has refused a message refuses every later one, and what it was
\* told it has been told.
onward(st) == {t \in PageStates : /\ t.got >= 0 => t.got >= st.got /\ st.got >= 0
                                  /\ Len(t.told) >= Len(st.told)
                                  /\ \A i \in 1..Len(st.told) : t.told[i] = st.told[i]}

\* Reading on, the page forgets nothing and a refusal is final.
LEMMA PageGoesOn ==
  ASSUME NEW st \in PageStates, NEW s \in Seq(Downward)
  PROVE  P!fold(st, s) \in onward(st)
<1>1. st \in onward(st)
  BY DEF onward, PageStates
<1>2. \A t \in onward(st), m \in Downward : atPage(t, m) \in onward(st)
  <2>. TAKE t \in onward(st), m \in Downward
  <2>1. /\ t \in PageStates /\ t.got \in Int /\ st.got \in Int
        /\ t.told \in Seq(Outcomes) /\ st.told \in Seq(Outcomes)
        /\ t.got >= 0 => t.got >= st.got /\ st.got >= 0
        /\ Len(t.told) >= Len(st.told) /\ \A i \in 1..Len(st.told) : t.told[i] = st.told[i]
    BY PageStateFacts DEF onward
  <2>2. atPage(t, m) \in PageStates
    BY <2>1, AtPageType
  <2>3. CASE t.got < 0 \/ (m.kind = "input" /\ m.n <= Len(t.told))
    <3>1. atPage(t, m).got = -1 /\ atPage(t, m).told = t.told
      BY <2>1, <2>3, AtPageRefuses
    <3>. QED BY <2>1, <2>2, <3>1 DEF onward
  <2>4. CASE t.got >= 0 /\ m.kind = "input" /\ m.n > Len(t.told)
    <3>. DEFINE more == [i \in 1..(m.n - Len(t.told)) |-> m.code]
    <3>1. more \in Seq(Outcomes) /\ atPage(t, m).got = t.got /\ atPage(t, m).told = t.told \o more
      BY <2>1, <2>4, AtPageResult
    <3>. HIDE DEF more
    <3>2. Len(t.told \o more) >= Len(t.told) /\ \A i \in 1..Len(t.told) : (t.told \o more)[i] = t.told[i]
      BY <2>1, <3>1
    <3>3. Len(t.told \o more) >= Len(st.told) /\ \A i \in 1..Len(st.told) : (t.told \o more)[i] = st.told[i]
      BY <2>1, <3>2
    <3>. QED BY <2>1, <2>2, <3>1, <3>3 DEF onward
  <2>5. CASE t.got >= 0 /\ m.kind # "input"
    <3>1. atPage(t, m).got = t.got + 1 /\ atPage(t, m).told = t.told
      BY <2>1, <2>5, AtPageFrame
    <3>. QED BY <2>1, <2>2, <2>5, <3>1 DEF onward
  <2>. QED BY <2>1, <2>3, <2>4, <2>5, AtPageCases
<1>. QED BY <1>1, <1>2, P!FoldStays

\* The same of the broker and the relay, which read acknowledgements and inputs.
BrokerStates == [ack : Int, id : Nat]

\* The fields of a state of the broker's reader.
LEMMA BrokerStateFacts == \A st \in BrokerStates : st.ack \in Int /\ st.id \in Nat
BY DEF BrokerStates

\* The fields of a frame on its way to the broker.
LEMMA UpwardFacts ==
  \A m \in Upward : m.kind \in {"ack", "input"} /\ m.n \in Nat /\ m.seen \in Nat
BY DEF Upward

\* The broker's reader refuses what is stale or out of turn.
LEMMA AtBrokerRefuses ==
  ASSUME NEW st \in BrokerStates, NEW m \in Upward,
         \/ st.ack < 0
         \/ m.kind = "ack" /\ m.n <= st.ack
         \/ m.kind = "input" /\ (m.n # st.id + 1 \/ m.seen # st.ack)
  PROVE  atBroker(st, m) \in BrokerStates /\ atBroker(st, m).ack = -1 /\ atBroker(st, m).id = st.id
BY DEF atBroker, BrokerStates

\* It takes an acknowledgement that advances.
LEMMA AtBrokerAck ==
  ASSUME NEW st \in BrokerStates, NEW m \in Upward, st.ack >= 0, m.kind = "ack", m.n > st.ack
  PROVE  atBroker(st, m) \in BrokerStates /\ atBroker(st, m).ack = m.n /\ atBroker(st, m).id = st.id
<1>1. ~(st.ack < 0) /\ ~(m.n <= st.ack) /\ m.n \in Nat
  BY BrokerStateFacts, UpwardFacts
<1>2. atBroker(st, m) = [st EXCEPT !.ack = m.n]
  BY <1>1 DEF atBroker
<1>. QED BY <1>1, <1>2 DEF BrokerStates

\* It takes the next input, typed on what was acknowledged.
LEMMA AtBrokerInput ==
  ASSUME NEW st \in BrokerStates, NEW m \in Upward, st.ack >= 0, m.kind = "input",
         m.n = st.id + 1, m.seen = st.ack
  PROVE  atBroker(st, m) \in BrokerStates /\ atBroker(st, m).ack = st.ack /\ atBroker(st, m).id = m.n
<1>1. ~(st.ack < 0) /\ m.n \in Nat
  BY BrokerStateFacts, UpwardFacts
<1>2. atBroker(st, m) = [st EXCEPT !.id = m.n]
  BY <1>1 DEF atBroker
<1>. QED BY <1>1, <1>2 DEF BrokerStates

\* What the broker's reader may meet.
LEMMA AtBrokerCases ==
  ASSUME NEW st \in BrokerStates, NEW m \in Upward
  PROVE  \/ \/ st.ack < 0
            \/ m.kind = "ack" /\ m.n <= st.ack
            \/ m.kind = "input" /\ (m.n # st.id + 1 \/ m.seen # st.ack)
         \/ st.ack >= 0 /\ m.kind = "ack" /\ m.n > st.ack
         \/ st.ack >= 0 /\ m.kind = "input" /\ m.n = st.id + 1 /\ m.seen = st.ack
BY BrokerStateFacts, UpwardFacts

ahead(st) == {t \in BrokerStates : t.ack >= 0 => /\ st.ack >= 0 /\ t.ack >= st.ack
                                                 /\ t.id >= st.id}

\* Reading on, the broker's positions only advance and a refusal is final.
LEMMA BrokerGoesOn ==
  ASSUME NEW st \in BrokerStates, NEW s \in Seq(Upward)
  PROVE  B!fold(st, s) \in ahead(st)
<1>1. st \in ahead(st)
  BY BrokerStateFacts DEF ahead
<1>2. \A t \in ahead(st), m \in Upward : atBroker(t, m) \in ahead(st)
  <2>. TAKE t \in ahead(st), m \in Upward
  <2>1. /\ t \in BrokerStates /\ t.ack \in Int /\ st.ack \in Int /\ t.id \in Nat /\ st.id \in Nat
        /\ t.ack >= 0 => st.ack >= 0 /\ t.ack >= st.ack /\ t.id >= st.id
        /\ m.n \in Nat
    BY BrokerStateFacts, UpwardFacts DEF ahead
  <2>2. CASE \/ t.ack < 0
             \/ m.kind = "ack" /\ m.n <= t.ack
             \/ m.kind = "input" /\ (m.n # t.id + 1 \/ m.seen # t.ack)
    <3>1. atBroker(t, m) \in BrokerStates /\ atBroker(t, m).ack = -1
      BY <2>1, <2>2, AtBrokerRefuses
    <3>. QED BY <3>1 DEF ahead
  <2>3. CASE t.ack >= 0 /\ m.kind = "ack" /\ m.n > t.ack
    <3>1. atBroker(t, m) \in BrokerStates /\ atBroker(t, m).ack = m.n /\ atBroker(t, m).id = t.id
      BY <2>1, <2>3, AtBrokerAck
    <3>2. m.n >= st.ack
      BY <2>1, <2>3
    <3>. QED BY <2>1, <2>3, <3>1, <3>2 DEF ahead
  <2>4. CASE t.ack >= 0 /\ m.kind = "input" /\ m.n = t.id + 1 /\ m.seen = t.ack
    <3>1. atBroker(t, m) \in BrokerStates /\ atBroker(t, m).ack = t.ack /\ atBroker(t, m).id = m.n
      BY <2>1, <2>4, AtBrokerInput
    <3>. QED BY <2>1, <2>4, <3>1 DEF ahead
  <2>. QED BY <2>1, <2>2, <2>3, <2>4, AtBrokerCases
<1>. QED BY <1>1, <1>2, B!FoldStays

(***************************************************************************)
(* The head of a queue is what its reader takes.                           *)
(***************************************************************************)
LEMMA ShapeFacts ==
  ASSUME Shapes
  PROVE  /\ net.conn \in Seq(Downward) /\ net.down \in Seq(Downward)
         /\ net.req \in Seq(Upward) /\ net.up \in Seq(Upward)
         /\ desk.runs \in Seq(Runs) /\ page.told \in Seq(Outcomes) /\ page.got \in Nat
         /\ front.acked \in Nat /\ front.inputsRelayed \in Nat /\ front.receipted \in Nat
         /\ fresh.receipted \in Nat /\ desk.received \in Nat
         /\ desk.fate \in Seq(Settled) /\ writer.wire \in Seq(Nat)
         /\ page.acked \in Nat /\ page.sent \in Nat
BY DEF Shapes, Desks, Fronts, Gates

\* A run is reported in a frame.
LEMMA VerdictType == \A run \in Runs : verdict(run) \in Downward
BY DEF Runs, verdict, Downward, Frames

\* Runs are reported in frames, in order.
LEMMA VerdictsType ==
  ASSUME NEW runs \in Seq(Runs)
  PROVE  /\ verdicts(runs) \in Seq(Downward) /\ Len(verdicts(runs)) = Len(runs)
         /\ \A i \in 1..Len(runs) : verdicts(runs)[i] = verdict(runs[i])
         /\ runs # <<>> => /\ verdicts(runs) # <<>> /\ Head(verdicts(runs)) = verdict(Head(runs))
                           /\ Tail(verdicts(runs)) = verdicts(Tail(runs))
<1>1. /\ verdicts(runs) \in Seq(Downward) /\ Len(verdicts(runs)) = Len(runs)
      /\ \A i \in 1..Len(runs) : verdicts(runs)[i] = verdict(runs[i])
  <2>1. \A i \in 1..Len(runs) : verdict(runs[i]) \in Downward
    BY VerdictType
  <2>. QED BY <2>1 DEF verdicts
<1>2. CASE runs # <<>>
  <2>1. Tail(runs) \in Seq(Runs) /\ Len(Tail(runs)) = Len(runs) - 1
        /\ \A i \in 1..(Len(runs) - 1) : Tail(runs)[i] = runs[i + 1]
    BY <1>2
  <2>2. verdicts(Tail(runs)) \in Seq(Downward) /\ Len(verdicts(Tail(runs))) = Len(runs) - 1
        /\ \A i \in 1..(Len(runs) - 1) : verdicts(Tail(runs))[i] = verdict(runs[i + 1])
    <3>1. \A i \in 1..(Len(runs) - 1) : verdict(runs[i + 1]) \in Downward
      BY VerdictType
    <3>. QED BY <2>1, <3>1 DEF verdicts
  <2>. DEFINE v == verdicts(runs)
              w == verdicts(Tail(runs))
  <2>3. v # <<>> /\ Head(v) = verdict(Head(runs))
    <3>. HIDE DEF v
    <3>. QED BY <1>1, <1>2 DEF v
  <2>4. Tail(v) = w
    <3>1. Len(Tail(v)) = Len(w) /\ Tail(v) \in Seq(Downward)
      BY <1>1, <1>2, <2>2, <2>3
    <3>2. \A i \in 1..Len(w) : Tail(v)[i] = w[i]
      BY <1>1, <2>2, <2>3
    <3>. HIDE DEF v, w
    <3>. QED BY <2>2, <3>1, <3>2 DEF w
  <2>. QED BY <1>1, <2>3, <2>4
<1>. QED BY <1>1, <1>2

\* Where the runs not written yet start.
theDesk == [got |-> 0, told |-> afterConn.told]

\* What the page will have read, queue by queue.
LEMMA ArrivesStates ==
  ASSUME Shapes, Arrives
  PROVE  /\ thePage \in PageStates /\ afterDown \in PageStates /\ afterConn \in PageStates
         /\ theDesk \in PageStates /\ afterRuns \in PageStates
         /\ thePage.got >= 0 /\ afterDown.got >= 0 /\ afterConn.got >= 0 /\ afterRuns.got >= 0
         /\ afterDown = P!fold(thePage, net.down) /\ afterConn = P!fold(afterDown, net.conn)
         /\ afterRuns = P!fold(theDesk, verdicts(desk.runs))
         /\ afterDown \in onward(thePage) /\ afterConn \in onward(afterDown)
         /\ afterRuns \in onward(theDesk) /\ theDesk.told = afterConn.told /\ theDesk.got = 0
<1>1. thePage \in PageStates /\ thePage.got >= 0
  BY DEF Shapes, thePage, PageStates
<1>2. afterDown = P!fold(thePage, net.down) /\ afterConn = P!fold(afterDown, net.conn)
      /\ afterRuns = P!fold(theDesk, verdicts(desk.runs))
  BY PageFold DEF afterDown, afterConn, afterRuns, theDesk
<1>3. afterDown \in onward(thePage) /\ afterDown \in PageStates
  BY <1>1, <1>2, ShapeFacts, PageGoesOn DEF onward
<1>4. afterConn \in onward(afterDown) /\ afterConn \in PageStates
  BY <1>2, <1>3, ShapeFacts, PageGoesOn DEF onward
<1>5. theDesk \in PageStates /\ theDesk.told = afterConn.told /\ theDesk.got = 0
  BY <1>4 DEF theDesk, PageStates
<1>6. afterRuns \in onward(theDesk) /\ afterRuns \in PageStates
  <2>1. verdicts(desk.runs) \in Seq(Downward)
    BY ShapeFacts, VerdictsType
  <2>. QED BY <1>2, <1>5, <2>1, PageGoesOn DEF onward
<1>7. afterRuns.got >= 0 /\ afterConn.got >= 0
  BY ShapeFacts DEF Arrives
<1>8. afterDown.got >= 0
  BY <1>4, <1>7 DEF onward
<1>. QED BY <1>1, <1>2, <1>3, <1>4, <1>5, <1>6, <1>7, <1>8

\* What the page reads first of a queue it can read.
LEMMA PageHead ==
  ASSUME NEW st \in PageStates, NEW s \in Seq(Downward), s # <<>>, P!fold(st, s).got >= 0,
         NEW m, m = Head(s), NEW t, t = atPage(st, m)
  PROVE  /\ m \in Downward /\ Tail(s) \in Seq(Downward)
         /\ t \in PageStates /\ t.got >= 0 /\ P!fold(st, s) = P!fold(t, Tail(s))
         /\ m.kind = "input" => /\ m.n > Len(st.told) /\ Len(t.told) = m.n
                                /\ m.n <= Len(P!fold(st, s).told)
                                /\ t.got = st.got
         /\ m.kind # "input" => t.got = st.got + 1 /\ t.told = st.told
<1>1. m \in Downward /\ Tail(s) \in Seq(Downward)
  OBVIOUS
<1>2. P!fold(st, s) = P!fold(t, Tail(s))
  BY P!FoldHead
<1>3. t \in PageStates
  BY <1>1, AtPageType
<1>4. P!fold(st, s) \in onward(t)
  BY <1>1, <1>2, <1>3, PageGoesOn
<1>5. t.got >= 0 /\ Len(P!fold(st, s).told) >= Len(t.told)
  BY <1>4 DEF onward
<1>6. ~(st.got < 0 \/ (m.kind = "input" /\ m.n <= Len(st.told)))
  BY <1>1, <1>5, AtPageRefuses
<1>7. CASE m.kind = "input"
  <2>1. st.got >= 0 /\ m.n > Len(st.told)
    BY <1>1, <1>6, <1>7, AtPageCases
  <2>. DEFINE more == [i \in 1..(m.n - Len(st.told)) |-> m.code]
  <2>2. more \in Seq(Outcomes) /\ Len(more) = m.n - Len(st.told) /\ t.got = st.got
        /\ t.told = st.told \o more
    BY SMTT(30), <1>1, <1>7, <2>1, AtPageResult
  <2>. HIDE DEF more
  <2>3. st.told \in Seq(Outcomes) /\ m.n \in Nat
    BY <1>1, PageStateFacts, DownwardFacts
  <2>4. Len(t.told) = m.n
    BY <2>2, <2>3
  <2>. QED BY <1>1, <1>2, <1>3, <1>5, <1>7, <2>1, <2>2, <2>4 DEF more
<1>8. CASE m.kind # "input"
  <2>1. st.got >= 0
    BY <1>1, <1>6, <1>8, AtPageCases
  <2>. QED BY <1>1, <1>2, <1>3, <1>5, <1>8, <2>1, AtPageFrame
<1>. QED BY <1>7, <1>8

\* What the broker reads first of a queue it can read.
LEMMA BrokerHead ==
  ASSUME NEW st \in BrokerStates, NEW s \in Seq(Upward), s # <<>>, B!fold(st, s).ack >= 0,
         NEW m, m = Head(s), NEW t, t = atBroker(st, m)
  PROVE  /\ m \in Upward /\ Tail(s) \in Seq(Upward)
         /\ t \in BrokerStates /\ t.ack >= 0 /\ B!fold(st, s) = B!fold(t, Tail(s))
         /\ m.kind = "ack" => /\ m.n > st.ack /\ m.n <= B!fold(st, s).ack
                              /\ t.ack = m.n /\ t.id = st.id
         /\ m.kind = "input" => /\ m.n = st.id + 1 /\ m.seen = st.ack /\ m.n <= B!fold(st, s).id
                                /\ t.ack = st.ack /\ t.id = m.n
<1>1. m \in Upward /\ Tail(s) \in Seq(Upward)
  OBVIOUS
<1>2. B!fold(st, s) = B!fold(t, Tail(s))
  BY B!FoldHead
<1>3. t \in BrokerStates
  BY <1>1, AtBrokerCases, AtBrokerRefuses, AtBrokerAck, AtBrokerInput
<1>4. B!fold(st, s) \in ahead(t)
  BY <1>1, <1>2, <1>3, BrokerGoesOn
<1>5. t.ack >= 0 /\ B!fold(st, s).ack >= t.ack /\ B!fold(st, s).id >= t.id
  BY <1>4 DEF ahead
<1>6. \/ st.ack >= 0 /\ m.kind = "ack" /\ m.n > st.ack
      \/ st.ack >= 0 /\ m.kind = "input" /\ m.n = st.id + 1 /\ m.seen = st.ack
  <2>1. ~(\/ st.ack < 0
          \/ m.kind = "ack" /\ m.n <= st.ack
          \/ m.kind = "input" /\ (m.n # st.id + 1 \/ m.seen # st.ack))
    BY <1>1, <1>5, AtBrokerRefuses
  <2>. QED BY <1>1, <2>1, AtBrokerCases
<1>7. CASE st.ack >= 0 /\ m.kind = "ack" /\ m.n > st.ack
  <2>1. t.ack = m.n /\ t.id = st.id
    BY <1>1, <1>7, AtBrokerAck
  <2>. QED BY <1>1, <1>2, <1>3, <1>5, <1>7, <2>1
<1>8. CASE st.ack >= 0 /\ m.kind = "input" /\ m.n = st.id + 1 /\ m.seen = st.ack
  <2>1. t.ack = st.ack /\ t.id = m.n
    BY <1>1, <1>8, AtBrokerInput
  <2>. QED BY <1>1, <1>2, <1>3, <1>5, <1>8, <2>1
<1>. QED BY <1>6, <1>7, <1>8

\* What the broker will have read, queue by queue.
LEMMA DepartsStates ==
  ASSUME Shapes, Departs
  PROVE  /\ theBroker \in BrokerStates /\ theRelay \in BrokerStates
         /\ theBroker.ack = fresh.receipted /\ theBroker.id = desk.received
         /\ theRelay.ack = front.acked /\ theRelay.id = front.inputsRelayed
         /\ B!fold(theBroker, net.req).ack = front.receipted
         /\ B!fold(theBroker, net.req).id = front.inputsRelayed
         /\ B!fold(theRelay, net.up).ack = page.acked /\ B!fold(theRelay, net.up).id = page.sent
         /\ front.receipted >= 0 /\ page.acked >= 0
         /\ fresh.receipted <= front.receipted /\ desk.received <= front.inputsRelayed
         /\ front.acked <= page.acked /\ front.inputsRelayed <= page.sent
<1>1. /\ theBroker \in BrokerStates /\ theRelay \in BrokerStates
      /\ theBroker.ack = fresh.receipted /\ theBroker.id = desk.received
      /\ theRelay.ack = front.acked /\ theRelay.id = front.inputsRelayed
  BY ShapeFacts DEF theBroker, theRelay, reader, BrokerStates
<1>2. /\ B!fold(theBroker, net.req) = [ack |-> front.receipted, id |-> front.inputsRelayed]
      /\ B!fold(theRelay, net.up) = [ack |-> page.acked, id |-> page.sent]
  BY BrokerFold DEF Departs
<1>3. /\ B!fold(theBroker, net.req) \in ahead(theBroker)
      /\ B!fold(theRelay, net.up) \in ahead(theRelay)
  BY <1>1, ShapeFacts, BrokerGoesOn
<1>. QED BY SMTT(30), <1>1, <1>2, <1>3, ShapeFacts DEF ahead

\* How far the counts are from each other.
LEMMA CountsInOrder ==
  ASSUME GateInv
  PROVE  /\ fresh.receipted <= front.receipted /\ front.receipted <= front.acked
         /\ front.acked <= page.acked /\ page.acked <= page.got /\ page.got <= front.sent
         /\ front.sent <= Len(writer.wire)
         /\ page.settled <= front.inputsSettled /\ front.inputsSettled <= desk.written
         /\ desk.written <= desk.reported /\ desk.reported <= desk.received
         /\ desk.received <= front.inputsRelayed /\ front.inputsRelayed <= page.sent
<1>1. /\ fresh.receipted <= front.receipted /\ desk.received <= front.inputsRelayed
      /\ front.acked <= page.acked /\ front.inputsRelayed <= page.sent
  BY DepartsStates DEF GateInv
<1>2. front.receipted <= front.acked /\ page.acked <= page.got
      /\ desk.written <= desk.reported /\ desk.reported <= desk.received
  BY DEF GateInv, Flows, flowing, Ledger, balanced
<1>3. page.got <= front.sent /\ front.sent <= Len(writer.wire)
  BY ArrivesStates DEF GateInv, Arrives, onward, thePage
<1>4. page.settled <= front.inputsSettled /\ front.inputsSettled <= desk.written
  BY ArrivesStates DEF GateInv, Arrives, onward, thePage
<1>. QED BY <1>1, <1>2, <1>3, <1>4

\* The actions of the gate.
LEMMA NextCases ==
  ASSUME [Next]_vars
  PROVE  \/ Publish \/ LateFeed
         \/ Forget
         \/ GraceEnds \/ StallFires
         \/ WriterWrites
         \/ WriterRecords
         \/ ModeGranted
         \/ BrokerReads
         \/ BrokerJudges
         \/ \E id : EpochSettles(id)
         \/ ReporterTakes
         \/ ReporterWrites
         \/ FrontReadsPage
         \/ FrontReadsBroker
         \/ PageReads
         \/ PageParses \/ PageTypes \/ PageResumes
         \/ Tick
         \/ UNCHANGED vars
BY DEF Next, Done

(***************************************************************************)
(* What is on the way to the page.                                         *)
(***************************************************************************)
LEMMA ArrivesKept ==
  ASSUME Arrives, page'.got = page.got, page'.told = page.told, page'.settled = page.settled,
         net'.down = net.down, net'.conn = net.conn, UNCHANGED writer,
         front'.sent = front.sent, front'.inputsSettled = front.inputsSettled,
         desk'.runs = desk.runs, desk'.written = desk.written,
         SubSeq(desk'.fate, 1, desk'.reported) = SubSeq(desk.fate, 1, desk.reported)
  PROVE  Arrives'
<1>1. afterDown' = afterDown
  BY DEF afterDown, thePage
<1>2. afterConn' = afterConn
  BY <1>1 DEF afterConn
<1>3. afterRuns' = afterRuns
  BY <1>2 DEF afterRuns
<1>. QED BY <1>1, <1>2, <1>3 DEF Arrives

\* A frame goes into the socket.
LEMMA ArrivesFrame ==
  ASSUME Shapes, Arrives, NEW m \in Downward, m.kind # "input", NEW r,
         net' = [net EXCEPT !.conn = Append(@, m)], writer'.wire = Append(writer.wire, r),
         UNCHANGED <<page, front, desk>>
  PROVE  Arrives'
<1>1. net'.conn = Append(net.conn, m) /\ net'.down = net.down
  BY DEF Shapes, Desks, Fronts, Gates
<1>2. afterDown' = afterDown
  BY <1>1 DEF afterDown, thePage
<1>3. afterConn' = atPage(afterConn, m)
  <2>1. afterConn' = P!fold(afterDown, Append(net.conn, m))
    BY <1>1, <1>2, PageFold DEF afterConn
  <2>. QED BY <2>1, ShapeFacts, ArrivesStates, P!FoldAppend
<1>4. afterConn'.got = afterConn.got + 1 /\ afterConn'.told = afterConn.told
  BY <1>3, ArrivesStates, AtPageFrame
<1>5. afterRuns' = afterRuns
  BY <1>4 DEF afterRuns
<1>6. Len(writer'.wire) = Len(writer.wire) + 1
  BY DEF Shapes, Desks, Fronts, Gates
<1>. QED BY <1>2, <1>4, <1>5, <1>6 DEF Arrives

\* A result goes into the socket.
LEMMA ArrivesResult ==
  ASSUME Shapes, Ledger, Arrives, desk.runs # <<>>, NEW v, v = verdict(Head(desk.runs)),
         net' = [net EXCEPT !.conn = Append(@, v)],
         desk' = writtenFrom(desk),
         UNCHANGED <<page, front, writer>>
  PROVE  /\ Arrives' /\ v \in Downward /\ Head(desk.runs).through > desk.written
         /\ Head(desk.runs).through <= desk.reported
<1>1. /\ net'.conn = Append(net.conn, v) /\ net'.down = net.down
      /\ desk'.runs = Tail(desk.runs) /\ desk'.written = Head(desk.runs).through
      /\ desk'.fate = desk.fate /\ desk'.reported = desk.reported
  BY DEF Shapes, Desks, Fronts, Gates, writtenFrom
<1>2. v \in Downward /\ v.kind = "input" /\ v.n = Head(desk.runs).through /\ v.code = Head(desk.runs).result
  <2>1. Head(desk.runs) \in Runs
    BY ShapeFacts
  <2>. QED BY <2>1, VerdictType DEF verdict
<1>3. /\ verdicts(desk.runs) \in Seq(Downward) /\ verdicts(desk.runs) # <<>>
      /\ Head(verdicts(desk.runs)) = v /\ Tail(verdicts(desk.runs)) = verdicts(Tail(desk.runs))
  BY ShapeFacts, VerdictsType
<1>. DEFINE t == atPage(theDesk, v)
            more == [i \in 1..(v.n - Len(theDesk.told)) |-> v.code]
<1>4. /\ t \in PageStates /\ t.got = 0 /\ afterRuns = P!fold(t, verdicts(Tail(desk.runs)))
      /\ v.n > Len(theDesk.told) /\ Len(t.told) = v.n /\ v.n <= Len(afterRuns.told)
      /\ t.told = theDesk.told \o more
  <2>1. theDesk \in PageStates /\ theDesk.got = 0 /\ afterRuns = P!fold(theDesk, verdicts(desk.runs))
        /\ afterRuns.got >= 0
    BY ArrivesStates
  <2>. DEFINE w == verdicts(desk.runs)
  <2>2. w \in Seq(Downward) /\ w # <<>> /\ v = Head(w) /\ Tail(w) = verdicts(Tail(desk.runs))
        /\ P!fold(theDesk, w).got >= 0
    BY <1>3, <2>1
  <2>. HIDE DEF w, t, more
  <2>3. t = atPage(theDesk, v)
    BY DEF t
  <2>a. v.kind = "input"
    BY <1>2
  <2>b. theDesk \in PageStates
    BY <2>1
  <2>4. /\ t \in PageStates /\ P!fold(theDesk, w) = P!fold(t, Tail(w))
        /\ v.n > Len(theDesk.told) /\ Len(t.told) = v.n /\ v.n <= Len(P!fold(theDesk, w).told)
        /\ t.got = theDesk.got
    BY <2>a, <2>b, <2>2, <2>3, PageHead
  <2>5. more = [i \in 1..(v.n - Len(theDesk.told)) |-> v.code]
    BY DEF more
  <2>6. t.told = theDesk.told \o more
    <3>1. v \in Downward /\ v.n > Len(theDesk.told) /\ theDesk.got >= 0
      BY <1>2, <2>1, <2>4
    <3>. QED BY ZenonT(30), <2>a, <2>b, <2>3, <2>5, <3>1, AtPageResult
  <2>. QED BY <2>1, <2>2, <2>4, <2>6 DEF w
<1>5. afterDown' = afterDown
  BY <1>1 DEF afterDown, thePage
<1>6. afterConn' = atPage(afterConn, v)
  <2>1. afterConn' = P!fold(afterDown, Append(net.conn, v))
    BY <1>1, <1>5, PageFold DEF afterConn
  <2>. QED BY <1>2, <2>1, ShapeFacts, ArrivesStates, P!FoldAppend
<1>7. afterConn'.got = afterConn.got /\ afterConn'.told = t.told
  <2>1. more = [i \in 1..(v.n - Len(afterConn.told)) |-> v.code] /\ v.n > Len(afterConn.told)
    BY <1>4, ArrivesStates
  <2>2. afterConn \in PageStates /\ afterConn.got >= 0 /\ theDesk.told = afterConn.told
    BY ArrivesStates
  <2>. HIDE DEF more, t
  <2>3. atPage(afterConn, v).got = afterConn.got /\ atPage(afterConn, v).told = afterConn.told \o more
    BY ZenonT(30), <1>2, <2>1, <2>2, AtPageResult
  <2>. QED BY <1>4, <1>6, <2>2, <2>3
<1>8. t = [got |-> 0, told |-> afterConn'.told]
  BY <1>4, <1>7 DEF PageStates
<1>. HIDE DEF t
<1>9. afterRuns' = afterRuns
  BY <1>1, <1>4, <1>8, PageFold DEF afterRuns
<1>10. Len(afterRuns.told) = desk.reported
  <2>1. desk.fate \in Seq(Settled) /\ desk.reported \in Nat /\ desk.reported <= Len(desk.fate)
    BY DEF Shapes, Desks, Fronts, Gates, Ledger, balanced
  <2>2. Len(SubSeq(desk.fate, 1, desk.reported)) = desk.reported
    BY <2>1
  <2>. QED BY <2>2 DEF Arrives
<1>. QED BY <1>1, <1>2, <1>4, <1>5, <1>7, <1>9, <1>10, ArrivesStates DEF Arrives

\* The relay takes the head of the socket.
LEMMA ArrivesRelayed ==
  ASSUME Shapes, Arrives, net.conn # <<>>, NEW m, m = Head(net.conn),
         net' = [net EXCEPT !.conn = Tail(@), !.down = Append(@, m)],
         IF m.kind = "input" THEN front'.inputsSettled = m.n /\ front'.sent = front.sent
         ELSE front'.inputsSettled = front.inputsSettled /\ front'.sent = front.sent + 1,
         UNCHANGED <<page, writer, desk>>
  PROVE  Arrives'
<1>0. net'.conn = Tail(net.conn) /\ net'.down = Append(net.down, m)
  BY DEF Shapes, Desks, Fronts, Gates
<1>1. net'.conn = Tail(net.conn) /\ net'.down = Append(net.down, m) /\ m \in Downward
  BY SMTT(30), <1>0, ShapeFacts
<1>2. /\ afterDown \in PageStates /\ afterConn = P!fold(afterDown, net.conn) /\ afterConn.got >= 0
      /\ net.conn \in Seq(Downward) /\ net.down \in Seq(Downward)
      /\ afterDown = P!fold(thePage, net.down)
  BY ShapeFacts, ArrivesStates
<1>. DEFINE t == atPage(afterDown, m)
<1>3. afterDown' = t
  <2>1. afterDown' = P!fold(thePage, Append(net.down, m))
    BY <1>1, PageFold DEF afterDown, thePage
  <2>. QED BY <1>1, <1>2, <2>1, P!FoldAppend
<1>. HIDE DEF t
<1>4. /\ afterConn = P!fold(t, Tail(net.conn))
      /\ m.kind = "input" => Len(t.told) = m.n /\ t.got = afterDown.got
      /\ m.kind # "input" => t.got = afterDown.got + 1 /\ t.told = afterDown.told
  <2>1. t = atPage(afterDown, m)
    BY DEF t
  <2>2. P!fold(afterDown, net.conn).got >= 0
    BY <1>2
  <2>. QED BY <1>2, <2>1, <2>2, PageHead
<1>5. afterConn' = afterConn
  BY <1>1, <1>3, <1>4, PageFold DEF afterConn
<1>6. afterRuns' = afterRuns
  BY <1>5 DEF afterRuns
<1>. QED BY <1>3, <1>4, <1>5, <1>6 DEF Arrives

\* What the relay takes it may take.
LEMMA ConnHead ==
  ASSUME Shapes, Arrives, net.conn # <<>>, NEW m, m = Head(net.conn)
  PROVE  /\ m \in Downward
         /\ m.kind = "input" => m.n > front.inputsSettled /\ m.n <= desk.written
<1>1. /\ afterDown \in PageStates /\ afterConn = P!fold(afterDown, net.conn) /\ afterConn.got >= 0
      /\ net.conn \in Seq(Downward)
  BY ShapeFacts, ArrivesStates
<1>2. P!fold(afterDown, net.conn).got >= 0
  BY <1>1
<1>. DEFINE t == atPage(afterDown, m)
<1>3. /\ m \in Downward
      /\ m.kind = "input" => m.n > Len(afterDown.told) /\ m.n <= Len(P!fold(afterDown, net.conn).told)
  <2>1. t = atPage(afterDown, m)
    OBVIOUS
  <2>. HIDE DEF t
  <2>. QED BY <1>1, <1>2, <2>1, PageHead
<1>. QED BY <1>1, <1>3 DEF Arrives

\* The page takes the head of its queue.
LEMMA DownHead ==
  ASSUME Shapes, Arrives, net.down # <<>>, NEW m, m = Head(net.down)
  PROVE  /\ m \in Downward
         /\ m.kind = "input" => m.n > page.settled /\ m.n <= front.inputsSettled
<1>1. /\ thePage \in PageStates /\ afterDown = P!fold(thePage, net.down) /\ afterDown.got >= 0
      /\ net.down \in Seq(Downward) /\ thePage.told = page.told
  BY ShapeFacts, ArrivesStates DEF thePage
<1>2. P!fold(thePage, net.down).got >= 0
  BY <1>1
<1>. DEFINE t == atPage(thePage, m)
<1>3. /\ m \in Downward
      /\ m.kind = "input" => m.n > Len(thePage.told) /\ m.n <= Len(P!fold(thePage, net.down).told)
  <2>1. t = atPage(thePage, m)
    OBVIOUS
  <2>. HIDE DEF t
  <2>. QED BY <1>1, <1>2, <2>1, PageHead
<1>. QED BY <1>1, <1>3 DEF Arrives

\* Reading the head of its queue changes nothing of what the page will have
\* read.
LEMMA ArrivesRead ==
  ASSUME Shapes, Arrives, net.down # <<>>, NEW m, m = Head(net.down),
         net'.down = Tail(net.down), net'.conn = net.conn,
         NEW t, t = atPage(thePage, m), thePage' = t, page'.settled = Len(page'.told),
         UNCHANGED <<front, writer, desk>>
  PROVE  Arrives'
<1>1. /\ thePage \in PageStates /\ afterDown = P!fold(thePage, net.down) /\ afterDown.got >= 0
      /\ net.down \in Seq(Downward)
  BY ShapeFacts, ArrivesStates
<1>2. P!fold(thePage, net.down).got >= 0
  BY <1>1
<1>3. afterDown = P!fold(t, Tail(net.down))
  BY <1>1, <1>2, PageHead
<1>4. afterDown' = afterDown
  BY <1>3, PageFold DEF afterDown
<1>5. afterConn' = afterConn
  BY <1>4 DEF afterConn
<1>6. afterRuns' = afterRuns
  BY <1>5 DEF afterRuns
<1>. QED BY <1>4, <1>5, <1>6 DEF Arrives

(***************************************************************************)
(* The runs the reporter makes say of each input what became of it.        *)
(***************************************************************************)
\* From st, the page told everything up to k, the results q tell it up to j.
tells(st, fate, q, j) ==
  P!fold(st, verdicts(q)).got = 0 /\ P!fold(st, verdicts(q)).told = SubSeq(fate, 1, j)

\* The runs r tell up to j, and so does their last one after the others.
tellLast(st, fate, r, q, run, k, j) ==
  /\ q \in Seq(Runs) /\ run \in Runs /\ r = Append(q, run) /\ run.through = j
  /\ k \in Nat /\ k < j /\ j <= Len(fate) /\ tells(st, fate, q, k)
  /\ \A i \in (k + 1)..j : fate[i] = run.result

\* Replacing the last of a sequence.
LEMMA LastReplaced ==
  ASSUME NEW S, NEW q \in Seq(S), NEW x \in S, NEW y \in S, NEW r, r = Append(q, x)
  PROVE  r # <<>> /\ Last(r) = x /\ [r EXCEPT ![Len(r)] = y] = Append(q, y)
<1>. DEFINE a == [r EXCEPT ![Len(r)] = y]
            b == Append(q, y)
<1>1. r \in Seq(S) /\ Len(r) = Len(q) + 1 /\ r[Len(r)] = x /\ \A i \in 1..Len(q) : r[i] = q[i]
  OBVIOUS
<1>2. a \in Seq(S) /\ Len(a) = Len(q) + 1 /\ \A i \in 1..(Len(q) + 1) : a[i] = IF i = Len(q) + 1 THEN y ELSE q[i]
  <2>1. Len(r) \in 1..Len(r) /\ DOMAIN r = 1..Len(r)
    BY <1>1
  <2>2. a \in Seq(S) /\ Len(a) = Len(r)
    BY <1>1, <2>1, ExceptSeq
  <2>3. \A i \in 1..Len(r) : a[i] = IF i = Len(r) THEN y ELSE r[i]
    BY <1>1, <2>1
  <2>. HIDE DEF a
  <2>. QED BY <1>1, <2>2, <2>3
<1>3. b \in Seq(S) /\ Len(b) = Len(q) + 1 /\ \A i \in 1..(Len(q) + 1) : b[i] = IF i = Len(q) + 1 THEN y ELSE q[i]
  OBVIOUS
<1>. HIDE DEF a, b
<1>4. a = b
  BY <1>2, <1>3
<1>5. r # <<>>
  BY <1>1
<1>. QED BY <1>1, <1>4, <1>5 DEF Last, a, b

\* What is left of a sequence when its first n are dropped.
LEMMA DropIs ==
  ASSUME NEW S, NEW v \in Seq(S), NEW n \in 0..Len(v)
  PROVE  /\ SubSeq(v, n + 1, Len(v)) \in Seq(S) /\ Len(SubSeq(v, n + 1, Len(v))) = Len(v) - n
         /\ \A i \in 1..(Len(v) - n) : SubSeq(v, n + 1, Len(v))[i] = v[n + i]
OBVIOUS

\* A prefix and what follows it make a longer prefix.
LEMMA SubSeqJoin ==
  ASSUME NEW S, NEW f \in Seq(S), NEW k \in Nat, NEW j \in Nat, k <= j, j <= Len(f),
         NEW more \in Seq(S), Len(more) = j - k, \A i \in 1..(j - k) : more[i] = f[k + i]
  PROVE  SubSeq(f, 1, k) \o more = SubSeq(f, 1, j)
<1>. DEFINE a == SubSeq(f, 1, k)
            b == SubSeq(f, 1, j)
            c == a \o more
<1>1. a \in Seq(S) /\ Len(a) = k /\ \A i \in 1..k : a[i] = f[i]
  OBVIOUS
<1>2. b \in Seq(S) /\ Len(b) = j /\ \A i \in 1..j : b[i] = f[i]
  OBVIOUS
<1>. HIDE DEF a, b
<1>3. c \in Seq(S) /\ Len(c) = j
  <2>1. a \in Seq(S) /\ more \in Seq(S) /\ Len(a) + Len(more) = j
    BY <1>1
  <2>. QED BY <2>1, ConcatProperties
<1>4. \A i \in 1..j : c[i] = b[i]
  <2>. TAKE i \in 1..j
  <2>1. CASE i <= k
    <3>1. c[i] = a[i]
      BY <1>1, <2>1
    <3>. QED BY <1>1, <1>2, <2>1, <3>1
  <2>2. CASE ~(i <= k)
    <3>1. i - k \in 1..(j - k) /\ k + (i - k) = i
      BY <2>2
    <3>2. c[i] = more[i - k]
      BY <1>1, <2>2
    <3>. QED BY <1>2, <3>1, <3>2
  <2>. QED BY <2>1, <2>2
<1>. HIDE DEF c
<1>5. c = b
  BY <1>2, <1>3, <1>4
<1>. QED BY <1>5 DEF a, b, c

\* One more run is one more frame.
LEMMA VerdictsAppend ==
  ASSUME NEW q \in Seq(Runs), NEW run \in Runs
  PROVE  verdicts(Append(q, run)) = Append(verdicts(q), verdict(run))
<1>. DEFINE a == Append(q, run)
            v == verdicts(a)
            w == Append(verdicts(q), verdict(run))
<1>1. a \in Seq(Runs) /\ Len(a) = Len(q) + 1 /\ a[Len(q) + 1] = run /\ \A i \in 1..Len(q) : a[i] = q[i]
  OBVIOUS
<1>2. v \in Seq(Downward) /\ Len(v) = Len(q) + 1 /\ \A i \in 1..(Len(q) + 1) : v[i] = verdict(a[i])
  BY <1>1, VerdictsType
<1>3. verdicts(q) \in Seq(Downward) /\ Len(verdicts(q)) = Len(q)
      /\ \A i \in 1..Len(q) : verdicts(q)[i] = verdict(q[i])
  BY VerdictsType
<1>4. verdict(run) \in Downward
  BY VerdictType
<1>5. w \in Seq(Downward) /\ Len(w) = Len(q) + 1 /\ w[Len(q) + 1] = verdict(run)
      /\ \A i \in 1..Len(q) : w[i] = verdict(q[i])
  BY <1>3, <1>4
<1>6. \A i \in 1..(Len(q) + 1) : v[i] = w[i]
  BY <1>1, <1>2, <1>5
<1>. HIDE DEF v, w
<1>7. v = w
  BY <1>2, <1>5, <1>6
<1>. QED BY <1>7 DEF v, w

\* Runs tell the same fates when the last is replaced or one is added.
LEMMA LastTells ==
  ASSUME NEW st \in PageStates, NEW fate \in Seq(Settled), NEW r, NEW q, NEW run, NEW k, NEW j \in Nat,
         tellLast(st, fate, r, q, run, k, j)
  PROVE  r \in Seq(Runs) /\ tells(st, fate, r, j)
<1>1. /\ q \in Seq(Runs) /\ run \in Runs /\ r = Append(q, run) /\ run.through = j
      /\ k \in Nat /\ k < j /\ j <= Len(fate)
      /\ P!fold(st, verdicts(q)).got = 0 /\ P!fold(st, verdicts(q)).told = SubSeq(fate, 1, k)
      /\ \A i \in (k + 1)..j : fate[i] = run.result
  BY DEF tellLast, tells
<1>. DEFINE u == P!fold(st, verdicts(q))
            m == verdict(run)
            more == [i \in 1..(m.n - Len(u.told)) |-> m.code]
<1>2. verdicts(r) = Append(verdicts(q), m) /\ verdicts(q) \in Seq(Downward)
  BY <1>1, VerdictsAppend, VerdictsType
<1>3. m \in Downward /\ m.kind = "input" /\ m.n = j /\ m.code = run.result
  BY <1>1, VerdictType DEF verdict
<1>4. u \in PageStates
  BY <1>2, PageGoesOn DEF onward
<1>. HIDE DEF m
<1>5. P!fold(st, verdicts(r)) = atPage(u, m)
  BY <1>2, <1>3, P!FoldAppend
<1>6. Len(u.told) = k /\ u.got = 0 /\ u.told = SubSeq(fate, 1, k)
  BY <1>1
<1>. HIDE DEF u
<1>7. Len(more) = j - k /\ \A i \in 1..(j - k) : more[i] = run.result
  BY <1>1, <1>3, <1>6
<1>8. more = [i \in 1..(m.n - Len(u.told)) |-> m.code]
  OBVIOUS
<1>. HIDE DEF more
<1>9. more \in Seq(Outcomes) /\ atPage(u, m).got = 0 /\ atPage(u, m).told = u.told \o more
  <2>1. m.n > Len(u.told) /\ u.got >= 0
    BY <1>1, <1>3, <1>6
  <2>. QED BY <1>3, <1>4, <1>6, <1>8, <2>1, AtPageResult
<1>10. u.told \o more = SubSeq(fate, 1, j)
  <2>1. more \in Seq(Settled)
    BY <1>9 DEF Settled
  <2>2. \A i \in 1..(j - k) : more[i] = fate[k + i]
    <3>. TAKE i \in 1..(j - k)
    <3>1. k + i \in (k + 1)..j
      BY <1>1
    <3>. QED BY <1>1, <1>7, <3>1
  <2>3. /\ fate \in Seq(Settled) /\ k \in Nat /\ j \in Nat /\ k <= j /\ j <= Len(fate)
        /\ Len(more) = j - k
    BY <1>1, <1>7
  <2>4. SubSeq(fate, 1, k) \o more = SubSeq(fate, 1, j)
    BY <2>1, <2>2, <2>3, SubSeqJoin
  <2>. QED BY <1>6, <2>4
<1>11. r \in Seq(Runs)
  BY <1>1
<1>. QED BY <1>5, <1>9, <1>10, <1>11 DEF tells

\* One more settled input.
LEMMA RunGrows ==
  ASSUME NEW st \in PageStates, NEW fate \in Seq(Settled), NEW r, NEW q, NEW run, NEW k, NEW j \in Nat,
         tellLast(st, fate, r, q, run, k, j), j < Len(fate),
         NEW next \in Runs, next.through = j + 1, next.result = fate[j + 1]
  PROVE  \E q1, run1, k1 : tellLast(st, fate, extends(r, next), q1, run1, k1, j + 1)
<1>1. /\ q \in Seq(Runs) /\ run \in Runs /\ r = Append(q, run) /\ run.through = j
      /\ k \in Nat /\ k < j /\ j <= Len(fate) /\ tells(st, fate, q, k)
      /\ \A i \in (k + 1)..j : fate[i] = run.result
  BY DEF tellLast
<1>2. r # <<>> /\ Last(r) = run /\ [r EXCEPT ![Len(r)] = next] = Append(q, next)
  <2>1. Append(q, run) = r /\ q \in Seq(Runs) /\ run \in Runs
    BY <1>1
  <2>. QED BY <2>1, LastReplaced
<1>3. r \in Seq(Runs) /\ tells(st, fate, r, j)
  BY LastTells
<1>4. CASE run.result = next.result
  <2>1. extends(r, next) = Append(q, next)
    BY <1>2, <1>4 DEF extends
  <2>2. \A i \in (k + 1)..(j + 1) : fate[i] = next.result
    <3>. TAKE i \in (k + 1)..(j + 1)
    <3>1. i \in (k + 1)..j \/ i = j + 1
      BY <1>1
    <3>. QED BY <1>1, <1>4, <3>1
  <2>3. k < j + 1 /\ j + 1 <= Len(fate)
    BY <1>1
  <2>4. tellLast(st, fate, extends(r, next), q, next, k, j + 1)
    BY <1>1, <2>1, <2>2, <2>3 DEF tellLast
  <2>. QED BY <2>4
<1>5. CASE run.result # next.result
  <2>1. extends(r, next) = Append(r, next)
    BY <1>2, <1>5 DEF extends
  <2>2. \A i \in (j + 1)..(j + 1) : fate[i] = next.result
    OBVIOUS
  <2>3. j < j + 1 /\ j + 1 <= Len(fate)
    BY <1>1
  <2>4. tellLast(st, fate, extends(r, next), r, next, j, j + 1)
    BY <1>3, <2>1, <2>2, <2>3 DEF tellLast
  <2>. QED BY <2>4
<1>. QED BY <1>4, <1>5

\* The settled inputs after t, as the reporter reads them from the window.
follows(s, fate, t) ==
  /\ t + Len(s) <= Len(fate)
  /\ \A i \in 1..Len(s) : s[i].through = t + i /\ s[i].result = fate[t + i]

\* The runs taken of a window tell exactly its fates.
LEMMA RunsTell ==
  ASSUME NEW st \in PageStates, NEW fate \in Seq(Settled), NEW t \in Nat, st.got = 0,
         st.told = SubSeq(fate, 1, t), NEW s \in Seq(Runs), follows(s, fate, t)
  PROVE  R!fold(<<>>, s) \in Seq(Runs) /\ tells(st, fate, R!fold(<<>>, s), t + Len(s))
<1>. DEFINE runs(u) == R!fold(<<>>, u)
            reached(u) == \E q, run, k : tellLast(st, fate, runs(u), q, run, k, t + Len(u))
            S == {u \in Seq(Runs) : follows(u, fate, t) /\ u # <<>> => reached(u)}
<1>0. <<>> \in Seq(Runs) /\ tells(st, fate, <<>>, t)
  <2>1. verdicts(<<>>) = <<>>
    BY DEF verdicts
  <2>2. P!fold(st, <<>>) = st
    BY P!FoldEmpty
  <2>. QED BY <2>1, <2>2 DEF tells
<1>1. <<>> \in S
  OBVIOUS
<1>2. \A u \in Seq(Runs), x \in Runs : u \in S => Append(u, x) \in S
  <2>. TAKE u \in Seq(Runs), x \in Runs
  <2>. SUFFICES ASSUME u \in S, follows(Append(u, x), fate, t) PROVE reached(Append(u, x))
    OBVIOUS
  <2>. DEFINE a == Append(u, x)
              j == t + Len(u)
  <2>1. /\ a \in Seq(Runs) /\ Len(a) = Len(u) + 1 /\ a[Len(u) + 1] = x /\ \A i \in 1..Len(u) : a[i] = u[i]
        /\ Len(u) \in Nat /\ j \in Nat /\ t + Len(a) = j + 1
    OBVIOUS
  <2>2. follows(u, fate, t) /\ x.through = j + 1 /\ x.result = fate[j + 1] /\ j + 1 <= Len(fate)
    <3>. HIDE DEF a
    <3>1. t + Len(a) <= Len(fate) /\ \A i \in 1..Len(a) : a[i].through = t + i /\ a[i].result = fate[t + i]
      BY DEF follows, a
    <3>2. x.through = t + (Len(u) + 1) /\ x.result = fate[t + (Len(u) + 1)]
      BY SMTT(30), <2>1, <3>1
    <3>3. \A i \in 1..Len(u) : u[i].through = t + i /\ u[i].result = fate[t + i]
      BY <2>1, <3>1
    <3>. QED BY <2>1, <3>1, <3>2, <3>3 DEF follows
  <2>3. runs(a) = extends(runs(u), x)
    BY R!FoldAppend
  <2>4. CASE u = <<>>
    <3>1. runs(u) = <<>> /\ j = t
      BY <2>4, R!FoldEmpty
    <3>2. runs(a) = Append(<<>>, x)
      BY <2>3, <3>1 DEF extends
    <3>3. \A i \in (t + 1)..(t + 1) : fate[i] = x.result
      BY <2>2, <3>1
    <3>4. tellLast(st, fate, runs(a), <<>>, x, t, t + 1)
      BY <1>0, <2>2, <3>1, <3>2, <3>3 DEF tellLast
    <3>. QED BY <2>1, <3>1, <3>4
  <2>5. CASE u # <<>>
    <3>1. PICK q, run, k : tellLast(st, fate, runs(u), q, run, k, j)
      BY <2>2, <2>5
    <3>2. \E q1, run1, k1 : tellLast(st, fate, extends(runs(u), x), q1, run1, k1, j + 1)
      <4>. HIDE DEF runs, j
      <4>1. j < Len(fate)
        BY <2>1, <2>2
      <4>. QED BY <2>1, <2>2, <3>1, <4>1, RunGrows
    <3>. QED BY <2>1, <2>3, <3>2
  <2>. QED BY <2>4, <2>5
<1>3. s \in S
  <2>. HIDE DEF S
  <2>. QED BY <1>1, <1>2, R!SequenceInduct
<1>4. CASE s = <<>>
  <2>1. runs(s) = <<>> /\ t + Len(s) = t
    BY <1>4, R!FoldEmpty
  <2>. QED BY <1>0, <2>1
<1>5. CASE s # <<>>
  <2>1. PICK q, run, k : tellLast(st, fate, runs(s), q, run, k, t + Len(s))
    BY <1>3, <1>5
  <2>. HIDE DEF runs
  <2>2. t + Len(s) \in Nat
    OBVIOUS
  <2>3. runs(s) \in Seq(Runs) /\ tells(st, fate, runs(s), t + Len(s))
    BY <2>1, <2>2, LastTells
  <2>. QED BY <2>3 DEF runs
<1>. QED BY <1>4, <1>5

\* How much of the window is settled at its head.
LEMMA SettledHeadIs ==
  ASSUME NEW w \in Seq(Settled)
  PROVE  /\ settledHead(w) \in 0..Len(w)
         /\ \A i \in 1..settledHead(w) : w[i] # "none" /\ w[i] \in Outcomes
         /\ settledHead(w) < Len(w) => w[settledHead(w) + 1] = "none"
<1>. DEFINE T == {i \in DOMAIN w : \A j \in 1..i : w[j] # "none"}
            n == settledHead(w)
<1>1. n \in {0} \cup T /\ \A i \in {0} \cup T : i <= n
  <2>1. {0} \cup T \subseteq 0..Len(w) /\ 0 \in {0} \cup T
    OBVIOUS
  <2>2. n = Max({0} \cup T)
    BY DEF settledHead
  <2>. DEFINE U == {0} \cup T
  <2>3. U \in SUBSET (0..Len(w)) /\ U # {} /\ Len(w) \in Nat /\ n = Max(U)
    BY <2>1, <2>2
  <2>. HIDE DEF U, n
  <2>4. n \in U /\ \A i \in U : i <= n
    BY <2>3, MaxIs
  <2>. QED BY <2>4 DEF U
<1>2. n \in 0..Len(w)
  BY <1>1
<1>3. \A i \in 1..n : w[i] # "none" /\ w[i] \in Outcomes
  <2>1. \A i \in 1..n : w[i] # "none"
    BY <1>1, <1>2
  <2>2. \A i \in 1..n : w[i] \in Settled
    BY <1>2
  <2>. QED BY <2>1, <2>2 DEF Settled
<1>4. ASSUME n < Len(w) PROVE w[n + 1] = "none"
  <2>. SUFFICES ASSUME w[n + 1] # "none" PROVE FALSE
    OBVIOUS
  <2>1. n + 1 \in DOMAIN w /\ \A j \in 1..(n + 1) : w[j] # "none"
    BY <1>2, <1>3, <1>4
  <2>2. n + 1 \in T
    BY <2>1
  <2>. QED BY <1>1, <1>2, <2>2
<1>. QED BY <1>2, <1>3, <1>4

\* The window holds the fates that are not reported.
LEMMA WindowIs ==
  ASSUME Shapes, Ledger
  PROVE  /\ desk.window \in Seq(Settled) /\ desk.fate \in Seq(Settled) /\ desk.reported \in Nat
         /\ desk.received \in Nat /\ desk.written \in Nat
         /\ Len(desk.fate) = desk.received /\ desk.reported <= desk.received
         /\ Len(desk.window) = desk.received - desk.reported
         /\ \A i \in 1..(desk.received - desk.reported) : desk.window[i] = desk.fate[desk.reported + i]
<1>1. /\ desk.window \in Seq(Settled) /\ desk.fate \in Seq(Settled) /\ desk.reported \in Nat
      /\ desk.received \in Nat /\ desk.written \in Nat
      /\ desk.window = SubSeq(desk.fate, desk.reported + 1, desk.received)
      /\ Len(desk.fate) = desk.received /\ desk.reported <= desk.received
  BY DEF Shapes, Desks, Fronts, Gates, Ledger, balanced
<1>. DEFINE f == desk.fate
            a == desk.reported
<1>2. f \in Seq(Settled) /\ a \in Nat /\ a <= Len(f) /\ desk.window = SubSeq(f, a + 1, Len(f))
  BY <1>1
<1>. HIDE DEF f, a
<1>3. Len(desk.window) = Len(f) - a /\ \A i \in 1..(Len(f) - a) : desk.window[i] = f[a + i]
  BY <1>2
<1>. QED BY <1>1, <1>3 DEF f, a

\* The settled prefix of a window, result by result.
LEMMA SettledRunsAre ==
  ASSUME NEW w \in Seq(Settled), NEW t \in Nat, NEW n \in Nat, \A i \in 1..n : w[i] \in Outcomes
  PROVE  /\ settledRuns(w, t, n) \in Seq(Runs) /\ Len(settledRuns(w, t, n)) = n
         /\ \A i \in 1..n : /\ settledRuns(w, t, n)[i].through = t + i
                            /\ settledRuns(w, t, n)[i].result = w[i]
<1>1. \A i \in 1..n : [through |-> t + i, result |-> w[i]] \in Runs
  BY DEF Runs
<1>. QED BY <1>1 DEF settledRuns

\* What the reporter takes follows the fates.
LEMMA TakenRuns ==
  ASSUME Shapes, Ledger, NEW n, n = settledHead(desk.window), NEW s,
         s = settledRuns(desk.window, desk.reported, n)
  PROVE  /\ s \in Seq(Runs) /\ Len(s) = n /\ n \in 0..(desk.received - desk.reported)
         /\ follows(s, desk.fate, desk.reported)
<1>1. /\ n \in 0..(desk.received - desk.reported)
      /\ \A i \in 1..n : desk.window[i] \in Outcomes
  <2>1. /\ n \in 0..Len(desk.window) /\ \A i \in 1..n : desk.window[i] \in Outcomes
    BY WindowIs, SettledHeadIs
  <2>. QED BY <2>1, WindowIs
<1>2. n \in Nat /\ desk.reported + n <= desk.received
  BY <1>1, WindowIs
<1>3. /\ s \in Seq(Runs) /\ Len(s) = n
      /\ \A i \in 1..n : s[i].through = desk.reported + i /\ s[i].result = desk.window[i]
  <2>1. n \in Nat /\ desk.window \in Seq(Settled) /\ desk.reported \in Nat
    BY <1>2, WindowIs
  <2>2. \A i \in 1..n : desk.window[i] \in Outcomes
    BY <1>1
  <2>. DEFINE u == settledRuns(desk.window, desk.reported, n)
  <2>3. u \in Seq(Runs) /\ Len(u) = n
        /\ \A i \in 1..n : u[i].through = desk.reported + i /\ u[i].result = desk.window[i]
    BY <2>1, <2>2, SettledRunsAre
  <2>. QED BY <2>3
<1>4. \A i \in 1..n : desk.window[i] = desk.fate[desk.reported + i]
  BY <1>1, WindowIs
<1>5. desk.reported + Len(s) <= Len(desk.fate)
  BY <1>2, <1>3, WindowIs
<1>. QED BY <1>1, <1>3, <1>4, <1>5 DEF follows

\* Taking results into runs keeps what the page will have read true.
LEMMA ArrivesTakes ==
  ASSUME Shapes, Arrives, desk.runs = <<>>, NEW s \in Seq(Runs),
         follows(s, desk.fate, desk.reported), desk'.fate = desk.fate,
         desk'.reported = desk.reported + Len(s), desk'.runs = FoldLeft(extends, <<>>, s),
         desk'.written = desk.written, UNCHANGED <<page, writer, front, net>>
  PROVE  Arrives' /\ desk'.runs \in Seq(Runs)
<1>1. desk'.runs = R!fold(<<>>, s)
  BY RunsFold
<1>2. desk.fate \in Seq(Settled) /\ desk.reported \in Nat
  BY DEF Shapes, Desks, Fronts, Gates
<1>3. afterDown' = afterDown /\ afterConn' = afterConn
  BY DEF afterDown, afterConn, thePage
<1>4. /\ theDesk \in PageStates /\ theDesk.got = 0 /\ theDesk.told = SubSeq(desk.fate, 1, desk.reported)
      /\ theDesk' = theDesk
  <2>1. verdicts(<<>>) = <<>>
    BY DEF verdicts
  <2>2. P!fold(theDesk, <<>>) = theDesk
    BY P!FoldEmpty
  <2>3. afterRuns = theDesk
    BY <2>1, <2>2, ArrivesStates
  <2>. QED BY <1>3, <2>3, ArrivesStates DEF Arrives, theDesk
<1>5. desk'.runs \in Seq(Runs) /\ tells(theDesk, desk.fate, desk'.runs, desk'.reported)
  BY <1>1, <1>2, <1>4, RunsTell
<1>6. afterRuns' = P!fold(theDesk, verdicts(desk'.runs))
  BY <1>4, PageFold DEF afterRuns, theDesk
<1>7. afterRuns' \in PageStates
  BY <1>4, <1>5, <1>6, VerdictsType, PageGoesOn DEF onward
<1>8. afterRuns'.got = 0 /\ afterRuns'.told = SubSeq(desk'.fate, 1, desk'.reported)
  BY <1>5, <1>6 DEF tells
<1>9. afterRuns' = [got |-> 0, told |-> SubSeq(desk'.fate, 1, desk'.reported)]
  BY <1>7, <1>8 DEF PageStates
<1>. QED BY <1>3, <1>5, <1>9 DEF Arrives

(***************************************************************************)
(* The ledger.                                                             *)
(***************************************************************************)
LEMMA DeskFacts ==
  ASSUME NEW d \in Desks, balanced(d)
  PROVE  /\ d.received \in Nat /\ d.reported \in Nat /\ d.written \in Nat /\ d.wake \in BOOLEAN
         /\ d.window \in Seq(Settled) /\ d.fate \in Seq(Settled) /\ d.given \in SUBSET Nat
         /\ d.runs \in Seq(Runs) /\ d.judge \in Judgements
         /\ d.written <= d.reported /\ d.reported <= d.received /\ Len(d.fate) = d.received
         /\ d.received - d.written <= MaxInputBacklog
         /\ Len(d.window) = d.received - d.reported
         /\ \A i \in 1..(d.received - d.reported) : d.window[i] = d.fate[d.reported + i]
         /\ \A i \in 1..d.reported : d.fate[i] # "none"
         /\ d.window # <<>> /\ d.window[1] # "none" => d.wake
         /\ \A id \in d.given : id \in 1..d.received
<1>1. /\ d.received \in Nat /\ d.reported \in Nat /\ d.written \in Nat /\ d.wake \in BOOLEAN
      /\ d.window \in Seq(Settled) /\ d.fate \in Seq(Settled) /\ d.given \in SUBSET Nat
      /\ d.runs \in Seq(Runs) /\ d.judge \in Judgements
  BY DEF Desks
<1>2. /\ d.written <= d.reported /\ d.reported <= d.received /\ Len(d.fate) = d.received
      /\ d.received - d.written <= MaxInputBacklog
      /\ d.window = SubSeq(d.fate, d.reported + 1, d.received)
      /\ \A i \in 1..d.reported : d.fate[i] # "none"
      /\ d.window # <<>> /\ d.window[1] # "none" => d.wake
      /\ \A id \in d.given : id \in 1..d.received
  BY DEF balanced
<1>. DEFINE f == d.fate
            a == d.reported
<1>3. f \in Seq(Settled) /\ a \in Nat /\ a <= Len(f) /\ d.window = SubSeq(f, a + 1, Len(f))
  BY <1>1, <1>2
<1>. HIDE DEF f, a
<1>4. Len(d.window) = Len(f) - a /\ \A i \in 1..(Len(f) - a) : d.window[i] = f[a + i]
  BY <1>3
<1>. QED BY <1>1, <1>2, <1>4 DEF f, a

\* The window is the fate of what is not reported, entry by entry.
LEMMA BalancedIf ==
  ASSUME NEW d \in Desks, Len(d.fate) = d.received, d.written <= d.reported, d.reported <= d.received,
         d.received - d.written <= MaxInputBacklog, Len(d.window) = d.received - d.reported,
         \A i \in 1..(d.received - d.reported) : d.window[i] = d.fate[d.reported + i],
         \A i \in 1..d.reported : d.fate[i] # "none",
         d.window # <<>> /\ d.window[1] # "none" => d.wake,
         \A id \in d.given : id \in 1..d.received
  PROVE  balanced(d)
<1>1. /\ d.received \in Nat /\ d.reported \in Nat
      /\ d.window \in Seq(Settled) /\ d.fate \in Seq(Settled)
  BY DEF Desks
<1>. DEFINE f == d.fate
            a == d.reported
            w == d.window
            v == SubSeq(f, a + 1, Len(f))
<1>2. f \in Seq(Settled) /\ a \in Nat /\ a <= Len(f) /\ w \in Seq(Settled) /\ Len(w) = Len(f) - a
      /\ \A i \in 1..(Len(f) - a) : w[i] = f[a + i]
  BY <1>1
<1>. HIDE DEF f, a, w
<1>3. v \in Seq(Settled) /\ Len(v) = Len(f) - a /\ \A i \in 1..(Len(f) - a) : v[i] = f[a + i]
  BY <1>2
<1>. HIDE DEF v
<1>4. w = v
  <2>1. Len(w) = Len(v) /\ \A i \in 1..Len(w) : w[i] = v[i]
    BY <1>2, <1>3
  <2>. QED BY <1>2, <1>3, <2>1, SeqEqual
<1>. QED BY <1>4 DEF f, a, w, v, balanced

\* Settling an input answers that one and keeps the ledger balanced.
LEMMA SettleIs ==
  ASSUME NEW d \in Desks, balanced(d), NEW id \in 1..d.received, NEW result \in Outcomes,
         NEW e, e = settle(d, id, result)
  PROVE  /\ e \in Desks /\ balanced(e)
         /\ e.judge = d.judge /\ e.received = d.received /\ e.reported = d.reported
         /\ e.written = d.written /\ e.runs = d.runs /\ e.given = d.given
         /\ \A i \in 1..d.reported : e.fate[i] = d.fate[i]
<1>1. /\ d.received \in Nat /\ d.reported \in Nat /\ d.written \in Nat /\ d.wake \in BOOLEAN
      /\ d.window \in Seq(Settled) /\ d.fate \in Seq(Settled) /\ d.given \in SUBSET Nat
      /\ d.runs \in Seq(Runs) /\ d.judge \in Judgements
      /\ d.written <= d.reported /\ d.reported <= d.received /\ Len(d.fate) = d.received
      /\ d.received - d.written <= MaxInputBacklog
      /\ Len(d.window) = d.received - d.reported
      /\ \A i \in 1..(d.received - d.reported) : d.window[i] = d.fate[d.reported + i]
      /\ \A i \in 1..d.reported : d.fate[i] # "none"
      /\ \A i \in d.given : i \in 1..d.received
  BY DeskFacts
<1>. DEFINE k == id - d.reported
<1>2. CASE id <= d.reported \/ d.window[k] # "none"
  <2>1. e = d
    BY <1>2 DEF settle
  <2>. QED BY <2>1
<1>3. CASE ~(id <= d.reported \/ d.window[k] # "none")
  <2>. DEFINE w == [d.window EXCEPT ![k] = result]
              f == [d.fate EXCEPT ![id] = result]
  <2>1. e = [d EXCEPT !.window = w, !.fate = f, !.wake = TRUE]
    BY <1>3 DEF settle
  <2>2. result \in Settled /\ result # "none" /\ k \in 1..Len(d.window) /\ id \in 1..Len(d.fate)
    BY SMTT(30), <1>1, <1>3 DEF Settled, Outcomes
  <2>3. w \in Seq(Settled) /\ Len(w) = Len(d.window)
        /\ \A i \in 1..Len(d.window) : w[i] = IF i = k THEN result ELSE d.window[i]
    BY <1>1, <2>2, ExceptSeq
  <2>4. f \in Seq(Settled) /\ Len(f) = Len(d.fate)
        /\ \A i \in 1..Len(d.fate) : f[i] = IF i = id THEN result ELSE d.fate[i]
    BY <1>1, <2>2, ExceptSeq
  <2>. HIDE DEF w, f
  <2>5. /\ e \in Desks /\ e.window = w /\ e.fate = f /\ e.wake
        /\ e.judge = d.judge /\ e.received = d.received /\ e.reported = d.reported
        /\ e.written = d.written /\ e.runs = d.runs /\ e.given = d.given
    BY <2>1, <2>3, <2>4 DEF Desks
  <2>6. \A i \in 1..d.reported : f[i] = d.fate[i]
    <3>1. \A i \in 1..d.reported : i \in 1..Len(d.fate) /\ i # id
      BY <1>1, <1>3
    <3>. QED BY <2>4, <3>1
  <2>7. \A i \in 1..(d.received - d.reported) : w[i] = f[d.reported + i]
    <3>. TAKE i \in 1..(d.received - d.reported)
    <3>1. i \in 1..Len(d.window) /\ d.reported + i \in 1..Len(d.fate) /\ (i = k <=> d.reported + i = id)
      BY SMTT(30), <1>1
    <3>. HIDE DEF k
    <3>. QED BY <1>1, <2>3, <2>4, <3>1
  <2>8. balanced(e)
    <3>1. Len(e.fate) = e.received /\ Len(e.window) = e.received - e.reported
      BY <1>1, <2>3, <2>4, <2>5
    <3>2. \A i \in 1..e.reported : e.fate[i] # "none"
      BY <1>1, <2>5, <2>6
    <3>3. \A i \in 1..(e.received - e.reported) : e.window[i] = e.fate[e.reported + i]
      BY <2>5, <2>7
    <3>4. /\ e.written <= e.reported /\ e.reported <= e.received
          /\ e.received - e.written <= MaxInputBacklog /\ \A i \in e.given : i \in 1..e.received
      BY <1>1, <2>5
    <3>. QED BY <2>5, <3>1, <3>2, <3>3, <3>4, BalancedIf
  <2>. QED BY <2>5, <2>6, <2>8
<1>. QED BY <1>2, <1>3

\* Receiving an input keeps the ledger balanced,
LEMMA LedgerReads ==
  ASSUME NEW d \in Desks, balanced(d), NEW j \in Judgements, ~(d.received - d.written >= MaxInputBacklog),
         NEW e, e = readInto(d, j)
  PROVE  /\ e \in Desks /\ balanced(e) /\ e.judge = j /\ e.received = d.received + 1
         /\ e.runs = d.runs /\ e.written = d.written /\ e.reported = d.reported
         /\ \A i \in 1..d.reported : e.fate[i] = d.fate[i]
<1>1. /\ d.received \in Nat /\ d.reported \in Nat /\ d.written \in Nat /\ d.wake \in BOOLEAN
      /\ d.window \in Seq(Settled) /\ d.fate \in Seq(Settled) /\ d.given \in SUBSET Nat
      /\ d.runs \in Seq(Runs)
      /\ d.written <= d.reported /\ d.reported <= d.received /\ Len(d.fate) = d.received
      /\ Len(d.window) = d.received - d.reported
      /\ \A i \in 1..(d.received - d.reported) : d.window[i] = d.fate[d.reported + i]
      /\ \A i \in 1..d.reported : d.fate[i] # "none"
      /\ d.window # <<>> /\ d.window[1] # "none" => d.wake
      /\ \A i \in d.given : i \in 1..d.received
  BY DeskFacts
<1>. DEFINE w == Append(d.window, "none")
            f == Append(d.fate, "none")
<1>2. "none" \in Settled
  BY DEF Settled
<1>3. w \in Seq(Settled) /\ Len(w) = Len(d.window) + 1 /\ w[Len(w)] = "none"
      /\ \A i \in 1..Len(d.window) : w[i] = d.window[i]
  BY <1>1, <1>2
<1>4. f \in Seq(Settled) /\ Len(f) = Len(d.fate) + 1 /\ f[Len(f)] = "none"
      /\ \A i \in 1..Len(d.fate) : f[i] = d.fate[i]
  BY <1>1, <1>2
<1>5. e = [d EXCEPT !.received = @ + 1, !.window = w, !.fate = f, !.judge = j]
  BY DEF readInto
<1>. HIDE DEF w, f
<1>a. d.received + 1 \in Nat
  BY <1>1
<1>6. /\ e \in Desks /\ e.judge = j /\ e.received = d.received + 1
      /\ e.runs = d.runs /\ e.written = d.written /\ e.reported = d.reported
      /\ e.window = w /\ e.fate = f /\ e.wake = d.wake /\ e.given = d.given
  BY ZenonT(30), <1>3, <1>4, <1>5, <1>a DEF Desks
<1>7. \A i \in 1..d.reported : f[i] = d.fate[i]
  BY <1>1, <1>4
<1>8. Len(f) = e.received /\ Len(w) = e.received - e.reported
  BY <1>1, <1>3, <1>4, <1>6
<1>9. \A i \in 1..(e.received - e.reported) : w[i] = f[e.reported + i]
  <2>. TAKE i \in 1..(e.received - e.reported)
  <2>1. CASE i <= d.received - d.reported
    <3>1. i \in 1..(d.received - d.reported) /\ d.reported + i \in 1..Len(d.fate)
      BY <1>1, <2>1
    <3>. QED BY ZenonT(30), <1>1, <1>3, <1>4, <1>6, <3>1
  <2>2. CASE ~(i <= d.received - d.reported)
    <3>0. /\ d.received \in Nat /\ d.reported \in Nat /\ d.reported <= d.received
          /\ e.received = d.received + 1 /\ e.reported = d.reported
          /\ i \in Int /\ i <= e.received - e.reported
      BY <1>1, <1>6
    <3>1. i = Len(w) /\ d.reported + i = Len(f)
      BY <1>8, <2>2, <3>0
    <3>. QED BY <1>3, <1>4, <1>6, <3>1
  <2>. QED BY <2>1, <2>2
<1>10. w # <<>> /\ w[1] # "none" => d.wake
  <2>1. CASE Len(d.window) = 0
    BY <1>3, <2>1
  <2>2. CASE Len(d.window) # 0
    <3>1. d.window # <<>> /\ w[1] = d.window[1]
      BY <1>1, <1>3, <2>2
    <3>. QED BY <1>1, <3>1
  <2>. QED BY <2>1, <2>2
<1>11. /\ e.written <= e.reported /\ e.reported <= e.received
       /\ e.received - e.written <= MaxInputBacklog
       /\ \A i \in e.given : i \in 1..e.received
  BY SMTT(30), <1>1, <1>6, BoundAssumption
<1>12. \A i \in 1..e.reported : e.fate[i] # "none"
  BY <1>1, <1>6, <1>7
<1>13. balanced(e)
  BY <1>6, <1>8, <1>9, <1>10, <1>11, <1>12, BalancedIf
<1>. QED BY <1>6, <1>7, <1>13

\* taking a settled prefix does,
LEMMA LedgerTakes ==
  ASSUME NEW d \in Desks, balanced(d), NEW n, n = settledHead(d.window), NEW runs \in Seq(Runs),
         NEW e, e = takenFrom(d, n, runs)
  PROVE  /\ e \in Desks /\ balanced(e) /\ e.judge = d.judge /\ e.received = d.received
         /\ e.runs = runs /\ e.written = d.written /\ e.reported = d.reported + n
         /\ e.fate = d.fate
<1>1. /\ d.received \in Nat /\ d.reported \in Nat /\ d.written \in Nat
      /\ d.window \in Seq(Settled) /\ d.fate \in Seq(Settled) /\ d.given \in SUBSET Nat
      /\ d.written <= d.reported /\ d.reported <= d.received /\ Len(d.fate) = d.received
      /\ d.received - d.written <= MaxInputBacklog
      /\ Len(d.window) = d.received - d.reported
      /\ \A i \in 1..(d.received - d.reported) : d.window[i] = d.fate[d.reported + i]
      /\ \A i \in 1..d.reported : d.fate[i] # "none"
      /\ \A i \in d.given : i \in 1..d.received
  BY DeskFacts
<1>2. /\ n \in 0..Len(d.window) /\ \A i \in 1..n : d.window[i] # "none"
      /\ n < Len(d.window) => d.window[n + 1] = "none"
  BY <1>1, SettledHeadIs
<1>. DEFINE w == SubSeq(d.window, n + 1, Len(d.window))
<1>3. w \in Seq(Settled) /\ Len(w) = Len(d.window) - n
      /\ \A i \in 1..(Len(d.window) - n) : w[i] = d.window[n + i]
  <2>1. d.window \in Seq(Settled) /\ n \in 0..Len(d.window)
    BY <1>1, <1>2
  <2>. QED BY <2>1, DropIs
<1>4. e = [d EXCEPT !.wake = FALSE, !.reported = @ + n, !.window = w, !.runs = runs]
  BY DEF takenFrom
<1>. HIDE DEF w
<1>5. n \in Nat /\ d.reported + n \in Nat
  BY <1>1, <1>2
<1>6. /\ e \in Desks /\ e.judge = d.judge /\ e.received = d.received
      /\ e.runs = runs /\ e.written = d.written /\ e.reported = d.reported + n
      /\ e.window = w /\ e.fate = d.fate /\ e.wake = FALSE /\ e.given = d.given
  BY <1>3, <1>4, <1>5 DEF Desks
<1>7. Len(w) = e.received - e.reported /\ d.reported + n <= d.received
  BY SMTT(30), <1>1, <1>2, <1>3, <1>6
<1>8. \A i \in 1..(e.received - e.reported) : w[i] = d.fate[e.reported + i]
  <2>. TAKE i \in 1..(e.received - e.reported)
  <2>a. e.received - e.reported = Len(d.window) - n
    BY <1>3, <1>7
  <2>1. /\ i \in 1..(Len(d.window) - n) /\ n + i \in 1..(d.received - d.reported)
        /\ d.reported + (n + i) = e.reported + i
    <3>1. i \in 1..(Len(d.window) - n)
      BY <2>a
    <3>2. n \in 0..Len(d.window) /\ Len(d.window) = d.received - d.reported /\ e.reported = d.reported + n
          /\ d.received \in Nat /\ d.reported \in Nat
      BY <1>1, <1>2, <1>6
    <3>. QED BY <3>1, <3>2
  <2>. QED BY <1>1, <1>3, <2>1
<1>9. \A i \in 1..e.reported : d.fate[i] # "none"
  <2>. TAKE i \in 1..e.reported
  <2>1. CASE i <= d.reported
    <3>1. i \in 1..d.reported
      BY <1>1, <2>1
    <3>. QED BY <1>1, <3>1
  <2>2. CASE ~(i <= d.reported)
    <3>1. i - d.reported \in 1..n /\ i - d.reported \in 1..(d.received - d.reported)
          /\ d.reported + (i - d.reported) = i
      BY <1>1, <1>2, <1>6, <2>2
    <3>. QED BY <1>1, <1>2, <3>1
  <2>. QED BY <2>1, <2>2
<1>10. ~(w # <<>> /\ w[1] # "none")
  <2>. SUFFICES ASSUME w # <<>> PROVE w[1] = "none"
    OBVIOUS
  <2>1. Len(w) > 0
    BY <1>3
  <2>2. n < Len(d.window) /\ 1 \in 1..(Len(d.window) - n)
    BY <1>1, <1>2, <1>3, <2>1
  <2>. QED BY <1>2, <1>3, <2>2
<1>11. /\ e.written <= e.reported /\ e.reported <= e.received
       /\ e.received - e.written <= MaxInputBacklog
       /\ \A i \in e.given : i \in 1..e.received
  BY <1>1, <1>5, <1>6, <1>7
<1>12. balanced(e)
  BY SMTT(30), <1>1, <1>6, <1>7, <1>8, <1>9, <1>10, <1>11, BalancedIf
<1>. QED BY <1>6, <1>12

\* and writing a run does.
LEMMA LedgerWrites ==
  ASSUME NEW d \in Desks, balanced(d), d.runs # <<>>, NEW r, r = Head(d.runs).through,
         r > d.written, r <= d.reported, NEW e, e = writtenFrom(d)
  PROVE  /\ e \in Desks /\ balanced(e) /\ e.judge = d.judge /\ e.received = d.received
         /\ e.reported = d.reported /\ e.fate = d.fate
<1>1. /\ d.received \in Nat /\ d.reported \in Nat /\ d.written \in Nat /\ d.runs \in Seq(Runs)
      /\ d.reported <= d.received /\ d.received - d.written <= MaxInputBacklog
  BY DeskFacts
<1>. DEFINE t == Tail(d.runs)
<1>2. r \in Nat /\ t \in Seq(Runs)
  <2>1. Head(d.runs) \in Runs /\ t \in Seq(Runs)
    BY <1>1
  <2>. QED BY <2>1 DEF Runs
<1>3. e = [d EXCEPT !.written = r, !.runs = t]
  BY DEF writtenFrom
<1>. HIDE DEF t
<1>4. /\ e \in Desks /\ e.judge = d.judge /\ e.received = d.received
      /\ e.reported = d.reported /\ e.window = d.window /\ e.fate = d.fate
      /\ e.wake = d.wake /\ e.given = d.given /\ e.written = r
  BY <1>2, <1>3 DEF Desks
<1>5. MaxInputBacklog \in Nat
  BY BoundAssumption
<1>6. d.received - r <= MaxInputBacklog
  BY <1>1, <1>2, <1>5
<1>. QED BY <1>2, <1>4, <1>6 DEF balanced

(***************************************************************************)
(* What is on the way to the broker.                                       *)
(***************************************************************************)
\* Once it has read q, a reader that was at st is at ack and id.
reaches(st, q, k, id) == FoldLeft(atBroker, st, q) = [ack |-> k, id |-> id]

\* An acknowledgement at the end of a queue is one the broker can read.
LEMMA ReachesAck ==
  ASSUME NEW st \in BrokerStates, NEW q \in Seq(Upward), NEW k \in Nat, NEW id \in Nat,
         reaches(st, q, k, id), NEW n \in Nat, n > k
  PROVE  ack(n) \in Upward /\ reaches(st, Append(q, ack(n)), n, id)
<1>1. ack(n) \in Upward /\ ack(n).kind = "ack" /\ ack(n).n = n
  BY DEF ack, Upward
<1>. DEFINE u == [ack |-> k, id |-> id]
            m == ack(n)
<1>2. u \in BrokerStates /\ u.ack = k /\ u.id = id
  BY DEF BrokerStates
<1>3. B!fold(st, q) = u
  BY BrokerFold DEF reaches
<1>4. FoldLeft(atBroker, st, Append(q, m)) = atBroker(u, m)
  BY ZenonT(30), <1>1, <1>3, BrokerFold, B!FoldAppend
<1>. HIDE DEF u, m
<1>5. atBroker(u, m) \in BrokerStates /\ atBroker(u, m).ack = n /\ atBroker(u, m).id = id
  BY <1>1, <1>2, AtBrokerAck DEF m
<1>6. atBroker(u, m) = [ack |-> n, id |-> id]
  BY <1>5 DEF BrokerStates
<1>. QED BY <1>1, <1>4, <1>6 DEF reaches, m

\* So is the next input.
LEMMA ReachesInput ==
  ASSUME NEW st \in BrokerStates, NEW q \in Seq(Upward), NEW k \in Nat, NEW id \in Nat,
         reaches(st, q, k, id), NEW m \in Upward, m.kind = "input", m.n = id + 1, m.seen = k
  PROVE  reaches(st, Append(q, m), k, id + 1)
<1>. DEFINE u == [ack |-> k, id |-> id]
<1>2. u \in BrokerStates /\ u.ack = k /\ u.id = id
  BY DEF BrokerStates
<1>3. B!fold(st, q) = u
  BY BrokerFold DEF reaches
<1>4. FoldLeft(atBroker, st, Append(q, m)) = atBroker(u, m)
  BY ZenonT(30), <1>3, BrokerFold, B!FoldAppend
<1>. HIDE DEF u
<1>5. atBroker(u, m) \in BrokerStates /\ atBroker(u, m).ack = k /\ atBroker(u, m).id = id + 1
  BY <1>2, AtBrokerInput
<1>6. atBroker(u, m) = [ack |-> k, id |-> id + 1]
  BY <1>5 DEF BrokerStates
<1>. QED BY <1>4, <1>6 DEF reaches

\* The head of the queue is in order, and the rest leads where the queue did.
LEMMA ReachesHead ==
  ASSUME NEW a \in Nat, NEW i \in Nat, NEW q \in Seq(Upward), q # <<>>, NEW k \in Nat, NEW id \in Nat,
         reaches(reader(a, i), q, k, id), NEW m, m = Head(q)
  PROVE  /\ m \in Upward
         /\ m.kind = "ack" => m.n > a /\ m.n <= k /\ reaches(reader(m.n, i), Tail(q), k, id)
         /\ m.kind = "input" => m.n = i + 1 /\ m.seen = a /\ m.n <= id
                                /\ reaches(reader(a, i + 1), Tail(q), k, id)
<1>. DEFINE u == reader(a, i)
            t == atBroker(u, m)
<1>1. u \in BrokerStates /\ u.ack = a /\ u.id = i
  BY DEF BrokerStates, reader
<1>2. B!fold(u, q) = [ack |-> k, id |-> id] /\ B!fold(u, q).ack = k /\ B!fold(u, q).id = id
  BY BrokerFold DEF reaches
<1>3. t = atBroker(u, m) /\ B!fold(u, q).ack >= 0
  BY <1>2
<1>. HIDE DEF u, t
<1>4. /\ m \in Upward /\ Tail(q) \in Seq(Upward)
      /\ t \in BrokerStates /\ t.ack >= 0 /\ B!fold(u, q) = B!fold(t, Tail(q))
      /\ m.kind = "ack" => /\ m.n > u.ack /\ m.n <= B!fold(u, q).ack /\ t.ack = m.n /\ t.id = u.id
      /\ m.kind = "input" => /\ m.n = u.id + 1 /\ m.seen = u.ack /\ m.n <= B!fold(u, q).id
                             /\ t.ack = u.ack /\ t.id = m.n
  BY <1>1, <1>3, BrokerHead
<1>5. FoldLeft(atBroker, t, Tail(q)) = [ack |-> k, id |-> id]
  BY <1>2, <1>4, BrokerFold
<1>6. CASE m.kind = "ack"
  <2>1. t = reader(m.n, i)
    BY <1>1, <1>4, <1>6 DEF BrokerStates, reader
  <2>. QED BY <1>1, <1>2, <1>4, <1>5, <1>6, <2>1 DEF reaches
<1>7. CASE m.kind = "input"
  <2>1. t = reader(a, i + 1)
    BY <1>1, <1>4, <1>7 DEF BrokerStates, reader
  <2>. QED BY <1>1, <1>2, <1>4, <1>5, <1>7, <2>1 DEF reaches
<1>. QED BY <1>4, <1>6, <1>7, UpwardFacts

\* What the broker will have read, in terms of its positions.
LEMMA DepartsIs ==
  Departs <=> /\ reaches(theBroker, net.req, front.receipted, front.inputsRelayed)
              /\ reaches(theRelay, net.up, page.acked, page.sent)
BY DEF Departs, reaches

\* It depends on the queues and the positions alone.
LEMMA DepartsKept ==
  ASSUME Departs, net'.req = net.req, net'.up = net.up, fresh'.receipted = fresh.receipted,
         desk'.received = desk.received, front'.acked = front.acked,
         front'.receipted = front.receipted, front'.inputsRelayed = front.inputsRelayed,
         page'.acked = page.acked, page'.sent = page.sent
  PROVE  Departs'
BY DEF Departs, theBroker, theRelay

\* The broker takes the head of its queue.
LEMMA ReqHead ==
  ASSUME Shapes, Departs, net.req # <<>>, NEW m, m = Head(net.req)
  PROVE  /\ m \in Upward
         /\ m.kind = "ack" => m.n > fresh.receipted /\ m.n <= front.receipted
         /\ m.kind = "input" => m.n = desk.received + 1 /\ m.seen = fresh.receipted
<1>1. /\ net.req \in Seq(Upward) /\ fresh.receipted \in Nat /\ desk.received \in Nat
      /\ front.receipted \in Nat /\ front.inputsRelayed \in Nat
      /\ reaches(reader(fresh.receipted, desk.received), net.req, front.receipted, front.inputsRelayed)
  BY ShapeFacts, DepartsIs DEF theBroker
<1>. QED BY <1>1, ReachesHead

\* Reading the head of its queue changes nothing of what the broker will have
\* read.
LEMMA DepartsRead ==
  ASSUME Shapes, Departs, net.req # <<>>, NEW m, m = Head(net.req),
         net'.req = Tail(net.req), net'.up = net.up,
         \/ /\ m.kind = "ack" /\ fresh'.receipted = m.n /\ desk'.received = desk.received
         \/ /\ m.kind = "input" /\ fresh'.receipted = fresh.receipted /\ desk'.received = desk.received + 1,
         UNCHANGED <<front, page>>
  PROVE  Departs'
<1>1. reaches(theBroker, net.req, front.receipted, front.inputsRelayed)
      /\ reaches(theRelay, net.up, page.acked, page.sent)
  BY DepartsIs
<1>2. reaches(theBroker', Tail(net.req), front.receipted, front.inputsRelayed)
  <2>1. /\ net.req \in Seq(Upward) /\ fresh.receipted \in Nat /\ desk.received \in Nat
        /\ front.receipted \in Nat /\ front.inputsRelayed \in Nat
        /\ reaches(reader(fresh.receipted, desk.received), net.req, front.receipted, front.inputsRelayed)
    BY <1>1, ShapeFacts DEF theBroker
  <2>. DEFINE a == fresh.receipted
              i == desk.received
  <2>2. /\ m.kind = "ack" => reaches(reader(m.n, i), Tail(net.req), front.receipted, front.inputsRelayed)
        /\ m.kind = "input" => reaches(reader(a, i + 1), Tail(net.req), front.receipted, front.inputsRelayed)
    BY SMTT(30), <2>1, ReachesHead
  <2>3. theBroker' = reader(fresh'.receipted, desk'.received)
    BY DEF theBroker, reader
  <2>. QED BY <2>2, <2>3
<1>. QED BY <1>1, <1>2 DEF Departs, reaches, theRelay

\* The relay takes the head of what the page sends.
LEMMA UpHead ==
  ASSUME Shapes, Departs, net.up # <<>>, NEW m, m = Head(net.up)
  PROVE  /\ m \in Upward
         /\ m.kind = "ack" => m.n > front.acked /\ m.n <= page.acked
         /\ m.kind = "input" => m.n = front.inputsRelayed + 1 /\ m.seen = front.acked
<1>1. /\ net.up \in Seq(Upward) /\ front.acked \in Nat /\ front.inputsRelayed \in Nat
      /\ page.acked \in Nat /\ page.sent \in Nat
      /\ reaches(reader(front.acked, front.inputsRelayed), net.up, page.acked, page.sent)
  BY ShapeFacts, DepartsIs DEF theRelay
<1>. QED BY SMTT(30), <1>1, ReachesHead

\* An acknowledgement, with a receipt of it or without.
LEMMA DepartsAcked ==
  ASSUME Shapes, Departs, front.receipted <= front.acked, net.up # <<>>, NEW m, m = Head(net.up),
         m.kind = "ack", net'.up = Tail(net.up), front'.acked = m.n,
         front'.inputsRelayed = front.inputsRelayed,
         \/ /\ front'.receipted = m.n /\ net'.req = Append(net.req, ack(m.n))
         \/ /\ front'.receipted = front.receipted /\ net'.req = net.req,
         UNCHANGED <<fresh, desk, page>>
  PROVE  Departs'
<1>1. reaches(theBroker, net.req, front.receipted, front.inputsRelayed)
      /\ reaches(theRelay, net.up, page.acked, page.sent)
  BY DepartsIs
<1>2. m.n \in Nat /\ m.n > front.acked /\ reaches(theRelay', Tail(net.up), page.acked, page.sent)
  <2>1. /\ net.up \in Seq(Upward) /\ front.acked \in Nat /\ front.inputsRelayed \in Nat
        /\ page.acked \in Nat /\ page.sent \in Nat
        /\ reaches(reader(front.acked, front.inputsRelayed), net.up, page.acked, page.sent)
    BY <1>1, ShapeFacts DEF theRelay
  <2>2. /\ m \in Upward /\ m.n > front.acked
        /\ reaches(reader(m.n, front.inputsRelayed), Tail(net.up), page.acked, page.sent)
    BY <2>1, ReachesHead
  <2>3. theRelay' = reader(m.n, front.inputsRelayed)
    BY DEF theRelay, reader
  <2>. QED BY <2>2, <2>3, UpwardFacts
<1>3. theBroker \in BrokerStates /\ m.n > front.receipted
  BY SMTT(30), <1>2, ShapeFacts, DepartsStates
<1>4. reaches(theBroker, net'.req, front'.receipted, front.inputsRelayed)
  <2>1. reaches(theBroker, Append(net.req, ack(m.n)), m.n, front.inputsRelayed)
    BY <1>1, <1>2, <1>3, ShapeFacts, ReachesAck
  <2>. QED BY <1>1, <2>1
<1>. QED BY <1>2, <1>4 DEF Departs, reaches, theBroker

\* An input, after a receipt when one is due.
LEMMA DepartsTyped ==
  ASSUME Shapes, Departs, front.receipted <= front.acked, net.up # <<>>, NEW m, m = Head(net.up),
         m.kind = "input", net'.up = Tail(net.up), front'.acked = front.acked,
         front'.inputsRelayed = front.inputsRelayed + 1, front'.receipted = front.acked,
         \/ /\ front.acked > front.receipted
            /\ net'.req = Append(Append(net.req, ack(front.acked)), m)
         \/ /\ front.acked = front.receipted /\ net'.req = Append(net.req, m),
         UNCHANGED <<fresh, desk, page>>
  PROVE  Departs'
<1>1. reaches(theBroker, net.req, front.receipted, front.inputsRelayed)
      /\ reaches(theRelay, net.up, page.acked, page.sent)
  BY DepartsIs
<1>2. /\ m \in Upward /\ m.n = front.inputsRelayed + 1 /\ m.seen = front.acked
      /\ reaches(theRelay', Tail(net.up), page.acked, page.sent)
  <2>1. /\ net.up \in Seq(Upward) /\ front.acked \in Nat /\ front.inputsRelayed \in Nat
        /\ page.acked \in Nat /\ page.sent \in Nat
        /\ reaches(reader(front.acked, front.inputsRelayed), net.up, page.acked, page.sent)
    BY <1>1, ShapeFacts DEF theRelay
  <2>2. /\ m \in Upward /\ m.n = front.inputsRelayed + 1 /\ m.seen = front.acked
        /\ reaches(reader(front.acked, front.inputsRelayed + 1), Tail(net.up), page.acked, page.sent)
    BY SMTT(30), <2>1, ReachesHead
  <2>3. theRelay' = reader(front.acked, front.inputsRelayed + 1)
    BY DEF theRelay, reader
  <2>. QED BY <2>2, <2>3
<1>3. theBroker \in BrokerStates
  BY DepartsStates
<1>. DEFINE q == Append(net.req, ack(front.acked))
<1>4. CASE front.acked > front.receipted /\ net'.req = Append(q, m)
  <2>1. reaches(theBroker, q, front.acked, front.inputsRelayed) /\ ack(front.acked) \in Upward
    BY <1>1, <1>3, <1>4, ShapeFacts, ReachesAck
  <2>2. q \in Seq(Upward)
    BY <2>1, ShapeFacts
  <2>. HIDE DEF q
  <2>3. reaches(theBroker, net'.req, front.acked, front.inputsRelayed + 1)
    BY ZenonT(30), <1>2, <1>3, <1>4, <2>1, <2>2, ShapeFacts, ReachesInput
  <2>. QED BY <1>2, <2>3 DEF Departs, reaches, theBroker
<1>5. CASE front.acked = front.receipted /\ net'.req = Append(net.req, m)
  <2>1. reaches(theBroker, net'.req, front.acked, front.inputsRelayed + 1)
    BY <1>1, <1>2, <1>3, <1>5, ShapeFacts, ReachesInput
  <2>. QED BY <1>2, <2>1 DEF Departs, reaches, theBroker
<1>. QED BY <1>4, <1>5

\* What the page sends extends what the broker will have read.
LEMMA DepartsActs ==
  ASSUME Shapes, Departs, net'.req = net.req,
         \/ /\ page.acked < page.got /\ page'.acked = page.got /\ page'.sent = page.sent
            /\ net'.up = Append(net.up, ack(page.got))
         \/ /\ page'.acked = page.acked /\ page'.sent = page.sent + 1
            /\ net'.up = Append(net.up, input(page.sent + 1, page.acked)),
         UNCHANGED <<fresh, desk, front>>
  PROVE  Departs'
<1>1. reaches(theBroker, net.req, front.receipted, front.inputsRelayed)
      /\ reaches(theRelay, net.up, page.acked, page.sent)
  BY DepartsIs
<1>2. theRelay \in BrokerStates /\ page.got \in Nat /\ page.acked \in Nat /\ page.sent \in Nat
      /\ net.up \in Seq(Upward)
  BY ShapeFacts, DepartsStates
<1>3. reaches(theRelay, net'.up, page'.acked, page'.sent)
  <2>1. CASE page.acked < page.got /\ page'.acked = page.got /\ page'.sent = page.sent
             /\ net'.up = Append(net.up, ack(page.got))
    BY <1>1, <1>2, <2>1, ReachesAck
  <2>2. CASE page'.acked = page.acked /\ page'.sent = page.sent + 1
             /\ net'.up = Append(net.up, input(page.sent + 1, page.acked))
    <3>. DEFINE m == input(page.sent + 1, page.acked)
    <3>1. m \in Upward /\ m.kind = "input" /\ m.n = page.sent + 1 /\ m.seen = page.acked
      BY <1>2 DEF input, Upward
    <3>. HIDE DEF m
    <3>2. reaches(theRelay, Append(net.up, m), page.acked, page.sent + 1)
      BY <1>1, <1>2, <3>1, ReachesInput
    <3>. QED BY <2>2, <3>2 DEF m
  <2>. QED BY <2>1, <2>2
<1>. QED BY <1>1, <1>3 DEF Departs, reaches, theBroker, theRelay

(***************************************************************************)
(* The flow window.                                                        *)
(***************************************************************************)
LEMMA Totals ==
  ASSUME NEW s \in Seq(Int)
  PROVE  /\ total(s) \in Int
         /\ \A x \in Int : total(Append(s, x)) = total(s) + x
         /\ (\A i \in 1..Len(s) : s[i] > 0) => total(s) >= 0 /\ (total(s) = 0 <=> s = <<>>)
<1>1. N!fold(0, s) \in Int
  BY N!FoldStays
<1>2. \A x \in Int : N!fold(0, Append(s, x)) = N!fold(0, s) + x
  BY N!FoldAppend
<1>. DEFINE Good(u) == (\A i \in 1..Len(u) : u[i] > 0) =>
                         N!fold(0, u) \in Nat /\ (N!fold(0, u) = 0 <=> u = <<>>)
            T == {u \in Seq(Int) : Good(u)}
<1>3. <<>> \in T
  BY N!FoldEmpty
<1>4. \A u \in Seq(Int), x \in Int : u \in T => Append(u, x) \in T
  <2>. TAKE u \in Seq(Int), x \in Int
  <2>. DEFINE a == Append(u, x)
  <2>. SUFFICES ASSUME Good(u) PROVE Good(a)
    <3>1. a \in Seq(Int)
      OBVIOUS
    <3>. HIDE DEF Good
    <3>. QED BY <3>1
  <2>. SUFFICES ASSUME \A i \in 1..Len(a) : a[i] > 0
                PROVE  N!fold(0, a) \in Nat /\ (N!fold(0, a) = 0 <=> a = <<>>)
    <3>. HIDE DEF a
    <3>. QED OBVIOUS
  <2>1. /\ a \in Seq(Int) /\ Len(a) = Len(u) + 1 /\ a[Len(u) + 1] = x
        /\ Len(u) \in Nat /\ \A i \in 1..Len(u) : a[i] = u[i]
    OBVIOUS
  <2>. HIDE DEF a
  <2>2. x > 0 /\ \A i \in 1..Len(u) : u[i] > 0
    <3>1. Len(u) + 1 \in 1..Len(a) /\ \A i \in 1..Len(u) : i \in 1..Len(a)
      BY <2>1
    <3>2. \A i \in 1..Len(a) : a[i] > 0
      BY DEF a
    <3>. QED BY <2>1, <3>1, <3>2
  <2>3. N!fold(0, u) \in Nat
    BY <2>2
  <2>4. N!fold(0, a) = N!fold(0, u) + x
    BY N!FoldAppend DEF a
  <2>5. a # <<>>
    BY <2>1
  <2>. QED BY <2>2, <2>3, <2>4, <2>5
<1>5. s \in T
  <2>. HIDE DEF T
  <2>. QED BY <1>3, <1>4, N!SequenceInduct
<1>6. total(s) = N!fold(0, s) /\ \A x : total(Append(s, x)) = N!fold(0, Append(s, x))
  BY TotalFold
<1>7. (\A i \in 1..Len(s) : s[i] > 0) => total(s) >= 0 /\ (total(s) = 0 <=> s = <<>>)
  BY <1>5, <1>6
<1>. QED BY <1>1, <1>2, <1>6, <1>7

\* A total from a start is the start and the total.
LEMMA TotalShift ==
  ASSUME NEW v \in Int, NEW s \in Seq(Int)
  PROVE  N!fold(v, s) = v + N!fold(0, s)
<1>. DEFINE T == {u \in Seq(Int) : N!fold(v, u) = v + N!fold(0, u)}
<1>1. <<>> \in T
  BY N!FoldEmpty
<1>2. \A u \in Seq(Int), x \in Int : u \in T => Append(u, x) \in T
  <2>. TAKE u \in Seq(Int), x \in Int
  <2>1. N!fold(v, Append(u, x)) = N!fold(v, u) + x /\ N!fold(0, Append(u, x)) = N!fold(0, u) + x
    BY N!FoldAppend
  <2>2. N!fold(v, u) \in Int /\ N!fold(0, u) \in Int
    BY N!FoldStays
  <2>. QED BY <2>1, <2>2
<1>3. s \in T
  <2>. HIDE DEF T
  <2>. QED BY <1>1, <1>2, N!SequenceInduct
<1>. QED BY <1>3

\* What is taken off the front of a sequence is taken off its total.
LEMMA TotalSplit ==
  ASSUME NEW s \in Seq(Int), NEW k \in 0..Len(s)
  PROVE  /\ SubSeq(s, 1, k) \in Seq(Int) /\ SubSeq(s, k + 1, Len(s)) \in Seq(Int)
         /\ total(s) = total(SubSeq(s, 1, k)) + total(SubSeq(s, k + 1, Len(s)))
<1>. DEFINE a == SubSeq(s, 1, k)
            b == SubSeq(s, k + 1, Len(s))
<1>1. b \in Seq(Int) /\ Len(b) = Len(s) - k /\ \A i \in 1..(Len(s) - k) : b[i] = s[k + i]
  BY DropIs
<1>2. a \in Seq(Int)
  OBVIOUS
<1>3. a \o b = s
  <2>1. k \in Nat /\ Len(s) \in Nat /\ k <= Len(s)
    OBVIOUS
  <2>2. a \o b = SubSeq(s, 1, Len(s))
    <3>. HIDE DEF b
    <3>. QED BY SMTT(30), <1>1, <2>1, SubSeqJoin
  <2>. QED BY <2>2, SubSeqFull
<1>. HIDE DEF a, b
<1>4. N!fold(0, a \o b) = N!fold(N!fold(0, a), b)
  BY <1>1, <1>2, N!FoldConcat
<1>5. N!fold(0, a) \in Int
  BY <1>2, N!FoldStays
<1>6. total(s) = total(a) + total(b)
  BY <1>1, <1>3, <1>4, <1>5, TotalShift, TotalFold
<1>. QED BY <1>1, <1>2, <1>6 DEF a, b

\* The sizes of the records and their maximum.
LEMMA SizesBounded ==
  /\ MaxSize \in Nat /\ MaxSize >= 1
  /\ \A n \in records : Sizes[n] \in Nat /\ Sizes[n] > 0 /\ Sizes[n] <= MaxSize
<1>. DEFINE T == {u \in Seq(Int) : \E b \in Nat : \A i \in 1..Len(u) : u[i] <= b}
<1>1. <<>> \in T
  OBVIOUS
<1>2. \A u \in Seq(Int), x \in Int : u \in T => Append(u, x) \in T
  <2>. TAKE u \in Seq(Int), x \in Int
  <2>. SUFFICES ASSUME u \in T PROVE Append(u, x) \in T
    OBVIOUS
  <2>. DEFINE a == Append(u, x)
  <2>1. /\ a \in Seq(Int) /\ Len(a) = Len(u) + 1 /\ a[Len(u) + 1] = x
        /\ Len(u) \in Nat /\ \A i \in 1..Len(u) : a[i] = u[i] /\ u[i] \in Int
    OBVIOUS
  <2>. HIDE DEF a
  <2>2. PICK b \in Nat : \A i \in 1..Len(u) : u[i] <= b
    OBVIOUS
  <2>3. PICK c \in Nat : c >= b /\ c >= x
    <3>1. CASE x <= b
      BY <3>1
    <3>2. CASE ~(x <= b)
      <4>1. x \in Nat /\ x >= b
        BY <3>2
      <4>. QED BY <4>1
    <3>. QED BY <3>1, <3>2
  <2>4. \A i \in 1..Len(a) : a[i] <= c
    <3>. TAKE i \in 1..Len(a)
    <3>1. i \in 1..Len(u) \/ i = Len(u) + 1
      BY <2>1
    <3>. QED BY SMTT(30), <2>1, <2>2, <2>3, <3>1
  <2>. QED BY <2>1, <2>4 DEF a
<1>3. Sizes \in Seq(Nat \ {0}) /\ Sizes \in Seq(Int)
  BY SceneAssumption
<1>4. Sizes \in T
  <2>. HIDE DEF T
  <2>. QED BY <1>1, <1>2, <1>3, N!SequenceInduct
<1>5. PICK b \in Nat : \A i \in 1..Len(Sizes) : Sizes[i] <= b
  BY <1>4
<1>. DEFINE U == Range(Sizes) \cup {1}
<1>6. \A i \in 1..Len(Sizes) : Sizes[i] \in Nat /\ Sizes[i] > 0
  BY <1>3
<1>7. U \in SUBSET (0..(b + 1)) /\ 1 \in U /\ b + 1 \in Nat /\ \A i \in 1..Len(Sizes) : Sizes[i] \in U
  <2>1. DOMAIN Sizes = 1..Len(Sizes)
    BY <1>3
  <2>. QED BY <1>5, <1>6, <2>1 DEF Range
<1>8. Max(U) \in U /\ \A y \in U : y <= Max(U)
  <2>. HIDE DEF U
  <2>. QED BY <1>7, MaxIs
<1>9. MaxSize = Max(U)
  BY DEF MaxSize
<1>. HIDE DEF U
<1>10. MaxSize \in Nat /\ MaxSize >= 1
  <2>1. Max(U) \in 0..(b + 1) /\ 1 <= Max(U)
    BY <1>7, <1>8
  <2>. QED BY <1>9, <2>1
<1>11. \A n \in records : Sizes[n] <= MaxSize
  BY <1>7, <1>8, <1>9 DEF records
<1>. QED BY <1>6, <1>10, <1>11 DEF records

\* The fields of the relay.
LEMMA FrontFacts ==
  ASSUME NEW f \in Fronts, flowing(f)
  PROVE  /\ f.sizes \in Seq(Int) /\ f.sent \in Nat /\ f.acked \in Nat /\ f.inflight \in Int
         /\ f.armed \in BOOLEAN /\ f.deadline \in Nat /\ f.acknowledged \in Nat /\ f.receipted \in Nat
         /\ f.receiptSent \in Int /\ f.inputsRelayed \in Nat /\ f.inputsSettled \in Nat
         /\ f.inflight = total(f.sizes) /\ Len(f.sizes) = f.sent - f.acked
         /\ \A i \in 1..Len(f.sizes) : f.sizes[i] > 0
         /\ f.inflight < FlowWindow + MaxSize /\ f.inflight >= 0
         /\ (f.armed <=> f.inflight > 0)
         /\ f.acknowledged = f.acked /\ f.receipted <= f.acked
<1>1. /\ f.sizes \in Seq(Int) /\ f.sent \in Nat /\ f.acked \in Nat /\ f.inflight \in Int
      /\ f.armed \in BOOLEAN /\ f.deadline \in Nat /\ f.acknowledged \in Nat /\ f.receipted \in Nat
      /\ f.receiptSent \in Int /\ f.inputsRelayed \in Nat /\ f.inputsSettled \in Nat
  BY DEF Fronts
<1>2. /\ f.inflight = total(f.sizes) /\ Len(f.sizes) = f.sent - f.acked
      /\ \A i \in 1..Len(f.sizes) : f.sizes[i] > 0
      /\ f.inflight < FlowWindow + MaxSize
      /\ (f.armed <=> f.inflight > 0)
      /\ f.acknowledged = f.acked /\ f.receipted <= f.acked
  BY DEF flowing
<1>3. f.inflight >= 0
  BY <1>1, <1>2, Totals
<1>. QED BY <1>1, <1>2, <1>3

\* Only the sizes and the clock differ; the clock runs when something is out.
clocked(e, f) ==
  /\ e.sizes = f.sizes /\ e.sent = f.sent /\ e.acked = f.acked /\ e.inflight = f.inflight
  /\ e.acknowledged = f.acknowledged /\ e.receipted = f.receipted
  /\ e.inputsRelayed = f.inputsRelayed /\ e.inputsSettled = f.inputsSettled

\* Starting the stall clock arms it.
LEMMA OutstandingIs ==
  ASSUME NEW f \in Fronts, now \in Nat, NEW e, e = outstanding(f)
  PROVE  e \in Fronts /\ clocked(e, f) /\ e.armed
<1>1. now + StallTimeout \in Nat
  BY ClockAssumption
<1>2. CASE f.armed
  BY <1>2 DEF outstanding, clocked
<1>3. CASE ~f.armed
  <2>. DEFINE d == now + StallTimeout
  <2>1. e = [f EXCEPT !.armed = TRUE, !.deadline = d]
    BY <1>3 DEF outstanding
  <2>. HIDE DEF d
  <2>. QED BY <1>1, <2>1 DEF Fronts, clocked, d
<1>. QED BY <1>2, <1>3

\* Progress re-arms the stall clock exactly when frames are in flight.
LEMMA ProgressedIs ==
  ASSUME NEW f \in Fronts, now \in Nat, NEW e, e = progressed(f)
  PROVE  e \in Fronts /\ clocked(e, f) /\ (e.armed <=> f.inflight > 0)
<1>. DEFINE s == [f EXCEPT !.armed = FALSE]
<1>1. s \in Fronts /\ clocked(s, f) /\ ~s.armed
  BY DEF Fronts, clocked
<1>2. e = IF f.inflight > 0 THEN outstanding(s) ELSE s
  BY DEF progressed
<1>. HIDE DEF s
<1>3. CASE f.inflight > 0
  <2>1. e = outstanding(s)
    BY <1>2, <1>3
  <2>. QED BY <1>1, <1>3, <2>1, OutstandingIs DEF clocked
<1>4. CASE ~(f.inflight > 0)
  BY <1>1, <1>2, <1>4
<1>. QED BY <1>3, <1>4

\* A frame relayed to the page enters the window.
LEMMA RelayedIs ==
  ASSUME NEW f \in Fronts, flowing(f), f.inflight < FlowWindow, now \in Nat,
         NEW size \in Nat, size > 0, size <= MaxSize, NEW e, e = relayed(f, size)
  PROVE  /\ e \in Fronts /\ flowing(e) /\ e.inflight # 0
         /\ e.sent = f.sent + 1 /\ e.acked = f.acked /\ e.receipted = f.receipted
         /\ e.inputsRelayed = f.inputsRelayed /\ e.inputsSettled = f.inputsSettled
<1>. DEFINE s == Append(f.sizes, size)
            g == [f EXCEPT !.sizes = s, !.sent = @ + 1, !.inflight = @ + size]
<1>0. /\ f.sizes \in Seq(Int) /\ f.sent \in Nat /\ f.acked \in Nat /\ f.inflight \in Int
      /\ f.inflight = total(f.sizes) /\ Len(f.sizes) = f.sent - f.acked
      /\ \A i \in 1..Len(f.sizes) : f.sizes[i] > 0
      /\ f.inflight >= 0 /\ f.acknowledged = f.acked /\ f.receipted <= f.acked
  BY FrontFacts
<1>1. /\ s \in Seq(Int) /\ Len(s) = Len(f.sizes) + 1 /\ total(s) = total(f.sizes) + size
      /\ \A i \in 1..Len(s) : s[i] > 0
  <2>1. f.sizes \in Seq(Int) /\ size \in Int
    BY <1>0
  <2>2. /\ s \in Seq(Int) /\ Len(s) = Len(f.sizes) + 1 /\ s[Len(f.sizes) + 1] = size
        /\ Len(f.sizes) \in Nat /\ \A i \in 1..Len(f.sizes) : s[i] = f.sizes[i]
    BY <2>1
  <2>3. total(s) = total(f.sizes) + size
    BY <2>1, Totals
  <2>. HIDE DEF s
  <2>4. \A i \in 1..Len(s) : s[i] > 0
    <3>. TAKE i \in 1..Len(s)
    <3>1. i \in 1..Len(f.sizes) \/ i = Len(f.sizes) + 1
      BY <2>2
    <3>. QED BY <1>0, <2>2, <3>1
  <2>. QED BY <2>2, <2>3, <2>4
<1>2. e = outstanding(g)
  BY DEF relayed
<1>. HIDE DEF s
<1>3. f.sent + 1 \in Nat /\ f.inflight + size \in Int
  BY <1>0
<1>4. /\ g \in Fronts /\ g.sizes = s /\ g.sent = f.sent + 1 /\ g.inflight = f.inflight + size
      /\ g.acked = f.acked /\ g.acknowledged = f.acknowledged /\ g.receipted = f.receipted
      /\ g.inputsRelayed = f.inputsRelayed /\ g.inputsSettled = f.inputsSettled
  BY <1>1, <1>3 DEF Fronts
<1>. HIDE DEF g
<1>5. e \in Fronts /\ clocked(e, g) /\ e.armed
  BY <1>2, <1>4, OutstandingIs
<1>6. /\ e.sizes = s /\ e.sent = f.sent + 1 /\ e.inflight = f.inflight + size
      /\ e.acked = f.acked /\ e.acknowledged = f.acked /\ e.receipted = f.receipted
      /\ e.inputsRelayed = f.inputsRelayed /\ e.inputsSettled = f.inputsSettled
  BY <1>0, <1>4, <1>5 DEF clocked
<1>7. f.inflight + size < FlowWindow + MaxSize /\ f.inflight + size > 0
  BY <1>0, SizesBounded, BoundAssumption
<1>8. Len(s) = (f.sent + 1) - f.acked
  BY <1>0, <1>1
<1>9. flowing(e)
  BY <1>0, <1>1, <1>5, <1>6, <1>7, <1>8 DEF flowing
<1>. QED BY <1>0, <1>5, <1>6, <1>7, <1>9

\* Acknowledged frames leave the window.
LEMMA AckedIs ==
  ASSUME NEW f \in Fronts, flowing(f), now \in Nat, NEW n \in Nat, n > f.acked, n <= f.sent,
         NEW e, e = acked(f, n)
  PROVE  /\ e \in Fronts /\ flowing(e) /\ e.acked = n /\ e.acknowledged = n
         /\ e.sent = f.sent /\ e.receipted = f.receipted
         /\ e.inputsRelayed = f.inputsRelayed /\ e.inputsSettled = f.inputsSettled
<1>. DEFINE k == n - f.acked
            a == SubSeq(f.sizes, 1, k)
            b == SubSeq(f.sizes, k + 1, Len(f.sizes))
            g == [f EXCEPT !.acked = n, !.sizes = b, !.inflight = @ - total(a), !.acknowledged = n]
<1>0. /\ f.sizes \in Seq(Int) /\ f.sent \in Nat /\ f.acked \in Nat /\ f.inflight \in Int
      /\ f.inflight = total(f.sizes) /\ Len(f.sizes) = f.sent - f.acked
      /\ \A i \in 1..Len(f.sizes) : f.sizes[i] > 0
      /\ f.inflight < FlowWindow + MaxSize
      /\ f.inflight >= 0 /\ f.acknowledged = f.acked /\ f.receipted <= f.acked /\ f.receipted \in Nat
  BY FrontFacts
<1>1. e = progressed(g)
  BY DEF acked
<1>2. k \in 0..Len(f.sizes) /\ k \in Nat
  BY <1>0
<1>3. a \in Seq(Int) /\ b \in Seq(Int) /\ total(f.sizes) = total(a) + total(b)
  <2>. HIDE DEF k
  <2>. QED BY <1>0, <1>2, TotalSplit
<1>4. Len(a) = k /\ (\A i \in 1..k : a[i] > 0) /\ Len(b) = Len(f.sizes) - k /\ (\A i \in 1..Len(b) : b[i] > 0)
  <2>. HIDE DEF k
  <2>1. Len(a) = k /\ \A i \in 1..k : a[i] = f.sizes[i]
    BY <1>0, <1>2
  <2>2. Len(b) = Len(f.sizes) - k /\ \A i \in 1..(Len(f.sizes) - k) : b[i] = f.sizes[k + i]
    BY <1>0, <1>2, DropIs
  <2>. HIDE DEF a, b
  <2>3. \A i \in 1..k : i \in 1..Len(f.sizes)
    BY <1>0, <1>2
  <2>4. \A i \in 1..(Len(f.sizes) - k) : k + i \in 1..Len(f.sizes)
    BY <1>0, <1>2
  <2>. QED BY <1>0, <2>1, <2>2, <2>3, <2>4
<1>. HIDE DEF a, b
<1>5. total(a) \in Int /\ total(a) >= 0 /\ total(b) \in Int
  BY <1>3, <1>4, Totals
<1>. DEFINE h == f.inflight - total(a)
<1>6. h \in Int /\ h = total(b) /\ h < FlowWindow + MaxSize
  BY SMTT(30), <1>0, <1>3, <1>5, SizesBounded, BoundAssumption
<1>7. g = [f EXCEPT !.acked = n, !.sizes = b, !.inflight = h, !.acknowledged = n]
  OBVIOUS
<1>. HIDE DEF g, h
<1>8. /\ g \in Fronts /\ g.sizes = b /\ g.sent = f.sent /\ g.inflight = h /\ g.acked = n
      /\ g.acknowledged = n /\ g.receipted = f.receipted
      /\ g.inputsRelayed = f.inputsRelayed /\ g.inputsSettled = f.inputsSettled
  BY <1>3, <1>6, <1>7 DEF Fronts
<1>9. e \in Fronts /\ clocked(e, g) /\ (e.armed <=> h > 0)
  BY <1>1, <1>8, ProgressedIs
<1>10. /\ e.sizes = b /\ e.sent = f.sent /\ e.inflight = h /\ e.acked = n
       /\ e.acknowledged = n /\ e.receipted = f.receipted
       /\ e.inputsRelayed = f.inputsRelayed /\ e.inputsSettled = f.inputsSettled
  BY <1>8, <1>9 DEF clocked
<1>11. Len(b) = f.sent - n /\ f.receipted <= n
  BY SMTT(30), <1>0, <1>4
<1>12. flowing(e)
  BY <1>4, <1>6, <1>9, <1>10, <1>11 DEF flowing
<1>. QED BY <1>9, <1>10, <1>12

\* A receipt of all that is acknowledged; then, perhaps, an input.
LEMMA ReceiptIs ==
  ASSUME NEW f \in Fronts, flowing(f), now \in Nat,
         NEW e, e = receiptOf(f) \/ e = [receiptOf(f) EXCEPT !.inputsRelayed = @ + 1]
  PROVE  /\ e \in Fronts /\ flowing(e) /\ e.acked = f.acked /\ e.receipted = f.acked
         /\ e.sent = f.sent /\ e.inputsSettled = f.inputsSettled
         /\ e = receiptOf(f) => e.inputsRelayed = f.inputsRelayed
         /\ e # receiptOf(f) => e.inputsRelayed = f.inputsRelayed + 1
<1>1. f.acknowledged \in Nat /\ now \in Int /\ f.inputsRelayed + 1 \in Nat /\ f.acknowledged = f.acked
      /\ f.acked \in Nat
  BY FrontFacts
<1>. DEFINE g == receiptOf(f)
<1>2. /\ g \in Fronts /\ g.sizes = f.sizes /\ g.sent = f.sent /\ g.inflight = f.inflight
      /\ g.acked = f.acked /\ g.acknowledged = f.acknowledged /\ g.receipted = f.acked
      /\ g.armed = f.armed /\ g.inputsRelayed = f.inputsRelayed /\ g.inputsSettled = f.inputsSettled
  BY <1>1 DEF Fronts, receiptOf
<1>3. flowing(g)
  <2>. HIDE DEF g
  <2>. QED BY <1>1, <1>2 DEF flowing
<1>. HIDE DEF g
<1>4. CASE e = g
  BY <1>2, <1>3, <1>4 DEF g
<1>5. CASE e = [g EXCEPT !.inputsRelayed = @ + 1]
  <2>1. /\ e \in Fronts /\ e.sizes = f.sizes /\ e.sent = f.sent /\ e.inflight = f.inflight
        /\ e.acked = f.acked /\ e.acknowledged = f.acknowledged /\ e.receipted = f.acked
        /\ e.armed = f.armed /\ e.inputsRelayed = f.inputsRelayed + 1 /\ e.inputsSettled = f.inputsSettled
    BY <1>1, <1>2, <1>5 DEF Fronts
  <2>2. flowing(e)
    BY <1>1, <2>1 DEF flowing
  <2>3. e # g
    BY <1>1, <1>2, <2>1, FrontFacts
  <2>. QED BY <2>1, <2>2, <2>3 DEF g
<1>. QED BY <1>4, <1>5 DEF g

(***************************************************************************)
(* What the receipts cover.                                                *)
(***************************************************************************)
\* It covers as much with more frames, of this wire or of a longer one.
LEMMA HoldsOn ==
  ASSUME NEW wire, NEW more, NEW n \in Nat, NEW k \in Nat, NEW l \in Nat, k <= l,
         holds(wire, n, k), \A i \in 1..k : more[i] = wire[i]
  PROVE  holds(more, n, l)
<1>. SUFFICES ASSUME NEW r \in 1..n PROVE \E i \in 1..l : more[i] = r
  BY DEF holds
<1>1. PICK i \in 1..k : wire[i] = r
  BY DEF holds
<1>2. i \in 1..l /\ more[i] = r
  BY <1>1
<1>. QED BY <1>2

\* The fields of the gate.
LEMMA GateFacts ==
  ASSUME NEW f \in Gates
  PROVE  /\ f.marks \in Seq(Delivered) /\ f.receipted \in Nat /\ f.consumed \in Nat
         /\ f.paused \in BOOLEAN /\ f.refusedAt \in Nat
         /\ \A i \in 1..Len(f.marks) : f.marks[i].frames \in Nat /\ f.marks[i].sequence \in Nat
<1>1. /\ f.marks \in Seq(Delivered) /\ f.receipted \in Nat /\ f.consumed \in Nat
      /\ f.paused \in BOOLEAN /\ f.refusedAt \in Nat
  BY DEF Gates
<1>2. \A i \in 1..Len(f.marks) : f.marks[i] \in Delivered
  BY <1>1
<1>. QED BY <1>1, <1>2 DEF Delivered

\* The gate and a longer wire.
LEMMA GatedOn ==
  ASSUME NEW f \in Gates, NEW wire, NEW more, NEW n \in Nat, NEW l \in Nat, gated(f, wire, n), n <= l,
         Len(wire) \in Nat, Len(more) \in Nat, Len(wire) <= Len(more),
         \A i \in 1..Len(wire) : more[i] = wire[i]
  PROVE  gated(f, more, l)
<1>1. /\ f.marks \in Seq(Delivered) /\ f.receipted \in Nat /\ f.consumed \in Nat
      /\ \A i \in 1..Len(f.marks) : f.marks[i].frames \in Nat /\ f.marks[i].sequence \in Nat
  BY GateFacts
<1>2. \A i \in 1..Len(f.marks) :
        /\ f.marks[i].frames \in 1..Len(more) /\ f.marks[i].sequence \in 1..l
        /\ holds(more, f.marks[i].sequence, f.marks[i].frames)
  <2>. TAKE i \in 1..Len(f.marks)
  <2>. DEFINE a == f.marks[i].frames
              b == f.marks[i].sequence
  <2>1. a \in Nat /\ b \in Nat /\ a \in 1..Len(wire) /\ b \in 1..n /\ holds(wire, b, a)
    BY <1>1 DEF gated
  <2>. HIDE DEF a, b
  <2>2. \A j \in 1..a : more[j] = wire[j]
    BY <2>1
  <2>3. holds(more, b, a)
    BY <2>1, <2>2, HoldsOn
  <2>4. a \in 1..Len(more) /\ b \in 1..l
    BY <2>1
  <2>. QED BY <2>3, <2>4 DEF a, b
<1>3. f.receipted <= Len(more) /\ holds(more, f.consumed, f.receipted)
  <2>1. f.receipted <= Len(wire) /\ holds(wire, f.consumed, f.receipted)
    BY DEF gated
  <2>2. f.receipted <= Len(more) /\ \A j \in 1..f.receipted : more[j] = wire[j]
    BY <1>1, <2>1
  <2>3. holds(more, f.consumed, f.receipted)
    BY SMTT(30), <1>1, <2>1, <2>2, HoldsOn
  <2>. QED BY <2>2, <2>3
<1>. QED BY <1>2, <1>3 DEF gated

\* Receipts reach no further than before, or as far as they now say.
LEMMA ApplyIs ==
  ASSUME NEW f \in Gates, NEW wire, NEW n \in Nat, gated(f, wire, n), Len(wire) \in Nat,
         NEW e, e = applyReceipted(f)
  PROVE  /\ e \in Gates /\ gated(e, wire, n) /\ e.receipted = f.receipted
         /\ e.paused = f.paused /\ e.refusedAt = f.refusedAt
<1>1. /\ f.marks \in Seq(Delivered) /\ f.receipted \in Nat /\ f.consumed \in Nat
      /\ \A i \in 1..Len(f.marks) : f.marks[i].frames \in Nat /\ f.marks[i].sequence \in Nat
  BY GateFacts
<1>. DEFINE T == {0} \cup {i \in DOMAIN f.marks : f.marks[i].frames <= f.receipted}
            c == Max(T)
            b == SubSeq(f.marks, c + 1, Len(f.marks))
<1>2. c \in T
  <2>1. T \in SUBSET (0..Len(f.marks)) /\ T # {} /\ Len(f.marks) \in Nat
    BY <1>1
  <2>. HIDE DEF T
  <2>. QED BY <2>1, MaxIs
<1>3. e = IF c = 0 THEN f
          ELSE [f EXCEPT !.consumed = f.marks[c].sequence, !.marks = b]
  BY DEF applyReceipted
<1>4. c \in 0..Len(f.marks) /\ (c # 0 => f.marks[c].frames <= f.receipted)
  BY <1>1, <1>2
<1>. HIDE DEF c
<1>5. CASE c = 0
  BY <1>3, <1>5
<1>6. CASE c # 0
  <2>. DEFINE q == f.marks[c].sequence
              g == f.marks[c].frames
  <2>1. c \in 1..Len(f.marks)
    BY <1>1, <1>4, <1>6
  <2>2. q \in Nat /\ g \in Nat /\ g <= f.receipted /\ holds(wire, q, g)
    BY <1>1, <1>4, <1>6, <2>1 DEF gated
  <2>3. b \in Seq(Delivered) /\ Len(b) = Len(f.marks) - c
        /\ \A i \in 1..(Len(f.marks) - c) : b[i] = f.marks[c + i]
    BY <1>1, <1>4, DropIs
  <2>4. e = [f EXCEPT !.consumed = q, !.marks = b]
    BY <1>3, <1>6
  <2>. HIDE DEF q, g, b
  <2>5. /\ e \in Gates /\ e.consumed = q /\ e.marks = b /\ e.receipted = f.receipted
        /\ e.paused = f.paused /\ e.refusedAt = f.refusedAt
    BY <2>2, <2>3, <2>4 DEF Gates
  <2>6. holds(wire, q, f.receipted) /\ f.receipted <= Len(wire)
    BY <1>1, <2>2, HoldsOn DEF gated
  <2>7. \A i \in 1..Len(b) :
          /\ b[i].frames \in 1..Len(wire) /\ b[i].sequence \in 1..n
          /\ holds(wire, b[i].sequence, b[i].frames)
    <3>. TAKE i \in 1..Len(b)
    <3>1. c + i \in 1..Len(f.marks) /\ b[i] = f.marks[c + i]
      BY SMTT(30), <1>1, <2>1, <2>3
    <3>. QED BY <3>1 DEF gated
  <2>8. Len(b) <= DeliveredMarks
    <3>1. Len(f.marks) <= DeliveredMarks
      BY DEF gated
    <3>. QED BY <1>1, <2>1, <2>3, <3>1, BoundAssumption
  <2>. QED BY <2>5, <2>6, <2>7, <2>8 DEF gated
<1>. QED BY <1>5, <1>6

\* A receipt moves the gate to the mark it covers.
LEMMA ReceiptedIs ==
  ASSUME NEW f \in Gates, NEW wire, NEW n \in Nat, gated(f, wire, n), Len(wire) \in Nat,
         NEW k \in Nat, k >= f.receipted, k <= Len(wire),
         NEW e, e = applyReceipted([f EXCEPT !.receipted = k])
  PROVE  e \in Gates /\ gated(e, wire, n) /\ e.receipted = k
<1>. DEFINE g == [f EXCEPT !.receipted = k]
<1>1. g \in Gates /\ g.receipted = k /\ g.marks = f.marks /\ g.consumed = f.consumed
  BY DEF Gates
<1>. HIDE DEF g
<1>2. holds(wire, g.consumed, k)
  <2>1. f.consumed \in Nat /\ f.receipted \in Nat
    BY GateFacts
  <2>. QED BY <1>1, <2>1, HoldsOn DEF gated
<1>3. gated(g, wire, n)
  BY <1>1, <1>2 DEF gated
<1>. QED BY <1>1, <1>3, ApplyIs DEF g

\* A delivery adds its mark to the gate.
LEMMA DeliveredIs ==
  ASSUME NEW f \in Gates, NEW wire, NEW n \in Nat, n > 0, gated(f, wire, n), Len(wire) \in Nat,
         holds(wire, n, Len(wire)), NEW e, e = delivered(f, Len(wire), n)
  PROVE  e \in Gates /\ gated(e, wire, n) /\ e.receipted = f.receipted
<1>. DEFINE kept == IF Len(f.marks) = DeliveredMarks THEN Tail(f.marks) ELSE f.marks
            x == [frames |-> Len(wire), sequence |-> n]
            a == Append(kept, x)
            g == [f EXCEPT !.marks = a]
<1>1. e = f \/ e = applyReceipted(g)
  BY DEF delivered
<1>2. /\ f.marks \in Seq(Delivered) /\ f.receipted \in Nat /\ f.consumed \in Nat
      /\ \A i \in 1..Len(f.marks) :
           /\ f.marks[i].frames \in 1..Len(wire) /\ f.marks[i].sequence \in 1..n
           /\ holds(wire, f.marks[i].sequence, f.marks[i].frames)
      /\ f.receipted <= Len(wire) /\ holds(wire, f.consumed, f.receipted)
      /\ Len(f.marks) <= DeliveredMarks
  BY GateFacts DEF gated
<1>3. /\ kept \in Seq(Delivered) /\ Len(kept) < DeliveredMarks
      /\ \A i \in 1..Len(kept) : \E j \in 1..Len(f.marks) : kept[i] = f.marks[j]
  <2>1. DeliveredMarks \in Nat /\ DeliveredMarks > 0
    BY BoundAssumption
  <2>2. CASE Len(f.marks) = DeliveredMarks
    <3>1. f.marks # <<>> /\ kept = Tail(f.marks)
      BY <1>2, <2>1, <2>2
    <3>2. /\ Tail(f.marks) \in Seq(Delivered) /\ Len(Tail(f.marks)) = Len(f.marks) - 1
          /\ \A i \in 1..(Len(f.marks) - 1) : Tail(f.marks)[i] = f.marks[i + 1] /\ i + 1 \in 1..Len(f.marks)
      BY <1>2, <3>1
    <3>. HIDE DEF kept
    <3>3. Len(kept) < DeliveredMarks /\ \A i \in 1..Len(kept) : i \in 1..(Len(f.marks) - 1)
      BY <2>1, <2>2, <3>1, <3>2
    <3>. QED BY <3>1, <3>2, <3>3
  <2>3. CASE Len(f.marks) # DeliveredMarks
    <3>1. kept = f.marks
      BY <2>3
    <3>. HIDE DEF kept
    <3>. QED BY <1>2, <2>1, <2>3, <3>1
  <2>. QED BY <2>2, <2>3
<1>. HIDE DEF kept
<1>4. PICK i \in 1..Len(wire) : wire[i] = 1
  BY DEF holds
<1>5. x \in Delivered /\ x.frames = Len(wire) /\ x.sequence = n /\ x.frames \in 1..Len(wire)
  BY <1>4 DEF Delivered
<1>. HIDE DEF x
<1>6. /\ a \in Seq(Delivered) /\ Len(a) = Len(kept) + 1 /\ a[Len(kept) + 1] = x
      /\ \A j \in 1..Len(kept) : a[j] = kept[j]
  BY <1>3, <1>5
<1>. HIDE DEF a
<1>7. \A j \in 1..Len(a) :
        /\ a[j].frames \in 1..Len(wire) /\ a[j].sequence \in 1..n
        /\ holds(wire, a[j].sequence, a[j].frames)
  <2>. TAKE j \in 1..Len(a)
  <2>1. j \in 1..Len(kept) \/ j = Len(kept) + 1
    BY <1>3, <1>6
  <2>2. CASE j \in 1..Len(kept)
    <3>1. PICK k \in 1..Len(f.marks) : kept[j] = f.marks[k]
      BY <1>3, <2>2
    <3>. QED BY <1>2, <1>6, <2>2, <3>1
  <2>3. CASE j = Len(kept) + 1
    BY <1>5, <1>6, <2>3
  <2>. QED BY <2>1, <2>2, <2>3
<1>8. /\ g \in Gates /\ g.marks = a /\ g.receipted = f.receipted /\ g.consumed = f.consumed
  BY <1>6 DEF Gates
<1>. HIDE DEF g
<1>9. gated(g, wire, n)
  <2>1. Len(a) <= DeliveredMarks
    BY <1>3, <1>6, BoundAssumption
  <2>. QED BY <1>2, <1>7, <1>8, <2>1 DEF gated
<1>. QED BY <1>1, <1>8, <1>9, ApplyIs

\* The greater of two.
LEMMA MaxPair ==
  ASSUME NEW a \in Int, NEW b \in Int
  PROVE  Max({a, b}) = IF a >= b THEN a ELSE b
<1>1. \E x \in {a, b} : \A y \in {a, b} : x >= y
  OBVIOUS
<1>2. PICK x : x = Max({a, b})
  OBVIOUS
<1>3. x \in {a, b} /\ \A y \in {a, b} : x >= y
  BY <1>1, <1>2 DEF Max
<1>. QED BY <1>2, <1>3

\* The marks with one more observation, before the old ones are dropped.
marked(m, at, n) ==
  IF Len(m) > 0 /\ at - m[Len(m)].at < Resolution THEN [m EXCEPT ![Len(m)].sequence = Max({@, n})]
  ELSE Append(m, [at |-> at, sequence |-> n])

markedSo(m, q, at, n) ==
  /\ q \in Seq(Marks) /\ q # <<>> /\ q[Len(q)].sequence = n
  /\ \/ /\ m # <<>> /\ at - m[Len(m)].at < Resolution /\ Len(q) = Len(m)
        /\ q[Len(q)].at = m[Len(q)].at /\ \A i \in 1..(Len(q) - 1) : q[i] = m[i]
     \/ /\ Len(q) = Len(m) + 1 /\ q[Len(q)].at = at
        /\ m # <<>> => at >= m[Len(m)].at + Resolution
        /\ \A i \in 1..Len(m) : q[i] = m[i]

\* The fields of the marks of a clock.
LEMMA MarkFacts ==
  ASSUME NEW m \in Seq(Marks)
  PROVE  Len(m) \in Nat /\ \A i \in 1..Len(m) : m[i] \in Marks /\ m[i].at \in Nat /\ m[i].sequence \in Nat
<1>1. Len(m) \in Nat /\ \A i \in 1..Len(m) : m[i] \in Marks
  OBVIOUS
<1>. QED BY <1>1 DEF Marks

\* A publication makes a mark or moves the last one.
LEMMA MarkedIs ==
  ASSUME NEW m \in Seq(Marks), NEW at \in Nat, NEW n \in Nat,
         \A i \in 1..Len(m) : m[i].sequence <= n /\ m[i].at <= at,
         NEW q, q = marked(m, at, n)
  PROVE  markedSo(m, q, at, n)
<1>1. Len(m) \in Nat /\ \A i \in 1..Len(m) : m[i] \in Marks /\ m[i].at \in Nat /\ m[i].sequence \in Nat
  BY MarkFacts
<1>2. Resolution \in Nat
  BY ClockAssumption
<1>3. CASE Len(m) > 0 /\ at - m[Len(m)].at < Resolution
  <2>. DEFINE l == Len(m)
              s == Max({m[l].sequence, n})
              x == [m[l] EXCEPT !.sequence = s]
  <2>1. l \in 1..Len(m) /\ m[l].sequence <= n /\ m[l].sequence \in Nat /\ m[l] \in Marks
    BY <1>1, <1>3
  <2>2. s = n
    BY <2>1, MaxPair
  <2>3. x \in Marks /\ x.at = m[l].at /\ x.sequence = n
    BY <2>1, <2>2 DEF Marks
  <2>4. q = [m EXCEPT ![l] = x]
    BY <1>3 DEF marked
  <2>. HIDE DEF x
  <2>5. /\ q \in Seq(Marks) /\ Len(q) = Len(m)
        /\ q[l] = x /\ \A i \in 1..(l - 1) : q[i] = m[i]
    BY <2>1, <2>3, <2>4, ExceptSeq
  <2>. QED BY <1>1, <1>3, <2>1, <2>3, <2>5 DEF markedSo
<1>4. CASE ~(Len(m) > 0 /\ at - m[Len(m)].at < Resolution)
  <2>. DEFINE x == [at |-> at, sequence |-> n]
  <2>1. x \in Marks /\ x.at = at /\ x.sequence = n
    BY DEF Marks
  <2>2. q = Append(m, x)
    BY <1>4 DEF marked
  <2>. HIDE DEF x
  <2>3. /\ q \in Seq(Marks) /\ Len(q) = Len(m) + 1 /\ q[Len(m) + 1] = x
        /\ \A i \in 1..Len(m) : q[i] = m[i]
    BY <2>1, <2>2
  <2>4. m # <<>> => at >= m[Len(m)].at + Resolution
    <3>1. ASSUME m # <<>> PROVE Len(m) \in 1..Len(m)
      BY <1>1, <3>1
    <3>. QED BY <1>1, <1>2, <1>4, <3>1
  <2>. QED BY <1>1, <2>1, <2>3, <2>4 DEF markedSo
<1>. QED BY <1>3, <1>4

\* What is dropped: never the last mark, enough for the bound, and only what
\* the first kept mark already reaches past, or what the bound forces out.
droppedSo(q, d, at) ==
  /\ d \in 0..(Len(q) - 1) /\ Len(q) - d <= FrontierMarks
  /\ \/ d = 0 \/ q[d + 1].at <= at - Window
     \/ d = Len(q) - FrontierMarks

without(clock, q, d) == [clock EXCEPT !.marks = SubSeq(q, d + 1, Len(q)), !.pruned = @ \/ d > 0]

\* Observing drops a prefix of the marks.
LEMMA ObserveIs ==
  ASSUME NEW clock \in Clocks, NEW at \in Nat, NEW n \in Nat,
         NEW q, q = marked(clock.marks, at, n), q \in Seq(Marks), q # <<>>
  PROVE  \E d : /\ droppedSo(q, d, at)
                /\ observe(clock, at, n) = without(clock, q, d)
<1>. DEFINE T == {0} \cup {d \in 1..(Len(q) - 1) : q[d + 1].at <= at - Window}
            old == Max(T)
            drop == Max({old, Len(q) - FrontierMarks})
<1>1. Len(q) \in Nat /\ Len(q) > 0 /\ FrontierMarks \in Nat /\ FrontierMarks > 0
  BY BoundAssumption
<1>2. old \in T
  <2>1. T \in SUBSET (0..(Len(q) - 1)) /\ T # {} /\ Len(q) - 1 \in Nat
    BY <1>1
  <2>. HIDE DEF T
  <2>. QED BY <2>1, MaxIs
<1>3. old \in 0..(Len(q) - 1) /\ (old # 0 => q[old + 1].at <= at - Window)
  BY <1>1, <1>2
<1>4. observe(clock, at, n) = without(clock, q, drop)
  BY DEF observe, marked, without
<1>. HIDE DEF old
<1>5. drop = IF old >= Len(q) - FrontierMarks THEN old ELSE Len(q) - FrontierMarks
  <2>1. old \in Int /\ Len(q) - FrontierMarks \in Int
    BY <1>1, <1>3
  <2>. QED BY <2>1, MaxPair
<1>. HIDE DEF drop
<1>6. droppedSo(q, drop, at)
  BY <1>1, <1>3, <1>5 DEF droppedSo
<1>. QED BY <1>4, <1>6

\* The marks of a clock stay within their bounds.
LEMMA ObserveBounded ==
  ASSUME NEW clock, NEW at \in Nat, NEW n \in Nat, bounded(clock, at, n),
         NEW e, e = observe(clock, at, n + 1)
  PROVE  bounded(e, at, n + 1) /\ e.known = clock.known
<1>. DEFINE m == clock.marks
            q == marked(m, at, n + 1)
<1>1. clock \in Clocks /\ m \in Seq(Marks) /\ Len(m) \in Nat
  BY DEF bounded, Clocks
<1>2. \A i \in 1..Len(m) : m[i].at <= at /\ m[i].sequence \in 1..n
  BY DEF bounded
<1>3. markedSo(m, q, at, n + 1)
  <2>1. \A i \in 1..Len(m) : m[i].sequence <= n + 1 /\ m[i].at <= at
    BY <1>2
  <2>. QED BY <1>1, <2>1, MarkedIs
<1>. HIDE DEF m, q
<1>4. q \in Seq(Marks) /\ q # <<>> /\ Len(q) \in Nat
  BY <1>3 DEF markedSo
<1>5. \A i \in 1..Len(q) : q[i].at <= at /\ q[i].sequence \in 1..(n + 1)
  <2>. TAKE i \in 1..Len(q)
  <2>1. CASE i \in 1..Len(m) /\ q[i] = m[i]
    <3>1. m[i].at <= at /\ m[i].sequence \in 1..n
      BY <1>2, <2>1
    <3>. QED BY <2>1, <3>1
  <2>2. CASE i = Len(q)
    <3>1. q[i].sequence = n + 1 /\ (q[i].at = at \/ (Len(q) = Len(m) /\ q[i].at = m[i].at))
      BY <1>3, <2>2 DEF markedSo
    <3>2. Len(q) = Len(m) => m[i].at <= at
      BY <1>2
    <3>. QED BY <3>1, <3>2
  <2>3. i # Len(q) => i \in 1..Len(m) /\ q[i] = m[i]
    BY <1>1, <1>3, <1>4 DEF markedSo
  <2>. QED BY <2>1, <2>2, <2>3
<1>6. PICK d : droppedSo(q, d, at) /\ e = without(clock, q, d)
  <2>1. q = marked(clock.marks, at, n + 1) /\ n + 1 \in Nat
    BY DEF q, m
  <2>. QED BY <1>1, <1>4, <2>1, ObserveIs
<1>. DEFINE s == SubSeq(q, d + 1, Len(q))
<1>7. d \in 0..Len(q) /\ Len(q) - d <= FrontierMarks
  BY <1>4, <1>6 DEF droppedSo
<1>8. /\ s \in Seq(Marks) /\ Len(s) = Len(q) - d /\ \A i \in 1..(Len(q) - d) : s[i] = q[d + i]
  BY <1>4, <1>7, DropIs
<1>. HIDE DEF s
<1>9. e = [clock EXCEPT !.marks = s, !.pruned = @ \/ d > 0]
  BY <1>6 DEF s, without
<1>10. e \in Clocks /\ e.marks = s /\ e.known = clock.known
  BY <1>1, <1>8, <1>9 DEF Clocks
<1>11. \A i \in 1..Len(s) : s[i].at <= at /\ s[i].sequence \in 1..(n + 1)
  <2>. TAKE i \in 1..Len(s)
  <2>1. s[i] = q[d + i] /\ d + i \in 1..Len(q)
    BY <1>4, <1>7, <1>8
  <2>. QED BY <1>5, <2>1
<1>. QED BY <1>7, <1>8, <1>10, <1>11 DEF bounded


\* Marks are a step apart, so n of them are n steps apart.
LEMMA MarksApart ==
  ASSUME NEW q \in Seq(Marks), \A i \in 1..(Len(q) - 1) : q[i + 1].at >= q[i].at + Resolution,
         NEW k \in 1..Len(q), NEW j \in 0..(Len(q) - k)
  PROVE  q[k + j].at >= q[k].at + j * Resolution
<1>. DEFINE S == {n \in Nat : k + n <= Len(q) => q[k + n].at >= q[k].at + n * Resolution}
<1>1. Len(q) \in Nat /\ \A i \in 1..Len(q) : q[i].at \in Nat
  BY MarkFacts
<1>2. Resolution \in Nat
  BY ClockAssumption
<1>3. 0 \in S
  <2>1. q[k].at \in Nat
    BY <1>1
  <2>. QED BY <1>2, <2>1
<1>4. \A n \in S : n + 1 \in S
  <2>. TAKE n \in S
  <2>1. n \in Nat /\ n + 1 \in Nat
    OBVIOUS
  <2>2. ASSUME k + (n + 1) <= Len(q) PROVE q[k + (n + 1)].at >= q[k].at + (n + 1) * Resolution
    <3>1. k + n \in 1..(Len(q) - 1) /\ k + n <= Len(q) /\ k + (n + 1) = (k + n) + 1 /\ k + n \in 1..Len(q)
          /\ (k + n) + 1 \in 1..Len(q)
      BY SMTT(30), <1>1, <2>1, <2>2
    <3>2. q[(k + n) + 1].at >= q[k + n].at + Resolution
      BY <3>1
    <3>3. q[k + n].at >= q[k].at + n * Resolution
      BY <3>1
    <3>4. (n + 1) * Resolution = n * Resolution + Resolution /\ n * Resolution \in Int
      BY <1>2, <2>1
    <3>5. q[k].at \in Nat /\ q[k + n].at \in Nat /\ q[(k + n) + 1].at \in Nat
      BY <1>1, <3>1
    <3>6. q[(k + n) + 1].at >= q[k].at + (n + 1) * Resolution
      <4>. DEFINE a == n * Resolution
                  b == (n + 1) * Resolution
                  x == q[(k + n) + 1].at
                  y == q[k + n].at
                  z == q[k].at
      <4>1. b = a + Resolution /\ a \in Int /\ y >= z + a /\ x >= y + Resolution
        BY <3>2, <3>3, <3>4
      <4>2. x \in Nat /\ y \in Nat /\ z \in Nat
        BY <3>5
      <4>. HIDE DEF a, b, x, y, z
      <4>3. x >= z + b
        BY <1>2, <4>1, <4>2
      <4>. QED BY <4>3 DEF b, x, z
    <3>. QED BY <3>1, <3>6
  <2>. QED BY <2>1, <2>2
<1>5. S = Nat
  <2>1. S \in SUBSET Nat
    OBVIOUS
  <2>. HIDE DEF S
  <2>. QED BY <1>3, <1>4, <2>1, P!Induct
<1>6. j \in Nat /\ k + j <= Len(q)
  BY <1>1
<1>7. j \in S
  BY <1>5, <1>6
<1>. QED BY <1>6, <1>7

\* A merged or a new mark keeps the line of marks true.
LEMMA MarkedAnswers ==
  ASSUME NEW m \in Seq(Marks), NEW q, NEW pub \in Seq(Nat), NEW at \in Nat, NEW pruned \in BOOLEAN,
         timeline(m, pub), reachesBack(m, pub, pruned, at), markedSo(m, q, at, Len(pub) + 1),
         \A i \in 1..Len(m) : m[i].at <= at /\ m[i].sequence <= Len(pub),
         \A r \in 1..Len(pub) : pub[r] <= at, NEW p, p = Append(pub, at)
  PROVE  timeline(q, p) /\ reachesBack(q, p, pruned, at)
<1>1. Len(m) \in Nat /\ \A i \in 1..Len(m) : m[i].at \in Nat /\ m[i].sequence \in Nat
  BY MarkFacts
<1>2. q \in Seq(Marks) /\ Len(q) \in Nat /\ \A i \in 1..Len(q) : q[i].at \in Nat /\ q[i].sequence \in Nat
  BY MarkFacts DEF markedSo
<1>3. Resolution \in Nat /\ Resolution >= 1 /\ Window \in Nat
  BY ClockAssumption
<1>4. /\ Len(p) = Len(pub) + 1 /\ Len(pub) \in Nat /\ p[Len(pub) + 1] = at
      /\ \A r \in 1..Len(pub) : p[r] = pub[r] /\ pub[r] \in Nat
  OBVIOUS
<1>. DEFINE l == Len(m)
<1>5. /\ m # <<>> /\ l \in 1..Len(m) /\ m[l].sequence = Len(pub)
      /\ \A i \in 1..(l - 1) : m[i + 1].at >= m[i].at + Resolution
      /\ \A i \in 1..l : \A r \in 1..Len(pub) : r <= m[i].sequence => pub[r] <= m[i].at + Resolution - 1
      /\ \A i \in 1..(l - 1) : \A r \in 1..Len(pub) : r > m[i].sequence => pub[r] >= m[i + 1].at
  <2>1. m # <<>> /\ m[Len(m)].sequence = Len(pub)
    BY DEF timeline
  <2>2. l \in 1..Len(m)
    BY <1>1, <2>1
  <2>. QED BY <2>1, <2>2 DEF timeline
<1>6. /\ q # <<>> /\ q[Len(q)].sequence = Len(pub) + 1
      /\ \A i \in 1..(l - 1) : q[i] = m[i]
      /\ \/ Len(q) = l /\ q[l].at = m[l].at /\ at < m[l].at + Resolution
         \/ Len(q) = l + 1 /\ q[l] = m[l] /\ q[l + 1].at = at /\ at >= m[l].at + Resolution
  <2>1. m[l].at \in Nat
    BY <1>1, <1>5
  <2>. QED BY <1>1, <1>3, <1>5, <2>1 DEF markedSo
<1>. HIDE DEF l
<1>7. l \in Nat /\ l > 0 /\ l = Len(m) /\ m[l].at <= at /\ m[1].at <= at /\ q[1].at = m[1].at
      /\ \A i \in 1..l : q[i].at = m[i].at
  <2>1. l \in Nat /\ l > 0 /\ l = Len(m)
    BY <1>1, <1>5 DEF l
  <2>2. l \in 1..Len(m) /\ 1 \in 1..Len(m) /\ 1 \in 1..l
    BY <2>1
  <2>3. \A i \in 1..l : q[i].at = m[i].at
    <3>. TAKE i \in 1..l
    <3>1. i \in 1..(l - 1) \/ i = l
      BY <2>1
    <3>. QED BY <1>6, <3>1
  <2>4. q[1].at = m[1].at
    BY <2>2, <2>3
  <2>. QED BY <2>1, <2>2, <2>3, <2>4
<1>8. \A i \in 1..(Len(q) - 1) : q[i + 1].at >= q[i].at + Resolution
  <2>. TAKE i \in 1..(Len(q) - 1)
  <2>1. CASE i \in 1..(l - 1)
    <3>1. m[i + 1].at >= m[i].at + Resolution /\ i \in 1..l /\ i + 1 \in 1..l
      BY <1>5, <1>7, <2>1
    <3>. QED BY <1>7, <3>1
  <2>2. CASE i = l /\ Len(q) = l + 1
    BY <1>6, <1>7, <2>2
  <2>. QED BY <1>2, <1>6, <1>7, <2>1, <2>2
<1>9. \A i \in 1..Len(q) : \A r \in 1..Len(p) : r <= q[i].sequence => p[r] <= q[i].at + Resolution - 1
  <2>. SUFFICES ASSUME NEW i \in 1..Len(q), NEW r \in 1..Len(p), r <= q[i].sequence
                PROVE  p[r] <= q[i].at + Resolution - 1
    OBVIOUS
  <2>1. CASE i \in 1..l /\ r \in 1..Len(pub)
    <3>1. r <= m[i].sequence
      <4>1. CASE i = l
        BY <1>4, <1>5, <2>1, <4>1
      <4>2. CASE i \in 1..(l - 1)
        BY <1>6, <4>2
      <4>. QED BY <1>7, <2>1, <4>1, <4>2
    <3>2. pub[r] <= m[i].at + Resolution - 1
      BY <1>5, <2>1, <3>1
    <3>. QED BY <1>4, <1>7, <2>1, <3>2
  <2>2. CASE i \in 1..l /\ r = Len(pub) + 1
    <3>1. i = l
      <4>1. ASSUME i \in 1..(l - 1) PROVE FALSE
        <5>1. q[i].sequence = m[i].sequence /\ i \in 1..Len(m) /\ i + 1 \in 1..Len(m) /\ m[i].sequence \in Nat
          BY <1>1, <1>6, <1>7, <4>1
        <5>2. m[i].sequence <= Len(pub)
          BY <5>1
        <5>. QED BY <1>4, <2>2, <5>1, <5>2
      <4>. QED BY <1>4, <1>7, <2>2, <4>1
    <3>2. Len(q) = l
      BY <1>4, <1>5, <1>6, <2>2, <3>1
    <3>3. at < m[l].at + Resolution /\ q[l].at = m[l].at /\ m[l].at \in Nat
      BY <1>1, <1>6, <1>7, <3>2
    <3>. QED BY <1>3, <1>4, <2>2, <3>1, <3>3
  <2>3. CASE i = l + 1
    <3>1. q[i].at = at
      BY <1>6, <1>7, <2>3
    <3>2. p[r] <= at
      BY <1>4
    <3>. QED BY <1>3, <1>4, <3>1, <3>2
  <2>. QED BY <1>4, <1>6, <1>7, <2>1, <2>2, <2>3
<1>10. \A i \in 1..(Len(q) - 1) : \A r \in 1..Len(p) : r > q[i].sequence => p[r] >= q[i + 1].at
  <2>. SUFFICES ASSUME NEW i \in 1..(Len(q) - 1), NEW r \in 1..Len(p), r > q[i].sequence
                PROVE  p[r] >= q[i + 1].at
    OBVIOUS
  <2>1. CASE i \in 1..(l - 1)
    <3>0. i + 1 \in 1..l /\ i + 1 \in 1..Len(m)
      BY <1>7, <2>1
    <3>1. q[i].sequence = m[i].sequence /\ q[i + 1].at = m[i + 1].at /\ m[i + 1].at \in Nat /\ m[i + 1].at <= at
      BY <1>1, <1>6, <1>7, <2>1, <3>0
    <3>2. CASE r \in 1..Len(pub)
      <4>1. pub[r] >= m[i + 1].at
        BY <1>5, <2>1, <3>1, <3>2
      <4>. QED BY <1>4, <3>1, <3>2, <4>1
    <3>3. CASE r = Len(pub) + 1
      BY <1>4, <3>1, <3>3
    <3>. QED BY <1>4, <3>2, <3>3
  <2>2. CASE i = l /\ Len(q) = l + 1
    <3>1. q[l] = m[l] /\ q[l + 1].at = at /\ r > Len(pub)
      BY <1>5, <1>6, <1>7, <2>2
    <3>2. r = Len(pub) + 1
      BY <1>4, <3>1
    <3>. QED BY <1>4, <2>2, <3>1, <3>2
  <2>. QED BY <1>6, <1>7, <2>1, <2>2
<1>11. timeline(q, p)
  BY <1>4, <1>6, <1>8, <1>9, <1>10 DEF timeline
<1>12. reachesBack(q, p, pruned, at)
  <2>1. CASE pruned
    <3>1. m[1].at <= at - Window
      BY <2>1 DEF reachesBack
    <3>. QED BY <1>7, <2>1, <3>1 DEF reachesBack
  <2>2. CASE ~pruned
    <3>1. \A r \in 1..Len(pub) : pub[r] >= m[1].at
      BY <2>2 DEF reachesBack
    <3>2. \A r \in 1..Len(p) : p[r] >= q[1].at
      <4>. TAKE r \in 1..Len(p)
      <4>1. CASE r \in 1..Len(pub)
        BY <1>4, <1>7, <3>1, <4>1
      <4>2. CASE r = Len(pub) + 1
        BY <1>4, <1>7, <4>2
      <4>. QED BY <1>4, <4>1, <4>2
    <3>. QED BY <2>2, <3>2 DEF reachesBack
  <2>. QED BY <2>1, <2>2
<1>. QED BY <1>11, <1>12


\* What is left after the drop still answers for the window.
LEMMA DroppedAnswers ==
  ASSUME NEW q \in Seq(Marks), NEW p \in Seq(Nat), NEW at \in Nat, NEW pruned \in BOOLEAN,
         timeline(q, p), reachesBack(q, p, pruned, at), NEW d, droppedSo(q, d, at),
         \A i \in 1..Len(q) : q[i].at <= at, NEW s, s = SubSeq(q, d + 1, Len(q))
  PROVE  timeline(s, p) /\ reachesBack(s, p, pruned \/ d > 0, at)
<1>1. Len(q) \in Nat /\ \A i \in 1..Len(q) : q[i].at \in Nat /\ q[i].sequence \in Nat
  BY MarkFacts
<1>2. d \in 0..Len(q) /\ d < Len(q) /\ d \in Nat
  BY <1>1 DEF droppedSo
<1>3. s \in Seq(Marks) /\ Len(s) = Len(q) - d /\ \A i \in 1..(Len(q) - d) : s[i] = q[d + i]
  BY <1>2, DropIs
<1>4. s # <<>> /\ s[Len(s)] = q[Len(q)] /\ s[1] = q[d + 1] /\ \A i \in 1..Len(s) : s[i] = q[d + i]
  <2>1. Len(s) \in 1..(Len(q) - d) /\ 1 \in 1..(Len(q) - d) /\ d + Len(s) = Len(q) /\ Len(s) > 0
    BY <1>1, <1>2, <1>3
  <2>2. s[Len(s)] = q[d + Len(s)] /\ s[1] = q[d + 1]
    BY <1>3, <2>1
  <2>3. s # <<>>
    <3>1. \A u \in Seq(Marks) : Len(u) > 0 => u # <<>>
      OBVIOUS
    <3>. QED BY <1>3, <2>1, <3>1
  <2>. QED BY <1>3, <2>1, <2>2, <2>3
<1>5. /\ q[Len(q)].sequence = Len(p)
      /\ \A i \in 1..(Len(q) - 1) : q[i + 1].at >= q[i].at + Resolution
      /\ \A i \in 1..Len(q) : \A r \in 1..Len(p) : r <= q[i].sequence => p[r] <= q[i].at + Resolution - 1
      /\ \A i \in 1..(Len(q) - 1) : \A r \in 1..Len(p) : r > q[i].sequence => p[r] >= q[i + 1].at
  BY DEF timeline
<1>6. \A i \in 1..Len(s) : d + i \in 1..Len(q)
  BY <1>1, <1>2, <1>3
<1>7. \A i \in 1..(Len(s) - 1) : d + i \in 1..(Len(q) - 1) /\ s[i] = q[d + i] /\ s[i + 1] = q[(d + i) + 1]
  <2>. TAKE i \in 1..(Len(s) - 1)
  <2>1. i \in 1..Len(s) /\ i + 1 \in 1..Len(s) /\ d + (i + 1) = (d + i) + 1 /\ d + i \in 1..(Len(q) - 1)
    BY <1>1, <1>2, <1>3
  <2>2. s[i + 1] = q[d + (i + 1)]
    BY <1>4, <2>1
  <2>. QED BY <1>4, <2>1, <2>2
<1>8. \A i \in 1..(Len(s) - 1) : s[i + 1].at >= s[i].at + Resolution
  BY <1>5, <1>7
<1>9. \A i \in 1..Len(s) : \A r \in 1..Len(p) : r <= s[i].sequence => p[r] <= s[i].at + Resolution - 1
  BY <1>4, <1>5, <1>6
<1>10. \A i \in 1..(Len(s) - 1) : \A r \in 1..Len(p) : r > s[i].sequence => p[r] >= s[i + 1].at
  BY <1>5, <1>7
<1>11. timeline(s, p)
  BY <1>4, <1>5, <1>8, <1>9, <1>10 DEF timeline
<1>12. reachesBack(s, p, pruned \/ d > 0, at)
  <2>1. CASE d = 0
    <3>1. s[1] = q[1] /\ ((pruned \/ d > 0) = pruned)
      BY <1>4, <2>1
    <3>. QED BY <3>1 DEF reachesBack
  <2>2. CASE d > 0
    <3>1. q[d + 1].at <= at - Window
      <4>1. CASE q[d + 1].at <= at - Window
        BY <4>1
      <4>2. CASE d = Len(q) - FrontierMarks
        <5>. DEFINE j == FrontierMarks - 1
                    a == j * Resolution
                    x == q[d + 1].at
                    y == q[Len(q)].at
        <5>1. d + 1 \in 1..Len(q) /\ j \in 0..(Len(q) - (d + 1)) /\ (d + 1) + j = Len(q)
          BY <1>1, <1>2, <4>2, BoundAssumption
        <5>2. y >= x + a
          <6>1. q[(d + 1) + j].at >= q[d + 1].at + j * Resolution
            BY <1>5, <5>1, MarksApart
          <6>. QED BY <5>1, <6>1
        <5>3. Window <= a /\ Window \in Nat /\ a \in Int
          <6>1. Resolution \in Nat /\ FrontierMarks \in Nat
            BY BoundAssumption, ClockAssumption
          <6>. QED BY <6>1, BoundAssumption, ClockAssumption
        <5>4. x \in Nat /\ y \in Nat /\ y <= at
          BY <1>1, <1>2, <5>1
        <5>. HIDE DEF a, x, y
        <5>5. x <= at - Window
          BY <5>2, <5>3, <5>4
        <5>. QED BY <5>5 DEF x
      <4>. QED BY <2>2, <4>1, <4>2 DEF droppedSo
    <3>. QED BY <1>4, <2>2, <3>1 DEF reachesBack
  <2>. QED BY <1>2, <2>1, <2>2
<1>. QED BY <1>11, <1>12

\* A clock that answers for its window still does when it observes the next
\* publication (frontierClock.observe).
LEMMA ObserveAnswers ==
  ASSUME NEW clock, NEW at \in Nat, NEW pub \in Seq(Nat), bounded(clock, at, Len(pub)),
         timeline(clock.marks, pub), reachesBack(clock.marks, pub, clock.pruned, at),
         \A r \in 1..Len(pub) : pub[r] <= at,
         NEW p, p = Append(pub, at), NEW e, e = observe(clock, at, Len(pub) + 1)
  PROVE  timeline(e.marks, p) /\ reachesBack(e.marks, p, e.pruned, at)
<1>. DEFINE m == clock.marks
            n == Len(pub) + 1
            q == marked(m, at, n)
<1>1. clock \in Clocks /\ m \in Seq(Marks) /\ clock.pruned \in BOOLEAN /\ n \in Nat /\ p \in Seq(Nat)
  BY DEF bounded, Clocks
<1>2. \A i \in 1..Len(m) : m[i].at <= at /\ m[i].sequence <= Len(pub) /\ m[i].sequence <= n
  BY DEF bounded
<1>3. markedSo(m, q, at, n)
  BY <1>1, <1>2, MarkedIs
<1>4. q \in Seq(Marks) /\ q # <<>>
  BY <1>3 DEF markedSo
<1>5. PICK d : droppedSo(q, d, at) /\ observe(clock, at, n) = without(clock, q, d)
  BY <1>1, <1>4, ObserveIs
<1>6. timeline(q, p) /\ reachesBack(q, p, clock.pruned, at)
  <2>. HIDE DEF q
  <2>. QED BY <1>1, <1>2, <1>3, MarkedAnswers
<1>7. \A i \in 1..Len(q) : q[i].at <= at
  <2>. HIDE DEF q
  <2>. TAKE i \in 1..Len(q)
  <2>1. Len(m) \in Nat /\ Len(q) \in Nat
    BY <1>1, <1>4
  <2>2. (i \in 1..Len(m) /\ q[i].at = m[i].at) \/ q[i].at = at
    <3>1. CASE i = Len(q)
      BY <1>3, <2>1, <3>1 DEF markedSo
    <3>2. CASE i # Len(q)
      <4>1. i \in 1..(Len(q) - 1)
        BY <2>1, <3>2
      <4>2. i \in 1..Len(m) /\ q[i] = m[i]
        BY <1>3, <2>1, <4>1 DEF markedSo
      <4>. QED BY <4>2
    <3>. QED BY <3>1, <3>2
  <2>. QED BY <1>2, <2>2
<1>. DEFINE s == SubSeq(q, d + 1, Len(q))
<1>. HIDE DEF q
<1>8. timeline(s, p) /\ reachesBack(s, p, clock.pruned \/ d > 0, at)
  BY <1>1, <1>4, <1>5, <1>6, <1>7, DroppedAnswers
<1>. HIDE DEF s
<1>9. e = [clock EXCEPT !.marks = s, !.pruned = @ \/ d > 0]
  BY <1>5 DEF s, without
<1>10. e.marks = s /\ e.pruned = (clock.pruned \/ d > 0)
  BY <1>1, <1>9 DEF Clocks
<1>. QED BY <1>8, <1>10

\* What a clock that answers says of an instant a window ago.
LEMMA ClockExact ==
  ASSUME NEW clock \in Clocks, NEW pub \in Seq(Nat), NEW t \in Nat, NEW instant, instant = t - Window,
         timeline(clock.marks, pub), reachesBack(clock.marks, pub, clock.pruned, t),
         NEW c, c = clockAt(clock, instant)
  PROVE  /\ c \in Nat
         /\ \A r \in 1..Len(pub) : pub[r] <= instant => r <= c
         /\ \A r \in 1..Len(pub) : r <= c => pub[r] <= instant + Resolution - 1
<1>. DEFINE m == clock.marks
            past == {i \in DOMAIN m : m[i].at <= instant}
            k == Max(past)
<1>1. m \in Seq(Marks) /\ clock.pruned \in BOOLEAN /\ DOMAIN m = 1..Len(m)
  BY DEF Clocks
<1>2. Len(m) \in Nat /\ \A i \in 1..Len(m) : m[i].at \in Nat /\ m[i].sequence \in Nat
  BY <1>1, MarkFacts
<1>3. Window \in Nat /\ Resolution \in Nat /\ Resolution >= 1 /\ instant \in Int
      /\ Len(pub) \in Nat /\ \A r \in 1..Len(pub) : pub[r] \in Nat
  BY ClockAssumption
<1>4. m # <<>> /\ 1 \in 1..Len(m)
  BY <1>1, <1>2 DEF timeline
<1>5. CASE past # {}
  <2>1. past \in SUBSET (0..Len(m))
    BY <1>1, <1>2
  <2>2. k \in past /\ \A y \in past : y <= k
    <3>. HIDE DEF past
    <3>. QED BY <1>2, <1>5, <2>1, MaxIs
  <2>3. c = m[k].sequence /\ k \in 1..Len(m) /\ m[k].at <= instant
    BY <1>1, <1>5, <2>2 DEF clockAt
  <2>4. \A i \in 1..Len(m) : i > k => m[i].at > instant
    <3>. SUFFICES ASSUME NEW i \in 1..Len(m), i > k, ~(m[i].at > instant) PROVE FALSE
      OBVIOUS
    <3>1. i \in past
      BY <1>1, <1>2, <1>3
    <3>2. i <= k /\ k \in Int
      BY <2>2, <2>3, <3>1
    <3>. HIDE DEF past, k
    <3>. QED BY <3>2
  <2>. HIDE DEF past, k
  <2>5. ASSUME NEW r \in 1..Len(pub), pub[r] <= instant PROVE r <= c
    <3>1. CASE k = Len(m)
      BY <1>3, <2>3, <3>1 DEF timeline
    <3>2. CASE k < Len(m)
      <4>1. k \in 1..(Len(m) - 1) /\ k + 1 \in 1..Len(m) /\ k + 1 > k
        BY <1>2, <2>3, <3>2
      <4>2. m[k + 1].at > instant /\ m[k + 1].at \in Nat /\ c \in Nat
        BY <1>2, <2>3, <2>4, <4>1
      <4>3. r > c => pub[r] >= m[k + 1].at
        BY <2>3, <4>1 DEF timeline
      <4>. QED BY <1>3, <2>5, <4>2, <4>3
    <3>. QED BY <1>2, <2>3, <3>1, <3>2
  <2>6. ASSUME NEW r \in 1..Len(pub), r <= c PROVE pub[r] <= instant + Resolution - 1
    <3>1. pub[r] <= m[k].at + Resolution - 1
      BY <2>3, <2>6 DEF timeline
    <3>2. m[k].at \in Nat
      BY <1>2, <2>3
    <3>. QED BY <1>3, <2>3, <3>1, <3>2
  <2>. QED BY <1>2, <2>3, <2>5, <2>6
<1>6. CASE past = {}
  <2>1. m[1].at > instant
    <3>1. 1 \notin past
      BY <1>6
    <3>. QED BY <1>1, <1>2, <1>3, <1>4, <3>1
  <2>2. ~clock.pruned
    <3>1. clock.pruned => m[1].at <= t - Window
      BY DEF reachesBack
    <3>. QED BY <1>2, <1>3, <1>4, <2>1, <3>1
  <2>3. c = 0
    BY <1>6, <2>2 DEF clockAt
  <2>4. \A r \in 1..Len(pub) : pub[r] >= m[1].at
    BY <2>2 DEF reachesBack
  <2>. QED BY <1>2, <1>3, <1>4, <2>1, <2>3, <2>4
<1>. QED BY <1>5, <1>6

\* A clock says a number whatever it is asked.
LEMMA ClockAtIs ==
  ASSUME NEW clock \in Clocks, NEW instant \in Int
  PROVE  clockAt(clock, instant) \in Nat
<1>. DEFINE m == clock.marks
            past == {i \in DOMAIN m : m[i].at <= instant}
<1>1. m \in Seq(Marks) /\ DOMAIN m = 1..Len(m)
  BY DEF Clocks
<1>2. Len(m) \in Nat /\ \A i \in 1..Len(m) : m[i].at \in Nat /\ m[i].sequence \in Nat
  BY <1>1, MarkFacts
<1>3. CASE past # {}
  <2>1. past \in SUBSET (0..Len(m))
    BY <1>1, <1>2
  <2>2. Max(past) \in past
    <3>. HIDE DEF past
    <3>. QED BY <1>2, <1>3, <2>1, MaxIs
  <2>. QED BY <1>1, <1>2, <1>3, <2>2 DEF clockAt
<1>4. CASE past = {}
  <2>1. clockAt(clock, instant) = IF clock.pruned /\ m # <<>> THEN m[1].sequence ELSE 0
    BY <1>4 DEF clockAt
  <2>2. m # <<>> => 1 \in 1..Len(m)
    BY <1>1, <1>2
  <2>. QED BY <1>2, <2>1, <2>2
<1>. QED BY <1>3, <1>4

-----------------------------------------------------------------------------
(***************************************************************************)
(* The parts of the invariant over variables that did not change.          *)
(***************************************************************************)
LEMMA ClockKept ==
  ASSUME ClockBounded, ClockAnswers, UNCHANGED <<prov, now, scene>>
  PROVE  ClockBounded' /\ ClockAnswers'
BY DEF ClockBounded, ClockAnswers, published

\* Each part of the invariant is kept by a step that leaves its state alone:
\* what the gate consumed,
LEMMA CoveredKept ==
  ASSUME Covered, UNCHANGED <<prov, writer, fresh>>
  PROVE  Covered'
BY DEF Covered, published

\* what the judgement was made on,
LEMMA JudgedKept ==
  ASSUME JudgedFairly, UNCHANGED <<prov, now>>, fresh'.receipted = fresh.receipted,
         desk'.judge = desk.judge, desk'.received = desk.received, desk'.given \subseteq desk.given
  PROVE  JudgedFairly'
BY DEF JudgedFairly, published

\* what the page will have read,
LEMMA ArrivesSame ==
  ASSUME Arrives, UNCHANGED <<page, net, front, desk, writer>>
  PROVE  Arrives'
BY ArrivesKept

\* what the broker will have read,
LEMMA DepartsSame ==
  ASSUME Departs, UNCHANGED <<page, net, front, desk, fresh>>
  PROVE  Departs'
BY DepartsKept

\* the window of the relay,
LEMMA FlowsSame ==
  ASSUME Flows, UNCHANGED <<front, page>>
  PROVE  Flows'
BY DEF Flows, flowing

\* and the ledger of results.
LEMMA LedgerSame ==
  ASSUME Ledger, UNCHANGED desk
  PROVE  Ledger'
BY DEF Ledger, balanced

\* The settled inputs are the same ones.
LEMMA FateKept ==
  ASSUME NEW d \in Desks, balanced(d), NEW e \in Desks, balanced(e), e.reported = d.reported,
         \A i \in 1..d.reported : e.fate[i] = d.fate[i]
  PROVE  SubSeq(e.fate, 1, e.reported) = SubSeq(d.fate, 1, d.reported)
<1>1. /\ d.fate \in Seq(Settled) /\ e.fate \in Seq(Settled) /\ d.reported \in Nat
      /\ d.reported <= Len(d.fate) /\ e.reported <= Len(e.fate) /\ Len(d.fate) \in Nat
  BY DeskFacts
<1>. DEFINE k == d.reported
            a == SubSeq(d.fate, 1, k)
            b == SubSeq(e.fate, 1, k)
<1>2. a \in Seq(Settled) /\ Len(a) = k /\ \A i \in 1..k : a[i] = d.fate[i]
  BY <1>1
<1>3. b \in Seq(Settled) /\ Len(b) = k /\ \A i \in 1..k : b[i] = e.fate[i]
  BY <1>1
<1>. HIDE DEF a, b
<1>4. \A i \in 1..k : a[i] = b[i]
  BY <1>2, <1>3
<1>5. a = b
  BY <1>2, <1>3, <1>4, SeqEqual
<1>. QED BY <1>5 DEF a, b

\* What the typed state gives at once.
LEMMA GateTypes ==
  ASSUME Shapes
  PROVE  /\ prov.pub \in Seq(Nat) /\ prov.clock \in Clocks /\ prov.gone \in BOOLEAN /\ prov.revived \in BOOLEAN
         /\ writer.wire \in Seq(Nat) /\ Len(writer.wire) \in Nat /\ writer.at \in Nat /\ writer.owes \in Nat
         /\ fresh \in Gates /\ desk \in Desks /\ front \in Fronts
         /\ now \in Nat /\ now \in Int /\ published \in Nat
         /\ net.conn \in Seq(Downward) /\ net.down \in Seq(Downward)
         /\ net.req \in Seq(Upward) /\ net.up \in Seq(Upward)
<1>1. scene.horizon \in Nat
  BY SceneAssumption DEF Shapes
<1>2. now \in Nat
  BY <1>1 DEF Shapes
<1>3. prov.pub \in Seq(Nat) /\ writer.wire \in Seq(Nat)
  BY DEF Shapes
<1>. QED BY <1>2, <1>3 DEF Shapes, published

\* Forgetting the generation keeps the invariant.
LEMMA ForgetKeeps ==
  ASSUME GateInv, Forget
  PROVE  GateInv'
<1>1. /\ ~prov.gone /\ prov' = [prov EXCEPT !.gone = TRUE, !.clock = NoClock]
      /\ UNCHANGED <<scene, now, writer, fresh, desk, net, front, page, end>>
  BY ShapesFields, ForgetStep DEF GateInv
<1>2. NoClock \in Clocks /\ NoClock.marks = <<>> /\ NoClock.known = FALSE
  BY DEF NoClock, Clocks
<1>. HIDE DEF NoClock
<1>3. /\ prov' \in [pub : Seq(Nat), clock : Clocks, gone : BOOLEAN, revived : BOOLEAN]
      /\ prov'.pub = prov.pub /\ prov'.clock = NoClock /\ prov'.gone = TRUE /\ prov'.revived = prov.revived
  BY <1>1, <1>2 DEF GateInv, Shapes
<1>4. Shapes'
  BY <1>1, <1>3 DEF GateInv, Shapes
<1>5. ClockBounded' /\ ClockAnswers'
  <2>1. bounded(NoClock, now, published)
    <3>1. FrontierMarks \in Nat /\ Len(NoClock.marks) = 0
      BY <1>2, BoundAssumption
    <3>. QED BY <1>2, <3>1 DEF bounded
  <2>2. ClockBounded'
    BY <1>1, <1>2, <1>3, <2>1 DEF GateInv, ClockBounded, published
  <2>. QED BY <1>3, <2>2 DEF ClockAnswers
<1>6. Covered' /\ JudgedFairly'
  BY <1>1, <1>3 DEF GateInv, Covered, JudgedFairly, published
<1>. QED BY <1>1, <1>4, <1>5, <1>6, LedgerSame, ArrivesSame, DepartsSame, FlowsSame DEF GateInv

\* An end of the attachment keeps the invariant.
LEMMA EndsKeeps ==
  ASSUME GateInv, end' \in {"retired", "flow_stalled", "input_backlog"},
         UNCHANGED <<scene, now, prov, writer, fresh, desk, net, front, page>>
  PROVE  GateInv'
<1>1. Shapes'
  BY DEF GateInv, Shapes
<1>2. JudgedFairly'
  BY JudgedKept DEF GateInv
<1>. QED BY <1>1, <1>2, ClockKept, CoveredKept, LedgerSame, ArrivesSame, DepartsSame, FlowsSame DEF GateInv

\* A step that changes nothing keeps the invariant.
LEMMA UnchangedKeeps ==
  ASSUME GateInv, UNCHANGED vars
  PROVE  GateInv'
<1>1. Shapes'
  BY DEF GateInv, Shapes, vars
<1>2. JudgedFairly'
  BY JudgedKept DEF GateInv, vars
<1>. QED BY <1>1, <1>2, ClockKept, CoveredKept, LedgerSame, ArrivesSame, DepartsSame, FlowsSame DEF GateInv, vars

\* The passing of time keeps the invariant.
LEMMA TickKeeps ==
  ASSUME GateInv, Tick
  PROVE  GateInv'
<1>1. /\ now' = now + 1 /\ now < scene.horizon
      /\ UNCHANGED <<scene, prov, writer, fresh, desk, net, front, page, end>>
  BY DEF Tick
<1>2. Shapes /\ now \in Nat /\ scene.horizon \in Nat /\ Window \in Nat
  BY GateTypes, SceneAssumption, ClockAssumption DEF GateInv, Shapes
<1>3. Shapes'
  <2>1. now' \in 0..scene.horizon
    BY <1>1, <1>2
  <2>. QED BY <1>1, <1>2, <2>1 DEF Shapes
<1>4. ClockBounded'
  <2>1. bounded(prov.clock, now', published)
    <3>1. prov.clock.marks \in Seq(Marks)
      BY <1>2, GateTypes DEF Clocks
    <3>2. \A i \in 1..Len(prov.clock.marks) : prov.clock.marks[i].at \in Nat
      BY <3>1, MarkFacts
    <3>. QED BY <1>1, <1>2, <3>2 DEF GateInv, ClockBounded, bounded
  <2>2. \A r \in 1..published : prov.pub[r] <= now'
    <3>1. \A r \in 1..published : prov.pub[r] \in Nat
      BY SMTT(30), <1>2, GateTypes DEF published
    <3>. QED BY <1>1, <1>2, <3>1 DEF GateInv, ClockBounded
  <2>. QED BY <1>1, <2>1, <2>2 DEF GateInv, ClockBounded, published
<1>5. ClockAnswers'
  <2>1. ASSUME ~prov.gone PROVE reachesBack(prov.clock.marks, prov.pub, prov.clock.pruned, now + 1)
    <3>1. timeline(prov.clock.marks, prov.pub) /\ reachesBack(prov.clock.marks, prov.pub, prov.clock.pruned, now)
      BY <2>1 DEF GateInv, ClockAnswers
    <3>2. prov.clock.marks \in Seq(Marks)
      BY <1>2, GateTypes DEF Clocks
    <3>3. prov.clock.marks # <<>>
      BY <3>1 DEF timeline
    <3>4. prov.clock.marks[1].at \in Nat
      BY <3>2, <3>3, MarkFacts
    <3>. QED BY <1>2, <3>1, <3>4 DEF reachesBack
  <2>. QED BY <1>1, <2>1 DEF GateInv, ClockAnswers
<1>6. JudgedFairly'
  <2>1. desk.judge.at \in Nat
    BY <1>2, GateTypes DEF Desks, Judgements
  <2>. QED BY <1>1, <1>2, <2>1 DEF GateInv, JudgedFairly, published
<1>. QED BY <1>1, <1>3, <1>4, <1>5, <1>6, CoveredKept, LedgerSame, ArrivesSame, DepartsSame, FlowsSame DEF GateInv


\* A publication keeps the invariant.
LEMMA PublishKeeps ==
  ASSUME GateInv, Publish \/ LateFeed
  PROVE  GateInv'
<1>. DEFINE base == IF prov.gone THEN NewClock ELSE prov.clock
<1>1. /\ published < scene.records
      /\ UNCHANGED <<scene, now, writer, fresh, desk, net, front, page, end>>
      /\ \/ ~prov.gone
            /\ prov' = [prov EXCEPT !.pub = Append(@, now), !.clock = observe(@, now, published + 1)]
         \/ prov.gone /\ ~prov.revived
            /\ prov' = [prov EXCEPT !.pub = Append(@, now), !.revived = TRUE,
                                    !.clock = observe(NewClock, now, published + 1)]
  BY ShapesFields, PublishStep DEF GateInv
<1>2. Shapes /\ now \in Nat /\ published \in Nat /\ prov.pub \in Seq(Nat) /\ scene.records \in Nat
      /\ prov.gone \in BOOLEAN /\ prov.revived \in BOOLEAN
  BY SMTT(30), GateTypes, SceneAssumption DEF GateInv, Shapes
<1>3. bounded(base, now, published) /\ base.known = TRUE /\ (~prov.gone => base = prov.clock)
  <2>1. CASE ~prov.gone
    BY <1>2, <2>1, GateTypes DEF GateInv, ClockBounded, Clocks, bounded
  <2>2. CASE prov.gone
    <3>1. NewClock \in Clocks /\ NewClock.marks = <<>> /\ NewClock.known = TRUE
      <4>1. NoClock \in Clocks /\ NoClock.marks = <<>>
        BY DEF NoClock, Clocks
      <4>2. NewClock = [NoClock EXCEPT !.known = TRUE]
        BY DEF NewClock
      <4>. HIDE DEF NoClock, NewClock
      <4>. QED BY <4>1, <4>2 DEF Clocks
    <3>2. FrontierMarks \in Nat /\ Len(<<>>) = 0
      BY BoundAssumption
    <3>. HIDE DEF NewClock
    <3>3. bounded(NewClock, now, published)
      BY <3>1, <3>2 DEF bounded
    <3>. QED BY <2>2, <3>1, <3>3
  <2>. QED BY <1>2, <2>1, <2>2
<1>. HIDE DEF base
<1>. DEFINE c == observe(base, now, published + 1)
            p == Append(prov.pub, now)
<1>4. bounded(c, now, published + 1) /\ c.known = TRUE
  BY <1>2, <1>3, ObserveBounded
<1>5. c \in Clocks
  BY <1>4 DEF bounded
<1>6. p \in Seq(Nat) /\ Len(p) = published + 1 /\ p[published + 1] = now
      /\ \A r \in 1..published : p[r] = prov.pub[r]
  BY <1>2 DEF published
<1>7. ~prov.gone => timeline(c.marks, p) /\ reachesBack(c.marks, p, c.pruned, now)
  <2>. SUFFICES ASSUME ~prov.gone PROVE timeline(c.marks, p) /\ reachesBack(c.marks, p, c.pruned, now)
    OBVIOUS
  <2>1. timeline(base.marks, prov.pub) /\ reachesBack(base.marks, prov.pub, base.pruned, now)
    BY <1>3 DEF GateInv, ClockAnswers
  <2>2. \A r \in 1..Len(prov.pub) : prov.pub[r] <= now
    BY DEF GateInv, ClockBounded, published
  <2>3. bounded(base, now, Len(prov.pub))
    BY <1>3 DEF published
  <2>4. c = observe(base, now, Len(prov.pub) + 1)
    BY DEF published
  <2>. HIDE DEF c, p
  <2>. QED BY <1>2, <2>1, <2>2, <2>3, <2>4, ObserveAnswers DEF p
<1>8. /\ prov'.pub = p /\ prov'.clock = c /\ prov'.gone = prov.gone
      /\ prov'.revived = (prov.revived \/ prov.gone)
      /\ prov' \in [pub : Seq(Nat), clock : Clocks, gone : BOOLEAN, revived : BOOLEAN]
  <2>1. CASE ~prov.gone
    <3>1. base = prov.clock /\ prov' = [prov EXCEPT !.pub = p, !.clock = c]
      BY <1>1, <1>3, <2>1
    <3>. HIDE DEF c, p
    <3>. QED BY <1>2, <1>5, <1>6, <2>1, <3>1 DEF GateInv, Shapes, ClockBounded
  <2>2. CASE prov.gone
    <3>1. base = NewClock /\ prov' = [prov EXCEPT !.pub = p, !.revived = TRUE, !.clock = c]
      BY <1>1, <2>2 DEF base
    <3>. HIDE DEF c, p
    <3>. QED BY <1>2, <1>5, <1>6, <2>2, <3>1 DEF GateInv, Shapes
  <2>. QED BY <1>2, <2>1, <2>2
<1>. HIDE DEF c, p
<1>9. Shapes'
  BY <1>1, <1>2, <1>8 DEF Shapes
<1>10. published' = published + 1
  BY <1>6, <1>8 DEF published
<1>11. ClockBounded'
  <2>1. \A r \in 1..(published + 1) : p[r] <= now
    <3>. TAKE r \in 1..(published + 1)
    <3>1. r \in 1..published => prov.pub[r] <= now
      BY DEF GateInv, ClockBounded
    <3>2. r \in 1..published \/ r = published + 1
      BY <1>2
    <3>. QED BY <1>2, <1>6, <3>1, <3>2
  <2>2. published + 1 \in 1..scene.records
    BY <1>1, <1>2
  <2>3. c.known <=> ~prov.gone \/ (prov.revived \/ prov.gone)
    BY <1>2, <1>4
  <2>4. prov.revived \/ prov.gone => prov.gone
    BY DEF GateInv, ClockBounded
  <2>. QED BY <1>1, <1>4, <1>8, <1>10, <2>1, <2>2, <2>3, <2>4 DEF ClockBounded
<1>12. ClockAnswers'
  BY <1>1, <1>7, <1>8 DEF ClockAnswers
<1>13. Covered'
  BY <1>1, <1>2, <1>10, GateTypes DEF GateInv, Covered
<1>14. JudgedFairly'
  <2>. DEFINE j == desk.judge
  <2>. SUFFICES ASSUME j # NoJudgement
                PROVE  /\ j.id = desk.received /\ j.id > 0 /\ j.id \notin desk.given
                       /\ j.seen = fresh.receipted /\ j.at <= now
                       /\ j.known => \/ prov'.gone /\ prov'.revived
                                     \/ \A r \in 1..(published + 1) : p[r] <= j.at - Window => r <= j.required
    BY <1>1, <1>8, <1>10 DEF JudgedFairly
  <2>1. /\ j.id = desk.received /\ j.id > 0 /\ j.id \notin desk.given
        /\ j.seen = fresh.receipted /\ j.at <= now
        /\ j.known => \/ prov.gone /\ prov.revived
                      \/ \A r \in 1..published : prov.pub[r] <= j.at - Window => r <= j.required
    BY DEF GateInv, JudgedFairly
  <2>2. ASSUME j.known, ~prov.gone
        PROVE  \A r \in 1..(published + 1) : p[r] <= j.at - Window => r <= j.required
    <3>1. j.at \in Nat /\ Window \in Nat /\ Window >= 1
      BY <1>2, GateTypes, ClockAssumption DEF Desks, Judgements
    <3>. TAKE r \in 1..(published + 1)
    <3>2. CASE r \in 1..published
      <4>1. prov.pub[r] <= j.at - Window => r <= j.required
        BY <2>1, <2>2, <3>2
      <4>. QED BY <1>6, <3>2, <4>1
    <3>3. CASE r = published + 1
      BY <1>2, <1>6, <2>1, <3>1, <3>3
    <3>. QED BY <1>2, <3>2, <3>3
  <2>3. prov.gone => prov'.gone /\ prov'.revived
    BY <1>8
  <2>. QED BY <2>1, <2>2, <2>3
<1>. QED BY <1>1, <1>9, <1>11, <1>12, <1>13, <1>14, LedgerSame, ArrivesSame, DepartsSame, FlowsSame DEF GateInv

\* One more frame on the wire, whatever it completes.
LEMMA WireKeeps ==
  ASSUME GateInv, room, NEW m \in Downward, m.kind # "input", NEW r \in Nat,
         net' = [net EXCEPT !.conn = Append(@, m)], writer'.wire = Append(writer.wire, r),
         writer' \in [wire : Seq(Nat), at : Nat, part : BOOLEAN, owes : Nat, live : BOOLEAN, granted : BOOLEAN],
         writer'.at = writer.at \/ (writer'.at = writer.at + 1 /\ r = writer.at + 1 /\ r <= published),
         writer'.owes \in {writer.owes, writer'.at}, writer'.owes = writer.owes => writer'.at = writer.at,
         UNCHANGED <<scene, now, prov, fresh, desk, front, page, end>>
  PROVE  GateInv'
<1>1. Shapes /\ net.conn \in Seq(Downward) /\ writer.wire \in Seq(Nat) /\ Len(writer.wire) \in Nat
      /\ writer.at \in Nat /\ writer.owes \in Nat /\ published \in Nat /\ fresh \in Gates /\ Len(net.conn) \in Nat
  BY GateTypes DEF GateInv
<1>2. /\ net'.conn = Append(net.conn, m) /\ net'.req = net.req /\ net'.down = net.down /\ net'.up = net.up
      /\ net' \in [conn : Seq(Downward), req : Seq(Upward), down : Seq(Downward), up : Seq(Upward)]
  <2>. DEFINE c == Append(net.conn, m)
  <2>1. c \in Seq(Downward) /\ net' = [net EXCEPT !.conn = c]
    BY <1>1
  <2>. HIDE DEF c
  <2>2. /\ net'.conn = c /\ net'.req = net.req /\ net'.down = net.down /\ net'.up = net.up
        /\ net' \in [conn : Seq(Downward), req : Seq(Upward), down : Seq(Downward), up : Seq(Upward)]
    BY <1>1, <2>1 DEF Shapes
  <2>. QED BY <2>2 DEF c
<1>3. Len(net'.conn) <= ConnCap
  <2>1. Len(net'.conn) = Len(net.conn) + 1
    BY <1>1, <1>2
  <2>. QED BY <1>1, <2>1, BoundAssumption DEF room
<1>4. Shapes'
  BY <1>1, <1>2, <1>3 DEF Shapes
<1>5. /\ Len(writer'.wire) = Len(writer.wire) + 1 /\ writer'.wire[Len(writer.wire) + 1] = r
      /\ \A i \in 1..Len(writer.wire) : writer'.wire[i] = writer.wire[i]
  BY <1>1
<1>6. Covered'
  <2>. DEFINE w == writer'.wire
              k == Len(writer.wire)
              n == writer.at
              l == writer'.at
  <2>1. holds(writer.wire, n, k) /\ n <= published /\ writer.owes \in {0, n} /\ gated(fresh, writer.wire, n)
    BY DEF GateInv, Covered
  <2>2. holds(w, n, k + 1)
    <3>1. /\ n \in Nat /\ k \in Nat /\ k + 1 \in Nat /\ k <= k + 1 /\ holds(writer.wire, n, k)
          /\ \A i \in 1..k : w[i] = writer.wire[i]
      BY SMTT(30), <1>1, <1>5, <2>1
    <3>. DEFINE next == k + 1
    <3>2. next \in Nat /\ k <= next
      BY <3>1
    <3>. HIDE DEF w, k, n, next
    <3>3. holds(w, n, next)
      BY <3>1, <3>2, HoldsOn
    <3>. QED BY <3>3 DEF next
  <2>3. l \in Nat /\ n <= l /\ l <= published
    BY <1>1, <2>1
  <2>4. holds(w, l, k + 1)
    <3>1. CASE l = n
      BY <2>2, <3>1
    <3>2. CASE l = n + 1 /\ r = n + 1
      <4>1. \A x \in 1..l : \E i \in 1..(k + 1) : w[i] = x
        <5>. TAKE x \in 1..l
        <5>1. CASE x \in 1..n
          BY <2>2, <5>1 DEF holds
        <5>2. CASE x = n + 1
          <6>1. k + 1 \in 1..(k + 1)
            BY <1>1
          <6>. QED BY <1>5, <3>2, <5>2, <6>1
        <5>. QED BY SMTT(30), <1>1, <3>2, <5>1, <5>2
      <4>. QED BY <4>1 DEF holds
    <3>. QED BY <3>1, <3>2
  <2>5. gated(fresh, w, l)
    <3>1. Len(w) \in Nat /\ k <= Len(w) /\ k \in Nat
      BY SMTT(30), <1>1, <1>5
    <3>. QED BY <1>1, <1>5, <2>1, <2>3, <3>1, GatedOn
  <2>6. writer'.owes \in {0, l}
    BY <2>1
  <2>7. published' = published
    BY DEF published
  <2>. QED BY <1>5, <2>3, <2>4, <2>5, <2>6, <2>7 DEF Covered
<1>7. Arrives'
  BY <1>1, ArrivesFrame DEF GateInv
<1>8. Departs'
  BY <1>2, DepartsKept DEF GateInv
<1>9. JudgedFairly'
  BY JudgedKept DEF GateInv
<1>. QED BY <1>4, <1>6, <1>7, <1>8, <1>9, ClockKept, LedgerSame, FlowsSame DEF GateInv

\* A frame of the writer keeps the invariant.
LEMMA WriterWritesKeeps ==
  ASSUME GateInv, WriterWrites
  PROVE  GateInv'
<1>. DEFINE n == writer.at + 1
            size == Sizes[n]
<1>1. /\ room /\ n <= published
      /\ \/ net' = [net EXCEPT !.conn = Append(@, frame(0, size))]
            /\ writer' = [writer EXCEPT !.wire = Append(@, 0), !.part = TRUE]
         \/ net' = [net EXCEPT !.conn = Append(@, frame(n, size))]
            /\ writer' = [writer EXCEPT !.wire = Append(@, n), !.part = FALSE, !.at = n, !.owes = n]
      /\ UNCHANGED <<scene, now, prov, fresh, desk, front, page, end>>
  BY ShapesFields, WriterWritesStep DEF GateInv
<1>2. Shapes /\ writer.at \in Nat /\ n \in Nat /\ n > 0 /\ published \in Nat
  BY GateTypes DEF GateInv
<1>3. n \in records
  <2>1. published <= scene.records /\ scene.records \in 1..Len(Sizes) /\ Len(Sizes) \in Nat
    BY SMTT(30), <1>2, SceneAssumption DEF GateInv, ClockBounded, Shapes
  <2>. QED BY <1>1, <1>2, <2>1 DEF records
<1>4. size \in Nat /\ size > 0 /\ size <= MaxSize
  BY <1>3, SizesBounded
<1>. HIDE DEF size
<1>5. \A x \in Nat : frame(x, size) \in Downward /\ frame(x, size).kind # "input"
  BY <1>4 DEF frame, Downward, Frames
<1>6. CASE /\ net' = [net EXCEPT !.conn = Append(@, frame(0, size))]
           /\ writer' = [writer EXCEPT !.wire = Append(@, 0), !.part = TRUE]
  <2>1. /\ writer'.wire = Append(writer.wire, 0) /\ writer'.at = writer.at /\ writer'.owes = writer.owes
        /\ writer' \in [wire : Seq(Nat), at : Nat, part : BOOLEAN, owes : Nat, live : BOOLEAN, granted : BOOLEAN]
    <3>. DEFINE w == Append(writer.wire, 0)
    <3>1. w \in Seq(Nat) /\ writer' = [writer EXCEPT !.wire = w, !.part = TRUE]
      BY <1>2, <1>6, GateTypes
    <3>. HIDE DEF w
    <3>2. /\ writer'.wire = w /\ writer'.at = writer.at /\ writer'.owes = writer.owes
          /\ writer' \in [wire : Seq(Nat), at : Nat, part : BOOLEAN, owes : Nat, live : BOOLEAN, granted : BOOLEAN]
      BY <1>2, <3>1 DEF Shapes
    <3>. QED BY <3>2 DEF w
  <2>2. 0 \in Nat /\ frame(0, size) \in Downward /\ frame(0, size).kind # "input"
    BY <1>5
  <2>. QED BY <1>1, <1>6, <2>1, <2>2, WireKeeps
<1>7. CASE /\ net' = [net EXCEPT !.conn = Append(@, frame(n, size))]
           /\ writer' = [writer EXCEPT !.wire = Append(@, n), !.part = FALSE, !.at = n, !.owes = n]
  <2>1. /\ writer'.wire = Append(writer.wire, n) /\ writer'.at = n /\ writer'.owes = n
        /\ writer' \in [wire : Seq(Nat), at : Nat, part : BOOLEAN, owes : Nat, live : BOOLEAN, granted : BOOLEAN]
    <3>. DEFINE w == Append(writer.wire, n)
    <3>1. w \in Seq(Nat) /\ writer' = [writer EXCEPT !.wire = w, !.part = FALSE, !.at = n, !.owes = n]
      BY <1>2, <1>7, GateTypes
    <3>. HIDE DEF w, n
    <3>2. /\ writer'.wire = w /\ writer'.at = n /\ writer'.owes = n
          /\ writer' \in [wire : Seq(Nat), at : Nat, part : BOOLEAN, owes : Nat, live : BOOLEAN, granted : BOOLEAN]
      BY <1>2, <3>1 DEF Shapes
    <3>. QED BY <3>2 DEF w
  <2>2. n \in Nat /\ frame(n, size) \in Downward /\ frame(n, size).kind # "input"
    BY <1>2, <1>5
  <2>3. writer'.owes # writer.owes
    BY <1>2, <2>1 DEF GateInv, Covered
  <2>4. writer'.at = writer.at + 1 /\ writer'.owes \in {writer.owes, writer'.at}
    BY <2>1
  <2>. QED BY <1>1, <1>2, <1>7, <2>1, <2>2, <2>3, <2>4, WireKeeps
<1>. QED BY <1>1, <1>6, <1>7

\* Granting the mode keeps the invariant.
LEMMA ModeGrantedKeeps ==
  ASSUME GateInv, ModeGranted
  PROVE  GateInv'
<1>1. /\ room /\ net' = [net EXCEPT !.conn = Append(@, mode)]
      /\ writer' = [writer EXCEPT !.wire = Append(@, 0), !.granted = TRUE]
      /\ UNCHANGED <<scene, now, prov, fresh, desk, front, page, end>>
  BY ShapesFields, ModeGrantedStep DEF GateInv
<1>2. mode \in Downward /\ mode.kind # "input"
  <2>1. mode.kind = "mode" /\ mode.n = 0 /\ mode.size = 1 /\ mode.code = ""
        /\ mode \in [kind : Frames \cup {"input"}, n : Nat, size : Nat, code : Outcomes \cup {""}]
    BY DEF mode, Frames
  <2>. HIDE DEF mode
  <2>2. MaxSize \in Nat /\ MaxSize >= 1
    BY SizesBounded
  <2>3. mode.kind # "input"
    BY <2>1
  <2>4. mode.size > 0 /\ mode.size <= MaxSize
    <3>1. mode.size = 1
      BY <2>1
    <3>. DEFINE x == mode.size
    <3>2. x = 1
      BY <3>1
    <3>. HIDE DEF x
    <3>3. x > 0 /\ x <= MaxSize
      BY <2>2, <3>2
    <3>. QED BY <3>3 DEF x
  <2>. HIDE DEF MaxSize, Frames, Outcomes
  <2>. QED BY <2>1, <2>3, <2>4 DEF Downward
<1>3. /\ writer'.wire = Append(writer.wire, 0) /\ writer'.at = writer.at /\ writer'.owes = writer.owes
      /\ writer' \in [wire : Seq(Nat), at : Nat, part : BOOLEAN, owes : Nat, live : BOOLEAN, granted : BOOLEAN]
  <2>. DEFINE w == Append(writer.wire, 0)
  <2>1. Shapes /\ w \in Seq(Nat) /\ writer' = [writer EXCEPT !.wire = w, !.granted = TRUE]
    BY <1>1, GateTypes DEF GateInv
  <2>. HIDE DEF w
  <2>2. /\ writer'.wire = w /\ writer'.at = writer.at /\ writer'.owes = writer.owes
        /\ writer' \in [wire : Seq(Nat), at : Nat, part : BOOLEAN, owes : Nat, live : BOOLEAN, granted : BOOLEAN]
    BY <2>1 DEF Shapes
  <2>. QED BY <2>2 DEF w
<1>. HIDE DEF mode
<1>. QED BY <1>1, <1>2, <1>3, WireKeeps

\* Recording a delivery keeps the invariant.
LEMMA WriterRecordsKeeps ==
  ASSUME GateInv, WriterRecords
  PROVE  GateInv'
<1>1. /\ writer.owes # 0 /\ fresh' = delivered(fresh, Len(writer.wire), writer.owes)
      /\ writer' = [writer EXCEPT !.owes = 0, !.live = TRUE]
      /\ UNCHANGED <<scene, now, prov, desk, net, front, page, end>>
  BY ShapesFields, WriterRecordsStep DEF GateInv
<1>2. Shapes /\ Len(writer.wire) \in Nat /\ fresh \in Gates /\ writer.at \in Nat
  BY GateTypes DEF GateInv
<1>3. /\ writer.owes = writer.at /\ writer.at > 0 /\ writer.at <= published
      /\ holds(writer.wire, writer.at, Len(writer.wire)) /\ gated(fresh, writer.wire, writer.at)
  BY <1>1, <1>2 DEF GateInv, Covered
<1>4. fresh' \in Gates /\ gated(fresh', writer.wire, writer.at) /\ fresh'.receipted = fresh.receipted
  BY <1>1, <1>2, <1>3, DeliveredIs
<1>5. /\ writer'.wire = writer.wire /\ writer'.at = writer.at /\ writer'.owes = 0
      /\ writer' \in [wire : Seq(Nat), at : Nat, part : BOOLEAN, owes : Nat, live : BOOLEAN, granted : BOOLEAN]
  BY <1>1, <1>2 DEF Shapes
<1>6. Shapes'
  BY <1>1, <1>2, <1>4, <1>5 DEF Shapes
<1>7. Covered'
  BY <1>1, <1>3, <1>4, <1>5 DEF Covered, published
<1>8. JudgedFairly'
  BY <1>1, <1>4, JudgedKept DEF GateInv
<1>9. Departs'
  BY <1>1, <1>4, DepartsKept DEF GateInv
<1>10. Arrives'
  <2>1. Arrives
    BY DEF GateInv
  <2>. QED BY <1>1, <1>5, <2>1 DEF Arrives, afterRuns, afterConn, afterDown, thePage
<1>. QED BY <1>1, <1>6, <1>7, <1>8, <1>9, <1>10, ClockKept, LedgerSame, FlowsSame DEF GateInv


\* Only the desk changed, and what it had settled it keeps.
LEMMA DeskKeeps ==
  ASSUME GateInv, desk' \in Desks, balanced(desk'), JudgedFairly',
         desk'.received = desk.received, desk'.reported = desk.reported,
         desk'.written = desk.written, desk'.runs = desk.runs,
         \A i \in 1..desk.reported : desk'.fate[i] = desk.fate[i],
         fresh' \in Gates, gated(fresh', writer.wire, writer.at), fresh'.receipted = fresh.receipted,
         UNCHANGED <<scene, now, prov, writer, net, front, page, end>>
  PROVE  GateInv'
<1>1. Shapes /\ desk \in Desks /\ balanced(desk)
  BY GateTypes DEF GateInv, Ledger
<1>2. Shapes'
  BY <1>1 DEF Shapes
<1>3. SubSeq(desk'.fate, 1, desk'.reported) = SubSeq(desk.fate, 1, desk.reported)
  BY <1>1, FateKept
<1>4. Arrives'
  BY <1>3, ArrivesKept DEF GateInv
<1>5. Departs'
  BY DepartsKept DEF GateInv
<1>6. Ledger'
  BY DEF Ledger
<1>7. Covered'
  BY DEF GateInv, Covered, published
<1>. QED BY <1>2, <1>4, <1>5, <1>6, <1>7, ClockKept, FlowsSame DEF GateInv

\* Judging an input keeps the invariant.
LEMMA BrokerJudgesKeeps ==
  ASSUME GateInv, BrokerJudges
  PROVE  GateInv'
<1>. DEFINE j == desk.judge
            d == [desk EXCEPT !.judge = NoJudgement]
<1>1. /\ j # NoJudgement
      /\ \E paused \in BOOLEAN, at \in {now, fresh.refusedAt} :
           fresh' = [fresh EXCEPT !.paused = paused, !.refusedAt = at]
      /\ \/ desk' = [desk EXCEPT !.judge = NoJudgement, !.given = @ \cup {j.id}]
         \/ desk' = settle(d, j.id, "refused")
         \/ desk' = settle(d, j.id, "paused")
      /\ UNCHANGED <<scene, now, prov, writer, net, front, page, end>>
  BY ShapesFields, BrokerJudgesStep DEF GateInv
<1>2. Shapes /\ desk \in Desks /\ balanced(desk) /\ fresh \in Gates /\ now \in Nat
  BY GateTypes DEF GateInv, Ledger
<1>3. j.id \in 1..desk.received /\ j.id \in Nat
  <2>1. j.id = desk.received /\ j.id > 0 /\ desk.received \in Nat
    BY <1>1, <1>2, DeskFacts DEF GateInv, JudgedFairly
  <2>. QED BY <2>1
<1>4. NoJudgement \in Judgements
  BY DEF NoJudgement, Judgements
<1>. HIDE DEF NoJudgement
<1>5. fresh' \in Gates /\ gated(fresh', writer.wire, writer.at) /\ fresh'.receipted = fresh.receipted
  <2>1. PICK paused \in BOOLEAN, at \in {now, fresh.refusedAt} :
           fresh' = [fresh EXCEPT !.paused = paused, !.refusedAt = at]
    BY <1>1
  <2>2. at \in Nat
    BY <1>2, <2>1 DEF Gates
  <2>3. /\ fresh' \in Gates /\ fresh'.marks = fresh.marks /\ fresh'.receipted = fresh.receipted
        /\ fresh'.consumed = fresh.consumed
    BY <1>2, <2>1, <2>2 DEF Gates
  <2>4. gated(fresh, writer.wire, writer.at)
    BY DEF GateInv, Covered
  <2>. QED BY <2>3, <2>4 DEF gated
<1>6. /\ desk' \in Desks /\ balanced(desk') /\ desk'.judge = NoJudgement
      /\ desk'.received = desk.received /\ desk'.reported = desk.reported
      /\ desk'.written = desk.written /\ desk'.runs = desk.runs
      /\ \A i \in 1..desk.reported : desk'.fate[i] = desk.fate[i]
  <2>1. CASE desk' = [desk EXCEPT !.judge = NoJudgement, !.given = @ \cup {j.id}]
    <3>. DEFINE g == desk.given \cup {j.id}
    <3>1. g \in SUBSET Nat /\ \A id \in g : id \in 1..desk.received
      BY <1>2, <1>3, DeskFacts
    <3>2. desk' = [desk EXCEPT !.judge = NoJudgement, !.given = g]
      BY <2>1
    <3>. HIDE DEF g
    <3>3. /\ desk' \in Desks /\ desk'.judge = NoJudgement /\ desk'.given = g
          /\ desk'.received = desk.received /\ desk'.reported = desk.reported
          /\ desk'.written = desk.written /\ desk'.runs = desk.runs /\ desk'.fate = desk.fate
          /\ desk'.window = desk.window /\ desk'.wake = desk.wake
      BY <1>2, <1>4, <3>1, <3>2 DEF Desks
    <3>4. balanced(desk')
      BY <1>2, <3>1, <3>3 DEF balanced
    <3>. QED BY <3>3, <3>4
  <2>2. CASE \E result \in Outcomes : desk' = settle(d, j.id, result)
    <3>1. PICK result \in Outcomes : desk' = settle(d, j.id, result)
      BY <2>2
    <3>2. /\ d \in Desks /\ d.judge = NoJudgement /\ d.given = desk.given
          /\ d.received = desk.received /\ d.reported = desk.reported
          /\ d.written = desk.written /\ d.runs = desk.runs /\ d.fate = desk.fate
          /\ d.window = desk.window /\ d.wake = desk.wake
      BY <1>2, <1>4 DEF Desks
    <3>. HIDE DEF d
    <3>3. balanced(d)
      BY <1>2, <3>2 DEF balanced
    <3>4. j.id \in 1..d.received
      BY <1>3, <3>2
    <3>. HIDE DEF j
    <3>5. /\ desk' \in Desks /\ balanced(desk')
          /\ desk'.judge = d.judge /\ desk'.received = d.received /\ desk'.reported = d.reported
          /\ desk'.written = d.written /\ desk'.runs = d.runs
          /\ \A i \in 1..d.reported : desk'.fate[i] = d.fate[i]
      BY <3>1, <3>2, <3>3, <3>4, SettleIs
    <3>. QED BY <3>2, <3>5
  <2>3. "refused" \in Outcomes /\ "paused" \in Outcomes
    BY DEF Outcomes
  <2>. QED BY <1>1, <2>1, <2>2, <2>3
<1>7. JudgedFairly'
  BY <1>6 DEF JudgedFairly, NoJudgement
<1>. QED BY <1>1, <1>5, <1>6, <1>7, DeskKeeps

\* Settling an input keeps the invariant.
LEMMA EpochSettlesKeeps ==
  ASSUME GateInv, NEW id, EpochSettles(id)
  PROVE  GateInv'
<1>. DEFINE g == desk.given \ {id}
            d == [desk EXCEPT !.given = g]
<1>1. /\ id \in desk.given
      /\ \E result \in {"written", "partial", "dropped"} : desk' = settle(d, id, result)
      /\ UNCHANGED <<scene, now, prov, writer, fresh, net, front, page, end>>
  BY ShapesFields, EpochSettlesStep DEF GateInv
<1>2. Shapes /\ desk \in Desks /\ balanced(desk) /\ fresh \in Gates
  BY GateTypes DEF GateInv, Ledger
<1>3. id \in 1..desk.received /\ g \in SUBSET Nat /\ g \subseteq desk.given
      /\ \A x \in g : x \in 1..desk.received
  BY <1>1, <1>2, DeskFacts
<1>. HIDE DEF g
<1>4. /\ d \in Desks /\ d.judge = desk.judge /\ d.given = g
      /\ d.received = desk.received /\ d.reported = desk.reported
      /\ d.written = desk.written /\ d.runs = desk.runs /\ d.fate = desk.fate
      /\ d.window = desk.window /\ d.wake = desk.wake
  BY <1>2, <1>3 DEF Desks
<1>. HIDE DEF d
<1>5. balanced(d) /\ id \in 1..d.received
  BY <1>2, <1>3, <1>4 DEF balanced
<1>6. PICK result \in Outcomes : desk' = settle(d, id, result)
  BY <1>1 DEF Outcomes
<1>7. /\ desk' \in Desks /\ balanced(desk')
      /\ desk'.judge = d.judge /\ desk'.received = d.received /\ desk'.reported = d.reported
      /\ desk'.written = d.written /\ desk'.runs = d.runs /\ desk'.given = d.given
      /\ \A i \in 1..d.reported : desk'.fate[i] = d.fate[i]
  BY <1>4, <1>5, <1>6, SettleIs
<1>8. JudgedFairly'
  BY <1>1, <1>3, <1>4, <1>7, JudgedKept DEF GateInv
<1>9. gated(fresh, writer.wire, writer.at)
  BY DEF GateInv, Covered
<1>. QED BY <1>1, <1>2, <1>4, <1>7, <1>8, <1>9, DeskKeeps

\* Taking results keeps the invariant.
LEMMA ReporterTakesKeeps ==
  ASSUME GateInv, ReporterTakes
  PROVE  GateInv'
<1>. DEFINE n == settledHead(desk.window)
            s == settledRuns(desk.window, desk.reported, n)
            runs == FoldLeft(extends, <<>>, s)
<1>1. /\ desk.wake /\ desk.runs = <<>> /\ desk' = takenFrom(desk, n, runs)
      /\ UNCHANGED <<scene, now, prov, writer, fresh, net, front, page, end>>
  BY ShapesFields, ReporterTakesStep DEF GateInv
<1>2. Shapes /\ desk \in Desks /\ balanced(desk) /\ Ledger /\ Arrives
  BY GateTypes DEF GateInv, Ledger
<1>3. s \in Seq(Runs) /\ Len(s) = n /\ n \in 0..(desk.received - desk.reported)
      /\ follows(s, desk.fate, desk.reported)
  BY <1>2, TakenRuns
<1>. HIDE DEF n, s
<1>4. desk'.runs = runs /\ desk'.written = desk.written /\ desk'.reported = desk.reported + n
      /\ desk'.fate = desk.fate /\ desk'.given = desk.given
  <2>. HIDE DEF runs
  <2>. QED BY <1>1, <1>2 DEF takenFrom, Desks
<1>5. Arrives' /\ desk'.runs \in Seq(Runs)
  BY <1>1, <1>2, <1>3, <1>4, ArrivesTakes
<1>. HIDE DEF runs
<1>6. /\ desk' \in Desks /\ balanced(desk') /\ desk'.judge = desk.judge
      /\ desk'.received = desk.received
  <2>1. runs \in Seq(Runs)
    BY <1>4, <1>5
  <2>. QED BY <1>1, <1>2, <2>1, LedgerTakes DEF n
<1>7. Shapes'
  BY <1>1, <1>2, <1>6 DEF Shapes
<1>8. JudgedFairly'
  BY <1>1, <1>4, <1>6, JudgedKept DEF GateInv
<1>9. Departs'
  BY <1>1, <1>6, DepartsKept DEF GateInv
<1>10. Ledger'
  BY <1>6 DEF Ledger
<1>. QED BY <1>1, <1>5, <1>7, <1>8, <1>9, <1>10, ClockKept, CoveredKept, FlowsSame DEF GateInv

\* Writing a result keeps the invariant.
LEMMA ReporterWritesKeeps ==
  ASSUME GateInv, ReporterWrites
  PROVE  GateInv'
<1>. DEFINE v == verdict(Head(desk.runs))
            r == Head(desk.runs).through
<1>1. /\ room /\ desk.runs # <<>> /\ net' = [net EXCEPT !.conn = Append(@, v)]
      /\ desk' = writtenFrom(desk)
      /\ UNCHANGED <<scene, now, prov, writer, fresh, front, page, end>>
  BY ShapesFields, ReporterWritesStep DEF GateInv
<1>2. Shapes /\ desk \in Desks /\ balanced(desk) /\ Ledger /\ Arrives
      /\ net.conn \in Seq(Downward) /\ Len(net.conn) \in Nat
  BY GateTypes DEF GateInv, Ledger
<1>3. Arrives' /\ v \in Downward /\ r > desk.written /\ r <= desk.reported
  BY <1>1, <1>2, ArrivesResult
<1>4. /\ desk' \in Desks /\ balanced(desk') /\ desk'.judge = desk.judge /\ desk'.received = desk.received
      /\ desk'.reported = desk.reported /\ desk'.fate = desk.fate
  BY <1>1, <1>2, <1>3, LedgerWrites
<1>5. desk'.given = desk.given
  BY <1>1, <1>2 DEF writtenFrom, Desks
<1>. HIDE DEF v, r
<1>6. /\ net'.conn = Append(net.conn, v) /\ net'.req = net.req /\ net'.up = net.up
      /\ net' \in [conn : Seq(Downward), req : Seq(Upward), down : Seq(Downward), up : Seq(Upward)]
      /\ Len(net'.conn) <= ConnCap
  <2>. DEFINE c == Append(net.conn, v)
  <2>1. c \in Seq(Downward) /\ net' = [net EXCEPT !.conn = c] /\ Len(c) = Len(net.conn) + 1
    BY <1>1, <1>2, <1>3
  <2>2. Len(c) <= ConnCap
    BY <1>1, <1>2, <2>1, BoundAssumption DEF room
  <2>. HIDE DEF c
  <2>3. /\ net'.conn = c /\ net'.req = net.req /\ net'.up = net.up
        /\ net' \in [conn : Seq(Downward), req : Seq(Upward), down : Seq(Downward), up : Seq(Upward)]
    BY <1>2, <2>1 DEF Shapes
  <2>. QED BY <2>2, <2>3 DEF c
<1>7. Shapes'
  BY <1>1, <1>2, <1>4, <1>6 DEF Shapes
<1>8. JudgedFairly'
  BY <1>1, <1>4, <1>5, JudgedKept DEF GateInv
<1>9. Departs'
  BY <1>1, <1>4, <1>6, DepartsKept DEF GateInv
<1>10. Ledger'
  BY <1>4 DEF Ledger
<1>. QED BY <1>1, <1>3, <1>7, <1>8, <1>9, <1>10, ClockKept, CoveredKept, FlowsSame DEF GateInv


\* One record of a socket to the broker is gone from its queue.
LEMMA ReqTaken ==
  ASSUME Shapes, net.req # <<>>, net' = [net EXCEPT !.req = Tail(@)]
  PROVE  /\ net'.req = Tail(net.req) /\ net'.up = net.up /\ net'.conn = net.conn /\ net'.down = net.down
         /\ net' \in [conn : Seq(Downward), req : Seq(Upward), down : Seq(Downward), up : Seq(Upward)]
<1>. DEFINE q == Tail(net.req)
<1>1. q \in Seq(Upward) /\ net' = [net EXCEPT !.req = q]
  BY GateTypes
<1>. HIDE DEF q
<1>2. /\ net'.req = q /\ net'.up = net.up /\ net'.conn = net.conn /\ net'.down = net.down
      /\ net' \in [conn : Seq(Downward), req : Seq(Upward), down : Seq(Downward), up : Seq(Upward)]
  BY <1>1 DEF Shapes
<1>. QED BY <1>2 DEF q

\* The gate asked of a clock that answers knows what was out a window ago.
LEMMA RequiredIs ==
  ASSUME GateInv, NEW c, c = clockAt(prov.clock, now - Window)
  PROVE  /\ c \in Nat
         /\ prov.clock.known => \/ prov.gone /\ prov.revived
                                \/ \A r \in 1..published : prov.pub[r] <= now - Window => r <= c
<1>1. prov.clock \in Clocks /\ prov.pub \in Seq(Nat) /\ now \in Nat /\ now - Window \in Int
  BY GateTypes, ClockAssumption DEF GateInv
<1>2. c \in Nat
  BY <1>1, ClockAtIs
<1>3. ASSUME ~prov.gone PROVE \A r \in 1..published : prov.pub[r] <= now - Window => r <= c
  <2>1. timeline(prov.clock.marks, prov.pub) /\ reachesBack(prov.clock.marks, prov.pub, prov.clock.pruned, now)
    BY <1>3 DEF GateInv, ClockAnswers
  <2>2. \A r \in 1..Len(prov.pub) : prov.pub[r] <= now - Window => r <= c
    BY <1>1, <2>1, ClockExact
  <2>. QED BY <2>2 DEF published
<1>4. prov.clock.known => ~prov.gone \/ prov.revived
  BY DEF GateInv, ClockBounded
<1>. QED BY <1>2, <1>3, <1>4

\* What the broker reads keeps the invariant.
LEMMA BrokerReadsKeeps ==
  ASSUME GateInv, BrokerReads
  PROVE  GateInv'
<1>. DEFINE m == Head(net.req)
            c == clockAt(prov.clock, now - Window)
            j == [id |-> desk.received + 1, known |-> prov.clock.known, required |-> c,
                  at |-> now, seen |-> m.seen]
<1>1. /\ net.req # <<>> /\ desk.judge = NoJudgement
      /\ \/ /\ m.kind = "ack" /\ (m.n <= fresh.receipted \/ m.n > Len(writer.wire))
            /\ end' = "protocol" /\ UNCHANGED <<fresh, desk, net>>
         \/ /\ m.kind = "ack" /\ ~(m.n <= fresh.receipted \/ m.n > Len(writer.wire))
            /\ fresh' = applyReceipted([fresh EXCEPT !.receipted = m.n])
            /\ net' = [net EXCEPT !.req = Tail(@)] /\ UNCHANGED <<desk, end>>
         \/ end' = "input_backlog" /\ UNCHANGED <<fresh, desk, net>>
         \/ /\ m.kind # "ack" /\ ~(desk.received - desk.written >= MaxInputBacklog)
            /\ desk' = readInto(desk, j)
            /\ net' = [net EXCEPT !.req = Tail(@)] /\ UNCHANGED <<fresh, end>>
      /\ UNCHANGED <<scene, now, prov, writer, front, page>>
  BY ShapesFields, BrokerReadsStep DEF GateInv
<1>2. Shapes /\ Departs /\ Arrives /\ desk \in Desks /\ balanced(desk) /\ fresh \in Gates /\ now \in Nat
      /\ prov.clock \in Clocks /\ Len(writer.wire) \in Nat /\ writer.at \in Nat
  BY GateTypes DEF GateInv, Ledger
<1>3. /\ m \in Upward
      /\ m.kind = "ack" => m.n > fresh.receipted /\ m.n <= front.receipted
      /\ m.kind = "input" => m.n = desk.received + 1 /\ m.seen = fresh.receipted
  BY <1>1, <1>2, ReqHead
<1>4. /\ m.kind \in {"ack", "input"} /\ m.n \in Nat /\ m.seen \in Nat
  BY <1>3, UpwardFacts
<1>5. front.receipted <= Len(writer.wire) /\ fresh.receipted \in Nat /\ front.receipted \in Nat
  <2>1. /\ front.receipted <= front.acked /\ front.acked <= page.acked /\ page.acked <= page.got
        /\ page.got <= front.sent /\ front.sent <= Len(writer.wire)
    BY CountsInOrder
  <2>2. front.acked \in Nat /\ page.acked \in Nat /\ page.got \in Nat /\ front.sent \in Nat
        /\ front.receipted \in Nat /\ fresh.receipted \in Nat
    BY <1>2, GateTypes, ShapeFacts DEF Fronts
  <2>. QED BY <1>2, <2>1, <2>2
<1>. HIDE DEF m, c
<1>6. CASE /\ m.kind = "ack" /\ ~(m.n <= fresh.receipted \/ m.n > Len(writer.wire))
           /\ fresh' = applyReceipted([fresh EXCEPT !.receipted = m.n])
           /\ net' = [net EXCEPT !.req = Tail(@)] /\ UNCHANGED <<desk, end>>
  <2>1. gated(fresh, writer.wire, writer.at)
    BY DEF GateInv, Covered
  <2>2. m.n \in Nat /\ m.n >= fresh.receipted /\ m.n <= Len(writer.wire)
    BY <1>2, <1>3, <1>4, <1>5, <1>6
  <2>3. fresh' \in Gates /\ gated(fresh', writer.wire, writer.at) /\ fresh'.receipted = m.n
    BY <1>2, <1>6, <2>1, <2>2, ReceiptedIs
  <2>4. /\ net'.req = Tail(net.req) /\ net'.up = net.up /\ net'.conn = net.conn /\ net'.down = net.down
        /\ net' \in [conn : Seq(Downward), req : Seq(Upward), down : Seq(Downward), up : Seq(Upward)]
    BY <1>1, <1>2, <1>6, ReqTaken
  <2>5. Shapes'
    BY <1>1, <1>2, <1>6, <2>3, <2>4 DEF Shapes
  <2>6. Covered'
    BY <1>1, <2>3 DEF GateInv, Covered, published
  <2>7. JudgedFairly'
    BY <1>1, <1>6 DEF JudgedFairly
  <2>8. Departs'
    BY <1>1, <1>2, <1>6, <2>3, <2>4, DepartsRead DEF m
  <2>9. Arrives'
    BY <1>1, <1>2, <1>6, <2>4, ArrivesKept
  <2>. QED BY <1>1, <1>6, <2>5, <2>6, <2>7, <2>8, <2>9, ClockKept, LedgerSame, FlowsSame DEF GateInv
<1>7. CASE end' = "input_backlog" /\ UNCHANGED <<fresh, desk, net>>
  BY <1>1, <1>7, EndsKeeps
<1>8. CASE /\ m.kind # "ack" /\ ~(desk.received - desk.written >= MaxInputBacklog)
           /\ desk' = readInto(desk, j)
           /\ net' = [net EXCEPT !.req = Tail(@)] /\ UNCHANGED <<fresh, end>>
  <2>1. /\ c \in Nat
        /\ prov.clock.known => \/ prov.gone /\ prov.revived
                               \/ \A r \in 1..published : prov.pub[r] <= now - Window => r <= c
    BY RequiredIs DEF c
  <2>2. /\ j \in Judgements /\ j.id = desk.received + 1 /\ j.known = prov.clock.known
        /\ j.required = c /\ j.at = now /\ j.seen = m.seen
    <3>1. desk.received \in Nat /\ prov.clock.known \in BOOLEAN
      BY <1>2 DEF Desks, Clocks
    <3>. QED BY <1>2, <1>4, <2>1, <3>1 DEF Judgements
  <2>. HIDE DEF j
  <2>3. /\ desk' \in Desks /\ balanced(desk') /\ desk'.judge = j /\ desk'.received = desk.received + 1
        /\ desk'.runs = desk.runs /\ desk'.written = desk.written /\ desk'.reported = desk.reported
        /\ \A i \in 1..desk.reported : desk'.fate[i] = desk.fate[i]
    BY <1>2, <1>8, <2>2, LedgerReads
  <2>4. desk'.given = desk.given
    BY <1>2, <1>8 DEF readInto, Desks
  <2>5. /\ net'.req = Tail(net.req) /\ net'.up = net.up /\ net'.conn = net.conn /\ net'.down = net.down
        /\ net' \in [conn : Seq(Downward), req : Seq(Upward), down : Seq(Downward), up : Seq(Upward)]
    BY <1>1, <1>2, <1>8, ReqTaken
  <2>6. Shapes'
    BY <1>1, <1>2, <1>8, <2>3, <2>5 DEF Shapes
  <2>7. Ledger'
    BY <2>3 DEF Ledger
  <2>8. m.kind = "input"
    BY <1>4, <1>8
  <2>9. Departs'
    BY <1>1, <1>2, <1>8, <2>3, <2>5, <2>8, DepartsRead DEF m
  <2>10. SubSeq(desk'.fate, 1, desk'.reported) = SubSeq(desk.fate, 1, desk.reported)
    BY <1>2, <2>3, FateKept
  <2>11. Arrives'
    BY <1>1, <1>2, <2>3, <2>5, <2>10, ArrivesKept
  <2>12. JudgedFairly'
    <3>1. desk.received \in Nat /\ \A id \in desk.given : id \in 1..desk.received
      BY <1>2, DeskFacts
    <3>2. j.id > 0 /\ j.id \notin desk.given /\ j.id = desk'.received
      BY <2>2, <2>3, <3>1
    <3>3. j.seen = fresh.receipted /\ j.at <= now
      BY <1>2, <1>3, <2>2, <2>8
    <3>. QED BY <1>1, <1>8, <2>1, <2>2, <2>3, <2>4, <3>2, <3>3 DEF JudgedFairly, published
  <2>. QED BY <1>1, <1>8, <2>6, <2>7, <2>9, <2>11, <2>12, ClockKept, CoveredKept, FlowsSame DEF GateInv
<1>9. ~(m.kind = "ack" /\ (m.n <= fresh.receipted \/ m.n > Len(writer.wire)))
  BY <1>2, <1>3, <1>4, <1>5
<1>. QED BY <1>1, <1>6, <1>7, <1>8, <1>9 DEF m, c

\* What the page parses, types or resumes keeps the invariant.
LEMMA PageActsKeeps ==
  ASSUME GateInv, PageParses \/ PageTypes \/ PageResumes
  PROVE  GateInv'
<1>1. /\ \/ /\ page.acked < page.got /\ page' = [page EXCEPT !.acked = page.got]
            /\ net' = [net EXCEPT !.up = Append(@, ack(page.got))]
         \/ /\ page' = [page EXCEPT !.sent = @ + 1]
            /\ net' = [net EXCEPT !.up = Append(@, input(page.sent + 1, page.acked))]
         \/ page' = [page EXCEPT !.paused = FALSE] /\ net' = net
      /\ UNCHANGED <<scene, now, prov, writer, fresh, desk, front, end>>
  BY ShapesFields, PageActsStep DEF GateInv
<1>2. Shapes /\ Arrives /\ Departs /\ Flows /\ net.up \in Seq(Upward)
      /\ page.got \in Nat /\ page.acked \in Nat /\ page.sent \in Nat
  BY GateTypes, ShapeFacts DEF GateInv
<1>3. /\ page'.got = page.got /\ page'.told = page.told /\ page'.settled = page.settled
      /\ page' \in [got : Nat, acked : Nat, mode : BOOLEAN, sent : Nat, settled : Nat,
                    told : Seq(Outcomes), paused : BOOLEAN]
      /\ page'.acked <= page'.got
      /\ net'.req = net.req /\ net'.conn = net.conn /\ net'.down = net.down
      /\ net' \in [conn : Seq(Downward), req : Seq(Upward), down : Seq(Downward), up : Seq(Upward)]
      /\ Departs'
  <2>1. CASE /\ page.acked < page.got /\ page' = [page EXCEPT !.acked = page.got]
             /\ net' = [net EXCEPT !.up = Append(@, ack(page.got))]
    <3>. DEFINE q == Append(net.up, ack(page.got))
    <3>1. ack(page.got) \in Upward
      BY <1>2 DEF ack, Upward
    <3>2. q \in Seq(Upward) /\ net' = [net EXCEPT !.up = q]
      BY <1>2, <2>1, <3>1
    <3>. HIDE DEF q
    <3>3. /\ net'.req = net.req /\ net'.conn = net.conn /\ net'.down = net.down /\ net'.up = q
          /\ net' \in [conn : Seq(Downward), req : Seq(Upward), down : Seq(Downward), up : Seq(Upward)]
      BY <1>2, <3>2 DEF Shapes
    <3>4. /\ page'.got = page.got /\ page'.told = page.told /\ page'.settled = page.settled
          /\ page'.acked = page.got /\ page'.sent = page.sent
          /\ page' \in [got : Nat, acked : Nat, mode : BOOLEAN, sent : Nat, settled : Nat,
                        told : Seq(Outcomes), paused : BOOLEAN]
      BY <1>2, <2>1 DEF Shapes
    <3>5. Departs'
      BY <1>1, <1>2, <2>1, <3>3, <3>4, DepartsActs DEF q
    <3>. QED BY <1>2, <3>3, <3>4, <3>5
  <2>2. CASE /\ page' = [page EXCEPT !.sent = @ + 1]
             /\ net' = [net EXCEPT !.up = Append(@, input(page.sent + 1, page.acked))]
    <3>. DEFINE q == Append(net.up, input(page.sent + 1, page.acked))
    <3>1. input(page.sent + 1, page.acked) \in Upward
      BY <1>2 DEF input, Upward
    <3>2. q \in Seq(Upward) /\ net' = [net EXCEPT !.up = q]
      BY <1>2, <2>2, <3>1
    <3>. HIDE DEF q
    <3>3. /\ net'.req = net.req /\ net'.conn = net.conn /\ net'.down = net.down /\ net'.up = q
          /\ net' \in [conn : Seq(Downward), req : Seq(Upward), down : Seq(Downward), up : Seq(Upward)]
      BY <1>2, <3>2 DEF Shapes
    <3>4. /\ page'.got = page.got /\ page'.told = page.told /\ page'.settled = page.settled
          /\ page'.acked = page.acked /\ page'.sent = page.sent + 1
          /\ page' \in [got : Nat, acked : Nat, mode : BOOLEAN, sent : Nat, settled : Nat,
                        told : Seq(Outcomes), paused : BOOLEAN]
      <4>. DEFINE k == page.sent + 1
      <4>1. k \in Nat /\ page' = [page EXCEPT !.sent = k]
        BY <1>2, <2>2
      <4>. HIDE DEF k
      <4>2. /\ page'.got = page.got /\ page'.told = page.told /\ page'.settled = page.settled
            /\ page'.acked = page.acked /\ page'.sent = k
            /\ page' \in [got : Nat, acked : Nat, mode : BOOLEAN, sent : Nat, settled : Nat,
                          told : Seq(Outcomes), paused : BOOLEAN]
        BY <1>2, <4>1 DEF Shapes
      <4>. QED BY <4>2 DEF k
    <3>5. Departs'
      BY <1>1, <1>2, <3>3, <3>4, DepartsActs DEF q
    <3>. QED BY <1>2, <3>3, <3>4, <3>5 DEF Flows
  <2>3. CASE page' = [page EXCEPT !.paused = FALSE] /\ net' = net
    <3>1. /\ page'.got = page.got /\ page'.told = page.told /\ page'.settled = page.settled
          /\ page'.acked = page.acked /\ page'.sent = page.sent
          /\ page' \in [got : Nat, acked : Nat, mode : BOOLEAN, sent : Nat, settled : Nat,
                        told : Seq(Outcomes), paused : BOOLEAN]
      BY <1>2, <2>3 DEF Shapes
    <3>2. Departs'
      BY <1>1, <1>2, <2>3, <3>1, DepartsKept
    <3>. QED BY <1>2, <2>3, <3>1, <3>2 DEF Flows, Shapes
  <2>. QED BY <1>1, <2>1, <2>2, <2>3
<1>4. Shapes'
  BY <1>1, <1>2, <1>3 DEF Shapes
<1>5. Arrives'
  BY <1>1, <1>2, <1>3, ArrivesKept
<1>6. Flows'
  BY <1>1, <1>2, <1>3 DEF Flows, flowing
<1>7. JudgedFairly'
  BY <1>1, JudgedKept DEF GateInv
<1>. QED BY <1>1, <1>3, <1>4, <1>5, <1>6, <1>7, ClockKept, CoveredKept, LedgerSame DEF GateInv

\* What the page reads keeps the invariant.
LEMMA PageReadsKeeps ==
  ASSUME GateInv, PageReads
  PROVE  GateInv'
<1>. DEFINE m == Head(net.down)
            more == [i \in 1..(m.n - page.settled) |-> m.code]
            t == atPage(thePage, m)
<1>1. /\ net.down # <<>>
      /\ \/ /\ m.kind = "input" /\ (m.n <= page.settled \/ m.n > page.sent)
            /\ end' = "malformed" /\ UNCHANGED <<net, page>>
         \/ /\ m.kind = "input"
            /\ page' = [page EXCEPT !.settled = m.n, !.paused = @ \/ m.code = "paused", !.told = @ \o more]
            /\ net' = [net EXCEPT !.down = Tail(@)] /\ UNCHANGED end
         \/ /\ m.kind # "input"
            /\ page' = [page EXCEPT !.got = @ + 1, !.mode = @ \/ m.kind = "mode"]
            /\ net' = [net EXCEPT !.down = Tail(@)] /\ UNCHANGED end
      /\ UNCHANGED <<scene, now, prov, writer, fresh, desk, front>>
  BY ShapesFields, PageReadsStep DEF GateInv
<1>2. Shapes /\ Arrives /\ Departs /\ Flows /\ net.down \in Seq(Downward)
      /\ page.got \in Nat /\ page.acked \in Nat /\ page.sent \in Nat /\ page.told \in Seq(Outcomes)
      /\ page.settled \in Nat
  BY GateTypes, ShapeFacts DEF GateInv, Shapes
<1>3. m \in Downward /\ (m.kind = "input" => m.n > page.settled /\ m.n <= front.inputsSettled)
  BY <1>1, <1>2, DownHead
<1>4. m.kind \in {"frame", "mode", "input"} /\ m.n \in Nat
  BY <1>3, DownwardFacts
<1>5. m.kind = "input" => m.n <= page.sent
  <2>1. /\ front.inputsSettled <= desk.written /\ desk.written <= desk.reported
        /\ desk.reported <= desk.received /\ desk.received <= front.inputsRelayed
        /\ front.inputsRelayed <= page.sent
    BY CountsInOrder
  <2>2. /\ front.inputsSettled \in Nat /\ desk.written \in Nat /\ desk.reported \in Nat
        /\ desk.received \in Nat /\ front.inputsRelayed \in Nat
    BY <1>2, GateTypes DEF Fronts, Desks
  <2>. QED BY <1>2, <1>3, <1>4, <2>1, <2>2
<1>. HIDE DEF m
<1>6. thePage \in PageStates /\ thePage.got = page.got /\ thePage.told = page.told
  BY <1>2 DEF thePage, PageStates
<1>7. page.settled = Len(page.told)
  BY <1>2 DEF Arrives
<1>8. ASSUME net' = [net EXCEPT !.down = Tail(@)]
      PROVE  /\ net'.req = net.req /\ net'.conn = net.conn /\ net'.up = net.up /\ net'.down = Tail(net.down)
             /\ net' \in [conn : Seq(Downward), req : Seq(Upward), down : Seq(Downward), up : Seq(Upward)]
  <2>. DEFINE q == Tail(net.down)
  <2>1. q \in Seq(Downward) /\ net' = [net EXCEPT !.down = q]
    BY <1>1, <1>2, <1>8
  <2>. HIDE DEF q
  <2>2. /\ net'.req = net.req /\ net'.conn = net.conn /\ net'.up = net.up /\ net'.down = q
        /\ net' \in [conn : Seq(Downward), req : Seq(Upward), down : Seq(Downward), up : Seq(Upward)]
    BY <1>2, <2>1 DEF Shapes
  <2>. QED BY <2>2 DEF q
<1>9. CASE /\ m.kind = "input"
           /\ page' = [page EXCEPT !.settled = m.n, !.paused = @ \/ m.code = "paused", !.told = @ \o more]
           /\ net' = [net EXCEPT !.down = Tail(@)] /\ UNCHANGED end
  <2>1. m.n > Len(thePage.told) /\ thePage.got >= 0 /\ more = [i \in 1..(m.n - Len(thePage.told)) |-> m.code]
    BY <1>2, <1>3, <1>6, <1>7, <1>9
  <2>2. /\ more \in Seq(Outcomes) /\ Len(more) = m.n - Len(thePage.told)
        /\ t.got = thePage.got /\ t.told = thePage.told \o more /\ t \in PageStates
    BY <1>3, <1>6, <1>9, <2>1, AtPageResult
  <2>. DEFINE told == page.told \o more
  <2>3. told \in Seq(Outcomes) /\ Len(told) = m.n
    <3>. HIDE DEF more
    <3>1. told \in Seq(Outcomes) /\ Len(told) = Len(page.told) + Len(more)
      BY <1>2, <2>2, ConcatProperties
    <3>. QED BY <1>2, <1>4, <1>6, <1>7, <2>2, <3>1
  <2>. HIDE DEF more
  <2>4. page' = [page EXCEPT !.settled = m.n, !.paused = @ \/ m.code = "paused", !.told = told]
    BY <1>9
  <2>. HIDE DEF told
  <2>5. /\ page'.got = page.got /\ page'.acked = page.acked /\ page'.sent = page.sent
        /\ page'.told = told /\ page'.settled = m.n
        /\ page' \in [got : Nat, acked : Nat, mode : BOOLEAN, sent : Nat, settled : Nat,
                      told : Seq(Outcomes), paused : BOOLEAN]
    BY <1>2, <1>4, <2>3, <2>4 DEF Shapes
  <2>. HIDE DEF t
  <2>6. thePage' = t
    <3>1. t.got = page.got /\ t.told = told
      BY <1>6, <2>2 DEF told
    <3>2. t = [got |-> t.got, told |-> t.told]
      BY <2>2 DEF PageStates
    <3>. QED BY <2>5, <3>1, <3>2 DEF thePage
  <2>7. Arrives'
    BY <1>1, <1>2, <1>8, <1>9, <2>3, <2>5, <2>6, ArrivesRead DEF t, m
  <2>8. Shapes'
    BY <1>1, <1>2, <1>8, <1>9, <2>5 DEF Shapes
  <2>9. Flows'
    BY <1>1, <1>2, <2>5 DEF Flows, flowing
  <2>10. Departs' /\ JudgedFairly'
    BY <1>1, <1>2, <1>8, <1>9, <2>5, DepartsKept, JudgedKept DEF GateInv
  <2>. QED BY <1>1, <2>7, <2>8, <2>9, <2>10, ClockKept, CoveredKept, LedgerSame DEF GateInv
<1>10. CASE /\ m.kind # "input"
            /\ page' = [page EXCEPT !.got = @ + 1, !.mode = @ \/ m.kind = "mode"]
            /\ net' = [net EXCEPT !.down = Tail(@)] /\ UNCHANGED end
  <2>1. t \in PageStates /\ t.got = page.got + 1 /\ t.told = page.told
    BY <1>2, <1>3, <1>6, <1>10, AtPageFrame
  <2>. HIDE DEF t
  <2>2. /\ page'.got = page.got + 1 /\ page'.acked = page.acked /\ page'.sent = page.sent
        /\ page'.told = page.told /\ page'.settled = page.settled
        /\ page' \in [got : Nat, acked : Nat, mode : BOOLEAN, sent : Nat, settled : Nat,
                      told : Seq(Outcomes), paused : BOOLEAN]
    <3>. DEFINE k == page.got + 1
                on == page.mode \/ m.kind = "mode"
    <3>1. k \in Nat /\ on \in BOOLEAN /\ page' = [page EXCEPT !.got = k, !.mode = on]
      BY <1>2, <1>10
    <3>. HIDE DEF k, on
    <3>2. /\ page'.got = k /\ page'.acked = page.acked /\ page'.sent = page.sent
          /\ page'.told = page.told /\ page'.settled = page.settled
          /\ page' \in [got : Nat, acked : Nat, mode : BOOLEAN, sent : Nat, settled : Nat,
                        told : Seq(Outcomes), paused : BOOLEAN]
      BY <1>2, <3>1 DEF Shapes
    <3>. QED BY <3>2 DEF k
  <2>3. thePage' = t
    <3>1. t = [got |-> t.got, told |-> t.told]
      BY <2>1 DEF PageStates
    <3>. QED BY <2>1, <2>2, <3>1 DEF thePage
  <2>4. Arrives'
    BY <1>1, <1>2, <1>7, <1>8, <1>10, <2>2, <2>3, ArrivesRead DEF t, m
  <2>5. Shapes'
    BY <1>1, <1>2, <1>8, <1>10, <2>2 DEF Shapes
  <2>6. Flows'
    BY <1>1, <1>2, <2>2 DEF Flows, flowing
  <2>7. Departs' /\ JudgedFairly'
    BY <1>1, <1>2, <1>8, <1>10, <2>2, DepartsKept, JudgedKept DEF GateInv
  <2>. QED BY <1>1, <2>4, <2>5, <2>6, <2>7, ClockKept, CoveredKept, LedgerSame DEF GateInv
<1>11. ~(m.kind = "input" /\ (m.n <= page.settled \/ m.n > page.sent))
  BY <1>2, <1>3, <1>4, <1>5
<1>. QED BY <1>1, <1>9, <1>10, <1>11 DEF m


\* What the relay reads of the broker keeps the invariant.
LEMMA FrontReadsBrokerKeeps ==
  ASSUME GateInv, FrontReadsBroker
  PROVE  GateInv'
<1>. DEFINE m == Head(net.conn)
            c == Tail(net.conn)
            q == Append(net.down, m)
<1>1. /\ net.conn # <<>> /\ front.inflight < FlowWindow
      /\ \/ /\ m.kind = "input" /\ (m.n <= front.inputsSettled \/ m.n > front.inputsRelayed)
            /\ end' = "broker_protocol" /\ UNCHANGED <<net, front>>
         \/ /\ m.kind = "input" /\ front' = [front EXCEPT !.inputsSettled = m.n]
            /\ net' = [net EXCEPT !.conn = Tail(@), !.down = Append(@, m)] /\ UNCHANGED end
         \/ /\ m.kind # "input"
            /\ front' = relayed(front, m.size)
            /\ net' = [net EXCEPT !.conn = Tail(@), !.down = Append(@, m)] /\ UNCHANGED end
      /\ UNCHANGED <<scene, now, prov, writer, fresh, desk, page>>
  BY ShapesFields, FrontReadsBrokerStep DEF GateInv
<1>2. Shapes /\ Arrives /\ Departs /\ Flows /\ front \in Fronts /\ flowing(front) /\ now \in Nat
      /\ net.conn \in Seq(Downward) /\ net.down \in Seq(Downward) /\ Len(net.conn) \in Nat
  BY GateTypes DEF GateInv, Flows
<1>3. m \in Downward /\ (m.kind = "input" => m.n > front.inputsSettled /\ m.n <= desk.written)
  BY <1>1, <1>2, ConnHead
<1>4. /\ m.kind \in {"frame", "mode", "input"} /\ m.n \in Nat /\ m.size \in Nat
      /\ m.kind # "input" => m.size > 0 /\ m.size <= MaxSize
  BY <1>3, DownwardFacts
<1>5. m.kind = "input" => m.n <= front.inputsRelayed
  <2>1. /\ desk.written <= desk.reported /\ desk.reported <= desk.received
        /\ desk.received <= front.inputsRelayed
    BY CountsInOrder
  <2>2. desk.written \in Nat /\ desk.reported \in Nat /\ desk.received \in Nat /\ front.inputsRelayed \in Nat
    BY <1>2, GateTypes DEF Fronts, Desks
  <2>. QED BY <1>3, <1>4, <2>1, <2>2
<1>6. front.inputsSettled \in Nat /\ front.inputsRelayed \in Nat
  BY <1>2 DEF Fronts
<1>7. c \in Seq(Downward) /\ q \in Seq(Downward) /\ Len(c) <= ConnCap
  <2>1. Len(c) = Len(net.conn) - 1 /\ c \in Seq(Downward)
    BY <1>1, <1>2
  <2>2. Len(net.conn) <= ConnCap
    BY <1>2 DEF Shapes
  <2>3. q \in Seq(Downward)
    BY <1>2, <1>3
  <2>. QED BY <1>2, <2>1, <2>2, <2>3, BoundAssumption
<1>. HIDE DEF m
<1>8. ASSUME net' = [net EXCEPT !.conn = Tail(@), !.down = Append(@, m)]
      PROVE  /\ net'.req = net.req /\ net'.up = net.up
             /\ net' \in [conn : Seq(Downward), req : Seq(Upward), down : Seq(Downward), up : Seq(Upward)]
             /\ Len(net'.conn) <= ConnCap
  <2>1. net' = [net EXCEPT !.conn = c, !.down = q]
    BY <1>8
  <2>. HIDE DEF c, q
  <2>. QED BY <1>2, <1>7, <2>1 DEF Shapes
<1>. HIDE DEF c, q
<1>9. CASE /\ m.kind = "input" /\ front' = [front EXCEPT !.inputsSettled = m.n]
           /\ net' = [net EXCEPT !.conn = Tail(@), !.down = Append(@, m)] /\ UNCHANGED end
  <2>1. /\ front' \in Fronts /\ front'.inputsSettled = m.n /\ front'.sent = front.sent
        /\ front'.acked = front.acked /\ front'.receipted = front.receipted
        /\ front'.inputsRelayed = front.inputsRelayed /\ front'.sizes = front.sizes
        /\ front'.inflight = front.inflight /\ front'.armed = front.armed
        /\ front'.acknowledged = front.acknowledged
    BY <1>2, <1>4, <1>9 DEF Fronts
  <2>2. Flows'
    BY <1>1, <1>2, <2>1 DEF Flows, flowing
  <2>3. Arrives'
    BY <1>1, <1>2, <1>9, <2>1, ArrivesRelayed DEF m
  <2>4. Shapes'
    BY <1>1, <1>2, <1>8, <1>9, <2>1 DEF Shapes
  <2>5. Departs'
    BY <1>1, <1>2, <1>8, <1>9, <2>1, DepartsKept
  <2>6. JudgedFairly'
    BY <1>1, JudgedKept DEF GateInv
  <2>. QED BY <1>1, <2>2, <2>3, <2>4, <2>5, <2>6, ClockKept, CoveredKept, LedgerSame DEF GateInv
<1>10. CASE /\ m.kind # "input"
            /\ front' = relayed(front, m.size)
            /\ net' = [net EXCEPT !.conn = Tail(@), !.down = Append(@, m)] /\ UNCHANGED end
  <2>1. /\ front' \in Fronts /\ flowing(front') /\ front'.inflight # 0
        /\ front'.sent = front.sent + 1 /\ front'.acked = front.acked /\ front'.receipted = front.receipted
        /\ front'.inputsRelayed = front.inputsRelayed /\ front'.inputsSettled = front.inputsSettled
    BY <1>1, <1>2, <1>4, <1>10, RelayedIs
  <2>2. Flows'
    BY <1>1, <1>2, <2>1 DEF Flows
  <2>3. Arrives'
    BY <1>1, <1>2, <1>10, <2>1, ArrivesRelayed DEF m
  <2>4. Shapes'
    BY <1>1, <1>2, <1>8, <1>10, <2>1 DEF Shapes
  <2>5. Departs'
    BY <1>1, <1>2, <1>8, <1>10, <2>1, DepartsKept
  <2>6. JudgedFairly'
    BY <1>1, JudgedKept DEF GateInv
  <2>. QED BY <1>1, <2>2, <2>3, <2>4, <2>5, <2>6, ClockKept, CoveredKept, LedgerSame DEF GateInv
<1>11. ~(m.kind = "input" /\ (m.n <= front.inputsSettled \/ m.n > front.inputsRelayed))
  BY <1>3, <1>4, <1>5, <1>6
<1>. QED BY <1>1, <1>9, <1>10, <1>11 DEF m

\* The relay read its page: the rest of the state is as it was.
LEMMA RelayKeeps ==
  ASSUME GateInv, front' \in Fronts, flowing(front'), front'.inflight = 0 => front'.receipted = front'.acked,
         front'.sent = front.sent, front'.inputsSettled = front.inputsSettled, Departs',
         net'.conn = net.conn, net'.down = net.down,
         net' \in [conn : Seq(Downward), req : Seq(Upward), down : Seq(Downward), up : Seq(Upward)],
         UNCHANGED <<scene, now, prov, writer, fresh, desk, page, end>>
  PROVE  GateInv'
<1>1. Shapes'
  BY DEF GateInv, Shapes
<1>2. Arrives'
  BY ArrivesKept DEF GateInv
<1>3. Flows'
  BY DEF GateInv, Flows
<1>4. JudgedFairly'
  BY JudgedKept DEF GateInv
<1>. QED BY <1>1, <1>2, <1>3, <1>4, ClockKept, CoveredKept, LedgerSame DEF GateInv

\* What the relay does to its two queues: one read, and at most two written.
relays2(p, q) == [net EXCEPT !.up = p, !.req = q]

\* The queues between the page and the broker, by name.
LEMMA QueuesIs ==
  ASSUME Shapes, NEW p \in Seq(Upward), NEW q \in Seq(Upward), net' = relays2(p, q)
  PROVE  /\ net'.conn = net.conn /\ net'.down = net.down /\ net'.up = p /\ net'.req = q
         /\ net' \in [conn : Seq(Downward), req : Seq(Upward), down : Seq(Downward), up : Seq(Upward)]
BY DEF Shapes, relays2

\* What the relay reads of the page keeps the invariant.
LEMMA FrontReadsPageKeeps ==
  ASSUME GateInv, FrontReadsPage
  PROVE  GateInv'
<1>. DEFINE m == Head(net.up)
            u == Tail(net.up)
            f == acked(front, m.n)
<1>1. /\ net.up # <<>>
      /\ \/ end' = "flow_stalled" /\ UNCHANGED <<net, front>>
         \/ /\ m.kind # "input" /\ (m.n <= front.acked \/ m.n > front.sent)
            /\ end' = "bad_flow" /\ UNCHANGED <<net, front>>
         \/ /\ m.kind # "input" /\ ~(m.n <= front.acked \/ m.n > front.sent)
            /\ \/ /\ front' = receiptOf(f)
                  /\ net' = [net EXCEPT !.up = Tail(@), !.req = Append(@, ack(f.acknowledged))]
               \/ /\ f.inflight # 0 /\ front' = f
                  /\ net' = [net EXCEPT !.up = Tail(@)]
            /\ UNCHANGED end
         \/ /\ m.kind = "input"
            /\ \/ /\ front.acknowledged > front.receipted
                  /\ front' = [receiptOf(front) EXCEPT !.inputsRelayed = @ + 1]
                  /\ net' = [net EXCEPT !.up = Tail(@),
                                        !.req = Append(Append(@, ack(front.acknowledged)), m)]
               \/ /\ ~(front.acknowledged > front.receipted)
                  /\ front' = [front EXCEPT !.inputsRelayed = @ + 1]
                  /\ net' = [net EXCEPT !.up = Tail(@), !.req = Append(@, m)]
            /\ UNCHANGED end
      /\ UNCHANGED <<scene, now, prov, writer, fresh, desk, page>>
  BY ShapesFields, FrontReadsPageStep DEF GateInv
<1>2. Shapes /\ Arrives /\ Departs /\ Flows /\ front \in Fronts /\ flowing(front) /\ now \in Nat
      /\ net.up \in Seq(Upward) /\ net.req \in Seq(Upward)
  BY GateTypes DEF GateInv, Flows
<1>3. /\ m \in Upward
      /\ m.kind = "ack" => m.n > front.acked /\ m.n <= page.acked
      /\ m.kind = "input" => m.n = front.inputsRelayed + 1 /\ m.seen = front.acked
  BY <1>1, <1>2, UpHead
<1>4. m.kind \in {"ack", "input"} /\ m.n \in Nat
  BY <1>3, UpwardFacts
<1>5. /\ front.acked \in Nat /\ front.sent \in Nat /\ front.receipted \in Nat
      /\ front.acknowledged = front.acked /\ front.receipted <= front.acked
      /\ front.inputsRelayed \in Nat /\ page.acked <= front.sent /\ page.acked \in Nat
  <2>1. page.acked <= page.got /\ page.got <= front.sent /\ page.acked \in Nat /\ page.got \in Nat
    BY <1>2, CountsInOrder, ShapeFacts
  <2>. QED BY <1>2, <2>1, FrontFacts
<1>6. u \in Seq(Upward)
  BY <1>1, <1>2
<1>7. u = Tail(net.up) /\ m = Head(net.up)
  OBVIOUS
<1>. HIDE DEF m, u
<1>8. CASE m.kind # "input" /\ UNCHANGED end /\ ~(m.n <= front.acked \/ m.n > front.sent)
           /\ \/ /\ front' = receiptOf(f)
                 /\ net' = [net EXCEPT !.up = Tail(@), !.req = Append(@, ack(f.acknowledged))]
              \/ /\ f.inflight # 0 /\ front' = f
                 /\ net' = [net EXCEPT !.up = Tail(@)]
  <2>1. m.kind = "ack" /\ m.n > front.acked /\ m.n <= front.sent
    BY <1>3, <1>4, <1>5, <1>8
  <2>2. /\ f \in Fronts /\ flowing(f) /\ f.acked = m.n /\ f.acknowledged = m.n
        /\ f.sent = front.sent /\ f.receipted = front.receipted
        /\ f.inputsRelayed = front.inputsRelayed /\ f.inputsSettled = front.inputsSettled
    BY <1>2, <1>4, <2>1, AckedIs
  <2>. HIDE DEF f
  <2>3. CASE /\ front' = receiptOf(f)
             /\ net' = [net EXCEPT !.up = Tail(@), !.req = Append(@, ack(f.acknowledged))]
    <3>1. /\ front' \in Fronts /\ flowing(front') /\ front'.acked = m.n /\ front'.receipted = m.n
          /\ front'.sent = front.sent /\ front'.inputsSettled = front.inputsSettled
          /\ front'.inputsRelayed = front.inputsRelayed
      <4>1. /\ front' \in Fronts /\ flowing(front') /\ front'.acked = f.acked /\ front'.receipted = f.acked
            /\ front'.sent = f.sent /\ front'.inputsSettled = f.inputsSettled
            /\ front'.inputsRelayed = f.inputsRelayed
        BY <1>2, <2>2, <2>3, ReceiptIs
      <4>. QED BY <2>2, <4>1
    <3>. DEFINE q == Append(net.req, ack(m.n))
    <3>2. q \in Seq(Upward)
      <4>1. ack(m.n) \in Upward
        BY <1>4 DEF ack, Upward
      <4>. QED BY <1>2, <4>1
    <3>3. net' = relays2(u, q)
      BY <1>7, <2>2, <2>3 DEF relays2
    <3>. HIDE DEF q
    <3>4. /\ net'.conn = net.conn /\ net'.down = net.down /\ net'.up = u /\ net'.req = q
          /\ net' \in [conn : Seq(Downward), req : Seq(Upward), down : Seq(Downward), up : Seq(Upward)]
      BY <1>2, <1>6, <3>2, <3>3, QueuesIs
    <3>5. Departs'
      BY <1>1, <1>2, <1>5, <1>7, <2>1, <3>1, <3>4, DepartsAcked DEF q
    <3>. QED BY <1>1, <1>8, <3>1, <3>4, <3>5, RelayKeeps
  <2>4. CASE f.inflight # 0 /\ front' = f /\ net' = [net EXCEPT !.up = Tail(@)]
    <3>1. net' = relays2(u, net.req)
      BY <1>2, <1>7, <2>4 DEF relays2, Shapes
    <3>2. /\ net'.conn = net.conn /\ net'.down = net.down /\ net'.up = u /\ net'.req = net.req
          /\ net' \in [conn : Seq(Downward), req : Seq(Upward), down : Seq(Downward), up : Seq(Upward)]
      BY <1>2, <1>6, <3>1, QueuesIs
    <3>3. Departs'
      BY <1>1, <1>2, <1>5, <1>7, <2>1, <2>2, <2>4, <3>2, DepartsAcked
    <3>. QED BY <1>1, <1>8, <2>2, <2>4, <3>2, <3>3, RelayKeeps
  <2>. QED BY <1>8, <2>3, <2>4
<1>9. CASE m.kind = "input" /\ UNCHANGED end
           /\ \/ /\ front.acknowledged > front.receipted
                 /\ front' = [receiptOf(front) EXCEPT !.inputsRelayed = @ + 1]
                 /\ net' = [net EXCEPT !.up = Tail(@),
                                       !.req = Append(Append(@, ack(front.acknowledged)), m)]
              \/ /\ ~(front.acknowledged > front.receipted)
                 /\ front' = [front EXCEPT !.inputsRelayed = @ + 1]
                 /\ net' = [net EXCEPT !.up = Tail(@), !.req = Append(@, m)]
  <2>1. CASE /\ front.acknowledged > front.receipted
             /\ front' = [receiptOf(front) EXCEPT !.inputsRelayed = @ + 1]
             /\ net' = [net EXCEPT !.up = Tail(@),
                                   !.req = Append(Append(@, ack(front.acknowledged)), m)]
    <3>1. /\ front' \in Fronts /\ flowing(front') /\ front'.acked = front.acked /\ front'.receipted = front.acked
          /\ front'.sent = front.sent /\ front'.inputsSettled = front.inputsSettled
          /\ front'.inputsRelayed = front.inputsRelayed + 1
      <4>. DEFINE g == receiptOf(front)
      <4>1. /\ g \in Fronts /\ g.inputsRelayed = front.inputsRelayed
        BY <1>2, ReceiptIs
      <4>. HIDE DEF g
      <4>2. front'.inputsRelayed = front.inputsRelayed + 1 /\ front' = [g EXCEPT !.inputsRelayed = @ + 1]
        <5>1. front' = [g EXCEPT !.inputsRelayed = @ + 1]
          BY <2>1 DEF g
        <5>. QED BY <1>5, <4>1, <5>1 DEF Fronts
      <4>3. /\ front' \in Fronts /\ flowing(front') /\ front'.acked = front.acked /\ front'.receipted = front.acked
            /\ front'.sent = front.sent /\ front'.inputsSettled = front.inputsSettled
        BY <1>2, <2>1, ReceiptIs
      <4>. QED BY <4>2, <4>3
    <3>. DEFINE q == Append(Append(net.req, ack(front.acked)), m)
    <3>2. q \in Seq(Upward)
      <4>1. ack(front.acked) \in Upward
        BY <1>5 DEF ack, Upward
      <4>. QED BY <1>2, <1>3, <4>1
    <3>3. net' = relays2(u, q)
      BY <1>5, <1>7, <2>1 DEF relays2
    <3>. HIDE DEF q
    <3>4. /\ net'.conn = net.conn /\ net'.down = net.down /\ net'.up = u /\ net'.req = q
          /\ net' \in [conn : Seq(Downward), req : Seq(Upward), down : Seq(Downward), up : Seq(Upward)]
      BY <1>2, <1>6, <3>2, <3>3, QueuesIs
    <3>5. Departs'
      BY <1>1, <1>2, <1>5, <1>7, <1>9, <2>1, <3>1, <3>4, DepartsTyped DEF q
    <3>. QED BY <1>1, <1>9, <3>1, <3>4, <3>5, RelayKeeps
  <2>2. CASE /\ ~(front.acknowledged > front.receipted)
             /\ front' = [front EXCEPT !.inputsRelayed = @ + 1]
             /\ net' = [net EXCEPT !.up = Tail(@), !.req = Append(@, m)]
    <3>1. front.receipted = front.acked
      BY <1>5, <2>2
    <3>2. /\ front' \in Fronts /\ front'.acked = front.acked /\ front'.receipted = front.acked
          /\ front'.sent = front.sent /\ front'.inputsSettled = front.inputsSettled
          /\ front'.inputsRelayed = front.inputsRelayed + 1
          /\ front'.sizes = front.sizes /\ front'.inflight = front.inflight /\ front'.armed = front.armed
          /\ front'.acknowledged = front.acknowledged
      <4>. DEFINE k == front.inputsRelayed + 1
      <4>1. k \in Nat /\ front' = [front EXCEPT !.inputsRelayed = k]
        BY <1>5, <2>2
      <4>. HIDE DEF k
      <4>2. /\ front' \in Fronts /\ front'.acked = front.acked /\ front'.receipted = front.acked
            /\ front'.sent = front.sent /\ front'.inputsSettled = front.inputsSettled
            /\ front'.inputsRelayed = k
            /\ front'.sizes = front.sizes /\ front'.inflight = front.inflight /\ front'.armed = front.armed
            /\ front'.acknowledged = front.acknowledged
        BY <1>2, <3>1, <4>1 DEF Fronts
      <4>. QED BY <4>2 DEF k
    <3>3. flowing(front')
      BY <1>2, <3>1, <3>2 DEF flowing
    <3>. DEFINE q == Append(net.req, m)
    <3>4. q \in Seq(Upward)
      BY <1>2, <1>3
    <3>5. net' = relays2(u, q)
      BY <1>7, <2>2 DEF relays2
    <3>. HIDE DEF q
    <3>6. /\ net'.conn = net.conn /\ net'.down = net.down /\ net'.up = u /\ net'.req = q
          /\ net' \in [conn : Seq(Downward), req : Seq(Upward), down : Seq(Downward), up : Seq(Upward)]
      BY <1>2, <1>6, <3>4, <3>5, QueuesIs
    <3>7. Departs'
      BY <1>1, <1>2, <1>5, <1>7, <1>9, <3>1, <3>2, <3>6, DepartsTyped DEF q
    <3>. QED BY <1>1, <1>9, <3>2, <3>3, <3>6, <3>7, RelayKeeps
  <2>. QED BY <1>9, <2>1, <2>2
<1>10. CASE end' = "flow_stalled" /\ UNCHANGED <<net, front>>
  BY <1>1, <1>10, EndsKeeps
<1>11. ~(m.kind # "input" /\ (m.n <= front.acked \/ m.n > front.sent))
  BY <1>3, <1>4, <1>5
<1>. QED BY <1>1, <1>8, <1>9, <1>10, <1>11 DEF m


\* A clock made anew has one mark, and nothing was dropped.
LEMMA FirstMark ==
  ASSUME NEW at \in Nat, NEW e, e = observe(NewClock, at, 1)
  PROVE  /\ bounded(e, at, 1) /\ e.known = TRUE /\ e.pruned = FALSE
         /\ Len(e.marks) = 1 /\ e.marks[1].at = at /\ e.marks[1].sequence = 1
<1>1. /\ NewClock \in Clocks /\ NewClock.marks = <<>> /\ NewClock.known = TRUE /\ NewClock.pruned = FALSE
  <2>1. NoClock \in Clocks /\ NoClock.marks = <<>> /\ NoClock.pruned = FALSE
    BY DEF NoClock, Clocks
  <2>2. NewClock = [NoClock EXCEPT !.known = TRUE]
    BY DEF NewClock
  <2>. HIDE DEF NoClock, NewClock
  <2>. QED BY <2>1, <2>2 DEF Clocks
<1>. HIDE DEF NewClock
<1>. DEFINE m == <<>>
            q == marked(m, at, 1)
<1>2. m \in Seq(Marks) /\ Len(m) = 0 /\ NewClock.marks = m
  BY <1>1
<1>3. bounded(NewClock, at, 0)
  <2>1. FrontierMarks \in Nat
    BY BoundAssumption
  <2>. HIDE DEF m
  <2>. QED BY <1>1, <1>2, <2>1 DEF bounded
<1>. HIDE DEF m
<1>4. markedSo(m, q, at, 1)
  <2>1. m \in Seq(Marks) /\ 1 \in Nat /\ \A i \in 1..Len(m) : m[i].sequence <= 1 /\ m[i].at <= at
    BY <1>2
  <2>. HIDE DEF q
  <2>. QED BY <2>1, MarkedIs DEF q
<1>. HIDE DEF q
<1>5. q \in Seq(Marks) /\ q # <<>> /\ Len(q) = 1 /\ q[1].at = at /\ q[1].sequence = 1
  <2>1. Len(q) = 1
    BY <1>2, <1>4 DEF markedSo, m
  <2>. QED BY <1>2, <1>4, <2>1 DEF markedSo, m
<1>6. PICK d : droppedSo(q, d, at) /\ observe(NewClock, at, 1) = without(NewClock, q, d)
  <2>1. q = marked(NewClock.marks, at, 1) /\ 1 \in Nat
    BY <1>2 DEF q
  <2>. QED BY <1>1, <1>5, <2>1, ObserveIs
<1>7. d = 0
  BY <1>5, <1>6 DEF droppedSo
<1>. DEFINE s == SubSeq(q, 0 + 1, Len(q))
<1>8. s \in Seq(Marks) /\ Len(s) = 1 /\ s[1] = q[1]
  <2>1. Len(s) = Len(q) - 0 /\ s \in Seq(Marks) /\ \A i \in 1..(Len(q) - 0) : s[i] = q[0 + i]
    BY <1>5, DropIs
  <2>. HIDE DEF s
  <2>. QED BY <1>5, <2>1
<1>9. e = [NewClock EXCEPT !.marks = s, !.pruned = @ \/ 0 > 0]
  BY <1>6, <1>7 DEF without
<1>. HIDE DEF s
<1>10. e.marks = s /\ e.pruned = FALSE /\ e.known = TRUE
  <2>1. ~(0 > 0)
    OBVIOUS
  <2>2. e = [NewClock EXCEPT !.marks = s, !.pruned = FALSE]
    BY <1>1, <1>9, <2>1
  <2>. QED BY <1>1, <2>2 DEF Clocks
<1>11. bounded(e, at, 0 + 1)
  BY <1>3, ObserveBounded
<1>. QED BY <1>5, <1>8, <1>10, <1>11

\* The initial states have the invariant.
LEMMA InitKeeps ==
  ASSUME Init
  PROVE  GateInv
<1>. DEFINE none == <<>>
            clock == observe(NewClock, 0, 1)
<1>1. /\ scene \in Scenes /\ now = 0 /\ end = "no"
      /\ prov = [pub |-> <<0>>, clock |-> clock, gone |-> FALSE, revived |-> FALSE]
      /\ writer = [wire |-> none, at |-> 0, part |-> FALSE, owes |-> 0, live |-> FALSE, granted |-> FALSE]
      /\ fresh = [marks |-> none, receipted |-> 0, consumed |-> 0, paused |-> FALSE, refusedAt |-> 0]
      /\ desk = [judge |-> NoJudgement, received |-> 0, reported |-> 0, written |-> 0, window |-> none,
                 wake |-> FALSE, runs |-> none, given |-> {}, fate |-> none]
      /\ net = [conn |-> none, req |-> none, down |-> none, up |-> none]
      /\ front = [sizes |-> none, sent |-> 0, acked |-> 0, inflight |-> 0, armed |-> FALSE, deadline |-> 0,
                  acknowledged |-> 0, receipted |-> 0, receiptSent |-> -ReceiptInterval,
                  inputsRelayed |-> 0, inputsSettled |-> 0]
      /\ page = [got |-> 0, acked |-> 0, mode |-> FALSE, sent |-> 0, settled |-> 0, told |-> none,
                 paused |-> FALSE]
  BY DEF Init
<1>2. \A S : none \in Seq(S)
  OBVIOUS
<1>3. Len(none) = 0
  OBVIOUS
<1>. HIDE DEF none
<1>4. /\ clock \in Clocks /\ bounded(clock, 0, 1) /\ clock.known = TRUE /\ clock.pruned = FALSE
      /\ Len(clock.marks) = 1 /\ clock.marks[1].at = 0 /\ clock.marks[1].sequence = 1
  <2>1. /\ bounded(clock, 0, 1) /\ clock.known = TRUE /\ clock.pruned = FALSE
        /\ Len(clock.marks) = 1 /\ clock.marks[1].at = 0 /\ clock.marks[1].sequence = 1
    BY FirstMark
  <2>. HIDE DEF clock
  <2>. QED BY <2>1 DEF bounded
<1>. HIDE DEF clock
<1>5. /\ scene.horizon \in Nat /\ scene.records \in Nat /\ scene.records >= 1
      /\ FlowWindow \in Nat /\ ConnCap \in Nat /\ ReceiptInterval \in Nat /\ Resolution \in Nat
      /\ Resolution >= 1 /\ Window \in Nat /\ DeliveredMarks \in Nat /\ MaxInputBacklog \in Nat
  BY <1>1, SceneAssumption, BoundAssumption, ClockAssumption
<1>6. <<0>> \in Seq(Nat) /\ Len(<<0>>) = 1 /\ <<0>>[1] = 0
  OBVIOUS
<1>7. NoJudgement \in Judgements
  BY DEF NoJudgement, Judgements
<1>. HIDE DEF NoJudgement
<1>8. Shapes
  <2>1. prov \in [pub : Seq(Nat), clock : Clocks, gone : BOOLEAN, revived : BOOLEAN]
    BY <1>1, <1>4, <1>6
  <2>2. writer \in [wire : Seq(Nat), at : Nat, part : BOOLEAN, owes : Nat, live : BOOLEAN, granted : BOOLEAN]
    BY <1>1, <1>2
  <2>3. fresh \in Gates
    BY <1>1, <1>2 DEF Gates
  <2>4. desk \in Desks
    BY <1>1, <1>2, <1>7 DEF Desks
  <2>5. net \in [conn : Seq(Downward), req : Seq(Upward), down : Seq(Downward), up : Seq(Upward)]
    BY <1>1, <1>2
  <2>6. front \in Fronts
    <3>1. -ReceiptInterval \in Int
      BY <1>5
    <3>. QED BY <1>1, <1>2, <3>1 DEF Fronts
  <2>7. page \in [got : Nat, acked : Nat, mode : BOOLEAN, sent : Nat, settled : Nat,
                  told : Seq(Outcomes), paused : BOOLEAN]
    BY <1>1, <1>2
  <2>8. now \in 0..scene.horizon /\ Len(net.conn) <= ConnCap
    BY <1>1, <1>3, <1>5
  <2>. QED BY <1>1, <2>1, <2>2, <2>3, <2>4, <2>5, <2>6, <2>7, <2>8 DEF Shapes
<1>9. /\ prov.pub = <<0>> /\ published = 1 /\ prov.clock = clock /\ prov.gone = FALSE /\ prov.revived = FALSE
  BY <1>1, <1>6 DEF published
<1>10. ClockBounded
  BY <1>1, <1>4, <1>5, <1>6, <1>9 DEF ClockBounded
<1>11. ClockAnswers
  <2>1. clock.marks # <<>>
    BY <1>4
  <2>2. timeline(clock.marks, <<0>>)
    BY <1>4, <1>5, <1>6, <2>1 DEF timeline
  <2>3. reachesBack(clock.marks, <<0>>, FALSE, now)
    BY <1>4, <1>6 DEF reachesBack
  <2>. QED BY <1>4, <1>9, <2>2, <2>3 DEF ClockAnswers
<1>12. Covered
  <2>1. /\ writer.wire = none /\ writer.at = 0 /\ writer.owes = 0 /\ fresh.marks = none
        /\ fresh.receipted = 0 /\ fresh.consumed = 0
    BY <1>1
  <2>2. holds(none, 0, 0)
    BY DEF holds
  <2>. QED BY <1>3, <1>5, <1>9, <2>1, <2>2 DEF Covered, gated
<1>13. JudgedFairly
  BY <1>1 DEF JudgedFairly
<1>14. Ledger
  <2>1. SubSeq(none, 0 + 1, 0) = none
    BY DEF none
  <2>2. none = <<>>
    BY DEF none
  <2>3. /\ desk.received = 0 /\ desk.reported = 0 /\ desk.written = 0 /\ desk.window = none
        /\ desk.given = {} /\ desk.fate = none
    BY <1>1
  <2>. QED BY <1>3, <1>5, <2>1, <2>2, <2>3 DEF Ledger, balanced
<1>15. Arrives
  <2>0. none = <<>>
    BY DEF none
  <2>1. \A b : FoldLeft(atPage, b, none) = b
    BY <2>0, PageFold, P!FoldEmpty
  <2>2. net.down = none /\ net.conn = none /\ desk.runs = none /\ page.told = none /\ page.got = 0
        /\ page.settled = 0 /\ front.sent = 0 /\ front.inputsSettled = 0 /\ writer.wire = none
        /\ desk.written = 0 /\ desk.fate = none /\ desk.reported = 0
    BY <1>1
  <2>3. verdicts(none) = none
    <3>1. none \in Seq(Runs)
      BY <1>2
    <3>2. verdicts(none) \in Seq(Downward) /\ Len(verdicts(none)) = 0
      BY <1>3, <3>1, VerdictsType
    <3>3. \A u \in Seq(Downward) : Len(u) = 0 => u = <<>>
      OBVIOUS
    <3>. QED BY <2>0, <3>2, <3>3
  <2>4. SubSeq(none, 1, 0) = none
    BY DEF none
  <2>5. thePage = [got |-> 0, told |-> none]
    BY <2>2 DEF thePage
  <2>6. afterDown = [got |-> 0, told |-> none]
    BY <2>1, <2>2, <2>5 DEF afterDown
  <2>7. afterConn = [got |-> 0, told |-> none]
    BY <2>1, <2>2, <2>6 DEF afterConn
  <2>8. afterRuns = [got |-> 0, told |-> none]
    BY <2>1, <2>2, <2>3, <2>7 DEF afterRuns
  <2>. QED BY <1>3, <2>2, <2>4, <2>6, <2>7, <2>8 DEF Arrives
<1>16. Departs
  <2>1. \A b : FoldLeft(atBroker, b, none) = b
    BY BrokerFold, B!FoldEmpty DEF none
  <2>2. /\ net.req = none /\ net.up = none /\ front.receipted = 0 /\ front.inputsRelayed = 0
        /\ fresh.receipted = 0 /\ desk.received = 0 /\ front.acked = 0 /\ page.acked = 0 /\ page.sent = 0
    BY <1>1
  <2>. QED BY <2>1, <2>2 DEF Departs, theBroker, theRelay, reader
<1>17. Flows
  <2>1. total(none) = 0
    BY TotalFold, N!FoldEmpty DEF none
  <2>2. /\ front.sizes = none /\ front.sent = 0 /\ front.acked = 0 /\ front.inflight = 0
        /\ front.armed = FALSE /\ front.acknowledged = 0 /\ front.receipted = 0
        /\ page.acked = 0 /\ page.got = 0
    BY <1>1
  <2>3. MaxSize \in Nat /\ MaxSize >= 1
    BY SizesBounded
  <2>4. 0 < FlowWindow + MaxSize
    BY <1>5, <2>3
  <2>. QED BY <1>3, <2>1, <2>2, <2>4 DEF Flows, flowing
<1>. QED BY <1>8, <1>10, <1>11, <1>12, <1>13, <1>14, <1>15, <1>16, <1>17 DEF GateInv

\* Every step keeps the invariant.
LEMMA NextKeeps ==
  ASSUME GateInv, [Next]_vars
  PROVE  GateInv'
<1>1. ASSUME GraceEnds \/ StallFires PROVE GateInv'
  BY <1>1, ShapesFields, EndsStep, EndsKeeps DEF GateInv
<1>. QED BY <1>1, NextCases, PublishKeeps, ForgetKeeps, WriterWritesKeeps, WriterRecordsKeeps, ModeGrantedKeeps,
            BrokerReadsKeeps, BrokerJudgesKeeps, EpochSettlesKeeps, ReporterTakesKeeps, ReporterWritesKeeps,
            FrontReadsPageKeeps, FrontReadsBrokerKeeps, PageReadsKeeps, PageActsKeeps, TickKeeps, UnchangedKeeps

\* Every reachable state of the gate has the invariant.
THEOREM GateSafe == Spec => []GateInv
<1>1. Init => GateInv
  BY InitKeeps
<1>2. GateInv /\ [Next]_vars => GateInv'
  BY NextKeeps
<1>. QED BY SMTT(30), <1>1, <1>2, PTL DEF Spec


(***************************************************************************)
(* What the invariant says.                                                *)
(***************************************************************************)
\* A sequence all of whose elements are in a smaller set.
LEMMA Narrowed ==
  ASSUME NEW S, NEW T, NEW q \in Seq(S), \A i \in 1..Len(q) : q[i] \in T
  PROVE  q \in Seq(T)
OBVIOUS

\* The invariant implies the type invariant,
LEMMA TypesHold ==
  ASSUME GateInv
  PROVE  TypeOK
<1>1. Shapes /\ prov.clock \in Clocks /\ fresh \in Gates /\ desk \in Desks /\ balanced(desk)
      /\ now \in Nat /\ published \in Nat /\ Len(writer.wire) \in Nat /\ writer.at \in Nat
  BY GateTypes DEF GateInv, Ledger
<1>2. published <= scene.records /\ scene.records <= Len(Sizes) /\ Len(Sizes) \in Nat /\ scene.records \in Nat
  BY SMTT(30), <1>1, SceneAssumption DEF GateInv, ClockBounded, Shapes
<1>3. \A n \in 1..published : n \in records
  BY <1>1, <1>2 DEF records
<1>4. /\ prov.clock.marks \in Seq([at : 0..now, sequence : records])
      /\ Len(prov.clock.marks) <= FrontierMarks
  <2>. DEFINE m == prov.clock.marks
              T == [at : 0..now, sequence : records]
  <2>1. m \in Seq(Marks) /\ Len(m) <= FrontierMarks
    BY <1>1 DEF Clocks, GateInv, ClockBounded, bounded
  <2>2. \A i \in 1..Len(m) : m[i] \in T
    <3>. TAKE i \in 1..Len(m)
    <3>1. m[i].at \in 0..now /\ m[i].sequence \in records
      <4>1. m[i].at <= now /\ m[i].sequence \in 1..published
        BY DEF GateInv, ClockBounded, bounded
      <4>2. m[i].at \in Nat
        BY <2>1, MarkFacts
      <4>. QED BY <1>1, <1>3, <4>1, <4>2
    <3>2. m[i] \in Marks
      BY <2>1
    <3>. HIDE DEF m
    <3>. QED BY <3>1, <3>2 DEF Marks
  <2>. HIDE DEF m, T
  <2>3. m \in Seq(T)
    BY <2>1, <2>2, Narrowed
  <2>. QED BY <2>1, <2>3 DEF m, T
<1>5. /\ fresh.marks \in Seq([frames : 1..Len(writer.wire), sequence : records])
      /\ Len(fresh.marks) <= DeliveredMarks
  <2>. DEFINE m == fresh.marks
              T == [frames : 1..Len(writer.wire), sequence : records]
  <2>1. m \in Seq(Delivered) /\ Len(m) <= DeliveredMarks
    BY <1>1, GateFacts DEF GateInv, Covered, gated
  <2>2. \A i \in 1..Len(m) : m[i] \in T
    <3>. TAKE i \in 1..Len(m)
    <3>1. m[i].frames \in 1..Len(writer.wire) /\ m[i].sequence \in records
      <4>1. m[i].frames \in 1..Len(writer.wire) /\ m[i].sequence \in 1..writer.at /\ writer.at <= published
        BY DEF GateInv, Covered, gated
      <4>. QED BY <1>1, <1>3, <4>1
    <3>2. m[i] \in Delivered
      BY <2>1
    <3>. HIDE DEF m
    <3>. QED BY <3>1, <3>2 DEF Delivered
  <2>. HIDE DEF m, T
  <2>3. m \in Seq(T)
    BY <2>1, <2>2, Narrowed
  <2>. QED BY <2>1, <2>3 DEF m, T
<1>6. /\ desk.received - desk.written \in 0..MaxInputBacklog
      /\ Len(desk.window) = desk.received - desk.reported
      /\ desk.window \in Seq(Settled) /\ desk.fate \in Seq(Settled)
  <2>1. /\ desk.received \in Nat /\ desk.written \in Nat /\ desk.reported \in Nat
        /\ desk.written <= desk.reported /\ desk.reported <= desk.received
        /\ desk.received - desk.written <= MaxInputBacklog
        /\ Len(desk.window) = desk.received - desk.reported
        /\ desk.window \in Seq(Settled) /\ desk.fate \in Seq(Settled)
    BY <1>1, DeskFacts
  <2>. QED BY <2>1, BoundAssumption
<1>7. \A q \in Seq(Settled) : Range(q) \subseteq Outcomes \cup {"none"}
  BY DEF Range, Settled
<1>. QED BY <1>1, <1>4, <1>5, <1>6, <1>7 DEF TypeOK, Shapes

\* the exactness of the frontier,
LEMMA ExactHolds ==
  ASSUME GateInv
  PROVE  FrontierExact
<1>. DEFINE c == clockAt(prov.clock, now - Window)
            old == {n \in DOMAIN prov.pub : prov.pub[n] <= now - Window}
            near == {n \in DOMAIN prov.pub : prov.pub[n] <= now - Window + Resolution - 1}
<1>1. SUFFICES ASSUME ~prov.gone PROVE c >= Cardinality(old) /\ c <= Cardinality(near)
  BY DEF FrontierExact
<1>2. prov.clock \in Clocks /\ prov.pub \in Seq(Nat) /\ now \in Nat /\ published \in Nat
      /\ DOMAIN prov.pub = 1..published /\ prov.clock.marks \in Seq(Marks)
      /\ Window \in Nat /\ Resolution \in Nat
  BY GateTypes, ClockAssumption DEF GateInv, published, Clocks
<1>3. /\ timeline(prov.clock.marks, prov.pub)
      /\ reachesBack(prov.clock.marks, prov.pub, prov.clock.pruned, now)
  BY <1>1 DEF GateInv, ClockAnswers
<1>4. /\ c \in Nat
      /\ \A r \in 1..published : prov.pub[r] <= now - Window => r <= c
      /\ \A r \in 1..published : r <= c => prov.pub[r] <= now - Window + Resolution - 1
  BY <1>2, <1>3, ClockExact DEF published
<1>5. c <= published
  <2>1. \A i \in 1..Len(prov.clock.marks) : prov.clock.marks[i].sequence \in 1..published
    BY DEF GateInv, ClockBounded, bounded
  <2>. DEFINE m == prov.clock.marks
              past == {i \in DOMAIN m : m[i].at <= now - Window}
  <2>2. m \in Seq(Marks) /\ Len(m) \in Nat /\ DOMAIN m = 1..Len(m) /\ \A i \in 1..Len(m) : m[i].sequence <= published
    BY <1>2, <2>1
  <2>3. CASE past # {}
    <3>1. past \in SUBSET (0..Len(m))
      BY <2>2
    <3>2. Max(past) \in past
      <4>. HIDE DEF past
      <4>. QED BY <2>2, <2>3, <3>1, MaxIs
    <3>3. c = m[Max(past)].sequence /\ Max(past) \in 1..Len(m)
      BY <2>2, <2>3, <3>2 DEF clockAt
    <3>. QED BY <2>2, <3>3
  <2>4. CASE past = {}
    <3>1. c = IF prov.clock.pruned /\ m # <<>> THEN m[1].sequence ELSE 0
      BY <2>4 DEF clockAt
    <3>2. m # <<>> => 1 \in 1..Len(m)
      BY <2>2
    <3>. QED BY <1>2, <2>2, <3>1, <3>2
  <2>. QED BY <2>3, <2>4
<1>. HIDE DEF c
<1>6. IsFiniteSet(1..c) /\ Cardinality(1..c) = c
  <2>1. IsFiniteSet(1..c) /\ Cardinality(1..c) = IF 1 > c THEN 0 ELSE c - 1 + 1
    BY <1>4, FS_Interval
  <2>. QED BY <1>4, <2>1
<1>7. IsFiniteSet(1..published)
  <2>1. published \in Int
    BY <1>2
  <2>. HIDE DEF c, old, near
  <2>2. 1 \in Int
    OBVIOUS
  <2>. QED BY <2>1, <2>2, FS_Interval
<1>8. old \in SUBSET (1..c)
  BY <1>2, <1>4
<1>9. near \in SUBSET (1..published) /\ 1..c \in SUBSET near
  BY <1>2, <1>4, <1>5
<1>. HIDE DEF old, near
<1>10. Cardinality(old) <= c
  <2>1. Cardinality(old) <= Cardinality(1..c)
    BY <1>6, <1>8, FS_Subset
  <2>. QED BY <1>6, <2>1
<1>11. c <= Cardinality(near)
  <2>1. IsFiniteSet(near)
    BY <1>7, <1>9, FS_Subset
  <2>2. Cardinality(1..c) <= Cardinality(near)
    BY <1>9, <2>1, FS_Subset
  <2>. QED BY <1>6, <2>2
<1>12. Cardinality(old) \in Nat
  BY <1>6, <1>8, FS_Subset, FS_CardinalityType
<1>. QED BY <1>4, <1>10, <1>11, <1>12

\* the truth of the results,
LEMMA ResultsHold ==
  ASSUME GateInv
  PROVE  ResultsAreTrue
<1>1. Shapes /\ Arrives /\ desk \in Desks /\ balanced(desk)
  BY GateTypes DEF GateInv, Ledger
<1>2. /\ page.told \in Seq(Outcomes) /\ desk.fate \in Seq(Settled) /\ page.settled = Len(page.told)
      /\ page.settled \in Nat
  BY <1>1, ShapeFacts DEF Arrives
<1>3. /\ desk.reported \in Nat /\ desk.received \in Nat /\ desk.written \in Nat
      /\ Len(desk.fate) = desk.received /\ desk.reported <= desk.received /\ desk.written <= desk.reported
      /\ (desk.window # <<>> /\ desk.window[1] # "none" => desk.wake) /\ desk.window \in Seq(Settled)
  BY <1>1, DeskFacts
<1>4. page.settled <= desk.written
  <2>1. page.settled <= front.inputsSettled /\ front.inputsSettled <= desk.written
    BY CountsInOrder
  <2>2. front.inputsSettled \in Nat
    BY <1>1, GateTypes DEF Fronts
  <2>. QED BY <1>2, <1>3, <2>1, <2>2
<1>. DEFINE k == page.settled
            d == SubSeq(desk.fate, 1, desk.reported)
            s == SubSeq(desk.fate, 1, k)
<1>5. /\ d \in Seq(Settled) /\ Len(d) = desk.reported
      /\ \A i \in 1..desk.reported : d[i] = desk.fate[i]
  BY <1>2, <1>3
<1>6. k <= desk.reported /\ k <= Len(desk.fate)
  BY <1>2, <1>3, <1>4
<1>7. /\ s \in Seq(Settled) /\ Len(s) = k /\ \A i \in 1..k : s[i] = desk.fate[i]
  BY <1>2, <1>3, <1>6
<1>. HIDE DEF d, s
<1>8. \A i \in 1..k : page.told[i] = desk.fate[i]
  <2>1. /\ afterDown \in onward(thePage) /\ afterConn \in onward(afterDown)
        /\ afterRuns \in onward(theDesk) /\ theDesk.told = afterConn.told
    BY <1>1, ArrivesStates
  <2>2. thePage.told = page.told /\ afterRuns.told = d
    BY <1>1 DEF thePage, Arrives, d
  <2>3. /\ Len(afterDown.told) >= Len(page.told) /\ \A i \in 1..Len(page.told) : afterDown.told[i] = page.told[i]
        /\ Len(afterConn.told) >= Len(afterDown.told)
        /\ \A i \in 1..Len(afterDown.told) : afterConn.told[i] = afterDown.told[i]
        /\ \A i \in 1..Len(afterConn.told) : d[i] = afterConn.told[i]
    BY <2>1, <2>2 DEF onward
  <2>4. Len(afterDown.told) \in Nat /\ Len(afterConn.told) \in Nat
    BY <1>1, ArrivesStates, PageStateFacts
  <2>. TAKE i \in 1..k
  <2>5. i \in 1..Len(page.told) /\ i \in 1..Len(afterDown.told) /\ i \in 1..Len(afterConn.told)
        /\ i \in 1..desk.reported
    BY <1>2, <1>3, <1>6, <2>3, <2>4
  <2>. QED BY <1>5, <2>3, <2>5
<1>9. page.told = s
  <2>1. \A i \in 1..k : page.told[i] = s[i]
    BY <1>7, <1>8
  <2>2. page.told \in Seq(Settled) /\ Len(page.told) = k
    BY <1>2 DEF Settled
  <2>. QED BY <1>7, <2>1, <2>2, SeqEqual
<1>10. "none" \notin Range(page.told)
  <2>1. "none" \notin Outcomes
    BY DEF Outcomes
  <2>. QED BY <1>2, <2>1 DEF Range
<1>11. desk.window # <<>> /\ Head(desk.window) # "none" /\ desk.runs = <<>> => desk.wake
  <2>1. desk.window # <<>> => Head(desk.window) = desk.window[1]
    BY <1>3
  <2>. QED BY <1>3, <2>1
<1>. QED BY <1>2, <1>3, <1>4, <1>9, <1>10, <1>11 DEF ResultsAreTrue, s

\* The frames among the messages of a queue.
framesOf(s) == {i \in DOMAIN s : s[i].kind # "input"}

\* The frames in a queue are those the page will count.
LEMMA FramesCount ==
  ASSUME NEW st \in PageStates, NEW s \in Seq(Downward), P!fold(st, s).got >= 0
  PROVE  /\ IsFiniteSet(framesOf(s))
         /\ P!fold(st, s).got = st.got + Cardinality(framesOf(s))
<1>. DEFINE S == {u \in Seq(Downward) : IsFiniteSet(framesOf(u)) /\
                    (P!fold(st, u).got >= 0 => P!fold(st, u).got = st.got + Cardinality(framesOf(u)))}
<1>1. <<>> \in S
  <2>1. framesOf(<<>>) = {}
    BY DEF framesOf
  <2>2. P!fold(st, <<>>) = st
    BY P!FoldEmpty
  <2>3. st.got \in Int
    BY PageStateFacts
  <2>4. IsFiniteSet({}) /\ Cardinality({}) = 0
    BY FS_EmptySet
  <2>5. <<>> \in Seq(Downward)
    OBVIOUS
  <2>. DEFINE e == <<>>
              n == Cardinality(framesOf(e))
  <2>6. e \in Seq(Downward) /\ IsFiniteSet(framesOf(e)) /\ n = 0 /\ P!fold(st, e).got = st.got
    BY <2>1, <2>2, <2>4, <2>5
  <2>. HIDE DEF n
  <2>7. st.got = st.got + n
    BY <2>3, <2>6
  <2>. HIDE DEF e
  <2>8. e \in S
    BY <2>6, <2>7 DEF n
  <2>. QED BY <2>8 DEF e
<1>2. \A u \in Seq(Downward), m \in Downward : u \in S => Append(u, m) \in S
  <2>. TAKE u \in Seq(Downward), m \in Downward
  <2>1. SUFFICES ASSUME u \in S PROVE Append(u, m) \in S
    OBVIOUS
  <2>. DEFINE t == P!fold(st, u)
              v == Append(u, m)
              k == Len(u) + 1
  <2>2. t \in PageStates /\ P!fold(st, v) = atPage(t, m)
    <3>1. t \in onward(st)
      BY PageGoesOn
    <3>. QED BY <3>1, P!FoldAppend DEF onward
  <2>3. /\ v \in Seq(Downward) /\ Len(v) = k /\ v[k] = m /\ DOMAIN v = 1..k /\ DOMAIN u = 1..Len(u)
        /\ \A i \in 1..Len(u) : v[i] = u[i]
    OBVIOUS
  <2>4. Len(u) \in Nat /\ k \in Nat
    OBVIOUS
  <2>5. /\ IsFiniteSet(framesOf(u)) /\ k \notin framesOf(u) /\ Cardinality(framesOf(u)) \in Nat
        /\ (t.got >= 0 => t.got = st.got + Cardinality(framesOf(u)))
    <3>1. IsFiniteSet(framesOf(u)) /\ (t.got >= 0 => t.got = st.got + Cardinality(framesOf(u)))
      BY <2>1
    <3>2. k \notin framesOf(u)
      BY <2>3, <2>4 DEF framesOf
    <3>. QED BY <3>1, <3>2, FS_CardinalityType
  <2>. HIDE DEF S, t, v, k
  <2>6. st.got \in Int /\ t.got \in Int
    BY <2>2, PageStateFacts
  <2>7. CASE m.kind = "input"
    <3>1. framesOf(v) = framesOf(u)
      <4>1. \A i : i \in framesOf(v) <=> i \in framesOf(u)
        <5>. TAKE i
        <5>1. i \in 1..k <=> i \in 1..Len(u) \/ i = k
          BY <2>4 DEF k
        <5>. QED BY <2>3, <2>5, <2>7, <5>1 DEF framesOf
      <4>. QED BY <4>1
    <3>2. atPage(t, m).got >= 0 => t.got >= 0 /\ atPage(t, m).got = t.got
      <4>1. CASE t.got < 0 \/ (m.kind = "input" /\ m.n <= Len(t.told))
        <5>1. atPage(t, m).got = -1
          BY <2>2, <4>1, AtPageRefuses
        <5>. QED BY <5>1
      <4>2. CASE t.got >= 0 /\ m.kind = "input" /\ m.n > Len(t.told)
        BY <2>2, <4>2, AtPageResult
      <4>. QED BY <2>2, <2>7, <4>1, <4>2, AtPageCases
    <3>3. P!fold(st, v).got >= 0 => P!fold(st, v).got = st.got + Cardinality(framesOf(v))
      BY <2>2, <2>5, <3>1, <3>2
    <3>. QED BY <2>3, <2>5, <3>1, <3>3 DEF S, v
  <2>8. CASE m.kind # "input"
    <3>1. framesOf(v) = framesOf(u) \cup {k}
      <4>1. \A i : i \in framesOf(v) <=> i \in framesOf(u) \/ i = k
        <5>. TAKE i
        <5>1. (i \in 1..k <=> i \in 1..Len(u) \/ i = k) /\ k \in 1..k
          BY <2>4 DEF k
        <5>. QED BY <2>3, <2>5, <2>8, <5>1 DEF framesOf
      <4>. QED BY <4>1
    <3>2. IsFiniteSet(framesOf(v)) /\ Cardinality(framesOf(v)) = Cardinality(framesOf(u)) + 1
      BY <2>5, <3>1, FS_AddElement
    <3>3. atPage(t, m).got >= 0 => t.got >= 0 /\ atPage(t, m).got = t.got + 1
      <4>1. CASE t.got < 0 \/ (m.kind = "input" /\ m.n <= Len(t.told))
        <5>1. atPage(t, m).got = -1
          BY <2>2, <4>1, AtPageRefuses
        <5>. QED BY <5>1
      <4>2. CASE t.got >= 0 /\ m.kind # "input"
        BY <2>2, <4>2, AtPageFrame
      <4>. QED BY <2>2, <2>8, <4>1, <4>2, AtPageCases
    <3>4. P!fold(st, v).got >= 0 => P!fold(st, v).got = st.got + Cardinality(framesOf(v))
      <4>1. SUFFICES ASSUME atPage(t, m).got >= 0
                     PROVE  atPage(t, m).got = st.got + Cardinality(framesOf(v))
        BY <2>2
      <4>2. atPage(t, m).got = t.got + 1 /\ t.got = st.got + Cardinality(framesOf(u))
        BY <2>5, <3>3, <4>1
      <4>. QED BY <2>5, <2>6, <3>2, <4>2
    <3>. QED BY <2>3, <3>2, <3>4 DEF S, v
  <2>. QED BY <2>7, <2>8
<1>3. s \in S
  <2>. HIDE DEF S
  <2>1. Seq(Downward) \subseteq S
    BY <1>1, <1>2, P!SequenceInduct
  <2>. QED BY <2>1
<1>. QED BY <1>3

\* and the balance of the flow window.
LEMMA BalanceHolds ==
  ASSUME GateInv
  PROVE  FlowBalances
<1>1. Shapes /\ Arrives /\ front \in Fronts /\ flowing(front) /\ net.down \in Seq(Downward)
  BY GateTypes DEF GateInv, Flows
<1>2. page.got + Cardinality(framesOf(net.down)) = front.sent
  <2>1. thePage \in PageStates /\ afterDown = P!fold(thePage, net.down) /\ afterDown.got >= 0
    BY <1>1, ArrivesStates
  <2>2. afterDown.got = thePage.got + Cardinality(framesOf(net.down))
    BY <1>1, <2>1, FramesCount
  <2>3. thePage.got = page.got /\ afterDown.got = front.sent
    BY <1>1 DEF thePage, Arrives
  <2>. QED BY <2>2, <2>3
<1>3. front.acked <= page.acked
  BY CountsInOrder
<1>4. front.inflight < FlowWindow + Max(Range(Sizes) \cup {1})
  BY <1>1, FrontFacts DEF MaxSize
<1>5. /\ front.inflight = total(front.sizes) /\ Len(front.sizes) = front.sent - front.acked
      /\ (front.armed <=> front.inflight > 0)
  BY <1>1, FrontFacts
<1>6. front.inflight = 0 => front.receipted = front.acked
  BY DEF GateInv, Flows
<1>. QED BY <1>2, <1>3, <1>4, <1>5, <1>6 DEF FlowBalances, framesOf

\* An input that goes to the terminal was judged with the gate open.
LEMMA JudgedStep ==
  ASSUME GateInv, BrokerJudges
  PROVE  /\ fresh.receipted = desk.judge.seen
         /\ desk.judge.id \in desk'.given /\ ~(prov.gone /\ prov.revived) => upToDate
<1>. DEFINE j == desk.judge
            d == [desk EXCEPT !.judge = NoJudgement]
<1>1. /\ j # NoJudgement
      /\ \/ /\ j.known /\ fresh.consumed >= j.required
            /\ desk' = [desk EXCEPT !.judge = NoJudgement, !.given = @ \cup {j.id}]
         \/ desk' = settle(d, j.id, "refused")
         \/ desk' = settle(d, j.id, "paused")
  BY ShapesFields, BrokerJudgesStep DEF GateInv
<1>2. Shapes /\ desk \in Desks /\ balanced(desk) /\ fresh \in Gates /\ prov.pub \in Seq(Nat) /\ j \in Judgements
  BY GateTypes DEF GateInv, Ledger, Desks
<1>3. /\ j.id = desk.received /\ j.id > 0 /\ j.id \notin desk.given /\ j.seen = fresh.receipted
      /\ j.known => \/ prov.gone /\ prov.revived
                    \/ \A r \in 1..published : prov.pub[r] <= j.at - Window => r <= j.required
  BY <1>1 DEF GateInv, JudgedFairly
<1>4. j.id \in desk'.given => j.known /\ fresh.consumed >= j.required
  <2>1. CASE \E result \in Outcomes : desk' = settle(d, j.id, result)
    <3>0. NoJudgement \in Judgements
      BY DEF NoJudgement, Judgements
    <3>1. /\ d \in Desks /\ d.given = desk.given
          /\ d.received = desk.received /\ d.reported = desk.reported
          /\ d.written = desk.written /\ d.runs = desk.runs /\ d.fate = desk.fate
          /\ d.window = desk.window /\ d.wake = desk.wake
      <4>. HIDE DEF NoJudgement
      <4>. QED BY <1>2, <3>0 DEF Desks
    <3>2. PICK result \in Outcomes : desk' = settle(d, j.id, result)
      BY <2>1
    <3>. HIDE DEF d
    <3>3. balanced(d)
      BY <1>2, <3>1 DEF balanced
    <3>4. j.id \in 1..d.received
      <4>1. desk.received \in Nat
        BY <1>2 DEF Desks
      <4>. QED BY <1>3, <3>1, <4>1
    <3>. HIDE DEF j
    <3>5. desk'.given = d.given
      BY <3>1, <3>2, <3>3, <3>4, SettleIs
    <3>. QED BY <1>3, <3>1, <3>5
  <2>2. "refused" \in Outcomes /\ "paused" \in Outcomes
    BY DEF Outcomes
  <2>. QED BY <1>1, <2>1, <2>2
<1>5. ASSUME j.id \in desk'.given, ~(prov.gone /\ prov.revived),
             NEW r \in DOMAIN prov.pub, prov.pub[r] <= j.at - Window
      PROVE  shown(r, j.seen)
  <2>1. r \in 1..published /\ DOMAIN prov.pub = 1..published /\ published \in Nat
    BY <1>2, <1>5 DEF published
  <2>2. r <= j.required /\ fresh.consumed >= j.required /\ j.required \in Nat /\ fresh.consumed \in Nat
    BY <1>2, <1>3, <1>4, <1>5, <2>1, GateFacts DEF Judgements
  <2>3. r \in 1..fresh.consumed
    BY <2>1, <2>2
  <2>4. holds(writer.wire, fresh.consumed, fresh.receipted)
    BY DEF GateInv, Covered, gated
  <2>5. \E i \in 1..fresh.receipted : writer.wire[i] = r
    BY <2>3, <2>4 DEF holds
  <2>. QED BY <1>3, <2>5 DEF shown
<1>. QED BY <1>3, <1>5 DEF upToDate

\* Nothing else takes a judgement off the desk.
LEMMA JudgementStays ==
  ASSUME GateInv, [Next]_vars, ~BrokerJudges, desk.judge # NoJudgement
  PROVE  desk'.judge = desk.judge
<1>1. Shapes /\ Fields /\ desk \in Desks /\ balanced(desk)
  BY ShapesFields, GateTypes DEF GateInv, Ledger
<1>2. ASSUME NEW id, EpochSettles(id) PROVE desk'.judge = desk.judge
  <2>. DEFINE g == desk.given \ {id}
              d == [desk EXCEPT !.given = g]
  <2>1. /\ id \in desk.given
        /\ \E result \in {"written", "partial", "dropped"} : desk' = settle(d, id, result)
    BY <1>1, <1>2, EpochSettlesStep
  <2>2. id \in 1..desk.received /\ g \in SUBSET Nat /\ g \subseteq desk.given
        /\ \A x \in g : x \in 1..desk.received
    BY <1>1, <2>1, DeskFacts
  <2>. HIDE DEF g
  <2>3. /\ d \in Desks /\ d.judge = desk.judge /\ d.given = g
        /\ d.received = desk.received /\ d.reported = desk.reported
        /\ d.written = desk.written /\ d.runs = desk.runs /\ d.fate = desk.fate
        /\ d.window = desk.window /\ d.wake = desk.wake
    BY <1>1, <2>2 DEF Desks
  <2>. HIDE DEF d
  <2>4. balanced(d) /\ id \in 1..d.received
    BY <1>1, <2>2, <2>3 DEF balanced
  <2>5. PICK result \in Outcomes : desk' = settle(d, id, result)
    BY <2>1 DEF Outcomes
  <2>. QED BY <2>3, <2>4, <2>5, SettleIs
<1>3. ASSUME ReporterTakes PROVE desk'.judge = desk.judge
  BY <1>1, <1>3, ReporterTakesStep DEF takenFrom, Desks
<1>4. ASSUME ReporterWrites PROVE desk'.judge = desk.judge
  BY <1>1, <1>4, ReporterWritesStep DEF writtenFrom, Desks
<1>5. ASSUME BrokerReads PROVE desk'.judge = desk.judge
  BY <1>1, <1>5, BrokerReadsStep
<1>6. ASSUME Publish \/ LateFeed PROVE desk' = desk
  BY <1>1, <1>6, PublishStep
<1>7. ASSUME Forget PROVE desk' = desk
  BY <1>1, <1>7, ForgetStep
<1>8. ASSUME GraceEnds \/ StallFires PROVE desk' = desk
  BY <1>1, <1>8, EndsStep
<1>9. ASSUME WriterWrites PROVE desk' = desk
  BY <1>1, <1>9, WriterWritesStep
<1>10. ASSUME WriterRecords PROVE desk' = desk
  BY <1>1, <1>10, WriterRecordsStep
<1>11. ASSUME ModeGranted PROVE desk' = desk
  BY <1>1, <1>11, ModeGrantedStep
<1>12. ASSUME FrontReadsPage PROVE desk' = desk
  BY <1>1, <1>12, FrontReadsPageStep
<1>13. ASSUME FrontReadsBroker PROVE desk' = desk
  BY <1>1, <1>13, FrontReadsBrokerStep
<1>14. ASSUME PageReads PROVE desk' = desk
  BY <1>1, <1>14, PageReadsStep
<1>15. ASSUME PageParses \/ PageTypes \/ PageResumes PROVE desk' = desk
  BY <1>1, <1>15, PageActsStep
<1>16. ASSUME Tick \/ UNCHANGED vars PROVE desk' = desk
  BY <1>16 DEF Tick, vars
<1>. QED BY NextCases, <1>2, <1>3, <1>4, <1>5, <1>6, <1>7, <1>8, <1>9, <1>10, <1>11, <1>12, <1>13,
            <1>14, <1>15, <1>16

\* The marks of the clock and of the gate stay within their bounds, and the
\* backlog of inputs within its own (frontier_clock.go, input_freshness.go,
\* input_results.go).
THEOREM TypeSafe == Spec => []TypeOK
BY SMTT(30), GateSafe, TypesHold, PTL

\* The clock never under-states what was out a window ago, and over-states it
\* by less than its step, whatever it merged and dropped (frontierClock.at).
THEOREM FrontierSafe == Spec => []FrontierExact
BY SMTT(30), GateSafe, ExactHolds, PTL

\* The page is told the fate of each input, in order and once (inputLedger).
THEOREM ResultsSafe == Spec => []ResultsAreTrue
BY SMTT(30), GateSafe, ResultsHold, PTL

\* The relay's window counts exactly what the page has not parsed, and the
\* stall clock runs exactly then (flowWindow, flowStallClock).
THEOREM FlowSafe == Spec => []FlowBalances
BY SMTT(30), GateSafe, BalanceHolds, PTL

\* An input is judged on exactly what its page had acknowledged, and while the
\* clock is the one the subscription made it goes to the terminal only if the page
\* had parsed everything published a window before (inputFreshness.admit).
THEOREM JudgedSafe == Spec => AdmittedByItsClock
<1>. DEFINE A ==
          /\ desk.judge # NoJudgement /\ desk'.judge = NoJudgement => fresh.receipted = desk.judge.seen
          /\ admits /\ ~(prov.gone /\ prov.revived) => upToDate
<1>1. GateInv /\ [Next]_vars => [A]_vars
  <2>. SUFFICES ASSUME GateInv, [Next]_vars, desk.judge # NoJudgement, desk'.judge = NoJudgement
                PROVE  /\ fresh.receipted = desk.judge.seen
                       /\ desk.judge.id \in desk'.given /\ ~(prov.gone /\ prov.revived) => upToDate
    BY DEF admits
  <2>1. BrokerJudges
    BY JudgementStays
  <2>. QED BY <2>1, JudgedStep
<1>. QED BY SMTT(30), <1>1, GateSafe, PTL DEF Spec, AdmittedByItsClock
==============================================================================
