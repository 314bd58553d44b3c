----------------------------- MODULE EpochProofs -----------------------------
(***************************************************************************)
(* Proofs about Epoch, for every scenario and bound.                       *)
(*                                                                         *)
(* The properties speak of the struct and of nine program counters, and    *)
(* are not inductive: that no branch called an invariant violation but one *)
(* is taken depends on which phase of Start, which protocol state and      *)
(* which cut can be there when a goroutine comes back to e.mu.  EpochInv   *)
(* says: Sound for the struct, Threads to HoldOK for the goroutines and    *)
(* for what BIND left in tmux against it.                                  *)
(* The proof follows the code: first what each operator does to a sound    *)
(* struct, then what each action does to the goroutines.  Three relations  *)
(* between a struct and its next value keep the steps small: SameCore (the *)
(* queues changed), Moves (output was taken) and Follows (and it may have  *)
(* ended).  Opaque names (PICK t : t = ...) keep a value small where only  *)
(* the facts stated of it matter.                                          *)
(***************************************************************************)
EXTENDS Epoch, SequenceTheorems, TLAPS

\* The causes any goroutine may ask an epoch to end with, and those it may end with: a
\* resize or a depth that meets a busy scheduler, and a BIND whose shadow is unresolved.
Harmless == {"orderly", "canceled", "fault"}
Busy == {"resizeBusy", "historyBusy"}
EndCause == Harmless \cup Busy \cup {"unresolvedBind"}
\* What Start knows of the attachment BIND makes.
Ownership == {"pending", "none", "exact"}
\* PTY output.
Ordinary == Seq(Nat)

\* The records of the struct.
CutRec == [id : Nat \ {0}, kind : Kind, request : Nat,
           issued : BOOLEAN, captured : BOOLEAN, marked : BOOLEAN, prepared : BOOLEAN,
           pre : Ordinary, held : Ordinary, at : Nat]
SchedulerRec == [dirty : BOOLEAN, inFlight : BOOLEAN, due : BOOLEAN, stopped : BOOLEAN]
InputRec == [mode : Mode, queue : Seq(Nat), writing : Nat, revoked : BOOLEAN,
             closed : BOOLEAN, sealed : BOOLEAN, failed : BOOLEAN]
StartRec == [phase : {"none", "binding", "cutting", "awaiting", "prepared", "terminal"},
             ownership : Ownership, pending : {"none"} \cup Harmless,
             result : {"none", "prepared", "terminal"}]
EndRec == [cause : EndCause, ownership : Ownership]
CleanupRec == [complete : BOOLEAN, err : BOOLEAN, reported : BOOLEAN]
\* How far a history request came.
Progress == {"new", "queued", "issued", "committed", "deferred", "superseded"}

\* What the frames carry and which input was admitted or typed is left open.
Shape(s) ==
    s \in [given : Scenarios, protocol : Protocol, scheduler : SchedulerRec,
           egress : {s.egress}, input : InputRec, settled : {s.settled}, typed : {s.typed},
           ingress : Ordinary, replay : Ordinary, out : Nat,
           active : {NoCut} \cup CutRec, nextCut : Nat, start : StartRec,
           terminal : {NoTerminal} \cup EndRec,
           transitionalInput : Seq(Nat), transitionalModes : Seq(Mode),
           pendingHistory : Nat, lastHistoryRequest : Nat,
           phase : [1..s.given.max.history -> Progress], cleanup : CleanupRec,
           sent : Nat, admitted : {s.admitted}, modes : Nat, resizes : Nat]

\* The queues within their bounds (inputPump.enqueue, HandleFrame).
Queues(s) ==
    /\ Len(s.input.queue) <= MaxInputFrames
    /\ Len(s.transitionalInput) <= MaxInputFrames
    /\ Len(s.transitionalModes) <= MaxTransitionalModeRequests

\* The terminal result is not published.
Alive(s) == s.terminal = NoTerminal

\* How the phase of Start, its result, its ownership and the recorded end agree.
StartOK(s) ==
    /\ s.start.ownership = "pending" => s.start.phase = "binding"
    /\ s.start.phase = "none" => s.start.ownership = "none"
    /\ s.start.phase \in {"cutting", "awaiting", "prepared"} => s.start.ownership = "exact"
    /\ s.start.result = IF s.start.phase = "prepared" THEN "prepared"
                        ELSE IF s.start.phase = "terminal" THEN "terminal" ELSE "none"
    /\ Alive(s) /\ s.start.pending # "none" => s.start.phase = "binding"
    /\ Alive(s) => s.start.phase # "terminal"

\* A live epoch has not begun to clean up; an ended one has no cut, no Start under way,
\* and names what it owned.
EndOK(s) ==
    IF Alive(s) THEN ~s.scheduler.stopped /\ ~s.cleanup.complete
    ELSE /\ s.active = NoCut
         /\ s.start.phase \in {"none", "prepared", "terminal"}
         /\ s.terminal.ownership = s.start.ownership

\* How the cut in hand, Start, the protocol and the scheduler agree.
CutOK(s) ==
    LET c == s.active
        phase == s.start.phase
        state == s.protocol.state
    IN  /\ s.protocol.cut <= s.nextCut
        /\ state # "ended"
        /\ phase \in {"none", "binding"} =>
             /\ c = NoCut /\ state = "awaitPrepare"
             /\ ~s.scheduler.inFlight /\ ~s.scheduler.dirty
        /\ phase \in {"cutting", "awaiting"} => c # NoCut /\ c.kind = "initial" /\ ~c.prepared
        /\ phase = "prepared" => state # "awaitPrepare" /\ s.protocol.cut # 0
        /\ phase = "none" => s.ingress = <<>>
        /\ c = NoCut /\ phase = "prepared" => state = "live"
        /\ c # NoCut =>
             /\ c.id = s.nextCut
             /\ c.captured \/ c.marked => c.issued
             /\ c.kind # "initial" => phase = "prepared"
             /\ IF c.prepared
                THEN c.captured /\ c.marked /\ state = "prepared" /\ s.protocol.cut = c.id
                ELSE /\ s.protocol.cut < c.id
                     /\ state = IF c.kind = "initial" THEN "awaitPrepare" ELSE "live"
                     /\ c.kind = "initial" =>
                          phase = IF c.captured THEN "awaiting" ELSE "cutting"

\* How the history requests and the cut in hand agree.
HistoryOK(s) ==
    LET c == s.active
    IN  /\ s.lastHistoryRequest <= s.given.max.history
        /\ s.pendingHistory # 0 =>
             s.pendingHistory = s.lastHistoryRequest /\ s.phase[s.pendingHistory] = "queued"
        /\ c # NoCut =>
             /\ (c.kind = "history") = (c.request # 0)
             /\ c.request # 0 =>
                  /\ c.request <= s.lastHistoryRequest
                  /\ s.phase[c.request] = IF c.issued THEN "issued" ELSE "queued"
                  /\ s.pendingHistory # 0 => c.request < s.pendingHistory

\* The struct alone.
Sound(s) ==
    /\ Shape(s) /\ Queues(s) /\ StartOK(s) /\ EndOK(s)
    /\ Alive(s) => CutOK(s) /\ HistoryOK(s)

\* The goroutine that runs a cut, by its kind.
RunnerOf(kind) ==
    IF kind = "initial" THEN "start" ELSE IF kind = "ongoing" THEN "owner"
    ELSE IF kind = "history" THEN "history" ELSE "browser"

\* The program counters.
Threads ==
    /\ attached \in BOOLEAN /\ canceled \in BOOLEAN
    /\ starter \in {"idle", "bind", "mutated", "bound", "succeeded", "failed",
                    "noOwner", "unresolved", "cutting", "done"}
    /\ runner \in {NoRunner} \cup [who : {"start", "owner", "history", "browser"}, id : Nat \ {0},
                                   pc : {"resize", "issue", "capture"}]
    /\ runner.pc = "resize" => runner.who = "browser"
    /\ reader \in {"idle", "activity", "stopped"}
    /\ browser \in {"idle", "complete", "retry", "resizing", "abandoned", "abandonedDirty", "gone"}
    /\ acker \in {"idle", "complete"}
    /\ histories \in Nat
    /\ owner \in {"loop", "due", "cutting", "done"}
    /\ teardown \in {"none", "scheduler", "input", "owner", "gate", "cleanup", "done"}
    /\ finalizer \in {"idle", "waiting", "returned"}

\* The goroutine of Start, and the reader, against the phase of Start.
StarterOK ==
    /\ starter = "idle" => e.start.phase = "none"
    /\ starter \in {"bind", "mutated", "noOwner", "unresolved"} => e.start.ownership = "pending"
    /\ starter \in {"bound", "succeeded", "failed"} =>
         e.start.ownership = "exact" /\ e.start.phase \in {"binding", "terminal"}
    /\ starter = "cutting" =>
         e.start.phase \in {"cutting", "awaiting", "prepared", "terminal"}
    /\ starter = "done" /\ Alive(e) => e.start.phase = "prepared"
    /\ reader = "activity" => e.start.phase \notin {"none", "binding"}

\* Who answers for the attachment, and when teardown runs.
AttachedOK ==
    /\ attached => starter = "mutated" \/ e.start.ownership = "exact"
    /\ e.cleanup.complete => ~attached
    /\ (teardown = "none") = Alive(e)

\* The goroutine inside runCut owns the cut in hand until its capture is recorded.
RunnerOK ==
    /\ (owner = "cutting") = (runner.who = "owner")
    /\ (browser = "resizing") = (runner.who = "browser")
    /\ Alive(e) =>
         IF runner = NoRunner THEN e.active # NoCut => e.active.captured
         ELSE /\ e.active # NoCut /\ e.active.id = runner.id /\ ~e.active.captured
              /\ runner.who = RunnerOf(e.active.kind)
              /\ e.active.issued = (runner.pc = "capture")
              /\ runner.pc = "resize" => e.active.kind = "resize"

\* The scheduler is held by one of its holders, or by none.
HoldOK == Alive(e) => holders = IF e.scheduler.inFlight THEN 1 ELSE 0

\* What a BIND without an ID may have left, and the end that tells of it.
StrayOK ==
    /\ stray \in {"none", "possible", "shadow"}
    /\ Alive(e) => (stray # "none") = (starter = "unresolved")
    /\ ~Alive(e) /\ stray # "none" =>
         /\ e.terminal.ownership = "none"
         /\ e.terminal.cause = "unresolvedBind" \/ e.start.pending # "none"
    /\ ~Alive(e) /\ e.terminal.cause = "unresolvedBind" => stray # "none"

\* The inductive invariant.
EpochInv == Sound(e) /\ Threads /\ StarterOK /\ AttachedOK /\ RunnerOK /\ HoldOK /\ StrayOK

\* What every step keeps.
Kept == EpochInv' /\ BusyIsAnothers

-----------------------------------------------------------------------------
\* t has the fields of s that Sound looks at beside the queues.
SameCore(s, t) ==
    /\ t.given = s.given /\ t.protocol = s.protocol /\ t.scheduler = s.scheduler
    /\ t.active = s.active /\ t.nextCut = s.nextCut /\ t.start = s.start
    /\ t.terminal = s.terminal /\ t.pendingHistory = s.pendingHistory
    /\ t.lastHistoryRequest = s.lastHistoryRequest /\ t.phase = s.phase
    /\ t.cleanup = s.cleanup /\ t.ingress = s.ingress

\* How the end of an epoch leaves the phase of its Start.
EndPhase(phase) == IF phase \in {"none", "prepared"} THEN phase ELSE "terminal"

\* From s to t the epoch ended, and it did so with a cause it may be asked for.
Shuts(s, t) ==
    /\ Alive(s) /\ ~Alive(t) /\ s.start.ownership # "pending"
    /\ t.start.ownership = s.start.ownership /\ t.cleanup = s.cleanup
    /\ t.start.phase = EndPhase(s.start.phase) /\ t.start.pending = s.start.pending
Closes(s, t) == Shuts(s, t) /\ t.terminal.cause \in Harmless

\* From s to t the end was only recorded: BIND may still hand something over.
Records(s, t) ==
    /\ Alive(s) /\ Alive(t)
    /\ s.start.phase = "binding" /\ s.start.ownership = "pending"
    /\ t.start = [s.start EXCEPT !.pending = t.start.pending]
    /\ t.active = s.active /\ t.scheduler = s.scheduler /\ t.cleanup = s.cleanup

\* From s to t the epoch took output, or published the PREPARE it was due.
Moves(s, t) ==
    /\ t.terminal = s.terminal /\ t.cleanup = s.cleanup /\ t.scheduler = s.scheduler
    /\ t.given = s.given
    /\ t.start.ownership = s.start.ownership /\ t.start.pending = s.start.pending
    /\ \/ t.start.phase = s.start.phase
       \/ s.start.phase = "awaiting" /\ t.start.phase = "prepared"
    /\ (t.active = NoCut) = (s.active = NoCut)
    /\ t.active # NoCut =>
         /\ t.active.id = s.active.id /\ t.active.kind = s.active.kind
         /\ t.active.issued = s.active.issued /\ t.active.captured = s.active.captured

\* SameCore, but for the mode of the protocol.
NearCore(s, t) ==
    /\ t.given = s.given /\ t.scheduler = s.scheduler
    /\ t.protocol.state = s.protocol.state /\ t.protocol.cut = s.protocol.cut
    /\ t.active = s.active /\ t.nextCut = s.nextCut /\ t.start = s.start
    /\ t.terminal = s.terminal /\ t.pendingHistory = s.pendingHistory
    /\ t.lastHistoryRequest = s.lastHistoryRequest /\ t.phase = s.phase
    /\ t.cleanup = s.cleanup /\ t.ingress = s.ingress

\* What a step that moves the epoch on, and may end it, leaves to the threads.
Follows(s, t) ==
    /\ t.cleanup = s.cleanup /\ t.start.ownership = s.start.ownership
    /\ Alive(t) => /\ Alive(s) /\ t.scheduler = s.scheduler
                   /\ \/ t.start.phase = s.start.phase
                      \/ s.start.phase = "awaiting" /\ t.start.phase = "prepared"
                   /\ (t.active = NoCut) = (s.active = NoCut)
                   /\ t.active # NoCut =>
                        /\ t.active.id = s.active.id /\ t.active.kind = s.active.kind
                        /\ t.active.issued = s.active.issued
                        /\ t.active.captured = s.active.captured
    /\ ~Alive(s) =>
         /\ t.start.phase = s.start.phase \/ s.start.phase = "awaiting"
         /\ t.terminal = s.terminal /\ t.start.pending = s.start.pending
    /\ Alive(s) /\ ~Alive(t) =>
         /\ s.start.ownership # "pending" /\ t.terminal.cause \in Harmless
         /\ \/ t.start.phase = EndPhase(s.start.phase)
            \/ s.start.phase = "awaiting" /\ t.start.phase = "prepared"

\* The browser's steps between a cut and its Complete.
Completing == {"complete", "retry", "abandoned", "abandonedDirty"}

\* A change of the queues alone keeps an epoch sound.
LEMMA CoreSound ==
  ASSUME NEW s, NEW t, Sound(s), Shape(t), Queues(t), SameCore(s, t)
  PROVE  Sound(t)
BY DEF Sound, SameCore, StartOK, EndOK, CutOK, HistoryOK, Alive

\* The fields of a well-shaped epoch.
LEMMA ShapeFields ==
  ASSUME NEW s, Shape(s)
  PROVE  /\ s.given \in Scenarios /\ s.protocol \in Protocol /\ s.scheduler \in SchedulerRec
         /\ s.input \in InputRec /\ s.ingress \in Ordinary /\ s.replay \in Ordinary
         /\ s.out \in Nat /\ s.active \in {NoCut} \cup CutRec /\ s.nextCut \in Nat
         /\ s.start \in StartRec /\ s.terminal \in {NoTerminal} \cup EndRec
         /\ s.transitionalInput \in Seq(Nat) /\ s.transitionalModes \in Seq(Mode)
         /\ s.pendingHistory \in Nat /\ s.lastHistoryRequest \in Nat
         /\ s.phase \in [1..s.given.max.history -> Progress] /\ s.cleanup \in CleanupRec
         /\ s.sent \in Nat /\ s.modes \in Nat /\ s.resizes \in Nat
BY DEF Shape

\* The empty sequence is a sequence of anything.
LEMMA NothingIn ==
  ASSUME NEW S
  PROVE  <<>> \in Seq(S) /\ Len(<<>>) = 0
OBVIOUS

\* Settling input frames concerns nothing else (inputPump.settle).
LEMMA SettleShape ==
  ASSUME NEW s, Shape(s), NEW ids
  PROVE  Shape(settle(s, ids)) /\ settle(s, ids).input = s.input
         /\ SameCore(s, settle(s, ids))
         /\ settle(s, ids).transitionalInput = s.transitionalInput
         /\ settle(s, ids).transitionalModes = s.transitionalModes
BY DEF Shape, settle, SameCore

\* Discarding the pump's queue empties it and takes the mode back (discardQueuedLocked).
LEMMA RevokeShape ==
  ASSUME NEW s, Shape(s), Queues(s)
  PROVE  /\ Shape(revoke(s)) /\ Queues(revoke(s)) /\ SameCore(s, revoke(s))
         /\ revoke(s).input = [s.input EXCEPT !.queue = <<>>, !.mode = "observe", !.revoked = TRUE]
         /\ revoke(s).transitionalInput = s.transitionalInput
         /\ revoke(s).transitionalModes = s.transitionalModes
<1>1. PICK m : m = settle(s, ToSet(s.input.queue))
  OBVIOUS
<1>2. Shape(m) /\ m.input = s.input /\ SameCore(s, m)
      /\ m.transitionalInput = s.transitionalInput /\ m.transitionalModes = s.transitionalModes
  BY <1>1, SettleShape
<1>3. revoke(s) = [m EXCEPT !.input.queue = <<>>, !.input.mode = "observe", !.input.revoked = TRUE]
  BY <1>1 DEF revoke
<1>4a. PICK q : q = [m.input EXCEPT !.queue = <<>>, !.mode = "observe", !.revoked = TRUE]
  OBVIOUS
<1>4b. q \in InputRec
  BY <1>2, <1>4a, ShapeFields, NothingIn DEF InputRec, Mode
<1>4c. revoke(s) = [m EXCEPT !.input = q]
  BY <1>2, <1>3, <1>4a DEF Shape
<1>4d. Shape(revoke(s))
  BY <1>2, <1>4b, <1>4c DEF Shape
<1>4e. SameCore(m, revoke(s))
  BY <1>2, <1>4c DEF Shape, SameCore
<1>4. Shape(revoke(s)) /\ SameCore(m, revoke(s))
  BY <1>4d, <1>4e
<1>5. revoke(s).input = [s.input EXCEPT !.queue = <<>>, !.mode = "observe", !.revoked = TRUE]
  BY <1>2, <1>3 DEF Shape, InputRec
<1>6. revoke(s).transitionalInput = s.transitionalInput /\ revoke(s).transitionalModes = s.transitionalModes
  BY <1>2, <1>3 DEF Shape
<1>7. Queues(revoke(s))
  BY <1>5, <1>6, EpochAssumption DEF Queues, Shape, InputRec
<1>8. SameCore(s, revoke(s))
  BY <1>2, <1>4 DEF SameCore
<1>. QED BY <1>4, <1>5, <1>6, <1>7, <1>8

\* Sealing the pump concerns the pump only.
LEMMA SealShape ==
  ASSUME NEW s, Shape(s), Queues(s)
  PROVE  /\ Shape(seal(s)) /\ Queues(seal(s)) /\ SameCore(s, seal(s))
         /\ seal(s).transitionalInput = s.transitionalInput
         /\ seal(s).transitionalModes = s.transitionalModes
<1>1. CASE s.input.sealed
  BY <1>1 DEF seal, SameCore
<1>2. CASE ~s.input.sealed
  <2>1. PICK m : m = revoke(s)
    OBVIOUS
  <2>2. /\ Shape(m) /\ Queues(m) /\ SameCore(s, m)
        /\ m.transitionalInput = s.transitionalInput /\ m.transitionalModes = s.transitionalModes
    BY <2>1, RevokeShape
  <2>3. PICK q : q = [m.input EXCEPT !.closed = TRUE, !.sealed = TRUE]
    OBVIOUS
  <2>4. q \in InputRec /\ q.queue = m.input.queue
    BY <2>2, <2>3, ShapeFields DEF InputRec
  <2>5. seal(s) = [m EXCEPT !.input = q]
    BY <1>2, <2>1, <2>2, <2>3 DEF seal, Shape
  <2>6. Shape(seal(s)) /\ SameCore(m, seal(s)) /\ seal(s).input = q
        /\ seal(s).transitionalInput = m.transitionalInput
        /\ seal(s).transitionalModes = m.transitionalModes
    BY <2>2, <2>4, <2>5 DEF Shape, SameCore
  <2>. QED BY <2>2, <2>4, <2>6 DEF Queues, SameCore
<1>. QED BY <1>1, <1>2

\* Publishing END concerns the protocol and the wire only.
LEMMA PublishedShape ==
  ASSUME NEW s, Shape(s), NEW room
  PROVE  LET t == published(s, room)
         IN  /\ Shape(t) /\ t.input = s.input /\ t.scheduler = s.scheduler /\ t.given = s.given
             /\ t.active = s.active /\ t.nextCut = s.nextCut /\ t.start = s.start
             /\ t.terminal = s.terminal /\ t.pendingHistory = s.pendingHistory
             /\ t.lastHistoryRequest = s.lastHistoryRequest /\ t.phase = s.phase
             /\ t.cleanup = s.cleanup /\ t.ingress = s.ingress
             /\ t.transitionalInput = s.transitionalInput
             /\ t.transitionalModes = s.transitionalModes
<1>. DEFINE t == published(s, room)
<1>1. CASE t = s
  BY <1>1
<1>2. CASE t # s
  <2>1. PICK p, g : p = [s.protocol EXCEPT !.state = "ended"] /\ t = [s EXCEPT !.egress = g, !.protocol = p]
    <3>1. PICK g : g = [s.egress EXCEPT !.wire = Append(@, frame("END", 0, <<>>))]
      OBVIOUS
    <3>2. t = [s EXCEPT !.egress.wire = Append(@, frame("END", 0, <<>>)), !.protocol.state = "ended"]
      BY <1>2 DEF published
    <3>. QED BY <3>1, <3>2 DEF Shape
  <2>2. p \in Protocol
    BY <2>1, ShapeFields DEF Protocol
  <2>3. PICK u : u = t
    OBVIOUS
  <2>4. u = [s EXCEPT !.egress = g, !.protocol = p]
    BY <2>1, <2>3
  <2>5. Shape(u)
    BY <2>2, <2>4 DEF Shape
  <2>6. /\ u.input = s.input /\ u.scheduler = s.scheduler /\ u.given = s.given
        /\ u.active = s.active /\ u.nextCut = s.nextCut /\ u.start = s.start
        /\ u.terminal = s.terminal /\ u.pendingHistory = s.pendingHistory
        /\ u.lastHistoryRequest = s.lastHistoryRequest /\ u.phase = s.phase
        /\ u.cleanup = s.cleanup /\ u.ingress = s.ingress
        /\ u.transitionalInput = s.transitionalInput
        /\ u.transitionalModes = s.transitionalModes
    BY <2>4 DEF Shape
  <2>. QED BY <2>3, <2>5, <2>6
<1>. QED BY <1>1, <1>2

\* Dropping what a cut held back leaves the rest (dropTransitionalLocked).
LEMMA DropShape ==
  ASSUME NEW s, Shape(s), Queues(s)
  PROVE  LET t == dropTransitional(s)
         IN  /\ Shape(t) /\ Queues(t) /\ SameCore(s, t)
<1>1. PICK m : m = settle(s, ToSet(s.transitionalInput))
  OBVIOUS
<1>2. Shape(m) /\ m.input = s.input /\ SameCore(s, m)
  BY <1>1, SettleShape
<1>3. PICK t : t = dropTransitional(s)
  OBVIOUS
<1>4. t = [m EXCEPT !.transitionalInput = <<>>, !.transitionalModes = <<>>]
  BY <1>1, <1>3 DEF dropTransitional
<1>5. <<>> \in Seq(Nat) /\ <<>> \in Seq(Mode) /\ Len(<<>>) = 0
  BY NothingIn
<1>6. Shape(t)
  BY <1>2, <1>4, <1>5 DEF Shape
<1>7. SameCore(m, t)
  BY <1>2, <1>4 DEF Shape, SameCore
<1>8. t.input = m.input /\ t.transitionalInput = <<>> /\ t.transitionalModes = <<>>
  BY <1>2, <1>4 DEF Shape
<1>9. Queues(t)
  BY <1>2, <1>5, <1>8, EpochAssumption DEF Queues
<1>. QED BY <1>2, <1>3, <1>6, <1>7, <1>9 DEF SameCore

\* publishTerminal ends an epoch that owes nothing to BIND, and names its ownership.
LEMMA Publishes ==
  ASSUME NEW s, Shape(s), Queues(s), StartOK(s), Alive(s), s.start.ownership # "pending",
         NEW cause \in EndCause, NEW room
  PROVE  LET t == publishTerminal(s, cause, room)
         IN  /\ Shape(t) /\ Queues(t) /\ StartOK(t) /\ EndOK(t) /\ Shuts(s, t)
             /\ t.terminal.cause = cause
<1>1. PICK a : a = dropTransitional(s)
  OBVIOUS
<1>2. Shape(a) /\ Queues(a) /\ SameCore(s, a)
  BY <1>1, DropShape
<1>3. PICK b : b = [a EXCEPT !.ingress = <<>>, !.replay = <<>>, !.active = NoCut]
  OBVIOUS
<1>4. finishActive([dropTransitional(s) EXCEPT !.ingress = <<>>, !.replay = <<>>]) = b
  BY <1>1, <1>2, <1>3 DEF finishActive, Shape
<1>5. Shape(b)
  <2>1. <<>> \in Ordinary
    BY NothingIn DEF Ordinary
  <2>. QED BY <1>2, <1>3, <2>1 DEF Shape
<1>6. /\ b.active = NoCut /\ b.start = a.start /\ b.terminal = a.terminal /\ b.cleanup = a.cleanup
      /\ b.input = a.input /\ b.transitionalInput = a.transitionalInput
      /\ b.transitionalModes = a.transitionalModes
  BY <1>2, <1>3 DEF Shape
<1>7. PICK c : c = published(b, room)
  OBVIOUS
<1>8. /\ Shape(c) /\ c.active = NoCut /\ c.start = b.start /\ c.terminal = b.terminal
      /\ c.cleanup = b.cleanup /\ c.input = b.input
      /\ c.transitionalInput = b.transitionalInput /\ c.transitionalModes = b.transitionalModes
  BY <1>5, <1>6, <1>7, PublishedShape
<1>9. PICK k : k = [cause |-> cause, ownership |-> s.start.ownership]
  OBVIOUS
<1>10. k \in EndRec
  BY <1>9, ShapeFields DEF EndRec, StartRec
<1>11. PICK d : d = [c EXCEPT !.terminal = k]
  OBVIOUS
<1>12. Shape(d)
  BY <1>8, <1>10, <1>11 DEF Shape
<1>13. /\ d.active = NoCut /\ d.start = c.start /\ d.terminal = k /\ d.cleanup = c.cleanup
       /\ d.input = c.input /\ d.transitionalInput = c.transitionalInput
       /\ d.transitionalModes = c.transitionalModes
  BY <1>8, <1>11 DEF Shape
<1>14. Queues(d)
  BY <1>2, <1>6, <1>8, <1>13 DEF Queues
<1>15. PICK f : f = seal(d)
  OBVIOUS
<1>16. Shape(f) /\ Queues(f) /\ SameCore(d, f)
  BY <1>12, <1>14, <1>15, SealShape
<1>17. f.active = NoCut /\ f.start = s.start /\ f.terminal = k /\ f.cleanup = s.cleanup
  BY <1>2, <1>6, <1>8, <1>13, <1>16 DEF SameCore
<1>18. PICK t : t = publishTerminal(s, cause, room)
  OBVIOUS
<1>19. t = resolveStart(f)
  <2>1. (IF s.start.phase = "none" THEN "none" ELSE s.start.ownership) = s.start.ownership
    BY DEF StartOK
  <2>. QED BY <1>4, <1>7, <1>9, <1>11, <1>15, <1>18, <2>1 DEF publishTerminal
<1>20. PICK r : r = [s.start EXCEPT !.result = IF s.start.phase # "none" /\ s.start.result = "none"
                                               THEN "terminal" ELSE @,
                                    !.phase = IF s.start.phase # "none" /\ s.start.result = "none"
                                              THEN "terminal" ELSE @]
  OBVIOUS
<1>21. s.start \in StartRec
  BY ShapeFields
<1>22. r \in StartRec
  BY <1>20, <1>21 DEF StartRec
<1>23. t = [f EXCEPT !.start = r]
  BY <1>16, <1>17, <1>19, <1>20, <1>21 DEF resolveStart, Shape, StartRec
<1>24. Shape(t)
  BY <1>16, <1>22, <1>23 DEF Shape
<1>25. /\ t.active = NoCut /\ t.start = r /\ t.terminal = k /\ t.cleanup = s.cleanup
       /\ t.input = f.input /\ t.transitionalInput = f.transitionalInput
       /\ t.transitionalModes = f.transitionalModes
  BY <1>16, <1>17, <1>23 DEF Shape
<1>26. Queues(t)
  BY <1>16, <1>25 DEF Queues
<1>27. /\ r.ownership = s.start.ownership /\ r.phase = EndPhase(s.start.phase)
       /\ r.pending = s.start.pending
       /\ r.result = IF r.phase = "prepared" THEN "prepared"
                     ELSE IF r.phase = "terminal" THEN "terminal" ELSE "none"
  BY <1>20, <1>21 DEF StartRec, StartOK, EndPhase, Alive
<1>28. k # NoTerminal
  BY <1>9 DEF NoTerminal, Harmless, Busy, EndCause
<1>29. StartOK(t)
  BY <1>25, <1>27, <1>28 DEF StartOK, Alive, EndPhase
<1>30. EndOK(t)
  BY <1>9, <1>21, <1>25, <1>27, <1>28 DEF EndOK, Alive, EndPhase, StartRec
<1>31. Shuts(s, t) /\ t.terminal.cause = cause
  BY <1>9, <1>25, <1>27, <1>28 DEF Shuts, Alive
<1>. QED BY <1>18, <1>24, <1>26, <1>29, <1>30, <1>31

\* requestTerminal: the epoch had ended, its end is recorded for BIND to find, or it ends.
LEMMA Requests1 ==
  ASSUME NEW s, Sound(s), NEW cause \in Harmless, NEW room
  PROVE  LET t == requestTerminal(s, cause, room)
         IN  /\ Sound(t)
             /\ (t = s /\ ~Alive(s)) \/ Records(s, t) \/ Closes(s, t)
             /\ s.start.ownership # "pending" => ~Alive(t)
<1>0. Shape(s) /\ Queues(s) /\ StartOK(s) /\ EndOK(s) /\ s.start \in StartRec
  BY ShapeFields DEF Sound
<1>1. CASE ~Alive(s)
  BY <1>1 DEF Alive, requestTerminal
<1>2. CASE Alive(s) /\ s.start.phase = "binding" /\ s.start.ownership = "pending"
  <2>1. CASE s.start.pending # "none"
    <3>1. requestTerminal(s, cause, room) = s
      BY <1>2, <2>1 DEF Alive, requestTerminal
    <3>2. Records(s, s)
      BY <1>0, <1>2 DEF Records, StartRec
    <3>. QED BY <1>2, <3>1, <3>2
  <2>2. CASE s.start.pending = "none"
    <3>1. PICK t : t = requestTerminal(s, cause, room)
      OBVIOUS
    <3>2. PICK r : r = [s.start EXCEPT !.pending = cause]
      OBVIOUS
    <3>3. t = [s EXCEPT !.start = r, !.ingress = <<>>, !.replay = <<>>]
      BY <1>0, <1>2, <2>2, <3>1, <3>2 DEF Alive, requestTerminal, Shape
    <3>4. r \in StartRec /\ r.phase = s.start.phase /\ r.ownership = s.start.ownership
          /\ r.result = s.start.result /\ r.pending = cause
      BY <1>0, <3>2 DEF StartRec
    <3>5. <<>> \in Ordinary
      BY NothingIn DEF Ordinary
    <3>6. Shape(t)
      BY <1>0, <3>3, <3>4, <3>5 DEF Shape
    <3>7. /\ t.start = r /\ t.active = s.active /\ t.scheduler = s.scheduler /\ t.cleanup = s.cleanup
          /\ t.terminal = s.terminal /\ t.protocol = s.protocol /\ t.nextCut = s.nextCut
          /\ t.given = s.given /\ t.pendingHistory = s.pendingHistory
          /\ t.lastHistoryRequest = s.lastHistoryRequest /\ t.phase = s.phase
          /\ t.ingress = <<>> /\ t.input = s.input
          /\ t.transitionalInput = s.transitionalInput /\ t.transitionalModes = s.transitionalModes
      BY <1>0, <3>3 DEF Shape
    <3>8. Queues(t) /\ StartOK(t) /\ EndOK(t)
      BY <1>0, <1>2, <3>4, <3>7 DEF Queues, StartOK, EndOK, Alive
    <3>9. CutOK(t) /\ HistoryOK(t)
      BY <1>2, <3>4, <3>7 DEF Sound, CutOK, HistoryOK, Alive
    <3>10. Records(s, t)
      BY <1>0, <1>2, <3>2, <3>4, <3>7 DEF Records, Alive
    <3>. QED BY <1>2, <3>1, <3>6, <3>8, <3>9, <3>10 DEF Sound
  <2>. QED BY <2>1, <2>2
<1>3. CASE Alive(s) /\ ~(s.start.phase = "binding" /\ s.start.ownership = "pending")
  <2>1. PICK k \in Harmless : k = IF s.start.pending # "none" THEN s.start.pending ELSE cause
    BY <1>0 DEF StartRec, Harmless
  <2>2. requestTerminal(s, cause, room) = publishTerminal(s, k, room)
    BY <1>3, <2>1 DEF Alive, requestTerminal
  <2>3. s.start.ownership # "pending"
    BY <1>0, <1>3 DEF StartOK
  <2>4. PICK t : t = publishTerminal(s, k, room)
    OBVIOUS
  <2>5. /\ Shape(t) /\ Queues(t) /\ StartOK(t) /\ EndOK(t) /\ Shuts(s, t)
        /\ t.terminal.cause = k
    BY <1>0, <1>3, <2>1, <2>3, <2>4, Publishes DEF EndCause
  <2>6. Sound(t) /\ ~Alive(t) /\ Closes(s, t)
    BY <2>1, <2>5 DEF Sound, Closes, Shuts
  <2>. QED BY <2>2, <2>4, <2>5, <2>6
<1>. QED BY <1>1, <1>2, <1>3

\* An epoch that owes BIND no answer ends with the end it recorded, or the one it is asked
\* for now.
LEMMA EndsNow ==
  ASSUME NEW s, Sound(s), Alive(s), s.start.ownership # "pending", NEW cause \in EndCause, NEW room
  PROVE  LET t == requestTerminal(s, cause, room)
         IN  /\ Sound(t) /\ Shuts(s, t)
             /\ t.terminal.cause = IF s.start.pending # "none" THEN s.start.pending ELSE cause
<1>0. Shape(s) /\ Queues(s) /\ StartOK(s) /\ s.start \in StartRec
  BY ShapeFields DEF Sound
<1>1. PICK k \in EndCause : k = IF s.start.pending # "none" THEN s.start.pending ELSE cause
  BY <1>0 DEF StartRec, EndCause
<1>2. PICK t : t = publishTerminal(s, k, room)
  OBVIOUS
<1>3. requestTerminal(s, cause, room) = t
  BY <1>1, <1>2 DEF Alive, requestTerminal
<1>4. Shape(t) /\ Queues(t) /\ StartOK(t) /\ EndOK(t) /\ Shuts(s, t) /\ t.terminal.cause = k
  BY <1>0, <1>1, <1>2, Publishes
<1>5. Sound(t)
  BY <1>4 DEF Sound, Shuts
<1>. QED BY <1>1, <1>3, <1>4, <1>5

\* A batch of frames concerns the wire only (egress.enqueueBatch).
LEMMA EnqueuedShape ==
  ASSUME NEW s, Shape(s), NEW frames
  PROVE  LET t == enqueued(s, frames)
         IN  /\ Shape(t) /\ SameCore(s, t) /\ t.input = s.input
             /\ t.transitionalInput = s.transitionalInput
             /\ t.transitionalModes = s.transitionalModes
             /\ Queues(s) => Queues(t)
<1>1. PICK t : t = enqueued(s, frames)
  OBVIOUS
<1>2. PICK g : t = [s EXCEPT !.egress = g]
  <2>1. PICK g : g = [s.egress EXCEPT !.wire = @ \o kept(frames)]
    OBVIOUS
  <2>. QED BY <1>1, <2>1 DEF enqueued, Shape
<1>3. Shape(t)
  BY <1>2 DEF Shape
<1>4. SameCore(s, t)
  BY <1>2 DEF Shape, SameCore
<1>5. /\ t.input = s.input /\ t.transitionalInput = s.transitionalInput
      /\ t.transitionalModes = s.transitionalModes
  BY <1>2 DEF Shape
<1>. QED BY <1>1, <1>3, <1>4, <1>5 DEF Queues

\* A change of the queues alone is a move.
LEMMA MovesSame ==
  ASSUME NEW s, NEW t, SameCore(s, t)
  PROVE  Moves(s, t)
BY DEF SameCore, Moves

\* maybePublishPrepare never finds the contradiction it guards against.
LEMMA Prepares ==
  ASSUME NEW s, Sound(s), s.active # NoCut, NEW room
  PROVE  LET o == maybePublishPrepare(s, room)
         IN  /\ o.err \in {"ok"} \cup Harmless
             /\ Sound(o.s) /\ Moves(s, o.s)
             /\ o.err # "ok" => o.s = s
<1>. DEFINE c == s.active
            trivial == c.prepared \/ ~c.captured \/ ~c.marked
            prepare == [frame("PREPARE", c.id, IF e.given.outputOwner THEN <<>> ELSE c.pre)
                      EXCEPT !.kind = c.kind, !.request = c.request, !.at = c.at]
            sent == [enqueued(s, <<prepare>>) EXCEPT
                   !.protocol = afterPrepare(@, c), !.active.prepared = TRUE]
<1>0. /\ Alive(s) /\ Shape(s) /\ Queues(s) /\ StartOK(s) /\ EndOK(s) /\ CutOK(s) /\ HistoryOK(s)
      /\ c \in CutRec /\ s.protocol \in Protocol /\ s.start \in StartRec
  BY ShapeFields DEF Sound, EndOK
<1>1. ASSUME NEW o, o = ok(s)
      PROVE  o.err = "ok" /\ Sound(o.s) /\ Moves(s, o.s)
  BY <1>1 DEF ok, Moves
<1>2. ASSUME NEW o, o = fails(s, "fault")
      PROVE  o.err \in Harmless /\ o.s = s /\ Sound(o.s) /\ Moves(s, o.s)
  BY <1>2 DEF fails, Moves, Harmless
<1>3. CASE trivial
  <2>1. maybePublishPrepare(s, room) = ok(s)
    BY <1>0, <1>3 DEF maybePublishPrepare, Alive
  <2>. QED BY <1>1, <2>1
<1>4. CASE ~trivial
  <2>0. c.captured /\ c.marked /\ ~c.prepared /\ c.issued
    BY <1>0, <1>4 DEF CutOK, CutRec
  <2>1. c.kind = "initial" =>
          s.start.phase = "awaiting" /\ s.start.pending = "none" /\ s.start.ownership = "exact"
    BY <1>0, <2>0 DEF CutOK, StartOK
  <2>2. c.kind = "history" => s.phase[c.request] = "issued"
    BY <1>0, <2>0 DEF HistoryOK
  <2>3. mayPrepare(s.protocol, c)
    <3>1. s.protocol.cut \in Nat /\ c.id \in Nat /\ s.protocol.cut < c.id
      BY <1>0, <2>0 DEF CutOK, Protocol, CutRec
    <3>2. s.protocol.state = IF c.kind = "initial" THEN "awaitPrepare" ELSE "live"
      BY <1>0, <2>0 DEF CutOK
    <3>. QED BY <3>1, <3>2 DEF mayPrepare
  <2>4. CASE ~mayEnqueue(s, <<prepare>>, room)
    <3>1. maybePublishPrepare(s, room) = fails(s, "fault")
      BY <1>0, <2>0, <2>1, <2>2, <2>3, <2>4 DEF maybePublishPrepare, Alive
    <3>. QED BY <1>2, <3>1
  <2>5. CASE mayEnqueue(s, <<prepare>>, room)
    <3>1. PICK m : m = enqueued(s, <<prepare>>)
      OBVIOUS
    <3>2. /\ Shape(m) /\ SameCore(s, m) /\ Queues(m) /\ m.input = s.input
          /\ m.transitionalInput = s.transitionalInput /\ m.transitionalModes = s.transitionalModes
      BY <1>0, <3>1, EnqueuedShape
    <3>3. PICK p, d, r :
            /\ p = afterPrepare(s.protocol, c)
            /\ d = [c EXCEPT !.prepared = TRUE]
            /\ r = IF c.kind = "initial"
                   THEN [s.start EXCEPT !.result = "prepared", !.phase = "prepared"] ELSE s.start
      OBVIOUS
    <3>4. PICK t : t = [m EXCEPT !.protocol = p, !.active = d, !.start = r]
      OBVIOUS
    <3>5. maybePublishPrepare(s, room) = ok(t)
      <4>1. m.protocol = s.protocol /\ m.active = c /\ m.start = s.start
        BY <3>2 DEF SameCore
      <4>2. PICK q : q = sent
        OBVIOUS
      <4>3. q = [m EXCEPT !.protocol = p, !.active = d]
        BY <3>1, <3>2, <3>3, <4>1, <4>2 DEF Shape
      <4>4. (IF c.kind = "initial"
             THEN [q EXCEPT !.start.result = "prepared", !.start.phase = "prepared"] ELSE q) = t
        <5>1. q.start = s.start
          BY <3>2, <4>1, <4>3 DEF Shape
        <5>2. CASE c.kind = "initial"
          BY <3>2, <3>3, <3>4, <4>1, <4>3, <5>1, <5>2 DEF Shape
        <5>3. CASE c.kind # "initial"
          BY <3>2, <3>3, <3>4, <4>1, <4>3, <5>1, <5>3 DEF Shape
        <5>. QED BY <5>2, <5>3
      <4>5. maybePublishPrepare(s, room)
              = IF c.kind = "initial"
                THEN ok([sent EXCEPT !.start.result = "prepared", !.start.phase = "prepared"])
                ELSE ok(sent)
        BY <1>0, <2>0, <2>1, <2>2, <2>3, <2>5 DEF maybePublishPrepare, Alive
      <4>. QED BY <4>2, <4>4, <4>5
    <3>6. p \in Protocol /\ p.state = "prepared" /\ p.cut = c.id
      BY <1>0, <3>3 DEF afterPrepare, Protocol, CutRec
    <3>7. /\ d \in CutRec /\ d.prepared /\ d.id = c.id /\ d.kind = c.kind /\ d.issued = c.issued
          /\ d.captured = c.captured /\ d.marked = c.marked /\ d.request = c.request
      BY <1>0, <3>3 DEF CutRec
    <3>8. /\ r \in StartRec /\ r.ownership = s.start.ownership /\ r.pending = s.start.pending
          /\ r.phase = IF c.kind = "initial" THEN "prepared" ELSE s.start.phase
          /\ r.result = IF c.kind = "initial" THEN "prepared" ELSE s.start.result
      BY <1>0, <3>3 DEF StartRec
    <3>9. Shape(t)
      BY <3>2, <3>4, <3>6, <3>7, <3>8 DEF Shape
    <3>10. /\ t.protocol = p /\ t.active = d /\ t.start = r
           /\ t.given = s.given /\ t.scheduler = s.scheduler /\ t.nextCut = s.nextCut
           /\ t.terminal = s.terminal /\ t.pendingHistory = s.pendingHistory
           /\ t.lastHistoryRequest = s.lastHistoryRequest /\ t.phase = s.phase
           /\ t.cleanup = s.cleanup /\ t.ingress = s.ingress
      BY <3>2, <3>4 DEF Shape, SameCore
    <3>11. /\ t.input = s.input /\ t.transitionalInput = s.transitionalInput
           /\ t.transitionalModes = s.transitionalModes
      BY <3>2, <3>4 DEF Shape
    <3>12. d # NoCut /\ c.id # 0
      BY <1>0, <3>7 DEF CutRec, NoCut
    <3>13. r.phase = "prepared"
      BY <1>0, <2>0, <3>8 DEF CutOK
    <3>14. Queues(t)
      BY <1>0, <3>11 DEF Queues
    <3>15. StartOK(t) /\ EndOK(t)
      <4>1. c.kind # "initial" => s.start.phase = "prepared"
        BY <1>0 DEF CutOK
      <4>. QED BY <1>0, <2>1, <3>8, <3>10, <3>13, <4>1 DEF StartOK, EndOK, Alive
    <3>16. CutOK(t)
      <4>1. c.id = s.nextCut /\ c.id \in Nat
        BY <1>0 DEF CutOK, CutRec
      <4>2. d.captured /\ d.marked /\ d.issued /\ d.id = s.nextCut
        BY <2>0, <3>7, <4>1
      <4>3. p.cut = s.nextCut /\ s.nextCut \in Nat /\ p.cut # 0
        BY <3>6, <3>12, <4>1
      <4>4. p.cut <= s.nextCut
        BY <4>3
      <4>. QED BY <3>6, <3>7, <3>10, <3>12, <3>13, <4>1, <4>2, <4>3, <4>4 DEF CutOK
    <3>17. HistoryOK(t)
      BY <1>0, <3>7, <3>10, <3>12 DEF HistoryOK
    <3>18. Moves(s, t)
      BY <1>0, <2>1, <3>7, <3>8, <3>10, <3>12, <3>13 DEF Moves, CutOK
    <3>19. Sound(t)
      BY <3>9, <3>14, <3>15, <3>16, <3>17 DEF Sound
    <3>. QED BY <3>5, <3>18, <3>19 DEF ok
  <2>. QED BY <2>4, <2>5
<1>. QED BY <1>3, <1>4

\* sendLive in a live epoch never meets a protocol out of its state.
LEMMA SendsLive ==
  ASSUME NEW s, Sound(s), s.protocol.state = "live", NEW data, NEW room
  PROVE  LET o == sendLive(s, data, room)
         IN  /\ o.err \in {"ok"} \cup Harmless
             /\ Sound(o.s) /\ SameCore(s, o.s)
             /\ o.err # "ok" => o.s = s
<1>1. CASE ~mayEnqueue(s, <<live(s, data)>>, room)
  <2>1. sendLive(s, data, room) = fails(s, "fault")
    BY <1>1 DEF sendLive, mayLive
  <2>. QED BY <2>1 DEF fails, Harmless, SameCore
<1>2. CASE mayEnqueue(s, <<live(s, data)>>, room)
  <2>1. PICK t : t = enqueued(s, <<live(s, data)>>)
    OBVIOUS
  <2>2. sendLive(s, data, room) = ok(t)
    BY <1>2, <2>1 DEF sendLive, mayLive
  <2>3. Shape(t) /\ SameCore(s, t) /\ Queues(t)
    BY <2>1, EnqueuedShape DEF Sound
  <2>4. Sound(t)
    BY <2>3, CoreSound
  <2>. QED BY <2>2, <2>3, <2>4 DEF ok
<1>. QED BY <1>1, <1>2

\* Output kept back by a cut.
LEMMA KeepsBack ==
  ASSUME NEW s, Sound(s), s.active # NoCut, NEW d \in CutRec, NEW t,
         t = [s EXCEPT !.active = d],
         d = [s.active EXCEPT !.pre = d.pre, !.held = d.held]
  PROVE  Sound(t) /\ Moves(s, t)
<1>1. s.active \in CutRec /\ Shape(s)
  BY ShapeFields DEF Sound
<1>2. /\ d.id = s.active.id /\ d.kind = s.active.kind /\ d.issued = s.active.issued
      /\ d.captured = s.active.captured /\ d.marked = s.active.marked
      /\ d.prepared = s.active.prepared /\ d.request = s.active.request
  BY <1>1 DEF CutRec
<1>3. d # NoCut
  BY DEF CutRec, NoCut
<1>4. Shape(t)
  BY <1>1 DEF Shape
<1>5. /\ t.active = d
      /\ t.given = s.given /\ t.protocol = s.protocol /\ t.scheduler = s.scheduler
      /\ t.nextCut = s.nextCut /\ t.start = s.start
      /\ t.terminal = s.terminal /\ t.pendingHistory = s.pendingHistory
      /\ t.lastHistoryRequest = s.lastHistoryRequest /\ t.phase = s.phase
      /\ t.cleanup = s.cleanup /\ t.ingress = s.ingress
      /\ t.input = s.input /\ t.transitionalInput = s.transitionalInput
      /\ t.transitionalModes = s.transitionalModes
  BY <1>1 DEF Shape
<1>6. Queues(t) /\ StartOK(t) /\ EndOK(t)
  BY <1>5 DEF Sound, Queues, StartOK, EndOK, Alive
<1>7. CutOK(s) => CutOK(t)
  BY <1>2, <1>3, <1>5 DEF CutOK
<1>8. HistoryOK(s) => HistoryOK(t)
  BY <1>2, <1>3, <1>5 DEF HistoryOK
<1>9. Moves(s, t)
  BY <1>2, <1>3, <1>5 DEF Moves
<1>. QED BY <1>4, <1>5, <1>6, <1>7, <1>8, <1>9 DEF Sound, Alive

\* Output of an open cut is held, kept for its PREPARE, sent on or refused.
LEMMA FeedsOrdinary ==
  ASSUME NEW s, Sound(s), s.active # NoCut, NEW data \in Ordinary, NEW room
  PROVE  LET o == feedOrdinary(s, data, room)
         IN  /\ o.err \in {"ok"} \cup Harmless
             /\ Sound(o.s) /\ Moves(s, o.s)
             /\ o.err # "ok" => o.s = s
<1>0. s.active \in CutRec /\ Shape(s) /\ Alive(s) /\ CutOK(s)
  BY ShapeFields DEF Sound, EndOK
<1>1. s.active.pre \o data \in Ordinary /\ s.active.held \o data \in Ordinary
  <2>1. s.active.pre \in Seq(Nat) /\ s.active.held \in Seq(Nat) /\ data \in Seq(Nat)
    BY <1>0 DEF CutRec, Ordinary
  <2>. QED BY <2>1 DEF Ordinary
<1>2. ASSUME NEW o, o = fails(s, "fault")
      PROVE  o.err \in Harmless /\ o.s = s /\ Sound(o.s) /\ Moves(s, o.s)
  BY <1>2 DEF fails, Moves, Harmless
<1>3. CASE feedOrdinary(s, data, room) = fails(s, "fault")
  BY <1>2, <1>3
<1>4. CASE feedOrdinary(s, data, room) = ok([s EXCEPT !.active.held = @ \o data])
  <2>1. PICK t : t = [s EXCEPT !.active.held = @ \o data]
    OBVIOUS
  <2>2. PICK d : d = [s.active EXCEPT !.held = @ \o data]
    OBVIOUS
  <2>3. d \in CutRec /\ d = [s.active EXCEPT !.pre = d.pre, !.held = d.held]
    BY <1>0, <1>1, <2>2 DEF CutRec
  <2>4. t = [s EXCEPT !.active = d]
    BY <1>0, <2>1, <2>2 DEF Shape
  <2>5. Sound(t) /\ Moves(s, t)
    BY <2>3, <2>4, KeepsBack
  <2>. QED BY <1>4, <2>1, <2>5 DEF ok
<1>5. CASE feedOrdinary(s, data, room) = ok([s EXCEPT !.active.pre = @ \o data])
  <2>1. PICK t : t = [s EXCEPT !.active.pre = @ \o data]
    OBVIOUS
  <2>2. PICK d : d = [s.active EXCEPT !.pre = @ \o data]
    OBVIOUS
  <2>3. d \in CutRec /\ d = [s.active EXCEPT !.pre = d.pre, !.held = d.held]
    BY <1>0, <1>1, <2>2 DEF CutRec
  <2>4. t = [s EXCEPT !.active = d]
    BY <1>0, <2>1, <2>2 DEF Shape
  <2>5. Sound(t) /\ Moves(s, t)
    BY <2>3, <2>4, KeepsBack
  <2>. QED BY <1>5, <2>1, <2>5 DEF ok
<1>6. CASE ~s.active.marked /\ s.active.kind \in {"ongoing", "history"}
           /\ feedOrdinary(s, data, room) = sendLive(s, data, room)
  <2>1. s.protocol.state = "live"
    BY <1>0, <1>6 DEF CutOK
  <2>2. PICK o : o = sendLive(s, data, room)
    OBVIOUS
  <2>3. /\ o.err \in {"ok"} \cup Harmless /\ Sound(o.s) /\ SameCore(s, o.s)
        /\ o.err # "ok" => o.s = s
    BY <2>1, <2>2, SendsLive
  <2>. QED BY <1>6, <2>2, <2>3, MovesSame
<1>. QED BY <1>3, <1>4, <1>5, <1>6 DEF feedOrdinary

\* One move after another is a move.
LEMMA MovesOn ==
  ASSUME NEW s, NEW m, NEW t, Moves(s, m), Moves(m, t)
  PROVE  Moves(s, t)
BY DEF Moves

\* The framer, the replay and the count of reads.
reading(s, q, r, n) == [s EXCEPT !.ingress = q, !.replay = r, !.out = n]

\* None of them concerns the cut or the threads.
LEMMA ReadsOn ==
  ASSUME NEW s, Sound(s), NEW q \in Ordinary, NEW r \in Ordinary, NEW n, n \in Nat, NEW t,
         t = reading(s, q, r, n),
         q # <<>> => s.start.phase # "none"
  PROVE  /\ Sound(t) /\ Moves(s, t) /\ t.active = s.active /\ t.start = s.start
         /\ t.ingress = q /\ t.replay = r /\ t.out = n
<1>1. Shape(s) /\ t = [s EXCEPT !.ingress = q, !.replay = r, !.out = n]
  BY DEF Sound, reading
<1>2. Shape(t)
  BY <1>1 DEF Shape
<1>3. /\ t.active = s.active /\ t.ingress = q /\ t.replay = r /\ t.out = n
      /\ t.given = s.given /\ t.protocol = s.protocol /\ t.scheduler = s.scheduler
      /\ t.nextCut = s.nextCut /\ t.start = s.start
      /\ t.terminal = s.terminal /\ t.pendingHistory = s.pendingHistory
      /\ t.lastHistoryRequest = s.lastHistoryRequest /\ t.phase = s.phase
      /\ t.cleanup = s.cleanup
      /\ t.input = s.input /\ t.transitionalInput = s.transitionalInput
      /\ t.transitionalModes = s.transitionalModes
  BY <1>1 DEF Shape
<1>4. Queues(t) /\ StartOK(t) /\ EndOK(t)
  BY <1>3 DEF Sound, Queues, StartOK, EndOK, Alive
<1>5. CutOK(s) => CutOK(t)
  BY <1>3 DEF CutOK
<1>6. HistoryOK(s) => HistoryOK(t)
  BY <1>3 DEF HistoryOK
<1>7. Moves(s, t)
  BY <1>3 DEF Moves
<1>. QED BY <1>2, <1>3, <1>4, <1>5, <1>6, <1>7 DEF Sound, Alive

\* routeOrdinary: output reaches the cut, BIND's replay or the wire, or the epoch must end.
LEMMA Routes ==
  ASSUME NEW s, Sound(s), Alive(s), NEW data \in Ordinary,
         data # <<>> => s.start.phase # "none", NEW room
  PROVE  LET o == routeOrdinary(s, data, room)
         IN  o.err \in {"ok"} \cup Harmless /\ Sound(o.s) /\ Moves(s, o.s)
<1>0. Shape(s) /\ CutOK(s) /\ StartOK(s) /\ s.start \in StartRec
  BY ShapeFields DEF Sound
<1>1. CASE data = <<>>
  BY <1>1 DEF routeOrdinary, ok, Moves
<1>2. CASE data # <<>> /\ s.active # NoCut
  <2>1. PICK o : o = feedOrdinary(s, data, room)
    OBVIOUS
  <2>2. /\ o.err \in {"ok"} \cup Harmless /\ Sound(o.s) /\ Moves(s, o.s)
    BY <1>2, <2>1, FeedsOrdinary
  <2>3. CASE o.err # "ok"
    <3>1. routeOrdinary(s, data, room) = o
      BY <1>2, <2>1, <2>3 DEF routeOrdinary
    <3>. QED BY <2>2, <3>1
  <2>4. CASE o.err = "ok"
    <3>1. routeOrdinary(s, data, room) = maybePublishPrepare(o.s, room)
      BY <1>2, <2>1, <2>4 DEF routeOrdinary
    <3>2. PICK p : p = maybePublishPrepare(o.s, room)
      OBVIOUS
    <3>3. o.s.active # NoCut
      BY <1>2, <2>2 DEF Moves
    <3>4. p.err \in {"ok"} \cup Harmless /\ Sound(p.s) /\ Moves(o.s, p.s)
      BY <2>2, <3>2, <3>3, Prepares
    <3>. QED BY <2>2, <3>1, <3>2, <3>4, MovesOn
  <2>. QED BY <2>3, <2>4
<1>3. CASE data # <<>> /\ s.active = NoCut /\ bindingIngress(s)
  <2>1. CASE routeOrdinary(s, data, room) = fails(s, "fault")
    BY <2>1 DEF fails, Moves, Harmless
  <2>2. CASE routeOrdinary(s, data, room) = ok([s EXCEPT !.replay = @ \o data])
    <3>1. PICK t : t = [s EXCEPT !.replay = @ \o data]
      OBVIOUS
    <3>2. s.replay \in Ordinary /\ s.ingress \in Ordinary /\ s.out \in Nat
      BY <1>0, ShapeFields
    <3>3. PICK r : r = s.replay \o data
      OBVIOUS
    <3>3a. r \in Ordinary
      <4>1. s.replay \in Seq(Nat) /\ data \in Seq(Nat)
        BY <3>2 DEF Ordinary
      <4>2. s.replay \o data \in Seq(Nat)
        BY <4>1
      <4>. QED BY <3>3, <4>2 DEF Ordinary
    <3>3b. s.ingress # <<>> => s.start.phase # "none"
      BY <1>3 DEF bindingIngress
    <3>3c. PICK q, n : q = s.ingress /\ n = s.out
      OBVIOUS
    <3>4. t = reading(s, q, r, n)
      BY <1>0, <3>1, <3>3, <3>3c DEF Shape, reading
    <3>4a. q \in Ordinary /\ n \in Nat /\ (q # <<>> => s.start.phase # "none")
      BY <3>2, <3>3b, <3>3c
    <3>5. Sound(t) /\ Moves(s, t)
      BY <3>3a, <3>4, <3>4a, ReadsOn
    <3>. QED BY <2>2, <3>1, <3>5 DEF ok
  <2>. QED BY <1>3, <2>1, <2>2 DEF routeOrdinary
<1>4. CASE data # <<>> /\ s.active = NoCut /\ ~bindingIngress(s)
  <2>1. routeOrdinary(s, data, room) = sendLive(s, data, room)
    BY <1>4 DEF routeOrdinary
  <2>2. s.protocol.state = "live"
    <3>1. s.start.phase = "binding" => s.start.result = "none"
      BY <1>0 DEF StartOK
    <3>2. s.start.phase = "prepared"
      BY <1>0, <1>4, <3>1 DEF CutOK, StartOK, StartRec, bindingIngress
    <3>. QED BY <1>0, <1>4, <3>2 DEF CutOK
  <2>3. PICK o : o = sendLive(s, data, room)
    OBVIOUS
  <2>4. o.err \in {"ok"} \cup Harmless /\ Sound(o.s) /\ SameCore(s, o.s)
    BY <2>2, <2>3, SendsLive
  <2>. QED BY <2>1, <2>3, <2>4, MovesSame
<1>. QED BY <1>1, <1>2, <1>3, <1>4

\* acceptMarker marks the cut it names, once.
LEMMA Accepts ==
  ASSUME NEW s, Sound(s), s.active # NoCut, s.active.issued, NEW cut, NEW room
  PROVE  LET o == acceptMarker(s, cut, room)
         IN  o.err \in {"ok"} \cup Harmless /\ Sound(o.s) /\ Moves(s, o.s)
<1>0. Shape(s) /\ s.active \in CutRec /\ s.out \in Nat /\ Alive(s) /\ CutOK(s) /\ HistoryOK(s)
  BY ShapeFields DEF Sound, EndOK
<1>1. CASE acceptMarker(s, cut, room) = fails(s, "fault")
  <2>1. Moves(s, s)
    BY DEF Moves
  <2>. QED BY <1>1, <2>1 DEF fails, Harmless
<1>2. CASE /\ ~s.active.marked
           /\ acceptMarker(s, cut, room)
                = maybePublishPrepare([s EXCEPT !.active.marked = TRUE, !.active.at = s.out], room)
  <2>1. PICK d : d = [s.active EXCEPT !.marked = TRUE, !.at = s.out]
    OBVIOUS
  <2>2. PICK t : t = [s EXCEPT !.active = d]
    OBVIOUS
  <2>3. t = [s EXCEPT !.active.marked = TRUE, !.active.at = s.out]
    BY <1>0, <2>1, <2>2 DEF Shape
  <2>4. /\ d \in CutRec /\ d.id = s.active.id /\ d.kind = s.active.kind
        /\ d.issued = s.active.issued /\ d.captured = s.active.captured
        /\ d.prepared = s.active.prepared /\ d.request = s.active.request
    BY <1>0, <2>1 DEF CutRec
  <2>5. d # NoCut
    BY <2>4 DEF CutRec, NoCut
  <2>6. Shape(t)
    BY <1>0, <2>2, <2>4 DEF Shape
  <2>7. /\ t.active = d
        /\ t.given = s.given /\ t.protocol = s.protocol /\ t.scheduler = s.scheduler
        /\ t.nextCut = s.nextCut /\ t.start = s.start
        /\ t.terminal = s.terminal /\ t.pendingHistory = s.pendingHistory
        /\ t.lastHistoryRequest = s.lastHistoryRequest /\ t.phase = s.phase
        /\ t.cleanup = s.cleanup /\ t.ingress = s.ingress
        /\ t.input = s.input /\ t.transitionalInput = s.transitionalInput
        /\ t.transitionalModes = s.transitionalModes
    BY <1>0, <2>2 DEF Shape
  <2>8. Queues(t) /\ StartOK(t) /\ EndOK(t)
    BY <1>0, <2>7 DEF Sound, Queues, StartOK, EndOK, Alive
  <2>9. CutOK(t)
    <3>1. ~s.active.prepared /\ ~d.prepared
      BY <1>0, <1>2, <2>4 DEF CutOK
    <3>. QED BY <1>0, <2>4, <2>5, <2>7, <3>1 DEF CutOK
  <2>10. HistoryOK(t)
    BY <1>0, <2>4, <2>5, <2>7 DEF HistoryOK
  <2>11. Sound(t) /\ Moves(s, t) /\ t.active # NoCut
    BY <2>4, <2>5, <2>6, <2>7, <2>8, <2>9, <2>10 DEF Sound, Moves
  <2>12. PICK p : p = maybePublishPrepare(t, room)
    OBVIOUS
  <2>13. p.err \in {"ok"} \cup Harmless /\ Sound(p.s) /\ Moves(t, p.s)
    BY <2>11, <2>12, Prepares
  <2>. QED BY <1>2, <2>3, <2>11, <2>12, <2>13, MovesOn
<1>. QED BY <1>1, <1>2 DEF acceptMarker

\* newCut opens a cut with the next number that nothing has happened to.
LEMMA NewCutShape ==
  ASSUME NEW s, Shape(s), NEW kind, kind \in Kind, NEW request, request \in Nat
  PROVE  LET t == newCut(s, kind, request)
         IN  /\ Shape(t) /\ (Queues(s) => Queues(t))
             /\ t.active \in CutRec /\ t.active # NoCut /\ t.active.id = s.nextCut + 1
             /\ t.active.kind = kind /\ t.active.request = request
             /\ ~t.active.issued /\ ~t.active.captured /\ ~t.active.marked /\ ~t.active.prepared
             /\ t.nextCut = s.nextCut + 1
             /\ t.given = s.given /\ t.protocol = s.protocol /\ t.scheduler = s.scheduler
             /\ t.start = s.start /\ t.terminal = s.terminal
             /\ t.pendingHistory = s.pendingHistory
             /\ t.lastHistoryRequest = s.lastHistoryRequest /\ t.phase = s.phase
             /\ t.cleanup = s.cleanup /\ t.ingress = s.ingress
<1>1. PICK d : d = [id |-> s.nextCut + 1, kind |-> kind, request |-> request,
                    issued |-> FALSE, captured |-> FALSE, marked |-> FALSE,
                    prepared |-> FALSE, pre |-> <<>>, held |-> <<>>, at |-> 0]
  OBVIOUS
<1>2. PICK n : n = s.nextCut + 1
  OBVIOUS
<1>3. PICK t : t = newCut(s, kind, request)
  OBVIOUS
<1>4. t = [s EXCEPT !.nextCut = n, !.active = d]
  BY <1>1, <1>2, <1>3 DEF newCut, Shape
<1>5. n \in Nat /\ n # 0 /\ s.nextCut \in Nat
  BY <1>2, ShapeFields
<1>6. d \in CutRec
  <2>1. <<>> \in Ordinary
    BY NothingIn DEF Ordinary
  <2>. QED BY <1>1, <1>2, <1>5, <2>1 DEF CutRec
<1>7. /\ d # NoCut /\ d.id = n /\ d.kind = kind /\ d.request = request
      /\ ~d.issued /\ ~d.captured /\ ~d.marked /\ ~d.prepared
  BY <1>1, <1>2, <1>5 DEF NoCut
<1>8. Shape(t)
  BY <1>4, <1>5, <1>6 DEF Shape
<1>9. /\ t.active = d /\ t.nextCut = n
      /\ t.given = s.given /\ t.protocol = s.protocol /\ t.scheduler = s.scheduler
      /\ t.start = s.start /\ t.terminal = s.terminal
      /\ t.pendingHistory = s.pendingHistory
      /\ t.lastHistoryRequest = s.lastHistoryRequest /\ t.phase = s.phase
      /\ t.cleanup = s.cleanup /\ t.ingress = s.ingress
  BY <1>4 DEF Shape
<1>10. /\ t.input = s.input /\ t.transitionalInput = s.transitionalInput
       /\ t.transitionalModes = s.transitionalModes
  BY <1>4 DEF Shape
<1>. QED BY <1>2, <1>3, <1>6, <1>7, <1>8, <1>9, <1>10 DEF Queues

\* The scheduler's part of the struct.
scheduled(s, d) == [s EXCEPT !.scheduler = d]

\* A command to the scheduler leaves the rest of the epoch as it is.
LEMMA Schedules ==
  ASSUME NEW s, Shape(s), NEW d, d \in SchedulerRec, NEW t, t = scheduled(s, d)
  PROVE  /\ Shape(t) /\ (Queues(s) => Queues(t)) /\ t.scheduler = d
         /\ t.given = s.given /\ t.protocol = s.protocol
         /\ t.active = s.active /\ t.nextCut = s.nextCut /\ t.start = s.start
         /\ t.terminal = s.terminal /\ t.pendingHistory = s.pendingHistory
         /\ t.lastHistoryRequest = s.lastHistoryRequest /\ t.phase = s.phase
         /\ t.cleanup = s.cleanup /\ t.ingress = s.ingress
<1>0. t = [s EXCEPT !.scheduler = d]
  BY DEF scheduled
<1>1. Shape(t)
  BY <1>0 DEF Shape
<1>2. /\ t.input = s.input /\ t.transitionalInput = s.transitionalInput
      /\ t.transitionalModes = s.transitionalModes
  BY <1>0 DEF Shape
<1>3. /\ t.scheduler = d /\ t.given = s.given /\ t.protocol = s.protocol
      /\ t.active = s.active /\ t.nextCut = s.nextCut /\ t.start = s.start
      /\ t.terminal = s.terminal /\ t.pendingHistory = s.pendingHistory
      /\ t.lastHistoryRequest = s.lastHistoryRequest /\ t.phase = s.phase
      /\ t.cleanup = s.cleanup /\ t.ingress = s.ingress
  BY <1>0 DEF Shape
<1>. QED BY <1>1, <1>2, <1>3 DEF Queues

\* A command to the scheduler of a started epoch keeps it sound.
LEMMA SchedulesSound ==
  ASSUME NEW s, Sound(s), NEW d, d \in SchedulerRec, NEW t, t = scheduled(s, d),
         Alive(s) => ~d.stopped,
         Alive(s) /\ s.start.phase \in {"none", "binding"} => ~d.inFlight /\ ~d.dirty
  PROVE  Sound(t)
<1>1. Shape(s) /\ Queues(s)
  BY DEF Sound
<1>2. /\ Shape(t) /\ Queues(t) /\ t.scheduler = d
      /\ t.given = s.given /\ t.protocol = s.protocol
      /\ t.active = s.active /\ t.nextCut = s.nextCut /\ t.start = s.start
      /\ t.terminal = s.terminal /\ t.pendingHistory = s.pendingHistory
      /\ t.lastHistoryRequest = s.lastHistoryRequest /\ t.phase = s.phase
      /\ t.cleanup = s.cleanup /\ t.ingress = s.ingress
  BY <1>1, Schedules
<1>3. StartOK(t) /\ EndOK(t)
  BY <1>2 DEF Sound, StartOK, EndOK, Alive
<1>4. Alive(s) /\ CutOK(s) => CutOK(t)
  BY <1>2 DEF CutOK
<1>5. HistoryOK(s) => HistoryOK(t)
  BY <1>2 DEF HistoryOK
<1>. QED BY <1>2, <1>3, <1>4, <1>5 DEF Sound, Alive

\* beginExternal, activity and complete.
LEMMA BeginsShape ==
  ASSUME NEW s, Shape(s)
  PROVE  LET t == beginExternal(s)
         IN  /\ Shape(t) /\ (Queues(s) => Queues(t))
             /\ t.scheduler = [s.scheduler EXCEPT !.inFlight = TRUE]
             /\ t.given = s.given /\ t.protocol = s.protocol
             /\ t.active = s.active /\ t.nextCut = s.nextCut /\ t.start = s.start
             /\ t.terminal = s.terminal /\ t.pendingHistory = s.pendingHistory
             /\ t.lastHistoryRequest = s.lastHistoryRequest /\ t.phase = s.phase
             /\ t.cleanup = s.cleanup /\ t.ingress = s.ingress
<1>1. PICK d : d = [s.scheduler EXCEPT !.inFlight = TRUE]
  OBVIOUS
<1>2. PICK t : t = beginExternal(s)
  OBVIOUS
<1>3. t = scheduled(s, d)
  BY <1>1, <1>2 DEF beginExternal, scheduled, Shape
<1>4. d \in SchedulerRec
  BY <1>1, ShapeFields DEF SchedulerRec
<1>5. /\ Shape(t) /\ (Queues(s) => Queues(t)) /\ t.scheduler = d
      /\ t.given = s.given /\ t.protocol = s.protocol
      /\ t.active = s.active /\ t.nextCut = s.nextCut /\ t.start = s.start
      /\ t.terminal = s.terminal /\ t.pendingHistory = s.pendingHistory
      /\ t.lastHistoryRequest = s.lastHistoryRequest /\ t.phase = s.phase
      /\ t.cleanup = s.cleanup /\ t.ingress = s.ingress
  BY <1>3, <1>4, Schedules
<1>. QED BY <1>1, <1>2, <1>5

\* A scheduled, resize or history cut opens on a live protocol.
LEMMA OpensCut ==
  ASSUME NEW s, Shape(s), Queues(s), StartOK(s), EndOK(s), CutOK(s), HistoryOK(s), Alive(s),
         s.active = NoCut, s.protocol.state = "live",
         NEW kind, kind \in {"ongoing", "resize", "history"}, NEW request, request \in Nat,
         (kind = "history") = (request # 0),
         request # 0 => /\ request <= s.lastHistoryRequest /\ s.phase[request] = "queued"
                        /\ s.pendingHistory = 0
  PROVE  LET t == newCut(s, kind, request)
         IN  /\ Sound(t) /\ Alive(t)
             /\ t.active # NoCut /\ t.active.kind = kind /\ ~t.active.issued /\ ~t.active.captured
             /\ t.start = s.start /\ t.scheduler = s.scheduler /\ t.cleanup = s.cleanup
<1>0. PICK t : t = newCut(s, kind, request)
  OBVIOUS
<1>1. kind \in Kind
  BY DEF Kind
<1>2. /\ Shape(t) /\ Queues(t)
      /\ t.active \in CutRec /\ t.active # NoCut /\ t.active.id = s.nextCut + 1
      /\ t.active.kind = kind /\ t.active.request = request
      /\ ~t.active.issued /\ ~t.active.captured /\ ~t.active.marked /\ ~t.active.prepared
      /\ t.nextCut = s.nextCut + 1
      /\ t.given = s.given /\ t.protocol = s.protocol /\ t.scheduler = s.scheduler
      /\ t.start = s.start /\ t.terminal = s.terminal
      /\ t.pendingHistory = s.pendingHistory
      /\ t.lastHistoryRequest = s.lastHistoryRequest /\ t.phase = s.phase
      /\ t.cleanup = s.cleanup /\ t.ingress = s.ingress
  BY <1>0, <1>1, NewCutShape
<1>3. s.nextCut \in Nat /\ s.protocol.cut \in Nat /\ s.protocol.cut <= s.nextCut
  BY ShapeFields DEF Protocol, CutOK
<1>4. s.start.phase = "prepared"
  BY ShapeFields DEF CutOK, StartOK, StartRec
<1>5. StartOK(t) /\ EndOK(t)
  BY <1>2 DEF StartOK, EndOK, Alive
<1>6. CutOK(t)
  <2>1. t.protocol.cut <= t.nextCut /\ t.protocol.cut < t.active.id /\ t.active.id = t.nextCut
    BY <1>2, <1>3
  <2>2. t.active.kind # "initial"
    BY <1>2
  <2>. QED BY <1>2, <1>4, <2>1, <2>2 DEF CutOK
<1>7. HistoryOK(t)
  BY <1>2 DEF HistoryOK
<1>8. Sound(t) /\ Alive(t)
  BY <1>2, <1>5, <1>6, <1>7 DEF Sound, Alive
<1>. QED BY <1>0, <1>2, <1>8

\* prepareStartCutLocked opens the INITIAL cut of an epoch that holds its attachment.
LEMMA StartsCut ==
  ASSUME NEW s, Sound(s), Alive(s), s.active = NoCut, s.start.phase = "binding",
         s.start.ownership = "exact", s.start.pending = "none"
  PROVE  LET t == startCut(s)
         IN  /\ Sound(t) /\ Alive(t)
             /\ t.active # NoCut /\ t.active.kind = "initial"
             /\ ~t.active.issued /\ ~t.active.captured
             /\ t.start.ownership = "exact" /\ t.start.phase = "cutting"
             /\ t.cleanup = s.cleanup
             /\ t.scheduler = [s.scheduler EXCEPT !.inFlight = TRUE]
<1>0. /\ Shape(s) /\ Queues(s) /\ StartOK(s) /\ EndOK(s) /\ CutOK(s) /\ HistoryOK(s)
      /\ s.start \in StartRec /\ s.scheduler \in SchedulerRec /\ s.protocol \in Protocol
      /\ s.nextCut \in Nat /\ s.replay \in Ordinary
  BY ShapeFields DEF Sound
<1>1. PICK b : b = beginExternal(s)
  OBVIOUS
<1>2. /\ Shape(b) /\ Queues(b)
      /\ b.scheduler = [s.scheduler EXCEPT !.inFlight = TRUE]
      /\ b.given = s.given /\ b.protocol = s.protocol
      /\ b.active = s.active /\ b.nextCut = s.nextCut /\ b.start = s.start
      /\ b.terminal = s.terminal /\ b.pendingHistory = s.pendingHistory
      /\ b.lastHistoryRequest = s.lastHistoryRequest /\ b.phase = s.phase
      /\ b.cleanup = s.cleanup /\ b.ingress = s.ingress
  BY <1>0, <1>1, BeginsShape
<1>3. PICK c : c = newCut(b, "initial", 0)
  OBVIOUS
<1>4. "initial" \in Kind /\ 0 \in Nat
  BY DEF Kind
<1>5. /\ Shape(c) /\ Queues(c)
      /\ c.active \in CutRec /\ c.active # NoCut /\ c.active.id = b.nextCut + 1
      /\ c.active.kind = "initial" /\ c.active.request = 0
      /\ ~c.active.issued /\ ~c.active.captured /\ ~c.active.marked /\ ~c.active.prepared
      /\ c.nextCut = b.nextCut + 1
      /\ c.given = b.given /\ c.protocol = b.protocol /\ c.scheduler = b.scheduler
      /\ c.start = b.start /\ c.terminal = b.terminal
      /\ c.pendingHistory = b.pendingHistory
      /\ c.lastHistoryRequest = b.lastHistoryRequest /\ c.phase = b.phase
      /\ c.cleanup = b.cleanup /\ c.ingress = b.ingress
  BY <1>2, <1>3, <1>4, NewCutShape
<1>6. PICK d : d = [c.active EXCEPT !.pre = s.replay]
  OBVIOUS
<1>7. PICK r : r = [s.start EXCEPT !.phase = "cutting"]
  OBVIOUS
<1>8. PICK t : t = startCut(s)
  OBVIOUS
<1>9. t = [c EXCEPT !.active = d, !.replay = <<>>, !.start = r]
  <2>1. t = [c EXCEPT !.active.pre = s.replay, !.replay = <<>>, !.start.phase = "cutting"]
    BY <1>1, <1>3, <1>8 DEF startCut
  <2>2. r = [c.start EXCEPT !.phase = "cutting"]
    BY <1>2, <1>5, <1>7
  <2>. QED BY <1>5, <1>6, <2>1, <2>2 DEF Shape
<1>10. /\ d \in CutRec /\ d.id = c.active.id /\ d.kind = "initial" /\ d.request = 0
       /\ ~d.issued /\ ~d.captured /\ ~d.marked /\ ~d.prepared
  BY <1>0, <1>5, <1>6 DEF CutRec
<1>11. d # NoCut
  BY <1>10 DEF CutRec, NoCut
<1>12. /\ r \in StartRec /\ r.phase = "cutting" /\ r.ownership = "exact"
       /\ r.pending = "none" /\ r.result = "none"
  BY <1>0, <1>7 DEF StartRec, StartOK
<1>13. <<>> \in Ordinary
  BY NothingIn DEF Ordinary
<1>14. Shape(t)
  BY <1>5, <1>9, <1>10, <1>12, <1>13 DEF Shape
<1>15. /\ t.active = d /\ t.start = r
       /\ t.given = s.given /\ t.protocol = s.protocol
       /\ t.scheduler = [s.scheduler EXCEPT !.inFlight = TRUE]
       /\ t.nextCut = s.nextCut + 1
       /\ t.terminal = s.terminal /\ t.pendingHistory = s.pendingHistory
       /\ t.lastHistoryRequest = s.lastHistoryRequest /\ t.phase = s.phase
       /\ t.cleanup = s.cleanup /\ t.ingress = s.ingress
  BY <1>2, <1>5, <1>9 DEF Shape
<1>16. /\ t.input = c.input /\ t.transitionalInput = c.transitionalInput
       /\ t.transitionalModes = c.transitionalModes
  BY <1>5, <1>9 DEF Shape
<1>17. Queues(t)
  BY <1>5, <1>16 DEF Queues
<1>18. StartOK(t)
  BY <1>12, <1>15 DEF StartOK
<1>19. EndOK(t) /\ Alive(t)
  BY <1>0, <1>15 DEF EndOK, Alive, SchedulerRec
<1>20. CutOK(t)
  <2>1. /\ s.protocol.cut \in Nat /\ s.protocol.cut <= s.nextCut /\ s.protocol.state = "awaitPrepare"
    BY <1>0 DEF Protocol, CutOK
  <2>2. t.protocol.cut <= t.nextCut /\ t.protocol.cut < d.id /\ d.id = t.nextCut
    BY <1>0, <1>2, <1>5, <1>10, <1>15, <2>1
  <2>. QED BY <1>10, <1>11, <1>12, <1>15, <2>1, <2>2 DEF CutOK
<1>21. HistoryOK(t)
  BY <1>0, <1>10, <1>11, <1>15 DEF HistoryOK
<1>. QED BY <1>8, <1>10, <1>11, <1>12, <1>14, <1>15, <1>17, <1>18, <1>19, <1>20, <1>21 DEF Sound

\* Issuing a cut marks it, and its history request with it.
LEMMA Issues ==
  ASSUME NEW s, Sound(s), s.active # NoCut, ~s.active.issued,
         s.active.request # 0 => s.phase[s.active.request] = "queued"
  PROVE  LET t == issue(s)
         IN  /\ Sound(t) /\ Alive(t)
             /\ t.active # NoCut /\ t.active.id = s.active.id /\ t.active.kind = s.active.kind
             /\ t.active.issued /\ t.active.captured = s.active.captured
             /\ t.start = s.start /\ t.cleanup = s.cleanup /\ t.scheduler = s.scheduler
<1>0. /\ Shape(s) /\ Queues(s) /\ StartOK(s) /\ EndOK(s) /\ Alive(s) /\ CutOK(s) /\ HistoryOK(s)
      /\ s.active \in CutRec /\ s.phase \in [1..s.given.max.history -> Progress]
      /\ s.lastHistoryRequest \in Nat /\ s.pendingHistory \in Nat /\ s.active.request \in Nat
  BY ShapeFields DEF Sound, EndOK, CutRec
<1>1. PICK d : d = [s.active EXCEPT !.issued = TRUE]
  OBVIOUS
<1>2. PICK f : f = IF s.active.request = 0 THEN s.phase
                   ELSE [s.phase EXCEPT ![s.active.request] = "issued"]
  OBVIOUS
<1>3. PICK t : t = issue(s)
  OBVIOUS
<1>4. t = [s EXCEPT !.active = d, !.phase = f]
  <2>1. CASE s.active.request = 0
    BY <1>0, <1>1, <1>2, <1>3, <2>1 DEF issue, Shape
  <2>2. CASE s.active.request # 0
    BY <1>0, <1>1, <1>2, <1>3, <2>2 DEF issue, Shape
  <2>. QED BY <2>1, <2>2
<1>5. /\ d \in CutRec /\ d.id = s.active.id /\ d.kind = s.active.kind /\ d.issued
      /\ d.captured = s.active.captured /\ d.marked = s.active.marked
      /\ d.prepared = s.active.prepared /\ d.request = s.active.request
  BY <1>0, <1>1 DEF CutRec
<1>6. d # NoCut
  BY <1>5 DEF CutRec, NoCut
<1>7. f \in [1..s.given.max.history -> Progress]
  BY <1>0, <1>2 DEF Progress
<1>8. Shape(t)
  BY <1>0, <1>4, <1>5, <1>7 DEF Shape
<1>9. /\ t.active = d /\ t.phase = f
      /\ t.given = s.given /\ t.protocol = s.protocol /\ t.scheduler = s.scheduler
      /\ t.nextCut = s.nextCut /\ t.start = s.start
      /\ t.terminal = s.terminal /\ t.pendingHistory = s.pendingHistory
      /\ t.lastHistoryRequest = s.lastHistoryRequest
      /\ t.cleanup = s.cleanup /\ t.ingress = s.ingress
      /\ t.input = s.input /\ t.transitionalInput = s.transitionalInput
      /\ t.transitionalModes = s.transitionalModes
  BY <1>0, <1>4 DEF Shape
<1>10. Queues(t) /\ StartOK(t) /\ EndOK(t) /\ Alive(t)
  BY <1>0, <1>9 DEF Queues, StartOK, EndOK, Alive
<1>11. CutOK(t)
  <2>1. ~s.active.prepared
    BY <1>0 DEF CutOK
  <2>. QED BY <1>0, <1>5, <1>6, <1>9, <2>1 DEF CutOK
<1>12. HistoryOK(t)
  <2>1. d.request # 0 => f[d.request] = "issued"
    <3>1. SUFFICES ASSUME d.request # 0 PROVE f[d.request] = "issued"
      OBVIOUS
    <3>2. s.active.request <= s.lastHistoryRequest /\ s.lastHistoryRequest <= s.given.max.history
      BY <1>0, <1>5, <3>1 DEF HistoryOK
    <3>3. s.given.max.history \in Nat
      BY <1>0, ShapeFields, EpochAssumption DEF Scenario, Bounds
    <3>4. s.active.request \in 1..s.given.max.history
      BY <1>0, <1>5, <3>1, <3>2, <3>3
    <3>. QED BY <1>0, <1>2, <1>5, <3>1, <3>4
  <2>2. s.pendingHistory # 0 => f[s.pendingHistory] = "queued"
    <3>1. SUFFICES ASSUME s.pendingHistory # 0 PROVE f[s.pendingHistory] = "queued"
      OBVIOUS
    <3>2. s.phase[s.pendingHistory] = "queued" /\ s.pendingHistory = s.lastHistoryRequest
          /\ s.lastHistoryRequest <= s.given.max.history
      BY <1>0, <3>1 DEF HistoryOK
    <3>3. CASE s.active.request = 0
      BY <1>2, <3>2, <3>3
    <3>4. CASE s.active.request # 0
      <4>1. s.active.request < s.pendingHistory
        BY <1>0, <3>1, <3>4 DEF HistoryOK
      <4>2. s.given.max.history \in Nat
        BY <1>0, ShapeFields, EpochAssumption DEF Scenario, Bounds
      <4>3. s.pendingHistory \in 1..s.given.max.history /\ s.pendingHistory # s.active.request
        BY <1>0, <3>1, <3>2, <4>1, <4>2
      <4>. QED BY <1>0, <1>2, <3>2, <3>4, <4>3
    <3>. QED BY <3>3, <3>4
  <2>3. d.request # 0 => /\ d.request <= s.lastHistoryRequest
                         /\ s.pendingHistory # 0 => d.request < s.pendingHistory
    BY <1>0, <1>5 DEF HistoryOK
  <2>4. /\ s.lastHistoryRequest <= s.given.max.history
        /\ s.pendingHistory # 0 => s.pendingHistory = s.lastHistoryRequest
        /\ (d.kind = "history") = (d.request # 0)
    BY <1>0, <1>5 DEF HistoryOK
  <2>. QED BY <1>5, <1>6, <1>9, <2>1, <2>2, <2>3, <2>4 DEF HistoryOK
<1>. QED BY <1>3, <1>5, <1>6, <1>8, <1>9, <1>10, <1>11, <1>12 DEF Sound

\* The capture of a cut is recorded, and that of the INITIAL one awaits its marker.
LEMMA Captures ==
  ASSUME NEW s, Sound(s), s.active # NoCut, s.active.issued, ~s.active.captured,
         NEW who, (who = "start") = (s.active.kind = "initial")
  PROVE  LET t == captured(s, who)
         IN  /\ Sound(t) /\ Alive(t)
             /\ t.active # NoCut /\ t.active.id = s.active.id /\ t.active.kind = s.active.kind
             /\ t.active.issued /\ t.active.captured
             /\ t.start.ownership = s.start.ownership
             /\ t.start.phase = IF who = "start" THEN "awaiting" ELSE s.start.phase
             /\ t.cleanup = s.cleanup /\ t.scheduler = s.scheduler
<1>0. /\ Shape(s) /\ Queues(s) /\ StartOK(s) /\ EndOK(s) /\ Alive(s) /\ CutOK(s) /\ HistoryOK(s)
      /\ s.active \in CutRec /\ s.start \in StartRec
  BY ShapeFields DEF Sound, EndOK
<1>1. PICK d : d = [s.active EXCEPT !.captured = TRUE]
  OBVIOUS
<1>2. PICK r : r = IF who = "start" THEN [s.start EXCEPT !.phase = "awaiting"] ELSE s.start
  OBVIOUS
<1>3. PICK t : t = captured(s, who)
  OBVIOUS
<1>4. t = [s EXCEPT !.active = d, !.start = r]
  <2>1. CASE who = "start"
    BY <1>0, <1>1, <1>2, <1>3, <2>1 DEF captured, Shape
  <2>2. CASE who # "start"
    BY <1>0, <1>1, <1>2, <1>3, <2>2 DEF captured, Shape
  <2>. QED BY <2>1, <2>2
<1>5. /\ d \in CutRec /\ d.id = s.active.id /\ d.kind = s.active.kind /\ d.issued
      /\ d.captured /\ d.marked = s.active.marked
      /\ d.prepared = s.active.prepared /\ d.request = s.active.request
  BY <1>0, <1>1 DEF CutRec
<1>6. d # NoCut
  BY <1>5 DEF CutRec, NoCut
<1>7. ~s.active.prepared
  BY <1>0 DEF CutOK
<1>8. s.active.kind = "initial" => s.start.phase = "cutting"
  BY <1>0, <1>7 DEF CutOK
<1>9. /\ r \in StartRec /\ r.ownership = s.start.ownership /\ r.pending = s.start.pending
      /\ r.result = s.start.result
      /\ r.phase = IF who = "start" THEN "awaiting" ELSE s.start.phase
  BY <1>0, <1>2 DEF StartRec
<1>10. Shape(t)
  BY <1>0, <1>4, <1>5, <1>9 DEF Shape
<1>11. /\ t.active = d /\ t.start = r
       /\ t.given = s.given /\ t.protocol = s.protocol /\ t.scheduler = s.scheduler
       /\ t.nextCut = s.nextCut /\ t.phase = s.phase
       /\ t.terminal = s.terminal /\ t.pendingHistory = s.pendingHistory
       /\ t.lastHistoryRequest = s.lastHistoryRequest
       /\ t.cleanup = s.cleanup /\ t.ingress = s.ingress
       /\ t.input = s.input /\ t.transitionalInput = s.transitionalInput
       /\ t.transitionalModes = s.transitionalModes
  BY <1>0, <1>4 DEF Shape
<1>12. Queues(t) /\ EndOK(t) /\ Alive(t)
  BY <1>0, <1>11 DEF Queues, EndOK, Alive
<1>13. StartOK(t)
  BY <1>0, <1>8, <1>9, <1>11 DEF StartOK, Alive
<1>14. CutOK(t)
  BY <1>0, <1>5, <1>6, <1>7, <1>8, <1>9, <1>11 DEF CutOK
<1>15. HistoryOK(t)
  BY <1>0, <1>5, <1>6, <1>11 DEF HistoryOK
<1>. QED BY <1>3, <1>5, <1>6, <1>9, <1>10, <1>11, <1>12, <1>13, <1>14, <1>15 DEF Sound

\* What READY or DEFER releases.
LEMMA Releases ==
  ASSUME NEW s, Shape(s), Queues(s), mayRelease(s)
  PROVE  LET t == released(s)
         IN  /\ Shape(t) /\ Queues(t)
             /\ t.protocol.state = s.protocol.state /\ t.protocol.cut = s.protocol.cut
             /\ t.given = s.given /\ t.scheduler = s.scheduler
             /\ t.active = s.active /\ t.nextCut = s.nextCut /\ t.start = s.start
             /\ t.terminal = s.terminal /\ t.pendingHistory = s.pendingHistory
             /\ t.lastHistoryRequest = s.lastHistoryRequest /\ t.phase = s.phase
             /\ t.cleanup = s.cleanup /\ t.ingress = s.ingress
<1>. DEFINE asked == IF s.transitionalInput = <<>> THEN ToSet(s.transitionalModes) ELSE {}
<1>0. /\ s.input \in InputRec /\ s.protocol \in Protocol
      /\ s.transitionalInput \in Seq(Nat) /\ s.transitionalModes \in Seq(Mode)
  BY ShapeFields
<1>1. PICK m : m = releasedMode(s)
  OBVIOUS
<1>2. m \in Mode
  <2>1. CASE s.transitionalInput # <<>> \/ s.transitionalModes = <<>>
    BY <1>0, <1>1, <2>1 DEF releasedMode, Protocol
  <2>2. CASE s.transitionalInput = <<>> /\ s.transitionalModes # <<>>
    <3>1. Len(s.transitionalModes) \in 1..Len(s.transitionalModes)
      BY <1>0, <2>2
    <3>2. m = s.transitionalModes[Len(s.transitionalModes)]
      BY <1>1, <2>2 DEF releasedMode, Last
    <3>. QED BY <1>0, <3>1, <3>2
  <2>. QED BY <2>1, <2>2
<1>3. PICK b : b = IF "observe" \in asked THEN revoke(s) ELSE s
  OBVIOUS
<1>4. /\ Shape(b) /\ Queues(b) /\ SameCore(s, b)
      /\ b.transitionalInput = s.transitionalInput
      /\ b.transitionalModes = s.transitionalModes
      /\ s.transitionalInput # <<>> => b = s
  BY <1>3, RevokeShape DEF SameCore
<1>5. PICK p, i :
        /\ p = [s.protocol EXCEPT !.mode = m]
        /\ i = [b.input EXCEPT !.mode = IF asked = {} THEN @ ELSE m,
                               !.queue = @ \o s.transitionalInput]
  OBVIOUS
<1>6. p \in Protocol /\ p.state = s.protocol.state /\ p.cut = s.protocol.cut
  BY <1>0, <1>2, <1>5 DEF Protocol
<1>7. b.input \in InputRec /\ b.input.queue \in Seq(Nat)
  BY <1>4, ShapeFields DEF InputRec
<1>8. b.input.queue \o s.transitionalInput \in Seq(Nat)
  BY <1>0, <1>7
<1>9. i \in InputRec /\ i.queue = b.input.queue \o s.transitionalInput
  BY <1>2, <1>5, <1>7, <1>8 DEF InputRec
<1>10. Len(i.queue) <= MaxInputFrames
  <2>1. Len(i.queue) = Len(b.input.queue) + Len(s.transitionalInput)
    BY <1>0, <1>7, <1>9
  <2>2. CASE s.transitionalInput = <<>>
    <3>1. Len(s.transitionalInput) = 0
      BY <2>2, NothingIn
    <3>. QED BY <1>4, <1>7, <2>1, <3>1 DEF Queues
  <2>3. CASE s.transitionalInput # <<>>
    <3>1. Len(s.transitionalInput) + Len(b.input.queue) <= MaxInputFrames
      BY <1>4, <2>3 DEF mayRelease, mayPump
    <3>2. Len(s.transitionalInput) \in Nat /\ Len(b.input.queue) \in Nat
      BY <1>0, <1>7
    <3>3. PICK u \in Nat, v \in Nat :
            u = Len(s.transitionalInput) /\ v = Len(b.input.queue)
      BY <3>2
    <3>4. u + v <= MaxInputFrames /\ Len(i.queue) = v + u
      BY <2>1, <3>1, <3>3
    <3>5. u + v = v + u
      OBVIOUS
    <3>. QED BY <3>4, <3>5
  <2>. QED BY <2>2, <2>3
<1>11. PICK t : t = released(s)
  OBVIOUS
<1>12. t = [b EXCEPT !.protocol = p, !.input = i, !.transitionalInput = <<>>,
                     !.transitionalModes = <<>>]
  <2>1. PICK j : j = [b.input EXCEPT !.mode = IF asked = {} THEN @ ELSE m]
    OBVIOUS
  <2>2. PICK c : c = [b EXCEPT !.protocol.mode = releasedMode(s),
                               !.input.mode = IF asked = {} THEN @ ELSE releasedMode(s)]
    OBVIOUS
  <2>3. c = [b EXCEPT !.protocol = p, !.input = j]
    BY <1>1, <1>4, <1>5, <2>1, <2>2 DEF Shape, SameCore
  <2>4. t = clearTransitional(pumped(c, s.transitionalInput))
    BY <1>3, <1>11, <2>2 DEF released
  <2>5. pumped(c, s.transitionalInput) = [c EXCEPT !.input = i]
    <3>1. c.input = j
      BY <1>4, <2>3 DEF Shape
    <3>2. i = [j EXCEPT !.queue = @ \o s.transitionalInput]
      BY <1>5, <1>7, <2>1 DEF InputRec
    <3>. QED BY <1>4, <2>3, <3>1, <3>2 DEF pumped, Shape
  <2>. QED BY <1>4, <2>3, <2>4, <2>5 DEF clearTransitional, Shape
<1>13. <<>> \in Seq(Nat) /\ <<>> \in Seq(Mode) /\ Len(<<>>) = 0
  BY NothingIn
<1>14. Shape(t)
  BY <1>4, <1>6, <1>9, <1>12, <1>13 DEF Shape
<1>15. /\ t.protocol = p /\ t.input = i
       /\ t.transitionalInput = <<>> /\ t.transitionalModes = <<>>
  BY <1>4, <1>12 DEF Shape
<1>16. Queues(t)
  BY <1>10, <1>13, <1>15, EpochAssumption DEF Queues
<1>17. /\ t.given = s.given /\ t.scheduler = s.scheduler
       /\ t.active = s.active /\ t.nextCut = s.nextCut /\ t.start = s.start
       /\ t.terminal = s.terminal /\ t.pendingHistory = s.pendingHistory
       /\ t.lastHistoryRequest = s.lastHistoryRequest /\ t.phase = s.phase
       /\ t.cleanup = s.cleanup /\ t.ingress = s.ingress
  BY <1>4, <1>12 DEF Shape, SameCore
<1>. QED BY <1>6, <1>11, <1>14, <1>15, <1>16, <1>17

\* The cut is over: the protocol is live again.
LEMMA FinishesCut ==
  ASSUME NEW s, Shape(s), Queues(s), StartOK(s), EndOK(s), Alive(s), s.active # NoCut,
         s.start.phase = "prepared", s.protocol.state = "live",
         s.protocol.cut # 0, s.protocol.cut <= s.nextCut,
         s.lastHistoryRequest <= s.given.max.history,
         s.pendingHistory # 0 => s.pendingHistory = s.lastHistoryRequest
                                 /\ s.phase[s.pendingHistory] = "queued"
  PROVE  LET t == finishActive(s)
         IN  /\ Sound(t) /\ Alive(t) /\ t.active = NoCut
             /\ t.start = s.start /\ t.cleanup = s.cleanup /\ t.scheduler = s.scheduler
<1>1. PICK t : t = finishActive(s)
  OBVIOUS
<1>2. t = [s EXCEPT !.active = NoCut]
  BY <1>1 DEF finishActive
<1>3. Shape(t)
  BY <1>2 DEF Shape
<1>4. /\ t.active = NoCut
      /\ t.given = s.given /\ t.protocol = s.protocol /\ t.scheduler = s.scheduler
      /\ t.nextCut = s.nextCut /\ t.phase = s.phase /\ t.start = s.start
      /\ t.terminal = s.terminal /\ t.pendingHistory = s.pendingHistory
      /\ t.lastHistoryRequest = s.lastHistoryRequest
      /\ t.cleanup = s.cleanup /\ t.ingress = s.ingress
      /\ t.input = s.input /\ t.transitionalInput = s.transitionalInput
      /\ t.transitionalModes = s.transitionalModes
  BY <1>2 DEF Shape
<1>5. Queues(t) /\ StartOK(t) /\ EndOK(t) /\ Alive(t)
  BY <1>4 DEF Queues, StartOK, EndOK, Alive
<1>6. CutOK(t)
  BY <1>4 DEF CutOK
<1>7. HistoryOK(t)
  BY <1>4 DEF HistoryOK
<1>. QED BY <1>1, <1>3, <1>4, <1>5, <1>6, <1>7 DEF Sound

\* READY and DEFER of the prepared cut.
LEMMA AnswersCut ==
  ASSUME NEW s, Sound(s), s.active # NoCut, s.active.prepared, NEW commit,
         NEW outcome, outcome \in Progress, NEW room
  PROVE  LET o == answered(s, commit, outcome, room)
         IN  /\ o.err \in {"ok"} \cup Harmless
             /\ o.err # "ok" => o.s = s
             /\ o.err = "ok" =>
                  /\ Sound(o.s) /\ Alive(o.s) /\ o.s.active = NoCut
                  /\ o.s.start = s.start /\ o.s.cleanup = s.cleanup
                  /\ o.s.scheduler = s.scheduler
<1>. DEFINE back == [s EXCEPT !.protocol.state = "live"]
            frames == commit \o heldFrames(s) \o releaseFrames(s)
<1>0. /\ Shape(s) /\ Queues(s) /\ StartOK(s) /\ EndOK(s) /\ Alive(s) /\ CutOK(s) /\ HistoryOK(s)
      /\ s.active \in CutRec /\ s.protocol \in Protocol
      /\ s.phase \in [1..s.given.max.history -> Progress]
  BY ShapeFields DEF Sound, EndOK
<1>1. CASE answered(s, commit, outcome, room) = fails(s, "fault")
  BY <1>1 DEF fails, Harmless
<1>2. s.active.kind = "history" => s.phase[s.active.request] = "issued"
  BY <1>0 DEF HistoryOK, CutOK
<1>3. CASE mayRelease(s) /\ answered(s, commit, outcome, room)
             = ok(finishActive(historyEnds(released(enqueued(back, frames)), outcome)))
  <2>1. PICK p, b : p = [s.protocol EXCEPT !.state = "live"] /\ b = [s EXCEPT !.protocol = p]
    OBVIOUS
  <2>2. p \in Protocol /\ p.state = "live" /\ p.cut = s.protocol.cut
    BY <1>0, <2>1 DEF Protocol
  <2>3. back = b
    BY <1>0, <2>1 DEF Shape
  <2>4. Shape(b)
    BY <1>0, <2>1, <2>2 DEF Shape
  <2>5. /\ b.protocol = p /\ b.active = s.active
        /\ b.given = s.given /\ b.scheduler = s.scheduler
        /\ b.nextCut = s.nextCut /\ b.start = s.start
        /\ b.terminal = s.terminal /\ b.pendingHistory = s.pendingHistory
        /\ b.lastHistoryRequest = s.lastHistoryRequest /\ b.phase = s.phase
        /\ b.cleanup = s.cleanup /\ b.ingress = s.ingress
        /\ b.input = s.input /\ b.transitionalInput = s.transitionalInput
        /\ b.transitionalModes = s.transitionalModes
    BY <1>0, <2>1 DEF Shape
  <2>6. PICK m : m = enqueued(b, frames)
    OBVIOUS
  <2>7. Queues(b)
    BY <1>0, <2>5 DEF Queues
  <2>8. /\ Shape(m) /\ SameCore(b, m) /\ Queues(m) /\ m.input = b.input
        /\ m.transitionalInput = b.transitionalInput
        /\ m.transitionalModes = b.transitionalModes
    BY <2>4, <2>6, <2>7, EnqueuedShape
  <2>9. mayRelease(m)
    BY <1>3, <2>5, <2>8 DEF mayRelease, mayPump
  <2>10. PICK r : r = released(m)
    OBVIOUS
  <2>11. /\ Shape(r) /\ Queues(r)
         /\ r.protocol.state = "live" /\ r.protocol.cut = s.protocol.cut
         /\ r.given = s.given /\ r.scheduler = s.scheduler
         /\ r.active = s.active /\ r.nextCut = s.nextCut /\ r.start = s.start
         /\ r.terminal = s.terminal /\ r.pendingHistory = s.pendingHistory
         /\ r.lastHistoryRequest = s.lastHistoryRequest /\ r.phase = s.phase
         /\ r.cleanup = s.cleanup /\ r.ingress = s.ingress
    <3>1. /\ Shape(r) /\ Queues(r)
          /\ r.protocol.state = m.protocol.state /\ r.protocol.cut = m.protocol.cut
          /\ r.given = m.given /\ r.scheduler = m.scheduler
          /\ r.active = m.active /\ r.nextCut = m.nextCut /\ r.start = m.start
          /\ r.terminal = m.terminal /\ r.pendingHistory = m.pendingHistory
          /\ r.lastHistoryRequest = m.lastHistoryRequest /\ r.phase = m.phase
          /\ r.cleanup = m.cleanup /\ r.ingress = m.ingress
      BY <2>8, <2>9, <2>10, Releases
    <3>. QED BY <2>2, <2>5, <2>8, <3>1 DEF SameCore
  <2>12. PICK h : h = historyEnds(r, outcome)
    OBVIOUS
  <2>13. PICK f : f = IF s.active.kind = "history"
                      THEN [s.phase EXCEPT ![s.active.request] = outcome] ELSE s.phase
    OBVIOUS
  <2>14. h = [r EXCEPT !.phase = f]
    <3>1. CASE s.active.kind = "history"
      BY <2>11, <2>12, <2>13, <3>1 DEF historyEnds, Shape
    <3>2. CASE s.active.kind # "history"
      BY <2>11, <2>12, <2>13, <3>2 DEF historyEnds, Shape
    <3>. QED BY <3>1, <3>2
  <2>15. f \in [1..r.given.max.history -> Progress]
    BY <1>0, <2>11, <2>13
  <2>16. Shape(h)
    BY <2>11, <2>14, <2>15 DEF Shape
  <2>17. /\ h.phase = f /\ h.protocol = r.protocol
         /\ h.given = s.given /\ h.scheduler = s.scheduler
         /\ h.active = s.active /\ h.nextCut = s.nextCut /\ h.start = s.start
         /\ h.terminal = s.terminal /\ h.pendingHistory = s.pendingHistory
         /\ h.lastHistoryRequest = s.lastHistoryRequest
         /\ h.cleanup = s.cleanup /\ h.ingress = s.ingress
         /\ h.input = r.input /\ h.transitionalInput = r.transitionalInput
         /\ h.transitionalModes = r.transitionalModes
    BY <2>11, <2>14 DEF Shape
  <2>18. Queues(h) /\ StartOK(h) /\ EndOK(h) /\ Alive(h)
    BY <1>0, <2>11, <2>17 DEF Queues, StartOK, EndOK, Alive
  <2>19. /\ s.start.phase = "prepared" /\ s.protocol.cut # 0 /\ s.protocol.cut <= s.nextCut
    <3>1. s.protocol.state = "prepared"
      BY <1>0 DEF CutOK
    <3>2. s.start.phase = "prepared"
      BY <1>0, <3>1, ShapeFields DEF CutOK, StartOK, StartRec
    <3>. QED BY <1>0, <3>2 DEF CutOK
  <2>20. s.pendingHistory # 0 =>
           s.pendingHistory = s.lastHistoryRequest /\ f[s.pendingHistory] = "queued"
    <3>1. SUFFICES ASSUME s.pendingHistory # 0
                   PROVE  s.pendingHistory = s.lastHistoryRequest /\ f[s.pendingHistory] = "queued"
      OBVIOUS
    <3>2. /\ s.pendingHistory = s.lastHistoryRequest /\ s.phase[s.pendingHistory] = "queued"
          /\ s.lastHistoryRequest <= s.given.max.history
      BY <1>0, <3>1 DEF HistoryOK
    <3>3. s.given.max.history \in Nat /\ s.pendingHistory \in Nat /\ s.active.request \in Nat
      BY <1>0, ShapeFields, EpochAssumption DEF Scenario, Bounds, CutRec
    <3>4. s.active.kind = "history" => s.active.request < s.pendingHistory
      BY <1>0, <3>1 DEF HistoryOK
    <3>5. s.pendingHistory \in 1..s.given.max.history
      BY <3>1, <3>2, <3>3
    <3>6. s.active.kind = "history" => s.pendingHistory # s.active.request
      BY <3>3, <3>4
    <3>. QED BY <1>0, <2>13, <3>2, <3>5, <3>6
  <2>21. s.lastHistoryRequest <= s.given.max.history
    BY <1>0 DEF HistoryOK
  <2>22. PICK t : t = finishActive(h)
    OBVIOUS
  <2>23. /\ h.active # NoCut /\ h.start.phase = "prepared" /\ h.protocol.state = "live"
         /\ h.protocol.cut # 0 /\ h.protocol.cut <= h.nextCut
         /\ h.lastHistoryRequest <= h.given.max.history
         /\ h.pendingHistory # 0 => h.pendingHistory = h.lastHistoryRequest
                                 /\ h.phase[h.pendingHistory] = "queued"
    BY <2>11, <2>17, <2>19, <2>20, <2>21
  <2>24. /\ Sound(t) /\ Alive(t) /\ t.active = NoCut
         /\ t.start = h.start /\ t.cleanup = h.cleanup /\ t.scheduler = h.scheduler
    BY <2>16, <2>18, <2>22, <2>23, FinishesCut
  <2>25. answered(s, commit, outcome, room) = ok(t)
    BY <1>3, <2>3, <2>6, <2>10, <2>12, <2>22
  <2>. QED BY <2>17, <2>24, <2>25 DEF ok
<1>. QED
  <2>1. CASE ~mayRelease(s) \/ (frames # <<>> /\ ~mayEnqueue(s, frames, room))
    <3>1. answered(s, commit, outcome, room) = fails(s, "fault")
      BY <2>1 DEF answered
    <3>. QED BY <1>1, <3>1
  <2>2. CASE ~(~mayRelease(s) \/ (frames # <<>> /\ ~mayEnqueue(s, frames, room)))
    <3>1. answered(s, commit, outcome, room)
             = ok(finishActive(historyEnds(released(enqueued(back, frames)), outcome)))
      BY <1>2, <2>2 DEF answered
    <3>. QED BY <1>3, <2>2, <3>1
  <2>. QED BY <2>1, <2>2

\* A change of the queues and the mode keeps an epoch sound, and is a move.
LEMMA NearSound ==
  ASSUME NEW s, NEW t, Sound(s), Shape(t), Queues(t), NearCore(s, t)
  PROVE  Sound(t) /\ Moves(s, t)
<1>1. StartOK(t) /\ EndOK(t)
  BY DEF NearCore, Sound, StartOK, EndOK, Alive
<1>2. CutOK(s) => CutOK(t)
  BY DEF NearCore, CutOK
<1>3. HistoryOK(s) => HistoryOK(t)
  BY DEF NearCore, HistoryOK
<1>4. Moves(s, t)
  BY DEF NearCore, Moves
<1>. QED BY <1>1, <1>2, <1>3, <1>4 DEF NearCore, Sound, Alive

\* A change of the queues alone is one of the queues and the mode.
LEMMA NearSame ==
  ASSUME NEW s, NEW t, SameCore(s, t)
  PROVE  NearCore(s, t)
BY DEF NearCore, SameCore

\* Two of them after one another are one.
LEMMA NearOn ==
  ASSUME NEW s, NEW m, NEW t, NearCore(s, m), NearCore(m, t)
  PROVE  NearCore(s, t)
BY DEF NearCore

\* The outcome of a step is taken over, or the epoch ends with its cause.
LEMMA Resolves ==
  ASSUME NEW s, Sound(s), NEW o, o.err \in {"ok"} \cup Harmless,
         Sound(o.s), Moves(s, o.s), NEW room
  PROVE  LET t == resolve(o, room) IN Sound(t) /\ Follows(s, t)
<1>1. CASE o.err = "ok"
  <2>1. resolve(o, room) = o.s
    BY <1>1 DEF resolve
  <2>. QED BY <2>1 DEF Follows, Moves, Alive
<1>2. CASE o.err # "ok"
  <2>1. PICK k \in Harmless : k = o.err
    BY <1>2
  <2>2. PICK m : m = o.s
    OBVIOUS
  <2>3. PICK t : t = requestTerminal(m, k, room)
    OBVIOUS
  <2>4. resolve(o, room) = t
    BY <1>2, <2>1, <2>2, <2>3 DEF resolve
  <2>5. /\ Sound(t)
        /\ (t = m /\ ~Alive(m)) \/ Records(m, t) \/ Closes(m, t)
    BY <2>1, <2>2, <2>3, Requests1
  <2>6. Moves(s, m) /\ m.start \in StartRec
    BY <2>2, ShapeFields DEF Sound
  <2>7. CASE t = m /\ ~Alive(m)
    BY <2>4, <2>5, <2>6, <2>7 DEF Follows, Moves, Alive
  <2>8. CASE Records(m, t)
    BY <2>4, <2>5, <2>6, <2>8 DEF Follows, Moves, Alive, Records, StartRec
  <2>9. CASE Closes(m, t)
    BY <2>4, <2>5, <2>6, <2>9 DEF Follows, Moves, Alive, Closes, Shuts, EndPhase
  <2>. QED BY <2>4, <2>5, <2>7, <2>8, <2>9
<1>. QED BY <1>1, <1>2

\* An epoch that was to end goes on as far as the threads can tell, or ended.
LEMMA EndsFollows ==
  ASSUME NEW s, Sound(s), NEW cause \in Harmless, NEW room
  PROVE  LET t == requestTerminal(s, cause, room) IN Sound(t) /\ Follows(s, t)
<1>1. PICK o : o = fails(s, cause)
  OBVIOUS
<1>2. o.err = cause /\ o.s = s
  BY <1>1 DEF fails
<1>3. resolve(o, room) = requestTerminal(s, cause, room)
  BY <1>2 DEF resolve, Harmless
<1>4. Moves(s, s)
  BY DEF Moves
<1>5. Sound(resolve(o, room)) /\ Follows(s, resolve(o, room))
  BY <1>2, <1>4, Resolves
<1>. QED BY <1>3, <1>5

\* Fields Sound never reads.
counted(s, n, k, z, a) == [s EXCEPT !.sent = n, !.modes = k, !.resizes = z, !.admitted = a]

\* They change nothing.
LEMMA CountsOn ==
  ASSUME NEW s, Shape(s), Queues(s), NEW n, n \in Nat, NEW k, k \in Nat, NEW z, z \in Nat, NEW a,
         NEW t, t = counted(s, n, k, z, a)
  PROVE  /\ Shape(t) /\ Queues(t) /\ SameCore(s, t) /\ t.input = s.input
         /\ t.transitionalInput = s.transitionalInput
         /\ t.transitionalModes = s.transitionalModes
<1>1. t = [s EXCEPT !.sent = n, !.modes = k, !.resizes = z, !.admitted = a]
  BY DEF counted
<1>2. Shape(t)
  <2>1. PICK u : u = [s EXCEPT !.sent = n, !.modes = k, !.resizes = z]
    OBVIOUS
  <2>2. Shape(u)
    BY <2>1 DEF Shape
  <2>3. t = [u EXCEPT !.admitted = a]
    BY <1>1, <2>1 DEF Shape
  <2>. QED BY <2>2, <2>3 DEF Shape
<1>3. SameCore(s, t)
  BY <1>1 DEF Shape, SameCore
<1>4. /\ t.input = s.input /\ t.transitionalInput = s.transitionalInput
      /\ t.transitionalModes = s.transitionalModes
  BY <1>1 DEF Shape
<1>. QED BY <1>2, <1>3, <1>4 DEF Queues

\* The pump takes a mode (inputPump.setMode).
LEMMA SetsMode ==
  ASSUME NEW s, Shape(s), Queues(s), NEW m \in Mode
  PROVE  LET t == setMode(s, m) IN Shape(t) /\ Queues(t) /\ SameCore(s, t)
<1>1. CASE m = "observe"
  <2>1. setMode(s, m) = revoke(s)
    BY <1>1 DEF setMode
  <2>. QED BY <2>1, RevokeShape
<1>2. CASE m # "observe"
  <2>1. PICK q, t : q = [s.input EXCEPT !.mode = m] /\ t = [s EXCEPT !.input = q]
    OBVIOUS
  <2>2. setMode(s, m) = t
    BY <1>2, <2>1 DEF setMode, Shape
  <2>3. q \in InputRec /\ q.queue = s.input.queue
    BY <2>1, ShapeFields DEF InputRec
  <2>4. Shape(t)
    BY <2>1, <2>3 DEF Shape
  <2>5. SameCore(s, t)
    BY <2>1 DEF Shape, SameCore
  <2>6. /\ t.input = q /\ t.transitionalInput = s.transitionalInput
        /\ t.transitionalModes = s.transitionalModes
    BY <2>1 DEF Shape
  <2>. QED BY <2>2, <2>3, <2>4, <2>5, <2>6 DEF Queues
<1>. QED BY <1>1, <1>2

\* A step that leaves the end of an epoch, and whether its BIND ended without an ID.
LEMMA StrayKeeps ==
  ASSUME StrayOK, e'.terminal = e.terminal, Alive(e) \/ e'.start.pending = e.start.pending,
         stray' = stray, (starter' = "unresolved") = (starter = "unresolved")
  PROVE  StrayOK' /\ BusyIsAnothers
<1>1. StrayOK'
  BY DEF StrayOK, Alive
<1>2. BusyIsAnothers
  BY DEF BusyIsAnothers, finds
<1>. QED BY <1>1, <1>2

\* While BIND has no ID the epoch owes it an answer, so nothing else ends it.
LEMMA UnresolvedWaits ==
  ASSUME StarterOK, Sound(e), starter = "unresolved"
  PROVE  Alive(e) /\ e.start.ownership = "pending" /\ e.start.phase = "binding"
BY DEF StarterOK, Sound, StartOK, EndOK

\* A step that leaves the threads that hold the scheduler where they are.
LEMMA FollowsWith ==
  ASSUME EpochInv, Sound(e'), Follows(e, e'), launches(e'),
         UNCHANGED <<attached, stray, starter, runner, acker>>,
         owner' \in {"loop", "due", "cutting", "done"},
         (owner' = "due") = (owner = "due"), (owner' = "cutting") = (owner = "cutting"),
         browser' \in {"idle", "complete", "retry", "resizing", "abandoned", "abandonedDirty", "gone"},
         (browser' \in Completing) = (browser \in Completing),
         (browser' = "resizing") = (browser = "resizing"),
         canceled' \in BOOLEAN, histories' \in Nat,
         finalizer' \in {"idle", "waiting", "returned"},
         reader' \in {"idle", "activity", "stopped"},
         reader' = "activity" => reader = "activity" \/ e.start.phase \notin {"none", "binding"}
  PROVE  Kept
<1>0. Sound(e) /\ Threads /\ StarterOK /\ AttachedOK /\ RunnerOK /\ HoldOK /\ StrayOK
  BY DEF EpochInv
<1>1. Threads'
  <2>1. teardown' \in {teardown, "scheduler"}
    BY DEF launches
  <2>. QED BY <1>0, <2>1 DEF Threads, NoRunner
<1>2. StarterOK'
  <2>1. e'.start.phase # e.start.phase =>
          \/ e.start.phase = "awaiting" /\ (Alive(e') => e'.start.phase = "prepared")
          \/ ~Alive(e') /\ e'.start.phase = EndPhase(e.start.phase)
    BY DEF Follows
  <2>2. e.start.phase = "awaiting" => e'.start.phase \in {"awaiting", "prepared", "terminal"}
    <3>1. ~Alive(e) => e.start.phase # "awaiting"
      BY <1>0 DEF Sound, EndOK
    <3>. QED BY <3>1 DEF Follows, EndPhase
  <2>3. Alive(e') => Alive(e)
    BY DEF Follows
  <2>4. e'.start.ownership = e.start.ownership
    BY DEF Follows
  <2>5. e'.start.phase \in {"none", "binding"} => e'.start.phase = e.start.phase
    BY <2>1, <2>2 DEF EndPhase
  <2>. QED BY <1>0, <2>1, <2>2, <2>3, <2>4, <2>5 DEF StarterOK, EndPhase
<1>3. AttachedOK'
  BY <1>0 DEF AttachedOK, Follows, launches, Alive
<1>4. RunnerOK'
  BY <1>0 DEF RunnerOK, Follows
<1>5. HoldOK'
  BY <1>0 DEF HoldOK, Follows, holders, Completing
<1>6. StrayOK' /\ BusyIsAnothers
  <2>1. CASE e'.terminal = e.terminal /\ (Alive(e) \/ e'.start.pending = e.start.pending)
    BY <1>0, <2>1, StrayKeeps
  <2>2. CASE Alive(e) /\ ~Alive(e')
    <3>1. e.start.ownership # "pending" /\ e'.terminal.cause \in Harmless
      BY <2>2 DEF Follows
    <3>2. stray = "none"
      BY <1>0, <2>2, <3>1, UnresolvedWaits DEF StrayOK
    <3>3. BusyIsAnothers
      BY <3>1 DEF BusyIsAnothers, finds, Harmless
    <3>. QED BY <2>2, <3>1, <3>2, <3>3 DEF StrayOK, Harmless
  <2>3. Alive(e) /\ Alive(e') => e'.terminal = e.terminal
    BY DEF Alive
  <2>4. ~Alive(e) => e'.terminal = e.terminal /\ e'.start.pending = e.start.pending
    BY DEF Follows
  <2>. QED BY <2>1, <2>2, <2>3, <2>4
<1>. QED BY <1>1, <1>2, <1>3, <1>4, <1>5, <1>6 DEF EpochInv, Kept

\* The same with the owner loop and the browser unchanged too.
LEMMA FollowsKeeps ==
  ASSUME EpochInv, Sound(e'), Follows(e, e'), launches(e'),
         UNCHANGED <<attached, stray, starter, runner, browser, acker, owner>>,
         canceled' \in BOOLEAN, histories' \in Nat,
         finalizer' \in {"idle", "waiting", "returned"},
         reader' \in {"idle", "activity", "stopped"},
         reader' = "activity" => reader = "activity" \/ e.start.phase \notin {"none", "binding"}
  PROVE  Kept
BY FollowsWith DEF EpochInv, Threads

\* The caller's cancellation of a Start, and the timer of a cut, end the epoch.
LEMMA WatchKeeps ==
  ASSUME EpochInv, NEW room, WatchStartOwner(room) \/ CutTimeout(room)
  PROVE  Kept
<1>1. PICK cause \in Harmless : Ends(cause, room)
  BY DEF WatchStartOwner, CutTimeout, Harmless
<1>2. Sound(e)
  BY DEF EpochInv
<1>3. e' = requestTerminal(e, cause, room) /\ launches(e')
  BY <1>1 DEF Ends, Becomes, launches
<1>4. Sound(e') /\ Follows(e, e')
  BY <1>2, <1>3, EndsFollows
<1>5. UNCHANGED <<attached, stray, canceled, starter, runner, reader, browser, acker, histories, owner, finalizer>>
  BY DEF WatchStartOwner, CutTimeout
<1>6. canceled \in BOOLEAN /\ histories \in Nat /\ finalizer \in {"idle", "waiting", "returned"}
      /\ reader \in {"idle", "activity", "stopped"}
  BY DEF EpochInv, Threads
<1>. QED BY <1>3, <1>4, <1>5, <1>6, FollowsKeeps

\* The PTY reader's steps.
LEMMA ConsumedKeeps ==
  ASSUME EpochInv, NEW o, o.err \in {"ok"} \cup Harmless, Sound(o.s), Moves(e, o.s),
         NEW active, NEW room, Consumed(o, active, room),
         active => e.start.phase \notin {"none", "binding"}
  PROVE  Kept
<1>1. PICK t : t = resolve(o, room)
  OBVIOUS
<1>2. e' = t /\ launches(e')
  BY <1>1 DEF Consumed, Becomes, launches
<1>3. Sound(t) /\ Follows(e, t)
  BY <1>1, Resolves DEF EpochInv
<1>4. /\ UNCHANGED <<attached, stray, canceled, starter, runner, browser, acker, histories, owner, finalizer>>
      /\ reader' \in {"idle", "activity", "stopped"}
      /\ reader' = "activity" => active
  BY DEF Consumed
<1>5. canceled \in BOOLEAN /\ histories \in Nat /\ finalizer \in {"idle", "waiting", "returned"}
  BY DEF EpochInv, Threads
<1>6. Sound(e') /\ Follows(e, e')
  BY <1>2, <1>3
<1>. QED BY <1>2, <1>4, <1>5, <1>6, FollowsKeeps

\* Once the PTY can speak, an epoch that serves no cut binds or is live.
LEMMA AttachedPhase ==
  ASSUME EpochInv, attached
  PROVE  e.start.phase # "none"
<1>1. starter = "mutated" \/ e.start.ownership = "exact"
  BY DEF EpochInv, AttachedOK
<1>2. starter = "mutated" => e.start.ownership = "pending"
  BY DEF EpochInv, StarterOK
<1>3. e.start.phase = "none" => e.start.ownership = "none"
  BY DEF EpochInv, Sound, StartOK
<1>. QED BY <1>1, <1>2, <1>3

\* A read of the PTY, delivered or kept back by the framer.
LEMMA PTYOutputKeeps ==
  ASSUME EpochInv, NEW room, NEW hold \in BOOLEAN, PTYOutput(room, hold)
  PROVE  Kept
<1>. DEFINE data == Append(e.ingress, e.out + 1)
            read == [e EXCEPT !.out = @ + 1, !.ingress = IF hold THEN data ELSE <<>>]
<1>0. /\ Sound(e) /\ Shape(e) /\ e.ingress \in Ordinary /\ e.replay \in Ordinary /\ e.out \in Nat
      /\ attached /\ e.start.phase # "none"
  BY AttachedPhase, ShapeFields DEF EpochInv, Sound, PTYOutput
<1>1. PICK d : d = data
  OBVIOUS
<1>2. d \in Ordinary /\ d # <<>>
  BY <1>0, <1>1 DEF Ordinary
<1>3. PICK q, r, n : q = (IF hold THEN d ELSE <<>>) /\ r = e.replay /\ n = e.out + 1
  OBVIOUS
<1>4. q \in Ordinary /\ r \in Ordinary /\ n \in Nat
  BY <1>0, <1>2, <1>3, NothingIn DEF Ordinary
<1>5. PICK s : s = read
  OBVIOUS
<1>6. s = reading(e, q, r, n)
  BY <1>0, <1>1, <1>3, <1>5 DEF reading, Shape
<1>7. Sound(s) /\ Moves(e, s) /\ s.start = e.start
  BY <1>0, <1>4, <1>6, ReadsOn
<1>8. PICK o : /\ o = (IF admitBytes(e).err # "ok" THEN admitBytes(e)
                       ELSE IF hold THEN ok(s) ELSE routeOrdinary(s, d, room))
               /\ Consumed(o, ~hold /\ isActivity(e, d), room)
  BY <1>1, <1>5 DEF PTYOutput
<1>9. o.err \in {"ok"} \cup Harmless /\ Sound(o.s) /\ Moves(e, o.s)
  <2>1. CASE admitBytes(e).err # "ok"
    <3>1. ~(Alive(e) /\ refusesBytes(e))
      <4>1. SUFFICES ASSUME Alive(e), refusesBytes(e) PROVE FALSE
        OBVIOUS
      <4>2. CutOK(e) /\ StartOK(e) /\ e.start \in StartRec
        BY <1>0, <4>1, ShapeFields DEF Sound
      <4>3. e.active = NoCut /\ ~bindingIngress(e)
            /\ (e.protocol.state # "live" \/ e.protocol.cut = 0)
        BY <4>1 DEF refusesBytes
      <4>4. e.start.phase = "binding" => e.start.result = "none"
        BY <4>2 DEF StartOK
      <4>5. e.start.phase = "prepared"
        BY <1>0, <4>1, <4>2, <4>3, <4>4 DEF CutOK, StartOK, StartRec, bindingIngress
      <4>. QED BY <4>2, <4>3, <4>5 DEF CutOK
    <3>2. admitBytes(e) = fails(e, "fault")
      BY <2>1, <3>1 DEF admitBytes, Alive, ok
    <3>3. Moves(e, e)
      BY DEF Moves
    <3>. QED BY <1>0, <1>8, <2>1, <3>2, <3>3 DEF fails, Harmless
  <2>2. CASE admitBytes(e).err = "ok" /\ hold
    BY <1>7, <1>8, <2>2 DEF ok
  <2>3. CASE admitBytes(e).err = "ok" /\ ~hold
    <3>1. Alive(e)
      BY <2>3 DEF admitBytes, Alive, fails
    <3>2. Alive(s) /\ s.start.phase # "none"
      BY <1>0, <1>7, <3>1 DEF Moves, Alive
    <3>3. PICK p : p = routeOrdinary(s, d, room)
      OBVIOUS
    <3>4. p.err \in {"ok"} \cup Harmless /\ Sound(p.s) /\ Moves(s, p.s)
      BY <1>2, <1>7, <3>2, <3>3, Routes
    <3>5. o = p
      BY <1>8, <2>3, <3>3
    <3>. QED BY <1>7, <3>4, <3>5, MovesOn
  <2>. QED BY <2>1, <2>2, <2>3
<1>10. ~hold /\ isActivity(e, d) => e.start.phase \notin {"none", "binding"}
  <2>1. SUFFICES ASSUME isActivity(e, d), e.start.phase = "binding" PROVE FALSE
    BY <1>0
  <2>2. e.active = NoCut
    BY <1>0, <2>1 DEF Sound, CutOK, EndOK
  <2>3. e.start.result = "none"
    BY <1>0, <2>1 DEF Sound, StartOK
  <2>. QED BY <2>1, <2>2, <2>3 DEF isActivity, bindingIngress
<1>. QED BY <1>8, <1>9, <1>10, ConsumedKeeps

\* The marker of the cut in hand, after what the framer had kept.
LEMMA PTYMarkerKeeps ==
  ASSUME EpochInv, NEW room, PTYMarker(room)
  PROVE  Kept
<1>0. /\ Sound(e) /\ Shape(e) /\ e.ingress \in Ordinary /\ e.replay \in Ordinary /\ e.out \in Nat
      /\ e.active # NoCut /\ e.active.issued /\ Alive(e) /\ e.start.phase # "none"
  BY AttachedPhase, ShapeFields DEF EpochInv, Sound, EndOK, PTYMarker
<1>1. PICK q, r, n : q = <<>> /\ r = e.replay /\ n = e.out
  OBVIOUS
<1>2. q \in Ordinary /\ r \in Ordinary /\ n \in Nat
  BY <1>0, <1>1, NothingIn DEF Ordinary
<1>3. PICK s : s = [e EXCEPT !.ingress = <<>>]
  OBVIOUS
<1>4. s = reading(e, q, r, n)
  BY <1>0, <1>1, <1>3 DEF reading, Shape
<1>5. Sound(s) /\ Moves(e, s) /\ s.start = e.start
  BY <1>0, <1>1, <1>2, <1>4, ReadsOn
<1>6. Alive(s) /\ s.start.phase # "none"
  BY <1>0, <1>5 DEF Moves, Alive
<1>7. PICK d : d = e.ingress
  OBVIOUS
<1>8. PICK k : k = routeOrdinary(s, d, room)
  OBVIOUS
<1>9. k.err \in {"ok"} \cup Harmless /\ Sound(k.s) /\ Moves(s, k.s)
  BY <1>0, <1>5, <1>6, <1>7, <1>8, Routes
<1>10. Moves(e, k.s) /\ k.s.active # NoCut /\ k.s.active.issued
  BY <1>0, <1>5, <1>9, MovesOn DEF Moves
<1>11. PICK c : c = e.active.id
  OBVIOUS
<1>12. PICK a : a = acceptMarker(k.s, c, room)
  OBVIOUS
<1>13. a.err \in {"ok"} \cup Harmless /\ Sound(a.s) /\ Moves(k.s, a.s)
  BY <1>9, <1>10, <1>12, Accepts
<1>14. PICK o : o = (IF k.err # "ok" THEN k ELSE a) /\ Consumed(o, FALSE, room)
  BY <1>3, <1>7, <1>8, <1>11, <1>12 DEF PTYMarker
<1>15. o.err \in {"ok"} \cup Harmless /\ Sound(o.s) /\ Moves(e, o.s)
  BY <1>9, <1>10, <1>13, <1>14, MovesOn
<1>. QED BY <1>14, <1>15, ConsumedKeeps

\* A failed read, or a marker of no cut.
LEMMA PTYFailsKeeps ==
  ASSUME EpochInv, NEW room, PTYFails(room)
  PROVE  Kept
<1>1. PICK o : o = fails(e, "fault") /\ Consumed(o, FALSE, room)
  BY DEF PTYFails
<1>2. Moves(e, e)
  BY DEF Moves
<1>3. o.err \in {"ok"} \cup Harmless /\ Sound(o.s) /\ Moves(e, o.s)
  BY <1>1, <1>2 DEF fails, EpochInv, Harmless
<1>. QED BY <1>1, <1>3, ConsumedKeeps

\* A command to the scheduler, as the step that gave it sees it.
LEMMA ScheduledHere ==
  ASSUME EpochInv, NEW d, d \in SchedulerRec, e' = scheduled(e, d),
         Alive(e) => ~d.stopped,
         Alive(e) /\ e.start.phase \in {"none", "binding"} => ~d.inFlight /\ ~d.dirty
  PROVE  /\ Sound(e') /\ e'.scheduler = d /\ e'.active = e.active /\ e'.start = e.start
         /\ e'.terminal = e.terminal /\ e'.cleanup = e.cleanup
<1>1. PICK t : t = e'
  OBVIOUS
<1>2. t = scheduled(e, d) /\ Sound(e) /\ Shape(e)
  BY <1>1 DEF EpochInv, Sound
<1>3. Sound(t)
  BY <1>2, SchedulesSound
<1>4. /\ t.scheduler = d /\ t.active = e.active /\ t.start = e.start
      /\ t.terminal = e.terminal /\ t.cleanup = e.cleanup
  BY <1>2, Schedules
<1>. QED BY <1>1, <1>3, <1>4

\* The PTY reader tells the scheduler of output.
LEMMA ActivityKeeps ==
  ASSUME EpochInv, Activity
  PROVE  Kept
<1>0. /\ reader = "activity" /\ Shape(e) /\ Sound(e) /\ e.scheduler \in SchedulerRec
      /\ Threads /\ StarterOK /\ AttachedOK /\ RunnerOK /\ HoldOK /\ StrayOK
      /\ e.start.phase \notin {"none", "binding"}
  BY ShapeFields DEF EpochInv, Sound, Activity, StarterOK
<1>1. UNCHANGED <<attached, stray, canceled, starter, runner, browser, acker, histories, owner, teardown, finalizer>>
  BY DEF Activity
<1>2. CASE e.scheduler.stopped
  <2>1. e' = e /\ reader' = "stopped"
    BY <1>2 DEF Activity
  <2>2. StrayOK' /\ BusyIsAnothers
    BY <1>0, <1>1, <2>1, StrayKeeps
  <2>. QED BY <1>0, <1>1, <2>1, <2>2
       DEF Kept, EpochInv, Threads, StarterOK, AttachedOK, RunnerOK, HoldOK, holders
<1>3. CASE ~e.scheduler.stopped
  <2>1. PICK d : d = [e.scheduler EXCEPT !.dirty = TRUE]
    OBVIOUS
  <2>2. e' = scheduled(e, d) /\ reader' = "idle"
    BY <1>0, <1>3, <2>1 DEF Activity, activity, scheduled, Shape
  <2>3. d \in SchedulerRec /\ d.inFlight = e.scheduler.inFlight /\ d.stopped = e.scheduler.stopped
        /\ d.due = e.scheduler.due
    BY <1>0, <2>1 DEF SchedulerRec
  <2>4. /\ Sound(e') /\ e'.scheduler = d /\ e'.active = e.active /\ e'.start = e.start
        /\ e'.terminal = e.terminal /\ e'.cleanup = e.cleanup
    BY <1>0, <1>3, <2>2, <2>3, ScheduledHere
  <2>5. Threads' /\ StarterOK' /\ AttachedOK'
    BY <1>0, <1>1, <2>2, <2>4 DEF Threads, StarterOK, AttachedOK, Alive
  <2>6. RunnerOK' /\ HoldOK'
    BY <1>0, <1>1, <2>3, <2>4 DEF RunnerOK, HoldOK, holders, Alive
  <2>7. StrayOK' /\ BusyIsAnothers
    BY <1>0, <1>1, <2>4, StrayKeeps
  <2>. QED BY <2>4, <2>5, <2>6, <2>7 DEF EpochInv, Kept
<1>. QED BY <1>2, <1>3

\* The scheduler's timer fires, and the scheduler is held by its notification.
LEMMA SchedulerDueKeeps ==
  ASSUME EpochInv, SchedulerDue
  PROVE  Kept
<1>0. /\ Shape(e) /\ Sound(e) /\ e.scheduler \in SchedulerRec /\ EndOK(e)
      /\ Threads /\ StarterOK /\ AttachedOK /\ RunnerOK /\ HoldOK /\ StrayOK
      /\ e.scheduler.dirty /\ ~e.scheduler.inFlight /\ ~e.scheduler.stopped
  BY ShapeFields DEF EpochInv, Sound, SchedulerDue
<1>1. UNCHANGED <<attached, stray, canceled, threads>>
  BY DEF SchedulerDue
<1>2. PICK d : d = [e.scheduler EXCEPT !.dirty = FALSE, !.inFlight = TRUE, !.due = TRUE]
  OBVIOUS
<1>3. e' = scheduled(e, d)
  BY <1>0, <1>2 DEF SchedulerDue, scheduled, Shape
<1>4. d \in SchedulerRec /\ d.inFlight /\ ~d.stopped /\ d.due
  BY <1>0, <1>2 DEF SchedulerRec
<1>5. Alive(e) => e.start.phase \notin {"none", "binding"}
  BY <1>0 DEF Sound, CutOK
<1>6. /\ Sound(e') /\ e'.scheduler = d /\ e'.active = e.active /\ e'.start = e.start
      /\ e'.terminal = e.terminal /\ e'.cleanup = e.cleanup
  BY <1>3, <1>4, <1>5, ScheduledHere
<1>7. Threads' /\ StarterOK' /\ AttachedOK'
  BY <1>0, <1>1, <1>6 DEF Threads, StarterOK, AttachedOK, Alive, threads
<1>8. RunnerOK'
  BY <1>0, <1>1, <1>6 DEF RunnerOK, Alive, threads
<1>9. HoldOK'
  <2>1. Alive(e) => holders = 0
    BY <1>0 DEF HoldOK
  <2>2. Alive(e) => ~e.scheduler.due
    BY <2>1 DEF holders
  <2>3. Alive(e) => holders' = holders + 1
    BY <1>1, <1>4, <1>6, <2>1, <2>2 DEF holders, threads
  <2>. QED BY <1>4, <1>6, <2>1, <2>3 DEF HoldOK, Alive
<1>10. starter' = starter /\ stray' = stray
  BY <1>1 DEF threads
<1>11. StrayOK' /\ BusyIsAnothers
  BY <1>0, <1>6, <1>10, StrayKeeps
<1>. QED BY <1>6, <1>7, <1>8, <1>9, <1>11 DEF EpochInv, Kept

\* The owner loop takes the notification, and the hold with it.
LEMMA OwnerDueKeeps ==
  ASSUME EpochInv, OwnerDue
  PROVE  Kept
<1>0. /\ Shape(e) /\ Sound(e) /\ e.scheduler \in SchedulerRec /\ EndOK(e)
      /\ Threads /\ StarterOK /\ AttachedOK /\ RunnerOK /\ HoldOK /\ StrayOK
      /\ e.scheduler.due /\ owner = "loop" /\ owner' = "due"
  BY ShapeFields DEF EpochInv, Sound, OwnerDue
<1>1. UNCHANGED <<attached, stray, canceled, starter, runner, reader, browser, acker, histories, teardown, finalizer>>
  BY DEF OwnerDue
<1>2. PICK d : d = [e.scheduler EXCEPT !.due = FALSE]
  OBVIOUS
<1>3. e' = scheduled(e, d)
  BY <1>0, <1>2 DEF OwnerDue, scheduled, Shape
<1>4. /\ d \in SchedulerRec /\ d.inFlight = e.scheduler.inFlight /\ d.dirty = e.scheduler.dirty
      /\ d.stopped = e.scheduler.stopped /\ ~d.due
  BY <1>0, <1>2 DEF SchedulerRec
<1>5. Alive(e) => ~d.stopped /\ (e.start.phase \in {"none", "binding"} => ~d.inFlight /\ ~d.dirty)
  BY <1>0, <1>4 DEF Sound, CutOK, EndOK
<1>6. /\ Sound(e') /\ e'.scheduler = d /\ e'.active = e.active /\ e'.start = e.start
      /\ e'.terminal = e.terminal /\ e'.cleanup = e.cleanup
  BY <1>3, <1>4, <1>5, ScheduledHere
<1>7. Threads' /\ StarterOK' /\ AttachedOK'
  BY <1>0, <1>1, <1>6 DEF Threads, StarterOK, AttachedOK, Alive
<1>8. RunnerOK'
  BY <1>0, <1>1, <1>6 DEF RunnerOK, Alive
<1>9. HoldOK'
  <2>1. holders' = holders
    BY <1>0, <1>1, <1>4, <1>6 DEF holders
  <2>. QED BY <1>0, <1>4, <1>6, <2>1 DEF HoldOK, Alive
<1>10. StrayOK' /\ BusyIsAnothers
  BY <1>0, <1>1, <1>6, StrayKeeps
<1>. QED BY <1>6, <1>7, <1>8, <1>9, <1>10 DEF EpochInv, Kept

\* The owner loop ends with the epoch, or ends it.
LEMMA OwnerStopsKeeps ==
  ASSUME EpochInv, NEW room, OwnerStops(room)
  PROVE  Kept
<1>1. PICK cause \in Harmless : Ends(cause, room)
  BY DEF OwnerStops, Harmless
<1>2. e' = requestTerminal(e, cause, room) /\ launches(e')
  BY <1>1 DEF Ends, Becomes, launches
<1>3. Sound(e') /\ Follows(e, e')
  BY <1>2, EndsFollows DEF EpochInv
<1>4. /\ UNCHANGED <<attached, stray, canceled, starter, runner, reader, browser, acker, histories, finalizer>>
      /\ owner = "loop" /\ owner' = "done"
  BY DEF OwnerStops
<1>5. /\ canceled \in BOOLEAN /\ histories \in Nat /\ finalizer \in {"idle", "waiting", "returned"}
      /\ reader \in {"idle", "activity", "stopped"}
      /\ browser \in {"idle", "complete", "retry", "resizing", "abandoned", "abandonedDirty", "gone"}
  BY DEF EpochInv, Threads
<1>. QED BY <1>2, <1>3, <1>4, <1>5, FollowsWith

\* A step of an epoch that had ended.
LEMMA EndedKeeps ==
  ASSUME EpochInv, ~Alive(e), Sound(e'), e'.terminal = e.terminal, e'.start = e.start, Threads',
         stray' = stray,
         starter' \in {starter, "done"}, reader' = "activity" => reader = "activity",
         attached' => attached, e'.cleanup.complete => ~attached', teardown' # "none",
         (owner' = "cutting") = (runner'.who = "owner"),
         (browser' = "resizing") = (runner'.who = "browser")
  PROVE  Kept
<1>0. Sound(e) /\ Threads /\ StarterOK /\ AttachedOK /\ RunnerOK /\ HoldOK /\ StrayOK
  BY DEF EpochInv
<1>1. starter # "mutated" /\ starter # "unresolved" /\ ~Alive(e')
  BY <1>0 DEF StarterOK, Sound, StartOK, EndOK, Alive
<1>2. StarterOK'
  BY <1>0, <1>1 DEF StarterOK
<1>3. AttachedOK'
  BY <1>0, <1>1 DEF AttachedOK, Alive
<1>4. RunnerOK' /\ HoldOK'
  BY <1>1 DEF RunnerOK, HoldOK
<1>5. StrayOK' /\ BusyIsAnothers
  BY <1>0, <1>1, StrayKeeps
<1>. QED BY <1>2, <1>3, <1>4, <1>5 DEF EpochInv, Kept

\* A step that ends the epoch.
LEMMA ShutsKeeps ==
  ASSUME EpochInv, Sound(e'), Shuts(e, e'), launches(e'), Threads',
         e'.terminal.cause \in Harmless \cup Busy, e'.terminal.cause \in Busy => heldElsewhere,
         starter' \in {starter, "done"}, reader' = reader, attached' = attached, stray' = stray,
         (owner' = "cutting") = (runner'.who = "owner"),
         (browser' = "resizing") = (runner'.who = "browser")
  PROVE  Kept
<1>0. Sound(e) /\ Threads /\ StarterOK /\ AttachedOK /\ RunnerOK /\ HoldOK /\ StrayOK
  BY DEF EpochInv
<1>1. starter \notin {"mutated", "unresolved"} /\ ~e.cleanup.complete
  BY <1>0 DEF StarterOK, Sound, StartOK, EndOK, Shuts
<1>2. StarterOK'
  BY <1>0, <1>1 DEF StarterOK, Shuts, EndPhase
<1>3. AttachedOK'
  BY <1>0, <1>1 DEF AttachedOK, Shuts, launches, Alive
<1>4. RunnerOK' /\ HoldOK'
  BY DEF RunnerOK, HoldOK, Shuts
<1>5. StrayOK'
  <2>1. stray = "none"
    BY <1>0, <1>1 DEF StrayOK, Shuts
  <2>. QED BY <1>0, <2>1 DEF StrayOK, Shuts, Harmless, Busy
<1>6. BusyIsAnothers
  BY DEF BusyIsAnothers, finds, Busy
<1>. QED BY <1>2, <1>3, <1>4, <1>5, <1>6 DEF EpochInv, Kept

\* One that ends it with a cause any goroutine may ask for.
LEMMA EndsKeeps ==
  ASSUME EpochInv, Sound(e'), Closes(e, e'), launches(e'), Threads',
         starter' \in {starter, "done"}, reader' = reader, attached' = attached, stray' = stray,
         (owner' = "cutting") = (runner'.who = "owner"),
         (browser' = "resizing") = (runner'.who = "browser")
  PROVE  Kept
<1>1. Shuts(e, e') /\ e'.terminal.cause \in Harmless
  BY DEF Closes
<1>2. e'.terminal.cause \in Harmless \cup Busy /\ e'.terminal.cause \notin Busy
  BY <1>1 DEF Harmless, Busy
<1>. QED BY <1>1, <1>2, ShutsKeeps

\* The start of an epoch, replaced.
restarted(s, r) == [s EXCEPT !.start = r]

\* It leaves every other field.
LEMMA Restarts ==
  ASSUME NEW s, Shape(s), Queues(s), NEW r \in StartRec, NEW t, t = restarted(s, r)
  PROVE  /\ Shape(t) /\ Queues(t) /\ t.start = r
         /\ t.given = s.given /\ t.protocol = s.protocol /\ t.scheduler = s.scheduler
         /\ t.active = s.active /\ t.nextCut = s.nextCut /\ t.phase = s.phase
         /\ t.terminal = s.terminal /\ t.pendingHistory = s.pendingHistory
         /\ t.lastHistoryRequest = s.lastHistoryRequest
         /\ t.cleanup = s.cleanup /\ t.ingress = s.ingress
<1>1. t = [s EXCEPT !.start = r]
  BY DEF restarted
<1>2. Shape(t)
  BY <1>1 DEF Shape
<1>3. /\ t.start = r
      /\ t.given = s.given /\ t.protocol = s.protocol /\ t.scheduler = s.scheduler
      /\ t.active = s.active /\ t.nextCut = s.nextCut /\ t.phase = s.phase
      /\ t.terminal = s.terminal /\ t.pendingHistory = s.pendingHistory
      /\ t.lastHistoryRequest = s.lastHistoryRequest
      /\ t.cleanup = s.cleanup /\ t.ingress = s.ingress
  BY <1>1 DEF Shape
<1>4. /\ t.input = s.input /\ t.transitionalInput = s.transitionalInput
      /\ t.transitionalModes = s.transitionalModes
  BY <1>1 DEF Shape
<1>. QED BY <1>2, <1>3, <1>4 DEF Queues

\* While BIND runs its state may change without disturbing the epoch.
LEMMA BindingStarts ==
  ASSUME NEW s, Sound(s), Alive(s), s.start.phase \in {"none", "binding"},
         NEW r \in StartRec, r.phase = "binding", r.result = "none",
         NEW t, t = restarted(s, r)
  PROVE  /\ Sound(t) /\ t.start = r /\ t.terminal = s.terminal /\ t.active = s.active
         /\ t.scheduler = s.scheduler /\ t.cleanup = s.cleanup
<1>1. Shape(s) /\ Queues(s) /\ StartOK(s) /\ EndOK(s) /\ CutOK(s) /\ HistoryOK(s)
  BY DEF Sound
<1>2. /\ Shape(t) /\ Queues(t) /\ t.start = r
      /\ t.given = s.given /\ t.protocol = s.protocol /\ t.scheduler = s.scheduler
      /\ t.active = s.active /\ t.nextCut = s.nextCut /\ t.phase = s.phase
      /\ t.terminal = s.terminal /\ t.pendingHistory = s.pendingHistory
      /\ t.lastHistoryRequest = s.lastHistoryRequest
      /\ t.cleanup = s.cleanup /\ t.ingress = s.ingress
  BY <1>1, Restarts
<1>3. StartOK(t) /\ EndOK(t)
  BY <1>1, <1>2 DEF StartOK, EndOK, Alive
<1>4. CutOK(t)
  BY <1>1, <1>2 DEF CutOK
<1>5. HistoryOK(t)
  BY <1>1, <1>2 DEF HistoryOK
<1>. QED BY <1>2, <1>3, <1>4, <1>5 DEF Sound

\* Start admits one BIND.
LEMMA StartKeeps ==
  ASSUME EpochInv, NEW room, Start(room)
  PROVE  Kept
<1>0. /\ Sound(e) /\ Shape(e) /\ e.start \in StartRec /\ Alive(e) /\ starter = "idle"
      /\ e.start.phase = "none" /\ e.start.ownership = "none"
      /\ Threads /\ StarterOK /\ AttachedOK /\ RunnerOK /\ HoldOK /\ StrayOK
  BY ShapeFields DEF EpochInv, Start, Alive, StarterOK, Sound, StartOK
<1>1. UNCHANGED <<attached, stray, canceled, runner, reader, browser, acker, histories, owner, finalizer>>
  BY DEF Start
<1>2. CASE canceled
  <2>1. PICK c \in Harmless : c = "canceled"
    BY DEF Harmless
  <2>2. e' = requestTerminal(e, c, room) /\ launches(e') /\ starter' = "done"
    BY <1>2, <2>1 DEF Start, Ends, Becomes, launches
  <2>3. /\ Sound(e')
        /\ (e' = e /\ ~Alive(e)) \/ Records(e, e') \/ Closes(e, e')
    BY <1>0, <2>2, Requests1
  <2>4. Closes(e, e')
    BY <1>0, <2>3 DEF Records
  <2>5. Threads'
    BY <1>0, <1>1, <2>2 DEF Threads, launches
  <2>. QED BY <1>0, <1>1, <2>2, <2>3, <2>4, <2>5, EndsKeeps DEF RunnerOK
<1>3. CASE ~canceled
  <2>1. PICK r : r = [e.start EXCEPT !.phase = "binding", !.ownership = "pending"]
    OBVIOUS
  <2>2. e' = restarted(e, r) /\ launches(e') /\ starter' = "bind"
    BY <1>0, <1>3, <2>1 DEF Start, Becomes, launches, restarted, Shape
  <2>3. /\ r \in StartRec /\ r.phase = "binding" /\ r.ownership = "pending"
        /\ r.result = e.start.result /\ r.pending = e.start.pending
    BY <1>0, <2>1 DEF StartRec, Ownership
  <2>4. r.result = "none"
    BY <1>0, <2>3 DEF Sound, StartOK
  <2>5. /\ Sound(e') /\ e'.start = r /\ e'.terminal = e.terminal /\ e'.active = e.active
        /\ e'.scheduler = e.scheduler /\ e'.cleanup = e.cleanup
    BY <1>0, <2>2, <2>3, <2>4, BindingStarts
  <2>6. teardown' = teardown
    BY <1>0, <2>2, <2>5 DEF launches, Alive
  <2>7. Threads'
    BY <1>0, <1>1, <2>2, <2>6 DEF Threads
  <2>8. StarterOK'
    BY <1>0, <1>1, <2>2, <2>3, <2>5 DEF StarterOK
  <2>9. AttachedOK'
    BY <1>0, <1>1, <2>5, <2>6 DEF AttachedOK, Alive
  <2>10. RunnerOK' /\ HoldOK'
    BY <1>0, <1>1, <2>5 DEF RunnerOK, HoldOK, holders, Alive
  <2>11. StrayOK' /\ BusyIsAnothers
    BY <1>0, <1>1, <2>2, <2>5, StrayKeeps
  <2>. QED BY <2>5, <2>7, <2>8, <2>9, <2>10, <2>11 DEF EpochInv, Kept
<1>. QED BY <1>2, <1>3

\* The BIND transaction creates the attachment; its ownership is still pending.
LEMMA BindMutatesKeeps ==
  ASSUME EpochInv, BindMutates
  PROVE  Kept
<1>0. /\ Sound(e) /\ Threads /\ StarterOK /\ AttachedOK /\ RunnerOK /\ HoldOK /\ StrayOK
      /\ starter = "bind" /\ starter' = "mutated" /\ attached' = TRUE
      /\ UNCHANGED <<e, stray, canceled, runner, reader, browser, acker, histories, owner, teardown, finalizer>>
  BY DEF EpochInv, BindMutates
<1>1. e.start.ownership = "pending"
  BY <1>0 DEF StarterOK
<1>2. ~e.cleanup.complete
  BY <1>0, <1>1 DEF Sound, StartOK, EndOK
<1>3. Threads' /\ StarterOK'
  BY <1>0, <1>1 DEF Threads, StarterOK
<1>4. AttachedOK' /\ RunnerOK' /\ HoldOK'
  BY <1>0, <1>2 DEF AttachedOK, RunnerOK, HoldOK, holders
<1>5. StrayOK' /\ BusyIsAnothers
  BY <1>0, StrayKeeps
<1>. QED BY <1>0, <1>3, <1>4, <1>5 DEF EpochInv, Kept

\* transferStartOwnershipLocked: the epoch owns the attachment before BIND returns.
LEMMA BindTransfersKeeps ==
  ASSUME EpochInv, NEW room, BindTransfers(room)
  PROVE  Kept
<1>0. /\ Sound(e) /\ Shape(e) /\ e.start \in StartRec
      /\ Threads /\ StarterOK /\ AttachedOK /\ RunnerOK /\ HoldOK /\ StrayOK
      /\ starter = "mutated" /\ starter' = "bound"
      /\ UNCHANGED <<attached, stray, canceled, runner, reader, browser, acker, histories, owner, finalizer>>
  BY ShapeFields DEF EpochInv, Sound, BindTransfers
<1>1. e.start.ownership = "pending" /\ e.start.phase = "binding" /\ Alive(e)
  BY <1>0 DEF StarterOK, Sound, StartOK, EndOK
<1>2. PICK r : r = [e.start EXCEPT !.ownership = "exact"]
  OBVIOUS
<1>3. e' = restarted(e, r) /\ launches(e')
  BY <1>0, <1>1, <1>2 DEF BindTransfers, Becomes, launches, restarted, Shape
<1>4. /\ r \in StartRec /\ r.phase = "binding" /\ r.ownership = "exact"
      /\ r.result = e.start.result /\ r.pending = e.start.pending
  BY <1>0, <1>1, <1>2 DEF StartRec, Ownership
<1>5. r.result = "none"
  BY <1>0, <1>1, <1>4 DEF Sound, StartOK
<1>6. /\ Sound(e') /\ e'.start = r /\ e'.terminal = e.terminal /\ e'.active = e.active
      /\ e'.scheduler = e.scheduler /\ e'.cleanup = e.cleanup
  BY <1>0, <1>1, <1>3, <1>4, <1>5, BindingStarts
<1>7. teardown' = teardown
  BY <1>1, <1>3, <1>6 DEF launches, Alive
<1>8. Threads' /\ StarterOK'
  BY <1>0, <1>1, <1>4, <1>6, <1>7 DEF Threads, StarterOK
<1>9. AttachedOK'
  BY <1>0, <1>4, <1>6, <1>7 DEF AttachedOK, Alive
<1>10. RunnerOK' /\ HoldOK'
  BY <1>0, <1>6 DEF RunnerOK, HoldOK, holders, Alive
<1>11. StrayOK' /\ BusyIsAnothers
  BY <1>0, <1>1, <1>6, StrayKeeps
<1>. QED BY <1>6, <1>8, <1>9, <1>10, <1>11 DEF EpochInv, Kept

\* BIND returns, or fails.
LEMMA BindReturnsKeeps ==
  ASSUME EpochInv, BindReturns
  PROVE  Kept
<1>0. /\ Sound(e) /\ Threads /\ StarterOK /\ AttachedOK /\ RunnerOK /\ HoldOK /\ StrayOK
      /\ starter \in {"bind", "bound"}
      /\ starter' = (IF starter = "bind" THEN "noOwner" ELSE starter')
      /\ starter = "bound" => starter' \in {"succeeded", "failed"}
      /\ UNCHANGED <<e, attached, stray, canceled, runner, reader, browser, acker, histories, owner, teardown, finalizer>>
  BY DEF EpochInv, BindReturns
<1>1. Threads' /\ StarterOK'
  BY <1>0 DEF Threads, StarterOK
<1>2. AttachedOK' /\ RunnerOK' /\ HoldOK'
  BY <1>0 DEF AttachedOK, RunnerOK, HoldOK, holders
<1>3. StrayOK' /\ BusyIsAnothers
  BY <1>0, StrayKeeps
<1>. QED BY <1>0, <1>1, <1>2, <1>3 DEF EpochInv, Kept

\* BIND ends without an ID: what it may have left has no owner, and the end is still due.
LEMMA BindUnresolvedKeeps ==
  ASSUME EpochInv, BindUnresolved
  PROVE  Kept
<1>0. /\ Sound(e) /\ Threads /\ StarterOK /\ AttachedOK /\ RunnerOK /\ HoldOK
      /\ starter = "bind" /\ starter' = "unresolved" /\ stray' = "possible"
      /\ UNCHANGED <<e, attached, canceled, runner, reader, browser, acker, histories, owner, teardown, finalizer>>
  BY DEF EpochInv, BindUnresolved
<1>1. Threads' /\ StarterOK'
  BY <1>0 DEF Threads, StarterOK
<1>2. AttachedOK' /\ RunnerOK' /\ HoldOK'
  BY <1>0 DEF AttachedOK, RunnerOK, HoldOK, holders
<1>3. Alive(e)
  BY <1>0 DEF StarterOK, Sound, StartOK, EndOK
<1>4. StrayOK' /\ BusyIsAnothers
  BY <1>0, <1>3 DEF StrayOK, BusyIsAnothers, finds
<1>. QED BY <1>0, <1>1, <1>2, <1>4 DEF EpochInv, Kept

\* tmux makes the shadow of a client that is gone.
LEMMA StrayAppearsKeeps ==
  ASSUME EpochInv, StrayAppears
  PROVE  Kept
<1>0. /\ Sound(e) /\ Threads /\ StarterOK /\ AttachedOK /\ RunnerOK /\ HoldOK /\ StrayOK
      /\ stray = "possible" /\ stray' = "shadow" /\ UNCHANGED <<e, attached, canceled, threads>>
  BY DEF EpochInv, StrayAppears
<1>1. Threads' /\ StarterOK' /\ AttachedOK'
  BY <1>0 DEF Threads, StarterOK, AttachedOK, threads
<1>2. RunnerOK' /\ HoldOK'
  BY <1>0 DEF RunnerOK, HoldOK, holders, threads
<1>3. StrayOK' /\ BusyIsAnothers
  BY <1>0 DEF StrayOK, BusyIsAnothers, finds, threads
<1>. QED BY <1>0, <1>1, <1>2, <1>3 DEF EpochInv, Kept

\* The Start attempt returns once it is resolved.
LEMMA StartReturnsKeeps ==
  ASSUME EpochInv, StartReturns
  PROVE  Kept
<1>0. /\ Sound(e) /\ Threads /\ StarterOK /\ AttachedOK /\ RunnerOK /\ HoldOK /\ StrayOK
      /\ starter = "cutting" /\ starter' = "done" /\ e.start.result # "none"
      /\ UNCHANGED <<e, attached, stray, canceled, runner, reader, browser, acker, histories, owner, teardown, finalizer>>
  BY DEF EpochInv, StartReturns
<1>1. Alive(e) => e.start.phase = "prepared"
  BY <1>0 DEF Sound, StartOK
<1>2. Threads' /\ StarterOK'
  BY <1>0, <1>1 DEF Threads, StarterOK
<1>3. AttachedOK' /\ RunnerOK' /\ HoldOK'
  BY <1>0 DEF AttachedOK, RunnerOK, HoldOK, holders
<1>4. StrayOK' /\ BusyIsAnothers
  BY <1>0, StrayKeeps
<1>. QED BY <1>0, <1>2, <1>3, <1>4 DEF EpochInv, Kept

\* reconcileBindLocked and prepareStartCutLocked: the end BIND kept waiting, or the INITIAL cut.
LEMMA ReconcileKeeps ==
  ASSUME EpochInv, NEW room, Reconcile(room)
  PROVE  Kept
<1>0. /\ Sound(e) /\ Shape(e) /\ e.start \in StartRec /\ e.scheduler \in SchedulerRec
      /\ Threads /\ StarterOK /\ AttachedOK /\ RunnerOK /\ HoldOK /\ StrayOK
      /\ starter \in {"succeeded", "failed", "noOwner", "unresolved"}
      /\ UNCHANGED <<attached, stray, canceled, reader, browser, acker, histories, owner, finalizer>>
  BY ShapeFields DEF EpochInv, Sound, Reconcile
<1>1. PICK s : s = IF starter \in {"noOwner", "unresolved"} THEN [e EXCEPT !.start.ownership = "none"] ELSE e
  OBVIOUS
<1>2. CASE ~Alive(e)
  <2>1. e' = e /\ starter' = "done" /\ runner' = runner /\ launches(e')
    BY <1>0, <1>2 DEF Reconcile, Becomes, launches, Alive
  <2>2. teardown # "none"
    BY <1>0, <1>2 DEF AttachedOK
  <2>3. teardown' = teardown
    BY <2>1, <2>2 DEF launches
  <2>4. Threads'
    BY <1>0, <2>1, <2>3 DEF Threads
  <2>5. (owner' = "cutting") = (runner'.who = "owner")
        /\ (browser' = "resizing") = (runner'.who = "browser")
    BY <1>0, <2>1 DEF RunnerOK
  <2>6. e.cleanup.complete => ~attached
    BY <1>0 DEF AttachedOK
  <2>. QED BY <1>0, <1>2, <2>1, <2>2, <2>3, <2>4, <2>5, <2>6, EndedKeeps
<1>3. CASE Alive(e) /\ starter \in {"noOwner", "unresolved"}
  <2>0. e.start.ownership = "pending" /\ e.start.phase = "binding" /\ e.start.result = "none"
    BY <1>0, <1>3 DEF StarterOK, Sound, StartOK
  <2>1. PICK r : r = [e.start EXCEPT !.ownership = "none"]
    OBVIOUS
  <2>2. s = restarted(e, r)
    BY <1>0, <1>1, <1>3, <2>1 DEF restarted, Shape
  <2>3. /\ r \in StartRec /\ r.phase = "binding" /\ r.ownership = "none" /\ r.result = "none"
    BY <1>0, <2>0, <2>1 DEF StartRec, Ownership
  <2>4. /\ Sound(s) /\ s.start = r /\ s.terminal = e.terminal /\ s.cleanup = e.cleanup
    BY <1>0, <1>3, <2>0, <2>2, <2>3, BindingStarts
  <2>5. PICK c \in EndCause : c = IF starter = "unresolved" THEN "unresolvedBind" ELSE "fault"
    BY DEF Harmless, EndCause
  <2>6. /\ e' = requestTerminal(s, c, room) /\ launches(e')
        /\ starter' = "done" /\ runner' = runner
    BY <1>0, <1>1, <1>3, <2>5 DEF Reconcile, Becomes, launches, Alive
  <2>7. PICK t : t = e'
    OBVIOUS
  <2>8. Alive(s) /\ s.start.ownership # "pending"
    BY <1>3, <2>3, <2>4 DEF Alive
  <2>9. /\ Sound(t) /\ Shuts(s, t)
        /\ t.terminal.cause = IF s.start.pending # "none" THEN s.start.pending ELSE c
    BY <2>4, <2>6, <2>7, <2>8, EndsNow
  <2>10. /\ ~Alive(t) /\ t.start.ownership = "none" /\ t.start.phase = "terminal"
         /\ t.cleanup = e.cleanup /\ t.start.pending = r.pending
    BY <2>3, <2>4, <2>9 DEF Shuts, EndPhase
  <2>11. ~attached
    BY <1>0, <1>3, <2>0 DEF AttachedOK
  <2>12. teardown' = "scheduler"
    BY <1>0, <1>3, <2>6, <2>7, <2>10 DEF launches, AttachedOK, Alive
  <2>13. Threads'
    BY <1>0, <2>6, <2>12 DEF Threads
  <2>14. StarterOK'
    BY <1>0, <2>6, <2>7, <2>10 DEF StarterOK
  <2>15. AttachedOK'
    BY <1>0, <2>7, <2>10, <2>11, <2>12 DEF AttachedOK, Alive
  <2>16. RunnerOK'
    BY <1>0, <2>6, <2>7, <2>10 DEF RunnerOK
  <2>17. HoldOK'
    BY <2>7, <2>10 DEF HoldOK
  <2>18. r.pending \in {"none"} \cup Harmless
    BY <2>3 DEF StartRec
  <2>19. t.terminal.cause = (IF r.pending # "none" THEN r.pending ELSE c)
    BY <2>4, <2>9
  <2>20. t.terminal.cause \notin Busy /\ (t.terminal.cause = "unresolvedBind" => starter = "unresolved")
    BY <2>5, <2>18, <2>19 DEF Harmless, Busy
  <2>21. (stray # "none") = (starter = "unresolved")
    BY <1>0, <1>3 DEF StrayOK
  <2>22. stray # "none" => t.terminal.cause = "unresolvedBind" \/ t.start.pending # "none"
    BY <2>5, <2>10, <2>19, <2>21
  <2>23. t.terminal.ownership = "none"
    BY <2>9, <2>10 DEF Sound, EndOK
  <2>24. StrayOK'
    BY <1>0, <2>7, <2>10, <2>20, <2>21, <2>22, <2>23 DEF StrayOK
  <2>25. BusyIsAnothers
    BY <2>7, <2>20 DEF BusyIsAnothers, finds, Busy
  <2>. QED BY <2>7, <2>9, <2>13, <2>14, <2>15, <2>16, <2>17, <2>24, <2>25 DEF EpochInv, Kept
<1>4. CASE /\ Alive(e) /\ starter \notin {"noOwner", "unresolved"}
           /\ (starter # "succeeded" \/ e.start.pending # "none")
  <2>0. s = e /\ e.start.ownership = "exact"
    BY <1>0, <1>1, <1>4 DEF StarterOK
  <2>1. PICK c \in Harmless : c = "fault"
    BY DEF Harmless
  <2>2. /\ e' = requestTerminal(e, c, room) /\ launches(e')
        /\ starter' = "done" /\ runner' = runner
    BY <1>0, <1>1, <1>4, <2>0, <2>1 DEF Reconcile, Becomes, launches, Alive
  <2>3. /\ Sound(e') /\ ((e' = e /\ ~Alive(e)) \/ Records(e, e') \/ Closes(e, e'))
    BY <1>0, <2>1, <2>2, Requests1
  <2>4. Closes(e, e')
    BY <1>4, <2>0, <2>3 DEF Records
  <2>5. Threads'
    BY <1>0, <2>2 DEF Threads, launches
  <2>. QED BY <1>0, <2>2, <2>3, <2>4, <2>5, EndsKeeps DEF RunnerOK
<1>5. CASE Alive(e) /\ starter = "succeeded" /\ e.start.pending = "none"
  <2>0. s = e /\ e.start.ownership = "exact" /\ e.start.phase = "binding" /\ teardown = "none"
    BY <1>0, <1>1, <1>5 DEF StarterOK, Sound, StartOK, AttachedOK
  <2>1. /\ e.active = NoCut /\ e.protocol.state = "awaitPrepare" /\ ~e.scheduler.inFlight
        /\ ~e.scheduler.stopped
    BY <1>0, <1>5, <2>0 DEF Sound, CutOK, EndOK
  <2>2. PICK t : t = startCut(e)
    OBVIOUS
  <2>3. e' = t /\ launches(e') /\ starter' = "cutting" /\ runner' = runs("start", t, "issue")
    BY <1>0, <1>1, <1>5, <2>0, <2>1, <2>2 DEF Reconcile, Becomes, launches, Alive, busy
  <2>4. /\ Sound(t) /\ Alive(t)
        /\ t.active # NoCut /\ t.active.kind = "initial"
        /\ ~t.active.issued /\ ~t.active.captured
        /\ t.start.ownership = "exact" /\ t.start.phase = "cutting"
        /\ t.cleanup = e.cleanup
        /\ t.scheduler = [e.scheduler EXCEPT !.inFlight = TRUE]
    BY <1>0, <1>5, <2>0, <2>1, <2>2, StartsCut
  <2>5. t.scheduler.inFlight /\ t.scheduler.due = e.scheduler.due
    BY <1>0, <2>4 DEF SchedulerRec
  <2>6. /\ runner'.who = "start" /\ runner'.id = t.active.id /\ runner'.pc = "issue"
        /\ runner' # NoRunner /\ runner' = [who |-> "start", id |-> t.active.id, pc |-> "issue"]
    BY <2>3 DEF runs, NoRunner
  <2>7. runner = NoRunner /\ runner.who = "none"
    BY <1>0, <1>5, <2>1 DEF RunnerOK, NoRunner
  <2>8. teardown' = "none"
    BY <2>0, <2>3, <2>4 DEF launches, Alive
  <2>9. t.active.id \in Nat \ {0} /\ t.active.issued = FALSE
    BY <2>4, ShapeFields DEF Sound, CutRec
  <2>10. Threads'
    BY <1>0, <2>3, <2>6, <2>8, <2>9 DEF Threads
  <2>11. StarterOK'
    BY <1>0, <2>3, <2>4 DEF StarterOK
  <2>12. AttachedOK'
    BY <1>0, <2>3, <2>4, <2>8 DEF AttachedOK
  <2>13. RunnerOK'
    BY <1>0, <2>3, <2>4, <2>6, <2>7, <2>9 DEF RunnerOK, RunnerOf
  <2>14. HoldOK'
    <3>1. holders = 0
      BY <1>0, <1>5, <2>1 DEF HoldOK
    <3>2. holders' = holders + 1
      BY <1>0, <2>1, <2>3, <2>4, <2>5, <3>1 DEF holders
    <3>. QED BY <2>3, <2>5, <3>1, <3>2 DEF HoldOK
  <2>15. StrayOK' /\ BusyIsAnothers
    BY <1>0, <1>5, <2>3, <2>4, StrayKeeps DEF Alive
  <2>. QED BY <2>3, <2>4, <2>10, <2>11, <2>12, <2>13, <2>14, <2>15 DEF EpochInv, Kept
<1>. QED BY <1>0, <1>2, <1>3, <1>4, <1>5

\* beginOngoingCut: the hold of the owner loop becomes that of its cut.
LEMMA BeginOngoingKeeps ==
  ASSUME EpochInv, NEW room, BeginOngoingCut(room)
  PROVE  Kept
<1>0. /\ Sound(e) /\ Shape(e) /\ e.start \in StartRec /\ e.scheduler \in SchedulerRec
      /\ Threads /\ StarterOK /\ AttachedOK /\ RunnerOK /\ HoldOK /\ StrayOK
      /\ owner = "due"
      /\ UNCHANGED <<attached, stray, canceled, starter, reader, browser, acker, histories, finalizer>>
  BY ShapeFields DEF EpochInv, Sound, BeginOngoingCut
<1>1. CASE ~Alive(e)
  <2>1. e' = e /\ owner' = "done" /\ runner' = runner /\ launches(e')
    BY <1>1 DEF BeginOngoingCut, Becomes, launches, Alive
  <2>2. teardown # "none" /\ (e.cleanup.complete => ~attached)
    BY <1>0, <1>1 DEF AttachedOK
  <2>3. teardown' = teardown
    BY <2>1, <2>2 DEF launches
  <2>4. Threads'
    BY <1>0, <2>1, <2>3 DEF Threads
  <2>5. (owner' = "cutting") = (runner'.who = "owner")
        /\ (browser' = "resizing") = (runner'.who = "browser")
    BY <1>0, <2>1 DEF RunnerOK
  <2>. QED BY <1>0, <1>1, <2>1, <2>2, <2>3, <2>4, <2>5, EndedKeeps
<1>2. CASE Alive(e)
  <2>1. /\ holders = (IF e.scheduler.inFlight THEN 1 ELSE 0)
        /\ e.active = NoCut /\ e.scheduler.inFlight
    BY <1>0, <1>2 DEF HoldOK, holders
  <2>2. e.start.phase = "prepared" /\ e.start.ownership = "exact" /\ e.protocol.state = "live"
    BY <1>0, <1>2, <2>1 DEF Sound, CutOK, StartOK, StartRec
  <2>3. PICK t : t = newCut(e, "ongoing", 0)
    OBVIOUS
  <2>4. e' = t /\ launches(e') /\ owner' = "cutting" /\ runner' = runs("owner", t, "issue")
    BY <1>2, <2>1, <2>2, <2>3 DEF BeginOngoingCut, Becomes, launches, Alive
  <2>5. PICK k, q : k = "ongoing" /\ q = 0
    OBVIOUS
  <2>6. /\ k \in {"ongoing", "resize", "history"} /\ q \in Nat /\ (k = "history") = (q # 0)
        /\ q = 0 /\ t = newCut(e, k, q)
    BY <2>3, <2>5
  <2>7. /\ Queues(e) /\ StartOK(e) /\ EndOK(e) /\ CutOK(e) /\ HistoryOK(e)
    BY <1>0, <1>2 DEF Sound
  <2>8. /\ Sound(t) /\ Alive(t)
        /\ t.active # NoCut /\ t.active.kind = k /\ ~t.active.issued /\ ~t.active.captured
        /\ t.start = e.start /\ t.scheduler = e.scheduler /\ t.cleanup = e.cleanup
    BY <1>0, <1>2, <2>1, <2>2, <2>6, <2>7, OpensCut
  <2>9. /\ runner' = [who |-> "owner", id |-> t.active.id, pc |-> "issue"]
        /\ runner'.who = "owner" /\ runner'.id = t.active.id /\ runner'.pc = "issue"
        /\ runner' # NoRunner
    BY <2>4 DEF runs, NoRunner
  <2>10. runner = NoRunner /\ runner.who = "none"
    BY <1>0, <1>2, <2>1 DEF RunnerOK, NoRunner
  <2>11. teardown' = teardown
    BY <2>4, <2>8 DEF launches, Alive
  <2>12. t.active.id \in Nat \ {0} /\ t.active.issued = FALSE
    BY <2>8, ShapeFields DEF Sound, CutRec
  <2>13. Threads'
    BY <1>0, <2>4, <2>9, <2>11, <2>12 DEF Threads
  <2>14. StarterOK'
    BY <1>0, <1>2, <2>4, <2>8 DEF StarterOK
  <2>15. AttachedOK'
    BY <1>0, <1>2, <2>4, <2>8, <2>11 DEF AttachedOK
  <2>16. RunnerOK'
    BY <1>0, <2>4, <2>5, <2>8, <2>9, <2>10, <2>12 DEF RunnerOK, RunnerOf
  <2>17. HoldOK'
    <3>1. holders' = holders
      BY <1>0, <2>1, <2>4, <2>8 DEF holders
    <3>. QED BY <2>1, <2>4, <2>8, <3>1 DEF HoldOK
  <2>18. StrayOK' /\ BusyIsAnothers
    BY <1>0, <1>2, <2>4, <2>8, StrayKeeps DEF Alive
  <2>. QED BY <2>4, <2>8, <2>13, <2>14, <2>15, <2>16, <2>17, <2>18 DEF EpochInv, Kept
<1>. QED BY <1>1, <1>2

\* A cut in hand belongs to an epoch whose BIND is over.
LEMMA CutStarted ==
  ASSUME Sound(e), e.active # NoCut
  PROVE  /\ Alive(e) /\ e.active \in CutRec
         /\ e.start.phase \in {"cutting", "awaiting", "prepared"}
         /\ e.start.ownership = "exact"
<1>1. Alive(e) /\ e.active \in CutRec /\ e.start \in StartRec
  BY ShapeFields DEF Sound, EndOK
<1>2. e.start.phase \in {"cutting", "awaiting", "prepared"}
  BY <1>1 DEF Sound, CutOK, StartOK, StartRec
<1>. QED BY <1>1, <1>2 DEF Sound, StartOK

\* The goroutine of a cut ends the epoch and itself.
LEMMA RunnerEndsKeeps ==
  ASSUME EpochInv, runner # NoRunner, NEW cause \in Harmless, NEW room,
         Ends(cause, room), RunnerEnds(FALSE),
         UNCHANGED <<attached, stray, canceled, starter, reader, acker, histories, finalizer>>
  PROVE  Kept
<1>0. /\ Sound(e) /\ Threads /\ AttachedOK /\ RunnerOK
      /\ e' = requestTerminal(e, cause, room) /\ launches(e')
  BY DEF EpochInv, Ends, Becomes, launches
<1>1. /\ runner' = NoRunner /\ runner'.who = "none"
      /\ owner' = (IF runner.who = "owner" THEN "done" ELSE owner)
      /\ browser' = (IF runner.who = "browser" THEN "idle" ELSE browser)
  BY DEF RunnerEnds, NoRunner
<1>2. (owner' = "cutting") = (runner'.who = "owner")
      /\ (browser' = "resizing") = (runner'.who = "browser")
  BY <1>0, <1>1 DEF RunnerOK
<1>3. Threads'
  BY <1>0, <1>1 DEF Threads, launches, NoRunner
<1>4. Sound(e') /\ ((e' = e /\ ~Alive(e)) \/ Records(e, e') \/ Closes(e, e'))
  BY <1>0, Requests1
<1>5. CASE ~Alive(e)
  <2>1. e' = e
    BY <1>4, <1>5 DEF Records, Closes, Shuts
  <2>2. teardown # "none" /\ (e.cleanup.complete => ~attached)
    BY <1>0, <1>5 DEF AttachedOK
  <2>3. teardown' = teardown
    BY <1>0, <2>2 DEF launches
  <2>. QED BY <1>2, <1>3, <1>4, <1>5, <2>1, <2>2, <2>3, EndedKeeps
<1>6. CASE Alive(e)
  <2>1. e.active # NoCut
    BY <1>0, <1>6 DEF RunnerOK
  <2>2. e.start.ownership = "exact"
    BY <1>0, <2>1, CutStarted
  <2>3. Closes(e, e')
    BY <1>4, <1>6, <2>2 DEF Records
  <2>. QED BY <1>0, <1>2, <1>3, <1>4, <2>3, EndsKeeps
<1>. QED BY <1>5, <1>6

\* runCut issues the cut it was started for: none other can be in hand.
LEMMA CutIssueKeeps ==
  ASSUME EpochInv, NEW room, CutIssue(room)
  PROVE  Kept
<1>0. /\ Sound(e) /\ Shape(e) /\ Threads /\ StarterOK /\ AttachedOK /\ RunnerOK /\ HoldOK /\ StrayOK
      /\ runner.pc = "issue" /\ runner # NoRunner
      /\ UNCHANGED <<attached, stray, canceled, starter, reader, acker, histories, finalizer>>
  BY DEF EpochInv, Sound, CutIssue, NoRunner
<1>1. CASE \/ e.active.id # runner.id \/ e.active.issued
           \/ e.active.request # 0 /\ e.phase[e.active.request] # "queued"
  <2>1. ~Alive(e)
    <3>1. SUFFICES ASSUME Alive(e) PROVE FALSE
      OBVIOUS
    <3>2. e.active # NoCut /\ e.active.id = runner.id /\ e.active.issued = FALSE
      BY <1>0, <3>1 DEF RunnerOK
    <3>. QED BY <1>0, <1>1, <3>1, <3>2 DEF Sound, HistoryOK
  <2>2. e' = e /\ launches(e') /\ RunnerEnds(FALSE)
    BY <1>0, <1>1, <2>1 DEF CutIssue, Ends, Becomes, requestTerminal, Alive, launches
  <2>3. /\ runner' = NoRunner /\ runner'.who = "none"
        /\ owner' = (IF runner.who = "owner" THEN "done" ELSE owner)
        /\ browser' = (IF runner.who = "browser" THEN "idle" ELSE browser)
    BY <2>2 DEF RunnerEnds, NoRunner
  <2>4. (owner' = "cutting") = (runner'.who = "owner")
        /\ (browser' = "resizing") = (runner'.who = "browser")
    BY <1>0, <2>3 DEF RunnerOK
  <2>5. Threads'
    BY <1>0, <2>2, <2>3 DEF Threads, launches, NoRunner
  <2>6. teardown # "none" /\ (e.cleanup.complete => ~attached)
    BY <1>0, <2>1 DEF AttachedOK
  <2>7. teardown' = teardown
    BY <2>2, <2>6 DEF launches
  <2>. QED BY <1>0, <2>1, <2>2, <2>4, <2>5, <2>6, <2>7, EndedKeeps
<1>2. CASE ~(\/ e.active.id # runner.id \/ e.active.issued
             \/ e.active.request # 0 /\ e.phase[e.active.request] # "queued")
  <2>1. PICK t : t = issue(e)
    OBVIOUS
  <2>2. /\ e' = t /\ launches(e') /\ runner' = [runner EXCEPT !.pc = "capture"]
        /\ UNCHANGED <<owner, browser>>
    BY <1>2, <2>1 DEF CutIssue, Becomes, launches
  <2>3. e.active # NoCut
    <3>1. runner.id # 0
      BY <1>0 DEF Threads
    <3>. QED BY <1>2, <3>1 DEF NoCut
  <2>4. /\ Alive(e) /\ e.active \in CutRec
        /\ e.start.phase \in {"cutting", "awaiting", "prepared"}
    BY <1>0, <2>3, CutStarted
  <2>5. ~e.active.issued /\ (e.active.request # 0 => e.phase[e.active.request] = "queued")
    BY <1>2
  <2>6. /\ Sound(t) /\ Alive(t)
        /\ t.active # NoCut /\ t.active.id = e.active.id /\ t.active.kind = e.active.kind
        /\ t.active.issued /\ t.active.captured = e.active.captured
        /\ t.start = e.start /\ t.cleanup = e.cleanup /\ t.scheduler = e.scheduler
    BY <1>0, <2>1, <2>3, <2>5, Issues
  <2>7. t.active.issued = TRUE
    BY <2>6, ShapeFields DEF Sound, CutRec
  <2>8. /\ runner \in [who : {"start", "owner", "history", "browser"}, id : Nat \ {0},
                       pc : {"resize", "issue", "capture"}]
        /\ runner' \in [who : {"start", "owner", "history", "browser"}, id : Nat \ {0},
                       pc : {"resize", "issue", "capture"}]
        /\ runner'.who = runner.who /\ runner'.id = runner.id /\ runner'.pc = "capture"
        /\ runner' # NoRunner
    BY <1>0, <2>2 DEF Threads, NoRunner
  <2>9. teardown' = teardown
    BY <2>2, <2>6 DEF launches, Alive
  <2>10. Threads'
    BY <1>0, <2>2, <2>8, <2>9 DEF Threads
  <2>11. StarterOK' /\ AttachedOK'
    BY <1>0, <2>2, <2>4, <2>6, <2>9 DEF StarterOK, AttachedOK, Alive
  <2>12. RunnerOK'
    BY <1>0, <2>2, <2>4, <2>6, <2>7, <2>8 DEF RunnerOK
  <2>13. HoldOK'
    <3>1. holders' = holders
      BY <1>0, <2>2, <2>3, <2>6 DEF holders
    <3>. QED BY <1>0, <2>2, <2>4, <2>6, <3>1 DEF HoldOK
  <2>14. StrayOK' /\ BusyIsAnothers
    BY <1>0, <2>2, <2>4, <2>6, StrayKeeps DEF Alive
  <2>. QED BY <2>2, <2>6, <2>10, <2>11, <2>12, <2>13, <2>14 DEF EpochInv, Kept
<1>. QED BY <1>1, <1>2

\* The transaction of a cut fails.
LEMMA CutFailsKeeps ==
  ASSUME EpochInv, NEW room, CutFails(room)
  PROVE  Kept
<1>1. PICK c \in Harmless : Ends(c, room)
  BY DEF CutFails, Harmless
<1>2. RunnerEnds(FALSE)
      /\ UNCHANGED <<attached, stray, canceled, starter, reader, acker, histories, finalizer>>
  BY DEF CutFails
<1>3. runner # NoRunner
  BY DEF CutFails, NoRunner
<1>. QED BY <1>1, <1>2, <1>3, RunnerEndsKeeps

\* The capture of a cut returns to the goroutine that asked, which may publish its PREPARE.
LEMMA CutReturnsKeeps ==
  ASSUME EpochInv, NEW room, CutReturns(room)
  PROVE  Kept
<1>0. /\ Sound(e) /\ Shape(e) /\ Threads /\ StarterOK /\ AttachedOK /\ RunnerOK /\ HoldOK /\ StrayOK
      /\ runner.pc = "capture" /\ runner # NoRunner
      /\ UNCHANGED <<attached, stray, canceled, starter, reader, acker, histories, finalizer>>
  BY DEF EpochInv, Sound, CutReturns, NoRunner
<1>1. ASSUME NEW good \in BOOLEAN, RunnerEnds(good)
      PROVE  /\ runner' = NoRunner /\ runner'.who = "none"
             /\ owner' \in {"loop", "due", "cutting", "done"}
             /\ (owner' = "cutting") = (runner'.who = "owner")
             /\ (owner' = "due") = (owner = "due")
             /\ browser' = (IF runner.who = "browser" THEN "idle" ELSE browser)
             /\ (browser' = "resizing") = (runner'.who = "browser")
  BY <1>0, <1>1 DEF RunnerEnds, NoRunner, RunnerOK, Threads
<1>2. CASE ~Alive(e)
  <2>1. e' = e /\ launches(e') /\ RunnerEnds(FALSE)
    BY <1>2 DEF CutReturns, Becomes, Alive, launches
  <2>2. teardown # "none" /\ (e.cleanup.complete => ~attached)
    BY <1>0, <1>2 DEF AttachedOK
  <2>3. teardown' = teardown
    BY <2>1, <2>2 DEF launches
  <2>4. /\ runner' = NoRunner
        /\ owner' \in {"loop", "due", "cutting", "done"}
        /\ (owner' = "cutting") = (runner'.who = "owner")
        /\ browser' = (IF runner.who = "browser" THEN "idle" ELSE browser)
        /\ (browser' = "resizing") = (runner'.who = "browser")
    BY <1>1, <2>1
  <2>5. Threads'
    BY <1>0, <2>1, <2>3, <2>4 DEF Threads, NoRunner
  <2>. QED BY <1>0, <1>2, <2>1, <2>2, <2>3, <2>4, <2>5, EndedKeeps
<1>3. CASE Alive(e)
  <2>1. /\ e.active # NoCut /\ e.active.id = runner.id /\ ~e.active.captured
        /\ runner.who = RunnerOf(e.active.kind) /\ e.active.issued = TRUE
    BY <1>0, <1>3 DEF RunnerOK
  <2>2. /\ e.active \in CutRec /\ e.start.ownership = "exact"
        /\ e.start.phase \in {"cutting", "awaiting", "prepared"}
    BY <1>0, <2>1, CutStarted
  <2>3. (runner.who = "start") = (e.active.kind = "initial")
    BY <2>1, <2>2 DEF RunnerOf
  <2>4. runner.who = "start" => e.start.phase = "cutting"
    BY <1>0, <1>3, <2>1, <2>3 DEF Sound, CutOK
  <2>5. PICK w : w = runner.who
    OBVIOUS
  <2>6. PICK m : m = captured(e, w)
    OBVIOUS
  <2>7. /\ Sound(m) /\ Alive(m)
        /\ m.active # NoCut /\ m.active.id = e.active.id /\ m.active.kind = e.active.kind
        /\ m.active.issued /\ m.active.captured
        /\ m.start.ownership = e.start.ownership
        /\ m.start.phase = (IF w = "start" THEN "awaiting" ELSE e.start.phase)
        /\ m.cleanup = e.cleanup /\ m.scheduler = e.scheduler
    BY <1>0, <2>1, <2>3, <2>5, <2>6, Captures
  <2>8. PICK o : o = maybePublishPrepare(m, room)
    OBVIOUS
  <2>9. /\ o.err \in {"ok"} \cup Harmless
        /\ Sound(o.s) /\ Moves(m, o.s)
        /\ o.err # "ok" => o.s = m
    BY <2>7, <2>8, Prepares
  <2>10. PICK t : t = resolve(o, room)
    OBVIOUS
  <2>11. e' = t /\ launches(e') /\ RunnerEnds(o.err = "ok")
    BY <1>3, <2>1, <2>4, <2>5, <2>6, <2>8, <2>10 DEF CutReturns, Becomes, Alive, launches
  <2>12. /\ runner' = NoRunner /\ runner'.who = "none"
         /\ owner' \in {"loop", "due", "cutting", "done"}
         /\ (owner' = "cutting") = (runner'.who = "owner")
         /\ (owner' = "due") = (owner = "due")
         /\ browser' = (IF runner.who = "browser" THEN "idle" ELSE browser)
         /\ (browser' = "resizing") = (runner'.who = "browser")
    BY <1>1, <2>11
  <2>13. Threads'
    BY <1>0, <2>11, <2>12 DEF Threads, launches, NoRunner
  <2>14. CASE o.err = "ok"
    <3>1. t = o.s /\ Sound(t) /\ Moves(m, t)
      BY <2>9, <2>10, <2>14 DEF resolve
    <3>2. /\ Alive(t) /\ t.cleanup = e.cleanup /\ t.scheduler = e.scheduler
          /\ t.start.ownership = e.start.ownership
          /\ t.start.phase \in {e.start.phase, "awaiting", "prepared"}
          /\ e.start.phase = "prepared" => t.start.phase = "prepared"
          /\ t.active # NoCut /\ t.active.captured
      <4>1. /\ Alive(t) /\ t.cleanup = e.cleanup /\ t.scheduler = e.scheduler
            /\ t.start.ownership = e.start.ownership
        BY <2>7, <3>1 DEF Moves, Alive
      <4>2. t.active # NoCut /\ t.active.captured
        BY <2>7, <3>1 DEF Moves
      <4>3. t.start.phase \in {m.start.phase, "prepared"}
        BY <3>1 DEF Moves
      <4>. QED BY <2>3, <2>4, <2>5, <2>7, <4>1, <4>2, <4>3
    <3>3. teardown' = teardown
      BY <2>11, <3>2 DEF launches, Alive
    <3>4. StarterOK'
      BY <1>0, <1>3, <2>2, <2>11, <3>2 DEF StarterOK
    <3>5. AttachedOK'
      BY <1>0, <1>3, <2>11, <3>2, <3>3 DEF AttachedOK, Alive
    <3>6. RunnerOK'
      BY <2>11, <2>12, <3>2 DEF RunnerOK
    <3>7. HoldOK'
      <4>1. holders' = holders
        BY <1>0, <2>1, <2>11, <2>12, <3>2 DEF holders, RunnerOK
      <4>. QED BY <1>0, <1>3, <2>11, <3>2, <4>1 DEF HoldOK
    <3>8. StrayOK' /\ BusyIsAnothers
      BY <1>0, <1>3, <2>11, <3>2, StrayKeeps DEF Alive
    <3>. QED BY <2>11, <2>13, <3>1, <3>4, <3>5, <3>6, <3>7, <3>8 DEF EpochInv, Kept
  <2>15. CASE o.err # "ok"
    <3>1. PICK k \in Harmless : k = o.err
      BY <2>9, <2>15
    <3>2. t = requestTerminal(m, k, room)
      BY <2>9, <2>10, <2>15, <3>1 DEF resolve
    <3>3. Sound(t) /\ ((t = m /\ ~Alive(m)) \/ Records(m, t) \/ Closes(m, t))
      BY <2>7, <3>1, <3>2, Requests1
    <3>4. Closes(m, t)
      BY <2>2, <2>7, <3>3 DEF Records
    <3>5. Closes(e, t)
      <4>1. e.start.pending = "none" /\ m.start.pending = "none"
        BY <1>0, <1>3, <2>2, <2>4, <2>5, <2>7 DEF Sound, StartOK
      <4>. QED BY <1>3, <2>2, <2>4, <2>5, <2>7, <3>4, <4>1 DEF Closes, Shuts, EndPhase
    <3>6. Sound(e') /\ Closes(e, e')
      BY <2>11, <3>3, <3>5
    <3>. QED BY <1>0, <2>11, <2>12, <2>13, <3>6, EndsKeeps
  <2>. QED BY <2>14, <2>15
<1>. QED BY <1>2, <1>3

\* A step of an epoch that lives on, for the threads it may move.
LEMMA LivesOn ==
  ASSUME EpochInv, Alive(e), Sound(e'), Alive(e'), launches(e'),
         e'.start = e.start, e'.cleanup = e.cleanup,
         UNCHANGED <<attached, stray, starter, reader>>,
         canceled' \in BOOLEAN, histories' \in Nat, finalizer' \in {"idle", "waiting", "returned"},
         owner' \in {"loop", "due", "cutting", "done"}, acker' \in {"idle", "complete"},
         browser' \in {"idle", "complete", "retry", "resizing", "abandoned", "abandonedDirty", "gone"},
         runner' \in {NoRunner} \cup [who : {"start", "owner", "history", "browser"}, id : Nat \ {0},
                                      pc : {"resize", "issue", "capture"}],
         runner'.pc = "resize" => runner'.who = "browser",
         RunnerOK', HoldOK'
  PROVE  Kept
<1>0. Threads /\ StarterOK /\ AttachedOK /\ StrayOK
  BY DEF EpochInv
<1>1. teardown' = teardown
  BY DEF launches, Alive
<1>2. Threads'
  BY <1>0, <1>1 DEF Threads
<1>3. StarterOK'
  BY <1>0 DEF StarterOK
<1>4. AttachedOK'
  BY <1>0, <1>1 DEF AttachedOK
<1>5. StrayOK' /\ BusyIsAnothers
  BY <1>0, StrayKeeps DEF Alive
<1>. QED BY <1>2, <1>3, <1>4, <1>5 DEF EpochInv, Kept

\* Taking the scheduler for a cut (scheduler.BeginExternal) keeps a prepared epoch sound.
LEMMA Begins ==
  ASSUME NEW s, Sound(s), Alive(s), s.start.phase = "prepared", NEW b, b = beginExternal(s)
  PROVE  /\ Sound(b) /\ Alive(b) /\ b.active = s.active /\ b.start = s.start
         /\ b.cleanup = s.cleanup /\ b.protocol = s.protocol /\ b.phase = s.phase
         /\ b.pendingHistory = s.pendingHistory /\ b.lastHistoryRequest = s.lastHistoryRequest
         /\ b.scheduler.inFlight /\ b.scheduler.due = s.scheduler.due
<1>0. Shape(s) /\ s.scheduler \in SchedulerRec /\ ~s.scheduler.stopped
  BY ShapeFields DEF Sound, EndOK
<1>1. PICK d : d = [s.scheduler EXCEPT !.inFlight = TRUE]
  OBVIOUS
<1>2. d \in SchedulerRec /\ d.inFlight /\ d.due = s.scheduler.due /\ ~d.stopped
  BY <1>0, <1>1 DEF SchedulerRec
<1>3. b = scheduled(s, d)
  BY <1>0, <1>1 DEF beginExternal, scheduled, Shape
<1>4. Sound(b)
  BY <1>2, <1>3, SchedulesSound
<1>5. /\ b.scheduler = d /\ b.protocol = s.protocol
      /\ b.active = s.active /\ b.start = s.start /\ b.terminal = s.terminal
      /\ b.pendingHistory = s.pendingHistory /\ b.lastHistoryRequest = s.lastHistoryRequest
      /\ b.phase = s.phase /\ b.cleanup = s.cleanup
  BY <1>0, <1>2, <1>3, Schedules
<1>6. Alive(b)
  BY <1>5 DEF Alive
<1>. QED BY <1>1, <1>2, <1>4, <1>5, <1>6

\* A prepared cut, and live output, belong to a prepared Start.
LEMMA LivePrepared ==
  ASSUME NEW s, Sound(s), Alive(s), s.protocol.state = "live"
  PROVE  s.start.phase = "prepared" /\ s.start.ownership = "exact"
<1>1. s.start \in StartRec
  BY ShapeFields DEF Sound
<1>2. s.start.phase = "prepared"
  BY <1>1 DEF Sound, CutOK, StartOK, StartRec
<1>. QED BY <1>2 DEF Sound, StartOK

\* A frame of the browser that ends the epoch, which no BIND can stop.
LEMMA FrameEnds ==
  ASSUME EpochInv, Alive(e), NEW s, Sound(s), SameCore(e, s), e.start.ownership # "pending",
         NEW cause \in Harmless, NEW room, e' = requestTerminal(s, cause, room), launches(e'),
         UNCHANGED <<attached, stray, canceled, starter, runner, reader, browser, acker, histories, owner, finalizer>>
  PROVE  Kept
<1>0. Threads /\ RunnerOK
  BY DEF EpochInv
<1>1. PICK t : t = e'
  OBVIOUS
<1>2. Sound(t) /\ ((t = s /\ ~Alive(s)) \/ Records(s, t) \/ Closes(s, t))
  BY <1>1, Requests1
<1>3. Closes(s, t)
  BY <1>2 DEF Records, SameCore, Alive
<1>4. Closes(e, t)
  BY <1>3 DEF Closes, Shuts, SameCore, Alive
<1>5. Sound(e') /\ Closes(e, e')
  BY <1>1, <1>2, <1>4
<1>6. Threads'
  BY <1>0 DEF Threads, launches
<1>. QED BY <1>0, <1>5, <1>6, EndsKeeps DEF RunnerOK

\* A resize or a depth that meets the hold of another ends the epoch (BeginExternal).
LEMMA BusyEnds ==
  ASSUME EpochInv, Alive(e), e.active = NoCut, e.scheduler.inFlight, e.start.ownership = "exact",
         e.start.phase # "binding",
         NEW s, Sound(s), SameCore(e, s), NEW cause \in Busy, NEW room,
         e' = requestTerminal(s, cause, room), launches(e'), histories' \in Nat,
         UNCHANGED <<attached, stray, canceled, starter, runner, reader, browser, acker, owner, finalizer>>
  PROVE  Kept
<1>0. Sound(e) /\ Threads /\ RunnerOK /\ HoldOK
  BY DEF EpochInv
<1>1. PICK t : t = e'
  OBVIOUS
<1>2. s.start = e.start /\ s.terminal = e.terminal /\ s.cleanup = e.cleanup
  BY DEF SameCore
<1>3. e.start.pending = "none"
  BY <1>0 DEF Sound, StartOK
<1>4. PICK c \in EndCause : c = cause
  BY DEF EndCause
<1>5. Alive(s) /\ s.start.ownership # "pending"
  BY <1>2 DEF Alive
<1>6. Sound(t) /\ Shuts(s, t) /\ t.terminal.cause = cause
  BY <1>1, <1>2, <1>3, <1>4, <1>5, EndsNow
<1>7. Shuts(e, t)
  BY <1>2, <1>6 DEF Shuts, Alive
<1>8. heldElsewhere
  BY <1>0 DEF HoldOK, holders, heldElsewhere
<1>9. Threads'
  BY <1>0 DEF Threads, launches
<1>10. /\ Sound(e') /\ Shuts(e, e') /\ e'.terminal.cause \in Harmless \cup Busy
       /\ e'.terminal.cause \in Busy => heldElsewhere
  BY <1>1, <1>6, <1>7, <1>8
<1>11. (owner' = "cutting") = (runner'.who = "owner")
       /\ (browser' = "resizing") = (runner'.who = "browser")
  BY <1>0 DEF RunnerOK
<1>. QED BY <1>9, <1>10, <1>11, ShutsKeeps

\* A cut that takes the scheduler with it (beginExternal, newCut).
LEMMA OpensOn ==
  ASSUME NEW s, Sound(s), Alive(s), s.active = NoCut, s.protocol.state = "live",
         NEW kind, kind \in {"resize", "history"}, NEW request, request \in Nat,
         (kind = "history") = (request # 0),
         request # 0 => /\ request <= s.lastHistoryRequest /\ s.phase[request] = "queued"
                        /\ s.pendingHistory = 0,
         NEW t, t = newCut(beginExternal(s), kind, request)
  PROVE  /\ Sound(t) /\ Alive(t)
         /\ t.active # NoCut /\ t.active.kind = kind /\ ~t.active.issued /\ ~t.active.captured
         /\ t.start = s.start /\ t.cleanup = s.cleanup
         /\ t.scheduler.inFlight /\ t.scheduler.due = s.scheduler.due
<1>1. PICK b : b = beginExternal(s)
  OBVIOUS
<1>2. s.start.phase = "prepared"
  BY LivePrepared
<1>3. /\ Sound(b) /\ Alive(b) /\ b.active = s.active /\ b.start = s.start
      /\ b.cleanup = s.cleanup /\ b.protocol = s.protocol /\ b.phase = s.phase
      /\ b.pendingHistory = s.pendingHistory /\ b.lastHistoryRequest = s.lastHistoryRequest
      /\ b.scheduler.inFlight /\ b.scheduler.due = s.scheduler.due
  BY <1>1, <1>2, Begins
<1>4. /\ Shape(b) /\ Queues(b) /\ StartOK(b) /\ EndOK(b) /\ CutOK(b) /\ HistoryOK(b)
      /\ b.active = NoCut /\ b.protocol.state = "live"
      /\ kind \in {"ongoing", "resize", "history"}
      /\ request # 0 => /\ request <= b.lastHistoryRequest /\ b.phase[request] = "queued"
                        /\ b.pendingHistory = 0
  BY <1>3 DEF Sound
<1>5. t = newCut(b, kind, request)
  BY <1>1
<1>6. /\ Sound(t) /\ Alive(t)
      /\ t.active # NoCut /\ t.active.kind = kind /\ ~t.active.issued /\ ~t.active.captured
      /\ t.start = b.start /\ t.scheduler = b.scheduler /\ t.cleanup = b.cleanup
  BY <1>3, <1>4, <1>5, OpensCut
<1>. QED BY <1>3, <1>6

\* A cut that the browser or a history request opens: the scheduler and the
\* cut are taken together, and its goroutine is launched.
LEMMA OpensKeeps ==
  ASSUME EpochInv, Alive(e), e.active = NoCut, e.protocol.state = "live", ~e.scheduler.inFlight,
         NEW s, Sound(s), s.active = e.active, s.start = e.start, s.terminal = e.terminal,
         s.cleanup = e.cleanup, s.scheduler = e.scheduler, s.protocol = e.protocol,
         NEW kind, kind \in {"resize", "history"}, NEW request, request \in Nat,
         (kind = "history") = (request # 0),
         request # 0 => /\ request <= s.lastHistoryRequest /\ s.phase[request] = "queued"
                        /\ s.pendingHistory = 0,
         NEW t, t = newCut(beginExternal(s), kind, request), e' = t, launches(e'),
         runner' = runs(RunnerOf(kind), t, IF kind = "resize" THEN "resize" ELSE "issue"),
         browser' = (IF kind = "resize" THEN "resizing" ELSE browser),
         browser = "idle" \/ kind = "history",
         UNCHANGED <<attached, stray, canceled, starter, reader, acker, owner, finalizer>>, histories' \in Nat
  PROVE  Kept
<1>0. Threads /\ RunnerOK /\ HoldOK /\ e.scheduler \in SchedulerRec
  BY ShapeFields DEF EpochInv, Sound
<1>1. Alive(s) /\ s.active = NoCut /\ s.protocol.state = "live"
  BY DEF Alive
<1>6. /\ Sound(t) /\ Alive(t)
      /\ t.active # NoCut /\ t.active.kind = kind /\ ~t.active.issued /\ ~t.active.captured
      /\ t.start = s.start /\ t.cleanup = s.cleanup
      /\ t.scheduler.inFlight /\ t.scheduler.due = s.scheduler.due
  BY <1>1, OpensOn
<1>7. t.active.id \in Nat \ {0} /\ t.active.issued = FALSE
  BY <1>6, ShapeFields DEF Sound, CutRec
<1>8. /\ runner'.who = RunnerOf(kind) /\ runner'.id = t.active.id
      /\ runner'.pc = (IF kind = "resize" THEN "resize" ELSE "issue")
      /\ runner' # NoRunner
      /\ runner' \in [who : {"start", "owner", "history", "browser"}, id : Nat \ {0},
                      pc : {"resize", "issue", "capture"}]
  BY <1>7 DEF runs, NoRunner, RunnerOf
<1>9. runner = NoRunner /\ runner.who = "none"
  BY <1>0 DEF RunnerOK, NoRunner
<1>10. RunnerOK'
  <2>1. owner # "cutting" /\ browser # "resizing"
    BY <1>0, <1>9 DEF RunnerOK
  <2>2. (owner' = "cutting") = (runner'.who = "owner")
        /\ (browser' = "resizing") = (runner'.who = "browser")
    BY <1>8, <2>1 DEF RunnerOf
  <2>. QED BY <1>6, <1>7, <1>8, <2>2 DEF RunnerOK
<1>11. HoldOK'
  <2>1. holders = 0
    BY <1>0 DEF HoldOK
  <2>2. (browser' \in Completing) = (browser \in Completing)
    BY DEF Completing
  <2>3. holders' = holders + 1
    BY <1>6, <2>1, <2>2 DEF holders, Completing
  <2>. QED BY <1>6, <2>1, <2>3 DEF HoldOK
<1>12. browser' \in {"idle", "complete", "retry", "resizing", "abandoned", "abandonedDirty", "gone"}
  BY <1>0 DEF Threads
<1>13. /\ Sound(e') /\ Alive(e') /\ e'.start = e.start /\ e'.cleanup = e.cleanup
       /\ canceled' \in BOOLEAN /\ finalizer' \in {"idle", "waiting", "returned"}
       /\ owner' \in {"loop", "due", "cutting", "done"} /\ acker' \in {"idle", "complete"}
  BY <1>0, <1>6 DEF Threads
<1>14. runner'.pc = "resize" => runner'.who = "browser"
  BY <1>8 DEF RunnerOf
<1>. QED BY <1>8, <1>10, <1>11, <1>12, <1>13, <1>14, LivesOn

\* Resize (Epoch.resize): refused while the scheduler is held, or the cut of the resize.
LEMMA ResizeKeeps ==
  ASSUME EpochInv, NEW room, Resize(room)
  PROVE  Kept
<1>0. /\ Sound(e) /\ Shape(e) /\ Queues(e) /\ Alive(e) /\ Threads /\ browser = "idle"
      /\ e.active = NoCut /\ e.protocol.state = "live" /\ e.start.ownership = "exact"
      /\ ~e.scheduler.stopped
      /\ UNCHANGED <<attached, stray, canceled, starter, reader, acker, histories, owner, finalizer>>
  BY DEF EpochInv, Sound, EndOK, Resize, BrowserFrame, Alive, mayInput
<1>1. e.sent \in Nat /\ e.modes \in Nat /\ e.resizes \in Nat
  BY <1>0, ShapeFields
<1>2. PICK n, k, z, a : n = e.sent /\ k = e.modes /\ z = e.resizes + 1 /\ a = e.admitted
  OBVIOUS
<1>3. PICK s : s = counted(e, n, k, z, a)
  OBVIOUS
<1>4. s = [e EXCEPT !.resizes = @ + 1]
  BY <1>0, <1>2, <1>3 DEF counted, Shape
<1>5. n \in Nat /\ k \in Nat /\ z \in Nat
  BY <1>1, <1>2
<1>6. Shape(s) /\ Queues(s) /\ SameCore(e, s)
  BY <1>0, <1>3, <1>5, CountsOn
<1>7. Sound(s)
  BY <1>0, <1>6, CoreSound
<1>8. CASE busy(s)
  <2>1. PICK c \in Busy : c = "resizeBusy"
    BY DEF Busy
  <2>2. e' = requestTerminal(s, c, room) /\ launches(e') /\ UNCHANGED <<runner, browser>>
    BY <1>4, <1>8, <2>1 DEF Resize, Becomes, launches
  <2>3. e.scheduler.inFlight /\ e.start.phase # "binding" /\ histories' \in Nat
    BY <1>0, <1>6, <1>8, LivePrepared DEF busy, SameCore, Threads
  <2>. QED BY <1>0, <1>6, <1>7, <2>2, <2>3, BusyEnds
<1>9. CASE ~busy(s)
  <2>1. ~e.scheduler.inFlight
    BY <1>6, <1>9 DEF busy, SameCore
  <2>2. PICK kind, q : kind = "resize" /\ q = 0
    OBVIOUS
  <2>3. PICK t : t = newCut(beginExternal(s), kind, q)
    OBVIOUS
  <2>4. /\ e' = t /\ launches(e') /\ runner' = runs("browser", t, "resize")
        /\ browser' = "resizing"
    BY <1>4, <1>9, <2>2, <2>3 DEF Resize, Becomes, launches
  <2>5. /\ runner' = runs(RunnerOf(kind), t, IF kind = "resize" THEN "resize" ELSE "issue")
        /\ browser' = (IF kind = "resize" THEN "resizing" ELSE browser)
    BY <2>2, <2>4 DEF RunnerOf
  <2>6. kind \in {"resize", "history"} /\ q \in Nat /\ (kind = "history") = (q # 0) /\ q = 0
    BY <2>2
  <2>7. /\ s.active = e.active /\ s.start = e.start /\ s.terminal = e.terminal
        /\ s.cleanup = e.cleanup /\ s.scheduler = e.scheduler /\ s.protocol = e.protocol
    BY <1>6 DEF SameCore
  <2>8. histories' \in Nat
    BY <1>0 DEF Threads
  <2>. QED BY <1>0, <1>7, <2>1, <2>3, <2>4, <2>5, <2>6, <2>7, <2>8, OpensKeeps
<1>. QED BY <1>8, <1>9

\* source.resize returns to the goroutine of its cut, or fails.
LEMMA ResizeReturnsKeeps ==
  ASSUME EpochInv, NEW room, ResizeReturns(room)
  PROVE  Kept
<1>0. /\ Sound(e) /\ Threads /\ StarterOK /\ AttachedOK /\ RunnerOK /\ HoldOK /\ StrayOK
      /\ runner.pc = "resize" /\ runner # NoRunner
      /\ UNCHANGED <<attached, stray, canceled, starter, reader, acker, histories, finalizer>>
  BY DEF EpochInv, ResizeReturns, NoRunner
<1>1. CASE runner' = [runner EXCEPT !.pc = "issue"] /\ Becomes(e) /\ UNCHANGED <<owner, browser>>
  <2>1. /\ runner \in [who : {"start", "owner", "history", "browser"}, id : Nat \ {0},
                       pc : {"resize", "issue", "capture"}]
        /\ runner' \in [who : {"start", "owner", "history", "browser"}, id : Nat \ {0},
                       pc : {"resize", "issue", "capture"}]
        /\ runner'.who = runner.who /\ runner'.id = runner.id /\ runner'.pc = "issue"
        /\ runner' # NoRunner
    BY <1>0, <1>1 DEF Threads, NoRunner
  <2>2. e' = e /\ teardown' = teardown
    BY <1>0, <1>1 DEF Becomes, launches, AttachedOK, Alive
  <2>3. Threads'
    BY <1>0, <1>1, <2>1, <2>2 DEF Threads
  <2>4. StarterOK' /\ AttachedOK'
    BY <1>0, <2>2 DEF StarterOK, AttachedOK, Alive
  <2>5. RunnerOK'
    BY <1>0, <1>1, <2>1, <2>2 DEF RunnerOK
  <2>6. HoldOK'
    BY <1>0, <1>1, <2>2 DEF HoldOK, holders
  <2>7. Sound(e')
    BY <1>0, <2>2
  <2>8. StrayOK' /\ BusyIsAnothers
    BY <1>0, <2>2, StrayKeeps
  <2>. QED BY <2>3, <2>4, <2>5, <2>6, <2>7, <2>8 DEF EpochInv, Kept
<1>2. CASE Ends("fault", room) /\ RunnerEnds(FALSE)
  <2>1. PICK c \in Harmless : Ends(c, room)
    BY <1>2 DEF Harmless
  <2>. QED BY <1>0, <1>2, <2>1, RunnerEndsKeeps
<1>. QED BY <1>1, <1>2 DEF ResizeReturns

\* A step after the end that leaves the struct's end, Start and cleanup.
LEMMA DeadOn ==
  ASSUME EpochInv, ~Alive(e), Sound(e'), e'.terminal = e.terminal, e'.start = e.start,
         e'.cleanup = e.cleanup, launches(e'), UNCHANGED <<attached, stray, starter>>,
         reader' \in {"idle", "stopped"} \/ reader' = reader,
         runner' = runner \/ runner' = NoRunner,
         canceled' \in BOOLEAN, histories' \in Nat, finalizer' \in {"idle", "waiting", "returned"},
         owner' \in {"loop", "due", "cutting", "done"}, acker' \in {"idle", "complete"},
         browser' \in {"idle", "complete", "retry", "resizing", "abandoned", "abandonedDirty", "gone"},
         (owner' = "cutting") = (runner'.who = "owner"),
         (browser' = "resizing") = (runner'.who = "browser")
  PROVE  Kept
<1>0. Threads /\ AttachedOK
  BY DEF EpochInv
<1>1. teardown # "none" /\ (e.cleanup.complete => ~attached)
  BY <1>0 DEF AttachedOK
<1>2. teardown' = teardown
  BY <1>1 DEF launches
<1>3. reader' \in {"idle", "activity", "stopped"} /\ (reader' = "activity" => reader = "activity")
  BY <1>0 DEF Threads
<1>4. /\ runner' \in {NoRunner} \cup [who : {"start", "owner", "history", "browser"}, id : Nat \ {0},
                                      pc : {"resize", "issue", "capture"}]
      /\ runner'.pc = "resize" => runner'.who = "browser"
  BY <1>0 DEF Threads, NoRunner
<1>5. Threads'
  BY <1>0, <1>2, <1>3, <1>4 DEF Threads
<1>. QED BY <1>1, <1>2, <1>3, <1>5, EndedKeeps

\* A request to end an epoch that has ended changes nothing (requestTerminal).
LEMMA EndsNothing ==
  ASSUME NEW s, ~Alive(s), NEW cause, NEW room
  PROVE  requestTerminal(s, cause, room) = s
BY DEF requestTerminal, Alive

\* scheduler.Complete gives the scheduler back.
LEMMA CompleteHere ==
  ASSUME EpochInv, NEW retry \in BOOLEAN, e' = complete(e, retry), Alive(e) => e.scheduler.inFlight
  PROVE  /\ Sound(e') /\ e'.active = e.active /\ e'.start = e.start /\ e'.terminal = e.terminal
         /\ e'.cleanup = e.cleanup /\ e'.scheduler.inFlight = FALSE
         /\ e'.scheduler.due = e.scheduler.due
<1>0. Sound(e) /\ Shape(e) /\ e.scheduler \in SchedulerRec
  BY ShapeFields DEF EpochInv, Sound
<1>1. PICK d : d = [e.scheduler EXCEPT !.inFlight = FALSE,
                                       !.dirty = @ \/ (retry /\ ~e.given.outputOwner)]
  OBVIOUS
<1>2. e' = scheduled(e, d)
  BY <1>0, <1>1 DEF complete, scheduled, Shape
<1>3. /\ d \in SchedulerRec /\ d.inFlight = FALSE /\ d.due = e.scheduler.due
      /\ d.stopped = e.scheduler.stopped
  <2>1. PICK x \in BOOLEAN : x = (e.scheduler.dirty \/ (retry /\ ~e.given.outputOwner))
    OBVIOUS
  <2>2. d = [e.scheduler EXCEPT !.inFlight = FALSE, !.dirty = x]
    BY <1>1, <2>1
  <2>. QED BY <1>0, <2>2 DEF SchedulerRec
<1>4. Alive(e) => ~d.stopped
  BY <1>0, <1>3 DEF Sound, EndOK
<1>5. Alive(e) /\ e.start.phase \in {"none", "binding"} => ~d.inFlight /\ ~d.dirty
  BY <1>0 DEF Sound, CutOK
<1>6. /\ Sound(e') /\ e'.scheduler = d /\ e'.active = e.active /\ e'.start = e.start
      /\ e'.terminal = e.terminal /\ e'.cleanup = e.cleanup
  BY <1>2, <1>3, <1>4, <1>5, ScheduledHere
<1>. QED BY <1>3, <1>6

\* The Complete owed by the goroutine that answered a cut (Epoch.HandleFrame,
\* the journal writer's READY) and by abandonResize: it holds the scheduler.
LEMMA CompletionKeeps ==
  ASSUME EpochInv, NEW cause, NEW failure, NEW room, NEW retry \in BOOLEAN,
         IF e.scheduler.stopped THEN Ends(failure, room)
         ELSE IF ~e.scheduler.inFlight THEN Ends(cause, room)
         ELSE Becomes(complete(e, retry)),
         \/ browser \in Completing /\ browser' = "idle" /\ acker' = acker
         \/ acker = "complete" /\ acker' = "idle" /\ browser' = browser,
         histories' \in Nat,
         UNCHANGED <<attached, stray, canceled, starter, runner, reader, owner, finalizer>>
  PROVE  Kept
<1>0. Sound(e) /\ Threads /\ StarterOK /\ AttachedOK /\ RunnerOK /\ HoldOK /\ StrayOK
  BY DEF EpochInv
<1>1. /\ browser' \in {"idle", "complete", "retry", "resizing", "abandoned", "abandonedDirty", "gone"}
      /\ acker' \in {"idle", "complete"}
      /\ (browser' = "resizing") = (browser = "resizing")
      /\ canceled' \in BOOLEAN /\ finalizer' \in {"idle", "waiting", "returned"}
      /\ owner' \in {"loop", "due", "cutting", "done"}
  BY <1>0 DEF Threads, Completing
<1>2. (owner' = "cutting") = (runner'.who = "owner")
      /\ (browser' = "resizing") = (runner'.who = "browser")
  BY <1>0, <1>1 DEF RunnerOK
<1>3. CASE ~Alive(e)
  <2>1. launches(e') /\ (e' = e \/ e' = complete(e, retry))
    BY <1>3, EndsNothing DEF Ends, Becomes, launches
  <2>2. CASE e' = e
    BY <1>0, <1>1, <1>2, <1>3, <2>1, <2>2, DeadOn
  <2>3. CASE e' = complete(e, retry)
    <3>1. /\ Sound(e') /\ e'.active = e.active /\ e'.start = e.start /\ e'.terminal = e.terminal
          /\ e'.cleanup = e.cleanup
      BY <1>3, <2>3, CompleteHere
    <3>. QED BY <1>1, <1>2, <1>3, <2>1, <3>1, DeadOn
  <2>. QED BY <2>1, <2>2, <2>3
<1>4. CASE Alive(e)
  <2>1. ~e.scheduler.stopped /\ holders = (IF e.scheduler.inFlight THEN 1 ELSE 0)
    BY <1>0, <1>4 DEF Sound, EndOK, HoldOK
  <2>2. e.scheduler.inFlight /\ holders = 1
    BY <2>1 DEF holders, Completing
  <2>3. e' = complete(e, retry) /\ launches(e')
    BY <2>1, <2>2 DEF Becomes, launches
  <2>4. /\ Sound(e') /\ e'.active = e.active /\ e'.start = e.start /\ e'.terminal = e.terminal
        /\ e'.cleanup = e.cleanup /\ e'.scheduler.inFlight = FALSE
        /\ e'.scheduler.due = e.scheduler.due
    BY <2>2, <2>3, CompleteHere
  <2>5. Alive(e')
    BY <1>4, <2>4 DEF Alive
  <2>6. holders' = 0
    BY <2>2, <2>4 DEF holders, Completing
  <2>7. HoldOK'
    BY <2>4, <2>6 DEF HoldOK
  <2>8. RunnerOK'
    BY <1>0, <1>2, <1>4, <2>4, <2>5 DEF RunnerOK
  <2>9. /\ runner' \in {NoRunner} \cup [who : {"start", "owner", "history", "browser"}, id : Nat \ {0},
                                        pc : {"resize", "issue", "capture"}]
        /\ runner'.pc = "resize" => runner'.who = "browser"
    BY <1>0 DEF Threads
  <2>. QED BY <1>1, <1>4, <2>3, <2>4, <2>5, <2>7, <2>8, <2>9, LivesOn
<1>. QED BY <1>3, <1>4

\* Complete: what follows the answer to a cut.
LEMMA CompleteKeeps ==
  ASSUME EpochInv, NEW room, Complete(room)
  PROVE  Kept
<1>0. /\ histories \in Nat
      /\ UNCHANGED <<attached, stray, canceled, starter, runner, reader, owner, finalizer>>
  BY DEF EpochInv, Threads, Complete
<1>1. PICK pc \in {browser, acker} :
        /\ completes(pc, room)
        /\ \/ browser \in Completing /\ browser' = "idle" /\ acker' = acker
           \/ acker = "complete" /\ acker' = "idle" /\ browser' = browser
  BY DEF Complete, Completing
<1>2. PICK retry \in BOOLEAN : retry = (pc = "retry")
  OBVIOUS
<1>3. /\ IF e.scheduler.stopped THEN Ends("fault", room)
         ELSE IF ~e.scheduler.inFlight THEN Ends("scheduler", room)
         ELSE Becomes(complete(e, retry))
      /\ histories' \in Nat
  BY <1>0, <1>1, <1>2 DEF completes
<1>4. PICK failure, cause : failure = "fault" /\ cause = "scheduler"
  OBVIOUS
<1>5. IF e.scheduler.stopped THEN Ends(failure, room)
      ELSE IF ~e.scheduler.inFlight THEN Ends(cause, room)
      ELSE Becomes(complete(e, retry))
  BY <1>3, <1>4
<1>. QED BY <1>0, <1>1, <1>3, <1>5, CompletionKeeps

\* AbandonCompletes: what follows an abandoned resize.
LEMMA AbandonCompletesKeeps ==
  ASSUME EpochInv, NEW room, AbandonCompletes(room)
  PROVE  Kept
<1>0. /\ histories' \in Nat /\ browser \in Completing /\ browser' = "idle" /\ acker' = acker
      /\ UNCHANGED <<attached, stray, canceled, starter, runner, reader, owner, finalizer>>
  BY DEF EpochInv, Threads, AbandonCompletes, Completing
<1>1. PICK retry \in BOOLEAN : retry = (browser = "abandonedDirty")
  OBVIOUS
<1>2. PICK failure, cause : failure = "fault" /\ cause = "scheduler"
  OBVIOUS
<1>3. IF e.scheduler.stopped THEN Ends(failure, room)
      ELSE IF ~e.scheduler.inFlight THEN Ends(cause, room)
      ELSE Becomes(complete(e, retry))
  BY <1>1, <1>2 DEF AbandonCompletes
<1>. QED BY <1>0, <1>3, CompletionKeeps

\* abandonResize: a refused resize gives its output back and finishes its cut.
LEMMA AbandonResizeKeeps ==
  ASSUME EpochInv, NEW room, AbandonResize(room)
  PROVE  Kept
<1>0. /\ Sound(e) /\ Threads /\ RunnerOK /\ HoldOK /\ runner.pc = "resize" /\ runner # NoRunner
      /\ runner.who = "browser" /\ runner' = NoRunner
      /\ UNCHANGED <<attached, stray, canceled, starter, reader, acker, histories, owner, finalizer>>
  BY DEF EpochInv, Threads, AbandonResize, NoRunner
<1>1. runner'.who = "none" /\ runner'.pc = "none" /\ owner # "cutting" /\ browser = "resizing"
  BY <1>0 DEF NoRunner, RunnerOK
<1>2. CASE ~Alive(e)
  <2>1. e' = e /\ launches(e') /\ browser' = "idle"
    BY <1>2 DEF AbandonResize, Becomes, launches, Alive
  <2>2. /\ (owner' = "cutting") = (runner'.who = "owner")
        /\ (browser' = "resizing") = (runner'.who = "browser")
    BY <1>0, <1>1, <2>1
  <2>3. /\ Sound(e') /\ e'.terminal = e.terminal /\ e'.start = e.start /\ e'.cleanup = e.cleanup
    BY <1>0, <2>1
  <2>. QED BY <1>0, <1>2, <2>1, <2>2, <2>3, DeadOn DEF Threads
<1>3. CASE Alive(e)
  <2>1. /\ e.active # NoCut /\ e.active.id = runner.id /\ ~e.active.captured /\ ~e.active.issued
        /\ e.active.kind = "resize"
    BY <1>0, <1>3 DEF RunnerOK
  <2>2. e.active \in CutRec /\ e.start.ownership = "exact" /\ ~e.active.prepared
        /\ e.start.phase = "prepared" /\ e.protocol.state = "live" /\ e.active.pre \in Ordinary
    <3>1. e.active \in CutRec /\ e.start.ownership = "exact"
      BY <1>0, <2>1, CutStarted
    <3>2. ~e.active.prepared
      BY <1>0, <1>3, <2>1 DEF Sound, CutOK
    <3>3. e.start.phase = "prepared" /\ e.protocol.state = "live"
      BY <1>0, <1>3, <2>1, <3>2 DEF Sound, CutOK
    <3>. QED BY <3>1, <3>2, <3>3 DEF CutRec
  <2>3. PICK o : o = IF e.active.pre = <<>> THEN ok(e) ELSE sendLive(e, e.active.pre, room)
    OBVIOUS
  <2>4. /\ o.err \in {"ok"} \cup Harmless /\ Sound(o.s) /\ SameCore(e, o.s)
        /\ o.err # "ok" => o.s = e
    <3>1. CASE e.active.pre = <<>>
      BY <1>0, <2>3, <3>1 DEF ok, SameCore
    <3>2. CASE e.active.pre # <<>>
      <4>1. PICK data : data = e.active.pre
        OBVIOUS
      <4>2. o = sendLive(e, data, room)
        BY <2>3, <3>2, <4>1
      <4>. QED BY <1>0, <2>2, <4>2, SendsLive
    <3>. QED BY <3>1, <3>2
  <2>5. IF o.err # "ok" THEN Becomes(resolve(o, room)) /\ browser' = "idle"
        ELSE /\ Becomes(finishActive(o.s))
             /\ browser' \in {"abandoned", "abandonedDirty"}
    BY <1>3, <2>1, <2>3 DEF AbandonResize, Alive
  <2>6. CASE o.err # "ok"
    <3>1. PICK c \in Harmless : c = o.err
      BY <2>4, <2>6
    <3>2. Ends(c, room) /\ browser' = "idle"
      BY <2>4, <2>5, <2>6, <3>1 DEF resolve, Ends
    <3>3. RunnerEnds(FALSE)
      BY <1>0, <3>2 DEF RunnerEnds
    <3>. QED BY <1>0, <3>1, <3>2, <3>3, RunnerEndsKeeps
  <2>7. CASE o.err = "ok"
    <3>1. PICK m : m = o.s
      OBVIOUS
    <3>2. Sound(m) /\ SameCore(e, m)
      BY <2>4, <3>1
    <3>3. /\ Alive(m) /\ m.active = e.active /\ m.start = e.start /\ m.protocol = e.protocol
          /\ m.scheduler = e.scheduler /\ m.cleanup = e.cleanup
      BY <1>3, <3>2 DEF SameCore, Alive
    <3>4. /\ Shape(m) /\ Queues(m) /\ StartOK(m) /\ EndOK(m) /\ CutOK(m) /\ HistoryOK(m)
      BY <3>2, <3>3 DEF Sound
    <3>5. /\ m.protocol.cut # 0 /\ m.protocol.cut <= m.nextCut
          /\ m.lastHistoryRequest <= m.given.max.history
          /\ m.pendingHistory # 0 => m.pendingHistory = m.lastHistoryRequest
                                     /\ m.phase[m.pendingHistory] = "queued"
      BY <2>2, <3>3, <3>4 DEF CutOK, HistoryOK
    <3>6. PICK t : t = finishActive(m)
      OBVIOUS
    <3>7. /\ Sound(t) /\ Alive(t) /\ t.active = NoCut
          /\ t.start = m.start /\ t.cleanup = m.cleanup /\ t.scheduler = m.scheduler
      BY <2>1, <2>2, <3>3, <3>4, <3>5, <3>6, FinishesCut
    <3>8. e' = t /\ launches(e') /\ browser' \in {"abandoned", "abandonedDirty"}
      BY <2>5, <2>7, <3>1, <3>6 DEF Becomes, launches
    <3>9. RunnerOK'
      BY <1>0, <1>1, <3>7, <3>8 DEF RunnerOK
    <3>10. HoldOK'
      <4>1. holders' = holders
        BY <1>0, <1>1, <2>1, <3>3, <3>7, <3>8 DEF holders
      <4>. QED BY <1>0, <1>3, <3>3, <3>7, <3>8, <4>1 DEF HoldOK
    <3>11. /\ Sound(e') /\ Alive(e') /\ e'.start = e.start /\ e'.cleanup = e.cleanup
      BY <3>3, <3>7, <3>8
    <3>12. /\ canceled' \in BOOLEAN /\ histories' \in Nat /\ finalizer' \in {"idle", "waiting", "returned"}
           /\ owner' \in {"loop", "due", "cutting", "done"} /\ acker' \in {"idle", "complete"}
           /\ browser' \in {"idle", "complete", "retry", "resizing", "abandoned", "abandonedDirty", "gone"}
      BY <1>0, <3>8 DEF Threads
    <3>. QED BY <1>0, <1>1, <1>3, <3>8, <3>9, <3>10, <3>11, <3>12, LivesOn
  <2>. QED BY <2>6, <2>7
<1>. QED BY <1>2, <1>3

\* The answer to a prepared cut: its goroutine owes a Complete, or the epoch ends.
LEMMA AnswersKeeps ==
  ASSUME EpochInv, e.active # NoCut, e.active.prepared, NEW o,
         o.err \in {"ok"} \cup Harmless, o.err # "ok" => o.s = e,
         o.err = "ok" => /\ Sound(o.s) /\ Alive(o.s) /\ o.s.active = NoCut
                         /\ o.s.start = e.start /\ o.s.cleanup = e.cleanup
                         /\ o.s.scheduler = e.scheduler,
         NEW room, NEW next, o.err = "ok" => next \in {"complete", "retry"},
         serverSide(e.active) => next = "complete", Answers(o, room, next)
  PROVE  Kept
<1>0. /\ Sound(e) /\ Threads /\ RunnerOK /\ HoldOK /\ StrayOK
      /\ UNCHANGED <<attached, stray, canceled, starter, runner, reader, histories, owner, finalizer>>
  BY DEF EpochInv, Answers
<1>1. Alive(e) /\ e.active \in CutRec /\ e.start.ownership = "exact"
  BY <1>0, CutStarted
<1>2. e.active.captured
  BY <1>0, <1>1 DEF Sound, CutOK
<1>3. runner = NoRunner /\ runner.who = "none" /\ runner.pc = "none"
  BY <1>0, <1>1, <1>2 DEF RunnerOK, NoRunner
<1>4. CASE o.err # "ok"
  <2>1. PICK c \in Harmless : c = o.err
    BY <1>4
  <2>2. e' = requestTerminal(e, c, room) /\ launches(e')
    BY <1>4, <2>1 DEF Answers, resolve, Becomes, launches
  <2>3. UNCHANGED <<browser, acker>>
    BY <1>4 DEF Answers
  <2>4. SameCore(e, e) /\ e.start.ownership # "pending"
    BY <1>1 DEF SameCore
  <2>. QED BY <1>0, <1>1, <2>1, <2>2, <2>3, <2>4, FrameEnds
<1>5. CASE o.err = "ok"
  <2>1. e' = o.s /\ launches(e')
    BY <1>5 DEF Answers, resolve, Becomes, launches
  <2>2. \/ acker = "idle" /\ acker' = "complete" /\ browser' = browser
        \/ browser = "idle" /\ browser' \in {"complete", "retry"} /\ acker' = acker
    BY <1>5 DEF Answers
  <2>3. /\ Sound(e') /\ Alive(e') /\ e'.active = NoCut /\ e'.start = e.start
        /\ e'.cleanup = e.cleanup /\ e'.scheduler = e.scheduler
    BY <1>5, <2>1
  <2>4. /\ canceled' \in BOOLEAN /\ histories' \in Nat /\ finalizer' \in {"idle", "waiting", "returned"}
        /\ owner' \in {"loop", "due", "cutting", "done"} /\ acker' \in {"idle", "complete"}
        /\ browser' \in {"idle", "complete", "retry", "resizing", "abandoned", "abandonedDirty", "gone"}
        /\ (browser' = "resizing") = (browser = "resizing")
        /\ runner' = NoRunner /\ runner'.who = "none" /\ runner'.pc = "none"
    BY <1>0, <1>3, <2>2 DEF Threads
  <2>5. RunnerOK'
    BY <1>0, <1>3, <2>3, <2>4 DEF RunnerOK
  <2>6. HoldOK'
    <3>1. holders' = holders
      BY <1>0, <2>2, <2>3 DEF holders
    <3>. QED BY <1>0, <1>1, <2>3, <3>1 DEF HoldOK
  <2>. QED BY <1>0, <1>1, <2>1, <2>3, <2>4, <2>5, <2>6, LivesOn
<1>. QED BY <1>4, <1>5

\* READY commits the prepared cut.
LEMMA ReadyKeeps ==
  ASSUME EpochInv, NEW room, Ready(room)
  PROVE  Kept
<1>1. e.active # NoCut /\ e.active.prepared /\ Sound(e)
  BY DEF EpochInv, Ready
<1>2. PICK commit, outcome, next : /\ commit = <<frame("COMMIT", e.active.id, <<>>)>>
                                   /\ outcome = "committed" /\ next = "complete"
  OBVIOUS
<1>3. PICK o : o = answered(e, commit, outcome, room)
  OBVIOUS
<1>4. Answers(o, room, next)
  BY <1>2, <1>3 DEF Ready
<1>5. outcome \in Progress
  BY <1>2 DEF Progress
<1>6. /\ o.err \in {"ok"} \cup Harmless
      /\ o.err # "ok" => o.s = e
      /\ o.err = "ok" =>
           /\ Sound(o.s) /\ Alive(o.s) /\ o.s.active = NoCut
           /\ o.s.start = e.start /\ o.s.cleanup = e.cleanup
           /\ o.s.scheduler = e.scheduler
  BY <1>1, <1>3, <1>5, AnswersCut
<1>. QED BY <1>1, <1>2, <1>4, <1>6, AnswersKeeps

\* DEFER lets an ongoing or a history cut go, and fails the epoch otherwise.
LEMMA DeferKeeps ==
  ASSUME EpochInv, NEW room, Defer(room)
  PROVE  Kept
<1>1. e.active # NoCut /\ e.active.prepared /\ Sound(e) /\ ~serverSide(e.active)
  BY DEF EpochInv, Defer
<1>2. CASE e.active.kind \in {"ongoing", "history"}
  <2>1. PICK commit, outcome, next :
          /\ commit = <<>> /\ outcome = "deferred"
          /\ next = IF e.active.kind = "ongoing" THEN "retry" ELSE "complete"
    OBVIOUS
  <2>2. PICK o : o = answered(e, commit, outcome, room)
    OBVIOUS
  <2>3. Answers(o, room, next)
    BY <1>2, <2>1, <2>2 DEF Defer
  <2>4. outcome \in Progress
    BY <2>1 DEF Progress
  <2>5. /\ o.err \in {"ok"} \cup Harmless
        /\ o.err # "ok" => o.s = e
        /\ o.err = "ok" =>
             /\ Sound(o.s) /\ Alive(o.s) /\ o.s.active = NoCut
             /\ o.s.start = e.start /\ o.s.cleanup = e.cleanup
             /\ o.s.scheduler = e.scheduler
    BY <1>1, <2>2, <2>4, AnswersCut
  <2>. QED BY <1>1, <2>1, <2>3, <2>5, AnswersKeeps
<1>3. CASE e.active.kind \notin {"ongoing", "history"}
  <2>1. PICK o, next : o = fails(e, "fault") /\ next = "idle"
    OBVIOUS
  <2>2. Answers(o, room, next)
    BY <1>3, <2>1 DEF Defer
  <2>3. o.err \in Harmless /\ o.err # "ok" /\ o.s = e
    BY <2>1 DEF fails, Harmless
  <2>. QED BY <1>1, <2>2, <2>3, AnswersKeeps
<1>. QED BY <1>2, <1>3

\* The outcome of a browser's frame that concerns neither the cut nor the
\* threads: it stands, or it ends the epoch.
LEMMA FrameKeeps ==
  ASSUME EpochInv, NEW o, o.err \in {"ok"} \cup Harmless, Shape(o.s), Queues(o.s),
         NearCore(e, o.s), NEW room, Becomes(resolve(o, room)),
         UNCHANGED <<attached, stray, canceled, starter, runner, reader, browser, acker, histories, owner, finalizer>>
  PROVE  Kept
<1>0. Sound(e) /\ Threads
  BY DEF EpochInv
<1>1. PICK m : m = o.s
  OBVIOUS
<1>2. Sound(m) /\ Moves(e, m)
  BY <1>0, <1>1, NearSound
<1>3. PICK t : t = resolve(o, room)
  OBVIOUS
<1>4. Sound(t) /\ Follows(e, t)
  BY <1>0, <1>1, <1>2, <1>3, Resolves
<1>5. e' = t /\ launches(e')
  BY <1>3 DEF Becomes, launches
<1>6. /\ canceled' \in BOOLEAN /\ histories' \in Nat
      /\ finalizer' \in {"idle", "waiting", "returned"}
      /\ reader' \in {"idle", "activity", "stopped"} /\ reader' = reader
  BY <1>0 DEF Threads
<1>. QED BY <1>4, <1>5, <1>6, FollowsKeeps

\* What a cut holds back for its answer: input and mode requests.
waits(s, q, r) == [s EXCEPT !.transitionalInput = q, !.transitionalModes = r]

\* Within their bounds they concern nothing else.
LEMMA WaitsOn ==
  ASSUME NEW s, Shape(s), Queues(s), NEW q, q \in Seq(Nat), NEW r, r \in Seq(Mode),
         Len(q) <= MaxInputFrames, Len(r) <= MaxTransitionalModeRequests,
         NEW t, t = waits(s, q, r)
  PROVE  Shape(t) /\ Queues(t) /\ SameCore(s, t)
<1>1. t = [s EXCEPT !.transitionalInput = q, !.transitionalModes = r]
  BY DEF waits
<1>2. Shape(t)
  BY <1>1 DEF Shape
<1>3. SameCore(s, t)
  BY <1>1 DEF Shape, SameCore
<1>4. t.input = s.input /\ t.transitionalInput = q /\ t.transitionalModes = r
  BY <1>1 DEF Shape
<1>. QED BY <1>2, <1>3, <1>4 DEF Queues

\* The protocol automaton takes a mode.
told(s, m) == [s EXCEPT !.protocol.mode = m]

\* Only its mode changes.
LEMMA Tells ==
  ASSUME NEW s, Shape(s), Queues(s), NEW m \in Mode, NEW t, t = told(s, m)
  PROVE  Shape(t) /\ Queues(t) /\ NearCore(s, t)
<1>0. s.protocol \in Protocol
  BY ShapeFields
<1>1. PICK p : p = [s.protocol EXCEPT !.mode = m]
  OBVIOUS
<1>2. p \in Protocol /\ p.state = s.protocol.state /\ p.cut = s.protocol.cut
  BY <1>0, <1>1 DEF Protocol
<1>3. t = [s EXCEPT !.protocol = p]
  BY <1>1 DEF told, Shape
<1>4. Shape(t)
  BY <1>2, <1>3 DEF Shape
<1>5. /\ t.protocol = p /\ t.input = s.input /\ t.transitionalInput = s.transitionalInput
      /\ t.transitionalModes = s.transitionalModes
      /\ t.given = s.given /\ t.scheduler = s.scheduler
      /\ t.active = s.active /\ t.nextCut = s.nextCut /\ t.start = s.start
      /\ t.terminal = s.terminal /\ t.pendingHistory = s.pendingHistory
      /\ t.lastHistoryRequest = s.lastHistoryRequest /\ t.phase = s.phase
      /\ t.cleanup = s.cleanup /\ t.ingress = s.ingress
  BY <1>3 DEF Shape
<1>. QED BY <1>2, <1>4, <1>5 DEF Queues, NearCore

\* A queue of input frames with room takes one more (inputPump.enqueue).
LEMMA Pumps ==
  ASSUME NEW s, Shape(s), Queues(s), mayPump(s, 1), NEW id, id \in Nat
  PROVE  LET t == pumped(s, <<id>>) IN Shape(t) /\ Queues(t) /\ SameCore(s, t)
<1>0. s.input \in InputRec /\ s.input.queue \in Seq(Nat)
  BY ShapeFields DEF InputRec
<1>1. PICK q : q = s.input.queue \o <<id>>
  OBVIOUS
<1>2. q \in Seq(Nat) /\ Len(q) = Len(s.input.queue) + 1
  BY <1>0, <1>1
<1>3. PICK i, t : i = [s.input EXCEPT !.queue = q] /\ t = [s EXCEPT !.input = i]
  OBVIOUS
<1>4. pumped(s, <<id>>) = t
  BY <1>1, <1>3 DEF pumped, Shape
<1>5. i \in InputRec /\ i.queue = q
  BY <1>0, <1>2, <1>3 DEF InputRec
<1>6. Shape(t)
  BY <1>3, <1>5 DEF Shape
<1>7. SameCore(s, t)
  BY <1>3 DEF Shape, SameCore
<1>8. /\ t.input = i /\ t.transitionalInput = s.transitionalInput
      /\ t.transitionalModes = s.transitionalModes
  BY <1>3 DEF Shape
<1>9. Len(q) <= MaxInputFrames
  <2>1. PICK u \in Nat : u = Len(s.input.queue)
    BY <1>0
  <2>. QED BY <1>2, <2>1 DEF mayPump
<1>. QED BY <1>4, <1>5, <1>6, <1>7, <1>8, <1>9 DEF Queues

\* A MODE frame of the browser: held by a cut, refused, or told to the pump and sent back.
LEMMA ModeRequestKeeps ==
  ASSUME EpochInv, NEW m \in Mode, NEW room, ModeRequest(m, room)
  PROVE  Kept
<1>0. /\ Sound(e) /\ Shape(e) /\ Queues(e)
      /\ UNCHANGED <<attached, stray, canceled, starter, runner, reader, browser, acker, histories, owner, finalizer>>
  BY DEF EpochInv, Sound, ModeRequest
<1>1. e.sent \in Nat /\ e.modes \in Nat /\ e.resizes \in Nat
  BY <1>0, ShapeFields
<1>2. PICK n, k, z, a : n = e.sent /\ k = e.modes + 1 /\ z = e.resizes /\ a = e.admitted
  OBVIOUS
<1>3. PICK s : s = counted(e, n, k, z, a)
  OBVIOUS
<1>4. s = [e EXCEPT !.modes = @ + 1]
  BY <1>0, <1>2, <1>3 DEF counted, Shape
<1>5. n \in Nat /\ k \in Nat /\ z \in Nat
  BY <1>1, <1>2
<1>6. Shape(s) /\ Queues(s) /\ SameCore(e, s)
  BY <1>0, <1>3, <1>5, CountsOn
<1>7. NearCore(e, s)
  BY <1>6, NearSame
<1>8. s.transitionalInput \in Seq(Nat) /\ s.transitionalModes \in Seq(Mode)
  BY <1>6, ShapeFields
<1>9. MaxTransitionalModeRequests \in Nat
  BY EpochAssumption
<1>10. PICK o : o = IF transitional(s)
                    THEN IF Len(s.transitionalModes) >= MaxTransitionalModeRequests
                         THEN fails(s, "fault")
                         ELSE ok([s EXCEPT !.transitionalModes = Append(@, m)])
                    ELSE IF s.input.closed THEN fails(s, "fault")
                    ELSE IF ~mayEnqueue(s, <<modeFrame(m)>>, room)
                         THEN fails(setMode(s, "observe"), "fault")
                    ELSE ok(enqueued([setMode(s, m) EXCEPT !.protocol.mode = m], <<modeFrame(m)>>))
  OBVIOUS
<1>11. Becomes(resolve(o, room))
  BY <1>4, <1>10 DEF ModeRequest
<1>12. o.err \in {"ok"} \cup Harmless /\ Shape(o.s) /\ Queues(o.s) /\ NearCore(e, o.s)
  <2>1. CASE o = fails(s, "fault")
    BY <1>6, <1>7, <2>1 DEF fails, Harmless
  <2>2. CASE Len(s.transitionalModes) < MaxTransitionalModeRequests
             /\ o = ok([s EXCEPT !.transitionalModes = Append(@, m)])
    <3>1. PICK q, r : q = s.transitionalInput /\ r = Append(s.transitionalModes, m)
      OBVIOUS
    <3>2. r \in Seq(Mode) /\ Len(r) = Len(s.transitionalModes) + 1 /\ q \in Seq(Nat)
      BY <1>8, <3>1
    <3>3. Len(r) <= MaxTransitionalModeRequests /\ Len(q) <= MaxInputFrames
      <4>1. PICK u \in Nat : u = Len(s.transitionalModes)
        BY <1>8
      <4>. QED BY <1>6, <1>9, <2>2, <3>1, <3>2, <4>1 DEF Queues
    <3>4. PICK t : t = waits(s, q, r)
      OBVIOUS
    <3>5. Shape(t) /\ Queues(t) /\ SameCore(s, t)
      BY <1>6, <3>2, <3>3, <3>4, WaitsOn
    <3>6. NearCore(s, t)
      BY <3>5, NearSame
    <3>7. NearCore(e, t)
      BY <1>7, <3>6, NearOn
    <3>8. t = [s EXCEPT !.transitionalModes = Append(@, m)]
      BY <1>6, <3>1, <3>4 DEF waits, Shape
    <3>9. o.err = "ok" /\ o.s = t
      BY <2>2, <3>8 DEF ok
    <3>. QED BY <3>5, <3>7, <3>9
  <2>3. CASE o = fails(setMode(s, "observe"), "fault")
    <3>1. PICK q \in Mode : q = "observe"
      BY DEF Mode
    <3>2. PICK t : t = setMode(s, q)
      OBVIOUS
    <3>3. Shape(t) /\ Queues(t) /\ SameCore(s, t)
      BY <1>6, <3>2, SetsMode
    <3>4. NearCore(s, t)
      BY <3>3, NearSame
    <3>5. NearCore(e, t)
      BY <1>7, <3>4, NearOn
    <3>6. o.err = "fault" /\ o.s = t
      BY <2>3, <3>1, <3>2 DEF fails
    <3>. QED BY <3>3, <3>5, <3>6 DEF Harmless
  <2>4. CASE o = ok(enqueued([setMode(s, m) EXCEPT !.protocol.mode = m], <<modeFrame(m)>>))
    <3>1. PICK b : b = setMode(s, m)
      OBVIOUS
    <3>2. Shape(b) /\ Queues(b) /\ SameCore(s, b)
      BY <1>6, <3>1, SetsMode
    <3>3. PICK d : d = told(b, m)
      OBVIOUS
    <3>4. Shape(d) /\ Queues(d) /\ NearCore(b, d)
      BY <3>2, <3>3, Tells
    <3>5. PICK f : f = <<modeFrame(m)>>
      OBVIOUS
    <3>6. PICK t : t = enqueued(d, f)
      OBVIOUS
    <3>7. Shape(t) /\ Queues(t) /\ SameCore(d, t)
      BY <3>4, <3>6, EnqueuedShape
    <3>8. NearCore(s, b) /\ NearCore(d, t)
      BY <3>2, <3>7, NearSame
    <3>9. NearCore(e, b)
      BY <1>7, <3>8, NearOn
    <3>10. NearCore(e, d)
      BY <3>4, <3>9, NearOn
    <3>11. NearCore(e, t)
      BY <3>8, <3>10, NearOn
    <3>12. o.err = "ok" /\ o.s = t
      BY <2>4, <3>1, <3>3, <3>5, <3>6 DEF ok, told
    <3>. QED BY <3>7, <3>11, <3>12
  <2>5. Len(s.transitionalModes) \in Nat
    BY <1>8
  <2>. QED BY <1>9, <1>10, <2>1, <2>2, <2>3, <2>4, <2>5
<1>. QED BY <1>0, <1>11, <1>12, FrameKeeps

\* An INPUT frame of the browser: held by a cut, refused, or given to the pump.
LEMMA InputKeeps ==
  ASSUME EpochInv, NEW room, Input(room)
  PROVE  Kept
<1>0. /\ Sound(e) /\ Shape(e) /\ Queues(e)
      /\ UNCHANGED <<attached, stray, canceled, starter, runner, reader, browser, acker, histories, owner, finalizer>>
  BY DEF EpochInv, Sound, Input
<1>1. e.sent \in Nat /\ e.modes \in Nat /\ e.resizes \in Nat
  BY <1>0, ShapeFields
<1>2. PICK n, k, z, a, c :
        n = e.sent + 1 /\ k = e.modes /\ z = e.resizes /\ a = e.admitted /\ c = a \cup {n}
  OBVIOUS
<1>3. PICK s : s = counted(e, n, k, z, a)
  OBVIOUS
<1>14. PICK g : g = counted(e, n, k, z, c)
  OBVIOUS
<1>4. s = [e EXCEPT !.sent = n] /\ g = [s EXCEPT !.admitted = @ \cup {n}]
  BY <1>0, <1>2, <1>3, <1>14 DEF counted, Shape
<1>5. n \in Nat /\ k \in Nat /\ z \in Nat
  BY <1>1, <1>2
<1>15. Shape(e) /\ Queues(e)
  BY <1>0
<1>16. Shape(s) /\ Queues(s) /\ SameCore(e, s)
  BY <1>3, <1>5, <1>15, CountsOn
<1>17. s.input = e.input /\ s.transitionalInput = e.transitionalInput
  BY <1>3, <1>15 DEF counted, Shape
<1>6. /\ Shape(s) /\ Queues(s) /\ SameCore(e, s) /\ s.input = e.input
      /\ s.transitionalInput = e.transitionalInput
  BY <1>16, <1>17
<1>18. Shape(g) /\ Queues(g) /\ SameCore(e, g)
  BY <1>5, <1>14, <1>15, CountsOn
<1>19. g.input = e.input /\ g.transitionalInput = e.transitionalInput
  BY <1>14, <1>15 DEF counted, Shape
<1>7. Shape(g) /\ Queues(g) /\ SameCore(e, g) /\ g.input = e.input
      /\ g.transitionalInput = e.transitionalInput
  BY <1>18, <1>19
<1>8. NearCore(e, s) /\ NearCore(e, g)
  BY <1>6, <1>7, NearSame
<1>9. /\ g.transitionalInput \in Seq(Nat) /\ g.transitionalModes \in Seq(Mode)
      /\ s.transitionalInput = g.transitionalInput
  BY <1>6, <1>7, ShapeFields
<1>10. MaxInputFrames \in Nat
  BY EpochAssumption
<1>11. PICK o : o = IF transitional(s)
                    THEN IF s.protocol.mode # "control" THEN ok(s)
                         ELSE IF Len(s.transitionalInput) >= MaxInputFrames THEN fails(s, "fault")
                         ELSE ok([g EXCEPT !.transitionalInput = Append(@, n)])
                    ELSE IF ~mayInput(s.protocol) THEN ok(s)
                    ELSE IF ~mayPump(s, 1) THEN fails(s, "fault")
                    ELSE ok(pumped(g, <<n>>))
  OBVIOUS
<1>12. Becomes(resolve(o, room))
  BY <1>2, <1>4, <1>11 DEF Input
<1>13. o.err \in {"ok"} \cup Harmless /\ Shape(o.s) /\ Queues(o.s) /\ NearCore(e, o.s)
  <2>1. CASE o = fails(s, "fault")
    BY <1>6, <1>8, <2>1 DEF fails, Harmless
  <2>2. CASE o = ok(s)
    BY <1>6, <1>8, <2>2 DEF ok
  <2>3. CASE Len(g.transitionalInput) < MaxInputFrames
             /\ o = ok([g EXCEPT !.transitionalInput = Append(@, n)])
    <3>1. PICK q, r : q = Append(g.transitionalInput, n) /\ r = g.transitionalModes
      OBVIOUS
    <3>2. q \in Seq(Nat) /\ Len(q) = Len(g.transitionalInput) + 1 /\ r \in Seq(Mode)
      BY <1>5, <1>9, <3>1
    <3>3. Len(r) <= MaxTransitionalModeRequests /\ Len(q) <= MaxInputFrames
      <4>1. PICK u \in Nat : u = Len(g.transitionalInput)
        BY <1>9
      <4>. QED BY <1>7, <1>10, <2>3, <3>1, <3>2, <4>1 DEF Queues
    <3>4. PICK t : t = waits(g, q, r)
      OBVIOUS
    <3>5. Shape(t) /\ Queues(t) /\ SameCore(g, t)
      BY <1>7, <3>2, <3>3, <3>4, WaitsOn
    <3>6. NearCore(g, t)
      BY <3>5, NearSame
    <3>7. NearCore(e, t)
      BY <1>8, <3>6, NearOn
    <3>8. t = [g EXCEPT !.transitionalInput = Append(@, n)]
      BY <1>7, <3>1, <3>4 DEF waits, Shape
    <3>9. o.err = "ok" /\ o.s = t
      BY <2>3, <3>8 DEF ok
    <3>. QED BY <3>5, <3>7, <3>9
  <2>4. CASE mayPump(s, 1) /\ o = ok(pumped(g, <<n>>))
    <3>1. mayPump(g, 1)
      BY <1>6, <1>7, <2>4 DEF mayPump
    <3>2. PICK t : t = pumped(g, <<n>>)
      OBVIOUS
    <3>3. Shape(t) /\ Queues(t) /\ SameCore(g, t)
      BY <1>5, <1>7, <3>1, <3>2, Pumps
    <3>4. NearCore(g, t)
      BY <3>3, NearSame
    <3>5. NearCore(e, t)
      BY <1>8, <3>4, NearOn
    <3>6. o.err = "ok" /\ o.s = t
      BY <2>4, <3>2 DEF ok
    <3>. QED BY <3>3, <3>5, <3>6
  <2>5. Len(g.transitionalInput) \in Nat
    BY <1>9
  <2>. QED BY <1>9, <1>10, <1>11, <2>1, <2>2, <2>3, <2>4, <2>5
<1>. QED BY <1>0, <1>12, <1>13, FrameKeeps

\* The history requests of an epoch: the pending one, the newest, and how far each came.
asking(s, r, l, f) == [s EXCEPT !.pendingHistory = r, !.lastHistoryRequest = l, !.phase = f]

\* How far each history request came.
Depths(s) == [1..s.given.max.history -> Progress]

\* They concern nothing else.
LEMMA Asks ==
  ASSUME NEW s, Shape(s), Queues(s), NEW r, r \in Nat, NEW l, l \in Nat,
         NEW f, f \in Depths(s), NEW t, t = asking(s, r, l, f)
  PROVE  /\ Shape(t) /\ Queues(t)
         /\ t.pendingHistory = r /\ t.lastHistoryRequest = l /\ t.phase = f
         /\ t.given = s.given /\ t.protocol = s.protocol /\ t.scheduler = s.scheduler
         /\ t.active = s.active /\ t.nextCut = s.nextCut /\ t.start = s.start
         /\ t.terminal = s.terminal /\ t.cleanup = s.cleanup /\ t.ingress = s.ingress
<1>1. t = [s EXCEPT !.pendingHistory = r, !.lastHistoryRequest = l, !.phase = f]
  BY DEF asking
<1>2. Shape(t)
  BY <1>1 DEF Shape, Depths
<1>3. /\ t.input = s.input /\ t.transitionalInput = s.transitionalInput
      /\ t.transitionalModes = s.transitionalModes
  BY <1>1 DEF Shape
<1>4. /\ t.pendingHistory = r /\ t.lastHistoryRequest = l /\ t.phase = f
      /\ t.given = s.given /\ t.protocol = s.protocol /\ t.scheduler = s.scheduler
      /\ t.active = s.active /\ t.nextCut = s.nextCut /\ t.start = s.start
      /\ t.terminal = s.terminal /\ t.cleanup = s.cleanup /\ t.ingress = s.ingress
  BY <1>1 DEF Shape
<1>. QED BY <1>2, <1>3, <1>4 DEF Queues

\* A live epoch stays sound when its history requests agree with its cut.
LEMMA AsksSound ==
  ASSUME NEW s, Sound(s), Alive(s), NEW r, r \in Nat, NEW l, l \in Nat,
         NEW f, f \in Depths(s), NEW t, t = asking(s, r, l, f),
         HistoryOK(t)
  PROVE  /\ Sound(t) /\ Alive(t) /\ t.protocol = s.protocol /\ t.scheduler = s.scheduler
         /\ t.active = s.active /\ t.start = s.start /\ t.terminal = s.terminal
         /\ t.cleanup = s.cleanup
         /\ t.pendingHistory = r /\ t.lastHistoryRequest = l /\ t.phase = f
<1>0. Shape(s) /\ Queues(s) /\ StartOK(s) /\ EndOK(s) /\ CutOK(s)
  BY DEF Sound
<1>1. /\ Shape(t) /\ Queues(t)
      /\ t.pendingHistory = r /\ t.lastHistoryRequest = l /\ t.phase = f
      /\ t.given = s.given /\ t.protocol = s.protocol /\ t.scheduler = s.scheduler
      /\ t.active = s.active /\ t.nextCut = s.nextCut /\ t.start = s.start
      /\ t.terminal = s.terminal /\ t.cleanup = s.cleanup /\ t.ingress = s.ingress
  BY <1>0, Asks
<1>2. Alive(t)
  BY <1>1 DEF Alive
<1>3. StartOK(t)
  BY <1>0, <1>1 DEF StartOK, Alive
<1>4. EndOK(t)
  BY <1>0, <1>1 DEF EndOK, Alive
<1>5. CutOK(t)
  BY <1>0, <1>1 DEF CutOK
<1>. QED BY <1>1, <1>2, <1>3, <1>4, <1>5 DEF Sound

\* A HISTORY request of the browser: the newest is the pending one, and the
\* one it overtakes is superseded (RequestHistory).
LEMMA RequestHistoryKeeps ==
  ASSUME EpochInv, NEW room, RequestHistory(room)
  PROVE  Kept
<1>0. /\ Sound(e) /\ Shape(e) /\ Alive(e) /\ HistoryOK(e) /\ Threads /\ RunnerOK /\ HoldOK /\ StrayOK
      /\ UNCHANGED <<attached, stray, canceled, starter, runner, reader, browser, acker, owner, finalizer>>
  BY DEF EpochInv, Sound, RequestHistory, BrowserFrame, Alive
<1>1. /\ e.pendingHistory \in Nat /\ e.lastHistoryRequest \in Nat
      /\ e.phase \in [1..e.given.max.history -> Progress]
      /\ e.active \in {NoCut} \cup CutRec /\ e.given.max.history \in Nat
  <2>1. e.given \in Scenario
    BY <1>0, ShapeFields, EpochAssumption
  <2>2. e.given.max.history \in Nat
    BY <2>1 DEF Scenario, Bounds
  <2>. QED BY <1>0, <2>2, ShapeFields
<1>2. PICK q, r : q = e.pendingHistory /\ r = e.lastHistoryRequest + 1
  OBVIOUS
<1>3. q \in Nat /\ r \in 1..e.given.max.history /\ r \in Nat
  BY <1>1, <1>2 DEF RequestHistory
<1>4. q # 0 => q = e.lastHistoryRequest /\ e.phase[q] = "queued"
  BY <1>0, <1>2 DEF HistoryOK
<1>5. PICK f : f = IF q = 0 THEN [e.phase EXCEPT ![r] = "queued"]
                   ELSE [e.phase EXCEPT ![r] = "queued", ![q] = "superseded"]
  OBVIOUS
<1>6. f \in [1..e.given.max.history -> Progress] /\ f \in Depths(e)
  <2>1. "queued" \in Progress /\ "superseded" \in Progress
    BY DEF Progress
  <2>. QED BY <1>1, <1>5, <2>1 DEF Depths
<1>7. f[r] = "queued" /\ \A x \in 1..e.given.max.history : x # r /\ x # q => f[x] = e.phase[x]
  <2>1. q # 0 => q # r
    BY <1>1, <1>2, <1>4
  <2>. QED BY <1>1, <1>3, <1>5, <2>1
<1>8. PICK t : t = asking(e, r, r, f)
  OBVIOUS
<1>9. e' = t /\ launches(e') /\ histories' = histories + 1
  <2>1. CASE q = 0
    <3>1. t = [e EXCEPT !.pendingHistory = r, !.lastHistoryRequest = r, !.phase[r] = "queued"]
      BY <1>0, <1>5, <1>8, <2>1 DEF asking, Shape
    <3>. QED BY <1>2, <2>1, <3>1 DEF RequestHistory, Becomes, launches
  <2>2. CASE q # 0
    <3>1. PICK u : u = [e EXCEPT !.pendingHistory = r, !.lastHistoryRequest = r, !.phase[r] = "queued"]
      OBVIOUS
    <3>2. [u EXCEPT !.phase[q] = "superseded"] = t
      BY <1>0, <1>1, <1>3, <1>5, <1>8, <2>2, <3>1 DEF asking, Shape
    <3>3. e.phase[q] = "queued"
      BY <1>4, <2>2
    <3>. QED BY <1>2, <2>2, <3>1, <3>2, <3>3 DEF RequestHistory, Becomes, launches
  <2>. QED BY <2>1, <2>2
<1>10. /\ t.pendingHistory = r /\ t.lastHistoryRequest = r /\ t.phase = f
       /\ t.given = e.given /\ t.active = e.active
  BY <1>0, <1>8 DEF asking, Shape
<1>11. HistoryOK(t)
  <2>1. e.active # NoCut =>
          /\ (e.active.kind = "history") = (e.active.request # 0)
          /\ e.active.request \in Nat
          /\ e.active.request # 0 =>
               /\ e.active.request <= e.lastHistoryRequest
               /\ e.phase[e.active.request] = IF e.active.issued THEN "issued" ELSE "queued"
               /\ q # 0 => e.active.request < q
    BY <1>0, <1>1, <1>2 DEF HistoryOK, CutRec
  <2>2. ASSUME e.active # NoCut, e.active.request # 0
        PROVE  /\ e.active.request < r
               /\ f[e.active.request] = IF e.active.issued THEN "issued" ELSE "queued"
    <3>1. PICK x : x = e.active.request
      OBVIOUS
    <3>2. x \in Nat /\ x # 0 /\ x <= e.lastHistoryRequest /\ (q # 0 => x < q)
      BY <2>1, <2>2, <3>1
    <3>3. x < r /\ x # q /\ x \in 1..e.given.max.history
      BY <1>1, <1>2, <1>3, <3>2
    <3>4. f[x] = e.phase[x]
      BY <1>7, <3>3
    <3>. QED BY <2>1, <2>2, <3>1, <3>3, <3>4
  <2>3. r <= t.given.max.history
    BY <1>3, <1>10
  <2>4. /\ t.lastHistoryRequest <= t.given.max.history
        /\ t.pendingHistory # 0 =>
             t.pendingHistory = t.lastHistoryRequest /\ t.phase[t.pendingHistory] = "queued"
    BY <1>7, <1>10, <2>3
  <2>5. t.active # NoCut =>
          /\ (t.active.kind = "history") = (t.active.request # 0)
          /\ t.active.request # 0 =>
               /\ t.active.request < r
               /\ t.phase[t.active.request] = IF t.active.issued THEN "issued" ELSE "queued"
    BY <1>10, <2>1, <2>2
  <2>6. t.active # NoCut => t.active.request \in Nat
    BY <1>10, <2>1
  <2>7. t.active # NoCut /\ t.active.request # 0 =>
          /\ t.active.request <= t.lastHistoryRequest
          /\ t.pendingHistory # 0 => t.active.request < t.pendingHistory
    BY <1>3, <1>10, <2>5, <2>6
  <2>. QED BY <2>4, <2>5, <2>7 DEF HistoryOK
<1>17. Sound(e) /\ Alive(e) /\ r \in Nat /\ f \in Depths(e)
  BY <1>0, <1>3, <1>6
<1>12. /\ Sound(t) /\ Alive(t) /\ t.protocol = e.protocol /\ t.scheduler = e.scheduler
       /\ t.active = e.active /\ t.start = e.start /\ t.terminal = e.terminal
       /\ t.cleanup = e.cleanup
  BY <1>8, <1>11, <1>17, AsksSound
<1>13. RunnerOK'
  BY <1>0, <1>9, <1>12 DEF RunnerOK
<1>14. HoldOK'
  <2>1. holders' = holders
    BY <1>0, <1>9, <1>12 DEF holders
  <2>. QED BY <1>0, <1>9, <1>12, <2>1 DEF HoldOK
<1>15. /\ canceled' \in BOOLEAN /\ histories' \in Nat /\ finalizer' \in {"idle", "waiting", "returned"}
       /\ owner' \in {"loop", "due", "cutting", "done"} /\ acker' \in {"idle", "complete"}
       /\ browser' \in {"idle", "complete", "retry", "resizing", "abandoned", "abandonedDirty", "gone"}
       /\ runner' \in {NoRunner} \cup [who : {"start", "owner", "history", "browser"}, id : Nat \ {0},
                                       pc : {"resize", "issue", "capture"}]
       /\ runner'.pc = "resize" => runner'.who = "browser"
  BY <1>0, <1>9 DEF Threads
<1>16. Sound(e') /\ Alive(e') /\ e'.start = e.start /\ e'.cleanup = e.cleanup
  BY <1>9, <1>12
<1>. QED BY <1>0, <1>9, <1>13, <1>14, <1>15, <1>16, LivesOn

\* beginPendingHistory: nothing is to be done, the scheduler is held, or the cut of the request.
LEMMA BeginPendingHistoryKeeps ==
  ASSUME EpochInv, NEW room, BeginPendingHistory(room)
  PROVE  Kept
<1>0. /\ Sound(e) /\ Shape(e) /\ Threads
      /\ UNCHANGED <<attached, stray, canceled, starter, reader, browser, acker, owner, finalizer>>
  BY DEF EpochInv, Sound, BeginPendingHistory
<1>1. histories' \in Nat
  BY <1>0 DEF Threads, BeginPendingHistory
<1>2. /\ canceled' \in BOOLEAN /\ finalizer' \in {"idle", "waiting", "returned"}
      /\ reader' \in {"idle", "activity", "stopped"} /\ reader' = reader
  BY <1>0 DEF Threads
<1>3. PICK r : r = e.pendingHistory
  OBVIOUS
<1>4. CASE \/ e.terminal # NoTerminal \/ r = 0 \/ e.active # NoCut
           \/ e.protocol.state # "live" \/ e.start.ownership # "exact"
  <2>1. e' = e /\ launches(e') /\ runner' = runner
    BY <1>3, <1>4 DEF BeginPendingHistory, Becomes, launches
  <2>2. Follows(e, e)
    BY DEF Follows
  <2>. QED BY <1>0, <1>1, <1>2, <2>1, <2>2, FollowsKeeps
<1>5. CASE ~(\/ e.terminal # NoTerminal \/ r = 0 \/ e.active # NoCut
             \/ e.protocol.state # "live" \/ e.start.ownership # "exact")
  <2>1. Alive(e) /\ HistoryOK(e) /\ e.active = NoCut /\ e.protocol.state = "live"
        /\ ~e.scheduler.stopped
    BY <1>0, <1>5 DEF Alive, Sound, EndOK
  <2>2. r = e.lastHistoryRequest /\ e.phase[r] = "queued" /\ r # 0
    BY <1>3, <1>5, <2>1 DEF HistoryOK
  <2>3. /\ r \in Nat /\ e.lastHistoryRequest \in Nat
        /\ e.phase \in [1..e.given.max.history -> Progress]
    BY <1>0, <1>3, ShapeFields
  <2>4. CASE busy(e)
    <3>1. PICK c \in Busy : c = "historyBusy"
      BY DEF Busy
    <3>3. e' = requestTerminal(e, c, room) /\ launches(e') /\ runner' = runner
      BY <1>3, <1>5, <2>2, <2>4, <3>1 DEF BeginPendingHistory, Ends, Becomes, launches
    <3>4. /\ e.scheduler.inFlight /\ e.start.phase # "binding" /\ e.start.ownership = "exact"
          /\ SameCore(e, e)
      BY <1>0, <1>5, <2>1, <2>4, LivePrepared DEF busy, SameCore
    <3>. QED BY <1>0, <1>1, <2>1, <3>1, <3>3, <3>4, BusyEnds
  <2>5. CASE ~busy(e)
    <3>1. PICK l, f, z : l = e.lastHistoryRequest /\ f = e.phase /\ z = 0
      OBVIOUS
    <3>2. PICK s : s = asking(e, z, l, f)
      OBVIOUS
    <3>3. s = [e EXCEPT !.pendingHistory = 0]
      BY <1>0, <3>1, <3>2 DEF asking, Shape
    <3>4. /\ s.pendingHistory = 0 /\ s.lastHistoryRequest = l /\ s.active = NoCut
          /\ s.given = e.given
      BY <1>0, <2>1, <3>1, <3>3 DEF Shape
    <3>5. HistoryOK(s)
      BY <2>1, <3>1, <3>4 DEF HistoryOK
    <3>6. z \in Nat /\ l \in Nat /\ f \in Depths(e)
      BY <2>3, <3>1 DEF Depths
    <3>15. Sound(e) /\ Alive(e) /\ z \in Nat /\ l \in Nat /\ f \in Depths(e)
      BY <1>0, <2>1, <3>6
    <3>7. /\ Sound(s) /\ Alive(s) /\ s.protocol = e.protocol /\ s.scheduler = e.scheduler
          /\ s.active = e.active /\ s.start = e.start /\ s.terminal = e.terminal
          /\ s.cleanup = e.cleanup
          /\ s.lastHistoryRequest = l /\ s.phase = f
      BY <3>2, <3>5, <3>15, AsksSound
    <3>8. PICK kind : kind = "history"
      OBVIOUS
    <3>9. PICK t : t = newCut(beginExternal(s), kind, r)
      OBVIOUS
    <3>10. e' = t /\ launches(e') /\ runner' = runs("history", t, "issue")
      BY <1>3, <1>5, <2>2, <2>5, <3>3, <3>8, <3>9 DEF BeginPendingHistory, Becomes, launches
    <3>11. /\ runner' = runs(RunnerOf(kind), t, IF kind = "resize" THEN "resize" ELSE "issue")
           /\ browser' = (IF kind = "resize" THEN "resizing" ELSE browser)
      BY <1>0, <3>8, <3>10 DEF RunnerOf
    <3>12. /\ kind \in {"resize", "history"} /\ kind = "history"
           /\ (kind = "history") = (r # 0)
      BY <2>2, <3>8
    <3>13. r # 0 => /\ r <= s.lastHistoryRequest /\ s.phase[r] = "queued"
                    /\ s.pendingHistory = 0
      BY <2>2, <2>3, <3>1, <3>4, <3>7
    <3>14. ~e.scheduler.inFlight
      BY <2>5 DEF busy
    <3>. QED BY <1>0, <1>1, <2>1, <2>3, <3>7, <3>9, <3>10, <3>11, <3>12, <3>13, <3>14, OpensKeeps
  <2>. QED BY <2>4, <2>5
<1>. QED BY <1>4, <1>5

\* A step of the pump, the transport or the caller that concerns only queues.
LEMMA QuietKeeps ==
  ASSUME EpochInv, NEW t, Shape(t), Queues(t), SameCore(e, t), e' = t,
         UNCHANGED <<attached, stray, threads>>, canceled' \in BOOLEAN
  PROVE  Kept
<1>0. Sound(e) /\ Threads /\ AttachedOK
  BY DEF EpochInv
<1>1. Sound(t)
  BY <1>0, CoreSound
<1>2. Moves(e, t)
  BY MovesSame
<1>3. Follows(e, t)
  BY <1>2 DEF Follows, Moves, Alive
<1>4. t.terminal = e.terminal
  BY DEF SameCore
<1>5. /\ UNCHANGED <<attached, stray, starter, runner, browser, acker, owner>>
      /\ histories' \in Nat /\ finalizer' \in {"idle", "waiting", "returned"}
      /\ reader' \in {"idle", "activity", "stopped"} /\ reader' = reader
      /\ teardown' = teardown
  BY <1>0 DEF threads, Threads
<1>6. launches(e')
  BY <1>0, <1>4, <1>5 DEF launches, AttachedOK, Alive
<1>. QED BY <1>1, <1>3, <1>5, <1>6, FollowsKeeps

\* What the pump moves: its queue, what was settled and what was typed.
pumping(s, i, d, y) == [s EXCEPT !.input = i, !.settled = d, !.typed = y]

\* It concerns nothing else.
LEMMA PumpsOn ==
  ASSUME NEW s, Shape(s), Queues(s), NEW i, i \in InputRec, Len(i.queue) <= MaxInputFrames,
         NEW d, NEW y, NEW t, t = pumping(s, i, d, y)
  PROVE  Shape(t) /\ Queues(t) /\ SameCore(s, t)
<1>1. t = [s EXCEPT !.input = i, !.settled = d, !.typed = y]
  BY DEF pumping
<1>2. Shape(t)
  <2>1. PICK u : u = [s EXCEPT !.input = i]
    OBVIOUS
  <2>2. Shape(u)
    BY <2>1 DEF Shape
  <2>3. PICK v : v = [u EXCEPT !.settled = d]
    OBVIOUS
  <2>4. Shape(v)
    BY <2>2, <2>3 DEF Shape
  <2>5. t = [v EXCEPT !.typed = y]
    BY <1>1, <2>1, <2>3 DEF Shape
  <2>. QED BY <2>4, <2>5 DEF Shape
<1>3. SameCore(s, t)
  BY <1>1 DEF Shape, SameCore
<1>4. /\ t.input = i /\ t.transitionalInput = s.transitionalInput
      /\ t.transitionalModes = s.transitionalModes
  BY <1>1 DEF Shape
<1>. QED BY <1>2, <1>3, <1>4 DEF Queues

\* inputPump.run takes the head of its queue.
LEMMA PumpTakesKeeps ==
  ASSUME EpochInv, PumpTakes
  PROVE  Kept
<1>0. /\ Shape(e) /\ Queues(e) /\ Threads /\ e.input \in InputRec
      /\ UNCHANGED <<attached, stray, canceled, threads>>
  BY ShapeFields DEF EpochInv, Sound, PumpTakes
<1>1. e.input.queue \in Seq(Nat) /\ e.input.queue # <<>>
  BY <1>0 DEF InputRec, PumpTakes
<1>2. PICK h, q : h = Head(e.input.queue) /\ q = Tail(e.input.queue)
  OBVIOUS
<1>3. h \in Nat /\ q \in Seq(Nat) /\ Len(q) = Len(e.input.queue) - 1
  BY <1>1, <1>2
<1>4. PICK i, d, y : /\ i = [e.input EXCEPT !.writing = h, !.queue = q, !.revoked = FALSE]
                     /\ d = e.settled /\ y = e.typed
  OBVIOUS
<1>5. i \in InputRec /\ i.queue = q
  BY <1>0, <1>3, <1>4 DEF InputRec
<1>6. Len(i.queue) <= MaxInputFrames
  <2>1. PICK u \in Nat : u = Len(e.input.queue)
    BY <1>1
  <2>2. MaxInputFrames \in Nat
    BY EpochAssumption
  <2>. QED BY <1>0, <1>3, <1>5, <2>1, <2>2 DEF Queues
<1>7. PICK t : t = pumping(e, i, d, y)
  OBVIOUS
<1>8. e' = t
  BY <1>0, <1>2, <1>4, <1>7 DEF PumpTakes, pumping, Shape
<1>9. Shape(t) /\ Queues(t) /\ SameCore(e, t)
  BY <1>0, <1>5, <1>6, <1>7, PumpsOn
<1>10. canceled' \in BOOLEAN
  BY <1>0 DEF Threads
<1>. QED BY <1>0, <1>8, <1>9, <1>10, QuietKeeps

\* A settled epoch is as it was, but for what was settled.
LEMMA SettlesHere ==
  ASSUME NEW s, Shape(s), Queues(s), NEW ids, NEW t, t = settle(s, ids)
  PROVE  Shape(t) /\ Queues(t) /\ SameCore(s, t) /\ t.input = s.input /\ t.typed = s.typed
<1>1. /\ Shape(t) /\ t.input = s.input /\ SameCore(s, t)
      /\ t.transitionalInput = s.transitionalInput
      /\ t.transitionalModes = s.transitionalModes
  BY SettleShape
<1>2. t.typed = s.typed
  BY DEF settle, Shape
<1>. QED BY <1>1, <1>2 DEF Queues

\* A write of the pump returns; a revoked one may not have reached the PTY.
LEMMA PumpWritesKeeps ==
  ASSUME EpochInv, PumpWrites
  PROVE  Kept
<1>0. /\ Shape(e) /\ Queues(e) /\ Threads /\ e.input \in InputRec
      /\ UNCHANGED <<attached, stray, canceled, threads>>
  BY ShapeFields DEF EpochInv, Sound, PumpWrites
<1>1. PICK w : w = {e.input.writing}
  OBVIOUS
<1>2. PICK s : s = settle(e, w)
  OBVIOUS
<1>3. Shape(s) /\ Queues(s) /\ SameCore(e, s) /\ s.input = e.input /\ s.typed = e.typed
  BY <1>0, <1>2, SettlesHere
<1>4. PICK reached : e' = [s EXCEPT !.input.writing = 0,
                                    !.typed = IF reached THEN Append(@, e.input.writing) ELSE @]
  BY <1>1, <1>2 DEF PumpWrites
<1>5. PICK i, d, y : /\ i = [s.input EXCEPT !.writing = 0] /\ d = s.settled
                     /\ y = IF reached THEN Append(s.typed, e.input.writing) ELSE s.typed
  OBVIOUS
<1>6. PICK t : t = pumping(s, i, d, y)
  OBVIOUS
<1>7. e' = t
  BY <1>3, <1>4, <1>5, <1>6 DEF pumping, Shape
<1>8. i \in InputRec /\ i.queue = e.input.queue
  BY <1>0, <1>3, <1>5 DEF InputRec
<1>9. Len(i.queue) <= MaxInputFrames
  BY <1>0, <1>8 DEF Queues
<1>10. Shape(t) /\ Queues(t) /\ SameCore(s, t)
  BY <1>3, <1>6, <1>8, <1>9, PumpsOn
<1>11. SameCore(e, t)
  BY <1>3, <1>10 DEF SameCore
<1>12. canceled' \in BOOLEAN
  BY <1>0 DEF Threads
<1>. QED BY <1>0, <1>7, <1>10, <1>11, <1>12, QuietKeeps

\* inputPump.failLocked: what is queued is discarded with the failed write.
LEMMA PumpFailsKeeps ==
  ASSUME EpochInv, PumpFails
  PROVE  Kept
<1>0. /\ Shape(e) /\ Queues(e) /\ Threads
      /\ UNCHANGED <<attached, stray, canceled, threads>>
  BY DEF EpochInv, Sound, PumpFails
<1>1. PICK w : w = {e.input.writing}
  OBVIOUS
<1>2. PICK s : s = settle(e, w)
  OBVIOUS
<1>3. Shape(s) /\ Queues(s) /\ SameCore(e, s)
  BY <1>0, <1>2, SettlesHere
<1>4. PICK v : v = revoke(s)
  OBVIOUS
<1>5. Shape(v) /\ Queues(v) /\ SameCore(s, v)
  BY <1>3, <1>4, RevokeShape
<1>6. e' = [v EXCEPT !.input.writing = 0, !.input.closed = TRUE, !.input.failed = TRUE]
  BY <1>1, <1>2, <1>4 DEF PumpFails
<1>7. PICK i, d, y : /\ i = [v.input EXCEPT !.writing = 0, !.closed = TRUE, !.failed = TRUE]
                     /\ d = v.settled /\ y = v.typed
  OBVIOUS
<1>8. PICK t : t = pumping(v, i, d, y)
  OBVIOUS
<1>9. e' = t
  BY <1>5, <1>6, <1>7, <1>8 DEF pumping, Shape
<1>10. i \in InputRec /\ i.queue = v.input.queue
  BY <1>5, <1>7, ShapeFields DEF InputRec
<1>11. Len(i.queue) <= MaxInputFrames
  BY <1>5, <1>10 DEF Queues
<1>12. Shape(t) /\ Queues(t) /\ SameCore(v, t)
  BY <1>5, <1>8, <1>10, <1>11, PumpsOn
<1>13. SameCore(e, t)
  BY <1>3, <1>5, <1>12 DEF SameCore
<1>14. canceled' \in BOOLEAN
  BY <1>0 DEF Threads
<1>. QED BY <1>0, <1>9, <1>12, <1>13, <1>14, QuietKeeps

\* The egress queue is closed.
closing(s, g) == [s EXCEPT !.egress = g]

\* It concerns nothing else.
LEMMA ClosesEgress ==
  ASSUME NEW s, Shape(s), Queues(s), NEW g, NEW t, t = closing(s, g)
  PROVE  Shape(t) /\ Queues(t) /\ SameCore(s, t)
<1>1. t = [s EXCEPT !.egress = g]
  BY DEF closing
<1>2. Shape(t)
  BY <1>1 DEF Shape
<1>3. SameCore(s, t)
  BY <1>1 DEF Shape, SameCore
<1>4. /\ t.input = s.input /\ t.transitionalInput = s.transitionalInput
      /\ t.transitionalModes = s.transitionalModes
  BY <1>1 DEF Shape
<1>. QED BY <1>2, <1>3, <1>4 DEF Queues

\* The transport fails.
LEMMA EgressFailsKeeps ==
  ASSUME EpochInv, EgressFails
  PROVE  Kept
<1>0. /\ Shape(e) /\ Queues(e) /\ Threads /\ UNCHANGED <<attached, stray, canceled, threads>>
  BY DEF EpochInv, Sound, EgressFails
<1>1. PICK g : g = [e.egress EXCEPT !.closed = TRUE, !.failed = TRUE]
  OBVIOUS
<1>2. PICK t : t = closing(e, g)
  OBVIOUS
<1>3. e' = t
  BY <1>0, <1>1, <1>2 DEF EgressFails, closing, Shape
<1>4. Shape(t) /\ Queues(t) /\ SameCore(e, t)
  BY <1>0, <1>2, ClosesEgress
<1>5. canceled' \in BOOLEAN
  BY <1>0 DEF Threads
<1>. QED BY <1>0, <1>3, <1>4, <1>5, QuietKeeps

\* The caller's context is done.
LEMMA CancelKeeps ==
  ASSUME EpochInv, Cancel
  PROVE  Kept
<1>0. Shape(e) /\ Queues(e) /\ SameCore(e, e)
  BY DEF EpochInv, Sound, SameCore
<1>1. PICK t : t = e
  OBVIOUS
<1>2. e' = t /\ UNCHANGED <<attached, stray, threads>> /\ canceled' \in BOOLEAN
  BY <1>1 DEF Cancel
<1>. QED BY <1>0, <1>1, <1>2, QuietKeeps

\* What cleanup reports.
cleaned(s, c) == [s EXCEPT !.cleanup = c]

\* It concerns nothing else of an ended epoch.
LEMMA CleansOn ==
  ASSUME NEW s, Sound(s), ~Alive(s), NEW c, c \in CleanupRec, NEW t, t = cleaned(s, c)
  PROVE  Sound(t) /\ ~Alive(t) /\ t.start = s.start /\ t.terminal = s.terminal /\ t.cleanup = c
<1>0. Shape(s) /\ Queues(s) /\ StartOK(s) /\ EndOK(s)
  BY DEF Sound
<1>1. t = [s EXCEPT !.cleanup = c]
  BY DEF cleaned
<1>2. Shape(t)
  BY <1>0, <1>1 DEF Shape
<1>3. /\ t.input = s.input /\ t.transitionalInput = s.transitionalInput
      /\ t.transitionalModes = s.transitionalModes
      /\ t.active = s.active /\ t.start = s.start /\ t.terminal = s.terminal /\ t.cleanup = c
  BY <1>0, <1>1 DEF Shape
<1>4. Queues(t) /\ ~Alive(t)
  BY <1>0, <1>3 DEF Queues, Alive
<1>5. StartOK(t) /\ EndOK(t)
  BY <1>0, <1>3, <1>4 DEF StartOK, EndOK, Alive
<1>. QED BY <1>2, <1>3, <1>4, <1>5 DEF Sound

\* Past the launch of teardown the epoch has ended, and what it owns is settled.
LEMMA TornDown ==
  ASSUME EpochInv, teardown # "none"
  PROVE  /\ ~Alive(e) /\ Sound(e) /\ Shape(e) /\ Queues(e) /\ Threads
         /\ (e.cleanup.complete => ~attached)
         /\ (owner = "cutting") = (runner.who = "owner")
         /\ (browser = "resizing") = (runner.who = "browser")
         /\ e.terminal.ownership \in {"none", "exact"}
         /\ e.terminal.ownership = "none" => ~attached
<1>0. Sound(e) /\ Threads /\ StarterOK /\ AttachedOK /\ RunnerOK
  BY DEF EpochInv
<1>1. ~Alive(e)
  BY <1>0 DEF AttachedOK
<1>2. e.start \in StartRec
  BY <1>0, ShapeFields DEF Sound
<1>3. e.terminal.ownership = e.start.ownership /\ e.start.ownership # "pending"
  BY <1>0, <1>1, <1>2 DEF Sound, EndOK, StartOK
<1>4. e.terminal.ownership \in {"none", "exact"}
  BY <1>2, <1>3 DEF StartRec, Ownership
<1>5. e.terminal.ownership = "none" => ~attached
  BY <1>0, <1>3 DEF AttachedOK, StarterOK
<1>. QED BY <1>0, <1>1, <1>4, <1>5 DEF Sound, AttachedOK, RunnerOK

\* executeCleanup: exact IDs are released, or the failure is kept.
LEMMA CleansUpHere ==
  ASSUME EpochInv, teardown # "none", NEW works \in BOOLEAN, CleansUp(works)
  PROVE  /\ Sound(e') /\ ~Alive(e') /\ e'.start = e.start /\ e'.terminal = e.terminal
         /\ attached' \in BOOLEAN /\ (attached' => attached)
         /\ (e'.cleanup.complete => ~attached')
<1>0. /\ ~Alive(e) /\ Sound(e) /\ Shape(e) /\ Threads
      /\ (e.cleanup.complete => ~attached)
      /\ e.terminal.ownership \in {"none", "exact"}
      /\ e.terminal.ownership = "none" => ~attached
  BY TornDown
<1>1. e.cleanup \in CleanupRec
  BY <1>0, ShapeFields
<1>2. PICK c : c = IF e.terminal.ownership = "none" \/ works
                   THEN [e.cleanup EXCEPT !.complete = TRUE, !.err = FALSE]
                   ELSE [e.cleanup EXCEPT !.err = TRUE]
  OBVIOUS
<1>3. c \in CleanupRec
  BY <1>1, <1>2 DEF CleanupRec
<1>4. PICK t : t = cleaned(e, c)
  OBVIOUS
<1>5. e' = t
  BY <1>0, <1>2, <1>4 DEF CleansUp, executeCleanup, cleaned, Shape
<1>6. Sound(t) /\ ~Alive(t) /\ t.start = e.start /\ t.terminal = e.terminal /\ t.cleanup = c
  BY <1>0, <1>3, <1>4, CleansOn
<1>7. attached' = IF e.terminal.ownership = "exact" /\ works THEN FALSE ELSE attached
  BY DEF CleansUp
<1>8. attached' \in BOOLEAN /\ (attached' => attached)
  BY <1>0, <1>7 DEF Threads
<1>9. c.complete => ~attached'
  <2>1. CASE e.terminal.ownership = "none" \/ works
    BY <1>0, <1>7, <1>8, <2>1
  <2>2. CASE ~(e.terminal.ownership = "none" \/ works)
    <3>1. c.complete = e.cleanup.complete
      BY <1>1, <1>2, <2>2 DEF CleanupRec
    <3>. QED BY <1>0, <1>8, <3>1
  <2>. QED BY <2>1, <2>2
<1>. QED BY <1>5, <1>6, <1>8, <1>9

\* A step of teardown: each waits for the part it stops.
LEMMA TeardownKeeps ==
  ASSUME EpochInv, Teardown
  PROVE  Kept
<1>0. /\ teardown # "none"
      /\ UNCHANGED <<stray, canceled, starter, runner, reader, browser, acker, histories, owner, finalizer>>
  BY DEF Teardown
<1>1. /\ ~Alive(e) /\ Sound(e) /\ Shape(e) /\ Queues(e) /\ Threads
      /\ (e.cleanup.complete => ~attached)
      /\ (owner = "cutting") = (runner.who = "owner")
      /\ (browser = "resizing") = (runner.who = "browser")
  BY <1>0, TornDown
<1>2. teardown' \in {"input", "owner", "gate", "cleanup", "done"}
  BY DEF Teardown
<1>3. /\ Sound(e') /\ e'.terminal = e.terminal /\ e'.start = e.start
      /\ attached' \in BOOLEAN /\ (attached' => attached)
      /\ (e'.cleanup.complete => ~attached')
  <2>1. CASE UNCHANGED <<e, attached>>
    BY <1>1, <2>1 DEF Threads
  <2>2. CASE e' = [e EXCEPT !.scheduler.stopped = TRUE] /\ UNCHANGED attached
    <3>1. PICK d : d = [e.scheduler EXCEPT !.stopped = TRUE]
      OBVIOUS
    <3>2. d \in SchedulerRec
      BY <1>1, <3>1, ShapeFields DEF SchedulerRec
    <3>3. e' = scheduled(e, d)
      BY <1>1, <2>2, <3>1 DEF scheduled, Shape
    <3>4. /\ Sound(e') /\ e'.start = e.start /\ e'.terminal = e.terminal
          /\ e'.cleanup = e.cleanup
      BY <1>1, <3>2, <3>3, ScheduledHere
    <3>. QED BY <1>1, <2>2, <3>4 DEF Alive, Threads
  <2>3. CASE e' = [e EXCEPT !.egress.closed = TRUE] /\ UNCHANGED attached
    <3>1. PICK g : g = [e.egress EXCEPT !.closed = TRUE]
      OBVIOUS
    <3>2. PICK t : t = closing(e, g)
      OBVIOUS
    <3>3. e' = t
      BY <1>1, <2>3, <3>1, <3>2 DEF closing, Shape
    <3>4. Shape(t) /\ Queues(t) /\ SameCore(e, t)
      BY <1>1, <3>2, ClosesEgress
    <3>5. Sound(t)
      BY <1>1, <3>4, CoreSound
    <3>. QED BY <1>1, <2>3, <3>3, <3>4, <3>5 DEF SameCore, Alive, Threads
  <2>4. CASE \E works \in BOOLEAN : CleansUp(works)
    <3>1. PICK works \in BOOLEAN : CleansUp(works)
      BY <2>4
    <3>. QED BY <1>0, <3>1, CleansUpHere
  <2>. QED BY <2>1, <2>2, <2>3, <2>4 DEF Teardown
<1>4. Threads'
  BY <1>0, <1>1, <1>2, <1>3 DEF Threads
<1>5. teardown' # "none"
  BY <1>2
<1>. QED BY <1>0, <1>1, <1>3, <1>4, <1>5, EndedKeeps

\* Finalize asks for the orderly end; output the framer still kept comes first.
LEMMA FinalizeKeeps ==
  ASSUME EpochInv, NEW room, Finalize(room)
  PROVE  Kept
<1>0. /\ Sound(e) /\ Shape(e) /\ Threads /\ browser = "idle" /\ finalizer' = "waiting"
      /\ browser' = "gone"
      /\ UNCHANGED <<attached, stray, canceled, starter, runner, reader, acker, histories, owner>>
  BY DEF EpochInv, Sound, Finalize
<1>1. ASSUME NEW t, Sound(t), Follows(e, t), e' = t, launches(e')
      PROVE  Kept
  <2>1. /\ owner' \in {"loop", "due", "cutting", "done"}
        /\ browser' \in {"idle", "complete", "retry", "resizing", "abandoned", "abandonedDirty", "gone"}
        /\ (browser' \in Completing) = (browser \in Completing)
        /\ (browser' = "resizing") = (browser = "resizing")
        /\ canceled' \in BOOLEAN /\ histories' \in Nat
        /\ finalizer' \in {"idle", "waiting", "returned"}
        /\ reader' \in {"idle", "activity", "stopped"} /\ reader' = reader
    BY <1>0 DEF Threads, Completing
  <2>. QED BY <1>0, <1>1, <2>1, FollowsWith
<1>2. CASE canceled \/ ~Alive(e)
  <2>1. PICK c \in Harmless : c = "canceled"
    BY DEF Harmless
  <2>2. PICK t : t = requestTerminal(e, c, room)
    OBVIOUS
  <2>3. e' = t /\ launches(e')
    BY <1>2, <2>1, <2>2 DEF Finalize, Ends, Becomes, Alive, launches
  <2>4. Sound(t) /\ Follows(e, t)
    BY <1>0, <2>2, EndsFollows
  <2>. QED BY <1>1, <2>3, <2>4
<1>3. CASE ~canceled /\ Alive(e)
  <2>1. PICK o \in finishIngress(e, room) :
          Becomes(requestTerminal(o.s, IF o.err = "ok" THEN "orderly" ELSE o.err, room))
    BY <1>3 DEF Finalize, Alive
  <2>2. o.err \in {"ok"} \cup Harmless /\ Sound(o.s) /\ Moves(e, o.s)
    <3>1. CASE e.ingress = <<>>
      <4>1. o = ok(e)
        BY <2>1, <3>1 DEF finishIngress
      <4>2. Moves(e, e)
        BY DEF Moves
      <4>. QED BY <1>0, <4>1, <4>2 DEF ok
    <3>2. CASE e.ingress # <<>>
      <4>1. PICK q, r, n, d : q = <<>> /\ r = e.replay /\ n = e.out /\ d = e.ingress
        OBVIOUS
      <4>2. q \in Ordinary /\ r \in Ordinary /\ n \in Nat /\ d \in Ordinary
        BY <1>0, <4>1, NothingIn, ShapeFields DEF Ordinary
      <4>3. PICK s : s = [e EXCEPT !.ingress = <<>>]
        OBVIOUS
      <4>4. s = reading(e, q, r, n)
        BY <1>0, <4>1, <4>3 DEF reading, Shape
      <4>5. Sound(s) /\ Moves(e, s) /\ s.start = e.start
        BY <1>0, <4>1, <4>2, <4>4, ReadsOn
      <4>6. Alive(s) /\ s.start.phase # "none"
        BY <1>0, <1>3, <3>2, <4>5 DEF Moves, Alive, Sound, CutOK
      <4>7. PICK k : k = routeOrdinary(s, d, room)
        OBVIOUS
      <4>8. k.err \in {"ok"} \cup Harmless /\ Sound(k.s) /\ Moves(s, k.s)
        BY <4>2, <4>5, <4>6, <4>7, Routes
      <4>9. Moves(e, k.s)
        BY <4>5, <4>8, MovesOn
      <4>10. o = k \/ o = fails(s, "fault")
        BY <2>1, <3>2, <4>1, <4>3, <4>7 DEF finishIngress
      <4>11. CASE o = k
        BY <4>8, <4>9, <4>11
      <4>12. CASE o = fails(s, "fault")
        BY <4>5, <4>12 DEF fails, Harmless
      <4>. QED BY <4>10, <4>11, <4>12
    <3>. QED BY <3>1, <3>2
  <2>3. PICK m, c : m = o.s /\ c = IF o.err = "ok" THEN "orderly" ELSE o.err
    OBVIOUS
  <2>4. c \in Harmless /\ c # "ok"
    BY <2>2, <2>3 DEF Harmless
  <2>5. PICK p : p = fails(m, c)
    OBVIOUS
  <2>6. p.err = c /\ p.s = m
    BY <2>5 DEF fails
  <2>7. p.err \in {"ok"} \cup Harmless /\ Sound(p.s) /\ Moves(e, p.s)
    BY <2>2, <2>3, <2>4, <2>6
  <2>8. PICK t : t = resolve(p, room)
    OBVIOUS
  <2>9. Sound(t) /\ Follows(e, t)
    BY <1>0, <2>7, <2>8, Resolves
  <2>10. t = requestTerminal(m, c, room)
    BY <2>4, <2>6, <2>8 DEF resolve
  <2>11. e' = t /\ launches(e')
    BY <2>1, <2>3, <2>10 DEF Becomes, launches
  <2>. QED BY <1>1, <2>9, <2>11
<1>. QED BY <1>2, <1>3

\* Finalize returns once teardown is done; a failed cleanup is reported, then retried.
LEMMA FinalizeReturnsKeeps ==
  ASSUME EpochInv, FinalizeReturns
  PROVE  Kept
<1>0. /\ teardown = "done" /\ teardown # "none" /\ finalizer' = "returned"
      /\ UNCHANGED <<stray, canceled, starter, runner, reader, browser, acker, histories, owner, teardown>>
  BY DEF FinalizeReturns
<1>1. /\ ~Alive(e) /\ Sound(e) /\ Shape(e) /\ Threads
      /\ (e.cleanup.complete => ~attached)
      /\ (owner = "cutting") = (runner.who = "owner")
      /\ (browser = "resizing") = (runner.who = "browser")
  BY <1>0, TornDown
<1>2. /\ Sound(e') /\ e'.terminal = e.terminal /\ e'.start = e.start
      /\ attached' \in BOOLEAN /\ (attached' => attached)
      /\ (e'.cleanup.complete => ~attached')
  <2>1. CASE UNCHANGED <<e, attached>>
    BY <1>1, <2>1 DEF Threads
  <2>2. CASE ~e.cleanup.complete /\ e' = [e EXCEPT !.cleanup.reported = TRUE] /\ UNCHANGED attached
    <3>1. PICK c : c = [e.cleanup EXCEPT !.reported = TRUE]
      OBVIOUS
    <3>2. c \in CleanupRec /\ c.complete = e.cleanup.complete
      BY <1>1, <3>1, ShapeFields DEF CleanupRec
    <3>3. PICK t : t = cleaned(e, c)
      OBVIOUS
    <3>4. e' = t
      BY <1>1, <2>2, <3>1, <3>3 DEF cleaned, Shape
    <3>5. Sound(t) /\ ~Alive(t) /\ t.start = e.start /\ t.terminal = e.terminal /\ t.cleanup = c
      BY <1>1, <3>2, <3>3, CleansOn
    <3>. QED BY <1>1, <2>2, <3>2, <3>4, <3>5 DEF Threads
  <2>3. CASE \E works \in BOOLEAN : CleansUp(works)
    <3>1. PICK works \in BOOLEAN : CleansUp(works)
      BY <2>3
    <3>. QED BY <1>0, <3>1, CleansUpHere
  <2>. QED BY <2>1, <2>2, <2>3 DEF FinalizeReturns
<1>3. Threads'
  BY <1>0, <1>1, <1>2 DEF Threads
<1>. QED BY <1>0, <1>1, <1>2, <1>3, EndedKeeps

\* A later Finalize waits again.
LEMMA FinalizeAgainKeeps ==
  ASSUME EpochInv, FinalizeAgain
  PROVE  Kept
<1>0. /\ Sound(e) /\ Threads /\ AttachedOK
      /\ UNCHANGED <<e, attached, stray, canceled, starter, runner, reader, browser, acker, histories, owner, teardown>>
      /\ finalizer' = "waiting"
  BY DEF EpochInv, FinalizeAgain
<1>1. Follows(e, e)
  BY DEF Follows
<1>2. launches(e')
  BY <1>0 DEF launches, AttachedOK, Alive
<1>3. /\ canceled' \in BOOLEAN /\ histories' \in Nat /\ finalizer' \in {"idle", "waiting", "returned"}
      /\ reader' \in {"idle", "activity", "stopped"} /\ reader' = reader
  BY <1>0 DEF Threads
<1>. QED BY <1>0, <1>1, <1>2, <1>3, FollowsKeeps

-----------------------------------------------------------------------------
\* An epoch nobody started (NewEpoch).
LEMMA InitHolds == Init => EpochInv
<1>. SUFFICES ASSUME Init PROVE EpochInv
  OBVIOUS
<1>1. PICK g \in Scenarios :
       e = [given |-> g,
            protocol |-> [state |-> "awaitPrepare", cut |-> 0, mode |-> "observe"],
            scheduler |-> [dirty |-> FALSE, inFlight |-> FALSE, due |-> FALSE, stopped |-> FALSE],
            egress |-> [wire |-> <<>>, closed |-> FALSE, failed |-> FALSE],
            input |-> [mode |-> "observe", queue |-> <<>>, writing |-> 0, revoked |-> FALSE,
                       closed |-> FALSE, sealed |-> FALSE, failed |-> FALSE],
            settled |-> [i \in 1..g.max.input |-> 0], typed |-> <<>>,
            ingress |-> <<>>, replay |-> <<>>, out |-> 0,
            active |-> NoCut, nextCut |-> 0,
            start |-> [phase |-> "none", ownership |-> "none", pending |-> "none", result |-> "none"],
            terminal |-> NoTerminal,
            transitionalInput |-> <<>>, transitionalModes |-> <<>>,
            pendingHistory |-> 0, lastHistoryRequest |-> 0,
            phase |-> [r \in 1..g.max.history |-> "new"],
            cleanup |-> [complete |-> FALSE, err |-> FALSE, reported |-> FALSE],
            sent |-> 0, admitted |-> {}, modes |-> 0, resizes |-> 0]
  BY DEF Init
<1>2. /\ e.protocol = [state |-> "awaitPrepare", cut |-> 0, mode |-> "observe"]
      /\ e.scheduler = [dirty |-> FALSE, inFlight |-> FALSE, due |-> FALSE, stopped |-> FALSE]
      /\ e.input = [mode |-> "observe", queue |-> <<>>, writing |-> 0, revoked |-> FALSE,
                    closed |-> FALSE, sealed |-> FALSE, failed |-> FALSE]
      /\ e.start = [phase |-> "none", ownership |-> "none", pending |-> "none", result |-> "none"]
      /\ e.cleanup = [complete |-> FALSE, err |-> FALSE, reported |-> FALSE]
  BY <1>1
<1>3. /\ e.active = NoCut /\ e.nextCut = 0 /\ e.terminal = NoTerminal /\ e.ingress = <<>>
      /\ e.transitionalInput = <<>> /\ e.transitionalModes = <<>>
      /\ e.pendingHistory = 0 /\ e.lastHistoryRequest = 0 /\ e.given = g
  BY <1>1
<1>4. g.max.history \in Nat
  <2>1. g \in Scenario
    BY EpochAssumption
  <2>. QED BY <2>1 DEF Scenario, Bounds
<1>5. Shape(e)
  <2>1. e.protocol \in Protocol /\ e.scheduler \in SchedulerRec
    BY <1>2 DEF Protocol, Mode, SchedulerRec
  <2>2. <<>> \in Seq(Nat) /\ <<>> \in Seq(Mode)
    BY NothingIn
  <2>3. e.input \in InputRec
    BY <1>2, <2>2 DEF InputRec, Mode
  <2>4. e.start \in StartRec
    BY <1>2 DEF StartRec, Ownership
  <2>5. e.cleanup \in CleanupRec
    BY <1>2 DEF CleanupRec
  <2>6. [r \in 1..g.max.history |-> "new"] \in [1..g.max.history -> Progress]
    BY DEF Progress
  <2>. QED BY <1>1, <2>1, <2>2, <2>3, <2>4, <2>5, <2>6 DEF Shape, Ordinary
<1>6. Queues(e)
  <2>1. Len(<<>>) = 0
    OBVIOUS
  <2>. QED BY <1>2, <1>3, <2>1, EpochAssumption DEF Queues
<1>7. StartOK(e) /\ EndOK(e)
  BY <1>2, <1>3 DEF StartOK, EndOK, Alive
<1>8. CutOK(e) /\ HistoryOK(e)
  BY <1>2, <1>3, <1>4 DEF CutOK, HistoryOK
<1>9. Sound(e) /\ Alive(e)
  BY <1>3, <1>5, <1>6, <1>7, <1>8 DEF Sound, Alive
<1>10. Threads
  BY DEF Init, Threads, NoRunner
<1>11. StarterOK
  BY <1>2 DEF Init, StarterOK
<1>12. AttachedOK
  BY <1>9 DEF Init, AttachedOK
<1>13. RunnerOK
  BY <1>3 DEF Init, RunnerOK, NoRunner
<1>14. HoldOK
  BY <1>2, <1>3 DEF Init, HoldOK, holders
<1>15. StrayOK
  BY <1>9 DEF Init, StrayOK
<1>. QED BY <1>9, <1>10, <1>11, <1>12, <1>13, <1>14, <1>15 DEF EpochInv

\* Every section of code under e.mu, of every goroutine, keeps the invariant.
LEMMA NextKeeps == EpochInv /\ [Next]_vars => Kept
<1>. SUFFICES ASSUME EpochInv, [Next]_vars PROVE Kept
  OBVIOUS
<1>1. CASE Starts
  <2>1. PICK room : Start(room) \/ BindTransfers(room) \/ Reconcile(room) \/ WatchStartOwner(room)
    BY <1>1 DEF Starts
  <2>. QED BY <2>1, StartKeeps, BindTransfersKeeps, ReconcileKeeps, WatchKeeps
<1>2. CASE Binds
  BY <1>2, BindMutatesKeeps, BindReturnsKeeps, BindUnresolvedKeeps, StartReturnsKeeps DEF Binds
<1>3. CASE Cuts
  <2>1. PICK room : CutIssue(room) \/ CutFails(room) \/ CutReturns(room) \/ CutTimeout(room)
    BY <1>3 DEF Cuts
  <2>. QED BY <2>1, CutIssueKeeps, CutFailsKeeps, CutReturnsKeeps, WatchKeeps
<1>4. CASE Reads
  <2>1. PICK room : \/ \E hold \in BOOLEAN : PTYOutput(room, hold)
                    \/ PTYMarker(room) \/ PTYFails(room)
    BY <1>4 DEF Reads
  <2>. QED BY <2>1, PTYOutputKeeps, PTYMarkerKeeps, PTYFailsKeeps
<1>5. CASE StrayAppears \/ Activity \/ SchedulerDue
  BY <1>5, StrayAppearsKeeps, ActivityKeeps, SchedulerDueKeeps
<1>6. CASE Owner
  <2>1. CASE OwnerDue
    BY <2>1, OwnerDueKeeps
  <2>2. CASE \E room \in e.given.rooms : BeginOngoingCut(room) \/ OwnerStops(room)
    BY <2>2, BeginOngoingKeeps, OwnerStopsKeeps
  <2>. QED BY <1>6, <2>1, <2>2 DEF Owner
<1>7. CASE Frames
  <2>1. PICK room : \/ Ready(room) \/ Defer(room) \/ Complete(room) \/ Input(room)
                    \/ \E m \in Mode : ModeRequest(m, room)
    BY <1>7 DEF Frames
  <2>. QED BY <2>1, ReadyKeeps, DeferKeeps, CompleteKeeps, InputKeeps, ModeRequestKeeps
<1>8. CASE Requests
  <2>1. PICK room :
          \/ Resize(room) \/ ResizeReturns(room) \/ AbandonResize(room) \/ AbandonCompletes(room)
          \/ RequestHistory(room) \/ BeginPendingHistory(room)
    BY <1>8 DEF Requests
  <2>. QED BY <2>1, ResizeKeeps, ResizeReturnsKeeps, AbandonResizeKeeps, AbandonCompletesKeeps,
              RequestHistoryKeeps, BeginPendingHistoryKeeps
<1>9. CASE Pump
  BY <1>9, PumpTakesKeeps, PumpWritesKeeps, PumpFailsKeeps DEF Pump
<1>10. CASE EgressFails \/ Cancel
  BY <1>10, EgressFailsKeeps, CancelKeeps
<1>11. CASE Closing
  <2>1. CASE Teardown \/ FinalizeReturns \/ FinalizeAgain
    BY <2>1, TeardownKeeps, FinalizeReturnsKeeps, FinalizeAgainKeeps
  <2>2. CASE \E room \in e.given.rooms : Finalize(room)
    BY <2>2, FinalizeKeeps
  <2>. QED BY <1>11, <2>1, <2>2 DEF Closing
<1>12. CASE UNCHANGED vars
  BY <1>12 DEF vars, threads, EpochInv, Kept, Threads, StarterOK, AttachedOK, RunnerOK, HoldOK, holders,
               StrayOK, BusyIsAnothers, finds
<1>. QED BY <1>1, <1>2, <1>3, <1>4, <1>5, <1>6, <1>7, <1>8, <1>9, <1>10, <1>11, <1>12 DEF Next

\* Whatever the goroutines of one epoch do, in whatever order, the invariant holds.
THEOREM EpochInvariant == Spec => []EpochInv
<1>1. EpochInv /\ [Next]_vars => EpochInv'
  BY NextKeeps DEF Kept
<1>. QED BY <1>1, InitHolds, PTL DEF Spec

\* The invariant bounds the struct and the program counters.
LEMMA TypesHold == EpochInv => TypeOK
<1>. SUFFICES ASSUME EpochInv PROVE TypeOK
  OBVIOUS
<1>0. Sound(e) /\ Shape(e) /\ Queues(e) /\ Threads /\ (Alive(e) => CutOK(e)) /\ EndOK(e)
      /\ StrayOK
  BY DEF EpochInv, Sound
<1>1. /\ e.protocol \in Protocol /\ e.active \in {NoCut} \cup CutRec /\ e.start \in StartRec
      /\ e.terminal \in {NoTerminal} \cup EndRec
  BY <1>0, ShapeFields
<1>2. e.active # NoCut => e.active.kind \in Kind /\ e.active.id = e.nextCut
  BY <1>0, <1>1 DEF CutRec, CutOK, EndOK
<1>3. e.start.ownership \in {"pending", "none", "exact"}
  BY <1>1 DEF StartRec, Ownership
<1>4. e.terminal = NoTerminal \/ e.terminal.cause \in Cause
  BY <1>1 DEF EndRec, Harmless, Busy, EndCause, Cause
<1>5. /\ Len(e.input.queue) <= MaxInputFrames
      /\ Len(e.transitionalInput) <= MaxInputFrames
      /\ Len(e.transitionalModes) <= MaxTransitionalModeRequests
  BY <1>0 DEF Queues
<1>6. /\ runner.who \in {"none", "start", "owner", "history", "browser"}
      /\ runner.pc \in {"none", "resize", "issue", "capture"}
  BY <1>0 DEF Threads, NoRunner
<1>. QED BY <1>0, <1>1, <1>2, <1>3, <1>4, <1>5, <1>6 DEF TypeOK, Threads, StrayOK

\* TypeOK of Epoch: the struct and the program counters of the epoch's
\* goroutines stay in their ranges, and neither the pump (inputPump.enqueue) nor
\* a cut (HandleFrame) holds more frames than its bound.
THEOREM EpochTypes == Spec => []TypeOK
BY EpochInvariant, TypesHold, PTL

\* The invariant rules out the contradictions, and counts the holders.
LEMMA SchedulerHolds == EpochInv => NoContradiction /\ OneHolder
<1>. SUFFICES ASSUME EpochInv PROVE NoContradiction /\ OneHolder
  OBVIOUS
<1>0. Sound(e) /\ Shape(e) /\ Threads /\ RunnerOK /\ HoldOK /\ StrayOK
  BY DEF EpochInv, Sound
<1>1. e.terminal \in {NoTerminal} \cup EndRec
  BY <1>0, ShapeFields
<1>2. ASSUME e.terminal # NoTerminal, e.terminal.cause = "unresolvedBind"
      PROVE  stray # "none" /\ e.terminal.ownership = "none"
  BY <1>0, <1>2 DEF StrayOK, Alive
<1>3. NoContradiction
  BY <1>1, <1>2 DEF NoContradiction, EndRec, EndCause, Harmless, Busy
<1>4. OneHolder
  BY <1>0 DEF OneHolder, HoldOK, RunnerOK, Alive
<1>. QED BY <1>3, <1>4

\* SchedulerAgrees of Epoch: none of the branches the code calls invariant
\* violations is ever taken (runCut, beginOngoingCut, maybePublishPrepare,
\* beginPendingHistory) but the one of a BIND whose shadow stayed unresolved, which
\* leaves nothing owned; no Complete meets an idle scheduler, no output arrives outside
\* every protocol state; the scheduler is held by exactly one cut, due notification or
\* pending Complete, or by none; and a resize or a depth that finds it busy met a hold in
\* one of the windows between unlocking e.mu and the scheduler.
THEOREM SchedulerSafe == Spec => SchedulerAgrees
<1>1. EpochInv /\ [Next]_vars => BusyIsAnothers
  BY NextKeeps DEF Kept
<1>2. Spec => []EpochInv
  BY EpochInvariant
<1>3. []EpochInv => [](NoContradiction /\ OneHolder)
  BY SchedulerHolds, PTL
<1>4. []EpochInv /\ [][Next]_vars => [][BusyIsAnothers]_vars
  BY <1>1, PTL
<1>. QED BY <1>2, <1>3, <1>4 DEF Spec, SchedulerAgrees

\* The invariant names the owner of every attachment, and the end of one nobody owns.
LEMMA AttachmentHolds == EpochInv => AttachmentOwned
<1>. SUFFICES ASSUME EpochInv PROVE AttachmentOwned
  OBVIOUS
<1>0. Sound(e) /\ Shape(e) /\ StartOK(e) /\ EndOK(e) /\ Threads /\ StarterOK /\ AttachedOK /\ StrayOK
  BY DEF EpochInv, Sound
<1>1. ASSUME e.terminal # NoTerminal
      PROVE  /\ e.terminal.ownership # "pending"
             /\ attached => e.terminal.ownership = "exact"
  <2>1. e.terminal.ownership = e.start.ownership /\ e.start.ownership # "pending"
    BY <1>0, <1>1 DEF EndOK, StartOK, Alive
  <2>. QED BY <1>0, <2>1 DEF AttachedOK, StarterOK
<1>2. ExactIsOwned
  BY <1>0, <1>1 DEF ExactIsOwned, AttachedOK
<1>3. ASSUME stray # "none" PROVE ~attached
  <2>1. CASE Alive(e)
    <3>1. starter = "unresolved"
      BY <1>0, <1>3, <2>1 DEF StrayOK
    <3>. QED BY <1>0, <3>1 DEF AttachedOK, StarterOK
  <2>2. CASE ~Alive(e)
    BY <1>0, <1>1, <1>3, <2>2 DEF StrayOK, Alive
  <2>. QED BY <2>1, <2>2
<1>4. StrayIsTold
  BY <1>0, <1>3 DEF StrayIsTold, StrayOK, Alive
<1>. QED BY <1>2, <1>4 DEF AttachmentOwned

\* AttachmentOwned of Epoch: from the moment BIND returns its IDs, the attachment tmux
\* holds is owned by them, the terminal result names them, and cleanup is complete only
\* when tmux let go (transferStartOwnershipLocked, requestTerminalLocked,
\* executeCleanup); a shadow whose ID BIND never saw leaves the epoch without an
\* attachment, ended as unresolved or as had been asked before (bind, Start).
THEOREM AttachmentSafe == Spec => []AttachmentOwned
BY EpochInvariant, AttachmentHolds, PTL

=============================================================================
