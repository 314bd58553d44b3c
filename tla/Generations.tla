----------------------------- MODULE Generations -----------------------------
(***************************************************************************)
(* The generations of one session's recording (internal/broker): how an    *)
(* observer unit founds one by birth or adoption, replaces it by a         *)
(* rotation, a width refit or the recovery of a lost control client, and   *)
(* how every failure on the way is settled between four owners: the        *)
(* provider maps, the pane registry, the retention runtime and the journal *)
(* realm.                                                                  *)
(*                                                                         *)
(* The goroutines are the control client's unit, the driver of a rotation  *)
(* (the unit in runRotation), the lifecycle worker, the retention manager, *)
(* the supervisor, and the caller of a birth, an adoption or a refit.      *)
(* Every section of code under its locks is one action, and so is every    *)
(* return from a wait.  What the journal and the retention runtime do with *)
(* accepted output is in JournalFile, JournalLedger and Retention; here a  *)
(* generation keeps the number of the last output it accepted, and whether *)
(* one was missing, repeated or out of order.                              *)
(***************************************************************************)
EXTENDS Naturals, Sequences, FiniteSets, FiniteSetsExt, SequencesExt

CONSTANTS
    Weights,    \* the size of output 1, 2, ... of the pane
    PendCap,    \* RotationPendingCapBytes
    MaxUnits,   \* bound: observer units
    MaxGens,    \* bound: control generations minted
    Scenes      \* what a behaviour may ask for, and (bound) what may go wrong in it

Requests == {"birth", "adopt", "auto", "refit"}

ASSUME GenerationsAssumption ==
    /\ Weights \in Seq(Nat \ {0})
    /\ PendCap \in Nat /\ {MaxUnits, MaxGens} \subseteq Nat \ {0}
    /\ Scenes \subseteq [asks : SUBSET Requests, faults : Nat]

VARIABLES
    src,    \* the session in tmux: there, its owner and shape, the output it made
    unit,   \* unifiedDevUnit
    hold,   \* unifiedDevBirth, the holder that routes the pane's output
    gen,    \* a generation in the journal, the runtime and the registry
    eff,    \* the maps of UnifiedDevPaneEffects, and the registry's breaker
    rot,    \* effects.rotation and its driver
    job,    \* the lifecycle worker's slot
    retry,  \* terminalRetires: the retirement it retries
    ask     \* the callers: requests left, whether they wait, and the faults still to come

vars == <<src, unit, hold, gen, eff, rot, job, retry, ask>>

U == 1..MaxUnits
G == 1..MaxGens
MaxOut == Len(Weights)

NewUnit == [kind |-> "none", pc |-> "none", read |-> 0, lost |-> FALSE, cut |-> 0,
            stalled |-> FALSE, exit |-> "none", holder |-> 0, wits |-> {}, reaped |-> FALSE]
NewHold == [wit |-> 0, streaming |-> FALSE, committed |-> FALSE, aborted |-> FALSE,
            rotating |-> FALSE, pend |-> <<>>]
NewGen == [jr |-> "none", rt |-> "none", adm |-> FALSE, retire |-> FALSE, failed |-> FALSE,
           aband |-> FALSE, durable |-> FALSE, reg |-> "no", elig |-> FALSE, init |-> "none",
           cancelled |-> FALSE, iowner |-> 0, pub |-> FALSE, owner |-> 0, shape |-> 0,
           tail |-> 0, torn |-> FALSE, held |-> FALSE, asked |-> FALSE]
NoRotation == [claimed |-> FALSE, pc |-> "none", kind |-> "none", unit |-> 0, old |-> 0,
               new |-> 0, shape |-> 0, flipped |-> FALSE, ponr |-> FALSE, txn |-> "none",
               newHeld |-> FALSE, journal |-> FALSE, committed |-> FALSE,
               extra |-> <<>>, seen |-> FALSE, lostMore |-> FALSE, err |-> "none",
               bd |-> "none", bdof |-> 0]
Free == [pc |-> "free", unit |-> 0, active |-> 0, gen |-> 0, decision |-> "none"]
NoRetry == [unit |-> 0, gen |-> 0]

(***************************************************************************)
(* The state a handler works on: Here before it, Becomes(w) after it.  err *)
(* is what the handler returns.                                            *)
(***************************************************************************)
Here == [src |-> src, unit |-> unit, hold |-> hold, gen |-> gen, eff |-> eff, rot |-> rot,
         job |-> job, retry |-> retry, ask |-> ask, err |-> FALSE]

Becomes(w) ==
    /\ src' = w.src /\ unit' = w.unit /\ hold' = w.hold /\ gen' = w.gen
    /\ eff' = w.eff /\ rot' = w.rot /\ job' = w.job /\ retry' = w.retry
    /\ ask' = w.ask

\* Something goes wrong, as long as anything still may.
troubled(w) == [w EXCEPT !.ask.faults = @ - 1]
Trouble == ask.faults > 0

(***************************************************************************)
(* Liveness of units, health of initial operations, readiness.             *)
(***************************************************************************)
running(w, u) == u # 0 /\ w.unit[u].pc \notin {"none", "over"}
isLive(w, u) == running(w, u) /\ ~w.unit[u].lost /\ ~w.unit[u].stalled

\* Publication ends the caller's interest in a rotation.
requestError(w) ==
    w.rot.kind = "refit" /\ ~w.ask.caller /\ ~(w.rot.new # 0 /\ w.gen[w.rot.new].pub)

interested(w, g) == w.gen[g].pub \/ w.ask.caller \/ ~w.gen[g].asked

usable(x) == x.rt = "live" /\ ~x.failed /\ ~x.retire /\ ~x.aband

healthy(w, g) ==
    /\ ~w.gen[g].cancelled
    /\ w.gen[g].iowner = 0 \/ isLive(w, w.gen[g].iowner)
    /\ interested(w, g)
    /\ usable(w.gen[g])

result(w, g) == healthy(w, g) /\ w.gen[g].init = "ok"

\* disconnectAuthorityLocked: the exact admission, and the router still routes it.
authority(w, g) == w.gen[g].reg # "no" /\ w.gen[g].elig

recordingReady(w, g) ==
    LET x == w.gen[g]
        retiring == w.rot.txn = "open" /\ w.rot.old = g
        keeper == IF w.rot.new # 0 /\ w.gen[w.rot.new].iowner # 0
                  THEN w.gen[w.rot.new].iowner ELSE x.iowner
    IN /\ g # 0 /\ ~w.eff.broken
       /\ x.adm \/ retiring
       /\ ~x.failed /\ x.pub /\ authority(w, g)
       /\ IF retiring THEN isLive(w, keeper) /\ x.init = "ok" /\ ~x.cancelled ELSE result(w, g)

(***************************************************************************)
(* The registry and the retention runtime.                                 *)
(***************************************************************************)
admittedTo(w) == {g \in G : w.gen[g].reg # "no"}

\* publishRetentionFailureLocked: mark the admission, or break the whole realm.
publishFailure(w, g) ==
    LET x == w.gen[g]
    IN IF w.eff.broken \/ (w.rot.txn = "open" /\ w.rot.new = g) \/ (x.aband /\ ~x.adm) \/ x.reg = "marked"
       THEN w
       ELSE IF x.reg = "yes" THEN [w EXCEPT !.gen[g].reg = "marked"]
       ELSE [w EXCEPT !.eff.broken = TRUE,
                      !.gen = [h \in G |-> [w.gen[h] EXCEPT !.reg = "no"]]]

\* commitRetentionFaultLocked: the first fault of a generation wins.
fault(w, g) ==
    IF w.gen[g].failed \/ w.gen[g].rt # "live" THEN w
    ELSE publishFailure([w EXCEPT !.gen[g].failed = TRUE], g)

\* AdmitPane: a generation of the session takes over its router.
admitPane(w, g) ==
    [w EXCEPT !.gen = [h \in G |-> IF h = g THEN [w.gen[g] EXCEPT !.rt = "live", !.adm = TRUE,
                                                                  !.reg = "yes", !.elig = TRUE]
                                   ELSE [w.gen[h] EXCEPT !.elig = FALSE]]]

record(x, n) ==
    IF n = x.tail + 1 THEN [x EXCEPT !.tail = n]
    ELSE [x EXCEPT !.torn = TRUE, !.tail = Max({n, x.tail})]

\* Mutant: output is accepted until the cleanup of the fault has run.
observePane_failed(w, g, n) ==
    IF w.eff.broken \/ w.gen[g].rt # "live" \/ w.gen[g].retire THEN [w EXCEPT !.err = TRUE]
    ELSE IF w.gen[g].elig THEN [w EXCEPT !.gen[g] = record(@, n)] ELSE w

\* ObservePane of an output.  The router drops what no longer is the session's;
\* output after the seal makes the route ambiguous, so that Commit refuses.
observePane(w, g, n) ==
    LET x == w.gen[g]
        sealed == w.rot.txn = "open" /\ w.rot.old = g /\ x.retire
    IN IF w.eff.broken \/ ~usable(x) \/ x.reg = "marked"
       THEN [w EXCEPT !.err = TRUE, !.gen[g].elig = @ /\ ~sealed]
       ELSE IF x.elig THEN [w EXCEPT !.gen[g] = record(x, n)] ELSE w

\* ObservePane of a Disconnect: only the exact admitted route, once.
disconnect(w, g) ==
    IF ~w.eff.broken /\ authority(w, g) /\ usable(w.gen[g]) /\ w.gen[g].adm /\ w.gen[g].reg = "yes"
    THEN [w EXCEPT !.gen[g].elig = FALSE] ELSE w

disconnects(w, gs) == FoldSet(LAMBDA g, v : disconnect(v, g), w, gs)

\* ObservePane of a Replacement: the generation ends with a retiring boundary.
replacement(w, g) ==
    IF ~w.eff.broken /\ usable(w.gen[g]) /\ w.gen[g].reg # "marked"
    THEN [w EXCEPT !.gen[g].elig = FALSE, !.gen[g].retire = TRUE, !.gen[g].adm = FALSE] ELSE w

(***************************************************************************)
(* consumeObserverEvent: whatever unit read it, an output goes to the      *)
(* holder the pane is mapped to.                                           *)
(***************************************************************************)
weight(ns) == FoldLeft(LAMBDA total, n : total + Weights[n], 0, ns)

\* unifiedRotationPending.append
append(w, h, n) ==
    IF weight(w.hold[h].pend) + Weights[n] > PendCap THEN [w EXCEPT !.err = TRUE]
    ELSE [w EXCEPT !.hold[h].pend = Append(@, n)]

\* unifiedDevBirth.observe
observe(w, h, n) ==
    LET x == w.hold[h]
    IN CASE x.aborted -> [w EXCEPT !.err = TRUE]
         [] ~x.aborted /\ ~x.committed /\ x.rotating -> append(w, h, n)
         [] ~x.aborted /\ ~x.committed /\ ~x.rotating /\ ~x.streaming ->
              [w EXCEPT !.hold[h].pend = Append(@, n)]
         [] OTHER -> observePane(w, x.wit, n)

consume(w, u) ==
    LET n == w.unit[u].read + 1
        read == [w EXCEPT !.unit[u].read = n]
    IN IF w.eff.panes = 0 THEN read ELSE observe(read, w.eff.panes, n)

\* Mutant: one read too many.
unread_over(u) == unit[u].read <= IF unit[u].lost THEN unit[u].cut ELSE src.made

\* What the control client of u has sent and the unit has not consumed.
unread(u) == unit[u].read < IF unit[u].lost THEN unit[u].cut ELSE src.made

(***************************************************************************)
(* The end of a unit.                                                      *)
(***************************************************************************)
kill(w, u) ==
    IF w.unit[u].lost THEN w
    ELSE [w EXCEPT !.unit[u].lost = TRUE, !.unit[u].cut = w.src.made]

abortHolder(w, h) == IF h = 0 THEN w ELSE [w EXCEPT !.hold[h].aborted = TRUE, !.hold[h].pend = <<>>]

leaves(w, u, how) == [w EXCEPT !.unit[u].pc = "over", !.unit[u].exit = how]

unmapped(w, u) ==
    [w EXCEPT !.eff.panes = IF w.unit[u].holder # 0 /\ @ = w.unit[u].holder THEN 0 ELSE @]

\* Mutant: the reap of a faulted unit leaves the session its generation.
reapFaulted_active(w, u) ==
    IF w.unit[u].reaped THEN w
    ELSE LET v == abortHolder(kill([w EXCEPT !.unit[u].reaped = TRUE], u), w.unit[u].holder)
             freed == [v EXCEPT !.eff.adopting = @ /\ v.unit[u].kind = "birth"]
         IN IF v.eff.units # u THEN freed
            ELSE disconnects(unmapped([freed EXCEPT !.eff.units = 0], u), w.unit[u].wits)

\* reapFaultedUnitWithReason
reapFaulted(w, u) ==
    IF w.unit[u].reaped THEN w
    ELSE LET v == abortHolder(kill([w EXCEPT !.unit[u].reaped = TRUE], u), w.unit[u].holder)
             freed == [v EXCEPT !.eff.adopting = @ /\ v.unit[u].kind = "birth"]
             owned == unmapped([freed EXCEPT !.eff.units = 0], u)
             wits == w.unit[u].wits
         IN CASE v.eff.units # u -> freed
              [] v.eff.units = u /\ v.eff.active = 0 -> disconnects(owned, wits)
              [] v.eff.units = u /\ v.eff.active # 0 /\ v.eff.active \notin wits -> owned
              [] OTHER -> disconnects([owned EXCEPT !.eff.active = 0], {v.eff.active})

(***************************************************************************)
(* The session in tmux.                                                    *)
(***************************************************************************)
\* The running units have one control client each.
Output ==
    /\ src.here /\ src.made < MaxOut
    /\ src' = [src EXCEPT !.made = @ + 1]
    /\ UNCHANGED <<unit, hold, gen, eff, rot, job, retry, ask>>

OwnerEnds ==
    /\ Trouble /\ src.here
    /\ Becomes([troubled(Here) EXCEPT !.src.here = FALSE])

\* A respawn: the same session and pane, another process.
OwnerReplaced ==
    /\ Trouble /\ src.here /\ src.owner = 1
    /\ Becomes([troubled(Here) EXCEPT !.src.owner = 2])

\* An explicit Fit of the rows changes the shape, and with it the incarnation.
Reshaped ==
    /\ Trouble /\ src.here /\ src.shape # 1
    /\ Becomes([troubled(Here) EXCEPT !.src.shape = 1])

\* unifiedDevReadLoop: the client is gone, and what it sent is still there.
TransportLost(u) ==
    /\ running(Here, u) /\ ~unit[u].lost
    /\ Trouble \/ ~src.here
    /\ Becomes(kill(IF src.here THEN troubled(Here) ELSE Here, u))

\* superviseRecording: a stage that does not move is cut off with its generations.
Stall(u) ==
    LET mine(w, g) == (w.eff.units = u /\ w.eff.active = g) \/ w.gen[g].iowner = u
        current(w, g) == w.gen[g].reg # "no" \/ (w.rot.txn = "open" /\ w.rot.new = g)
        stalled == [troubled(Here) EXCEPT !.unit[u].stalled = TRUE]
        faulted == FoldSet(LAMBDA g, w : IF mine(w, g) /\ current(w, g) THEN fault(w, g) ELSE w,
                           stalled, G)
    IN /\ Trouble /\ running(Here, u) /\ ~unit[u].stalled /\ unit[u].pc # "stream"
       /\ Becomes(kill(faulted, u))

(***************************************************************************)
(* The retention manager: initial state, faults, retirement.               *)
(***************************************************************************)
\* processInitial
InitialEnds(g) ==
    /\ gen[g].init = "queued"
    /\ Becomes(IF healthy(Here, g) THEN [Here EXCEPT !.gen[g].init = "ok"]
               ELSE fault([Here EXCEPT !.gen[g].init = "bad"], g))

StorageFault(g) ==
    /\ Trouble /\ usable(gen[g])
    /\ Becomes(fault(IF gen[g].init = "queued" THEN [troubled(Here) EXCEPT !.gen[g].init = "bad"]
                     ELSE troubled(Here), g))

\* The cleanup of a fault, then of anything retiring that nothing refers to.
Retires(g) ==
    /\ gen[g].rt = "live" /\ gen[g].init # "queued" /\ (rot.bd = "queued" => rot.bdof # g)
    /\ gen[g].failed \/ gen[g].retire
    /\ IF ~gen[g].retire
       THEN gen' = [gen EXCEPT ![g].retire = TRUE, ![g].adm = FALSE]
       ELSE gen' = [gen EXCEPT ![g].rt = "gone", ![g].adm = FALSE,
                               ![g].jr = IF gen[g].durable /\ @ # "none" THEN "gone" ELSE @]
    /\ UNCHANGED <<src, unit, hold, eff, rot, job, retry, ask>>

\* The boundary a rotation waits for; the one on the predecessor retires it.
BoundarySettles ==
    LET g == rot.bdof
        good == ~gen[g].failed /\ gen[g].rt = "live"
        seals == good /\ rot.pc \in {"await2", "drain"} /\ g = rot.old /\ rot.ponr
    IN /\ rot.bd = "queued" /\ gen[g].init # "queued"
       /\ rot' = [rot EXCEPT !.bd = IF good THEN "ok" ELSE "bad"]
       /\ gen' = IF seals THEN [gen EXCEPT ![g].retire = TRUE, ![g].adm = FALSE] ELSE gen
       /\ UNCHANGED <<src, unit, hold, eff, job, retry, ask>>

\* A caller stops waiting for its birth, adoption or refit.
CallerLeaves ==
    /\ Trouble /\ ask.caller
    /\ ask.requests \cap {"adopt", "refit"} # {} \/ eff.adopting \/ rot.kind = "refit"
    /\ Becomes([troubled(Here) EXCEPT !.ask.caller = FALSE])

(***************************************************************************)
(* Adoption.  The holder of a birth or an adoption has its unit's number.  *)
(***************************************************************************)
fresh(w) == IF w.eff.minted < MaxGens THEN w.eff.minted + 1 ELSE 0
unspawned == {u \in U : unit[u].kind = "none"}
unroutes(w, h) == [w EXCEPT !.eff.panes = IF @ = h THEN 0 ELSE @]

\* admitAdoptionSpawn, and the control client attaches.
SpawnAdoption ==
    LET asked == [Here EXCEPT !.ask.requests = @ \ {"adopt"}]
        u == Min(unspawned)
    IN /\ "adopt" \in ask.requests /\ job.pc = "free"
       /\ Becomes(IF eff.active # 0 \/ eff.adopting \/ ~src.here \/ ~ask.caller \/ unspawned = {}
                  THEN asked
                  ELSE [asked EXCEPT !.eff.adopting = TRUE,
                                     !.unit[u] = [NewUnit EXCEPT !.kind = "adopt", !.pc = "attach",
                                                                 !.read = src.made]])

\* finishAdoptionAttach, then runAdoption: the pane is routed to a new holder.
AdoptionAttaches(u) ==
    LET g == fresh(Here)
    IN /\ unit[u].kind = "adopt" /\ unit[u].pc = "attach" /\ ~unit[u].lost
       /\ Becomes(IF ~src.here \/ g = 0 THEN leaves(Here, u, "plain")
                  ELSE [Here EXCEPT !.unit[u].pc = "capture", !.eff.panes = u, !.eff.minted = g,
                                    !.hold[u] = [NewHold EXCEPT !.wit = g],
                                    !.gen[g] = [NewGen EXCEPT !.owner = src.owner, !.shape = src.shape]])

\* commitAdoption: what came before the capture is in it, what follows streams.
AdoptionCaptures(u) ==
    LET g == hold[u].wit
        queued == [gen[g] EXCEPT !.jr = "open", !.init = "queued", !.iowner = u, !.asked = TRUE,
                                 !.tail = unit[u].read]
    IN /\ unit[u].kind = "adopt" /\ unit[u].pc = "capture" /\ src.here /\ ~eff.broken
       /\ Becomes([admitPane([Here EXCEPT !.gen[g] = queued], g)
                     EXCEPT !.unit[u].pc = "initial", !.hold[u].pend = <<>>, !.hold[u].streaming = TRUE])

\* The composite fails, or its initial operation is refused after AdmitPane:
\* then the admission stays.
AdoptionCaptureFails(u) ==
    LET g == hold[u].wit
        w == leaves(unroutes([Here EXCEPT !.hold[u].pend = <<>>], u), u, "plain")
    IN /\ unit[u].kind = "adopt" /\ unit[u].pc = "capture"
       /\ \/ (~src.here \/ eff.broken) /\ Becomes(w)
          \/ Trouble /\ Becomes(troubled(w))
          \/ Trouble /\ ~eff.broken /\ src.here
             /\ Becomes(admitPane(troubled([w EXCEPT !.gen[g].jr = "gone"]), g))

\* abortAdoption up to its wait.
adoptionFails(w, u) ==
    [w EXCEPT !.unit[u].pc = "unwind", !.hold[u].aborted = TRUE, !.gen[w.hold[u].wit].cancelled = TRUE]

\* Mutant: publication does not ask whether the control client is still there.
publishable_dead(w, g, u) ==
    /\ w.gen[g].init = "ok" /\ ~w.gen[g].cancelled /\ usable(w.gen[g]) /\ interested(w, g)
    /\ w.src.here /\ w.src.owner = w.gen[g].owner /\ w.src.shape = w.gen[g].shape
    /\ ~w.eff.broken /\ authority(w, g) /\ w.gen[g].reg = "yes"

\* publishInitial and verifyInitialSource, with the unit that owns the operation.
publishable(w, g, u) ==
    /\ result(w, g) /\ isLive(w, u)
    /\ w.src.here /\ w.src.owner = w.gen[g].owner /\ w.src.shape = w.gen[g].shape
    /\ ~w.eff.broken /\ authority(w, g) /\ w.gen[g].reg = "yes"

\* finishAdoption
AdoptionPublishes(u) ==
    LET g == hold[u].wit
        published == [Here EXCEPT !.gen[g].pub = TRUE, !.hold[u].committed = TRUE,
                                  !.unit[u].pc = "keep", !.unit[u].holder = u, !.unit[u].wits = {g},
                                  !.eff.units = u, !.eff.active = g, !.eff.adopting = FALSE]
    IN /\ unit[u].kind = "adopt" /\ unit[u].pc = "initial" /\ gen[g].init # "queued"
       /\ Becomes(IF publishable(Here, g, u) /\ eff.panes = u THEN published
                  ELSE adoptionFails(Here, u))

\* awaitInitial: the caller leaves.
AdoptionCancelled(u) ==
    /\ unit[u].kind = "adopt" /\ unit[u].pc = "initial" /\ ~ask.caller
    /\ Becomes(adoptionFails(Here, u))

\* reservation.Commit
AdoptionKept(u) ==
    /\ unit[u].pc = "keep"
    /\ Becomes([Here EXCEPT !.unit[u].pc = "stream", !.gen[hold[u].wit].jr = "kept"])

\* startInitialSettlement and the end of abortAdoption.
AdoptionUnwinds(u) ==
    LET g == hold[u].wit
    IN /\ unit[u].pc = "unwind" /\ gen[g].init # "queued"
       /\ Becomes(leaves(unroutes([fault(Here, g) EXCEPT !.gen[g].jr = "gone"], u), u, "plain"))

(***************************************************************************)
(* Birth.                                                                  *)
(***************************************************************************)
\* CreateSession, by the worker; tmux creates the session for its control client.
SpawnBirth ==
    LET u == Min(unspawned)
    IN /\ "birth" \in ask.requests /\ job.pc = "free" /\ unspawned # {}
       /\ Becomes([Here EXCEPT !.ask.requests = @ \ {"birth"}, !.ask.birth = u, !.ask.stage = "wait",
                               !.src.here = TRUE,
                               !.unit[u] = [NewUnit EXCEPT !.kind = "birth", !.pc = "birth"]])

\* finishBirth: the generation is admitted before the first output is read.
BirthFinishes(u) ==
    LET g == fresh(Here)
        found == [gen[g] EXCEPT !.jr = "kept", !.owner = src.owner, !.shape = src.shape]
        w == [Here EXCEPT !.eff.minted = g, !.hold[u].wit = g, !.gen[g] = found,
                          !.unit[u].pc = "stream", !.unit[u].holder = u, !.unit[u].wits = {g},
                          !.eff.panes = u, !.eff.units = u]
    IN /\ unit[u].pc = "birth" /\ ~unit[u].lost
       /\ Becomes(IF g = 0 \/ ~src.here \/ eff.broken THEN leaves(Here, u, "plain")
                  ELSE admitPane(w, g))

\* CommitSessionBirth up to its wait: all output so far, or a capture if there is none.
BirthBegins ==
    LET u == ask.birth
        g == hold[u].wit
        first == IF hold[u].pend = <<>> THEN [gen[g] EXCEPT !.tail = unit[u].read]
                 ELSE FoldLeft(record, gen[g], hold[u].pend)
    IN /\ ask.stage = "wait" /\ unit[u].holder = u
       /\ hold[u].pend # <<>> \/ (isLive(Here, u) /\ unit[u].pc = "stream")
       /\ ~eff.broken /\ authority(Here, g) /\ gen[g].reg = "yes" /\ usable(gen[g])
       /\ Becomes([Here EXCEPT !.gen[g] = [first EXCEPT !.init = "queued", !.iowner = eff.units],
                               !.hold[u].pend = <<>>, !.hold[u].streaming = TRUE, !.ask.stage = "begun"])

\* The end of CommitSessionBirth; a failure settles the operation and aborts the holder.
BirthPublishes ==
    LET u == ask.birth
        g == hold[u].wit
        current == eff.units = u /\ gen[g].iowner = u
    IN /\ ask.stage = "begun" /\ gen[g].init # "queued"
       /\ Becomes(IF publishable(Here, g, u) /\ ~hold[u].aborted /\ current
                  THEN [Here EXCEPT !.gen[g].pub = TRUE, !.hold[u].committed = TRUE,
                                    !.eff.active = g, !.ask.stage = "done"]
                  ELSE abortHolder([fault(Here, g) EXCEPT !.gen[g].cancelled = TRUE,
                                                          !.ask.stage = "failed"], u))

\* No answer in time, or no operation: AbortSessionBirth.
BirthTimesOut ==
    LET u == ask.birth
    IN /\ ask.stage = "wait"
       /\ \/ Trouble /\ Becomes([abortHolder(troubled(Here), u) EXCEPT !.ask.stage = "failed"])
          \/ /\ unit[u].pc = "over" \/ eff.broken \/ hold[u].aborted
                 \/ (hold[u].wit # 0 /\ (~authority(Here, hold[u].wit) \/ ~usable(gen[hold[u].wit])))
             /\ Becomes([abortHolder(Here, u) EXCEPT !.ask.stage = "failed"])

BirthAborts ==
    /\ ask.stage = "failed"
    /\ Becomes([unroutes(Here, ask.birth) EXCEPT !.ask.stage = "aborted"])

(***************************************************************************)
(* A rotation: claim, hand over, and the stages of its driver.             *)
(***************************************************************************)
\* The rotation claims its owner slot and the generation's geometry; the journal slot
\* it claims with them is in JournalLedger.
claims(w, kind, u, g) ==
    [w EXCEPT !.gen[g].held = TRUE,
              !.rot = [NoRotation EXCEPT !.claimed = TRUE, !.pc = "handing", !.kind = kind, !.unit = u,
                                         !.old = g, !.shape = w.src.shape]]

claimable ==
    /\ ~rot.claimed /\ eff.units # 0 /\ eff.active # 0 /\ ~eff.adopting
    /\ eff.active \in unit[eff.units].wits /\ ~gen[eff.active].held

\* rotateSession: the scheduler calls it from the worker, and waits there.
AutoClaims ==
    /\ "auto" \in ask.requests /\ job.pc = "free"
    /\ LET asked == [Here EXCEPT !.ask.requests = @ \ {"auto"}]
       IN Becomes(IF ~claimable THEN asked
                  ELSE [claims(asked, "auto", eff.units, eff.active) EXCEPT !.job.pc = "rotating"])

\* executeRefitSession: only the exact owner of the generation is refitted.
RefitClaims ==
    /\ "refit" \in ask.requests /\ ask.caller
    /\ LET asked == [Here EXCEPT !.ask.requests = @ \ {"refit"}]
       IN Becomes(IF claimable /\ src.here /\ src.owner = gen[eff.active].owner
                  THEN claims(asked, "refit", eff.units, eff.active) ELSE asked)

released(w) ==
    [w EXCEPT !.rot = NoRotation, !.gen[w.rot.old].held = FALSE,
              !.job = IF w.rot.kind = "auto" THEN Free ELSE @]

\* Nobody takes it: everything claimed is given back.
HandingFails ==
    /\ rot.pc = "handing"
    /\ \/ (~running(Here, rot.unit) \/ (rot.kind = "refit" /\ ~ask.caller)) /\ Becomes(released(Here))
       \/ Trouble /\ Becomes(released(troubled(Here)))

\* The unit takes it from its commands, or was spawned for it.
HandsOver ==
    /\ running(Here, rot.unit)
    /\ \/ rot.pc = "handing" /\ unit[rot.unit].pc = "stream"
       \/ rot.pc = "spawned" /\ unit[rot.unit].pc = "attach" /\ src.here
    /\ Becomes([Here EXCEPT !.rot.pc = "start", !.unit[rot.unit].pc = "rotate"])

\* An error of the driver: it settles at once, or drains what it waits for.
fails(w) == [w EXCEPT !.rot.pc = "restore"]
drains(w) == [w EXCEPT !.rot.pc = "drain"]

\* The source is the one the generation recorded.
sameSource(w) == w.src.here /\ w.src.owner = w.gen[w.rot.old].owner

\* runRotation before its composite; the refit's point of no return is writing it.
RotationStarts ==
    LET g == fresh(Here)
        ok == /\ sameSource(Here) /\ ~requestError(Here) /\ g # 0
              /\ rot.kind = "refit" => src.shape = rot.shape
              /\ rot.old \in unit[rot.unit].wits
    IN /\ rot.pc = "start"
       /\ Becomes(IF ok THEN [Here EXCEPT !.rot.pc = "compose", !.rot.new = g, !.eff.minted = g,
                                          !.rot.ponr = rot.kind = "refit"]
                  ELSE fails(Here))

\* commitRotationCapture: the holder turns to the successor and keeps what follows.
RotationCaptures ==
    LET h == unit[rot.unit].holder
        shape == IF rot.kind = "refit" THEN 2 ELSE src.shape
        w == [Here EXCEPT !.rot.pc = "materialize", !.rot.flipped = TRUE, !.rot.shape = shape,
                          !.src.shape = shape, !.hold[h].wit = rot.new, !.hold[h].committed = FALSE,
                          !.hold[h].rotating = TRUE,
                          !.gen[rot.new] = [NewGen EXCEPT !.owner = gen[rot.old].owner,
                               !.shape = IF rot.kind = "refit" THEN 2 ELSE gen[rot.old].shape,
                               !.tail = unit[rot.unit].read]]
    IN /\ rot.pc = "compose" /\ src.here
       /\ rot.kind = "refit" => src.owner = gen[rot.old].owner /\ src.shape = rot.shape
       /\ ~hold[h].aborted /\ hold[h].committed /\ hold[h].wit = rot.old /\ ~hold[h].rotating
       /\ Becomes(w)

RotationCaptureFails ==
    LET h == unit[rot.unit].holder
        guarded == rot.kind = "refit" => src.owner = gen[rot.old].owner /\ src.shape = rot.shape
    IN /\ rot.pc = "compose"
       /\ \/ (~src.here \/ hold[h].aborted \/ ~hold[h].committed \/ ~guarded) /\ Becomes(fails(Here))
          \/ Trouble /\ Becomes(fails(troubled(Here)))

\* The successor gets its geometry owner and its journal.
RotationMaterializes ==
    LET landed == rot.kind = "refit" => sameSource(Here) /\ src.shape = rot.shape
    IN /\ rot.pc = "materialize"
       /\ \/ landed /\ Becomes([Here EXCEPT !.rot.pc = "register", !.rot.newHeld = TRUE,
                                            !.rot.journal = TRUE, !.gen[rot.new].held = TRUE,
                                            !.gen[rot.new].jr = "open"])
          \/ ~landed /\ Becomes(fails(Here))
          \/ Trouble /\ Becomes(fails(troubled(Here)))

\* validateLocked of the witness stage: provider maps and the live unit.
provided(w) ==
    w.eff.units = w.rot.unit /\ w.eff.active = w.rot.old /\ isLive(w, w.rot.unit)

\* captureAssumptionsLocked and assumptionsHoldLocked
assumed(w) ==
    /\ ~w.eff.broken /\ w.gen[w.rot.old].reg = "yes" /\ w.gen[w.rot.old].elig
    /\ w.gen[w.rot.old].rt = "live" /\ w.gen[w.rot.old].adm /\ ~w.gen[w.rot.old].failed

provisional(w) ==
    LET x == w.gen[w.rot.new] IN x.rt = "live" /\ ~x.adm /\ ~x.failed

\* beginPaneRollover, WriteBootstrap, and the boundary behind the bootstrap.
RotationRegisters ==
    LET w == [Here EXCEPT !.rot.txn = "open", !.rot.pc = "await1", !.rot.bd = "queued",
                          !.rot.bdof = rot.new,
                          !.gen[rot.new] = [@ EXCEPT !.rt = "live", !.init = "queued",
                               !.iowner = rot.unit, !.asked = rot.kind = "refit"]]
    IN /\ rot.pc = "register"
       /\ Becomes(IF provided(Here) /\ assumed(Here) THEN w ELSE fails(Here))

cancels(w) == [drains(w) EXCEPT !.gen[w.rot.new].cancelled = TRUE]

\* awaitRotationBoundary: done, or the caller has left.
Awaited(stage, next) ==
    /\ rot.pc = stage
    /\ \/ requestError(Here) /\ Becomes(cancels(Here))
       \/ ~requestError(Here) /\ rot.bd = "ok" /\ Becomes([Here EXCEPT !.rot.pc = next])
       \/ ~requestError(Here) /\ rot.bd = "bad" /\ Becomes(drains(Here))

RotationAwaits ==
    Awaited("await1", "recheck") \/ Awaited("await2", "commit") \/ Awaited("await3", "settled")

\* The source still is what was captured, and Validate.
RotationRechecks ==
    /\ rot.pc = "recheck"
    /\ Becomes(IF /\ sameSource(Here) /\ src.shape = rot.shape
                  /\ provided(Here) /\ result(Here, rot.new)
                  /\ assumed(Here) /\ provisional(Here)
               THEN [Here EXCEPT !.rot.pc = "seal"] ELSE fails(Here))

\* commitRotation: the retiring boundary on the predecessor is the point of no return.
RotationSeals ==
    /\ rot.pc = "seal"
    /\ Becomes(IF ~requestError(Here) /\ usable(gen[rot.old])
               THEN [Here EXCEPT !.rot.pc = "await2", !.rot.bd = "queued", !.rot.bdof = rot.old,
                                 !.rot.ponr = TRUE]
               ELSE fails(Here))

\* sealedAssumptionsHoldLocked
sealed(w) ==
    LET x == w.gen[w.rot.old]
    IN /\ ~w.eff.broken /\ x.reg = "yes" /\ x.elig
       /\ (x.rt = "gone" \/ (x.retire /\ ~x.adm /\ ~x.failed))

\* Fatal of the registry's transaction, once: the successor's fault is published
\* while the transaction owns it, and then the unit is reaped.
txnFatal(w) ==
    LET u == w.rot.unit
        faulted == [fault(w, w.rot.new) EXCEPT !.rot.txn = "gone", !.gen[w.rot.new].cancelled = TRUE]
        killed == kill(faulted, u)
    IN IF w.rot.txn # "open" THEN w
       ELSE IF w.eff.units = u THEN reapFaulted(killed, u) ELSE killed

\* Commit: provider maps, router and runtime turn to the successor at once.
RotationCommits ==
    LET swapped == [Here EXCEPT !.rot.pc = "journal", !.rot.txn = "gone", !.rot.committed = TRUE,
                                !.gen[rot.new] = [@ EXCEPT !.adm = TRUE, !.reg = "yes",
                                                           !.elig = TRUE, !.pub = TRUE],
                                !.gen[rot.old].reg = "no", !.gen[rot.old].elig = FALSE,
                                !.unit[rot.unit].wits = @ \cup {rot.new}, !.eff.active = rot.new]
        ok == /\ provided(Here) /\ sealed(Here) /\ provisional(Here)
              /\ result(Here, rot.new) /\ usable(gen[rot.new])
    IN /\ rot.pc = "commit"
       /\ Becomes(CASE requestError(Here) -> fails(Here)
                    [] ~requestError(Here) /\ ok -> swapped
                    [] OTHER -> fails(txnFatal(Here)))

replays(w, g, ns) == FoldLeft(LAMBDA v, n : IF v.err THEN v ELSE observePane(v, g, n), w, ns)

\* The journal keeps the successor and retires the predecessor; commitPending
\* streams what was held back, and one more boundary makes it durable.
RotationKeeps ==
    LET h == unit[rot.unit].holder
        kept == [Here EXCEPT !.gen[rot.new].jr = "kept", !.gen[rot.old].jr = "gone",
                             !.unit[rot.unit].kind = IF @ = "recover" THEN "recovered" ELSE @,
                             !.hold[h].committed = TRUE, !.hold[h].rotating = FALSE, !.hold[h].pend = <<>>]
        w == replays(kept, rot.new, hold[h].pend)
    IN /\ rot.pc = "journal"
       /\ Becomes(IF w.err \/ ~usable(w.gen[rot.new]) THEN fails(w)
                  ELSE [w EXCEPT !.rot.pc = "await3", !.rot.bd = "queued", !.rot.bdof = rot.new])

(***************************************************************************)
(* The settlement of a rotation that failed.                               *)
(***************************************************************************)
\* waitBoundarySettlement: the boundary and the initial operation, before anything
\* else.
RotationDrained ==
    /\ rot.pc = "drain" /\ rot.bd # "queued" /\ gen[rot.new].init # "queued"
    /\ Becomes(fails(Here))

terminal(w, g) ==
    IF w.gen[g].rt = "live" THEN [fault(w, g) EXCEPT !.gen[g].durable = TRUE]
    ELSE [w EXCEPT !.gen[g].jr = IF @ = "none" THEN @ ELSE "gone"]

settled(w, how) == [w EXCEPT !.rot.pc = "finish", !.rot.err = how]

\* retainUncertainRefitFailure: whatever may still be the owner's is kept.
retainUncertain(w) ==
    LET u == w.rot.unit
        v == FoldSet(LAMBDA g, x : IF g # 0 THEN fault(x, g) ELSE x, w, {w.rot.old, w.rot.new})
        kept == [v EXCEPT !.rot.txn = IF @ = "open" THEN "gone" ELSE @,
                          !.eff.active = 0, !.eff.units = 0, !.eff.adopting = FALSE,
                          !.gen = [g \in G |-> IF v.gen[g].jr = "open" /\ g = w.rot.new
                                               THEN [v.gen[g] EXCEPT !.jr = "uncertain"] ELSE v.gen[g]],
                          !.unit[u].reaped = TRUE]
    IN settled(kill(abortHolder(unmapped(kept, u), w.unit[u].holder), u), "fatal")

\* failRefitPredecessor
failPredecessor(w) ==
    terminal([w EXCEPT !.eff.active = IF @ = w.rot.old THEN 0 ELSE @, !.gen[w.rot.old].elig = FALSE],
             w.rot.old)

\* failCommittedSuccessor
failSuccessor(w) ==
    LET g == w.rot.new
    IN fault([w EXCEPT !.eff.active = IF @ = g THEN 0 ELSE @, !.gen[g].elig = FALSE], g)

closed(w, g) == [w EXCEPT !.gen[g].jr = IF @ = "none" THEN @ ELSE "gone"]

\* Mutant: a fatal end before the commit leaves the successor's journal to others.
settleFatal_open(w) ==
    LET u == w.rot.unit
        registry == CASE w.rot.committed -> failSuccessor(w)
                      [] ~w.rot.committed /\ w.rot.kind = "refit" -> failPredecessor(txnFatal(w))
                      [] OTHER -> txnFatal(w)
        h == w.unit[u].holder
    IN settled(reapFaulted(kill(abortHolder(registry, h), u), u), "fatal")

\* settleFatal once the source is judged: the registry's transaction, the journal's
\* reservation, the holder, and the reap of the unit.
settleFatal(w) ==
    LET u == w.rot.unit
        registry == CASE w.rot.committed -> failSuccessor(w)
                      [] ~w.rot.committed /\ w.rot.kind = "refit" -> failPredecessor(txnFatal(w))
                      [] OTHER -> txnFatal(w)
        journal == IF w.rot.journal THEN closed(registry, w.rot.new) ELSE registry
        h == w.unit[u].holder
    IN settled(reapFaulted(kill(abortHolder(journal, h), u), u), "fatal")

\* classifyRefitSource: the same owner, or nobody can tell.
uncertain == rot.kind = "refit" /\ src.here /\ src.owner = gen[rot.old].owner

\* Mutant: the rollback forgets what the holder kept for the successor.
rollback_dropped(w) ==
    LET h == w.unit[w.rot.unit].holder
        back == [w EXCEPT !.gen[w.rot.new].jr = IF w.rot.journal THEN "gone" ELSE @,
                          !.hold[h].wit = w.rot.old, !.hold[h].committed = TRUE,
                          !.hold[h].rotating = FALSE, !.hold[h].pend = <<>>]
        v == replays(back, w.rot.old, w.rot.extra)
    IN IF ~w.rot.flipped THEN settled(w, "failed")
       ELSE IF v.err \/ ~usable(v.gen[w.rot.old]) THEN settled(v, "fatal")
       ELSE [v EXCEPT !.rot.pc = "rewait", !.rot.bd = "queued", !.rot.bdof = w.rot.old, !.rot.extra = <<>>]

\* restore: the holder returns to the predecessor with everything it kept.
rollback(w) ==
    LET h == w.unit[w.rot.unit].holder
        back == [w EXCEPT !.gen[w.rot.new].jr = IF w.rot.journal THEN "gone" ELSE @,
                          !.hold[h].wit = w.rot.old, !.hold[h].committed = TRUE,
                          !.hold[h].rotating = FALSE, !.hold[h].pend = <<>>]
        v == replays(back, w.rot.old, w.hold[h].pend \o w.rot.extra)
    IN IF ~w.rot.flipped THEN settled(w, "failed")
       ELSE IF v.err \/ ~usable(v.gen[w.rot.old]) THEN settled(v, "fatal")
       ELSE [v EXCEPT !.rot.pc = "rewait", !.rot.bd = "queued", !.rot.bdof = w.rot.old, !.rot.extra = <<>>]

\* settleRotationAbort: the predecessor is as it was, the successor was never admitted.
abortable(w) ==
    LET x == w.gen[w.rot.old]
    IN /\ x.rt = "live" /\ x.adm /\ ~x.retire /\ ~x.failed
       /\ ~w.gen[w.rot.new].adm

\* settleFatal's first decision, for a refit: who owns the source.
Settles(w) ==
    \/ uncertain /\ Becomes(retainUncertain(w))
    \/ ~uncertain /\ Becomes(settleFatal(w))
    \/ ~uncertain /\ rot.kind = "refit" /\ Trouble /\ Becomes(retainUncertain(troubled(w)))

\* restore
RotationRestores ==
    /\ rot.pc = "restore"
    /\ IF rot.ponr \/ rot.lostMore THEN Settles(Here)
       ELSE IF rot.txn # "open" THEN Becomes(rollback(Here))
       ELSE IF ~abortable(Here) THEN Settles([Here EXCEPT !.rot.ponr = TRUE])
       ELSE Becomes([Here EXCEPT !.rot.pc = "aborting", !.rot.txn = "gone",
                                 !.gen[rot.new] = [@ EXCEPT !.aband = TRUE, !.retire = TRUE,
                                                            !.cancelled = TRUE]])

\* The initial operation of an aborted transaction ends before the rollback.
RotationAborts ==
    /\ rot.pc = "aborting" /\ gen[rot.new].init # "queued"
    /\ LET w == fault(Here, rot.new)
       IN IF rot.lostMore THEN Settles(w) ELSE Becomes(rollback(w))

\* The boundary behind the replay.
RotationRewaits ==
    /\ rot.pc = "rewait" /\ rot.bd # "queued"
    /\ IF rot.lostMore THEN Settles(Here)
       ELSE Becomes(settled(Here, IF rot.bd = "bad" THEN "fatal" ELSE "failed"))

\* The end of runRotation: everything claimed is given back.  The unit streams on
\* unless the rotation was fatal, or it was spawned to recover and could not.
RotationFinishes ==
    LET u == rot.unit
        w == [released(Here) EXCEPT !.gen = [g \in G |-> [gen[g] EXCEPT !.held = @ /\ g \notin {rot.old, rot.new}]]]
    IN /\ rot.pc \in {"finish", "settled"}
       /\ Becomes(IF rot.err # "fatal" /\ (rot.kind # "recover" \/ rot.err = "none")
                  THEN [w EXCEPT !.unit[u].pc = "stream", !.eff.adopting = @ /\ rot.kind # "recover"]
                  ELSE leaves(w, u, IF rot.err = "fatal" THEN "fault" ELSE "plain"))

(***************************************************************************)
(* The unit's reads.                                                       *)
(***************************************************************************)
Reading == {"attach", "capture", "initial", "unwind", "stream", "rotate"}

\* An error on the stream, by what the unit is doing.  In a wait of a rotation that
\* still may be rolled back, an output too many is kept for the replay.
refused(w, u, kept) ==
    LET at == w.unit[u].pc
    IN CASE at \in {"attach", "stream"} -> leaves(w, u, "plain")
         [] at = "capture" -> leaves(unroutes([w EXCEPT !.hold[u].pend = <<>>], u), u, "plain")
         [] at = "initial" -> adoptionFails(w, u)
         [] at = "unwind" -> w
         [] at = "rotate" /\ w.rot.pc = "compose" -> fails(w)
         [] at = "rotate" /\ w.rot.pc \in {"await1", "await2", "await3"} ->
              [drains(w) EXCEPT !.rot.extra = kept]
         [] OTHER -> [w EXCEPT !.rot.lostMore = TRUE]

\* consumeObserverEvents, in every select that reads the control client.
Consume(u) ==
    LET w == consume(Here, u)
        waits == rot.unit = u /\ rot.pc \in {"compose", "await1", "await2", "await3", "drain",
                                            "aborting", "rewait"}
        kept == IF hold[unit[u].holder].rotating THEN <<unit[u].read + 1>> ELSE <<>>
    IN /\ unit[u].pc \in Reading /\ (unit[u].pc = "rotate" => waits) /\ unread(u)
       /\ Becomes(IF w.err THEN refused(w, u, IF unit[u].holder = 0 THEN <<>> ELSE kept) ELSE w)

\* readResult.done: the loss is seen, whatever still is in the channel.  A rotation
\* sees it once, and remembers it only in the waits of its settlement.
ReadEnds(u) ==
    LET at == unit[u].pc
        seen == [Here EXCEPT !.rot.seen = TRUE]
        over == leaves(Here, u, "plain")
    IN /\ unit[u].lost
       /\ \/ at \in {"birth", "attach", "stream"} /\ Becomes(over)
          \/ at = "capture" /\ Becomes(unroutes([over EXCEPT !.hold[u].pend = <<>>], u))
          \/ at = "initial" /\ Becomes(adoptionFails(Here, u))
          \/ /\ at = "rotate" /\ ~rot.seen
             /\ \/ rot.pc = "compose" /\ Becomes(fails(seen))
                \/ rot.pc \in {"await1", "await2", "await3"} /\ Becomes(drains(seen))
                \/ /\ rot.pc \in {"drain", "aborting", "rewait"}
                   /\ Becomes([seen EXCEPT !.rot.lostMore = TRUE])

(***************************************************************************)
(* The lifecycle worker: reaps, terminal retirements, recoveries.          *)
(***************************************************************************)
cleared(w, u) ==
    unmapped([w EXCEPT !.eff.units = 0, !.eff.adopting = FALSE], u)

\* classifyObserverSource: every answer that the session may give.
decisions(g) ==
    {IF ~src.here THEN "gone"
     ELSE IF src.owner = gen[g].owner /\ src.shape = gen[g].shape THEN "lost" ELSE "replaced"}
    \cup (IF Trouble THEN {"ambiguous"} ELSE {})

\* reapUnitContext up to the classification of its source.
Reap(u) ==
    LET w == [Here EXCEPT !.unit[u].reaped = TRUE,
                          !.eff.adopting = @ /\ unit[u].kind = "birth"]
        current == IF eff.active # 0 THEN unit[u].wits \cap {eff.active} ELSE unit[u].wits
    IN /\ job.pc = "free" /\ unit[u].pc = "over" /\ ~unit[u].reaped
       /\ IF unit[u].stalled \/ unit[u].exit = "fault" THEN Becomes(reapFaulted(Here, u))
          ELSE IF eff.units # u THEN Becomes(w)
          ELSE IF current = {} THEN Becomes(cleared(abortHolder(w, unit[u].holder), u))
          ELSE \E g \in current : \E decision \in decisions(g) :
                  Becomes([IF decision = "ambiguous" THEN troubled(w) ELSE w EXCEPT
                             !.job = [pc |-> "judged", unit |-> u, active |-> eff.active, gen |-> g,
                                      decision |-> decision]])

\* reapUnitOnceContext once its source is judged, if the session still is the unit's.
ReapEnds ==
    LET u == job.unit
        lost == job.decision = "lost"
        recovers == lost /\ unit[u].kind # "recover"
        held == IF lost THEN Here ELSE abortHolder(Here, unit[u].holder)
        w == [cleared(held, u) EXCEPT !.eff.active = IF recovers THEN @ ELSE 0]
        told == IF job.decision = "replaced" THEN replacement(w, job.gen) ELSE w
        owned == eff.units = u /\ eff.active = job.active
    IN /\ job.pc = "judged" /\ job.decision # "gone"
       /\ Becomes(IF ~owned THEN [held EXCEPT !.job = Free]
                  ELSE [told EXCEPT !.job = IF recovers THEN [job EXCEPT !.pc = "recover"] ELSE Free])

\* queueTerminalRetirement
RetirementBegins ==
    /\ job.pc = "judged" /\ job.decision = "gone"
    /\ Becomes([abortHolder(Here, unit[job.unit].holder) EXCEPT
                  !.job = [Free EXCEPT !.pc = "retire"],
                  !.retry = [unit |-> job.unit, gen |-> job.gen]])

\* settleOwnerGone: the generation ends with a retiring boundary.
ownerGone(w, u, g) ==
    [cleared(w, u) EXCEPT !.eff.active = 0, !.gen[g].elig = FALSE, !.gen[g].reg = "no",
                          !.gen[g].retire = TRUE, !.gen[g].adm = FALSE, !.gen[g].durable = TRUE]

\* attemptTerminalRetirement: retried until it is settled or somebody else's.
Retirement ==
    LET u == retry.unit
        g == retry.gen
        over == eff.units # u \/ eff.active # g \/ (~eff.broken /\ ~authority(Here, g))
        refusedYet == eff.broken \/ ~usable(gen[g]) \/ ~gen[g].adm
        w == [Here EXCEPT !.job = Free]
    IN /\ retry # NoRetry /\ (job.pc = "retire" \/ (job.pc = "free" /\ (over \/ ~refusedYet)))
       /\ Becomes(IF over THEN [w EXCEPT !.retry = NoRetry]
                  ELSE IF refusedYet THEN w
                  ELSE [ownerGone(w, u, g) EXCEPT !.retry = NoRetry])

\* startObserverRecovery: a new unit takes over the holder and the witnesses, and the
\* rotation it is spawned for is claimed before it runs.
RecoveryStarts ==
    LET g == job.active
        previous == unit[job.unit]
        v == Min(unspawned)
        ok == /\ ~rot.claimed /\ eff.units = 0 /\ g # 0 /\ eff.active = g /\ ~gen[g].held
              /\ ~eff.adopting /\ unspawned # {} /\ previous.holder # 0
        spawned == [claims(Here, "recover", v, g) EXCEPT
                      !.job = Free, !.rot.pc = "spawned", !.eff.adopting = TRUE, !.eff.units = v,
                      !.eff.panes = previous.holder,
                      !.unit[v] = [NewUnit EXCEPT !.kind = "recover", !.pc = "attach", !.read = src.made,
                                                  !.holder = previous.holder, !.wits = previous.wits]]
        refusal == [Here EXCEPT !.job = Free,
                                !.eff.active = IF @ = g /\ eff.units = 0 THEN 0 ELSE @]
    IN /\ job.pc = "recover"
       /\ \/ ok /\ Becomes(spawned)
          \/ ~ok /\ Becomes(refusal)
          \/ ok /\ Trouble /\ Becomes(troubled(refusal))

(***************************************************************************)
(* The specification.                                                      *)
(***************************************************************************)
Recorded == [NewGen EXCEPT !.jr = "kept", !.rt = "live", !.adm = TRUE, !.reg = "yes", !.elig = TRUE,
                           !.init = "ok", !.iowner = 1, !.pub = TRUE, !.owner = 1]
Recorder == [NewUnit EXCEPT !.kind = "birth", !.pc = "stream", !.holder = 1, !.wits = {1}]

InitScene(scene) ==
    LET new == scene.asks \cap {"birth", "adopt"} # {}
    IN /\ src = [here |-> "birth" \notin scene.asks, owner |-> 1, shape |-> 0, made |-> 0]
       /\ unit = [u \in U |-> IF u = 1 /\ ~new THEN Recorder ELSE NewUnit]
       /\ hold = [u \in U |-> IF u = 1 /\ ~new THEN [NewHold EXCEPT !.wit = 1, !.streaming = TRUE,
                                                                    !.committed = TRUE]
                              ELSE NewHold]
       /\ gen = [g \in G |-> IF g = 1 /\ ~new THEN Recorded ELSE NewGen]
       /\ eff = IF new THEN [units |-> 0, active |-> 0, panes |-> 0, adopting |-> FALSE,
                             broken |-> FALSE, minted |-> 0]
                ELSE [units |-> 1, active |-> 1, panes |-> 1, adopting |-> FALSE,
                      broken |-> FALSE, minted |-> 1]
       /\ rot = NoRotation /\ job = Free /\ retry = NoRetry
       /\ ask = [requests |-> scene.asks, caller |-> TRUE, faults |-> scene.faults, birth |-> 0, stage |-> "none"]

Init == \E scene \in Scenes : InitScene(scene)

Source == Output \/ OwnerEnds \/ OwnerReplaced \/ Reshaped \/ CallerLeaves
Reads(u) == Consume(u) \/ ReadEnds(u) \/ TransportLost(u) \/ Stall(u)
Adopting(u) ==
    \/ AdoptionAttaches(u) \/ AdoptionCaptures(u) \/ AdoptionCaptureFails(u) \/ AdoptionPublishes(u)
    \/ AdoptionCancelled(u) \/ AdoptionKept(u) \/ AdoptionUnwinds(u)
Birth == SpawnBirth \/ BirthBegins \/ BirthPublishes \/ BirthTimesOut \/ BirthAborts
Rotation ==
    \/ AutoClaims \/ RefitClaims \/ HandingFails \/ HandsOver \/ RotationStarts \/ RotationCaptures
    \/ RotationCaptureFails \/ RotationMaterializes \/ RotationRegisters \/ RotationAwaits
    \/ RotationRechecks \/ RotationSeals \/ RotationCommits \/ RotationKeeps \/ RotationDrained
    \/ RotationRestores \/ RotationAborts \/ RotationRewaits \/ RotationFinishes
Runtime(g) == InitialEnds(g) \/ StorageFault(g) \/ Retires(g)
Worker == ReapEnds \/ RetirementBegins \/ Retirement \/ RecoveryStarts \/ SpawnAdoption

\* Nothing is left to happen, or it needs a fault that the bound no longer gives.
Done ==
    /\ ~src.here \/ src.made = MaxOut
    /\ job.pc = "free" /\ ask.requests \in {{}, {"refit"}} /\ rot.pc \in {"none", "spawned"}
    /\ \A u \in U : unit[u].pc \in {"none", "stream", "over"}
    /\ UNCHANGED vars

Next ==
    \/ Source \/ Birth \/ Rotation \/ BoundarySettles \/ Worker \/ Done
    \/ \E u \in U : Reads(u) \/ Adopting(u) \/ BirthFinishes(u) \/ Reap(u)
    \/ \E g \in G : Runtime(g)

Spec == Init /\ [][Next]_vars

(***************************************************************************)
(* Properties.                                                             *)
(***************************************************************************)
\* The types of the state.
TypeOK ==
    /\ src.made \in 0..MaxOut /\ src.owner \in 1..2 /\ src.shape \in 0..2
    /\ \A u \in U : /\ unit[u].read \in 0..MaxOut /\ unit[u].holder \in 0..MaxUnits
                    /\ unit[u].wits \subseteq G /\ hold[u].wit \in 0..MaxGens
    /\ \A g \in G : /\ gen[g].jr \in {"none", "open", "kept", "uncertain", "gone"}
                    /\ gen[g].rt \in {"none", "live", "gone"} /\ gen[g].reg \in {"no", "yes", "marked"}
                    /\ gen[g].init \in {"none", "queued", "ok", "bad"} /\ gen[g].tail \in 0..MaxOut
    /\ {eff.units, eff.panes} \subseteq 0..MaxUnits /\ {eff.active, eff.minted} \subseteq 0..MaxGens
    /\ rot.old \in 0..MaxGens /\ rot.new \in 0..MaxGens /\ rot.unit \in 0..MaxUnits
    /\ job.pc \in {"free", "judged", "recover", "retire", "rotating"}

\* What the unit has read and neither generation has: the holder's pending output, and
\* what did not fit into it.
backlog(h) == Len(hold[h].pend) + Len(rot.extra)

\* While a recovery has not yet replaced it, the generation of the lost client is
\* continued after a gap.
recovering(g) == rot.kind = "recover" /\ g = rot.old

\* A generation that is served holds every output its observer has read, once and in
\* order, up to what is kept for one replay: through birth, adoption, rotation,
\* rollback and commit (consumeObserverEvent, restore, commitPending).
RecordedInOrder ==
    LET g == eff.active
        u == eff.units
    IN g # 0 /\ recordingReady(Here, g) /\ ~recovering(g) =>
         /\ ~gen[g].torn
         /\ u # 0 /\ running(Here, u) /\ ~rot.lostMore =>
              gen[g].tail + backlog(unit[u].holder) = unit[u].read

\* A unit that streams is the one the session's map names, or it has been reaped: no
\* control client goes on writing into generations that nobody would end.
RecorderIsOwned ==
    \A u \in U : running(Here, u) /\ unit[u].pc \in {"stream", "rotate"} /\ ~unit[u].reaped => eff.units = u

\* The worker or a caller still has to deal with unit u or its holder.
pendingFor(u) ==
    \/ unit[u].pc # "over" \/ ~unit[u].reaped
    \/ job.unit = u \/ retry.unit = u \/ (ask.birth = u /\ ask.stage \notin {"done", "aborted"})

\* The one unit the maps keep although everybody is done with it: of a birth that was
\* given up before its generation was active, reaped when its session had ended.
\* settleOwnerGone takes only the active generation off the maps (683-687).
leftByBirth(u) ==
    /\ ask.birth = u /\ ask.stage = "aborted" /\ ~hold[u].committed /\ hold[u].aborted
    /\ ~src.here /\ eff.active = 0 /\ unit[u].exit = "plain" /\ ~unit[u].stalled

\* But for that one, the maps of the provider name every unit that records, and no unit
\* and no holder that everybody is done with, so that the next birth, adoption or
\* recovery of the session finds them free (reapUnitContext,
\* reapFaultedUnitOnceWithReason, settleOwnerGone, finishAdoption, abortAdoption,
\* startObserverRecovery).
MapsNameTheLiving ==
    LET kept(u) == pendingFor(u) \/ leftByBirth(u)
    IN /\ RecorderIsOwned
       /\ eff.units # 0 => kept(eff.units)
       /\ eff.panes # 0 => \E u \in U : (u = eff.panes \/ unit[u].holder = eff.panes) /\ kept(u)
       /\ eff.adopting => \E u \in U : /\ unit[u].kind \in {"adopt", "recover", "recovered"}
                                       /\ pendingFor(u)

\* What a rotation or an adoption claimed is settled on every path: a geometry owner
\* lasts as long as its rotation, and a journal reservation as long as somebody is
\* going to commit or abort it (runRotation, settleFatal, abortAdoption).
ReservationsSettle ==
    /\ \A g \in G : gen[g].held => rot.claimed /\ g \in {rot.old, rot.new}
    /\ \A g \in G : gen[g].jr = "open" =>
         \/ rot.claimed /\ g = rot.new /\ rot.pc \notin {"finish", "settled"}
         \/ \E u \in U : unit[u].pc \in {"initial", "keep", "unwind"} /\ hold[u].wit = g

\* A failed rotation ends one way: rolled back, with the predecessor unsealed, routed to
\* and kept in the journal; or fatal, and then neither generation is the session's
\* (restore, settleFatal, retainUncertainRefitFailure).
OneOutcome ==
    rot.pc = "finish" /\ rot.flipped =>
      LET h == unit[rot.unit].holder
      IN /\ rot.err = "failed" =>
              /\ hold[h].wit = rot.old /\ hold[h].committed /\ ~hold[h].rotating
              /\ ~gen[rot.new].adm
              /\ ~gen[rot.old].retire \/ gen[rot.old].failed
              /\ gen[rot.old].jr = "kept" \/ gen[rot.old].failed
         /\ rot.err = "fatal" /\ unit[rot.unit].reaped =>
              /\ eff.active \notin {rot.old, rot.new}
              /\ hold[h].aborted

\* A generation that has ceased to be the session's never is again, and one whose end
\* was decided takes no more output (Commit, the reaps, ObservePane).
NoRevival ==
    [][\A g \in G :
         /\ gen[g].pub /\ eff.active # g => eff'.active # g
         /\ gen[g].retire \/ gen[g].failed => gen'[g].tail = gen[g].tail]_vars

\* unified_dev_lifecycle.go: "every control connection belongs to exactly one observed
\* session's unit".  What is served was recorded once and in order.
RecordedOnce == eff.active # 0 /\ recordingReady(Here, eff.active) => ~gen[eff.active].torn

\* unified_rotation.go: "The unit now owns rollback, reservation settlement and owner
\* release."  A rotation that is claimed has a unit that will settle it.
ClaimedIsDriven == rot.claimed /\ rot.pc # "handing" => running(Here, rot.unit)

=============================================================================
