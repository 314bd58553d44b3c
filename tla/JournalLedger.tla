--------------------------- MODULE JournalLedger ---------------------------
(***************************************************************************)
(* The capacity ledgers of one unifiedjournal.Realm: the logical and the   *)
(* physical byte budgets, the complete-pane slots, and everything that may *)
(* hold part of them: geometry reservations, adoption allowances and the   *)
(* R1/R2/R3 holds of a rotation.  Every operation enters the ticket lock   *)
(* of retention.go for its whole duration, so one operation is one step;   *)
(* unlink, header writes and record writes may fail.                       *)
(*                                                                         *)
(* An amount is a record of both units, so each rule is stated once for    *)
(* both ledgers.  The realm is one record that operators transform the way *)
(* the code's *Locked helpers do.                                          *)
(***************************************************************************)
EXTENDS Integers, FiniteSets, FiniteSetsExt

CONSTANTS
  Key,           \* generation keys; a key is minted once (ControlGeneration)
  Session,       \* [Key -> session the generation belongs to]
  Gen,           \* [Key -> Nat], ControlGeneration
  PaneCap, RealmCap,     \* caps, as amounts
  Slots,         \* complete-pane slots
  Header,        \* physical size of a header
  HeaderReserve, \* what a rotation holds for the successor's header
  Frame,         \* append frame plus commit frame; also geometryRecordCost
  PendingBytes, PendingRecords,      \* rotation R1/R3 shape
  BootstrapBytes, BootstrapRecords,  \* rotation R2 shape
  PayloadSizes,  \* sizes a caller appends
  MaxIdentities, \* MaxRealmIdentities
  MaxRestarts    \* bound: broker restarts

Dim == {"logical", "physical"}
Amount == [Dim -> Int]

ASSUME LedgerAssumption ==
  /\ IsFiniteSet(Key) /\ Gen \in [Key -> Nat]
  /\ PaneCap \in [Dim -> Nat] /\ RealmCap \in [Dim -> Nat]
  /\ {Slots, Header, HeaderReserve, Frame, PendingBytes, PendingRecords,
      BootstrapBytes, BootstrapRecords, MaxIdentities, MaxRestarts} \subseteq Nat
  /\ Header <= HeaderReserve /\ Slots > 0
  /\ PayloadSizes \subseteq Nat

VARIABLES
  realm,     \* panes, the two realm ledgers, slots
  capacity,  \* [Key -> RotationCapacity held for that predecessor]
  rotation,  \* [Key -> RotationReservation of that predecessor]
  adoption,  \* [Key -> AdoptionReservation]: "none", "held" or "settled"
  geometry,  \* keys with an outstanding GeometryReservation
  used,      \* keys minted so far
  restarts

vars == <<realm, capacity, rotation, adoption, geometry, used, restarts>>

Zero == [d \in Dim |-> 0]
Plus(a, b) == [d \in Dim |-> a[d] + b[d]]
Minus(a, b) == [d \in Dim |-> a[d] - b[d]]
Least(a, b) == [d \in Dim |-> IF a[d] <= b[d] THEN a[d] ELSE b[d]]
Bytes(l, p) == [d \in Dim |-> IF d = "logical" THEN l ELSE p]

headerCost == Bytes(0, Header)
physicalAppendCost(n) == Bytes(n, n + Frame)
geometryRecordCost == Bytes(Frame, Frame)

\* Mutant: the replayed records of the successor are held without framing.
successorHold_unframed ==
  Bytes(BootstrapBytes + PendingBytes,
        HeaderReserve + BootstrapBytes + BootstrapRecords * Frame + PendingBytes)

\* R1 for the predecessor; R2+R3 for the successor.
rollbackHold == Bytes(PendingBytes, PendingBytes + PendingRecords * Frame)
successorHold ==
  Bytes(BootstrapBytes + PendingBytes,
        HeaderReserve + BootstrapBytes + BootstrapRecords * Frame
          + PendingBytes + PendingRecords * Frame)

\* A record-shaped hold: bytes of both units and how many records may draw.
NoHold == [bytes |-> Zero, records |-> 0]

\* rollback is R1, "held" by a rotation capacity and "armed" once predecessor
\* appends may draw on it; forward is what a rotated successor got of R2+R3.
\* marks: "corrupt", "settled" (failed owner), "attributed" (its source is
\* known), "file" (the file may still exist).
Absent ==
  [state |-> "absent", slotRetired |-> TRUE, charge |-> Zero, held |-> Zero,
   adoption |-> Zero, rollback |-> NoHold, capacity |-> "none", forward |-> NoHold,
   marks |-> {}]

FreshPane ==
  [Absent EXCEPT !.state = "continuous", !.slotRetired = FALSE, !.charge = headerCost,
                 !.marks = {"attributed", "file"}]

NoCapacity == [held |-> FALSE, attempted |-> FALSE, materialized |-> FALSE,
               active |-> FALSE, successor |-> Zero]

NoRotation == [held |-> FALSE, committed |-> FALSE, failed |-> FALSE, successor |-> {}]

present(r) == {k \in Key : r.panes[k].state # "absent"}

-----------------------------------------------------------------------------
(* Helpers: realm record to realm record, as the *Locked helpers.           *)

invalidatePane(p) == [p EXCEPT !.state = "untrusted"]
slotless(p) == [p EXCEPT !.slotRetired = TRUE]
unlinked(p) == [p EXCEPT !.charge = Zero, !.marks = @ \ {"file"}]
marked(p, m) == [p EXCEPT !.marks = @ \cup {m}]
charging(p, c) == [p EXCEPT !.charge = Plus(@, c)]
holding(p, a) == [p EXCEPT !.held = Plus(@, a)]
unholding(p, a) == [p EXCEPT !.held = Minus(@, a)]

\* Mutant: held capacity is not counted.
room_ignoresHeld(r, p, cost) ==
  \A d \in Dim : cost[d] <= PaneCap[d] - p.charge[d] /\ cost[d] <= RealmCap[d] - r.total[d]

\* logicalRoom and physicalRoom: held capacity counts as spent.
room(r, p, cost) ==
  \A d \in Dim :
    /\ cost[d] <= PaneCap[d] - (p.charge[d] + p.held[d])
    /\ cost[d] <= RealmCap[d] - (r.total[d] + r.reserved[d])

mayReserveSlot(r, reserveLast) == r.slots < (IF reserveLast THEN Slots - 1 ELSE Slots)

takeSlot(r) == [r EXCEPT !.slots = @ + 1]

\* releaseCompletePane and retireCompletePane floor at zero.
releaseSlot(r) == [r EXCEPT !.slots = IF @ > 0 THEN @ - 1 ELSE 0]

\* createPaneWithHeader, header written.
materialize(r, k) ==
  [r EXCEPT !.panes[k] = FreshPane, !.total = Plus(@, headerCost)]

\* createPaneWithHeader, header write failed and so did the unlink: the charge
\* stays in the realm total, attributed to no pane.
orphanHeader(r) ==
  [r EXCEPT !.total = Plus(@, headerCost), !.orphan = Plus(@, headerCost)]

\* Unlink proven: both charges return to the realm.
refund(r, k) ==
  [r EXCEPT !.total = Minus(@, r.panes[k].charge), !.panes[k] = unlinked(@)]

forget(r, k) == [r EXCEPT !.panes[k] = Absent]

\* Mutant: the realm keeps what the generation gives back.
releaseAllowance_paneOnly(r, k) ==
  [r EXCEPT !.panes[k] = [unholding(@, @.adoption) EXCEPT !.adoption = Zero]]

\* releaseAdoptionAllowanceLocked
releaseAllowance(r, k) ==
  [r EXCEPT !.reserved = Minus(@, r.panes[k].adoption),
            !.panes[k] = [unholding(@, @.adoption) EXCEPT !.adoption = Zero]]

\* releaseRotationRollbackLocked; rotationCapacityHeld and
\* rotationRollbackReserved are set and cleared together.
releaseRollback(r, k) ==
  IF r.panes[k].capacity = "none" THEN r
  ELSE [r EXCEPT !.reserved = Minus(@, r.panes[k].rollback.bytes),
                 !.panes[k] = [unholding(@, @.rollback.bytes) EXCEPT
                                 !.rollback = NoHold, !.capacity = "none"]]

\* releaseRotationPaneReservationsLocked
releaseForward(r, k) ==
  LET q == releaseRollback(r, k)
  IN [q EXCEPT !.reserved = Minus(@, q.panes[k].forward.bytes),
               !.panes[k] = [unholding(@, @.forward.bytes) EXCEPT !.forward = NoHold]]

\* Mutant: the slot is released by everyone who retires the generation.
retireSlot_again(r, k) == releaseSlot([r EXCEPT !.panes[k] = slotless(@)])

\* A slot is given back once, by whoever retires the generation.
retireSlot(r, k) ==
  IF r.panes[k].slotRetired THEN r
  ELSE releaseSlot([r EXCEPT !.panes[k] = slotless(@)])

invalidate(r, k) ==
  IF r.panes[k].state = "absent" THEN r ELSE [r EXCEPT !.panes[k] = invalidatePane(@)]

\* Slot-retired generations of k's session, the ones a sweep tries to unlink.
stale(r, k) == {s \in present(r) \ {k} : r.panes[s].slotRetired /\ Session[s] = Session[k]}

sumOf(f, S) == MapThenSumSet(LAMBDA k : f[k], S)

charges(panes, d) == [k \in Key |-> panes[k].charge[d]]

refunded(r, gone) == [d \in Dim |-> sumOf(charges(r.panes, d), gone)]

\* sweepRetiredSessionLocked, where "gone" are the files whose unlink succeeds.
sweep(r, gone) ==
  [r EXCEPT !.total = Minus(@, refunded(r, gone)),
            !.panes = [s \in Key |-> IF s \in gone THEN Absent ELSE @[s]]]

-----------------------------------------------------------------------------
Init ==
  /\ realm = [panes |-> [k \in Key |-> Absent], total |-> Zero, reserved |-> Zero,
              slots |-> 0, orphan |-> Zero]
  /\ capacity = [k \in Key |-> NoCapacity]
  /\ rotation = [k \in Key |-> NoRotation]
  /\ adoption = [k \in Key |-> "none"]
  /\ geometry = {} /\ used = {} /\ restarts = 0

pane(k) == realm.panes[k]

successorOf(k) == {j \in Key : rotation[j].held /\ rotation[j].successor = {k}}

\* A generation whose adoption or rotation has not settled yet: the broker has
\* not activated a unit for it, so lifecycle operations do not reach it.
provisional(k) == adoption[k] = "held" \/ successorOf(k) # {}

live(k) == pane(k).state = "continuous"

\* mintControlGeneration: keys are minted in order and never twice.
fresh(k) == k \notin used /\ \A j \in Key \ used : Gen[k] <= Gen[j]

\* admitPane(OriginBirth).
AdmitPane(k) ==
  /\ fresh(k)
  /\ Cardinality(present(realm)) < MaxIdentities
  /\ mayReserveSlot(realm, TRUE)
  /\ room(realm, Absent, headerCost)
  /\ realm' \in {takeSlot(materialize(realm, k)), orphanHeader(realm)}
  /\ used' = used \cup {k}
  /\ UNCHANGED <<capacity, rotation, adoption, geometry, restarts>>

-----------------------------------------------------------------------------
(* Adoption: BeginReconstructedPane, Commit, Abort.                         *)

sameSource(r, k) == {s \in present(r) \ {k} : Session[s] = Session[k] /\ "attributed" \in r.panes[s].marks}

\* settledFailedCandidate
failedCandidates(r, k) ==
  {s \in sameSource(r, k) :
     /\ r.panes[s].state = "untrusted" /\ ~r.panes[s].slotRetired
     /\ "settled" \in r.panes[s].marks /\ "corrupt" \notin r.panes[s].marks
     /\ r.panes[s].held = Zero /\ r.panes[s].adoption = Zero
     /\ r.panes[s].forward.bytes = Zero /\ r.panes[s].capacity = "none"}

newest(S) == {s \in S : \A t \in S : Gen[t] <= Gen[s]}

\* retireRecoveredForReconstructionLocked's candidates.
recoveredCandidates(r, k) ==
  {s \in sameSource(r, k) : r.panes[s].state = "legacy" /\ ~r.panes[s].slotRetired}

\* One recovered slot moves to the new generation, the others are released.
retireRecovered(r, k) ==
  LET S == recoveredCandidates(r, k)
      n == r.slots - (Cardinality(S) - 1)
  IN [r EXCEPT !.panes = [s \in Key |-> IF s \in S THEN slotless(@[s]) ELSE @[s]],
               !.slots = IF n > 0 THEN n ELSE 0]

\* The realm after the slot of the new generation is found, with the charge a
\* transferred failed generation gave up.
slotFound(k) ==
  LET F == failedCandidates(realm, k)
  IN IF F # {} THEN {[realm |-> forget(refund(realm, f), f), given |-> pane(f).charge] :
                       f \in newest(F)}
     ELSE IF recoveredCandidates(realm, k) # {}
     THEN {[realm |-> retireRecovered(realm, k), given |-> Zero]}
     ELSE IF mayReserveSlot(realm, TRUE) THEN {[realm |-> takeSlot(realm), given |-> Zero]}
     ELSE {}

\* The header is paid from the allowance when it fits there; otherwise the
\* physical allowance is returned and the header needs ordinary room.
headerFits(allowance) == allowance["physical"] >= Header
afterHeader(allowance) ==
  IF headerFits(allowance) THEN Minus(allowance, headerCost)
  ELSE Bytes(allowance["logical"], 0)

\* adopted: created; refused by room or a quota, or a header that was written
\* in part and proven gone; orphaned: its unlink failed too.
adopted(r, k, allowance) ==
  LET held == afterHeader(allowance)
      q == materialize(r, k)
  IN [q EXCEPT !.reserved = Plus(@, held),
               !.panes[k] = [@ EXCEPT !.held = held, !.adoption = held]]

headerPaid(r, allowance) ==
  headerFits(allowance)
    \/ room([r EXCEPT !.reserved = Plus(@, Bytes(allowance["logical"], 0))], Absent, headerCost)

BeginReconstructedPane(k) ==
  /\ fresh(k)
  /\ Cardinality(present(realm)) < MaxIdentities
  /\ \E found \in slotFound(k) :
     \E gone \in SUBSET stale(found.realm, k) :
       LET back == refunded(found.realm, gone)
           r == sweep(found.realm, gone)
           allowance == Least(Plus(back, found.given), PaneCap)
       IN \/ /\ headerPaid(r, allowance)
             /\ realm' = adopted(r, k, allowance)
             /\ adoption' = [adoption EXCEPT ![k] = "held"]
          \/ /\ realm' = releaseSlot(r)
             /\ UNCHANGED adoption
          \/ /\ headerPaid(r, allowance)
             /\ realm' = orphanHeader(releaseSlot(r))
             /\ UNCHANGED adoption
  /\ used' = used \cup {k}
  /\ UNCHANGED <<capacity, rotation, geometry, restarts>>

AdoptionCommit(k) ==
  /\ adoption[k] = "held"
  /\ adoption' = [adoption EXCEPT ![k] = "settled"]
  /\ LET r == releaseAllowance(realm, k)
     IN \E gone \in SUBSET stale(r, k) : realm' = sweep(r, gone)
  /\ UNCHANGED <<capacity, rotation, geometry, used, restarts>>

\* Abort and the two rotation outcomes that discard a generation end alike: it
\* becomes a tombstone, its charge returned only when the unlink is proven.
tombstones(r, k) ==
  LET t == [invalidate(r, k) EXCEPT !.panes[k] = slotless(@)]
  IN {t, refund(t, k)}

AdoptionAbort(k) ==
  /\ adoption[k] = "held"
  /\ adoption' = [adoption EXCEPT ![k] = "settled"]
  /\ realm' \in tombstones(releaseAllowance(releaseSlot(realm), k), k)
  /\ UNCHANGED <<capacity, rotation, geometry, used, restarts>>

-----------------------------------------------------------------------------
(* Retirement of an activated generation.                                   *)

RetirePane(k) ==
  /\ k \in present(realm) /\ ~provisional(k)
  /\ LET r == invalidate(realm, k)
         q == retireSlot(r, k)
     IN IF pane(k).held # Zero \/ pane(k).capacity # "none"
        THEN realm' = r
        ELSE realm' \in {q, forget(refund(q, k), k)}
  /\ UNCHANGED <<capacity, rotation, adoption, geometry, used, restarts>>

\* Writer.SettleFailedOwner, after the owner of a failed generation is done.
SettleFailedOwner(k) ==
  /\ pane(k).state = "untrusted" /\ ~provisional(k) /\ "settled" \notin pane(k).marks
  /\ realm' = [realm EXCEPT !.panes[k] = marked(@, "settled")]
  /\ UNCHANGED <<capacity, rotation, adoption, geometry, used, restarts>>

\* ReclaimRetired: forget a tombstone whose file is proven gone.
ReclaimRetired(k) ==
  /\ k \in present(realm)
  /\ pane(k).slotRetired /\ "file" \notin pane(k).marks
  /\ pane(k).charge = Zero /\ pane(k).held = Zero /\ pane(k).capacity = "none"
  /\ realm' = forget(realm, k)
  /\ UNCHANGED <<capacity, rotation, adoption, geometry, used, restarts>>

-----------------------------------------------------------------------------
(* Rotation: RotationCapacity and RotationReservation.                      *)

\* The rotation that made k has not let go of its reservation yet; the unit
\* starts no other one before that.
rotating(k) == \E j \in Key : rotation[j].committed /\ rotation[j].successor = {k}

BeginRotationCapacity(k) ==
  /\ live(k) /\ ~provisional(k) /\ ~rotating(k)
  /\ ~pane(k).slotRetired /\ pane(k).capacity = "none"
  /\ mayReserveSlot(realm, FALSE)
  /\ \A d \in Dim :
       /\ rollbackHold[d] <= PaneCap[d] - pane(k).charge[d] - pane(k).held[d]
       /\ successorHold[d] <= PaneCap[d]
       /\ rollbackHold[d] + successorHold[d] <= RealmCap[d] - realm.total[d] - realm.reserved[d]
  /\ realm' = [takeSlot(realm) EXCEPT
                 !.reserved = Plus(Plus(@, rollbackHold), successorHold),
                 !.panes[k] = [holding(@, rollbackHold) EXCEPT
                                 !.rollback = [bytes |-> rollbackHold, records |-> PendingRecords],
                                 !.capacity = "held"]]
  /\ capacity' = [capacity EXCEPT ![k] = [NoCapacity EXCEPT !.held = TRUE,
                                                           !.successor = successorHold]]
  /\ rotation' = [rotation EXCEPT ![k] = NoRotation]
  /\ UNCHANGED <<adoption, geometry, used, restarts>>

\* RotationCapacity.Release: nothing while a reservation owns the capacity.
ReleaseCapacity(k) ==
  /\ capacity[k].held /\ ~capacity[k].active
  /\ LET r == releaseRollback(realm, k)
     IN realm' = IF capacity[k].materialized THEN r
                 ELSE releaseSlot([r EXCEPT !.reserved = Minus(@, capacity[k].successor)])
  /\ capacity' = [capacity EXCEPT ![k] = NoCapacity]
  /\ UNCHANGED <<rotation, adoption, geometry, used, restarts>>

armRollback(r, k) ==
  IF r.panes[k].capacity = "none" THEN r
  ELSE [r EXCEPT !.panes[k] = [@ EXCEPT !.capacity = "armed"]]

ArmRollback(k) ==
  /\ capacity[k].held /\ ~capacity[k].materialized /\ ~capacity[k].active
  /\ k \in present(realm) /\ pane(k).capacity # "none"
  /\ realm' = armRollback(realm, k)
  /\ UNCHANGED <<capacity, rotation, adoption, geometry, used, restarts>>

BeginRotatedPane(k, s) ==
  /\ capacity[k].held
  /\ ~capacity[k].attempted /\ ~capacity[k].materialized /\ ~capacity[k].active
  /\ live(k) /\ ~pane(k).slotRetired /\ pane(k).capacity = "held"
  /\ fresh(s) /\ Session[s] = Session[k]
  /\ LET rest == Minus(capacity[k].successor, Bytes(0, HeaderReserve))
     IN \/ /\ Cardinality(present(realm)) < MaxIdentities
           /\ realm' = [materialize(realm, s) EXCEPT
                          !.reserved = Minus(@, Bytes(0, HeaderReserve)),
                          !.panes[s] = [@ EXCEPT
                            !.held = rest,
                            !.forward = [bytes |-> rest,
                                         records |-> BootstrapRecords + PendingRecords]]]
           /\ capacity' = [capacity EXCEPT ![k] = [@ EXCEPT !.attempted = TRUE, !.active = TRUE,
                                                         !.materialized = TRUE, !.successor = Zero]]
           /\ rotation' = [rotation EXCEPT ![k] = [NoRotation EXCEPT !.held = TRUE,
                                                                    !.successor = {s}]]
        \* Creation refused, or failed and proven gone.
        \/ /\ capacity' = [capacity EXCEPT ![k].attempted = TRUE]
           /\ UNCHANGED <<realm, rotation>>
        \* Failed with its header retained: the charge comes out of the hold.
        \/ /\ Cardinality(present(realm)) < MaxIdentities
           /\ realm' = [orphanHeader(realm) EXCEPT !.reserved = Minus(@, headerCost)]
           /\ capacity' = [capacity EXCEPT ![k].attempted = TRUE,
                                           ![k].successor = Minus(@, headerCost)]
           /\ UNCHANGED rotation
  /\ used' = used \cup {s}
  /\ UNCHANGED <<adoption, geometry, restarts>>

theSuccessor(k) == CHOOSE s \in Key : rotation[k].successor = {s}

RotationCommit(k) ==
  /\ rotation[k].held
  /\ LET s == theSuccessor(k)
         r == releaseForward(releaseRollback(realm, k), s)
         q == IF r.panes[k].slotRetired THEN r ELSE retireSlot(invalidate(r, k), k)
     IN \E gone \in SUBSET stale(q, s) : realm' = sweep(q, gone)
  /\ rotation' = [rotation EXCEPT ![k].held = FALSE, ![k].committed = TRUE]
  /\ capacity' = [capacity EXCEPT ![k] = NoCapacity]
  /\ UNCHANGED <<adoption, geometry, used, restarts>>

\* The composite finished after its commit and drops the reservation.
RotationSettled(k) ==
  /\ rotation[k].committed
  /\ rotation' = [rotation EXCEPT ![k] = NoRotation]
  /\ UNCHANGED <<realm, capacity, adoption, geometry, used, restarts>>

\* RotationReservation.FailCommitted: activation failed after the commit.
\* Idempotent, so a failed unlink can be retried.
RotationFailCommitted(k) ==
  /\ rotation[k].committed \/ rotation[k].failed
  /\ rotation' = [rotation EXCEPT ![k].failed = TRUE, ![k].committed = FALSE]
  /\ LET s == theSuccessor(k)
         r == retireSlot(invalidate(realm, s), s)
     IN realm' \in IF s \in present(realm) THEN {r, forget(refund(r, s), s)} ELSE {realm}
  /\ UNCHANGED <<capacity, adoption, geometry, used, restarts>>

RotationAbort(k) ==
  /\ rotation[k].held
  /\ rotation' = [rotation EXCEPT ![k].held = FALSE]
  /\ capacity' = [capacity EXCEPT ![k].active = FALSE]
  /\ LET s == theSuccessor(k)
     IN realm' \in tombstones(releaseSlot(releaseForward(armRollback(realm, k), s)), s)
  /\ UNCHANGED <<adoption, geometry, used, restarts>>

\* Fatal: the predecessor is past its point of no return too, so both go.
RotationFatal(k) ==
  /\ rotation[k].held
  /\ rotation' = [rotation EXCEPT ![k].held = FALSE]
  /\ capacity' = [capacity EXCEPT ![k] = NoCapacity]
  /\ LET s == theSuccessor(k)
         r == releaseRollback(retireSlot(invalidate(realm, k), k), k)
     IN realm' \in tombstones(releaseSlot(releaseForward(r, s)), s)
  /\ UNCHANGED <<adoption, geometry, used, restarts>>

-----------------------------------------------------------------------------
(* Appends.                                                                 *)

\* Which hold an append draws from: a rotated successor's forward credit, then
\* an armed predecessor rollback, then an adoption allowance.
holdOf(p) ==
  IF p.forward.bytes["logical"] > 0 THEN "forward"
  ELSE IF p.capacity = "armed" /\ p.rollback.bytes["logical"] > 0 /\ p.rollback.records > 0
  THEN "rollback"
  ELSE IF p.adoption # Zero THEN "adoption"
  ELSE "none"

holdAmount(p, hold) ==
  CASE hold = "forward"  -> p.forward.bytes
    [] hold = "rollback" -> p.rollback.bytes
    [] hold = "adoption" -> p.adoption
    [] OTHER             -> Zero

\* Mutant: a hold pays the whole record, whatever is left in it.
drawn_whole(p, cost) == IF holdOf(p) = "none" THEN Zero ELSE cost

\* The part of cost the hold pays.  A record-shaped hold pays the framing of
\* one record at most; the adoption allowance is spent unit by unit.
drawn(p, cost) ==
  LET hold == holdOf(p)
      some == Least(cost, holdAmount(p, hold))
      capped == some["logical"] + Frame
  IN IF hold \in {"none", "adoption"} \/ some["physical"] <= capped THEN some
     ELSE Bytes(some["logical"], capped)

\* The pane and realm with the drawn part converted from held to spendable.
draw(r, k, amount) ==
  LET p == r.panes[k]
      hold == holdOf(p)
      q == unholding(p, amount)
      less(h) == [bytes |-> Minus(h.bytes, amount), records |-> h.records - 1]
      spent == CASE hold = "forward"  -> [q EXCEPT !.forward = less(@)]
                 [] hold = "rollback" -> [q EXCEPT !.rollback = less(@)]
                 [] hold = "adoption" -> [q EXCEPT !.adoption = Minus(@, amount)]
                 [] OTHER             -> q
  IN [r EXCEPT !.reserved = Minus(@, amount), !.panes[k] = spent]

spend(r, k, cost) ==
  [r EXCEPT !.total = Plus(@, cost), !.panes[k] = charging(@, cost)]

\* A write that fails keeps the physical charge only and ends the generation.
spendTorn(r, k, cost) == invalidate(spend(r, k, Bytes(0, cost["physical"])), k)

\* Out of records in the forward credit is refused and changes nothing.
recordLimited(p) == holdOf(p) = "forward" /\ p.forward.records = 0

AppendOutput(k, n) ==
  /\ live(k) /\ ~recordLimited(pane(k))
  /\ LET cost == physicalAppendCost(n)
         paid == drawn(pane(k), cost)
         r == draw(realm, k, paid)
     IN IF room(realm, pane(k), Minus(cost, paid))
        THEN realm' \in {spend(r, k, cost), spendTorn(r, k, cost)}
        ELSE realm' = invalidate(realm, k)
  /\ UNCHANGED <<capacity, rotation, adoption, geometry, used, restarts>>

AppendGeometry(k) ==
  /\ live(k)
  /\ IF room(realm, pane(k), geometryRecordCost)
     THEN realm' \in {spend(realm, k, geometryRecordCost), spendTorn(realm, k, geometryRecordCost)}
     ELSE realm' = invalidate(realm, k)
  /\ UNCHANGED <<capacity, rotation, adoption, geometry, used, restarts>>

\* A refused reservation changes nothing, in particular not the generation.
ReserveGeometry(k) ==
  /\ live(k) /\ ~provisional(k) /\ k \notin geometry
  /\ room(realm, pane(k), geometryRecordCost)
  /\ realm' = [realm EXCEPT !.reserved = Plus(@, geometryRecordCost),
                            !.panes[k] = holding(@, geometryRecordCost)]
  /\ geometry' = geometry \cup {k}
  /\ UNCHANGED <<capacity, rotation, adoption, used, restarts>>

\* GeometryReservation.releaseLocked: the generation may be gone by then.
releaseGeometry(r, k) ==
  LET q == [r EXCEPT !.reserved = Minus(@, geometryRecordCost)]
  IN IF r.panes[k].state = "absent" THEN q
     ELSE [q EXCEPT !.panes[k] = unholding(@, geometryRecordCost)]

ReleaseGeometry(k) ==
  /\ k \in geometry
  /\ geometry' = geometry \ {k}
  /\ realm' = releaseGeometry(realm, k)
  /\ UNCHANGED <<capacity, rotation, adoption, used, restarts>>

\* Consumes the reservation whatever happens; no room is checked again.
AppendReservedGeometry(k) ==
  /\ k \in geometry
  /\ geometry' = geometry \ {k}
  /\ LET r == releaseGeometry(realm, k)
     IN realm' \in IF live(k)
                   THEN {spend(r, k, geometryRecordCost), spendTorn(r, k, geometryRecordCost)}
                   ELSE {r}
  /\ UNCHANGED <<capacity, rotation, adoption, used, restarts>>

\* Sync or AdvanceCommitted failed.
CommitFails(k) ==
  /\ live(k)
  /\ realm' = invalidate(realm, k)
  /\ UNCHANGED <<capacity, rotation, adoption, geometry, used, restarts>>

-----------------------------------------------------------------------------
(* Restart: every file that still exists is scanned, charged and given a   *)
(* slot; nothing else survives.  A file that does not parse keeps its      *)
(* physical charge and loses its output charge.  A header that was left    *)
(* behind in part refuses the whole realm, so this step needs none.        *)

recoveredPane(p, corrupt) ==
  [Absent EXCEPT !.state = IF corrupt THEN "untrusted" ELSE "legacy",
                 !.slotRetired = FALSE,
                 !.marks = IF corrupt THEN {"corrupt", "file"} ELSE {"file"},
                 !.charge = IF corrupt THEN Bytes(0, p.charge["physical"]) ELSE p.charge]

Restart ==
  /\ restarts < MaxRestarts
  /\ realm.orphan = Zero
  /\ LET files == {k \in present(realm) : "file" \in pane(k).marks}
     IN \E bad \in SUBSET files :
          LET scanned == [k \in Key |-> IF k \in files THEN recoveredPane(pane(k), k \in bad)
                                        ELSE Absent]
              total == [d \in Dim |-> sumOf(charges(scanned, d), files)]
          IN realm' = [panes |-> scanned, total |-> total, reserved |-> Zero,
                       slots |-> Cardinality(files), orphan |-> Zero]
  /\ restarts' = restarts + 1
  /\ capacity' = [k \in Key |-> NoCapacity]
  /\ rotation' = [k \in Key |-> NoRotation]
  /\ adoption' = [k \in Key |-> "none"]
  /\ geometry' = {}
  /\ UNCHANGED used

\* AttributeRecoveredSource
AttributeRecovered(k) ==
  /\ pane(k).state = "legacy" /\ "attributed" \notin pane(k).marks
  /\ realm' = [realm EXCEPT !.panes[k] = marked(@, "attributed")]
  /\ UNCHANGED <<capacity, rotation, adoption, geometry, used, restarts>>

\* ReconcileRecovered retires what an authoritative inventory shows absent or
\* replaced, never a corrupt generation.
ReconcileRecovered(k) ==
  /\ pane(k).state = "legacy"
  /\ LET q == retireSlot(invalidate(realm, k), k)
     IN realm' \in {q, forget(refund(q, k), k)}
  /\ UNCHANGED <<capacity, rotation, adoption, geometry, used, restarts>>

\* ReclaimRetiredSession on behalf of a key about to be admitted.  "kept" are
\* the recovered generations the inventory kept exact, which give up their slot.
ReclaimRetiredSession(k) ==
  /\ fresh(k)
  /\ \E kept \in SUBSET {s \in present(realm) : pane(s).state = "legacy"
                              /\ ~pane(s).slotRetired /\ Session[s] = Session[k]} :
       LET n == realm.slots - Cardinality(kept)
           r == [realm EXCEPT
                   !.panes = [s \in Key |-> IF s \in kept THEN slotless(@[s]) ELSE @[s]],
                   !.slots = IF n > 0 THEN n ELSE 0]
       IN \E gone \in SUBSET stale(r, k) :
            /\ kept \cup gone # {}
            /\ realm' = sweep(r, gone)
  /\ UNCHANGED <<capacity, rotation, adoption, geometry, used, restarts>>

Next ==
  \E k \in Key :
    \/ AdmitPane(k) \/ BeginReconstructedPane(k) \/ AdoptionCommit(k) \/ AdoptionAbort(k)
    \/ RetirePane(k) \/ SettleFailedOwner(k) \/ ReclaimRetired(k) \/ ReclaimRetiredSession(k)
    \/ BeginRotationCapacity(k) \/ ReleaseCapacity(k) \/ ArmRollback(k)
    \/ \E s \in Key : BeginRotatedPane(k, s)
    \/ RotationCommit(k) \/ RotationSettled(k) \/ RotationFailCommitted(k)
    \/ RotationAbort(k) \/ RotationFatal(k)
    \/ \E n \in PayloadSizes : AppendOutput(k, n)
    \/ AppendGeometry(k) \/ ReserveGeometry(k) \/ ReleaseGeometry(k) \/ AppendReservedGeometry(k)
    \/ CommitFails(k) \/ AttributeRecovered(k) \/ ReconcileRecovered(k)
    \/ Restart

Spec == Init /\ [][Next]_vars

-----------------------------------------------------------------------------
HoldType == [bytes : [Dim -> Nat], records : Int]

PaneType ==
  [state : {"absent", "continuous", "untrusted", "legacy"}, slotRetired : BOOLEAN,
   charge : [Dim -> Nat], held : Amount, adoption : [Dim -> Nat], rollback : HoldType,
   capacity : {"none", "held", "armed"}, forward : HoldType,
   marks : SUBSET {"corrupt", "settled", "attributed", "file"}]

RealmType == [panes : [Key -> PaneType], total : Amount, reserved : Amount,
              slots : Nat, orphan : Amount]

CapacityType == [held : BOOLEAN, attempted : BOOLEAN, materialized : BOOLEAN,
                 active : BOOLEAN, successor : [Dim -> Nat]]

RotationType == [held : BOOLEAN, committed : BOOLEAN, failed : BOOLEAN, successor : SUBSET Key]

\* Every ledger, hold and reservation keeps its type; holds never go negative.
TypeOK ==
  /\ realm \in RealmType
  /\ capacity \in [Key -> CapacityType]
  /\ rotation \in [Key -> RotationType]
  /\ adoption \in [Key -> {"none", "held", "settled"}]
  /\ geometry \subseteq Key /\ used \subseteq Key
  /\ restarts \in 0..MaxRestarts

\* No sequence of admissions, appends, holds, conversions, refunds and failures
\* takes a generation or the realm past either cap, held capacity included:
\* every conversion from held to charged is paid by what was held.
WithinCaps ==
  /\ \A d \in Dim : realm.total[d] + realm.reserved[d] <= RealmCap[d]
  /\ \A k \in Key, d \in Dim : pane(k).charge[d] + pane(k).held[d] <= PaneCap[d]

\* What a generation holds is the sum of its geometry reservation, adoption
\* allowance, rollback and forward credit.
HoldsAccounted ==
  \A k \in present(realm), d \in Dim :
    pane(k).held[d] = pane(k).adoption[d] + pane(k).rollback.bytes[d] + pane(k).forward.bytes[d]
                        + (IF k \in geometry THEN Frame ELSE 0)

\* The realm ledgers are the sum of their owners: charges of generations and of
\* headers that could not be removed, holds of generations, of capacities not
\* yet materialized and of geometry reservations that outlived their
\* generation.  Nothing leaks and nothing is counted twice.
LedgersBalance ==
  /\ HoldsAccounted
  /\ \A d \in Dim :
       /\ realm.total[d] = realm.orphan[d] + sumOf(charges(realm.panes, d), Key)
       /\ realm.reserved[d] =
            sumOf([k \in Key |-> pane(k).held[d] + capacity[k].successor[d]], Key)
              + Cardinality(geometry \ present(realm)) * Frame

\* Ordinary admission leaves the last slot to rotation: all slots are taken
\* only while a rotation is under way or recovered generations occupy them.
LastSlotIsForRotation ==
  realm.slots >= Slots =>
    \/ \E k \in Key : capacity[k].held
    \/ \E k \in present(realm) : ~pane(k).slotRetired /\ restarts > 0

\* The slot count is one per generation that has not given its slot back plus
\* one per rotation capacity still waiting for its successor, so no outcome
\* releases a slot twice or keeps one (the floor at zero never hides it), and
\* the last one is there for a rotation.
SlotsBalance ==
  /\ realm.slots = Cardinality({k \in present(realm) : ~pane(k).slotRetired})
                     + Cardinality({k \in Key : capacity[k].held /\ ~capacity[k].materialized})
  /\ LastSlotIsForRotation

\* A rotation that got its capacity can replay everything its holds were sized
\* for: no record inside the shape of the forward credit or of the armed
\* rollback is ever refused for room, whatever other generations did meanwhile.
HeldReplayIsNeverRefused ==
  \A k \in present(realm) : live(k) =>
    LET p == pane(k)
        hold == holdOf(p)
        records == IF hold = "forward" THEN p.forward.records ELSE p.rollback.records
    IN (hold \in {"forward", "rollback"} /\ records > 0) =>
         \A n \in 0..holdAmount(p, hold)["logical"] :
           LET cost == physicalAppendCost(n)
           IN drawn(p, cost) = cost /\ room(realm, p, Minus(cost, drawn(p, cost)))
=============================================================================
