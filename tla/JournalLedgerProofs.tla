------------------------ MODULE JournalLedgerProofs ------------------------
(***************************************************************************)
(* Machine-checked proofs about JournalLedger, for every set of            *)
(* generations, every cap and hold size, and across broker restarts: the   *)
(* caps are kept, the ledgers and the slots always balance, and a rotation *)
(* can always replay what it holds.                                        *)
(*                                                                         *)
(* First the ledger invariant IInv: types, caps and what a rotation        *)
(* capacity still holds, kept by every operation (the argument is          *)
(* compositional: each *Locked helper keeps Good, and every action is a    *)
(* composition of helpers).  Then the books: what each helper adds to and  *)
(* takes from the three ledgers, stated against the sums of what the       *)
(* generations own.  Last the inductive invariant LInv, which relates the  *)
(* ledgers to what each generation, capacity and reservation holds, and    *)
(* each rotation to the capacity and the successor it runs on.             *)
(***************************************************************************)
EXTENDS JournalLedger, FiniteSetTheorems, TLAPS

\* The part of WithinCaps that concerns one realm record.
Capped(r) ==
  /\ \A d \in Dim : r.total[d] + r.reserved[d] <= RealmCap[d]
  /\ \A k \in Key, d \in Dim : r.panes[k].charge[d] + r.panes[k].held[d] <= PaneCap[d]

Good(r) == r \in RealmType /\ Capped(r)

-----------------------------------------------------------------------------
(* Amounts.                                                                 *)

\* Sums, differences and minima of amounts are amounts.
LEMMA AmountClosed ==
  ASSUME NEW a \in Amount, NEW b \in Amount
  PROVE  /\ Plus(a, b) \in Amount /\ Minus(a, b) \in Amount /\ Least(a, b) \in Amount
         /\ \A d \in Dim : /\ Plus(a, b)[d] = a[d] + b[d]
                           /\ Minus(a, b)[d] = a[d] - b[d]
                           /\ Least(a, b)[d] <= a[d] /\ Least(a, b)[d] <= b[d]
                           /\ Least(a, b)[d] \in {a[d], b[d]}
  BY DEF Amount, Plus, Minus, Least

\* The empty amount.
LEMMA ZeroAmount == Zero \in [Dim -> Nat] /\ Zero \in Amount /\ \A d \in Dim : Zero[d] = 0
  BY DEF Zero, Amount

\* Bytes builds an amount from its two units.
LEMMA BytesAmount ==
  ASSUME NEW l \in Nat, NEW p \in Nat
  PROVE  /\ Bytes(l, p) \in [Dim -> Nat] /\ Bytes(l, p) \in Amount
         /\ Bytes(l, p)["logical"] = l /\ Bytes(l, p)["physical"] = p
  BY DEF Bytes, Amount, Dim

\* The empty hold.
LEMMA NoHoldType == NoHold \in HoldType
  BY ZeroAmount DEF NoHold, HoldType

\* A generation the realm has forgotten is well typed.
LEMMA AbsentPane == Absent \in PaneType
  BY ZeroAmount, NoHoldType DEF Absent, PaneType

\* The cost of a header is an amount of naturals.
LEMMA HeaderAmount == headerCost \in [Dim -> Nat] /\ headerCost \in Amount
  BY BytesAmount, LedgerAssumption DEF headerCost

\* What createPaneWithHeader makes is well typed.
LEMMA FreshPaneType == FreshPane \in PaneType
  BY AbsentPane, HeaderAmount DEF FreshPane, PaneType, Absent

-----------------------------------------------------------------------------
(* Helpers.                                                                 *)

\* Taking and giving back a slot touches no ledger.
LEMMA SlotHelpers ==
  ASSUME NEW r, Good(r)
  PROVE  Good(takeSlot(r)) /\ Good(releaseSlot(r))
  BY DEF Good, Capped, RealmType, takeSlot, releaseSlot

\* A generation with any one field replaced by a value of its type.
LEMMA PaneFields ==
  ASSUME NEW p \in PaneType
  PROVE  /\ \A h \in Amount : [p EXCEPT !.held = h] \in PaneType
         /\ \A c \in [Dim -> Nat] : [p EXCEPT !.charge = c] \in PaneType
         /\ [p EXCEPT !.slotRetired = TRUE] \in PaneType
         /\ [p EXCEPT !.state = "untrusted"] \in PaneType
  BY DEF PaneType

\* A generation that gave its slot back keeps its charge and holds.
LEMMA SlotlessType ==
  ASSUME NEW p \in PaneType
  PROVE  slotless(p) \in PaneType /\ slotless(p).charge = p.charge /\ slotless(p).held = p.held
  BY PaneFields DEF PaneType, slotless

\* Replacing one generation, its own cap respected, and the realm ledgers, the
\* realm caps respected, keeps a realm good.
LEMMA ReplacePane ==
  ASSUME NEW r, Good(r), NEW k \in Key, NEW p \in PaneType,
         \A d \in Dim : p.charge[d] + p.held[d] <= PaneCap[d],
         NEW t \in Amount, NEW v \in Amount,
         \A d \in Dim : t[d] + v[d] <= RealmCap[d]
  PROVE  Good([r EXCEPT !.panes[k] = p, !.total = t, !.reserved = v])
  BY DEF Good, Capped, RealmType

\* invalidateLocked touches no ledger.
LEMMA InvalidateGood ==
  ASSUME NEW r, Good(r), NEW k \in Key
  PROVE  Good(invalidate(r, k))
<1> r.panes[k] \in PaneType
  BY DEF Good, RealmType
<1> DEFINE p == invalidatePane(r.panes[k])
<1>1. p \in PaneType /\ p.charge = r.panes[k].charge /\ p.held = r.panes[k].held
  BY PaneFields DEF invalidatePane, PaneType
<1> HIDE DEF p
<1>2. Good([r EXCEPT !.panes[k] = p])
  BY <1>1 DEF Good, Capped, RealmType
<1> QED
  BY <1>2 DEF invalidate, p

\* Retiring a slot touches no ledger.
LEMMA RetireSlotGood ==
  ASSUME NEW r, Good(r), NEW k \in Key
  PROVE  Good(retireSlot(r, k))
<1> r.panes[k] \in PaneType
  BY DEF Good, RealmType
<1> DEFINE p == slotless(r.panes[k])
<1>1. p \in PaneType /\ p.charge = r.panes[k].charge /\ p.held = r.panes[k].held
  BY SlotlessType
<1> HIDE DEF p
<1>2. Good([r EXCEPT !.panes[k] = p])
  BY <1>1 DEF Good, Capped, RealmType
<1>3. ~r.panes[k].slotRetired => retireSlot(r, k) = releaseSlot([r EXCEPT !.panes[k] = p])
  BY DEF p, retireSlot
<1>4. Good(releaseSlot([r EXCEPT !.panes[k] = p]))
  BY <1>2, SlotHelpers
<1> QED
  BY <1>3, <1>4 DEF retireSlot

\* A proven unlink only lowers the realm total.
LEMMA RefundGood ==
  ASSUME NEW r, Good(r), NEW k \in Key
  PROVE  Good(refund(r, k))
<1>0. r.panes[k] \in PaneType /\ r.total \in Amount /\ r.reserved \in Amount
  BY DEF Good, RealmType
<1> DEFINE p == unlinked(r.panes[k])
           t == Minus(r.total, r.panes[k].charge)
<1>1. p \in PaneType /\ p.charge = Zero /\ p.held = r.panes[k].held
  BY <1>0, ZeroAmount DEF PaneType, unlinked
<1>2. t \in Amount /\ \A d \in Dim : t[d] <= r.total[d]
  BY <1>0 DEF PaneType, Amount, Minus
<1>3. \A d \in Dim : p.charge[d] + p.held[d] <= PaneCap[d]
  BY <1>0, <1>1, ZeroAmount, LedgerAssumption DEF Good, Capped, PaneType, Amount
<1>4. \A d \in Dim : t[d] + r.reserved[d] <= RealmCap[d]
  BY <1>0, <1>2, LedgerAssumption DEF Good, Capped, Amount
<1> HIDE DEF p, t
<1>5. Good([r EXCEPT !.panes[k] = p, !.total = t, !.reserved = r.reserved])
  BY <1>0, <1>1, <1>2, <1>3, <1>4, ReplacePane
<1>6. refund(r, k) = [r EXCEPT !.panes[k] = p, !.total = t, !.reserved = r.reserved]
  BY DEF refund, p, t, Good, RealmType
<1> QED
  BY <1>5, <1>6

\* Forgetting a generation keeps both caps.
LEMMA ForgetGood ==
  ASSUME NEW r, Good(r), NEW k \in Key
  PROVE  Good(forget(r, k))
<1>1. \A d \in Dim : Absent.charge[d] + Absent.held[d] <= PaneCap[d]
  BY ZeroAmount, LedgerAssumption DEF Absent
<1>2. Good([r EXCEPT !.panes[k] = Absent, !.total = r.total, !.reserved = r.reserved])
  BY <1>1, AbsentPane, ReplacePane DEF Good, Capped, RealmType
<1>3. forget(r, k) = [r EXCEPT !.panes[k] = Absent, !.total = r.total, !.reserved = r.reserved]
  BY DEF forget, Good, RealmType
<1> QED
  BY <1>2, <1>3

\* A natural amount taken from an amount.
LEMMA MinusAmount ==
  ASSUME NEW a \in Amount, NEW b \in [Dim -> Nat]
  PROVE  Minus(a, b) \in Amount /\ \A d \in Dim : Minus(a, b)[d] <= a[d]
  BY DEF Minus, Amount

\* Giving a held amount back lowers the pane's and the realm's reserved side.
LEMMA ReleaseHeld ==
  ASSUME NEW r, Good(r), NEW k \in Key, NEW a \in [Dim -> Nat], NEW p \in PaneType,
         p.charge = r.panes[k].charge, p.held = Minus(r.panes[k].held, a)
  PROVE  Good([r EXCEPT !.reserved = Minus(@, a), !.panes[k] = p])
<1> DEFINE v == Minus(r.reserved, a)
<1>0. r.panes[k] \in PaneType /\ r.total \in Amount /\ r.reserved \in Amount
  BY DEF Good, RealmType
<1>1. v \in Amount /\ \A d \in Dim : v[d] <= r.reserved[d]
  BY <1>0, MinusAmount
<1>2. \A d \in Dim : r.total[d] + v[d] <= RealmCap[d]
  BY <1>0, <1>1, LedgerAssumption DEF Good, Capped, Amount
<1>3. \A d \in Dim : p.charge[d] + p.held[d] <= PaneCap[d]
  BY <1>0, LedgerAssumption DEF Good, Capped, Amount, PaneType, Minus
<1> HIDE DEF v
<1>4. Good([r EXCEPT !.panes[k] = p, !.total = r.total, !.reserved = v])
  BY <1>0, <1>1, <1>2, <1>3, ReplacePane
<1>5. [r EXCEPT !.panes[k] = p, !.total = r.total, !.reserved = v]
        = [r EXCEPT !.reserved = Minus(@, a), !.panes[k] = p]
  BY DEF v, Good, RealmType
<1> QED
  BY <1>4, <1>5

\* Less is held: the generation keeps its type and its charge.
LEMMA UnholdingType ==
  ASSUME NEW p \in PaneType, NEW a \in [Dim -> Nat]
  PROVE  /\ unholding(p, a) \in PaneType /\ unholding(p, a).charge = p.charge
         /\ unholding(p, a).held = Minus(p.held, a)
<1> p.held \in Amount
  BY DEF PaneType
<1> Minus(p.held, a) \in Amount
  BY MinusAmount
<1> QED
  BY DEF PaneType, unholding

\* The three ways a generation gives a hold up, on the generation's record.
LEMMA HoldFields ==
  ASSUME NEW p \in PaneType
  PROVE  /\ LET q == [p EXCEPT !.adoption = Zero]
            IN q \in PaneType /\ q.charge = p.charge /\ q.held = p.held
         /\ LET q == [p EXCEPT !.rollback = NoHold, !.capacity = "none"]
            IN q \in PaneType /\ q.charge = p.charge /\ q.held = p.held
         /\ LET q == [p EXCEPT !.forward = NoHold]
            IN q \in PaneType /\ q.charge = p.charge /\ q.held = p.held
  BY ZeroAmount, NoHoldType DEF PaneType

\* releaseAdoptionAllowanceLocked keeps both caps.
LEMMA ReleaseAllowanceGood ==
  ASSUME NEW r, Good(r), NEW k \in Key
  PROVE  Good(releaseAllowance(r, k))
<1>0. r.panes[k] \in PaneType
  BY DEF Good, RealmType
<1> DEFINE a == r.panes[k].adoption
           u == unholding(r.panes[k], a)
           p == [u EXCEPT !.adoption = Zero]
<1>1. a \in [Dim -> Nat] /\ r.panes[k].held \in Amount
  BY <1>0 DEF PaneType, HoldType
<1>2. p \in PaneType /\ p.charge = r.panes[k].charge /\ p.held = Minus(r.panes[k].held, a)
  <2>1. u \in PaneType /\ u.charge = r.panes[k].charge /\ u.held = Minus(r.panes[k].held, a)
    BY <1>0, <1>1, UnholdingType
  <2> HIDE DEF u
  <2> QED
    BY <2>1, HoldFields
<1>5. releaseAllowance(r, k) = [r EXCEPT !.reserved = Minus(@, a), !.panes[k] = p]
  BY DEF releaseAllowance
<1> HIDE DEF p, u, a
<1>6. Good([r EXCEPT !.reserved = Minus(@, a), !.panes[k] = p])
  BY <1>1, <1>2, ReleaseHeld
<1> QED
  BY <1>5, <1>6 DEF releaseAllowance

\* releaseRotationRollbackLocked keeps both caps.
LEMMA ReleaseRollbackGood ==
  ASSUME NEW r, Good(r), NEW k \in Key
  PROVE  Good(releaseRollback(r, k))
<1>0. r.panes[k] \in PaneType
  BY DEF Good, RealmType
<1> DEFINE a == r.panes[k].rollback.bytes
           u == unholding(r.panes[k], a)
           p == [u EXCEPT !.rollback = NoHold, !.capacity = "none"]
<1>1. a \in [Dim -> Nat] /\ r.panes[k].held \in Amount
  BY <1>0 DEF PaneType, HoldType
<1>2. p \in PaneType /\ p.charge = r.panes[k].charge /\ p.held = Minus(r.panes[k].held, a)
  <2>1. u \in PaneType /\ u.charge = r.panes[k].charge /\ u.held = Minus(r.panes[k].held, a)
    BY <1>0, <1>1, UnholdingType
  <2> HIDE DEF u
  <2> QED
    BY <2>1, HoldFields
<1>5. r.panes[k].capacity # "none" =>
        releaseRollback(r, k) = [r EXCEPT !.reserved = Minus(@, a), !.panes[k] = p]
  BY DEF releaseRollback
<1> HIDE DEF p, u, a
<1>6. Good([r EXCEPT !.reserved = Minus(@, a), !.panes[k] = p])
  BY <1>1, <1>2, ReleaseHeld
<1> QED
  BY <1>5, <1>6 DEF releaseRollback

\* releaseRotationPaneReservationsLocked keeps both caps.
LEMMA ReleaseForwardGood ==
  ASSUME NEW r, Good(r), NEW k \in Key
  PROVE  Good(releaseForward(r, k))
<1> DEFINE q == releaseRollback(r, k)
           a == q.panes[k].forward.bytes
           u == unholding(q.panes[k], a)
           p == [u EXCEPT !.forward = NoHold]
<1>0. Good(q) /\ q.panes[k] \in PaneType
  BY ReleaseRollbackGood DEF Good, RealmType
<1>5. releaseForward(r, k) = [q EXCEPT !.reserved = Minus(@, a), !.panes[k] = p]
  BY DEF releaseForward
<1> HIDE DEF q
<1>1. a \in [Dim -> Nat] /\ q.panes[k].held \in Amount
  BY <1>0 DEF PaneType, HoldType
<1>2. p \in PaneType /\ p.charge = q.panes[k].charge /\ p.held = Minus(q.panes[k].held, a)
  <2>1. u \in PaneType /\ u.charge = q.panes[k].charge /\ u.held = Minus(q.panes[k].held, a)
    BY <1>0, <1>1, UnholdingType
  <2> HIDE DEF u
  <2> QED
    BY <2>1, HoldFields
<1> HIDE DEF p, u, a
<1>6. Good([q EXCEPT !.reserved = Minus(@, a), !.panes[k] = p])
  BY <1>0, <1>1, <1>2, ReleaseHeld
<1> QED
  BY <1>5, <1>6

-----------------------------------------------------------------------------
(* Sums over generations.                                                   *)

Sums == INSTANCE Folding WITH Op <- Plus, X <- Amount

\* sumOf is the sum the module on folds reasons about.
LEMMA SumIs == \A f, T : sumOf(f, T) = Sums!sum(f, T)
  BY DEF sumOf, Sums!sum, MapThenSumSet, MapThenFoldSet, Sums!sums, Sums!pick

\* Both modules mean the same by finite and by how many.
LEMMA SameSizes ==
  \A T : Sums!IsFiniteSet(T) = IsFiniteSet(T) /\ Sums!Cardinality(T) = Cardinality(T)
  BY DEF IsFiniteSet, Sums!IsFiniteSet, Cardinality, Sums!Cardinality

\* A set of generations is finite.
LEMMA KeysFinite == \A T \in SUBSET Key : IsFiniteSet(T) /\ Cardinality(T) \in Nat
  BY LedgerAssumption, FS_Subset, FS_CardinalityType

Weights(w) == \A k \in Key : w[k] \in Int

\* A total over generations is a number, and a natural if every part is.
LEMMA TotalType ==
  ASSUME NEW w, Weights(w)
  PROVE  sumOf(w, Key) \in Int /\ ((\A k \in Key : w[k] >= 0) => sumOf(w, Key) >= 0)
<1>1. Sums!WeightsOn(w, Key) /\ IsFiniteSet(Key)
  BY LedgerAssumption DEF Weights, Sums!WeightsOn
<1> QED
  BY <1>1, SameSizes, SumIs, Sums!SumType

\* One generation changed.
LEMMA TotalChange ==
  ASSUME NEW w, NEW v, NEW x \in Key, Weights(w), Weights(v), \A k \in Key \ {x} : v[k] = w[k]
  PROVE  sumOf(v, Key) = sumOf(w, Key) + v[x] - w[x]
<1>1. Sums!WeightsOn(w, Key) /\ Sums!WeightsOn(v, Key) /\ IsFiniteSet(Key)
  BY LedgerAssumption DEF Weights, Sums!WeightsOn
<1>2. Sums!sum(v, Key) = Sums!sum(w, Key) + v[x] - w[x]
  BY <1>1, SameSizes, Sums!SumChange
<1> QED
  BY <1>2, SumIs

\* None changed.
LEMMA TotalSame ==
  ASSUME NEW w, NEW v, \A k \in Key : v[k] = w[k]
  PROVE  sumOf(v, Key) = sumOf(w, Key)
<1>1. IsFiniteSet(Key)
  BY LedgerAssumption
<1>2. Sums!sum(v, Key) = Sums!sum(w, Key)
  BY <1>1, SameSizes, Sums!SumSame
<1> QED
  BY <1>2, SumIs

\* A total of which only the members of T have a part.
LEMMA TotalOf ==
  ASSUME NEW w, NEW v, Weights(w), NEW T \in SUBSET Key,
         \A k \in T : v[k] = w[k], \A k \in Key \ T : v[k] = 0
  PROVE  sumOf(v, Key) = sumOf(w, T)
<1>1. IsFiniteSet(Key) /\ IsFiniteSet(T)
  BY KeysFinite, LedgerAssumption
<1>2. Sums!WeightsOn(v, T)
  BY DEF Weights, Sums!WeightsOn
<1>3. Sums!sum(v, Key) = Sums!sum(v, T)
  BY <1>1, <1>2, SameSizes, Sums!SumRestrict
<1>4. Sums!sum(v, T) = Sums!sum(w, T)
  BY <1>1, SameSizes, Sums!SumSame
<1> QED
  BY <1>3, <1>4, SumIs

\* The total of two parts of every generation.
LEMMA TotalPlus ==
  ASSUME NEW u, NEW v, NEW w, Weights(v), Weights(w), \A k \in Key : u[k] = v[k] + w[k]
  PROVE  sumOf(u, Key) = sumOf(v, Key) + sumOf(w, Key)
<1>1. Sums!WeightsOn(w, Key) /\ Sums!WeightsOn(v, Key) /\ IsFiniteSet(Key)
  BY LedgerAssumption DEF Weights, Sums!WeightsOn
<1>2. Sums!sum(u, Key) = Sums!sum(v, Key) + Sums!sum(w, Key)
  BY <1>1, SameSizes, Sums!SumPlus
<1> QED
  BY <1>2, SumIs

\* Every part at most another.
LEMMA TotalMonotone ==
  ASSUME NEW w, NEW v, Weights(w), Weights(v), \A k \in Key : w[k] <= v[k]
  PROVE  sumOf(w, Key) <= sumOf(v, Key)
<1>1. Sums!WeightsOn(w, Key) /\ Sums!WeightsOn(v, Key) /\ IsFiniteSet(Key)
  BY LedgerAssumption DEF Weights, Sums!WeightsOn
<1>2. Sums!sum(w, Key) <= Sums!sum(v, Key)
  BY <1>1, SameSizes, Sums!SumMonotone
<1> QED
  BY <1>2, SumIs

\* The parts of some generations taken out of a total.
LEMMA TotalWithout ==
  ASSUME NEW w, NEW v, Weights(w), NEW T \in SUBSET Key,
         \A k \in Key : v[k] = IF k \in T THEN 0 ELSE w[k]
  PROVE  sumOf(v, Key) = sumOf(w, Key) - sumOf(w, T)
<1> DEFINE u == [k \in Key |-> IF k \in T THEN w[k] ELSE 0]
<1>1. \A k \in Key : w[k] = v[k] + u[k]
  BY DEF Weights
<1>2. Weights(u) /\ Weights(v) /\ (\A k \in T : u[k] = w[k]) /\ (\A k \in Key \ T : u[k] = 0)
  BY DEF Weights
<1> HIDE DEF u
<1>3. sumOf(w, Key) = sumOf(v, Key) + sumOf(u, Key)
  BY <1>1, <1>2, TotalPlus
<1>4. sumOf(u, Key) = sumOf(w, T)
  BY <1>2, TotalOf
<1>5. sumOf(u, Key) \in Int /\ sumOf(v, Key) \in Int
  BY <1>2, TotalType
<1> QED
  BY <1>3, <1>4, <1>5

\* The same part for every member of T and nothing for the others.
LEMMA TotalConst ==
  ASSUME NEW v, NEW T \in SUBSET Key, NEW c \in Int,
         \A k \in Key : v[k] = IF k \in T THEN c ELSE 0
  PROVE  sumOf(v, Key) = Cardinality(T) * c
<1>1. IsFiniteSet(Key) /\ IsFiniteSet(T) /\ Sums!WeightsOn(v, T)
  BY KeysFinite, LedgerAssumption DEF Sums!WeightsOn
<1>2. Sums!sum(v, Key) = Sums!sum(v, T)
  BY <1>1, SameSizes, Sums!SumRestrict
<1>3. Sums!sum(v, T) = Cardinality(T) * c
  BY <1>1, SameSizes, Sums!SumConst
<1> QED
  BY <1>2, <1>3, SumIs

\* The charges of generations are naturals.
LEMMA ChargesAre ==
  ASSUME NEW panes \in [Key -> PaneType], NEW d \in Dim
  PROVE  \A k \in Key : charges(panes, d)[k] = panes[k].charge[d] /\ charges(panes, d)[k] \in Nat
<1> SUFFICES ASSUME NEW k \in Key
             PROVE  panes[k].charge[d] \in Nat
  BY DEF charges
<1>1. panes[k] \in PaneType
  OBVIOUS
<1>2. panes[k].charge \in [Dim -> Nat]
  BY <1>1 DEF PaneType
<1> QED
  BY <1>2

\* What a sweep gives back is an amount of naturals.
LEMMA RefundedAmount ==
  ASSUME NEW r, r.panes \in [Key -> PaneType], NEW gone \in SUBSET Key
  PROVE  refunded(r, gone) \in [Dim -> Nat]
<1> SUFFICES ASSUME NEW d \in Dim PROVE sumOf(charges(r.panes, d), gone) \in Nat
  BY DEF refunded
<1> DEFINE w == charges(r.panes, d)
<1>1. \A k \in gone : w[k] \in Nat
  BY ChargesAre
<1>2. IsFiniteSet(gone)
  BY KeysFinite
<1> HIDE DEF w
<1>3. Sums!WeightsOn(w, gone) /\ \A k \in gone : w[k] >= 0
  BY <1>1 DEF Sums!WeightsOn
<1>4. Sums!sum(w, gone) \in Int /\ Sums!sum(w, gone) >= 0
  BY <1>2, <1>3, SameSizes, Sums!SumType
<1>5. Sums!sum(w, gone) \in Nat
  BY <1>4
<1> QED
  BY <1>5, SumIs DEF w

\* sweepRetiredSessionLocked only lowers the realm total.
LEMMA SweepGood ==
  ASSUME NEW r, Good(r), NEW gone \in SUBSET Key
  PROVE  Good(sweep(r, gone))
<1> DEFINE t == Minus(r.total, refunded(r, gone))
           ps == [s \in Key |-> IF s \in gone THEN Absent ELSE r.panes[s]]
<1>0. refunded(r, gone) \in [Dim -> Nat]
  BY RefundedAmount DEF Good, RealmType
<1>1. t \in Amount /\ \A d \in Dim : t[d] <= r.total[d]
  BY <1>0 DEF Good, RealmType, Amount, Minus
<1>2. ps \in [Key -> PaneType]
  BY AbsentPane DEF Good, RealmType
<1>3. \A k \in Key, d \in Dim : ps[k].charge[d] + ps[k].held[d] <= PaneCap[d]
  BY ZeroAmount, LedgerAssumption DEF Good, Capped, Absent
<1>4. sweep(r, gone) = [r EXCEPT !.total = t, !.panes = ps]
  BY DEF sweep
<1>5. \A d \in Dim : t[d] + r.reserved[d] <= RealmCap[d]
  BY <1>1, LedgerAssumption DEF Good, Capped, RealmType, Amount
<1> HIDE DEF t, ps
<1> QED
  BY <1>1, <1>2, <1>3, <1>4, <1>5 DEF Good, Capped, RealmType

-----------------------------------------------------------------------------
(* Charges.                                                                 *)

\* What a good realm is made of.
LEMMA GoodParts ==
  ASSUME NEW r, Good(r), NEW k \in Key
  PROVE  /\ r.panes[k] \in PaneType /\ r.total \in Amount /\ r.reserved \in Amount
         /\ r.panes[k].charge \in [Dim -> Nat] /\ r.panes[k].held \in Amount
         /\ \A d \in Dim : r.total[d] + r.reserved[d] <= RealmCap[d]
         /\ \A d \in Dim : r.panes[k].charge[d] + r.panes[k].held[d] <= PaneCap[d]
         /\ \A d \in Dim : RealmCap[d] \in Nat /\ PaneCap[d] \in Nat
<1>1. r.panes[k] \in PaneType /\ r.total \in Amount /\ r.reserved \in Amount
  BY DEF Good, RealmType
<1>2. r.panes[k].charge \in [Dim -> Nat] /\ r.panes[k].held \in Amount
  BY <1>1 DEF PaneType
<1> QED
  BY <1>1, <1>2, LedgerAssumption DEF Good, Capped

\* A sum with a natural amount.
LEMMA PlusAmount ==
  ASSUME NEW a \in Amount, NEW b \in [Dim -> Nat]
  PROVE  Plus(a, b) \in Amount /\ \A d \in Dim : Plus(a, b)[d] = a[d] + b[d]
  BY DEF Plus, Amount

\* A sum of natural amounts.
LEMMA PlusNat ==
  ASSUME NEW a \in [Dim -> Nat], NEW b \in [Dim -> Nat]
  PROVE  Plus(a, b) \in [Dim -> Nat] /\ \A d \in Dim : Plus(a, b)[d] = a[d] + b[d]
  BY DEF Plus

\* A generation charged for a record.
LEMMA ChargingType ==
  ASSUME NEW p \in PaneType, NEW c \in [Dim -> Nat]
  PROVE  /\ charging(p, c) \in PaneType /\ charging(p, c).charge = Plus(p.charge, c)
         /\ charging(p, c).held = p.held
<1> p.charge \in [Dim -> Nat]
  BY DEF PaneType
<1> Plus(p.charge, c) \in [Dim -> Nat]
  BY PlusNat
<1> QED
  BY DEF PaneType, charging

\* A generation that holds more.
LEMMA HoldingType ==
  ASSUME NEW p \in PaneType, NEW a \in [Dim -> Nat]
  PROVE  /\ holding(p, a) \in PaneType /\ holding(p, a).charge = p.charge
         /\ holding(p, a).held = Plus(p.held, a)
<1> p.held \in Amount
  BY DEF PaneType
<1> Plus(p.held, a) \in Amount
  BY PlusAmount
<1> QED
  BY DEF PaneType, holding

\* A charge that room admits keeps the realm good.
LEMMA SpendGood ==
  ASSUME NEW r, Good(r), NEW k \in Key, NEW c \in [Dim -> Nat], room(r, r.panes[k], c)
  PROVE  Good(spend(r, k, c))
<1>0. /\ r.panes[k] \in PaneType /\ r.total \in Amount /\ r.reserved \in Amount
      /\ r.panes[k].charge \in [Dim -> Nat] /\ r.panes[k].held \in Amount
      /\ \A d \in Dim : RealmCap[d] \in Nat /\ PaneCap[d] \in Nat
  BY GoodParts
<1> DEFINE p == charging(r.panes[k], c)
           t == Plus(r.total, c)
<1>1. p \in PaneType /\ p.charge = Plus(r.panes[k].charge, c) /\ p.held = r.panes[k].held
  BY <1>0, ChargingType
<1>2. t \in Amount /\ \A d \in Dim : t[d] = r.total[d] + c[d]
  BY <1>0, PlusAmount
<1>3. \A d \in Dim : p.charge[d] = r.panes[k].charge[d] + c[d]
  BY <1>0, <1>1, PlusNat
<1> HIDE DEF p, t
<1>4. \A d \in Dim : p.charge[d] + p.held[d] <= PaneCap[d] /\ t[d] + r.reserved[d] <= RealmCap[d]
  <2> SUFFICES ASSUME NEW d \in Dim
               PROVE  p.charge[d] + p.held[d] <= PaneCap[d] /\ t[d] + r.reserved[d] <= RealmCap[d]
    OBVIOUS
  <2>1. /\ c[d] <= PaneCap[d] - (r.panes[k].charge[d] + r.panes[k].held[d])
        /\ c[d] <= RealmCap[d] - (r.total[d] + r.reserved[d])
    BY DEF room
  <2>2. /\ c[d] \in Int /\ r.panes[k].charge[d] \in Int /\ r.panes[k].held[d] \in Int
        /\ r.total[d] \in Int /\ r.reserved[d] \in Int
    BY <1>0 DEF Amount
  <2> QED
    BY <1>0, <1>1, <1>2, <1>3, <2>1, <2>2
<1>5. Good([r EXCEPT !.panes[k] = p, !.total = t, !.reserved = r.reserved])
  BY <1>0, <1>1, <1>2, <1>4, ReplacePane
<1>6. spend(r, k, c) = [r EXCEPT !.panes[k] = p, !.total = t, !.reserved = r.reserved]
  BY DEF spend, p, t, Good, RealmType
<1> QED
  BY <1>5, <1>6

\* A header that room admits, with its generation or without.
LEMMA MaterializeGood ==
  ASSUME NEW r, Good(r), NEW k \in Key, room(r, Absent, headerCost)
  PROVE  Good(materialize(r, k)) /\ Good(orphanHeader(r))
<1>0. /\ r.total \in Amount /\ r.reserved \in Amount /\ r.orphan \in Amount
      /\ \A d \in Dim : RealmCap[d] \in Nat /\ PaneCap[d] \in Nat /\ headerCost[d] \in Nat
  BY HeaderAmount, LedgerAssumption DEF Good, RealmType
<1> DEFINE t == Plus(r.total, headerCost)
           o == Plus(r.orphan, headerCost)
<1>1. /\ t \in Amount /\ \A d \in Dim : t[d] = r.total[d] + headerCost[d]
      /\ o \in Amount
  BY <1>0, PlusAmount, HeaderAmount
<1> HIDE DEF t, o
<1>2. \A d \in Dim : FreshPane.charge[d] + FreshPane.held[d] <= PaneCap[d]
                     /\ t[d] + r.reserved[d] <= RealmCap[d]
  <2>1. /\ FreshPane.charge = headerCost /\ FreshPane.held = Zero
        /\ Absent.charge = Zero /\ Absent.held = Zero
    BY DEF FreshPane, Absent
  <2>2. \A d \in Dim : /\ headerCost[d] <= PaneCap[d] - (0 + 0)
                       /\ headerCost[d] <= RealmCap[d] - (r.total[d] + r.reserved[d])
    BY <2>1, ZeroAmount DEF room
  <2> QED
    BY <1>0, <1>1, <2>1, <2>2, ZeroAmount DEF Amount
<1>3. Good([r EXCEPT !.panes[k] = FreshPane, !.total = t, !.reserved = r.reserved])
  BY <1>0, <1>1, <1>2, FreshPaneType, ReplacePane
<1>4. materialize(r, k) = [r EXCEPT !.panes[k] = FreshPane, !.total = t, !.reserved = r.reserved]
  BY DEF materialize, t, Good, RealmType
<1>5. orphanHeader(r) = [r EXCEPT !.total = t, !.orphan = o]
  BY DEF orphanHeader, t, o
<1>6. Good([r EXCEPT !.total = t, !.orphan = o])
  BY <1>1, <1>2 DEF Good, Capped, RealmType
<1> QED
  BY <1>3, <1>4, <1>5, <1>6

\* Both outcomes of discarding a generation keep the caps.
LEMMA TombstonesGood ==
  ASSUME NEW r, Good(r), NEW k \in Key, NEW t \in tombstones(r, k)
  PROVE  Good(t)
<1> DEFINE i == invalidate(r, k)
           p == slotless(i.panes[k])
           q == [i EXCEPT !.panes[k] = p]
<1>1. Good(i) /\ i.panes[k] \in PaneType
  BY InvalidateGood, GoodParts
<1> HIDE DEF i
<1>2. p \in PaneType /\ p.charge = i.panes[k].charge /\ p.held = i.panes[k].held
  BY <1>1, SlotlessType
<1> HIDE DEF p
<1>3. Good(q)
  BY <1>1, <1>2 DEF Good, Capped, RealmType
<1>4. t \in {q, refund(q, k)}
  BY DEF tombstones, p, i
<1> QED
  BY <1>3, <1>4, RefundGood

\* Arming the rollback moves no capacity.
LEMMA ArmRollbackGood ==
  ASSUME NEW r, Good(r), NEW k \in Key
  PROVE  Good(armRollback(r, k))
<1> DEFINE p == [r.panes[k] EXCEPT !.capacity = "armed"]
<1>1. p \in PaneType /\ p.charge = r.panes[k].charge /\ p.held = r.panes[k].held
  BY GoodParts DEF PaneType
<1>2. r.panes[k].capacity # "none" => armRollback(r, k) = [r EXCEPT !.panes[k] = p]
  BY DEF armRollback
<1> HIDE DEF p
<1>3. Good([r EXCEPT !.panes[k] = p])
  BY <1>1 DEF Good, Capped, RealmType
<1> QED
  BY <1>2, <1>3 DEF armRollback

\* Marking a generation moves no capacity.
LEMMA MarkedGood ==
  ASSUME NEW r, Good(r), NEW k \in Key, NEW m \in {"corrupt", "settled", "attributed", "file"}
  PROVE  Good([r EXCEPT !.panes[k] = marked(@, m)])
<1> DEFINE p == marked(r.panes[k], m)
<1>1. p \in PaneType /\ p.charge = r.panes[k].charge /\ p.held = r.panes[k].held
  BY GoodParts DEF PaneType, marked
<1> HIDE DEF p
<1>2. Good([r EXCEPT !.panes[k] = p])
  BY <1>1 DEF Good, Capped, RealmType
<1> QED
  BY <1>2 DEF p

\* Slots given up in bulk, by retireRecovered and ReclaimRetiredSession.
LEMMA SlotlessGood ==
  ASSUME NEW r, Good(r), NEW S, NEW n \in Nat
  PROVE  Good([r EXCEPT !.panes = [s \in Key |-> IF s \in S THEN slotless(@[s]) ELSE @[s]],
                        !.slots = n])
<1> DEFINE ps == [s \in Key |-> IF s \in S THEN slotless(r.panes[s]) ELSE r.panes[s]]
<1>1. \A s \in Key : /\ r.panes[s] \in PaneType /\ slotless(r.panes[s]) \in PaneType
                     /\ slotless(r.panes[s]).charge = r.panes[s].charge
                     /\ slotless(r.panes[s]).held = r.panes[s].held
  BY GoodParts, SlotlessType
<1>2. /\ ps \in [Key -> PaneType]
      /\ \A s \in Key : ps[s].charge = r.panes[s].charge /\ ps[s].held = r.panes[s].held
  BY <1>1
<1> HIDE DEF ps
<1>3. Good([r EXCEPT !.panes = ps, !.slots = n])
  BY <1>2 DEF Good, Capped, RealmType
<1> QED
  BY <1>3 DEF ps

-----------------------------------------------------------------------------
(* Holds that pay for something.                                            *)

\* Every cost and hold the model charges is an amount of naturals, and the
\* successor hold contains the header reserve, which contains a header.
LEMMA CostAmounts ==
  /\ geometryRecordCost \in [Dim -> Nat] /\ rollbackHold \in [Dim -> Nat]
  /\ successorHold \in [Dim -> Nat] /\ Bytes(0, HeaderReserve) \in [Dim -> Nat]
  /\ \A n \in PayloadSizes : physicalAppendCost(n) \in [Dim -> Nat]
  /\ \A d \in Dim : /\ Bytes(0, HeaderReserve)[d] <= successorHold[d]
                    /\ headerCost[d] <= Bytes(0, HeaderReserve)[d]
<1>1. /\ Frame \in Nat /\ PendingBytes \in Nat /\ PendingRecords \in Nat /\ HeaderReserve \in Nat
      /\ BootstrapBytes \in Nat /\ BootstrapRecords \in Nat /\ PayloadSizes \subseteq Nat
      /\ Header \in Nat /\ Header <= HeaderReserve
  BY LedgerAssumption
<1>2. PendingRecords * Frame \in Nat /\ BootstrapRecords * Frame \in Nat
  BY <1>1
<1> QED
  BY <1>1, <1>2 DEF geometryRecordCost, rollbackHold, successorHold, physicalAppendCost,
                    headerCost, Bytes, Dim

\* A hold that room admits keeps the realm good, whichever record it is kept in.
LEMMA HoldGood ==
  ASSUME NEW r, Good(r), NEW k \in Key, NEW a \in [Dim -> Nat], NEW v \in [Dim -> Nat],
         NEW p \in PaneType, p.charge = r.panes[k].charge, p.held = Plus(r.panes[k].held, a),
         \A d \in Dim : r.panes[k].charge[d] + r.panes[k].held[d] + a[d] <= PaneCap[d],
         \A d \in Dim : r.total[d] + r.reserved[d] + a[d] + v[d] <= RealmCap[d]
  PROVE  Good([r EXCEPT !.reserved = Plus(Plus(@, a), v), !.panes[k] = p])
<1>0. /\ r.panes[k] \in PaneType /\ r.total \in Amount /\ r.reserved \in Amount
      /\ r.panes[k].charge \in [Dim -> Nat] /\ r.panes[k].held \in Amount
  BY GoodParts
<1> DEFINE w == Plus(Plus(r.reserved, a), v)
<1>1. w \in Amount /\ \A d \in Dim : w[d] = r.reserved[d] + a[d] + v[d]
  BY <1>0 DEF Amount, Plus
<1>2. \A d \in Dim : p.charge[d] + p.held[d] <= PaneCap[d] /\ r.total[d] + w[d] <= RealmCap[d]
  <2>1. \A d \in Dim : p.held[d] = r.panes[k].held[d] + a[d]
    BY <1>0, PlusAmount
  <2>2. \A d \in Dim : /\ r.total[d] \in Int /\ r.reserved[d] \in Int /\ a[d] \in Int /\ v[d] \in Int
                       /\ r.panes[k].charge[d] \in Int /\ r.panes[k].held[d] \in Int
                       /\ PaneCap[d] \in Int /\ RealmCap[d] \in Int
    BY <1>0, LedgerAssumption DEF Amount
  <2> HIDE DEF w
  <2> QED
    BY <1>1, <2>1, <2>2
<1> HIDE DEF w
<1>3. Good([r EXCEPT !.panes[k] = p, !.total = r.total, !.reserved = w])
  BY <1>0, <1>1, <1>2, ReplacePane
<1>4. [r EXCEPT !.panes[k] = p, !.total = r.total, !.reserved = w]
        = [r EXCEPT !.reserved = Plus(Plus(@, a), v), !.panes[k] = p]
  BY DEF w, Good, RealmType
<1> QED
  BY <1>3, <1>4

\* The drawn part is never more than the cost nor than the hold.
LEMMA DrawnBounded ==
  ASSUME NEW p \in PaneType, NEW c \in [Dim -> Nat]
  PROVE  /\ drawn(p, c) \in [Dim -> Nat]
         /\ \A d \in Dim : drawn(p, c)[d] <= c[d] /\ drawn(p, c)[d] <= holdAmount(p, holdOf(p))[d]
<1> DEFINE h == holdAmount(p, holdOf(p))
           some == Least(c, h)
<1>1. h \in [Dim -> Nat]
  BY ZeroAmount DEF holdAmount, PaneType, HoldType
<1> HIDE DEF h
<1>2. some \in [Dim -> Nat] /\ \A d \in Dim : some[d] <= c[d] /\ some[d] <= h[d]
  BY <1>1 DEF Least
<1> HIDE DEF some
<1>3. Frame \in Nat
  BY LedgerAssumption
<1> DEFINE b == Bytes(some["logical"], some["logical"] + Frame)
<1>4. /\ b \in [Dim -> Nat]
      /\ some["physical"] > some["logical"] + Frame => \A d \in Dim : b[d] <= some[d]
  BY <1>2, <1>3 DEF Bytes, Dim
<1>5. drawn(p, c) \in {some, b} /\ (drawn(p, c) # some => some["physical"] > some["logical"] + Frame)
  BY <1>2, <1>3 DEF drawn, some, h, Dim
<1> HIDE DEF b
<1>6. drawn(p, c) \in [Dim -> Nat] /\ \A d \in Dim : drawn(p, c)[d] <= some[d]
  BY <1>2, <1>4, <1>5
<1> HIDE DEF drawn
<1>7. \A d \in Dim : drawn(p, c)[d] <= c[d] /\ drawn(p, c)[d] <= h[d]
  BY <1>1, <1>2, <1>6
<1> QED
  BY <1>6, <1>7 DEF h

\* Converting a drawn amount changes neither the charge nor the sum of what is
\* charged, held and drawn.
LEMMA DrawGood ==
  ASSUME NEW r, Good(r), NEW k \in Key, NEW a \in [Dim -> Nat],
         \A d \in Dim : a[d] <= holdAmount(r.panes[k], holdOf(r.panes[k]))[d]
  PROVE  /\ Good(draw(r, k, a)) /\ draw(r, k, a).total = r.total
         /\ draw(r, k, a).reserved = Minus(r.reserved, a)
         /\ draw(r, k, a).panes[k].charge = r.panes[k].charge
         /\ draw(r, k, a).panes[k].held = Minus(r.panes[k].held, a)
<1> DEFINE p == r.panes[k]
           hold == holdOf(p)
           q == unholding(p, a)
           less(h) == [bytes |-> Minus(h.bytes, a), records |-> h.records - 1]
           spent == CASE hold = "forward"  -> [q EXCEPT !.forward = less(@)]
                      [] hold = "rollback" -> [q EXCEPT !.rollback = less(@)]
                      [] hold = "adoption" -> [q EXCEPT !.adoption = Minus(@, a)]
                      [] OTHER             -> q
<1>0. p \in PaneType
  BY GoodParts
<1>1. /\ q \in PaneType /\ q.charge = p.charge /\ q.held = Minus(p.held, a)
      /\ q.forward = p.forward /\ q.rollback = p.rollback /\ q.adoption = p.adoption
  <2>1. q.forward = p.forward /\ q.rollback = p.rollback /\ q.adoption = p.adoption
    BY <1>0 DEF unholding, PaneType
  <2> QED
    BY <1>0, <2>1, UnholdingType
<1>2. /\ hold = "forward" => less(q.forward) \in HoldType
      /\ hold = "rollback" => less(q.rollback) \in HoldType
      /\ hold = "adoption" => Minus(q.adoption, a) \in [Dim -> Nat]
  <2>1. /\ q.forward.bytes \in [Dim -> Nat] /\ q.rollback.bytes \in [Dim -> Nat]
        /\ q.adoption \in [Dim -> Nat] /\ q.forward.records \in Int /\ q.rollback.records \in Int
    BY <1>1 DEF PaneType, HoldType
  <2>2. /\ hold = "forward" => \A d \in Dim : a[d] <= q.forward.bytes[d]
        /\ hold = "rollback" => \A d \in Dim : a[d] <= q.rollback.bytes[d]
        /\ hold = "adoption" => \A d \in Dim : a[d] <= q.adoption[d]
    BY <1>1 DEF holdAmount
  <2> HIDE DEF q, hold, p
  <2> QED
    BY <2>1, <2>2 DEF Minus, HoldType
<1>3. hold \in {"forward", "rollback", "adoption", "none"}
  BY DEF holdOf
<1>4. spent \in PaneType /\ spent.charge = p.charge /\ spent.held = Minus(p.held, a)
  <2>1. CASE hold = "forward"
    <3>1. spent = [q EXCEPT !.forward = less(@)]
      BY <2>1
    <3> HIDE DEF spent, q, less, hold
    <3> QED BY <2>1, <3>1, <1>1, <1>2 DEF PaneType
  <2>2. CASE hold = "rollback"
    <3>1. spent = [q EXCEPT !.rollback = less(@)]
      BY <2>2
    <3> HIDE DEF spent, q, less, hold
    <3> QED BY <2>2, <3>1, <1>1, <1>2 DEF PaneType
  <2>3. CASE hold = "adoption"
    <3>1. spent = [q EXCEPT !.adoption = Minus(@, a)]
      BY <2>3
    <3> HIDE DEF spent, q, less, hold
    <3> QED BY <2>3, <3>1, <1>1, <1>2 DEF PaneType
  <2>4. CASE hold = "none"
    <3>1. spent = q
      BY <2>4
    <3> QED BY <3>1, <1>1
  <2> QED
    BY <1>3, <2>1, <2>2, <2>3, <2>4
<1>5. draw(r, k, a) = [r EXCEPT !.reserved = Minus(@, a), !.panes[k] = spent]
  BY DEF draw
<1> HIDE DEF spent
<1>6. Good([r EXCEPT !.reserved = Minus(@, a), !.panes[k] = spent])
  BY <1>4, ReleaseHeld
<1>7. /\ draw(r, k, a).total = r.total /\ draw(r, k, a).reserved = Minus(r.reserved, a)
      /\ draw(r, k, a).panes[k] = spent
  BY <1>5 DEF Good, RealmType
<1> QED
  BY <1>4, <1>5, <1>6, <1>7

\* An append that pays one part from a hold and has room for the rest.
LEMMA PaidAppendGood ==
  ASSUME NEW r, Good(r), NEW k \in Key, NEW c \in [Dim -> Nat], NEW a \in [Dim -> Nat],
         \A d \in Dim : a[d] <= c[d] /\ a[d] <= holdAmount(r.panes[k], holdOf(r.panes[k]))[d],
         room(r, r.panes[k], Minus(c, a))
  PROVE  /\ Good(spend(draw(r, k, a), k, c)) /\ Good(spendTorn(draw(r, k, a), k, c))
         /\ Good(spend(draw(r, k, a), k, Bytes(0, c["physical"])))
<1> DEFINE q == draw(r, k, a)
           c0 == Bytes(0, c["physical"])
<1>0. /\ r.total \in Amount /\ r.reserved \in Amount
      /\ r.panes[k].charge \in [Dim -> Nat] /\ r.panes[k].held \in Amount
      /\ \A d \in Dim : RealmCap[d] \in Nat /\ PaneCap[d] \in Nat
  BY GoodParts
<1>1. /\ Good(q) /\ q.total = r.total /\ q.reserved = Minus(r.reserved, a)
      /\ q.panes[k].charge = r.panes[k].charge /\ q.panes[k].held = Minus(r.panes[k].held, a)
  BY DrawGood
<1> HIDE DEF q
<1>2. c0 \in [Dim -> Nat] /\ \A d \in Dim : c0[d] <= c[d]
  BY DEF Bytes, Dim
<1> HIDE DEF c0
<1>3. \A b \in [Dim -> Nat] : (\A d \in Dim : b[d] <= c[d]) => room(q, q.panes[k], b)
  <2> SUFFICES ASSUME NEW b \in [Dim -> Nat], \A d \in Dim : b[d] <= c[d], NEW d \in Dim
               PROVE  /\ b[d] <= PaneCap[d] - (q.panes[k].charge[d] + q.panes[k].held[d])
                      /\ b[d] <= RealmCap[d] - (q.total[d] + q.reserved[d])
    BY DEF room
  <2>1. /\ Minus(c, a)[d] = c[d] - a[d] /\ q.reserved[d] = r.reserved[d] - a[d]
        /\ q.panes[k].held[d] = r.panes[k].held[d] - a[d]
    BY <1>0, <1>1 DEF Minus
  <2>2. /\ Minus(c, a)[d] <= PaneCap[d] - (r.panes[k].charge[d] + r.panes[k].held[d])
        /\ Minus(c, a)[d] <= RealmCap[d] - (r.total[d] + r.reserved[d])
    BY DEF room
  <2>3. /\ r.panes[k].charge[d] \in Int /\ r.panes[k].held[d] \in Int
        /\ r.total[d] \in Int /\ r.reserved[d] \in Int /\ a[d] \in Int /\ b[d] \in Int
        /\ c[d] \in Int /\ b[d] <= c[d]
    BY <1>0 DEF Amount
  <2> QED
    BY <1>0, <1>1, <2>1, <2>2, <2>3
<1>4. Good(spend(q, k, c)) /\ Good(spend(q, k, c0))
  BY <1>1, <1>2, <1>3, SpendGood
<1>5. Good(invalidate(spend(q, k, c0), k))
  BY <1>4, InvalidateGood
<1> QED
  BY <1>4, <1>5 DEF spendTorn, q, c0

\* The same when nothing is drawn.
LEMMA AppendGood ==
  ASSUME NEW r, Good(r), NEW k \in Key, NEW c \in [Dim -> Nat], room(r, r.panes[k], c)
  PROVE  /\ Good(spend(r, k, c)) /\ Good(spendTorn(r, k, c))
         /\ Good(spend(r, k, Bytes(0, c["physical"])))
<1> DEFINE c0 == Bytes(0, c["physical"])
<1>0. /\ r.total \in Amount /\ r.reserved \in Amount
      /\ r.panes[k].charge \in [Dim -> Nat] /\ r.panes[k].held \in Amount
      /\ \A d \in Dim : RealmCap[d] \in Nat /\ PaneCap[d] \in Nat
  BY GoodParts
<1>1. c0 \in [Dim -> Nat] /\ \A d \in Dim : c0[d] <= c[d]
  BY DEF Bytes, Dim
<1> HIDE DEF c0
<1>2. room(r, r.panes[k], c0)
  <2> SUFFICES ASSUME NEW d \in Dim
               PROVE  /\ c0[d] <= PaneCap[d] - (r.panes[k].charge[d] + r.panes[k].held[d])
                      /\ c0[d] <= RealmCap[d] - (r.total[d] + r.reserved[d])
    BY DEF room
  <2>1. /\ c[d] <= PaneCap[d] - (r.panes[k].charge[d] + r.panes[k].held[d])
        /\ c[d] <= RealmCap[d] - (r.total[d] + r.reserved[d])
    BY DEF room
  <2>2. /\ r.panes[k].charge[d] \in Int /\ r.panes[k].held[d] \in Int
        /\ r.total[d] \in Int /\ r.reserved[d] \in Int /\ c0[d] \in Int /\ c[d] \in Int
        /\ c0[d] <= c[d]
    BY <1>0, <1>1 DEF Amount
  <2> QED
    BY <1>0, <2>1, <2>2
<1>3. Good(spend(r, k, c0)) /\ Good(invalidate(spend(r, k, c0), k))
  BY <1>1, <1>2, SpendGood, InvalidateGood
<1> QED
  BY <1>3, SpendGood DEF spendTorn, c0

\* A geometry reservation given back leaves exactly its own room.
LEMMA ReleaseGeometryGood ==
  ASSUME NEW r, Good(r), NEW k \in Key
  PROVE  /\ Good(releaseGeometry(r, k))
         /\ r.panes[k].state # "absent" =>
              /\ room(releaseGeometry(r, k), releaseGeometry(r, k).panes[k], geometryRecordCost)
<1> DEFINE g == geometryRecordCost
           p == unholding(r.panes[k], g)
           v == Minus(r.reserved, g)
           q == [r EXCEPT !.reserved = v, !.panes[k] = p]
<1>0. /\ r.panes[k] \in PaneType /\ r.total \in Amount /\ r.reserved \in Amount
      /\ r.panes[k].charge \in [Dim -> Nat] /\ r.panes[k].held \in Amount
      /\ \A d \in Dim : RealmCap[d] \in Nat /\ PaneCap[d] \in Nat
      /\ \A d \in Dim : r.total[d] + r.reserved[d] <= RealmCap[d]
      /\ \A d \in Dim : r.panes[k].charge[d] + r.panes[k].held[d] <= PaneCap[d]
  BY GoodParts
<1>1. g \in [Dim -> Nat]
  BY CostAmounts
<1> HIDE DEF g
<1>2. p \in PaneType /\ p.charge = r.panes[k].charge /\ p.held = Minus(r.panes[k].held, g)
  BY <1>0, <1>1, UnholdingType
<1>3. v \in Amount /\ \A d \in Dim : v[d] = r.reserved[d] - g[d]
  BY <1>0, <1>1 DEF Minus, Amount
<1> HIDE DEF p
<1>4. Good(q)
  BY <1>1, <1>2, ReleaseHeld
<1> HIDE DEF v
<1>5. Good([r EXCEPT !.reserved = v])
  <2>1. \A d \in Dim : r.total[d] + v[d] <= RealmCap[d]
    BY <1>0, <1>1, <1>3 DEF Amount
  <2> QED
    BY <1>3, <2>1 DEF Good, Capped, RealmType
<1>6. releaseGeometry(r, k) = IF r.panes[k].state = "absent" THEN [r EXCEPT !.reserved = v] ELSE q
  BY DEF releaseGeometry, p, v, g, Good, RealmType
<1>7. room(q, q.panes[k], g)
  <2>1. q.total = r.total /\ q.reserved = v /\ q.panes[k] = p
    BY DEF Good, RealmType
  <2> HIDE DEF q
  <2> SUFFICES ASSUME NEW d \in Dim
               PROVE  /\ g[d] <= PaneCap[d] - (p.charge[d] + p.held[d])
                      /\ g[d] <= RealmCap[d] - (r.total[d] + v[d])
    BY <2>1 DEF room
  <2>2. p.held[d] = r.panes[k].held[d] - g[d]
    BY <1>0, <1>1, <1>2 DEF Minus
  <2>3. /\ r.panes[k].charge[d] \in Int /\ r.panes[k].held[d] \in Int
        /\ r.total[d] \in Int /\ r.reserved[d] \in Int /\ g[d] \in Int
    BY <1>0, <1>1 DEF Amount
  <2> QED
    BY <1>0, <1>2, <1>3, <2>2, <2>3
<1> HIDE DEF q
<1> QED
  BY <1>4, <1>5, <1>6, <1>7 DEF g

-----------------------------------------------------------------------------
(* Adoption.                                                                *)

\* What finding a slot frees is free in the realm too.
Spare(r, free) == \A d \in Dim : r.total[d] + free[d] + r.reserved[d] <= RealmCap[d]

\* Sets of generations are finite.
LEMMA KeySubsets == \A S \in SUBSET Key : Cardinality(S) \in Nat
  BY LedgerAssumption, FS_Subset, FS_CardinalityType

\* However the slot of a reconstructed generation is found, the charge that was
\* given up for it is spare in the realm.
LEMMA SlotFoundGood ==
  ASSUME Good(realm), NEW k \in Key, NEW found \in slotFound(k)
  PROVE  Good(found.realm) /\ found.given \in [Dim -> Nat] /\ Spare(found.realm, found.given)
<1>1. CASE found \in {[realm |-> forget(refund(realm, f), f), given |-> pane(f).charge] :
                        f \in newest(failedCandidates(realm, k))}
  <2>1. PICK f \in newest(failedCandidates(realm, k)) :
          found = [realm |-> forget(refund(realm, f), f), given |-> pane(f).charge]
    BY <1>1
  <2>2. f \in Key
    BY DEF newest, failedCandidates, sameSource, present
  <2>3. Good(forget(refund(realm, f), f)) /\ Good(refund(realm, f))
    BY <2>2, RefundGood, ForgetGood
  <2>4. /\ realm.total \in Amount /\ realm.reserved \in Amount
        /\ pane(f).charge \in [Dim -> Nat]
        /\ \A d \in Dim : realm.total[d] + realm.reserved[d] <= RealmCap[d]
    BY <2>2, GoodParts DEF pane
  <2>5. /\ forget(refund(realm, f), f).total = Minus(realm.total, pane(f).charge)
        /\ forget(refund(realm, f), f).reserved = realm.reserved
    BY DEF forget, refund, pane, Good, RealmType
  <2>6. Spare(forget(refund(realm, f), f), pane(f).charge)
    <3>1. \A d \in Dim : Minus(realm.total, pane(f).charge)[d] = realm.total[d] - pane(f).charge[d]
      BY <2>4 DEF Minus
    <3> QED
      BY <2>4, <2>5, <3>1, LedgerAssumption DEF Spare, Amount
  <2> QED
    BY <2>1, <2>3, <2>4, <2>6
<1>2. ASSUME NEW q, Good(q), q.total = realm.total, q.reserved = realm.reserved,
             found = [realm |-> q, given |-> Zero]
      PROVE  Good(found.realm) /\ found.given \in [Dim -> Nat] /\ Spare(found.realm, found.given)
  <2>1. /\ realm.total \in Amount /\ realm.reserved \in Amount
        /\ \A d \in Dim : realm.total[d] + realm.reserved[d] <= RealmCap[d]
    BY GoodParts
  <2> QED
    BY <1>2, <2>1, ZeroAmount, LedgerAssumption DEF Spare, Amount
<1>3. CASE found = [realm |-> retireRecovered(realm, k), given |-> Zero]
  <2> DEFINE S == recoveredCandidates(realm, k)
             n == realm.slots - (Cardinality(S) - 1)
             m == IF n > 0 THEN n ELSE 0
             q == [realm EXCEPT !.panes = [s \in Key |-> IF s \in S THEN slotless(@[s]) ELSE @[s]],
                                !.slots = m]
  <2>1. retireRecovered(realm, k) = q
    BY DEF retireRecovered
  <2>2. m \in Nat
    <3>1. realm.slots \in Nat
      BY DEF Good, RealmType
    <3>2. Cardinality(S) \in Nat
      BY KeySubsets DEF recoveredCandidates, sameSource, present
    <3> QED
      BY <3>1, <3>2
  <2> HIDE DEF m, S
  <2>3. Good(q)
    BY <2>2, SlotlessGood
  <2>4. q.total = realm.total /\ q.reserved = realm.reserved
    BY DEF Good, RealmType
  <2> HIDE DEF q
  <2> QED
    BY <1>2, <1>3, <2>1, <2>3, <2>4
<1>4. CASE found = [realm |-> takeSlot(realm), given |-> Zero]
  <2>1. takeSlot(realm).total = realm.total /\ takeSlot(realm).reserved = realm.reserved
    BY DEF takeSlot, Good, RealmType
  <2> QED
    BY <1>2, <1>4, <2>1, SlotHelpers
<1> QED
  BY <1>1, <1>3, <1>4 DEF slotFound

\* The sweep's refund is spare as well.
LEMMA SweepSpare ==
  ASSUME NEW r, Good(r), NEW free \in [Dim -> Nat], Spare(r, free),
         NEW gone \in SUBSET Key
  PROVE  Good(sweep(r, gone)) /\ Spare(sweep(r, gone), Plus(refunded(r, gone), free))
<1> DEFINE back == refunded(r, gone)
<1>1. Good(sweep(r, gone))
  BY SweepGood
<1>2. sweep(r, gone).total = Minus(r.total, back) /\ sweep(r, gone).reserved = r.reserved
  BY DEF sweep, Good, RealmType
<1>3. r.total \in Amount /\ r.reserved \in Amount
  BY DEF Good, RealmType
<1> HIDE DEF back
<1>4. \A d \in Dim : /\ Minus(r.total, back)[d] = r.total[d] - back[d]
                     /\ Plus(back, free)[d] = back[d] + free[d]
  BY DEF Minus, Plus
<1>5. \A d \in Dim : /\ r.total[d] \in Int /\ r.reserved[d] \in Int /\ back[d] \in Int
                     /\ free[d] \in Int /\ RealmCap[d] \in Int
  <2>1. back \in [Dim -> Nat]
    BY RefundedAmount DEF Good, RealmType, back
  <2> QED
    BY <1>3, <2>1, LedgerAssumption DEF Amount
<1>6. Spare(sweep(r, gone), Plus(back, free))
  BY <1>2, <1>4, <1>5 DEF Spare
<1> QED
  BY <1>1, <1>6 DEF back

\* A header paid by the allowance, or by ordinary room beside what is left of
\* the allowance, keeps the realm good, as does the rest of the allowance.
LEMMA AdoptedGood ==
  ASSUME NEW r, Good(r), NEW k \in Key, NEW a \in [Dim -> Nat], Spare(r, a),
         \A d \in Dim : a[d] <= PaneCap[d], headerPaid(r, a)
  PROVE  Good(adopted(r, k, a)) /\ Good(orphanHeader(r))
<1> DEFINE h == afterHeader(a)
           t == Plus(r.total, headerCost)
           v == Plus(r.reserved, h)
           o == Plus(r.orphan, headerCost)
           p == [FreshPane EXCEPT !.held = h, !.adoption = h]
<1>0. /\ r.total \in Amount /\ r.reserved \in Amount /\ r.orphan \in Amount
      /\ \A d \in Dim : RealmCap[d] \in Nat /\ PaneCap[d] \in Nat
  BY LedgerAssumption DEF Good, RealmType
<1>1. Header \in Nat /\ headerCost \in [Dim -> Nat]
  BY LedgerAssumption, HeaderAmount
<1>2. headerCost["logical"] = 0 /\ headerCost["physical"] = Header
  BY <1>1, BytesAmount DEF headerCost
<1>3. h \in [Dim -> Nat] /\ h["logical"] = a["logical"]
      /\ h["physical"] = IF a["physical"] >= Header THEN a["physical"] - Header ELSE 0
  BY <1>1, <1>2 DEF afterHeader, headerFits, Minus, Bytes, Dim
<1>4. \/ a["physical"] >= Header
      \/ /\ a["physical"] < Header /\ Header <= PaneCap["physical"]
         /\ Header <= RealmCap["physical"] - (r.total["physical"] + r.reserved["physical"])
  <2>1. CASE headerFits(a)
    BY <2>1 DEF headerFits
  <2>2. CASE ~headerFits(a)
    <3> DEFINE b == Bytes(a["logical"], 0)
               q == [r EXCEPT !.reserved = Plus(@, b)]
    <3>1. room(q, Absent, headerCost)
      BY <2>2 DEF headerPaid
    <3>2. b["physical"] = 0 /\ b \in [Dim -> Nat]
      BY DEF Bytes, Dim
    <3> HIDE DEF b
    <3>3. q.total = r.total /\ q.reserved["physical"] = r.reserved["physical"]
      BY <1>0, <3>2 DEF Plus, Dim, Amount, Good, RealmType
    <3> HIDE DEF q
    <3>4. Absent.charge["physical"] = 0 /\ Absent.held["physical"] = 0
      BY DEF Absent, Zero, Dim
    <3>5. /\ Header <= PaneCap["physical"] - (0 + 0)
          /\ Header <= RealmCap["physical"] - (r.total["physical"] + r.reserved["physical"])
      BY <1>2, <3>1, <3>3, <3>4 DEF room, Dim
    <3> QED
      BY <1>0, <1>1, <2>2, <3>5 DEF headerFits, Dim
  <2> QED
    BY <2>1, <2>2
<1> HIDE DEF h
<1>5. /\ t \in Amount /\ v \in Amount /\ o \in Amount
      /\ \A d \in Dim : t[d] = r.total[d] + headerCost[d] /\ v[d] = r.reserved[d] + h[d]
  BY <1>0, <1>1, <1>3, PlusAmount
<1>6. p \in PaneType /\ p.charge = headerCost /\ p.held = h
  <2>1. h \in Amount
    BY <1>3 DEF Amount
  <2>2. p \in PaneType
    BY <1>3, <2>1, FreshPaneType DEF PaneType
  <2> QED
    BY <2>2 DEF FreshPane, Absent
<1> HIDE DEF p, t, v, o
<1>7. \A d \in Dim : /\ p.charge[d] + p.held[d] <= PaneCap[d]
                     /\ t[d] + v[d] <= RealmCap[d] /\ t[d] + r.reserved[d] <= RealmCap[d]
  <2>1. \A d \in Dim : r.total[d] \in Int /\ r.reserved[d] \in Int /\ a[d] \in Nat
    BY <1>0 DEF Amount
  <2>2. Spare(r, a) /\ \A d \in Dim : a[d] <= PaneCap[d]
    OBVIOUS
  <2> QED
    BY <1>0, <1>1, <1>2, <1>3, <1>4, <1>5, <1>6, <2>1, <2>2 DEF Spare, Dim
<1>8. Good([r EXCEPT !.panes[k] = p, !.total = t, !.reserved = v])
  BY <1>5, <1>6, <1>7, ReplacePane
<1>9. adopted(r, k, a) = [r EXCEPT !.panes[k] = p, !.total = t, !.reserved = v]
  BY DEF adopted, materialize, p, t, v, h, Good, RealmType
<1>10. orphanHeader(r) = [r EXCEPT !.total = t, !.orphan = o]
  BY DEF orphanHeader, t, o
<1>11. Good([r EXCEPT !.total = t, !.orphan = o])
  BY <1>5, <1>7 DEF Good, Capped, RealmType
<1> QED
  BY <1>8, <1>9, <1>10, <1>11

-----------------------------------------------------------------------------
(* The inductive invariant.                                                 *)

\* A rotation reservation that is not idle names its successor.
RotationOK ==
  \A k \in Key : rotation[k].held \/ rotation[k].committed \/ rotation[k].failed =>
                   \E s \in Key : rotation[k].successor = {s}

\* A capacity that has not been tried yet still holds all of R2+R3.
CapacityOK ==
  \A k \in Key : capacity[k].held /\ ~capacity[k].attempted =>
                   /\ capacity[k].successor = successorHold
                   /\ \A d \in Dim : successorHold[d] <= PaneCap[d]

IInv == TypeOK /\ Capped(realm) /\ RotationOK /\ CapacityOK

\* The parts of the invariant the steps use.
LEMMA IInvGood ==
  ASSUME IInv
  PROVE  /\ Good(realm) /\ capacity \in [Key -> CapacityType] /\ rotation \in [Key -> RotationType]
         /\ adoption \in [Key -> {"none", "held", "settled"}]
         /\ geometry \subseteq Key /\ used \subseteq Key /\ restarts \in 0..MaxRestarts
  BY DEF IInv, TypeOK, Good

\* A step that leaves the rotation alone.
LEMMA LedgerStep ==
  ASSUME IInv, Good(realm'), UNCHANGED <<capacity, rotation, restarts>>,
         adoption' \in [Key -> {"none", "held", "settled"}], geometry' \subseteq Key,
         used' \subseteq Key
  PROVE  IInv'
<1>1. TypeOK'
  BY DEF IInv, TypeOK, Good
<1>2. Capped(realm)'
  BY DEF Good, Capped
<1> QED
  BY <1>1, <1>2 DEF IInv, RotationOK, CapacityOK

\* A step that changes the realm only.
LEMMA RealmStep ==
  ASSUME IInv, Good(realm'), UNCHANGED <<capacity, rotation, adoption, geometry, used, restarts>>
  PROVE  IInv'
  BY IInvGood, LedgerStep

\* A step of the rotation of k.
LEMMA RotationStep ==
  ASSUME IInv, Good(realm'), NEW k \in Key, NEW c \in CapacityType, NEW t \in RotationType,
         capacity' = [capacity EXCEPT ![k] = c], rotation' = [rotation EXCEPT ![k] = t],
         t.held \/ t.committed \/ t.failed => \E s \in Key : t.successor = {s},
         c.held /\ ~c.attempted => /\ c.successor = successorHold
                                   /\ \A d \in Dim : successorHold[d] <= PaneCap[d],
         used' \subseteq Key, UNCHANGED <<adoption, geometry, restarts>>
  PROVE  IInv'
<1>1. TypeOK'
  BY DEF IInv, TypeOK, Good
<1>2. Capped(realm)'
  BY DEF Good, Capped
<1>3. RotationOK'
  BY DEF IInv, RotationOK, TypeOK
<1>4. CapacityOK'
  BY DEF IInv, CapacityOK, TypeOK
<1> QED
  BY <1>1, <1>2, <1>3, <1>4 DEF IInv

\* The idle capacity and reservation.
LEMMA Idle == NoCapacity \in CapacityType /\ NoRotation \in RotationType
              /\ ~NoCapacity.held
              /\ ~NoRotation.held /\ ~NoRotation.committed /\ ~NoRotation.failed
  BY ZeroAmount DEF NoCapacity, NoRotation, CapacityType, RotationType

\* A reservation in use has exactly one successor.
LEMMA Successor ==
  ASSUME IInv, NEW k \in Key, rotation[k].held \/ rotation[k].committed \/ rotation[k].failed
  PROVE  theSuccessor(k) \in Key /\ rotation[k].successor = {theSuccessor(k)}
  BY DEF IInv, RotationOK, theSuccessor

\* An empty realm satisfies the invariant.
LEMMA InitIInv == Init => IInv
<1> SUFFICES ASSUME Init PROVE IInv
  OBVIOUS
<1>1. realm \in RealmType
  BY AbsentPane, ZeroAmount DEF Init, RealmType
<1>2. TypeOK
  BY <1>1, Idle, LedgerAssumption DEF Init, TypeOK
<1>3. Capped(realm)
  <2>1. \A k \in Key : realm.panes[k].charge = Zero /\ realm.panes[k].held = Zero
    BY DEF Init, Absent
  <2>2. realm.total = Zero /\ realm.reserved = Zero
    BY DEF Init
  <2> QED
    BY <2>1, <2>2, ZeroAmount, LedgerAssumption DEF Capped
<1>4. RotationOK /\ CapacityOK
  BY Idle DEF Init, RotationOK, CapacityOK
<1> QED
  BY <1>2, <1>3, <1>4 DEF IInv

\* AdmitPane preserves the invariant.
LEMMA AdmitPaneStep ==
  ASSUME IInv, NEW k \in Key, AdmitPane(k)
  PROVE  IInv'
<1>1. Good(realm) /\ room(realm, Absent, headerCost) /\ used \subseteq Key
  BY IInvGood DEF AdmitPane
<1>2. Good(takeSlot(materialize(realm, k))) /\ Good(orphanHeader(realm))
  BY <1>1, MaterializeGood, SlotHelpers
<1>3. Good(realm')
  BY <1>2 DEF AdmitPane
<1> QED
  BY <1>1, <1>3, LedgerStep, IInvGood DEF AdmitPane

\* BeginReconstructedPane preserves the invariant.
LEMMA BeginReconstructedPaneStep ==
  ASSUME IInv, NEW k \in Key, BeginReconstructedPane(k)
  PROVE  IInv'
<1>0. Good(realm)
  BY IInvGood
<1>1. PICK found \in slotFound(k) : \E gone \in SUBSET stale(found.realm, k) :
        LET back == refunded(found.realm, gone)
            r == sweep(found.realm, gone)
            a == Least(Plus(back, found.given), PaneCap)
        IN \/ /\ headerPaid(r, a) /\ realm' = adopted(r, k, a)
              /\ adoption' = [adoption EXCEPT ![k] = "held"]
           \/ /\ realm' = releaseSlot(r) /\ UNCHANGED adoption
           \/ /\ headerPaid(r, a) /\ realm' = orphanHeader(releaseSlot(r))
              /\ UNCHANGED adoption
  BY DEF BeginReconstructedPane
<1>2. PICK gone \in SUBSET stale(found.realm, k) :
        LET back == refunded(found.realm, gone)
            r == sweep(found.realm, gone)
            a == Least(Plus(back, found.given), PaneCap)
        IN \/ /\ headerPaid(r, a) /\ realm' = adopted(r, k, a)
              /\ adoption' = [adoption EXCEPT ![k] = "held"]
           \/ /\ realm' = releaseSlot(r) /\ UNCHANGED adoption
           \/ /\ headerPaid(r, a) /\ realm' = orphanHeader(releaseSlot(r))
              /\ UNCHANGED adoption
  BY <1>1
<1> DEFINE back == refunded(found.realm, gone)
           r == sweep(found.realm, gone)
           free == Plus(back, found.given)
           a == Least(free, PaneCap)
<1>3. Good(found.realm) /\ found.given \in [Dim -> Nat] /\ Spare(found.realm, found.given)
  BY <1>0, SlotFoundGood
<1>4. gone \in SUBSET Key /\ back \in [Dim -> Nat]
  BY <1>3, RefundedAmount DEF stale, present, Good, RealmType
<1>5. Good(r) /\ Spare(r, free) /\ free \in [Dim -> Nat]
  BY <1>3, <1>4, SweepSpare, PlusNat
<1>6. \/ /\ headerPaid(r, a) /\ realm' = adopted(r, k, a)
         /\ adoption' = [adoption EXCEPT ![k] = "held"]
      \/ /\ realm' = releaseSlot(r) /\ UNCHANGED adoption
      \/ /\ headerPaid(r, a) /\ realm' = orphanHeader(releaseSlot(r))
         /\ UNCHANGED adoption
  BY <1>2
<1> HIDE DEF r, free, back
<1>7. a \in [Dim -> Nat] /\ \A d \in Dim : a[d] <= free[d] /\ a[d] <= PaneCap[d]
  BY <1>5, LedgerAssumption DEF Least
<1> HIDE DEF a
<1>8. Spare(r, a)
  <2>1. r.total \in Amount /\ r.reserved \in Amount
    BY <1>5 DEF Good, RealmType
  <2>2. \A d \in Dim : /\ r.total[d] \in Int /\ r.reserved[d] \in Int /\ a[d] \in Int
                       /\ free[d] \in Int /\ RealmCap[d] \in Int /\ a[d] <= free[d]
    BY <1>5, <1>7, <2>1, LedgerAssumption DEF Amount
  <2> QED
    BY <1>5, <2>2 DEF Spare
<1>9. headerPaid(r, a) => Good(adopted(r, k, a)) /\ Good(orphanHeader(r))
  BY <1>5, <1>7, <1>8, AdoptedGood
<1>10. orphanHeader(releaseSlot(r)) = releaseSlot(orphanHeader(r))
  BY <1>5 DEF orphanHeader, releaseSlot, Good, RealmType
<1>11. Good(realm')
  BY <1>5, <1>6, <1>9, <1>10, SlotHelpers
<1>12. adoption' \in [Key -> {"none", "held", "settled"}]
  BY <1>6, IInvGood
<1> QED
  BY <1>11, <1>12, LedgerStep, IInvGood DEF BeginReconstructedPane

\* AdoptionCommit preserves the invariant.
LEMMA AdoptionCommitStep ==
  ASSUME IInv, NEW k \in Key, AdoptionCommit(k)
  PROVE  IInv'
<1> DEFINE r == releaseAllowance(realm, k)
<1>1. Good(r)
  BY IInvGood, ReleaseAllowanceGood
<1>2. PICK gone \in SUBSET stale(r, k) : realm' = sweep(r, gone)
  BY DEF AdoptionCommit
<1>3. gone \in SUBSET Key
  BY DEF stale, present
<1> HIDE DEF r
<1>4. Good(realm')
  BY <1>1, <1>2, <1>3, SweepGood
<1> QED
  BY <1>4, LedgerStep, IInvGood DEF AdoptionCommit

\* AdoptionAbort preserves the invariant.
LEMMA AdoptionAbortStep ==
  ASSUME IInv, NEW k \in Key, AdoptionAbort(k)
  PROVE  IInv'
<1> DEFINE r == releaseAllowance(releaseSlot(realm), k)
<1>1. Good(r)
  BY IInvGood, SlotHelpers, ReleaseAllowanceGood
<1>2. realm' \in tombstones(r, k)
  BY DEF AdoptionAbort
<1> HIDE DEF r
<1>3. Good(realm')
  BY <1>1, <1>2, TombstonesGood
<1> QED
  BY <1>3, LedgerStep, IInvGood DEF AdoptionAbort

\* Retirement, with or without its unlink, keeps the caps.
LEMMA RetireGood ==
  ASSUME NEW r, Good(r), NEW k \in Key
  PROVE  LET q == retireSlot(invalidate(r, k), k)
         IN Good(invalidate(r, k)) /\ Good(q) /\ Good(forget(refund(q, k), k))
<1>1. Good(invalidate(r, k))
  BY InvalidateGood
<1>2. Good(retireSlot(invalidate(r, k), k))
  BY <1>1, RetireSlotGood
<1> QED
  BY <1>1, <1>2, RefundGood, ForgetGood

\* Retirement preserves the invariant.
LEMMA RetirementStep ==
  ASSUME IInv, NEW k \in Key,
         RetirePane(k) \/ SettleFailedOwner(k) \/ ReclaimRetired(k) \/ AttributeRecovered(k)
           \/ ReconcileRecovered(k) \/ CommitFails(k)
  PROVE  IInv'
<1>0. Good(realm)
  BY IInvGood
<1>1. CASE RetirePane(k)
  <2>1. Good(realm')
    BY <1>0, <1>1, RetireGood DEF RetirePane
  <2> QED
    BY <1>1, <2>1, RealmStep DEF RetirePane
<1>2. CASE SettleFailedOwner(k)
  <2>1. Good(realm')
    BY <1>0, <1>2, MarkedGood DEF SettleFailedOwner
  <2> QED
    BY <1>2, <2>1, RealmStep DEF SettleFailedOwner
<1>3. CASE ReclaimRetired(k)
  <2>1. Good(realm')
    BY <1>0, <1>3, ForgetGood DEF ReclaimRetired
  <2> QED
    BY <1>3, <2>1, RealmStep DEF ReclaimRetired
<1>4. CASE AttributeRecovered(k)
  <2>1. Good(realm')
    BY <1>0, <1>4, MarkedGood DEF AttributeRecovered
  <2> QED
    BY <1>4, <2>1, RealmStep DEF AttributeRecovered
<1>5. CASE ReconcileRecovered(k)
  <2>1. Good(realm')
    BY <1>0, <1>5, RetireGood DEF ReconcileRecovered
  <2> QED
    BY <1>5, <2>1, RealmStep DEF ReconcileRecovered
<1>6. CASE CommitFails(k)
  <2>1. Good(realm')
    BY <1>0, <1>6, InvalidateGood DEF CommitFails
  <2> QED
    BY <1>6, <2>1, RealmStep DEF CommitFails
<1> QED
  BY <1>1, <1>2, <1>3, <1>4, <1>5, <1>6

\* ReclaimRetiredSession preserves the invariant.
LEMMA ReclaimRetiredSessionStep ==
  ASSUME IInv, NEW k \in Key, ReclaimRetiredSession(k)
  PROVE  IInv'
<1> DEFINE Kept == {s \in present(realm) : pane(s).state = "legacy"
                       /\ ~pane(s).slotRetired /\ Session[s] = Session[k]}
           n(x) == realm.slots - Cardinality(x)
           m(x) == IF n(x) > 0 THEN n(x) ELSE 0
           r(x) == [realm EXCEPT
                      !.panes = [s \in Key |-> IF s \in x THEN slotless(@[s]) ELSE @[s]],
                      !.slots = m(x)]
<1>1. PICK kept \in SUBSET Kept : \E gone \in SUBSET stale(r(kept), k) :
        realm' = sweep(r(kept), gone)
  BY DEF ReclaimRetiredSession
<1>2. PICK gone \in SUBSET stale(r(kept), k) :
        realm' = sweep(r(kept), gone)
  BY <1>1
<1>3. gone \in SUBSET Key /\ kept \in SUBSET Key
  BY DEF stale, present
<1> HIDE DEF Kept
<1>4. m(kept) \in Nat
  <2> HIDE DEF r
  <2>1. realm.slots \in Nat
    BY IInvGood DEF Good, RealmType
  <2>2. Cardinality(kept) \in Nat
    BY <1>3, KeySubsets
  <2>3. n(kept) \in Int
    BY <2>1, <2>2
  <2> HIDE DEF n
  <2> QED
    BY <2>3
<1>5. Good(r(kept))
  <2> HIDE DEF m
  <2> QED BY <1>4, SlotlessGood, IInvGood
<1> HIDE DEF r
<1>6. Good(realm')
  BY <1>2, <1>3, <1>5, SweepGood
<1> QED
  BY <1>6, RealmStep DEF ReclaimRetiredSession

-----------------------------------------------------------------------------
(* Appends and geometry reservations.                                       *)

\* AppendOutput preserves the invariant.
LEMMA AppendOutputStep ==
  ASSUME IInv, NEW k \in Key, NEW n \in PayloadSizes, AppendOutput(k, n)
  PROVE  IInv'
<1> DEFINE c == physicalAppendCost(n)
           a == drawn(pane(k), c)
<1>0. Good(realm) /\ pane(k) \in PaneType /\ c \in [Dim -> Nat]
  BY IInvGood, GoodParts, CostAmounts DEF pane
<1>1. a \in [Dim -> Nat] /\ \A d \in Dim : a[d] <= c[d] /\ a[d] <= holdAmount(pane(k), holdOf(pane(k)))[d]
  BY <1>0, DrawnBounded
<1>2. IF room(realm, pane(k), Minus(c, a))
      THEN realm' \in {spend(draw(realm, k, a), k, c), spendTorn(draw(realm, k, a), k, c)}
      ELSE realm' = invalidate(realm, k)
  BY DEF AppendOutput
<1> HIDE DEF a, c
<1>3. room(realm, pane(k), Minus(c, a)) =>
        Good(spend(draw(realm, k, a), k, c)) /\ Good(spendTorn(draw(realm, k, a), k, c))
  BY <1>0, <1>1, PaidAppendGood DEF pane
<1>4. Good(realm')
  BY <1>0, <1>2, <1>3, InvalidateGood
<1> QED
  BY <1>4, RealmStep DEF AppendOutput

\* AppendGeometry preserves the invariant.
LEMMA AppendGeometryStep ==
  ASSUME IInv, NEW k \in Key, AppendGeometry(k)
  PROVE  IInv'
<1>0. Good(realm) /\ geometryRecordCost \in [Dim -> Nat]
  BY IInvGood, CostAmounts
<1>1. Good(realm')
  BY <1>0, AppendGood, InvalidateGood DEF AppendGeometry, pane
<1> QED
  BY <1>1, RealmStep DEF AppendGeometry

\* ReserveGeometry preserves the invariant.
LEMMA ReserveGeometryStep ==
  ASSUME IInv, NEW k \in Key, ReserveGeometry(k)
  PROVE  IInv'
<1> DEFINE g == geometryRecordCost
           p == holding(realm.panes[k], g)
<1>0. /\ Good(realm) /\ g \in [Dim -> Nat] /\ realm.reserved \in Amount
      /\ realm.panes[k] \in PaneType /\ realm.total \in Amount
      /\ realm.panes[k].charge \in [Dim -> Nat] /\ realm.panes[k].held \in Amount
  BY IInvGood, CostAmounts, GoodParts
<1>1. room(realm, realm.panes[k], g)
      /\ realm' = [realm EXCEPT !.reserved = Plus(@, g), !.panes[k] = p]
  BY DEF ReserveGeometry, pane
<1> HIDE DEF g
<1>2. p \in PaneType /\ p.charge = realm.panes[k].charge /\ p.held = Plus(realm.panes[k].held, g)
  BY <1>0, HoldingType
<1> HIDE DEF p
<1>3. /\ \A d \in Dim : realm.panes[k].charge[d] + realm.panes[k].held[d] + g[d] <= PaneCap[d]
      /\ \A d \in Dim : realm.total[d] + realm.reserved[d] + g[d] + Zero[d] <= RealmCap[d]
  <2> SUFFICES ASSUME NEW d \in Dim
               PROVE  /\ realm.panes[k].charge[d] + realm.panes[k].held[d] + g[d] <= PaneCap[d]
                      /\ realm.total[d] + realm.reserved[d] + g[d] + Zero[d] <= RealmCap[d]
    OBVIOUS
  <2>1. /\ g[d] <= PaneCap[d] - (realm.panes[k].charge[d] + realm.panes[k].held[d])
        /\ g[d] <= RealmCap[d] - (realm.total[d] + realm.reserved[d])
    BY <1>1 DEF room
  <2>2. /\ g[d] \in Int /\ realm.panes[k].charge[d] \in Int /\ realm.panes[k].held[d] \in Int
        /\ realm.total[d] \in Int /\ realm.reserved[d] \in Int
        /\ PaneCap[d] \in Int /\ RealmCap[d] \in Int /\ Zero[d] = 0
    BY <1>0, ZeroAmount, LedgerAssumption DEF Amount
  <2> QED
    BY <2>1, <2>2
<1>4. Good([realm EXCEPT !.reserved = Plus(Plus(@, g), Zero), !.panes[k] = p])
  BY <1>0, <1>2, <1>3, ZeroAmount, HoldGood
<1>5. Plus(Plus(realm.reserved, g), Zero) = Plus(realm.reserved, g)
  BY <1>0 DEF Plus, Zero, Amount
<1>6. Good(realm')
  BY <1>1, <1>4, <1>5
<1> QED
  BY <1>6, LedgerStep, IInvGood DEF ReserveGeometry

\* ReleaseGeometry preserves the invariant.
LEMMA ReleaseGeometryStep ==
  ASSUME IInv, NEW k \in Key, ReleaseGeometry(k) \/ AppendReservedGeometry(k)
  PROVE  IInv'
<1> DEFINE r == releaseGeometry(realm, k)
           g == geometryRecordCost
<1>0. Good(r) /\ g \in [Dim -> Nat] /\ (pane(k).state # "absent" => room(r, r.panes[k], g))
  BY IInvGood, ReleaseGeometryGood, CostAmounts DEF pane
<1>1. /\ realm' \in IF live(k) THEN {r, spend(r, k, g), spendTorn(r, k, g)} ELSE {r}
      /\ geometry' = geometry \ {k} /\ UNCHANGED <<capacity, rotation, adoption, used, restarts>>
  BY DEF ReleaseGeometry, AppendReservedGeometry
<1>2. live(k) => pane(k).state # "absent"
  BY DEF live
<1> HIDE DEF r, g
<1>3. Good(realm')
  BY <1>0, <1>1, <1>2, AppendGood
<1> QED
  BY <1>1, <1>3, LedgerStep, IInvGood

-----------------------------------------------------------------------------
(* Rotation.                                                                *)

\* BeginRotationCapacity preserves the invariant.
LEMMA BeginRotationCapacityStep ==
  ASSUME IInv, NEW k \in Key, BeginRotationCapacity(k)
  PROVE  IInv'
<1> DEFINE t == takeSlot(realm)
           u == holding(t.panes[k], rollbackHold)
           p == [u EXCEPT !.rollback = [bytes |-> rollbackHold, records |-> PendingRecords],
                          !.capacity = "held"]
           c == [NoCapacity EXCEPT !.held = TRUE, !.successor = successorHold]
<1>1. /\ Good(t) /\ t.panes = realm.panes /\ t.total = realm.total /\ t.reserved = realm.reserved
  BY IInvGood, SlotHelpers DEF takeSlot, Good, RealmType
<1>2. /\ \A d \in Dim : /\ rollbackHold[d] <= PaneCap[d] - t.panes[k].charge[d] - t.panes[k].held[d]
                        /\ successorHold[d] <= PaneCap[d]
                        /\ rollbackHold[d] + successorHold[d]
                             <= RealmCap[d] - t.total[d] - t.reserved[d]
      /\ realm' = [t EXCEPT !.reserved = Plus(Plus(@, rollbackHold), successorHold), !.panes[k] = p]
  BY <1>1 DEF BeginRotationCapacity, pane
<1>3. rollbackHold \in [Dim -> Nat] /\ successorHold \in [Dim -> Nat] /\ PendingRecords \in Nat
  BY CostAmounts, LedgerAssumption
<1> HIDE DEF t
<1>4. p \in PaneType /\ p.charge = t.panes[k].charge /\ p.held = Plus(t.panes[k].held, rollbackHold)
  <2>1. u \in PaneType /\ u.charge = t.panes[k].charge
        /\ u.held = Plus(t.panes[k].held, rollbackHold)
    BY <1>1, <1>3, GoodParts, HoldingType
  <2> HIDE DEF u
  <2>2. [bytes |-> rollbackHold, records |-> PendingRecords] \in HoldType
    BY <1>3 DEF HoldType
  <2> QED
    BY <2>1, <2>2 DEF PaneType
<1> HIDE DEF p
<1>5. Good(realm')
  <2>1. /\ t.panes[k].charge \in [Dim -> Nat] /\ t.panes[k].held \in Amount
        /\ t.total \in Amount /\ t.reserved \in Amount
    BY <1>1, GoodParts
  <2>2. \A d \in Dim :
          /\ t.panes[k].charge[d] + t.panes[k].held[d] + rollbackHold[d] <= PaneCap[d]
          /\ t.total[d] + t.reserved[d] + rollbackHold[d] + successorHold[d] <= RealmCap[d]
    <3>1. \A d \in Dim : /\ t.panes[k].charge[d] \in Int /\ t.panes[k].held[d] \in Int
                         /\ t.total[d] \in Int /\ t.reserved[d] \in Int
                         /\ rollbackHold[d] \in Int /\ successorHold[d] \in Int
                         /\ PaneCap[d] \in Int /\ RealmCap[d] \in Int
      BY <1>3, <2>1, LedgerAssumption DEF Amount
    <3> QED
      BY <1>2, <3>1
  <2> QED
    BY <1>1, <1>2, <1>3, <1>4, <2>2, HoldGood
<1>6. c \in CapacityType /\ c.successor = successorHold
  BY <1>3, Idle DEF CapacityType, NoCapacity
<1> HIDE DEF c
<1>7. capacity' = [capacity EXCEPT ![k] = c] /\ rotation' = [rotation EXCEPT ![k] = NoRotation]
      /\ used' \subseteq Key /\ UNCHANGED <<adoption, geometry, restarts>>
  BY IInvGood DEF BeginRotationCapacity, c
<1> QED
  BY <1>2, <1>5, <1>6, <1>7, Idle, RotationStep

\* ReleaseCapacity preserves the invariant.
LEMMA ReleaseCapacityStep ==
  ASSUME IInv, NEW k \in Key, ReleaseCapacity(k)
  PROVE  IInv'
<1> DEFINE r == releaseRollback(realm, k)
           a == capacity[k].successor
           v == Minus(r.reserved, a)
           q == [r EXCEPT !.reserved = v]
<1>1. Good(r) /\ a \in [Dim -> Nat] /\ rotation[k] \in RotationType
  BY IInvGood, ReleaseRollbackGood DEF CapacityType
<1>2. realm' = IF capacity[k].materialized THEN r ELSE releaseSlot(q)
  BY DEF ReleaseCapacity
<1> HIDE DEF r, a
<1>3. r.total \in Amount /\ r.reserved \in Amount
  BY <1>1 DEF Good, RealmType
<1>4. v \in Amount /\ \A d \in Dim : v[d] <= r.reserved[d]
  BY <1>1, <1>3, MinusAmount
<1> HIDE DEF v
<1>5. Good(q)
  <2>1. \A d \in Dim : r.total[d] + v[d] <= RealmCap[d]
    BY <1>1, <1>3, <1>4, LedgerAssumption DEF Good, Capped, Amount
  <2> QED
    BY <1>1, <1>4, <2>1 DEF Good, Capped, RealmType
<1>6. Good(realm')
  BY <1>1, <1>2, <1>5, SlotHelpers
<1>7. /\ capacity' = [capacity EXCEPT ![k] = NoCapacity]
      /\ rotation' = [rotation EXCEPT ![k] = rotation[k]]
      /\ used' \subseteq Key /\ UNCHANGED <<adoption, geometry, restarts>>
  BY IInvGood DEF ReleaseCapacity
<1>8. rotation[k].held \/ rotation[k].committed \/ rotation[k].failed =>
        \E s \in Key : rotation[k].successor = {s}
  BY DEF IInv, RotationOK
<1> QED
  BY <1>1, <1>6, <1>7, <1>8, Idle, RotationStep

\* ArmRollback preserves the invariant.
LEMMA ArmRollbackStep ==
  ASSUME IInv, NEW k \in Key, ArmRollback(k)
  PROVE  IInv'
<1>1. Good(realm')
  BY IInvGood, ArmRollbackGood DEF ArmRollback
<1> QED
  BY <1>1, RealmStep DEF ArmRollback

\* The successor of a rotation is charged out of what was held for it.
LEMMA BeginRotatedPaneStep ==
  ASSUME IInv, NEW k \in Key, NEW s \in Key, BeginRotatedPane(k, s)
  PROVE  IInv'
<1> DEFINE hr == Bytes(0, HeaderReserve)
           rest == Minus(capacity[k].successor, hr)
<1>0. Good(realm) /\ capacity[k] \in CapacityType /\ rotation[k] \in RotationType
  BY IInvGood
<1>1. capacity[k].successor = successorHold /\ \A d \in Dim : successorHold[d] <= PaneCap[d]
  BY DEF IInv, CapacityOK, BeginRotatedPane
<1>2. /\ hr \in [Dim -> Nat] /\ successorHold \in [Dim -> Nat] /\ headerCost \in [Dim -> Nat]
      /\ \A d \in Dim : hr[d] <= successorHold[d] /\ headerCost[d] <= hr[d]
  BY CostAmounts, HeaderAmount
<1>3. /\ realm.total \in Amount /\ realm.reserved \in Amount /\ realm.orphan \in Amount
      /\ \A d \in Dim : /\ realm.total[d] + realm.reserved[d] <= RealmCap[d]
                        /\ RealmCap[d] \in Nat /\ PaneCap[d] \in Nat
  BY <1>0, LedgerAssumption DEF Good, Capped, RealmType
<1> HIDE DEF hr
<1>4. rest \in [Dim -> Nat] /\ \A d \in Dim : rest[d] = successorHold[d] - hr[d]
  BY <1>1, <1>2 DEF Minus
<1>5. used' \subseteq Key /\ UNCHANGED <<adoption, geometry, restarts>>
  BY IInvGood DEF BeginRotatedPane
<1> DEFINE t == Plus(realm.total, headerCost)
           v == Minus(realm.reserved, hr)
           w == Minus(realm.reserved, headerCost)
           o == Plus(realm.orphan, headerCost)
           fwd == [bytes |-> rest, records |-> BootstrapRecords + PendingRecords]
           p == [FreshPane EXCEPT !.held = rest, !.forward = fwd]
<1>6. /\ t \in Amount /\ v \in Amount /\ w \in Amount /\ o \in Amount
      /\ \A d \in Dim : /\ t[d] = realm.total[d] + headerCost[d] /\ v[d] = realm.reserved[d] - hr[d]
                        /\ w[d] = realm.reserved[d] - headerCost[d]
  BY <1>2, <1>3 DEF Plus, Minus, Amount
<1>7. p \in PaneType /\ p.charge = headerCost /\ p.held = rest
  <2>1. fwd \in HoldType
    BY <1>4, LedgerAssumption DEF HoldType
  <2>2. rest \in Amount
    BY <1>4 DEF Amount
  <2> HIDE DEF rest, fwd
  <2>3. p \in PaneType
    BY <2>1, <2>2, FreshPaneType DEF PaneType
  <2> QED
    BY <2>3 DEF FreshPane, Absent
<1> DEFINE A1 == /\ realm' = [materialize(realm, s) EXCEPT
                                !.reserved = Minus(@, hr), !.panes[s] = [@ EXCEPT !.held = rest, !.forward = fwd]]
                 /\ capacity' = [capacity EXCEPT ![k] = [@ EXCEPT !.attempted = TRUE, !.active = TRUE,
                                                               !.materialized = TRUE, !.successor = Zero]]
                 /\ rotation' = [rotation EXCEPT ![k] = [NoRotation EXCEPT !.held = TRUE,
                                                                          !.successor = {s}]]
           A2 == /\ capacity' = [capacity EXCEPT ![k].attempted = TRUE]
                 /\ UNCHANGED <<realm, rotation>>
           A3 == /\ realm' = [orphanHeader(realm) EXCEPT !.reserved = Minus(@, headerCost)]
                 /\ capacity' = [capacity EXCEPT ![k].attempted = TRUE,
                                                 ![k].successor = Minus(@, headerCost)]
                 /\ UNCHANGED rotation
<1>8. A1 \/ A2 \/ A3
  BY DEF BeginRotatedPane, hr
<1>9. rotation[k].held \/ rotation[k].committed \/ rotation[k].failed =>
        \E j \in Key : rotation[k].successor = {j}
  BY DEF IInv, RotationOK
<1>10. CASE A1
  <2> DEFINE c == [capacity[k] EXCEPT !.attempted = TRUE, !.active = TRUE,
                                      !.materialized = TRUE, !.successor = Zero]
             n == [NoRotation EXCEPT !.held = TRUE, !.successor = {s}]
  <2>1. realm' = [realm EXCEPT !.panes[s] = p, !.total = t, !.reserved = v]
    BY <1>0, <1>10 DEF materialize, Good, RealmType
  <2>2. c \in CapacityType /\ c.attempted /\ capacity' = [capacity EXCEPT ![k] = c]
    <3>1. capacity' = [capacity EXCEPT ![k] = c]
      BY <1>10
    <3>2. c.attempted
      BY <1>0 DEF CapacityType
    <3>3. c \in CapacityType
      BY <1>0, ZeroAmount DEF CapacityType
    <3> QED
      BY <3>1, <3>2, <3>3
  <2>3. n \in RotationType /\ n.successor = {s} /\ rotation' = [rotation EXCEPT ![k] = n]
    BY <1>10, Idle DEF RotationType, NoRotation
  <2> HIDE DEF p, t, v, rest, fwd, n
  <2>4. \A d \in Dim : p.charge[d] + p.held[d] <= PaneCap[d] /\ t[d] + v[d] <= RealmCap[d]
    <3>1. \A d \in Dim : /\ realm.total[d] \in Int /\ realm.reserved[d] \in Int /\ hr[d] \in Int
                         /\ headerCost[d] \in Int /\ successorHold[d] \in Int
      BY <1>2, <1>3 DEF Amount
    <3> QED
      BY <1>1, <1>2, <1>3, <1>4, <1>6, <1>7, <3>1
  <2>5. Good(realm')
    BY <1>0, <1>6, <1>7, <2>1, <2>4, ReplacePane
  <2> HIDE DEF c
  <2> QED
    BY <1>5, <2>2, <2>3, <2>5, RotationStep
<1>11. CASE A2
  <2> DEFINE c == [capacity[k] EXCEPT !.attempted = TRUE]
  <2>1. c \in CapacityType /\ c.attempted
    BY <1>0 DEF CapacityType
  <2>2. capacity' = [capacity EXCEPT ![k] = c] /\ rotation' = [rotation EXCEPT ![k] = rotation[k]]
    BY <1>11, IInvGood
  <2>3. Good(realm')
    BY <1>0, <1>11
  <2> HIDE DEF c
  <2> QED
    BY <1>0, <1>5, <1>9, <2>1, <2>2, <2>3, RotationStep
<1>12. CASE A3
  <2> DEFINE b == Minus(capacity[k].successor, headerCost)
             c == [capacity[k] EXCEPT !.attempted = TRUE, !.successor = b]
  <2>1. b \in [Dim -> Nat]
    BY <1>1, <1>2 DEF Minus
  <2>2. capacity' = [capacity EXCEPT ![k] = c] /\ rotation' = [rotation EXCEPT ![k] = rotation[k]]
    BY <1>12, IInvGood
  <2> HIDE DEF b
  <2>3. c \in CapacityType /\ c.attempted
    BY <1>0, <2>1 DEF CapacityType
  <2>4. realm' = [realm EXCEPT !.total = t, !.orphan = o, !.reserved = w]
    BY <1>0, <1>12 DEF orphanHeader, Good, RealmType
  <2> HIDE DEF t, o, w, c
  <2>5. \A d \in Dim : t[d] + w[d] <= RealmCap[d]
    <3>1. \A d \in Dim : realm.total[d] \in Int /\ realm.reserved[d] \in Int /\ headerCost[d] \in Int
      BY <1>2, <1>3 DEF Amount
    <3> QED
      BY <1>3, <1>6, <3>1
  <2>6. Good(realm')
    BY <1>0, <1>6, <2>4, <2>5 DEF Good, Capped, RealmType
  <2> QED
    BY <1>0, <1>5, <1>9, <2>2, <2>3, <2>6, RotationStep
<1> QED
  BY <1>8, <1>10, <1>11, <1>12

\* RotationCommit preserves the invariant.
LEMMA RotationCommitStep ==
  ASSUME IInv, NEW k \in Key, RotationCommit(k)
  PROVE  IInv'
<1> DEFINE s == theSuccessor(k)
           r == releaseForward(releaseRollback(realm, k), s)
           q == IF r.panes[k].slotRetired THEN r ELSE retireSlot(invalidate(r, k), k)
           t == [rotation[k] EXCEPT !.held = FALSE, !.committed = TRUE]
<1>0. rotation[k].held /\ rotation[k] \in RotationType
  BY IInvGood DEF RotationCommit
<1>1. s \in Key /\ rotation[k].successor = {s}
  BY <1>0, Successor
<1>2. PICK gone \in SUBSET stale(q, s) : realm' = sweep(q, gone)
  BY DEF RotationCommit
<1> HIDE DEF s
<1>3. Good(r)
  BY <1>1, IInvGood, ReleaseRollbackGood, ReleaseForwardGood
<1> HIDE DEF r
<1>4. Good(q)
  BY <1>3, RetireGood
<1>5. gone \in SUBSET Key
  BY DEF stale, present
<1> HIDE DEF q
<1>6. Good(realm')
  BY <1>2, <1>4, <1>5, SweepGood
<1>7. t \in RotationType /\ t.successor = rotation[k].successor
  BY <1>0 DEF RotationType
<1>8. /\ rotation' = [rotation EXCEPT ![k] = t] /\ capacity' = [capacity EXCEPT ![k] = NoCapacity]
      /\ used' \subseteq Key /\ UNCHANGED <<adoption, geometry, restarts>>
  BY IInvGood DEF RotationCommit
<1> HIDE DEF t
<1> QED
  BY <1>1, <1>6, <1>7, <1>8, Idle, RotationStep

\* RotationSettled preserves the invariant.
LEMMA RotationSettledStep ==
  ASSUME IInv, NEW k \in Key, RotationSettled(k)
  PROVE  IInv'
<1>1. /\ rotation' = [rotation EXCEPT ![k] = NoRotation]
      /\ capacity' = [capacity EXCEPT ![k] = capacity[k]]
      /\ Good(realm') /\ used' \subseteq Key /\ UNCHANGED <<adoption, geometry, restarts>>
      /\ capacity[k] \in CapacityType
  BY IInvGood DEF RotationSettled
<1>2. capacity[k].held /\ ~capacity[k].attempted =>
        capacity[k].successor = successorHold /\ \A d \in Dim : successorHold[d] <= PaneCap[d]
  BY DEF IInv, CapacityOK
<1> QED
  BY <1>1, <1>2, Idle, RotationStep

\* RotationFailCommitted preserves the invariant.
LEMMA RotationFailCommittedStep ==
  ASSUME IInv, NEW k \in Key, RotationFailCommitted(k)
  PROVE  IInv'
<1> DEFINE s == theSuccessor(k)
           r == retireSlot(invalidate(realm, s), s)
           t == [rotation[k] EXCEPT !.failed = TRUE, !.committed = FALSE]
<1>0. /\ rotation[k].committed \/ rotation[k].failed
      /\ rotation[k] \in RotationType /\ capacity[k] \in CapacityType
  BY IInvGood DEF RotationFailCommitted
<1>1. s \in Key /\ rotation[k].successor = {s}
  BY <1>0, Successor
<1>2. realm' \in {r, forget(refund(r, s), s), realm}
  BY DEF RotationFailCommitted
<1> HIDE DEF s
<1>3. Good(realm')
  BY <1>1, <1>2, IInvGood, RetireGood
<1>4. t \in RotationType /\ t.successor = rotation[k].successor
  BY <1>0 DEF RotationType
<1>5. /\ rotation' = [rotation EXCEPT ![k] = t] /\ capacity' = [capacity EXCEPT ![k] = capacity[k]]
      /\ used' \subseteq Key /\ UNCHANGED <<adoption, geometry, restarts>>
  BY IInvGood DEF RotationFailCommitted
<1>6. capacity[k].held /\ ~capacity[k].attempted =>
        capacity[k].successor = successorHold /\ \A d \in Dim : successorHold[d] <= PaneCap[d]
  BY DEF IInv, CapacityOK
<1> HIDE DEF t
<1> QED
  BY <1>0, <1>1, <1>3, <1>4, <1>5, <1>6, RotationStep

\* RotationAbort preserves the invariant.
LEMMA RotationAbortStep ==
  ASSUME IInv, NEW k \in Key, RotationAbort(k)
  PROVE  IInv'
<1> DEFINE s == theSuccessor(k)
           r == releaseSlot(releaseForward(armRollback(realm, k), s))
           t == [rotation[k] EXCEPT !.held = FALSE]
           c == [capacity[k] EXCEPT !.active = FALSE]
<1>0. rotation[k].held /\ rotation[k] \in RotationType /\ capacity[k] \in CapacityType
  BY IInvGood DEF RotationAbort
<1>1. s \in Key /\ rotation[k].successor = {s}
  BY <1>0, Successor
<1>2. realm' \in tombstones(r, s)
  BY DEF RotationAbort
<1> HIDE DEF s
<1>3. Good(r)
  BY <1>1, IInvGood, ArmRollbackGood, ReleaseForwardGood, SlotHelpers
<1> HIDE DEF r
<1>4. Good(realm')
  BY <1>1, <1>2, <1>3, TombstonesGood
<1>5. t \in RotationType /\ t.successor = rotation[k].successor
  BY <1>0 DEF RotationType
<1>6. c \in CapacityType /\ c.held = capacity[k].held /\ c.attempted = capacity[k].attempted
      /\ c.successor = capacity[k].successor
  BY <1>0 DEF CapacityType
<1>7. /\ rotation' = [rotation EXCEPT ![k] = t] /\ capacity' = [capacity EXCEPT ![k] = c]
      /\ used' \subseteq Key /\ UNCHANGED <<adoption, geometry, restarts>>
  BY IInvGood DEF RotationAbort
<1>8. capacity[k].held /\ ~capacity[k].attempted =>
        capacity[k].successor = successorHold /\ \A d \in Dim : successorHold[d] <= PaneCap[d]
  BY DEF IInv, CapacityOK
<1> HIDE DEF t, c
<1> QED
  BY <1>0, <1>1, <1>4, <1>5, <1>6, <1>7, <1>8, RotationStep

\* RotationFatal preserves the invariant.
LEMMA RotationFatalStep ==
  ASSUME IInv, NEW k \in Key, RotationFatal(k)
  PROVE  IInv'
<1> DEFINE s == theSuccessor(k)
           q == releaseRollback(retireSlot(invalidate(realm, k), k), k)
           r == releaseSlot(releaseForward(q, s))
           t == [rotation[k] EXCEPT !.held = FALSE]
<1>0. rotation[k].held /\ rotation[k] \in RotationType
  BY IInvGood DEF RotationFatal
<1>1. s \in Key /\ rotation[k].successor = {s}
  BY <1>0, Successor
<1>2. realm' \in tombstones(r, s)
  BY DEF RotationFatal
<1> HIDE DEF s
<1>3. Good(q)
  BY IInvGood, RetireGood, ReleaseRollbackGood
<1> HIDE DEF q
<1>4. Good(r)
  BY <1>1, <1>3, ReleaseForwardGood, SlotHelpers
<1> HIDE DEF r
<1>5. Good(realm')
  BY <1>1, <1>2, <1>4, TombstonesGood
<1>6. t \in RotationType /\ t.successor = rotation[k].successor
  BY <1>0 DEF RotationType
<1>7. /\ rotation' = [rotation EXCEPT ![k] = t] /\ capacity' = [capacity EXCEPT ![k] = NoCapacity]
      /\ used' \subseteq Key /\ UNCHANGED <<adoption, geometry, restarts>>
  BY IInvGood DEF RotationFatal
<1> HIDE DEF t
<1> QED
  BY <1>1, <1>5, <1>6, <1>7, Idle, RotationStep

-----------------------------------------------------------------------------
(* What the ledgers owe to the generations.                                 *)

\* What a generation owns of the realm's reserved ledger for its own appends.
own(p) == [d \in Dim |-> p.adoption[d] + p.rollback.bytes[d] + p.forward.bytes[d]]
owns(panes, d) == [k \in Key |-> own(panes[k])[d]]
counts(p) == IF p.slotRetired THEN 0 ELSE 1
counted(r) == {k \in Key : ~r.panes[k].slotRetired}

\* What of each realm ledger no generation accounts for.
unpaid(r, d) == r.total[d] - r.orphan[d] - sumOf(charges(r.panes, d), Key)
extra(r, d) == r.reserved[d] - sumOf(owns(r.panes, d), Key)
loose(r) == r.slots - Cardinality(counted(r))

\* The holds of a generation, unit by unit.
LEMMA OwnParts ==
  ASSUME NEW p \in PaneType, NEW d \in Dim
  PROVE  /\ own(p)[d] = p.adoption[d] + p.rollback.bytes[d] + p.forward.bytes[d]
         /\ p.adoption[d] \in Nat /\ p.rollback.bytes[d] \in Nat /\ p.forward.bytes[d] \in Nat
         /\ own(p)[d] \in Nat /\ p.held[d] \in Int /\ p.charge[d] \in Nat
<1>1. /\ p.adoption \in [Dim -> Nat] /\ p.rollback.bytes \in [Dim -> Nat]
      /\ p.forward.bytes \in [Dim -> Nat] /\ p.held \in [Dim -> Int] /\ p.charge \in [Dim -> Nat]
  BY DEF PaneType, HoldType, Amount
<1>2. /\ p.adoption[d] \in Nat /\ p.rollback.bytes[d] \in Nat /\ p.forward.bytes[d] \in Nat
      /\ p.held[d] \in Int /\ p.charge[d] \in Nat
  BY <1>1
<1> QED
  BY <1>2 DEF own

\* The holds of generations are naturals.
LEMMA OwnsAre ==
  ASSUME NEW panes \in [Key -> PaneType], NEW d \in Dim
  PROVE  \A k \in Key : owns(panes, d)[k] = own(panes[k])[d] /\ owns(panes, d)[k] \in Nat
<1> SUFFICES ASSUME NEW k \in Key
             PROVE  own(panes[k])[d] \in Nat
  BY DEF owns
<1> QED
  BY OwnParts

\* What one generation's change does to the three balances.
LEMMA Balance ==
  ASSUME NEW r \in RealmType, NEW q \in RealmType, NEW k \in Key, NEW p \in PaneType,
         q.panes = [r.panes EXCEPT ![k] = p]
  PROVE  /\ \A d \in Dim :
              /\ unpaid(q, d) = unpaid(r, d) + (q.total[d] - r.total[d]) - (q.orphan[d] - r.orphan[d])
                                  - (p.charge[d] - r.panes[k].charge[d])
              /\ extra(q, d) = extra(r, d) + (q.reserved[d] - r.reserved[d])
                                  - (own(p)[d] - own(r.panes[k])[d])
         /\ loose(q) = loose(r) + (q.slots - r.slots) - (counts(p) - counts(r.panes[k]))
<1> DEFINE o == r.panes[k]
<1>0. /\ r.panes \in [Key -> PaneType] /\ q.panes \in [Key -> PaneType] /\ o \in PaneType
      /\ q.panes[k] = p /\ \A j \in Key \ {k} : q.panes[j] = r.panes[j]
      /\ r.slots \in Nat /\ q.slots \in Nat
      /\ r.total \in Amount /\ r.reserved \in Amount /\ r.orphan \in Amount
      /\ q.total \in Amount /\ q.reserved \in Amount /\ q.orphan \in Amount
  BY DEF RealmType
<1>1. ASSUME NEW d \in Dim
      PROVE  /\ unpaid(q, d) = unpaid(r, d) + (q.total[d] - r.total[d]) - (q.orphan[d] - r.orphan[d])
                                  - (p.charge[d] - o.charge[d])
             /\ extra(q, d) = extra(r, d) + (q.reserved[d] - r.reserved[d])
                                  - (own(p)[d] - own(o)[d])
  <2> DEFINE w == charges(r.panes, d)
             v == charges(q.panes, d)
             x == owns(r.panes, d)
             y == owns(q.panes, d)
  <2>1. /\ \A j \in Key : w[j] = r.panes[j].charge[d] /\ w[j] \in Nat
        /\ \A j \in Key : v[j] = q.panes[j].charge[d] /\ v[j] \in Nat
    BY <1>0, ChargesAre
  <2>2. /\ \A j \in Key : x[j] = own(r.panes[j])[d] /\ x[j] \in Nat
        /\ \A j \in Key : y[j] = own(q.panes[j])[d] /\ y[j] \in Nat
    BY <1>0, OwnsAre
  <2>3. /\ r.total[d] \in Int /\ r.reserved[d] \in Int /\ r.orphan[d] \in Int
        /\ q.total[d] \in Int /\ q.reserved[d] \in Int /\ q.orphan[d] \in Int
    BY <1>0 DEF Amount
  <2>4. /\ unpaid(q, d) = q.total[d] - q.orphan[d] - sumOf(v, Key)
        /\ unpaid(r, d) = r.total[d] - r.orphan[d] - sumOf(w, Key)
        /\ extra(q, d) = q.reserved[d] - sumOf(y, Key)
        /\ extra(r, d) = r.reserved[d] - sumOf(x, Key)
    BY DEF unpaid, extra
  <2> HIDE DEF v, w, x, y, o
  <2>5. Weights(v) /\ Weights(w) /\ Weights(x) /\ Weights(y)
    BY <2>1, <2>2 DEF Weights
  <2>6. (\A j \in Key \ {k} : v[j] = w[j]) /\ (\A j \in Key \ {k} : y[j] = x[j])
    BY <1>0, <2>1, <2>2
  <2>7. sumOf(v, Key) = sumOf(w, Key) + v[k] - w[k] /\ sumOf(y, Key) = sumOf(x, Key) + y[k] - x[k]
    <3>1. sumOf(v, Key) = sumOf(w, Key) + v[k] - w[k]
      BY <2>5, <2>6, TotalChange
    <3>2. sumOf(y, Key) = sumOf(x, Key) + y[k] - x[k]
      BY <2>5, <2>6, TotalChange
    <3> QED
      BY <3>1, <3>2
  <2>8. /\ v[k] = p.charge[d] /\ w[k] = o.charge[d] /\ y[k] = own(p)[d] /\ x[k] = own(o)[d]
        /\ v[k] \in Int /\ w[k] \in Int /\ y[k] \in Int /\ x[k] \in Int
    BY <1>0, <2>1, <2>2 DEF o
  <2>9. sumOf(w, Key) \in Int /\ sumOf(x, Key) \in Int
    BY <2>5, TotalType
  <2> QED
    BY <2>3, <2>4, <2>7, <2>8, <2>9
<1>2. loose(q) = loose(r) + (q.slots - r.slots) - (counts(p) - counts(o))
  <2> DEFINE A == counted(r)
             B == counted(q)
             a == Cardinality(A)
             b == Cardinality(B)
  <2>1. A \in SUBSET Key /\ B \in SUBSET Key /\ IsFiniteSet(A) /\ IsFiniteSet(B)
        /\ a \in Nat /\ b \in Nat
    BY KeysFinite DEF counted
  <2>2. /\ k \in A <=> ~o.slotRetired
        /\ k \in B <=> ~p.slotRetired
        /\ A \ {k} = B \ {k}
    BY <1>0 DEF counted
  <2> DEFINE c == Cardinality(A \ {k})
  <2>3. a = c + (IF k \in A THEN 1 ELSE 0) /\ b = c + (IF k \in B THEN 1 ELSE 0) /\ c \in Nat
    <3> HIDE DEF A, B
    <3>1. IsFiniteSet(A \ {k}) /\ c \in Nat
      BY <2>1, KeysFinite
    <3>2. k \in A => Cardinality(A \ {k}) = Cardinality(A) - 1
      BY <2>1, FS_RemoveElement
    <3>3. k \in B => Cardinality(B \ {k}) = Cardinality(B) - 1
      BY <2>1, FS_RemoveElement
    <3>4. (k \notin A => A \ {k} = A) /\ (k \notin B => B \ {k} = B)
      OBVIOUS
    <3>5. k \in A => a = c + 1
      BY <2>1, <3>2
    <3>6. k \in B => b = c + 1
      BY <2>1, <2>2, <3>3
    <3>7. (k \notin A => a = c) /\ (k \notin B => b = c)
      BY <2>2, <3>4
    <3> HIDE DEF a, b, c
    <3> QED
      BY <2>1, <3>1, <3>5, <3>6, <3>7
  <2> HIDE DEF A, B, a, b, c, o
  <2>4. b - a = counts(p) - counts(o)
    BY <2>2, <2>3 DEF counts
  <2>5. loose(q) = q.slots - b /\ loose(r) = r.slots - a
    BY DEF loose, a, b, A, B
  <2>6. counts(p) \in Int /\ counts(o) \in Int
    BY DEF counts
  <2> QED
    BY <1>0, <2>1, <2>4, <2>5, <2>6
<1> QED
  BY <1>1, <1>2

\* The balances are numbers.
LEMMA BalanceType ==
  ASSUME NEW r \in RealmType
  PROVE  (\A d \in Dim : unpaid(r, d) \in Int /\ extra(r, d) \in Int) /\ loose(r) \in Int
<1>0. /\ r.panes \in [Key -> PaneType] /\ r.slots \in Nat
      /\ r.total \in Amount /\ r.reserved \in Amount /\ r.orphan \in Amount
  BY DEF RealmType
<1>1. ASSUME NEW d \in Dim PROVE unpaid(r, d) \in Int /\ extra(r, d) \in Int
  <2>1. Weights(charges(r.panes, d)) /\ Weights(owns(r.panes, d))
    BY <1>0, ChargesAre, OwnsAre DEF Weights
  <2>2. sumOf(charges(r.panes, d), Key) \in Int /\ sumOf(owns(r.panes, d), Key) \in Int
    BY <2>1, TotalType
  <2>3. r.total[d] \in Int /\ r.reserved[d] \in Int /\ r.orphan[d] \in Int
    BY <1>0 DEF Amount
  <2> QED
    BY <2>2, <2>3 DEF unpaid, extra
<1>2. Cardinality(counted(r)) \in Nat
  BY KeysFinite DEF counted
<1> QED
  BY <1>0, <1>1, <1>2 DEF loose

-----------------------------------------------------------------------------
(* The books of one generation, and its operations on them.                 *)

\* A record-shaped hold can pay the framing of every record it may draw.
Shaped(h) == h.bytes["physical"] >= h.bytes["logical"] + h.records * Frame

\* What is true of a generation that is being adopted, is the successor of an
\* unsettled rotation, or is settled; that has a rotation capacity or not; and
\* that has a geometry reservation or not.
PaneBooks(p, as, cap, geo) ==
  /\ p.state = "absent" => p = Absent
  /\ p.state # "absent" => \A d \in Dim : p.held[d] = own(p)[d] + (IF geo THEN Frame ELSE 0)
  /\ p.capacity = "none" => p.rollback = NoHold
  /\ cap <=> p.capacity # "none"
  /\ p.slotRetired \/ p.state = "legacy" => p.capacity = "none" /\ as = "settled"
  /\ p.slotRetired => p.state # "continuous"
  /\ as # "adopting" => p.adoption = Zero
  /\ as # "rotating" => p.forward = NoHold
  /\ as # "settled" => p.capacity = "none" /\ "settled" \notin p.marks
  /\ Shaped(p.forward) /\ Shaped(p.rollback)

\* The empty hold pays nothing and owes no framing.
LEMMA EmptyHold ==
  /\ Shaped(NoHold) /\ NoHold.bytes = Zero /\ \A d \in Dim : NoHold.bytes[d] = 0 /\ Zero[d] = 0
  BY ZeroAmount, LedgerAssumption DEF Shaped, NoHold, Dim

\* A generation with nothing to draw on owns nothing.
LEMMA OwnsNothing ==
  ASSUME NEW p \in PaneType, p.adoption = Zero, p.rollback = NoHold, p.forward = NoHold
  PROVE  \A d \in Dim : own(p)[d] = 0
  BY OwnParts, EmptyHold

\* Neither does a forgotten one, and its books are in order.
LEMMA AbsentBooks ==
  /\ Absent.slotRetired /\ Absent.charge = Zero /\ Absent.state = "absent"
  /\ \A d \in Dim : own(Absent)[d] = 0
  /\ \A geo : PaneBooks(Absent, "settled", FALSE, geo)
<1>1. Absent.adoption = Zero /\ Absent.rollback = NoHold /\ Absent.forward = NoHold
      /\ Absent.capacity = "none" /\ Absent.slotRetired /\ Absent.state = "absent" /\ Absent.marks = {}
      /\ Absent.charge = Zero
  BY DEF Absent
<1>2. \A d \in Dim : own(Absent)[d] = 0
  BY <1>1, AbsentPane, OwnsNothing
<1> QED
  BY <1>1, <1>2, EmptyHold DEF PaneBooks

\* A settled generation without a rotation capacity owns nothing.
LEMMA SettledOwnsNothing ==
  ASSUME NEW p \in PaneType, NEW geo, PaneBooks(p, "settled", FALSE, geo)
  PROVE  /\ \A d \in Dim : own(p)[d] = 0
         /\ p.capacity = "none" /\ p.rollback = NoHold /\ p.adoption = Zero /\ p.forward = NoHold
<1>1. p.capacity = "none" /\ p.rollback = NoHold /\ p.adoption = Zero /\ p.forward = NoHold
  BY DEF PaneBooks
<1> QED
  BY <1>1, OwnsNothing

\* The books do not depend on what a step changes in p without touching its
\* holds: p and q hold the same.
HoldsSame(p, q) ==
  /\ q.held = p.held /\ q.adoption = p.adoption /\ q.rollback = p.rollback
  /\ q.forward = p.forward

\* Two generations that hold the same own the same.
LEMMA OwnSame ==
  ASSUME NEW p, NEW q, HoldsSame(p, q)
  PROVE  own(q) = own(p)
  BY DEF own, HoldsSame

\* invalidateLocked keeps the books of a generation the realm knows.
LEMMA InvalidatePaneBooks ==
  ASSUME NEW p \in PaneType, p.state # "absent",
         NEW as, NEW cap, NEW geo, PaneBooks(p, as, cap, geo)
  PROVE  LET q == invalidatePane(p)
         IN /\ q \in PaneType /\ q.state = "untrusted" /\ q.slotRetired = p.slotRetired
            /\ q.charge = p.charge /\ q.capacity = p.capacity /\ own(q) = own(p)
            /\ PaneBooks(q, as, cap, geo)
<1> DEFINE q == invalidatePane(p)
<1>1. /\ q \in PaneType /\ q.state = "untrusted" /\ q.slotRetired = p.slotRetired
      /\ q.charge = p.charge /\ q.capacity = p.capacity /\ q.marks = p.marks /\ HoldsSame(p, q)
  BY DEF PaneType, invalidatePane, HoldsSame
<1> HIDE DEF q
<1>2. own(q) = own(p)
  BY <1>1, OwnSame
<1>3. PaneBooks(q, as, cap, geo)
  BY <1>1, <1>2 DEF PaneBooks, HoldsSame
<1> QED
  BY <1>1, <1>2, <1>3 DEF q

\* A generation that is not live any more and holds nothing may give its slot
\* back.
LEMMA SlotlessBooks ==
  ASSUME NEW p \in PaneType, p.state # "continuous", p.state # "absent",
         NEW geo, PaneBooks(p, "settled", FALSE, geo)
  PROVE  LET q == slotless(p)
         IN /\ q \in PaneType /\ q.state = p.state /\ q.slotRetired
            /\ q.charge = p.charge /\ own(q) = own(p)
            /\ PaneBooks(q, "settled", FALSE, geo)
<1> DEFINE q == slotless(p)
<1>1. /\ q \in PaneType /\ q.state = p.state /\ q.slotRetired
      /\ q.charge = p.charge /\ q.capacity = p.capacity /\ q.marks = p.marks /\ HoldsSame(p, q)
  BY DEF PaneType, slotless, HoldsSame
<1> HIDE DEF q
<1>2. own(q) = own(p)
  BY <1>1, OwnSame
<1>3. PaneBooks(q, "settled", FALSE, geo)
  BY <1>1, <1>2 DEF PaneBooks, HoldsSame
<1> QED
  BY <1>1, <1>2, <1>3 DEF q

\* An unlink changes no hold.
LEMMA UnlinkedBooks ==
  ASSUME NEW p \in PaneType, p.state # "absent",
         NEW as, NEW cap, NEW geo, PaneBooks(p, as, cap, geo)
  PROVE  LET q == unlinked(p)
         IN /\ q \in PaneType /\ q.state = p.state /\ q.slotRetired = p.slotRetired
            /\ q.charge = Zero /\ own(q) = own(p)
            /\ PaneBooks(q, as, cap, geo)
<1> DEFINE q == unlinked(p)
<1>1. /\ q \in PaneType /\ q.state = p.state /\ q.slotRetired = p.slotRetired
      /\ q.charge = Zero /\ q.capacity = p.capacity /\ q.marks \subseteq p.marks /\ HoldsSame(p, q)
  BY ZeroAmount DEF PaneType, unlinked, HoldsSame
<1> HIDE DEF q
<1>2. own(q) = own(p)
  BY <1>1, OwnSame
<1>3. PaneBooks(q, as, cap, geo)
  BY <1>1, <1>2 DEF PaneBooks, HoldsSame
<1> QED
  BY <1>1, <1>2, <1>3 DEF q

\* Neither does a mark, if only settled generations are marked settled.
LEMMA MarkedBooks ==
  ASSUME NEW p \in PaneType, p.state # "absent", NEW m \in {"settled", "attributed"},
         NEW as, NEW cap, NEW geo, PaneBooks(p, as, cap, geo), m = "settled" => as = "settled"
  PROVE  LET q == marked(p, m)
         IN /\ q \in PaneType /\ q.state = p.state /\ q.slotRetired = p.slotRetired
            /\ q.charge = p.charge /\ own(q) = own(p)
            /\ PaneBooks(q, as, cap, geo)
<1> DEFINE q == marked(p, m)
<1>1. /\ q \in PaneType /\ q.state = p.state /\ q.slotRetired = p.slotRetired
      /\ q.charge = p.charge /\ q.capacity = p.capacity /\ q.marks = p.marks \cup {m}
      /\ HoldsSame(p, q)
  BY DEF PaneType, marked, HoldsSame
<1> HIDE DEF q
<1>2. own(q) = own(p)
  BY <1>1, OwnSame
<1>3. PaneBooks(q, as, cap, geo)
  BY <1>1, <1>2 DEF PaneBooks, HoldsSame
<1> QED
  BY <1>1, <1>2, <1>3 DEF q

\* Nor does a charge.
LEMMA ChargingBooks ==
  ASSUME NEW p \in PaneType, p.state # "absent", NEW c \in [Dim -> Nat],
         NEW as, NEW cap, NEW geo, PaneBooks(p, as, cap, geo)
  PROVE  LET q == charging(p, c)
         IN /\ q \in PaneType /\ q.state = p.state /\ q.slotRetired = p.slotRetired
            /\ q.charge = Plus(p.charge, c) /\ own(q) = own(p)
            /\ PaneBooks(q, as, cap, geo)
<1> DEFINE q == charging(p, c)
<1>0. Plus(p.charge, c) \in [Dim -> Nat]
  BY PlusNat DEF PaneType
<1>1. /\ q \in PaneType /\ q.state = p.state /\ q.slotRetired = p.slotRetired
      /\ q.charge = Plus(p.charge, c) /\ q.capacity = p.capacity /\ q.marks = p.marks
      /\ HoldsSame(p, q)
  BY <1>0 DEF PaneType, charging, HoldsSame
<1> HIDE DEF q
<1>2. own(q) = own(p)
  BY <1>1, OwnSame
<1>3. PaneBooks(q, as, cap, geo)
  BY <1>1, <1>2 DEF PaneBooks, HoldsSame
<1> QED
  BY <1>1, <1>2, <1>3 DEF q

\* The fields of a generation have their types.
LEMMA PaneParts ==
  ASSUME NEW p \in PaneType
  PROVE  /\ p.adoption \in [Dim -> Nat] /\ p.rollback \in HoldType /\ p.forward \in HoldType
         /\ p.rollback.bytes \in [Dim -> Nat] /\ p.forward.bytes \in [Dim -> Nat]
         /\ p.rollback.records \in Int /\ p.forward.records \in Int
         /\ p.held \in Amount /\ p.charge \in [Dim -> Nat] /\ p.slotRetired \in BOOLEAN
         /\ p.capacity \in {"none", "held", "armed"}
         /\ p.state \in {"absent", "continuous", "untrusted", "legacy"}
  BY DEF PaneType, HoldType

\* releaseAdoptionAllowanceLocked settles an adoption.
LEMMA AllowanceReleased ==
  ASSUME NEW p \in PaneType, p.state # "absent", NEW geo, PaneBooks(p, "adopting", FALSE, geo)
  PROVE  LET q == [unholding(p, p.adoption) EXCEPT !.adoption = Zero]
         IN /\ q \in PaneType /\ q.state = p.state /\ q.slotRetired = p.slotRetired
            /\ q.charge = p.charge /\ \A d \in Dim : own(q)[d] = own(p)[d] - p.adoption[d]
            /\ PaneBooks(q, "settled", FALSE, geo)
<1> DEFINE u == unholding(p, p.adoption)
           q == [u EXCEPT !.adoption = Zero]
<1>0. p.adoption \in [Dim -> Nat]
  BY PaneParts
<1>1. /\ u \in PaneType /\ u.charge = p.charge /\ u.held = Minus(p.held, p.adoption)
      /\ u.state = p.state /\ u.slotRetired = p.slotRetired /\ u.marks = p.marks
      /\ u.capacity = p.capacity /\ u.rollback = p.rollback /\ u.forward = p.forward
  <2>1. u \in PaneType /\ u.charge = p.charge /\ u.held = Minus(p.held, p.adoption)
    BY <1>0, UnholdingType
  <2> QED
    BY <2>1 DEF unholding, PaneType
<1> HIDE DEF u
<1>2. /\ q \in PaneType /\ q.charge = u.charge /\ q.held = u.held
      /\ q.state = u.state /\ q.slotRetired = u.slotRetired /\ q.marks = u.marks
      /\ q.capacity = u.capacity /\ q.rollback = u.rollback /\ q.forward = u.forward
      /\ q.adoption = Zero
  BY <1>1, ZeroAmount DEF PaneType
<1> HIDE DEF q
<1>3. ASSUME NEW d \in Dim
      PROVE  own(q)[d] = own(p)[d] - p.adoption[d] /\ q.held[d] = p.held[d] - p.adoption[d]
  <2>1. own(p)[d] = p.adoption[d] + p.rollback.bytes[d] + p.forward.bytes[d]
        /\ p.adoption[d] \in Int /\ p.rollback.bytes[d] \in Int /\ p.forward.bytes[d] \in Int
    BY OwnParts
  <2>2. own(q)[d] = Zero[d] + p.rollback.bytes[d] + p.forward.bytes[d] /\ Zero[d] = 0
    BY <1>1, <1>2, OwnParts, ZeroAmount
  <2>3. q.held[d] = p.held[d] - p.adoption[d]
    BY <1>1, <1>2 DEF Minus
  <2> QED
    BY <2>1, <2>2, <2>3
<1>4. ASSUME NEW d \in Dim
      PROVE  q.held[d] = own(q)[d] + (IF geo THEN Frame ELSE 0)
  <2>1. own(p)[d] \in Int /\ p.held[d] \in Int /\ Frame \in Int /\ p.adoption[d] \in Int
    BY OwnParts, LedgerAssumption
  <2>2. p.held[d] = own(p)[d] + (IF geo THEN Frame ELSE 0)
    BY DEF PaneBooks
  <2> QED
    BY <1>3, <2>1, <2>2
<1>5. p.forward = NoHold /\ p.capacity = "none" /\ p.rollback = NoHold
  BY DEF PaneBooks
<1>6. /\ q \in PaneType /\ q.state = p.state /\ q.slotRetired = p.slotRetired /\ q.marks = p.marks
      /\ q.capacity = "none" /\ q.rollback = NoHold /\ q.adoption = Zero /\ q.forward = NoHold
      /\ Shaped(q.forward) /\ Shaped(q.rollback)
  BY <1>1, <1>2, <1>5, EmptyHold
<1>7. PaneBooks(q, "settled", FALSE, geo)
  BY <1>4, <1>6 DEF PaneBooks
<1> QED
  BY <1>1, <1>2, <1>3, <1>7 DEF q, u

\* releaseRotationRollbackLocked ends a rotation capacity.
LEMMA RollbackReleased ==
  ASSUME NEW p \in PaneType, p.state # "absent", NEW geo, PaneBooks(p, "settled", TRUE, geo)
  PROVE  LET q == [unholding(p, p.rollback.bytes) EXCEPT !.rollback = NoHold, !.capacity = "none"]
         IN /\ q \in PaneType /\ q.state = p.state /\ q.slotRetired = p.slotRetired
            /\ q.charge = p.charge /\ \A d \in Dim : own(q)[d] = own(p)[d] - p.rollback.bytes[d]
            /\ PaneBooks(q, "settled", FALSE, geo)
<1> DEFINE a == p.rollback.bytes
           u == unholding(p, a)
           q == [u EXCEPT !.rollback = NoHold, !.capacity = "none"]
<1>0. a \in [Dim -> Nat]
  BY PaneParts
<1>1. /\ u \in PaneType /\ u.charge = p.charge /\ u.held = Minus(p.held, a)
      /\ u.state = p.state /\ u.slotRetired = p.slotRetired /\ u.marks = p.marks
      /\ u.adoption = p.adoption /\ u.forward = p.forward
  <2>1. u \in PaneType /\ u.charge = p.charge /\ u.held = Minus(p.held, a)
    BY <1>0, UnholdingType
  <2> QED
    BY <2>1 DEF unholding, PaneType
<1> HIDE DEF u
<1>2. /\ q \in PaneType /\ q.charge = u.charge /\ q.held = u.held
      /\ q.state = u.state /\ q.slotRetired = u.slotRetired /\ q.marks = u.marks
      /\ q.adoption = u.adoption /\ q.forward = u.forward
      /\ q.rollback = NoHold /\ q.capacity = "none"
  BY <1>1, NoHoldType DEF PaneType
<1> HIDE DEF q
<1>3. ASSUME NEW d \in Dim
      PROVE  own(q)[d] = own(p)[d] - a[d] /\ q.held[d] = p.held[d] - a[d]
  <2>1. own(p)[d] = p.adoption[d] + a[d] + p.forward.bytes[d]
        /\ p.adoption[d] \in Int /\ a[d] \in Int /\ p.forward.bytes[d] \in Int
    BY OwnParts
  <2>2. own(q)[d] = p.adoption[d] + NoHold.bytes[d] + p.forward.bytes[d] /\ NoHold.bytes[d] = 0
    BY <1>1, <1>2, OwnParts, EmptyHold
  <2>3. q.held[d] = p.held[d] - a[d]
    BY <1>1, <1>2 DEF Minus
  <2> QED
    BY <2>1, <2>2, <2>3
<1>4. ASSUME NEW d \in Dim
      PROVE  q.held[d] = own(q)[d] + (IF geo THEN Frame ELSE 0)
  <2>1. own(p)[d] \in Int /\ p.held[d] \in Int /\ Frame \in Int /\ a[d] \in Int
    BY <1>0, OwnParts, LedgerAssumption
  <2>2. p.held[d] = own(p)[d] + (IF geo THEN Frame ELSE 0)
    BY DEF PaneBooks
  <2> QED
    BY <1>3, <2>1, <2>2
<1>5. p.forward = NoHold /\ p.adoption = Zero
  BY DEF PaneBooks
<1>6. /\ q \in PaneType /\ q.state = p.state /\ q.slotRetired = p.slotRetired /\ q.marks = p.marks
      /\ q.capacity = "none" /\ q.rollback = NoHold /\ q.adoption = Zero /\ q.forward = NoHold
      /\ Shaped(q.forward) /\ Shaped(q.rollback)
  BY <1>1, <1>2, <1>5, EmptyHold
<1>7. PaneBooks(q, "settled", FALSE, geo)
  BY <1>4, <1>6 DEF PaneBooks
<1> QED
  BY <1>1, <1>2, <1>3, <1>7 DEF q, u, a

\* releaseRotationPaneReservationsLocked settles a rotation's successor.
LEMMA ForwardReleased ==
  ASSUME NEW p \in PaneType, p.state # "absent", NEW geo, PaneBooks(p, "rotating", FALSE, geo)
  PROVE  LET q == [unholding(p, p.forward.bytes) EXCEPT !.forward = NoHold]
         IN /\ q \in PaneType /\ q.state = p.state /\ q.slotRetired = p.slotRetired
            /\ q.charge = p.charge /\ \A d \in Dim : own(q)[d] = own(p)[d] - p.forward.bytes[d]
            /\ PaneBooks(q, "settled", FALSE, geo)
<1> DEFINE a == p.forward.bytes
           u == unholding(p, a)
           q == [u EXCEPT !.forward = NoHold]
<1>0. a \in [Dim -> Nat]
  BY PaneParts
<1>1. /\ u \in PaneType /\ u.charge = p.charge /\ u.held = Minus(p.held, a)
      /\ u.state = p.state /\ u.slotRetired = p.slotRetired /\ u.marks = p.marks
      /\ u.capacity = p.capacity /\ u.rollback = p.rollback /\ u.adoption = p.adoption
  <2>1. u \in PaneType /\ u.charge = p.charge /\ u.held = Minus(p.held, a)
    BY <1>0, UnholdingType
  <2> QED
    BY <2>1 DEF unholding, PaneType
<1> HIDE DEF u
<1>2. /\ q \in PaneType /\ q.charge = u.charge /\ q.held = u.held
      /\ q.state = u.state /\ q.slotRetired = u.slotRetired /\ q.marks = u.marks
      /\ q.capacity = u.capacity /\ q.rollback = u.rollback /\ q.adoption = u.adoption
      /\ q.forward = NoHold
  BY <1>1, NoHoldType DEF PaneType
<1> HIDE DEF q
<1>3. ASSUME NEW d \in Dim
      PROVE  own(q)[d] = own(p)[d] - a[d] /\ q.held[d] = p.held[d] - a[d]
  <2>1. own(p)[d] = p.adoption[d] + p.rollback.bytes[d] + a[d]
        /\ p.adoption[d] \in Int /\ p.rollback.bytes[d] \in Int /\ a[d] \in Int
    BY OwnParts
  <2>2. own(q)[d] = p.adoption[d] + p.rollback.bytes[d] + NoHold.bytes[d] /\ NoHold.bytes[d] = 0
    BY <1>1, <1>2, OwnParts, EmptyHold
  <2>3. q.held[d] = p.held[d] - a[d]
    BY <1>1, <1>2 DEF Minus
  <2> QED
    BY <2>1, <2>2, <2>3
<1>4. ASSUME NEW d \in Dim
      PROVE  q.held[d] = own(q)[d] + (IF geo THEN Frame ELSE 0)
  <2>1. own(p)[d] \in Int /\ p.held[d] \in Int /\ Frame \in Int /\ a[d] \in Int
    BY <1>0, OwnParts, LedgerAssumption
  <2>2. p.held[d] = own(p)[d] + (IF geo THEN Frame ELSE 0)
    BY DEF PaneBooks
  <2> QED
    BY <1>3, <2>1, <2>2
<1>5. p.adoption = Zero /\ p.capacity = "none" /\ p.rollback = NoHold
  BY DEF PaneBooks
<1>6. /\ q \in PaneType /\ q.state = p.state /\ q.slotRetired = p.slotRetired /\ q.marks = p.marks
      /\ q.capacity = "none" /\ q.rollback = NoHold /\ q.adoption = Zero /\ q.forward = NoHold
      /\ Shaped(q.forward) /\ Shaped(q.rollback)
  BY <1>1, <1>2, <1>5, EmptyHold
<1>7. PaneBooks(q, "settled", FALSE, geo)
  BY <1>4, <1>6 DEF PaneBooks
<1> QED
  BY <1>1, <1>2, <1>3, <1>7 DEF q, u, a

-----------------------------------------------------------------------------
(* Appends and the hold they draw from.                                     *)

\* One record of a record-shaped hold is paid with one framing at most.
LEMMA DrawnFraming ==
  ASSUME NEW p \in PaneType, NEW c \in [Dim -> Nat], holdOf(p) \in {"forward", "rollback"}
  PROVE  drawn(p, c)["physical"] <= drawn(p, c)["logical"] + Frame
<1> DEFINE some == Least(c, holdAmount(p, holdOf(p)))
           capped == some["logical"] + Frame
<1>0. "logical" \in Dim /\ "physical" \in Dim /\ "logical" # "physical" /\ Frame \in Int
  BY LedgerAssumption DEF Dim
<1>1. holdAmount(p, holdOf(p)) \in [Dim -> Nat]
  BY PaneParts DEF holdAmount
<1>2. some["logical"] \in Int /\ some["physical"] \in Int
  BY <1>0, <1>1 DEF Least
<1>3. drawn(p, c) = IF some["physical"] <= capped THEN some ELSE Bytes(some["logical"], capped)
  BY DEF drawn
<1> HIDE DEF some
<1>4. Bytes(some["logical"], capped)["physical"] = capped
      /\ Bytes(some["logical"], capped)["logical"] = some["logical"]
  BY <1>0 DEF Bytes
<1>5. CASE some["physical"] <= capped
  BY <1>3, <1>5
<1>6. CASE ~(some["physical"] <= capped)
  BY <1>0, <1>2, <1>3, <1>4, <1>6
<1> QED
  BY <1>5, <1>6

\* A hold from which one record was paid still pays the framing of the others.
LEMMA ShapedLess ==
  ASSUME NEW h \in HoldType, NEW g, Shaped(h), NEW a \in [Dim -> Nat],
         a["physical"] <= a["logical"] + Frame,
         g.bytes = Minus(h.bytes, a), g.records = h.records - 1
  PROVE  Shaped(g)
<1> DEFINE x == h.records * Frame
           bp == h.bytes["physical"]
           bl == h.bytes["logical"]
           ap == a["physical"]
           al == a["logical"]
<1>1. h.records \in Int /\ Frame \in Int /\ bp \in Int /\ bl \in Int /\ ap \in Int /\ al \in Int
  BY LedgerAssumption DEF HoldType, Dim
<1>2. g.bytes["physical"] = bp - ap /\ g.bytes["logical"] = bl - al
  BY DEF Minus, Dim
<1>3. (h.records - 1) * Frame = x - Frame /\ x \in Int
  <2> DEFINE n == h.records
  <2> HIDE DEF n
  <2>1. (n - 1) * Frame = n * Frame - Frame /\ n * Frame \in Int
    <3>1. n \in Int /\ Frame \in Int
      BY <1>1 DEF n
    <3> QED BY <3>1
  <2> QED BY <2>1 DEF n
<1>4. bp >= bl + x /\ ap <= al + Frame
  BY DEF Shaped
<1> HIDE DEF x, bp, bl, ap, al
<1>5. bp - ap >= bl - al + (x - Frame)
  BY <1>1, <1>3, <1>4
<1> QED
  BY <1>2, <1>3, <1>5 DEF Shaped

\* What draw leaves of a generation.
spentPane(p, a) ==
  LET q == unholding(p, a)
      less(h) == [bytes |-> Minus(h.bytes, a), records |-> h.records - 1]
  IN CASE holdOf(p) = "forward"  -> [q EXCEPT !.forward = less(@)]
       [] holdOf(p) = "rollback" -> [q EXCEPT !.rollback = less(@)]
       [] holdOf(p) = "adoption" -> [q EXCEPT !.adoption = Minus(@, a)]
       [] OTHER                  -> q

\* A hold to draw on is one the generation still has a right to.
LEMMA HoldHeld ==
  ASSUME NEW p \in PaneType, NEW as, NEW cap, NEW geo, PaneBooks(p, as, cap, geo)
  PROVE  /\ holdOf(p) \in {"forward", "rollback", "adoption", "none"}
         /\ holdOf(p) = "forward" => as = "rotating"
         /\ holdOf(p) = "rollback" => p.capacity = "armed"
         /\ holdOf(p) = "adoption" => as = "adopting"
<1>1. holdOf(p) \in {"forward", "rollback", "adoption", "none"}
  BY DEF holdOf
<1>2. holdOf(p) = "forward" => p.forward.bytes["logical"] > 0
  BY DEF holdOf
<1>3. p.forward = NoHold => ~(p.forward.bytes["logical"] > 0)
  <2>1. NoHold.bytes["logical"] = 0
    BY EmptyHold DEF Dim
  <2> QED
    BY <2>1
<1>4. holdOf(p) = "rollback" => p.capacity = "armed"
  BY DEF holdOf
<1>5. holdOf(p) = "adoption" => p.adoption # Zero
  BY DEF holdOf
<1>6. as # "rotating" => p.forward = NoHold
  BY DEF PaneBooks
<1>7. as # "adopting" => p.adoption = Zero
  BY DEF PaneBooks
<1>8. holdOf(p) = "forward" => as = "rotating"
  BY <1>2, <1>3, <1>6
<1> QED
  BY <1>1, <1>4, <1>5, <1>7, <1>8

\* Drawing on a hold keeps the books of the generation.
LEMMA SpentBooks ==
  ASSUME NEW p \in PaneType, p.state # "absent", NEW a \in [Dim -> Nat],
         \A d \in Dim : a[d] <= holdAmount(p, holdOf(p))[d],
         holdOf(p) \in {"forward", "rollback"} => a["physical"] <= a["logical"] + Frame,
         NEW as, NEW cap, NEW geo, PaneBooks(p, as, cap, geo)
  PROVE  LET q == spentPane(p, a)
         IN /\ q \in PaneType /\ q.state = p.state /\ q.slotRetired = p.slotRetired
            /\ q.charge = p.charge /\ \A d \in Dim : own(q)[d] = own(p)[d] - a[d]
            /\ PaneBooks(q, as, cap, geo)
<1> DEFINE u == unholding(p, a)
           q == spentPane(p, a)
           f == [bytes |-> Minus(p.forward.bytes, a), records |-> p.forward.records - 1]
           b == [bytes |-> Minus(p.rollback.bytes, a), records |-> p.rollback.records - 1]
           m == Minus(p.adoption, a)
<1>0. /\ u \in PaneType /\ u.charge = p.charge /\ u.held = Minus(p.held, a)
      /\ u.state = p.state /\ u.slotRetired = p.slotRetired /\ u.marks = p.marks
      /\ u.capacity = p.capacity
      /\ u.adoption = p.adoption /\ u.rollback = p.rollback /\ u.forward = p.forward
  <2>1. u \in PaneType /\ u.charge = p.charge /\ u.held = Minus(p.held, a)
    BY UnholdingType
  <2> QED
    BY <2>1 DEF unholding, PaneType
<1>1. /\ holdOf(p) = "forward" => q = [u EXCEPT !.forward = f]
      /\ holdOf(p) = "rollback" => q = [u EXCEPT !.rollback = b]
      /\ holdOf(p) = "adoption" => q = [u EXCEPT !.adoption = m]
      /\ holdOf(p) = "none" => q = u
  BY <1>0 DEF spentPane
<1> HIDE DEF u, q
<1>2. /\ holdOf(p) \in {"forward", "rollback", "adoption", "none"}
      /\ holdOf(p) = "forward" => as = "rotating"
      /\ holdOf(p) = "rollback" => p.capacity = "armed"
      /\ holdOf(p) = "adoption" => as = "adopting"
  BY HoldHeld
<1>3. /\ f.bytes = Minus(p.forward.bytes, a) /\ f.records = p.forward.records - 1
      /\ b.bytes = Minus(p.rollback.bytes, a) /\ b.records = p.rollback.records - 1
  OBVIOUS
<1>4. /\ holdOf(p) = "forward" => f \in HoldType /\ Shaped(f)
      /\ holdOf(p) = "rollback" => b \in HoldType /\ Shaped(b)
      /\ holdOf(p) = "adoption" => m \in [Dim -> Nat]
  <2>0. /\ p.adoption \in [Dim -> Nat] /\ p.rollback \in HoldType /\ p.forward \in HoldType
        /\ p.rollback.bytes \in [Dim -> Nat] /\ p.forward.bytes \in [Dim -> Nat]
        /\ p.rollback.records \in Int /\ p.forward.records \in Int
        /\ Shaped(p.forward) /\ Shaped(p.rollback)
    BY PaneParts DEF PaneBooks
  <2>1. ASSUME NEW h \in [Dim -> Nat], \A d \in Dim : a[d] <= h[d]
        PROVE  Minus(h, a) \in [Dim -> Nat]
    BY <2>1 DEF Minus
  <2>2. CASE holdOf(p) = "forward"
    <3>1. \A d \in Dim : a[d] <= p.forward.bytes[d]
      BY <2>2 DEF holdAmount
    <3>2. f \in HoldType
      BY <2>0, <2>1, <3>1 DEF HoldType
    <3> HIDE DEF f
    <3>3. Shaped(f)
      BY <1>3, <2>0, <2>2, ShapedLess
    <3> QED BY <2>2, <3>2, <3>3
  <2>3. CASE holdOf(p) = "rollback"
    <3>1. \A d \in Dim : a[d] <= p.rollback.bytes[d]
      BY <2>3 DEF holdAmount
    <3>2. b \in HoldType
      BY <2>0, <2>1, <3>1 DEF HoldType
    <3> HIDE DEF b
    <3>3. Shaped(b)
      BY <1>3, <2>0, <2>3, ShapedLess
    <3> QED BY <2>3, <3>2, <3>3
  <2>4. CASE holdOf(p) = "adoption"
    <3>1. \A d \in Dim : a[d] <= p.adoption[d]
      BY <2>4 DEF holdAmount
    <3>2. m \in [Dim -> Nat]
      BY <2>0, <2>1, <3>1
    <3> HIDE DEF m
    <3> QED BY <2>4, <3>2
  <2>5. CASE holdOf(p) = "none"
    BY <2>5
  <2> HIDE DEF f, b, m
  <2> QED BY <1>2, <2>2, <2>3, <2>4, <2>5
<1>5. holdOf(p) = "none" => \A d \in Dim : a[d] = 0
  BY ZeroAmount DEF holdAmount
<1> HIDE DEF f, b, m
<1>6. /\ q \in PaneType /\ q.charge = p.charge /\ q.held = Minus(p.held, a)
      /\ q.state = p.state /\ q.slotRetired = p.slotRetired /\ q.marks = p.marks
      /\ q.capacity = p.capacity
      /\ q.forward = IF holdOf(p) = "forward" THEN f ELSE p.forward
      /\ q.rollback = IF holdOf(p) = "rollback" THEN b ELSE p.rollback
      /\ q.adoption = IF holdOf(p) = "adoption" THEN m ELSE p.adoption
  <2>1. CASE holdOf(p) = "forward"
    <3>1. q \in PaneType
      BY <1>0, <1>1, <1>4, <2>1 DEF PaneType
    <3> QED BY <1>0, <1>1, <2>1, <3>1 DEF PaneType
  <2>2. CASE holdOf(p) = "rollback"
    <3>1. q \in PaneType
      BY <1>0, <1>1, <1>4, <2>2 DEF PaneType
    <3> QED BY <1>0, <1>1, <2>2, <3>1 DEF PaneType
  <2>3. CASE holdOf(p) = "adoption"
    <3>1. q \in PaneType
      BY <1>0, <1>1, <1>4, <2>3 DEF PaneType
    <3> QED BY <1>0, <1>1, <2>3, <3>1 DEF PaneType
  <2>4. CASE holdOf(p) = "none"
    BY <1>0, <1>1, <2>4
  <2> QED BY <1>2, <2>1, <2>2, <2>3, <2>4
<1>7. ASSUME NEW d \in Dim
      PROVE  own(q)[d] = own(p)[d] - a[d] /\ q.held[d] = own(q)[d] + (IF geo THEN Frame ELSE 0)
  <2>1. /\ own(p)[d] = p.adoption[d] + p.rollback.bytes[d] + p.forward.bytes[d]
        /\ p.adoption[d] \in Int /\ p.rollback.bytes[d] \in Int /\ p.forward.bytes[d] \in Int
        /\ p.held[d] \in Int /\ a[d] \in Int
    BY OwnParts
  <2>2. own(q)[d] = q.adoption[d] + q.rollback.bytes[d] + q.forward.bytes[d]
    BY <1>6, OwnParts
  <2>3. /\ f.bytes[d] = p.forward.bytes[d] - a[d] /\ b.bytes[d] = p.rollback.bytes[d] - a[d]
        /\ m[d] = p.adoption[d] - a[d] /\ q.held[d] = p.held[d] - a[d]
    BY <1>3, <1>6 DEF Minus, m
  <2>4. own(q)[d] = own(p)[d] - a[d]
    <3>1. CASE holdOf(p) = "forward"
      BY <1>6, <2>1, <2>2, <2>3, <3>1
    <3>2. CASE holdOf(p) = "rollback"
      BY <1>6, <2>1, <2>2, <2>3, <3>2
    <3>3. CASE holdOf(p) = "adoption"
      BY <1>6, <2>1, <2>2, <2>3, <3>3
    <3>4. CASE holdOf(p) = "none"
      BY <1>5, <1>6, <2>1, <2>2, <3>4
    <3> QED BY <1>2, <3>1, <3>2, <3>3, <3>4
  <2>5. p.held[d] = own(p)[d] + (IF geo THEN Frame ELSE 0) /\ own(p)[d] \in Int /\ Frame \in Int
    BY OwnParts, LedgerAssumption DEF PaneBooks
  <2> QED BY <2>1, <2>3, <2>4, <2>5
<1>8. PaneBooks(q, as, cap, geo)
  <2>1. Shaped(q.forward) /\ Shaped(q.rollback)
    BY <1>4, <1>6 DEF PaneBooks
  <2>2. as # "adopting" => q.adoption = Zero
    BY <1>2, <1>6 DEF PaneBooks
  <2>3. as # "rotating" => q.forward = NoHold
    BY <1>2, <1>6 DEF PaneBooks
  <2>4. q.capacity = "none" => q.rollback = NoHold
    BY <1>2, <1>6 DEF PaneBooks
  <2> QED BY <1>6, <1>7, <2>1, <2>2, <2>3, <2>4 DEF PaneBooks
<1> QED
  BY <1>6, <1>7, <1>8 DEF q

-----------------------------------------------------------------------------
(* Realm records: what a helper moves in the three ledgers.                 *)

\* q is a good realm whose ledgers balance as r's do, with n more slots than
\* generations that have one.
Moved(r, q, n) ==
  /\ Good(q)
  /\ \A d \in Dim : unpaid(q, d) = unpaid(r, d) /\ extra(q, d) = extra(r, d)
  /\ loose(q) = loose(r) + n

\* The same, with e more reserved than the generations own.
Shifted(r, q, n, e) ==
  /\ Good(q)
  /\ \A d \in Dim : unpaid(q, d) = unpaid(r, d) /\ extra(q, d) = extra(r, d) + e[d]
  /\ loose(q) = loose(r) + n

\* What a helper that changes generation k only does.
Only(r, q, k, n) ==
  Moved(r, q, n) /\ \A j \in Key \ {k} : q.panes[j] = r.panes[j]

\* Balances carried over several helpers.
LEMMA MovedTwice ==
  ASSUME NEW r, Good(r), NEW q, NEW s, NEW n \in Int, NEW m \in Int, Moved(r, q, n), Moved(q, s, m),
         NEW l, l = n + m
  PROVE  Moved(r, s, l)
<1>1. loose(r) \in Int
  BY BalanceType DEF Good
<1> QED
  BY <1>1 DEF Moved

\* A helper that changes one generation, and the realm with it.
LEMMA PaneShifts ==
  ASSUME NEW r, Good(r), NEW q, Good(q), NEW k \in Key, NEW p \in PaneType, NEW n \in Int, NEW e \in [Dim -> Int],
         q.panes = [r.panes EXCEPT ![k] = p],
         \A d \in Dim : q.total[d] - q.orphan[d] - p.charge[d]
                          = r.total[d] - r.orphan[d] - r.panes[k].charge[d],
         \A d \in Dim : q.reserved[d] - own(p)[d] = r.reserved[d] - own(r.panes[k])[d] + e[d],
         q.slots - counts(p) = r.slots - counts(r.panes[k]) + n
  PROVE  Shifted(r, q, n, e)
<1> DEFINE o == r.panes[k]
<1>0. /\ r \in RealmType /\ q \in RealmType /\ o \in PaneType
      /\ r.slots \in Int /\ q.slots \in Int /\ counts(p) \in Int /\ counts(o) \in Int
      /\ r.total \in [Dim -> Int] /\ r.orphan \in [Dim -> Int] /\ r.reserved \in [Dim -> Int]
      /\ q.total \in [Dim -> Int] /\ q.orphan \in [Dim -> Int] /\ q.reserved \in [Dim -> Int]
  BY DEF Good, RealmType, counts, Amount
<1>1. /\ \A d \in Dim :
              /\ unpaid(q, d) = unpaid(r, d) + (q.total[d] - r.total[d]) - (q.orphan[d] - r.orphan[d])
                                  - (p.charge[d] - o.charge[d])
              /\ extra(q, d) = extra(r, d) + (q.reserved[d] - r.reserved[d])
                                  - (own(p)[d] - own(o)[d])
      /\ loose(q) = loose(r) + (q.slots - r.slots) - (counts(p) - counts(o))
  BY <1>0, Balance
<1>2. (\A d \in Dim : unpaid(r, d) \in Int /\ extra(r, d) \in Int) /\ loose(r) \in Int
  BY <1>0, BalanceType
<1>3. ASSUME NEW d \in Dim PROVE unpaid(q, d) = unpaid(r, d) /\ extra(q, d) = extra(r, d) + e[d]
  <2>1. /\ p.charge[d] \in Int /\ o.charge[d] \in Int /\ own(p)[d] \in Int /\ own(o)[d] \in Int
        /\ r.total[d] \in Int /\ r.orphan[d] \in Int /\ r.reserved[d] \in Int
        /\ q.total[d] \in Int /\ q.orphan[d] \in Int /\ q.reserved[d] \in Int
    BY <1>0, OwnParts
  <2>2. /\ q.total[d] - q.orphan[d] - p.charge[d] = r.total[d] - r.orphan[d] - o.charge[d]
        /\ q.reserved[d] - own(p)[d] = r.reserved[d] - own(o)[d] + e[d] /\ e[d] \in Int
    OBVIOUS
  <2>3. /\ unpaid(q, d) = unpaid(r, d) + (q.total[d] - r.total[d]) - (q.orphan[d] - r.orphan[d])
                            - (p.charge[d] - o.charge[d])
        /\ extra(q, d) = extra(r, d) + (q.reserved[d] - r.reserved[d]) - (own(p)[d] - own(o)[d])
        /\ unpaid(r, d) \in Int /\ extra(r, d) \in Int
    BY <1>1, <1>2
  <2> DEFINE pc == p.charge[d]
             oc == o.charge[d]
             po == own(p)[d]
             oo == own(o)[d]
             qt == q.total[d]
             rt == r.total[d]
             qo == q.orphan[d]
             ro == r.orphan[d]
             qr == q.reserved[d]
             rr == r.reserved[d]
             ed == e[d]
  <2> HIDE DEF pc, oc, po, oo, qt, rt, qo, ro, qr, rr, ed
  <2>4. /\ pc \in Int /\ oc \in Int /\ po \in Int /\ oo \in Int /\ qt \in Int /\ rt \in Int
        /\ qo \in Int /\ ro \in Int /\ qr \in Int /\ rr \in Int /\ ed \in Int
    BY <2>1, <2>2 DEF pc, oc, po, oo, qt, rt, qo, ro, qr, rr, ed
  <2>5. /\ qt - qo - pc = rt - ro - oc /\ qr - po = rr - oo + ed
        /\ unpaid(q, d) = unpaid(r, d) + (qt - rt) - (qo - ro) - (pc - oc)
        /\ extra(q, d) = extra(r, d) + (qr - rr) - (po - oo)
    BY <2>2, <2>3 DEF pc, oc, po, oo, qt, rt, qo, ro, qr, rr, ed
  <2>6. unpaid(q, d) = unpaid(r, d) /\ extra(q, d) = extra(r, d) + ed
    BY <2>3, <2>4, <2>5
  <2> QED
    BY <2>6 DEF ed
<1>4. loose(q) = loose(r) + n
  <2> DEFINE cp == counts(p)
             co == counts(o)
             qs == q.slots
             rs == r.slots
  <2>1. qs - cp = rs - co + n /\ loose(q) = loose(r) + (qs - rs) - (cp - co)
    BY <1>1
  <2>2. cp \in Int /\ co \in Int /\ qs \in Int /\ rs \in Int /\ loose(r) \in Int
    BY <1>0, <1>2
  <2> HIDE DEF cp, co, qs, rs
  <2> QED
    BY <2>1, <2>2
<1> QED
  BY <1>3, <1>4 DEF Shifted

\* A helper that changes one generation and pays for it.
LEMMA PaneMoves ==
  ASSUME NEW r, Good(r), NEW q, Good(q), NEW k \in Key, NEW p \in PaneType, NEW n \in Int,
         q.panes = [r.panes EXCEPT ![k] = p],
         \A d \in Dim : q.total[d] - q.orphan[d] - p.charge[d]
                          = r.total[d] - r.orphan[d] - r.panes[k].charge[d],
         \A d \in Dim : q.reserved[d] - own(p)[d] = r.reserved[d] - own(r.panes[k])[d],
         q.slots - counts(p) = r.slots - counts(r.panes[k]) + n
  PROVE  Moved(r, q, n)
<1>1. Zero \in [Dim -> Int] /\ \A d \in Dim : Zero[d] = 0
  BY ZeroAmount
<1>2. ASSUME NEW d \in Dim
      PROVE  /\ q.reserved[d] - own(p)[d] = r.reserved[d] - own(r.panes[k])[d] + Zero[d]
             /\ extra(r, d) \in Int
  <2>1. r.reserved[d] \in Int /\ own(r.panes[k])[d] \in Int /\ extra(r, d) \in Int
    BY OwnParts, BalanceType DEF Good, RealmType, Amount
  <2>2. q.reserved[d] - own(p)[d] = r.reserved[d] - own(r.panes[k])[d]
    OBVIOUS
  <2>3. (r.reserved[d] - own(r.panes[k])[d]) + 0 = r.reserved[d] - own(r.panes[k])[d]
    BY <2>1
  <2> QED BY <1>1, <2>1, <2>2, <2>3
<1>3. Shifted(r, q, n, Zero)
  BY <1>1, <1>2, PaneShifts
<1> QED
  BY <1>1, <1>2, <1>3 DEF Shifted, Moved

\* A generation with a slot is counted.
LEMMA SlotTaken ==
  ASSUME NEW r, Good(r), NEW k \in Key, ~r.panes[k].slotRetired, loose(r) >= 0
  PROVE  r.slots > 0
<1> DEFINE A == counted(r)
<1>1. A \in SUBSET Key /\ k \in A /\ IsFiniteSet(A) /\ Cardinality(A) \in Nat
  BY KeysFinite DEF counted
<1> HIDE DEF A
<1>2. Cardinality(A) # 0
  BY <1>1, FS_EmptySet
<1>3. r.slots \in Nat /\ loose(r) = r.slots - Cardinality(A)
  BY DEF Good, RealmType, loose, A
<1> QED
  BY <1>1, <1>2, <1>3

\* invalidateLocked moves nothing.
LEMMA InvalidateMoves ==
  ASSUME NEW r, Good(r), NEW k \in Key, NEW as, NEW cap, NEW geo, PaneBooks(r.panes[k], as, cap, geo)
  PROVE  LET q == invalidate(r, k)
         IN /\ Only(r, q, k, 0) /\ PaneBooks(q.panes[k], as, cap, geo) /\ q.slots = r.slots
            /\ q.panes[k].slotRetired = r.panes[k].slotRetired
            /\ q.panes[k].state = IF r.panes[k].state = "absent" THEN "absent" ELSE "untrusted"
<1> DEFINE o == r.panes[k]
           p == invalidatePane(o)
           q == invalidate(r, k)
<1>1. r.panes \in [Key -> PaneType] /\ o \in PaneType
  BY DEF Good, RealmType
<1>2. CASE o.state = "absent"
  <2>1. q = r
    BY <1>2 DEF invalidate
  <2>2. Only(r, r, k, 0)
    BY BalanceType DEF Moved, Good, Only
  <2> QED
    BY <1>2, <2>1, <2>2
<1>3. CASE o.state # "absent"
  <2>1. /\ p \in PaneType /\ p.state = "untrusted" /\ p.slotRetired = o.slotRetired
        /\ p.charge = o.charge /\ own(p) = own(o) /\ PaneBooks(p, as, cap, geo)
    BY <1>1, <1>3, InvalidatePaneBooks
  <2>2. q = [r EXCEPT !.panes[k] = p]
    BY <1>3 DEF invalidate
  <2> HIDE DEF p, q
  <2>3. /\ q.panes = [r.panes EXCEPT ![k] = p] /\ q.total = r.total /\ q.reserved = r.reserved
        /\ q.orphan = r.orphan /\ q.slots = r.slots
    BY <2>2 DEF Good, RealmType
  <2>4. Good(q)
    BY InvalidateGood DEF q
  <2>6. q.slots - counts(p) = r.slots - counts(o) + 0
    BY <2>1, <2>3 DEF counts, Good, RealmType
  <2>7. /\ \A d \in Dim : q.total[d] - q.orphan[d] - p.charge[d]
                            = r.total[d] - r.orphan[d] - o.charge[d]
        /\ \A d \in Dim : q.reserved[d] - own(p)[d] = r.reserved[d] - own(o)[d]
    BY <2>1, <2>3
  <2>8. Moved(r, q, 0)
    BY <2>1, <2>3, <2>4, <2>6, <2>7, PaneMoves
  <2>9. Only(r, q, k, 0) /\ q.panes[k] = p
    BY <1>1, <2>3, <2>8 DEF Only
  <2> QED
    BY <1>3, <2>1, <2>3, <2>9 DEF q
<1> QED
  BY <1>2, <1>3

\* A slot taken, and one given back.
LEMMA SlotMoves ==
  ASSUME NEW r, Good(r)
  PROVE  /\ Moved(r, takeSlot(r), 1) /\ takeSlot(r).panes = r.panes
         /\ r.slots > 0 => Moved(r, releaseSlot(r), -1)
         /\ releaseSlot(r).panes = r.panes
         /\ takeSlot(r).slots = r.slots + 1
         /\ r.slots > 0 => releaseSlot(r).slots = r.slots - 1
<1> DEFINE t == takeSlot(r)
           f == releaseSlot(r)
<1>1. /\ t.panes = r.panes /\ t.total = r.total /\ t.reserved = r.reserved /\ t.orphan = r.orphan
      /\ t.slots = r.slots + 1 /\ r.slots \in Nat
      /\ f.panes = r.panes /\ f.total = r.total /\ f.reserved = r.reserved /\ f.orphan = r.orphan
      /\ r.slots > 0 => f.slots = r.slots - 1
  BY DEF takeSlot, releaseSlot, Good, RealmType
<1>2. Good(t) /\ Good(f)
  BY SlotHelpers
<1> HIDE DEF t, f
<1>3. \A d \in Dim : /\ unpaid(t, d) = unpaid(r, d) /\ extra(t, d) = extra(r, d)
                     /\ unpaid(f, d) = unpaid(r, d) /\ extra(f, d) = extra(r, d)
  BY <1>1 DEF unpaid, extra
<1> DEFINE c == Cardinality(counted(r))
<1>4. c \in Nat /\ loose(r) = r.slots - c /\ loose(t) = t.slots - c /\ loose(f) = f.slots - c
  BY <1>1, KeysFinite DEF loose, counted
<1> HIDE DEF c
<1>5. loose(t) = loose(r) + 1 /\ (r.slots > 0 => loose(f) = loose(r) + (-1))
  BY <1>1, <1>4
<1> QED
  BY <1>1, <1>2, <1>3, <1>5 DEF t, f, Moved

\* A helper that replaces one generation by one that is charged and owns the
\* same, and touches no realm ledger.
LEMMA PaneSwaps ==
  ASSUME NEW r, Good(r), NEW q, Good(q), NEW k \in Key, NEW p \in PaneType, NEW n \in Int,
         q.panes = [r.panes EXCEPT ![k] = p],
         q.total = r.total, q.reserved = r.reserved, q.orphan = r.orphan,
         p.charge = r.panes[k].charge, own(p) = own(r.panes[k]),
         q.slots - counts(p) = r.slots - counts(r.panes[k]) + n
  PROVE  Only(r, q, k, n)
<1>1. r.panes \in [Key -> PaneType]
  BY DEF Good, RealmType
<1>2. /\ \A d \in Dim : q.total[d] - q.orphan[d] - p.charge[d]
                          = r.total[d] - r.orphan[d] - r.panes[k].charge[d]
      /\ \A d \in Dim : q.reserved[d] - own(p)[d] = r.reserved[d] - own(r.panes[k])[d]
  OBVIOUS
<1>3. Moved(r, q, n)
  BY <1>2, PaneMoves
<1> QED
  BY <1>1, <1>3 DEF Only

\* A slot is given back by the step that marks the generation retired.
LEMMA RetireSlotMoves ==
  ASSUME NEW r, Good(r), NEW k \in Key, NEW geo, PaneBooks(r.panes[k], "settled", FALSE, geo),
         r.panes[k].state # "continuous", loose(r) >= 0
  PROVE  LET q == retireSlot(r, k)
         IN /\ Only(r, q, k, 0) /\ PaneBooks(q.panes[k], "settled", FALSE, geo)
            /\ q.panes[k].state = r.panes[k].state /\ q.panes[k].slotRetired
            /\ q.slots = IF r.panes[k].slotRetired THEN r.slots ELSE r.slots - 1
<1> DEFINE o == r.panes[k]
           p == slotless(o)
           q == retireSlot(r, k)
<1>1. r.panes \in [Key -> PaneType] /\ o \in PaneType /\ r.slots \in Nat
  BY DEF Good, RealmType
<1>2. CASE o.slotRetired
  <2>1. q = r
    BY <1>2 DEF retireSlot
  <2>2. Only(r, r, k, 0)
    BY BalanceType DEF Moved, Good, Only
  <2> QED
    BY <1>2, <2>1, <2>2
<1>3. CASE ~o.slotRetired
  <2>0. o.state # "absent"
    BY <1>3, AbsentBooks DEF PaneBooks
  <2>1. /\ p \in PaneType /\ p.state = o.state /\ p.slotRetired
        /\ p.charge = o.charge /\ own(p) = own(o) /\ PaneBooks(p, "settled", FALSE, geo)
    BY <1>1, <2>0, SlotlessBooks
  <2>2. r.slots > 0
    BY <1>3, SlotTaken
  <2>3. q = releaseSlot([r EXCEPT !.panes[k] = p])
    BY <1>3 DEF retireSlot
  <2> HIDE DEF p, q
  <2>4. /\ q.panes = [r.panes EXCEPT ![k] = p] /\ q.total = r.total /\ q.reserved = r.reserved
        /\ q.orphan = r.orphan /\ q.slots = r.slots - 1
    BY <2>2, <2>3 DEF Good, RealmType, releaseSlot
  <2>5. Good(q)
    BY RetireSlotGood DEF q
  <2>6. q.slots - counts(p) = r.slots - counts(o) + 0
    BY <1>1, <1>3, <2>1, <2>4 DEF counts
  <2>7. Only(r, q, k, 0)
    BY <2>1, <2>4, <2>5, <2>6, PaneSwaps
  <2>8. q.panes[k] = p
    BY <1>1, <2>4
  <2> QED
    BY <1>3, <2>1, <2>4, <2>7, <2>8 DEF q
<1> QED
  BY <1>2, <1>3

\* A proven unlink returns the charge.
LEMMA RefundMoves ==
  ASSUME NEW r, Good(r), NEW k \in Key, NEW as, NEW cap, NEW geo,
         PaneBooks(r.panes[k], as, cap, geo), r.panes[k].state # "absent"
  PROVE  LET q == refund(r, k)
         IN /\ Only(r, q, k, 0) /\ PaneBooks(q.panes[k], as, cap, geo) /\ q.slots = r.slots
            /\ q.panes[k].slotRetired = r.panes[k].slotRetired
            /\ q.panes[k].state = r.panes[k].state /\ q.panes[k].charge = Zero
<1> DEFINE o == r.panes[k]
           p == unlinked(o)
           q == refund(r, k)
<1>1. r.panes \in [Key -> PaneType] /\ o \in PaneType
  BY DEF Good, RealmType
<1>2. /\ p \in PaneType /\ p.state = o.state /\ p.slotRetired = o.slotRetired
      /\ p.charge = Zero /\ own(p) = own(o) /\ PaneBooks(p, as, cap, geo)
  BY <1>1, UnlinkedBooks
<1>3. q = [r EXCEPT !.total = Minus(@, o.charge), !.panes[k] = p]
  BY DEF refund
<1>4. Good(q)
  BY RefundGood
<1> HIDE DEF p, q
<1>5. /\ q.panes = [r.panes EXCEPT ![k] = p] /\ q.total = Minus(r.total, o.charge)
      /\ q.reserved = r.reserved /\ q.orphan = r.orphan /\ q.slots = r.slots
  BY <1>3 DEF Good, RealmType
<1>6. \A d \in Dim : q.total[d] - q.orphan[d] - p.charge[d] = r.total[d] - r.orphan[d] - o.charge[d]
  <2> SUFFICES ASSUME NEW d \in Dim
               PROVE  q.total[d] - q.orphan[d] - p.charge[d] = r.total[d] - r.orphan[d] - o.charge[d]
    OBVIOUS
  <2>1. r.total[d] \in Int /\ r.orphan[d] \in Int /\ o.charge[d] \in Int
    BY <1>1, OwnParts DEF Good, RealmType, Amount
  <2>2. q.total[d] = r.total[d] - o.charge[d] /\ q.orphan[d] = r.orphan[d] /\ p.charge[d] = 0
    BY <1>2, <1>5, ZeroAmount DEF Minus
  <2> QED BY <2>1, <2>2
<1>7. \A d \in Dim : q.reserved[d] - own(p)[d] = r.reserved[d] - own(o)[d]
  BY <1>2, <1>5
<1>8. q.slots - counts(p) = r.slots - counts(o) + 0
  BY <1>2, <1>5 DEF counts, Good, RealmType
<1>9. Moved(r, q, 0)
  BY <1>2, <1>4, <1>5, <1>6, <1>7, <1>8, PaneMoves
<1>10. q.panes[k] = p /\ \A j \in Key \ {k} : q.panes[j] = r.panes[j]
  BY <1>1, <1>5
<1> QED
  BY <1>2, <1>5, <1>9, <1>10 DEF Only, q

\* A generation that holds nothing of its own and is charged for nothing can be
\* forgotten; if it kept its slot, the slot is not its any more.
LEMMA ForgetMoves ==
  ASSUME NEW r, Good(r), NEW k \in Key, NEW geo, PaneBooks(r.panes[k], "settled", FALSE, geo),
         r.panes[k].charge = Zero
  PROVE  LET q == forget(r, k)
         IN /\ Only(r, q, k, counts(r.panes[k])) /\ q.panes[k] = Absent
            /\ PaneBooks(q.panes[k], "settled", FALSE, geo) /\ q.slots = r.slots
<1> DEFINE o == r.panes[k]
           q == forget(r, k)
<1>1. r.panes \in [Key -> PaneType] /\ o \in PaneType
  BY DEF Good, RealmType
<1>2. q = [r EXCEPT !.panes[k] = Absent]
  BY DEF forget
<1>3. Good(q)
  BY ForgetGood
<1> HIDE DEF q
<1>4. /\ q.panes = [r.panes EXCEPT ![k] = Absent] /\ q.total = r.total
      /\ q.reserved = r.reserved /\ q.orphan = r.orphan /\ q.slots = r.slots
  BY <1>2 DEF Good, RealmType
<1>5. /\ Absent.charge = o.charge /\ Absent \in PaneType /\ Absent.slotRetired
      /\ PaneBooks(Absent, "settled", FALSE, geo)
  BY AbsentBooks, AbsentPane
<1>6. own(Absent) = own(o)
  <2>1. \A d \in Dim : own(o)[d] = 0
    BY <1>1, SettledOwnsNothing
  <2>2. \A d \in Dim : own(Absent)[d] = 0
    BY AbsentBooks
  <2> QED BY <2>1, <2>2 DEF own
<1>7. counts(o) \in Int /\ counts(Absent) = 0
  BY <1>5 DEF counts
<1>8. q.slots - counts(Absent) = r.slots - counts(o) + counts(o)
  BY <1>4, <1>7 DEF Good, RealmType
<1>9. Only(r, q, k, counts(o))
  BY <1>3, <1>4, <1>5, <1>6, <1>7, <1>8, PaneSwaps
<1>10. q.panes[k] = Absent
  BY <1>1, <1>4
<1> QED
  BY <1>4, <1>5, <1>9, <1>10 DEF q

\* Retirement with its unlink: the generation is forgotten and its charge
\* returned.
LEMMA RefundForgetMoves ==
  ASSUME NEW r, Good(r), NEW k \in Key, NEW geo, PaneBooks(r.panes[k], "settled", FALSE, geo),
         r.panes[k].slotRetired, r.panes[k].state # "absent"
  PROVE  LET q == forget(refund(r, k), k)
         IN /\ Only(r, q, k, 0) /\ q.panes[k] = Absent
            /\ PaneBooks(q.panes[k], "settled", FALSE, geo) /\ q.slots = r.slots
<1> DEFINE m == refund(r, k)
           q == forget(m, k)
<1>1. /\ Only(r, m, k, 0) /\ PaneBooks(m.panes[k], "settled", FALSE, geo) /\ m.slots = r.slots
      /\ m.panes[k].slotRetired /\ m.panes[k].charge = Zero
  BY RefundMoves
<1>2. Good(m)
  BY RefundGood
<1> HIDE DEF m
<1>3. counts(m.panes[k]) = 0
  BY <1>1 DEF counts
<1>4. /\ Only(m, q, k, 0) /\ q.panes[k] = Absent
      /\ PaneBooks(q.panes[k], "settled", FALSE, geo) /\ q.slots = m.slots
  BY <1>1, <1>2, <1>3, ForgetMoves
<1> HIDE DEF q
<1>5. Moved(r, m, 0) /\ Moved(m, q, 0)
  BY <1>1, <1>4 DEF Only
<1>6. Moved(r, q, 0)
  BY <1>2, <1>5, MovedTwice
<1>7. \A j \in Key \ {k} : q.panes[j] = r.panes[j]
  BY <1>1, <1>4 DEF Only
<1> QED
  BY <1>1, <1>4, <1>6, <1>7 DEF q, m, Only

\* A discarded generation becomes a tombstone and one slot is no longer its.
LEMMA TombstoneMoves ==
  ASSUME NEW r, Good(r), NEW k \in Key, NEW geo, PaneBooks(r.panes[k], "settled", FALSE, geo),
         ~r.panes[k].slotRetired, NEW q \in tombstones(r, k)
  PROVE  /\ Only(r, q, k, 1) /\ PaneBooks(q.panes[k], "settled", FALSE, geo)
         /\ q.slots = r.slots /\ q.panes[k].state = "untrusted"
<1> DEFINE i == invalidate(r, k)
           o == i.panes[k]
           p == slotless(o)
           t == [i EXCEPT !.panes[k] = p]
<1>0. r.panes[k].state # "absent"
  BY AbsentBooks DEF PaneBooks
<1>1. /\ Only(r, i, k, 0) /\ PaneBooks(o, "settled", FALSE, geo) /\ i.slots = r.slots
      /\ ~o.slotRetired /\ o.state = "untrusted"
  BY <1>0, InvalidateMoves
<1>2. Good(i)
  BY InvalidateGood
<1>3. t \in tombstones(r, k) /\ (q = t \/ q = refund(t, k))
  BY DEF tombstones
<1>4. Good(t)
  BY <1>3, TombstonesGood
<1> HIDE DEF i
<1>5. i.panes \in [Key -> PaneType] /\ o \in PaneType /\ i.slots \in Nat
  BY <1>2 DEF Good, RealmType
<1>6. /\ p \in PaneType /\ p.state = o.state /\ p.slotRetired
      /\ p.charge = o.charge /\ own(p) = own(o) /\ PaneBooks(p, "settled", FALSE, geo)
  BY <1>1, <1>5, SlotlessBooks
<1> HIDE DEF p
<1>7. /\ t.panes = [i.panes EXCEPT ![k] = p] /\ t.total = i.total /\ t.reserved = i.reserved
      /\ t.orphan = i.orphan /\ t.slots = i.slots
  BY <1>2 DEF Good, RealmType
<1> HIDE DEF t
<1>8. t.slots - counts(p) = i.slots - counts(o) + 1
  BY <1>1, <1>5, <1>6, <1>7 DEF counts
<1>9. Only(i, t, k, 1)
  BY <1>2, <1>4, <1>6, <1>7, <1>8, PaneSwaps
<1>10. t.panes[k] = p
  BY <1>5, <1>7
<1>11. Moved(r, i, 0) /\ Moved(i, t, 1)
  BY <1>1, <1>9 DEF Only
<1>12. Moved(r, t, 1)
  BY <1>2, <1>11, MovedTwice
<1>13. \A j \in Key \ {k} : t.panes[j] = r.panes[j]
  BY <1>1, <1>9 DEF Only
<1>14. Only(r, t, k, 1)
  BY <1>12, <1>13 DEF Only
<1>15. CASE q = t
  BY <1>1, <1>6, <1>7, <1>10, <1>14, <1>15
<1>16. CASE q = refund(t, k)
  <2>1. t.panes[k].state = "untrusted" /\ PaneBooks(t.panes[k], "settled", FALSE, geo)
    BY <1>1, <1>6, <1>10
  <2>2. /\ Only(t, q, k, 0) /\ PaneBooks(q.panes[k], "settled", FALSE, geo)
        /\ q.slots = t.slots /\ q.panes[k].state = t.panes[k].state
    BY <1>4, <1>16, <2>1, RefundMoves
  <2>3. Moved(r, t, 1) /\ Moved(t, q, 0)
    BY <1>14, <2>2 DEF Only
  <2>4. Moved(r, q, 1)
    BY <1>4, <2>3, MovedTwice
  <2>5. \A j \in Key \ {k} : q.panes[j] = r.panes[j]
    BY <1>13, <2>2 DEF Only
  <2> QED
    BY <1>1, <1>7, <2>1, <2>2, <2>4, <2>5 DEF Only
<1> QED
  BY <1>3, <1>15, <1>16

\* A mark moves nothing.
LEMMA MarkedMoves ==
  ASSUME NEW r, Good(r), NEW k \in Key, NEW m \in {"settled", "attributed"},
         NEW as, NEW cap, NEW geo, PaneBooks(r.panes[k], as, cap, geo),
         m = "settled" => as = "settled", r.panes[k].state # "absent"
  PROVE  LET q == [r EXCEPT !.panes[k] = marked(@, m)]
         IN /\ Only(r, q, k, 0) /\ PaneBooks(q.panes[k], as, cap, geo) /\ q.slots = r.slots
            /\ q.panes[k].state = r.panes[k].state
<1> DEFINE o == r.panes[k]
           p == marked(o, m)
           q == [r EXCEPT !.panes[k] = p]
<1>1. r.panes \in [Key -> PaneType] /\ o \in PaneType
  BY DEF Good, RealmType
<1>2. /\ p \in PaneType /\ p.state = o.state /\ p.slotRetired = o.slotRetired
      /\ p.charge = o.charge /\ own(p) = own(o) /\ PaneBooks(p, as, cap, geo)
  BY <1>1, MarkedBooks
<1>3. [r EXCEPT !.panes[k] = marked(@, m)] = q
  OBVIOUS
<1>4. Good(q)
  BY <1>3, MarkedGood
<1> HIDE DEF p
<1>5. /\ q.panes = [r.panes EXCEPT ![k] = p] /\ q.total = r.total
      /\ q.reserved = r.reserved /\ q.orphan = r.orphan /\ q.slots = r.slots
  BY DEF Good, RealmType
<1> HIDE DEF q
<1>6. q.slots - counts(p) = r.slots - counts(o) + 0
  BY <1>2, <1>5 DEF counts, Good, RealmType
<1>7. Only(r, q, k, 0)
  BY <1>2, <1>4, <1>5, <1>6, PaneSwaps
<1>8. q.panes[k] = p
  BY <1>1, <1>5
<1> QED
  BY <1>2, <1>3, <1>5, <1>7, <1>8

\* What a generation gives up of its holds, the realm gets back.
LEMMA HoldReturned ==
  ASSUME NEW r, Good(r), NEW k \in Key, NEW p \in PaneType, NEW a \in [Dim -> Nat],
         p.charge = r.panes[k].charge, p.slotRetired = r.panes[k].slotRetired,
         \A d \in Dim : own(p)[d] = own(r.panes[k])[d] - a[d],
         NEW q, Good(q), q.panes = [r.panes EXCEPT ![k] = p], q.total = r.total,
         q.reserved = Minus(r.reserved, a), q.orphan = r.orphan, q.slots = r.slots
  PROVE  Only(r, q, k, 0) /\ q.panes[k] = p /\ q.slots = r.slots
<1> DEFINE o == r.panes[k]
<1>1. r.panes \in [Key -> PaneType] /\ o \in PaneType
  BY DEF Good, RealmType
<1>3. \A d \in Dim : q.total[d] - q.orphan[d] - p.charge[d] = r.total[d] - r.orphan[d] - o.charge[d]
  OBVIOUS
<1>4. \A d \in Dim : q.reserved[d] - own(p)[d] = r.reserved[d] - own(o)[d]
  <2> SUFFICES ASSUME NEW d \in Dim
               PROVE  q.reserved[d] - own(p)[d] = r.reserved[d] - own(o)[d]
    OBVIOUS
  <2>1. r.reserved[d] \in Int /\ a[d] \in Int /\ own(o)[d] \in Int
    BY <1>1, OwnParts DEF Good, RealmType, Amount
  <2>2. q.reserved[d] = r.reserved[d] - a[d] /\ own(p)[d] = own(o)[d] - a[d]
    BY DEF Minus
  <2> QED BY <2>1, <2>2
<1>5. q.slots - counts(p) = r.slots - counts(o) + 0
  BY DEF counts, Good, RealmType
<1>6. Moved(r, q, 0)
  BY <1>3, <1>4, <1>5, PaneMoves
<1> QED
  BY <1>1, <1>6 DEF Only

\* Settling an adoption returns its allowance.
LEMMA AllowanceMoves ==
  ASSUME NEW r, Good(r), NEW k \in Key, NEW geo, PaneBooks(r.panes[k], "adopting", FALSE, geo)
  PROVE  LET q == releaseAllowance(r, k)
         IN /\ Only(r, q, k, 0) /\ PaneBooks(q.panes[k], "settled", FALSE, geo)
            /\ q.slots = r.slots /\ q.panes[k].state = r.panes[k].state
            /\ q.panes[k].slotRetired = r.panes[k].slotRetired /\ ~r.panes[k].slotRetired
<1> DEFINE o == r.panes[k]
           a == o.adoption
           p == [unholding(o, a) EXCEPT !.adoption = Zero]
           q == releaseAllowance(r, k)
<1>1. r.panes \in [Key -> PaneType] /\ o \in PaneType /\ a \in [Dim -> Nat]
  BY PaneParts DEF Good, RealmType
<1>2. ~o.slotRetired /\ o.state # "absent"
  BY AbsentBooks DEF PaneBooks
<1>3. /\ p \in PaneType /\ p.state = o.state /\ p.slotRetired = o.slotRetired
      /\ p.charge = o.charge /\ \A d \in Dim : own(p)[d] = own(o)[d] - a[d]
      /\ PaneBooks(p, "settled", FALSE, geo)
  BY <1>1, <1>2, AllowanceReleased
<1>4. q = [r EXCEPT !.reserved = Minus(@, a), !.panes[k] = p]
  BY DEF releaseAllowance
<1>5. Good(q)
  BY ReleaseAllowanceGood
<1> HIDE DEF p, q
<1>6. /\ q.panes = [r.panes EXCEPT ![k] = p] /\ q.total = r.total
      /\ q.reserved = Minus(r.reserved, a) /\ q.orphan = r.orphan /\ q.slots = r.slots
  BY <1>4 DEF Good, RealmType
<1>7. Only(r, q, k, 0) /\ q.panes[k] = p
  BY <1>1, <1>3, <1>5, <1>6, HoldReturned
<1> QED
  BY <1>2, <1>3, <1>6, <1>7 DEF q

\* Ending a rotation capacity returns its rollback.
LEMMA RollbackMoves ==
  ASSUME NEW r, Good(r), NEW k \in Key, NEW cap \in BOOLEAN, NEW geo,
         PaneBooks(r.panes[k], "settled", cap, geo)
  PROVE  LET q == releaseRollback(r, k)
         IN /\ Only(r, q, k, 0) /\ PaneBooks(q.panes[k], "settled", FALSE, geo)
            /\ q.slots = r.slots /\ q.panes[k].state = r.panes[k].state
            /\ q.panes[k].slotRetired = r.panes[k].slotRetired
<1> DEFINE o == r.panes[k]
           a == o.rollback.bytes
           p == [unholding(o, a) EXCEPT !.rollback = NoHold, !.capacity = "none"]
           q == releaseRollback(r, k)
<1>1. r.panes \in [Key -> PaneType] /\ o \in PaneType /\ a \in [Dim -> Nat]
  BY PaneParts DEF Good, RealmType
<1>2. CASE o.capacity = "none"
  <2>1. q = r
    BY <1>2 DEF releaseRollback
  <2>2. Only(r, r, k, 0)
    BY BalanceType DEF Moved, Good, Only
  <2>3. cap = FALSE
    BY <1>2 DEF PaneBooks
  <2> QED
    BY <2>1, <2>2, <2>3
<1>3. CASE o.capacity # "none"
  <2>1. cap = TRUE /\ o.state # "absent"
    BY <1>3 DEF PaneBooks, Absent
  <2>2. /\ p \in PaneType /\ p.state = o.state /\ p.slotRetired = o.slotRetired
        /\ p.charge = o.charge /\ \A d \in Dim : own(p)[d] = own(o)[d] - a[d]
        /\ PaneBooks(p, "settled", FALSE, geo)
    BY <1>1, <2>1, RollbackReleased
  <2>3. q = [r EXCEPT !.reserved = Minus(@, a), !.panes[k] = p]
    BY <1>3 DEF releaseRollback
  <2>4. Good(q)
    BY ReleaseRollbackGood
  <2> HIDE DEF p, q
  <2>5. /\ q.panes = [r.panes EXCEPT ![k] = p] /\ q.total = r.total
        /\ q.reserved = Minus(r.reserved, a) /\ q.orphan = r.orphan /\ q.slots = r.slots
    BY <2>3 DEF Good, RealmType
  <2>6. Only(r, q, k, 0) /\ q.panes[k] = p
    BY <1>1, <2>2, <2>4, <2>5, HoldReturned
  <2> QED
    BY <2>2, <2>5, <2>6 DEF q
<1> QED
  BY <1>2, <1>3

\* Settling a rotation returns what is left of its successor's credit.
LEMMA ForwardMoves ==
  ASSUME NEW r, Good(r), NEW k \in Key, NEW geo, PaneBooks(r.panes[k], "rotating", FALSE, geo)
  PROVE  LET q == releaseForward(r, k)
         IN /\ Only(r, q, k, 0) /\ PaneBooks(q.panes[k], "settled", FALSE, geo)
            /\ q.slots = r.slots /\ q.panes[k].state = r.panes[k].state
            /\ q.panes[k].slotRetired = r.panes[k].slotRetired /\ ~r.panes[k].slotRetired
<1> DEFINE o == r.panes[k]
           a == o.forward.bytes
           p == [unholding(o, a) EXCEPT !.forward = NoHold]
           q == releaseForward(r, k)
<1>1. r.panes \in [Key -> PaneType] /\ o \in PaneType /\ a \in [Dim -> Nat]
  BY PaneParts DEF Good, RealmType
<1>2. ~o.slotRetired /\ o.state # "absent" /\ o.capacity = "none"
  BY AbsentBooks DEF PaneBooks
<1>3. /\ p \in PaneType /\ p.state = o.state /\ p.slotRetired = o.slotRetired
      /\ p.charge = o.charge /\ \A d \in Dim : own(p)[d] = own(o)[d] - a[d]
      /\ PaneBooks(p, "settled", FALSE, geo)
  BY <1>1, <1>2, ForwardReleased
<1>4. q = [r EXCEPT !.reserved = Minus(@, a), !.panes[k] = p]
  BY <1>2 DEF releaseForward, releaseRollback
<1>5. Good(q)
  BY ReleaseForwardGood
<1> HIDE DEF p, q
<1>6. /\ q.panes = [r.panes EXCEPT ![k] = p] /\ q.total = r.total
      /\ q.reserved = Minus(r.reserved, a) /\ q.orphan = r.orphan /\ q.slots = r.slots
  BY <1>4 DEF Good, RealmType
<1>7. Only(r, q, k, 0) /\ q.panes[k] = p
  BY <1>1, <1>3, <1>5, <1>6, HoldReturned
<1> QED
  BY <1>2, <1>3, <1>6, <1>7 DEF q

\* Arming the rollback of a held capacity moves nothing.
LEMMA ArmMoves ==
  ASSUME NEW r, Good(r), NEW k \in Key, NEW as, NEW cap, NEW geo,
         PaneBooks(r.panes[k], as, cap, geo)
  PROVE  LET q == armRollback(r, k)
         IN /\ Only(r, q, k, 0) /\ PaneBooks(q.panes[k], as, cap, geo)
            /\ q.slots = r.slots /\ q.panes[k].state = r.panes[k].state
            /\ q.panes[k].slotRetired = r.panes[k].slotRetired
<1> DEFINE o == r.panes[k]
           p == [o EXCEPT !.capacity = "armed"]
           q == armRollback(r, k)
<1>1. r.panes \in [Key -> PaneType] /\ o \in PaneType
  BY DEF Good, RealmType
<1>2. CASE o.capacity = "none"
  <2>1. q = r
    BY <1>2 DEF armRollback
  <2>2. Only(r, r, k, 0)
    BY BalanceType DEF Moved, Good, Only
  <2> QED
    BY <2>1, <2>2
<1>3. CASE o.capacity # "none"
  <2>1. /\ p \in PaneType /\ p.state = o.state /\ p.slotRetired = o.slotRetired
        /\ p.charge = o.charge /\ p.capacity = "armed" /\ p.marks = o.marks /\ HoldsSame(o, p)
    BY <1>1 DEF PaneType, HoldsSame
  <2>2. o.state # "absent"
    BY <1>3 DEF PaneBooks, Absent
  <2>3. q = [r EXCEPT !.panes[k] = p]
    BY <1>3 DEF armRollback
  <2>4. Good(q)
    BY ArmRollbackGood
  <2> HIDE DEF p, q
  <2>5. own(p) = own(o)
    BY <2>1, OwnSame
  <2>6. PaneBooks(p, as, cap, geo)
    BY <1>3, <2>1, <2>2, <2>5 DEF PaneBooks, HoldsSame
  <2>7. /\ q.panes = [r.panes EXCEPT ![k] = p] /\ q.total = r.total
        /\ q.reserved = r.reserved /\ q.orphan = r.orphan /\ q.slots = r.slots
    BY <2>3 DEF Good, RealmType
  <2>8. q.slots - counts(p) = r.slots - counts(o) + 0
    BY <2>1, <2>7 DEF counts, Good, RealmType
  <2>9. Only(r, q, k, 0)
    BY <2>1, <2>4, <2>5, <2>7, <2>8, PaneSwaps
  <2>10. q.panes[k] = p
    BY <1>1, <2>7
  <2> QED
    BY <2>1, <2>6, <2>7, <2>9, <2>10 DEF q
<1> QED
  BY <1>2, <1>3

\* A generation made by createPaneWithHeader holds nothing.
LEMMA FreshBooks ==
  /\ FreshPane \in PaneType /\ FreshPane.charge = headerCost /\ ~FreshPane.slotRetired
  /\ FreshPane.state = "continuous" /\ FreshPane.marks = {"attributed", "file"}
  /\ \A d \in Dim : own(FreshPane)[d] = 0 /\ FreshPane.held[d] = 0
  /\ FreshPane.capacity = "none" /\ FreshPane.rollback = NoHold
  /\ FreshPane.adoption = Zero /\ FreshPane.forward = NoHold
  /\ PaneBooks(FreshPane, "settled", FALSE, FALSE)
<1>1. /\ FreshPane \in PaneType /\ FreshPane.charge = headerCost /\ ~FreshPane.slotRetired
      /\ FreshPane.state = "continuous" /\ FreshPane.marks = {"attributed", "file"}
      /\ FreshPane.held = Zero
      /\ FreshPane.capacity = "none" /\ FreshPane.rollback = NoHold
      /\ FreshPane.adoption = Zero /\ FreshPane.forward = NoHold
  BY FreshPaneType DEF FreshPane, Absent
<1>2. \A d \in Dim : own(FreshPane)[d] = 0 /\ FreshPane.held[d] = 0
  BY <1>1, OwnsNothing, ZeroAmount
<1> QED
  BY <1>1, <1>2, EmptyHold DEF PaneBooks

\* A generation comes into being with its header charged; its slot was taken
\* before.
LEMMA MaterializeMoves ==
  ASSUME NEW r, Good(r), NEW k \in Key, r.panes[k] = Absent, Good(materialize(r, k))
  PROVE  LET q == materialize(r, k)
         IN Only(r, q, k, -1) /\ q.panes[k] = FreshPane /\ q.slots = r.slots
<1> DEFINE q == materialize(r, k)
<1>1. r.panes \in [Key -> PaneType]
  BY DEF Good, RealmType
<1>2. /\ q.panes = [r.panes EXCEPT ![k] = FreshPane] /\ q.total = Plus(r.total, headerCost)
      /\ q.reserved = r.reserved /\ q.orphan = r.orphan /\ q.slots = r.slots
  BY DEF Good, RealmType, materialize
<1> HIDE DEF q
<1>3. /\ FreshPane \in PaneType /\ FreshPane.charge = headerCost /\ ~FreshPane.slotRetired
      /\ \A d \in Dim : own(FreshPane)[d] = 0
  BY FreshBooks
<1>4. /\ Absent.slotRetired /\ Absent.charge = Zero /\ \A d \in Dim : own(Absent)[d] = 0
  BY AbsentBooks
<1>5. \A d \in Dim : q.total[d] - q.orphan[d] - FreshPane.charge[d]
                       = r.total[d] - r.orphan[d] - r.panes[k].charge[d]
  <2> SUFFICES ASSUME NEW d \in Dim
               PROVE  q.total[d] - q.orphan[d] - FreshPane.charge[d]
                        = r.total[d] - r.orphan[d] - r.panes[k].charge[d]
    OBVIOUS
  <2>1. r.total[d] \in Int /\ r.orphan[d] \in Int /\ headerCost[d] \in Int
    BY HeaderAmount DEF Good, RealmType, Amount
  <2>2. /\ q.total[d] = r.total[d] + headerCost[d] /\ FreshPane.charge[d] = headerCost[d]
        /\ r.panes[k].charge[d] = 0 /\ q.orphan[d] = r.orphan[d]
    BY <1>2, <1>3, <1>4, ZeroAmount DEF Plus
  <2> QED BY <2>1, <2>2
<1>6. \A d \in Dim : q.reserved[d] - own(FreshPane)[d] = r.reserved[d] - own(r.panes[k])[d]
  BY <1>2, <1>3, <1>4
<1>7. q.slots - counts(FreshPane) = r.slots - counts(r.panes[k]) + (-1)
  <2>1. counts(FreshPane) = 1 /\ counts(r.panes[k]) = 0 /\ r.slots \in Int
    BY <1>3, <1>4 DEF counts, Good, RealmType
  <2> QED BY <1>2, <2>1
<1>8. Good(q)
  BY DEF q
<1>9. Moved(r, q, -1)
  BY <1>2, <1>3, <1>5, <1>6, <1>7, <1>8, PaneMoves
<1> QED
  BY <1>1, <1>2, <1>9 DEF Only, q

\* A header left behind is charged to the realm and to no generation.
LEMMA OrphanMoves ==
  ASSUME NEW r, Good(r), Good(orphanHeader(r))
  PROVE  LET q == orphanHeader(r)
         IN Moved(r, q, 0) /\ q.panes = r.panes /\ q.slots = r.slots
<1> DEFINE q == orphanHeader(r)
<1>1. /\ q.panes = r.panes /\ q.total = Plus(r.total, headerCost)
      /\ q.reserved = r.reserved /\ q.orphan = Plus(r.orphan, headerCost) /\ q.slots = r.slots
  BY DEF Good, RealmType, orphanHeader
<1> HIDE DEF q
<1>2. ASSUME NEW d \in Dim PROVE unpaid(q, d) = unpaid(r, d) /\ extra(q, d) = extra(r, d)
  <2> DEFINE w == sumOf(charges(r.panes, d), Key)
  <2>1. Weights(charges(r.panes, d))
    BY ChargesAre DEF Good, RealmType, Weights
  <2>2. w \in Int
    BY <2>1, TotalType
  <2>3. r.total[d] \in Int /\ r.orphan[d] \in Int /\ headerCost[d] \in Int
    BY HeaderAmount DEF Good, RealmType, Amount
  <2>4. q.total[d] = r.total[d] + headerCost[d] /\ q.orphan[d] = r.orphan[d] + headerCost[d]
    BY <1>1 DEF Plus
  <2>5. unpaid(q, d) = q.total[d] - q.orphan[d] - w /\ unpaid(r, d) = r.total[d] - r.orphan[d] - w
    BY <1>1 DEF unpaid
  <2>6. extra(q, d) = extra(r, d)
    BY <1>1 DEF extra
  <2> HIDE DEF w
  <2> QED BY <2>2, <2>3, <2>4, <2>5, <2>6
<1>3. loose(q) = loose(r) /\ loose(r) \in Int
  BY <1>1, BalanceType DEF loose, counted, Good
<1>4. Moved(r, q, 0)
  BY <1>2, <1>3 DEF Moved, q
<1> QED
  BY <1>1, <1>4 DEF q

\* A sweep forgets generations that gave their slots back, and returns what
\* they were charged.
LEMMA SweepMoves ==
  ASSUME NEW r, Good(r), NEW gone \in SUBSET Key, NEW H,
         \A s \in gone : r.panes[s].slotRetired /\ PaneBooks(r.panes[s], "settled", FALSE, s \in H)
  PROVE  LET q == sweep(r, gone)
         IN /\ Moved(r, q, 0) /\ q.slots = r.slots
            /\ \A j \in Key \ gone : q.panes[j] = r.panes[j]
            /\ \A j \in gone : q.panes[j] = Absent
<1> DEFINE q == sweep(r, gone)
<1>0. r.panes \in [Key -> PaneType] /\ r.slots \in Nat
  BY DEF Good, RealmType
<1>1. Good(q)
  BY SweepGood
<1>2. /\ q.total = Minus(r.total, refunded(r, gone)) /\ q.reserved = r.reserved
      /\ q.orphan = r.orphan /\ q.slots = r.slots
      /\ \A j \in Key \ gone : q.panes[j] = r.panes[j]
      /\ \A j \in gone : q.panes[j] = Absent
  BY DEF sweep, Good, RealmType
<1> HIDE DEF q
<1>3. q.panes \in [Key -> PaneType]
  BY <1>1 DEF Good, RealmType
<1>4. \A j \in gone, d \in Dim : own(r.panes[j])[d] = 0
  <2> SUFFICES ASSUME NEW j \in gone PROVE \A d \in Dim : own(r.panes[j])[d] = 0
    OBVIOUS
  <2>1. r.panes[j] \in PaneType /\ PaneBooks(r.panes[j], "settled", FALSE, j \in H)
    BY <1>0
  <2> QED BY <2>1, SettledOwnsNothing
<1>5. ASSUME NEW d \in Dim PROVE unpaid(q, d) = unpaid(r, d)
  <2> DEFINE w == charges(r.panes, d)
             v == charges(q.panes, d)
  <2>1. (\A j \in Key : w[j] = r.panes[j].charge[d] /\ w[j] \in Nat)
        /\ (\A j \in Key : v[j] = q.panes[j].charge[d] /\ v[j] \in Nat)
    BY <1>0, <1>3, ChargesAre
  <2>2. refunded(r, gone)[d] = sumOf(w, gone)
    BY DEF refunded
  <2>3. /\ unpaid(q, d) = q.total[d] - q.orphan[d] - sumOf(v, Key)
        /\ unpaid(r, d) = r.total[d] - r.orphan[d] - sumOf(w, Key)
    BY DEF unpaid
  <2> HIDE DEF v, w
  <2>4. Absent.charge[d] = 0
    BY AbsentBooks, ZeroAmount
  <2>5. Weights(w) /\ \A j \in Key : v[j] = IF j \in gone THEN 0 ELSE w[j]
    BY <1>2, <2>1, <2>4 DEF Weights
  <2>6. sumOf(v, Key) = sumOf(w, Key) - sumOf(w, gone)
    BY <2>5, TotalWithout
  <2>7. sumOf(w, Key) \in Int
    BY <2>5, TotalType
  <2>8. sumOf(w, gone) \in Int
    BY <1>0, <2>2, RefundedAmount
  <2>9. r.total[d] \in Int /\ r.orphan[d] \in Int
    BY DEF Good, RealmType, Amount
  <2>10. q.total[d] = r.total[d] - sumOf(w, gone) /\ q.orphan[d] = r.orphan[d]
    BY <1>2, <2>2 DEF Minus
  <2> QED
    BY <2>3, <2>6, <2>7, <2>8, <2>9, <2>10
<1>6. ASSUME NEW d \in Dim PROVE extra(q, d) = extra(r, d)
  <2> DEFINE x == owns(r.panes, d)
             y == owns(q.panes, d)
  <2>1. (\A j \in Key : x[j] = own(r.panes[j])[d]) /\ (\A j \in Key : y[j] = own(q.panes[j])[d])
    BY <1>0, <1>3, OwnsAre
  <2>2. own(Absent)[d] = 0
    BY AbsentBooks
  <2>3. \A j \in Key : y[j] = x[j]
    BY <1>2, <1>4, <2>1, <2>2
  <2> HIDE DEF x, y
  <2>4. sumOf(y, Key) = sumOf(x, Key)
    BY <2>3, TotalSame
  <2> QED
    BY <1>2, <2>4 DEF extra, x, y
<1>7. loose(q) = loose(r)
  <2>1. Absent.slotRetired
    BY AbsentBooks
  <2>2. counted(q) = counted(r)
    BY <1>2, <2>1 DEF counted
  <2> QED BY <1>2, <2>2 DEF loose
<1>8. loose(r) \in Int
  BY BalanceType DEF Good
<1>9. Moved(r, q, 0)
  BY <1>1, <1>5, <1>6, <1>7, <1>8 DEF Moved
<1> QED
  BY <1>2, <1>9 DEF q

\* The realm after the generations of S gave their slots up and m are left.
givenUp(r, S, m) ==
  [r EXCEPT !.panes = [s \in Key |-> IF s \in S THEN slotless(@[s]) ELSE @[s]], !.slots = m]

\* Slots given up in bulk by recovered generations.
LEMMA SlotlessMoves ==
  ASSUME NEW r, Good(r), NEW S \in SUBSET Key, NEW m \in Nat,
         \A s \in S : r.panes[s].state = "legacy" /\ ~r.panes[s].slotRetired
  PROVE  LET q == givenUp(r, S, m)
         IN /\ Moved(r, q, m - r.slots + Cardinality(S)) /\ q.slots = m
            /\ \A j \in Key \ S : q.panes[j] = r.panes[j]
            /\ \A j \in S : q.panes[j] = slotless(r.panes[j])
<1> DEFINE q == givenUp(r, S, m)
<1>0. r.panes \in [Key -> PaneType] /\ r.slots \in Nat
  BY DEF Good, RealmType
<1>1. Good(q)
  BY SlotlessGood DEF givenUp
<1>2. /\ q.total = r.total /\ q.reserved = r.reserved /\ q.orphan = r.orphan /\ q.slots = m
      /\ \A j \in Key \ S : q.panes[j] = r.panes[j]
      /\ \A j \in S : q.panes[j] = slotless(r.panes[j])
  BY DEF Good, RealmType, givenUp
<1> HIDE DEF q
<1>3. q.panes \in [Key -> PaneType]
  BY <1>1 DEF Good, RealmType
<1>4. \A j \in S : /\ q.panes[j].charge = r.panes[j].charge /\ q.panes[j].slotRetired
                   /\ own(q.panes[j]) = own(r.panes[j])
  <2> SUFFICES ASSUME NEW j \in S
               PROVE  /\ slotless(r.panes[j]).charge = r.panes[j].charge
                      /\ slotless(r.panes[j]).slotRetired
                      /\ own(slotless(r.panes[j])) = own(r.panes[j])
    BY <1>2
  <2>1. r.panes[j] \in PaneType
    BY <1>0
  <2>2. /\ slotless(r.panes[j]).charge = r.panes[j].charge /\ slotless(r.panes[j]).slotRetired
        /\ HoldsSame(r.panes[j], slotless(r.panes[j]))
    BY <2>1 DEF PaneType, slotless, HoldsSame
  <2> QED BY <2>2, OwnSame
<1>5. ASSUME NEW d \in Dim PROVE unpaid(q, d) = unpaid(r, d)
  <2> DEFINE w == charges(r.panes, d)
             v == charges(q.panes, d)
  <2>1. (\A j \in Key : w[j] = r.panes[j].charge[d]) /\ (\A j \in Key : v[j] = q.panes[j].charge[d])
    BY <1>0, <1>3, ChargesAre
  <2>2. \A j \in Key : v[j] = w[j]
    BY <1>2, <1>4, <2>1
  <2> HIDE DEF v, w
  <2>3. sumOf(v, Key) = sumOf(w, Key)
    BY <2>2, TotalSame
  <2> QED
    BY <1>2, <2>3 DEF unpaid, v, w
<1>6. ASSUME NEW d \in Dim PROVE extra(q, d) = extra(r, d)
  <2> DEFINE x == owns(r.panes, d)
             y == owns(q.panes, d)
  <2>1. (\A j \in Key : x[j] = own(r.panes[j])[d]) /\ (\A j \in Key : y[j] = own(q.panes[j])[d])
    BY <1>0, <1>3, OwnsAre
  <2>2. \A j \in Key : y[j] = x[j]
    BY <1>2, <1>4, <2>1
  <2> HIDE DEF x, y
  <2>3. sumOf(y, Key) = sumOf(x, Key)
    BY <2>2, TotalSame
  <2> QED
    BY <1>2, <2>3 DEF extra, x, y
<1>7. loose(q) = loose(r) + (m - r.slots + Cardinality(S))
  <2> DEFINE A == counted(r)
             B == counted(q)
  <2>1. S \in SUBSET A /\ B = A \ S
    BY <1>2, <1>4 DEF counted
  <2>2. A \in SUBSET Key
    BY DEF counted
  <2> HIDE DEF A, B
  <2>3. IsFiniteSet(A) /\ IsFiniteSet(S) /\ Cardinality(A) \in Nat /\ Cardinality(S) \in Nat
    BY <2>2, KeysFinite
  <2>4. A \cap S = S
    BY <2>1
  <2>5. Cardinality(A \ S) = Cardinality(A) - Cardinality(A \cap S)
    BY <2>3, FS_Difference
  <2>6. loose(q) = m - Cardinality(A \ S) /\ loose(r) = r.slots - Cardinality(A)
    BY <1>2, <2>1 DEF loose, A, B
  <2> DEFINE a == Cardinality(A)
             c == Cardinality(S)
             b == Cardinality(A \ S)
  <2>7. b = a - c
    BY <2>4, <2>5
  <2>8. loose(q) = m - b /\ loose(r) = r.slots - a /\ a \in Int /\ c \in Int /\ r.slots \in Int
    BY <1>0, <2>3, <2>6
  <2> HIDE DEF a, b, c
  <2>9. loose(q) = loose(r) + (m - r.slots + c)
    BY <2>7, <2>8
  <2> QED
    BY <2>9 DEF c
<1>8. Moved(r, q, m - r.slots + Cardinality(S))
  BY <1>1, <1>5, <1>6, <1>7 DEF Moved
<1> QED
  BY <1>2, <1>8 DEF q

\* What an append draws on a hold moves from held to spendable.
LEMMA DrawMoves ==
  ASSUME NEW r, Good(r), NEW k \in Key, NEW a \in [Dim -> Nat],
         \A d \in Dim : a[d] <= holdAmount(r.panes[k], holdOf(r.panes[k]))[d],
         holdOf(r.panes[k]) \in {"forward", "rollback"} => a["physical"] <= a["logical"] + Frame,
         NEW as, NEW cap, NEW geo, PaneBooks(r.panes[k], as, cap, geo), r.panes[k].state # "absent"
  PROVE  LET q == draw(r, k, a)
         IN /\ Only(r, q, k, 0) /\ PaneBooks(q.panes[k], as, cap, geo)
            /\ q.slots = r.slots /\ q.panes[k].state = r.panes[k].state
            /\ q.panes[k].slotRetired = r.panes[k].slotRetired
<1> DEFINE o == r.panes[k]
           p == spentPane(o, a)
           q == draw(r, k, a)
<1>1. r.panes \in [Key -> PaneType] /\ o \in PaneType
  BY DEF Good, RealmType
<1>2. /\ p \in PaneType /\ p.state = o.state /\ p.slotRetired = o.slotRetired
      /\ p.charge = o.charge /\ \A d \in Dim : own(p)[d] = own(o)[d] - a[d]
      /\ PaneBooks(p, as, cap, geo)
  BY <1>1, SpentBooks
<1>3. q = [r EXCEPT !.reserved = Minus(@, a), !.panes[k] = p]
  BY DEF draw, spentPane
<1>4. Good(q)
  BY DrawGood
<1> HIDE DEF p, q
<1>5. /\ q.panes = [r.panes EXCEPT ![k] = p] /\ q.total = r.total
      /\ q.reserved = Minus(r.reserved, a) /\ q.orphan = r.orphan /\ q.slots = r.slots
  BY <1>3 DEF Good, RealmType
<1>6. Only(r, q, k, 0) /\ q.panes[k] = p
  BY <1>1, <1>2, <1>4, <1>5, HoldReturned
<1> QED
  BY <1>2, <1>5, <1>6 DEF q

\* A charge is the generation's and the realm's.
LEMMA SpendMoves ==
  ASSUME NEW r, Good(r), NEW k \in Key, NEW c \in [Dim -> Nat], Good(spend(r, k, c)),
         NEW as, NEW cap, NEW geo, PaneBooks(r.panes[k], as, cap, geo), r.panes[k].state # "absent"
  PROVE  LET q == spend(r, k, c)
         IN /\ Only(r, q, k, 0) /\ PaneBooks(q.panes[k], as, cap, geo)
            /\ q.slots = r.slots /\ q.panes[k].state = r.panes[k].state
            /\ q.panes[k].slotRetired = r.panes[k].slotRetired
<1> DEFINE o == r.panes[k]
           p == charging(o, c)
           q == spend(r, k, c)
<1>1. r.panes \in [Key -> PaneType] /\ o \in PaneType
  BY DEF Good, RealmType
<1>2. /\ p \in PaneType /\ p.state = o.state /\ p.slotRetired = o.slotRetired
      /\ p.charge = Plus(o.charge, c) /\ own(p) = own(o)
      /\ PaneBooks(p, as, cap, geo)
  BY <1>1, ChargingBooks
<1>3. q = [r EXCEPT !.total = Plus(@, c), !.panes[k] = p]
  BY DEF spend
<1>4. Good(q)
  OBVIOUS
<1> HIDE DEF p, q
<1>5. /\ q.panes = [r.panes EXCEPT ![k] = p] /\ q.total = Plus(r.total, c)
      /\ q.reserved = r.reserved /\ q.orphan = r.orphan /\ q.slots = r.slots
  BY <1>3 DEF Good, RealmType
<1>6. \A d \in Dim : q.total[d] - q.orphan[d] - p.charge[d] = r.total[d] - r.orphan[d] - o.charge[d]
  <2> SUFFICES ASSUME NEW d \in Dim
               PROVE  q.total[d] - q.orphan[d] - p.charge[d] = r.total[d] - r.orphan[d] - o.charge[d]
    OBVIOUS
  <2>1. r.total[d] \in Int /\ r.orphan[d] \in Int /\ o.charge[d] \in Int /\ c[d] \in Int
    BY <1>1, OwnParts DEF Good, RealmType, Amount
  <2>2. /\ q.total[d] = r.total[d] + c[d] /\ q.orphan[d] = r.orphan[d]
        /\ p.charge[d] = o.charge[d] + c[d]
    BY <1>2, <1>5 DEF Plus
  <2> QED BY <2>1, <2>2
<1>7. \A d \in Dim : q.reserved[d] - own(p)[d] = r.reserved[d] - own(o)[d]
  BY <1>2, <1>5
<1>8. q.slots - counts(p) = r.slots - counts(o) + 0
  BY <1>2, <1>5 DEF counts, Good, RealmType
<1>9. Moved(r, q, 0)
  BY <1>2, <1>4, <1>5, <1>6, <1>7, <1>8, PaneMoves
<1>10. q.panes[k] = p /\ \A j \in Key \ {k} : q.panes[j] = r.panes[j]
  BY <1>1, <1>5
<1> QED
  BY <1>2, <1>5, <1>9, <1>10 DEF Only, q

\* Two helpers in a row on the same generation.
LEMMA OnlyTwice ==
  ASSUME NEW r, Good(r), NEW q, NEW s, NEW k \in Key, NEW n \in Int, NEW m \in Int,
         Only(r, q, k, n), Only(q, s, k, m), NEW l, l = n + m
  PROVE  Only(r, s, k, l)
<1>1. Moved(r, q, n) /\ Moved(q, s, m)
  BY DEF Only
<1>2. Moved(r, s, l)
  BY <1>1, MovedTwice
<1> QED
  BY <1>2 DEF Only

\* An append, whole or torn.
LEMMA AppendMoves ==
  ASSUME NEW r, Good(r), NEW k \in Key, NEW c \in [Dim -> Nat],
         Good(spend(r, k, c)), Good(spendTorn(r, k, c)), Good(spend(r, k, Bytes(0, c["physical"]))),
         NEW as, NEW cap, NEW geo, PaneBooks(r.panes[k], as, cap, geo), r.panes[k].state # "absent",
         NEW q \in {spend(r, k, c), spendTorn(r, k, c)}
  PROVE  /\ Only(r, q, k, 0) /\ PaneBooks(q.panes[k], as, cap, geo) /\ q.slots = r.slots
         /\ q.panes[k].state \in {r.panes[k].state, "untrusted"}
         /\ q.panes[k].slotRetired = r.panes[k].slotRetired
<1> DEFINE c0 == Bytes(0, c["physical"])
           t == spend(r, k, c0)
<1>1. c0 \in [Dim -> Nat]
  BY BytesAmount DEF Dim
<1>2. CASE q = spend(r, k, c)
  BY <1>2, SpendMoves
<1>3. CASE q = spendTorn(r, k, c)
  <2>1. /\ Only(r, t, k, 0) /\ PaneBooks(t.panes[k], as, cap, geo)
        /\ t.slots = r.slots /\ t.panes[k].state = r.panes[k].state
        /\ t.panes[k].slotRetired = r.panes[k].slotRetired
    <3> HIDE DEF c0
    <3>1. Good(spend(r, k, c0))
      BY DEF c0
    <3> QED BY <1>1, <3>1, SpendMoves
  <2>2. q = invalidate(t, k) /\ Good(t)
    BY <1>3 DEF spendTorn
  <2> HIDE DEF t
  <2>3. /\ Only(t, q, k, 0) /\ PaneBooks(q.panes[k], as, cap, geo) /\ q.slots = t.slots
        /\ q.panes[k].slotRetired = t.panes[k].slotRetired
        /\ q.panes[k].state = IF t.panes[k].state = "absent" THEN "absent" ELSE "untrusted"
    BY <2>1, <2>2, InvalidateMoves
  <2>4. Only(r, q, k, 0)
    BY <2>1, <2>3, OnlyTwice
  <2> QED
    BY <2>1, <2>3, <2>4
<1> QED
  BY <1>2, <1>3

-----------------------------------------------------------------------------
(* Geometry reservations.                                                   *)

\* A geometry record costs one framing of each unit.
LEMMA GeometryCost == geometryRecordCost \in [Dim -> Nat] /\ \A d \in Dim : geometryRecordCost[d] = Frame
  BY LedgerAssumption DEF geometryRecordCost, Bytes

\* The amount a step takes out of what is reserved beside the generations.
Given(a) == Minus(Zero, a)

\* It is an amount.
LEMMA GivenAmount ==
  ASSUME NEW a \in [Dim -> Nat]
  PROVE  Given(a) \in [Dim -> Int] /\ \A d \in Dim : Given(a)[d] = 0 - a[d]
  BY ZeroAmount DEF Given, Minus

\* A geometry reservation comes and goes with the framing it holds.
LEMMA GeometryBooks ==
  ASSUME NEW p \in PaneType, p.state # "absent", NEW as, NEW cap
  PROVE  /\ PaneBooks(p, as, cap, FALSE) =>
              LET q == holding(p, geometryRecordCost)
              IN /\ q \in PaneType /\ q.state = p.state /\ q.slotRetired = p.slotRetired
                 /\ q.charge = p.charge /\ own(q) = own(p) /\ PaneBooks(q, as, cap, TRUE)
         /\ PaneBooks(p, as, cap, TRUE) =>
              LET q == unholding(p, geometryRecordCost)
              IN /\ q \in PaneType /\ q.state = p.state /\ q.slotRetired = p.slotRetired
                 /\ q.charge = p.charge /\ own(q) = own(p) /\ PaneBooks(q, as, cap, FALSE)
<1> DEFINE g == geometryRecordCost
           h == holding(p, g)
           u == unholding(p, g)
<1>0. g \in [Dim -> Nat] /\ \A d \in Dim : g[d] = Frame
  BY GeometryCost
<1> HIDE DEF g
<1>1. h \in PaneType /\ h.charge = p.charge /\ h.held = Plus(p.held, g)
  BY <1>0, HoldingType
<1>2. u \in PaneType /\ u.charge = p.charge /\ u.held = Minus(p.held, g)
  BY <1>0, UnholdingType
<1>3. /\ h.state = p.state /\ h.slotRetired = p.slotRetired /\ h.marks = p.marks
      /\ h.capacity = p.capacity
      /\ h.adoption = p.adoption /\ h.rollback = p.rollback /\ h.forward = p.forward
  BY DEF holding, PaneType
<1>4. /\ u.state = p.state /\ u.slotRetired = p.slotRetired /\ u.marks = p.marks
      /\ u.capacity = p.capacity
      /\ u.adoption = p.adoption /\ u.rollback = p.rollback /\ u.forward = p.forward
  BY DEF unholding, PaneType
<1> HIDE DEF h, u
<1>5. own(h) = own(p) /\ own(u) = own(p)
  BY <1>3, <1>4 DEF own
<1>6. \A d \in Dim : h.held[d] = p.held[d] + Frame /\ u.held[d] = p.held[d] - Frame
                     /\ own(p)[d] \in Int /\ p.held[d] \in Int /\ Frame \in Int
  BY <1>0, <1>1, <1>2, OwnParts, LedgerAssumption DEF Plus, Minus
<1>7. ASSUME PaneBooks(p, as, cap, FALSE) PROVE PaneBooks(h, as, cap, TRUE)
  <2>1. \A d \in Dim : p.held[d] = own(p)[d] + 0
    BY <1>7 DEF PaneBooks
  <2>2. \A d \in Dim : h.held[d] = own(h)[d] + Frame
    BY <1>5, <1>6, <2>1
  <2> QED BY <1>3, <1>7, <2>2 DEF PaneBooks
<1>8. ASSUME PaneBooks(p, as, cap, TRUE) PROVE PaneBooks(u, as, cap, FALSE)
  <2>1. \A d \in Dim : p.held[d] = own(p)[d] + Frame
    BY <1>8 DEF PaneBooks
  <2>2. \A d \in Dim : u.held[d] = own(u)[d] + 0
    BY <1>5, <1>6, <2>1
  <2> QED BY <1>4, <1>8, <2>2 DEF PaneBooks
<1> QED
  BY <1>1, <1>2, <1>3, <1>4, <1>5, <1>7, <1>8 DEF h, u, g

\* A geometry reservation is held by its generation and by the realm.
holdGeometry(r, k) ==
  [r EXCEPT !.reserved = Plus(@, geometryRecordCost), !.panes[k] = holding(@, geometryRecordCost)]

\* It is owed to the reservation, not to the generation.
LEMMA GeometryHeld ==
  ASSUME NEW r, Good(r), NEW k \in Key, r.panes[k].state # "absent",
         NEW as, NEW cap, PaneBooks(r.panes[k], as, cap, FALSE), Good(holdGeometry(r, k))
  PROVE  LET q == holdGeometry(r, k) IN
         /\ Shifted(r, q, 0, geometryRecordCost) /\ PaneBooks(q.panes[k], as, cap, TRUE)
         /\ q.panes[k].state = r.panes[k].state /\ q.panes[k].slotRetired = r.panes[k].slotRetired
         /\ q.slots = r.slots /\ \A j \in Key \ {k} : q.panes[j] = r.panes[j]
<1> DEFINE o == r.panes[k]
           q == holdGeometry(r, k)
           g == geometryRecordCost
           p == holding(o, g)
<1>1. r.panes \in [Key -> PaneType] /\ o \in PaneType /\ g \in [Dim -> Nat] /\ g \in [Dim -> Int]
  BY GeometryCost DEF Good, RealmType
<1>2. /\ p \in PaneType /\ p.state = o.state /\ p.slotRetired = o.slotRetired
      /\ p.charge = o.charge /\ own(p) = own(o) /\ PaneBooks(p, as, cap, TRUE)
  BY <1>1, GeometryBooks
<1>3. /\ q.panes = [r.panes EXCEPT ![k] = p] /\ q.reserved = Plus(r.reserved, g)
      /\ q.total = r.total /\ q.orphan = r.orphan /\ q.slots = r.slots /\ Good(q)
  BY DEF holdGeometry, Good, RealmType
<1> HIDE DEF p, g, q
<1>4. \A d \in Dim : q.total[d] - q.orphan[d] - p.charge[d] = r.total[d] - r.orphan[d] - o.charge[d]
  BY <1>2, <1>3
<1>5. \A d \in Dim : q.reserved[d] - own(p)[d] = r.reserved[d] - own(o)[d] + g[d]
  <2> SUFFICES ASSUME NEW d \in Dim
               PROVE  q.reserved[d] - own(p)[d] = r.reserved[d] - own(o)[d] + g[d]
    OBVIOUS
  <2>1. r.reserved[d] \in Int /\ own(o)[d] \in Int /\ g[d] \in Int
    BY <1>1, OwnParts DEF Good, RealmType, Amount
  <2>2. q.reserved[d] = r.reserved[d] + g[d] /\ own(p)[d] = own(o)[d]
    BY <1>2, <1>3 DEF Plus
  <2> QED BY <2>1, <2>2
<1>6. q.slots - counts(p) = r.slots - counts(o) + 0
  BY <1>2, <1>3 DEF counts, Good, RealmType
<1>7. Shifted(r, q, 0, g)
  BY <1>1, <1>2, <1>3, <1>4, <1>5, <1>6, PaneShifts
<1>8. q.panes[k] = p /\ \A j \in Key \ {k} : q.panes[j] = r.panes[j]
  BY <1>1, <1>3
<1> QED
  BY <1>2, <1>3, <1>7, <1>8 DEF g, q

\* A geometry reservation that ends returns its framing, to the realm even if
\* its generation is forgotten.
LEMMA GeometryReturned ==
  ASSUME NEW r, Good(r), NEW k \in Key, NEW as, NEW cap, PaneBooks(r.panes[k], as, cap, TRUE)
  PROVE  LET q == releaseGeometry(r, k)
         IN /\ Shifted(r, q, 0, Given(geometryRecordCost)) /\ PaneBooks(q.panes[k], as, cap, FALSE)
            /\ q.panes[k].state = r.panes[k].state /\ q.panes[k].slotRetired = r.panes[k].slotRetired
            /\ q.slots = r.slots /\ \A j \in Key \ {k} : q.panes[j] = r.panes[j]
<1> DEFINE o == r.panes[k]
           g == geometryRecordCost
           e == Given(g)
           q == releaseGeometry(r, k)
           p == IF o.state = "absent" THEN o ELSE unholding(o, g)
<1>1. r.panes \in [Key -> PaneType] /\ o \in PaneType /\ g \in [Dim -> Nat]
  BY GeometryCost DEF Good, RealmType
<1>2. e \in [Dim -> Int] /\ \A d \in Dim : e[d] = 0 - g[d]
  <2> HIDE DEF g
  <2> QED BY <1>1, GivenAmount
<1>3. /\ p \in PaneType /\ p.state = o.state /\ p.slotRetired = o.slotRetired
      /\ p.charge = o.charge /\ own(p) = own(o) /\ PaneBooks(p, as, cap, FALSE)
  <2>1. CASE o.state = "absent"
    BY <1>1, <2>1 DEF PaneBooks
  <2>2. CASE o.state # "absent"
    BY <1>1, <2>2, GeometryBooks
  <2> QED BY <2>1, <2>2
<1>4. q.panes = [r.panes EXCEPT ![k] = p] /\ q.total = r.total
      /\ q.reserved = Minus(r.reserved, g) /\ q.orphan = r.orphan /\ q.slots = r.slots
  <2>1. CASE o.state = "absent"
    BY <1>1, <2>1 DEF releaseGeometry, Good, RealmType
  <2>2. CASE o.state # "absent"
    BY <1>1, <2>2 DEF releaseGeometry, Good, RealmType
  <2> QED BY <2>1, <2>2
<1>5. Good(q)
  BY ReleaseGeometryGood
<1> HIDE DEF p, g, e, q
<1>6. \A d \in Dim : q.total[d] - q.orphan[d] - p.charge[d] = r.total[d] - r.orphan[d] - o.charge[d]
  BY <1>3, <1>4
<1>7. \A d \in Dim : q.reserved[d] - own(p)[d] = r.reserved[d] - own(o)[d] + e[d]
  <2> SUFFICES ASSUME NEW d \in Dim
               PROVE  q.reserved[d] - own(p)[d] = r.reserved[d] - own(o)[d] + e[d]
    OBVIOUS
  <2>1. r.reserved[d] \in Int /\ own(o)[d] \in Int /\ g[d] \in Int
    BY <1>1, OwnParts DEF Good, RealmType, Amount
  <2>2. q.reserved[d] = r.reserved[d] - g[d] /\ own(p)[d] = own(o)[d] /\ e[d] = 0 - g[d]
    BY <1>2, <1>3, <1>4 DEF Minus
  <2> QED BY <2>1, <2>2
<1>8. q.slots - counts(p) = r.slots - counts(o) + 0
  BY <1>3, <1>4 DEF counts, Good, RealmType
<1>9. Shifted(r, q, 0, e)
  BY <1>2, <1>3, <1>4, <1>5, <1>6, <1>7, <1>8, PaneShifts
<1>10. q.panes[k] = p /\ \A j \in Key \ {k} : q.panes[j] = r.panes[j]
  BY <1>1, <1>4
<1> QED
  BY <1>3, <1>4, <1>9, <1>10 DEF g, e, q

-----------------------------------------------------------------------------
(* The inductive invariant.                                                 *)

\* Where a generation is in its life: being adopted, the successor of an
\* unsettled rotation, or activated.
kind(k) == IF adoption[k] = "held" THEN "adopting"
           ELSE IF successorOf(k) # {} THEN "rotating" ELSE "settled"

\* A rotation that still knows its successor.
busy(k) == rotation[k].held \/ rotation[k].committed \/ rotation[k].failed

\* Every generation's holds are what its place in life gives it a right to.
PanesOK == \A k \in Key : PaneBooks(pane(k), kind(k), capacity[k].held, k \in geometry)

\* Whatever the realm knows was minted.
MintedOK ==
  /\ present(realm) \subseteq used /\ geometry \subseteq used
  /\ \A k \in Key : adoption[k] # "none" => k \in used
  /\ \A k \in Key : busy(k) => \E s \in used : rotation[k].successor = {s}

\* A rotation in progress owns its capacity, a capacity that was used or
\* dropped holds nothing for a successor, no two rotations share one, and a
\* failed successor is not live.
TurnsOK ==
  \A k \in Key :
    /\ rotation[k].held => /\ capacity[k].held /\ capacity[k].active /\ capacity[k].materialized
                           /\ ~rotation[k].committed /\ ~rotation[k].failed
    /\ capacity[k].active => rotation[k].held
    /\ capacity[k].materialized \/ ~capacity[k].held => capacity[k].successor = Zero
    /\ \A j \in Key : busy(k) /\ busy(j) /\ rotation[j].successor = rotation[k].successor => j = k
    /\ \A s \in Key : busy(k) /\ rotation[k].successor = {s} =>
         /\ adoption[s] = "none" /\ ~capacity[s].held
         /\ rotation[k].failed => pane(s).state # "continuous"

\* In the first incarnation the last slot goes to a rotation only.
NoRoom ==
  realm.slots >= Slots /\ restarts = 0 =>
    /\ realm.slots = Slots
    /\ \E k \in Key : capacity[k].held /\ (~capacity[k].materialized \/ rotation[k].held)

\* What the realm reserves beside what generations own, and the capacities
\* whose successor has no generation yet.
claims(d) == [k \in Key |-> capacity[k].successor[d]]
owed(d) == sumOf(claims(d), Key) + Cardinality(geometry) * Frame
waiting == {k \in Key : capacity[k].held /\ ~capacity[k].materialized}

BooksOK ==
  /\ \A d \in Dim : unpaid(realm, d) = 0 /\ extra(realm, d) = owed(d)
  /\ loose(realm) = Cardinality(waiting)

LInv == IInv /\ PanesOK /\ MintedOK /\ TurnsOK /\ NoRoom /\ BooksOK

\* The parts of the invariant.
LEMMA LInvParts ==
  ASSUME LInv
  PROVE  /\ IInv /\ Good(realm) /\ PanesOK /\ MintedOK /\ TurnsOK /\ NoRoom /\ BooksOK
         /\ realm.panes \in [Key -> PaneType] /\ realm.slots \in Nat /\ loose(realm) >= 0
         /\ \A k \in Key : PaneBooks(realm.panes[k], kind(k), capacity[k].held, k \in geometry)
<1>1. IInv /\ PanesOK /\ MintedOK /\ TurnsOK /\ NoRoom /\ BooksOK
  BY DEF LInv
<1>2. Good(realm)
  BY <1>1, IInvGood
<1>3. realm.panes \in [Key -> PaneType] /\ realm.slots \in Nat
  BY <1>2 DEF Good, RealmType
<1>4. Cardinality(waiting) \in Nat
  BY KeysFinite DEF waiting
<1>5. loose(realm) >= 0
  BY <1>1, <1>4 DEF BooksOK
<1>6. \A k \in Key : PaneBooks(realm.panes[k], kind(k), capacity[k].held, k \in geometry)
  BY <1>1 DEF PanesOK, pane
<1> QED
  BY <1>1, <1>2, <1>3, <1>5, <1>6

\* A key that is not minted names nothing yet.
LEMMA FreshKey ==
  ASSUME LInv, NEW k \in Key, k \notin used
  PROVE  /\ realm.panes[k] = Absent /\ adoption[k] = "none" /\ kind(k) = "settled"
         /\ capacity[k].held = FALSE /\ k \notin geometry
         /\ \A j \in Key : busy(j) => rotation[j].successor # {k}
<1>1. realm.panes[k].state = "absent" /\ adoption[k] = "none" /\ k \notin geometry
  BY DEF LInv, MintedOK, present
<1>2. PaneBooks(realm.panes[k], kind(k), capacity[k].held, k \in geometry)
  BY LInvParts
<1>3. realm.panes[k] = Absent
  BY <1>1, <1>2 DEF PaneBooks
<1>4. \A j \in Key : busy(j) => rotation[j].successor # {k}
  BY DEF LInv, MintedOK
<1>5. kind(k) = "settled"
  BY <1>1, <1>4 DEF kind, successorOf, busy
<1>6. capacity[k].held = FALSE
  <2>1. capacity[k].held \in BOOLEAN
    BY IInvGood, LInvParts DEF CapacityType
  <2>2. realm.panes[k].capacity = "none"
    BY <1>3 DEF Absent
  <2>3. capacity[k].held <=> realm.panes[k].capacity # "none"
    BY <1>2 DEF PaneBooks
  <2> QED BY <2>1, <2>2, <2>3
<1> QED
  BY <1>1, <1>3, <1>4, <1>5, <1>6

\* Whatever happened to the ledgers, what is owed beside them is what it was.
LEMMA BooksKept ==
  ASSUME LInv, Moved(realm, realm', 0), UNCHANGED <<capacity, geometry>>
  PROVE  BooksOK'
<1>1. \A d \in Dim : owed(d)' = owed(d)
  BY DEF owed, claims
<1>2. waiting' = waiting
  BY DEF waiting
<1>3. \A d \in Dim : unpaid(realm', d) = 0 /\ extra(realm', d) = owed(d)
  BY DEF LInv, BooksOK, Moved
<1>4. loose(realm') = Cardinality(waiting)
  BY BalanceType, LInvParts DEF LInv, BooksOK, Moved, Good
<1> QED
  BY <1>1, <1>2, <1>3, <1>4 DEF BooksOK

\* A step that only mints.
LEMMA MintedKept ==
  ASSUME LInv, UNCHANGED rotation, used \subseteq used',
         present(realm') \subseteq used', geometry' \subseteq used',
         \A j \in Key : adoption'[j] = adoption[j] \/ j \in used'
  PROVE  MintedOK'
<1>1. \A j \in Key : adoption'[j] # "none" => j \in used'
  BY DEF LInv, MintedOK
<1>2. \A j \in Key : busy(j)' => \E s \in used' : rotation'[j].successor = {s}
  BY DEF LInv, MintedOK, busy
<1> QED
  BY <1>1, <1>2 DEF MintedOK, present

\* A step that leaves rotations alone.
LEMMA TurnsKept ==
  ASSUME LInv, UNCHANGED <<rotation, capacity>>,
         \A j \in Key : adoption'[j] = adoption[j] \/ j \notin used \/ adoption[j] # "none",
         \A j \in used : realm'.panes[j].state = "continuous" => realm.panes[j].state = "continuous"
  PROVE  TurnsOK'
<1>1. \A j \in Key : busy(j)' = busy(j)
  BY DEF busy
<1>2. ASSUME NEW k \in Key, NEW s \in Key, busy(k), rotation[k].successor = {s}
      PROVE  /\ adoption'[s] = "none" /\ ~capacity[s].held
             /\ rotation[k].failed => realm'.panes[s].state # "continuous"
  <2>1. s \in used
    BY <1>2 DEF LInv, MintedOK
  <2>2. /\ adoption[s] = "none" /\ ~capacity[s].held
        /\ rotation[k].failed => realm.panes[s].state # "continuous"
    BY <1>2 DEF LInv, TurnsOK, pane
  <2> QED BY <2>1, <2>2
<1>3. \A k \in Key :
        /\ rotation[k].held => /\ capacity[k].held /\ capacity[k].active /\ capacity[k].materialized
                               /\ ~rotation[k].committed /\ ~rotation[k].failed
        /\ capacity[k].active => rotation[k].held
        /\ capacity[k].materialized \/ ~capacity[k].held => capacity[k].successor = Zero
        /\ \A j \in Key : busy(k) /\ busy(j) /\ rotation[j].successor = rotation[k].successor => j = k
  BY DEF LInv, TurnsOK
<1> QED
  BY <1>1, <1>2, <1>3 DEF TurnsOK, pane

\* A step that takes no slot, or not the last one.
LEMMA RoomKept ==
  ASSUME LInv, UNCHANGED <<rotation, capacity, restarts>>, realm'.slots \in Nat,
         realm'.slots <= realm.slots \/ realm'.slots < Slots
  PROVE  NoRoom'
<1>1. Slots \in Nat /\ realm.slots \in Nat
  BY LedgerAssumption, LInvParts
<1> QED
  BY <1>1 DEF LInv, NoRoom

\* The place in life of a generation no step of its adoption or rotation touched.
LEMMA KindKept ==
  ASSUME UNCHANGED rotation, NEW j \in Key, adoption'[j] = adoption[j]
  PROVE  kind(j)' = kind(j)
  BY DEF kind, successorOf

\* A step of the realm.
LEMMA RealmKept ==
  ASSUME LInv, IInv', UNCHANGED <<capacity, rotation, adoption, geometry, restarts>>,
         used \subseteq used', Moved(realm, realm', 0),
         realm'.slots <= realm.slots \/ realm'.slots < Slots,
         \A j \in Key : PaneBooks(realm'.panes[j], kind(j), capacity[j].held, j \in geometry),
         \A j \in Key : \/ realm'.panes[j].state \in {"absent", "untrusted", realm.panes[j].state}
                        \/ j \in used' \ used,
         \A j \in Key : \/ realm'.panes[j].state = "absent" \/ realm.panes[j].state # "absent"
                        \/ j \in used' \ used
  PROVE  LInv'
<1>1. PanesOK'
  <2> SUFFICES ASSUME NEW j \in Key
               PROVE  PaneBooks(realm'.panes[j], kind(j)', capacity'[j].held, j \in geometry')
    BY DEF PanesOK, pane
  <2>1. kind(j)' = kind(j)
    BY KindKept
  <2> QED BY <2>1
<1>2. MintedOK'
  <2>1. present(realm') \subseteq used'
    BY DEF LInv, MintedOK, present
  <2>2. geometry' \subseteq used'
    BY DEF LInv, MintedOK
  <2> QED BY <2>1, <2>2, MintedKept
<1>3. TurnsOK'
  <2>1. \A j \in used : realm'.panes[j].state = "continuous" => realm.panes[j].state = "continuous"
    BY IInvGood, LInvParts
  <2>2. \A j \in Key : adoption'[j] = adoption[j] \/ j \notin used \/ adoption[j] # "none"
    OBVIOUS
  <2> QED BY <2>1, <2>2, TurnsKept
<1>4. NoRoom'
  <2>1. realm'.slots \in Nat
    BY DEF Moved, Good, RealmType
  <2> QED BY <2>1, RoomKept
<1>5. BooksOK'
  BY BooksKept
<1> QED
  BY <1>1, <1>2, <1>3, <1>4, <1>5 DEF LInv

\* A step of one generation.
LEMMA OneKept ==
  ASSUME LInv, IInv', UNCHANGED <<capacity, rotation, adoption, geometry, used, restarts>>,
         NEW k \in Key, Only(realm, realm', k, 0), realm'.slots <= realm.slots,
         PaneBooks(realm'.panes[k], kind(k), capacity[k].held, k \in geometry),
         realm'.panes[k].state \in {"absent", "untrusted", realm.panes[k].state},
         realm'.panes[k].state = "absent" \/ realm.panes[k].state # "absent"
  PROVE  LInv'
<1>1. Moved(realm, realm', 0) /\ \A j \in Key \ {k} : realm'.panes[j] = realm.panes[j]
  BY DEF Only
<1>2. \A j \in Key : PaneBooks(realm'.panes[j], kind(j), capacity[j].held, j \in geometry)
  <2> SUFFICES ASSUME NEW j \in Key
               PROVE  PaneBooks(realm'.panes[j], kind(j), capacity[j].held, j \in geometry)
    OBVIOUS
  <2>1. CASE j = k
    BY <2>1
  <2>2. CASE j # k
    BY <1>1, <2>2, LInvParts
  <2> QED BY <2>1, <2>2
<1>3. \A j \in Key : realm'.panes[j].state \in {"absent", "untrusted", realm.panes[j].state}
  BY <1>1
<1>4. \A j \in Key : realm'.panes[j].state = "absent" \/ realm.panes[j].state # "absent"
  BY <1>1
<1> QED
  BY <1>1, <1>2, <1>3, <1>4, RealmKept

-----------------------------------------------------------------------------
(* Admission and retirement.                                                *)

\* What createPaneWithHeader makes is in order for a key just minted.
LEMMA FreshBooksAt ==
  ASSUME LInv, NEW k \in Key, k \notin used
  PROVE  PaneBooks(FreshPane, kind(k), capacity[k].held, k \in geometry)
<1>0. kind(k) = "settled" /\ capacity[k].held = FALSE /\ k \notin geometry
  BY FreshKey
<1>1. (k \in geometry) = FALSE
  BY <1>0
<1>2. PaneBooks(FreshPane, "settled", FALSE, FALSE)
  BY FreshBooks
<1> QED
  BY <1>0, <1>1, <1>2

\* A new generation takes a slot with its header.
LEMMA TakenAndMade ==
  ASSUME NEW r, Good(r), NEW k \in Key, r.panes[k] = Absent, Good(materialize(r, k))
  PROVE  LET q == takeSlot(materialize(r, k))
         IN /\ Only(r, q, k, 0) /\ q.panes[k] = FreshPane /\ q.slots = r.slots + 1
<1> DEFINE m == materialize(r, k)
           q == takeSlot(m)
<1>1. Only(r, m, k, -1) /\ m.panes[k] = FreshPane /\ m.slots = r.slots /\ Good(m)
  BY MaterializeMoves
<1> HIDE DEF m
<1>2. Moved(m, q, 1) /\ q.panes = m.panes /\ q.slots = m.slots + 1
  BY <1>1, SlotMoves
<1> HIDE DEF q
<1>3. Moved(r, m, -1)
  BY <1>1 DEF Only
<1>4. Moved(r, q, 0)
  BY <1>2, <1>3, MovedTwice
<1> QED
  BY <1>1, <1>2, <1>4 DEF Only, q, m

\* AdmitPane keeps the books.
LEMMA AdmitPaneKeeps ==
  ASSUME LInv, NEW k \in Key, AdmitPane(k)
  PROVE  LInv'
<1>1. k \notin used /\ room(realm, Absent, headerCost) /\ used' = used \cup {k}
  BY DEF AdmitPane, fresh
<1>2. /\ realm.panes[k] = Absent /\ Good(realm)
      /\ PaneBooks(FreshPane, kind(k), capacity[k].held, k \in geometry)
      /\ \A j \in Key : PaneBooks(realm.panes[j], kind(j), capacity[j].held, j \in geometry)
  BY <1>1, FreshKey, FreshBooksAt, LInvParts
<1>3. Good(materialize(realm, k)) /\ Good(orphanHeader(realm))
  BY <1>1, <1>2, MaterializeGood
<1>4. IInv'
  BY AdmitPaneStep, LInvParts
<1>5. realm.slots \in Nat /\ Slots \in Nat /\ realm.slots < Slots - 1
  BY LInvParts, LedgerAssumption DEF AdmitPane, mayReserveSlot
<1>6. UNCHANGED <<capacity, rotation, adoption, geometry, restarts>> /\ used \subseteq used'
      /\ k \in used' \ used
  BY <1>1 DEF AdmitPane
<1>7. CASE realm' = takeSlot(materialize(realm, k))
  <2>1. Only(realm, realm', k, 0) /\ realm'.panes[k] = FreshPane /\ realm'.slots = realm.slots + 1
    BY <1>2, <1>3, <1>7, TakenAndMade
  <2>2. Moved(realm, realm', 0) /\ \A j \in Key \ {k} : realm'.panes[j] = realm.panes[j]
    BY <2>1 DEF Only
  <2>3. realm'.slots < Slots
    BY <1>5, <2>1
  <2>4. \A j \in Key : PaneBooks(realm'.panes[j], kind(j), capacity[j].held, j \in geometry)
    <3> SUFFICES ASSUME NEW j \in Key
                 PROVE  PaneBooks(realm'.panes[j], kind(j), capacity[j].held, j \in geometry)
      OBVIOUS
    <3>1. CASE j = k
      BY <1>2, <2>1, <3>1
    <3>2. CASE j # k
      BY <1>2, <2>2, <3>2
    <3> QED BY <3>1, <3>2
  <2>5. \A j \in Key : \/ realm'.panes[j].state \in {"absent", "untrusted", realm.panes[j].state}
                       \/ j \in used' \ used
    BY <1>6, <2>2
  <2>6. \A j \in Key : \/ realm'.panes[j].state = "absent" \/ realm.panes[j].state # "absent"
                       \/ j \in used' \ used
    BY <1>6, <2>2
  <2> QED
    BY <1>4, <1>6, <2>2, <2>3, <2>4, <2>5, <2>6, RealmKept
<1>8. CASE realm' = orphanHeader(realm)
  <2>1. Moved(realm, realm', 0) /\ realm'.panes = realm.panes /\ realm'.slots <= realm.slots
    BY <1>2, <1>3, <1>5, <1>8, OrphanMoves
  <2>4. \A j \in Key : PaneBooks(realm'.panes[j], kind(j), capacity[j].held, j \in geometry)
    BY <1>2, <2>1
  <2>5. \A j \in Key : /\ realm'.panes[j].state \in {"absent", "untrusted", realm.panes[j].state}
                       /\ realm'.panes[j].state = "absent" \/ realm.panes[j].state # "absent"
    BY <2>1
  <2> QED
    BY <1>4, <1>6, <2>1, <2>4, <2>5, RealmKept
<1> QED
  BY <1>7, <1>8 DEF AdmitPane

\* A generation that is not provisional is settled.
LEMMA Activated ==
  ASSUME NEW k \in Key, ~provisional(k)
  PROVE  kind(k) = "settled"
  BY DEF provisional, kind

\* Retirement, with or without its unlink, moves nothing but the slot.
LEMMA RetirementMoves ==
  ASSUME NEW r, Good(r), loose(r) >= 0, NEW k \in Key, r.panes[k].state # "absent",
         NEW geo, PaneBooks(r.panes[k], "settled", FALSE, geo), NEW q,
         \/ q = retireSlot(invalidate(r, k), k)
         \/ q = forget(refund(retireSlot(invalidate(r, k), k), k), k)
  PROVE  /\ Only(r, q, k, 0) /\ PaneBooks(q.panes[k], "settled", FALSE, geo)
         /\ q.slots <= r.slots /\ q.panes[k].state \in {"absent", "untrusted"}
         /\ q.panes[k].slotRetired
<1> DEFINE i == invalidate(r, k)
           t == retireSlot(i, k)
           f == forget(refund(t, k), k)
<1>1. /\ Only(r, i, k, 0) /\ PaneBooks(i.panes[k], "settled", FALSE, geo) /\ i.slots = r.slots
      /\ i.panes[k].state = "untrusted"
  BY InvalidateMoves
<1>2. Good(i) /\ Good(t)
  BY InvalidateGood, RetireSlotGood
<1>3. (q = t \/ q = f) /\ r.slots \in Nat
  BY DEF Good, RealmType
<1> HIDE DEF i
<1>4. loose(i) >= 0
  <2>1. loose(r) \in Int
    BY BalanceType DEF Good
  <2>2. loose(i) = loose(r) + 0
    BY <1>1 DEF Only, Moved
  <2> QED BY <2>1, <2>2
<1>5. /\ Only(i, t, k, 0) /\ PaneBooks(t.panes[k], "settled", FALSE, geo)
      /\ t.panes[k].state = i.panes[k].state /\ t.panes[k].slotRetired
      /\ t.slots = IF i.panes[k].slotRetired THEN i.slots ELSE i.slots - 1
  BY <1>1, <1>2, <1>4, RetireSlotMoves
<1> HIDE DEF t
<1>6. Only(r, t, k, 0) /\ t.slots <= r.slots
  BY <1>1, <1>3, <1>5, OnlyTwice
<1>7. CASE q = t
  BY <1>1, <1>5, <1>6, <1>7
<1>8. CASE q = f
  <2>1. /\ Only(t, f, k, 0) /\ f.panes[k] = Absent
        /\ PaneBooks(f.panes[k], "settled", FALSE, geo) /\ f.slots = t.slots
    BY <1>1, <1>2, <1>5, RefundForgetMoves
  <2> HIDE DEF f
  <2>2. Only(r, f, k, 0)
    BY <1>6, <2>1, OnlyTwice
  <2>3. Absent.state = "absent" /\ Absent.slotRetired
    BY AbsentBooks
  <2> QED
    BY <1>6, <1>8, <2>1, <2>2, <2>3
<1> QED
  BY <1>3, <1>7, <1>8

\* Whether a generation has a capacity is one or the other.
LEMMA CapacityHeld ==
  ASSUME LInv, NEW k \in Key
  PROVE  /\ capacity[k].held \in BOOLEAN
         /\ pane(k).capacity = "none" => capacity[k].held = FALSE
<1>1. capacity[k].held \in BOOLEAN
  BY IInvGood, LInvParts DEF CapacityType
<1>2. PaneBooks(realm.panes[k], kind(k), capacity[k].held, k \in geometry)
  BY LInvParts
<1> QED
  BY <1>1, <1>2 DEF PaneBooks, pane

\* RetirePane keeps the books.
LEMMA RetirePaneKeeps ==
  ASSUME LInv, NEW k \in Key, RetirePane(k)
  PROVE  LInv'
<1>1. /\ IInv' /\ kind(k) = "settled" /\ realm.panes[k].state # "absent" /\ Good(realm)
      /\ UNCHANGED <<capacity, rotation, adoption, geometry, used, restarts>>
      /\ loose(realm) >= 0 /\ realm.slots \in Nat
  BY LInvParts, RetirementStep, Activated DEF RetirePane, present, pane
<1>2. PaneBooks(realm.panes[k], "settled", capacity[k].held, k \in geometry)
  BY <1>1, LInvParts
<1>3. CASE pane(k).held # Zero \/ pane(k).capacity # "none"
  <2>1. realm' = invalidate(realm, k)
    BY <1>3 DEF RetirePane
  <2>2. /\ Only(realm, realm', k, 0)
        /\ PaneBooks(realm'.panes[k], "settled", capacity[k].held, k \in geometry)
        /\ realm'.slots = realm.slots /\ realm'.panes[k].state = "untrusted"
    BY <1>1, <1>2, <2>1, InvalidateMoves
  <2> QED
    BY <1>1, <2>2, OneKept
<1>4. CASE ~(pane(k).held # Zero \/ pane(k).capacity # "none")
  <2>1. capacity[k].held = FALSE
    BY <1>4, CapacityHeld
  <2>2. PaneBooks(realm.panes[k], "settled", FALSE, k \in geometry)
    BY <1>2, <2>1
  <2>3. \/ realm' = retireSlot(invalidate(realm, k), k)
        \/ realm' = forget(refund(retireSlot(invalidate(realm, k), k), k), k)
    BY <1>4 DEF RetirePane
  <2>4. /\ Only(realm, realm', k, 0) /\ PaneBooks(realm'.panes[k], "settled", FALSE, k \in geometry)
        /\ realm'.slots <= realm.slots /\ realm'.panes[k].state \in {"absent", "untrusted"}
    BY <1>1, <2>2, <2>3, RetirementMoves
  <2>5. PaneBooks(realm'.panes[k], kind(k), capacity[k].held, k \in geometry)
    BY <1>1, <2>1, <2>4
  <2> QED
    BY <1>1, <2>4, <2>5, OneKept
<1> QED
  BY <1>3, <1>4

-----------------------------------------------------------------------------
(* Reclaiming, invalidating and appending.                                  *)

\* A mark keeps the books.
LEMMA MarkKeeps ==
  ASSUME LInv, NEW k \in Key, SettleFailedOwner(k) \/ AttributeRecovered(k)
  PROVE  LInv'
<1>1. /\ IInv' /\ Good(realm) /\ realm.panes[k].state # "absent"
      /\ UNCHANGED <<capacity, rotation, adoption, geometry, used, restarts>>
      /\ PaneBooks(realm.panes[k], kind(k), capacity[k].held, k \in geometry)
  BY LInvParts, RetirementStep DEF SettleFailedOwner, AttributeRecovered, pane
<1>2. PICK m \in {"settled", "attributed"} :
        realm' = [realm EXCEPT !.panes[k] = marked(@, m)] /\ (m = "settled" => kind(k) = "settled")
  BY Activated DEF SettleFailedOwner, AttributeRecovered
<1> DEFINE q == [realm EXCEPT !.panes[k] = marked(@, m)]
<1>3. /\ Only(realm, q, k, 0) /\ PaneBooks(q.panes[k], kind(k), capacity[k].held, k \in geometry)
      /\ q.slots = realm.slots /\ q.panes[k].state = realm.panes[k].state
  BY <1>1, <1>2, MarkedMoves
<1>4. q = realm'
  BY <1>2
<1> HIDE DEF q
<1>5. /\ Only(realm, realm', k, 0)
      /\ PaneBooks(realm'.panes[k], kind(k), capacity[k].held, k \in geometry)
      /\ realm'.slots <= realm.slots /\ realm'.panes[k].state = realm.panes[k].state
  BY <1>3, <1>4, LInvParts
<1> QED
  BY <1>1, <1>5, OneKept

\* ReclaimRetired keeps the books.
LEMMA ReclaimRetiredKeeps ==
  ASSUME LInv, NEW k \in Key, ReclaimRetired(k)
  PROVE  LInv'
<1>1. /\ IInv' /\ Good(realm) /\ realm' = forget(realm, k)
      /\ UNCHANGED <<capacity, rotation, adoption, geometry, used, restarts>>
      /\ PaneBooks(realm.panes[k], kind(k), capacity[k].held, k \in geometry)
      /\ realm.panes[k].slotRetired /\ realm.panes[k].charge = Zero
  BY LInvParts, RetirementStep DEF ReclaimRetired, pane
<1>2. kind(k) = "settled" /\ capacity[k].held = FALSE
  <2>1. kind(k) = "settled" /\ realm.panes[k].capacity = "none"
    BY <1>1 DEF PaneBooks
  <2> QED
    BY <2>1, CapacityHeld DEF pane
<1>3. PaneBooks(realm.panes[k], "settled", FALSE, k \in geometry)
  BY <1>1, <1>2
<1>4. /\ Only(realm, realm', k, counts(realm.panes[k])) /\ realm'.panes[k] = Absent
      /\ PaneBooks(realm'.panes[k], "settled", FALSE, k \in geometry)
      /\ realm'.slots = realm.slots
  BY <1>1, <1>3, ForgetMoves
<1>5. counts(realm.panes[k]) = 0 /\ Absent.state = "absent" /\ realm'.slots <= realm.slots
  BY <1>1, <1>4, AbsentBooks, LInvParts DEF counts
<1>6. Only(realm, realm', k, 0) /\ realm'.panes[k].state = "absent"
  BY <1>4, <1>5
<1>7. PaneBooks(realm'.panes[k], kind(k), capacity[k].held, k \in geometry)
  BY <1>2, <1>4
<1> QED
  BY <1>1, <1>5, <1>6, <1>7, OneKept

\* ReconcileRecovered keeps the books.
LEMMA ReconcileRecoveredKeeps ==
  ASSUME LInv, NEW k \in Key, ReconcileRecovered(k)
  PROVE  LInv'
<1>1. /\ IInv' /\ Good(realm) /\ realm.panes[k].state = "legacy" /\ loose(realm) >= 0
      /\ UNCHANGED <<capacity, rotation, adoption, geometry, used, restarts>>
      /\ PaneBooks(realm.panes[k], kind(k), capacity[k].held, k \in geometry)
  BY LInvParts, RetirementStep DEF ReconcileRecovered, pane
<1>2. kind(k) = "settled" /\ capacity[k].held = FALSE
  <2>1. kind(k) = "settled" /\ realm.panes[k].capacity = "none"
    BY <1>1 DEF PaneBooks
  <2> QED
    BY <2>1, CapacityHeld DEF pane
<1>3. PaneBooks(realm.panes[k], "settled", FALSE, k \in geometry) /\ realm.panes[k].state # "absent"
  BY <1>1, <1>2
<1>4. \/ realm' = retireSlot(invalidate(realm, k), k)
      \/ realm' = forget(refund(retireSlot(invalidate(realm, k), k), k), k)
  BY DEF ReconcileRecovered
<1>5. /\ Only(realm, realm', k, 0) /\ PaneBooks(realm'.panes[k], "settled", FALSE, k \in geometry)
      /\ realm'.slots <= realm.slots /\ realm'.panes[k].state \in {"absent", "untrusted"}
  BY <1>1, <1>3, <1>4, RetirementMoves
<1>6. PaneBooks(realm'.panes[k], kind(k), capacity[k].held, k \in geometry)
  BY <1>2, <1>5
<1> QED
  BY <1>1, <1>5, <1>6, OneKept

\* A live generation that is invalidated keeps its books.
LEMMA InvalidateKeeps ==
  ASSUME LInv, IInv', NEW k \in Key, realm.panes[k].state # "absent", realm' = invalidate(realm, k),
         UNCHANGED <<capacity, rotation, adoption, geometry, used, restarts>>
  PROVE  LInv'
<1>1. /\ Good(realm) /\ PaneBooks(realm.panes[k], kind(k), capacity[k].held, k \in geometry)
      /\ realm.slots \in Nat
  BY LInvParts
<1>2. /\ Only(realm, realm', k, 0)
      /\ PaneBooks(realm'.panes[k], kind(k), capacity[k].held, k \in geometry)
      /\ realm'.slots = realm.slots /\ realm'.panes[k].state = "untrusted"
  BY <1>1, InvalidateMoves
<1>3. realm'.slots <= realm.slots
  BY <1>1, <1>2
<1> QED
  BY <1>2, <1>3, OneKept

\* CommitFails keeps the books.
LEMMA CommitFailsKeeps ==
  ASSUME LInv, NEW k \in Key, CommitFails(k)
  PROVE  LInv'
<1>1. /\ IInv' /\ realm.panes[k].state # "absent" /\ realm' = invalidate(realm, k)
      /\ UNCHANGED <<capacity, rotation, adoption, geometry, used, restarts>>
  BY LInvParts, RetirementStep DEF CommitFails, live, pane
<1> QED
  BY <1>1, InvalidateKeeps

\* ArmRollback keeps the books.
LEMMA ArmRollbackKeeps ==
  ASSUME LInv, NEW k \in Key, ArmRollback(k)
  PROVE  LInv'
<1>1. /\ IInv' /\ Good(realm) /\ realm.slots \in Nat /\ realm' = armRollback(realm, k)
      /\ UNCHANGED <<capacity, rotation, adoption, geometry, used, restarts>>
      /\ PaneBooks(realm.panes[k], kind(k), capacity[k].held, k \in geometry)
  BY LInvParts, ArmRollbackStep DEF ArmRollback
<1>2. /\ Only(realm, realm', k, 0)
      /\ PaneBooks(realm'.panes[k], kind(k), capacity[k].held, k \in geometry)
      /\ realm'.slots = realm.slots /\ realm'.panes[k].state = realm.panes[k].state
  BY <1>1, ArmMoves
<1>3. realm'.slots <= realm.slots
  BY <1>1, <1>2
<1> QED
  BY <1>1, <1>2, <1>3, OneKept

\* AppendGeometry keeps the books.
LEMMA AppendGeometryKeeps ==
  ASSUME LInv, NEW k \in Key, AppendGeometry(k)
  PROVE  LInv'
<1> DEFINE g == geometryRecordCost
<1>1. /\ IInv' /\ Good(realm) /\ realm.slots \in Nat /\ realm.panes[k].state = "continuous"
      /\ UNCHANGED <<capacity, rotation, adoption, geometry, used, restarts>>
      /\ PaneBooks(realm.panes[k], kind(k), capacity[k].held, k \in geometry)
      /\ g \in [Dim -> Nat]
  BY LInvParts, AppendGeometryStep, CostAmounts DEF AppendGeometry, live, pane
<1>2. IF room(realm, realm.panes[k], g)
      THEN realm' \in {spend(realm, k, g), spendTorn(realm, k, g)}
      ELSE realm' = invalidate(realm, k)
  BY DEF AppendGeometry, pane
<1> HIDE DEF g
<1>3. CASE room(realm, realm.panes[k], g)
  <2>1. Good(spend(realm, k, g)) /\ Good(spendTorn(realm, k, g))
        /\ Good(spend(realm, k, Bytes(0, g["physical"])))
    BY <1>1, <1>3, AppendGood
  <2>2. realm' \in {spend(realm, k, g), spendTorn(realm, k, g)} /\ realm.panes[k].state # "absent"
    BY <1>1, <1>2, <1>3
  <2>3. /\ Only(realm, realm', k, 0)
        /\ PaneBooks(realm'.panes[k], kind(k), capacity[k].held, k \in geometry)
        /\ realm'.slots = realm.slots
        /\ realm'.panes[k].state \in {realm.panes[k].state, "untrusted"}
    BY <1>1, <2>1, <2>2, AppendMoves
  <2>4. realm'.slots <= realm.slots
    BY <1>1, <2>3
  <2> QED
    BY <1>1, <2>2, <2>3, <2>4, OneKept
<1>4. CASE ~room(realm, realm.panes[k], g)
  <2>1. realm' = invalidate(realm, k) /\ realm.panes[k].state # "absent"
    BY <1>1, <1>2, <1>4
  <2> QED
    BY <1>1, <2>1, InvalidateKeeps
<1> QED
  BY <1>3, <1>4

\* AppendOutput keeps the books: what a hold pays stops being held.
LEMMA AppendOutputKeeps ==
  ASSUME LInv, NEW k \in Key, NEW n \in PayloadSizes, AppendOutput(k, n)
  PROVE  LInv'
<1> DEFINE c == physicalAppendCost(n)
           p == realm.panes[k]
           a == drawn(p, c)
           r == draw(realm, k, a)
<1>1. /\ IInv' /\ Good(realm) /\ realm.slots \in Nat /\ p.state = "continuous" /\ p.state # "absent"
      /\ UNCHANGED <<capacity, rotation, adoption, geometry, used, restarts>>
      /\ PaneBooks(p, kind(k), capacity[k].held, k \in geometry)
      /\ c \in [Dim -> Nat] /\ p \in PaneType
  BY LInvParts, AppendOutputStep, CostAmounts, GoodParts DEF AppendOutput, live, pane
<1>2. IF room(realm, p, Minus(c, a))
      THEN realm' \in {spend(r, k, c), spendTorn(r, k, c)}
      ELSE realm' = invalidate(realm, k)
  BY DEF AppendOutput, pane
<1>3. CASE room(realm, p, Minus(c, a))
  <2>1. a \in [Dim -> Nat] /\ \A d \in Dim : a[d] <= c[d] /\ a[d] <= holdAmount(p, holdOf(p))[d]
    BY <1>1, DrawnBounded
  <2>2. holdOf(p) \in {"forward", "rollback"} => a["physical"] <= a["logical"] + Frame
    BY <1>1, DrawnFraming
  <2> HIDE DEF a, c
  <2>3. /\ Good(spend(r, k, c)) /\ Good(spendTorn(r, k, c))
        /\ Good(spend(r, k, Bytes(0, c["physical"])))
    BY <1>1, <1>3, <2>1, PaidAppendGood
  <2>4. /\ Only(realm, r, k, 0)
        /\ PaneBooks(r.panes[k], kind(k), capacity[k].held, k \in geometry)
        /\ r.slots = realm.slots /\ r.panes[k].state = realm.panes[k].state
    BY <1>1, <2>1, <2>2, DrawMoves
  <2>5. Good(r) /\ r.panes[k].state # "absent" /\ realm' \in {spend(r, k, c), spendTorn(r, k, c)}
    BY <1>1, <1>2, <1>3, <2>4 DEF Only, Moved
  <2> HIDE DEF r
  <2>6. /\ Only(r, realm', k, 0)
        /\ PaneBooks(realm'.panes[k], kind(k), capacity[k].held, k \in geometry)
        /\ realm'.slots = r.slots
        /\ realm'.panes[k].state \in {r.panes[k].state, "untrusted"}
    BY <1>1, <2>3, <2>4, <2>5, AppendMoves
  <2>7. Only(realm, realm', k, 0)
    BY <1>1, <2>4, <2>6, OnlyTwice
  <2>8. realm'.slots <= realm.slots /\ realm'.panes[k].state \in {realm.panes[k].state, "untrusted"}
        /\ realm.panes[k].state # "absent"
    BY <1>1, <2>4, <2>6
  <2> QED
    BY <1>1, <2>6, <2>7, <2>8, OneKept
<1>4. CASE ~room(realm, p, Minus(c, a))
  <2>1. realm' = invalidate(realm, k) /\ realm.panes[k].state # "absent"
    BY <1>1, <1>2, <1>4
  <2> QED
    BY <1>1, <2>1, InvalidateKeeps
<1> QED
  BY <1>3, <1>4

-----------------------------------------------------------------------------
(* Settling an adoption.                                                    *)

\* The books of every generation, as they are after the step, kept by realm q.
NextBooks(q) ==
  \A j \in Key : PaneBooks(q.panes[j], kind(j)', capacity'[j].held, j \in geometry')

\* The generations a step does not touch keep their books.
LEMMA OthersBooks ==
  ASSUME LInv, NEW q, NEW T,
         \A j \in Key \ T : /\ q.panes[j] = realm.panes[j] /\ kind(j)' = kind(j)
                            /\ capacity'[j].held = capacity[j].held
                            /\ (j \in geometry') = (j \in geometry),
         \A j \in Key : j \in T => PaneBooks(q.panes[j], kind(j)', capacity'[j].held, j \in geometry')
  PROVE  NextBooks(q)
<1> SUFFICES ASSUME NEW j \in Key
             PROVE  PaneBooks(q.panes[j], kind(j)', capacity'[j].held, j \in geometry')
  BY DEF NextBooks
<1>1. CASE j \in T
  BY <1>1
<1>2. CASE j \notin T
  BY <1>2, LInvParts
<1> QED
  BY <1>1, <1>2

\* A sweep keeps the books of those it leaves and clears the others'.
LEMMA SweepBooks ==
  ASSUME NEW r, Good(r), NextBooks(r), IInv', NEW gone \in SUBSET Key,
         \A s \in gone : r.panes[s].slotRetired
  PROVE  LET q == sweep(r, gone)
         IN /\ Moved(r, q, 0) /\ NextBooks(q) /\ q.slots = r.slots
            /\ \A j \in Key : q.panes[j] = r.panes[j] \/ q.panes[j] = Absent
            /\ \A j \in Key \ gone : q.panes[j] = r.panes[j]
<1> DEFINE q == sweep(r, gone)
<1>1. \A s \in gone : kind(s)' = "settled" /\ capacity'[s].held = FALSE
  <2> SUFFICES ASSUME NEW s \in gone
               PROVE  kind(s)' = "settled" /\ capacity'[s].held = FALSE
    OBVIOUS
  <2>1. PaneBooks(r.panes[s], kind(s)', capacity'[s].held, s \in geometry') /\ r.panes[s].slotRetired
    BY DEF NextBooks
  <2>2. kind(s)' = "settled" /\ ~capacity'[s].held
    BY <2>1 DEF PaneBooks
  <2>3. capacity'[s].held \in BOOLEAN
    BY DEF IInv, TypeOK, CapacityType
  <2> QED
    BY <2>2, <2>3
<1>2. \A s \in gone : r.panes[s].slotRetired /\ PaneBooks(r.panes[s], "settled", FALSE, s \in geometry')
  BY <1>1 DEF NextBooks
<1>3. /\ Moved(r, q, 0) /\ q.slots = r.slots
      /\ \A j \in Key \ gone : q.panes[j] = r.panes[j]
      /\ \A j \in gone : q.panes[j] = Absent
  BY <1>2, SweepMoves
<1> HIDE DEF q
<1>4. NextBooks(q)
  <2> SUFFICES ASSUME NEW j \in Key
               PROVE  PaneBooks(q.panes[j], kind(j)', capacity'[j].held, j \in geometry')
    BY DEF NextBooks
  <2>1. CASE j \in gone
    <3>1. PaneBooks(Absent, "settled", FALSE, j \in geometry')
      BY AbsentBooks
    <3> QED BY <1>1, <1>3, <2>1, <3>1
  <2>2. CASE j \notin gone
    BY <1>3, <2>2 DEF NextBooks
  <2> QED BY <2>1, <2>2
<1> QED
  BY <1>3, <1>4 DEF q

\* A step of the realm and of one adoption.
LEMMA StepKept ==
  ASSUME LInv, IInv', UNCHANGED <<capacity, rotation, geometry, restarts>>,
         used \subseteq used', Moved(realm, realm', 0), NextBooks(realm'),
         realm'.slots <= realm.slots \/ realm'.slots < Slots,
         \A j \in Key : \/ realm'.panes[j].state \in {"absent", "untrusted", realm.panes[j].state}
                        \/ j \in used' \ used,
         \A j \in Key : \/ realm'.panes[j].state = "absent" \/ realm.panes[j].state # "absent"
                        \/ j \in used' \ used,
         \A j \in Key : \/ adoption'[j] = adoption[j] \/ j \in used' \ used
                        \/ adoption[j] # "none"
  PROVE  LInv'
<1>1. PanesOK'
  BY DEF PanesOK, pane, NextBooks
<1>2. MintedOK'
  <2>1. present(realm') \subseteq used'
    BY DEF LInv, MintedOK, present
  <2>2. geometry' \subseteq used'
    BY DEF LInv, MintedOK
  <2>3. \A j \in Key : adoption'[j] = adoption[j] \/ j \in used'
    BY DEF LInv, MintedOK
  <2> QED BY <2>1, <2>2, <2>3, MintedKept
<1>3. TurnsOK'
  <2>1. \A j \in used : realm'.panes[j].state = "continuous" => realm.panes[j].state = "continuous"
    BY IInvGood, LInvParts
  <2>2. \A j \in Key : adoption'[j] = adoption[j] \/ j \notin used \/ adoption[j] # "none"
    OBVIOUS
  <2> QED BY <2>1, <2>2, TurnsKept
<1>4. NoRoom'
  <2>1. realm'.slots \in Nat
    BY DEF Moved, Good, RealmType
  <2> QED BY <2>1, RoomKept
<1>5. BooksOK'
  BY BooksKept
<1> QED
  BY <1>1, <1>2, <1>3, <1>4, <1>5 DEF LInv

\* A generation being adopted is present and has its slot.
LEMMA Adopting ==
  ASSUME LInv, NEW k \in Key, adoption[k] = "held"
  PROVE  /\ kind(k) = "adopting" /\ capacity[k].held = FALSE /\ successorOf(k) = {}
         /\ ~realm.panes[k].slotRetired /\ realm.panes[k].state # "absent"
         /\ PaneBooks(realm.panes[k], "adopting", FALSE, k \in geometry)
<1>1. kind(k) = "adopting"
  BY DEF kind
<1>2. PaneBooks(realm.panes[k], "adopting", capacity[k].held, k \in geometry)
  BY <1>1, LInvParts
<1>3. ~realm.panes[k].slotRetired /\ realm.panes[k].capacity = "none"
  BY <1>2 DEF PaneBooks
<1>4. realm.panes[k].state # "absent"
  BY <1>2, <1>3, AbsentBooks DEF PaneBooks
<1>5. capacity[k].held = FALSE
  BY <1>3, CapacityHeld DEF pane
<1>6. successorOf(k) = {}
  BY DEF LInv, TurnsOK, successorOf, busy
<1> QED
  BY <1>1, <1>2, <1>3, <1>4, <1>5, <1>6

\* An adoption that ends settles its generation and no other.
LEMMA AdoptionSettles ==
  ASSUME LInv, NEW k \in Key, adoption[k] = "held", UNCHANGED rotation,
         adoption' = [adoption EXCEPT ![k] = "settled"]
  PROVE  /\ kind(k)' = "settled" /\ \A j \in Key \ {k} : kind(j)' = kind(j)
         /\ \A j \in Key : adoption'[j] = adoption[j] \/ adoption[j] # "none"
<1>1. adoption'[k] = "settled" /\ \A j \in Key \ {k} : adoption'[j] = adoption[j]
  BY LInvParts, IInvGood
<1>2. successorOf(k)' = {}
  BY Adopting DEF successorOf
<1>3. kind(k)' = "settled"
  BY <1>1, <1>2 DEF kind
<1> QED
  BY <1>1, <1>3, KindKept

\* AdoptionCommit keeps the books.
LEMMA AdoptionCommitKeeps ==
  ASSUME LInv, NEW k \in Key, AdoptionCommit(k)
  PROVE  LInv'
<1> DEFINE r == releaseAllowance(realm, k)
<1>1. /\ IInv' /\ Good(realm) /\ realm.slots \in Nat /\ adoption[k] = "held"
      /\ adoption' = [adoption EXCEPT ![k] = "settled"]
      /\ UNCHANGED <<capacity, rotation, geometry, used, restarts>>
  BY LInvParts, AdoptionCommitStep DEF AdoptionCommit
<1>2. PICK gone \in SUBSET stale(r, k) : realm' = sweep(r, gone)
  BY DEF AdoptionCommit
<1>3. gone \in SUBSET Key /\ \A s \in gone : r.panes[s].slotRetired
  BY DEF stale, present
<1>4. /\ capacity[k].held = FALSE /\ PaneBooks(realm.panes[k], "adopting", FALSE, k \in geometry)
      /\ realm.panes[k].state # "absent"
  BY <1>1, Adopting
<1>5. /\ Only(realm, r, k, 0) /\ PaneBooks(r.panes[k], "settled", FALSE, k \in geometry)
      /\ r.slots = realm.slots /\ r.panes[k].state = realm.panes[k].state
  BY <1>1, <1>4, AllowanceMoves
<1> HIDE DEF r
<1>6. /\ kind(k)' = "settled" /\ \A j \in Key \ {k} : kind(j)' = kind(j)
      /\ \A j \in Key : adoption'[j] = adoption[j] \/ adoption[j] # "none"
  BY <1>1, AdoptionSettles
<1>7. Moved(realm, r, 0) /\ Good(r) /\ \A j \in Key \ {k} : r.panes[j] = realm.panes[j]
  BY <1>5 DEF Only, Moved
<1>8. NextBooks(r)
  <2>1. PaneBooks(r.panes[k], kind(k)', capacity'[k].held, k \in geometry')
    BY <1>1, <1>4, <1>5, <1>6
  <2>2. \A j \in Key \ {k} : /\ r.panes[j] = realm.panes[j] /\ kind(j)' = kind(j)
                             /\ capacity'[j].held = capacity[j].held
                             /\ (j \in geometry') = (j \in geometry)
    BY <1>1, <1>6, <1>7
  <2>3. \A j \in Key : j \in {k} => PaneBooks(r.panes[j], kind(j)', capacity'[j].held, j \in geometry')
    BY <2>1
  <2> QED
    BY <2>2, <2>3, OthersBooks
<1>9. /\ Moved(r, realm', 0) /\ NextBooks(realm') /\ realm'.slots = r.slots
      /\ \A j \in Key : realm'.panes[j] = r.panes[j] \/ realm'.panes[j] = Absent
  BY <1>1, <1>2, <1>3, <1>7, <1>8, SweepBooks
<1>10. Moved(realm, realm', 0)
  BY <1>1, <1>7, <1>9, MovedTwice
<1>11. /\ \A j \in Key : r.panes[j].state = realm.panes[j].state
       /\ \A j \in Key : realm'.panes[j].state \in {"absent", realm.panes[j].state}
       /\ realm'.slots <= realm.slots
  BY <1>1, <1>5, <1>7, <1>9, AbsentBooks
<1>12. \A j \in Key : realm'.panes[j].state = "absent" \/ realm.panes[j].state # "absent"
  BY <1>11
<1> QED
  BY <1>1, <1>6, <1>9, <1>10, <1>11, <1>12, StepKept

\* AdoptionAbort keeps the books: the slot is released once, with the
\* generation it belonged to.
LEMMA AdoptionAbortKeeps ==
  ASSUME LInv, NEW k \in Key, AdoptionAbort(k)
  PROVE  LInv'
<1> DEFINE t == releaseSlot(realm)
           r == releaseAllowance(t, k)
<1>1. /\ IInv' /\ Good(realm) /\ realm.slots \in Nat /\ adoption[k] = "held" /\ loose(realm) >= 0
      /\ adoption' = [adoption EXCEPT ![k] = "settled"]
      /\ UNCHANGED <<capacity, rotation, geometry, used, restarts>>
  BY LInvParts, AdoptionAbortStep DEF AdoptionAbort
<1>2. realm' \in tombstones(r, k)
  BY DEF AdoptionAbort
<1>3. /\ capacity[k].held = FALSE /\ PaneBooks(realm.panes[k], "adopting", FALSE, k \in geometry)
      /\ realm.panes[k].state # "absent" /\ ~realm.panes[k].slotRetired
  BY <1>1, Adopting
<1>4. realm.slots > 0
  BY <1>1, <1>3, SlotTaken
<1>5. Moved(realm, t, -1) /\ t.panes = realm.panes /\ t.slots = realm.slots - 1
  BY <1>1, <1>4, SlotMoves
<1> HIDE DEF t
<1>6. Good(t) /\ PaneBooks(t.panes[k], "adopting", FALSE, k \in geometry)
  BY <1>3, <1>5 DEF Moved
<1>7. /\ Only(t, r, k, 0) /\ PaneBooks(r.panes[k], "settled", FALSE, k \in geometry)
      /\ r.slots = t.slots /\ r.panes[k].slotRetired = t.panes[k].slotRetired
  BY <1>6, AllowanceMoves
<1> HIDE DEF r
<1>8. Good(r) /\ ~r.panes[k].slotRetired /\ Moved(t, r, 0)
  BY <1>3, <1>5, <1>7 DEF Only, Moved
<1>9. /\ Only(r, realm', k, 1) /\ PaneBooks(realm'.panes[k], "settled", FALSE, k \in geometry)
      /\ realm'.slots = r.slots /\ realm'.panes[k].state = "untrusted"
  BY <1>2, <1>7, <1>8, TombstoneMoves
<1>10. Moved(realm, r, -1)
  BY <1>1, <1>5, <1>8, MovedTwice
<1>11. Moved(realm, realm', 0)
  <2>1. Moved(r, realm', 1)
    BY <1>9 DEF Only
  <2> QED
    BY <1>1, <1>10, <2>1, MovedTwice
<1>12. \A j \in Key \ {k} : realm'.panes[j] = realm.panes[j]
  BY <1>5, <1>7, <1>9 DEF Only
<1>13. /\ kind(k)' = "settled" /\ \A j \in Key \ {k} : kind(j)' = kind(j)
       /\ \A j \in Key : adoption'[j] = adoption[j] \/ adoption[j] # "none"
  BY <1>1, AdoptionSettles
<1>14. NextBooks(realm')
  <2>1. PaneBooks(realm'.panes[k], kind(k)', capacity'[k].held, k \in geometry')
    BY <1>1, <1>3, <1>9, <1>13
  <2>2. \A j \in Key \ {k} : /\ realm'.panes[j] = realm.panes[j] /\ kind(j)' = kind(j)
                             /\ capacity'[j].held = capacity[j].held
                             /\ (j \in geometry') = (j \in geometry)
    BY <1>1, <1>12, <1>13
  <2>3. \A j \in Key : j \in {k} => PaneBooks(realm'.panes[j], kind(j)', capacity'[j].held, j \in geometry')
    BY <2>1
  <2> QED
    BY <2>2, <2>3, OthersBooks
<1>15. /\ \A j \in Key : realm'.panes[j].state \in {"absent", "untrusted", realm.panes[j].state}
       /\ \A j \in Key : realm'.panes[j].state = "absent" \/ realm.panes[j].state # "absent"
       /\ realm'.slots <= realm.slots
  BY <1>1, <1>3, <1>5, <1>7, <1>9, <1>12
<1> QED
  BY <1>1, <1>11, <1>13, <1>14, <1>15, StepKept

-----------------------------------------------------------------------------
(* Slots given up by recovered generations, and beginning an adoption.      *)

\* Generations with a slot are no more than the slots.
LEMMA CountedSlots ==
  ASSUME LInv, NEW S \in SUBSET Key, \A s \in S : ~realm.panes[s].slotRetired
  PROVE  Cardinality(S) \in Nat /\ Cardinality(S) <= realm.slots
<1>1. S \subseteq counted(realm) /\ IsFiniteSet(counted(realm))
      /\ Cardinality(S) \in Nat /\ Cardinality(counted(realm)) \in Nat
  BY KeysFinite DEF counted
<1>2. Cardinality(S) <= Cardinality(counted(realm))
  BY <1>1, FS_Subset
<1>3. loose(realm) >= 0 /\ realm.slots \in Nat
  BY LInvParts
<1>4. realm.slots - Cardinality(counted(realm)) >= 0
  BY <1>3 DEF loose
<1> QED
  BY <1>1, <1>2, <1>3, <1>4

\* The recovered generations that give up their slots in a step keep their
\* books.
LEMMA SlotlessSet ==
  ASSUME LInv, NEW S \in SUBSET Key, NEW q,
         \A s \in S : realm.panes[s].state = "legacy",
         \A j \in Key \ S : q.panes[j] = realm.panes[j],
         \A j \in S : q.panes[j] = slotless(realm.panes[j])
  PROVE  /\ \A j \in Key : PaneBooks(q.panes[j], kind(j), capacity[j].held, j \in geometry)
         /\ \A j \in Key : q.panes[j].state = realm.panes[j].state
<1> SUFFICES ASSUME NEW j \in Key
             PROVE  /\ PaneBooks(q.panes[j], kind(j), capacity[j].held, j \in geometry)
                    /\ q.panes[j].state = realm.panes[j].state
  OBVIOUS
<1>1. CASE j \notin S
  BY <1>1, LInvParts
<1>2. CASE j \in S
  <2> DEFINE p == realm.panes[j]
  <2>1. /\ p \in PaneType /\ p.state = "legacy" /\ q.panes[j] = slotless(p)
        /\ PaneBooks(p, kind(j), capacity[j].held, j \in geometry)
    BY <1>2, LInvParts
  <2>2. kind(j) = "settled" /\ p.capacity = "none"
    BY <2>1 DEF PaneBooks
  <2>3. capacity[j].held = FALSE
    BY <2>2, CapacityHeld DEF pane
  <2> HIDE DEF p
  <2>4. PaneBooks(p, "settled", FALSE, j \in geometry) /\ p.state # "continuous" /\ p.state # "absent"
    BY <2>1, <2>2, <2>3
  <2>5. slotless(p).state = p.state /\ PaneBooks(slotless(p), "settled", FALSE, j \in geometry)
    BY <2>1, <2>4, SlotlessBooks
  <2>6. PaneBooks(q.panes[j], kind(j), capacity[j].held, j \in geometry)
    BY <2>1, <2>2, <2>3, <2>5
  <2>7. q.panes[j].state = realm.panes[j].state
    BY <2>1, <2>5 DEF p
  <2> QED BY <2>6, <2>7
<1> QED
  BY <1>1, <1>2

\* Slots given up move the balance by what is given up.
LEMMA GivenUpMoves ==
  ASSUME LInv, NEW S \in SUBSET Key, NEW m \in Nat, NEW n \in Int,
         n = m - realm.slots + Cardinality(S),
         \A s \in S : realm.panes[s].state = "legacy" /\ ~realm.panes[s].slotRetired,
         NEW q, q = givenUp(realm, S, m)
  PROVE  /\ Moved(realm, q, n) /\ q.slots = m
         /\ \A j \in Key : PaneBooks(q.panes[j], kind(j), capacity[j].held, j \in geometry)
         /\ \A j \in Key : q.panes[j].state = realm.panes[j].state
         /\ \A j \in Key : realm.panes[j] = Absent => q.panes[j] = Absent
<1>1. Good(realm)
  BY LInvParts
<1>2. /\ Moved(realm, q, n) /\ q.slots = m
      /\ \A j \in Key \ S : q.panes[j] = realm.panes[j]
      /\ \A j \in S : q.panes[j] = slotless(realm.panes[j])
  <2> DEFINE t == givenUp(realm, S, m)
  <2>1. /\ Moved(realm, t, m - realm.slots + Cardinality(S)) /\ t.slots = m
        /\ \A j \in Key \ S : t.panes[j] = realm.panes[j]
        /\ \A j \in S : t.panes[j] = slotless(realm.panes[j])
    BY <1>1, SlotlessMoves
  <2> HIDE DEF t
  <2>2. q = t
    BY DEF t
  <2>3. Moved(realm, t, n)
    BY <2>1
  <2> QED
    BY <2>1, <2>2, <2>3
<1>3. \A s \in S : realm.panes[s].state = "legacy"
  OBVIOUS
<1>4. (\A j \in Key \ S : q.panes[j] = realm.panes[j]) /\ (\A j \in S : q.panes[j] = slotless(realm.panes[j]))
  BY <1>2
<1>5. /\ \A j \in Key : PaneBooks(q.panes[j], kind(j), capacity[j].held, j \in geometry)
      /\ \A j \in Key : q.panes[j].state = realm.panes[j].state
  BY ONLY LInv, S \in SUBSET Key, <1>3, <1>4, SlotlessSet
<1>6. ASSUME NEW j \in Key, realm.panes[j] = Absent PROVE q.panes[j] = Absent
  <2>1. j \notin S
    BY <1>3, <1>6, AbsentBooks
  <2> QED BY <1>4, <1>6, <2>1
<1> QED
  BY <1>2, <1>5, <1>6

\* ReclaimRetiredSession keeps the books.
LEMMA ReclaimRetiredSessionKeeps ==
  ASSUME LInv, NEW k \in Key, ReclaimRetiredSession(k)
  PROVE  LInv'
<1> DEFINE Kept == {s \in present(realm) : pane(s).state = "legacy"
                       /\ ~pane(s).slotRetired /\ Session[s] = Session[k]}
           n(x) == realm.slots - Cardinality(x)
           m(x) == IF n(x) > 0 THEN n(x) ELSE 0
           r(x) == givenUp(realm, x, m(x))
<1>1. PICK kept \in SUBSET Kept : \E gone \in SUBSET stale(r(kept), k) :
        realm' = sweep(r(kept), gone)
  BY DEF ReclaimRetiredSession, givenUp
<1> DEFINE q == r(kept)
           c == Cardinality(kept)
<1>2. PICK gone \in SUBSET stale(q, k) : realm' = sweep(q, gone)
  BY <1>1
<1>3. gone \in SUBSET Key /\ kept \in SUBSET Key /\ \A s \in gone : q.panes[s].slotRetired
  BY DEF stale, present
<1>4. \A s \in kept : realm.panes[s].state = "legacy" /\ ~realm.panes[s].slotRetired
  BY <1>1 DEF pane
<1> HIDE DEF Kept
<1>5. /\ IInv' /\ Good(realm) /\ realm.slots \in Nat
      /\ UNCHANGED <<capacity, rotation, adoption, geometry, used, restarts>>
  BY LInvParts, ReclaimRetiredSessionStep DEF ReclaimRetiredSession
<1>6. c \in Nat /\ c <= realm.slots
  BY <1>3, <1>4, CountedSlots
<1> DEFINE u == m(kept)
<1> HIDE DEF c
<1>7. u = realm.slots - c
  BY <1>5, <1>6 DEF c
<1> HIDE DEF m
<1>8. q = givenUp(realm, kept, u)
  OBVIOUS
<1> HIDE DEF q, r, u
<1>9. u \in Nat /\ 0 = u - realm.slots + c /\ u <= realm.slots
  BY <1>5, <1>6, <1>7
<1>12. /\ Moved(realm, q, 0) /\ q.slots = u
       /\ \A j \in Key : PaneBooks(q.panes[j], kind(j), capacity[j].held, j \in geometry)
       /\ \A j \in Key : q.panes[j].state = realm.panes[j].state
  BY <1>3, <1>4, <1>8, <1>9, GivenUpMoves DEF c
<1>10. Good(q) /\ q.slots <= realm.slots
  BY <1>9, <1>12 DEF Moved
<1>11. realm' = sweep(q, gone) /\ \A s \in gone : q.panes[s].slotRetired
  BY <1>2, <1>3
<1>13. \A j \in Key : kind(j)' = kind(j)
  BY <1>5 DEF kind, successorOf
<1>14. NextBooks(q)
  <2> SUFFICES ASSUME NEW j \in Key
               PROVE  PaneBooks(q.panes[j], kind(j)', capacity'[j].held, j \in geometry')
    BY DEF NextBooks
  <2> QED BY <1>5, <1>12, <1>13
<1>15. /\ Moved(q, realm', 0) /\ NextBooks(realm') /\ realm'.slots = q.slots
       /\ \A j \in Key : realm'.panes[j] = q.panes[j] \/ realm'.panes[j] = Absent
  BY <1>3, <1>5, <1>10, <1>11, <1>14, SweepBooks
<1>16. Moved(realm, realm', 0)
  BY <1>5, <1>12, <1>15, MovedTwice
<1>17. /\ \A j \in Key : realm'.panes[j].state \in {"absent", realm.panes[j].state}
       /\ realm'.slots <= realm.slots
  BY <1>10, <1>12, <1>15, AbsentBooks
<1>18. \A j \in Key : realm'.panes[j].state = "absent" \/ realm.panes[j].state # "absent"
  BY <1>17
<1> QED
  BY <1>5, <1>15, <1>16, <1>17, <1>18, StepKept

\* However the slot for a new generation is found, the realm has one slot more
\* than generations that use one, and the others keep their books.
LEMMA SlotFoundMoves ==
  ASSUME LInv, NEW k \in Key, NEW found \in slotFound(k)
  PROVE  /\ Moved(realm, found.realm, 1)
         /\ found.realm.slots <= realm.slots \/ found.realm.slots < Slots
         /\ \A j \in Key : PaneBooks(found.realm.panes[j], kind(j), capacity[j].held, j \in geometry)
         /\ \A j \in Key : found.realm.panes[j].state \in {"absent", realm.panes[j].state}
         /\ \A j \in Key : realm.panes[j] = Absent => found.realm.panes[j] = Absent
<1> DEFINE q == found.realm
<1>0. Good(realm) /\ realm.slots \in Nat /\ Slots \in Nat /\ realm.panes \in [Key -> PaneType]
      /\ \A j \in Key : PaneBooks(realm.panes[j], kind(j), capacity[j].held, j \in geometry)
  BY LInvParts, LedgerAssumption
<1>1. CASE found \in {[realm |-> forget(refund(realm, f), f), given |-> pane(f).charge] :
                        f \in newest(failedCandidates(realm, k))}
  <2>1. PICK f \in newest(failedCandidates(realm, k)) : q = forget(refund(realm, f), f)
    BY <1>1
  <2>2. f \in Key /\ realm.panes[f].state = "untrusted" /\ ~realm.panes[f].slotRetired
        /\ "settled" \in realm.panes[f].marks /\ realm.panes[f].capacity = "none"
    BY DEF newest, failedCandidates, sameSource, present
  <2>3. kind(f) = "settled"
    BY <1>0, <2>2 DEF PaneBooks
  <2>4. capacity[f].held = FALSE
    BY <2>2, CapacityHeld DEF pane
  <2>5. PaneBooks(realm.panes[f], "settled", FALSE, f \in geometry) /\ realm.panes[f].state # "absent"
    BY <1>0, <2>2, <2>3, <2>4
  <2> DEFINE t == refund(realm, f)
  <2>6. /\ Only(realm, t, f, 0) /\ PaneBooks(t.panes[f], "settled", FALSE, f \in geometry)
        /\ t.slots = realm.slots /\ t.panes[f].slotRetired = realm.panes[f].slotRetired
        /\ t.panes[f].charge = Zero
    BY <1>0, <2>2, <2>5, RefundMoves
  <2> HIDE DEF t
  <2>7. Good(t) /\ counts(t.panes[f]) = 1 /\ Moved(realm, t, 0)
    BY <2>2, <2>6 DEF Only, Moved, counts
  <2>8. q = forget(t, f)
    BY <2>1 DEF t
  <2> HIDE DEF q
  <2>9. /\ Only(t, q, f, counts(t.panes[f])) /\ q.panes[f] = Absent
        /\ PaneBooks(q.panes[f], "settled", FALSE, f \in geometry) /\ q.slots = t.slots
    BY <2>2, <2>6, <2>7, <2>8, ForgetMoves
  <2>10. Moved(t, q, 1) /\ \A j \in Key \ {f} : q.panes[j] = realm.panes[j]
    BY <2>6, <2>7, <2>9 DEF Only
  <2>11. Moved(realm, q, 1)
    BY <1>0, <2>7, <2>10, MovedTwice
  <2>12. q.slots <= realm.slots
    BY <1>0, <2>6, <2>9
  <2>13. \A j \in Key : PaneBooks(q.panes[j], kind(j), capacity[j].held, j \in geometry)
    <3> SUFFICES ASSUME NEW j \in Key
                 PROVE  PaneBooks(q.panes[j], kind(j), capacity[j].held, j \in geometry)
      OBVIOUS
    <3>1. CASE j = f
      BY <2>3, <2>4, <2>9, <3>1
    <3>2. CASE j # f
      BY <1>0, <2>10, <3>2
    <3> QED BY <3>1, <3>2
  <2>14. /\ \A j \in Key : q.panes[j].state \in {"absent", realm.panes[j].state}
         /\ \A j \in Key : realm.panes[j] = Absent => q.panes[j] = Absent
    BY <2>9, <2>10, AbsentBooks
  <2> QED
    BY <2>11, <2>12, <2>13, <2>14 DEF q
<1>2. CASE /\ found = [realm |-> retireRecovered(realm, k), given |-> Zero]
           /\ recoveredCandidates(realm, k) # {}
  <2> DEFINE S == recoveredCandidates(realm, k)
             c == Cardinality(S)
             n == realm.slots - (c - 1)
             m == IF n > 0 THEN n ELSE 0
  <2>1. q = givenUp(realm, S, m)
    BY <1>2 DEF retireRecovered, givenUp
  <2>2. /\ S \in SUBSET Key /\ S # {}
        /\ \A s \in S : realm.panes[s].state = "legacy" /\ ~realm.panes[s].slotRetired
    BY <1>2 DEF recoveredCandidates, sameSource, present
  <2> HIDE DEF S
  <2>3. c \in Nat /\ c <= realm.slots
    BY <2>2, CountedSlots
  <2>4. c # 0
    <3>1. IsFiniteSet(S)
      BY <2>2, KeysFinite
    <3> QED BY <2>2, <3>1, FS_EmptySet
  <2> HIDE DEF c
  <2>5. m \in Nat /\ 1 = m - realm.slots + c /\ m <= realm.slots
    BY <1>0, <2>3, <2>4
  <2> HIDE DEF m, q
  <2>6. /\ Moved(realm, q, 1) /\ q.slots = m
        /\ \A j \in Key : PaneBooks(q.panes[j], kind(j), capacity[j].held, j \in geometry)
        /\ \A j \in Key : q.panes[j].state = realm.panes[j].state
        /\ \A j \in Key : realm.panes[j] = Absent => q.panes[j] = Absent
    BY <2>1, <2>2, <2>5, GivenUpMoves DEF c
  <2>7. q.slots <= realm.slots
    BY <2>5, <2>6
  <2> QED
    BY <2>6, <2>7 DEF q
<1>3. CASE mayReserveSlot(realm, TRUE) /\ found = [realm |-> takeSlot(realm), given |-> Zero]
  <2>1. q = takeSlot(realm) /\ realm.slots < Slots - 1
    BY <1>3 DEF mayReserveSlot
  <2>2. Moved(realm, q, 1) /\ q.panes = realm.panes /\ q.slots = realm.slots + 1
    BY <1>0, <2>1, SlotMoves
  <2>3. q.slots < Slots
    BY <1>0, <2>1, <2>2
  <2> QED
    BY <1>0, <2>2, <2>3
<1> QED
  BY <1>1, <1>2, <1>3 DEF slotFound

\* What is left of an allowance after the header is an amount.
LEMMA AfterHeader ==
  ASSUME NEW a \in [Dim -> Nat]
  PROVE  afterHeader(a) \in [Dim -> Nat]
<1>1. Header \in Nat /\ headerCost \in [Dim -> Nat]
  BY LedgerAssumption, HeaderAmount
<1>2. headerCost["logical"] = 0 /\ headerCost["physical"] = Header
  BY <1>1, BytesAmount DEF headerCost
<1> QED
  BY <1>1, <1>2 DEF afterHeader, headerFits, Minus, Bytes, Dim

\* A reconstructed generation comes into being with its header charged and the
\* rest of its allowance held.
LEMMA AdoptedMoves ==
  ASSUME NEW r, Good(r), NEW k \in Key, r.panes[k] = Absent, NEW a \in [Dim -> Nat],
         Good(adopted(r, k, a))
  PROVE  LET q == adopted(r, k, a)
         IN /\ Moved(r, q, -1) /\ q.slots = r.slots
            /\ \A j \in Key \ {k} : q.panes[j] = r.panes[j]
            /\ q.panes[k].state = "continuous"
            /\ PaneBooks(q.panes[k], "adopting", FALSE, FALSE)
<1> DEFINE q == adopted(r, k, a)
           h == afterHeader(a)
           p == [FreshPane EXCEPT !.held = h, !.adoption = h]
<1>0. /\ h \in [Dim -> Nat] /\ headerCost \in [Dim -> Nat]
      /\ r.panes \in [Key -> PaneType] /\ r.total \in Amount /\ r.reserved \in Amount
      /\ r.orphan \in Amount /\ r.slots \in Nat
  BY AfterHeader, HeaderAmount DEF Good, RealmType
<1>1. /\ q.panes = [r.panes EXCEPT ![k] = p] /\ q.total = Plus(r.total, headerCost)
      /\ q.reserved = Plus(r.reserved, h) /\ q.orphan = r.orphan /\ q.slots = r.slots
  BY <1>0 DEF adopted, materialize, Good, RealmType
<1> HIDE DEF q, h
<1>2. /\ p \in PaneType /\ p.charge = headerCost /\ p.held = h /\ p.adoption = h
      /\ p.rollback = NoHold /\ p.forward = NoHold /\ p.capacity = "none"
      /\ p.state = "continuous" /\ ~p.slotRetired /\ p.marks = {"attributed", "file"}
  <2>1. h \in Amount
    BY <1>0 DEF Amount
  <2> QED
    BY <1>0, <2>1, FreshBooks DEF PaneType
<1> HIDE DEF p
<1>3. \A d \in Dim : own(p)[d] = h[d]
  <2> SUFFICES ASSUME NEW d \in Dim PROVE own(p)[d] = h[d]
    OBVIOUS
  <2>1. /\ own(p)[d] = p.adoption[d] + p.rollback.bytes[d] + p.forward.bytes[d]
        /\ NoHold.bytes[d] = 0 /\ h[d] \in Nat
    BY <1>0, <1>2, OwnParts, EmptyHold
  <2> QED
    BY <1>2, <2>1
<1>4. PaneBooks(p, "adopting", FALSE, FALSE)
  <2>1. \A d \in Dim : p.held[d] = own(p)[d] + 0
    BY <1>0, <1>2, <1>3
  <2> QED
    BY <1>2, <2>1, EmptyHold DEF PaneBooks
<1>5. /\ Absent.charge = Zero /\ counts(p) = 1 /\ counts(Absent) = 0
      /\ \A d \in Dim : own(Absent)[d] = 0 /\ Zero[d] = 0
  BY <1>2, AbsentBooks, ZeroAmount DEF counts
<1>6. /\ \A d \in Dim : q.total[d] - q.orphan[d] - p.charge[d]
                          = r.total[d] - r.orphan[d] - r.panes[k].charge[d]
      /\ \A d \in Dim : q.reserved[d] - own(p)[d] = r.reserved[d] - own(r.panes[k])[d]
  <2> SUFFICES ASSUME NEW d \in Dim
               PROVE  /\ q.total[d] - q.orphan[d] - p.charge[d]
                           = r.total[d] - r.orphan[d] - r.panes[k].charge[d]
                      /\ q.reserved[d] - own(p)[d] = r.reserved[d] - own(r.panes[k])[d]
    OBVIOUS
  <2>1. q.total[d] = r.total[d] + headerCost[d] /\ q.reserved[d] = r.reserved[d] + h[d]
    BY <1>1 DEF Plus
  <2>2. /\ r.total[d] \in Int /\ r.reserved[d] \in Int /\ r.orphan[d] \in Int
        /\ headerCost[d] \in Int /\ h[d] \in Int
    BY <1>0 DEF Amount
  <2>3. p.charge[d] = headerCost[d] /\ own(p)[d] = h[d] /\ r.panes[k].charge[d] = 0
        /\ own(r.panes[k])[d] = 0 /\ q.orphan[d] = r.orphan[d]
    BY <1>1, <1>2, <1>3, <1>5
  <2> QED
    BY <2>1, <2>2, <2>3
<1>7. q.slots - counts(p) = r.slots - counts(r.panes[k]) + (-1)
  BY <1>0, <1>1, <1>5
<1>8. Good(q) /\ -1 \in Int
  BY DEF q
<1>9. Moved(r, q, -1)
  BY <1>1, <1>2, <1>6, <1>7, <1>8, PaneMoves
<1>10. q.panes[k] = p /\ \A j \in Key \ {k} : q.panes[j] = r.panes[j]
  BY <1>0, <1>1
<1> QED
  BY <1>1, <1>2, <1>4, <1>9, <1>10 DEF q

\* A slot found for a generation that is not made goes back.
LEMMA SlotReturned ==
  ASSUME LInv, NEW r, Moved(realm, r, 1), Good(r)
  PROVE  LET q == releaseSlot(r)
         IN Moved(realm, q, 0) /\ Good(q) /\ q.panes = r.panes /\ q.slots <= r.slots
<1> DEFINE q == releaseSlot(r)
<1>1. loose(realm) >= 0 /\ loose(realm) \in Int /\ loose(r) = loose(realm) + 1 /\ Good(realm)
  BY LInvParts, BalanceType DEF Moved, Good
<1>2. r.slots \in Nat /\ Cardinality(counted(r)) \in Nat
  BY KeysFinite DEF Good, RealmType, counted
<1>3. r.slots - Cardinality(counted(r)) >= 1
  BY <1>1 DEF loose
<1>4. r.slots > 0
  BY <1>2, <1>3
<1>5. Moved(r, q, -1) /\ q.panes = r.panes /\ q.slots = r.slots - 1
  BY <1>4, SlotMoves
<1> HIDE DEF q
<1>6. Moved(realm, q, 0)
  BY <1>1, <1>5, MovedTwice
<1> QED
  BY <1>2, <1>5, <1>6 DEF Moved, q

\* An adoption that begins makes its generation an adopted one and no other.
LEMMA AdoptionBegins ==
  ASSUME LInv, NEW k \in Key, UNCHANGED rotation,
         adoption' = [adoption EXCEPT ![k] = "held"]
  PROVE  /\ kind(k)' = "adopting"
         /\ \A j \in Key \ {k} : kind(j)' = kind(j) /\ adoption'[j] = adoption[j]
<1>1. adoption'[k] = "held" /\ \A j \in Key \ {k} : adoption'[j] = adoption[j]
  BY LInvParts, IInvGood
<1>2. kind(k)' = "adopting"
  BY <1>1 DEF kind
<1> QED
  BY <1>1, <1>2, KindKept

\* The books of every generation, kept by realm q.
Books(q) == \A j \in Key : PaneBooks(q.panes[j], kind(j), capacity[j].held, j \in geometry)

\* A sweep keeps them, as it does after the step.
LEMMA SweepKeepsBooks ==
  ASSUME LInv, NEW r, Good(r), Books(r), NEW gone \in SUBSET Key,
         \A s \in gone : r.panes[s].slotRetired
  PROVE  LET q == sweep(r, gone)
         IN /\ Moved(r, q, 0) /\ Books(q) /\ q.slots = r.slots
            /\ \A j \in Key : q.panes[j] = r.panes[j] \/ q.panes[j] = Absent
            /\ \A j \in Key \ gone : q.panes[j] = r.panes[j]
<1> DEFINE q == sweep(r, gone)
<1>1. \A s \in gone : kind(s) = "settled" /\ capacity[s].held = FALSE
  <2> SUFFICES ASSUME NEW s \in gone
               PROVE  kind(s) = "settled" /\ capacity[s].held = FALSE
    OBVIOUS
  <2>1. PaneBooks(r.panes[s], kind(s), capacity[s].held, s \in geometry) /\ r.panes[s].slotRetired
    BY DEF Books
  <2>2. kind(s) = "settled" /\ ~capacity[s].held
    BY <2>1 DEF PaneBooks
  <2> QED
    BY <2>2, CapacityHeld
<1>2. \A s \in gone : r.panes[s].slotRetired /\ PaneBooks(r.panes[s], "settled", FALSE, s \in geometry)
  BY <1>1 DEF Books
<1>3. /\ Moved(r, q, 0) /\ q.slots = r.slots
      /\ \A j \in Key \ gone : q.panes[j] = r.panes[j]
      /\ \A j \in gone : q.panes[j] = Absent
  BY <1>2, SweepMoves
<1> HIDE DEF q
<1>4. Books(q)
  <2> SUFFICES ASSUME NEW j \in Key
               PROVE  PaneBooks(q.panes[j], kind(j), capacity[j].held, j \in geometry)
    BY DEF Books
  <2>1. CASE j \in gone
    <3>1. PaneBooks(Absent, "settled", FALSE, j \in geometry)
      BY AbsentBooks
    <3> QED BY <1>1, <1>3, <2>1, <3>1
  <2>2. CASE j \notin gone
    BY <1>3, <2>2 DEF Books
  <2> QED BY <2>1, <2>2
<1> QED
  BY <1>3, <1>4 DEF q

\* What BeginReconstructedPane works on once it found a slot and swept.
LEMMA SlotSwept ==
  ASSUME LInv, NEW k \in Key, k \notin used, NEW found \in slotFound(k),
         NEW gone \in SUBSET stale(found.realm, k)
  PROVE  LET r == sweep(found.realm, gone)
         IN /\ Moved(realm, r, 1) /\ Good(r) /\ Books(r) /\ r.panes[k] = Absent
            /\ r.slots <= realm.slots \/ r.slots < Slots
            /\ \A j \in Key : r.panes[j].state \in {"absent", realm.panes[j].state}
<1> DEFINE f == found.realm
           r == sweep(f, gone)
<1>1. /\ Moved(realm, f, 1) /\ (f.slots <= realm.slots \/ f.slots < Slots)
      /\ \A j \in Key : PaneBooks(f.panes[j], kind(j), capacity[j].held, j \in geometry)
      /\ \A j \in Key : f.panes[j].state \in {"absent", realm.panes[j].state}
      /\ \A j \in Key : realm.panes[j] = Absent => f.panes[j] = Absent
  BY SlotFoundMoves
<1>2. gone \in SUBSET Key /\ k \notin gone /\ \A s \in gone : f.panes[s].slotRetired
  BY DEF stale, present
<1> HIDE DEF f
<1>3. Good(f) /\ Books(f) /\ Good(realm)
  BY <1>1, LInvParts DEF Moved, Books
<1>4. /\ Moved(f, r, 0) /\ Books(r) /\ r.slots = f.slots
      /\ \A j \in Key : r.panes[j] = f.panes[j] \/ r.panes[j] = Absent
      /\ \A j \in Key \ gone : r.panes[j] = f.panes[j]
  BY <1>2, <1>3, SweepKeepsBooks
<1> HIDE DEF r
<1>5. Moved(realm, r, 1) /\ Good(r)
  <2>1. Moved(realm, r, 1)
    BY <1>1, <1>3, <1>4, MovedTwice
  <2> QED BY <1>4, <2>1 DEF Moved
<1>6. realm.panes[k] = Absent
  BY FreshKey
<1>7. r.panes[k] = Absent /\ (r.slots <= realm.slots \/ r.slots < Slots)
  BY <1>1, <1>2, <1>4, <1>6
<1>8. \A j \in Key : r.panes[j].state \in {"absent", realm.panes[j].state}
  BY <1>1, <1>4, AbsentBooks
<1> QED
  BY <1>4, <1>5, <1>7, <1>8 DEF r, f

\* BeginReconstructedPane keeps the books, whether the generation is made, is
\* refused, or leaves its header behind.
LEMMA BeginReconstructedPaneKeeps ==
  ASSUME LInv, NEW k \in Key, BeginReconstructedPane(k)
  PROVE  LInv'
<1>0. /\ IInv' /\ IInv /\ Good(realm) /\ k \notin used /\ used' = used \cup {k} /\ realm.slots \in Nat
      /\ UNCHANGED <<capacity, rotation, geometry, restarts>>
  BY LInvParts, BeginReconstructedPaneStep DEF BeginReconstructedPane, fresh
<1>1. PICK found \in slotFound(k) : \E gone \in SUBSET stale(found.realm, k) :
        LET back == refunded(found.realm, gone)
            r == sweep(found.realm, gone)
            a == Least(Plus(back, found.given), PaneCap)
        IN \/ /\ headerPaid(r, a) /\ realm' = adopted(r, k, a)
              /\ adoption' = [adoption EXCEPT ![k] = "held"]
           \/ /\ realm' = releaseSlot(r) /\ UNCHANGED adoption
           \/ /\ headerPaid(r, a) /\ realm' = orphanHeader(releaseSlot(r))
              /\ UNCHANGED adoption
  BY DEF BeginReconstructedPane
<1>2. PICK gone \in SUBSET stale(found.realm, k) :
        LET back == refunded(found.realm, gone)
            r == sweep(found.realm, gone)
            a == Least(Plus(back, found.given), PaneCap)
        IN \/ /\ headerPaid(r, a) /\ realm' = adopted(r, k, a)
              /\ adoption' = [adoption EXCEPT ![k] = "held"]
           \/ /\ realm' = releaseSlot(r) /\ UNCHANGED adoption
           \/ /\ headerPaid(r, a) /\ realm' = orphanHeader(releaseSlot(r))
              /\ UNCHANGED adoption
  BY <1>1
<1> DEFINE back == refunded(found.realm, gone)
           r == sweep(found.realm, gone)
           a == Least(Plus(back, found.given), PaneCap)
           u == releaseSlot(r)
<1>3. /\ Moved(realm, r, 1) /\ Good(r) /\ Books(r) /\ r.panes[k] = Absent
      /\ r.slots <= realm.slots \/ r.slots < Slots
      /\ \A j \in Key : r.panes[j].state \in {"absent", realm.panes[j].state}
  BY <1>0, SlotSwept
<1>4. a \in [Dim -> Nat]
  <2>1. found.given \in [Dim -> Nat] /\ Good(found.realm) /\ gone \in SUBSET Key
    BY <1>0, SlotFoundGood DEF stale, present
  <2>2. back \in [Dim -> Nat]
    BY <2>1, RefundedAmount DEF Good, RealmType
  <2> HIDE DEF back
  <2>3. Plus(back, found.given) \in [Dim -> Nat]
    BY <2>1, <2>2, PlusNat
  <2> QED
    BY <2>3, LedgerAssumption DEF Least
<1>5. \/ realm' = adopted(r, k, a) /\ adoption' = [adoption EXCEPT ![k] = "held"]
      \/ realm' = u /\ UNCHANGED adoption
      \/ realm' = orphanHeader(u) /\ UNCHANGED adoption
  BY <1>2
<1> HIDE DEF a, r, back
<1>6. used \subseteq used' /\ k \in used' \ used /\ Good(realm')
  BY <1>0, IInvGood DEF IInv, Capped, TypeOK, Good
<1>7. CASE realm' = adopted(r, k, a) /\ adoption' = [adoption EXCEPT ![k] = "held"]
  <2>1. /\ Moved(r, realm', -1) /\ realm'.slots = r.slots
        /\ \A j \in Key \ {k} : realm'.panes[j] = r.panes[j]
        /\ PaneBooks(realm'.panes[k], "adopting", FALSE, FALSE)
    <3>1. Good(adopted(r, k, a))
      BY <1>6, <1>7
    <3> QED
      BY <1>3, <1>4, <1>7, <3>1, AdoptedMoves
  <2>2. Moved(realm, realm', 0)
    BY <1>0, <1>3, <2>1, MovedTwice
  <2>3. /\ kind(k)' = "adopting"
        /\ \A j \in Key \ {k} : kind(j)' = kind(j) /\ adoption'[j] = adoption[j]
    BY <1>0, <1>7, AdoptionBegins
  <2>4. NextBooks(realm')
    <3> SUFFICES ASSUME NEW j \in Key
                 PROVE  PaneBooks(realm'.panes[j], kind(j)', capacity'[j].held, j \in geometry')
      BY DEF NextBooks
    <3>1. CASE j = k
      <4>1. capacity[k].held = FALSE /\ k \notin geometry
        BY <1>0, FreshKey
      <4>2. (k \in geometry) = FALSE
        BY <4>1
      <4>3. PaneBooks(realm'.panes[k], "adopting", capacity[k].held, k \in geometry)
        BY <2>1, <4>1, <4>2
      <4> QED BY <1>0, <2>3, <3>1, <4>3
    <3>2. CASE j # k
      <4>1. PaneBooks(r.panes[j], kind(j), capacity[j].held, j \in geometry)
        BY <1>3 DEF Books
      <4> QED BY <1>0, <2>1, <2>3, <3>2, <4>1
    <3> QED BY <3>1, <3>2
  <2>5. realm'.slots <= realm.slots \/ realm'.slots < Slots
    BY <1>3, <2>1
  <2>6. \A j \in Key : \/ realm'.panes[j].state \in {"absent", "untrusted", realm.panes[j].state}
                       \/ j \in used' \ used
    BY <1>3, <1>6, <2>1
  <2>7. \A j \in Key : \/ realm'.panes[j].state = "absent" \/ realm.panes[j].state # "absent"
                       \/ j \in used' \ used
    BY <1>3, <1>6, <2>1
  <2>8. \A j \in Key : \/ adoption'[j] = adoption[j] \/ j \in used' \ used
                       \/ adoption[j] # "none"
    BY <1>6, <2>3
  <2> QED
    BY <1>0, <1>6, <2>2, <2>4, <2>5, <2>6, <2>7, <2>8, StepKept
<1>8. CASE (realm' = u \/ realm' = orphanHeader(u)) /\ UNCHANGED adoption
  <2>1. Moved(realm, u, 0) /\ Good(u) /\ u.panes = r.panes /\ u.slots <= r.slots
    BY <1>3, SlotReturned
  <2> HIDE DEF u
  <2>2. Moved(realm, realm', 0) /\ realm'.panes = r.panes /\ realm'.slots = u.slots
    <3>1. CASE realm' = u
      BY <2>1, <3>1
    <3>2. CASE realm' = orphanHeader(u)
      <4>1. Good(orphanHeader(u))
        BY <1>6, <3>2
      <4>2. Moved(u, realm', 0) /\ realm'.panes = u.panes /\ realm'.slots = u.slots
        BY <2>1, <3>2, <4>1, OrphanMoves
      <4>3. Moved(realm, realm', 0)
        BY <1>0, <2>1, <4>2, MovedTwice
      <4> QED BY <2>1, <4>2, <4>3
    <3> QED BY <1>8, <3>1, <3>2
  <2>3. NextBooks(realm')
    <3> SUFFICES ASSUME NEW j \in Key
                 PROVE  PaneBooks(realm'.panes[j], kind(j)', capacity'[j].held, j \in geometry')
      BY DEF NextBooks
    <3>1. kind(j)' = kind(j)
      BY <1>0, <1>8, KindKept
    <3>2. PaneBooks(r.panes[j], kind(j), capacity[j].held, j \in geometry)
      BY <1>3 DEF Books
    <3> QED BY <1>0, <2>2, <3>1, <3>2
  <2>4. realm'.slots <= realm.slots \/ realm'.slots < Slots
    <3>1. u.slots \in Nat /\ r.slots \in Nat /\ Slots \in Nat
      BY <1>3, <2>1, LedgerAssumption DEF Good, RealmType
    <3> QED BY <1>0, <1>3, <2>1, <2>2, <3>1
  <2>5. \A j \in Key : realm'.panes[j].state \in {"absent", "untrusted", realm.panes[j].state}
    BY <1>3, <2>2
  <2>6. \A j \in Key : realm'.panes[j].state = "absent" \/ realm.panes[j].state # "absent"
    BY <1>3, <2>2
  <2> QED
    BY <1>0, <1>6, <1>8, <2>2, <2>3, <2>4, <2>5, <2>6, StepKept
<1> QED
  BY <1>5, <1>7, <1>8

-----------------------------------------------------------------------------
(* Geometry reservations.                                                   *)

\* A shift followed by helpers that move nothing else, and the other way round.
LEMMA ShiftedThen ==
  ASSUME NEW r, Good(r), NEW q, NEW s, NEW n \in Int, NEW m \in Int, NEW l, l = n + m,
         NEW e \in [Dim -> Int]
  PROVE  /\ Shifted(r, q, n, e) /\ Moved(q, s, m) => Shifted(r, s, l, e)
         /\ Moved(r, q, n) /\ Shifted(q, s, m, e) => Shifted(r, s, l, e)
<1>1. loose(r) \in Int
  BY BalanceType DEF Good
<1>2. Shifted(r, q, n, e) /\ Moved(q, s, m) => Shifted(r, s, l, e)
  BY <1>1 DEF Shifted, Moved
<1>3. Moved(r, q, n) /\ Shifted(q, s, m, e) => Shifted(r, s, l, e)
  BY <1>1 DEF Shifted, Moved
<1> QED
  BY <1>2, <1>3

\* What is owed beside the generations.
LEMMA OwedIs ==
  ASSUME LInv, NEW d \in Dim
  PROVE  /\ claims(d) \in [Key -> Nat] /\ \A k \in Key : claims(d)[k] = capacity[k].successor[d]
         /\ sumOf(claims(d), Key) \in Nat /\ Cardinality(geometry) \in Nat
         /\ Cardinality(geometry) * Frame \in Nat /\ owed(d) \in Nat
         /\ owed(d) = sumOf(claims(d), Key) + Cardinality(geometry) * Frame
<1>1. capacity \in [Key -> CapacityType] /\ geometry \in SUBSET Key
  BY LInvParts DEF IInv, TypeOK
<1>2. claims(d) \in [Key -> Nat] /\ \A k \in Key : claims(d)[k] = capacity[k].successor[d]
  BY <1>1 DEF claims, CapacityType
<1>3. Cardinality(geometry) \in Nat
  BY <1>1, KeysFinite
<1>4. Cardinality(geometry) * Frame \in Nat
  BY <1>3, LedgerAssumption
<1> DEFINE f == claims(d)
<1>5. f \in [Key -> Nat]
  BY <1>2
<1> HIDE DEF f
<1>6. Weights(f)
  BY <1>5 DEF Weights
<1>7. sumOf(f, Key) \in Nat
  BY <1>5, <1>6, TotalType
<1> QED
  BY <1>2, <1>3, <1>4, <1>7 DEF f, owed

\* The books, after a step that shifts what is owed.
LEMMA BooksShifted ==
  ASSUME LInv, NEW n \in Int, NEW e \in [Dim -> Int], Shifted(realm, realm', n, e),
         \A d \in Dim : owed(d)' = owed(d) + e[d],
         Cardinality(waiting)' = Cardinality(waiting) + n
  PROVE  BooksOK'
<1>1. \A d \in Dim : unpaid(realm', d) = 0 /\ extra(realm', d) = owed(d) + e[d]
  BY DEF LInv, BooksOK, Shifted
<1>2. loose(realm') = Cardinality(waiting) + n
  BY DEF LInv, BooksOK, Shifted
<1> QED
  BY <1>1, <1>2 DEF BooksOK

\* A geometry reservation more or less.
LEMMA GeometryOwed ==
  ASSUME LInv, NEW k \in Key, UNCHANGED capacity
  PROVE  /\ k \notin geometry /\ geometry' = geometry \cup {k} =>
              \A d \in Dim : owed(d)' = owed(d) + geometryRecordCost[d]
         /\ k \in geometry /\ geometry' = geometry \ {k} =>
              \A d \in Dim : owed(d)' = owed(d) + Given(geometryRecordCost)[d]
         /\ Cardinality(waiting)' = Cardinality(waiting) + 0
<1> DEFINE c == Cardinality(geometry)
<1>0. /\ geometry \in SUBSET Key /\ IsFiniteSet(geometry) /\ c \in Nat /\ Frame \in Nat
      /\ Cardinality(waiting) \in Nat
  BY LInvParts, KeysFinite, LedgerAssumption DEF IInv, TypeOK, waiting
<1>1. Cardinality(waiting)' = Cardinality(waiting) + 0
  BY <1>0 DEF waiting
<1>2. ASSUME NEW d \in Dim, k \notin geometry, geometry' = geometry \cup {k}
      PROVE  owed(d)' = owed(d) + geometryRecordCost[d]
  <2>1. Cardinality(geometry') = c + 1
    BY <1>0, <1>2, FS_AddElement
  <2>2. owed(d)' = sumOf(claims(d), Key) + Cardinality(geometry') * Frame
    BY DEF owed, claims
  <2> DEFINE z == sumOf(claims(d), Key)
  <2>3. z \in Nat /\ owed(d) = z + c * Frame /\ geometryRecordCost[d] = Frame
    BY OwedIs, GeometryCost
  <2> HIDE DEF c, z
  <2>4. (c + 1) * Frame = c * Frame + Frame /\ c * Frame \in Nat
    BY <1>0
  <2>5. owed(d)' = z + (c + 1) * Frame
    BY <2>1, <2>2 DEF z
  <2> QED
    BY <1>0, <2>3, <2>4, <2>5
<1>3. ASSUME NEW d \in Dim, k \in geometry, geometry' = geometry \ {k}
      PROVE  owed(d)' = owed(d) + Given(geometryRecordCost)[d]
  <2>1. Cardinality(geometry') = c - 1
    BY <1>0, <1>3, FS_RemoveElement
  <2>2. owed(d)' = sumOf(claims(d), Key) + Cardinality(geometry') * Frame
    BY DEF owed, claims
  <2> DEFINE z == sumOf(claims(d), Key)
  <2>3. z \in Nat /\ owed(d) = z + c * Frame /\ geometryRecordCost[d] = Frame
    BY OwedIs, GeometryCost
  <2>4. Given(geometryRecordCost)[d] = 0 - Frame
    BY <2>3, GeometryCost, GivenAmount
  <2> HIDE DEF c, z
  <2>5. (c - 1) * Frame = c * Frame - Frame /\ c * Frame \in Nat
    BY <1>0
  <2>6. owed(d)' = z + (c - 1) * Frame
    BY <2>1, <2>2 DEF z
  <2> QED
    BY <1>0, <2>3, <2>4, <2>5, <2>6
<1> QED
  BY <1>1, <1>2, <1>3

\* A step that begins or ends a geometry reservation.
LEMMA GeometryKept ==
  ASSUME LInv, IInv', UNCHANGED <<capacity, rotation, adoption, used, restarts>>,
         NEW k \in Key, NEW e \in [Dim -> Int], Shifted(realm, realm', 0, e),
         \A d \in Dim : owed(d)' = owed(d) + e[d], Cardinality(waiting)' = Cardinality(waiting) + 0,
         geometry' \subseteq used, \A j \in Key \ {k} : (j \in geometry') = (j \in geometry),
         realm'.slots <= realm.slots,
         PaneBooks(realm'.panes[k], kind(k), capacity[k].held, k \in geometry'),
         \A j \in Key \ {k} : realm'.panes[j] = realm.panes[j],
         realm'.panes[k].state \in {"absent", "untrusted", realm.panes[k].state},
         realm'.panes[k].state = "absent" \/ realm.panes[k].state # "absent"
  PROVE  LInv'
<1>1. \A j \in Key : kind(j)' = kind(j)
  BY DEF kind, successorOf
<1>2. NextBooks(realm')
  <2>1. PaneBooks(realm'.panes[k], kind(k)', capacity'[k].held, k \in geometry')
    BY <1>1
  <2>2. \A j \in Key \ {k} : /\ realm'.panes[j] = realm.panes[j] /\ kind(j)' = kind(j)
                             /\ capacity'[j].held = capacity[j].held
                             /\ (j \in geometry') = (j \in geometry)
    BY <1>1
  <2>3. \A j \in Key : j \in {k} => PaneBooks(realm'.panes[j], kind(j)', capacity'[j].held, j \in geometry')
    BY <2>1
  <2> QED
    BY <2>2, <2>3, OthersBooks
<1>3. PanesOK'
  BY <1>2 DEF PanesOK, pane, NextBooks
<1>4. MintedOK'
  <2>1. present(realm') \subseteq used'
    BY DEF LInv, MintedOK, present
  <2>2. geometry' \subseteq used'
    OBVIOUS
  <2>3. \A j \in Key : adoption'[j] = adoption[j] \/ j \in used'
    OBVIOUS
  <2> QED BY <2>1, <2>2, <2>3, MintedKept
<1>5. TurnsOK'
  <2>1. \A j \in used : realm'.panes[j].state = "continuous" => realm.panes[j].state = "continuous"
    BY IInvGood, LInvParts
  <2>2. \A j \in Key : adoption'[j] = adoption[j] \/ j \notin used \/ adoption[j] # "none"
    OBVIOUS
  <2> QED BY <2>1, <2>2, TurnsKept
<1>6. NoRoom'
  <2>1. realm'.slots \in Nat
    BY DEF Shifted, Good, RealmType
  <2> QED BY <2>1, RoomKept
<1>7. BooksOK'
  BY BooksShifted
<1> QED
  BY <1>3, <1>4, <1>5, <1>6, <1>7 DEF LInv

\* ReserveGeometry keeps the books.
LEMMA ReserveGeometryKeeps ==
  ASSUME LInv, NEW k \in Key, ReserveGeometry(k)
  PROVE  LInv'
<1> DEFINE g == geometryRecordCost
<1>1. /\ IInv' /\ Good(realm) /\ realm.slots \in Nat /\ realm.panes[k].state = "continuous"
      /\ UNCHANGED <<capacity, rotation, adoption, used, restarts>>
      /\ k \notin geometry /\ geometry' = geometry \cup {k}
      /\ PaneBooks(realm.panes[k], kind(k), capacity[k].held, k \in geometry)
      /\ g \in [Dim -> Nat]
  BY LInvParts, ReserveGeometryStep, CostAmounts DEF ReserveGeometry, live, pane
<1>2. Good(realm')
  BY <1>1 DEF IInv, Capped, TypeOK, Good
<1>3. realm' = [realm EXCEPT !.reserved = Plus(@, g), !.panes[k] = holding(@, g)]
  BY DEF ReserveGeometry
<1>4. realm' = holdGeometry(realm, k)
  BY <1>3 DEF holdGeometry
<1>5. (k \in geometry) = FALSE /\ (k \in geometry') = TRUE
  BY <1>1
<1>6. PaneBooks(realm.panes[k], kind(k), capacity[k].held, FALSE) /\ realm.panes[k].state # "absent"
  BY <1>1, <1>5
<1>7. /\ Shifted(realm, realm', 0, g) /\ PaneBooks(realm'.panes[k], kind(k), capacity[k].held, TRUE)
      /\ realm'.panes[k].state = realm.panes[k].state /\ realm'.slots = realm.slots
      /\ \A j \in Key \ {k} : realm'.panes[j] = realm.panes[j]
  <2>1. Good(holdGeometry(realm, k))
    BY <1>2, <1>4
  <2> QED
    BY <1>1, <1>4, <1>6, <2>1, GeometryHeld
<1>8. PaneBooks(realm'.panes[k], kind(k), capacity[k].held, k \in geometry')
  BY <1>5, <1>7
<1>9. /\ \A d \in Dim : owed(d)' = owed(d) + g[d]
      /\ Cardinality(waiting)' = Cardinality(waiting) + 0
  BY <1>1, GeometryOwed
<1>10. geometry' \subseteq used /\ \A j \in Key \ {k} : (j \in geometry') = (j \in geometry)
  <2>1. k \in used /\ geometry \subseteq used
    BY <1>1 DEF LInv, MintedOK, present
  <2> QED BY <1>1, <2>1
<1>11. g \in [Dim -> Int] /\ realm'.slots <= realm.slots
  BY <1>1, <1>7
<1> HIDE DEF g
<1> QED
  BY <1>1, <1>6, <1>7, <1>8, <1>9, <1>10, <1>11, GeometryKept

\* ReleaseGeometry and AppendReservedGeometry keep the books.
LEMMA ReleaseGeometryKeeps ==
  ASSUME LInv, NEW k \in Key, ReleaseGeometry(k) \/ AppendReservedGeometry(k)
  PROVE  LInv'
<1> DEFINE g == geometryRecordCost
           r == releaseGeometry(realm, k)
           p == realm.panes[k]
<1>1. /\ IInv' /\ Good(realm) /\ realm.slots \in Nat
      /\ UNCHANGED <<capacity, rotation, adoption, used, restarts>>
      /\ k \in geometry /\ geometry' = geometry \ {k}
      /\ PaneBooks(p, kind(k), capacity[k].held, k \in geometry)
      /\ g \in [Dim -> Nat] /\ realm.panes \in [Key -> PaneType]
  BY LInvParts, ReleaseGeometryStep, CostAmounts DEF ReleaseGeometry, AppendReservedGeometry
<1>2. realm' = r \/ (p.state = "continuous" /\ realm' \in {spend(r, k, g), spendTorn(r, k, g)})
  BY DEF ReleaseGeometry, AppendReservedGeometry, live, pane
<1>3. Good(r) /\ (p.state # "absent" => room(r, r.panes[k], g))
  BY <1>1, IInvGood, ReleaseGeometryGood, LInvParts
<1>4. (k \in geometry) = TRUE /\ (k \in geometry') = FALSE
  BY <1>1
<1>5. PaneBooks(p, kind(k), capacity[k].held, TRUE)
  BY <1>1, <1>4
<1>6. /\ Shifted(realm, r, 0, Given(g)) /\ PaneBooks(r.panes[k], kind(k), capacity[k].held, FALSE)
      /\ r.panes[k].state = p.state /\ r.slots = realm.slots
      /\ \A j \in Key \ {k} : r.panes[j] = realm.panes[j]
  BY <1>1, <1>5, GeometryReturned
<1>7. /\ \A d \in Dim : owed(d)' = owed(d) + Given(g)[d]
      /\ Cardinality(waiting)' = Cardinality(waiting) + 0
  BY <1>1, GeometryOwed
<1>8. geometry' \subseteq used /\ \A j \in Key \ {k} : (j \in geometry') = (j \in geometry)
  <2>1. geometry \subseteq used
    BY DEF LInv, MintedOK
  <2> QED BY <1>1, <2>1
<1>9. Given(g) \in [Dim -> Int]
  BY <1>1, GivenAmount
<1> HIDE DEF g, r
<1>10. /\ Shifted(realm, realm', 0, Given(g))
       /\ PaneBooks(realm'.panes[k], kind(k), capacity[k].held, k \in geometry')
       /\ realm'.slots = realm.slots /\ \A j \in Key \ {k} : realm'.panes[j] = realm.panes[j]
       /\ realm'.panes[k].state \in {"untrusted", p.state}
       /\ p.state = "absent" => realm'.panes[k].state = "absent"
  <2>1. CASE realm' = r
    BY <1>4, <1>6, <2>1
  <2>2. CASE p.state = "continuous" /\ realm' \in {spend(r, k, g), spendTorn(r, k, g)}
    <3>1. r.panes[k].state # "absent" /\ room(r, r.panes[k], g)
      BY <1>3, <1>6, <2>2
    <3>2. /\ Good(spend(r, k, g)) /\ Good(spendTorn(r, k, g))
          /\ Good(spend(r, k, Bytes(0, g["physical"])))
      BY <1>1, <1>3, <3>1, AppendGood
    <3> DEFINE as == kind(k)
               cap == capacity[k].held
               geo == k \in geometry'
    <3>6. /\ PaneBooks(r.panes[k], as, cap, geo) /\ Good(r) /\ g \in [Dim -> Nat]
          /\ realm' \in {spend(r, k, g), spendTorn(r, k, g)}
      BY <1>1, <1>3, <1>4, <1>6, <2>2
    <3> HIDE DEF as, cap, geo
    <3>3. /\ Only(r, realm', k, 0) /\ PaneBooks(realm'.panes[k], as, cap, geo)
          /\ realm'.slots = r.slots /\ realm'.panes[k].state \in {r.panes[k].state, "untrusted"}
      BY <3>1, <3>2, <3>6, AppendMoves
    <3>4. Moved(r, realm', 0) /\ \A j \in Key \ {k} : realm'.panes[j] = r.panes[j]
      BY <3>3 DEF Only
    <3>5. Shifted(realm, realm', 0, Given(g))
      <4> DEFINE e == Given(g)
      <4>1. e \in [Dim -> Int] /\ Shifted(realm, r, 0, e) /\ Moved(r, realm', 0) /\ Good(realm)
            /\ 0 = 0 + 0 /\ 0 \in Int
        BY <1>1, <1>6, <1>9, <3>4
      <4> HIDE DEF e
      <4>2. Shifted(realm, realm', 0, e)
        BY <4>1, ShiftedThen
      <4> QED BY <4>2 DEF e
    <3> QED
      BY <1>6, <2>2, <3>3, <3>4, <3>5 DEF as, cap, geo
  <2> QED
    BY <1>2, <2>1, <2>2
<1>11. PaneBooks(realm'.panes[k], kind(k), capacity[k].held, k \in geometry')
  BY <1>10
<1>12. realm'.slots <= realm.slots /\ realm'.panes[k].state \in {"absent", "untrusted", realm.panes[k].state}
       /\ (realm'.panes[k].state = "absent" \/ realm.panes[k].state # "absent")
       /\ \A j \in Key \ {k} : realm'.panes[j] = realm.panes[j]
  BY <1>1, <1>10
<1>13. Shifted(realm, realm', 0, Given(g))
  BY <1>10
<1> QED
  BY <1>1, <1>7, <1>8, <1>9, <1>11, <1>12, <1>13, GeometryKept

-----------------------------------------------------------------------------
(* Rotation: what holds at both ends of one.                                *)

\* A capacity that waits for its successor counts one slot.
waits(c) == IF c.held /\ ~c.materialized THEN 1 ELSE 0

\* What changes in the books with one rotation capacity.
LEMMA CapacityOwed ==
  ASSUME LInv, NEW k \in Key, NEW c \in CapacityType, capacity' = [capacity EXCEPT ![k] = c],
         UNCHANGED geometry
  PROVE  /\ \A d \in Dim : owed(d)' = owed(d) + (c.successor[d] - capacity[k].successor[d])
         /\ Cardinality(waiting)' = Cardinality(waiting) + (waits(c) - waits(capacity[k]))
<1>0. /\ capacity \in [Key -> CapacityType] /\ capacity' \in [Key -> CapacityType]
      /\ capacity'[k] = c /\ \A j \in Key \ {k} : capacity'[j] = capacity[j]
  BY LInvParts DEF IInv, TypeOK
<1>1. ASSUME NEW d \in Dim
      PROVE  owed(d)' = owed(d) + (c.successor[d] - capacity[k].successor[d])
  <2> DEFINE w == claims(d)
             v == claims(d)'
             g == Cardinality(geometry) * Frame
  <2>1. /\ w \in [Key -> Nat] /\ \A j \in Key : w[j] = capacity[j].successor[d]
        /\ v \in [Key -> Nat] /\ \A j \in Key : v[j] = capacity'[j].successor[d]
    BY <1>0 DEF claims, CapacityType
  <2>2. /\ owed(d) = sumOf(w, Key) + g /\ owed(d)' = sumOf(v, Key) + g
        /\ g \in Nat /\ sumOf(w, Key) \in Nat
    BY OwedIs DEF owed
  <2> HIDE DEF v, w, g
  <2>3. Weights(v) /\ Weights(w) /\ \A j \in Key \ {k} : v[j] = w[j]
    BY <1>0, <2>1 DEF Weights
  <2>4. sumOf(v, Key) = sumOf(w, Key) + v[k] - w[k]
    BY <2>3, TotalChange
  <2>5. v[k] = c.successor[d] /\ w[k] = capacity[k].successor[d] /\ v[k] \in Nat /\ w[k] \in Nat
    BY <1>0, <2>1
  <2> QED
    BY <2>2, <2>4, <2>5
<1>2. Cardinality(waiting)' = Cardinality(waiting) + (waits(c) - waits(capacity[k]))
  <2> DEFINE A == waiting
             B == waiting'
             o == capacity[k]
  <2>1. A \in SUBSET Key /\ B \in SUBSET Key /\ A \ {k} = B \ {k}
        /\ (k \in A <=> o.held /\ ~o.materialized) /\ (k \in B <=> c.held /\ ~c.materialized)
    BY <1>0 DEF waiting
  <2> HIDE DEF A, B, o
  <2> DEFINE a == Cardinality(A)
             b == Cardinality(B)
             z == Cardinality(A \ {k})
  <2>2. IsFiniteSet(A) /\ IsFiniteSet(B) /\ IsFiniteSet(A \ {k})
        /\ a \in Nat /\ b \in Nat /\ z \in Nat
    BY <2>1, KeysFinite
  <2>3. k \in A => Cardinality(A \ {k}) = Cardinality(A) - 1
    BY <2>2, FS_RemoveElement
  <2>4. k \in B => Cardinality(B \ {k}) = Cardinality(B) - 1
    BY <2>2, FS_RemoveElement
  <2>5. (k \notin A => A \ {k} = A) /\ (k \notin B => B \ {k} = B)
    OBVIOUS
  <2>6. (k \in A => a = z + 1) /\ (k \notin A => a = z)
    BY <2>2, <2>3, <2>5
  <2>7. (k \in B => b = z + 1) /\ (k \notin B => b = z)
    BY <2>1, <2>2, <2>4, <2>5
  <2> HIDE DEF a, b, z
  <2>8. a = z + waits(o)
    BY <2>1, <2>2, <2>6 DEF waits
  <2>9. b = z + waits(c)
    BY <2>1, <2>2, <2>7 DEF waits
  <2>10. waits(o) \in Int /\ waits(c) \in Int
    BY DEF waits
  <2>11. b = a + (waits(c) - waits(o))
    BY <2>2, <2>8, <2>9, <2>10
  <2> QED
    BY <2>11 DEF a, b, A, B, o
<1> QED
  BY <1>1, <1>2

\* A reservation that still knows its successor.
inUse(t) == t.held \/ t.committed \/ t.failed

\* The place in life of a generation whose rotation a step does not touch.
LEMMA KindOther ==
  ASSUME LInv, NEW k \in Key, NEW t \in RotationType, rotation' = [rotation EXCEPT ![k] = t],
         UNCHANGED adoption, NEW j \in Key,
         ~(t.held /\ t.successor = {j}), ~(rotation[k].held /\ rotation[k].successor = {j})
  PROVE  kind(j)' = kind(j)
<1>1. rotation'[k] = t /\ \A i \in Key \ {k} : rotation'[i] = rotation[i]
  BY LInvParts DEF IInv, TypeOK
<1>2. successorOf(j)' = successorOf(j)
  BY <1>1 DEF successorOf
<1> QED
  BY <1>2 DEF kind

\* The successor of a rotation under way.
LEMMA Rotating ==
  ASSUME LInv, NEW k \in Key, rotation[k].held, NEW s \in Key, rotation[k].successor = {s}
  PROVE  /\ kind(s) = "rotating" /\ capacity[s].held = FALSE /\ s # k /\ s \in used
         /\ adoption[s] = "none" /\ successorOf(s) = {k}
         /\ ~realm.panes[s].slotRetired /\ realm.panes[s].state # "absent"
         /\ PaneBooks(realm.panes[s], "rotating", FALSE, s \in geometry)
<1>1. busy(k)
  BY DEF busy
<1>2. adoption[s] = "none" /\ ~capacity[s].held /\ capacity[k].held
  BY <1>1 DEF LInv, TurnsOK
<1>3. capacity[s].held = FALSE
  BY <1>2, CapacityHeld
<1>4. successorOf(s) = {k}
  <2>1. \A i \in Key : busy(k) /\ busy(i) /\ rotation[i].successor = rotation[k].successor => i = k
    BY DEF LInv, TurnsOK
  <2>2. ASSUME NEW i \in successorOf(s) PROVE i = k
    <3>1. i \in Key /\ rotation[i].held /\ rotation[i].successor = rotation[k].successor
      BY <2>2 DEF successorOf
    <3> QED BY <1>1, <2>1, <3>1 DEF busy
  <2>3. k \in successorOf(s)
    BY DEF successorOf
  <2> QED BY <2>2, <2>3
<1>5. kind(s) = "rotating"
  BY <1>2, <1>4 DEF kind
<1>6. PaneBooks(realm.panes[s], "rotating", FALSE, s \in geometry)
  BY <1>3, <1>5, LInvParts
<1>7. ~realm.panes[s].slotRetired
  BY <1>6 DEF PaneBooks
<1>8. realm.panes[s].state # "absent"
  BY <1>6, <1>7, AbsentBooks DEF PaneBooks
<1>9. s \in used
  BY <1>1 DEF LInv, MintedOK
<1> QED
  BY <1>2, <1>3, <1>4, <1>5, <1>6, <1>7, <1>8, <1>9

\* A rotation that ends settles its successor and changes no other's place.
LEMMA RotationEnds ==
  ASSUME LInv, NEW k \in Key, rotation[k].held, NEW s \in Key, rotation[k].successor = {s},
         NEW t \in RotationType, ~t.held, rotation' = [rotation EXCEPT ![k] = t],
         UNCHANGED adoption
  PROVE  kind(s)' = "settled" /\ \A j \in Key \ {s} : kind(j)' = kind(j)
<1>1. rotation'[k] = t /\ \A i \in Key \ {k} : rotation'[i] = rotation[i]
  BY LInvParts DEF IInv, TypeOK
<1>2. successorOf(s) = {k} /\ adoption[s] = "none"
  BY Rotating
<1>3. successorOf(s)' = {}
  BY <1>1, <1>2 DEF successorOf
<1>4. kind(s)' = "settled"
  BY <1>2, <1>3 DEF kind
<1>5. \A j \in Key \ {s} : kind(j)' = kind(j)
  BY KindOther
<1> QED
  BY <1>4, <1>5

\* A predecessor under rotation has its capacity and its slot.
LEMMA RotationHeld ==
  ASSUME LInv, NEW k \in Key, rotation[k].held
  PROVE  /\ capacity[k].held = TRUE /\ capacity[k].active /\ capacity[k].materialized
         /\ capacity[k].successor = Zero /\ kind(k) = "settled"
         /\ ~rotation[k].committed /\ ~rotation[k].failed
         /\ ~realm.panes[k].slotRetired /\ realm.panes[k].state # "absent"
         /\ PaneBooks(realm.panes[k], "settled", TRUE, k \in geometry)
<1>1. /\ capacity[k].held /\ capacity[k].active /\ capacity[k].materialized
      /\ capacity[k].successor = Zero /\ ~rotation[k].committed /\ ~rotation[k].failed
  BY DEF LInv, TurnsOK
<1>2. capacity[k].held = TRUE
  BY <1>1, CapacityHeld
<1>3. PaneBooks(realm.panes[k], kind(k), capacity[k].held, k \in geometry)
      /\ realm.panes[k].capacity \in {"none", "held", "armed"}
  BY LInvParts, PaneParts
<1>4. realm.panes[k].capacity # "none"
  BY <1>1, <1>3 DEF PaneBooks
<1>5. ~realm.panes[k].slotRetired /\ kind(k) = "settled"
  <2>1. ~realm.panes[k].slotRetired
    BY <1>3, <1>4 DEF PaneBooks
  <2>2. kind(k) = "settled"
    BY <1>3, <1>4 DEF PaneBooks
  <2> QED BY <2>1, <2>2
<1>6. realm.panes[k].state # "absent"
  BY <1>3, <1>4, AbsentBooks DEF PaneBooks, Absent
<1>7. PaneBooks(realm.panes[k], "settled", TRUE, k \in geometry)
  BY <1>2, <1>3, <1>5
<1> QED
  BY <1>1, <1>2, <1>5, <1>6, <1>7

\* A step of the rotation of k keeps what is known of rotations, if k's own
\* part of it is in order.
LEMMA TurnsChanged ==
  ASSUME LInv, NEW k \in Key, NEW c \in CapacityType, NEW t \in RotationType,
         capacity' = [capacity EXCEPT ![k] = c], rotation' = [rotation EXCEPT ![k] = t],
         UNCHANGED adoption,
         t.held => c.held /\ c.active /\ c.materialized /\ ~t.committed /\ ~t.failed,
         c.active => t.held,
         c.materialized \/ ~c.held => c.successor = Zero,
         inUse(t) => \/ busy(k) /\ t.successor = rotation[k].successor
                     \/ k \in used /\ \E s \in Key \ used : t.successor = {s},
         c.held /\ ~capacity[k].held => \A j \in Key : busy(j) => rotation[j].successor # {k},
         t.failed => \A s \in Key : t.successor = {s} => realm'.panes[s].state # "continuous",
         \A j \in used : realm'.panes[j].state = "continuous" => realm.panes[j].state = "continuous"
  PROVE  TurnsOK'
<1>1. /\ capacity'[k] = c /\ \A j \in Key \ {k} : capacity'[j] = capacity[j]
      /\ rotation'[k] = t /\ \A j \in Key \ {k} : rotation'[j] = rotation[j]
  BY LInvParts DEF IInv, TypeOK
<1>2. \A j \in Key : busy(j) => \E s \in used : rotation[j].successor = {s}
  BY DEF LInv, MintedOK
<1>3. (inUse(t) <=> busy(k)') /\ \A j \in Key \ {k} : busy(j)' <=> busy(j)
  BY <1>1 DEF busy, inUse
<1>4. \A i, j \in Key : busy(i)' /\ busy(j)' /\ rotation'[j].successor = rotation'[i].successor => j = i
  <2> SUFFICES ASSUME NEW i \in Key, NEW j \in Key, busy(i)', busy(j)',
                      rotation'[j].successor = rotation'[i].successor, j # i
               PROVE  FALSE
    OBVIOUS
  <2>1. \A a, b \in Key : busy(a) /\ busy(b) /\ rotation[b].successor = rotation[a].successor => b = a
    BY DEF LInv, TurnsOK
  <2>2. CASE i # k /\ j # k
    BY <1>1, <1>3, <2>1, <2>2
  <2>3. ASSUME NEW x \in Key, x # k, busy(x), inUse(t), rotation[x].successor = t.successor
        PROVE  FALSE
    <3>1. CASE busy(k) /\ t.successor = rotation[k].successor
      BY <2>1, <2>3, <3>1
    <3>2. CASE \E s \in Key \ used : t.successor = {s}
      BY <1>2, <2>3, <3>2
    <3> QED BY <2>3, <3>1, <3>2
  <2>4. CASE i = k
    BY <1>1, <1>3, <2>3, <2>4
  <2>5. CASE j = k
    BY <1>1, <1>3, <2>3, <2>5
  <2> QED BY <2>2, <2>4, <2>5
<1>5. ASSUME NEW i \in Key, NEW s \in Key, busy(i)', rotation'[i].successor = {s}
      PROVE  adoption[s] = "none" /\ ~capacity'[s].held
  <2>1. ASSUME NEW x \in Key, busy(x), rotation[x].successor = {s}
        PROVE  adoption[s] = "none" /\ ~capacity'[s].held
    <3>1. adoption[s] = "none" /\ ~capacity[s].held
      BY <2>1 DEF LInv, TurnsOK
    <3>2. s = k => ~c.held
      BY <2>1, <3>1
    <3> QED BY <1>1, <3>1, <3>2
  <2>2. CASE i # k
    BY <1>1, <1>3, <1>5, <2>1, <2>2
  <2>3. CASE i = k /\ busy(k) /\ t.successor = rotation[k].successor
    BY <1>1, <1>5, <2>1, <2>3
  <2>4. CASE i = k /\ k \in used /\ \E x \in Key \ used : t.successor = {x}
    <3>1. s \notin used /\ s # k
      BY <1>1, <1>5, <2>4
    <3>2. adoption[s] = "none" /\ capacity[s].held = FALSE
      BY <3>1, FreshKey
    <3> QED BY <1>1, <3>1, <3>2
  <2> QED BY <1>1, <1>3, <1>5, <2>2, <2>3, <2>4
<1>6. ASSUME NEW i \in Key, NEW s \in Key, busy(i)', rotation'[i].successor = {s}, rotation'[i].failed
      PROVE  realm'.panes[s].state # "continuous"
  <2>1. CASE i = k
    BY <1>1, <1>6, <2>1
  <2>2. CASE i # k
    <3>1. busy(i) /\ rotation[i].successor = {s} /\ rotation[i].failed
      BY <1>1, <1>3, <1>6, <2>2
    <3>2. PICK x \in used : rotation[i].successor = {x}
      BY <1>2, <3>1
    <3>3. s \in used
      BY <3>1, <3>2
    <3>4. realm.panes[s].state # "continuous"
      BY <3>1 DEF LInv, TurnsOK, pane
    <3> QED BY <3>3, <3>4
  <2> QED BY <2>1, <2>2
<1>7. \A i \in Key :
        /\ rotation'[i].held => /\ capacity'[i].held /\ capacity'[i].active /\ capacity'[i].materialized
                                /\ ~rotation'[i].committed /\ ~rotation'[i].failed
        /\ capacity'[i].active => rotation'[i].held
        /\ capacity'[i].materialized \/ ~capacity'[i].held => capacity'[i].successor = Zero
  <2> SUFFICES ASSUME NEW i \in Key
               PROVE  /\ rotation'[i].held =>
                           /\ capacity'[i].held /\ capacity'[i].active /\ capacity'[i].materialized
                           /\ ~rotation'[i].committed /\ ~rotation'[i].failed
                      /\ capacity'[i].active => rotation'[i].held
                      /\ capacity'[i].materialized \/ ~capacity'[i].held => capacity'[i].successor = Zero
    OBVIOUS
  <2>1. CASE i = k
    BY <1>1, <2>1
  <2>2. CASE i # k
    BY <1>1, <2>2 DEF LInv, TurnsOK
  <2> QED BY <2>1, <2>2
<1> QED
  BY <1>4, <1>5, <1>6, <1>7 DEF TurnsOK, pane

\* It keeps what is known of minted keys.
LEMMA MintedChanged ==
  ASSUME LInv, NEW k \in Key, NEW t \in RotationType, rotation' = [rotation EXCEPT ![k] = t],
         UNCHANGED <<adoption, geometry>>, used \subseteq used', present(realm') \subseteq used',
         inUse(t) => \E s \in used' : t.successor = {s}
  PROVE  MintedOK'
<1>1. rotation'[k] = t /\ \A j \in Key \ {k} : rotation'[j] = rotation[j]
  BY LInvParts DEF IInv, TypeOK
<1>2. \A j \in Key : busy(j)' => \E s \in used' : rotation'[j].successor = {s}
  <2> SUFFICES ASSUME NEW j \in Key, busy(j)'
               PROVE  \E s \in used' : rotation'[j].successor = {s}
    OBVIOUS
  <2>1. CASE j = k
    BY <1>1, <2>1 DEF busy, inUse
  <2>2. CASE j # k
    <3>1. busy(j) /\ rotation'[j] = rotation[j]
      BY <1>1, <2>2 DEF busy
    <3> QED BY <3>1 DEF LInv, MintedOK
  <2> QED BY <2>1, <2>2
<1>3. geometry' \subseteq used' /\ \A j \in Key : adoption'[j] # "none" => j \in used'
  BY DEF LInv, MintedOK
<1> QED
  BY <1>2, <1>3 DEF MintedOK, present

\* The slots are fewer, or the rotations that may use the last one remain.
LEMMA RoomChanged ==
  ASSUME LInv, realm'.slots \in Nat, UNCHANGED restarts,
         \/ realm'.slots < realm.slots
         \/ /\ realm'.slots <= realm.slots
            /\ \A j \in Key : capacity[j].held /\ (~capacity[j].materialized \/ rotation[j].held)
                 => capacity'[j].held /\ (~capacity'[j].materialized \/ rotation'[j].held)
  PROVE  NoRoom'
<1>1. Slots \in Nat /\ realm.slots \in Nat
  BY LedgerAssumption, LInvParts
<1>2. SUFFICES ASSUME realm'.slots >= Slots, restarts = 0
               PROVE  /\ realm'.slots = Slots
                      /\ \E j \in Key : capacity'[j].held /\ (~capacity'[j].materialized \/ rotation'[j].held)
  BY DEF NoRoom
<1>3. realm.slots >= Slots
  BY <1>1, <1>2
<1>4. /\ realm.slots = Slots
      /\ \E j \in Key : capacity[j].held /\ (~capacity[j].materialized \/ rotation[j].held)
  BY <1>2, <1>3 DEF LInv, NoRoom
<1> QED
  BY <1>1, <1>2, <1>4

\* The step of one rotation, put together.
LEMMA RotationKept ==
  ASSUME LInv, IInv', PanesOK', MintedOK', TurnsOK', NoRoom', BooksOK'
  PROVE  LInv'
  BY DEF LInv

-----------------------------------------------------------------------------
(* Rotation capacity.                                                       *)

\* The pane of a generation that gets the hold of a rotation.
heldPane(p) == [holding(p, rollbackHold) EXCEPT
                  !.rollback = [bytes |-> rollbackHold, records |-> PendingRecords],
                  !.capacity = "held"]

\* Taking a rollback hold adds it to what the generation owns and marks it held.
LEMMA HeldBooks ==
  ASSUME NEW p \in PaneType, p.state = "continuous", ~p.slotRetired,
         NEW geo, PaneBooks(p, "settled", FALSE, geo)
  PROVE  LET q == heldPane(p)
         IN /\ q \in PaneType /\ q.state = p.state /\ q.slotRetired = p.slotRetired
            /\ q.charge = p.charge /\ \A d \in Dim : own(q)[d] = own(p)[d] + rollbackHold[d]
            /\ PaneBooks(q, "settled", TRUE, geo)
<1> DEFINE q == heldPane(p)
           h == [bytes |-> rollbackHold, records |-> PendingRecords]
<1>1. rollbackHold \in [Dim -> Nat] /\ PendingRecords \in Nat /\ PendingBytes \in Nat /\ Frame \in Nat
  BY CostAmounts, LedgerAssumption
<1>2. h \in HoldType /\ h.bytes = rollbackHold /\ Shaped(h)
  <2>1. h \in HoldType
    BY <1>1 DEF HoldType
  <2>2. h.bytes["physical"] = PendingBytes + PendingRecords * Frame /\ h.bytes["logical"] = PendingBytes
        /\ h.records = PendingRecords
    BY DEF rollbackHold, Bytes, Dim
  <2>3. PendingRecords * Frame \in Nat
    BY <1>1
  <2> QED BY <1>1, <2>1, <2>2, <2>3 DEF Shaped
<1>3. /\ holding(p, rollbackHold) \in PaneType /\ holding(p, rollbackHold).held = Plus(p.held, rollbackHold)
  BY <1>1, HoldingType
<1> HIDE DEF h
<1>4. /\ q \in PaneType /\ q.state = p.state /\ q.slotRetired = p.slotRetired
      /\ q.charge = p.charge /\ q.adoption = p.adoption /\ q.forward = p.forward
      /\ q.marks = p.marks /\ q.rollback = h /\ q.capacity = "held"
      /\ q.held = Plus(p.held, rollbackHold)
  BY <1>2, <1>3 DEF heldPane, holding, PaneType, h
<1> HIDE DEF q
<1>5. /\ p.adoption = Zero /\ p.forward = NoHold /\ p.rollback = NoHold /\ \A d \in Dim : own(p)[d] = 0
  BY SettledOwnsNothing
<1>6. \A d \in Dim : own(q)[d] = own(p)[d] + rollbackHold[d]
  <2> SUFFICES ASSUME NEW d \in Dim PROVE own(q)[d] = own(p)[d] + rollbackHold[d]
    OBVIOUS
  <2>1. own(q)[d] = q.adoption[d] + q.rollback.bytes[d] + q.forward.bytes[d]
    BY <1>4, OwnParts
  <2>2. q.adoption[d] = 0 /\ q.forward.bytes[d] = 0 /\ q.rollback.bytes[d] = rollbackHold[d]
    BY <1>2, <1>4, <1>5, EmptyHold
  <2> QED BY <1>1, <1>5, <2>1, <2>2
<1>7. \A d \in Dim : q.held[d] = own(q)[d] + (IF geo THEN Frame ELSE 0)
  <2> SUFFICES ASSUME NEW d \in Dim PROVE q.held[d] = own(q)[d] + (IF geo THEN Frame ELSE 0)
    OBVIOUS
  <2>1. p.held[d] = own(p)[d] + (IF geo THEN Frame ELSE 0)
    BY DEF PaneBooks
  <2>2. q.held[d] = p.held[d] + rollbackHold[d]
    BY <1>4 DEF Plus
  <2>3. rollbackHold[d] \in Nat /\ own(p)[d] \in Nat
    BY <1>1, OwnParts
  <2> QED BY <1>1, <1>6, <2>1, <2>2, <2>3
<1>8. Shaped(q.forward) /\ Shaped(q.rollback) /\ "settled" = "settled"
  BY <1>2, <1>4 DEF PaneBooks
<1>9. PaneBooks(q, "settled", TRUE, geo)
  BY <1>4, <1>5, <1>7, <1>8 DEF PaneBooks
<1> QED
  BY <1>4, <1>6, <1>9 DEF q

\* The realm in which a rotation of k got its holds and its slot.
reserveCapacity(r, k) ==
  [takeSlot(r) EXCEPT !.reserved = Plus(Plus(@, rollbackHold), successorHold),
                      !.panes[k] = heldPane(@)]

\* Reserving a capacity takes a slot and holds R1 for the pane and R2+R3 for no pane yet.
LEMMA CapacityReserved ==
  ASSUME NEW r, Good(r), NEW k \in Key, r.panes[k].state = "continuous", ~r.panes[k].slotRetired,
         NEW geo, PaneBooks(r.panes[k], "settled", FALSE, geo), Good(reserveCapacity(r, k))
  PROVE  LET q == reserveCapacity(r, k) IN
         /\ Shifted(r, q, 1, successorHold) /\ PaneBooks(q.panes[k], "settled", TRUE, geo)
         /\ q.panes[k].state = r.panes[k].state
         /\ q.slots = r.slots + 1 /\ \A j \in Key \ {k} : q.panes[j] = r.panes[j]
<1> DEFINE o == r.panes[k]
           q == reserveCapacity(r, k)
           g == successorHold
           h == rollbackHold
           p == heldPane(o)
<1>1. r.panes \in [Key -> PaneType] /\ o \in PaneType /\ g \in [Dim -> Nat] /\ g \in [Dim -> Int]
      /\ h \in [Dim -> Nat]
  BY CostAmounts DEF Good, RealmType
<1>2. /\ p \in PaneType /\ p.state = o.state /\ p.slotRetired = o.slotRetired
      /\ p.charge = o.charge /\ \A d \in Dim : own(p)[d] = own(o)[d] + h[d]
  BY <1>1, HeldBooks
<1>22. PaneBooks(p, "settled", TRUE, geo)
  BY <1>1, HeldBooks
<1>3. /\ q.panes = [r.panes EXCEPT ![k] = p] /\ q.reserved = Plus(Plus(r.reserved, h), g)
      /\ q.total = r.total /\ q.orphan = r.orphan /\ q.slots = r.slots + 1 /\ Good(q)
  BY DEF reserveCapacity, takeSlot, Good, RealmType
<1> HIDE DEF p, g, h, q
<1>4. \A d \in Dim : q.total[d] - q.orphan[d] - p.charge[d] = r.total[d] - r.orphan[d] - o.charge[d]
  BY <1>2, <1>3
<1>5. \A d \in Dim : q.reserved[d] - own(p)[d] = r.reserved[d] - own(o)[d] + g[d]
  <2> SUFFICES ASSUME NEW d \in Dim
               PROVE  q.reserved[d] - own(p)[d] = r.reserved[d] - own(o)[d] + g[d]
    OBVIOUS
  <2>1. r.reserved[d] \in Int /\ own(o)[d] \in Int /\ g[d] \in Int /\ h[d] \in Int
    BY <1>1, OwnParts DEF Good, RealmType, Amount
  <2>2. q.reserved[d] = r.reserved[d] + h[d] + g[d] /\ own(p)[d] = own(o)[d] + h[d]
    BY <1>2, <1>3 DEF Plus
  <2> HIDE DEF o
  <2> QED BY <2>1, <2>2
<1>6. q.slots - counts(p) = r.slots - counts(o) + 1
  BY <1>2, <1>3 DEF counts, Good, RealmType
<1>7. Shifted(r, q, 1, g)
  BY <1>1, <1>2, <1>3, <1>4, <1>5, <1>6, PaneShifts
<1>8. q.panes[k] = p /\ \A j \in Key \ {k} : q.panes[j] = r.panes[j]
  BY <1>1, <1>3
<1> QED
  BY <1>2, <1>22, <1>3, <1>7, <1>8 DEF g, q

\* A rotation that changes one generation, whose holds are in order again,
LEMMA OnePane ==
  ASSUME LInv, NEW k \in Key, UNCHANGED geometry,
         \A j \in Key \ {k} : /\ realm'.panes[j] = realm.panes[j] /\ kind(j)' = kind(j)
                             /\ capacity'[j].held = capacity[j].held,
         PaneBooks(realm'.panes[k], kind(k)', capacity'[k].held, k \in geometry)
  PROVE  PanesOK'
<1> SUFFICES ASSUME NEW j \in Key
             PROVE  PaneBooks(realm'.panes[j], kind(j)', capacity'[j].held, j \in geometry')
  BY DEF PanesOK, pane
<1>1. CASE j = k
  BY <1>1
<1>2. CASE j # k
  <2>1. PaneBooks(realm.panes[j], kind(j), capacity[j].held, j \in geometry)
    BY LInvParts
  <2> QED BY <1>2, <2>1
<1> QED BY <1>1, <1>2

\* and one that changes a predecessor and its successor.
LEMMA TwoPanes ==
  ASSUME LInv, NEW k \in Key, NEW s \in Key, UNCHANGED geometry,
         \A j \in Key : j # k /\ j # s =>
           /\ realm'.panes[j] = realm.panes[j] /\ kind(j)' = kind(j)
           /\ capacity'[j].held = capacity[j].held,
         PaneBooks(realm'.panes[k], kind(k)', capacity'[k].held, k \in geometry),
         PaneBooks(realm'.panes[s], kind(s)', capacity'[s].held, s \in geometry)
  PROVE  PanesOK'
<1> SUFFICES ASSUME NEW j \in Key
             PROVE  PaneBooks(realm'.panes[j], kind(j)', capacity'[j].held, j \in geometry')
  BY DEF PanesOK, pane
<1>1. CASE j = k \/ j = s
  BY <1>1
<1>2. CASE j # k /\ j # s
  <2>1. PaneBooks(realm.panes[j], kind(j), capacity[j].held, j \in geometry)
    BY LInvParts
  <2> QED BY <1>2, <2>1
<1> QED BY <1>1, <1>2

\* BeginRotationCapacity keeps the books.
LEMMA BeginRotationCapacityKeeps ==
  ASSUME LInv, NEW k \in Key, BeginRotationCapacity(k)
  PROVE  LInv'
<1> DEFINE c == [NoCapacity EXCEPT !.held = TRUE, !.successor = successorHold]
           t == NoRotation
<1>1. IInv'
  BY BeginRotationCapacityStep DEF LInv
<1>2. /\ live(k) /\ ~provisional(k) /\ ~rotating(k) /\ ~realm.panes[k].slotRetired
      /\ realm.panes[k].capacity = "none" /\ realm.slots < Slots
      /\ realm' = reserveCapacity(realm, k)
      /\ capacity' = [capacity EXCEPT ![k] = c] /\ rotation' = [rotation EXCEPT ![k] = t]
      /\ UNCHANGED <<adoption, geometry, used, restarts>>
  BY DEF BeginRotationCapacity, pane, mayReserveSlot, reserveCapacity, heldPane, takeSlot
<1>3. Good(realm) /\ Good(realm')
  BY <1>1, LInvParts DEF IInv, Capped, TypeOK, Good
<1>4. realm.panes[k].state = "continuous" /\ k \in used
  <2>1. realm.panes[k].state = "continuous"
    BY <1>2 DEF live, pane
  <2> QED BY <2>1 DEF LInv, MintedOK, present
<1>5. kind(k) = "settled" /\ capacity[k].held = FALSE
  BY <1>2, Activated, CapacityHeld DEF pane
<1>6. PaneBooks(realm.panes[k], "settled", FALSE, k \in geometry)
  BY <1>5, LInvParts
<1>7. /\ Shifted(realm, realm', 1, successorHold)
      /\ PaneBooks(realm'.panes[k], "settled", TRUE, k \in geometry)
      /\ realm'.panes[k].state = realm.panes[k].state
      /\ realm'.slots = realm.slots + 1 /\ \A j \in Key \ {k} : realm'.panes[j] = realm.panes[j]
  BY <1>2, <1>3, <1>4, <1>6, CapacityReserved
<1>8. c \in CapacityType /\ c.held = TRUE /\ ~c.active /\ ~c.materialized /\ c.successor = successorHold
      /\ successorHold \in [Dim -> Nat] /\ successorHold \in [Dim -> Int]
  <2>1. successorHold \in [Dim -> Nat] /\ successorHold \in [Dim -> Int]
    BY CostAmounts
  <2>2. NoCapacity \in CapacityType /\ ~NoCapacity.active /\ ~NoCapacity.materialized
    BY Idle DEF NoCapacity
  <2>3. c.held = TRUE /\ c.active = NoCapacity.active /\ c.materialized = NoCapacity.materialized
        /\ c.successor = successorHold /\ c \in CapacityType
    BY <2>1, <2>2 DEF CapacityType
  <2> QED BY <2>1, <2>2, <2>3
<1>9. t \in RotationType /\ ~inUse(t) /\ ~t.held
  BY Idle DEF NoRotation, inUse
<1>10. /\ capacity[k] \in CapacityType /\ capacity[k].successor = Zero
       /\ ~rotation[k].held
  <2>1. capacity[k] \in CapacityType
    BY LInvParts DEF IInv, TypeOK
  <2>2. ~rotation[k].held /\ capacity[k].successor = Zero
    BY <1>5 DEF LInv, TurnsOK
  <2> QED BY <2>1, <2>2
<1>11. capacity'[k] = c /\ \A j \in Key \ {k} : capacity'[j] = capacity[j]
  BY <1>2, LInvParts DEF IInv, TypeOK
<1> HIDE DEF c, t
<1>12. \A j \in Key : kind(j)' = kind(j)
  BY <1>2, <1>9, <1>10, KindOther
<1>13. PanesOK'
  <2>1. \A j \in Key \ {k} : /\ realm'.panes[j] = realm.panes[j] /\ kind(j)' = kind(j)
                             /\ capacity'[j].held = capacity[j].held
    BY <1>2, <1>7, <1>11, <1>12
  <2>2. PaneBooks(realm'.panes[k], kind(k)', capacity'[k].held, k \in geometry)
    BY <1>2, <1>5, <1>7, <1>8, <1>11, <1>12
  <2> QED BY <1>2, <2>1, <2>2, OnePane
<1>14. \A j \in Key : busy(j) => rotation[j].successor # {k}
  <2> SUFFICES ASSUME NEW j \in Key, busy(j), rotation[j].successor = {k}
               PROVE  FALSE
    OBVIOUS
  <2>1. rotation[j].failed => realm.panes[k].state # "continuous"
    BY DEF LInv, TurnsOK, pane
  <2>2. ~rotation[j].committed
    BY <1>2 DEF rotating
  <2>3. ~rotation[j].held
    BY <1>2 DEF provisional, successorOf
  <2> QED BY <1>4, <2>1, <2>2, <2>3 DEF busy
<1>15. TurnsOK'
  <2>1. \A j \in used : realm'.panes[j].state = "continuous" => realm.panes[j].state = "continuous"
    <3> SUFFICES ASSUME NEW j \in used, realm'.panes[j].state = "continuous"
                 PROVE  realm.panes[j].state = "continuous"
      OBVIOUS
    <3>1. j \in Key
      BY LInvParts, IInvGood
    <3> QED BY <1>7, <3>1
  <2>2. ~t.failed /\ UNCHANGED adoption
    BY <1>2, <1>9 DEF inUse
  <2> QED BY <1>2, <1>8, <1>9, <1>14, <2>1, <2>2, TurnsChanged
<1>16. MintedOK'
  <2>1. present(realm') \subseteq used'
    BY <1>2, <1>4, <1>7 DEF present, LInv, MintedOK
  <2> QED BY <1>2, <1>9, <2>1, MintedChanged
<1>17. NoRoom'
  <2>1. Slots \in Nat /\ realm.slots \in Nat
    BY LedgerAssumption, LInvParts
  <2>2. realm'.slots >= Slots => realm'.slots = Slots
    BY <1>2, <1>7, <2>1
  <2>3. capacity'[k].held /\ ~capacity'[k].materialized
    BY <1>8, <1>11
  <2> QED BY <2>2, <2>3 DEF NoRoom
<1>18. BooksOK'
  <2>1. /\ \A d \in Dim : owed(d)' = owed(d) + (c.successor[d] - capacity[k].successor[d])
        /\ Cardinality(waiting)' = Cardinality(waiting) + (waits(c) - waits(capacity[k]))
    BY <1>2, <1>8, CapacityOwed
  <2>2. waits(c) - waits(capacity[k]) = 1
    BY <1>5, <1>8 DEF waits
  <2>3. \A d \in Dim : c.successor[d] - capacity[k].successor[d] = successorHold[d]
    BY <1>8, <1>10, EmptyHold
  <2>4. \A d \in Dim : owed(d)' = owed(d) + successorHold[d]
    BY <2>1, <2>3
  <2>5. Cardinality(waiting)' = Cardinality(waiting) + 1
    BY <2>1, <2>2
  <2> QED BY <1>7, <1>8, <2>4, <2>5, BooksShifted
<1> QED
  BY <1>1, <1>13, <1>15, <1>16, <1>17, <1>18, RotationKept

\* A generation whose rotation capacity is held is activated and has its slot.
LEMMA CapacityKept ==
  ASSUME LInv, NEW k \in Key, capacity[k].held
  PROVE  /\ capacity[k].held = TRUE /\ kind(k) = "settled" /\ ~realm.panes[k].slotRetired
         /\ realm.panes[k].state # "absent" /\ realm.panes[k].capacity # "none" /\ k \in used
         /\ PaneBooks(realm.panes[k], "settled", TRUE, k \in geometry)
<1>1. capacity[k].held = TRUE
  BY CapacityHeld
<1>2. PaneBooks(realm.panes[k], kind(k), capacity[k].held, k \in geometry)
  BY LInvParts
<1>3. realm.panes[k].capacity # "none"
  BY <1>1, <1>2 DEF PaneBooks
<1>4. ~realm.panes[k].slotRetired
  BY <1>2, <1>3 DEF PaneBooks
<1>5. kind(k) = "settled"
  BY <1>2, <1>3 DEF PaneBooks
<1>6. realm.panes[k].state # "absent"
  BY <1>2, <1>3, AbsentBooks DEF PaneBooks, Absent
<1>7. PaneBooks(realm.panes[k], "settled", TRUE, k \in geometry)
  BY <1>1, <1>2, <1>5
<1>8. k \in used
  BY <1>6 DEF LInv, MintedOK, present
<1> QED
  BY <1>1, <1>3, <1>4, <1>5, <1>6, <1>7, <1>8

\* A capacity that waits for its successor has a slot.
LEMMA WaitingSlot ==
  ASSUME LInv, NEW k \in Key, capacity[k].held, ~capacity[k].materialized
  PROVE  realm.slots > 0
<1>1. k \in waiting /\ IsFiniteSet(waiting) /\ Cardinality(waiting) \in Nat
  BY KeysFinite DEF waiting
<1>2. Cardinality(waiting) # 0
  BY <1>1, FS_EmptySet
<1>3. loose(realm) = Cardinality(waiting)
  BY DEF LInv, BooksOK
<1>4. Cardinality(counted(realm)) \in Nat /\ realm.slots \in Nat
  BY LInvParts, KeySubsets DEF counted
<1>5. loose(realm) = realm.slots - Cardinality(counted(realm))
  BY DEF loose
<1> QED
  BY <1>1, <1>2, <1>3, <1>4, <1>5

\* The realm after part of a hold that no generation owns is given back.
givenBack(r, a) == [r EXCEPT !.reserved = Minus(@, a)]

\* Giving back what no generation owns changes what is reserved and nothing else.
LEMMA BackShifts ==
  ASSUME NEW r, Good(r), NEW a \in [Dim -> Nat], Good(givenBack(r, a))
  PROVE  LET q == givenBack(r, a)
         IN Shifted(r, q, 0, Given(a)) /\ q.panes = r.panes /\ q.slots = r.slots
<1> DEFINE q == givenBack(r, a)
           e == Given(a)
<1>1. q.panes = r.panes /\ q.total = r.total /\ q.orphan = r.orphan /\ q.slots = r.slots
      /\ q.reserved = Minus(r.reserved, a)
  BY DEF givenBack, Good, RealmType
<1>2. e \in [Dim -> Int] /\ \A d \in Dim : e[d] = 0 - a[d]
  BY GivenAmount
<1>3. r \in RealmType /\ r.panes \in [Key -> PaneType]
  BY DEF Good, RealmType
<1> HIDE DEF q, e
<1>4. \A d \in Dim : unpaid(q, d) = unpaid(r, d)
  BY <1>1 DEF unpaid
<1>5. ASSUME NEW d \in Dim PROVE extra(q, d) = extra(r, d) + e[d]
  <2> DEFINE t == sumOf(owns(r.panes, d), Key)
  <2>1. extra(r, d) = r.reserved[d] - t /\ extra(q, d) = q.reserved[d] - t
    BY <1>1 DEF extra
  <2>2. r.reserved[d] \in Int /\ a[d] \in Int /\ extra(r, d) \in Int
    BY <1>3, BalanceType DEF RealmType, Amount
  <2>3. t \in Int
    <3>1. Weights(owns(r.panes, d))
      BY <1>3, OwnsAre DEF Weights
    <3> QED BY <3>1, TotalType
  <2>4. q.reserved[d] = r.reserved[d] - a[d]
    BY <1>1 DEF Minus
  <2> HIDE DEF t
  <2> QED BY <1>2, <2>1, <2>2, <2>3, <2>4
<1>6. loose(q) = loose(r) + 0
  BY <1>1, <1>3, BalanceType DEF loose, counted
<1>7. Good(q)
  BY DEF q
<1>8. Shifted(r, q, 0, e)
  BY <1>4, <1>5, <1>6, <1>7 DEF Shifted
<1> QED
  BY <1>1, <1>8 DEF q, e

\* A capacity that lets go: its generation keeps its charge and its slot, the
\* hold for the successor and the slot kept for it are given back.
LEMMA ReleaseMoves ==
  ASSUME LInv, NEW k \in Key, capacity[k].held, Good(realm'),
         NEW a \in [Dim -> Nat], a = capacity[k].successor,
         realm' = IF capacity[k].materialized THEN releaseRollback(realm, k)
                  ELSE releaseSlot(givenBack(releaseRollback(realm, k), a))
  PROVE  /\ Shifted(realm, realm', IF capacity[k].materialized THEN 0 ELSE -1, Given(a))
         /\ PaneBooks(realm'.panes[k], "settled", FALSE, k \in geometry)
         /\ realm'.panes[k].state = realm.panes[k].state
         /\ realm'.slots = realm.slots - (IF capacity[k].materialized THEN 0 ELSE 1)
         /\ \A j \in Key \ {k} : realm'.panes[j] = realm.panes[j]
<1> DEFINE r == releaseRollback(realm, k)
           q == givenBack(r, a)
           e == Given(a)
<1>1. Good(realm) /\ PaneBooks(realm.panes[k], "settled", TRUE, k \in geometry) /\ realm.slots \in Nat
  BY CapacityKept, LInvParts
<1>2. /\ Only(realm, r, k, 0) /\ PaneBooks(r.panes[k], "settled", FALSE, k \in geometry)
      /\ r.slots = realm.slots /\ r.panes[k].state = realm.panes[k].state
  BY <1>1, RollbackMoves
<1>3. /\ Moved(realm, r, 0) /\ Good(r) /\ \A j \in Key \ {k} : r.panes[j] = realm.panes[j]
  BY <1>2 DEF Only, Moved
<1>4. e \in [Dim -> Int] /\ \A d \in Dim : e[d] = 0 - a[d]
  BY GivenAmount
<1> HIDE DEF r, e
<1>5. CASE capacity[k].materialized
  <2>1. realm' = r /\ a = Zero
    BY <1>5 DEF LInv, TurnsOK, r
  <2>2. \A d \in Dim : e[d] = 0
    BY <1>4, <2>1, EmptyHold
  <2>3. \A d \in Dim : extra(realm, d) \in Int
    BY <1>1, BalanceType DEF Good
  <2>4. Shifted(realm, r, 0, e)
    BY <1>3, <2>2, <2>3 DEF Moved, Shifted
  <2>5. realm'.slots = realm.slots - 0
    BY <1>1, <1>2, <2>1
  <2> QED BY <1>2, <1>3, <1>5, <2>1, <2>4, <2>5 DEF e
<1>6. CASE ~capacity[k].materialized
  <2>1. realm' = releaseSlot(q) /\ realm.slots > 0
    BY <1>6, WaitingSlot DEF r
  <2>2. Good(q)
    <3>1. r.reserved \in Amount /\ r.total \in Amount /\ q.reserved = Minus(r.reserved, a)
          /\ q.total = r.total /\ q.panes = r.panes
      BY <1>3 DEF Good, RealmType, givenBack
    <3>2. q.reserved \in Amount /\ \A d \in Dim : q.reserved[d] <= r.reserved[d]
      BY <3>1, MinusAmount
    <3>3. q \in RealmType
      BY <1>3, <3>2 DEF Good, RealmType, givenBack
    <3>4. Capped(q)
      <4>1. \A d \in Dim : q.total[d] + q.reserved[d] <= RealmCap[d]
        BY <1>3, <3>1, <3>2, LedgerAssumption DEF Good, Capped, Amount
      <4> QED BY <1>3, <3>1, <4>1 DEF Good, Capped
    <3> QED BY <3>3, <3>4 DEF Good
  <2>3. Shifted(r, q, 0, e) /\ q.panes = r.panes /\ q.slots = r.slots
    BY <1>3, <2>2, BackShifts DEF e
  <2> HIDE DEF q
  <2>4. Shifted(realm, q, 0, e)
    <3>1. /\ Good(realm) /\ Moved(realm, r, 0) /\ Shifted(r, q, 0, e) /\ e \in [Dim -> Int]
          /\ 0 = 0 + 0 /\ 0 \in Int
      BY <1>1, <1>3, <1>4, <2>3
    <3> QED BY <3>1, ShiftedThen
  <2>5. /\ Moved(q, releaseSlot(q), -1) /\ releaseSlot(q).panes = q.panes
        /\ releaseSlot(q).slots = q.slots - 1
    BY <1>2, <2>1, <2>2, <2>3, SlotMoves
  <2>6. Shifted(realm, realm', -1, e)
    <3> DEFINE l == -1
    <3>1. /\ Good(realm) /\ Shifted(realm, q, 0, e) /\ Moved(q, realm', l) /\ e \in [Dim -> Int]
          /\ l = 0 + l /\ l \in Int /\ 0 \in Int
      BY <1>1, <1>4, <2>1, <2>4, <2>5
    <3> HIDE DEF l
    <3>2. Shifted(realm, realm', l, e)
      BY <3>1, ShiftedThen
    <3> QED BY <3>2 DEF l
  <2> QED BY <1>2, <1>3, <1>6, <2>1, <2>3, <2>5, <2>6 DEF e
<1> QED
  BY <1>5, <1>6

\* ReleaseCapacity keeps the books.
LEMMA ReleaseCapacityKeeps ==
  ASSUME LInv, NEW k \in Key, ReleaseCapacity(k)
  PROVE  LInv'
<1> DEFINE a == capacity[k].successor
           c == NoCapacity
           t == rotation[k]
           n == IF capacity[k].materialized THEN 0 ELSE -1
           e == Given(a)
<1>1. IInv'
  BY ReleaseCapacityStep DEF LInv
<1>2. /\ capacity[k].held /\ ~capacity[k].active /\ capacity' = [capacity EXCEPT ![k] = c]
      /\ UNCHANGED <<rotation, adoption, geometry, used, restarts>>
      /\ realm' = IF capacity[k].materialized THEN releaseRollback(realm, k)
                  ELSE releaseSlot(givenBack(releaseRollback(realm, k), a))
  BY DEF ReleaseCapacity, givenBack
<1>3. Good(realm')
  BY <1>1 DEF IInv, Capped, TypeOK, Good
<1>4. capacity[k] \in CapacityType /\ a \in [Dim -> Nat] /\ t \in RotationType
      /\ rotation' = [rotation EXCEPT ![k] = t]
  BY <1>2, LInvParts DEF IInv, TypeOK, CapacityType
<1>5. /\ Shifted(realm, realm', n, e)
      /\ PaneBooks(realm'.panes[k], "settled", FALSE, k \in geometry)
      /\ realm'.panes[k].state = realm.panes[k].state
      /\ realm'.slots = realm.slots - (IF capacity[k].materialized THEN 0 ELSE 1)
      /\ \A j \in Key \ {k} : realm'.panes[j] = realm.panes[j]
  BY <1>2, <1>3, <1>4, ReleaseMoves
<1>6. c \in CapacityType /\ c.held = FALSE /\ ~c.active /\ c.successor = Zero
  BY Idle DEF NoCapacity
<1>7. ~t.held /\ kind(k) = "settled"
  BY <1>2, CapacityKept DEF LInv, TurnsOK
<1>8. capacity'[k] = c /\ \A j \in Key \ {k} : capacity'[j] = capacity[j]
  BY <1>2, LInvParts DEF IInv, TypeOK
<1>9. \A j \in Key : realm'.panes[j].state = realm.panes[j].state
  BY <1>5
<1>10. n \in Int /\ e \in [Dim -> Int] /\ \A d \in Dim : e[d] = 0 - a[d] /\ a[d] \in Int
  BY <1>4, GivenAmount
<1> HIDE DEF c, t, n, e, a
<1>11. \A j \in Key : kind(j)' = kind(j)
  BY <1>2, KindKept
<1>12. PanesOK'
  <2>1. \A j \in Key \ {k} : /\ realm'.panes[j] = realm.panes[j] /\ kind(j)' = kind(j)
                             /\ capacity'[j].held = capacity[j].held
    BY <1>5, <1>8, <1>11
  <2>2. PaneBooks(realm'.panes[k], kind(k)', capacity'[k].held, k \in geometry)
    BY <1>5, <1>6, <1>7, <1>8, <1>11
  <2> QED BY <1>2, <2>1, <2>2, OnePane
<1>13. TurnsOK'
  <2>1. inUse(t) => busy(k) /\ t.successor = rotation[k].successor
    BY DEF inUse, busy, t
  <2>2. t.failed => \A s \in Key : t.successor = {s} => realm'.panes[s].state # "continuous"
    BY <1>9 DEF LInv, TurnsOK, busy, t, pane
  <2>3. \A j \in used : realm'.panes[j].state = "continuous" => realm.panes[j].state = "continuous"
    BY <1>9, LInvParts DEF IInv, TypeOK
  <2>4. UNCHANGED adoption
    BY <1>2
  <2> QED BY <1>2, <1>4, <1>6, <1>7, <2>1, <2>2, <2>3, <2>4, TurnsChanged
<1>14. MintedOK'
  <2>1. present(realm') \subseteq used'
    BY <1>2, <1>9 DEF present, LInv, MintedOK
  <2> QED BY <1>2, <2>1, <1>9, MintedKept DEF LInv, MintedOK
<1>15. NoRoom'
  <2>1. realm'.slots \in Nat /\ realm.slots \in Nat
    BY <1>3, LInvParts DEF Good, RealmType
  <2>2. CASE capacity[k].materialized
    <3>1. realm'.slots <= realm.slots
      BY <1>5, <2>1, <2>2
    <3>2. \A j \in Key : capacity[j].held /\ (~capacity[j].materialized \/ rotation[j].held)
                 => capacity'[j].held /\ (~capacity'[j].materialized \/ rotation'[j].held)
      BY <1>2, <1>7, <1>8, <2>2 DEF t
    <3> QED BY <1>2, <2>1, <3>1, <3>2, RoomChanged
  <2>3. CASE ~capacity[k].materialized
    <3>1. realm'.slots < realm.slots
      BY <1>5, <2>1, <2>3
    <3> QED BY <1>2, <2>1, <3>1, RoomChanged
  <2> QED BY <2>2, <2>3
<1>16. BooksOK'
  <2>1. /\ \A d \in Dim : owed(d)' = owed(d) + (c.successor[d] - capacity[k].successor[d])
        /\ Cardinality(waiting)' = Cardinality(waiting) + (waits(c) - waits(capacity[k]))
    BY <1>2, <1>6, CapacityOwed
  <2>2. waits(c) - waits(capacity[k]) = n
    BY <1>2, <1>6 DEF waits, n
  <2>3. \A d \in Dim : c.successor[d] - capacity[k].successor[d] = e[d]
    BY <1>6, <1>10, EmptyHold DEF a
  <2>4. \A d \in Dim : owed(d)' = owed(d) + e[d]
    BY <2>1, <2>3
  <2>5. Cardinality(waiting)' = Cardinality(waiting) + n
    BY <2>1, <2>2
  <2> QED BY <1>5, <1>10, <2>4, <2>5, BooksShifted
<1> QED
  BY <1>1, <1>12, <1>13, <1>14, <1>15, <1>16, RotationKept

-----------------------------------------------------------------------------
(* Beginning a rotation.                                                    *)

\* What a rotated successor gets of the hold its capacity kept for it.
successorRest == Minus(successorHold, Bytes(0, HeaderReserve))
forwardHold == [bytes |-> successorRest, records |-> BootstrapRecords + PendingRecords]
successorPane == [FreshPane EXCEPT !.held = successorRest, !.forward = forwardHold]

\* What is left of R2+R3 once the header's part is returned is an amount of the right shape.
LEMMA RestIs ==
  /\ successorRest \in [Dim -> Nat] /\ forwardHold \in HoldType
  /\ forwardHold.bytes = successorRest /\ Shaped(forwardHold)
  /\ \A d \in Dim : successorRest[d] = successorHold[d] - Bytes(0, HeaderReserve)[d]
<1>1. /\ successorHold \in [Dim -> Nat] /\ Bytes(0, HeaderReserve) \in [Dim -> Nat]
      /\ \A d \in Dim : Bytes(0, HeaderReserve)[d] <= successorHold[d]
  BY CostAmounts
<1>2. successorRest \in [Dim -> Nat]
      /\ \A d \in Dim : successorRest[d] = successorHold[d] - Bytes(0, HeaderReserve)[d]
  BY <1>1 DEF successorRest, Minus
<1>3. /\ BootstrapRecords \in Nat /\ PendingRecords \in Nat /\ Frame \in Nat
      /\ BootstrapBytes \in Nat /\ PendingBytes \in Nat /\ HeaderReserve \in Nat
  BY LedgerAssumption
<1> DEFINE b == BootstrapRecords * Frame
           p == PendingRecords * Frame
<1>4. b \in Nat /\ p \in Nat /\ (BootstrapRecords + PendingRecords) * Frame = b + p
  BY <1>3
<1>5. /\ successorHold["logical"] = BootstrapBytes + PendingBytes
      /\ successorHold["physical"] = HeaderReserve + BootstrapBytes + b + PendingBytes + p
      /\ Bytes(0, HeaderReserve)["logical"] = 0 /\ Bytes(0, HeaderReserve)["physical"] = HeaderReserve
      /\ "logical" \in Dim /\ "physical" \in Dim
  BY DEF successorHold, Bytes, Dim
<1>6. /\ successorRest["logical"] = BootstrapBytes + PendingBytes
      /\ successorRest["physical"] = BootstrapBytes + b + PendingBytes + p
  <2> HIDE DEF b, p
  <2>1. successorRest["logical"] = successorHold["logical"] - Bytes(0, HeaderReserve)["logical"]
        /\ successorRest["physical"] = successorHold["physical"] - Bytes(0, HeaderReserve)["physical"]
    BY <1>2, <1>5
  <2> QED BY <1>3, <1>4, <1>5, <2>1
<1>7. forwardHold \in HoldType /\ forwardHold.bytes = successorRest
      /\ forwardHold.records = BootstrapRecords + PendingRecords
  BY <1>2, <1>3 DEF forwardHold, HoldType
<1>8. Shaped(forwardHold)
  <2> HIDE DEF b, p
  <2>1. forwardHold.records * Frame = b + p
    BY <1>4, <1>7
  <2>2. forwardHold.bytes["physical"] >= forwardHold.bytes["logical"] + (b + p)
    BY <1>3, <1>4, <1>6, <1>7
  <2> QED BY <2>1, <2>2 DEF Shaped
<1> QED
  BY <1>2, <1>7, <1>8

\* The pane of a rotated successor.
LEMMA SuccessorBooks ==
  /\ successorPane \in PaneType /\ successorPane.charge = headerCost
  /\ successorPane.state = "continuous" /\ ~successorPane.slotRetired
  /\ \A d \in Dim : own(successorPane)[d] = successorRest[d]
  /\ PaneBooks(successorPane, "rotating", FALSE, FALSE)
<1> DEFINE p == successorPane
           h == successorRest
<1>1. h \in [Dim -> Nat] /\ forwardHold \in HoldType /\ forwardHold.bytes = h /\ Shaped(forwardHold)
  BY RestIs
<1>2. /\ p \in PaneType /\ p.charge = headerCost /\ p.held = h /\ p.adoption = Zero
      /\ p.rollback = NoHold /\ p.forward = forwardHold /\ p.capacity = "none"
      /\ p.state = "continuous" /\ ~p.slotRetired /\ p.marks = {"attributed", "file"}
  <2>1. h \in Amount
    BY <1>1 DEF Amount
  <2> QED BY <1>1, <2>1, FreshBooks DEF successorPane, PaneType
<1> HIDE DEF p, h
<1>3. \A d \in Dim : own(p)[d] = h[d]
  <2> SUFFICES ASSUME NEW d \in Dim PROVE own(p)[d] = h[d]
    OBVIOUS
  <2>1. /\ own(p)[d] = p.adoption[d] + p.rollback.bytes[d] + p.forward.bytes[d]
        /\ NoHold.bytes[d] = 0 /\ Zero[d] = 0 /\ h[d] \in Nat
    BY <1>1, <1>2, OwnParts, EmptyHold
  <2> QED BY <1>1, <1>2, <2>1
<1>4. PaneBooks(p, "rotating", FALSE, FALSE)
  <2>1. \A d \in Dim : p.held[d] = own(p)[d] + 0
    BY <1>1, <1>2, <1>3
  <2> QED BY <1>1, <1>2, <2>1, EmptyHold DEF PaneBooks
<1> QED
  BY <1>2, <1>3, <1>4 DEF p, h

\* The realm in which a rotated successor was made: the hold of the capacity is
\* its own now, less the reserve for its header.
madeSuccessor(r, s) ==
  [materialize(r, s) EXCEPT !.reserved = Minus(@, Bytes(0, HeaderReserve)),
                            !.panes[s] = [@ EXCEPT !.held = successorRest, !.forward = forwardHold]]

\* Making the successor moves R2+R3, less the header's part, into its forward credit.
LEMMA SuccessorMade ==
  ASSUME NEW r, Good(r), NEW s \in Key, r.panes[s] = Absent, Good(madeSuccessor(r, s))
  PROVE  LET q == madeSuccessor(r, s)
         IN /\ Shifted(r, q, -1, Given(successorHold)) /\ q.slots = r.slots
            /\ \A j \in Key \ {s} : q.panes[j] = r.panes[j]
            /\ q.panes[s].state = "continuous" /\ PaneBooks(q.panes[s], "rotating", FALSE, FALSE)
<1> DEFINE q == madeSuccessor(r, s)
           hr == Bytes(0, HeaderReserve)
           p == successorPane
           e == Given(successorHold)
           l == -1
<1>0. /\ hr \in [Dim -> Nat] /\ headerCost \in [Dim -> Nat] /\ successorHold \in [Dim -> Nat]
      /\ r.panes \in [Key -> PaneType] /\ r.total \in Amount /\ r.reserved \in Amount
      /\ r.orphan \in Amount /\ r.slots \in Nat
  BY CostAmounts, HeaderAmount DEF Good, RealmType
<1>1. /\ q.panes = [r.panes EXCEPT ![s] = p] /\ q.total = Plus(r.total, headerCost)
      /\ q.reserved = Minus(r.reserved, hr) /\ q.orphan = r.orphan /\ q.slots = r.slots
  BY <1>0 DEF madeSuccessor, materialize, successorPane, Good, RealmType
<1>2. /\ p \in PaneType /\ p.charge = headerCost /\ p.state = "continuous" /\ ~p.slotRetired
      /\ \A d \in Dim : own(p)[d] = successorRest[d]
      /\ PaneBooks(p, "rotating", FALSE, FALSE)
  BY SuccessorBooks
<1>3. e \in [Dim -> Int] /\ l \in Int /\ \A d \in Dim : e[d] = 0 - successorHold[d]
  BY <1>0, GivenAmount
<1>4. \A d \in Dim : successorRest[d] = successorHold[d] - hr[d]
  BY RestIs
<1> HIDE DEF q, hr, p, e
<1>5. /\ Absent.charge = Zero /\ counts(p) = 1 /\ counts(Absent) = 0
      /\ \A d \in Dim : own(Absent)[d] = 0 /\ Zero[d] = 0
  BY <1>2, AbsentBooks, ZeroAmount DEF counts
<1>6. /\ \A d \in Dim : q.total[d] - q.orphan[d] - p.charge[d]
                          = r.total[d] - r.orphan[d] - r.panes[s].charge[d]
      /\ \A d \in Dim : q.reserved[d] - own(p)[d] = r.reserved[d] - own(r.panes[s])[d] + e[d]
  <2> SUFFICES ASSUME NEW d \in Dim
               PROVE  /\ q.total[d] - q.orphan[d] - p.charge[d]
                           = r.total[d] - r.orphan[d] - r.panes[s].charge[d]
                      /\ q.reserved[d] - own(p)[d] = r.reserved[d] - own(r.panes[s])[d] + e[d]
    OBVIOUS
  <2>1. q.total[d] = r.total[d] + headerCost[d] /\ q.reserved[d] = r.reserved[d] - hr[d]
    BY <1>1 DEF Plus, Minus
  <2>2. /\ r.total[d] \in Int /\ r.reserved[d] \in Int /\ r.orphan[d] \in Int
        /\ headerCost[d] \in Int /\ hr[d] \in Int /\ successorHold[d] \in Int
    BY <1>0 DEF Amount
  <2>3. p.charge[d] = headerCost[d] /\ r.panes[s].charge[d] = 0
        /\ own(r.panes[s])[d] = 0 /\ q.orphan[d] = r.orphan[d]
    BY <1>1, <1>2, <1>5
  <2>4. own(p)[d] = successorHold[d] - hr[d] /\ e[d] = 0 - successorHold[d]
    BY <1>2, <1>3, <1>4
  <2> QED BY <2>1, <2>2, <2>3, <2>4
<1>7. q.slots - counts(p) = r.slots - counts(r.panes[s]) + l
  BY <1>0, <1>1, <1>5
<1>8. Good(q)
  BY DEF q
<1> HIDE DEF l
<1>9. Shifted(r, q, l, e)
  BY <1>1, <1>2, <1>3, <1>6, <1>7, <1>8, PaneShifts
<1>10. q.panes[s] = p /\ \A j \in Key \ {s} : q.panes[j] = r.panes[j]
  BY <1>0, <1>1
<1> QED
  BY <1>1, <1>2, <1>9, <1>10 DEF q, e, l

\* The realm after the header of a successor was left behind: its charge comes
\* out of the hold.
LEMMA OrphanShifts ==
  ASSUME NEW r, Good(r), NEW q, Good(q),
         q.panes = r.panes, q.slots = r.slots, q.total = Plus(r.total, headerCost),
         q.orphan = Plus(r.orphan, headerCost), q.reserved = Minus(r.reserved, headerCost)
  PROVE  Shifted(r, q, 0, Given(headerCost))
<1> DEFINE e == Given(headerCost)
<1>1. headerCost \in [Dim -> Nat] /\ r \in RealmType /\ r.panes \in [Key -> PaneType]
  BY HeaderAmount DEF Good, RealmType
<1>2. e \in [Dim -> Int] /\ \A d \in Dim : e[d] = 0 - headerCost[d]
  BY <1>1, GivenAmount
<1> HIDE DEF e
<1>3. ASSUME NEW d \in Dim
      PROVE  unpaid(q, d) = unpaid(r, d) /\ extra(q, d) = extra(r, d) + e[d]
  <2> DEFINE t == sumOf(owns(r.panes, d), Key)
             u == sumOf(charges(r.panes, d), Key)
  <2>1. /\ extra(r, d) = r.reserved[d] - t /\ extra(q, d) = q.reserved[d] - t
        /\ unpaid(r, d) = r.total[d] - r.orphan[d] - u /\ unpaid(q, d) = q.total[d] - q.orphan[d] - u
    BY DEF extra, unpaid
  <2>2. r.reserved[d] \in Int /\ r.total[d] \in Int /\ r.orphan[d] \in Int /\ headerCost[d] \in Int
    BY <1>1 DEF RealmType, Amount
  <2>3. t \in Int /\ u \in Int
    <3>1. Weights(owns(r.panes, d)) /\ Weights(charges(r.panes, d))
      BY <1>1, OwnsAre, ChargesAre DEF Weights
    <3> QED BY <3>1, TotalType
  <2>4. /\ q.reserved[d] = r.reserved[d] - headerCost[d] /\ q.total[d] = r.total[d] + headerCost[d]
        /\ q.orphan[d] = r.orphan[d] + headerCost[d]
    BY DEF Minus, Plus
  <2> HIDE DEF t, u
  <2> QED BY <1>2, <2>1, <2>2, <2>3, <2>4
<1>4. loose(q) = loose(r) + 0
  BY <1>1, BalanceType DEF loose, counted
<1> QED
  BY <1>3, <1>4 DEF Shifted, e

\* An attempt that makes no successor keeps the books, if what it costs comes
\* out of the capacity's hold.
LEMMA AttemptFails ==
  ASSUME LInv, IInv', NEW k \in Key, capacity[k].held, ~capacity[k].materialized, ~capacity[k].active,
         NEW c \in CapacityType, c.held, ~c.materialized, ~c.active,
         NEW e \in [Dim -> Int], \A d \in Dim : c.successor[d] = capacity[k].successor[d] + e[d],
         Shifted(realm, realm', 0, e), realm'.panes = realm.panes, realm'.slots = realm.slots,
         capacity' = [capacity EXCEPT ![k] = c], used \subseteq used',
         UNCHANGED <<rotation, adoption, geometry, restarts>>
  PROVE  LInv'
<1> DEFINE t == rotation[k]
<1>1. capacity[k] \in CapacityType /\ t \in RotationType /\ rotation' = [rotation EXCEPT ![k] = t]
      /\ capacity[k].successor \in [Dim -> Nat]
  BY LInvParts DEF IInv, TypeOK, CapacityType
<1>2. ~t.held /\ capacity[k].held = TRUE /\ c.held = TRUE
  <2>1. c.held \in BOOLEAN
    BY DEF CapacityType
  <2> QED BY <2>1, CapacityKept DEF LInv, TurnsOK
<1>3. capacity'[k] = c /\ \A j \in Key \ {k} : capacity'[j] = capacity[j]
  BY LInvParts DEF IInv, TypeOK
<1>4. \A j \in Key : kind(j)' = kind(j)
  BY KindKept
<1>5. PanesOK'
  <2>1. \A j \in Key : capacity'[j].held = capacity[j].held
    BY <1>2, <1>3
  <2> QED BY <1>4, <2>1, LInvParts DEF PanesOK, pane
<1> HIDE DEF t
<1>6. TurnsOK'
  <2>1. inUse(t) => busy(k) /\ t.successor = rotation[k].successor
    BY DEF inUse, busy, t
  <2>2. t.failed => \A s \in Key : t.successor = {s} => realm'.panes[s].state # "continuous"
    BY DEF LInv, TurnsOK, busy, t, pane
  <2>3. \A j \in used : realm'.panes[j].state = "continuous" => realm.panes[j].state = "continuous"
    OBVIOUS
  <2>4. UNCHANGED adoption
    OBVIOUS
  <2> QED BY <1>1, <1>2, <2>1, <2>2, <2>3, <2>4, TurnsChanged
<1>7. MintedOK'
  <2>1. present(realm') \subseteq used' /\ geometry' \subseteq used'
    BY DEF present, LInv, MintedOK
  <2> QED BY <2>1, MintedKept
<1>8. NoRoom'
  <2>1. \A j \in Key : capacity[j].held /\ (~capacity[j].materialized \/ rotation[j].held)
          => capacity'[j].held /\ (~capacity'[j].materialized \/ rotation'[j].held)
    BY <1>2, <1>3
  <2>2. realm'.slots \in Nat /\ realm'.slots <= realm.slots
    BY LInvParts
  <2> QED BY <2>1, <2>2, RoomChanged
<1>9. BooksOK'
  <2>1. /\ \A d \in Dim : owed(d)' = owed(d) + (c.successor[d] - capacity[k].successor[d])
        /\ Cardinality(waiting)' = Cardinality(waiting) + (waits(c) - waits(capacity[k]))
    BY CapacityOwed
  <2>2. waits(c) - waits(capacity[k]) = 0
    BY DEF waits
  <2>3. \A d \in Dim : c.successor[d] - capacity[k].successor[d] = e[d]
    BY <1>1
  <2>4. \A d \in Dim : owed(d)' = owed(d) + e[d]
    BY <2>1, <2>3
  <2>5. Cardinality(waiting)' = Cardinality(waiting) + 0
    BY <2>1, <2>2
  <2> QED BY <2>4, <2>5, BooksShifted
<1> QED
  BY <1>5, <1>6, <1>7, <1>8, <1>9, RotationKept

\* A successor that is made keeps them.
LEMMA SuccessorKeeps ==
  ASSUME LInv, IInv', NEW k \in Key, NEW s \in Key, s \notin used, s # k,
         capacity[k].held, ~capacity[k].materialized, ~capacity[k].active,
         capacity[k].successor = successorHold,
         NEW c \in CapacityType, c.held, c.materialized, c.active, c.successor = Zero,
         NEW t \in RotationType, t.held, ~t.committed, ~t.failed, t.successor = {s},
         realm' = madeSuccessor(realm, s), used' = used \cup {s},
         capacity' = [capacity EXCEPT ![k] = c], rotation' = [rotation EXCEPT ![k] = t],
         UNCHANGED <<adoption, geometry, restarts>>
  PROVE  LInv'
<1> DEFINE e == Given(successorHold)
           l == -1
<1>1. Good(realm) /\ Good(realm') /\ realm.panes[s] = Absent
  BY LInvParts, FreshKey DEF IInv, Capped, TypeOK, Good
<1>2. /\ Shifted(realm, realm', l, e) /\ realm'.slots = realm.slots
      /\ \A j \in Key \ {s} : realm'.panes[j] = realm.panes[j]
      /\ realm'.panes[s].state = "continuous"
  BY <1>1, SuccessorMade
<1>3. PaneBooks(realm'.panes[s], "rotating", FALSE, FALSE)
  BY <1>1, SuccessorMade
<1>4. /\ successorHold \in [Dim -> Nat] /\ e \in [Dim -> Int] /\ l \in Int
      /\ \A d \in Dim : e[d] = 0 - successorHold[d]
  BY CostAmounts, GivenAmount
<1> HIDE DEF e
<1>5. capacity[k].held = TRUE /\ c.held = TRUE /\ ~rotation[k].held /\ k \in used
  <2>1. c.held \in BOOLEAN
    BY DEF CapacityType
  <2> QED BY <2>1, CapacityKept DEF LInv, TurnsOK
<1>6. /\ capacity'[k] = c /\ \A j \in Key \ {k} : capacity'[j] = capacity[j]
      /\ rotation'[k] = t
  BY LInvParts DEF IInv, TypeOK
<1>7. /\ adoption[s] = "none" /\ capacity[s].held = FALSE /\ s \notin geometry
      /\ capacity'[s].held = FALSE
  BY <1>6, FreshKey
<1>8. kind(s)' = "rotating"
  <2>1. k \in successorOf(s)'
    BY <1>6 DEF successorOf
  <2>2. adoption'[s] # "held"
    BY <1>7
  <2> QED BY <2>1, <2>2 DEF kind
<1>9. \A j \in Key \ {s} : kind(j)' = kind(j)
  <2> SUFFICES ASSUME NEW j \in Key, j # s PROVE kind(j)' = kind(j)
    OBVIOUS
  <2>1. ~(t.held /\ t.successor = {j}) /\ ~(rotation[k].held /\ rotation[k].successor = {j})
    BY <1>5
  <2> QED BY <2>1, KindOther
<1>10. PanesOK'
  <2>1. \A j \in Key \ {s} : /\ realm'.panes[j] = realm.panes[j] /\ kind(j)' = kind(j)
                             /\ capacity'[j].held = capacity[j].held
    BY <1>2, <1>5, <1>6, <1>9
  <2>2. (s \in geometry) = FALSE
    BY <1>7
  <2>3. PaneBooks(realm'.panes[s], kind(s)', capacity'[s].held, s \in geometry)
    BY <1>3, <1>7, <1>8, <2>2
  <2> QED BY <2>1, <2>3, OnePane
<1>11. TurnsOK'
  <2>1. inUse(t) => k \in used /\ \E x \in Key \ used : t.successor = {x}
    BY <1>5
  <2>2. \A j \in used : realm'.panes[j].state = "continuous" => realm.panes[j].state = "continuous"
    BY <1>2, LInvParts DEF IInv, TypeOK
  <2>3. UNCHANGED adoption /\ capacity[k].held
    OBVIOUS
  <2> QED BY <1>5, <2>1, <2>2, <2>3, TurnsChanged
<1>12. MintedOK'
  <2>1. present(realm') \subseteq used'
    BY <1>2 DEF present, LInv, MintedOK
  <2>2. inUse(t) => \E x \in used' : t.successor = {x}
    OBVIOUS
  <2> QED BY <2>1, <2>2, MintedChanged
<1>13. NoRoom'
  <2>1. \A j \in Key : capacity[j].held /\ (~capacity[j].materialized \/ rotation[j].held)
          => capacity'[j].held /\ (~capacity'[j].materialized \/ rotation'[j].held)
    <3> SUFFICES ASSUME NEW j \in Key, capacity[j].held, ~capacity[j].materialized \/ rotation[j].held
                 PROVE  capacity'[j].held /\ (~capacity'[j].materialized \/ rotation'[j].held)
      OBVIOUS
    <3>1. CASE j = k
      BY <1>5, <1>6, <3>1
    <3>2. CASE j # k
      BY <1>6, <3>2, LInvParts DEF IInv, TypeOK
    <3> QED BY <3>1, <3>2
  <2>2. realm'.slots \in Nat /\ realm'.slots <= realm.slots
    BY <1>2, LInvParts
  <2> QED BY <2>1, <2>2, RoomChanged
<1>14. BooksOK'
  <2>1. /\ \A d \in Dim : owed(d)' = owed(d) + (c.successor[d] - capacity[k].successor[d])
        /\ Cardinality(waiting)' = Cardinality(waiting) + (waits(c) - waits(capacity[k]))
    BY CapacityOwed
  <2>2. waits(c) - waits(capacity[k]) = l
    BY DEF waits
  <2>3. \A d \in Dim : c.successor[d] - capacity[k].successor[d] = e[d]
    BY <1>4, EmptyHold
  <2>4. \A d \in Dim : owed(d)' = owed(d) + e[d]
    BY <2>1, <2>3
  <2>5. Cardinality(waiting)' = Cardinality(waiting) + l
    BY <2>1, <2>2
  <2> HIDE DEF l
  <2> QED BY <1>2, <1>4, <2>4, <2>5, BooksShifted
<1> QED
  BY <1>10, <1>11, <1>12, <1>13, <1>14, RotationKept

\* BeginRotatedPane keeps the books.
LEMMA BeginRotatedPaneKeeps ==
  ASSUME LInv, NEW k \in Key, NEW s \in Key, BeginRotatedPane(k, s)
  PROVE  LInv'
<1> DEFINE hold == capacity[k].successor
           rest == Minus(hold, Bytes(0, HeaderReserve))
<1>1. IInv'
  BY BeginRotatedPaneStep DEF LInv
<1>2. /\ capacity[k].held /\ ~capacity[k].materialized /\ ~capacity[k].active /\ live(k)
      /\ ~capacity[k].attempted /\ s \notin used /\ used' = used \cup {s}
      /\ UNCHANGED <<adoption, geometry, restarts>>
  BY DEF BeginRotatedPane, fresh
<1>3. hold = successorHold /\ rest = successorRest
  BY <1>2 DEF LInv, IInv, CapacityOK, successorRest
<1>4. s # k
  BY <1>2, CapacityKept
<1>5. capacity[k] \in CapacityType /\ Good(realm) /\ Good(realm') /\ used \subseteq used'
      /\ successorHold \in [Dim -> Nat] /\ headerCost \in [Dim -> Nat]
      /\ \A d \in Dim : headerCost[d] <= successorHold[d]
  <2>1. /\ successorHold \in [Dim -> Nat] /\ headerCost \in [Dim -> Nat]
        /\ Bytes(0, HeaderReserve) \in [Dim -> Nat]
        /\ \A d \in Dim : /\ Bytes(0, HeaderReserve)[d] <= successorHold[d]
                          /\ headerCost[d] <= Bytes(0, HeaderReserve)[d]
    BY CostAmounts, HeaderAmount
  <2>2. \A d \in Dim : headerCost[d] <= successorHold[d]
    BY <2>1
  <2> QED BY <1>1, <1>2, <2>1, <2>2, LInvParts DEF IInv, Capped, TypeOK, Good
<1>6. \/ /\ realm' = madeSuccessor(realm, s)
         /\ capacity' = [capacity EXCEPT ![k] = [@ EXCEPT !.attempted = TRUE, !.active = TRUE,
                                                       !.materialized = TRUE, !.successor = Zero]]
         /\ rotation' = [rotation EXCEPT ![k] = [NoRotation EXCEPT !.held = TRUE, !.successor = {s}]]
      \/ /\ capacity' = [capacity EXCEPT ![k].attempted = TRUE]
         /\ UNCHANGED <<realm, rotation>>
      \/ /\ realm' = [orphanHeader(realm) EXCEPT !.reserved = Minus(@, headerCost)]
         /\ capacity' = [capacity EXCEPT ![k].attempted = TRUE, ![k].successor = Minus(@, headerCost)]
         /\ UNCHANGED rotation
  BY <1>3 DEF BeginRotatedPane, madeSuccessor, forwardHold
<1>7. CASE /\ realm' = madeSuccessor(realm, s)
           /\ capacity' = [capacity EXCEPT ![k] = [@ EXCEPT !.attempted = TRUE, !.active = TRUE,
                                                         !.materialized = TRUE, !.successor = Zero]]
           /\ rotation' = [rotation EXCEPT ![k] = [NoRotation EXCEPT !.held = TRUE, !.successor = {s}]]
  <2> DEFINE c == [capacity[k] EXCEPT !.attempted = TRUE, !.active = TRUE,
                                      !.materialized = TRUE, !.successor = Zero]
             t == [NoRotation EXCEPT !.held = TRUE, !.successor = {s}]
  <2>1. capacity' = [capacity EXCEPT ![k] = c] /\ rotation' = [rotation EXCEPT ![k] = t]
    BY <1>7
  <2>2. c \in CapacityType /\ c.held /\ c.materialized /\ c.active /\ c.successor = Zero
    BY <1>2, <1>5, ZeroAmount DEF CapacityType
  <2>3. t \in RotationType /\ t.held /\ ~t.committed /\ ~t.failed /\ t.successor = {s}
    BY DEF RotationType, NoRotation
  <2> HIDE DEF c, t
  <2> QED BY <1>1, <1>2, <1>3, <1>4, <1>7, <2>1, <2>2, <2>3, SuccessorKeeps
<1>8. CASE capacity' = [capacity EXCEPT ![k].attempted = TRUE] /\ UNCHANGED <<realm, rotation>>
  <2> DEFINE c == [capacity[k] EXCEPT !.attempted = TRUE]
             e == Given(Zero)
  <2>1. capacity' = [capacity EXCEPT ![k] = c]
    BY <1>8, LInvParts DEF IInv, TypeOK
  <2>2. c \in CapacityType /\ c.held /\ ~c.materialized /\ ~c.active /\ c.successor = hold
    BY <1>2, <1>5 DEF CapacityType
  <2>3. e \in [Dim -> Int] /\ \A d \in Dim : e[d] = 0 - Zero[d] /\ Zero[d] = 0
    BY ZeroAmount, EmptyHold, GivenAmount
  <2> HIDE DEF c, e
  <2>4. \A d \in Dim : c.successor[d] = capacity[k].successor[d] + e[d]
    BY <1>3, <1>5, <2>2, <2>3
  <2>5. Shifted(realm, realm', 0, e) /\ realm'.panes = realm.panes /\ realm'.slots = realm.slots
    <3>1. \A d \in Dim : extra(realm, d) \in Int
      BY <1>5, BalanceType DEF Good
    <3>2. loose(realm) \in Int
      BY <1>5, BalanceType DEF Good
    <3> QED BY <1>5, <1>8, <2>3, <3>1, <3>2 DEF Shifted
  <2> QED BY <1>1, <1>2, <1>5, <1>8, <2>1, <2>2, <2>3, <2>4, <2>5, AttemptFails
<1>9. CASE /\ realm' = [orphanHeader(realm) EXCEPT !.reserved = Minus(@, headerCost)]
           /\ capacity' = [capacity EXCEPT ![k].attempted = TRUE, ![k].successor = Minus(@, headerCost)]
           /\ UNCHANGED rotation
  <2> DEFINE b == Minus(capacity[k].successor, headerCost)
             c == [capacity[k] EXCEPT !.attempted = TRUE, !.successor = b]
             e == Given(headerCost)
  <2>1. capacity' = [capacity EXCEPT ![k] = c]
    BY <1>9, LInvParts DEF IInv, TypeOK
  <2>2. b \in [Dim -> Nat] /\ \A d \in Dim : b[d] = successorHold[d] - headerCost[d]
    BY <1>3, <1>5 DEF Minus
  <2> HIDE DEF b
  <2>3. c \in CapacityType /\ c.held /\ ~c.materialized /\ ~c.active /\ c.successor = b
    BY <1>2, <1>5, <2>2 DEF CapacityType
  <2>4. e \in [Dim -> Int] /\ \A d \in Dim : e[d] = 0 - headerCost[d]
    BY <1>5, GivenAmount
  <2>5. /\ realm'.panes = realm.panes /\ realm'.slots = realm.slots
        /\ realm'.total = Plus(realm.total, headerCost) /\ realm'.orphan = Plus(realm.orphan, headerCost)
        /\ realm'.reserved = Minus(realm.reserved, headerCost)
    BY <1>5, <1>9 DEF orphanHeader, Good, RealmType
  <2>6. Shifted(realm, realm', 0, e)
    BY <1>5, <2>5, OrphanShifts
  <2> HIDE DEF c, e
  <2>7. \A d \in Dim : c.successor[d] = capacity[k].successor[d] + e[d]
    BY <1>3, <1>5, <2>2, <2>3, <2>4
  <2> QED BY <1>1, <1>2, <1>5, <1>9, <2>1, <2>3, <2>4, <2>5, <2>6, <2>7, AttemptFails
<1> QED
  BY <1>6, <1>7, <1>8, <1>9

-----------------------------------------------------------------------------
(* The end of a rotation.                                                   *)

\* The books, when a capacity that owes nothing stays one that owes nothing.
LEMMA NothingOwed ==
  ASSUME LInv, NEW k \in Key, NEW c \in CapacityType, capacity' = [capacity EXCEPT ![k] = c],
         UNCHANGED geometry, c.successor = capacity[k].successor, waits(c) = waits(capacity[k]),
         Moved(realm, realm', 0)
  PROVE  BooksOK'
<1> DEFINE e == Given(Zero)
<1>1. /\ \A d \in Dim : owed(d)' = owed(d) + (c.successor[d] - capacity[k].successor[d])
      /\ Cardinality(waiting)' = Cardinality(waiting) + (waits(c) - waits(capacity[k]))
  BY CapacityOwed
<1>2. e \in [Dim -> Int] /\ \A d \in Dim : e[d] = 0
  <2>1. \A d \in Dim : e[d] = 0 - Zero[d] /\ Zero[d] = 0
    BY ZeroAmount, EmptyHold, GivenAmount
  <2> QED BY <2>1, ZeroAmount, GivenAmount
<1> HIDE DEF e
<1>3. /\ capacity[k].successor \in [Dim -> Nat] /\ Good(realm) /\ realm \in RealmType
  BY LInvParts DEF IInv, TypeOK, CapacityType
<1>4. \A d \in Dim : extra(realm, d) \in Int
  BY <1>3, BalanceType
<1>5. Shifted(realm, realm', 0, e)
  BY <1>2, <1>4 DEF Moved, Shifted
<1>6. \A d \in Dim : owed(d)' = owed(d) + e[d]
  <2>1. \A d \in Dim : c.successor[d] - capacity[k].successor[d] = e[d]
    BY <1>2, <1>3
  <2> QED BY <1>1, <2>1
<1>7. Cardinality(waiting)' = Cardinality(waiting) + 0
  <2>1. waits(c) - waits(capacity[k]) = 0
    BY DEF waits
  <2> QED BY <1>1, <2>1
<1> QED
  BY <1>2, <1>5, <1>6, <1>7, BooksShifted

\* RotationSettled keeps the books.
LEMMA RotationSettledKeeps ==
  ASSUME LInv, NEW k \in Key, RotationSettled(k)
  PROVE  LInv'
<1> DEFINE t == NoRotation
           c == capacity[k]
<1>1. IInv'
  BY RotationSettledStep DEF LInv
<1>2. /\ rotation[k].committed /\ rotation' = [rotation EXCEPT ![k] = t]
      /\ UNCHANGED <<realm, capacity, adoption, geometry, used, restarts>>
  BY DEF RotationSettled
<1>3. ~rotation[k].held /\ ~c.active /\ (c.materialized \/ ~c.held => c.successor = Zero)
  BY <1>2 DEF LInv, TurnsOK
<1>4. c \in CapacityType /\ capacity' = [capacity EXCEPT ![k] = c]
  BY <1>2, LInvParts DEF IInv, TypeOK
<1>5. t \in RotationType /\ ~t.held /\ ~t.failed /\ ~inUse(t)
  BY Idle DEF inUse
<1>6. rotation'[k] = t /\ \A j \in Key \ {k} : rotation'[j] = rotation[j]
  BY <1>2, LInvParts DEF IInv, TypeOK
<1> HIDE DEF c, t
<1>7. \A j \in Key : kind(j)' = kind(j)
  BY <1>2, <1>3, <1>5, KindOther
<1>8. PanesOK'
  BY <1>2, <1>7, LInvParts DEF PanesOK, pane
<1>9. TurnsOK'
  <2>1. \A j \in used : realm'.panes[j].state = "continuous" => realm.panes[j].state = "continuous"
    BY <1>2
  <2>2. UNCHANGED adoption /\ ~(c.held /\ ~capacity[k].held)
    BY <1>2 DEF c
  <2> QED BY <1>2, <1>3, <1>4, <1>5, <2>1, <2>2, TurnsChanged
<1>10. MintedOK'
  <2>1. present(realm') \subseteq used'
    BY <1>2 DEF LInv, MintedOK
  <2> QED BY <1>2, <1>5, <2>1, MintedChanged
<1>11. NoRoom'
  <2>1. \A j \in Key : capacity[j].held /\ (~capacity[j].materialized \/ rotation[j].held)
          => capacity'[j].held /\ (~capacity'[j].materialized \/ rotation'[j].held)
    BY <1>2, <1>3, <1>6
  <2>2. realm'.slots \in Nat /\ realm'.slots <= realm.slots
    BY <1>2, LInvParts
  <2> QED BY <1>2, <2>1, <2>2, RoomChanged
<1>12. BooksOK'
  <2>1. owed("logical")' = owed("logical") /\ \A d \in Dim : owed(d)' = owed(d)
    BY <1>2 DEF owed, claims
  <2>2. waiting' = waiting
    BY <1>2 DEF waiting
  <2> QED BY <1>2, <2>1, <2>2 DEF LInv, BooksOK
<1> QED
  BY <1>1, <1>8, <1>9, <1>10, <1>11, <1>12, RotationKept

\* Failing a committed rotation whose successor is already gone changes no book.
LEMMA AbsentStays ==
  ASSUME NEW r, Good(r), NEW k \in Key, NEW geo, PaneBooks(r.panes[k], "settled", FALSE, geo),
         r.panes[k].state = "absent", NEW q, q = r
  PROVE  /\ Only(r, q, k, 0) /\ PaneBooks(q.panes[k], "settled", FALSE, geo)
         /\ q.slots <= r.slots /\ q.panes[k].state \in {"absent", "untrusted"}
<1>1. loose(r) \in Int /\ r.slots \in Nat
  BY BalanceType DEF Good, RealmType
<1>2. loose(r) = loose(r) + 0 /\ r.slots <= r.slots
  BY <1>1
<1>3. Moved(r, r, 0)
  BY <1>2 DEF Moved
<1>4. Only(r, r, k, 0)
  BY <1>3 DEF Only
<1> QED
  BY <1>2, <1>4

\* RotationFailCommitted keeps the books.
LEMMA RotationFailCommittedKeeps ==
  ASSUME LInv, NEW k \in Key, RotationFailCommitted(k)
  PROVE  LInv'
<1> DEFINE t == [rotation[k] EXCEPT !.failed = TRUE, !.committed = FALSE]
           c == capacity[k]
<1>1. IInv'
  BY RotationFailCommittedStep DEF LInv
<1>2. /\ rotation[k].committed \/ rotation[k].failed
      /\ rotation' = [rotation EXCEPT ![k] = t]
      /\ UNCHANGED <<capacity, adoption, geometry, used, restarts>>
  BY LInvParts DEF RotationFailCommitted, IInv, TypeOK
<1>3. PICK s \in Key : s = theSuccessor(k) /\ rotation[k].successor = {s}
  BY <1>2, LInvParts, Successor
<1>4. \/ realm' = realm /\ realm.panes[s].state = "absent"
      \/ /\ realm.panes[s].state # "absent"
         /\ \/ realm' = retireSlot(invalidate(realm, s), s)
            \/ realm' = forget(refund(retireSlot(invalidate(realm, s), s), s), s)
  BY <1>3 DEF RotationFailCommitted, present
<1>5. ~rotation[k].held /\ ~c.active /\ (c.materialized \/ ~c.held => c.successor = Zero)
  BY <1>2 DEF LInv, TurnsOK
<1>6. busy(k) /\ adoption[s] = "none" /\ capacity[s].held = FALSE
  <2>1. busy(k)
    BY <1>2 DEF busy
  <2>2. adoption[s] = "none" /\ ~capacity[s].held
    BY <1>3, <2>1 DEF LInv, TurnsOK
  <2> QED BY <1>3, <2>1, <2>2, CapacityHeld
<1>7. kind(s) = "settled"
  <2>1. \A j \in Key : busy(k) /\ busy(j) /\ rotation[j].successor = rotation[k].successor => j = k
    BY DEF LInv, TurnsOK
  <2>2. successorOf(s) = {}
    BY <1>3, <1>5, <1>6, <2>1 DEF successorOf, busy
  <2> QED BY <1>6, <2>2 DEF kind
<1>8. /\ c \in CapacityType /\ capacity' = [capacity EXCEPT ![k] = c]
      /\ t \in RotationType /\ ~t.held /\ ~t.committed /\ t.successor = rotation[k].successor
  <2>1. rotation[k] \in RotationType /\ c \in CapacityType
    BY LInvParts DEF IInv, TypeOK
  <2> QED BY <1>2, <1>5, <2>1, LInvParts DEF RotationType, IInv, TypeOK
<1> HIDE DEF c, t
<1>9. /\ Only(realm, realm', s, 0) /\ PaneBooks(realm'.panes[s], "settled", FALSE, s \in geometry)
      /\ realm'.slots <= realm.slots /\ realm'.panes[s].state \in {"absent", "untrusted"}
  <2>1. /\ PaneBooks(realm.panes[s], "settled", FALSE, s \in geometry) /\ Good(realm)
        /\ loose(realm) >= 0 /\ realm.slots \in Nat
    BY <1>3, <1>6, <1>7, LInvParts
  <2>2. CASE realm' = realm /\ realm.panes[s].state = "absent"
    BY <1>3, <2>1, <2>2, AbsentStays
  <2>3. CASE /\ realm.panes[s].state # "absent"
             /\ \/ realm' = retireSlot(invalidate(realm, s), s)
                \/ realm' = forget(refund(retireSlot(invalidate(realm, s), s), s), s)
    BY <1>3, <2>1, <2>3, RetirementMoves
  <2> QED BY <1>4, <2>2, <2>3
<1>10. /\ Moved(realm, realm', 0) /\ \A j \in Key \ {s} : realm'.panes[j] = realm.panes[j]
  BY <1>9 DEF Only
<1>11. rotation'[k] = t /\ \A j \in Key \ {k} : rotation'[j] = rotation[j]
  BY <1>2, LInvParts DEF IInv, TypeOK
<1>12. \A j \in Key : kind(j)' = kind(j)
  BY <1>2, <1>5, <1>8, KindOther
<1>13. PanesOK'
  <2>1. \A j \in Key \ {s} : /\ realm'.panes[j] = realm.panes[j] /\ kind(j)' = kind(j)
                             /\ capacity'[j].held = capacity[j].held
    BY <1>2, <1>10, <1>12
  <2>2. PaneBooks(realm'.panes[s], kind(s)', capacity'[s].held, s \in geometry)
    BY <1>2, <1>3, <1>6, <1>7, <1>9, <1>12
  <2> QED BY <1>2, <1>3, <2>1, <2>2, OnePane
<1>14. s \in used /\ \A j \in Key : realm'.panes[j].state # "absent" => realm.panes[j].state # "absent" \/ j = s
  BY <1>3, <1>6, <1>10 DEF LInv, MintedOK
<1>15. TurnsOK'
  <2>1. inUse(t) => busy(k) /\ t.successor = rotation[k].successor
    BY <1>6, <1>8
  <2>2. t.failed => \A x \in Key : t.successor = {x} => realm'.panes[x].state # "continuous"
    BY <1>3, <1>8, <1>9
  <2>3. \A j \in used : realm'.panes[j].state = "continuous" => realm.panes[j].state = "continuous"
    BY <1>9, <1>10, LInvParts DEF IInv, TypeOK
  <2>4. UNCHANGED adoption /\ ~(c.held /\ ~capacity[k].held)
    BY <1>2 DEF c
  <2> QED BY <1>2, <1>5, <1>8, <2>1, <2>2, <2>3, <2>4, TurnsChanged
<1>16. MintedOK'
  <2>1. present(realm') \subseteq used'
    BY <1>2, <1>14 DEF present, LInv, MintedOK
  <2>2. inUse(t) => \E x \in used' : t.successor = {x}
    BY <1>2, <1>3, <1>8, <1>14
  <2> QED BY <1>2, <1>8, <2>1, <2>2, MintedChanged
<1>17. NoRoom'
  <2>1. \A j \in Key : capacity[j].held /\ (~capacity[j].materialized \/ rotation[j].held)
          => capacity'[j].held /\ (~capacity'[j].materialized \/ rotation'[j].held)
    BY <1>2, <1>5, <1>11
  <2>2. realm'.slots \in Nat
    BY <1>1 DEF IInv, TypeOK, RealmType
  <2> QED BY <1>2, <1>9, <2>1, <2>2, RoomChanged
<1>18. BooksOK'
  BY <1>2, <1>10, BooksKept
<1> QED
  BY <1>1, <1>13, <1>15, <1>16, <1>17, <1>18, RotationKept

\* The end of a rotation, by whichever of its outcomes, that gives one slot back.
LEMMA RotationEndKept ==
  ASSUME LInv, IInv', NEW k \in Key, rotation[k].held, NEW s \in Key, rotation[k].successor = {s},
         NEW c \in CapacityType, NEW t \in RotationType,
         capacity' = [capacity EXCEPT ![k] = c], rotation' = [rotation EXCEPT ![k] = t],
         UNCHANGED <<adoption, geometry, used, restarts>>,
         ~t.held, ~t.failed, t.successor = rotation[k].successor,
         ~c.active, c.successor = Zero, waits(c) = 0,
         Moved(realm, realm', 0), realm'.slots < realm.slots, NextBooks(realm'),
         \A j \in Key : realm'.panes[j].state \in {"absent", "untrusted", realm.panes[j].state},
         \A j \in Key : realm'.panes[j].state = "absent" \/ realm.panes[j].state # "absent"
  PROVE  LInv'
<1>1. /\ capacity[k].held = TRUE /\ capacity[k].active /\ capacity[k].materialized
      /\ capacity[k].successor = Zero /\ busy(k) /\ s \in used
  BY RotationHeld, Rotating DEF busy
<1>2. PanesOK'
  BY DEF PanesOK, NextBooks, pane
<1>3. TurnsOK'
  <2>1. inUse(t) => busy(k) /\ t.successor = rotation[k].successor
    BY <1>1
  <2>2. \A j \in used : realm'.panes[j].state = "continuous" => realm.panes[j].state = "continuous"
    BY LInvParts DEF IInv, TypeOK
  <2>3. UNCHANGED adoption /\ ~(c.held /\ ~capacity[k].held)
    BY <1>1
  <2> QED BY <2>1, <2>2, <2>3, TurnsChanged
<1>4. MintedOK'
  <2>1. present(realm') \subseteq used' /\ used \subseteq used'
    BY DEF present, LInv, MintedOK
  <2>2. inUse(t) => \E x \in used' : t.successor = {x}
    BY <1>1
  <2>3. UNCHANGED <<adoption, geometry>>
    OBVIOUS
  <2> QED BY <2>1, <2>2, <2>3, MintedChanged
<1>5. NoRoom'
  <2>1. realm'.slots \in Nat
    BY DEF IInv, TypeOK, RealmType
  <2> QED BY <2>1, RoomChanged
<1>6. BooksOK'
  <2>1. waits(capacity[k]) = 0
    BY <1>1 DEF waits
  <2> QED BY <1>1, <2>1, NothingOwed
<1> QED
  BY <1>2, <1>3, <1>4, <1>5, <1>6, RotationKept

\* Discarding a rotated successor returns its credit and its slot, once.
LEMMA DiscardMoves ==
  ASSUME NEW r, Good(r), loose(r) >= 0, NEW s \in Key, NEW geo,
         PaneBooks(r.panes[s], "rotating", FALSE, geo),
         NEW q \in tombstones(releaseSlot(releaseForward(r, s)), s)
  PROVE  /\ Only(r, q, s, 0) /\ PaneBooks(q.panes[s], "settled", FALSE, geo)
         /\ q.slots = r.slots - 1 /\ q.panes[s].state = "untrusted"
<1> DEFINE f == releaseForward(r, s)
           g == releaseSlot(f)
<1>1. /\ Only(r, f, s, 0) /\ PaneBooks(f.panes[s], "settled", FALSE, geo) /\ f.slots = r.slots
      /\ f.panes[s].slotRetired = r.panes[s].slotRetired /\ ~r.panes[s].slotRetired
  BY ForwardMoves
<1> HIDE DEF f
<1>2. Good(f) /\ Moved(r, f, 0) /\ loose(f) = loose(r) + 0 /\ loose(r) \in Int
  BY <1>1, BalanceType DEF Only, Moved, Good
<1>3. loose(f) >= 0 /\ ~f.panes[s].slotRetired
  BY <1>1, <1>2
<1>4. f.slots > 0
  BY <1>2, <1>3, SlotTaken
<1>5. Moved(f, g, -1) /\ g.panes = f.panes /\ g.slots = f.slots - 1
  BY <1>2, <1>4, SlotMoves
<1> HIDE DEF g
<1>6. Good(g) /\ PaneBooks(g.panes[s], "settled", FALSE, geo) /\ ~g.panes[s].slotRetired
  BY <1>1, <1>3, <1>5 DEF Moved
<1>7. q \in tombstones(g, s)
  BY DEF f, g
<1>8. /\ Only(g, q, s, 1) /\ PaneBooks(q.panes[s], "settled", FALSE, geo)
      /\ q.slots = g.slots /\ q.panes[s].state = "untrusted"
  BY <1>6, <1>7, TombstoneMoves
<1>9. Only(f, g, s, -1)
  BY <1>5 DEF Only
<1>10. Only(f, q, s, 0)
  <2>1. 0 = -1 + 1 /\ -1 \in Int /\ 1 \in Int /\ 0 \in Int
    OBVIOUS
  <2> QED BY <1>2, <1>8, <1>9, <2>1, OnlyTwice
<1>11. Only(r, q, s, 0)
  <2>1. 0 = 0 + 0 /\ 0 \in Int
    OBVIOUS
  <2> QED BY <1>1, <1>10, <2>1, OnlyTwice
<1> QED
  BY <1>1, <1>5, <1>8, <1>11

\* A predecessor past its point of no return loses its slot and then its rollback.
LEMMA FatalPane ==
  ASSUME NEW p \in PaneType, p.state = "untrusted", NEW geo, PaneBooks(p, "settled", TRUE, geo)
  PROVE  LET o == slotless(p)
             q == [unholding(o, o.rollback.bytes) EXCEPT !.rollback = NoHold, !.capacity = "none"]
         IN /\ o \in PaneType /\ o.charge = p.charge /\ own(o) = own(p) /\ o.slotRetired
            /\ o.capacity # "none"
            /\ q \in PaneType /\ q.state = "untrusted" /\ q.slotRetired /\ q.charge = o.charge
            /\ \A d \in Dim : own(q)[d] = own(o)[d] - o.rollback.bytes[d]
            /\ PaneBooks(q, "settled", FALSE, geo)
<1> DEFINE o == slotless(p)
           a == o.rollback.bytes
           u == unholding(o, a)
           q == [u EXCEPT !.rollback = NoHold, !.capacity = "none"]
<1>1. /\ o \in PaneType /\ o.state = "untrusted" /\ o.slotRetired /\ o.marks = p.marks
      /\ o.charge = p.charge /\ o.capacity = p.capacity /\ HoldsSame(p, o)
  BY DEF PaneType, slotless, HoldsSame
<1> HIDE DEF o
<1>2. own(o) = own(p) /\ o.held = p.held /\ o.adoption = p.adoption /\ o.forward = p.forward
  BY <1>1, OwnSame DEF HoldsSame
<1>3. /\ p.capacity # "none" /\ p.adoption = Zero /\ p.forward = NoHold
      /\ \A d \in Dim : p.held[d] = own(p)[d] + (IF geo THEN Frame ELSE 0)
  BY DEF PaneBooks
<1>4. a \in [Dim -> Nat]
  BY <1>1, PaneParts
<1>5. /\ u \in PaneType /\ u.charge = o.charge /\ u.held = Minus(o.held, a)
      /\ u.state = o.state /\ u.slotRetired = o.slotRetired /\ u.marks = o.marks
      /\ u.adoption = o.adoption /\ u.forward = o.forward
  <2>1. u \in PaneType /\ u.charge = o.charge /\ u.held = Minus(o.held, a)
    BY <1>1, <1>4, UnholdingType
  <2> QED BY <1>1, <2>1 DEF unholding, PaneType
<1> HIDE DEF u
<1>6. /\ q \in PaneType /\ q.charge = u.charge /\ q.held = u.held
      /\ q.state = u.state /\ q.slotRetired = u.slotRetired /\ q.marks = u.marks
      /\ q.adoption = u.adoption /\ q.forward = u.forward
      /\ q.rollback = NoHold /\ q.capacity = "none"
  BY <1>5, NoHoldType DEF PaneType
<1> HIDE DEF q
<1>7. ASSUME NEW d \in Dim
      PROVE  own(q)[d] = own(o)[d] - a[d] /\ q.held[d] = o.held[d] - a[d]
  <2>1. own(o)[d] = o.adoption[d] + a[d] + o.forward.bytes[d]
        /\ o.adoption[d] \in Int /\ a[d] \in Int /\ o.forward.bytes[d] \in Int
    BY <1>1, OwnParts
  <2>2. own(q)[d] = o.adoption[d] + NoHold.bytes[d] + o.forward.bytes[d] /\ NoHold.bytes[d] = 0
    BY <1>5, <1>6, OwnParts, EmptyHold
  <2>3. q.held[d] = o.held[d] - a[d]
    BY <1>5, <1>6 DEF Minus
  <2> QED BY <2>1, <2>2, <2>3
<1>8. ASSUME NEW d \in Dim
      PROVE  q.held[d] = own(q)[d] + (IF geo THEN Frame ELSE 0)
  <2>1. own(o)[d] \in Int /\ o.held[d] \in Int /\ Frame \in Int /\ a[d] \in Int
    BY <1>1, <1>4, OwnParts, LedgerAssumption
  <2>2. o.held[d] = own(o)[d] + (IF geo THEN Frame ELSE 0)
    BY <1>2, <1>3
  <2> QED BY <1>7, <2>1, <2>2
<1>9. /\ q \in PaneType /\ q.state = "untrusted" /\ q.slotRetired /\ q.charge = o.charge
      /\ q.capacity = "none" /\ q.rollback = NoHold /\ q.adoption = Zero /\ q.forward = NoHold
      /\ Shaped(q.forward) /\ Shaped(q.rollback)
  BY <1>1, <1>2, <1>3, <1>5, <1>6, EmptyHold
<1>10. PaneBooks(q, "settled", FALSE, geo)
  BY <1>8, <1>9 DEF PaneBooks
<1> QED
  BY <1>1, <1>2, <1>3, <1>7, <1>9, <1>10 DEF a, q, u, o

\* Fatal: the slot, then what is left of the rollback.
LEMMA FatalMoves ==
  ASSUME NEW r, Good(r), loose(r) >= 0, NEW k \in Key, r.panes[k].state # "absent",
         ~r.panes[k].slotRetired, NEW geo, PaneBooks(r.panes[k], "settled", TRUE, geo)
  PROVE  LET q == releaseRollback(retireSlot(invalidate(r, k), k), k)
         IN /\ Only(r, q, k, 0) /\ PaneBooks(q.panes[k], "settled", FALSE, geo)
            /\ q.slots = r.slots - 1 /\ q.panes[k].state = "untrusted"
<1> DEFINE i == invalidate(r, k)
           p == i.panes[k]
           o == slotless(p)
           a == o.rollback.bytes
           w == [unholding(o, a) EXCEPT !.rollback = NoHold, !.capacity = "none"]
           j == retireSlot(i, k)
           q == releaseRollback(j, k)
<1>1. /\ Only(r, i, k, 0) /\ PaneBooks(p, "settled", TRUE, geo) /\ i.slots = r.slots
      /\ ~p.slotRetired /\ p.state = "untrusted"
  BY InvalidateMoves
<1>2. Good(q)
  <2>1. Good(j)
    BY RetireGood
  <2> HIDE DEF j
  <2> QED BY <2>1, ReleaseRollbackGood
<1>3. Good(j)
  BY RetireGood
<1> HIDE DEF i
<1>4. Good(i) /\ Moved(r, i, 0) /\ loose(i) = loose(r) + 0 /\ loose(r) \in Int
  BY <1>1, BalanceType DEF Only, Moved, Good
<1>5. i.panes \in [Key -> PaneType] /\ p \in PaneType /\ i.slots \in Nat
  BY <1>4 DEF Good, RealmType
<1>6. i.slots > 0
  <2>1. loose(i) >= 0 /\ ~i.panes[k].slotRetired
    BY <1>1, <1>4
  <2> QED BY <1>4, <2>1, SlotTaken
<1> HIDE DEF p
<1>7. /\ o \in PaneType /\ o.charge = p.charge /\ own(o) = own(p) /\ o.slotRetired
      /\ o.capacity # "none"
      /\ w \in PaneType /\ w.state = "untrusted" /\ w.slotRetired /\ w.charge = o.charge
      /\ \A d \in Dim : own(w)[d] = own(o)[d] - a[d]
      /\ PaneBooks(w, "settled", FALSE, geo)
  BY <1>1, <1>5, FatalPane
<1>8. j = releaseSlot([i EXCEPT !.panes[k] = o])
  BY <1>1 DEF retireSlot, p
<1> HIDE DEF o
<1>9. /\ j.panes = [i.panes EXCEPT ![k] = o] /\ j.total = i.total /\ j.reserved = i.reserved
      /\ j.orphan = i.orphan /\ j.slots = i.slots - 1
  <2> HIDE DEF j
  <2> QED BY <1>4, <1>6, <1>8 DEF Good, RealmType, releaseSlot
<1>10. j.panes[k] = o
  BY <1>5, <1>9
<1>11. q = [j EXCEPT !.reserved = Minus(@, a), !.panes[k] = w]
  <2> HIDE DEF j
  <2> QED BY <1>7, <1>10 DEF releaseRollback
<1> HIDE DEF j, q, w
<1>12. j.slots - counts(o) = i.slots - counts(p) + 0
  BY <1>1, <1>5, <1>7, <1>9 DEF counts
<1>13. Only(i, j, k, 0)
  BY <1>3, <1>4, <1>7, <1>9, <1>12, PaneSwaps DEF p
<1>14. a \in [Dim -> Nat]
  BY <1>7, PaneParts
<1>15. /\ q.panes = [j.panes EXCEPT ![k] = w] /\ q.total = j.total
       /\ q.reserved = Minus(j.reserved, a) /\ q.orphan = j.orphan /\ q.slots = j.slots
  BY <1>3, <1>11 DEF Good, RealmType
<1> HIDE DEF a
<1>16. Only(j, q, k, 0) /\ q.panes[k] = w
  <2>1. /\ w.charge = j.panes[k].charge /\ w.slotRetired = j.panes[k].slotRetired
        /\ \A d \in Dim : own(w)[d] = own(j.panes[k])[d] - a[d]
    <3>1. o.slotRetired = TRUE /\ w.slotRetired = TRUE
      BY <1>7 DEF PaneType
    <3> QED BY <1>7, <1>10, <3>1
  <2>2. /\ Good(j) /\ Good(q) /\ w \in PaneType /\ a \in [Dim -> Nat]
        /\ q.panes = [j.panes EXCEPT ![k] = w] /\ q.total = j.total
        /\ q.reserved = Minus(j.reserved, a) /\ q.orphan = j.orphan /\ q.slots = j.slots
    BY <1>2, <1>3, <1>7, <1>14, <1>15
  <2>3. Only(j, q, k, 0)
    BY <2>1, <2>2, HoldReturned
  <2>4. q.panes[k] = w
    BY <1>3, <1>15 DEF Good, RealmType
  <2> QED BY <2>3, <2>4
<1>17. Only(r, q, k, 0)
  <2>1. 0 = 0 + 0 /\ 0 \in Int
    OBVIOUS
  <2>2. Only(r, j, k, 0)
    BY <1>1, <1>13, <2>1, OnlyTwice
  <2> QED BY <1>16, <2>1, <2>2, OnlyTwice
<1>18. q.slots = r.slots - 1
  BY <1>1, <1>9, <1>15
<1> QED
  BY <1>7, <1>16, <1>17, <1>18 DEF q, j, i

\* The generations of the next state, when a rotation ends for both of its ends.
LEMMA EndBooks ==
  ASSUME LInv, NEW k \in Key, NEW s \in Key, UNCHANGED geometry, NEW q, NEW cap,
         \A j \in Key : j # k /\ j # s => /\ q.panes[j] = realm.panes[j] /\ kind(j)' = kind(j)
                                          /\ capacity'[j].held = capacity[j].held,
         kind(k)' = "settled", capacity'[k].held = cap,
         PaneBooks(q.panes[k], "settled", cap, k \in geometry),
         kind(s)' = "settled", capacity'[s].held = FALSE,
         PaneBooks(q.panes[s], "settled", FALSE, s \in geometry)
  PROVE  NextBooks(q)
<1> DEFINE T == {k, s}
<1>1. \A j \in Key \ T : /\ q.panes[j] = realm.panes[j] /\ kind(j)' = kind(j)
                         /\ capacity'[j].held = capacity[j].held
                         /\ (j \in geometry') = (j \in geometry)
  OBVIOUS
<1>2. \A j \in Key : j \in T => PaneBooks(q.panes[j], kind(j)', capacity'[j].held, j \in geometry')
  <2>1. PaneBooks(q.panes[k], kind(k)', capacity'[k].held, k \in geometry')
    OBVIOUS
  <2>2. PaneBooks(q.panes[s], kind(s)', capacity'[s].held, s \in geometry')
    OBVIOUS
  <2>3. \A j \in Key : j \in T => j = k \/ j = s
    OBVIOUS
  <2> QED BY <2>1, <2>2, <2>3
<1> HIDE DEF T
<1> QED
  BY <1>1, <1>2, OthersBooks

\* What ends with a rotation, whatever its outcome.
LEMMA EndKinds ==
  ASSUME LInv, NEW k \in Key, rotation[k].held, NEW s \in Key, rotation[k].successor = {s},
         NEW c \in CapacityType, NEW t \in RotationType, ~t.held,
         capacity' = [capacity EXCEPT ![k] = c], rotation' = [rotation EXCEPT ![k] = t],
         UNCHANGED adoption
  PROVE  /\ kind(k)' = "settled" /\ kind(s)' = "settled" /\ s # k
         /\ capacity'[k].held = c.held /\ capacity'[s].held = FALSE
         /\ \A j \in Key : j # k /\ j # s => kind(j)' = kind(j) /\ capacity'[j].held = capacity[j].held
<1>1. kind(s)' = "settled" /\ \A j \in Key \ {s} : kind(j)' = kind(j)
  BY RotationEnds
<1>2. kind(k) = "settled"
  BY RotationHeld
<1>3. s # k /\ capacity[s].held = FALSE
  BY Rotating
<1>4. kind(k)' = "settled"
  BY <1>1, <1>2, <1>3
<1>5. capacity'[k] = c /\ \A j \in Key \ {k} : capacity'[j] = capacity[j]
  BY LInvParts DEF IInv, TypeOK
<1> QED
  BY <1>1, <1>3, <1>4, <1>5

\* RotationAbort keeps the books.
LEMMA RotationAbortKeeps ==
  ASSUME LInv, NEW k \in Key, RotationAbort(k)
  PROVE  LInv'
<1> DEFINE t == [rotation[k] EXCEPT !.held = FALSE]
           c == [capacity[k] EXCEPT !.active = FALSE]
           r == armRollback(realm, k)
<1>1. IInv' /\ IInv
  BY RotationAbortStep DEF LInv
<1>2. /\ rotation[k].held /\ rotation[k] \in RotationType /\ capacity[k] \in CapacityType
      /\ rotation' = [rotation EXCEPT ![k] = t] /\ capacity' = [capacity EXCEPT ![k] = c]
      /\ UNCHANGED <<adoption, geometry, used, restarts>>
  BY <1>1 DEF RotationAbort, IInv, TypeOK
<1>3. PICK s \in Key : s = theSuccessor(k) /\ rotation[k].successor = {s}
  BY <1>1, <1>2, Successor
<1>4. realm' \in tombstones(releaseSlot(releaseForward(r, s)), s)
  BY <1>3 DEF RotationAbort
<1>5. /\ capacity[k].held = TRUE /\ capacity[k].materialized /\ capacity[k].successor = Zero
      /\ realm.panes[k].state # "absent" /\ ~rotation[k].failed
      /\ PaneBooks(realm.panes[k], "settled", TRUE, k \in geometry)
  BY <1>2, RotationHeld
<1>6. /\ s # k /\ PaneBooks(realm.panes[s], "rotating", FALSE, s \in geometry)
      /\ realm.panes[s].state # "absent"
  BY <1>2, <1>3, Rotating
<1>7. /\ t \in RotationType /\ ~t.held /\ ~t.failed /\ t.successor = rotation[k].successor
      /\ c \in CapacityType /\ c.held = TRUE /\ ~c.active /\ c.materialized /\ c.successor = Zero
  BY <1>2, <1>5 DEF RotationType, CapacityType
<1>8. Good(realm) /\ loose(realm) >= 0 /\ loose(realm) \in Int /\ realm.slots \in Nat
  BY LInvParts, BalanceType DEF Good
<1> HIDE DEF t, c
<1>9. /\ Only(realm, r, k, 0) /\ PaneBooks(r.panes[k], "settled", TRUE, k \in geometry)
      /\ r.slots = realm.slots /\ r.panes[k].state = realm.panes[k].state
  BY <1>5, <1>8, ArmMoves
<1> HIDE DEF r
<1>10. /\ Good(r) /\ loose(r) >= 0 /\ r.panes[s] = realm.panes[s]
       /\ \A j \in Key \ {k} : r.panes[j] = realm.panes[j]
  <2>1. loose(r) = loose(realm) + 0
    BY <1>9 DEF Only, Moved
  <2> QED BY <1>6, <1>8, <1>9, <2>1 DEF Only, Moved
<1>11. /\ Only(r, realm', s, 0) /\ PaneBooks(realm'.panes[s], "settled", FALSE, s \in geometry)
       /\ realm'.slots = r.slots - 1 /\ realm'.panes[s].state = "untrusted"
  <2>1. PaneBooks(r.panes[s], "rotating", FALSE, s \in geometry)
    BY <1>6, <1>10
  <2> QED BY <1>4, <1>10, <2>1, DiscardMoves
<1>12. /\ realm'.panes[k] = r.panes[k]
       /\ \A j \in Key : j # k /\ j # s => realm'.panes[j] = realm.panes[j]
  BY <1>6, <1>10, <1>11 DEF Only
<1>13. Moved(realm, realm', 0)
  <2>1. 0 = 0 + 0 /\ 0 \in Int /\ Moved(realm, r, 0) /\ Moved(r, realm', 0)
    BY <1>9, <1>11 DEF Only
  <2> QED BY <1>8, <2>1, MovedTwice
<1>14. NextBooks(realm')
  <2>0. /\ kind(k)' = "settled" /\ kind(s)' = "settled"
        /\ capacity'[k].held = c.held /\ capacity'[s].held = FALSE
        /\ \A j \in Key : j # k /\ j # s => kind(j)' = kind(j) /\ capacity'[j].held = capacity[j].held
    <3>1. /\ rotation[k].held /\ rotation[k].successor = {s} /\ UNCHANGED adoption
          /\ capacity' = [capacity EXCEPT ![k] = c] /\ rotation' = [rotation EXCEPT ![k] = t]
      BY <1>2, <1>3
    <3>2. c \in CapacityType /\ t \in RotationType /\ ~t.held
      BY <1>7
    <3>3. kind(k)' = "settled" /\ kind(s)' = "settled"
      BY <3>1, <3>2, EndKinds
    <3>4. capacity'[k].held = c.held /\ capacity'[s].held = FALSE
      <4>1. capacity'[k] = c /\ capacity'[s] = capacity[s]
        BY <1>1, <1>6, <3>1 DEF IInv, TypeOK
      <4>2. capacity[s].held = FALSE
        BY <1>3, <3>1, Rotating
      <4> QED BY <4>1, <4>2
    <3>5. \A j \in Key : j # k /\ j # s => kind(j)' = kind(j) /\ capacity'[j].held = capacity[j].held
      BY <3>1, <3>2, EndKinds
    <3> QED BY <3>3, <3>4, <3>5
  <2>1. /\ kind(k)' = "settled" /\ kind(s)' = "settled"
        /\ capacity'[k].held = TRUE /\ capacity'[s].held = FALSE
        /\ \A j \in Key : j # k /\ j # s => kind(j)' = kind(j) /\ capacity'[j].held = capacity[j].held
    BY <1>7, <2>0
  <2>2. PaneBooks(realm'.panes[k], "settled", TRUE, k \in geometry)
    BY <1>9, <1>12
  <2>3. \A j \in Key : j # k /\ j # s => /\ realm'.panes[j] = realm.panes[j] /\ kind(j)' = kind(j)
                                          /\ capacity'[j].held = capacity[j].held
    BY <1>12, <2>1
  <2>4. UNCHANGED geometry
    BY <1>2
  <2> QED BY <1>11, <2>1, <2>2, <2>3, <2>4, EndBooks
<1>15. /\ \A j \in Key : realm'.panes[j].state \in {"absent", "untrusted", realm.panes[j].state}
       /\ \A j \in Key : realm'.panes[j].state = "absent" \/ realm.panes[j].state # "absent"
  BY <1>5, <1>6, <1>9, <1>11, <1>12
<1>16. realm'.slots < realm.slots /\ waits(c) = 0
  BY <1>7, <1>8, <1>9, <1>11 DEF waits
<1> QED
  BY <1>1, <1>2, <1>3, <1>7, <1>13, <1>14, <1>15, <1>16, RotationEndKept

\* RotationFatal keeps the books.
LEMMA RotationFatalKeeps ==
  ASSUME LInv, NEW k \in Key, RotationFatal(k)
  PROVE  LInv'
<1> DEFINE t == [rotation[k] EXCEPT !.held = FALSE]
           c == NoCapacity
           r == releaseRollback(retireSlot(invalidate(realm, k), k), k)
<1>1. IInv' /\ IInv
  BY RotationFatalStep DEF LInv
<1>2. /\ rotation[k].held /\ rotation[k] \in RotationType
      /\ rotation' = [rotation EXCEPT ![k] = t] /\ capacity' = [capacity EXCEPT ![k] = c]
      /\ UNCHANGED <<adoption, geometry, used, restarts>>
  BY <1>1 DEF RotationFatal, IInv, TypeOK
<1>3. PICK s \in Key : s = theSuccessor(k) /\ rotation[k].successor = {s}
  BY <1>1, <1>2, Successor
<1>4. realm' \in tombstones(releaseSlot(releaseForward(r, s)), s)
  BY <1>3 DEF RotationFatal
<1>5. /\ realm.panes[k].state # "absent" /\ ~rotation[k].failed /\ ~realm.panes[k].slotRetired
      /\ PaneBooks(realm.panes[k], "settled", TRUE, k \in geometry)
  BY <1>2, RotationHeld
<1>6. /\ s # k /\ PaneBooks(realm.panes[s], "rotating", FALSE, s \in geometry)
      /\ realm.panes[s].state # "absent"
  BY <1>2, <1>3, Rotating
<1>7. /\ t \in RotationType /\ ~t.held /\ ~t.failed /\ t.successor = rotation[k].successor
      /\ c \in CapacityType /\ c.held = FALSE /\ ~c.active /\ c.successor = Zero
  BY <1>2, <1>5, Idle DEF RotationType, NoCapacity
<1>8. Good(realm) /\ loose(realm) >= 0 /\ loose(realm) \in Int /\ realm.slots \in Nat
  BY LInvParts, BalanceType DEF Good
<1> HIDE DEF t, c
<1>9. /\ Only(realm, r, k, 0) /\ PaneBooks(r.panes[k], "settled", FALSE, k \in geometry)
      /\ r.slots = realm.slots - 1 /\ r.panes[k].state = "untrusted"
  BY <1>5, <1>8, FatalMoves
<1> HIDE DEF r
<1>10. /\ Good(r) /\ loose(r) >= 0 /\ r.panes[s] = realm.panes[s]
       /\ \A j \in Key \ {k} : r.panes[j] = realm.panes[j]
  <2>1. loose(r) = loose(realm) + 0
    BY <1>9 DEF Only, Moved
  <2> QED BY <1>6, <1>8, <1>9, <2>1 DEF Only, Moved
<1>11. /\ Only(r, realm', s, 0) /\ PaneBooks(realm'.panes[s], "settled", FALSE, s \in geometry)
       /\ realm'.slots = r.slots - 1 /\ realm'.panes[s].state = "untrusted"
  <2>1. PaneBooks(r.panes[s], "rotating", FALSE, s \in geometry)
    BY <1>6, <1>10
  <2> QED BY <1>4, <1>10, <2>1, DiscardMoves
<1>12. /\ realm'.panes[k] = r.panes[k]
       /\ \A j \in Key : j # k /\ j # s => realm'.panes[j] = realm.panes[j]
  BY <1>6, <1>10, <1>11 DEF Only
<1>13. Moved(realm, realm', 0)
  <2>1. 0 = 0 + 0 /\ 0 \in Int /\ Moved(realm, r, 0) /\ Moved(r, realm', 0)
    BY <1>9, <1>11 DEF Only
  <2> QED BY <1>8, <2>1, MovedTwice
<1>14. NextBooks(realm')
  <2>1. /\ rotation[k].held /\ rotation[k].successor = {s} /\ UNCHANGED <<adoption, geometry>>
        /\ capacity' = [capacity EXCEPT ![k] = c] /\ rotation' = [rotation EXCEPT ![k] = t]
        /\ c \in CapacityType /\ t \in RotationType /\ ~t.held
    BY <1>2, <1>3, <1>7
  <2>2. kind(k)' = "settled" /\ kind(s)' = "settled"
    BY <2>1, EndKinds
  <2>3. \A j \in Key : j # k /\ j # s => kind(j)' = kind(j) /\ capacity'[j].held = capacity[j].held
    <3>1. /\ rotation[k].held /\ rotation[k].successor = {s} /\ UNCHANGED adoption
          /\ capacity' = [capacity EXCEPT ![k] = c] /\ rotation' = [rotation EXCEPT ![k] = t]
      BY <2>1
    <3>2. c \in CapacityType /\ t \in RotationType /\ ~t.held
      BY <2>1
    <3> QED BY <3>1, <3>2, EndKinds
  <2>4. capacity'[k].held = FALSE /\ capacity'[s].held = FALSE
    <3>1. capacity'[k] = c /\ capacity'[s] = capacity[s]
      BY <1>1, <1>6, <2>1 DEF IInv, TypeOK
    <3>2. capacity[s].held = FALSE
      BY <1>3, <2>1, Rotating
    <3> QED BY <1>7, <3>1, <3>2
  <2>5. PaneBooks(realm'.panes[k], "settled", FALSE, k \in geometry)
    BY <1>9, <1>12
  <2>6. \A j \in Key : j # k /\ j # s => /\ realm'.panes[j] = realm.panes[j] /\ kind(j)' = kind(j)
                                          /\ capacity'[j].held = capacity[j].held
    BY <1>12, <2>3
  <2>7. UNCHANGED geometry
    BY <2>1
  <2> QED BY <1>11, <2>2, <2>4, <2>5, <2>6, <2>7, EndBooks
<1>15. /\ \A j \in Key : realm'.panes[j].state \in {"absent", "untrusted", realm.panes[j].state}
       /\ \A j \in Key : realm'.panes[j].state = "absent" \/ realm.panes[j].state # "absent"
  BY <1>5, <1>6, <1>9, <1>11, <1>12
<1>16. realm'.slots < realm.slots /\ waits(c) = 0
  <2>1. r.slots \in Int
    BY <1>8, <1>9
  <2> QED BY <1>7, <1>8, <1>9, <1>11, <2>1 DEF waits
<1> QED
  BY <1>1, <1>2, <1>3, <1>7, <1>13, <1>14, <1>15, <1>16, RotationEndKept

\* What a commit does to the two generations before it sweeps: the credits go, and so
\* does the predecessor's slot.
LEMMA CommitMoves ==
  ASSUME NEW r, Good(r), loose(r) >= 0, NEW k \in Key, NEW s \in Key, s # k,
         r.panes[k].state # "absent", ~r.panes[k].slotRetired,
         NEW gk, PaneBooks(r.panes[k], "settled", TRUE, gk),
         NEW gs, PaneBooks(r.panes[s], "rotating", FALSE, gs)
  PROVE  LET f == releaseForward(releaseRollback(r, k), s)
             q == IF f.panes[k].slotRetired THEN f ELSE retireSlot(invalidate(f, k), k)
         IN /\ Moved(r, q, 0) /\ q.slots = r.slots - 1
            /\ \A j \in Key : j # k /\ j # s => q.panes[j] = r.panes[j]
            /\ PaneBooks(q.panes[k], "settled", FALSE, gk) /\ q.panes[k].state = "untrusted"
            /\ PaneBooks(q.panes[s], "settled", FALSE, gs) /\ q.panes[s].state = r.panes[s].state
<1> DEFINE b == releaseRollback(r, k)
           f == releaseForward(b, s)
           i == invalidate(f, k)
           q == IF f.panes[k].slotRetired THEN f ELSE retireSlot(i, k)
<1>1. /\ Only(r, b, k, 0) /\ PaneBooks(b.panes[k], "settled", FALSE, gk) /\ b.slots = r.slots
      /\ b.panes[k].state = r.panes[k].state /\ b.panes[k].slotRetired = r.panes[k].slotRetired
  <2>1. TRUE \in BOOLEAN
    OBVIOUS
  <2> QED BY <2>1, RollbackMoves
<1> HIDE DEF b
<1>2. Good(b) /\ Moved(r, b, 0) /\ \A j \in Key \ {k} : b.panes[j] = r.panes[j]
  BY <1>1 DEF Only, Moved
<1>3. /\ Only(b, f, s, 0) /\ PaneBooks(f.panes[s], "settled", FALSE, gs) /\ f.slots = b.slots
      /\ f.panes[s].state = b.panes[s].state
  <2>1. PaneBooks(b.panes[s], "rotating", FALSE, gs)
    BY <1>2
  <2> QED BY <1>2, <2>1, ForwardMoves
<1> HIDE DEF f
<1>4. Good(f) /\ Moved(b, f, 0) /\ \A j \in Key \ {s} : f.panes[j] = b.panes[j]
  BY <1>3 DEF Only, Moved
<1>5. /\ f.panes[k] = b.panes[k] /\ ~f.panes[k].slotRetired /\ f.panes[k].state # "absent"
      /\ PaneBooks(f.panes[k], "settled", FALSE, gk)
  BY <1>1, <1>4
<1>6. /\ Only(f, i, k, 0) /\ PaneBooks(i.panes[k], "settled", FALSE, gk) /\ i.slots = f.slots
      /\ i.panes[k].slotRetired = f.panes[k].slotRetired /\ i.panes[k].state = "untrusted"
  BY <1>4, <1>5, InvalidateMoves
<1> HIDE DEF i
<1>7. q = retireSlot(i, k)
  BY <1>5
<1> HIDE DEF q
<1>8. /\ Good(i) /\ Moved(f, i, 0) /\ \A j \in Key \ {k} : i.panes[j] = f.panes[j]
  BY <1>6 DEF Only, Moved
<1>9. Moved(r, i, 0)
  <2>1. 0 = 0 + 0 /\ 0 \in Int
    OBVIOUS
  <2>2. Moved(r, f, 0)
    BY <1>2, <1>4, <2>1, MovedTwice
  <2> QED BY <1>8, <2>1, <2>2, MovedTwice
<1>10. loose(i) >= 0
  <2>1. loose(r) \in Int
    BY BalanceType DEF Good
  <2>2. loose(i) = loose(r) + 0
    BY <1>9 DEF Moved
  <2> QED BY <2>1, <2>2
<1>11. /\ Only(i, q, k, 0) /\ PaneBooks(q.panes[k], "settled", FALSE, gk)
       /\ q.panes[k].state = i.panes[k].state
       /\ q.slots = IF i.panes[k].slotRetired THEN i.slots ELSE i.slots - 1
  <2>1. i.panes[k].state # "continuous"
    BY <1>6
  <2> QED BY <1>6, <1>7, <1>8, <1>10, <2>1, RetireSlotMoves
<1>12. Moved(i, q, 0) /\ \A j \in Key \ {k} : q.panes[j] = i.panes[j]
  BY <1>11 DEF Only
<1>13. Moved(r, q, 0)
  <2>1. 0 = 0 + 0 /\ 0 \in Int
    OBVIOUS
  <2> QED BY <1>9, <1>12, <2>1, MovedTwice
<1>14. q.slots = r.slots - 1
  BY <1>1, <1>3, <1>5, <1>6, <1>11
<1>15. q.panes[s] = f.panes[s] /\ \A j \in Key : j # k /\ j # s => q.panes[j] = r.panes[j]
  BY <1>2, <1>4, <1>8, <1>12
<1>16. PaneBooks(q.panes[s], "settled", FALSE, gs) /\ q.panes[s].state = r.panes[s].state
  BY <1>2, <1>3, <1>15
<1>17. q.panes[k].state = "untrusted"
  BY <1>6, <1>11
<1> QED
  BY <1>11, <1>13, <1>14, <1>15, <1>16, <1>17 DEF q, i, f, b

-----------------------------------------------------------------------------
(* Committing a rotation.                                                   *)

\* RotationCommit keeps the books.
LEMMA RotationCommitKeeps ==
  ASSUME LInv, NEW k \in Key, RotationCommit(k)
  PROVE  LInv'
<1> DEFINE t == [rotation[k] EXCEPT !.held = FALSE, !.committed = TRUE]
           c == NoCapacity
<1>1. IInv' /\ IInv
  BY RotationCommitStep DEF LInv
<1>2. /\ rotation[k].held /\ rotation[k] \in RotationType
      /\ rotation' = [rotation EXCEPT ![k] = t] /\ capacity' = [capacity EXCEPT ![k] = c]
      /\ UNCHANGED <<adoption, geometry, used, restarts>>
  BY <1>1 DEF RotationCommit, IInv, TypeOK
<1>3. PICK s \in Key : s = theSuccessor(k) /\ rotation[k].successor = {s}
  BY <1>1, <1>2, Successor
<1> DEFINE f == releaseForward(releaseRollback(realm, k), s)
           q == IF f.panes[k].slotRetired THEN f ELSE retireSlot(invalidate(f, k), k)
<1>4. PICK gone \in SUBSET stale(q, s) : realm' = sweep(q, gone)
  BY <1>3 DEF RotationCommit
<1>5. /\ realm.panes[k].state # "absent" /\ ~rotation[k].failed /\ ~realm.panes[k].slotRetired
      /\ PaneBooks(realm.panes[k], "settled", TRUE, k \in geometry)
  BY <1>2, RotationHeld
<1>6. /\ s # k /\ PaneBooks(realm.panes[s], "rotating", FALSE, s \in geometry)
      /\ realm.panes[s].state # "absent"
  BY <1>2, <1>3, Rotating
<1>7. /\ t \in RotationType /\ ~t.held /\ ~t.failed /\ t.successor = rotation[k].successor
      /\ c \in CapacityType /\ c.held = FALSE /\ ~c.active /\ c.successor = Zero
  BY <1>2, <1>5, Idle DEF RotationType, NoCapacity
<1>8. Good(realm) /\ loose(realm) >= 0 /\ loose(realm) \in Int /\ realm.slots \in Nat
  BY LInvParts, BalanceType DEF Good
<1> HIDE DEF t, c
<1>9. /\ Moved(realm, q, 0) /\ q.slots = realm.slots - 1
      /\ \A j \in Key : j # k /\ j # s => q.panes[j] = realm.panes[j]
      /\ PaneBooks(q.panes[k], "settled", FALSE, k \in geometry) /\ q.panes[k].state = "untrusted"
      /\ PaneBooks(q.panes[s], "settled", FALSE, s \in geometry)
      /\ q.panes[s].state = realm.panes[s].state
  BY <1>5, <1>6, <1>8, CommitMoves
<1> HIDE DEF q
<1>10. Good(q) /\ gone \in SUBSET Key /\ \A j \in gone : q.panes[j].slotRetired
  <2>1. Good(q)
    BY <1>9 DEF Moved
  <2>2. gone \in SUBSET Key /\ \A j \in gone : q.panes[j].slotRetired
    BY DEF stale, present
  <2> QED BY <2>1, <2>2
<1>11. NextBooks(q)
  <2>1. /\ rotation[k].held /\ rotation[k].successor = {s} /\ UNCHANGED adoption
        /\ capacity' = [capacity EXCEPT ![k] = c] /\ rotation' = [rotation EXCEPT ![k] = t]
    BY <1>2, <1>3
  <2>2. c \in CapacityType /\ t \in RotationType /\ ~t.held
    BY <1>7
  <2>3. kind(k)' = "settled" /\ kind(s)' = "settled"
    BY <2>1, <2>2, EndKinds
  <2>4. \A j \in Key : j # k /\ j # s => kind(j)' = kind(j) /\ capacity'[j].held = capacity[j].held
    BY <2>1, <2>2, EndKinds
  <2>5. capacity'[k].held = FALSE /\ capacity'[s].held = FALSE
    <3>1. capacity'[k] = c /\ capacity'[s] = capacity[s]
      BY <1>1, <1>6, <2>1 DEF IInv, TypeOK
    <3>2. capacity[s].held = FALSE
      BY <1>3, <2>1, Rotating
    <3> QED BY <1>7, <3>1, <3>2
  <2>6. \A j \in Key : j # k /\ j # s => /\ q.panes[j] = realm.panes[j] /\ kind(j)' = kind(j)
                                          /\ capacity'[j].held = capacity[j].held
    BY <1>9, <2>4
  <2>7. UNCHANGED geometry
    BY <1>2
  <2> QED BY <1>9, <2>3, <2>5, <2>6, <2>7, EndBooks
<1>12. /\ Moved(q, realm', 0) /\ NextBooks(realm') /\ realm'.slots = q.slots
       /\ \A j \in Key : realm'.panes[j] = q.panes[j] \/ realm'.panes[j] = Absent
  BY <1>1, <1>4, <1>10, <1>11, SweepBooks
<1>13. Moved(realm, realm', 0)
  <2>1. 0 = 0 + 0 /\ 0 \in Int
    OBVIOUS
  <2> QED BY <1>8, <1>9, <1>12, <2>1, MovedTwice
<1>14. /\ \A j \in Key : realm'.panes[j].state \in {"absent", "untrusted", realm.panes[j].state}
       /\ \A j \in Key : realm'.panes[j].state = "absent" \/ realm.panes[j].state # "absent"
  <2>1. \A j \in Key : q.panes[j].state \in {"untrusted", realm.panes[j].state}
    BY <1>9
  <2>2. \A j \in Key : q.panes[j].state = "untrusted" => realm.panes[j].state # "absent"
    BY <1>5, <1>6, <1>9
  <2> QED BY <1>12, <2>1, <2>2, AbsentBooks
<1>15. realm'.slots < realm.slots /\ waits(c) = 0
  BY <1>7, <1>8, <1>9, <1>12 DEF waits
<1> QED
  BY <1>1, <1>2, <1>3, <1>7, <1>12, <1>13, <1>14, <1>15, RotationEndKept

\* Nothing adds up to nothing.
LEMMA TotalZero ==
  ASSUME NEW v, \A k \in Key : v[k] = 0
  PROVE  sumOf(v, Key) = 0
<1>1. {} \in SUBSET Key /\ 0 \in Int /\ \A k \in Key : v[k] = IF k \in {} THEN 0 ELSE 0
  OBVIOUS
<1>2. sumOf(v, Key) = Cardinality({}) * 0
  BY <1>1, TotalConst
<1>3. Cardinality({}) = 0
  BY FS_EmptySet
<1> QED
  BY <1>2, <1>3

\* An empty realm keeps its books.
LEMMA InitLInv == Init => LInv
<1> SUFFICES ASSUME Init
             PROVE  LInv
  OBVIOUS
<1>1. IInv
  BY InitIInv
<1>2. /\ realm.panes = [j \in Key |-> Absent] /\ realm.total = Zero /\ realm.reserved = Zero
      /\ realm.slots = 0 /\ realm.orphan = Zero
      /\ capacity = [j \in Key |-> NoCapacity] /\ rotation = [j \in Key |-> NoRotation]
      /\ adoption = [j \in Key |-> "none"] /\ geometry = {} /\ used = {}
  BY DEF Init
<1>3. \A j \in Key : kind(j) = "settled"
  BY <1>2 DEF kind, successorOf, NoRotation
<1>4. PanesOK
  <2> SUFFICES ASSUME NEW j \in Key
               PROVE  PaneBooks(pane(j), kind(j), capacity[j].held, j \in geometry)
    BY DEF PanesOK
  <2>1. PaneBooks(Absent, "settled", FALSE, j \in geometry)
    BY AbsentBooks
  <2>2. pane(j) = Absent /\ kind(j) = "settled"
    BY <1>2, <1>3 DEF pane
  <2>3. capacity[j].held = FALSE
    BY <1>2 DEF NoCapacity
  <2> QED BY <2>1, <2>2, <2>3
<1>5. MintedOK
  <2>1. present(realm) = {}
    BY <1>2, AbsentBooks DEF present
  <2> QED BY <1>2, <2>1 DEF MintedOK, busy, NoRotation
<1>6. TurnsOK
  BY <1>2, <1>1 DEF TurnsOK, busy, NoRotation, NoCapacity
<1>7. NoRoom
  <2>1. ~(0 >= Slots)
    BY LedgerAssumption
  <2> QED BY <1>2, <2>1 DEF NoRoom
<1>8. BooksOK
  <2>1. waiting = {}
    BY <1>2 DEF waiting, NoCapacity
  <2>2. Cardinality(waiting) = 0 /\ Cardinality(geometry) = 0
    BY <1>2, <2>1, FS_EmptySet
  <2>3. counted(realm) = {}
    BY <1>2, AbsentBooks DEF counted
  <2>4. loose(realm) = 0
    BY <1>2, <2>3, FS_EmptySet DEF loose
  <2>5. ASSUME NEW d \in Dim
        PROVE  unpaid(realm, d) = 0 /\ extra(realm, d) = owed(d)
    <3>1. realm.panes \in [Key -> PaneType] /\ \A j \in Key : realm.panes[j] = Absent
      BY <1>1, <1>2 DEF IInv, TypeOK, RealmType
    <3>2. \A j \in Key : charges(realm.panes, d)[j] = 0
      BY <3>1, AbsentBooks, EmptyHold, ChargesAre
    <3>3. \A j \in Key : owns(realm.panes, d)[j] = 0
      BY <3>1, AbsentBooks, OwnsAre
    <3>4. \A j \in Key : claims(d)[j] = 0
      BY <1>2, EmptyHold DEF claims, NoCapacity
    <3>5. /\ sumOf(charges(realm.panes, d), Key) = 0 /\ sumOf(owns(realm.panes, d), Key) = 0
          /\ sumOf(claims(d), Key) = 0
      BY <3>2, <3>3, <3>4, TotalZero
    <3>6. realm.total[d] = 0 /\ realm.orphan[d] = 0 /\ realm.reserved[d] = 0
      BY <1>2, EmptyHold
    <3>7. 0 * Frame = 0
      BY LedgerAssumption
    <3> QED BY <2>2, <3>5, <3>6, <3>7 DEF unpaid, extra, owed
  <2> QED BY <2>2, <2>4, <2>5 DEF BooksOK
<1> QED
  BY <1>1, <1>4, <1>5, <1>6, <1>7, <1>8 DEF LInv

-----------------------------------------------------------------------------
(* Restart.                                                                 *)

\* What a restart makes of a generation whose file it finds: its own charge at most,
\* a slot, and no hold.
LEMMA RecoveredBooks ==
  ASSUME NEW p \in PaneType, NEW corrupt \in BOOLEAN
  PROVE  LET q == recoveredPane(p, corrupt)
         IN /\ q \in PaneType /\ q.state \in {"untrusted", "legacy"} /\ q.slotRetired = FALSE
            /\ \A d \in Dim : own(q)[d] = 0 /\ q.held[d] = 0 /\ q.charge[d] <= p.charge[d]
            /\ PaneBooks(q, "settled", FALSE, FALSE)
<1> DEFINE q == recoveredPane(p, corrupt)
           e == IF corrupt THEN Bytes(0, p.charge["physical"]) ELSE p.charge
<1>1. e \in [Dim -> Nat] /\ \A d \in Dim : e[d] <= p.charge[d]
  <2>1. p.charge \in [Dim -> Nat]
    BY PaneParts
  <2>2. /\ Bytes(0, p.charge["physical"]) \in [Dim -> Nat]
        /\ \A d \in Dim : Bytes(0, p.charge["physical"])[d] <= p.charge[d]
    BY <2>1 DEF Bytes, Dim
  <2>3. \A d \in Dim : p.charge[d] <= p.charge[d]
    BY <2>1
  <2> QED BY <2>1, <2>2, <2>3
<1>2. Absent \in PaneType
  BY AbsentPane
<1>3. /\ q \in PaneType /\ q.state \in {"untrusted", "legacy"} /\ q.slotRetired = FALSE
      /\ q.charge = e /\ q.held = Zero /\ q.adoption = Zero /\ q.rollback = NoHold
      /\ q.forward = NoHold /\ q.capacity = "none" /\ "settled" \notin q.marks
  <2> HIDE DEF e
  <2> DEFINE m == IF corrupt THEN {"corrupt", "file"} ELSE {"file"}
             z == IF corrupt THEN "untrusted" ELSE "legacy"
  <2>1. q = [Absent EXCEPT !.state = z, !.slotRetired = FALSE, !.marks = m, !.charge = e]
    BY DEF recoveredPane, e
  <2>2. /\ m \in SUBSET {"corrupt", "settled", "attributed", "file"} /\ "settled" \notin m
        /\ z \in {"untrusted", "legacy"}
    OBVIOUS
  <2>3. /\ Absent.held = Zero /\ Absent.adoption = Zero /\ Absent.rollback = NoHold
        /\ Absent.forward = NoHold /\ Absent.capacity = "none"
    BY DEF Absent
  <2> HIDE DEF m, z, q
  <2> QED BY <1>1, <1>2, <2>1, <2>2, <2>3 DEF PaneType
<1> HIDE DEF q, e
<1>4. \A d \in Dim : own(q)[d] = 0
  BY <1>3, OwnsNothing
<1>5. \A d \in Dim : q.held[d] = 0
  BY <1>3, EmptyHold
<1>6. \A d \in Dim : q.held[d] = own(q)[d] + (IF FALSE THEN Frame ELSE 0)
  BY <1>4, <1>5
<1>7. PaneBooks(q, "settled", FALSE, FALSE)
  BY <1>3, <1>6, EmptyHold DEF PaneBooks
<1> QED
  BY <1>1, <1>3, <1>4, <1>5, <1>7 DEF q

\* What a restart makes of the generations.
scannedPanes(files, bad) ==
  [k \in Key |-> IF k \in files THEN recoveredPane(pane(k), k \in bad) ELSE Absent]

\* A restart leaves recovered generations where there are files and nothing elsewhere.
LEMMA Scanned ==
  ASSUME LInv, NEW files \in SUBSET Key, NEW bad
  PROVE  LET P == scannedPanes(files, bad)
         IN /\ P \in [Key -> PaneType]
            /\ \A k \in files : P[k].state \in {"untrusted", "legacy"} /\ P[k].slotRetired = FALSE
            /\ \A k \in Key \ files : P[k] = Absent
            /\ \A k \in Key, d \in Dim :
                 own(P[k])[d] = 0 /\ P[k].held[d] = 0 /\ P[k].charge[d] <= realm.panes[k].charge[d]
            /\ \A k \in Key : PaneBooks(P[k], "settled", FALSE, FALSE)
<1> DEFINE P == scannedPanes(files, bad)
<1>1. realm.panes \in [Key -> PaneType]
  BY LInvParts
<1>2. ASSUME NEW k \in files
      PROVE  /\ P[k] \in PaneType /\ P[k].state \in {"untrusted", "legacy"} /\ P[k].slotRetired = FALSE
             /\ \A d \in Dim : /\ own(P[k])[d] = 0 /\ P[k].held[d] = 0
                               /\ P[k].charge[d] <= realm.panes[k].charge[d]
             /\ PaneBooks(P[k], "settled", FALSE, FALSE)
  <2> DEFINE p == realm.panes[k]
             b == k \in bad
  <2>1. p \in PaneType /\ b \in BOOLEAN
    BY <1>1
  <2>2. P[k] = recoveredPane(p, b)
    BY DEF scannedPanes, pane
  <2> HIDE DEF P, b, p
  <2>3. LET q == recoveredPane(p, b)
        IN /\ q \in PaneType /\ q.state \in {"untrusted", "legacy"} /\ q.slotRetired = FALSE
           /\ \A d \in Dim : own(q)[d] = 0 /\ q.held[d] = 0 /\ q.charge[d] <= p.charge[d]
           /\ PaneBooks(q, "settled", FALSE, FALSE)
    BY <2>1, RecoveredBooks
  <2> QED BY <2>2, <2>3 DEF p
<1>3. ASSUME NEW k \in Key \ files
      PROVE  /\ P[k] = Absent /\ P[k] \in PaneType
             /\ \A d \in Dim : /\ own(P[k])[d] = 0 /\ P[k].held[d] = 0
                               /\ P[k].charge[d] <= realm.panes[k].charge[d]
             /\ PaneBooks(P[k], "settled", FALSE, FALSE)
  <2>1. P[k] = Absent
    BY DEF scannedPanes
  <2>2. Absent \in PaneType /\ \A d \in Dim : Absent.held[d] = 0 /\ Absent.charge[d] = 0
    BY AbsentPane, AbsentBooks, EmptyHold DEF Absent
  <2>3. \A d \in Dim : realm.panes[k].charge[d] \in Nat
    BY <1>1, OwnParts
  <2>4. \A d \in Dim : own(Absent)[d] = 0
    BY AbsentBooks
  <2>5. PaneBooks(Absent, "settled", FALSE, FALSE)
    BY AbsentBooks
  <2> HIDE DEF P
  <2>6. \A d \in Dim : own(Absent)[d] = 0 /\ Absent.held[d] = 0 /\ Absent.charge[d] <= realm.panes[k].charge[d]
    BY <2>2, <2>3, <2>4
  <2> QED BY <2>1, <2>2, <2>5, <2>6
<1>4. P \in [Key -> PaneType]
  <2>1. \A k \in Key : P[k] \in PaneType
    BY <1>2, <1>3
  <2> QED BY <2>1 DEF scannedPanes
<1> HIDE DEF P
<1> QED
  BY <1>2, <1>3, <1>4 DEF P

\* Before a restart, what is charged and what is held is no less than the charges and
\* the holds of the generations the restart finds.
LEMMA Booked ==
  ASSUME LInv, realm.orphan = Zero, NEW d \in Dim
  PROVE  /\ realm.total[d] = sumOf(charges(realm.panes, d), Key) /\ realm.reserved[d] >= 0
         /\ realm.total[d] \in Int /\ realm.reserved[d] \in Int
         /\ \A k \in Key : realm.panes[k].charge[d] <= PaneCap[d] /\ realm.panes[k].charge[d] \in Nat
<1>1. /\ realm.panes \in [Key -> PaneType] /\ realm.total \in Amount /\ realm.reserved \in Amount
      /\ realm.orphan[d] = 0 /\ Good(realm)
  BY LInvParts, EmptyHold DEF Good, RealmType
<1>2. realm.total[d] \in Int /\ realm.reserved[d] \in Int
  BY <1>1 DEF Amount
<1>3. Weights(charges(realm.panes, d)) /\ Weights(owns(realm.panes, d))
  BY <1>1, ChargesAre, OwnsAre DEF Weights
<1>4. sumOf(charges(realm.panes, d), Key) \in Int /\ sumOf(owns(realm.panes, d), Key) \in Int
  BY <1>3, TotalType
<1>5. sumOf(owns(realm.panes, d), Key) >= 0
  <2>1. \A k \in Key : owns(realm.panes, d)[k] >= 0
    BY <1>1, OwnsAre
  <2> QED BY <1>3, <2>1, TotalType
<1>6. unpaid(realm, d) = 0 /\ extra(realm, d) = owed(d) /\ owed(d) \in Nat
  BY OwedIs DEF LInv, BooksOK
<1>7. realm.total[d] - realm.orphan[d] - sumOf(charges(realm.panes, d), Key) = 0
  BY <1>6 DEF unpaid
<1>8. realm.reserved[d] - sumOf(owns(realm.panes, d), Key) = owed(d)
  BY <1>6 DEF extra
<1>9. ASSUME NEW k \in Key
      PROVE  realm.panes[k].charge[d] <= PaneCap[d] /\ realm.panes[k].charge[d] \in Nat
  <2> DEFINE p == realm.panes[k]
  <2>1. /\ p \in PaneType /\ p.charge[d] \in Nat /\ p.held[d] \in Int /\ own(p)[d] \in Nat
        /\ PaneCap[d] \in Nat /\ Frame \in Nat
    BY <1>1, OwnParts, LedgerAssumption
  <2>2. p.charge[d] + p.held[d] <= PaneCap[d]
    BY <1>1 DEF Good, Capped
  <2>3. p.held[d] >= 0
    <3>1. CASE p.state = "absent"
      <4>1. p = Absent /\ Absent.held = Zero
        BY <3>1, LInvParts DEF PaneBooks, Absent
      <4> QED BY <4>1, EmptyHold
    <3>2. CASE p.state # "absent"
      <4>1. p.held[d] = own(p)[d] + (IF k \in geometry THEN Frame ELSE 0)
        BY <3>2, LInvParts DEF PaneBooks
      <4> HIDE DEF p
      <4> QED BY <2>1, <4>1
    <3> QED BY <3>1, <3>2
  <2> HIDE DEF p
  <2>4. p.charge[d] <= PaneCap[d]
    BY <2>1, <2>2, <2>3
  <2> QED BY <2>1, <2>4 DEF p
<1> QED
  BY <1>1, <1>2, <1>4, <1>5, <1>6, <1>7, <1>8, <1>9

\* A restart opens new books from the files: what it charges was charged before, nothing
\* is held and every file has a slot.
LEMMA RestartKeeps ==
  ASSUME LInv, Restart
  PROVE  LInv'
<1> DEFINE files == {k \in present(realm) : "file" \in pane(k).marks}
<1>1. PICK bad \in SUBSET files :
        LET P == scannedPanes(files, bad)
        IN realm' = [panes |-> P, total |-> [d \in Dim |-> sumOf(charges(P, d), files)],
                     reserved |-> Zero, slots |-> Cardinality(files), orphan |-> Zero]
  BY DEF Restart, scannedPanes
<1>2. /\ restarts < MaxRestarts /\ restarts' = restarts + 1 /\ realm.orphan = Zero
      /\ capacity' = [k \in Key |-> NoCapacity] /\ rotation' = [k \in Key |-> NoRotation]
      /\ adoption' = [k \in Key |-> "none"] /\ geometry' = {} /\ used' = used
  BY DEF Restart
<1>3. files \in SUBSET Key /\ IsFiniteSet(files) /\ Cardinality(files) \in Nat
  <2>1. files \in SUBSET Key
    BY DEF present
  <2> HIDE DEF files
  <2> QED BY <2>1, KeysFinite, LedgerAssumption, FS_Subset, FS_CardinalityType
<1>4. files \subseteq present(realm)
  OBVIOUS
<1> HIDE DEF files
<1> DEFINE P == scannedPanes(files, bad)
           T == [d \in Dim |-> sumOf(charges(P, d), files)]
<1>5. /\ P \in [Key -> PaneType]
      /\ \A k \in files : P[k].state \in {"untrusted", "legacy"} /\ P[k].slotRetired = FALSE
      /\ \A k \in Key \ files : P[k] = Absent
      /\ \A k \in Key, d \in Dim :
           own(P[k])[d] = 0 /\ P[k].held[d] = 0 /\ P[k].charge[d] <= realm.panes[k].charge[d]
      /\ \A k \in Key : PaneBooks(P[k], "settled", FALSE, FALSE)
  BY <1>3, Scanned
<1>6. realm' = [panes |-> P, total |-> T, reserved |-> Zero, slots |-> Cardinality(files),
                orphan |-> Zero]
  BY <1>1
<1> HIDE DEF P
<1>7. ASSUME NEW d \in Dim
      PROVE  /\ T[d] = sumOf(charges(P, d), Key) /\ T[d] \in Int /\ T[d] <= realm.total[d]
             /\ sumOf(owns(P, d), Key) = 0
  <2> DEFINE w == charges(P, d)
             v == charges(realm.panes, d)
  <2>1. realm.panes \in [Key -> PaneType]
    BY LInvParts
  <2>2. /\ \A k \in Key : w[k] = P[k].charge[d] /\ w[k] \in Nat
        /\ \A k \in Key : v[k] = realm.panes[k].charge[d] /\ v[k] \in Nat
    BY <1>5, <2>1, ChargesAre
  <2>3. \A k \in Key \ files : w[k] = 0
    BY <1>5, <2>2, AbsentBooks, EmptyHold
  <2>4. \A k \in Key : w[k] <= v[k]
    BY <1>5, <2>2
  <2>5. \A k \in Key : owns(P, d)[k] = 0
    BY <1>5, OwnsAre
  <2>6. T[d] = sumOf(w, files)
    OBVIOUS
  <2> HIDE DEF w, v
  <2>7. Weights(w) /\ Weights(v) /\ \A k \in files : w[k] = w[k]
    BY <2>2 DEF Weights
  <2>8. sumOf(w, Key) = sumOf(w, files)
    BY <1>3, <2>3, <2>7, TotalOf
  <2>9. sumOf(w, Key) <= sumOf(v, Key) /\ sumOf(w, Key) \in Int
    BY <2>4, <2>7, TotalMonotone, TotalType
  <2>10. sumOf(owns(P, d), Key) = 0
    BY <2>5, TotalZero
  <2>11. realm.total[d] = sumOf(v, Key)
    BY <1>2, Booked DEF v
  <2> HIDE DEF T
  <2> QED BY <2>6, <2>8, <2>9, <2>10, <2>11 DEF w
<1>8. /\ realm'.panes = P /\ realm'.total = T /\ realm'.reserved = Zero
      /\ realm'.slots = Cardinality(files) /\ realm'.orphan = Zero
  BY <1>6
<1>9. Good(realm')
  <2>1. T \in Amount /\ Zero \in Amount
    BY <1>7, ZeroAmount DEF Amount
  <2>2. realm' \in RealmType
    BY <1>3, <1>5, <1>6, <2>1 DEF RealmType
  <2>3. ASSUME NEW d \in Dim
        PROVE  T[d] + Zero[d] <= RealmCap[d]
    <3>1. realm.total[d] + realm.reserved[d] <= RealmCap[d] /\ RealmCap[d] \in Nat
      BY LInvParts, LedgerAssumption DEF Good, Capped
    <3>2. realm.reserved[d] >= 0 /\ realm.total[d] \in Int /\ realm.reserved[d] \in Int
      BY <1>2, Booked
    <3>3. T[d] \in Int /\ T[d] <= realm.total[d] /\ Zero[d] = 0
      BY <1>7, EmptyHold
    <3> HIDE DEF T
    <3> QED BY <3>1, <3>2, <3>3
  <2>4. ASSUME NEW k \in Key, NEW d \in Dim
        PROVE  P[k].charge[d] + P[k].held[d] <= PaneCap[d]
    <3>1. P[k].charge[d] \in Nat /\ P[k].held[d] = 0 /\ P[k].charge[d] <= realm.panes[k].charge[d]
      BY <1>5, OwnParts
    <3>2. /\ realm.panes[k].charge[d] <= PaneCap[d] /\ realm.panes[k].charge[d] \in Nat
          /\ PaneCap[d] \in Nat
      BY <1>2, Booked, LedgerAssumption
    <3> QED BY <3>1, <3>2
  <2> HIDE DEF T
  <2> QED BY <1>8, <2>2, <2>3, <2>4 DEF Good, Capped
<1> HIDE DEF T
<1>10. \A k \in Key : capacity'[k] = NoCapacity /\ rotation'[k] = NoRotation /\ adoption'[k] = "none"
  BY <1>2
<1>11. /\ ~NoCapacity.held /\ ~NoCapacity.active /\ NoCapacity.successor = Zero
       /\ ~NoRotation.held /\ ~NoRotation.committed /\ ~NoRotation.failed
       /\ NoCapacity.held = FALSE
  BY DEF NoCapacity, NoRotation
<1>12. IInv'
  <2>1. used \subseteq Key /\ restarts' \in 0..MaxRestarts
    <3>1. used \subseteq Key /\ restarts \in 0..MaxRestarts
      BY LInvParts DEF IInv, TypeOK
    <3> QED BY <1>2, <3>1, LedgerAssumption
  <2>2. NoCapacity \in CapacityType /\ NoRotation \in RotationType
    BY Idle
  <2>3. TypeOK'
    BY <1>2, <1>9, <2>1, <2>2 DEF TypeOK, Good
  <2>4. RotationOK' /\ CapacityOK'
    BY <1>10, <1>11 DEF RotationOK, CapacityOK
  <2> QED BY <1>9, <2>3, <2>4 DEF IInv, Good
<1>13. \A k \in Key : kind(k)' = "settled" /\ ~busy(k)'
  BY <1>10, <1>11 DEF kind, successorOf, busy
<1>14. PanesOK'
  <2> SUFFICES ASSUME NEW k \in Key
               PROVE  PaneBooks(realm'.panes[k], kind(k)', capacity'[k].held, k \in geometry')
    BY DEF PanesOK, pane
  <2>1. (k \in geometry') = FALSE
    BY <1>2
  <2>2. kind(k)' = "settled" /\ capacity'[k].held = FALSE /\ realm'.panes[k] = P[k]
    BY <1>8, <1>10, <1>11, <1>13
  <2> QED BY <1>5, <2>1, <2>2
<1>15. MintedOK'
  <2>1. present(realm') \subseteq files
    BY <1>5, <1>8, AbsentBooks DEF present
  <2>2. present(realm) \subseteq used
    BY LInvParts DEF MintedOK
  <2> QED BY <1>2, <1>4, <1>10, <1>13, <2>1, <2>2 DEF MintedOK
<1>16. TurnsOK'
  BY <1>10, <1>11, <1>13 DEF TurnsOK
<1>17. NoRoom'
  <2>1. restarts \in Nat
    BY LInvParts, LedgerAssumption DEF IInv, TypeOK
  <2>2. restarts' # 0
    BY <1>2, <2>1
  <2> QED BY <2>2 DEF NoRoom
<1>18. BooksOK'
  <2>1. waiting' = {}
    BY <1>10, <1>11 DEF waiting
  <2>2. Cardinality(waiting') = 0 /\ Cardinality(geometry') = 0
    BY <1>2, <2>1, FS_EmptySet
  <2>3. counted(realm') = files
    BY <1>3, <1>5, <1>8, AbsentBooks DEF counted
  <2>4. loose(realm') = 0
    BY <1>3, <1>8, <2>3 DEF loose
  <2>5. ASSUME NEW d \in Dim
        PROVE  unpaid(realm', d) = 0 /\ extra(realm', d) = owed(d)'
    <3>1. \A k \in Key : claims(d)'[k] = 0
      BY <1>2, EmptyHold DEF claims, NoCapacity
    <3>2. sumOf(claims(d)', Key) = 0
      BY <3>1, TotalZero
    <3>3. owed(d)' = sumOf(claims(d)', Key) + Cardinality(geometry') * Frame
      BY DEF owed
    <3>4. 0 * Frame = 0
      BY LedgerAssumption
    <3>5. owed(d)' = 0
      BY <2>2, <3>2, <3>3, <3>4
    <3>6. unpaid(realm', d) = T[d] - 0 - T[d]
      BY <1>7, <1>8, EmptyHold DEF unpaid
    <3>7. extra(realm', d) = 0 - 0
      BY <1>7, <1>8, EmptyHold DEF extra
    <3>8. T[d] \in Int
      BY <1>7
    <3> QED BY <3>5, <3>6, <3>7, <3>8
  <2> QED BY <2>2, <2>4, <2>5 DEF BooksOK
<1> QED
  BY <1>12, <1>14, <1>15, <1>16, <1>17, <1>18 DEF LInv

-----------------------------------------------------------------------------
(* The theorems.                                                            *)

\* A stuttering step keeps the books.
LEMMA StutterKeeps ==
  ASSUME LInv, UNCHANGED vars
  PROVE  LInv'
<1>1. /\ realm' = realm /\ capacity' = capacity /\ rotation' = rotation /\ adoption' = adoption
      /\ geometry' = geometry /\ used' = used /\ restarts' = restarts
  BY DEF vars
<1>2. IInv'
  BY <1>1, RealmStep, IInvGood DEF LInv
<1>3. \A j \in Key : kind(j)' = kind(j) /\ busy(j)' = busy(j)
  BY <1>1 DEF kind, successorOf, busy
<1>4. PanesOK'
  BY <1>1, <1>3 DEF LInv, PanesOK, pane
<1>5. MintedOK'
  BY <1>1 DEF LInv, MintedOK, busy
<1>6. TurnsOK'
  BY <1>1 DEF LInv, TurnsOK, busy, pane
<1>7. NoRoom'
  BY <1>1 DEF LInv, NoRoom
<1>8. BooksOK'
  <2>1. waiting' = waiting /\ \A d \in Dim : owed(d)' = owed(d)
    BY <1>1 DEF waiting, owed, claims
  <2> QED BY <1>1, <2>1 DEF LInv, BooksOK
<1> QED
  BY <1>2, <1>4, <1>5, <1>6, <1>7, <1>8 DEF LInv

\* Every step of the ledgers keeps the books.
LEMMA NextKeeps ==
  ASSUME LInv, [Next]_vars
  PROVE  LInv'
<1>1. CASE UNCHANGED vars
  BY <1>1, StutterKeeps
<1>2. CASE Restart
  BY <1>2, RestartKeeps
<1>3. CASE Next /\ ~Restart
  <2>1. PICK k \in Key :
          \/ AdmitPane(k) \/ BeginReconstructedPane(k) \/ AdoptionCommit(k) \/ AdoptionAbort(k)
          \/ RetirePane(k) \/ SettleFailedOwner(k) \/ ReclaimRetired(k) \/ ReclaimRetiredSession(k)
          \/ BeginRotationCapacity(k) \/ ReleaseCapacity(k) \/ ArmRollback(k)
          \/ \E s \in Key : BeginRotatedPane(k, s)
          \/ RotationCommit(k) \/ RotationSettled(k) \/ RotationFailCommitted(k)
          \/ RotationAbort(k) \/ RotationFatal(k)
          \/ \E n \in PayloadSizes : AppendOutput(k, n)
          \/ AppendGeometry(k) \/ ReserveGeometry(k) \/ ReleaseGeometry(k)
          \/ AppendReservedGeometry(k)
          \/ CommitFails(k) \/ AttributeRecovered(k) \/ ReconcileRecovered(k)
    BY <1>3 DEF Next
  <2> QED
    BY <2>1, AdmitPaneKeeps, BeginReconstructedPaneKeeps, AdoptionCommitKeeps, AdoptionAbortKeeps,
       RetirePaneKeeps, MarkKeeps, ReclaimRetiredKeeps, ReclaimRetiredSessionKeeps,
       BeginRotationCapacityKeeps, ReleaseCapacityKeeps, ArmRollbackKeeps, BeginRotatedPaneKeeps,
       RotationCommitKeeps, RotationSettledKeeps, RotationFailCommittedKeeps,
       RotationAbortKeeps, RotationFatalKeeps, AppendOutputKeeps, AppendGeometryKeeps,
       ReserveGeometryKeeps, ReleaseGeometryKeeps, CommitFailsKeeps, ReconcileRecoveredKeeps
<1> QED
  BY <1>1, <1>2, <1>3

\* The generations that still hold a slot are present.
LEMMA CountedPresent ==
  ASSUME LInv
  PROVE  /\ counted(realm) = {k \in present(realm) : ~pane(k).slotRetired}
         /\ IsFiniteSet(counted(realm)) /\ IsFiniteSet(waiting)
         /\ Cardinality(counted(realm)) \in Nat /\ Cardinality(waiting) \in Nat
         /\ realm.slots = Cardinality(counted(realm)) + Cardinality(waiting)
<1>1. \A k \in Key : realm.panes[k].state = "absent" => realm.panes[k].slotRetired
  BY LInvParts, AbsentBooks DEF PaneBooks
<1>2. counted(realm) = {k \in present(realm) : ~pane(k).slotRetired}
  BY <1>1 DEF counted, present, pane
<1>3. counted(realm) \in SUBSET Key /\ waiting \in SUBSET Key
  BY DEF counted, waiting
<1>4. /\ IsFiniteSet(counted(realm)) /\ IsFiniteSet(waiting)
      /\ Cardinality(counted(realm)) \in Nat /\ Cardinality(waiting) \in Nat
  BY <1>3, KeysFinite, LedgerAssumption, FS_Subset, FS_CardinalityType
<1>5. realm.slots - Cardinality(counted(realm)) = Cardinality(waiting) /\ realm.slots \in Nat
  BY LInvParts DEF BooksOK, loose
<1> QED
  BY <1>2, <1>4, <1>5

\* The slot count of the invariant is the one of the property.
LEMMA SlotsAgree == LInv => SlotsBalance
<1> SUFFICES ASSUME LInv
             PROVE  SlotsBalance
  OBVIOUS
<1>1. realm.slots = Cardinality({k \in present(realm) : ~pane(k).slotRetired})
                     + Cardinality({k \in Key : capacity[k].held /\ ~capacity[k].materialized})
  BY CountedPresent DEF waiting
<1>2. LastSlotIsForRotation
  <2> SUFFICES ASSUME realm.slots >= Slots, ~\E k \in Key : capacity[k].held
               PROVE  \E k \in present(realm) : ~pane(k).slotRetired /\ restarts > 0
    BY DEF LastSlotIsForRotation
  <2>1. restarts \in Nat /\ restarts # 0
    BY LInvParts, LedgerAssumption DEF NoRoom, IInv, TypeOK
  <2>2. waiting = {}
    BY DEF waiting
  <2>3. Cardinality(waiting) = 0
    BY <2>2, FS_EmptySet
  <2>4. Cardinality(counted(realm)) > 0
    BY <2>3, CountedPresent, LedgerAssumption, LInvParts
  <2>5. counted(realm) # {}
    BY <2>4, FS_EmptySet
  <2> QED BY <2>1, <2>5, CountedPresent
<1> QED
  BY <1>1, <1>2 DEF SlotsBalance

\* The held amounts of generations are what they own and their geometry reservations.
LEMMA HeldSums ==
  ASSUME LInv, NEW d \in Dim
  PROVE  sumOf([k \in Key |-> pane(k).held[d] + capacity[k].successor[d]], Key)
           = sumOf(owns(realm.panes, d), Key) + Cardinality(geometry \cap present(realm)) * Frame
               + sumOf(claims(d), Key)
<1> DEFINE G == geometry \cap present(realm)
           u == [k \in Key |-> pane(k).held[d] + capacity[k].successor[d]]
           h == [k \in Key |-> pane(k).held[d]]
           g == [k \in Key |-> IF k \in G THEN Frame ELSE 0]
           o == owns(realm.panes, d)
           c == claims(d)
<1>1. /\ realm.panes \in [Key -> PaneType] /\ G \in SUBSET Key /\ Frame \in Int
  BY LInvParts, LedgerAssumption DEF present
<1>2. \A k \in Key : o[k] = own(realm.panes[k])[d] /\ o[k] \in Nat
  BY <1>1, OwnsAre
<1>3. \A k \in Key : c[k] = capacity[k].successor[d] /\ c[k] \in Nat
  BY OwedIs
<1>4. ASSUME NEW k \in Key
      PROVE  h[k] = o[k] + g[k] /\ h[k] \in Int
  <2> DEFINE p == realm.panes[k]
  <2>1. p \in PaneType /\ p.held[d] \in Int /\ own(p)[d] \in Nat /\ h[k] = p.held[d]
    BY <1>1, OwnParts DEF pane
  <2>2. CASE p.state = "absent"
    <3>1. p = Absent
      BY <2>2, LInvParts DEF PaneBooks
    <3>2. Absent.held[d] = 0 /\ own(Absent)[d] = 0
      BY AbsentBooks, EmptyHold DEF Absent
    <3>3. p.held[d] = 0 /\ own(p)[d] = 0
      BY <3>1, <3>2
    <3>4. k \notin G
      BY <2>2 DEF present
    <3> QED BY <1>2, <2>1, <3>3, <3>4
  <2>3. CASE p.state # "absent"
    <3>1. p.held[d] = own(p)[d] + (IF k \in geometry THEN Frame ELSE 0)
      BY <2>3, LInvParts DEF PaneBooks
    <3>2. g[k] = IF k \in geometry THEN Frame ELSE 0
      BY <2>3 DEF present
    <3> HIDE DEF p, h, g, o
    <3> QED BY <1>2, <2>1, <3>1, <3>2 DEF p
  <2> QED BY <2>2, <2>3
<1>5. \A k \in Key : u[k] = h[k] + c[k]
  BY <1>3
<1>6. \A k \in Key : g[k] = IF k \in G THEN Frame ELSE 0
  OBVIOUS
<1> HIDE DEF u, h, g, o, c, G
<1>7. Weights(h) /\ Weights(c) /\ Weights(o) /\ Weights(g)
  BY <1>1, <1>2, <1>3, <1>4, <1>6 DEF Weights
<1>8. sumOf(u, Key) = sumOf(h, Key) + sumOf(c, Key)
  BY <1>5, <1>7, TotalPlus
<1>9. sumOf(h, Key) = sumOf(o, Key) + sumOf(g, Key)
  BY <1>4, <1>7, TotalPlus
<1>10. sumOf(g, Key) = Cardinality(G) * Frame
  BY <1>1, <1>6, TotalConst
<1> QED
  BY <1>8, <1>9, <1>10 DEF u, c, o, G

\* Some geometry reservations outlive their generation; the others are in its holds.
LEMMA GeometrySplit ==
  ASSUME LInv
  PROVE  Cardinality(geometry) * Frame
           = Cardinality(geometry \cap present(realm)) * Frame
               + Cardinality(geometry \ present(realm)) * Frame
<1> DEFINE A == geometry \cap present(realm)
           B == geometry \ present(realm)
           a == Cardinality(A)
           b == Cardinality(B)
           c == Cardinality(geometry)
<1>1. IsFiniteSet(geometry)
  BY LInvParts, KeysFinite, LedgerAssumption, FS_Subset DEF IInv, TypeOK
<1>2. IsFiniteSet(A) /\ IsFiniteSet(B) /\ a \in Nat /\ b \in Nat
  BY <1>1, FS_Subset, FS_CardinalityType
<1>3. geometry = A \cup B /\ A \cap B = {}
  OBVIOUS
<1>4. Cardinality(A \cup B) = Cardinality(A) + Cardinality(B) - Cardinality(A \cap B)
  <2> HIDE DEF A, B
  <2> QED BY <1>2, FS_Union
<1>5. Cardinality(A \cap B) = 0
  BY <1>3, FS_EmptySet
<1>6. c = a + b
  <2>1. Cardinality(A \cup B) = c
    BY <1>3
  <2> HIDE DEF A, B, a, b, c
  <2>2. c = a + b - 0
    BY <1>4, <1>5, <2>1 DEF a, b
  <2> QED BY <1>2, <2>2
<1>7. Frame \in Nat
  BY LedgerAssumption
<1> HIDE DEF a, b, c
<1>8. (a + b) * Frame = a * Frame + b * Frame
  BY <1>2, <1>7
<1> QED
  BY <1>6, <1>8 DEF a, b, c

\* The books of the invariant are the ones of the property.
LEMMA BooksAgree == LInv => LedgersBalance
<1> SUFFICES ASSUME LInv
             PROVE  LedgersBalance
  OBVIOUS
<1>1. realm.panes \in [Key -> PaneType]
  BY LInvParts
<1>2. HoldsAccounted
  <2> SUFFICES ASSUME NEW k \in present(realm), NEW d \in Dim
               PROVE  pane(k).held[d] = pane(k).adoption[d] + pane(k).rollback.bytes[d]
                                          + pane(k).forward.bytes[d]
                                          + (IF k \in geometry THEN Frame ELSE 0)
    BY DEF HoldsAccounted
  <2>1. k \in Key /\ realm.panes[k] \in PaneType /\ realm.panes[k].state # "absent"
    BY <1>1 DEF present
  <2>2. realm.panes[k].held[d] = own(realm.panes[k])[d] + (IF k \in geometry THEN Frame ELSE 0)
    BY <2>1, LInvParts DEF PaneBooks
  <2>3. own(realm.panes[k])[d] = realm.panes[k].adoption[d] + realm.panes[k].rollback.bytes[d]
                                   + realm.panes[k].forward.bytes[d]
    BY <2>1, OwnParts
  <2> QED BY <2>2, <2>3 DEF pane
<1>3. ASSUME NEW d \in Dim
      PROVE  realm.total[d] = realm.orphan[d] + sumOf(charges(realm.panes, d), Key)
  <2> DEFINE t == realm.total[d]
             o == realm.orphan[d]
             c == sumOf(charges(realm.panes, d), Key)
  <2>1. t \in Int /\ o \in Int
    BY LInvParts DEF Good, RealmType, Amount
  <2>2. c \in Int
    <3>1. Weights(charges(realm.panes, d))
      BY <1>1, ChargesAre DEF Weights
    <3> QED BY <3>1, TotalType
  <2>3. t - o - c = 0
    BY DEF LInv, BooksOK, unpaid
  <2> HIDE DEF t, o, c
  <2>4. t = o + c
    BY <2>1, <2>2, <2>3
  <2> QED BY <2>4 DEF t, o, c
<1>4. ASSUME NEW d \in Dim
      PROVE  realm.reserved[d] =
               sumOf([k \in Key |-> pane(k).held[d] + capacity[k].successor[d]], Key)
                 + Cardinality(geometry \ present(realm)) * Frame
  <2> DEFINE r == realm.reserved[d]
             o == sumOf(owns(realm.panes, d), Key)
             c == sumOf(claims(d), Key)
             g == Cardinality(geometry) * Frame
             x == Cardinality(geometry \cap present(realm)) * Frame
             y == Cardinality(geometry \ present(realm)) * Frame
             h == sumOf([k \in Key |-> pane(k).held[d] + capacity[k].successor[d]], Key)
  <2>1. r \in Int
    BY LInvParts DEF Good, RealmType, Amount
  <2>2. o \in Int
    <3>1. Weights(owns(realm.panes, d))
      BY <1>1, OwnsAre DEF Weights
    <3> QED BY <3>1, TotalType
  <2>3. c \in Int /\ owed(d) = c + g
    BY OwedIs
  <2>4. x \in Int /\ y \in Int
    <3>1. IsFiniteSet(geometry)
      BY LInvParts, KeysFinite, LedgerAssumption, FS_Subset DEF IInv, TypeOK
    <3>2. /\ Cardinality(geometry \cap present(realm)) \in Nat
          /\ Cardinality(geometry \ present(realm)) \in Nat
      BY <3>1, FS_Subset, FS_CardinalityType
    <3> QED BY <3>2, LedgerAssumption
  <2>5. r - o = owed(d)
    BY DEF LInv, BooksOK, extra
  <2>6. h = o + x + c
    BY HeldSums
  <2>7. g = x + y
    BY GeometrySplit
  <2> HIDE DEF r, o, c, g, x, y, h
  <2>8. r = h + y
    BY <2>1, <2>2, <2>3, <2>4, <2>5, <2>6, <2>7
  <2> QED BY <2>8 DEF r, h, y
<1> QED
  BY <1>2, <1>3, <1>4 DEF LedgersBalance

\* A record inside the shape of the hold an append draws from is paid by the hold alone.
LEMMA ReplayPaid ==
  ASSUME NEW p \in PaneType, Shaped(p.forward), Shaped(p.rollback),
         holdOf(p) \in {"forward", "rollback"},
         (IF holdOf(p) = "forward" THEN p.forward.records ELSE p.rollback.records) > 0,
         NEW n \in 0..holdAmount(p, holdOf(p))["logical"]
  PROVE  drawn(p, physicalAppendCost(n)) = physicalAppendCost(n)
<1> DEFINE c == physicalAppendCost(n)
           a == holdAmount(p, holdOf(p))
           m == IF holdOf(p) = "forward" THEN p.forward.records ELSE p.rollback.records
           h == IF holdOf(p) = "forward" THEN p.forward ELSE p.rollback
<1>1. /\ h \in HoldType /\ Shaped(h) /\ h.records = m /\ h.bytes = a /\ m \in Int
      /\ a \in [Dim -> Nat]
  BY PaneParts DEF holdAmount
<1>2. a["physical"] >= a["logical"] + m * Frame
  <2> HIDE DEF h, m, a
  <2> QED BY <1>1 DEF Shaped
<1> HIDE DEF a, m, h
<1>3. /\ n \in Nat /\ Frame \in Nat /\ a["logical"] \in Nat /\ a["physical"] \in Nat
      /\ n <= a["logical"] /\ m > 0
  BY <1>1, LedgerAssumption DEF a, m, Dim
<1>4. m * Frame >= Frame
  BY <1>1, <1>3
<1>5. m * Frame \in Int
  BY <1>1, <1>3
<1>6. n + Frame <= a["physical"]
  <2> DEFINE z == m * Frame
  <2> HIDE DEF z
  <2>1. z >= Frame /\ z \in Int /\ a["physical"] >= a["logical"] + z
    BY <1>2, <1>4, <1>5 DEF z
  <2> QED BY <1>3, <2>1
<1>7. c["logical"] = n /\ c["physical"] = n + Frame /\ c = [d \in Dim |-> c[d]]
  BY DEF physicalAppendCost, Bytes, Dim
<1> HIDE DEF c
<1>8. \A d \in Dim : c[d] <= a[d]
  BY <1>3, <1>6, <1>7 DEF Dim
<1>9. Least(c, a) = c
  BY <1>7, <1>8 DEF Least
<1>10. Least(c, a)["physical"] <= Least(c, a)["logical"] + Frame
  BY <1>3, <1>7, <1>9
<1>11. drawn(p, c) = Least(c, a)
  BY <1>10 DEF drawn, a
<1> QED
  BY <1>9, <1>11 DEF c

\* The shape of the holds keeps every replay payable.
LEMMA ReplayAgrees == LInv => HeldReplayIsNeverRefused
<1> SUFFICES ASSUME LInv, NEW k \in present(realm), live(k),
                    holdOf(pane(k)) \in {"forward", "rollback"},
                    (IF holdOf(pane(k)) = "forward" THEN pane(k).forward.records
                                                    ELSE pane(k).rollback.records) > 0,
                    NEW n \in 0..holdAmount(pane(k), holdOf(pane(k)))["logical"]
             PROVE  LET cost == physicalAppendCost(n)
                    IN /\ drawn(pane(k), cost) = cost
                       /\ room(realm, pane(k), Minus(cost, drawn(pane(k), cost)))
  BY DEF HeldReplayIsNeverRefused
<1> DEFINE p == pane(k)
           c == physicalAppendCost(n)
           z == Minus(c, c)
<1>1. k \in Key /\ p \in PaneType /\ Good(realm) /\ Shaped(p.forward) /\ Shaped(p.rollback)
  BY LInvParts DEF present, pane, PaneBooks
<1>2. drawn(p, c) = c
  BY <1>1, ReplayPaid
<1>3. \A d \in Dim : c[d] \in Int
  BY LedgerAssumption, <1>1, PaneParts DEF physicalAppendCost, Bytes
<1>4. \A d \in Dim : z[d] = 0
  BY <1>3 DEF Minus
<1>5. room(realm, p, z)
  <2> SUFFICES ASSUME NEW d \in Dim
               PROVE  /\ z[d] <= PaneCap[d] - (p.charge[d] + p.held[d])
                      /\ z[d] <= RealmCap[d] - (realm.total[d] + realm.reserved[d])
    BY DEF room
  <2>1. /\ p.charge[d] + p.held[d] <= PaneCap[d]
        /\ realm.total[d] + realm.reserved[d] <= RealmCap[d]
    BY <1>1 DEF Good, Capped, pane
  <2>2. /\ p.charge[d] \in Int /\ p.held[d] \in Int /\ PaneCap[d] \in Int /\ RealmCap[d] \in Int
        /\ realm.total[d] \in Int /\ realm.reserved[d] \in Int
    BY <1>1, OwnParts, LedgerAssumption DEF Good, RealmType, Amount
  <2> HIDE DEF z, p
  <2> QED BY <1>4, <2>1, <2>2
<1> QED
  BY <1>2, <1>5

-----------------------------------------------------------------------------
\* The invariant keeps types and caps.
LEMMA CapsAgree == LInv => TypeOK /\ WithinCaps
  BY DEF LInv, IInv, Capped, WithinCaps, pane

\* The books of the ledgers hold in every state of every execution.
LEMMA Inductive == Spec => []LInv
<1>1. Init => LInv
  BY InitLInv
<1>2. LInv /\ [Next]_vars => LInv'
  BY NextKeeps
<1> QED
  BY <1>1, <1>2, PTL DEF Spec

\* No order of appends, conversions and releases takes a hold, a charge or the slot count
\* of the ledgers below zero, whatever the floor in releaseCompletePane would hide.
THEOREM LedgerTypes == Spec => []TypeOK
  BY CapsAgree, Inductive, PTL

\* For every set of generations, every cap, every hold size and across broker restarts,
\* neither a generation nor the realm passes a cap, held capacity included.
THEOREM LedgerWithinCaps == Spec => []WithinCaps
  BY CapsAgree, Inductive, PTL

\* Every byte charged or held is one some generation, rotation capacity, geometry
\* reservation or headerless orphan answers for, whatever order operations, failed
\* unlinks and failed writes come in: the ledgers neither leak nor count twice.
THEOREM LedgersStayBalanced == Spec => []LedgersBalance
  BY BooksAgree, Inductive, PTL

\* The slot count never drifts from the generations and capacities that hold one, and
\* ordinary admission never takes the slot a rotation needs.
THEOREM SlotsStayBalanced == Spec => []SlotsBalance
  BY SlotsAgree, Inductive, PTL

\* A rotation that got its capacity can replay every record its holds were sized for.
THEOREM ReplayNeverRefused == Spec => []HeldReplayIsNeverRefused
  BY ReplayAgrees, Inductive, PTL
=============================================================================
