------------------------ MODULE ControlLeaseProofs ------------------------
(***************************************************************************)
(* What holds of ControlLease for every set of attachments, every lease    *)
(* and every write deadline shorter than it.                               *)
(*                                                                         *)
(* The argument.  Only the lease's owner can be writing, and the write's   *)
(* deadline lies before the lease's expiry (WriterBeforeExpiry); so a      *)
(* lease found free or expired has no writer, and a lease taken from a     *)
(* holder is taken under a gate no writer holds.  An owner is never fenced *)
(* and has nothing in its channel (OwnerIsCurrent), because an attachment  *)
(* obtains the lease once, before which it cannot have been fenced         *)
(* (FreshIsClean).                                                         *)
(***************************************************************************)
EXTENDS ControlLease, TLAPS

\* Before an attachment has obtained the lease.
fresh(o) ==
  \/ pc[o] \in {"new", "transfer", "gating"}
  \/ o \in Takeover /\ pc[o] = "attaching"

WriterBeforeExpiry ==
  \A o \in Attachments : pc[o] = "writing" =>
    lease.owner = o /\ timeLeft[o] < lease.left /\ gate[o]

OwnerIsCurrent ==
  \A o \in Attachments : lease.owner = o =>
    /\ ~fenced[o] /\ displaced[o] = <<>>
    /\ pc[o] \notin {"new", "transfer", "gating", "released", "gone"}
    /\ o \in Takeover => pc[o] # "attaching"

FreshIsClean ==
  \A o \in Attachments : fresh(o) => ~fenced[o] /\ displaced[o] = <<>>

\* The inductive invariant.
LeaseInv == TypeOK /\ WriterBeforeExpiry /\ OwnerIsCurrent /\ FreshIsClean /\ DisplacementFits

USE TakeoverAssumption, TimeAssumption, NoneAssumption

\* The types of what the actions assign.
Entries == [owner : Attachments \cup {None}, left : 0..TTL]
Told == Verdicts \cup {"none", "abnormal"}

LEMMA EntriesType ==
  /\ \A o \in Attachments : entryFor(o) \in Entries
  /\ [owner |-> None, left |-> 0] \in Entries
  /\ \A e \in Entries : [e EXCEPT !.left = IF @ > 0 THEN @ - 1 ELSE 0] \in Entries
<1>1. ASSUME NEW e \in Entries
      PROVE  [e EXCEPT !.left = IF @ > 0 THEN @ - 1 ELSE 0] \in Entries
  <2>1. e.left \in 0..TTL
    BY DEF Entries
  <2>2. (IF e.left > 0 THEN e.left - 1 ELSE 0) \in 0..TTL
    BY <2>1
  <2>3. QED
    BY <2>2 DEF Entries
<1>2. QED
  BY <1>1 DEF Entries, entryFor

LEMMA StepType ==
  ASSUME pc \in [Attachments -> PCs], NEW o \in Attachments, NEW from, NEW to \in PCs,
         step(o, from, to)
  PROVE  pc' \in [Attachments -> PCs]
BY DEF step

LEMMA TellType ==
  ASSUME told \in [Attachments -> Told], NEW o \in Attachments, NEW verdict \in Told,
         tell(o, verdict)
  PROVE  told' \in [Attachments -> Told]
BY DEF tell

LEMMA ChannelTypes ==
  ASSUME NEW q \in Seq(Reasons)
  PROVE  /\ \A r \in Reasons : Append(q, r) \in Seq(Reasons)
         /\ q # <<>> => Head(q) \in Reasons /\ Tail(q) \in Seq(Reasons)
                         /\ Len(Tail(q)) = Len(q) - 1
OBVIOUS

LEMMA ReasonType == \A o \in Attachments : reasonFor(o) \in Reasons
  BY DEF reasonFor, Reasons

LEMMA TakesDisplacementType ==
  ASSUME told \in [Attachments -> Told], displaced \in [Attachments -> Seq(Reasons)],
         NEW o \in Attachments,
         \/ takesDisplacement(o, tell(o, "lease_lost"))
         \/ takesDisplacement(o, UNCHANGED told)
  PROVE  /\ told' \in [Attachments -> Told]
         /\ displaced' \in [Attachments -> Seq(Reasons)]
         /\ \A p \in Attachments : \/ displaced'[p] = displaced[p]
                                   \/ /\ displaced[p] # <<>>
                                      /\ displaced'[p] = Tail(displaced[p])
<1>1. CASE displaced[o] # <<>>
  <2>1. Head(displaced[o]) \in Reasons /\ Tail(displaced[o]) \in Seq(Reasons)
    BY <1>1, ChannelTypes
  <2>2. Head(displaced[o]) \in Told
    BY <2>1 DEF Told, Verdicts
  <2>3. tell(o, Head(displaced[o])) /\ displaced' = [displaced EXCEPT ![o] = Tail(@)]
    BY <1>1 DEF takesDisplacement
  <2>4. QED
    BY <2>1, <2>2, <2>3, TellType
<1>2. CASE displaced[o] = <<>>
  <2>1. UNCHANGED displaced /\ (tell(o, "lease_lost") \/ UNCHANGED told)
    BY <1>2 DEF takesDisplacement
  <2>2. "lease_lost" \in Told
    BY DEF Told, Verdicts
  <2>3. QED
    BY <2>1, <2>2, TellType
<1>3. QED
  BY <1>1, <1>2

LEMMA LeaseInvInit == Init => LeaseInv
  BY DEF Init, LeaseInv, TypeOK, WriterBeforeExpiry, OwnerIsCurrent, FreshIsClean, fresh,
     DisplacementFits, PCs, Reasons, Verdicts

LEMMA AcquireOwnerPreserves ==
  ASSUME LeaseInv, NEW o \in Attachments, AcquireOwner(o)
  PROVE  LeaseInv'
<1>1. TypeOK'
  <2>1. /\ lease \in Entries /\ told \in [Attachments -> Told]
        /\ pc \in [Attachments -> PCs] /\ displaced \in [Attachments -> Seq(Reasons)]
    BY DEF LeaseInv, TypeOK, Entries, Told
  <2>2. pc' \in [Attachments -> PCs]
    BY <2>1, StepType DEF AcquireOwner, PCs, takesDisplacement
  <2>3. lease' \in Entries
    BY <2>1, EntriesType DEF AcquireOwner
  <2>4. told' \in [Attachments -> Told]
    BY <2>1, TellType DEF AcquireOwner, Told, Verdicts
  <2>5. /\ fenced' \in [Attachments -> BOOLEAN] /\ gate' \in [Attachments -> BOOLEAN]
        /\ victim' \in [Attachments -> Attachments \cup {None}]
        /\ timeLeft' \in [Attachments -> 0..WriteTimeout]
        /\ pong' \in [Attachments -> {"idle", "refused", "telling", "failed"}]
    BY DEF AcquireOwner, LeaseInv, TypeOK, leaseVars, pongVars, held, exact, renewable
  <2>6. QED
    BY <2>1, <2>2, <2>3, <2>4, <2>5
       DEF AcquireOwner, LeaseInv, TypeOK, Entries, Told, leaseVars, pongVars
<1> USE DEF AcquireOwner, step, tell, entryFor, held, exact, renewable,
             releaseOwner, reasonFor, takesDisplacement, leaseVars, pongVars
<1>2. WriterBeforeExpiry'
  BY DEF LeaseInv, TypeOK, WriterBeforeExpiry
<1>3. OwnerIsCurrent'
  BY DEF LeaseInv, TypeOK, OwnerIsCurrent, FreshIsClean, fresh
<1>4. FreshIsClean'
  BY DEF LeaseInv, TypeOK, OwnerIsCurrent, FreshIsClean, fresh
<1>5. DisplacementFits'
  BY DEF LeaseInv, TypeOK, OwnerIsCurrent, DisplacementFits
<1>6. QED
  BY <1>1, <1>2, <1>3, <1>4, <1>5 DEF LeaseInv

LEMMA PrepareTakeoverPreserves ==
  ASSUME LeaseInv, NEW o \in Attachments, PrepareTakeover(o)
  PROVE  LeaseInv'
<1>1. TypeOK'
  <2>1. /\ lease \in Entries /\ told \in [Attachments -> Told]
        /\ pc \in [Attachments -> PCs] /\ displaced \in [Attachments -> Seq(Reasons)]
    BY DEF LeaseInv, TypeOK, Entries, Told
  <2>2. pc' \in [Attachments -> PCs]
    BY <2>1, StepType DEF PrepareTakeover, PCs, takesDisplacement
  <2>3. /\ fenced' \in [Attachments -> BOOLEAN] /\ gate' \in [Attachments -> BOOLEAN]
        /\ victim' \in [Attachments -> Attachments \cup {None}]
        /\ timeLeft' \in [Attachments -> 0..WriteTimeout]
        /\ pong' \in [Attachments -> {"idle", "refused", "telling", "failed"}]
    BY DEF PrepareTakeover, LeaseInv, TypeOK, leaseVars, pongVars, held, exact, renewable
  <2>4. QED
    BY <2>1, <2>2, <2>3
       DEF PrepareTakeover, LeaseInv, TypeOK, Entries, Told, leaseVars, pongVars
<1> USE DEF PrepareTakeover, step, tell, entryFor, held, exact, renewable,
             releaseOwner, reasonFor, takesDisplacement, leaseVars, pongVars
<1>2. WriterBeforeExpiry'
  BY DEF LeaseInv, TypeOK, WriterBeforeExpiry
<1>3. OwnerIsCurrent'
  BY DEF LeaseInv, TypeOK, OwnerIsCurrent, FreshIsClean, fresh
<1>4. FreshIsClean'
  BY DEF LeaseInv, TypeOK, OwnerIsCurrent, FreshIsClean, fresh
<1>5. DisplacementFits'
  BY DEF LeaseInv, TypeOK, OwnerIsCurrent, DisplacementFits
<1>6. QED
  BY <1>1, <1>2, <1>3, <1>4, <1>5 DEF LeaseInv

LEMMA BrokerAttachesPreserves ==
  ASSUME LeaseInv, NEW o \in Attachments, BrokerAttaches(o)
  PROVE  LeaseInv'
<1>1. TypeOK'
  <2>1. /\ lease \in Entries /\ told \in [Attachments -> Told]
        /\ pc \in [Attachments -> PCs] /\ displaced \in [Attachments -> Seq(Reasons)]
    BY DEF LeaseInv, TypeOK, Entries, Told
  <2>2. pc' \in [Attachments -> PCs]
    BY <2>1, StepType DEF BrokerAttaches, PCs, takesDisplacement
  <2>3. /\ fenced' \in [Attachments -> BOOLEAN] /\ gate' \in [Attachments -> BOOLEAN]
        /\ victim' \in [Attachments -> Attachments \cup {None}]
        /\ timeLeft' \in [Attachments -> 0..WriteTimeout]
        /\ pong' \in [Attachments -> {"idle", "refused", "telling", "failed"}]
    BY DEF BrokerAttaches, LeaseInv, TypeOK, leaseVars, pongVars, held, exact, renewable
  <2>4. QED
    BY <2>1, <2>2, <2>3
       DEF BrokerAttaches, LeaseInv, TypeOK, Entries, Told, leaseVars, pongVars
<1> USE DEF BrokerAttaches, step, tell, entryFor, held, exact, renewable,
             releaseOwner, reasonFor, takesDisplacement, leaseVars, pongVars
<1>2. WriterBeforeExpiry'
  BY DEF LeaseInv, TypeOK, WriterBeforeExpiry
<1>3. OwnerIsCurrent'
  BY DEF LeaseInv, TypeOK, OwnerIsCurrent, FreshIsClean, fresh
<1>4. FreshIsClean'
  BY DEF LeaseInv, TypeOK, OwnerIsCurrent, FreshIsClean, fresh
<1>5. DisplacementFits'
  BY DEF LeaseInv, TypeOK, OwnerIsCurrent, DisplacementFits
<1>6. QED
  BY <1>1, <1>2, <1>3, <1>4, <1>5 DEF LeaseInv

LEMMA BrokerRefusesPreserves ==
  ASSUME LeaseInv, NEW o \in Attachments, BrokerRefuses(o)
  PROVE  LeaseInv'
<1>1. TypeOK'
  <2>1. /\ lease \in Entries /\ told \in [Attachments -> Told]
        /\ pc \in [Attachments -> PCs] /\ displaced \in [Attachments -> Seq(Reasons)]
    BY DEF LeaseInv, TypeOK, Entries, Told
  <2>2. pc' \in [Attachments -> PCs]
    BY <2>1, StepType DEF BrokerRefuses, PCs, takesDisplacement
  <2>3. told' \in [Attachments -> Told]
    BY <2>1, TellType DEF BrokerRefuses, Told, Verdicts
  <2>4. /\ fenced' \in [Attachments -> BOOLEAN] /\ gate' \in [Attachments -> BOOLEAN]
        /\ victim' \in [Attachments -> Attachments \cup {None}]
        /\ timeLeft' \in [Attachments -> 0..WriteTimeout]
        /\ pong' \in [Attachments -> {"idle", "refused", "telling", "failed"}]
    BY DEF BrokerRefuses, LeaseInv, TypeOK, leaseVars, pongVars, held, exact, renewable
  <2>5. QED
    BY <2>1, <2>2, <2>3, <2>4
       DEF BrokerRefuses, LeaseInv, TypeOK, Entries, Told, leaseVars, pongVars
<1> USE DEF BrokerRefuses, step, tell, entryFor, held, exact, renewable,
             releaseOwner, reasonFor, takesDisplacement, leaseVars, pongVars
<1>2. WriterBeforeExpiry'
  BY DEF LeaseInv, TypeOK, WriterBeforeExpiry
<1>3. OwnerIsCurrent'
  BY DEF LeaseInv, TypeOK, OwnerIsCurrent, FreshIsClean, fresh
<1>4. FreshIsClean'
  BY DEF LeaseInv, TypeOK, OwnerIsCurrent, FreshIsClean, fresh
<1>5. DisplacementFits'
  BY DEF LeaseInv, TypeOK, OwnerIsCurrent, DisplacementFits
<1>6. QED
  BY <1>1, <1>2, <1>3, <1>4, <1>5 DEF LeaseInv

LEMMA TransferLooksPreserves ==
  ASSUME LeaseInv, NEW o \in Attachments, TransferLooks(o)
  PROVE  LeaseInv'
<1>1. TypeOK'
  <2>1. /\ lease \in Entries /\ told \in [Attachments -> Told]
        /\ pc \in [Attachments -> PCs] /\ displaced \in [Attachments -> Seq(Reasons)]
    BY DEF LeaseInv, TypeOK, Entries, Told
  <2>2. pc' \in [Attachments -> PCs]
    BY <2>1, StepType DEF TransferLooks, PCs, takesDisplacement
  <2>3. lease' \in Entries
    BY <2>1, EntriesType DEF TransferLooks
  <2>4. /\ fenced' \in [Attachments -> BOOLEAN] /\ gate' \in [Attachments -> BOOLEAN]
        /\ victim' \in [Attachments -> Attachments \cup {None}]
        /\ timeLeft' \in [Attachments -> 0..WriteTimeout]
        /\ pong' \in [Attachments -> {"idle", "refused", "telling", "failed"}]
    BY DEF TransferLooks, LeaseInv, TypeOK, leaseVars, pongVars, held, exact, renewable
  <2>5. QED
    BY <2>1, <2>2, <2>3, <2>4
       DEF TransferLooks, LeaseInv, TypeOK, Entries, Told, leaseVars, pongVars
<1> USE DEF TransferLooks, step, tell, entryFor, held, exact, renewable,
             releaseOwner, reasonFor, takesDisplacement, leaseVars, pongVars
<1>2. WriterBeforeExpiry'
  BY DEF LeaseInv, TypeOK, WriterBeforeExpiry
<1>3. OwnerIsCurrent'
  BY DEF LeaseInv, TypeOK, OwnerIsCurrent, FreshIsClean, fresh
<1>4. FreshIsClean'
  BY DEF LeaseInv, TypeOK, OwnerIsCurrent, FreshIsClean, fresh
<1>5. DisplacementFits'
  BY DEF LeaseInv, TypeOK, OwnerIsCurrent, DisplacementFits
<1>6. QED
  BY <1>1, <1>2, <1>3, <1>4, <1>5 DEF LeaseInv

LEMMA TransferFencesPreserves ==
  ASSUME LeaseInv, NEW o \in Attachments, TransferFences(o)
  PROVE  LeaseInv'
<1>1. TypeOK'
  <2>1. /\ lease \in Entries /\ told \in [Attachments -> Told]
        /\ pc \in [Attachments -> PCs] /\ displaced \in [Attachments -> Seq(Reasons)]
    BY DEF LeaseInv, TypeOK, Entries, Told
  <2>2. pc' \in [Attachments -> PCs]
    BY <2>1, StepType DEF TransferFences, PCs, takesDisplacement
  <2>3. lease' \in Entries
    BY <2>1, EntriesType DEF TransferFences, leaseVars
  <2>4. displaced' \in [Attachments -> Seq(Reasons)]
    <3>1. victim[o] \in Attachments
      BY DEF TransferFences, LeaseInv, TypeOK
    <3>2. Append(displaced[victim[o]], reasonFor(victim[o])) \in Seq(Reasons)
      BY <2>1, <3>1, ReasonType, ChannelTypes
    <3>3. QED
      BY <2>1, <3>2 DEF TransferFences, leaseVars
  <2>5. /\ fenced' \in [Attachments -> BOOLEAN] /\ gate' \in [Attachments -> BOOLEAN]
        /\ victim' \in [Attachments -> Attachments \cup {None}]
        /\ timeLeft' \in [Attachments -> 0..WriteTimeout]
        /\ pong' \in [Attachments -> {"idle", "refused", "telling", "failed"}]
    BY DEF TransferFences, LeaseInv, TypeOK, leaseVars, pongVars, held, exact, renewable
  <2>6. QED
    BY <2>1, <2>2, <2>3, <2>4, <2>5
       DEF TransferFences, LeaseInv, TypeOK, Entries, Told, leaseVars, pongVars
<1> USE DEF TransferFences, step, tell, entryFor, held, exact, renewable,
             releaseOwner, reasonFor, takesDisplacement, leaseVars, pongVars
<1>2. WriterBeforeExpiry'
  BY DEF LeaseInv, TypeOK, WriterBeforeExpiry
<1>3. OwnerIsCurrent'
  BY DEF LeaseInv, TypeOK, OwnerIsCurrent, FreshIsClean, fresh
<1>4. FreshIsClean'
  BY DEF LeaseInv, TypeOK, OwnerIsCurrent, FreshIsClean, fresh
<1>5. DisplacementFits'
  <2>1. ASSUME NEW p \in Attachments PROVE Len(displaced'[p]) <= 1
    <3>1. CASE exact(victim[o]) /\ p = victim[o]
      <4>1. displaced[p] = <<>>
        BY <3>1 DEF LeaseInv, OwnerIsCurrent
      <4>2. displaced'[p] = Append(<<>>, reasonFor(p))
        BY <3>1, <4>1 DEF LeaseInv, TypeOK
      <4>3. QED
        BY <4>2
    <3>2. CASE ~(exact(victim[o]) /\ p = victim[o])
      BY <3>2 DEF LeaseInv, TypeOK, DisplacementFits
    <3>3. QED
      BY <3>1, <3>2
  <2>2. QED
    BY <2>1 DEF DisplacementFits
<1>6. QED
  BY <1>1, <1>2, <1>3, <1>4, <1>5 DEF LeaseInv

LEMMA PollDisplacedPreserves ==
  ASSUME LeaseInv, NEW o \in Attachments, PollDisplaced(o)
  PROVE  LeaseInv'
<1>1. TypeOK'
  <2>1. /\ lease \in Entries /\ told \in [Attachments -> Told]
        /\ pc \in [Attachments -> PCs] /\ displaced \in [Attachments -> Seq(Reasons)]
    BY DEF LeaseInv, TypeOK, Entries, Told
  <2>2. pc' \in [Attachments -> PCs]
    BY <2>1, StepType DEF PollDisplaced, PCs, takesDisplacement
  <2>3. told' \in [Attachments -> Told] /\ displaced' \in [Attachments -> Seq(Reasons)]
    BY <2>1, TakesDisplacementType DEF PollDisplaced
  <2>4. /\ fenced' \in [Attachments -> BOOLEAN] /\ gate' \in [Attachments -> BOOLEAN]
        /\ victim' \in [Attachments -> Attachments \cup {None}]
        /\ timeLeft' \in [Attachments -> 0..WriteTimeout]
        /\ pong' \in [Attachments -> {"idle", "refused", "telling", "failed"}]
    BY DEF PollDisplaced, LeaseInv, TypeOK, leaseVars, pongVars, held, exact, renewable
  <2>5. QED
    BY <2>1, <2>2, <2>3, <2>4
       DEF PollDisplaced, LeaseInv, TypeOK, Entries, Told, leaseVars, pongVars
<1> USE DEF PollDisplaced, step, tell, entryFor, held, exact, renewable,
             releaseOwner, reasonFor, takesDisplacement, leaseVars, pongVars
<1>2. WriterBeforeExpiry'
  BY DEF LeaseInv, TypeOK, WriterBeforeExpiry
<1>3. OwnerIsCurrent'
  BY DEF LeaseInv, TypeOK, OwnerIsCurrent, FreshIsClean, fresh
<1>4. FreshIsClean'
  BY DEF LeaseInv, TypeOK, OwnerIsCurrent, FreshIsClean, fresh
<1>5. DisplacementFits'
  <2>1. ASSUME NEW p \in Attachments
        PROVE  \/ displaced'[p] = displaced[p]
               \/ displaced[p] # <<>> /\ displaced'[p] = Tail(displaced[p])
    BY DEF LeaseInv, TypeOK
  <2>2. \A p \in Attachments : displaced[p] \in Seq(Reasons) /\ Len(displaced[p]) <= 1
    BY DEF LeaseInv, TypeOK, DisplacementFits
  <2>3. ASSUME NEW p \in Attachments PROVE Len(displaced'[p]) <= 1
    <3>1. CASE displaced'[p] = displaced[p]
      BY <2>2, <3>1
    <3>2. CASE displaced[p] # <<>> /\ displaced'[p] = Tail(displaced[p])
      <4>1. Len(Tail(displaced[p])) = Len(displaced[p]) - 1
        BY <2>2, <3>2
      <4>2. Len(displaced[p]) \in Nat
        BY <2>2
      <4>3. QED
        BY <2>2, <3>2, <4>1, <4>2
    <3>3. QED
      BY <2>1, <3>1, <3>2
  <2>4. QED
    BY <2>3 DEF DisplacementFits
<1>6. QED
  BY <1>1, <1>2, <1>3, <1>4, <1>5 DEF LeaseInv

LEMMA WriteEndsPreserves ==
  ASSUME LeaseInv, NEW o \in Attachments, WriteEnds(o)
  PROVE  LeaseInv'
<1>1. TypeOK'
  <2>1. /\ lease \in Entries /\ told \in [Attachments -> Told]
        /\ pc \in [Attachments -> PCs] /\ displaced \in [Attachments -> Seq(Reasons)]
    BY DEF LeaseInv, TypeOK, Entries, Told
  <2>2. pc' \in [Attachments -> PCs]
    BY <2>1, StepType DEF WriteEnds, PCs, takesDisplacement
  <2>3. told' \in [Attachments -> Told]
    BY <2>1, TellType DEF WriteEnds, Told, Verdicts
  <2>4. /\ fenced' \in [Attachments -> BOOLEAN] /\ gate' \in [Attachments -> BOOLEAN]
        /\ victim' \in [Attachments -> Attachments \cup {None}]
        /\ timeLeft' \in [Attachments -> 0..WriteTimeout]
        /\ pong' \in [Attachments -> {"idle", "refused", "telling", "failed"}]
    BY DEF WriteEnds, LeaseInv, TypeOK, leaseVars, pongVars, held, exact, renewable
  <2>5. QED
    BY <2>1, <2>2, <2>3, <2>4
       DEF WriteEnds, LeaseInv, TypeOK, Entries, Told, leaseVars, pongVars
<1> USE DEF WriteEnds, step, tell, entryFor, held, exact, renewable,
             releaseOwner, reasonFor, takesDisplacement, leaseVars, pongVars
<1>2. WriterBeforeExpiry'
  BY DEF LeaseInv, TypeOK, WriterBeforeExpiry
<1>3. OwnerIsCurrent'
  BY DEF LeaseInv, TypeOK, OwnerIsCurrent, FreshIsClean, fresh
<1>4. FreshIsClean'
  BY DEF LeaseInv, TypeOK, OwnerIsCurrent, FreshIsClean, fresh
<1>5. DisplacementFits'
  BY DEF LeaseInv, TypeOK, OwnerIsCurrent, DisplacementFits
<1>6. QED
  BY <1>1, <1>2, <1>3, <1>4, <1>5 DEF LeaseInv

LEMMA InputRefusedPreserves ==
  ASSUME LeaseInv, NEW o \in Attachments, InputRefused(o)
  PROVE  LeaseInv'
<1>1. TypeOK'
  <2>1. /\ lease \in Entries /\ told \in [Attachments -> Told]
        /\ pc \in [Attachments -> PCs] /\ displaced \in [Attachments -> Seq(Reasons)]
    BY DEF LeaseInv, TypeOK, Entries, Told
  <2>2. pc' \in [Attachments -> PCs]
    BY <2>1, StepType DEF InputRefused, PCs, takesDisplacement
  <2>3. told' \in [Attachments -> Told] /\ displaced' \in [Attachments -> Seq(Reasons)]
    BY <2>1, TakesDisplacementType DEF InputRefused
  <2>4. /\ fenced' \in [Attachments -> BOOLEAN] /\ gate' \in [Attachments -> BOOLEAN]
        /\ victim' \in [Attachments -> Attachments \cup {None}]
        /\ timeLeft' \in [Attachments -> 0..WriteTimeout]
        /\ pong' \in [Attachments -> {"idle", "refused", "telling", "failed"}]
    BY DEF InputRefused, LeaseInv, TypeOK, leaseVars, pongVars, held, exact, renewable
  <2>5. QED
    BY <2>1, <2>2, <2>3, <2>4
       DEF InputRefused, LeaseInv, TypeOK, Entries, Told, leaseVars, pongVars
<1> USE DEF InputRefused, step, tell, entryFor, held, exact, renewable,
             releaseOwner, reasonFor, takesDisplacement, leaseVars, pongVars
<1>2. WriterBeforeExpiry'
  BY DEF LeaseInv, TypeOK, WriterBeforeExpiry
<1>3. OwnerIsCurrent'
  BY DEF LeaseInv, TypeOK, OwnerIsCurrent, FreshIsClean, fresh
<1>4. FreshIsClean'
  BY DEF LeaseInv, TypeOK, OwnerIsCurrent, FreshIsClean, fresh
<1>5. DisplacementFits'
  <2>1. ASSUME NEW p \in Attachments
        PROVE  \/ displaced'[p] = displaced[p]
               \/ displaced[p] # <<>> /\ displaced'[p] = Tail(displaced[p])
    BY DEF LeaseInv, TypeOK
  <2>2. \A p \in Attachments : displaced[p] \in Seq(Reasons) /\ Len(displaced[p]) <= 1
    BY DEF LeaseInv, TypeOK, DisplacementFits
  <2>3. ASSUME NEW p \in Attachments PROVE Len(displaced'[p]) <= 1
    <3>1. CASE displaced'[p] = displaced[p]
      BY <2>2, <3>1
    <3>2. CASE displaced[p] # <<>> /\ displaced'[p] = Tail(displaced[p])
      <4>1. Len(Tail(displaced[p])) = Len(displaced[p]) - 1
        BY <2>2, <3>2
      <4>2. Len(displaced[p]) \in Nat
        BY <2>2
      <4>3. QED
        BY <2>2, <3>2, <4>1, <4>2
    <3>3. QED
      BY <2>1, <3>1, <3>2
  <2>4. QED
    BY <2>3 DEF DisplacementFits
<1>6. QED
  BY <1>1, <1>2, <1>3, <1>4, <1>5 DEF LeaseInv

LEMMA FencedFrameEndsPreserves ==
  ASSUME LeaseInv, NEW o \in Attachments, FencedFrameEnds(o)
  PROVE  LeaseInv'
<1>1. TypeOK'
  <2>1. /\ lease \in Entries /\ told \in [Attachments -> Told]
        /\ pc \in [Attachments -> PCs] /\ displaced \in [Attachments -> Seq(Reasons)]
    BY DEF LeaseInv, TypeOK, Entries, Told
  <2>2. pc' \in [Attachments -> PCs]
    BY <2>1, StepType DEF FencedFrameEnds, PCs, takesDisplacement
  <2>3. told' \in [Attachments -> Told] /\ displaced' \in [Attachments -> Seq(Reasons)]
    BY <2>1, TakesDisplacementType DEF FencedFrameEnds
  <2>4. /\ fenced' \in [Attachments -> BOOLEAN] /\ gate' \in [Attachments -> BOOLEAN]
        /\ victim' \in [Attachments -> Attachments \cup {None}]
        /\ timeLeft' \in [Attachments -> 0..WriteTimeout]
        /\ pong' \in [Attachments -> {"idle", "refused", "telling", "failed"}]
    BY DEF FencedFrameEnds, LeaseInv, TypeOK, leaseVars, pongVars, held, exact, renewable
  <2>5. QED
    BY <2>1, <2>2, <2>3, <2>4
       DEF FencedFrameEnds, LeaseInv, TypeOK, Entries, Told, leaseVars, pongVars
<1> USE DEF FencedFrameEnds, step, tell, entryFor, held, exact, renewable,
             releaseOwner, reasonFor, takesDisplacement, leaseVars, pongVars
<1>2. WriterBeforeExpiry'
  BY DEF LeaseInv, TypeOK, WriterBeforeExpiry
<1>3. OwnerIsCurrent'
  BY DEF LeaseInv, TypeOK, OwnerIsCurrent, FreshIsClean, fresh
<1>4. FreshIsClean'
  BY DEF LeaseInv, TypeOK, OwnerIsCurrent, FreshIsClean, fresh
<1>5. DisplacementFits'
  <2>1. ASSUME NEW p \in Attachments
        PROVE  \/ displaced'[p] = displaced[p]
               \/ displaced[p] # <<>> /\ displaced'[p] = Tail(displaced[p])
    BY DEF LeaseInv, TypeOK
  <2>2. \A p \in Attachments : displaced[p] \in Seq(Reasons) /\ Len(displaced[p]) <= 1
    BY DEF LeaseInv, TypeOK, DisplacementFits
  <2>3. ASSUME NEW p \in Attachments PROVE Len(displaced'[p]) <= 1
    <3>1. CASE displaced'[p] = displaced[p]
      BY <2>2, <3>1
    <3>2. CASE displaced[p] # <<>> /\ displaced'[p] = Tail(displaced[p])
      <4>1. Len(Tail(displaced[p])) = Len(displaced[p]) - 1
        BY <2>2, <3>2
      <4>2. Len(displaced[p]) \in Nat
        BY <2>2
      <4>3. QED
        BY <2>2, <3>2, <4>1, <4>2
    <3>3. QED
      BY <2>1, <3>1, <3>2
  <2>4. QED
    BY <2>3 DEF DisplacementFits
<1>6. QED
  BY <1>1, <1>2, <1>3, <1>4, <1>5 DEF LeaseInv

LEMMA ReadFailsPreserves ==
  ASSUME LeaseInv, NEW o \in Attachments, ReadFails(o)
  PROVE  LeaseInv'
<1>1. TypeOK'
  <2>1. /\ lease \in Entries /\ told \in [Attachments -> Told]
        /\ pc \in [Attachments -> PCs] /\ displaced \in [Attachments -> Seq(Reasons)]
    BY DEF LeaseInv, TypeOK, Entries, Told
  <2>2. pc' \in [Attachments -> PCs]
    BY <2>1, StepType DEF ReadFails, PCs, takesDisplacement
  <2>3. /\ fenced' \in [Attachments -> BOOLEAN] /\ gate' \in [Attachments -> BOOLEAN]
        /\ victim' \in [Attachments -> Attachments \cup {None}]
        /\ timeLeft' \in [Attachments -> 0..WriteTimeout]
        /\ pong' \in [Attachments -> {"idle", "refused", "telling", "failed"}]
    BY DEF ReadFails, LeaseInv, TypeOK, leaseVars, pongVars, held, exact, renewable
  <2>4. QED
    BY <2>1, <2>2, <2>3
       DEF ReadFails, LeaseInv, TypeOK, Entries, Told, leaseVars, pongVars
<1> USE DEF ReadFails, step, tell, entryFor, held, exact, renewable,
             releaseOwner, reasonFor, takesDisplacement, leaseVars, pongVars
<1>2. WriterBeforeExpiry'
  BY DEF LeaseInv, TypeOK, WriterBeforeExpiry
<1>3. OwnerIsCurrent'
  BY DEF LeaseInv, TypeOK, OwnerIsCurrent, FreshIsClean, fresh
<1>4. FreshIsClean'
  BY DEF LeaseInv, TypeOK, OwnerIsCurrent, FreshIsClean, fresh
<1>5. DisplacementFits'
  BY DEF LeaseInv, TypeOK, OwnerIsCurrent, DisplacementFits
<1>6. QED
  BY <1>1, <1>2, <1>3, <1>4, <1>5 DEF LeaseInv

LEMMA ReleasePreserves ==
  ASSUME LeaseInv, NEW o \in Attachments, Release(o)
  PROVE  LeaseInv'
<1>1. TypeOK'
  <2>1. /\ lease \in Entries /\ told \in [Attachments -> Told]
        /\ pc \in [Attachments -> PCs] /\ displaced \in [Attachments -> Seq(Reasons)]
    BY DEF LeaseInv, TypeOK, Entries, Told
  <2>2. pc' \in [Attachments -> PCs]
    BY <2>1, StepType DEF Release, PCs, takesDisplacement
  <2>3. lease' \in Entries
    BY <2>1, EntriesType DEF Release, releaseOwner
  <2>4. /\ fenced' \in [Attachments -> BOOLEAN] /\ gate' \in [Attachments -> BOOLEAN]
        /\ victim' \in [Attachments -> Attachments \cup {None}]
        /\ timeLeft' \in [Attachments -> 0..WriteTimeout]
        /\ pong' \in [Attachments -> {"idle", "refused", "telling", "failed"}]
    BY DEF Release, LeaseInv, TypeOK, leaseVars, pongVars, held, exact, renewable
  <2>5. QED
    BY <2>1, <2>2, <2>3, <2>4
       DEF Release, LeaseInv, TypeOK, Entries, Told, leaseVars, pongVars
<1> USE DEF Release, step, tell, entryFor, held, exact, renewable,
             releaseOwner, reasonFor, takesDisplacement, leaseVars, pongVars
<1>2. WriterBeforeExpiry'
  BY DEF LeaseInv, TypeOK, WriterBeforeExpiry
<1>3. OwnerIsCurrent'
  BY DEF LeaseInv, TypeOK, OwnerIsCurrent, FreshIsClean, fresh
<1>4. FreshIsClean'
  BY DEF LeaseInv, TypeOK, OwnerIsCurrent, FreshIsClean, fresh
<1>5. DisplacementFits'
  BY DEF LeaseInv, TypeOK, OwnerIsCurrent, DisplacementFits
<1>6. QED
  BY <1>1, <1>2, <1>3, <1>4, <1>5 DEF LeaseInv

LEMMA SocketClosesPreserves ==
  ASSUME LeaseInv, NEW o \in Attachments, SocketCloses(o)
  PROVE  LeaseInv'
<1>1. TypeOK'
  <2>1. /\ lease \in Entries /\ told \in [Attachments -> Told]
        /\ pc \in [Attachments -> PCs] /\ displaced \in [Attachments -> Seq(Reasons)]
    BY DEF LeaseInv, TypeOK, Entries, Told
  <2>2. pc' \in [Attachments -> PCs]
    BY <2>1, StepType DEF SocketCloses, PCs, takesDisplacement
  <2>3. told' \in [Attachments -> Told]
    BY <2>1, TellType DEF SocketCloses, Told, Verdicts
  <2>4. /\ fenced' \in [Attachments -> BOOLEAN] /\ gate' \in [Attachments -> BOOLEAN]
        /\ victim' \in [Attachments -> Attachments \cup {None}]
        /\ timeLeft' \in [Attachments -> 0..WriteTimeout]
        /\ pong' \in [Attachments -> {"idle", "refused", "telling", "failed"}]
    BY DEF SocketCloses, LeaseInv, TypeOK, leaseVars, pongVars, held, exact, renewable
  <2>5. QED
    BY <2>1, <2>2, <2>3, <2>4
       DEF SocketCloses, LeaseInv, TypeOK, Entries, Told, leaseVars, pongVars
<1> USE DEF SocketCloses, step, tell, entryFor, held, exact, renewable,
             releaseOwner, reasonFor, takesDisplacement, leaseVars, pongVars
<1>2. WriterBeforeExpiry'
  BY DEF LeaseInv, TypeOK, WriterBeforeExpiry
<1>3. OwnerIsCurrent'
  BY DEF LeaseInv, TypeOK, OwnerIsCurrent, FreshIsClean, fresh
<1>4. FreshIsClean'
  BY DEF LeaseInv, TypeOK, OwnerIsCurrent, FreshIsClean, fresh
<1>5. DisplacementFits'
  BY DEF LeaseInv, TypeOK, OwnerIsCurrent, DisplacementFits
<1>6. QED
  BY <1>1, <1>2, <1>3, <1>4, <1>5 DEF LeaseInv

LEMMA PongRefusedPreserves ==
  ASSUME LeaseInv, NEW o \in Attachments, PongRefused(o)
  PROVE  LeaseInv'
<1>1. TypeOK'
  <2>1. /\ lease \in Entries /\ told \in [Attachments -> Told]
        /\ pc \in [Attachments -> PCs] /\ displaced \in [Attachments -> Seq(Reasons)]
    BY DEF LeaseInv, TypeOK, Entries, Told
  <2>2. displaced' \in [Attachments -> Seq(Reasons)] /\ drained' \in [Attachments -> Reasons \cup {"none"}]
    <3>1. displaced[o] # <<>> => Head(displaced[o]) \in Reasons /\ Tail(displaced[o]) \in Seq(Reasons)
      BY <2>1, ChannelTypes
    <3>2. drained \in [Attachments -> Reasons \cup {"none"}]
      BY DEF LeaseInv, TypeOK
    <3>3. QED
      BY <2>1, <3>1, <3>2 DEF PongRefused
  <2>3. /\ fenced' \in [Attachments -> BOOLEAN] /\ gate' \in [Attachments -> BOOLEAN]
        /\ victim' \in [Attachments -> Attachments \cup {None}]
        /\ timeLeft' \in [Attachments -> 0..WriteTimeout]
        /\ pong' \in [Attachments -> {"idle", "refused", "telling", "failed"}]
    BY DEF PongRefused, LeaseInv, TypeOK, leaseVars, pongVars, held, exact, renewable
  <2>4. QED
    BY <2>1, <2>2, <2>3
       DEF PongRefused, LeaseInv, TypeOK, Entries, Told, leaseVars, pongVars
<1> USE DEF PongRefused, step, tell, entryFor, held, exact, renewable,
             releaseOwner, reasonFor, takesDisplacement, leaseVars, pongVars
<1>2. WriterBeforeExpiry'
  BY DEF LeaseInv, TypeOK, WriterBeforeExpiry
<1>3. OwnerIsCurrent'
  BY DEF LeaseInv, TypeOK, OwnerIsCurrent, FreshIsClean, fresh
<1>4. FreshIsClean'
  BY DEF LeaseInv, TypeOK, OwnerIsCurrent, FreshIsClean, fresh
<1>5. DisplacementFits'
  <2>1. ASSUME NEW p \in Attachments
        PROVE  \/ displaced'[p] = displaced[p]
               \/ displaced[p] # <<>> /\ displaced'[p] = Tail(displaced[p])
    BY DEF LeaseInv, TypeOK
  <2>2. \A p \in Attachments : displaced[p] \in Seq(Reasons) /\ Len(displaced[p]) <= 1
    BY DEF LeaseInv, TypeOK, DisplacementFits
  <2>3. ASSUME NEW p \in Attachments PROVE Len(displaced'[p]) <= 1
    <3>1. CASE displaced'[p] = displaced[p]
      BY <2>2, <3>1
    <3>2. CASE displaced[p] # <<>> /\ displaced'[p] = Tail(displaced[p])
      <4>1. Len(Tail(displaced[p])) = Len(displaced[p]) - 1
        BY <2>2, <3>2
      <4>2. Len(displaced[p]) \in Nat
        BY <2>2
      <4>3. QED
        BY <2>2, <3>2, <4>1, <4>2
    <3>3. QED
      BY <2>1, <3>1, <3>2
  <2>4. QED
    BY <2>3 DEF DisplacementFits
<1>6. QED
  BY <1>1, <1>2, <1>3, <1>4, <1>5 DEF LeaseInv

LEMMA PongTellsPreserves ==
  ASSUME LeaseInv, NEW o \in Attachments, PongTells(o)
  PROVE  LeaseInv'
<1>1. TypeOK'
  <2>1. /\ lease \in Entries /\ told \in [Attachments -> Told]
        /\ pc \in [Attachments -> PCs] /\ displaced \in [Attachments -> Seq(Reasons)]
    BY DEF LeaseInv, TypeOK, Entries, Told
  <2>2. told' \in [Attachments -> Told]
    BY <2>1, TellType DEF PongTells, Told, Verdicts, tell, LeaseInv, TypeOK, Reasons
  <2>3. /\ fenced' \in [Attachments -> BOOLEAN] /\ gate' \in [Attachments -> BOOLEAN]
        /\ victim' \in [Attachments -> Attachments \cup {None}]
        /\ timeLeft' \in [Attachments -> 0..WriteTimeout]
        /\ pong' \in [Attachments -> {"idle", "refused", "telling", "failed"}]
    BY DEF PongTells, LeaseInv, TypeOK, leaseVars, pongVars, held, exact, renewable
  <2>4. QED
    BY <2>1, <2>2, <2>3
       DEF PongTells, LeaseInv, TypeOK, Entries, Told, leaseVars, pongVars
<1> USE DEF PongTells, step, tell, entryFor, held, exact, renewable,
             releaseOwner, reasonFor, takesDisplacement, leaseVars, pongVars
<1>2. WriterBeforeExpiry'
  BY DEF LeaseInv, TypeOK, WriterBeforeExpiry
<1>3. OwnerIsCurrent'
  BY DEF LeaseInv, TypeOK, OwnerIsCurrent, FreshIsClean, fresh
<1>4. FreshIsClean'
  BY DEF LeaseInv, TypeOK, OwnerIsCurrent, FreshIsClean, fresh
<1>5. DisplacementFits'
  BY DEF LeaseInv, TypeOK, OwnerIsCurrent, DisplacementFits
<1>6. QED
  BY <1>1, <1>2, <1>3, <1>4, <1>5 DEF LeaseInv

LEMMA InputArrivesPreserves ==
  ASSUME LeaseInv, NEW o \in Attachments, InputArrives(o)
  PROVE  LeaseInv'
<1>1. TypeOK'
  <2>1. /\ lease \in Entries /\ told \in [Attachments -> Told]
        /\ pc \in [Attachments -> PCs] /\ displaced \in [Attachments -> Seq(Reasons)]
    BY DEF LeaseInv, TypeOK, Entries, Told
  <2>2. pc' \in [Attachments -> PCs]
    BY <2>1, StepType DEF InputArrives, PCs, takesDisplacement
  <2>3. lease' \in Entries
    BY <2>1, EntriesType DEF InputArrives
  <2>4. /\ fenced' \in [Attachments -> BOOLEAN] /\ gate' \in [Attachments -> BOOLEAN]
        /\ victim' \in [Attachments -> Attachments \cup {None}]
        /\ timeLeft' \in [Attachments -> 0..WriteTimeout]
        /\ pong' \in [Attachments -> {"idle", "refused", "telling", "failed"}]
    <3>1. WriteTimeout \in 0..WriteTimeout
      OBVIOUS
    <3>2. CASE renewable(o)
      <4>1. /\ timeLeft' = [timeLeft EXCEPT ![o] = WriteTimeout]
            /\ gate' = [gate EXCEPT ![o] = TRUE]
            /\ UNCHANGED <<fenced, victim, pong>>
        BY <3>2 DEF InputArrives, pongVars
      <4>2. /\ timeLeft \in [Attachments -> 0..WriteTimeout]
            /\ gate \in [Attachments -> BOOLEAN]
        BY DEF LeaseInv, TypeOK
      <4>3. timeLeft' \in [Attachments -> 0..WriteTimeout]
        BY <3>1, <4>1, <4>2
      <4>4. gate' \in [Attachments -> BOOLEAN]
        BY <4>1, <4>2
      <4>5. QED
        BY <4>1, <4>3, <4>4 DEF LeaseInv, TypeOK
    <3>3. CASE ~renewable(o)
      BY <3>3 DEF InputArrives, LeaseInv, TypeOK, pongVars
    <3>4. QED
      BY <3>2, <3>3
  <2>5. QED
    BY <2>1, <2>2, <2>3, <2>4
       DEF InputArrives, LeaseInv, TypeOK, Entries, Told, leaseVars, pongVars
<1> USE DEF InputArrives, step, tell, entryFor, held, exact, renewable,
             releaseOwner, reasonFor, takesDisplacement, leaseVars, pongVars
<1>2. WriterBeforeExpiry'
  BY DEF LeaseInv, TypeOK, WriterBeforeExpiry
<1>3. OwnerIsCurrent'
  BY DEF LeaseInv, TypeOK, OwnerIsCurrent, FreshIsClean, fresh
<1>4. FreshIsClean'
  BY DEF LeaseInv, TypeOK, OwnerIsCurrent, FreshIsClean, fresh
<1>5. DisplacementFits'
  BY DEF LeaseInv, TypeOK, OwnerIsCurrent, DisplacementFits
<1>6. QED
  BY <1>1, <1>2, <1>3, <1>4, <1>5 DEF LeaseInv

LEMMA BrokerFramePreserves ==
  ASSUME LeaseInv, NEW o \in Attachments, BrokerFrame(o)
  PROVE  LeaseInv'
<1>1. TypeOK'
  <2>1. /\ lease \in Entries /\ told \in [Attachments -> Told]
        /\ pc \in [Attachments -> PCs] /\ displaced \in [Attachments -> Seq(Reasons)]
    BY DEF LeaseInv, TypeOK, Entries, Told
  <2>2. pc' \in [Attachments -> PCs]
    BY <2>1, StepType DEF BrokerFrame, PCs, takesDisplacement
  <2>3. /\ fenced' \in [Attachments -> BOOLEAN] /\ gate' \in [Attachments -> BOOLEAN]
        /\ victim' \in [Attachments -> Attachments \cup {None}]
        /\ timeLeft' \in [Attachments -> 0..WriteTimeout]
        /\ pong' \in [Attachments -> {"idle", "refused", "telling", "failed"}]
    BY DEF BrokerFrame, LeaseInv, TypeOK, leaseVars, pongVars, held, exact, renewable
  <2>4. QED
    BY <2>1, <2>2, <2>3
       DEF BrokerFrame, LeaseInv, TypeOK, Entries, Told, leaseVars, pongVars
<1> USE DEF BrokerFrame, step, tell, entryFor, held, exact, renewable,
             releaseOwner, reasonFor, takesDisplacement, leaseVars, pongVars
<1>2. WriterBeforeExpiry'
  BY DEF LeaseInv, TypeOK, WriterBeforeExpiry
<1>3. OwnerIsCurrent'
  BY DEF LeaseInv, TypeOK, OwnerIsCurrent, FreshIsClean, fresh
<1>4. FreshIsClean'
  BY DEF LeaseInv, TypeOK, OwnerIsCurrent, FreshIsClean, fresh
<1>5. DisplacementFits'
  BY DEF LeaseInv, TypeOK, OwnerIsCurrent, DisplacementFits
<1>6. QED
  BY <1>1, <1>2, <1>3, <1>4, <1>5 DEF LeaseInv

LEMMA OtherEndPreserves ==
  ASSUME LeaseInv, NEW o \in Attachments, OtherEnd(o)
  PROVE  LeaseInv'
<1>1. TypeOK'
  <2>1. /\ lease \in Entries /\ told \in [Attachments -> Told]
        /\ pc \in [Attachments -> PCs] /\ displaced \in [Attachments -> Seq(Reasons)]
    BY DEF LeaseInv, TypeOK, Entries, Told
  <2>2. pc' \in [Attachments -> PCs]
    BY <2>1, StepType DEF OtherEnd, PCs, takesDisplacement
  <2>3. told' \in [Attachments -> Told]
    BY <2>1, TellType DEF OtherEnd, Told, Verdicts
  <2>4. /\ fenced' \in [Attachments -> BOOLEAN] /\ gate' \in [Attachments -> BOOLEAN]
        /\ victim' \in [Attachments -> Attachments \cup {None}]
        /\ timeLeft' \in [Attachments -> 0..WriteTimeout]
        /\ pong' \in [Attachments -> {"idle", "refused", "telling", "failed"}]
    BY DEF OtherEnd, LeaseInv, TypeOK, leaseVars, pongVars, held, exact, renewable
  <2>5. QED
    BY <2>1, <2>2, <2>3, <2>4
       DEF OtherEnd, LeaseInv, TypeOK, Entries, Told, leaseVars, pongVars
<1> USE DEF OtherEnd, step, tell, entryFor, held, exact, renewable,
             releaseOwner, reasonFor, takesDisplacement, leaseVars, pongVars
<1>2. WriterBeforeExpiry'
  BY DEF LeaseInv, TypeOK, WriterBeforeExpiry
<1>3. OwnerIsCurrent'
  BY DEF LeaseInv, TypeOK, OwnerIsCurrent, FreshIsClean, fresh
<1>4. FreshIsClean'
  BY DEF LeaseInv, TypeOK, OwnerIsCurrent, FreshIsClean, fresh
<1>5. DisplacementFits'
  BY DEF LeaseInv, TypeOK, OwnerIsCurrent, DisplacementFits
<1>6. QED
  BY <1>1, <1>2, <1>3, <1>4, <1>5 DEF LeaseInv

LEMMA PongArrivesPreserves ==
  ASSUME LeaseInv, NEW o \in Attachments, PongArrives(o)
  PROVE  LeaseInv'
<1>1. TypeOK'
  <2>1. /\ lease \in Entries /\ told \in [Attachments -> Told]
        /\ pc \in [Attachments -> PCs] /\ displaced \in [Attachments -> Seq(Reasons)]
    BY DEF LeaseInv, TypeOK, Entries, Told
  <2>2. lease' \in Entries
    BY <2>1, EntriesType DEF PongArrives
  <2>3. /\ fenced' \in [Attachments -> BOOLEAN] /\ gate' \in [Attachments -> BOOLEAN]
        /\ victim' \in [Attachments -> Attachments \cup {None}]
        /\ timeLeft' \in [Attachments -> 0..WriteTimeout]
        /\ pong' \in [Attachments -> {"idle", "refused", "telling", "failed"}]
    BY DEF PongArrives, LeaseInv, TypeOK, leaseVars, pongVars, held, exact, renewable
  <2>4. QED
    BY <2>1, <2>2, <2>3
       DEF PongArrives, LeaseInv, TypeOK, Entries, Told, leaseVars, pongVars
<1> USE DEF PongArrives, step, tell, entryFor, held, exact, renewable,
             releaseOwner, reasonFor, takesDisplacement, leaseVars, pongVars
<1>2. WriterBeforeExpiry'
  BY DEF LeaseInv, TypeOK, WriterBeforeExpiry
<1>3. OwnerIsCurrent'
  BY DEF LeaseInv, TypeOK, OwnerIsCurrent, FreshIsClean, fresh
<1>4. FreshIsClean'
  BY DEF LeaseInv, TypeOK, OwnerIsCurrent, FreshIsClean, fresh
<1>5. DisplacementFits'
  BY DEF LeaseInv, TypeOK, OwnerIsCurrent, DisplacementFits
<1>6. QED
  BY <1>1, <1>2, <1>3, <1>4, <1>5 DEF LeaseInv

LEMMA TickPreserves ==
  ASSUME LeaseInv, Tick
  PROVE  LeaseInv'
<1> USE DEF Tick, pongVars
<1>1. TypeOK'
  <2>1. lease' \in Entries
    BY EntriesType DEF LeaseInv, TypeOK, Entries
  <2>2. timeLeft' \in [Attachments -> 0..WriteTimeout]
    BY DEF LeaseInv, TypeOK
  <2>3. QED
    BY <2>1, <2>2 DEF LeaseInv, TypeOK, Entries
<1>2. WriterBeforeExpiry'
  BY DEF LeaseInv, TypeOK, WriterBeforeExpiry
<1>3. OwnerIsCurrent' /\ FreshIsClean' /\ DisplacementFits'
  BY DEF LeaseInv, TypeOK, OwnerIsCurrent, FreshIsClean, fresh, DisplacementFits
<1>4. QED
  BY <1>1, <1>2, <1>3 DEF LeaseInv

LEMMA StutterPreserves ==
  ASSUME LeaseInv, UNCHANGED vars
  PROVE  LeaseInv'
BY DEF LeaseInv, TypeOK, WriterBeforeExpiry, OwnerIsCurrent, FreshIsClean, fresh,
   DisplacementFits, vars

\* LeaseInv is an invariant of the specification.
THEOREM LeaseInvariant == Spec => []LeaseInv
<1>1. LeaseInv /\ [Next]_vars => LeaseInv'
  <2> SUFFICES ASSUME LeaseInv, [Next]_vars PROVE LeaseInv'
    OBVIOUS
  <2>1. CASE Tick
    BY <2>1, TickPreserves
  <2>2. ASSUME NEW o \in Attachments, attach(o) PROVE LeaseInv'
    BY <2>2, AcquireOwnerPreserves, PrepareTakeoverPreserves, BrokerAttachesPreserves,
       BrokerRefusesPreserves DEF attach
  <2>3. ASSUME NEW o \in Attachments, proceed(o) PROVE LeaseInv'
    BY <2>3, TransferLooksPreserves, TransferFencesPreserves, PollDisplacedPreserves,
       WriteEndsPreserves, InputRefusedPreserves, FencedFrameEndsPreserves,
       ReadFailsPreserves, ReleasePreserves, SocketClosesPreserves DEF proceed
  <2>4. ASSUME NEW o \in Attachments, answerPong(o) PROVE LeaseInv'
    BY <2>4, PongRefusedPreserves, PongTellsPreserves DEF answerPong
  <2>5. ASSUME NEW o \in Attachments, receive(o) PROVE LeaseInv'
    BY <2>5, InputArrivesPreserves, BrokerFramePreserves, OtherEndPreserves,
       PongArrivesPreserves DEF receive
  <2>6. CASE UNCHANGED vars
    BY <2>6, StutterPreserves
  <2>7. QED
    BY <2>1, <2>2, <2>3, <2>4, <2>5, <2>6 DEF Next
<1>2. QED
  BY <1>1, LeaseInvInit, PTL DEF Spec

\* The safety half of ControlLease: never two writers, a writer always holds
\* an unexpired lease and is not fenced, a displacement always fits in its
\* channel, and the lease names an attachment that will release it.
THEOREM LeaseSafety ==
  Spec => []( /\ TypeOK /\ SingleWriter
              /\ DisplacementFits /\ LeaseIsOwned)
<1>1. LeaseInv => TypeOK /\ SingleWriter /\ DisplacementFits /\ LeaseIsOwned
  BY DEF LeaseInv, TypeOK, WriterBeforeExpiry, OwnerIsCurrent, SingleWriter,
     WriterHoldsLease, LeaseIsOwned, exact
<1>2. QED
  BY <1>1, LeaseInvariant, PTL

\* The lease, the entries of the store and the attachments that wait on it keep
\* their types: no time left grows past its allowance (state.go, leaseStore).
THEOREM LeaseTypes == Spec => []TypeOK
<1>1. LeaseInv => TypeOK
  BY DEF LeaseInv
<1>2. QED
  BY <1>1, LeaseInvariant, PTL

\* A lease leaves its owner only by expiry, by a takeover that fences the
\* owner in the same step, or by the owner's own release.
THEOREM LeaseLeaves == Spec => LeaseLeavesByRule
<1> DEFINE Rule == lease.owner # None /\ lease'.owner # lease.owner =>
                     \/ lease.left = 0
                     \/ fenced'[lease.owner]
                     \/ pc[lease.owner] \in {"closing", "unwinding"}
<1>1. LeaseInv /\ [Next]_vars => [Rule]_vars
  <2> SUFFICES ASSUME LeaseInv, Next PROVE Rule
    OBVIOUS
  <2> USE DEF LeaseInv, TypeOK, step, entryFor, held, exact, renewable, releaseOwner
  <2>1. CASE Tick
    BY <2>1 DEF Tick
  <2>2. ASSUME NEW o \in Attachments, attach(o) PROVE Rule
    BY <2>2 DEF attach, AcquireOwner, PrepareTakeover, BrokerAttaches, BrokerRefuses, leaseVars
  <2>3. ASSUME NEW o \in Attachments, proceed(o) PROVE Rule
    <3>1. CASE TransferLooks(o)
      BY <3>1 DEF TransferLooks
    <3>2. CASE TransferFences(o)
      BY <3>2 DEF TransferFences, leaseVars
    <3>3. CASE Release(o)
      BY <3>3 DEF Release
    <3>4. CASE PollDisplaced(o) \/ WriteEnds(o) \/ InputRefused(o) \/ FencedFrameEnds(o)
                 \/ ReadFails(o) \/ SocketCloses(o)
      BY <3>4 DEF PollDisplaced, WriteEnds, InputRefused, FencedFrameEnds, ReadFails,
         SocketCloses, leaseVars
    <3>5. QED
      BY <2>3, <3>1, <3>2, <3>3, <3>4 DEF proceed
  <2>4. ASSUME NEW o \in Attachments, answerPong(o) PROVE Rule
    BY <2>4 DEF answerPong, PongRefused, PongTells, leaseVars
  <2>5. ASSUME NEW o \in Attachments, receive(o) PROVE Rule
    BY <2>5 DEF receive, InputArrives, BrokerFrame, OtherEnd, PongArrives, leaseVars
  <2>6. QED
    BY <2>1, <2>2, <2>3, <2>4, <2>5 DEF Next
<1>2. QED
  BY <1>1, LeaseInvariant, PTL DEF Spec, LeaseLeavesByRule
=============================================================================
