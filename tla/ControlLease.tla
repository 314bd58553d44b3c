---------------------------- MODULE ControlLease ----------------------------
(***************************************************************************)
(* The Control lease of one authority (frontdoor/control_takeover.go and   *)
(* the handler Server.terminal of frontdoor/server.go).                    *)
(*                                                                         *)
(* At most one browser page may type into a session.  The lease names the  *)
(* attachment that may, and expires unless it is renewed.  An ordinary     *)
(* attachment acquires the lease before it asks the broker for the         *)
(* session; a takeover attaches first and then takes the lease from its    *)
(* holder, whom it fences.                                                 *)
(*                                                                         *)
(* Every attachment runs two threads that use the lease: the relay loop    *)
(* (pc) and the pong handler on the read pump (pong).  A section under     *)
(* leaseStore.mu is one action.  inputGate is held across a broker write,  *)
(* so that is two actions; the sections that take and give it back at once *)
(* wait for it to be free.                                                 *)
(***************************************************************************)
EXTENDS Integers, Sequences

CONSTANTS Attachments,    \* sockets in mode "control", for one authority
          Takeover,       \* those opened with the takeover protocol
          Ponging,        \* those whose pongs are modelled
          TTL,            \* LeaseTTL
          WriteTimeout,   \* BrokerWriteTimeout
          None            \* no attachment

ASSUME TakeoverAssumption == Takeover \subseteq Attachments /\ Ponging \subseteq Attachments
ASSUME TimeAssumption ==
  TTL \in Nat /\ WriteTimeout \in Nat /\ WriteTimeout < TTL
ASSUME NoneAssumption == None \notin Attachments

VARIABLES
  lease,      \* leaseStore.entries[key]: owner, and the time left to expiry
  fenced,     \* controlLeaseOwner.fenced
  displaced,  \* controlLeaseOwner.displaced, a channel with one slot
  gate,       \* the relay loop holds its controlLeaseOwner.inputGate
  pc,         \* where the relay loop is
  victim,     \* transfer's oldOwner
  timeLeft,   \* the time left to the broker write's deadline
  pong,       \* where the pong handler is
  drained,    \* the reason the pong handler took from the channel
  told        \* the first close reason written to the socket

leaseVars == <<lease, fenced, displaced>>
pongVars == <<pong, drained>>
vars == <<lease, fenced, displaced, gate, pc, victim, timeLeft, pong, drained, told>>

Reasons == {"control_displaced", "takeover_superseded"}
Verdicts == Reasons \cup {"lease_held", "lease_lost", "failed"}

PCs == {"new", "attaching", "unwinding", "transfer", "gating", "relay", "writing",
        "refused", "fencedFrame", "closing", "released", "gone"}

TypeOK ==
  /\ lease \in [owner : Attachments \cup {None}, left : 0..TTL]
  /\ fenced \in [Attachments -> BOOLEAN]
  /\ displaced \in [Attachments -> Seq(Reasons)]
  /\ gate \in [Attachments -> BOOLEAN]
  /\ pc \in [Attachments -> PCs]
  /\ victim \in [Attachments -> Attachments \cup {None}]
  /\ timeLeft \in [Attachments -> 0..WriteTimeout]
  /\ pong \in [Attachments -> {"idle", "refused", "telling", "failed"}]
  /\ drained \in [Attachments -> Reasons \cup {"none"}]
  /\ told \in [Attachments -> Verdicts \cup {"none", "abnormal"}]

Init ==
  /\ lease = [owner |-> None, left |-> 0]
  /\ fenced = [o \in Attachments |-> FALSE]
  /\ displaced = [o \in Attachments |-> <<>>]
  /\ gate = [o \in Attachments |-> FALSE]
  /\ pc = [o \in Attachments |-> "new"]
  /\ victim = [o \in Attachments |-> None]
  /\ timeLeft = [o \in Attachments |-> 0]
  /\ pong = [o \in Attachments |-> "idle"]
  /\ drained = [o \in Attachments |-> "none"]
  /\ told = [o \in Attachments |-> "none"]

-----------------------------------------------------------------------------
(* leaseStore *)

entryFor(o) == [owner |-> o, left |-> TTL]

held == lease.owner # None /\ lease.left > 0

\* An attachment acquires at most once, so its generation and its holder
\* token say no more than its identity does.
exact(o) == lease.owner = o

renewable(o) == exact(o) /\ ~fenced[o] /\ lease.left > 0

\* Mutant: the cleanup frees whoever holds the lease.
releaseOwner_byAuthority(o) == lease' = [owner |-> None, left |-> 0]

releaseOwner(o) ==
  lease' = IF exact(o) THEN [owner |-> None, left |-> 0] ELSE lease

reasonFor(o) == IF o \in Takeover THEN "takeover_superseded" ELSE "control_displaced"

\* A close message: the browser acts on the first it receives.
tell(o, verdict) == told' = [told EXCEPT ![o] = IF @ = "none" THEN verdict ELSE @]

step(o, from, to) == pc[o] = from /\ pc' = [pc EXCEPT ![o] = to]

-----------------------------------------------------------------------------
(* Attaching *)

AcquireOwner(o) ==
  /\ o \notin Takeover
  /\ \/ /\ ~held
        /\ step(o, "new", "attaching")
        /\ lease' = entryFor(o)
        /\ UNCHANGED told
     \/ /\ held
        /\ step(o, "new", "gone")
        /\ tell(o, "lease_held")
        /\ UNCHANGED lease
  /\ UNCHANGED <<fenced, displaced, gate, victim, timeLeft, pongVars>>

PrepareTakeover(o) ==
  /\ o \in Takeover
  /\ step(o, "new", "attaching")
  /\ UNCHANGED <<leaseVars, gate, victim, timeLeft, pongVars, told>>

BrokerAttaches(o) ==
  /\ step(o, "attaching", IF o \in Takeover THEN "transfer" ELSE "relay")
  /\ UNCHANGED <<leaseVars, gate, victim, timeLeft, pongVars, told>>

\* The deferred release runs only when the lease was installed.
BrokerRefuses(o) ==
  /\ step(o, "attaching", IF o \in Takeover THEN "gone" ELSE "unwinding")
  /\ tell(o, "failed")
  /\ UNCHANGED <<leaseVars, gate, victim, timeLeft, pongVars>>

\* transfer, first section: nobody to fence, or an incumbent to fence.
TransferLooks(o) ==
  /\ \/ /\ ~held
        /\ step(o, "transfer", "relay")
        /\ lease' = entryFor(o)
        /\ UNCHANGED victim
     \/ /\ held
        /\ step(o, "transfer", "gating")
        /\ victim' = [victim EXCEPT ![o] = lease.owner]
        /\ UNCHANGED lease
  /\ UNCHANGED <<fenced, displaced, gate, timeLeft, pongVars, told>>

\* Mutant: the incumbent is fenced without its gate.
TransferFences_ungated(o) ==
  /\ victim[o] # None
  /\ \/ /\ exact(victim[o])
        /\ step(o, "gating", "relay")
        /\ lease' = entryFor(o)
        /\ fenced' = [fenced EXCEPT ![victim[o]] = TRUE]
        /\ displaced' = [displaced EXCEPT ![victim[o]] = Append(@, reasonFor(victim[o]))]
     \/ /\ ~exact(victim[o])
        /\ step(o, "gating", "transfer")
        /\ UNCHANGED leaseVars
  /\ victim' = [victim EXCEPT ![o] = None]
  /\ UNCHANGED <<gate, timeLeft, pongVars, told>>

\* transfer, under the incumbent's gate: fence it, or look again when the
\* lease has moved meanwhile.
TransferFences(o) ==
  /\ victim[o] # None /\ ~gate[victim[o]]
  /\ \/ /\ exact(victim[o])
        /\ step(o, "gating", "relay")
        /\ lease' = entryFor(o)
        /\ fenced' = [fenced EXCEPT ![victim[o]] = TRUE]
        /\ displaced' = [displaced EXCEPT ![victim[o]] = Append(@, reasonFor(victim[o]))]
     \/ /\ ~exact(victim[o])
        /\ step(o, "gating", "transfer")
        /\ UNCHANGED leaseVars
  /\ victim' = [victim EXCEPT ![o] = None]
  /\ UNCHANGED <<gate, timeLeft, pongVars, told>>

-----------------------------------------------------------------------------
(* The relay loop *)

\* The displacement is polled at the top of the loop and in its select.
takesDisplacement(o, verdict) ==
  IF displaced[o] # <<>>
  THEN /\ displaced' = [displaced EXCEPT ![o] = Tail(@)]
       /\ tell(o, Head(displaced[o]))
  ELSE UNCHANGED displaced /\ verdict

PollDisplaced(o) ==
  /\ displaced[o] # <<>>
  /\ step(o, "relay", "closing")
  /\ takesDisplacement(o, UNCHANGED told)
  /\ UNCHANGED <<lease, fenced, gate, victim, timeLeft, pongVars>>

\* Mutant: a write may last as long as the lease.
InputArrives_longWrite(o) ==
  /\ ~gate[o]
  /\ \/ /\ renewable(o)
        /\ step(o, "relay", "writing")
        /\ lease' = entryFor(o)
        /\ gate' = [gate EXCEPT ![o] = TRUE]
        /\ timeLeft' = [timeLeft EXCEPT ![o] = TTL]
     \/ /\ ~renewable(o)
        /\ step(o, "relay", "refused")
        /\ UNCHANGED <<lease, gate, timeLeft>>
  /\ UNCHANGED <<fenced, displaced, victim, pongVars, told>>

\* useOwnerInput up to its action.
InputArrives(o) ==
  /\ ~gate[o]
  /\ \/ /\ renewable(o)
        /\ step(o, "relay", "writing")
        /\ lease' = entryFor(o)
        /\ gate' = [gate EXCEPT ![o] = TRUE]
        /\ timeLeft' = [timeLeft EXCEPT ![o] = WriteTimeout]
     \/ /\ ~renewable(o)
        /\ step(o, "relay", "refused")
        /\ UNCHANGED <<lease, gate, timeLeft>>
  /\ UNCHANGED <<fenced, displaced, victim, pongVars, told>>


\* Mutant: a failed write leaves the gate locked.
WriteEnds_leaksGate(o) ==
  /\ \/ step(o, "writing", "relay") /\ UNCHANGED told /\ gate' = [gate EXCEPT ![o] = FALSE]
     \/ step(o, "writing", "closing") /\ tell(o, "failed") /\ UNCHANGED gate
  /\ UNCHANGED <<leaseVars, victim, timeLeft, pongVars>>

WriteEnds(o) ==
  /\ \/ step(o, "writing", "relay") /\ UNCHANGED told
     \/ step(o, "writing", "closing") /\ tell(o, "failed")
  /\ gate' = [gate EXCEPT ![o] = FALSE]
  /\ timeLeft' = [timeLeft EXCEPT ![o] = 0]
  /\ UNCHANGED <<leaseVars, victim, pongVars>>

InputRefused(o) ==
  /\ step(o, "refused", "closing")
  /\ takesDisplacement(o, tell(o, "lease_lost"))
  /\ UNCHANGED <<lease, fenced, gate, victim, timeLeft, pongVars>>

\* A broker frame for a fenced owner ends the loop, with the displacement if
\* it is still in the channel and with nothing if it is not.
BrokerFrame(o) ==
  /\ fenced[o] /\ ~gate[o]
  /\ step(o, "relay", "fencedFrame")
  /\ UNCHANGED <<leaseVars, gate, victim, timeLeft, pongVars, told>>

FencedFrameEnds(o) ==
  /\ step(o, "fencedFrame", "closing")
  /\ takesDisplacement(o, UNCHANGED told)
  /\ UNCHANGED <<lease, fenced, gate, victim, timeLeft, pongVars>>

\* Every other verdict of the loop, or the browser's own close.
OtherEnd(o) ==
  /\ step(o, "relay", "closing")
  /\ tell(o, "failed")
  /\ UNCHANGED <<leaseVars, gate, victim, timeLeft, pongVars>>

\* The read pump ends with the pong handler's error.
ReadFails(o) ==
  /\ pong[o] = "failed"
  /\ step(o, "relay", "closing")
  /\ UNCHANGED <<leaseVars, gate, victim, timeLeft, pongVars, told>>

Release(o) ==
  /\ step(o, "closing", "released") \/ step(o, "unwinding", "gone")
  /\ releaseOwner(o)
  /\ UNCHANGED <<fenced, displaced, gate, victim, timeLeft, pongVars, told>>

SocketCloses(o) ==
  /\ step(o, "released", "gone")
  /\ tell(o, "abnormal")
  /\ UNCHANGED <<leaseVars, gate, victim, timeLeft, pongVars>>

-----------------------------------------------------------------------------
(* The pong handler *)

\* The read pump starts with the loop and ends when the socket does.
reading(o) ==
  pc[o] \in {"relay", "writing", "refused", "fencedFrame", "closing", "released"}

PongArrives(o) ==
  /\ o \in Ponging /\ reading(o) /\ pong[o] = "idle" /\ ~gate[o]
  /\ \/ renewable(o) /\ lease' = entryFor(o) /\ UNCHANGED pong
     \/ ~renewable(o) /\ pong' = [pong EXCEPT ![o] = "refused"] /\ UNCHANGED lease
  /\ UNCHANGED <<fenced, displaced, gate, pc, victim, timeLeft, drained, told>>

PongRefused(o) ==
  /\ pong[o] = "refused"
  /\ pong' = [pong EXCEPT ![o] = "telling"]
  /\ \/ /\ displaced[o] # <<>>
        /\ drained' = [drained EXCEPT ![o] = Head(displaced[o])]
        /\ displaced' = [displaced EXCEPT ![o] = Tail(@)]
     \/ /\ displaced[o] = <<>>
        /\ UNCHANGED <<drained, displaced>>
  /\ UNCHANGED <<lease, fenced, gate, pc, victim, timeLeft, told>>

\* writeWS answers when the write is done; once the writer has stopped it
\* writes nothing.
PongTells(o) ==
  /\ pong[o] = "telling"
  /\ pong' = [pong EXCEPT ![o] = "failed"]
  /\ IF pc[o] = "gone" THEN UNCHANGED told
     ELSE tell(o, IF drained[o] = "none" THEN "lease_lost" ELSE drained[o])
  /\ UNCHANGED <<leaseVars, gate, pc, victim, timeLeft, drained>>

-----------------------------------------------------------------------------

\* Time passes; a broker write is over by its deadline.
Tick ==
  /\ \A o \in Attachments : pc[o] = "writing" => timeLeft[o] > 0
  /\ lease' = [lease EXCEPT !.left = IF @ > 0 THEN @ - 1 ELSE 0]
  /\ timeLeft' = [o \in Attachments |-> IF timeLeft[o] > 0 THEN timeLeft[o] - 1 ELSE 0]
  /\ UNCHANGED <<fenced, displaced, gate, pc, victim, pongVars, told>>

attach(o) == AcquireOwner(o) \/ PrepareTakeover(o) \/ BrokerAttaches(o) \/ BrokerRefuses(o)

\* What the handler does without waiting for anyone outside.
proceed(o) ==
  \/ TransferLooks(o) \/ TransferFences(o)
  \/ PollDisplaced(o) \/ WriteEnds(o) \/ InputRefused(o) \/ FencedFrameEnds(o)
  \/ ReadFails(o) \/ Release(o) \/ SocketCloses(o)

answerPong(o) == PongRefused(o) \/ PongTells(o)

receive(o) == InputArrives(o) \/ BrokerFrame(o) \/ OtherEnd(o) \/ PongArrives(o)

Next == Tick \/ \E o \in Attachments : attach(o) \/ proceed(o) \/ answerPong(o) \/ receive(o)

Spec == Init /\ [][Next]_vars

\* The broker's answer is bounded by BrokerSetupTimeout.  Each thread runs on,
\* and a sync.Mutex does not starve a waiter, so a takeover obtains an input
\* gate that is free again and again.  The browser and the broker owe nothing.
Fairness ==
  \A o \in Attachments :
    /\ WF_vars(BrokerAttaches(o) \/ BrokerRefuses(o))
    /\ WF_vars(proceed(o)) /\ WF_vars(answerPong(o)) /\ SF_vars(TransferFences(o))

FairSpec == Spec /\ Fairness

-----------------------------------------------------------------------------
(* Properties *)

\* As long as a page's input is being written, the lease is that page's, has
\* not run out, and nobody has fenced the page (useOwnerInput).
WriterHoldsLease ==
  \A o \in Attachments : pc[o] = "writing" =>
    exact(o) /\ lease.left > 0 /\ ~fenced[o] /\ gate[o]

\* Two pages never type into the broker at the same time.  An owner whose
\* lease has run out is replaced without waiting for its input gate, so this
\* rests on the broker write's deadline being shorter than the lease.
SingleWriter ==
  /\ WriterHoldsLease
  /\ \A o, p \in Attachments : pc[o] = "writing" /\ pc[p] = "writing" => o = p

\* transfer sends the displacement under leaseStore.mu into a channel with
\* one slot: a second send would block every lease of the front door.
DisplacementFits == \A o \in Attachments : Len(displaced[o]) <= 1

\* A lease names an attachment whose handler will still release it.
LeaseIsOwned ==
  lease.owner # None => pc[lease.owner] \notin {"new", "released", "gone"}

\* A lease leaves its owner only when it has run out, when a takeover has
\* fenced the owner, or when the owner releases it: the cleanup of a
\* displaced attachment never frees its successor's lease.
LeaseLeavesByRule ==
  [][ lease.owner # None /\ lease'.owner # lease.owner =>
        \/ lease.left = 0
        \/ fenced'[lease.owner]
        \/ pc[lease.owner] \in {"closing", "unwinding"} ]_vars

\* A prepared takeover obtains the lease: transfer waits for one broker
\* write at most and its retries end.
TakeoverCommits ==
  \A o \in Attachments : pc[o] \in {"transfer", "gating"} ~> pc[o] = "relay"

\* A fenced page's handler ends although its browser and the broker are
\* silent, whichever thread takes the displacement from the channel.
FencedEnds == \A o \in Attachments : fenced[o] ~> pc[o] = "gone"

\* A takeover ends for both pages: all of the above.
TakeoverEnds == TakeoverCommits /\ FencedEnds

=============================================================================
