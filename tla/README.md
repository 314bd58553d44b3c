# Persea Terminal: TLA+ models

Persea Terminal puts tmux panes into a browser.  A page talks HTTP and
WebSocket to `frontdoor`; `frontdoor` talks over a Unix socket to one `broker`
per Unix user; the broker drives tmux in control mode, records the output of
every pane durably through `unifiedjournal`, and serves it to pages as a
snapshot followed by a live tail.  `terminal` is the epoch of one attachment:
the cuts, the input and the end of what one page has with one pane.

This directory models the parts in which an order of events that no test
produces could lose, repeat or reorder output, leak or overcommit storage or
memory, leave two writers for one pane, or leave everyone waiting.

## 1. Inventory

| Part (source) | State | Operations | Interacts with | Hard behaviour | What makes it correct |
|---|---|---|---|---|---|
| generation file (`internal/unifiedjournal/journal.go`, `verified.go`, `writer.go`, `eligibility.go`) | frames of a PUJ2 file, verified cursor, pending appends, committed view, eligibility | append, geometry, sync, commit with readback, feed, reopen, invalidate | the dispatcher writes, readers read, restart reopens | a crash between any two storage calls, short writes, damage | what a reader was fed survives every restart; only the tail can be damaged |
| capacity ledgers (`journal.go`, `retention.go`, `source_quota.go`) | logical and physical charge, holds and slots, per generation and realm | admit, adopt, rotate, retire, sweep, reserve, append, restart | every lifecycle operation of the broker | holds turned into charges, four ends of a rotation, unlinks that fail | caps hold, ledgers are sums, a reserved replay is never refused |
| retention runtime (`broker/retention_runtime.go`, `retention_queue.go`, `unified_dev_geometry.go`) | per-pane batches, reservations, pauses and boundaries, a manager and a dispatcher | observe, flush, boundary, Fit, feed, fault, retire, Close | observer, journal, publication, rotation | limits shared by panes, boundaries against faults | order of a pane's records, every byte given back, pauses end |
| generation lifecycle (`broker/unified_dev*.go`, `unified_rotation*.go`, `pane_rotation.go`, `recording_initial.go`, `recording_supervision.go`) | units, active key per session, witnesses, transactions | spawn, adopt, initial capture, rotate, refit, recover, reap, retire | tmux observer, registry, journal, readers | stages that fail on both sides of the point of no return | one active generation, a successor begins where its predecessor ended |
| read path (`broker/unified_dev_journal.go`, `recording_tail.go`, `recording_readers.go`) | subscribers, publication heads, tail queues, reader leases | open, publish, catch up, rejoin, close | journal commits, rotations, attachment writers | registration against publication, eviction of slow readers | no gap, no repetition, memory is bounded and given back |
| attachment writer (`broker/server.go`) | PREPARE/READY/COMMIT state, backlog, resize fence, verdict | WriteFrame, streamTail, catchUp, terminate, watchVerdict | the epoch, the tail, the connection | a page that reads nothing while a verdict waits | every reader ends; a reading page sees everything |
| epoch (`internal/terminal`) | phase, cut, replay and held output, transitional input, modes, history request, scheduler | Start, PTY bytes, marker, READY, input, mode, resize, history, cancel, Finalize | the frame writer, tmux transactions, the input pump | captures and markers in either order, cuts that are refused, ends at any point | output preserved, input settled once, every end completes |
| control lease (`frontdoor/control_takeover.go`, `state.go`, terminal part of `server.go`) | lease entries, owners with an input gate and a displacement channel | acquire, renew, transfer, release, gated input, fenced ends | relay loop and pong handler of each page | a takeover while the incumbent writes, renews or expires | one writer, a takeover succeeds, a fenced page ends |
| page admission (`ui/src/unified_terminal_page.ts`) | connection generation, write queue, resume point | PREPARE, COMMIT, LIVE, RESIZE, reconnect | attachment writer, xterm | the point moves only as xterm parses | what is resumed is what is shown |
| input freshness and results (`broker/input_freshness.go`, `input_results.go`) | receipts, frontier clocks, settlements | delivered, admit, settle | read path, page | acknowledgements of a past generation | input only from a page that has seen recent output |
| flow control (`frontdoor/flow_window.go`, `flow_stall.go`) | bytes in flight, stall clock | send, ack, expire | relay loop, page | ack against timeout | the window is never exceeded; a stall is cut off |
| capabilities, claims, bindings (`frontdoor/control_takeover.go`, `state.go`, `security.go`) | handles, claims, pins | mint, consume, bind, evict | HTTP and WebSocket handlers | one-time use, eviction of something pinned | consumed once, never evicted while pinned |
| durable stores (`frontdoor/*_store.go`, `durable_store.go`) | a JSON document and its revision | load, compare and write, evict | HTTP handlers | a crash in the middle of a replacement | one of two complete states |
| browser transport (`ui/src/websocket_attachment_transport.ts`, `transport_liveness.ts`, `unified_pane_controller.ts`) | socket, retry schedule, liveness probes | connect, retry, close policy | frontdoor, page | late events of an old socket | one live socket, fatal refusals do not retry |
| observer and decoder, tmux commands, cleanup, configuration, HTTP surface, presentation, deployment | | | | parsing, I/O, layout | not modelled, see section 7 |

How they meet: the observer of a session feeds the retention runtime, which
appends records through `unifiedjournal` and *feeds* each committed record to
`publishEvent`; that offers it to the subscribers of the generation.  An
attachment opens a subscriber with `openStream` when its epoch writes the first
PREPARE; from COMMIT on its writer follows the tail.  The front door relays the
frames, and lets through input only for the holder of the control lease.
Rotation replaces the generation under all of them.

`PROJECT.json` lists every component with its status, and every hazard found
at the line where it bites.

## 2. Modules

| Module | Models | Run by | Proofs |
|---|---|---|---|
| `JournalFile` | one generation file and its recovery | `MC_JournalFile` | `JournalFileProofs` |
| `JournalLedger` | the ledgers of a realm | `MC_JournalLedger` | `JournalLedgerProofs` |
| `Retention` | the retention runtime, the pane registry's admissions and ends, explicit Fit, seals, Close | `MC_Retention` | - |
| `Generations` | the generations of one session: birth, adoption, rotation, refit, recovery, reaps and retirement | `MC_Generations` | - |
| `RecordedView` | what a page is promised of a recording (abstract) | by refinement | - |
| `RecordingStream` | commits, publication, subscribers, reader leases, attachment writers, connections and the page; implements `RecordedView` | `MC_RecordingStream` | `RecordingStreamProofs`, `RecordedViewProofs` |
| `Epoch` | one epoch with its scheduler, pump and callers | `MC_Epoch` | `EpochProofs` |
| `InputGate` | flow window, receipts, freshness gate and input results of one Control attachment | `MC_InputGate` | `InputGateProofs` |
| `ControlLease` | the lease of one authority and the pages that want it | `MC_ControlLease` | `ControlLeaseProofs` |
| `Folding` | no part of the system: what a fold over a sequence and a sum over a finite set come to, for any operator | - | itself |

How the modules meet:

- `RecordingStream` is the composition of the read path.  It joins the broker's
  provider, the writers of several attachments, the reader budget and the
  browser page, with the journal reduced to what `JournalFile` establishes about
  it: a committed sequence that only grows.
- `Generations` composes the four owners of a generation (provider maps, pane
  registry, retention runtime, journal realm).  Of `Retention` it takes that
  accepted output is stored in order, of `JournalLedger` that a reservation made
  is one that can be used.
- `InputGate` ends where `Epoch` begins: what the gate gives is the epoch's
  input.  Its receipts are the acknowledgements of the page of `RecordingStream`.

Every operator whose name ends in `_<something>` and whose comment begins with
"Mutant" is a plausible bug of the definition of that name; the runs find the
named property violated with it.  In the larger modules a handler takes the
record of all variables to its next value: `Here` is the record before it,
`Becomes(w)` the step.

### JournalFile

`disk` is the file as a sequence of frames, `pane` the `paneJournal` object,
`pc` where `Sequencer.WriteRecord` stands between two storage calls.  Append,
sync, commit, commit sync and readback are separate steps, so a crash falls
between any two; `Crash` keeps any prefix of what was not synced with a torn
last frame, `Damage` makes one frame invalid.  Encoding, hashes and page layout
are reduced to whether a frame is the one that was written.

### JournalLedger

The public methods of a `Realm` run under the caller's lock (`journalMu` of the
broker, the ticket lock of the writer), so each is one action; the private
`*Locked` helpers are operators from realm to realm.  Production writes only
through a bound `Writer`, so the branch of `Realm.Append` that creates an absent
generation is not modelled.  What the broker promises as a caller (no append to
a generation being replaced, one rotation per session) is in guards with names
of their own: `provisional`, `rotating`, `fresh`.

### Retention

A reservation has a number, and a byte of output is known by the number of the
reservation that paid for it, so a stream of output is a sequence of numbers and
a gap or a repetition shows.  `res` are the reservations, `use` the counters
they add up to, `queue` the command queue, `panes` the batches, `mgr` and `disp`
what the manager and the dispatcher hold between two steps.

- A section under `runtime.mu` is one action, and so is what the manager does
  for one command and the dispatcher for one envelope.
- Ingress and outbox bytes are charged and refunded together: one ledger.
- The callers are the observer loop of each pane, an admission, one explicit Fit,
  one seal, the end of a pane, a refused feed, a control command and Close.
  `scene` says which of them take part.
- A journal takes `room` more records before storage fails.
- Left out: the interval of `faultPending`, `processInitial`, the quota of a
  source, the credit for the number of envelopes, a manager that waits for a full
  outbox, the time `retireDurable` blocks its caller, `decode_fault`, and the
  replacement of one incarnation of a pane by another (which is in
  `Generations`).

### Generations

`src` is the session in tmux, `unit` an observer unit, `hold` the birth or
adoption that routes the pane's output, `gen` a generation as journal, runtime
and registry know it, `eff` the provider's maps, `rot` the rotation in progress
and its driver, `job` and `retry` the lifecycle worker, `ask` the callers.

- The goroutines are the control client's unit, the driver of a rotation, the
  lifecycle worker, the retention manager, the supervisor, and the caller of a
  birth, an adoption or a refit.  Each section under their locks is one action,
  and so is each return from a wait.
- A generation keeps the number of the last output it accepted and whether one
  was missing, repeated or out of order (`torn`).
- A fault is taken from the budget of the scene where the code has an error
  path: a lost control client, a stall, a session that ends, respawns or changes
  shape, storage that fails, a caller that leaves.
- When the scheduler asks for a rotation is left open.
- The waits inside the two fatal settlements (`finishFatal`,
  `failRefitPredecessor`) are collapsed into their one step.

### RecordedView

Two variables: what each generation has committed, and what the page shows.  A
page that shows nothing may begin with any beginning of one generation, a page
that shows something may show more of the same generation, and any page may lose
what it shows.  `RecordingStream` maps its page to this view (`shownView`), and
`PageFollowsRecording` is the specification of `RecordedView` under that mapping.

### Epoch

`e` is the Epoch struct; every section under `e.mu` is one action, made of
operators that take the struct to its next value.  The other variables are
where each goroutine stands: PTY reader, frame loop, the journal writer's READY,
owner loop, cut runner, history goroutines, teardown, Finalize.  One number
stands for the bytes of one PTY read.

- The generation lease changes only when the terminal result is published, so
  it is stale exactly when `e.terminal` is set.
- A prepared frame is never seen between "ready" and written, so that state has
  no value; READY and the pump's enqueue are one step.
- The egress queue's capacity is a choice (`room`): everything fits, only END
  fits, nothing fits.
- RECONNECT takes the path of INITIAL.  ReleaseAttachment is the last step of
  teardown.
- `attached` is what tmux holds under IDs that BIND learned.  A BIND that fails
  may have learned none, because its client was killed before it printed one and
  the one lookup found nothing (`BindUnresolved`, `broker/attachment.go:396-418`);
  the epoch then ends with the invariant cause (`terminal/epoch.go:381-387`), and
  tmux may run the command of the client that is gone at any time after
  (`StrayAppears`).  `stray` is that shadow.  Only the orphan sweep of the broker
  (`broker/orphan_cleanup.go`), which is not modelled, removes it.
- After admission a journal-backed writer answers PREPARE with READY on a
  goroutine of its own (`server.go:291-313`), the variable `acker`.
- The frame loop handles one frame at a time, so HandleFrame, Resize and
  RequestHistory of one page do not overlap.

### InputGate

One Control attachment of one generation.  `prov` is the publication head with
its frontier clock, `writer` the frames and delivery marks, `fresh` the gate,
`desk` the broker's attachment loop with its ledger of results and its reporter,
`net` the four FIFO directions between broker, relay and page, `front` the flow
window and stall clock, `page` the acknowledgements and the results it was told.
Time is counted in ticks.

- A judgement is two steps: what the window requires is read from the clock
  first and compared with what the page has consumed afterwards, and
  publications, deliveries or the retirement may fall between them.
- Retirement drops the clock; a feed that was still in the dispatcher makes it
  again (`prov.revived`).
- `BrokerJudges` reads the time once; the code reads it once for the clock and
  once for the pause.
- Not modelled: observe mode, the deadline of a write to the broker, the
  liveness probes of the relay, the list of composers that wait in the page, and
  the admission of everything before the writer starts, when no page has control
  yet.

### ControlLease

Leases of different authorities share nothing but the lock, so one is modelled.
Generation and holder of a lease are folded into the identity of its owner,
because an attachment acquires once.  Each section under `leaseStore.mu` is one
action; the input gate is held across the write to the broker.  Where the code
takes the gate and then the lock, both are one step: acquiring the gate commutes
to the right.  Time is the time left of the lease and of a write.

### RecordingStream

- A generation is the number of its stream.  Records are sequences of *atoms*,
  a unit of output or a geometry, so a resume point can lie inside a record.
- A section under `journalMu` or `subscriberMu` is one action.  `openStream`
  holds `journalMu` from its read to its registration: `journal.lock`.
- `writer.mu` is `muFree`: it is held by openStream, PREPARE, COMMIT and the
  backlog, and while a write that has passed its checks waits for the
  connection (`WriteParks`).  With room, check and write are one step.
- Socket buffers and the front door are one queue of `WireFrames` frames; the
  page's write queue has the same bound.  Network loss, the front door's own
  ends and the page's cut timer are `PageDisconnects`.
- A rotation begins, seals and swaps.  It can be aborted before the seal only;
  a failure after it is the generation's failure, as in `settleFatal`.
- A generation being recovered keeps its active key but is not ready; for a
  reader that is the same as no active generation, `GenerationEnds`.
- The projection of an ended generation may have been released by retirement at
  any time (`mayBeRetired`).  Feeds still undispatched for a generation without
  subscribers reach nobody (`dispatched`).
- A writer that has stopped has a closed connection and reads none of its state
  again, so its record is one value (`Stopped`).
- `Attempts` is `registrationAttempts`, 2 in place of 128.  Transport (ingress)
  reservations of a lease are not modelled; the wakeups of the tail's channel
  are in the enabledness of `TailTakes` and `TailCatchesUp`.

## 3. Runs

| Run | Shows | Distinct states |
|---|---|---|
| `journal_file` | Under crashes, short writes, failing syncs, one damaged frame and two reopenings: the committed view is a prefix of what was appended, fed records survive, charges cover the file, the published view only grows. | 38,612 |
| `journal_ledger` | Three generations of a session through admission, adoption, rotation, retirement and one restart: caps, sums, slots, held replays. | 731,276 |
| `retention` | Eight combinations of callers on two panes: every ledger balances, what is stored and what is fed are beginnings of what was accepted, a seal that succeeded has everything before it, no pause and no batch is left behind. | 920,411 |
| `generations` | A birth, an adoption, a rotation and a refit with two faults each, and a rotation beside a refit with one: what is served was recorded once and in order, the maps name the living but for one unit (section 6), claims are settled, a failed rotation ends in one way, what has ended stays ended. | 1,791,941 |
| `generations_lost_recovery` | (violation) a recovery whose new client ends before it runs the rotation leaves its claim behind. | - |
| `generations_overflow` | (violation) output that did not fit the pending buffer is recorded after a later one that did. | - |
| `recording_stream` | Two connections of a page over two generations: the page follows `RecordedView`, and the reader budget balances. | 1,362,103 |
| `recording_stream_fair` | One connection with a resize: a removed reader gives everything back, a reading page catches up. | 39,339 |
| `epoch` | Seven scenarios (output, input, input with a pump or an egress writer that fails, the journal writer with a resize and depths, binding, history depths), with fairness: output, the scheduler, input, ownership; Start resolves, teardown completes, a pending history request is served. | 433,334 |
| `input_gate` | Five scenes of publications, receipts, inputs, a retirement and time: the clock is exact to one step, input is judged on what its page had acknowledged and admitted by a clock of its subscription only when fresh, every input is answered truly, the flow window balances. | 2,230,107 |
| `input_gate_forgotten` | (violation) a clock made again after its generation retired admits the input of a page that has seen nothing for a window. | - |
| `control_lease` | An ordinary page and two takeovers: one writer, why a lease leaves its owner, takeovers succeed, fenced pages end. | 90,473 |

Bounds, and why they are enough:

- `JournalFile`: three records with at most two pending, one damaged frame, two
  reopenings.  A commit covers several appends, an append follows a commit, and
  a file already repaired is repaired again.  Payload lengths 0 and 2 give the
  empty frame and one that can be torn inside.
- `JournalLedger`: caps of a few units and two slots, so that every cap and both
  slots are reached; three keys give a predecessor, a successor and a stranger.
- `Retention`: two panes share every limit; outputs of 1 and 3 bytes against
  batches of 2 and a total of 4, so that an output is cut across batches, two
  outputs exceed the total, and nine commands are too few for everything two
  panes may ask at once.  Storage fails after one record or goes on.  Seven reservations
  and two outputs bound a behaviour.  Each scene lets two or three callers
  meet; a scene with all of them is out of TLC's reach.
- `Generations`: two outputs of one unit against a pending buffer of one, so
  that a rotation's buffer overflows; three units and three generations, so that
  what was rotated can be recovered or replaced again;
  two faults, so that a rollback itself fails.
- `RecordingStream`: three records (output, a geometry, output that takes two
  frames), a tail of three and a budget that refuses the second reader at times,
  a connection that holds one frame, two generations, four commits, generations
  and connections in all (`MaxHappenings`).  Resumed admissions, replays that
  begin inside a record, refused opens, retries, lagged readers, catch-up with a
  queue that is not empty and admission into the second generation are all
  reached; each was confirmed by asking TLC for a state that shows it.  The
  resize fence is in the fair run only.
- `Epoch`: the scenarios bound what the page and the pane do (two cuts, two
  history requests, one resize, two or three inputs); caps of 2 are reached.  A
  third cut or request meets the state the second has left.  Two depths meet a
  resize that is refused in `JournalReady`, and the pump meets held input, modes
  and its own failure in `InputFlows` and `InputFails`, all under fairness.
- `InputGate`: three records of 1, 2 and 1 bytes against a flow window of 2; a
  freshness window and a clock step of 2 ticks with three marks, so that the clock
  merges and prunes, and one mark of delivery, which is overwritten; a stall timeout of 3
  against a receipt interval of 1; three inputs against a backlog of 2.  The
  horizon is at most 4 ticks, after which a clock has dropped its first mark.
- `ControlLease`: three pages, so a takeover is itself taken over while it
  waits; a lease of 2 ticks and a write deadline of 1 are the least that differ.

`Retention`, `Generations` and `InputGate` are checked for deadlock: they name
the states in which everything is at rest, and only there may they stop.  The
other configurations say `CHECK_DEADLOCK FALSE`, because each of these systems
may stop: a file is closed, an epoch is torn down, a page disconnects, and the
bounds run out.

### Fairness

- `JournalFile`: the writer goes on once it has begun a record; storage calls
  return.  Crashes, damage and reopenings are free not to happen.
- `Epoch`: calls the epoch itself makes return, because tmux transactions run
  under a context that termination cancels, goroutines that are runnable run,
  and the cut timer fires.  The browser and the PTY owe nothing, and neither does
  tmux to a client that is gone.
- `ControlLease`: a broker attach is answered within its setup timeout, threads
  go on, time passes.  Strong fairness of `TransferFences` is that of
  `sync.Mutex`, which is starvation-free (its starvation mode hands the lock to
  the waiter).
- `RecordingStream`: the dispatcher and the broker's goroutines go on, and the
  grace timer fires.  The page, the network, commits and rotations owe nothing;
  where a property needs a page that reads, that is a premise of the property.

## 4. What is proved

TLAPS checks these for every value of the constants that the named assumption
of the module admits.  Each component has one inductive invariant, one lemma
for each action that keeps it, and its theorems follow from it.

### Folding

The folds of the models (`FoldLeft`, `MapThenSumSet`) are defined by a choice
among recursive functions.  `Folding` proves once, for any operator and any
elements, that such a function exists and what the fold of an empty, an
extended and a concatenated sequence is; that a sum over a finite set moves by
what its one changed term moves, is monotone, splits and restricts.  Induction
is over the *set* of numbers, sequences or subsets that have a property
(`Induct`, `SequenceInduct`, `SizeInduct`), from the fact that `<` is
well-founded on the naturals.  The theorem modules instantiate it once for each
fold.

### JournalFileProofs

- `FileTypes`, `ViewIsPrefix`, `ChargesCover`: the type invariant, that what
  readers may use is a prefix of what was appended with the frontier at its
  end, and that the charges cover the file.
- `FedNeverLost`: a record that was fed is in every projection a later
  incarnation serves.
- `ViewOnlyGrows`: within one incarnation the published view only grows.

They hold for any payloads and geometries, any number of records, restarts and
damaged frames.  `FileInv` says that the appended records are chained, that
every whole frame of the file is one of them (`Written`), that an unsynced frame
has bytes to lose (`Bytes`), that while the generation is continuous the
sequencer and the verified cursor agree with the file (`Live`), and what the
view and the charges are (`View`, `Charges`).  The step that carries it is about
the scan: a cursor that tracks what was appended still tracks it after any
frames whatever, so a reopening can trust what it accepts.  `FedNeverLost` needs
`Durable` besides: the synced part of the file holds the commit of what was fed
with nothing before it that could end a scan early.  A damaged length field can,
so `FedNeverLost` assumes that no such damage happens (`"overlong"` is not in
`DamageKinds`); with it the statement is false, see section 6.

### JournalLedgerProofs

- `LedgerTypes`, `LedgerWithinCaps`: charges plus holds never exceed either
  cap, of a generation or of the realm.
- `LedgersStayBalanced`, `SlotsStayBalanced`: the realm's counters are the sums
  over its generations and capacities, and its slots are the generations and
  capacities that have one.
- `ReplayNeverRefused`: a held replay is never refused for room.

They hold for all keys, sizes, caps and slots and for any number of restarts.
Methods are compositions of helpers, and so is the proof: one lemma for each
helper and one for each method.  The invariant `LInv` adds to the caps what each
generation's holds are for (`PanesOK`), that keys in use were minted
(`MintedOK`), who owns a rotation's capacity and that no two rotations share one
(`TurnsOK`), that the last slot goes to a rotation only (`NoRoom`), and the sums
(`BooksOK`).  `NoRoom` is what makes the admission of a rotation's successor
succeed when every slot is taken.  `LedgerAssumption` asks for at least one slot
(`retention.go:6,36` refuse less).

### InputGateProofs

- `JudgedSafe`: the action property `AdmittedByItsClock`, that input is judged on
  exactly what its page had acknowledged and, while the clock is the one its
  subscription made, admitted only from a page that had seen recent output.
- `FrontierSafe`: the frontier clock is exact to one step.
- `ResultsSafe`: the page is told what became of each input, in order and once.
- `FlowSafe`: the relay's window counts what the page has not parsed, exceeds
  its limit by less than a frame, and the stall clock runs exactly then.
- `TypeSafe`: the type invariant.

They hold for any records, windows, clock steps, marks, timeouts, backlogs,
inputs and horizon.  `GateInv` says that the clock's marks are
apart and bounded (`ClockBounded`) and answer every question up to the newest
(`ClockAnswers`), that what a judgement has read is covered by what was
published then (`Covered`, `JudgedFairly`), and where every input (`Ledger`,
`Arrives`, `Departs`) and every byte (`Flows`) in the four queues is.
`AdmittedByItsClock` is not inductive, because a judgement is two steps:
`JudgedFairly` carries what the first step read to the second.  The assumption
that matters is that the marks of the clock reach back over its window: 72 of
them, a 64th of it apart.

### RecordingStreamProofs

- `BudgetSafe`: the aggregate budget is never exceeded, and every lease is
  charged to the byte for what its queue, its writer's hand and its catch-up
  round hold.
- `StreamTypesSafe`: the type invariant, with the bounds of frames and of the
  connections.
- `ReadersHold`: the invariant they rest on, `ReadersInv`.

They hold for any recording (any number of records, of any sizes, geometries
among them), any caps and packing bounds, and any number of generations,
attachments and resizes.  `Charged` is what has to be inductive: a lease is
released by whoever comes last, the provider that evicts the subscriber or the
writer that still has an event in hand, and what each of them gives back must
be what the other one has left.  `publishEvent` ranges over a map, so an event
is offered to the subscribers in any order, with the budget read again for each
of them; `Offers` is what holds after any part of such an order, by the folds
of `Folding`.  `Counted` and `Placing` say that no reader is ahead of what its
generation committed.  The first part of the module is about data: how atoms,
records and cursors correspond, and that packing a run of atoms gives frames
that carry exactly that run (`FramesSpan`).

### RecordedViewProofs

- `PageFollows`: `RecordingStream` implements `RecordedView`
  (`PageFollowsRecording`), at the same generality.
- `ViewHolds`: the invariant it rests on, `ViewInv`.

The refinement mapping is `shownView`: a page that is neither admitted nor holds
a resume point shows nothing, any other page shows its terminal's content.  Most
steps change neither, so the proof is about the few that do: the terminal parses
a write.  That the write is the next one was settled long before, by the
position the page offered, the snapshot, the registration, the rounds of
catch-up and the queue, and `ViewInv` follows it through all of them:

- `View`: the terminal shows a beginning of one stream, the point is the end of
  it, and the writes it has queued go on from there (`Queued`).
- `Replaying`: a PREPARE that is not parsed yet goes on from what is shown
  (`Continues`), or a reset of the same connection comes right before it
  (`Resets`).  Everything in front of that is from older connections, and no
  point survives it.
- `Wired`: what is on the wire, by the phase of the admission: nothing, one
  PREPARE that answers the offer of this connection, nothing while it is parsed,
  and then COMMIT and frames that join (`OnTheWay`).
- `Linked`: what the writer still has to write goes on from the end of the wire
  up to its own position (`Left`), and the subscriber's queue from there
  (`Ordered`); which of them exist is decided by where the writer stands.
- `Apart`: only the page's present connection has anything on it.

One lemma for each action keeps it; a commit is covered for all of them at once,
because everything in `ViewInv` only bounds positions by what is committed
(`JournalView`).  `PromisedNext` then maps each step to a step of `RecordedView`
or to none.

### EpochProofs

- `SchedulerSafe`: of the branches the code calls an invariant violation only one
  is taken, that of a BIND whose shadow is unresolved; the scheduler is held by
  exactly one cut, due notification or pending Complete, or by none; and a resize
  or a depth that ends its epoch for a busy scheduler has met the hold of another
  goroutine (`BusyIsAnothers`), between that one's unlock of `e.mu` and its command.
- `AttachmentSafe`: from the moment BIND returns, what it learned the IDs of is
  owned by them, the terminal result names them, and cleanup is complete only
  when tmux let go (`ExactIsOwned`).  A shadow whose ID it did not learn is left
  only beside an epoch that ends without an attachment, and that says so unless
  its end had been asked for before (`StrayIsTold`).
- `EpochTypes`: the type invariant, with the bounds of the transitional buffer
  and of the pump.
- `EpochInvariant`: the invariant they rest on, `EpochInv`.

They hold for any scenarios and bounds and any order in which the goroutines
come to `e.mu`.  Whether a branch is impossible depends on what the other
goroutines may have done since this one unlocked, so `EpochInv` has two halves.
`Sound` is about the struct alone: which phase of Start, protocol state, cut and
scheduler state go together (`CutOK`), which of the history requests is the one
in hand (`HistoryOK`), and what an ended epoch has left (`EndOK`).  `Threads`,
`StarterOK`, `AttachedOK`, `StrayOK`, `RunnerOK` and `HoldOK` say what each
goroutine may still rely on when it comes back: the one inside `runCut` finds its own cut,
issued or not as it left it, unless the epoch has ended; the one that called
BIND answers for the attachment until the struct does; and `holders` counts what
the one flag of the scheduler stands for.

A section under `e.mu` is a composition of operators, and most of them may end
the epoch half way (egress is full, a bound is exceeded).  Three relations
between the struct before and after carry that through: `SameCore` (only queues
changed), `Moves` (output was taken, or the PREPARE that was due published) and
`Follows` (and the epoch may have ended).  One lemma for each operator says
which of them it is, and one for each action what that does to the goroutines.

### ControlLeaseProofs

- `LeaseSafety`: never two writers, a displacement fits in its channel, the
  lease names an attachment that has not released it (with `SingleWriter`).
- `LeaseTypes`: the type invariant.
- `LeaseLeaves`: the action property `LeaseLeavesByRule`.

All rest on `LeaseInv`.  `SingleWriter` is not inductive: that an expired lease
can be taken without the gate is safe only because a write begun under it has
ended by then.  `WriterBeforeExpiry` says so (the time left of a write is less
than that of the lease of its owner), from the assumption that the write
deadline is shorter than the lease (2 s and 60 s in the code).  `OwnerIsCurrent`
and `FreshIsClean` say that the owner of the lease is not fenced and that an
attachment that has not acquired has nothing to release.

## 5. What is model-checked only

- Liveness (`EveryWaitEnds`, `TakeoverEnds`, `EveryReaderSettles`), because the
  prover has no fairness.
- `OutputPreserved` and `InputSettledOnce` of `Epoch`.  Both speak of what the
  frames on the wire carry, by folds and selections over the whole sequence;
  `Shape` leaves that open.
- All of `Retention` and `Generations`.

Liveness of `Retention`, `Generations` and `InputGate` is not stated.  For the
first two, `NothingStranded`, `MapsNameTheLiving` and `ReservationsSettle` say
the part of it that is safety: whatever waits has somebody who is bound to end
the wait.  The third ends by the deadlines of its relay, which are outside it.

## 6. Findings

| Run | Where | What |
|---|---|---|
| `generations_lost_recovery` | `broker/unified_dev_lifecycle.go:370` | The claim of a recovery (`effects.rotation`, geometry owner, journal capacity) is given back only by `runRotation`; a new control client that ends before it gets there leaves the claim, and no later rotation, refit or recovery of the realm can begin. |
| `input_gate_forgotten` | `broker/unified_dev_journal.go:133` | A feed that was still in the dispatcher when its generation retired makes the clock of that generation again; until the grace of the attachment is over, input of a page that has consumed nothing for a window is admitted. |
| `generations_overflow` | `broker/unified_rotation.go:1304` | The pending buffer of a rotation refuses an output and forgets that it did; a later, smaller one fits, and the rollback records them the wrong way round. |

The lines that say otherwise are quoted in `PROJECT.json`.

Where the models follow the code, and a comment or a reader might expect
something else:

- A shadow that tmux makes after the one lookup of a killed BIND has no owner
  until the orphan sweep; the code logs `attachment_shadow_unresolved`.
- A unit whose birth was given up before its generation was active (CreateSession
  or CommitSessionBirth timed out, or its caller was refused) and whose session
  has ended stays in `effects.units`: `queueTerminalRetirement` leaves it to
  `settleOwnerGone`, which returns because `effects.active` does not name the
  generation (`unified_dev_lifecycle.go:683-687`), and `AbortSessionBirth` takes
  only the pane off (`unified_dev_birth.go:154-178`).  The comment of `reapUnit`
  says "drop the session from the unit map" (`unified_dev_lifecycle.go:399-403`).
  `MapsNameTheLiving` excepts exactly this unit (`leftByBirth`); without
  `leftByBirth` TLC finds the property violated.
- While a recovery has not yet replaced the generation of a lost client, what its
  new client reads is appended after a gap.  `RecordedInOrder` exempts that
  generation (`recovering`).
- Damage to a length field that makes a frame run past the end of the file is
  taken for a torn tail (`unifiedjournal/verified.go:142`), and fed records are
  cut off.  With `DamageKinds` containing `"overlong"`, TLC finds
  `FedRecordsSurvive` violated; the runs damage frames in the other way.
- READY retires the cut before it completes the scheduler
  (`terminal/epoch.go:732-782`); a resize or a depth that arrives in between ends
  the epoch (`resizeBusy`, `historyBusy`).  `BusyIsAnothers` says that this is the
  only way it happens.
- A history depth queued behind a resize that is refused is begun by nobody:
  `abandonResize` completes the scheduler without `beginPendingHistory`
  (`terminal/epoch.go:872`), although its comment says that "the epoch carries on
  exactly as before the request" (836-837).  It waits for a later cut or request.
  `EveryWaitEnds` excepts exactly that state (`strandedByRefusal`); without it TLC
  finds the property violated.
- The pong handler and the relay loop compete for the one displacement
  (`frontdoor/server.go:2031`, `:2229`), and a displaced page may see a lost
  connection instead of the reason.
- The retirement of a terminal generation is retried for as long as the reason
  of its failure lasts (`unified_dev_lifecycle.go:538`).

## 7. What is not modelled, and why

- Parsers and encoders (control mode, wire frames, JSON): functions of strings;
  where what they do matters it is in the values the modules carry.
- tmux, the kernel and the disk: external; their outcomes are choices.
- HTTP handlers, assets, previews, trace files, image staging, deployment: I/O
  and input checks around state that belongs to the stores.
- Presentation in the browser: layout, selection, keyboard and touch.
- The durable stores: their protocol is a write, a rename and two syncs, each
  under the lock of its store; what a crash leaves is decided by the file
  system.  The hazard at `durable_store.go:176` therefore has no property.
- Capabilities, claims and bindings: single use and pins are tests of one map
  under one lock.  The part of a takeover that takes several actors is in
  `ControlLease`.
- The retry schedule and the liveness probes of the browser: what they do to the
  rest, a connection that ends and another that begins at any time, is in
  `RecordingStream`.
- Start-up, command lines to tmux and the reaping of sessions left by an earlier
  process.

## 8. Plan

What is left is proof.  In order:

1. `InputSettledOnce` and `OutputPreserved` on top of `EpochInv`: the order of
   the inputs typed, written, queued and transitional, and what is delivered as a
   fold of the wire (`FoldAppend` of `Folding`).
2. Of `Retention` and `Generations` the limits: that the counters never exceed
   their caps, and that an ended generation takes no more output.
