------------------------- MODULE RecordedViewProofs -------------------------
(***************************************************************************)
(* RecordingStream implements RecordedView, for every number of            *)
(* generations, connections, records and frames.  What the page shows is   *)
(* decided long before it shows it: by the position it offered, the        *)
(* snapshot it was opened with, the queue its subscriber was left with,    *)
(* the frames on the wire and the writes its terminal has not parsed.      *)
(* ViewInv says that these join: what is shown, then what the terminal has *)
(* queued, then what is on the wire, then what the writer still has to     *)
(* write, is one run of the stream of one generation, without a gap and    *)
(* without a repetition, and it ends where the subscriber's queue goes on. *)
(* While a page is being admitted the same holds of the position it is     *)
(* going to show.  An older connection, and what an older connection left  *)
(* in the terminal's queue, takes no part in it.                           *)
(***************************************************************************)
EXTENDS RecordingStreamProofs

(***************************************************************************)
(* The invariant.                                                          *)
(***************************************************************************)
inForce(shown) == Max({0} \cup {shown[i][1] : i \in {j \in DOMAIN shown : shown[j][2] = 0}})

\* A PREPARE of a committed position, and what this page may be sent of them.
replayable(f, c) ==
  /\ f.stream \in Gen /\ carries(f) /\ outputs(f.atoms) /\ ending(f) <= upto(c[f.stream])

preparable(f, p, c) ==
  /\ f.kind = "PREPARE" /\ replayable(f, c)
  /\ f.resumed => begun(f) = consumed(p.offer.at)
  /\ ~f.resumed => begun(f) = 0 /\ f.geometry = 0

\* Where the writes the page has queued begin, and where they end.
queueStart(p, i) == IF i = 1 THEN Len(p.shown) ELSE ending(p.queue[i - 1].frame)
queueEnd(p) == queueStart(p, Len(p.queue) + 1)

\* The same for the frames on the way, after position k.
wireStart(w, k, i) == IF i = 1 THEN k ELSE IF w[i - 1].kind = "COMMIT" THEN k ELSE ending(w[i - 1])
wireEnd(w, k) == wireStart(w, k, Len(w) + 1)

viewing(p) == p.committed \/ p.point # NoPoint

\* What a page in view shows and has queued is the beginning of its stream.
Queued(p, c) ==
  /\ \A i \in 1..Len(p.queue) :
       /\ good(p.queue[i].frame) /\ p.queue[i].op = p.queue[i].frame.kind
       /\ begun(p.queue[i].frame) = queueStart(p, i)
       /\ ending(p.queue[i].frame) <= upto(c[p.stream])

View(p, c) ==
  /\ p.stream \in Gen /\ p.shown = run(0, Len(p.shown)) /\ Len(p.shown) <= upto(c[p.stream])
  /\ p.geometry = inForce(p.shown)
  /\ p.point # NoPoint => p.point.at = at(Len(p.shown)) /\ p.point.stream = p.stream
  /\ Queued(p, c)

\* A replay the terminal has not parsed yet goes on from what it shows, or is preceded
\* by a reset; everything before that is from an earlier connection.
Continues(p, f) ==
  Len(p.queue) = 1 /\ p.stream = f.stream /\ p.shown = run(0, begun(f)) /\ p.geometry = inForce(p.shown)

Resets(p, f) ==
  LET n == Len(p.queue)
  IN /\ n >= 2 /\ p.queue[n - 1].op = "RESET" /\ p.queue[n - 1].gen = p.generation /\ p.queue[n - 1].frame = f
     /\ begun(f) = 0 /\ f.geometry = 0
     /\ \A i \in 1..(n - 2) : p.queue[i].gen < p.generation

Replaying(p, c) ==
  LET w == p.queue[Len(p.queue)]
  IN /\ p.generation # 0 /\ p.prepared = p.generation /\ ~viewing(p) /\ p.queue # <<>>
     /\ w.op = "REPLAY" /\ w.gen = p.generation /\ replayable(w.frame, c)
     /\ Continues(p, w.frame) \/ Resets(p, w.frame)

Replayed(p) == \A i \in 1..Len(p.queue) : p.queue[i].op = "REPLAY" => p.queue[i].gen # p.prepared

\* The frames on the way to an admitted page.
OnTheWay(p, w, c) ==
  /\ \A i \in 1..Len(w) :
       \/ w[i].kind = "END" /\ i = Len(w)
       \/ w[i].kind = "COMMIT" /\ i = 1 /\ ~p.committed
       \/ /\ good(w[i]) /\ (i = 1 => p.committed)
          /\ begun(w[i]) = wireStart(w, queueEnd(p), i) /\ ending(w[i]) <= upto(c[p.stream])

Unprepared(p, w) == p.prepared = 0 /\ ~p.committed /\ w = <<>>
Preparing(p, w, c) == p.prepared = 0 /\ ~p.committed /\ Len(w) = 1 /\ preparable(w[1], p, c)
Prepared(p, w, c) == Replaying(p, c) /\ w = <<>>
Admitted(p, w, c) ==
  p.prepared = p.generation /\ viewing(p) /\ OnTheWay(p, w, c) /\ (p.committed \/ p.queue = <<>>)

Wired(p, w, c) == Unprepared(p, w) \/ Preparing(p, w, c) \/ Prepared(p, w, c) \/ Admitted(p, w, c)

\* A writer whose connection takes frames, and the frames that it still has.
goal(x) == IF x.pc \in {"event", "round"} THEN x.to ELSE x.delivered.seq
Left(q, k, x) == k \in Nat /\ k <= upto(goal(x)) /\ spans(q, k, upto(goal(x)))

Ordered(x, s) ==
  /\ \A i \in 1..Len(s.queue) : s.queue[i] = goal(x) + i
  /\ s.registered /\ (s.queue # <<>> \/ ~s.catchingUp) => s.cursor = goal(x) + Len(s.queue)
  /\ x.pc \in {"again", "round"} /\ s.registered => s.queue = <<>> /\ s.catchingUp

Openings == {"attaching", "opening", "reading", "holding", "refused"}
Following == {"backlog", "live", "event", "again", "round"}
endless(w) == \A i \in 1..Len(w) : w[i].kind # "END"

Opens(x, p, w) ==
  /\ Unprepared(p, w) /\ ~x.ready /\ x.resume = p.offer
  /\ x.pc = "holding" => x.from = resumeFrom(x.resume, x.key, x.to)

Prepares(x, s, p, w, c) ==
  /\ Unprepared(p, w) /\ ~x.ready
  /\ x.out # <<>> /\ preparable(x.out[1], p, c) /\ x.out[1].stream = s.key
  /\ Left(Tail(x.out), ending(x.out[1]), x) /\ Ordered(x, s)

Waits(x, s, p, w, c) ==
  /\ ~x.ready /\ Ordered(x, s)
  /\ \/ Preparing(p, w, c) /\ w[1].stream = s.key /\ Left(x.out, ending(w[1]), x)
     \/ /\ Prepared(p, w, c) /\ p.queue[Len(p.queue)].frame.stream = s.key
        /\ Left(x.out, ending(p.queue[Len(p.queue)].frame), x)

Starts(x, s, p, w, c) ==
  /\ x.ready /\ Ordered(x, s) /\ Admitted(p, w, c) /\ ~p.committed /\ w = <<>>
  /\ p.stream = s.key /\ Left(x.out, Len(p.shown), x)

Follows(x, s, p, w, c) ==
  /\ Ordered(x, s) /\ Admitted(p, w, c) /\ (p.committed \/ w # <<>>) /\ endless(w)
  /\ p.stream = s.key /\ Left(x.out, wireEnd(w, queueEnd(p)), x)
  /\ x.pc \in {"live", "again"} => x.out = <<>>

Linked(x, s, p, w, c) ==
  /\ x.pc # "none"
  /\ x.pc \in Openings => Opens(x, p, w)
  /\ x.pc = "preparing" => Prepares(x, s, p, w, c)
  /\ x.pc = "prepared" => Waits(x, s, p, w, c) \/ Starts(x, s, p, w, c)
  /\ x.pc \in Following => Follows(x, s, p, w, c)
  /\ x.pc = "ending" => Admitted(p, w, c) /\ endless(w)

Known(c) == \E k \in 0..N : c = at(k)

Offered == /\ Known(page.offer.at) /\ Known(page.point.at)
           /\ \A a \in A : Known(att[a].resume.at)

Apart ==
  \A a \in A : a # page.generation \/ ~page.open => conn[a].wire = <<>> /\ ~conn[a].open

PageInv ==
  /\ page.prepared \in {0, page.generation}
  /\ \A i \in 1..Len(page.queue) : page.queue[i].gen <= page.generation
  /\ page.prepared = 0 => \A i \in 1..Len(page.queue) : page.queue[i].gen < page.generation
  /\ page.committed => page.open /\ page.prepared = page.generation
  /\ viewing(page) => View(page, journal.committed)
  /\ Replaying(page, journal.committed) \/ Replayed(page)
  /\ page.open => Wired(page, conn[page.generation].wire, journal.committed)

ViewInv ==
  /\ Offered /\ Apart /\ PageInv
  /\ \A a \in A : conn[a].open => Linked(att[a], sub[a], page, conn[a].wire, journal.committed)

(***************************************************************************)
(* The geometry in force, along the stream.                                *)
(***************************************************************************)

\* The newest geometry among the atoms shown.
LEMMA InForceIs ==
  ASSUME NEW q \in Seq(Atom)
  PROVE  /\ inForce(q) \in 0..LastRecord
         /\ inForce(q) = 0 \/ \E i \in 1..Len(q) : ~isOutput(q[i]) /\ inForce(q) = q[i][1]
         /\ \A i \in 1..Len(q) : ~isOutput(q[i]) => q[i][1] <= inForce(q)
<1>. DEFINE S == {0} \cup {q[i][1] : i \in {j \in DOMAIN q : q[j][2] = 0}}
<1>1. DOMAIN q = 1..Len(q) /\ \A i \in 1..Len(q) : q[i] \in Atom
  OBVIOUS
<1>2. LastRecord \in Nat /\ \A i \in 1..Len(q) : q[i][1] \in 0..LastRecord
  BY <1>1, AtomIs, SizesAre
<1>3. S \in SUBSET (0..LastRecord) /\ S # {}
  BY <1>1, <1>2
<1>4. \A y \in S : y = 0 \/ \E i \in 1..Len(q) : ~isOutput(q[i]) /\ y = q[i][1]
  BY <1>1 DEF isOutput
<1>5. \A i \in 1..Len(q) : ~isOutput(q[i]) => q[i][1] \in S
  BY <1>1 DEF isOutput
<1>6. inForce(q) = Max(S)
  BY DEF inForce
<1>. HIDE DEF S
<1>7. Max(S) \in S /\ \A y \in S : Max(S) >= y
  BY <1>2, <1>3, MaxIs
<1>8. Max(S) \in 0..LastRecord
  BY <1>3, <1>7
<1>9. ASSUME NEW i \in 1..Len(q), ~isOutput(q[i]) PROVE q[i][1] <= inForce(q)
  BY <1>2, <1>5, <1>6, <1>7, <1>8, <1>9
<1>. QED BY <1>4, <1>6, <1>7, <1>8, <1>9

\* Nothing is in force at the beginning.
LEMMA InForceNone == inForce(<<>>) = 0
<1>1. PICK q : q = <<>>
  OBVIOUS
<1>2. q \in Seq(Atom) /\ Len(q) = 0
  BY <1>1
<1>3. ~ \E i \in 1..Len(q) : TRUE
  BY <1>2
<1>4. inForce(q) = 0
  BY <1>2, <1>3, InForceIs
<1>. QED BY <1>1, <1>4

\* Two runs that follow each other.
LEMMA RunJoins ==
  ASSUME NEW k \in Nat, NEW e \in Nat, k <= e, e <= N
  PROVE  /\ run(0, k) \o run(k, e) = run(0, e) /\ Len(run(0, e)) = e
         /\ \A j \in 1..k : run(0, e)[j] = run(0, k)[j]
         /\ \A j \in 1..(e - k) : run(0, e)[k + j] = run(k, e)[j]
<1>1. N \in Nat /\ 0 <= k /\ k <= N
  BY Bounds
<1>2. /\ run(0, k) \in Seq(Atom) /\ Len(run(0, k)) = k - 0 /\ \A j \in 1..(k - 0) : run(0, k)[j] = whole[0 + j]
      /\ run(0, e) \in Seq(Atom) /\ Len(run(0, e)) = e - 0 /\ \A j \in 1..(e - 0) : run(0, e)[j] = whole[0 + j]
      /\ run(k, e) \in Seq(Atom) /\ Len(run(k, e)) = e - k /\ \A j \in 1..(e - k) : run(k, e)[j] = whole[k + j]
  <2>1. 0 \in Nat /\ 0 <= e
    BY <1>1
  <2>. QED BY <1>1, <2>1, RunIs
<1>. DEFINE a == run(0, k) b == run(k, e) c == run(0, e)
<1>3. /\ a \in Seq(Atom) /\ Len(a) = k /\ \A j \in 1..k : a[j] = whole[j]
      /\ c \in Seq(Atom) /\ Len(c) = e /\ \A j \in 1..e : c[j] = whole[j]
      /\ b \in Seq(Atom) /\ Len(b) = e - k /\ \A j \in 1..(e - k) : b[j] = whole[k + j]
  BY <1>2
<1>. HIDE DEF a, b, c
<1>4. a \o b \in Seq(Atom) /\ Len(a \o b) = e
  <2>1. a \in Seq(Atom) /\ b \in Seq(Atom) /\ Len(a) = k /\ Len(b) = e - k
    BY <1>3
  <2>2. a \o b \in Seq(Atom) /\ Len(a \o b) = Len(a) + Len(b)
    <3>. HIDE DEF Atom
    <3>. QED BY <2>1
  <2>3. PICK l : l = Len(a \o b)
    OBVIOUS
  <2>4. l = k + (e - k)
    BY <2>1, <2>2, <2>3, Zenon
  <2>5. l = e
    BY <2>4
  <2>. QED BY <2>2, <2>3, <2>5, Zenon
<1>5. ASSUME NEW i \in 1..e PROVE (a \o b)[i] = c[i]
  <2>1. CASE i <= k
    BY <1>3, <2>1
  <2>2. CASE i > k
    <3>1. (a \o b)[i] = b[i - k] /\ i - k \in 1..(e - k)
      BY <1>3, <2>2
    <3>2. b[i - k] = whole[k + (i - k)] /\ k + (i - k) = i /\ c[i] = whole[i]
      BY <1>3, <3>1
    <3>. QED BY <3>1, <3>2
  <2>3. i <= k \/ i > k
    OBVIOUS
  <2>. QED BY <2>1, <2>2, <2>3
<1>6. a \o b = c
  BY <1>3, <1>4, <1>5, SeqEqual
<1>. QED BY <1>3, <1>6 DEF a, b, c

\* Records along the stream only go up.
LEMMA RecordsGoUp ==
  ASSUME NEW i \in 1..N, NEW j \in 1..N, i <= j
  PROVE  whole[i][1] <= whole[j][1]
<1>. DEFINE s == whole[i][1] r == whole[j][1]
<1>1. s \in 1..LastRecord /\ upto(s - 1) < i /\ r \in 1..LastRecord /\ j <= upto(r) /\ N \in Nat
  BY WholeIs, Bounds
<1>. HIDE DEF s, r
<1>2. CASE s > r
  <2>1. s - 1 \in 0..LastRecord /\ r \in 0..(s - 1) /\ LastRecord \in Nat
    BY <1>1, <1>2, SizesAre
  <2>2. upto(r) <= upto(s - 1) /\ upto(r) \in Nat /\ upto(s - 1) \in Nat
    BY <2>1, UptoGrows, StreamTypes
  <2>. QED BY <1>1, <2>2
<1>3. s \in Nat /\ r \in Nat
  BY <1>1, SizesAre
<1>. QED BY <1>2, <1>3 DEF s, r

\* Output leaves the geometry as it is.
LEMMA InForceStays ==
  ASSUME NEW k \in Nat, NEW e \in Nat, k <= e, e <= N, outputs(run(k, e))
  PROVE  inForce(run(0, e)) = inForce(run(0, k))
<1>. DEFINE a == run(0, k) c == run(0, e)
<1>1. N \in Nat /\ 0 <= k /\ k <= N /\ 0 \in Nat /\ 0 <= e
  BY Bounds
<1>2. a \in Seq(Atom) /\ c \in Seq(Atom) /\ Len(a) = k /\ Len(c) = e
  <2>1. a \in Seq(Atom) /\ Len(a) = k - 0
    BY <1>1, RunIs
  <2>2. c \in Seq(Atom) /\ Len(c) = e - 0
    BY <1>1, RunIs
  <2>. QED BY <2>1, <2>2
<1>3. \A j \in 1..k : c[j] = a[j]
  BY RunJoins
<1>4. \A j \in 1..(e - k) : isOutput(c[k + j])
  <2>1. Len(run(k, e)) = e - k
    BY RunIs
  <2>. QED BY <2>1, RunJoins DEF outputs
<1>. HIDE DEF a, c
<1>5. \A i \in 1..e : i <= k \/ isOutput(c[i])
  <2>. SUFFICES ASSUME NEW i \in 1..e, i > k PROVE isOutput(c[i])
    OBVIOUS
  <2>1. i - k \in 1..(e - k) /\ k + (i - k) = i
    OBVIOUS
  <2>. QED BY <1>4, <2>1
<1>6. /\ inForce(a) \in 0..LastRecord
      /\ inForce(a) = 0 \/ \E i \in 1..k : ~isOutput(a[i]) /\ inForce(a) = a[i][1]
      /\ \A i \in 1..k : ~isOutput(a[i]) => a[i][1] <= inForce(a)
  BY <1>2, InForceIs
<1>7. /\ inForce(c) \in 0..LastRecord
      /\ inForce(c) = 0 \/ \E i \in 1..e : ~isOutput(c[i]) /\ inForce(c) = c[i][1]
      /\ \A i \in 1..e : ~isOutput(c[i]) => c[i][1] <= inForce(c)
  BY <1>2, InForceIs
<1>8. inForce(c) = 0 \/ \E i \in 1..k : ~isOutput(a[i]) /\ inForce(c) = a[i][1]
  BY <1>3, <1>5, <1>7
<1>9. \A i \in 1..k : ~isOutput(a[i]) => a[i][1] <= inForce(c)
  <2>. SUFFICES ASSUME NEW i \in 1..k, ~isOutput(a[i]) PROVE a[i][1] <= inForce(c)
    OBVIOUS
  <2>1. i \in 1..e
    BY <1>1
  <2>. QED BY <1>3, <1>7, <2>1
<1>10. inForce(a) \in Nat /\ inForce(c) \in Nat
  BY <1>6, <1>7, SizesAre
<1>11. inForce(c) <= inForce(a)
  BY <1>6, <1>8, <1>10
<1>12. inForce(a) <= inForce(c)
  BY <1>6, <1>9, <1>10
<1>13. inForce(a) = inForce(c)
  BY <1>10, <1>11, <1>12
<1>. QED BY <1>13 DEF a, c

\* A geometry that is shown is in force.
LEMMA InForceMoves ==
  ASSUME NEW e \in 1..N, ~isOutput(whole[e])
  PROVE  inForce(run(0, e)) = whole[e][1]
<1>. DEFINE c == run(0, e)
<1>1. N \in Nat /\ e \in Nat /\ 0 \in Nat /\ 0 <= e /\ e <= N /\ e >= 1
  BY Bounds
<1>2. c \in Seq(Atom) /\ Len(c) = e /\ \A j \in 1..e : c[j] = whole[j]
  <2>1. c \in Seq(Atom) /\ Len(c) = e - 0 /\ \A j \in 1..(e - 0) : c[j] = whole[0 + j]
    BY <1>1, RunIs
  <2>. QED BY <1>1, <2>1
<1>. HIDE DEF c
<1>3. \A i \in 1..e : c[i][1] <= whole[e][1] /\ c[i][1] \in Nat
  <2>. SUFFICES ASSUME NEW i \in 1..e PROVE c[i][1] <= whole[e][1] /\ c[i][1] \in Nat
    OBVIOUS
  <2>1. i \in 1..N /\ i <= e
    BY <1>1
  <2>. QED BY <1>2, <2>1, RecordsGoUp, WholeIs, SizesAre
<1>4. /\ inForce(c) \in 0..LastRecord
      /\ inForce(c) = 0 \/ \E i \in 1..e : ~isOutput(c[i]) /\ inForce(c) = c[i][1]
      /\ \A i \in 1..e : ~isOutput(c[i]) => c[i][1] <= inForce(c)
  BY <1>2, InForceIs
<1>5. whole[e][1] <= inForce(c) /\ e \in 1..e /\ whole[e][1] \in 1..LastRecord
  BY <1>1, <1>2, <1>4, WholeIs
<1>6. inForce(c) \in Nat /\ LastRecord \in Nat
  BY <1>4, SizesAre
<1>7. inForce(c) <= whole[e][1]
  BY <1>3, <1>4, <1>5, <1>6
<1>. QED BY <1>5, <1>6, <1>7 DEF c

(***************************************************************************)
(* Frames that carry a run.                                                *)
(***************************************************************************)

\* A frame ends where it ends.
LEMMA GoodIs ==
  ASSUME NEW f, good(f)
  PROVE  /\ begun(f) \in Nat /\ ending(f) \in 0..N /\ begun(f) < ending(f) /\ ending(f) \in Nat
         /\ f.atoms = run(begun(f), ending(f)) /\ f.at = at(ending(f))
         /\ f.kind \in {"LIVE", "RESIZE"}
         /\ f.kind = "LIVE" => outputs(f.atoms)
         /\ f.kind = "RESIZE" => begun(f) = ending(f) - 1 /\ f.atoms[1] = whole[ending(f)] /\ ~isOutput(whole[ending(f)])
<1>1. /\ begun(f) \in Nat /\ ending(f) \in 0..N /\ begun(f) < ending(f)
      /\ f.atoms = run(begun(f), ending(f)) /\ f.at = at(ending(f)) /\ N \in Nat
  BY Bounds DEF good, carries
<1>2. ASSUME f.kind = "RESIZE"
      PROVE  begun(f) = ending(f) - 1 /\ f.atoms[1] = whole[ending(f)] /\ ~isOutput(whole[ending(f)])
  <2>1. Len(f.atoms) = 1 /\ ~isOutput(f.atoms[1])
    BY <1>2 DEF good
  <2>2. PICK k, e : k = begun(f) /\ e = ending(f)
    OBVIOUS
  <2>3. k \in Nat /\ e \in Nat /\ k <= e /\ e <= N
    BY <1>1, <2>2
  <2>4. Len(run(k, e)) = e - k /\ \A j \in 1..(e - k) : run(k, e)[j] = whole[k + j]
    BY <2>3, RunIs
  <2>5. e - k = 1
    BY <1>1, <2>1, <2>2, <2>4
  <2>6. f.atoms[1] = whole[k + 1] /\ k + 1 = e
    BY <1>1, <2>2, <2>3, <2>4, <2>5
  <2>. QED BY <2>1, <2>2, <2>3, <2>6
<1>3. f.kind \in {"LIVE", "RESIZE"} /\ (f.kind = "LIVE" => outputs(f.atoms))
  BY DEF good
<1>. QED BY <1>1, <1>2, <1>3

\* No frame of a run ends after the run.
LEMMA LinkedBounded ==
  ASSUME NEW q \in Seq(Frame), linked(q)
  PROVE  \A i \in 1..Len(q) : ending(q[i]) <= ending(q[Len(q)])
<1>. DEFINE P == {d \in Nat : d < Len(q) => ending(q[Len(q) - d]) <= ending(q[Len(q)])}
<1>0. Len(q) \in Nat
  OBVIOUS
<1>1. 0 \in P
  <2>1. ASSUME 0 < Len(q) PROVE ending(q[Len(q)]) <= ending(q[Len(q)])
    <3>1. good(q[Len(q)])
      BY <1>0, <2>1 DEF linked
    <3>2. ending(q[Len(q)]) \in Nat
      BY <3>1, GoodIs
    <3>. QED BY <3>2
  <2>2. Len(q) - 0 = Len(q)
    BY <1>0
  <2>. QED BY <2>1, <2>2
<1>2. \A d \in P : d + 1 \in P
  <2>. SUFFICES ASSUME NEW d \in P, d + 1 < Len(q) PROVE ending(q[Len(q) - (d + 1)]) <= ending(q[Len(q)])
    OBVIOUS
  <2>1. PICK j : j = Len(q) - (d + 1)
    OBVIOUS
  <2>2. j \in 1..(Len(q) - 1) /\ j \in 1..Len(q) /\ j + 1 \in 1..Len(q) /\ j + 1 = Len(q) - d /\ Len(q) \in 1..Len(q)
    BY <1>0, <2>1
  <2>3. good(q[j]) /\ good(q[j + 1]) /\ begun(q[j + 1]) = ending(q[j]) /\ good(q[Len(q)])
    BY <2>2 DEF linked
  <2>4. ending(q[j + 1]) <= ending(q[Len(q)])
    BY <1>0, <2>2
  <2>5. ending(q[j]) \in Nat /\ ending(q[j + 1]) \in Nat /\ begun(q[j + 1]) < ending(q[j + 1]) /\ ending(q[Len(q)]) \in Nat
    BY <2>3, GoodIs
  <2>. QED BY <2>1, <2>3, <2>4, <2>5
<1>3. P \in SUBSET Nat
  OBVIOUS
<1>. HIDE DEF P
<1>4. \A d \in Nat : d \in P
  BY <1>1, <1>2, <1>3, T!Induct
<1>5. ASSUME NEW i \in 1..Len(q) PROVE ending(q[i]) <= ending(q[Len(q)])
  <2>1. Len(q) - i \in Nat /\ Len(q) - i < Len(q) /\ Len(q) - (Len(q) - i) = i
    BY <1>0
  <2>. QED BY <1>4, <2>1 DEF P
<1>. QED BY <1>5

\* The first frame of a run, and the rest of it.
LEMMA SpansFirst ==
  ASSUME NEW q, NEW k \in Nat, NEW e \in Nat, k <= e, spans(q, k, e), q # <<>>
  PROVE  /\ k < e /\ Head(q) = q[1] /\ Head(q) \in Frame /\ good(Head(q)) /\ begun(Head(q)) = k
         /\ ending(Head(q)) <= e /\ ending(Head(q)) \in Nat
         /\ spans(Tail(q), ending(Head(q)), e)
<1>1. q \in Seq(Frame) /\ linked(q) /\ (k = e => q = <<>>) /\ (k < e => q # <<>> /\ begun(q[1]) = k /\ ending(q[Len(q)]) = e)
  BY DEF spans
<1>2. k < e /\ begun(q[1]) = k /\ ending(q[Len(q)]) = e
  BY <1>1
<1>3. /\ Len(q) \in Nat /\ Len(q) >= 1 /\ Head(q) = q[1] /\ q[1] \in Frame
      /\ Tail(q) \in Seq(Frame) /\ Len(Tail(q)) = Len(q) - 1
      /\ \A i \in 1..(Len(q) - 1) : Tail(q)[i] = q[i + 1]
  <2>1. PICK S : S = Frame
    OBVIOUS
  <2>2. q \in Seq(S)
    BY <1>1, <2>1
  <2>. QED BY <2>1, <2>2, HeadTail
<1>4. /\ \A i \in 1..Len(q) : good(q[i])
      /\ \A i \in 1..(Len(q) - 1) : begun(q[i + 1]) = ending(q[i])
  BY <1>1 DEF linked
<1>5. 1 \in 1..Len(q) /\ good(q[1]) /\ ending(q[1]) \in Nat /\ ending(q[1]) <= e
  <2>1. 1 \in 1..Len(q)
    BY <1>3
  <2>2. ending(q[1]) <= ending(q[Len(q)])
    BY <1>1, <2>1, LinkedBounded
  <2>. QED BY <1>2, <1>4, <2>1, <2>2, GoodIs
<1>. DEFINE t == Tail(q)
<1>. HIDE DEF t
<1>6. /\ t \in Seq(Frame) /\ Len(t) = Len(q) - 1 /\ \A i \in 1..Len(t) : t[i] = q[i + 1]
  BY <1>3 DEF t
<1>7. linked(t)
  <2>1. ASSUME NEW i \in 1..Len(t) PROVE good(t[i])
    <3>1. i + 1 \in 1..Len(q) /\ t[i] = q[i + 1]
      BY <1>3, <1>6
    <3>. QED BY <1>4, <3>1
  <2>2. ASSUME NEW i \in 1..(Len(t) - 1) PROVE begun(t[i + 1]) = ending(t[i])
    <3>1. i \in 1..Len(t) /\ i + 1 \in 1..Len(t) /\ i + 1 \in 1..(Len(q) - 1)
      BY <1>3, <1>6
    <3>2. t[i] = q[i + 1] /\ t[i + 1] = q[(i + 1) + 1] /\ begun(q[(i + 1) + 1]) = ending(q[i + 1])
      BY <1>4, <1>6, <3>1
    <3>. QED BY <3>2
  <2>. QED BY <2>1, <2>2 DEF linked
<1>8. spans(t, ending(q[1]), e)
  <2>1. CASE Len(q) = 1
    <3>1. t = <<>> /\ ending(q[1]) = e
      BY <1>2, <1>6, <2>1
    <3>. QED BY <1>6, <1>7, <3>1 DEF spans
  <2>2. CASE Len(q) > 1
    <3>1. t # <<>> /\ Len(t) \in 1..Len(t) /\ 1 \in 1..Len(t) /\ 1 \in 1..(Len(q) - 1) /\ Len(t) + 1 = Len(q)
      BY <1>3, <1>6, <2>2
    <3>2. t[1] = q[1 + 1] /\ t[Len(t)] = q[Len(q)] /\ begun(q[1 + 1]) = ending(q[1])
      BY <1>4, <1>6, <3>1
    <3>3. ending(q[1]) # e
      <4>1. good(t[1]) /\ ending(t[1]) <= ending(t[Len(t)])
        BY <1>6, <1>7, <3>1, LinkedBounded DEF linked
      <4>2. begun(t[1]) < ending(t[1]) /\ ending(t[1]) \in Nat /\ begun(t[1]) \in Nat
        BY <4>1, GoodIs
      <4>. QED BY <1>2, <3>2, <4>1, <4>2
    <3>. QED BY <1>2, <1>6, <1>7, <3>1, <3>2, <3>3 DEF spans
  <2>. QED BY <1>3, <2>1, <2>2
<1>. QED BY <1>2, <1>3, <1>4, <1>5, <1>8 DEF t

\* A run of no frames.
LEMMA SpansNone ==
  ASSUME NEW k \in Nat, NEW e \in Nat, k <= e, spans(<<>>, k, e)
  PROVE  k = e
BY DEF spans

\* The atoms of a record are a run.
LEMMA RecordIs ==
  ASSUME NEW s \in 1..LastRecord
  PROVE  /\ atomsOf(s) = run(upto(s - 1), upto(s)) /\ s - 1 \in 0..LastRecord /\ s \in 0..LastRecord
         /\ upto(s - 1) \in Nat /\ upto(s) \in Nat /\ upto(s - 1) <= upto(s) /\ upto(s) <= N
<1>1. s - 1 \in 0..LastRecord /\ s \in 0..LastRecord /\ (s - 1) + 1 = s /\ LastRecord \in Nat /\ s - 1 \in Nat
  BY SizesAre
<1>2. /\ upto(s - 1) \in Nat /\ upto(s) \in Nat /\ upto(s - 1) <= upto(s) /\ upto(s) <= N /\ N \in Nat
  <2>1. s - 1 \in 0..s
    BY <1>1
  <2>. QED BY <1>1, <2>1, UptoGrows, Bounds
<1>3. stream[s] = stream[s - 1] \o atomsOf(s)
  <2>1. PICK n : n = s - 1
    OBVIOUS
  <2>2. n \in Nat /\ n + 1 = s /\ n + 1 <= LastRecord
    BY <1>1, <2>1
  <2>3. stream[n + 1] = stream[n] \o atomsOf(n + 1)
    BY <2>2, StreamGrows
  <2>. QED BY <2>1, <2>2, <2>3
<1>. DEFINE b == stream[s - 1] c == stream[s] r == atomsOf(s) t == run(upto(s - 1), upto(s))
<1>4. b \in Seq(Atom) /\ c \in Seq(Atom) /\ r \in Seq(Atom) /\ Len(b) = upto(s - 1) /\ Len(c) = upto(s)
  BY <1>1, StreamTypes, AtomsAre DEF upto
<1>5. /\ t \in Seq(Atom) /\ Len(t) = upto(s) - upto(s - 1)
      /\ \A j \in 1..(upto(s) - upto(s - 1)) : t[j] = whole[upto(s - 1) + j]
  BY <1>2, RunIs
<1>6. \A j \in 1..upto(s) : c[j] = whole[j]
  <2>1. c = SubSeq(whole, 1, upto(s)) /\ whole \in Seq(Atom) /\ Len(whole) = N
    BY <1>1, StreamIs, Bounds
  <2>. QED BY <1>2, <2>1
<1>. HIDE DEF b, c, r, t
<1>7. Len(c) = Len(b) + Len(r) /\ \A j \in 1..Len(r) : c[Len(b) + j] = r[j]
  BY <1>3, <1>4 DEF b, c, r
<1>8. Len(r) = Len(t) /\ Len(r) \in Nat
  BY <1>2, <1>4, <1>5, <1>7
<1>9. ASSUME NEW j \in 1..Len(r) PROVE r[j] = t[j]
  <2>1. Len(b) + j \in 1..upto(s) /\ j \in 1..(upto(s) - upto(s - 1))
    BY <1>2, <1>4, <1>5, <1>8
  <2>. QED BY <1>4, <1>5, <1>6, <1>7, <2>1
<1>10. r = t
  BY <1>4, <1>5, <1>8, <1>9, SeqEqual
<1>. QED BY <1>1, <1>2, <1>10 DEF r, t

\* A round ends with a record.
LEMMA RoundEnds ==
  ASSUME NEW d \in 0..LastRecord, NEW c \in 0..LastRecord, d < c,
         NEW n \in recordEnds(run(upto(d), upto(c)))
  PROVE  LET r == run(upto(d), upto(c))[n][1]
         IN /\ r \in 0..LastRecord /\ d < r /\ r <= c /\ upto(r) = upto(d) + n
            /\ n \in 1..(upto(c) - upto(d)) /\ n \in Nat
<1>. DEFINE q == run(upto(d), upto(c)) k == upto(d) + n r == q[n][1]
<1>1. LastRecord \in Nat /\ N \in Nat /\ upto(d) \in Nat /\ upto(c) \in Nat /\ upto(c) <= N /\ upto(d) < upto(c)
      /\ upto(d) <= upto(c)
  <2>1. d \in 0..c /\ LastRecord \in Nat
    BY SizesAre
  <2>. QED BY <2>1, Bounds, StreamTypes, UptoGrows
<1>2. /\ q \in Seq(Atom) /\ Len(q) = upto(c) - upto(d)
      /\ \A j \in 1..(upto(c) - upto(d)) : q[j] = whole[upto(d) + j]
  BY <1>1, RunIs
<1>3. n \in 1..Len(q) /\ (n = Len(q) \/ q[n][1] # q[n + 1][1])
  BY <1>2 DEF recordEnds
<1>. HIDE DEF q
<1>4. n \in Nat /\ k \in 1..N /\ k <= upto(c) /\ upto(d) < k /\ q[n] = whole[k]
  BY <1>1, <1>2, <1>3
<1>5. r \in 1..LastRecord /\ upto(r - 1) < k /\ k <= upto(r) /\ upto(r) \in Nat /\ upto(r - 1) \in Nat
  <2>1. r = whole[k][1]
    BY <1>4
  <2>2. r \in 1..LastRecord /\ upto(r - 1) < k /\ k <= upto(r)
    BY <1>4, <2>1, WholeIs
  <2>3. r \in 0..LastRecord /\ r - 1 \in 0..LastRecord
    BY <1>1, <2>2
  <2>. QED BY <2>2, <2>3, StreamTypes
<1>6. r <= c
  <2>. SUFFICES ASSUME r > c PROVE FALSE
    BY <1>1, <1>5
  <2>1. r - 1 \in 0..LastRecord /\ c \in 0..(r - 1)
    BY <1>1, <1>5
  <2>2. upto(c) <= upto(r - 1)
    BY <2>1, UptoGrows
  <2>. QED BY <1>1, <1>4, <1>5, <2>2
<1>7. d < r
  <2>. SUFFICES ASSUME r <= d PROVE FALSE
    BY <1>1, <1>5
  <2>1. r \in 0..d
    BY <1>1, <1>5
  <2>2. upto(r) <= upto(d)
    BY <2>1, UptoGrows
  <2>. QED BY <1>1, <1>4, <1>5, <2>2
<1>8. k = upto(r)
  <2>1. CASE n = Len(q)
    <3>1. k = upto(c)
      BY <1>1, <1>2, <2>1
    <3>2. r \in 0..c
      BY <1>1, <1>5, <1>6
    <3>3. upto(r) <= upto(c)
      BY <3>2, UptoGrows
    <3>. QED BY <1>1, <1>4, <1>5, <3>1, <3>3
  <2>2. CASE n # Len(q)
    <3>1. n + 1 \in 1..(upto(c) - upto(d)) /\ k + 1 \in 1..N /\ q[n + 1] = whole[k + 1] /\ k + 1 = upto(d) + (n + 1)
      <4>0. PICK b, t : b = upto(d) /\ t = upto(c)
        OBVIOUS
      <4>3. b \in Nat /\ t \in Nat /\ N \in Nat /\ n \in Nat /\ n >= 1 /\ n < t - b /\ t <= N /\ k = b + n
        BY <1>1, <1>2, <1>3, <1>4, <2>2, <4>0
      <4>4. n + 1 \in 1..(t - b) /\ (b + n) + 1 = b + (n + 1) /\ (b + n) + 1 \in 1..N
        BY <4>3
      <4>1. n + 1 \in 1..(upto(c) - upto(d)) /\ k + 1 = upto(d) + (n + 1) /\ k + 1 \in 1..N
        BY <4>0, <4>4
      <4>2. q[n + 1] = whole[upto(d) + (n + 1)]
        BY <1>2, <4>1
      <4>. QED BY <4>1, <4>2
    <3>2. PICK p : p = whole[k + 1][1]
      OBVIOUS
    <3>3. p # r /\ p \in 1..LastRecord /\ upto(p - 1) < k + 1 /\ k + 1 <= upto(p)
      BY <1>3, <2>2, <3>1, <3>2, WholeIs
    <3>4. ASSUME k + 1 <= upto(r) PROVE FALSE
      <4>1. k + 1 \in Nat /\ upto(r - 1) < k + 1
        BY <1>4, <1>5
      <4>. QED BY <1>5, <3>3, <3>4, <4>1, PlaceUnique
    <3>. QED BY <1>4, <1>5, <3>4
  <2>. QED BY <2>1, <2>2
<1>9. r \in 0..LastRecord /\ n \in 1..(upto(c) - upto(d))
  BY <1>1, <1>2, <1>3, <1>5
<1>. QED BY <1>4, <1>6, <1>7, <1>8, <1>9 DEF q

\* The PREPARE of a snapshot and the frames after it carry it.
LEMMA OpenedIs ==
  ASSUME NEW a \in A, att[a] \in Atts, att[a].key \in Gen, NEW k \in 0..N, att[a].from = at(k),
         k <= upto(att[a].to)
  PROVE  LET f == prepareFrame(a)
             e == upto(att[a].to)
         IN /\ f.kind = "PREPARE" /\ f.stream = att[a].key /\ f.resumed = resumes(a)
            /\ f.geometry = geometryAt(att[a].from.seq)
            /\ carries(f) /\ begun(f) = k /\ outputs(f.atoms)
            /\ e \in Nat /\ ending(f) \in Nat /\ ending(f) <= e
            /\ spans(frames(backlog(a)), ending(f), e)
<1>. DEFINE f == prepareFrame(a)
            e == upto(att[a].to)
            atoms == suffix(att[a].from, att[a].to)
            n == replayLength(atoms)
<1>1. att[a].to \in 0..LastRecord /\ e \in Nat /\ k \in Nat /\ N \in Nat /\ k <= e /\ e <= N /\ k \in 0..e
  BY Bounds, StreamTypes DEF Atts
<1>2. atoms = run(k, e)
  BY <1>1, SuffixIs
<1>3. /\ atoms \in Seq(Atom) /\ Len(atoms) = e - k
      /\ \A j \in 1..(e - k) : after(atoms[j]) = at(k + j)
      /\ \A j \in 0..(e - k) : SubSeq(atoms, 1, j) = run(k, k + j)
      /\ \A j \in 0..(e - k) : SubSeq(atoms, j + 1, Len(atoms)) = run(k + j, e)
  <2>. HIDE DEF atoms, e
  <2>1. PICK q : q = run(k, e)
    OBVIOUS
  <2>2. /\ q \in Seq(Atom) /\ Len(q) = e - k
        /\ \A j \in 1..(e - k) : after(q[j]) = at(k + j)
        /\ \A j \in 0..(e - k) : SubSeq(q, 1, j) = run(k, k + j)
        /\ \A j \in 0..(e - k) : SubSeq(q, j + 1, Len(q)) = run(k + j, e)
    BY <1>1, <2>1, RunIs
  <2>3. atoms = q
    BY <1>2, <2>1
  <2>. QED BY <2>2, <2>3
<1>4. n \in 0..(e - k) /\ \A j \in 1..n : isOutput(atoms[j])
  BY <1>3, ReplayIs
<1>. DEFINE m == k + n
<1>5. m \in Nat /\ k <= m /\ m <= e /\ m <= N /\ m \in 0..N /\ n \in Nat /\ m - k = n
  <2>. HIDE DEF n
  <2>. QED BY <1>1, <1>4
<1>6. f.kind = "PREPARE" /\ f.stream = att[a].key /\ f.resumed = resumes(a) /\ f.geometry = geometryAt(att[a].from.seq)
      /\ f.atoms = SubSeq(atoms, 1, n) /\ f.at = IF n = 0 THEN att[a].from ELSE after(atoms[n])
  BY DEF prepareFrame
<1>7. f.atoms = run(k, m) /\ f.at = at(m)
  <2>. HIDE DEF n, atoms, f
  <2>1. CASE n = 0
    BY <1>3, <1>4, <1>6, <2>1
  <2>2. CASE n # 0
    <3>1. n \in 1..(e - k)
      BY <1>4, <1>5, <2>2
    <3>. QED BY <1>3, <1>4, <1>6, <2>2, <3>1
  <2>. QED BY <2>1, <2>2
<1>8. backlog(a) = run(m, e)
  <2>1. backlog(a) = SubSeq(atoms, n + 1, Len(atoms))
    BY DEF backlog
  <2>. HIDE DEF n, atoms
  <2>. QED BY <1>3, <1>4, <2>1
<1>. HIDE DEF n, atoms, m, f
<1>9. ending(f) = m
  BY <1>5, <1>7, AtIs DEF ending
<1>10. Len(run(k, m)) = m - k /\ \A j \in 1..(m - k) : run(k, m)[j] = whole[k + j]
  BY <1>1, <1>5, RunIs
<1>11. begun(f) = k
  BY <1>1, <1>5, <1>7, <1>9, <1>10 DEF begun
<1>12. outputs(f.atoms)
  <2>1. \A j \in 1..(e - k) : run(k, e)[j] = whole[k + j]
    BY <1>1, RunIs
  <2>2. \A j \in 1..(m - k) : run(k, m)[j] = atoms[j]
    <3>. SUFFICES ASSUME NEW j \in 1..(m - k) PROVE run(k, m)[j] = atoms[j]
      OBVIOUS
    <3>1. j \in 1..(e - k)
      BY <1>1, <1>5
    <3>. QED BY <1>2, <1>10, <2>1, <3>1
  <2>. QED BY <1>4, <1>5, <1>7, <1>10, <2>2 DEF outputs
<1>13. carries(f)
  BY <1>1, <1>5, <1>7, <1>9, <1>11 DEF carries
<1>14. spans(frames(backlog(a)), m, e)
  BY <1>1, <1>5, <1>8, FramesSpan
<1>. QED BY <1>1, <1>5, <1>6, <1>9, <1>11, <1>12, <1>13, <1>14 DEF f

(***************************************************************************)
(* What was committed stays committed.                                     *)
(***************************************************************************)

\* Commits that only grow.
Grown(c, d) == c \in Counts /\ d \in Counts /\ \A g \in Gen : c[g] <= d[g]

\* Commits that only grow reach as far, or further.
LEMMA GrownReaches ==
  ASSUME NEW c, NEW d, Grown(c, d), NEW g \in Gen
  PROVE  upto(c[g]) \in Nat /\ upto(d[g]) \in Nat /\ upto(c[g]) <= upto(d[g]) /\ upto(d[g]) <= N /\ N \in Nat
<1>1. LastRecord \in Nat /\ c[g] \in 0..LastRecord /\ d[g] \in 0..LastRecord /\ c[g] <= d[g]
  BY SizesAre DEF Grown, Counts
<1>2. c[g] \in 0..d[g]
  BY <1>1
<1>. QED BY <1>1, <1>2, UptoGrows, StreamTypes, Bounds

\* A position within the earlier commits is within the later ones.
LEMMA Reaches ==
  ASSUME NEW c, NEW d, Grown(c, d), NEW g \in Gen, NEW n \in Nat, n <= upto(c[g])
  PROVE  n <= upto(d[g])
BY GrownReaches

\* A replay stays one.
LEMMA ReplayableGrows ==
  ASSUME NEW c, NEW d, Grown(c, d), NEW f, replayable(f, c)
  PROVE  replayable(f, d)
<1>1. f.stream \in Gen /\ ending(f) \in 0..N /\ ending(f) <= upto(c[f.stream]) /\ N \in Nat
  BY Bounds DEF replayable, carries
<1>2. ending(f) <= upto(d[f.stream])
  BY <1>1, Reaches
<1>. QED BY <1>2 DEF replayable

\* A PREPARE stays one the page may be sent.
LEMMA PreparableGrows ==
  ASSUME NEW c, NEW d, Grown(c, d), NEW f, NEW p, preparable(f, p, c)
  PROVE  preparable(f, p, d)
BY ReplayableGrows DEF preparable

\* A page in view stays in view.
LEMMA ViewGrows ==
  ASSUME NEW c, NEW d, Grown(c, d), NEW p \in Pages, View(p, c)
  PROVE  View(p, d)
<1>1. p.stream \in Gen /\ Len(p.shown) \in Nat /\ Len(p.shown) <= upto(c[p.stream])
  BY DEF View, Pages, Shown
<1>2. Len(p.shown) <= upto(d[p.stream])
  BY <1>1, Reaches
<1>3. ASSUME NEW i \in 1..Len(p.queue)
      PROVE  ending(p.queue[i].frame) <= upto(d[p.stream])
  <2>1. good(p.queue[i].frame) /\ ending(p.queue[i].frame) <= upto(c[p.stream])
    BY DEF View, Queued
  <2>2. ending(p.queue[i].frame) \in Nat
    BY <2>1, GoodIs
  <2>. QED BY <1>1, <2>1, <2>2, Reaches
<1>4. Queued(p, d)
  BY <1>3 DEF View, Queued
<1>. QED BY <1>2, <1>4 DEF View

\* A replay that waits to be parsed still waits.
LEMMA ReplayingGrows ==
  ASSUME NEW c, NEW d, Grown(c, d), NEW p, Replaying(p, c)
  PROVE  Replaying(p, d)
BY ReplayableGrows DEF Replaying

\* Frames on the way stay within what is committed.
LEMMA OnTheWayGrows ==
  ASSUME NEW c, NEW d, Grown(c, d), NEW p, p.stream \in Gen, NEW w, OnTheWay(p, w, c)
  PROVE  OnTheWay(p, w, d)
<1>1. ASSUME NEW i \in 1..Len(w), good(w[i]), ending(w[i]) <= upto(c[p.stream])
      PROVE  ending(w[i]) <= upto(d[p.stream])
  <2>1. ending(w[i]) \in Nat
    BY <1>1, GoodIs
  <2>. QED BY <1>1, <2>1, Reaches
<1>. QED BY <1>1 DEF OnTheWay

\* The connection of a page, with more committed.
LEMMA WiredGrows ==
  ASSUME NEW c, NEW d, Grown(c, d), NEW p, viewing(p) => p.stream \in Gen, NEW w
  PROVE  /\ Preparing(p, w, c) => Preparing(p, w, d)
         /\ Prepared(p, w, c) => Prepared(p, w, d)
         /\ Admitted(p, w, c) => Admitted(p, w, d)
         /\ Wired(p, w, c) => Wired(p, w, d)
<1>1. Preparing(p, w, c) => Preparing(p, w, d)
  BY PreparableGrows DEF Preparing
<1>2. Prepared(p, w, c) => Prepared(p, w, d)
  BY ReplayingGrows DEF Prepared
<1>3. Admitted(p, w, c) => Admitted(p, w, d)
  BY OnTheWayGrows DEF Admitted
<1>. QED BY <1>1, <1>2, <1>3 DEF Wired

\* A writer, with more committed and a subscriber that is as far.
LEMMA LinkedGrows ==
  ASSUME NEW c, NEW d, Grown(c, d), NEW p, viewing(p) => p.stream \in Gen, NEW w, NEW x, NEW s, NEW t,
         t.key = s.key, Ordered(x, s) => Ordered(x, t), Linked(x, s, p, w, c)
  PROVE  Linked(x, t, p, w, d)
<1>1. x.pc = "preparing" => Prepares(x, t, p, w, d)
  BY PreparableGrows DEF Linked, Prepares
<1>2. x.pc = "prepared" => Waits(x, t, p, w, d) \/ Starts(x, t, p, w, d)
  <2>1. Waits(x, s, p, w, c) => Waits(x, t, p, w, d)
    BY WiredGrows DEF Waits
  <2>2. Starts(x, s, p, w, c) => Starts(x, t, p, w, d)
    BY WiredGrows DEF Starts
  <2>. QED BY <2>1, <2>2 DEF Linked
<1>3. x.pc \in Following => Follows(x, t, p, w, d)
  BY WiredGrows DEF Linked, Follows
<1>4. x.pc = "ending" => Admitted(p, w, d) /\ endless(w)
  BY WiredGrows DEF Linked
<1>. QED BY <1>1, <1>2, <1>3, <1>4 DEF Linked

(***************************************************************************)
(* Steps of the journal and its dispatcher.                                *)
(***************************************************************************)

\* What the page shows, with more committed.
LEMMA PageGrows ==
  ASSUME PageInv, page \in Pages, UNCHANGED <<conn, page>>, Grown(journal.committed, journal'.committed)
  PROVE  PageInv' /\ (viewing(page) => page.stream \in Gen)
<1>. DEFINE c == journal.committed
            d == journal'.committed
            w == conn[page.generation].wire
<1>1. viewing(page) => page.stream \in Gen /\ View(page, d)
  <2>1. viewing(page) => View(page, c)
    BY DEF PageInv
  <2>. QED BY <2>1, ViewGrows DEF View
<1>2. Replaying(page, d) \/ Replayed(page)
  BY ReplayingGrows DEF PageInv
<1>3. page.open => Wired(page, w, d)
  BY <1>1, WiredGrows DEF PageInv
<1>4. /\ page.prepared \in {0, page.generation}
      /\ \A i \in 1..Len(page.queue) : page.queue[i].gen <= page.generation
      /\ page.prepared = 0 => \A i \in 1..Len(page.queue) : page.queue[i].gen < page.generation
      /\ page.committed => page.open /\ page.prepared = page.generation
  BY DEF PageInv
<1>. QED BY <1>1, <1>2, <1>3, <1>4 DEF PageInv

\* A step of the journal that keeps the subscribers in order.
LEMMA JournalView ==
  ASSUME ReadersInv, ViewInv, UNCHANGED <<att, conn, page>>, Grown(journal.committed, journal'.committed),
         \A a \in A : sub'[a].key = sub[a].key /\ (Ordered(att[a], sub[a]) => Ordered(att[a], sub'[a]))
  PROVE  ViewInv'
<1>1. page \in Pages
  BY DEF ReadersInv, Shapes
<1>2. PageInv' /\ (viewing(page) => page.stream \in Gen)
  BY <1>1, PageGrows DEF ViewInv
<1>3. ASSUME NEW a \in A, conn[a].open
      PROVE  Linked(att[a], sub'[a], page, conn[a].wire, journal'.committed)
  BY <1>2, <1>3, LinkedGrows DEF ViewInv
<1>4. Offered' /\ Apart'
  BY DEF ViewInv, Offered, Apart
<1>. QED BY <1>2, <1>3, <1>4 DEF ViewInv

\* What a step of the journal does to the commits: nothing, one more record of one
\* generation, or a new generation with its birth records.
Moves(c, d) ==
  \/ d = c
  \/ \E g \in Gen : c[g] < LastRecord /\ d = [c EXCEPT ![g] = @ + 1]
  \/ \E g \in Gen : c[g] = 0 /\ d = [c EXCEPT ![g] = Birth]

\* Commits that move only grow.
LEMMA MovesGrow ==
  ASSUME NEW c \in Counts, NEW d \in Counts, Moves(c, d)
  PROVE  Grown(c, d)
<1>1. \A g \in Gen : c[g] \in Nat
  BY ConstantsAre DEF Counts
<1>2. Birth \in Nat
  BY ConstantsAre
<1>3. \A g \in Gen : c[g] <= d[g]
  <2>1. CASE d = c
    BY <1>1, <2>1
  <2>2. ASSUME NEW g \in Gen, d = [c EXCEPT ![g] = @ + 1] PROVE \A h \in Gen : c[h] <= d[h]
    BY <1>1, <2>2 DEF Counts
  <2>3. ASSUME NEW g \in Gen, c[g] = 0, d = [c EXCEPT ![g] = Birth] PROVE \A h \in Gen : c[h] <= d[h]
    BY <1>1, <1>2, <2>3 DEF Counts
  <2>. QED BY <2>1, <2>2, <2>3 DEF Moves
<1>. QED BY <1>3 DEF Grown

\* The commits after a step of the journal.
LEMMA JournalMoves ==
  ASSUME ReadersInv, Journal
  PROVE  Moves(journal.committed, journal'.committed) /\ UNCHANGED <<att, conn, page>>
<1>1. journal \in Journals /\ Counted(journal) /\ journal.latest \in Gen /\ Generations \in Nat
      /\ (journal.active # 0 => journal.active \in Gen)
  BY JournalIs, ConstantsAre
<1>2. CASE Commit
  <2>1. journal.active \in Gen /\ journal.committed[journal.active] < LastRecord
        /\ journal' = [journal EXCEPT !.committed[journal.active] = @ + 1] /\ UNCHANGED <<att, conn, page>>
    BY <1>1, <1>2 DEF Commit
  <2>2. journal'.committed = [journal.committed EXCEPT ![journal.active] = @ + 1]
    BY <1>1, <2>1 DEF Journals
  <2>. QED BY <2>1, <2>2 DEF Moves
<1>3. ASSUME journal.latest < Generations, journal' = admitted(journal)
      PROVE  Moves(journal.committed, journal'.committed)
  <2>1. PICK g : g = journal.latest + 1
    OBVIOUS
  <2>2. g \in Gen /\ journal.committed[g] = 0
    BY <1>1, <1>3, <2>1 DEF Counted, Gen
  <2>3. journal'.committed = [journal.committed EXCEPT ![g] = Birth]
    BY <1>1, <1>3, <2>1 DEF admitted, Journals
  <2>. QED BY <2>2, <2>3 DEF Moves
<1>4. CASE RotationSwaps
  <2>1. journal.rotation # "none" /\ journal' = admitted(journal) /\ UNCHANGED <<att, conn, page>>
    BY <1>4 DEF RotationSwaps
  <2>. QED BY <1>1, <1>3, <2>1 DEF Counted
<1>5. CASE GenerationStarts
  BY <1>3, <1>5 DEF GenerationStarts
<1>6. ASSUME NEW j, NEW k, journal' = dispatched(j, k), j \in Journals, j.committed = journal.committed
      PROVE  journal'.committed = journal.committed
  BY <1>6 DEF dispatched, Journals
<1>7. CASE GenerationFails
  <2>. DEFINE j == [journal EXCEPT !.active = 0, !.rotation = "none"]
  <2>1. j \in Journals /\ j.committed = journal.committed
    <3>1. 0 \in 0..Generations /\ "none" \in {"none", "begun", "sealed"}
      BY <1>1
    <3>. QED BY <1>1, <3>1 DEF Journals
  <2>2. journal' = dispatched(j, journal.active) /\ UNCHANGED <<att, conn, page>>
    BY <1>7 DEF GenerationFails
  <2>. HIDE DEF j
  <2>. QED BY <1>6, <2>1, <2>2 DEF Moves
<1>8. ASSUME NEW g \in Gen, EndedClosesSubscribers(g)
      PROVE  Moves(journal.committed, journal'.committed) /\ UNCHANGED <<att, conn, page>>
  <2>1. journal' = dispatched(journal, g) /\ UNCHANGED <<att, conn, page>>
    BY <1>8 DEF EndedClosesSubscribers
  <2>. QED BY <1>1, <1>6, <2>1 DEF Moves
<1>9. ASSUME NEW g \in Gen, Publish(g)
      PROVE  Moves(journal.committed, journal'.committed) /\ UNCHANGED <<att, conn, page>>
  <2>1. journal' = [journal EXCEPT !.published[g] = journal.published[g] + 1] /\ UNCHANGED <<att, conn, page>>
    BY <1>9 DEF Publish
  <2>2. journal'.committed = journal.committed
    BY <1>1, <2>1 DEF Journals
  <2>. QED BY <2>1, <2>2 DEF Moves
<1>10. CASE RotationBegins \/ RotationSeals \/ RotationAborts \/ GenerationEnds
  <2>1. journal'.committed = journal.committed /\ UNCHANGED <<att, conn, page>>
    BY <1>1, <1>10 DEF RotationBegins, RotationSeals, RotationAborts, GenerationEnds, Journals
  <2>. QED BY <2>1 DEF Moves
<1>. QED BY <1>2, <1>4, <1>5, <1>7, <1>8, <1>9, <1>10 DEF Journal

(***************************************************************************)
(* The order of a tail.                                                    *)
(***************************************************************************)

\* A subscriber that is further on, in order.
After(x, s, t) == t.key = s.key /\ (Ordered(x, s) => Ordered(x, t))

\* Where a writer's frames end is a record.
LEMMA GoalIs ==
  ASSUME NEW x \in Atts
  PROVE  goal(x) \in 0..LastRecord /\ goal(x) \in Nat
<1>1. x.to \in 0..LastRecord /\ x.delivered \in Cursor /\ LastRecord \in Nat
  BY SizesAre DEF Atts
<1>. QED BY <1>1 DEF goal, Cursor

\* A closed subscriber has nothing left to be in order.
LEMMA ClosedAfter ==
  ASSUME NEW x, NEW s \in Subs, NEW r
  PROVE  After(x, s, closed(s, r))
<1>1. CASE ~s.registered
  BY <1>1 DEF closed, After
<1>2. CASE s.registered
  <2>1. closed(s, r).key = s.key /\ closed(s, r).queue = <<>> /\ ~closed(s, r).registered
    BY <1>2 DEF closed, removed, Subs
  <2>2. PICK t : t = closed(s, r)
    OBVIOUS
  <2>3. Len(t.queue) = 0
    BY <2>1, <2>2
  <2>4. Ordered(x, t)
    BY <2>1, <2>2, <2>3 DEF Ordered
  <2>. QED BY <2>1, <2>2, <2>4 DEF After
<1>. QED BY <1>1, <1>2

\* An event that follows is queued in order.
LEMMA QueuedAfter ==
  ASSUME NEW x \in Atts, NEW s \in Subs, s.registered, ~s.catchingUp, NEW seq \in 1..LastRecord, s.cursor = seq - 1
  PROVE  After(x, s, [s EXCEPT !.queue = Append(@, seq), !.cursor = seq])
<1>. DEFINE t == [s EXCEPT !.queue = Append(@, seq), !.cursor = seq]
            q == s.queue
            u == Append(q, seq)
            S == 1..LastRecord
<1>1. t.key = s.key /\ t.queue = u /\ t.cursor = seq /\ t.registered /\ ~t.catchingUp
  BY DEF Subs
<1>2. q \in Seq(S) /\ seq \in S
  BY DEF Subs, Queues
<1>. HIDE DEF S
<1>3. /\ Len(q) \in Nat /\ Len(u) = Len(q) + 1 /\ u # <<>> /\ u[Len(q) + 1] = seq
      /\ \A i \in 1..Len(q) : u[i] = q[i]
  BY <1>2, Appended
<1>. HIDE DEF t, u
<1>4. goal(x) \in Nat /\ seq \in Nat
  BY GoalIs, SizesAre
<1>5. ASSUME Ordered(x, s) PROVE Ordered(x, t)
  <2>1. s.cursor = goal(x) + Len(q) /\ ~(x.pc \in {"again", "round"}) /\ \A i \in 1..Len(q) : q[i] = goal(x) + i
    BY <1>5 DEF Ordered
  <2>2. seq = goal(x) + (Len(q) + 1)
    <3>1. s.cursor = goal(x) + Len(q) /\ s.cursor = seq - 1 /\ Len(q) \in Nat
      BY <1>3, <2>1
    <3>2. PICK k : k = goal(x)
      OBVIOUS
    <3>3. PICK m : m = Len(q)
      OBVIOUS
    <3>. QED BY <1>4, <3>1, <3>2, <3>3
  <2>3. ASSUME NEW i \in 1..Len(u) PROVE u[i] = goal(x) + i
    <3>1. i \in 1..Len(q) \/ i = Len(q) + 1
      BY <1>3
    <3>. QED BY <1>3, <2>1, <2>2, <3>1
  <2>. QED BY <1>1, <1>3, <2>1, <2>2, <2>3 DEF Ordered
<1>. QED BY <1>1, <1>5 DEF After, t

\* A subscriber that falls behind is in order as far as it got.
LEMMA BehindAfter ==
  ASSUME NEW x, NEW s \in Subs, s.registered, ~s.catchingUp
  PROVE  After(x, s, [s EXCEPT !.catchingUp = TRUE])
<1>. DEFINE t == [s EXCEPT !.catchingUp = TRUE]
<1>1. t.key = s.key /\ t.queue = s.queue /\ t.cursor = s.cursor /\ t.registered /\ t.catchingUp
  BY DEF Subs
<1>. HIDE DEF t
<1>2. Ordered(x, s) => Ordered(x, t)
  BY <1>1 DEF Ordered
<1>. QED BY <1>1, <1>2 DEF After, t

\* The turns of a publication, from the subscribers u on.
Turns(y, u, g, seq) ==
  {st \in [sub : [A -> Subs], lease : [A -> Leases], of : {g}, seq : {seq}] :
     \A a \in A : After(y[a], u[a], st.sub[a])}

\* One turn.
LEMMA TurnIs ==
  ASSUME NEW y \in [A -> Atts], NEW u, NEW g, NEW seq \in 1..LastRecord,
         NEW st \in Turns(y, u, g, seq), NEW a \in A, offered(st, a).lease \in [A -> Leases]
  PROVE  offered(st, a) \in Turns(y, u, g, seq)
<1>. DEFINE s == st.sub[a]
            l == st.lease[a]
            n == offered(st, a)
            skipped == ~s.registered \/ s.key # g \/ s.catchingUp \/ s.cursor >= seq
            gap == s.cursor # seq - 1
            full == l.events + eventBytes[seq] > TailCap
                      \/ floored(l.events + eventBytes[seq]) - floored(l.events) > ReaderCap - bytesOf(st.lease)
            lagged == closed(s, "subscriber_lagged")
            behind == [s EXCEPT !.catchingUp = TRUE]
            given == [s EXCEPT !.queue = Append(@, seq), !.cursor = seq]
<1>. SUFFICES n \in Turns(y, u, g, seq)
  OBVIOUS
<1>1. /\ st.of = g /\ st.seq = seq /\ s \in Subs /\ st.sub \in [A -> Subs] /\ y[a] \in Atts
      /\ st \in [sub : [A -> Subs], lease : [A -> Leases], of : {g}, seq : {seq}]
      /\ \A b \in A : After(y[b], u[b], st.sub[b])
  BY DEF Turns
<1>2. \E m : n = IF skipped THEN st
                 ELSE IF gap THEN [st EXCEPT !.sub[a] = lagged, !.lease[a] = m]
                 ELSE IF full THEN [st EXCEPT !.sub[a] = behind, !.lease[a] = m]
                 ELSE [st EXCEPT !.sub[a] = given, !.lease[a] = m]
  <2>1. CASE skipped
    BY <1>1, <2>1 DEF offered
  <2>2. CASE ~skipped /\ gap
    BY <1>1, <2>2 DEF offered
  <2>3. CASE ~skipped /\ ~gap /\ full
    BY <1>1, <2>3 DEF offered
  <2>4. CASE ~skipped /\ ~gap /\ ~full
    BY <1>1, <2>4 DEF offered
  <2>. QED BY <2>1, <2>2, <2>3, <2>4
<1>3. ASSUME NEW t \in Subs, NEW m, n = [st EXCEPT !.sub[a] = t, !.lease[a] = m], After(y[a], s, t)
      PROVE  n \in Turns(y, u, g, seq)
  <2>. DEFINE v == [st.sub EXCEPT ![a] = t]
              k == n.lease
  <2>1. v \in [A -> Subs] /\ v[a] = t /\ \A b \in A \ {a} : v[b] = st.sub[b]
    BY <1>1
  <2>2. n = [st EXCEPT !.sub = v, !.lease = k]
    BY <1>1, <1>3
  <2>3. \A b \in A : After(y[b], u[b], v[b])
    <3>1. After(y[a], u[a], t)
      BY <1>1, <1>3 DEF After
    <3>. QED BY <1>1, <2>1, <3>1
  <2>4. k \in [A -> Leases]
    OBVIOUS
  <2>. HIDE DEF v, k
  <2>5. n \in [sub : [A -> Subs], lease : [A -> Leases], of : {g}, seq : {seq}] /\ n.sub = v
    BY <1>1, <2>1, <2>2, <2>4
  <2>. QED BY <2>3, <2>5 DEF Turns
<1>4. CASE skipped
  <2>1. n = st
    BY <1>2, <1>4
  <2>. QED BY <2>1
<1>5. CASE ~skipped /\ gap
  <2>1. PICK m : n = [st EXCEPT !.sub[a] = lagged, !.lease[a] = m]
    BY <1>2, <1>5
  <2>2. lagged \in Subs /\ After(y[a], s, lagged)
    <3>1. "subscriber_lagged" \in Reason
      BY DEF Reason
    <3>2. After(y[a], s, lagged)
      BY <1>1, ClosedAfter
    <3>3. lagged \in Subs
      <4>1. <<>> \in Queues
        BY DEF Queues
      <4>. QED BY <1>1, <3>1, <4>1 DEF closed, removed, Subs
    <3>. QED BY <3>2, <3>3
  <2>3. lagged \in Subs => (n = [st EXCEPT !.sub[a] = lagged, !.lease[a] = m] /\ After(y[a], s, lagged) => n \in Turns(y, u, g, seq))
    BY <1>3
  <2>. HIDE DEF n, lagged
  <2>. QED BY <2>1, <2>2, <2>3
<1>6. CASE ~skipped /\ ~gap /\ full
  <2>1. PICK m : n = [st EXCEPT !.sub[a] = behind, !.lease[a] = m]
    BY <1>2, <1>6
  <2>2. behind \in Subs
    BY <1>1 DEF Subs
  <2>3. After(y[a], s, behind)
    BY <1>1, <1>6, BehindAfter
  <2>4. behind \in Subs => (n = [st EXCEPT !.sub[a] = behind, !.lease[a] = m] /\ After(y[a], s, behind) => n \in Turns(y, u, g, seq))
    BY <1>3
  <2>. HIDE DEF n, behind
  <2>. QED BY <2>1, <2>2, <2>3, <2>4
<1>7. CASE ~skipped /\ ~gap /\ ~full
  <2>1. PICK m : n = [st EXCEPT !.sub[a] = given, !.lease[a] = m]
    BY <1>2, <1>7
  <2>2. given \in Subs
    <3>. DEFINE q == Append(s.queue, seq) S == 1..LastRecord
    <3>1. s.queue \in Seq(S) /\ seq \in S /\ seq \in 0..LastRecord
      BY <1>1, SizesAre DEF Subs, Queues
    <3>2. q \in Seq(S)
      <4>. HIDE DEF S
      <4>. QED BY <3>1
    <3>3. q \in Queues
      BY <3>2 DEF Queues
    <3>. HIDE DEF q
    <3>. QED BY <1>1, <3>1, <3>3 DEF Subs, q
  <2>3. After(y[a], s, given)
    BY <1>1, <1>7, QueuedAfter
  <2>4. given \in Subs => (n = [st EXCEPT !.sub[a] = given, !.lease[a] = m] /\ After(y[a], s, given) => n \in Turns(y, u, g, seq))
    BY <1>3
  <2>. HIDE DEF n, given
  <2>. QED BY <2>1, <2>2, <2>3, <2>4
<1>. QED BY <1>4, <1>5, <1>6, <1>7

\* All the turns of a publication, in whatever order.
LEMMA TurnsAll ==
  ASSUME NEW y \in [A -> Atts], NEW c \in Counts, NEW g \in Gen, NEW seq \in 1..LastRecord, seq <= c[g],
         NEW u \in [A -> Subs], NEW st \in Offers(y, c, g, seq), st.sub = u, NEW order \in [A -> A]
  PROVE  FoldLeft(offered, st, order) \in Turns(y, u, g, seq)
<1>1. FoldLeft(offered, st, order) = O!fold(st, order)
  BY DEF O!fold, FoldLeft, MapThenFoldSet, Max, O!last
<1>2. order \in Seq(A)
  <2>1. Attachments \in Nat /\ A = 1..Attachments
    BY ConstantsAre DEF A
  <2>. DEFINE S == A
  <2>2. order \in [1..Attachments -> S]
    BY <2>1
  <2>. HIDE DEF S
  <2>3. order \in Seq(S)
    BY <2>1, <2>2
  <2>. QED BY <2>3 DEF S
<1>. DEFINE V == {v \in Offers(y, c, g, seq) : v \in Turns(y, u, g, seq)}
<1>3. \A v \in V, a \in A : offered(v, a) \in V
  <2>. SUFFICES ASSUME NEW v \in V, NEW a \in A PROVE offered(v, a) \in V
    OBVIOUS
  <2>1. v \in Offers(y, c, g, seq) /\ v \in Turns(y, u, g, seq)
    OBVIOUS
  <2>2. offered(v, a) \in Offers(y, c, g, seq)
    BY <2>1, OfferedIs
  <2>3. offered(v, a).lease \in [A -> Leases]
    BY <2>2 DEF Offers
  <2>4. offered(v, a) \in Turns(y, u, g, seq)
    BY <2>1, <2>3, TurnIs
  <2>. QED BY <2>2, <2>4
<1>4. st \in V
  <2>1. \A a \in A : After(y[a], u[a], st.sub[a])
    BY DEF After
  <2>2. st \in Turns(y, u, g, seq)
    BY <2>1 DEF Turns, Offers
  <2>. QED BY <2>2
<1>5. O!fold(st, order) \in V
  <2>. HIDE DEF V
  <2>. QED BY <1>2, <1>3, <1>4, O!FoldStays
<1>. QED BY <1>1, <1>5

\* A publication moves every subscriber on in order.
LEMMA PublishAfter ==
  ASSUME ReadersInv, NEW g \in Gen, Publish(g)
  PROVE  \A a \in A : After(att[a], sub[a], sub'[a])
<1>. DEFINE seq == journal.published[g] + 1
            c == journal.committed
            st == [sub |-> sub, lease |-> lease, of |-> g, seq |-> seq]
<1>1. /\ sub \in [A -> Subs] /\ att \in [A -> Atts] /\ lease \in [A -> Leases] /\ journal \in Journals
      /\ c \in Counts /\ \A a \in A : Charged(att[a], sub[a], lease[a]) /\ Placing(c, att[a], sub[a])
      /\ budget <= ReaderCap
  BY DEF ReadersInv, Shapes, Journals
<1>2. seq \in 1..LastRecord /\ seq <= c[g]
  <2>1. journal.published[g] \in 0..LastRecord /\ c[g] \in 0..LastRecord /\ LastRecord \in Nat
    BY JournalIs, ConstantsAre
  <2>2. journal.published[g] + 1 <= journal.committed[g]
    BY DEF Publish
  <2>. QED BY <2>1, <2>2
<1>3. PICK order \in [A -> A] : sub' = FoldLeft(offered, st, order).sub
  <2>1. \E order \in {o \in [A -> A] : IsInjective(o)} : sub' = FoldLeft(offered, st, order).sub
    BY DEF Publish
  <2>. QED BY <2>1
<1>4. st \in Offers(att, c, g, seq) /\ st.sub = sub
  <2>. HIDE DEF seq
  <2>1. st \in [sub : [A -> Subs], lease : [A -> Leases], of : {g}, seq : {seq}]
    BY <1>1
  <2>2. \A a \in A : Charged(att[a], st.sub[a], st.lease[a]) /\ Placing(c, att[a], st.sub[a])
    BY <1>1
  <2>3. bytesOf(st.lease) <= ReaderCap
    BY <1>1 DEF budget
  <2>. QED BY <2>1, <2>2, <2>3 DEF Offers
<1>. HIDE DEF seq, c, st
<1>5. FoldLeft(offered, st, order) \in Turns(att, sub, g, seq)
  BY <1>1, <1>2, <1>4, TurnsAll
<1>. QED BY <1>3, <1>5 DEF Turns

\* Closing subscribers leaves every one of them in order.
LEMMA ClosingAfter ==
  ASSUME ReadersInv, NEW k, NEW r, CloseSubscribers(k, r)
  PROVE  \A a \in A : After(att[a], sub[a], sub'[a])
<1>. SUFFICES ASSUME NEW a \in A PROVE After(att[a], sub[a], sub'[a])
  OBVIOUS
<1>1. sub[a] \in Subs
  BY ReaderIs
<1>2. sub'[a] = IF sub[a].key = k THEN closed(sub[a], r) ELSE sub[a]
  BY DEF CloseSubscribers
<1>3. After(att[a], sub[a], sub[a])
  BY DEF After
<1>. QED BY <1>1, <1>2, <1>3, ClosedAfter

\* A step of the journal keeps the view.
LEMMA JournalKeepsView ==
  ASSUME ReadersInv, ReadersInv', ViewInv, Journal
  PROVE  ViewInv'
<1>1. journal.committed \in Counts /\ journal'.committed \in Counts
  BY DEF ReadersInv, Shapes, Journals
<1>2. Moves(journal.committed, journal'.committed) /\ UNCHANGED <<att, conn, page>>
  BY JournalMoves
<1>3. Grown(journal.committed, journal'.committed)
  BY <1>1, <1>2, MovesGrow
<1>4. UNCHANGED sub => \A a \in A : After(att[a], sub[a], sub'[a])
  BY DEF After
<1>5. \A a \in A : After(att[a], sub[a], sub'[a])
  <2>1. CASE \E g \in Gen : Publish(g)
    BY <2>1, PublishAfter
  <2>2. CASE \E g \in Gen : EndedClosesSubscribers(g)
    BY <2>2, ClosingAfter DEF EndedClosesSubscribers
  <2>3. CASE RotationSwaps
    BY <2>3, ClosingAfter DEF RotationSwaps
  <2>4. CASE GenerationFails
    BY <2>4, ClosingAfter DEF GenerationFails
  <2>5. CASE Commit \/ RotationBegins \/ RotationSeals \/ RotationAborts \/ GenerationStarts \/ GenerationEnds
    BY <1>4, <2>5 DEF Commit, RotationBegins, RotationSeals, RotationAborts, GenerationStarts, GenerationEnds
  <2>. QED BY <2>1, <2>2, <2>3, <2>4, <2>5 DEF Journal
<1>. QED BY <1>2, <1>3, <1>5, JournalView DEF After

(***************************************************************************)
(* Steps of a writer.                                                      *)
(***************************************************************************)

\* What is known of a writer whose connection is open.
LEMMA OpenIs ==
  ASSUME ReadersInv, ViewInv, NEW a \in A, conn[a].open
  PROVE  /\ a = page.generation /\ page.open
         /\ Linked(att[a], sub[a], page, conn[a].wire, journal.committed)
         /\ Wired(page, conn[a].wire, journal.committed)
<1>1. a = page.generation /\ page.open
  BY DEF ViewInv, Apart
<1>. QED BY <1>1 DEF ViewInv, PageInv

\* The values an attachment starts and ends with offer nothing.
LEMMA NothingOffered ==
  /\ Known(Idle.resume.at) /\ Known(Stopped.resume.at) /\ Known(NoPoint.at)
  /\ Idle.resume = NoPoint /\ Stopped.resume = NoPoint
  /\ \A fence : Known([Idle EXCEPT !.pc = "ending", !.closing = TRUE, !.fence = fence].resume.at)
<1>1. Known(Origin)
  <2>1. 0 \in 0..N /\ at(0) = Origin
    BY Bounds DEF at
  <2>. QED BY <2>1 DEF Known
<1>2. NoPoint.at = Origin
  BY DEF NoPoint
<1>3. Idle.resume = NoPoint /\ Stopped.resume = NoPoint
  BY DEF Idle, Stopped
<1>4. \A fence : [Idle EXCEPT !.pc = "ending", !.closing = TRUE, !.fence = fence].resume = NoPoint
  BY DEF Idle
<1>. QED BY <1>1, <1>2, <1>3, <1>4

\* A step of one writer keeps the view if what the page can still read is a way on for
\* it, and if the writer goes on from there as long as its connection takes frames.
LEMMA WriterView ==
  ASSUME ReadersInv, ViewInv, NEW a \in A, NEW x, NEW s, NEW k,
         att' = [att EXCEPT ![a] = x], sub' = [sub EXCEPT ![a] = s], conn' = [conn EXCEPT ![a] = k],
         UNCHANGED page, journal'.committed = journal.committed, Known(x.resume.at),
         k.wire = conn[a].wire \/ (conn[a].open /\ Wired(page, k.wire, journal.committed)),
         k.open => conn[a].open /\ Linked(x, s, page, k.wire, journal.committed)
  PROVE  ViewInv'
<1>1. /\ att'[a] = x /\ sub'[a] = s /\ conn'[a] = k
      /\ \A b \in A \ {a} : att'[b] = att[b] /\ sub'[b] = sub[b] /\ conn'[b] = conn[b]
  BY DEF ReadersInv, Shapes
<1>2. Offered'
  <2>1. \A b \in A : Known(att'[b].resume.at)
    BY <1>1 DEF ViewInv, Offered
  <2>. QED BY <2>1 DEF ViewInv, Offered
<1>3. Apart'
  <2>1. ASSUME NEW b \in A, b # page.generation \/ ~page.open
        PROVE  conn'[b].wire = <<>> /\ ~conn'[b].open
    <3>1. conn[b].wire = <<>> /\ ~conn[b].open
      BY <2>1 DEF ViewInv, Apart
    <3>2. CASE b = a
      BY <1>1, <3>1, <3>2
    <3>. QED BY <1>1, <3>1, <3>2
  <2>. QED BY <2>1 DEF Apart
<1>4. page.open => Wired(page, conn'[page.generation].wire, journal.committed)
  <2>1. ASSUME page.open PROVE page.generation \in A
    <3>1. page.generation \in 0..Attachments /\ page.generation # 0
      BY <2>1 DEF ReadersInv, Shapes, Pages, Paged
    <3>. QED BY <3>1, ConstantsAre DEF A
  <2>2. page.open => Wired(page, conn[page.generation].wire, journal.committed)
    BY DEF ViewInv, PageInv
  <2>3. CASE a = page.generation
    BY <1>1, <2>2, <2>3
  <2>4. CASE a # page.generation
    BY <1>1, <2>1, <2>2, <2>4
  <2>. QED BY <2>3, <2>4
<1>5. PageInv'
  BY <1>4 DEF ViewInv, PageInv
<1>6. \A b \in A : conn'[b].open => Linked(att'[b], sub'[b], page, conn'[b].wire, journal.committed)
  BY <1>1 DEF ViewInv
<1>. QED BY <1>2, <1>3, <1>5, <1>6 DEF ViewInv

\* The same for a step that sends nothing and hangs nothing up.
LEMMA SilentView ==
  ASSUME ReadersInv, ViewInv, NEW a \in A, NEW x, NEW s,
         att' = [att EXCEPT ![a] = x], sub' = [sub EXCEPT ![a] = s],
         UNCHANGED <<conn, page>>, journal'.committed = journal.committed, Known(x.resume.at),
         conn[a].open => Linked(x, s, page, conn[a].wire, journal.committed)
  PROVE  ViewInv'
<1>1. conn' = [conn EXCEPT ![a] = conn[a]]
  BY ReaderIs
<1>2. PICK k : k = conn[a]
  OBVIOUS
<1>3. conn' = [conn EXCEPT ![a] = k] /\ k.wire = conn[a].wire
      /\ (k.open => conn[a].open /\ Linked(x, s, page, k.wire, journal.committed))
  BY <1>1, <1>2
<1>. QED BY <1>3, WriterView

\* A step after which the connection takes nothing more, and that sends nothing.
LEMMA ShutView ==
  ASSUME ReadersInv, ViewInv, NEW a \in A, NEW x, NEW s, NEW k,
         att' = [att EXCEPT ![a] = x], sub' = [sub EXCEPT ![a] = s], conn' = [conn EXCEPT ![a] = k],
         UNCHANGED page, journal'.committed = journal.committed, Known(x.resume.at),
         k.wire = conn[a].wire, ~k.open
  PROVE  ViewInv'
BY WriterView

\* Hanging up leaves the frames on the way.
LEMMA HangsUpIs ==
  ASSUME ReadersInv, NEW a \in A, hangsUp(a)
  PROVE  LET k == [conn[a] EXCEPT !.open = FALSE]
         IN conn' = [conn EXCEPT ![a] = k] /\ k.wire = conn[a].wire /\ ~k.open
<1>1. conn \in [A -> Conns] /\ conn[a] \in Conns
  BY DEF ReadersInv, Shapes
<1>2. conn' = [conn EXCEPT ![a].open = FALSE]
  BY DEF hangsUp
<1>3. conn' = [conn EXCEPT ![a] = [conn[a] EXCEPT !.open = FALSE]]
  BY <1>1, <1>2
<1>. QED BY <1>1, <1>3 DEF Conns

\* A writer that has stopped writes nothing more.
LEMMA StoppedView ==
  ASSUME NEW s, NEW p, NEW w, NEW c
  PROVE  Linked(Stopped, s, p, w, c)
BY StoppedIs DEF Linked, Openings, Following

\* A step that stops the writer, whatever becomes of its subscriber and its lease.
LEMMA StopsView ==
  ASSUME ReadersInv, ViewInv, NEW a \in A, stops(a), NEW s, sub' = [sub EXCEPT ![a] = s],
         hangsUp(a) \/ UNCHANGED conn, UNCHANGED page, journal'.committed = journal.committed
  PROVE  ViewInv'
<1>1. att' = [att EXCEPT ![a] = Stopped] /\ Known(Stopped.resume.at)
  BY NothingOffered DEF stops
<1>2. CASE UNCHANGED conn
  <2>1. Linked(Stopped, s, page, conn[a].wire, journal.committed)
    BY StoppedView
  <2>. QED BY <1>1, <1>2, <2>1, SilentView
<1>3. CASE hangsUp(a)
  <2>1. PICK k : k = [conn[a] EXCEPT !.open = FALSE]
    OBVIOUS
  <2>2. conn' = [conn EXCEPT ![a] = k] /\ k.wire = conn[a].wire /\ ~k.open
    BY <1>3, <2>1, HangsUpIs
  <2>. QED BY <1>1, <2>2, ShutView
<1>. QED BY <1>2, <1>3

\* A writer whose flags alone change goes on as before.
LEMMA LinkedSame ==
  ASSUME NEW x, NEW y, NEW s, NEW p, NEW w, NEW c, Linked(x, s, p, w, c),
         y.pc = x.pc, at_(y, x), y.ready = x.ready
  PROVE  Linked(y, s, p, w, c)
<1>1. /\ y.pc = x.pc /\ y.resume = x.resume /\ y.key = x.key /\ y.from = x.from /\ y.to = x.to /\ y.out = x.out
      /\ y.delivered = x.delivered /\ y.ready = x.ready
  BY DEF at_
<1>2. goal(y) = goal(x)
  BY <1>1 DEF goal
<1>3. (Ordered(x, s) <=> Ordered(y, s)) /\ (\A k : Left(x.out, k, x) <=> Left(y.out, k, y))
      /\ (\A k : Left(Tail(x.out), k, x) <=> Left(Tail(y.out), k, y))
  BY <1>1, <1>2 DEF Ordered, Left
<1>4. Opens(x, p, w) => Opens(y, p, w)
  BY <1>1 DEF Opens
<1>5. Prepares(x, s, p, w, c) => Prepares(y, s, p, w, c)
  BY <1>1, <1>3 DEF Prepares
<1>6. Waits(x, s, p, w, c) => Waits(y, s, p, w, c)
  BY <1>1, <1>3 DEF Waits
<1>7. Starts(x, s, p, w, c) => Starts(y, s, p, w, c)
  BY <1>1, <1>3 DEF Starts
<1>8. Follows(x, s, p, w, c) => Follows(y, s, p, w, c)
  BY <1>1, <1>3 DEF Follows
<1>. QED BY <1>1, <1>4, <1>5, <1>6, <1>7, <1>8 DEF Linked

\* A writer that only goes to another place.
LEMMA GoesIs ==
  ASSUME ReadersInv, NEW a \in A, NEW pc \in Where, goes(a, pc)
  PROVE  LET y == [att[a] EXCEPT !.pc = pc]
         IN att' = [att EXCEPT ![a] = y] /\ y.pc = pc /\ at_(y, att[a]) /\ y.ready = att[a].ready
<1>1. att \in [A -> Atts] /\ att[a] \in Atts
  BY DEF ReadersInv, Shapes
<1>2. att' = [att EXCEPT ![a] = [att[a] EXCEPT !.pc = pc]]
  BY <1>1 DEF goes
<1>. QED BY <1>1, <1>2, Goes DEF Atts

\* A writer that goes to another place before its PREPARE.
LEMMA OpeningView ==
  ASSUME ReadersInv, ViewInv, NEW a \in A, att[a].pc \in Openings, NEW y, y.pc \in Openings \ {"holding"},
         y.resume = att[a].resume, y.ready = att[a].ready,
         att' = [att EXCEPT ![a] = y], UNCHANGED <<sub, conn, page>>, journal'.committed = journal.committed
  PROVE  ViewInv'
<1>1. Known(y.resume.at)
  BY DEF ViewInv, Offered
<1>2. ASSUME conn[a].open
      PROVE  Linked(y, sub[a], page, conn[a].wire, journal.committed)
  <2>1. Opens(att[a], page, conn[a].wire)
    BY <1>2, OpenIs DEF Linked
  <2>2. Opens(y, page, conn[a].wire)
    BY <2>1 DEF Opens
  <2>. QED BY <2>2 DEF Linked, Openings, Following
<1>3. sub' = [sub EXCEPT ![a] = sub[a]]
  BY ReaderIs
<1>. QED BY <1>1, <1>2, <1>3, SilentView

\* The same, for an action that says only that.
LEMMA OpeningGoes ==
  ASSUME ReadersInv, ViewInv, NEW a \in A, att[a].pc \in Openings, NEW pc \in Openings \ {"holding"},
         goes(a, pc), UNCHANGED <<sub, conn, page>>, journal'.committed = journal.committed
  PROVE  ViewInv'
<1>1. pc \in Where
  BY DEF Openings, Where
<1>2. PICK y : y = [att[a] EXCEPT !.pc = pc]
  OBVIOUS
<1>3. att' = [att EXCEPT ![a] = y] /\ y.pc = pc /\ y.resume = att[a].resume /\ y.ready = att[a].ready
  BY <1>1, <1>2, GoesIs DEF at_
<1>. QED BY <1>3, OpeningView

\* A step that fails to open.
LEMMA FailsView ==
  ASSUME ReadersInv, ViewInv, NEW a \in A, OpenFails(a), UNCHANGED <<sub, page>>,
         journal'.committed = journal.committed
  PROVE  ViewInv'
<1>1. sub' = [sub EXCEPT ![a] = sub[a]]
  BY ReaderIs
<1>. QED BY <1>1, StopsView DEF OpenFails

\* A lease that is acquired.
LEMMA AttachAcquiresView ==
  ASSUME ReadersInv, ViewInv, NEW a \in A, AttachAcquires(a)
  PROVE  ViewInv'
<1>1. /\ att[a].pc = "attaching" /\ UNCHANGED <<journal, sub, page>>
      /\ (goes(a, "opening") /\ UNCHANGED conn) \/ (stops(a) /\ hangsUp(a))
  BY DEF AttachAcquires
<1>2. "attaching" \in Openings /\ "opening" \in Openings \ {"holding"}
  BY DEF Openings
<1>3. CASE goes(a, "opening") /\ UNCHANGED conn
  BY <1>1, <1>2, <1>3, OpeningGoes
<1>4. CASE stops(a) /\ hangsUp(a)
  BY <1>1, <1>4, FailsView DEF OpenFails
<1>. QED BY <1>1, <1>3, <1>4

\* A key that is resolved.
LEMMA OpenResolvesView ==
  ASSUME ReadersInv, ViewInv, NEW a \in A, OpenResolves(a)
  PROVE  ViewInv'
<1>1. att \in [A -> Atts] /\ att[a] \in Atts
  BY DEF ReadersInv, Shapes
<1>2. att[a].pc = "opening" /\ UNCHANGED <<journal, sub, page>>
  BY DEF OpenResolves
<1>3. CASE OpenFails(a)
  BY <1>2, <1>3, FailsView
<1>4. CASE ~OpenFails(a)
  <2>. DEFINE y == [att[a] EXCEPT !.key = journal.active, !.tries = @ + 1, !.pc = "reading"]
  <2>1. att' = [att EXCEPT ![a].key = journal.active, ![a].tries = @ + 1, ![a].pc = "reading"] /\ UNCHANGED conn
    BY <1>4 DEF OpenResolves
  <2>2. att' = [att EXCEPT ![a] = y]
    BY <1>1, <2>1
  <2>3. y.pc = "reading" /\ y.resume = att[a].resume /\ y.ready = att[a].ready
    BY <1>1 DEF Atts
  <2>4. att[a].pc \in Openings /\ y.pc \in Openings \ {"holding"}
    BY <1>2, <2>3 DEF Openings
  <2>. HIDE DEF y
  <2>. QED BY <1>2, <2>1, <2>2, <2>3, <2>4, OpeningView
<1>. QED BY <1>3, <1>4

\* A snapshot that is read, or refused.
LEMMA OpenReadsView ==
  ASSUME ReadersInv, ViewInv, NEW a \in A, OpenReads(a)
  PROVE  ViewInv'
<1>. DEFINE g == att[a].key
            to == journal.committed[g]
            from == resumeFrom(att[a].resume, g, to)
<1>1. att \in [A -> Atts] /\ att[a] \in Atts /\ journal \in Journals
  BY DEF ReadersInv, Shapes
<1>2. /\ att[a].pc = "reading" /\ journal' = [journal EXCEPT !.lock = a] /\ UNCHANGED <<sub, conn, page>>
      /\ \/ att' = [att EXCEPT ![a].pc = "holding", ![a].from = from, ![a].to = to]
         \/ goes(a, "refused")
  BY DEF OpenReads
<1>3. journal'.committed = journal.committed /\ att[a].pc \in Openings
  BY <1>1, <1>2 DEF Journals, Openings
<1>4. CASE goes(a, "refused")
  <2>1. "refused" \in Openings \ {"holding"}
    BY DEF Openings
  <2>. QED BY <1>2, <1>3, <1>4, <2>1, OpeningGoes
<1>5. CASE att' = [att EXCEPT ![a].pc = "holding", ![a].from = from, ![a].to = to]
  <2>. DEFINE y == [att[a] EXCEPT !.pc = "holding", !.from = from, !.to = to]
  <2>1. att' = [att EXCEPT ![a] = y]
    BY <1>1, <1>5
  <2>2. /\ y.pc = "holding" /\ y.resume = att[a].resume /\ y.ready = att[a].ready /\ y.key = g
        /\ y.from = from /\ y.to = to
    BY <1>1 DEF Atts
  <2>3. Known(y.resume.at)
    BY <2>2 DEF ViewInv, Offered
  <2>. HIDE DEF y
  <2>4. ASSUME conn[a].open
        PROVE  Linked(y, sub[a], page, conn[a].wire, journal.committed)
    <3>1. Opens(att[a], page, conn[a].wire)
      BY <1>3, <2>4, OpenIs DEF Linked
    <3>2. Opens(y, page, conn[a].wire)
      BY <2>2, <3>1 DEF Opens
    <3>. QED BY <2>2, <3>2 DEF Linked, Openings, Following
  <2>5. sub' = [sub EXCEPT ![a] = sub[a]]
    BY <1>2, ReaderIs
  <2>. QED BY <1>2, <1>3, <2>1, <2>3, <2>4, <2>5, SilentView
<1>. QED BY <1>2, <1>4, <1>5

\* A refusal that is tried again, or not.
LEMMA OpenRefusedView ==
  ASSUME ReadersInv, ViewInv, NEW a \in A, OpenRefused(a)
  PROVE  ViewInv'
<1>1. journal \in Journals
  BY DEF ReadersInv, Shapes
<1>2. /\ att[a].pc = "refused" /\ journal' = [journal EXCEPT !.lock = 0] /\ UNCHANGED <<sub, page>>
      /\ (goes(a, "opening") /\ UNCHANGED conn) \/ OpenFails(a)
  BY DEF OpenRefused
<1>3. journal'.committed = journal.committed /\ att[a].pc \in Openings /\ "opening" \in Openings \ {"holding"}
  BY <1>1, <1>2 DEF Journals, Openings
<1>4. CASE goes(a, "opening") /\ UNCHANGED conn
  BY <1>2, <1>3, <1>4, OpeningGoes
<1>5. CASE OpenFails(a)
  BY <1>2, <1>3, <1>5, FailsView
<1>. QED BY <1>2, <1>4, <1>5

\* Where a snapshot begins.
LEMMA OpenedFrom ==
  ASSUME ReadersInv, NEW a \in A, att[a].pc = "holding", Known(att[a].resume.at),
         att[a].from = resumeFrom(att[a].resume, att[a].key, att[a].to)
  PROVE  \E k \in 0..N :
           /\ att[a].from = at(k) /\ k <= upto(att[a].to)
           /\ resumes(a) => att[a].resume.at = at(k)
           /\ ~resumes(a) => k = 0 /\ att[a].from.seq = 0
<1>1. att[a] \in Atts
  BY ReaderIs
<1>2. att[a].to \in 0..LastRecord /\ upto(att[a].to) \in Nat /\ 0 \in 0..N /\ at(0) = Origin /\ Origin.seq = 0
  BY <1>1, Bounds DEF Atts, at, Origin, cursor
<1>3. CASE resumes(a)
  <2>1. att[a].from = att[a].resume.at /\ att[a].resume.stream = att[a].key
    BY <1>3 DEF resumes
  <2>2. CASE validCursor(att[a].resume.at, att[a].to)
    <3>1. PICK k \in 0..N : att[a].resume.at = at(k)
      BY DEF Known
    <3>2. k <= upto(att[a].to)
      BY <1>2, <2>2, <3>1, AtValid
    <3>. QED BY <1>3, <2>1, <3>1, <3>2
  <2>3. CASE ~validCursor(att[a].resume.at, att[a].to)
    <3>1. att[a].from = Origin
      BY <2>3 DEF resumeFrom
    <3>2. 0 <= upto(att[a].to)
      BY <1>2
    <3>. QED BY <1>2, <1>3, <2>1, <3>1, <3>2
  <2>. QED BY <2>2, <2>3
<1>4. CASE ~resumes(a)
  <2>1. att[a].from = Origin
    BY <1>4 DEF resumeFrom, resumes
  <2>2. 0 <= upto(att[a].to)
    BY <1>2
  <2>. QED BY <1>2, <1>4, <2>1, <2>2
<1>. QED BY <1>3, <1>4

\* A first frame before the others.
LEMMA Prefixed ==
  ASSUME NEW S, NEW f \in S, NEW q \in Seq(S)
  PROVE  <<f>> \o q # <<>> /\ (<<f>> \o q)[1] = f /\ Tail(<<f>> \o q) = q
<1>. DEFINE t == <<f>> \o q
<1>1. /\ t \in Seq(S) /\ Len(q) \in Nat /\ Len(t) = Len(q) + 1 /\ t[1] = f
      /\ \A i \in 1..Len(q) : t[i + 1] = q[i]
  OBVIOUS
<1>. HIDE DEF t
<1>2. t # <<>>
  BY <1>1
<1>3. /\ Tail(t) \in Seq(S) /\ Len(Tail(t)) = Len(t) - 1
      /\ \A i \in 1..(Len(t) - 1) : Tail(t)[i] = t[i + 1]
  BY <1>1, <1>2, HeadTail
<1>4. Tail(t) = q
  <2>1. Len(Tail(t)) = Len(q) /\ \A i \in 1..Len(q) : Tail(t)[i] = q[i]
    BY <1>1, <1>3
  <2>2. PICK r : r = Tail(t)
    OBVIOUS
  <2>3. r \in Seq(S) /\ Len(r) = Len(q) /\ \A i \in 1..Len(r) : r[i] = q[i]
    BY <1>3, <2>1, <2>2
  <2>4. r = q
    BY <2>3, SeqEqual
  <2>. QED BY <2>2, <2>4
<1>. QED BY <1>1, <1>2, <1>4 DEF t

\* A PREPARE that is ready to be sent to the page, and the frames to follow it.
LEMMA RegisteredIs ==
  ASSUME ReadersInv, ViewInv, NEW a \in A, att[a].pc = "holding", conn[a].open
  PROVE  LET f == prepareFrame(a)
         IN /\ preparable(f, page, journal.committed) /\ f.stream = att[a].key
            /\ spans(frames(backlog(a)), ending(f), upto(att[a].to))
            /\ ending(f) \in Nat /\ ending(f) <= upto(att[a].to)
<1>1. att[a] \in Atts /\ Placing(journal.committed, att[a], sub[a])
  BY ReaderIs
<1>2. att[a].key \in Gen /\ att[a].to <= journal.committed[att[a].key] /\ att[a].to \in 0..LastRecord
  BY <1>1 DEF Placing, Atts
<1>3. Opens(att[a], page, conn[a].wire)
  BY OpenIs DEF Linked, Openings
<1>4. Known(att[a].resume.at) /\ att[a].resume = page.offer
      /\ att[a].from = resumeFrom(att[a].resume, att[a].key, att[a].to)
  BY <1>3 DEF Opens, ViewInv, Offered
<1>5. PICK k \in 0..N : /\ att[a].from = at(k) /\ k <= upto(att[a].to)
                        /\ resumes(a) => att[a].resume.at = at(k)
                        /\ ~resumes(a) => k = 0 /\ att[a].from.seq = 0
  BY <1>4, OpenedFrom
<1>. DEFINE f == prepareFrame(a)
            e == upto(att[a].to)
<1>6. /\ f.kind = "PREPARE" /\ f.stream = att[a].key /\ f.resumed = resumes(a)
      /\ f.geometry = geometryAt(att[a].from.seq)
      /\ carries(f) /\ begun(f) = k /\ outputs(f.atoms)
      /\ e \in Nat /\ ending(f) \in Nat /\ ending(f) <= e
      /\ spans(frames(backlog(a)), ending(f), e)
  BY <1>1, <1>2, <1>5, OpenedIs
<1>. HIDE DEF f
<1>7. replayable(f, journal.committed)
  <2>1. journal.committed[att[a].key] \in 0..LastRecord /\ LastRecord \in Nat
    BY <1>2, JournalIs, ConstantsAre
  <2>2. PICK m : m = journal.committed[att[a].key]
    OBVIOUS
  <2>3. upto(att[a].to) <= upto(m) /\ upto(m) \in Nat
    <3>1. m \in 0..LastRecord /\ att[a].to \in 0..m
      BY <1>2, <2>1, <2>2
    <3>. QED BY <3>1, UptoGrows, Bounds
  <2>4. ending(f) <= upto(journal.committed[f.stream])
    BY <1>6, <2>2, <2>3
  <2>. QED BY <1>2, <1>6, <2>4 DEF replayable
<1>8. f.resumed => begun(f) = consumed(page.offer.at)
  <2>1. consumed(at(k)) = k
    BY AtIs
  <2>. QED BY <1>4, <1>5, <1>6, <2>1
<1>9. ~f.resumed => begun(f) = 0 /\ f.geometry = 0
  <2>1. 0 \in 0..LastRecord
    BY ConstantsAre
  <2>2. geometryAt(0) = 0
    BY <2>1, GeometryIs
  <2>. QED BY <1>5, <1>6, <2>2
<1>. QED BY <1>6, <1>7, <1>8, <1>9 DEF preparable, f

\* An attachment that registers, or tries again, or fails.
LEMMA OpenRegistersView ==
  ASSUME ReadersInv, ViewInv, NEW a \in A, OpenRegisters(a)
  PROVE  ViewInv'
<1>. DEFINE g == att[a].key
            to == att[a].to
            q == <<prepareFrame(a)>> \o frames(backlog(a))
            x == [Idle EXCEPT !.pc = "preparing", !.delivered = cursor(to, endOf[to]), !.out = q]
            s == [NoSub EXCEPT !.key = g, !.cursor = to, !.catchingUp = TRUE, !.registered = TRUE]
<1>1. /\ att[a] \in Atts /\ journal \in Journals /\ Placing(journal.committed, att[a], sub[a])
      /\ att[a].pc = "holding" /\ journal' = [journal EXCEPT !.lock = 0] /\ UNCHANGED page
  BY ReaderIs DEF OpenRegisters
<1>2. journal'.committed = journal.committed /\ att[a].pc \in Openings /\ "opening" \in Openings \ {"holding"}
  BY <1>1 DEF Journals, Openings
<1>3. CASE goes(a, "opening") /\ UNCHANGED <<sub, conn>>
  BY <1>1, <1>2, <1>3, OpeningGoes
<1>4. CASE OpenFails(a) /\ UNCHANGED sub
  BY <1>1, <1>2, <1>4, FailsView
<1>5. CASE sub' = [sub EXCEPT ![a] = s] /\ att' = [att EXCEPT ![a] = x] /\ UNCHANGED conn
  <2>1. g \in Gen /\ to \in 0..LastRecord
    BY <1>1 DEF Placing, Atts
  <2>2. prepareFrame(a) \in Frame /\ frames(backlog(a)) \in Outs /\ q \in Outs
    BY <1>1, <2>1, OpenedTypes
  <2>3. q # <<>> /\ q[1] = prepareFrame(a) /\ Tail(q) = frames(backlog(a))
    BY <2>2, Prefixed DEF Outs
  <2>4. cursor(to, endOf[to]) \in Cursor /\ cursor(to, endOf[to]).seq = to
    <3>1. endOf[to] \in 0..endOf[LastRecord]
      BY <2>1, Bounds
    <3>. QED BY <2>1, <3>1 DEF cursor, Cursor
  <2>. HIDE DEF q, to
  <2>5. /\ x.pc = "preparing" /\ x.delivered.seq = to /\ x.out = q /\ x.to = 0 /\ ~x.ready
        /\ x.resume = Idle.resume
    <3>1. x.pc = "preparing" /\ x.delivered = cursor(to, endOf[to]) /\ x.out = q /\ x.to = 0 /\ ~x.ready
      BY <2>2, <2>4, PreparingIs
    <3>2. x.resume = Idle.resume
      BY DEF Idle
    <3>. QED BY <2>4, <3>1, <3>2
  <2>6. s.key = g /\ s.queue = <<>> /\ s.registered /\ s.catchingUp
    BY DEF NoSub
  <2>. HIDE DEF x, s
  <2>7. goal(x) = to
    BY <2>5 DEF goal
  <2>8. Ordered(x, s)
    <3>1. Len(s.queue) = 0
      BY <2>6
    <3>. QED BY <2>5, <2>6, <3>1 DEF Ordered
  <2>9. ASSUME conn[a].open
        PROVE  Linked(x, s, page, conn[a].wire, journal.committed)
    <3>1. Unprepared(page, conn[a].wire)
      BY <1>2, <2>9, OpenIs DEF Linked, Opens
    <3>2. /\ preparable(x.out[1], page, journal.committed) /\ x.out[1].stream = s.key
          /\ spans(Tail(x.out), ending(x.out[1]), upto(goal(x)))
          /\ ending(x.out[1]) \in Nat /\ ending(x.out[1]) <= upto(goal(x))
      BY <1>1, <2>3, <2>5, <2>6, <2>7, <2>9, RegisteredIs DEF to
    <3>3. Prepares(x, s, page, conn[a].wire, journal.committed)
      BY <2>3, <2>5, <2>8, <3>1, <3>2 DEF Prepares, Left
    <3>. QED BY <2>5, <3>3 DEF Linked, Openings, Following
  <2>10. Known(x.resume.at)
    BY <2>5, NothingOffered
  <2>. QED BY <1>1, <1>2, <1>5, <2>9, <2>10, SilentView
<1>. QED
  <2>1. (goes(a, "opening") /\ UNCHANGED <<sub, conn>>) \/ (OpenFails(a) /\ UNCHANGED sub)
        \/ (sub' = [sub EXCEPT ![a] = s] /\ att' = [att EXCEPT ![a] = x] /\ UNCHANGED conn)
    BY DEF OpenRegisters
  <2>. QED BY <1>3, <1>4, <1>5, <2>1

\* One more frame on the way.
LEMMA SendsIs ==
  ASSUME ReadersInv, NEW a \in A, NEW f \in Frame, sends(a, f)
  PROVE  LET k == [conn[a] EXCEPT !.wire = Append(@, f)]
         IN conn' = [conn EXCEPT ![a] = k] /\ k.wire = Append(conn[a].wire, f) /\ k.open = conn[a].open
            /\ conn[a].wire \in Outs
<1>1. conn \in [A -> Conns] /\ conn[a] \in Conns
  BY DEF ReadersInv, Shapes
<1>2. conn' = [conn EXCEPT ![a] = [conn[a] EXCEPT !.wire = Append(conn[a].wire, f)]]
  BY <1>1 DEF sends
<1>. QED BY <1>1, <1>2 DEF Conns

\* Where the frames on the way end, with one more.
LEMMA WireGrows ==
  ASSUME NEW w \in Outs, NEW f \in Frame, NEW k
  PROVE  LET v == Append(w, f)
         IN /\ Len(w) \in Nat /\ Len(v) = Len(w) + 1 /\ v[Len(w) + 1] = f /\ v # <<>>
            /\ \A i \in 1..Len(w) : v[i] = w[i]
            /\ \A i \in 1..(Len(w) + 1) : wireStart(v, k, i) = wireStart(w, k, i)
            /\ wireEnd(v, k) = IF f.kind = "COMMIT" THEN k ELSE ending(f)
<1>. DEFINE v == Append(w, f)
<1>1. /\ Len(w) \in Nat /\ Len(v) = Len(w) + 1 /\ v[Len(w) + 1] = f /\ v # <<>>
      /\ \A i \in 1..Len(w) : v[i] = w[i]
  BY Appended DEF Outs
<1>. HIDE DEF v
<1>2. ASSUME NEW i \in 1..(Len(w) + 1) PROVE wireStart(v, k, i) = wireStart(w, k, i)
  <2>1. i = 1 \/ i - 1 \in 1..Len(w)
    BY <1>1
  <2>. QED BY <1>1, <2>1 DEF wireStart
<1>3. wireEnd(v, k) = IF f.kind = "COMMIT" THEN k ELSE ending(f)
  <2>1. PICK n : n = Len(w)
    OBVIOUS
  <2>2. n \in Nat /\ Len(v) = n + 1 /\ v[n + 1] = f
    BY <1>1, <2>1
  <2>3. Len(v) + 1 # 1 /\ v[(Len(v) + 1) - 1] = f
    BY <2>2
  <2>. QED BY <2>3 DEF wireEnd, wireStart
<1>. QED BY <1>1, <1>2, <1>3 DEF v

\* A queue with nothing in it ends where the page is.
LEMMA QueueNone ==
  ASSUME NEW p, p.queue = <<>>
  PROVE  queueEnd(p) = Len(p.shown)
<1>1. Len(p.queue) = 0
  OBVIOUS
<1>2. Len(p.queue) + 1 = 1
  BY <1>1
<1>. QED BY <1>2 DEF queueEnd, queueStart

\* One frame more after those on the way.
LEMMA OnTheWayMore ==
  ASSUME NEW p, NEW w \in Outs, NEW c, OnTheWay(p, w, c), endless(w), NEW f \in Frame,
         \/ f.kind = "END"
         \/ f.kind = "COMMIT" /\ w = <<>> /\ ~p.committed
         \/ /\ good(f) /\ (w = <<>> => p.committed)
            /\ begun(f) = wireEnd(w, queueEnd(p)) /\ ending(f) <= upto(c[p.stream])
  PROVE  OnTheWay(p, Append(w, f), c)
<1>. DEFINE v == Append(w, f)
            k == queueEnd(p)
<1>1. /\ Len(w) \in Nat /\ Len(v) = Len(w) + 1 /\ v[Len(w) + 1] = f
      /\ \A i \in 1..Len(w) : v[i] = w[i]
      /\ \A i \in 1..(Len(w) + 1) : wireStart(v, k, i) = wireStart(w, k, i)
  <2>1. /\ Len(w) \in Nat /\ Len(v) = Len(w) + 1 /\ v[Len(w) + 1] = f
        /\ \A i \in 1..Len(w) : v[i] = w[i]
    BY Appended DEF Outs
  <2>. HIDE DEF v, k
  <2>2. ASSUME NEW i \in 1..(Len(w) + 1) PROVE wireStart(v, k, i) = wireStart(w, k, i)
    <3>1. i = 1 \/ i - 1 \in 1..Len(w)
      BY <2>1
    <3>. QED BY <2>1, <3>1 DEF wireStart
  <2>. QED BY <2>1, <2>2
<1>. HIDE DEF v, k
<1>2. ASSUME NEW i \in 1..Len(v)
      PROVE  \/ v[i].kind = "END" /\ i = Len(v)
             \/ v[i].kind = "COMMIT" /\ i = 1 /\ ~p.committed
             \/ /\ good(v[i]) /\ (i = 1 => p.committed)
                /\ begun(v[i]) = wireStart(v, k, i) /\ ending(v[i]) <= upto(c[p.stream])
  <2>1. i \in 1..Len(w) \/ i = Len(w) + 1
    BY <1>1
  <2>2. CASE i \in 1..Len(w)
    <3>1. v[i] = w[i] /\ w[i].kind # "END" /\ wireStart(v, k, i) = wireStart(w, k, i)
      BY <1>1, <2>2 DEF endless
    <3>2. \/ w[i].kind = "END" /\ i = Len(w)
          \/ w[i].kind = "COMMIT" /\ i = 1 /\ ~p.committed
          \/ /\ good(w[i]) /\ (i = 1 => p.committed)
             /\ begun(w[i]) = wireStart(w, k, i) /\ ending(w[i]) <= upto(c[p.stream])
      BY <2>2 DEF OnTheWay, k
    <3>. QED BY <3>1, <3>2
  <2>3. CASE i = Len(w) + 1
    <3>1. v[i] = f /\ i = Len(v) /\ wireStart(v, k, i) = wireEnd(w, k)
      BY <1>1, <2>3 DEF wireEnd
    <3>2. w = <<>> <=> i = 1
      BY <1>1, <2>3 DEF Outs
    <3>. QED BY <3>1, <3>2 DEF k
  <2>. QED BY <2>1, <2>2, <2>3
<1>. QED BY <1>2 DEF OnTheWay, v, k

\* No frame is the end.
LEMMA EndlessMore ==
  ASSUME NEW w \in Outs, endless(w), NEW f \in Frame, f.kind # "END"
  PROVE  endless(Append(w, f))
<1>. DEFINE v == Append(w, f)
<1>1. Len(w) \in Nat /\ Len(v) = Len(w) + 1 /\ v[Len(w) + 1] = f /\ \A i \in 1..Len(w) : v[i] = w[i]
  BY Appended DEF Outs
<1>. HIDE DEF v
<1>2. ASSUME NEW i \in 1..Len(v) PROVE v[i].kind # "END"
  <2>1. i \in 1..Len(w) \/ i = Len(w) + 1
    BY <1>1
  <2>. QED BY <1>1, <2>1 DEF endless
<1>. QED BY <1>2 DEF endless, v

\* A PREPARE that is sent.
LEMMA PrepareWritesView ==
  ASSUME ReadersInv, ViewInv, NEW a \in A, PrepareWrites(a)
  PROVE  ViewInv'
<1>. DEFINE f == Head(att[a].out)
            x == [att[a] EXCEPT !.pc = "prepared", !.out = Tail(@)]
            c == journal.committed
            k == [conn[a] EXCEPT !.wire = Append(@, f)]
<1>1. /\ att \in [A -> Atts] /\ att[a] \in Atts /\ att[a].pc = "preparing" /\ conn[a].open
      /\ UNCHANGED <<journal, sub, page>> /\ sends(a, f)
      /\ att' = [att EXCEPT ![a].pc = "prepared", ![a].out = Tail(@)]
  BY DEF ReadersInv, Shapes, PrepareWrites
<1>2. att' = [att EXCEPT ![a] = x]
  BY <1>1
<1>3. /\ x.pc = "prepared" /\ x.out = Tail(att[a].out) /\ x.resume = att[a].resume /\ x.ready = att[a].ready
      /\ x.delivered = att[a].delivered
  BY <1>1 DEF Atts
<1>4. Prepares(att[a], sub[a], page, conn[a].wire, c)
  BY <1>1, OpenIs DEF Linked
<1>5. f \in Frame /\ f = att[a].out[1]
  BY <1>1, <1>4, HeadTail DEF Prepares, Atts, Outs
<1>. HIDE DEF x, f
<1>6. conn' = [conn EXCEPT ![a] = k] /\ k.wire = Append(conn[a].wire, f) /\ k.open = conn[a].open
  BY <1>1, <1>5, SendsIs
<1>. HIDE DEF k
<1>7. Len(k.wire) = 1 /\ k.wire[1] = f
  <2>1. conn[a].wire = <<>>
    BY <1>4 DEF Prepares, Unprepared
  <2>. QED BY <1>5, <1>6, <2>1
<1>8. Preparing(page, k.wire, c)
  BY <1>4, <1>5, <1>7 DEF Prepares, Unprepared, Preparing
<1>9. goal(x) = goal(att[a])
  BY <1>1, <1>3 DEF goal
<1>10. Waits(x, sub[a], page, k.wire, c)
  <2>1. Ordered(x, sub[a])
    BY <1>3, <1>4, <1>9 DEF Prepares, Ordered
  <2>2. Left(x.out, ending(k.wire[1]), x) /\ k.wire[1].stream = sub[a].key /\ ~x.ready
    BY <1>3, <1>4, <1>5, <1>7, <1>9 DEF Prepares, Left
  <2>. QED BY <1>8, <2>1, <2>2 DEF Waits
<1>11. Linked(x, sub[a], page, k.wire, c)
  BY <1>3, <1>10 DEF Linked, Openings, Following
<1>12. Known(x.resume.at) /\ sub' = [sub EXCEPT ![a] = sub[a]]
  BY <1>1, <1>3, ReaderIs DEF ViewInv, Offered
<1>. QED BY <1>1, <1>2, <1>6, <1>8, <1>11, <1>12, WriterView DEF Wired

\* A COMMIT that is sent.
LEMMA CommitWritesView ==
  ASSUME ReadersInv, ViewInv, NEW a \in A, CommitWrites(a)
  PROVE  ViewInv'
<1>. DEFINE f == frame("COMMIT", <<>>, Origin)
            x == [att[a] EXCEPT !.pc = "backlog", !.held = FALSE]
            c == journal.committed
            k == [conn[a] EXCEPT !.wire = Append(@, f)]
<1>1. /\ att \in [A -> Atts] /\ att[a] \in Atts /\ att[a].pc = "prepared" /\ conn[a].open /\ att[a].ready
      /\ UNCHANGED <<journal, sub, page>> /\ sends(a, f)
      /\ att' = [att EXCEPT ![a].pc = "backlog", ![a].held = FALSE]
  BY DEF ReadersInv, Shapes, CommitWrites
<1>2. att' = [att EXCEPT ![a] = x]
  BY <1>1
<1>3. /\ x.pc = "backlog" /\ x.out = att[a].out /\ x.resume = att[a].resume /\ x.delivered = att[a].delivered
  BY <1>1 DEF Atts
<1>4. Starts(att[a], sub[a], page, conn[a].wire, c)
  BY <1>1, OpenIs DEF Linked, Waits
<1>5. f \in Frame /\ f.kind = "COMMIT"
  <2>1. Origin \in Cursor /\ <<>> \in Seq(Atom)
    BY Bounds DEF Origin, cursor, Cursor
  <2>2. f.kind = "COMMIT"
    BY DEF frame
  <2>. QED BY <2>1, <2>2, FrameTypes
<1>. HIDE DEF x, f
<1>6. /\ conn' = [conn EXCEPT ![a] = k] /\ k.wire = Append(conn[a].wire, f) /\ k.open = conn[a].open
      /\ conn[a].wire \in Outs
  BY <1>1, <1>5, SendsIs
<1>. HIDE DEF k
<1>7. conn[a].wire = <<>> /\ endless(conn[a].wire)
  BY <1>4 DEF Starts, endless
<1>8. k.wire # <<>> /\ endless(k.wire) /\ wireEnd(k.wire, queueEnd(page)) = queueEnd(page)
  <2>1. endless(k.wire)
    BY <1>5, <1>6, <1>7, EndlessMore
  <2>2. PICK j : j = queueEnd(page)
    OBVIOUS
  <2>3. PICK w, g : w = conn[a].wire /\ g = f
    OBVIOUS
  <2>4. w \in Outs /\ g \in Frame /\ g.kind = "COMMIT"
    BY <1>5, <1>6, <2>3
  <2>5. PICK v : v = Append(w, g)
    OBVIOUS
  <2>6. v # <<>> /\ wireEnd(v, j) = IF g.kind = "COMMIT" THEN j ELSE ending(g)
    BY <2>4, <2>5, WireGrows
  <2>7. k.wire = v
    BY <1>6, <2>3, <2>5
  <2>. QED BY <2>1, <2>2, <2>4, <2>6, <2>7
<1>9. Admitted(page, k.wire, c)
  <2>1. OnTheWay(page, k.wire, c)
    BY <1>4, <1>5, <1>6, <1>7, OnTheWayMore DEF Starts, Admitted
  <2>. QED BY <1>4, <2>1 DEF Starts, Admitted
<1>10. goal(x) = goal(att[a])
  BY <1>1, <1>3 DEF goal
<1>11. queueEnd(page) = Len(page.shown)
  BY <1>4, QueueNone DEF Starts, Admitted
<1>12. Follows(x, sub[a], page, k.wire, c)
  <2>1. Ordered(x, sub[a])
    BY <1>3, <1>4, <1>10 DEF Starts, Ordered
  <2>2. Left(x.out, wireEnd(k.wire, queueEnd(page)), x) /\ page.stream = sub[a].key
    BY <1>3, <1>4, <1>8, <1>10, <1>11 DEF Starts, Left
  <2>. QED BY <1>3, <1>8, <1>9, <2>1, <2>2 DEF Follows
<1>13. Linked(x, sub[a], page, k.wire, c)
  BY <1>3, <1>12 DEF Linked, Openings, Following
<1>14. Known(x.resume.at) /\ sub' = [sub EXCEPT ![a] = sub[a]]
  BY <1>1, <1>3, ReaderIs DEF ViewInv, Offered
<1>. QED BY <1>1, <1>2, <1>6, <1>9, <1>13, <1>14, WriterView DEF Wired

\* How far a writer goes is committed.
LEMMA GoalCommitted ==
  ASSUME ReadersInv, NEW a \in A, att[a].pc \in Writing
  PROVE  /\ sub[a].key \in Gen /\ goal(att[a]) \in 0..LastRecord
         /\ goal(att[a]) <= journal.committed[sub[a].key] /\ journal.committed[sub[a].key] \in 0..LastRecord
         /\ upto(goal(att[a])) \in Nat /\ upto(goal(att[a])) <= upto(journal.committed[sub[a].key])
<1>1. att[a] \in Atts /\ Placing(journal.committed, att[a], sub[a])
  BY ReaderIs
<1>2. /\ sub[a].key \in Gen /\ att[a].delivered.seq <= journal.committed[sub[a].key]
      /\ att[a].to <= journal.committed[sub[a].key]
  BY <1>1 DEF Placing, Writing
<1>3. goal(att[a]) \in 0..LastRecord /\ goal(att[a]) <= journal.committed[sub[a].key]
  BY <1>1, <1>2, GoalIs DEF goal
<1>4. journal.committed[sub[a].key] \in 0..LastRecord /\ LastRecord \in Nat
  BY <1>2, JournalIs, ConstantsAre
<1>5. PICK m : m = journal.committed[sub[a].key]
  OBVIOUS
<1>6. PICK g : g = goal(att[a])
  OBVIOUS
<1>7. m \in 0..LastRecord /\ g \in 0..m
  BY <1>3, <1>4, <1>5, <1>6
<1>8. upto(g) <= upto(m) /\ upto(g) \in Nat
  <2>1. g \in 0..LastRecord
    BY <1>4, <1>7
  <2>. QED BY <1>7, <2>1, UptoGrows, Bounds
<1>. QED BY <1>2, <1>3, <1>4, <1>5, <1>6, <1>8

\* A frame of the backlog, of an event or of a round that is sent.
LEMMA FrameWritesView ==
  ASSUME ReadersInv, ViewInv, NEW a \in A, FrameWrites(a)
  PROVE  ViewInv'
<1>. DEFINE f == Head(att[a].out)
            h == att[a].pc = "event" /\ Len(att[a].out) > 1
            x == [att[a] EXCEPT !.out = Tail(@), !.held = h]
            c == journal.committed
            k == [conn[a] EXCEPT !.wire = Append(@, f)]
            w == conn[a].wire
            e == queueEnd(page)
<1>1. /\ att \in [A -> Atts] /\ att[a] \in Atts /\ att[a].pc \in {"backlog", "event", "round"} /\ conn[a].open
      /\ UNCHANGED <<journal, sub, page>> /\ sends(a, f) /\ att[a].out # <<>>
      /\ att' = [att EXCEPT ![a].out = Tail(@), ![a].held = h]
  BY DEF ReadersInv, Shapes, FrameWrites
<1>2. att' = [att EXCEPT ![a] = x]
  BY <1>1
<1>3. /\ x.pc = att[a].pc /\ x.out = Tail(att[a].out) /\ x.resume = att[a].resume /\ x.delivered = att[a].delivered
      /\ x.to = att[a].to
  BY <1>1 DEF Atts
<1>4. Follows(att[a], sub[a], page, w, c)
  BY <1>1, OpenIs DEF Linked, Following
<1>5. goal(x) = goal(att[a])
  BY <1>3 DEF goal
<1>. HIDE DEF x, f
<1>6. f \in Frame
  BY <1>1, HeadTail DEF Atts, Outs, f
<1>7. conn' = [conn EXCEPT ![a] = k] /\ k.wire = Append(w, f) /\ k.open = conn[a].open /\ w \in Outs
  BY <1>1, <1>6, SendsIs
<1>. HIDE DEF k, w, e
<1>8. PICK b : b = upto(goal(att[a]))
  OBVIOUS
<1>9. /\ sub[a].key \in Gen /\ b \in Nat /\ b <= upto(c[sub[a].key]) /\ upto(c[sub[a].key]) \in Nat
  <2>1. att[a].pc \in Writing
    BY <1>1 DEF Writing
  <2>. QED BY <1>8, <2>1, GoalCommitted, Bounds
<1>10. PICK n : n = wireEnd(w, e)
  OBVIOUS
<1>11. n \in Nat /\ n <= b /\ spans(att[a].out, n, b)
  BY <1>4, <1>8, <1>10 DEF Follows, Left, e
<1>12. /\ good(f) /\ begun(f) = n /\ ending(f) <= b /\ ending(f) \in Nat /\ f.kind \in {"LIVE", "RESIZE"}
       /\ spans(Tail(att[a].out), ending(f), b)
  <2>1. /\ good(f) /\ begun(f) = n /\ ending(f) <= b /\ ending(f) \in Nat
        /\ spans(Tail(att[a].out), ending(f), b)
    BY <1>1, <1>9, <1>11, SpansFirst DEF f
  <2>. QED BY <2>1, GoodIs
<1>13. /\ k.wire # <<>> /\ endless(k.wire) /\ wireEnd(k.wire, e) = ending(f)
  <2>1. endless(k.wire)
    BY <1>4, <1>6, <1>7, <1>12, EndlessMore DEF Follows, w
  <2>2. Append(w, f) # <<>> /\ wireEnd(Append(w, f), e) = ending(f)
    BY <1>6, <1>7, <1>12, WireGrows
  <2>. QED BY <1>7, <2>1, <2>2
<1>14. Admitted(page, k.wire, c)
  <2>1. ending(f) <= upto(c[page.stream])
    <3>1. page.stream = sub[a].key
      BY <1>4 DEF Follows
    <3>. QED BY <1>9, <1>12, <3>1
  <2>2. w = <<>> => page.committed
    BY <1>4 DEF Follows, w
  <2>3. OnTheWay(page, w, c) /\ endless(w)
    BY <1>4 DEF Follows, Admitted, w
  <2>4. begun(f) = wireEnd(w, queueEnd(page))
    BY <1>10, <1>12 DEF e
  <2>5. OnTheWay(page, Append(w, f), c)
    BY <1>6, <1>7, <1>12, <2>1, <2>2, <2>3, <2>4, OnTheWayMore
  <2>. QED BY <1>4, <1>7, <2>5 DEF Follows, Admitted
<1>15. Follows(x, sub[a], page, k.wire, c)
  <2>1. Ordered(x, sub[a])
    BY <1>3, <1>4, <1>5 DEF Follows, Ordered
  <2>2. Left(x.out, wireEnd(k.wire, e), x)
    BY <1>3, <1>5, <1>8, <1>12, <1>13 DEF Left
  <2>3. x.pc \notin {"live", "again"} /\ page.stream = sub[a].key
    BY <1>1, <1>3, <1>4 DEF Follows
  <2>. QED BY <1>13, <1>14, <2>1, <2>2, <2>3 DEF Follows, e
<1>16. Linked(x, sub[a], page, k.wire, c)
  BY <1>1, <1>3, <1>15 DEF Linked, Openings
<1>17. Known(x.resume.at) /\ sub' = [sub EXCEPT ![a] = sub[a]]
  BY <1>1, <1>3, ReaderIs DEF ViewInv, Offered
<1>. QED BY <1>1, <1>2, <1>7, <1>14, <1>16, <1>17, WriterView DEF Wired

\* A writer whose flags alone change.
LEMMA FlagsView ==
  ASSUME ReadersInv, ViewInv, NEW a \in A, NEW y, y.pc = att[a].pc, at_(y, att[a]), y.ready = att[a].ready,
         att' = [att EXCEPT ![a] = y], UNCHANGED <<sub, page>>, journal'.committed = journal.committed,
         hangsUp(a) \/ UNCHANGED conn
  PROVE  ViewInv'
<1>1. Known(y.resume.at) /\ sub' = [sub EXCEPT ![a] = sub[a]]
  BY ReaderIs DEF ViewInv, Offered, at_
<1>2. CASE UNCHANGED conn
  <2>1. conn[a].open => Linked(y, sub[a], page, conn[a].wire, journal.committed)
    BY OpenIs, LinkedSame
  <2>. QED BY <1>1, <1>2, <2>1, SilentView
<1>3. CASE hangsUp(a)
  <2>1. PICK k : k = [conn[a] EXCEPT !.open = FALSE]
    OBVIOUS
  <2>2. conn' = [conn EXCEPT ![a] = k] /\ k.wire = conn[a].wire /\ ~k.open
    BY <1>3, <2>1, HangsUpIs
  <2>. QED BY <1>1, <2>2, ShutView
<1>. QED BY <1>2, <1>3

\* A write that waits for room.
LEMMA WriteParksView ==
  ASSUME ReadersInv, ViewInv, NEW a \in A, WriteParks(a)
  PROVE  ViewInv'
<1>. DEFINE y == [att[a] EXCEPT !.held = TRUE]
<1>1. /\ att \in [A -> Atts] /\ att[a] \in Atts /\ UNCHANGED <<journal, sub, conn, page>>
      /\ att' = [att EXCEPT ![a].held = TRUE]
  BY DEF ReadersInv, Shapes, WriteParks
<1>2. att' = [att EXCEPT ![a] = y]
  BY <1>1
<1>3. y.pc = att[a].pc /\ at_(y, att[a]) /\ y.ready = att[a].ready
  BY <1>1 DEF Atts, at_
<1>. HIDE DEF y
<1>. QED BY <1>1, <1>2, <1>3, FlagsView

\* A resize that is settled.
LEMMA SettleResizeView ==
  ASSUME ReadersInv, ViewInv, NEW a \in A, SettleResize(a)
  PROVE  ViewInv'
<1>1. /\ att \in [A -> Atts] /\ att[a] \in Atts /\ UNCHANGED <<journal, sub, page>>
      /\ hangsUp(a) \/ UNCHANGED conn
      /\ att' = [att EXCEPT ![a].fence = "ok"] \/ att' = [att EXCEPT ![a].fence = "failed"]
  BY DEF ReadersInv, Shapes, SettleResize
<1>2. PICK f \in {"ok", "failed"} : att' = [att EXCEPT ![a].fence = f]
  BY <1>1
<1>. DEFINE y == [att[a] EXCEPT !.fence = f]
<1>3. att' = [att EXCEPT ![a] = y]
  BY <1>1, <1>2
<1>4. y.pc = att[a].pc /\ at_(y, att[a]) /\ y.ready = att[a].ready
  BY <1>1 DEF Atts, at_
<1>. HIDE DEF y
<1>. QED BY <1>1, <1>3, <1>4, FlagsView

\* A connection that is closed after the grace.
LEMMA GraceEndsView ==
  ASSUME ReadersInv, ViewInv, NEW a \in A, GraceEnds(a)
  PROVE  ViewInv'
<1>1. UNCHANGED <<journal, sub, att, page>> /\ hangsUp(a)
  BY DEF GraceEnds
<1>2. att' = [att EXCEPT ![a] = att[a]]
  BY <1>1, ReaderIs
<1>3. PICK y : y = att[a]
  OBVIOUS
<1>4. att' = [att EXCEPT ![a] = y] /\ y.pc = att[a].pc /\ at_(y, att[a]) /\ y.ready = att[a].ready
  BY <1>2, <1>3 DEF at_
<1>. QED BY <1>1, <1>4, FlagsView

\* A writer that fails, or whose tail is closed without a verdict.
LEMMA WriteFailsView ==
  ASSUME ReadersInv, ViewInv, NEW a \in A, WriteFails(a) \/ TailStops(a)
  PROVE  ViewInv'
<1>1. stops(a) /\ cancels(a) /\ UNCHANGED <<journal, conn, page>>
  BY DEF WriteFails, TailStops
<1>. QED BY <1>1, StopsView DEF cancels

\* The attach loop's end.
LEMMA LoopEndsView ==
  ASSUME ReadersInv, ViewInv, NEW a \in A, LoopEnds(a)
  PROVE  ViewInv'
<1>1. att \in [A -> Atts] /\ att[a] \in Atts /\ ~conn[a].open /\ UNCHANGED <<journal, conn, page>>
  BY DEF ReadersInv, Shapes, LoopEnds
<1>2. CASE stops(a) /\ sub' = [sub EXCEPT ![a] = NoSub]
  BY <1>1, <1>2, StopsView
<1>3. CASE /\ att' = [att EXCEPT ![a].closing = TRUE, ![a].fence = settledFence(@)]
           /\ sub' = [sub EXCEPT ![a] = removed(@)]
  <2>. DEFINE y == [att[a] EXCEPT !.closing = TRUE, !.fence = settledFence(@)]
              s == removed(sub[a])
  <2>1. att' = [att EXCEPT ![a] = y] /\ sub' = [sub EXCEPT ![a] = s]
    BY <1>1, <1>3 DEF ReadersInv, Shapes
  <2>2. y.resume = att[a].resume
    BY <1>1 DEF Atts
  <2>3. Known(y.resume.at)
    BY <2>2 DEF ViewInv, Offered
  <2>. HIDE DEF y, s
  <2>. QED BY <1>1, <2>1, <2>3, SilentView
<1>. QED BY <1>2, <1>3 DEF LoopEnds

\* A writer that follows goes on following.
LEMMA FollowsOn ==
  ASSUME ReadersInv, ViewInv, NEW a \in A, att[a].pc \in Following, NEW y, NEW t, y.pc \in Following,
         y.resume = att[a].resume, t.key = sub[a].key, Ordered(att[a], sub[a]) => Ordered(y, t),
         \A n : Left(att[a].out, n, att[a]) /\ (att[a].pc \in {"live", "again"} => att[a].out = <<>>) => Left(y.out, n, y),
         (att[a].pc \in {"live", "again"} => att[a].out = <<>>) => (y.pc \in {"live", "again"} => y.out = <<>>),
         att' = [att EXCEPT ![a] = y], sub' = [sub EXCEPT ![a] = t], UNCHANGED <<conn, page>>,
         journal'.committed = journal.committed
  PROVE  ViewInv'
<1>1. ASSUME conn[a].open
      PROVE  Linked(y, t, page, conn[a].wire, journal.committed)
  <2>1. Follows(att[a], sub[a], page, conn[a].wire, journal.committed)
    BY <1>1, OpenIs DEF Linked
  <2>2. Follows(y, t, page, conn[a].wire, journal.committed)
    BY <2>1 DEF Follows
  <2>. QED BY <2>2 DEF Linked, Openings, Following
<1>2. Known(y.resume.at)
  BY DEF ViewInv, Offered
<1>. QED BY <1>1, <1>2, SilentView

\* Going on between events and rounds.
LEMMA GoesOnView ==
  ASSUME ReadersInv, ViewInv, NEW a \in A, att[a].pc \in {"backlog", "live", "again"},
         NEW pc \in {"live", "again"}, goes(a, pc), att[a].pc = "backlog" => att[a].out = <<>>,
         NEW t, t.key = sub[a].key, sub' = [sub EXCEPT ![a] = t],
         Ordered(att[a], sub[a]) => Ordered([att[a] EXCEPT !.pc = pc], t),
         UNCHANGED <<conn, page>>, journal'.committed = journal.committed
  PROVE  ViewInv'
<1>1. pc \in Where /\ pc \in Following /\ att[a].pc \in Following
  BY DEF Where, Following
<1>2. PICK y : y = [att[a] EXCEPT !.pc = pc]
  OBVIOUS
<1>3. /\ att' = [att EXCEPT ![a] = y] /\ y.pc = pc /\ y.resume = att[a].resume /\ y.out = att[a].out
      /\ y.delivered = att[a].delivered
  BY <1>1, <1>2, GoesIs DEF at_
<1>4. goal(y) = goal(att[a])
  BY <1>3 DEF goal
<1>5. \A n : Left(att[a].out, n, att[a]) => Left(y.out, n, y)
  BY <1>3, <1>4 DEF Left
<1>. QED BY <1>1, <1>2, <1>3, <1>5, FollowsOn

\* The end of the backlog.
LEMMA BacklogEndsView ==
  ASSUME ReadersInv, ViewInv, NEW a \in A, BacklogEnds(a)
  PROVE  ViewInv'
<1>1. /\ att[a] \in Atts /\ att[a].pc = "backlog" /\ att[a].out = <<>> /\ goes(a, "live")
      /\ UNCHANGED <<journal, sub, conn, page>>
  BY ReaderIs DEF BacklogEnds
<1>2. PICK y : y = [att[a] EXCEPT !.pc = "live"]
  OBVIOUS
<1>3. y.pc = "live" /\ y.delivered = att[a].delivered
  BY <1>1, <1>2 DEF Atts
<1>4. Ordered(att[a], sub[a]) => Ordered(y, sub[a])
  BY <1>1, <1>3 DEF Ordered, goal
<1>5. sub' = [sub EXCEPT ![a] = sub[a]]
  BY <1>1, ReaderIs
<1>. QED BY <1>1, <1>2, <1>4, <1>5, GoesOnView

\* A tail that is behind turns to catching up.
LEMMA TailCatchesUpView ==
  ASSUME ReadersInv, ViewInv, NEW a \in A, TailCatchesUp(a)
  PROVE  ViewInv'
<1>1. /\ att[a] \in Atts /\ att[a].pc = "live" /\ goes(a, "again") /\ UNCHANGED <<journal, sub, conn, page>>
      /\ sub[a].registered /\ sub[a].queue = <<>> /\ sub[a].catchingUp
  BY ReaderIs DEF TailCatchesUp
<1>2. PICK y : y = [att[a] EXCEPT !.pc = "again"]
  OBVIOUS
<1>3. y.pc = "again" /\ y.delivered = att[a].delivered
  BY <1>1, <1>2 DEF Atts
<1>4. Ordered(att[a], sub[a]) => Ordered(y, sub[a])
  BY <1>1, <1>3 DEF Ordered, goal
<1>5. sub' = [sub EXCEPT ![a] = sub[a]]
  BY <1>1, ReaderIs
<1>. QED BY <1>1, <1>2, <1>4, <1>5, GoesOnView

\* A tail that has caught up, of a subscriber that is gone.
LEMMA CatchUpEndsView ==
  ASSUME ReadersInv, ViewInv, NEW a \in A, CatchUpEnds(a)
  PROVE  ViewInv'
<1>1. /\ att[a] \in Atts /\ att[a].pc = "again" /\ goes(a, "live") /\ UNCHANGED <<journal, sub, conn, page>>
      /\ ~sub[a].registered /\ sub[a].queue = <<>>
  BY ReaderIs DEF CatchUpEnds, Charged
<1>2. PICK y : y = [att[a] EXCEPT !.pc = "live"]
  OBVIOUS
<1>3. Ordered(y, sub[a])
  <2>1. Len(sub[a].queue) = 0
    BY <1>1
  <2>. QED BY <1>1, <2>1 DEF Ordered
<1>4. sub' = [sub EXCEPT ![a] = sub[a]]
  BY <1>1, ReaderIs
<1>. QED BY <1>1, <1>2, <1>3, <1>4, GoesOnView

\* A reader at the frontier rejoins its queue.
LEMMA RejoinsView ==
  ASSUME ReadersInv, ViewInv, NEW a \in A, Rejoins(a)
  PROVE  ViewInv'
<1>. DEFINE d == att[a].delivered.seq
            t == [sub[a] EXCEPT !.cursor = d, !.catchingUp = FALSE]
<1>1. /\ att[a] \in Atts /\ sub \in [A -> Subs] /\ sub[a] \in Subs /\ att[a].pc = "again" /\ goes(a, "live")
      /\ sub[a].registered /\ sub' = [sub EXCEPT ![a].cursor = d, ![a].catchingUp = FALSE]
      /\ UNCHANGED <<journal, conn, page>>
  BY DEF Rejoins, ReadersInv, Shapes
<1>2. PICK y : y = [att[a] EXCEPT !.pc = "live"]
  OBVIOUS
<1>3. y.pc = "live" /\ y.delivered = att[a].delivered /\ goal(y) = d /\ d \in Nat
  <2>1. y.pc = "live" /\ y.delivered = att[a].delivered
    BY <1>1, <1>2 DEF Atts
  <2>2. att[a].delivered \in Cursor /\ LastRecord \in Nat
    BY <1>1, ConstantsAre DEF Atts
  <2>. QED BY <2>1, <2>2 DEF goal, Cursor
<1>4. sub' = [sub EXCEPT ![a] = t]
  BY <1>1
<1>5. t.key = sub[a].key /\ t.queue = sub[a].queue /\ t.cursor = d /\ ~t.catchingUp
  BY <1>1 DEF Subs
<1>. HIDE DEF t, d
<1>6. ASSUME Ordered(att[a], sub[a]) PROVE Ordered(y, t)
  <2>1. t.queue = <<>>
    BY <1>1, <1>5, <1>6 DEF Ordered
  <2>2. Len(t.queue) = 0
    BY <2>1
  <2>. QED BY <1>3, <1>5, <2>1, <2>2 DEF Ordered
<1>. QED BY <1>1, <1>2, <1>4, <1>5, <1>6, GoesOnView

\* What was in hand is written.
LEMMA HandEndsView ==
  ASSUME ReadersInv, ViewInv, NEW a \in A, HandEnds(a)
  PROVE  ViewInv'
<1>. DEFINE pc == IF att[a].pc = "event" THEN "live" ELSE "again"
            d == cursor(att[a].to, endOf[att[a].to])
            y == [att[a] EXCEPT !.pc = pc, !.delivered = d, !.to = 0, !.event = 0, !.charge = 0]
<1>1. /\ att \in [A -> Atts] /\ att[a] \in Atts /\ att[a].pc \in {"event", "round"} /\ att[a].out = <<>>
      /\ UNCHANGED <<journal, sub, conn, page>>
      /\ att' = [att EXCEPT ![a].pc = IF @ = "event" THEN "live" ELSE "again",
                          ![a].delivered = cursor(att[a].to, endOf[att[a].to]),
                          ![a].to = 0, ![a].event = 0, ![a].charge = 0]
  BY DEF ReadersInv, Shapes, HandEnds
<1>2. att' = [att EXCEPT ![a] = y]
  BY <1>1
<1>3. /\ y.pc = pc /\ y.delivered = d /\ y.out = <<>> /\ y.resume = att[a].resume
  BY <1>1 DEF Atts
<1>4. goal(y) = goal(att[a])
  <2>1. d.seq = att[a].to
    BY DEF cursor
  <2>2. y.pc \notin {"event", "round"}
    BY <1>3
  <2>. HIDE DEF y, d
  <2>. QED BY <1>1, <1>3, <2>1, <2>2 DEF goal
<1>. HIDE DEF y, d
<1>5. y.pc \in Following /\ att[a].pc \in Following
  BY <1>1, <1>3 DEF Following
<1>6. Ordered(att[a], sub[a]) => Ordered(y, sub[a])
  <2>1. y.pc \in {"again", "round"} => att[a].pc \in {"again", "round"}
    BY <1>1, <1>3
  <2>. QED BY <1>4, <2>1 DEF Ordered
<1>7. \A n : Left(att[a].out, n, att[a]) => Left(y.out, n, y)
  BY <1>1, <1>3, <1>4 DEF Left
<1>8. sub' = [sub EXCEPT ![a] = sub[a]]
  BY <1>1, ReaderIs
<1>9. PICK t : t = sub[a]
  OBVIOUS
<1>10. PICK z : z = y
  OBVIOUS
<1>11. /\ z.pc \in Following /\ z.resume = att[a].resume /\ t.key = sub[a].key /\ z.out = <<>>
       /\ Ordered(att[a], sub[a]) => Ordered(z, t)
       /\ att' = [att EXCEPT ![a] = z] /\ sub' = [sub EXCEPT ![a] = t]
  BY <1>2, <1>3, <1>5, <1>6, <1>8, <1>9, <1>10
<1>12. \A n : Left(att[a].out, n, att[a]) => Left(z.out, n, z)
  BY <1>7, <1>10
<1>13. UNCHANGED <<conn, page>> /\ journal'.committed = journal.committed
  BY <1>1
<1>. QED BY <1>5, <1>11, <1>12, <1>13, FollowsOn

\* A writer on its way to the end of its output.
ender(f) == [Idle EXCEPT !.pc = "ending", !.closing = TRUE, !.fence = f]

\* A verdict ends the output.
LEMMA EndsView ==
  ASSUME ReadersInv, ViewInv, NEW a \in A,
         att[a].pc \in Following \/ (att[a].pc = "prepared" /\ att[a].ready),
         att' = [att EXCEPT ![a] = ender(att[a].fence)],
         UNCHANGED <<sub, conn, page>>, journal'.committed = journal.committed
  PROVE  ViewInv'
<1>0. ender(att[a].fence).pc = "ending" /\ Known(ender(att[a].fence).resume.at)
  BY EndingIs, NothingOffered DEF ender
<1>1. PICK x : x = ender(att[a].fence)
  OBVIOUS
<1>2. x.pc = "ending" /\ Known(x.resume.at) /\ att' = [att EXCEPT ![a] = x]
  BY <1>0, <1>1
<1>3. ASSUME conn[a].open
      PROVE  Linked(x, sub[a], page, conn[a].wire, journal.committed)
  <2>1. Admitted(page, conn[a].wire, journal.committed) /\ endless(conn[a].wire)
    <3>1. CASE att[a].pc \in Following
      BY <1>3, <3>1, OpenIs DEF Linked, Follows
    <3>2. CASE att[a].pc = "prepared" /\ att[a].ready
      BY <1>3, <3>2, OpenIs DEF Linked, Waits, Starts, endless
    <3>. QED BY <3>1, <3>2
  <2>. QED BY <1>2, <2>1 DEF Linked, Openings, Following
<1>4. PICK t : t = sub[a]
  OBVIOUS
<1>5. sub' = [sub EXCEPT ![a] = t]
  BY <1>4, ReaderIs
<1>6. conn[a].open => Linked(x, t, page, conn[a].wire, journal.committed)
  BY <1>3, <1>4
<1>7. UNCHANGED <<conn, page>> /\ journal'.committed = journal.committed
  OBVIOUS
<1>8. /\ att' = [att EXCEPT ![a] = x] /\ sub' = [sub EXCEPT ![a] = t] /\ UNCHANGED <<conn, page>>
      /\ journal'.committed = journal.committed /\ Known(x.resume.at)
      /\ conn[a].open => Linked(x, t, page, conn[a].wire, journal.committed)
  BY <1>2, <1>5, <1>6, <1>7
<1>. QED BY <1>8, SilentView

\* A verdict that is seen between writes.
LEMMA SeesVerdictView ==
  ASSUME ReadersInv, ViewInv, NEW a \in A, SeesVerdict(a)
  PROVE  ViewInv'
<1>1. /\ att' = [att EXCEPT ![a] = ender(att[a].fence)]
      /\ UNCHANGED <<journal, sub, conn, page>>
      /\ att[a].pc \in Following \/ (att[a].pc = "prepared" /\ att[a].ready)
  BY DEF SeesVerdict, Following, ender
<1>. QED BY <1>1, EndsView

\* A write of an event or a round that fails.
LEMMA HandFailsView ==
  ASSUME ReadersInv, ViewInv, NEW a \in A, HandFails(a)
  PROVE  ViewInv'
<1>1. att[a].pc \in Following /\ UNCHANGED <<journal, conn, page>>
  BY DEF HandFails, Following
<1>2. CASE verdict(a) # "none"
  <2>1. att' = [att EXCEPT ![a] = ender(att[a].fence)] /\ UNCHANGED sub
    BY <1>2 DEF HandFails, ender
  <2>. QED BY <1>1, <2>1, EndsView
<1>3. CASE verdict(a) = "none"
  BY <1>1, <1>3, StopsView DEF HandFails
<1>. QED BY <1>2, <1>3

\* The typed reason, in-band.
LEMMA TerminatesView ==
  ASSUME ReadersInv, ViewInv, NEW a \in A, Terminates(a)
  PROVE  ViewInv'
<1>. DEFINE f == frame("END", <<>>, Origin)
            w == conn[a].wire
            k == [wire |-> Append(w, f), open |-> FALSE]
<1>1. /\ att[a].pc = "ending" /\ stops(a) /\ cancels(a) /\ UNCHANGED <<journal, page>> /\ conn[a] \in Conns
  BY ReaderIs DEF Terminates
<1>2. CASE UNCHANGED conn
  BY <1>1, <1>2, StopsView DEF cancels
<1>3. CASE conn[a].open /\ conn' = [conn EXCEPT ![a] = [wire |-> Append(@.wire, f), open |-> FALSE]]
  <2>1. conn' = [conn EXCEPT ![a] = k]
    BY <1>3
  <2>2. f \in Frame /\ f.kind = "END"
    <3>1. Origin \in Cursor /\ <<>> \in Seq(Atom)
      BY Bounds DEF Origin, cursor, Cursor
    <3>2. f.kind = "END"
      BY DEF frame
    <3>. QED BY <3>1, <3>2, FrameTypes
  <2>. HIDE DEF f
  <2>3. Admitted(page, w, journal.committed) /\ endless(w) /\ w \in Outs
    BY <1>1, <1>3, OpenIs DEF Linked, Conns
  <2>4. Admitted(page, Append(w, f), journal.committed)
    BY <2>2, <2>3, OnTheWayMore DEF Admitted
  <2>5. k.wire = Append(w, f) /\ ~k.open
    OBVIOUS
  <2>. HIDE DEF k
  <2>6. Wired(page, k.wire, journal.committed)
    BY <2>4, <2>5 DEF Wired
  <2>7. att' = [att EXCEPT ![a] = Stopped] /\ Known(Stopped.resume.at) /\ sub' = [sub EXCEPT ![a] = NoSub]
    BY <1>1, NothingOffered DEF stops, cancels
  <2>. QED BY <1>1, <1>3, <2>1, <2>5, <2>6, <2>7, WriterView
<1>. QED BY <1>2, <1>3 DEF Terminates

\* The next event of the tail.
LEMMA TailTakesView ==
  ASSUME ReadersInv, ViewInv, NEW a \in A, TailTakes(a)
  PROVE  ViewInv'
<1>. DEFINE q == sub[a].queue
            seq == Head(q)
            y == [att[a] EXCEPT !.pc = "event", !.event = seq, !.to = seq, !.out = frames(atomsOf(seq))]
            t == [sub[a] EXCEPT !.queue = Tail(@)]
            S == 1..LastRecord
<1>1. /\ att \in [A -> Atts] /\ att[a] \in Atts /\ sub \in [A -> Subs] /\ sub[a] \in Subs
      /\ att[a].pc = "live" /\ q # <<>> /\ UNCHANGED <<journal, conn, page>>
      /\ att' = [att EXCEPT ![a].pc = "event", ![a].event = seq, ![a].to = seq, ![a].out = frames(atomsOf(seq))]
      /\ sub' = [sub EXCEPT ![a].queue = Tail(@)]
  BY DEF ReadersInv, Shapes, TailTakes
<1>2. att' = [att EXCEPT ![a] = y] /\ sub' = [sub EXCEPT ![a] = t]
  BY <1>1
<1>3. /\ y.pc = "event" /\ y.to = seq /\ y.out = frames(atomsOf(seq)) /\ y.resume = att[a].resume
      /\ t.key = sub[a].key /\ t.queue = Tail(q) /\ t.registered = sub[a].registered /\ t.cursor = sub[a].cursor
      /\ t.catchingUp = sub[a].catchingUp
  BY <1>1 DEF Atts, Subs
<1>4. Known(y.resume.at)
  BY <1>3 DEF ViewInv, Offered
<1>5. q \in Seq(S)
  BY <1>1 DEF Subs, Queues
<1>6. /\ Len(q) \in Nat /\ Len(q) >= 1 /\ seq = q[1] /\ seq \in S /\ Len(Tail(q)) = Len(q) - 1
      /\ \A i \in 1..(Len(q) - 1) : Tail(q)[i] = q[i + 1]
  <2>. HIDE DEF S, q
  <2>. QED BY <1>1, <1>5, HeadTail
<1>. HIDE DEF y, t, q, seq
<1>7. ASSUME conn[a].open
      PROVE  Linked(y, t, page, conn[a].wire, journal.committed)
  <2>1. Follows(att[a], sub[a], page, conn[a].wire, journal.committed)
    BY <1>1, <1>7, OpenIs DEF Linked, Following
  <2>2. PICK g : g = goal(att[a])
    OBVIOUS
  <2>3. g \in Nat /\ g \in 0..LastRecord /\ LastRecord \in Nat
    BY <1>1, <2>2, GoalIs, ConstantsAre
  <2>4. PICK m : m = Len(q)
    OBVIOUS
  <2>5. \A i \in 1..m : q[i] = g + i
    BY <2>1, <2>2, <2>4 DEF Follows, Ordered, q
  <2>6. seq = g + 1
    BY <1>6, <2>4, <2>5
  <2>7. goal(y) = seq /\ seq - 1 = g /\ seq \in Nat /\ seq \in 1..LastRecord
    <3>1. goal(y) = seq
      BY <1>3 DEF goal
    <3>2. PICK n : n = seq
      OBVIOUS
    <3>3. n = g + 1 /\ n \in S
      BY <1>6, <2>6, <3>2
    <3>4. n - 1 = g /\ n \in Nat /\ n \in 1..LastRecord
      BY <2>3, <3>3
    <3>. QED BY <3>1, <3>2, <3>4
  <2>8. Ordered(y, t)
    <3>1. Len(t.queue) = m - 1 /\ m \in Nat
      BY <1>3, <1>6, <2>4
    <3>2. ASSUME NEW i \in 1..(m - 1) PROVE t.queue[i] = seq + i
      <4>1. t.queue[i] = q[i + 1] /\ i + 1 \in 1..m /\ i \in Nat
        BY <1>3, <1>6, <2>4, <3>1
      <4>2. q[i + 1] = g + (i + 1)
        BY <2>5, <4>1
      <4>. QED BY <2>3, <2>6, <4>1, <4>2
    <3>3. ASSUME t.registered PROVE t.cursor = seq + (m - 1)
      <4>1. sub[a].cursor = g + m
        BY <1>1, <1>3, <2>1, <2>2, <2>4, <3>3 DEF Follows, Ordered, q
      <4>. QED BY <1>3, <2>3, <2>6, <3>1, <4>1
    <3>. QED BY <1>3, <2>7, <3>1, <3>2, <3>3 DEF Ordered
  <2>9. PICK n : n = wireEnd(conn[a].wire, queueEnd(page))
    OBVIOUS
  <2>10. n \in Nat /\ n = upto(seq - 1)
    <3>1. n \in Nat /\ n <= upto(g) /\ spans(<<>>, n, upto(g))
      BY <1>1, <2>1, <2>2, <2>9 DEF Follows, Left
    <3>2. upto(g) \in Nat
      BY <2>3, StreamTypes
    <3>. QED BY <2>7, <3>1, <3>2, SpansNone
  <2>11. /\ atomsOf(seq) = run(upto(seq - 1), upto(seq)) /\ upto(seq) \in Nat
         /\ upto(seq - 1) <= upto(seq) /\ upto(seq) <= N
    BY <2>7, RecordIs
  <2>12. Left(y.out, n, y)
    <3>1. PICK e : e = upto(seq)
      OBVIOUS
    <3>2. atomsOf(seq) = run(n, e) /\ e \in Nat /\ n <= e /\ e <= N
      BY <2>10, <2>11, <3>1
    <3>3. spans(frames(run(n, e)), n, e)
      BY <2>10, <3>2, FramesSpan
    <3>. QED BY <1>3, <2>7, <2>10, <3>1, <3>2, <3>3 DEF Left
  <2>13. Follows(y, t, page, conn[a].wire, journal.committed)
    BY <1>3, <2>1, <2>8, <2>9, <2>12 DEF Follows
  <2>. QED BY <1>3, <2>13 DEF Linked, Openings, Following
<1>8. PICK x : x = y
  OBVIOUS
<1>9. PICK s : s = t
  OBVIOUS
<1>10. /\ att' = [att EXCEPT ![a] = x] /\ sub' = [sub EXCEPT ![a] = s] /\ Known(x.resume.at)
       /\ conn[a].open => Linked(x, s, page, conn[a].wire, journal.committed)
  BY <1>2, <1>4, <1>7, <1>8, <1>9
<1>11. UNCHANGED <<conn, page>> /\ journal'.committed = journal.committed
  BY <1>1
<1>. QED BY <1>10, <1>11, SilentView

\* A round of the journal, behind the frontier, or a refusal.
LEMMA ReadsRoundView ==
  ASSUME ReadersInv, ViewInv, NEW a \in A, ReadsRound(a)
  PROVE  ViewInv'
<1>. DEFINE g == sub[a].key
            c == journal.committed
            d == att[a].delivered.seq
            atoms == suffix(att[a].delivered, c[g])
            round == SubSeq(atoms, 1, roundLength(atoms))
            to == Last(round)[1]
            y == [att[a] EXCEPT !.pc = "round", !.out = frames(round), !.charge = cost(round), !.to = to]
<1>1. /\ att \in [A -> Atts] /\ att[a] \in Atts /\ sub \in [A -> Subs] /\ sub[a] \in Subs
      /\ att[a].pc = "again" /\ UNCHANGED <<journal, conn, page>> /\ c[g] # d
      /\ Placing(c, att[a], sub[a]) /\ Charged(att[a], sub[a], lease[a])
      /\ \/ /\ att' = [att EXCEPT ![a].pc = "round", ![a].out = frames(round), ![a].charge = cost(round), ![a].to = to]
            /\ UNCHANGED sub
         \/ /\ sub' = [sub EXCEPT ![a] = closed(@, "subscriber_lagged")] /\ goes(a, "live")
  BY ReaderIs DEF ReadersInv, Shapes, ReadsRound
<1>2. CASE sub' = [sub EXCEPT ![a] = closed(@, "subscriber_lagged")] /\ goes(a, "live")
  <2>1. PICK y1 : y1 = [att[a] EXCEPT !.pc = "live"]
    OBVIOUS
  <2>2. PICK t : t = closed(sub[a], "subscriber_lagged")
    OBVIOUS
  <2>3. sub' = [sub EXCEPT ![a] = t]
    BY <1>1, <1>2, <2>2
  <2>4. t.key = sub[a].key /\ (Ordered(att[a], sub[a]) => Ordered(att[a], t))
    BY <1>1, <2>2, ClosedAfter DEF After
  <2>5. y1.pc = "live" /\ y1.delivered = att[a].delivered
    BY <1>1, <2>1 DEF Atts
  <2>6. Ordered(att[a], sub[a]) => Ordered(y1, t)
    BY <1>1, <2>4, <2>5 DEF Ordered, goal
  <2>. QED BY <1>1, <1>2, <2>1, <2>3, <2>4, <2>6, GoesOnView
<1>3. CASE /\ att' = [att EXCEPT ![a].pc = "round", ![a].out = frames(round), ![a].charge = cost(round), ![a].to = to]
           /\ UNCHANGED sub
  <2>1. att' = [att EXCEPT ![a] = y]
    BY <1>1, <1>3
  <2>2. y.pc = "round" /\ y.to = to /\ y.out = frames(round) /\ y.resume = att[a].resume
    BY <1>1 DEF Atts
  <2>. HIDE DEF y, to, round, atoms
  <2>3. g \in Gen /\ att[a].delivered = cursor(d, endOf[d]) /\ d <= c[g]
    BY <1>1 DEF Placing
  <2>4. d \in 0..LastRecord /\ c[g] \in 0..LastRecord /\ LastRecord \in Nat /\ d < c[g]
    <3>1. att[a].delivered \in Cursor /\ journal.committed[g] \in 0..LastRecord /\ LastRecord \in Nat
      BY <1>1, <2>3, JournalIs, ConstantsAre DEF Atts
    <3>. QED BY <1>1, <2>3, <3>1 DEF Cursor
  <2>5. PICK b : b = c[g]
    OBVIOUS
  <2>6. PICK e : e = d
    OBVIOUS
  <2>7. e \in 0..LastRecord /\ b \in 0..LastRecord /\ e < b /\ e \in 0..b /\ LastRecord \in Nat
    BY <2>4, <2>5, <2>6
  <2>8. upto(e) \in Nat /\ upto(b) \in Nat /\ upto(e) < upto(b) /\ upto(b) <= N /\ upto(e) \in 0..upto(b)
    <3>1. upto(e) \in Nat /\ upto(b) \in 0..N /\ N \in Nat
      BY <2>7, Bounds
    <3>2. upto(e) < upto(b)
      BY <2>7, UptoGrows
    <3>. QED BY <3>1, <3>2
  <2>9. atoms = run(upto(e), upto(b))
    <3>1. at(upto(e)) = att[a].delivered
      BY <2>3, <2>6, <2>7, AtEnd
    <3>. QED BY <2>5, <2>7, <2>8, <3>1, SuffixIs DEF atoms
  <2>10. PICK k : k = upto(e)
    OBVIOUS
  <2>11. PICK f : f = upto(b)
    OBVIOUS
  <2>12. /\ k \in Nat /\ f \in Nat /\ k < f /\ k <= f /\ f <= N /\ atoms = run(k, f)
         /\ atoms \in Seq(Atom) /\ Len(atoms) = f - k
         /\ \A j \in 0..(f - k) : SubSeq(run(k, f), 1, j) = run(k, k + j)
    <3>1. k \in Nat /\ f \in Nat /\ k < f /\ k <= f /\ f <= N /\ atoms = run(k, f)
      BY <2>8, <2>9, <2>10, <2>11
    <3>. QED BY <3>1, RunIs
  <2>13. PICK n : n = roundLength(atoms)
    OBVIOUS
  <2>14. n \in 1..(f - k) /\ n \in recordEnds(atoms) /\ n \in 0..(f - k) /\ n \in Nat
    <3>1. Len(atoms) >= 1
      BY <2>12
    <3>2. n \in 1..Len(atoms) /\ n \in recordEnds(atoms)
      BY <2>12, <2>13, <3>1, RoundIs
    <3>. QED BY <2>12, <3>2
  <2>15. round = run(k, k + n) /\ k + n <= N /\ k <= k + n /\ k + n \in Nat
    <3>1. SubSeq(run(k, f), 1, n) = run(k, k + n)
      BY <2>12, <2>14
    <3>2. round = run(k, k + n)
      BY <2>12, <2>13, <3>1 DEF round
    <3>3. k + n <= f /\ k <= k + n /\ k + n \in Nat /\ N \in Nat
      BY <2>12, <2>14, Bounds
    <3>. QED BY <2>12, <3>2, <3>3
  <2>16. to = run(k, f)[n][1]
    <3>1. round \in Seq(Atom) /\ Len(round) = n
      BY <2>12, <2>14, <2>13, Beginning DEF round
    <3>2. Last(round) = round[n]
      BY <3>1 DEF Last
    <3>3. round[n] = atoms[n]
      BY <2>12, <2>13, <2>14, Beginning DEF round
    <3>. QED BY <2>12, <3>2, <3>3 DEF to
  <2>17. to \in 0..LastRecord /\ upto(to) = k + n
    <3>1. n \in recordEnds(run(upto(e), upto(b)))
      BY <2>9, <2>14
    <3>2. LET r == run(upto(e), upto(b))[n][1] IN r \in 0..LastRecord /\ upto(r) = upto(e) + n
      BY <2>7, <3>1, RoundEnds
    <3>. QED BY <2>10, <2>11, <2>16, <3>2
  <2>18. goal(y) = to
    BY <2>2 DEF goal
  <2>19. ASSUME conn[a].open
         PROVE  Linked(y, sub[a], page, conn[a].wire, c)
    <3>1. Follows(att[a], sub[a], page, conn[a].wire, c)
      BY <1>1, <2>19, OpenIs DEF Linked, Following
    <3>2. Ordered(y, sub[a])
      <4>1. sub[a].queue = <<>> /\ (sub[a].registered => sub[a].catchingUp)
        BY <1>1, <3>1 DEF Follows, Ordered, Charged
      <4>2. Len(sub[a].queue) = 0
        BY <4>1
      <4>. QED BY <4>1, <4>2 DEF Ordered
    <3>3. PICK m : m = wireEnd(conn[a].wire, queueEnd(page))
      OBVIOUS
    <3>4. m = k
      <4>1. goal(att[a]) = e
        BY <1>1, <2>6 DEF goal
      <4>2. m \in Nat /\ m <= upto(e) /\ spans(<<>>, m, upto(e))
        BY <1>1, <3>1, <3>3, <4>1 DEF Follows, Left
      <4>. QED BY <2>8, <2>10, <4>2, SpansNone
    <3>5. Left(y.out, m, y)
      <4>1. spans(frames(run(k, k + n)), k, k + n)
        BY <2>12, <2>15, FramesSpan
      <4>. QED BY <2>2, <2>12, <2>15, <2>17, <2>18, <3>4, <4>1 DEF Left
    <3>6. Follows(y, sub[a], page, conn[a].wire, c)
      BY <2>2, <3>1, <3>2, <3>3, <3>5 DEF Follows
    <3>. QED BY <2>2, <3>6 DEF Linked, Openings, Following
  <2>20. Known(y.resume.at)
    BY <2>2 DEF ViewInv, Offered
  <2>21. sub' = [sub EXCEPT ![a] = sub[a]]
    BY <1>3, ReaderIs
  <2>22. PICK x : x = y
    OBVIOUS
  <2>23. /\ att' = [att EXCEPT ![a] = x] /\ Known(x.resume.at)
         /\ (conn[a].open => Linked(x, sub[a], page, conn[a].wire, journal.committed))
    BY <2>1, <2>19, <2>20, <2>22
  <2>. QED BY <1>1, <2>21, <2>23, SilentView
<1>. QED BY <1>1, <1>2, <1>3

\* A page whose resizes alone differ.
Same(p, q) ==
  /\ q.generation = p.generation /\ q.open = p.open /\ q.prepared = p.prepared /\ q.committed = p.committed
  /\ q.shown = p.shown /\ q.stream = p.stream /\ q.geometry = p.geometry /\ q.queue = p.queue
  /\ q.point = p.point /\ q.offer = p.offer

\* It is followed in the same way.
LEMMA SameFollowed ==
  ASSUME NEW p, NEW q, Same(p, q), NEW c
  PROVE  /\ viewing(q) = viewing(p) /\ queueEnd(q) = queueEnd(p)
         /\ View(p, c) => View(q, c)
         /\ Replaying(p, c) => Replaying(q, c)
         /\ Replayed(p) => Replayed(q)
         /\ \A w : Wired(p, w, c) => Wired(q, w, c)
         /\ \A x, s, w : Linked(x, s, p, w, c) => Linked(x, s, q, w, c)
<1>1. viewing(q) = viewing(p)
  BY DEF Same, viewing
<1>2. \A i : queueStart(q, i) = queueStart(p, i)
  BY DEF Same, queueStart
<1>3. queueEnd(q) = queueEnd(p)
  BY <1>2 DEF Same, queueEnd
<1>4. Queued(p, c) => Queued(q, c)
  BY <1>2 DEF Same, Queued
<1>5. View(p, c) => View(q, c)
  BY <1>4 DEF Same, View
<1>6. \A f : (Continues(p, f) => Continues(q, f)) /\ (Resets(p, f) => Resets(q, f))
  BY DEF Same, Continues, Resets
<1>7. Replaying(p, c) => Replaying(q, c)
  BY <1>1, <1>6 DEF Same, Replaying
<1>8. Replayed(p) => Replayed(q)
  BY DEF Same, Replayed
<1>9. \A w : OnTheWay(p, w, c) => OnTheWay(q, w, c)
  BY <1>3 DEF Same, OnTheWay
<1>10. \A f : preparable(f, p, c) => preparable(f, q, c)
  BY DEF Same, preparable
<1>11. ASSUME NEW w
       PROVE  /\ Unprepared(p, w) => Unprepared(q, w)
              /\ Preparing(p, w, c) => Preparing(q, w, c)
              /\ Prepared(p, w, c) => Prepared(q, w, c)
              /\ Admitted(p, w, c) => Admitted(q, w, c)
  <2>1. Unprepared(p, w) => Unprepared(q, w)
    BY DEF Same, Unprepared
  <2>2. Preparing(p, w, c) => Preparing(q, w, c)
    BY <1>10 DEF Same, Preparing
  <2>3. Prepared(p, w, c) => Prepared(q, w, c)
    BY <1>7 DEF Prepared
  <2>4. Admitted(p, w, c) => Admitted(q, w, c)
    BY <1>1, <1>9 DEF Same, Admitted
  <2>. QED BY <2>1, <2>2, <2>3, <2>4
<1>12. ASSUME NEW x, NEW s, NEW w
       PROVE  Linked(x, s, p, w, c) => Linked(x, s, q, w, c)
  <2>1. Opens(x, p, w) => Opens(x, q, w)
    BY <1>11 DEF Same, Opens
  <2>2. Prepares(x, s, p, w, c) => Prepares(x, s, q, w, c)
    BY <1>10, <1>11 DEF Prepares
  <2>3. Waits(x, s, p, w, c) => Waits(x, s, q, w, c)
    BY <1>11 DEF Same, Waits
  <2>4. Starts(x, s, p, w, c) => Starts(x, s, q, w, c)
    BY <1>11 DEF Same, Starts
  <2>5. Follows(x, s, p, w, c) => Follows(x, s, q, w, c)
    BY <1>3, <1>11 DEF Same, Follows
  <2>. QED BY <1>11, <2>1, <2>2, <2>3, <2>4, <2>5 DEF Linked
<1>. QED BY <1>1, <1>3, <1>5, <1>7, <1>8, <1>11, <1>12 DEF Wired

\* A resize that begins.
LEMMA BeginResizeView ==
  ASSUME ReadersInv, ViewInv, NEW a \in A, BeginResize(a)
  PROVE  ViewInv'
<1>. DEFINE y == [att[a] EXCEPT !.fence = "open"]
            c == journal.committed
<1>1. /\ att \in [A -> Atts] /\ att[a] \in Atts /\ page \in Pages
      /\ att' = [att EXCEPT ![a].fence = "open"] /\ page' = [page EXCEPT !.resizes = @ + 1]
      /\ UNCHANGED <<journal, sub, conn>>
  BY DEF ReadersInv, Shapes, BeginResize
<1>2. att'[a] = y /\ \A b \in A \ {a} : att'[b] = att[b]
  BY <1>1
<1>3. y.pc = att[a].pc /\ at_(y, att[a]) /\ y.ready = att[a].ready /\ y.resume = att[a].resume
  BY <1>1 DEF Atts, at_
<1>. HIDE DEF y
<1>4. Same(page, page')
  BY <1>1 DEF Same, Pages
<1>5. PICK p : p = page'
  OBVIOUS
<1>6. /\ viewing(p) = viewing(page)
      /\ View(page, c) => View(p, c)
      /\ Replaying(page, c) => Replaying(p, c)
      /\ Replayed(page) => Replayed(p)
      /\ \A w : Wired(page, w, c) => Wired(p, w, c)
      /\ \A x, s, w : Linked(x, s, page, w, c) => Linked(x, s, p, w, c)
  <2>1. Same(page, p)
    BY <1>4, <1>5
  <2>. QED BY <2>1, SameFollowed
<1>7. /\ p.generation = page.generation /\ p.open = page.open /\ p.prepared = page.prepared
      /\ p.committed = page.committed /\ p.queue = page.queue /\ p.point = page.point /\ p.offer = page.offer
  BY <1>4, <1>5 DEF Same
<1>8. Offered'
  <2>1. \A b \in A : Known(att'[b].resume.at)
    BY <1>2, <1>3 DEF ViewInv, Offered
  <2>. QED BY <1>5, <1>7, <2>1 DEF ViewInv, Offered
<1>9. Apart'
  BY <1>1, <1>5, <1>7 DEF ViewInv, Apart
<1>10. PageInv'
  <2>1. /\ p.prepared \in {0, p.generation}
        /\ \A i \in 1..Len(p.queue) : p.queue[i].gen <= p.generation
        /\ p.prepared = 0 => \A i \in 1..Len(p.queue) : p.queue[i].gen < p.generation
        /\ p.committed => p.open /\ p.prepared = p.generation
    BY <1>7 DEF ViewInv, PageInv
  <2>2. viewing(p) => View(p, c)
    BY <1>6 DEF ViewInv, PageInv
  <2>3. Replaying(p, c) \/ Replayed(p)
    BY <1>6 DEF ViewInv, PageInv
  <2>4. p.open => Wired(p, conn[p.generation].wire, c)
    BY <1>6, <1>7 DEF ViewInv, PageInv
  <2>5. journal'.committed = c /\ conn' = conn /\ page' = p
    BY <1>1, <1>5
  <2>. HIDE DEF c
  <2>. QED BY <2>1, <2>2, <2>3, <2>4, <2>5 DEF PageInv
<1>11. ASSUME NEW b \in A, conn[b].open
       PROVE  Linked(att'[b], sub[b], p, conn[b].wire, c)
  <2>1. Linked(att[b], sub[b], page, conn[b].wire, c)
    BY <1>11 DEF ViewInv
  <2>2. Linked(att'[b], sub[b], page, conn[b].wire, c)
    BY <1>2, <1>3, <2>1, LinkedSame
  <2>. QED BY <1>6, <2>2
<1>. QED BY <1>1, <1>5, <1>8, <1>9, <1>10, <1>11 DEF ViewInv

\* A step of a writer, or at one, keeps the view.
LEMMA WriterKeepsView ==
  ASSUME ReadersInv, ViewInv, NEW a \in A,
         Writer(a) \/ GraceEnds(a) \/ LoopEnds(a) \/ BeginResize(a) \/ SettleResize(a)
  PROVE  ViewInv'
BY AttachAcquiresView, OpenResolvesView, OpenReadsView, OpenRegistersView, OpenRefusedView, PrepareWritesView,
   CommitWritesView, FrameWritesView, WriteParksView, WriteFailsView, BacklogEndsView, HandEndsView, HandFailsView,
   TailTakesView, TailCatchesUpView, RejoinsView, ReadsRoundView, CatchUpEndsView, SeesVerdictView,
   TerminatesView, GraceEndsView, LoopEndsView, BeginResizeView, SettleResizeView DEF Writer

(***************************************************************************)
(* Steps of the page.                                                      *)
(***************************************************************************)

\* The page's connection ends, whatever the page forgets with it.
LEMMA ClosesView ==
  ASSUME ReadersInv, ViewInv, page.open, NEW q, page' = q, pageHangsUp, UNCHANGED <<journal, sub, att>>,
         ~q.open, ~q.committed, q.generation = page.generation, q.prepared = page.prepared,
         q.shown = page.shown, q.stream = page.stream, q.geometry = page.geometry, q.queue = page.queue,
         q.point = page.point \/ q.point = NoPoint, q.offer = page.offer \/ q.offer = NoPoint
  PROVE  ViewInv'
<1>. DEFINE c == journal.committed
<1>1. \A b \in A : conn'[b].wire = <<>> /\ ~conn'[b].open
  <2>. SUFFICES ASSUME NEW b \in A PROVE conn'[b].wire = <<>> /\ ~conn'[b].open
    OBVIOUS
  <2>1. conn \in [A -> Conns] /\ conn' = [conn EXCEPT ![page.generation] = [wire |-> <<>>, open |-> FALSE]]
    BY DEF ReadersInv, Shapes, pageHangsUp
  <2>2. CASE b = page.generation
    BY <2>1, <2>2
  <2>3. CASE b # page.generation
    <3>1. conn'[b] = conn[b]
      BY <2>1, <2>3
    <3>. QED BY <2>3, <3>1 DEF ViewInv, Apart
  <2>. QED BY <2>2, <2>3
<1>2. Offered'
  BY NothingOffered DEF ViewInv, Offered
<1>3. Apart'
  BY <1>1 DEF Apart
<1>4. /\ q.prepared \in {0, q.generation}
      /\ \A i \in 1..Len(q.queue) : q.queue[i].gen <= q.generation
      /\ q.prepared = 0 => \A i \in 1..Len(q.queue) : q.queue[i].gen < q.generation
  BY DEF ViewInv, PageInv
<1>5. viewing(q) => View(q, c)
  <2>. SUFFICES ASSUME viewing(q) PROVE View(q, c)
    OBVIOUS
  <2>1. q.point = page.point /\ q.point # NoPoint
    BY DEF viewing
  <2>2. View(page, c)
    BY <2>1 DEF viewing, ViewInv, PageInv
  <2>3. Queued(q, c)
    BY <2>2 DEF View, Queued, queueStart
  <2>. QED BY <2>1, <2>2, <2>3 DEF View
<1>6. Replaying(q, c) \/ Replayed(q)
  <2>1. CASE Replaying(page, c)
    <3>1. ~viewing(q)
      BY <2>1 DEF Replaying, viewing
    <3>2. \A f : (Continues(page, f) => Continues(q, f)) /\ (Resets(page, f) => Resets(q, f))
      BY DEF Continues, Resets
    <3>3. Replaying(q, c)
      BY <2>1, <3>1, <3>2 DEF Replaying
    <3>. QED BY <3>3
  <2>2. CASE Replayed(page)
    BY <2>2 DEF Replayed
  <2>. QED BY <2>1, <2>2 DEF ViewInv, PageInv
<1>7. PageInv'
  <2>1. journal'.committed = c /\ page' = q
    OBVIOUS
  <2>. HIDE DEF c
  <2>. QED BY <1>4, <1>5, <1>6, <2>1 DEF PageInv
<1>. QED BY <1>1, <1>2, <1>3, <1>7 DEF ViewInv

\* A page that is closed.
LEMMA PageClosedIs ==
  ASSUME NEW p \in Pages
  PROVE  LET q == pageClosed(p)
         IN /\ ~q.open /\ ~q.committed /\ q.generation = p.generation /\ q.prepared = p.prepared
            /\ q.shown = p.shown /\ q.stream = p.stream /\ q.geometry = p.geometry /\ q.queue = p.queue
            /\ q.point = p.point /\ q.offer = p.offer
BY DEF pageClosed, Pages

\* The network, the page or the front door ends the connection.
LEMMA PageDisconnectsView ==
  ASSUME ReadersInv, ViewInv, PageDisconnects
  PROVE  ViewInv'
<1>1. page \in Pages /\ page.open /\ page' = pageClosed(page) /\ pageHangsUp /\ UNCHANGED <<journal, sub, att>>
  BY DEF ReadersInv, Shapes, PageDisconnects
<1>2. PICK q : q = pageClosed(page)
  OBVIOUS
<1>3. /\ ~q.open /\ ~q.committed /\ q.generation = page.generation /\ q.prepared = page.prepared
      /\ q.shown = page.shown /\ q.stream = page.stream /\ q.geometry = page.geometry /\ q.queue = page.queue
      /\ q.point = page.point /\ q.offer = page.offer
  BY <1>1, <1>2, PageClosedIs
<1>. QED BY <1>1, <1>2, <1>3, ClosesView

\* The page connects again.
LEMMA PageConnectsView ==
  ASSUME ReadersInv, ViewInv, NEW reload \in BOOLEAN, PageConnects(reload)
  PROVE  ViewInv'
<1>. DEFINE g == page.generation + 1
            point == IF reload THEN NoPoint ELSE page.point
            offer == IF page.queue = <<>> THEN point ELSE NoPoint
            q == [page EXCEPT !.generation = g, !.open = TRUE, !.prepared = 0, !.committed = FALSE,
                              !.point = point, !.offer = offer]
            x == [att[g] EXCEPT !.pc = "attaching", !.resume = offer]
            k == [conn[g] EXCEPT !.open = TRUE]
            c == journal.committed
<1>1. /\ ~page.open /\ page \in Pages /\ page.generation < Attachments /\ UNCHANGED <<journal, sub>>
      /\ att \in [A -> Atts] /\ conn \in [A -> Conns]
      /\ page' = [page EXCEPT !.generation = g, !.open = TRUE, !.prepared = 0, !.committed = FALSE,
                              !.point = point, !.offer = offer]
      /\ att' = [att EXCEPT ![g] = [@ EXCEPT !.pc = "attaching", !.resume = offer]]
      /\ conn' = [conn EXCEPT ![g].open = TRUE]
  BY DEF ReadersInv, Shapes, PageConnects
<1>2. g \in A /\ g > page.generation /\ page.generation \in Nat /\ g # 0 /\ g # page.generation /\ g \in Nat
  <2>1. page.generation \in 0..Attachments /\ Attachments \in Nat
    BY <1>1, ConstantsAre DEF Pages
  <2>. QED BY <1>1, <2>1 DEF A
<1>3. page' = q /\ att' = [att EXCEPT ![g] = x] /\ conn' = [conn EXCEPT ![g] = k]
  BY <1>1, <1>2
<1>4. /\ q.generation = g /\ q.open /\ q.prepared = 0 /\ ~q.committed /\ q.point = point /\ q.offer = offer
      /\ q.shown = page.shown /\ q.stream = page.stream /\ q.geometry = page.geometry /\ q.queue = page.queue
  BY <1>1 DEF Pages
<1>5. att[g] = Idle /\ ~conn[g].open /\ conn[g].wire = <<>>
  BY <1>2 DEF ReadersInv, Connected, ViewInv, Apart
<1>6. x.pc = "attaching" /\ x.resume = offer /\ ~x.ready
  <2>1. Idle.ready = FALSE /\ att[g] \in Atts
    BY <1>1, <1>2 DEF Idle
  <2>. QED BY <1>5, <2>1 DEF Atts
<1>7. k.wire = <<>>
  <2>1. conn[g] \in Conns
    BY <1>1, <1>2
  <2>. QED BY <1>5, <2>1 DEF Conns
<1>8. Known(point.at) /\ Known(offer.at)
  BY NothingOffered DEF ViewInv, Offered
<1>. HIDE DEF q, x, k, point, offer, g
<1>9. /\ att'[g] = x /\ conn'[g] = k
      /\ \A b \in A \ {g} : att'[b] = att[b] /\ conn'[b] = conn[b]
  BY <1>1, <1>2, <1>3
<1>10. \A b \in A \ {g} : conn'[b].wire = <<>> /\ ~conn'[b].open
  BY <1>1, <1>9 DEF ViewInv, Apart
<1>11. Offered'
  <2>1. \A b \in A : Known(att'[b].resume.at)
    BY <1>6, <1>8, <1>9 DEF ViewInv, Offered
  <2>. QED BY <1>3, <1>4, <1>8, <2>1 DEF Offered
<1>12. Apart'
  BY <1>3, <1>4, <1>10 DEF Apart
<1>13. \A i \in 1..Len(q.queue) : q.queue[i].gen \in Nat \ {0} /\ q.queue[i].gen < g
  <2>. SUFFICES ASSUME NEW i \in 1..Len(q.queue) PROVE q.queue[i].gen \in Nat \ {0} /\ q.queue[i].gen < g
    OBVIOUS
  <2>1. page.queue[i].gen <= page.generation
    BY <1>4 DEF ViewInv, PageInv
  <2>2. page.queue[i] \in Writes
    BY <1>1, <1>4 DEF Pages, Pending
  <2>3. page.queue[i].gen \in 1..Attachments /\ Attachments \in Nat
    BY <2>2, ConstantsAre DEF Writes, A
  <2>. QED BY <1>2, <1>4, <2>1, <2>3 DEF g
<1>14. viewing(q) => View(q, c)
  <2>. SUFFICES ASSUME viewing(q) PROVE View(q, c)
    OBVIOUS
  <2>1. q.point = page.point /\ q.point # NoPoint
    BY <1>4 DEF viewing, point
  <2>2. View(page, c)
    BY <2>1 DEF viewing, ViewInv, PageInv
  <2>3. Queued(q, c)
    BY <1>4, <2>2 DEF View, Queued, queueStart
  <2>. QED BY <1>4, <2>1, <2>2, <2>3 DEF View
<1>15. Replayed(q)
  BY <1>4, <1>13 DEF Replayed
<1>16. Unprepared(q, k.wire)
  BY <1>4, <1>7 DEF Unprepared
<1>17. PageInv'
  <2>1. journal'.committed = c /\ page' = q /\ conn'[q.generation].wire = k.wire
    BY <1>1, <1>3, <1>4, <1>9
  <2>2. /\ q.prepared \in {0, q.generation} /\ ~q.committed
        /\ \A i \in 1..Len(q.queue) : q.queue[i].gen <= q.generation
        /\ \A i \in 1..Len(q.queue) : q.queue[i].gen < q.generation
    BY <1>2, <1>4, <1>13
  <2>. HIDE DEF c
  <2>. QED BY <1>14, <1>15, <1>16, <2>1, <2>2 DEF PageInv, Wired
<1>18. Linked(x, sub[g], q, k.wire, c)
  <2>1. Opens(x, q, k.wire)
    BY <1>4, <1>6, <1>16 DEF Opens
  <2>. QED BY <1>6, <2>1 DEF Linked, Openings, Following
<1>19. \A b \in A : conn'[b].open => Linked(att'[b], sub'[b], page', conn'[b].wire, journal'.committed)
  BY <1>1, <1>3, <1>9, <1>10, <1>18
<1>. QED BY <1>11, <1>12, <1>17, <1>19 DEF ViewInv

\* A step of a connected page that takes a frame.
LEMMA TakesView ==
  ASSUME ReadersInv, ViewInv, NEW g \in A, g = page.generation, page.open, NEW q, page' = q, q.generation = g, q.open,
         NEW w, conn' = [conn EXCEPT ![g].wire = w], UNCHANGED <<journal, sub, att>>,
         Known(q.point.at), Known(q.offer.at),
         q.prepared \in {0, g}, q.committed => q.prepared = g,
         \A i \in 1..Len(q.queue) : q.queue[i].gen <= g,
         q.prepared = 0 => \A i \in 1..Len(q.queue) : q.queue[i].gen < g,
         viewing(q) => View(q, journal.committed),
         Replaying(q, journal.committed) \/ Replayed(q),
         Wired(q, w, journal.committed),
         conn[g].open => Linked(att[g], sub[g], q, w, journal.committed)
  PROVE  ViewInv'
<1>. DEFINE c == journal.committed
<1>1. conn \in [A -> Conns] /\ conn[g] \in Conns
  BY DEF ReadersInv, Shapes
<1>2. /\ conn'[g].wire = w /\ conn'[g].open = conn[g].open
      /\ \A b \in A \ {g} : conn'[b] = conn[b]
  BY <1>1 DEF Conns
<1>3. \A b \in A \ {g} : conn'[b].wire = <<>> /\ ~conn'[b].open
  BY <1>2 DEF ViewInv, Apart
<1>4. Offered' /\ Apart'
  BY <1>3 DEF ViewInv, Offered, Apart
<1>5. PageInv'
  <2>1. journal'.committed = c /\ page' = q /\ conn'[q.generation].wire = w
    BY <1>2
  <2>. HIDE DEF c
  <2>2. /\ viewing(q) => View(q, c)
        /\ Replaying(q, c) \/ Replayed(q)
        /\ Wired(q, w, c)
    BY DEF c
  <2>. QED BY <2>1, <2>2 DEF PageInv
<1>6. \A b \in A : conn'[b].open => Linked(att'[b], sub'[b], page', conn'[b].wire, journal'.committed)
  BY <1>2, <1>3
<1>. QED BY <1>4, <1>5, <1>6 DEF ViewInv

\* The frames on the way, without the first: where they begin and end.
LEMMA WireTakes ==
  ASSUME NEW w \in Outs, w # <<>>, NEW k, NEW j, j = IF w[1].kind = "COMMIT" THEN k ELSE ending(w[1]),
         \A i \in 2..Len(w) : w[i].kind # "COMMIT"
  PROVE  LET v == Tail(w)
         IN /\ v \in Outs /\ Len(w) \in Nat /\ Len(w) >= 1 /\ Len(v) = Len(w) - 1 /\ Head(w) = w[1] /\ w[1] \in Frame
            /\ \A i \in 1..Len(v) : v[i] = w[i + 1]
            /\ \A i \in 1..Len(w) : wireStart(v, j, i) = wireStart(w, k, i + 1)
            /\ wireEnd(v, j) = wireEnd(w, k)
<1>. DEFINE v == Tail(w)
<1>1. /\ v \in Outs /\ Len(w) \in Nat /\ Len(w) >= 1 /\ Len(v) = Len(w) - 1 /\ Head(w) = w[1] /\ w[1] \in Frame
      /\ \A i \in 1..Len(v) : v[i] = w[i + 1]
  BY HeadTail DEF Outs
<1>. HIDE DEF v
<1>2. ASSUME NEW i \in 1..Len(w) PROVE wireStart(v, j, i) = wireStart(w, k, i + 1)
  <2>1. CASE i = 1
    BY <2>1 DEF wireStart
  <2>2. CASE i # 1
    <3>1. i - 1 \in 1..Len(v) /\ i + 1 # 1 /\ (i + 1) - 1 = i /\ (i - 1) + 1 = i
      BY <1>1, <2>2
    <3>2. v[i - 1] = w[i]
      BY <1>1, <3>1
    <3>3. w[i].kind # "COMMIT"
      BY <1>1, <2>2
    <3>4. wireStart(v, j, i) = ending(w[i])
      BY <2>2, <3>2, <3>3 DEF wireStart
    <3>5. wireStart(w, k, i + 1) = ending(w[i])
      BY <3>1, <3>3 DEF wireStart
    <3>. QED BY <3>4, <3>5
  <2>. QED BY <2>1, <2>2
<1>3. wireEnd(v, j) = wireEnd(w, k)
  <2>1. PICK n : n = Len(w)
    OBVIOUS
  <2>2. n \in 1..Len(w) /\ Len(v) + 1 = n /\ Len(w) + 1 = n + 1
    BY <1>1, <2>1
  <2>3. wireStart(v, j, n) = wireStart(w, k, n + 1)
    BY <1>2, <2>2
  <2>. QED BY <2>2, <2>3 DEF wireEnd
<1>. QED BY <1>1, <1>2, <1>3 DEF v

\* What is on the way once the first frame is taken.
LEMMA OnTheWayTakes ==
  ASSUME NEW p, NEW q, NEW c, NEW w \in Outs, w # <<>>, OnTheWay(p, w, c), q.stream = p.stream, q.committed,
         queueEnd(q) = IF w[1].kind = "COMMIT" THEN queueEnd(p) ELSE ending(w[1])
  PROVE  /\ OnTheWay(q, Tail(w), c) /\ wireEnd(Tail(w), queueEnd(q)) = wireEnd(w, queueEnd(p))
         /\ endless(w) => endless(Tail(w))
<1>. DEFINE v == Tail(w)
<1>1. PICK k : k = queueEnd(p)
  OBVIOUS
<1>2. PICK j : j = queueEnd(q)
  OBVIOUS
<1>3. /\ v \in Outs /\ Len(w) \in Nat /\ Len(w) >= 1 /\ Len(v) = Len(w) - 1
      /\ \A i \in 1..Len(v) : v[i] = w[i + 1]
      /\ \A i \in 1..Len(w) : wireStart(v, j, i) = wireStart(w, k, i + 1)
      /\ wireEnd(v, j) = wireEnd(w, k)
  <2>1. j = IF w[1].kind = "COMMIT" THEN k ELSE ending(w[1])
    BY <1>1, <1>2
  <2>2. Len(w) \in Nat
    BY HeadTail DEF Outs
  <2>3. ASSUME NEW i \in 2..Len(w) PROVE w[i].kind # "COMMIT"
    <3>1. i \in 1..Len(w) /\ i # 1
      BY <2>2
    <3>. QED BY <3>1 DEF OnTheWay, good
  <2>. QED BY <2>1, <2>3, WireTakes
<1>. HIDE DEF v
<1>4. ASSUME NEW i \in 1..Len(v)
      PROVE  \/ v[i].kind = "END" /\ i = Len(v)
             \/ /\ good(v[i]) /\ (i = 1 => q.committed)
                /\ begun(v[i]) = wireStart(v, j, i) /\ ending(v[i]) <= upto(c[q.stream])
  <2>1. /\ i + 1 \in 1..Len(w) /\ i \in 1..Len(w) /\ i + 1 # 1 /\ v[i] = w[i + 1] /\ i \in Nat
        /\ (i + 1 = Len(w) => i = Len(v))
    BY <1>3
  <2>2. PICK m : m = i + 1
    OBVIOUS
  <2>3. \/ w[m].kind = "END" /\ m = Len(w)
        \/ w[m].kind = "COMMIT" /\ m = 1 /\ ~p.committed
        \/ /\ good(w[m]) /\ (m = 1 => p.committed)
           /\ begun(w[m]) = wireStart(w, k, m) /\ ending(w[m]) <= upto(c[p.stream])
    BY <1>1, <2>1, <2>2 DEF OnTheWay
  <2>4. wireStart(v, j, i) = wireStart(w, k, m)
    BY <1>3, <2>1, <2>2
  <2>. QED BY <2>1, <2>2, <2>3, <2>4
<1>5. OnTheWay(q, v, c)
  BY <1>2, <1>4 DEF OnTheWay
<1>6. ASSUME endless(w) PROVE endless(v)
  <2>1. ASSUME NEW i \in 1..Len(v) PROVE v[i].kind # "END"
    <3>1. i + 1 \in 1..Len(w) /\ v[i] = w[i + 1]
      BY <1>3
    <3>. QED BY <1>6, <3>1 DEF endless
  <2>. QED BY <2>1 DEF endless
<1>. QED BY <1>1, <1>2, <1>3, <1>5, <1>6 DEF v

\* The first frame on the way, of a connected page.
LEMMA FirstFrame ==
  ASSUME NEW p, p.generation # 0, NEW w \in Outs, w # <<>>, NEW c, Wired(p, w, c)
  PROVE  /\ w[1].kind = "PREPARE" => Preparing(p, w, c)
         /\ w[1].kind # "PREPARE" => Admitted(p, w, c)
         /\ w[1].kind = "COMMIT" => ~p.committed
         /\ w[1].kind \in {"LIVE", "RESIZE"} => good(w[1]) /\ p.committed /\ begun(w[1]) = queueEnd(p)
                                                /\ ending(w[1]) <= upto(c[p.stream])
<1>1. Len(w) \in Nat /\ Len(w) >= 1 /\ 1 \in 1..Len(w)
  BY HeadTail DEF Outs
<1>2. Preparing(p, w, c) \/ Admitted(p, w, c)
  BY DEF Wired, Unprepared, Prepared
<1>3. CASE Preparing(p, w, c)
  BY <1>3 DEF Preparing, preparable
<1>4. CASE Admitted(p, w, c)
  <2>1. \/ w[1].kind = "END"
        \/ w[1].kind = "COMMIT" /\ ~p.committed
        \/ /\ good(w[1]) /\ p.committed
           /\ begun(w[1]) = wireStart(w, queueEnd(p), 1) /\ ending(w[1]) <= upto(c[p.stream])
    BY <1>1, <1>4 DEF Admitted, OnTheWay
  <2>2. good(w[1]) => w[1].kind \in {"LIVE", "RESIZE"}
    BY DEF good
  <2>3. wireStart(w, queueEnd(p), 1) = queueEnd(p)
    BY DEF wireStart
  <2>. QED BY <1>4, <2>1, <2>2, <2>3
<1>. QED BY <1>2, <1>3, <1>4

\* What the page takes a frame from.
LEMMA ReceivedIs ==
  ASSUME ReadersInv, ViewInv, PageReceives
  PROVE  LET g == page.generation
             w == conn[g].wire
         IN /\ page \in Pages /\ page.open /\ g \in A /\ g # 0 /\ g \in Nat /\ conn[g] \in Conns
            /\ w \in Outs /\ w # <<>> /\ Head(w) = w[1] /\ w[1] \in Frame
            /\ Wired(page, w, journal.committed)
            /\ conn[g].open => Linked(att[g], sub[g], page, w, journal.committed)
            /\ UNCHANGED <<journal, sub, att>>
<1>. DEFINE g == page.generation
            w == conn[g].wire
<1>1. page \in Pages /\ page.open /\ w # <<>> /\ UNCHANGED <<journal, sub, att>> /\ g # 0
  BY DEF ReadersInv, Shapes, Paged, PageReceives
<1>2. g \in A /\ g \in Nat
  BY <1>1, ConstantsAre DEF Pages, A
<1>3. conn[g] \in Conns
  BY <1>2 DEF ReadersInv, Shapes
<1>4. w \in Outs /\ Head(w) = w[1] /\ w[1] \in Frame
  <2>1. w \in Outs
    BY <1>3 DEF Conns
  <2>. HIDE DEF w
  <2>. QED BY <1>1, <2>1, HeadTail DEF Outs
<1>5. Wired(page, w, journal.committed)
  BY <1>1 DEF ViewInv, PageInv
<1>6. conn[g].open => Linked(att[g], sub[g], page, w, journal.committed)
  BY <1>2 DEF ViewInv
<1>. HIDE DEF w, g
<1>7. QED
  BY <1>1, <1>2, <1>3, <1>4, <1>5, <1>6 DEF w, g

\* A frame the page cannot take ends the connection.
LEMMA RefusesView ==
  ASSUME ReadersInv, ViewInv, PageReceives, ~inState(Head(conn[page.generation].wire))
  PROVE  ViewInv'
<1>. DEFINE f == Head(conn[page.generation].wire)
            forgotten == [page EXCEPT !.point = NoPoint, !.offer = NoPoint]
<1>1. page \in Pages /\ page.open /\ UNCHANGED <<journal, sub, att>>
  BY ReceivedIs
<1>2. page' = pageClosed(IF f.kind = "PREPARE" THEN forgotten ELSE page) /\ pageHangsUp
  BY DEF PageReceives
<1>3. /\ forgotten \in Pages /\ forgotten.generation = page.generation /\ forgotten.queue = page.queue
      /\ forgotten.prepared = page.prepared /\ forgotten.shown = page.shown /\ forgotten.stream = page.stream
      /\ forgotten.geometry = page.geometry /\ forgotten.point = NoPoint /\ forgotten.offer = NoPoint
  <2>0. page.generation \in 0..Attachments
    BY <1>1 DEF Pages
  <2>1. forgotten \in Pages
    BY <1>1, <2>0, PageForgets
  <2>. QED BY <1>1, <2>1 DEF Pages
<1>. HIDE DEF forgotten, f
<1>4. PICK p \in Pages : page' = pageClosed(p) /\ p \in {page, forgotten}
  BY <1>1, <1>2, <1>3
<1>5. PICK q : q = pageClosed(p)
  OBVIOUS
<1>6. /\ ~q.open /\ ~q.committed /\ q.generation = p.generation /\ q.prepared = p.prepared
      /\ q.shown = p.shown /\ q.stream = p.stream /\ q.geometry = p.geometry /\ q.queue = p.queue
      /\ q.point = p.point /\ q.offer = p.offer
  BY <1>5, PageClosedIs
<1>7. /\ q.generation = page.generation /\ q.prepared = page.prepared
      /\ q.shown = page.shown /\ q.stream = page.stream /\ q.geometry = page.geometry /\ q.queue = page.queue
      /\ q.point = page.point \/ q.point = NoPoint
      /\ q.offer = page.offer \/ q.offer = NoPoint
  BY <1>3, <1>4, <1>6
<1>. QED BY <1>1, <1>2, <1>4, <1>5, <1>6, <1>7, ClosesView

\* The writer of a page that takes PREPARE.
LEMMA PreparedLinked ==
  ASSUME NEW x, NEW s, NEW p, NEW w, NEW c, Linked(x, s, p, w, c), p.generation # 0, Preparing(p, w, c),
         NEW q, Prepared(q, <<>>, c), q.queue[Len(q.queue)].frame = w[1]
  PROVE  Linked(x, s, q, <<>>, c)
<1>1. w # <<>> /\ p.prepared = 0
  BY DEF Preparing
<1>2. ~Unprepared(p, w) /\ ~Admitted(p, w, c) /\ ~Prepared(p, w, c)
  BY <1>1 DEF Unprepared, Admitted, Prepared
<1>3. x.pc \notin Openings /\ x.pc # "preparing" /\ x.pc \notin Following /\ x.pc # "ending"
  BY <1>2 DEF Linked, Opens, Prepares, Follows
<1>4. x.pc = "prepared" => Waits(x, s, q, <<>>, c)
  BY <1>2 DEF Linked, Waits, Starts
<1>. QED BY <1>3, <1>4 DEF Linked

\* The writer of an admitted page that takes what was on the way.
LEMMA AdmittedLinked ==
  ASSUME NEW x, NEW s, NEW p, NEW w, NEW c, Linked(x, s, p, w, c), p.generation # 0, Admitted(p, w, c), w # <<>>,
         NEW q, NEW v, Admitted(q, v, c), q.committed, q.stream = p.stream,
         wireEnd(v, queueEnd(q)) = wireEnd(w, queueEnd(p)), endless(w) => endless(v)
  PROVE  Linked(x, s, q, v, c)
<1>1. ~Unprepared(p, w) /\ ~Preparing(p, w, c) /\ ~Prepared(p, w, c)
  BY DEF Unprepared, Admitted, Prepared, Preparing
<1>2. x.pc \notin Openings /\ x.pc # "preparing" /\ x.pc # "prepared"
  BY <1>1 DEF Linked, Opens, Prepares, Waits, Starts
<1>3. Follows(x, s, p, w, c) => Follows(x, s, q, v, c)
  BY DEF Follows
<1>. QED BY <1>2, <1>3 DEF Linked

\* What is written to the terminal comes after what is queued.
LEMMA QueueGrows ==
  ASSUME NEW p, p.queue \in Pending, NEW r \in Writes, NEW q, q.queue = Append(p.queue, r), q.shown = p.shown
  PROVE  LET n == Len(p.queue)
         IN /\ n \in Nat /\ Len(q.queue) = n + 1 /\ q.queue # <<>> /\ q.queue[n + 1] = r
            /\ \A i \in 1..n : q.queue[i] = p.queue[i]
            /\ \A i \in 1..(n + 1) : queueStart(q, i) = queueStart(p, i)
            /\ queueEnd(p) = queueStart(p, n + 1) /\ queueEnd(q) = ending(r.frame)
<1>. DEFINE n == Len(p.queue)
<1>1. /\ n \in Nat /\ Len(q.queue) = n + 1 /\ q.queue # <<>> /\ q.queue[n + 1] = r
      /\ \A i \in 1..n : q.queue[i] = p.queue[i]
  BY Appended DEF Pending
<1>. HIDE DEF n
<1>2. ASSUME NEW i \in 1..(n + 1) PROVE queueStart(q, i) = queueStart(p, i)
  <2>1. CASE i = 1
    BY <2>1 DEF queueStart
  <2>2. CASE i # 1
    <3>1. i - 1 \in 1..n
      BY <1>1, <2>2
    <3>2. q.queue[i - 1] = p.queue[i - 1]
      BY <1>1, <3>1
    <3>. QED BY <2>2, <3>2 DEF queueStart
  <2>. QED BY <2>1, <2>2
<1>3. queueEnd(p) = queueStart(p, n + 1)
  BY DEF queueEnd, n
<1>4. queueEnd(q) = ending(r.frame)
  <2>1. n + 2 # 1 /\ (n + 2) - 1 = n + 1 /\ Len(q.queue) + 1 = n + 2
    BY <1>1
  <2>. QED BY <1>1, <2>1 DEF queueEnd, queueStart
<1>. QED BY <1>1, <1>2, <1>3, <1>4 DEF n

\* PREPARE continues what the terminal shows.
LEMMA ResumedView ==
  ASSUME ReadersInv, ViewInv, PageReceives, NEW f, f = Head(conn[page.generation].wire),
         inState(f), f.kind = "PREPARE", f.resumed
  PROVE  ViewInv'
<1>. DEFINE g == page.generation
            w == conn[g].wire
            c == journal.committed
            r == write("REPLAY", f)
<1>1. /\ page \in Pages /\ page.open /\ g \in A /\ g # 0 /\ g \in Nat /\ conn[g] \in Conns
      /\ w \in Outs /\ w # <<>> /\ f = w[1] /\ f \in Frame /\ Wired(page, w, c)
      /\ conn[g].open => Linked(att[g], sub[g], page, w, c)
      /\ UNCHANGED <<journal, sub, att>>
  BY ReceivedIs
<1>2. PICK q : q = [page EXCEPT !.point = NoPoint, !.offer = NoPoint, !.prepared = g, !.queue = Append(@, r)]
  OBVIOUS
<1>3. page' = q /\ conn' = [conn EXCEPT ![g].wire = Tail(w)]
  <2>1. page' = [[[page EXCEPT !.point = NoPoint, !.offer = NoPoint] EXCEPT !.prepared = g] EXCEPT !.queue = Append(@, r)]
    BY DEF PageReceives
  <2>2. conn' = [conn EXCEPT ![g].wire = Tail(@)]
    BY DEF PageReceives
  <2>. QED BY <1>1, <1>2, <2>1, <2>2 DEF Pages, Conns
<1>4. /\ q.generation = g /\ q.open /\ q.prepared = g /\ q.committed = page.committed /\ q.point = NoPoint
      /\ q.offer = NoPoint /\ q.shown = page.shown /\ q.stream = page.stream /\ q.geometry = page.geometry
      /\ q.queue = Append(page.queue, r)
  BY <1>1, <1>2 DEF Pages
<1>5. Preparing(page, w, c) /\ preparable(f, page, c)
  <2>. HIDE DEF w, c, g
  <2>1. Preparing(page, w, c)
    BY <1>1, FirstFrame DEF g
  <2>. QED BY <1>1, <2>1 DEF Preparing
<1>6. /\ page.queue = <<>> /\ page.point # NoPoint /\ page.point.stream = f.stream
      /\ page.point.at = page.offer.at /\ f.geometry = page.geometry
  BY DEF inState, resumeHolds
<1>7. View(page, c)
  BY <1>6 DEF viewing, ViewInv, PageInv
<1>8. page.prepared = 0 /\ ~page.committed /\ Tail(w) = <<>>
  <2>1. Len(w) = 1 /\ page.prepared = 0 /\ ~page.committed
    BY <1>5 DEF Preparing
  <2>. HIDE DEF w
  <2>2. PICK v : v = Tail(w)
    OBVIOUS
  <2>3. w \in Seq(Frame)
    BY <1>1 DEF Outs
  <2>4. v \in Seq(Frame) /\ Len(v) = Len(w) - 1
    BY <1>1, <2>2, <2>3, HeadTail
  <2>5. v = <<>>
    BY <2>1, <2>4
  <2>. QED BY <2>1, <2>2, <2>5
<1>9. begun(f) = Len(page.shown)
  <2>1. page.point.at = at(Len(page.shown)) /\ Len(page.shown) <= upto(c[page.stream]) /\ page.stream \in Gen
    BY <1>6, <1>7 DEF View
  <2>2. Len(page.shown) \in Nat /\ c[page.stream] \in 0..LastRecord
    BY <1>1, <2>1, JournalIs DEF Pages, Shown
  <2>3. PICK m \in 0..LastRecord : m = c[page.stream]
    BY <2>2
  <2>4. upto(m) \in 0..N /\ N \in Nat
    BY Bounds
  <2>5. Len(page.shown) \in 0..N
    BY <2>1, <2>2, <2>3, <2>4
  <2>6. consumed(page.offer.at) = Len(page.shown)
    BY <1>6, <2>1, <2>5, AtIs
  <2>. QED BY <1>5, <2>6 DEF preparable
<1>10. /\ r.op = "REPLAY" /\ r.gen = g /\ r.frame = f /\ r \in Writes
       /\ q.queue = <<r>> /\ Len(q.queue) = 1 /\ q.queue[1] = r
  <2>1. r = [op |-> "REPLAY", gen |-> g, frame |-> f]
    BY DEF write
  <2>2. r \in Writes
    BY <1>1, <2>1 DEF Writes
  <2>. QED BY <1>4, <1>6, <2>1, <2>2
<1>. HIDE DEF w, c, r, g
<1>11. ~viewing(q)
  BY <1>4, <1>8 DEF viewing
<1>12. Continues(q, f)
  <2>1. page.shown = run(0, begun(f)) /\ page.geometry = inForce(page.shown) /\ page.stream = f.stream
    BY <1>6, <1>7, <1>9 DEF View
  <2>. QED BY <1>4, <1>10, <2>1 DEF Continues
<1>13. Replaying(q, c)
  <2>1. replayable(f, c)
    BY <1>5 DEF preparable
  <2>. QED BY <1>1, <1>4, <1>10, <1>11, <1>12, <2>1 DEF Replaying
<1>14. Prepared(q, Tail(w), c) /\ Wired(q, Tail(w), c)
  BY <1>8, <1>13 DEF Prepared, Wired
<1>15. conn[g].open => Linked(att[g], sub[g], q, Tail(w), c)
  <2>1. page.generation # 0 /\ q.queue[Len(q.queue)].frame = w[1]
    BY <1>1, <1>10 DEF g
  <2>. QED BY <1>1, <1>5, <1>8, <1>14, <2>1, PreparedLinked
<1>16. /\ Known(q.point.at) /\ Known(q.offer.at)
       /\ q.prepared \in {0, g} /\ (q.committed => q.prepared = g)
       /\ \A i \in 1..Len(q.queue) : q.queue[i].gen <= g
       /\ q.prepared # 0
  <2>1. \A i \in 1..Len(q.queue) : q.queue[i].gen <= g
    BY <1>1, <1>10
  <2>. QED BY <1>1, <1>4, <2>1, NothingOffered
<1>. QED BY <1>1, <1>3, <1>4, <1>11, <1>13, <1>14, <1>15, <1>16, TakesView DEF c, g

\* PREPARE begins again.
LEMMA RestartedView ==
  ASSUME ReadersInv, ViewInv, PageReceives, NEW f, f = Head(conn[page.generation].wire),
         f.kind = "PREPARE", ~f.resumed
  PROVE  ViewInv'
<1>. DEFINE g == page.generation
            w == conn[g].wire
            c == journal.committed
            z == write("RESET", f)
            r == write("REPLAY", f)
            n == Len(page.queue)
<1>1. /\ page \in Pages /\ page.open /\ g \in A /\ g # 0 /\ g \in Nat /\ conn[g] \in Conns
      /\ w \in Outs /\ w # <<>> /\ f = w[1] /\ f \in Frame /\ Wired(page, w, c)
      /\ conn[g].open => Linked(att[g], sub[g], page, w, c)
      /\ UNCHANGED <<journal, sub, att>>
  BY ReceivedIs
<1>2. PICK q : q = [page EXCEPT !.point = NoPoint, !.offer = NoPoint, !.prepared = g, !.queue = @ \o <<z, r>>]
  OBVIOUS
<1>3. page' = q /\ conn' = [conn EXCEPT ![g].wire = Tail(w)]
  <2>0. inState(f)
    BY DEF inState
  <2>1. page' = [[[page EXCEPT !.point = NoPoint, !.offer = NoPoint] EXCEPT !.prepared = g] EXCEPT !.queue = @ \o <<z, r>>]
    BY <2>0 DEF PageReceives
  <2>2. conn' = [conn EXCEPT ![g].wire = Tail(@)]
    BY <2>0 DEF PageReceives
  <2>. QED BY <1>1, <1>2, <2>1, <2>2 DEF Pages, Conns
<1>4. /\ q.generation = g /\ q.open /\ q.prepared = g /\ q.committed = page.committed /\ q.point = NoPoint
      /\ q.offer = NoPoint /\ q.shown = page.shown /\ q.stream = page.stream /\ q.geometry = page.geometry
      /\ q.queue = page.queue \o <<z, r>>
  BY <1>1, <1>2 DEF Pages
<1>5. Preparing(page, w, c) /\ preparable(f, page, c)
  <2>. HIDE DEF w, c, g
  <2>1. Preparing(page, w, c)
    BY <1>1, FirstFrame DEF g
  <2>. QED BY <1>1, <2>1 DEF Preparing
<1>6. \A i \in 1..n : page.queue[i].gen < g
  BY <1>5 DEF Preparing, ViewInv, PageInv
<1>8. page.prepared = 0 /\ ~page.committed /\ Tail(w) = <<>>
  <2>1. Len(w) = 1 /\ page.prepared = 0 /\ ~page.committed
    BY <1>5 DEF Preparing
  <2>. HIDE DEF w
  <2>2. PICK v : v = Tail(w)
    OBVIOUS
  <2>3. w \in Seq(Frame)
    BY <1>1 DEF Outs
  <2>4. v \in Seq(Frame) /\ Len(v) = Len(w) - 1
    BY <1>1, <2>2, <2>3, HeadTail
  <2>5. v = <<>>
    BY <2>1, <2>4
  <2>. QED BY <2>1, <2>2, <2>5
<1>9. /\ z.op = "RESET" /\ z.gen = g /\ z.frame = f /\ r.op = "REPLAY" /\ r.gen = g /\ r.frame = f
      /\ r \in Writes /\ z \in Writes
  <2>1. r = [op |-> "REPLAY", gen |-> g, frame |-> f] /\ z = [op |-> "RESET", gen |-> g, frame |-> f]
    BY DEF write
  <2>. QED BY <1>1, <2>1 DEF Writes
<1>10. n \in Nat /\ \A i \in 1..n : page.queue[i] \in Writes /\ page.queue[i].gen \in Nat
  <2>1. page.queue \in Seq(Writes)
    BY <1>1 DEF Pages, Pending
  <2>2. n \in Nat /\ \A i \in 1..n : page.queue[i] \in Writes
    BY <2>1
  <2>. QED BY <2>2 DEF Writes, A
<1>11. /\ Len(q.queue) = n + 2 /\ q.queue[n + 1] = z /\ q.queue[n + 2] = r /\ q.queue # <<>>
       /\ \A i \in 1..n : q.queue[i] = page.queue[i]
  <2>1. page.queue \in Seq(Writes) /\ <<z, r>> \in Seq(Writes) /\ Len(<<z, r>>) = 2
        /\ <<z, r>>[1] = z /\ <<z, r>>[2] = r
    BY <1>1, <1>9 DEF Pages, Pending
  <2>. HIDE DEF z, r
  <2>2. PICK b : b = <<z, r>>
    OBVIOUS
  <2>3. Len(page.queue \o b) = n + 2 /\ \A i \in 1..(n + 2) : (page.queue \o b)[i] = IF i <= n THEN page.queue[i] ELSE b[i - n]
    BY <2>1, <2>2
  <2>4. n + 1 \in 1..(n + 2) /\ n + 2 \in 1..(n + 2) /\ ~(n + 1 <= n) /\ ~(n + 2 <= n) /\ (n + 1) - n = 1 /\ (n + 2) - n = 2
        /\ \A i \in 1..n : i \in 1..(n + 2) /\ i <= n
    BY <1>10
  <2>5. q.queue = page.queue \o b
    BY <1>4, <2>2
  <2>6. Len(q.queue) = n + 2
    BY <2>3, <2>5
  <2>7. q.queue # <<>>
    BY <1>10, <2>6
  <2>. HIDE DEF n
  <2>8. q.queue[n + 1] = z /\ q.queue[n + 2] = r
    BY <2>1, <2>2, <2>3, <2>4, <2>5
  <2>9. \A i \in 1..n : q.queue[i] = page.queue[i]
    BY <2>3, <2>4, <2>5
  <2>. QED BY <2>6, <2>7, <2>8, <2>9
<1>. HIDE DEF w, c, r, g, z, n
<1>12. ~viewing(q)
  BY <1>4, <1>8 DEF viewing
<1>13. Resets(q, f)
  <2>1. Len(q.queue) >= 2 /\ Len(q.queue) - 1 = n + 1 /\ Len(q.queue) - 2 = n
    BY <1>10, <1>11
  <2>2. \A i \in 1..n : q.queue[i].gen < q.generation
    BY <1>4, <1>6, <1>11
  <2>3. begun(f) = 0 /\ f.geometry = 0
    BY <1>5 DEF preparable
  <2>. QED BY <1>4, <1>9, <1>11, <2>1, <2>2, <2>3 DEF Resets
<1>14. Replaying(q, c)
  <2>1. replayable(f, c)
    BY <1>5 DEF preparable
  <2>. QED BY <1>1, <1>4, <1>9, <1>11, <1>12, <1>13, <2>1 DEF Replaying
<1>15. Prepared(q, Tail(w), c) /\ Wired(q, Tail(w), c)
  BY <1>8, <1>14 DEF Prepared, Wired
<1>16. conn[g].open => Linked(att[g], sub[g], q, Tail(w), c)
  <2>1. page.generation # 0 /\ q.queue[Len(q.queue)].frame = w[1]
    BY <1>1, <1>9, <1>11 DEF g
  <2>. QED BY <1>1, <1>5, <1>8, <1>15, <2>1, PreparedLinked
<1>17. /\ Known(q.point.at) /\ Known(q.offer.at)
       /\ q.prepared \in {0, g} /\ (q.committed => q.prepared = g)
       /\ \A i \in 1..Len(q.queue) : q.queue[i].gen <= g
       /\ q.prepared # 0
  <2>1. ASSUME NEW i \in 1..Len(q.queue) PROVE q.queue[i].gen <= g
    <3>1. i \in 1..n \/ i = n + 1 \/ i = n + 2
      BY <1>10, <1>11
    <3>2. CASE i \in 1..n
      BY <1>1, <1>6, <1>10, <1>11, <3>2
    <3>3. CASE i = n + 1 \/ i = n + 2
      BY <1>1, <1>9, <1>11, <3>3
    <3>. QED BY <3>1, <3>2, <3>3
  <2>. QED BY <1>1, <1>4, <2>1, NothingOffered
<1>. QED BY <1>1, <1>3, <1>4, <1>12, <1>14, <1>15, <1>16, <1>17, TakesView DEF c, g

\* COMMIT admits the page.
LEMMA CommittedView ==
  ASSUME ReadersInv, ViewInv, PageReceives, NEW f, f = Head(conn[page.generation].wire),
         inState(f), f.kind = "COMMIT"
  PROVE  ViewInv'
<1>. DEFINE g == page.generation
            w == conn[g].wire
            c == journal.committed
<1>1. /\ page \in Pages /\ page.open /\ g \in A /\ g # 0 /\ g \in Nat /\ conn[g] \in Conns
      /\ w \in Outs /\ w # <<>> /\ f = w[1] /\ f \in Frame /\ Wired(page, w, c)
      /\ conn[g].open => Linked(att[g], sub[g], page, w, c)
      /\ UNCHANGED <<journal, sub, att>>
  BY ReceivedIs
<1>2. PICK q : q = [page EXCEPT !.committed = TRUE]
  OBVIOUS
<1>3. page' = q /\ conn' = [conn EXCEPT ![g].wire = Tail(w)]
  <2>1. page' = [page EXCEPT !.committed = TRUE] /\ conn' = [conn EXCEPT ![g].wire = Tail(@)]
    BY DEF PageReceives
  <2>. QED BY <1>1, <1>2, <2>1 DEF Conns
<1>4. /\ q.generation = g /\ q.open /\ q.prepared = page.prepared /\ q.committed /\ q.point = page.point
      /\ q.offer = page.offer /\ q.shown = page.shown /\ q.stream = page.stream /\ q.geometry = page.geometry
      /\ q.queue = page.queue
  BY <1>1, <1>2 DEF Pages
<1>5. Admitted(page, w, c) /\ ~page.committed /\ page.prepared = g
  <2>1. Admitted(page, w, c) /\ ~page.committed
    <3>. HIDE DEF w, c, g
    <3>. QED BY <1>1, FirstFrame DEF g
  <2>. QED BY <2>1 DEF Admitted
<1>6. /\ viewing(page) /\ View(page, c) /\ Replayed(page) /\ Known(page.point.at) /\ Known(page.offer.at)
      /\ \A i \in 1..Len(page.queue) : page.queue[i].gen <= g
  <2>1. viewing(page)
    BY <1>5 DEF Admitted
  <2>2. ~Replaying(page, c)
    BY <2>1 DEF Replaying
  <2>. QED BY <2>1, <2>2 DEF ViewInv, PageInv, Offered
<1>. HIDE DEF w, c, g
<1>7. View(q, c) /\ Replayed(q) /\ viewing(q) /\ queueEnd(q) = queueEnd(page)
  <2>1. \A i : queueStart(q, i) = queueStart(page, i)
    BY <1>4 DEF queueStart
  <2>2. Queued(q, c)
    BY <1>4, <1>6, <2>1 DEF View, Queued
  <2>3. View(q, c)
    BY <1>4, <1>6, <2>2 DEF View
  <2>4. Replayed(q)
    BY <1>4, <1>6 DEF Replayed
  <2>5. queueEnd(q) = queueEnd(page)
    BY <1>4, <2>1 DEF queueEnd
  <2>. QED BY <1>4, <2>3, <2>4, <2>5 DEF viewing
<1>8. /\ OnTheWay(q, Tail(w), c) /\ wireEnd(Tail(w), queueEnd(q)) = wireEnd(w, queueEnd(page))
      /\ endless(w) => endless(Tail(w))
  <2>1. OnTheWay(page, w, c)
    BY <1>5 DEF Admitted
  <2>2. queueEnd(q) = IF w[1].kind = "COMMIT" THEN queueEnd(page) ELSE ending(w[1])
    BY <1>1, <1>7
  <2>. QED BY <1>1, <1>4, <2>1, <2>2, OnTheWayTakes
<1>9. Admitted(q, Tail(w), c) /\ Wired(q, Tail(w), c)
  BY <1>4, <1>5, <1>7, <1>8 DEF Admitted, Wired
<1>10. conn[g].open => Linked(att[g], sub[g], q, Tail(w), c)
  <2>1. page.generation # 0
    BY <1>1 DEF g
  <2>. QED BY <1>1, <1>4, <1>5, <1>8, <1>9, <2>1, AdmittedLinked
<1>11. /\ Known(q.point.at) /\ Known(q.offer.at)
       /\ q.prepared \in {0, g} /\ (q.committed => q.prepared = g)
       /\ \A i \in 1..Len(q.queue) : q.queue[i].gen <= g
       /\ q.prepared # 0
  BY <1>1, <1>4, <1>5, <1>6
<1>. QED BY <1>1, <1>3, <1>4, <1>7, <1>9, <1>10, <1>11, TakesView DEF c, g

\* LIVE and RESIZE are written to the terminal.
LEMMA WritesView ==
  ASSUME ReadersInv, ViewInv, PageReceives, NEW f, f = Head(conn[page.generation].wire),
         inState(f), f.kind \in {"LIVE", "RESIZE"}
  PROVE  ViewInv'
<1>. DEFINE g == page.generation
            w == conn[g].wire
            c == journal.committed
            r == write(f.kind, f)
            n == Len(page.queue)
<1>1. /\ page \in Pages /\ page.open /\ g \in A /\ g # 0 /\ g \in Nat /\ conn[g] \in Conns
      /\ w \in Outs /\ w # <<>> /\ f = w[1] /\ f \in Frame /\ Wired(page, w, c)
      /\ conn[g].open => Linked(att[g], sub[g], page, w, c)
      /\ UNCHANGED <<journal, sub, att>>
  BY ReceivedIs
<1>2. PICK q : q = [page EXCEPT !.queue = Append(page.queue, r)]
  OBVIOUS
<1>3. page' = q /\ conn' = [conn EXCEPT ![g].wire = Tail(w)]
  <2>1. page' = [page EXCEPT !.queue = Append(@, r)] /\ conn' = [conn EXCEPT ![g].wire = Tail(@)]
    BY DEF PageReceives
  <2>. QED BY <1>1, <1>2, <2>1 DEF Conns, Pages
<1>4. /\ q.generation = g /\ q.open /\ q.prepared = page.prepared /\ q.committed = page.committed
      /\ q.point = page.point /\ q.offer = page.offer /\ q.shown = page.shown /\ q.stream = page.stream
      /\ q.geometry = page.geometry /\ q.queue = Append(page.queue, r)
  BY <1>1, <1>2 DEF Pages
<1>5. /\ Admitted(page, w, c) /\ page.committed /\ page.prepared = g
      /\ good(f) /\ begun(f) = queueEnd(page) /\ ending(f) <= upto(c[page.stream])
  <2>1. /\ Admitted(page, w, c) /\ good(f) /\ page.committed /\ begun(f) = queueEnd(page)
        /\ ending(f) <= upto(c[page.stream])
    <3>. HIDE DEF w, c, g
    <3>. QED BY <1>1, FirstFrame DEF g
  <2>. QED BY <2>1 DEF Admitted
<1>6. /\ viewing(page) /\ View(page, c) /\ Replayed(page) /\ Known(page.point.at) /\ Known(page.offer.at)
      /\ \A i \in 1..n : page.queue[i].gen <= g
  <2>1. viewing(page)
    BY <1>5 DEF Admitted
  <2>2. ~Replaying(page, c)
    BY <2>1 DEF Replaying
  <2>. QED BY <2>1, <2>2 DEF ViewInv, PageInv, Offered
<1>7. r.op = f.kind /\ r.gen = g /\ r.frame = f /\ r \in Writes
  <2>1. r = [op |-> f.kind, gen |-> g, frame |-> f]
    BY DEF write
  <2>. QED BY <1>1, <2>1 DEF Writes
<1>8. /\ n \in Nat /\ Len(q.queue) = n + 1 /\ q.queue # <<>> /\ q.queue[n + 1] = r
      /\ \A i \in 1..n : q.queue[i] = page.queue[i]
      /\ \A i \in 1..(n + 1) : queueStart(q, i) = queueStart(page, i)
      /\ queueEnd(page) = queueStart(page, n + 1) /\ queueEnd(q) = ending(f)
  <2>1. page.queue \in Pending
    BY <1>1 DEF Pages
  <2>. HIDE DEF r
  <2>. QED BY <1>4, <1>7, <2>1, QueueGrows
<1>. HIDE DEF w, c, g, r, n
<1>9. ASSUME NEW i \in 1..Len(q.queue)
      PROVE  /\ good(q.queue[i].frame) /\ q.queue[i].op = q.queue[i].frame.kind
             /\ begun(q.queue[i].frame) = queueStart(q, i)
             /\ ending(q.queue[i].frame) <= upto(c[q.stream])
             /\ q.queue[i].gen <= g
             /\ q.queue[i].op = "REPLAY" => q.queue[i].gen # q.prepared
  <2>1. i \in 1..n \/ i = n + 1
    BY <1>8
  <2>2. CASE i \in 1..n
    <3>1. i \in 1..(n + 1) /\ i \in 1..Len(page.queue) /\ q.queue[i] = page.queue[i]
      BY <1>8, <2>2 DEF n
    <3>. QED BY <1>4, <1>6, <1>8, <2>2, <3>1 DEF View, Queued, Replayed
  <2>3. CASE i = n + 1
    <3>1. i \in 1..(n + 1) /\ q.queue[i] = r /\ g <= g
      BY <1>1, <1>8, <2>3
    <3>. QED BY <1>4, <1>5, <1>7, <1>8, <2>3, <3>1
  <2>. QED BY <2>1, <2>2, <2>3
<1>10. View(q, c) /\ Replayed(q) /\ viewing(q)
  <2>1. Queued(q, c)
    BY <1>9 DEF Queued
  <2>2. View(q, c)
    BY <1>4, <1>6, <2>1 DEF View
  <2>3. Replayed(q)
    BY <1>9 DEF Replayed
  <2>. QED BY <1>4, <1>5, <2>2, <2>3 DEF viewing
<1>11. /\ OnTheWay(q, Tail(w), c) /\ wireEnd(Tail(w), queueEnd(q)) = wireEnd(w, queueEnd(page))
       /\ endless(w) => endless(Tail(w))
  <2>1. OnTheWay(page, w, c)
    BY <1>5 DEF Admitted
  <2>2. queueEnd(q) = IF w[1].kind = "COMMIT" THEN queueEnd(page) ELSE ending(w[1])
    BY <1>1, <1>8
  <2>. QED BY <1>1, <1>4, <1>5, <2>1, <2>2, OnTheWayTakes
<1>12. Admitted(q, Tail(w), c) /\ Wired(q, Tail(w), c)
  BY <1>4, <1>5, <1>10, <1>11 DEF Admitted, Wired
<1>13. conn[g].open => Linked(att[g], sub[g], q, Tail(w), c)
  <2>1. page.generation # 0
    BY <1>1 DEF g
  <2>. QED BY <1>1, <1>4, <1>5, <1>11, <1>12, <2>1, AdmittedLinked
<1>14. /\ Known(q.point.at) /\ Known(q.offer.at)
       /\ q.prepared \in {0, g} /\ (q.committed => q.prepared = g)
       /\ \A i \in 1..Len(q.queue) : q.queue[i].gen <= g
       /\ q.prepared # 0
  BY <1>1, <1>4, <1>5, <1>6, <1>9
<1>. QED BY <1>1, <1>3, <1>4, <1>10, <1>12, <1>13, <1>14, TakesView DEF c, g

\* The page receives a frame.
LEMMA PageReceivesView ==
  ASSUME ReadersInv, ViewInv, PageReceives
  PROVE  ViewInv'
<1>1. PICK f : f = Head(conn[page.generation].wire)
  OBVIOUS
<1>2. CASE ~inState(f)
  BY <1>1, <1>2, RefusesView
<1>3. CASE inState(f)
  <2>1. \/ f.kind = "PREPARE" /\ f.resumed
        \/ f.kind = "PREPARE" /\ ~f.resumed
        \/ f.kind = "COMMIT"
        \/ f.kind \in {"LIVE", "RESIZE"}
    BY <1>3 DEF inState
  <2>. QED BY <1>1, <1>3, <2>1, ResumedView, RestartedView, CommittedView, WritesView
<1>. QED BY <1>2, <1>3

\* The write the terminal parses, and what it leaves.
LEMMA ParsesIs ==
  ASSUME ReadersInv, PageParses
  PROVE  LET w == page.queue[1]
             current == page.prepared = w.gen
             n == Len(page.queue)
         IN /\ page \in Pages /\ page.queue # <<>> /\ n \in Nat /\ n >= 1 /\ w \in Writes
            /\ UNCHANGED <<journal, sub, conn>>
            /\ page'.generation = page.generation /\ page'.open = page.open /\ page'.prepared = page.prepared
            /\ page'.committed = page.committed /\ page'.offer = page.offer
            /\ Len(page'.queue) = n - 1 /\ \A i \in 1..(n - 1) : page'.queue[i] = page.queue[i + 1]
            /\ page'.queue = Tail(page.queue)
            /\ w.op \in {"RESET", "REPLAY", "LIVE", "RESIZE"}
            /\ page'.stream = IF w.op = "RESET" /\ current THEN w.frame.stream ELSE page.stream
            /\ page'.shown = IF w.op = "RESET" THEN IF current THEN <<>> ELSE page.shown
                             ELSE page.shown \o w.frame.atoms
            /\ w.op = "RESET" => page'.geometry = IF current THEN w.frame.geometry ELSE page.geometry
            /\ w.op \in {"REPLAY", "LIVE"} => page'.geometry = page.geometry
            /\ w.op = "RESIZE" => page'.geometry = w.frame.atoms[1][1]
            /\ w.op \in {"LIVE", "RESIZE"} => page'.point = advanced(page.point, w)
            /\ w.op = "REPLAY" /\ current =>
                 page'.point = [stream |-> w.frame.stream, at |-> w.frame.at, generation |-> w.gen]
            /\ w.op = "RESET" \/ (w.op = "REPLAY" /\ ~current) => page'.point = page.point
            /\ att' = IF w.op = "REPLAY" /\ current /\ conn[w.gen].open
                      THEN [att EXCEPT ![w.gen].ready = TRUE] ELSE att
<1>. DEFINE w == page.queue[1]
            current == page.prepared = w.gen
            n == Len(page.queue)
            rest == [page EXCEPT !.queue = Tail(@)]
            grown == [rest EXCEPT !.shown = @ \o w.frame.atoms]
<1>1. page \in Pages /\ page.queue # <<>> /\ UNCHANGED <<journal, sub, conn>>
  BY DEF ReadersInv, Shapes, PageParses
<1>2. /\ n \in Nat /\ n >= 1 /\ Head(page.queue) = w /\ w \in Writes
      /\ Len(Tail(page.queue)) = n - 1 /\ \A i \in 1..(n - 1) : Tail(page.queue)[i] = page.queue[i + 1]
  <2>1. page.queue \in Seq(Writes)
    BY <1>1 DEF Pages, Pending
  <2>. QED BY <1>1, <2>1, HeadTail
<1>3. w.op \in {"RESET", "REPLAY", "LIVE", "RESIZE"}
  BY <1>2 DEF Writes
<1>. HIDE DEF w, n
<1>4. /\ \/ /\ w.op = "RESET" /\ current
            /\ page' = [rest EXCEPT !.shown = <<>>, !.stream = w.frame.stream, !.geometry = w.frame.geometry]
         \/ w.op = "RESET" /\ ~current /\ page' = rest
         \/ /\ w.op = "REPLAY" /\ current
            /\ page' = [grown EXCEPT !.point = [stream |-> w.frame.stream, at |-> w.frame.at, generation |-> w.gen]]
         \/ w.op = "REPLAY" /\ ~current /\ page' = grown
         \/ w.op = "LIVE" /\ page' = [grown EXCEPT !.point = advanced(@, w)]
         \/ /\ w.op = "RESIZE"
            /\ page' = [grown EXCEPT !.point = advanced(@, w), !.geometry = w.frame.atoms[1][1]]
      /\ att' = IF w.op = "REPLAY" /\ current /\ conn[w.gen].open
                THEN [att EXCEPT ![w.gen].ready = TRUE] ELSE att
  <2>1. Head(page.queue) = w
    BY <1>2
  <2>2. PageParses
    OBVIOUS
  <2>. QED BY <2>1, <2>2 DEF PageParses
<1>5. /\ rest.generation = page.generation /\ rest.open = page.open /\ rest.prepared = page.prepared
      /\ rest.committed = page.committed /\ rest.offer = page.offer /\ rest.queue = Tail(page.queue)
      /\ rest.shown = page.shown /\ rest.stream = page.stream /\ rest.geometry = page.geometry
      /\ rest.point = page.point
      /\ DOMAIN rest = {"generation", "open", "prepared", "committed", "shown", "stream", "geometry", "queue",
                        "point", "offer", "resizes"}
  BY <1>1 DEF Pages
<1>. HIDE DEF rest
<1>6. /\ grown.generation = page.generation /\ grown.open = page.open /\ grown.prepared = page.prepared
      /\ grown.committed = page.committed /\ grown.offer = page.offer /\ grown.queue = Tail(page.queue)
      /\ grown.shown = page.shown \o w.frame.atoms /\ grown.stream = page.stream
      /\ grown.geometry = page.geometry /\ grown.point = page.point
      /\ DOMAIN grown = {"generation", "open", "prepared", "committed", "shown", "stream", "geometry", "queue",
                         "point", "offer", "resizes"}
  BY <1>5
<1>. HIDE DEF grown, current
<1>7. /\ page'.generation = page.generation /\ page'.open = page.open /\ page'.prepared = page.prepared
      /\ page'.committed = page.committed /\ page'.offer = page.offer /\ page'.queue = Tail(page.queue)
      /\ page'.stream = IF w.op = "RESET" /\ current THEN w.frame.stream ELSE page.stream
  BY <1>4, <1>5, <1>6
<1>8. /\ page'.shown = IF w.op = "RESET" THEN IF current THEN <<>> ELSE page.shown
                       ELSE page.shown \o w.frame.atoms
      /\ w.op = "RESET" => page'.geometry = IF current THEN w.frame.geometry ELSE page.geometry
      /\ w.op \in {"REPLAY", "LIVE"} => page'.geometry = page.geometry
      /\ w.op = "RESIZE" => page'.geometry = w.frame.atoms[1][1]
  BY <1>4, <1>5, <1>6
<1>9. /\ w.op \in {"LIVE", "RESIZE"} => page'.point = advanced(page.point, w)
      /\ w.op = "REPLAY" /\ current =>
           page'.point = [stream |-> w.frame.stream, at |-> w.frame.at, generation |-> w.gen]
      /\ w.op = "RESET" \/ (w.op = "REPLAY" /\ ~current) => page'.point = page.point
  BY <1>4, <1>5, <1>6
<1>. QED BY <1>1, <1>2, <1>3, <1>4, <1>7, <1>8, <1>9 DEF w, n, current

\* A step of the terminal.
LEMMA ParsedView ==
  ASSUME ReadersInv, ViewInv, PageParses, NEW q, page' = q,
         Known(q.point.at), viewing(q) => View(q, journal.committed),
         Replaying(q, journal.committed) \/ Replayed(q),
         page.open => Wired(q, conn[page.generation].wire, journal.committed),
         page.open /\ conn[page.generation].open =>
           Linked(att'[page.generation], sub[page.generation], q, conn[page.generation].wire, journal.committed)
  PROVE  ViewInv'
<1>. DEFINE g == page.generation
            n == Len(page.queue)
            c == journal.committed
<1>1. /\ page \in Pages /\ n \in Nat /\ n >= 1 /\ UNCHANGED <<journal, sub, conn>>
      /\ q.generation = g /\ q.open = page.open /\ q.prepared = page.prepared
      /\ q.committed = page.committed /\ q.offer = page.offer
      /\ Len(q.queue) = n - 1 /\ \A i \in 1..(n - 1) : q.queue[i] = page.queue[i + 1]
  BY ParsesIs
<1>2. att' = att \/ \E b \in A : att' = [att EXCEPT ![b].ready = TRUE]
  <2>1. page.queue[1] \in Writes
    BY ParsesIs
  <2>2. page.queue[1].gen \in A
    BY <2>1 DEF Writes
  <2>. QED BY <2>2, ParsesIs
<1>3. \A a \in A : Known(att'[a].resume.at)
  <2>. SUFFICES ASSUME NEW a \in A PROVE Known(att'[a].resume.at)
    OBVIOUS
  <2>1. att \in [A -> Atts] /\ att[a] \in Atts /\ Known(att[a].resume.at)
    BY DEF ReadersInv, Shapes, ViewInv, Offered
  <2>2. att'[a].resume = att[a].resume
    BY <1>2, <2>1 DEF Atts
  <2>. QED BY <2>1, <2>2
<1>4. Offered'
  BY <1>1, <1>3 DEF ViewInv, Offered
<1>5. Apart'
  BY <1>1 DEF ViewInv, Apart
<1>6. \A i \in 1..Len(q.queue) : q.queue[i].gen <= g /\ (q.prepared = 0 => q.queue[i].gen < g)
  <2>. SUFFICES ASSUME NEW i \in 1..Len(q.queue)
                PROVE  q.queue[i].gen <= g /\ (q.prepared = 0 => q.queue[i].gen < g)
    OBVIOUS
  <2>1. i + 1 \in 1..n /\ q.queue[i] = page.queue[i + 1]
    BY <1>1
  <2>. QED BY <1>1, <2>1 DEF ViewInv, PageInv
<1>7. PageInv'
  <2>1. /\ journal'.committed = c /\ page' = q /\ conn'[g].wire = conn[g].wire
        /\ q.prepared \in {0, q.generation} /\ (q.committed => q.open /\ q.prepared = q.generation)
        /\ q.open => Wired(q, conn[q.generation].wire, c)
    BY <1>1 DEF ViewInv, PageInv
  <2>. HIDE DEF c
  <2>2. /\ viewing(q) => View(q, c)
        /\ Replaying(q, c) \/ Replayed(q)
    BY DEF c
  <2>. QED BY <1>1, <1>6, <2>1, <2>2 DEF PageInv
<1>8. ASSUME NEW a \in A, conn'[a].open
      PROVE  Linked(att'[a], sub'[a], page', conn'[a].wire, journal'.committed)
  <2>1. a = g /\ page.open
    BY <1>1, <1>8 DEF ViewInv, Apart
  <2>. QED BY <1>1, <1>8, <2>1
<1>. QED BY <1>4, <1>5, <1>7, <1>8 DEF ViewInv

\* What is on the way to a page whose terminal has parsed a write.
LEMMA ParsedWired ==
  ASSUME NEW p, NEW w, NEW c, Wired(p, w, c), NEW q, q.offer = p.offer,
         q.prepared = p.prepared, q.committed = p.committed,
         Prepared(p, w, c) => Wired(q, w, c), Admitted(p, w, c) => Admitted(q, w, c)
  PROVE  Wired(q, w, c)
<1>1. Unprepared(p, w) => Unprepared(q, w)
  BY DEF Unprepared
<1>2. \A f : preparable(f, p, c) => preparable(f, q, c)
  BY DEF preparable
<1>3. Preparing(p, w, c) => Preparing(q, w, c)
  BY <1>2 DEF Preparing
<1>. QED BY <1>1, <1>3 DEF Wired

\* The writer of a page whose terminal has parsed a write.
LEMMA ParsedLinked ==
  ASSUME NEW x, NEW s, NEW p, NEW w, NEW c, Linked(x, s, p, w, c), NEW q, q.offer = p.offer,
         q.prepared = p.prepared, q.committed = p.committed,
         Prepared(p, w, c) => Prepared(q, w, c) /\ q.queue[Len(q.queue)].frame = p.queue[Len(p.queue)].frame,
         Admitted(p, w, c) => Admitted(q, w, c) /\ p.committed /\ q.stream = p.stream /\ queueEnd(q) = queueEnd(p)
  PROVE  Linked(x, s, q, w, c)
<1>1. Unprepared(p, w) => Unprepared(q, w)
  BY DEF Unprepared
<1>2. \A f : preparable(f, p, c) => preparable(f, q, c)
  BY DEF preparable
<1>3. Preparing(p, w, c) => Preparing(q, w, c)
  BY <1>2 DEF Preparing
<1>4. Opens(x, p, w) => Opens(x, q, w)
  BY <1>1 DEF Opens
<1>5. Prepares(x, s, p, w, c) => Prepares(x, s, q, w, c)
  BY <1>1, <1>2 DEF Prepares
<1>6. Waits(x, s, p, w, c) => Waits(x, s, q, w, c)
  BY <1>3 DEF Waits
<1>7. ~Starts(x, s, p, w, c)
  BY DEF Starts
<1>8. Follows(x, s, p, w, c) => Follows(x, s, q, w, c)
  BY DEF Follows
<1>. QED BY <1>4, <1>5, <1>6, <1>7, <1>8 DEF Linked

\* A page in view shows the next write of its stream.
LEMMA ShowsMore ==
  ASSUME ReadersInv, ViewInv, PageParses, viewing(page), NEW q, page' = q
  PROVE  /\ View(q, journal.committed) /\ Known(q.point.at) /\ Replayed(q)
         /\ q.stream = page.stream /\ queueEnd(q) = queueEnd(page)
         /\ Len(page.shown) \in Nat /\ Len(q.shown) \in Nat /\ Len(page.shown) <= Len(q.shown)
         /\ UNCHANGED att
<1>. DEFINE c == journal.committed
            n == Len(page.queue)
            w == page.queue[1]
            f == page.queue[1].frame
            k == Len(page.shown)
<1>1. View(page, c) /\ Replayed(page)
  <2>1. ~Replaying(page, c)
    BY DEF Replaying
  <2>. QED BY <2>1 DEF ViewInv, PageInv
<1>2. /\ page \in Pages /\ n \in Nat /\ n >= 1 /\ w \in Writes
      /\ page'.queue = q.queue /\ Len(q.queue) = n - 1 /\ \A i \in 1..(n - 1) : q.queue[i] = page.queue[i + 1]
      /\ q.prepared = page.prepared
  BY ParsesIs
<1>3. 1 \in 1..n /\ good(f) /\ w.op = f.kind /\ begun(f) = k /\ ending(f) <= upto(c[page.stream])
  <2>1. 1 \in 1..Len(page.queue)
    BY <1>2
  <2>2. queueStart(page, 1) = Len(page.shown)
    BY DEF queueStart
  <2>. QED BY <1>1, <2>1, <2>2 DEF View, Queued
<1>4. /\ begun(f) \in Nat /\ ending(f) \in 0..N /\ begun(f) < ending(f) /\ ending(f) \in Nat
      /\ f.atoms = run(begun(f), ending(f)) /\ f.at = at(ending(f))
      /\ f.kind \in {"LIVE", "RESIZE"}
      /\ f.kind = "LIVE" => outputs(f.atoms)
      /\ f.kind = "RESIZE" => begun(f) = ending(f) - 1 /\ f.atoms[1] = whole[ending(f)] /\ ~isOutput(whole[ending(f)])
  BY <1>3, GoodIs
<1>. HIDE DEF w, f, k, n, c
<1>5. PICK e : e = ending(f)
  OBVIOUS
<1>6. /\ q.stream = page.stream /\ q.shown = page.shown \o f.atoms
      /\ f.kind = "LIVE" => q.geometry = page.geometry
      /\ f.kind = "RESIZE" => q.geometry = f.atoms[1][1]
      /\ q.point = advanced(page.point, w) /\ att' = att
  BY <1>3, <1>4, ParsesIs DEF w, f
<1>7. k \in Nat /\ k <= e /\ e <= N /\ e \in Nat /\ e \in 0..N /\ e \in 1..N /\ N \in Nat
  BY <1>3, <1>4, <1>5, Bounds
<1>8. page.shown = run(0, k) /\ page.geometry = inForce(run(0, k)) /\ f.atoms = run(k, e)
  BY <1>1, <1>3, <1>4, <1>5 DEF View, k
<1>9. q.shown = run(0, e) /\ Len(q.shown) = e
  <2>1. run(0, k) \o run(k, e) = run(0, e) /\ Len(run(0, e)) = e
    BY <1>7, RunJoins
  <2>. QED BY <1>6, <1>8, <2>1
<1>10. q.geometry = inForce(q.shown)
  <2>1. CASE f.kind = "LIVE"
    <3>1. outputs(run(k, e))
      BY <1>4, <1>8, <2>1
    <3>2. inForce(run(0, e)) = inForce(run(0, k))
      BY <1>7, <3>1, InForceStays
    <3>. QED BY <1>6, <1>8, <1>9, <2>1, <3>2
  <2>2. CASE f.kind = "RESIZE"
    <3>1. f.atoms[1] = whole[e] /\ ~isOutput(whole[e])
      BY <1>4, <1>5, <2>2
    <3>2. inForce(run(0, e)) = whole[e][1]
      BY <1>7, <3>1, InForceMoves
    <3>. QED BY <1>6, <1>9, <2>2, <3>1, <3>2
  <2>. QED BY <1>4, <2>1, <2>2
<1>11. q.point # NoPoint => q.point.at = at(e) /\ q.point.stream = page.stream
  <2>. SUFFICES ASSUME q.point # NoPoint PROVE q.point.at = at(e) /\ q.point.stream = page.stream
    OBVIOUS
  <2>1. w.frame = f
    BY DEF w, f
  <2>2. page.point # NoPoint /\ q.point = [page.point EXCEPT !.at = f.at]
    BY <1>6, <2>1 DEF advanced
  <2>3. page.point \in Point
    BY <1>2 DEF Pages
  <2>4. q.point.at = f.at /\ q.point.stream = page.point.stream
    BY <2>2, <2>3 DEF Point
  <2>. QED BY <1>1, <1>4, <1>5, <2>2, <2>4 DEF View
<1>12. \A i \in 1..n : queueStart(q, i) = queueStart(page, i + 1)
  <2>. SUFFICES ASSUME NEW i \in 1..n PROVE queueStart(q, i) = queueStart(page, i + 1)
    OBVIOUS
  <2>1. CASE i = 1
    <3>1. queueStart(q, 1) = e
      BY <1>9 DEF queueStart
    <3>2. queueStart(page, 2) = ending(f)
      BY DEF queueStart, f
    <3>. QED BY <1>5, <2>1, <3>1, <3>2
  <2>2. CASE i # 1
    <3>1. i - 1 \in 1..(n - 1) /\ i + 1 # 1 /\ (i + 1) - 1 = i /\ (i - 1) + 1 = i
      BY <1>2, <2>2
    <3>2. q.queue[i - 1] = page.queue[i]
      BY <1>2, <3>1
    <3>3. queueStart(q, i) = ending(page.queue[i].frame)
      BY <2>2, <3>2 DEF queueStart
    <3>4. queueStart(page, i + 1) = ending(page.queue[i].frame)
      BY <3>1 DEF queueStart
    <3>. QED BY <3>3, <3>4
  <2>. QED BY <2>1, <2>2
<1>13. queueEnd(q) = queueEnd(page)
  <2>1. n \in 1..n /\ Len(q.queue) + 1 = n /\ Len(page.queue) + 1 = n + 1
    BY <1>2 DEF n
  <2>2. PICK m : m = n
    OBVIOUS
  <2>. QED BY <1>12, <2>1, <2>2 DEF queueEnd
<1>14. ASSUME NEW i \in 1..Len(q.queue)
       PROVE  /\ good(q.queue[i].frame) /\ q.queue[i].op = q.queue[i].frame.kind
              /\ begun(q.queue[i].frame) = queueStart(q, i)
              /\ ending(q.queue[i].frame) <= upto(c[page.stream])
              /\ q.queue[i].op = "REPLAY" => q.queue[i].gen # q.prepared
  <2>1. i \in 1..n /\ i + 1 \in 1..Len(page.queue) /\ q.queue[i] = page.queue[i + 1]
    BY <1>2 DEF n
  <2>2. queueStart(q, i) = queueStart(page, i + 1)
    BY <1>12, <2>1
  <2>. QED BY <1>1, <1>2, <2>1, <2>2 DEF View, Queued, Replayed
<1>15. Queued(q, c) /\ Replayed(q)
  <2>1. Queued(q, c)
    BY <1>6, <1>14 DEF Queued
  <2>. QED BY <1>14, <2>1 DEF Replayed
<1>16. View(q, c)
  <2>1. page.stream \in Gen /\ e <= upto(c[page.stream])
    BY <1>1, <1>3, <1>5 DEF View
  <2>. QED BY <1>6, <1>9, <1>10, <1>11, <1>15, <2>1 DEF View
<1>17. Known(q.point.at)
  <2>1. CASE q.point = NoPoint
    BY <2>1, NothingOffered
  <2>2. CASE q.point # NoPoint
    BY <1>7, <1>11, <2>2 DEF Known
  <2>. QED BY <2>1, <2>2
<1>. QED BY <1>6, <1>7, <1>9, <1>13, <1>15, <1>16, <1>17 DEF c, k

\* It goes on following the recording.
LEMMA ViewingParses ==
  ASSUME ReadersInv, ViewInv, PageParses, viewing(page)
  PROVE  ViewInv'
<1>. DEFINE c == journal.committed
            g == page.generation
            w == conn[g].wire
<1>1. PICK q : q = page'
  OBVIOUS
<1>2. /\ View(q, c) /\ Known(q.point.at) /\ Replayed(q) /\ q.stream = page.stream
      /\ queueEnd(q) = queueEnd(page) /\ UNCHANGED att
  BY <1>1, ShowsMore
<1>3. /\ page \in Pages /\ page.queue # <<>> /\ q.generation = g /\ q.prepared = page.prepared
      /\ q.committed = page.committed /\ q.offer = page.offer
  BY <1>1, ParsesIs
<1>. HIDE DEF w, c
<1>4. ~Prepared(page, w, c)
  BY DEF Prepared, Replaying
<1>5. Admitted(page, w, c) => Admitted(q, w, c) /\ page.committed
  <2>. SUFFICES ASSUME Admitted(page, w, c) PROVE Admitted(q, w, c) /\ page.committed
    OBVIOUS
  <2>1. page.committed /\ q.committed
    BY <1>3 DEF Admitted
  <2>2. OnTheWay(q, w, c)
    BY <1>2, <1>3 DEF Admitted, OnTheWay
  <2>. QED BY <1>3, <2>1, <2>2 DEF Admitted, viewing
<1>6. \A x, s : Linked(x, s, page, w, c) => Linked(x, s, q, w, c)
  <2>. SUFFICES ASSUME NEW x, NEW s, Linked(x, s, page, w, c) PROVE Linked(x, s, q, w, c)
    OBVIOUS
  <2>. QED BY <1>2, <1>3, <1>4, <1>5, ParsedLinked
<1>7. Wired(page, w, c) => Wired(q, w, c)
  BY <1>3, <1>4, <1>5, ParsedWired
<1>8. page.open => Wired(q, w, c)
  BY <1>7 DEF ViewInv, PageInv, w, c
<1>9. page.open /\ conn[g].open => Linked(att'[g], sub[g], q, w, c)
  <2>1. ASSUME page.open PROVE g \in A
    BY <1>3, <2>1, ConstantsAre DEF ReadersInv, Paged, Pages, A
  <2>2. page.open /\ conn[g].open => Linked(att[g], sub[g], page, w, c)
    BY <2>1 DEF ViewInv, w, c
  <2>. QED BY <1>2, <1>6, <2>2
<1>. QED BY <1>1, <1>2, <1>8, <1>9, ParsedView DEF w, c

\* The terminal parses the replay that goes on from what it shows.
LEMMA ReplayParses ==
  ASSUME ReadersInv, ViewInv, PageParses, Replaying(page, journal.committed), Len(page.queue) = 1
  PROVE  ViewInv'
<1>. DEFINE c == journal.committed
            g == page.generation
            w == page.queue[1]
            f == page.queue[1].frame
            v == conn[g].wire
<1>1. PICK q : q = page'
  OBVIOUS
<1>2. /\ page \in Pages /\ page.queue # <<>> /\ w \in Writes /\ UNCHANGED <<journal, sub, conn>>
      /\ q.generation = g /\ q.prepared = page.prepared /\ q.committed = page.committed /\ q.offer = page.offer
      /\ Len(q.queue) = 0 /\ q.queue = Tail(page.queue)
  BY <1>1, ParsesIs
<1>3. /\ g # 0 /\ page.prepared = g /\ ~viewing(page) /\ w.op = "REPLAY" /\ w.gen = g /\ replayable(f, c)
      /\ page.stream = f.stream /\ page.shown = run(0, begun(f)) /\ page.geometry = inForce(page.shown)
  <2>1. ~Resets(page, f)
    BY DEF Resets
  <2>. QED BY <2>1 DEF Replaying, Continues
<1>4. /\ f.stream \in Gen /\ carries(f) /\ outputs(f.atoms) /\ ending(f) <= upto(c[f.stream])
      /\ begun(f) \in Nat /\ ending(f) \in 0..N /\ begun(f) <= ending(f) /\ f.at = at(ending(f))
      /\ f.atoms = run(begun(f), ending(f))
  BY <1>3 DEF replayable, carries
<1>5. /\ q.stream = page.stream /\ q.shown = page.shown \o f.atoms /\ q.geometry = page.geometry
      /\ q.point = [stream |-> f.stream, at |-> f.at, generation |-> g]
      /\ att' = IF conn[g].open THEN [att EXCEPT ![g].ready = TRUE] ELSE att
  <2>1. w.op = "REPLAY" /\ page.prepared = w.gen /\ w.gen = g
    BY <1>3
  <2>. HIDE DEF g
  <2>. QED BY <1>1, <2>1, ParsesIs
<1>6. q.queue = <<>>
  <2>1. page.queue \in Seq(Writes)
    BY <1>2 DEF Pages, Pending
  <2>2. PICK t : t = q.queue
    OBVIOUS
  <2>3. t \in Seq(Writes) /\ Len(t) = 0
    BY <1>2, <2>1, <2>2, HeadTail
  <2>. QED BY <2>2, <2>3
<1>. HIDE DEF w, f, v, g, c
<1>7. PICK k : k = begun(f)
  OBVIOUS
<1>8. PICK e : e = ending(f)
  OBVIOUS
<1>9. k \in Nat /\ e \in Nat /\ k <= e /\ e <= N /\ e \in 0..N
  BY <1>4, <1>7, <1>8, Bounds
<1>10. q.shown = run(0, e) /\ Len(q.shown) = e /\ q.geometry = inForce(q.shown)
  <2>1. run(0, k) \o run(k, e) = run(0, e) /\ Len(run(0, e)) = e
    BY <1>9, RunJoins
  <2>2. outputs(run(k, e))
    BY <1>4, <1>7, <1>8
  <2>3. inForce(run(0, e)) = inForce(run(0, k))
    BY <1>9, <2>2, InForceStays
  <2>. QED BY <1>3, <1>4, <1>5, <1>7, <1>8, <2>1, <2>3
<1>11. q.point # NoPoint /\ q.point.at = at(e) /\ q.point.stream = q.stream /\ viewing(q)
  <2>1. 0 \notin Gen
    BY DEF Gen
  <2>2. q.point # NoPoint
    BY <1>4, <1>5, <2>1 DEF NoPoint
  <2>. QED BY <1>3, <1>4, <1>5, <1>8, <2>2 DEF viewing
<1>12. View(q, c) /\ Replayed(q)
  <2>1. Queued(q, c)
    BY <1>2 DEF Queued
  <2>2. q.stream \in Gen /\ e <= upto(c[q.stream])
    BY <1>3, <1>4, <1>5, <1>8
  <2>3. View(q, c)
    BY <1>10, <1>11, <2>1, <2>2 DEF View
  <2>. QED BY <1>2, <2>3 DEF Replayed
<1>13. Admitted(q, <<>>, c)
  <2>1. OnTheWay(q, <<>>, c)
    BY DEF OnTheWay
  <2>. QED BY <1>2, <1>3, <1>6, <1>11, <2>1 DEF Admitted
<1>14. ~Unprepared(page, v) /\ ~Preparing(page, v, c) /\ ~Admitted(page, v, c)
  BY <1>3 DEF Unprepared, Preparing, Admitted
<1>15. page.open => v = <<>>
  BY <1>14 DEF ViewInv, PageInv, Wired, Prepared, v, g, c
<1>16. page.open => Wired(q, v, c)
  BY <1>13, <1>15 DEF Wired
<1>17. page.open /\ conn[g].open => Linked(att'[g], sub[g], q, v, c)
  <2>. SUFFICES ASSUME page.open, conn[g].open PROVE Linked(att'[g], sub[g], q, v, c)
    OBVIOUS
  <2>1. g \in A
    BY <1>2, <1>3, ConstantsAre DEF Pages, A, g
  <2>2. Linked(att[g], sub[g], page, v, c)
    BY <2>1 DEF ViewInv, v, c
  <2>3. att[g] \in Atts
    BY <2>1 DEF ReadersInv, Shapes
  <2>4. PICK x : x = att'[g]
    OBVIOUS
  <2>5. x = [att[g] EXCEPT !.ready = TRUE]
    BY <1>5, <2>1, <2>4 DEF ReadersInv, Shapes
  <2>6. x.ready /\ x.pc = att[g].pc /\ x.out = att[g].out /\ x.delivered = att[g].delivered /\ x.to = att[g].to
    BY <2>3, <2>5 DEF Atts
  <2>7. x.pc \notin Openings /\ x.pc # "preparing" /\ x.pc \notin Following /\ x.pc # "ending"
    BY <1>14, <2>2, <2>6 DEF Linked, Opens, Prepares, Follows
  <2>8. x.pc = "prepared" => Starts(x, sub[g], q, v, c)
    <3>. SUFFICES ASSUME x.pc = "prepared" PROVE Starts(x, sub[g], q, v, c)
      OBVIOUS
    <3>1. Waits(att[g], sub[g], page, v, c)
      BY <1>14, <2>2, <2>6 DEF Linked, Starts
    <3>2. page.queue[Len(page.queue)].frame = f
      BY DEF f
    <3>3. Ordered(att[g], sub[g]) /\ f.stream = sub[g].key /\ Left(att[g].out, ending(f), att[g])
      BY <1>14, <3>1, <3>2 DEF Waits
    <3>4. goal(x) = goal(att[g])
      BY <2>6 DEF goal
    <3>5. Ordered(x, sub[g]) /\ Left(x.out, Len(q.shown), x)
      BY <1>8, <1>10, <2>6, <3>3, <3>4 DEF Ordered, Left
    <3>6. ~q.committed
      BY <1>2, <1>3 DEF viewing
    <3>. QED BY <1>3, <1>5, <1>13, <1>15, <2>6, <3>3, <3>5, <3>6 DEF Starts
  <2>9. x.pc # "none"
    BY <2>2, <2>6 DEF Linked
  <2>. QED BY <2>4, <2>7, <2>8, <2>9 DEF Linked
<1>18. Known(q.point.at)
  BY <1>9, <1>11 DEF Known
<1>. QED BY <1>1, <1>12, <1>16, <1>17, <1>18, ParsedView DEF v, c, g

\* A write that does not complete a replay leaves the page without a view.
LEMMA ShowsNothing ==
  ASSUME ReadersInv, PageParses, ~viewing(page), NEW q, page' = q,
         page.queue[1].op = "REPLAY" => page.queue[1].gen # page.prepared
  PROVE  ~viewing(q) /\ q.point = NoPoint /\ UNCHANGED att
<1>1. /\ page.point = NoPoint /\ ~page.committed /\ q.committed = page.committed
      /\ page.queue[1].op \in {"RESET", "REPLAY", "LIVE", "RESIZE"}
  BY ParsesIs DEF viewing
<1>2. advanced(page.point, page.queue[1]) = NoPoint
  BY <1>1 DEF advanced
<1>3. q.point = NoPoint /\ att' = att
  BY <1>1, <1>2, ParsesIs
<1>. QED BY <1>1, <1>3 DEF viewing

\* The step of such a page.
LEMMA NothingParses ==
  ASSUME ReadersInv, ViewInv, PageParses, ~viewing(page), NEW q, page' = q,
         page.queue[1].op = "REPLAY" => page.queue[1].gen # page.prepared,
         Replaying(q, journal.committed) \/ Replayed(q),
         Replaying(page, journal.committed) =>
           /\ Replaying(q, journal.committed)
           /\ q.queue[Len(q.queue)].frame = page.queue[Len(page.queue)].frame
  PROVE  ViewInv'
<1>. DEFINE c == journal.committed
            g == page.generation
            w == conn[g].wire
<1>1. ~viewing(q) /\ q.point = NoPoint /\ UNCHANGED att /\ Known(q.point.at)
  BY ShowsNothing, NothingOffered
<1>2. /\ page \in Pages /\ q.generation = g /\ q.prepared = page.prepared
      /\ q.committed = page.committed /\ q.offer = page.offer
  BY ParsesIs
<1>. HIDE DEF w, c
<1>3. Prepared(page, w, c) => Prepared(q, w, c) /\ q.queue[Len(q.queue)].frame = page.queue[Len(page.queue)].frame
  BY DEF Prepared, c
<1>4. ~Admitted(page, w, c)
  BY DEF Admitted
<1>5. page.open => Wired(q, w, c)
  <2>. SUFFICES ASSUME page.open PROVE Wired(q, w, c)
    OBVIOUS
  <2>1. Wired(page, w, c)
    BY DEF ViewInv, PageInv, w, c
  <2>2. Prepared(page, w, c) => Wired(q, w, c)
    BY <1>3 DEF Wired
  <2>. QED BY <1>2, <1>4, <2>1, <2>2, ParsedWired
<1>6. page.open /\ conn[g].open => Linked(att'[g], sub[g], q, w, c)
  <2>. SUFFICES ASSUME page.open, conn[g].open PROVE Linked(att'[g], sub[g], q, w, c)
    OBVIOUS
  <2>1. g \in A
    BY <1>2, ConstantsAre DEF ReadersInv, Paged, Pages, A
  <2>2. Linked(att[g], sub[g], page, w, c)
    BY <2>1 DEF ViewInv, w, c
  <2>3. Linked(att[g], sub[g], q, w, c)
    BY <1>2, <1>3, <1>4, <2>2, ParsedLinked
  <2>. QED BY <1>1, <2>3
<1>. QED BY <1>1, <1>5, <1>6, ParsedView DEF w, c

\* The terminal parses what comes before a replay.
LEMMA ResetParses ==
  ASSUME ReadersInv, ViewInv, PageParses, Replaying(page, journal.committed), Len(page.queue) # 1
  PROVE  ViewInv'
<1>. DEFINE c == journal.committed
            n == Len(page.queue)
            g == page.generation
            w == page.queue[1]
            f == page.queue[n].frame
<1>1. PICK q : q = page'
  OBVIOUS
<1>2. /\ page \in Pages /\ n \in Nat /\ n >= 1 /\ w \in Writes
      /\ q.generation = g /\ q.prepared = page.prepared /\ q.committed = page.committed
      /\ Len(q.queue) = n - 1 /\ \A i \in 1..(n - 1) : q.queue[i] = page.queue[i + 1]
  BY <1>1, ParsesIs
<1>3. /\ g # 0 /\ page.prepared = g /\ ~viewing(page) /\ page.queue[n].op = "REPLAY" /\ page.queue[n].gen = g
      /\ replayable(f, c) /\ Resets(page, f)
  <2>1. ~Continues(page, f)
    BY DEF Continues
  <2>. QED BY <2>1 DEF Replaying
<1>4. /\ n >= 2 /\ page.queue[n - 1].op = "RESET" /\ page.queue[n - 1].gen = g /\ page.queue[n - 1].frame = f
      /\ begun(f) = 0 /\ f.geometry = 0
      /\ \A i \in 1..(n - 2) : page.queue[i].gen < g
  BY <1>3 DEF Resets
<1>. HIDE DEF f, g, c, w, n
<1>5. g \in Nat
  BY <1>2, ConstantsAre DEF Pages, g
<1>6. /\ n - 1 \in 1..(n - 1) /\ q.queue[n - 1] = page.queue[n] /\ Len(q.queue) = n - 1
      /\ page.queue[Len(page.queue)] = page.queue[n] /\ q.queue[Len(q.queue)] = page.queue[n]
  <2>1. n - 1 \in 1..(n - 1) /\ (n - 1) + 1 = n
    BY <1>2, <1>4
  <2>2. q.queue[n - 1] = page.queue[n]
    BY <1>2, <2>1
  <2>. QED BY <1>2, <2>1, <2>2 DEF n
<1>7. w.op = "REPLAY" => w.gen # page.prepared
  <2>1. CASE n = 2
    <3>1. n - 1 = 1
      BY <2>1
    <3>. QED BY <1>4, <3>1 DEF w
  <2>2. CASE n # 2
    <3>1. 1 \in 1..(n - 2)
      BY <1>2, <1>4, <2>2
    <3>2. w.gen < g
      BY <1>4, <3>1 DEF w
    <3>3. w.gen \in Nat
      BY <1>2 DEF Writes, A
    <3>. QED BY <1>3, <1>5, <3>2, <3>3
  <2>. QED BY <2>1, <2>2
<1>8. ~viewing(q)
  BY <1>1, <1>3, <1>7, ShowsNothing DEF w
<1>9. Continues(q, f) \/ Resets(q, f)
  <2>1. CASE n = 2
    <3>1. n - 1 = 1
      BY <2>1
    <3>2. w.op = "RESET" /\ w.gen = page.prepared /\ w.frame = f
      BY <1>3, <1>4, <3>1 DEF w
    <3>3. q.stream = f.stream /\ q.shown = <<>> /\ q.geometry = 0
      BY <1>1, <1>4, <3>2, ParsesIs DEF w
    <3>4. run(0, 0) = <<>>
      <4>1. 0 \in Nat /\ 0 <= 0 /\ 0 <= N /\ N \in Nat
        BY Bounds
      <4>2. PICK r : r = run(0, 0)
        OBVIOUS
      <4>3. r \in Seq(Atom) /\ Len(r) = 0
        BY <4>1, <4>2, RunIs
      <4>. QED BY <4>2, <4>3
    <3>. QED BY <1>4, <1>6, <3>1, <3>3, <3>4, InForceNone DEF Continues
  <2>2. CASE n # 2
    <3>1. PICK m : m = n - 1
      OBVIOUS
    <3>2. m >= 2 /\ m \in Nat /\ m - 1 \in 1..(n - 1) /\ (m - 1) + 1 = n - 1 /\ Len(q.queue) = m
      BY <1>2, <1>4, <2>2, <3>1
    <3>3. q.queue[m - 1] = page.queue[n - 1]
      BY <1>2, <3>2
    <3>4. \A i \in 1..(m - 2) : q.queue[i].gen < q.generation
      <4>. SUFFICES ASSUME NEW i \in 1..(m - 2) PROVE q.queue[i].gen < q.generation
        OBVIOUS
      <4>1. i \in 1..(n - 1) /\ i + 1 \in 1..(n - 2)
        BY <1>2, <3>1, <3>2
      <4>. QED BY <1>2, <1>4, <4>1
    <3>5. Resets(q, f)
      BY <1>2, <1>4, <3>2, <3>3, <3>4 DEF Resets
    <3>. QED BY <3>5
  <2>. QED BY <2>1, <2>2
<1>10. Replaying(q, c)
  <2>1. q.queue # <<>>
    BY <1>2, <1>4
  <2>2. q.queue[Len(q.queue)].frame = f /\ q.queue[Len(q.queue)].op = "REPLAY" /\ q.queue[Len(q.queue)].gen = q.generation
    BY <1>2, <1>3, <1>6 DEF f
  <2>. QED BY <1>2, <1>3, <1>8, <1>9, <2>1, <2>2 DEF Replaying
<1>. QED BY <1>1, <1>3, <1>6, <1>7, <1>10, NothingParses DEF w, c

\* The terminal parses what an earlier connection left.
LEMMA OldParses ==
  ASSUME ReadersInv, ViewInv, PageParses, ~viewing(page), ~Replaying(page, journal.committed)
  PROVE  ViewInv'
<1>. DEFINE n == Len(page.queue)
<1>1. PICK q : q = page'
  OBVIOUS
<1>2. /\ n \in Nat /\ n >= 1 /\ q.prepared = page.prepared
      /\ Len(q.queue) = n - 1 /\ \A i \in 1..(n - 1) : q.queue[i] = page.queue[i + 1]
  BY <1>1, ParsesIs
<1>3. \A i \in 1..n : page.queue[i].op = "REPLAY" => page.queue[i].gen # page.prepared
  BY DEF ViewInv, PageInv, Replayed
<1>. HIDE DEF n
<1>4. Replayed(q)
  <2>. SUFFICES ASSUME NEW i \in 1..Len(q.queue), q.queue[i].op = "REPLAY" PROVE q.queue[i].gen # q.prepared
    BY DEF Replayed
  <2>1. i \in 1..(n - 1) /\ i + 1 \in 1..n
    BY <1>2
  <2>. QED BY <1>2, <1>3, <2>1
<1>5. 1 \in 1..n
  BY <1>2
<1>. QED BY <1>1, <1>3, <1>4, <1>5, NothingParses

\* The terminal parses a write.
LEMMA PageParsesView ==
  ASSUME ReadersInv, ViewInv, PageParses
  PROVE  ViewInv'
BY ViewingParses, ReplayParses, ResetParses, OldParses

\* Every step of the page keeps the invariant.
LEMMA PageKeepsView ==
  ASSUME ReadersInv, ViewInv, Page
  PROVE  ViewInv'
BY PageReceivesView, PageParsesView, PageDisconnectsView, PageConnectsView DEF Page

(***************************************************************************)
(* The invariant holds.                                                    *)
(***************************************************************************)

\* It holds at first.
LEMMA ViewInit == ASSUME Init PROVE ViewInv
<1>1. /\ page.generation = 0 /\ ~page.open /\ page.prepared = 0 /\ ~page.committed /\ page.queue = <<>>
      /\ page.point = NoPoint /\ page.offer = NoPoint
      /\ \A a \in A : att[a] = Idle /\ conn[a].wire = <<>> /\ ~conn[a].open
  BY DEF Init
<1>2. Offered /\ Apart
  BY <1>1, NothingOffered DEF Offered, Apart
<1>3. ~viewing(page) /\ Replayed(page)
  BY <1>1 DEF viewing, Replayed
<1>4. PageInv
  BY <1>1, <1>3 DEF PageInv
<1>. QED BY <1>1, <1>2, <1>4 DEF ViewInv

\* Every step keeps it.
LEMMA ViewNext == ReadersInv /\ ReadersInv' /\ ViewInv /\ [Next]_vars => ViewInv'
<1>. SUFFICES ASSUME ReadersInv, ReadersInv', ViewInv, [Next]_vars PROVE ViewInv'
  OBVIOUS
<1>1. CASE Journal
  BY <1>1, JournalKeepsView
<1>2. CASE Page
  BY <1>2, PageKeepsView
<1>3. CASE \E a \in A : Writer(a) \/ GraceEnds(a) \/ LoopEnds(a) \/ BeginResize(a) \/ SettleResize(a)
  BY <1>3, WriterKeepsView
<1>4. CASE UNCHANGED vars
  <2>1. UNCHANGED <<journal, sub, att, conn, page>>
    BY <1>4 DEF vars
  <2>2. Offered' /\ Apart'
    BY <2>1 DEF ViewInv, Offered, Apart
  <2>3. PageInv'
    BY <2>1 DEF ViewInv, PageInv
  <2>. QED BY <2>1, <2>2, <2>3 DEF ViewInv
<1>. QED BY <1>1, <1>2, <1>3, <1>4 DEF Next

\* In every reachable state a page that is admitted, or holds a resume point, shows
\* exactly the beginning of what one generation committed, at the geometry in force
\* there, and what it has queued, what is on the wire and what its writer still has go
\* on from there without a gap or a repetition.
THEOREM ViewHolds == Spec => []ViewInv
<1>1. Init => ViewInv
  BY ViewInit
<1>. QED BY <1>1, ViewNext, ReadersHold, PTL DEF Spec

(***************************************************************************)
(* The refinement.                                                         *)
(***************************************************************************)
viewOf(p) ==
  IF ~viewing(p) THEN [stream |-> 0, shown |-> <<>>, geometry |-> 0, resume |-> 0]
  ELSE [stream |-> p.stream, shown |-> p.shown, geometry |-> inForce(p.shown), resume |-> Len(p.shown)]

\* What a page in view shows is a beginning of the stream of its generation.
LEMMA ShownIs ==
  ASSUME NEW p \in Pages, NEW c \in Counts, viewing(p), View(p, c)
  PROVE  /\ p.stream \in Gen /\ Len(p.shown) \in 0..Len(stream[c[p.stream]])
         /\ p.shown = SubSeq(stream[c[p.stream]], 1, Len(p.shown))
         /\ p.point # NoPoint => p.point.stream = p.stream /\ consumed(p.point.at) = Len(p.shown)
         /\ p.geometry = inForce(p.shown) /\ viewOf(p).stream # 0
<1>1. /\ p.stream \in Gen /\ p.shown = run(0, Len(p.shown)) /\ Len(p.shown) <= upto(c[p.stream])
      /\ p.geometry = inForce(p.shown)
      /\ p.point # NoPoint => p.point.at = at(Len(p.shown)) /\ p.point.stream = p.stream
  BY DEF View
<1>2. PICK n : n = Len(p.shown)
  OBVIOUS
<1>3. PICK m \in 0..LastRecord : m = c[p.stream]
  BY <1>1 DEF Counts
<1>4. n \in Nat
  BY <1>2 DEF Pages, Shown
<1>5. upto(m) \in 0..N /\ N \in Nat /\ upto(m) \in Nat /\ upto(m) <= N
  BY Bounds
<1>6. n <= upto(m) /\ n \in 0..upto(m) /\ n \in 0..N
  BY <1>1, <1>2, <1>3, <1>4, <1>5
<1>7. stream[m] = run(0, upto(m))
  BY StreamIs DEF run
<1>8. SubSeq(run(0, upto(m)), 1, n) = run(0, 0 + n)
  <2>1. 0 \in Nat /\ 0 <= upto(m) /\ upto(m) - 0 = upto(m)
    BY <1>5
  <2>2. PICK e \in Nat : e = upto(m)
    BY <1>5
  <2>3. n \in 0..(e - 0) /\ 0 <= e /\ e <= N
    BY <1>5, <1>6, <2>2
  <2>4. SubSeq(run(0, e), 1, n) = run(0, 0 + n)
    BY <2>1, <2>3, RunIs
  <2>. QED BY <2>2, <2>4
<1>9. p.shown = SubSeq(stream[m], 1, n)
  BY <1>1, <1>2, <1>4, <1>7, <1>8
<1>10. consumed(at(n)) = n
  BY <1>6, AtIs
<1>11. n \in 0..Len(stream[m])
  BY <1>6 DEF upto
<1>12. viewOf(p).stream # 0
  BY <1>1 DEF viewOf, Gen
<1>. QED BY <1>1, <1>2, <1>3, <1>9, <1>10, <1>11, <1>12

shownOf(p) ==
  IF ~p.committed /\ p.point = NoPoint
  THEN [stream |-> 0, shown |-> <<>>, geometry |-> 0, resume |-> 0]
  ELSE [stream |-> p.stream, shown |-> p.shown, geometry |-> p.geometry,
        resume |-> IF p.point = NoPoint THEN Len(p.shown)
                   ELSE IF p.point.stream = p.stream THEN consumed(p.point.at)
                   ELSE Len(stream[LastRecord]) + 1]

\* What shownView says of a page is what it shows.
LEMMA ShownOfIs ==
  ASSUME NEW p \in Pages, NEW c \in Counts, viewing(p) => View(p, c)
  PROVE  shownOf(p) = viewOf(p)
<1>1. CASE ~viewing(p)
  BY <1>1 DEF viewing, viewOf, shownOf
<1>2. CASE viewing(p)
  <2>1. /\ p.point # NoPoint => p.point.stream = p.stream /\ consumed(p.point.at) = Len(p.shown)
        /\ p.geometry = inForce(p.shown)
    BY <1>2, ShownIs
  <2>2. ~(~p.committed /\ p.point = NoPoint)
    BY <1>2 DEF viewing
  <2>. QED BY <1>2, <2>1, <2>2 DEF viewOf, shownOf
<1>. QED BY <1>1, <1>2

\* Once in view, the page shows more of the same stream, or loses the view.
LEMMA PageShowsOn ==
  ASSUME ReadersInv, ViewInv, Page, viewing(page), viewing(page')
  PROVE  /\ page'.stream = page.stream /\ Len(page.shown) \in Nat /\ Len(page'.shown) \in Nat
         /\ Len(page.shown) <= Len(page'.shown)
<1>1. page \in Pages /\ Len(page.shown) \in Nat
  BY DEF ReadersInv, Shapes, Pages, Shown
<1>2. CASE PageParses
  BY <1>1, <1>2, ShowsMore
<1>3. ASSUME page'.stream = page.stream, page'.shown = page.shown
      PROVE  /\ page'.stream = page.stream /\ Len(page.shown) \in Nat /\ Len(page'.shown) \in Nat
             /\ Len(page.shown) <= Len(page'.shown)
  BY <1>1, <1>3
<1>4. CASE PageReceives
  <2>1. page'.stream = page.stream /\ page'.shown = page.shown
    BY <1>1, <1>4 DEF PageReceives, pageClosed, Pages
  <2>. QED BY <1>3, <2>1
<1>5. CASE PageDisconnects
  <2>1. page'.stream = page.stream /\ page'.shown = page.shown
    BY <1>1, <1>5 DEF PageDisconnects, pageClosed, Pages
  <2>. QED BY <1>3, <2>1
<1>6. CASE \E reload \in BOOLEAN : PageConnects(reload)
  <2>1. page'.stream = page.stream /\ page'.shown = page.shown
    BY <1>1, <1>6 DEF PageConnects, Pages
  <2>. QED BY <1>3, <2>1
<1>. QED BY <1>2, <1>4, <1>5, <1>6 DEF Page

\* The page does not commit.
LEMMA PageCommitsNothing ==
  ASSUME Page
  PROVE  journal' = journal
BY DEF Page, PageReceives, PageParses, PageDisconnects, PageConnects

\* A writer neither commits nor changes what the page shows.
LEMMA WriterShowsNothing ==
  ASSUME ReadersInv, NEW a \in A,
         Writer(a) \/ GraceEnds(a) \/ LoopEnds(a) \/ BeginResize(a) \/ SettleResize(a)
  PROVE  journal'.committed = journal.committed /\ shownOf(page') = shownOf(page)
<1>1. journal \in Journals /\ page \in Pages
  BY DEF ReadersInv, Shapes
<1>2. CASE BeginResize(a)
  <2>1. journal' = journal /\ page' = [page EXCEPT !.resizes = @ + 1]
    BY <1>2 DEF BeginResize
  <2>2. /\ page'.committed = page.committed /\ page'.point = page.point /\ page'.stream = page.stream
        /\ page'.shown = page.shown /\ page'.geometry = page.geometry
    BY <1>1, <2>1 DEF Pages
  <2>. QED BY <2>1, <2>2 DEF shownOf
<1>3. CASE OpenReads(a) \/ OpenRegisters(a) \/ OpenRefused(a)
  <2>1. page' = page /\ (journal' = journal \/ \E n : journal' = [journal EXCEPT !.lock = n])
    BY <1>3 DEF OpenReads, OpenRegisters, OpenRefused
  <2>2. journal'.committed = journal.committed
    BY <1>1, <2>1 DEF Journals
  <2>. QED BY <2>1, <2>2
<1>4. CASE AttachAcquires(a) \/ OpenResolves(a) \/ PrepareWrites(a) \/ CommitWrites(a) \/ FrameWrites(a)
           \/ WriteParks(a) \/ WriteFails(a) \/ BacklogEnds(a) \/ HandEnds(a) \/ HandFails(a)
  BY <1>4 DEF AttachAcquires, OpenResolves, PrepareWrites, CommitWrites, FrameWrites, WriteParks, WriteFails,
              BacklogEnds, HandEnds, HandFails
<1>5. CASE TailTakes(a) \/ TailCatchesUp(a) \/ Rejoins(a) \/ ReadsRound(a) \/ CatchUpEnds(a) \/ TailStops(a)
           \/ SeesVerdict(a) \/ Terminates(a) \/ GraceEnds(a) \/ LoopEnds(a) \/ SettleResize(a)
  BY <1>5 DEF TailTakes, TailCatchesUp, Rejoins, ReadsRound, CatchUpEnds, TailStops, SeesVerdict, Terminates,
              GraceEnds, LoopEnds, SettleResize
<1>. QED BY <1>2, <1>3, <1>4, <1>5 DEF Writer

\* What the view's specification calls a beginning of a stream.
LEMMA UpToIs ==
  ASSUME NEW g \in Gen, NEW n \in Nat, NEW q, q = SubSeq(stream[journal.committed[g]], 1, n)
  PROVE  Promised!upTo(g, n) = [stream |-> g, shown |-> q, geometry |-> inForce(q), resume |-> n]
<1>1. Promised!inForce(q) = inForce(q)
  BY DEF Promised!inForce, inForce, Promised!Max, Max
<1>2. SubSeq(Promised!recorded(g), 1, n) = q
  BY DEF Promised!recorded
<1>. QED BY <1>1, <1>2 DEF Promised!upTo

\* Every step of the recording's readers is a step of the view, or changes nothing of it.
LEMMA PromisedNext ==
  ReadersInv /\ ViewInv /\ ReadersInv' /\ ViewInv' /\ [Next]_vars => [Promised!Next]_(Promised!vars)
<1>. SUFFICES ASSUME ReadersInv, ViewInv, ReadersInv', ViewInv', [Next]_vars
              PROVE  [Promised!Next]_(Promised!vars)
  OBVIOUS
<1>. DEFINE c == journal.committed
            d == journal'.committed
<1>1. page \in Pages /\ c \in Counts /\ page' \in Pages /\ d \in Counts
  BY DEF ReadersInv, Shapes, Journals
<1>2. (viewing(page) => View(page, c)) /\ (viewing(page') => View(page', d))
  BY DEF ViewInv, PageInv
<1>3. shownView = shownOf(page) /\ shownView' = shownOf(page')
  BY DEF shownView, shownOf
<1>. HIDE DEF c, d
<1>4. shownView = viewOf(page) /\ shownView' = viewOf(page')
  BY <1>1, <1>2, <1>3, ShownOfIs
<1>5. ASSUME c = d, shownView' = shownView PROVE UNCHANGED Promised!vars
  BY <1>5 DEF Promised!vars, c, d
<1>6. CASE Journal
  <2>1. Moves(c, d) /\ page' = page
    BY <1>6, JournalMoves DEF c, d
  <2>2. shownView' = shownView
    BY <1>3, <2>1
  <2>3. CASE d = c
    BY <1>5, <2>2, <2>3
  <2>4. CASE \E g \in Gen : c[g] < LastRecord /\ d = [c EXCEPT ![g] = @ + 1]
    <3>1. \E g \in Gen : Promised!Commit(g)
      BY <2>2, <2>4 DEF Promised!Commit, c, d
    <3>. QED BY <3>1 DEF Promised!Next
  <2>5. CASE \E g \in Gen : c[g] = 0 /\ d = [c EXCEPT ![g] = Birth]
    <3>1. \E g \in Gen : Promised!Begin(g)
      BY <2>2, <2>5 DEF Promised!Begin, c, d
    <3>. QED BY <3>1 DEF Promised!Next
  <2>. QED BY <2>1, <2>3, <2>4, <2>5 DEF Moves
<1>7. CASE Page
  <2>1. d = c
    BY <1>7, PageCommitsNothing DEF c, d
  <2>2. CASE ~viewing(page')
    <3>1. shownView' = Promised!NoView
      BY <1>4, <2>2 DEF viewOf, Promised!NoView
    <3>2. Promised!Lose
      BY <2>1, <3>1 DEF Promised!Lose, c, d
    <3>. QED BY <3>2 DEF Promised!Next
  <2>3. CASE viewing(page')
    <3>1. PICK g : g = page'.stream
      OBVIOUS
    <3>2. PICK n : n = Len(page'.shown)
      OBVIOUS
    <3>3. PICK q : q = page'.shown
      OBVIOUS
    <3>4. g \in Gen /\ n \in 0..Len(stream[d[g]]) /\ q = SubSeq(stream[d[g]], 1, n)
      BY <1>1, <1>2, <2>3, <3>1, <3>2, <3>3, ShownIs
    <3>5. n \in Nat
      BY <1>1, <3>2 DEF Pages, Shown
    <3>6. shownView' = [stream |-> g, shown |-> q, geometry |-> inForce(q), resume |-> n]
      BY <1>4, <2>3, <3>1, <3>2, <3>3 DEF viewOf
    <3>7. shownView' = Promised!upTo(g, n)
      <4>1. q = SubSeq(stream[journal.committed[g]], 1, n)
        BY <2>1, <3>4 DEF c
      <4>2. Promised!upTo(g, n) = [stream |-> g, shown |-> q, geometry |-> inForce(q), resume |-> n]
        BY <3>4, <3>5, <4>1, UpToIs
      <4>. QED BY <3>6, <4>2
    <3>8. n \in 0..Len(Promised!recorded(g))
      BY <2>1, <3>4 DEF Promised!recorded, c
    <3>9. CASE ~viewing(page)
      <4>1. shownView = Promised!NoView
        BY <1>4, <3>9 DEF viewOf, Promised!NoView
      <4>2. Promised!Admit(g)
        BY <2>1, <3>7, <3>8, <4>1 DEF Promised!Admit, c, d
      <4>. QED BY <3>4, <4>2 DEF Promised!Next
    <3>10. CASE viewing(page)
      <4>1. page.stream = g /\ Len(page.shown) \in Nat /\ Len(page.shown) <= n
        BY <1>7, <2>3, <3>1, <3>2, <3>10, PageShowsOn
      <4>2. shownView.stream = g /\ shownView.shown = page.shown
        BY <1>4, <3>10, <4>1 DEF viewOf
      <4>3. shownView # Promised!NoView
        <5>1. 0 \notin Gen
          BY DEF Gen
        <5>. QED BY <3>4, <4>2, <5>1 DEF Promised!NoView
      <4>4. n \in Len(shownView.shown)..Len(Promised!recorded(shownView.stream))
        <5>1. PICK m : m = Len(Promised!recorded(g))
          OBVIOUS
        <5>2. n \in 0..m
          BY <3>8, <5>1
        <5>3. n <= m
          BY <5>2
        <5>4. n \in Len(page.shown)..m
          BY <3>5, <4>1, <5>2, <5>3
        <5>. QED BY <4>2, <5>1, <5>4
      <4>5. Promised!Extend
        BY <2>1, <3>7, <4>2, <4>3, <4>4 DEF Promised!Extend, c, d
      <4>. QED BY <4>5 DEF Promised!Next
    <3>. QED BY <3>9, <3>10
  <2>. QED BY <2>2, <2>3
<1>8. CASE \E a \in A : Writer(a) \/ GraceEnds(a) \/ LoopEnds(a) \/ BeginResize(a) \/ SettleResize(a)
  <2>1. d = c /\ shownOf(page') = shownOf(page)
    BY <1>8, WriterShowsNothing DEF c, d
  <2>. QED BY <1>3, <1>5, <2>1
<1>9. CASE UNCHANGED vars
  <2>1. journal' = journal /\ page' = page
    BY <1>9 DEF vars
  <2>. QED BY <1>3, <1>5, <2>1 DEF c, d
<1>. QED BY <1>6, <1>7, <1>8, <1>9 DEF Next

\* RecordingStream implements RecordedView: through rotations, lag, catch-up, lost
\* connections and resumed admissions, whatever the page shows is the beginning of what
\* one generation committed, and only ever grows until the view is lost (openStream,
\* publishEvent, readCatchUp, streamTail, acceptPrepare, advanceResume).
THEOREM PageFollows == Spec => PageFollowsRecording
<1>1. Init => Promised!Init
  <2>. SUFFICES ASSUME Init PROVE Promised!Init
    OBVIOUS
  <2>1. journal.committed = [g \in Gen |-> IF g = 1 THEN Birth ELSE 0]
        /\ ~page.committed /\ page.point = NoPoint
    BY DEF Init
  <2>2. shownView = Promised!NoView
    BY <2>1 DEF shownView, Promised!NoView
  <2>. QED BY <2>1, <2>2 DEF Promised!Init
<1>. QED BY <1>1, PromisedNext, ReadersHold, ViewHolds, PTL DEF Spec, PageFollowsRecording, Promised!Spec

=============================================================================
