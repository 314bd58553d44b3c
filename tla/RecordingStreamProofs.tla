------------------------ MODULE RecordingStreamProofs ------------------------
(***************************************************************************)
(* Proofs about the recorded read path (RecordingStream), for recordings   *)
(* of any length and any sizes, every budget, cap and packing bound, and   *)
(* any number of generations, attachments and resizes.                     *)
(*                                                                         *)
(* Part I is about data: the sequence helpers, the stream of atoms and the *)
(* runs of it, cursors, the packing of a run into frames (packed), what a  *)
(* reader holds of the budget (charged), and the sums over readers.        *)
(*                                                                         *)
(* Part II is the invariant ReadersInv and one lemma per action.           *)
(*                                                                         *)
(*   Shapes    the types of the records;                                   *)
(*   Counted   a generation has published what it committed, or less, and  *)
(*             one that was never admitted has nothing;                    *)
(*   Charged   a lease is charged, to the byte, for the events its queue   *)
(*             and the writer's hand hold and for the round that the       *)
(*             writer holds, whichever of the two was closed first;        *)
(*   Placing   a reader is never ahead of what its generation committed,   *)
(*             and its cursor stands at the end of a record;               *)
(*   Connected a connection holds no more frames than it takes, and an     *)
(*             attachment the page has not opened yet is idle.             *)
(*                                                                         *)
(* publishEvent offers an event to the subscribers in an order the code    *)
(* does not fix (it ranges over a map), so the budget is proved for every  *)
(* order: Offers is what holds after some of them, by the folds of         *)
(* Folding.                                                                *)
(***************************************************************************)
EXTENDS RecordingStream, FiniteSetTheorems, SequenceTheorems, TLAPS

(***************************************************************************)
(* Sequences, over any set of elements.                                    *)
(***************************************************************************)

\* The first element and the others.
LEMMA HeadTail ==
  ASSUME NEW S, NEW q \in Seq(S), q # <<>>
  PROVE  /\ Len(q) \in Nat /\ Len(q) >= 1 /\ Head(q) = q[1] /\ q[1] \in S
         /\ Tail(q) \in Seq(S) /\ Len(Tail(q)) = Len(q) - 1
         /\ \A i \in 1..(Len(q) - 1) : Tail(q)[i] = q[i + 1]
OBVIOUS

\* One element more.
LEMMA Appended ==
  ASSUME NEW S, NEW q \in Seq(S), NEW x \in S
  PROVE  /\ Append(q, x) \in Seq(S) /\ Len(q) \in Nat /\ Len(Append(q, x)) = Len(q) + 1
         /\ Append(q, x) # <<>> /\ Append(q, x)[Len(q) + 1] = x
         /\ \A i \in 1..Len(q) : Append(q, x)[i] = q[i]
<1>1. Append(q, x) \in Seq(S) /\ Len(q) \in Nat /\ Len(Append(q, x)) = Len(q) + 1
  OBVIOUS
<1>. QED BY <1>1

\* The elements up to n.
LEMMA Beginning ==
  ASSUME NEW S, NEW q \in Seq(S), NEW n \in 0..Len(q)
  PROVE  /\ SubSeq(q, 1, n) \in Seq(S) /\ Len(SubSeq(q, 1, n)) = n
         /\ \A i \in 1..n : SubSeq(q, 1, n)[i] = q[i]
<1>1. Len(q) \in Nat /\ \A i \in 1..Len(q) : q[i] \in S
  OBVIOUS
<1>2. /\ SubSeq(q, 1, n) \in Seq(S) /\ Len(SubSeq(q, 1, n)) = IF 1 <= n THEN n - 1 + 1 ELSE 0
      /\ \A i \in 1..(n - 1 + 1) : SubSeq(q, 1, n)[i] = q[1 + i - 1]
  <2>1. 1 \in Int /\ n \in Int /\ \A i \in 1..n : q[i] \in S
    BY <1>1
  <2>. QED BY <2>1, SubSeqProperties
<1>3. n \in Nat
  BY <1>1
<1>. QED BY <1>2, <1>3

\* The elements after n.
LEMMA Ending ==
  ASSUME NEW S, NEW q \in Seq(S), NEW n \in 0..Len(q)
  PROVE  /\ SubSeq(q, n + 1, Len(q)) \in Seq(S) /\ Len(SubSeq(q, n + 1, Len(q))) = Len(q) - n
         /\ \A i \in 1..(Len(q) - n) : SubSeq(q, n + 1, Len(q))[i] = q[n + i]
<1>. DEFINE t == SubSeq(q, n + 1, Len(q))
<1>1. Len(q) \in Nat /\ \A i \in 1..Len(q) : q[i] \in S
  OBVIOUS
<1>2. /\ t \in Seq(S) /\ Len(t) = IF n + 1 <= Len(q) THEN Len(q) - (n + 1) + 1 ELSE 0
      /\ \A i \in 1..(Len(q) - (n + 1) + 1) : t[i] = q[(n + 1) + i - 1]
  <2>1. n + 1 \in Int /\ Len(q) \in Int /\ \A i \in (n + 1)..Len(q) : q[i] \in S
    BY <1>1
  <2>. QED BY <2>1, SubSeqProperties
<1>3. n \in Nat
  BY <1>1
<1>. HIDE DEF t
<1>4. Len(t) = Len(q) - n
  BY <1>1, <1>2, <1>3
<1>5. ASSUME NEW i \in 1..(Len(q) - n) PROVE t[i] = q[n + i]
  <2>1. i \in 1..(Len(q) - (n + 1) + 1) /\ (n + 1) + i - 1 = n + i
    BY <1>1, <1>3
  <2>. QED BY <1>2, <2>1
<1>. QED BY <1>2, <1>4, <1>5 DEF t

(***************************************************************************)
(* The recorded stream and positions in it.                                *)
(***************************************************************************)
plus(m, n) == m + n

W == INSTANCE Folding WITH Op <- followed, X <- Nat
T == INSTANCE Folding WITH Op <- plus, X <- Nat
K == INSTANCE Folding WITH Op <- packed, X <- Atom

\* The atoms of the first n records, how many they are, and all of them.
upto(n) == Len(stream[n])
whole == stream[LastRecord]

\* The position after the first n atoms, as a cursor.
at(n) == IF n = 0 THEN Origin ELSE after(whole[n])

\* The sizes of the records.
LEMMA SizesAre ==
  /\ LastRecord \in Nat /\ \A s \in 1..LastRecord : Sizes[s] \in Nat
  /\ Birth \in 0..LastRecord
<1>1. Sizes \in Seq(Nat) /\ Birth \in Nat /\ Birth <= Len(Sizes)
  BY StreamAssumption
<1>. QED BY <1>1 DEF LastRecord

\* An atom is a record and a unit of it, or the geometry it is.
LEMMA AtomIs ==
  /\ \A x \in Atom : x = <<x[1], x[2]>> /\ x[1] \in 1..LastRecord /\ x[2] \in 0..Sizes[x[1]]
  /\ \A s \in 1..LastRecord : \A u \in 0..Sizes[s] : <<s, u>> \in Atom
<1>1. ASSUME NEW x \in Atom
      PROVE  x = <<x[1], x[2]>> /\ x[1] \in 1..LastRecord /\ x[2] \in 0..Sizes[x[1]]
  <2>1. PICK s \in 1..LastRecord : x \in {<<s, u>> : u \in 0..Sizes[s]}
    BY <1>1, Zenon DEF Atom
  <2>2. PICK u \in 0..Sizes[s] : x = <<s, u>>
    BY <2>1
  <2>. QED BY <2>2
<1>2. ASSUME NEW s \in 1..LastRecord, NEW u \in 0..Sizes[s]
      PROVE  <<s, u>> \in Atom
  <2>1. <<s, u>> \in {<<s, v>> : v \in 0..Sizes[s]}
    BY <1>2
  <2>. QED BY <2>1, Zenon DEF Atom
<1>. QED BY <1>1, <1>2

\* The atoms of a record.
LEMMA AtomsAre ==
  ASSUME NEW s \in 1..LastRecord
  PROVE  /\ atomsOf(s) \in Seq(Atom)
         /\ Len(atomsOf(s)) = IF Sizes[s] = 0 THEN 1 ELSE Sizes[s]
         /\ \A u \in 1..Len(atomsOf(s)) : atomsOf(s)[u] = <<s, IF Sizes[s] = 0 THEN 0 ELSE u>>
<1>1. Sizes[s] \in Nat
  BY SizesAre
<1>2. CASE Sizes[s] = 0
  <2>1. <<s, 0>> \in Atom
    BY <1>2, AtomIs
  <2>2. atomsOf(s) = << <<s, 0>> >>
    BY <1>2 DEF atomsOf
  <2>. QED BY <1>2, <2>1, <2>2
<1>3. CASE Sizes[s] # 0
  <2>. DEFINE t == [u \in 1..Sizes[s] |-> <<s, u>>]
  <2>1. \A u \in 1..Sizes[s] : <<s, u>> \in Atom
    BY <1>1, AtomIs
  <2>2. t \in Seq(Atom) /\ Len(t) = Sizes[s]
    BY <1>1, <2>1
  <2>3. atomsOf(s) = t
    BY <1>3 DEF atomsOf
  <2>. QED BY <1>3, <2>2, <2>3
<1>. QED BY <1>2, <1>3

\* The numbers up to n + 1 are those up to n, and n + 1.
LEMMA CountTo ==
  ASSUME NEW n \in Nat
  PROVE  /\ [s \in 1..0 |-> s] = <<>>
         /\ [s \in 1..n |-> s] \in Seq(Nat)
         /\ [s \in 1..(n + 1) |-> s] = Append([s \in 1..n |-> s], n + 1)
<1>. DEFINE c == [s \in 1..n |-> s]
            d == [s \in 1..(n + 1) |-> s]
<1>1. c \in Seq(Nat) /\ Len(c) = n /\ d \in Seq(Nat) /\ Len(d) = n + 1
  OBVIOUS
<1>2. Append(c, n + 1) \in Seq(Nat) /\ Len(Append(c, n + 1)) = n + 1
  BY <1>1
<1>3. \A i \in 1..(n + 1) : d[i] = Append(c, n + 1)[i]
  BY <1>1
<1>4. d = Append(c, n + 1)
  BY <1>1, <1>2, <1>3, SeqEqual
<1>5. [s \in 1..0 |-> s] = <<>>
  OBVIOUS
<1>. QED BY <1>1, <1>4, <1>5

\* The stream grows by whole records.
LEMMA StreamGrows ==
  /\ stream[0] = <<>>
  /\ \A n \in Nat : n + 1 <= LastRecord => stream[n + 1] = stream[n] \o atomsOf(n + 1)
<1>1. LastRecord \in Nat
  BY SizesAre
<1>2. \A n \in 0..LastRecord : stream[n] = W!fold(<<>>, [s \in 1..n |-> s])
  <2>1. \A c : FoldLeft(followed, <<>>, c) = W!fold(<<>>, c)
    BY DEF W!fold, FoldLeft, MapThenFoldSet, Max, W!last
  <2>2. \A n \in 0..LastRecord : stream[n] = FoldLeft(followed, <<>>, [s \in 1..n |-> s])
    BY DEF stream
  <2>. QED BY <2>1, <2>2
<1>3. stream[0] = <<>>
  <2>1. 0 \in 0..LastRecord /\ 0 \in Nat
    BY <1>1
  <2>2. [s \in 1..0 |-> s] = <<>>
    BY <2>1, CountTo
  <2>3. stream[0] = W!fold(<<>>, [s \in 1..0 |-> s])
    BY <1>2, <2>1
  <2>4. stream[0] = W!fold(<<>>, <<>>)
    BY <2>2, <2>3
  <2>. QED BY <2>4, W!FoldEmpty
<1>4. ASSUME NEW n \in Nat, n + 1 <= LastRecord
      PROVE  stream[n + 1] = stream[n] \o atomsOf(n + 1)
  <2>. DEFINE c == [s \in 1..n |-> s]
  <2>1. c \in Seq(Nat) /\ [s \in 1..(n + 1) |-> s] = Append(c, n + 1) /\ n + 1 \in Nat
    BY CountTo
  <2>4. n \in 0..LastRecord /\ n + 1 \in 0..LastRecord
    BY <1>1, <1>4
  <2>2. stream[n] = W!fold(<<>>, c) /\ stream[n + 1] = W!fold(<<>>, Append(c, n + 1))
    BY <1>2, <2>1, <2>4
  <2>. HIDE DEF c
  <2>3. W!fold(<<>>, Append(c, n + 1)) = followed(W!fold(<<>>, c), n + 1)
    BY <2>1, W!FoldAppend
  <2>. QED BY <2>2, <2>3 DEF followed
<1>. QED BY <1>3, <1>4

\* The offsets at which records end.
LEMMA EndGrows ==
  /\ endOf[0] = 0
  /\ \A n \in Nat : n + 1 <= LastRecord => endOf[n + 1] = endOf[n] + Sizes[n + 1]
<1>1. LastRecord \in Nat /\ Sizes \in Seq(Nat) /\ LastRecord = Len(Sizes)
  BY SizesAre, StreamAssumption DEF LastRecord
<1>2. \A n \in 0..LastRecord : endOf[n] = T!fold(0, SubSeq(Sizes, 1, n))
  <2>1. \A c : FoldLeft(+, 0, c) = T!fold(0, c)
    BY DEF T!fold, plus, FoldLeft, MapThenFoldSet, Max, T!last
  <2>2. \A n \in 0..LastRecord : endOf[n] = FoldLeft(+, 0, SubSeq(Sizes, 1, n))
    BY DEF endOf
  <2>. QED BY <2>1, <2>2
<1>3. endOf[0] = 0
  <2>1. SubSeq(Sizes, 1, 0) = <<>>
    BY <1>1
  <2>3. 0 \in 0..LastRecord
    BY <1>1
  <2>2. endOf[0] = T!fold(0, <<>>)
    BY <1>2, <2>1, <2>3
  <2>. QED BY <2>2, T!FoldEmpty
<1>4. ASSUME NEW n \in Nat, n + 1 <= LastRecord
      PROVE  endOf[n + 1] = endOf[n] + Sizes[n + 1]
  <2>. DEFINE c == SubSeq(Sizes, 1, n)
  <2>1. c \in Seq(Nat) /\ SubSeq(Sizes, 1, n + 1) = Append(c, Sizes[n + 1]) /\ Sizes[n + 1] \in Nat
    BY <1>1, <1>4
  <2>4. n \in 0..LastRecord /\ n + 1 \in 0..LastRecord
    BY <1>1, <1>4
  <2>2. endOf[n] = T!fold(0, c) /\ endOf[n + 1] = T!fold(0, Append(c, Sizes[n + 1]))
    BY <1>2, <2>1, <2>4
  <2>. HIDE DEF c
  <2>3. T!fold(0, Append(c, Sizes[n + 1])) = plus(T!fold(0, c), Sizes[n + 1])
    BY <2>1, T!FoldAppend
  <2>. QED BY <2>2, <2>3 DEF plus
<1>. QED BY <1>3, <1>4

\* Types and lengths of the stream.
LEMMA StreamTypes ==
  /\ \A n \in 0..LastRecord : stream[n] \in Seq(Atom) /\ upto(n) \in Nat /\ endOf[n] \in Nat
  /\ upto(0) = 0
  /\ \A n \in 1..LastRecord :
       /\ upto(n) = upto(n - 1) + (IF Sizes[n] = 0 THEN 1 ELSE Sizes[n])
       /\ endOf[n] = endOf[n - 1] + Sizes[n]
<1>. DEFINE P == {n \in Nat : n <= LastRecord => stream[n] \in Seq(Atom) /\ endOf[n] \in Nat}
<1>0. LastRecord \in Nat
  BY SizesAre
<1>1. 0 \in P
  <2>1. <<>> \in Seq(Atom)
    OBVIOUS
  <2>2. stream[0] \in Seq(Atom)
    BY <2>1, StreamGrows
  <2>3. endOf[0] \in Nat
    BY EndGrows
  <2>. QED BY <2>2, <2>3
<1>2. \A n \in P : n + 1 \in P
  <2>. SUFFICES ASSUME NEW n \in P, n + 1 <= LastRecord
                PROVE  stream[n + 1] \in Seq(Atom) /\ endOf[n + 1] \in Nat
    OBVIOUS
  <2>1. n + 1 \in 1..LastRecord /\ stream[n] \in Seq(Atom) /\ endOf[n] \in Nat
    BY <1>0
  <2>2. atomsOf(n + 1) \in Seq(Atom) /\ Sizes[n + 1] \in Nat
    BY <2>1, AtomsAre, SizesAre
  <2>3. stream[n + 1] = stream[n] \o atomsOf(n + 1) /\ endOf[n + 1] = endOf[n] + Sizes[n + 1]
    BY StreamGrows, EndGrows
  <2>. QED BY <2>1, <2>2, <2>3
<1>3. P \in SUBSET Nat
  OBVIOUS
<1>4. P = Nat
  <2>. HIDE DEF P
  <2>. QED BY <1>1, <1>2, <1>3, W!Induct
<1>5. \A n \in 0..LastRecord : stream[n] \in Seq(Atom) /\ upto(n) \in Nat /\ endOf[n] \in Nat
  BY <1>0, <1>4 DEF upto
<1>6. ASSUME NEW n \in 1..LastRecord
      PROVE  /\ upto(n) = upto(n - 1) + (IF Sizes[n] = 0 THEN 1 ELSE Sizes[n])
             /\ endOf[n] = endOf[n - 1] + Sizes[n]
  <2>1. n - 1 \in Nat /\ n - 1 \in 0..LastRecord /\ (n - 1) + 1 = n /\ n <= LastRecord
    BY <1>0
  <2>2. stream[n] = stream[n - 1] \o atomsOf(n) /\ endOf[n] = endOf[n - 1] + Sizes[n]
    BY <2>1, StreamGrows, EndGrows
  <2>3. /\ stream[n - 1] \in Seq(Atom) /\ atomsOf(n) \in Seq(Atom)
        /\ Len(atomsOf(n)) = IF Sizes[n] = 0 THEN 1 ELSE Sizes[n]
    BY <1>5, <2>1, AtomsAre
  <2>4. Len(stream[n - 1] \o atomsOf(n)) = Len(stream[n - 1]) + Len(atomsOf(n))
    BY <2>3, ConcatProperties
  <2>. QED BY <2>2, <2>3, <2>4 DEF upto
<1>7. upto(0) = 0
  <2>1. Len(<<>>) = 0
    OBVIOUS
  <2>. QED BY <2>1, StreamGrows DEF upto
<1>. QED BY <1>5, <1>6, <1>7

\* Later records end later.
LEMMA UptoGrows ==
  ASSUME NEW m \in 0..LastRecord
  PROVE  \A n \in 0..m : upto(n) <= upto(m) /\ endOf[n] <= endOf[m] /\ (n < m => upto(n) < upto(m))
<1>. DEFINE P == {k \in Nat : k <= LastRecord =>
                    \A n \in 0..k : upto(n) <= upto(k) /\ endOf[n] <= endOf[k] /\ (n < k => upto(n) < upto(k))}
<1>0. LastRecord \in Nat
  BY SizesAre
<1>1. 0 \in P
  BY StreamTypes, <1>0
<1>2. \A k \in P : k + 1 \in P
  <2>. SUFFICES ASSUME NEW k \in P, k + 1 <= LastRecord, NEW n \in 0..(k + 1)
                PROVE  /\ upto(n) <= upto(k + 1) /\ endOf[n] <= endOf[k + 1]
                       /\ n < k + 1 => upto(n) < upto(k + 1)
    OBVIOUS
  <2>1. k + 1 \in 1..LastRecord /\ k \in 0..LastRecord /\ n \in 0..LastRecord /\ (k + 1) - 1 = k
    BY <1>0
  <2>2. upto(k) \in Nat /\ upto(k + 1) \in Nat /\ upto(n) \in Nat /\ endOf[k] \in Nat /\ endOf[k + 1] \in Nat
        /\ endOf[n] \in Nat /\ Sizes[k + 1] \in Nat
    BY <2>1, StreamTypes, SizesAre
  <2>3. upto(k + 1) > upto(k) /\ endOf[k + 1] >= endOf[k]
    <3>1. /\ upto(k + 1) = upto(k) + (IF Sizes[k + 1] = 0 THEN 1 ELSE Sizes[k + 1])
          /\ endOf[k + 1] = endOf[k] + Sizes[k + 1]
      BY <2>1, StreamTypes
    <3>. QED BY <2>2, <3>1
  <2>4. CASE n = k + 1
    BY <2>2, <2>4
  <2>5. CASE n # k + 1
    <3>1. n \in 0..k
      BY <2>1, <2>5
    <3>2. upto(n) <= upto(k) /\ endOf[n] <= endOf[k]
      BY <2>1, <3>1
    <3>. QED BY <2>2, <2>3, <3>2
  <2>. QED BY <2>4, <2>5
<1>3. P \in SUBSET Nat
  OBVIOUS
<1>4. P = Nat
  <2>. HIDE DEF P
  <2>. QED BY <1>1, <1>2, <1>3, W!Induct
<1>. QED BY <1>0, <1>4

\* Where an atom of the stream is.
placed(m, i, s) ==
  /\ upto(s - 1) < i /\ i <= upto(s)
  /\ stream[m][i] = <<s, IF Sizes[s] = 0 THEN 0 ELSE i - upto(s - 1)>>

\* Each position of the stream up to a record is placed in one of those records.
LEMMA Placed ==
  ASSUME NEW m \in 0..LastRecord
  PROVE  \A i \in 1..upto(m) : \E s \in 1..m : placed(m, i, s)
<1>. DEFINE P == {k \in Nat : k <= LastRecord => \A i \in 1..upto(k) : \E s \in 1..k : placed(k, i, s)}
<1>0. LastRecord \in Nat
  BY SizesAre
<1>1. 0 \in P
  BY StreamTypes
<1>2. \A k \in P : k + 1 \in P
  <2>. SUFFICES ASSUME NEW k \in P, k + 1 <= LastRecord, NEW i \in 1..upto(k + 1)
                PROVE  \E s \in 1..(k + 1) : placed(k + 1, i, s)
    OBVIOUS
  <2>1. k + 1 \in 1..LastRecord /\ k \in 0..LastRecord /\ (k + 1) - 1 = k
    BY <1>0
  <2>2. /\ stream[k + 1] = stream[k] \o atomsOf(k + 1) /\ stream[k] \in Seq(Atom) /\ atomsOf(k + 1) \in Seq(Atom)
        /\ Len(atomsOf(k + 1)) = (IF Sizes[k + 1] = 0 THEN 1 ELSE Sizes[k + 1]) /\ upto(k) \in Nat
        /\ \A u \in 1..Len(atomsOf(k + 1)) :
             atomsOf(k + 1)[u] = <<k + 1, IF Sizes[k + 1] = 0 THEN 0 ELSE u>>
    BY <2>1, StreamGrows, StreamTypes, AtomsAre
  <2>3. upto(k + 1) = upto(k) + Len(atomsOf(k + 1)) /\ Sizes[k + 1] \in Nat
    BY <2>2, <2>1, SizesAre DEF upto
  <2>4. \A j \in 1..upto(k + 1) : stream[k + 1][j] = IF j <= upto(k) THEN stream[k][j]
                                                     ELSE atomsOf(k + 1)[j - upto(k)]
    BY <2>2, <2>3 DEF upto
  <2>5. CASE i <= upto(k)
    <3>1. PICK s \in 1..k : placed(k, i, s)
      BY <2>1, <2>2, <2>5
    <3>2. stream[k + 1][i] = stream[k][i]
      BY <2>4, <2>5
    <3>3. placed(k + 1, i, s) /\ s \in 1..(k + 1)
      BY <3>1, <3>2 DEF placed
    <3>. QED BY <3>3
  <2>6. CASE ~(i <= upto(k))
    <3>. DEFINE u == i - upto(k)
    <3>1. u \in 1..Len(atomsOf(k + 1)) /\ stream[k + 1][i] = atomsOf(k + 1)[u]
      <4>1. Len(atomsOf(k + 1)) \in Nat
        BY <2>2, <2>3
      <4>. HIDE DEF upto
      <4>2. u \in 1..Len(atomsOf(k + 1))
        BY <2>2, <2>3, <2>6, <4>1
      <4>. QED BY <2>4, <2>6, <4>2
    <3>3. stream[k + 1][i] = <<k + 1, IF Sizes[k + 1] = 0 THEN 0 ELSE u>>
      BY <2>2, <3>1
    <3>2. placed(k + 1, i, k + 1)
      <4>1. upto((k + 1) - 1) < i /\ i <= upto(k + 1)
        BY <2>1, <2>2, <2>6
      <4>2. stream[k + 1][i] = <<k + 1, IF Sizes[k + 1] = 0 THEN 0 ELSE i - upto((k + 1) - 1)>>
        BY <2>1, <3>3
      <4>. QED BY <4>1, <4>2 DEF placed
    <3>. QED BY <3>2
  <2>. QED BY <2>5, <2>6
<1>3. P \in SUBSET Nat
  OBVIOUS
<1>4. P = Nat
  <2>. HIDE DEF P
  <2>. QED BY <1>1, <1>2, <1>3, W!Induct
<1>. QED BY <1>0, <1>4

\* All the atoms there can be, and how many.
N == upto(LastRecord)
run(k, e) == SubSeq(whole, k + 1, e)

\* Lengths, for reference.
LEMMA Bounds ==
  /\ LastRecord \in Nat /\ N \in Nat /\ whole \in Seq(Atom) /\ Len(whole) = N
  /\ \A m \in 0..LastRecord : upto(m) \in 0..N /\ endOf[m] \in 0..endOf[LastRecord]
  /\ endOf[LastRecord] \in Nat /\ upto(0) = 0 /\ endOf[0] = 0
<1>1. LastRecord \in Nat /\ LastRecord \in 0..LastRecord /\ 0 \in 0..LastRecord
  BY SizesAre
<1>2. N \in Nat /\ whole \in Seq(Atom) /\ Len(whole) = N /\ endOf[LastRecord] \in Nat
  BY <1>1, StreamTypes DEF N, whole, upto
<1>3. ASSUME NEW m \in 0..LastRecord
      PROVE  upto(m) \in 0..N /\ endOf[m] \in 0..endOf[LastRecord]
  <2>1. upto(m) <= N /\ endOf[m] <= endOf[LastRecord]
    BY <1>1, UptoGrows DEF N
  <2>2. upto(m) \in Nat /\ endOf[m] \in Nat
    BY StreamTypes
  <2>. QED BY <1>2, <2>1, <2>2
<1>. QED BY <1>1, <1>2, <1>3, StreamTypes, EndGrows

\* Only one record holds a place.
LEMMA PlaceUnique ==
  ASSUME NEW s \in 1..LastRecord, NEW r \in 1..LastRecord, NEW i \in Nat,
         upto(s - 1) < i, i <= upto(s), upto(r - 1) < i, i <= upto(r)
  PROVE  r = s
<1>1. LastRecord \in Nat
  BY SizesAre
<1>2. CASE r < s
  <2>1. s - 1 \in 0..LastRecord /\ r \in 0..(s - 1) /\ r \in 0..LastRecord
    BY <1>1, <1>2
  <2>2. upto(r) <= upto(s - 1) /\ upto(r) \in Nat /\ upto(s - 1) \in Nat
    BY <2>1, UptoGrows, StreamTypes
  <2>. QED BY <2>2
<1>3. CASE s < r
  <2>1. r - 1 \in 0..LastRecord /\ s \in 0..(r - 1) /\ s \in 0..LastRecord
    BY <1>1, <1>3
  <2>2. upto(s) <= upto(r - 1) /\ upto(s) \in Nat /\ upto(r - 1) \in Nat
    BY <2>1, UptoGrows, StreamTypes
  <2>. QED BY <2>2
<1>. QED BY <1>1, <1>2, <1>3

\* What the atom at a place is.
LEMMA WholeIs ==
  ASSUME NEW i \in 1..N
  PROVE  /\ whole[i] \in Atom /\ whole[i][1] \in 1..LastRecord /\ whole[i][2] \in 0..Sizes[whole[i][1]]
         /\ Sizes[whole[i][1]] \in Nat
         /\ upto(whole[i][1] - 1) < i /\ i <= upto(whole[i][1])
         /\ whole[i] = <<whole[i][1], whole[i][2]>>
         /\ whole[i][2] = IF Sizes[whole[i][1]] = 0 THEN 0 ELSE i - upto(whole[i][1] - 1)
<1>1. LastRecord \in 0..LastRecord /\ i \in 1..upto(LastRecord)
  BY SizesAre DEF N
<1>2. PICK s \in 1..LastRecord : placed(LastRecord, i, s)
  BY <1>1, Placed
<1>3. whole[i] \in Atom
  BY Bounds
<1>4. whole[i][1] = s /\ whole[i][2] = (IF Sizes[s] = 0 THEN 0 ELSE i - upto(s - 1))
  BY <1>2 DEF placed, whole
<1>. QED BY <1>2, <1>3, <1>4, AtomIs, SizesAre DEF placed

\* The records begin the stream.
LEMMA StreamIs ==
  ASSUME NEW m \in 0..LastRecord
  PROVE  stream[m] = SubSeq(whole, 1, upto(m))
<1>1. upto(m) \in 0..N /\ N \in Nat /\ whole \in Seq(Atom) /\ Len(whole) = N
  BY Bounds
<1>2. stream[m] \in Seq(Atom) /\ Len(stream[m]) = upto(m)
  BY StreamTypes DEF upto
<1>. DEFINE t == SubSeq(whole, 1, upto(m))
<1>3. t \in Seq(Atom) /\ Len(t) = upto(m) /\ \A i \in 1..upto(m) : t[i] = whole[i]
  BY <1>1
<1>4. ASSUME NEW i \in 1..upto(m)
      PROVE  stream[m][i] = whole[i]
  <2>1. PICK s \in 1..m : placed(m, i, s)
    BY Placed
  <2>2. i \in 1..N /\ i \in Nat /\ s \in 1..LastRecord
    BY <1>1, SizesAre
  <2>3. whole[i][1] = s
    BY <2>1, <2>2, WholeIs, PlaceUnique DEF placed
  <2>. QED BY <2>1, <2>2, <2>3, WholeIs DEF placed
<1>. HIDE DEF t
<1>5. stream[m] = t
  BY <1>2, <1>3, <1>4, SeqEqual
<1>. QED BY <1>5 DEF t

\* The position after n atoms.
LEMMA AtIs ==
  ASSUME NEW n \in 0..N
  PROVE  /\ at(n) \in Cursor /\ consumed(at(n)) = n
         /\ at(n).seq \in 0..LastRecord /\ upto(at(n).seq) <= n
         /\ at(n).offset \in Nat
<1>1. CASE n = 0
  <2>1. at(n) = [seq |-> 0, offset |-> 0]
    BY <1>1 DEF at, Origin, cursor
  <2>2. 0 \in 0..LastRecord /\ 0 \in 0..endOf[LastRecord] /\ Len(stream[0]) = 0 /\ endOf[0] = 0
    BY Bounds DEF upto
  <2>. QED BY <1>1, <2>1, <2>2 DEF Cursor, consumed, upto
<1>2. CASE n # 0
  <2>. DEFINE s == whole[n][1]
              u == whole[n][2]
  <2>1. n \in 1..N
    BY <1>2
  <2>2. /\ s \in 1..LastRecord /\ u \in 0..Sizes[s] /\ upto(s - 1) < n /\ n <= upto(s)
        /\ u = (IF Sizes[s] = 0 THEN 0 ELSE n - upto(s - 1)) /\ Sizes[s] \in Nat
    BY <2>1, WholeIs
  <2>3. at(n) = IF u < Sizes[s] THEN cursor(s - 1, endOf[s - 1] + u) ELSE cursor(s, endOf[s])
    BY <1>2 DEF at, after
  <2>. HIDE DEF s, u
  <2>4. /\ s - 1 \in 0..LastRecord /\ s \in 0..LastRecord /\ upto(s - 1) \in Nat /\ upto(s) \in Nat
        /\ upto(s) = upto(s - 1) + (IF Sizes[s] = 0 THEN 1 ELSE Sizes[s])
        /\ endOf[s - 1] \in Nat /\ endOf[s] = endOf[s - 1] + Sizes[s] /\ endOf[s] \in 0..endOf[LastRecord]
        /\ endOf[LastRecord] \in Nat
    BY <2>2, StreamTypes, Bounds
  <2>5. CASE u < Sizes[s]
    <3>1. at(n) = [seq |-> s - 1, offset |-> endOf[s - 1] + u]
      BY <2>3, <2>5 DEF cursor
    <3>2. endOf[s - 1] + u \in 0..endOf[LastRecord] /\ u = n - upto(s - 1)
      BY <2>2, <2>4, <2>5
    <3>3. consumed(at(n)) = n
      BY <2>2, <2>4, <3>1, <3>2 DEF consumed, upto
    <3>. QED BY <2>2, <2>4, <3>1, <3>2, <3>3 DEF Cursor
  <2>6. CASE ~(u < Sizes[s])
    <3>1. at(n) = [seq |-> s, offset |-> endOf[s]]
      BY <2>3, <2>6 DEF cursor
    <3>2. upto(s) = n
      BY <2>2, <2>4, <2>6
    <3>3. consumed(at(n)) = n
      BY <2>2, <2>4, <3>1, <3>2 DEF consumed, upto
    <3>. QED BY <2>2, <2>4, <3>1, <3>2, <3>3 DEF Cursor
  <2>. QED BY <2>5, <2>6
<1>. QED BY <1>1, <1>2

\* The position after m records.
LEMMA AtEnd ==
  ASSUME NEW m \in 0..LastRecord
  PROVE  at(upto(m)) = cursor(m, endOf[m])
<1>1. CASE m = 0
  BY <1>1, Bounds DEF at, Origin
<1>2. CASE m # 0
  <2>. DEFINE n == upto(m)
  <2>1. m \in 1..LastRecord /\ m - 1 \in 0..LastRecord /\ Sizes[m] \in Nat
    BY <1>2, SizesAre
  <2>2. n = upto(m - 1) + (IF Sizes[m] = 0 THEN 1 ELSE Sizes[m]) /\ upto(m - 1) \in Nat /\ n \in 0..N /\ N \in Nat
    BY <2>1, StreamTypes, Bounds
  <2>3. n \in 1..N /\ upto(m - 1) < n /\ n <= upto(m)
    BY <2>1, <2>2
  <2>4. whole[n][1] = m
    <3>1. whole[n][1] \in 1..LastRecord /\ upto(whole[n][1] - 1) < n /\ n <= upto(whole[n][1]) /\ n \in Nat
      BY <2>3, WholeIs
    <3>. QED BY <2>1, <2>3, <3>1, PlaceUnique
  <2>5. whole[n][2] = Sizes[m]
    <3>1. whole[n][2] = IF Sizes[m] = 0 THEN 0 ELSE n - upto(m - 1)
      BY <2>3, <2>4, WholeIs
    <3>. QED BY <2>1, <2>2, <3>1
  <2>6. n # 0
    BY <2>3
  <2>. HIDE DEF n
  <2>7. at(n) = cursor(m, endOf[m])
    BY <2>1, <2>4, <2>5, <2>6 DEF at, after
  <2>. QED BY <2>7 DEF n
<1>. QED BY <1>1, <1>2

\* A valid position is within what is committed.
LEMMA AtValid ==
  ASSUME NEW n \in 0..N, NEW m \in 0..LastRecord, validCursor(at(n), m)
  PROVE  n <= upto(m)
<1>. DEFINE c == at(n)
<1>1. c.seq \in 0..LastRecord /\ c.offset \in Nat /\ consumed(c) = n /\ c.seq <= m
  BY AtIs DEF validCursor
<1>2. n = upto(c.seq) + c.offset - endOf[c.seq]
  BY <1>1 DEF consumed, upto
<1>3. upto(c.seq) \in Nat /\ endOf[c.seq] \in Nat /\ upto(m) \in Nat /\ LastRecord \in Nat
  BY <1>1, StreamTypes, SizesAre
<1>4. upto(c.seq) <= upto(m)
  BY <1>1, UptoGrows
<1>5. CASE c.offset = endOf[c.seq]
  BY <1>2, <1>3, <1>4, <1>5
<1>6. CASE c.seq < m /\ c.offset \in endOf[c.seq]..(endOf[c.seq + 1] - 1)
  <2>1. c.seq + 1 \in 1..LastRecord /\ c.seq + 1 \in 0..m /\ (c.seq + 1) - 1 = c.seq
    BY <1>1, <1>3, <1>6
  <2>2. /\ upto(c.seq + 1) = upto(c.seq) + (IF Sizes[c.seq + 1] = 0 THEN 1 ELSE Sizes[c.seq + 1])
        /\ endOf[c.seq + 1] = endOf[c.seq] + Sizes[c.seq + 1] /\ Sizes[c.seq + 1] \in Nat
        /\ upto(c.seq + 1) <= upto(m)
    BY <2>1, StreamTypes, SizesAre, UptoGrows
  <2>. HIDE DEF c
  <2>. QED BY <1>1, <1>2, <1>3, <1>6, <2>2
<1>. QED BY <1>5, <1>6 DEF validCursor

\* A run of atoms.
LEMMA RunIs ==
  ASSUME NEW k \in Nat, NEW e \in Nat, k <= e, e <= N
  PROVE  /\ run(k, e) \in Seq(Atom) /\ Len(run(k, e)) = e - k
         /\ \A j \in 1..(e - k) : run(k, e)[j] = whole[k + j]
         /\ \A j \in 1..(e - k) : after(run(k, e)[j]) = at(k + j)
         /\ \A j \in 0..(e - k) : SubSeq(run(k, e), 1, j) = run(k, k + j)
         /\ \A j \in 0..(e - k) : SubSeq(run(k, e), j + 1, Len(run(k, e))) = run(k + j, e)
<1>1. whole \in Seq(Atom) /\ Len(whole) = N /\ N \in Nat
  BY Bounds
<1>. DEFINE t == run(k, e)
<1>2. t \in Seq(Atom) /\ Len(t) = e - k /\ \A j \in 1..(e - k) : t[j] = whole[k + j]
  BY <1>1 DEF run
<1>3. ASSUME NEW j \in 1..(e - k)
      PROVE  after(t[j]) = at(k + j)
  <2>1. k + j # 0
    OBVIOUS
  <2>. QED BY <1>2, <2>1 DEF at
<1>4. ASSUME NEW j \in 0..(e - k)
      PROVE  SubSeq(t, 1, j) = run(k, k + j) /\ SubSeq(t, j + 1, Len(t)) = run(k + j, e)
  <2>. DEFINE a == SubSeq(t, 1, j)
              b == run(k, k + j)
              c == SubSeq(t, j + 1, Len(t))
              d == run(k + j, e)
  <2>. HIDE DEF t
  <2>1. a \in Seq(Atom) /\ Len(a) = j /\ \A i \in 1..j : a[i] = whole[k + i]
    BY <1>2
  <2>2. b \in Seq(Atom) /\ Len(b) = j /\ \A i \in 1..j : b[i] = whole[k + i]
    <3>1. k + 1 \in Int /\ k + j \in Int /\ \A i \in (k + 1)..(k + j) : whole[i] \in Atom
      BY <1>1
    <3>2. /\ b \in Seq(Atom) /\ Len(b) = IF k + 1 <= k + j THEN (k + j) - (k + 1) + 1 ELSE 0
          /\ \A i \in 1..((k + j) - (k + 1) + 1) : b[i] = whole[(k + 1) + i - 1]
      BY <3>1, SubSeqProperties DEF run
    <3>3. (k + j) - (k + 1) + 1 = j /\ \A i \in 1..j : (k + 1) + i - 1 = k + i
      OBVIOUS
    <3>. QED BY <3>2, <3>3
  <2>3. c \in Seq(Atom) /\ Len(c) = e - k - j /\ \A i \in 1..(e - k - j) : c[i] = whole[k + j + i]
    BY <1>2
  <2>4. d \in Seq(Atom) /\ Len(d) = e - k - j /\ \A i \in 1..(e - k - j) : d[i] = whole[k + j + i]
    BY <1>1 DEF run
  <2>. HIDE DEF a, b, c, d
  <2>5. a = b /\ c = d
    BY <2>1, <2>2, <2>3, <2>4, SeqEqual
  <2>. QED BY <2>5 DEF a, b, c, d
<1>. QED BY <1>2, <1>3, <1>4

\* What a reader at a position has still to read.
LEMMA SuffixIs ==
  ASSUME NEW m \in 0..LastRecord, NEW n \in 0..upto(m)
  PROVE  suffix(at(n), m) = run(n, upto(m))
<1>1. upto(m) \in 0..N /\ N \in Nat /\ 0 \in Nat
  BY Bounds
<1>2. n \in 0..N
  BY <1>1
<1>3. consumed(at(n)) = n
  BY <1>2, AtIs
<1>4. stream[m] = run(0, upto(m)) /\ Len(stream[m]) = upto(m)
  BY StreamIs DEF run, upto
<1>5. SubSeq(run(0, upto(m)), n + 1, Len(run(0, upto(m)))) = run(0 + n, upto(m))
  <2>1. upto(m) \in Nat /\ 0 <= upto(m) /\ upto(m) <= N /\ n \in 0..(upto(m) - 0)
    BY <1>1
  <2>. QED BY <1>1, <2>1, RunIs
<1>6. 0 + n = n
  BY <1>2
<1>. QED BY <1>3, <1>4, <1>5, <1>6 DEF suffix

(***************************************************************************)
(* Frames.                                                                 *)
(***************************************************************************)
Frame == {f \in [kind : {"PREPARE", "COMMIT", "LIVE", "RESIZE", "END"}, atoms : Seq(Atom), at : Cursor,
                 stream : 0..Generations, resumed : BOOLEAN, geometry : 0..LastRecord] :
              isFrame(f) /\ (f.kind = "RESIZE" => Len(f.atoms) = 1)}

\* Where a frame ends and begins.
ending(f) == consumed(f.at)
begun(f) == ending(f) - Len(f.atoms)

outputs(atoms) == \A j \in 1..Len(atoms) : isOutput(atoms[j])

\* A frame that carries a run of the stream.
carries(f) ==
  /\ begun(f) \in Nat /\ ending(f) \in 0..N /\ begun(f) <= ending(f)
  /\ f.at = at(ending(f)) /\ f.atoms = run(begun(f), ending(f))

good(f) ==
  /\ carries(f) /\ begun(f) < ending(f)
  /\ \/ f.kind = "LIVE" /\ outputs(f.atoms)
     \/ f.kind = "RESIZE" /\ Len(f.atoms) = 1 /\ ~isOutput(f.atoms[1])

linked(q) ==
  /\ \A i \in 1..Len(q) : good(q[i])
  /\ \A i \in 1..(Len(q) - 1) : begun(q[i + 1]) = ending(q[i])

\* A frame from k to e.
LEMMA FrameIs ==
  ASSUME NEW kind \in {"LIVE", "RESIZE"}, NEW k \in Nat, NEW e \in Nat, k < e, e <= N,
         kind = "LIVE" => e - k <= FrameUnits /\ outputs(run(k, e)),
         kind = "RESIZE" => e - k = 1 /\ ~isOutput(whole[e])
  PROVE  LET f == frame(kind, run(k, e), at(e))
         IN /\ f \in Frame /\ good(f) /\ begun(f) = k /\ ending(f) = e
            /\ f.kind = kind /\ f.atoms = run(k, e)
<1>. DEFINE f == frame(kind, run(k, e), at(e))
<1>1. f = [kind |-> kind, atoms |-> run(k, e), at |-> at(e), stream |-> 0, resumed |-> FALSE, geometry |-> 0]
  BY DEF frame
<1>2. e \in 0..N /\ N \in Nat /\ LastRecord \in Nat /\ Generations \in Nat /\ FrameUnits \in Nat
  BY Bounds, StreamAssumption
<1>3. at(e) \in Cursor /\ consumed(at(e)) = e
  BY <1>2, AtIs
<1>4. run(k, e) \in Seq(Atom) /\ Len(run(k, e)) = e - k /\ \A j \in 1..(e - k) : run(k, e)[j] = whole[k + j]
  <2>1. k \in Nat /\ e \in Nat /\ k <= e /\ e <= N
    OBVIOUS
  <2>. QED BY <2>1, RunIs
<1>. HIDE DEF f
<1>5. f.kind = kind /\ f.atoms = run(k, e) /\ f.at = at(e)
  BY <1>1
<1>6. ending(f) = e /\ begun(f) = k
  BY <1>3, <1>4, <1>5 DEF ending, begun
<1>7. f \in Frame
  <2>. DEFINE R == [kind : {"PREPARE", "COMMIT", "LIVE", "RESIZE", "END"}, atoms : Seq(Atom), at : Cursor,
                    stream : 0..Generations, resumed : BOOLEAN, geometry : 0..LastRecord]
              Q == Seq(Atom)
              a == run(k, e)
              c == at(e)
  <2>1. a \in Q /\ c \in Cursor /\ 0 \in 0..Generations /\ 0 \in 0..LastRecord
    BY <1>2, <1>3, <1>4
  <2>2. f = [kind |-> kind, atoms |-> a, at |-> c, stream |-> 0, resumed |-> FALSE, geometry |-> 0]
    BY <1>1
  <2>. HIDE DEF a, c, Q
  <2>3. f \in [kind : {"PREPARE", "COMMIT", "LIVE", "RESIZE", "END"}, atoms : Q, at : Cursor,
               stream : 0..Generations, resumed : BOOLEAN, geometry : 0..LastRecord]
    BY <2>1, <2>2
  <2>4. f \in R
    BY <2>3 DEF Q
  <2>5. f.kind = "LIVE" => Len(f.atoms) \in 1..FrameUnits
    BY <1>2, <1>4, <1>5
  <2>6. f.kind # "PREPARE"
    BY <1>5
  <2>7. isFrame(f)
    BY <2>4, <2>5, <2>6 DEF isFrame
  <2>8. kind = "RESIZE" => Len(f.atoms) = 1
    BY <1>4, <1>5
  <2>. QED BY <1>5, <2>4, <2>7, <2>8 DEF Frame
<1>8. good(f)
  <2>1. carries(f)
    BY <1>2, <1>5, <1>6 DEF carries
  <2>2. CASE kind = "LIVE"
    BY <1>5, <1>6, <2>1, <2>2 DEF good
  <2>3. CASE kind = "RESIZE"
    <3>1. Len(f.atoms) = 1 /\ f.atoms[1] = whole[e]
      <4>1. e - k = 1 /\ k + 1 = e
        BY <2>3
      <4>. QED BY <1>4, <1>5, <4>1
    <3>. QED BY <1>5, <1>6, <2>1, <2>3, <3>1 DEF good
  <2>. QED BY <2>2, <2>3
<1>. QED BY <1>5, <1>6, <1>7, <1>8 DEF f

\* Frames from k to e.
spans(q, k, e) ==
  /\ q \in Seq(Frame) /\ linked(q)
  /\ k = e => q = <<>>
  /\ k < e => q # <<>> /\ begun(q[1]) = k /\ ending(q[Len(q)]) = e

\* One more atom.
LEMMA PackedSpans ==
  ASSUME NEW q, NEW k \in Nat, NEW e \in Nat, k <= e, e < N, spans(q, k, e)
  PROVE  spans(packed(q, whole[e + 1]), k, e + 1)
<1>. DEFINE x == whole[e + 1]
            p == packed(q, x)
<1>0. N \in Nat /\ FrameUnits \in Nat /\ FrameUnits >= 1 /\ e + 1 \in Nat /\ e + 1 <= N
  <2>1. FrameUnits \in Nat \ {0}
    BY StreamAssumption
  <2>. QED BY <2>1, Bounds
<1>1. q \in Seq(Frame) /\ linked(q) /\ Len(q) \in Nat
  BY DEF spans
<1>2. after(x) = at(e + 1)
  <2>1. e + 1 # 0
    OBVIOUS
  <2>. QED BY <2>1 DEF at
<1>3. CASE isOutput(x) /\ q # <<>> /\ Last(q).kind = "LIVE" /\ Len(Last(q).atoms) < FrameUnits
  <2>. DEFINE n == Len(q)
              l == q[n]
              m == begun(l)
              f == frame("LIVE", run(m, e + 1), at(e + 1))
  <2>1. n \in 1..Len(q) /\ n \in Nat /\ n >= 1 /\ good(l) /\ l \in Frame /\ l.kind = "LIVE" /\ Last(q) = l
    BY <1>1, <1>3 DEF linked, Last
  <2>2. k < e /\ ending(l) = e /\ begun(q[1]) = k
    BY <1>3 DEF spans
  <2>3. m \in Nat /\ m < e /\ l.atoms = run(m, e) /\ outputs(l.atoms) /\ Len(l.atoms) < FrameUnits
    BY <1>3, <2>1, <2>2 DEF good, carries
  <2>4. /\ run(m, e) \in Seq(Atom) /\ Len(run(m, e)) = e - m /\ \A j \in 1..(e - m) : run(m, e)[j] = whole[m + j]
        /\ run(m, e + 1) \in Seq(Atom) /\ Len(run(m, e + 1)) = e + 1 - m
        /\ \A j \in 1..(e + 1 - m) : run(m, e + 1)[j] = whole[m + j]
    <3>1. m \in Nat /\ e \in Nat /\ m <= e /\ e <= N
      BY <1>0, <2>3
    <3>2. m \in Nat /\ e + 1 \in Nat /\ m <= e + 1 /\ e + 1 <= N
      BY <1>0, <2>3
    <3>3. run(m, e) \in Seq(Atom) /\ Len(run(m, e)) = e - m /\ \A j \in 1..(e - m) : run(m, e)[j] = whole[m + j]
      BY <3>1, RunIs
    <3>4. /\ run(m, e + 1) \in Seq(Atom) /\ Len(run(m, e + 1)) = e + 1 - m
          /\ \A j \in 1..(e + 1 - m) : run(m, e + 1)[j] = whole[m + j]
      <4>1. PICK d : d = e + 1
        OBVIOUS
      <4>2. m \in Nat /\ d \in Nat /\ m <= d /\ d <= N
        BY <3>2, <4>1
      <4>3. run(m, d) \in Seq(Atom) /\ Len(run(m, d)) = d - m /\ \A j \in 1..(d - m) : run(m, d)[j] = whole[m + j]
        BY <4>2, RunIs
      <4>4. d - m = e + 1 - m
        BY <3>1, <4>1, <4>2
      <4>. QED BY <4>1, <4>3, <4>4, Zenon
    <3>. QED BY <3>3, <3>4
  <2>5. Append(l.atoms, x) = run(m, e + 1)
    <3>. DEFINE a == run(m, e)
                b == run(m, e + 1)
    <3>1. x \in Atom
      BY <1>0, WholeIs
    <3>2. /\ a \in Seq(Atom) /\ Len(a) = e - m /\ b \in Seq(Atom) /\ Len(b) = e + 1 - m
          /\ \A j \in 1..(e - m) : a[j] = b[j]
      BY <2>3, <2>4
    <3>3. b[e + 1 - m] = x
      <4>1. e + 1 - m \in 1..(e + 1 - m) /\ m + (e + 1 - m) = e + 1
        BY <2>3
      <4>. QED BY <2>4, <4>1
    <3>4. l.atoms = a
      BY <2>3
    <3>. HIDE DEF a, b, x
    <3>5. /\ Append(a, x) \in Seq(Atom) /\ Len(Append(a, x)) = e + 1 - m
          /\ \A j \in 1..(e + 1 - m) : Append(a, x)[j] = b[j]
      BY <2>3, <3>1, <3>2, <3>3
    <3>6. Append(a, x) = b
      BY <3>2, <3>5, SeqEqual
    <3>. QED BY <3>4, <3>6 DEF b
  <2>6. outputs(run(m, e + 1))
    <3>1. ASSUME NEW j \in 1..(e + 1 - m) PROVE isOutput(run(m, e + 1)[j])
      <4>1. CASE j = e + 1 - m
        <5>1. m + j = e + 1
          BY <2>3, <4>1
        <5>. QED BY <1>3, <2>4, <5>1
      <4>2. CASE j # e + 1 - m
        <5>1. j \in 1..(e - m)
          BY <2>3, <4>2
        <5>2. run(m, e + 1)[j] = l.atoms[j] /\ j \in 1..Len(l.atoms)
          BY <2>3, <2>4, <5>1
        <5>. QED BY <2>3, <5>2 DEF outputs
      <4>. QED BY <4>1, <4>2
    <3>. QED BY <2>4, <3>1 DEF outputs
  <2>7. /\ f \in Frame /\ good(f) /\ begun(f) = m /\ ending(f) = e + 1
    <3>1. m < e + 1 /\ e + 1 - m <= FrameUnits
      BY <1>0, <2>3, <2>4
    <3>. QED BY <1>0, <2>3, <2>6, <3>1, FrameIs
  <2>8. p = Append(Front(q), f)
    BY <1>2, <1>3, <2>1, <2>5 DEF packed
  <2>. DEFINE r == Front(q)
  <2>9. r \in Seq(Frame) /\ Len(r) = n - 1 /\ \A i \in 1..(n - 1) : r[i] = q[i]
    <3>1. r = SubSeq(q, 1, n - 1)
      BY DEF Front
    <3>2. 1 \in Int /\ n - 1 \in Int /\ \A i \in 1..(n - 1) : q[i] \in Frame
      BY <1>1, <2>1
    <3>3. /\ r \in Seq(Frame) /\ Len(r) = IF 1 <= n - 1 THEN (n - 1) - 1 + 1 ELSE 0
          /\ \A i \in 1..((n - 1) - 1 + 1) : r[i] = q[1 + i - 1]
      BY <3>1, <3>2, SubSeqProperties
    <3>. HIDE DEF r
    <3>4. (n - 1) - 1 + 1 = n - 1 /\ \A i \in 1..(n - 1) : 1 + i - 1 = i
      OBVIOUS
    <3>5. Len(r) = n - 1 /\ \A i \in 1..(n - 1) : r[i] = q[i]
      <4>1. n \in Nat /\ n >= 1
        BY <2>1
      <4>. HIDE DEF n
      <4>2. Len(r) = n - 1
        BY <3>3, <4>1
      <4>. QED BY <3>3, <4>1, <4>2
    <3>. QED BY <3>3, <3>5
  <2>. HIDE DEF f, r, p, m
  <2>10. p \in Seq(Frame) /\ Len(p) = n /\ p[n] = f /\ \A i \in 1..(n - 1) : p[i] = q[i]
    BY <2>1, <2>7, <2>8, <2>9 DEF r
  <2>11. \A i \in 1..Len(p) : good(p[i])
    BY <1>1, <2>1, <2>7, <2>10 DEF linked
  <2>12. \A i \in 1..(Len(p) - 1) : begun(p[i + 1]) = ending(p[i])
    <3>1. ASSUME NEW i \in 1..(n - 1) PROVE begun(p[i + 1]) = ending(p[i])
      <4>1. p[i] = q[i] /\ begun(q[i + 1]) = ending(q[i])
        BY <1>1, <2>10 DEF linked
      <4>2. begun(p[i + 1]) = begun(q[i + 1])
        <5>1. CASE i + 1 = n
          BY <2>7, <2>10, <5>1 DEF m
        <5>2. CASE i + 1 # n
          <6>1. i + 1 \in 1..(n - 1)
            BY <2>1, <5>2
          <6>. QED BY <2>10, <6>1
        <5>. QED BY <5>1, <5>2
      <4>. QED BY <4>1, <4>2
    <3>. QED BY <2>10, <3>1
  <2>13. begun(p[1]) = k
    <3>1. CASE n = 1
      BY <2>2, <2>7, <2>10, <3>1 DEF m
    <3>2. CASE n # 1
      <4>1. 1 \in 1..(n - 1)
        <5>1. n \in Nat /\ n >= 1 /\ n # 1
          BY <2>1, <3>2
        <5>. HIDE DEF n
        <5>. QED BY <5>1
      <4>. QED BY <2>2, <2>10, <4>1
    <3>. QED BY <3>1, <3>2
  <2>14. spans(p, k, e + 1)
    <3>1. p # <<>> /\ ending(p[Len(p)]) = e + 1 /\ k # e + 1
      BY <2>1, <2>2, <2>7, <2>10
    <3>. QED BY <2>10, <2>11, <2>12, <2>13, <3>1 DEF spans, linked
  <2>. QED BY <2>14 DEF p
<1>4. CASE ~(isOutput(x) /\ q # <<>> /\ Last(q).kind = "LIVE" /\ Len(Last(q).atoms) < FrameUnits)
  <2>. DEFINE kind == IF isOutput(x) THEN "LIVE" ELSE "RESIZE"
              f == frame(kind, run(e, e + 1), at(e + 1))
              n == Len(q)
  <2>1. /\ run(e, e + 1) \in Seq(Atom) /\ Len(run(e, e + 1)) = 1 /\ run(e, e + 1)[1] = x
    <3>1. e <= e + 1 /\ (e + 1) - e = 1
      OBVIOUS
    <3>2. run(e, e + 1) \in Seq(Atom) /\ Len(run(e, e + 1)) = (e + 1) - e
          /\ \A j \in 1..((e + 1) - e) : run(e, e + 1)[j] = whole[e + j]
      BY <1>0, <3>1, RunIs
    <3>. QED BY <3>1, <3>2
  <2>2. run(e, e + 1) = <<x>>
    BY <2>1
  <2>3. p = Append(q, f)
    BY <1>2, <1>4, <2>2 DEF packed
  <2>4. f \in Frame /\ good(f) /\ begun(f) = e /\ ending(f) = e + 1
    <3>1. kind \in {"LIVE", "RESIZE"} /\ e < e + 1 /\ (e + 1) - e = 1
      OBVIOUS
    <3>2. kind = "LIVE" => (e + 1) - e <= FrameUnits /\ outputs(run(e, e + 1))
      BY <1>0, <2>1 DEF outputs
    <3>3. kind = "RESIZE" => (e + 1) - e = 1 /\ ~isOutput(whole[e + 1])
      OBVIOUS
    <3>. HIDE DEF kind
    <3>. QED BY <1>0, <3>1, <3>2, <3>3, FrameIs
  <2>. HIDE DEF f, p
  <2>5. p \in Seq(Frame) /\ Len(p) = n + 1 /\ p[n + 1] = f /\ \A i \in 1..n : p[i] = q[i]
    BY <1>1, <2>3, <2>4
  <2>6. \A i \in 1..Len(p) : good(p[i])
    BY <1>1, <2>4, <2>5 DEF linked
  <2>7. n >= 1 => k < e /\ ending(q[n]) = e /\ begun(q[1]) = k
    BY <1>1 DEF spans
  <2>8. \A i \in 1..(Len(p) - 1) : begun(p[i + 1]) = ending(p[i])
    <3>1. ASSUME NEW i \in 1..n PROVE begun(p[i + 1]) = ending(p[i])
      <4>1. CASE i = n
        BY <2>4, <2>5, <2>7, <4>1
      <4>2. CASE i # n
        <5>1. i + 1 \in 1..n /\ i \in 1..(n - 1)
          BY <1>1, <4>2
        <5>. QED BY <1>1, <2>5, <5>1 DEF linked
      <4>. QED BY <4>1, <4>2
    <3>2. Len(p) - 1 = n
      BY <1>1, <2>5
    <3>. QED BY <3>1, <3>2
  <2>9. begun(p[1]) = k
    <3>1. CASE n = 0
      <4>1. q = <<>>
        BY <1>1, <3>1
      <4>2. k = e
        BY <4>1 DEF spans
      <4>. QED BY <2>4, <2>5, <3>1, <4>2
    <3>2. CASE n # 0
      <4>1. 1 \in 1..n
        BY <1>1, <3>2
      <4>. QED BY <2>5, <2>7, <4>1
    <3>. QED BY <3>1, <3>2
  <2>10. spans(p, k, e + 1)
    <3>1. p # <<>> /\ ending(p[Len(p)]) = e + 1 /\ k # e + 1
      BY <1>1, <2>4, <2>5
    <3>. QED BY <2>5, <2>6, <2>8, <2>9, <3>1 DEF spans, linked
  <2>. QED BY <2>10 DEF p
<1>. QED BY <1>3, <1>4

\* The frames of a run carry all of it, in order.
LEMMA FramesSpan ==
  ASSUME NEW k \in Nat
  PROVE  \A e \in Nat : k <= e /\ e <= N => spans(frames(run(k, e)), k, e)
<1>. DEFINE P == {j \in Nat : k + j <= N => spans(frames(run(k, k + j)), k, k + j)}
<1>0. N \in Nat
  BY Bounds
<1>1. \A c : frames(c) = K!fold(<<>>, c)
  BY DEF frames, K!fold, FoldLeft, MapThenFoldSet, Max, K!last
<1>2. 0 \in P
  <2>. SUFFICES ASSUME k <= N PROVE spans(frames(run(k, k)), k, k)
    OBVIOUS
  <2>0. k \in Nat /\ k <= k /\ k <= N
    OBVIOUS
  <2>1. run(k, k) \in Seq(Atom) /\ Len(run(k, k)) = k - k
    BY <2>0, RunIs
  <2>2. run(k, k) = <<>>
    BY <2>1
  <2>3. frames(run(k, k)) = <<>>
    BY <1>1, <2>2, K!FoldEmpty
  <2>4. <<>> \in Seq(Frame) /\ Len(<<>>) = 0
    OBVIOUS
  <2>. QED BY <2>3, <2>4 DEF spans, linked
<1>3. \A j \in P : j + 1 \in P
  <2>. SUFFICES ASSUME NEW j \in P, k + (j + 1) <= N
                PROVE  spans(frames(run(k, k + (j + 1))), k, k + (j + 1))
    OBVIOUS
  <2>. DEFINE e == k + j
              x == whole[e + 1]
              a == run(k, e)
              b == run(k, e + 1)
  <2>1. e \in Nat /\ k <= e /\ e < N /\ e + 1 = k + (j + 1) /\ spans(frames(a), k, e)
    BY <1>0
  <2>2. x \in Atom
    BY <2>1, <1>0, WholeIs
  <2>3. a \in Seq(Atom) /\ b \in Seq(Atom) /\ b = Append(a, x)
    <3>. HIDE DEF e
    <3>1. /\ a \in Seq(Atom) /\ Len(a) = e - k /\ \A i \in 1..(e - k) : a[i] = whole[k + i]
          /\ b \in Seq(Atom) /\ Len(b) = e + 1 - k /\ \A i \in 1..(e + 1 - k) : b[i] = whole[k + i]
      <4>1. k \in Nat /\ e \in Nat /\ k <= e /\ e <= N
        BY <1>0, <2>1
      <4>2. k \in Nat /\ e + 1 \in Nat /\ k <= e + 1 /\ e + 1 <= N
        BY <1>0, <2>1
      <4>3. a \in Seq(Atom) /\ Len(a) = e - k /\ \A i \in 1..(e - k) : a[i] = whole[k + i]
        BY <4>1, RunIs
      <4>4. b \in Seq(Atom) /\ Len(b) = e + 1 - k /\ \A i \in 1..(e + 1 - k) : b[i] = whole[k + i]
        <5>1. PICK d : d = e + 1
          OBVIOUS
        <5>2. k \in Nat /\ d \in Nat /\ k <= d /\ d <= N
          BY <4>2, <5>1
        <5>3. run(k, d) \in Seq(Atom) /\ Len(run(k, d)) = d - k /\ \A i \in 1..(d - k) : run(k, d)[i] = whole[k + i]
          BY <5>2, RunIs
        <5>4. d - k = e + 1 - k
          BY <2>1, <5>1, <5>2
        <5>. QED BY <5>1, <5>3, <5>4, Zenon
      <4>. QED BY <4>3, <4>4
    <3>2. b[e + 1 - k] = x
      <4>1. e + 1 - k \in 1..(e + 1 - k) /\ k + (e + 1 - k) = e + 1
        BY <2>1
      <4>. QED BY <3>1, <4>1
    <3>. HIDE DEF a, b, x
    <3>3. /\ Append(a, x) \in Seq(Atom) /\ Len(Append(a, x)) = e + 1 - k
          /\ \A i \in 1..(e + 1 - k) : Append(a, x)[i] = b[i]
      <4>1. Append(a, x) \in Seq(Atom) /\ Len(Append(a, x)) = Len(a) + 1
        BY <2>2, <3>1
      <4>2. Len(a) = e - k /\ e \in Nat /\ k \in Nat /\ k <= e
        BY <2>1, <3>1
      <4>3. ASSUME NEW i \in 1..(e + 1 - k) PROVE Append(a, x)[i] = b[i]
        <5>1. CASE i = e + 1 - k
          <6>1. i = Len(a) + 1
            BY <4>2, <5>1
          <6>. QED BY <3>1, <3>2, <5>1, <6>1
        <5>2. CASE i # e + 1 - k
          <6>1. i \in 1..(e - k) /\ i \in 1..Len(a)
            BY <4>2, <5>2
          <6>2. Append(a, x)[i] = a[i]
            BY <3>1, <6>1
          <6>. QED BY <3>1, <4>2, <6>1, <6>2
        <5>. QED BY <5>1, <5>2
      <4>. QED BY <4>1, <4>2, <4>3
    <3>4. Append(a, x) = b
      BY <3>1, <3>3, SeqEqual
    <3>. QED BY <3>1, <3>4
  <2>. HIDE DEF a, b, x, e
  <2>4. frames(b) = packed(frames(a), x)
    <3>1. K!fold(<<>>, Append(a, x)) = packed(K!fold(<<>>, a), x)
      BY <2>2, <2>3, K!FoldAppend
    <3>. QED BY <1>1, <2>3, <3>1
  <2>5. spans(packed(frames(a), x), k, e + 1)
    BY <2>1, PackedSpans DEF x
  <2>. QED BY <2>1, <2>4, <2>5 DEF b
<1>4. P \in SUBSET Nat
  OBVIOUS
<1>5. P = Nat
  <2>. HIDE DEF P
  <2>. QED BY <1>2, <1>3, <1>4, W!Induct
<1>6. ASSUME NEW e \in Nat, k <= e, e <= N
      PROVE  spans(frames(run(k, e)), k, e)
  <2>0. e - k \in Nat /\ k + (e - k) = e
    BY <1>6
  <2>1. e - k \in P
    BY <1>5, <2>0
  <2>. QED BY <1>6, <2>0, <2>1
<1>. QED BY <1>6

(***************************************************************************)
(* Finite sets of numbers, and the operators that count.                   *)
(***************************************************************************)

\* The greatest of numbers up to n.
LEMMA MaxIs ==
  ASSUME NEW n \in Nat, NEW S \in SUBSET (0..n), S # {}
  PROVE  Max(S) \in S /\ \A y \in S : Max(S) >= y
<1>. DEFINE below == {k \in 0..n : \E x \in S : x = n - k}
<1>1. below \in SUBSET Nat
  OBVIOUS
<1>2. below # {}
  <2>1. PICK x \in S : TRUE
    OBVIOUS
  <2>2. x \in 0..n
    BY <2>1
  <2>3. n - x \in 0..n /\ x = n - (n - x)
    BY <2>2
  <2>. QED BY <2>1, <2>3
<1>3. PICK k \in below : \A y \in below : k <= y
  <2>. HIDE DEF below
  <2>. QED BY <1>1, <1>2, W!Least
<1>4. PICK x \in S : x = n - k
  BY <1>3
<1>5. \A y \in S : x >= y
  <2>1. ASSUME NEW y \in S PROVE x >= y
    <3>1. y \in 0..n /\ k \in 0..n
      BY <1>3
    <3>2. n - y \in below
      BY <2>1, <3>1
    <3>3. k <= n - y
      BY <1>3, <3>2
    <3>. QED BY <1>4, <3>1, <3>3
  <2>. QED BY <2>1
<1>. QED BY <1>5 DEF Max

\* The least of a set of naturals.
LEMMA MinIs ==
  ASSUME NEW S \in SUBSET Nat, S # {}
  PROVE  Min(S) \in S /\ \A y \in S : Min(S) <= y
<1>1. PICK x \in S : \A y \in S : x <= y
  BY W!Least
<1>. QED BY <1>1 DEF Min

\* A sequence holds finitely many indices and elements.
LEMMA CostIs ==
  ASSUME NEW atoms \in Seq(Atom)
  PROVE  cost(atoms) \in Nat
<1>1. DOMAIN atoms = 1..Len(atoms) /\ Len(atoms) \in Nat
  OBVIOUS
<1>2. IsFiniteSet(DOMAIN atoms)
  BY <1>1, FS_Interval
<1>3. units(atoms) \in Nat
  <2>. DEFINE S == {i \in DOMAIN atoms : isOutput(atoms[i])}
  <2>1. S \subseteq DOMAIN atoms
    OBVIOUS
  <2>. HIDE DEF S
  <2>2. IsFiniteSet(S)
    BY <1>2, <2>1, FS_Subset
  <2>3. Cardinality(S) \in Nat
    BY <2>2, FS_CardinalityType
  <2>. QED BY <2>3 DEF units, S
<1>4. records(atoms) \in Nat
  <2>. DEFINE R == {atoms[i][1] : i \in DOMAIN atoms}
  <2>0. R \in SUBSET (1..LastRecord)
    <3>1. \A i \in DOMAIN atoms : atoms[i][1] \in 1..LastRecord
      BY <1>1, AtomIs
    <3>. QED BY <3>1
  <2>1. IsFiniteSet(1..LastRecord)
    BY Bounds, FS_Interval
  <2>. HIDE DEF R
  <2>2. IsFiniteSet(R)
    BY <2>0, <2>1, FS_Subset
  <2>3. Cardinality(R) \in Nat
    BY <2>2, FS_CardinalityType
  <2>. QED BY <2>3 DEF records, R
<1>. QED BY <1>3, <1>4 DEF cost

\* What an event weighs.
LEMMA EventBytes == \A s \in 1..LastRecord : eventBytes[s] \in Nat
<1>1. ASSUME NEW s \in 1..LastRecord PROVE eventBytes[s] \in Nat
  <2>1. cost(atomsOf(s)) \in Nat
    BY AtomsAre, CostIs
  <2>. QED BY <2>1 DEF eventBytes
<1>. QED BY <1>1

Q == INSTANCE Folding WITH Op <- queued, X <- 1..LastRecord

\* What a queue weighs, as it grows and as it is taken from.
LEMMA QueueBytes ==
  /\ queueBytes(<<>>) = 0
  /\ \A q \in Seq(1..LastRecord) : queueBytes(q) \in Nat
  /\ \A q \in Seq(1..LastRecord) : \A s \in 1..LastRecord :
       queueBytes(Append(q, s)) = queueBytes(q) + eventBytes[s]
  /\ \A q \in Seq(1..LastRecord) :
       q # <<>> => queueBytes(q) = eventBytes[Head(q)] + queueBytes(Tail(q))
<1>1. \A b, c : FoldLeft(queued, b, c) = Q!fold(b, c)
  BY DEF Q!fold, FoldLeft, MapThenFoldSet, Max, Q!last
<1>2. \A c : queueBytes(c) = Q!fold(0, c)
  BY <1>1 DEF queueBytes
<1>3. queueBytes(<<>>) = 0
  BY <1>2, Q!FoldEmpty
<1>4. ASSUME NEW q \in Seq(1..LastRecord) PROVE queueBytes(q) \in Nat
  <2>1. \A v \in Nat, x \in 1..LastRecord : queued(v, x) \in Nat
    BY EventBytes DEF queued
  <2>2. Q!fold(0, q) \in Nat
    BY <2>1, Q!FoldStays
  <2>. QED BY <1>2, <2>2
<1>5. ASSUME NEW q \in Seq(1..LastRecord), NEW s \in 1..LastRecord
      PROVE  queueBytes(Append(q, s)) = queueBytes(q) + eventBytes[s]
  <2>1. Q!fold(0, Append(q, s)) = queued(Q!fold(0, q), s)
    BY Q!FoldAppend
  <2>. QED BY <1>2, <2>1 DEF queued
<1>6. \A b \in Nat : \A q \in Seq(1..LastRecord) : Q!fold(b, q) = b + Q!fold(0, q)
  <2>. SUFFICES ASSUME NEW b \in Nat PROVE \A q \in Seq(1..LastRecord) : Q!fold(b, q) = b + Q!fold(0, q)
    OBVIOUS
  <2>. DEFINE S == {q \in Seq(1..LastRecord) : Q!fold(b, q) = b + Q!fold(0, q)}
  <2>1. <<>> \in S
    BY Q!FoldEmpty
  <2>2. \A q \in Seq(1..LastRecord), x \in 1..LastRecord : q \in S => Append(q, x) \in S
    <3>. SUFFICES ASSUME NEW q \in Seq(1..LastRecord), NEW x \in 1..LastRecord,
                         Q!fold(b, q) = b + Q!fold(0, q)
                  PROVE  Q!fold(b, Append(q, x)) = b + Q!fold(0, Append(q, x))
      OBVIOUS
    <3>1. Q!fold(b, Append(q, x)) = queued(Q!fold(b, q), x)
      BY Q!FoldAppend
    <3>2. Q!fold(0, Append(q, x)) = queued(Q!fold(0, q), x)
      BY Q!FoldAppend
    <3>3. Q!fold(0, q) \in Nat /\ eventBytes[x] \in Nat
      BY <1>2, <1>4, EventBytes
    <3>. QED BY <3>1, <3>2, <3>3 DEF queued
  <2>3. Seq(1..LastRecord) \subseteq S
    <3>. HIDE DEF S
    <3>. QED BY <2>1, <2>2, Q!SequenceInduct
  <2>. QED BY <2>3
<1>7. ASSUME NEW q \in Seq(1..LastRecord), q # <<>>
      PROVE  queueBytes(q) = eventBytes[Head(q)] + queueBytes(Tail(q))
  <2>1. Q!fold(0, q) = Q!fold(queued(0, Head(q)), Tail(q))
    BY <1>7, Q!FoldHead
  <2>. DEFINE S == 1..LastRecord
  <2>2. Head(q) \in 1..LastRecord /\ Tail(q) \in Seq(1..LastRecord)
    <3>1. q \in Seq(S) /\ q # <<>>
      BY <1>7
    <3>. HIDE DEF S
    <3>2. Head(q) = q[1] /\ q[1] \in S /\ Tail(q) \in Seq(S)
      BY <3>1, HeadTail
    <3>. QED BY <3>2 DEF S
  <2>3. eventBytes[Head(q)] \in Nat
    BY <2>2, EventBytes
  <2>4. queued(0, Head(q)) = eventBytes[Head(q)]
    BY <2>3 DEF queued
  <2>. QED BY <1>2, <1>6, <2>1, <2>2, <2>3, <2>4
<1>. QED BY <1>3, <1>4, <1>5, <1>7

(***************************************************************************)
(* Positions and what is read from them.                                   *)
(***************************************************************************)

\* A record has at least as many atoms as units.
LEMMA UptoCovers == \A n \in 0..LastRecord : endOf[n] <= upto(n)
<1>. DEFINE P == {n \in Nat : n <= LastRecord => endOf[n] <= upto(n)}
<1>0. LastRecord \in Nat
  BY SizesAre
<1>1. 0 \in P
  BY Bounds
<1>2. \A n \in P : n + 1 \in P
  <2>. SUFFICES ASSUME NEW n \in P, n + 1 <= LastRecord PROVE endOf[n + 1] <= upto(n + 1)
    OBVIOUS
  <2>1. n + 1 \in 1..LastRecord /\ (n + 1) - 1 = n /\ n \in 0..LastRecord /\ n + 1 \in 0..LastRecord
    BY <1>0
  <2>2. /\ upto(n + 1) = upto(n) + (IF Sizes[n + 1] = 0 THEN 1 ELSE Sizes[n + 1])
        /\ endOf[n + 1] = endOf[n] + Sizes[n + 1]
    BY <2>1, StreamTypes
  <2>3. upto(n) \in Nat /\ endOf[n] \in Nat /\ Sizes[n + 1] \in Nat /\ endOf[n] <= upto(n)
    BY <1>0, <2>1, StreamTypes, SizesAre
  <2>. QED BY <2>2, <2>3
<1>3. P \in SUBSET Nat
  OBVIOUS
<1>4. P = Nat
  <2>. HIDE DEF P
  <2>. QED BY <1>1, <1>2, <1>3, W!Induct
<1>. QED BY <1>0, <1>4

\* What is read from a position is a sequence of atoms.
LEMMA SuffixTypes ==
  ASSUME NEW c \in Cursor, NEW m \in 0..LastRecord
  PROVE  /\ consumed(c) \in Nat /\ suffix(c, m) \in Seq(Atom)
         /\ Len(suffix(c, m)) = IF consumed(c) <= upto(m) THEN upto(m) - consumed(c) ELSE 0
         /\ \A i \in 1..Len(suffix(c, m)) :
              suffix(c, m)[i] \in Atom /\ suffix(c, m)[i][1] \in 1..m
<1>. DEFINE k == consumed(c)
            t == stream[m]
<1>1. c.seq \in 0..LastRecord /\ c.offset \in Nat
  BY Bounds DEF Cursor
<1>2. k \in Nat
  <2>1. Len(stream[c.seq]) \in Nat /\ endOf[c.seq] \in Nat /\ endOf[c.seq] <= Len(stream[c.seq])
    BY <1>1, StreamTypes, UptoCovers DEF upto
  <2>. QED BY <1>1, <2>1 DEF consumed
<1>3. t \in Seq(Atom) /\ Len(t) \in Nat /\ Len(t) = upto(m)
  BY StreamTypes DEF upto
<1>4. suffix(c, m) = SubSeq(t, k + 1, Len(t))
  BY DEF suffix
<1>. DEFINE u == suffix(c, m)
<1>5. \A i \in 1..Len(t) : t[i] \in Atom /\ t[i][1] \in 1..m
  <2>1. ASSUME NEW i \in 1..Len(t) PROVE t[i] \in Atom /\ t[i][1] \in 1..m
    <3>1. PICK r \in 1..m : placed(m, i, r)
      BY <1>3, Placed
    <3>2. t[i][1] = r
      BY <3>1 DEF placed
    <3>. QED BY <1>3, <3>1, <3>2
  <2>. QED BY <2>1
<1>. HIDE DEF k, t, u
<1>6. u \in Seq(Atom) /\ Len(u) = (IF k + 1 <= Len(t) THEN Len(t) - (k + 1) + 1 ELSE 0)
      /\ \A i \in 1..(Len(t) - (k + 1) + 1) : u[i] = t[(k + 1) + i - 1]
  <2>1. k + 1 \in Int /\ Len(t) \in Int /\ \A i \in (k + 1)..Len(t) : t[i] \in Atom
    BY <1>2, <1>3, <1>5
  <2>2. u = SubSeq(t, k + 1, Len(t))
    BY <1>4 DEF u, k, t
  <2>. QED BY <2>1, <2>2, SubSeqProperties
<1>7. Len(u) = IF k <= upto(m) THEN upto(m) - k ELSE 0
  BY <1>2, <1>3, <1>6
<1>8. ASSUME NEW i \in 1..Len(u) PROVE u[i] \in Atom /\ u[i][1] \in 1..m
  <2>1. i \in 1..(Len(t) - (k + 1) + 1) /\ (k + 1) + i - 1 \in 1..Len(t)
    BY <1>2, <1>3, <1>6
  <2>. QED BY <1>5, <1>6, <2>1
<1>. QED BY <1>2, <1>6, <1>7, <1>8 DEF k, u

\* The position after any atom.
LEMMA AfterTypes == \A x \in Atom : after(x) \in Cursor
<1>. SUFFICES ASSUME NEW x \in Atom PROVE after(x) \in Cursor
  OBVIOUS
<1>. DEFINE s == x[1]
            u == x[2]
<1>1. s \in 1..LastRecord /\ u \in 0..Sizes[s] /\ Sizes[s] \in Nat
  BY AtomIs, SizesAre
<1>2. after(x) = IF u < Sizes[s] THEN cursor(s - 1, endOf[s - 1] + u) ELSE cursor(s, endOf[s])
  BY DEF after
<1>. HIDE DEF s, u
<1>3. /\ s - 1 \in 0..LastRecord /\ s \in 0..LastRecord /\ LastRecord \in Nat
      /\ endOf[s - 1] \in Nat /\ endOf[s] = endOf[s - 1] + Sizes[s]
      /\ endOf[s] \in 0..endOf[LastRecord] /\ endOf[LastRecord] \in Nat
  <2>1. s - 1 \in 0..LastRecord /\ s \in 0..LastRecord /\ LastRecord \in Nat
    BY <1>1, SizesAre
  <2>. QED BY <1>1, <2>1, StreamTypes, Bounds
<1>4. CASE u < Sizes[s]
  <2>1. endOf[s - 1] + u \in 0..endOf[LastRecord]
    BY <1>1, <1>3, <1>4
  <2>. QED BY <1>2, <1>3, <1>4, <2>1 DEF Cursor, cursor
<1>5. CASE ~(u < Sizes[s])
  BY <1>2, <1>3, <1>5 DEF Cursor, cursor
<1>. QED BY <1>4, <1>5

\* The lengths at which records end are lengths, and the whole is one of them.
LEMMA EndsAre ==
  ASSUME NEW atoms \in Seq(Atom)
  PROVE  /\ recordEnds(atoms) \in SUBSET (1..Len(atoms)) /\ Len(atoms) \in Nat
         /\ Len(atoms) >= 1 => Len(atoms) \in recordEnds(atoms)
<1>1. DOMAIN atoms = 1..Len(atoms) /\ Len(atoms) \in Nat
  OBVIOUS
<1>. QED BY <1>1 DEF recordEnds

\* What PREPARE carries.
LEMMA ReplayIs ==
  ASSUME NEW atoms \in Seq(Atom)
  PROVE  LET n == replayLength(atoms)
         IN /\ n \in 0..Len(atoms) /\ n <= ReplayUnits
            /\ \A j \in 1..n : isOutput(atoms[j])
            /\ n # 0 => n \in recordEnds(atoms)
<1>. DEFINE fits == {i \in recordEnds(atoms) : i <= ReplayUnits /\ \A j \in 1..i : isOutput(atoms[j])}
            S == {0} \cup fits
            n == Max(S)
<1>1. Len(atoms) \in Nat /\ recordEnds(atoms) \in SUBSET (1..Len(atoms)) /\ ReplayUnits \in Nat
  BY EndsAre, StreamAssumption
<1>2. S \in SUBSET (0..Len(atoms)) /\ S # {} /\ 0 \in S
  BY <1>1
<1>3. Max(S) \in S
  <2>. HIDE DEF S
  <2>. QED BY <1>1, <1>2, MaxIs
<1>4. n \in S
  BY <1>3
<1>. HIDE DEF n
<1>5. n \in 0..Len(atoms)
  BY <1>2, <1>4
<1>8. replayLength(atoms) = n
  BY DEF replayLength, n
<1>6. CASE n = 0
  <2>1. 0 <= ReplayUnits /\ 1..0 = {}
    BY <1>1
  <2>. HIDE DEF S, fits
  <2>. QED BY <1>5, <1>6, <1>8, <2>1
<1>7. CASE n # 0
  <2>1. n \in fits
    BY <1>4, <1>7
  <2>. QED BY <1>5, <1>8, <2>1
<1>. QED BY <1>6, <1>7

\* A round of what is left takes one record at least, and ends with a record.
LEMMA RoundIs ==
  ASSUME NEW atoms \in Seq(Atom), Len(atoms) >= 1
  PROVE  roundLength(atoms) \in 1..Len(atoms) /\ roundLength(atoms) \in recordEnds(atoms)
<1>. DEFINE R == recordEnds(atoms)
            F == {i \in R : cost(SubSeq(atoms, 1, i)) <= CatchUpCap}
<1>1. Len(atoms) \in Nat /\ R \in SUBSET (1..Len(atoms)) /\ R # {}
  BY EndsAre
<1>. HIDE DEF R
<1>2. CASE F = {}
  <2>1. R \in SUBSET Nat
    BY <1>1
  <2>2. Min(R) \in R
    BY <1>1, <2>1, MinIs
  <2>3. roundLength(atoms) = Min(R)
    BY <1>2 DEF roundLength, R
  <2>. QED BY <1>1, <2>2, <2>3 DEF R
<1>3. CASE F # {}
  <2>0. F \subseteq R
    BY Zenon
  <2>1. F \in SUBSET (0..Len(atoms))
    <3>. HIDE DEF F
    <3>. QED BY <1>1, <2>0
  <2>2. Max(F) \in F
    <3>. HIDE DEF F
    <3>. QED BY <1>1, <1>3, <2>1, MaxIs
  <2>3. roundLength(atoms) = Max(F)
    BY <1>3 DEF roundLength, R
  <2>. QED BY <1>1, <2>2, <2>3 DEF R
<1>. QED BY <1>2, <1>3

\* The geometry in force is a record, or the birth geometry.
LEMMA GeometryIs ==
  ASSUME NEW n \in 0..LastRecord
  PROVE  /\ geometryAt(n) \in 0..LastRecord /\ geometryAt(0) = 0
         /\ geometryAt(n) \in {0} \cup {s \in 1..n : Sizes[s] = 0}
         /\ \A s \in 1..n : Sizes[s] = 0 => s <= geometryAt(n)
<1>. DEFINE S == {0} \cup {s \in 1..n : Sizes[s] = 0}
<1>1. n \in Nat /\ LastRecord \in Nat /\ S \in SUBSET (0..n) /\ S # {}
  BY SizesAre
<1>2. Max(S) \in S /\ \A y \in S : Max(S) >= y
  <2>. HIDE DEF S
  <2>. QED BY <1>1, MaxIs
<1>3. geometryAt(n) = Max(S)
  BY DEF geometryAt
<1>4. geometryAt(0) = 0
  <2>1. {0} \cup {s \in 1..0 : Sizes[s] = 0} = {0}
    OBVIOUS
  <2>2. Max({0}) = 0
    <3>1. 0 \in Nat /\ {0} \in SUBSET (0..0) /\ {0} # {}
      OBVIOUS
    <3>. QED BY <3>1, MaxIs
  <2>. QED BY <2>1, <2>2 DEF geometryAt
<1>5. Max(S) \in 0..LastRecord
  BY <1>1, <1>2
<1>6. \A s \in 1..n : Sizes[s] = 0 => s <= Max(S)
  <2>. SUFFICES ASSUME NEW s \in 1..n, Sizes[s] = 0 PROVE s <= Max(S)
    OBVIOUS
  <2>1. s \in S
    OBVIOUS
  <2>. HIDE DEF S
  <2>. QED BY <1>1, <1>2, <1>5, <2>1
<1>. QED BY <1>2, <1>3, <1>4, <1>5, <1>6

\* A LIVE or RESIZE frame of atoms.
LEMMA FrameTypes ==
  ASSUME NEW kind \in {"LIVE", "RESIZE", "COMMIT", "END"}, NEW atoms \in Seq(Atom), NEW c \in Cursor,
         kind = "LIVE" => Len(atoms) \in 1..FrameUnits, kind = "RESIZE" => Len(atoms) = 1
  PROVE  frame(kind, atoms, c) \in Frame
<1>. DEFINE f == frame(kind, atoms, c)
            S == Seq(Atom)
<1>1. f = [kind |-> kind, atoms |-> atoms, at |-> c, stream |-> 0, resumed |-> FALSE, geometry |-> 0]
  BY DEF frame
<1>2. 0 \in 0..Generations /\ 0 \in 0..LastRecord /\ FALSE \in BOOLEAN /\ atoms \in S
  BY Bounds, StreamAssumption
<1>. HIDE DEF S
<1>3. f \in [kind : {"PREPARE", "COMMIT", "LIVE", "RESIZE", "END"}, atoms : S, at : Cursor,
             stream : 0..Generations, resumed : BOOLEAN, geometry : 0..LastRecord]
  BY <1>1, <1>2
<1>4. f.kind = kind /\ f.atoms = atoms
  BY <1>1
<1>. HIDE DEF f
<1>. QED BY <1>3, <1>4 DEF S, f, Frame, isFrame

\* Packing atoms makes frames.
LEMMA FramesTypes == \A atoms \in Seq(Atom) : frames(atoms) \in Seq(Frame)
<1>1. \A c : frames(c) = K!fold(<<>>, c)
  BY DEF frames, K!fold, FoldLeft, MapThenFoldSet, Max, K!last
<1>. DEFINE V == Seq(Frame)
<1>2. ASSUME NEW q \in V, NEW x \in Atom PROVE packed(q, x) \in V
  <2>0. after(x) \in Cursor
    BY AfterTypes
  <2>1. FrameUnits \in Nat /\ FrameUnits >= 1
    <3>1. FrameUnits \in Nat \ {0}
      BY StreamAssumption
    <3>. QED BY <3>1
  <2>2. CASE isOutput(x) /\ q # <<>> /\ Last(q).kind = "LIVE" /\ Len(Last(q).atoms) < FrameUnits
    <3>. DEFINE l == Last(q)
                a == Append(l.atoms, x)
                f == frame("LIVE", a, after(x))
    <3>1. l \in Frame /\ Front(q) \in V
      BY <2>2 DEF Last, Front
    <3>2. l.atoms \in Seq(Atom)
      BY <3>1 DEF Frame
    <3>3. a \in Seq(Atom) /\ Len(a) \in 1..FrameUnits
      <4>1. a \in Seq(Atom) /\ Len(a) = Len(l.atoms) + 1 /\ Len(l.atoms) \in Nat
        BY <3>2
      <4>. HIDE DEF a
      <4>. QED BY <2>1, <2>2, <4>1
    <3>. HIDE DEF a
    <3>4. f \in Frame
      BY <2>0, <3>3, FrameTypes
    <3>5. packed(q, x) = Append(Front(q), f)
      BY <2>2 DEF packed, a
    <3>. HIDE DEF f
    <3>. QED BY <3>1, <3>4, <3>5
  <2>3. CASE ~(isOutput(x) /\ q # <<>> /\ Last(q).kind = "LIVE" /\ Len(Last(q).atoms) < FrameUnits)
    <3>. DEFINE kind == IF isOutput(x) THEN "LIVE" ELSE "RESIZE"
                a == <<x>>
                f == frame(kind, a, after(x))
    <3>1. a \in Seq(Atom) /\ Len(a) = 1 /\ kind \in {"LIVE", "RESIZE", "COMMIT", "END"}
          /\ 1 \in 1..FrameUnits
      BY <2>1
    <3>2. packed(q, x) = Append(q, f)
      BY <2>3 DEF packed
    <3>. HIDE DEF a, kind
    <3>3. f \in Frame
      BY <2>0, <3>1, FrameTypes
    <3>. HIDE DEF f
    <3>. QED BY <3>2, <3>3
  <2>. QED BY <2>2, <2>3
<1>3. <<>> \in V
  OBVIOUS
<1>4. ASSUME NEW atoms \in Seq(Atom) PROVE frames(atoms) \in Seq(Frame)
  <2>. HIDE DEF V
  <2>1. K!fold(<<>>, atoms) \in V
    BY <1>2, <1>3, K!FoldStays
  <2>. QED BY <1>1, <2>1 DEF V
<1>. QED BY <1>4


(***************************************************************************)
(* The shapes of the records.                                              *)
(***************************************************************************)
Outs == Seq(Frame)
Queues == Seq(1..LastRecord)
Counts == [Gen -> 0..LastRecord]
Fences == {"none", "open", "ok", "failed"}
Journals == [active : 0..Generations, latest : Gen, ended : SUBSET Gen,
             rotation : {"none", "begun", "sealed"}, lock : 0..Attachments,
             committed : Counts, published : Counts]
Subs == [key : 0..Generations, cursor : 0..LastRecord, queue : Queues, catchingUp : BOOLEAN,
         registered : BOOLEAN, verdict : Reason \cup {"none"}]
Leases == [fixed : {0, Fixed}, snapshot : Nat, events : Nat, catchUp : Nat,
           detached : BOOLEAN, owned : BOOLEAN]
Atts == [pc : Where, resume : Point, tries : Nat, key : 0..Generations, from : Cursor,
         to : 0..LastRecord, out : Outs, delivered : Cursor, event : 0..LastRecord, charge : Nat,
         held : BOOLEAN, ready : BOOLEAN, closing : BOOLEAN, fence : Fences]
Conns == [wire : Outs, open : BOOLEAN]
Writes == {w \in [op : {"RESET", "REPLAY", "LIVE", "RESIZE"}, gen : A, frame : Frame] :
             w.op = "RESIZE" => w.frame.kind = "RESIZE"}
Pending == Seq(Writes)
Shown == Seq(Atom)
Pages == [generation : 0..Attachments, open : BOOLEAN, prepared : 0..Attachments, committed : BOOLEAN,
          shown : Shown, stream : 0..Generations, geometry : 0..LastRecord, queue : Pending,
          point : Point, offer : Point, resizes : Nat]

Shapes ==
  /\ journal \in Journals /\ sub \in [A -> Subs] /\ att \in [A -> Atts] /\ lease \in [A -> Leases]
  /\ conn \in [A -> Conns] /\ page \in Pages

(***************************************************************************)
(* The invariant.                                                          *)
(***************************************************************************)

\* What is published is committed, and what is not admitted has nothing; a generation
\* that is rotated has a successor's number left.
Counted(j) ==
  /\ j.active <= j.latest /\ (j.rotation # "none" => j.latest < Generations)
  /\ \A g \in Gen : j.published[g] <= j.committed[g] /\ (g > j.latest => j.committed[g] = 0)

\* A reader's lease, to the byte.
Charged(x, s, l) ==
  /\ l.events = queueBytes(s.queue) + (IF x.event = 0 THEN 0 ELSE eventBytes[x.event])
  /\ l.catchUp = x.charge
  /\ x.event # 0 => x.pc = "event"
  /\ x.charge # 0 => x.pc = "round"
  /\ s.registered => l.fixed # 0 /\ ~l.detached
  /\ ~s.registered => s.queue = <<>>
  /\ x.pc \in {"none", "attaching"} => s = NoSub /\ l = NoLease
  /\ x.pc \in {"opening", "reading", "holding", "refused"} =>
       s = NoSub /\ l.fixed = Fixed /\ ~l.detached
  /\ x.pc \in {"holding", "preparing", "prepared", "backlog"} => l.snapshot # 0
  /\ x.pc \in {"live", "again", "event", "round"} => l.snapshot = 0

\* A reader's place in the recording, of which c records are committed.
Placing(c, x, s) ==
  /\ x.pc \in {"reading", "holding", "refused"} => x.key \in Gen
  /\ x.pc = "holding" => x.to <= c[x.key]
  /\ x.pc = "preparing" => x.out # <<>>
  /\ x.pc \in {"preparing", "prepared", "backlog", "live", "event", "again", "round"} =>
       /\ s.key \in Gen
       /\ x.delivered = cursor(x.delivered.seq, endOf[x.delivered.seq])
       /\ x.delivered.seq <= c[s.key] /\ x.to <= c[s.key]
       /\ \A i \in 1..Len(s.queue) : s.queue[i] <= c[s.key]

\* The connections.
Connected(a) ==
  /\ Len(conn[a].wire) <= WireFrames
  /\ a > page.generation => att[a] = Idle /\ ~conn[a].open

Paged == page.open => page.generation # 0

ReadersInv ==
  /\ Shapes /\ Counted(journal) /\ Paged
  /\ \A a \in A : Charged(att[a], sub[a], lease[a]) /\ Placing(journal.committed, att[a], sub[a]) /\ Connected(a)
  /\ budget <= ReaderCap

(***************************************************************************)
(* Leases.                                                                 *)
(***************************************************************************)

\* The constants, as numbers.
LEMMA ConstantsAre ==
  /\ Generations \in Nat \ {0} /\ Attachments \in Nat \ {0} /\ FrameUnits \in Nat \ {0}
  /\ WireFrames \in Nat \ {0} /\ Prepare \in Nat \ {0} /\ Fixed \in Nat \ {0}
  /\ Floor \in Nat /\ TailCap \in Nat /\ ReaderCap \in Nat /\ Attempts \in Nat /\ MaxResizes \in Nat
  /\ LastRecord \in Nat /\ Birth \in 0..LastRecord
BY StreamAssumption, SizesAre

\* A reservation below the floor is charged the floor (reserveTailEvent).
LEMMA FlooredIs ==
  ASSUME NEW b \in Nat
  PROVE  floored(b) = (IF b >= Floor THEN b ELSE Floor) /\ floored(b) \in Nat
<1>1. Floor \in Nat
  BY ConstantsAre
<1>. DEFINE n == b + Floor
            S == {b, Floor}
<1>2. n \in Nat /\ S \in SUBSET (0..n) /\ S # {}
  BY <1>1
<1>3. Max(S) \in S /\ \A y \in S : Max(S) >= y
  <2>. HIDE DEF S, n
  <2>. QED BY <1>2, MaxIs
<1>4. floored(b) = Max(S)
  BY DEF floored
<1>. QED BY <1>1, <1>3, <1>4

\* What a lease is charged.
LEMMA ChargedIs ==
  ASSUME NEW l \in Leases
  PROVE  /\ charged(l) = l.fixed + l.snapshot + l.catchUp
                           + (IF l.events >= Floor THEN l.events ELSE Floor) - Floor
         /\ charged(l) \in Nat
         /\ l.fixed \in Nat /\ l.snapshot \in Nat /\ l.events \in Nat /\ l.catchUp \in Nat
<1>1. l.fixed \in Nat /\ l.snapshot \in Nat /\ l.events \in Nat /\ l.catchUp \in Nat /\ Floor \in Nat
  BY ConstantsAre DEF Leases
<1>2. floored(l.events) = IF l.events >= Floor THEN l.events ELSE Floor
  BY <1>1, FlooredIs
<1>. QED BY <1>1, <1>2 DEF charged

\* A reader that holds no lease charges nothing.
LEMMA NoLeaseIs == NoLease \in Leases /\ charged(NoLease) = 0
<1>1. NoLease \in Leases
  BY DEF NoLease, Leases
<1>2. Floor \in Nat
  BY ConstantsAre
<1>. QED BY <1>1, <1>2, ChargedIs DEF NoLease

\* What settling leaves.
settles(r, l) ==
  /\ r \in Leases /\ charged(r) <= charged(l)
  /\ r.events = l.events /\ r.catchUp = l.catchUp /\ r.snapshot = l.snapshot
  /\ r = l \/ (r = NoLease /\ l.detached)
  /\ r = l \/ ~l.owned

\* What releaseLocked leaves of a lease.
LEMMA SettledIs ==
  ASSUME NEW l \in Leases
  PROVE  settles(settled(l), l)
<1>1. CASE l.detached /\ l.snapshot = 0 /\ l.events = 0 /\ l.catchUp = 0 /\ ~l.owned
  <2>1. settled(l) = NoLease
    BY <1>1 DEF settled
  <2>2. charged(l) \in Nat /\ charged(NoLease) = 0 /\ NoLease \in Leases
    BY ChargedIs, NoLeaseIs
  <2>3. NoLease.events = 0 /\ NoLease.catchUp = 0 /\ NoLease.snapshot = 0
    BY DEF NoLease
  <2>. QED BY <1>1, <2>1, <2>2, <2>3 DEF settles
<1>2. CASE ~(l.detached /\ l.snapshot = 0 /\ l.events = 0 /\ l.catchUp = 0 /\ ~l.owned)
  <2>1. settled(l) = l
    BY <1>2 DEF settled
  <2>2. charged(l) \in Nat
    BY ChargedIs
  <2>. QED BY <2>1, <2>2 DEF settles
<1>. QED BY <1>1, <1>2

\* A lease after it has given something back: what it still holds is given.
gives(r, l, snapshot, events, catchUp) ==
  /\ r \in Leases /\ charged(r) <= charged(l)
  /\ r.snapshot = snapshot /\ r.events = events /\ r.catchUp = catchUp
  /\ ~l.detached => r.fixed = l.fixed /\ r.detached = l.detached /\ r.owned = l.owned

\* What releaseSnapshot gives back.
LEMMA SnapshotGiven ==
  ASSUME NEW l \in Leases
  PROVE  gives(releaseSnapshot(l), l, 0, l.events, l.catchUp)
<1>. DEFINE m == [l EXCEPT !.snapshot = 0]
<1>1. m \in Leases /\ m.events = l.events /\ m.catchUp = l.catchUp /\ m.snapshot = 0 /\ m.fixed = l.fixed
      /\ m.detached = l.detached /\ m.owned = l.owned
  BY DEF Leases
<1>2. releaseSnapshot(l) = settled(m)
  BY DEF releaseSnapshot
<1>. HIDE DEF m
<1>3. charged(m) <= charged(l) /\ charged(m) \in Nat /\ charged(l) \in Nat
  BY <1>1, ChargedIs, ConstantsAre
<1>4. settles(settled(m), m)
  BY <1>1, SettledIs
<1>. QED BY <1>1, <1>2, <1>3, <1>4, ChargedIs DEF settles, gives

\* What releaseEvent gives back.
LEMMA EventGiven ==
  ASSUME NEW l \in Leases, NEW b \in Nat, b <= l.events
  PROVE  gives(releaseEvent(l, b), l, l.snapshot, l.events - b, l.catchUp)
<1>. DEFINE m == [l EXCEPT !.events = @ - b]
<1>0. l.events \in Nat /\ l.events - b \in Nat
  BY DEF Leases
<1>1. m \in Leases /\ m.events = l.events - b /\ m.catchUp = l.catchUp /\ m.snapshot = l.snapshot
      /\ m.fixed = l.fixed /\ m.detached = l.detached /\ m.owned = l.owned
  BY <1>0 DEF Leases
<1>2. releaseEvent(l, b) = settled(m)
  BY DEF releaseEvent
<1>. HIDE DEF m
<1>3. charged(m) <= charged(l) /\ charged(m) \in Nat /\ charged(l) \in Nat
  BY <1>0, <1>1, ChargedIs, ConstantsAre
<1>4. settles(settled(m), m)
  BY <1>1, SettledIs
<1>. QED BY <1>1, <1>2, <1>3, <1>4, ChargedIs DEF settles, gives

\* What releaseCatchUp gives back.
LEMMA CatchUpGiven ==
  ASSUME NEW l \in Leases
  PROVE  gives(releaseCatchUp(l), l, l.snapshot, l.events, 0)
<1>. DEFINE m == [l EXCEPT !.catchUp = 0]
<1>1. m \in Leases /\ m.events = l.events /\ m.catchUp = 0 /\ m.snapshot = l.snapshot /\ m.fixed = l.fixed
      /\ m.detached = l.detached /\ m.owned = l.owned
  BY DEF Leases
<1>2. releaseCatchUp(l) = settled(m)
  BY DEF releaseCatchUp
<1>. HIDE DEF m
<1>3. charged(m) <= charged(l) /\ charged(m) \in Nat /\ charged(l) \in Nat
  BY <1>1, ChargedIs, ConstantsAre
<1>4. settles(settled(m), m)
  BY <1>1, SettledIs
<1>. QED BY <1>1, <1>2, <1>3, <1>4, ChargedIs DEF settles, gives

\* detach keeps what the queue and the hands still hold.
LEMMA Detached ==
  ASSUME NEW l \in Leases
  PROVE  /\ detach(l) \in Leases /\ charged(detach(l)) <= charged(l)
         /\ detach(l).events = l.events /\ detach(l).catchUp = l.catchUp /\ detach(l).snapshot = l.snapshot
<1>. DEFINE m == [l EXCEPT !.detached = TRUE]
<1>1. m \in Leases /\ m.events = l.events /\ m.catchUp = l.catchUp /\ m.snapshot = l.snapshot /\ m.fixed = l.fixed
  BY DEF Leases
<1>2. detach(l) = settled(m)
  BY DEF detach
<1>. HIDE DEF m
<1>3. charged(m) = charged(l)
  BY <1>1, ChargedIs
<1>4. settles(settled(m), m)
  BY <1>1, SettledIs
<1>. QED BY <1>1, <1>2, <1>3, <1>4 DEF settles

\* The queue of a subscriber that is closed is given back.
LEMMA DrainedGiven ==
  ASSUME NEW l \in Leases, NEW s \in Subs, ~s.registered => s.queue = <<>>,
         queueBytes(s.queue) <= l.events
  PROVE  gives(drained(l, s), l, l.snapshot, l.events - queueBytes(s.queue), l.catchUp)
<1>1. queueBytes(s.queue) \in Nat /\ queueBytes(<<>>) = 0 /\ l.events \in Nat
  BY QueueBytes DEF Subs, Queues, Leases
<1>2. CASE s.registered
  <2>1. gives(releaseEvent(l, queueBytes(s.queue)), l, l.snapshot, l.events - queueBytes(s.queue), l.catchUp)
    BY <1>1, EventGiven
  <2>. QED BY <1>2, <2>1 DEF drained
<1>3. CASE ~s.registered
  <2>1. drained(l, s) = l /\ charged(l) \in Nat
    BY <1>3, ChargedIs DEF drained
  <2>. QED BY <1>1, <1>3, <2>1 DEF gives
<1>. QED BY <1>2, <1>3

(***************************************************************************)
(* The budget.                                                             *)
(***************************************************************************)
\* The bytes of all readers are the sum of their charges.
LEMMA BytesAre ==
  ASSUME NEW leases
  PROVE  bytesOf(leases) = T!sum(charges(leases), A)
BY DEF bytesOf, T!sum, MapThenSumSet, MapThenFoldSet, T!sums, T!pick

\* There are finitely many attachments to sum over.
LEMMA ReadersFinite == IsFiniteSet(A) /\ T!IsFiniteSet(A)
<1>1. Attachments \in Nat
  BY ConstantsAre
<1>2. IsFiniteSet(A)
  BY <1>1, FS_Interval DEF A
<1>. QED BY <1>2 DEF IsFiniteSet, T!IsFiniteSet

\* The charges of the readers, as weights of a sum.
LEMMA ChargesAre ==
  ASSUME NEW leases \in [A -> Leases]
  PROVE  /\ T!WeightsOn(charges(leases), A) /\ \A a \in A : charges(leases)[a] = charged(leases[a])
         /\ bytesOf(leases) \in Nat
<1>1. \A a \in A : charges(leases)[a] = charged(leases[a])
  BY DEF charges
<1>2. \A a \in A : charged(leases[a]) \in Nat
  BY ChargedIs
<1>3. T!WeightsOn(charges(leases), A)
  BY <1>1, <1>2 DEF T!WeightsOn
<1>4. \A a \in A : charges(leases)[a] >= 0
  BY <1>1, <1>2
<1>5. T!sum(charges(leases), A) \in Int /\ T!sum(charges(leases), A) >= 0
  BY <1>3, <1>4, ReadersFinite, T!SumType
<1>. QED BY <1>1, <1>3, <1>5, BytesAre

\* One lease that changes.
LEMMA BytesChange ==
  ASSUME NEW leases \in [A -> Leases], NEW a \in A, NEW l \in Leases
  PROVE  LET changed == [leases EXCEPT ![a] = l]
         IN /\ changed \in [A -> Leases]
            /\ bytesOf(changed) = bytesOf(leases) + charged(l) - charged(leases[a])
<1>. DEFINE changed == [leases EXCEPT ![a] = l]
<1>1. changed \in [A -> Leases] /\ changed[a] = l /\ \A b \in A \ {a} : changed[b] = leases[b]
  OBVIOUS
<1>. HIDE DEF changed
<1>2. /\ T!WeightsOn(charges(leases), A) /\ \A b \in A : charges(leases)[b] = charged(leases[b])
  BY ChargesAre
<1>3. /\ T!WeightsOn(charges(changed), A) /\ \A b \in A : charges(changed)[b] = charged(changed[b])
  BY <1>1, ChargesAre
<1>4. \A b \in A \ {a} : charges(changed)[b] = charges(leases)[b]
  BY <1>1, <1>2, <1>3
<1>5. T!sum(charges(changed), A) = T!sum(charges(leases), A) + charges(changed)[a] - charges(leases)[a]
  BY <1>2, <1>3, <1>4, ReadersFinite, T!SumChange
<1>6. bytesOf(changed) = bytesOf(leases) + charged(l) - charged(leases[a])
  BY <1>1, <1>2, <1>3, <1>5, BytesAre
<1>. QED BY <1>1, <1>6 DEF changed

\* All leases at most as heavy as they were.
LEMMA BytesShrink ==
  ASSUME NEW leases \in [A -> Leases], NEW lighter \in [A -> Leases],
         \A a \in A : charged(lighter[a]) <= charged(leases[a])
  PROVE  bytesOf(lighter) <= bytesOf(leases)
<1>2. /\ T!WeightsOn(charges(leases), A) /\ \A b \in A : charges(leases)[b] = charged(leases[b])
  BY ChargesAre
<1>3. /\ T!WeightsOn(charges(lighter), A) /\ \A b \in A : charges(lighter)[b] = charged(lighter[b])
  BY ChargesAre
<1>4. \A b \in A : charges(lighter)[b] <= charges(leases)[b]
  BY <1>2, <1>3
<1>5. T!sum(charges(lighter), A) <= T!sum(charges(leases), A)
  BY <1>2, <1>3, <1>4, ReadersFinite, T!SumMonotone
<1>. QED BY <1>5, BytesAre

(***************************************************************************)
(* Steps of one reader.                                                    *)
(***************************************************************************)

\* What the invariant says of one reader.
LEMMA ReaderIs ==
  ASSUME ReadersInv, NEW a \in A
  PROVE  /\ att[a] \in Atts /\ sub[a] \in Subs /\ lease[a] \in Leases /\ conn[a] \in Conns
         /\ Charged(att[a], sub[a], lease[a]) /\ Placing(journal.committed, att[a], sub[a])
         /\ att = [att EXCEPT ![a] = att[a]] /\ sub = [sub EXCEPT ![a] = sub[a]]
         /\ lease = [lease EXCEPT ![a] = lease[a]] /\ conn = [conn EXCEPT ![a] = conn[a]]
         /\ Len(conn[a].wire) <= WireFrames
         /\ journal \in Journals /\ page \in Pages /\ Counted(journal)
         /\ budget \in Nat /\ budget <= ReaderCap /\ charged(lease[a]) \in Nat
<1>1. /\ att \in [A -> Atts] /\ sub \in [A -> Subs] /\ lease \in [A -> Leases] /\ conn \in [A -> Conns]
      /\ journal \in Journals /\ page \in Pages
  BY DEF ReadersInv, Shapes
<1>2. budget \in Nat
  BY <1>1, ChargesAre DEF budget
<1>3. charged(lease[a]) \in Nat
  BY <1>1, ChargedIs
<1>. QED BY <1>1, <1>2, <1>3 DEF ReadersInv, Connected

\* A reader that is not idle has its connection.
LEMMA Begun ==
  ASSUME ReadersInv, NEW a \in A, att[a].pc # "none"
  PROVE  a <= page.generation
<1>1. page.generation \in Nat /\ a \in Nat
  BY ConstantsAre DEF ReadersInv, Shapes, Pages, A
<1>2. att[a] # Idle
  BY DEF Idle
<1>. QED BY <1>1, <1>2 DEF ReadersInv, Connected

\* A step of one reader that keeps what is said of it keeps the invariant.
LEMMA ReaderStep ==
  ASSUME ReadersInv, NEW a \in A, a <= page.generation,
         NEW x \in Atts, NEW s \in Subs, NEW l \in Leases, NEW c \in Conns,
         att' = [att EXCEPT ![a] = x], sub' = [sub EXCEPT ![a] = s],
         lease' = [lease EXCEPT ![a] = l], conn' = [conn EXCEPT ![a] = c],
         page' \in Pages, page'.generation = page.generation, page'.open => page.open,
         journal' \in Journals, journal'.committed = journal.committed, Counted(journal'),
         Charged(x, s, l), Placing(journal.committed, x, s), Len(c.wire) <= WireFrames,
         charged(l) <= charged(lease[a]) \/ charged(l) - charged(lease[a]) <= ReaderCap - budget
  PROVE  ReadersInv'
<1>1. /\ att \in [A -> Atts] /\ sub \in [A -> Subs] /\ lease \in [A -> Leases] /\ conn \in [A -> Conns]
      /\ journal \in Journals /\ page \in Pages
  BY DEF ReadersInv, Shapes
<1>2. /\ att' \in [A -> Atts] /\ sub' \in [A -> Subs] /\ lease' \in [A -> Leases] /\ conn' \in [A -> Conns]
      /\ att'[a] = x /\ sub'[a] = s /\ lease'[a] = l /\ conn'[a] = c
      /\ \A b \in A \ {a} : att'[b] = att[b] /\ sub'[b] = sub[b] /\ lease'[b] = lease[b] /\ conn'[b] = conn[b]
  BY <1>1
<1>3. Shapes'
  BY <1>2 DEF Shapes
<1>4. Paged'
  BY DEF ReadersInv, Paged
<1>5. ASSUME NEW b \in A
      PROVE  Charged(att'[b], sub'[b], lease'[b]) /\ Placing(journal'.committed, att'[b], sub'[b])
             /\ Connected(b)'
  <2>1. CASE b = a
    <3>1. a \in Nat /\ page.generation \in Nat
      BY <1>1, ConstantsAre DEF Pages, A
    <3>2. Connected(a)'
      BY <1>2, <3>1 DEF Connected
    <3>. QED BY <1>2, <2>1, <3>2
  <2>2. CASE b # a
    <3>1. Charged(att[b], sub[b], lease[b]) /\ Placing(journal.committed, att[b], sub[b]) /\ Connected(b)
      BY DEF ReadersInv
    <3>2. att'[b] = att[b] /\ sub'[b] = sub[b] /\ lease'[b] = lease[b] /\ conn'[b] = conn[b]
      BY <1>2, <2>2
    <3>3. Connected(b)'
      BY <3>1, <3>2 DEF Connected
    <3>. QED BY <3>1, <3>2, <3>3
  <2>. QED BY <2>1, <2>2
<1>6. budget' <= ReaderCap
  <2>1. budget' = bytesOf([lease EXCEPT ![a] = l])
    BY DEF budget
  <2>2. bytesOf([lease EXCEPT ![a] = l]) = bytesOf(lease) + charged(l) - charged(lease[a])
    BY <1>1, BytesChange
  <2>3. bytesOf(lease) \in Nat /\ charged(l) \in Nat /\ charged(lease[a]) \in Nat /\ ReaderCap \in Nat
        /\ bytesOf(lease) <= ReaderCap
    BY <1>1, ChargesAre, ChargedIs, ConstantsAre DEF ReadersInv, budget
  <2>. QED BY <2>1, <2>2, <2>3 DEF budget
<1>. QED BY <1>3, <1>4, <1>5, <1>6 DEF ReadersInv, Charged, Placing

\* The writer is somewhere else, and the rest of it as it was.
at_(y, x) ==
  /\ y.resume = x.resume /\ y.key = x.key /\ y.from = x.from /\ y.to = x.to /\ y.out = x.out
  /\ y.delivered = x.delivered /\ y.event = x.event /\ y.charge = x.charge

\* An attachment that only moves to another place keeps its other fields.
LEMMA Goes ==
  ASSUME NEW x \in Atts, NEW p \in Where
  PROVE  /\ [x EXCEPT !.pc = p] \in Atts /\ [x EXCEPT !.pc = p].pc = p
         /\ at_([x EXCEPT !.pc = p], x)
BY DEF Atts, at_

\* The values an attachment starts and ends with.
LEMMA StoppedIs ==
  /\ Idle \in Atts /\ Stopped \in Atts /\ NoSub \in Subs
  /\ Idle.pc = "none" /\ Stopped.pc = "stopped" /\ Stopped.event = 0 /\ Stopped.charge = 0
  /\ NoSub.queue = <<>> /\ ~NoSub.registered /\ queueBytes(NoSub.queue) = 0
  /\ \A fence \in Fences : [Idle EXCEPT !.pc = "ending", !.closing = TRUE, !.fence = fence] \in Atts
<1>1. 0 \in 0..Generations /\ 0 \in 0..LastRecord /\ 0 \in 0..Attachments /\ 0 \in 0..endOf[LastRecord]
  BY Bounds, ConstantsAre
<1>2. Origin \in Cursor /\ NoPoint \in Point
  BY <1>1 DEF Origin, NoPoint, Point, Cursor, cursor
<1>. DEFINE S == Seq(Frame)
            R == Seq(1..LastRecord)
<1>3. <<>> \in S /\ <<>> \in R
  OBVIOUS
<1>4. Outs = S /\ Queues = R
  BY DEF Outs, Queues
<1>. HIDE DEF S, R
<1>5. Idle \in Atts /\ Idle.pc = "none" /\ Idle.event = 0 /\ Idle.charge = 0
  BY <1>1, <1>2, <1>3, <1>4 DEF Idle, Atts, Where, Fences
<1>6. Stopped \in Atts /\ Stopped.pc = "stopped" /\ Stopped.event = 0 /\ Stopped.charge = 0
  BY <1>1, <1>2, <1>3, <1>4 DEF Idle, Stopped, Atts, Where, Fences
<1>7. NoSub \in Subs /\ NoSub.queue = <<>> /\ ~NoSub.registered
  BY <1>1, <1>3, <1>4 DEF NoSub, Subs
<1>8. ASSUME NEW fence \in Fences
      PROVE  [Idle EXCEPT !.pc = "ending", !.closing = TRUE, !.fence = fence] \in Atts
  BY <1>1, <1>2, <1>3, <1>4 DEF Idle, Atts, Where
<1>9. queueBytes(NoSub.queue) = 0
  BY <1>7, QueueBytes
<1>. QED BY <1>5, <1>6, <1>7, <1>8, <1>9

\* A reader that is still opening.
LEMMA OpeningIs ==
  ASSUME NEW x, NEW l, x.event = 0, x.charge = 0, x.pc \in {"opening", "reading", "holding", "refused"},
         l.events = 0, l.catchUp = 0, l.fixed = Fixed, ~l.detached, x.pc = "holding" => l.snapshot # 0
  PROVE  Charged(x, NoSub, l)
<1>1. NoSub.queue = <<>> /\ ~NoSub.registered /\ queueBytes(NoSub.queue) = 0
  BY StoppedIs
<1>. QED BY <1>1 DEF Charged

\* A reader that has stopped.
LEMMA EndedIs ==
  ASSUME NEW x, NEW l, x.event = 0, x.charge = 0, x.pc \in {"ending", "stopped"},
         l.events = 0, l.catchUp = 0
  PROVE  Charged(x, NoSub, l)
<1>1. NoSub.queue = <<>> /\ ~NoSub.registered /\ queueBytes(NoSub.queue) = 0
  BY StoppedIs
<1>. QED BY <1>1 DEF Charged

\* attachValidated acquires the attachment's lease.
LEMMA AttachAcquiresKeeps ==
  ASSUME ReadersInv, NEW a \in A, AttachAcquires(a)
  PROVE  ReadersInv'
<1>1. /\ att[a] \in Atts /\ sub[a] \in Subs /\ lease[a] \in Leases /\ conn[a] \in Conns
      /\ Charged(att[a], sub[a], lease[a]) /\ att[a].pc = "attaching" /\ a <= page.generation
      /\ sub[a] = NoSub /\ lease[a] = NoLease
  BY ReaderIs, Begun DEF AttachAcquires, Charged
<1>2. /\ sub' = [sub EXCEPT ![a] = sub[a]] /\ Len(conn[a].wire) <= WireFrames
      /\ page' \in Pages /\ page'.generation = page.generation /\ (page'.open => page.open)
      /\ journal' \in Journals /\ journal'.committed = journal.committed /\ Counted(journal')
  BY ReaderIs DEF AttachAcquires
<1>3. CASE Fixed + Prepare <= ReaderCap - budget
  <2>. DEFINE x == [att[a] EXCEPT !.pc = "opening"]
              l == [lease[a] EXCEPT !.fixed = Fixed, !.snapshot = Prepare, !.owned = TRUE]
  <2>1. x \in Atts /\ x.pc = "opening" /\ at_(x, att[a])
    BY <1>1, Goes DEF Where
  <2>2. l \in Leases /\ l.events = 0 /\ l.catchUp = 0 /\ l.fixed = Fixed /\ l.snapshot = Prepare /\ ~l.detached
    <3>1. lease[a].events = 0 /\ lease[a].catchUp = 0 /\ ~lease[a].detached /\ lease[a].snapshot = 0
      BY <1>1 DEF NoLease
    <3>. QED BY <1>1, <3>1, ConstantsAre DEF Leases
  <2>3. att' = [att EXCEPT ![a] = x] /\ lease' = [lease EXCEPT ![a] = l] /\ conn' = [conn EXCEPT ![a] = conn[a]]
    BY <1>3, ReaderIs DEF AttachAcquires, goes
  <2>. HIDE DEF x, l
  <2>4. Charged(x, sub[a], l)
    <3>1. att[a].event = 0 /\ att[a].charge = 0
      BY <1>1 DEF Charged, NoLease
    <3>2. x.event = 0 /\ x.charge = 0
      BY <2>1, <3>1 DEF at_
    <3>. QED BY <1>1, <2>1, <2>2, <3>2, OpeningIs
  <2>5. Placing(journal.committed, x, sub[a])
    BY <2>1 DEF Placing
  <2>6. charged(l) - charged(lease[a]) <= ReaderCap - budget
    BY <1>1, <1>3, <2>2, ChargedIs, NoLeaseIs, ConstantsAre
  <2>. QED BY <1>1, <1>2, <2>1, <2>2, <2>3, <2>4, <2>5, <2>6, ReaderStep
<1>4. CASE ~(Fixed + Prepare <= ReaderCap - budget)
  <2>. DEFINE c == [conn[a] EXCEPT !.open = FALSE]
  <2>1. c \in Conns /\ Len(c.wire) <= WireFrames
    BY <1>1, <1>2 DEF Conns
  <2>2. att' = [att EXCEPT ![a] = Stopped] /\ lease' = [lease EXCEPT ![a] = lease[a]] /\ conn' = [conn EXCEPT ![a] = c]
    BY <1>4, ReaderIs DEF AttachAcquires, stops, hangsUp
  <2>. HIDE DEF c
  <2>3. Charged(Stopped, sub[a], lease[a]) /\ Placing(journal.committed, Stopped, sub[a])
    BY <1>1, StoppedIs DEF Charged, Placing, NoLease
  <2>4. charged(lease[a]) <= charged(lease[a])
    BY ReaderIs
  <2>. QED BY <1>1, <1>2, <2>1, <2>2, <2>3, <2>4, StoppedIs, ReaderStep
<1>. QED BY <1>3, <1>4

\* A reader that is opening has no subscription, and its lease.
LEMMA Opening ==
  ASSUME ReadersInv, NEW a \in A, att[a].pc \in {"opening", "reading", "holding", "refused"}
  PROVE  /\ sub[a] = NoSub /\ lease[a].fixed = Fixed /\ ~lease[a].detached
         /\ lease[a].events = 0 /\ lease[a].catchUp = 0 /\ att[a].event = 0 /\ att[a].charge = 0
         /\ a <= page.generation
<1>1. Charged(att[a], sub[a], lease[a]) /\ a <= page.generation
  BY ReaderIs, Begun
<1>2. sub[a] = NoSub /\ lease[a].fixed = Fixed /\ ~lease[a].detached /\ att[a].event = 0 /\ att[a].charge = 0
  BY <1>1 DEF Charged
<1>3. lease[a].events = queueBytes(sub[a].queue) + 0 /\ lease[a].catchUp = 0
  BY <1>1, <1>2 DEF Charged
<1>4. queueBytes(sub[a].queue) = 0
  BY <1>2, StoppedIs
<1>5. lease[a].events = 0
  BY <1>3, <1>4
<1>. QED BY <1>1, <1>2, <1>3, <1>5

\* What an action leaves alone.
LEMMA Alone ==
  ASSUME ReadersInv, NEW a \in A
  PROVE  /\ UNCHANGED sub => sub' = [sub EXCEPT ![a] = sub[a]]
         /\ UNCHANGED att => att' = [att EXCEPT ![a] = att[a]]
         /\ UNCHANGED lease => lease' = [lease EXCEPT ![a] = lease[a]]
         /\ UNCHANGED conn => conn' = [conn EXCEPT ![a] = conn[a]]
         /\ UNCHANGED page => page' \in Pages /\ page'.generation = page.generation /\ (page'.open => page.open)
         /\ UNCHANGED journal => journal' \in Journals /\ journal'.committed = journal.committed /\ Counted(journal')
         /\ charged(lease[a]) <= charged(lease[a]) /\ Len(conn[a].wire) <= WireFrames
BY ReaderIs

\* A connection that is closed from this side keeps what is in flight.
LEMMA Hung ==
  ASSUME ReadersInv, NEW a \in A
  PROVE  [conn[a] EXCEPT !.open = FALSE] \in Conns /\ Len([conn[a] EXCEPT !.open = FALSE].wire) <= WireFrames
BY ReaderIs DEF Conns

\* openStream resolves the generation to read.
LEMMA OpenResolvesKeeps ==
  ASSUME ReadersInv, NEW a \in A, OpenResolves(a)
  PROVE  ReadersInv'
<1>1. /\ att[a] \in Atts /\ sub[a] \in Subs /\ lease[a] \in Leases /\ conn[a] \in Conns /\ journal \in Journals
      /\ att[a].pc = "opening"
  BY ReaderIs DEF OpenResolves
<1>2. /\ sub[a] = NoSub /\ lease[a].fixed = Fixed /\ ~lease[a].detached
      /\ lease[a].events = 0 /\ lease[a].catchUp = 0 /\ att[a].event = 0 /\ att[a].charge = 0
      /\ a <= page.generation
  BY <1>1, Opening
<1>3. /\ sub' = [sub EXCEPT ![a] = sub[a]] /\ lease' = [lease EXCEPT ![a] = lease[a]]
      /\ page' \in Pages /\ page'.generation = page.generation /\ (page'.open => page.open)
      /\ journal' \in Journals /\ journal'.committed = journal.committed /\ Counted(journal')
      /\ charged(lease[a]) <= charged(lease[a]) /\ Len(conn[a].wire) <= WireFrames
  BY Alone DEF OpenResolves
<1>4. CASE journal.active = 0 \/ att[a].tries = Attempts
  <2>. DEFINE c == [conn[a] EXCEPT !.open = FALSE]
  <2>1. att' = [att EXCEPT ![a] = Stopped] /\ conn' = [conn EXCEPT ![a] = c]
    BY <1>4 DEF OpenResolves, OpenFails, stops, hangsUp
  <2>2. c \in Conns /\ Len(c.wire) <= WireFrames
    BY Hung
  <2>. HIDE DEF c
  <2>3. Charged(Stopped, sub[a], lease[a]) /\ Placing(journal.committed, Stopped, sub[a])
    BY <1>2, StoppedIs, EndedIs DEF Placing
  <2>. QED BY <1>1, <1>2, <1>3, <2>1, <2>2, <2>3, StoppedIs, ReaderStep
<1>5. CASE ~(journal.active = 0 \/ att[a].tries = Attempts)
  <2>. DEFINE x == [att[a] EXCEPT !.key = journal.active, !.tries = @ + 1, !.pc = "reading"]
  <2>0. journal.active \in Gen /\ journal.active \in 0..Generations
    BY <1>1, <1>5, ConstantsAre DEF Journals, Gen
  <2>1. x \in Atts /\ x.pc = "reading" /\ x.key = journal.active /\ x.event = att[a].event /\ x.charge = att[a].charge
    <3>. DEFINE k == journal.active
                n == att[a].tries + 1
    <3>1. k \in 0..Generations /\ n \in Nat /\ "reading" \in Where
      BY <1>1, <2>0 DEF Atts, Where
    <3>2. x = [att[a] EXCEPT !.key = k, !.tries = n, !.pc = "reading"]
      OBVIOUS
    <3>. HIDE DEF k, n, x
    <3>3. x \in Atts /\ x.pc = "reading" /\ x.key = k /\ x.event = att[a].event /\ x.charge = att[a].charge
      BY <1>1, <3>1, <3>2 DEF Atts
    <3>. QED BY <3>3 DEF k
  <2>2. att' = [att EXCEPT ![a] = x] /\ conn' = [conn EXCEPT ![a] = conn[a]]
    BY <1>5, Alone DEF OpenResolves
  <2>. HIDE DEF x
  <2>3. Charged(x, sub[a], lease[a]) /\ Placing(journal.committed, x, sub[a])
    BY <1>2, <2>0, <2>1, OpeningIs DEF Placing
  <2>. QED BY <1>1, <1>2, <1>3, <2>1, <2>2, <2>3, ReaderStep
<1>. QED BY <1>4, <1>5

\* Only the lock of the journal changes.
LEMMA Locking ==
  ASSUME ReadersInv, NEW n \in 0..Attachments, journal' = [journal EXCEPT !.lock = n]
  PROVE  journal' \in Journals /\ journal'.committed = journal.committed /\ Counted(journal')
         /\ journal'.active = journal.active /\ journal'.published = journal.published
<1>1. journal \in Journals /\ Counted(journal)
  BY DEF ReadersInv, Shapes
<1>2. /\ journal' \in Journals /\ journal'.committed = journal.committed /\ journal'.active = journal.active
      /\ journal'.published = journal.published /\ journal'.latest = journal.latest
      /\ journal'.rotation = journal.rotation
  BY <1>1 DEF Journals
<1>. QED BY <1>1, <1>2 DEF Counted

\* A resume point or the beginning of the stream.
LEMMA FromIs ==
  ASSUME NEW p \in Point, NEW g, NEW to
  PROVE  resumeFrom(p, g, to) \in Cursor
<1>1. Origin \in Cursor
  BY Bounds DEF Origin, cursor, Cursor
<1>2. p.at \in Cursor
  BY DEF Point
<1>. QED BY <1>1, <1>2 DEF resumeFrom

\* openStream reads the committed events after the resume point.
LEMMA OpenReadsKeeps ==
  ASSUME ReadersInv, NEW a \in A, OpenReads(a)
  PROVE  ReadersInv'
<1>1. /\ att[a] \in Atts /\ sub[a] \in Subs /\ lease[a] \in Leases /\ conn[a] \in Conns /\ journal \in Journals
      /\ Placing(journal.committed, att[a], sub[a]) /\ att[a].pc = "reading" /\ budget \in Nat
  BY ReaderIs DEF OpenReads
<1>2. /\ sub[a] = NoSub /\ lease[a].fixed = Fixed /\ ~lease[a].detached
      /\ lease[a].events = 0 /\ lease[a].catchUp = 0 /\ att[a].event = 0 /\ att[a].charge = 0
      /\ a <= page.generation
  BY <1>1, Opening
<1>3. /\ sub' = [sub EXCEPT ![a] = sub[a]] /\ conn' = [conn EXCEPT ![a] = conn[a]]
      /\ page' \in Pages /\ page'.generation = page.generation /\ (page'.open => page.open)
      /\ charged(lease[a]) <= charged(lease[a]) /\ Len(conn[a].wire) <= WireFrames
  BY Alone DEF OpenReads
<1>4. journal' \in Journals /\ journal'.committed = journal.committed /\ Counted(journal')
  <2>1. a \in 0..Attachments /\ journal' = [journal EXCEPT !.lock = a]
    BY ConstantsAre DEF OpenReads, A
  <2>. QED BY <2>1, Locking
<1>. DEFINE g == att[a].key
            to == journal.committed[g]
            from == resumeFrom(att[a].resume, g, to)
            bytes == Prepare + cost(suffix(from, to))
<1>5. PICK retired \in mayBeRetired(g) :
        IF ~retired /\ bytes - lease[a].snapshot <= ReaderCap - budget
        THEN /\ att' = [att EXCEPT ![a].pc = "holding", ![a].from = from, ![a].to = to]
             /\ lease' = [lease EXCEPT ![a].snapshot = bytes]
        ELSE goes(a, "refused") /\ UNCHANGED lease
  BY DEF OpenReads
<1>6. g \in Gen /\ to \in 0..LastRecord /\ from \in Cursor
  <2>1. g \in Gen
    BY <1>1 DEF Placing
  <2>2. to \in 0..LastRecord
    BY <1>1, <2>1 DEF Journals, Counts
  <2>3. att[a].resume \in Point
    BY <1>1 DEF Atts
  <2>. QED BY <2>1, <2>2, <2>3, FromIs
<1>7. bytes \in Nat /\ bytes # 0
  <2>1. suffix(from, to) \in Seq(Atom)
    BY <1>6, SuffixTypes
  <2>2. cost(suffix(from, to)) \in Nat
    BY <2>1, CostIs
  <2>. HIDE DEF from, to
  <2>. QED BY <2>2, ConstantsAre
<1>. HIDE DEF g, to, from, bytes
<1>8. CASE ~retired /\ bytes - lease[a].snapshot <= ReaderCap - budget
  <2>. DEFINE x == [att[a] EXCEPT !.pc = "holding", !.from = from, !.to = to]
              l == [lease[a] EXCEPT !.snapshot = bytes]
  <2>1. /\ x \in Atts /\ x.pc = "holding" /\ x.key = g /\ x.to = to
        /\ x.event = att[a].event /\ x.charge = att[a].charge
    BY <1>1, <1>6 DEF Atts, Where, g
  <2>2. l \in Leases /\ l.events = lease[a].events /\ l.catchUp = lease[a].catchUp /\ l.fixed = lease[a].fixed
        /\ l.snapshot = bytes /\ l.detached = lease[a].detached
    BY <1>1, <1>7 DEF Leases
  <2>3. att' = [att EXCEPT ![a] = x] /\ lease' = [lease EXCEPT ![a] = l]
    BY <1>5, <1>8
  <2>. HIDE DEF x, l
  <2>4. Charged(x, sub[a], l) /\ Placing(journal.committed, x, sub[a])
    <3>1. Charged(x, NoSub, l)
      BY <1>2, <1>7, <2>1, <2>2, OpeningIs
    <3>2. Placing(journal.committed, x, sub[a])
      BY <1>1, <1>6, <2>1 DEF Placing, to, Journals, Counts
    <3>. QED BY <1>2, <3>1, <3>2
  <2>5. charged(l) - charged(lease[a]) <= ReaderCap - budget
    BY <1>1, <1>7, <1>8, <2>2, ChargedIs, ConstantsAre
  <2>. QED BY <1>1, <1>2, <1>3, <1>4, <2>1, <2>2, <2>3, <2>4, <2>5, ReaderStep
<1>9. CASE ~(~retired /\ bytes - lease[a].snapshot <= ReaderCap - budget)
  <2>. DEFINE x == [att[a] EXCEPT !.pc = "refused"]
  <2>1. x \in Atts /\ x.pc = "refused" /\ at_(x, att[a])
    BY <1>1, Goes DEF Where
  <2>2. att' = [att EXCEPT ![a] = x] /\ lease' = [lease EXCEPT ![a] = lease[a]]
    BY <1>5, <1>9, Alone DEF goes
  <2>. HIDE DEF x
  <2>3. Charged(x, sub[a], lease[a]) /\ Placing(journal.committed, x, sub[a])
    BY <1>2, <1>6, <2>1, OpeningIs DEF Placing, at_, g
  <2>. QED BY <1>1, <1>2, <1>3, <1>4, <2>1, <2>2, <2>3, ReaderStep
<1>. QED BY <1>8, <1>9

\* openStream finds the generation rotated or gone and gives the read back.
LEMMA OpenRefusedKeeps ==
  ASSUME ReadersInv, NEW a \in A, OpenRefused(a)
  PROVE  ReadersInv'
<1>1. /\ att[a] \in Atts /\ sub[a] \in Subs /\ lease[a] \in Leases /\ conn[a] \in Conns /\ journal \in Journals
      /\ att[a].pc = "refused"
  BY ReaderIs DEF OpenRefused
<1>2. /\ sub[a] = NoSub /\ lease[a].fixed = Fixed /\ ~lease[a].detached
      /\ lease[a].events = 0 /\ lease[a].catchUp = 0 /\ att[a].event = 0 /\ att[a].charge = 0
      /\ a <= page.generation
  BY <1>1, Opening
<1>3. /\ sub' = [sub EXCEPT ![a] = sub[a]]
      /\ page' \in Pages /\ page'.generation = page.generation /\ (page'.open => page.open)
      /\ Len(conn[a].wire) <= WireFrames
  BY Alone DEF OpenRefused
<1>4. journal' \in Journals /\ journal'.committed = journal.committed /\ Counted(journal')
  <2>1. 0 \in 0..Attachments /\ journal' = [journal EXCEPT !.lock = 0]
    BY ConstantsAre DEF OpenRefused
  <2>. QED BY <2>1, Locking
<1>. DEFINE l == releaseSnapshot(lease[a])
<1>5. lease' = [lease EXCEPT ![a] = l] /\ gives(l, lease[a], 0, 0, 0)
  BY <1>1, <1>2, SnapshotGiven DEF OpenRefused
<1>. HIDE DEF l
<1>6. /\ l \in Leases /\ l.events = 0 /\ l.catchUp = 0 /\ l.fixed = Fixed /\ ~l.detached /\ charged(l) <= charged(lease[a])
  BY <1>2, <1>5 DEF gives
<1>7. CASE journal.active # 0 /\ (journal.active # att[a].key \/ journal.rotation # "none")
  <2>. DEFINE x == [att[a] EXCEPT !.pc = "opening"]
  <2>1. x \in Atts /\ x.pc = "opening" /\ at_(x, att[a])
    BY <1>1, Goes DEF Where
  <2>2. att' = [att EXCEPT ![a] = x] /\ conn' = [conn EXCEPT ![a] = conn[a]]
    BY <1>7, Alone DEF goes, OpenRefused
  <2>. HIDE DEF x
  <2>3. Charged(x, sub[a], l) /\ Placing(journal.committed, x, sub[a])
    BY <1>2, <1>6, <2>1, OpeningIs DEF Placing, at_
  <2>. QED BY <1>1, <1>2, <1>3, <1>4, <1>5, <1>6, <2>1, <2>2, <2>3, ReaderStep
<1>8. CASE ~(journal.active # 0 /\ (journal.active # att[a].key \/ journal.rotation # "none"))
  <2>. DEFINE c == [conn[a] EXCEPT !.open = FALSE]
  <2>1. att' = [att EXCEPT ![a] = Stopped] /\ conn' = [conn EXCEPT ![a] = c]
    BY <1>8 DEF OpenRefused, OpenFails, stops, hangsUp
  <2>2. c \in Conns /\ Len(c.wire) <= WireFrames
    BY Hung
  <2>. HIDE DEF c
  <2>3. Charged(Stopped, sub[a], l) /\ Placing(journal.committed, Stopped, sub[a])
    BY <1>2, <1>6, StoppedIs, EndedIs DEF Placing
  <2>. QED BY <1>1, <1>2, <1>3, <1>4, <1>5, <1>6, <2>1, <2>2, <2>3, StoppedIs, ReaderStep
<1>. QED BY <1>7, <1>8

\* The frame of a PREPARE and the backlog after it.
LEMMA OpenedTypes ==
  ASSUME NEW a \in A, att[a] \in Atts, att[a].key \in Gen
  PROVE  /\ prepareFrame(a) \in Frame /\ frames(backlog(a)) \in Outs
         /\ <<prepareFrame(a)>> \o frames(backlog(a)) \in Outs
         /\ <<prepareFrame(a)>> \o frames(backlog(a)) # <<>>
         /\ prepareFrame(a).kind = "PREPARE"
<1>. DEFINE atoms == suffix(att[a].from, att[a].to)
            n == replayLength(atoms)
<1>1. att[a].from \in Cursor /\ att[a].to \in 0..LastRecord
  BY DEF Atts
<1>2. atoms \in Seq(Atom)
  BY <1>1, SuffixTypes
<1>. HIDE DEF atoms
<1>3. n \in 0..Len(atoms) /\ n <= ReplayUnits /\ Len(atoms) \in Nat
  BY <1>2, ReplayIs
<1>. DEFINE p == SubSeq(atoms, 1, n)
            c == IF n = 0 THEN att[a].from ELSE after(atoms[n])
            q == resumes(a)
            h == geometryAt(att[a].from.seq)
            S == Seq(Atom)
            f == prepareFrame(a)
<1>4. p \in S /\ Len(p) <= ReplayUnits
  <2>. HIDE DEF n
  <2>. QED BY <1>2, <1>3, Beginning
<1>5. c \in Cursor
  <2>1. CASE n = 0
    BY <1>1, <2>1
  <2>2. CASE n # 0
    <3>1. atoms[n] \in Atom
      <4>. HIDE DEF n
      <4>. QED BY <1>2, <1>3, <2>2
    <3>. QED BY <2>2, <3>1, AfterTypes
  <2>. QED BY <2>1, <2>2
<1>6. q \in BOOLEAN
  BY DEF resumes
<1>7. h \in 0..LastRecord
  <2>1. att[a].from.seq \in 0..LastRecord
    BY <1>1 DEF Cursor
  <2>. QED BY <2>1, GeometryIs
<1>8. att[a].key \in 0..Generations
  BY ConstantsAre DEF Gen
<1>9. f = [kind |-> "PREPARE", atoms |-> p, at |-> c, stream |-> att[a].key, resumed |-> q, geometry |-> h]
  BY DEF prepareFrame, atoms
<1>. HIDE DEF p, c, q, h, S, f
<1>10. f \in [kind : {"PREPARE", "COMMIT", "LIVE", "RESIZE", "END"}, atoms : S, at : Cursor,
             stream : 0..Generations, resumed : BOOLEAN, geometry : 0..LastRecord]
       /\ f.kind = "PREPARE" /\ f.atoms = p
  BY <1>4, <1>5, <1>6, <1>7, <1>8, <1>9
<1>11. f \in Frame
  BY <1>4, <1>10 DEF S, Frame, isFrame
<1>12. backlog(a) \in Seq(Atom)
  <2>1. backlog(a) = SubSeq(atoms, n + 1, Len(atoms))
    BY DEF backlog, atoms
  <2>. HIDE DEF n
  <2>2. SubSeq(atoms, n + 1, Len(atoms)) \in Seq(Atom)
    BY <1>2, <1>3, Ending
  <2>. QED BY <2>1, <2>2
<1>13. frames(backlog(a)) \in Seq(Frame)
  BY <1>12, FramesTypes
<1>14. <<f>> \o frames(backlog(a)) \in Seq(Frame) /\ <<f>> \o frames(backlog(a)) # <<>>
  <2>. DEFINE b == frames(backlog(a))
  <2>1. b \in Seq(Frame)
    BY <1>13
  <2>. HIDE DEF b
  <2>2. <<f>> \in Seq(Frame) /\ Len(<<f>>) = 1 /\ Len(b) \in Nat
    BY <1>11, <2>1
  <2>3. Len(<<f>> \o b) = 1 + Len(b) /\ <<f>> \o b \in Seq(Frame)
    BY <2>1, <2>2, ConcatProperties
  <2>4. <<f>> \o b # <<>>
    BY <2>2, <2>3
  <2>. QED BY <2>3, <2>4 DEF b
<1>. QED BY <1>10, <1>11, <1>13, <1>14 DEF f, Outs

\* What a new writer starts with.
LEMMA PreparingIs ==
  ASSUME NEW c \in Cursor, NEW q \in Outs
  PROVE  LET x == [Idle EXCEPT !.pc = "preparing", !.delivered = c, !.out = q]
         IN x \in Atts /\ x.pc = "preparing" /\ x.delivered = c /\ x.out = q /\ x.event = 0 /\ x.charge = 0
            /\ x.to = 0 /\ ~x.held /\ ~x.ready
<1>1. Idle \in Atts /\ Idle.event = 0 /\ Idle.charge = 0 /\ Idle.to = 0 /\ ~Idle.held /\ ~Idle.ready
  BY StoppedIs DEF Idle
<1>. QED BY <1>1 DEF Atts, Where

\* openStream registers the subscriber at the published head.
LEMMA OpenRegistersKeeps ==
  ASSUME ReadersInv, NEW a \in A, OpenRegisters(a)
  PROVE  ReadersInv'
<1>1. /\ att[a] \in Atts /\ sub[a] \in Subs /\ lease[a] \in Leases /\ conn[a] \in Conns /\ journal \in Journals
      /\ Placing(journal.committed, att[a], sub[a]) /\ Charged(att[a], sub[a], lease[a]) /\ att[a].pc = "holding"
  BY ReaderIs DEF OpenRegisters
<1>2. /\ sub[a] = NoSub /\ lease[a].fixed = Fixed /\ ~lease[a].detached
      /\ lease[a].events = 0 /\ lease[a].catchUp = 0 /\ att[a].event = 0 /\ att[a].charge = 0
      /\ a <= page.generation
  BY <1>1, Opening
<1>3. /\ UNCHANGED page /\ page' \in Pages /\ page'.generation = page.generation /\ (page'.open => page.open)
      /\ charged(lease[a]) <= charged(lease[a]) /\ Len(conn[a].wire) <= WireFrames
  BY Alone DEF OpenRegisters
<1>4. journal' \in Journals /\ journal'.committed = journal.committed /\ Counted(journal')
  <2>1. 0 \in 0..Attachments /\ journal' = [journal EXCEPT !.lock = 0]
    BY ConstantsAre DEF OpenRegisters
  <2>. QED BY <2>1, Locking
<1>. DEFINE l == releaseSnapshot(lease[a])
            g == att[a].key
            to == att[a].to
<1>5. gives(l, lease[a], 0, 0, 0)
  BY <1>1, <1>2, SnapshotGiven
<1>. HIDE DEF l
<1>6. /\ l \in Leases /\ l.events = 0 /\ l.catchUp = 0 /\ l.fixed = Fixed /\ ~l.detached /\ charged(l) <= charged(lease[a])
  BY <1>2, <1>5 DEF gives
<1>7. CASE journal.active # 0 /\ goes(a, "opening") /\ lease' = [lease EXCEPT ![a] = l] /\ UNCHANGED <<sub, conn>>
  <2>. DEFINE x == [att[a] EXCEPT !.pc = "opening"]
  <2>1. x \in Atts /\ x.pc = "opening" /\ at_(x, att[a])
    BY <1>1, Goes DEF Where
  <2>2. att' = [att EXCEPT ![a] = x] /\ conn' = [conn EXCEPT ![a] = conn[a]] /\ sub' = [sub EXCEPT ![a] = sub[a]]
        /\ lease' = [lease EXCEPT ![a] = l]
    BY <1>7, Alone DEF goes
  <2>. HIDE DEF x
  <2>3. Charged(x, sub[a], l) /\ Placing(journal.committed, x, sub[a])
    BY <1>2, <1>6, <2>1, OpeningIs DEF Placing, at_
  <2>. QED BY <1>1, <1>2, <1>3, <1>4, <1>5, <1>6, <2>1, <2>2, <2>3, ReaderStep
<1>8. CASE OpenFails(a) /\ lease' = [lease EXCEPT ![a] = l] /\ UNCHANGED sub
  <2>. DEFINE c == [conn[a] EXCEPT !.open = FALSE]
  <2>1. att' = [att EXCEPT ![a] = Stopped] /\ conn' = [conn EXCEPT ![a] = c] /\ sub' = [sub EXCEPT ![a] = sub[a]]
        /\ lease' = [lease EXCEPT ![a] = l]
    BY <1>8, Alone DEF OpenFails, stops, hangsUp
  <2>2. c \in Conns /\ Len(c.wire) <= WireFrames
    BY Hung
  <2>. HIDE DEF c
  <2>3. Charged(Stopped, sub[a], l) /\ Placing(journal.committed, Stopped, sub[a])
    BY <1>2, <1>6, StoppedIs, EndedIs DEF Placing
  <2>. QED BY <1>1, <1>2, <1>3, <1>4, <1>5, <1>6, <2>1, <2>2, <2>3, StoppedIs, ReaderStep
<1>9. CASE /\ sub' = [sub EXCEPT ![a] = [NoSub EXCEPT !.key = g, !.cursor = to, !.catchingUp = TRUE, !.registered = TRUE]]
           /\ att' = [att EXCEPT ![a] = [Idle EXCEPT !.pc = "preparing", !.delivered = cursor(to, endOf[to]),
                                                     !.out = <<prepareFrame(a)>> \o frames(backlog(a))]]
           /\ UNCHANGED <<lease, conn>>
  <2>. DEFINE c == cursor(to, endOf[to])
              q == <<prepareFrame(a)>> \o frames(backlog(a))
              x == [Idle EXCEPT !.pc = "preparing", !.delivered = c, !.out = q]
              s == [NoSub EXCEPT !.key = g, !.cursor = to, !.catchingUp = TRUE, !.registered = TRUE]
  <2>1. g \in Gen /\ to \in 0..LastRecord /\ to <= journal.committed[g] /\ g \in 0..Generations
    BY <1>1, ConstantsAre DEF Placing, Atts, Gen
  <2>2. q \in Outs /\ q # <<>>
    BY <1>1, <2>1, OpenedTypes
  <2>3. c \in Cursor /\ c.seq = to /\ c = cursor(c.seq, endOf[c.seq])
    <3>1. c = [seq |-> to, offset |-> endOf[to]] /\ endOf[to] \in 0..endOf[LastRecord]
      BY <2>1, Bounds DEF cursor
    <3>. QED BY <2>1, <3>1 DEF Cursor, cursor
  <2>4. s \in Subs /\ s.key = g /\ s.queue = <<>> /\ s.registered /\ s.verdict = "none"
    BY <2>1, StoppedIs DEF Subs, NoSub
  <2>. HIDE DEF c, q, s, g, to
  <2>5. x \in Atts /\ x.pc = "preparing" /\ x.delivered = c /\ x.out = q /\ x.event = 0 /\ x.charge = 0 /\ x.to = 0
    BY <2>2, <2>3, PreparingIs
  <2>6. sub' = [sub EXCEPT ![a] = s] /\ att' = [att EXCEPT ![a] = x] /\ lease' = [lease EXCEPT ![a] = lease[a]]
        /\ conn' = [conn EXCEPT ![a] = conn[a]]
    BY <1>9, Alone DEF s, c, q, g, to
  <2>. HIDE DEF x
  <2>7. Charged(x, s, lease[a])
    <3>1. lease[a].snapshot # 0 /\ queueBytes(s.queue) = 0 /\ Fixed # 0
      BY <1>1, <2>4, QueueBytes, ConstantsAre DEF Charged
    <3>. QED BY <1>2, <2>4, <2>5, <3>1 DEF Charged
  <2>8. Placing(journal.committed, x, s)
    <3>1. 0 <= journal.committed[g] /\ Len(s.queue) = 0
      BY <1>1, <2>1, <2>4 DEF Journals, Counts
    <3>. QED BY <2>1, <2>2, <2>3, <2>4, <2>5, <3>1 DEF Placing
  <2>. QED BY <1>1, <1>2, <1>3, <1>4, <2>4, <2>5, <2>6, <2>7, <2>8, ReaderStep
<1>. QED
  <2>1. \/ journal.active # 0 /\ goes(a, "opening") /\ lease' = [lease EXCEPT ![a] = l] /\ UNCHANGED <<sub, conn>>
        \/ OpenFails(a) /\ lease' = [lease EXCEPT ![a] = l] /\ UNCHANGED sub
        \/ /\ sub' = [sub EXCEPT ![a] = [NoSub EXCEPT !.key = g, !.cursor = to, !.catchingUp = TRUE, !.registered = TRUE]]
           /\ att' = [att EXCEPT ![a] = [Idle EXCEPT !.pc = "preparing", !.delivered = cursor(to, endOf[to]),
                                                     !.out = <<prepareFrame(a)>> \o frames(backlog(a))]]
           /\ UNCHANGED <<lease, conn>>
    BY DEF OpenRegisters, l
  <2>. QED BY <1>7, <1>8, <1>9, <2>1

\* Where a writer stands once it is registered.
Writing == {"preparing", "prepared", "backlog", "live", "event", "again", "round"}

\* A step of a writer, which leaves the journal and the page alone.
LEMMA WriterStep ==
  ASSUME ReadersInv, NEW a \in A, att[a].pc # "none",
         NEW x \in Atts, NEW s \in Subs, NEW l \in Leases, NEW c \in Conns,
         att' = [att EXCEPT ![a] = x], sub' = [sub EXCEPT ![a] = s],
         lease' = [lease EXCEPT ![a] = l], conn' = [conn EXCEPT ![a] = c],
         UNCHANGED <<journal, page>>,
         Charged(x, s, l), Placing(journal.committed, x, s), Len(c.wire) <= WireFrames,
         charged(l) <= charged(lease[a]) \/ charged(l) - charged(lease[a]) <= ReaderCap - budget
  PROVE  ReadersInv'
<1>1. a <= page.generation
  BY Begun
<1>2. UNCHANGED journal /\ UNCHANGED page
  OBVIOUS
<1>3. /\ page' \in Pages /\ page'.generation = page.generation /\ (page'.open => page.open)
      /\ journal' \in Journals /\ journal'.committed = journal.committed /\ Counted(journal')
  BY <1>2, Alone
<1>. QED BY <1>1, <1>3, ReaderStep

\* A writer that has moved on keeps its place.
LEMMA PlacedOn ==
  ASSUME NEW c, NEW x, NEW y, NEW s, Placing(c, x, s), x.pc \in Writing, y.pc \in Writing \ {"preparing"},
         y.delivered = x.delivered, y.to = x.to
  PROVE  Placing(c, y, s)
BY DEF Placing, Writing

\* A writer that has moved on is charged as before.
LEMMA ChargedOn ==
  ASSUME NEW x, NEW y, NEW s, NEW l, Charged(x, s, l), x.pc \in Writing,
         y.pc \in Writing \cup {"ending"}, y.event = x.event, y.charge = x.charge,
         y.event # 0 => y.pc = "event", y.charge # 0 => y.pc = "round",
         y.pc \in {"prepared", "backlog"} => x.pc \in {"preparing", "prepared", "backlog"},
         y.pc # "preparing",
         y.pc \in {"live", "again", "event", "round"} => x.pc \in {"live", "again", "event", "round"}
  PROVE  Charged(y, s, l)
BY DEF Charged, Writing

\* A writer that stays where it is, with another flag or fence.
LEMMA StillThere ==
  ASSUME NEW c, NEW x, NEW y, NEW s, NEW l, Charged(x, s, l), Placing(c, x, s), y.pc = x.pc, at_(y, x)
  PROVE  Charged(y, s, l) /\ Placing(c, y, s)
BY DEF Charged, Placing, at_

\* A frame that finds room on the wire.
LEMMA Sent ==
  ASSUME ReadersInv, NEW a \in A, NEW f \in Frame, room(a), NEW b \in BOOLEAN
  PROVE  /\ [conn[a] EXCEPT !.wire = Append(@, f)] \in Conns
         /\ Len([conn[a] EXCEPT !.wire = Append(@, f)].wire) <= WireFrames
         /\ [wire |-> Append(conn[a].wire, f), open |-> b] \in Conns
<1>1. conn[a] \in Conns /\ WireFrames \in Nat
  BY ReaderIs, ConstantsAre
<1>. DEFINE w == conn[a].wire
            q == Append(w, f)
<1>2. w \in Seq(Frame)
  BY <1>1 DEF Conns, Outs
<1>3. q \in Seq(Frame) /\ Len(w) \in Nat /\ Len(q) = Len(w) + 1
  <2>. HIDE DEF w
  <2>. QED BY <1>2, Appended
<1>4. Len(w) < WireFrames
  BY DEF room
<1>5. Len(q) <= WireFrames /\ q \in Outs
  BY <1>1, <1>3, <1>4 DEF Outs
<1>6. [conn[a] EXCEPT !.wire = Append(@, f)] = [conn[a] EXCEPT !.wire = q]
  OBVIOUS
<1>. HIDE DEF q
<1>7. [conn[a] EXCEPT !.wire = q] \in Conns /\ [conn[a] EXCEPT !.wire = q].wire = q
  BY <1>1, <1>5 DEF Conns
<1>8. [wire |-> q, open |-> b] \in Conns
  BY <1>5 DEF Conns
<1>. QED BY <1>5, <1>6, <1>7, <1>8 DEF q

\* The first frame still to be written, and those after it.
LEMMA FirstOut ==
  ASSUME NEW x \in Atts, x.out # <<>>
  PROVE  Head(x.out) \in Frame /\ Tail(x.out) \in Outs
<1>1. x.out \in Seq(Frame)
  BY DEF Atts, Outs
<1>2. Head(x.out) = x.out[1] /\ x.out[1] \in Frame /\ Tail(x.out) \in Seq(Frame)
  BY <1>1, HeadTail
<1>. QED BY <1>2 DEF Outs

\* The writer's turn that sends a frame and moves on.
LEMMA SendsKeeps ==
  ASSUME ReadersInv, NEW a \in A, att[a].pc \in Writing, NEW x \in Atts, NEW f \in Frame, room(a),
         att' = [att EXCEPT ![a] = x], sends(a, f), UNCHANGED <<journal, sub, lease, page>>,
         x.pc \in Writing \ {"preparing"}, x.delivered = att[a].delivered, x.to = att[a].to,
         x.event = att[a].event, x.charge = att[a].charge,
         x.event # 0 => x.pc = "event", x.charge # 0 => x.pc = "round",
         x.pc \in {"prepared", "backlog"} => att[a].pc \in {"preparing", "prepared", "backlog"},
         x.pc \in {"live", "again", "event", "round"} => att[a].pc \in {"live", "again", "event", "round"}
  PROVE  ReadersInv'
<1>1. /\ att[a] \in Atts /\ sub[a] \in Subs /\ lease[a] \in Leases /\ conn[a] \in Conns
      /\ Charged(att[a], sub[a], lease[a]) /\ Placing(journal.committed, att[a], sub[a])
  BY ReaderIs
<1>. DEFINE c == [conn[a] EXCEPT !.wire = Append(@, f)]
<1>2. c \in Conns /\ Len(c.wire) <= WireFrames
  BY Sent
<1>3. conn' = [conn EXCEPT ![a] = c] /\ sub' = [sub EXCEPT ![a] = sub[a]] /\ lease' = [lease EXCEPT ![a] = lease[a]]
      /\ charged(lease[a]) <= charged(lease[a])
  BY Alone DEF sends
<1>. HIDE DEF c
<1>4. Charged(x, sub[a], lease[a])
  BY <1>1, ChargedOn
<1>5. Placing(journal.committed, x, sub[a])
  BY <1>1, PlacedOn
<1>6. att[a].pc # "none"
  BY DEF Writing
<1>. QED BY <1>1, <1>2, <1>3, <1>4, <1>5, <1>6, WriterStep

\* A writer with nothing in hand is charged for nothing in hand.
LEMMA EmptyHanded ==
  ASSUME ReadersInv, NEW a \in A
  PROVE  /\ att[a].pc # "event" => att[a].event = 0
         /\ att[a].pc # "round" => att[a].charge = 0
BY ReaderIs DEF Charged

\* PREPARE written keeps the readers' invariant.
LEMMA PrepareWritesKeeps ==
  ASSUME ReadersInv, NEW a \in A, PrepareWrites(a)
  PROVE  ReadersInv'
<1>1. att[a] \in Atts /\ att[a].pc = "preparing" /\ att[a].out # <<>>
  BY ReaderIs DEF PrepareWrites, Placing
<1>. DEFINE x == [att[a] EXCEPT !.pc = "prepared", !.out = Tail(@)]
            f == Head(att[a].out)
<1>2. f \in Frame /\ Tail(att[a].out) \in Outs
  BY <1>1, FirstOut
<1>3. x \in Atts /\ x.pc = "prepared" /\ x.delivered = att[a].delivered /\ x.to = att[a].to
      /\ x.event = att[a].event /\ x.charge = att[a].charge
  BY <1>1, <1>2 DEF Atts, Where
<1>4. att' = [att EXCEPT ![a] = x] /\ sends(a, f) /\ UNCHANGED <<journal, sub, lease, page>> /\ room(a)
  BY DEF PrepareWrites
<1>5. att[a].event = 0 /\ att[a].charge = 0
  BY <1>1, EmptyHanded
<1>. HIDE DEF x, f
<1>. QED BY <1>1, <1>2, <1>3, <1>4, <1>5, SendsKeeps DEF Writing

\* COMMIT written keeps the readers' invariant.
LEMMA CommitWritesKeeps ==
  ASSUME ReadersInv, NEW a \in A, CommitWrites(a)
  PROVE  ReadersInv'
<1>1. att[a] \in Atts /\ att[a].pc = "prepared"
  BY ReaderIs DEF CommitWrites
<1>. DEFINE x == [att[a] EXCEPT !.pc = "backlog", !.held = FALSE]
            f == frame("COMMIT", <<>>, Origin)
<1>2. f \in Frame
  <2>1. Origin \in Cursor /\ <<>> \in Seq(Atom)
    BY Bounds DEF Origin, cursor, Cursor
  <2>. QED BY <2>1, FrameTypes
<1>3. x \in Atts /\ x.pc = "backlog" /\ x.delivered = att[a].delivered /\ x.to = att[a].to
      /\ x.event = att[a].event /\ x.charge = att[a].charge
  BY <1>1 DEF Atts, Where
<1>4. att' = [att EXCEPT ![a] = x] /\ sends(a, f) /\ UNCHANGED <<journal, sub, lease, page>> /\ room(a)
  BY DEF CommitWrites
<1>5. att[a].event = 0 /\ att[a].charge = 0
  BY <1>1, EmptyHanded
<1>. HIDE DEF x, f
<1>. QED BY <1>1, <1>2, <1>3, <1>4, <1>5, SendsKeeps DEF Writing

\* A frame of the backlog, an event or a round written keeps the readers' invariant.
LEMMA FrameWritesKeeps ==
  ASSUME ReadersInv, NEW a \in A, FrameWrites(a)
  PROVE  ReadersInv'
<1>1. att[a] \in Atts /\ att[a].pc \in {"backlog", "event", "round"} /\ att[a].out # <<>>
      /\ Charged(att[a], sub[a], lease[a])
  BY ReaderIs DEF FrameWrites
<1>. DEFINE h == (att[a].pc = "event" /\ Len(att[a].out) > 1)
            x == [att[a] EXCEPT !.out = Tail(@), !.held = h]
            f == Head(att[a].out)
<1>2. f \in Frame /\ Tail(att[a].out) \in Outs /\ h \in BOOLEAN
  BY <1>1, FirstOut
<1>4. att' = [att EXCEPT ![a] = x] /\ sends(a, f) /\ UNCHANGED <<journal, sub, lease, page>> /\ room(a)
  BY DEF FrameWrites
<1>. HIDE DEF h
<1>3. x \in Atts /\ x.pc = att[a].pc /\ x.delivered = att[a].delivered /\ x.to = att[a].to
      /\ x.event = att[a].event /\ x.charge = att[a].charge
  BY <1>1, <1>2 DEF Atts
<1>5. (att[a].event # 0 => att[a].pc = "event") /\ (att[a].charge # 0 => att[a].pc = "round")
  BY <1>1 DEF Charged
<1>. HIDE DEF x, f
<1>. QED BY <1>1, <1>2, <1>3, <1>4, <1>5, SendsKeeps DEF Writing

\* A writer that only notes something: a write it holds, a fence, the end of its loop.
LEMMA NotesKeeps ==
  ASSUME ReadersInv, NEW a \in A, att[a].pc # "none", NEW x \in Atts, NEW c \in Conns,
         att' = [att EXCEPT ![a] = x], conn' = [conn EXCEPT ![a] = c], Len(c.wire) <= WireFrames,
         x.pc = att[a].pc, at_(x, att[a]), UNCHANGED <<journal, sub, lease, page>>
  PROVE  ReadersInv'
<1>1. /\ sub[a] \in Subs /\ lease[a] \in Leases
      /\ Charged(att[a], sub[a], lease[a]) /\ Placing(journal.committed, att[a], sub[a])
  BY ReaderIs
<1>2. sub' = [sub EXCEPT ![a] = sub[a]] /\ lease' = [lease EXCEPT ![a] = lease[a]]
      /\ charged(lease[a]) <= charged(lease[a])
  BY Alone
<1>3. Charged(x, sub[a], lease[a]) /\ Placing(journal.committed, x, sub[a])
  BY <1>1, StillThere
<1>. QED BY <1>1, <1>2, <1>3, WriterStep

\* A write that waits for room keeps the readers' invariant.
LEMMA WriteParksKeeps ==
  ASSUME ReadersInv, NEW a \in A, WriteParks(a)
  PROVE  ReadersInv'
<1>. DEFINE x == [att[a] EXCEPT !.held = TRUE]
<1>1. att[a] \in Atts /\ conn[a] \in Conns /\ att[a].pc # "none" /\ Len(conn[a].wire) <= WireFrames
  BY ReaderIs DEF WriteParks
<1>2. x \in Atts /\ x.pc = att[a].pc /\ at_(x, att[a])
  BY <1>1 DEF Atts, at_
<1>3. att' = [att EXCEPT ![a] = x] /\ UNCHANGED <<journal, sub, lease, page>> /\ conn' = [conn EXCEPT ![a] = conn[a]]
  BY Alone DEF WriteParks
<1>. HIDE DEF x
<1>. QED BY <1>1, <1>2, <1>3, NotesKeeps

\* An open fence is settled.
LEMMA SettleResizeKeeps ==
  ASSUME ReadersInv, NEW a \in A, SettleResize(a)
  PROVE  ReadersInv'
<1>1. att[a] \in Atts /\ conn[a] \in Conns /\ att[a].pc # "none" /\ Len(conn[a].wire) <= WireFrames
  BY ReaderIs DEF SettleResize, muFree
<1>2. ASSUME NEW f \in Fences
      PROVE  LET x == [att[a] EXCEPT !.fence = f] IN x \in Atts /\ x.pc = att[a].pc /\ at_(x, att[a])
  BY <1>1 DEF Atts, at_
<1>3. CASE att' = [att EXCEPT ![a].fence = "ok"] /\ UNCHANGED conn
  <2>. DEFINE x == [att[a] EXCEPT !.fence = "ok"]
  <2>1. x \in Atts /\ x.pc = att[a].pc /\ at_(x, att[a])
    BY <1>2 DEF Fences
  <2>2. att' = [att EXCEPT ![a] = x] /\ conn' = [conn EXCEPT ![a] = conn[a]]
    BY <1>3, Alone
  <2>. HIDE DEF x
  <2>. QED BY <1>1, <2>1, <2>2, NotesKeeps DEF SettleResize
<1>4. CASE att' = [att EXCEPT ![a].fence = "failed"] /\ hangsUp(a)
  <2>. DEFINE x == [att[a] EXCEPT !.fence = "failed"]
              c == [conn[a] EXCEPT !.open = FALSE]
  <2>1. x \in Atts /\ x.pc = att[a].pc /\ at_(x, att[a])
    BY <1>2 DEF Fences
  <2>2. att' = [att EXCEPT ![a] = x] /\ conn' = [conn EXCEPT ![a] = c]
    BY <1>4 DEF hangsUp
  <2>3. c \in Conns /\ Len(c.wire) <= WireFrames
    BY Hung
  <2>. HIDE DEF x, c
  <2>. QED BY <1>1, <2>1, <2>2, <2>3, NotesKeeps DEF SettleResize
<1>. QED BY <1>3, <1>4 DEF SettleResize

\* The grace after a verdict closes a connection.
LEMMA GraceEndsKeeps ==
  ASSUME ReadersInv, NEW a \in A, GraceEnds(a)
  PROVE  ReadersInv'
<1>. DEFINE c == [conn[a] EXCEPT !.open = FALSE]
<1>1. att[a] \in Atts /\ c \in Conns /\ Len(c.wire) <= WireFrames
  BY ReaderIs, Hung
<1>2. att[a].pc # "none"
  <2>1. sub[a] # NoSub
    BY DEF GraceEnds, verdict, NoSub
  <2>. QED BY <2>1, ReaderIs DEF Charged
<1>3. att' = [att EXCEPT ![a] = att[a]] /\ conn' = [conn EXCEPT ![a] = c] /\ UNCHANGED <<journal, sub, lease, page>>
  BY Alone DEF GraceEnds, hangsUp
<1>4. at_(att[a], att[a])
  BY DEF at_
<1>. HIDE DEF c
<1>. QED BY <1>1, <1>2, <1>3, <1>4, NotesKeeps

\* What a writer that is not writing an event or a round gives back when it is cancelled.
LEMMA CancelGives ==
  ASSUME ReadersInv, NEW a \in A, att[a].pc \notin {"event", "round"}
  PROVE  LET l == detach(releaseSnapshot(drained(lease[a], sub[a])))
         IN l \in Leases /\ l.events = 0 /\ l.catchUp = 0 /\ charged(l) <= charged(lease[a])
<1>1. /\ att[a] \in Atts /\ sub[a] \in Subs /\ lease[a] \in Leases /\ Charged(att[a], sub[a], lease[a])
      /\ charged(lease[a]) \in Nat
  BY ReaderIs
<1>. DEFINE l1 == drained(lease[a], sub[a])
            l2 == releaseSnapshot(l1)
            b == queueBytes(sub[a].queue)
<1>2. att[a].event = 0 /\ att[a].charge = 0
  BY EmptyHanded
<1>3. lease[a].catchUp = 0 /\ (~sub[a].registered => sub[a].queue = <<>>) /\ b \in Nat /\ lease[a].events = b + 0
  <2>1. b \in Nat
    BY <1>1, QueueBytes DEF Subs, Queues
  <2>. HIDE DEF b
  <2>2. lease[a].events = b + 0
    BY <1>1, <1>2 DEF Charged, b
  <2>. QED BY <1>1, <1>2, <2>1, <2>2 DEF Charged
<1>4. gives(l1, lease[a], lease[a].snapshot, lease[a].events - b, lease[a].catchUp)
  BY <1>1, <1>3, DrainedGiven
<1>. HIDE DEF l1, b
<1>5. l1 \in Leases /\ l1.events = 0 /\ l1.catchUp = 0 /\ charged(l1) <= charged(lease[a]) /\ charged(l1) \in Nat
  BY <1>3, <1>4, ChargedIs DEF gives
<1>6. gives(l2, l1, 0, l1.events, l1.catchUp)
  BY <1>5, SnapshotGiven
<1>. HIDE DEF l2
<1>7. l2 \in Leases /\ l2.events = 0 /\ l2.catchUp = 0 /\ charged(l2) <= charged(l1) /\ charged(l2) \in Nat
  BY <1>5, <1>6, ChargedIs DEF gives
<1>8. /\ detach(l2) \in Leases /\ charged(detach(l2)) <= charged(l2)
      /\ detach(l2).events = l2.events /\ detach(l2).catchUp = l2.catchUp
  BY <1>7, Detached
<1>9. charged(detach(l2)) \in Nat
  BY <1>8, ChargedIs
<1>. QED BY <1>1, <1>5, <1>7, <1>8, <1>9 DEF l2, l1

\* A writer that is cancelled and stops keeps the readers' invariant.
LEMMA CancelKeeps ==
  ASSUME ReadersInv, NEW a \in A, att[a].pc \notin {"none", "event", "round"}, NEW c \in Conns,
         Len(c.wire) <= WireFrames, conn' = [conn EXCEPT ![a] = c], stops(a), cancels(a),
         UNCHANGED <<journal, page>>
  PROVE  ReadersInv'
<1>. DEFINE l == detach(releaseSnapshot(drained(lease[a], sub[a])))
<1>1. l \in Leases /\ l.events = 0 /\ l.catchUp = 0 /\ charged(l) <= charged(lease[a])
  BY CancelGives
<1>2. att' = [att EXCEPT ![a] = Stopped] /\ sub' = [sub EXCEPT ![a] = NoSub] /\ lease' = [lease EXCEPT ![a] = l]
  BY DEF stops, cancels
<1>. HIDE DEF l
<1>3. Charged(Stopped, NoSub, l) /\ Placing(journal.committed, Stopped, NoSub)
  BY <1>1, StoppedIs, EndedIs DEF Placing
<1>. QED BY <1>1, <1>2, <1>3, StoppedIs, WriterStep

\* A write that fails keeps the readers' invariant.
LEMMA WriteFailsKeeps ==
  ASSUME ReadersInv, NEW a \in A, WriteFails(a)
  PROVE  ReadersInv'
<1>1. conn[a] \in Conns /\ Len(conn[a].wire) <= WireFrames /\ conn' = [conn EXCEPT ![a] = conn[a]]
  BY ReaderIs, Alone DEF WriteFails
<1>2. att[a].pc \notin {"none", "event", "round"} /\ stops(a) /\ cancels(a) /\ UNCHANGED <<journal, page>>
  BY DEF WriteFails
<1>. QED BY <1>1, <1>2, CancelKeeps

\* A closed tail without a verdict keeps the readers' invariant.
LEMMA TailStopsKeeps ==
  ASSUME ReadersInv, NEW a \in A, TailStops(a)
  PROVE  ReadersInv'
<1>1. conn[a] \in Conns /\ Len(conn[a].wire) <= WireFrames /\ conn' = [conn EXCEPT ![a] = conn[a]]
  BY ReaderIs, Alone DEF TailStops
<1>2. att[a].pc \notin {"none", "event", "round"} /\ stops(a) /\ cancels(a) /\ UNCHANGED <<journal, page>>
  BY DEF TailStops
<1>. QED BY <1>1, <1>2, CancelKeeps

\* The reason told in-band keeps the readers' invariant.
LEMMA TerminatesKeeps ==
  ASSUME ReadersInv, NEW a \in A, Terminates(a)
  PROVE  ReadersInv'
<1>1. conn[a] \in Conns /\ Len(conn[a].wire) <= WireFrames
  BY ReaderIs
<1>2. att[a].pc \notin {"none", "event", "round"} /\ stops(a) /\ cancels(a) /\ UNCHANGED <<journal, page>>
  BY DEF Terminates
<1>3. CASE UNCHANGED conn
  <2>1. conn' = [conn EXCEPT ![a] = conn[a]]
    BY <1>3, Alone
  <2>. QED BY <1>1, <1>2, <2>1, CancelKeeps
<1>4. CASE room(a) /\ conn' = [conn EXCEPT ![a] = [wire |-> Append(@.wire, frame("END", <<>>, Origin)), open |-> FALSE]]
  <2>. DEFINE f == frame("END", <<>>, Origin)
              c == [wire |-> Append(conn[a].wire, f), open |-> FALSE]
  <2>1. f \in Frame
    <3>1. Origin \in Cursor /\ <<>> \in Seq(Atom)
      BY Bounds DEF Origin, cursor, Cursor
    <3>. QED BY <3>1, FrameTypes
  <2>. HIDE DEF f
  <2>2. c \in Conns /\ Len([conn[a] EXCEPT !.wire = Append(@, f)].wire) <= WireFrames
    BY <1>4, <2>1, Sent
  <2>3. [conn[a] EXCEPT !.wire = Append(@, f)].wire = c.wire
    BY <1>1 DEF Conns
  <2>4. conn' = [conn EXCEPT ![a] = c]
    BY <1>4 DEF f
  <2>. HIDE DEF c
  <2>. QED BY <1>2, <2>2, <2>3, <2>4, CancelKeeps
<1>. QED BY <1>3, <1>4 DEF Terminates

\* The end of the backlog keeps the readers' invariant.
LEMMA BacklogEndsKeeps ==
  ASSUME ReadersInv, NEW a \in A, BacklogEnds(a)
  PROVE  ReadersInv'
<1>1. /\ att[a] \in Atts /\ sub[a] \in Subs /\ lease[a] \in Leases /\ conn[a] \in Conns
      /\ Charged(att[a], sub[a], lease[a]) /\ Placing(journal.committed, att[a], sub[a])
      /\ Len(conn[a].wire) <= WireFrames /\ att[a].pc = "backlog"
  BY ReaderIs DEF BacklogEnds
<1>. DEFINE x == [att[a] EXCEPT !.pc = "live"]
            l == releaseSnapshot(lease[a])
<1>2. x \in Atts /\ x.pc = "live" /\ at_(x, att[a])
  BY <1>1, Goes DEF Where
<1>3. gives(l, lease[a], 0, lease[a].events, lease[a].catchUp)
  BY <1>1, SnapshotGiven
<1>4. att' = [att EXCEPT ![a] = x] /\ lease' = [lease EXCEPT ![a] = l] /\ UNCHANGED <<journal, page>>
      /\ sub' = [sub EXCEPT ![a] = sub[a]] /\ conn' = [conn EXCEPT ![a] = conn[a]]
  BY Alone DEF BacklogEnds, goes
<1>. HIDE DEF x, l
<1>5. Charged(x, sub[a], l)
  <2>1. x.event = 0 /\ x.charge = 0 /\ att[a].event = 0 /\ att[a].charge = 0
    BY <1>1, <1>2, EmptyHanded DEF at_
  <2>. QED BY <1>1, <1>2, <1>3, <2>1 DEF Charged, gives
<1>6. Placing(journal.committed, x, sub[a])
  BY <1>1, <1>2, PlacedOn DEF Writing, at_
<1>7. l \in Leases /\ charged(l) <= charged(lease[a])
  BY <1>3 DEF gives
<1>. QED BY <1>1, <1>2, <1>4, <1>5, <1>6, <1>7, WriterStep

\* What is left of a lease once the event or the round in hand is settled.
LEMMA HandGives ==
  ASSUME ReadersInv, NEW a \in A
  PROVE  gives(handSettled(a), lease[a], lease[a].snapshot, queueBytes(sub[a].queue), 0)
         /\ queueBytes(sub[a].queue) \in Nat
<1>1. /\ att[a] \in Atts /\ sub[a] \in Subs /\ lease[a] \in Leases /\ Charged(att[a], sub[a], lease[a])
      /\ charged(lease[a]) \in Nat
  BY ReaderIs
<1>. DEFINE h == handBytes(a)
            b == queueBytes(sub[a].queue)
            l1 == releaseEvent(lease[a], h)
<1>2. b \in Nat
  BY <1>1, QueueBytes DEF Subs, Queues
<1>3. h \in Nat
  <2>1. att[a].event \in 0..LastRecord
    BY <1>1 DEF Atts
  <2>2. att[a].event # 0 => att[a].event \in 1..LastRecord
    BY <2>1, ConstantsAre
  <2>. QED BY <2>2, EventBytes DEF handBytes
<1>4. lease[a].events = b + h
  BY <1>1 DEF Charged, handBytes
<1>. HIDE DEF h, b
<1>5. gives(l1, lease[a], lease[a].snapshot, lease[a].events - h, lease[a].catchUp)
  BY <1>1, <1>2, <1>3, <1>4, EventGiven
<1>. HIDE DEF l1
<1>6. l1 \in Leases /\ charged(l1) \in Nat
  BY <1>5, ChargedIs DEF gives
<1>7. gives(releaseCatchUp(l1), l1, l1.snapshot, l1.events, 0)
  BY <1>6, CatchUpGiven
<1>8. handSettled(a) = releaseCatchUp(l1)
  BY DEF handSettled, l1, h
<1>9. charged(releaseCatchUp(l1)) \in Nat
  BY <1>7, ChargedIs DEF gives
<1>10. gives(handSettled(a), lease[a], lease[a].snapshot, b, 0)
  BY <1>1, <1>2, <1>3, <1>4, <1>5, <1>6, <1>7, <1>8, <1>9 DEF gives
<1>. QED BY <1>2, <1>10 DEF b

\* An event or a round written to its end keeps the readers' invariant.
LEMMA HandEndsKeeps ==
  ASSUME ReadersInv, NEW a \in A, HandEnds(a)
  PROVE  ReadersInv'
<1>1. /\ att[a] \in Atts /\ sub[a] \in Subs /\ lease[a] \in Leases /\ conn[a] \in Conns
      /\ Charged(att[a], sub[a], lease[a]) /\ Placing(journal.committed, att[a], sub[a])
      /\ Len(conn[a].wire) <= WireFrames /\ att[a].pc \in {"event", "round"} /\ journal \in Journals
  BY ReaderIs DEF HandEnds
<1>. DEFINE p == IF att[a].pc = "event" THEN "live" ELSE "again"
            to == att[a].to
            d == cursor(to, endOf[to])
            x == [att[a] EXCEPT !.pc = p, !.delivered = d, !.to = 0, !.event = 0, !.charge = 0]
            l == handSettled(a)
<1>2. att' = [att EXCEPT ![a] = x] /\ lease' = [lease EXCEPT ![a] = l] /\ UNCHANGED <<journal, page>>
      /\ sub' = [sub EXCEPT ![a] = sub[a]] /\ conn' = [conn EXCEPT ![a] = conn[a]]
  BY <1>1, Alone DEF HandEnds
<1>3. gives(l, lease[a], lease[a].snapshot, queueBytes(sub[a].queue), 0) /\ queueBytes(sub[a].queue) \in Nat
  BY HandGives
<1>4. to \in 0..LastRecord /\ to <= journal.committed[sub[a].key] /\ sub[a].key \in Gen
  BY <1>1 DEF Atts, Placing
<1>5. d \in Cursor /\ d.seq = to /\ d = cursor(d.seq, endOf[d.seq])
  <2>1. d = [seq |-> to, offset |-> endOf[to]] /\ endOf[to] \in 0..endOf[LastRecord]
    BY <1>4, Bounds DEF cursor
  <2>. QED BY <1>4, <2>1 DEF Cursor, cursor
<1>6. p \in {"live", "again"} /\ p \in Where
  BY DEF Where
<1>. HIDE DEF p, d, l
<1>7. x \in Atts /\ x.pc = p /\ x.delivered = d /\ x.to = 0 /\ x.event = 0 /\ x.charge = 0
  <2>1. 0 \in 0..LastRecord /\ 0 \in Nat
    BY ConstantsAre
  <2>. HIDE DEF to
  <2>. QED BY <1>1, <1>5, <1>6, <2>1 DEF Atts
<1>. HIDE DEF x
<1>8. Charged(x, sub[a], l)
  BY <1>1, <1>3, <1>6, <1>7 DEF Charged, gives
<1>9. Placing(journal.committed, x, sub[a])
  <2>1. 0 <= journal.committed[sub[a].key]
    BY <1>1, <1>4 DEF Journals, Counts
  <2>2. \A i \in 1..Len(sub[a].queue) : sub[a].queue[i] <= journal.committed[sub[a].key]
    BY <1>1 DEF Placing
  <2>. QED BY <1>4, <1>5, <1>6, <1>7, <2>1, <2>2 DEF Placing
<1>10. l \in Leases /\ charged(l) <= charged(lease[a])
  BY <1>3 DEF gives
<1>. QED BY <1>1, <1>2, <1>7, <1>8, <1>9, <1>10, WriterStep

\* A writer that has seen a verdict.
LEMMA EndingIs ==
  ASSUME ReadersInv, NEW a \in A
  PROVE  LET x == [Idle EXCEPT !.pc = "ending", !.closing = TRUE, !.fence = att[a].fence]
         IN x \in Atts /\ x.pc = "ending" /\ x.event = 0 /\ x.charge = 0
<1>1. att[a].fence \in Fences
  BY ReaderIs DEF Atts
<1>2. [Idle EXCEPT !.pc = "ending", !.closing = TRUE, !.fence = att[a].fence] \in Atts
  BY <1>1, StoppedIs
<1>. QED BY <1>2 DEF Idle

\* A write that a verdict or an end refuses keeps the readers' invariant.
LEMMA HandFailsKeeps ==
  ASSUME ReadersInv, NEW a \in A, HandFails(a)
  PROVE  ReadersInv'
<1>1. /\ att[a] \in Atts /\ sub[a] \in Subs /\ lease[a] \in Leases /\ conn[a] \in Conns
      /\ Charged(att[a], sub[a], lease[a]) /\ charged(lease[a]) \in Nat
      /\ Len(conn[a].wire) <= WireFrames /\ att[a].pc \in {"event", "round"}
  BY ReaderIs DEF HandFails
<1>2. UNCHANGED <<journal, page>> /\ conn' = [conn EXCEPT ![a] = conn[a]]
  BY Alone DEF HandFails
<1>. DEFINE l == handSettled(a)
            b == queueBytes(sub[a].queue)
<1>3. gives(l, lease[a], lease[a].snapshot, b, 0) /\ b \in Nat
  BY HandGives
<1>4. CASE verdict(a) # "none"
  <2>. DEFINE x == [Idle EXCEPT !.pc = "ending", !.closing = TRUE, !.fence = att[a].fence]
  <2>1. x \in Atts /\ x.pc = "ending" /\ x.event = 0 /\ x.charge = 0
    BY EndingIs
  <2>2. att' = [att EXCEPT ![a] = x] /\ lease' = [lease EXCEPT ![a] = l] /\ sub' = [sub EXCEPT ![a] = sub[a]]
    BY <1>4, Alone DEF HandFails
  <2>. HIDE DEF x, l, b
  <2>3. Charged(x, sub[a], l)
    BY <1>1, <1>3, <2>1 DEF Charged, gives, b
  <2>4. Placing(journal.committed, x, sub[a])
    BY <2>1 DEF Placing
  <2>5. l \in Leases /\ charged(l) <= charged(lease[a])
    BY <1>3 DEF gives
  <2>. QED BY <1>1, <1>2, <2>1, <2>2, <2>3, <2>4, <2>5, WriterStep
<1>5. CASE verdict(a) = "none"
  <2>. DEFINE l1 == drained(l, sub[a])
              l2 == detach(l1)
  <2>1. att' = [att EXCEPT ![a] = Stopped] /\ lease' = [lease EXCEPT ![a] = l2] /\ sub' = [sub EXCEPT ![a] = NoSub]
    BY <1>5 DEF HandFails, stops
  <2>. HIDE DEF l
  <2>2. l \in Leases /\ charged(l) <= charged(lease[a]) /\ l.events = b /\ l.catchUp = 0 /\ charged(l) \in Nat
    BY <1>3, ChargedIs DEF gives
  <2>3. gives(l1, l, l.snapshot, l.events - b, l.catchUp)
    <3>1. ~sub[a].registered => sub[a].queue = <<>>
      BY <1>1 DEF Charged
    <3>2. queueBytes(sub[a].queue) <= l.events
      BY <1>3, <2>2
    <3>. QED BY <1>1, <2>2, <3>1, <3>2, DrainedGiven
  <2>. HIDE DEF l1, b
  <2>4. l1 \in Leases /\ l1.events = 0 /\ l1.catchUp = 0 /\ charged(l1) <= charged(l) /\ charged(l1) \in Nat
    BY <1>3, <2>2, <2>3, ChargedIs DEF gives
  <2>5. l2 \in Leases /\ l2.events = 0 /\ l2.catchUp = 0 /\ charged(l2) <= charged(l1)
    BY <2>4, Detached
  <2>. HIDE DEF l2
  <2>6. charged(l2) <= charged(lease[a])
    BY <1>1, <2>2, <2>4, <2>5, ChargedIs
  <2>7. Charged(Stopped, NoSub, l2) /\ Placing(journal.committed, Stopped, NoSub)
    BY <2>5, StoppedIs, EndedIs DEF Placing
  <2>. QED BY <1>1, <1>2, <2>1, <2>5, <2>6, <2>7, StoppedIs, WriterStep
<1>. QED BY <1>4, <1>5

\* A verdict seen keeps the readers' invariant.
LEMMA SeesVerdictKeeps ==
  ASSUME ReadersInv, NEW a \in A, SeesVerdict(a)
  PROVE  ReadersInv'
<1>1. /\ att[a] \in Atts /\ sub[a] \in Subs /\ lease[a] \in Leases /\ conn[a] \in Conns
      /\ Charged(att[a], sub[a], lease[a]) /\ charged(lease[a]) <= charged(lease[a])
      /\ Len(conn[a].wire) <= WireFrames /\ att[a].pc \in {"live", "prepared", "backlog"}
  BY ReaderIs, Alone DEF SeesVerdict
<1>. DEFINE x == [Idle EXCEPT !.pc = "ending", !.closing = TRUE, !.fence = att[a].fence]
<1>2. x \in Atts /\ x.pc = "ending" /\ x.event = 0 /\ x.charge = 0
  BY EndingIs
<1>3. att' = [att EXCEPT ![a] = x] /\ lease' = [lease EXCEPT ![a] = lease[a]] /\ sub' = [sub EXCEPT ![a] = sub[a]]
      /\ conn' = [conn EXCEPT ![a] = conn[a]] /\ UNCHANGED <<journal, page>>
  BY Alone DEF SeesVerdict
<1>. HIDE DEF x
<1>4. att[a].event = 0 /\ att[a].charge = 0
  BY <1>1, EmptyHanded
<1>5. Charged(x, sub[a], lease[a])
  BY <1>1, <1>2, <1>4, ChargedOn DEF Writing
<1>6. Placing(journal.committed, x, sub[a])
  BY <1>2 DEF Placing
<1>. QED BY <1>1, <1>2, <1>3, <1>5, <1>6, WriterStep

\* A writer that only goes on to its tail or to a round of catch-up.
LEMMA GoesOnKeeps ==
  ASSUME ReadersInv, NEW a \in A, att[a].pc \in {"live", "again"}, NEW p \in {"live", "again"}, goes(a, p),
         NEW s \in Subs, sub' = [sub EXCEPT ![a] = s], s.key = sub[a].key, s.queue = sub[a].queue,
         s.registered = sub[a].registered, UNCHANGED <<journal, lease, conn, page>>
  PROVE  ReadersInv'
<1>1. /\ att[a] \in Atts /\ sub[a] \in Subs /\ lease[a] \in Leases /\ conn[a] \in Conns
      /\ Charged(att[a], sub[a], lease[a]) /\ Placing(journal.committed, att[a], sub[a])
      /\ Len(conn[a].wire) <= WireFrames
  BY ReaderIs
<1>. DEFINE x == [att[a] EXCEPT !.pc = p]
<1>2. x \in Atts /\ x.pc = p /\ at_(x, att[a])
  <2>1. p \in Where
    BY DEF Where
  <2>. QED BY <1>1, <2>1, Goes
<1>3. att' = [att EXCEPT ![a] = x] /\ lease' = [lease EXCEPT ![a] = lease[a]] /\ UNCHANGED <<journal, page>>
      /\ conn' = [conn EXCEPT ![a] = conn[a]] /\ charged(lease[a]) <= charged(lease[a])
  BY Alone DEF goes
<1>. HIDE DEF x
<1>4. att[a].event = 0 /\ att[a].charge = 0
  BY EmptyHanded
<1>5. Charged(x, s, lease[a])
  BY <1>1, <1>2, <1>4 DEF Charged, at_
<1>6. Placing(journal.committed, x, s)
  BY <1>1, <1>2 DEF Placing, at_
<1>. QED BY <1>1, <1>2, <1>3, <1>5, <1>6, WriterStep

\* Going to catch up keeps the readers' invariant.
LEMMA TailCatchesUpKeeps ==
  ASSUME ReadersInv, NEW a \in A, TailCatchesUp(a)
  PROVE  ReadersInv'
<1>1. sub[a] \in Subs /\ sub' = [sub EXCEPT ![a] = sub[a]]
  BY ReaderIs, Alone DEF TailCatchesUp
<1>. QED BY <1>1, GoesOnKeeps DEF TailCatchesUp

\* A catch-up that finds nothing and nobody keeps the readers' invariant.
LEMMA CatchUpEndsKeeps ==
  ASSUME ReadersInv, NEW a \in A, CatchUpEnds(a)
  PROVE  ReadersInv'
<1>1. sub[a] \in Subs /\ sub' = [sub EXCEPT ![a] = sub[a]]
  BY ReaderIs, Alone DEF CatchUpEnds
<1>. QED BY <1>1, GoesOnKeeps DEF CatchUpEnds

\* Rejoining the queue keeps the readers' invariant.
LEMMA RejoinsKeeps ==
  ASSUME ReadersInv, NEW a \in A, Rejoins(a)
  PROVE  ReadersInv'
<1>. DEFINE n == att[a].delivered.seq
            s == [sub[a] EXCEPT !.cursor = n, !.catchingUp = FALSE]
<1>1. sub[a] \in Subs /\ n \in 0..LastRecord
  BY ReaderIs DEF Atts, Cursor
<1>2. sub' = [sub EXCEPT ![a] = s]
  BY DEF Rejoins
<1>. HIDE DEF n
<1>3. s \in Subs /\ s.key = sub[a].key /\ s.queue = sub[a].queue /\ s.registered = sub[a].registered
  BY <1>1 DEF Subs
<1>. HIDE DEF s
<1>. QED BY <1>2, <1>3, GoesOnKeeps DEF Rejoins

\* An event taken from the queue keeps the readers' invariant.
LEMMA TailTakesKeeps ==
  ASSUME ReadersInv, NEW a \in A, TailTakes(a)
  PROVE  ReadersInv'
<1>1. /\ att[a] \in Atts /\ sub[a] \in Subs /\ lease[a] \in Leases /\ conn[a] \in Conns
      /\ Charged(att[a], sub[a], lease[a]) /\ Placing(journal.committed, att[a], sub[a])
      /\ Len(conn[a].wire) <= WireFrames /\ att[a].pc = "live" /\ charged(lease[a]) <= charged(lease[a])
  BY ReaderIs, Alone DEF TailTakes
<1>. DEFINE q == sub[a].queue
            e == Head(q)
            o == frames(atomsOf(e))
            t == Tail(q)
            x == [att[a] EXCEPT !.pc = "event", !.event = e, !.to = e, !.out = o]
            s == [sub[a] EXCEPT !.queue = t]
<1>2. q \in Seq(1..LastRecord) /\ q # <<>>
  BY <1>1 DEF Subs, Queues, TailTakes
<1>3. /\ e = q[1] /\ e \in 1..LastRecord /\ t \in Seq(1..LastRecord) /\ Len(q) \in Nat /\ Len(q) >= 1
      /\ Len(t) = Len(q) - 1 /\ \A i \in 1..(Len(q) - 1) : t[i] = q[i + 1]
  <2>. HIDE DEF q
  <2>. QED BY <1>2, HeadTail
<1>4. queueBytes(q) = eventBytes[e] + queueBytes(t) /\ queueBytes(t) \in Nat /\ eventBytes[e] \in Nat
  <2>. HIDE DEF q
  <2>. QED BY <1>2, <1>3, QueueBytes, EventBytes
<1>5. o \in Outs
  <2>1. atomsOf(e) \in Seq(Atom)
    BY <1>3, AtomsAre
  <2>. QED BY <2>1, FramesTypes DEF Outs
<1>6. att' = [att EXCEPT ![a] = x] /\ lease' = [lease EXCEPT ![a] = lease[a]] /\ UNCHANGED <<journal, page>>
      /\ conn' = [conn EXCEPT ![a] = conn[a]] /\ sub' = [sub EXCEPT ![a] = s]
  BY Alone DEF TailTakes
<1>7. q = sub[a].queue
  OBVIOUS
<1>. HIDE DEF q, e, o, t
<1>8. x \in Atts /\ x.pc = "event" /\ x.event = e /\ x.to = e /\ x.delivered = att[a].delivered
      /\ x.charge = att[a].charge
  <2>1. e \in 0..LastRecord /\ "event" \in Where
    BY <1>3, ConstantsAre DEF Where
  <2>. QED BY <1>1, <1>5, <2>1 DEF Atts
<1>9. s \in Subs /\ s.queue = t /\ s.key = sub[a].key /\ s.registered = sub[a].registered
  BY <1>1, <1>3 DEF Subs, Queues
<1>. HIDE DEF x, s
<1>10. Charged(x, s, lease[a])
  <2>1. att[a].event = 0 /\ att[a].charge = 0
    BY <1>1, EmptyHanded
  <2>2. lease[a].events = queueBytes(q) + 0 /\ lease[a].catchUp = 0 /\ lease[a].snapshot = 0
    BY <1>1, <1>7, <2>1 DEF Charged
  <2>3. lease[a].events = queueBytes(t) + eventBytes[e] /\ e # 0
    BY <1>3, <1>4, <2>2
  <2>4. sub[a].registered /\ lease[a].fixed # 0 /\ ~lease[a].detached
    BY <1>1, <1>2, <1>7 DEF Charged
  <2>. QED BY <1>8, <1>9, <2>1, <2>2, <2>3, <2>4 DEF Charged
<1>11. Placing(journal.committed, x, s)
  <2>1. /\ sub[a].key \in Gen /\ att[a].delivered = cursor(att[a].delivered.seq, endOf[att[a].delivered.seq])
        /\ att[a].delivered.seq <= journal.committed[sub[a].key]
        /\ \A i \in 1..Len(q) : q[i] <= journal.committed[sub[a].key]
    BY <1>1, <1>7 DEF Placing
  <2>2. 1 \in 1..Len(q) /\ e <= journal.committed[sub[a].key]
    BY <1>3, <2>1
  <2>3. \A i \in 1..Len(t) : t[i] <= journal.committed[sub[a].key]
    <3>1. \A i \in 1..(Len(q) - 1) : i + 1 \in 1..Len(q)
      BY <1>3
    <3>. QED BY <1>3, <2>1, <3>1
  <2>. QED BY <1>8, <1>9, <2>1, <2>2, <2>3 DEF Placing
<1>. QED BY <1>1, <1>6, <1>8, <1>9, <1>10, <1>11, WriterStep

\* A subscriber that is closed with a verdict, or not registered any more.
LEMMA ClosedIs ==
  ASSUME NEW s \in Subs, NEW r \in Reason, ~s.registered => s.queue = <<>>
  PROVE  /\ closed(s, r) \in Subs /\ ~closed(s, r).registered /\ closed(s, r).queue = <<>>
         /\ closed(s, r).key = s.key /\ queueBytes(closed(s, r).queue) = 0
         /\ s = NoSub => closed(s, r) = NoSub
<1>. DEFINE R == Seq(1..LastRecord)
<1>1. <<>> \in R /\ Queues = R
  BY DEF Queues
<1>. HIDE DEF R
<1>2. closed(s, r) \in Subs /\ ~closed(s, r).registered /\ closed(s, r).queue = <<>> /\ closed(s, r).key = s.key
  BY <1>1 DEF closed, removed, Subs
<1>3. s = NoSub => closed(s, r) = NoSub
  BY DEF closed, NoSub
<1>. QED BY <1>2, <1>3, QueueBytes

\* A reader's subscriber is closed: what its queue owned is given back.
LEMMA ClosedKeeps ==
  ASSUME NEW x, NEW s \in Subs, NEW l \in Leases, NEW c, NEW r \in Reason, Charged(x, s, l), Placing(c, x, s),
         \A g \in Gen : c[g] \in Nat, x.event \in 0..LastRecord
  PROVE  /\ closed(s, r) \in Subs /\ drained(l, s) \in Leases /\ charged(drained(l, s)) <= charged(l)
         /\ Charged(x, closed(s, r), drained(l, s)) /\ Placing(c, x, closed(s, r))
<1>. DEFINE t == closed(s, r)
            m == drained(l, s)
            b == queueBytes(s.queue)
            h == IF x.event = 0 THEN 0 ELSE eventBytes[x.event]
<1>1. b \in Nat /\ h \in Nat
  <2>1. x.event # 0 => x.event \in 1..LastRecord
    BY ConstantsAre
  <2>. QED BY <2>1, QueueBytes, EventBytes DEF Subs, Queues
<1>2. l.events = b + h /\ (~s.registered => s.queue = <<>>)
  BY DEF Charged
<1>3. /\ t \in Subs /\ ~t.registered /\ t.queue = <<>> /\ t.key = s.key /\ queueBytes(t.queue) = 0
      /\ s = NoSub => t = NoSub
  BY <1>2, ClosedIs
<1>4. gives(m, l, l.snapshot, l.events - b, l.catchUp)
  <2>1. queueBytes(s.queue) <= l.events
    BY <1>1, <1>2
  <2>. QED BY <1>2, <2>1, DrainedGiven
<1>5. m.events = 0 + h
  BY <1>1, <1>2, <1>4 DEF gives
<1>6. s = NoSub => m = l
  BY DEF NoSub, drained
<1>7. h = IF x.event = 0 THEN 0 ELSE eventBytes[x.event]
  OBVIOUS
<1>. HIDE DEF t, m, b, h
<1>8. Charged(x, t, m)
  BY <1>3, <1>4, <1>5, <1>6, <1>7 DEF Charged, gives
<1>9. Placing(c, x, t)
  <2>1. Len(t.queue) = 0
    BY <1>3
  <2>. QED BY <1>3, <2>1 DEF Placing
<1>. QED BY <1>3, <1>4, <1>8, <1>9 DEF gives, t, m

\* A round of catch-up, or its refusal, keeps the readers' invariant.
LEMMA ReadsRoundKeeps ==
  ASSUME ReadersInv, NEW a \in A, ReadsRound(a)
  PROVE  ReadersInv'
<1>1. /\ att[a] \in Atts /\ sub[a] \in Subs /\ lease[a] \in Leases /\ conn[a] \in Conns
      /\ Charged(att[a], sub[a], lease[a]) /\ Placing(journal.committed, att[a], sub[a])
      /\ Len(conn[a].wire) <= WireFrames /\ att[a].pc = "again" /\ journal \in Journals /\ budget \in Nat
  BY ReaderIs DEF ReadsRound
<1>. DEFINE g == sub[a].key
            n == journal.committed[g]
            atoms == suffix(att[a].delivered, n)
            k == roundLength(atoms)
            round == SubSeq(atoms, 1, k)
            to == Last(round)[1]
            bytes == cost(round)
<1>2. PICK retired \in mayBeRetired(g) :
        /\ n # att[a].delivered.seq
        /\ IF ~retired /\ ~lease[a].detached /\ bytes <= ReaderCap - budget
           THEN /\ att' = [att EXCEPT ![a].pc = "round", ![a].out = frames(round),
                                      ![a].charge = bytes, ![a].to = to]
                /\ lease' = [lease EXCEPT ![a].catchUp = @ + bytes]
                /\ UNCHANGED sub
           ELSE /\ sub' = [sub EXCEPT ![a] = closed(@, "subscriber_lagged")]
                /\ lease' = [lease EXCEPT ![a] = drained(@, sub[a])]
                /\ goes(a, "live")
        /\ UNCHANGED <<journal, conn, page>>
  BY DEF ReadsRound
<1>3. g \in Gen /\ n \in 0..LastRecord /\ \A h \in Gen : journal.committed[h] \in Nat
  BY <1>1, ConstantsAre DEF Placing, Journals, Counts
<1>4. lease[a].catchUp = 0 /\ att[a].event = 0 /\ att[a].charge = 0 /\ lease[a].snapshot = 0
  BY <1>1, EmptyHanded DEF Charged
<1>5. conn' = [conn EXCEPT ![a] = conn[a]] /\ UNCHANGED <<journal, page>>
  BY <1>2, Alone
<1>6. CASE ~retired /\ ~lease[a].detached /\ bytes <= ReaderCap - budget
  <2>1. att[a].delivered \in Cursor
    BY <1>1 DEF Atts
  <2>2. /\ atoms \in Seq(Atom) /\ Len(atoms) = IF consumed(att[a].delivered) <= upto(n) THEN upto(n) - consumed(att[a].delivered) ELSE 0
        /\ \A i \in 1..Len(atoms) : atoms[i] \in Atom /\ atoms[i][1] \in 1..n
    BY <1>3, <2>1, SuffixTypes
  <2>3. Len(atoms) \in Nat /\ Len(atoms) >= 1
    <3>. DEFINE d == att[a].delivered.seq
    <3>1. d \in 0..LastRecord /\ att[a].delivered = cursor(d, endOf[d]) /\ d <= n /\ d # n
      BY <1>1, <1>2, <2>1 DEF Cursor, Placing
    <3>2. att[a].delivered = at(upto(d))
      BY <3>1, AtEnd
    <3>3. upto(d) \in 0..N
      BY <3>1, Bounds
    <3>4. consumed(att[a].delivered) = upto(d)
      BY <3>2, <3>3, AtIs
    <3>5. upto(d) < upto(n) /\ upto(n) \in Nat /\ upto(d) \in Nat
      <4>1. n \in 0..LastRecord /\ d \in 0..n /\ d < n
        BY <1>3, <3>1
      <4>2. upto(d) < upto(n)
        <5>. HIDE DEF n, d
        <5>. QED BY <4>1, UptoGrows
      <4>. QED BY <1>3, <3>1, <4>2, Bounds
    <3>. QED BY <2>2, <3>4, <3>5
  <2>. HIDE DEF atoms, n, g
  <2>4. k \in 1..Len(atoms)
    BY <2>2, <2>3, RoundIs
  <2>. HIDE DEF k
  <2>5. /\ round \in Seq(Atom) /\ Len(round) = k /\ \A i \in 1..k : round[i] = atoms[i]
    <3>1. k \in 0..Len(atoms)
      BY <2>4, <2>3
    <3>. QED BY <2>2, <3>1, Beginning
  <2>6. to \in 1..n /\ to \in 0..LastRecord
    <3>1. Last(round) = atoms[k]
      BY <2>3, <2>4, <2>5 DEF Last
    <3>2. atoms[k][1] \in 1..n
      BY <2>2, <2>4
    <3>3. to = atoms[k][1]
      BY <3>1
    <3>4. LastRecord \in Nat /\ n \in 0..LastRecord
      BY <1>3, ConstantsAre
    <3>5. to \in 1..n
      BY <3>2, <3>3
    <3>. HIDE DEF to
    <3>. QED BY <3>4, <3>5
  <2>. HIDE DEF round, to
  <2>7. frames(round) \in Outs /\ bytes \in Nat
    BY <2>5, FramesTypes, CostIs DEF Outs
  <2>. HIDE DEF bytes
  <2>. DEFINE o == frames(round)
              x == [att[a] EXCEPT !.pc = "round", !.out = o, !.charge = bytes, !.to = to]
              l == [lease[a] EXCEPT !.catchUp = bytes]
  <2>8. att' = [att EXCEPT ![a] = x] /\ sub' = [sub EXCEPT ![a] = sub[a]]
    BY <1>2, <1>6, Alone
  <2>9. lease' = [lease EXCEPT ![a] = l]
    <3>1. lease[a].catchUp + bytes = bytes
      BY <1>4, <2>7
    <3>2. lease' = [lease EXCEPT ![a].catchUp = lease[a].catchUp + bytes]
      BY <1>2, <1>6
    <3>. QED BY <3>1, <3>2
  <2>10. o \in Outs
    BY <2>7
  <2>. HIDE DEF o
  <2>11. x \in Atts /\ x.pc = "round" /\ x.charge = bytes /\ x.to = to /\ x.delivered = att[a].delivered
         /\ x.event = att[a].event
    BY <1>1, <2>6, <2>7, <2>10 DEF Atts, Where
  <2>12. /\ l \in Leases /\ l.catchUp = bytes /\ l.events = lease[a].events /\ l.fixed = lease[a].fixed
         /\ l.detached = lease[a].detached /\ l.snapshot = lease[a].snapshot
    BY <1>1, <2>7 DEF Leases
  <2>. HIDE DEF x, l
  <2>13. Charged(x, sub[a], l)
    BY <1>1, <1>4, <2>11, <2>12 DEF Charged
  <2>14. Placing(journal.committed, x, sub[a])
    <3>1. to <= journal.committed[sub[a].key]
      BY <1>3, <2>6 DEF n, g
    <3>. QED BY <1>1, <2>11, <3>1 DEF Placing
  <2>15. charged(l) - charged(lease[a]) <= ReaderCap - budget
    <3>1. /\ charged(l) = l.fixed + l.snapshot + l.catchUp
                             + (IF l.events >= Floor THEN l.events ELSE Floor) - Floor
          /\ charged(lease[a]) = lease[a].fixed + lease[a].snapshot + lease[a].catchUp
                                    + (IF lease[a].events >= Floor THEN lease[a].events ELSE Floor) - Floor
      BY <1>1, <2>12, ChargedIs
    <3>2. lease[a].fixed \in Nat /\ lease[a].snapshot \in Nat /\ lease[a].events \in Nat /\ Floor \in Nat
      BY <1>1, ChargedIs, ConstantsAre
    <3>3. charged(l) - charged(lease[a]) = bytes
      BY <1>4, <2>7, <2>12, <3>1, <3>2
    <3>. QED BY <1>6, <3>3
  <2>. QED BY <1>1, <1>5, <2>8, <2>9, <2>11, <2>12, <2>13, <2>14, <2>15, WriterStep
<1>7. CASE ~(~retired /\ ~lease[a].detached /\ bytes <= ReaderCap - budget)
  <2>. DEFINE x == [att[a] EXCEPT !.pc = "live"]
              s == closed(sub[a], "subscriber_lagged")
              l == drained(lease[a], sub[a])
  <2>1. x \in Atts /\ x.pc = "live" /\ at_(x, att[a])
    BY <1>1, Goes DEF Where
  <2>2. att' = [att EXCEPT ![a] = x] /\ sub' = [sub EXCEPT ![a] = s] /\ lease' = [lease EXCEPT ![a] = l]
    BY <1>2, <1>7 DEF goes
  <2>. HIDE DEF x
  <2>3. Charged(x, sub[a], lease[a])
    BY <1>1, <1>4, <2>1 DEF Charged, at_
  <2>4. Placing(journal.committed, x, sub[a])
    BY <1>1, <2>1 DEF Placing, at_
  <2>5. s \in Subs /\ l \in Leases /\ charged(l) <= charged(lease[a]) /\ Charged(x, s, l) /\ Placing(journal.committed, x, s)
    <3>1. "subscriber_lagged" \in Reason /\ x.event \in 0..LastRecord
      BY <2>1 DEF Reason, Atts
    <3>. QED BY <1>1, <1>3, <2>3, <2>4, <3>1, ClosedKeeps
  <2>. HIDE DEF s, l
  <2>. QED BY <1>1, <1>5, <2>1, <2>2, <2>5, WriterStep
<1>. QED BY <1>6, <1>7

\* The end of the attach loop keeps the readers' invariant.
LEMMA LoopEndsKeeps ==
  ASSUME ReadersInv, NEW a \in A, LoopEnds(a)
  PROVE  ReadersInv'
<1>1. /\ att[a] \in Atts /\ sub[a] \in Subs /\ lease[a] \in Leases /\ conn[a] \in Conns
      /\ Charged(att[a], sub[a], lease[a]) /\ Placing(journal.committed, att[a], sub[a])
      /\ Len(conn[a].wire) <= WireFrames /\ charged(lease[a]) \in Nat
      /\ att[a].pc \in {"attaching", "prepared", "live", "event", "again", "round", "stopped"} /\ lease[a].owned
  BY ReaderIs DEF LoopEnds, muFree
<1>2. lease[a] # NoLease /\ att[a].pc \in {"prepared", "live", "event", "again", "round", "stopped"}
  BY <1>1 DEF Charged, NoLease
<1>3. UNCHANGED <<journal, page>> /\ conn' = [conn EXCEPT ![a] = conn[a]]
  BY Alone DEF LoopEnds
<1>. DEFINE b == queueBytes(sub[a].queue)
            l1 == drained(lease[a], sub[a])
            l2 == releaseSnapshot(l1)
            l3 == detach(l2)
            m == [l3 EXCEPT !.owned = FALSE]
            l == settled(m)
            h == handBytes(a)
<1>4. b \in Nat /\ h \in Nat
  <2>1. att[a].event \in 0..LastRecord
    BY <1>1 DEF Atts
  <2>2. att[a].event # 0 => att[a].event \in 1..LastRecord
    BY <2>1, ConstantsAre
  <2>. QED BY <1>1, <2>2, EventBytes, QueueBytes DEF handBytes, Subs, Queues
<1>5. lease[a].events = b + h /\ (~sub[a].registered => sub[a].queue = <<>>) /\ lease[a].catchUp = att[a].charge
  BY <1>1 DEF Charged, handBytes
<1>6. gives(l1, lease[a], lease[a].snapshot, lease[a].events - b, lease[a].catchUp)
  <2>1. queueBytes(sub[a].queue) <= lease[a].events
    BY <1>4, <1>5
  <2>. QED BY <1>1, <1>5, <2>1, DrainedGiven
<1>7. lease' = [lease EXCEPT ![a] = l]
  BY DEF LoopEnds
<1>8. h = IF att[a].event = 0 THEN 0 ELSE eventBytes[att[a].event]
  BY DEF handBytes
<1>. HIDE DEF l1, b, h
<1>9. l1 \in Leases /\ l1.events = h /\ l1.catchUp = att[a].charge /\ charged(l1) <= charged(lease[a]) /\ charged(l1) \in Nat
  BY <1>4, <1>5, <1>6, ChargedIs DEF gives
<1>10. gives(l2, l1, 0, l1.events, l1.catchUp)
  BY <1>9, SnapshotGiven
<1>. HIDE DEF l2
<1>11. l2 \in Leases /\ l2.events = h /\ l2.catchUp = att[a].charge /\ l2.snapshot = 0
       /\ charged(l2) <= charged(l1) /\ charged(l2) \in Nat
  BY <1>9, <1>10, ChargedIs DEF gives
<1>12. l3 \in Leases /\ l3.events = h /\ l3.catchUp = att[a].charge /\ l3.snapshot = 0
       /\ charged(l3) <= charged(l2)
  BY <1>11, Detached
<1>. HIDE DEF l3
<1>13. m \in Leases /\ m.events = h /\ m.catchUp = att[a].charge /\ m.snapshot = 0 /\ m.fixed = l3.fixed
  BY <1>12 DEF Leases
<1>14. charged(m) = charged(l3) /\ charged(l3) \in Nat
  BY <1>12, <1>13, ChargedIs
<1>. HIDE DEF m
<1>15. settles(l, m)
  BY <1>13, SettledIs
<1>. HIDE DEF l
<1>16. l \in Leases /\ l.events = h /\ l.catchUp = att[a].charge /\ l.snapshot = 0 /\ charged(l) <= charged(lease[a])
  BY <1>1, <1>9, <1>11, <1>12, <1>13, <1>14, <1>15, ChargedIs DEF settles
<1>17. CASE att[a].pc \in {"prepared", "stopped"}
  <2>1. att' = [att EXCEPT ![a] = Stopped] /\ sub' = [sub EXCEPT ![a] = NoSub]
    BY <1>17 DEF LoopEnds, stops
  <2>2. h = 0 /\ att[a].charge = 0
    BY <1>8, <1>17, EmptyHanded
  <2>3. Charged(Stopped, NoSub, l) /\ Placing(journal.committed, Stopped, NoSub)
    BY <1>16, <2>2, StoppedIs, EndedIs DEF Placing
  <2>. QED BY <1>1, <1>2, <1>3, <1>7, <1>16, <2>1, <2>3, StoppedIs, WriterStep
<1>18. CASE att[a].pc \in {"live", "event", "again", "round"}
  <2>. DEFINE f == settledFence(att[a].fence)
              x == [att[a] EXCEPT !.closing = TRUE, !.fence = f]
              s == removed(sub[a])
  <2>1. att' = [att EXCEPT ![a] = x] /\ sub' = [sub EXCEPT ![a] = s]
    BY <1>18 DEF LoopEnds
  <2>2. f \in Fences
    BY <1>1 DEF settledFence, Fences, Atts
  <2>. HIDE DEF f
  <2>3. x \in Atts /\ x.pc = att[a].pc /\ at_(x, att[a])
    BY <1>1, <2>2 DEF Atts, at_
  <2>4. s \in Subs /\ ~s.registered /\ s.queue = <<>> /\ s.key = sub[a].key
    <3>. DEFINE R == Seq(1..LastRecord)
    <3>1. <<>> \in R /\ Queues = R
      BY DEF Queues
    <3>. HIDE DEF R
    <3>. QED BY <1>1, <3>1 DEF Subs, removed
  <2>. HIDE DEF x, s
  <2>5. Charged(x, s, l)
    <3>1. queueBytes(s.queue) = 0
      BY <2>4, QueueBytes
    <3>2. (att[a].event # 0 => att[a].pc = "event") /\ (att[a].charge # 0 => att[a].pc = "round")
      BY <1>1 DEF Charged
    <3>3. l.events = queueBytes(s.queue) + (IF x.event = 0 THEN 0 ELSE eventBytes[x.event])
      BY <1>4, <1>8, <1>16, <2>3, <3>1 DEF at_
    <3>. QED BY <1>16, <1>18, <2>3, <2>4, <3>2, <3>3 DEF Charged, at_
  <2>6. Placing(journal.committed, x, s)
    <3>1. Len(s.queue) = 0
      BY <2>4
    <3>2. /\ sub[a].key \in Gen /\ att[a].delivered = cursor(att[a].delivered.seq, endOf[att[a].delivered.seq])
          /\ att[a].delivered.seq <= journal.committed[sub[a].key] /\ att[a].to <= journal.committed[sub[a].key]
      BY <1>1, <1>18 DEF Placing
    <3>. QED BY <1>18, <2>3, <2>4, <3>1, <3>2 DEF Placing, at_
  <2>. QED BY <1>1, <1>2, <1>3, <1>7, <1>16, <2>1, <2>3, <2>4, <2>5, <2>6, WriterStep
<1>. QED BY <1>2, <1>17, <1>18

\* A resize asked for keeps the readers' invariant.
LEMMA BeginResizeKeeps ==
  ASSUME ReadersInv, NEW a \in A, BeginResize(a)
  PROVE  ReadersInv'
<1>1. /\ att[a] \in Atts /\ sub[a] \in Subs /\ lease[a] \in Leases /\ conn[a] \in Conns
      /\ Charged(att[a], sub[a], lease[a]) /\ Placing(journal.committed, att[a], sub[a])
      /\ Len(conn[a].wire) <= WireFrames /\ page \in Pages /\ a <= page.generation
  <2>1. page.generation = a /\ a \in Nat
    BY ConstantsAre DEF BeginResize, A
  <2>. QED BY <2>1, ReaderIs
<1>. DEFINE x == [att[a] EXCEPT !.fence = "open"]
            n == page.resizes + 1
<1>2. x \in Atts /\ x.pc = att[a].pc /\ at_(x, att[a])
  BY <1>1 DEF Atts, at_, Fences
<1>3. n \in Nat
  BY <1>1 DEF Pages
<1>4. page' = [page EXCEPT !.resizes = n]
  BY DEF BeginResize
<1>. HIDE DEF n
<1>5. page' \in Pages /\ page'.generation = page.generation /\ (page'.open => page.open)
  BY <1>1, <1>3, <1>4 DEF Pages
<1>6. att' = [att EXCEPT ![a] = x] /\ lease' = [lease EXCEPT ![a] = lease[a]] /\ sub' = [sub EXCEPT ![a] = sub[a]]
      /\ conn' = [conn EXCEPT ![a] = conn[a]] /\ charged(lease[a]) <= charged(lease[a])
      /\ journal' \in Journals /\ journal'.committed = journal.committed /\ Counted(journal')
  BY Alone DEF BeginResize
<1>. HIDE DEF x
<1>7. Charged(x, sub[a], lease[a]) /\ Placing(journal.committed, x, sub[a])
  BY <1>1, <1>2, StillThere
<1>. QED BY <1>1, <1>2, <1>5, <1>6, <1>7, ReaderStep

(***************************************************************************)
(* Steps of the journal.                                                   *)
(***************************************************************************)

\* More of the recording committed leaves every reader its place.
LEMMA PlacingGrows ==
  ASSUME NEW c \in Counts, NEW d \in Counts, \A g \in Gen : c[g] <= d[g],
         NEW x \in Atts, NEW s \in Subs, Placing(c, x, s)
  PROVE  Placing(d, x, s)
<1>1. LastRecord \in Nat /\ \A g \in Gen : c[g] \in Nat /\ d[g] \in Nat
  BY ConstantsAre DEF Counts
<1>2. x.to \in Nat /\ x.delivered.seq \in Nat
  BY <1>1 DEF Atts, Cursor
<1>3. s.queue \in Seq(1..LastRecord)
  BY DEF Subs, Queues
<1>4. \A i \in 1..Len(s.queue) : s.queue[i] \in Nat
  <2>. DEFINE q == s.queue
              S == 1..LastRecord
  <2>1. q \in Seq(S)
    BY <1>3
  <2>. HIDE DEF q, S
  <2>2. \A i \in 1..Len(q) : q[i] \in S
    BY <2>1
  <2>. QED BY <1>1, <2>2 DEF q, S
<1>5. x.pc = "holding" => x.to <= d[x.key]
  BY <1>1, <1>2 DEF Placing
<1>6. ASSUME x.pc \in Writing
      PROVE  /\ s.key \in Gen /\ x.delivered = cursor(x.delivered.seq, endOf[x.delivered.seq])
             /\ x.delivered.seq <= d[s.key] /\ x.to <= d[s.key]
             /\ \A i \in 1..Len(s.queue) : s.queue[i] <= d[s.key]
  <2>1. /\ s.key \in Gen /\ x.delivered = cursor(x.delivered.seq, endOf[x.delivered.seq])
        /\ x.delivered.seq <= c[s.key] /\ x.to <= c[s.key]
        /\ \A i \in 1..Len(s.queue) : s.queue[i] <= c[s.key]
    BY <1>6 DEF Placing, Writing
  <2>2. c[s.key] <= d[s.key] /\ c[s.key] \in Nat /\ d[s.key] \in Nat
    BY <1>1, <2>1
  <2>. QED BY <1>2, <1>4, <2>1, <2>2
<1>. QED BY <1>5, <1>6 DEF Placing, Writing

\* A step of the journal: what it commits only grows, and the subscribers and their
\* leases stay in order.
LEMMA JournalStep ==
  ASSUME ReadersInv, journal' \in Journals, Counted(journal'),
         \A g \in Gen : journal.committed[g] <= journal'.committed[g],
         sub' \in [A -> Subs], lease' \in [A -> Leases], UNCHANGED <<att, conn, page>>,
         \A a \in A : Charged(att[a], sub'[a], lease'[a]) /\ Placing(journal.committed, att[a], sub'[a]),
         bytesOf(lease') <= ReaderCap
  PROVE  ReadersInv'
<1>1. /\ att' = att /\ conn' = conn /\ page' = page /\ att \in [A -> Atts] /\ conn \in [A -> Conns] /\ page \in Pages
      /\ journal \in Journals
  BY DEF ReadersInv, Shapes
<1>2. Shapes' /\ Paged'
  BY <1>1 DEF ReadersInv, Shapes, Paged
<1>3. ASSUME NEW a \in A
      PROVE  Charged(att'[a], sub'[a], lease'[a]) /\ Placing(journal'.committed, att'[a], sub'[a]) /\ Connected(a)'
  <2>1. Connected(a)'
    BY <1>1 DEF ReadersInv, Connected
  <2>2. journal.committed \in Counts /\ journal'.committed \in Counts /\ att[a] \in Atts /\ sub'[a] \in Subs
    BY <1>1 DEF Journals
  <2>3. Placing(journal'.committed, att[a], sub'[a])
    BY <2>2, PlacingGrows
  <2>. QED BY <1>1, <2>1, <2>3
<1>4. budget' <= ReaderCap
  BY DEF budget
<1>. QED BY <1>2, <1>3, <1>4 DEF ReadersInv, Charged, Placing

\* A step of the journal that closes nobody.
LEMMA JournalAlone ==
  ASSUME ReadersInv, journal' \in Journals, Counted(journal'),
         \A g \in Gen : journal.committed[g] <= journal'.committed[g],
         UNCHANGED <<sub, att, lease, conn, page>>
  PROVE  ReadersInv'
<1>1. sub' = sub /\ lease' = lease /\ UNCHANGED <<att, conn, page>> /\ sub \in [A -> Subs] /\ lease \in [A -> Leases]
  BY DEF ReadersInv, Shapes
<1>2. \A a \in A : Charged(att[a], sub'[a], lease'[a]) /\ Placing(journal.committed, att[a], sub'[a])
  BY <1>1 DEF ReadersInv
<1>3. bytesOf(lease') <= ReaderCap
  BY <1>1 DEF ReadersInv, budget
<1>. QED BY <1>1, <1>2, <1>3, JournalStep

\* A step of the journal that closes the subscribers of a generation.
LEMMA ClosingStep ==
  ASSUME ReadersInv, journal' \in Journals, Counted(journal'),
         \A g \in Gen : journal.committed[g] <= journal'.committed[g],
         NEW k, NEW r \in Reason, CloseSubscribers(k, r), UNCHANGED <<att, conn, page>>
  PROVE  ReadersInv'
<1>1. /\ sub \in [A -> Subs] /\ lease \in [A -> Leases] /\ journal \in Journals
      /\ bytesOf(lease) \in Nat /\ bytesOf(lease) <= ReaderCap /\ ReaderCap \in Nat
  BY ChargesAre, ConstantsAre DEF ReadersInv, Shapes, budget
<1>2. \A g \in Gen : journal.committed[g] \in Nat
  BY <1>1, ConstantsAre DEF Journals, Counts
<1>3. ASSUME NEW a \in A
      PROVE  /\ closed(sub[a], r) \in Subs /\ drained(lease[a], sub[a]) \in Leases
             /\ charged(drained(lease[a], sub[a])) <= charged(lease[a])
             /\ Charged(att[a], closed(sub[a], r), drained(lease[a], sub[a]))
             /\ Placing(journal.committed, att[a], closed(sub[a], r))
  <2>1. /\ att[a] \in Atts /\ sub[a] \in Subs /\ lease[a] \in Leases /\ Charged(att[a], sub[a], lease[a])
        /\ Placing(journal.committed, att[a], sub[a])
    BY ReaderIs
  <2>2. att[a].event \in 0..LastRecord
    BY <2>1 DEF Atts
  <2>. QED BY <1>2, <2>1, <2>2, ClosedKeeps
<1>4. ASSUME NEW a \in A
      PROVE  /\ sub'[a] \in Subs /\ lease'[a] \in Leases /\ charged(lease'[a]) <= charged(lease[a])
             /\ Charged(att[a], sub'[a], lease'[a]) /\ Placing(journal.committed, att[a], sub'[a])
  <2>1. CASE sub[a].key = k
    <3>1. sub'[a] = closed(sub[a], r) /\ lease'[a] = drained(lease[a], sub[a])
      BY <2>1 DEF CloseSubscribers
    <3>. QED BY <1>3, <3>1
  <2>2. CASE sub[a].key # k
    <3>1. sub'[a] = sub[a] /\ lease'[a] = lease[a]
      BY <2>2 DEF CloseSubscribers
    <3>2. /\ sub[a] \in Subs /\ lease[a] \in Leases /\ Charged(att[a], sub[a], lease[a])
          /\ Placing(journal.committed, att[a], sub[a]) /\ charged(lease[a]) <= charged(lease[a])
      BY ReaderIs
    <3>. QED BY <3>1, <3>2
  <2>. QED BY <2>1, <2>2
<1>5. sub' \in [A -> Subs] /\ lease' \in [A -> Leases]
  <2>1. /\ sub' = [a \in A |-> IF sub[a].key = k THEN closed(sub[a], r) ELSE sub[a]]
        /\ lease' = [a \in A |-> IF sub[a].key = k THEN drained(lease[a], sub[a]) ELSE lease[a]]
    BY DEF CloseSubscribers
  <2>2. \A a \in A : (IF sub[a].key = k THEN closed(sub[a], r) ELSE sub[a]) \in Subs
    BY <1>1, <1>3
  <2>3. \A a \in A : (IF sub[a].key = k THEN drained(lease[a], sub[a]) ELSE lease[a]) \in Leases
    BY <1>1, <1>3
  <2>. QED BY <2>1, <2>2, <2>3
<1>6. bytesOf(lease') <= bytesOf(lease)
  BY <1>1, <1>4, <1>5, BytesShrink
<1>7. bytesOf(lease') \in Nat
  BY <1>5, ChargesAre
<1>8. bytesOf(lease') <= ReaderCap
  BY <1>1, <1>6, <1>7
<1>. QED BY <1>4, <1>5, <1>8, JournalStep

\* What the invariant says of the journal.
LEMMA JournalIs ==
  ASSUME ReadersInv
  PROVE  /\ journal \in Journals /\ Counted(journal) /\ Gen \subseteq Nat
         /\ journal.active \in 0..Generations /\ journal.latest \in Gen
         /\ journal.active # 0 => journal.active \in Gen
         /\ \A g \in Gen : journal.committed[g] \in 0..LastRecord /\ journal.published[g] \in 0..LastRecord
         /\ \A g \in Gen : journal.committed[g] <= journal.committed[g]
<1>1. journal \in Journals /\ Counted(journal) /\ LastRecord \in Nat /\ Generations \in Nat
  BY ConstantsAre DEF ReadersInv, Shapes
<1>2. journal.active \in 0..Generations /\ journal.latest \in Gen
      /\ \A g \in Gen : journal.committed[g] \in 0..LastRecord /\ journal.published[g] \in 0..LastRecord
  BY <1>1 DEF Journals, Counts
<1>. QED BY <1>1, <1>2 DEF Gen

\* Only who is active, how far a rotation is, and who is over changes.
LEMMA TurnsKeeps ==
  ASSUME ReadersInv, NEW k \in 0..Generations, NEW r \in {"none", "begun", "sealed"}, NEW e \in SUBSET Gen,
         journal' = [journal EXCEPT !.active = k, !.rotation = r, !.ended = e],
         k <= journal.latest, r # "none" => journal.latest < Generations
  PROVE  /\ journal' \in Journals /\ Counted(journal')
         /\ \A g \in Gen : journal.committed[g] <= journal'.committed[g]
<1>1. journal \in Journals /\ Counted(journal) /\ \A g \in Gen : journal.committed[g] <= journal.committed[g]
  BY JournalIs
<1>2. /\ journal' \in Journals /\ journal'.committed = journal.committed /\ journal'.published = journal.published
      /\ journal'.latest = journal.latest /\ journal'.active = k /\ journal'.rotation = r
  BY <1>1 DEF Journals
<1>. QED BY <1>1, <1>2 DEF Counted

\* What changes nothing of a journal's field.
LEMMA JournalFields ==
  ASSUME ReadersInv
  PROVE  journal = [journal EXCEPT !.active = journal.active, !.rotation = journal.rotation, !.ended = journal.ended]
         /\ journal.ended \in SUBSET Gen /\ journal.rotation \in {"none", "begun", "sealed"}
         /\ journal.active <= journal.latest /\ 0 <= journal.latest /\ 0 \in 0..Generations
<1>1. journal \in Journals /\ Counted(journal) /\ Generations \in Nat
  BY JournalIs, ConstantsAre
<1>2. journal = [journal EXCEPT !.active = journal.active, !.rotation = journal.rotation, !.ended = journal.ended]
      /\ journal.ended \in SUBSET Gen /\ journal.rotation \in {"none", "begun", "sealed"} /\ journal.latest \in Gen
  BY <1>1 DEF Journals
<1>3. journal.active <= journal.latest /\ 0 <= journal.latest /\ 0 \in 0..Generations
  BY <1>1, <1>2 DEF Counted, Gen
<1>. QED BY <1>2, <1>3

\* A commit keeps the readers' invariant.
LEMMA CommitKeeps ==
  ASSUME ReadersInv, Commit
  PROVE  ReadersInv'
<1>. DEFINE g == journal.active
            n == journal.committed[g] + 1
            c == [journal.committed EXCEPT ![g] = n]
<1>1. journal \in Journals /\ Counted(journal) /\ g \in Gen /\ LastRecord \in Nat
      /\ \A h \in Gen : journal.committed[h] \in 0..LastRecord /\ journal.published[h] \in 0..LastRecord
  BY JournalIs, ConstantsAre DEF Commit
<1>2. n \in 0..LastRecord /\ journal.committed[g] <= n
  BY <1>1 DEF Commit
<1>3. journal' = [journal EXCEPT !.committed = c]
  BY DEF Commit
<1>4. c \in Counts /\ c[g] = n /\ \A h \in Gen \ {g} : c[h] = journal.committed[h]
  <2>1. journal.committed \in Counts
    BY <1>1 DEF Journals
  <2>. HIDE DEF n
  <2>. QED BY <1>1, <1>2, <2>1 DEF Counts
<1>. HIDE DEF c
<1>5. /\ journal' \in Journals /\ journal'.committed = c /\ journal'.published = journal.published
      /\ journal'.latest = journal.latest /\ journal'.active = journal.active /\ journal'.rotation = journal.rotation
  BY <1>1, <1>3, <1>4 DEF Journals
<1>6. \A h \in Gen : journal.committed[h] <= c[h]
  <2>. HIDE DEF n
  <2>. QED BY <1>1, <1>2, <1>4
<1>7. Counted(journal')
  <2>1. g <= journal.latest /\ g \in Nat /\ journal.latest \in Nat
    BY <1>1, JournalIs DEF Counted
  <2>2. ASSUME NEW h \in Gen
        PROVE  journal.published[h] <= c[h] /\ (h > journal.latest => c[h] = 0)
    <3>1. journal.published[h] <= journal.committed[h] /\ (h > journal.latest => journal.committed[h] = 0)
      BY <1>1 DEF Counted
    <3>2. journal.committed[h] \in Nat /\ journal.published[h] \in Nat /\ c[h] \in Nat /\ h \in Nat
      BY <1>1, <1>4, JournalIs DEF Counts
    <3>3. journal.published[h] <= c[h]
      BY <1>6, <3>1, <3>2
    <3>4. CASE h = g
      BY <2>1, <3>2, <3>3, <3>4
    <3>5. CASE h # g
      BY <1>4, <3>1, <3>3, <3>5
    <3>. QED BY <3>4, <3>5
  <2>. QED BY <1>1, <1>5, <2>2 DEF Counted
<1>8. \A h \in Gen : journal.committed[h] <= journal'.committed[h]
  BY <1>5, <1>6
<1>. QED BY <1>5, <1>7, <1>8, JournalAlone DEF Commit

\* The beginning, the seal and the abort of a rotation, and the end of a generation keep
\* the readers' invariant.
LEMMA RotationBeginsKeeps ==
  ASSUME ReadersInv, RotationBegins
  PROVE  ReadersInv'
<1>1. journal' = [journal EXCEPT !.active = journal.active, !.rotation = "begun", !.ended = journal.ended]
  BY JournalIs DEF RotationBegins, Journals
<1>2. journal.active \in 0..Generations /\ journal.latest < Generations
  BY JournalIs DEF RotationBegins
<1>3. /\ journal' \in Journals /\ Counted(journal')
      /\ \A g \in Gen : journal.committed[g] <= journal'.committed[g]
  BY <1>1, <1>2, JournalFields, TurnsKeeps
<1>. QED BY <1>3, JournalAlone DEF RotationBegins

\* A rotation seals the predecessor.
LEMMA RotationSealsKeeps ==
  ASSUME ReadersInv, RotationSeals
  PROVE  ReadersInv'
<1>1. journal' = [journal EXCEPT !.active = journal.active, !.rotation = "sealed", !.ended = journal.ended]
  BY JournalIs DEF RotationSeals, Journals
<1>2. journal.active \in 0..Generations /\ journal.latest < Generations
  BY JournalIs DEF RotationSeals, Counted
<1>3. /\ journal' \in Journals /\ Counted(journal')
      /\ \A g \in Gen : journal.committed[g] <= journal'.committed[g]
  BY <1>1, <1>2, JournalFields, TurnsKeeps
<1>. QED BY <1>3, JournalAlone DEF RotationSeals

\* A rotation is taken back.
LEMMA RotationAbortsKeeps ==
  ASSUME ReadersInv, RotationAborts
  PROVE  ReadersInv'
<1>1. journal' = [journal EXCEPT !.active = journal.active, !.rotation = "none", !.ended = journal.ended]
  BY JournalIs DEF RotationAborts, Journals
<1>2. journal.active \in 0..Generations
  BY JournalIs
<1>3. /\ journal' \in Journals /\ Counted(journal')
      /\ \A g \in Gen : journal.committed[g] <= journal'.committed[g]
  BY <1>1, <1>2, JournalFields, TurnsKeeps
<1>. QED BY <1>3, JournalAlone DEF RotationAborts

\* A generation is reaped.
LEMMA GenerationEndsKeeps ==
  ASSUME ReadersInv, GenerationEnds
  PROVE  ReadersInv'
<1>1. journal.active \in Gen
  BY JournalIs DEF GenerationEnds
<1>. DEFINE e == journal.ended \cup {journal.active}
<1>2. e \in SUBSET Gen
  BY <1>1, JournalFields
<1>3. journal' = [journal EXCEPT !.active = 0, !.rotation = "none", !.ended = e]
  BY DEF GenerationEnds
<1>. HIDE DEF e
<1>4. /\ journal' \in Journals /\ Counted(journal')
      /\ \A g \in Gen : journal.committed[g] <= journal'.committed[g]
  BY <1>2, <1>3, JournalFields, TurnsKeeps
<1>. QED BY <1>4, JournalAlone DEF GenerationEnds

\* A journal after the dispatch of what is left of a generation.
LEMMA DispatchedIs ==
  ASSUME NEW j \in Journals, Counted(j), NEW k \in Gen
  PROVE  dispatched(j, k) \in Journals /\ Counted(dispatched(j, k)) /\ dispatched(j, k).committed = j.committed
<1>. DEFINE p == [j.published EXCEPT ![k] = j.committed[k]]
            e == j.ended \ {k}
            m == dispatched(j, k)
<1>1. p \in Counts /\ p[k] = j.committed[k] /\ \A g \in Gen \ {k} : p[g] = j.published[g]
  BY DEF Journals, Counts
<1>2. e \in SUBSET Gen
  BY DEF Journals
<1>3. m = [j EXCEPT !.published = p, !.ended = e]
  BY DEF dispatched
<1>4. LastRecord \in Nat /\ \A g \in Gen : j.committed[g] \in Nat
  BY ConstantsAre DEF Journals, Counts
<1>. HIDE DEF p, e, m
<1>5. /\ m \in Journals /\ m.published = p /\ m.committed = j.committed /\ m.active = j.active /\ m.latest = j.latest
      /\ m.rotation = j.rotation
  BY <1>1, <1>2, <1>3 DEF Journals
<1>6. \A g \in Gen : p[g] <= j.committed[g]
  <2>. SUFFICES ASSUME NEW g \in Gen PROVE p[g] <= j.committed[g]
    OBVIOUS
  <2>1. j.published[g] <= j.committed[g]
    BY DEF Counted
  <2>. QED BY <1>1, <1>4, <2>1
<1>7. Counted(m)
  BY <1>5, <1>6 DEF Counted
<1>. QED BY <1>5, <1>7 DEF m

\* A reap keeps the readers' invariant.
LEMMA GenerationFailsKeeps ==
  ASSUME ReadersInv, GenerationFails
  PROVE  ReadersInv'
<1>. DEFINE k == journal.active
            j == [journal EXCEPT !.active = 0, !.rotation = "none"]
<1>1. k \in Gen /\ journal \in Journals /\ Counted(journal)
  BY JournalIs DEF GenerationFails
<1>2. j \in Journals /\ j.committed = journal.committed /\ j.published = journal.published /\ j.active = 0
      /\ j.latest = journal.latest /\ j.rotation = "none"
  <2>1. 0 \in 0..Generations
    BY ConstantsAre
  <2>. QED BY <1>1, <2>1 DEF Journals
<1>3. journal' = dispatched(j, k) /\ CloseSubscribers(k, "generation_failed") /\ UNCHANGED <<att, conn, page>>
  BY DEF GenerationFails
<1>. HIDE DEF j, k
<1>4. Counted(j)
  BY <1>1, <1>2, JournalFields DEF Counted
<1>5. journal' \in Journals /\ Counted(journal') /\ journal'.committed = journal.committed
  BY <1>1, <1>2, <1>3, <1>4, DispatchedIs
<1>6. \A g \in Gen : journal.committed[g] <= journal'.committed[g]
  BY <1>5, JournalIs
<1>. QED BY <1>3, <1>5, <1>6, ClosingStep DEF Reason

\* The subscribers of a generation that is over are closed.
LEMMA EndedClosesSubscribersKeeps ==
  ASSUME ReadersInv, NEW k \in Gen, EndedClosesSubscribers(k)
  PROVE  ReadersInv'
<1>1. journal \in Journals /\ Counted(journal)
  BY JournalIs
<1>2. journal' = dispatched(journal, k) /\ CloseSubscribers(k, "generation_failed") /\ UNCHANGED <<att, conn, page>>
  BY DEF EndedClosesSubscribers
<1>3. journal' \in Journals /\ Counted(journal') /\ journal'.committed = journal.committed
  BY <1>1, <1>2, DispatchedIs
<1>4. \A g \in Gen : journal.committed[g] <= journal'.committed[g]
  BY <1>3, JournalIs
<1>. QED BY <1>2, <1>3, <1>4, ClosingStep DEF Reason

\* A journal with one more generation.
LEMMA AdmittedIs ==
  ASSUME ReadersInv, journal.latest < Generations
  PROVE  /\ admitted(journal) \in Journals /\ Counted(admitted(journal))
         /\ \A g \in Gen : journal.committed[g] <= admitted(journal).committed[g]
<1>. DEFINE k == journal.latest + 1
            c == [journal.committed EXCEPT ![k] = Birth]
            p == [journal.published EXCEPT ![k] = Birth]
            m == admitted(journal)
<1>1. journal \in Journals /\ Counted(journal) /\ journal.latest \in Nat /\ LastRecord \in Nat /\ Birth \in 0..LastRecord
      /\ \A g \in Gen : journal.committed[g] \in 0..LastRecord /\ journal.published[g] \in 0..LastRecord
  BY JournalIs, ConstantsAre
<1>2. k \in Gen /\ k \in 0..Generations /\ k > journal.latest /\ k \in Nat
  BY <1>1, JournalIs, ConstantsAre DEF Gen
<1>3. m = [journal EXCEPT !.active = k, !.latest = k, !.rotation = "none", !.committed = c, !.published = p]
  BY DEF admitted
<1>. HIDE DEF k
<1>4. journal.committed \in Counts /\ journal.published \in Counts
  BY <1>1 DEF Journals
<1>5. /\ c \in Counts /\ c[k] = Birth /\ \A g \in Gen \ {k} : c[g] = journal.committed[g]
      /\ p \in Counts /\ p[k] = Birth /\ \A g \in Gen \ {k} : p[g] = journal.published[g]
  BY <1>1, <1>2, <1>4 DEF Counts
<1>. HIDE DEF c, p, m
<1>6. /\ m \in Journals /\ m.active = k /\ m.latest = k /\ m.rotation = "none" /\ m.committed = c /\ m.published = p
  BY <1>1, <1>2, <1>3, <1>5 DEF Journals
<1>7. ASSUME NEW g \in Gen
      PROVE  journal.committed[g] <= c[g] /\ p[g] <= c[g] /\ (g > k => c[g] = 0)
  <2>1. journal.published[g] <= journal.committed[g] /\ (g > journal.latest => journal.committed[g] = 0)
        /\ g \in Nat /\ journal.committed[g] \in Nat
    BY <1>1, JournalIs DEF Counted
  <2>2. CASE g = k
    BY <1>1, <1>2, <1>5, <2>1, <2>2
  <2>3. CASE g # k
    BY <1>1, <1>2, <1>5, <2>1, <2>3
  <2>. QED BY <2>2, <2>3
<1>8. Counted(m)
  BY <1>2, <1>6, <1>7 DEF Counted
<1>9. \A g \in Gen : journal.committed[g] <= m.committed[g]
  BY <1>6, <1>7
<1>. QED BY <1>6, <1>8, <1>9 DEF m

\* The swap of a rotation keeps the readers' invariant.
LEMMA RotationSwapsKeeps ==
  ASSUME ReadersInv, RotationSwaps
  PROVE  ReadersInv'
<1>1. journal' = admitted(journal) /\ CloseSubscribers(journal.active, "generation_rotated") /\ UNCHANGED <<att, conn, page>>
  BY DEF RotationSwaps
<1>2. journal.latest < Generations
  BY JournalIs DEF RotationSwaps, Counted
<1>3. /\ journal' \in Journals /\ Counted(journal')
      /\ \A g \in Gen : journal.committed[g] <= journal'.committed[g]
  BY <1>1, <1>2, AdmittedIs
<1>. QED BY <1>1, <1>3, ClosingStep DEF Reason

\* The start of a generation keeps the readers' invariant.
LEMMA GenerationStartsKeeps ==
  ASSUME ReadersInv, GenerationStarts
  PROVE  ReadersInv'
<1>1. journal' = admitted(journal) /\ UNCHANGED <<sub, att, lease, conn, page>> /\ journal.latest < Generations
  BY DEF GenerationStarts
<1>2. /\ journal' \in Journals /\ Counted(journal')
      /\ \A g \in Gen : journal.committed[g] <= journal'.committed[g]
  BY <1>1, AdmittedIs
<1>. QED BY <1>1, <1>2, JournalAlone

(***************************************************************************)
(* The dispatcher.                                                         *)
(***************************************************************************)

\* What the turns of a publication, one subscriber after the other, keep: of the
\* subscribers and their leases, with c of the recording committed and the writers y.
Offers(y, c, g, seq) ==
  {st \in [sub : [A -> Subs], lease : [A -> Leases], of : {g}, seq : {seq}] :
     /\ \A a \in A : Charged(y[a], st.sub[a], st.lease[a]) /\ Placing(c, y[a], st.sub[a])
     /\ bytesOf(st.lease) <= ReaderCap}

\* A subscriber and a lease put in their place.
putIn(st, a, s, l) == [st EXCEPT !.sub[a] = s, !.lease[a] = l]

\* One subscriber's turn leaves a subscriber and a lease in its place.
LEMMA PutIn ==
  ASSUME NEW y \in [A -> Atts], NEW c, NEW g, NEW seq, NEW st \in Offers(y, c, g, seq), NEW a \in A,
         NEW s \in Subs, NEW l \in Leases, Charged(y[a], s, l), Placing(c, y[a], s),
         charged(l) <= charged(st.lease[a]) \/ charged(l) - charged(st.lease[a]) <= ReaderCap - bytesOf(st.lease)
  PROVE  putIn(st, a, s, l) \in Offers(y, c, g, seq)
<1>1. /\ st \in [sub : [A -> Subs], lease : [A -> Leases], of : {g}, seq : {seq}]
      /\ st.sub \in [A -> Subs] /\ st.lease \in [A -> Leases]
      /\ \A b \in A : Charged(y[b], st.sub[b], st.lease[b]) /\ Placing(c, y[b], st.sub[b])
      /\ bytesOf(st.lease) <= ReaderCap
  BY DEF Offers
<1>. DEFINE u == [st.sub EXCEPT ![a] = s]
            m == [st.lease EXCEPT ![a] = l]
            n == putIn(st, a, s, l)
<1>2. n = [st EXCEPT !.sub = u, !.lease = m]
  BY DEF putIn
<1>3. /\ u \in [A -> Subs] /\ m \in [A -> Leases] /\ u[a] = s /\ m[a] = l
      /\ \A b \in A \ {a} : u[b] = st.sub[b] /\ m[b] = st.lease[b]
  BY <1>1
<1>4. bytesOf(m) <= ReaderCap
  <2>1. bytesOf(m) = bytesOf(st.lease) + charged(l) - charged(st.lease[a])
    BY <1>1, BytesChange
  <2>2. bytesOf(st.lease) \in Nat /\ charged(l) \in Nat /\ charged(st.lease[a]) \in Nat /\ ReaderCap \in Nat
    BY <1>1, ChargesAre, ChargedIs, ConstantsAre
  <2>. QED BY <1>1, <2>1, <2>2
<1>. HIDE DEF u, m, n
<1>5. \A b \in A : Charged(y[b], u[b], m[b]) /\ Placing(c, y[b], u[b])
  <2>. SUFFICES ASSUME NEW b \in A PROVE Charged(y[b], u[b], m[b]) /\ Placing(c, y[b], u[b])
    OBVIOUS
  <2>1. CASE b = a
    BY <1>3, <2>1
  <2>2. CASE b # a
    BY <1>1, <1>3, <2>2
  <2>. QED BY <2>1, <2>2
<1>6. n \in [sub : [A -> Subs], lease : [A -> Leases], of : {g}, seq : {seq}] /\ n.sub = u /\ n.lease = m
  BY <1>1, <1>2, <1>3
<1>. QED BY <1>4, <1>5, <1>6 DEF Offers, n

\* The turn of one subscriber.
LEMMA OfferedIs ==
  ASSUME NEW y \in [A -> Atts], NEW c \in Counts, NEW g \in Gen, NEW seq \in 1..LastRecord, seq <= c[g],
         NEW st \in Offers(y, c, g, seq), NEW a \in A
  PROVE  offered(st, a) \in Offers(y, c, g, seq)
<1>. DEFINE s == st.sub[a]
            l == st.lease[a]
            b == eventBytes[seq]
            grow == floored(l.events + b) - floored(l.events)
            gap == s.cursor # seq - 1
            full == l.events + b > TailCap \/ grow > ReaderCap - bytesOf(st.lease)
            skipped == ~s.registered \/ s.key # g \/ s.catchingUp \/ s.cursor >= seq
            put(n, m) == putIn(st, a, n, m)
            lagged == put(closed(s, "subscriber_lagged"), drained(l, s))
            behind == put([s EXCEPT !.catchingUp = TRUE], l)
            given == put([s EXCEPT !.queue = Append(@, seq), !.cursor = seq], [l EXCEPT !.events = @ + b])
<1>1. /\ st.of = g /\ st.seq = seq /\ s \in Subs /\ l \in Leases /\ Charged(y[a], s, l) /\ Placing(c, y[a], s)
      /\ y[a] \in Atts /\ st.lease \in [A -> Leases]
  BY DEF Offers
<1>2. offered(st, a) = IF skipped THEN st ELSE IF gap THEN lagged ELSE IF full THEN behind ELSE given
  BY <1>1 DEF offered, putIn
<1>3. b \in Nat /\ \A h \in Gen : c[h] \in Nat
  BY EventBytes, ConstantsAre DEF Counts
<1>4. charged(l) \in Nat /\ l.events \in Nat /\ bytesOf(st.lease) \in Nat
  BY <1>1, ChargedIs, ChargesAre
<1>5. CASE skipped
  BY <1>2, <1>5
<1>6. CASE ~skipped /\ gap
  <2>. DEFINE n == closed(s, "subscriber_lagged")
              m == drained(l, s)
  <2>1. n \in Subs /\ m \in Leases /\ charged(m) <= charged(l) /\ Charged(y[a], n, m) /\ Placing(c, y[a], n)
    <3>1. "subscriber_lagged" \in Reason /\ y[a].event \in 0..LastRecord
      BY <1>1 DEF Reason, Atts
    <3>. QED BY <1>1, <1>3, <3>1, ClosedKeeps
  <2>2. offered(st, a) = putIn(st, a, n, m)
    BY <1>2, <1>6
  <2>. HIDE DEF n, m
  <2>. QED BY <2>1, <2>2, PutIn
<1>7. CASE ~skipped /\ ~gap /\ full
  <2>. DEFINE n == [s EXCEPT !.catchingUp = TRUE]
  <2>1. n \in Subs /\ n.key = s.key /\ n.queue = s.queue /\ n.registered = s.registered
    BY <1>1 DEF Subs
  <2>2. offered(st, a) = putIn(st, a, n, l)
    BY <1>2, <1>7
  <2>3. s.registered
    BY <1>7
  <2>. HIDE DEF n, s, l
  <2>4. s # NoSub
    BY <2>3 DEF NoSub
  <2>5. Charged(y[a], n, l) /\ Placing(c, y[a], n)
    BY <1>1, <2>1, <2>3, <2>4 DEF Charged, Placing
  <2>6. charged(l) <= charged(st.lease[a])
    BY <1>4 DEF l
  <2>. QED BY <1>1, <2>1, <2>2, <2>5, <2>6, PutIn
<1>8. CASE ~skipped /\ ~gap /\ ~full
  <2>. DEFINE q == Append(s.queue, seq)
              e == l.events + b
              n == [s EXCEPT !.queue = q, !.cursor = seq]
              m == [l EXCEPT !.events = e]
  <2>1. offered(st, a) = putIn(st, a, n, m)
    BY <1>2, <1>8
  <2>2. s.registered /\ s.key = g /\ grow <= ReaderCap - bytesOf(st.lease)
    <3>1. floored(l.events + b) \in Nat /\ floored(l.events) \in Nat /\ ReaderCap \in Nat
      BY <1>3, <1>4, FlooredIs, ConstantsAre
    <3>. QED BY <1>3, <1>4, <1>8, <3>1
  <2>3. /\ s.queue \in Seq(1..LastRecord) /\ q \in Queues /\ queueBytes(q) = queueBytes(s.queue) + b
        /\ queueBytes(s.queue) \in Nat
        /\ Len(s.queue) \in Nat /\ Len(q) = Len(s.queue) + 1 /\ q[Len(s.queue) + 1] = seq
        /\ \A i \in 1..Len(s.queue) : q[i] = s.queue[i]
    <3>1. s.queue \in Seq(1..LastRecord)
      BY <1>1 DEF Subs, Queues
    <3>2. queueBytes(q) = queueBytes(s.queue) + b /\ queueBytes(s.queue) \in Nat
      BY <3>1, QueueBytes
    <3>. DEFINE w == s.queue
                S == 1..LastRecord
    <3>3. w \in Seq(S) /\ seq \in S
      BY <3>1
    <3>. HIDE DEF w, S
    <3>4. /\ Append(w, seq) \in Seq(S) /\ Len(w) \in Nat /\ Len(Append(w, seq)) = Len(w) + 1
          /\ Append(w, seq)[Len(w) + 1] = seq /\ \A i \in 1..Len(w) : Append(w, seq)[i] = w[i]
      BY <3>3, Appended
    <3>. QED BY <3>1, <3>2, <3>4 DEF w, S, Queues
  <2>4. e \in Nat /\ charged(m) - charged(l) = grow /\ m \in Leases /\ m.events = e /\ m.catchUp = l.catchUp
        /\ m.snapshot = l.snapshot /\ m.fixed = l.fixed /\ m.detached = l.detached
    <3>1. e \in Nat
      BY <1>3, <1>4
    <3>. DEFINE f == e
    <3>2. /\ m \in Leases /\ m.events = e /\ m.catchUp = l.catchUp /\ m.snapshot = l.snapshot /\ m.fixed = l.fixed
          /\ m.detached = l.detached
      <4>. HIDE DEF e, l
      <4>. QED BY <1>1, <3>1 DEF Leases
    <3>. HIDE DEF m, e, l
    <3>3. charged(m) = m.fixed + m.snapshot + m.catchUp + floored(m.events) - Floor
          /\ charged(l) = l.fixed + l.snapshot + l.catchUp + floored(l.events) - Floor
      BY DEF charged
    <3>4. l.fixed \in Nat /\ l.snapshot \in Nat /\ l.catchUp \in Nat /\ floored(e) \in Nat /\ floored(l.events) \in Nat
          /\ Floor \in Nat
      BY <1>1, <1>4, <3>1, ChargedIs, FlooredIs, ConstantsAre
    <3>5. grow = floored(e) - floored(l.events)
      BY DEF e
    <3>6. charged(m) - charged(l) = floored(e) - floored(l.events)
      BY <3>2, <3>3, <3>4
    <3>. QED BY <3>1, <3>2, <3>5, <3>6
  <2>. HIDE DEF q, e, grow
  <2>5. n \in Subs /\ n.queue = q /\ n.key = s.key /\ n.registered = s.registered
    <3>1. seq \in 0..LastRecord
      BY ConstantsAre
    <3>. HIDE DEF s
    <3>. QED BY <1>1, <2>3, <3>1 DEF Subs
  <2>6. s # NoSub /\ l.events = queueBytes(s.queue) + (IF y[a].event = 0 THEN 0 ELSE eventBytes[y[a].event])
    BY <1>1, <2>2 DEF NoSub, Charged
  <2>. HIDE DEF s, l, n, m, b
  <2>7. Charged(y[a], n, m)
    <3>1. y[a].event # 0 => eventBytes[y[a].event] \in Nat
      <4>1. y[a].event \in 0..LastRecord
        BY <1>1 DEF Atts
      <4>2. y[a].event # 0 => y[a].event \in 1..LastRecord
        BY <4>1, ConstantsAre
      <4>. QED BY <4>2, EventBytes
    <3>2. m.events = queueBytes(n.queue) + (IF y[a].event = 0 THEN 0 ELSE eventBytes[y[a].event])
      BY <1>3, <2>3, <2>4, <2>5, <2>6, <3>1 DEF e
    <3>. QED BY <1>1, <2>2, <2>4, <2>5, <2>6, <3>2 DEF Charged
  <2>8. Placing(c, y[a], n)
    <3>1. \A i \in 1..Len(q) : i \in 1..Len(s.queue) \/ i = Len(s.queue) + 1
      BY <2>3
    <3>2. ASSUME y[a].pc \in Writing
          PROVE  \A i \in 1..Len(n.queue) : n.queue[i] <= c[n.key]
      <4>1. \A i \in 1..Len(s.queue) : s.queue[i] <= c[s.key]
        BY <1>1, <3>2 DEF Placing, Writing
      <4>. QED BY <2>2, <2>3, <2>5, <3>1, <4>1
    <3>. QED BY <1>1, <2>5, <3>2 DEF Placing, Writing
  <2>9. charged(m) - charged(st.lease[a]) <= ReaderCap - bytesOf(st.lease)
    BY <2>2, <2>4 DEF l
  <2>. QED BY <2>1, <2>4, <2>5, <2>7, <2>8, <2>9, PutIn
<1>. QED BY <1>5, <1>6, <1>7, <1>8

O == INSTANCE Folding WITH Op <- offered, X <- A

\* All of them, in whatever order.
LEMMA OfferedAll ==
  ASSUME NEW y \in [A -> Atts], NEW c \in Counts, NEW g \in Gen, NEW seq \in 1..LastRecord, seq <= c[g],
         NEW st \in Offers(y, c, g, seq), NEW order \in [A -> A]
  PROVE  FoldLeft(offered, st, order) \in Offers(y, c, g, seq)
<1>1. FoldLeft(offered, st, order) = O!fold(st, order)
  BY DEF O!fold, FoldLeft, MapThenFoldSet, Max, O!last
<1>2. order \in Seq(A)
  <2>1. Attachments \in Nat /\ A = 1..Attachments
    BY ConstantsAre DEF A
  <2>. DEFINE S == A
  <2>2. order \in [1..Attachments -> S]
    BY <2>1
  <2>. HIDE DEF S
  <2>3. order \in Seq(S)
    BY <2>1, <2>2
  <2>. QED BY <2>3 DEF S
<1>. DEFINE V == Offers(y, c, g, seq)
<1>3. \A v \in V, a \in A : offered(v, a) \in V
  BY OfferedIs
<1>. HIDE DEF V
<1>4. O!fold(st, order) \in V
  <2>1. st \in V
    BY DEF V
  <2>. QED BY <1>2, <1>3, <2>1, O!FoldStays
<1>. QED BY <1>1, <1>4 DEF V

\* A publication keeps the readers' invariant.
LEMMA PublishKeeps ==
  ASSUME ReadersInv, NEW g \in Gen, Publish(g)
  PROVE  ReadersInv'
<1>. DEFINE seq == journal.published[g] + 1
            c == journal.committed
            p == [journal.published EXCEPT ![g] = seq]
            st0 == [sub |-> sub, lease |-> lease, of |-> g, seq |-> seq]
<1>1. journal \in Journals /\ Counted(journal) /\ LastRecord \in Nat
      /\ \A h \in Gen : journal.committed[h] \in 0..LastRecord /\ journal.published[h] \in 0..LastRecord
  BY JournalIs, ConstantsAre
<1>2. PICK order \in [A -> A] :
        LET st == FoldLeft(offered, st0, order) IN sub' = st.sub /\ lease' = st.lease
  BY DEF Publish
<1>3. seq \in 1..LastRecord /\ seq <= c[g] /\ c \in Counts /\ journal.published \in Counts
  <2>1. c \in Counts /\ journal.published \in Counts
    BY <1>1 DEF Journals
  <2>2. seq <= c[g]
    BY DEF Publish
  <2>. QED BY <1>1, <2>1, <2>2
<1>4. journal' = [journal EXCEPT !.published = p] /\ UNCHANGED <<att, conn, page>>
  BY DEF Publish
<1>5. /\ att \in [A -> Atts] /\ sub \in [A -> Subs] /\ lease \in [A -> Leases]
      /\ \A a \in A : Charged(att[a], sub[a], lease[a]) /\ Placing(c, att[a], sub[a])
      /\ bytesOf(lease) <= ReaderCap
  BY DEF ReadersInv, Shapes, budget
<1>. HIDE DEF seq, c
<1>6. st0 \in Offers(att, c, g, seq)
  <2>1. /\ st0 \in [sub : [A -> Subs], lease : [A -> Leases], of : {g}, seq : {seq}] /\ st0.sub = sub
        /\ st0.lease = lease
    BY <1>5
  <2>. HIDE DEF st0
  <2>2. \A a \in A : Charged(att[a], st0.sub[a], st0.lease[a]) /\ Placing(c, att[a], st0.sub[a])
    BY <1>5, <2>1
  <2>3. bytesOf(st0.lease) <= ReaderCap
    BY <1>5, <2>1
  <2>. QED BY <2>1, <2>2, <2>3 DEF Offers
<1>. HIDE DEF st0
<1>7. PICK st \in Offers(att, c, g, seq) : sub' = st.sub /\ lease' = st.lease
  BY <1>2, <1>3, <1>5, <1>6, OfferedAll
<1>8. /\ sub' \in [A -> Subs] /\ lease' \in [A -> Leases] /\ bytesOf(lease') <= ReaderCap
      /\ \A a \in A : Charged(att[a], sub'[a], lease'[a]) /\ Placing(c, att[a], sub'[a])
  BY <1>7 DEF Offers
<1>9. /\ p \in Counts /\ p[g] = seq /\ \A h \in Gen \ {g} : p[h] = journal.published[h]
  BY <1>3 DEF Counts
<1>. HIDE DEF p
<1>10. /\ journal' \in Journals /\ journal'.committed = journal.committed /\ journal'.published = p
       /\ journal'.latest = journal.latest /\ journal'.active = journal.active /\ journal'.rotation = journal.rotation
  BY <1>1, <1>4, <1>9 DEF Journals
<1>11. Counted(journal')
  <2>1. ASSUME NEW h \in Gen PROVE p[h] <= journal.committed[h]
    <3>1. journal.published[h] <= journal.committed[h]
      BY <1>1 DEF Counted
    <3>. QED BY <1>3, <1>9, <3>1 DEF c
  <2>. QED BY <1>1, <1>10, <2>1 DEF Counted
<1>12. \A h \in Gen : journal.committed[h] <= journal'.committed[h]
  BY <1>10, JournalIs
<1>. QED BY <1>4, <1>8, <1>10, <1>11, <1>12, JournalStep DEF c

(***************************************************************************)
(* Steps of the page.                                                      *)
(***************************************************************************)

\* A step of the page: the readers stay as they are, but for flags.
LEMMA PageStep ==
  ASSUME ReadersInv, page' \in Pages, page'.generation >= page.generation,
         page'.open => page'.generation # 0, UNCHANGED <<journal, sub, lease>>,
         att' \in [A -> Atts], conn' \in [A -> Conns],
         \A a \in A : /\ Charged(att'[a], sub[a], lease[a]) /\ Placing(journal.committed, att'[a], sub[a])
                      /\ Len(conn'[a].wire) <= WireFrames
                      /\ a > page'.generation => att'[a] = Idle /\ ~conn'[a].open
  PROVE  ReadersInv'
<1>1. journal' = journal /\ sub' = sub /\ lease' = lease
  OBVIOUS
<1>2. Shapes' /\ Counted(journal') /\ Paged'
  BY <1>1 DEF ReadersInv, Shapes, Paged
<1>3. ASSUME NEW a \in A
      PROVE  Charged(att'[a], sub'[a], lease'[a]) /\ Placing(journal'.committed, att'[a], sub'[a]) /\ Connected(a)'
  BY <1>1 DEF Connected
<1>4. budget' <= ReaderCap
  BY <1>1 DEF ReadersInv, budget
<1>. QED BY <1>2, <1>3, <1>4 DEF ReadersInv, Charged, Placing

\* A step of the page that leaves the writers alone: its own connection may change.
LEMMA PageAlone ==
  ASSUME ReadersInv, page' \in Pages, page'.generation = page.generation, page.open,
         UNCHANGED <<journal, sub, att, lease>>, NEW c \in Conns, Len(c.wire) <= WireFrames,
         conn' = [conn EXCEPT ![page.generation] = c]
  PROVE  ReadersInv'
<1>1. /\ att \in [A -> Atts] /\ conn \in [A -> Conns] /\ att' = att /\ page \in Pages /\ page.generation # 0
  BY DEF ReadersInv, Shapes, Paged
<1>. DEFINE g == page.generation
<1>2. g \in A /\ g \in Nat
  BY <1>1, ConstantsAre DEF Pages, A
<1>3. conn' \in [A -> Conns] /\ conn'[g] = c /\ \A a \in A \ {g} : conn'[a] = conn[a]
  BY <1>1, <1>2
<1>4. ASSUME NEW a \in A
      PROVE  /\ Charged(att'[a], sub[a], lease[a]) /\ Placing(journal.committed, att'[a], sub[a])
             /\ Len(conn'[a].wire) <= WireFrames
             /\ a > page'.generation => att'[a] = Idle /\ ~conn'[a].open
  <2>1. /\ Charged(att[a], sub[a], lease[a]) /\ Placing(journal.committed, att[a], sub[a]) /\ Connected(a)
        /\ a \in Nat
    BY ConstantsAre DEF ReadersInv, A
  <2>2. CASE a = g
    BY <1>1, <1>2, <1>3, <2>1, <2>2
  <2>3. CASE a # g
    BY <1>1, <1>3, <2>1, <2>3 DEF Connected
  <2>. QED BY <2>2, <2>3
<1>5. page'.generation >= page.generation
  BY <1>2
<1>. QED BY <1>1, <1>3, <1>4, <1>5, PageStep

\* What a closed connection holds.
LEMMA ClosedConn == [wire |-> <<>>, open |-> FALSE] \in Conns /\ Len([wire |-> <<>>, open |-> FALSE].wire) <= WireFrames
<1>. DEFINE S == Seq(Frame)
<1>1. <<>> \in S /\ Outs = S /\ Len(<<>>) = 0
  BY DEF Outs
<1>. HIDE DEF S
<1>. QED BY <1>1, ConstantsAre DEF Conns

\* A lost connection keeps the readers' invariant.
LEMMA PageDisconnectsKeeps ==
  ASSUME ReadersInv, PageDisconnects
  PROVE  ReadersInv'
<1>. DEFINE c == [wire |-> <<>>, open |-> FALSE]
<1>1. page \in Pages
  BY DEF ReadersInv, Shapes
<1>2. page' = [page EXCEPT !.open = FALSE, !.committed = FALSE] /\ conn' = [conn EXCEPT ![page.generation] = c]
  BY DEF PageDisconnects, pageClosed, pageHangsUp
<1>3. c \in Conns /\ Len(c.wire) <= WireFrames
  BY ClosedConn
<1>. HIDE DEF c
<1>4. page' \in Pages /\ page'.generation = page.generation
  BY <1>1, <1>2 DEF Pages
<1>. QED BY <1>2, <1>3, <1>4, PageAlone DEF PageDisconnects

\* A page that is closed, or that forgets its point, is a page.
LEMMA PageForgets ==
  ASSUME NEW p \in Pages, NEW n \in 0..Attachments
  PROVE  LET f == [p EXCEPT !.point = NoPoint, !.offer = NoPoint]
         IN /\ f \in Pages /\ f.generation = p.generation /\ f.queue = p.queue
            /\ pageClosed(p) \in Pages /\ pageClosed(p).generation = p.generation
            /\ [f EXCEPT !.prepared = n] \in Pages /\ [f EXCEPT !.prepared = n].generation = p.generation
            /\ [f EXCEPT !.prepared = n].queue = p.queue
<1>1. NoPoint \in Point
  <2>1. Origin \in Cursor
    BY Bounds DEF Origin, cursor, Cursor
  <2>. QED BY <2>1, ConstantsAre DEF NoPoint, Point
<1>. QED BY <1>1 DEF Pages, pageClosed

\* Writes put in the page's queue.
LEMMA Wrote ==
  ASSUME NEW p \in Pages, NEW w \in Writes
  PROVE  /\ [p EXCEPT !.queue = Append(@, w)] \in Pages
         /\ [p EXCEPT !.queue = Append(@, w)].generation = p.generation
<1>. DEFINE q == p.queue
            r == Append(q, w)
<1>1. q \in Seq(Writes)
  BY DEF Pages, Pending
<1>2. r \in Pending
  <2>. HIDE DEF q
  <2>. QED BY <1>1, Appended DEF Pending
<1>3. [p EXCEPT !.queue = Append(@, w)] = [p EXCEPT !.queue = r]
  OBVIOUS
<1>. HIDE DEF r
<1>. QED BY <1>2, <1>3 DEF Pages

\* A frame taken from the wire.
LEMMA Taken ==
  ASSUME NEW c \in Conns, c.wire # <<>>, Len(c.wire) <= WireFrames
  PROVE  /\ Head(c.wire) \in Frame /\ [c EXCEPT !.wire = Tail(@)] \in Conns
         /\ Len([c EXCEPT !.wire = Tail(@)].wire) <= WireFrames
<1>. DEFINE w == c.wire
            t == Tail(w)
<1>1. w \in Seq(Frame) /\ w # <<>> /\ WireFrames \in Nat /\ Len(w) <= WireFrames
  BY ConstantsAre DEF Conns, Outs
<1>2. Head(w) = w[1] /\ w[1] \in Frame /\ t \in Seq(Frame) /\ Len(t) = Len(w) - 1 /\ Len(w) \in Nat
  <2>. HIDE DEF w
  <2>. QED BY <1>1, HeadTail
<1>3. t \in Outs /\ Len(t) <= WireFrames
  BY <1>1, <1>2 DEF Outs
<1>4. [c EXCEPT !.wire = Tail(@)] = [c EXCEPT !.wire = t]
  OBVIOUS
<1>5. Head(c.wire) \in Frame
  BY <1>2
<1>. HIDE DEF t
<1>. QED BY <1>3, <1>4, <1>5 DEF Conns

\* A frame received keeps the readers' invariant.
LEMMA PageReceivesKeeps ==
  ASSUME ReadersInv, PageReceives
  PROVE  ReadersInv'
<1>. DEFINE g == page.generation
            f == Head(conn[g].wire)
            forgotten == [page EXCEPT !.point = NoPoint, !.offer = NoPoint]
            admission == [forgotten EXCEPT !.prepared = g]
            c0 == [wire |-> <<>>, open |-> FALSE]
            c1 == [conn[g] EXCEPT !.wire = Tail(@)]
<1>1. page \in Pages /\ page.open /\ g \in A /\ g \in 0..Attachments /\ conn[g].wire # <<>>
      /\ UNCHANGED <<journal, sub, att, lease>>
  <2>1. page \in Pages /\ page.open /\ page.generation # 0
    BY DEF ReadersInv, Shapes, Paged, PageReceives
  <2>. QED BY <2>1, ConstantsAre DEF Pages, A, PageReceives
<1>2. conn[g] \in Conns /\ Len(conn[g].wire) <= WireFrames
  BY <1>1, ReaderIs
<1>3. f \in Frame /\ c1 \in Conns /\ Len(c1.wire) <= WireFrames
  BY <1>1, <1>2, Taken
<1>4. c0 \in Conns /\ Len(c0.wire) <= WireFrames
  BY ClosedConn
<1>5. /\ forgotten \in Pages /\ forgotten.generation = g /\ pageClosed(page) \in Pages
      /\ pageClosed(page).generation = g
      /\ admission \in Pages /\ admission.generation = g /\ admission.queue = page.queue
  BY <1>1, PageForgets
<1>6. pageClosed(forgotten) \in Pages /\ pageClosed(forgotten).generation = g
  <2>. HIDE DEF forgotten
  <2>. QED BY <1>1, <1>5, PageForgets
<1>7. ASSUME NEW op \in {"RESET", "REPLAY", "LIVE", "RESIZE"}, op = "RESIZE" => f.kind = "RESIZE"
      PROVE  write(op, f) \in Writes
  <2>. HIDE DEF f
  <2>. QED BY <1>1, <1>3, <1>7 DEF write, Writes
<1>8. CASE ~inState(f)
  <2>. DEFINE p == IF f.kind = "PREPARE" THEN forgotten ELSE page
  <2>1. \/ page' = pageClosed(p) /\ conn' = [conn EXCEPT ![g] = c0]
    BY <1>8 DEF PageReceives, pageHangsUp
  <2>2. pageClosed(p) \in Pages /\ pageClosed(p).generation = g
    BY <1>5, <1>6
  <2>. HIDE DEF p, c0
  <2>. QED BY <1>1, <1>4, <2>1, <2>2, PageAlone
<1>9. CASE inState(f)
  <2>1. /\ conn' = [conn EXCEPT ![g] = c1]
        /\ \/ /\ f.kind = "PREPARE" /\ f.resumed
              /\ page' = [admission EXCEPT !.queue = Append(@, write("REPLAY", f))]
           \/ /\ f.kind = "PREPARE" /\ ~f.resumed
              /\ page' = [admission EXCEPT !.queue = @ \o <<write("RESET", f), write("REPLAY", f)>>]
           \/ /\ f.kind = "COMMIT"
              /\ page' = [page EXCEPT !.committed = TRUE]
           \/ /\ f.kind \in {"LIVE", "RESIZE"}
              /\ page' = [page EXCEPT !.queue = Append(@, write(f.kind, f))]
    BY <1>9 DEF PageReceives
  <2>2. ASSUME page' \in Pages, page'.generation = g PROVE ReadersInv'
    <3>. HIDE DEF c1
    <3>. QED BY <1>1, <1>3, <2>1, <2>2, PageAlone
  <2>3. CASE page' = [admission EXCEPT !.queue = Append(@, write("REPLAY", f))]
    <3>1. write("REPLAY", f) \in Writes
      BY <1>7
    <3>. HIDE DEF admission, f
    <3>2. page' \in Pages /\ page'.generation = g
      BY <1>5, <2>3, <3>1, Wrote
    <3>. QED BY <2>2, <3>2
  <2>4. CASE page' = [admission EXCEPT !.queue = @ \o <<write("RESET", f), write("REPLAY", f)>>]
    <3>1. write("REPLAY", f) \in Writes /\ write("RESET", f) \in Writes
      BY <1>7
    <3>. DEFINE v == write("RESET", f)
                w == write("REPLAY", f)
                q == admission.queue
                two == <<v, w>>
                r == q \o two
    <3>2. r \in Pending
      <4>1. q \in Seq(Writes)
        BY <1>5 DEF Pages, Pending
      <4>2. two \in Seq(Writes)
        <5>1. v \in Writes /\ w \in Writes
          BY <3>1
        <5>. HIDE DEF v, w
        <5>. QED BY <5>1
      <4>. HIDE DEF q, two
      <4>3. q \o two \in Seq(Writes)
        BY <4>1, <4>2
      <4>. QED BY <4>3 DEF Pending
    <3>3. page' = [admission EXCEPT !.queue = r]
      BY <2>4
    <3>. HIDE DEF r, admission
    <3>4. page' \in Pages /\ page'.generation = g
      BY <1>5, <3>2, <3>3 DEF Pages
    <3>. QED BY <2>2, <3>4
  <2>5. CASE page' = [page EXCEPT !.committed = TRUE]
    <3>1. page' \in Pages /\ page'.generation = g
      BY <1>1, <2>5 DEF Pages
    <3>. QED BY <2>2, <3>1
  <2>6. CASE f.kind \in {"LIVE", "RESIZE"} /\ page' = [page EXCEPT !.queue = Append(@, write(f.kind, f))]
    <3>1. write(f.kind, f) \in Writes
      BY <1>7, <2>6
    <3>. HIDE DEF f
    <3>2. page' \in Pages /\ page'.generation = g
      BY <1>1, <2>6, <3>1, Wrote
    <3>. QED BY <2>2, <3>2
  <2>. QED BY <2>1, <2>3, <2>4, <2>5, <2>6
<1>. QED BY <1>8, <1>9

\* What a write does to the point.
LEMMA AdvancedIs ==
  ASSUME NEW p \in Point, NEW w \in Writes
  PROVE  advanced(p, w) \in Point
<1>1. NoPoint \in Point
  <2>1. Origin \in Cursor
    BY Bounds DEF Origin, cursor, Cursor
  <2>. QED BY <2>1, ConstantsAre DEF NoPoint, Point
<1>2. w.frame.at \in Cursor
  BY DEF Writes, Frame, isFrame
<1>3. [p EXCEPT !.at = w.frame.at] \in Point
  BY <1>2 DEF Point
<1>4. advanced(p, w) = [p EXCEPT !.at = w.frame.at] \/ advanced(p, w) = NoPoint
  BY DEF advanced
<1>. QED BY <1>1, <1>3, <1>4

\* The first write of the page's queue.
LEMMA FirstWrite ==
  ASSUME NEW p \in Pages, p.queue # <<>>
  PROVE  LET w == Head(p.queue)
             grown == p.shown \o w.frame.atoms
         IN /\ w \in Writes /\ Tail(p.queue) \in Pending /\ w.gen \in A /\ grown \in Shown
            /\ w.frame \in Frame /\ w.frame.at \in Cursor /\ w.frame.stream \in 0..Generations
            /\ w.frame.geometry \in 0..LastRecord /\ w.frame.atoms \in Seq(Atom)
            /\ w.op = "RESIZE" => w.frame.atoms[1][1] \in 0..LastRecord
<1>. DEFINE q == p.queue
            w == Head(q)
<1>1. q \in Seq(Writes) /\ q # <<>> /\ p.shown \in Seq(Atom)
  BY DEF Pages, Pending, Shown
<1>2. w \in Writes /\ Tail(q) \in Seq(Writes)
  <2>1. Head(q) = q[1] /\ q[1] \in Writes /\ Tail(q) \in Seq(Writes)
    <3>. HIDE DEF q
    <3>. QED BY <1>1, HeadTail
  <2>. QED BY <2>1
<1>3. w.gen \in A /\ w.frame \in Frame /\ (w.op = "RESIZE" => w.frame.kind = "RESIZE")
  <2>. HIDE DEF w
  <2>. QED BY <1>2 DEF Writes
<1>. DEFINE f == w.frame
<1>4. /\ f.at \in Cursor /\ f.stream \in 0..Generations /\ f.geometry \in 0..LastRecord /\ f.atoms \in Seq(Atom)
      /\ f.kind = "RESIZE" => Len(f.atoms) = 1
  <2>1. f \in Frame
    BY <1>3
  <2>. HIDE DEF f
  <2>. QED BY <2>1 DEF Frame, isFrame
<1>5. w.op = "RESIZE" => f.atoms[1][1] \in 0..LastRecord
  <2>. SUFFICES ASSUME w.op = "RESIZE" PROVE f.atoms[1][1] \in 0..LastRecord
    OBVIOUS
  <2>. DEFINE a == f.atoms
  <2>1. a \in Seq(Atom) /\ Len(a) = 1
    BY <1>3, <1>4
  <2>. HIDE DEF a
  <2>2. a[1] \in Atom
    BY <2>1
  <2>3. a[1][1] \in 1..LastRecord
    BY <2>2, AtomIs
  <2>4. a[1][1] \in 0..LastRecord
    BY <2>3, ConstantsAre
  <2>. QED BY <2>4 DEF a
<1>6. p.shown \o f.atoms \in Shown
  <2>. DEFINE a == f.atoms
              s == p.shown
  <2>1. a \in Seq(Atom) /\ s \in Seq(Atom)
    BY <1>1, <1>4
  <2>. HIDE DEF a, s
  <2>2. s \o a \in Seq(Atom)
    BY <2>1
  <2>. QED BY <2>2 DEF a, s, Shown
<1>. QED BY <1>2, <1>3, <1>4, <1>5, <1>6 DEF Pending

\* What the page is after one more write.
LEMMA ParsedIs ==
  ASSUME NEW p \in Pages, p.queue # <<>>, PageParses, page = p
  PROVE  page' \in Pages /\ page'.generation = p.generation /\ page'.open = p.open
<1>. DEFINE w == Head(p.queue)
            q == Tail(p.queue)
            s == p.shown \o w.frame.atoms
            k == w.frame.stream
            h == w.frame.geometry
            z == <<>>
            n == [stream |-> k, at |-> w.frame.at, generation |-> w.gen]
            v == advanced(p.point, w)
            r == w.frame.atoms[1][1]
            rest == [p EXCEPT !.queue = q]
            grown == [p EXCEPT !.queue = q, !.shown = s]
<1>1. /\ w \in Writes /\ q \in Pending /\ w.gen \in A /\ s \in Shown /\ w.frame.at \in Cursor
      /\ k \in 0..Generations /\ h \in 0..LastRecord /\ (w.op = "RESIZE" => r \in 0..LastRecord)
  BY FirstWrite
<1>2. z \in Shown /\ p.point \in Point
  BY DEF Shown, Pages
<1>3. n \in Point
  <2>1. w.gen \in 0..Attachments
    BY <1>1, ConstantsAre DEF A
  <2>. QED BY <1>1, <2>1 DEF Point
<1>4. v \in Point
  BY <1>1, <1>2, AdvancedIs
<1>5. \/ page' = [p EXCEPT !.queue = q, !.shown = z, !.stream = k, !.geometry = h]
      \/ page' = [p EXCEPT !.queue = q]
      \/ page' = [p EXCEPT !.queue = q, !.shown = s, !.point = n]
      \/ page' = [p EXCEPT !.queue = q, !.shown = s]
      \/ page' = [p EXCEPT !.queue = q, !.shown = s, !.point = v]
      \/ w.op = "RESIZE" /\ page' = [p EXCEPT !.queue = q, !.shown = s, !.point = v, !.geometry = r]
  <2>1. /\ rest.shown = p.shown /\ grown.point = p.point
    BY DEF Pages
  <2>. QED BY <2>1 DEF PageParses
<1>. HIDE DEF w, q, s, k, h, z, n, v, r
<1>6. CASE page' = [p EXCEPT !.queue = q, !.shown = z, !.stream = k, !.geometry = h]
  BY <1>1, <1>2, <1>6 DEF Pages
<1>7. CASE page' = [p EXCEPT !.queue = q]
  BY <1>1, <1>7 DEF Pages
<1>8. CASE page' = [p EXCEPT !.queue = q, !.shown = s, !.point = n]
  BY <1>1, <1>3, <1>8 DEF Pages
<1>9. CASE page' = [p EXCEPT !.queue = q, !.shown = s]
  BY <1>1, <1>9 DEF Pages
<1>10. CASE page' = [p EXCEPT !.queue = q, !.shown = s, !.point = v]
  BY <1>1, <1>4, <1>10 DEF Pages
<1>11. CASE w.op = "RESIZE" /\ page' = [p EXCEPT !.queue = q, !.shown = s, !.point = v, !.geometry = r]
  BY <1>1, <1>4, <1>11 DEF Pages
<1>. QED BY <1>5, <1>6, <1>7, <1>8, <1>9, <1>10, <1>11

\* A write parsed keeps the readers' invariant.
LEMMA PageParsesKeeps ==
  ASSUME ReadersInv, PageParses
  PROVE  ReadersInv'
<1>1. /\ page \in Pages /\ page.queue # <<>> /\ att \in [A -> Atts] /\ conn \in [A -> Conns]
      /\ UNCHANGED <<journal, sub, lease, conn>> /\ (page.open => page.generation # 0)
  BY DEF ReadersInv, Shapes, Paged, PageParses
<1>2. page' \in Pages /\ page'.generation = page.generation /\ page'.open = page.open
  BY <1>1, ParsedIs
<1>. DEFINE k == Head(page.queue).gen
<1>3. k \in A
  BY <1>1, FirstWrite
<1>4. UNCHANGED att \/ (conn[k].open /\ att' = [att EXCEPT ![k] = [att[k] EXCEPT !.ready = TRUE]])
  BY DEF PageParses
<1>. HIDE DEF k
<1>5. ASSUME NEW a \in A
      PROVE  /\ att'[a] \in Atts /\ att'[a].pc = att[a].pc /\ at_(att'[a], att[a])
             /\ a > page.generation => att'[a] = att[a]
  <2>1. CASE att'[a] = att[a]
    BY <1>1, <2>1 DEF at_
  <2>2. CASE conn[k].open /\ a = k /\ att'[a] = [att[a] EXCEPT !.ready = TRUE]
    <3>1. ~(a > page.generation)
      BY <2>2 DEF ReadersInv, Connected
    <3>2. att[a] \in Atts
      BY <1>1
    <3>. DEFINE x == [att[a] EXCEPT !.ready = TRUE]
    <3>3. x \in Atts /\ x.pc = att[a].pc /\ at_(x, att[a])
      BY <3>2 DEF Atts, at_
    <3>4. att'[a] = x
      BY <2>2
    <3>. HIDE DEF x
    <3>. QED BY <3>1, <3>3, <3>4
  <2>. QED BY <1>1, <1>3, <1>4, <2>1, <2>2
<1>6. att' \in [A -> Atts]
  <2>1. CASE UNCHANGED att
    BY <1>1, <2>1
  <2>2. CASE att' = [att EXCEPT ![k] = [att[k] EXCEPT !.ready = TRUE]]
    <3>. DEFINE x == [att[k] EXCEPT !.ready = TRUE]
    <3>1. x \in Atts
      BY <1>1, <1>3 DEF Atts
    <3>2. att' = [att EXCEPT ![k] = x]
      BY <2>2
    <3>. HIDE DEF x
    <3>. QED BY <1>1, <3>1, <3>2
  <2>. QED BY <1>4, <2>1, <2>2
<1>7. conn' = conn
  BY <1>1
<1>8. ASSUME NEW a \in A
      PROVE  /\ Charged(att'[a], sub[a], lease[a]) /\ Placing(journal.committed, att'[a], sub[a])
             /\ Len(conn'[a].wire) <= WireFrames
             /\ a > page'.generation => att'[a] = Idle /\ ~conn'[a].open
  <2>1. Charged(att[a], sub[a], lease[a]) /\ Placing(journal.committed, att[a], sub[a])
    BY ReaderIs
  <2>2. Charged(att'[a], sub[a], lease[a]) /\ Placing(journal.committed, att'[a], sub[a])
    BY <1>5, <2>1, StillThere
  <2>3. Connected(a)
    BY DEF ReadersInv
  <2>. QED BY <1>2, <1>5, <1>7, <2>2, <2>3 DEF Connected
<1>9. page'.generation >= page.generation
  BY <1>1, <1>2, ConstantsAre DEF Pages
<1>10. conn' \in [A -> Conns]
  BY <1>1
<1>. QED BY <1>1, <1>2, <1>6, <1>8, <1>9, <1>10, PageStep

\* A connection made keeps the readers' invariant.
LEMMA PageConnectsKeeps ==
  ASSUME ReadersInv, NEW reload \in BOOLEAN, PageConnects(reload)
  PROVE  ReadersInv'
<1>. DEFINE g == page.generation + 1
            point == IF reload THEN NoPoint ELSE page.point
            offer == IF page.queue = <<>> THEN point ELSE NoPoint
            x == [att[g] EXCEPT !.pc = "attaching", !.resume = offer]
            c == [conn[g] EXCEPT !.open = TRUE]
<1>1. /\ page \in Pages /\ att \in [A -> Atts] /\ conn \in [A -> Conns] /\ UNCHANGED <<journal, sub, lease>>
      /\ page.generation < Attachments
  BY DEF ReadersInv, Shapes, PageConnects
<1>2. g \in A /\ g \in 0..Attachments /\ g \in Nat /\ page.generation \in Nat
  BY <1>1, ConstantsAre DEF Pages, A
<1>3. point \in Point /\ offer \in Point
  <2>1. NoPoint \in Point /\ page.point \in Point
    <3>1. Origin \in Cursor
      BY Bounds DEF Origin, cursor, Cursor
    <3>. QED BY <1>1, <3>1, ConstantsAre DEF NoPoint, Point, Pages
  <2>. QED BY <2>1
<1>4. /\ page' = [page EXCEPT !.generation = g, !.open = TRUE, !.prepared = 0, !.committed = FALSE,
                              !.point = point, !.offer = offer]
      /\ att' = [att EXCEPT ![g] = x] /\ conn' = [conn EXCEPT ![g] = c]
  BY DEF PageConnects
<1>5. att[g] = Idle /\ Charged(att[g], sub[g], lease[g])
  <2>1. g > page.generation
    BY <1>2
  <2>. QED BY <1>2, <2>1 DEF ReadersInv, Connected
<1>. HIDE DEF g, point, offer
<1>6. page' \in Pages /\ page'.generation = g
  <2>1. page \in Pages /\ 0 \in 0..Attachments
    BY <1>1, ConstantsAre
  <2>. QED BY <1>2, <1>3, <1>4, <2>1 DEF Pages
<1>7. x \in Atts /\ x.pc = "attaching" /\ x.event = 0 /\ x.charge = 0
  <2>1. x.event = att[g].event /\ x.charge = att[g].charge /\ x \in Atts /\ x.pc = "attaching"
    <3>1. att[g] \in Atts /\ "attaching" \in Where
      BY <1>1, <1>2 DEF Where
    <3>. QED BY <1>3, <3>1 DEF Atts
  <2>. QED BY <1>5, <2>1 DEF Idle
<1>8. c \in Conns /\ c.wire = conn[g].wire
  BY <1>1, <1>2 DEF Conns
<1>. HIDE DEF x, c
<1>9. sub[g] = NoSub /\ lease[g] = NoLease
  BY <1>5 DEF Charged, Idle
<1>10. Charged(x, sub[g], lease[g]) /\ Placing(journal.committed, x, sub[g])
  <2>1. NoSub.queue = <<>> /\ ~NoSub.registered /\ queueBytes(NoSub.queue) = 0
    BY StoppedIs
  <2>. QED BY <1>7, <1>9, <2>1 DEF Charged, Placing, NoLease
<1>11. /\ att' \in [A -> Atts] /\ conn' \in [A -> Conns] /\ att'[g] = x /\ conn'[g] = c
       /\ \A a \in A \ {g} : att'[a] = att[a] /\ conn'[a] = conn[a]
  BY <1>1, <1>2, <1>4, <1>7, <1>8
<1>12. ASSUME NEW a \in A
       PROVE  /\ Charged(att'[a], sub[a], lease[a]) /\ Placing(journal.committed, att'[a], sub[a])
              /\ Len(conn'[a].wire) <= WireFrames
              /\ a > page'.generation => att'[a] = Idle /\ ~conn'[a].open
  <2>1. /\ Charged(att[a], sub[a], lease[a]) /\ Placing(journal.committed, att[a], sub[a]) /\ Connected(a)
        /\ a \in Nat
    BY ConstantsAre DEF ReadersInv, A
  <2>2. CASE a = g
    <3>1. Len(conn[g].wire) <= WireFrames
      BY <1>2, ReaderIs
    <3>. QED BY <1>2, <1>6, <1>8, <1>10, <1>11, <2>2, <3>1
  <2>3. CASE a # g
    <3>1. a > g => a > page.generation
      BY <1>2, <2>1 DEF g
    <3>. QED BY <1>6, <1>11, <2>1, <2>3, <3>1 DEF Connected
  <2>. QED BY <2>2, <2>3
<1>13. page'.generation >= page.generation /\ page'.generation # 0
  BY <1>2, <1>6 DEF g
<1>. QED BY <1>1, <1>6, <1>11, <1>12, <1>13, PageStep

(***************************************************************************)
(* The readers' invariant in every state.                                  *)
(***************************************************************************)

\* It holds when the session starts.
LEMMA ReadersInit == Init => ReadersInv
<1>. SUFFICES ASSUME Init PROVE ReadersInv
  OBVIOUS
<1>1. /\ 0 \in 0..Generations /\ 0 \in 0..LastRecord /\ 0 \in 0..Attachments /\ 1 \in Gen /\ 1 \in 0..Generations
      /\ Birth \in 0..LastRecord /\ LastRecord \in Nat /\ Generations \in Nat /\ Attachments \in Nat
      /\ WireFrames \in Nat /\ ReaderCap \in Nat
  BY ConstantsAre DEF Gen
<1>2. NoPoint \in Point
  <2>1. Origin \in Cursor
    BY Bounds DEF Origin, cursor, Cursor
  <2>. QED BY <1>1, <2>1 DEF NoPoint, Point
<1>. DEFINE c == [g \in Gen |-> IF g = 1 THEN Birth ELSE 0]
            closedConn == [wire |-> <<>>, open |-> FALSE]
<1>3. c \in Counts
  BY <1>1 DEF Counts
<1>4. journal = [active |-> 1, latest |-> 1, ended |-> {}, rotation |-> "none", lock |-> 0,
                 committed |-> c, published |-> c]
  BY DEF Init
<1>5. \A g \in Gen : c[g] <= c[g] /\ (g > 1 => c[g] = 0)
  BY <1>1 DEF Gen
<1>. HIDE DEF c
<1>6. journal \in Journals /\ journal.active = 1 /\ journal.latest = 1 /\ journal.committed = c
      /\ journal.published = c /\ journal.rotation = "none"
  BY <1>1, <1>3, <1>4 DEF Journals
<1>7. Counted(journal)
  BY <1>5, <1>6 DEF Counted
<1>8. closedConn \in Conns /\ Len(closedConn.wire) <= WireFrames /\ ~closedConn.open
  BY ClosedConn
<1>9. /\ sub = [a \in A |-> NoSub] /\ att = [a \in A |-> Idle] /\ lease = [a \in A |-> NoLease]
      /\ conn = [a \in A |-> closedConn]
  BY DEF Init
<1>. HIDE DEF closedConn
<1>10. sub \in [A -> Subs] /\ att \in [A -> Atts] /\ lease \in [A -> Leases] /\ conn \in [A -> Conns]
  BY <1>8, <1>9, StoppedIs, NoLeaseIs
<1>11. page \in Pages /\ ~page.open /\ page.generation = 0
  <2>. DEFINE S == Shown
              P == Pending
  <2>1. <<>> \in S /\ <<>> \in P
    BY DEF Shown, Pending
  <2>. DEFINE e == <<>>
  <2>2. page = [generation |-> 0, open |-> FALSE, prepared |-> 0, committed |-> FALSE, shown |-> e,
                stream |-> 0, geometry |-> 0, queue |-> e, point |-> NoPoint, offer |-> NoPoint, resizes |-> 0]
    BY DEF Init
  <2>3. e \in S /\ e \in P
    BY <2>1
  <2>. HIDE DEF S, P, e
  <2>4. page \in [generation : 0..Attachments, open : BOOLEAN, prepared : 0..Attachments, committed : BOOLEAN,
                  shown : S, stream : 0..Generations, geometry : 0..LastRecord, queue : P,
                  point : Point, offer : Point, resizes : Nat]
    BY <1>1, <1>2, <2>2, <2>3
  <2>. QED BY <2>2, <2>4 DEF Pages, S, P
<1>12. Shapes /\ Paged
  BY <1>6, <1>10, <1>11 DEF Shapes, Paged
<1>13. ASSUME NEW a \in A
       PROVE  Charged(att[a], sub[a], lease[a]) /\ Placing(journal.committed, att[a], sub[a]) /\ Connected(a)
  <2>1. att[a] = Idle /\ sub[a] = NoSub /\ lease[a] = NoLease /\ conn[a] = closedConn
    BY <1>9
  <2>2. Charged(Idle, NoSub, NoLease) /\ Placing(journal.committed, Idle, NoSub)
    <3>1. NoSub.queue = <<>> /\ ~NoSub.registered /\ queueBytes(NoSub.queue) = 0
      BY StoppedIs
    <3>2. Idle.pc = "none" /\ Idle.event = 0 /\ Idle.charge = 0
      BY DEF Idle
    <3>3. NoLease.events = 0 /\ NoLease.catchUp = 0
      BY DEF NoLease
    <3>. QED BY <3>1, <3>2, <3>3 DEF Charged, Placing
  <2>3. Connected(a)
    BY <1>8, <2>1 DEF Connected
  <2>. QED BY <2>1, <2>2, <2>3
<1>14. budget <= ReaderCap
  <2>. DEFINE w == charges(lease)
              z == [a \in {} |-> 0]
  <2>1. T!WeightsOn(w, A) /\ \A a \in A : w[a] = charged(lease[a])
    BY <1>10, ChargesAre
  <2>2. \A a \in A : w[a] = 0
    BY <1>9, <2>1, NoLeaseIs
  <2>3. T!sum(w, A) = T!Cardinality(A) * 0
    <3>. HIDE DEF w
    <3>1. 0 \in Int
      OBVIOUS
    <3>. QED BY <2>2, <3>1, ReadersFinite, T!SumConst
  <2>4. T!Cardinality(A) \in Nat
    BY ReadersFinite, T!FS_CardinalityType
  <2>5. bytesOf(lease) = 0
    BY <2>3, <2>4, BytesAre
  <2>. QED BY <1>1, <2>5 DEF budget
<1>. QED BY <1>7, <1>12, <1>13, <1>14 DEF ReadersInv

\* Every step of the writer of one attachment keeps it.
LEMMA WriterKeeps ==
  ASSUME ReadersInv, NEW a \in A, Writer(a)
  PROVE  ReadersInv'
BY AttachAcquiresKeeps, OpenResolvesKeeps, OpenReadsKeeps, OpenRegistersKeeps, OpenRefusedKeeps,
   PrepareWritesKeeps, CommitWritesKeeps, FrameWritesKeeps, WriteParksKeeps, WriteFailsKeeps,
   BacklogEndsKeeps, HandEndsKeeps, HandFailsKeeps, TailTakesKeeps, TailCatchesUpKeeps, RejoinsKeeps,
   ReadsRoundKeeps, CatchUpEndsKeeps, TailStopsKeeps, SeesVerdictKeeps, TerminatesKeeps
   DEF Writer

\* Every step of the journal keeps it.
LEMMA JournalKeeps ==
  ASSUME ReadersInv, Journal
  PROVE  ReadersInv'
BY CommitKeeps, RotationBeginsKeeps, RotationSealsKeeps, RotationAbortsKeeps, RotationSwapsKeeps,
   GenerationStartsKeeps, GenerationFailsKeeps, GenerationEndsKeeps, PublishKeeps,
   EndedClosesSubscribersKeeps DEF Journal

\* Every step of the page keeps it.
LEMMA PageKeeps ==
  ASSUME ReadersInv, Page
  PROVE  ReadersInv'
BY PageReceivesKeeps, PageParsesKeeps, PageDisconnectsKeeps, PageConnectsKeeps DEF Page

\* A step that changes nothing keeps it.
LEMMA StutterKeeps ==
  ASSUME ReadersInv, UNCHANGED vars
  PROVE  ReadersInv'
<1>1. /\ journal' = journal /\ sub' = sub /\ lease' = lease /\ UNCHANGED <<att, conn, page>>
      /\ UNCHANGED <<sub, att, lease, conn, page>>
  BY DEF vars
<1>2. journal' \in Journals /\ Counted(journal') /\ \A g \in Gen : journal.committed[g] <= journal'.committed[g]
  BY <1>1, JournalIs
<1>. QED BY <1>1, <1>2, JournalAlone

\* Every step keeps it.
LEMMA ReadersNext == ReadersInv /\ [Next]_vars => ReadersInv'
<1>. SUFFICES ASSUME ReadersInv, [Next]_vars PROVE ReadersInv'
  OBVIOUS
<1>1. CASE Journal
  BY <1>1, JournalKeeps
<1>2. CASE Page
  BY <1>2, PageKeeps
<1>3. CASE \E a \in A : Writer(a) \/ GraceEnds(a) \/ LoopEnds(a) \/ BeginResize(a) \/ SettleResize(a)
  BY <1>3, WriterKeeps, GraceEndsKeeps, LoopEndsKeeps, BeginResizeKeeps, SettleResizeKeeps
<1>4. CASE UNCHANGED vars
  BY <1>4, StutterKeeps
<1>. QED BY <1>1, <1>2, <1>3, <1>4 DEF Next

\* The readers' invariant holds in every state of the read path: subscribers, leases and
\* the places the writers have in the recording agree through every interleaving of
\* publication, catch-up, verdicts and lost connections (recording_tail.go,
\* recording_readers.go, recording_writer.go).
THEOREM ReadersHold == Spec => []ReadersInv
BY ReadersInit, ReadersNext, PTL DEF Spec

\* Every frame a connection carries is a frame the page may be sent.
LEMMA FramesOf ==
  ASSUME NEW q \in Outs
  PROVE  \A i \in DOMAIN q : isFrame(q[i])
<1>1. q \in Seq(Frame)
  BY DEF Outs
<1>2. \A i \in DOMAIN q : q[i] \in Frame
  BY <1>1
<1>. QED BY <1>2 DEF Frame

\* Every variable of the read path has its type, PREPARE and LIVE frames stay within
\* their bounds, and a connection never holds more frames than it takes, whatever the
\* records, the bounds and the number of attachments are (writeLiveLocked, WriteFrame).
THEOREM StreamTypesSafe == Spec => []TypeOK
<1>1. ReadersInv => TypeOK
  <2>. SUFFICES ASSUME ReadersInv PROVE TypeOK
    OBVIOUS
  <2>1. journal \in [active : 0..Generations, latest : Gen, ended : SUBSET Gen,
                    rotation : {"none", "begun", "sealed"},
                    lock : 0..Attachments, committed : [Gen -> 0..LastRecord],
                    published : [Gen -> 0..LastRecord]]
    BY DEF ReadersInv, Shapes, Journals, Counts
  <2>2. sub \in [A -> [key : 0..Generations, cursor : 0..LastRecord, queue : Seq(1..LastRecord),
                      catchingUp : BOOLEAN, registered : BOOLEAN, verdict : Reason \cup {"none"}]]
    BY DEF ReadersInv, Shapes, Subs, Queues
  <2>3. lease \in [A -> [fixed : {0, Fixed}, snapshot : Nat, events : Nat, catchUp : Nat,
                        detached : BOOLEAN, owned : BOOLEAN]]
    BY DEF ReadersInv, Shapes, Leases
  <2>4. page.shown \in Seq(Atom) /\ page.point \in Point /\ page.offer \in Point
    BY DEF ReadersInv, Shapes, Pages, Shown
  <2>5. ASSUME NEW a \in A
        PROVE  /\ att[a].pc \in Where /\ att[a].resume \in Point /\ att[a].from \in Cursor
               /\ att[a].delivered \in Cursor /\ att[a].fence \in {"none", "open", "ok", "failed"}
               /\ \A i \in DOMAIN att[a].out : isFrame(att[a].out[i])
               /\ \A i \in DOMAIN conn[a].wire : isFrame(conn[a].wire[i])
               /\ Len(conn[a].wire) <= WireFrames
    <3>1. att[a] \in Atts /\ conn[a] \in Conns /\ Len(conn[a].wire) <= WireFrames
      BY ReaderIs
    <3>2. att[a].out \in Outs /\ conn[a].wire \in Outs
      BY <3>1 DEF Atts, Conns
    <3>3. (\A i \in DOMAIN att[a].out : isFrame(att[a].out[i])) /\ (\A i \in DOMAIN conn[a].wire : isFrame(conn[a].wire[i]))
      BY <3>2, FramesOf
    <3>4. /\ att[a].pc \in Where /\ att[a].resume \in Point /\ att[a].from \in Cursor
          /\ att[a].delivered \in Cursor /\ att[a].fence \in {"none", "open", "ok", "failed"}
      BY <3>1 DEF Atts, Fences
    <3>. QED BY <3>1, <3>3, <3>4
  <2>. QED BY <2>1, <2>2, <2>3, <2>4, <2>5 DEF TypeOK
<1>. QED BY <1>1, ReadersHold, PTL

\* The aggregate budget of the readers is never exceeded, every lease is charged to the
\* byte for the events its queue and its writer own and for the round its writer holds,
\* and what is still to be written is still charged, for every budget, every cap and
\* every order of publication (recording_readers.go, recording_tail.go).
THEOREM BudgetSafe == Spec => []BudgetBalances
<1>1. ReadersInv => BudgetBalances
  <2>. SUFFICES ASSUME ReadersInv PROVE BudgetBalances
    OBVIOUS
  <2>1. budget <= ReaderCap
    BY DEF ReadersInv
  <2>2. ASSUME NEW a \in A
        PROVE  /\ lease[a].events = queueBytes(sub[a].queue) + handBytes(a)
               /\ lease[a].catchUp = att[a].charge
               /\ att[a].pc \in {"preparing", "backlog"} => lease[a].snapshot # 0
               /\ att[a].pc \in {"live", "again", "event", "round"} => lease[a].snapshot = 0
               /\ sub[a].registered => lease[a].fixed # 0 /\ ~lease[a].detached
    BY DEF ReadersInv, Charged, handBytes
  <2>. QED BY <2>1, <2>2 DEF BudgetBalances
<1>. QED BY <1>1, ReadersHold, PTL
=============================================================================
