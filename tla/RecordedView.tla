----------------------------- MODULE RecordedView -----------------------------
(***************************************************************************)
(* What a page is promised of a recording, whatever its connections, its   *)
(* lag and the rotations do to it: it shows nothing, or the beginning of   *)
(* what one generation has committed, and then only more of it.  It never  *)
(* goes back, skips, or turns to another generation without first showing  *)
(* nothing.  RecordingStream implements this.                              *)
(***************************************************************************)
EXTENDS Naturals, Sequences, FiniteSetsExt

CONSTANTS
    Gen,        \* the generations of the session
    Content,    \* Content[n]: the atoms of the first n records of a generation
    LastRecord,
    Birth       \* records a generation begins with

VARIABLES
    committed,  \* records committed by each generation
    view        \* what the page shows, and where it would go on from

vars == <<committed, view>>

recorded(g) == Content[committed[g]]

\* A geometry is the atom <<record, 0>>; the newest one shown is in force.
inForce(shown) == Max({0} \cup {shown[i][1] : i \in {j \in DOMAIN shown : shown[j][2] = 0}})

NoView == [stream |-> 0, shown |-> <<>>, geometry |-> 0, resume |-> 0]
upTo(g, n) ==
    LET shown == SubSeq(recorded(g), 1, n)
    IN [stream |-> g, shown |-> shown, geometry |-> inForce(shown), resume |-> n]

Init ==
    /\ committed = [g \in Gen |-> IF g = 1 THEN Birth ELSE 0]
    /\ view = NoView

Begin(g) ==
    /\ committed[g] = 0
    /\ committed' = [committed EXCEPT ![g] = Birth]
    /\ UNCHANGED view

Commit(g) ==
    /\ committed[g] < LastRecord
    /\ committed' = [committed EXCEPT ![g] = @ + 1]
    /\ UNCHANGED view

Admit(g) ==
    /\ view = NoView
    /\ \E n \in 0..Len(recorded(g)) : view' = upTo(g, n)
    /\ UNCHANGED committed

Extend ==
    /\ view # NoView
    /\ \E n \in Len(view.shown)..Len(recorded(view.stream)) : view' = upTo(view.stream, n)
    /\ UNCHANGED committed

Lose == view' = NoView /\ UNCHANGED committed

Next == Lose \/ Extend \/ (\E g \in Gen : Begin(g) \/ Commit(g) \/ Admit(g))

Spec == Init /\ [][Next]_vars
=============================================================================
