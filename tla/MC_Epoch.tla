----------------------------- MODULE MC_Epoch -----------------------------
(***************************************************************************)
(* Scenarios of Epoch for TLC.  bounds lists output, cuts, history,        *)
(* resizes, input and modes in that order.                                 *)
(***************************************************************************)
EXTENDS Epoch

bounds(b) == [output |-> b[1], cuts |-> b[2], history |-> b[3],
              resizes |-> b[4], input |-> b[5], modes |-> b[6]]
scenario(journal, b, rooms, faults) ==
    [outputOwner |-> journal, max |-> bounds(b), rooms |-> rooms, faults |-> faults]

\* Output through BIND, an INITIAL and a scheduled cut, and a resize that may
\* fail or be refused.
OutputFlows == scenario(FALSE, <<2, 2, 0, 1, 0, 1>>, {"all"}, {"cut", "pty", "resize", "refuse"})
\* Input up to its caps and mode requests around a HISTORY cut.
InputFlows == scenario(TRUE, <<0, 2, 1, 0, 3, 2>>, {"all"}, {})
\* The same with a pump that fails.
InputFails == scenario(TRUE, <<0, 2, 1, 0, 3, 1>>, {"all"}, {"input"})
\* An egress writer that fails.
EgressFailing == scenario(TRUE, <<0, 1, 0, 0, 1, 1>>, {"all"}, {"egress"})
\* The journal writer's READY and two history depths around a resize that may fail or
\* be refused.
JournalReady == scenario(TRUE, <<0, 2, 2, 1, 0, 1>>, {"all"}, {"refuse", "resize"})
\* Every end of Start against cancellation and a full egress queue.
Binding == scenario(FALSE, <<2, 1, 0, 0, 0, 0>>, Room, {"bind", "cancel", "cleanup"})
\* History depths beside scheduled cuts.
Depths == scenario(FALSE, <<1, 2, 2, 0, 0, 0>>, {"all"}, {})
MCScenarios ==
    {OutputFlows, InputFlows, InputFails, EgressFailing, JournalReady, Binding, Depths}
===========================================================================
