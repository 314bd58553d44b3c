---------------------------- MODULE MC_InputGate ----------------------------
(* Windows, intervals and timeouts of a few ticks.  Scenes: a clock that   *)
(* prunes; an input among publications; one across a retirement, with a    *)
(* frame that completes no record; inputs of every outcome at once; inputs *)
(* across a pause.                                                         *)
EXTENDS InputGate

MCSizes == <<1, 2, 1>>
MCOutcomes == {"written", "partial", "dropped", "refused"}
Scene(n, long, typed, ticks, outcomes, retires) ==
    [records |-> n, long |-> long, inputs |-> typed, horizon |-> ticks,
     outcomes |-> outcomes, retires |-> retires]
MCScenes == {
    Scene(3, {}, 0, 4, {"written"}, FALSE),
    Scene(3, {}, 1, 3, {"written"}, FALSE),
    Scene(2, {2}, 1, 3, {"written"}, TRUE),
    Scene(1, {}, 3, 0, MCOutcomes, FALSE),
    Scene(1, {}, 3, 3, {"written"}, FALSE)}
=============================================================================
