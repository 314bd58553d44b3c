---------------------------- MODULE MC_Generations ----------------------------
EXTENDS Generations

MCWeights == <<1, 1>>
MCUneven == <<1, 2, 1>>

scene(asks, faults) == [asks |-> asks, faults |-> faults]

MCScenes == {scene({"birth"}, 2), scene({"adopt"}, 2), scene({"auto"}, 2), scene({"refit"}, 2),
             scene({"auto", "refit"}, 1)}
MCQuiet == {scene({"auto"}, 0)}
MCRecorded == {scene({"auto"}, 2)}
===============================================================================
