---------------------------- MODULE MC_Retention ----------------------------
(* Two panes that share every limit of the runtime; one batch holds two    *)
(* bytes, so an output of three is cut across batches.                     *)
EXTENDS Retention

CONSTANTS k1, k2
MCKeys == {k1, k2}
MCSizes == {1, 3}
MCRooms == {1, 9}
MCScenes == {
    {<<"output", k1>>, <<"fit", k1>>, <<"refuse", k1>>},
    {<<"output", k1>>, <<"fit", k1>>, <<"seal", k1>>},
    {<<"output", k1>>, <<"fit", k1>>, <<"close", None>>},
    {<<"output", k1>>, <<"end", k1>>, <<"admit", k1>>},
    {<<"output", k1>>, <<"end", k1>>, <<"close", None>>},
    {<<"output", k1>>, <<"seal", k1>>, <<"output", k2>>, <<"refuse", k2>>, <<"control", None>>},
    {<<"output", k1>>, <<"end", k1>>, <<"output", k2>>},
    {<<"fit", k1>>, <<"end", k1>>}}
==============================================================================
