------------------------- MODULE MC_JournalLedger -------------------------
(* Three generations of one session, with amounts scaled down so that     *)
(* every cap is reached.                                                  *)
EXTENDS JournalLedger, TLC

CONSTANTS k1, k2, k3

MCKey == {k1, k2, k3}
MCSession == [k \in MCKey |-> "s1"]
MCGen == (k1 :> 1) @@ (k2 :> 2) @@ (k3 :> 3)
MCPaneCap == [logical |-> 3, physical |-> 7]
MCRealmCap == [logical |-> 4, physical |-> 11]
===========================================================================
