--------------------------- MODULE MC_ControlLease ---------------------------
(* ControlLease with an ordinary page a and takeovers c and d. *)
EXTENDS ControlLease

CONSTANTS a, c, d
=============================================================================
