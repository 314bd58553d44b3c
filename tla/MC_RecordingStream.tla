-------------------------- MODULE MC_RecordingStream --------------------------
(* One record of output, a geometry, and a record that takes two LIVE frames. *)
EXTENDS RecordingStream

MCSizes == <<1, 0, 2>>
=============================================================================
