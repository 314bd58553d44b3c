-------------------------- MODULE MC_JournalFile --------------------------
(* A small generation: a zero-length and a two-byte payload, one geometry. *)
EXTENDS JournalFile

CONSTANTS empty, text, g1

MCPayload == {empty, text}
MCPayloadLen == (empty :> 0) @@ (text :> 2)
MCGeometry == {g1}
===========================================================================
