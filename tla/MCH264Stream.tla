----------------------------- MODULE MCH264Stream -----------------------------
(***************************************************************************)
(* A small instance of H264Stream: one viewer without flow control and one *)
(* that asks for more than the largest window.                             *)
(***************************************************************************)
EXTENDS H264Stream, TLC

CONSTANTS v1, v2

MCViewers == {v1, v2}
MCFlowOf == (v1 :> 0) @@ (v2 :> MaxFlowWindow + 1)
=============================================================================
