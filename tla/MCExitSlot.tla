------------------------------ MODULE MCExitSlot ------------------------------
(***************************************************************************)
(* A small instance of ExitSlot: two connections from different hosts.     *)
(***************************************************************************)
EXTENDS ExitSlot, TLC

CONSTANTS c1, c2, h1, h2

MCConns == {c1, c2}
MCHosts == {h1, h2}
MCHostOf == (c1 :> h1) @@ (c2 :> h2)
=============================================================================
