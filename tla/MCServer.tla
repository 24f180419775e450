------------------------------ MODULE MCServer ------------------------------
(* Two connections for one slot.                                            *)
EXTENDS Server

CONSTANTS r1, r2

MCRequests == {r1, r2}
=============================================================================
