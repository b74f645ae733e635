----------------------------- MODULE MCMoveAll -----------------------------
(* Three moves onto two destinations, the first and the last of them onto  *)
(* the same one.                                                           *)
EXTENDS MoveAll

CONSTANTS d1, d2, old, n1, n2, n3

MCDest == <<d1, d2, d1>>
MCNew == <<n1, n2, n3>>
=============================================================================
