------------------------------ MODULE MC_Locator ------------------------------
(* Three socket files under the base directory; the URI names the first.  *)
EXTENDS Locator

CONSTANTS sA, sB, sC

MC_Sockets == {sA, sB, sC}
=============================================================================
