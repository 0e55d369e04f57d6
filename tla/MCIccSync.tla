------------------------------- MODULE MCIccSync -------------------------------
(***************************************************************************)
(* IccSync for TLC: a memory of MemLen bytes, all 0, with no DIR data      *)
(* reference in its ATR; PINs as model values.                            *)
(***************************************************************************)
EXTENDS IccSync

CONSTANTS P1, P2, P0

BlankImages == {[h2 |-> 0, h3 |-> 0, h4 |-> 0, mem |-> [x \in 0..MemLen-1 |-> 0]]}
=============================================================================
