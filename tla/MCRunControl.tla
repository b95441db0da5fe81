---------------------------- MODULE MCRunControl ----------------------------
(* Constants of RunControl for TLC: a loop of two instructions, the second *)
(* of which jumps back, and an address beyond it that holds none.          *)
EXTENDS RunControl, TLC

MCJump == 1 :> 0
MCInvalid == {2}
=============================================================================
