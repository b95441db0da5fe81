----------------------------- MODULE MCSession -----------------------------
(* Constants of Session for TLC: two browsers.  SizeLimit is 4: a file of  *)
(* three bytes is refused, and with four the field for the size overflows. *)
EXTENDS Session

CONSTANTS b1, b2

MCBrowsers == {b1, b2}
MCSizes == {[b \in MCBrowsers |-> IF b = b1 THEN s[1] ELSE s[2]] :
               s \in {<<2, 1>>, <<0, 3>>, <<3, 4>>}}
=============================================================================
