---------------------------- MODULE MC_Keyboard ----------------------------
(* A letter and the three kinds of extended keys beside the shift keys.  *)
EXTENDS Keyboard

MCChars == {"x", "\r"}
=============================================================================
