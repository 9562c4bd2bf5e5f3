--------------------------- MODULE MC_VgaConsole ---------------------------
(* A screen of three rows of two cells, and two colours. *)
EXTENDS VgaConsole

MCPosition == {<<0, 1>>, <<1, 0>>}
MCFound == {[i \in Index |-> <<"x", 1>>]}
=============================================================================
