-------------------------- MODULE MC_Fat12Clients --------------------------
(***************************************************************************)
(* Clients that do more than they should, or spell a name in two ways: two *)
(* files in the root directory, clusters of one byte.                      *)
(***************************************************************************)
EXTENDS Fat12

CONSTANTS a, b

MCName == {a, b}
MCPath == {<<a>>, <<b>>}
OneByte == {<<0>>}
=============================================================================
