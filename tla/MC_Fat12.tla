------------------------------ MODULE MC_Fat12 ------------------------------
(***************************************************************************)
(* Two names in two levels of directories and a third one in the root, or  *)
(* two files with data; the last reply matters to no property.             *)
(***************************************************************************)
EXTENDS Fat12Crash

CONSTANTS a, b, third

MCName == {a, b, third}
MCTree == {<<a>>, <<b>>, <<third>>, <<a, a>>, <<a, b>>, <<b, a>>, <<b, b>>}
MCRoot == {<<a>>, <<b>>}
MCBuffer == {<<1>>, <<0, 1, 0>>}
OneByte == {<<0>>}

NameSymmetry == Permutations({a, b})
State == <<disk, open_files, on, before, tree>>
=============================================================================
