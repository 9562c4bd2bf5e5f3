---------------------------- MODULE MC_FileCalls ----------------------------
(* All command lines of up to three words; two files can be open.           *)
EXTENDS FileCalls, SequencesExt

MCWords == {"drive=nodrive", "drive=fdrive1", "fs=nofilesystem", "fs=fat12", "quiet"}
MCCommandLines == BoundedSeq(MCWords, 3)
MCFilenos == {0, 2, 3, 4, 5}
MCAnswers == {-9, -1, 0, 512}
=============================================================================
