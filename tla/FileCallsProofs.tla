-------------------------- MODULE FileCallsProofs --------------------------
(***************************************************************************)
(* Theorems about the way from the command line to the file calls, for     *)
(* every command line, every number of handles and whatever the driver     *)
(* answers.                                                                *)
(***************************************************************************)
EXTENDS FileCalls, TLAPS

\* Which step of the boot has set what.
Booted ==
  /\ pc \in {"drive", "check", "run"} => token = Len(cmdline_str)
  /\ pc \in {"loader", "returned"} => token = 0
  /\ pc = "check" => drive_ok
  /\ drive_ok => drive = "fdrive1" /\ pc \in {"check", "run"}
  /\ fat12_geom => drive_ok /\ fs = "fat12" /\ pc = "run"
  /\ has_working_drive = 1 => fat12_geom

\* What has been reached through the driver.
Reached ==
  /\ entered # NoCall => pc = "run" /\ fs = "fat12" /\ (fat12_geom \/ (entered = Size /\ answer = 0))
  /\ open_files # {} => fat12_geom

Choice == Settled(DriveWords, drive, "nodrive") /\ Settled(FsWords, fs, "nofilesystem")

IInv == TypeOK /\ Booted /\ Reached /\ Choice

-----------------------------------------------------------------------------
LEMMA NoWords == <<>> \in Seq(Words) /\ Len(<<>>) = 0
OBVIOUS

\* The loader hands over with nothing decided.
LEMMA InitIInv == Init => IInv
<1> SUFFICES ASSUME Init PROVE IInv
  OBVIOUS
<1>1. TypeOK
  <2>1. cmdline_str \in Seq(Words) /\ token \in 0 .. Len(cmdline_str)
    BY NoWords DEF Init
  <2>2. has_working_drive \in {-1, 0, 1} /\ answer \in Int /\ open_files \subseteq Handle
    BY DEF Init
  <2>3. drive_ok \in BOOLEAN /\ fat12_geom \in BOOLEAN /\ entered \in FileCall \cup {NoCall}
    BY DEF Init
  <2>4. pc \in {"loader", "arguments", "drive", "check", "run", "returned"}
        /\ drive \in {"nodrive", "fdrive1"} /\ fs \in {"nofilesystem", "fat12"}
        /\ medium \in {"none", "other", "fat12"}
    BY DEF Init
  <2> QED
    BY <2>1, <2>2, <2>3, <2>4 DEF TypeOK
<1>2. Booted /\ Reached
  BY DEF Init, Booted, Reached
<1>3. Choice
  BY DEF Init, Choice, Settled
<1> QED
  BY <1>1, <1>2, <1>3 DEF IInv

\* The steps of start, detection and calls keep the types.
LEMMA KeepsTypes == IInv /\ [Next]_vars => TypeOK'
<1> SUFFICES ASSUME TypeOK, Booted, [Next]_vars PROVE TypeOK'
  BY DEF IInv
<1> USE FileCallsAssumption DEF TypeOK
<1>1. CASE WrongMagic
  BY <1>1 DEF WrongMagic, choice, state
<1>2. CASE MultibootPreMain
  <2>1. cmdline_str' \in Seq(Words)
    BY <1>2, NoWords DEF MultibootPreMain
  <2>2. Len(cmdline_str') \in Nat /\ token' = 0
    BY <1>2, <2>1 DEF MultibootPreMain, Booted
  <2>3. token' \in 0 .. Len(cmdline_str')
    BY <2>2
  <2> QED
    BY <1>2, <2>1, <2>3 DEF MultibootPreMain, state
<1>3. CASE HandleSingleArgument
  BY <1>3 DEF HandleSingleArgument, DriveWords, FsWords, state
<1>4. CASE KernelMain
  BY <1>4 DEF KernelMain, choice, state
<1>5. CASE DriveInit
  BY <1>5 DEF DriveInit, choice
<1>6. CASE CheckFilesystem
  BY <1>6 DEF CheckFilesystem, DetectFat12, choice
<1>7. ASSUME NEW n \in 0 .. MAX_SYSCALL, NEW fileno \in Filenos, Call(n, fileno) PROVE TypeOK'
  <2>1. \A h \in FirstFree : h \in Handle /\ h \in Int
    BY DEF FirstFree, Handle
  <2>2. /\ open_files' \subseteq Handle /\ entered' \in FileCall \cup {NoCall} /\ answer' \in Int
        /\ UNCHANGED <<pc, choice, state, medium>>
    <3>0. \A a \in Int : Answered(a) /\ Outside =>
            /\ open_files' \subseteq Handle /\ entered' \in FileCall \cup {NoCall} /\ answer' \in Int
            /\ UNCHANGED <<pc, choice, state, medium>>
      BY DEF Answered, Outside
    <3>1. CASE BadSyscall(n) \/ OtherCall(n) \/ WriteLineout(n, fileno)
      BY <3>0, <3>1 DEF BadSyscall, OtherCall, WriteLineout
    <3>2. CASE NoDrive(n, fileno) \/ BadFileno(n, fileno) \/ NoFilesystem(n)
      BY <3>0, <3>2 DEF NoDrive, BadFileno, NoFilesystem
    <3>3. Passed(n, fileno) => entered' \in FileCall \cup {NoCall}
      BY DEF Passed
    <3>4. CASE Fat12Open(n, fileno)
      BY <2>1, <3>3, <3>4 DEF Fat12Open, Answered
    <3>5. CASE Fat12Close(n, fileno)
      BY <3>3, <3>5 DEF Fat12Close, Answered
    <3>6. CASE Fat12Write(n, fileno) \/ Fat12Read(n, fileno) \/ Fat12GetSize(n, fileno)
               \/ Fat12Path(n, fileno)
      <4>1. \A a \in Answers \cup {0, -5} : a \in Int
        OBVIOUS
      <4>2. \E a \in Answers \cup {0, -5} : Answered(a)
        BY <3>6 DEF Fat12Write, Fat12Read, Fat12GetSize, Fat12Path
      <4>3. Passed(n, fileno) /\ open_files' = open_files
        BY <3>6 DEF Fat12Write, Fat12Read, Fat12GetSize, Fat12Path
      <4> QED
        BY <3>3, <4>1, <4>2, <4>3 DEF Answered
    <3> QED
      BY <1>7, <3>1, <3>2, <3>3, <3>4, <3>5, <3>6 DEF Call
  <2> QED
    BY <2>2 DEF choice, state
<1>8. CASE ChangeMedium
  BY <1>8 DEF ChangeMedium, choice, state
<1>9. CASE UNCHANGED vars
  BY <1>9 DEF vars, choice, state
<1> QED
  BY <1>1, <1>2, <1>3, <1>4, <1>5, <1>6, <1>7, <1>8, <1>9 DEF Next

\* They go through the start in order, and only a detection that said yes opens the driver.
LEMMA KeepsReached == IInv /\ [Next]_vars => Booted' /\ Reached'
<1> SUFFICES ASSUME TypeOK, Booted, Reached, [Next]_vars PROVE Booted' /\ Reached'
  BY DEF IInv
<1> USE DEF TypeOK, Booted, Reached
<1>1. CASE WrongMagic
  BY <1>1 DEF WrongMagic, choice, state
<1>2. CASE MultibootPreMain
  BY <1>2 DEF MultibootPreMain, state
<1>3. CASE HandleSingleArgument
  BY <1>3 DEF HandleSingleArgument, DriveWords, FsWords, state
<1>4. CASE KernelMain
  BY <1>4 DEF KernelMain, choice, state
<1>5. CASE DriveInit
  BY <1>5 DEF DriveInit, choice
<1>6. CASE CheckFilesystem
  <2>1. PICK result \in IF fs = "fat12" THEN DetectFat12 ELSE {-1} :
          has_working_drive' = result /\ fat12_geom' = (result = 1)
    BY <1>6 DEF CheckFilesystem
  <2>2. result = 1 => fs = "fat12"
    BY <2>1
  <2>3. fat12_geom' <=> result = 1
    BY <2>1
  <2>4. pc = "check" /\ pc' = "run"
        /\ UNCHANGED <<cmdline_str, token, drive, fs, drive_ok, open_files, entered>>
    BY <1>6 DEF CheckFilesystem, choice
  <2>5. drive_ok /\ ~fat12_geom
    BY <2>4
  <2>6. open_files' = {} /\ entered' = NoCall
    BY <2>4, <2>5
  <2> QED
    BY <2>1, <2>2, <2>3, <2>4, <2>5, <2>6
<1>7. ASSUME NEW n \in 0 .. MAX_SYSCALL, NEW fileno \in Filenos, Call(n, fileno)
      PROVE Booted' /\ Reached'
  <2>1. UNCHANGED <<pc, choice, state>>
    BY <1>7 DEF Call, BadSyscall, OtherCall, WriteLineout, NoDrive, BadFileno, NoFilesystem,
       Fat12Open, Fat12Close, Fat12Write, Fat12Read, Fat12GetSize, Fat12Path, Answered
  <2>2. CASE Outside
    BY <2>1, <2>2 DEF Outside, choice, state
  <2>3. CASE Passed(n, fileno) /\ n # Size
    <3>1. pc = "run"
      BY <1>7 DEF Call, BadSyscall, OtherCall, WriteLineout, NoDrive, BadFileno, NoFilesystem,
         Fat12Open, Fat12Close, Fat12Write, Fat12Read, Fat12GetSize, Fat12Path, Answered
    <3> QED
      BY <2>1, <2>3, <3>1 DEF Passed, choice, state
  <2>4. CASE Fat12GetSize(n, fileno)
    <3>1. pc = "run" /\ n = Size /\ entered' = Size /\ fs = "fat12" /\ open_files' = open_files
      BY <2>4 DEF Fat12GetSize, Passed, Answered
    <3>2. open_files = {} => answer' = 0
      BY <2>4 DEF Fat12GetSize, Answered
    <3> QED
      BY <2>1, <3>1, <3>2 DEF choice, state
  <2> QED
    BY <1>7, <2>2, <2>3, <2>4 DEF Call, BadSyscall, OtherCall, WriteLineout, NoDrive, BadFileno,
       NoFilesystem, Fat12Open, Fat12Close, Fat12Write, Fat12Read, Fat12Path, Paths, Size, Open,
       Close, Write, Read
<1>8. CASE ChangeMedium
  BY <1>8 DEF ChangeMedium, choice, state
<1>9. CASE UNCHANGED vars
  BY <1>9 DEF vars, choice, state
<1> QED
  BY <1>1, <1>2, <1>3, <1>4, <1>5, <1>6, <1>7, <1>8, <1>9 DEF Next

\* One more word, which says something or not.
LEMMA OneMoreWord ==
  ASSUME NEW says, NEW value, NEW value2, NEW default, Settled(says, value, default),
         token \in Nat, token' = token + 1, cmdline_str' = cmdline_str,
         value2 = IF cmdline_str[token + 1] \in DOMAIN says
                  THEN says[cmdline_str[token + 1]] ELSE value
  PROVE  \E i \in 0 .. token' :
           /\ IF i = 0 THEN value2 = default
                       ELSE cmdline_str'[i] \in DOMAIN says /\ value2 = says[cmdline_str'[i]]
           /\ \A j \in i + 1 .. token' : cmdline_str'[j] \notin DOMAIN says
<1>1. CASE cmdline_str[token + 1] \in DOMAIN says
  <2> WITNESS token + 1 \in 0 .. token'
  <2> QED
    BY <1>1
<1>2. CASE cmdline_str[token + 1] \notin DOMAIN says
  <2>1. PICK i \in 0 .. token :
          /\ IF i = 0 THEN value = default
                      ELSE cmdline_str[i] \in DOMAIN says /\ value = says[cmdline_str[i]]
          /\ \A j \in i + 1 .. token : cmdline_str[j] \notin DOMAIN says
    BY DEF Settled
  <2>2. i \in 0 .. token'
    BY <2>1
  <2>3. \A j \in i + 1 .. token' : cmdline_str[j] \notin DOMAIN says
    <3> TAKE j \in i + 1 .. token'
    <3>1. j \in i + 1 .. token \/ j = token + 1
      BY <2>1
    <3> QED
      BY <1>2, <2>1, <3>1
  <2> WITNESS i \in 0 .. token'
  <2> QED
    BY <1>2, <2>1, <2>3
<1> QED
  BY <1>1, <1>2

\* What was chosen is what the words handled so far say.
LEMMA KeepsChoice == IInv /\ [Next]_vars => Choice'
<1> SUFFICES ASSUME TypeOK, Booted, Choice, [Next]_vars PROVE Choice'
  BY DEF IInv
<1>0. token \in Nat
  BY DEF TypeOK
<1>1. CASE MultibootPreMain
  BY <1>1 DEF MultibootPreMain, Booted, Choice, Settled
<1>2. CASE HandleSingleArgument
  <2>1. token' = token + 1 /\ cmdline_str' = cmdline_str
    BY <1>2 DEF HandleSingleArgument
  <2>2. Settled(DriveWords, drive, "nodrive")'
    BY <1>0, <1>2, <2>1, OneMoreWord DEF HandleSingleArgument, Choice, Settled
  <2>3. Settled(FsWords, fs, "nofilesystem")'
    BY <1>0, <1>2, <2>1, OneMoreWord DEF HandleSingleArgument, Choice, Settled
  <2> QED
    BY <2>2, <2>3 DEF Choice
<1>3. CASE UNCHANGED choice
  BY <1>3 DEF choice, Choice, Settled
<1> QED
  BY <1>1, <1>2, <1>3, ZenonT(40) DEF Next, vars, WrongMagic, KernelMain, DriveInit, CheckFilesystem,
     ChangeMedium, Call, BadSyscall, OtherCall, WriteLineout, NoDrive, BadFileno, NoFilesystem,
     Fat12Open, Fat12Close, Fat12Write, Fat12Read, Fat12GetSize, Fat12Path, Answered

\* The inductive invariant holds in every state.
THEOREM Invariance == Spec => []IInv
<1>1. IInv /\ [Next]_vars => IInv'
  BY KeepsTypes, KeepsReached, KeepsChoice DEF IInv
<1> QED
  BY <1>1, InitIInv, PTL DEF Spec

\* Type correctness of the boot and of the calls.
THEOREM TypeCorrect == Spec => []TypeOK
<1>1. IInv => TypeOK
  BY DEF IInv
<1> QED
  BY <1>1, Invariance, PTL

\* The last argument about the drive and about the filesystem counts, in command lines
\* of every length.
THEOREM LastCounts == Spec => []LastWins
<1>1. IInv => LastWins
  BY DEF IInv, TypeOK, Choice, Booted, LastWins
<1> QED
  BY <1>1, Invariance, PTL

\* A call gets through to the FAT12 driver only behind a drive that was started and a disk
\* that was detected; of get_size, which is passed on without a look, it is proved that it
\* then answers 0: nothing is open, since open is not passed on.
THEOREM OnlyDetected == Spec => []Detected
<1>1. IInv => Detected
  BY DEF IInv, Booted, Reached, Detected
<1> QED
  BY <1>1, Invariance, PTL

\* Handles are only given out then, and never the terminal's.
THEOREM Apart == Spec => []HandlesApart
<1>1. IInv => HandlesApart
  BY DEF IInv, TypeOK, Reached, HandlesApart, Handle, LINEOUT_FILENO
<1> QED
  BY <1>1, Invariance, PTL
=============================================================================
