------------------------------ MODULE FileCalls ------------------------------
(***************************************************************************)
(* From the command line to the file calls: kernel/LineKernel.c chooses    *)
(* drive and filesystem, kernel/LineDrive.c starts the drive, detect_fat12 *)
(* looks at its first sector, and kernel/LineFilesystem.c lets the calls   *)
(* of kernel/syscall.c through to the FAT12 driver, or does not.           *)
(*                                                                         *)
(* A command line is a sequence of words.  What the FAT12 driver does with *)
(* a call is Fat12's subject; of it only the open handles are kept here.   *)
(***************************************************************************)
EXTENDS Integers, Sequences

CONSTANTS
  Words,          \* arguments, the four that say something among them
  CommandLines,   \* command lines that the boot loader may pass
  MAX_OPEN_FILES, \* 256
  Filenos,        \* what programs pass as a fileno
  Answers         \* what the FAT12 driver may answer

DriveWords == [w \in {"drive=nodrive", "drive=fdrive1"} |->
                 IF w = "drive=fdrive1" THEN "fdrive1" ELSE "nodrive"]
FsWords == [w \in {"fs=nofilesystem", "fs=fat12"} |->
              IF w = "fs=fat12" THEN "fat12" ELSE "nofilesystem"]

ASSUME FileCallsAssumption ==
  /\ CommandLines \subseteq Seq(Words)
  /\ MAX_OPEN_FILES \in Nat /\ Filenos \subseteq Int /\ Answers \subseteq Int

MAX_SYSCALL == 17
LINEOUT_FILENO == 2
Terminal == 0 .. 4
Close == 5
Open == 6
Paths == {7, 8, 9, 11, 13}   \* rename, makedir, removedir, remove, list
Write == 10
Read == 12
Size == 14
Heap == {15, 16}
FileCall == {Close, Open, Write, Read, Size} \cup Paths
Handle == 3 .. 2 + MAX_OPEN_FILES
NoCall == -1

VARIABLES
  pc,                \* "loader", "arguments", "drive", "check", "run", or "returned"
  cmdline_str,
  token,             \* arguments handled so far
  drive, fs, has_working_drive,
  drive_ok,          \* the drive has been started
  medium,            \* what is in the drive: "none", "other", or "fat12"
  fat12_geom,        \* the geometry has been taken from a disk marked as FAT12
  open_files,        \* handles in use
  entered,           \* the number of the last call, if it was passed on to the FAT12 driver
  answer

choice == <<cmdline_str, token, drive, fs>>
state == <<drive_ok, has_working_drive, fat12_geom>>
vars == <<pc, choice, state, medium, open_files, entered, answer>>

Init ==
  /\ pc = "loader"
  /\ cmdline_str = <<>> /\ token = 0
  /\ drive = "nodrive" /\ fs = "nofilesystem" /\ has_working_drive = 0
  /\ drive_ok = FALSE /\ fat12_geom = FALSE
  /\ medium \in {"none", "other", "fat12"}
  /\ open_files = {} /\ entered = NoCall /\ answer = 0

-----------------------------------------------------------------------------
(***************************************************************************)
(* Boot.                                                                   *)
(***************************************************************************)
\* Something else than a multiboot loader starts the kernel.
WrongMagic ==
  /\ pc = "loader"
  /\ pc' = "returned"
  /\ UNCHANGED <<choice, state, medium, open_files, entered, answer>>

\* multiboot_pre_main; the loader need not pass a command line.
MultibootPreMain ==
  /\ pc = "loader"
  /\ cmdline_str' \in CommandLines \cup {<<>>}
  /\ pc' = "arguments"
  /\ UNCHANGED <<token, drive, fs, state, medium, open_files, entered, answer>>

\* One turn of the loop of parse_cmdline.
HandleSingleArgument ==
  /\ pc = "arguments" /\ token < Len(cmdline_str)
  /\ LET arg == cmdline_str[token + 1] IN
       /\ drive' = IF arg \in DOMAIN DriveWords THEN DriveWords[arg] ELSE drive
       /\ fs' = IF arg \in DOMAIN FsWords THEN FsWords[arg] ELSE fs
  /\ token' = token + 1
  /\ UNCHANGED <<pc, cmdline_str, state, medium, open_files, entered, answer>>

KernelMain ==
  /\ pc = "arguments" /\ token = Len(cmdline_str)
  /\ pc' = "drive"
  /\ UNCHANGED <<choice, state, medium, open_files, entered, answer>>

\* drive_init: there is no drive but fdrive1, and floppy_init may fail.
DriveInit ==
  /\ pc = "drive"
  /\ drive_ok' \in {FALSE, drive = "fdrive1"}
  /\ pc' = IF drive_ok' THEN "check" ELSE "run"
  /\ UNCHANGED <<choice, has_working_drive, fat12_geom, medium, open_files, entered, answer>>

\* detect_fat12: the first sector cannot be read (-1), has not the marks of FAT12 (0),
\* or has them (1).
DetectFat12 == {-1} \cup (CASE medium = "none" -> {} [] medium = "other" -> {0} [] OTHER -> {1})

\* Mutant: 0, a disk that is not FAT12, is taken for success, as in drive_init.
CheckFilesystem_ZeroIsSuccess ==
  /\ pc = "check"
  /\ \E result \in IF fs = "fat12" THEN DetectFat12 ELSE {-1} :
       /\ has_working_drive' = IF result = 0 THEN 1 ELSE result
       /\ fat12_geom' = (result = 1)
  /\ pc' = "run"
  /\ UNCHANGED <<choice, drive_ok, medium, open_files, entered, answer>>

\* check_filesystem: only FAT12 can be detected.
CheckFilesystem ==
  /\ pc = "check"
  /\ \E result \in IF fs = "fat12" THEN DetectFat12 ELSE {-1} :
       /\ has_working_drive' = result
       /\ fat12_geom' = (result = 1)
  /\ pc' = "run"
  /\ UNCHANGED <<choice, drive_ok, medium, open_files, entered, answer>>

-----------------------------------------------------------------------------
(***************************************************************************)
(* Calls: syscall_handler takes the number, a function of syscall_table    *)
(* passes its arguments on.                                                *)
(***************************************************************************)
Answered(a) ==
  /\ pc = "run"
  /\ answer' = a
  /\ UNCHANGED <<pc, choice, state, medium>>

Outside == entered' = NoCall /\ UNCHANGED open_files

BadSyscall(n) ==
  /\ n >= MAX_SYSCALL
  /\ Answered(-255) /\ Outside

\* The calls for the terminal, and for the heap.
OtherCall(n) ==
  /\ n \in Terminal \cup Heap
  /\ Answered(0) /\ Outside

\* write_fileno to the terminal, which is no file
ToTerminal(n, fileno) == n = Write /\ fileno = LINEOUT_FILENO

WriteLineout(n, fileno) ==
  /\ ToTerminal(n, fileno)
  /\ Answered(1) /\ Outside

NoDrive(n, fileno) ==
  /\ n \in FileCall \ {Size} /\ ~ToTerminal(n, fileno)
  /\ has_working_drive # 1
  /\ Answered(-32) /\ Outside

\* close_fileno and read_fileno of the terminal
BadFileno(n, fileno) ==
  /\ n \in {Close, Read} /\ fileno = LINEOUT_FILENO
  /\ has_working_drive = 1
  /\ Answered(-5) /\ Outside

\* get_size asks for no drive.
NoFilesystem(n) ==
  /\ n = Size /\ fs # "fat12"
  /\ Answered(-1) /\ Outside

\* What gets through to the FAT12 driver; get_size asks for no drive here either.
Passed(n, fileno) ==
  /\ n \in FileCall /\ fs = "fat12"
  /\ n # Size => has_working_drive = 1
  /\ ~(n \in {Close, Read, Write} /\ fileno = LINEOUT_FILENO)
  /\ entered' = n

\* Mutant: handles start at 0.
FirstFree_FromZero ==
  LET free == (0 .. MAX_OPEN_FILES) \ open_files IN {h \in free : \A k \in free : h <= k}

\* The lowest free handle, if there is one.
FirstFree == {h \in Handle \ open_files : \A k \in Handle \ open_files : h <= k}

Fat12Open(n, fileno) ==
  /\ n = Open /\ Passed(n, fileno)
  /\ \/ \E fd \in FirstFree : Answered(fd) /\ open_files' = open_files \cup {fd}
     \/ \E a \in {-1, -9} : Answered(a) /\ UNCHANGED open_files

Fat12Close(n, fileno) ==
  /\ n = Close /\ Passed(n, fileno)
  /\ Answered(IF fileno \in open_files THEN 0 ELSE -5)
  /\ open_files' = open_files \ {fileno}

\* fat12_write, fat12_read and fat12_get_size look the handle up first.
Fat12Write(n, fileno) ==
  /\ n = Write /\ Passed(n, fileno)
  /\ \E a \in IF fileno \in open_files THEN Answers ELSE {-5} : Answered(a)
  /\ UNCHANGED open_files

Fat12Read(n, fileno) ==
  /\ n = Read /\ Passed(n, fileno)
  /\ \E a \in IF fileno \in open_files THEN Answers ELSE {-5} : Answered(a)
  /\ UNCHANGED open_files

Fat12GetSize(n, fileno) ==
  /\ n = Size /\ Passed(n, fileno)
  /\ \E a \in IF fileno \in open_files THEN Answers ELSE {0} : Answered(a)
  /\ UNCHANGED open_files

Fat12Path(n, fileno) ==
  /\ n \in Paths /\ Passed(n, fileno)
  /\ \E a \in Answers : Answered(a)
  /\ UNCHANGED open_files

\* Somebody takes the disk out and puts another one in; nothing tells the kernel.
ChangeMedium ==
  /\ medium' \in {"none", "other", "fat12"} \ {medium}
  /\ UNCHANGED <<pc, choice, state, open_files, entered, answer>>

Call(n, fileno) ==
  \/ BadSyscall(n) \/ OtherCall(n)
  \/ WriteLineout(n, fileno) \/ NoDrive(n, fileno) \/ BadFileno(n, fileno)
  \/ NoFilesystem(n)
  \/ Fat12Open(n, fileno) \/ Fat12Close(n, fileno) \/ Fat12Write(n, fileno)
  \/ Fat12Read(n, fileno) \/ Fat12GetSize(n, fileno) \/ Fat12Path(n, fileno)

Next ==
  \/ WrongMagic \/ MultibootPreMain \/ HandleSingleArgument \/ KernelMain
  \/ DriveInit \/ CheckFilesystem
  \/ \E n \in 0 .. MAX_SYSCALL, fileno \in Filenos : Call(n, fileno)
  \/ ChangeMedium

Spec == Init /\ [][Next]_vars

-----------------------------------------------------------------------------
(***************************************************************************)
(* Properties.                                                             *)
(***************************************************************************)
TypeOK ==
  /\ pc \in {"loader", "arguments", "drive", "check", "run", "returned"}
  /\ cmdline_str \in Seq(Words) /\ token \in 0 .. Len(cmdline_str)
  /\ drive \in {"nodrive", "fdrive1"} /\ fs \in {"nofilesystem", "fat12"}
  /\ has_working_drive \in {-1, 0, 1} /\ medium \in {"none", "other", "fat12"}
  /\ drive_ok \in BOOLEAN /\ fat12_geom \in BOOLEAN
  /\ open_files \subseteq Handle /\ entered \in FileCall \cup {NoCall} /\ answer \in Int

\* What the words handled so far say last, or the default.
Settled(says, value, default) ==
  \E i \in 0 .. token :
    /\ IF i = 0 THEN value = default
                ELSE cmdline_str[i] \in DOMAIN says /\ value = says[cmdline_str[i]]
    /\ \A j \in i + 1 .. token : cmdline_str[j] \notin DOMAIN says

\* The last argument about the drive and the last one about the filesystem count,
\* whatever stands between them; the drive is started as chosen.
LastWins ==
  /\ Settled(DriveWords, drive, "nodrive") /\ Settled(FsWords, fs, "nofilesystem")
  /\ pc \notin {"loader", "arguments", "returned"} => token = Len(cmdline_str)

\* A call gets through to the FAT12 driver only when the chosen drive was started and held
\* a disk with the marks of FAT12, whose geometry the driver then has.  get_size alone is
\* passed on without a look at the drive, against the head of LineFilesystem.c; it then
\* finds nothing open and answers 0.  About check_filesystem and LineFilesystem.c's calls.
Detected ==
  entered # NoCall =>
    /\ fs = "fat12"
    /\ (drive_ok /\ drive = "fdrive1" /\ fat12_geom) \/ (entered = Size /\ answer = 0)

\* Nothing is open without a working drive, and no file has the terminal's handle.
HandlesApart == open_files # {} => fat12_geom /\ LINEOUT_FILENO \notin open_files
=============================================================================
