# LineKernel in TLA+

Models of the parts of LineKernel that keep state and can get it wrong: the
kernel heap, the FAT12 file system from names and paths down to the bytes of the
FAT, the floppy driver, interrupts and timer, the start and the file calls, the
text screen and the keyboard. TLC checks them on small instances; TLAPS proves
what matters most about all of them for every value of the constants, but for the
contents of files and liveness, which are only model-checked (end of section 4).
`PROJECT.json` lists the runs, the mutants that show each property can fail, the lines each definition stands
for, the hazards, the findings and the theorems.

## 1. The system

LineKernel is a small monolithic kernel for i386 (and, with less hardware
support, x86_64 and riscv64). One thread of control runs: the kernel starts,
initialises its parts and serves system calls one at a time. The only
concurrency is with interrupt handlers (timer, floppy), with the hardware, and
with whatever else may happen between two steps: power that fails, keys that are
pressed, a medium that is changed.

| Component (source) | State | Operations | Talks to |
|---|---|---|---|
| heap (`kernel/LineMemory.c`) | block headers in RAM, `free_list_head` | `heap_init`, `kmalloc`, `kfree` | system calls `alloc`, `free` |
| FAT12 (`kernel/fat12.c`, `fileno.c`) | the disk; `open_files[256]`; geometry | open, close, read, write, get_size, rename, makedir, removedir, removefile, listcontent; detect | the drive layer, sector by sector |
| file system calls (`kernel/LineFilesystem.c`) | `fs`, `has_working_drive` | dispatch of the above, error codes | FAT12, console |
| drive layer (`kernel/LineDrive.c`) | `drive` | init, read sector, write sector | floppy |
| floppy (`i386/floppy.c`) | `fdc_irq_fired`, DMA buffer, the controller's state | init, read, write; reset, recalibrate, seek, transfer | controller ports, IRQ 6, timer, DMA |
| timer (`i386/timer.c`) | `timer_ticks` | callback on IRQ 0, `get_ticks`, `sleep_ms` | everything that waits |
| interrupt dispatch (`i386/idt.c`, `interrupts.s`) | handler table | install, dispatch, EOI | timer, floppy, panic |
| system calls (`kernel/syscall.c`, `*/syscall.s`) | none | 17 calls by number | heap, files, console |
| console (`LineRenderer.c`, `vga_console.c`, `serial.c`) | cursor, colour, screen | put, newline, backspace, clear, scroll | ports, video memory |
| keyboard (`ps2_keyboard.c`, `LineInput.c`, `serial.c`) | shift state | `get_char` (polls keyboard and serial line) | ports |
| boot (`LineKernel.c`, `prekernel.c`) | `drive`, `fs`, `has_working_drive`, command line | parse, initialise in order | all |

Behaviours that are hard, and what is right for each part:

- **Heap.** Long sequences of splits and merges over an intrusive doubly
  linked list, next to memory that callers write. Right: every byte in exactly
  one block, every free block on the list, every caller with room of its own, a
  refusal only when nothing fits, a double free noticed.
- **FAT12.** Three representations of a file (directory entry, FAT chain,
  handle) that every operation must keep in step, reused clusters that
  still hold old data, a disk that may be full at every allocation. Right: the
  tree stays a tree, chains are apart and end, nothing leaks, a read returns
  what was written, an error code means what it says.
- **Floppy.** A flag shared with an interrupt handler, test-then-halt waits,
  time-outs, retries after an unknown outcome. Right: every call returns, an
  interrupt is never taken for the answer to another command, a success is one.
- **FAT12, below and above.** Entries of 12 bits share bytes and cross sectors;
  they are kept in two copies and written byte by byte. Power may fail between
  any two writes. Names are cut, padded and capitalised on their way to the disk,
  and what a listing returns lies in a ring that all callers share. Right:
  neighbours and copies stay intact, a crash harms only what the call was about,
  a listed name leads back to its file, no two files have one name.
- **Interrupts and timer.** Handlers come in between any two steps of the
  kernel once they are enabled, spurious ones included; two controllers want to
  be told that a handler is done; a counter wraps. Right: no line is blocked for
  good, none is served before its gate is there, `sleep_ms` waits long enough
  and returns.
- **Start and file calls.** The command line decides on drive and file system,
  a detection with three results on whether there is one. Right: no call reaches a
  file system that is not there, no file is taken for the terminal.
- **Screen.** Wrapping, scrolling and backspace at the corners, a cursor that
  exists twice. Right: nothing is lost, swapped or printed twice, the cursor that
  is seen is the one that counts.
- **Keyboard.** Scancodes of two shift keys and of extended keys, buffers that
  overflow, a second source of characters. Right: what is typed arrives once and
  in order, shifted as it was typed.

## 2. Modules

| Module | What it is |
|---|---|
| `LineMemory` | the heap; its properties and mutants |
| `Allocator` | what callers of the heap may rely on |
| `LineMemoryProofs` | the theorems about the heap |
| `MC_LineMemory` | instance for TLC |
| `FatDisk` | a FAT12 volume and the routines on it, as operators |
| `Fat12` | the driver's operations on the disk and the handles; its properties |
| `FileStore` | what the file system calls promise: a tree, handles, replies |
| `Fat12Files` | `Fat12` with the tree its disk stands for; it implements `FileStore` |
| `Fat12Crash` | `Fat12Files` with power losses between the writes of a call; the properties of both |
| `Fat12Proofs` | the theorems about the driver's chains, directories, tree and handles |
| `Fat12CrashProofs` | the theorems about power losses between the writes of a call |
| `MC_Fat12`, `MC_Fat12Clients` | instances for TLC |
| `FatPacking` | FAT entries in bytes, sectors and copies; its properties |
| `FatNames` | names on the disk and in paths, as operators |
| `FatListing` | one directory and the ring of listed names; its properties |
| `FatFormatProofs` | the theorems about both: the FAT in bytes; names, directory and ring |
| `MC_FatPacking`, `MC_FatListing` | instances for TLC; the second also compares the name operators with their definitions |
| `Floppy` | driver, interrupt handlers, controller; its properties |
| `SectorStore` | what `floppy.h` promises about sectors |
| `FloppyProofs` | the theorems about the floppy driver |
| `MC_Floppy` | instance for TLC |
| `Interrupts` | start, dispatch, interrupt controllers, timer, `sleep_ms`; its properties |
| `InterruptsProofs` | the theorems about them |
| `FileCalls` | command line, detection, dispatch of the file calls; its properties |
| `FileCallsProofs` | the theorems about them |
| `VgaConsole` | the VGA text screen; its properties |
| `Paper` | what a screen promises: the end of a roll of paper |
| `Keyboard` | scancodes, shift, `get_char` and the serial line; its properties |
| `ConsoleProofs` | the theorems about the screen and the keyboard |
| `MC_Interrupts`, `MC_FileCalls`, `MC_VgaConsole`, `MC_Keyboard` | instances for TLC |

No module declares a RECURSIVE operator; recursion is by functions and folds.

### 2.1 Heap

Memory is an array of cells of `ALIGNMENT` bytes. On i386 a block header is one
cell, headers lie at cell boundaries, and so the fields `size`, `is_free`,
`next` and `prev` of the header a cell would hold are functions on cells.
`kmalloc` is `Kmalloc` (the call), `KmallocNext` (the loop passes a block),
`KmallocTake` (unlink, split, return) or `KmallocFail`; `kfree` is `Kfree`, with
`coalesce`. Callers are `Scribble`: they write anything to the bytes they asked
for, so those cells may look like any header. `live`, `freed` and `blocks`
are history: who asked for what, which pointers were released, where
the headers are. Pointers are only released by whoever got them from `kmalloc`,
once or more often; a pointer from nowhere is not modelled. A pointer that was
released and whose cell another caller holds by now is no longer released.
`Allocator` is two promises: `Spec`, what may be answered, which is safety and
proved, and `Answered`, that there is an answer, which is liveness and the run's
`KmallocReturns`.

### 2.2 FAT12

A call is one step of `Fat12`, since the kernel serves one at a time. The
routines inside are operators of `FatDisk` from disks to disks, one per C
function, in the order the code calls them, failures included. A cluster is one
sector (a 1.44 MB floppy). Its content is kept twice, as directory slots and as
bytes, and writing it as one makes junk of the other, so a directory in a reused
cluster that is not zeroed is full of junk entries. Clusters above `LastSector`
have a FAT entry but no sector: reads and writes of them fail, as they do
at the end of a real disk, where the FAT has room for more entries than the disk
has clusters; the code does not know where the disk ends.

A name is a model value; `Spelling` stands for the ways to write one
path (case, extra slashes, long names that are cut). A path is a sequence of
names. Entries of long names do not occur; drives fail only beyond the end of the disk.

Clients call anything with anything, with three exceptions in `Next`: they open
no file that is open, they rename neither an open file nor a directory above
one, and they move no directory into itself. The driver forbids none of this.
The first two are `Liberties` that an instance may grant; section 5 says
what then breaks. With "rename open" a stale handle can patch a slot that
belongs to another directory by then, so even `ChainsApart` is lost; for that
reason no passing run grants it. The third is left out because a detached cycle
is no tree, and none of the promises is left to state.

`Fat12Files` adds the variable `tree`, which is `Tree(disk)` as long as there is
power, and the tree of the last moment with power afterwards. `FileStore`'s
handles are read off `open_files`, and `ImplementsFileStore` says that every call
is one that `FileStore` allows. `FileStore` says exactly what each error code means, with -1 as
the code that may have any reason.

### 2.3 Floppy

`pc` is where the driver is, `wait` where it is inside `wait_for_fdc_irq`: at
the test of the flag, at the look at the time, in hlt. A tick and an interrupt
end a hlt; neither helps if it came before. The controller (`Arrive`,
`Complete`, `Break`, `ComeUp`) works on its own: it may end a seek at the wrong
cylinder, end a transfer badly after moving part of the data, or never answer.
`order` is the call its transfer is for. Between the test of the flag and the
look at the time there is at most one tick, a tick being a thousand times
longer. Sensing after a command that has not ended gives an arbitrary cylinder,
reading the status too early an arbitrary status: that is what `fdc_read`
does when it gives up.

`LateAnswers` says whether an interrupt may come while the driver does not wait
for it, or in the last tick of its wait. Without it, the driver keeps
the promise of `SectorStore`. With it, an interrupt that was given up
may be taken for the next command's, and a read may then
succeed with the wrong data; nothing in the source promises otherwise, so the
run `floppy_late` asks only that every call returns and leaves the motor off.

### 2.4 The FAT in bytes

`Fat12` reads and writes FAT entries as numbers. `FatPacking` has the sectors
they lie in: `Start` is `fat12_write_fat_entry` (two bytes, the neighbour's four
bits kept), and `WriteByte`, `Duplicate`, `NextByte` are
`write_fat12_fat_bytes`: for each of the two bytes one write of the first copy
and one of each further copy, through `sec_buf`. `Allocate` with `Link` and
`FreeChain` with `FreeNext` are the callers; `PowerFails` may come between any two
sector writes. `fat` is history: the table as the callers mean it.

`fat12_allocate_cluster` looks at 4078 entries although a copy has 3072 on a 1.44 MB
disk, so it reads on in the second copy. `PackingAssumption` is why that is harmless
there: a copy is a multiple of three bytes long and two of them hold all entries that are
looked at, so that the entries it sees are those
of the second copy, in step with the first, and the first free one lies in the first. A FAT
of 7 sectors (1.2 MB) is no multiple of three bytes, two of 3 sectors (720 KB) hold only
2048 entries and what is read behind them is the root directory, and a FAT of one copy has no
second one: these media are outside of the assumption. `Table` is the FAT at mount, with
chains and bad clusters. Since a byte goes to both copies before the next byte,
a power failure can leave the entry that was being written torn in both copies;
`EntriesKept` says that it is the only one.

### 2.5 Crashes

`Fat12Crash` keeps the steps of `Fat12Files` for calls that return and adds
`PowerLoss`: a call that gets as far as one of its disk writes. `WritesOf` is the
sequence of disks that the writes of a call make, in the order of `fat12.c`, built from
the same operators of `FatDisk` as the call as a step is. `before` is history: the call under way and the
handles before it. While there is power (`on`), `TreeStands`, `NoneLost`,
`NoneShared` and `ImplementsFileStore` must hold; after a loss `OthersSurvive`,
`RenamedSurvives` and `WrittenOrOld` say what the next start finds. Calls on such
a disk are not modelled (nothing repairs it: a removed chain may still have an
entry, a directory whose end was moved may show old slots).

### 2.6 Names and listings

`FatNames` has `to_fat12_name`, `from_fat12_name` and `get_next_path_component`
as operators on sequences of characters, and `Components`, the path as
`fat12_find_entry` takes it apart. They are pure, so `MC_FatListing` compares them
with plain definitions, as assumptions that TLC evaluates for every path of up to seven
characters: the components are what lies between slashes (`TakenApart`), a shown
name opens the same entry (`ShownOpens`), and a short name in capitals is shown as
it was given (`ShownAsGiven`). `FatListing` has one directory, by names only, that
`Open` and `RemoveFile` change, and `fat12_listcontent` with its ring: `held` are
the pointers a caller keeps. A name that is pointed to is good until as many more
names as the ring has places were handed out, to any caller; `ListedOpens` says
so. A file whose name begins with the character 0xE5 is created and never found,
and its slot is free for the next: the run has one, `NamesApart` and `ListedOpens`
are about the others. What a listing shows are the first `count` slots that
are seen, in order: `Shown` is the set of sequences that say so, and has one element.

### 2.7 Interrupts and timer

`pc` goes through the start in `LineKernel.c`'s order, then `main` makes system
calls and sleeps. `Interrupt` and `Spurious` enter a handler between any two of its
steps once `IF_flag` is set; `Handler`, `SlaveEoi`, `MasterEoi` and `Iret` are
`common_handler` and its stub. The controllers are external: requested and
served lines (`irr`, `isr`) with their priorities, and the end-of-interrupt
command, which ends the served line of highest priority, whichever that is. A
spurious interrupt of the second controller leaves line 2 served in the first.
`slept` is history: the ticks since `sleep_ms` began. `Late` bounds the ticks
between two looks at the counter; a delay of 2^32 ticks would not be noticed.

### 2.8 Start and file calls

The loader passes any command line; `Argument` handles a word of it, then the drive
starts or not, and the file system is looked for. `FileCalls` has `fat12_geom`
and the open handles, not what the FAT12 driver does, which is `Fat12`'s part: an answer
of the driver is any of `Answers`, as far as the handle is open. `entered` is history: the
number of the last call if it was passed on to the driver. `get_size` is passed on whatever
`has_working_drive` says. The
medium may be changed at any time; the code does not notice, and the geometry stays that of
the first one.

### 2.9 Screen

`vga` is one record: the globals of `vga_console.c`, the cursor register of the
hardware, and the cells that scrolled off as history (`above`, `gone`).
`Paper` is a roll on which cell after cell is printed and that moves up by a row at
its end; the screen shows its last rows. Callers move the cursor to positions on the
screen only (`PositionAssumption`): the code checks nothing, and whoever moves it
elsewhere has the next character stored elsewhere.

### 2.10 Keyboard

Keys are pressed and released, and characters come in on the line, between any
two steps of `get_char`; `PollKeyboard` and `PollSerial` are its two looks.
Extended keys arrive with a prefix, which the driver drops. Around some of them the keyboard
sends fake scancodes of shift keys (`Fakes`), as scancode set 1 has them: the cursor block (with
Num Lock off) and the keypad's "/" are sent with the shift keys that are held released before the
press and pressed again after the release (`Lifting`), Print Screen and the cursor block with Num Lock on
with the left shift key pressed before and released after, when none is held (`Raising`). A key
that is held is repeated with its fake scancodes or without. The driver takes fake scancodes for real
ones: while Print Screen is held, shift is on though no shift key is. Num Lock is what the start left,
since the kernel never sends the keyboard anything but "scan on". Both devices drop what they have
no room for. `down`, `typed`, `got`, `sent` and `read` are history; `lost` is set when a scancode
was dropped, `mixed` when shift was held in a way that the driver does not follow: before the start,
with both shift keys, or when a letter is typed while a key with fake scancodes is held.
Characters are keys here; keys of `Alike` have the same one with shift and without.

## 3. Runs

| Run | Instance | What it shows |
|---|---|---|
| `heap` | 7 cells, requests of 1, 4, 5, 13 bytes, cells of 4 bytes | the heap stays tiled and linked, double frees are noticed, refusals are right, `kmalloc` returns, `Allocator` is implemented |
| `fat12_tree` | 2 clusters on the disk and one beyond, a root of 2 entries, 3 names in two levels, files of 1 byte | every operation on a tree that fills up, grows and shrinks: it stays a tree, nothing leaks, `FileStore` is implemented; power lost between any two writes harms only what the call names |
| `fat12_data` | 2 files in the root, 2 handles, 3 clusters of 2 bytes and one beyond, files up to 3 bytes | reads return what was written, no cluster is shared; after a loss of power a byte is the old or the new one, never another file's |
| `fat12_rename_open` (violation) | 2 clusters, 2 names, the liberty "rename open" | section 5 |
| `fat_packing` | 8 entries, 3 sectors of 4 bytes, 2 copies, 2 bad clusters | neighbours, copies and root directory stay intact, calls return |
| `fat_listing` | 3 slots, a ring of 2, 2 callers, 4 names; paths of up to 7 characters | a recent name leads back to its file, names are apart, paths are taken apart right |
| `floppy` | 2 sectors, 3 cylinders, 2 contents, patience of 2 ticks | three attempts, no stale interrupt, `SectorStore` is implemented |
| `floppy_late` | 1 sector, 2 cylinders, late answers | every call returns, with the motor off |
| `interrupts` | lines 0, 6 and 15, a counter modulo 5, sleeps of 0 and 2 | every interrupt is ended, at both controllers; `sleep_ms` is long enough and returns |
| `file_calls` | command lines of up to 3 words, 2 handles | no call reaches the driver without a detected disk but `get_size`, which answers 0; handles apart |
| `vga_console` | 3 rows of 2 cells, 2 colours, one row scrolled off | the screen is the end of the roll, the cursor is true |
| `keyboard` | 4 presses and releases of a letter, a cursor key, the keypad's "/", Print Screen and both shift keys, with Num Lock on or off, 1 character on the line, room for 4 scancodes | each character arrives once and in order, shifted as it was typed; in a pause all of them; shift never stays on |

**Bounds.** Seven cells hold three blocks and their smallest rests, so a block
can be split with and without a rest, merged with a neighbour that is first, in the
middle or last on the list, and released again inside a merged block; larger
heaps are covered by the proofs.

In `fat12_tree` a directory that grows competes with another object for the last
cluster, clusters are used again for files and directories in turn, and the one
beyond the disk is handed out when the others are taken; two levels of
directories make the longest sequences of writes (a rename between directories, a
directory that is made in one that grows). Three slots per cluster are the least
in which ".", ".." and an entry fit. In `fat12_data` writes of one and three bytes
to clusters of two reach every alignment of cursor and cluster boundary, and two
files with two handles compete for three clusters. `MaxFile`, `MaxRead`, `Buffer`
bound what clients read and write, `MaxOpenFiles` the handles.

`FatPacking`: among eight entries there are even and odd ones, two that cross a
sector, and chains up to the length of the disk; the scan looks at four entries of
the second copy. Paths of seven characters have room for two components with
extension and doubled slashes, and `MaxComponent` of 5 for one that is cut. A ring
of two overflows in the first listing of three names. A patience of two ticks has
a tick before, in and after every place in a wait of the floppy driver. `Turn` of 5
lets the counter wrap inside every other sleep; more lines are covered by the
proofs. `MaxGone` bounds how many cells scroll off: the screen scrolls once, after each
kind of step, and the proofs cover any number. Four key events hold and release
both shift keys, and type a letter under a shift key or after an extended key, with and without
shift; `Depth` of 4 loses scancodes in the middle of what an extended key sends, whose press
alone is up to six. Longer runs of keys are covered by the proofs.

The FAT12 runs use `VIEW` to leave out the last reply, which nothing depends
on, and `SYMMETRY` over names, `fat_listing` `SYMMETRY` over callers; they check
safety only. TLC checks the step properties on every transition, also one to a
state it has seen. `CHECK_DEADLOCK FALSE` is set where the system may stop: the
floppy driver when its initialisation fails, the FAT12 runs and `fat_packing`
without power, `interrupts` after a panic, and where a bound ends the clients
(`vga_console`, `keyboard`) or a directory and its callers have nothing new to do
(`fat_listing`).

**Fairness.** `LineMemory`: the processor goes on executing `kmalloc`'s loop;
callers need not call. `Floppy`: the processor goes on executing the driver and
the timer goes on ticking (the PIT is programmed once and interrupts are on);
the controller is owed nothing. `FatPacking`: the routines run on while there is
power. `Interrupts`: the processor goes on (weak fairness of the handler's
steps, strong fairness of `main`'s, since interrupts come in between again and
again but handlers end), the timer goes on ticking, and a line that is again and
again the most urgent one is taken (strong fairness of `Interrupt`; the
controllers hold requests). `Keyboard`: `kernel_main` calls `get_char` for ever,
so both looks are taken when they can be (weak fairness). A keyboard that always
has a character keeps the serial line waiting for ever, which is why `AllArrives`
speaks of a pause: there the clients run out of keys.

## 4. Proofs

**Heap** (`LineMemoryProofs`). Under `NoWrap`, that no caller asks for so much
that the size wraps around (section 5),
and the assumptions on the constants in `LineMemory`, every theorem has the form
`Spec => []P`. The properties are not inductive one by one: that `coalesce` merges
with a free neighbour needs its mark to be true, which needs the cell behind a
block to be a header, which needs the tiling; that unlinking keeps the
list needs links in both directions; that a caller cannot
destroy a header needs room. `IInv` is their conjunction with what links
them, and the proof has one lemma per action. The list operators have lemmas of
their own (what `NextWithout`, `PrevWith` and the others do to `Linked`).
`FreeListComplete` needs more, because `Linked` alone also holds of a list with a
cycle beside it: a set of free blocks that `prev` does not leave must have
the head, and each way in which a block leaves or joins the list is shown to keep
that. `RefusalsRight` rests on `Passed`: while `kmalloc`'s loop runs, there is a set
of free blocks that it has passed, all too small, from which the list leads only
to the cursor; when the cursor is at the end, completeness makes that set all
free blocks. `AllocatorImplemented` maps each step to a step of `Allocator` or a stutter
(`Grant` needs that the cells handed out are no one's; of a merge callers see nothing). `TypeCorrect`,
`MarksTrue` and `CallersDisjoint` state parts of the invariant that no run repeats.

**Floppy driver** (`FloppyProofs`), for any number of sectors and cylinders, any
contents and any patience. `Control` says which call and which phase of the
controller go with each place in the driver; with `TypeOK` it is inductive whatever
the controller does, so `TypeCorrect` and `MotorOff` (the motor is off whenever
a call has returned) assume nothing. The motor needs `Control` because the
returns of a call lie behind a release, a reset or a time-out, each of which
turns it off in a different place.

`NoStale` and `StoreImplemented` assume `~LateAnswers`: an answer comes while the
driver waits and has time to notice it (the code does not ensure this; a drive
that answers in time does). Under it `Punctual` is invariant too:
`FlagInTime` (the flag is set only in a wait that will still see it, hence a wait
that times out leaves no flag), `InStep` (the controller does the command the driver
waits for, so the status read is the status of this transfer) and `Carried`
(the buffer holds what is to be written and, after a transfer that ended well,
what the sector holds). None of the three is inductive alone: a stale flag
would let the driver read a status before the transfer has ended, and a transfer
out of step would leave another call's bytes in the buffer. `StoreImplemented` maps
every step of driver and controller to a step of `SectorStore` or a stutter.
`CallReturns` is liveness and stays with TLC.

**FAT12 driver** (`Fat12Proofs`), for disks, directories, clusters, paths and tables of
handles of every size. Every theorem assumes `NoLiberties`, what the passing runs of `Fat12` have as
well: no file is opened twice, no open file is renamed, a path is
written in one way. (Section 5 says what goes wrong otherwise.) The invariant is `FilesInv`: there is
a set `D` of directories for which

- `IsTree` holds. The FAT is sound (`SoundFat`: its links are one-to-one, lead to
  clusters in use and go round in no ring); the members of `D` are the root and heads of chains; every entry
  is `Proper`, that is, it leads to a member of `D` or to the head of a chain that is no directory's;
  two entries of one directory have different names, and no two entries the same chain (`Apart`);
  `.` and `..` of a directory are right (`Dotted`, `LeadsBack`).
- `Whole` holds. Every chain has an entry in a member of `D`, and every set of members without the root
  has an entry from outside (`Entrance`): nothing hangs on itself.
- `Handles` holds. Every open handle is on the entry that its path leads to, with the first cluster
  that the entry has, and no two handles are on one entry.

None of it stands alone. That the search for a slot ends, so that what it reads is an entry
at all (`TypeOK`), needs chains without cycles; that a write into one chain keeps the others
needs them apart (`NoneShared`); that the write's chain is the file's needs the handle to agree
with its entry, through every rename and remove of something else; and that a rename leaves
`..` right (`TreeStands`) needs one entry per directory. That nothing is lost (`NoneLost`) is
about what paths lead to from the root, which `D` does not say: a directory that is cut off with all that is
below it would satisfy `IsTree`. `Whole` is that part, said without paths so that one changed entry
is one step of it; `rename` keeps it only because no directory moves below itself (`PathWithout`: the path to the
new place does not go by the old entry). From `Whole` a count of directories shows that the levels of
`Places` reach all of them (`AllInPlaces`). The proof goes up in layers, each
hiding the one below behind named relations between two disks: chains (`Longer`,
`SameChain`), slots (`Wrote`, `Created`, `Replaced`), the tree (`TreeCreated`, `TreeRemoved`,
`TreeRenamed`, `DirMade`), paths (`DirAt`, `Stays`), handles (`Stands`), calls. `rename` is the hard
one: the entry is there twice for a while, so that the disk between its writes is no tree, and
`Moves` carries what holds then. The loops of
`Reach`, `Places`, `Write` and `Read` are recursive functions; what they do for every number of
turns is proved from the least turn at which it would fail (`MinOf`, `AllNumbers`,
`Iterates`), since the library's induction theorems cannot be used. `FilesStayConsistent` is about
`Fat12`'s `Spec`. The properties belong to `Fat12Crash`, whose steps are the driver's while there is power:
`ConsistentWhileOn` carries the invariant over, and `TypesKept`, `NoClusterShared`, `NothingIsLost` and `TreeKeepsStanding` follow.

*Between the writes of a call* (`Fat12CrashProofs`) `FilesInv` need not hold: an entry is there
twice, a chain is cut, a cluster is marked and belongs to nothing. What holds on each such disk is `Kept(d, w, D, X, C)`:
compared with the disk `d` at the begin of the call, `w` has a sound FAT, every entry in use in the directories of `D`
but those of `X`, and every chain with its bytes but those that begin in `C`; no entry before a listed one took its name.
A path that avoids `X` and leads to nothing of `C` is then found on `w` where it was, with the bytes it had (`AllFound`). For each call
there is a lemma that its writes stay among such disks, with the least `X` and `C` that it needs: nothing but directories for
`open`, `makedir` and `rename` (`OpenKeeps`, `MakeDirKeeps`, `RenameKept`; in a directory that moves also the `..`), the chain
that is freed for `removefile` and `removedir` (`RemoveKeeps`, chain by chain in `LeftIs`: it loses its clusters from the
front), the file's entry and chain for `write` (`WriteKeeps`, an invariant of the loop, `OnWay`).
`CallKeeps` puts them together; `OthersStayInPlace` and `RenamingLosesNothing` follow. Their invariant says more
than the properties do: with the power on, `FilesInv` and that `tree` mirrors the disk.

**FAT in bytes** (`FatFormatProofs`), for any number of entries, sector size
and number of copies that `PackingAssumption` allows. The arithmetic of a pair of
entries in three bytes comes first, as lemmas for every cluster number: what
packing an entry leaves of its neighbour and what reading it back gives. The
invariant says where `WriteByte` and `Duplicate` are, which bytes of which
copies are new, that `sec_buf` is the sector that was written, and that the callers'
table links only clusters of the disk; from it follow `EntriesKept` and
`CopiesAgree`, and `RootUntouched` because a free entry behind the first copy would
be free in the first one as well and be found there.

**Interrupts** (`InterruptsProofs`), for any lines and any turn of the counter.
`Control` says what is set up at each place of the start and which lines are in
service at each place of a handler; `Counting` relates `slept` to the difference
of the counters modulo `Turn`. Neither property follows by itself:
`NothingInService` needs to know which of the two controllers was told already,
`SleepsLongEnough` that no more than `Turn` ticks come between two looks.
`TablesFirst` is about the start: no line is served before its gate is there.

**File calls** (`FileCallsProofs`), for any command line and any number of handles:
`Booted`, `Reached` and `Choice` say how far the start is and what it has decided by
then. A call but `get_size` reaches the driver only in `"run"` with `has_working_drive` at 1, and then
the detection was done and said yes; `get_size` finds nothing open otherwise (`Reached`), because
`open` was never passed on.

**Screen** (`ConsoleProofs`), for screens of every size: `Fine` is `Good` (row,
column and cells are what they should be) together with the cursor. `Implements` maps the record
`vga` to `Paper`'s sheet, rows that scrolled off first, and every step to a
step of `Paper`; a clear keeps what scrolled off.

**Keyboard** (`ConsoleProofs`), for any number of keys of each kind and any buffers.
`KeyboardAssumption` is what scancode set 1 has: kinds of keys that are apart, and which of them are
extended. `Settling` says that, when no shift key is held, nor a key of `Raising`, and nothing was
lost, the last scancode of a shift key that
waits in the keyboard is a release, or none waits and shift is off. It takes the
queue into account because keys are released long before `get_char` looks, and the fake
release that `Raising` keys end with is one of its cases (`FakesLead`).
`TypedInOrder` and `TypedShifted` need one invariant: there is a map `place` from the presses
that wait in the queue to what was typed and not yet read, which keeps the order and
reaches all of it (`Follows`), and reading up to a press leaves shift as the press
was typed with, unless shift was `mixed` or it makes no difference (`Shifted`, with `Leads` for what a
prefix of the queue makes of shift). `OneShift` is what makes the next press fit: at most one shift
key is held, and if one is and no key of `Lifting` hides it, the queue as
a whole leads to shift; what the fake scancodes of a key itself lead to is `PressLeads` before its press and
`ReleaseLeads` after its release. No key is of `Lifting` and `Raising` at once (`Kinds`), whatever Num Lock is.

**Names and listings** (`FatFormatProofs`), for names, paths, directories and rings of any
length that `ListingAssumption` allows: the ring has a place, a component has room
for a name with its extension and dot (8 + 1 + 3 of 255), capitals are
letters again and none of them is a dot, a slash or a blank, and the character 0 does
not occur in a string. `RoundTrip` is about the operators of `FatNames` only: what
`from_fat12_name` makes of an entry gives the same entry again, whoever made it, if its
characters are ones that `to_fat12_name` stores and its name has no dot;
`ShownNameOpens` is that for every path. For `ListedFound` the inductive invariant has two halves. `DirOK`: nothing
stands behind the end of the directory and what is seen was made by
`to_fat12_name`; `NamesApart` is inductive with it, because a new name is
put only where `Find` found none. `RecentKept`: the place of a name that is
among the last `Ring` is as far behind `contents_filename_idx`, around the ring, as names were
handed out since (`Age`), so no name put later can have overwritten it. The
arithmetic of going around the ring is stated as lemmas on remainders first.

**Only model-checked.**

- `ImplementsFileStore`: the tree that a disk stands for is a function of contents and sizes, which `FilesInv` does not speak of.
- `WrittenOrOld`: it needs to know of each file that its chain is as long as its size says and that
  no cursor is behind its end, which `FilesInv` does not speak of either. (`OthersStayInPlace` says what a power loss in
  a `write` leaves of everything else.)
- `Components`, the path of several components, a function over the characters of a string: `TakenApart`,
  `ShownOpens` and `ShownAsGiven` are assumptions that TLC evaluates.
- All liveness: `KmallocReturns`, `CallReturns`, `CallsReturn`, `SleepReturns`,
  `AllArrives`. It needs fairness and ENABLED.

## 5. Findings

`fat12_rename_open` has a counterexample: after `rename` of an open file, what is
written through the handle is not in the file (`fat12.c:787-791` gives the handle
the new path and leaves its directory and slot).

Other places where code and comments, or two parts of the code, disagree. The
models have them as the code does, or leave the case out as named:

- `kmalloc` of a size within 31 bytes of the largest `size_t` succeeds with a
  block too small for it (`LineMemory.c:73`). `NoWrap` leaves it out.
- A file that is open twice can be removed while it is open: a handle opened when
  the file was empty does not learn the first cluster (`fat12.c:927`); and an
  open empty file can be removed under another spelling of its path
  (`fat12.c:928`). Clients of the passing runs do neither.
- The floppy motor is off during every transfer (`floppy.c:161`), as in `Floppy`.
- `get_size` does not look whether there is a working drive, although the file
  says that every call fails with -32 without one (`LineFilesystem.c:211`, against lines 4-6). It goes
  into the FAT12 driver and answers 0, as for an empty file; `Detected` names the case.
- The driver drops the prefix 0xE0 (`ps2_keyboard.c:75`) and so takes the fake scancodes of shift keys
  for real ones (lines 64-72): while Print Screen, or a cursor key with Num Lock on, is held, letters are
  capital though no shift key is held, and while a cursor key or the keypad's "/" is held with shift, they are
  small. With both shift keys held, releasing one turns shift off. `mixed` marks these states;
  `ShiftSettles` says that shift is right again afterwards.
- Clearing the screen leaves the cursor of the hardware where it was until the next character
  (`vga_console.c:26`); `CursorShown` leaves the state out.
- `check_filesystem` answers 1 for success, 0 or -1 for failure, the reverse of
  its comment (`LineFilesystem.c:22-24`); its caller expects 1, as in `FileCalls`.

## 6. Not modelled

- **FAT12:** drives that fail on a sector within the disk. A read error counts as the end of
  a search (`fat12.c:409`), and a FAT sector that could not be read is written
  back (`fat12.c:129`) with undefined bytes. The fields that `detect_fat12` takes from the
  boot sector, clusters of several sectors, entries of long names. A directory
  renamed to a path below itself, after which there is no tree. Calls on a
  disk that a crash left half written.
- **A medium that is changed** while files are open: nothing notices, so there is
  nothing to hold.
- **Keyboard:** Print Screen together with Control or Alt, and Pause, which send other scancodes; a keyboard that
  changes Num Lock by itself.
- **Console:** the copies of the output on the serial line and for SBI, which are byte
  sequences; printing of numbers.
- **System calls:** registers; calls that pass their arguments on.
- **Start:** the loader, the copy of the command line and its split into words.
- **DMA, segment tables, power, SBI:** hardware set up by port writes in a fixed order; the
  buffer of the DMA is part of `Floppy`.
- **Strings, numbers, random numbers:** pure functions without state.
- **64-bit builds:** their heap headers of 32 bytes and their own start.
- **Third-party code and build tools** are not this program's.

## 7. Plan

Done, in this order: `LineMemory` with `Allocator` and its proofs; `FatDisk`,
`Fat12`, `FileStore`, `Fat12Files`; `Floppy`, `SectorStore` and its proofs;
`FatPacking`, `Interrupts`, `FileCalls` and their proofs; `Fat12Crash`;
`VgaConsole` with `Paper` and its proofs; `Keyboard` and its proofs; `FatNames`,
`FatListing` and their proofs; the proofs about `Fat12`, then about `Fat12Crash`.

Next, most important first:

1. FAT12 over `SectorStore` with failing sectors, where a read error counts as
   "not found".
2. Calls on a disk after a crash: which of `Fat12`'s promises still hold there.
3. Proofs: sizes and cursors, and with them `WrittenOrOld`; `ImplementsFileStore`, first call by call.
4. The output on the serial line next to the screen; the boot sector's fields.
