----------------------------- MODULE Interrupts -----------------------------
(***************************************************************************)
(* Interrupts: the dispatch of i386/idt.c and i386/interrupts.s, the timer *)
(* of i386/timer.c, and the order in which kernel/LineKernel.c turns them  *)
(* on.  One program runs, main, that interrupts come in between; it waits  *)
(* in sleep_ms, and system calls run as part of it.                        *)
(*                                                                         *)
(* The pair of interrupt controllers (PIC) and the devices are external:   *)
(* what a controller requests (irr), what it takes to be in service (isr), *)
(* and the end-of-interrupt command, which ends what has the highest       *)
(* priority in isr.                                                        *)
(***************************************************************************)
EXTENDS Integers

CONSTANTS
  Irqs,        \* the interrupt lines in use; 2 joins the controllers
  Turn,        \* timer_ticks is counted modulo Turn (2^32)
  Sleep,       \* what sleep_ms is called with
  Late         \* ticks that may come before main looks at the counter again

ASSUME InterruptsAssumption ==
  /\ Irqs \subseteq (0 .. 15) \ {2} /\ 0 \in Irqs
  /\ Late \in Nat \ {0} /\ Sleep \subseteq Nat
  /\ Turn \in Nat \ {0} /\ \A t \in Sleep : t + Late + 1 < Turn

None == -1
Vector(n) == 32 + n
Slave(n) == n >= 8

VARIABLES
  pc,          \* main: the next step of initialize_start, "run", or "halted" (panic)
  wait,        \* main in sleep_ms: before the "test", before the "hlt", "asleep"; else "no"
  start, ms,   \* of sleep_ms
  in_call,     \* main is in a system call
  slept,       \* history: ticks since sleep_ms began
  IF_flag,     \* interrupts are enabled
  saved,       \* the flag that the handler's iret restores
  serving,     \* the line whose handler runs, or None
  at,          \* where it is: "call", "slave", "master", "iret"
  gates,       \* vectors that the IDT has a gate for
  remapped,    \* pic_remap: line n raises vector 32 + n
  handlers,    \* lines with a handler
  timer_ticks,
  irr, isr

main == <<pc, wait, start, ms, in_call>>
cpu == <<IF_flag, saved, serving, at>>
tables == <<gates, remapped, handlers>>
vars == <<main, slept, cpu, tables, timer_ticks, irr, isr>>

\* Before line 1 the higher priority: 0, 1, 8 .. 15, 3 .. 7.
Rank(n) == IF n < 2 THEN n ELSE IF Slave(n) THEN n - 6 ELSE n + 7
Line == Irqs \cup {2}
RankOf(n) == IF n = 2 THEN 2 ELSE Rank(n)

\* The loader leaves interrupts disabled; devices may have requested some.
Init ==
  /\ pc = "idt" /\ wait = "no" /\ start = 0 /\ ms = 0 /\ in_call = FALSE /\ slept = 0
  /\ IF_flag = FALSE /\ saved = FALSE /\ serving = None /\ at = "iret"
  /\ gates = {} /\ remapped = FALSE /\ handlers = {}
  /\ timer_ticks = 0
  /\ irr \in SUBSET Irqs /\ isr = {}

-----------------------------------------------------------------------------
(***************************************************************************)
(* main: what initialize_start does, then system calls and sleep_ms.       *)
(***************************************************************************)
Boots(here, next) ==
  /\ serving = None /\ pc = here /\ wait = "no"
  /\ pc' = next
  /\ UNCHANGED <<wait, start, ms, in_call, slept, saved, serving, at, timer_ticks, irr, isr>>

\* idt_init, with pic_remap: all handlers are cleared, all lines unmasked.
IdtInit ==
  /\ Boots("idt", "timer")
  /\ gates' = {Vector(n) : n \in 0 .. 15} \cup 0 .. 31 \cup {128}
  /\ remapped' = TRUE
  /\ handlers' = {}
  /\ UNCHANGED IF_flag

\* timer_init
TimerInit ==
  /\ Boots("timer", "sti")
  /\ handlers' = handlers \cup {0}
  /\ UNCHANGED <<gates, remapped, IF_flag>>

Sti ==
  /\ Boots("sti", "drive")
  /\ IF_flag' = TRUE
  /\ UNCHANGED tables

\* drive_init: the floppy driver installs its handler, if it is chosen.
DriveInit ==
  /\ Boots("drive", "run")
  /\ \E chosen \in SUBSET ({6} \cap Irqs) : handlers' = handlers \cup chosen
  /\ UNCHANGED <<gates, remapped, IF_flag>>

Running == serving = None /\ pc \in {"drive", "run"} /\ wait = "no"

\* Mutant: vector 0x80 has an interrupt gate (0xEE), which disables interrupts.
SystemCall_InterruptGate ==
  /\ Running /\ pc = "run"
  /\ in_call' = ~in_call
  /\ IF_flag' = in_call
  /\ UNCHANGED <<pc, wait, start, ms, slept, saved, serving, at, tables, timer_ticks, irr, isr>>

\* int 0x80 through a trap gate (0xEF), and the iret of syscall_handler: the flag
\* stays as it is.
SystemCall ==
  /\ Running /\ pc = "run"
  /\ in_call' = ~in_call
  /\ UNCHANGED <<pc, wait, start, ms, slept, cpu, tables, timer_ticks, irr, isr>>

SleepBegins ==
  /\ Running
  /\ ms' \in Sleep
  /\ start' = timer_ticks /\ slept' = 0
  /\ wait' = "test"
  /\ UNCHANGED <<pc, in_call, cpu, tables, timer_ticks, irr, isr>>

\* The loop of sleep_ms goes on, or its variables go out of scope.
SleepGoesOn(more) ==
  /\ IF more
     THEN wait' = "hlt" /\ UNCHANGED <<start, ms, slept>>
     ELSE wait' = "no" /\ start' = 0 /\ ms' = 0 /\ slept' = 0
  /\ UNCHANGED <<pc, in_call, cpu, tables, timer_ticks, irr, isr>>

\* Mutant: the last tick is not waited for.
SleepTest_OneShort ==
  /\ serving = None /\ wait = "test"
  /\ SleepGoesOn((timer_ticks - start) % Turn < ms - 1)

\* timer_ticks - start < ms, in unsigned arithmetic.
SleepTest ==
  /\ serving = None /\ wait = "test"
  /\ SleepGoesOn((timer_ticks - start) % Turn < ms)

\* hlt waits for the next interrupt, also when one came since the test.
Hlt ==
  /\ serving = None /\ wait = "hlt"
  /\ wait' = "asleep"
  /\ UNCHANGED <<pc, start, ms, in_call, slept, cpu, tables, timer_ticks, irr, isr>>

-----------------------------------------------------------------------------
(***************************************************************************)
(* An interrupt.                                                           *)
(***************************************************************************)
Requested(n) == n \in irr /\ \A m \in isr : RankOf(n) < RankOf(m)

\* The processor takes it: an interrupt gate (0x8E) disables further ones, and hlt
\* is over.  The controllers move it from irr to isr, except for a spurious one,
\* which only has line 2 in service when it comes from the second controller.
Enter(n, service) ==
  /\ IF_flag /\ serving = None
  /\ serving' = n /\ at' = "call"
  /\ saved' = IF_flag /\ IF_flag' = FALSE
  /\ wait' = IF wait = "asleep" THEN "test" ELSE wait
  /\ isr' = isr \cup service
  /\ UNCHANGED <<pc, start, ms, in_call, slept, tables, timer_ticks>>

Interrupt(n) ==
  /\ Requested(n) /\ \A m \in irr : Requested(m) => Rank(n) <= Rank(m)
  /\ Enter(n, {n} \cup (IF Slave(n) THEN {2} ELSE {}))
  /\ irr' = irr \ {n}

\* The request went away before the controller was asked which one it was.
Spurious(n) ==
  /\ n \in {7, 15} \cap Irqs /\ irr = {} /\ isr = {}
  /\ Enter(n, IF Slave(n) THEN {2} ELSE {})
  /\ UNCHANGED irr

\* common_handler calls what is installed for the line: timer_callback, or the
\* floppy driver's handler, whose flag is Floppy's.
Handler ==
  /\ serving # None /\ at = "call"
  /\ IF serving = 0 /\ 0 \in handlers
     THEN /\ timer_ticks' = (timer_ticks + 1) % Turn
          /\ slept' = IF wait = "no" THEN slept ELSE slept + 1
     ELSE UNCHANGED <<timer_ticks, slept>>
  /\ at' = IF Vector(serving) >= 40 THEN "slave" ELSE "master"
  /\ UNCHANGED <<main, IF_flag, saved, serving, tables, irr, isr>>

\* A non-specific end-of-interrupt command to the controller of these lines.
Ended(lines) ==
  isr \ {n \in isr \cap lines : \A m \in isr \cap lines : RankOf(n) <= RankOf(m)}

\* Mutant: only the first controller is told.
SlaveEoi_Forgotten ==
  /\ serving # None /\ at = "slave"
  /\ at' = "master"
  /\ UNCHANGED <<main, slept, IF_flag, saved, serving, tables, timer_ticks, irr, isr>>

SlaveEoi ==
  /\ serving # None /\ at = "slave"
  /\ isr' = Ended(8 .. 15)
  /\ at' = "master"
  /\ UNCHANGED <<main, slept, IF_flag, saved, serving, tables, timer_ticks, irr>>

MasterEoi ==
  /\ serving # None /\ at = "master"
  /\ isr' = Ended(0 .. 7)
  /\ at' = "iret"
  /\ UNCHANGED <<main, slept, IF_flag, saved, serving, tables, timer_ticks, irr>>

\* The end of common_stub.
Iret ==
  /\ serving # None /\ at = "iret"
  /\ serving' = None
  /\ IF_flag' = saved /\ saved' = FALSE
  /\ UNCHANGED <<main, slept, at, tables, timer_ticks, irr, isr>>

\* An exception, or a failed stack check: panic halts for good, with interrupts off.
Panic ==
  /\ pc \in {"drive", "run"}
  /\ pc' = "halted" /\ wait' = "no" /\ serving' = None /\ at' = "iret"
  /\ IF_flag' = FALSE /\ saved' = FALSE
  /\ UNCHANGED <<start, ms, in_call, slept, tables, timer_ticks, irr, isr>>

\* A device requests an interrupt; one that is requested already is not requested
\* twice.  The timer leaves main the time to look at the counter.
Raise(n) ==
  /\ n \notin irr
  /\ n = 0 /\ wait \in {"test", "hlt"} => slept < ms + Late - 1
  /\ irr' = irr \cup {n}
  /\ UNCHANGED <<main, slept, cpu, tables, timer_ticks, isr>>

Service == Handler \/ SlaveEoi \/ MasterEoi \/ Iret
Boot == IdtInit \/ TimerInit \/ Sti \/ DriveInit

Next ==
  \/ IdtInit \/ TimerInit \/ Sti \/ DriveInit
  \/ SystemCall \/ SleepBegins \/ SleepTest \/ Hlt
  \/ \E n \in Irqs : Interrupt(n) \/ Spurious(n) \/ Raise(n)
  \/ Handler \/ SlaveEoi \/ MasterEoi \/ Iret
  \/ Panic

\* The processor goes on, the timer runs, and handlers are short enough for main and
\* for other lines to get on between them.
Spec ==
  /\ Init /\ [][Next]_vars
  /\ WF_vars(Service) /\ WF_vars(Raise(0)) /\ \A n \in Irqs : SF_vars(Interrupt(n))
  /\ SF_vars(Boot) /\ SF_vars(SleepTest) /\ SF_vars(Hlt)

-----------------------------------------------------------------------------
(***************************************************************************)
(* Properties.                                                             *)
(***************************************************************************)
TypeOK ==
  /\ pc \in {"idt", "timer", "sti", "drive", "run", "halted"} /\ wait \in {"no", "test", "hlt", "asleep"}
  /\ start \in Nat /\ ms \in Nat /\ slept \in Nat /\ timer_ticks \in 0 .. Turn - 1
  /\ in_call \in BOOLEAN /\ IF_flag \in BOOLEAN /\ saved \in BOOLEAN /\ remapped \in BOOLEAN
  /\ serving \in Irqs \cup {None} /\ at \in {"call", "slave", "master", "iret"}
  /\ gates \subseteq 0 .. 255 /\ handlers \subseteq Irqs
  /\ irr \subseteq Irqs /\ isr \subseteq Line

\* When no handler runs, no controller takes an interrupt to be in service: the
\* end-of-interrupt commands of common_handler end each interrupt, also a spurious
\* one, and never another.  What stayed in service would block its line for good.
NothingInService == serving = None /\ pc # "halted" => isr = {}

\* An interrupt finds its gate, and is not taken for an exception: initialize_start
\* enables interrupts when the tables and the controllers are set up.
GateReady == IF_flag \/ serving # None => remapped /\ \A n \in Irqs : Vector(n) \in gates

\* sleep_ms takes no fewer ticks than it was called with, also when the counter
\* wraps in between.
SleepsLongEnough == [][wait = "test" /\ wait' = "no" => slept >= ms \/ pc' = "halted"]_vars

\* sleep_ms returns.
SleepReturns == (wait = "test") ~> (wait = "no")
=============================================================================
