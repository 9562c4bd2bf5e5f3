------------------------------- MODULE Floppy -------------------------------
(***************************************************************************)
(* The floppy driver, i386/floppy.c, with what it shares with interrupt    *)
(* handlers and hardware: the flag of the IRQ 6 handler, the tick counter  *)
(* of i386/timer.c, the DMA buffer, and the controller itself, which works *)
(* on its own and answers when it likes, or never.                         *)
(*                                                                         *)
(* The driver is one thread of control, pc, that waits for the flag; it is *)
(* split where something else may come in between.  Interrupts are on      *)
(* throughout (sti at boot, a trap gate for system calls), so a handler    *)
(* runs as soon as its interrupt is raised.                                *)
(***************************************************************************)
EXTENDS Integers

CONSTANTS
  Lba,          \* sectors that are asked for
  CylinderOf,   \* CylinderOf[lba]: the cylinder a sector is on
  Cylinder,     \* the cylinders of the disk, 0 among them
  Data,         \* contents of a sector
  Patience,     \* ticks until a wait gives up (2000)
  LateAnswers   \* may the controller answer when the driver does not wait for it?

ASSUME FloppyAssumption ==
  /\ 0 \in Cylinder
  /\ CylinderOf \in [Lba -> Nat]
  /\ Patience \in Nat \ {0}
  /\ LateAnswers \in BOOLEAN

Torn == "torn"     \* what a failed write may leave
Content == Data \cup {Torn}

Idle == [op |-> "none"]
Reads == [op : {"read"}, lba : Lba]
Writes == [op : {"write"}, lba : Lba, data : Data]
Starting == [op |-> "init"]

VARIABLES
  pc,             \* where the driver is
  call,           \* the call it is working on
  attempt,        \* i in the retry loops
  wait,           \* inside wait_for_fdc_irq: "test" the flag, look at the "time"
                  \* ("ticked": after a tick since the test), "halt"
  elapsed,        \* timer_get_ticks() - start, no further than needed
  fdc_irq_fired,
  dma_buffer,     \* floppy_dma_buffer
  result,         \* what the last call returned: 0, -1, and the data of a read
  motor,          \* bit 4 of the DOR
  phase,          \* what the controller is doing
  order,          \* the call its transfer is for
  head,           \* the cylinder the heads are on
  status,         \* its last command's: ST0 is that of a normal termination
  disk            \* the sectors

driver == <<pc, call, attempt, wait, elapsed, result>>
controller == <<motor, phase, order, head, status>>
vars == <<driver, fdc_irq_fired, dma_buffer, controller, disk>>

Waiting == {"recalibrating", "seeking", "transferring", "resetting"}
Label == {"idle", "down", "recalibrate", "recalibrated", "seek", "sought", "transfer",
          "transferred", "reset", "release"} \cup Waiting

\* floppy_init begins: the handler of IRQ 6 is installed.
Init ==
  /\ pc = "reset" /\ call = Starting /\ attempt = 0
  /\ wait = "test" /\ elapsed = 0
  /\ fdc_irq_fired = FALSE
  /\ disk \in [Lba -> Data]
  /\ dma_buffer = Torn
  /\ result = Idle
  /\ motor = FALSE /\ phase = "ready" /\ order = Idle /\ head \in Cylinder /\ status = TRUE

-----------------------------------------------------------------------------
(***************************************************************************)
(* The driver.                                                             *)
(***************************************************************************)
Return(res) ==
  /\ result' = res
  /\ pc' = IF call = Starting /\ res.code # 0 THEN "down" ELSE "idle"
  /\ call' = Idle

\* A command is sent, and the wait for its interrupt begins.  A controller that is
\* busy ignores it (fdc_write gives up waiting for it and goes on).
Command(working, waiting) ==
  /\ IF phase = "ready" THEN phase' = working /\ order' = call ELSE UNCHANGED <<phase, order>>
  /\ pc' = waiting
  /\ wait' = "test" /\ elapsed' = 0

\* wait_for_fdc_irq: the test of the flag, and what follows the wait when it is set.
Fired(waiting, next) ==
  /\ pc = waiting /\ wait = "test"
  /\ fdc_irq_fired
  /\ fdc_irq_fired' = FALSE
  /\ pc' = next
\* Mutant: the start time is taken inside the loop.
NotFired_ClockRestarts ==
  /\ pc \in Waiting /\ wait = "test"
  /\ ~fdc_irq_fired
  /\ wait' = "time" /\ elapsed' = 0
  /\ UNCHANGED <<pc, call, attempt, result, fdc_irq_fired, dma_buffer, controller, disk>>

NotFired ==
  /\ pc \in Waiting /\ wait = "test"
  /\ ~fdc_irq_fired
  /\ wait' = "time"
  /\ UNCHANGED <<pc, call, attempt, elapsed, result, fdc_irq_fired, dma_buffer, controller, disk>>

\* The time is not up: hlt, which only an interrupt ends.
Halt ==
  /\ pc \in Waiting /\ wait \in {"time", "ticked"}
  /\ elapsed <= Patience
  /\ wait' = "halt"
  /\ UNCHANGED <<pc, call, attempt, elapsed, result, fdc_irq_fired, dma_buffer, controller, disk>>

\* The time is up, whatever the flag is by now.
TimesOut(waiting) ==
  /\ pc = waiting /\ wait \in {"time", "ticked"}
  /\ elapsed > Patience
  /\ UNCHANGED fdc_irq_fired

\* floppy_read_sector and floppy_write_sector are called.
Call(c) ==
  /\ pc = "idle"
  /\ call' = c
  /\ attempt' = 0
  /\ dma_buffer' = IF c \in Writes THEN c.data ELSE dma_buffer
  /\ pc' = "seek"
  /\ UNCHANGED <<wait, elapsed, result, fdc_irq_fired, controller, disk>>

\* fdc_transfer up to the wait of fdc_seek: DMA is set up, the motor is turned on
\* (twice), the command is sent.
Seek ==
  /\ pc = "seek"
  /\ motor' = TRUE
  /\ Command("seek", "seeking")
  /\ UNCHANGED <<call, attempt, result, fdc_irq_fired, dma_buffer, head, status, disk>>

\* fdc_seek fails or the transfer does: the motor goes off, the controller is reset.
Fails ==
  /\ motor' = FALSE
  /\ pc' = "reset"
\* Mutant: wait_for_fdc_irq does not take the flag back.
SeekFired_FlagStays ==
  /\ pc = "seeking" /\ wait = "test" /\ fdc_irq_fired
  /\ pc' = "sought"
  /\ UNCHANGED <<fdc_irq_fired, call, attempt, wait, elapsed, result, dma_buffer, controller, disk>>

SeekFired ==
  /\ Fired("seeking", "sought")
  /\ UNCHANGED <<call, attempt, wait, elapsed, result, dma_buffer, controller, disk>>

SeekTimesOut ==
  /\ TimesOut("seeking")
  /\ Fails
  /\ UNCHANGED <<call, attempt, wait, elapsed, result, dma_buffer, phase, order, head, status, disk>>

\* The cylinder that Sense Interrupt reports: the heads' if the controller is done,
\* anything if it is not.
Sensed == IF phase = "ready" THEN {head} ELSE Cylinder

\* fdc_seek turns the motor off and compares the cylinders.
Sought ==
  /\ pc = "sought"
  /\ motor' = FALSE
  /\ \E cyl \in Sensed : pc' = IF cyl = CylinderOf[call.lba] THEN "transfer" ELSE "reset"
  /\ UNCHANGED <<call, attempt, wait, elapsed, result, fdc_irq_fired, dma_buffer,
                 phase, order, head, status, disk>>

\* fdc_transfer sends its command.
Transfer ==
  /\ pc = "transfer"
  /\ Command("exec", "transferring")
  /\ UNCHANGED <<call, attempt, result, fdc_irq_fired, dma_buffer, motor, head, status, disk>>

TransferFired ==
  /\ Fired("transferring", "transferred")
  /\ UNCHANGED <<call, attempt, wait, elapsed, result, dma_buffer, controller, disk>>

TransferTimesOut ==
  /\ TimesOut("transferring")
  /\ Fails
  /\ UNCHANGED <<call, attempt, wait, elapsed, result, dma_buffer, phase, order, head, status, disk>>
\* Mutant: the status is not looked at.
Transferred_AnyStatus ==
  /\ pc = "transferred"
  /\ motor' = FALSE
  /\ phase' = IF phase = "result" THEN "ready" ELSE phase
  /\ Return([op |-> call.op, code |-> 0, data |-> dma_buffer])
  /\ UNCHANGED <<attempt, wait, elapsed, fdc_irq_fired, dma_buffer, order, head, status, disk>>

\* The status bytes: the controller's when it has them, else what fdc_read finds
\* when it gives up.  Then the motor goes off.
Transferred ==
  /\ pc = "transferred"
  /\ motor' = FALSE
  /\ phase' = IF phase = "result" THEN "ready" ELSE phase
  /\ \E normal \in IF phase = "result" THEN {status} ELSE BOOLEAN :
       IF normal
       THEN Return([op |-> call.op, code |-> 0, data |-> dma_buffer])
       ELSE pc' = "reset" /\ UNCHANGED <<call, result>>
  /\ UNCHANGED <<attempt, wait, elapsed, fdc_irq_fired, dma_buffer, order, head, status, disk>>

\* A transfer that does not end well has moved some of the data or none.
PartlyMoved ==
  IF order \in Writes
  THEN \E left \in {disk[order.lba], dma_buffer, Torn} :
         disk' = [disk EXCEPT ![order.lba] = left] /\ UNCHANGED dma_buffer
  ELSE dma_buffer' \in {dma_buffer, Torn} /\ UNCHANGED disk

\* fdc_reset: the flag is cleared, the controller held in reset,
Reset ==
  /\ pc = "reset"
  /\ fdc_irq_fired' = FALSE
  /\ motor' = FALSE
  /\ phase' = "held"
  /\ IF phase = "exec" THEN PartlyMoved ELSE UNCHANGED <<dma_buffer, disk>>
  /\ pc' = "release"
  /\ UNCHANGED <<call, attempt, wait, elapsed, result, order, head, status>>

\* and let go after 10 ms.
Release ==
  /\ pc = "release"
  /\ phase' = "reset"
  /\ pc' = "resetting"
  /\ wait' = "test" /\ elapsed' = 0
  /\ UNCHANGED <<call, attempt, result, fdc_irq_fired, dma_buffer, motor, order, head, status, disk>>

\* Whether the controller answers or not, fdc_reset returns: to floppy_init, or to
\* the retry loop, which gives up after three attempts.
AfterReset ==
  /\ attempt' = IF call = Starting THEN attempt ELSE attempt + 1
  /\ IF call = Starting THEN pc' = "recalibrate" /\ UNCHANGED <<call, result>>
     ELSE IF attempt' < 3 THEN pc' = "seek" /\ UNCHANGED <<call, result>>
     ELSE Return([op |-> call.op, code |-> -1])

ResetDone ==
  /\ pc = "resetting"
  /\ \/ wait = "test" /\ fdc_irq_fired /\ fdc_irq_fired' = FALSE
     \/ TimesOut("resetting")
  /\ AfterReset
  /\ UNCHANGED <<wait, elapsed, dma_buffer, controller, disk>>

\* fdc_recalibrate, the last part of floppy_init.
Recalibrate ==
  /\ pc = "recalibrate"
  /\ motor' = TRUE
  /\ Command("recalibrate", "recalibrating")
  /\ UNCHANGED <<call, attempt, result, fdc_irq_fired, dma_buffer, head, status, disk>>

RecalibrateFired ==
  /\ Fired("recalibrating", "recalibrated")
  /\ UNCHANGED <<call, attempt, wait, elapsed, result, dma_buffer, controller, disk>>

\* Mutant: the motor is left on.
RecalibrateTimesOut_MotorStays ==
  /\ TimesOut("recalibrating")
  /\ Return([op |-> "init", code |-> -1])
  /\ UNCHANGED <<attempt, wait, elapsed, dma_buffer, controller, disk>>

RecalibrateTimesOut ==
  /\ TimesOut("recalibrating")
  /\ motor' = FALSE
  /\ Return([op |-> "init", code |-> -1])
  /\ UNCHANGED <<attempt, wait, elapsed, dma_buffer, phase, order, head, status, disk>>

Recalibrated ==
  /\ pc = "recalibrated"
  /\ motor' = FALSE
  /\ \E cyl \in Sensed : Return([op |-> "init", code |-> IF cyl = 0 THEN 0 ELSE -1])
  /\ UNCHANGED <<attempt, wait, elapsed, fdc_irq_fired, dma_buffer, phase, order, head, status, disk>>

-----------------------------------------------------------------------------
(***************************************************************************)
(* Interrupts.  Both handlers end a hlt.                                   *)
(***************************************************************************)

\* timer_callback.  The counter is only looked at in a wait.  From the test of the flag
\* to the look at the time there are few instructions and at most one tick.
Tick ==
  /\ pc \in Waiting
  /\ wait # "ticked"
  /\ elapsed <= Patience \/ wait = "halt"
  /\ elapsed' = IF elapsed <= Patience THEN elapsed + 1 ELSE elapsed
  /\ wait' = IF wait = "time" THEN "ticked" ELSE "test"
  /\ UNCHANGED <<pc, call, attempt, result, fdc_irq_fired, dma_buffer, controller, disk>>

\* The controller raises IRQ 6, and fdc_irq_handler runs.
Interrupt ==
  /\ LateAnswers \/ (pc \in Waiting /\ elapsed < Patience)
  /\ fdc_irq_fired' = TRUE
  /\ wait' = IF wait = "halt" THEN "test" ELSE wait
  /\ UNCHANGED <<pc, call, attempt, elapsed, result>>

\* The heads arrive at the cylinder, or somewhere else.
Arrive ==
  /\ phase \in {"seek", "recalibrate"}
  /\ phase' = "ready"
  /\ head' \in Cylinder
  /\ Interrupt
  /\ UNCHANGED <<dma_buffer, motor, order, status, disk>>

\* A transfer ends well; for that the heads must be where the sector is.
Complete ==
  /\ phase = "exec" /\ head = CylinderOf[order.lba]
  /\ phase' = "result"
  /\ status' = TRUE
  /\ IF order \in Writes
     THEN disk' = [disk EXCEPT ![order.lba] = dma_buffer] /\ UNCHANGED dma_buffer
     ELSE dma_buffer' = disk[order.lba] /\ UNCHANGED disk
  /\ Interrupt
  /\ UNCHANGED <<motor, order, head>>

\* A transfer ends badly.
Break ==
  /\ phase = "exec"
  /\ phase' = "result"
  /\ status' = FALSE
  /\ PartlyMoved
  /\ Interrupt
  /\ UNCHANGED <<motor, order, head>>

\* The controller comes out of reset.
ComeUp ==
  /\ phase = "reset"
  /\ phase' = "ready"
  /\ Interrupt
  /\ UNCHANGED <<dma_buffer, motor, order, head, status, disk>>

-----------------------------------------------------------------------------
Driver ==
  \/ NotFired \/ Halt
  \/ Seek \/ SeekFired \/ SeekTimesOut \/ Sought
  \/ Transfer \/ TransferFired \/ TransferTimesOut \/ Transferred
  \/ Reset \/ Release \/ ResetDone
  \/ Recalibrate \/ RecalibrateFired \/ RecalibrateTimesOut \/ Recalibrated

Controller == Arrive \/ Complete \/ Break \/ ComeUp

Next ==
  \/ \E c \in Reads \cup Writes : Call(c)
  \/ Driver
  \/ Tick
  \/ Controller

\* The processor runs and the timer ticks; the controller owes nothing.
Fairness == WF_vars(Driver) /\ WF_vars(Tick)

Spec == Init /\ [][Next]_vars /\ Fairness

-----------------------------------------------------------------------------
\* Types.  About the variables of floppy.c.
TypeOK ==
  /\ pc \in Label
  /\ call \in {Idle, Starting} \cup Reads \cup Writes
  /\ attempt \in 0 .. 3
  /\ wait \in {"test", "time", "ticked", "halt"}
  /\ elapsed \in 0 .. Patience + 1
  /\ fdc_irq_fired \in BOOLEAN
  /\ dma_buffer \in Content
  /\ motor \in BOOLEAN
  /\ phase \in {"ready", "seek", "recalibrate", "exec", "result", "held", "reset"}
  /\ order \in {Idle, Starting} \cup Reads \cup Writes
  /\ head \in Cylinder
  /\ status \in BOOLEAN
  /\ disk \in [Lba -> Content]

Returned == pc \in {"idle", "down"}

\* Whichever way a call ends, the motor is off when it has returned.  About the
\* fdc_motor(drive, 0) on every path of fdc_transfer, fdc_recalibrate and fdc_reset.
MotorOffWhenReturned == Returned => ~motor

\* When a command is sent, no earlier interrupt can be taken for its answer, if every
\* answer comes while the driver waits.  About fdc_irq_fired (24, 43, 82).
NoStaleInterrupt == pc \in {"seek", "transfer", "recalibrate"} => ~fdc_irq_fired

\* Every call returns, whatever the controller does: a wait never hangs in hlt, and
\* the retries end.  About wait_for_fdc_irq and the loops of both sector functions.
CallReturns == ~Returned ~> Returned

Promise == INSTANCE SectorStore

\* A sector that was read successfully is what was last written there, a successful
\* write is on the disk, and nothing else ever changes, over errors, time-outs,
\* wrong seeks and retries, if every answer comes while the driver waits for it.
\* About floppy_read_sector and floppy_write_sector.
ImplementsSectorStore == Promise!Spec
=============================================================================
