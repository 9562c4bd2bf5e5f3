---------------------------- MODULE FloppyProofs ----------------------------
(***************************************************************************)
(* Theorems about the floppy driver, for every number of sectors and       *)
(* cylinders, every content and every patience.                            *)
(*                                                                         *)
(* Control says which call and which phase of the controller go with which *)
(* place in the driver, whatever the controller does.  Punctual adds what  *)
(* holds when answers only come while the driver waits: the flag stands    *)
(* for the command the driver waits for, and when a transfer has ended     *)
(* well, buffer and sector agree.                                          *)
(***************************************************************************)
EXTENDS Floppy, TLAPS

InCall == {"seek", "seeking", "sought", "transfer", "transferring", "transferred"}
InStart == {"recalibrate", "recalibrating", "recalibrated"}
InReset == {"reset", "release", "resetting"}

Control ==
  /\ pc \in {"idle", "down"} => call = Idle /\ ~motor
  /\ pc \in InCall => call \in Reads \cup Writes
  /\ pc \in InStart => call = Starting
  /\ pc \in InReset => call \in {Starting} \cup Reads \cup Writes
  /\ pc \in {"release", "resetting"} => ~motor
  /\ attempt = 3 => pc \in {"idle", "down"}
  /\ phase = "exec" => order \in Reads \cup Writes

IInv == TypeOK /\ Control

\* The flag is set only in a wait that still has time to notice it.
FlagInTime ==
  fdc_irq_fired =>
    /\ pc \in Waiting
    /\ wait = "time" => elapsed < Patience
    /\ wait = "ticked" => elapsed <= Patience

\* The controller does what the driver waits for.
InStep ==
  /\ phase = "exec" => pc \in {"transferring", "reset"} /\ order = call
  /\ phase = "result" => pc \in {"transferring", "transferred", "reset"} /\ order = call
  /\ pc \in {"sought", "transfer"} => phase = "ready"
  /\ pc = "seeking" /\ fdc_irq_fired => phase = "ready"
  /\ pc = "transferring" => phase \in {"exec", "result"}
  /\ pc = "transferring" /\ fdc_irq_fired => phase = "result"
  /\ pc = "transferred" => phase = "result"

\* The buffer holds what is to be written, and what was read when that went well.
Carried ==
  /\ call \in Writes => dma_buffer = call.data
  /\ phase = "result" /\ status => disk[order.lba] = dma_buffer

Punctual == FlagInTime /\ InStep /\ Carried

PInv == IInv /\ Punctual

-----------------------------------------------------------------------------
\* Calls can be told apart.
LEMMA Calls ==
  /\ \A c \in Reads : c.op = "read" /\ c.lba \in Lba /\ c \notin Writes
  /\ \A c \in Writes : c.op = "write" /\ c.lba \in Lba /\ c.data \in Data /\ c \notin Reads
  /\ Idle.op = "none" /\ Idle \notin Reads \cup Writes
  /\ Starting.op = "init" /\ Starting \notin Reads \cup Writes /\ Starting # Idle
BY DEF Reads, Writes, Idle, Starting

LEMMA InitIInv == Init => IInv
<1> SUFFICES ASSUME Init PROVE IInv
  OBVIOUS
<1>1. TypeOK
  <2>1. disk \in [Lba -> Content]
    BY DEF Init, Content
  <2>2. elapsed \in 0 .. Patience + 1
    BY FloppyAssumption DEF Init
  <2>3. dma_buffer \in Content /\ pc \in Label
    BY DEF Init, Content, Label
  <2>4. {fdc_irq_fired, motor, status} \subseteq BOOLEAN
    BY Zenon DEF Init
  <2> QED
    BY <2>1, <2>2, <2>3, <2>4 DEF Init, TypeOK
<1>2. Control
  BY DEF Init, Control, InCall, InStart, InReset
<1> QED
  BY <1>1, <1>2 DEF IInv

\* Whatever part of a transfer was done, buffer and disk hold contents.
LEMMA PartlyMovedTypes ==
  ASSUME TypeOK, order \in Reads \cup Writes, PartlyMoved
  PROVE  disk' \in [Lba -> Content] /\ dma_buffer' \in Content
<1>1. CASE order \in Writes
  <2>1. PICK left \in {disk[order.lba], dma_buffer, Torn} :
          disk' = [disk EXCEPT ![order.lba] = left] /\ UNCHANGED dma_buffer
    BY <1>1 DEF PartlyMoved
  <2>2. left \in Content
    BY <1>1, Calls DEF TypeOK, Content
  <2> QED
    BY <2>1, <2>2 DEF TypeOK
<1>2. CASE order \notin Writes
  BY <1>2 DEF PartlyMoved, TypeOK, Content
<1> QED
  BY <1>1, <1>2

LEMMA CallStep == IInv /\ (\E c \in Reads \cup Writes : Call(c)) => IInv'
<1> SUFFICES ASSUME TypeOK, Control, NEW c \in Reads \cup Writes, Call(c)
             PROVE  TypeOK' /\ Control'
  BY DEF IInv
<1>1. TypeOK'
  BY Calls DEF Call, controller, TypeOK, Label, Content
<1>2. Control'
  BY Calls DEF Call, controller, TypeOK, Control, InCall, InStart, InReset
<1> QED
  BY <1>1, <1>2

LEMMA NotFiredStep == IInv /\ NotFired => IInv'
<1> SUFFICES ASSUME TypeOK, Control, NotFired PROVE TypeOK' /\ Control'
  BY DEF IInv
<1>1. TypeOK'
  BY FloppyAssumption, Calls DEF NotFired, driver, controller, TypeOK, Control, InCall, InStart,
     InReset, Label, Waiting, Content, Waiting
<1>2. Control'
  BY Calls DEF NotFired, driver, controller, TypeOK, Control, InCall, InStart, InReset, Waiting, Waiting
<1> QED
  BY <1>1, <1>2

LEMMA HaltStep == IInv /\ Halt => IInv'
<1> SUFFICES ASSUME TypeOK, Control, Halt PROVE TypeOK' /\ Control'
  BY DEF IInv
<1>1. TypeOK'
  BY FloppyAssumption, Calls DEF Halt, driver, controller, TypeOK, Control, InCall, InStart,
     InReset, Label, Waiting, Content, Waiting
<1>2. Control'
  BY Calls DEF Halt, driver, controller, TypeOK, Control, InCall, InStart, InReset, Waiting, Waiting
<1> QED
  BY <1>1, <1>2

LEMMA SeekStep == IInv /\ Seek => IInv'
<1> SUFFICES ASSUME TypeOK, Control, Seek PROVE TypeOK' /\ Control'
  BY DEF IInv
<1>1. TypeOK'
  BY FloppyAssumption, Calls DEF Seek, driver, controller, TypeOK, Control, InCall, InStart,
     InReset, Label, Waiting, Content, Command
<1>2. Control'
  BY Calls DEF Seek, driver, controller, TypeOK, Control, InCall, InStart, InReset, Waiting, Command
<1> QED
  BY <1>1, <1>2

LEMMA SeekFiredStep == IInv /\ SeekFired => IInv'
<1> SUFFICES ASSUME TypeOK, Control, SeekFired PROVE TypeOK' /\ Control'
  BY DEF IInv
<1>1. TypeOK'
  BY FloppyAssumption, Calls, ZenonT(40) DEF SeekFired, driver, controller, TypeOK, Control, InCall, InStart,
     InReset, Label, Waiting, Content, Fired
<1>2. Control'
  BY Calls DEF SeekFired, driver, controller, TypeOK, Control, InCall, InStart, InReset, Waiting, Fired
<1> QED
  BY <1>1, <1>2

LEMMA SeekTimesOutStep == IInv /\ SeekTimesOut => IInv'
<1> SUFFICES ASSUME TypeOK, Control, SeekTimesOut PROVE TypeOK' /\ Control'
  BY DEF IInv
<1>1. TypeOK'
  BY FloppyAssumption, Calls, ZenonT(40) DEF SeekTimesOut, driver, controller, TypeOK, Control, InCall, InStart,
     InReset, Label, Waiting, Content, TimesOut, Fails
<1>2. Control'
  BY Calls DEF SeekTimesOut, driver, controller, TypeOK, Control, InCall, InStart, InReset, Waiting, TimesOut, Fails
<1> QED
  BY <1>1, <1>2

LEMMA SoughtStep == IInv /\ Sought => IInv'
<1> SUFFICES ASSUME TypeOK, Control, Sought PROVE TypeOK' /\ Control'
  BY DEF IInv
<1>1. TypeOK'
  BY FloppyAssumption, Calls, ZenonT(40) DEF Sought, driver, controller, TypeOK, Control, InCall, InStart,
     InReset, Label, Waiting, Content
<1>2. Control'
  BY Calls DEF Sought, driver, controller, TypeOK, Control, InCall, InStart, InReset, Waiting
<1> QED
  BY <1>1, <1>2

LEMMA TransferStep == IInv /\ Transfer => IInv'
<1> SUFFICES ASSUME TypeOK, Control, Transfer PROVE TypeOK' /\ Control'
  BY DEF IInv
<1>1. TypeOK'
  BY FloppyAssumption, Calls DEF Transfer, driver, controller, TypeOK, Control, InCall, InStart,
     InReset, Label, Waiting, Content, Command
<1>2. Control'
  BY Calls DEF Transfer, driver, controller, TypeOK, Control, InCall, InStart, InReset, Waiting, Command
<1> QED
  BY <1>1, <1>2

LEMMA TransferFiredStep == IInv /\ TransferFired => IInv'
<1> SUFFICES ASSUME TypeOK, Control, TransferFired PROVE TypeOK' /\ Control'
  BY DEF IInv
<1>1. TypeOK'
  BY FloppyAssumption, Calls, ZenonT(40) DEF TransferFired, driver, controller, TypeOK, Control, InCall, InStart,
     InReset, Label, Waiting, Content, Fired
<1>2. Control'
  BY Calls DEF TransferFired, driver, controller, TypeOK, Control, InCall, InStart, InReset, Waiting, Fired
<1> QED
  BY <1>1, <1>2

LEMMA TransferTimesOutStep == IInv /\ TransferTimesOut => IInv'
<1> SUFFICES ASSUME TypeOK, Control, TransferTimesOut PROVE TypeOK' /\ Control'
  BY DEF IInv
<1>1. TypeOK'
  BY FloppyAssumption, Calls, ZenonT(40) DEF TransferTimesOut, driver, controller, TypeOK, Control, InCall, InStart,
     InReset, Label, Waiting, Content, TimesOut, Fails
<1>2. Control'
  BY Calls DEF TransferTimesOut, driver, controller, TypeOK, Control, InCall, InStart, InReset, Waiting, TimesOut, Fails
<1> QED
  BY <1>1, <1>2

LEMMA ReleaseStep == IInv /\ Release => IInv'
<1> SUFFICES ASSUME TypeOK, Control, Release PROVE TypeOK' /\ Control'
  BY DEF IInv
<1>1. TypeOK'
  BY FloppyAssumption, Calls DEF Release, driver, controller, TypeOK, Control, InCall, InStart,
     InReset, Label, Waiting, Content
<1>2. Control'
  BY Calls DEF Release, driver, controller, TypeOK, Control, InCall, InStart, InReset, Waiting
<1> QED
  BY <1>1, <1>2

LEMMA RecalibrateStep == IInv /\ Recalibrate => IInv'
<1> SUFFICES ASSUME TypeOK, Control, Recalibrate PROVE TypeOK' /\ Control'
  BY DEF IInv
<1>1. TypeOK'
  BY FloppyAssumption, Calls DEF Recalibrate, driver, controller, TypeOK, Control, InCall, InStart,
     InReset, Label, Waiting, Content, Command
<1>2. Control'
  BY Calls DEF Recalibrate, driver, controller, TypeOK, Control, InCall, InStart, InReset, Waiting, Command
<1> QED
  BY <1>1, <1>2

LEMMA RecalibrateFiredStep == IInv /\ RecalibrateFired => IInv'
<1> SUFFICES ASSUME TypeOK, Control, RecalibrateFired PROVE TypeOK' /\ Control'
  BY DEF IInv
<1>1. TypeOK'
  BY FloppyAssumption, Calls DEF RecalibrateFired, driver, controller, TypeOK, Control, InCall, InStart,
     InReset, Label, Waiting, Content, Fired
<1>2. Control'
  BY Calls DEF RecalibrateFired, driver, controller, TypeOK, Control, InCall, InStart, InReset, Waiting, Fired
<1> QED
  BY <1>1, <1>2

LEMMA RecalibrateTimesOutStep == IInv /\ RecalibrateTimesOut => IInv'
<1> SUFFICES ASSUME TypeOK, Control, RecalibrateTimesOut PROVE TypeOK' /\ Control'
  BY DEF IInv
<1>1. TypeOK'
  BY FloppyAssumption, Calls DEF RecalibrateTimesOut, driver, controller, TypeOK, Control, InCall, InStart,
     InReset, Label, Waiting, Content, TimesOut, Return
<1>2. Control'
  BY Calls DEF RecalibrateTimesOut, driver, controller, TypeOK, Control, InCall, InStart, InReset, Waiting, TimesOut, Return
<1> QED
  BY <1>1, <1>2

LEMMA RecalibratedStep == IInv /\ Recalibrated => IInv'
<1> SUFFICES ASSUME TypeOK, Control, Recalibrated PROVE TypeOK' /\ Control'
  BY DEF IInv
<1>1. TypeOK'
  BY FloppyAssumption, Calls, ZenonT(40) DEF Recalibrated, driver, controller, TypeOK, Control, InCall, InStart,
     InReset, Label, Waiting, Content, Return
<1>2. Control'
  BY Calls DEF Recalibrated, driver, controller, TypeOK, Control, InCall, InStart, InReset, Waiting, Return
<1> QED
  BY <1>1, <1>2

LEMMA TransferredStep == IInv /\ Transferred => IInv'
<1> SUFFICES ASSUME TypeOK, Control, Transferred PROVE TypeOK' /\ Control'
  BY DEF IInv
<1>1. TypeOK'
  BY FloppyAssumption, Calls, ZenonT(40) DEF Transferred, driver, controller, TypeOK, Control, InCall, InStart,
     InReset, Label, Waiting, Content, Return
<1>2. Control'
  BY Calls DEF Transferred, driver, controller, TypeOK, Control, InCall, InStart, InReset, Waiting, Return
<1> QED
  BY <1>1, <1>2

LEMMA ResetStep == IInv /\ Reset => IInv'
<1> SUFFICES ASSUME TypeOK, Control, Reset PROVE TypeOK' /\ Control'
  BY DEF IInv
<1>1. disk' \in [Lba -> Content] /\ dma_buffer' \in Content
  <2>1. CASE UNCHANGED <<dma_buffer, disk>>
    BY <2>1 DEF TypeOK
  <2>2. CASE phase = "exec" /\ PartlyMoved
    BY <2>2, PartlyMovedTypes DEF Control
  <2> QED
    BY <2>1, <2>2 DEF Reset
<1>2. TypeOK'
  BY <1>1 DEF Reset, TypeOK, Label
<1>3. Control'
  BY Calls DEF Reset, TypeOK, Control, InCall, InStart, InReset, Waiting
<1> QED
  BY <1>2, <1>3

LEMMA ResetDoneStep == IInv /\ ResetDone => IInv'
<1> SUFFICES ASSUME TypeOK, Control, ResetDone PROVE TypeOK' /\ Control'
  BY DEF IInv
<1>1. call = Starting \/ call \in Reads \cup Writes
  BY DEF ResetDone, TimesOut, Control, InReset
<1>2. attempt \in 0 .. 2 /\ attempt' = IF call = Starting THEN attempt ELSE attempt + 1
  BY DEF ResetDone, AfterReset, TypeOK, Control
<1>3. \/ pc' = "recalibrate" /\ call = Starting /\ UNCHANGED <<call, result>>
      \/ pc' = "seek" /\ call # Starting /\ attempt' < 3 /\ UNCHANGED <<call, result>>
      \/ pc' = "idle" /\ call' = Idle
  BY <1>2 DEF ResetDone, AfterReset, Return
<1>4. fdc_irq_fired' \in BOOLEAN
  BY DEF ResetDone, TimesOut, TypeOK
<1>5. pc' \in Label /\ call' \in {Idle, Starting} \cup Reads \cup Writes
  BY <1>3 DEF TypeOK, Label
<1>6. TypeOK'
  BY <1>2, <1>4, <1>5 DEF ResetDone, controller, TypeOK
<1>7. Control'
  BY <1>1, <1>2, <1>3 DEF ResetDone, controller, TimesOut, Control, InCall, InStart, InReset
<1> QED
  BY <1>6, <1>7

LEMMA TickStep == IInv /\ Tick => IInv'
<1> SUFFICES ASSUME TypeOK, Control, Tick PROVE TypeOK' /\ Control'
  BY DEF IInv
<1>1. TypeOK'
  BY FloppyAssumption, Calls DEF Tick, driver, controller, TypeOK, Control, InCall, InStart,
     InReset, Label, Waiting, Content, Waiting
<1>2. Control'
  BY Calls DEF Tick, driver, controller, TypeOK, Control, InCall, InStart, InReset, Waiting, Waiting
<1> QED
  BY <1>1, <1>2

LEMMA ArriveStep == IInv /\ Arrive => IInv'
<1> SUFFICES ASSUME TypeOK, Control, Arrive PROVE TypeOK' /\ Control'
  BY DEF IInv
<1>1. TypeOK'
  BY FloppyAssumption, Calls DEF Arrive, driver, controller, TypeOK, Control, InCall, InStart,
     InReset, Label, Waiting, Content, Interrupt
<1>2. Control'
  BY Calls DEF Arrive, driver, controller, TypeOK, Control, InCall, InStart, InReset, Waiting, Interrupt
<1> QED
  BY <1>1, <1>2

LEMMA CompleteStep == IInv /\ Complete => IInv'
<1> SUFFICES ASSUME TypeOK, Control, Complete PROVE TypeOK' /\ Control'
  BY DEF IInv
<1>1. TypeOK'
  BY FloppyAssumption, Calls DEF Complete, driver, controller, TypeOK, Control, InCall, InStart,
     InReset, Label, Waiting, Content, Interrupt
<1>2. Control'
  BY Calls DEF Complete, driver, controller, TypeOK, Control, InCall, InStart, InReset, Waiting, Interrupt
<1> QED
  BY <1>1, <1>2

LEMMA BreakStep == IInv /\ Break => IInv'
<1> SUFFICES ASSUME TypeOK, Control, Break PROVE TypeOK' /\ Control'
  BY DEF IInv
<1>1. disk' \in [Lba -> Content] /\ dma_buffer' \in Content
  <2>1. CASE UNCHANGED <<dma_buffer, disk>>
    BY <2>1 DEF TypeOK
  <2>2. CASE phase = "exec" /\ PartlyMoved
    BY <2>2, PartlyMovedTypes DEF Control
  <2> QED
    BY <2>1, <2>2 DEF Break
<1>2. TypeOK'
  BY <1>1 DEF Break, TypeOK, Label, Interrupt
<1>3. Control'
  BY Calls DEF Break, TypeOK, Control, InCall, InStart, InReset, Waiting, Interrupt
<1> QED
  BY <1>2, <1>3

LEMMA ComeUpStep == IInv /\ ComeUp => IInv'
<1> SUFFICES ASSUME TypeOK, Control, ComeUp PROVE TypeOK' /\ Control'
  BY DEF IInv
<1>1. TypeOK'
  BY FloppyAssumption, Calls DEF ComeUp, driver, controller, TypeOK, Control, InCall, InStart,
     InReset, Label, Waiting, Content, Interrupt
<1>2. Control'
  BY Calls DEF ComeUp, driver, controller, TypeOK, Control, InCall, InStart, InReset, Waiting, Interrupt
<1> QED
  BY <1>1, <1>2

LEMMA StutterStep == IInv /\ UNCHANGED vars => IInv'
BY DEF IInv, TypeOK, Control, vars, driver, controller

LEMMA IInvStep == IInv /\ [Next]_vars => IInv'
BY CallStep, NotFiredStep, HaltStep, SeekStep, SeekFiredStep,
     SeekTimesOutStep, SoughtStep, TransferStep, TransferFiredStep, TransferTimesOutStep,
     ReleaseStep, RecalibrateStep, RecalibrateFiredStep, RecalibrateTimesOutStep, RecalibratedStep,
     TransferredStep, ResetStep, ResetDoneStep, TickStep, ArriveStep,
     CompleteStep, BreakStep, ComeUpStep,
     StutterStep DEF Next, Driver, Controller

\* The driver, the handlers and the controller keep the types and stay in Control.
THEOREM InvariantHolds == Spec => []IInv
BY InitIInv, IInvStep, PTL DEF Spec

\* The variables of floppy.c and timer.c keep their types.
THEOREM TypeCorrect == Spec => []TypeOK
<1>1. IInv => TypeOK
  BY DEF IInv
<1> QED
  BY <1>1, InvariantHolds, PTL

\* The motor is off when a call has returned, also when answers come late.
THEOREM MotorOff == Spec => []MotorOffWhenReturned
<1>1. IInv => MotorOffWhenReturned
  BY DEF IInv, Control, MotorOffWhenReturned, Returned
<1> QED
  BY <1>1, InvariantHolds, PTL

-----------------------------------------------------------------------------
(***************************************************************************)
(* Answers that come while the driver waits.                               *)
(***************************************************************************)

\* Before the first call flag, controller and buffer are in step.
LEMMA PunctualInit == Init => Punctual
BY Calls DEF Init, Punctual, FlagInTime, InStep, Carried

\* No wait that the flag ends is given up.
LEMMA NoTimeOutWhenFired ==
  ASSUME TypeOK, FlagInTime, NEW w \in Waiting, TimesOut(w)
  PROVE  ~fdc_irq_fired
BY FloppyAssumption DEF TypeOK, FlagInTime, TimesOut

\* An answer finds the driver in a wait.
LEMMA AnswerInTime ==
  ASSUME ~LateAnswers, TypeOK, Interrupt
  PROVE  /\ FlagInTime'
         /\ pc \in Waiting
         /\ UNCHANGED <<pc, call>>
<1>1. pc \in Waiting /\ elapsed < Patience
  BY Zenon DEF Interrupt
<1>2. UNCHANGED <<pc, call, elapsed>> /\ wait' = IF wait = "halt" THEN "test" ELSE wait
  BY DEF Interrupt
<1>3. wait' = "ticked" => elapsed' <= Patience
  BY <1>1, <1>2, FloppyAssumption DEF TypeOK
<1> QED
  BY <1>1, <1>2, <1>3 DEF FlagInTime

LEMMA PunctualStep ==
  ASSUME ~LateAnswers, IInv, Punctual, [Next]_vars
  PROVE  Punctual'
<1> USE DEF IInv, Punctual
<1> DEFINE Begins == \E c \in Reads \cup Writes : Call(c)
<1>1. CASE Begins
  <2> PICK c \in Reads \cup Writes : Call(c)
    BY <1>1
  <2> QED
    BY Calls DEF Call, controller, FlagInTime, InStep, Carried, Waiting
<1>2. CASE NotFired
  BY <1>2, FloppyAssumption
     DEF NotFired, driver, controller, FlagInTime, InStep, Carried, Waiting
<1>3. CASE Halt
  BY <1>3, FloppyAssumption
     DEF Halt, driver, controller, FlagInTime, InStep, Carried, Waiting, TypeOK
<1>4. CASE Seek
  BY <1>4, Calls
     DEF Seek, driver, controller, FlagInTime, InStep, Carried, Command, Waiting
<1>5. CASE SeekFired
  BY <1>5, Calls
     DEF SeekFired, driver, controller, FlagInTime, InStep, Carried, Fired, Waiting
<1>6. CASE SeekTimesOut
  BY <1>6, Calls, NoTimeOutWhenFired
     DEF SeekTimesOut, driver, controller, FlagInTime, InStep, Carried, TimesOut, Fails, Waiting
<1>7. CASE Sought
  BY <1>7, Calls
     DEF Sought, driver, controller, FlagInTime, InStep, Carried, Waiting
<1>8. CASE Transfer
  BY <1>8, Calls
     DEF Transfer, driver, controller, FlagInTime, InStep, Carried, Command, Waiting
<1>9. CASE TransferFired
  BY <1>9, Calls
     DEF TransferFired, driver, controller, FlagInTime, InStep, Carried, Fired, Waiting
<1>10. CASE TransferTimesOut
  BY <1>10, Calls, NoTimeOutWhenFired
     DEF TransferTimesOut, driver, controller, FlagInTime, InStep, Carried, TimesOut, Fails, Waiting
<1>11. CASE Transferred
  BY <1>11, Calls
     DEF Transferred, driver, controller, FlagInTime, InStep, Carried, Return, TypeOK, Control, Waiting
<1>12. CASE Reset
  BY <1>12, Calls
     DEF Reset, driver, controller, FlagInTime, InStep, Carried, PartlyMoved, TypeOK, Control, Waiting
<1>13. CASE Release
  BY <1>13, Calls
     DEF Release, driver, controller, FlagInTime, InStep, Carried, Waiting
<1>14. CASE ResetDone
  BY <1>14, Calls, NoTimeOutWhenFired
     DEF ResetDone, driver, controller, FlagInTime, InStep, Carried, AfterReset, TimesOut, Return, TypeOK, Control, Waiting
<1>15. CASE Recalibrate
  BY <1>15, Calls
     DEF Recalibrate, driver, controller, FlagInTime, InStep, Carried, Command, Waiting
<1>16. CASE RecalibrateFired
  BY <1>16, Calls
     DEF RecalibrateFired, driver, controller, FlagInTime, InStep, Carried, Fired, Waiting
<1>17. CASE RecalibrateTimesOut
  BY <1>17, Calls, NoTimeOutWhenFired
     DEF RecalibrateTimesOut, driver, controller, FlagInTime, InStep, Carried, TimesOut, Return, Waiting
<1>18. CASE Recalibrated
  BY <1>18, Calls
     DEF Recalibrated, driver, controller, FlagInTime, InStep, Carried, Return, Waiting
<1>19. CASE Tick
  BY <1>19, FloppyAssumption
     DEF Tick, driver, controller, FlagInTime, InStep, Carried, TypeOK, Waiting
<1>20. CASE Arrive
  <2>1. FlagInTime' /\ pc \in Waiting /\ UNCHANGED <<pc, call>>
    BY <1>20, AnswerInTime DEF Arrive
  <2> QED
    BY <1>20, <2>1, Calls DEF Arrive, InStep, Carried, TypeOK, Control, Waiting
<1>21. CASE Complete
  <2>1. FlagInTime' /\ pc \in Waiting /\ UNCHANGED <<pc, call>>
    BY <1>21, AnswerInTime DEF Complete
  <2> QED
    BY <1>21, <2>1, Calls DEF Complete, InStep, Carried, TypeOK, Control, Waiting
<1>22. CASE Break
  <2>1. FlagInTime' /\ pc \in Waiting /\ UNCHANGED <<pc, call>>
    BY <1>22, AnswerInTime DEF Break
  <2> QED
    BY <1>22, <2>1, Calls DEF Break, InStep, Carried, TypeOK, Control, Waiting, PartlyMoved
<1>23. CASE ComeUp
  <2>1. FlagInTime' /\ pc \in Waiting /\ UNCHANGED <<pc, call>>
    BY <1>23, AnswerInTime DEF ComeUp
  <2> QED
    BY <1>23, <2>1, Calls DEF ComeUp, InStep, Carried, TypeOK, Control, Waiting
<1>24. CASE UNCHANGED vars
  BY <1>24 DEF vars, driver, controller, FlagInTime, InStep, Carried
<1> QED
  BY <1>1, <1>2, <1>3, <1>4, <1>5, <1>6, <1>7, <1>8, <1>9, <1>10, <1>11, <1>12, <1>13, <1>14, <1>15, <1>16, <1>17, <1>18, <1>19, <1>20, <1>21, <1>22, <1>23, <1>24 DEF Next, Driver, Controller

\* Flag, controller and buffer are in step with the driver when answers are punctual.
THEOREM PunctualHolds == ASSUME ~LateAnswers PROVE Spec => []PInv
<1>1. Init => PInv
  BY InitIInv, PunctualInit DEF PInv
<1>2. PInv /\ [Next]_vars => PInv'
  BY IInvStep, PunctualStep DEF PInv
<1> QED
  BY <1>1, <1>2, PTL DEF Spec

\* No command is sent while an earlier interrupt could be taken for its answer.
THEOREM NoStale == ASSUME ~LateAnswers PROVE Spec => []NoStaleInterrupt
<1>1. PInv => NoStaleInterrupt
  BY DEF PInv, Punctual, FlagInTime, NoStaleInterrupt, Waiting
<1> QED
  BY <1>1, PunctualHolds, PTL

-----------------------------------------------------------------------------
(***************************************************************************)
(* The driver implements SectorStore.                                      *)
(***************************************************************************)

\* A transfer that is not over is a touch of its sector, or nothing.
LEMMA PartlyMovedTouches ==
  ASSUME PInv, phase = "exec", PartlyMoved, UNCHANGED <<call, result>>
  PROVE  Promise!Touch \/ UNCHANGED <<call, result, disk>>
<1>1. order = call /\ (call \in Writes => call.lba \in Lba /\ dma_buffer = call.data)
  BY Calls DEF PInv, Punctual, InStep, Carried
<1>2. CASE order \in Writes
  <2>1. PICK left \in {disk[order.lba], dma_buffer, Torn} :
          disk' = [disk EXCEPT ![order.lba] = left]
    BY <1>2 DEF PartlyMoved
  <2>2. CASE left = disk[order.lba]
    <3>1. disk' = disk
      BY <1>1, <1>2, <2>1, <2>2 DEF PInv, IInv, TypeOK
    <3> QED
      BY <3>1
  <2>3. CASE left \in {call.data, Torn}
    BY <1>1, <1>2, <2>1, <2>3 DEF Promise!Touch
  <2> QED
    BY <1>1, <1>2, <2>1, <2>2, <2>3
<1>3. CASE order \notin Writes
  BY <1>3 DEF PartlyMoved
<1> QED
  BY <1>2, <1>3

LEMMA StepImplements ==
  ASSUME PInv, [Next]_vars
  PROVE  [Promise!Next]_<<call, result, disk>>
<1> DEFINE Quiet == UNCHANGED <<call, result, disk>>
<1>1. CASE \E c \in Reads \cup Writes : Call(c)
  <2> PICK c \in Reads \cup Writes : Call(c)
    BY <1>1
  <2>1. call.op = "none"
    BY DEF Call, PInv, IInv, Control, Idle
  <2> QED
    BY <2>1 DEF Call, Promise!Begin, Promise!Next
<1>2. CASE Complete
  <2>1. order = call /\ (call \in Writes => dma_buffer = call.data)
    BY <1>2 DEF Complete, PInv, Punctual, InStep, Carried
  <2> QED
    BY <1>2, <2>1 DEF Complete, Interrupt, Promise!Touch, Promise!Next
<1>3. CASE Break
  BY <1>3, PartlyMovedTouches DEF Break, Interrupt, Promise!Next
<1>4. CASE Reset
  BY <1>4, PartlyMovedTouches DEF Reset, Promise!Next
<1>5. CASE Transferred
  <2>1. /\ call.op # "none" /\ phase = "result"
        /\ status => (call \in Writes => disk[call.lba] = call.data)
        /\ status => dma_buffer = disk[call.lba]
    BY <1>5, Calls DEF Transferred, PInv, IInv, Control, InCall, Punctual, InStep, Carried
  <2> QED
    BY <1>5, <2>1 DEF Transferred, Return, Idle, Promise!Succeed, Promise!Next
<1>6. CASE ResetDone
  <2>1. call.op # "none"
    BY <1>6, Calls DEF ResetDone, TimesOut, PInv, IInv, Control, InReset
  <2>2. Quiet \/ Return([op |-> call.op, code |-> -1])
    BY <1>6 DEF ResetDone, AfterReset
  <2> QED
    BY <1>6, <2>1, <2>2 DEF ResetDone, Return, Idle, Promise!Fail, Promise!Next
<1>7. CASE RecalibrateTimesOut
  BY <1>7 DEF RecalibrateTimesOut, TimesOut, Return, PInv, IInv, Control, InStart, Starting, Idle,
     Promise!Fail, Promise!Next
<1>8. CASE Recalibrated
  <2>1. call = Starting /\ call.op = "init" /\ call \notin Reads \cup Writes
    BY <1>8, Calls DEF Recalibrated, PInv, IInv, Control, InStart
  <2>2. \E code \in {0, -1} : Return([op |-> "init", code |-> code]) /\ UNCHANGED disk
    BY <1>8 DEF Recalibrated
  <2> QED
    BY <2>1, <2>2 DEF Return, Idle, Promise!Succeed, Promise!Fail, Promise!Next
<1>9. CASE NotFired \/ Halt \/ Seek \/ SeekFired \/ SeekTimesOut \/ Sought \/ Transfer \/ TransferFired
  BY <1>9 DEF NotFired, Halt, Seek, SeekFired, SeekTimesOut, Sought, Transfer, TransferFired
<1>10. CASE TransferTimesOut \/ Release \/ Recalibrate \/ RecalibrateFired \/ Tick \/ Arrive \/ ComeUp
  BY <1>10 DEF TransferTimesOut, Release, Recalibrate, RecalibrateFired, Tick, Arrive, ComeUp, Interrupt
<1>11. CASE UNCHANGED vars
  BY <1>11 DEF vars, driver
<1> QED
  BY <1>1, <1>2, <1>3, <1>4, <1>5, <1>6, <1>7, <1>8, <1>9, <1>10, <1>11 DEF Next, Driver, Controller

\* A read that succeeds returns what its sector holds, a write that succeeds is on the
\* disk, and no call changes anything but the sector it is to write.
THEOREM StoreImplemented == ASSUME ~LateAnswers PROVE Spec => ImplementsSectorStore
<1>1. PInv /\ [Next]_vars => [Promise!Next]_<<call, result, disk>>
  BY StepImplements
<1> QED
  BY <1>1, PunctualHolds, PTL DEF Spec, ImplementsSectorStore, Promise!Spec
=============================================================================
