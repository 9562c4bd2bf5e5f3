------------------------- MODULE InterruptsProofs -------------------------
(***************************************************************************)
(* Theorems about interrupt dispatch, for every set of lines, every width  *)
(* of the tick counter and all waits that fit into it.                     *)
(*                                                                         *)
(* Control says what is in service at each place of the handler, and that  *)
(* interrupts are only enabled once the tables are set up.  Counting says  *)
(* how far the counter can be ahead of a sleep_ms that waits for it: the   *)
(* ticks that are counted, requested and being served stay below a turn.   *)
(***************************************************************************)
EXTENDS Interrupts, TLAPS

\* What can be in service while line n is served.
Expected(n, place) ==
  CASE place = "iret"   -> {}
    [] place = "master" -> IF Slave(n) THEN {2} ELSE {n}
    [] OTHER            -> IF Slave(n) THEN {n, 2} ELSE {n}

Tables == remapped /\ \A n \in Irqs : Vector(n) \in gates

Control ==
  /\ serving = None /\ pc # "halted" => isr = {}
  /\ serving # None =>
       /\ pc \in {"drive", "run"} /\ ~IF_flag /\ saved
       /\ isr \subseteq Expected(serving, at)
       /\ at = "slave" => Slave(serving)
  /\ IF_flag => pc \in {"drive", "run"}
  /\ pc # "idt" => Tables

\* Ticks that are requested or about to be counted.
DueIn(requests, line, place) ==
  (IF 0 \in requests THEN 1 ELSE 0) + (IF line = 0 /\ place = "call" THEN 1 ELSE 0)

Counting ==
  /\ start \in 0 .. Turn - 1
  /\ wait # "no" =>
       /\ ms \in Sleep
       /\ timer_ticks = (start + slept) % Turn
  /\ wait = "test" => slept + DueIn(irr, serving, at) <= ms + Late + 1
  /\ wait = "hlt" => slept + DueIn(irr, serving, at) <= ms + Late
  /\ wait = "asleep" => slept <= ms + Late /\ serving = None

IInv == TypeOK /\ Control /\ Counting

-----------------------------------------------------------------------------
LEMMA Lines == /\ Irqs \subseteq 0 .. 15 /\ 2 \notin Irqs /\ None \notin Irqs /\ 0 \in Irqs
               /\ Turn \in Nat /\ Turn > 0 /\ Late \in Nat \ {0} /\ Sleep \subseteq Nat
               /\ \A t \in Sleep : t + Late + 1 < Turn
<1>1. Irqs \subseteq 0 .. 15 /\ 2 \notin Irqs /\ 0 \in Irqs /\ None \notin Irqs
  <2>1. Irqs \subseteq (0 .. 15) \ {2} /\ 0 \in Irqs
    BY InterruptsAssumption
  <2>2. -1 \notin 0 .. 15
    OBVIOUS
  <2>3. Irqs \subseteq 0 .. 15 /\ 2 \notin Irqs
    BY <2>1
  <2>4. -1 \notin Irqs
    BY <2>2, <2>3
  <2> QED
    BY <2>1, <2>3, <2>4 DEF None
<1>2. Turn \in Nat \ {0} /\ Late \in Nat \ {0} /\ Sleep \subseteq Nat
      /\ \A t \in Sleep : t + Late + 1 < Turn
  BY InterruptsAssumption
<1> QED
  BY <1>1, <1>2

\* The vectors of all lines are among those that idt_init sets.
LEMMA VectorsSet ==
  \A n \in Irqs : Vector(n) \in {Vector(m) : m \in 0 .. 15} \cup 0 .. 31 \cup {128}
BY Lines

LEMMA VectorsRange == {Vector(m) : m \in 0 .. 15} \cup 0 .. 31 \cup {128} \subseteq 0 .. 255
BY DEF Vector

\* The second controller's command ends its line, and leaves line 2 in service.
LEMMA SlaveEnds ==
  ASSUME NEW n \in Irqs, Slave(n), isr \subseteq {n, 2}
  PROVE  Ended(8 .. 15) \subseteq {2}
<1>1. n \in 8 .. 15 /\ 2 \notin 8 .. 15
  BY Lines DEF Slave
<1>2. RankOf(n) <= RankOf(n)
  BY Lines DEF RankOf, Rank, Slave
<1> QED
  BY <1>1, <1>2 DEF Ended

\* The first controller's command ends the one line in service.
LEMMA MasterEnds ==
  ASSUME NEW n \in Line, ~Slave(n), isr \subseteq {n}
  PROVE  Ended(0 .. 7) = {}
<1>1. n \in 0 .. 7
  BY Lines DEF Slave, Line
<1>2. RankOf(n) <= RankOf(n)
  BY Lines DEF RankOf, Rank, Slave, Line
<1> QED
  BY <1>1, <1>2 DEF Ended

\* The remainder of a number that is less than one turn off.
LEMMA Modulo ==
  ASSUME NEW t \in Nat, t > 0, NEW x \in Int
  PROVE  /\ 0 <= x /\ x < t => x % t = x
         /\ x < 0 /\ 0 <= x + t => x % t = x + t
         /\ x = t => x % t = 0
OBVIOUS

\* What the counter is ahead of the start of a wait that began a ticks ago.
LEMMA Ahead ==
  ASSUME NEW b \in 0 .. Turn - 1, NEW a \in Nat, a < Turn
  PROVE  /\ (b + a) % Turn = IF b + a < Turn THEN b + a ELSE b + a - Turn
         /\ (((b + a) % Turn) - b) % Turn = a
<1>1. Turn \in Nat /\ Turn > 0
  BY Lines
<1>2. CASE b + a < Turn
  <2>1. (b + a) % Turn = b + a
    BY <1>1, <1>2, Modulo
  <2>2. (b + a) - b = a /\ a % Turn = a
    BY <1>1, Modulo
  <2> QED
    BY <1>2, <2>1, <2>2
<1>3. CASE b + a >= Turn
  <2>1. (b + a) % Turn = b + a - Turn
    <3>1. (b + a - Turn) % Turn = b + a - Turn
      BY <1>1, <1>3, Modulo
    <3>2. (b + a) % Turn = (b + a - Turn) % Turn
      BY <1>1
    <3> QED
      BY <3>1, <3>2
  <2>2. (b + a - Turn) - b = a - Turn /\ (a - Turn) % Turn = a
    BY <1>1, Modulo
  <2> QED
    BY <1>1, <1>3, <2>1, <2>2
<1> QED
  BY <1>1, <1>2, <1>3

\* The kernel starts with interrupts off and nothing set up.
LEMMA InitIInv == Init => IInv
<1> SUFFICES ASSUME Init PROVE IInv
  OBVIOUS
<1>1. TypeOK
  <2>1. start \in Nat /\ ms \in Nat /\ slept \in Nat /\ timer_ticks \in 0 .. Turn - 1
    BY Lines DEF Init
  <2>2. irr \subseteq Irqs /\ isr \subseteq Line /\ handlers \subseteq Irqs /\ gates \subseteq 0 .. 255
    BY DEF Init
  <2>3. serving \in Irqs \cup {None}
    BY DEF Init
  <2>4. /\ in_call \in BOOLEAN /\ IF_flag \in BOOLEAN /\ saved \in BOOLEAN /\ remapped \in BOOLEAN
        /\ pc \in {"idt", "timer", "sti", "drive", "run", "halted"}
        /\ wait \in {"no", "test", "hlt", "asleep"} /\ at \in {"call", "slave", "master", "iret"}
    BY DEF Init
  <2> QED
    BY <2>1, <2>2, <2>3, <2>4 DEF TypeOK
<1>2. Control
  BY DEF Init, Control
<1>3. Counting
  BY Lines DEF Init, Counting
<1> QED
  BY <1>1, <1>2, <1>3 DEF IInv

\* The steps of main, handlers and controllers keep the types.
LEMMA KeepsTypes == IInv /\ [Next]_vars => TypeOK'
<1> SUFFICES ASSUME TypeOK, [Next]_vars, IInv PROVE TypeOK'
  BY DEF IInv
<1> USE Lines DEF TypeOK, Line
<1>1. CASE IdtInit
  <2>1. gates' \subseteq 0 .. 255
    BY <1>1, VectorsRange DEF IdtInit
  <2> QED
    BY <1>1, <2>1 DEF IdtInit, Boots
<1>2. CASE TimerInit
  BY <1>2 DEF TimerInit, Boots
<1>3. CASE Sti
  BY <1>3 DEF Sti, Boots, tables
<1>4. CASE DriveInit
  BY <1>4 DEF DriveInit, Boots
<1>5. CASE SystemCall
  BY <1>5 DEF SystemCall, Running, cpu, tables
<1>6. CASE SleepBegins
  BY <1>6 DEF SleepBegins, Running, cpu, tables
<1>7. CASE SleepTest
  BY <1>7 DEF SleepTest, SleepGoesOn, cpu, tables
<1>8. CASE Hlt
  BY <1>8 DEF Hlt, cpu, tables
<1>9. ASSUME NEW n \in Irqs, Interrupt(n) PROVE TypeOK'
  BY <1>9 DEF Interrupt, Enter, tables
<1>10. ASSUME NEW n \in Irqs, Spurious(n) PROVE TypeOK'
  BY <1>10 DEF Spurious, Enter, tables
<1>11. ASSUME NEW n \in Irqs, Raise(n) PROVE TypeOK'
  BY <1>11 DEF Raise, main, cpu, tables
<1>12. CASE Handler
  <2>1. timer_ticks' \in 0 .. Turn - 1
    BY <1>12 DEF Handler
  <2> QED
    BY <1>12, <2>1 DEF Handler, main, tables
<1>13. CASE SlaveEoi
  BY <1>13, ZenonT(40) DEF SlaveEoi, Ended, main, tables
<1>14. CASE MasterEoi
  BY <1>14, ZenonT(40) DEF MasterEoi, Ended, main, tables
<1>15. CASE Iret
  BY <1>15, ZenonT(40) DEF Iret, main, tables
<1>16. CASE Panic
  BY <1>16 DEF Panic, tables
<1>17. CASE UNCHANGED vars
  BY <1>17 DEF vars, main, cpu, tables
<1> QED
  BY <1>1, <1>2, <1>3, <1>4, <1>5, <1>6, <1>7, <1>8, <1>9, <1>10, <1>11, <1>12, <1>13,
     <1>14, <1>15, <1>16, <1>17 DEF Next

\* They set up what main's place says, and end what is in service.
LEMMA KeepsControl == IInv /\ [Next]_vars => Control'
<1> SUFFICES ASSUME TypeOK, Control, [Next]_vars PROVE Control'
  BY DEF IInv
<1>0. \A n \in Irqs : n \in Int /\ n # 2 /\ n # None
  BY Lines
<1>1. CASE IdtInit
  <2>1. Tables'
    BY <1>1, VectorsSet DEF IdtInit, Tables
  <2> QED
    BY <1>1, <2>1 DEF IdtInit, Boots, Control
<1>2. CASE TimerInit
  BY <1>2 DEF TimerInit, Boots, Control, Tables
<1>3. CASE Sti
  BY <1>3 DEF Sti, Boots, Control, Tables, tables
<1>4. CASE DriveInit
  BY <1>4 DEF DriveInit, Boots, Control, Tables
<1>5. CASE SystemCall
  BY <1>5 DEF SystemCall, Control, Tables, cpu, tables
<1>6. CASE SleepBegins
  BY <1>6 DEF SleepBegins, Control, Tables, cpu, tables
<1>7. CASE SleepTest
  BY <1>7 DEF SleepTest, SleepGoesOn, Control, Tables, cpu, tables
<1>8. CASE Hlt
  BY <1>8 DEF Hlt, Control, Tables, cpu, tables
<1>9. ASSUME NEW n \in Irqs, Interrupt(n) PROVE Control'
  <2>1. isr = {}
    BY <1>9 DEF Interrupt, Enter, Control
  <2>2. isr' \subseteq Expected(n, "call")
    BY <1>9, <2>1 DEF Interrupt, Enter, Expected
  <2> QED
    BY <1>0, <1>9, <2>2 DEF Interrupt, Enter, Control, Tables, tables
<1>10. ASSUME NEW n \in Irqs, Spurious(n) PROVE Control'
  <2>2. isr' \subseteq Expected(n, "call")
    BY <1>10 DEF Spurious, Enter, Expected
  <2> QED
    BY <1>0, <1>10, <2>2 DEF Spurious, Enter, Control, Tables, tables
<1>11. ASSUME NEW n \in Irqs, Raise(n) PROVE Control'
  BY <1>11 DEF Raise, Control, Tables, main, cpu, tables
<1>12. CASE Handler
  <2>1. at' \in {"slave", "master"} /\ (at' = "slave" <=> Slave(serving))
    BY <1>0, <1>12 DEF Handler, Vector, Slave, TypeOK
  <2>2. Expected(serving, "call") = IF Slave(serving) THEN {serving, 2} ELSE {serving}
    BY DEF Expected
  <2>3. isr' \subseteq Expected(serving, at')
    BY <1>12, <2>1, <2>2 DEF Handler, Control, Expected
  <2> QED
    BY <1>12, <2>1, <2>3 DEF Handler, Control, Tables, main, tables
<1>13. CASE SlaveEoi
  <2>1. serving \in Irqs /\ Slave(serving) /\ isr \subseteq {serving, 2}
    BY <1>13 DEF SlaveEoi, Control, Expected, TypeOK
  <2>2. isr' \subseteq {2}
    BY <1>13, <2>1, SlaveEnds DEF SlaveEoi
  <2>3. isr' \subseteq Expected(serving, "master")
    BY <2>1, <2>2 DEF Expected
  <2> QED
    BY <1>13, <2>3 DEF SlaveEoi, Control, Tables, main, tables
<1>14. CASE MasterEoi
  <2>1. serving \in Irqs /\ (isr \subseteq IF Slave(serving) THEN {2} ELSE {serving})
    BY <1>14 DEF MasterEoi, Control, Expected, TypeOK
  <2>2. CASE Slave(serving)
    <3>1. 2 \in Line /\ ~Slave(2) /\ isr \subseteq {2}
      BY <2>1, <2>2 DEF Line, Slave
    <3>2. Ended(0 .. 7) = {}
      BY <3>1, MasterEnds
    <3> QED
      BY <1>14, <3>2 DEF MasterEoi, Control, Tables, Expected, main, tables
  <2>3. CASE ~Slave(serving)
    <3>1. serving \in Line /\ isr \subseteq {serving}
      BY <2>1, <2>3 DEF Line
    <3>2. Ended(0 .. 7) = {}
      BY <2>3, <3>1, MasterEnds
    <3> QED
      BY <1>14, <3>2 DEF MasterEoi, Control, Tables, Expected, main, tables
  <2> QED
    BY <2>2, <2>3
<1>15. CASE Iret
  <2>1. isr = {}
    BY <1>15 DEF Iret, Control, Expected
  <2> QED
    BY <1>15, <2>1 DEF Iret, Control, Tables, main, tables
<1>16. CASE Panic
  BY <1>16 DEF Panic, Control, Tables, tables
<1>17. CASE UNCHANGED vars
  BY <1>17 DEF vars, main, cpu, tables, Control, Tables
<1> QED
  BY <1>1, <1>2, <1>3, <1>4, <1>5, <1>6, <1>7, <1>8, <1>9, <1>10, <1>11, <1>12, <1>13,
     <1>14, <1>15, <1>16, <1>17 DEF Next

\* The counter stays less than a turn ahead of a wait.
LEMMA LessThanTurn ==
  ASSUME IInv, wait \in {"test", "hlt", "asleep"}
  PROVE  /\ ms \in Nat /\ ms \in Sleep /\ slept \in Nat /\ slept < Turn
         /\ start \in 0 .. Turn - 1 /\ DueIn(irr, serving, at) \in Nat /\ DueIn(irr, serving, at) <= 2
         /\ timer_ticks = (start + slept) % Turn
         /\ (timer_ticks - start) % Turn = slept
<1>1. /\ ms \in Nat /\ ms \in Sleep /\ slept \in Nat /\ DueIn(irr, serving, at) \in Nat /\ DueIn(irr, serving, at) <= 2
      /\ start \in 0 .. Turn - 1 /\ timer_ticks = (start + slept) % Turn
  BY Lines DEF IInv, Counting, TypeOK, DueIn
<1>2. slept < Turn
  BY <1>1, Lines DEF IInv, Counting
<1> QED
  BY <1>1, <1>2, Ahead

\* The counter advances with slept, modulo its turn.
LEMMA KeepsCounting == IInv /\ [Next]_vars => Counting'
<1> SUFFICES ASSUME IInv, [Next]_vars PROVE Counting'
  OBVIOUS
<1> USE Lines
<1>0. TypeOK /\ Control /\ Counting
  BY DEF IInv
<1>1. CASE Boot
  BY <1>0, <1>1 DEF Boot, IdtInit, TimerInit, Sti, DriveInit, Boots, Counting
<1>2. CASE SystemCall
  BY <1>0, <1>2 DEF SystemCall, Running, Counting, cpu
<1>3. CASE SleepBegins
  <2>1. ms' \in Sleep /\ start' = timer_ticks /\ slept' = 0 /\ wait' = "test"
        /\ serving' = None /\ irr' = irr /\ timer_ticks' = timer_ticks
    BY <1>3 DEF SleepBegins, Running, cpu
  <2>2. timer_ticks \in 0 .. Turn - 1 /\ timer_ticks % Turn = timer_ticks
    BY <1>0, Modulo DEF TypeOK
  <2>3. DueIn(irr', serving', at') <= 1
    BY <2>1 DEF DueIn, None
  <2>4. DueIn(irr', serving', at') \in Nat /\ ms' \in Nat
    BY <2>1 DEF DueIn
  <2>5. start' + slept' = timer_ticks
    BY <2>1, <2>2
  <2> QED
    BY <2>1, <2>2, <2>3, <2>4, <2>5 DEF Counting
<1>4. CASE SleepTest
  <2>1. wait = "test" /\ serving = None /\ (timer_ticks - start) % Turn = slept
        /\ slept \in Nat /\ ms \in Nat /\ start \in 0 .. Turn - 1
    BY <1>4, LessThanTurn DEF SleepTest
  <2>2. CASE slept < ms
    <3>1. wait' = "hlt" /\ UNCHANGED <<start, ms, slept, timer_ticks, irr, serving, at>>
      BY <1>4, <2>1, <2>2 DEF SleepTest, SleepGoesOn, cpu
    <3>2. DueIn(irr', serving', at') = DueIn(irr, serving, at) /\ DueIn(irr, serving, at) \in Nat /\ DueIn(irr, serving, at) <= 1
      BY <2>1, <3>1 DEF DueIn, None
    <3> QED
      BY <1>0, <2>1, <2>2, <3>1, <3>2 DEF Counting
  <2>3. CASE ~(slept < ms)
    BY <1>4, <2>1, <2>3 DEF SleepTest, SleepGoesOn, Counting
  <2> QED
    BY <2>2, <2>3
<1>5. CASE Hlt
  <2>1. DueIn(irr, serving, at) \in Nat /\ slept \in Nat /\ ms \in Nat
    BY <1>0 DEF DueIn, TypeOK
  <2> QED
    BY <1>0, <1>5, <2>1 DEF Hlt, Counting, cpu
<1>6. ASSUME NEW n \in Irqs, Interrupt(n) \/ Spurious(n) PROVE Counting'
  <2>1. /\ UNCHANGED <<start, ms, slept, timer_ticks>>
        /\ serving = None /\ serving' = n /\ at' = "call"
        /\ wait' = IF wait = "asleep" THEN "test" ELSE wait
        /\ irr' = irr \ {n} /\ (n = 0 => n \in irr)
    BY <1>6 DEF Interrupt, Spurious, Requested, Enter
  <2>2. DueIn(irr', serving', at') = DueIn(irr, serving, at) /\ DueIn(irr, serving, at) \in Nat /\ DueIn(irr, serving, at) <= 1
    BY <2>1 DEF DueIn, None
  <2>3. slept \in Nat /\ ms \in Nat
    BY <1>0 DEF TypeOK
  <2>4. CASE wait = "asleep"
    BY <1>0, <2>1, <2>2, <2>3, <2>4 DEF Counting
  <2>5. CASE wait # "asleep"
    BY <1>0, <2>1, <2>2, <2>3, <2>5 DEF Counting
  <2> QED
    BY <2>4, <2>5
<1>7. ASSUME NEW n \in Irqs, Raise(n) PROVE Counting'
  <2>1. /\ UNCHANGED <<start, ms, slept, timer_ticks, serving, at, wait>>
        /\ irr' = irr \cup {n} /\ n \notin irr
        /\ n = 0 /\ wait \in {"test", "hlt"} => slept < ms + Late - 1
    BY <1>7 DEF Raise, main, cpu
  <2>2. slept \in Nat /\ ms \in Nat /\ DueIn(irr, serving, at) \in Nat /\ DueIn(irr, serving, at) <= 2 /\ DueIn(irr', serving', at') \in Nat /\ DueIn(irr', serving', at') <= 2
    BY <1>0 DEF TypeOK, DueIn
  <2>3. n # 0 => DueIn(irr', serving', at') = DueIn(irr, serving, at)
    BY <2>1 DEF DueIn
  <2>4. CASE n = 0 /\ wait \in {"test", "hlt"}
    <3>1. slept + DueIn(irr', serving', at') <= ms + Late
      BY <2>1, <2>2, <2>4
    <3>2. slept' + DueIn(irr', serving', at') <= ms' + Late /\ slept' + DueIn(irr', serving', at') <= ms' + Late + 1
      BY <2>1, <2>2, <3>1
    <3> QED
      BY <1>0, <2>1, <2>4, <3>2 DEF Counting
  <2>5. CASE n = 0 /\ wait \notin {"test", "hlt"}
    BY <1>0, <2>1, <2>5 DEF Counting
  <2>6. CASE n # 0
    BY <1>0, <2>1, <2>3, <2>6 DEF Counting
  <2> QED
    BY <2>4, <2>5, <2>6
<1>8. CASE Handler
  <2>1. /\ UNCHANGED <<start, ms, serving, irr, wait>>
        /\ serving # None /\ at = "call" /\ at' # "call"
        /\ \/ UNCHANGED <<timer_ticks, slept>>
           \/ /\ serving = 0 /\ timer_ticks' = (timer_ticks + 1) % Turn
              /\ slept' = IF wait = "no" THEN slept ELSE slept + 1
    BY <1>8 DEF Handler, main
  <2>2. wait # "asleep"
    BY <1>0, <2>1 DEF Counting
  <2>3. CASE wait = "no"
    BY <1>0, <2>1, <2>3 DEF Counting
  <2>4. CASE wait \in {"test", "hlt"}
    <3>1. /\ slept \in Nat /\ ms \in Nat /\ slept < Turn /\ start \in 0 .. Turn - 1
          /\ timer_ticks = (start + slept) % Turn /\ DueIn(irr, serving, at) \in Nat /\ DueIn(irr, serving, at) <= 2 /\ DueIn(irr', serving', at') \in Nat /\ DueIn(irr', serving', at') <= 2
      BY <2>4, LessThanTurn DEF DueIn
    <3>2. DueIn(irr', serving', at') <= DueIn(irr, serving, at)
      BY <2>1 DEF DueIn
    <3>3. CASE UNCHANGED <<timer_ticks, slept>>
      <4>1. slept' + DueIn(irr', serving', at') <= slept + DueIn(irr, serving, at)
        BY <3>1, <3>2, <3>3
      <4>2. slept' + DueIn(irr', serving', at') \in Nat /\ slept + DueIn(irr, serving, at) \in Nat
        BY <3>1, <3>3
      <4> QED
        BY <1>0, <2>1, <2>4, <3>1, <3>3, <4>1, <4>2 DEF Counting
    <3>4. CASE serving = 0 /\ timer_ticks' = (timer_ticks + 1) % Turn /\ slept' = slept + 1
      <4>1. DueIn(irr', serving', at') = DueIn(irr, serving, at) - 1
        BY <2>1, <3>4 DEF DueIn
      <4>2. slept + 1 < Turn
        BY <1>0, <2>4, <3>1, <4>1 DEF Counting
      <4>3. timer_ticks' = (start + slept') % Turn
        <5>1. (start + slept) % Turn
                = IF start + slept < Turn THEN start + slept ELSE start + slept - Turn
          BY <3>1, Ahead
        <5>2. (start + (slept + 1)) % Turn
                = IF start + (slept + 1) < Turn THEN start + (slept + 1)
                                                ELSE start + (slept + 1) - Turn
          <6>1. slept + 1 \in Nat
            BY <3>1
          <6> QED
            BY <3>1, <4>2, <6>1, Ahead
        <5>3. CASE start + slept + 1 = Turn
          BY <3>1, <3>4, <5>1, <5>2, <5>3, Modulo
        <5>4. CASE start + slept + 1 # Turn
          <6>1. timer_ticks + 1 \in 0 .. Turn - 1
            BY <3>1, <4>2, <5>1, <5>4
          <6>2. (timer_ticks + 1) % Turn = timer_ticks + 1
            BY <6>1, Modulo
          <6> QED
            BY <3>1, <3>4, <4>2, <5>1, <5>2, <5>4, <6>2
        <5> QED
          BY <5>3, <5>4
      <4> QED
        BY <1>0, <2>1, <2>4, <3>1, <3>4, <4>1, <4>3 DEF Counting
    <3> QED
      BY <2>1, <2>4, <3>3, <3>4
  <2> QED
    BY <1>0, <2>2, <2>3, <2>4 DEF TypeOK
<1>9. CASE SlaveEoi \/ MasterEoi \/ Iret
  <2>1. /\ UNCHANGED <<start, ms, slept, timer_ticks, irr, wait>>
        /\ serving # None /\ at # "call" /\ (at' # "call" \/ serving' = None)
    BY <1>9 DEF SlaveEoi, MasterEoi, Iret, main
  <2>2. DueIn(irr', serving', at') = DueIn(irr, serving, at)
    BY <2>1 DEF DueIn, None
  <2> QED
    BY <1>0, <2>1, <2>2 DEF Counting
<1>10. CASE Panic
  BY <1>0, <1>10 DEF Panic, Counting
<1>11. CASE UNCHANGED vars
  BY <1>0, <1>11 DEF vars, main, cpu, Counting, DueIn
<1> QED
  BY <1>1, <1>2, <1>3, <1>4, <1>5, <1>6, <1>7, <1>8, <1>9, <1>10, <1>11 DEF Next, Boot

\* Together: every step keeps the invariant.
LEMMA Inductive == IInv /\ [Next]_vars => IInv'
BY KeepsTypes, KeepsControl, KeepsCounting DEF IInv

\* The inductive invariant holds in every state.
THEOREM Invariance == Spec => []IInv
<1> QED
  BY InitIInv, Inductive, PTL DEF Spec

\* Type correctness: among others, the tick counter stays below its turn.
THEOREM TypeCorrect == Spec => []TypeOK
<1>1. IInv => TypeOK
  BY DEF IInv
<1> QED
  BY <1>1, Invariance, PTL

\* No interrupt is left in service when its handler has returned, whatever lines
\* are in use and whichever of them are spurious.
THEOREM AllEnded == Spec => []NothingInService
<1>1. IInv => NothingInService
  BY DEF IInv, Control, NothingInService
<1> QED
  BY <1>1, Invariance, PTL

\* Interrupts are only taken when the tables are set up.
THEOREM TablesFirst == Spec => []GateReady
<1>1. IInv => GateReady
  BY DEF IInv, Control, Tables, GateReady
<1> QED
  BY <1>1, Invariance, PTL

\* sleep_ms waits long enough, for every wait that fits into the counter.
THEOREM LongEnough == Spec => SleepsLongEnough
<1>1. IInv /\ [Next]_vars => [wait = "test" /\ wait' = "no" => slept >= ms \/ pc' = "halted"]_vars
  <2> SUFFICES ASSUME IInv, [Next]_vars, wait = "test", wait' = "no", pc' # "halted"
               PROVE  slept >= ms
    OBVIOUS
  <2>1. SleepTest
    BY DEF Next, vars, main, cpu, IdtInit, TimerInit, Sti, DriveInit, Boots, SystemCall,
       SleepBegins, Running, Hlt, Interrupt, Spurious, Enter, Raise, Handler, SlaveEoi,
       MasterEoi, Iret, Panic
  <2>2. (timer_ticks - start) % Turn = slept /\ slept \in Nat /\ ms \in Nat
    BY LessThanTurn
  <2> QED
    BY <2>1, <2>2 DEF SleepTest, SleepGoesOn
<1> QED
  BY <1>1, Invariance, PTL DEF Spec, SleepsLongEnough
=============================================================================
