------------------------------ MODULE Keyboard ------------------------------
(***************************************************************************)
(* What is typed: the PS/2 keyboard (x86/ps2_keyboard.c), the serial line  *)
(* (x86/serial.c), and get_char (kernel/LineInput.c), which kernel_main    *)
(* polls them with for ever.                                               *)
(*                                                                         *)
(* The keyboard and the line are external: people press and release keys   *)
(* and characters come in at any time, also between the steps of get_char; *)
(* both devices hold a few bytes and drop those that find no room.         *)
(***************************************************************************)
EXTENDS Integers, Sequences

CONSTANTS
  Plain,       \* keys with a character in ascii_table
  Alike,       \* those with the same character in shift_ascii_table, as the keypad's Enter
  Mute,        \* keys without: control, caps lock, function keys, cursor keys
  Extended,    \* keys that are sent with a prefix, of both kinds
  Navigation,  \* those of the cursor block
  Divide,      \* the keypad's "/": "/" with shift, too
  PrintScreen, \* its scancode is that of "*"
  Chars,       \* characters of the serial line; one is "\r"
  Depth,       \* bytes the keyboard holds
  LineDepth,   \* bytes the serial port holds
  MaxKeys,     \* bound: presses and releases
  MaxLine      \* bound: characters on the line

Shifts == {"left", "right"}
Keys == Shifts \cup Plain \cup Mute

\* Facts of the scancode set.
ASSUME KeyboardAssumption ==
  /\ (Plain \cup Mute) \cap (Shifts \cup {"prefix", "ack"}) = {} /\ Plain \cap Mute = {}
  /\ Extended \subseteq Plain \cup Mute /\ Alike \subseteq Plain
  /\ Navigation \cup Divide \cup PrintScreen \subseteq Extended
  /\ Navigation \subseteq Mute /\ PrintScreen \subseteq Alike /\ Divide \subseteq Plain \ Alike
  /\ "\r" \in Chars
  /\ Depth \in Nat \ {0} /\ LineDepth \in Nat \ {0} /\ MaxKeys \in Nat /\ MaxLine \in Nat

\* A scancode: the key, and the bit that tells a release from a press.  The prefix 0xE0
\* and the acknowledgement 0xFA have that bit and no key of their own.
Press(key) == [key |-> key, up |-> FALSE]
Release(key) == [key |-> key, up |-> TRUE]
Scancode == [key : Keys \cup {"prefix", "ack"}, up : BOOLEAN]

VARIABLES
  is_shift_pressed,
  at,          \* get_char before it looks at the "keyboard" or at the "serial" line
  queue,       \* scancodes the keyboard holds
  line,        \* characters the serial port holds
  down,        \* keys that are held
  num_lock,    \* of the keyboard, as the start left it: the kernel never sets it
  lost,        \* history: a scancode found no room
  mixed,       \* history: shift was held before the start or with the other shift, a key was
               \* typed while one with fake shifts was held, or a scancode was lost
  typed, got,  \* history: <<key, shifted>> that came in as scancodes, and from get_char
  sent, read,  \* history: characters that came in on the line, and from get_char
  events       \* presses and releases so far

keyboard == <<queue, down, num_lock, lost, mixed, typed, events>>
serial == <<line, sent>>
vars == <<is_shift_pressed, at, keyboard, serial, got, read>>

\* After keyboard_init: 0xF4 is answered with 0xFA; a shift key may be held.
Init ==
  /\ is_shift_pressed = FALSE /\ at = "keyboard"
  /\ queue = <<Release("ack")>> /\ line = <<>>
  /\ down \in {{}} \cup {{key} : key \in Shifts}
  /\ num_lock \in BOOLEAN /\ lost = FALSE /\ mixed = (down # {})
  /\ typed = <<>> /\ got = <<>> /\ sent = <<>> /\ read = <<>> /\ events = 0

-----------------------------------------------------------------------------
(***************************************************************************)
(* The devices.                                                            *)
(***************************************************************************)
ShiftHeld == down \cap Shifts # {}

\* The scancodes that find room come in.
Send(codes) ==
  LET room == Depth - Len(queue)
  IN  /\ queue' = queue \o SubSeq(codes, 1, IF Len(codes) < room THEN Len(codes) ELSE room)
      /\ lost' = (lost \/ Len(codes) > room)

\* Keys that mean the same whatever shift is: the keyboard sends fake scancodes of shift keys
\* around theirs, which take shift away or pretend it.
Faking == Navigation \cup Divide \cup PrintScreen
Lifting == Divide \cup IF num_lock THEN {} ELSE Navigation
Raising == PrintScreen \cup IF num_lock THEN Navigation ELSE {}

Fake(key, up) == <<Release("prefix"), [key |-> key, up |-> up]>>

\* The fake scancodes before a press, and those after the release, which take them back.
Fakes(key, back) ==
  LET lift(shift) == IF shift \in down THEN Fake(shift, ~back) ELSE <<>>
  IN  CASE key \in Lifting -> lift("left") \o lift("right")
        [] key \in Raising /\ ~ShiftHeld -> Fake("left", back)
        [] OTHER -> <<>>

Prefixed(code) == IF code.key \in Extended THEN <<Release("prefix"), code>> ELSE <<code>>

\* What the press of a key sends; when a key is held, repetitions come with the fake
\* scancodes or without.
PressCodes(key) ==
  {Fakes(key, FALSE) \o Prefixed(Press(key))}
    \cup IF key \in down THEN {Prefixed(Press(key))} ELSE {}

ReleaseCodes(key) == Prefixed(Release(key)) \o Fakes(key, TRUE)

\* Whether the character should be a shifted one.
Wanted(key) == ShiftHeld /\ key \notin Divide

PressKey(key) ==
  /\ events < MaxKeys /\ events' = events + 1
  /\ \E codes \in PressCodes(key) :
       /\ Send(codes)
       /\ typed' = IF key \in Plain /\ Len(queue) + Len(codes) <= Depth
                   THEN Append(typed, <<key, Wanted(key)>>) ELSE typed
  /\ down' = down \cup {key}
  /\ mixed' = (mixed \/ lost' \/ Shifts \subseteq down'
               \/ (key \in Plain \ Alike /\ down \cap Faking # {}))
  /\ UNCHANGED <<is_shift_pressed, at, num_lock, serial, got, read>>

ReleaseKey(key) ==
  /\ key \in down
  /\ events < MaxKeys /\ events' = events + 1
  /\ Send(ReleaseCodes(key))
  /\ down' = down \ {key}
  /\ mixed' = (mixed \/ lost')
  /\ UNCHANGED <<is_shift_pressed, at, num_lock, serial, typed, got, read>>

Arrive(c) ==
  /\ Len(sent) < MaxLine /\ Len(line) < LineDepth
  /\ line' = Append(line, c) /\ sent' = Append(sent, c)
  /\ UNCHANGED <<is_shift_pressed, at, keyboard, got, read>>

-----------------------------------------------------------------------------
(***************************************************************************)
(* get_char.                                                               *)
(***************************************************************************)
\* Mutant: a release gives a character, too.
IsCharacter_Release(code) == code.key \in Plain

\* ps2_kbd_keyboard_to_ascii: the scancodes that give a character,
IsCharacter(code) == code.key \in Plain /\ ~code.up

\* Mutant: releases of the right shift key are not known.
ShiftAfter_LeftOnly(code) ==
  IF code = Press("right") \/ code.key = "left" THEN ~code.up ELSE is_shift_pressed

\* Mutant: every release turns shift off.
ShiftAfter_AnyRelease(code) ==
  IF code.up THEN FALSE ELSE code.key \in Shifts \/ is_shift_pressed

\* and the shift key behind a scancode.
ShiftAfter(code) == IF code.key \in Shifts THEN ~code.up ELSE is_shift_pressed

\* Mutant: it waits until the keyboard has something.
PollKeyboard_Waits ==
  /\ at = "keyboard" /\ queue # <<>>
  /\ queue' = Tail(queue)
  /\ is_shift_pressed' = ShiftAfter(Head(queue))
  /\ IF IsCharacter(Head(queue))
     THEN got' = Append(got, <<Head(queue).key, is_shift_pressed>>) /\ at' = "keyboard"
     ELSE got' = got /\ at' = "serial"
  /\ UNCHANGED <<down, num_lock, lost, mixed, typed, events, serial, read>>

\* ps2_kbd_is_kbd_ready_to_read, ps2_kbd_keyboard_read_scancode_to_ascii_right_now: a
\* character is returned, else the serial line is next.
PollKeyboard ==
  /\ at = "keyboard"
  /\ \/ /\ queue = <<>> /\ at' = "serial"
        /\ UNCHANGED <<is_shift_pressed, queue, got>>
     \/ /\ queue # <<>>
        /\ queue' = Tail(queue)
        /\ is_shift_pressed' = ShiftAfter(Head(queue))
        /\ IF IsCharacter(Head(queue))
           THEN got' = Append(got, <<Head(queue).key, is_shift_pressed>>) /\ at' = "keyboard"
           ELSE got' = got /\ at' = "serial"
  /\ UNCHANGED <<down, num_lock, lost, mixed, typed, events, serial, read>>

\* serial_sane_control_codes
Sane(c) == IF c = "\r" THEN "\n" ELSE c

\* serial_received, read_serial_right_now; 0 is returned when nothing has come.
PollSerial ==
  /\ at = "serial" /\ at' = "keyboard"
  /\ \/ line = <<>> /\ UNCHANGED <<line, read>>
     \/ line # <<>> /\ line' = Tail(line) /\ read' = Append(read, Sane(Head(line)))
  /\ UNCHANGED <<is_shift_pressed, keyboard, sent, got>>

Next ==
  \/ \E key \in Keys : PressKey(key) \/ ReleaseKey(key)
  \/ \E c \in Chars : Arrive(c)
  \/ PollKeyboard
  \/ PollSerial

\* kernel_main calls get_char for ever.
Fairness == WF_vars(PollKeyboard) /\ WF_vars(PollSerial)

Spec == Init /\ [][Next]_vars /\ Fairness

-----------------------------------------------------------------------------
(***************************************************************************)
(* Properties.                                                             *)
(***************************************************************************)
Typed == Seq(Plain \X BOOLEAN)

\* Type correctness; a device holds no more than it has room for.
TypeOK ==
  /\ is_shift_pressed \in BOOLEAN /\ at \in {"keyboard", "serial"}
  /\ queue \in Seq(Scancode) /\ Len(queue) <= Depth
  /\ line \in Seq(Chars) /\ Len(line) <= LineDepth
  /\ down \subseteq Keys /\ num_lock \in BOOLEAN /\ lost \in BOOLEAN /\ mixed \in BOOLEAN
  /\ typed \in Typed /\ got \in Typed
  /\ sent \in Seq(Chars) /\ read \in Seq(Chars \cup {"\n"}) /\ events \in 0 .. MaxKeys

\* The scancodes in s that are presses of a key with a character.
Coming(s) == {i \in DOMAIN s : s[i].key \in Plain /\ ~s[i].up}

\* Every key that came in as a scancode gives its character once, in the order of typing,
\* whatever comes in between: what get_char returned is the beginning of what was typed,
\* and the rest is in the queue, each key at its place.  And so does the line, with "\n"
\* for "\r".  About get_char.
InOrder ==
  /\ \A i \in DOMAIN got : i \in DOMAIN typed /\ got[i][1] = typed[i][1]
  /\ \E place \in [Coming(queue) -> DOMAIN typed \ DOMAIN got] :
       /\ \A k \in DOMAIN typed \ DOMAIN got : \E i \in Coming(queue) : place[i] = k
       /\ \A i, j \in Coming(queue) : i < j => place[i] < place[j]
       /\ \A i \in Coming(queue) : typed[place[i]][1] = queue[i].key
  /\ [i \in DOMAIN sent |-> IF sent[i] = "\r" THEN "\n" ELSE sent[i]]
       = read \o [i \in DOMAIN line |-> IF line[i] = "\r" THEN "\n" ELSE line[i]]

\* A character is shifted exactly when a shift key was held as it was typed, fake scancodes
\* around other keys or not; but not after both shift keys were held, when the key was typed
\* while one with fake scancodes was held, or when a scancode was lost.  About
\* ps2_kbd_keyboard_to_ascii, which takes fake scancodes of shift keys for real ones.
ShiftedAsTyped == ~mixed => \A i \in DOMAIN got : got[i] = typed[i] \/ got[i][1] \in Alike

\* When no shift key is held, nor a key with which the keyboard pretends one, and every
\* scancode was read, shift is off: no fake scancode stays without the one that takes it back.
ShiftSettles ==
  queue = <<>> /\ ~lost /\ ~ShiftHeld /\ down \cap Raising = {} => ~is_shift_pressed

\* What was typed and what came in on the line is read sometime, when there is a pause.
AllArrives == <>[](queue = <<>> /\ line = <<>>)
=============================================================================
