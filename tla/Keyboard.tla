------------------------------ MODULE Keyboard ------------------------------
(***************************************************************************)
(* The keyboard driver (src/src/driver/keyboard/keyboard.cpp): the IRQ1    *)
(* handler turns scancodes into characters and puts them into a ring       *)
(* buffer, from which keyboard::read_char takes them.  Neither side checks *)
(* whether the ring is full.                                               *)
(*                                                                         *)
(* Scancodes are numbers; a release is the press plus KB_RELEASED.         *)
(***************************************************************************)
EXTENDS Integers, Sequences

CONSTANTS
  KB_BUFFER_SIZE,
  PosMod,           \* number of values of a uint32_t
  KB_RELEASED,
  SC_LSHIFT_PRESS,
  SC_RSHIFT_PRESS,
  SC_CTRL_PRESS,
  scancode_to_ascii,        \* scancode |-> character, 0 if there is none
  scancode_to_ascii_shift,
  MaxPending        \* bound: characters that are typed and not yet read

(***************************************************************************)
(* "must be power of 2 for easy wrapping": 2^32 is a multiple of it.  The  *)
(* tables have a character for every scancode of a press.                  *)
(***************************************************************************)
ASSUME KeyboardAssumption ==
  /\ KB_BUFFER_SIZE \in Nat \ {0}
  /\ PosMod \in Nat \ {0}
  /\ PosMod % KB_BUFFER_SIZE = 0
  /\ MaxPending \in Nat
  /\ MaxPending < PosMod
  /\ KB_RELEASED \in Nat
  /\ scancode_to_ascii \in [0 .. KB_RELEASED - 1 -> Nat]
  /\ scancode_to_ascii_shift \in [0 .. KB_RELEASED - 1 -> Nat]

VARIABLES
  buffer,      \* slot |-> character
  read_pos,
  write_pos,
  shift_held,
  ctrl_held,
  pending      \* what was typed and not yet read, oldest first

kbVars == <<buffer, read_pos, write_pos, shift_held, ctrl_held, pending>>

Scancodes == 0 .. 2 * KB_RELEASED - 1
SC_LSHIFT_RELEASE == SC_LSHIFT_PRESS + KB_RELEASED
SC_RSHIFT_RELEASE == SC_RSHIFT_PRESS + KB_RELEASED
SC_CTRL_RELEASE == SC_CTRL_PRESS + KB_RELEASED

(* The slot of the ring that a position stands for. *)
Slot(pos) == pos % KB_BUFFER_SIZE

-----------------------------------------------------------------------------
(* Static storage is zeroed, and Keyboard::init leaves the buffer alone. *)
KbInit ==
  /\ buffer = [s \in 0 .. KB_BUFFER_SIZE - 1 |-> 0]
  /\ read_pos = 0
  /\ write_pos = 0
  /\ shift_held = FALSE
  /\ ctrl_held = FALSE
  /\ pending = <<>>

(* Shift is pressed or released. *)
ShiftPress(scancode) ==
  /\ scancode \in {SC_LSHIFT_PRESS, SC_RSHIFT_PRESS}
  /\ shift_held' = TRUE
  /\ UNCHANGED <<buffer, read_pos, write_pos, ctrl_held, pending>>

ShiftRelease(scancode) ==
  /\ scancode \in {SC_LSHIFT_RELEASE, SC_RSHIFT_RELEASE}
  /\ shift_held' = FALSE
  /\ UNCHANGED <<buffer, read_pos, write_pos, ctrl_held, pending>>

(* Control is pressed or released. *)
Ctrl(scancode) ==
  /\ scancode \in {SC_CTRL_PRESS, SC_CTRL_RELEASE}
  /\ ctrl_held' = (scancode = SC_CTRL_PRESS)
  /\ UNCHANGED <<buffer, read_pos, write_pos, shift_held, pending>>

Modifiers == {SC_LSHIFT_PRESS, SC_RSHIFT_PRESS, SC_LSHIFT_RELEASE, SC_RSHIFT_RELEASE,
              SC_CTRL_PRESS, SC_CTRL_RELEASE}

(* What a scancode adds to the ring: 0, nothing, if it is a release. *)
Translate(scancode) ==
  IF scancode >= KB_RELEASED THEN 0
  ELSE IF shift_held THEN scancode_to_ascii_shift[scancode]
  ELSE scancode_to_ascii[scancode]

(* Releases, and keys without a character, are ignored. *)
Ignore(scancode) ==
  /\ scancode \notin Modifiers
  /\ Translate(scancode) = 0
  /\ UNCHANGED kbVars

(* Mutant: the position moves first. *)
BufferAfterMoving(scancode) ==
  /\ scancode \notin Modifiers
  /\ Translate(scancode) # 0
  /\ write_pos' = (write_pos + 1) % PosMod
  /\ buffer' = [buffer EXCEPT ![Slot(write_pos')] = Translate(scancode)]
  /\ pending' = Append(pending, Translate(scancode))
  /\ UNCHANGED <<read_pos, shift_held, ctrl_held>>

(* The character goes into the ring, whether or not there is room. *)
Buffer(scancode) ==
  /\ scancode \notin Modifiers
  /\ Translate(scancode) # 0
  /\ buffer' = [buffer EXCEPT ![Slot(write_pos)] = Translate(scancode)]
  /\ write_pos' = (write_pos + 1) % PosMod
  /\ pending' = Append(pending, Translate(scancode))
  /\ UNCHANGED <<read_pos, shift_held, ctrl_held>>

(* Keyboard::handle_interrupt, for the scancode that port 0x60 held. *)
handle_interrupt(scancode) ==
  \/ ShiftPress(scancode)
  \/ ShiftRelease(scancode)
  \/ Ctrl(scancode)
  \/ Ignore(scancode)
  \/ Buffer(scancode)

has_input == read_pos # write_pos

(***************************************************************************)
(* n calls of Keyboard::read_char in a row, none of which finds the ring   *)
(* empty.  The characters they return are Chars(n).                        *)
(***************************************************************************)
Available == (write_pos - read_pos) % PosMod

Chars(n) == [k \in 1 .. n |-> buffer[Slot((read_pos + k - 1) % PosMod)]]

(* Mutant: what is not asked for is dropped. *)
read_chars_drain(n) ==
  /\ n <= Available
  /\ read_pos' = write_pos
  /\ pending' = <<>>
  /\ UNCHANGED <<buffer, write_pos, shift_held, ctrl_held>>

read_chars(n) ==
  /\ n <= Available
  /\ read_pos' = (read_pos + n) % PosMod
  /\ pending' = SubSeq(pending, n + 1, Len(pending))
  /\ UNCHANGED <<buffer, write_pos, shift_held, ctrl_held>>

KbNext ==
  \/ \E scancode \in Scancodes :
       /\ Len(pending) < MaxPending
       /\ handle_interrupt(scancode)
  \/ has_input /\ read_chars(1)

KbSpec == KbInit /\ [][KbNext]_kbVars

-----------------------------------------------------------------------------
(***************************************************************************)
(* The ring is a queue as long as no more than KB_BUFFER_SIZE characters   *)
(* wait in it, also after it was overrun and read again, and also when the *)
(* positions wrap at 2^32: the next reads return what was typed, in order. *)
(* How many there are to read is right also while the ring is overrun:     *)
(* read_char never takes a full ring for an empty one.                     *)
(***************************************************************************)
RingHoldsPending ==
  /\ Available = Len(pending)
  /\ Len(pending) <= KB_BUFFER_SIZE => Chars(Len(pending)) = pending
=============================================================================
