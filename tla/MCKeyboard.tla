----------------------------- MODULE MCKeyboard -----------------------------
(***************************************************************************)
(* A ring of two characters for TLC, whose positions wrap at 8, and a      *)
(* keyboard of six keys: both shifts, control, the letters a and b, and a  *)
(* function key.                                                           *)
(***************************************************************************)
EXTENDS Keyboard

Ascii == [sc \in 0 .. 7 |->
            CASE sc = 4 -> 97 [] sc = 5 -> 98 [] OTHER -> 0]

AsciiShift == [sc \in 0 .. 7 |->
                 CASE sc = 4 -> 65 [] sc = 5 -> 66 [] OTHER -> 0]
=============================================================================
