---------------------------- MODULE MCInterrupts ----------------------------
(***************************************************************************)
(* For TLC: kmain waits for three characters, the ring has room for two,   *)
(* and the timer, the clock and spurious interrupts come in between.       *)
(***************************************************************************)
EXTENDS Interrupts

Ascii == [sc \in 0 .. 7 |->
            CASE sc = 4 -> 97 [] sc = 5 -> 98 [] OTHER -> 0]

AsciiShift == [sc \in 0 .. 7 |->
                 CASE sc = 4 -> 65 [] sc = 5 -> 66 [] OTHER -> 0]
=============================================================================
