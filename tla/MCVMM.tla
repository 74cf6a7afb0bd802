-------------------------------- MODULE MCVMM --------------------------------
(***************************************************************************)
(* Four pages for TLC, over five usable frames of which three go to the    *)
(* VMM's bitmap: callers can get two pages with memory behind them and, in *)
(* the same call or in later ones, two without.                            *)
(***************************************************************************)
EXTENDS VMM

OneEntry == {<<[base |-> 0, length |-> 32, type |-> 1]>>}

(* The memory of the frame allocator's bitmap before init. *)
Zeros == {{}}
=============================================================================
