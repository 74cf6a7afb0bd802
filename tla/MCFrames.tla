------------------------------ MODULE MCFrames ------------------------------
(***************************************************************************)
(* Memory maps for TLC, on a machine with 16 frames of 4 bytes: entries    *)
(* below, across and above the 32-bit limit (address 64), aligned or not,  *)
(* that overlap, and that are usable or reserved, in maps of up to two.    *)
(***************************************************************************)
EXTENDS FrameAllocator

Entries ==
  {[base |-> b, length |-> l, type |-> t] :
     <<b, l, t>> \in
       {<<0, 10, 1>>, <<0, 36, 1>>, <<16, 28, 1>>, <<22, 23, 1>>, <<30, 30, 1>>,
        <<16, 45, 1>>, <<40, 40, 1>>, <<64, 30, 1>>, <<84, 12, 1>>,
        <<24, 16, 2>>, <<50, 0, 1>>}}

SmallMaps == {<<>>} \cup {<<e>> : e \in Entries} \cup {<<e, f>> : e, f \in Entries}

(* The memory of the bitmap before init: all zeros, or all ones. *)
ZerosOrOnes == {{}, 0 .. 15}
=============================================================================
