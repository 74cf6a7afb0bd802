----------------------------- MODULE MCPlatform -----------------------------
(***************************************************************************)
(* Machines for TLC, with 32 pages of 4 bytes: low memory is pages 0 to 2, *)
(* the last two of them page directories, the page tables have pages 3 and *)
(* 4, the frame allocator's bitmap lies in page 5, and the kernel is       *)
(* linked at page 24.  The first half of what bootstrap_paging maps does   *)
(* not reach the end of the page tables, as the first 4 MB do not.  A      *)
(* machine's memory starts at 0 or just above low memory, ends anywhere    *)
(* below the kernel, and may go on above the 32-bit limit; an entry may be *)
(* reserved.                                                               *)
(***************************************************************************)
EXTENDS Platform

Entry(b, e, t) == [base |-> b, length |-> e - b, type |-> t]

LowMaps ==
  {<<Entry(b, e, 1)>> : b \in {0, 12}, e \in 48 .. 96}
    \cup {<<Entry(0, 9, 1), Entry(12, e, 1), Entry(e, e + 10, 2), Entry(128, h, 1)>> :
            e \in 48 .. 86, h \in {130, 160}}

(* Video memory above the kernel, at its end or not, and off the last page. *)
HighFramebuffers == {[base |-> b, size |-> s] : b \in {104, 115}, s \in 1 .. 9}

(* The memory of the frame allocator's bitmap before init. *)
Zeros == {{}}
=============================================================================
