--------------------------- MODULE RangeAllocator ---------------------------
(***************************************************************************)
(* What every allocator of the kernel promises its callers, without saying *)
(* how: a request for n cells is answered with a run of n adjacent cells   *)
(* that nobody holds, or refused; cells come back in runs.  A cell is a    *)
(* byte for kmalloc (Heap) and a page for VMM::alloc_pages.                *)
(***************************************************************************)
EXTENDS Integers

CONSTANT Cells  \* the cells that may be handed out

VARIABLE held   \* the cells that callers hold

Runs == {lo .. hi : lo, hi \in Cells} \cap SUBSET Cells

Init == held = {}

(* A run that nobody holds is handed out. *)
Take ==
  \E run \in Runs :
    /\ run # {}
    /\ run \cap held = {}
    /\ held' = held \cup run

(* A run that is held comes back. *)
GiveBack ==
  \E run \in Runs :
    /\ run # {}
    /\ run \subseteq held
    /\ held' = held \ run

Next == Take \/ GiveBack

Spec == Init /\ [][Next]_held
=============================================================================
