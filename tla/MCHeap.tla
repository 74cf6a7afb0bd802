------------------------------- MODULE MCHeap -------------------------------
(* A small heap for TLC; the constants get their values in MCHeap.cfg. *)
EXTENDS Heap
=============================================================================
