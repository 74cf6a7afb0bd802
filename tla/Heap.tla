-------------------------------- MODULE Heap --------------------------------
(***************************************************************************)
(* The kernel heap (src/src/arch/x86/memory/heap.cpp): a first-fit         *)
(* allocator over one contiguous region, whose blocks form a linked list   *)
(* of headers stored in the region itself.                                 *)
(*                                                                         *)
(* Heap::alloc and Heap::free are loops over that list.  Every iteration   *)
(* of a loop is one action here, so that the state between two iterations  *)
(* can be reasoned about: pc says which loop is running and cur is its     *)
(* cursor.  Addresses and sizes are numbers of bytes.                      *)
(***************************************************************************)
EXTENDS Integers

CONSTANTS
  HeaderSize,  \* sizeof(BlockHeader)
  MIN_SPLIT,   \* least usable leftover that justifies a split
  HeapStart,   \* address of the first header, as Heap::init sets head
  TotalSize,   \* total_size, as Heap::init computes it
  SizeMod,     \* number of values of a uint32_t
  Requests     \* sizes that callers of kmalloc ask for

(***************************************************************************)
(* Heap::init hands over at least one page, which holds a header, below    *)
(* the top of the address space.                                           *)
(***************************************************************************)
ASSUME HeapAssumption ==
  /\ HeaderSize \in Nat \ {0}
  /\ MIN_SPLIT \in Nat
  /\ HeapStart \in Nat \ {0}
  /\ TotalSize \in Nat
  /\ TotalSize >= HeaderSize
  /\ SizeMod \in Nat
  /\ HeapStart + TotalSize + HeaderSize + MIN_SPLIT < SizeMod
  /\ Requests \subseteq 0 .. SizeMod - 1

VARIABLES
  blocks,  \* the headers in the list: address |-> [size, free, next]
  pc,      \* "idle", or the loop that is running: "alloc" or "free"
  cur,     \* that loop's cursor: block in alloc, current in free
  req,     \* the parameter size of alloc while it runs, 0 otherwise
  live     \* what callers hold: pointer |-> size they asked for

vars == <<blocks, pc, cur, req, live>>

Null == 0
HeapEnd == HeapStart + TotalSize
Blocks == DOMAIN blocks

(* One past the last byte of the block whose header is at b. *)
End(b) == b + HeaderSize + blocks[b].size

(* uint32_t arithmetic. *)
U32(n) == n % SizeMod

-----------------------------------------------------------------------------
(* Heap::init, steps 3 to 5: one free block spans the whole region. *)
Init ==
  /\ blocks = [b \in {HeapStart} |->
                 [size |-> TotalSize - HeaderSize, free |-> TRUE, next |-> Null]]
  /\ pc = "idle"
  /\ cur = Null
  /\ req = 0
  /\ live = [p \in {} |-> 0]

(* Mutants of the test: the size is forgotten, or must be exceeded. *)
FitsAnySize(b) == blocks[b].free
FitsLarger(b) == blocks[b].free /\ ~(blocks[b].size <= req)

(* The test of the walk in Heap::alloc. *)
Fits(b) == blocks[b].free /\ ~(blocks[b].size < req)

(* Mutant: the new header is not counted. *)
SplittableNoHeader(b) == blocks[b].size >= U32(req + MIN_SPLIT)

(* The test that the chosen block is worth splitting. *)
Splittable(b) == blocks[b].size >= U32(U32(req + HeaderSize) + MIN_SPLIT)

(* Heap::alloc(size) is called: block = head. *)
AllocCall(size) ==
  /\ pc = "idle"
  /\ pc' = "alloc"
  /\ cur' = HeapStart
  /\ req' = size
  /\ UNCHANGED <<blocks, live>>

(* The block is taken or too small: go on to the next one. *)
AllocSkip ==
  /\ pc = "alloc"
  /\ cur # Null
  /\ ~Fits(cur)
  /\ cur' = blocks[cur].next
  /\ UNCHANGED <<blocks, pc, req, live>>

(* alloc returns. *)
Return ==
  /\ pc' = "idle"
  /\ cur' = Null
  /\ req' = 0

(* The caller now holds block + 1. *)
Hold(p) == live' = [q \in DOMAIN live \cup {p} |-> IF q = p THEN req ELSE live[q]]

(* Mutant of the split: the new header is not counted. *)
AllocSplitNoHeader ==
  LET newBlock == cur + HeaderSize + req
  IN
  /\ pc = "alloc"
  /\ cur # Null
  /\ Fits(cur)
  /\ Splittable(cur)
  /\ blocks' = [b \in Blocks \cup {newBlock} |->
       IF b = cur THEN [size |-> req, free |-> FALSE, next |-> newBlock]
       ELSE IF b = newBlock
       THEN [size |-> blocks[cur].size - req, free |-> TRUE, next |-> blocks[cur].next]
       ELSE blocks[b]]
  /\ Hold(cur + HeaderSize)
  /\ Return

(* Carve req bytes out of the block; the rest becomes a free block. *)
AllocSplit ==
  LET newBlock == cur + HeaderSize + req
  IN
  /\ pc = "alloc"
  /\ cur # Null
  /\ Fits(cur)
  /\ Splittable(cur)
  /\ blocks' = [b \in Blocks \cup {newBlock} |->
       IF b = cur THEN [size |-> req, free |-> FALSE, next |-> newBlock]
       ELSE IF b = newBlock
       THEN [size |-> (blocks[cur].size - req) - HeaderSize,
             free |-> TRUE,
             next |-> blocks[cur].next]
       ELSE blocks[b]]
  /\ Hold(cur + HeaderSize)
  /\ Return

(* Mutant: the block that is used whole is not marked. *)
AllocWholeUnmarked ==
  /\ pc = "alloc"
  /\ cur # Null
  /\ Fits(cur)
  /\ ~Splittable(cur)
  /\ UNCHANGED blocks
  /\ Hold(cur + HeaderSize)
  /\ Return

(* Too small to split, but big enough: the whole block is used. *)
AllocWhole ==
  /\ pc = "alloc"
  /\ cur # Null
  /\ Fits(cur)
  /\ ~Splittable(cur)
  /\ blocks' = [blocks EXCEPT ![cur].free = FALSE]
  /\ Hold(cur + HeaderSize)
  /\ Return

(* The walk ended: return nullptr. *)
AllocFail ==
  /\ pc = "alloc"
  /\ cur = Null
  /\ Return
  /\ UNCHANGED <<blocks, live>>

(***************************************************************************)
(* Heap::free(ptr) for a pointer that the caller holds.  For nullptr it    *)
(* returns at once, which is a stuttering step.                            *)
(***************************************************************************)
FreeCall(ptr) ==
  /\ pc = "idle"
  /\ blocks' = [blocks EXCEPT ![ptr - HeaderSize].free = TRUE]
  /\ live' = [p \in DOMAIN live \ {ptr} |-> live[p]]
  /\ pc' = "free"
  /\ cur' = HeapStart
  /\ UNCHANGED req

(* Mutant: it is not looked at whether current is free. *)
MergeableIntoUsed(b) ==
  /\ blocks[b].next # Null
  /\ blocks[blocks[b].next].free

(* current and the block after it are both free. *)
Mergeable(b) ==
  /\ blocks[b].free
  /\ blocks[b].next # Null
  /\ blocks[blocks[b].next].free

(* Mutant: an if in place of the inner while. *)
FreeMergeOnce ==
  LET absorbed == blocks[cur].next
  IN
  /\ pc = "free"
  /\ cur # Null
  /\ Mergeable(cur)
  /\ blocks' = [b \in Blocks \ {absorbed} |->
       IF b = cur
       THEN [size |-> blocks[cur].size + (HeaderSize + blocks[absorbed].size),
             free |-> blocks[cur].free,
             next |-> blocks[absorbed].next]
       ELSE blocks[b]]
  /\ cur' = blocks[absorbed].next
  /\ UNCHANGED <<pc, req, live>>

(* The inner loop: current absorbs the block after it. *)
FreeMerge ==
  LET absorbed == blocks[cur].next
  IN
  /\ pc = "free"
  /\ cur # Null
  /\ Mergeable(cur)
  /\ blocks' = [b \in Blocks \ {absorbed} |->
       IF b = cur
       THEN [size |-> blocks[cur].size + (HeaderSize + blocks[absorbed].size),
             free |-> blocks[cur].free,
             next |-> blocks[absorbed].next]
       ELSE blocks[b]]
  /\ UNCHANGED <<pc, cur, req, live>>

(* Mutant: the outer loop does not advance. *)
FreeAdvanceNot ==
  /\ pc = "free"
  /\ cur # Null
  /\ ~Mergeable(cur)
  /\ UNCHANGED vars

(* The outer loop: advance. *)
FreeAdvance ==
  /\ pc = "free"
  /\ cur # Null
  /\ ~Mergeable(cur)
  /\ cur' = blocks[cur].next
  /\ UNCHANGED <<blocks, pc, req, live>>

FreeDone ==
  /\ pc = "free"
  /\ cur = Null
  /\ pc' = "idle"
  /\ UNCHANGED <<blocks, cur, req, live>>

(* One iteration of the loop that is running. *)
Step ==
  \/ AllocSkip
  \/ AllocSplit
  \/ AllocWhole
  \/ AllocFail
  \/ FreeMerge
  \/ FreeAdvance
  \/ FreeDone

Next ==
  \/ \E size \in Requests : AllocCall(size)
  \/ \E ptr \in DOMAIN live : FreeCall(ptr)
  \/ Step

Spec == Init /\ [][Next]_vars

(* The kernel is single-threaded: a loop that can take a step takes it. *)
FairSpec == Spec /\ WF_vars(Step)

-----------------------------------------------------------------------------
Header == [size : Nat, free : BOOLEAN, next : Nat]

(* Types of the variables. *)
TypeOK ==
  /\ Blocks \subseteq Nat
  /\ blocks \in [Blocks -> Header]
  /\ pc \in {"idle", "alloc", "free"}
  /\ cur \in Nat
  /\ req \in Nat
  /\ DOMAIN live \subseteq Nat
  /\ live \in [DOMAIN live -> Nat]
  /\ cur # Null => cur \in Blocks
  /\ pc = "idle" => cur = Null

(***************************************************************************)
(* The list tiles the region: it starts at head, every next pointer is the *)
(* address where the block ends, the last block ends with the region, and  *)
(* no block reaches into another.                                          *)
(***************************************************************************)
Tiled ==
  /\ HeapStart \in Blocks
  /\ \A b \in Blocks : HeapStart <= b /\ End(b) <= HeapEnd
  /\ \A b \in Blocks : End(b) # HeapEnd => End(b) \in Blocks
  /\ \A b \in Blocks :
       blocks[b].next = IF End(b) = HeapEnd THEN Null ELSE End(b)
  /\ \A b, c \in Blocks : b < c => End(b) <= c

(***************************************************************************)
(* A block is in use exactly when a caller holds its pointer, and it is at *)
(* least as large as the caller asked for: nothing that is held is free,   *)
(* and nothing that was given back stays in use.                           *)
(***************************************************************************)
UsedIffHeld ==
  /\ \A b \in Blocks : ~blocks[b].free <=> b + HeaderSize \in DOMAIN live
  /\ \A p \in DOMAIN live :
       /\ p - HeaderSize \in Blocks
       /\ live[p] <= blocks[p - HeaderSize].size

(* The bytes that kmalloc promised to the holder of p. *)
Bytes(p) == p .. p + live[p] - 1

(***************************************************************************)
(* What callers hold is theirs: the bytes promised for one pointer lie in  *)
(* the region, and belong to no header and to no other pointer, whatever   *)
(* sequence of allocs and frees led here.                                  *)
(***************************************************************************)
HeldAreDisjoint ==
  /\ \A p \in DOMAIN live : Bytes(p) \subseteq HeapStart .. HeapEnd - 1
  /\ \A p, q \in DOMAIN live : p # q => Bytes(p) \cap Bytes(q) = {}
  /\ \A p \in DOMAIN live : \A b \in Blocks :
       Bytes(p) \cap (b .. b + HeaderSize - 1) = {}

(***************************************************************************)
(* Between calls no two neighbouring blocks are both free: the single      *)
(* merge pass at the end of Heap::free finds them all, also when the freed *)
(* block had a free block on each side.                                    *)
(***************************************************************************)
Coalesced ==
  pc # "free" => \A b \in Blocks : ~Mergeable(b)

(***************************************************************************)
(* Once everything has been given back the heap is one free block again:   *)
(* no sequence of calls fragments it for good.                             *)
(***************************************************************************)
EmptyHeapIsWhole ==
  (pc = "idle" /\ DOMAIN live = {}) =>
    blocks = [b \in {HeapStart} |->
               [size |-> TotalSize - HeaderSize, free |-> TRUE, next |-> Null]]

(***************************************************************************)
(* Heap::alloc gives up only when no free block is large enough.           *)
(***************************************************************************)
FailsOnlyWhenNothingFits ==
  (pc = "alloc" /\ cur = Null) =>
    \A b \in Blocks : blocks[b].free => blocks[b].size < req

(***************************************************************************)
(* What the two loops have established about the blocks behind the cursor: *)
(* the merge pass has left no free neighbours there, and the search has    *)
(* found no block that fits.                                               *)
(***************************************************************************)
Behind(b) == cur = Null \/ b < cur

LoopInv ==
  /\ pc = "free" => \A b \in Blocks : Behind(b) => ~Mergeable(b)
  /\ pc # "free" => \A b \in Blocks : ~Mergeable(b)
  /\ pc = "alloc" => \A b \in Blocks : Behind(b) => ~Fits(b)

(* The inductive invariant of the heap. *)
HeapInv == TypeOK /\ Tiled /\ UsedIffHeld /\ LoopInv

(***************************************************************************)
(* While a pointer is held, no call by anybody else changes the size of    *)
(* its block.                                                              *)
(***************************************************************************)
HeldBlocksAreStable ==
  [][\A p \in DOMAIN live \cap DOMAIN live' :
       /\ live'[p] = live[p]
       /\ p - HeaderSize \in DOMAIN blocks'
       /\ blocks'[p - HeaderSize].size = blocks[p - HeaderSize].size]_vars

(* Every call of alloc or free returns. *)
CallsReturn == pc # "idle" ~> pc = "idle"

(* The bytes that callers hold are the cells of the abstract allocator. *)
Abstract == INSTANCE RangeAllocator WITH
  Cells <- HeapStart .. HeapEnd - 1,
  held  <- UNION {Bytes(p) : p \in DOMAIN live}

(***************************************************************************)
(* kmalloc and kfree implement the abstract allocator: Heap::alloc hands   *)
(* out a run of bytes that nobody holds, Heap::free takes back exactly one *)
(* such run, and no other iteration of their loops changes who holds what. *)
(***************************************************************************)
ImplementsRangeAllocator == Abstract!Spec
=============================================================================
