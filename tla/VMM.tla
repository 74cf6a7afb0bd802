-------------------------------- MODULE VMM --------------------------------
(***************************************************************************)
(* The virtual memory manager (src/src/arch/x86/memory/vmm.cpp): it hands  *)
(* out runs of pages of a region of virtual addresses, backed by frames    *)
(* from the frame allocator and mapped in the page directory               *)
(* (src/src/arch/x86/paging/paging.cpp).                                   *)
(*                                                                         *)
(* The loops of find_free_range, alloc_pages and free_pages take one step  *)
(* per iteration.  The page directory is the function pte from the pages   *)
(* of the region to what their entries hold.  The processor's translation  *)
(* cache is external: at any moment it may load an entry that is present,  *)
(* and it drops what it has loaded only when CR3 is written.               *)
(***************************************************************************)
EXTENDS FrameAllocator

CONSTANTS
  VMM_TOTAL_PAGES,  \* pages of the region
  BitmapPages,      \* frames that VMM::init takes for its own bitmap
  PageRequests      \* values of num_pages that callers pass

ASSUME VmmAssumption ==
  /\ VMM_TOTAL_PAGES \in Nat \ {0}
  /\ BitmapPages \in Nat \ {0}
  /\ PageRequests \subseteq Nat

VARIABLES
  pages,         \* the pages whose bit in the VMM's bitmap is 1
  bitmap_start,  \* address of that bitmap
  pte,           \* page |-> the frame it is mapped to, or NotPresent
  tlb,           \* page |-> the frame the processor believes it is mapped to
  pc,            \* where the VMM is: see the actions
  i,             \* the index of the loop that is running
  count,         \* free pages in a row, in find_free_range
  start_idx,     \* first page of the run that is looked for, mapped or freed
  num_pages,     \* the parameter of the call that is running
  phys_addr,     \* frame of the page that free_pages is unmapping
  given,         \* the pages that callers hold
  out_of_memory  \* has alloc_frame ever failed?

vmmVars == <<pages, bitmap_start, pte, tlb, pc, i, count, start_idx, num_pages,
             phys_addr, given, out_of_memory>>
vars == <<frameVars, vmmVars>>

Pages == 0 .. VMM_TOTAL_PAGES - 1
NotPresent == -1
Run(first, n) == first .. first + n - 1

(* page_table[pte_idx] & ~0xFFF: an entry that is not present reads as 0. *)
FrameOf(entry) == IF entry = NotPresent THEN 0 ELSE entry

(* fa->alloc_frame(), which succeeds or returns 0 in ret. *)
AllocFrame ==
  \/ (\E f \in Scanned : alloc_frame(f)) /\ UNCHANGED out_of_memory
  \/ alloc_frame_fails /\ out_of_memory' = TRUE

-----------------------------------------------------------------------------
(***************************************************************************)
(* PageDirectory::init has cleared all entries.  VMM::init is about to run *)
(* and the memory it will use for its bitmap holds anything.               *)
(***************************************************************************)
Init ==
  /\ FrameAllocatorInit
  /\ pages \in {{}, Pages}
  /\ bitmap_start = 0
  /\ pte = [v \in Pages |-> NotPresent]
  /\ tlb = [v \in Pages |-> NotPresent]
  /\ pc = "init"
  /\ i = 0
  /\ count = 0
  /\ start_idx = 0
  /\ num_pages = 0
  /\ phys_addr = 0
  /\ given = {}
  /\ out_of_memory = FALSE

(* VMM::init: one frame after the other for the bitmap. *)
InitFrame ==
  /\ pc = "init"
  /\ i < BitmapPages
  /\ AllocFrame
  /\ bitmap_start' = IF i = 0 THEN ret' ELSE bitmap_start
  /\ i' = i + 1
  /\ UNCHANGED <<pages, pte, tlb, pc, count, start_idx, num_pages, phys_addr, given>>

(* VMM::init: the bitmap is zeroed. *)
InitDone ==
  /\ pc = "init"
  /\ i = BitmapPages
  /\ pages' = {}
  /\ pc' = "idle"
  /\ i' = 0
  /\ UNCHANGED <<frameVars, out_of_memory, bitmap_start, pte, tlb, count, start_idx,
                 num_pages, phys_addr, given>>

(* A call returns; its locals are gone. *)
Return ==
  /\ pc' = "idle"
  /\ i' = 0
  /\ count' = 0
  /\ start_idx' = 0
  /\ num_pages' = 0
  /\ phys_addr' = 0

(* alloc_pages(n) is called, and calls find_free_range(n). *)
AllocPages(n) ==
  /\ pc = "idle"
  /\ pc' = "scan"
  /\ num_pages' = n
  /\ UNCHANGED <<frameVars, out_of_memory, pages, bitmap_start, pte, tlb, i, count,
                 start_idx, phys_addr, given>>

(* Mutant: start_idx follows the scan instead of the run. *)
ScanFreeMovesStart ==
  /\ pc = "scan"
  /\ i < VMM_TOTAL_PAGES
  /\ i \notin pages
  /\ start_idx' = i
  /\ count' = count + 1
  /\ IF count' = num_pages
     THEN pc' = "map" /\ i' = 0
     ELSE pc' = pc /\ i' = i + 1
  /\ UNCHANGED <<frameVars, out_of_memory, pages, bitmap_start, pte, tlb, num_pages,
                 phys_addr, given>>

(* find_free_range: page i is free, and may complete the run. *)
ScanFree ==
  /\ pc = "scan"
  /\ i < VMM_TOTAL_PAGES
  /\ i \notin pages
  /\ start_idx' = IF count = 0 THEN i ELSE start_idx
  /\ count' = count + 1
  /\ IF count' = num_pages
     THEN pc' = "map" /\ i' = 0
     ELSE pc' = pc /\ i' = i + 1
  /\ UNCHANGED <<frameVars, out_of_memory, pages, bitmap_start, pte, tlb, num_pages,
                 phys_addr, given>>

(* Mutant: a used page does not end the run. *)
ScanUsedKeepsCount ==
  /\ pc = "scan"
  /\ i < VMM_TOTAL_PAGES
  /\ i \in pages
  /\ i' = i + 1
  /\ UNCHANGED <<frameVars, out_of_memory, pages, bitmap_start, pte, tlb, pc, count,
                 start_idx, num_pages, phys_addr, given>>

(* Mutant: the scan goes back to the first page. *)
ScanUsedRestarts ==
  /\ pc = "scan"
  /\ i < VMM_TOTAL_PAGES
  /\ i \in pages
  /\ count' = 0
  /\ i' = 0
  /\ UNCHANGED <<frameVars, out_of_memory, pages, bitmap_start, pte, tlb, pc, start_idx,
                 num_pages, phys_addr, given>>

(* find_free_range: page i is used; start counting again after it. *)
ScanUsed ==
  /\ pc = "scan"
  /\ i < VMM_TOTAL_PAGES
  /\ i \in pages
  /\ count' = 0
  /\ i' = i + 1
  /\ UNCHANGED <<frameVars, out_of_memory, pages, bitmap_start, pte, tlb, pc, start_idx,
                 num_pages, phys_addr, given>>

(* find_free_range found nothing: alloc_pages returns nullptr. *)
ScanFail ==
  /\ pc = "scan"
  /\ i = VMM_TOTAL_PAGES
  /\ Return
  /\ UNCHANGED <<frameVars, out_of_memory, pages, bitmap_start, pte, tlb, given>>

(* PageDirectory::map_range and unmap_range for one page. *)
map_range(v, frame) == pte' = [pte EXCEPT ![v] = frame]
unmap_range(v) == pte' = [pte EXCEPT ![v] = NotPresent]

(***************************************************************************)
(* alloc_pages: a frame for page i of the run.  What alloc_frame returned  *)
(* is mapped without being looked at, and map_range does not write CR3.    *)
(***************************************************************************)
MapPage ==
  /\ pc = "map"
  /\ i < num_pages
  /\ AllocFrame
  /\ map_range(start_idx + i, get_frame_number(ret'))
  /\ i' = i + 1
  /\ UNCHANGED <<pages, bitmap_start, tlb, pc, count, start_idx, num_pages, phys_addr,
                 given>>

(* Mutant: mark_used stops one page short. *)
MapDoneShort ==
  /\ pc = "map"
  /\ i = num_pages
  /\ pages' = pages \cup Run(start_idx, num_pages - 1)
  /\ given' = given \cup Run(start_idx, num_pages)
  /\ Return
  /\ UNCHANGED <<frameVars, out_of_memory, bitmap_start, pte, tlb>>

(* alloc_pages: the run is marked used and handed out. *)
MapDone ==
  /\ pc = "map"
  /\ i = num_pages
  /\ pages' = pages \cup Run(start_idx, num_pages)
  /\ given' = given \cup Run(start_idx, num_pages)
  /\ Return
  /\ UNCHANGED <<frameVars, out_of_memory, bitmap_start, pte, tlb>>

(* free_pages is called for n pages from first on, all of them held. *)
FreePages(first, n) ==
  /\ pc = "idle"
  /\ pc' = "unmap"
  /\ start_idx' = first
  /\ num_pages' = n
  /\ given' = given \ Run(first, n)
  /\ UNCHANGED <<frameVars, out_of_memory, pages, bitmap_start, pte, tlb, i, count,
                 phys_addr>>

(* free_pages reads the frame of page i; unmap_range clears the entry. *)
UnmapPage ==
  /\ pc = "unmap"
  /\ i < num_pages
  /\ phys_addr' = FrameOf(pte[start_idx + i])
  /\ unmap_range(start_idx + i)
  /\ pc' = "flush"
  /\ UNCHANGED <<frameVars, out_of_memory, pages, bitmap_start, tlb, i, count, start_idx,
                 num_pages, given>>

(* Mutant: unmap_range does not write CR3. *)
FlushTlbNot ==
  /\ pc = "flush"
  /\ pc' = "release"
  /\ UNCHANGED <<frameVars, out_of_memory, pages, bitmap_start, pte, tlb, i, count,
                 start_idx, num_pages, phys_addr, given>>

(* unmap_range writes CR3, and the processor forgets what it cached. *)
FlushTlb ==
  /\ pc = "flush"
  /\ tlb' = [v \in Pages |-> NotPresent]
  /\ pc' = "release"
  /\ UNCHANGED <<frameVars, out_of_memory, pages, bitmap_start, pte, i, count, start_idx,
                 num_pages, phys_addr, given>>

(* Mutant: the address that is freed is read after the entry was cleared. *)
ReleaseFrameLate ==
  /\ pc = "release"
  /\ free_frame(FrameOf(pte[start_idx + i]) * PAGE_SIZE)
  /\ i' = i + 1
  /\ pc' = "unmap"
  /\ UNCHANGED <<pages, bitmap_start, pte, tlb, count, start_idx, num_pages, phys_addr,
                 given, out_of_memory>>

(* free_pages: the frame goes back to the frame allocator. *)
ReleaseFrame ==
  /\ pc = "release"
  /\ free_frame(phys_addr * PAGE_SIZE)
  /\ i' = i + 1
  /\ pc' = "unmap"
  /\ UNCHANGED <<pages, bitmap_start, pte, tlb, count, start_idx, num_pages, phys_addr,
                 given, out_of_memory>>

(* free_pages: the run is marked free. *)
FreeDone ==
  /\ pc = "unmap"
  /\ i = num_pages
  /\ pages' = pages \ Run(start_idx, num_pages)
  /\ Return
  /\ UNCHANGED <<frameVars, out_of_memory, bitmap_start, pte, tlb, given>>

(* The processor caches the translation of a page. *)
CacheTranslation(v) ==
  /\ pte[v] # NotPresent
  /\ tlb[v] = NotPresent
  /\ tlb' = [tlb EXCEPT ![v] = pte[v]]
  /\ UNCHANGED <<frameVars, out_of_memory, pages, bitmap_start, pte, pc, i, count,
                 start_idx, num_pages, phys_addr, given>>

(* platform_init initialises the frame allocator before the VMM. *)
FrameAllocatorReady == FrameInit /\ UNCHANGED vmmVars

(* One step of the kernel's own code. *)
Step ==
  \/ FrameAllocatorReady
  \/ InitFrame
  \/ InitDone
  \/ ScanFree
  \/ ScanUsed
  \/ ScanFail
  \/ MapPage
  \/ MapDone
  \/ UnmapPage
  \/ FlushTlb
  \/ ReleaseFrame
  \/ FreeDone

Next ==
  \/ Step
  \/ \E n \in PageRequests : AllocPages(n)
  \/ \E first \in Pages, n \in PageRequests :
       Run(first, n) \subseteq given /\ FreePages(first, n)
  \/ \E v \in Pages : CacheTranslation(v)

Spec == Init /\ [][Next]_vars

(* The kernel is single-threaded and never preempted for good. *)
FairSpec == Spec /\ WF_vars(Step)

-----------------------------------------------------------------------------
(* Types of the variables. *)
TypeOK ==
  /\ FrameTypeOK
  /\ pages \subseteq Pages
  /\ bitmap_start \in Nat
  /\ pte \in [Pages -> Nat \cup {NotPresent}]
  /\ tlb \in [Pages -> Nat \cup {NotPresent}]
  /\ pc \in {"init", "idle", "scan", "map", "unmap", "flush", "release"}
  /\ i \in Nat
  /\ count \in Nat
  /\ start_idx \in Nat
  /\ num_pages \in Nat
  /\ phys_addr \in Nat
  /\ given \subseteq Pages
  /\ out_of_memory \in BOOLEAN

(***************************************************************************)
(* Between calls a page's bit is set exactly when its entry is present and *)
(* exactly when a caller holds it.                                         *)
(***************************************************************************)
UsedIffMapped ==
  pc = "idle" => /\ pages = {v \in Pages : pte[v] # NotPresent}
                 /\ pages = given

(* Pages whose entry is present, and those that have memory behind them: *)
(* 0 is what alloc_frame returns when it fails.                          *)
Present == {v \in Pages : pte[v] # NotPresent}
Backed == {v \in Present : pte[v] # 0}

(***************************************************************************)
(* What one caller writes to its pages no other caller sees in its own, as *)
(* long as memory lasts: at any iteration of any loop, two pages have the  *)
(* same frame, or a page has a frame that is not marked used, only if      *)
(* alloc_frame has failed before, and then only frame 0, which alloc_pages *)
(* maps for every page that it gets no memory for.  No other frame is ever *)
(* shared, also after frame 0 was given back and handed out.               *)
(***************************************************************************)
FramesNotShared ==
  \A v \in Present :
    \/ pte[v] \in used /\ \A w \in Present \ {v} : pte[w] # pte[v]
    \/ pte[v] = 0 /\ out_of_memory

(* Where the VMM's own bitmap lies: VMM::init takes adjacency for granted. *)
BitmapFrames == Run(get_frame_number(bitmap_start), BitmapPages)

(***************************************************************************)
(* No frame leaks: between calls what is held of the frame allocator is    *)
(* what backs a page, and the frames that VMM::init took.                  *)
(***************************************************************************)
NoFrameLeak ==
  pc = "idle" =>
    held \ {0} = {pte[v] : v \in Backed} \cup BitmapFrames

(***************************************************************************)
(* The processor never reaches a frame through a translation it should     *)
(* have forgotten: a cached frame is marked used, and no other page is     *)
(* backed by it.  free_pages must therefore flush before it frees.         *)
(***************************************************************************)
NoStaleTranslation ==
  \A v \in Pages : tlb[v] \notin {NotPresent, 0} =>
    /\ tlb[v] \in used
    /\ \A w \in Backed \ {v} : pte[w] # tlb[v]

(* A run of n free pages. *)
FreeRun(first, n) == n > 0 /\ Run(first, n) \subseteq Pages \ pages

(***************************************************************************)
(* find_free_range is first fit: the run it returns is free, no free run   *)
(* starts before it, and it gives up only when there is no free run at     *)
(* all.                                                                    *)
(***************************************************************************)
ScanIsFirstFit ==
  /\ pc = "map" => /\ FreeRun(start_idx, num_pages)
                   /\ \A v \in Pages : v < start_idx => ~FreeRun(v, num_pages)
  /\ (pc = "scan" /\ i = VMM_TOTAL_PAGES) => \A v \in Pages : ~FreeRun(v, num_pages)

(* Every call of alloc_pages or free_pages, and VMM::init, returns. *)
CallsReturn == pc # "idle" ~> pc = "idle"

(* The pages that callers hold are the cells of the abstract allocator. *)
Abstract == INSTANCE RangeAllocator WITH Cells <- Pages, held <- given

(***************************************************************************)
(* kmalloc_pages and kfree_pages implement the abstract allocator: a run   *)
(* that is handed out was held by nobody, and only the pages that a caller *)
(* gives back leave it.                                                    *)
(***************************************************************************)
ImplementsRangeAllocator == Abstract!Spec
=============================================================================
