----------------------------- MODULE VMMProofs -----------------------------
(***************************************************************************)
(* Proofs about VMM, for every number of pages, every sequence of calls    *)
(* and every memory map: also when the frame allocator runs out of frames. *)
(* FrameInv of FrameProofs is no invariant here, since free_pages gives    *)
(* frame 0 back for a page that alloc_pages mapped without memory; what    *)
(* these proofs use of the frame allocator is weaker and stated below.     *)
(***************************************************************************)
EXTENDS VMM, FrameProofs

(***************************************************************************)
(* What each loop has done so far: which entries are present, in terms of  *)
(* the VMM's own bitmap, and what callers hold.                            *)
(***************************************************************************)
Progress ==
  /\ pc = "init" => Present = {} /\ given = {} /\ i <= BitmapPages
  /\ pc \in {"idle", "scan"} => Present = pages /\ given = pages
  /\ pc \in {"init", "idle"} => count = 0 /\ start_idx = 0
  /\ pc = "idle" => i = 0
  /\ pc = "map" => /\ Present = pages \cup Run(start_idx, i)
                   /\ given = pages
                   /\ i <= num_pages
  /\ pc = "unmap" => /\ Present = pages \ Run(start_idx, i)
                     /\ i <= num_pages
  /\ pc \in {"flush", "release"} => /\ Present = pages \ Run(start_idx, i + 1)
                                    /\ i < num_pages
  /\ pc \in {"unmap", "flush", "release"} =>
       /\ Run(start_idx, num_pages) \subseteq pages
       /\ given = pages \ Run(start_idx, num_pages)

(***************************************************************************)
(* find_free_range: the last count pages before i are free, no run that    *)
(* starts before them is, and they are too few.                            *)
(***************************************************************************)
Scanning ==
  pc = "scan" =>
    /\ i <= VMM_TOTAL_PAGES
    /\ count <= i
    /\ count > 0 => start_idx = i - count
    /\ \A v \in Run(i - count, count) : v \notin pages
    /\ \A v \in Pages : v < i - count => ~FreeRun(v, num_pages)
    /\ num_pages = 0 \/ count < num_pages

(* The run that is mapped is the first that is free. *)
Found ==
  pc = "map" => /\ FreeRun(start_idx, num_pages)
                /\ \A v \in Pages : v < start_idx => ~FreeRun(v, num_pages)

(* The frame allocator was initialised before anything was taken from it. *)
ReadyFirst ==
  /\ ~ready => pc = "init" /\ i = 0 /\ held = {}

(* A frame other than 0 that a page has is used, and no other page has it. *)
Exclusive ==
  /\ \A v \in Backed : pte[v] \in used
  /\ \A v, w \in Backed : v # w => pte[v] # pte[w]

(* The frame that free_pages is about to give back is still used, and backs *)
(* no page any more.                                                        *)
InHand ==
  pc \in {"flush", "release"} /\ phys_addr # 0 =>
    /\ phys_addr \in used
    /\ \A w \in Backed : pte[w] # phys_addr

(* The processor caches only what the entries say, but for the page that *)
(* was just unmapped.                                                    *)
Cached ==
  \A v \in Pages : tlb[v] # NotPresent =>
    \/ tlb[v] = pte[v]
    \/ pc = "flush" /\ v = start_idx + i /\ tlb[v] = phys_addr

VmmInv ==
  /\ TypeOK
  /\ Progress
  /\ Scanning
  /\ Found
  /\ ReadyFirst
  /\ Exclusive
  /\ InHand
  /\ Cached

-----------------------------------------------------------------------------
(* The numbers that the steps below calculate with. *)
LEMMA Numbers ==
  ASSUME VmmInv
  PROVE  /\ VMM_TOTAL_PAGES \in Nat \ {0} /\ BitmapPages \in Nat \ {0}
         /\ i \in Nat /\ count \in Nat /\ start_idx \in Nat /\ num_pages \in Nat
         /\ Pages \subseteq Nat
         /\ pages \subseteq Pages /\ given \subseteq Pages
  BY VmmAssumption DEF VmmInv, TypeOK, Pages

(* The state that PageDirectory::init and the BIOS leave. *)
LEMMA InitEstablishesVmmInv == Init => VmmInv
  <1> SUFFICES ASSUME Init PROVE VmmInv
    OBVIOUS
  <1>1. FrameTypeOK /\ ~ready /\ held = {}
    BY InitEstablishesFrameInv DEF Init, FrameInv, FrameAllocatorInit
  <1>2. TypeOK
    BY <1>1 DEF Init, TypeOK
  <1>3. \A v \in Pages : pte[v] = NotPresent /\ tlb[v] = NotPresent
    BY DEF Init
  <1>4. Backed = {} /\ Present = {}
    BY <1>3 DEF Backed, Present
  <1>5. Progress
    BY <1>4, VmmAssumption DEF Init, Progress
  <1>6. Exclusive /\ InHand /\ Cached
    BY <1>3, <1>4 DEF Init, Exclusive, InHand, Cached
  <1> QED BY <1>1, <1>2, <1>5, <1>6 DEF Init, VmmInv, Scanning, Found, ReadyFirst

(***************************************************************************)
(* alloc_frame as the VMM sees it: what it returns is the address of a     *)
(* frame whose bit was 0 and is now 1, or 0.                               *)
(***************************************************************************)
LEMMA AllocFrameStep ==
  ASSUME TypeOK, AllocFrame
  PROVE  LET f == get_frame_number(ret') IN
         /\ FrameTypeOK'
         /\ ready /\ ready'
         /\ f \in Nat
         /\ \/ f \notin used /\ used' = used \cup {f} /\ held' = held \cup {f}
            \/ f = 0 /\ used' = used /\ held' = held
  <1>1. FrameTypeOK
    BY DEF TypeOK
  <1>2. CASE alloc_frame_fails
    <2>1. get_frame_number(0) = 0
      BY Room, QuotientOfMultiple DEF get_frame_number
    <2> QED BY <1>1, <1>2, <2>1 DEF alloc_frame_fails, FrameTypeOK
  <1>3. CASE \E f \in Scanned : alloc_frame(f)
    <2>1. PICK f \in Scanned : alloc_frame(f)
      BY <1>3
    <2>2. f \in Nat
      BY DEF Scanned
    <2>3. /\ ret' = f * PAGE_SIZE /\ used' = used \cup {f} /\ held' = held \cup {f}
          /\ f \notin used /\ ready /\ ready' = ready
          /\ UNCHANGED <<mmap, total_frames, bitmap_size>>
      BY <2>1 DEF alloc_frame
    <2>4. get_frame_number(ret') = f
      BY <2>2, <2>3, Room, QuotientOfMultiple DEF get_frame_number
    <2>5. ret' \in Nat
      BY <2>2, <2>3, Room
    <2> QED BY <1>1, <2>2, <2>3, <2>4, <2>5 DEF FrameTypeOK
  <1> QED BY <1>2, <1>3 DEF AllocFrame

(* As long as no call has failed, alloc_frame returns a frame that was not used. *)
LEMMA AllocFrameMemory ==
  ASSUME TypeOK, AllocFrame
  PROVE  /\ out_of_memory' \in BOOLEAN
         /\ out_of_memory' = FALSE => /\ out_of_memory = FALSE
                                     /\ get_frame_number(ret') \notin used
  <1>1. CASE alloc_frame_fails /\ out_of_memory' = TRUE
    BY <1>1
  <1>2. CASE (\E f \in Scanned : alloc_frame(f)) /\ UNCHANGED out_of_memory
    <2>1. PICK f \in Scanned : alloc_frame(f)
      BY <1>2
    <2>2. f \in Nat /\ ret' = f * PAGE_SIZE /\ f \notin used
      BY <2>1 DEF alloc_frame, Scanned
    <2>3. get_frame_number(ret') = f
      BY <2>2, Room, QuotientOfMultiple DEF get_frame_number
    <2>4. out_of_memory' = out_of_memory /\ out_of_memory \in BOOLEAN
      BY <1>2 DEF TypeOK
    <2> QED BY <2>2, <2>3, <2>4
  <1> QED BY <1>1, <1>2 DEF AllocFrame

(* Steps of the loops that change neither entries nor frames. *)
LEMMA EntriesUnchanged ==
  ASSUME Exclusive, UNCHANGED <<pte, used>>
  PROVE  Exclusive' /\ Present' = Present /\ Backed' = Backed
  <1>1. Present' = Present /\ Backed' = Backed
    BY DEF Present, Backed
  <1> QED BY <1>1 DEF Exclusive

(* FrameAllocator::init runs before VMM::init has taken anything. *)
LEMMA FrameAllocatorReadyInv ==
  ASSUME VmmInv, FrameAllocatorReady
  PROVE  VmmInv'
  <1>1. ~ready /\ ready' /\ UNCHANGED vmmVars /\ FrameInit
    BY DEF FrameAllocatorReady, FrameInit
  <1>2. pc = "init" /\ i = 0 /\ held = {} /\ Present = {} /\ pc' = "init"
    BY <1>1 DEF VmmInv, ReadyFirst, Progress, vmmVars
  <1>3. FrameInv
    BY <1>1, <1>2 DEF VmmInv, TypeOK, FrameInv, NothingHeldBeforeInit, ReservedStayUsed,
                      FramesConserved
  <1>4. FrameTypeOK'
    BY <1>1, <1>3, FrameInitEstablishes DEF FrameInv
  <1>5. TypeOK'
    BY <1>1, <1>4 DEF VmmInv, TypeOK, vmmVars
  <1>6. Present' = {} /\ Backed' = {}
    BY <1>1, <1>2 DEF Present, Backed, vmmVars
  <1>7. Progress'
    BY <1>1, <1>2, <1>6 DEF VmmInv, Progress, vmmVars
  <1>8. Exclusive' /\ InHand' /\ Cached'
    BY <1>1, <1>2, <1>6 DEF VmmInv, Exclusive, InHand, Cached, vmmVars
  <1> QED BY <1>1, <1>2, <1>5, <1>7, <1>8 DEF VmmInv, Scanning, Found, ReadyFirst

(* VMM::init takes a frame for its bitmap. *)
LEMMA InitFrameInv ==
  ASSUME VmmInv, InitFrame
  PROVE  VmmInv'
  <1>1. /\ pc = "init" /\ pc' = "init" /\ i < BitmapPages /\ i' = i + 1 /\ Present = {}
        /\ UNCHANGED <<pages, pte, tlb, count, start_idx, num_pages, phys_addr, given>>
        /\ bitmap_start' \in {ret', bitmap_start}
    BY DEF VmmInv, InitFrame, Progress
  <1>2. FrameTypeOK' /\ ready' /\ out_of_memory' \in BOOLEAN
    BY AllocFrameStep, AllocFrameMemory DEF VmmInv, InitFrame
  <1>3. TypeOK'
    BY <1>1, <1>2 DEF VmmInv, TypeOK, FrameTypeOK
  <1>4. Present' = {} /\ Backed' = {}
    BY <1>1 DEF Present, Backed
  <1>5. Progress'
    BY <1>1, <1>4, Numbers DEF VmmInv, Progress
  <1>6. Exclusive' /\ InHand' /\ Cached'
    BY <1>1, <1>4 DEF VmmInv, Exclusive, InHand, Cached
  <1> QED BY <1>1, <1>2, <1>3, <1>5, <1>6 DEF VmmInv, Scanning, Found, ReadyFirst

(* VMM::init is done. *)
LEMMA InitDoneInv ==
  ASSUME VmmInv, InitDone
  PROVE  VmmInv'
  <1>1. /\ pc = "init" /\ pc' = "idle" /\ i = BitmapPages /\ i' = 0 /\ pages' = {}
        /\ Present = {} /\ given = {}
        /\ UNCHANGED <<frameVars, out_of_memory, bitmap_start, pte, tlb, count,
                       start_idx, num_pages, phys_addr, given>>
    BY DEF VmmInv, InitDone, Progress
  <1>2. ready
    BY <1>1, Numbers DEF VmmInv, ReadyFirst
  <1>3. Exclusive' /\ Present' = {}
    BY <1>1, EntriesUnchanged DEF VmmInv, frameVars
  <1>4. TypeOK'
    BY <1>1 DEF VmmInv, TypeOK, FrameTypeOK, frameVars
  <1> QED BY <1>1, <1>2, <1>3, <1>4
          DEF VmmInv, frameVars, Progress, Scanning, Found, ReadyFirst, InHand, Cached

(* What a step must keep when it changes neither entries nor frames. *)
LEMMA RestUnchanged ==
  ASSUME VmmInv, ready, UNCHANGED <<frameVars, out_of_memory, pte, tlb>>, pc # "flush",
         pc' \in {"idle", "scan", "map", "unmap"},
         pages' \subseteq Pages, given' \subseteq Pages, bitmap_start' = bitmap_start,
         i' \in Nat, count' \in Nat, start_idx' \in Nat, num_pages' \in Nat,
         phys_addr' \in Nat
  PROVE  /\ TypeOK' /\ ReadyFirst' /\ Exclusive' /\ InHand' /\ Cached'
         /\ Present' = Present
  <1>1. Exclusive' /\ Present' = Present
    BY EntriesUnchanged DEF VmmInv, frameVars
  <1>2. TypeOK'
    BY DEF VmmInv, TypeOK, FrameTypeOK, frameVars
  <1> QED BY <1>1, <1>2 DEF VmmInv, frameVars, ReadyFirst, InHand, Cached

(* alloc_pages is called. *)
LEMMA AllocPagesInv ==
  ASSUME VmmInv, NEW n \in PageRequests, AllocPages(n)
  PROVE  VmmInv'
  <1>1. /\ pc = "idle" /\ pc' = "scan" /\ num_pages' = n /\ n \in Nat
        /\ i = 0 /\ count = 0
        /\ UNCHANGED <<frameVars, out_of_memory, pages, bitmap_start, pte, tlb, i,
                       count, start_idx, phys_addr, given>>
    BY VmmAssumption DEF VmmInv, AllocPages, Progress
  <1>2. ready /\ phys_addr \in Nat
    BY <1>1 DEF VmmInv, ReadyFirst, TypeOK
  <1>3. /\ TypeOK' /\ ReadyFirst' /\ Exclusive' /\ InHand' /\ Cached'
        /\ Present' = Present
    BY <1>1, <1>2, Numbers, RestUnchanged
  <1>4. Progress' /\ Found'
    BY <1>1, <1>3 DEF VmmInv, Progress, Found
  <1>5. Scanning'
    <2>1. Run(i - count, count)' = {}
      BY <1>1 DEF Run
    <2>2. \A v \in Pages : ~(v < 0)
      BY DEF Pages
    <2> QED BY <1>1, <2>1, <2>2, Numbers DEF Scanning
  <1> QED BY <1>3, <1>4, <1>5 DEF VmmInv

(* find_free_range looks at a page that is free. *)
LEMMA ScanFreeInv ==
  ASSUME VmmInv, ScanFree
  PROVE  VmmInv'
  <1>1. /\ pc = "scan" /\ i < VMM_TOTAL_PAGES /\ i \notin pages
        /\ start_idx' = (IF count = 0 THEN i ELSE start_idx) /\ count' = count + 1
        /\ UNCHANGED <<frameVars, out_of_memory, pages, bitmap_start, pte, tlb,
                       num_pages, phys_addr, given>>
    BY DEF ScanFree
  <1>2. /\ count <= i /\ (count > 0 => start_idx = i - count)
        /\ \A v \in Run(i - count, count) : v \notin pages
        /\ \A v \in Pages : v < i - count => ~FreeRun(v, num_pages)
        /\ num_pages = 0 \/ count < num_pages
        /\ ready /\ Present = pages /\ given = pages /\ phys_addr \in Nat
    BY <1>1 DEF VmmInv, Scanning, ReadyFirst, Progress, TypeOK
  <1>3. start_idx' = i - count /\ start_idx' \in Nat
    BY <1>1, <1>2, Numbers
  <1>4. \A v \in Run(i - count, count + 1) : v \notin pages /\ v \in Pages
    BY <1>1, <1>2, Numbers DEF Run, Pages
  <1>5. \A v, n : FreeRun(v, n)' <=> FreeRun(v, n)
    BY <1>1 DEF FreeRun
  <1>6. CASE count + 1 = num_pages
    <2>1. pc' = "map" /\ i' = 0
      BY <1>1, <1>6 DEF ScanFree
    <2>2. /\ TypeOK' /\ ReadyFirst' /\ Exclusive' /\ InHand' /\ Cached'
          /\ Present' = Present
      BY <1>1, <1>2, <1>3, <2>1, Numbers, RestUnchanged
    <2>3. Run(start_idx, i)' = {}
      BY <2>1, <1>3 DEF Run
    <2>4. FreeRun(start_idx, num_pages)'
      BY <1>1, <1>3, <1>4, <1>6, Numbers DEF FreeRun
    <2>5. Found'
      BY <1>1, <1>2, <1>3, <1>5, <2>4 DEF Found
    <2>6. Progress'
      BY <1>1, <1>2, <2>1, <2>2, <2>3, Numbers DEF Progress
    <2> QED BY <2>1, <2>2, <2>5, <2>6 DEF VmmInv, Scanning
  <1>7. CASE count + 1 # num_pages
    <2>1. pc' = "scan" /\ i' = i + 1
      BY <1>1, <1>7 DEF ScanFree
    <2>2. /\ TypeOK' /\ ReadyFirst' /\ Exclusive' /\ InHand' /\ Cached'
          /\ Present' = Present
      BY <1>1, <1>2, <1>3, <2>1, Numbers, RestUnchanged
    <2>3. i' - count' = i - count
      BY <1>1, <2>1, Numbers
    <2>4. Scanning'
      BY <1>1, <1>2, <1>3, <1>4, <1>5, <1>7, <2>1, <2>3, Numbers DEF Scanning
    <2>5. Progress'
      BY <1>1, <1>2, <2>1, <2>2 DEF Progress
    <2> QED BY <2>1, <2>2, <2>4, <2>5 DEF VmmInv, Found
  <1> QED BY <1>6, <1>7

(* find_free_range looks at a page that is used: no run can contain it. *)
LEMMA ScanUsedInv ==
  ASSUME VmmInv, ScanUsed
  PROVE  VmmInv'
  <1>1. /\ pc = "scan" /\ pc' = "scan" /\ i < VMM_TOTAL_PAGES /\ i \in pages
        /\ count' = 0 /\ i' = i + 1
        /\ UNCHANGED <<frameVars, out_of_memory, pages, bitmap_start, pte, tlb,
                       start_idx, num_pages, phys_addr, given>>
    BY DEF ScanUsed
  <1>2. /\ count <= i
        /\ \A v \in Pages : v < i - count => ~FreeRun(v, num_pages)
        /\ num_pages = 0 \/ count < num_pages
        /\ ready /\ Present = pages /\ given = pages /\ phys_addr \in Nat
    BY <1>1 DEF VmmInv, Scanning, ReadyFirst, Progress, TypeOK
  <1>3. /\ TypeOK' /\ ReadyFirst' /\ Exclusive' /\ InHand' /\ Cached'
        /\ Present' = Present
    BY <1>1, <1>2, Numbers, RestUnchanged
  <1>4. \A v \in Pages : v < i + 1 => ~FreeRun(v, num_pages)
    <2> SUFFICES ASSUME NEW v \in Pages, v < i + 1, i - count <= v, FreeRun(v, num_pages)
                 PROVE  FALSE
      BY <1>2, Numbers
    <2>1. num_pages > 0 /\ i \notin Run(v, num_pages)
      BY <1>1 DEF FreeRun
    <2> QED BY <2>1, <1>2, Numbers DEF Run
  <1>5. Run(i - count, count)' = {}
    BY <1>1, Numbers DEF Run
  <1>6. \A v, n : FreeRun(v, n)' <=> FreeRun(v, n)
    BY <1>1 DEF FreeRun
  <1>7. Scanning'
    BY <1>1, <1>2, <1>4, <1>5, <1>6, Numbers DEF Scanning
  <1>8. Progress'
    BY <1>1, <1>2, <1>3 DEF Progress
  <1> QED BY <1>1, <1>3, <1>7, <1>8 DEF VmmInv, Found

(* find_free_range gives up. *)
LEMMA ScanFailInv ==
  ASSUME VmmInv, ScanFail
  PROVE  VmmInv'
  <1>1. /\ pc = "scan" /\ pc' = "idle" /\ i' = 0 /\ count' = 0 /\ start_idx' = 0
        /\ num_pages' = 0 /\ phys_addr' = 0
        /\ UNCHANGED <<frameVars, out_of_memory, pages, bitmap_start, pte, tlb, given>>
    BY DEF ScanFail, Return
  <1>2. ready /\ Present = pages /\ given = pages
    BY <1>1 DEF VmmInv, ReadyFirst, Progress
  <1>3. /\ TypeOK' /\ ReadyFirst' /\ Exclusive' /\ InHand' /\ Cached'
        /\ Present' = Present
    BY <1>1, <1>2, Numbers, RestUnchanged
  <1> QED BY <1>1, <1>2, <1>3 DEF VmmInv, Progress, Scanning, Found

(***************************************************************************)
(* alloc_pages maps page i of the run.  Its entry was not present, so that *)
(* nothing is cached for it, and the frame was not used, so that no other  *)
(* page has it.                                                            *)
(***************************************************************************)
LEMMA MapPageInv ==
  ASSUME VmmInv, MapPage
  PROVE  VmmInv'
  <1> DEFINE v0 == start_idx + i
             f == get_frame_number(ret')
  <1>1. /\ pc = "map" /\ pc' = "map" /\ i < num_pages /\ i' = i + 1 /\ AllocFrame
        /\ pte' = [pte EXCEPT ![v0] = f]
        /\ UNCHANGED <<pages, bitmap_start, tlb, count, start_idx, num_pages, phys_addr,
                       given>>
    BY DEF MapPage, map_range
  <1>2. /\ FrameTypeOK' /\ ready' /\ f \in Nat /\ out_of_memory' \in BOOLEAN
        /\ \/ f \notin used /\ used' = used \cup {f}
           \/ f = 0 /\ used' = used
    BY <1>1, AllocFrameStep, AllocFrameMemory DEF VmmInv
  <1> HIDE DEF f
  <1>3. /\ FreeRun(start_idx, num_pages)
        /\ Present = pages \cup Run(start_idx, i) /\ given = pages
        /\ \A v \in Pages : v < start_idx => ~FreeRun(v, num_pages)
    BY <1>1 DEF VmmInv, Progress, Found
  <1>4. v0 \in Pages /\ v0 \notin pages /\ v0 \notin Run(start_idx, i)
    BY <1>1, <1>3, Numbers DEF FreeRun, Run
  <1>5. pte[v0] = NotPresent /\ pte \in [Pages -> Nat \cup {NotPresent}]
    BY <1>3, <1>4 DEF Present, VmmInv, TypeOK
  <1>6. /\ pte'[v0] = f /\ pte' \in [Pages -> Nat \cup {NotPresent}]
        /\ \A v \in Pages : v # v0 => pte'[v] = pte[v]
    BY <1>1, <1>2, <1>4, <1>5
  <1>7. TypeOK'
    BY <1>1, <1>2, <1>6, Numbers DEF VmmInv, TypeOK
  <1>8. Present' = pages \cup Run(start_idx, i + 1)
    <2>1. f # NotPresent
      BY <1>2 DEF NotPresent
    <2>2. \A v \in Pages : v \in Present' <=> v \in Present \/ v = v0
      BY <2>1, <1>4, <1>6 DEF Present
    <2>3. \A v : v \in Run(start_idx, i + 1) <=> v \in Run(start_idx, i) \/ v = v0
      BY Numbers DEF Run
    <2>4. Run(start_idx, i + 1) \subseteq Pages
      BY <1>1, <1>3, Numbers DEF FreeRun, Run
    <2>5. Present' \subseteq Pages /\ Present \subseteq Pages
      BY DEF Present
    <2> QED BY <2>2, <2>3, <2>4, <2>5, <1>3, Numbers
  <1>9. Progress'
    <2>1. Run(start_idx, i)' = Run(start_idx, i + 1)
      BY <1>1 DEF Run
    <2> QED BY <1>1, <1>3, <1>8, <2>1, Numbers DEF Progress
  <1>10. Exclusive'
    <2>1. \A v \in Backed' : v # v0 => v \in Backed /\ pte'[v] = pte[v]
      BY <1>6 DEF Backed, Present
    <2>2. \A v \in Backed : pte[v] \in used
      BY DEF VmmInv, Exclusive
    <2>3. v0 \in Backed' => f # 0 /\ f \notin used /\ f \in used'
      BY <1>2, <1>6 DEF Backed, Present
    <2>4. used \subseteq used'
      BY <1>2
    <2> QED BY <2>1, <2>2, <2>3, <2>4, <1>6 DEF VmmInv, Exclusive
  <1>11. Cached'
    <2> SUFFICES ASSUME NEW v \in Pages, tlb[v] # NotPresent PROVE tlb[v] = pte'[v]
      BY <1>1 DEF Cached
    <2>1. tlb[v] = pte[v]
      BY <1>1 DEF VmmInv, Cached
    <2> QED BY <2>1, <1>5, <1>6
  <1>12. Found'
    <2>1. \A v, n : FreeRun(v, n)' <=> FreeRun(v, n)
      BY <1>1 DEF FreeRun
    <2> QED BY <1>1, <1>3, <2>1 DEF Found
  <1> QED BY <1>1, <1>2, <1>7, <1>9, <1>10, <1>11, <1>12
          DEF VmmInv, Scanning, ReadyFirst, InHand

(* alloc_pages hands the run out. *)
LEMMA MapDoneInv ==
  ASSUME VmmInv, MapDone
  PROVE  VmmInv'
  <1>1. /\ pc = "map" /\ pc' = "idle" /\ i = num_pages
        /\ i' = 0 /\ count' = 0 /\ start_idx' = 0 /\ num_pages' = 0 /\ phys_addr' = 0
        /\ pages' = pages \cup Run(start_idx, num_pages)
        /\ given' = given \cup Run(start_idx, num_pages)
        /\ UNCHANGED <<frameVars, out_of_memory, bitmap_start, pte, tlb>>
    BY DEF MapDone, Return
  <1>2. /\ ready /\ Present = pages \cup Run(start_idx, num_pages) /\ given = pages
        /\ Run(start_idx, num_pages) \subseteq Pages
    BY <1>1 DEF VmmInv, ReadyFirst, Progress, Found, FreeRun
  <1>3. /\ TypeOK' /\ ReadyFirst' /\ Exclusive' /\ InHand' /\ Cached'
        /\ Present' = Present
    BY <1>1, <1>2, Numbers, RestUnchanged
  <1> QED BY <1>1, <1>2, <1>3 DEF VmmInv, Progress, Scanning, Found

(* free_pages is called for pages that are held. *)
LEMMA FreePagesInv ==
  ASSUME VmmInv, NEW first \in Pages, NEW n \in PageRequests,
         Run(first, n) \subseteq given, FreePages(first, n)
  PROVE  VmmInv'
  <1>1. /\ pc = "idle" /\ pc' = "unmap" /\ start_idx' = first /\ num_pages' = n
        /\ given' = given \ Run(first, n) /\ n \in Nat /\ first \in Nat
        /\ UNCHANGED <<frameVars, out_of_memory, pages, bitmap_start, pte, tlb, i,
                       count, phys_addr>>
    BY VmmAssumption DEF FreePages, Pages
  <1>2. ready /\ Present = pages /\ given = pages /\ i = 0 /\ phys_addr \in Nat
    BY <1>1 DEF VmmInv, ReadyFirst, Progress, TypeOK
  <1>3. /\ TypeOK' /\ ReadyFirst' /\ Exclusive' /\ InHand' /\ Cached'
        /\ Present' = Present
    BY <1>1, <1>2, Numbers, RestUnchanged
  <1>4. Run(start_idx, i)' = {} /\ Run(start_idx, num_pages)' = Run(first, n)
    BY <1>1, <1>2 DEF Run
  <1>5. Progress'
    BY <1>1, <1>2, <1>3, <1>4 DEF Progress
  <1> QED BY <1>1, <1>3, <1>5 DEF VmmInv, Scanning, Found

(***************************************************************************)
(* free_pages clears an entry: the frame it read there is still used and   *)
(* backs no other page; the processor may still have it.                   *)
(***************************************************************************)
LEMMA UnmapPageInv ==
  ASSUME VmmInv, UnmapPage
  PROVE  VmmInv'
  <1> DEFINE v0 == start_idx + i
  <1>1. /\ pc = "unmap" /\ pc' = "flush" /\ i < num_pages
        /\ phys_addr' = FrameOf(pte[v0])
        /\ pte' = [pte EXCEPT ![v0] = NotPresent]
        /\ UNCHANGED <<frameVars, out_of_memory, pages, bitmap_start, tlb, i, count,
                       start_idx, num_pages, given>>
    BY DEF UnmapPage, unmap_range
  <1>2. /\ Present = pages \ Run(start_idx, i)
        /\ Run(start_idx, num_pages) \subseteq pages
        /\ given = pages \ Run(start_idx, num_pages)
        /\ ready
    BY <1>1 DEF VmmInv, Progress, ReadyFirst
  <1>3. v0 \in Run(start_idx, num_pages) /\ v0 \notin Run(start_idx, i)
    BY <1>1, Numbers DEF Run
  <1>4. v0 \in Pages /\ pte[v0] # NotPresent /\ pte \in [Pages -> Nat \cup {NotPresent}]
    BY <1>2, <1>3 DEF Present, VmmInv, TypeOK
  <1>5. phys_addr' = pte[v0] /\ phys_addr' \in Nat
    BY <1>1, <1>4 DEF FrameOf
  <1>6. /\ pte'[v0] = NotPresent /\ pte' \in [Pages -> Nat \cup {NotPresent}]
        /\ \A v \in Pages : v # v0 => pte'[v] = pte[v]
    BY <1>1, <1>4
  <1>7. TypeOK'
    BY <1>1, <1>5, <1>6 DEF VmmInv, TypeOK, FrameTypeOK, frameVars
  <1>8. Progress'
    <2>1. \A v \in Pages : v \in Present' <=> v \in Present /\ v # v0
      BY <1>6 DEF Present
    <2>2. \A v : v \in Run(start_idx, i + 1) <=> v \in Run(start_idx, i) \/ v = v0
      BY Numbers DEF Run
    <2>3. Present' \subseteq Pages /\ Present \subseteq Pages
      BY DEF Present
    <2>4. Present' = pages \ Run(start_idx, i + 1)
      BY <2>1, <2>2, <2>3, <1>2, Numbers
    <2>5. Run(start_idx, i + 1)' = Run(start_idx, i + 1)
          /\ Run(start_idx, num_pages)' = Run(start_idx, num_pages)
      BY <1>1 DEF Run
    <2> QED BY <1>1, <1>2, <2>4, <2>5 DEF Progress
  <1>9. \A v \in Backed' : v # v0 /\ v \in Backed /\ pte'[v] = pte[v]
    BY <1>6 DEF Backed, Present
  <1>10. Exclusive'
    BY <1>1, <1>9 DEF VmmInv, Exclusive, frameVars
  <1>11. InHand'
    <2> SUFFICES ASSUME phys_addr' # 0
                 PROVE  phys_addr' \in used' /\ \A w \in Backed' : pte'[w] # phys_addr'
      BY DEF InHand
    <2>1. v0 \in Backed
      BY <1>4, <1>5 DEF Backed, Present
    <2> QED BY <2>1, <1>1, <1>5, <1>9 DEF VmmInv, Exclusive, frameVars
  <1>12. Cached'
    <2> SUFFICES ASSUME NEW v \in Pages, tlb[v] # NotPresent
                 PROVE  tlb[v] = pte'[v] \/ (v = v0 /\ tlb[v] = phys_addr')
      BY <1>1 DEF Cached
    <2>1. tlb[v] = pte[v]
      BY <1>1 DEF VmmInv, Cached
    <2> QED BY <2>1, <1>5, <1>6
  <1> QED BY <1>1, <1>2, <1>7, <1>8, <1>10, <1>11, <1>12
          DEF VmmInv, Scanning, Found, ReadyFirst, frameVars

(* unmap_range writes CR3: nothing is cached any more. *)
LEMMA FlushTlbInv ==
  ASSUME VmmInv, FlushTlb
  PROVE  VmmInv'
  <1>1. /\ pc = "flush" /\ pc' = "release" /\ tlb' = [v \in Pages |-> NotPresent]
        /\ UNCHANGED <<frameVars, out_of_memory, pages, bitmap_start, pte, i, count,
                       start_idx, num_pages, phys_addr, given>>
    BY DEF FlushTlb
  <1>2. Exclusive' /\ Present' = Present /\ Backed' = Backed
    BY <1>1, EntriesUnchanged DEF VmmInv, frameVars
  <1>3. TypeOK'
    BY <1>1 DEF VmmInv, TypeOK, FrameTypeOK, frameVars
  <1>4. Progress'
    BY <1>1, <1>2 DEF VmmInv, Progress, Run
  <1>5. InHand' /\ Cached'
    BY <1>1, <1>2 DEF VmmInv, InHand, Cached, frameVars
  <1> QED BY <1>1, <1>2, <1>3, <1>4, <1>5
          DEF VmmInv, Scanning, Found, ReadyFirst, frameVars

(* free_frame: the frame that is given back backs no page and is not cached. *)
LEMMA ReleaseFrameInv ==
  ASSUME VmmInv, ReleaseFrame
  PROVE  VmmInv'
  <1>1. phys_addr \in Nat
    BY DEF VmmInv, TypeOK
  <1>2. get_frame_number(phys_addr * PAGE_SIZE) = phys_addr
    BY <1>1, Room, QuotientOfMultiple DEF get_frame_number
  <1>3. /\ pc = "release" /\ pc' = "unmap" /\ i' = i + 1
        /\ ready /\ ready' = ready /\ used' = used \ {phys_addr}
        /\ held' = held \ {phys_addr}
        /\ UNCHANGED <<mmap, total_frames, bitmap_size, ret>>
        /\ UNCHANGED <<pages, bitmap_start, pte, tlb, count, start_idx, num_pages,
                       phys_addr, given, out_of_memory>>
    BY <1>2 DEF ReleaseFrame, free_frame
  <1>4. TypeOK'
    BY <1>3, Numbers DEF VmmInv, TypeOK, FrameTypeOK
  <1>5. Present' = Present /\ Backed' = Backed
    BY <1>3 DEF Present, Backed
  <1>6. Exclusive'
    <2>1. \A v \in Backed : pte[v] # phys_addr
      BY <1>3 DEF VmmInv, InHand, Backed, Present
    <2> QED BY <1>3, <1>5, <2>1 DEF VmmInv, Exclusive
  <1>7. Progress'
    <2>1. Run(start_idx, i)' = Run(start_idx, i + 1)
          /\ Run(start_idx, num_pages)' = Run(start_idx, num_pages)
      BY <1>3 DEF Run
    <2> QED BY <1>3, <1>5, <2>1, Numbers DEF VmmInv, Progress
  <1>8. Cached'
    BY <1>3 DEF VmmInv, Cached
  <1> QED BY <1>3, <1>4, <1>6, <1>7, <1>8 DEF VmmInv, Scanning, Found, ReadyFirst, InHand

(* free_pages marks the run free. *)
LEMMA FreeDoneInv ==
  ASSUME VmmInv, FreeDone
  PROVE  VmmInv'
  <1>1. /\ pc = "unmap" /\ pc' = "idle" /\ i = num_pages
        /\ i' = 0 /\ count' = 0 /\ start_idx' = 0 /\ num_pages' = 0 /\ phys_addr' = 0
        /\ pages' = pages \ Run(start_idx, num_pages)
        /\ UNCHANGED <<frameVars, out_of_memory, bitmap_start, pte, tlb, given>>
    BY DEF FreeDone, Return
  <1>2. /\ ready /\ Present = pages \ Run(start_idx, num_pages)
        /\ given = pages \ Run(start_idx, num_pages)
    BY <1>1 DEF VmmInv, ReadyFirst, Progress
  <1>3. /\ TypeOK' /\ ReadyFirst' /\ Exclusive' /\ InHand' /\ Cached'
        /\ Present' = Present
    BY <1>1, <1>2, Numbers, RestUnchanged
  <1> QED BY <1>1, <1>2, <1>3 DEF VmmInv, Progress, Scanning, Found

(* The processor caches a translation: the one that the entry holds. *)
LEMMA CacheTranslationInv ==
  ASSUME VmmInv, NEW v \in Pages, CacheTranslation(v)
  PROVE  VmmInv'
  <1>1. /\ tlb' = [tlb EXCEPT ![v] = pte[v]]
        /\ UNCHANGED <<frameVars, out_of_memory, pages, bitmap_start, pte, pc, i, count,
                       start_idx, num_pages, phys_addr, given>>
    BY DEF CacheTranslation
  <1>2. tlb' \in [Pages -> Nat \cup {NotPresent}] /\ TypeOK'
    BY <1>1 DEF VmmInv, TypeOK, FrameTypeOK, frameVars
  <1>3. Exclusive' /\ Present' = Present /\ Backed' = Backed
    BY <1>1, EntriesUnchanged DEF VmmInv, frameVars
  <1>4. Cached'
    BY <1>1, <1>2 DEF VmmInv, TypeOK, Cached
  <1>5. Progress' /\ Scanning' /\ Found'
    BY <1>1, <1>3 DEF VmmInv, Progress, Scanning, Found, FreeRun, Run
  <1> QED BY <1>1, <1>2, <1>3, <1>4, <1>5 DEF VmmInv, ReadyFirst, InHand, frameVars

(* Every step keeps the invariant. *)
LEMMA StepPreservesVmmInv == VmmInv /\ [Next]_vars => VmmInv'
  <1> SUFFICES ASSUME VmmInv, [Next]_vars PROVE VmmInv'
    OBVIOUS
  <1>1. CASE Step
    BY <1>1, FrameAllocatorReadyInv, InitFrameInv, InitDoneInv, ScanFreeInv, ScanUsedInv,
       ScanFailInv, MapPageInv, MapDoneInv, UnmapPageInv, FlushTlbInv, ReleaseFrameInv,
       FreeDoneInv DEF Step
  <1>2. CASE \E n \in PageRequests : AllocPages(n)
    BY <1>2, AllocPagesInv
  <1>3. CASE \E first \in Pages, n \in PageRequests :
               Run(first, n) \subseteq given /\ FreePages(first, n)
    BY <1>3, FreePagesInv
  <1>4. CASE \E v \in Pages : CacheTranslation(v)
    BY <1>4, CacheTranslationInv
  <1>5. CASE UNCHANGED vars
    <2>1. UNCHANGED frameVars /\ UNCHANGED vmmVars
      BY <1>5 DEF vars
    <2>2. Exclusive' /\ Present' = Present /\ Backed' = Backed
      BY <2>1, EntriesUnchanged DEF VmmInv, vmmVars, frameVars
    <2>3. TypeOK' /\ ReadyFirst' /\ InHand' /\ Cached'
      BY <2>1, <2>2 DEF VmmInv, TypeOK, FrameTypeOK, ReadyFirst, InHand, Cached, vmmVars,
                        frameVars
    <2>4. Progress' /\ Scanning' /\ Found'
      BY <2>1, <2>2 DEF VmmInv, Progress, Scanning, Found, FreeRun, Run, vmmVars
    <2> QED BY <2>2, <2>3, <2>4 DEF VmmInv
  <1> QED BY <1>1, <1>2, <1>3, <1>4, <1>5 DEF Next

-----------------------------------------------------------------------------
(***************************************************************************)
(* The VMM keeps VmmInv: at every iteration of its loops the entries that  *)
(* are present are those that its bitmap and its progress say.             *)
(***************************************************************************)
THEOREM VmmCorrect == Spec => []VmmInv
  BY InitEstablishesVmmInv, StepPreservesVmmInv, PTL DEF Spec

(* The variables of alloc_pages and free_pages, the bitmap and the entries  *)
(* keep their types: no loop leaves the region of VMM_TOTAL_PAGES pages.     *)
THEOREM VmmTypes == Spec => []TypeOK
  <1>1. VmmInv => TypeOK
    BY DEF VmmInv
  <1> QED BY <1>1, VmmCorrect, PTL

(* Between calls of alloc_pages and free_pages a page's bit is set exactly *)
(* when its entry is present and exactly when a caller holds it.           *)
THEOREM VmmUsedIffMapped == Spec => []UsedIffMapped
  <1>1. VmmInv => UsedIffMapped
    BY DEF VmmInv, Progress, UsedIffMapped, Present
  <1> QED BY <1>1, VmmCorrect, PTL

-----------------------------------------------------------------------------
(***************************************************************************)
(* As long as alloc_frame has never failed, frame 0 is marked used, no     *)
(* page has it and free_pages does not give it back.                       *)
(***************************************************************************)
ZeroInv ==
  out_of_memory = FALSE =>
    /\ ready => 0 \in used
    /\ \A v \in Pages : pte[v] # 0
    /\ pc \in {"flush", "release"} => phys_addr # 0

(* The kernel stands on frame 0. *)
LEMMA ZeroIsCritical ==
  ASSUME FrameTypeOK
  PROVE  0 \in CriticalFrames
  <1>1. 0 < AddrMod \div PAGE_SIZE
    BY Room, BelowQuotient
  <1>2. bitmap_size \in Nat
    BY Room DEF FrameTypeOK
  <1>3. 0 * PAGE_SIZE < BITMAP_BASE + bitmap_size
    BY <1>2, Room
  <1> QED BY <1>1, <1>3, Room DEF CriticalFrames

(* FrameAllocator::init marks frame 0 used. *)
LEMMA FrameAllocatorReadyZero ==
  ASSUME VmmInv, ZeroInv, FrameAllocatorReady
  PROVE  ZeroInv'
  <1>1. ~ready /\ ready' /\ UNCHANGED vmmVars /\ FrameInit
    BY DEF FrameAllocatorReady, FrameInit
  <1>2. FrameInv
    BY <1>1 DEF VmmInv, ReadyFirst, TypeOK, FrameInv, NothingHeldBeforeInit,
                ReservedStayUsed, FramesConserved
  <1>3. FrameInv'
    BY <1>1, <1>2, FrameInitEstablishes
  <1>4. 0 \in CriticalFrames'
    <2>1. 0 < AddrMod \div PAGE_SIZE
      BY Room, BelowQuotient
    <2>2. bitmap_size' \in Nat
      BY <1>3, Room DEF FrameInv, FrameTypeOK
    <2>3. 0 * PAGE_SIZE = 0 /\ 0 < BITMAP_BASE /\ BITMAP_BASE \in Nat
      BY Room
    <2>4. 0 * PAGE_SIZE < BITMAP_BASE + bitmap_size'
      BY <2>2, <2>3
    <2> QED BY <2>1, <2>4, Room DEF CriticalFrames
  <1>5. 0 \in used'
    BY <1>1, <1>3, <1>4 DEF FrameInv, ReservedStayUsed
  <1> QED BY <1>1, <1>5 DEF ZeroInv, vmmVars

(* Every step keeps frame 0 out of the VMM's hands while memory lasts. *)
LEMMA StepPreservesZeroInv == VmmInv /\ ZeroInv /\ [Next]_vars => ZeroInv'
  <1> SUFFICES ASSUME VmmInv, ZeroInv, [Next]_vars PROVE ZeroInv'
    OBVIOUS
  <1>1. CASE FrameAllocatorReady
    BY <1>1, FrameAllocatorReadyZero
  <1>2. CASE InitFrame
    <2>1. ready /\ (used \subseteq used') /\ (out_of_memory' = FALSE => out_of_memory = FALSE)
      BY <1>2, AllocFrameStep, AllocFrameMemory DEF InitFrame, VmmInv
    <2> QED BY <1>2, <2>1 DEF InitFrame, ZeroInv
  <1>3. CASE MapPage
    <2> DEFINE v0 == start_idx + i
               f == get_frame_number(ret')
    <2>1. /\ ready /\ used \subseteq used' /\ (out_of_memory' = FALSE => out_of_memory = FALSE)
          /\ out_of_memory' = FALSE => f \notin used
      BY <1>3, AllocFrameStep, AllocFrameMemory DEF MapPage, VmmInv
    <2>2. pte' = [pte EXCEPT ![v0] = f] /\ pc' = "map"
      BY <1>3 DEF MapPage, map_range
    <2>3. out_of_memory' = FALSE => f # 0
      BY <2>1 DEF ZeroInv
    <2> HIDE DEF f, v0
    <2>4. \A v \in Pages : pte'[v] = pte[v] \/ pte'[v] = f
      BY <2>2 DEF VmmInv, TypeOK
    <2> QED BY <2>1, <2>2, <2>3, <2>4 DEF ZeroInv
  <1>4. CASE UnmapPage
    <2> DEFINE v0 == start_idx + i
    <2>1. /\ pc = "unmap" /\ i < num_pages /\ phys_addr' = FrameOf(pte[v0])
          /\ pte' = [pte EXCEPT ![v0] = NotPresent]
          /\ UNCHANGED <<frameVars, out_of_memory>>
      BY <1>4 DEF UnmapPage, unmap_range
    <2>2. v0 \in Pages /\ pte[v0] # NotPresent /\ pte \in [Pages -> Nat \cup {NotPresent}]
      <3>1. v0 \in Run(start_idx, num_pages) /\ v0 \notin Run(start_idx, i)
        BY <2>1, Numbers DEF Run
      <3> QED BY <2>1, <3>1 DEF VmmInv, Progress, Present, TypeOK
    <2>3. out_of_memory = FALSE => phys_addr' # 0
      BY <2>1, <2>2 DEF FrameOf, ZeroInv
    <2>4. \A v \in Pages : pte'[v] = pte[v] \/ pte'[v] = NotPresent
      BY <2>1, <2>2
    <2>5. NotPresent # 0
      BY DEF NotPresent
    <2> QED BY <2>1, <2>3, <2>4, <2>5 DEF ZeroInv, frameVars
  <1>5. CASE ReleaseFrame
    <2>1. phys_addr \in Nat
      BY DEF VmmInv, TypeOK
    <2>2. get_frame_number(phys_addr * PAGE_SIZE) = phys_addr
      BY <2>1, Room, QuotientOfMultiple DEF get_frame_number
    <2>3. /\ pc = "release" /\ pc' = "unmap" /\ used' = used \ {phys_addr}
          /\ UNCHANGED <<ready, pte, out_of_memory>>
      BY <1>5, <2>2 DEF ReleaseFrame, free_frame
    <2> QED BY <2>3 DEF ZeroInv
  <1>6. CASE InitDone \/ ScanFree \/ ScanUsed \/ ScanFail \/ MapDone \/ FlushTlb \/ FreeDone
             \/ (\E n \in PageRequests : AllocPages(n))
             \/ (\E first \in Pages, n \in PageRequests : FreePages(first, n))
             \/ (\E v \in Pages : CacheTranslation(v)) \/ UNCHANGED vars
    <2>1. /\ UNCHANGED <<frameVars, out_of_memory, pte>>
          /\ \/ pc' \notin {"flush", "release"}
             \/ pc \in {"flush", "release"} /\ phys_addr' = phys_addr
      BY <1>6 DEF InitDone, ScanFree, ScanUsed, ScanFail, MapDone, FlushTlb, FreeDone,
                  AllocPages, FreePages, Return, CacheTranslation, vars, vmmVars
    <2> QED BY <2>1 DEF ZeroInv, frameVars
  <1> QED BY <1>1, <1>2, <1>3, <1>4, <1>5, <1>6 DEF Next, Step

(***************************************************************************)
(* While alloc_frame has not failed, no two pages have the same frame and  *)
(* every page's frame is marked used: alloc_pages never maps a frame that  *)
(* another page has, and free_pages never frees one that a page still has. *)
(* Once it has failed the same holds of every frame but 0, the one that    *)
(* alloc_pages maps for each page that it gets no memory for.              *)
(***************************************************************************)
THEOREM VmmFramesNotShared == Spec => []FramesNotShared
  <1>1. Init => ZeroInv
    BY DEF Init, ZeroInv, FrameAllocatorInit, NotPresent
  <1>2. VmmInv /\ ZeroInv => FramesNotShared
    <2> SUFFICES ASSUME VmmInv, ZeroInv, NEW v \in Present, ~(pte[v] = 0 /\ out_of_memory)
                 PROVE  pte[v] \in used /\ \A w \in Present \ {v} : pte[w] # pte[v]
      BY DEF FramesNotShared
    <2>1. pte[v] # 0 /\ v \in Backed
      BY DEF VmmInv, TypeOK, ZeroInv, Backed, Present
    <2>2. ASSUME NEW w \in Present \ {v}, pte[w] = pte[v] PROVE FALSE
      <3>1. w \in Backed
        BY <2>1, <2>2 DEF Backed
      <3> QED BY <2>1, <2>2, <3>1 DEF VmmInv, Exclusive
    <2> QED BY <2>1, <2>2 DEF VmmInv, Exclusive
  <1> QED BY <1>1, <1>2, StepPreservesZeroInv, VmmCorrect, PTL DEF Spec

-----------------------------------------------------------------------------
(* unmap_range flushes before free_pages frees: the processor never reaches *)
(* a frame that was given back or that backs another page.                  *)
THEOREM VmmNoStaleTranslation == Spec => []NoStaleTranslation
  <1>1. VmmInv => NoStaleTranslation
    <2> SUFFICES ASSUME VmmInv, NEW v \in Pages, tlb[v] \notin {NotPresent, 0}
                 PROVE  tlb[v] \in used /\ \A w \in Backed \ {v} : pte[w] # tlb[v]
      BY DEF NoStaleTranslation
    <2>1. CASE tlb[v] = pte[v]
      <3>1. v \in Backed
        BY <2>1 DEF Backed, Present
      <3> QED BY <2>1, <3>1 DEF VmmInv, Exclusive
    <2>2. CASE pc = "flush" /\ tlb[v] = phys_addr
      BY <2>2 DEF VmmInv, InHand
    <2> QED BY <2>1, <2>2 DEF VmmInv, Cached
  <1> QED BY <1>1, VmmCorrect, PTL

(* find_free_range returns the first run of free pages that is long enough, *)
(* and gives up only when there is none.                                    *)
THEOREM VmmScanIsFirstFit == Spec => []ScanIsFirstFit
  <1>1. VmmInv => ScanIsFirstFit
    <2> SUFFICES ASSUME VmmInv PROVE ScanIsFirstFit
      OBVIOUS
    <2>1. ASSUME pc = "scan", i = VMM_TOTAL_PAGES, NEW v \in Pages, FreeRun(v, num_pages)
          PROVE  FALSE
      <3>1. /\ v >= i - count /\ num_pages > 0 /\ count < num_pages
            /\ Run(v, num_pages) \subseteq Pages
        BY <2>1, Numbers DEF VmmInv, Scanning, FreeRun
      <3>2. v + num_pages - 1 \in Run(v, num_pages)
        BY <3>1, Numbers DEF Run
      <3> QED BY <2>1, <3>1, <3>2, Numbers DEF Pages
    <2> QED BY <2>1 DEF VmmInv, Found, ScanIsFirstFit
  <1> QED BY <1>1, VmmCorrect, PTL

(***************************************************************************)
(* alloc_pages and free_pages implement the abstract allocator of runs of  *)
(* pages: mapping the last page of the run takes it, calling free_pages    *)
(* gives it back, and every other step leaves what is held alone.          *)
(***************************************************************************)
THEOREM VmmImplementsRangeAllocator == Spec => ImplementsRangeAllocator
  <1>1. Init => given = {}
    BY DEF Init
  <1>2. VmmInv /\ [Next]_vars => [Abstract!Next]_given
    <2> SUFFICES ASSUME VmmInv, [Next]_vars, given' # given PROVE Abstract!Next
      OBVIOUS
    <2>1. \A lo, n \in Nat : Run(lo, n) \subseteq Pages /\ Run(lo, n) # {} =>
                             Run(lo, n) \in Abstract!Runs
      <3> SUFFICES ASSUME NEW lo \in Nat, NEW n \in Nat, Run(lo, n) \subseteq Pages,
                          Run(lo, n) # {}
                   PROVE  Run(lo, n) \in Abstract!Runs
        OBVIOUS
      <3>1. lo \in Run(lo, n) /\ lo + n - 1 \in Run(lo, n)
        BY DEF Run
      <3> QED BY <3>1 DEF Run, Abstract!Runs
    <2>2. CASE MapDone
      <3> DEFINE run == Run(start_idx, num_pages)
      <3>1. /\ given' = given \cup run /\ given = pages
            /\ run \subseteq Pages \ pages
        BY <2>2 DEF MapDone, VmmInv, Progress, Found, FreeRun
      <3>2. run # {} /\ run \cap given = {} /\ run \in Abstract!Runs
        BY <2>1, <3>1, Numbers
      <3> QED BY <3>1, <3>2 DEF Abstract!Next, Abstract!Take
    <2>3. ASSUME NEW first \in Pages, NEW n \in PageRequests,
                 Run(first, n) \subseteq given, FreePages(first, n)
          PROVE  Abstract!Next
      <3>1. given' = given \ Run(first, n) /\ first \in Nat /\ n \in Nat
        BY <2>3, VmmAssumption DEF FreePages, Pages
      <3>2. Run(first, n) # {} /\ Run(first, n) \in Abstract!Runs
        BY <2>1, <2>3, <3>1, Numbers
      <3> QED BY <2>3, <3>1, <3>2 DEF Abstract!Next, Abstract!GiveBack
    <2>4. /\ Step /\ ~MapDone => given' = given
          /\ (\E n \in PageRequests : AllocPages(n)) => given' = given
          /\ (\E v \in Pages : CacheTranslation(v)) => given' = given
          /\ UNCHANGED vars => given' = given
      BY DEF Step, FrameAllocatorReady, InitFrame, InitDone, ScanFree, ScanUsed, ScanFail,
             MapPage, UnmapPage, FlushTlb, ReleaseFrame, FreeDone, AllocPages,
             CacheTranslation, vars, vmmVars
    <2> QED BY <2>2, <2>3, <2>4 DEF Next
  <1> QED BY <1>1, <1>2, VmmCorrect, PTL
          DEF Spec, ImplementsRangeAllocator, Abstract!Spec, Abstract!Init

-----------------------------------------------------------------------------
(***************************************************************************)
(* VMM::init takes for granted that the frames it gets lie side by side.   *)
(* They do when the lowest frames that the memory map offers do.           *)
(***************************************************************************)
LowFramesAdjacent ==
  ready => \E lo \in Pool : /\ Run(lo, BitmapPages) \subseteq Pool
                            /\ \A f \in Pool : lo <= f

(* The frames that back a page. *)
BackingFrames == {pte[v] : v \in Backed}

(* The frame of the page that free_pages is unmapping; 0 is none. *)
Unmapping == (IF pc \in {"flush", "release"} THEN {phys_addr} ELSE {}) \ {0}

(* VMM::init takes the lowest frames, one after the other. *)
TakingLowest ==
  pc = "init" => /\ FrameInv
                 /\ i = 0 => held = {}
                 /\ i > 0 => LET lo == get_frame_number(bitmap_start)
                             IN /\ held = Run(lo, i)
                                /\ lo \in Pool
                                /\ \A f \in Pool : lo <= f

(* After VMM::init, whoever holds a frame is known, and holds it alone. *)
Accounted ==
  pc # "init" => /\ 0 \notin BitmapFrames
                 /\ BitmapFrames \subseteq used
                 /\ BitmapFrames \cap (BackingFrames \cup Unmapping) = {}
                 /\ held \ {0} = BackingFrames \cup Unmapping \cup BitmapFrames

LeakInv == TakingLowest /\ Accounted

(* VMM::init gets the next frame after the ones it has. *)
LEMMA InitFrameLeak ==
  ASSUME VmmInv, LeakInv, LowFramesAdjacent, InitFrame
  PROVE  LeakInv'
  <1>1. /\ pc = "init" /\ pc' = "init" /\ i < BitmapPages /\ i' = i + 1 /\ AllocFrame
        /\ bitmap_start' = IF i = 0 THEN ret' ELSE bitmap_start
        /\ FrameInv /\ (i = 0 => held = {}) /\ i \in Nat /\ BitmapPages \in Nat \ {0}
    BY Numbers DEF InitFrame, LeakInv, TakingLowest
  <1>2. ready
    BY <1>1, AllocFrameStep DEF VmmInv
  <1>3. PICK lo \in Pool : Run(lo, BitmapPages) \subseteq Pool /\ \A f \in Pool : lo <= f
    BY <1>2 DEF LowFramesAdjacent
  <1>4. Pool \subseteq Nat
    BY DEF Pool, Scanned
  <1>5. held = Run(lo, i) /\ (i > 0 => get_frame_number(bitmap_start) = lo)
    <2>1. CASE i = 0
      <3>1. lo \in Nat
        BY <1>4
      <3>2. Run(lo, 0) = {}
        BY <3>1 DEF Run
      <3> QED BY <1>1, <2>1, <3>2
    <2>2. CASE i > 0
      <3> DEFINE b == get_frame_number(bitmap_start)
      <3>1. held = Run(b, i) /\ b \in Pool /\ \A f \in Pool : b <= f
        BY <1>1, <2>2 DEF LeakInv, TakingLowest
      <3> HIDE DEF b
      <3>2. b <= lo /\ lo <= b /\ b \in Nat /\ lo \in Nat
        BY <1>3, <1>4, <3>1
      <3>3. b = lo
        BY <3>2
      <3> QED BY <3>1, <3>3 DEF b
    <2> QED BY <1>1, <2>1, <2>2
  <1>6. Scanned \ used = Pool \ held
    BY <1>1, <1>2 DEF FrameInv, FramesConserved
  <1>7. lo + i \in Pool \ held
    <2>1. lo + i \in Run(lo, BitmapPages) /\ lo + i \notin Run(lo, i)
      BY <1>1, <1>3, <1>4 DEF Run
    <2> QED BY <1>3, <1>5, <2>1
  <1>8. PICK f \in Scanned : alloc_frame(f)
    BY <1>1, <1>6, <1>7 DEF AllocFrame, alloc_frame_fails
  <1>9. f = lo + i
    <2>1. f \in Pool \ held /\ f <= lo + i
      BY <1>6, <1>7, <1>8 DEF alloc_frame
    <2>2. f \in Nat /\ lo \in Nat /\ lo <= f /\ f \notin Run(lo, i)
      BY <1>3, <1>4, <1>5, <2>1
    <2> QED BY <1>1, <2>1, <2>2 DEF Run
  <1>10. FrameInv' /\ Pool' = Pool /\ held' = held \cup {lo + i} /\ ret' = (lo + i) * PAGE_SIZE
    BY <1>1, <1>8, <1>9, AllocPreserves, SetsUnchanged DEF alloc_frame
  <1>11. held' = Run(lo, i + 1)
    <2>1. lo \in Nat
      BY <1>3, <1>4
    <2>2. Run(lo, i + 1) = Run(lo, i) \cup {lo + i}
      BY <2>1, <1>1 DEF Run
    <2> QED BY <2>2, <1>5, <1>10
  <1>12. get_frame_number(bitmap_start') = lo
    <2>1. CASE i = 0
      <3>1. bitmap_start' = lo * PAGE_SIZE /\ lo \in Nat
        BY <1>1, <1>3, <1>4, <1>10, <2>1
      <3> QED BY <3>1, Room, QuotientOfMultiple DEF get_frame_number
    <2>2. CASE i # 0
      BY <1>1, <1>5, <2>2
    <2> QED BY <2>1, <2>2
  <1>13. i' > 0 /\ i' # 0
    BY <1>1
  <1> QED BY <1>1, <1>3, <1>10, <1>11, <1>12, <1>13 DEF LeakInv, TakingLowest, Accounted

(* When VMM::init is done, it holds its bitmap and nobody holds anything else. *)
LEMMA InitDoneLeak ==
  ASSUME VmmInv, LeakInv, InitDone
  PROVE  LeakInv'
  <1>1. /\ pc = "init" /\ pc' = "idle" /\ i = BitmapPages /\ i > 0 /\ ready
        /\ UNCHANGED <<frameVars, out_of_memory, bitmap_start, pte>>
    BY Numbers DEF InitDone, VmmInv, ReadyFirst
  <1>2. FrameInv /\ held = BitmapFrames
    BY <1>1 DEF LeakInv, TakingLowest, BitmapFrames
  <1>3. BackingFrames = {}
    BY <1>1 DEF VmmInv, Progress, Present, Backed, BackingFrames
  <1>4. held \subseteq used
    BY <1>1, <1>2 DEF FrameInv, FramesConserved, Pool
  <1>5. 0 \notin held
    <2>1. 0 \in CriticalFrames
      BY <1>2, ZeroIsCritical DEF FrameInv
    <2> QED BY <1>1, <1>2, <2>1 DEF FrameInv, ReservedStayUsed
  <1>6. BitmapFrames' = BitmapFrames /\ BackingFrames' = {} /\ Unmapping' = {}
    BY <1>1, <1>3 DEF BitmapFrames, BackingFrames, Backed, Present, Unmapping
  <1> QED BY <1>1, <1>2, <1>4, <1>5, <1>6 DEF LeakInv, TakingLowest, Accounted, frameVars

(* Steps that change neither entries nor frames. *)
LEMMA RestLeak ==
  ASSUME LeakInv, UNCHANGED <<frameVars, bitmap_start, pte>>, pc # "init", pc' # "init",
         Unmapping' = Unmapping
  PROVE  LeakInv'
  <1>1. BitmapFrames' = BitmapFrames /\ BackingFrames' = BackingFrames
    BY DEF BitmapFrames, BackingFrames, Backed, Present
  <1> QED BY <1>1 DEF LeakInv, TakingLowest, Accounted, frameVars

(* alloc_pages maps the frame that it got. *)
LEMMA MapPageLeak ==
  ASSUME VmmInv, LeakInv, MapPage
  PROVE  LeakInv'
  <1> DEFINE v0 == start_idx + i
             f == get_frame_number(ret')
  <1>1. /\ pc = "map" /\ pc' = "map" /\ i < num_pages /\ AllocFrame
        /\ pte' = [pte EXCEPT ![v0] = f] /\ bitmap_start' = bitmap_start
    BY DEF MapPage, map_range
  <1>2. /\ f \in Nat
        /\ \/ f \notin used /\ used' = used \cup {f} /\ held' = held \cup {f}
           \/ f = 0 /\ used' = used /\ held' = held
    BY <1>1, AllocFrameStep DEF VmmInv
  <1> HIDE DEF f
  <1>3. v0 \in Pages /\ pte[v0] = NotPresent /\ pte \in [Pages -> Nat \cup {NotPresent}]
    <2>1. v0 \in Pages /\ v0 \notin pages /\ v0 \notin Run(start_idx, i)
      BY <1>1, Numbers DEF VmmInv, Found, FreeRun, Run
    <2> QED BY <1>1, <2>1 DEF VmmInv, Progress, Present, TypeOK
  <1>4. BackingFrames' = BackingFrames \cup ({f} \ {0})
    <2>1. pte'[v0] = f /\ \A v \in Pages : v # v0 => pte'[v] = pte[v]
      BY <1>1, <1>3
    <2>2. f # NotPresent
      BY <1>2 DEF NotPresent
    <2>3. \A v \in Pages : v \in Backed' <=> (v \in Backed \/ (v = v0 /\ f # 0))
      BY <1>3, <2>1, <2>2 DEF Backed, Present
    <2>4. Backed \subseteq Pages /\ Backed' \subseteq Pages /\ v0 \notin Backed
      BY <1>3 DEF Backed, Present
    <2> HIDE DEF v0
    <2> QED BY <1>3, <2>1, <2>3, <2>4 DEF BackingFrames
  <1>5. BitmapFrames' = BitmapFrames /\ Unmapping' = {} /\ Unmapping = {}
    BY <1>1 DEF BitmapFrames, Unmapping
  <1> QED BY <1>1, <1>2, <1>4, <1>5 DEF LeakInv, TakingLowest, Accounted

(* free_pages has the frame of the entry that it cleared in its hand. *)
LEMMA UnmapPageLeak ==
  ASSUME VmmInv, LeakInv, UnmapPage
  PROVE  LeakInv'
  <1> DEFINE v0 == start_idx + i
  <1>1. /\ pc = "unmap" /\ pc' = "flush" /\ i < num_pages
        /\ phys_addr' = FrameOf(pte[v0])
        /\ pte' = [pte EXCEPT ![v0] = NotPresent]
        /\ UNCHANGED <<frameVars, out_of_memory, bitmap_start>>
    BY DEF UnmapPage, unmap_range
  <1>2. v0 \in Pages /\ pte[v0] # NotPresent /\ pte \in [Pages -> Nat \cup {NotPresent}]
    <2>1. v0 \in Run(start_idx, num_pages) /\ v0 \notin Run(start_idx, i)
      BY <1>1, Numbers DEF Run
    <2> QED BY <1>1, <2>1 DEF VmmInv, Progress, Present, TypeOK
  <1>3. phys_addr' = pte[v0] /\ Unmapping' = {pte[v0]} \ {0} /\ Unmapping = {}
    BY <1>1, <1>2 DEF FrameOf, Unmapping
  <1>4. BackingFrames' = BackingFrames \ Unmapping' /\ Unmapping' \subseteq BackingFrames
    <2>1. pte'[v0] = NotPresent /\ \A v \in Pages : v # v0 => pte'[v] = pte[v]
      BY <1>1, <1>2
    <2>2. \A v \in Pages : v \in Backed' <=> (v \in Backed /\ v # v0)
      BY <2>1 DEF Backed, Present
    <2>3. Backed \subseteq Pages /\ Backed' \subseteq Pages
          /\ (v0 \in Backed <=> pte[v0] # 0)
      BY <1>2 DEF Backed, Present
    <2>4. \A v, w \in Backed : v # w => pte[v] # pte[w]
      BY DEF VmmInv, Exclusive
    <2>5. \A v \in Backed : pte[v] # 0
      BY DEF Backed, Present
    <2> HIDE DEF v0
    <2> QED BY <1>3, <2>1, <2>2, <2>3, <2>4, <2>5 DEF BackingFrames
  <1>5. BitmapFrames' = BitmapFrames
    BY <1>1 DEF BitmapFrames
  <1> QED BY <1>1, <1>3, <1>4, <1>5 DEF LeakInv, TakingLowest, Accounted, frameVars

(* free_pages gives that frame back. *)
LEMMA ReleaseFrameLeak ==
  ASSUME VmmInv, LeakInv, ReleaseFrame
  PROVE  LeakInv'
  <1>1. phys_addr \in Nat
    BY DEF VmmInv, TypeOK
  <1>2. get_frame_number(phys_addr * PAGE_SIZE) = phys_addr
    BY <1>1, Room, QuotientOfMultiple DEF get_frame_number
  <1>3. /\ pc = "release" /\ pc' = "unmap"
        /\ used' = used \ {phys_addr} /\ held' = held \ {phys_addr}
        /\ UNCHANGED <<bitmap_start, pte>>
    BY <1>2 DEF ReleaseFrame, free_frame
  <1>4. BitmapFrames' = BitmapFrames /\ BackingFrames' = BackingFrames
    BY <1>3 DEF BitmapFrames, BackingFrames, Backed, Present
  <1>5. Unmapping = {phys_addr} \ {0} /\ Unmapping' = {}
    BY <1>3 DEF Unmapping
  <1>6. phys_addr \notin BackingFrames
    BY <1>3 DEF VmmInv, InHand, Backed, Present, BackingFrames
  <1> QED BY <1>3, <1>4, <1>5, <1>6 DEF LeakInv, TakingLowest, Accounted

(* Every step accounts for every frame. *)
LEMMA StepPreservesLeakInv ==
  VmmInv /\ LeakInv /\ LowFramesAdjacent /\ [Next]_vars => LeakInv'
  <1> SUFFICES ASSUME VmmInv, LeakInv, LowFramesAdjacent, [Next]_vars PROVE LeakInv'
    OBVIOUS
  <1>1. CASE FrameAllocatorReady
    <2>1. ~ready /\ UNCHANGED vmmVars /\ FrameInit
      BY <1>1 DEF FrameAllocatorReady, FrameInit
    <2>2. pc = "init" /\ i = 0 /\ pc' = "init" /\ i' = 0
      BY <2>1 DEF VmmInv, ReadyFirst, vmmVars
    <2>3. FrameInv /\ held = {} /\ held' = held
      BY <2>1, <2>2 DEF LeakInv, TakingLowest, FrameInit
    <2>4. FrameInv'
      BY <2>1, <2>3, FrameInitEstablishes
    <2> QED BY <2>2, <2>3, <2>4 DEF LeakInv, TakingLowest, Accounted
  <1>2. CASE InitFrame
    BY <1>2, InitFrameLeak
  <1>3. CASE InitDone
    BY <1>3, InitDoneLeak
  <1>4. CASE MapPage
    BY <1>4, MapPageLeak
  <1>5. CASE UnmapPage
    BY <1>5, UnmapPageLeak
  <1>6. CASE ReleaseFrame
    BY <1>6, ReleaseFrameLeak
  <1>7. CASE ScanFree \/ ScanUsed \/ ScanFail \/ MapDone \/ FlushTlb \/ FreeDone
             \/ (\E n \in PageRequests : AllocPages(n))
             \/ (\E first \in Pages, n \in PageRequests : FreePages(first, n))
    <2>1. /\ UNCHANGED <<frameVars, bitmap_start, pte>> /\ pc # "init" /\ pc' # "init"
          /\ \/ pc \notin {"flush", "release"} /\ pc' \notin {"flush", "release"}
             \/ pc = "flush" /\ pc' = "release" /\ phys_addr' = phys_addr
      BY <1>7 DEF ScanFree, ScanUsed, ScanFail, MapDone, FlushTlb, FreeDone, AllocPages,
                  FreePages, Return
    <2>2. Unmapping' = Unmapping
      BY <2>1 DEF Unmapping
    <2> QED BY <2>1, <2>2, RestLeak
  <1>8. CASE (\E v \in Pages : CacheTranslation(v)) \/ UNCHANGED vars
    <2>1. UNCHANGED <<frameVars, out_of_memory, bitmap_start, pte, pc, phys_addr, i>>
      BY <1>8 DEF CacheTranslation, vars, vmmVars
    <2>2. Unmapping' = Unmapping
      BY <2>1 DEF Unmapping
    <2>3. CASE pc # "init"
      BY <2>1, <2>2, <2>3, RestLeak
    <2>4. CASE pc = "init"
      <3>1. FrameInv'
        BY <2>1, <2>4, RestPreserves DEF LeakInv, TakingLowest, FrameInv, FrameTypeOK, frameVars
      <3>2. Pool' = Pool /\ held' = held
        BY <2>1, SetsUnchanged DEF frameVars
      <3> QED BY <2>1, <2>4, <3>1, <3>2 DEF LeakInv, TakingLowest, Accounted
    <2> QED BY <2>3, <2>4
  <1> QED BY <1>1, <1>2, <1>3, <1>4, <1>5, <1>6, <1>7, <1>8 DEF Next, Step

(***************************************************************************)
(* No frame leaks, on every machine whose lowest free frames are adjacent, *)
(* as VMM::init takes for granted: between calls of alloc_pages and        *)
(* free_pages the frames that are held back a page or are the VMM's bitmap *)
(* and nothing else, also after calls for which memory ran out.            *)
(***************************************************************************)
THEOREM VmmNoFrameLeak == Spec /\ []LowFramesAdjacent => []NoFrameLeak
  <1>1. Init => LeakInv
    BY InitEstablishesFrameInv DEF Init, LeakInv, TakingLowest, Accounted, FrameAllocatorInit
  <1>2. LeakInv => NoFrameLeak
    BY DEF LeakInv, Accounted, NoFrameLeak, BackingFrames, Unmapping
  <1> QED BY <1>1, <1>2, StepPreservesLeakInv, VmmCorrect, PTL DEF Spec
=============================================================================
