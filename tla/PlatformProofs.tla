--------------------------- MODULE PlatformProofs ---------------------------
(***************************************************************************)
(* Proofs about Platform, for every page size, layout of memory, memory    *)
(* map and framebuffer that satisfy the assumptions of the modules and     *)
(* that suit the kernel.                                                   *)
(***************************************************************************)
EXTENDS Platform, FrameProofs

(***************************************************************************)
(* What the kernel takes for granted of a machine.  Memory that is         *)
(* identity-mapped leaves the kernel's pages alone: it lies below or above *)
(* them, or it ends in the last page or above, where rounding wraps and    *)
(* nothing is mapped.  The framebuffer is written to and must be mapped:   *)
(* it may not end in the last page.                                        *)
(***************************************************************************)
Apart(base, end) ==
  end <= KERNEL_VMA \/ KERNEL_VMA + KernelSize <= base \/ AddrMod - PAGE_SIZE < end

Taken == HEAP_PAGES + VmmPages

(***************************************************************************)
(* Memory that suffices for the bitmap and the frames of heap and VMM, and *)
(* for what alloc_frame does not look at: the last element of the bitmap.  *)
(***************************************************************************)
MemoryNeeded ==
  BITMAP_BASE + AddrMod \div PAGE_SIZE + (Taken + WORD * BYTE + 1) * PAGE_SIZE

(* A usable entry of the map begins below the bitmap and is large enough. *)
Suits(m, k) ==
  /\ m[k].type = 1
  /\ m[k].base <= BITMAP_BASE
  /\ MemoryNeeded <= m[k].base + m[k].length
  /\ m[k].base + m[k].length <= KERNEL_VMA

SuitableMachines ==
  /\ \A m \in Maps :
       /\ \E k \in DOMAIN m : Suits(m, k)
       /\ \A k \in DOMAIN m : m[k].type = 1 => Apart(m[k].base, m[k].base + m[k].length)
  /\ \A fb \in Framebuffers :
       /\ fb.base + fb.size <= KERNEL_VMA \/ KERNEL_VMA + KernelSize <= fb.base
       /\ fb.base + fb.size <= AddrMod - PAGE_SIZE

-----------------------------------------------------------------------------
(* What PlatformAssumption says of the layout. *)
LEMMA Layout ==
  /\ KERNEL_VMA \in Nat /\ KernelSize \in Nat /\ BootSize \in Nat
  /\ HEAP_PAGES \in Nat \ {0} /\ VmmPages \in Nat \ {0}
  /\ KERNEL_VMA % PAGE_SIZE = 0 /\ KernelSize % PAGE_SIZE = 0
  /\ KernelSize <= BootSize /\ BITMAP_BASE <= BootSize /\ BootSize <= KERNEL_VMA
  /\ KERNEL_VMA + BootSize + PAGE_SIZE <= AddrMod
  /\ PG_DIR # page_directory
  BY PlatformAssumption

(* A multiple of the page size, and the page that an address above it is in. *)
LEMMA MultipleBelow ==
  ASSUME NEW n \in Nat, n % PAGE_SIZE = 0, NEW f \in Nat, n < PAGE_SIZE * f + PAGE_SIZE
  PROVE  n <= PAGE_SIZE * f
  <1> DEFINE q == n \div PAGE_SIZE
  <1>1. q \in Nat /\ n = PAGE_SIZE * q + (n % PAGE_SIZE)
    BY Room, Quotient
  <1> HIDE DEF q
  <1>2. n = PAGE_SIZE * q
    BY <1>1, Room
  <1>3. ~(f < q)
    <2> SUFFICES ASSUME f < q PROVE FALSE
      OBVIOUS
    <2>1. PAGE_SIZE * f + PAGE_SIZE <= PAGE_SIZE * q
      BY <1>1, Room, Times
    <2>2. PAGE_SIZE * f \in Nat /\ PAGE_SIZE * q \in Nat
      BY <1>1, Room
    <2> QED BY <2>1, <2>2, <1>2, Room
  <1>4. CASE q = f
    BY <1>4, <1>2
  <1>5. CASE q < f
    <2>1. PAGE_SIZE * q + PAGE_SIZE <= PAGE_SIZE * f
      BY <1>5, <1>1, Room, Times
    <2> QED BY <2>1, <1>1, <1>2, Room
  <1> QED BY <1>1, <1>3, <1>4, <1>5

(* mark() goes over pages. *)
LEMMA MarkIsPages ==
  ASSUME NEW start \in Nat, NEW end
  PROVE  mark(start, end) \subseteq Nat
  <1>1. get_frame_number(start) \in Nat
    BY Room, Quotient DEF get_frame_number
  <1> QED BY <1>1 DEF mark

(* A page below the end of the address space. *)
LEMMA BelowTop ==
  ASSUME NEW f \in Nat, PAGE_SIZE * f + PAGE_SIZE <= AddrMod
  PROVE  f \in AllPages
  <1>1. f < AddrMod \div PAGE_SIZE
    BY Room, BelowQuotient
  <1> QED BY <1>1, Room DEF AllPages

(* The kernel's pages. *)
LEMMA KernelPagesAre ==
  /\ KernelPages \subseteq AllPages
  /\ \A f \in KernelPages : /\ f \in Nat
                            /\ KERNEL_VMA <= PAGE_SIZE * f
                            /\ PAGE_SIZE * f < KERNEL_VMA + KernelSize
  <1> SUFFICES ASSUME NEW f \in KernelPages
               PROVE  /\ f \in AllPages /\ f \in Nat /\ KERNEL_VMA <= PAGE_SIZE * f
                      /\ PAGE_SIZE * f < KERNEL_VMA + KernelSize
    OBVIOUS
  <1>1. f \in Nat
    BY Layout, MarkIsPages DEF KernelPages
  <1>2. KERNEL_VMA < PAGE_SIZE * f + PAGE_SIZE /\ PAGE_SIZE * f < KERNEL_VMA + KernelSize
    BY <1>1, Layout, Room, MarkCoversRange DEF KernelPages
  <1>3. KERNEL_VMA <= PAGE_SIZE * f
    BY <1>1, <1>2, Layout, MultipleBelow
  <1>4. PAGE_SIZE * f \in Nat
    BY <1>1, Room
  <1>5. f \in AllPages
    BY <1>1, <1>2, <1>4, Layout, Room, BelowTop
  <1> QED BY <1>1, <1>2, <1>3, <1>5

(* Low memory and the page tables, below the bootstrap mapping's end. *)
LEMMA PageTablesAre ==
  \A f \in LowMemory \cup PageTables :
    f \in Nat /\ PAGE_SIZE * f < BITMAP_BASE /\ f \in AllPages
  <1> SUFFICES ASSUME NEW f \in LowMemory \cup PageTables
               PROVE  f \in Nat /\ PAGE_SIZE * f < BITMAP_BASE /\ f \in AllPages
    OBVIOUS
  <1>1. f \in Nat /\ PAGE_SIZE * f < BITMAP_BASE
    <2>1. CASE f \in LowMemory
      <3>1. f \in Nat
        BY <2>1, Room, MarkIsPages DEF LowMemory, BIOS_BASE
      <3>2. PAGE_SIZE * f < PAGE_BASE /\ PAGE_SIZE * f \in Nat
        BY <3>1, <2>1, Room, MarkCoversRange DEF LowMemory, BIOS_BASE
      <3> QED BY <3>1, <3>2, Room
    <2>2. CASE f \in PageTables
      <3>1. f \in Nat
        BY <2>2, Room, MarkIsPages DEF PageTables
      <3> QED BY <3>1, <2>2, Room, MarkCoversRange DEF PageTables
    <2> QED BY <2>1, <2>2
  <1>2. PAGE_SIZE * f \in Nat
    BY <1>1, Room
  <1>3. f \in AllPages
    BY <1>1, <1>2, Room, BelowTop
  <1> QED BY <1>1, <1>3

(* bootstrap_paging maps the kernel, and the page tables at their addresses. *)
LEMMA BootstrapReaches ==
  /\ \A f \in LowMemory \cup PageTables : Bootstrap[f] = f
  /\ \A v \in KernelPages : Bootstrap[v] = KernelFrame(v)
  <1>1. ASSUME NEW f \in LowMemory \cup PageTables PROVE Bootstrap[f] = f
    <2>1. f \in Nat /\ PAGE_SIZE * f < BITMAP_BASE /\ f \in AllPages
      BY PageTablesAre
    <2>2. f \in mark(0, BootSize)
      <3>1. BootSize + (PAGE_SIZE - 1) < AddrMod
        BY Layout, Room
      <3>2. PAGE_SIZE * f \in Nat
        BY <2>1, Room
      <3>3. f \in mark(0, BootSize) <=> 0 < PAGE_SIZE * f + PAGE_SIZE /\ PAGE_SIZE * f < BootSize
        BY <2>1, <3>1, Layout, MarkCoversRange
      <3> QED BY <3>2, <3>3, <2>1, Layout, Room
    <2> QED BY <2>1, <2>2 DEF Bootstrap
  <1>2. ASSUME NEW v \in KernelPages PROVE Bootstrap[v] = KernelFrame(v)
    <2>1. /\ v \in AllPages /\ v \in Nat /\ KERNEL_VMA <= PAGE_SIZE * v
          /\ PAGE_SIZE * v < KERNEL_VMA + KernelSize
      BY KernelPagesAre
    <2>2. PAGE_SIZE * v \in Nat
      BY <2>1, Room
    <2>3. v \notin mark(0, BootSize)
      <3>1. BootSize + (PAGE_SIZE - 1) < AddrMod
        BY Layout, Room
      <3>2. v \in mark(0, BootSize) => PAGE_SIZE * v < BootSize
        BY <2>1, <3>1, Layout, MarkCoversRange
      <3> QED BY <3>2, <2>1, <2>2, Layout
    <2>4. v \in mark(KERNEL_VMA, KERNEL_VMA + BootSize)
      <3>1. KERNEL_VMA + BootSize + (PAGE_SIZE - 1) < AddrMod
        BY Layout, Room
      <3>2. v \in mark(KERNEL_VMA, KERNEL_VMA + BootSize) <=>
              KERNEL_VMA < PAGE_SIZE * v + PAGE_SIZE /\ PAGE_SIZE * v < KERNEL_VMA + BootSize
        BY <2>1, <3>1, Layout, MarkCoversRange
      <3> QED BY <3>2, <2>1, <2>2, Layout, Room
    <2> QED BY <2>1, <2>3, <2>4 DEF Bootstrap
  <1> QED BY <1>1, <1>2

-----------------------------------------------------------------------------
(* The kernel's part of the higher half ends with a page. *)
LEMMA KernelEndAligned == (KERNEL_VMA + KernelSize) % PAGE_SIZE = 0
  <1> DEFINE p == KERNEL_VMA \div PAGE_SIZE
             q == KernelSize \div PAGE_SIZE
  <1>1. \A n \in Nat : /\ n \div PAGE_SIZE \in Nat /\ n % PAGE_SIZE \in Nat
                       /\ n = PAGE_SIZE * (n \div PAGE_SIZE) + (n % PAGE_SIZE)
    BY Room
  <1>2. /\ p \in Nat /\ KERNEL_VMA = PAGE_SIZE * p
        /\ q \in Nat /\ KernelSize = PAGE_SIZE * q
    <2>1. PAGE_SIZE * p \in Nat /\ PAGE_SIZE * q \in Nat
      BY <1>1, Layout, Room
    <2> QED BY <1>1, <2>1, Layout
  <1> HIDE DEF p, q
  <1>3. KERNEL_VMA + KernelSize = (p + q) * PAGE_SIZE
    BY <1>2, Room
  <1>4. ((p + q) * PAGE_SIZE) \div PAGE_SIZE = p + q
    BY <1>2, Room, QuotientOfMultiple
  <1>5. KERNEL_VMA + KernelSize
          = PAGE_SIZE * (p + q) + ((KERNEL_VMA + KernelSize) % PAGE_SIZE)
    BY <1>1, <1>3, <1>4, Layout
  <1>6. PAGE_SIZE * (p + q) = KERNEL_VMA + KernelSize
    BY <1>2, <1>3, Room
  <1> QED BY <1>1, <1>5, <1>6, Layout

(* What is mapped at its own address leaves the kernel's pages alone. *)
LEMMA ApartFromKernel ==
  ASSUME NEW base \in Nat, NEW end \in Nat, NEW f \in Nat,
         end <= KERNEL_VMA \/ KERNEL_VMA + KernelSize <= base,
         base < PAGE_SIZE * f + PAGE_SIZE, PAGE_SIZE * f < end
  PROVE  f \notin KernelPages
  <1> SUFFICES ASSUME f \in KernelPages PROVE FALSE
    OBVIOUS
  <1>1. KERNEL_VMA <= PAGE_SIZE * f /\ PAGE_SIZE * f < KERNEL_VMA + KernelSize
    BY KernelPagesAre
  <1>2. PAGE_SIZE * f \in Nat
    BY Room
  <1>3. CASE end <= KERNEL_VMA
    BY <1>1, <1>2, <1>3, Layout
  <1>4. CASE KERNEL_VMA + KernelSize <= base
    <2>1. KERNEL_VMA + KernelSize < PAGE_SIZE * f + PAGE_SIZE
      BY <1>2, <1>4, Layout, Room
    <2>2. KERNEL_VMA + KernelSize <= PAGE_SIZE * f
      BY <2>1, KernelEndAligned, Layout, MultipleBelow
    <2> QED BY <1>1, <1>2, <2>2, Layout
  <1> QED BY <1>3, <1>4

(* The pages of the memory map's usable entries. *)
LEMMA FreedAreApart ==
  ASSUME SuitableMachines, mmap \in Maps
  PROVE  /\ Freed \cap KernelPages = {}
         /\ \A f \in Nat \cap Freed : f \in AllPages
  <1> SUFFICES ASSUME NEW f \in Nat, f \in Freed PROVE f \notin KernelPages /\ f \in AllPages
    BY KernelPagesAre
  <1>1. PICK k \in Usable : /\ Meets(k, f)
                            /\ mmap[k].base + mmap[k].length <= AddrMod - PAGE_SIZE
    BY FreedFrames
  <1> DEFINE base == mmap[k].base
             end == mmap[k].base + mmap[k].length
  <1>2. k \in DOMAIN mmap /\ mmap[k].type = 1
    BY DEF Usable
  <1>3. base \in Nat /\ mmap[k].length \in Nat /\ end \in Nat
    BY <1>2, FrameAssumption
  <1>4. Apart(base, end)
    BY <1>2 DEF SuitableMachines
  <1>5. base < PAGE_SIZE * f + PAGE_SIZE /\ PAGE_SIZE * f < end
    BY <1>1, <1>3, Room DEF Meets
  <1>6. end <= AddrMod - PAGE_SIZE
    BY <1>1
  <1> HIDE DEF base, end
  <1>7. PAGE_SIZE * f \in Nat
    BY Room
  <1>8. f \notin KernelPages
    BY <1>3, <1>4, <1>5, <1>6, Room, ApartFromKernel DEF Apart
  <1>9. f \in AllPages
    BY <1>3, <1>5, <1>6, <1>7, Room, BelowTop
  <1> QED BY <1>8, <1>9

(* The pages that are mapped for the framebuffer: all that it has, and none *)
(* of the kernel's.                                                         *)
LEMMA FramebufferIsApart ==
  ASSUME SuitableMachines, fb_info \in Framebuffers
  PROVE  LET mapped == mark(fb_info.base, (fb_info.base + fb_info.size) % AddrMod)
         IN mapped \cap KernelPages = {} /\ FramebufferFrames \subseteq mapped
  <1> DEFINE base == fb_info.base
             end == fb_info.base + fb_info.size
  <1>1. /\ base \in Nat /\ end \in Nat /\ end <= AddrMod - PAGE_SIZE
        /\ end <= KERNEL_VMA \/ KERNEL_VMA + KernelSize <= base
    <2>1. fb_info.base \in Nat /\ fb_info.size \in Nat
      BY PlatformAssumption
    <2> QED BY <2>1 DEF SuitableMachines
  <1>2. FramebufferFrames = {f \in AllPages : base < (f + 1) * PAGE_SIZE /\ f * PAGE_SIZE < end}
    BY DEF FramebufferFrames
  <1> HIDE DEF base, end
  <1>3. end % AddrMod = end
    BY <1>1, Room
  <1>4. \A f \in Nat : f \in mark(base, end) <=>
                        base < PAGE_SIZE * f + PAGE_SIZE /\ PAGE_SIZE * f < end
    BY <1>1, Room, MarkCoversRange
  <1>5. ASSUME NEW f \in mark(base, end) PROVE f \notin KernelPages
    <2>1. f \in Nat
      BY <1>1, MarkIsPages
    <2>2. base < PAGE_SIZE * f + PAGE_SIZE /\ PAGE_SIZE * f < end
      BY <1>4, <2>1
    <2> QED BY <1>1, <2>1, <2>2, ApartFromKernel
  <1>6. ASSUME NEW f \in FramebufferFrames PROVE f \in mark(base, end)
    <2>1. f \in Nat /\ base < (f + 1) * PAGE_SIZE /\ f * PAGE_SIZE < end
      BY <1>2, Room DEF AllPages
    <2>2. (f + 1) * PAGE_SIZE = PAGE_SIZE * f + PAGE_SIZE /\ f * PAGE_SIZE = PAGE_SIZE * f
      BY <2>1, Room
    <2> QED BY <1>4, <2>1, <2>2
  <1> QED BY <1>3, <1>5, <1>6 DEF base, end

(* The frame allocator's bitmap lies in memory that the map offers. *)
LEMMA BitmapIsOffered ==
  ASSUME SuitableMachines, mmap \in Maps, NEW size \in 0 .. AddrMod \div PAGE_SIZE
  PROVE  mark(BITMAP_BASE, BITMAP_BASE + size) \subseteq Freed \cap Nat
  <1> SUFFICES ASSUME NEW f \in mark(BITMAP_BASE, BITMAP_BASE + size)
               PROVE  f \in Freed /\ f \in Nat
    OBVIOUS
  <1>0. size \in Nat /\ size <= AddrMod \div PAGE_SIZE
    BY Room
  <1>1. f \in Nat
    BY Room, MarkIsPages
  <1>2. BITMAP_BASE < PAGE_SIZE * f + PAGE_SIZE /\ PAGE_SIZE * f < BITMAP_BASE + size
    BY <1>0, <1>1, Room, MarkCoversRange
  <1>3. PICK k \in DOMAIN mmap : Suits(mmap, k)
    BY DEF SuitableMachines
  <1>4. mmap[k].base \in Nat /\ mmap[k].length \in Nat /\ k \in Usable
    BY <1>3, FrameAssumption DEF Suits, Usable
  <1> DEFINE base == mmap[k].base
             end == mmap[k].base + mmap[k].length
  <1>5. base \in Nat /\ end \in Nat /\ base <= BITMAP_BASE /\ MemoryNeeded <= end
        /\ end <= KERNEL_VMA
    BY <1>3, <1>4 DEF Suits
  <1> HIDE DEF base, end
  <1>6. BITMAP_BASE + size <= MemoryNeeded
    <2> DEFINE rest == (Taken + WORD * BYTE + 1) * PAGE_SIZE
    <2>1. WORD * BYTE \in Nat
      BY FrameAssumption
    <2>2. Taken + WORD * BYTE + 1 \in Nat
      BY <2>1, Layout DEF Taken
    <2>3. rest \in Nat
      BY <2>2, Room
    <2> HIDE DEF rest
    <2>4. MemoryNeeded = BITMAP_BASE + AddrMod \div PAGE_SIZE + rest
      BY DEF MemoryNeeded, rest
    <2> QED BY <2>3, <2>4, <1>0, Room
  <1>7. PAGE_SIZE * f \in Nat
    BY <1>1, Room
  <1>8. MemoryNeeded \in Int
    <2>1. WORD * BYTE \in Nat
      BY FrameAssumption
    <2> QED BY <2>1, Layout, Room DEF MemoryNeeded, Taken
  <1>9. base < PAGE_SIZE * f + PAGE_SIZE /\ PAGE_SIZE * f < end
    BY <1>0, <1>2, <1>5, <1>6, <1>7, <1>8, Room
  <1>10. end <= AddrMod - PAGE_SIZE
    BY <1>5, Layout, Room
  <1>11. Meets(k, f)
    BY <1>1, <1>9, Room DEF Meets, base, end
  <1> QED BY <1>1, <1>4, <1>10, <1>11, FreedFrames DEF end

-----------------------------------------------------------------------------
(* The first frame behind the bitmap. *)
FirstFrame == (BITMAP_BASE + bitmap_size + (PAGE_SIZE - 1)) \div PAGE_SIZE

(***************************************************************************)
(* From there on lie the frames that heap and VMM are going to get: they   *)
(* are the lowest of the pool, and below the kernel's addresses.           *)
(***************************************************************************)
Enough ==
  /\ FirstFrame \in Nat
  /\ FirstFrame .. FirstFrame + Taken - 1 \subseteq Pool
  /\ \A f \in Pool : f \in Nat /\ FirstFrame <= f
  /\ PAGE_SIZE * (FirstFrame + Taken) <= KERNEL_VMA
  /\ 0 < FirstFrame

(* The frames that alloc_frame looks at, of a memory of e bytes. *)
LEMMA ScannedAtLeast ==
  ASSUME NEW e \in Nat, NEW highest \in Nat, e <= highest,
         NEW size, size = (highest \div PAGE_SIZE + (BYTE - 1)) \div BYTE
  PROVE  LET scanned == (size \div WORD) * WORD * BYTE
         IN scanned \in Nat /\ e < PAGE_SIZE * scanned + PAGE_SIZE * (WORD * BYTE) + PAGE_SIZE
  <1> DEFINE t == highest \div PAGE_SIZE
             up == t + (BYTE - 1)
             w == size \div WORD
             whole == WORD * w
             scanned == BYTE * whole
  <1>0. WORD \in Nat \ {0} /\ BYTE \in Nat \ {0} /\ PAGE_SIZE \in Nat \ {0}
    BY FrameAssumption
  <1>1. t \in Nat /\ highest < PAGE_SIZE * t + PAGE_SIZE
    BY <1>0, Quotient
  <1>2. up \in Nat
    BY <1>0, <1>1
  <1>3. size \in Nat /\ up < BYTE * size + BYTE
    <2> HIDE DEF t
    <2> QED BY <1>0, <1>2, Quotient DEF t
  <1>4. w \in Nat /\ size < WORD * w + WORD
    BY <1>0, <1>3, Quotient
  <1> HIDE DEF t, w
  <1>5. whole \in Nat /\ size < whole + WORD
    BY <1>0, <1>4
  <1> HIDE DEF whole
  <1>6. scanned \in Nat
    BY <1>0, <1>5
  <1>7. BYTE * size + BYTE <= BYTE * (whole + WORD)
    BY <1>0, <1>3, <1>5, Times
  <1>8. BYTE * (whole + WORD) = scanned + WORD * BYTE
    BY <1>0, <1>5
  <1>9. WORD * BYTE \in Nat /\ BYTE * size \in Nat
    BY <1>0, <1>3
  <1> HIDE DEF scanned
  <1>10. t < scanned + WORD * BYTE
    BY <1>0, <1>1, <1>3, <1>6, <1>7, <1>8, <1>9
  <1>11. PAGE_SIZE * t + PAGE_SIZE <= PAGE_SIZE * (scanned + WORD * BYTE)
    BY <1>0, <1>1, <1>6, <1>9, <1>10, Times
  <1>12. PAGE_SIZE * (scanned + WORD * BYTE) = PAGE_SIZE * scanned + PAGE_SIZE * (WORD * BYTE)
    BY <1>0, <1>6, <1>9
  <1>13. PAGE_SIZE * t \in Nat /\ PAGE_SIZE * scanned \in Nat /\ PAGE_SIZE * (WORD * BYTE) \in Nat
    BY <1>0, <1>1, <1>6, <1>9
  <1>14. e < PAGE_SIZE * scanned + PAGE_SIZE * (WORD * BYTE) + PAGE_SIZE
    BY <1>0, <1>1, <1>11, <1>12, <1>13
  <1>15. w * WORD * BYTE = scanned
    BY <1>0, <1>4 DEF scanned, whole
  <1> QED BY <1>6, <1>14, <1>15 DEF w

(* MemoryNeeded, as a sum. *)
LEMMA Needed ==
  /\ Taken \in Nat /\ WORD * BYTE \in Nat
  /\ PAGE_SIZE * Taken \in Nat /\ PAGE_SIZE * (WORD * BYTE) \in Nat
  /\ MemoryNeeded = BITMAP_BASE + AddrMod \div PAGE_SIZE + PAGE_SIZE * Taken
                      + PAGE_SIZE * (WORD * BYTE) + PAGE_SIZE
  <1>1. Taken \in Nat
    BY Layout DEF Taken
  <1> DEFINE wb == WORD * BYTE
  <1>2. wb \in Nat
    BY FrameAssumption
  <1> HIDE DEF wb
  <1>3. PAGE_SIZE * Taken \in Nat /\ PAGE_SIZE * wb \in Nat
    BY <1>1, <1>2, Room
  <1>4. (Taken + wb + 1) * PAGE_SIZE = PAGE_SIZE * Taken + PAGE_SIZE * wb + PAGE_SIZE
    BY <1>1, <1>2, Room
  <1>5. MemoryNeeded = BITMAP_BASE + AddrMod \div PAGE_SIZE + (Taken + wb + 1) * PAGE_SIZE
    BY DEF MemoryNeeded, wb
  <1> QED BY <1>1, <1>2, <1>3, <1>4, <1>5, Room DEF wb

(* After FrameAllocator::init there is enough for heap and VMM. *)
LEMMA InitLeavesEnough ==
  ASSUME SuitableMachines, FrameInv, FrameInit
  PROVE  Enough'
  <1> DEFINE size == bitmap_size'
             lo == FirstFrame'
             S == (size \div WORD) * WORD * BYTE
             A == AddrMod \div PAGE_SIZE
  <1>1. FrameInv' /\ mmap' = mmap /\ mmap \in Maps
    BY FrameInitEstablishes DEF FrameInit, FrameInv, FrameTypeOK
  <1>2. size \in Nat /\ size <= A /\ A \in Nat
    <2>1. size \in 0 .. A
      BY <1>1 DEF FrameInv, FrameTypeOK
    <2> HIDE DEF size
    <2> QED BY <2>1, Room
  <1>3. PICK k \in DOMAIN mmap : Suits(mmap, k)
    BY <1>1 DEF SuitableMachines
  <1> DEFINE base == mmap[k].base
             end == mmap[k].base + mmap[k].length
  <1>4. /\ k \in Usable /\ base \in Nat /\ end \in Nat /\ base <= BITMAP_BASE
        /\ MemoryNeeded <= end /\ end <= KERNEL_VMA
    <2>1. mmap[k].base \in Nat /\ mmap[k].length \in Nat
      BY <1>1, FrameAssumption
    <2> QED BY <2>1, <1>3 DEF Suits, Usable
  <1>5. EntryEnd(k) = end
    <2> HIDE DEF end
    <2>1. EntryEnd(k) = clamp(end)
      BY DEF EntryEnd, end
    <2> QED BY <2>1, <1>4, Layout, Room DEF clamp, HIGHEST_USABLE_ADDR
  <1>6. S \in Nat /\ end < PAGE_SIZE * S + PAGE_SIZE * (WORD * BYTE) + PAGE_SIZE
    <2>1. PICK highest \in {0} \cup {EntryEnd(n) : n \in Usable} :
            /\ \A n \in Usable : EntryEnd(n) <= highest
            /\ total_frames' = highest \div PAGE_SIZE
      BY DEF FrameInit
    <2>2. \A n \in Usable : EntryEnd(n) \in Nat
      <3> SUFFICES ASSUME NEW n \in Usable PROVE EntryEnd(n) \in Nat
        OBVIOUS
      <3>1. mmap[n].base \in Nat /\ mmap[n].length \in Nat
        BY <1>1, FrameAssumption DEF Usable
      <3> QED BY <3>1, Room DEF EntryEnd, clamp, HIGHEST_USABLE_ADDR
    <2>3. highest \in Nat /\ end <= highest
      BY <2>1, <2>2, <1>4, <1>5
    <2>4. size = (highest \div PAGE_SIZE + (BYTE - 1)) \div BYTE
      BY <2>1 DEF FrameInit
    <2> HIDE DEF size, end
    <2> QED BY <2>3, <2>4, <1>4, ScannedAtLeast
  <1> HIDE DEF size, base, end, A
  <1> DEFINE up == BITMAP_BASE + size + (PAGE_SIZE - 1)
  <1>7. /\ up \in Nat /\ lo = up \div PAGE_SIZE /\ lo \in Nat
        /\ PAGE_SIZE * lo <= up
        /\ \A f \in Nat : f < lo <=> PAGE_SIZE * f + PAGE_SIZE <= up
    <2>1. up \in Nat
      BY <1>2, Room
    <2>2. lo = up \div PAGE_SIZE
      BY DEF FirstFrame, size
    <2> HIDE DEF up, lo
    <2> QED BY <2>1, <2>2, Room, Quotient, BelowQuotient
  <1> HIDE DEF lo, S
  <1>8. /\ PAGE_SIZE * lo \in Nat /\ PAGE_SIZE * S \in Nat /\ lo + Taken \in Nat
        /\ PAGE_SIZE * (lo + Taken) = PAGE_SIZE * lo + PAGE_SIZE * Taken
    BY <1>6, <1>7, Needed, Room
  <1>9. PAGE_SIZE * (lo + Taken) <= end
    BY <1>2, <1>4, <1>7, <1>8, Needed, Room DEF A
  <1>10. lo + Taken <= S
    <2> SUFFICES ASSUME S < lo + Taken PROVE FALSE
      BY <1>6, <1>7, Needed
    <2>0. PAGE_SIZE \in Nat \ {0}
      BY Room
    <2>1. PAGE_SIZE * S + PAGE_SIZE <= PAGE_SIZE * (lo + Taken)
      BY <2>0, <1>6, <1>8, Times
    <2> QED BY <2>1, <1>2, <1>4, <1>6, <1>7, <1>8, Needed, Room DEF A
  <1>11. \A f \in Nat : f < lo <=> PAGE_SIZE * f < BITMAP_BASE + size
    <2> SUFFICES ASSUME NEW f \in Nat PROVE f < lo <=> PAGE_SIZE * f < BITMAP_BASE + size
      OBVIOUS
    <2>1. PAGE_SIZE * f \in Nat
      BY Room
    <2> QED BY <2>1, <1>2, <1>7, Room
  <1>12. /\ Scanned' = 0 .. S - 1
         /\ CriticalFrames' = {f \in 0 .. A - 1 : f * PAGE_SIZE < BITMAP_BASE + size}
         /\ Pool' = {f \in Scanned' \ CriticalFrames' :
                       \E n \in Usable : /\ Meets(n, f)
                                         /\ mmap[n].base + mmap[n].length <= AddrMod - PAGE_SIZE}
    BY <1>1 DEF Scanned, S, CriticalFrames, A, size, Pool, Usable, Meets
  <1>13. ASSUME NEW f \in lo .. lo + Taken - 1 PROVE f \in Pool'
    <2>1. f \in Nat /\ ~(f < lo) /\ f < lo + Taken
      BY <1>7, Needed
    <2>2. PAGE_SIZE * f \in Nat /\ f * PAGE_SIZE = PAGE_SIZE * f
          /\ (f + 1) * PAGE_SIZE = PAGE_SIZE * f + PAGE_SIZE
      BY <2>1, Room
    <2>3. BITMAP_BASE + size <= PAGE_SIZE * f
      BY <2>1, <2>2, <1>2, <1>11, Room
    <2>0. PAGE_SIZE \in Nat \ {0}
      BY Room
    <2>4. PAGE_SIZE * f + PAGE_SIZE <= PAGE_SIZE * (lo + Taken)
      BY <2>0, <2>1, <1>8, Times
    <2>5. base < PAGE_SIZE * f + PAGE_SIZE /\ PAGE_SIZE * f < end
      BY <2>2, <2>3, <2>4, <1>2, <1>4, <1>8, <1>9, Needed, Room
    <2>6. Meets(k, f)
      BY <2>2, <2>5 DEF Meets, base, end
    <2>7. end <= AddrMod - PAGE_SIZE
      BY <1>4, Layout, Room
    <2>8. f \in Scanned'
      BY <2>1, <1>6, <1>7, <1>10, <1>12, Needed
    <2>9. f \notin CriticalFrames'
      BY <2>2, <2>3, <1>2, <1>12, Room
    <2>10. \E n \in Usable : Meets(n, f) /\ mmap[n].base + mmap[n].length <= AddrMod - PAGE_SIZE
      BY <2>6, <2>7, <1>4, Zenon DEF end
    <2> QED BY <2>8, <2>9, <2>10, <1>12, Zenon
  <1>14. ASSUME NEW f \in Pool' PROVE f \in Nat /\ lo <= f
    <2>1. f \in Nat /\ f \notin CriticalFrames'
      BY <1>12, <1>6
    <2>2. ASSUME f < lo PROVE FALSE
      <3>1. PAGE_SIZE * f < BITMAP_BASE + size /\ PAGE_SIZE * f \in Nat
            /\ f * PAGE_SIZE = PAGE_SIZE * f
        BY <2>1, <2>2, <1>11, Room
      <3>2. PAGE_SIZE * f + PAGE_SIZE <= AddrMod
        BY <3>1, <1>2, Room DEF A
      <3>3. f < A
        BY <3>2, <2>1, Room, BelowQuotient DEF A
      <3> QED BY <2>1, <3>1, <3>3, <1>2, <1>12
    <2> QED BY <2>1, <2>2, <1>7
  <1>15. 0 < lo
    BY <1>2, <1>11, Room
  <1>16. PAGE_SIZE * (lo + Taken) <= KERNEL_VMA
    BY <1>4, <1>7, <1>8, <1>9, Needed, Layout
  <1> QED BY <1>7, <1>13, <1>14, <1>15, <1>16 DEF Enough, lo, Taken

-----------------------------------------------------------------------------
(***************************************************************************)
(* The invariant.  What has been mapped so far, step by step; which page   *)
(* table is in use; and how far the loops that allocate frames have come:  *)
(* they get one frame after the other from FirstFrame on, so that what the *)
(* code takes for one region, from the first address and the last one, is  *)
(* the frames that it got.                                                 *)
(***************************************************************************)
Managed == {"heap", "vmm", "done"}
OnKernelTable == {"print", "frames"} \cup Managed
Mapping == {"pd_init", "pd_wire", "map_kernel", "map_low", "map_tables", "map_fb",
            "map_usable", "enable"}

IsIdentity(frames) == \A f \in frames : pt[f] = f
KernelIsMapped == \A v \in KernelPages : pt[v] = KernelFrame(v)

MapInv ==
  /\ pc \notin {"pd_init", "pd_wire", "map_kernel"} => KernelIsMapped
  /\ pc \notin {"pd_init", "pd_wire", "map_kernel", "map_low"} => IsIdentity(LowMemory)
  /\ pc \notin {"pd_init", "pd_wire", "map_kernel", "map_low", "map_tables"}
       => IsIdentity(PageTables)
  /\ pc \in {"map_usable", "enable", "print"} => IsIdentity(FramebufferFrames)
  /\ pc \in {"enable"} \cup OnKernelTable => IsIdentity(Freed \cap Nat)

(* The two page directories: the code runs on one while it builds the other. *)
DirInv ==
  /\ dir \in [{PG_DIR, page_directory} -> {"large", "tables", "zeros"}]
  /\ dir[PG_DIR] = "large"
  /\ pc \notin {"pd_init", "pd_wire"} => dir[page_directory] = "tables"
  /\ cr3 = IF pc \in OnKernelTable THEN page_directory ELSE PG_DIR

ControlInv ==
  /\ pc \in Mapping \cup OnKernelTable
  /\ ready <=> pc \in Managed
  /\ ready => Enough
  /\ fb_info \in Framebuffers
  /\ ~fault

(* The first n frames that are handed out. *)
Handed(n) == FirstFrame .. FirstFrame + n - 1

HeapInv ==
  /\ heap_start = FirstFrame * PAGE_SIZE
  /\ total_size = HEAP_PAGES * PAGE_SIZE
  /\ heap_frames = Handed(HEAP_PAGES)

LoopInv ==
  /\ pc \notin Managed => i = 0 /\ heap_frames = {} /\ vmm_frames = {}
  /\ pc = "heap" =>
       /\ i \in 0 .. HEAP_PAGES
       /\ held = Handed(i)
       /\ heap_frames = Handed(i)
       /\ vmm_frames = {}
       /\ i > 0 => /\ heap_start = FirstFrame * PAGE_SIZE
                   /\ heap_end = (FirstFrame + (i - 1)) * PAGE_SIZE
  /\ pc = "vmm" =>
       /\ i \in 0 .. VmmPages
       /\ HeapInv
       /\ held = Handed(HEAP_PAGES + i)
       /\ vmm_frames = Handed(HEAP_PAGES + i) \ Handed(HEAP_PAGES)
       /\ i > 0 => bitmap_start = (FirstFrame + HEAP_PAGES) * PAGE_SIZE
  /\ pc = "done" =>
       /\ HeapInv
       /\ vmm_frames = Handed(Taken) \ Handed(HEAP_PAGES)
       /\ bitmap_start = (FirstFrame + HEAP_PAGES) * PAGE_SIZE

PlatInv == FrameInv /\ MapInv /\ DirInv /\ ControlInv /\ LoopInv

(* The state that bootstrap_paging leaves. *)
LEMMA InitEstablishesPlatInv == Init => PlatInv
  <1> SUFFICES ASSUME Init PROVE PlatInv
    OBVIOUS
  <1>1. FrameInv
    BY InitEstablishesFrameInv DEF Init
  <1>2. MapInv /\ LoopInv
    BY DEF Init, MapInv, LoopInv, OnKernelTable, Managed
  <1>3. ControlInv
    BY DEF Init, FrameAllocatorInit, ControlInv, OnKernelTable, Managed, Mapping
  <1>4. DirInv
    BY Layout DEF Init, DirInv, OnKernelTable, Managed
  <1> QED BY <1>1, <1>2, <1>3, <1>4 DEF PlatInv

-----------------------------------------------------------------------------
(* Multiples of the page size, in order. *)
LEMMA FrameAddresses ==
  ASSUME NEW a \in Nat, NEW b \in Nat
  PROVE  /\ a * PAGE_SIZE \in Nat
         /\ a * PAGE_SIZE = PAGE_SIZE * a
         /\ a * PAGE_SIZE + b * PAGE_SIZE = (a + b) * PAGE_SIZE
         /\ a < b => a * PAGE_SIZE + PAGE_SIZE <= b * PAGE_SIZE
         /\ a <= b => a * PAGE_SIZE <= b * PAGE_SIZE
  <1>0. PAGE_SIZE \in Nat \ {0}
    BY Room
  <1>1. a * PAGE_SIZE \in Nat /\ a * PAGE_SIZE = PAGE_SIZE * a
        /\ b * PAGE_SIZE \in Nat /\ b * PAGE_SIZE = PAGE_SIZE * b
    BY <1>0
  <1>2. a * PAGE_SIZE + b * PAGE_SIZE = (a + b) * PAGE_SIZE
    BY <1>0
  <1>3. a < b => a * PAGE_SIZE + PAGE_SIZE <= b * PAGE_SIZE
    BY <1>0, <1>1, Times
  <1>4. a <= b => a * PAGE_SIZE <= b * PAGE_SIZE
    BY <1>0, <1>1, <1>3
  <1> QED BY <1>1, <1>2, <1>3, <1>4

(* mark() between the addresses of two frames. *)
LEMMA MarkOfFrames ==
  ASSUME NEW a \in Nat, NEW b \in Nat, PAGE_SIZE * b <= KERNEL_VMA
  PROVE  mark(a * PAGE_SIZE, b * PAGE_SIZE) = a .. b - 1
  <1> DEFINE A == a * PAGE_SIZE
             B == b * PAGE_SIZE
  <1>1. A \in Nat /\ B \in Nat /\ B <= KERNEL_VMA
    BY FrameAddresses
  <1>2. B + (PAGE_SIZE - 1) < AddrMod
    BY <1>1, Layout, Room
  <1>3. ASSUME NEW f \in Nat PROVE f \in mark(A, B) <=> a <= f /\ f < b
    <2> DEFINE F == f * PAGE_SIZE
    <2>1. /\ F \in Nat /\ F = PAGE_SIZE * f
          /\ a < f => A + PAGE_SIZE <= F
          /\ f < a => F + PAGE_SIZE <= A
          /\ f < b => F + PAGE_SIZE <= B
          /\ b <= f => B <= F
          /\ a <= f => A <= F
      BY FrameAddresses
    <2> HIDE DEF A, B, F
    <2>2. f \in mark(A, B) <=> A < PAGE_SIZE * f + PAGE_SIZE /\ PAGE_SIZE * f < B
      BY <1>1, <1>2, MarkCoversRange
    <2> QED BY <1>1, <2>1, <2>2, Room
  <1>4. mark(A, B) \subseteq Nat
    BY <1>1, MarkIsPages
  <1> HIDE DEF A, B
  <1>5. ASSUME NEW f PROVE f \in mark(A, B) <=> f \in a .. b - 1
    <2>1. f \in a .. b - 1 <=> f \in Nat /\ a <= f /\ f < b
      OBVIOUS
    <2> QED BY <2>1, <1>3, <1>4
  <1>6. mark(A, B) = a .. b - 1
    BY <1>5, Zenon
  <1> QED BY <1>6 DEF A, B

(* What lies below the kernel's addresses does not replace its pages. *)
LEMMA LowIsApart ==
  ASSUME NEW start \in Nat, NEW end \in Nat, end <= KERNEL_VMA
  PROVE  mark(start, end) \cap KernelPages = {}
  <1> SUFFICES ASSUME NEW f \in mark(start, end) PROVE f \notin KernelPages
    OBVIOUS
  <1>1. f \in Nat
    BY MarkIsPages
  <1>2. end + (PAGE_SIZE - 1) < AddrMod
    BY Layout, Room
  <1>3. start < PAGE_SIZE * f + PAGE_SIZE /\ PAGE_SIZE * f < end
    BY <1>1, <1>2, MarkCoversRange
  <1> QED BY <1>1, <1>3, ApartFromKernel

(* identity_map_range keeps what is mapped at its own address. *)
LEMMA IdentityMapKeeps ==
  ASSUME NEW start, NEW end, pt' = identity_map_range(start, end), mmap' = mmap,
         fb_info' = fb_info
  PROVE  /\ \A v \in AllPages : pt'[v] = IF v \in mark(start, end) THEN v ELSE pt[v]
         /\ IsIdentity(LowMemory) => IsIdentity(LowMemory)'
         /\ IsIdentity(FramebufferFrames) => IsIdentity(FramebufferFrames)'
         /\ IsIdentity(PageTables) => IsIdentity(PageTables)'
         /\ SuitableMachines /\ mmap \in Maps /\ IsIdentity(Freed \cap Nat)
              => IsIdentity(Freed \cap Nat)'
         /\ mark(start, end) \cap KernelPages = {} /\ KernelIsMapped => KernelIsMapped'
  <1>1. \A v \in AllPages : pt'[v] = IF v \in mark(start, end) THEN v ELSE pt[v]
    BY DEF identity_map_range
  <1>2. LowMemory \subseteq AllPages /\ PageTables \subseteq AllPages
        /\ FramebufferFrames \subseteq AllPages /\ FramebufferFrames' = FramebufferFrames
    BY PageTablesAre DEF FramebufferFrames
  <1>3. PageTables' = PageTables /\ KernelPages' = KernelPages /\ (Freed \cap Nat)' = Freed \cap Nat
    BY DEF PageTables, KernelPages, Freed, Usable, EntryEnd
  <1>4. KernelPages \subseteq AllPages
    BY KernelPagesAre
  <1>5. SuitableMachines /\ mmap \in Maps => Freed \cap Nat \subseteq AllPages
    BY FreedAreApart
  <1>6. /\ IsIdentity(LowMemory) => IsIdentity(LowMemory)'
        /\ IsIdentity(FramebufferFrames) => IsIdentity(FramebufferFrames)'
    BY <1>1, <1>2 DEF IsIdentity
  <1>7. IsIdentity(PageTables) => IsIdentity(PageTables)'
    BY <1>1, <1>2 DEF IsIdentity
  <1>8. SuitableMachines /\ mmap \in Maps /\ IsIdentity(Freed \cap Nat)
          => IsIdentity(Freed \cap Nat)'
    BY <1>1, <1>3, <1>5 DEF IsIdentity
  <1>9. mark(start, end) \cap KernelPages = {} /\ KernelIsMapped => KernelIsMapped'
    BY <1>1, <1>4 DEF KernelIsMapped, KernelFrame
  <1> QED BY <1>1, <1>6, <1>7, <1>8, <1>9

(* On the bootstrap directory, platform_init may write the page tables. *)
LEMMA ReachesOnBootstrap ==
  ASSUME dir[cr3] = "large"
  PROVE  Reaches({}) /\ Reaches(PageTables)
  <1>1. \A v : Translate(v) = Bootstrap[v]
    BY DEF Translate
  <1> QED BY <1>1, BootstrapReaches DEF Reaches

(* On the kernel's one, also what was mapped for it. *)
LEMMA ReachesOnKernel ==
  ASSUME SuitableMachines, mmap \in Maps, PlatInv, pc \in OnKernelTable,
         NEW size \in 0 .. AddrMod \div PAGE_SIZE
  PROVE  /\ Reaches(PageTables)
         /\ Reaches(mark(BITMAP_BASE, BITMAP_BASE + size))
         /\ pc = "print" => Reaches(FramebufferFrames)
  <1>1. KernelIsMapped /\ IsIdentity(LowMemory) /\ IsIdentity(PageTables)
        /\ IsIdentity(Freed \cap Nat) /\ (pc = "print" => IsIdentity(FramebufferFrames))
    BY DEF PlatInv, MapInv, OnKernelTable, Managed
  <1>2. mark(BITMAP_BASE, BITMAP_BASE + size) \subseteq Freed \cap Nat
    BY BitmapIsOffered
  <1>3. dir[cr3] = "tables"
    BY DEF PlatInv, DirInv, OnKernelTable, Managed
  <1>4. \A v : Translate(v) = pt[v]
    BY <1>3 DEF Translate
  <1> QED BY <1>1, <1>2, <1>4 DEF Reaches, IsIdentity, KernelIsMapped

-----------------------------------------------------------------------------
(* What the steps before the switch leave alone. *)
LEMMA MappingStep ==
  ASSUME PlatInv, pc \in Mapping, pc' \in Mapping, NEW S, Reaches(S), Access(S),
         UNCHANGED <<frameVars, i, fb_info, heap_frames, vmm_frames>>
  PROVE  FrameInv' /\ ControlInv' /\ LoopInv'
  <1>1. FrameInv'
    BY StepPreservesFrameInv DEF PlatInv
  <1>2. ~fault'
    BY DEF Access, PlatInv, ControlInv
  <1>3. ~ready
    BY DEF PlatInv, ControlInv, Mapping, Managed
  <1>4. ControlInv'
    BY <1>2, <1>3 DEF PlatInv, ControlInv, Mapping, Managed, OnKernelTable, frameVars
  <1>5. LoopInv'
    BY DEF PlatInv, LoopInv, Mapping, Managed, frameVars
  <1> QED BY <1>1, <1>4, <1>5

(* Before the switch, the bootstrap directory is in use. *)
LEMMA BootstrapInUse ==
  ASSUME PlatInv, pc \in Mapping
  PROVE  cr3 = PG_DIR /\ Reaches({}) /\ Reaches(PageTables)
  <1>1. cr3 = PG_DIR /\ dir[cr3] = "large"
    BY DEF PlatInv, DirInv, Mapping, OnKernelTable, Managed
  <1> QED BY <1>1, ReachesOnBootstrap

(* PageDirectory::init zeroes the directory that is not in use ... *)
LEMMA PdZeroPreserves ==
  ASSUME PlatInv, PdZero
  PROVE  PlatInv'
  <1>1. pc \in Mapping /\ pc' = "pd_wire" /\ pc' \in Mapping
    BY DEF PdZero, At, Mapping
  <1>2. FrameInv' /\ ControlInv' /\ LoopInv'
    BY <1>1, BootstrapInUse, MappingStep DEF PdZero
  <1>3. MapInv'
    BY <1>1 DEF MapInv, OnKernelTable, Managed
  <1>4. DirInv'
    BY <1>1, BootstrapInUse, Layout DEF PlatInv, DirInv, PdZero, OnKernelTable, Managed
  <1> QED BY <1>2, <1>3, <1>4 DEF PlatInv

(* ... and wires it to the page tables. *)
LEMMA PdWirePreserves ==
  ASSUME PlatInv, PdWire
  PROVE  PlatInv'
  <1>1. pc \in Mapping /\ pc' = "map_kernel" /\ pc' \in Mapping
    BY DEF PdWire, At, Mapping
  <1>2. FrameInv' /\ ControlInv' /\ LoopInv'
    BY <1>1, BootstrapInUse, MappingStep DEF PdWire
  <1>3. MapInv'
    BY <1>1 DEF MapInv, OnKernelTable, Managed
  <1>4. DirInv'
    BY <1>1, BootstrapInUse, Layout DEF PlatInv, DirInv, PdWire, OnKernelTable, Managed
  <1> QED BY <1>2, <1>3, <1>4 DEF PlatInv

(* The directories while the page tables are filled. *)
LEMMA DirUnchanged ==
  ASSUME PlatInv, UNCHANGED <<cr3, dir>>,
         pc \in OnKernelTable <=> pc' \in OnKernelTable, pc \notin {"pd_init", "pd_wire"}
  PROVE  DirInv'
  BY DEF PlatInv, DirInv

(* The higher half. *)
LEMMA MapKernelPreserves ==
  ASSUME PlatInv, MapKernel
  PROVE  PlatInv'
  <1>1. pc \in Mapping /\ pc = "map_kernel" /\ pc' = "map_low" /\ pc' \in Mapping
    BY DEF MapKernel, At, Mapping
  <1>2. FrameInv' /\ ControlInv' /\ LoopInv'
    BY <1>1, BootstrapInUse, MappingStep DEF MapKernel, Map
  <1>3. KernelIsMapped'
    BY KernelPagesAre DEF MapKernel, Map, KernelIsMapped, KernelFrame
  <1>4. MapInv'
    BY <1>1, <1>3 DEF MapInv, OnKernelTable, Managed
  <1>5. DirInv'
    BY <1>1, DirUnchanged DEF MapKernel, Map, Mapping, OnKernelTable, Managed
  <1> QED BY <1>2, <1>4, <1>5 DEF PlatInv

(* Low memory. *)
LEMMA MapLowPreserves ==
  ASSUME PlatInv, MapLow
  PROVE  PlatInv'
  <1>1. pc \in Mapping /\ pc = "map_low" /\ pc' = "map_tables" /\ pc' \in Mapping
    BY DEF MapLow, At, Mapping
  <1>2. FrameInv' /\ ControlInv' /\ LoopInv'
    BY <1>1, BootstrapInUse, MappingStep DEF MapLow, Map
  <1>3. pt' = identity_map_range(0, PAGE_BASE) /\ mmap' = mmap /\ fb_info' = fb_info
    BY DEF MapLow, Map, frameVars
  <1>4. mark(0, PAGE_BASE) \cap KernelPages = {}
    BY Layout, Room, LowIsApart
  <1>5. KernelIsMapped'
    BY <1>1, <1>3, <1>4, IdentityMapKeeps DEF PlatInv, MapInv
  <1>7. IsIdentity(LowMemory)'
    BY <1>3, PageTablesAre, IdentityMapKeeps DEF IsIdentity, LowMemory, BIOS_BASE
  <1>8. MapInv'
    BY <1>1, <1>5, <1>7 DEF MapInv, OnKernelTable, Managed
  <1>9. DirInv'
    BY <1>1, DirUnchanged DEF MapLow, Map, Mapping, OnKernelTable, Managed
  <1> QED BY <1>2, <1>8, <1>9 DEF PlatInv

(* The page tables. *)
LEMMA MapTablesPreserves ==
  ASSUME PlatInv, MapTables
  PROVE  PlatInv'
  <1>1. pc \in Mapping /\ pc = "map_tables" /\ pc' = "map_fb" /\ pc' \in Mapping
    BY DEF MapTables, At, Mapping
  <1>2. FrameInv' /\ ControlInv' /\ LoopInv'
    BY <1>1, BootstrapInUse, MappingStep DEF MapTables, Map
  <1>3. pt' = identity_map_range(PAGE_BASE, BITMAP_BASE) /\ mmap' = mmap /\ fb_info' = fb_info
    BY DEF MapTables, Map, frameVars
  <1>4. mark(PAGE_BASE, BITMAP_BASE) \cap KernelPages = {}
    BY Layout, Room, LowIsApart
  <1>5. KernelIsMapped' /\ IsIdentity(LowMemory)'
    BY <1>1, <1>3, <1>4, IdentityMapKeeps DEF PlatInv, MapInv
  <1>6. IsIdentity(PageTables)'
    BY <1>3, PageTablesAre, IdentityMapKeeps DEF IsIdentity, PageTables
  <1>7. MapInv'
    BY <1>1, <1>5, <1>6 DEF MapInv, OnKernelTable, Managed
  <1>8. DirInv'
    BY <1>1, DirUnchanged DEF MapTables, Map, Mapping, OnKernelTable, Managed
  <1> QED BY <1>2, <1>7, <1>8 DEF PlatInv

(* The framebuffer. *)
LEMMA MapFramebufferPreserves ==
  ASSUME SuitableMachines, PlatInv, MapFramebuffer
  PROVE  PlatInv'
  <1>1. pc \in Mapping /\ pc = "map_fb" /\ pc' = "map_usable" /\ pc' \in Mapping
    BY DEF MapFramebuffer, At, Mapping
  <1>2. FrameInv' /\ ControlInv' /\ LoopInv'
    BY <1>1, BootstrapInUse, MappingStep DEF MapFramebuffer, Map
  <1> DEFINE end == (fb_info.base + fb_info.size) % AddrMod
  <1>3. pt' = identity_map_range(fb_info.base, end) /\ mmap' = mmap /\ fb_info' = fb_info
    BY DEF MapFramebuffer, Map, frameVars
  <1>4. mark(fb_info.base, end) \cap KernelPages = {}
        /\ FramebufferFrames \subseteq mark(fb_info.base, end)
        /\ FramebufferFrames \subseteq AllPages
    BY FramebufferIsApart DEF PlatInv, ControlInv, FramebufferFrames
  <1> HIDE DEF end
  <1>5. KernelIsMapped' /\ IsIdentity(LowMemory)' /\ IsIdentity(PageTables)'
    BY <1>1, <1>3, <1>4, IdentityMapKeeps DEF PlatInv, MapInv
  <1>6. IsIdentity(FramebufferFrames)'
    <2>1. FramebufferFrames' = FramebufferFrames
      BY <1>3 DEF FramebufferFrames
    <2> QED BY <1>3, <1>4, <2>1, IdentityMapKeeps DEF IsIdentity
  <1>7. MapInv'
    BY <1>1, <1>5, <1>6 DEF MapInv, OnKernelTable, Managed
  <1>8. DirInv'
    BY <1>1, DirUnchanged DEF MapFramebuffer, Map, Mapping, OnKernelTable, Managed
  <1> QED BY <1>2, <1>7, <1>8 DEF PlatInv

(* The memory that the map offers. *)
LEMMA MapUsablePreserves ==
  ASSUME SuitableMachines, PlatInv, MapUsable
  PROVE  PlatInv'
  <1>1. pc \in Mapping /\ pc = "map_usable" /\ pc' = "enable" /\ pc' \in Mapping
    BY DEF MapUsable, At, Mapping
  <1>2. FrameInv' /\ ControlInv' /\ LoopInv'
    BY <1>1, BootstrapInUse, MappingStep DEF MapUsable, Map
  <1>3. \A v \in AllPages : pt'[v] = IF v \in Freed THEN v ELSE pt[v]
    BY DEF MapUsable, Map
  <1>4. Freed' = Freed /\ mmap \in Maps
    BY DEF MapUsable, Map, frameVars, Freed, Usable, EntryEnd, PlatInv, FrameInv, FrameTypeOK
  <1>5. KernelIsMapped /\ IsIdentity(LowMemory) /\ IsIdentity(PageTables)
        /\ IsIdentity(FramebufferFrames)
    BY <1>1 DEF PlatInv, MapInv
  <1>6. KernelIsMapped'
    BY <1>3, <1>4, <1>5, FreedAreApart, KernelPagesAre DEF KernelIsMapped, KernelFrame
  <1>7. IsIdentity(LowMemory)' /\ IsIdentity(PageTables)' /\ IsIdentity(FramebufferFrames)'
    <2>1. FramebufferFrames' = FramebufferFrames /\ FramebufferFrames \subseteq AllPages
      BY DEF FramebufferFrames, MapUsable, Map
    <2> QED BY <1>3, <1>5, <2>1, PageTablesAre DEF IsIdentity
  <1>8. IsIdentity(Freed \cap Nat)'
    BY <1>3, <1>4, FreedAreApart DEF IsIdentity
  <1>9. MapInv'
    BY <1>6, <1>7, <1>8 DEF MapInv
  <1>10. DirInv'
    BY <1>1, DirUnchanged DEF MapUsable, Map, Mapping, OnKernelTable, Managed
  <1> QED BY <1>2, <1>9, <1>10 DEF PlatInv

(* The switch to the kernel's page directory. *)
LEMMA EnablePreserves ==
  ASSUME PlatInv, Enable
  PROVE  PlatInv'
  <1>1. /\ pc = "enable" /\ pc' = "print" /\ cr3' = page_directory
        /\ UNCHANGED <<pt, dir, fb_info, mmap>>
    BY DEF Enable, At, frameVars
  <1>2. FrameInv'
    BY StepPreservesFrameInv DEF PlatInv, Enable
  <1>3. MapInv'
    <2>1. Freed' = Freed /\ FramebufferFrames' = FramebufferFrames
      BY <1>1 DEF Freed, Usable, EntryEnd, FramebufferFrames
    <2> QED BY <1>1, <2>1 DEF PlatInv, MapInv, IsIdentity, KernelIsMapped, OnKernelTable
  <1>4. DirInv'
    BY <1>1 DEF PlatInv, DirInv, OnKernelTable
  <1>5. ~fault'
    <2>1. dir'[cr3'] = "tables"
      BY <1>1 DEF PlatInv, DirInv
    <2>2. KernelIsMapped /\ IsIdentity(LowMemory)
      BY <1>1 DEF PlatInv, MapInv
    <2>3. \A v : Translate(v)' = pt[v]
      BY <1>1, <2>1 DEF Translate
    <2>4. Reaches({})'
      BY <2>2, <2>3 DEF Reaches, KernelIsMapped, IsIdentity
    <2> QED BY <2>4 DEF Enable, PlatInv, ControlInv
  <1>6. ControlInv'
    BY <1>1, <1>5 DEF PlatInv, ControlInv, Enable, frameVars, OnKernelTable, Managed, Mapping
  <1>7. LoopInv'
    BY <1>1 DEF PlatInv, LoopInv, Enable, frameVars, Managed
  <1> QED BY <1>2, <1>3, <1>4, <1>6, <1>7 DEF PlatInv

(* The memory map is printed. *)
LEMMA PrintMapPreserves ==
  ASSUME SuitableMachines, PlatInv, PrintMap
  PROVE  PlatInv'
  <1>1. /\ pc = "print" /\ pc' = "frames" /\ pc \in OnKernelTable
        /\ UNCHANGED <<cr3, dir, pt, fb_info, mmap>>
    BY DEF PrintMap, At, frameVars, OnKernelTable
  <1>2. FrameInv' /\ mmap \in Maps /\ bitmap_size \in 0 .. AddrMod \div PAGE_SIZE
    BY StepPreservesFrameInv DEF PlatInv, PrintMap, FrameInv, FrameTypeOK
  <1>3. MapInv'
    <2>1. Freed' = Freed
      BY <1>1 DEF Freed, Usable, EntryEnd
    <2> QED BY <1>1, <2>1 DEF PlatInv, MapInv, IsIdentity, KernelIsMapped, OnKernelTable
  <1>4. DirInv'
    BY <1>1, DirUnchanged DEF OnKernelTable
  <1>5. ~fault'
    BY <1>1, <1>2, ReachesOnKernel DEF PrintMap, Access, PlatInv, ControlInv
  <1>6. ControlInv'
    BY <1>1, <1>5 DEF PlatInv, ControlInv, PrintMap, frameVars, OnKernelTable, Managed
  <1>7. LoopInv'
    BY <1>1 DEF PlatInv, LoopInv, PrintMap, frameVars, Managed
  <1> QED BY <1>2, <1>3, <1>4, <1>6, <1>7 DEF PlatInv

(* FrameAllocator::init. *)
LEMMA InitFramesPreserves ==
  ASSUME SuitableMachines, PlatInv, InitFrames
  PROVE  PlatInv'
  <1>1. pc = "frames" /\ pc' = "heap" /\ pc \in OnKernelTable 
        /\ UNCHANGED <<pt, cr3, dir, fb_info>>
    BY DEF InitFrames, At, OnKernelTable
  <1>2. FrameInit /\ FrameInv /\ FrameInv' /\ Enough' /\ ready' /\ mmap' = mmap /\ held' = {}
    BY FrameInitEstablishes, InitLeavesEnough
       DEF InitFrames, PlatInv, FrameInit, FrameInv, NothingHeldBeforeInit
  <1>3. bitmap_size' \in 0 .. AddrMod \div PAGE_SIZE /\ mmap \in Maps
    BY <1>2 DEF FrameInv, FrameTypeOK
  <1>4. ~fault'
    BY <1>1, <1>3, ReachesOnKernel DEF InitFrames, Access, PlatInv, ControlInv
  <1>5. MapInv'
    <2>1. Freed' = Freed
      BY <1>2 DEF Freed, Usable, EntryEnd
    <2> QED BY <1>1, <2>1 DEF PlatInv, MapInv, IsIdentity, KernelIsMapped, OnKernelTable, Managed
  <1>8. DirInv'
    BY <1>1, DirUnchanged DEF OnKernelTable, Managed
  <1>6. ControlInv'
    BY <1>1, <1>2, <1>4 DEF PlatInv, ControlInv, InitFrames, OnKernelTable, Managed
  <1>7. LoopInv'
    <2>1. i' = 0 /\ heap_frames' = {} /\ vmm_frames' = {}
      BY <1>1 DEF PlatInv, LoopInv, InitFrames, Managed
    <2>2. FirstFrame' \in Nat
      BY <1>2 DEF Enough
    <2>3. \A b \in Nat : b .. b + 0 - 1 = {}
      OBVIOUS
    <2>4. 0 \in 0 .. HEAP_PAGES /\ ~(0 > 0)
      BY Layout
    <2>5. Handed(i)' = {}
      BY <2>1, <2>2, <2>3 DEF Handed
    <2> QED BY <1>1, <1>2, <2>1, <2>4, <2>5 DEF LoopInv, Managed
  <1> QED BY <1>2, <1>5, <1>6, <1>7, <1>8 DEF PlatInv

-----------------------------------------------------------------------------
(* alloc_frame hands out the frame behind the ones that it handed out before. *)
LEMMA TakesNext ==
  ASSUME SuitableMachines, PlatInv, pc \in Managed, NEW n \in Nat, n < Taken,
         held = Handed(n), AllocFrame
  PROVE  /\ FrameInv' /\ ~fault' /\ FirstFrame' = FirstFrame /\ FirstFrame \in Nat
         /\ UNCHANGED <<mmap, ready>>
         /\ Enough'
         /\ ret' = (FirstFrame + n) * PAGE_SIZE
         /\ held' = held \cup {FirstFrame + n}
         /\ FirstFrame + n \notin held
  <1>1. FrameInv /\ ready /\ Enough /\ FirstFrame \in Nat /\ Taken \in Nat
    BY Layout DEF PlatInv, ControlInv, Enough, Taken
  <1>2. FirstFrame + n \in Pool \ held
    BY <1>1 DEF Enough, Handed
  <1>3. Scanned \ used = Pool \ held /\ mmap \in Maps
        /\ bitmap_size \in 0 .. AddrMod \div PAGE_SIZE
    BY <1>1 DEF FrameInv, FramesConserved, FrameTypeOK
  <1>4. ~alloc_frame_fails
    BY <1>2, <1>3 DEF alloc_frame_fails
  <1>5. PICK f \in Scanned : alloc_frame(f)
    BY <1>4 DEF AllocFrame
  <1>6. /\ f \in Pool \ held /\ f <= FirstFrame + n
        /\ ret' = f * PAGE_SIZE /\ held' = held \cup {f}
        /\ UNCHANGED <<mmap, ready, bitmap_size>>
    BY <1>2, <1>3, <1>5 DEF alloc_frame
  <1>7. f = FirstFrame + n
    <2>1. f \in Nat /\ FirstFrame <= f
      BY <1>1, <1>6 DEF Enough
    <2>2. ~(f < FirstFrame + n)
      BY <1>1, <1>6, <2>1 DEF Handed
    <2> QED BY <1>1, <1>6, <2>1, <2>2
  <1>8. FrameInv'
    BY <1>1, <1>5, AllocPreserves
  <1>9. FirstFrame' = FirstFrame /\ Enough'
    <2>1. Pool' = Pool
      BY <1>6, SetsUnchanged
    <2>2. FirstFrame' = FirstFrame
      BY <1>6 DEF FirstFrame
    <2> QED BY <1>1, <2>1, <2>2 DEF Enough
  <1>10. ~fault'
    <2>1. pc \in OnKernelTable
      BY DEF OnKernelTable
    <2> QED BY <1>3, <2>1, ReachesOnKernel DEF AllocFrame, Access, PlatInv, ControlInv
  <1> QED BY <1>1, <1>2, <1>6, <1>7, <1>8, <1>9, <1>10

(* One frame more. *)
LEMMA OneMore ==
  ASSUME NEW b \in Nat, NEW n \in Nat
  PROVE  (b .. b + n - 1) \cup {b + n} = b .. b + (n + 1) - 1
  OBVIOUS

(* Where nothing is mapped, MapInv does not change. *)
LEMMA MapInvUnchanged ==
  ASSUME MapInv, UNCHANGED <<pc, pt, mmap, fb_info>>
  PROVE  MapInv'
  <1>1. Freed' = Freed /\ FramebufferFrames' = FramebufferFrames
    BY DEF Freed, Usable, EntryEnd, FramebufferFrames
  <1> QED BY <1>1 DEF MapInv, IsIdentity, KernelIsMapped

(* A frame of the heap. *)
LEMMA HeapFramePreserves ==
  ASSUME SuitableMachines, PlatInv, HeapFrame
  PROVE  PlatInv'
  <1>1. /\ pc = "heap" /\ pc' = "heap" /\ i < HEAP_PAGES /\ AllocFrame
        /\ heap_end' = ret' /\ heap_start' = IF i = 0 THEN ret' ELSE heap_start
        /\ heap_frames' = heap_frames \cup (held' \ held) /\ i' = i + 1
        /\ UNCHANGED <<pc, cr3, dir, pt, fb_info, total_size, bitmap_start, vmm_frames>>
    BY DEF HeapFrame
  <1>2. /\ i \in Nat /\ held = Handed(i) /\ heap_frames = Handed(i) /\ vmm_frames = {}
        /\ i > 0 => /\ heap_start = FirstFrame * PAGE_SIZE
    BY <1>1, Layout DEF PlatInv, LoopInv
  <1>3. i < Taken /\ pc \in Managed
    BY <1>1, <1>2, Layout DEF Taken, Managed
  <1>4. /\ FrameInv' /\ ~fault' /\ FirstFrame' = FirstFrame /\ FirstFrame \in Nat
        /\ UNCHANGED <<mmap, ready>> /\ Enough'
        /\ ret' = (FirstFrame + i) * PAGE_SIZE
        /\ held' = held \cup {FirstFrame + i}
        /\ FirstFrame + i \notin held
    BY <1>1, <1>2, <1>3, TakesNext
  <1>5. MapInv'
    BY <1>1, <1>4, MapInvUnchanged DEF PlatInv
  <1>6. ControlInv'
    BY <1>1, <1>4 DEF PlatInv, ControlInv
  <1>7. LoopInv'
    <2>1. held' = Handed(i)' /\ heap_frames' = Handed(i)'
      <3>1. Handed(i) \cup {FirstFrame + i} = Handed(i)'
        BY <1>1, <1>2, <1>4, OneMore DEF Handed
      <3>2. held' \ held = {FirstFrame + i}
        BY <1>4
      <3> QED BY <1>1, <1>2, <1>4, <3>1, <3>2
    <2>2. i' \in 0 .. HEAP_PAGES
      BY <1>1, <1>2, Layout
    <2>3. heap_start' = FirstFrame' * PAGE_SIZE /\ heap_end' = (FirstFrame' + (i' - 1)) * PAGE_SIZE
      <3>1. i = 0 => FirstFrame + i = FirstFrame
        BY <1>4
      <3>2. i' - 1 = i
        BY <1>1, <1>2
      <3>3. i = 0 \/ i > 0
        BY <1>2
      <3> QED BY <1>1, <1>2, <1>4, <3>1, <3>2, <3>3
    <2> QED BY <1>1, <1>2, <2>1, <2>2, <2>3 DEF LoopInv, Managed
  <1>8. DirInv'
    BY <1>1, DirUnchanged DEF OnKernelTable, Managed
  <1> QED BY <1>4, <1>5, <1>6, <1>7, <1>8 DEF PlatInv

(* A frame of the VMM's bitmap. *)
LEMMA VmmFramePreserves ==
  ASSUME SuitableMachines, PlatInv, VmmFrame
  PROVE  PlatInv'
  <1>1. /\ pc = "vmm" /\ pc' = "vmm" /\ i < VmmPages /\ AllocFrame
        /\ bitmap_start' = IF i = 0 THEN ret' ELSE bitmap_start
        /\ vmm_frames' = vmm_frames \cup (held' \ held) /\ i' = i + 1
        /\ UNCHANGED <<pc, cr3, dir, pt, fb_info, heap_start, heap_end, total_size, heap_frames>>
    BY DEF VmmFrame
  <1> DEFINE n == HEAP_PAGES + i
  <1>2. /\ i \in Nat /\ held = Handed(n) /\ vmm_frames = Handed(n) \ Handed(HEAP_PAGES)
        /\ i > 0 => bitmap_start = (FirstFrame + HEAP_PAGES) * PAGE_SIZE
        /\ HeapInv
    BY <1>1, Layout DEF PlatInv, LoopInv
  <1>3. n < Taken /\ n \in Nat /\ pc \in Managed
    BY <1>1, <1>2, Layout DEF Taken, Managed
  <1> HIDE DEF n
  <1>4. /\ FrameInv' /\ ~fault' /\ FirstFrame' = FirstFrame /\ FirstFrame \in Nat
        /\ UNCHANGED <<mmap, ready>> /\ Enough'
        /\ ret' = (FirstFrame + n) * PAGE_SIZE
        /\ held' = held \cup {FirstFrame + n}
        /\ FirstFrame + n \notin held
    BY <1>1, <1>2, <1>3, TakesNext
  <1>5. MapInv'
    BY <1>1, <1>4, MapInvUnchanged DEF PlatInv
  <1>6. ControlInv'
    BY <1>1, <1>4 DEF PlatInv, ControlInv
  <1>7. LoopInv'
    <2>0. HEAP_PAGES + i' = n + 1
      BY <1>1, <1>2, Layout DEF n
    <2>1. Handed(HEAP_PAGES)' = Handed(HEAP_PAGES)
      BY <1>4 DEF Handed
    <2>2. Handed(n) \cup {FirstFrame + n} = Handed(HEAP_PAGES + i)'
      <3>1. Handed(HEAP_PAGES + i)' = FirstFrame .. FirstFrame + (n + 1) - 1
        BY <2>0, <1>4 DEF Handed
      <3> QED BY <3>1, <1>3, <1>4, OneMore DEF Handed
    <2>3. FirstFrame + n \notin Handed(HEAP_PAGES)
      BY <1>2, <1>4, Layout DEF Handed, n
    <2>4. held' = Handed(HEAP_PAGES + i)'
      BY <1>2, <1>4, <2>2
    <2>5. vmm_frames' = Handed(HEAP_PAGES + i)' \ Handed(HEAP_PAGES)'
      <3>1. held' \ held = {FirstFrame + n}
        BY <1>4
      <3> HIDE DEF Handed
      <3> QED BY <1>1, <1>2, <2>1, <2>2, <2>3, <3>1
    <2>6. i' \in 0 .. VmmPages
      BY <1>1, <1>2, Layout
    <2>7. bitmap_start' = (FirstFrame' + HEAP_PAGES) * PAGE_SIZE
      <3>1. i = 0 => n = HEAP_PAGES
        BY Layout DEF n
      <3>2. i = 0 \/ i > 0
        BY <1>2
      <3> QED BY <1>1, <1>2, <1>4, <3>1, <3>2
    <2>8. HeapInv'
      BY <1>1, <1>2, <1>4, <2>1 DEF HeapInv
    <2> QED BY <1>1, <2>4, <2>5, <2>6, <2>7, <2>8 DEF LoopInv, Managed
  <1>8. DirInv'
    BY <1>1, DirUnchanged DEF OnKernelTable, Managed
  <1> QED BY <1>4, <1>5, <1>6, <1>7, <1>8 DEF PlatInv

(* A region of frames below the kernel is mapped. *)
LEMMA RegionIsMapped ==
  ASSUME SuitableMachines, PlatInv, pc \in Managed, pc' \in Managed, UNCHANGED <<mmap, fb_info>>,
         NEW a \in Nat, NEW b \in Nat, PAGE_SIZE * b <= KERNEL_VMA,
         pt' = identity_map_range(a * PAGE_SIZE, b * PAGE_SIZE)
  PROVE  MapInv' /\ \A f \in a .. b - 1 : pt'[f] = f
  <1>1. a * PAGE_SIZE \in Nat /\ b * PAGE_SIZE \in Nat /\ b * PAGE_SIZE = PAGE_SIZE * b
    BY FrameAddresses
  <1>2. mark(a * PAGE_SIZE, b * PAGE_SIZE) \cap KernelPages = {}
    BY <1>1, LowIsApart
  <1>3. /\ KernelIsMapped /\ IsIdentity(LowMemory) /\ IsIdentity(PageTables)
        /\ IsIdentity(Freed \cap Nat) /\ mmap \in Maps
    BY DEF PlatInv, MapInv, FrameInv, FrameTypeOK, OnKernelTable, Managed
  <1>4. /\ KernelIsMapped' /\ IsIdentity(LowMemory)' /\ IsIdentity(PageTables)'
        /\ IsIdentity(Freed \cap Nat)'
    BY <1>2, <1>3, IdentityMapKeeps
  <1>5. mark(a * PAGE_SIZE, b * PAGE_SIZE) = a .. b - 1
    BY MarkOfFrames
  <1>6. ASSUME NEW f \in a .. b - 1 PROVE pt'[f] = f
    <2>1. f \in Nat /\ f < b
      OBVIOUS
    <2>2. PAGE_SIZE * f + PAGE_SIZE <= KERNEL_VMA /\ PAGE_SIZE * f \in Nat
      BY <2>1, Room, Times, Layout
    <2>3. f \in AllPages
      BY <2>1, <2>2, Layout, Room, BelowTop
    <2> QED BY <1>5, <2>3, IdentityMapKeeps
  <1> QED BY <1>4, <1>6 DEF MapInv, Managed

(* Heap::init maps its region. *)
LEMMA HeapMapPreserves ==
  ASSUME SuitableMachines, PlatInv, HeapMap
  PROVE  PlatInv'
  <1>1. /\ pc = "heap" /\ pc' = "vmm" /\ i = HEAP_PAGES /\ i' = 0
        /\ pt' = identity_map_range(heap_start, (heap_end + PAGE_SIZE) % AddrMod)
        /\ total_size' = ((heap_end + PAGE_SIZE) - heap_start) % AddrMod
        /\ UNCHANGED <<frameVars, cr3, dir, fb_info, heap_start, heap_end, heap_frames,
                       bitmap_start, vmm_frames>>
    BY DEF HeapMap, At
  <1>2. pc \in Managed /\ pc' \in Managed /\ pc \in OnKernelTable
    BY <1>1 DEF Managed, OnKernelTable
  <1>3. FrameInv' /\ FrameInv
    BY <1>1, StepPreservesFrameInv DEF PlatInv
  <1>4. Enough /\ Enough' /\ FirstFrame' = FirstFrame /\ FirstFrame \in Nat /\ ready' = ready
        /\ mmap' = mmap /\ held' = held
    <2>1. UNCHANGED <<mmap, bitmap_size, ready, held>>
      BY <1>1 DEF frameVars
    <2>2. Pool' = Pool
      BY <2>1, SetsUnchanged
    <2>3. FirstFrame' = FirstFrame
      BY <2>1 DEF FirstFrame
    <2>4. Enough
      BY <1>2 DEF PlatInv, ControlInv
    <2>5. Enough'
      BY <2>2, <2>3, <2>4 DEF Enough
    <2> QED BY <2>1, <2>3, <2>4, <2>5 DEF Enough
  <1> DEFINE a == FirstFrame
             b == FirstFrame + HEAP_PAGES
  <1>5. a \in Nat /\ b \in Nat /\ a < b /\ PAGE_SIZE * b <= KERNEL_VMA
    <2>1. b \in Nat /\ FirstFrame + Taken \in Nat /\ b <= FirstFrame + Taken
      BY <1>4, Layout DEF Taken
    <2>2. b * PAGE_SIZE <= (FirstFrame + Taken) * PAGE_SIZE
      BY <2>1, FrameAddresses
    <2>3. b * PAGE_SIZE = PAGE_SIZE * b /\ PAGE_SIZE * b \in Nat
          /\ (FirstFrame + Taken) * PAGE_SIZE = PAGE_SIZE * (FirstFrame + Taken)
          /\ PAGE_SIZE * (FirstFrame + Taken) \in Nat
      BY <2>1, FrameAddresses
    <2>4. PAGE_SIZE * b <= KERNEL_VMA
      BY <1>4, <2>2, <2>3, Layout DEF Enough
    <2> QED BY <1>4, <2>1, <2>4, Layout
  <1>6. heap_start = a * PAGE_SIZE /\ heap_end + PAGE_SIZE = b * PAGE_SIZE
    <2>1. heap_start = FirstFrame * PAGE_SIZE
          /\ heap_end = (FirstFrame + (HEAP_PAGES - 1)) * PAGE_SIZE
      BY <1>1, Layout DEF PlatInv, LoopInv
    <2>2. FirstFrame + (HEAP_PAGES - 1) \in Nat /\ b = (FirstFrame + (HEAP_PAGES - 1)) + 1
      BY <1>4, Layout
    <2>3. (FirstFrame + (HEAP_PAGES - 1)) * PAGE_SIZE + 1 * PAGE_SIZE
            = ((FirstFrame + (HEAP_PAGES - 1)) + 1) * PAGE_SIZE
      BY <2>2, FrameAddresses
    <2>4. 1 * PAGE_SIZE = PAGE_SIZE
      BY Room
    <2> QED BY <2>1, <2>2, <2>3, <2>4
  <1>7. /\ a * PAGE_SIZE \in Nat /\ b * PAGE_SIZE \in Nat /\ b * PAGE_SIZE <= KERNEL_VMA
        /\ HEAP_PAGES * PAGE_SIZE \in Nat
        /\ b * PAGE_SIZE = a * PAGE_SIZE + HEAP_PAGES * PAGE_SIZE
    BY <1>4, <1>5, FrameAddresses, Layout
  <1>8. (b * PAGE_SIZE) % AddrMod = b * PAGE_SIZE
    <2> DEFINE B == b * PAGE_SIZE
    <2>1. B \in Nat /\ B < AddrMod
      BY <1>7, Layout, Room
    <2> HIDE DEF B
    <2>2. B % AddrMod = B
      BY <2>1, Room
    <2> QED BY <2>2 DEF B
  <1>9. total_size' = HEAP_PAGES * PAGE_SIZE
    <2> DEFINE H == HEAP_PAGES * PAGE_SIZE
    <2>1. H \in Nat /\ H < AddrMod /\ (b * PAGE_SIZE) - (a * PAGE_SIZE) = H
      BY <1>7, Layout, Room
    <2>2. H % AddrMod = H
      <3> HIDE DEF H
      <3> QED BY <2>1, Room
    <2> QED BY <1>1, <1>6, <2>1, <2>2
  <1>10. pt' = identity_map_range(a * PAGE_SIZE, b * PAGE_SIZE)
    BY <1>1, <1>6, <1>8
  <1> HIDE DEF a, b
  <1>11. MapInv' /\ \A f \in a .. b - 1 : pt'[f] = f
    BY <1>1, <1>2, <1>4, <1>5, <1>10, RegionIsMapped
  <1>12. ~fault'
    <2>1. get_frame_number(heap_start) = a
      BY <1>5, <1>6, Room, QuotientOfMultiple DEF get_frame_number
    <2>2. pt'[a] = a
      BY <1>5, <1>11
    <2>3. mmap \in Maps /\ bitmap_size \in 0 .. AddrMod \div PAGE_SIZE
      BY <1>3 DEF FrameInv, FrameTypeOK
    <2>4. Reaches(PageTables)
      BY <1>2, <2>3, ReachesOnKernel
    <2> QED BY <2>1, <2>2, <2>4 DEF HeapMap, PlatInv, ControlInv
  <1>13. ControlInv'
    BY <1>1, <1>2, <1>4, <1>12 DEF PlatInv, ControlInv, Managed, OnKernelTable
  <1>14. LoopInv'
    <2>1. held = Handed(HEAP_PAGES) /\ heap_frames = Handed(HEAP_PAGES) /\ vmm_frames = {}
      BY <1>1 DEF PlatInv, LoopInv
    <2>2. Handed(HEAP_PAGES)' = Handed(HEAP_PAGES) /\ Handed(HEAP_PAGES + i)' = Handed(HEAP_PAGES)
      <3>1. HEAP_PAGES + i' = HEAP_PAGES
        BY <1>1, Layout
      <3> QED BY <3>1, <1>4 DEF Handed
    <2>3. HeapInv'
      BY <1>1, <1>4, <1>6, <1>9, <2>1, <2>2 DEF HeapInv, a
    <2>4. i' \in 0 .. VmmPages /\ ~(i' > 0)
      BY <1>1, Layout
    <2> QED BY <1>1, <1>4, <2>1, <2>2, <2>3, <2>4 DEF LoopInv, Managed
  <1>15. DirInv'
    BY <1>1, DirUnchanged DEF OnKernelTable, Managed
  <1> QED BY <1>3, <1>11, <1>13, <1>14, <1>15 DEF PlatInv

(* The VMM's bitmap, as frames. *)
LEMMA VmmRegion ==
  ASSUME Enough, bitmap_start = (FirstFrame + HEAP_PAGES) * PAGE_SIZE
  PROVE  LET a == FirstFrame + HEAP_PAGES
             b == FirstFrame + Taken
         IN /\ a \in Nat /\ b \in Nat /\ PAGE_SIZE * b <= KERNEL_VMA
            /\ bitmap_start + VmmPages * PAGE_SIZE = b * PAGE_SIZE
            /\ VmmBitmap = a .. b - 1
            /\ a .. b - 1 = Handed(Taken) \ Handed(HEAP_PAGES)
  <1> DEFINE a == FirstFrame + HEAP_PAGES
             b == FirstFrame + Taken
  <1>1. FirstFrame \in Nat /\ a \in Nat /\ b \in Nat /\ b = a + VmmPages
        /\ PAGE_SIZE * b <= KERNEL_VMA
    BY Layout DEF Enough, Taken
  <1>2. a .. b - 1 = Handed(Taken) \ Handed(HEAP_PAGES)
    BY <1>1, Layout DEF Handed, Taken
  <1> HIDE DEF a, b
  <1>3. a * PAGE_SIZE + VmmPages * PAGE_SIZE = b * PAGE_SIZE
    BY <1>1, Layout, FrameAddresses
  <1>4. VmmBitmap = a .. b - 1
    BY <1>1, <1>3, MarkOfFrames DEF VmmBitmap, a
  <1> QED BY <1>1, <1>2, <1>3, <1>4 DEF a, b

(* VMM::init maps its bitmap. *)
LEMMA VmmMapPreserves ==
  ASSUME SuitableMachines, PlatInv, VmmMap
  PROVE  PlatInv'
  <1>1. /\ pc = "vmm" /\ pc' = "done" /\ i = VmmPages /\ i' = 0
        /\ pt' = identity_map_range(bitmap_start, bitmap_start + VmmPages * PAGE_SIZE)
        /\ UNCHANGED <<frameVars, cr3, dir, fb_info, heap_start, heap_end, total_size,
                       heap_frames, bitmap_start, vmm_frames>>
    BY DEF VmmMap, At
  <1>2. pc \in Managed /\ pc' \in Managed /\ pc \in OnKernelTable
    BY <1>1 DEF Managed, OnKernelTable
  <1>3. FrameInv' /\ FrameInv
    BY <1>1, StepPreservesFrameInv DEF PlatInv
  <1>4. Enough /\ Enough' /\ FirstFrame' = FirstFrame /\ ready' = ready /\ mmap' = mmap
    <2>1. UNCHANGED <<mmap, bitmap_size, ready>>
      BY <1>1 DEF frameVars
    <2>2. Pool' = Pool
      BY <2>1, SetsUnchanged
    <2>3. FirstFrame' = FirstFrame
      BY <2>1 DEF FirstFrame
    <2>4. Enough
      BY <1>2 DEF PlatInv, ControlInv
    <2> QED BY <2>1, <2>2, <2>3, <2>4 DEF Enough
  <1>5. /\ bitmap_start = (FirstFrame + HEAP_PAGES) * PAGE_SIZE /\ HeapInv
        /\ vmm_frames = Handed(Taken) \ Handed(HEAP_PAGES)
    BY <1>1, Layout DEF PlatInv, LoopInv, Taken
  <1> DEFINE a == FirstFrame + HEAP_PAGES
             b == FirstFrame + Taken
  <1>6. /\ a \in Nat /\ b \in Nat /\ PAGE_SIZE * b <= KERNEL_VMA
        /\ bitmap_start + VmmPages * PAGE_SIZE = b * PAGE_SIZE
        /\ VmmBitmap = a .. b - 1
    BY <1>4, <1>5, VmmRegion
  <1>7. pt' = identity_map_range(a * PAGE_SIZE, b * PAGE_SIZE)
    BY <1>1, <1>5, <1>6
  <1> HIDE DEF a, b
  <1>8. MapInv' /\ \A f \in a .. b - 1 : pt'[f] = f
    BY <1>1, <1>2, <1>4, <1>6, <1>7, RegionIsMapped
  <1>9. ~fault'
    <2>1. mmap \in Maps /\ bitmap_size \in 0 .. AddrMod \div PAGE_SIZE
      BY <1>3 DEF FrameInv, FrameTypeOK
    <2>2. Reaches(PageTables)
      BY <1>2, <2>1, ReachesOnKernel
    <2> QED BY <1>6, <1>8, <2>2 DEF VmmMap, PlatInv, ControlInv
  <1>10. ControlInv'
    BY <1>1, <1>2, <1>4, <1>9 DEF PlatInv, ControlInv, Managed, OnKernelTable
  <1>11. LoopInv'
    <2>1. Handed(HEAP_PAGES)' = Handed(HEAP_PAGES) /\ Handed(Taken)' = Handed(Taken)
      BY <1>4 DEF Handed
    <2>2. HeapInv'
      BY <1>1, <1>4, <1>5, <2>1 DEF HeapInv
    <2> QED BY <1>1, <1>4, <1>5, <2>1, <2>2 DEF LoopInv, Managed
  <1>12. DirInv'
    BY <1>1, DirUnchanged DEF OnKernelTable, Managed
  <1> QED BY <1>3, <1>8, <1>10, <1>11, <1>12 DEF PlatInv

(* A step that changes nothing. *)
LEMMA StutterPreservesPlatInv ==
  ASSUME PlatInv, UNCHANGED vars
  PROVE  PlatInv'
  <1>1. UNCHANGED frameVars /\ UNCHANGED platformVars
    BY DEF vars
  <1>2. /\ UNCHANGED <<mmap, ready, bitmap_size, held>>
        /\ UNCHANGED <<pc, i, cr3, dir, pt, fb_info, heap_start, heap_end, total_size,
                       heap_frames, bitmap_start, vmm_frames, fault>>
    BY <1>1 DEF frameVars, platformVars
  <1>3. FrameInv'
    BY <1>1, StepPreservesFrameInv DEF PlatInv
  <1>4. MapInv'
    BY <1>2, MapInvUnchanged DEF PlatInv
  <1>5. FirstFrame' = FirstFrame /\ Pool' = Pool
    BY <1>2, SetsUnchanged DEF FirstFrame
  <1>6. ControlInv'
    BY <1>2, <1>5 DEF PlatInv, ControlInv, Enough
  <1>7. LoopInv'
    BY <1>2, <1>5 DEF PlatInv, LoopInv, HeapInv, Handed
  <1>8. DirInv'
    BY <1>2 DEF PlatInv, DirInv
  <1> QED BY <1>3, <1>4, <1>6, <1>7, <1>8 DEF PlatInv

-----------------------------------------------------------------------------
(***************************************************************************)
(* On every machine that suits the kernel, each step of platform_init      *)
(* finds mapped what the steps before it had to map, and the loops that    *)
(* take frames for the heap and the VMM get consecutive ones.              *)
(***************************************************************************)
THEOREM PlatformCorrect ==
  ASSUME SuitableMachines
  PROVE  Spec => []PlatInv
  <1>1. PlatInv /\ [Next]_vars => PlatInv'
    <2> SUFFICES ASSUME PlatInv, [Next]_vars PROVE PlatInv'
      OBVIOUS
    <2>1. CASE PdZero          BY <2>1, PdZeroPreserves
    <2>2. CASE MapKernel       BY <2>2, MapKernelPreserves
    <2>3. CASE MapLow          BY <2>3, MapLowPreserves
    <2>4. CASE MapTables       BY <2>4, MapTablesPreserves
    <2>5. CASE MapFramebuffer  BY <2>5, MapFramebufferPreserves
    <2>6. CASE MapUsable       BY <2>6, MapUsablePreserves
    <2>7. CASE Enable          BY <2>7, EnablePreserves
    <2>8. CASE InitFrames      BY <2>8, InitFramesPreserves
    <2>9. CASE HeapFrame       BY <2>9, HeapFramePreserves
    <2>10. CASE HeapMap        BY <2>10, HeapMapPreserves
    <2>11. CASE VmmFrame       BY <2>11, VmmFramePreserves
    <2>12. CASE VmmMap         BY <2>12, VmmMapPreserves
    <2>13. CASE UNCHANGED vars BY <2>13, StutterPreservesPlatInv
    <2>14. CASE PdWire         BY <2>14, PdWirePreserves
    <2>15. CASE PrintMap       BY <2>15, PrintMapPreserves
    <2> QED
      BY <2>1, <2>2, <2>3, <2>4, <2>5, <2>6, <2>7, <2>8, <2>9, <2>10, <2>11, <2>12, <2>13,
         <2>14, <2>15
         DEF Next
  <1> QED BY <1>1, InitEstablishesPlatInv, PTL DEF Spec

(***************************************************************************)
(* Nothing that platform_init reads, writes or executes up to init_vmm is  *)
(* mapped elsewhere, before, at and after the switch of page directories:  *)
(* on every machine that suits the kernel, whose framebuffer off the last  *)
(* page and off the kernel's addresses is mapped when it is printed to.    *)
(***************************************************************************)
THEOREM PlatformNeverFaults ==
  ASSUME SuitableMachines
  PROVE  Spec => []NoFault
  <1>1. PlatInv => NoFault
    BY DEF PlatInv, ControlInv, NoFault
  <1> QED BY <1>1, PlatformCorrect, PTL

(* When platform_init is done, the regions that the heap and the VMM's      *)
(* bitmap take for theirs, from a start address and a size, are the frames  *)
(* that were allocated for them, and nobody else's.                         *)
THEOREM PlatformRegionsPrivate ==
  ASSUME SuitableMachines
  PROVE  Spec => []RegionsArePrivate
  <1>1. PlatInv => RegionsArePrivate
    <2> SUFFICES ASSUME PlatInv, pc = "done"
                 PROVE  /\ heap_start > 0
                        /\ total_size = HEAP_PAGES * PAGE_SIZE
                        /\ HeapRegion = heap_frames
                        /\ VmmBitmap = vmm_frames
                        /\ heap_frames \cap vmm_frames = {}
                        /\ (heap_frames \cup vmm_frames) \cap CriticalFrames = {}
      BY DEF RegionsArePrivate
    <2>1. /\ heap_start = FirstFrame * PAGE_SIZE /\ total_size = HEAP_PAGES * PAGE_SIZE
          /\ heap_frames = Handed(HEAP_PAGES)
          /\ vmm_frames = Handed(Taken) \ Handed(HEAP_PAGES)
          /\ bitmap_start = (FirstFrame + HEAP_PAGES) * PAGE_SIZE
      BY DEF PlatInv, LoopInv, HeapInv
    <2>2. Enough /\ FirstFrame \in Nat /\ 0 < FirstFrame
      BY DEF PlatInv, ControlInv, Managed, Enough
    <2>3. VmmBitmap = vmm_frames
      BY <2>1, <2>2, VmmRegion
    <2>4. HeapRegion = heap_frames
      <3> DEFINE b == FirstFrame + HEAP_PAGES
      <3>1. b \in Nat /\ b <= FirstFrame + Taken /\ FirstFrame + Taken \in Nat
        BY <2>2, Layout DEF Taken
      <3>2. FirstFrame * PAGE_SIZE + HEAP_PAGES * PAGE_SIZE = b * PAGE_SIZE
        BY <2>2, Layout, FrameAddresses
      <3>3. PAGE_SIZE * b <= KERNEL_VMA
        <4>1. /\ b * PAGE_SIZE <= (FirstFrame + Taken) * PAGE_SIZE
              /\ b * PAGE_SIZE = PAGE_SIZE * b /\ PAGE_SIZE * b \in Nat
              /\ (FirstFrame + Taken) * PAGE_SIZE = PAGE_SIZE * (FirstFrame + Taken)
              /\ PAGE_SIZE * (FirstFrame + Taken) \in Nat
          BY <3>1, FrameAddresses
        <4> QED BY <4>1, <2>2, Layout DEF Enough
      <3>4. mark(FirstFrame * PAGE_SIZE, b * PAGE_SIZE) = FirstFrame .. b - 1
        BY <2>2, <3>1, <3>3, MarkOfFrames
      <3>5. HeapRegion = mark(FirstFrame * PAGE_SIZE, FirstFrame * PAGE_SIZE + HEAP_PAGES * PAGE_SIZE)
        BY <2>1, Zenon DEF HeapRegion
      <3>6. HeapRegion = mark(FirstFrame * PAGE_SIZE, b * PAGE_SIZE)
        BY <3>2, <3>5, Zenon
      <3>7. Handed(HEAP_PAGES) = FirstFrame .. b - 1
        BY <2>2, Layout DEF Handed
      <3> HIDE DEF b
      <3> QED BY <2>1, <3>4, <3>6, <3>7
    <2>5. heap_start > 0
      <3>1. 0 * PAGE_SIZE + PAGE_SIZE <= FirstFrame * PAGE_SIZE /\ FirstFrame * PAGE_SIZE \in Nat
        BY <2>2, FrameAddresses
      <3> QED BY <2>1, <3>1, Room
    <2>6. heap_frames \cap vmm_frames = {}
      BY <2>1
    <2>7. (heap_frames \cup vmm_frames) \cap CriticalFrames = {}
      <3>1. Handed(HEAP_PAGES) \subseteq Handed(Taken)
        BY <2>2, Layout DEF Handed, Taken
      <3>2. Handed(Taken) \subseteq Pool
        BY <2>2 DEF Enough, Handed
      <3> QED BY <2>1, <3>1, <3>2 DEF Pool
    <2> QED BY <2>1, <2>3, <2>4, <2>5, <2>6, <2>7
  <1> QED BY <1>1, PlatformCorrect, PTL
=============================================================================
