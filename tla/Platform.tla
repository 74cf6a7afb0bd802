------------------------------ MODULE Platform ------------------------------
(***************************************************************************)
(* platform_init (src/src/arch/x86/platform/platform.cpp) up to the point  *)
(* where memory is managed: it builds the kernel's page directory while it *)
(* runs on the one of bootstrap_paging, switches over, prints the memory   *)
(* map, and then sets up the frame allocator, the heap and the VMM, each   *)
(* in memory that the steps before it must have mapped.                    *)
(*                                                                         *)
(* Two page directories lie in low memory, and CR3 holds the address of    *)
(* the one in use.  The kernel's page tables are one function from pages   *)
(* to frames, in which later mappings silently replace earlier ones.       *)
(* Every step says which frames the code reaches through their own         *)
(* addresses; fault records that one of them, the stack and the rest of    *)
(* low memory, or the kernel's own code, was mapped to something else.     *)
(***************************************************************************)
EXTENDS FrameAllocator

CONSTANTS
  KERNEL_VMA,    \* where the kernel is linked
  KernelSize,    \* bytes of the kernel's higher half: 4 MB
  BootSize,      \* bytes that bootstrap_paging maps: 8 MB
  PG_DIR,        \* the page directory of bootstrap_paging: 0x9A000
  page_directory,  \* the one of boot_info, for the kernel: 0x9C000
  HEAP_PAGES,    \* pages that platform_init asks Heap::init for
  VmmPages,      \* pages of the VMM's bitmap
  Framebuffers   \* where video memory may be: set of [base, size]

ASSUME PlatformAssumption ==
  /\ KERNEL_VMA \in Nat /\ KernelSize \in Nat /\ BootSize \in Nat
  /\ HEAP_PAGES \in Nat \ {0} /\ VmmPages \in Nat \ {0}
  /\ \A fb \in Framebuffers : fb.base \in Nat /\ fb.size \in Nat
  /\ KERNEL_VMA % PAGE_SIZE = 0 /\ KernelSize % PAGE_SIZE = 0
  /\ KernelSize <= BootSize /\ BITMAP_BASE <= BootSize /\ BootSize <= KERNEL_VMA
  /\ KERNEL_VMA + BootSize + PAGE_SIZE <= AddrMod
  /\ PG_DIR \in Nat /\ page_directory \in Nat /\ PG_DIR # page_directory
  /\ PG_DIR + PAGE_SIZE <= PAGE_BASE /\ page_directory + PAGE_SIZE <= PAGE_BASE

VARIABLES
  pc,            \* the next step of platform_init
  i,             \* the index of the loop that allocates frames
  cr3,           \* address of the page directory in use
  dir,           \* what each page directory holds: see Translate
  pt,            \* the kernel's page tables: page |-> frame, or NotPresent
  fb_info,       \* the framebuffer
  heap_start,
  heap_end,      \* first and last frame's address, in Heap::init
  total_size,    \* size of the heap
  heap_frames,   \* frames that Heap::init got
  bitmap_start,  \* address of the VMM's bitmap
  vmm_frames,    \* frames that VMM::init got
  fault          \* has an access gone wrong?

platformVars == <<pc, i, cr3, dir, pt, fb_info, heap_start, heap_end, total_size,
                  heap_frames, bitmap_start, vmm_frames, fault>>
vars == <<frameVars, platformVars>>

NotPresent == -1
AllPages == 0 .. AddrMod \div PAGE_SIZE - 1
PageTables == mark(PAGE_BASE, BITMAP_BASE)

(* The first megabyte: the stack, boot_info, the E820 map, the description *)
(* of the framebuffer and both page directories.                           *)
LowMemory == mark(BIOS_BASE, PAGE_BASE)

(* The frames of video memory. *)
FramebufferFrames ==
  {f \in AllPages : /\ fb_info.base < (f + 1) * PAGE_SIZE
                    /\ f * PAGE_SIZE < fb_info.base + fb_info.size}

(* The pages of the kernel, which is loaded at physical address 0. *)
KernelFrame(v) == v - get_frame_number(KERNEL_VMA)
KernelPages == mark(KERNEL_VMA, KERNEL_VMA + KernelSize)

(* Mutant: only the first of the large pages, as platform.cpp:20-22 has it. *)
BootstrapHalf ==
  [v \in AllPages |->
     IF v \in mark(0, BootSize \div 2) THEN v
     ELSE IF v \in mark(KERNEL_VMA, KERNEL_VMA + BootSize \div 2) THEN KernelFrame(v)
     ELSE NotPresent]

(* bootstrap_paging: large pages, for addresses from 0 and from KERNEL_VMA. *)
Bootstrap ==
  [v \in AllPages |->
     IF v \in mark(0, BootSize) THEN v
     ELSE IF v \in mark(KERNEL_VMA, KERNEL_VMA + BootSize) THEN KernelFrame(v)
     ELSE NotPresent]

(* What the processor translates a page to: the directory in use holds *)
(* large pages, pointers to the kernel's page tables, or zeros.        *)
Translate(v) ==
  CASE dir[cr3] = "large" -> Bootstrap[v]
    [] dir[cr3] = "tables" -> pt[v]
    [] dir[cr3] = "zeros" -> NotPresent

(* The code runs, and reaches low memory and these frames at their own *)
(* addresses.                                                          *)
Reaches(frames) ==
  /\ \A f \in LowMemory \cup frames : Translate(f) = f
  /\ \A v \in KernelPages : Translate(v) = KernelFrame(v)

Access(frames) == fault' = (fault \/ ~Reaches(frames))

-----------------------------------------------------------------------------
(* bootstrap_paging has run; MemoryMap will be what the BIOS reported. *)
Init ==
  /\ FrameAllocatorInit
  /\ pc = "pd_init"
  /\ i = 0
  /\ cr3 = PG_DIR
  /\ dir = [d \in {PG_DIR, page_directory} |-> IF d = PG_DIR THEN "large" ELSE "zeros"]
  /\ pt \in [AllPages -> {NotPresent}]
  /\ fb_info \in Framebuffers
  /\ heap_start = 0
  /\ heap_end = 0
  /\ total_size = 0
  /\ heap_frames = {}
  /\ bitmap_start = 0
  /\ vmm_frames = {}
  /\ fault = FALSE

At(place, next) == pc = place /\ pc' = next

(* PageDirectory::identity_map_range, whose loop is that of mark. *)
identity_map_range(start, end) ==
  [v \in AllPages |-> IF v \in mark(start, end) THEN v ELSE pt[v]]

(* Mutant: the directory in use is zeroed, as platform.cpp:33-35 fears. *)
PdZeroLive ==
  /\ At("pd_init", "pd_wire")
  /\ dir' = [dir EXCEPT ![cr3] = "zeros"]
  /\ Access({})
  /\ UNCHANGED <<frameVars, i, cr3, pt, fb_info, heap_start, heap_end, total_size,
                 heap_frames, bitmap_start, vmm_frames>>

(* PageDirectory::init zeroes the directory that boot_info names ... *)
PdZero ==
  /\ At("pd_init", "pd_wire")
  /\ dir' = [dir EXCEPT ![page_directory] = "zeros"]
  /\ Access({})
  /\ UNCHANGED <<frameVars, i, cr3, pt, fb_info, heap_start, heap_end, total_size,
                 heap_frames, bitmap_start, vmm_frames>>

(* ... clears all page tables, and wires every entry to its table. *)
PdWire ==
  /\ At("pd_wire", "map_kernel")
  /\ pt' = [v \in AllPages |-> NotPresent]
  /\ dir' = [dir EXCEPT ![page_directory] = "tables"]
  /\ Access(PageTables)
  /\ UNCHANGED <<frameVars, i, cr3, fb_info, heap_start, heap_end, total_size,
                 heap_frames, bitmap_start, vmm_frames>>

(* The steps that write page table entries only. *)
Map(table) ==
  /\ pt' = table
  /\ Access(PageTables)
  /\ UNCHANGED <<frameVars, i, cr3, dir, fb_info, heap_start, heap_end, total_size,
                 heap_frames, bitmap_start, vmm_frames>>

(* Step 1: the higher half, with map_range. *)
MapKernel ==
  /\ At("map_kernel", "map_low")
  /\ Map([v \in AllPages |-> IF v \in KernelPages THEN KernelFrame(v) ELSE pt[v]])

(* ... and the BIOS's memory. *)
MapLow ==
  /\ At("map_low", "map_tables")
  /\ Map(identity_map_range(0, PAGE_BASE))

(* Step 2: the page tables. *)
MapTables ==
  /\ At("map_tables", "map_fb")
  /\ Map(identity_map_range(PAGE_BASE, BITMAP_BASE))

(* Mutant: the size is taken for the end. *)
MapFramebufferSize ==
  /\ At("map_fb", "map_usable")
  /\ Map(identity_map_range(fb_info.base, fb_info.size))

(* Step 3: the framebuffer. *)
MapFramebuffer ==
  /\ At("map_fb", "map_usable")
  /\ Map(identity_map_range(fb_info.base, (fb_info.base + fb_info.size) % AddrMod))

(***************************************************************************)
(* Step 4: MemoryMap::identity_map_usable, which computes the ranges of    *)
(* the usable entries as FrameAllocator::init does.                        *)
(***************************************************************************)
MapUsable ==
  /\ At("map_usable", "enable")
  /\ Map([v \in AllPages |-> IF v \in Freed THEN v ELSE pt[v]])

(* PageDirectory::enable: the next instruction is fetched, and the stack *)
(* is used, through the kernel's page tables.                            *)
Enable ==
  /\ At("enable", "print")
  /\ cr3' = page_directory
  /\ UNCHANGED <<frameVars, i, dir, pt, fb_info, heap_start, heap_end, total_size,
                 heap_frames, bitmap_start, vmm_frames>>
  /\ fault' = (fault \/ ~Reaches({})')

(* kprint and MemoryMap::print, which read the map and write to the screen. *)
PrintMap ==
  /\ At("print", "frames")
  /\ Access(FramebufferFrames)
  /\ UNCHANGED <<frameVars, i, cr3, dir, pt, fb_info, heap_start, heap_end, total_size,
                 heap_frames, bitmap_start, vmm_frames>>

(* FrameAllocator::init reads the map and writes its bitmap. *)
InitFrames ==
  /\ At("frames", "heap")
  /\ FrameInit
  /\ Access(mark(BITMAP_BASE, BITMAP_BASE + bitmap_size'))
  /\ UNCHANGED <<i, cr3, dir, pt, fb_info, heap_start, heap_end, total_size, heap_frames,
                 bitmap_start, vmm_frames>>

(* fa.alloc_frame(), which reads and writes the bitmap. *)
AllocFrame ==
  /\ (\E f \in Scanned : alloc_frame(f)) \/ alloc_frame_fails
  /\ Access(mark(BITMAP_BASE, BITMAP_BASE + bitmap_size))

(* Heap::init, step 1: an iteration of the loop. *)
HeapFrame ==
  /\ pc = "heap"
  /\ i < HEAP_PAGES
  /\ AllocFrame
  /\ heap_end' = ret'
  /\ heap_start' = IF i = 0 THEN ret' ELSE heap_start
  /\ heap_frames' = heap_frames \cup (held' \ held)
  /\ i' = i + 1
  /\ UNCHANGED <<pc, cr3, dir, pt, fb_info, total_size, bitmap_start, vmm_frames>>

(* Mutant: the last page is left out. *)
HeapMapShort ==
  /\ At("heap", "vmm")
  /\ i = HEAP_PAGES
  /\ i' = 0
  /\ pt' = identity_map_range(heap_start, heap_end)
  /\ total_size' = (heap_end - heap_start) % AddrMod
  /\ fault' = (fault \/ ~Reaches(PageTables))
  /\ UNCHANGED <<frameVars, cr3, dir, fb_info, heap_start, heap_end, heap_frames,
                 bitmap_start, vmm_frames>>

(* Heap::init, steps 2 to 5: the region is mapped and gets its header. *)
HeapMap ==
  /\ At("heap", "vmm")
  /\ i = HEAP_PAGES
  /\ i' = 0
  /\ pt' = identity_map_range(heap_start, (heap_end + PAGE_SIZE) % AddrMod)
  /\ total_size' = ((heap_end + PAGE_SIZE) - heap_start) % AddrMod
  /\ fault' = (\/ fault
               \/ ~Reaches(PageTables)
               \/ pt'[get_frame_number(heap_start)] # get_frame_number(heap_start))
  /\ UNCHANGED <<frameVars, cr3, dir, fb_info, heap_start, heap_end, heap_frames,
                 bitmap_start, vmm_frames>>

(* VMM::init: an iteration of the loop that takes frames for the bitmap. *)
VmmFrame ==
  /\ pc = "vmm"
  /\ i < VmmPages
  /\ AllocFrame
  /\ bitmap_start' = IF i = 0 THEN ret' ELSE bitmap_start
  /\ vmm_frames' = vmm_frames \cup (held' \ held)
  /\ i' = i + 1
  /\ UNCHANGED <<pc, cr3, dir, pt, fb_info, heap_start, heap_end, total_size, heap_frames>>

(* Where the VMM's bitmap lies. *)
VmmBitmap == mark(bitmap_start, bitmap_start + VmmPages * PAGE_SIZE)

(* VMM::init: the bitmap is mapped and zeroed. *)
VmmMap ==
  /\ At("vmm", "done")
  /\ i = VmmPages
  /\ i' = 0
  /\ pt' = identity_map_range(bitmap_start, bitmap_start + VmmPages * PAGE_SIZE)
  /\ fault' = (\/ fault
               \/ ~Reaches(PageTables)
               \/ \E f \in VmmBitmap : pt'[f] # f)
  /\ UNCHANGED <<frameVars, cr3, dir, fb_info, heap_start, heap_end, total_size,
                 heap_frames, bitmap_start, vmm_frames>>

Next ==
  \/ PdZero
  \/ PdWire
  \/ MapKernel
  \/ MapLow
  \/ MapTables
  \/ MapFramebuffer
  \/ MapUsable
  \/ Enable
  \/ PrintMap
  \/ InitFrames
  \/ HeapFrame
  \/ HeapMap
  \/ VmmFrame
  \/ VmmMap

Spec == Init /\ [][Next]_vars

-----------------------------------------------------------------------------
(***************************************************************************)
(* Nothing faults on the way: whatever platform_init reads or writes, the  *)
(* page directory in use maps it to the memory that is meant: the stack    *)
(* and the directories in low memory, the page tables, the framebuffer     *)
(* ("NOW we can print - framebuffer is mapped", platform.cpp:60) and the   *)
(* memory of each allocator.  The kernel's own code stays where it is      *)
(* executed, although later mappings replace earlier ones, and although    *)
(* PageDirectory::init zeroes a directory while the code runs.             *)
(***************************************************************************)
NoFault == ~fault

(* The frames that the heap believes it owns. *)
HeapRegion == mark(heap_start, heap_start + total_size)

(***************************************************************************)
(* Every region has one owner: the heap and the VMM's bitmap lie in frames *)
(* that were allocated for them and for nobody else, off the memory that   *)
(* the frame allocator reserves.  This is what the modules Heap and VMM    *)
(* assume of their memory.                                                 *)
(***************************************************************************)
RegionsArePrivate ==
  pc = "done" =>
    /\ heap_start > 0
    /\ total_size = HEAP_PAGES * PAGE_SIZE
    /\ HeapRegion = heap_frames
    /\ VmmBitmap = vmm_frames
    /\ heap_frames \cap vmm_frames = {}
    /\ (heap_frames \cup vmm_frames) \cap CriticalFrames = {}
=============================================================================
