--------------------------- MODULE FrameAllocator ---------------------------
(***************************************************************************)
(* The physical frame allocator (src/src/arch/x86/memory/frame_alloc.cpp): *)
(* a bitmap with one bit for every frame, built from the memory map that   *)
(* the BIOS reported, in which a bit that is 1 means "used".               *)
(*                                                                         *)
(* Addresses keep the width they have in the code: entries of the map have *)
(* 64-bit bases and lengths, everything else is a uint32_t, so that        *)
(* truncating, clamping and rounding an address up can go wrong here as it *)
(* can there.                                                              *)
(***************************************************************************)
EXTENDS Integers, Sequences

CONSTANTS
  PAGE_SIZE,
  AddrMod,      \* number of values of a uint32_t
  BYTE,         \* frames tracked by a byte of the bitmap
  WORD,         \* bytes in an element of bitmap[]
  PAGE_BASE,    \* the page tables start here, above the BIOS's memory
  BITMAP_BASE,  \* the bitmap starts here, above the page tables
  Maps,         \* the memory maps that the BIOS may report
  Garbage       \* sets of frames whose bits may be 1 before init

HIGHEST_USABLE_ADDR == AddrMod - 1
BIOS_BASE == 0

ASSUME FrameAssumption ==
  /\ PAGE_SIZE \in Nat \ {0}
  /\ AddrMod \in Nat
  /\ BYTE \in Nat \ {0}
  /\ WORD \in Nat \ {0}
  /\ PAGE_BASE \in Nat \ {0}
  /\ BITMAP_BASE \in Nat
  /\ PAGE_BASE < BITMAP_BASE
  /\ BITMAP_BASE + AddrMod \div PAGE_SIZE + 2 * PAGE_SIZE < AddrMod
  /\ Garbage \subseteq SUBSET Nat
  /\ \A m \in Maps : \A i \in DOMAIN m : m[i].base \in Nat /\ m[i].length \in Nat

VARIABLES
  mmap,          \* the memory map: a sequence of [base, length, type]
  ready,         \* has FrameAllocator::init run?
  used,          \* the frames whose bit is 1
  total_frames,  \* frames below the highest usable address
  bitmap_size,   \* bytes of the bitmap
  ret,           \* what the latest alloc_frame returned
  held           \* the frames that callers hold

frameVars == <<mmap, ready, used, total_frames, bitmap_size, ret, held>>

-----------------------------------------------------------------------------
get_frame_number(addr) == addr \div PAGE_SIZE

(* Mutant: the comment of the constant, "4GB - 1MB", is taken at its word. *)
clampLower(addr) == IF addr > AddrMod - PAGE_SIZE THEN AddrMod - PAGE_SIZE ELSE addr

(* The uint32_t that stands for a 64-bit address. *)
clamp(addr) == IF addr > HIGHEST_USABLE_ADDR THEN HIGHEST_USABLE_ADDR ELSE addr

(***************************************************************************)
(* The frames whose bits mark() changes: start is rounded down and end up  *)
(* to a page, in 32 bits, and an end that wrapped leaves an empty loop.    *)
(***************************************************************************)
mark(start, end) ==
  get_frame_number(start)
    .. get_frame_number((end + (PAGE_SIZE - 1)) % AddrMod) - 1

(* Entries of type 1 are free memory. *)
Usable == {i \in DOMAIN mmap : mmap[i].type = 1}

EntryEnd(i) == clamp(mmap[i].base + mmap[i].length)

(* Step 4: the bits of the bitmap that are set before anything is freed. *)
BitmapBits == 0 .. bitmap_size * BYTE - 1

(* Step 5: the frames of the usable entries; the base is cut to 32 bits. *)
Freed == UNION {mark(mmap[i].base % AddrMod, EntryEnd(i)) : i \in Usable}

(* Mutant: the bitmap does not protect itself. *)
ReservedWithoutBitmap ==
  mark(BIOS_BASE, PAGE_BASE) \cup mark(PAGE_BASE, BITMAP_BASE)

(* Mutant: the BIOS's memory is not protected. *)
ReservedWithoutBios ==
  mark(PAGE_BASE, BITMAP_BASE) \cup mark(BITMAP_BASE, BITMAP_BASE + bitmap_size)

(* Step 6: critical regions that are marked used again. *)
Reserved ==
  mark(BIOS_BASE, PAGE_BASE)
    \cup mark(PAGE_BASE, BITMAP_BASE)
    \cup mark(BITMAP_BASE, BITMAP_BASE + bitmap_size)

(* The frames that alloc_frame looks at: whole elements of bitmap[] only. *)
Scanned == 0 .. (bitmap_size \div WORD) * WORD * BYTE - 1

-----------------------------------------------------------------------------
(***************************************************************************)
(* MemoryMap::init has stored the map.  The memory where the bitmap will   *)
(* be holds anything.                                                      *)
(***************************************************************************)
FrameAllocatorInit ==
  /\ mmap \in Maps
  /\ ready = FALSE
  /\ used \in Garbage
  /\ total_frames = 0
  /\ bitmap_size = 0
  /\ ret = 0
  /\ held = {}

(* FrameAllocator::init. *)
FrameInit ==
  /\ ~ready
  /\ ready' = TRUE
  /\ \E highest_addr \in {0} \cup {EntryEnd(i) : i \in Usable} :
       /\ \A i \in Usable : EntryEnd(i) <= highest_addr
       /\ total_frames' = highest_addr \div PAGE_SIZE
  /\ bitmap_size' = (total_frames' + (BYTE - 1)) \div BYTE
  /\ used' = ((used \cup BitmapBits') \ Freed) \cup Reserved'
  /\ UNCHANGED <<mmap, ret, held>>

(* Mutant: the bit of the frame that is returned is not set. *)
alloc_frame_unmarked(f) ==
  /\ ready
  /\ f \in Scanned \ used
  /\ \A g \in Scanned \ used : f <= g
  /\ ret' = f * PAGE_SIZE
  /\ held' = held \cup {f}
  /\ UNCHANGED <<mmap, ready, used, total_frames, bitmap_size>>

(* Mutant: the scan runs down from the last element. *)
alloc_frame_last(f) ==
  /\ ready
  /\ f \in Scanned \ used
  /\ \A g \in Scanned \ used : g <= f
  /\ used' = used \cup {f}
  /\ ret' = f * PAGE_SIZE
  /\ held' = held \cup {f}
  /\ UNCHANGED <<mmap, ready, total_frames, bitmap_size>>

(* alloc_frame finds f, the first free frame, and marks it used. *)
alloc_frame(f) ==
  /\ ready
  /\ f \in Scanned \ used
  /\ \A g \in Scanned \ used : f <= g
  /\ used' = used \cup {f}
  /\ ret' = f * PAGE_SIZE
  /\ held' = held \cup {f}
  /\ UNCHANGED <<mmap, ready, total_frames, bitmap_size>>

(* alloc_frame finds nothing: 0 = out of memory. *)
alloc_frame_fails ==
  /\ ready
  /\ Scanned \subseteq used
  /\ ret' = 0
  /\ UNCHANGED <<mmap, ready, used, total_frames, bitmap_size, held>>

(* free_frame clears the bit of the frame that addr is in. *)
free_frame(addr) ==
  /\ ready
  /\ used' = used \ {get_frame_number(addr)}
  /\ held' = held \ {get_frame_number(addr)}
  /\ UNCHANGED <<mmap, ready, total_frames, bitmap_size, ret>>

FrameNext ==
  \/ FrameInit
  \/ \E f \in Scanned : alloc_frame(f)
  \/ alloc_frame_fails
  \/ \E f \in held : free_frame(f * PAGE_SIZE)

FrameSpec == FrameAllocatorInit /\ [][FrameNext]_frameVars

-----------------------------------------------------------------------------
(* Types of the variables. *)
FrameTypeOK ==
  /\ mmap \in Maps
  /\ ready \in BOOLEAN
  /\ used \subseteq Nat
  /\ total_frames \in 0 .. AddrMod \div PAGE_SIZE
  /\ bitmap_size \in 0 .. AddrMod \div PAGE_SIZE
  /\ ret \in Nat
  /\ held \subseteq Nat

(***************************************************************************)
(* Memory that the kernel stands on is never free and never handed out:    *)
(* every frame with a byte of the BIOS's memory, of the page tables or of  *)
(* the bitmap itself keeps its bit, whatever the map says of it.           *)
(***************************************************************************)
CriticalFrames == {f \in 0 .. AddrMod \div PAGE_SIZE - 1 :
                     f * PAGE_SIZE < BITMAP_BASE + bitmap_size}

ReservedStayUsed ==
  ready => CriticalFrames \subseteq used /\ CriticalFrames \cap held = {}

(***************************************************************************)
(* The frames that may ever be handed out, from the map's 64-bit addresses *)
(* alone: a usable entry meets the frame, the entry ends before the last   *)
(* page that 32 bits can address, and the kernel does not stand there.     *)
(***************************************************************************)
Meets(i, f) ==
  /\ mmap[i].base < (f + 1) * PAGE_SIZE
  /\ mmap[i].base + mmap[i].length > f * PAGE_SIZE

Pool == {f \in Scanned \ CriticalFrames :
           \E i \in Usable :
             /\ Meets(i, f)
             /\ mmap[i].base + mmap[i].length <= AddrMod - PAGE_SIZE}

(***************************************************************************)
(* Every frame of the pool is free or held by somebody, never both, and    *)
(* nothing else is ever handed out: no entry above 4 GB turns into memory  *)
(* below it when its base is cut to 32 bits, no frame leaks and none is    *)
(* handed out twice, whatever is freed in between.                         *)
(***************************************************************************)
FramesConserved ==
  ready => /\ held \subseteq Pool
           /\ Scanned \ used = Pool \ held

(***************************************************************************)
(* Callers can rely on what alloc_frame returns.  An address is that of    *)
(* the lowest frame of the pool that nobody held, so it is never the 0     *)
(* that means failure, and the caller holds that frame from then on; 0     *)
(* comes back only when all of the pool is held.  Heap::init and VMM::init *)
(* build on the order: they take successive frames for adjacent ones.      *)
(***************************************************************************)
ReturnsLowestFree ==
  [][(ret' # ret \/ ~(held' \subseteq held)) =>
       \/ ret' = 0 /\ held' = held /\ Pool \subseteq held
       \/ /\ ret' # 0
          /\ get_frame_number(ret') \in Pool \ held
          /\ held' = held \cup {get_frame_number(ret')}
          /\ \A g \in Pool \ held : get_frame_number(ret') <= g]_frameVars
=============================================================================
