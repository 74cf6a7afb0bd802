# Sapphire: a TLA+ model of the kernel

Sapphire is a small 32-bit x86 kernel (C++ and assembly, `src/src/`). A boot
loader reads it from a floppy, `platform_init` sets up paging, memory and
interrupts, and `kmain` reads a few characters through a system call. This
directory models its core: the boot loader, start-up, the three allocators, the
way into an interrupt handler and back, the path of a key from the keyboard to
`kmain`, and the text console. TLC checks the models on small instances; TLAPS
proves the safety properties of every one of them for all instances, under
hypotheses that section 4 names. Liveness is left to TLC.

## 1. Inventory

| Component | State | Operations | Interaction |
|---|---|---|---|
| boot loader (`boot/*.asm`) | sector counters, E820 buffer, `boot_info` | `disk_read`, E820 loop | BIOS calls; hands `boot_info` to `platform_init` |
| platform initialisation (`platform.cpp`, `bootstrap.cpp`) | page tables, locals | a fixed sequence of `init`s | calls every memory component |
| page directory (`paging.cpp`) | directory and tables | `init`, `identity_map_range`, `map_range`, `unmap_range`, `enable` | used by start-up, heap, VMM; read by the processor's TLB |
| memory map (`memory_map.cpp`) | pointer and count | `init`, `identity_map_usable` | read by the frame allocator |
| frame allocator (`frame_alloc.cpp`) | bitmap of frames | `init`, `alloc_frame`, `free_frame` | used by heap and VMM |
| heap (`heap.cpp`) | list of block headers in the heap itself | `init`, `alloc`, `free` | `kmalloc`, `kfree` |
| VMM (`vmm.cpp`) | bitmap of virtual pages | `init`, `alloc_pages`, `free_pages` | frames, page directory, TLB |
| interrupt dispatch (`idt.cpp`, `idt.asm`) | IDT, `handlers[]`, the frame on the stack | `init`, `register_handler`, stubs, `isr_common`, `isr_handler` | processor, PICs |
| segment descriptors (`gdt.*`) | GDT | `init` | gates refer to it |
| interrupt controllers (`pic.cpp`) | (in hardware) | `pic_remap`, `pic_send_eoi` | processor |
| keyboard driver (`keyboard.cpp`) | ring buffer, modifiers | `handle_interrupt`, `read_char`, `has_input` | IRQ1 on one side, `sys_read` on the other |
| system calls (`syscall.cpp`, `read.cpp`, `write.cpp`) | table of calls | `init`, handler, `sys_read`, `sys_write` | `send_syscall`, `int 0x80` through the IDT |
| kernel main (`main.cpp`) | `buf_ra`, `total` | the read loop | system calls |
| text console (`kprint.cpp`, `string.cpp`) | cursor, `convert`'s buffer | `kprint`, `kprint_at`, `kputc`, `kprintf`, `draw_string` | called by everybody, exception handlers included |
| framebuffer (`fb.cpp`, `char.cpp`, `line.cpp`) | video memory | `putpixel`, `draw_char`, `line` | called by the console and `kmain` |
| ports, control registers, debug port | - | one instruction each | - |

The kernel has one thread. What is concurrent is hardware: interrupts arrive
between any two instructions while IF is set, the keyboard controller and the
PICs have state of their own, and the processor caches translations when it
likes. What is hard besides: long sequences of calls on the allocators, whose
metadata lies in the memory they manage; frames running out half way; 32-bit
wrap-around; retries of disk reads; and an order of initialisation in which each
step needs memory that an earlier one must have mapped. The full list, with
lines, is under `hazards` in `PROJECT.json`.

What makes the components correct:

* allocators: nothing is handed out twice, nothing leaks, nothing that the kernel
  stands on is handed out, failure means that there is nothing left, calls return;
* VMM: bitmap, page table and frame allocator agree; a freed frame cannot be
  reached through an old translation;
* keyboard: the ring is a queue, also after an overrun;
* interrupts: each is acknowledged once, the keyboard does not fall silent, and
  what is typed is read, in order;
* entry and exit: a handler is told what happened, interrupted code does not notice,
  a system call answers its caller;
* console: the screen shows what was printed where the cursor was, numbers are
  right, lines are straight;
* start-up: whatever is touched is mapped, and every region has one owner.

## 2. Modules

| Module | Models | Extends |
|---|---|---|
| `RangeAllocator` | what an allocator promises: runs of cells, handed out and taken back | |
| `Heap` | `Heap::alloc`, `Heap::free` | |
| `HeapProofs` | theorems about `Heap` | `Heap` |
| `FrameAllocator` | `FrameAllocator`, `MemoryMap` | |
| `FrameProofs` | theorems about `FrameAllocator` | `FrameAllocator` |
| `VMM` | `VMM`, `map_range`, `unmap_range`, the TLB | `FrameAllocator` |
| `VMMProofs` | theorems about `VMM` | `VMM`, `FrameProofs` |
| `Platform` | `bootstrap_paging`, `platform_init` up to the VMM, `Heap::init`, `VMM::init` | `FrameAllocator` |
| `PlatformProofs` | theorems about `Platform` | `Platform`, `FrameProofs` |
| `Keyboard` | the keyboard driver | |
| `Interrupts` | IDT, PICs, 8042, system call read, `kmain` | `Keyboard` |
| `InterruptsProofs` | theorems about `Keyboard` and `Interrupts` | `Interrupts` |
| `InterruptEntry` | GDT, IDT, stubs, `isr_common`, `isr_handler`, `send_syscall`, `syscall_handler`, by the instruction | |
| `InterruptEntryProofs` | theorems about `InterruptEntry` | `InterruptEntry` |
| `Framebuffer` | `putpixel`, `draw_char`, `line` | |
| `Console` | `kprint`, `kprintf`, `convert`, `draw_string`, `sys_write`, the exception report | `Framebuffer` |
| `ConsoleProofs` | theorems about `Framebuffer` and `Console` | `Console` |
| `Boot` | `disk_read`, the E820 loop | |
| `BootProofs` | theorems about `Boot` | `Boot` |
| `MC*` | constants for TLC | the module of that name |

`Heap` and `VMM` both implement `RangeAllocator` (definition
`ImplementsRangeAllocator`): the cells of the heap are the bytes promised to
callers, those of the VMM the pages of its region. `Platform!RegionsArePrivate`
is what `Heap` and `VMM` assume of the memory they start in.

Operators named `...Not`, `...Late`, `...Short` and the like, whose comment begins
with "Mutant", are wrong variants of the definition that follows them. None of
them is used by a specification; each shows that a property would notice the slip.

### Heap

`blocks` is the linked list: a function from the address of a header to
`[size, free, next]`. `pc`, `cur` and `req` are the running call: its loop, its
cursor and its parameter. `live` is not in the code; it records what callers hold.

| Action | `heap.cpp` |
|---|---|
| `AllocCall`, `AllocSkip`, `AllocSplit`, `AllocWhole`, `AllocFail` | 58, 61-65, 67-87, 91-92, 95 |
| `FreeCall`, `FreeMerge`, `FreeAdvance`, `FreeDone` | 100-112, 115-119, 121, 113 |

The sum in the split test is taken modulo 2^32 (`U32`), as in the code. Callers
free only what they hold; a double free is outside the model.

### FrameAllocator and VMM

`used` is the set of frames whose bit is 1. Entries of the memory map are 64-bit,
`clamp` and `mark` are the code's, with the 32-bit wrap of the rounding. `Scanned`
are the frames that `alloc_frame` looks at: it scans whole 32-bit elements, so the
frames of the last one to three bytes of the bitmap are tracked but never handed
out (`frame_alloc.cpp:73`; `frame_alloc.hpp:24` promises 0 only on "out of memory").

In `VMM`, every iteration of `find_free_range`, of the map loop and of the unmap
loop is an action; unmapping is split into `UnmapPage`, `FlushTlb` and
`ReleaseFrame` because their order matters to the TLB. `alloc_pages` does not look
at what `alloc_frame` returned, nor does `MapPage`: an exhausted allocator maps
frame 0, for every page that is still missing. `out_of_memory`, which is not in the
code, records that this has happened. `FramesNotShared` therefore has two parts: a
frame other than 0 that backs a page is used and backs no second one; frame 0 backs a
page only once `alloc_frame` has failed, and then any number of them, whose callers see
each other's writes. `CacheTranslation` is the processor.

`ReturnsLowestFree` is about `alloc_frame`'s scan: it returns the lowest frame that is
neither reserved nor held, and 0 only if there is none.

### Platform

`dir` is what the two page directories hold: the one at 0x9A000 (`PG_DIR`) has the
large pages of `bootstrap_paging`, the one that `boot_info` names (`page_directory`,
0x9C000) becomes the kernel's. `cr3` is the address of the one in use and `pt` the
kernel's page tables. `PageDirectory::init` takes two steps, `PdZero` and `PdWire`,
because between them the directory it was given maps nothing: were it the one in use,
the kernel would be gone (mutant `PdZeroLive`).

Each step names the frames it reaches. `fault` becomes true when one of them, or the
kernel's code, or low memory, where the stack, `boot_info` and the memory map are, is not
mapped to what is meant by the directory in use. `PrintMap` is what `platform_init` prints
right after `enable`, and reaches the framebuffer. Each step of `platform_init` is an
action; the loops of `Heap::init` and `VMM::init` take one step per frame. Messages
after `PrintMap`, and the test of the VMM (`platform.cpp:77-91`), are not steps of
`Platform`.

### Keyboard and Interrupts

`handle_interrupt` is the disjunction of the branches of the C++ function.
`pending`, which is not in the code, records what was typed and not yet read. One
flag stands for both shift keys: releasing one of them while the other is down
switches shift off (`keyboard.cpp:60-64`).

`Interrupts` has the devices (`StrikeKey`, `LoadOutput`, `Raise`, `Spurious`), the
processor and the PICs (`Deliver`, `Enter`, `Iret`), the handlers, one step between
any two of which devices may move (`KeyboardIrqHandler`, `DefaultIrqHandler`,
`EoiSlave`, `EoiMaster`), and the thread (`IdtInit` to `KmainDone`). The system
call is one action because its gate clears IF: nothing of the kernel runs between
its instructions, and devices do not touch what it reads. `Interrupts` cannot check
that; `InterruptEntry` does (below).

### InterruptEntry

`Interrupts` takes for granted that a handler is entered and left without a trace;
`InterruptEntry` shows it, from the gate to `iret`. Registers and stack hold words,
`eip` is an address, and every instruction of `isr_common` and `send_syscall` is an
action (`PushAll`, `PushFrame`, `CallHandler`, ..., `PushEbx`, `MoveNumber`, ...).
Descriptors and gates are packed field by field, as in `GDT_ENTRY` and `set_entry`,
and the processor unpacks them (`Target`). The processor is external: what it
pushes, for which exceptions it adds an error code, the order of `pusha`. Compiled
C++ code may leave anything in `eax`, `ecx` and `edx` (`Clobbered`). `taken` and `asked`
record what was interrupted and what was asked for; they are not in the code.

Widths are counted in nibbles (`N` is 16 in the source). Device interrupts arrive
between any two instructions while IF is set, exceptions anywhere, also in a
handler. A handler's work on its device is in `Interrupts`, the report of
`default_exception_handler` in `Console`; here it stops the machine (`halted`). Hence
only the outermost handler ever returns, and `InterruptedCodeResumes` speaks of it.

`HandlerSeesInterrupt` has IF clear in every handler. This is what keeps the keyboard's
handler from running between `sys_read`'s test of the ring and its read (`read.cpp:10-13`);
with trap gates (mutant `set_entry_trap`) it fails.

`SyscallsAnswered` claims a result for numbers below `Byte` only: a larger one is cut
(section 5). Registers and stack come back whatever the number.

### Framebuffer and Console

Video memory is a function from offsets to bytes, so that padding, the bytes of a
pixel and writes past the end can be told apart. `LineStep` is an iteration of
`line`. `DrawStep` is an iteration of `draw_string`, `AdvanceStep` one of `kprint`'s
second loop over the same string, `FormatStep` one of `kprintf`'s and `ConvertStep`
one of `convert`'s. `sys_write` prints character by character, like a format
without conversions. `Exception` happens between any two of these steps, prints its
report from the cursor as it is and ends in "halt".

`cells` (what the cursor has passed), `covered` (what lines have drawn since) and
`trace` (the points of the latest line) are not in the code. Colours and characters
are names; `Representation`, `Font`, the cell and the screen are parameters. `Items`
is what a conversion may have for an argument: a `%d` has an int, and after the sign
of a negative one is printed its absolute value is left, as an unsigned int.

`draw_string` and `kprint` disagree on one thing: after a newline or a carriage
return inside a string the former goes on below the string's first character
(`string.cpp:22`, `28`), the latter in column 0 (`kprint.cpp:17`, `22`). A string that
begins in the middle of a line and goes on after a newline in it is drawn away
from the cursor. `Strays` says exactly when, and `ScreenShowsText` claims nothing of
the screen after such a string; without that condition TLC finds it violated. The
kernel's own messages go through `kprintf`, which prints the characters of its
format one at a time and so does not meet the case; `%s` may.

Nothing is scrolled and text is not wrapped: what leaves the screen is dropped, and
that may be the report of an exception.

### Boot

`DiskRead`, `NextSector`, `ReadOk`, `ReadFails`, `DiskDone` are `disk_read`; a failed
read leaves anything in the destination. `E820Entry`, `E820Empty`, `E820End`,
`StoreCount` are the memory map loop. The map and `boot_info` behind it are one
array of 16-bit words, since the count is stored as a word.

## 3. Runs

`tlc -config <cfg> <module>`; all finish in about a minute.

| Run | Bounds | Shows |
|---|---|---|
| `heap` | a heap of 14 bytes, headers of 2, requests of 0, 1, 3 and 18; 107,000 states | blocks tile the region, callers' bytes are theirs, free neighbours merge, a call fails only when nothing fits, calls return, `RangeAllocator` is implemented |
| `frames` | maps of up to two of eleven entries, 16 frames, 64-bit bases up to 96 with 2^32 = 64 | `ReservedStayUsed`, `FramesConserved`, `ReturnsLowestFree` |
| `vmm` | 4 pages, 8 frames of which 5 usable, 3 for the bitmap; 145,000 states | bitmap, table, frames and TLB agree; only frame 0 is shared, and only out of memory; first fit; calls return |
| `vmm_oom` | as `vmm` | *violated*: out of memory, `free_pages` frees frame 0 |
| `keyboard` | ring of 2, positions wrap at 8, up to 4 unread | ring is a queue, recovers from overrun |
| `interrupts` | 3 characters wanted, ring of 2, timer, clock, spurious interrupts; 200,000 states | acknowledgement, order, liveness |
| `early_key` | as `interrupts`, keys may be struck before the driver is registered | *violated*: the keyboard stays silent |
| `boot` | 8 sectors, 3 per track, 2 heads, 3 attempts; all maps of up to 5 answers with at most 3 entries | image in order, retries, map and `boot_info` |
| `boot_overflow` | maps with 4 or 5 entries, room for 3 | *violated*: `boot_info` is overwritten |
| `platform` | 32 pages, memory of every size that suffices, below the kernel; 18 framebuffers above it; 51,000 states | nothing faults, regions are private |
| `display` | glyphs of 2 by 3 in cells of 3 by 3 pixels, a screen of 7 by 7 with 24 bits per pixel or with 16 and padded rows; ints of 16 bits; 12 strings, 14 formats, 9 lines; 2 calls, an exception being one; 111,000 states | the screen shows the text, numbers are right, lines straight, calls end |
| `entry` | all 32 exceptions and 16 lines, then the NMI or a page fault or a line on top; one system call: either of the two, an unknown number or one that is too large for a byte; nibbles of 4 values; 1,284,000 states | frames say what happened, interrupted code resumes, system calls are answered |

**Why the bounds are enough.** `heap`: room for four smallest blocks, requests
from zero to more than the heap holds, so that splitting, using a block whole,
failing, and merging to the left, to the right and on both sides all happen.
`frames`: entries below, across and above the 32-bit limit, overlapping, empty,
unaligned and reserved. `vmm`: requests can be larger than any free run and than
the frames left, of which there are two for four pages, so that two pages get frame 0;
partial frees fragment the region. `keyboard`: twice as many
unread characters as the ring holds, and positions that wrap. `interrupts`: more
keys than the ring holds, one line of the master above and one of the slave below
the keyboard's priority, and both spurious vectors. `boot`: reads cross a track
and a cylinder, and any read may fail up to the limit. `platform`: memory ends at
every offset in a page; there is always enough for the heap and the VMM, since the
code does not notice when there is not (section 5); a framebuffer of one byte or of
several pages begins on a page or inside one and ends at any offset. `display`: the screen cuts a
glyph at the right and at the lower edge, and text begins below it; strings have
every control character at the start, in the middle and at the limit of a line;
numbers are 0, the least and the largest ints and the limits of each base; lines
have every kind of slope and direction, a single point and ends off the screen; the
second call starts where the first left the cursor, or interrupts it. `entry`: two
interrupts on top of a system call are the deepest nesting whose handlers differ;
the stubs' addresses need both halves of a gate, and number 17 is 1 in its low byte.

**Deadlock** is checked except in `interrupts` (once `kmain` has ended and nobody
types the system rests), `boot` (it halts or enters the kernel), `platform`
(`platform_init` returns), `display` (it ends with the last call or in `hlt`) and
`entry` (an exception stops the machine).

**Fairness.** Weak fairness of the kernel's own next step in `heap`, `vmm`,
`boot` and `display` (the running call): one thread, nothing preempts it for good.
In `interrupts`: weak fairness of
the thread, of a running handler, of accepting a pending interrupt while IF is set
(the processor does so at the next instruction), and of the controller passing on
a scancode. Nobody is assumed to type: `KeysReachKmain` speaks of keys that were
struck.

### What the violations say

* `vmm_oom` - `alloc_pages` maps the 0 that a failed `alloc_frame` returns
  (`vmm.cpp:83`), for every page that gets no memory; `free_pages` frees it, and frame 0
  can be allocated. The comment
  at `frame_alloc.cpp:55` says that these regions "never get allocated".
* `early_key` - `default_irq_handler` acknowledges IRQ1 without reading port 0x60;
  a key struck between `sti` and `init_keyboard` leaves the controller full, and it
  raises no further interrupt.
* `boot_overflow` - the limit of 64 entries is said to "prevent overflow"
  (`stage2.asm:108`); the buffer has room for six (`stage2.asm:167`).

## 4. Proofs

### Heap

`HeapProofs` proves, for every header size, `MIN_SPLIT`, heap size, address and set
of requests that satisfy `HeapAssumption`:

| Theorem | Statement |
|---|---|
| `HeapCorrect` | `Spec => []HeapInv` |
| `HeapTypes`, `HeapTiled`, `HeapUsedIffHeld`, `HeapDisjoint`, `HeapCoalesced`, `HeapEmptyIsWhole`, `HeapFailsHonestly` | the invariants `TypeOK`, `Tiled`, `UsedIffHeld`, `HeldAreDisjoint`, `Coalesced`, `EmptyHeapIsWhole`, `FailsOnlyWhenNothingFits` |
| `HeapStable` | the action property `HeldBlocksAreStable` |
| `HeapImplementsRangeAllocator` | `Spec => Abstract!Spec` |

`HeapAssumption` says that the region holds at least one header, starts above 0 and
ends below the top of the address space by a header and `MIN_SPLIT`. The last part
is what keeps the 32-bit sum of the split test from misleading: a request that
passed the size test cannot make the sum wrap.

None of the invariants is inductive alone. `HeapInv` is the conjunction of

* `TypeOK`;
* `Tiled`: `next` is where a block ends, blocks do not overlap, the last ends with
  the region. Without it a split or merge could write into any block;
* `UsedIffHeld`: used blocks and held pointers correspond, so that freeing touches
  only what the caller held;
* `LoopInv`: what the running loop has established behind its cursor. The merge
  pass has left no free neighbours there, the search no block that fits, and
  outside `free` there are no free neighbours at all. This is what turns the end
  of a loop into `Coalesced` and `FailsOnlyWhenNothingFits`.

Each action is a step of its own in the induction; disjointness and the refinement
follow from `HeapInv`.

### Frame allocator

`FrameProofs` proves, for every page size, width of an address, size of a bitmap
element, place of the bitmap, memory map and garbage in the bitmap's memory that
satisfy `FrameAssumption`:

| Theorem | Statement |
|---|---|
| `FramesCorrect` | `FrameSpec => []FrameInv` |
| `FramesReserved`, `FramesAreConserved` | the invariants `ReservedStayUsed`, `FramesConserved` |
| `FramesReturnsLowestFree` | the action property `ReturnsLowestFree` |

`FrameAssumption` says that the bitmap lies above the page tables and that the
address space is larger than both, a full bitmap and two pages together, so that
rounding the end of a reserved region up cannot wrap. Nothing is assumed of the
map but that its numbers are natural.

The argument is in the arithmetic of `init`. `MarkCoversRange`: without a wrap,
`mark` covers exactly the pages with a byte of the range. `MarkOfWrappedEnd`: an end
in the last page wraps, and `mark` does nothing. From these, `ReservedCovers` (the
three reserved regions are all pages below the end of the bitmap) and
`FreedFrames` (an entry frees what it meets, or nothing if it ends in or above the
last page: such memory is lost, not corrupted). `FrameInv` adds to the three
properties the types and that nothing is held before `init`; freeing needs
`FramesConserved` to know that the frame was handed out, and so is not reserved.
`FramesConserved` takes what the map offers from the code's own arithmetic, the wrapping
round-up and the scan of whole elements included: it is these lemmas, not the property,
that say what memory is lost that way.

### Virtual memory manager

`VMMProofs` proves, for every number of pages, frames of the bitmap and requests,
and every frame allocator as above:

| Theorem | Statement |
|---|---|
| `VmmCorrect` | `Spec => []VmmInv` |
| `VmmTypes`, `VmmUsedIffMapped`, `VmmFramesNotShared`, `VmmNoStaleTranslation`, `VmmScanIsFirstFit` | the invariants `TypeOK`, `UsedIffMapped`, `FramesNotShared`, `NoStaleTranslation`, `ScanIsFirstFit` |
| `VmmImplementsRangeAllocator` | `Spec => Abstract!Spec` |
| `VmmNoFrameLeak` | `Spec /\ []LowFramesAdjacent => []NoFrameLeak` |

Between calls bitmap and page table agree; within a call they do not, and the proof
is about how they differ. `VmmInv` is the conjunction of

* `TypeOK` and `ReadyFirst` (nothing is allocated before `init` has ended);
* `Progress`: which entries are present, given how far the map or unmap loop is;
* `Scanning`: the run counted by `find_free_range` is free, too short so far, and no
  free run that starts before it is long enough. `Found`: the run chosen is the first;
* `Exclusive`: frames other than 0 that back a page are used and back no other, which
  mapping needs of `alloc_frame` and unmapping restores;
* `InHand`: a frame that was unmapped and is not yet freed backs no page and is used;
* `Cached`: the TLB has what the entries say, except for the page just unmapped. With
  `InHand` this is `NoStaleTranslation`, and why the order of `unmap_range`, flush and
  `free_frame` matters.

`FramesNotShared` is `Exclusive` and what `ZeroInv` says of frame 0, an invariant of its
own: until `alloc_frame` fails for the first time, frame 0 is used and backs no page.

`FrameInv` is not part of it: in `VMM` it is not invariant, since after a failed
`alloc_frame` frame 0 may be given back (`vmm_oom`). What is proved of the VMM holds
in those behaviours too. `NoFrameLeak` needs `LeakInv` (which frames `init` has taken,
and that every held frame is accounted for) and the hypothesis `LowFramesAdjacent`:
the lowest frames that the memory map offers are adjacent, as many as the bitmap needs,
which the code takes for granted (`vmm.cpp:20`, section 5).

### Keyboard and interrupts

| Theorem | Statement | Besides the modules' assumptions |
|---|---|---|
| `KeyboardRingHoldsPending` | the invariant `RingHoldsPending` | |
| `InterruptsInServiceIsRunning` | the invariant `InServiceIsRunning` | no device on lines 7 and 15 |
| `InterruptsWaitingKeyHasInterrupt` | the invariant `WaitingKeyHasInterrupt` | `EarlyKeys = FALSE` |
| `InterruptsReadInOrder` | the invariant `ReadInOrder` | `KB_BUFFER_SIZE < PosMod` |

The ring's positions count modulo `PosMod` and are reduced to a slot only when used.
That is right because `PosMod` is a multiple of `KB_BUFFER_SIZE` (2^32 and 256), which
`KeyboardAssumption` says. `RingInv` has `NewestInPlace`: the newest `KB_BUFFER_SIZE`
characters not yet read are in their slots. After an overrun the older ones are not,
and reads return others in their place; the invariant says from where on they are
right again.

`DispatchInv` says that at most one handler runs (its gate clears IF), what start-up
has installed when, and which lines can have requests. `Served` gives the lines in
service as a function of the running handler's place. On lines 7 and 15 a device's
interrupt and a spurious one look the same, and the code does not ask the controller
which it is; hence the hypothesis. `HeardInv` is that a waiting scancode has a request
or a handler about to read it, and that nothing waits before the driver is
registered; without `EarlyKeys = FALSE` the run `early_key` violates it. `ReadInv`
joins the ring, the scancodes on their way and `buf_ra`.

### Interrupt entry

`InterruptEntryProofs` proves, for every nibble of at least two bits (four in the
source), every set of lines, exceptions, numbers and arguments, every number of
system calls and depth of nesting, and every stack that is large enough for it (15 words
for each level):

| Theorem | Statement |
|---|---|
| `EntryCorrect` | `Spec => []EntryInv` |
| `EntryHandlerSeesInterrupt`, `EntrySyscallsAnswered` | the invariants `HandlerSeesInterrupt`, `SyscallsAnswered` |
| `EntryInterruptedCodeResumes` | the action property `InterruptedCodeResumes` |

Exceptions strike inside handlers, so what `iret` finds on the stack depends on all
levels above having left it alone, and the invariant speaks of every level.
`HandlerAt(t, e, r, s, m)` says what the handler of the interrupt recorded in `t` has on
its stack when it is about to execute `e` with registers `r` and stack `s`, `m`.
`EntryInv` is the conjunction of `Types`; `Thread0`, what `send_syscall` has on the
stack and in its registers at each instruction; `Outer`, each interrupted handler is
at `HandlerAt` of what it was entered for, and only the outermost may be the system
call's, since handlers make none; `Innermost`, the same of the running handler;
`Depth`; and `SetUp`, what `platform_init` has installed by then. `HandlerKept` is the heart of
the induction: `HandlerAt` does not depend on the stack below `esp`, where nested levels
write. `Masked`, an invariant of its own, is that IF is clear in every handler and was
when a handler was interrupted; only `iret` could set it, and then no handler is left.
`EntrySyscallsAnswered` says nothing of the result for a number that does not fit a
byte. `CodeSegment` and `GateLeadsToStub` do the arithmetic of packed descriptors,
`FrameFields` that of the offsets in `InterruptFrame`.

### Boot loader

`BootProofs` proves, for every geometry, number of sectors and `MAX_RETRIES`:

| Theorem | Statement |
|---|---|
| `BootSectorsInOrder`, `BootHaltsAfterRetries` | the invariants `SectorsInOrder`, `HaltsAfterRetries` |
| `BootInfoReachesKernel`, `BootMapIsWhatBiosSaid` | `BootInfoIntact` and `MapIsWhatBiosSaid`, for BIOS maps that fit (`MapsFit`) |

`SectorAtCHS` is the arithmetic: the cylinder, head and sector that `disk_read`
computes are the sector meant. `DiskInv` ties the counters to what is in memory,
`RetryInv` the remaining attempts to the failures in a row. `MapInv` says that the
buffer holds the entries answered so far, each at the place given by the number of
entries before it, and that `boot_info` behind it is as set. `MapsFit` says that the
entries fit into `e820_map`; without it `boot_overflow` violates the claim.

### Start-up

`PlatformProofs` proves, for every page size, layout of the kernel, heap and VMM, and
every machine that suits the kernel:

| Theorem | Statement |
|---|---|
| `PlatformCorrect` | `Spec => []PlatInv` |
| `PlatformNeverFaults`, `PlatformRegionsPrivate` | the invariants `NoFault`, `RegionsArePrivate` |

`PlatformAssumption` is about the kernel's layout: its pages are aligned, start-up's
mapping covers the kernel and the bitmap's place, and the higher half does not wrap.
The hypothesis `SuitableMachines` is about the machine, and each part of it is one
that the code does not test:

* some usable entry of the memory map starts at or below the bitmap (5 MB), ends
  below the higher half, and has room above the bitmap for it, the frames of heap
  and VMM and a few more (`MemoryNeeded`). The few are those of the last element of
  the frame allocator's bitmap, which may be tracked and yet not be handed out;
* usable memory does not overlap the kernel's pages in the higher half, nor does the
  framebuffer, which ends below the last page of the address space (section 5 says what
  happens otherwise).

A PC with some 10 MB satisfies it. `MemoryNeeded` is on the safe side: of the machines
of the run `platform`, those with less are only model-checked.

`PlatInv` is the conjunction of `FrameInv`, proved again over these steps; `MapInv`, what
the kernel's table maps after each step and keeps mapped while later ones add to it,
which is where two regions that overlap would show (the framebuffer, used after `enable`,
among them); `DirInv`, what the two directories hold at each step; `ControlInv`, which of
them is in use when, and that nothing has faulted; and `LoopInv`: the frames handed to
`Heap::init` and `VMM::init` are `Handed(n)`, the `n` frames from `FirstFrame` on. That
needs `Enough`: after `init` the frames from `FirstFrame` are free without a hole,
which follows from the entry of `SuitableMachines` and the arithmetic of `mark`. The
code computes regions from the first frame and a count; `Handed` is what makes them
the frames that were allocated.

### Console and lines

`ConsoleProofs` proves, for every mode, font, size of a character, width of an int,
string, format, report, segment and number of calls that satisfy
`FramebufferAssumption` and `ConsoleAssumption`:

| Theorem | Statement |
|---|---|
| `ConsoleCorrect` | `Spec => []ConsoleInv` |
| `ConsoleLinesAreStraight`, `ConsoleScreenShowsText` | the invariants `LineIsStraight`, `ScreenShowsText` |
| `ConsoleNumbersAreRight` | the action property `NumbersAreRight` |

The assumptions say that a row of pixels fits the pitch, that a glyph fits its cell,
that no two digits look alike and that `%d` gets an int.

*Lines.* `LineInv` says of the running line that `err` is the distance of the current
point from the segment (in units of the lengths of its sides) plus `dx + dy`, that this
point is within half a pixel of it, and that one point was drawn for every coordinate
passed on the longer axis. `BresenhamStep` is one iteration: tests that read `err`
before either update always move along the longer axis and keep the distance.

*Screen.* `AddressUnique` is that no byte belongs to two points, `PutPixels` that
drawing changes the bytes of the points drawn on the screen and no others, and
`BoxOfCell` that the points of a character are its cell's. `ScreenInv` holds at any
time: the padding is black and lines show. The difficulty of the text is that
`draw_string` runs ahead of
the cursor: in the middle of a call screen and `cells` differ. `TextInv` therefore
speaks of the states `H[1]`, `H[2]`, ... of a terminal that reads the string
(`Leads`). While `draw_string` is at character `k` the screen shows the text of `H[k]`, and
its pen is at the column of `H[k]`, or only newlines and carriage returns are left
(`DrawnAhead`); while the second loop is at `k` the cursor and `cells` are `H[k]` and the
screen shows the last one (`CatchingUp`). Where the two loops disagree (`Strays`, section
2) nothing is claimed, and this case split is the only place where the proof needs it.

*Numbers.* `convert` puts digits in front while `ValueOf` reads from the front.
`NumberInv` has the powers of the base and the values of the first `k` digits as functions:
the argument is what is left of it times the power, plus the value of the digits; and
if nothing is left the first of several digits is not 0. That `ValueOf`, a recursive
function, equals these values follows from the least number at which it would not
(`LeastNat`, `ValueOfIs`).

### Only model-checked

* Liveness: `CallsReturn`, `KeysReachKmain`, `BootEnds`, `CallsEnd`. Out of reach of the
  prover. That `convert` never needs more than its buffer is part of `CallsEnd`.
* `Platform` on machines with less memory than `MemoryNeeded`.

## 5. Not modelled, and known limits

Not modelled:

* Ports, control registers, debug port, build files: single instructions, I/O.
* VBE, A20 and protected mode: set once, nothing depends on their order here.
* The colours that `putpixel` packs into 16 bits, and the font: data.
* Pointers that are freed twice or were never allocated: outside `kfree`'s contract.
* C++ object lifetime. `platform_init` initialises a local `Heap` while `kmalloc`
  uses the static `kernel_heap` (`heap.cpp:4`, `platform.cpp:71`), and the VMM keeps
  pointers to locals of `platform_init`. The models start from initialised objects.
* The test of the VMM in `platform_init` (`platform.cpp:77-91`): its calls are among those
  of `VMM`, its writes to 0xD0000000 are not steps of `Platform`.
* Keys struck before `idt::init`. From `cli` in `stage2.asm:81` on they leave the keyboard
  controller full, like those of the run `early_key`.
* Machines with too little memory for heap and VMM: `Heap::init` and `VMM::init` do
  not look at a failed `alloc_frame`, so `Platform` has no useful state there.

Met while modelling, excluded by the instances above:

* `VMM::init` and `Heap::init` keep the first frame and assume that the others follow
  it (`vmm.cpp:20`; `heap.hpp:21`, "they should be contiguous"). With a hole between
  the first free frames of the memory map they claim memory that is not theirs. The
  maps of `vmm` and `platform` have no such hole.
* With usable memory at 0xC0000000 or above, `identity_map_usable`
  (`memory_map.cpp:24`) replaces the higher-half mapping of the kernel, and the first
  instruction after `pd.enable()` faults. The maps of `platform` end below.
* A framebuffer that ends in the last page of the address space is not mapped: the
  rounding in `identity_map_range` (`paging.cpp:27`) wraps to 0 and the loop is empty, so
  that the first message after `enable` faults. Those of `platform` end below.
* System call numbers are cut to a byte (`syscall.cpp:26`): 256 is `SYS_READ` and 257
  `SYS_WRITE`, where the comment (`syscall.cpp:40-41`) has unknown numbers answered by -1.
  The run `entry` makes such a call; `SyscallsAnswered` claims nothing of its result.
* Two comments in `platform.cpp` describe another version of the code, and the model
  follows the code. Lines 20-22 have a bootstrap mapping of 4 MB; `bootstrap.cpp` maps
  8 MB, and with 4 MB the page tables that end at 5 MB would not be reachable (mutant
  `BootstrapHalf`). Lines 33-36 call 0x9C000, which `boot_info` names, the directory in use
  and say that 0x9D000 is taken instead; line 38 takes the one of `boot_info`, which is
  right because `bootstrap.cpp:8` has its own at 0x9A000. If the comment were true
  `pd.init` would fault (mutant `PdZeroLive`).
* The VMM's region (`vmm.hpp:10`) starts at 0xD0000000, and the framebuffer is
  identity-mapped wherever VBE put it; nothing keeps them apart. `Platform` maps both
  but has no pages of the VMM's region in use.

## 6. State of the project

Every module listed in section 2 is complete: modelled, checked and, as far as safety
goes, proved. What would be worth adding, in this order: machines with too little
memory, once `Heap::init` and `VMM::init` look at what `alloc_frame` returns; the static
`kernel_heap`, once something initialises it (section 5); and the VMM's region
next to the framebuffer in one address space.
