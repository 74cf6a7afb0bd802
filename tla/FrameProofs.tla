---------------------------- MODULE FrameProofs ----------------------------
(***************************************************************************)
(* Proofs about FrameAllocator, for every page size, width of an address,  *)
(* layout of the bitmap and memory map that satisfies FrameAssumption.     *)
(***************************************************************************)
EXTENDS FrameAllocator, TLAPS

(* Division. *)

(* Whole division: the quotient is the only q with d * q <= n < d * q + d. *)
LEMMA Quotient ==
  ASSUME NEW n \in Nat, NEW d \in Nat \ {0}
  PROVE  /\ n \div d \in Nat
         /\ d * (n \div d) <= n
         /\ n < d * (n \div d) + d
  OBVIOUS

(* A product grows with its factor. *)
LEMMA Times ==
  ASSUME NEW a \in Nat, NEW b \in Nat, NEW d \in Nat \ {0}, a < b
  PROVE  d * a + d <= d * b
  OBVIOUS

(* A product is at least its factor. *)
LEMMA AtLeast ==
  ASSUME NEW a \in Nat, NEW d \in Nat \ {0}
  PROVE  a <= d * a
  <1>1. d - 1 \in Nat
    OBVIOUS
  <1>2. (d - 1) * a \in Nat
    BY <1>1
  <1>3. d * a = a + (d - 1) * a
    OBVIOUS
  <1> QED BY <1>2, <1>3

(* q is below the quotient exactly when its next multiple is not above n. *)
LEMMA BelowQuotient ==
  ASSUME NEW n \in Nat, NEW d \in Nat \ {0}, NEW q \in Nat
  PROVE  q < n \div d <=> d * q + d <= n
  <1> DEFINE r == n \div d
  <1>1. r \in Nat /\ d * r <= n /\ n < d * r + d
    BY Quotient
  <1> HIDE DEF r
  <1>2. ASSUME q < r PROVE d * q + d <= n
    <2>1. d * q + d <= d * r
      BY <1>1, <1>2, Times
    <2> QED BY <2>1, <1>1
  <1>3. ASSUME r <= q PROVE n < d * q + d
    <2>1. d * r <= d * q
      <3>1. CASE r = q BY <3>1, <1>1
      <3>2. CASE r < q
        <4>1. d * r + d <= d * q BY <3>2, <1>1, Times
        <4> QED BY <4>1, <1>1
      <3> QED BY <3>1, <3>2, <1>1, <1>3
    <2> QED BY <2>1, <1>1
  <1>4. q < r <=> d * q + d <= n
    BY <1>1, <1>2, <1>3
  <1> QED BY <1>4 DEF r

(* Dividing a multiple gives the factor back. *)
LEMMA QuotientOfMultiple ==
  ASSUME NEW q \in Nat, NEW d \in Nat \ {0}
  PROVE  (q * d) \div d = q
  <1> DEFINE n == d * q
             r == n \div d
  <1>1. n \in Nat
    OBVIOUS
  <1>2. r \in Nat
    BY <1>1, Quotient
  <1>3. ~ (q < r)
    <2>1. q < r <=> d * q + d <= n
      BY <1>1, BelowQuotient
    <2> QED BY <2>1, <1>1
  <1>4. ASSUME r < q PROVE FALSE
    <2>1. n < d * r + d
      BY <1>1, Quotient
    <2>2. d * r + d <= d * q
      BY <1>2, <1>4, Times
    <2> QED BY <2>1, <2>2, <1>1, <1>2
  <1>5. r = q
    <2> HIDE DEF r
    <2> QED BY <1>2, <1>3, <1>4
  <1>6. q * d = n
    OBVIOUS
  <1> QED BY <1>5, <1>6

-----------------------------------------------------------------------------

(* mark() covers exactly the pages with a byte of the range, when rounding *)
(* the end up does not wrap.                                               *)
LEMMA MarkCoversRange ==
  ASSUME NEW start \in Nat, NEW end \in Nat, NEW f \in Nat,
         end + (PAGE_SIZE - 1) < AddrMod
  PROVE  f \in mark(start, end) <=>
           start < PAGE_SIZE * f + PAGE_SIZE /\ PAGE_SIZE * f < end
  <1> DEFINE up == end + (PAGE_SIZE - 1)
             lo == start \div PAGE_SIZE
             hi == up \div PAGE_SIZE
  <1>0. PAGE_SIZE \in Nat \ {0} /\ AddrMod \in Nat
    BY FrameAssumption
  <1>1. up \in Nat /\ up % AddrMod = up
    BY <1>0
  <1>2. lo \in Nat /\ hi \in Nat
    BY <1>0, <1>1, Quotient
  <1>3. f \in mark(start, end) <=> lo <= f /\ f < hi
    <2>1. mark(start, end) = lo .. hi - 1
      BY <1>1 DEF mark, get_frame_number
    <2> HIDE DEF lo, hi
    <2> QED BY <2>1, <1>2
  <1>4. f < lo <=> PAGE_SIZE * f + PAGE_SIZE <= start
    BY <1>0, BelowQuotient
  <1>5. f < hi <=> PAGE_SIZE * f + PAGE_SIZE <= up
    BY <1>0, <1>1, BelowQuotient
  <1>6. PAGE_SIZE * f \in Nat
    BY <1>0
  <1> HIDE DEF lo, hi
  <1> QED BY <1>0, <1>2, <1>3, <1>4, <1>5, <1>6

(* An end in the last page wraps when it is rounded up: mark() does nothing. *)
LEMMA MarkOfWrappedEnd ==
  ASSUME NEW start \in Nat, NEW end \in Nat,
         AddrMod <= end + (PAGE_SIZE - 1), end < AddrMod,
         PAGE_SIZE < AddrMod
  PROVE  mark(start, end) = {}
  <1> DEFINE up == end + (PAGE_SIZE - 1)
             low == up - AddrMod
  <1>0. PAGE_SIZE \in Nat \ {0} /\ AddrMod \in Nat
    BY FrameAssumption
  <1>1. low \in Nat /\ low < PAGE_SIZE /\ low < AddrMod
    BY <1>0
  <1>2. up % AddrMod = low
    <2>1. up = low + AddrMod BY <1>0
    <2>2. up \in Nat BY <1>0
    <2> HIDE DEF up, low
    <2> QED BY <1>0, <1>1, <2>1, <2>2
  <1>3. low \div PAGE_SIZE = 0
    <2>1. low \div PAGE_SIZE \in Nat /\ (0 < low \div PAGE_SIZE <=> PAGE_SIZE * 0 + PAGE_SIZE <= low)
      BY <1>0, <1>1, Quotient, BelowQuotient
    <2> HIDE DEF low
    <2> QED BY <1>0, <1>1, <2>1
  <1>4. start \div PAGE_SIZE \in Nat
    BY <1>0, Quotient
  <1>5. mark(start, end) = (start \div PAGE_SIZE) .. 0 - 1
    BY <1>2, <1>3 DEF mark, get_frame_number
  <1> QED BY <1>4, <1>5

(* What FrameAssumption says of the page size and the address space. *)
LEMMA Room ==
  /\ PAGE_SIZE \in Nat \ {0}
  /\ AddrMod \in Nat
  /\ AddrMod \div PAGE_SIZE \in Nat
  /\ PAGE_BASE \in Nat \ {0}
  /\ BITMAP_BASE \in Nat
  /\ PAGE_BASE < BITMAP_BASE
  /\ BITMAP_BASE + AddrMod \div PAGE_SIZE + 2 * PAGE_SIZE < AddrMod
  BY FrameAssumption, Quotient

(* The three regions that init reserves cover, together, every page with a *)
(* byte below the end of the bitmap, and no other.                         *)
LEMMA ReservedCovers ==
  ASSUME NEW size \in 0 .. AddrMod \div PAGE_SIZE, NEW f \in Nat
  PROVE  f \in mark(BIOS_BASE, PAGE_BASE)
                 \cup mark(PAGE_BASE, BITMAP_BASE)
                 \cup mark(BITMAP_BASE, BITMAP_BASE + size)
           <=> PAGE_SIZE * f < BITMAP_BASE + size
  <1> DEFINE at == PAGE_SIZE * f
  <1>0. at \in Nat /\ size \in Nat /\ size <= AddrMod \div PAGE_SIZE
    BY Room
  <1>1. f \in mark(BIOS_BASE, PAGE_BASE) <=> 0 < at + PAGE_SIZE /\ at < PAGE_BASE
    BY Room, MarkCoversRange DEF BIOS_BASE
  <1>2. f \in mark(PAGE_BASE, BITMAP_BASE) <=>
          PAGE_BASE < at + PAGE_SIZE /\ at < BITMAP_BASE
    BY Room, MarkCoversRange
  <1>3. f \in mark(BITMAP_BASE, BITMAP_BASE + size) <=>
          BITMAP_BASE < at + PAGE_SIZE /\ at < BITMAP_BASE + size
    BY Room, <1>0, MarkCoversRange
  <1> HIDE DEF at
  <1>4. f \in mark(BIOS_BASE, PAGE_BASE)
          \/ f \in mark(PAGE_BASE, BITMAP_BASE)
          \/ f \in mark(BITMAP_BASE, BITMAP_BASE + size)
        <=> at < BITMAP_BASE + size
    BY Room, <1>0, <1>1, <1>2, <1>3
  <1> QED BY <1>4 DEF at

(* The frames that init frees are those that a usable entry meets, without *)
(* the entries that end in the last page or above it.                      *)
LEMMA FreedFrames ==
  ASSUME mmap \in Maps, NEW f \in Nat
  PROVE  f \in Freed <=>
           \E i \in Usable : /\ Meets(i, f)
                             /\ mmap[i].base + mmap[i].length <= AddrMod - PAGE_SIZE
  <1>1. ASSUME NEW i \in Usable
        PROVE  f \in mark(mmap[i].base % AddrMod, EntryEnd(i)) <=>
                 /\ Meets(i, f)
                 /\ mmap[i].base + mmap[i].length <= AddrMod - PAGE_SIZE
    <2> DEFINE base == mmap[i].base
               end == mmap[i].base + mmap[i].length
    <2>1. base \in Nat /\ end \in Nat /\ base <= end
      <3>1. base \in Nat /\ mmap[i].length \in Nat
        BY <1>1, FrameAssumption DEF Usable
      <3> QED BY <3>1
    <2>2. EntryEnd(i) = IF end > AddrMod - 1 THEN AddrMod - 1 ELSE end
      BY DEF EntryEnd, clamp, HIGHEST_USABLE_ADDR
    <2>3. Meets(i, f) <=> base < PAGE_SIZE * f + PAGE_SIZE /\ PAGE_SIZE * f < end
      BY <2>1, Room DEF Meets
    <2>4. base % AddrMod \in Nat
      BY <2>1, Room
    <2> HIDE DEF base, end
    <2>5. CASE end <= AddrMod - PAGE_SIZE
      <3>1. base % AddrMod = base /\ EntryEnd(i) = end
        BY <2>5, <2>1, <2>2, Room
      <3>2. f \in mark(base, end) <=> base < PAGE_SIZE * f + PAGE_SIZE /\ PAGE_SIZE * f < end
        BY <2>5, <2>1, Room, MarkCoversRange
      <3> QED BY <3>1, <3>2, <2>3, <2>5 DEF base, end
    <2>6. CASE ~ (end <= AddrMod - PAGE_SIZE)
      <3>1. /\ EntryEnd(i) \in Nat
            /\ EntryEnd(i) < AddrMod
            /\ AddrMod <= EntryEnd(i) + (PAGE_SIZE - 1)
        BY <2>6, <2>1, <2>2, Room
      <3>2. mark(base % AddrMod, EntryEnd(i)) = {}
        BY <3>1, <2>4, Room, MarkOfWrappedEnd
      <3> QED BY <3>2, <2>6 DEF base, end
    <2> QED BY <2>5, <2>6
  <1> QED BY <1>1 DEF Freed

(* alloc_frame looks only at bits that the bitmap has. *)
LEMMA ScannedInBitmap ==
  ASSUME NEW size \in Nat
  PROVE  0 .. (size \div WORD) * WORD * BYTE - 1 \subseteq 0 .. size * BYTE - 1
  <1> DEFINE whole == WORD * (size \div WORD)
  <1>1. WORD \in Nat \ {0} /\ BYTE \in Nat \ {0}
    BY FrameAssumption
  <1>2. size \div WORD \in Nat /\ whole \in Nat /\ whole <= size
    BY <1>1, Quotient
  <1>3. (size \div WORD) * WORD = whole
    BY <1>1, <1>2
  <1> HIDE DEF whole
  <1>4. whole * BYTE <= size * BYTE
    <2>1. CASE whole = size
      BY <2>1, <1>1, <1>2
    <2>2. CASE whole < size
      <3>1. BYTE * whole + BYTE <= BYTE * size
        BY <2>2, <1>1, <1>2, Times
      <3> QED BY <3>1, <1>1, <1>2
    <2> QED BY <2>1, <2>2, <1>2
  <1>5. whole * BYTE \in Nat /\ size * BYTE \in Nat
    BY <1>1, <1>2
  <1> QED BY <1>3, <1>4, <1>5

-----------------------------------------------------------------------------
(* Nobody holds a frame before init.  FramesConserved needs ReservedStayUsed *)
(* when a frame is freed, and both need to know that init finds held empty.  *)
NothingHeldBeforeInit == ~ready => held = {}

FrameInv ==
  /\ FrameTypeOK
  /\ NothingHeldBeforeInit
  /\ ReservedStayUsed
  /\ FramesConserved

(* The state before init. *)
LEMMA InitEstablishesFrameInv == FrameAllocatorInit => FrameInv
  <1> SUFFICES ASSUME FrameAllocatorInit PROVE FrameInv
    OBVIOUS
  <1>1. FrameTypeOK
    <2>1. used \subseteq Nat
      BY FrameAssumption DEF FrameAllocatorInit
    <2>2. 0 \in 0 .. AddrMod \div PAGE_SIZE
      BY Room
    <2> QED BY <2>1, <2>2 DEF FrameAllocatorInit, FrameTypeOK
  <1> QED BY <1>1 DEF FrameAllocatorInit, FrameInv, NothingHeldBeforeInit,
                      ReservedStayUsed, FramesConserved

(* init leaves exactly the frames of the pool free. *)
LEMMA FrameInitEstablishes ==
  ASSUME FrameInv, FrameInit
  PROVE  FrameInv'
  <1> DEFINE size == bitmap_size'
  <1>0. /\ mmap \in Maps /\ used \subseteq Nat /\ held = {} /\ ret \in Nat
        /\ mmap' = mmap /\ held' = {} /\ ret' = ret /\ ready' = TRUE
    BY DEF FrameInv, FrameTypeOK, NothingHeldBeforeInit, FrameInit
  <1>1. \A i \in Usable : EntryEnd(i) \in Nat /\ EntryEnd(i) < AddrMod
    <2> SUFFICES ASSUME NEW i \in Usable
                 PROVE  EntryEnd(i) \in Nat /\ EntryEnd(i) < AddrMod
      OBVIOUS
    <2>1. mmap[i].base \in Nat /\ mmap[i].length \in Nat
      BY <1>0, FrameAssumption DEF Usable
    <2> QED BY <2>1, Room DEF EntryEnd, clamp, HIGHEST_USABLE_ADDR
  <1>2. total_frames' \in 0 .. AddrMod \div PAGE_SIZE
    <2>1. PICK highest_addr \in {0} \cup {EntryEnd(i) : i \in Usable} :
            total_frames' = highest_addr \div PAGE_SIZE
      BY DEF FrameInit
    <2>2. highest_addr \in Nat /\ highest_addr < AddrMod
      BY <1>1, Room
    <2> DEFINE n == highest_addr \div PAGE_SIZE
               a == AddrMod \div PAGE_SIZE
    <2>3. n \in Nat /\ PAGE_SIZE * n <= highest_addr
      BY <2>2, Room, Quotient
    <2>4. a \in Nat /\ AddrMod < PAGE_SIZE * a + PAGE_SIZE
      BY Room, Quotient
    <2> HIDE DEF n, a
    <2>5. ~ (a < n)
      <3> SUFFICES ASSUME a < n PROVE FALSE
        OBVIOUS
      <3>1. PAGE_SIZE * a + PAGE_SIZE <= PAGE_SIZE * n
        BY <2>3, <2>4, Room, Times
      <3>2. PAGE_SIZE * a \in Nat /\ PAGE_SIZE * n \in Nat
        BY <2>3, <2>4, Room
      <3> QED BY <3>1, <3>2, <2>2, <2>3, <2>4, Room
    <2>6. n \in 0 .. a
      BY <2>3, <2>4, <2>5
    <2> QED BY <2>1, <2>6 DEF n, a
  <1>3. size \in 0 .. AddrMod \div PAGE_SIZE
    <2> DEFINE t == total_frames'
               up == t + (BYTE - 1)
               s == up \div BYTE
    <2>0. BYTE \in Nat \ {0}
      BY FrameAssumption
    <2>1. t \in Nat /\ BYTE \in Nat \ {0} /\ up \in Nat
      <3>1. t \in Nat
        BY <1>2
      <3> HIDE DEF t
      <3> QED BY <3>1, <2>0
    <2>2. s \in Nat /\ (t < s <=> BYTE * t + BYTE <= up)
      BY <2>1, Quotient, BelowQuotient
    <2>3. t <= BYTE * t /\ BYTE * t \in Nat
      <3> HIDE DEF t
      <3>1. BYTE * t \in Nat
        BY <2>1
      <3>2. t <= BYTE * t
        BY <2>1, AtLeast
      <3> QED BY <3>1, <3>2
    <2>4. s <= t
      <3>1. ~ (BYTE * t + BYTE <= up)
        <4> DEFINE m == BYTE * t
        <4> HIDE DEF m, t
        <4>1. m \in Nat /\ t <= m
          BY <2>3 DEF m
        <4>2. ~ (m + BYTE <= t + (BYTE - 1))
          BY <4>1, <2>1
        <4> QED BY <4>2 DEF m
      <3> HIDE DEF s, t, up
      <3> QED BY <3>1, <2>1, <2>2
    <2>5. size = s
      BY DEF FrameInit
    <2> HIDE DEF s, t, size
    <2> QED BY <1>2, <2>1, <2>2, <2>4, <2>5, Room DEF t
  <1>4. \A f \in Nat : f \in Reserved' <=> PAGE_SIZE * f < BITMAP_BASE + size
    BY <1>3, ReservedCovers DEF Reserved
  <1>5. \A f \in Nat : f \in CriticalFrames' <=> PAGE_SIZE * f < BITMAP_BASE + size
    <2>0. SUFFICES ASSUME NEW f \in Nat, PAGE_SIZE * f < BITMAP_BASE + size
                   PROVE  f \in 0 .. AddrMod \div PAGE_SIZE - 1
      <3>1. \A f \in Nat : f * PAGE_SIZE = PAGE_SIZE * f
        BY Room
      <3>2. \A f : f \in CriticalFrames' <=> /\ f \in 0 .. AddrMod \div PAGE_SIZE - 1
                                            /\ f * PAGE_SIZE < BITMAP_BASE + size
        BY DEF CriticalFrames
      <3> QED BY <2>0, <3>1, <3>2
    <2>1. PAGE_SIZE * f + PAGE_SIZE <= AddrMod
      <3>1. PAGE_SIZE * f \in Nat
        BY Room
      <3> HIDE DEF size
      <3> QED BY <2>0, <3>1, <1>3, Room
    <2>2. f < AddrMod \div PAGE_SIZE
      BY <2>1, Room, BelowQuotient
    <2> QED BY <2>2, Room
  <1>6. CriticalFrames' \subseteq Nat
    BY DEF CriticalFrames
  <1>7. \A f : f \in used' <=> \/ (f \in used \/ f \in BitmapBits') /\ f \notin Freed
                               \/ f \in Reserved'
    BY DEF FrameInit
  <1>8. Scanned' \subseteq BitmapBits' /\ Scanned' \subseteq Nat /\ BitmapBits' \subseteq Nat
    <2>1. size \in Nat
      BY <1>3, Room
    <2>2. Scanned' \subseteq BitmapBits'
      BY <2>1, ScannedInBitmap DEF Scanned, BitmapBits
    <2>3. BitmapBits' \subseteq Nat
      BY DEF BitmapBits
    <2> QED BY <2>2, <2>3
  <1>9. FrameTypeOK'
    <2>1. Reserved' \subseteq Nat
      <3>1. /\ mark(BIOS_BASE, PAGE_BASE) \subseteq Nat
            /\ mark(PAGE_BASE, BITMAP_BASE) \subseteq Nat
            /\ mark(BITMAP_BASE, BITMAP_BASE + size) \subseteq Nat
        <4>1. \A start \in Nat : get_frame_number(start) \in Nat
          BY Room, Quotient DEF get_frame_number
        <4>2. \A start \in Nat : \A end : \A f \in mark(start, end) : f \in Nat
          BY <4>1 DEF mark
        <4> QED BY <4>2, Room DEF BIOS_BASE
      <3> QED BY <3>1 DEF Reserved
    <2>2. used' \subseteq Nat
      BY <1>0, <1>7, <1>8, <2>1
    <2> QED BY <1>0, <1>2, <1>3, <2>2 DEF FrameTypeOK
  <1>10. ReservedStayUsed'
    BY <1>0, <1>4, <1>5, <1>6, <1>7 DEF ReservedStayUsed
  <1>11. Scanned' \ used' = Pool'
    <2>1. \A f \in Nat : f \in Freed <=>
            \E i \in Usable : /\ Meets(i, f)
                              /\ mmap[i].base + mmap[i].length <= AddrMod - PAGE_SIZE
      BY <1>0, FreedFrames
    <2>2. \A f \in Scanned' : f \in used' <=> f \notin Freed \/ f \in CriticalFrames'
      BY <1>4, <1>5, <1>7, <1>8
    <2>3. \A f : f \in Pool' <=> f \in Scanned' /\ f \notin CriticalFrames' /\ f \in Freed
      BY <1>0, <1>8, <2>1 DEF Pool, Usable, Meets
    <2> QED BY <2>2, <2>3
  <1>12. FramesConserved'
    BY <1>0, <1>11 DEF FramesConserved
  <1> QED BY <1>0, <1>9, <1>10, <1>12 DEF FrameInv, NothingHeldBeforeInit

(* A step that leaves the map and the bitmap's size alone keeps the sets *)
(* that FrameInv speaks of.                                              *)
LEMMA SetsUnchanged ==
  ASSUME UNCHANGED <<mmap, bitmap_size>>
  PROVE  CriticalFrames' = CriticalFrames /\ Scanned' = Scanned /\ Pool' = Pool
  <1>1. CriticalFrames' = CriticalFrames /\ Scanned' = Scanned
    BY DEF CriticalFrames, Scanned
  <1>2. Usable' = Usable /\ mmap' = mmap
    BY DEF Usable
  <1> QED BY <1>1, <1>2 DEF Pool, Meets

(* alloc_frame takes a frame of the pool, which is none the kernel stands on. *)
LEMMA AllocPreserves ==
  ASSUME FrameInv, NEW f \in Scanned, alloc_frame(f)
  PROVE  FrameInv' /\ f \in Pool \ held
  <1>1. /\ ready /\ ready' = ready /\ f \in Scanned /\ f \notin used
        /\ used' = used \cup {f} /\ held' = held \cup {f}
        /\ ret' = f * PAGE_SIZE
        /\ UNCHANGED <<mmap, total_frames, bitmap_size>>
    BY DEF alloc_frame
  <1>2. f \in Nat
    BY DEF Scanned
  <1>3. ret' \in Nat
    BY <1>1, <1>2, Room
  <1>4. FrameTypeOK'
    BY <1>1, <1>2, <1>3 DEF FrameInv, FrameTypeOK
  <1>5. CriticalFrames' = CriticalFrames /\ Scanned' = Scanned /\ Pool' = Pool
    BY <1>1, SetsUnchanged
  <1>6. ReservedStayUsed'
    BY <1>1, <1>5 DEF FrameInv, ReservedStayUsed
  <1>7. f \in Pool \ held
    BY <1>1 DEF FrameInv, FramesConserved
  <1>8. FramesConserved'
    BY <1>1, <1>5, <1>7 DEF FrameInv, FramesConserved
  <1> QED BY <1>1, <1>4, <1>6, <1>7, <1>8 DEF FrameInv, NothingHeldBeforeInit

(* free_frame gives back the frame that the caller held. *)
LEMMA FreePreserves ==
  ASSUME FrameInv, NEW f \in held, free_frame(f * PAGE_SIZE)
  PROVE  FrameInv'
  <1>1. f \in Nat
    BY DEF FrameInv, FrameTypeOK
  <1>2. get_frame_number(f * PAGE_SIZE) = f
    BY <1>1, Room, QuotientOfMultiple DEF get_frame_number
  <1>3. /\ ready /\ ready' = ready
        /\ used' = used \ {f} /\ held' = held \ {f}
        /\ UNCHANGED <<mmap, total_frames, bitmap_size, ret>>
    BY <1>2 DEF free_frame
  <1>4. FrameTypeOK'
    BY <1>3 DEF FrameInv, FrameTypeOK
  <1>5. CriticalFrames' = CriticalFrames /\ Scanned' = Scanned /\ Pool' = Pool
    BY <1>3, SetsUnchanged
  <1>6. ReservedStayUsed'
    BY <1>3, <1>5 DEF FrameInv, ReservedStayUsed
  <1>7. Pool \subseteq Scanned
    BY DEF Pool
  <1>8. FramesConserved'
    BY <1>3, <1>5, <1>7 DEF FrameInv, FramesConserved
  <1> QED BY <1>3, <1>4, <1>6, <1>8 DEF FrameInv, NothingHeldBeforeInit

(* A step that touches neither the bitmap nor what is held. *)
LEMMA RestPreserves ==
  ASSUME FrameInv, ret' \in Nat,
         UNCHANGED <<mmap, ready, used, total_frames, bitmap_size, held>>
  PROVE  FrameInv'
  <1>1. CriticalFrames' = CriticalFrames /\ Scanned' = Scanned /\ Pool' = Pool
    BY SetsUnchanged
  <1> QED BY <1>1 DEF FrameInv, FrameTypeOK, NothingHeldBeforeInit,
                      ReservedStayUsed, FramesConserved

(* Every step keeps the invariant. *)
LEMMA StepPreservesFrameInv == FrameInv /\ [FrameNext]_frameVars => FrameInv'
  <1> SUFFICES ASSUME FrameInv, [FrameNext]_frameVars PROVE FrameInv'
    OBVIOUS
  <1>1. CASE FrameInit
    BY <1>1, FrameInitEstablishes
  <1>2. CASE \E f \in Scanned : alloc_frame(f)
    BY <1>2, AllocPreserves
  <1>3. CASE alloc_frame_fails
    BY <1>3, RestPreserves DEF alloc_frame_fails
  <1>4. CASE \E f \in held : free_frame(f * PAGE_SIZE)
    BY <1>4, FreePreserves
  <1>5. CASE UNCHANGED frameVars
    BY <1>5, RestPreserves DEF frameVars, FrameInv, FrameTypeOK
  <1> QED BY <1>1, <1>2, <1>3, <1>4, <1>5 DEF FrameNext

-----------------------------------------------------------------------------
(* The frame allocator keeps FrameInv: types, reserved memory and the pool. *)
THEOREM FramesCorrect == FrameSpec => []FrameInv
  BY InitEstablishesFrameInv, StepPreservesFrameInv, PTL DEF FrameSpec

(* The BIOS's memory, the page tables and the bitmap are never free and    *)
(* never handed out, whatever map the BIOS reported to FrameAllocator::init. *)
THEOREM FramesReserved == FrameSpec => []ReservedStayUsed
  <1>1. FrameInv => ReservedStayUsed
    BY DEF FrameInv
  <1> QED BY <1>1, FramesCorrect, PTL

(* Every frame that a usable entry of the map offers is free or held, never *)
(* both, and alloc_frame hands out nothing else.                            *)
THEOREM FramesAreConserved == FrameSpec => []FramesConserved
  <1>1. FrameInv => FramesConserved
    BY DEF FrameInv
  <1> QED BY <1>1, FramesCorrect, PTL

(***************************************************************************)
(* alloc_frame returns the lowest frame of the pool that nobody holds,     *)
(* never the address 0 for one, and 0 only when all of the pool is held.   *)
(***************************************************************************)
THEOREM FramesReturnsLowestFree == FrameSpec => ReturnsLowestFree
  <1> DEFINE Changes == ret' # ret \/ ~(held' \subseteq held)
             Fails == ret' = 0 /\ held' = held /\ Pool \subseteq held
             Succeeds == /\ ret' # 0
                         /\ get_frame_number(ret') \in Pool \ held
                         /\ held' = held \cup {get_frame_number(ret')}
                         /\ \A g \in Pool \ held : get_frame_number(ret') <= g
  <1>1. ASSUME FrameInv, FrameNext, Changes PROVE Fails \/ Succeeds
    <2>1. ASSUME ready PROVE Scanned \ used = Pool \ held
      BY <1>1, <2>1 DEF FrameInv, FramesConserved
    <2>2. CASE FrameInit
      BY <1>1, <2>2 DEF FrameInit
    <2>3. CASE \E f \in held : free_frame(f * PAGE_SIZE)
      BY <1>1, <2>3 DEF free_frame
    <2>4. CASE alloc_frame_fails
      BY <1>1, <2>1, <2>4 DEF alloc_frame_fails, FrameInv
    <2>5. CASE \E f \in Scanned : alloc_frame(f)
      <3>1. PICK f \in Scanned : alloc_frame(f)
        BY <2>5
      <3>2. /\ f \in Pool \ held /\ \A g \in Pool \ held : f <= g
            /\ ret' = f * PAGE_SIZE /\ held' = held \cup {f} /\ f \in Nat
        BY <3>1, <2>1 DEF alloc_frame, Scanned
      <3>3. 0 \in CriticalFrames
        <4>1. 0 < AddrMod \div PAGE_SIZE
          BY Room, BelowQuotient
        <4>2. bitmap_size \in Nat
          BY <1>1, Room DEF FrameInv, FrameTypeOK
        <4>3. 0 * PAGE_SIZE < BITMAP_BASE + bitmap_size
          BY <4>2, Room
        <4> QED BY <4>1, <4>3, Room DEF CriticalFrames
      <3>4. f # 0
        BY <3>2, <3>3 DEF Pool
      <3>5. ret' # 0
        BY <3>2, <3>4, Room
      <3>6. get_frame_number(ret') = f
        BY <3>2, Room, QuotientOfMultiple DEF get_frame_number
      <3> QED BY <3>2, <3>5, <3>6
    <2> QED BY <1>1, <2>2, <2>3, <2>4, <2>5 DEF FrameNext
  <1>2. FrameInv /\ [FrameNext]_frameVars => [Changes => Fails \/ Succeeds]_frameVars
    BY <1>1
  <1> QED BY <1>2, FramesCorrect, PTL DEF FrameSpec, ReturnsLowestFree
=============================================================================
