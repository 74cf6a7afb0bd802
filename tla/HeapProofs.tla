----------------------------- MODULE HeapProofs -----------------------------
(***************************************************************************)
(* Proofs about the kernel heap, for every region, header size, split      *)
(* threshold and set of requests.                                          *)
(***************************************************************************)
EXTENDS Heap, TLAPS

(* uint32_t arithmetic does not wrap on values below SizeMod. *)
LEMMA NoWrap ==
  ASSUME NEW n \in Nat, n < SizeMod
  PROVE  U32(n) = n
  BY HeapAssumption DEF U32

(* Once a block fits, the sum in the split test does not wrap. *)
LEMMA SplitTest ==
  ASSUME HeapInv, cur \in Blocks, Fits(cur)
  PROVE  /\ U32(U32(req + HeaderSize) + MIN_SPLIT) = req + HeaderSize + MIN_SPLIT
         /\ req <= blocks[cur].size
  <1>1. req \in Nat /\ blocks[cur].size \in Nat /\ cur \in Nat
    BY DEF HeapInv, TypeOK, Header
  <1>2. req <= blocks[cur].size
    BY <1>1 DEF Fits
  <1>3. HeapStart <= cur /\ cur + HeaderSize + blocks[cur].size <= HeapStart + TotalSize
    BY DEF HeapInv, Tiled, End, HeapEnd
  <1>4. req + HeaderSize + MIN_SPLIT < SizeMod
    BY <1>1, <1>2, <1>3, HeapAssumption
  <1>5. U32(req + HeaderSize) = req + HeaderSize
    BY <1>1, <1>4, HeapAssumption, NoWrap
  <1> QED
    BY <1>1, <1>2, <1>4, <1>5, HeapAssumption, NoWrap

(* The region handed over by Heap::init satisfies the invariant. *)
LEMMA InitInv == Init => HeapInv
  <1> SUFFICES ASSUME Init PROVE HeapInv
    OBVIOUS
  <1>1. Blocks = {HeapStart} /\ End(HeapStart) = HeapEnd
        /\ blocks[HeapStart] = [size |-> TotalSize - HeaderSize, free |-> TRUE, next |-> Null]
    BY HeapAssumption DEF Init, Blocks, End, HeapEnd
  <1>2. TypeOK
    BY <1>1, HeapAssumption DEF Init, TypeOK, Blocks, Header, Null
  <1>3. Tiled
    BY <1>1, HeapAssumption DEF Tiled, HeapEnd
  <1>4. UsedIffHeld
    BY <1>1 DEF Init, UsedIffHeld
  <1>5. LoopInv
    BY <1>1 DEF Init, LoopInv, Mergeable
  <1> QED
    BY <1>2, <1>3, <1>4, <1>5 DEF HeapInv

-----------------------------------------------------------------------------
(***************************************************************************)
(* Facts about a tiled list that the steps of the loops rest on.           *)
(***************************************************************************)

(* The invariant in the arithmetic form the provers use. *)
LEMMA BlockFacts ==
  ASSUME HeapInv, NEW b \in Blocks
  PROVE  /\ b \in Nat /\ b >= HeapStart /\ b # Null
         /\ blocks[b].size \in Nat
         /\ blocks[b].free \in BOOLEAN
         /\ blocks[b].next \in Nat
         /\ End(b) = b + HeaderSize + blocks[b].size
         /\ End(b) \in Nat /\ End(b) > b /\ End(b) <= HeapEnd
         /\ blocks[b].next # Null => /\ blocks[b].next \in Blocks
                                    /\ blocks[b].next = End(b)
                                    /\ End(b) # HeapEnd
         /\ blocks[b].next = Null => End(b) = HeapEnd
  <1>1. b \in Nat /\ blocks[b] \in Header
    BY DEF HeapInv, TypeOK
  <1>2. HeapStart <= b /\ End(b) <= HeapEnd
    BY DEF HeapInv, Tiled
  <1>3. End(b) \in Nat /\ End(b) > b
    BY <1>1, HeapAssumption DEF End, Header
  <1>4. b # Null /\ End(b) # Null
    BY <1>1, <1>2, <1>3, HeapAssumption DEF Null
  <1>5. blocks[b].next = IF End(b) = HeapEnd THEN Null ELSE End(b)
    BY DEF HeapInv, Tiled
  <1>6. End(b) # HeapEnd => End(b) \in Blocks
    BY DEF HeapInv, Tiled
  <1> QED
    BY <1>1, <1>2, <1>3, <1>4, <1>5, <1>6 DEF End, Header

(* What is behind the next block is the current block or behind it. *)
LEMMA BehindNext ==
  ASSUME HeapInv, NEW c \in Blocks, NEW b \in Blocks,
         blocks[c].next = Null \/ b < blocks[c].next
  PROVE  b = c \/ b < c
  <1> SUFFICES ASSUME ~(b = c), ~(b < c) PROVE FALSE
    OBVIOUS
  <1>1. b \in Nat /\ c \in Nat /\ c < b
    BY BlockFacts
  <1>2. End(c) <= b
    BY <1>1 DEF HeapInv, Tiled
  <1>3. End(b) <= HeapEnd /\ End(b) > b /\ End(b) \in Nat
    BY BlockFacts
  <1>4. blocks[c].next = Null => End(c) = HeapEnd
    BY BlockFacts
  <1>5. blocks[c].next # Null => blocks[c].next = End(c)
    BY BlockFacts
  <1>6. End(c) \in Nat /\ HeapEnd \in Nat
    BY BlockFacts, HeapAssumption DEF HeapEnd
  <1> QED
    BY <1>1, <1>2, <1>3, <1>4, <1>5, <1>6

-----------------------------------------------------------------------------
(* One lemma for every action: the step preserves the invariant. *)

LEMMA AllocCallInv ==
  ASSUME HeapInv, NEW size \in Requests, AllocCall(size)
  PROVE  HeapInv'
  <1> USE DEF AllocCall
  <1>1. TypeOK'
    BY HeapAssumption DEF HeapInv, TypeOK, Tiled, Blocks, Null
  <1>2. Tiled'
    BY DEF HeapInv, Tiled, Blocks, End
  <1>3. UsedIffHeld'
    BY DEF HeapInv, UsedIffHeld, Blocks
  <1>4. LoopInv'
    <2>1. \A b \in Blocks : HeapStart <= b /\ b \in Nat
      BY BlockFacts
    <2>2. cur' = HeapStart /\ HeapStart # Null /\ Blocks' = Blocks
      BY HeapAssumption DEF Null, Blocks
    <2>3. \A b \in Blocks' : ~Behind(b)'
      BY <2>1, <2>2, HeapAssumption DEF Behind
    <2>4. \A b \in Blocks : Mergeable(b)' = Mergeable(b)
      BY DEF Mergeable
    <2> QED
      BY <2>2, <2>3, <2>4 DEF HeapInv, LoopInv
  <1> QED
    BY <1>1, <1>2, <1>3, <1>4 DEF HeapInv

LEMMA AllocSkipInv ==
  ASSUME HeapInv, AllocSkip
  PROVE  HeapInv'
  <1> USE DEF AllocSkip
  <1>1. cur \in Blocks
    BY DEF HeapInv, TypeOK
  <1>2. TypeOK'
    <2>1. cur' \in Nat /\ (cur' # Null => cur' \in Blocks)
      BY <1>1, BlockFacts
    <2> QED
      BY <2>1 DEF HeapInv, TypeOK, Blocks
  <1>3. Tiled'
    BY DEF HeapInv, Tiled, Blocks, End
  <1>4. UsedIffHeld'
    BY DEF HeapInv, UsedIffHeld, Blocks
  <1>5. LoopInv'
    <2>1. \A b \in Blocks : Behind(b)' => b = cur \/ b < cur
      BY <1>1, BehindNext DEF Behind
    <2>2. \A b \in Blocks : Mergeable(b)' = Mergeable(b) /\ Fits(b)' = Fits(b)
      BY DEF Mergeable, Fits
    <2> QED
      BY <2>1, <2>2 DEF HeapInv, LoopInv, Behind, Blocks
  <1> QED
    BY <1>2, <1>3, <1>4, <1>5 DEF HeapInv

LEMMA AllocFailInv ==
  ASSUME HeapInv, AllocFail
  PROVE  HeapInv'
  <1> USE DEF AllocFail, Return
  <1>1. TypeOK'
    BY DEF HeapInv, TypeOK, Blocks, Null
  <1>2. Tiled'
    BY DEF HeapInv, Tiled, Blocks, End
  <1>3. UsedIffHeld'
    BY DEF HeapInv, UsedIffHeld, Blocks
  <1>4. LoopInv'
    BY DEF HeapInv, LoopInv, Mergeable, Blocks
  <1> QED
    BY <1>1, <1>2, <1>3, <1>4 DEF HeapInv

LEMMA AllocSplitInv ==
  ASSUME HeapInv, AllocSplit
  PROVE  HeapInv'
  <1> DEFINE n == cur + HeaderSize + req
             rest == (blocks[cur].size - req) - HeaderSize
  <1>1. cur \in Blocks /\ Fits(cur) /\ blocks[cur].free
    BY DEF HeapInv, TypeOK, AllocSplit, Fits
  <1>2. /\ req \in Nat /\ HeaderSize \in Nat \ {0} /\ MIN_SPLIT \in Nat
        /\ cur \in Nat /\ blocks[cur].size \in Nat
    BY <1>1, BlockFacts, HeapAssumption DEF HeapInv, TypeOK
  <1>3. blocks[cur].size >= req + HeaderSize + MIN_SPLIT
    BY <1>1, SplitTest DEF AllocSplit, Splittable
  <1>4. n \in Nat /\ cur < n /\ n < End(cur) /\ rest \in Nat /\ n # Null /\ n # cur
        /\ n + HeaderSize + rest = End(cur)
    BY <1>2, <1>3 DEF End, Null
  <1>5. n \notin Blocks
    BY <1>1, <1>2, <1>4, BlockFacts DEF HeapInv, Tiled
  <1>6. /\ Blocks' = Blocks \cup {n}
        /\ blocks'[cur] = [size |-> req, free |-> FALSE, next |-> n]
        /\ blocks'[n] = [size |-> rest, free |-> TRUE, next |-> blocks[cur].next]
        /\ \A b \in Blocks \ {cur} : blocks'[b] = blocks[b]
    BY <1>1, <1>4, <1>5 DEF AllocSplit, Blocks
  <1>7. \A b \in Blocks' : End(b)' = IF b = cur THEN n
                                     ELSE IF b = n THEN End(cur) ELSE End(b)
    BY <1>1, <1>2, <1>4, <1>5, <1>6 DEF End
  <1>8. /\ DOMAIN live' = DOMAIN live \cup {cur + HeaderSize}
        /\ live'[cur + HeaderSize] = req
        /\ \A p \in DOMAIN live : p # cur + HeaderSize => live'[p] = live[p]
    BY DEF AllocSplit, Hold
  <1>9. pc' = "idle" /\ cur' = Null /\ req' = 0
    BY DEF AllocSplit, Return
  <1>10. TypeOK'
    <2>1. blocks' \in [Blocks' -> Header]
      <3>1. \A b \in Blocks' : blocks'[b] \in Header
        <4>1. blocks'[cur] \in Header /\ blocks'[n] \in Header
          BY <1>1, <1>2, <1>4, <1>6, BlockFacts DEF Header
        <4>2. \A b \in Blocks \ {cur} : blocks'[b] \in Header
          BY <1>6 DEF HeapInv, TypeOK
        <4> QED
          BY <4>1, <4>2, <1>6
      <3>2. blocks' = [b \in Blocks' |-> blocks'[b]]
        BY DEF AllocSplit, Blocks
      <3> QED
        BY <3>1, <3>2
    <2>2. Blocks' \subseteq Nat
      BY <1>4, <1>6 DEF HeapInv, TypeOK
    <2>3. live' \in [DOMAIN live' -> Nat]
      <3>1. \A p \in DOMAIN live' : live'[p] \in Nat
        BY <1>2, <1>8 DEF HeapInv, TypeOK
      <3>2. live' = [p \in DOMAIN live' |-> live'[p]]
        BY DEF AllocSplit, Hold
      <3> QED
        BY <3>1, <3>2
    <2>4. DOMAIN live' \subseteq Nat
      BY <1>2, <1>8 DEF HeapInv, TypeOK
    <2> QED
      BY <1>9, <2>1, <2>2, <2>3, <2>4 DEF TypeOK, Null
  <1>11. Tiled'
    <2>1. HeapStart \in Blocks'
      BY <1>6 DEF HeapInv, Tiled
    <2>2. \A b \in Blocks' : HeapStart <= b /\ End(b)' <= HeapEnd
      <3>1. HeapStart <= n /\ n <= HeapEnd
        BY <1>1, <1>4, BlockFacts, HeapAssumption DEF HeapEnd
      <3> QED
        BY <3>1, <1>1, <1>6, <1>7 DEF HeapInv, Tiled
    <2>3. \A b \in Blocks' : End(b)' # HeapEnd => End(b)' \in Blocks'
      BY <1>1, <1>6, <1>7 DEF HeapInv, Tiled
    <2>4. \A b \in Blocks' :
            blocks'[b].next = IF End(b)' = HeapEnd THEN Null ELSE End(b)'
      <3>1. n # HeapEnd
        BY <1>1, <1>4, BlockFacts, HeapAssumption DEF HeapEnd
      <3> QED
        BY <3>1, <1>1, <1>6, <1>7 DEF HeapInv, Tiled
    <2>5. \A b, c \in Blocks' : b < c => End(b)' <= c
      <3> SUFFICES ASSUME NEW b \in Blocks', NEW c \in Blocks', b < c
                   PROVE  End(b)' <= c
        OBVIOUS
      <3>1. CASE b \in Blocks /\ c \in Blocks
        <4>1. End(b) <= c
          BY <3>1 DEF HeapInv, Tiled
        <4>2. b \in Nat /\ c \in Nat /\ End(b) \in Nat /\ b # n
          BY <3>1, <1>5, BlockFacts
        <4>3. End(b)' = IF b = cur THEN n ELSE End(b)
          BY <4>2, <1>7
        <4> QED
          BY <4>1, <4>2, <4>3, <1>4
      <3>2. CASE b = n
        <4>1. c \in Blocks /\ c \in Nat
          BY <3>2, <1>4, <1>6, BlockFacts
        <4>2. cur < c
          BY <4>1, <3>2, <1>2, <1>4
        <4> QED
          BY <4>1, <4>2, <3>2, <1>1, <1>7 DEF HeapInv, Tiled
      <3>3. CASE b \in Blocks /\ c = n
        <4>1. b \in Nat /\ End(b) \in Nat /\ (b < cur => End(b) <= cur)
          BY <3>3, <1>1, BlockFacts DEF HeapInv, Tiled
        <4>2. ~(cur < b)
          BY <4>1, <3>3, <1>1, <1>2, <1>4, BlockFacts DEF HeapInv, Tiled
        <4> QED
          BY <4>1, <4>2, <3>3, <1>2, <1>4, <1>7
      <3> QED
        BY <3>1, <3>2, <3>3, <1>6
    <2> QED
      BY <2>1, <2>2, <2>3, <2>4, <2>5 DEF Tiled, HeapEnd
  <1>12. UsedIffHeld'
    <2>1. cur + HeaderSize \notin DOMAIN live /\ n + HeaderSize \notin DOMAIN live'
      <3>1. cur + HeaderSize \notin DOMAIN live
        BY <1>1 DEF HeapInv, UsedIffHeld
      <3>2. (n + HeaderSize) - HeaderSize = n
        BY <1>2, <1>4
      <3>3. n + HeaderSize \notin DOMAIN live
        BY <3>2, <1>5 DEF HeapInv, UsedIffHeld
      <3>4. n + HeaderSize # cur + HeaderSize
        BY <1>2, <1>4
      <3> QED
        BY <3>1, <3>3, <3>4, <1>8
    <2>2. \A b \in Blocks' : ~blocks'[b].free <=> b + HeaderSize \in DOMAIN live'
      <3>1. \A b \in Blocks \ {cur} : b + HeaderSize # cur + HeaderSize
        BY <1>2, BlockFacts
      <3> QED
        BY <2>1, <3>1, <1>1, <1>6, <1>8 DEF HeapInv, UsedIffHeld
    <2>3. \A p \in DOMAIN live' :
            /\ p - HeaderSize \in Blocks'
            /\ live'[p] <= blocks'[p - HeaderSize].size
      <3> SUFFICES ASSUME NEW p \in DOMAIN live'
                   PROVE  /\ p - HeaderSize \in Blocks'
                          /\ live'[p] <= blocks'[p - HeaderSize].size
        OBVIOUS
      <3>1. CASE p = cur + HeaderSize
        <4>1. p - HeaderSize = cur
          BY <3>1, <1>2
        <4> QED
          BY <4>1, <3>1, <1>1, <1>2, <1>6, <1>8
      <3>2. CASE p # cur + HeaderSize
        <4>1. p \in DOMAIN live /\ p \in Nat /\ p - HeaderSize \in Blocks
              /\ live[p] <= blocks[p - HeaderSize].size
          BY <3>2, <1>8 DEF HeapInv, UsedIffHeld, TypeOK
        <4>2. p - HeaderSize # cur
          BY <4>1, <3>2, <1>2
        <4> QED
          BY <4>1, <4>2, <3>2, <1>6, <1>8
      <3> QED
        BY <3>1, <3>2
    <2> QED
      BY <2>2, <2>3 DEF UsedIffHeld
  <1>13. LoopInv'
    <2>1. \A b \in Blocks : ~Mergeable(b)
      BY DEF HeapInv, LoopInv, AllocSplit
    <2>2. \A b \in Blocks \ {cur} : ~(blocks'[b].free /\ blocks'[b].next # Null
                                      /\ blocks'[blocks'[b].next].free)
      BY <2>1, <1>1, <1>6, BlockFacts DEF Mergeable
    <2>3. ~(blocks'[n].free /\ blocks'[n].next # Null /\ blocks'[blocks'[n].next].free)
      <3>1. blocks[cur].next # Null => blocks[cur].next \in Blocks /\ blocks[cur].next # cur
        BY <1>1, <1>2, BlockFacts
      <3> QED
        BY <3>1, <2>1, <1>1, <1>6 DEF Mergeable
    <2>4. ~(blocks'[cur].free)
      BY <1>6
    <2> QED
      BY <2>2, <2>3, <2>4, <1>6, <1>9 DEF LoopInv, Mergeable
  <1> QED
    BY <1>10, <1>11, <1>12, <1>13 DEF HeapInv

LEMMA AllocWholeInv ==
  ASSUME HeapInv, AllocWhole
  PROVE  HeapInv'
  <1>1. cur \in Blocks /\ Fits(cur) /\ blocks[cur].free
    BY DEF HeapInv, TypeOK, AllocWhole, Fits
  <1>2. req \in Nat /\ HeaderSize \in Nat /\ cur \in Nat /\ req <= blocks[cur].size
    BY <1>1, BlockFacts, SplitTest, HeapAssumption DEF HeapInv, TypeOK
  <1>3. /\ Blocks' = Blocks
        /\ blocks' \in [Blocks -> Header]
        /\ \A b \in Blocks : /\ blocks'[b].size = blocks[b].size
                             /\ blocks'[b].next = blocks[b].next
                             /\ blocks'[b].free = (blocks[b].free /\ b # cur)
    BY <1>1 DEF AllocWhole, HeapInv, TypeOK, Header, Blocks
  <1>4. \A b \in Blocks : End(b)' = End(b)
    BY <1>3 DEF End
  <1>5. /\ DOMAIN live' = DOMAIN live \cup {cur + HeaderSize}
        /\ live'[cur + HeaderSize] = req
        /\ \A p \in DOMAIN live : p # cur + HeaderSize => live'[p] = live[p]
        /\ live' = [p \in DOMAIN live' |-> live'[p]]
    BY DEF AllocWhole, Hold
  <1>6. pc' = "idle" /\ cur' = Null /\ req' = 0
    BY DEF AllocWhole, Return
  <1>7. TypeOK'
    <2>1. live' \in [DOMAIN live' -> Nat] /\ DOMAIN live' \subseteq Nat
      BY <1>2, <1>5 DEF HeapInv, TypeOK
    <2> QED
      BY <2>1, <1>3, <1>6 DEF HeapInv, TypeOK, Null
  <1>8. Tiled'
    BY <1>3, <1>4 DEF HeapInv, Tiled, HeapEnd
  <1>9. UsedIffHeld'
    <2>1. \A b \in Blocks : b # cur => b + HeaderSize # cur + HeaderSize
      BY <1>2, BlockFacts
    <2>2. \A b \in Blocks' : ~blocks'[b].free <=> b + HeaderSize \in DOMAIN live'
      BY <2>1, <1>1, <1>3, <1>5 DEF HeapInv, UsedIffHeld
    <2>3. (cur + HeaderSize) - HeaderSize = cur
      BY <1>2
    <2> QED
      BY <2>2, <2>3, <1>1, <1>2, <1>3, <1>5 DEF HeapInv, UsedIffHeld
  <1>10. LoopInv'
    <2>1. \A b \in Blocks : ~Mergeable(b)
      BY DEF HeapInv, LoopInv, AllocWhole
    <2>2. \A b \in Blocks' : ~Mergeable(b)'
      BY <2>1, <1>3, BlockFacts DEF Mergeable
    <2> QED
      BY <2>2, <1>6 DEF LoopInv
  <1> QED
    BY <1>7, <1>8, <1>9, <1>10 DEF HeapInv

LEMMA FreeCallInv ==
  ASSUME HeapInv, NEW ptr \in DOMAIN live, FreeCall(ptr)
  PROVE  HeapInv'
  <1> DEFINE block == ptr - HeaderSize
  <1>1. block \in Blocks /\ ptr \in Nat /\ HeaderSize \in Nat /\ block + HeaderSize = ptr
    BY HeapAssumption DEF HeapInv, TypeOK, UsedIffHeld
  <1>2. /\ Blocks' = Blocks
        /\ blocks' \in [Blocks -> Header]
        /\ \A b \in Blocks : /\ blocks'[b].size = blocks[b].size
                             /\ blocks'[b].next = blocks[b].next
                             /\ blocks'[b].free = (blocks[b].free \/ b = block)
    BY <1>1 DEF FreeCall, HeapInv, TypeOK, Header, Blocks
  <1>3. \A b \in Blocks : End(b)' = End(b)
    BY <1>2 DEF End
  <1>4. /\ DOMAIN live' = DOMAIN live \ {ptr}
        /\ \A p \in DOMAIN live' : live'[p] = live[p]
        /\ live' = [p \in DOMAIN live' |-> live'[p]]
        /\ pc' = "free" /\ cur' = HeapStart /\ req' = req
    BY DEF FreeCall
  <1>5. TypeOK'
    <2>1. live' \in [DOMAIN live' -> Nat] /\ DOMAIN live' \subseteq Nat
      BY <1>4 DEF HeapInv, TypeOK
    <2>2. HeapStart \in Nat /\ HeapStart \in Blocks
      BY HeapAssumption DEF HeapInv, Tiled
    <2> QED
      BY <2>1, <2>2, <1>2, <1>4 DEF HeapInv, TypeOK
  <1>6. Tiled'
    BY <1>2, <1>3 DEF HeapInv, Tiled, HeapEnd
  <1>7. UsedIffHeld'
    <2>1. \A b \in Blocks : b # block => b + HeaderSize # ptr
      BY <1>1, BlockFacts
    <2> QED
      BY <2>1, <1>1, <1>2, <1>4 DEF HeapInv, UsedIffHeld
  <1>8. LoopInv'
    <2>1. \A b \in Blocks' : ~Behind(b)'
      BY <1>2, <1>4, BlockFacts, HeapAssumption DEF Behind, Null
    <2> QED
      BY <2>1, <1>4 DEF LoopInv
  <1> QED
    BY <1>5, <1>6, <1>7, <1>8 DEF HeapInv

LEMMA FreeAdvanceInv ==
  ASSUME HeapInv, FreeAdvance
  PROVE  HeapInv'
  <1> USE DEF FreeAdvance
  <1>1. cur \in Blocks
    BY DEF HeapInv, TypeOK
  <1>2. TypeOK'
    <2>1. cur' \in Nat /\ (cur' # Null => cur' \in Blocks)
      BY <1>1, BlockFacts
    <2> QED
      BY <2>1 DEF HeapInv, TypeOK, Blocks
  <1>3. Tiled'
    BY DEF HeapInv, Tiled, Blocks, End
  <1>4. UsedIffHeld'
    BY DEF HeapInv, UsedIffHeld, Blocks
  <1>5. LoopInv'
    <2>1. \A b \in Blocks : Behind(b)' => b = cur \/ b < cur
      BY <1>1, BehindNext DEF Behind
    <2>2. \A b \in Blocks : Mergeable(b)' = Mergeable(b)
      BY DEF Mergeable
    <2> QED
      BY <2>1, <2>2 DEF HeapInv, LoopInv, Behind, Blocks
  <1> QED
    BY <1>2, <1>3, <1>4, <1>5 DEF HeapInv

LEMMA FreeDoneInv ==
  ASSUME HeapInv, FreeDone
  PROVE  HeapInv'
  <1> USE DEF FreeDone
  <1>1. TypeOK'
    BY DEF HeapInv, TypeOK, Blocks
  <1>2. Tiled'
    BY DEF HeapInv, Tiled, Blocks, End
  <1>3. UsedIffHeld'
    BY DEF HeapInv, UsedIffHeld, Blocks
  <1>4. LoopInv'
    BY DEF HeapInv, LoopInv, Mergeable, Behind, Blocks
  <1> QED
    BY <1>1, <1>2, <1>3, <1>4 DEF HeapInv

LEMMA FreeMergeInv ==
  ASSUME HeapInv, FreeMerge
  PROVE  HeapInv'
  <1> DEFINE a == blocks[cur].next
  <1>1. /\ cur \in Blocks /\ a \in Blocks /\ a = End(cur)
        /\ blocks[cur].free /\ blocks[a].free
        /\ cur \in Nat /\ a \in Nat /\ cur < a
    BY BlockFacts DEF HeapInv, TypeOK, FreeMerge, Mergeable
  <1>2. /\ HeaderSize \in Nat /\ blocks[cur].size \in Nat /\ blocks[a].size \in Nat
        /\ blocks[cur].size + (HeaderSize + blocks[a].size) \in Nat
    BY <1>1, BlockFacts, HeapAssumption
  <1>3. /\ Blocks' = Blocks \ {a}
        /\ blocks'[cur] = [size |-> blocks[cur].size + (HeaderSize + blocks[a].size),
                           free |-> blocks[cur].free,
                           next |-> blocks[a].next]
        /\ \A b \in Blocks \ {a, cur} : blocks'[b] = blocks[b]
        /\ blocks' = [b \in Blocks' |-> blocks'[b]]
        /\ pc' = "free" /\ pc = "free" /\ cur' = cur /\ req' = req /\ live' = live
    BY <1>1 DEF FreeMerge, Blocks
  <1>4. \A b \in Blocks' : End(b)' = IF b = cur THEN End(a) ELSE End(b)
    BY <1>1, <1>2, <1>3 DEF End
  <1>5. \A b \in Blocks : End(b) = a => b = cur
    <2> SUFFICES ASSUME NEW b \in Blocks, End(b) = a, b # cur PROVE FALSE
      OBVIOUS
    <2>1. b \in Nat /\ (b < cur => End(b) <= cur) /\ (cur < b => a <= b) /\ b < End(b)
      BY <1>1, BlockFacts DEF HeapInv, Tiled
    <2> QED
      BY <2>1, <1>1
  <1>6. TypeOK'
    <2>1. \A b \in Blocks' : blocks'[b] \in Header
      <3>1. blocks'[cur] \in Header
        BY <1>1, <1>2, <1>3, BlockFacts DEF Header
      <3>2. \A b \in Blocks \ {a, cur} : blocks'[b] \in Header
        BY <1>3 DEF HeapInv, TypeOK
      <3> QED
        BY <3>1, <3>2, <1>3
    <2>2. blocks' \in [Blocks' -> Header]
      BY <2>1, <1>3
    <2> QED
      BY <2>2, <1>1, <1>3 DEF HeapInv, TypeOK
  <1>7. Tiled'
    <2>1. HeapStart \in Blocks'
      BY <1>1, <1>3, BlockFacts, HeapAssumption DEF HeapInv, Tiled
    <2>2. \A b \in Blocks' : HeapStart <= b /\ End(b)' <= HeapEnd
      BY <1>1, <1>3, <1>4 DEF HeapInv, Tiled
    <2>3. \A b \in Blocks' : End(b)' # HeapEnd => End(b)' \in Blocks'
      <3>1. End(a) # a
        BY <1>1, BlockFacts
      <3> QED
        BY <3>1, <1>1, <1>3, <1>4, <1>5 DEF HeapInv, Tiled
    <2>4. \A b \in Blocks' :
            blocks'[b].next = IF End(b)' = HeapEnd THEN Null ELSE End(b)'
      BY <1>1, <1>3, <1>4 DEF HeapInv, Tiled
    <2>5. \A b, c \in Blocks' : b < c => End(b)' <= c
      <3> SUFFICES ASSUME NEW b \in Blocks', NEW c \in Blocks', b < c
                   PROVE  End(b)' <= c
        OBVIOUS
      <3>1. b \in Blocks /\ c \in Blocks /\ c # a /\ b \in Nat /\ c \in Nat /\ End(b) <= c
        BY <1>3, BlockFacts DEF HeapInv, Tiled
      <3>2. b = cur => a < c
        BY <3>1, <1>1
      <3>3. a < c => End(a) <= c
        BY <3>1, <1>1 DEF HeapInv, Tiled
      <3> QED
        BY <3>1, <3>2, <3>3, <1>4
    <2> QED
      BY <2>1, <2>2, <2>3, <2>4, <2>5 DEF Tiled, HeapEnd
  <1>8. UsedIffHeld'
    <2>1. \A b \in Blocks' : ~blocks'[b].free <=> b + HeaderSize \in DOMAIN live'
      BY <1>1, <1>3 DEF HeapInv, UsedIffHeld
    <2>2. \A p \in DOMAIN live' :
            /\ p - HeaderSize \in Blocks'
            /\ live'[p] <= blocks'[p - HeaderSize].size
      <3> SUFFICES ASSUME NEW p \in DOMAIN live
                   PROVE  /\ p - HeaderSize \in Blocks'
                          /\ live[p] <= blocks'[p - HeaderSize].size
        BY <1>3
      <3>1. /\ p - HeaderSize \in Blocks /\ p \in Nat
            /\ live[p] <= blocks[p - HeaderSize].size
            /\ (p - HeaderSize) + HeaderSize = p
        BY <1>2 DEF HeapInv, UsedIffHeld, TypeOK
      <3>2. p - HeaderSize # a /\ p - HeaderSize # cur
        BY <3>1, <1>1 DEF HeapInv, UsedIffHeld
      <3> QED
        BY <3>1, <3>2, <1>3
    <2> QED
      BY <2>1, <2>2 DEF UsedIffHeld
  <1>9. LoopInv'
    <2> SUFFICES ASSUME NEW b \in Blocks', Behind(b)', Mergeable(b)' PROVE FALSE
      BY <1>3 DEF LoopInv
    <2>1. b \in Blocks /\ b # a /\ b < cur /\ b \in Nat
      BY <1>1, <1>3, BlockFacts DEF Behind
    <2>2. blocks'[b] = blocks[b] /\ blocks[b].free /\ blocks[b].next # Null
      BY <2>1, <1>1, <1>3 DEF Mergeable
    <2>3. blocks[b].next \in Blocks /\ blocks[b].next # a
      BY <2>1, <2>2, <1>1, <1>5, BlockFacts
    <2>4. blocks[blocks[b].next].free
      BY <2>2, <2>3, <1>1, <1>3 DEF Mergeable
    <2>5. ~Mergeable(b)
      BY <2>1, <1>3 DEF HeapInv, LoopInv, Behind
    <2> QED
      BY <2>2, <2>4, <2>5 DEF Mergeable
  <1> QED
    BY <1>6, <1>7, <1>8, <1>9 DEF HeapInv

-----------------------------------------------------------------------------
(* Every step of the heap preserves the invariant. *)
LEMMA NextInv == HeapInv /\ [Next]_vars => HeapInv'
  <1> SUFFICES ASSUME HeapInv, [Next]_vars PROVE HeapInv'
    OBVIOUS
  <1>1. CASE UNCHANGED vars
    BY <1>1 DEF vars, HeapInv, TypeOK, Tiled, UsedIffHeld, LoopInv, Blocks, End,
                Mergeable, Fits, Behind
  <1>2. ASSUME NEW size \in Requests, AllocCall(size) PROVE HeapInv'
    BY <1>2, AllocCallInv
  <1>3. ASSUME NEW ptr \in DOMAIN live, FreeCall(ptr) PROVE HeapInv'
    BY <1>3, FreeCallInv
  <1>4. CASE Step
    BY <1>4, AllocSkipInv, AllocSplitInv, AllocWholeInv, AllocFailInv,
       FreeMergeInv, FreeAdvanceInv, FreeDoneInv DEF Step
  <1> QED
    BY <1>1, <1>2, <1>3, <1>4 DEF Next

(***************************************************************************)
(* The heap is correct for every region, header size, split threshold and  *)
(* sequence of requests: at every iteration of the loops of Heap::alloc    *)
(* and Heap::free the headers tile the region, and a block is in use       *)
(* exactly when its pointer is held.                                       *)
(***************************************************************************)
THEOREM HeapCorrect == Spec => []HeapInv
  <1>1. Init => HeapInv
    BY InitInv
  <1>2. HeapInv /\ [Next]_vars => HeapInv'
    BY NextInv
  <1> QED
    BY <1>1, <1>2, PTL DEF Spec

(***************************************************************************)
(* Headers, pointers and loop variables keep their types: sizes never go   *)
(* below 0 when Heap::alloc splits a block, and the loops stay on headers. *)
(***************************************************************************)
THEOREM HeapTypes == Spec => []TypeOK
  <1>1. HeapInv => TypeOK
    BY DEF HeapInv
  <1> QED
    BY <1>1, HeapCorrect, PTL

(***************************************************************************)
(* A block is in use exactly when Heap::alloc's caller still holds its     *)
(* pointer, and is at least as long as what the caller asked for.          *)
(***************************************************************************)
THEOREM HeapUsedIffHeld == Spec => []UsedIffHeld
  <1>1. HeapInv => UsedIffHeld
    BY DEF HeapInv
  <1> QED
    BY <1>1, HeapCorrect, PTL

(***************************************************************************)
(* The list of headers tiles the region (Tiled), whatever Heap::alloc and  *)
(* Heap::free are asked to do.                                             *)
(***************************************************************************)
THEOREM HeapTiled == Spec => []Tiled
  <1>1. HeapInv => Tiled
    BY DEF HeapInv
  <1> QED
    BY <1>1, HeapCorrect, PTL

(***************************************************************************)
(* The bytes that Heap::alloc promised for one pointer belong to no header *)
(* and to no other pointer.                                                *)
(***************************************************************************)
THEOREM HeapDisjoint == Spec => []HeldAreDisjoint
  <1>1. HeapInv => HeldAreDisjoint
    <2> SUFFICES ASSUME HeapInv PROVE HeldAreDisjoint
      OBVIOUS
    <2>1. ASSUME NEW p \in DOMAIN live
          PROVE  /\ p \in Nat /\ live[p] \in Nat /\ p - HeaderSize \in Blocks
                 /\ p - HeaderSize \in Nat /\ p = (p - HeaderSize) + HeaderSize
                 /\ p + live[p] <= End(p - HeaderSize)
      <3>1. p \in Nat /\ live[p] \in Nat /\ p - HeaderSize \in Blocks
            /\ live[p] <= blocks[p - HeaderSize].size
        BY DEF HeapInv, TypeOK, UsedIffHeld
      <3> QED
        BY <3>1, BlockFacts, HeapAssumption
    <2>2. ASSUME NEW p \in DOMAIN live
          PROVE  Bytes(p) \subseteq HeapStart .. HeapEnd - 1
      <3>1. HeapStart <= p - HeaderSize /\ End(p - HeaderSize) <= HeapEnd
            /\ End(p - HeaderSize) \in Nat
        BY <2>1, BlockFacts
      <3> QED
        BY <2>1, <3>1, HeapAssumption DEF Bytes, HeapEnd
    <2>3. ASSUME NEW p \in DOMAIN live, NEW q \in DOMAIN live, p < q
          PROVE  p + live[p] <= q
      <3>1. End(p - HeaderSize) <= q - HeaderSize /\ End(p - HeaderSize) \in Nat
        BY <2>1, <2>3, BlockFacts, HeapAssumption DEF HeapInv, Tiled
      <3> QED
        BY <2>1, <3>1, HeapAssumption
    <2>4. ASSUME NEW p \in DOMAIN live, NEW q \in DOMAIN live, p # q
          PROVE  Bytes(p) \cap Bytes(q) = {}
      <3>1. p < q \/ q < p
        BY <2>1, <2>4
      <3> QED
        BY <2>1, <2>3, <3>1 DEF Bytes
    <2>5. ASSUME NEW p \in DOMAIN live, NEW b \in Blocks
          PROVE  Bytes(p) \cap (b .. b + HeaderSize - 1) = {}
      <3> DEFINE c == p - HeaderSize
      <3>1. c \in Blocks /\ c \in Nat /\ b \in Nat /\ HeaderSize \in Nat
            /\ End(b) \in Nat /\ End(c) \in Nat /\ End(b) >= b + HeaderSize
        BY <2>1, BlockFacts, HeapAssumption
      <3>2. (b < c => End(b) <= c) /\ (c < b => End(c) <= b)
        BY <3>1 DEF HeapInv, Tiled
      <3> QED
        BY <2>1, <3>1, <3>2 DEF Bytes
    <2> QED
      BY <2>2, <2>4, <2>5 DEF HeldAreDisjoint
  <1> QED
    BY <1>1, HeapCorrect, PTL

(***************************************************************************)
(* Outside Heap::free no two neighbouring blocks are free: its single      *)
(* merge pass finds them all.                                              *)
(***************************************************************************)
THEOREM HeapCoalesced == Spec => []Coalesced
  <1>1. HeapInv => Coalesced
    BY DEF HeapInv, LoopInv, Coalesced
  <1> QED
    BY <1>1, HeapCorrect, PTL

(* Heap::alloc returns nullptr only when no free block is large enough. *)
THEOREM HeapFailsHonestly == Spec => []FailsOnlyWhenNothingFits
  <1>1. HeapInv => FailsOnlyWhenNothingFits
    BY DEF HeapInv, LoopInv, FailsOnlyWhenNothingFits, Behind, Fits
  <1> QED
    BY <1>1, HeapCorrect, PTL

(***************************************************************************)
(* Once every pointer has been given to Heap::free the heap is the single  *)
(* free block that Heap::init made.                                        *)
(***************************************************************************)
THEOREM HeapEmptyIsWhole == Spec => []EmptyHeapIsWhole
  <1>1. HeapInv => EmptyHeapIsWhole
    <2> SUFFICES ASSUME HeapInv, pc = "idle", DOMAIN live = {}
                 PROVE  blocks = [b \in {HeapStart} |->
                           [size |-> TotalSize - HeaderSize, free |-> TRUE, next |-> Null]]
      BY DEF EmptyHeapIsWhole
    <2>1. \A b \in Blocks : blocks[b].free /\ ~Mergeable(b)
      BY BlockFacts DEF HeapInv, UsedIffHeld, LoopInv
    <2>2. HeapStart \in Blocks
      BY DEF HeapInv, Tiled
    <2>3. blocks[HeapStart].next = Null /\ End(HeapStart) = HeapEnd
      BY <2>1, <2>2, BlockFacts DEF Mergeable
    <2>4. Blocks = {HeapStart}
      <3> SUFFICES ASSUME NEW b \in Blocks, b # HeapStart PROVE FALSE
        BY <2>2
      <3>1. b \in Nat /\ HeapStart < b /\ b < End(b) /\ End(b) <= HeapEnd /\ End(b) \in Nat
        BY BlockFacts, HeapAssumption
      <3>2. HeapEnd <= b
        BY <3>1, <2>2, <2>3 DEF HeapInv, Tiled
      <3> QED
        BY <3>1, <3>2, HeapAssumption DEF HeapEnd
    <2>5. blocks[HeapStart].size = TotalSize - HeaderSize
      BY <2>2, <2>3, BlockFacts, HeapAssumption DEF HeapEnd
    <2>6. blocks[HeapStart] = [size |-> TotalSize - HeaderSize, free |-> TRUE, next |-> Null]
      BY <2>1, <2>2, <2>3, <2>5 DEF HeapInv, TypeOK, Header
    <2> QED
      BY <2>4, <2>6 DEF HeapInv, TypeOK
  <1> QED
    BY <1>1, HeapCorrect, PTL

(***************************************************************************)
(* No call of Heap::alloc or Heap::free changes the size of a block that   *)
(* somebody else holds.                                                    *)
(***************************************************************************)
THEOREM HeapStable == Spec => HeldBlocksAreStable
  <1> DEFINE Stable == \A p \in DOMAIN live \cap DOMAIN live' :
                         /\ live'[p] = live[p]
                         /\ p - HeaderSize \in DOMAIN blocks'
                         /\ blocks'[p - HeaderSize].size = blocks[p - HeaderSize].size
  <1>1. HeapInv /\ [Next]_vars => [Stable]_vars
    <2> SUFFICES ASSUME HeapInv, Next, NEW p \in DOMAIN live, p \in DOMAIN live'
                 PROVE  /\ live'[p] = live[p]
                        /\ p - HeaderSize \in DOMAIN blocks'
                        /\ blocks'[p - HeaderSize].size = blocks[p - HeaderSize].size
      OBVIOUS
    <2> DEFINE b == p - HeaderSize
    <2>1. b \in Blocks /\ b + HeaderSize = p /\ ~blocks[b].free /\ HeaderSize \in Nat
      BY HeapAssumption DEF HeapInv, UsedIffHeld, TypeOK
    <2>2. cur # Null => cur \in Blocks /\ cur \in Nat
      BY DEF HeapInv, TypeOK
    <2>3. CASE AllocSplit
      <3>1. b # cur /\ p # cur + HeaderSize
        BY <2>1, <2>2, <2>3 DEF AllocSplit, Fits
      <3>2. b # cur + HeaderSize + req
        <4>1. blocks[cur].size >= req + HeaderSize + MIN_SPLIT /\ req \in Nat
          BY <2>2, <2>3, SplitTest DEF AllocSplit, Splittable, HeapInv, TypeOK
        <4>2. cur \in Blocks /\ cur \in Nat /\ blocks[cur].size \in Nat
              /\ End(cur) = cur + HeaderSize + blocks[cur].size
          BY <2>2, <2>3, BlockFacts DEF AllocSplit
        <4>3. b > cur => b >= End(cur)
          BY <2>1, <4>2, BlockFacts DEF HeapInv, Tiled
        <4> QED
          BY <4>1, <4>2, <4>3, <2>1, HeapAssumption
      <3> QED
        BY <3>1, <3>2, <2>1, <2>3 DEF AllocSplit, Hold, Blocks
    <2>4. CASE AllocWhole
      <3>1. b # cur /\ p # cur + HeaderSize
        BY <2>1, <2>2, <2>4 DEF AllocWhole, Fits
      <3> QED
        BY <3>1, <2>1, <2>4 DEF AllocWhole, Hold, Blocks
    <2>5. CASE FreeMerge
      <3>1. b # cur /\ b # blocks[cur].next
        BY <2>1, <2>5 DEF FreeMerge, Mergeable
      <3> QED
        BY <3>1, <2>1, <2>5 DEF FreeMerge, Blocks
    <2>6. ASSUME NEW ptr \in DOMAIN live, FreeCall(ptr)
          PROVE  /\ live'[p] = live[p]
                 /\ b \in DOMAIN blocks'
                 /\ blocks'[b].size = blocks[b].size
      <3>1. live'[p] = live[p] /\ DOMAIN blocks' = DOMAIN blocks
        BY <2>6 DEF FreeCall
      <3>2. blocks'[b].size = blocks[b].size
        BY <2>1, <2>6 DEF FreeCall, HeapInv, TypeOK, Header, Blocks
      <3> QED
        BY <3>1, <3>2, <2>1 DEF Blocks
    <2>7. ASSUME NEW size \in Requests, AllocCall(size)
          PROVE  blocks' = blocks /\ live' = live
      BY <2>7 DEF AllocCall
    <2>8. CASE AllocSkip \/ AllocFail \/ FreeAdvance \/ FreeDone
      BY <2>1, <2>8 DEF AllocSkip, AllocFail, FreeAdvance, FreeDone, Blocks
    <2> QED
      BY <2>1, <2>3, <2>4, <2>5, <2>6, <2>7, <2>8 DEF Next, Step, Blocks
  <1> QED
    BY <1>1, HeapCorrect, PTL DEF Spec, HeldBlocksAreStable

(***************************************************************************)
(* The heap implements the abstract allocator: every iteration of a loop   *)
(* of Heap::alloc or Heap::free hands out a run of bytes that nobody held, *)
(* takes back a run that was held, or leaves what is held alone.           *)
(***************************************************************************)
THEOREM HeapImplementsRangeAllocator == Spec => ImplementsRangeAllocator
  <1> DEFINE Held == UNION {Bytes(p) : p \in DOMAIN live}
             Region == HeapStart .. HeapEnd - 1
  <1>1. Init => Held = {}
    BY DEF Init
  <1>2. HeapInv /\ HeapInv' /\ HeldAreDisjoint /\ HeldAreDisjoint' /\ [Next]_vars
          => [Abstract!Next]_Held
    <2> SUFFICES ASSUME HeapInv, HeapInv', HeldAreDisjoint, HeldAreDisjoint', [Next]_vars,
                        Held' # Held
                 PROVE  Abstract!Next
      OBVIOUS
    <2>1. ASSUME NEW p \in DOMAIN live PROVE Bytes(p) # {} => Bytes(p) \in Abstract!Runs
      <3>1. p \in Nat /\ live[p] \in Nat /\ Bytes(p) \subseteq Region
        BY DEF HeapInv, TypeOK, HeldAreDisjoint
      <3>2. Bytes(p) # {} => p \in Bytes(p) /\ p + live[p] - 1 \in Bytes(p)
        BY <3>1 DEF Bytes
      <3> QED
        BY <3>1, <3>2 DEF Bytes, Abstract!Runs
    <2>2. ASSUME NEW p \in DOMAIN live' PROVE Bytes(p)' # {} => Bytes(p)' \in Abstract!Runs
      <3>1. p \in Nat /\ live'[p] \in Nat /\ Bytes(p)' \subseteq Region
        BY DEF HeapInv, TypeOK, HeldAreDisjoint, HeapEnd
      <3>2. Bytes(p)' # {} => p \in Bytes(p)' /\ p + live'[p] - 1 \in Bytes(p)'
        BY <3>1 DEF Bytes
      <3> QED
        BY <3>1, <3>2 DEF Bytes, Abstract!Runs
    <2>3. ASSUME NEW q, q \notin DOMAIN live, DOMAIN live' = DOMAIN live \cup {q},
                 \A p \in DOMAIN live : live'[p] = live[p]
          PROVE  Abstract!Next
      <3> DEFINE run == Bytes(q)'
      <3>1. \A p \in DOMAIN live : Bytes(p)' = Bytes(p)
        BY <2>3 DEF Bytes
      <3>2. Held' = Held \cup run
        BY <2>3, <3>1
      <3>3. run # {}
        BY <3>2
      <3>4. run \cap Held = {}
        BY <2>3, <3>1 DEF HeldAreDisjoint
      <3>5. run \in Abstract!Runs
        BY <2>2, <2>3, <3>3
      <3> QED
        BY <3>2, <3>3, <3>4, <3>5 DEF Abstract!Next, Abstract!Take
    <2>4. cur # Null /\ pc = "alloc" /\ Fits(cur) => cur + HeaderSize \notin DOMAIN live
      BY DEF HeapInv, TypeOK, UsedIffHeld, Fits
    <2>5. CASE AllocSplit
      BY <2>3, <2>4, <2>5 DEF AllocSplit, Hold
    <2>6. CASE AllocWhole
      BY <2>3, <2>4, <2>6 DEF AllocWhole, Hold
    <2>7. ASSUME NEW ptr \in DOMAIN live, FreeCall(ptr) PROVE Abstract!Next
      <3> DEFINE run == Bytes(ptr)
      <3>1. DOMAIN live' = DOMAIN live \ {ptr} /\ \A p \in DOMAIN live' : live'[p] = live[p]
        BY <2>7 DEF FreeCall
      <3>2. \A p \in DOMAIN live' : Bytes(p)' = Bytes(p)
        BY <3>1 DEF Bytes
      <3>3. Held' = Held \ run
        BY <3>1, <3>2 DEF HeldAreDisjoint
      <3>4. run # {} /\ run \subseteq Held
        BY <3>3
      <3>5. run \in Abstract!Runs
        BY <2>1, <3>4
      <3> QED
        BY <3>3, <3>4, <3>5 DEF Abstract!Next, Abstract!GiveBack
    <2>8. (\E size \in Requests : AllocCall(size)) \/ AllocSkip \/ AllocFail
            \/ FreeMerge \/ FreeAdvance \/ FreeDone \/ UNCHANGED vars => live' = live
      BY DEF AllocCall, AllocSkip, AllocFail, FreeMerge, FreeAdvance, FreeDone, vars
    <2>9. live' = live => Held' = Held
      BY DEF Bytes
    <2> QED
      BY <2>5, <2>6, <2>7, <2>8, <2>9 DEF Next, Step
  <1> QED
    BY <1>1, <1>2, HeapCorrect, HeapDisjoint, PTL
    DEF Spec, ImplementsRangeAllocator, Abstract!Spec, Abstract!Init
=============================================================================
