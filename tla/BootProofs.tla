----------------------------- MODULE BootProofs -----------------------------
(***************************************************************************)
(* Proofs about Boot, for every geometry of the disk, every number of      *)
(* sectors and attempts, and every memory map that fits.                   *)
(***************************************************************************)
EXTENDS Boot, FiniteSetTheorems, TLAPS

(* Division. *)

(* Whole division: the quotient is the only q with d * q <= n < d * q + d. *)
LEMMA Quotient ==
  ASSUME NEW n \in Nat, NEW d \in Nat \ {0}
  PROVE  /\ n \div d \in Nat
         /\ d * (n \div d) <= n
         /\ n < d * (n \div d) + d
  OBVIOUS

(* A number is its quotient times the divisor, and a remainder below it. *)
LEMMA Remainder ==
  ASSUME NEW n \in Nat, NEW d \in Nat \ {0}
  PROVE  /\ n % d \in Nat
         /\ n % d < d
         /\ n = d * (n \div d) + (n % d)
  OBVIOUS

(* A product grows with its factor. *)
LEMMA Times ==
  ASSUME NEW a \in Nat, NEW b \in Nat, NEW d \in Nat \ {0}, a < b
  PROVE  d * a + d <= d * b
  OBVIOUS

-----------------------------------------------------------------------------

Stage1 == {"stage1", "loop", "read", "halt"}
Loaded == {"e820", "mm_done", "kernel"}

(* Attempts and failures of the sector that is read. *)
RetryInv ==
  /\ retries \in Nat
  /\ failures \in Nat
  /\ pc \in {"read", "halt"} => retries + failures = MAX_RETRIES
  /\ pc = "read" => retries # 0
  /\ pc = "halt" => retries = 0
  /\ pc \in {"stage1", "loop"} \cup Loaded => failures < MAX_RETRIES

(* Where the next sector goes, and what was read so far. *)
Place(n) == LoadSegment + SectorParas * (n - 1)

ReadSoFar ==
  /\ \A n \in 1 .. lba - 1 : Place(n) \in DOMAIN memory /\ memory[Place(n)] = n
  /\ \A p \in DOMAIN memory : p + SectorParas <= StackPara

DiskInv ==
  /\ pc \in Stage1 \cup Loaded
  /\ pc = "stage1" => lba = 0
  /\ pc # "stage1" => /\ lba \in Nat \ {0}
                      /\ remaining \in Nat
                      /\ lba + remaining = SECTORS_TO_READ + 1
                      /\ es = Place(lba)
  /\ pc = "read" => remaining # 0 /\ chs = CHS(lba)
  /\ pc \in Loaded => remaining = 0
  /\ ReadSoFar

-----------------------------------------------------------------------------
(* What BootAssumption says of the numbers. *)
LEMMA Numbers ==
  /\ SECTORS_PER_TRACK \in Nat \ {0} /\ NUM_HEADS \in Nat \ {0}
  /\ SECTORS_TO_READ \in Nat /\ MAX_RETRIES \in Nat \ {0}
  /\ LoadSegment \in Nat /\ SectorParas \in Nat \ {0} /\ StackPara \in Nat
  /\ LoadSegment + SectorParas * SECTORS_TO_READ <= StackPara
  BY BootAssumption

(* The steps of stage 2 leave the disk alone. *)
LEMMA Stage2Step ==
  ASSUME E820Entry \/ E820Empty \/ E820End \/ StoreCount
  PROVE  /\ UNCHANGED diskVars /\ bios' = bios
         /\ pc \in Loaded /\ pc' \in Loaded
  BY DEF E820Entry, E820Empty, E820End, StoreCount, AfterEntry, mapVars, Loaded

(* The place of a sector is where the disk has it. *)
LEMMA SectorAtCHS ==
  ASSUME NEW n \in Nat
  PROVE  SectorAt(CHS(n)) = n
  <1> DEFINE T == SECTORS_PER_TRACK
             H == NUM_HEADS
             t == n \div T
             s == n % T
             c == t \div H
             h == t % H
  <1>1. t \in Nat /\ s \in Nat /\ n = T * t + s
    BY Numbers, Quotient, Remainder
  <1>2. CHS(n) = [cylinder |-> c, head |-> h, sector |-> s + 1]
    BY DEF CHS
  <1> HIDE DEF t, s
  <1>3. c \in Nat /\ h \in Nat /\ t = H * c + h
    BY <1>1, Numbers, Quotient, Remainder
  <1> HIDE DEF c, h
  <1>4. SectorAt(CHS(n)) = (c * H + h) * T + (s + 1) - 1
    BY <1>2 DEF SectorAt
  <1>5. c * H + h = t /\ H \in Nat /\ T \in Nat
    BY <1>3, Numbers
  <1> HIDE DEF H, T
  <1>6. t * T + (s + 1) - 1 = n
    BY <1>1, <1>5
  <1> QED BY <1>4, <1>5, <1>6

(* Sectors lie one behind the other, below the stack. *)
LEMMA Places ==
  ASSUME NEW n \in 1 .. SECTORS_TO_READ
  PROVE  /\ Place(n) \in Nat
         /\ Place(n + 1) = Place(n) + SectorParas
         /\ Place(n) + SectorParas <= StackPara
         /\ \A k \in 1 .. n - 1 : Place(k) # Place(n)
  <1> DEFINE d == SectorParas
             a == n - 1
  <1>1. a \in Nat /\ n \in Nat /\ n = a + 1 /\ n <= SECTORS_TO_READ
    BY Numbers
  <1>2. d * a \in Nat /\ d * n = d * a + d
    BY <1>1, Numbers
  <1>3. d * n <= d * SECTORS_TO_READ
    <2>1. CASE n = SECTORS_TO_READ
      BY <2>1, <1>2, Numbers
    <2>2. CASE n < SECTORS_TO_READ
      <3>1. d * n + d <= d * SECTORS_TO_READ
        BY <2>2, <1>1, Numbers, Times
      <3>2. d * n \in Nat /\ d * SECTORS_TO_READ \in Nat
        BY <1>1, <1>2, Numbers
      <3> QED BY <3>1, <3>2, Numbers
    <2> QED BY <2>1, <2>2, <1>1, Numbers
  <1>4. ASSUME NEW k \in 1 .. n - 1 PROVE Place(k) # Place(n)
    <2> DEFINE b == k - 1
    <2>1. b \in Nat /\ b < a
      BY <1>1
    <2> HIDE DEF a, b
    <2>2. d * b + d <= d * a
      BY <1>1, <2>1, Numbers, Times
    <2>3. d * b \in Nat
      BY <2>1, Numbers
    <2>4. Place(k) = LoadSegment + d * b /\ Place(n) = LoadSegment + d * a
      BY DEF Place, a, b
    <2> HIDE DEF d
    <2> QED BY <1>2, <2>2, <2>3, <2>4, Numbers DEF d
  <1>5. Place(n + 1) = LoadSegment + d * n
    BY <1>1, Numbers DEF Place
  <1>6. Place(n) = LoadSegment + d * a
    BY DEF Place
  <1>7. d * SECTORS_TO_READ \in Nat /\ d * n \in Nat
    BY <1>1, <1>2, Numbers
  <1> HIDE DEF a
  <1> QED BY <1>2, <1>3, <1>4, <1>5, <1>6, <1>7, Numbers

-----------------------------------------------------------------------------
(* Every step keeps the count of the attempts. *)
LEMMA RetryStep == DiskInv /\ RetryInv /\ [Next]_vars => RetryInv'
  <1> SUFFICES ASSUME DiskInv, RetryInv, [Next]_vars PROVE RetryInv'
    OBVIOUS
  <1> USE Numbers DEF RetryInv, Loaded
  <1>1. CASE DiskRead
    BY <1>1 DEF DiskRead
  <1>2. CASE NextSector
    BY <1>2 DEF NextSector
  <1>3. CASE ReadOk
    BY <1>3 DEF ReadOk
  <1>4. CASE ReadFails
    <2>1. /\ pc = "read" /\ retries' = retries - 1 /\ failures' = failures + 1
          /\ pc' = IF retries' = 0 THEN "halt" ELSE "read"
      BY <1>4 DEF ReadFails
    <2> QED BY <2>1
  <1>5. CASE DiskDone
    BY <1>5 DEF DiskDone, diskVars
  <1>6. CASE E820Entry \/ E820Empty \/ E820End \/ StoreCount
    BY <1>6, Stage2Step DEF diskVars
  <1>7. CASE UNCHANGED vars
    BY <1>7 DEF vars, diskVars
  <1> QED BY <1>1, <1>2, <1>3, <1>4, <1>5, <1>6, <1>7 DEF Next

(* Every step keeps what was read in order. *)
LEMMA DiskStep == DiskInv /\ [Next]_vars => DiskInv'
  <1> SUFFICES ASSUME DiskInv, [Next]_vars PROVE DiskInv'
    OBVIOUS
  <1>1. CASE DiskRead
    <2>1. /\ pc = "stage1" /\ pc' = "loop" /\ es' = LoadSegment /\ remaining' = SECTORS_TO_READ
          /\ lba' = 1 /\ memory' = memory
      BY <1>1 DEF DiskRead
    <2>2. Place(1) = LoadSegment
      BY Numbers DEF Place
    <2>3. ReadSoFar'
      BY <2>1 DEF DiskInv, ReadSoFar
    <2> QED BY <2>1, <2>2, <2>3, Numbers DEF DiskInv, Stage1, Loaded, Place
  <1>2. CASE NextSector
    <2>1. /\ pc = "loop" /\ pc' = "read" /\ remaining # 0 /\ chs' = CHS(lba)
          /\ UNCHANGED <<es, lba, remaining, memory>>
      BY <1>2 DEF NextSector
    <2> QED BY <2>1 DEF DiskInv, Stage1, Loaded, ReadSoFar, Place
  <1>3. ASSUME ReadOk \/ ReadFails
        PROVE  /\ lba \in 1 .. SECTORS_TO_READ /\ es = Place(lba) /\ es \in Nat
               /\ lba \in Nat /\ remaining \in Nat /\ remaining # 0
               /\ lba + remaining = SECTORS_TO_READ + 1
               /\ DOMAIN memory' = DOMAIN memory \cup {es}
               /\ \A p \in DOMAIN memory' : p + SectorParas <= StackPara
               /\ \A p \in DOMAIN memory : p # es => memory'[p] = memory[p]
               /\ \A n \in 1 .. lba - 1 : Place(n) \in DOMAIN memory' /\ memory'[Place(n)] = n
    <2>1. /\ lba \in 1 .. SECTORS_TO_READ /\ es = Place(lba) /\ lba \in Nat
          /\ remaining \in Nat /\ remaining # 0 /\ lba + remaining = SECTORS_TO_READ + 1
      BY <1>3, Numbers DEF ReadOk, ReadFails, DiskInv
    <2>2. es \in Nat /\ es + SectorParas <= StackPara /\ \A n \in 1 .. lba - 1 : Place(n) # es
      BY <2>1, Places
    <2>3. PICK v : Store(v)
      BY <1>3 DEF ReadOk, ReadFails
    <2>4. /\ DOMAIN memory' = DOMAIN memory \cup {es}
          /\ \A p \in DOMAIN memory : p # es => memory'[p] = memory[p]
      BY <2>3 DEF Store
    <2>5. \A p \in DOMAIN memory' : p + SectorParas <= StackPara
      BY <2>2, <2>4 DEF DiskInv, ReadSoFar
    <2>6. \A n \in 1 .. lba - 1 : Place(n) \in DOMAIN memory' /\ memory'[Place(n)] = n
      BY <2>2, <2>4 DEF DiskInv, ReadSoFar
    <2> QED BY <2>1, <2>2, <2>4, <2>5, <2>6
  <1>4. CASE ReadOk
    <2>1. /\ pc' = "loop" /\ lba' = lba + 1 /\ remaining' = remaining - 1
          /\ es' = es + SectorParas /\ chs = CHS(lba) /\ Store(SectorAt(chs))
      BY <1>4 DEF ReadOk, DiskInv
    <2>2. memory'[es] = lba
      <3>1. SectorAt(chs) = lba
        BY <1>3, <1>4, <2>1, SectorAtCHS
      <3> QED BY <2>1, <3>1 DEF Store
    <2>3. ASSUME NEW n \in 1 .. lba' - 1 PROVE Place(n) \in DOMAIN memory' /\ memory'[Place(n)] = n
      <3>1. n \in 1 .. lba - 1 \/ n = lba
        BY <1>3, <1>4, <2>1
      <3> QED BY <3>1, <1>3, <1>4, <2>2
    <2>4. Place(lba') = es'
      BY <1>3, <1>4, <2>1, Places
    <2>5. ReadSoFar'
      BY <1>3, <1>4, <2>3 DEF ReadSoFar, Place
    <2>6. lba' \in Nat \ {0} /\ remaining' \in Nat /\ lba' + remaining' = SECTORS_TO_READ + 1
      BY <1>3, <1>4, <2>1, Numbers
    <2> QED BY <2>1, <2>4, <2>5, <2>6 DEF DiskInv, Stage1, Loaded, Place
  <1>5. CASE ReadFails
    <2>1. pc' \in {"halt", "read"} /\ pc = "read" /\ UNCHANGED <<es, lba, remaining, chs>>
      BY <1>5 DEF ReadFails
    <2>2. ReadSoFar'
      BY <1>3, <1>5, <2>1 DEF ReadSoFar, Place
    <2> QED BY <2>1, <2>2 DEF DiskInv, Stage1, Loaded, Place
  <1>6. CASE DiskDone
    BY <1>6 DEF DiskDone, diskVars, DiskInv, Stage1, Loaded, ReadSoFar, Place
  <1>7. CASE E820Entry \/ E820Empty \/ E820End \/ StoreCount
    BY <1>7, Stage2Step DEF diskVars, DiskInv, Loaded, Stage1, ReadSoFar, Place
  <1>8. CASE UNCHANGED vars
    BY <1>8 DEF vars, diskVars, DiskInv, Loaded, Stage1, ReadSoFar, Place
  <1> QED BY <1>1, <1>2, <1>4, <1>5, <1>6, <1>7, <1>8 DEF Next

(* The BIOS starts the loader with nothing read. *)
LEMMA DiskStart == Init => DiskInv /\ RetryInv
  <1> SUFFICES ASSUME Init PROVE DiskInv /\ RetryInv
    OBVIOUS
  <1>1. /\ pc = "stage1" /\ lba = 0 /\ retries = 0 /\ failures = 0 /\ DOMAIN memory = {}
    BY DEF Init
  <1>2. ReadSoFar
    BY <1>1 DEF ReadSoFar
  <1> QED BY <1>1, <1>2, Numbers DEF DiskInv, RetryInv, Stage1, Loaded

(***************************************************************************)
(* For every geometry of the disk and every number of sectors: the image   *)
(* is loaded without gaps, repetitions and leftovers of failed reads, and  *)
(* nothing is read to the stack.                                           *)
(***************************************************************************)
THEOREM BootSectorsInOrder == Spec => []SectorsInOrder
  <1>1. DiskInv => SectorsInOrder
    <2> SUFFICES ASSUME DiskInv PROVE SectorsInOrder
      OBVIOUS
    <2>1. \A n \in 1 .. lba - 1 : LoadSegment + (n - 1) * SectorParas = Place(n)
      BY Numbers DEF Place, DiskInv
    <2>2. pc \in {"e820", "mm_done", "kernel"} => lba = SECTORS_TO_READ + 1
      BY Numbers DEF DiskInv, Loaded
    <2> QED BY <2>1, <2>2 DEF SectorsInOrder, DiskInv, ReadSoFar
  <1> QED BY <1>1, DiskStart, DiskStep, PTL DEF Spec

(***************************************************************************)
(* For every number of attempts: the loader gives up when one sector has   *)
(* failed that often in a row, and only then.                              *)
(***************************************************************************)
THEOREM BootHaltsAfterRetries == Spec => []HaltsAfterRetries
  <1>1. DiskInv /\ RetryInv => HaltsAfterRetries
    BY Numbers DEF DiskInv, RetryInv, HaltsAfterRetries, Stage1, Loaded
  <1> QED BY <1>1, DiskStart, DiskStep, RetryStep, PTL DEF Spec

-----------------------------------------------------------------------------
(***************************************************************************)
(* A BIOS's map fits: its entries fit into e820_map, and there are no more *)
(* of them than the loop asks for.                                         *)
(***************************************************************************)
Entries(m) == Cardinality({k \in 1 .. Len(m.answers) : m.answers[k]})

MapsFit == \A m \in BiosMaps : EntryWords * Entries(m) <= MapWords /\ Entries(m) <= E820_LIMIT

(* The slot of the k-th answer, if it is an entry. *)
Rank(k) == Cardinality(EntriesUpTo(k - 1))

(* The first n answers were dealt with. *)
Collected(n) ==
  /\ bp = Cardinality(EntriesUpTo(n))
  /\ di = EntryWords * bp
  /\ \A k \in EntriesUpTo(n) : \A j \in 0 .. EntryWords - 1 :
       words[EntryWords * Rank(k) + j] = <<"entry", (k - 1) * EntryWords + j>>

MapInv ==
  /\ bios \in BiosMaps
  /\ DOMAIN words = 0 .. MapWords + 5
  /\ pc \in Stage1 => ebx = 0 /\ Collected(0)
  /\ pc = "e820" => ebx \in 0 .. Len(bios.answers) /\ Collected(ebx)
  /\ pc \in {"mm_done", "kernel"} => Collected(Len(bios.answers))
  /\ \A w \in BootInfoWords : words[w] = BootInfo(IF pc = "kernel" THEN bp ELSE 0)[w]

(* What BootAssumption says of the map. *)
LEMMA MapNumbers ==
  /\ MapWords \in Nat /\ EntryWords \in Nat \ {0} /\ E820_LIMIT \in Nat \ {0}
  /\ \A m \in BiosMaps : Len(m.answers) \in Nat
  BY BootAssumption

(* The entries among the first answers are finite in number, and grow. *)
LEMMA EntriesGrow ==
  ASSUME bios \in BiosMaps, NEW n \in 0 .. Len(bios.answers)
  PROVE  LET all == EntriesUpTo(Len(bios.answers))
         IN /\ IsFiniteSet(EntriesUpTo(n)) /\ Cardinality(EntriesUpTo(n)) \in Nat
            /\ Cardinality(all) \in Nat
            /\ Cardinality(EntriesUpTo(n)) <= Cardinality(all)
            /\ Cardinality(EntriesUpTo(n)) = Cardinality(all) => EntriesUpTo(n) = all
            /\ Cardinality(all) = Entries(bios)
  <1> DEFINE N == Len(bios.answers)
             all == EntriesUpTo(N)
             some == EntriesUpTo(n)
  <1>1. N \in Nat /\ n \in Nat /\ n <= N
    BY MapNumbers
  <1>2. IsFiniteSet(1 .. N)
    BY <1>1, FS_Interval
  <1>3. all \in SUBSET (1 .. N) /\ some \in SUBSET all
    BY <1>1 DEF EntriesUpTo
  <1>4. Cardinality(all) = Entries(bios)
    BY DEF Entries, EntriesUpTo
  <1> HIDE DEF all, some, N
  <1>5. IsFiniteSet(all)
    BY <1>2, <1>3, FS_Subset
  <1>6. /\ IsFiniteSet(some) /\ Cardinality(some) <= Cardinality(all)
        /\ Cardinality(all) = Cardinality(some) => all = some
    BY <1>3, <1>5, FS_Subset
  <1>7. Cardinality(all) \in Nat /\ Cardinality(some) \in Nat
    BY <1>5, <1>6, FS_CardinalityType
  <1> QED BY <1>4, <1>6, <1>7 DEF all, some, N

(* The next answer adds itself, if it is an entry. *)
LEMMA NextAnswer ==
  ASSUME bios \in BiosMaps, NEW n \in Nat, n < Len(bios.answers)
  PROVE  /\ n + 1 \in 0 .. Len(bios.answers) /\ n \in 0 .. Len(bios.answers)
         /\ bios.answers[n + 1] =>
              /\ EntriesUpTo(n + 1) = EntriesUpTo(n) \cup {n + 1}
              /\ Cardinality(EntriesUpTo(n + 1)) = Cardinality(EntriesUpTo(n)) + 1
         /\ ~bios.answers[n + 1] => EntriesUpTo(n + 1) = EntriesUpTo(n)
  <1>1. Len(bios.answers) \in Nat
    BY MapNumbers
  <1>2. n + 1 \in 0 .. Len(bios.answers) /\ n \in 0 .. Len(bios.answers)
    BY <1>1
  <1>3. bios.answers[n + 1] => EntriesUpTo(n + 1) = EntriesUpTo(n) \cup {n + 1}
    BY DEF EntriesUpTo
  <1>4. ~bios.answers[n + 1] => EntriesUpTo(n + 1) = EntriesUpTo(n)
    BY DEF EntriesUpTo
  <1>5. n + 1 \notin EntriesUpTo(n) /\ IsFiniteSet(EntriesUpTo(n))
    <2>1. n + 1 \notin EntriesUpTo(n)
      BY DEF EntriesUpTo
    <2>2. IsFiniteSet(EntriesUpTo(n))
      BY <1>2, EntriesGrow
    <2> QED BY <2>1, <2>2
  <1>6. Cardinality(EntriesUpTo(n) \cup {n + 1}) = Cardinality(EntriesUpTo(n)) + 1
    BY <1>5, FS_AddElement
  <1> QED BY <1>2, <1>3, <1>4, <1>6

(* The slots of the entries so far come before the next one. *)
LEMMA RankBelow ==
  ASSUME bios \in BiosMaps, NEW n \in 0 .. Len(bios.answers), NEW k \in EntriesUpTo(n)
  PROVE  Rank(k) \in Nat /\ Rank(k) < Cardinality(EntriesUpTo(n)) /\ k \in Nat
  <1> DEFINE m == k - 1
  <1>1. /\ Len(bios.answers) \in Nat /\ m \in Nat /\ m + 1 = k /\ m < Len(bios.answers)
        /\ k \in 1 .. n /\ bios.answers[k] /\ k \in Nat
    BY MapNumbers DEF EntriesUpTo
  <1> HIDE DEF m
  <1>2. Cardinality(EntriesUpTo(k)) = Cardinality(EntriesUpTo(m)) + 1
        /\ m \in 0 .. Len(bios.answers) /\ k \in 0 .. Len(bios.answers)
    BY <1>1, NextAnswer
  <1>3. Cardinality(EntriesUpTo(m)) \in Nat
    BY <1>2, EntriesGrow
  <1>4. EntriesUpTo(k) \in SUBSET EntriesUpTo(n)
    BY <1>1 DEF EntriesUpTo
  <1>5. IsFiniteSet(EntriesUpTo(n)) /\ Cardinality(EntriesUpTo(n)) \in Nat
    BY EntriesGrow
  <1>6. Cardinality(EntriesUpTo(k)) <= Cardinality(EntriesUpTo(n))
    BY <1>4, <1>5, FS_Subset
  <1>7. Rank(k) = Cardinality(EntriesUpTo(m))
    BY DEF Rank, m
  <1> QED BY <1>1, <1>2, <1>3, <1>5, <1>6, <1>7

(* A word of a slot lies before the next slot. *)
LEMMA SlotBefore ==
  ASSUME NEW a \in Nat, NEW b \in Nat, a < b, NEW j \in 0 .. EntryWords - 1
  PROVE  EntryWords * a + j \in Nat /\ EntryWords * a + j < EntryWords * b
  <1>1. EntryWords * a + EntryWords <= EntryWords * b
    BY MapNumbers, Times
  <1>2. EntryWords * a \in Nat /\ EntryWords * b \in Nat /\ EntryWords \in Nat
    BY MapNumbers
  <1> DEFINE x == EntryWords * a
             y == EntryWords * b
  <1> HIDE DEF x, y
  <1>3. x + j \in Nat /\ x + j < y
    BY <1>1, <1>2 DEF x, y
  <1> QED BY <1>3 DEF x, y

-----------------------------------------------------------------------------
(* The entry is written to its slot, within the map. *)
LEMMA EntryStep ==
  ASSUME MapsFit, MapInv, E820Entry, NEW n \in Nat, n = ebx
  PROVE  /\ Collected(n + 1)'
         /\ DOMAIN words' = 0 .. MapWords + 5
         /\ \A w \in BootInfoWords : words'[w] = words[w]
  <1> DEFINE slot == di .. di + EntryWords - 1
             c == Cardinality(EntriesUpTo(n))
  <1>1. /\ pc = "e820" /\ bios \in BiosMaps /\ n \in 0 .. Len(bios.answers)
        /\ n < Len(bios.answers) /\ bios.answers[n + 1]
        /\ Collected(n) /\ bios' = bios /\ bp' = bp + 1 /\ di' = di + EntryWords
        /\ words' = [w \in DOMAIN words \cup slot |->
                       IF w \in slot THEN <<"entry", n * EntryWords + (w - di)>> ELSE words[w]]
        /\ DOMAIN words = 0 .. MapWords + 5
    BY DEF E820Entry, MapInv
  <1>2. Len(bios.answers) \in Nat
    BY <1>1, MapNumbers
  <1>3. /\ n + 1 \in 0 .. Len(bios.answers)
        /\ EntriesUpTo(n + 1) = EntriesUpTo(n) \cup {n + 1}
        /\ Cardinality(EntriesUpTo(n + 1)) = c + 1
    BY <1>1, <1>2, NextAnswer
  <1>4. c \in Nat
    BY <1>1, EntriesGrow
  <1>5. bp = c /\ di = EntryWords * c
    BY <1>1 DEF Collected
  <1> HIDE DEF c
  <1>6. di \in Nat /\ di + EntryWords <= MapWords
    <2>1. c + 1 <= Entries(bios) /\ Entries(bios) \in Nat
      BY <1>1, <1>3, EntriesGrow
    <2>2. EntryWords * c + EntryWords <= EntryWords * Entries(bios)
      BY <1>4, <2>1, MapNumbers, Times
    <2>3. EntryWords * Entries(bios) <= MapWords
      BY <1>1 DEF MapsFit
    <2>4. EntryWords * c \in Nat /\ EntryWords * Entries(bios) \in Nat
      BY <1>4, <2>1, MapNumbers
    <2> QED BY <1>5, <2>2, <2>3, <2>4, MapNumbers
  <1>7. slot \subseteq 0 .. MapWords - 1 /\ slot \subseteq DOMAIN words
    BY <1>1, <1>6, MapNumbers
  <1>8. DOMAIN words' = 0 .. MapWords + 5
    BY <1>1, <1>7
  <1>9. ASSUME NEW w \in BootInfoWords PROVE words'[w] = words[w]
    <2>1. w \notin slot /\ w \in DOMAIN words
      BY <1>1, <1>7, MapNumbers DEF BootInfoWords
    <2> QED BY <1>1, <2>1
  <1>10. ASSUME NEW k \in EntriesUpTo(n + 1), NEW j \in 0 .. EntryWords - 1
         PROVE  words'[EntryWords * Rank(k) + j] = <<"entry", (k - 1) * EntryWords + j>>
    <2>1. CASE k = n + 1
      <3>1. Rank(k) = c
        BY <2>1, <1>2 DEF Rank, c
      <3>2. di + j \in slot /\ (di + j) - di = j /\ k - 1 = n
        BY <1>2, <1>6, <2>1, MapNumbers
      <3>3. words'[di + j] = <<"entry", n * EntryWords + ((di + j) - di)>>
        BY <1>1, <3>2
      <3> QED BY <1>5, <3>1, <3>2, <3>3
    <2>2. CASE k # n + 1
      <3>1. k \in EntriesUpTo(n)
        BY <1>3, <2>2
      <3>2. Rank(k) \in Nat /\ Rank(k) < c
        BY <1>1, <3>1, RankBelow DEF c
      <3> DEFINE w == EntryWords * Rank(k) + j
      <3>3. w \in Nat /\ w < di
        BY <1>4, <1>5, <3>2, SlotBefore
      <3>4. words[w] = <<"entry", (k - 1) * EntryWords + j>>
        BY <1>1, <3>1 DEF Collected
      <3> HIDE DEF w
      <3>5. w \notin slot /\ w \in DOMAIN words
        BY <1>1, <1>6, <3>3, MapNumbers
      <3>6. words'[w] = words[w]
        BY <1>1, <3>5
      <3> QED BY <3>4, <3>6 DEF w
    <2> QED BY <2>1, <2>2
  <1>11. bp' = c + 1 /\ di' = EntryWords * bp'
    BY <1>1, <1>4, <1>5, MapNumbers
  <1>12. /\ bp' = Cardinality(EntriesUpTo(n + 1)) /\ di' = EntryWords * bp'
         /\ \A k \in EntriesUpTo(n + 1) : \A j \in 0 .. EntryWords - 1 :
              words'[EntryWords * Rank(k) + j] = <<"entry", (k - 1) * EntryWords + j>>
    BY <1>3, <1>10, <1>11
  <1>13. Collected(n + 1)'
    <2>1. EntriesUpTo(n + 1)' = EntriesUpTo(n + 1)
      BY <1>1 DEF EntriesUpTo
    <2>2. ASSUME NEW k PROVE Rank(k)' = Rank(k)
      BY <1>1 DEF Rank, EntriesUpTo
    <2> QED BY <1>12, <2>1, <2>2 DEF Collected
  <1> QED BY <1>8, <1>9, <1>13

(* What was collected stays so while neither the map nor the BIOS changes. *)
LEMMA CollectedKept ==
  ASSUME bios' = bios, bp' = bp, di' = di, words' = words, NEW n, Collected(n)
  PROVE  Collected(n)'
  <1>1. EntriesUpTo(n)' = EntriesUpTo(n)
    BY DEF EntriesUpTo
  <1>2. ASSUME NEW k PROVE Rank(k)' = Rank(k)
    BY DEF Rank, EntriesUpTo
  <1> QED BY <1>1, <1>2 DEF Collected

(* After an answer the loop goes on with the next one, or all are collected. *)
LEMMA AfterAnswer ==
  ASSUME MapsFit, bios \in BiosMaps, bios' = bios, NEW n \in Nat, n = ebx,
         n < Len(bios.answers), Collected(n + 1)',
         ebx' = Continuation, pc' = AfterEntry
  PROVE  \/ pc' = "e820" /\ ebx' = n + 1
         \/ pc' = "mm_done" /\ Collected(Len(bios.answers))'
  <1> DEFINE N == Len(bios.answers)
  <1>1. N \in Nat /\ n + 1 \in 0 .. N
    BY MapNumbers
  <1>2. EntriesUpTo(n + 1)' = EntriesUpTo(n + 1) /\ EntriesUpTo(N)' = EntriesUpTo(N)
    BY DEF EntriesUpTo
  <1>3. bp' = Cardinality(EntriesUpTo(n + 1))
    BY <1>2 DEF Collected
  <1>4. CASE n + 1 = N
    <2>1. Collected(N)'
      BY <1>4
    <2>2. pc' = "mm_done" \/ (pc' = "e820" /\ ebx' # 0)
      BY DEF AfterEntry
    <2> QED BY <2>1, <2>2 DEF Continuation
  <1>5. CASE n + 1 # N
    <2>1. ebx' = n + 1 /\ ebx' # 0
      BY <1>5 DEF Continuation
    <2>2. CASE bp' >= E820_LIMIT
      <3>1. /\ Cardinality(EntriesUpTo(n + 1)) \in Nat /\ Cardinality(EntriesUpTo(N)) \in Nat
            /\ Cardinality(EntriesUpTo(n + 1)) <= Cardinality(EntriesUpTo(N))
            /\ Cardinality(EntriesUpTo(n + 1)) = Cardinality(EntriesUpTo(N))
                 => EntriesUpTo(n + 1) = EntriesUpTo(N)
            /\ Cardinality(EntriesUpTo(N)) = Entries(bios)
        BY <1>1, EntriesGrow
      <3>2. Entries(bios) <= E820_LIMIT
        BY DEF MapsFit
      <3>3. EntriesUpTo(n + 1) = EntriesUpTo(N)
        BY <1>3, <2>2, <3>1, <3>2, MapNumbers
      <3>4. Collected(N)'
        BY <1>2, <3>3 DEF Collected
      <3> QED BY <2>2, <3>4 DEF AfterEntry
    <2>3. CASE ~(bp' >= E820_LIMIT)
      BY <2>1, <2>3 DEF AfterEntry
    <2> QED BY <2>2, <2>3
  <1> QED BY <1>4, <1>5

(* Every step keeps the map and boot_info. *)
LEMMA MapStep ==
  ASSUME MapsFit
  PROVE  DiskInv /\ MapInv /\ [Next]_vars => MapInv'
  <1> SUFFICES ASSUME DiskInv, MapInv, [Next]_vars PROVE MapInv'
    OBVIOUS
  <1> DEFINE N == Len(bios.answers)
             Info == \A w \in BootInfoWords : words[w] = BootInfo(0)[w]
  <1>0. bios \in BiosMaps /\ DOMAIN words = 0 .. MapWords + 5 /\ N \in Nat
    BY MapNumbers DEF MapInv
  <1>1. CASE \/ DiskRead \/ NextSector \/ ReadOk \/ ReadFails
    <2>1. pc \in Stage1 /\ pc' \in Stage1 /\ UNCHANGED mapVars
      BY <1>1 DEF DiskRead, NextSector, ReadOk, ReadFails, Stage1
    <2>2. Collected(0)'
      BY <2>1, CollectedKept DEF MapInv, mapVars
    <2> QED BY <2>1, <2>2 DEF MapInv, mapVars, Stage1
  <1>2. CASE DiskDone
    <2>1. pc = "loop" /\ pc' = "e820" /\ UNCHANGED mapVars
      BY <1>2 DEF DiskDone
    <2>2. Collected(0)'
      BY <2>1, CollectedKept DEF MapInv, mapVars, Stage1
    <2> QED BY <1>0, <2>1, <2>2 DEF MapInv, mapVars, Stage1
  <1>3. CASE E820Entry \/ E820Empty
    <2>1. /\ pc = "e820" /\ ebx < N /\ bios' = bios /\ ebx' = Continuation /\ pc' = AfterEntry
          /\ ebx \in Nat /\ Collected(ebx) /\ Info
      BY <1>0, <1>3 DEF E820Entry, E820Empty, MapInv
    <2>2. PICK n \in Nat : n = ebx
      BY <2>1
    <2>3. /\ Collected(n + 1)' /\ DOMAIN words' = 0 .. MapWords + 5
          /\ \A w \in BootInfoWords : words'[w] = words[w]
      <3>1. CASE E820Entry
        BY <2>2, <3>1, EntryStep
      <3>2. CASE E820Empty
        <4>1. UNCHANGED <<bp, di, words, bios>> /\ ~bios.answers[n + 1]
          BY <3>2, <2>2 DEF E820Empty
        <4>2. EntriesUpTo(n + 1) = EntriesUpTo(n)
          BY <1>0, <2>1, <2>2, <4>1, NextAnswer
        <4>3. Collected(n + 1)
          BY <2>1, <2>2, <4>2 DEF Collected
        <4>4. Collected(n + 1)'
          BY <4>1, <4>3, CollectedKept
        <4> QED BY <1>0, <4>1, <4>4
      <3> QED BY <1>3, <3>1, <3>2
    <2>4. \/ pc' = "e820" /\ ebx' = n + 1
          \/ pc' = "mm_done" /\ Collected(N)'
      BY <1>0, <2>1, <2>2, <2>3, AfterAnswer
    <2>5. CASE pc' = "e820" /\ ebx' = n + 1
      <3>1. Collected(ebx)'
        BY <2>3, <2>5
      <3>2. ebx' \in 0 .. Len(bios'.answers)
        BY <1>0, <2>1, <2>2, <2>5
      <3> QED BY <1>0, <2>1, <2>3, <2>5, <3>1, <3>2 DEF MapInv, Stage1
    <2>6. CASE pc' = "mm_done" /\ Collected(N)'
      BY <1>0, <2>1, <2>3, <2>6 DEF MapInv, Stage1
    <2> QED BY <2>4, <2>5, <2>6
  <1>4. CASE E820End
    <2>1. pc = "e820" /\ pc' = "mm_done" /\ ebx >= N /\ UNCHANGED mapVars
      BY <1>4 DEF E820End
    <2>2. ebx = N /\ Collected(N)
      BY <1>0, <2>1 DEF MapInv
    <2>3. PICK n : n = N
      OBVIOUS
    <2>4. Collected(n)'
      BY <2>1, <2>2, <2>3, CollectedKept DEF mapVars
    <2>5. Collected(N)'
      BY <2>1, <2>3, <2>4 DEF mapVars
    <2> QED BY <2>1, <2>5 DEF MapInv, mapVars, Stage1
  <1>5. CASE StoreCount
    <2>1. /\ pc = "mm_done" /\ pc' = "kernel" /\ UNCHANGED <<bios, bp, di>>
          /\ words' = [words EXCEPT ![EntryCount] = <<"number", bp>>]
          /\ Collected(N) /\ Info
      BY <1>5 DEF StoreCount, MapInv
    <2>2. DOMAIN words' = 0 .. MapWords + 5 /\ EntryCount \in BootInfoWords
          /\ BootInfoWords \subseteq DOMAIN words
      BY <1>0, <2>1, MapNumbers DEF EntryCount, BootInfoWords
    <2>3. \A w \in BootInfoWords : words'[w] = BootInfo(bp')[w]
      <3> SUFFICES ASSUME NEW w \in BootInfoWords PROVE words'[w] = BootInfo(bp)[w]
        BY <2>1
      <3>1. CASE w = EntryCount
        <4>1. words'[w] = <<"number", bp>>
          BY <2>1, <2>2, <3>1
        <4>2. w \notin {MapPointer, MapPointer + 1} /\ w # EntryCount + 1
          BY <3>1, MapNumbers DEF EntryCount, MapPointer
        <4> QED BY <3>1, <4>1, <4>2 DEF BootInfo
      <3>2. CASE w # EntryCount
        <4>1. words'[w] = BootInfo(0)[w]
          BY <2>1, <2>2, <3>2
        <4> QED BY <3>2, <4>1 DEF BootInfo
      <3> QED BY <3>1, <3>2
    <2>4. Collected(N)'
      <3>1. EntriesUpTo(N)' = EntriesUpTo(N)
        BY <2>1 DEF EntriesUpTo
      <3>2. ASSUME NEW k PROVE Rank(k)' = Rank(k)
        BY <2>1 DEF Rank, EntriesUpTo
      <3>3. ASSUME NEW k \in EntriesUpTo(N), NEW j \in 0 .. EntryWords - 1
            PROVE  words'[EntryWords * Rank(k) + j] = words[EntryWords * Rank(k) + j]
        <4> DEFINE w == EntryWords * Rank(k) + j
                   M == Entries(bios)
        <4>1. N \in 0 .. N
          BY <1>0
        <4>2. Rank(k) \in Nat /\ Rank(k) < M /\ M \in Nat
          BY <1>0, <4>1, RankBelow, EntriesGrow
        <4>3. EntryWords * M <= MapWords /\ EntryWords * M \in Nat
          BY <1>0, <4>2, MapNumbers DEF MapsFit
        <4>4. w \in Nat /\ w < EntryWords * M
          BY <4>2, SlotBefore
        <4> HIDE DEF w, M
        <4>5. w # EntryCount /\ w \in DOMAIN words
          BY <1>0, <4>3, <4>4, MapNumbers DEF EntryCount
        <4>6. words'[w] = words[w]
          BY <2>1, <4>5
        <4> QED BY <4>6 DEF w
      <3> QED BY <2>1, <3>1, <3>2, <3>3 DEF Collected
    <2> QED BY <1>0, <2>1, <2>2, <2>3, <2>4 DEF MapInv, Stage1
  <1>6. CASE UNCHANGED vars
    <2>1. UNCHANGED mapVars /\ pc' = pc
      BY <1>6 DEF vars
    <2>2. PICK n, m : n = N /\ m = ebx
      OBVIOUS
    <2>3. /\ Collected(0) => Collected(0)'
          /\ Collected(n) => Collected(n)'
          /\ Collected(m) => Collected(m)'
      BY <2>1, CollectedKept DEF mapVars
    <2> QED BY <2>1, <2>2, <2>3 DEF MapInv, mapVars
  <1> QED BY <1>1, <1>2, <1>3, <1>4, <1>5, <1>6 DEF Next

(* Nothing is collected at first, and boot_info has a count of 0. *)
LEMMA MapStart == Init => MapInv
  <1> SUFFICES ASSUME Init PROVE MapInv
    OBVIOUS
  <1>1. /\ pc = "stage1" /\ bios \in BiosMaps /\ ebx = 0 /\ bp = 0 /\ di = 0
        /\ words = [w \in 0 .. MapWords + 5 |->
                      IF w \in BootInfoWords THEN BootInfo(0)[w] ELSE <<"number", 0>>]
    BY DEF Init
  <1>2. EntriesUpTo(0) = {}
    BY DEF EntriesUpTo
  <1>3. Collected(0)
    <2>1. Cardinality({}) = 0
      BY FS_EmptySet
    <2>2. EntryWords * 0 = 0
      BY MapNumbers
    <2> QED BY <1>1, <1>2, <2>1, <2>2 DEF Collected
  <1>4. BootInfoWords \subseteq 0 .. MapWords + 5
    BY MapNumbers DEF BootInfoWords
  <1> QED BY <1>1, <1>3, <1>4 DEF MapInv, Stage1

(***************************************************************************)
(* boot_info reaches the kernel intact if every map that the BIOS may      *)
(* answer fits into e820_map.  The run MCBootOverflow shows what happens   *)
(* otherwise.                                                              *)
(***************************************************************************)
THEOREM BootInfoReachesKernel ==
  ASSUME MapsFit
  PROVE  Spec => []BootInfoIntact
  <1>1. MapInv => BootInfoIntact
    BY DEF MapInv, BootInfoIntact
  <1>2. DiskInv /\ MapInv /\ [Next]_vars => (DiskInv /\ MapInv)'
    BY DiskStep, MapStep
  <1> QED BY <1>1, <1>2, DiskStart, MapStart, PTL DEF Spec

(***************************************************************************)
(* For every map that fits, the end marked or not and empty entries        *)
(* anywhere: the kernel gets the BIOS's entries in order, none is missing, *)
(* and the count is theirs.                                                *)
(***************************************************************************)
THEOREM BootMapIsWhatBiosSaid ==
  ASSUME MapsFit
  PROVE  Spec => []MapIsWhatBiosSaid
  <1>1. MapInv => MapIsWhatBiosSaid
    <2> SUFFICES ASSUME MapInv, pc = "kernel" PROVE MapIsWhatBiosSaid
      BY DEF MapIsWhatBiosSaid
    <2> DEFINE N == Len(bios.answers)
    <2>1. Collected(N) /\ bios \in BiosMaps /\ N \in Nat
      BY MapNumbers DEF MapInv
    <2>2. ASSUME NEW k \in EntriesUpTo(N), NEW j \in 0 .. EntryWords - 1
          PROVE  words[Cardinality(EntriesUpTo(k - 1)) * EntryWords + j]
                   = <<"entry", (k - 1) * EntryWords + j>>
      <3>1. N \in 0 .. N
        BY <2>1
      <3>2. Rank(k) \in Nat
        BY <2>1, <3>1, RankBelow
      <3>3. Rank(k) * EntryWords = EntryWords * Rank(k)
        BY <3>2, MapNumbers
      <3>4. words[EntryWords * Rank(k) + j] = <<"entry", (k - 1) * EntryWords + j>>
        BY <2>1 DEF Collected
      <3> QED BY <3>3, <3>4 DEF Rank
    <2> QED BY <2>1, <2>2 DEF MapIsWhatBiosSaid, Collected
  <1>2. DiskInv /\ MapInv /\ [Next]_vars => (DiskInv /\ MapInv)'
    BY DiskStep, MapStep
  <1> QED BY <1>1, <1>2, DiskStart, MapStart, PTL DEF Spec
=============================================================================
