-------------------------------- MODULE Boot --------------------------------
(***************************************************************************)
(* The boot loader (src/src/boot): stage 1 loads stage 2 and the kernel    *)
(* from the disk, one sector at a time and with retries (disk_read), and   *)
(* stage 2 asks the BIOS for the memory map (E820) and leaves it, with     *)
(* boot_info, to the kernel.                                               *)
(*                                                                         *)
(* The BIOS is external.  A disk read succeeds, or fails and leaves        *)
(* anything in the destination.  A query of the memory map returns one     *)
(* entry after the other, some of them empty, and marks the last one or    *)
(* fails when there are no more.                                           *)
(*                                                                         *)
(* Memory is kept at two grains: paragraphs of 16 bytes for what is loaded *)
(* (segment registers count them), and 16-bit words for the memory map and *)
(* boot_info, which lies right behind it.                                  *)
(***************************************************************************)
EXTENDS Integers, Sequences, FiniteSets

CONSTANTS
  SECTORS_PER_TRACK,
  NUM_HEADS,
  SECTORS_TO_READ,
  MAX_RETRIES,
  LoadSegment,   \* ES:BX = 0x0000:0x7E00 with the offset folded in
  SectorParas,   \* paragraphs in a sector
  StackPara,     \* PM_STACK, in paragraphs
  MapWords,      \* words reserved at e820_map
  EntryWords,    \* words of an entry
  E820_LIMIT,    \* entries after which the loop stops
  BiosMaps       \* what the BIOS may answer: see answers

(* "Load up to 512 KB after the boot sector (stays below PM stack)". *)
ASSUME BootAssumption ==
  /\ SECTORS_PER_TRACK \in Nat \ {0}
  /\ NUM_HEADS \in Nat \ {0}
  /\ SECTORS_TO_READ \in Nat
  /\ MAX_RETRIES \in Nat \ {0}
  /\ LoadSegment \in Nat
  /\ SectorParas \in Nat \ {0}
  /\ StackPara \in Nat
  /\ LoadSegment + SECTORS_TO_READ * SectorParas <= StackPara
  /\ MapWords \in Nat
  /\ EntryWords \in Nat \ {0}
  /\ E820_LIMIT \in Nat \ {0}
  /\ \A m \in BiosMaps : m.answers \in Seq(BOOLEAN) /\ m.marked \in BOOLEAN

VARIABLES
  pc,         \* where the boot loader is: see the actions
  es,         \* segment that the next sector is read to
  lba,        \* the sector that is read
  remaining,  \* sectors that are missing
  chs,        \* [cylinder, head, sector] of lba
  retries,    \* DI in disk_read: attempts left for this sector
  memory,     \* paragraph |-> the sector that was read to it, or Junk
  failures,   \* reads of this sector that failed, so far
  bios,       \* the BIOS's map: [answers, marked]
  ebx,        \* the BIOS's continuation: answers given so far, 0 at the end
  bp,         \* entries counted
  di,         \* word of memory that the next entry goes to
  words       \* word |-> value: e820_map and, behind it, boot_info

diskVars == <<es, lba, remaining, chs, retries, memory, failures>>
mapVars == <<bios, ebx, bp, di, words>>
vars == <<pc, diskVars, mapVars>>

Junk == 0

(***************************************************************************)
(* boot_info: three double words behind the map.                           *)
(***************************************************************************)
MapPointer == MapWords
EntryCount == MapWords + 2
PageDirectoryPointer == MapWords + 4
BootInfoWords == MapWords .. MapWords + 5

BootInfo(count) ==
  [w \in BootInfoWords |->
     CASE w \in {MapPointer, MapPointer + 1} -> <<"e820_map", w - MapPointer>>
       [] w = EntryCount                     -> <<"number", count>>
       [] w = EntryCount + 1                 -> <<"number", 0>>
       [] OTHER -> <<"page_directory", w - PageDirectoryPointer>>]

Init ==
  /\ pc = "stage1"
  /\ es = 0
  /\ lba = 0
  /\ remaining = 0
  /\ chs = [cylinder |-> 0, head |-> 0, sector |-> 0]
  /\ retries = 0
  /\ memory = [p \in {} |-> Junk]
  /\ failures = 0
  /\ bios \in BiosMaps
  /\ ebx = 0
  /\ bp = 0
  /\ di = 0
  /\ words = [w \in 0 .. MapWords + 5 |->
                IF w \in BootInfoWords THEN BootInfo(0)[w] ELSE <<"number", 0>>]

-----------------------------------------------------------------------------
(* Stage 1: disk_read. *)

DiskRead ==
  /\ pc = "stage1"
  /\ pc' = "loop"
  /\ es' = LoadSegment
  /\ remaining' = SECTORS_TO_READ
  /\ lba' = 1
  /\ UNCHANGED <<chs, retries, memory, failures, mapVars>>

(* Mutant: head and cylinder are swapped. *)
CHSHeadFirst(sector) ==
  LET track == sector \div SECTORS_PER_TRACK
  IN [cylinder |-> track % NUM_HEADS,
      head     |-> track \div NUM_HEADS,
      sector   |-> (sector % SECTORS_PER_TRACK) + 1]

(* The sector's place on the disk: sectors of a track count from 1. *)
CHS(sector) ==
  LET track == sector \div SECTORS_PER_TRACK
  IN [cylinder |-> track \div NUM_HEADS,
      head     |-> track % NUM_HEADS,
      sector   |-> (sector % SECTORS_PER_TRACK) + 1]

(* The sector that the disk has at this place. *)
SectorAt(place) ==
  (place.cylinder * NUM_HEADS + place.head) * SECTORS_PER_TRACK + place.sector - 1

(* Mutant: the attempts are not counted anew for every sector. *)
NextSectorKeepsRetries ==
  /\ pc = "loop"
  /\ remaining # 0
  /\ pc' = "read"
  /\ chs' = CHS(lba)
  /\ retries' = IF lba = 1 THEN MAX_RETRIES ELSE retries
  /\ failures' = 0
  /\ UNCHANGED <<es, lba, remaining, memory, mapVars>>

(* disk_read: the place of the next sector, and its attempts. *)
NextSector ==
  /\ pc = "loop"
  /\ remaining # 0
  /\ pc' = "read"
  /\ chs' = CHS(lba)
  /\ retries' = MAX_RETRIES
  /\ failures' = 0
  /\ UNCHANGED <<es, lba, remaining, memory, mapVars>>

Store(value) == memory' = [p \in DOMAIN memory \cup {es} |->
                             IF p = es THEN value ELSE memory[p]]

(* int 0x13 succeeds: on to the next sector. *)
ReadOk ==
  /\ pc = "read"
  /\ Store(SectorAt(chs))
  /\ pc' = "loop"
  /\ lba' = lba + 1
  /\ remaining' = remaining - 1
  /\ es' = es + SectorParas
  /\ UNCHANGED <<chs, retries, failures, mapVars>>

(* Mutant: the retry jumps to the head of the loop, where attempts start anew. *)
ReadFailsToLoop ==
  /\ pc = "read"
  /\ Store(Junk)
  /\ retries' = retries - 1
  /\ pc' = IF retries' = 0 THEN "halt" ELSE "loop"
  /\ failures' = failures + 1
  /\ UNCHANGED <<es, lba, remaining, chs, mapVars>>

(* int 0x13 fails: reset the disk and retry, or give up and halt. *)
ReadFails ==
  /\ pc = "read"
  /\ Store(Junk)
  /\ retries' = retries - 1
  /\ pc' = IF retries' = 0 THEN "halt" ELSE "read"
  /\ failures' = failures + 1
  /\ UNCHANGED <<es, lba, remaining, chs, mapVars>>

(* Everything is read: jump to stage 2. *)
DiskDone ==
  /\ pc = "loop"
  /\ remaining = 0
  /\ pc' = "e820"
  /\ UNCHANGED <<diskVars, mapVars>>

-----------------------------------------------------------------------------
(* Stage 2: the memory map. *)

(* The continuation that the BIOS returns with its next answer. *)
Continuation ==
  IF bios.marked /\ ebx + 1 = Len(bios.answers) THEN 0 ELSE ebx + 1

(* test ebx, ebx; cmp bp, 64 *)
AfterEntry == IF ebx' = 0 \/ bp' >= E820_LIMIT THEN "mm_done" ELSE "e820"

(* The BIOS wrote an entry, which is counted. *)
E820Entry ==
  /\ pc = "e820"
  /\ ebx < Len(bios.answers)
  /\ bios.answers[ebx + 1]
  /\ words' = [w \in DOMAIN words \cup di .. di + EntryWords - 1 |->
                 IF w \in di .. di + EntryWords - 1
                 THEN <<"entry", ebx * EntryWords + (w - di)>> ELSE words[w]]
  /\ bp' = bp + 1
  /\ di' = di + EntryWords
  /\ ebx' = Continuation
  /\ pc' = AfterEntry
  /\ UNCHANGED <<diskVars, bios>>

(* Mutant: empty entries are counted. *)
E820EmptyCounted ==
  /\ pc = "e820"
  /\ ebx < Len(bios.answers)
  /\ ~bios.answers[ebx + 1]
  /\ bp' = bp + 1
  /\ ebx' = Continuation
  /\ UNCHANGED <<di, words, diskVars, bios>>
  /\ pc' = AfterEntry

(* ECX came back as 0: the entry is empty and is skipped. *)
E820Empty ==
  /\ pc = "e820"
  /\ ebx < Len(bios.answers)
  /\ ~bios.answers[ebx + 1]
  /\ ebx' = Continuation
  /\ UNCHANGED <<bp, di, words, diskVars, bios>>
  /\ pc' = AfterEntry

(* Carry, or no signature: there is nothing more. *)
E820End ==
  /\ pc = "e820"
  /\ ebx >= Len(bios.answers)
  /\ pc' = "mm_done"
  /\ UNCHANGED <<diskVars, mapVars>>

(* Mutant: the count is stored as the whole number of words. *)
StoreCountInWords ==
  /\ pc = "mm_done"
  /\ words' = [words EXCEPT ![EntryCount] = <<"number", di>>]
  /\ pc' = "kernel"
  /\ UNCHANGED <<diskVars, bios, ebx, bp, di>>

(* The count is stored, in the low word of its double word. *)
StoreCount ==
  /\ pc = "mm_done"
  /\ words' = [words EXCEPT ![EntryCount] = <<"number", bp>>]
  /\ pc' = "kernel"
  /\ UNCHANGED <<diskVars, bios, ebx, bp, di>>

Next ==
  \/ DiskRead
  \/ NextSector
  \/ ReadOk
  \/ ReadFails
  \/ DiskDone
  \/ E820Entry
  \/ E820Empty
  \/ E820End
  \/ StoreCount

Spec == Init /\ [][Next]_vars

(* The loader runs alone, with interrupts served by the BIOS. *)
FairSpec == Spec /\ WF_vars(Next)

-----------------------------------------------------------------------------
(***************************************************************************)
(* The image is loaded without gaps, repetitions or leftovers of failed    *)
(* reads: the n-th sector after the boot sector lies n - 1 sectors after   *)
(* the load address, across tracks and cylinders and whatever was retried, *)
(* and nothing is ever read to the stack or beyond it.                     *)
(***************************************************************************)
SectorsInOrder ==
  /\ \A n \in 1 .. lba - 1 :
       LET p == LoadSegment + (n - 1) * SectorParas
       IN p \in DOMAIN memory /\ memory[p] = n
  /\ \A p \in DOMAIN memory : p + SectorParas <= StackPara
  /\ pc \in {"e820", "mm_done", "kernel"} => lba = SECTORS_TO_READ + 1

(***************************************************************************)
(* The loader gives up exactly when one sector has failed MAX_RETRIES      *)
(* times in a row; failures of other sectors do not count.                 *)
(***************************************************************************)
HaltsAfterRetries ==
  /\ failures <= MAX_RETRIES
  /\ pc = "halt" <=> failures = MAX_RETRIES

(* The places of the BIOS's answers that are entries, up to the n-th. *)
EntriesUpTo(n) == {k \in 1 .. n : bios.answers[k]}

(***************************************************************************)
(* The kernel gets the BIOS's map: when the loop ends the slots counted    *)
(* hold the BIOS's entries in order, none is missing and no empty one is   *)
(* among them.                                                             *)
(***************************************************************************)
MapIsWhatBiosSaid ==
  pc = "kernel" =>
    LET entries == EntriesUpTo(Len(bios.answers))
        Rank(k) == Cardinality(EntriesUpTo(k - 1))
    IN
    /\ \A k \in entries : \A j \in 0 .. EntryWords - 1 :
         words[Rank(k) * EntryWords + j] = <<"entry", (k - 1) * EntryWords + j>>
    /\ bp = Cardinality(entries)

(***************************************************************************)
(* boot_info, which lies right behind the map, reaches the kernel with its *)
(* pointers and the right count ("prevent overflow", stage2.asm:108).      *)
(***************************************************************************)
BootInfoIntact ==
  pc = "kernel" => \A w \in BootInfoWords : words[w] = BootInfo(bp)[w]

(* The loader ends: the kernel runs or the processor halts. *)
BootEnds == <>(pc \in {"halt", "kernel"})
=============================================================================
