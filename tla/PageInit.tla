------------------------------ MODULE PageInit ------------------------------
(***************************************************************************)
(* From the BIOS memory map to the page list: read_e820 of boot/boot.asm,  *)
(* init_memory_map and init_page of kernel/memory.c.                       *)
(*                                                                         *)
(* These run once, one after the other, before anything else does.  What   *)
(* matters is which maps they cope with, so the map is the initial state   *)
(* and each function is a step.  Addresses are physical.                   *)
(***************************************************************************)
EXTENDS Integers, Sequences, FiniteSetsExt, SequencesExt

CONSTANTS
  PageSize,          \* PAGE_2M_SIZE
  DescSize,          \* sizeof(struct Page)
  E820_MAX_ENTRIES,
  MappedEnd,         \* where the memory mapped by the tables of boot.asm ends
  BiosMaps           \* maps the BIOS may report: sequences of regions

Region == [address : Nat, length : Nat, type : Nat]

ASSUME PageInitAssumption ==
  /\ PageSize \in Nat \ {0} /\ E820_MAX_ENTRIES \in Nat \ {0}
  /\ DescSize \in Nat
  /\ \A map \in BiosMaps : map \in Seq(Region)

VARIABLES
  stage,             \* the last of the functions that ran
  e820_buf,          \* the buffer at E820_BUF
  e820,              \* memory_management_struct.e820, up to e820_length
  pages_struct,      \* address of the struct Page array, or NoArray
  free_pages_list,   \* phy_addr of the pages chained, from the head
  kernel_heap_start, kernel_heap_end

vars == <<stage, e820_buf, e820, pages_struct, free_pages_list, kernel_heap_start, kernel_heap_end>>

RAM == 1
NoRegion == [address |-> 0, length |-> 0, type |-> 0]
NoArray == -1

AlignUp(a) == ((a + PageSize - 1) \div PageSize) * PageSize
AlignDown(a) == (a \div PageSize) * PageSize
RegionEnd(r) == r.address + r.length

\* read_e820 stores the regions one after another, without a bound: the call it makes
\* overwrites the register that counts them.  Before each call it puts a 1 behind the
\* entry to come, and the last 1 stays; the rest of memory there is zero.  Here is what
\* init_memory_map can look at: one entry more than it keeps.
ReadE820(map) ==
  [i \in 1..(E820_MAX_ENTRIES + 1) |->
     IF i <= Len(map) THEN map[i]
     ELSE IF i = Max({1, Len(map)}) + 1 THEN [NoRegion EXCEPT !.address = 1]
     ELSE NoRegion]

Init ==
  /\ stage = "bios"
  /\ \E map \in BiosMaps : e820_buf = ReadE820(map)
  /\ e820 = <<>>
  /\ pages_struct = NoArray
  /\ free_pages_list = <<>>
  /\ kernel_heap_start = 0
  /\ kernel_heap_end = 0

\* The copy takes the first entry as it is and ends before the first later one that
\* is empty or of a type it does not know.
Ends(r) == r.type > 4 \/ r.length = 0
KeptLength(buf) == Min({i \in 1..E820_MAX_ENTRIES : i = E820_MAX_ENTRIES \/ Ends(buf[i + 1])})

InitMemoryMap ==
  /\ stage = "bios"
  /\ stage' = "map"
  /\ e820' = SubSeq(e820_buf, 1, KeptLength(e820_buf))
  /\ UNCHANGED <<e820_buf, pages_struct, free_pages_list, kernel_heap_start, kernel_heap_end>>

\* The whole pages of a region, and of the map: the pages init_page counts and chains.
PageCount(r) ==
  LET first == AlignUp(r.address)  last == AlignDown(RegionEnd(r)) IN
  IF r.type # RAM \/ last <= first THEN 0 ELSE (last - first) \div PageSize
PagesBefore(r) == [k \in 1..PageCount(r) |-> AlignUp(r.address) + (k - 2) * PageSize]    \* faulty
PagesFromBelow(r) == [k \in 1..PageCount(r) |-> AlignDown(r.address) + (k - 1) * PageSize]   \* faulty
PagesOf(r) == [k \in 1..PageCount(r) |-> AlignUp(r.address) + (k - 1) * PageSize]
ChainedAtHead(map) == Reverse(FlattenSeq([i \in 1..Len(map) |-> PagesOf(map[i])]))   \* faulty
Chained(map) == FlattenSeq([i \in 1..Len(map) |-> PagesOf(map[i])])

\* The struct Page array goes to the start of the first RAM region it fits in.
RamEntries(map) == {i \in 1..Len(map) : map[i].type = RAM}
ArraySize(map) == Len(Chained(map)) * DescSize
Holders(map) == {i \in RamEntries(map) : map[i].length >= ArraySize(map)}
ArrayInLast(map) == map[Max(Holders(map))].address     \* faulty: the last region it fits in
ArrayAddress(map) == map[Min(Holders(map))].address

HeapEndOfFirst(map) == RegionEnd(map[Min(RamEntries(map))])   \* faulty: later regions are ignored
HeapEnd(map) == Max({RegionEnd(map[i]) : i \in RamEntries(map)})

\* Without room for the array nothing changes; without a page the heap's bounds do
\* not.  The later error returns (too little memory) come after every assignment.
InitPage ==
  /\ stage = "map"
  /\ stage' = "pages"
  /\ IF Holders(e820) = {}
       THEN UNCHANGED <<pages_struct, free_pages_list, kernel_heap_start, kernel_heap_end>>
       ELSE
         /\ pages_struct' = ArrayAddress(e820)
         /\ free_pages_list' = Chained(e820)
         /\ IF free_pages_list' = <<>>
              THEN UNCHANGED <<kernel_heap_start, kernel_heap_end>>
              ELSE /\ kernel_heap_start' = AlignUp(Head(free_pages_list'))
                   /\ kernel_heap_end' = HeapEnd(e820)
  /\ UNCHANGED <<e820_buf, e820>>

Next == InitMemoryMap \/ InitPage
Spec == Init /\ [][Next]_vars

-----------------------------------------------------------------------------
(* Properties. *)

InitTypeOK ==
  /\ stage \in {"bios", "map", "pages"}
  /\ e820 \in Seq(Region) /\ Len(e820) <= E820_MAX_ENTRIES
  /\ pages_struct \in Nat \cup {NoArray}
  /\ free_pages_list \in Seq(Nat)
  /\ kernel_heap_start \in Nat /\ kernel_heap_end \in Nat

Up == stage = "pages" /\ pages_struct # NoArray
Listed == {free_pages_list[i] : i \in 1..Len(free_pages_list)}

\* The regions in ascending order without overlap, as BIOSes usually list them.
Sorted(map) == \A i, j \in 1..Len(map) : i < j => RegionEnd(map[i]) <= map[j].address

\* The regions the BIOS reported, as many as the kernel has room for.
Reported == {e820_buf[i] : i \in 1..E820_MAX_ENTRIES}

PageAt(p) == [address |-> p, length |-> PageSize, type |-> RAM]
Overlap(r, s) ==
  r.length > 0 /\ s.length > 0 /\ r.address < RegionEnd(s) /\ s.address < RegionEnd(r)
Apart == \A i, j \in 1..E820_MAX_ENTRIES : i # j => ~Overlap(e820_buf[i], e820_buf[j])

Whole(p, r) ==
  r.type = RAM /\ p % PageSize = 0 /\ r.address <= p /\ p + PageSize <= RegionEnd(r)

\* Against what the BIOS reported, not the copy of it.  Every page chained is aligned and
\* lies wholly in one RAM region.  If no two regions overlap, in whatever order they
\* come, no page reaches into a region of another type and none is chained twice; where
\* they overlap both can happen, since init_page takes each region by itself.  And no
\* whole page of RAM is missing but behind an entry, not the first, that is empty or of
\* an unknown type, where the copy ends.
PagesAreRam ==
  Up =>
    /\ \A p \in Listed : \E r \in Reported : Whole(p, r)
    /\ Apart => /\ \A p \in Listed, r \in Reported : r.type # RAM => ~Overlap(PageAt(p), r)
                /\ \A k, l \in 1..Len(free_pages_list) : free_pages_list[k] = free_pages_list[l] => k = l
    /\ \A i \in 1..E820_MAX_ENTRIES : \A p \in 0..RegionEnd(e820_buf[i]) :
         Whole(p, e820_buf[i]) => p \in Listed \/ \E j \in 2..i : Ends(e820_buf[j])

\* Over a sorted map the list is what the heap assumes of its pool: ascending, no
\* page twice or overlapping another.
PoolAscending ==
  Up /\ Sorted(e820) =>
    \A i, j \in 1..Len(free_pages_list) :
      i < j => free_pages_list[i] + PageSize <= free_pages_list[j]

\* Over a sorted map free accepts every pointer malloc returns: the heap's bounds,
\* computed apart from the pages, take in each of them.
HeapCoversPages ==
  Up /\ Sorted(e820) =>
    \A p \in Listed : kernel_heap_start <= p /\ p + PageSize <= kernel_heap_end

\* On a PC, whose first RAM region ends below the first page and has room for the
\* array, writing the array leaves every page alone.
LowMemory(map) ==
  map[1].type = RAM /\ RegionEnd(map[1]) < PageSize /\ map[1].length >= ArraySize(map)
ArrayApart ==
  Up /\ Sorted(e820) /\ LowMemory(e820) =>
    \A p \in Listed : pages_struct + ArraySize(e820) <= p \/ p + PageSize <= pages_struct

\* init_memory_map announces as many "OS Can Used Total 2M PAGEs" as init_page
\* chains, and alloc_page clears each through its mapping: all must be mapped.
PagesMapped == \A p \in Listed : p + PageSize <= MappedEnd
=============================================================================
