--------------------------- MODULE LibraryProofs ---------------------------
(***************************************************************************)
(* The parts of Library, each on its own and together: the page list for   *)
(* every pool of distinct pages, the files and the two caches for every    *)
(* size of their tables.                                                   *)
(***************************************************************************)
EXTENDS Library, FiniteSetTheorems, TLAPS

-----------------------------------------------------------------------------
(* The page list. *)

PagesInv == PageTypeOK /\ ListedOnce

LEMMA PagesInitInv == PoolDistinct /\ PagesInit => PagesInv
  BY PoolAssumption, RefModulusAssumption
  DEF PoolDistinct, PagesInit, PagesInv, PageTypeOK, ListedOnce, PageAddrs, Listed

LEMMA AllocPageInv ==
  ASSUME PagesInv, NEW p \in PageAddrs, AllocPage(p)
  PROVE  PagesInv'
<1> PICK list : list = free_pages_list
  OBVIOUS
<1>1. /\ list \in Seq(PageAddrs) /\ list # <<>> /\ p = list[1]
      /\ free_pages_list' = Tail(list) /\ Len(list) \in Nat /\ Len(list) >= 1
      /\ ref_count' = [ref_count EXCEPT ![p] = 1]
      /\ total_free_pages' = Len(list) - 1
  BY DEF AllocPage, NoPages, PagesInv, PageTypeOK
<1>2. /\ free_pages_list' \in Seq(PageAddrs) /\ Len(free_pages_list') = Len(list) - 1
      /\ \A i \in 1..(Len(list) - 1) : free_pages_list'[i] = list[i + 1]
  BY <1>1
<1>3. /\ \A i, j \in 1..Len(list) : list[i] = list[j] => i = j
      /\ \A q \in PageAddrs : ref_count[q] = 0 <=> \E i \in 1..Len(list) : list[i] = q
  BY DEF PagesInv, ListedOnce, Listed
<1>4. PageTypeOK'
  BY <1>1, <1>2, RefModulusAssumption DEF PagesInv, PageTypeOK, PageAddrs
<1>5. \A i, j \in 1..Len(free_pages_list') : free_pages_list'[i] = free_pages_list'[j] => i = j
  BY <1>1, <1>2, <1>3
<1>6. ASSUME NEW q \in PageAddrs
      PROVE  ref_count'[q] = 0 <=> \E i \in 1..(Len(list) - 1) : list[i + 1] = q
  <2>1. CASE q = p
    <3>1. ref_count'[q] = 1
      BY <1>1, <2>1 DEF PagesInv, PageTypeOK
    <3>2. ~\E i \in 1..(Len(list) - 1) : list[i + 1] = q
      BY <1>1, <1>3, <2>1
    <3> QED
      BY <3>1, <3>2
  <2>2. CASE q # p
    <3>1. ref_count'[q] = ref_count[q]
      BY <1>1, <2>2 DEF PagesInv, PageTypeOK
    <3>2. (\E i \in 1..Len(list) : list[i] = q) <=> \E i \in 1..(Len(list) - 1) : list[i + 1] = q
      <4>1. ASSUME NEW i \in 1..Len(list), list[i] = q
            PROVE  i - 1 \in 1..(Len(list) - 1) /\ list[(i - 1) + 1] = q
        BY <1>1, <2>2, <4>1
      <4>2. ASSUME NEW i \in 1..(Len(list) - 1), list[i + 1] = q
            PROVE  i + 1 \in 1..Len(list)
        BY <1>1
      <4> QED
        BY <4>1, <4>2
    <3> QED
      BY <1>3, <3>1, <3>2
  <2> QED
    BY <2>1, <2>2
<1>7. \A q \in PageAddrs : ref_count'[q] = 0 <=> q \in Listed(free_pages_list')
  BY <1>2, <1>6 DEF Listed
<1> QED
  BY <1>4, <1>5, <1>7 DEF PagesInv, ListedOnce, Listed, PageAddrs

LEMMA FreePageInv ==
  ASSUME PagesInv, NEW p \in PageAddrs, ref_count[p] > 0, FreePage(p)
  PROVE  PagesInv'
<1> PICK list : list = free_pages_list
  OBVIOUS
<1>1. /\ list \in Seq(PageAddrs) /\ Len(list) \in Nat /\ total_free_pages = Len(list)
      /\ ref_count \in [PageAddrs -> 0..(RefModulus - 1)]
      /\ ref_count' = [ref_count EXCEPT ![p] = Dropped(ref_count[p])]
  BY DEF FreePage, PagesInv, PageTypeOK
<1>2. /\ \A i, j \in 1..Len(list) : list[i] = list[j] => i = j
      /\ \A q \in PageAddrs : ref_count[q] = 0 <=> \E i \in 1..Len(list) : list[i] = q
  BY DEF PagesInv, ListedOnce, Listed
<1>3. Dropped(ref_count[p]) = ref_count[p] - 1 /\ ref_count[p] - 1 \in 0..(RefModulus - 1)
  <2>1. ref_count[p] \in 1..(RefModulus - 1) /\ RefModulus \in Nat
    BY <1>1, RefModulusAssumption
  <2>2. \A c, m \in Nat : c >= 1 /\ c < m => (c + m - 1) % m = c - 1
    BY SMT
  <2> QED
    BY <2>1, <2>2 DEF Dropped
<1>4. /\ ref_count' \in [PageAddrs -> 0..(RefModulus - 1)]
      /\ ref_count'[p] = ref_count[p] - 1
      /\ \A q \in PageAddrs : q # p => ref_count'[q] = ref_count[q]
  BY <1>1, <1>3
<1>5. CASE ref_count'[p] = 0
  <2>1. free_pages_list' = <<p>> \o list /\ total_free_pages' = Len(list) + 1
    BY <1>1, <1>5 DEF FreePage
  <2>2. /\ free_pages_list' \in Seq(PageAddrs) /\ Len(free_pages_list') = Len(list) + 1
        /\ free_pages_list'[1] = p
        /\ \A i \in 2..(Len(list) + 1) : free_pages_list'[i] = list[i - 1]
    BY <1>1, <2>1
  <2>3. \A i \in 1..Len(list) : list[i] # p
    BY <1>2
  <2>4. \A i, j \in 1..Len(free_pages_list') : free_pages_list'[i] = free_pages_list'[j] => i = j
    <3> SUFFICES ASSUME NEW i \in 1..(Len(list) + 1), NEW j \in 1..(Len(list) + 1),
                        free_pages_list'[i] = free_pages_list'[j]
                 PROVE  i = j
      BY <2>2
    <3>1. CASE i = 1 \/ j = 1
      BY <1>1, <2>2, <2>3, <3>1
    <3>2. CASE i # 1 /\ j # 1
      <4>1. i - 1 \in 1..Len(list) /\ j - 1 \in 1..Len(list) /\ list[i - 1] = list[j - 1]
        BY <1>1, <2>2, <3>2
      <4>2. i - 1 = j - 1
        BY <1>2, <4>1
      <4> QED
        BY <1>1, <4>2
    <3> QED
      BY <3>1, <3>2
  <2>5. ASSUME NEW q \in PageAddrs
        PROVE  ref_count'[q] = 0 <=> q \in Listed(free_pages_list')
    <3>1. CASE q = p
      BY <1>1, <1>5, <2>2, <3>1 DEF Listed
    <3>2. CASE q # p
      <4>1. ASSUME NEW i \in 1..Len(list), list[i] = q
            PROVE  i + 1 \in 1..Len(free_pages_list') /\ free_pages_list'[i + 1] = q
        <5>1. Len(free_pages_list') = Len(list) + 1 /\ i + 1 \in 2..(Len(list) + 1)
          BY <1>1, <2>2
        <5>2. free_pages_list'[i + 1] = list[i + 1 - 1] /\ i + 1 - 1 = i
          BY <2>2, <5>1
        <5> QED
          BY <1>1, <4>1, <5>1, <5>2
      <4>2. ASSUME NEW i \in 1..Len(free_pages_list'), free_pages_list'[i] = q
            PROVE  i - 1 \in 1..Len(list) /\ list[i - 1] = q
        BY <1>1, <2>2, <3>2, <4>2
      <4> QED
        BY <1>2, <1>4, <3>2, <4>1, <4>2 DEF Listed
    <3> QED
      BY <3>1, <3>2
  <2> QED
    BY <1>1, <1>4, <2>1, <2>2, <2>4, <2>5 DEF PagesInv, PageTypeOK, ListedOnce, Listed, PageAddrs
<1>6. CASE ref_count'[p] # 0
  <2>1. free_pages_list' = list /\ total_free_pages' = Len(list)
    BY <1>1, <1>6 DEF FreePage
  <2>2. PageTypeOK'
    BY <1>1, <1>4, <2>1 DEF PageTypeOK, PageAddrs
  <2>3. \A q \in PageAddrs : ref_count'[q] = 0 <=> ref_count[q] = 0
    BY <1>1, <1>2, <1>4, <1>6
  <2>4. ListedOnce'
    BY <1>2, <2>1, <2>3 DEF ListedOnce, Listed, PageAddrs
  <2> QED
    BY <2>2, <2>4 DEF PagesInv
<1> QED
  BY <1>5, <1>6

LEMMA PagesStep == PagesInv /\ [PagesNext]_pageVars => PagesInv'
<1> SUFFICES ASSUME PagesInv, [PagesNext]_pageVars
             PROVE  PagesInv'
  OBVIOUS
<1>1. CASE PagesNext
  BY <1>1, AllocPageInv, FreePageInv DEF PagesNext
<1>2. CASE UNCHANGED pageVars
  BY <1>2 DEF pageVars, PagesInv, PageTypeOK, ListedOnce, Listed, PageAddrs
<1> QED
  BY <1>1, <1>2

\* Whoever takes and gives back pages in whatever order, over any pool of distinct
\* pages: none is handed out twice and none is lost.
THEOREM PagesSafe ==
  ASSUME PoolDistinct
  PROVE  PagesSpec => [](PageTypeOK /\ ListedOnce)
<1>1. PagesInit => PagesInv
  BY PagesInitInv
<1>2. PagesInv /\ [PagesNext]_pageVars => PagesInv'
  BY PagesStep
<1>3. PagesInv => PageTypeOK /\ ListedOnce
  BY DEF PagesInv
<1> QED
  BY <1>1, <1>2, <1>3, PTL DEF PagesSpec

-----------------------------------------------------------------------------
(* The files. *)

\* Descriptors are numbered from 1 in the order they are given out, and a slot that is
\* free carries none.
Numbered ==
  /\ DOMAIN held \subseteq 1..(next_fd - 1)
  /\ \A fd \in DOMAIN held : held[fd] \in Inodes

FilesInv == FilesTypeOK /\ Numbered /\ DescriptorsOwned

LEMMA FilesInitInv == FilesInit => FilesInv
<1> SUFFICES ASSUME FilesInit
             PROVE  FilesInv
  OBVIOUS
<1>1. DOMAIN held = {} /\ Inodes \subseteq Nat /\ 0 \in Inodes
  BY FilesAssumption DEF FilesInit, Inodes
<1>2. FilesTypeOK
  BY <1>1, FilesAssumption DEF FilesInit, FilesTypeOK, UnusedInode, UnusedSlot, Nothing, NO_INODE
<1> QED
  BY <1>1, <1>2 DEF FilesInv, Numbered, DescriptorsOwned, FilesInit, UnusedSlot

LEMMA FsCreateInv ==
  ASSUME FilesInv, FsCreate
  PROVE  FilesInv'
<1>1. PICK i \in Inodes :
        /\ inode_table' = [inode_table EXCEPT ![i] = [UnusedInode EXCEPT !.inode_id = i]]
        /\ last_created_inode' = i
  BY DEF FsCreate
<1> DEFINE new == [inode_id |-> i, size |-> 0, room |-> 0, data |-> Nothing]
<1>2. new = [UnusedInode EXCEPT !.inode_id = i]
  BY DEF UnusedInode
<1>3. new \in [inode_id : Inodes, size : 0..MaxSize, room : 0..(MaxSize + 1), data : Data \cup {Nothing}]
  BY FilesAssumption
<1>4. inode_table' = [inode_table EXCEPT ![i] = new]
  BY <1>1, <1>2
<1>5. new.room = 0 /\ new.size = 0
  OBVIOUS
<1>6. FilesTypeOK'
  <2> HIDE DEF new
  <2>1. \A j \in Inodes : inode_table'[j] = IF j = i THEN new ELSE inode_table[j]
    BY <1>4 DEF FilesInv, FilesTypeOK
  <2>2. \A j \in Inodes : inode_table'[j].room = 0 => inode_table'[j].size = 0
    BY <1>5, <2>1 DEF FilesInv, FilesTypeOK
  <2>3. inode_table' \in [Inodes -> [inode_id : Inodes, size : 0..MaxSize, room : 0..(MaxSize + 1),
                                    data : Data \cup {Nothing}]]
    BY <1>3, <1>4 DEF FilesInv, FilesTypeOK
  <2> QED
    BY <1>1, <2>2, <2>3 DEF FilesInv, FilesTypeOK, FsCreate
<1> QED
  BY <1>6 DEF FilesInv, FsCreate, Numbered, DescriptorsOwned

\* fs_open hands out an inode that exists.
LEMMA InodeOfFact ==
  ASSUME FilesTypeOK, NEW name \in Names
  PROVE  InodeOf(name) \in Inodes
  BY FilesAssumption DEF FilesTypeOK, InodeOf, Inodes, NO_INODE

LEMMA FsOpenInv ==
  ASSUME FilesInv, NEW name \in Names, FsOpen(name)
  PROVE  FilesInv'
<1> DEFINE new == [fd |-> next_fd, inode_id |-> InodeOf(name), ref_count |-> 1]
<1>1. PICK i \in Slots : FirstSlot(i) /\ open_files' = [open_files EXCEPT ![i] = new]
  BY DEF FsOpen
<1>2. /\ InodeOf(name) \in Inodes /\ next_fd \in 1..MaxFd /\ next_fd' = next_fd + 1
      /\ MaxFd \in Nat
  BY InodeOfFact, FilesAssumption DEF FilesInv, FilesTypeOK, FsOpen, After
<1>3. new \in [fd : 0..MaxFd, inode_id : Inodes, ref_count : 0..(FdRefs - 1)]
  BY <1>2, FilesAssumption
<1>4. FilesTypeOK'
  <2>1. open_files' \in [Slots -> [fd : 0..MaxFd, inode_id : Inodes, ref_count : 0..(FdRefs - 1)]]
    BY <1>1, <1>3 DEF FilesInv, FilesTypeOK
  <2>2. next_fd' \in 1..(MaxFd + 1)
    BY <1>2
  <2> QED
    BY <2>1, <2>2 DEF FilesInv, FilesTypeOK, FsOpen
<1>5. /\ DOMAIN held' = DOMAIN held \cup {next_fd}
      /\ held'[next_fd] = InodeOf(name)
      /\ \A fd \in DOMAIN held : held'[fd] = held[fd] /\ fd # next_fd /\ fd < next_fd /\ fd >= 1
  BY <1>2 DEF FsOpen, Given, FilesInv, Numbered
<1>6. Numbered'
  BY <1>2, <1>5 DEF FilesInv, Numbered
<1>7. /\ open_files'[i] = new
      /\ \A j \in Slots : j # i => open_files'[j] = open_files[j]
  BY <1>1 DEF FilesInv, FilesTypeOK
<1>8. open_files[i].ref_count = 0
  BY <1>1 DEF FirstSlot
<1>9. ASSUME NEW fd \in DOMAIN held'
      PROVE  \E k \in Slots :
               /\ open_files'[k] = [fd |-> fd, inode_id |-> held'[fd], ref_count |-> 1]
               /\ \A j \in Slots : open_files'[j].fd = fd => j = k
  <2>1. CASE fd = next_fd
    <3>1. \A j \in Slots : open_files[j].fd # next_fd
      BY <1>2, <1>5 DEF FilesInv, DescriptorsOwned
    <3> QED
      BY <1>5, <1>7, <2>1, <3>1
  <2>2. CASE fd # next_fd
    <3>1. fd \in DOMAIN held /\ held'[fd] = held[fd]
      BY <1>5, <2>2
    <3>2. PICK k \in Slots :
            /\ open_files[k] = [fd |-> fd, inode_id |-> held[fd], ref_count |-> 1]
            /\ \A j \in Slots : open_files[j].fd = fd => j = k
      BY <3>1 DEF FilesInv, DescriptorsOwned
    <3>3. k # i
      BY <1>8, <3>2
    <3> QED
      BY <1>7, <2>2, <3>1, <3>2, <3>3
  <2> QED
    BY <2>1, <2>2
<1>10. \A j \in Slots : open_files'[j].fd \in DOMAIN held' \cup {0}
  BY <1>5, <1>7 DEF FilesInv, DescriptorsOwned
<1> QED
  BY <1>4, <1>6, <1>9, <1>10 DEF FilesInv, DescriptorsOwned

LEMMA FsCloseInv ==
  ASSUME FilesInv, NEW fd \in 0..MaxFd, FsClose(fd)
  PROVE  FilesInv'
<1>1. PICK i \in Slots :
        /\ Named(i, fd)
        /\ open_files' = [open_files EXCEPT ![i] = Released(@)]
  BY DEF FsClose
<1> DEFINE slot == open_files[i]
           low == Lowered(slot.ref_count)
<1>0. slot \in [fd : 0..MaxFd, inode_id : Inodes, ref_count : 0..(FdRefs - 1)]
  BY DEF FilesInv, FilesTypeOK
<1>2. low \in 0..(FdRefs - 1) /\ (slot.ref_count = 1 => low = 0)
  <2>1. slot.ref_count \in 0..(FdRefs - 1)
    BY <1>0
  <2>2. \A c \in Nat : (c + FdRefs - 1) % FdRefs \in 0..(FdRefs - 1)
    BY FilesAssumption, SMT
  <2>3. (1 + FdRefs - 1) % FdRefs = 0
    <3>1. 1 + FdRefs - 1 = FdRefs /\ FdRefs \in Nat /\ FdRefs > 1
      BY FilesAssumption
    <3>2. \A m \in Nat : m > 1 => m % m = 0
      BY SMT
    <3> QED
      BY <3>1, <3>2
  <2> QED
    BY <2>1, <2>2, <2>3, FilesAssumption DEF Lowered
<1>3. /\ open_files'[i] = IF low = 0 THEN UnusedSlot ELSE [slot EXCEPT !.ref_count = low]
      /\ \A j \in Slots : j # i => open_files'[j] = open_files[j]
      /\ slot.fd = fd
  <2>1. DOMAIN open_files = Slots /\ slot.fd = fd
    BY <1>1 DEF FilesInv, FilesTypeOK, Named
  <2>2. open_files'[i] = Released(slot) /\ \A j \in Slots : j # i => open_files'[j] = open_files[j]
    BY <1>1, <2>1
  <2> QED
    BY <2>1, <2>2 DEF Released
<1>4. open_files'[i] \in [fd : 0..MaxFd, inode_id : Inodes, ref_count : 0..(FdRefs - 1)]
  <2> HIDE DEF low, slot
  <2>1. UnusedSlot \in [fd : 0..MaxFd, inode_id : Inodes, ref_count : 0..(FdRefs - 1)]
    BY FilesAssumption DEF UnusedSlot, Inodes
  <2>2. [slot EXCEPT !.ref_count = low] \in [fd : 0..MaxFd, inode_id : Inodes, ref_count : 0..(FdRefs - 1)]
    BY <1>0, <1>2
  <2> QED
    BY <1>3, <2>1, <2>2
<1>5. FilesTypeOK'
  BY <1>1, <1>4 DEF FilesInv, FilesTypeOK, FsClose
<1>6. /\ DOMAIN held' = DOMAIN held \ {fd}
      /\ \A f \in DOMAIN held' : held'[f] = held[f]
  BY DEF FsClose
<1>7. Numbered'
  BY <1>6 DEF FilesInv, Numbered, FsClose
<1>8. open_files'[i].fd = 0
  <2>1. CASE fd \in DOMAIN held
    <3>1. PICK k \in Slots :
            /\ open_files[k] = [fd |-> fd, inode_id |-> held[fd], ref_count |-> 1]
            /\ \A j \in Slots : open_files[j].fd = fd => j = k
      BY <2>1 DEF FilesInv, DescriptorsOwned
    <3>2. slot.ref_count = 1
      BY <1>3, <3>1
    <3> QED
      BY <1>2, <1>3, <3>2 DEF UnusedSlot
  <2>2. CASE fd \notin DOMAIN held
    <3>1. slot.fd = 0
      BY <1>3, <2>2 DEF FilesInv, DescriptorsOwned
    <3> QED
      BY <1>0, <1>3, <3>1 DEF UnusedSlot
  <2> QED
    BY <2>1, <2>2
<1>9. ASSUME NEW f \in DOMAIN held'
      PROVE  \E k \in Slots :
               /\ open_files'[k] = [fd |-> f, inode_id |-> held'[f], ref_count |-> 1]
               /\ \A j \in Slots : open_files'[j].fd = f => j = k
  <2>1. f \in DOMAIN held /\ f # fd /\ f >= 1 /\ held'[f] = held[f]
    BY <1>6 DEF FilesInv, Numbered, FilesTypeOK
  <2>2. PICK k \in Slots :
          /\ open_files[k] = [fd |-> f, inode_id |-> held[f], ref_count |-> 1]
          /\ \A j \in Slots : open_files[j].fd = f => j = k
    BY <2>1 DEF FilesInv, DescriptorsOwned
  <2>3. k # i
    BY <1>3, <2>1, <2>2
  <2>4. ASSUME NEW j \in Slots, open_files'[j].fd = f
        PROVE  j = k
    <3>1. j # i
      BY <1>8, <2>1, <2>4
    <3>2. open_files'[j] = open_files[j]
      BY <1>3, <3>1
    <3> QED
      BY <2>2, <2>4, <3>2
  <2>5. open_files'[k] = [fd |-> f, inode_id |-> held'[f], ref_count |-> 1]
    BY <1>3, <2>1, <2>2, <2>3
  <2> QED
    BY <2>4, <2>5
<1>10. \A j \in Slots : open_files'[j].fd \in DOMAIN held' \cup {0}
  <2> SUFFICES ASSUME NEW j \in Slots, j # i, open_files[j].fd \in DOMAIN held
               PROVE  open_files[j].fd # fd
    BY <1>3, <1>6, <1>8 DEF FilesInv, DescriptorsOwned
  <2> QED
    BY <1>3 DEF FilesInv, DescriptorsOwned
<1> QED
  BY <1>5, <1>7, <1>9, <1>10 DEF FilesInv, DescriptorsOwned

LEMMA FsWriteInv ==
  ASSUME FilesInv, NEW fd \in 0..MaxFd, NEW n \in 1..MaxSize, NEW d \in Data, FsWrite(fd, n, d)
  PROVE  FilesInv'
<1>1. PICK i \in Slots :
        inode_table' = [inode_table EXCEPT ![open_files[i].inode_id] = Stored(@, n, d)]
  BY DEF FsWrite
<1> DEFINE inode == open_files[i].inode_id
<1>2. inode \in Inodes
  BY DEF FilesInv, FilesTypeOK
<1>3. /\ inode_table'[inode] = Stored(inode_table[inode], n, d)
      /\ \A j \in Inodes : j # inode => inode_table'[j] = inode_table[j]
      /\ DOMAIN inode_table' = Inodes
  BY <1>1, <1>2 DEF FilesInv, FilesTypeOK
<1>4. /\ Stored(inode_table[inode], n, d) \in [inode_id : Inodes, size : 0..MaxSize,
                                              room : 0..(MaxSize + 1), data : Data \cup {Nothing}]
      /\ Stored(inode_table[inode], n, d).room > 0
  <2> DEFINE old == inode_table[inode]  room == Allotted(old, n)
  <2>1. old \in [inode_id : Inodes, size : 0..MaxSize, room : 0..(MaxSize + 1), data : Data \cup {Nothing}]
    BY <1>2 DEF FilesInv, FilesTypeOK
  <2>2. room \in 0..(MaxSize + 1) /\ room > 0 /\ n \in 0..MaxSize
    BY <2>1, FilesAssumption DEF Allotted
  <2>3. Stored(old, n, d) = [old EXCEPT !.room = room, !.size = n, !.data = d]
    BY DEF Stored
  <2> DEFINE new == Stored(old, n, d)
  <2>4. /\ new \in [inode_id : Inodes, size : 0..MaxSize, room : 0..(MaxSize + 1), data : Data \cup {Nothing}]
        /\ new.room > 0
    <3> HIDE DEF old, room
    <3> QED
      BY <2>1, <2>2, <2>3
  <2> QED
    BY <2>4
<1>5. FilesTypeOK'
  BY <1>1, <1>2, <1>3, <1>4 DEF FilesInv, FilesTypeOK, FsWrite
<1> QED
  BY <1>5 DEF FilesInv, FsWrite, Numbered, DescriptorsOwned

LEMMA FilesStep == FilesInv /\ [FilesNext]_filesVars => FilesInv'
<1> SUFFICES ASSUME FilesInv, [FilesNext]_filesVars
             PROVE  FilesInv'
  OBVIOUS
<1>1. CASE FilesNext
  BY <1>1, FsCreateInv, FsOpenInv, FsCloseInv, FsWriteInv DEF FilesNext
<1>2. CASE UNCHANGED filesVars
  BY <1>2 DEF filesVars, FilesInv, FilesTypeOK, Numbered, DescriptorsOwned
<1> QED
  BY <1>1, <1>2

\* However many files are opened and closed, and however often descriptor 0 is: each
\* descriptor a caller holds names one slot, of its own and with its inode.
THEOREM FilesSafe == FilesSpec => [](FilesTypeOK /\ DescriptorsOwned)
<1>1. FilesInit => FilesInv
  BY FilesInitInv
<1>2. FilesInv /\ [FilesNext]_filesVars => FilesInv'
  BY FilesStep
<1>3. FilesInv => FilesTypeOK /\ DescriptorsOwned
  BY DEF FilesInv
<1> QED
  BY <1>1, <1>2, <1>3, PTL DEF FilesSpec

-----------------------------------------------------------------------------
\* What an inode holds is what it was last given, and one that was given something has
\* storage.
Agrees(i) ==
  /\ inode_table[i].size = written[i].size /\ inode_table[i].data = written[i].data
  /\ inode_table[i].size = 0 => inode_table[i].data = Nothing
  /\ inode_table[i].size > 0 => inode_table[i].room > 0

WrittenInv ==
  /\ written \in [Inodes -> [size : 0..MaxSize, data : Data \cup {Nothing}]]
  /\ ~overrun => \A i \in Inodes : Agrees(i)

LEMMA WrittenInitInv == FilesInit => WrittenInv
  BY FilesAssumption DEF FilesInit, WrittenInv, Agrees, UnusedInode

LEMMA WrittenStep ==
  ASSUME FilesInv, WrittenInv, [FilesNext]_filesVars
  PROVE  WrittenInv'
<1>1. CASE FsCreate
  <2>1. PICK i \in Inodes :
          /\ inode_table' = [inode_table EXCEPT ![i] = [UnusedInode EXCEPT !.inode_id = i]]
          /\ written' = [written EXCEPT ![i] = [size |-> 0, data |-> Nothing]]
    BY <1>1 DEF FsCreate
  <2>2. overrun' = overrun /\ 0 \in 0..MaxSize
    BY <1>1, FilesAssumption DEF FsCreate
  <2>3. ASSUME NEW j \in Inodes, j # i
        PROVE  inode_table'[j] = inode_table[j] /\ written'[j] = written[j]
    BY <2>1, <2>3 DEF FilesInv, FilesTypeOK, WrittenInv
  <2>4. Agrees(i)'
    BY <2>1 DEF FilesInv, FilesTypeOK, WrittenInv, UnusedInode, Agrees
  <2>5. written' \in [Inodes -> [size : 0..MaxSize, data : Data \cup {Nothing}]]
    BY <2>1, <2>2 DEF WrittenInv
  <2> QED
    BY <2>2, <2>3, <2>4, <2>5 DEF WrittenInv, Agrees
<1>2. ASSUME NEW fd \in 0..MaxFd, NEW n \in 1..MaxSize, NEW d \in Data, FsWrite(fd, n, d)
      PROVE  WrittenInv'
  <2>1. PICK i \in Inodes :
          /\ inode_table' = [inode_table EXCEPT ![i] = Stored(@, n, d)]
          /\ written' = [written EXCEPT ![i] = [size |-> n, data |-> d]]
    BY <1>2 DEF FsWrite, FilesInv, FilesTypeOK
  <2> DEFINE old == inode_table[i]
  <2>2. /\ ~overrun
        /\ old \in [inode_id : Inodes, size : 0..MaxSize, room : 0..(MaxSize + 1), data : Data \cup {Nothing}]
    BY <1>2 DEF FilesInv, FilesTypeOK, FsWrite
  <2>3. /\ inode_table'[i] = Stored(old, n, d) /\ written'[i] = [size |-> n, data |-> d]
        /\ \A j \in Inodes : j # i => inode_table'[j] = inode_table[j] /\ written'[j] = written[j]
    BY <2>1, <2>2 DEF FilesInv, FilesTypeOK, WrittenInv
  <2>4. LET new == Stored(old, n, d)
        IN  new.size = n /\ new.data = d /\ new.room > 0
    <3> HIDE DEF old
    <3>1. Allotted(old, n) > 0
      BY <2>2, FilesAssumption DEF Allotted
    <3> QED
      BY <2>2, <3>1 DEF Stored
  <2>5. Agrees(i)'
    <3>1. inode_table'[i].size = n /\ inode_table'[i].data = d /\ inode_table'[i].room > 0
      BY <2>3, <2>4
    <3>2. written'[i].size = n /\ written'[i].data = d /\ n # 0
      BY <2>3
    <3> QED
      BY <3>1, <3>2 DEF Agrees
  <2>6. written' \in [Inodes -> [size : 0..MaxSize, data : Data \cup {Nothing}]]
    <3>1. [size |-> n, data |-> d] \in [size : 0..MaxSize, data : Data \cup {Nothing}]
      BY FilesAssumption
    <3> QED
      BY <2>1, <3>1 DEF WrittenInv
  <2>7. ASSUME NEW j \in Inodes, j # i
        PROVE  Agrees(j)'
    BY <2>2, <2>3, <2>7 DEF WrittenInv, Agrees
  <2> QED
    BY <2>5, <2>6, <2>7 DEF WrittenInv
<1>3. ASSUME UNCHANGED <<inode_table, written, overrun>>
      PROVE  WrittenInv'
  BY <1>3 DEF WrittenInv, Agrees
<1> QED
  BY <1>1, <1>2, <1>3 DEF FilesNext, FsOpen, FsClose, filesVars

LEMMA ReadsWhatIsWritten ==
  ASSUME FilesInv, WrittenInv
  PROVE  ReadsBack
<1> SUFFICES ASSUME ~overrun, NEW fd \in DOMAIN held, NEW i \in Slots, NEW n \in 1..MaxSize,
                    Named(i, fd)
             PROVE  FsRead(i, n) = [size |-> IF n < written[held[fd]].size THEN n ELSE written[held[fd]].size,
                                    data |-> written[held[fd]].data]
  BY DEF ReadsBack
<1>1. open_files[i].inode_id = held[fd]
  <2>1. PICK k \in Slots :
          /\ open_files[k] = [fd |-> fd, inode_id |-> held[fd], ref_count |-> 1]
          /\ \A j \in Slots : open_files[j].fd = fd => j = k
    BY DEF FilesInv, DescriptorsOwned
  <2>2. i = k
    BY <2>1 DEF Named
  <2> QED
    BY <2>1, <2>2
<1> DEFINE inode == inode_table[held[fd]]
<1>2. /\ Agrees(held[fd]) /\ held[fd] \in Inodes
      /\ inode.size \in 0..MaxSize
  BY DEF FilesInv, FilesTypeOK, Numbered, WrittenInv
<1>3. CASE inode.size = 0
  BY <1>1, <1>2, <1>3 DEF Agrees, FsRead
<1>4. CASE inode.size # 0
  <2>1. inode.size > 0 /\ inode.room > 0
    BY <1>2, <1>4, FilesAssumption DEF Agrees
  <2>2. (IF n < inode.size THEN n ELSE inode.size) > 0
    BY <1>2, <2>1, FilesAssumption
  <2> QED
    BY <1>1, <1>2, <2>1, <2>2 DEF Agrees, FsRead
<1> QED
  BY <1>3, <1>4

LEMMA FilesWrittenStep == FilesInv /\ WrittenInv /\ [FilesNext]_filesVars => (FilesInv /\ WrittenInv)'
<1> SUFFICES ASSUME FilesInv, WrittenInv, [FilesNext]_filesVars
             PROVE  FilesInv' /\ WrittenInv'
  OBVIOUS
<1>1. CASE FilesNext
  BY <1>1, WrittenStep, FsCreateInv, FsOpenInv, FsCloseInv, FsWriteInv DEF FilesNext
<1>2. CASE UNCHANGED filesVars
  BY <1>2, WrittenStep DEF filesVars, FilesInv, FilesTypeOK, Numbered, DescriptorsOwned
<1> QED
  BY <1>1, <1>2

\* As long as no write went past its file's storage, a read through any descriptor finds
\* what was last written to its inode, by whatever descriptor.
THEOREM FilesReadBack == FilesSpec => []ReadsBack
<1>1. FilesInit => FilesInv /\ WrittenInv
  BY FilesInitInv, WrittenInitInv
<1>2. FilesInv /\ WrittenInv /\ [FilesNext]_filesVars => (FilesInv /\ WrittenInv)'
  BY FilesWrittenStep
<1>3. FilesInv /\ WrittenInv => ReadsBack
  BY ReadsWhatIsWritten
<1> QED
  BY <1>1, <1>2, <1>3, PTL DEF FilesSpec

-----------------------------------------------------------------------------
(* The caches. *)

\* An unsigned count goes around once.
LEMMA ModOnce ==
  ASSUME NEW m \in Nat, m > 0, NEW x \in Nat, x < 2 * m
  PROVE  /\ x % m \in 0..(m - 1)
         /\ x < m => x % m = x
         /\ x >= m => x % m = x - m
<1>1. x < m => x % m = x
  BY SMT
<1>2. ASSUME x >= m
      PROVE  x % m = x - m
  <2>1. x - m \in 0..(m - 1)
    BY <1>2, SMT
  <2>2. \A y \in 0..(m - 1) : (y + m) % m = y
    BY SMT
  <2> QED
    BY <2>1, <2>2, SMT
<1> QED
  BY <1>1, <1>2, SMT

-----------------------------------------------------------------------------
(* The block cache. *)

Entry == [block_num : Blocks \cup {NoBlock}, data : Contents \cup {Zeros},
          dirty : {0, 1}, ref_count : 0..(BlockRefs - 1)]

BlocksInv == BlocksTypeOK /\ (~block_wrapped => OneEntryEach)

LEMMA OneMoreFact ==
  ASSUME NEW c \in 0..(BlockRefs - 1)
  PROVE  OneMore(c) \in 0..(BlockRefs - 1) /\ (c = 0 => OneMore(c) # 0)
  BY BlocksAssumption, ModOnce DEF OneMore

LEMMA NoBlockFact == NoBlock \notin Blocks
  BY BlocksAssumption DEF NoBlock, Blocks

LEMMA BlocksInitInv == BlocksInit => BlocksInv
<1> SUFFICES ASSUME BlocksInit
             PROVE  BlocksInv
  OBVIOUS
<1>1. NoEntry \in Entry
  BY BlocksAssumption DEF NoEntry, Entry
<1>2. \A i \in BlockSlots : block_cache[i] = NoEntry
  BY DEF BlocksInit
<1>3. BlocksTypeOK
  BY <1>1, <1>2 DEF BlocksInit, BlocksTypeOK, Entry, NoEntry
<1>4. OneEntryEach
  BY <1>2 DEF BlocksInit, OneEntryEach, NoEntry
<1> QED
  BY <1>3, <1>4 DEF BlocksInv

\* What an operation on block b owes when it replaces one entry i by e, where until a
\* count has wrapped i carries b or nothing and no other entry carries b: the invariant,
\* and that the other blocks have their entries and their storage as they were.
LEMMA EntryReplaced ==
  ASSUME BlocksInv, NEW b \in Blocks, NEW i \in BlockSlots, NEW e \in Entry,
         block_cache' = [block_cache EXCEPT ![i] = e], e.block_num \in {b, NoBlock},
         e.block_num = NoBlock => e.ref_count = 0 /\ e.dirty = 0,
         e.block_num = b \/ BlockFree(b),
         block_storage' \in [StoredBlocks -> Contents \cup {Zeros}],
         \A a \in StoredBlocks : a # b => block_storage'[a] = block_storage[a],
         UNCHANGED backed,
         block_wrapped' \in BOOLEAN, block_wrapped => block_wrapped',
         ~block_wrapped' => (e.block_num = b => e.ref_count > 0),
         ~block_wrapped => /\ block_cache[i].block_num \in {b, NoBlock}
                           /\ \A j \in Cached(b) : j = i
  PROVE  BlocksInv' /\ (~block_wrapped => BlockStep)
<1>1. /\ block_cache'[i] = e
      /\ \A j \in BlockSlots : j # i => block_cache'[j] = block_cache[j]
      /\ block_cache' \in [BlockSlots -> Entry]
  BY DEF BlocksInv, BlocksTypeOK, Entry
<1>2. BlocksTypeOK'
  BY <1>1, NoBlockFact DEF BlocksInv, BlocksTypeOK, Entry
<1>3. ASSUME ~block_wrapped'
      PROVE  OneEntryEach'
  <2>1. \A j \in BlockSlots : block_cache[j].block_num = b => j = i
    BY <1>3 DEF Cached
  <2> QED
    BY <1>1, <1>3, <2>1 DEF BlocksInv, OneEntryEach
<1>4. ASSUME ~block_wrapped, NEW a \in Blocks, a # b
      PROVE  SameBlock(a)
  <2>1. block_cache[i].block_num # a /\ e.block_num # a
    BY <1>4, NoBlockFact
  <2> QED
    BY <1>1, <1>4, <2>1 DEF SameBlock
<1>5. ASSUME ~block_wrapped, ~BlockFree(b)
      PROVE  \A j \in Cached(b) : block_cache'[j].block_num = b
  BY <1>1, <1>5
<1>6. ASSUME ~block_wrapped, NEW a \in Blocks
      PROVE  BlockFree(a) \/ \A j \in Cached(a) : block_cache'[j].block_num = a
  <2>1. a # b => \A j \in Cached(a) : block_cache'[j] = block_cache[j]
    BY <1>4, <1>6 DEF SameBlock, Cached
  <2> QED
    BY <1>5, <1>6, <2>1 DEF Cached
<1> QED
  BY <1>2, <1>3, <1>4, <1>6 DEF BlocksInv, BlockStep

LEMMA BlockReadHitInv ==
  ASSUME BlocksInv, NEW b \in Blocks, NEW c \in Contents, BlockReadHit(b, c)
  PROVE  BlocksInv' /\ (~block_wrapped => BlockStep)
<1>1. PICK i \in BlockSlots :
        /\ FirstOf(i, Referred(b))
        /\ block_cache' = [block_cache EXCEPT ![i].data = c, ![i].ref_count = OneMore(@)]
        /\ block_wrapped' = (block_wrapped \/ block_cache'[i].ref_count = 0)
  BY DEF BlockReadHit
<1> DEFINE old == block_cache[i]
           e == [old EXCEPT !.data = c, !.ref_count = OneMore(old.ref_count)]
<1>2. old \in Entry /\ DOMAIN block_cache = BlockSlots
  BY DEF BlocksInv, BlocksTypeOK, Entry
<1>3. block_cache' = [block_cache EXCEPT ![i] = e]
  BY <1>1, <1>2 DEF Entry
<1>4. /\ e \in Entry /\ e.block_num = old.block_num
      /\ e.ref_count = OneMore(old.ref_count)
  BY <1>2, OneMoreFact DEF Entry
<1>5. old.block_num = b
  BY <1>1 DEF FirstOf, Referred, Cached
<1>6. /\ block_wrapped' \in BOOLEAN
      /\ block_wrapped => block_wrapped'
      /\ ~block_wrapped' => e.ref_count # 0
  <2>1. block_cache'[i].ref_count = e.ref_count
    BY <1>2, <1>3
  <2> HIDE DEF e
  <2> QED
    BY <1>1, <2>1, Zenon DEF BlocksInv, BlocksTypeOK
<1>7. /\ block_storage' = block_storage /\ UNCHANGED backed
      /\ block_storage' \in [StoredBlocks -> Contents \cup {Zeros}]
  BY DEF BlocksInv, BlocksTypeOK, BlockReadHit
<1> HIDE DEF e
<1>8. ~block_wrapped' => e.ref_count > 0
  <2>1. e.ref_count \in 0..(BlockRefs - 1)
    BY <1>4 DEF Entry
  <2> QED
    BY <1>6, <2>1, BlocksAssumption
<1>9. ~block_wrapped => \A j \in Cached(b) : j = i
  BY <1>5, NoBlockFact DEF BlocksInv, OneEntryEach, Cached
<1>10. e.block_num = b /\ b # NoBlock
  BY <1>4, <1>5, NoBlockFact
<1> QED
  BY <1>3, <1>4, <1>5, <1>6, <1>7, <1>8, <1>9, <1>10, EntryReplaced

LEMMA BlockReadMissInv ==
  ASSUME BlocksInv, NEW b \in Blocks, NEW c \in Contents, BlockReadMiss(b, c)
  PROVE  BlocksInv' /\ (~block_wrapped => BlockStep)
<1> DEFINE e == [block_num |-> b, data |-> c, dirty |-> 0, ref_count |-> 1]
<1>1. PICK i \in BlockSlots :
        /\ FirstOf(i, EmptyEntries)
        /\ block_storage' = [s \in StoredBlocks |-> IF s = b THEN block_cache[i].data ELSE block_storage[s]]
        /\ block_cache' = [block_cache EXCEPT ![i] = e]
  BY DEF BlockReadMiss
<1>2. e \in Entry
  BY BlocksAssumption DEF Entry
<1>3. /\ block_storage' \in [StoredBlocks -> Contents \cup {Zeros}]
      /\ \A a \in StoredBlocks : a # b => block_storage'[a] = block_storage[a]
  BY <1>1 DEF BlocksInv, BlocksTypeOK
<1>4. ~block_wrapped => block_cache[i].block_num = NoBlock /\ Cached(b) = {}
  <2>1. block_cache[i].ref_count = 0 /\ Referred(b) = {}
    BY <1>1 DEF FirstOf, EmptyEntries, BlockReadMiss
  <2> QED
    BY <2>1, NoBlockFact DEF BlocksInv, OneEntryEach, Cached, Referred
<1>5. UNCHANGED <<backed, block_wrapped>> /\ block_wrapped \in BOOLEAN
  BY DEF BlockReadMiss, BlocksInv, BlocksTypeOK
<1>6. e.block_num = b /\ e.ref_count > 0 /\ b # NoBlock
  BY NoBlockFact
<1> HIDE DEF e
<1> QED
  BY <1>1, <1>2, <1>3, <1>4, <1>5, <1>6, EntryReplaced

LEMMA BlockWriteInv ==
  ASSUME BlocksInv, NEW b \in Blocks, BlockWrite(b)
  PROVE  BlocksInv' /\ (~block_wrapped => BlockStep)
<1>1. PICK i \in BlockSlots :
        /\ FirstOf(i, IF Cached(b) # {} THEN Cached(b) ELSE EmptyEntries)
        /\ block_cache' = [block_cache EXCEPT ![i].block_num = b, ![i].dirty = 1,
                                              ![i].ref_count = OneMore(@)]
        /\ block_wrapped' = (block_wrapped \/ block_cache'[i].ref_count = 0)
  BY DEF BlockWrite
<1> DEFINE old == block_cache[i]
           e == [old EXCEPT !.block_num = b, !.dirty = 1, !.ref_count = OneMore(old.ref_count)]
<1>2. old \in Entry /\ DOMAIN block_cache = BlockSlots
  BY DEF BlocksInv, BlocksTypeOK, Entry
<1>3. block_cache' = [block_cache EXCEPT ![i] = e]
  BY <1>1, <1>2 DEF Entry
<1>4. e \in Entry /\ e.block_num = b /\ b # NoBlock
  BY <1>2, OneMoreFact, NoBlockFact DEF Entry
<1>5. /\ block_wrapped' \in BOOLEAN
      /\ block_wrapped => block_wrapped'
      /\ ~block_wrapped' => e.ref_count # 0
  <2>1. block_cache'[i].ref_count = e.ref_count
    BY <1>2, <1>3
  <2> HIDE DEF e
  <2> QED
    BY <1>1, <2>1, Zenon DEF BlocksInv, BlocksTypeOK
<1>6. /\ block_storage' = block_storage /\ UNCHANGED backed
      /\ block_storage' \in [StoredBlocks -> Contents \cup {Zeros}]
  BY DEF BlocksInv, BlocksTypeOK, BlockWrite
<1>7. i \in Cached(b) \/ (Cached(b) = {} /\ old.ref_count = 0)
  BY <1>1 DEF FirstOf, EmptyEntries
<1> HIDE DEF e
<1>8. ~block_wrapped' => e.ref_count > 0
  <2>1. e.ref_count \in 0..(BlockRefs - 1)
    BY <1>4 DEF Entry
  <2> QED
    BY <1>5, <2>1, BlocksAssumption
<1>9. ~block_wrapped => old.block_num \in {b, NoBlock} /\ \A j \in Cached(b) : j = i
  BY <1>7, NoBlockFact DEF BlocksInv, OneEntryEach, Cached
<1> QED
  BY <1>3, <1>4, <1>5, <1>6, <1>8, <1>9, EntryReplaced

LEMMA BlockFreeInv ==
  ASSUME BlocksInv, NEW b \in Blocks, BlockFree(b)
  PROVE  BlocksInv' /\ (~block_wrapped => BlockStep)
<1>1. PICK i \in BlockSlots :
        /\ FirstOf(i, Cached(b))
        /\ block_cache' = [block_cache EXCEPT ![i] = [NoEntry EXCEPT !.data = block_cache[i].data]]
  BY DEF BlockFree
<1> DEFINE e == [NoEntry EXCEPT !.data = block_cache[i].data]
<1>2. block_cache[i] \in Entry
  BY DEF BlocksInv, BlocksTypeOK, Entry
<1>3. /\ e \in Entry
      /\ e.block_num = NoBlock /\ e.ref_count = 0 /\ e.dirty = 0
  BY <1>2, BlocksAssumption DEF NoEntry, Entry
<1>4. /\ UNCHANGED <<block_storage, backed, block_wrapped>>
      /\ block_wrapped \in BOOLEAN
      /\ block_storage \in [StoredBlocks -> Contents \cup {Zeros}]
  BY DEF BlocksInv, BlocksTypeOK, BlockFree
<1>5. block_cache' = [block_cache EXCEPT ![i] = e]
  BY <1>1
<1> HIDE DEF e
<1>6. /\ block_cache[i].block_num = b /\ b # NoBlock
      /\ ~block_wrapped => \A j \in Cached(b) : j = i
  BY <1>1, NoBlockFact DEF BlocksInv, OneEntryEach, FirstOf, Cached
<1> QED
  BY <1>3, <1>4, <1>5, <1>6, EntryReplaced

LEMMA BlockCacheFlushInv ==
  ASSUME BlocksInv, BlockCacheFlush
  PROVE  BlocksInv' /\ (~block_wrapped => BlockStep)
<1>1. PICK f \in [BlockSlots -> Contents \cup {Zeros}] :
        block_cache' = [i \in BlockSlots |-> [block_cache[i] EXCEPT !.data = f[i], !.dirty = 0]]
  BY DEF BlockCacheFlush
<1>2. ASSUME NEW i \in BlockSlots
      PROVE  /\ block_cache[i] \in Entry
             /\ block_cache'[i] = [block_cache[i] EXCEPT !.data = f[i], !.dirty = 0]
             /\ f[i] \in Contents \cup {Zeros}
  BY <1>1 DEF BlocksInv, BlocksTypeOK, Entry
<1>3. ASSUME NEW i \in BlockSlots
      PROVE  /\ block_cache'[i] \in Entry
             /\ block_cache'[i].block_num = block_cache[i].block_num
             /\ block_cache'[i].ref_count = block_cache[i].ref_count
             /\ block_cache'[i].dirty = 0
  BY <1>2 DEF Entry
<1>4. UNCHANGED <<block_storage, backed, block_wrapped>>
  BY DEF BlockCacheFlush
<1>5. BlocksTypeOK'
  <2>1. block_cache' \in [BlockSlots -> Entry]
    BY <1>1, <1>3
  <2> QED
    BY <1>3, <1>4, <2>1 DEF BlocksInv, BlocksTypeOK, Entry
<1>6. ~block_wrapped' => OneEntryEach'
  BY <1>3, <1>4 DEF BlocksInv, OneEntryEach
<1>7. \A b \in Blocks : \A i \in Cached(b) : block_cache'[i].block_num = b
  BY <1>3 DEF Cached
<1> QED
  BY <1>5, <1>6, <1>7 DEF BlocksInv, BlockStep

LEMMA BlocksStep ==
  BlocksInv /\ [BlocksNext]_blockVars => BlocksInv' /\ [~block_wrapped => BlockStep]_blockVars
<1> SUFFICES ASSUME BlocksInv, [BlocksNext]_blockVars
             PROVE  BlocksInv' /\ [~block_wrapped => BlockStep]_blockVars
  OBVIOUS
<1>1. CASE BlocksNext
  BY <1>1, BlockReadHitInv, BlockReadMissInv, BlockWriteInv, BlockFreeInv, BlockCacheFlushInv
  DEF BlocksNext, BlockClear
<1>2. CASE UNCHANGED blockVars
  BY <1>2 DEF blockVars, BlocksInv, BlocksTypeOK, OneEntryEach
<1> QED
  BY <1>1, <1>2

\* Whatever is read, written, freed and flushed, for every size of the cache: until a
\* count has wrapped a block is in one counted entry, which only block_free gives up, and
\* no call but the flush touches the entry or the storage of a block it was not made for.
THEOREM BlocksSafe == BlocksSpec => []BlocksTypeOK /\ BlocksKept
<1>1. BlocksInit => BlocksInv
  BY BlocksInitInv
<1>2. BlocksInv /\ [BlocksNext]_blockVars => BlocksInv'
  BY BlocksStep
<1>3. BlocksInv /\ [BlocksNext]_blockVars => [~block_wrapped => BlockStep]_blockVars
  BY BlocksStep
<1>4. BlocksInv => BlocksTypeOK /\ (~block_wrapped => OneEntryEach)
  BY DEF BlocksInv
<1> QED
  BY <1>1, <1>2, <1>3, <1>4, PTL DEF BlocksSpec, BlocksKept

-----------------------------------------------------------------------------
(* The inode cache. *)

InodeEntry == [inode_id : InodeIds \cup {NONE}, ref_count : 0..(InodeRefs - 1), data : InodeData]

MadeCounts == \A i \in made : Counts(inode_cache[i].data)

InodesInv == InodesTypeOK /\ (~inode_wrapped => OneInodeEach) /\ MadeCounts

\* A step is for one inode and leaves the others alone.
OneInodeStep == \E id \in InodeIds : \A other \in InodeIds \ {id} : SameInode(other)

LEMMA DirectFinite ==
  /\ IsFiniteSet(Direct) /\ Cardinality(Direct) = DirectBlocks
  /\ DirectBlocks \in Nat /\ InodeRefs \in Nat /\ InodeRefs > DirectBlocks
<1>1. DirectBlocks \in Nat /\ InodeRefs \in Nat /\ InodeRefs > DirectBlocks
  BY InodesAssumption
<1>2. IsFiniteSet(0..(DirectBlocks - 1)) /\ Cardinality(0..(DirectBlocks - 1)) = DirectBlocks
  BY <1>1, FS_Interval
<1> QED
  BY <1>1, <1>2 DEF Direct

LEMMA UsedFact ==
  ASSUME NEW data \in InodeData
  PROVE  IsFiniteSet(Used(data)) /\ Cardinality(Used(data)) \in 0..DirectBlocks
<1>1. Used(data) \subseteq Direct
  BY DEF Used
<1>2. IsFiniteSet(Used(data)) /\ Cardinality(Used(data)) <= Cardinality(Direct)
  BY <1>1, DirectFinite, FS_Subset
<1>3. Cardinality(Used(data)) \in Nat
  BY <1>2, FS_CardinalityType
<1> QED
  BY <1>2, <1>3, DirectFinite

LEMMA CreatedCounts == Created \in InodeData /\ Counts(Created)
<1>1. Created \in InodeData
  BY InodesAssumption DEF Created, InodeData, NONE
<1>2. Used(Created) = {}
  BY DEF Used, Created
<1>3. Cardinality(Used(Created)) = 0
  BY <1>2, FS_EmptySet
<1> QED
  BY <1>1, <1>3 DEF Counts, Created

LEMMA UntouchedData == Untouched \in InodeData
  BY InodesAssumption DEF Untouched, InodeData

\* Whatever number a place gets, the data stays data.
LEMMA ReplacedData ==
  ASSUME NEW data \in InodeData, NEW k \in Direct, NEW to \in BlockNums, NEW change \in 0..(InodeRefs - 1)
  PROVE  Replaced(data, k, to, change) \in InodeData
<1>1. data.block_count \in 0..(InodeRefs - 1) /\ data.direct_blocks \in [Direct -> BlockNums]
  BY DEF InodeData
<1>2. (data.block_count + change) % InodeRefs \in 0..(InodeRefs - 1)
  BY <1>1, DirectFinite, ModOnce
<1> QED
  BY <1>1, <1>2 DEF Replaced, InodeData

\* One block more, at a place that was free: the count goes with it.
LEMMA AddCounts ==
  ASSUME NEW data \in InodeData, Counts(data), NEW b \in BlockNums, b # NONE, NEW k \in Direct,
         data.direct_blocks[k] = NONE
  PROVE  Counts(Replaced(data, k, b, 1))
<1> DEFINE new == Replaced(data, k, b, 1)
           used == Cardinality(Used(data))
<1>1. /\ data.block_count = used /\ data.direct_blocks \in [Direct -> BlockNums]
      /\ DOMAIN data = {"block_count", "direct_blocks"}
  BY DEF InodeData, Counts
<1>2. new.block_count = (used + 1) % InodeRefs /\ new.direct_blocks = [data.direct_blocks EXCEPT ![k] = b]
  BY <1>1 DEF Replaced
<1> HIDE DEF new
<1>3. Used(new) = Used(data) \cup {k} /\ k \notin Used(data)
  BY <1>1, <1>2 DEF Used
<1>4. Cardinality(Used(new)) = used + 1 /\ used \in 0..(DirectBlocks - 1)
  <2>1. IsFiniteSet(Used(data)) /\ used \in 0..DirectBlocks
    BY UsedFact
  <2>2. IsFiniteSet(Used(new)) /\ Cardinality(Used(new)) = used + 1
    BY <1>3, <2>1, FS_AddElement
  <2>3. Used(new) \subseteq Direct
    BY DEF Used
  <2>4. Cardinality(Used(new)) <= DirectBlocks
    BY <2>3, DirectFinite, FS_Subset
  <2> QED
    BY <2>1, <2>2, <2>4, DirectFinite
<1>5. (used + 1) % InodeRefs = used + 1
  BY <1>4, DirectFinite, ModOnce
<1> QED
  BY <1>2, <1>4, <1>5 DEF Counts, new

\* One block less.
LEMMA RemoveCounts ==
  ASSUME NEW data \in InodeData, Counts(data), NEW k \in Direct, data.direct_blocks[k] # NONE
  PROVE  Counts(Replaced(data, k, NONE, InodeRefs - 1))
<1> DEFINE new == Replaced(data, k, NONE, InodeRefs - 1)
           used == Cardinality(Used(data))
<1>1. /\ data.block_count = used /\ data.direct_blocks \in [Direct -> BlockNums]
      /\ DOMAIN data = {"block_count", "direct_blocks"}
  BY DEF InodeData, Counts
<1>2. /\ new.block_count = (used + (InodeRefs - 1)) % InodeRefs
      /\ new.direct_blocks = [data.direct_blocks EXCEPT ![k] = NONE]
  BY <1>1 DEF Replaced
<1> HIDE DEF new
<1>3. Used(new) = Used(data) \ {k} /\ k \in Used(data)
  BY <1>1, <1>2 DEF Used
<1>4. Cardinality(Used(new)) = used - 1 /\ used \in 1..DirectBlocks
  <2>1. IsFiniteSet(Used(data)) /\ used \in 0..DirectBlocks
    BY UsedFact
  <2>2. IsFiniteSet(Used(new)) /\ Cardinality(Used(new)) = used - 1
    BY <1>3, <2>1, FS_RemoveElement
  <2>3. Cardinality(Used(new)) \in Nat
    BY <2>2, FS_CardinalityType
  <2> QED
    BY <2>1, <2>2, <2>3
<1>5. (used + (InodeRefs - 1)) % InodeRefs = used - 1
  BY <1>4, DirectFinite, ModOnce
<1> QED
  BY <1>2, <1>4, <1>5 DEF Counts, new

\* What an operation on inode id owes when it replaces one entry i by e, where until a
\* count has wrapped i carries id or nothing and no other entry carries id: the
\* invariant, and that the other inodes have their entries as they were.
LEMMA InodeEntryReplaced ==
  ASSUME InodesInv, NEW id \in InodeIds, NEW i \in Entries, NEW e \in InodeEntry,
         inode_cache' = [inode_cache EXCEPT ![i] = e], e.inode_id \in {id, NONE},
         inode_wrapped' \in BOOLEAN, inode_wrapped => inode_wrapped',
         made' \subseteq Entries, \A j \in made' : j # i => j \in made,
         i \in made' => Counts(e.data),
         ~inode_wrapped' => (e.inode_id = id => e.ref_count > 0),
         ~inode_wrapped => /\ inode_cache[i].inode_id \in {id, NONE}
                           /\ \A j \in Entries : inode_cache[j].inode_id = id => j = i
  PROVE  InodesInv' /\ (~inode_wrapped => OneInodeStep)
<1>1. /\ inode_cache'[i] = e
      /\ \A j \in Entries : j # i => inode_cache'[j] = inode_cache[j]
      /\ inode_cache' \in [Entries -> InodeEntry]
  BY DEF InodesInv, InodesTypeOK, InodeEntry
<1>2. InodesTypeOK'
  BY <1>1 DEF InodesTypeOK, InodeEntry
<1>3. \A j \in made' : Counts(inode_cache'[j].data)
  BY <1>1 DEF InodesInv, MadeCounts
<1>4. ASSUME ~inode_wrapped'
      PROVE  OneInodeEach'
  BY <1>1, <1>4, InodesAssumption DEF InodesInv, OneInodeEach, NONE
<1>5. ASSUME ~inode_wrapped, NEW other \in InodeIds, other # id
      PROVE  SameInode(other)
  <2>1. inode_cache[i].inode_id # other /\ e.inode_id # other
    BY <1>5, InodesAssumption DEF NONE
  <2> QED
    BY <1>1, <2>1 DEF SameInode
<1> QED
  BY <1>2, <1>3, <1>4, <1>5 DEF InodesInv, MadeCounts, OneInodeStep

LEMMA InodesInitInv == InodesInit => InodesInv
<1> SUFFICES ASSUME InodesInit
             PROVE  InodesInv
  OBVIOUS
<1>1. \A i \in Entries : inode_cache[i] = [inode_id |-> NONE, ref_count |-> 0, data |-> Untouched]
  BY DEF InodesInit
<1>2. InodesTypeOK
  <2>1. 0 \in 0..(InodeRefs - 1)
    BY DirectFinite
  <2>2. [inode_id |-> NONE, ref_count |-> 0, data |-> Untouched] \in InodeEntry
    BY <2>1, UntouchedData DEF InodeEntry
  <2> QED
    BY <2>2 DEF InodesInit, InodesTypeOK, InodeEntry
<1> QED
  BY <1>1, <1>2 DEF InodesInit, InodesInv, OneInodeEach, MadeCounts

\* The entry inode_read returns, once it is loaded, in terms of the entry it was: it
\* carries the inode, alone unless a count has wrapped, and has the data it had.
LEMMA ReturnedFacts ==
  ASSUME InodesInv, NEW id \in InodeIds, NEW i \in Entries, Returned(i, id)
  PROVE  LET e == [inode_cache[i] EXCEPT !.inode_id = id, !.ref_count = (@ + 1) % InodeRefs]
         IN  /\ e \in InodeEntry /\ Loaded(i, id) = [inode_cache EXCEPT ![i] = e]
             /\ e.data = inode_cache[i].data /\ e.inode_id = id
             /\ WrappedBy(Loaded(i, id), i) \in BOOLEAN
             /\ inode_wrapped => WrappedBy(Loaded(i, id), i)
             /\ ~WrappedBy(Loaded(i, id), i) => e.ref_count > 0
             /\ ~inode_wrapped => /\ inode_cache[i].inode_id \in {id, NONE}
                                  /\ \A j \in Entries : inode_cache[j].inode_id = id => j = i
<1> DEFINE old == inode_cache[i]
           e == [old EXCEPT !.inode_id = id, !.ref_count = (old.ref_count + 1) % InodeRefs]
<1>1. old \in InodeEntry /\ DOMAIN inode_cache = Entries
  BY DEF InodesInv, InodesTypeOK, InodeEntry
<1>2. (old.ref_count + 1) % InodeRefs \in 0..(InodeRefs - 1)
  BY <1>1, DirectFinite, ModOnce DEF InodeEntry
<1>3. e \in InodeEntry /\ e.data = old.data /\ e.inode_id = id
  BY <1>1, <1>2 DEF InodeEntry
<1>4. Loaded(i, id) = [inode_cache EXCEPT ![i] = e]
  BY <1>1 DEF Loaded, InodeEntry
<1>5. Loaded(i, id)[i].ref_count = e.ref_count
  BY <1>1, <1>4
<1> HIDE DEF e
<1>6. /\ WrappedBy(Loaded(i, id), i) \in BOOLEAN
      /\ inode_wrapped => WrappedBy(Loaded(i, id), i)
      /\ ~WrappedBy(Loaded(i, id), i) => e.ref_count # 0
  BY <1>5, Zenon DEF WrappedBy, InodesInv, InodesTypeOK
<1>7. ASSUME ~inode_wrapped
      PROVE  /\ old.inode_id \in {id, NONE}
             /\ \A j \in Entries : inode_cache[j].inode_id = id => j = i
  <2>1. OneInodeEach /\ id # NONE
    BY <1>7, InodesAssumption DEF InodesInv, NONE
  <2>2. CASE Hits(id) = {}
    <3>1. old.ref_count = 0 /\ \A j \in Entries : inode_cache[j].inode_id # id
      BY <2>1, <2>2 DEF Returned, FirstEntry, Unreferred, Hits, EntriesOf, OneInodeEach
    <3> QED
      BY <2>1, <3>1 DEF OneInodeEach
  <2>3. CASE Hits(id) # {}
    <3>1. old.inode_id = id
      BY <2>3 DEF Returned, FirstEntry, Hits, EntriesOf
    <3> QED
      BY <2>1, <3>1 DEF OneInodeEach
  <2> QED
    BY <2>2, <2>3
<1>8. e.ref_count # 0 => e.ref_count > 0
  BY <1>3, DirectFinite DEF InodeEntry
<1> QED
  BY <1>3, <1>4, <1>6, <1>7, <1>8 DEF e

LEMMA InodeReadInv ==
  ASSUME InodesInv, NEW id \in InodeIds, InodeRead(id)
  PROVE  InodesInv' /\ (~inode_wrapped => OneInodeStep)
<1>1. PICK i \in Entries :
        /\ Returned(i, id)
        /\ inode_cache' = Loaded(i, id)
        /\ inode_wrapped' = WrappedBy(Loaded(i, id), i)
        /\ made' = made
  BY DEF InodeRead
<1> DEFINE e == [inode_cache[i] EXCEPT !.inode_id = id, !.ref_count = (@ + 1) % InodeRefs]
<1>2. /\ e \in InodeEntry /\ inode_cache' = [inode_cache EXCEPT ![i] = e]
      /\ e.data = inode_cache[i].data /\ e.inode_id = id
      /\ inode_wrapped' \in BOOLEAN
      /\ inode_wrapped => inode_wrapped'
      /\ ~inode_wrapped' => e.ref_count > 0
      /\ ~inode_wrapped => /\ inode_cache[i].inode_id \in {id, NONE}
                           /\ \A j \in Entries : inode_cache[j].inode_id = id => j = i
  <2>1. /\ e \in InodeEntry /\ Loaded(i, id) = [inode_cache EXCEPT ![i] = e]
        /\ e.data = inode_cache[i].data /\ e.inode_id = id
        /\ WrappedBy(Loaded(i, id), i) \in BOOLEAN
        /\ inode_wrapped => WrappedBy(Loaded(i, id), i)
        /\ ~WrappedBy(Loaded(i, id), i) => e.ref_count > 0
        /\ ~inode_wrapped => /\ inode_cache[i].inode_id \in {id, NONE}
                             /\ \A j \in Entries : inode_cache[j].inode_id = id => j = i
    BY <1>1, ReturnedFacts
  <2> HIDE DEF e
  <2> QED
    BY <1>1, <2>1
<1> HIDE DEF e
<1>3. made' \subseteq Entries /\ (i \in made' => Counts(e.data))
  BY <1>1, <1>2 DEF InodesInv, InodesTypeOK, MadeCounts
<1>4. /\ e.inode_id \in {id, NONE}
      /\ \A j \in made' : j # i => j \in made
      /\ inode_wrapped' \in BOOLEAN
      /\ inode_wrapped => inode_wrapped'
      /\ ~inode_wrapped' => (e.inode_id = id => e.ref_count > 0)
      /\ ~inode_wrapped => /\ inode_cache[i].inode_id \in {id, NONE}
                           /\ \A j \in Entries : inode_cache[j].inode_id = id => j = i
  BY <1>1, <1>2
<1> QED
  BY <1>2, <1>3, <1>4, InodeEntryReplaced

LEMMA InodeWriteInv ==
  ASSUME InodesInv, NEW id \in InodeIds, InodeWrite(id)
  PROVE  InodesInv' /\ (~inode_wrapped => OneInodeStep)
<1>1. PICK i \in Entries :
        /\ FirstEntry(i, EntriesOf(id))
        /\ \/ /\ inode_cache' = [inode_cache EXCEPT ![i].data = Created]
              /\ made' = made \cup {i}
           \/ \E j \in Entries :
                /\ inode_cache' = [inode_cache EXCEPT ![i].data = inode_cache[j].data]
                /\ made' = IF j \in made THEN made \cup {i} ELSE made \ {i}
  BY DEF InodeWrite
<1>2. PICK d \in InodeData :
        /\ inode_cache' = [inode_cache EXCEPT ![i].data = d]
        /\ made' \subseteq Entries /\ \A j \in made' : j # i => j \in made
        /\ i \in made' => Counts(d)
  <2>1. CASE inode_cache' = [inode_cache EXCEPT ![i].data = Created] /\ made' = made \cup {i}
    BY <2>1, CreatedCounts DEF InodesInv, InodesTypeOK
  <2>2. ASSUME NEW j \in Entries,
               inode_cache' = [inode_cache EXCEPT ![i].data = inode_cache[j].data],
               made' = IF j \in made THEN made \cup {i} ELSE made \ {i}
        PROVE  \E d \in InodeData :
                 /\ inode_cache' = [inode_cache EXCEPT ![i].data = d]
                 /\ made' \subseteq Entries /\ \A k \in made' : k # i => k \in made
                 /\ i \in made' => Counts(d)
    <3>1. inode_cache[j].data \in InodeData /\ (j \in made => Counts(inode_cache[j].data))
      BY DEF InodesInv, InodesTypeOK, MadeCounts
    <3> QED
      BY <2>2, <3>1 DEF InodesInv, InodesTypeOK
  <2> QED
    BY <1>1, <2>1, <2>2
<1> DEFINE e == [inode_cache[i] EXCEPT !.data = d]
<1>3. /\ e \in InodeEntry /\ e.data = d
      /\ e.inode_id = inode_cache[i].inode_id /\ e.ref_count = inode_cache[i].ref_count
  BY DEF InodesInv, InodesTypeOK, InodeEntry
<1>4. inode_cache' = [inode_cache EXCEPT ![i] = e]
  BY <1>2
<1>5. inode_wrapped' = inode_wrapped /\ inode_wrapped \in BOOLEAN
  BY DEF InodeWrite, InodesInv, InodesTypeOK
<1>6. inode_cache[i].inode_id = id /\ id # NONE
  BY <1>1, InodesAssumption DEF FirstEntry, EntriesOf, NONE
<1>7. ~inode_wrapped => /\ e.ref_count > 0
                        /\ \A j \in Entries : inode_cache[j].inode_id = id => j = i
  BY <1>3, <1>6 DEF InodesInv, OneInodeEach
<1> HIDE DEF e
<1>8. /\ e.inode_id \in {id, NONE}
      /\ \A j \in made' : j # i => j \in made
      /\ inode_wrapped' \in BOOLEAN
      /\ inode_wrapped => inode_wrapped'
      /\ ~inode_wrapped' => (e.inode_id = id => e.ref_count > 0)
      /\ ~inode_wrapped => /\ inode_cache[i].inode_id \in {id, NONE}
                           /\ \A j \in Entries : inode_cache[j].inode_id = id => j = i
  BY <1>2, <1>3, <1>5, <1>6, <1>7
<1> QED
  BY <1>2, <1>3, <1>4, <1>8, InodeEntryReplaced

LEMMA InodeDeleteInv ==
  ASSUME InodesInv, NEW id \in InodeIds, InodeDelete(id)
  PROVE  InodesInv' /\ (~inode_wrapped => OneInodeStep)
<1>1. PICK i \in Entries :
        /\ FirstEntry(i, EntriesOf(id))
        /\ inode_cache' = [inode_cache EXCEPT ![i].inode_id = NONE, ![i].ref_count = 0]
  BY DEF InodeDelete
<1> DEFINE e == [inode_cache[i] EXCEPT !.inode_id = NONE, !.ref_count = 0]
<1>2. inode_cache[i] \in InodeEntry /\ DOMAIN inode_cache = Entries
  BY DEF InodesInv, InodesTypeOK, InodeEntry
<1>3. e \in InodeEntry /\ e.data = inode_cache[i].data /\ e.inode_id = NONE
  <2>1. 0 \in 0..(InodeRefs - 1)
    BY DirectFinite
  <2> QED
    BY <1>2, <2>1 DEF InodeEntry
<1>4. inode_cache' = [inode_cache EXCEPT ![i] = e]
  BY <1>1, <1>2 DEF InodeEntry
<1>5. inode_wrapped' = inode_wrapped /\ inode_wrapped \in BOOLEAN /\ made' = made
  BY DEF InodeDelete, InodesInv, InodesTypeOK
<1>6. inode_cache[i].inode_id = id /\ id # NONE
  BY <1>1, InodesAssumption DEF FirstEntry, EntriesOf, NONE
<1>7. ~inode_wrapped => \A j \in Entries : inode_cache[j].inode_id = id => j = i
  BY <1>6 DEF InodesInv, OneInodeEach
<1> HIDE DEF e
<1>8. made' \subseteq Entries /\ (i \in made' => Counts(e.data))
  BY <1>3, <1>5 DEF InodesInv, InodesTypeOK, MadeCounts
<1> QED
  BY <1>3, <1>4, <1>5, <1>6, <1>7, <1>8, InodeEntryReplaced

\* inode_add_block and inode_remove_block alike: a read, then one place of the data,
\* which keeps the count unless it is the free mark that replaces itself.
LEMMA InodeChangeInv ==
  ASSUME InodesInv, NEW id \in InodeIds, NEW from \in BlockNums, NEW to \in BlockNums,
         NEW change \in 0..(InodeRefs - 1), InodeChange(id, from, to, change),
         from # to => \A data \in InodeData, k \in Direct :
                        Counts(data) /\ data.direct_blocks[k] = from =>
                          Counts(Replaced(data, k, to, change))
  PROVE  InodesInv' /\ (~inode_wrapped => OneInodeStep)
<1>1. PICK i \in Entries :
        /\ Returned(i, id)
        /\ inode_wrapped' = WrappedBy(Loaded(i, id), i)
        /\ \/ inode_cache' = Loaded(i, id) /\ made' = made
           \/ \E k \in Direct :
                /\ FirstEntry(k, Places(inode_cache[i].data, from))
                /\ inode_cache' = [Loaded(i, id) EXCEPT ![i].data = Replaced(@, k, to, change)]
                /\ made' = IF from = to THEN made \ {i} ELSE made
  BY DEF InodeChange
<1> DEFINE e == [inode_cache[i] EXCEPT !.inode_id = id, !.ref_count = (@ + 1) % InodeRefs]
<1>2. /\ e \in InodeEntry /\ Loaded(i, id) = [inode_cache EXCEPT ![i] = e]
      /\ e.data = inode_cache[i].data /\ e.inode_id = id
      /\ inode_wrapped' \in BOOLEAN
      /\ inode_wrapped => inode_wrapped'
      /\ ~inode_wrapped' => e.ref_count > 0
      /\ ~inode_wrapped => /\ inode_cache[i].inode_id \in {id, NONE}
                           /\ \A j \in Entries : inode_cache[j].inode_id = id => j = i
  <2>1. /\ e \in InodeEntry /\ Loaded(i, id) = [inode_cache EXCEPT ![i] = e]
        /\ e.data = inode_cache[i].data /\ e.inode_id = id
        /\ WrappedBy(Loaded(i, id), i) \in BOOLEAN
        /\ inode_wrapped => WrappedBy(Loaded(i, id), i)
        /\ ~WrappedBy(Loaded(i, id), i) => e.ref_count > 0
        /\ ~inode_wrapped => /\ inode_cache[i].inode_id \in {id, NONE}
                             /\ \A j \in Entries : inode_cache[j].inode_id = id => j = i
    BY <1>1, ReturnedFacts
  <2> HIDE DEF e
  <2> QED
    BY <1>1, <2>1
<1>3. /\ inode_cache[i].data \in InodeData /\ DOMAIN inode_cache = Entries
      /\ made \subseteq Entries /\ (i \in made => Counts(inode_cache[i].data))
  BY DEF InodesInv, InodesTypeOK, MadeCounts
<1> HIDE DEF e
<1>4. CASE inode_cache' = Loaded(i, id) /\ made' = made
  <2>1. /\ e.inode_id \in {id, NONE}
        /\ \A j \in made' : j # i => j \in made
        /\ inode_wrapped' \in BOOLEAN
        /\ inode_wrapped => inode_wrapped'
        /\ ~inode_wrapped' => (e.inode_id = id => e.ref_count > 0)
        /\ ~inode_wrapped => /\ inode_cache[i].inode_id \in {id, NONE}
                             /\ \A j \in Entries : inode_cache[j].inode_id = id => j = i
    BY <1>2, <1>4
  <2>2. inode_cache' = [inode_cache EXCEPT ![i] = e] /\ made' \subseteq Entries
        /\ (i \in made' => Counts(e.data))
    BY <1>2, <1>3, <1>4
  <2> QED
    BY <1>2, <2>1, <2>2, InodeEntryReplaced
<1>5. ASSUME NEW k \in Direct,
             FirstEntry(k, Places(inode_cache[i].data, from)),
             inode_cache' = [Loaded(i, id) EXCEPT ![i].data = Replaced(@, k, to, change)],
             made' = IF from = to THEN made \ {i} ELSE made
      PROVE  InodesInv' /\ (~inode_wrapped => OneInodeStep)
  <2> DEFINE data == Replaced(e.data, k, to, change)
             new == [e EXCEPT !.data = data]
  <2>1. data \in InodeData /\ (i \in made' => Counts(data))
    <3>1. e.data.direct_blocks[k] = from
      BY <1>2, <1>5 DEF FirstEntry, Places
    <3>2. data \in InodeData
      BY <1>2, <1>3, ReplacedData
    <3>3. i \in made' => from # to /\ Counts(e.data)
      BY <1>2, <1>3, <1>5
    <3> QED
      BY <1>2, <1>3, <3>1, <3>2, <3>3
  <2>2. inode_cache' = [inode_cache EXCEPT ![i] = new]
    BY <1>2, <1>3, <1>5
  <2> HIDE DEF data
  <2>3. /\ new \in InodeEntry /\ new.data = data
        /\ new.inode_id = e.inode_id /\ new.ref_count = e.ref_count
    BY <1>2, <2>1 DEF InodeEntry
  <2> HIDE DEF new
  <2>4. made' \subseteq Entries /\ \A j \in made' : j # i => j \in made
    BY <1>3, <1>5
  <2> QED
    BY <1>2, <2>1, <2>2, <2>3, <2>4, InodeEntryReplaced
<1> QED
  BY <1>1, <1>4, <1>5

LEMMA InodesStep ==
  InodesInv /\ [InodesNext]_inodeVars => InodesInv' /\ [~inode_wrapped => OneInodeStep]_inodeVars
<1> SUFFICES ASSUME InodesInv, [InodesNext]_inodeVars
             PROVE  InodesInv' /\ [~inode_wrapped => OneInodeStep]_inodeVars
  OBVIOUS
<1>0. /\ NONE \in BlockNums /\ 1 \in 0..(InodeRefs - 1) /\ InodeRefs - 1 \in 0..(InodeRefs - 1)
      /\ 1 # InodeRefs
  BY InodesAssumption DEF NONE
<1>1. ASSUME NEW id \in InodeIds, NEW b \in BlockNums, InodeAddBlock(id, b)
      PROVE  InodesInv' /\ (~inode_wrapped => OneInodeStep)
  BY <1>0, <1>1, AddCounts, InodeChangeInv DEF InodeAddBlock
<1>2. ASSUME NEW id \in InodeIds, NEW b \in BlockNums, InodeRemoveBlock(id, b)
      PROVE  InodesInv' /\ (~inode_wrapped => OneInodeStep)
  BY <1>0, <1>2, RemoveCounts, InodeChangeInv DEF InodeRemoveBlock
<1>3. CASE InodesNext
  BY <1>1, <1>2, <1>3, InodeReadInv, InodeWriteInv, InodeDeleteInv DEF InodesNext
<1>4. CASE UNCHANGED inodeVars
  BY <1>4 DEF inodeVars, InodesInv, InodesTypeOK, OneInodeEach, MadeCounts, Counts, Used
<1> QED
  BY <1>3, <1>4

\* For every size of the cache and of the direct blocks, and whatever numbers callers
\* pass: until a count has wrapped an inode is in one entry and a call touches no other
\* inode's, and block_count goes with the direct blocks in all data that stems from
\* inode_create, but for that in which somebody adds or removes the free mark.
THEOREM InodesSafe == InodesSpec => []InodesTypeOK /\ InodesKept
<1>1. InodesInit => InodesInv
  BY InodesInitInv
<1>2. InodesInv /\ [InodesNext]_inodeVars => InodesInv'
  BY InodesStep
<1>3. InodesInv /\ [InodesNext]_inodeVars => [~inode_wrapped => OneInodeStep]_inodeVars
  BY InodesStep
<1>4. InodesInv => /\ InodesTypeOK
                   /\ (~inode_wrapped => OneInodeEach) /\ \A i \in made : Counts(inode_cache[i].data)
  BY DEF InodesInv, MadeCounts
<1> QED
  BY <1>1, <1>2, <1>3, <1>4, PTL DEF InodesSpec, InodesKept, OneInodeStep

-----------------------------------------------------------------------------
(* The parts together. *)

LibraryInv == PagesInv /\ FilesInv /\ WrittenInv /\ BlocksInv /\ InodesInv

libraryVars == <<pageVars, filesVars, blockVars, inodeVars>>

LEMMA LibraryStep ==
  LibraryInv /\ [LibraryNext]_libraryVars =>
    LibraryInv' /\ [~block_wrapped => BlockStep]_blockVars /\ [~inode_wrapped => OneInodeStep]_inodeVars
<1> SUFFICES ASSUME LibraryInv, [LibraryNext]_libraryVars
             PROVE  /\ LibraryInv'
                    /\ [~block_wrapped => BlockStep]_blockVars
                    /\ [~inode_wrapped => OneInodeStep]_inodeVars
  OBVIOUS
<1>1. /\ [PagesNext]_pageVars /\ [FilesNext]_filesVars
      /\ [BlocksNext]_blockVars /\ [InodesNext]_inodeVars
  BY DEF LibraryNext, libraryVars
<1> QED
  BY <1>1, PagesStep, FilesWrittenStep, BlocksStep, InodesStep DEF LibraryInv

\* Whichever of the parts is used, it keeps what it promises, and the others stay as
\* they were set up.
THEOREM LibrarySafe ==
  ASSUME PoolDistinct
  PROVE  LibrarySpec => /\ [](LibraryTypeOK /\ ListedOnce /\ DescriptorsOwned /\ ReadsBack)
                        /\ BlocksKept /\ InodesKept
<1>1. LibraryInit => LibraryInv
  BY PagesInitInv, FilesInitInv, WrittenInitInv, BlocksInitInv, InodesInitInv
  DEF LibraryInit, LibraryInv
<1>2. LibraryInv /\ [LibraryNext]_libraryVars => LibraryInv'
  BY LibraryStep
<1>3. LibraryInv /\ [LibraryNext]_libraryVars => [~block_wrapped => BlockStep]_blockVars
  BY LibraryStep
<1>4. LibraryInv /\ [LibraryNext]_libraryVars => [~inode_wrapped => OneInodeStep]_inodeVars
  BY LibraryStep
<1>5. LibraryInv => /\ LibraryTypeOK /\ ListedOnce /\ DescriptorsOwned /\ ReadsBack
                    /\ (~block_wrapped => OneEntryEach)
                    /\ (~inode_wrapped => OneInodeEach) /\ \A i \in made : Counts(inode_cache[i].data)
  BY ReadsWhatIsWritten
  DEF LibraryInv, LibraryTypeOK, PagesInv, FilesInv, BlocksInv, InodesInv, MadeCounts
<1> QED
  BY <1>1, <1>2, <1>3, <1>4, <1>5, PTL DEF LibrarySpec, libraryVars, BlocksKept, InodesKept, OneInodeStep
=============================================================================
