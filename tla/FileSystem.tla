---------------------------- MODULE FileSystem -----------------------------
(***************************************************************************)
(* The files of kernel/fs/fs.c: the table of inodes, each with its data in *)
(* one block of the heap, and the table of open files.                     *)
(*                                                                         *)
(* Left out, for nothing reads them: an inode's type, permissions and      *)
(* links (a directory is an inode like a file), a descriptor's mode and    *)
(* offset (fs_seek sets it, fs_read and fs_write only add to it and start  *)
(* from byte 0), and the superblock's counts.  The model begins where      *)
(* fs_init has succeeded; fs_delete_file and fs_list_dir do nothing.       *)
(***************************************************************************)
EXTENDS Integers

CONSTANTS
  FS_MAX_INODES,
  FS_MAX_OPEN_FILES,
  FdRefs,            \* 2^32 in the code: a descriptor's ref_count is a uint32_t
  Data,              \* what files are filled with
  MaxSize,           \* bound on the bytes of one write
  MaxFd              \* bound on the descriptors given out

ASSUME FilesAssumption ==
  /\ FS_MAX_INODES \in Nat /\ FS_MAX_INODES > 2
  /\ FS_MAX_OPEN_FILES \in Nat
  /\ FdRefs \in Nat /\ FdRefs > 1
  /\ MaxSize \in Nat /\ MaxFd \in Nat

VARIABLES
  inode_table,
  last_created_inode,
  open_files,
  next_fd,
  held,         \* ghost: the descriptors callers hold, and the inode each was opened on
  written,      \* ghost: what each inode was last given, since it was last created
  overrun       \* ghost: a write went past the storage of its file

filesVars == <<inode_table, last_created_inode, open_files, next_fd, held, written, overrun>>

Inodes == 0..(FS_MAX_INODES - 1)
Slots == 0..(FS_MAX_OPEN_FILES - 1)
NO_INODE == -1                    \* 0xFFFFFFFF
Nothing == "nothing"

\* room is how many bytes were asked for when data was allocated; 0 while data is NULL.
UnusedInode == [inode_id |-> 0, size |-> 0, room |-> 0, data |-> Nothing]
UnusedSlot == [fd |-> 0, inode_id |-> 0, ref_count |-> 0]

FilesInit ==
  /\ inode_table = [i \in Inodes |-> UnusedInode]
  /\ last_created_inode = NO_INODE
  /\ open_files = [i \in Slots |-> UnusedSlot]
  /\ next_fd = 1
  /\ held = [fd \in {} |-> 0]
  /\ written = [i \in Inodes |-> [size |-> 0, data |-> Nothing]]
  /\ overrun = FALSE

-----------------------------------------------------------------------------
\* fs_alloc_inode: the first inode that is not taken; inode 0 is the root.
FirstInode(i) ==
  /\ i > 0 /\ inode_table[i].inode_id = 0
  /\ \A j \in 1..(i - 1) : inode_table[j].inode_id # 0

\* fs_create_file and fs_create_dir.  The inode may have been opened and written
\* before: fs_open does not ask whether it was created.
FsCreate ==
  /\ ~overrun
  /\ \E i \in Inodes :
       /\ FirstInode(i)
       /\ inode_table' = [inode_table EXCEPT ![i] = [UnusedInode EXCEPT !.inode_id = i]]
       /\ last_created_inode' = i
       /\ written' = [written EXCEPT ![i] = [size |-> 0, data |-> Nothing]]
  /\ UNCHANGED <<open_files, next_fd, held, overrun>>

\* The inode fs_open finds for a name.
Names == {"test.txt", "mydir", "any other"}
InodeOf(name) ==
  CASE name = "test.txt" -> 1
    [] name = "mydir" -> 2
    [] OTHER -> IF last_created_inode = NO_INODE THEN 1 ELSE last_created_inode

FirstSlot(i) ==
  /\ open_files[i].ref_count = 0
  /\ \A j \in 0..(i - 1) : open_files[j].ref_count # 0

Given(fd, inode) == [f \in DOMAIN held \cup {fd} |-> IF f = fd THEN inode ELSE held[f]]

AfterSame == next_fd       \* faulty: next_fd is not counted up
After == next_fd + 1

FsOpen(name) ==
  /\ next_fd <= MaxFd
  /\ \E i \in Slots :
       /\ FirstSlot(i)
       /\ open_files' = [open_files EXCEPT ![i] =
                           [fd |-> next_fd, inode_id |-> InodeOf(name), ref_count |-> 1]]
  /\ next_fd' = After
  /\ held' = Given(next_fd, InodeOf(name))
  /\ UNCHANGED <<inode_table, last_created_inode, written, overrun>>

\* The slot that fd names: the first that carries it, in use or not.  So 0, which is
\* no descriptor, names the first slot that is not in use.
Named(i, fd) ==
  /\ open_files[i].fd = fd
  /\ \A j \in 0..(i - 1) : open_files[j].fd # fd

Lowered(count) == (count + FdRefs - 1) % FdRefs

Released(slot) ==
  IF Lowered(slot.ref_count) = 0
    THEN UnusedSlot
    ELSE [slot EXCEPT !.ref_count = Lowered(slot.ref_count)]

FsClose(fd) ==
  /\ \E i \in Slots :
       /\ Named(i, fd)
       /\ open_files' = [open_files EXCEPT ![i] = Released(@)]
  /\ held' = [f \in DOMAIN held \ {fd} |-> held[f]]
  /\ UNCHANGED <<inode_table, last_created_inode, next_fd, written, overrun>>

\* What a write of n bytes makes of an inode.  The first one fixes its storage.
Allotted(inode, n) == IF inode.room = 0 THEN n + 1 ELSE inode.room
StoredKeepingSize(inode, n, d) ==   \* faulty: a shorter file keeps its length
  [inode EXCEPT !.room = Allotted(inode, n), !.size = IF n > @ THEN n ELSE @, !.data = d]
Stored(inode, n, d) == [inode EXCEPT !.room = Allotted(inode, n), !.size = n, !.data = d]

\* fs_write; when malloc fails it changes nothing.  A write past the storage changes
\* what follows in the heap, and no more is said of inodes then.
FsWrite(fd, n, d) ==
  /\ ~overrun
  /\ \E i \in Slots :
       /\ Named(i, fd)
       /\ LET inode_id == open_files[i].inode_id IN
            /\ inode_table' = [inode_table EXCEPT ![inode_id] = Stored(@, n, d)]
            /\ written' = [written EXCEPT ![inode_id] = [size |-> n, data |-> d]]
            /\ overrun' = (n + 1 > Allotted(inode_table[inode_id], n))
  /\ UNCHANGED <<last_created_inode, open_files, next_fd, held>>

\* fs_read of n bytes by way of slot i: how many, and of what.
FsRead(i, n) ==
  LET inode == inode_table[open_files[i].inode_id]
      read_size == IF n < inode.size THEN n ELSE inode.size
  IN  [size |-> read_size,
       data |-> IF inode.room > 0 /\ read_size > 0 THEN inode.data ELSE Nothing]

FilesNext ==
  \/ FsCreate
  \/ \E name \in Names : FsOpen(name)
  \/ \E fd \in 0..MaxFd :
       \/ FsClose(fd)
       \/ \E n \in 1..MaxSize, d \in Data : FsWrite(fd, n, d)

FilesSpec == FilesInit /\ [][FilesNext]_filesVars

-----------------------------------------------------------------------------
\* Counts are unsigned integers, and a file without storage is empty.
FilesTypeOK ==
  /\ inode_table \in [Inodes -> [inode_id : Inodes, size : 0..MaxSize, room : 0..(MaxSize + 1),
                                 data : Data \cup {Nothing}]]
  /\ \A i \in Inodes : inode_table[i].room = 0 => inode_table[i].size = 0
  /\ last_created_inode \in Inodes \cup {NO_INODE}
  /\ open_files \in [Slots -> [fd : 0..MaxFd, inode_id : Inodes, ref_count : 0..(FdRefs - 1)]]
  /\ next_fd \in 1..(MaxFd + 1)

\* Whatever is opened and closed, and though closing 0 hits a slot not in use: the
\* descriptor a caller holds names one slot, which is his alone and has the inode he
\* opened, until he closes it.  A slot nobody holds carries no descriptor.
DescriptorsOwned ==
  /\ \A fd \in DOMAIN held :
       \E i \in Slots :
         /\ open_files[i] = [fd |-> fd, inode_id |-> held[fd], ref_count |-> 1]
         /\ \A j \in Slots : open_files[j].fd = fd => j = i
  /\ \A i \in Slots : open_files[i].fd \in DOMAIN held \cup {0}

\* Through any descriptor a caller reads what was last written to the inode since it
\* was created, by whatever descriptor, up to its end; unless a write was longer than
\* the first one and went past the storage that had fixed.
ReadsBack ==
  ~overrun =>
    \A fd \in DOMAIN held, i \in Slots, n \in 1..MaxSize :
      Named(i, fd) =>
        LET last == written[held[fd]]
        IN  FsRead(i, n) = [size |-> IF n < last.size THEN n ELSE last.size, data |-> last.data]
=============================================================================
