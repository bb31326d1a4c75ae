---------------------------- MODULE InodeCache -----------------------------
(***************************************************************************)
(* The cache of inodes of kernel/fs/inode.c and the lists of blocks in     *)
(* them.  There is no disk behind it: an inode that is not cached gets an  *)
(* entry with the data it happens to hold.                                 *)
(*                                                                         *)
(* Of an inode's data only the direct blocks and their count are kept.  The *)
(* dirty mark is left out: the flush clears it and does no more, "In a     *)
(* real implementation, write to disk here".                               *)
(***************************************************************************)
EXTENDS Integers, FiniteSets

CONSTANTS
  InodeIds,           \* 0 to FS_MAX_INODES - 1
  INODE_CACHE_SIZE,
  InodeRefs,          \* 2^32 in the code: ref_count and block_count are uint32_t
  DirectBlocks,       \* entries of direct_blocks: 12 in the code
  BlockNums           \* the numbers callers pass to be added and removed: any uint32_t

ASSUME InodesAssumption ==
  /\ -1 \notin InodeIds /\ {0, -1} \subseteq BlockNums
  /\ INODE_CACHE_SIZE \in Nat /\ DirectBlocks \in Nat
  /\ InodeRefs \in Nat /\ InodeRefs > DirectBlocks /\ InodeRefs > 1

VARIABLES
  inode_cache,
  inode_wrapped,      \* ghost: a reference count wrapped to 0
  made                \* ghost: the entries whose data stems from inode_create and was
                      \* never changed by a call for the free mark

inodeVars == <<inode_cache, inode_wrapped, made>>

Entries == 0..(INODE_CACHE_SIZE - 1)
NONE == -1                \* 0xFFFFFFFF
Direct == 0..(DirectBlocks - 1)

\* The cache is static, so all 0; the init function sets the ids, not the data, and in
\* that every direct block is 0 and none is free.
Untouched == [block_count |-> 0, direct_blocks |-> [k \in Direct |-> 0]]

\* What inode_create returns, to be written into the cache.
Created == [block_count |-> 0, direct_blocks |-> [k \in Direct |-> NONE]]

InodesInit ==
  /\ inode_cache = [i \in Entries |-> [inode_id |-> NONE, ref_count |-> 0, data |-> Untouched]]
  /\ inode_wrapped = FALSE
  /\ made = {}

-----------------------------------------------------------------------------
EntriesOf(id) == {i \in Entries : inode_cache[i].inode_id = id}
Hits(id) == {i \in EntriesOf(id) : inode_cache[i].ref_count > 0}
Unreferred == {i \in Entries : inode_cache[i].ref_count = 0}

FirstEntry(i, S) == i \in S /\ \A j \in S : i <= j

\* inode_read returning entry i, and what it makes of the cache.
Returned(i, id) == FirstEntry(i, IF Hits(id) # {} THEN Hits(id) ELSE Unreferred)

Loaded(i, id) ==
  [inode_cache EXCEPT ![i].inode_id = id, ![i].ref_count = (@ + 1) % InodeRefs]

WrappedBy(cache, i) == inode_wrapped \/ cache[i].ref_count = 0

\* inode_read, and inode_lookup, which is the same.
InodeRead(id) ==
  \E i \in Entries :
    /\ Returned(i, id)
    /\ inode_cache' = Loaded(i, id)
    /\ inode_wrapped' = WrappedBy(Loaded(i, id), i)
    /\ UNCHANGED made

\* inode_write of a created inode, or of one the caller read.
InodeWrite(id) ==
  /\ \E i \in Entries :
       /\ FirstEntry(i, EntriesOf(id))
       /\ \/ /\ inode_cache' = [inode_cache EXCEPT ![i].data = Created]
             /\ made' = made \cup {i}
          \/ \E j \in Entries :
               /\ inode_cache' = [inode_cache EXCEPT ![i].data = inode_cache[j].data]
               /\ made' = IF j \in made THEN made \cup {i} ELSE made \ {i}
  /\ UNCHANGED inode_wrapped

InodeDelete(id) ==
  /\ \E i \in Entries :
       /\ FirstEntry(i, EntriesOf(id))
       /\ inode_cache' = [inode_cache EXCEPT ![i].inode_id = NONE, ![i].ref_count = 0]
  /\ UNCHANGED <<inode_wrapped, made>>

\* Direct block k gets another number, and the count of blocks goes with it.
ReplacedUncounted(data, k, to, change) == [data EXCEPT !.direct_blocks[k] = to]     \* faulty
Replaced(data, k, to, change) ==
  [data EXCEPT !.direct_blocks[k] = to, !.block_count = (@ + change) % InodeRefs]

Places(data, number) == {k \in Direct : data.direct_blocks[k] = number}

\* The first direct block with one number gets another; without one nothing changes.
\* The inode is read first, which counts a reference in either case.  For the free mark
\* itself, which the callers may pass, a free place stays free and only the count changes.
InodeChange(id, from, to, change) ==
  \E i \in Entries :
    /\ Returned(i, id)
    /\ inode_wrapped' = WrappedBy(Loaded(i, id), i)
    /\ \/ /\ Places(inode_cache[i].data, from) = {}
          /\ inode_cache' = Loaded(i, id)
          /\ UNCHANGED made
       \/ \E k \in Direct :
            /\ FirstEntry(k, Places(inode_cache[i].data, from))
            /\ inode_cache' = [Loaded(i, id) EXCEPT ![i].data = Replaced(@, k, to, change)]
            /\ made' = IF from = to THEN made \ {i} ELSE made

InodeAddBlock(id, block_num) == InodeChange(id, NONE, block_num, 1)
InodeRemoveBlock(id, block_num) == InodeChange(id, block_num, NONE, InodeRefs - 1)

InodesNext ==
  \E id \in InodeIds :
    \/ InodeRead(id)
    \/ InodeWrite(id)
    \/ InodeDelete(id)
    \/ \E b \in BlockNums : InodeAddBlock(id, b) \/ InodeRemoveBlock(id, b)

InodesSpec == InodesInit /\ [][InodesNext]_inodeVars

-----------------------------------------------------------------------------
InodeData == [block_count : 0..(InodeRefs - 1), direct_blocks : [Direct -> BlockNums]]

\* Counts are unsigned integers; direct blocks are any numbers, the free mark among them.
InodesTypeOK ==
  /\ inode_cache \in [Entries -> [inode_id : InodeIds \cup {NONE}, ref_count : 0..(InodeRefs - 1),
                                  data : InodeData]]
  /\ inode_wrapped \in BOOLEAN
  /\ made \subseteq Entries

\* The direct blocks that are not free are as many as the count says.
Used(data) == {k \in Direct : data.direct_blocks[k] # NONE}
Counts(data) == data.block_count = Cardinality(Used(data))

\* An inode is in one entry at most, and an entry that carries an inode is referred to.
OneInodeEach ==
  /\ \A i, j \in Entries :
       inode_cache[i].inode_id = inode_cache[j].inode_id /\ inode_cache[i].inode_id # NONE => i = j
  /\ \A i \in Entries : inode_cache[i].inode_id # NONE => inode_cache[i].ref_count > 0

\* A step leaves an inode alone: the entry it has and what is in it.
SameInode(id) ==
  \A i \in Entries :
    id \in {inode_cache[i].inode_id, inode_cache'[i].inode_id} => inode_cache'[i] = inode_cache[i]

\* As long as no count has wrapped, an inode is in one entry at most, so that all who
\* read it get the same data, and a call for one inode leaves the others where and as
\* they are.  And through whatever additions, removals, copies, deletions and reads into
\* an entry with another's data, block_count is the number of direct blocks in use, in
\* all data that stems from inode_create.  Two cases it leaves out because the count is
\* wrong in them: what a static entry starts with, and data for which the free mark was
\* added or removed, which inode.c does not refuse.
InodesKept ==
  /\ [](/\ ~inode_wrapped => OneInodeEach
        /\ \A i \in made : Counts(inode_cache[i].data))
  /\ [][~inode_wrapped => \E id \in InodeIds : \A other \in InodeIds \ {id} : SameInode(other)]_inodeVars
=============================================================================
