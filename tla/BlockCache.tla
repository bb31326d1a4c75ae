---------------------------- MODULE BlockCache -----------------------------
(***************************************************************************)
(* The cache of disk blocks of kernel/fs/block.c, and the storage it has   *)
(* behind it.                                                              *)
(*                                                                         *)
(* The kernel's memcpy is memcpy(From, To, Num) (lib.h) and block.c calls  *)
(* it with the destination first, so every copy goes the other way:        *)
(* block_read fills the cache from its caller's buffer, block_write its    *)
(* caller's buffer from the cache, and the flush the cache from storage.   *)
(***************************************************************************)
EXTENDS Naturals

CONSTANTS
  FS_MAX_BLOCKS,
  BLOCK_CACHE_SIZE,
  StorageBlocks,      \* blocks of storage: 16 in the code
  BlockRefs,          \* 2^32 in the code: ref_count is a uint32_t
  Contents            \* what a buffer can hold

ASSUME BlocksAssumption ==
  /\ FS_MAX_BLOCKS \in Nat /\ BLOCK_CACHE_SIZE \in Nat /\ StorageBlocks \in Nat
  /\ BlockRefs \in Nat /\ BlockRefs > 1

VARIABLES
  block_cache,
  block_storage,      \* the blocks of storage
  backed,             \* malloc gave the storage
  block_wrapped       \* ghost: a count of an entry wrapped to 0

blockVars == <<block_cache, block_storage, backed, block_wrapped>>

Blocks == 0..(FS_MAX_BLOCKS - 1)
StoredBlocks == 0..(StorageBlocks - 1)
BlockSlots == 0..(BLOCK_CACHE_SIZE - 1)
NoBlock == FS_MAX_BLOCKS               \* 0xFFFFFFFF
Zeros == "zeros"

NoEntry == [block_num |-> NoBlock, data |-> Zeros, dirty |-> 0, ref_count |-> 0]

BlocksInit ==
  /\ block_cache = [i \in BlockSlots |-> NoEntry]
  /\ block_storage = [b \in StoredBlocks |-> Zeros]
  /\ backed \in BOOLEAN
  /\ block_wrapped = FALSE

-----------------------------------------------------------------------------
Cached(b) == {i \in BlockSlots : block_cache[i].block_num = b}
Referred(b) == {i \in Cached(b) : block_cache[i].ref_count > 0}
CleanEntries == {i \in BlockSlots : block_cache[i].dirty = 0}     \* faulty: in use or not
EmptyEntries == {i \in BlockSlots : block_cache[i].ref_count = 0}

\* The entry a loop over the cache stops at.
FirstOf(i, S) == i \in S /\ \A j \in S : i <= j

OneMore(count) == (count + 1) % BlockRefs

\* block_read of a cached block: the contents c of the buffer go into the entry.
BlockReadHit(b, c) ==
  /\ \E i \in BlockSlots :
       /\ FirstOf(i, Referred(b))
       /\ block_cache' = [block_cache EXCEPT ![i].data = c, ![i].ref_count = OneMore(@)]
       /\ block_wrapped' = (block_wrapped \/ block_cache'[i].ref_count = 0)
  /\ UNCHANGED <<block_storage, backed>>

\* Not cached: what the entry held goes to the block's place in storage (past the end
\* of it for most blocks, over other memory), and then the buffer into the entry.
BlockReadMiss(b, c) ==
  /\ Referred(b) = {} /\ backed
  /\ \E i \in BlockSlots :
       /\ FirstOf(i, EmptyEntries)
       /\ block_storage' = [s \in StoredBlocks |-> IF s = b THEN block_cache[i].data ELSE block_storage[s]]
       /\ block_cache' = [block_cache EXCEPT ![i] =
                            [block_num |-> b, data |-> c, dirty |-> 0, ref_count |-> 1]]
  /\ UNCHANGED <<backed, block_wrapped>>

\* The entry's data goes to the caller.  Whatever its count, an entry that carries the
\* block is taken; there is none with a count of 0 but one that wrapped.
BlockWrite(b) ==
  /\ \E i \in BlockSlots :
       /\ FirstOf(i, IF Cached(b) # {} THEN Cached(b) ELSE EmptyEntries)
       /\ block_cache' = [block_cache EXCEPT ![i].block_num = b, ![i].dirty = 1,
                                             ![i].ref_count = OneMore(@)]
       /\ block_wrapped' = (block_wrapped \/ block_cache'[i].ref_count = 0)
  /\ UNCHANGED <<block_storage, backed>>

\* block_clear: the write gets the zeros it has prepared overwritten.
BlockClear(b) == BlockWrite(b)

BlockFree(b) ==
  /\ \E i \in BlockSlots :
       /\ FirstOf(i, Cached(b))
       /\ block_cache' = [block_cache EXCEPT ![i] = [NoEntry EXCEPT !.data = block_cache[i].data]]
  /\ UNCHANGED <<block_storage, backed, block_wrapped>>

\* block_cache_flush: a dirty entry gets what lies in its block's place, which past
\* the end of storage may be anything.
Lying(b) == IF b \in StoredBlocks THEN {block_storage[b]} ELSE Contents \cup {Zeros}

BlockCacheFlush ==
  /\ backed
  /\ \E f \in [BlockSlots -> Contents \cup {Zeros}] :
       /\ \A i \in BlockSlots :
            f[i] \in (IF block_cache[i].dirty = 1 THEN Lying(block_cache[i].block_num)
                                                  ELSE {block_cache[i].data})
       /\ block_cache' = [i \in BlockSlots |-> [block_cache[i] EXCEPT !.data = f[i], !.dirty = 0]]
  /\ UNCHANGED <<block_storage, backed, block_wrapped>>

BlocksNext ==
  \/ \E b \in Blocks :
       \/ \E c \in Contents : BlockReadHit(b, c) \/ BlockReadMiss(b, c)
       \/ BlockWrite(b)
       \/ BlockClear(b)
       \/ BlockFree(b)
  \/ BlockCacheFlush

BlocksSpec == BlocksInit /\ [][BlocksNext]_blockVars

-----------------------------------------------------------------------------
\* An entry without a block is not counted and not dirty.
BlocksTypeOK ==
  /\ block_cache \in [BlockSlots -> [block_num : Blocks \cup {NoBlock}, data : Contents \cup {Zeros},
                                     dirty : {0, 1}, ref_count : 0..(BlockRefs - 1)]]
  /\ block_storage \in [StoredBlocks -> Contents \cup {Zeros}]
  /\ backed \in BOOLEAN
  /\ block_wrapped \in BOOLEAN
  /\ \A i \in BlockSlots :
       block_cache[i].block_num = NoBlock => block_cache[i].ref_count = 0 /\ block_cache[i].dirty = 0

\* A block is in one entry at most, and an entry that carries a block is counted.
OneEntryEach ==
  /\ \A i, j \in BlockSlots :
       block_cache[i].block_num = block_cache[j].block_num /\ block_cache[i].block_num # NoBlock
         => i = j
  /\ \A i \in BlockSlots : block_cache[i].block_num # NoBlock => block_cache[i].ref_count > 0

\* A step leaves block a alone: the entry it has, what is in it, and its place in storage.
SameBlock(a) ==
  /\ \A i \in BlockSlots :
       a \in {block_cache[i].block_num, block_cache'[i].block_num} => block_cache'[i] = block_cache[i]
  /\ a \in StoredBlocks => block_storage'[a] = block_storage[a]

\* A cached block stays in its entry, whatever other blocks come, until it is freed
\* itself; and all but the flush touch the entry and the storage of one block only.
BlockStep ==
  /\ \A b \in Blocks : BlockFree(b) \/ \A i \in Cached(b) : block_cache'[i].block_num = b
  /\ BlockCacheFlush \/ \E b \in Blocks : \A a \in Blocks \ {b} : SameBlock(a)

\* As long as no count has wrapped, a block is in one counted entry at most, reads and
\* writes never make room for theirs (a full cache fails new blocks), and a call for one
\* block leaves the entries, the data and the storage of the others as they were.
\* Which way the bytes of the block itself go is no part of this.
BlocksKept ==
  /\ [](~block_wrapped => OneEntryEach)
  /\ [][~block_wrapped => BlockStep]_blockVars
=============================================================================
