-------------------------------- MODULE Heap --------------------------------
(***************************************************************************)
(* malloc and free of kernel/memory.c over the page list of Pages.         *)
(*                                                                         *)
(* The block list is the function hdr: its domain is the set of addresses  *)
(* that hold a header reachable from malloc_head, and hdr[b] is the header *)
(* at b.  A header that a merge absorbs leaves the domain: its bytes are   *)
(* payload of the merged block from then on.                               *)
(*                                                                         *)
(* malloc and free are loops over this list.  Each iteration is a step,    *)
(* with pc saying which loop runs and current/prev the code's cursors.     *)
(* The kernel calls both from one thread of control at a time and no       *)
(* interrupt handler calls either, so a call runs to its end before the    *)
(* next begins (pc = "idle" in between).                                   *)
(*                                                                         *)
(* The counters malloc_total_allocated and malloc_total_freed, which only  *)
(* a debug line reads, are left out.                                       *)
(***************************************************************************)
EXTENDS Pages

CONSTANT Requests    \* the sizes callers ask for, in bytes

ASSUME RequestsAssumption == Requests \subseteq Nat

NULL == 0
HDR == 24            \* sizeof(struct malloc_header)

VARIABLES
  hdr,           \* address of a block's header -> the header
  malloc_head,
  pc,            \* "idle", "walk" (malloc's search) or "merge" (free's loop)
  current, prev, \* the loops' cursors
  req,           \* malloc's argument while it searches
  live           \* ghost: block -> bytes its owner asked for and may use

heapVars == <<hdr, malloc_head, pc, current, prev, req, live>>
vars == <<pageVars, heapVars>>

Blocks == DOMAIN hdr
End(b) == b + HDR + hdr[b].size

\* malloc's own limit on a request, and the size it rounds one to.
MaxAllowed == PageSize - HDR - 128
Rounded(n) == ((n + 7) \div 8) * 8
Total(n) == Rounded(n) + HDR

FitsAnySize(b) == hdr[b].is_free   \* faulty: the sizes are not compared
Fits(b) == hdr[b].is_free /\ hdr[b].size >= Total(req)

\* The part of `size` bytes a split leaves behind, and the list `h` after block
\* c of it is split for a request of n bytes (or handed out whole).
SplitAtWithoutHeader(h, c, n) ==   \* faulty: the rest's own header is forgotten
  LET rest == c + Total(n) IN
  [x \in DOMAIN h \cup {rest} |->
     IF x = rest THEN [size |-> h[c].size - Rounded(n), next |-> h[c].next, is_free |-> TRUE]
     ELSE IF x = c THEN [size |-> Rounded(n), next |-> rest, is_free |-> FALSE]
     ELSE h[x]]

SplitAt(h, c, n) ==
  LET rest == c + Total(n) IN
  [x \in DOMAIN h \cup {rest} |->
     IF x = rest THEN [size |-> h[c].size - Total(n), next |-> h[c].next, is_free |-> TRUE]
     ELSE IF x = c THEN [size |-> Rounded(n), next |-> rest, is_free |-> FALSE]
     ELSE h[x]]

WorthSplitting(size, n) == size > Total(n) + HDR + 8

CarveLeavingFree(h, c, n) ==   \* faulty: a block handed out whole stays free
  IF WorthSplitting(h[c].size, n) THEN SplitAt(h, c, n) ELSE h

Carve(h, c, n) ==
  IF WorthSplitting(h[c].size, n)
    THEN SplitAt(h, c, n)
    ELSE [h EXCEPT ![c].is_free = FALSE]

\* The list h with page p appended as one block after its last block.
Fresh(isFree) == [size |-> PageSize - HDR, next |-> NULL, is_free |-> isFree]

Appended(h, last, p) ==
  [x \in DOMAIN h \cup {p} |->
     IF x = p THEN Fresh(FALSE)
     ELSE IF x = last THEN [h[x] EXCEPT !.next = p]
     ELSE h[x]]

-----------------------------------------------------------------------------
Init ==
  /\ PagesInit
  /\ hdr = [x \in {} |-> Fresh(TRUE)]
  /\ malloc_head = NULL
  /\ pc = "idle"
  /\ current = NULL
  /\ prev = NULL
  /\ req = 0
  /\ live = [x \in {} |-> 0]

\* The call returns: its locals are gone.
Return ==
  /\ pc' = "idle"
  /\ current' = NULL
  /\ prev' = NULL
  /\ req' = 0

StartWalk(n, head) ==
  /\ pc' = "walk"
  /\ current' = head
  /\ prev' = NULL
  /\ req' = n

(* malloc(n) up to its loop.  A request of 0 or over the limit, and a first *)
(* request that finds no page, return NULL and change nothing.              *)
Accepted(n) == n # 0 /\ n <= MaxAllowed

MallocFirst(n) ==
  /\ pc = "idle"
  /\ Accepted(n)
  /\ malloc_head = NULL
  /\ \E p \in PageAddrs :
       /\ AllocPage(p)
       /\ malloc_head' = p
       /\ hdr' = [x \in {p} |-> Fresh(TRUE)]
       /\ StartWalk(n, p)
  /\ UNCHANGED live

MallocStartAfterHead(n) ==   \* faulty: the search misses the first block
  /\ pc = "idle"
  /\ Accepted(n)
  /\ malloc_head # NULL
  /\ StartWalk(n, hdr[malloc_head].next)
  /\ UNCHANGED <<pageVars, hdr, malloc_head, live>>

MallocStart(n) ==
  /\ pc = "idle"
  /\ Accepted(n)
  /\ malloc_head # NULL
  /\ StartWalk(n, malloc_head)
  /\ UNCHANGED <<pageVars, hdr, malloc_head, live>>

\* One iteration of the search: the first block that fits is handed out.
Grant(b, n) == live' = [x \in DOMAIN live \cup {b} |-> IF x = b THEN n ELSE live[x]]

MallocTake ==
  /\ pc = "walk"
  /\ current # NULL
  /\ Fits(current)
  /\ hdr' = Carve(hdr, current, req)
  /\ Grant(current, req)
  /\ Return
  /\ UNCHANGED <<pageVars, malloc_head>>

MallocSkip ==
  /\ pc = "walk"
  /\ current # NULL
  /\ ~Fits(current)
  /\ prev' = current
  /\ current' = hdr[current].next
  /\ UNCHANGED <<pageVars, hdr, malloc_head, pc, req, live>>

\* Nothing fits: a new page is appended and carved, or malloc returns NULL.
MallocGrow ==
  /\ pc = "walk"
  /\ current = NULL
  /\ \E p \in PageAddrs :
       /\ AllocPage(p)
       /\ hdr' = Carve(Appended(hdr, prev, p), p, req)
       /\ Grant(p, req)
  /\ Return
  /\ UNCHANGED malloc_head

MallocFail ==
  /\ pc = "walk"
  /\ current = NULL
  /\ NoPages
  /\ Return
  /\ UNCHANGED <<pageVars, hdr, malloc_head, live>>

(* free(b + HDR) for a block its owner holds.  NULL and pointers outside    *)
(* the heap's range are ignored, and so is a header whose size is over a    *)
(* page: [heap_start, heap_end) is what init_page computed from the map.    *)
HeapStart == Pool[1]
HeapEnd == PageEnd(Pool[Len(Pool)])
FreeAccepts(b) ==
  /\ b + HDR >= HeapStart /\ b + HDR < HeapEnd
  /\ hdr[b].size <= PageSize

Disowned(b) == [x \in DOMAIN live \ {b} |-> live[x]]

Free(b) ==
  /\ pc = "idle"
  /\ b \in DOMAIN live
  /\ live' = Disowned(b)
  /\ IF FreeAccepts(b)
       THEN /\ hdr' = [hdr EXCEPT ![b].is_free = TRUE]
            /\ pc' = "merge"
            /\ current' = malloc_head
       ELSE UNCHANGED <<hdr, pc, current>>
  /\ UNCHANGED <<pageVars, malloc_head, prev, req>>

\* The coalescing loop: a free block absorbs its free successor in the list,
\* whatever lies between the two.
HasNext == current # NULL /\ hdr[current].next # NULL
BothFree == hdr[current].is_free /\ hdr[hdr[current].next].is_free

AbsorbedWithoutHeader(h, c) ==   \* faulty: the absorbed header's bytes are lost
  LET n == h[c].next IN
  [x \in DOMAIN h \ {n} |->
     IF x = c THEN [size |-> h[c].size + h[n].size, next |-> h[n].next, is_free |-> TRUE]
     ELSE h[x]]

Absorbed(h, c) ==
  LET n == h[c].next IN
  [x \in DOMAIN h \ {n} |->
     IF x = c THEN [size |-> h[c].size + HDR + h[n].size, next |-> h[n].next, is_free |-> TRUE]
     ELSE h[x]]

MergeAndMove ==   \* faulty: the cursor moves on after a merge too
  /\ pc = "merge"
  /\ HasNext
  /\ BothFree
  /\ hdr' = Absorbed(hdr, current)
  /\ current' = hdr'[current].next
  /\ UNCHANGED <<pageVars, malloc_head, pc, prev, req, live>>

Merge ==
  /\ pc = "merge"
  /\ HasNext
  /\ BothFree
  /\ hdr' = Absorbed(hdr, current)
  /\ UNCHANGED <<pageVars, malloc_head, pc, current, prev, req, live>>

MergeStays ==   \* faulty: the cursor stays at a block it cannot merge
  /\ pc = "merge"
  /\ HasNext
  /\ ~BothFree
  /\ UNCHANGED vars

MergeSkip ==
  /\ pc = "merge"
  /\ HasNext
  /\ ~BothFree
  /\ current' = hdr[current].next
  /\ UNCHANGED <<pageVars, hdr, malloc_head, pc, prev, req, live>>

MergeDone ==
  /\ pc = "merge"
  /\ ~HasNext
  /\ Return
  /\ UNCHANGED <<pageVars, hdr, malloc_head, live>>

Step == MallocTake \/ MallocSkip \/ MallocGrow \/ MallocFail \/ Merge \/ MergeSkip \/ MergeDone

Next ==
  \/ \E n \in Requests : MallocFirst(n) \/ MallocStart(n)
  \/ \E b \in DOMAIN live : Free(b)
  \/ Step

Spec == Init /\ [][Next]_vars

\* A call, once made, keeps running: nothing preempts kernel code.
FairSpec == Spec /\ WF_vars(Step)

-----------------------------------------------------------------------------
(* Properties. *)

\* The pages are chained in ascending order (the order of a sorted E820 map),
\* and leave no hole between them.
Ascending == \A i, j \in 1..Len(Pool) : i < j => PageEnd(Pool[i]) <= Pool[j]
Contiguous == \A i \in 1..Len(Pool) - 1 : Pool[i + 1] = PageEnd(Pool[i])

\* [lo, hi) lies in pages of the pool that follow one another without a hole.
InRam(lo, hi) ==
  \E i, j \in 1..Len(Pool) :
    /\ i <= j
    /\ Pool[i] <= lo /\ hi <= PageEnd(Pool[j])
    /\ \A k \in i..(j - 1) : Pool[k + 1] = PageEnd(Pool[k])

Header == [size : Nat, next : Nat, is_free : BOOLEAN]

TypeOK ==
  /\ PageTypeOK
  /\ Blocks \subseteq Nat \ {NULL}
  /\ hdr \in [Blocks -> Header]
  /\ malloc_head \in Blocks \cup {NULL}
  /\ pc \in {"idle", "walk", "merge"}
  /\ current \in Blocks \cup {NULL}
  /\ prev \in Blocks \cup {NULL}
  /\ req \in Nat
  /\ DOMAIN live \subseteq Blocks
  /\ live \in [DOMAIN live -> Nat]

\* No two blocks share a byte, at any moment of a split or a merge, and no block
\* reaches into a page that is still on the page list.
NoOverlap ==
  /\ \A a, b \in Blocks : a < b => End(a) <= b
  /\ \A b \in Blocks, p \in Listed(free_pages_list) : End(b) <= p

\* What an owner was given stays its own: its block is in the list, is not free
\* and is at least as large as it asked; and a block that is not free has an owner,
\* so a free is never lost (free ignores a pointer it thinks invalid).
OwnersKeepBlocks ==
  /\ \A b \in DOMAIN live : b \in Blocks /\ ~hdr[b].is_free /\ hdr[b].size >= live[b]
  /\ \A b \in Blocks : ~hdr[b].is_free => b \in DOMAIN live

\* Every byte an owner may use is memory (memory_test fills each block it gets).
LiveInRam == \A b \in DOMAIN live : InRam(b, b + HDR + live[b])

\* Between calls no two list neighbours are both free: one pass of the
\* loop in free is enough, wherever the freed block lies.
Coalesced ==
  pc = "idle" =>
    \A b \in Blocks : hdr[b].is_free /\ hdr[b].next # NULL => ~hdr[hdr[b].next].is_free

\* When the search gives up (and takes a page or returns NULL) no block fits.
SearchComplete == pc = "walk" /\ current = NULL => \A b \in Blocks : ~Fits(b)

\* Once every block is freed the heap is again one block from the first page to
\* the end of the last page taken: no byte is lost, however calls interleaved.
Taken == Len(Pool) - Len(free_pages_list)
AllFreedIsOneBlock ==
  (pc = "idle" /\ DOMAIN live = {} /\ malloc_head # NULL) =>
    /\ Blocks = {malloc_head}
    /\ malloc_head = Pool[1]
    /\ End(malloc_head) = PageEnd(Pool[Taken])

\* The heap implements the abstract allocator: each step hands out one region
\* that is nobody's, takes one back, or changes no owner's bytes.
Abstract ==
  INSTANCE AbstractHeap WITH
    Header_ <- HDR, Low <- HeapStart, High <- HeapEnd, Sizes_ <- Requests, owned <- live

ImplementsAbstract == Abstract!ASpec

\* Every call returns.
CallsReturn == pc # "idle" ~> pc = "idle"
=============================================================================
