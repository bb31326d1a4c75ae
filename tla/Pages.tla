------------------------------- MODULE Pages -------------------------------
(***************************************************************************)
(* The page list of kernel/memory.c: the 2 MB pages init_page chained, the *)
(* list alloc_page pops and free_page pushes, and each page's ref_count.   *)
(*                                                                         *)
(* A page is named by its (virtual) start address, so NULL, which is 0, is *)
(* never a page: Phy_To_Virt adds PAGE_OFFSET (memory.h).                  *)
(***************************************************************************)
EXTENDS Naturals, Sequences

CONSTANTS
  PageSize,    \* PAGE_2M_SIZE
  Pool,        \* the pages, in the order init_page chained them
  RefModulus   \* 2^32 in the code: ref_count is an unsigned int

ASSUME PageSizeAssumption == PageSize \in Nat /\ PageSize > 256 - 8 /\ PageSize % 8 = 0
ASSUME RefModulusAssumption == RefModulus \in Nat /\ RefModulus > 1
ASSUME PoolAssumption ==
  /\ Pool \in Seq(Nat)
  /\ \A i \in 1..Len(Pool) : Pool[i] > 0 /\ Pool[i] % 8 = 0

VARIABLES
  free_pages_list,   \* the list, as the sequence of its pages from its head
  total_free_pages,
  ref_count          \* page -> ref_count

pageVars == <<free_pages_list, total_free_pages, ref_count>>

\* The e820 regions do not overlap, so no page is chained twice.
PoolDistinct == \A i, j \in 1..Len(Pool) : Pool[i] = Pool[j] => i = j

PageAddrs == {Pool[i] : i \in 1..Len(Pool)}

\* The pages of a list, and where a page ends.
Listed(list) == {list[i] : i \in 1..Len(list)}
PageEnd(p) == p + PageSize

\* What init_page leaves: every page chained once, none referenced.
PagesInit ==
  /\ free_pages_list = Pool
  /\ total_free_pages = Len(Pool)
  /\ ref_count = [p \in PageAddrs |-> 0]

-----------------------------------------------------------------------------
\* alloc_page() returning page p; it returns NULL when NoPages.
NoPages == free_pages_list = <<>>

\* Faulty variants: the count of free pages, or the page's reference, is forgotten.
AllocPageUncounted(p) ==
  /\ ~NoPages
  /\ p = Head(free_pages_list)
  /\ free_pages_list' = Tail(free_pages_list)
  /\ ref_count' = [ref_count EXCEPT ![p] = 1]
  /\ UNCHANGED total_free_pages

AllocPageUnreferenced(p) ==
  /\ ~NoPages
  /\ p = Head(free_pages_list)
  /\ free_pages_list' = Tail(free_pages_list)
  /\ total_free_pages' = total_free_pages - 1
  /\ UNCHANGED ref_count

AllocPage(p) ==
  /\ ~NoPages
  /\ p = Head(free_pages_list)
  /\ free_pages_list' = Tail(free_pages_list)
  /\ total_free_pages' = total_free_pages - 1
  /\ ref_count' = [ref_count EXCEPT ![p] = 1]

\* free_page(p): the decrement is unsigned, so "<= 0" is "= 0" and a page at
\* 0 wraps to the largest count.
Dropped(c) == (c + RefModulus - 1) % RefModulus

FreePage(p) ==
  /\ ref_count' = [ref_count EXCEPT ![p] = Dropped(@)]
  /\ IF ref_count'[p] = 0
       THEN /\ free_pages_list' = <<p>> \o free_pages_list
            /\ total_free_pages' = total_free_pages + 1
       ELSE UNCHANGED <<free_pages_list, total_free_pages>>

-----------------------------------------------------------------------------
\* Callers that free a page only while they hold it.  Nothing raises ref_count
\* above the 1 that alloc_page sets.
PagesNext ==
  \E p \in PageAddrs :
    \/ AllocPage(p)
    \/ /\ ref_count[p] > 0
       /\ FreePage(p)

PagesSpec == PagesInit /\ [][PagesNext]_pageVars

-----------------------------------------------------------------------------
\* Every entry of the list is a page of the pool, total_free_pages is the length
\* of the list and each ref_count an unsigned int.
PageTypeOK ==
  /\ free_pages_list \in Seq(PageAddrs)
  /\ total_free_pages = Len(free_pages_list)
  /\ ref_count \in [PageAddrs -> 0..(RefModulus - 1)]

\* However pages are taken and given back, no page is on the list twice (so none
\* is handed to two callers), and none is both off the list and unreferenced (so
\* none is lost).
ListedOnce ==
  /\ \A i, j \in 1..Len(free_pages_list) :
       free_pages_list[i] = free_pages_list[j] => i = j
  /\ \A p \in PageAddrs : ref_count[p] = 0 <=> p \in Listed(free_pages_list)
=============================================================================
