----------------------------- MODULE HeapProofs -----------------------------
(***************************************************************************)
(* Proofs about Heap, for every page size, every pool of pages in          *)
(* ascending order and every set of requests.                              *)
(***************************************************************************)
EXTENDS Heap, TLAPS

\* The list is sorted by address: a block's next is its nearest successor.
ListOrder ==
  /\ \A b \in Blocks : hdr[b].next # NULL => hdr[b].next \in Blocks /\ b < hdr[b].next
  /\ \A a, b \in Blocks : a < b => hdr[a].next # NULL /\ hdr[a].next <= b
  /\ malloc_head # NULL => \A b \in Blocks : malloc_head <= b
  /\ malloc_head = NULL => Blocks = {}

\* The page list is the rest of the pool, and every block lies in the taken part.
PageList ==
  /\ Len(free_pages_list) <= Len(Pool)
  /\ \A i \in 1..Len(free_pages_list) : free_pages_list[i] = Pool[Taken + i]
  /\ malloc_head # NULL => Taken >= 1
  /\ malloc_head = NULL => Taken = 0
  /\ \A b \in Blocks : Pool[1] <= b /\ End(b) <= PageEnd(Pool[Taken])

Sizes ==
  \A b \in Blocks : hdr[b].size >= 8 /\ (~hdr[b].is_free => hdr[b].size <= PageSize)

\* What the loops have established behind their cursors.
Cursors ==
  /\ pc # "idle" => malloc_head # NULL
  /\ pc = "walk" =>
       /\ Accepted(req) /\ req \in Requests
       /\ current # NULL => \A b \in Blocks : b < current => ~Fits(b)
       /\ current = NULL => prev \in Blocks /\ hdr[prev].next = NULL /\ \A b \in Blocks : ~Fits(b)
  /\ pc = "merge" => current \in Blocks /\ prev = NULL
  /\ pc = "idle" => prev = NULL

NotBothFree(b) == hdr[b].is_free /\ hdr[b].next # NULL => ~hdr[hdr[b].next].is_free

Behind == \A b \in Blocks : (pc = "merge" => b < current) => NotBothFree(b)

\* In a pool without holes the blocks follow one another from the first page to
\* the end of the last page taken.
Tiling ==
  Contiguous =>
    /\ malloc_head # NULL => malloc_head = Pool[1]
    /\ \A b \in Blocks : hdr[b].next # NULL => hdr[b].next = End(b)
    /\ \A b \in Blocks : hdr[b].next = NULL => End(b) = PageEnd(Pool[Taken])

IInv ==
  /\ TypeOK
  /\ NoOverlap
  /\ ListOrder
  /\ PageList
  /\ Sizes
  /\ Cursors
  /\ Behind
  /\ OwnersKeepBlocks
  /\ Tiling

-----------------------------------------------------------------------------
LEMMA RoundedBounds ==
  ASSUME NEW n \in Nat
  PROVE  /\ Rounded(n) \in Nat
         /\ Rounded(n) >= n /\ Rounded(n) <= n + 7
         /\ n # 0 => Rounded(n) >= 8
  BY SMT DEF Rounded

LEMMA PoolElements ==
  ASSUME NEW i \in 1..Len(Pool)
  PROVE  Pool[i] \in Nat /\ Pool[i] > 0
  BY PoolAssumption

LEMMA InitIInv == Init => IInv
  BY PoolAssumption, RefModulusAssumption
  DEF Init, PagesInit, PageTypeOK, PageAddrs, IInv, TypeOK, NoOverlap, ListOrder, PageList, Sizes,
     Cursors, Behind, NotBothFree, OwnersKeepBlocks, Tiling, Blocks, Taken, Listed, Fresh, NULL

-----------------------------------------------------------------------------
(* Actions that leave the list alone. *)

LEMMA StartStep ==
  ASSUME IInv, NEW n \in Requests, MallocStart(n)
  PROVE  IInv'
<1>1. n \in Nat
  BY RequestsAssumption
<1>2. TypeOK'
  BY <1>1 DEF IInv, MallocStart, StartWalk, TypeOK, pageVars, Blocks, PageTypeOK
<1>3. (NoOverlap /\ ListOrder /\ PageList /\ Sizes /\ OwnersKeepBlocks /\ Tiling)'
  BY DEF IInv, MallocStart, StartWalk, NoOverlap, ListOrder, PageList, Sizes,
     OwnersKeepBlocks, Tiling, Blocks, End, Taken, pageVars
<1>4. Cursors'
  BY DEF IInv, MallocStart, StartWalk, TypeOK, ListOrder, Cursors, Blocks, Fits, NULL
<1>5. Behind'
  BY DEF IInv, MallocStart, StartWalk, Behind, NotBothFree, Blocks
<1> QED
  BY <1>2, <1>3, <1>4, <1>5 DEF IInv

LEMMA SkipStep ==
  ASSUME IInv, MallocSkip
  PROVE  IInv'
<1>1. TypeOK'
  BY DEF IInv, MallocSkip, TypeOK, ListOrder, pageVars, Blocks, PageTypeOK
<1>2. (NoOverlap /\ ListOrder /\ PageList /\ Sizes /\ OwnersKeepBlocks /\ Tiling)'
  BY DEF IInv, MallocSkip, NoOverlap, ListOrder, PageList, Sizes, OwnersKeepBlocks,
     Tiling, Blocks, End, Taken, pageVars
<1>3. Cursors'
  BY DEF IInv, MallocSkip, TypeOK, ListOrder, Cursors, Blocks, Fits, Header, NULL
<1>4. Behind'
  BY DEF IInv, MallocSkip, Behind, NotBothFree, Blocks
<1> QED
  BY <1>1, <1>2, <1>3, <1>4 DEF IInv

LEMMA FailStep ==
  ASSUME IInv, MallocFail
  PROVE  IInv'
<1>1. TypeOK'
  BY DEF IInv, MallocFail, Return, TypeOK, pageVars, Blocks, PageTypeOK, NULL
<1>2. (NoOverlap /\ ListOrder /\ PageList /\ Sizes /\ OwnersKeepBlocks /\ Tiling)'
  BY DEF IInv, MallocFail, Return, NoOverlap, ListOrder, PageList, Sizes, OwnersKeepBlocks,
     Tiling, Blocks, End, Taken, pageVars
<1>3. (Cursors /\ Behind)'
  BY DEF IInv, MallocFail, Return, Cursors, Behind, NotBothFree, Blocks
<1> QED
  BY <1>1, <1>2, <1>3 DEF IInv

LEMMA MergeSkipStep ==
  ASSUME IInv, MergeSkip
  PROVE  IInv'
<1>1. TypeOK'
  BY DEF IInv, MergeSkip, HasNext, TypeOK, ListOrder, pageVars, Blocks, PageTypeOK
<1>2. (NoOverlap /\ ListOrder /\ PageList /\ Sizes /\ OwnersKeepBlocks /\ Tiling)'
  BY DEF IInv, MergeSkip, NoOverlap, ListOrder, PageList, Sizes, OwnersKeepBlocks,
     Tiling, Blocks, End, Taken, pageVars
<1>3. Cursors'
  BY DEF IInv, MergeSkip, HasNext, ListOrder, Cursors, Blocks
<1>4. Behind'
  <2> SUFFICES ASSUME NEW b \in Blocks, b < hdr[current].next
               PROVE  NotBothFree(b)
    BY DEF MergeSkip, Behind, NotBothFree, Blocks
  <2>1. b \in Nat /\ current \in Nat /\ current \in Blocks
    BY DEF IInv, MergeSkip, TypeOK, Cursors, NULL
  <2>2. ~(current < b)
    BY <2>1 DEF IInv, MergeSkip, HasNext, TypeOK, ListOrder, Header
  <2>3. CASE b = current
    BY <2>3 DEF MergeSkip, BothFree, NotBothFree
  <2>4. CASE b < current
    BY <2>4 DEF IInv, Behind
  <2> QED
    BY <2>1, <2>2, <2>3, <2>4
<1> QED
  BY <1>1, <1>2, <1>3, <1>4 DEF IInv

LEMMA MergeDoneStep ==
  ASSUME IInv, MergeDone
  PROVE  IInv'
<1>1. TypeOK'
  BY DEF IInv, MergeDone, Return, TypeOK, pageVars, Blocks, PageTypeOK, NULL
<1>2. (NoOverlap /\ ListOrder /\ PageList /\ Sizes /\ OwnersKeepBlocks /\ Tiling)'
  BY DEF IInv, MergeDone, Return, NoOverlap, ListOrder, PageList, Sizes, OwnersKeepBlocks,
     Tiling, Blocks, End, Taken, pageVars
<1>3. Cursors'
  BY DEF MergeDone, Return, Cursors
<1>4. Behind'
  BY DEF IInv, MergeDone, Return, HasNext, TypeOK, ListOrder, Cursors, Behind,
     NotBothFree, Blocks, Header, NULL
<1> QED
  BY <1>1, <1>2, <1>3, <1>4 DEF IInv

-----------------------------------------------------------------------------
(* Handing out a block of the list. *)

LEMMA GrantStep ==
  ASSUME NEW b, NEW n \in Nat, live \in [DOMAIN live -> Nat], Grant(b, n)
  PROVE  /\ DOMAIN live' = DOMAIN live \cup {b}
         /\ live' \in [DOMAIN live' -> Nat]
         /\ live'[b] = n
         /\ \A x \in DOMAIN live \ {b} : live'[x] = live[x]
  BY DEF Grant

LEMMA ListedPages ==
  ASSUME NEW list \in Seq(PageAddrs), NEW p \in Listed(list)
  PROVE  p \in Nat /\ p > 0 /\ p \in PageAddrs
<1>1. p \in PageAddrs
  BY DEF Listed
<1> QED
  BY <1>1, PoolElements DEF PageAddrs

\* Once a block exists a page has been taken.
LEMMA TakenFacts ==
  ASSUME TypeOK, ListOrder, PageList, Blocks # {}
  PROVE  /\ Taken \in 1..Len(Pool) /\ Pool[Taken] \in Nat /\ Pool[1] \in Nat
         /\ PageEnd(Pool[Taken]) \in Nat
<1>1. Len(Pool) \in Nat /\ Len(free_pages_list) \in Nat
  BY PoolAssumption DEF TypeOK, PageTypeOK
<1>2. Taken \in 1..Len(Pool)
  BY <1>1 DEF ListOrder, PageList, Taken
<1> QED
  BY <1>1, <1>2, PoolElements, PageSizeAssumption DEF PageEnd

LEMMA TakeStep ==
  ASSUME IInv, MallocTake
  PROVE  IInv'
<1> PICK c : c = current
  OBVIOUS
<1> PICK n : n = req
  OBVIOUS
<1> PICK size : size = hdr[c].size
  OBVIOUS
<1> PICK rest : rest = c + Total(n)
  OBVIOUS
<1> PICK end : end = End(c)
  OBVIOUS
<1>1. /\ c \in Blocks /\ c \in Nat /\ c # NULL
      /\ hdr[c] \in Header /\ size \in Nat /\ hdr[c].next \in Nat /\ hdr[c].is_free
      /\ size >= Total(n)
      /\ n \in Nat /\ Accepted(n) /\ end = c + 24 + size
  BY DEF IInv, MallocTake, TypeOK, Cursors, Header, Fits, End, HDR, NULL
<1>2. /\ Rounded(n) \in Nat /\ Rounded(n) >= n /\ Rounded(n) >= 8
      /\ Rounded(n) + 56 <= PageSize
      /\ Total(n) = Rounded(n) + 24
  BY <1>1, RoundedBounds, PageSizeAssumption DEF Accepted, MaxAllowed, Total, HDR
<1>3. /\ DOMAIN live' = DOMAIN live \cup {c}
      /\ live' \in [DOMAIN live' -> Nat]
      /\ live'[c] = n
      /\ \A x \in DOMAIN live \ {c} : live'[x] = live[x]
  BY <1>1, GrantStep DEF IInv, TypeOK, MallocTake
<1>4. /\ pc' = "idle" /\ current' = NULL /\ prev' = NULL /\ req' = 0
      /\ malloc_head' = malloc_head
      /\ UNCHANGED pageVars
  BY DEF MallocTake, Return
<1>5. /\ (Cursors)'
      /\ PageTypeOK'
  BY <1>4 DEF IInv, TypeOK, Cursors, PageTypeOK, pageVars
<1>6. \A x \in Blocks : /\ x \in Nat /\ x # 0 /\ hdr[x] \in Header
                        /\ hdr[x].size \in Nat /\ hdr[x].next \in Nat
                        /\ End(x) = x + 24 + hdr[x].size
  BY DEF IInv, TypeOK, Header, NULL, End, HDR
<1>10. /\ \A x \in Blocks : x < c => x + 24 + hdr[x].size <= c
       /\ \A x \in Blocks : c < x => end <= x
       /\ \A x, y \in Blocks : x < y => x + 24 + hdr[x].size <= y
  BY <1>1, <1>6 DEF IInv, NoOverlap
<1>7. CASE WorthSplitting(size, n)
  <2>1. /\ Blocks' = Blocks \cup {rest}
        /\ hdr' = SplitAt(hdr, c, n)
    BY <1>7 DEF MallocTake, Carve, SplitAt, Blocks
  <2>2. /\ c \in Nat /\ rest \in Nat /\ end \in Nat /\ c + 32 <= rest /\ rest + 56 < end
        /\ rest = c + 24 + Rounded(n) /\ end = rest + 24 + (size - Total(n))
        /\ size - Total(n) \in Nat /\ size - Total(n) >= 8
    BY <1>1, <1>2, <1>7 DEF WorthSplitting, End, HDR
  <2>3. rest \notin Blocks
    BY <1>1, <1>6, <2>2 DEF IInv, NoOverlap, End, HDR
  <2>4. /\ hdr'[rest] = [size |-> size - Total(n), next |-> hdr[c].next, is_free |-> TRUE]
        /\ hdr'[c] = [size |-> Rounded(n), next |-> rest, is_free |-> FALSE]
        /\ \A x \in Blocks \ {c} : hdr'[x] = hdr[x]
    BY <1>1, <2>1, <2>3 DEF SplitAt, Blocks
  <2>5. /\ hdr'[rest].size = size - Total(n) /\ hdr'[rest].next = hdr[c].next
        /\ hdr'[rest].is_free = TRUE
        /\ hdr'[c].size = Rounded(n) /\ hdr'[c].next = rest /\ hdr'[c].is_free = FALSE
    BY <2>4
  <2>6. /\ End(c)' = rest /\ End(rest)' = end
        /\ \A x \in Blocks \ {c} : End(x)' = End(x)
    BY <1>1, <1>2, <2>2, <2>4, <2>5 DEF End, HDR
  <2>7. TypeOK'
    <3>1. hdr' \in [Blocks' -> Header]
      BY <1>1, <1>2, <1>6, <2>1, <2>2, <2>3, <2>4 DEF SplitAt, Header, Blocks
    <3> QED
      BY <1>1, <1>3, <1>4, <1>5, <2>1, <2>2, <3>1 DEF IInv, TypeOK, NULL
  <2>8. NoOverlap'
    <3>1. ASSUME NEW a \in Blocks', NEW b \in Blocks', a < b
          PROVE  End(a)' <= b
      <4>1. End(a)' = a + 24 + hdr'[a].size
        BY DEF End, HDR
      <4>2. CASE a = c
        BY <1>1, <1>2, <1>6, <1>10, <2>1, <2>2, <2>5, <3>1, <4>1, <4>2
      <4>3. CASE a = rest
        BY <1>1, <1>2, <1>6, <1>10, <2>1, <2>2, <2>5, <3>1, <4>1, <4>3
      <4>4. CASE a \in Blocks \ {c}
        <5>1. End(a)' = a + 24 + hdr[a].size /\ a \in Nat /\ hdr[a].size \in Nat
          BY <1>6, <2>4, <4>1, <4>4
        <5>2. CASE b \in Blocks
          BY <1>10, <3>1, <4>4, <5>1, <5>2
        <5>3. CASE b = rest
          <6>1. a < c
            BY <1>6, <1>10, <2>2, <3>1, <4>4, <5>3
          <6> QED
            BY <1>1, <1>10, <2>2, <4>4, <5>1, <5>3, <6>1
        <5> QED
          BY <2>1, <5>2, <5>3
      <4> QED
        BY <2>1, <4>2, <4>3, <4>4
    <3>2. ASSUME NEW b \in Blocks', NEW p \in Listed(free_pages_list)'
          PROVE  End(b)' <= p
      <4>1. p \in Listed(free_pages_list) /\ p \in Nat
        BY <1>4, <3>2, ListedPages DEF pageVars, IInv, TypeOK, PageTypeOK
      <4>2. \A x \in Blocks : x + 24 + hdr[x].size <= p
        BY <4>1, <1>6 DEF IInv, NoOverlap, End, HDR
      <4> QED
        <5>1. End(b)' = b + 24 + hdr'[b].size
          BY DEF End, HDR
        <5>2. end <= p
          BY <1>1, <4>2
        <5>3. CASE b \in Blocks \ {c}
          BY <2>4, <4>2, <5>1, <5>3
        <5>4. CASE b \in {c, rest}
          BY <1>1, <1>2, <2>2, <2>5, <4>1, <5>1, <5>2, <5>4
        <5> QED
          BY <2>1, <5>3, <5>4
    <3> QED
      BY <3>1, <3>2 DEF NoOverlap
  <2>9. ListOrder'
    <3>1. ASSUME NEW b \in Blocks', hdr'[b].next # NULL
          PROVE  hdr'[b].next \in Blocks' /\ b < hdr'[b].next
      <4>1. \A x \in Blocks : hdr[x].next # 0 => hdr[x].next \in Blocks /\ x < hdr[x].next
        BY DEF IInv, ListOrder, NULL
      <4>2. CASE b = c
        BY <2>1, <2>2, <2>5, <4>2
      <4>3. CASE b = rest
        BY <1>1, <1>10, <2>1, <2>2, <2>5, <3>1, <4>1, <4>3 DEF NULL
      <4>4. CASE b \in Blocks \ {c}
        BY <2>1, <2>4, <3>1, <4>1, <4>4 DEF NULL
      <4> QED
        BY <2>1, <4>2, <4>3, <4>4
    <3>2. ASSUME NEW a \in Blocks', NEW b \in Blocks', a < b
          PROVE  hdr'[a].next # NULL /\ hdr'[a].next <= b
      <4>1. \A x, y \in Blocks : x < y => hdr[x].next # 0 /\ hdr[x].next <= y
        BY DEF IInv, ListOrder, NULL
      <4>2. CASE a = c
        <5>1. hdr'[a].next = rest
          BY <2>5, <4>2
        <5>2. CASE b \in Blocks
          <6>1. b \in Nat /\ end <= b
            BY <1>6, <1>10, <3>2, <4>2, <5>2
          <6> QED
            BY <2>2, <5>1, <6>1 DEF NULL
        <5>3. CASE b = rest
          BY <2>2, <5>1, <5>3 DEF NULL
        <5> QED
          BY <2>1, <5>2, <5>3
      <4>3. CASE a = rest
        <5>1. b \in Blocks /\ c < b
          <6>1. rest < b /\ rest # b
            BY <2>2, <3>2, <4>3
          <6>2. b \in Blocks /\ b \in Nat
            BY <1>6, <2>1, <6>1
          <6> QED
            BY <2>2, <6>1, <6>2
        <5> QED
          BY <1>1, <2>5, <4>1, <4>3, <5>1 DEF NULL
      <4>4. CASE a \in Blocks \ {c}
        <5>1. a \in Nat /\ hdr'[a] = hdr[a]
          BY <1>6, <2>4, <4>4
        <5>2. CASE b \in Blocks
          BY <3>2, <4>1, <4>4, <5>1, <5>2 DEF NULL
        <5>3. CASE b = rest
          <6>1. a < c
            BY <1>10, <2>2, <3>2, <4>4, <5>1, <5>3
          <6>2. hdr[a].next # 0 /\ hdr[a].next <= c
            BY <1>1, <4>1, <4>4, <6>1
          <6> QED
            BY <1>6, <2>2, <4>4, <5>1, <5>3, <6>2 DEF NULL
        <5> QED
          BY <2>1, <5>2, <5>3
      <4> QED
        BY <2>1, <4>2, <4>3, <4>4
    <3>3. malloc_head' # NULL => \A b \in Blocks' : malloc_head' <= b
      BY <1>1, <1>4, <1>6, <2>1, <2>2 DEF IInv, TypeOK, ListOrder
    <3> QED
      BY <1>1, <1>4, <3>1, <3>2, <3>3 DEF IInv, ListOrder
  <2>10. PageList'
    <3>1. Taken' = Taken
      BY <1>4 DEF Taken, pageVars
    <3>2. \A b \in Blocks' : Pool[1] <= b /\ End(b)' <= PageEnd(Pool[Taken])
      <4>1. /\ Taken \in 1..Len(Pool) /\ Pool[Taken] \in Nat /\ Pool[1] \in Nat
            /\ PageEnd(Pool[Taken]) \in Nat
        BY <1>1, TakenFacts DEF IInv
      <4> QED
        <5> TAKE b \in Blocks'
        <5>1. End(b)' = b + 24 + hdr'[b].size
          BY DEF End, HDR
        <5>2. \A x \in Blocks : Pool[1] <= x /\ x + 24 + hdr[x].size <= PageEnd(Pool[Taken])
          BY <1>6 DEF IInv, PageList
        <5>3. CASE b \in Blocks \ {c}
          BY <2>4, <5>1, <5>2, <5>3
        <5>4. CASE b \in {c, rest}
          <6>1. Pool[1] <= c /\ end <= PageEnd(Pool[Taken])
            BY <1>1, <5>2
          <6>2. End(b)' \in {rest, end}
            BY <1>1, <2>2, <2>5, <5>1, <5>4
          <6>3. b \in Nat /\ c <= b
            BY <2>2, <5>4
          <6>4. End(b)' \in Nat /\ End(b)' <= end
            BY <2>2, <6>2
          <6> QED
            <7>1. Pool[1] <= b
              BY <2>2, <4>1, <6>1, <6>3
            <7>2. End(b)' <= PageEnd(Pool[Taken])
              BY <2>2, <4>1, <6>1, <6>4
            <7> QED
              BY <7>1, <7>2
        <5> QED
          BY <2>1, <5>3, <5>4
    <3> QED
      BY <1>4, <3>1, <3>2 DEF IInv, PageList, pageVars
  <2>11. Sizes'
    <3> SUFFICES ASSUME NEW b \in Blocks'
                 PROVE  hdr'[b].size >= 8 /\ (~hdr'[b].is_free => hdr'[b].size <= PageSize)
      BY DEF Sizes
    <3>1. CASE b \in Blocks \ {c}
      BY <2>4, <3>1 DEF IInv, Sizes
    <3>2. CASE b \in {c, rest}
      BY <1>2, <2>2, <2>5, <3>2, PageSizeAssumption
    <3> QED
      BY <2>1, <3>1, <3>2
  <2>12. Behind'
    BY <1>1, <1>4, <1>6, <2>1, <2>2, <2>3, <2>4, <2>5
    DEF IInv, Behind, NotBothFree, Cursors, ListOrder, MallocTake
  <2>13. OwnersKeepBlocks'
    BY <1>1, <1>2, <1>3, <2>1, <2>3, <2>4, <2>5 DEF IInv, OwnersKeepBlocks
  <2>14. Tiling'
    <3> SUFFICES ASSUME Contiguous, NEW b \in Blocks'
                 PROVE  IF hdr'[b].next = 0 THEN End(b)' = PageEnd(Pool[Taken])
                                            ELSE hdr'[b].next = End(b)'
      BY <1>4 DEF IInv, Tiling, Taken, pageVars, NULL
    <3>1. End(b)' = b + 24 + hdr'[b].size
      BY DEF End, HDR
    <3>2. \A x \in Blocks : IF hdr[x].next = 0 THEN x + 24 + hdr[x].size = PageEnd(Pool[Taken])
                                               ELSE hdr[x].next = x + 24 + hdr[x].size
      BY <1>6 DEF IInv, Tiling, NULL
    <3>3. CASE b \in Blocks \ {c}
      BY <2>4, <3>1, <3>2, <3>3
    <3>4. CASE b = c
      BY <2>2, <2>5, <3>1, <3>4
    <3>5. CASE b = rest
      BY <1>1, <2>2, <2>5, <3>1, <3>2, <3>5
    <3> QED
      BY <2>1, <3>3, <3>4, <3>5
  <2> QED
    BY <1>5, <2>7, <2>8, <2>9, <2>10, <2>11, <2>12, <2>13, <2>14 DEF IInv
<1>8. CASE ~WorthSplitting(size, n)
  <2>1. /\ Blocks' = Blocks
        /\ hdr' = [hdr EXCEPT ![c].is_free = FALSE]
    BY <1>8 DEF MallocTake, Carve, Blocks
  <2>2. /\ hdr'[c].size = size /\ hdr'[c].next = hdr[c].next /\ hdr'[c].is_free = FALSE
        /\ \A x \in Blocks \ {c} : hdr'[x] = hdr[x]
        /\ hdr' \in [Blocks' -> Header]
    BY <1>1, <1>6, <2>1 DEF Header, Blocks, IInv, TypeOK
  <2>3. \A x \in Blocks : /\ hdr'[x].size = hdr[x].size
                          /\ hdr'[x].next = hdr[x].next
                          /\ End(x)' = End(x)
    BY <2>2 DEF End
  <2>4. TypeOK'
    BY <1>1, <1>3, <1>4, <1>5, <2>1, <2>2 DEF IInv, TypeOK, NULL
  <2>5. (NoOverlap /\ ListOrder)'
    BY <1>4, <2>1, <2>3 DEF IInv, NoOverlap, ListOrder, pageVars
  <2>6. PageList'
    BY <1>4, <2>1, <2>3 DEF IInv, PageList, Taken, pageVars
  <2>7. Sizes'
    BY <1>1, <1>2, <1>8, <2>1, <2>2, PageSizeAssumption DEF IInv, Sizes, WorthSplitting, HDR
  <2>8. Behind'
    BY <1>1, <1>4, <1>6, <2>1, <2>2, <2>3 DEF IInv, Behind, NotBothFree, MallocTake, ListOrder
  <2>9. OwnersKeepBlocks'
    BY <1>1, <1>2, <1>3, <2>1, <2>2 DEF IInv, OwnersKeepBlocks, HDR
  <2>10. Tiling'
    BY <1>4, <2>1, <2>3 DEF IInv, Tiling, Taken, pageVars
  <2> QED
    BY <1>5, <2>4, <2>5, <2>6, <2>7, <2>8, <2>9, <2>10 DEF IInv
<1> QED
  BY <1>7, <1>8

-----------------------------------------------------------------------------
(* Taking a page. *)

LEMMA AllocFacts ==
  ASSUME Ascending, PageTypeOK, Len(free_pages_list) <= Len(Pool),
         \A i \in 1..Len(free_pages_list) : free_pages_list[i] = Pool[Taken + i],
         NEW p, AllocPage(p)
  PROVE  /\ PageTypeOK'
         /\ Taken \in Nat /\ Taken' = Taken + 1 /\ Taken' \in 1..Len(Pool)
         /\ Len(free_pages_list') <= Len(Pool)
         /\ \A i \in 1..Len(free_pages_list') : free_pages_list'[i] = Pool[Taken' + i]
         /\ p = Pool[Taken'] /\ p \in Nat /\ p > 0 /\ p \in Listed(free_pages_list)
         /\ \A q \in Listed(free_pages_list)' : PageEnd(p) <= q
         /\ Pool[1] \in Nat /\ Pool[1] <= p
<1>1. /\ free_pages_list \in Seq(PageAddrs) /\ free_pages_list # <<>>
      /\ free_pages_list' = Tail(free_pages_list) /\ p = free_pages_list[1]
      /\ total_free_pages' = total_free_pages - 1
      /\ ref_count' = [ref_count EXCEPT ![p] = 1]
  BY DEF AllocPage, NoPages, PageTypeOK
<1>2. /\ Len(free_pages_list) \in Nat /\ Len(free_pages_list) >= 1
      /\ free_pages_list' \in Seq(PageAddrs)
      /\ Len(free_pages_list') = Len(free_pages_list) - 1
      /\ \A i \in 1..Len(free_pages_list') : free_pages_list'[i] = free_pages_list[i + 1]
  BY <1>1
<1>3. Len(Pool) \in Nat
  BY PoolAssumption
<1>4. /\ Taken \in Nat /\ Taken' = Taken + 1 /\ Taken' \in 1..Len(Pool)
  BY <1>2, <1>3 DEF Taken
<1>5. /\ p = Pool[Taken'] /\ p \in Listed(free_pages_list)
  BY <1>1, <1>2, <1>4 DEF Listed
<1>6. \A i \in 1..Len(free_pages_list') :
        /\ free_pages_list'[i] = Pool[Taken' + i] /\ Taken' + i \in 1..Len(Pool)
  BY <1>2, <1>3, <1>4 DEF Taken
<1>7. PageTypeOK'
  <2>1. p \in PageAddrs
    BY <1>1, <1>2
  <2> QED
    BY <1>1, <1>2, <2>1, RefModulusAssumption DEF PageTypeOK
<1>8. ASSUME NEW q \in Listed(free_pages_list)'
      PROVE  PageEnd(p) <= q
  <2>1. PICK i \in 1..Len(free_pages_list') : q = free_pages_list'[i]
    BY DEF Listed
  <2>2. q = Pool[Taken' + i] /\ Taken' + i \in 1..Len(Pool)
    BY <1>6, <2>1
  <2>3. Taken' < Taken' + i
    <3>1. i \in Nat /\ i >= 1
      BY <1>2, <2>1
    <3> QED
      BY <1>4, <3>1
  <2> QED
    BY <1>4, <1>5, <2>2, <2>3 DEF Ascending
<1>9. p \in Nat /\ p > 0 /\ Pool[1] \in Nat
  BY <1>3, <1>4, <1>5, PoolElements
<1>10. Pool[1] <= p
  <2>1. CASE Taken' = 1
    BY <1>5, <1>9, <2>1
  <2>2. CASE Taken' # 1
    <3>1. PageEnd(Pool[1]) <= p
      BY <1>3, <1>4, <1>5, <2>2 DEF Ascending
    <3> QED
      BY <1>9, <3>1, PageSizeAssumption DEF PageEnd
  <2> QED
    BY <2>1, <2>2
<1> QED
  BY <1>2, <1>3, <1>4, <1>5, <1>6, <1>7, <1>8, <1>9, <1>10

LEMMA FirstStep ==
  ASSUME Ascending, IInv, NEW n \in Requests, MallocFirst(n)
  PROVE  IInv'
<1>1. PICK p \in PageAddrs : /\ AllocPage(p)
                             /\ malloc_head' = p
                             /\ hdr' = [x \in {p} |-> Fresh(TRUE)]
                             /\ StartWalk(n, p)
  BY DEF MallocFirst
<1>2. /\ PageTypeOK'
      /\ Taken' = Taken + 1 /\ Taken' \in 1..Len(Pool)
      /\ Len(free_pages_list') <= Len(Pool)
      /\ \A i \in 1..Len(free_pages_list') : free_pages_list'[i] = Pool[Taken' + i]
      /\ p = Pool[Taken'] /\ p \in Nat /\ p > 0
      /\ \A q \in Listed(free_pages_list)' : PageEnd(p) <= q
      /\ Pool[1] \in Nat /\ Pool[1] <= p
  BY <1>1, AllocFacts DEF IInv, TypeOK, PageList
<1>3. n \in Nat /\ Accepted(n) /\ pc = "idle" /\ malloc_head = NULL /\ live' = live
  BY RequestsAssumption DEF MallocFirst
<1>4. Blocks = {} /\ DOMAIN live = {} /\ Taken = 0
  BY <1>3 DEF IInv, ListOrder, TypeOK, PageList
<1>5. /\ Blocks' = {p}
      /\ hdr'[p].size = PageSize - 24 /\ hdr'[p].next = 0 /\ hdr'[p].is_free = TRUE
      /\ hdr'[p] \in Header
      /\ PageSize \in Nat /\ PageSize - 24 \in Nat /\ PageSize - 24 >= 8
  BY <1>1, PageSizeAssumption DEF Blocks, Fresh, Header, HDR, NULL
<1>6. /\ pc' = "walk" /\ current' = p /\ prev' = NULL /\ req' = n
  BY <1>1 DEF StartWalk
<1>7. End(p)' = PageEnd(p) /\ PageEnd(p) = p + PageSize
  <2>1. End(p)' = p + 24 + hdr'[p].size
    BY DEF End, HDR
  <2>2. p \in Nat
    BY <1>2
  <2>3. hdr'[p].size = PageSize - 24 /\ PageSize \in Nat
    BY <1>5
  <2> QED
    BY <2>1, <2>2, <2>3 DEF PageEnd
<1>8. TypeOK'
  <2>1. hdr' \in [Blocks' -> Header]
    BY <1>1, <1>5 DEF Blocks
  <2> QED
    <3>1. DOMAIN live' \subseteq Blocks' /\ live' \in [DOMAIN live' -> Nat]
      BY <1>3, <1>4 DEF IInv, TypeOK
    <3>2. n \in Nat /\ malloc_head' \in Blocks' /\ Blocks' \subseteq Nat \ {NULL}
      BY <1>1, <1>2, <1>3, <1>5 DEF NULL
    <3> QED
      BY <1>2, <1>5, <1>6, <2>1, <3>1, <3>2 DEF TypeOK
<1>16. ASSUME NEW a \in Blocks', NEW b \in Blocks'
       PROVE  a = p /\ ~(a < b)
  BY <1>2, <1>5
<1>9. NoOverlap'
  <2>2. ASSUME NEW b \in Blocks', NEW q \in Listed(free_pages_list)'
        PROVE  End(b)' <= q
    BY <1>2, <1>5, <1>7, <2>2
  <2> QED
    BY <1>16, <2>2 DEF NoOverlap
<1>10. ListOrder'
  <2>1. ASSUME NEW b \in Blocks'
        PROVE  hdr'[b].next = 0 /\ malloc_head' <= b
    <3>1. b = p /\ p \in Nat /\ malloc_head' = p /\ hdr'[p].next = 0
      BY <1>1, <1>2, <1>5, <1>16
    <3> QED
      BY <3>1
  <2> QED
    BY <1>1, <1>2, <1>16, <2>1 DEF ListOrder, NULL
<1>11. PageList'
  BY <1>1, <1>2, <1>4, <1>5, <1>7 DEF PageList, NULL
<1>12. Sizes'
  BY <1>5 DEF Sizes
<1>13. Cursors'
  <2>1. ~\E b \in Blocks' : b < p
    BY <1>2, <1>5
  <2> QED
    <3>1. Accepted(req)' /\ malloc_head' # NULL /\ current' # NULL /\ current' = p
      BY <1>1, <1>2, <1>3, <1>6 DEF NULL, Accepted
    <3> QED
      BY <1>6, <2>1, <3>1 DEF Cursors
<1>14. Behind'
  BY <1>5, <1>6 DEF Behind, NotBothFree, NULL
<1>15. OwnersKeepBlocks'
  BY <1>3, <1>4, <1>5 DEF OwnersKeepBlocks
<1>17. Tiling'
  <2>1. Taken' = 1 /\ malloc_head' = Pool[1]
    BY <1>1, <1>2, <1>4
  <2>2. ASSUME NEW b \in Blocks'
        PROVE  hdr'[b].next = 0 /\ End(b)' = PageEnd(Pool[Taken'])
    <3>1. b = p
      BY <1>5
    <3> QED
      BY <1>2, <1>5, <1>7, <3>1
  <2> QED
    BY <2>1, <2>2 DEF Tiling, NULL
<1> QED
  BY <1>8, <1>9, <1>10, <1>11, <1>12, <1>13, <1>14, <1>15, <1>17 DEF IInv

LEMMA FreeStep ==
  ASSUME Ascending, IInv, NEW b \in DOMAIN live, Free(b)
  PROVE  IInv'
<1>1. /\ b \in Blocks /\ b \in Nat /\ hdr[b].size \in Nat /\ hdr[b].next \in Nat
      /\ ~hdr[b].is_free /\ hdr[b].size <= PageSize /\ hdr[b].size >= 8
      /\ malloc_head # NULL /\ malloc_head \in Blocks
      /\ pc = "idle"
  BY DEF Free, IInv, TypeOK, OwnersKeepBlocks, Sizes, ListOrder, Header
\* free's range check never refuses a block of the heap.
<1>2. FreeAccepts(b)
  <2>1. /\ Pool[1] <= b /\ b + 24 + hdr[b].size <= PageEnd(Pool[Taken])
        /\ Taken \in 1..Len(Pool) /\ Pool[Taken] \in Nat /\ Pool[1] \in Nat
    BY <1>1, TakenFacts DEF IInv, PageList, End, HDR
  <2>2. Len(Pool) \in Nat /\ Len(Pool) \in 1..Len(Pool) /\ Pool[Len(Pool)] \in Nat
    BY <2>1, PoolAssumption, PoolElements
  <2>3. PageEnd(Pool[Taken]) <= PageEnd(Pool[Len(Pool)])
    <3>1. CASE Taken = Len(Pool)
      BY <2>2, <3>1, PageSizeAssumption DEF PageEnd
    <3>2. CASE Taken # Len(Pool)
      BY <2>1, <2>2, <3>2, PageSizeAssumption DEF PageEnd, Ascending
    <3> QED
      BY <3>1, <3>2
  <2>4. PageEnd(Pool[Taken]) \in Nat /\ PageEnd(Pool[Len(Pool)]) \in Nat
    BY <2>1, <2>2, PageSizeAssumption DEF PageEnd
  <2>5. Pool[1] <= b + 24 /\ b + 24 < PageEnd(Pool[Len(Pool)])
    BY <1>1, <2>1, <2>3, <2>4
  <2> QED
    BY <1>1, <2>5 DEF FreeAccepts, HeapStart, HeapEnd, HDR
<1>3. /\ hdr' = [hdr EXCEPT ![b].is_free = TRUE]
      /\ pc' = "merge" /\ current' = malloc_head /\ malloc_head' = malloc_head
      /\ prev' = prev /\ req' = req
      /\ UNCHANGED pageVars
  BY <1>2 DEF Free
<1>4. /\ DOMAIN live' = DOMAIN live \ {b}
      /\ \A x \in DOMAIN live' : live'[x] = live[x]
      /\ live' \in [DOMAIN live' -> Nat]
  BY DEF Free, Disowned, IInv, TypeOK
<1>5. /\ Blocks' = Blocks
      /\ hdr'[b].size = hdr[b].size /\ hdr'[b].next = hdr[b].next /\ hdr'[b].is_free = TRUE
      /\ \A x \in Blocks \ {b} : hdr'[x] = hdr[x]
      /\ hdr' \in [Blocks' -> Header]
  BY <1>1, <1>3 DEF Header, Blocks, IInv, TypeOK
<1>6. \A x \in Blocks : /\ hdr'[x].size = hdr[x].size
                        /\ hdr'[x].next = hdr[x].next
                        /\ End(x)' = End(x)
  BY <1>5 DEF End
<1>7. TypeOK'
  BY <1>1, <1>3, <1>4, <1>5 DEF IInv, TypeOK, PageTypeOK, pageVars
<1>8. (NoOverlap /\ ListOrder)'
  BY <1>3, <1>5, <1>6 DEF IInv, NoOverlap, ListOrder, pageVars
<1>9. PageList'
  BY <1>3, <1>5, <1>6 DEF IInv, PageList, Taken, pageVars
<1>10. Sizes'
  BY <1>5, <1>6 DEF IInv, Sizes
<1>11. Cursors'
  BY <1>1, <1>3, <1>5 DEF IInv, Cursors
<1>12. Behind'
  BY <1>1, <1>3, <1>5 DEF IInv, Behind, ListOrder, TypeOK
<1>13. OwnersKeepBlocks'
  BY <1>4, <1>5 DEF IInv, OwnersKeepBlocks
<1>14. Tiling'
  BY <1>3, <1>5, <1>6 DEF IInv, Tiling, Taken, pageVars
<1> QED
  BY <1>7, <1>8, <1>9, <1>10, <1>11, <1>12, <1>13, <1>14 DEF IInv

LEMMA MergeStep ==
  ASSUME IInv, Merge
  PROVE  IInv'
<1> PICK c : c = current
  OBVIOUS
<1> PICK s : s = hdr[c].next
  OBVIOUS
<1>1. \A x \in Blocks : /\ x \in Nat /\ x # 0 /\ hdr[x] \in Header
                        /\ hdr[x].size \in Nat /\ hdr[x].next \in Nat
                        /\ End(x) = x + 24 + hdr[x].size
  BY DEF IInv, TypeOK, Header, NULL, End, HDR
<1>2. /\ c \in Blocks /\ s # 0 /\ hdr[c].is_free /\ hdr[s].is_free
      /\ pc = "merge" /\ malloc_head # NULL
  BY DEF IInv, Merge, HasNext, BothFree, Cursors, NULL
<1>3. \A x \in Blocks : hdr[x].next # 0 => hdr[x].next \in Blocks /\ x < hdr[x].next
  BY DEF IInv, ListOrder, NULL
<1>4. \A x, y \in Blocks : x < y => /\ x + 24 + hdr[x].size <= y
                                    /\ hdr[x].next # 0 /\ hdr[x].next <= y
  BY <1>1 DEF IInv, ListOrder, NoOverlap, NULL
<1>5. /\ s \in Blocks /\ c \in Nat /\ s \in Nat /\ c < s
      /\ c + 24 + hdr[c].size <= s
  BY <1>1, <1>2, <1>3, <1>4
<1>6. /\ pc' = "merge" /\ current' = c /\ prev' = prev /\ req' = req /\ live' = live
      /\ malloc_head' = malloc_head
      /\ UNCHANGED pageVars
      /\ hdr' = Absorbed(hdr, c)
  BY <1>2 DEF Merge
<1>7. /\ Blocks' = Blocks \ {s}
      /\ c \in Blocks'
      /\ hdr'[c] = [size |-> hdr[c].size + 24 + hdr[s].size, next |-> hdr[s].next, is_free |-> TRUE]
      /\ \A x \in Blocks' \ {c} : hdr'[x] = hdr[x]
  BY <1>2, <1>5, <1>6 DEF Absorbed, Blocks, HDR
<1>8. /\ hdr'[c].size = hdr[c].size + 24 + hdr[s].size /\ hdr'[c].next = hdr[s].next
      /\ hdr'[c].is_free = TRUE
  BY <1>7
<1>9. /\ hdr[c].size \in Nat /\ hdr[s].size \in Nat /\ hdr[s].next \in Nat
      /\ End(c)' = c + 24 + hdr'[c].size
      /\ End(c)' <= s + 24 + hdr[s].size
  <2>1. End(c)' = c + 24 + hdr'[c].size
    BY <1>6 DEF End, HDR
  <2> QED
    BY <1>1, <1>2, <1>5, <1>8, <2>1
<1>10. \A x \in Blocks' \ {c} : End(x)' = x + 24 + hdr[x].size
  BY <1>7 DEF End, HDR
\* Only c pointed at s.
<1>11. ASSUME NEW x \in Blocks' \ {c}
       PROVE  hdr[x].next # s
  <2>1. x \in Blocks /\ x \in Nat /\ x # c /\ x # s
    BY <1>1, <1>7
  <2>2. CASE x < c
    BY <1>2, <1>4, <1>5, <2>1, <2>2
  <2>3. CASE c < x
    BY <1>1, <1>2, <1>3, <1>4, <1>5, <2>1, <2>3
  <2> QED
    BY <1>5, <2>1, <2>2, <2>3
<1>12. malloc_head \in Blocks' /\ malloc_head <= c
  BY <1>1, <1>2, <1>5, <1>7 DEF IInv, TypeOK, ListOrder
<1>13. ASSUME NEW x \in Blocks', c < x
       PROVE  x \in Blocks /\ s < x
  <2>1. x \in Blocks /\ x # s /\ x \in Nat
    BY <1>1, <1>7
  <2>2. s <= x
    BY <1>2, <1>4, <1>13, <2>1
  <2> QED
    BY <1>5, <2>1, <2>2
<1>14. TypeOK'
  <2>1. hdr' \in [Blocks' -> Header]
    BY <1>1, <1>6, <1>7, <1>9 DEF Absorbed, Header, Blocks
  <2>2. s \notin DOMAIN live /\ DOMAIN live \subseteq Blocks
    BY <1>2 DEF IInv, OwnersKeepBlocks, TypeOK
  <2>3. prev' = NULL \/ prev' \in Blocks'
    BY <1>2, <1>6, <1>7 DEF IInv, Cursors
  <2> QED
    BY <1>6, <1>7, <1>12, <2>1, <2>2, <2>3 DEF IInv, TypeOK, PageTypeOK, pageVars
<1>15. NoOverlap'
  <2>1. ASSUME NEW a \in Blocks', NEW b \in Blocks', a < b
        PROVE  End(a)' <= b
    <3>1. CASE a = c
      <4>1. s + 24 + hdr[s].size <= b
        BY <1>4, <1>5, <1>13, <2>1, <3>1
      <4> QED
        BY <1>1, <1>5, <1>7, <1>8, <1>9, <3>1, <4>1
    <3>2. CASE a # c
      BY <1>4, <1>7, <1>10, <2>1, <3>2
    <3> QED
      BY <3>1, <3>2
  <2>2. ASSUME NEW b \in Blocks', NEW p \in Listed(free_pages_list)'
        PROVE  End(b)' <= p
    <3>1. p \in Listed(free_pages_list) /\ p \in Nat
      BY <1>6, <2>2, ListedPages DEF pageVars, IInv, TypeOK, PageTypeOK
    <3>2. \A x \in Blocks : x + 24 + hdr[x].size <= p
      BY <1>1, <3>1 DEF IInv, NoOverlap
    <3>3. CASE b = c
      BY <1>5, <1>8, <1>9, <3>1, <3>2, <3>3
    <3>4. CASE b # c
      BY <1>7, <1>10, <3>2, <3>4
    <3> QED
      BY <3>3, <3>4
  <2> QED
    BY <2>1, <2>2 DEF NoOverlap
<1>16. ListOrder'
  <2>1. ASSUME NEW b \in Blocks', hdr'[b].next # NULL
        PROVE  hdr'[b].next \in Blocks' /\ b < hdr'[b].next
    <3>1. CASE b = c
      BY <1>1, <1>3, <1>5, <1>7, <1>8, <2>1, <3>1 DEF NULL
    <3>2. CASE b # c
      BY <1>3, <1>7, <1>11, <2>1, <3>2 DEF NULL
    <3> QED
      BY <3>1, <3>2
  <2>2. ASSUME NEW a \in Blocks', NEW b \in Blocks', a < b
        PROVE  hdr'[a].next # NULL /\ hdr'[a].next <= b
    <3>1. CASE a = c
      BY <1>4, <1>5, <1>8, <1>13, <2>2, <3>1 DEF NULL
    <3>2. CASE a # c
      BY <1>4, <1>7, <2>2, <3>2 DEF NULL
    <3> QED
      BY <3>1, <3>2
  <2>3. \A b \in Blocks' : malloc_head' <= b
    BY <1>2, <1>6, <1>7 DEF IInv, ListOrder
  <2> QED
    BY <1>2, <1>6, <2>1, <2>2, <2>3 DEF ListOrder
<1>17. PageList'
  <2>1. Taken' = Taken /\ Taken \in 1..Len(Pool) /\ Pool[1] \in Nat /\ PageEnd(Pool[Taken]) \in Nat
    BY <1>2, <1>6, TakenFacts DEF IInv, Taken, pageVars
  <2>2. \A x \in Blocks : Pool[1] <= x /\ x + 24 + hdr[x].size <= PageEnd(Pool[Taken])
    BY <1>1 DEF IInv, PageList
  <2>3. ASSUME NEW b \in Blocks'
        PROVE  Pool[1] <= b /\ End(b)' <= PageEnd(Pool[Taken])
    <3>1. CASE b = c
      <4>1. Pool[1] <= c /\ s + 24 + hdr[s].size <= PageEnd(Pool[Taken])
        BY <1>2, <1>5, <2>2
      <4>2. End(c)' \in Nat
        BY <1>5, <1>8, <1>9
      <4>3. s + 24 + hdr[s].size \in Nat
        BY <1>5, <1>9
      <4>4. End(c)' <= PageEnd(Pool[Taken])
        BY <1>9, <2>1, <4>1, <4>2, <4>3
      <4> QED
        BY <3>1, <4>1, <4>4
    <3>2. CASE b # c
      BY <1>7, <1>10, <2>2, <3>2
    <3> QED
      BY <3>1, <3>2
  <2> QED
    BY <1>6, <2>1, <2>3 DEF IInv, PageList, pageVars
<1>18. Sizes'
  <2> SUFFICES ASSUME NEW b \in Blocks'
               PROVE  hdr'[b].size >= 8 /\ (~hdr'[b].is_free => hdr'[b].size <= PageSize)
    BY DEF Sizes
  <2>1. CASE b = c
    <3>1. hdr[c].size >= 8
      BY <1>2 DEF IInv, Sizes
    <3> QED
      BY <1>8, <1>9, <2>1, <3>1
  <2>2. CASE b # c
    BY <1>7, <2>2 DEF IInv, Sizes
  <2> QED
    BY <2>1, <2>2
<1>19. Cursors'
  BY <1>2, <1>6, <1>7 DEF IInv, Cursors
<1>20. Behind'
  <2> SUFFICES ASSUME NEW b \in Blocks', b < c
               PROVE  NotBothFree(b)'
    BY <1>6 DEF Behind
  <2>1. b # c /\ hdr'[b] = hdr[b] /\ NotBothFree(b) /\ b \in Blocks
    BY <1>1, <1>2, <1>5, <1>6, <1>7 DEF IInv, Behind, Merge
  <2>2. hdr[b].next # 0 => hdr'[hdr[b].next].is_free = hdr[hdr[b].next].is_free
    BY <1>2, <1>3, <1>7, <1>8, <1>11, <2>1
  <2> QED
    BY <2>1, <2>2 DEF NotBothFree, NULL
<1>21. OwnersKeepBlocks'
  <2>1. ASSUME NEW b \in DOMAIN live'
        PROVE  b \in Blocks' /\ ~hdr'[b].is_free /\ hdr'[b].size >= live'[b]
    <3>1. b \in Blocks /\ ~hdr[b].is_free /\ hdr[b].size >= live[b] /\ live' = live
      BY <1>6, <2>1 DEF IInv, OwnersKeepBlocks
    <3>2. b # c /\ b # s
      BY <1>2, <3>1
    <3> QED
      BY <1>7, <3>1, <3>2
  <2>2. ASSUME NEW b \in Blocks', ~hdr'[b].is_free
        PROVE  b \in DOMAIN live'
    <3>1. b # c /\ b \in Blocks /\ ~hdr[b].is_free
      BY <1>7, <1>8, <2>2
    <3> QED
      BY <1>6, <3>1 DEF IInv, OwnersKeepBlocks
  <2> QED
    BY <2>1, <2>2 DEF OwnersKeepBlocks
<1>22. Tiling'
  <2> SUFFICES ASSUME Contiguous, NEW b \in Blocks'
               PROVE  IF hdr'[b].next = 0 THEN End(b)' = PageEnd(Pool[Taken])
                                          ELSE hdr'[b].next = End(b)'
    BY <1>6 DEF IInv, Tiling, Taken, pageVars, NULL
  <2>1. \A x \in Blocks : IF hdr[x].next = 0 THEN x + 24 + hdr[x].size = PageEnd(Pool[Taken])
                                             ELSE hdr[x].next = x + 24 + hdr[x].size
    BY <1>1 DEF IInv, Tiling, NULL
  <2>2. CASE b = c
    <3>1. s = c + 24 + hdr[c].size
      BY <1>2, <2>1
    <3>2. End(b)' = s + 24 + hdr[s].size
      BY <1>5, <1>8, <1>9, <2>2, <3>1
    <3> QED
      BY <1>5, <1>8, <2>1, <2>2, <3>2
  <2>3. CASE b # c
    BY <1>7, <1>10, <2>1, <2>3
  <2> QED
    BY <2>2, <2>3
<1> QED
  BY <1>14, <1>15, <1>16, <1>17, <1>18, <1>19, <1>20, <1>21, <1>22 DEF IInv

LEMMA GrowStep ==
  ASSUME Ascending, IInv, MallocGrow
  PROVE  IInv'
<1> PICK n : n = req
  OBVIOUS
<1> PICK last : last = prev
  OBVIOUS
<1>1. PICK p \in PageAddrs : /\ AllocPage(p)
                             /\ hdr' = Carve(Appended(hdr, last, p), p, n)
                             /\ Grant(p, n)
  BY DEF MallocGrow
<1> PICK rest : rest = p + Total(n)
  OBVIOUS
<1> PICK left : left = PageSize - 24 - Total(n)
  OBVIOUS
<1>2. /\ PageTypeOK'
      /\ Taken' = Taken + 1 /\ Taken' \in 1..Len(Pool)
      /\ Len(free_pages_list') <= Len(Pool)
      /\ \A i \in 1..Len(free_pages_list') : free_pages_list'[i] = Pool[Taken' + i]
      /\ p = Pool[Taken'] /\ p \in Nat /\ p > 0 /\ p \in Listed(free_pages_list)
      /\ \A q \in Listed(free_pages_list)' : PageEnd(p) <= q
      /\ Pool[1] \in Nat /\ Pool[1] <= p
  BY <1>1, AllocFacts DEF IInv, TypeOK, PageList
<1>3. /\ n \in Nat /\ Accepted(n) /\ malloc_head # NULL /\ malloc_head \in Blocks
      /\ last \in Blocks /\ hdr[last].next = 0
      /\ pc = "walk"
  BY DEF IInv, MallocGrow, Cursors, TypeOK, NULL
<1>4. /\ Rounded(n) \in Nat /\ Rounded(n) >= n /\ Rounded(n) >= 8
      /\ Total(n) = Rounded(n) + 24 /\ PageSize \in Nat
      /\ left \in Nat /\ left >= 40 /\ Rounded(n) <= PageSize
      /\ rest \in Nat /\ p + 32 <= rest /\ rest + 24 + left = p + PageSize
  <2>1. /\ Rounded(n) \in Nat /\ Rounded(n) >= n /\ Rounded(n) >= 8 /\ Rounded(n) <= n + 7
        /\ Total(n) = Rounded(n) + 24
    BY <1>3, RoundedBounds DEF Accepted, Total, HDR
  <2>2. n + 152 <= PageSize /\ PageSize \in Nat
    BY <1>3, PageSizeAssumption DEF Accepted, MaxAllowed, HDR
  <2>4. p \in Nat /\ n \in Nat /\ n # 0
    BY <1>2, <1>3 DEF Accepted
  <2>3. left = PageSize - 48 - Rounded(n) /\ rest = p + 24 + Rounded(n)
    BY <2>1, <2>2, <2>4
  <2> QED
    BY <2>1, <2>2, <2>3, <2>4
<1>23. \A x \in Blocks : hdr[x] \in Header /\ hdr[x].next \in Nat
  BY DEF IInv, TypeOK, Header
<1>5. \A x \in Blocks : /\ x \in Nat /\ x # 0 /\ hdr[x].size \in Nat
                        /\ x + 24 + hdr[x].size <= p /\ x < p
  <2>1. ASSUME NEW x \in Blocks
        PROVE  /\ x \in Nat /\ x # 0 /\ hdr[x].size \in Nat
               /\ x + 24 + hdr[x].size <= p
    BY <1>2 DEF IInv, TypeOK, Header, NULL, End, HDR, NoOverlap
  <2> QED
    BY <1>2, <2>1
<1>24. /\ p \in Nat /\ p # 0 /\ rest \in Nat /\ rest # 0 /\ p < rest
       /\ PageSize \in Nat /\ p + PageSize \in Nat /\ rest <= p + PageSize
       /\ Pool[1] \in Nat /\ Pool[1] <= p
  <2>1. p \in Nat /\ p > 0 /\ Pool[1] \in Nat /\ Pool[1] <= p
    BY <1>2
  <2>2. rest \in Nat /\ p + 32 <= rest /\ left \in Nat /\ rest + 24 + left = p + PageSize /\ PageSize \in Nat
    BY <1>4
  <2> QED
    BY <2>1, <2>2
<1>6. p \notin Blocks /\ rest \notin Blocks /\ rest # p /\ last # p /\ last # rest
  BY <1>3, <1>24, <1>5
<1>7. \A x, y \in Blocks : x < y => /\ x + 24 + hdr[x].size <= y
                                    /\ hdr[x].next # 0 /\ hdr[x].next <= y
  BY <1>5 DEF IInv, ListOrder, NoOverlap, NULL, End, HDR
<1>8. \A x \in Blocks : x # last => x < last
  BY <1>3, <1>5, <1>7
<1>9. hdr' = SplitAt(Appended(hdr, last, p), p, n)
  <2>1. Appended(hdr, last, p)[p].size = PageSize - 24
    BY DEF Appended, Fresh, HDR
  <2>2. WorthSplitting(Appended(hdr, last, p)[p].size, n)
    BY <1>4, <2>1 DEF WorthSplitting, HDR
  <2> QED
    BY <1>1, <2>2 DEF Carve
<1>10. /\ Blocks' = Blocks \cup {p, rest}
       /\ hdr'[rest] = [size |-> left, next |-> 0, is_free |-> TRUE]
       /\ hdr'[p] = [size |-> Rounded(n), next |-> rest, is_free |-> FALSE]
       /\ hdr'[last] = [hdr[last] EXCEPT !.next = p]
       /\ \A x \in Blocks \ {last} : hdr'[x] = hdr[x]
  BY <1>3, <1>6, <1>9 DEF SplitAt, Appended, Fresh, Blocks, NULL, HDR
<1>25. hdr'[last] = [size |-> hdr[last].size, next |-> p, is_free |-> hdr[last].is_free]
  BY <1>3, <1>23, <1>10 DEF Header
<1>11. /\ hdr'[rest].size = left /\ hdr'[rest].next = 0 /\ hdr'[rest].is_free = TRUE
       /\ hdr'[p].size = Rounded(n) /\ hdr'[p].next = rest /\ hdr'[p].is_free = FALSE
       /\ hdr'[last].size = hdr[last].size /\ hdr'[last].next = p
       /\ hdr'[last].is_free = hdr[last].is_free
  BY <1>10, <1>25
<1>12. /\ \A x \in Blocks : /\ hdr'[x].size = hdr[x].size
                            /\ hdr'[x].is_free = hdr[x].is_free
                            /\ End(x)' = x + 24 + hdr[x].size
       /\ End(p)' = rest
       /\ End(rest)' = PageEnd(p) /\ PageEnd(p) = p + PageSize
  <2>1. \A x : End(x)' = x + 24 + hdr'[x].size
    BY DEF End, HDR
  <2>2. \A x \in Blocks : hdr'[x].size = hdr[x].size /\ hdr'[x].is_free = hdr[x].is_free
    BY <1>10, <1>11
  <2>3. End(p)' = rest
    BY <1>4, <1>24, <1>11, <2>1
  <2>4. End(rest)' = PageEnd(p) /\ PageEnd(p) = p + PageSize
    BY <1>4, <1>24, <1>11, <2>1 DEF PageEnd
  <2> QED
    BY <2>1, <2>2, <2>3, <2>4
<1>13. /\ DOMAIN live' = DOMAIN live \cup {p}
       /\ live' \in [DOMAIN live' -> Nat]
       /\ live'[p] = n
       /\ \A x \in DOMAIN live \ {p} : live'[x] = live[x]
  BY <1>1, <1>3, GrantStep DEF IInv, TypeOK
<1>14. /\ pc' = "idle" /\ current' = NULL /\ prev' = NULL /\ req' = 0
       /\ malloc_head' = malloc_head
  BY DEF MallocGrow, Return
<1>15. TypeOK'
  <2>1. hdr' \in [Blocks' -> Header]
    <3>1. \A x \in Blocks' : hdr'[x] \in Header
      <4>1. hdr'[rest] \in Header /\ hdr'[p] \in Header
        <5>1. left \in Nat /\ Rounded(n) \in Nat /\ rest \in Nat
          BY <1>4
        <5> QED
          BY <1>10, <5>1 DEF Header
      <4>2. hdr'[last] \in Header
        BY <1>3, <1>5, <1>23, <1>24, <1>25 DEF Header
      <4> QED
        BY <1>10, <1>23, <4>1, <4>2
    <3> QED
      BY <1>9, <3>1 DEF SplitAt, Blocks
  <2>2. Blocks' \subseteq Nat \ {NULL}
    BY <1>24, <1>5, <1>10 DEF NULL
  <2> QED
    BY <1>2, <1>3, <1>10, <1>13, <1>14, <2>1, <2>2 DEF IInv, TypeOK, NULL
<1>16. NoOverlap'
  <2>1. ASSUME NEW a \in Blocks', NEW b \in Blocks', a < b
        PROVE  End(a)' <= b
    <3>1. CASE a \in Blocks /\ b \in Blocks
      BY <1>7, <1>12, <2>1, <3>1
    <3>2. CASE a \in Blocks /\ b \in {p, rest}
      BY <1>24, <1>5, <1>12, <3>2
    <3>3. CASE a = p /\ b = rest
      BY <1>24, <1>12, <3>3
    <3>4. CASE a \in {p, rest} /\ ~(a = p /\ b = rest)
      BY <1>24, <1>5, <1>10, <2>1, <3>4
    <3> QED
      BY <1>10, <3>1, <3>2, <3>3, <3>4
  <2>2. ASSUME NEW b \in Blocks', NEW q \in Listed(free_pages_list)'
        PROVE  End(b)' <= q
    <3>1. q \in Nat /\ p + PageSize <= q
      BY <1>2, <1>12, <2>2, ListedPages DEF PageTypeOK
    <3>2. CASE b \in Blocks
      BY <1>24, <1>5, <1>12, <3>1, <3>2
    <3>3. CASE b \in {p, rest}
      BY <1>24, <1>12, <3>1, <3>3
    <3> QED
      BY <1>10, <3>2, <3>3
  <2> QED
    BY <2>1, <2>2 DEF NoOverlap
<1>17. ListOrder'
  <2>1. ASSUME NEW b \in Blocks', hdr'[b].next # NULL
        PROVE  hdr'[b].next \in Blocks' /\ b < hdr'[b].next
    <3>1. CASE b \in Blocks /\ b # last
      BY <1>10, <2>1, <3>1 DEF IInv, ListOrder
    <3>2. CASE b = last
      BY <1>3, <1>5, <1>10, <1>11, <3>2
    <3>3. CASE b \in {p, rest}
      BY <1>24, <1>10, <1>11, <2>1, <3>3 DEF NULL
    <3> QED
      BY <1>10, <3>1, <3>2, <3>3
  <2>2. ASSUME NEW a \in Blocks', NEW b \in Blocks', a < b
        PROVE  hdr'[a].next # NULL /\ hdr'[a].next <= b
    <3>1. CASE a \in Blocks /\ a # last
      <4>1. hdr'[a].next = hdr[a].next /\ hdr[a].next # 0 /\ hdr[a].next <= last
        BY <1>3, <1>7, <1>8, <1>10, <3>1
      <4>2. CASE b \in Blocks
        BY <1>7, <2>2, <3>1, <4>1, <4>2 DEF NULL
      <4>3. CASE b \in {p, rest}
        <5>1. last < p /\ last \in Nat /\ hdr[a].next \in Nat
          BY <1>3, <1>5, <1>23, <3>1
        <5> QED
          BY <1>24, <4>1, <4>3, <5>1 DEF NULL
      <4> QED
        BY <1>10, <4>2, <4>3
    <3>2. CASE a = last
      <4>1. b \in {p, rest}
        BY <1>3, <1>5, <1>8, <1>10, <2>2, <3>2
      <4> QED
        BY <1>24, <1>11, <3>2, <4>1 DEF NULL
    <3>3. CASE a = p
      <4>1. b = rest
        BY <1>24, <1>5, <1>10, <2>2, <3>3
      <4> QED
        BY <1>24, <1>11, <3>3, <4>1 DEF NULL
    <3>4. CASE a = rest
      BY <1>24, <1>5, <1>10, <2>2, <3>4
    <3> QED
      BY <1>10, <3>1, <3>2, <3>3, <3>4
  <2>3. \A b \in Blocks' : malloc_head' <= b
    <3>1. \A b \in Blocks : malloc_head <= b
      BY <1>3 DEF IInv, ListOrder
    <3> QED
      BY <1>3, <1>24, <1>5, <1>10, <1>14, <3>1
  <2> QED
    BY <1>3, <1>14, <2>1, <2>2, <2>3 DEF ListOrder
<1>18. PageList'
  <2>1. ASSUME NEW b \in Blocks'
        PROVE  Pool[1] <= b /\ End(b)' <= p + PageSize
    <3>1. CASE b \in Blocks
      BY <1>24, <1>5, <1>12, <3>1 DEF IInv, PageList
    <3>2. CASE b \in {p, rest}
      BY <1>24, <1>12, <3>2
    <3> QED
      BY <1>10, <3>1, <3>2
  <2> QED
    BY <1>2, <1>3, <1>12, <1>14, <2>1 DEF PageList
<1>19. Sizes'
  <2> SUFFICES ASSUME NEW b \in Blocks'
               PROVE  hdr'[b].size >= 8 /\ (~hdr'[b].is_free => hdr'[b].size <= PageSize)
    BY DEF Sizes
  <2>1. CASE b \in Blocks
    BY <1>12, <2>1 DEF IInv, Sizes
  <2>2. CASE b \in {p, rest}
    BY <1>4, <1>11, <2>2
  <2> QED
    BY <1>10, <2>1, <2>2
<1>20. Cursors'
  BY <1>14 DEF Cursors
<1>21. Behind'
  <2> SUFFICES ASSUME NEW b \in Blocks', hdr'[b].is_free, hdr'[b].next # 0
               PROVE  ~hdr'[hdr'[b].next].is_free
    BY <1>14 DEF Behind, NotBothFree, NULL
  <2>1. CASE b \in Blocks /\ b # last
    <3>1. hdr'[b] = hdr[b] /\ hdr[b].next \in Blocks /\ ~hdr[hdr[b].next].is_free
      BY <1>3, <1>10, <2>1 DEF IInv, ListOrder, Behind, NotBothFree, NULL
    <3> QED
      BY <1>12, <3>1
  <2>2. CASE b = last
    BY <1>11, <2>2
  <2>3. CASE b \in {p, rest}
    BY <1>11, <2>3
  <2> QED
    BY <1>10, <2>1, <2>2, <2>3
<1>22. OwnersKeepBlocks'
  BY <1>4, <1>6, <1>10, <1>11, <1>12, <1>13 DEF IInv, OwnersKeepBlocks
<1>26. Tiling'
  <2> SUFFICES ASSUME Contiguous, NEW b \in Blocks'
               PROVE  IF hdr'[b].next = 0 THEN End(b)' = PageEnd(Pool[Taken'])
                                          ELSE hdr'[b].next = End(b)'
    BY <1>3, <1>14 DEF IInv, Tiling, NULL
  <2>1. Pool[Taken'] = PageEnd(Pool[Taken])
    <3>1. Len(Pool) \in Nat
      BY PoolAssumption
    <3>2. Taken \in 1..(Len(Pool) - 1) /\ Taken' = Taken + 1
      BY <1>2, <1>3, <3>1, TakenFacts DEF IInv
    <3> QED
      BY <3>2 DEF Contiguous
  <2>2. \A x \in Blocks : IF hdr[x].next = 0 THEN x + 24 + hdr[x].size = PageEnd(Pool[Taken])
                                             ELSE hdr[x].next = x + 24 + hdr[x].size
    BY DEF IInv, Tiling, NULL, End, HDR
  <2>3. CASE b \in Blocks /\ b # last
    <3>1. hdr'[b] = hdr[b] /\ hdr[b].next # 0
      BY <1>3, <1>7, <1>8, <1>10, <2>3
    <3> QED
      BY <1>12, <2>2, <2>3, <3>1
  <2>4. CASE b = last
    BY <1>2, <1>3, <1>11, <1>12, <1>24, <2>1, <2>2, <2>4
  <2>5. CASE b = p
    BY <1>11, <1>12, <1>24, <2>5
  <2>6. CASE b = rest
    BY <1>2, <1>11, <1>12, <2>6
  <2> QED
    BY <1>10, <2>3, <2>4, <2>5, <2>6
<1> QED
  BY <1>15, <1>16, <1>17, <1>18, <1>19, <1>20, <1>21, <1>22, <1>26 DEF IInv

-----------------------------------------------------------------------------
LEMMA NextIInv == Ascending /\ IInv /\ [Next]_vars => IInv'
<1> SUFFICES ASSUME Ascending, IInv, [Next]_vars
             PROVE  IInv'
  OBVIOUS
<1>1. CASE \E n \in Requests : MallocFirst(n) \/ MallocStart(n)
  BY <1>1, FirstStep, StartStep
<1>2. CASE \E b \in DOMAIN live : Free(b)
  BY <1>2, FreeStep
<1>3. CASE Step
  BY <1>3, TakeStep, SkipStep, GrowStep, FailStep, MergeStep, MergeSkipStep, MergeDoneStep DEF Step
<1>4. CASE UNCHANGED vars
  BY <1>4 DEF vars, pageVars, heapVars, IInv, TypeOK, PageTypeOK, NoOverlap, ListOrder, PageList,
     Sizes, Cursors, Behind, NotBothFree, OwnersKeepBlocks, Tiling, Blocks, End, Taken, Fits
<1> QED
  BY <1>1, <1>2, <1>3, <1>4 DEF Next

\* Over any pool in ascending order, whatever is requested and freed and however
\* far a call has got: blocks never overlap each other or a listed page, owners
\* keep what malloc gave them, and a search that gives up has seen every block.
THEOREM HeapSafe ==
  ASSUME Ascending
  PROVE  Spec => [](TypeOK /\ NoOverlap /\ OwnersKeepBlocks /\ Coalesced /\ SearchComplete)
<1>1. IInv => TypeOK /\ NoOverlap /\ OwnersKeepBlocks /\ Coalesced /\ SearchComplete
  BY DEF IInv, Behind, NotBothFree, Coalesced, SearchComplete, Cursors, TypeOK
<1>2. Init => IInv
  BY InitIInv
<1>3. IInv /\ [Next]_vars => IInv'
  BY NextIInv
<1> QED
  BY <1>1, <1>2, <1>3, PTL DEF Spec

\* The parts of HeapSafe, each on its own: the page list, every header malloc and free
\* write and the places their loops have reached stay what the code takes them for.
COROLLARY HeapTyped ==
  ASSUME Ascending
  PROVE  Spec => []TypeOK
BY HeapSafe, PTL

\* An owner's block stays in the list, is not
\* free and is large enough, whatever malloc splits and free merges around it.
COROLLARY HeapKeepsOwners ==
  ASSUME Ascending
  PROVE  Spec => []OwnersKeepBlocks
BY HeapSafe, PTL

\* One pass of free's loop leaves no two neighbours free.
COROLLARY HeapCoalesces ==
  ASSUME Ascending
  PROVE  Spec => []Coalesced
BY HeapSafe, PTL

\* malloc takes a page, or fails, only when no block of the list fits.
COROLLARY HeapSearches ==
  ASSUME Ascending
  PROVE  Spec => []SearchComplete
BY HeapSafe, PTL

\* Over a pool without holes every byte an owner was given is memory of the pool,
\* and once everything is freed the heap is one block again.
THEOREM HeapTiles ==
  ASSUME Ascending, Contiguous
  PROVE  Spec => [](LiveInRam /\ AllFreedIsOneBlock)
<1>1. ASSUME IInv
      PROVE  LiveInRam
  <2> SUFFICES ASSUME NEW b \in DOMAIN live
               PROVE  InRam(b, b + HDR + live[b])
    BY DEF LiveInRam
  <2>1. /\ b \in Blocks /\ b \in Nat /\ hdr[b].size \in Nat /\ live[b] \in Nat
        /\ live[b] <= hdr[b].size
    BY <1>1 DEF IInv, TypeOK, OwnersKeepBlocks, Header
  <2>2. /\ Taken \in 1..Len(Pool) /\ Pool[Taken] \in Nat /\ Pool[1] \in Nat
        /\ PageEnd(Pool[Taken]) \in Nat
    BY <1>1, <2>1, TakenFacts DEF IInv
  <2>3. Pool[1] <= b /\ b + 24 + hdr[b].size <= PageEnd(Pool[Taken])
    BY <1>1, <2>1 DEF IInv, PageList, End, HDR
  <2>4. b + HDR + live[b] <= PageEnd(Pool[Taken])
    BY <2>1, <2>2, <2>3 DEF HDR
  <2>5. \A k \in 1..(Taken - 1) : Pool[k + 1] = PageEnd(Pool[k])
    BY <2>2, PoolAssumption DEF Contiguous
  <2>6. 1 \in 1..Len(Pool) /\ 1 <= Taken
    BY <2>2, PoolAssumption
  <2> QED
    BY <2>2, <2>3, <2>4, <2>5, <2>6 DEF InRam
<1>2. ASSUME IInv
      PROVE  AllFreedIsOneBlock
  <2> SUFFICES ASSUME pc = "idle", DOMAIN live = {}, malloc_head # NULL
               PROVE  /\ Blocks = {malloc_head}
                      /\ malloc_head = Pool[1]
                      /\ End(malloc_head) = PageEnd(Pool[Taken])
    BY DEF AllFreedIsOneBlock
  <2>1. malloc_head \in Blocks /\ malloc_head = Pool[1]
    BY <1>2 DEF IInv, TypeOK, Tiling
  <2>2. \A b \in Blocks : hdr[b].is_free
    BY <1>2 DEF IInv, OwnersKeepBlocks
  <2>3. \A b \in Blocks : hdr[b].next = NULL
    BY <1>2, <2>2 DEF IInv, ListOrder, Behind, NotBothFree
  <2>4. ASSUME NEW b \in Blocks
        PROVE  b = malloc_head
    <3>1. b \in Nat /\ malloc_head \in Nat /\ malloc_head <= b
      BY <1>2, <2>1 DEF IInv, TypeOK, ListOrder
    <3>2. ~(malloc_head < b)
      BY <1>2, <2>1, <2>3 DEF IInv, ListOrder
    <3> QED
      BY <3>1, <3>2
  <2> QED
    BY <1>2, <2>1, <2>3, <2>4 DEF IInv, Tiling
<1>3. Init => IInv
  BY InitIInv
<1>4. IInv /\ [Next]_vars => IInv'
  BY NextIInv
<1> QED
  BY <1>1, <1>2, <1>3, <1>4, PTL DEF Spec

\* Over a pool without holes no byte is ever lost to the heap.
COROLLARY HeapReturnsToOneBlock ==
  ASSUME Ascending, Contiguous
  PROVE  Spec => []AllFreedIsOneBlock
BY HeapTiles, PTL

-----------------------------------------------------------------------------
(* Refinement. *)

\* In a state of IInv no two blocks share a byte, and all lie in the heap's range.
AllApart ==
  Blocks # {} =>
  /\ HeapStart \in Nat /\ HeapEnd \in Nat
  /\ \A a \in Blocks :
       /\ a \in Nat /\ hdr[a].size \in Nat
       /\ HeapStart <= a /\ a + 24 + hdr[a].size <= HeapEnd
       /\ \A b \in Blocks \ {a} :
            a + 24 + hdr[a].size <= b \/ b + 24 + hdr[b].size <= a

LEMMA BlocksApart ==
  ASSUME Ascending, IInv
  PROVE  AllApart
<1> SUFFICES ASSUME Blocks # {}
             PROVE  AllApart
  BY DEF AllApart
<1>1. \A x \in Blocks : x \in Nat /\ hdr[x].size \in Nat
  BY DEF IInv, TypeOK, Header
<1>2. /\ Taken \in 1..Len(Pool) /\ Pool[Taken] \in Nat /\ Pool[1] \in Nat
      /\ PageEnd(Pool[Taken]) \in Nat
  BY TakenFacts DEF IInv
<1>3. Len(Pool) \in Nat /\ Len(Pool) \in 1..Len(Pool) /\ Pool[Len(Pool)] \in Nat
  BY <1>2, PoolAssumption, PoolElements
<1>4. PageEnd(Pool[Taken]) <= PageEnd(Pool[Len(Pool)])
  <2>1. CASE Taken = Len(Pool)
    BY <1>3, <2>1, PageSizeAssumption DEF PageEnd
  <2>2. CASE Taken # Len(Pool)
    BY <1>2, <1>3, <2>2, PageSizeAssumption DEF PageEnd, Ascending
  <2> QED
    BY <2>1, <2>2
<1>5. HeapStart \in Nat /\ HeapEnd \in Nat
  BY <1>2, <1>3, PageSizeAssumption DEF HeapStart, HeapEnd, PageEnd
<1>6. \A x, y \in Blocks : x < y => x + 24 + hdr[x].size <= y
  BY DEF IInv, NoOverlap, End, HDR
<1>7. ASSUME NEW a \in Blocks
      PROVE  /\ a \in Nat /\ hdr[a].size \in Nat
             /\ HeapStart <= a /\ a + 24 + hdr[a].size <= HeapEnd
             /\ \A b \in Blocks \ {a} :
                  a + 24 + hdr[a].size <= b \/ b + 24 + hdr[b].size <= a
  <2>1. Pool[1] <= a /\ a + 24 + hdr[a].size <= PageEnd(Pool[Taken])
    BY DEF IInv, PageList, End, HDR
  <2>2. HeapStart <= a /\ a + 24 + hdr[a].size <= HeapEnd
    BY <1>1, <1>2, <1>4, <1>5, <2>1 DEF HeapStart, HeapEnd
  <2>3. \A b \in Blocks \ {a} : a + 24 + hdr[a].size <= b \/ b + 24 + hdr[b].size <= a
    BY <1>1, <1>6
  <2> QED
    BY <1>1, <2>2, <2>3
<1> QED
  BY <1>5, <1>7 DEF AllApart

\* A step that gives block b to an owner who asked for n bytes is an abstract step.
LEMMA GrantRefines ==
  ASSUME IInv, IInv', AllApart', NEW b, NEW n \in Requests, Grant(b, n), b \notin DOMAIN live
  PROVE  Abstract!Acquire(b, n) /\ b \in DOMAIN live' \ DOMAIN live
<1>1. live \in [DOMAIN live -> Nat] /\ n \in Nat
  BY RequestsAssumption DEF IInv, TypeOK
<1>2. /\ DOMAIN live' = DOMAIN live \cup {b} /\ live'[b] = n
      /\ \A x \in DOMAIN live : live'[x] = live[x] /\ live[x] \in Nat /\ x # b
  BY <1>1, GrantStep
<1>3. \A x \in DOMAIN live' : x \in Blocks' /\ hdr'[x].size >= live'[x]
  BY DEF IInv, OwnersKeepBlocks
<1>4. /\ HeapStart \in Nat /\ HeapEnd \in Nat
      /\ \A a \in Blocks' :
           /\ a \in Nat /\ hdr'[a].size \in Nat
           /\ HeapStart <= a /\ a + 24 + hdr'[a].size <= HeapEnd
           /\ \A x \in Blocks' \ {a} :
                a + 24 + hdr'[a].size <= x \/ x + 24 + hdr'[x].size <= a
  BY <1>2, <1>3 DEF AllApart
<1>5. /\ b \in Blocks' /\ b \in Nat /\ hdr'[b].size \in Nat /\ n <= hdr'[b].size
      /\ HeapStart <= b /\ b + 24 + hdr'[b].size <= HeapEnd
  BY <1>2, <1>3, <1>4
<1>6. ASSUME NEW x \in DOMAIN live
      PROVE  b + 24 + n <= x \/ x + 24 + live[x] <= b
  <2>1. x \in Blocks' /\ x # b /\ x \in Nat /\ hdr'[x].size \in Nat /\ live[x] \in Nat
        /\ live[x] <= hdr'[x].size
    BY <1>2, <1>3, <1>4
  <2>2. b + 24 + hdr'[b].size <= x \/ x + 24 + hdr'[x].size <= b
    BY <1>4, <1>5, <2>1
  <2> QED
    BY <1>1, <1>5, <2>1, <2>2
<1>7. Abstract!Apart(b, n)
  BY <1>6 DEF Abstract!Apart, HDR
<1>8. HeapStart <= b /\ b + HDR + n <= HeapEnd
  BY <1>1, <1>4, <1>5 DEF HDR
<1> QED
  BY <1>2, <1>7, <1>8 DEF Abstract!Acquire, Grant

LEMMA NextRefines ==
  ASSUME Ascending, IInv, IInv', AllApart', [Next]_vars
  PROVE  Abstract!ANext \/ UNCHANGED live
<1>1. CASE MallocTake
  <2>1. current \notin DOMAIN live /\ Grant(current, req)
    BY <1>1 DEF MallocTake, Fits, IInv, OwnersKeepBlocks
  <2>2. req \in Requests
    BY <1>1 DEF IInv, Cursors, MallocTake
  <2> QED
    BY <2>1, <2>2, GrantRefines DEF Abstract!ANext
<1>2. CASE MallocGrow
  <2>1. PICK p \in PageAddrs : AllocPage(p) /\ Grant(p, req)
    BY <1>2 DEF MallocGrow
  <2>2. p \notin DOMAIN live
    <3>1. p \in Nat /\ p \in Listed(free_pages_list)
      BY <2>1, AllocFacts DEF IInv, TypeOK, PageList
    <3>2. ASSUME p \in Blocks
          PROVE  FALSE
      <4>1. hdr[p].size \in Nat /\ p + 24 + hdr[p].size <= p
        BY <3>1, <3>2 DEF IInv, TypeOK, Header, NoOverlap, End, HDR
      <4> QED
        BY <3>1, <4>1
    <3> QED
      BY <3>2 DEF IInv, TypeOK
  <2>3. req \in Requests
    BY <1>2 DEF IInv, Cursors, MallocGrow
  <2> QED
    BY <2>1, <2>2, <2>3, GrantRefines DEF Abstract!ANext
<1>3. CASE \E b \in DOMAIN live : Free(b)
  BY <1>3 DEF Free, Disowned, Abstract!ANext, Abstract!Release
<1>4. CASE \E n \in Requests : MallocFirst(n) \/ MallocStart(n)
  BY <1>4 DEF MallocFirst, MallocStart
<1>5. CASE MallocSkip \/ MallocFail \/ Merge \/ MergeSkip \/ MergeDone
  BY <1>5 DEF MallocSkip, MallocFail, Merge, MergeSkip, MergeDone
<1>6. CASE UNCHANGED vars
  BY <1>6 DEF vars, heapVars
<1> QED
  BY <1>1, <1>2, <1>3, <1>4, <1>5, <1>6 DEF Next, Step

\* The heap implements the abstract allocator over any pool in ascending order.
THEOREM HeapImplements ==
  ASSUME Ascending
  PROVE  Spec => ImplementsAbstract
<1>1. Init => IInv /\ Abstract!AInit
  BY InitIInv DEF Init, Abstract!AInit
<1>2. IInv /\ [Next]_vars => IInv'
  BY NextIInv
<1>3. IInv => AllApart
  BY BlocksApart
<1>4. IInv /\ IInv' /\ AllApart' /\ [Next]_vars => [Abstract!ANext]_live
  BY NextRefines
<1> QED
  BY <1>1, <1>2, <1>3, <1>4, PTL DEF Spec, ImplementsAbstract, Abstract!ASpec
=============================================================================
