---------------------------- MODULE MemoryProofs ----------------------------
(***************************************************************************)
(* Proofs about the two clients of the page allocator that are more than a *)
(* page or two: the kernel heap (Heap) and the program loader (Exec).      *)
(*                                                                         *)
(* The bump allocator of mm/heap.c hands out disjoint blocks inside pages  *)
(* it owns, for any page size, any amount of memory and any other client   *)
(* of the page allocator, as long as nobody asks for more than one page.   *)
(* The loader keeps its invariant for programs, clusters, pages and        *)
(* numbers of commands of any size; a load that succeeds has put every     *)
(* byte in its place; and running programs stay as they are.               *)
(***************************************************************************)
EXTENDS Heap, Exec, RingTheorems, FiniteSetTheorems

----------------------------------------------------------------------------
(* The heap *)

AtMostAPage == \A size \in SIZES : size <= HEAP_PAGE_SIZE

\* Rounding a request of at most a page to words stays within the page, never
\* wraps, and loses nothing.
LEMMA RoundUpFacts ==
  ASSUME AtMostAPage, NEW size \in SIZES, size > 0
  PROVE  /\ RoundUp(size) \in Nat /\ RoundUp(size) % 8 = 0
         /\ size <= RoundUp(size) /\ RoundUp(size) <= HEAP_PAGE_SIZE
  <1>1. /\ size \in Nat /\ size <= HEAP_PAGE_SIZE /\ HEAP_PAGE_SIZE \in Nat
        /\ HEAP_PAGE_SIZE % 8 = 0 /\ SIZE_LIMIT \in Nat /\ HEAP_PAGE_SIZE < SIZE_LIMIT
    BY HeapAssumption DEF AtMostAPage
  <1>2. CASE size % 8 = 0
    BY <1>1, <1>2 DEF RoundUp
  <1>3. CASE size % 8 # 0
    <2> DEFINE up == size + (8 - (size % 8))
    <2>1. up \in Nat /\ size <= up /\ up % 8 = 0
      BY <1>1, <1>3
    <2>2. up <= HEAP_PAGE_SIZE
      BY <1>1, <1>3
    <2>3. up % SIZE_LIMIT = up
      BY <1>1, <2>1, <2>2
    <2> QED BY <1>3, <2>1, <2>2, <2>3 DEF RoundUp
  <1> QED BY <1>2, <1>3

\* The page allocator marks the page it gives out, which was free, and no other.
LEMMA AllocatedPage ==
  ASSUME NEW p \in Managed, pmm_alloc_page(p), pmm_bitmap \subseteq Page
  PROVE  /\ p \notin pmm_bitmap /\ pmm_bitmap' = pmm_bitmap \union {p}
         /\ p \in Page /\ p # NULL /\ pmm_bitmap' \subseteq Page
  BY PageAssumption DEF pmm_alloc_page, FreePages, Managed, Page, NULL

\* Carving a block that fits at a cursor above all blocks of its page keeps the
\* part of IInv that is about blocks.
LEMMA CarveKeepsBlocks ==
  ASSUME IInv, AtMostAPage, NEW size \in SIZES, size > 0,
         NEW p \in Page, NEW off \in Nat, NEW left \in Nat,
         p # NULL, off % 8 = 0, off + left = HEAP_PAGE_SIZE, RoundUp(size) <= left,
         \A b \in blocks : b.page = p => b.off + b.size <= off,
         Carve([page |-> p, off |-> off], left, size),
         p \in heap_pages', heap_pages \subseteq heap_pages'
  PROVE  /\ BlocksDisjoint' /\ BlocksOwned' /\ CursorInPage'
         /\ heap_cursor' \in [page : Page, off : Nat]
         /\ heap_remaining' \in 0 .. SIZE_LIMIT - 1
         /\ blocks' \subseteq [page : Page, off : Nat, size : Nat]
  <1> DEFINE n == RoundUp(size)
             new == [page |-> p, off |-> off, size |-> size]
  <1>0. /\ n \in Nat /\ n % 8 = 0 /\ size <= n /\ size \in Nat
        /\ HEAP_PAGE_SIZE \in Nat /\ SIZE_LIMIT \in Nat /\ HEAP_PAGE_SIZE < SIZE_LIMIT
    BY RoundUpFacts, HeapAssumption
  <1>1. /\ blocks' = blocks \union {new}
        /\ heap_cursor' = [page |-> p, off |-> off + n]
        /\ heap_remaining' = (left - n) % SIZE_LIMIT
    BY DEF Carve
  <1>2. heap_remaining' = left - n
    <2>1. left - n \in Nat /\ left - n < SIZE_LIMIT
      BY <1>0
    <2>2. \A a \in Nat : a < SIZE_LIMIT => a % SIZE_LIMIT = a
      BY <1>0
    <2> HIDE DEF n
    <2> QED BY <1>1, <2>1, <2>2
  <1>3. blocks \subseteq [page : Page, off : Nat, size : Nat]
    BY DEF IInv, TypeOK
  <1>4. new \in [page : Page, off : Nat, size : Nat]
    BY <1>0
  <1>5. BlocksDisjoint'
    <2>1. \A b \in blocks : b.page = p => b.off + b.size <= new.off
      OBVIOUS
    <2>2. BlocksDisjoint BY DEF IInv
    <2> QED BY <1>1, <1>3, <1>4, <2>1, <2>2 DEF BlocksDisjoint
  <1>6. BlocksOwned'
    <2>1. new.page \in heap_pages' /\ new.off + new.size <= HEAP_PAGE_SIZE
      BY <1>0
    <2>2. BlocksOwned BY DEF IInv
    <2> QED BY <1>1, <2>1, <2>2 DEF BlocksOwned
  <1>7. CursorInPage'
    <2>1. (off + n) + (left - n) = HEAP_PAGE_SIZE /\ (off + n) % 8 = 0
      BY <1>0
    <2>2. \A b \in blocks' : b.page = p => b.off + b.size <= off + n
      <3>1. \A b \in blocks : b.page = p => b.off + b.size <= off + n
        <4> HIDE DEF n
        <4> QED BY <1>0, <1>3
      <3>2. new.off + new.size <= off + n
        <4> HIDE DEF n
        <4> QED BY <1>0
      <3> QED BY <1>1, <3>1, <3>2
    <2> QED BY <1>1, <1>2, <2>1, <2>2 DEF CursorInPage
  <1> QED BY <1>0, <1>1, <1>2, <1>3, <1>4, <1>5, <1>6, <1>7

\* malloc keeps the invariant on all of its paths, the failing one included.
LEMMA MallocKeepsInv ==
  ASSUME IInv, AtMostAPage, NEW size \in SIZES, malloc(size)
  PROVE  IInv'
  <1>0. /\ TypeOK /\ BlocksDisjoint /\ BlocksOwned /\ PagesOwned /\ CursorInPage
        /\ size > 0 /\ other_pages' = other_pages
    BY DEF IInv, malloc
  <1>1. CASE /\ ~NeedsPage(RoundUp(size))
             /\ Carve(heap_cursor, heap_remaining, size)
             /\ UNCHANGED <<pmm_bitmap, heap_pages>>
    <2>1. PICK p \in Page, off \in Nat : heap_cursor = [page |-> p, off |-> off]
      BY <1>0 DEF TypeOK
    <2>2. PICK left \in Nat : left = heap_remaining
      BY <1>0, HeapAssumption DEF TypeOK
    <2>3. /\ p # NULL /\ p \in heap_pages /\ off + left = HEAP_PAGE_SIZE /\ off % 8 = 0
          /\ \A b \in blocks : b.page = p => b.off + b.size <= off
      BY <1>0, <1>1, <2>1, <2>2 DEF NeedsPage, CursorInPage
    <2>4. RoundUp(size) <= left
      BY <1>0, <1>1, <2>2, RoundUpFacts DEF NeedsPage
    <2>5. Carve([page |-> p, off |-> off], left, size)
      BY <1>1, <2>1, <2>2
    <2>6. /\ BlocksDisjoint' /\ BlocksOwned' /\ CursorInPage'
          /\ heap_cursor' \in [page : Page, off : Nat]
          /\ heap_remaining' \in 0 .. SIZE_LIMIT - 1
          /\ blocks' \subseteq [page : Page, off : Nat, size : Nat]
      BY <1>0, <1>1, <2>3, <2>4, <2>5, CarveKeepsBlocks
    <2>7. PagesOwned'
      BY <1>0, <1>1 DEF PagesOwned
    <2> QED BY <1>0, <1>1, <2>6, <2>7 DEF IInv, TypeOK
  <1>2. ASSUME NEW p \in Managed, pmm_alloc_page(p),
               Carve([page |-> p, off |-> 0], HEAP_PAGE_SIZE, size),
               heap_pages' = heap_pages \union {p}
        PROVE  IInv'
    <2>1. /\ p \notin pmm_bitmap /\ pmm_bitmap' = pmm_bitmap \union {p}
          /\ p \in Page /\ p # NULL /\ pmm_bitmap' \subseteq Page
      BY <1>0, <1>2, AllocatedPage DEF TypeOK
    <2>2. p \notin heap_pages /\ p \notin other_pages
      BY <1>0, <2>1 DEF PagesOwned
    <2>3. \A b \in blocks : b.page # p
      BY <1>0, <2>2 DEF BlocksOwned
    <2>4. HEAP_PAGE_SIZE \in Nat /\ RoundUp(size) <= HEAP_PAGE_SIZE /\ 0 + HEAP_PAGE_SIZE = HEAP_PAGE_SIZE
          /\ 0 % 8 = 0 /\ 0 \in Nat
      BY <1>0, RoundUpFacts, HeapAssumption
    <2>5. /\ BlocksDisjoint' /\ BlocksOwned' /\ CursorInPage'
          /\ heap_cursor' \in [page : Page, off : Nat]
          /\ heap_remaining' \in 0 .. SIZE_LIMIT - 1
          /\ blocks' \subseteq [page : Page, off : Nat, size : Nat]
      BY <1>0, <1>2, <2>1, <2>3, <2>4, CarveKeepsBlocks
    <2>6. PagesOwned'
      BY <1>0, <1>2, <2>1, <2>2 DEF PagesOwned
    <2> QED BY <1>0, <1>2, <2>1, <2>5, <2>6 DEF IInv, TypeOK
  <1>3. CASE /\ pmm_alloc_fails
             /\ heap_cursor' = NoCursor
             /\ UNCHANGED <<heap_remaining, heap_pages, blocks>>
    <2>1. UNCHANGED pmm_bitmap
      BY <1>3 DEF pmm_alloc_fails
    <2>2. heap_cursor' \in [page : Page, off : Nat]
      BY <1>3, PageAssumption DEF NoCursor, NULL, Page
    <2>3. CursorInPage'
      BY <1>3 DEF CursorInPage, NoCursor
    <2> QED BY <1>0, <1>3, <2>1, <2>2, <2>3
            DEF IInv, TypeOK, BlocksDisjoint, BlocksOwned, PagesOwned
  <1> QED BY <1>1, <1>2, <1>3 DEF malloc

\* The other clients neither get a page of the heap nor can they free one.
LEMMA OtherKeepsInv ==
  ASSUME IInv, OtherAlloc \/ OtherFree
  PROVE  IInv'
  <1>0. /\ TypeOK /\ PagesOwned
        /\ UNCHANGED <<heap_cursor, heap_remaining, heap_pages, blocks>>
    BY DEF IInv, OtherAlloc, OtherFree
  <1>1. pmm_bitmap' \subseteq Page /\ other_pages' \subseteq Managed /\ PagesOwned'
    <2>1. CASE OtherAlloc
      <3>1. PICK p \in Managed :
              pmm_alloc_page(p) /\ other_pages' = other_pages \union {p}
        BY <2>1 DEF OtherAlloc
      <3>2. /\ p \notin pmm_bitmap /\ pmm_bitmap' = pmm_bitmap \union {p}
            /\ pmm_bitmap' \subseteq Page
        BY <1>0, <3>1, AllocatedPage DEF TypeOK
      <3> QED BY <1>0, <3>1, <3>2 DEF PagesOwned, TypeOK
    <2>2. CASE OtherFree
      <3>1. PICK p \in other_pages :
              pmm_free_page(p) /\ other_pages' = other_pages \ {p}
        BY <2>2 DEF OtherFree
      <3>2. p \in Managed /\ pmm_bitmap' = pmm_bitmap \ {p}
        BY <1>0, <3>1 DEF pmm_free_page, TypeOK
      <3> QED BY <1>0, <3>1, <3>2 DEF PagesOwned, TypeOK
    <2> QED BY <2>1, <2>2
  <1> QED BY <1>0, <1>1
          DEF IInv, TypeOK, BlocksDisjoint, BlocksOwned, CursorInPage

\* Every reachable state of the heap satisfies IInv.
THEOREM HeapInvariance == ASSUME AtMostAPage PROVE HeapSpec => []IInv
  <1>1. HeapInit => IInv
    <2> SUFFICES ASSUME HeapInit PROVE IInv OBVIOUS
    <2>1. heap_cursor.page = NULL /\ heap_cursor \in [page : Page, off : Nat]
      BY PageAssumption DEF HeapInit, NoCursor, NULL, Page
    <2>2. pmm_bitmap \subseteq Page /\ pmm_bitmap \intersect Managed = {}
      BY DEF HeapInit, pmm_init
    <2>3. heap_remaining \in 0 .. SIZE_LIMIT - 1
      BY HeapAssumption DEF HeapInit
    <2> QED BY <2>1, <2>2, <2>3
            DEF HeapInit, IInv, TypeOK, BlocksDisjoint, BlocksOwned, PagesOwned,
                CursorInPage
  <1>2. IInv /\ [HeapNext]_heap_vars => IInv'
    <2> SUFFICES ASSUME IInv, [HeapNext]_heap_vars PROVE IInv' OBVIOUS
    <2>1. CASE \E size \in SIZES : malloc(size)
      BY <2>1, MallocKeepsInv
    <2>2. CASE OtherAlloc \/ OtherFree
      BY <2>2, OtherKeepsInv
    <2>3. CASE UNCHANGED heap_vars
      BY <2>3 DEF heap_vars, IInv, TypeOK, BlocksDisjoint, BlocksOwned, PagesOwned,
                  CursorInPage
    <2> QED BY <2>1, <2>2, <2>3 DEF HeapNext
  <1> QED BY <1>1, <1>2, PTL DEF HeapSpec

\* malloc's blocks are disjoint and aligned.
THEOREM BlocksDisjointHolds == ASSUME AtMostAPage PROVE HeapSpec => []BlocksDisjoint
  <1>1. IInv => BlocksDisjoint BY DEF IInv
  <1> QED BY <1>1, HeapInvariance, PTL

\* malloc's blocks lie in pages that malloc owns.
THEOREM BlocksOwnedHolds == ASSUME AtMostAPage PROVE HeapSpec => []BlocksOwned
  <1>1. IInv => BlocksOwned BY DEF IInv
  <1> QED BY <1>1, HeapInvariance, PTL

----------------------------------------------------------------------------
(* Arithmetic *)

\* The smallest element of a set of two or three numbers.
LEMMA MinOfFew ==
  ASSUME NEW a \in Int, NEW b \in Int, NEW c \in Int, NEW S, S = {a, b} \/ S = {a, b, c}
  PROVE  Min(S) \in S /\ \A y \in S : Min(S) <= y
<1>1. \E x \in S : \A y \in S : x <= y
  <2>1. CASE S = {a, b}
    <3>1. CASE a <= b BY <2>1, <3>1
    <3>2. CASE b <= a BY <2>1, <3>2
    <3>. QED BY <3>1, <3>2
  <2>2. CASE S = {a, b, c}
    <3>1. CASE a <= b /\ a <= c BY <2>2, <3>1
    <3>2. CASE b <= a /\ b <= c BY <2>2, <3>2
    <3>3. CASE c <= a /\ c <= b BY <2>2, <3>3
    <3>. QED BY <3>1, <3>2, <3>3
  <2>. QED BY <2>1, <2>2
<1>. QED BY <1>1 DEF Min

----------------------------------------------------------------------------
(* Files and reads *)

PhdrType ==
  [load : BOOLEAN, offset : uint64, vaddr : uint64, filesz : uint64, memsz : uint64]

LEMMA WordTyped == \A x \in uint64 : x \in Nat /\ x < ADDRESS_LIMIT
  BY ExecAssumption DEF uint64

LEMMA FileTyped ==
  ASSUME NEW g \in PROGRAMS
  PROVE  /\ FILE[g].size \in Nat /\ FILE[g].phoff \in Nat
         /\ FILE[g].phdrs \in Seq(PhdrType) /\ Len(FILE[g].phdrs) \in Nat
<1>1. /\ FILE[g].size \in Nat /\ FILE[g].phoff \in uint64
      /\ FILE[g].phdrs \in Seq(PhdrType)
  BY FileAssumption DEF PhdrType
<1>. QED BY <1>1, WordTyped

LEMMA PhdrTyped ==
  ASSUME NEW g \in PROGRAMS, NEW i \in 1 .. Len(FILE[g].phdrs)
  PROVE  /\ FILE[g].phdrs[i] \in PhdrType
         /\ FILE[g].phdrs[i].offset \in Nat /\ FILE[g].phdrs[i].vaddr \in Nat
         /\ FILE[g].phdrs[i].filesz \in Nat /\ FILE[g].phdrs[i].memsz \in Nat
         /\ FILE[g].phdrs[i].vaddr < ADDRESS_LIMIT /\ FILE[g].phdrs[i].memsz < ADDRESS_LIMIT
<1>1. FILE[g].phdrs[i] \in PhdrType
  BY FileTyped
<1>2. /\ FILE[g].phdrs[i].offset \in uint64 /\ FILE[g].phdrs[i].vaddr \in uint64
      /\ FILE[g].phdrs[i].filesz \in uint64 /\ FILE[g].phdrs[i].memsz \in uint64
  BY <1>1 DEF PhdrType
<1>. QED BY <1>1, <1>2, WordTyped

LEMMA SegmentsAre ==
  ASSUME NEW g \in PROGRAMS
  PROVE  \A s : s \in LoadSegments(g) <=>
                  \E i \in 1 .. Len(FILE[g].phdrs) : s = FILE[g].phdrs[i] /\ s.load
  <1>1. FILE[g].phdrs \in Seq(PhdrType)
    BY FileTyped
  <1>2. DOMAIN FILE[g].phdrs = 1 .. Len(FILE[g].phdrs)
    BY <1>1
  <1>. QED BY <1>2 DEF LoadSegments, Range

\* The fields of the state, one by one.
LEMMA StateTyped ==
  ASSUME ExecTypeOK
  PROVE  /\ prog \in PROGRAMS /\ file.size \in Nat /\ Len(file.phdrs) \in Nat
         /\ seg \in Nat /\ seg >= 1
         /\ open_file.cluster \in Nat \union {-1} /\ open_file.position \in Nat
         /\ open_file = [cluster |-> open_file.cluster, position |-> open_file.position]
         /\ open_file.position <= file.size
         /\ rd.need \in Nat /\ rd.left \in Nat /\ rd.got \in Nat /\ rd.to \in Nat
         /\ rd = [need |-> rd.need, left |-> rd.left, got |-> rd.got, to |-> rd.to]
         /\ rd.left <= rd.need /\ rd.left <= file.size - open_file.position
<1>1. prog \in PROGRAMS
  BY DEF ExecTypeOK
<1>2. file.size \in Nat /\ Len(file.phdrs) \in Nat
  BY <1>1, FileTyped DEF file
<1>3. open_file \in [cluster : Nat \union {-1}, position : 0 .. file.size]
  BY DEF ExecTypeOK
<1>4. rd \in [need : Nat, left : Nat, got : Nat, to : Nat]
  BY DEF ExecTypeOK
<1>5. seg \in 1 .. Len(file.phdrs) + 1
  BY DEF ExecTypeOK
<1>6. rd.left <= rd.need /\ rd.left <= file.size - open_file.position
  BY DEF ExecTypeOK
<1>7. /\ open_file.cluster \in Nat \union {-1} /\ open_file.position \in 0 .. file.size
      /\ open_file = [cluster |-> open_file.cluster, position |-> open_file.position]
  BY <1>3
<1>8. /\ rd.need \in Nat /\ rd.left \in Nat /\ rd.got \in Nat /\ rd.to \in Nat
      /\ rd = [need |-> rd.need, left |-> rd.left, got |-> rd.got, to |-> rd.to]
  BY <1>4
<1>9. open_file.position \in Nat /\ open_file.position <= file.size
  BY <1>2, <1>7
<1>10. seg \in Nat /\ seg >= 1
  BY <1>2, <1>5
<1>. QED BY <1>1, <1>2, <1>6, <1>7, <1>8, <1>9, <1>10

\* What the next call asks for is wanted, and is there.
LEMMA CountBounds ==
  ASSUME ExecTypeOK
  PROVE  /\ Count \in Int
         /\ Count > 0 => Count <= rd.need /\ Count <= file.size - open_file.position
<1>. DEFINE rest == file.size - open_file.position
<1>1. rd.need \in Nat /\ rd.left \in Nat /\ rest \in Int /\ CHUNK \in Int
  BY StateTyped, ExecAssumption
<1>2. rd.left <= rd.need /\ rd.left <= rest
  BY StateTyped
<1>3. PICK S : Asked = Min(S) /\ (S = {rd.need, rest} \/ S = {rd.need, rest, CHUNK})
  <2>1. CASE pc \in {"seek_phdrs", "seek_segment"}
    <3>1. {rd.need, rest} \union {CHUNK} = {rd.need, rest, CHUNK}
      OBVIOUS
    <3>. QED BY <2>1, <3>1 DEF Asked
  <2>2. CASE ~(pc \in {"seek_phdrs", "seek_segment"})
    <3>1. {rd.need, rest} \union {} = {rd.need, rest}
      OBVIOUS
    <3>. QED BY <2>2, <3>1 DEF Asked
  <2>. QED BY <2>1, <2>2
<1>. HIDE DEF rest
<1>4. Min(S) \in S /\ \A y \in S : Min(S) <= y
  BY <1>1, <1>3, MinOfFew
<1>5. Asked \in Int /\ Asked <= rd.need /\ Asked <= rest
  BY <1>1, <1>3, <1>4
<1>6. CASE rd.left = 0
  BY <1>5, <1>6 DEF Count, rest
<1>7. CASE rd.left # 0
  BY <1>1, <1>2, <1>7 DEF Count, rest
<1>. QED BY <1>6, <1>7

\* One turn of fat32_read: some bytes of the current cluster, all of them wanted.
LEMMA TurnBounds ==
  ASSUME ExecTypeOK, Count > 0
  PROVE  /\ ToCopy \in Nat \ {0} /\ ToCopy <= Count
         /\ ToCopy <= CLUSTER_SIZE - (open_file.position % CLUSTER_SIZE)
<1>. DEFINE rest == CLUSTER_SIZE - (open_file.position % CLUSTER_SIZE)
<1>1. open_file.position \in Nat
  BY StateTyped
<1>2. rest \in Nat \ {0}
  BY <1>1, DivMod, ExecAssumption
<1>3. Count \in Int
  BY CountBounds
<1>4. ToCopy = Min({Count, rest})
  BY DEF ToCopy
<1>. HIDE DEF rest
<1>5. Min({Count, rest}) \in {Count, rest} /\ \A y \in {Count, rest} : Min({Count, rest}) <= y
  BY <1>2, <1>3, MinOfFew
<1>6. ToCopy \in {Count, rest} /\ ToCopy <= Count /\ ToCopy <= rest
  BY <1>4, <1>5
<1>7. ToCopy \in Nat \ {0}
  BY <1>2, <1>3, <1>6
<1>. QED BY <1>6, <1>7 DEF rest

\* The window.
LEMMA LoadRange ==
  /\ USER_LOAD_MIN \in Nat \ {0} /\ USER_LOAD_MAX \in Nat
  /\ USER_LOAD_MAX < ADDRESS_LIMIT /\ ADDRESS_LIMIT \in Nat
  /\ PAGE_SIZE \in Nat \ {0} /\ CLUSTER_SIZE \in Nat \ {0}
<1>1. /\ PAGE_SIZE \in Nat \ {0} /\ RESERVED_PAGES \in Nat \ {0} /\ TOTAL_PAGES \in Nat
      /\ CLUSTER_SIZE \in Nat \ {0}
  BY ExecAssumption, PageAssumption
<1>2. USER_LOAD_MIN \in Nat /\ USER_LOAD_MAX \in Nat
  BY <1>1 DEF USER_LOAD_MIN, USER_LOAD_MAX
<1>3. \A a, b \in Nat \ {0} : a * b # 0
  OBVIOUS
<1>4. ADDRESS_LIMIT \in Nat /\ USER_LOAD_MAX < ADDRESS_LIMIT
  BY <1>2, ExecAssumption DEF USER_LOAD_MAX
<1>. QED BY <1>1, <1>2, <1>3, <1>4 DEF USER_LOAD_MIN

\* What a turn of fat32_read does: n bytes from the current cluster, and on to the
\* next one at its end.
LEMMA ReadClusterDoes ==
  ASSUME ExecTypeOK, ReadCluster
  PROVE  \E n \in Nat \ {0}, c \in Nat \union {-1}, l \in Nat, got \in Nat :
           /\ n <= rd.need /\ n <= file.size - open_file.position
           /\ n <= CLUSTER_SIZE - (open_file.position % CLUSTER_SIZE)
           /\ memory' = Copied(n) /\ (rd.to # 0 => rd.to + n <= USER_LOAD_MAX)
           /\ open_file' = [cluster |-> c, position |-> open_file.position + n]
           /\ rd' = [need |-> rd.need - n, left |-> l, got |-> got,
                     to |-> IF rd.to = 0 THEN 0 ELSE rd.to + n]
           /\ l <= rd.need - n /\ l <= file.size - (open_file.position + n)
           /\ open_file.cluster >= 0 => c >= 0
           /\ ~FAT_FAULTS =>
                c = IF \/ (open_file.position + n) % CLUSTER_SIZE # 0
                       \/ open_file.cluster = LastCluster
                    THEN open_file.cluster ELSE open_file.cluster + 1
<1>1. Count > 0 /\ memory' = Copied(ToCopy) /\ ~CopyFaults
  BY DEF ReadCluster
<1>2. PICK n : n = ToCopy
  OBVIOUS
<1>3. n \in Nat \ {0} /\ n <= Count /\ n <= CLUSTER_SIZE - (open_file.position % CLUSTER_SIZE)
  BY <1>1, <1>2, TurnBounds
<1>4. Count \in Int /\ Count <= rd.need /\ Count <= file.size - open_file.position
  BY <1>1, CountBounds
<1>. DEFINE position == open_file.position + n
            after == [need |-> rd.need - n, left |-> Count - n, got |-> rd.got + n,
                      to |-> IF rd.to = 0 THEN 0 ELSE rd.to + n]
            done == [after EXCEPT !.left = 0, !.got = 0]
<1>5. \/ /\ position % CLUSTER_SIZE # 0
         /\ open_file' = [open_file EXCEPT !.position = position]
         /\ rd' = IF after.left = 0 THEN done ELSE after
      \/ /\ position % CLUSTER_SIZE = 0
         /\ \E next \in NextClusters :
               IF next = -1
               THEN open_file' = [open_file EXCEPT !.position = position] /\ rd' = done
               ELSE /\ open_file' = [cluster |-> next, position |-> position]
                    /\ rd' = IF after.left = 0 THEN done ELSE after
  BY <1>2 DEF ReadCluster
<1>6. PICK c \in Nat \union {-1} :
        /\ open_file' = [cluster |-> c, position |-> position]
        /\ rd' \in {done, after}
        /\ open_file.cluster >= 0 => c >= 0
        /\ ~FAT_FAULTS =>
             c = IF position % CLUSTER_SIZE # 0 \/ open_file.cluster = LastCluster
                 THEN open_file.cluster ELSE open_file.cluster + 1
  <2>. HIDE DEF position, after, done
  <2>1. [open_file EXCEPT !.position = position]
          = [cluster |-> open_file.cluster, position |-> position]
    BY StateTyped
  <2>2. open_file.cluster \in Nat \union {-1} /\ open_file.cluster + 1 \in Nat
    BY StateTyped
  <2>3. CASE position % CLUSTER_SIZE # 0
    BY <1>5, <2>1, <2>2, <2>3
  <2>4. CASE position % CLUSTER_SIZE = 0
    <3>1. PICK next \in NextClusters :
               IF next = -1
               THEN open_file' = [open_file EXCEPT !.position = position] /\ rd' = done
               ELSE /\ open_file' = [cluster |-> next, position |-> position]
                    /\ rd' = IF after.left = 0 THEN done ELSE after
      BY <1>5, <2>4
    <3>2. /\ next = -1 \/ next = open_file.cluster + 1
          /\ ~FAT_FAULTS => (next = -1 <=> open_file.cluster = LastCluster)
      <4>1. CASE open_file.cluster = LastCluster
        <5>1. NextClusters = {-1}
          BY <4>1 DEF NextClusters
        <5>. QED BY <4>1, <5>1
      <4>2. CASE open_file.cluster # LastCluster
        <5>1. next = open_file.cluster + 1 \/ (FAT_FAULTS /\ next = -1)
          BY <4>2, Zenon DEF NextClusters
        <5>. QED BY <2>2, <4>2, <5>1
      <4>. QED BY <4>1, <4>2
    <3>3. CASE next = -1
      BY <2>1, <2>2, <2>4, <3>1, <3>2, <3>3
    <3>4. CASE next # -1
      BY <2>2, <2>4, <3>1, <3>2, <3>4
    <3>. QED BY <3>3, <3>4
  <2>. QED BY <2>3, <2>4
<1>7. PICK l \in {0, Count - n}, got \in {0, rd.got + n} :
        rd' = [need |-> rd.need - n, left |-> l, got |-> got,
               to |-> IF rd.to = 0 THEN 0 ELSE rd.to + n]
  BY <1>6
<1>8. /\ l \in Nat /\ got \in Nat
      /\ n <= rd.need /\ n <= file.size - open_file.position
      /\ l <= rd.need - n /\ l <= file.size - (open_file.position + n)
  <2>1. rd.need \in Nat /\ rd.got \in Nat /\ file.size - open_file.position \in Int
    BY StateTyped
  <2>2. file.size - (open_file.position + n) = file.size - open_file.position - n
    BY <1>3, StateTyped
  <2>3. l \in Nat /\ l <= Count - n
    BY <1>3, <1>4, <1>7
  <2>4. got \in Nat
    BY <1>3, <1>7, <2>1
  <2>. QED BY <1>3, <1>4, <2>1, <2>2, <2>3, <2>4
<1>9. rd.to # 0 => rd.to + n <= USER_LOAD_MAX
  <2>1. rd.to \in Nat /\ USER_LOAD_MAX \in Nat
    BY StateTyped, LoadRange
  <2>2. rd.to # 0 => ~(rd.to + n > USER_LOAD_MAX)
    BY <1>1, <1>2 DEF CopyFaults
  <2>. QED BY <1>3, <2>1, <2>2
<1>. QED BY <1>1, <1>2, <1>3, <1>6, <1>7, <1>8, <1>9

----------------------------------------------------------------------------
(* Steps that leave memory and tasks alone *)

MachineInv == WritesInSegments /\ PagesInOrder /\ OwnCells

Kept == UNCHANGED <<pmm_bitmap, memory, prog, tasks, execs>>

\* The loader stays in its segment, or leaves it.
InSegment == {"seek_segment", "load_segment"}
SameSegment == pc' \in InSegment => pc \in InSegment /\ seg' = seg

\* Until the task is created, loading concerns nobody else.
LEMMA MemoryUntouched ==
  ASSUME ExecInv, pc # "idle", Kept
  PROVE  WritesInSegments' /\ PagesInOrder'
<1>. USE DEF ExecInv, Kept
<1>1. WritesInSegments'
  BY DEF WritesInSegments
<1>2. PagesInOrder'
  <2>1. PICK k \in RESERVED_PAGES .. TOTAL_PAGES :
          pmm_bitmap = 0 .. k - 1 /\ k <= RESERVED_PAGES + (execs - 1) * (STACK_PAGES + 1)
    BY DEF PagesInOrder
  <2>2. execs \in Nat /\ STACK_PAGES \in Nat
    <3>1. execs \in 0 .. MAX_EXECS
      BY DEF ExecTypeOK
    <3>. QED BY <3>1, ExecAssumption
  <2>3. execs * (STACK_PAGES + 1) = (execs - 1) * (STACK_PAGES + 1) + (STACK_PAGES + 1)
    BY <2>2
  <2>4. (execs - 1) * (STACK_PAGES + 1) \in Int /\ execs * (STACK_PAGES + 1) \in Int
    BY <2>2
  <2>5. k \in Int /\ RESERVED_PAGES \in Int
    BY PageAssumption
  <2>6. k <= RESERVED_PAGES + execs * (STACK_PAGES + 1)
    BY <2>1, <2>2, <2>3, <2>4, <2>5
  <2>. QED BY <2>1, <2>6 DEF PagesInOrder
<1>. QED BY <1>1, <1>2

LEMMA OwnUntouched ==
  ASSUME ExecInv, UNCHANGED <<pmm_bitmap, prog, tasks, own>>, SameSegment
  PROVE  OwnCells'
<1>1. (DOMAIN own \subseteq UNION {ImageOf(t.prog) : t \in tasks})'
  BY DEF ExecInv, OwnCells, ImageOf
<1>2. (\A a \in DOMAIN own : a \div PAGE_SIZE \notin pmm_bitmap)'
  BY DEF ExecInv, OwnCells
<1>3. ASSUME pc' \in InSegment PROVE (DOMAIN own \intersect Cells(Phdr) = {})'
  <2>1. Phdr' = Phdr /\ pc \in InSegment
    BY <1>3 DEF SameSegment, Phdr, file
  <2>2. DOMAIN own \intersect Cells(Phdr) = {}
    BY <2>1 DEF ExecInv, OwnCells, InSegment
  <2>. QED BY <2>1, <2>2 DEF Cells
<1>. QED BY <1>1, <1>2, <1>3 DEF OwnCells, InSegment

LEMMA MachineUntouched ==
  ASSUME ExecInv, pc # "idle", Untouched, SameSegment
  PROVE  MachineInv'
<1>1. Kept /\ UNCHANGED <<pmm_bitmap, prog, tasks, own>>
  BY DEF Untouched, Kept
<1>. QED BY <1>1, MemoryUntouched, OwnUntouched DEF MachineInv

ReadType == [need : Nat, left : Nat, got : Nat, to : Nat]
OpenType == [cluster : Nat \union {-1}, position : 0 .. file.size]

LEMMA FreshRead ==
  ASSUME NEW need \in Nat, NEW to \in Nat
  PROVE  /\ Reading(need, to) \in ReadType /\ Reading(need, to).left = 0
         /\ Reading(need, to).need = need /\ Reading(need, to).to = to
  BY DEF Reading, ReadType

LEMMA FreshFile ==
  ASSUME ExecTypeOK
  PROVE  /\ Closed \in OpenType /\ Closed.position = 0
         /\ Opened \in OpenType /\ Opened.position = 0 /\ Opened.cluster = 0
  BY StateTyped DEF Closed, Opened, OpenType

\* The loader moves on to its next read.
LEMMA TypeKept ==
  ASSUME ExecTypeOK, Kept, pc' \in Places,
         seg' \in 1 .. Len(file.phdrs) + 1,
         pc' \in {"seek_segment", "load_segment"} => seg' <= Len(file.phdrs),
         open_file' \in OpenType, rd' \in ReadType, rd'.left = 0
  PROVE  ExecTypeOK'
<1>1. file' = file /\ prog' = prog
  BY DEF Kept, file
<1>2. rd'.left <= rd'.need /\ rd'.left <= (file.size - open_file.position)'
  <2>1. rd'.need \in Nat
    BY DEF ReadType
  <2>2. file.size \in Nat
    BY StateTyped
  <2>3. open_file'.position \in 0 .. file.size
    BY DEF OpenType
  <2>4. open_file'.position \in Nat /\ file.size - open_file'.position >= 0
    BY <2>2, <2>3
  <2>5. rd'.left <= file.size - open_file'.position
    BY <2>4
  <2>. QED BY <1>1, <2>1, <2>5
<1>3. open_file' \in [cluster : Nat \union {-1}, position : 0 .. file'.size]
  BY <1>1 DEF OpenType
<1>4. /\ (pmm_bitmap \subseteq Page)' /\ (DOMAIN memory = Address)' /\ prog' \in PROGRAMS
      /\ (tasks \subseteq [prog : PROGRAMS, stack : SUBSET Managed])'
      /\ (execs \in 0 .. MAX_EXECS)'
  BY DEF ExecTypeOK, Kept, Page, Address, Managed
<1>. QED BY <1>1, <1>2, <1>3, <1>4 DEF ExecTypeOK, ReadType

\* Whichever way a load ends.
LEMMA FailKeeps ==
  ASSUME ExecInv, pc # "idle", Fail
  PROVE  ExecInv'
<1>. USE DEF Fail
<1>1. Untouched /\ seg' = seg /\ pc' = "idle" /\ open_file' = Closed /\ rd' = NotReading
  BY DEF Untouched
<1>2. MachineInv'
  BY <1>1, MachineUntouched DEF SameSegment, InSegment
<1>3. ExecTypeOK /\ CheckedFirst
  BY DEF ExecInv
<1>4. rd' \in ReadType /\ rd'.left = 0 /\ rd'.to = 0
  BY <1>1, FreshRead DEF NotReading
<1>5. open_file' \in OpenType
  BY <1>1, <1>3, FreshFile
<1>6. seg' \in 1 .. Len(file.phdrs) + 1
  BY <1>1, <1>3 DEF ExecTypeOK
<1>7. ExecTypeOK'
  BY <1>1, <1>3, <1>4, <1>5, <1>6, TypeKept DEF Places, Kept, Untouched
<1>8. FileClosed' /\ CheckedFirst' /\ ReadsIntoSegment'
  BY <1>1, <1>3, <1>4 DEF FileClosed, CheckedFirst, ReadsIntoSegment, Untouched
<1>9. InCluster' /\ LoadedSoFar'
  BY <1>1 DEF InCluster, LoadedSoFar
<1>. QED BY <1>2, <1>7, <1>8, <1>9 DEF ExecInv, MachineInv

LEMMA ReadFailsKeeps ==
  ASSUME ExecInv, ReadFails
  PROVE  ExecInv'
<1>1. ExecTypeOK /\ FileClosed
  BY DEF ExecInv
<1>2. rd.need > 0
  BY DEF ReadFails
<1>3. pc \notin {"idle", "segment", "halted"}
  BY <1>1, <1>2, FreshRead DEF FileClosed, NotReading
<1>4. CASE rd.got = 0
  BY <1>3, <1>4, FailKeeps DEF ReadFails
<1>5. CASE rd.got # 0
  <2>1. /\ Untouched /\ UNCHANGED <<seg, pc, open_file>>
        /\ rd' = [rd EXCEPT !.left = 0, !.got = 0]
    BY <1>5 DEF ReadFails, ShortRead, Untouched
  <2>2. rd \in ReadType
    BY <1>1 DEF ExecTypeOK, ReadType
  <2>3. rd' \in ReadType /\ rd'.left = 0 /\ rd'.need = rd.need /\ rd'.to = rd.to
    BY <2>1, <2>2 DEF ReadType
  <2>4. MachineInv'
    BY <1>3, <2>1, MachineUntouched DEF SameSegment, InSegment
  <2>5. ExecTypeOK'
    BY <1>1, <2>1, <2>3, TypeKept DEF ExecTypeOK, OpenType, Kept, Untouched
  <2>6. FileClosed'
    BY <1>1, <1>3, <2>1 DEF FileClosed
  <2>7. CheckedFirst' /\ ReadsIntoSegment'
    BY <2>1, <2>3 DEF ExecInv, CheckedFirst, ReadsIntoSegment, Untouched, Phdr, file
  <2>8. ~FAT_FAULTS => InCluster'
    BY <2>1, <2>3 DEF ExecInv, InCluster, Untouched, Phdr, file
  <2>9. ~FAT_FAULTS => (SegmentsApart(prog) => LoadedSoFar)'
    BY <2>1, <2>3 DEF ExecInv, LoadedSoFar, Loaded, FileByte, Untouched, Phdr, file
  <2>. QED BY <2>4, <2>5, <2>6, <2>7, <2>8, <2>9 DEF ExecInv, MachineInv
<1>. QED BY <1>4, <1>5

LEMMA ReadPastEndKeeps ==
  ASSUME ExecInv, ReadPastEnd
  PROVE  ExecInv'
<1>1. FileClosed /\ rd.need > 0
  BY DEF ExecInv, ReadPastEnd
<1>2. pc # "idle"
  BY <1>1, FreshRead DEF FileClosed, NotReading
<1>. QED BY <1>2, FailKeeps DEF ReadPastEnd
LEMMA CheckHeaderKeeps ==
  ASSUME ExecInv, CheckHeader
  PROVE  ExecInv'
<1>1. ExecTypeOK /\ pc = "header"
  BY DEF ExecInv, CheckHeader
<1>2. CASE Fail
  BY <1>1, <1>2, FailKeeps
<1>3. CASE HeaderGood /\ ~Fail
  <2>1. /\ Untouched /\ UNCHANGED <<open_file, seg>> /\ pc' = "seek_phdrs"
        /\ rd' = Reading(file.phoff - open_file.position, 0)
        /\ file.valid /\ open_file.position <= file.phoff
    BY <1>3 DEF CheckHeader, HeaderGood
  <2>2. PICK need \in Nat : rd' = Reading(need, 0)
    <3>1. prog \in PROGRAMS /\ open_file.position \in Nat
      BY <1>1, StateTyped
    <3>2. file.phoff \in Nat
      BY <3>1, FileTyped DEF file
    <3>3. file.phoff - open_file.position \in Nat
      BY <2>1, <3>1, <3>2
    <3>. QED BY <2>1, <3>3
  <2>3. rd' \in ReadType /\ rd'.left = 0 /\ rd'.to = 0
    BY <2>2, FreshRead
  <2>4. open_file' \in OpenType /\ seg' \in 1 .. Len(file.phdrs) + 1
    BY <1>1, <2>1 DEF ExecTypeOK, OpenType
  <2>5. ExecTypeOK'
    BY <1>1, <2>1, <2>3, <2>4, TypeKept DEF Places, Kept, Untouched
  <2>6. MachineInv'
    BY <1>1, <2>1, MachineUntouched DEF SameSegment, InSegment
  <2>7. FileClosed' /\ ReadsIntoSegment' /\ LoadedSoFar'
    BY <1>1, <2>1, <2>3 DEF ExecInv, FileClosed, ReadsIntoSegment, LoadedSoFar
  <2>8. CheckedFirst'
    BY <2>1 DEF ExecInv, CheckedFirst, Untouched, file
  <2>9. ~FAT_FAULTS => InCluster'
    BY <2>1 DEF ExecInv, InCluster, Untouched, file
  <2>. QED BY <2>5, <2>6, <2>7, <2>8, <2>9 DEF ExecInv, MachineInv
<1>. QED BY <1>2, <1>3 DEF CheckHeader

LEMMA ReadPhdrKeeps ==
  ASSUME ExecInv, ReadPhdr
  PROVE  ExecInv'
<1>. DEFINE k == IF pc = "seek_phdrs" THEN 1 ELSE seg + 1
<1>1. ExecTypeOK /\ pc \in {"seek_phdrs", "read_phdr"} /\ Untouched
  BY DEF ExecInv, ReadPhdr
<1>2. MachineInv'
  BY <1>1, MachineUntouched DEF SameSegment, InSegment, ReadPhdr
<1>3. k \in Nat /\ k >= 1 /\ Len(file.phdrs) \in Nat
  <2>1. seg \in Nat /\ Len(file.phdrs) \in Nat
    BY <1>1, StateTyped
  <2>. QED BY <2>1
<1>4. \/ /\ k <= Len(file.phdrs) /\ seg' = k /\ pc' = "read_phdr"
         /\ rd' = Reading(PHDR, 0) /\ open_file' = open_file
      \/ /\ seg' = 1 /\ pc' = "segment" /\ rd' = NotReading /\ open_file' = Closed
  BY DEF ReadPhdr
<1>. HIDE DEF k
<1>5. rd' \in ReadType /\ rd'.left = 0 /\ rd'.to = 0
  <2>1. PICK need \in Nat : rd' = Reading(need, 0)
    BY <1>4, ExecAssumption DEF NotReading
  <2>. QED BY <2>1, FreshRead
<1>6. open_file' \in OpenType
  BY <1>1, <1>4, FreshFile DEF ExecTypeOK, OpenType
<1>7. ExecTypeOK'
  <2>1. seg' \in Nat /\ seg' >= 1 /\ seg' <= Len(file.phdrs) + 1
    BY <1>3, <1>4
  <2>2. seg' \in 1 .. Len(file.phdrs) + 1 /\ pc' \in {"read_phdr", "segment"}
    BY <1>3, <1>4, <2>1
  <2>. QED BY <1>1, <1>5, <1>6, <2>2, TypeKept DEF Places, Kept, Untouched
<1>8. FileClosed' /\ ReadsIntoSegment'
  BY <1>1, <1>4, <1>5 DEF ExecInv, FileClosed, ReadsIntoSegment
<1>9. CheckedFirst' /\ LoadedSoFar'
  <2>1. CheckedFirst /\ file' = file /\ tasks' = tasks
    BY <1>1 DEF ExecInv, Untouched, file
  <2>2. pc' = "read_phdr" \/ (pc' = "segment" /\ seg' = 1)
    BY <1>4
  <2>3. 1 .. 1 - 1 = {}
    OBVIOUS
  <2>4. file.valid
    BY <1>1, <2>1 DEF CheckedFirst
  <2>5. CheckedFirst'
    BY <2>1, <2>2, <2>3, <2>4 DEF CheckedFirst
  <2>6. LoadedSoFar'
    BY <2>2, <2>3 DEF LoadedSoFar
  <2>. QED BY <2>5, <2>6
<1>10. ~FAT_FAULTS => InCluster'
  BY <1>1, <1>4 DEF ExecInv, InCluster, Untouched, file
<1>. QED BY <1>2, <1>7, <1>8, <1>9, <1>10 DEF ExecInv, MachineInv

\* A sum that is small after it wrapped is small or has wrapped.
LEMMA GoodFits ==
  ASSUME NEW v \in Nat, NEW m \in Nat, v < ADDRESS_LIMIT, m < ADDRESS_LIMIT,
         (v + m) % ADDRESS_LIMIT < USER_LOAD_MAX
  PROVE  v + m < USER_LOAD_MAX \/ v + m >= ADDRESS_LIMIT
<1>1. ADDRESS_LIMIT \in Nat /\ ADDRESS_LIMIT > 0 /\ USER_LOAD_MAX \in Nat
  BY LoadRange
<1>2. CASE v + m < ADDRESS_LIMIT
  <2>1. 0 * ADDRESS_LIMIT = 0 /\ v + m \in Nat /\ 0 \in Int
    BY <1>1
  <2>2. (v + m) % ADDRESS_LIMIT = (v + m) - 0 * ADDRESS_LIMIT
    BY <1>1, <1>2, <2>1, DivModIs
  <2>. QED BY <2>1, <2>2
<1>3. CASE v + m >= ADDRESS_LIMIT
  BY <1>3
<1>. QED BY <1>1, <1>2, <1>3

LEMMA NextSegmentKeeps ==
  ASSUME ExecInv, NextSegment
  PROVE  ExecInv'
<1>1. /\ ExecTypeOK /\ pc = "segment" /\ seg <= Len(file.phdrs)
      /\ open_file = Closed /\ rd = NotReading /\ CheckedFirst
  BY DEF ExecInv, NextSegment, FileClosed
<1>2. seg \in Nat /\ seg >= 1 /\ Len(file.phdrs) \in Nat /\ prog \in PROGRAMS
  BY <1>1, StateTyped
<1>3. CASE Fail
  BY <1>1, <1>3, FailKeeps
<1>4. CASE ~Phdr.load /\ seg' = seg + 1 /\ UNCHANGED <<open_file, pc, rd>> /\ Untouched
  <2>1. rd' \in ReadType /\ rd'.left = 0 /\ rd'.to = 0
    BY <1>1, <1>4, FreshRead DEF NotReading
  <2>2. open_file' \in OpenType
    BY <1>1, <1>4, FreshFile
  <2>3. ExecTypeOK'
    <3>1. seg' \in 1 .. Len(file.phdrs) + 1
      BY <1>1, <1>2, <1>4
    <3>. QED BY <1>1, <1>4, <2>1, <2>2, <3>1, TypeKept DEF Places, Kept, Untouched
  <2>4. MachineInv'
    BY <1>1, <1>4, MachineUntouched DEF SameSegment, InSegment
  <2>5. FileClosed' /\ ReadsIntoSegment'
    BY <1>1, <1>4, <2>1 DEF FileClosed, ReadsIntoSegment
  <2>6. \A i \in 1 .. seg' - 1 : i \in 1 .. seg - 1 \/ i = seg
    BY <1>2, <1>4
  <2>7. CheckedFirst'
    BY <1>1, <1>4, <2>6 DEF CheckedFirst, Untouched, Phdr, file
  <2>8. ~FAT_FAULTS => InCluster'
    BY <1>1, <1>4 DEF ExecInv, InCluster, Untouched, file
  <2>9. ~FAT_FAULTS => (SegmentsApart(prog) => LoadedSoFar)'
    BY <1>1, <1>4, <2>6 DEF ExecInv, LoadedSoFar, Loaded, FileByte, Untouched, Phdr, file
  <2>. QED BY <2>3, <2>4, <2>5, <2>7, <2>8, <2>9 DEF ExecInv, MachineInv
<1>5. CASE /\ Phdr.load /\ SegmentGood /\ Open("seek_segment", Phdr.offset, 0)
           /\ own' = [a \in DOMAIN own \ Cells(Phdr) |-> own[a]]
           /\ UNCHANGED <<pmm_bitmap, memory, prog, seg, tasks, execs>>
  <2>. USE DEF Open
  <2>0. seg \in 1 .. Len(FILE[prog].phdrs) /\ Phdr = FILE[prog].phdrs[seg]
    BY <1>1, <1>2 DEF Phdr, file
  <2>1. /\ Phdr.offset \in Nat /\ Phdr.vaddr \in Nat /\ Phdr.memsz \in Nat
        /\ Phdr.vaddr < ADDRESS_LIMIT /\ Phdr.memsz < ADDRESS_LIMIT
    BY <1>2, <2>0, PhdrTyped
  <2>2. rd' \in ReadType /\ rd'.left = 0 /\ rd'.to = 0 /\ rd'.need = Phdr.offset
    <3>1. PICK need \in Nat : need = Phdr.offset /\ rd' = Reading(need, 0)
      BY <1>5, <2>1
    <3>. QED BY <3>1, FreshRead
  <2>3. open_file' = Opened /\ open_file' \in OpenType
    BY <1>1, <1>5, FreshFile
  <2>4. ExecTypeOK'
    <3>1. seg' \in 1 .. Len(file.phdrs) + 1 /\ seg' <= Len(file.phdrs)
      <4>1. seg' = seg
        BY <1>5
      <4>. QED BY <1>1, <1>2, <4>1
    <3>. QED BY <1>1, <1>5, <2>2, <2>3, <3>1, TypeKept DEF Places, Kept, Untouched
  <2>5. MachineInv'
    <3>1. WritesInSegments' /\ PagesInOrder'
      BY <1>1, <1>5, MemoryUntouched DEF Kept
    <3>2. DOMAIN own' = DOMAIN own \ Cells(Phdr)
      BY <1>5
    <3>3. Phdr' = Phdr /\ pmm_bitmap' = pmm_bitmap /\ tasks' = tasks
      BY <1>5 DEF Phdr, file
    <3>4. OwnCells'
      BY <3>2, <3>3 DEF ExecInv, OwnCells, ImageOf, Cells
    <3>. QED BY <3>1, <3>4 DEF MachineInv
  <2>6. FileClosed' /\ ReadsIntoSegment'
    <3>1. pc' = "seek_segment" /\ open_file'.cluster = 0
      BY <1>1, <1>5, <2>3, FreshFile
    <3>. QED BY <2>2, <3>1 DEF FileClosed, ReadsIntoSegment
  <2>7. CheckedFirst'
    <3>1. Loadable(Phdr) \/ Wraps(Phdr)
      BY <1>5, <2>1, GoodFits DEF SegmentGood, Loadable, Wraps
    <3>2. Passed(prog, Phdr)
      <4>1. Phdr \in LoadSegments(prog)
        BY <1>2, <1>5, <2>0, SegmentsAre
      <4>2. FILE[prog].valid
        BY <1>1 DEF CheckedFirst, file
      <4>. QED BY <3>1, <4>1, <4>2 DEF Passed
    <3>3. Phdr' = Phdr /\ file' = file /\ prog' = prog
      BY <1>5 DEF Phdr, file
    <3>. QED BY <1>1, <1>5, <3>2, <3>3 DEF CheckedFirst
  <2>8. InCluster'
    <3>1. Phdr' = Phdr
      BY <1>5 DEF Phdr, file
    <3>2. 0 * CLUSTER_SIZE = 0 /\ CLUSTER_SIZE > 0
      BY ExecAssumption
    <3>3. pc' = "seek_segment" /\ open_file'.cluster = 0 /\ open_file'.position = 0
      BY <1>1, <1>5, <2>3, FreshFile
    <3>4. open_file'.position + rd'.need = Phdr.offset
      BY <2>1, <2>2, <3>3
    <3>5. LET first == open_file'.cluster * CLUSTER_SIZE
          IN first <= open_file'.position /\ open_file'.position < first + CLUSTER_SIZE
      BY <3>2, <3>3, ExecAssumption
    <3>. QED BY <3>1, <3>3, <3>4, <3>5 DEF InCluster
  <2>9. ~FAT_FAULTS => (SegmentsApart(prog) => LoadedSoFar)'
    BY <1>1, <1>5 DEF ExecInv, LoadedSoFar, Loaded, FileByte, Phdr, file
  <2>. QED BY <2>4, <2>5, <2>6, <2>7, <2>8, <2>9 DEF ExecInv, MachineInv
<1>. QED BY <1>3, <1>4, <1>5 DEF NextSegment

LEMMA LoadSegmentKeeps ==
  ASSUME ExecInv, LoadSegment
  PROVE  ExecInv'
<1>1. /\ ExecTypeOK /\ pc = "seek_segment" /\ rd.need = 0 /\ CheckedFirst
      /\ pc' = "load_segment" /\ rd' = Reading(Phdr.filesz, Phdr.vaddr)
      /\ UNCHANGED <<open_file, seg>> /\ Untouched
  BY DEF ExecInv, LoadSegment
<1>2. seg \in 1 .. Len(FILE[prog].phdrs) /\ prog \in PROGRAMS
  <2>1. /\ seg \in Nat /\ seg >= 1 /\ Len(file.phdrs) \in Nat /\ prog \in PROGRAMS
    BY <1>1, StateTyped
  <2>2. seg <= Len(file.phdrs)
    BY <1>1 DEF ExecTypeOK
  <2>. QED BY <2>1, <2>2 DEF file
<1>3. /\ Phdr.filesz \in Nat /\ Phdr.vaddr \in Nat /\ Phdr.offset \in Nat
      /\ Phdr.vaddr < ADDRESS_LIMIT
  BY <1>2, PhdrTyped DEF Phdr, file
<1>4. rd' \in ReadType /\ rd'.left = 0 /\ rd'.to = Phdr.vaddr /\ rd'.need = Phdr.filesz
  BY <1>1, <1>3, FreshRead
<1>5. Phdr' = Phdr /\ file' = file
  BY <1>1 DEF Phdr, file, Untouched
<1>6. ExecTypeOK'
  <2>1. open_file' \in OpenType
    BY <1>1 DEF ExecTypeOK, OpenType
  <2>2. seg' \in 1 .. Len(file.phdrs) + 1 /\ seg' <= Len(file.phdrs)
    BY <1>1 DEF ExecTypeOK
  <2>. QED BY <1>1, <1>4, <2>1, <2>2, TypeKept DEF Places, Kept, Untouched
<1>7. MachineInv'
  BY <1>1, MachineUntouched DEF SameSegment, InSegment
<1>8. FileClosed'
  BY <1>1 DEF ExecInv, FileClosed
<1>8a. ReadsIntoSegment'
  BY <1>1, <1>3, <1>4, <1>5 DEF ReadsIntoSegment
<1>9. CheckedFirst'
  BY <1>1 DEF CheckedFirst, Untouched, Phdr, file
<1>10. ASSUME ~FAT_FAULTS PROVE InCluster'
  <2>1. InCluster /\ open_file.position \in Nat
    BY <1>1, <1>10, StateTyped DEF ExecInv
  <2>2. open_file.position + 0 = Phdr.offset
    BY <1>1, <2>1 DEF InCluster
  <2>3. open_file.position = Phdr.offset + (Phdr.vaddr - Phdr.vaddr)
    BY <1>3, <2>1, <2>2
  <2>. QED BY <1>1, <1>4, <1>5, <2>1, <2>3 DEF InCluster
<1>11. ~FAT_FAULTS => (SegmentsApart(prog) => LoadedSoFar)'
  <2>1. Phdr.vaddr .. rd'.to - 1 = {}
    BY <1>3, <1>4
  <2>. QED BY <1>1, <1>5, <2>1
           DEF ExecInv, LoadedSoFar, Loaded, FileByte, Untouched
<1>. QED BY <1>6, <1>7, <1>8, <1>8a, <1>9, <1>10, <1>11 DEF ExecInv, MachineInv
----------------------------------------------------------------------------
(* Steps that write to memory *)

LEMMA CellsInMemory ==
  ASSUME NEW s, s.vaddr \in Nat, s.memsz \in Nat, Loadable(s)
  PROVE  Cells(s) \subseteq Address
  BY LoadRange DEF Cells, Address, Loadable

\* The segment the loader is in.
LEMMA CurrentSegment ==
  ASSUME ExecInv, pc \in {"seek_segment", "load_segment"}
  PROVE  /\ prog \in PROGRAMS /\ seg \in 1 .. Len(FILE[prog].phdrs)
         /\ Phdr = FILE[prog].phdrs[seg] /\ Passed(prog, Phdr)
         /\ Phdr.vaddr \in Nat /\ Phdr.filesz \in Nat /\ Phdr.memsz \in Nat
         /\ Phdr.offset \in Nat /\ Phdr.filesz <= Phdr.memsz /\ Phdr.vaddr > 0
<1>1. ExecTypeOK /\ CheckedFirst
  BY DEF ExecInv
<1>2. prog \in PROGRAMS /\ seg \in 1 .. Len(FILE[prog].phdrs)
  <2>1. /\ seg \in Nat /\ seg >= 1 /\ Len(file.phdrs) \in Nat /\ prog \in PROGRAMS
    BY <1>1, StateTyped
  <2>2. seg <= Len(file.phdrs)
    BY <1>1 DEF ExecTypeOK
  <2>. QED BY <2>1, <2>2 DEF file
<1>3. Phdr = FILE[prog].phdrs[seg] /\ Phdr.load /\ Passed(prog, Phdr)
  BY <1>1 DEF CheckedFirst, Phdr, file
<1>4. /\ Phdr.vaddr \in Nat /\ Phdr.filesz \in Nat /\ Phdr.memsz \in Nat
      /\ Phdr.offset \in Nat
  BY <1>2, <1>3, PhdrTyped
<1>6. Phdr.filesz <= Phdr.memsz /\ Phdr.vaddr > 0
  <2>1. Phdr.memsz >= Phdr.filesz /\ Phdr.vaddr >= USER_LOAD_MIN
    BY <1>3 DEF Passed, Loadable, Wraps
  <2>2. USER_LOAD_MIN \in Nat /\ USER_LOAD_MIN > 0
    BY LoadRange
  <2>. QED BY <1>4, <2>1, <2>2
<1>. QED BY <1>2, <1>3, <1>4, <1>6

\* Whoever else is in memory, when the loader writes to its own segment.
LEMMA MachineWritten ==
  ASSUME ExecInv, pc = "load_segment", pc' # "idle", SameSegment,
         UNCHANGED <<pmm_bitmap, prog, tasks, own, execs>>,
         \A a \in Address : a \notin Cells(Phdr) => memory'[a] = memory[a]
  PROVE  MachineInv'
<1>1. WritesInSegments'
  BY CurrentSegment DEF ExecInv, WritesInSegments, Passed
<1>2. PagesInOrder'
  BY DEF ExecInv, PagesInOrder
<1>3. OwnCells'
  BY OwnUntouched
<1>. QED BY <1>1, <1>2, <1>3 DEF MachineInv

\* The segments behind the loader are not written to again.
LEMMA BehindUntouched ==
  ASSUME ExecInv, pc = "load_segment", ~FAT_FAULTS, SegmentsApart(prog), prog' = prog,
         \A a \in Address : a \notin Cells(Phdr) => memory'[a] = memory[a]
  PROVE  \A i \in 1 .. seg - 1 : file.phdrs[i].load => Loaded(file.phdrs[i])'
<1>. SUFFICES ASSUME NEW i \in 1 .. seg - 1, file.phdrs[i].load
              PROVE  Loaded(file.phdrs[i])'
  OBVIOUS
<1>. DEFINE s == file.phdrs[i]
<1>1. Loaded(s) /\ Loadable(s)
  BY DEF ExecInv, LoadedSoFar, CheckedFirst
<1>2. /\ prog \in PROGRAMS /\ seg \in 1 .. Len(FILE[prog].phdrs)
      /\ Phdr = FILE[prog].phdrs[seg] /\ Phdr.load
  BY CurrentSegment DEF ExecInv, CheckedFirst
<1>3. i \in 1 .. Len(FILE[prog].phdrs) /\ i # seg
  <2>1. Len(FILE[prog].phdrs) \in Nat
    BY <1>2, FileTyped
  <2>2. seg \in Nat /\ seg <= Len(FILE[prog].phdrs)
    BY <1>2, <2>1
  <2>3. i \in Nat /\ 1 <= i /\ i <= seg - 1
    BY <2>2
  <2>. QED BY <2>1, <2>2, <2>3
<1>4. Cells(s) \intersect Cells(Phdr) = {}
  BY <1>2, <1>3 DEF SegmentsApart, file
<1>5. s.vaddr \in Nat /\ s.memsz \in Nat
  BY <1>2, <1>3, PhdrTyped DEF file
<1>6. Cells(s) \subseteq Address
  BY <1>1, <1>5, CellsInMemory
<1>7. \A a \in Cells(s) : memory'[a] = memory[a]
  BY <1>4, <1>6
<1>8. s' = s
  BY DEF file
<1>. HIDE DEF s
<1>9. Loaded(s)'
  BY <1>1, <1>7, <1>8 DEF Loaded, FileByte
<1>. QED BY <1>9 DEF s

LEMMA ClusterEnd ==
  ASSUME ExecTypeOK
  PROVE  LastCluster \in Int /\ file.size <= LastCluster * CLUSTER_SIZE + CLUSTER_SIZE
<1>. DEFINE x == file.size + CLUSTER_SIZE - 1
            d == x \div CLUSTER_SIZE
<1>1. x \in Nat /\ CLUSTER_SIZE \in Nat \ {0} /\ file.size \in Nat
  <2>1. file.size \in Nat
    BY StateTyped
  <2>2. CLUSTER_SIZE \in Nat \ {0}
    BY LoadRange
  <2>. QED BY <2>1, <2>2
<1>2. d \in Nat /\ x % CLUSTER_SIZE <= CLUSTER_SIZE - 1 /\ x = d * CLUSTER_SIZE + (x % CLUSTER_SIZE)
      /\ x % CLUSTER_SIZE \in Int
  <2>. HIDE DEF x
  <2>. QED BY <1>1, DivMod
<1>3. LastCluster = d - 1
  BY DEF LastCluster
<1>. HIDE DEF d
<1>4. file.size <= d * CLUSTER_SIZE
  BY <1>1, <1>2
<1>5. (d - 1) * CLUSTER_SIZE + CLUSTER_SIZE = d * CLUSTER_SIZE
  BY <1>1, <1>2
<1>. QED BY <1>2, <1>3, <1>4, <1>5

\* The chain is followed exactly when the position has left the cluster.
LEMMA NextInCluster ==
  ASSUME NEW q \in Nat, q > 0, NEW p \in Nat, NEW c \in Int, NEW last \in Int,
         NEW size \in Nat, NEW n \in Nat \ {0}, NEW d \in Int,
         c * q <= p, p < c * q + q, n <= q - (p % q),
         size <= last * q + q, p + n < size,
         d = IF (p + n) % q # 0 \/ c = last THEN c ELSE c + 1
  PROVE  d * q <= p + n /\ p + n < d * q + q
<1>1. c * q \in Int /\ (c + 1) * q = c * q + q
  OBVIOUS
<1>2. p % q = p - c * q
  BY DivModIs
<1>3. p + n <= c * q + q /\ p + n \in Nat /\ p + n > c * q
  BY <1>1, <1>2
<1>4. CASE (p + n) % q # 0
  <2>1. ASSUME p + n = c * q + q PROVE FALSE
    <3>1. (c + 1) * q <= p + n /\ p + n < (c + 1) * q + q
      BY <1>1, <2>1
    <3>2. (p + n) % q = (p + n) - (c + 1) * q
      BY <1>3, <3>1, DivModIs
    <3>. QED BY <1>1, <1>4, <2>1, <3>2
  <2>. QED BY <1>1, <1>3, <1>4, <2>1
<1>5. CASE (p + n) % q = 0
  <2>1. ASSUME p + n < c * q + q PROVE FALSE
    <3>1. c * q <= p + n
      BY <1>1, <1>3
    <3>2. (p + n) % q = (p + n) - c * q
      BY <1>3, <2>1, <3>1, DivModIs
    <3>. QED BY <1>1, <1>3, <1>5, <3>2
  <2>2. p + n = c * q + q
    BY <1>1, <1>3, <2>1
  <2>3. c # last
    BY <2>2
  <2>. QED BY <1>1, <1>5, <2>2, <2>3
<1>. QED BY <1>4, <1>5
LEMMA ReadClusterKeeps ==
  ASSUME ExecInv, ReadCluster
  PROVE  ExecInv'
<1>1. /\ ExecTypeOK /\ FileClosed /\ CheckedFirst /\ ReadsIntoSegment /\ rd.need > 0
      /\ UNCHANGED <<pmm_bitmap, pc, prog, seg, tasks, own, execs>>
  BY DEF ExecInv, ReadCluster
<1>2. pc \notin {"idle", "segment", "halted"}
  BY <1>1, FreshRead DEF FileClosed, NotReading
<1>3. PICK n \in Nat \ {0}, c \in Nat \union {-1}, l \in Nat, got \in Nat :
           /\ n <= rd.need /\ n <= file.size - open_file.position
           /\ n <= CLUSTER_SIZE - (open_file.position % CLUSTER_SIZE)
           /\ memory' = Copied(n) /\ (rd.to # 0 => rd.to + n <= USER_LOAD_MAX)
           /\ open_file' = [cluster |-> c, position |-> open_file.position + n]
           /\ rd' = [need |-> rd.need - n, left |-> l, got |-> got,
                     to |-> IF rd.to = 0 THEN 0 ELSE rd.to + n]
           /\ l <= rd.need - n /\ l <= file.size - (open_file.position + n)
           /\ open_file.cluster >= 0 => c >= 0
           /\ ~FAT_FAULTS =>
                c = IF \/ (open_file.position + n) % CLUSTER_SIZE # 0
                       \/ open_file.cluster = LastCluster
                    THEN open_file.cluster ELSE open_file.cluster + 1
  BY <1>1, ReadClusterDoes
<1>4. /\ open_file.position \in Nat /\ file.size \in Nat /\ rd.need \in Nat
      /\ rd.to \in Nat /\ open_file.cluster \in Int
  BY <1>1, StateTyped
<1>5. file' = file /\ Phdr' = Phdr
  BY <1>1 DEF file, Phdr
<1>6. /\ open_file'.cluster = c /\ open_file'.position = open_file.position + n
      /\ rd'.need = rd.need - n /\ rd'.left = l
      /\ rd'.to = IF rd.to = 0 THEN 0 ELSE rd.to + n
  BY <1>3
<1>7. ExecTypeOK'
  <2>1. open_file.position + n \in 0 .. file.size /\ rd.need - n \in Nat
    BY <1>3, <1>4
  <2>2. (IF rd.to = 0 THEN 0 ELSE rd.to + n) \in Nat
    BY <1>4
  <2>3. open_file' \in [cluster : Nat \union {-1}, position : 0 .. file'.size]
    BY <1>3, <1>5, <2>1
  <2>4. rd' \in [need : Nat, left : Nat, got : Nat, to : Nat]
    BY <1>3, <2>1, <2>2
  <2>5. rd'.left <= rd'.need /\ rd'.left <= file'.size - open_file'.position
    BY <1>3, <1>5, <1>6
  <2>6. DOMAIN memory' = Address
    BY <1>1, <1>3 DEF Copied, ExecTypeOK
  <2>. QED BY <1>1, <1>5, <2>3, <2>4, <2>5, <2>6 DEF ExecTypeOK
<1>8. FileClosed' /\ CheckedFirst'
  BY <1>1, <1>2, <1>3, <1>5, <1>6 DEF FileClosed, CheckedFirst
<1>9. ReadsIntoSegment'
  <2>1. CASE pc = "load_segment"
    <3>1. /\ Phdr.vaddr \in Nat /\ Phdr.filesz \in Nat /\ Phdr.vaddr > 0
          /\ rd.to >= Phdr.vaddr /\ rd.to + rd.need = Phdr.vaddr + Phdr.filesz
      BY <1>1, <2>1, CurrentSegment DEF ReadsIntoSegment
    <3>2. rd'.to = rd.to + n
      BY <1>4, <1>6, <3>1
    <3>3. /\ rd'.to >= Phdr.vaddr /\ rd'.to + rd'.need = Phdr.vaddr + Phdr.filesz
          /\ rd'.to < ADDRESS_LIMIT
      BY <1>3, <1>4, <1>6, <3>1, <3>2, LoadRange
    <3>. QED BY <1>1, <1>5, <2>1, <3>3 DEF ReadsIntoSegment
  <2>2. CASE pc # "load_segment"
    BY <1>1, <1>6, <2>2 DEF ReadsIntoSegment
  <2>. QED BY <2>1, <2>2
<1>10. ASSUME ~FAT_FAULTS PROVE InCluster'
  <2>1. InCluster
    BY <1>10 DEF ExecInv
  <2>2. open_file' # Closed /\ open_file'.position < file.size =>
          LET first == open_file'.cluster * CLUSTER_SIZE
          IN first <= open_file'.position /\ open_file'.position < first + CLUSTER_SIZE
    <3>. SUFFICES ASSUME open_file'.position < file.size
                  PROVE  LET first == open_file'.cluster * CLUSTER_SIZE
                         IN /\ first <= open_file'.position
                            /\ open_file'.position < first + CLUSTER_SIZE
      OBVIOUS
    <3>1. open_file # Closed
      BY <1>1, <1>2 DEF FileClosed, Closed
    <3>. DEFINE q == CLUSTER_SIZE
                p == open_file.position
    <3>2. q \in Nat /\ q > 0 /\ LastCluster \in Int /\ file.size <= LastCluster * q + q
      BY <1>1, LoadRange, ClusterEnd
    <3>3. open_file.cluster * q <= p /\ p < open_file.cluster * q + q
      <4>1. open_file.position < file.size
        BY <1>3, <1>4
      <4>. QED BY <2>1, <3>1, <4>1 DEF InCluster
    <3>4. c \in Int /\ p + n < file.size
      BY <1>6
    <3>5. c = IF (p + n) % q # 0 \/ open_file.cluster = LastCluster
              THEN open_file.cluster ELSE open_file.cluster + 1
      BY <1>3, <1>10
    <3>6. n <= q - (p % q)
      BY <1>3
    <3>. HIDE DEF p, q
    <3>7. c * q <= p + n /\ p + n < c * q + q
      <4>1. p \in Nat /\ n \in Nat \ {0} /\ file.size \in Nat /\ open_file.cluster \in Int
        BY <1>4 DEF p
      <4>2. q \in Nat /\ q > 0 /\ LastCluster \in Int /\ file.size <= LastCluster * q + q
        BY <3>2
      <4>. QED BY <3>3, <3>4, <3>5, <3>6, <4>1, <4>2, NextInCluster, Zenon
    <3>. QED BY <1>6, <3>7 DEF p, q
  <2>3. pc = "seek_segment" => open_file'.position + rd'.need = Phdr.offset
    <3>1. pc = "seek_segment" => open_file.position + rd.need = Phdr.offset
      BY <2>1 DEF InCluster
    <3>2. open_file.position + n + (rd.need - n) = open_file.position + rd.need
      BY <1>4
    <3>. QED BY <1>6, <3>1, <3>2
  <2>4. ASSUME pc = "load_segment"
        PROVE  open_file'.position = Phdr.offset + (rd'.to - Phdr.vaddr)
    <3>1. open_file.position = Phdr.offset + (rd.to - Phdr.vaddr) /\ rd.to >= Phdr.vaddr
      BY <1>1, <2>1, <2>4 DEF InCluster, ReadsIntoSegment
    <3>2. Phdr.vaddr \in Nat /\ Phdr.vaddr > 0 /\ Phdr.offset \in Nat
      BY <2>4, CurrentSegment
    <3>3. rd'.to = rd.to + n
      BY <1>4, <1>6, <3>1, <3>2
    <3>. QED BY <1>4, <1>6, <3>1, <3>2, <3>3
  <2>. QED BY <1>1, <1>5, <2>2, <2>3, <2>4 DEF InCluster
<1>11. CASE pc # "load_segment"
  <2>1. memory' = memory
    BY <1>1, <1>3, <1>11 DEF ReadsIntoSegment, Copied
  <2>2. MachineInv'
    BY <1>1, <1>2, <2>1, MachineUntouched DEF Untouched, SameSegment, InSegment
  <2>3. ~FAT_FAULTS => (SegmentsApart(prog) => LoadedSoFar)'
    BY <1>1, <1>5, <1>11, <2>1 DEF ExecInv, LoadedSoFar, Loaded, FileByte
  <2>. QED BY <1>7, <1>8, <1>9, <1>10, <2>2, <2>3 DEF ExecInv, MachineInv
<1>12. CASE pc = "load_segment"
  <2>1. /\ Phdr.vaddr \in Nat /\ Phdr.filesz \in Nat /\ Phdr.memsz \in Nat
        /\ Phdr.vaddr > 0 /\ Phdr.filesz <= Phdr.memsz /\ Phdr.offset \in Nat
        /\ rd.to >= Phdr.vaddr /\ rd.to + rd.need = Phdr.vaddr + Phdr.filesz
    BY <1>1, <1>12, CurrentSegment DEF ReadsIntoSegment
  <2>2. rd.to # 0 /\ rd'.to = rd.to + n
    BY <1>4, <1>6, <2>1
  <2>. DEFINE from == open_file.cluster * CLUSTER_SIZE + (open_file.position % CLUSTER_SIZE)
  <2>3. memory' = [a \in Address |-> IF a \in rd.to .. rd.to + n - 1
                                     THEN <<prog, from + a - rd.to>> ELSE memory[a]]
    BY <1>3, <2>2 DEF Copied
  <2>. HIDE DEF from
  <2>4. rd.to .. rd.to + n - 1 \subseteq Cells(Phdr)
    BY <1>3, <1>4, <2>1 DEF Cells
  <2>5. \A a \in Address : a \notin Cells(Phdr) => memory'[a] = memory[a]
    BY <2>3, <2>4
  <2>6. MachineInv'
    BY <1>1, <1>12, <2>5, MachineWritten DEF SameSegment, InSegment
  <2>7. ASSUME ~FAT_FAULTS, SegmentsApart(prog) PROVE LoadedSoFar'
    <3>1. \A i \in 1 .. seg - 1 : file.phdrs[i].load => Loaded(file.phdrs[i])'
      BY <1>1, <1>12, <2>5, <2>7, BehindUntouched
    <3>2. from = open_file.position
      <4>1. InCluster /\ open_file # Closed
        <5>1. open_file.cluster >= 0
          BY <1>1, <1>12 DEF FileClosed
        <5>2. InCluster
          BY <2>7 DEF ExecInv
        <5>. QED BY <5>1, <5>2 DEF Closed
      <4>2. open_file.position < file.size
        BY <1>3, <1>4
      <4>3. /\ open_file.cluster * CLUSTER_SIZE <= open_file.position
            /\ open_file.position < open_file.cluster * CLUSTER_SIZE + CLUSTER_SIZE
        BY <4>1, <4>2 DEF InCluster
      <4>4. open_file.position % CLUSTER_SIZE
              = open_file.position - open_file.cluster * CLUSTER_SIZE
        <5>1. CLUSTER_SIZE \in Nat /\ CLUSTER_SIZE > 0
          BY LoadRange
        <5>. QED BY <1>4, <4>3, <5>1, DivModIs
      <4>. QED BY <1>4, <4>4, LoadRange DEF from
    <3>3. open_file.position = Phdr.offset + (rd.to - Phdr.vaddr)
      BY <1>12, <2>7 DEF ExecInv, InCluster
    <3>4. ASSUME NEW a \in Phdr.vaddr .. rd'.to - 1
          PROVE  memory'[a] = <<prog, Phdr.offset + a - Phdr.vaddr>>
      <4>1. a \in Cells(Phdr) /\ a \in Address
        <5>1. rd.to + n <= USER_LOAD_MAX /\ USER_LOAD_MAX \in Nat
          BY <1>3, <2>2, LoadRange
        <5>. QED BY <1>3, <1>4, <2>1, <2>2, <5>1 DEF Cells, Address
      <4>2. CASE a \in rd.to .. rd.to + n - 1
        <5>1. memory'[a] = <<prog, from + a - rd.to>>
          BY <2>3, <4>1, <4>2
        <5>2. from + a - rd.to = Phdr.offset + a - Phdr.vaddr
          BY <1>4, <2>1, <3>2, <3>3, <4>2
        <5>. QED BY <5>1, <5>2
      <4>3. CASE a \notin rd.to .. rd.to + n - 1
        <5>1. a \in Phdr.vaddr .. rd.to - 1
          BY <1>4, <2>1, <2>2, <4>3
        <5>2. memory[a] = <<prog, Phdr.offset + a - Phdr.vaddr>>
          BY <1>12, <2>7, <5>1 DEF ExecInv, LoadedSoFar, FileByte
        <5>. QED BY <2>3, <4>1, <4>3, <5>2
      <4>. QED BY <4>2, <4>3
    <3>. QED BY <1>1, <1>5, <3>1, <3>4 DEF LoadedSoFar, FileByte
  <2>8. ~FAT_FAULTS => (SegmentsApart(prog) => LoadedSoFar)'
    BY <1>1, <2>7
  <2>. QED BY <1>7, <1>8, <1>9, <1>10, <2>6, <2>8 DEF ExecInv, MachineInv
<1>. QED BY <1>11, <1>12
\* A copy that runs out of memory has written in the segment, and nothing runs any more.
LEMMA ReadFaultsKeeps ==
  ASSUME ExecInv, ReadFaults
  PROVE  ExecInv'
<1>1. /\ ExecTypeOK /\ CheckedFirst /\ ReadsIntoSegment /\ rd.to # 0 /\ Count > 0
      /\ memory' = Copied(ToCopy) /\ pc' = "halted" /\ rd' = NotReading
      /\ UNCHANGED <<pmm_bitmap, open_file, prog, seg, tasks, own, execs>>
  BY DEF ExecInv, ReadFaults, CopyFaults, page_fault_handler
<1>2. pc = "load_segment"
  BY <1>1 DEF ReadsIntoSegment
<1>3. PICK n \in Nat \ {0} : n = ToCopy /\ n <= rd.need
  <2>1. ToCopy \in Nat \ {0} /\ ToCopy <= Count
    BY <1>1, TurnBounds
  <2>2. Count \in Int /\ Count <= rd.need /\ rd.need \in Nat
    BY <1>1, CountBounds, StateTyped
  <2>. QED BY <2>1, <2>2
<1>4. rd.to .. rd.to + n - 1 \subseteq Cells(Phdr)
  <2>1. /\ Phdr.vaddr \in Nat /\ Phdr.filesz \in Nat /\ Phdr.memsz \in Nat
        /\ Phdr.filesz <= Phdr.memsz
        /\ rd.to >= Phdr.vaddr /\ rd.to + rd.need = Phdr.vaddr + Phdr.filesz
    BY <1>1, <1>2, CurrentSegment DEF ReadsIntoSegment
  <2>2. rd.to \in Nat /\ rd.need \in Nat
    BY <1>1, StateTyped
  <2>. QED BY <1>3, <2>1, <2>2 DEF Cells
<1>5. \A a \in Address : a \notin Cells(Phdr) => memory'[a] = memory[a]
  BY <1>1, <1>3, <1>4 DEF Copied
<1>6. MachineInv'
  BY <1>1, <1>2, <1>5, MachineWritten DEF SameSegment, InSegment
<1>7. file' = file /\ Phdr' = Phdr
  BY <1>1 DEF file, Phdr
<1>8. ExecTypeOK'
  <2>1. rd' = [need |-> 0, left |-> 0, got |-> 0, to |-> 0]
    BY <1>1 DEF NotReading, Reading
  <2>2. open_file.position \in Nat /\ file.size \in Nat /\ open_file.position <= file.size
    BY <1>1, StateTyped
  <2>3. /\ rd' \in [need : Nat, left : Nat, got : Nat, to : Nat]
        /\ rd'.left <= rd'.need /\ rd'.left <= file'.size - open_file'.position
    BY <1>1, <1>7, <2>1, <2>2
  <2>4. DOMAIN memory' = Address
    BY <1>1 DEF Copied, ExecTypeOK
  <2>. QED BY <1>1, <1>7, <2>3, <2>4 DEF ExecTypeOK, Places
<1>9. FileClosed' /\ ReadsIntoSegment'
  BY <1>1 DEF FileClosed, ReadsIntoSegment, NotReading, Reading
<1>10. CheckedFirst'
  BY <1>1, <1>2, <1>7 DEF CheckedFirst
<1>11. ~FAT_FAULTS => InCluster'
  BY <1>1, <1>7 DEF ExecInv, InCluster
<1>12. LoadedSoFar'
  BY <1>1 DEF LoadedSoFar
<1>. QED BY <1>6, <1>8, <1>9, <1>10, <1>11, <1>12 DEF ExecInv, MachineInv

\* The bss begins where the reads ended; nothing wraps there.
LEMMA BssAfterRead ==
  ASSUME ExecInv, pc = "load_segment", rd.need = 0
  PROVE  /\ rd.to \in Nat /\ rd.to = Phdr.vaddr + Phdr.filesz
         /\ BssCells(Phdr) = Phdr.vaddr + Phdr.filesz .. Phdr.vaddr + Phdr.memsz - 1
         /\ BssCells(Phdr) \subseteq Cells(Phdr)
         /\ BssCells(Phdr) \subseteq Address => Loadable(Phdr)
<1>1. /\ Phdr.vaddr \in Nat /\ Phdr.filesz \in Nat /\ Phdr.memsz \in Nat
      /\ Phdr.filesz <= Phdr.memsz /\ Passed(prog, Phdr)
  BY CurrentSegment
<1>2. rd.to \in Nat /\ rd.to = Phdr.vaddr + Phdr.filesz /\ rd.to < ADDRESS_LIMIT
  <2>1. rd.to \in Nat
    BY StateTyped DEF ExecInv
  <2>2. rd.to + 0 = Phdr.vaddr + Phdr.filesz /\ rd.to < ADDRESS_LIMIT
    BY DEF ExecInv, ReadsIntoSegment
  <2>. QED BY <2>1, <2>2
<1>3. /\ ADDRESS_LIMIT \in Nat /\ ADDRESS_LIMIT > 0 /\ USER_LOAD_MAX \in Nat
      /\ USER_LOAD_MAX < ADDRESS_LIMIT
  BY LoadRange
<1>4. BssStart(Phdr) = rd.to
  <2>1. 0 * ADDRESS_LIMIT = 0 /\ 0 \in Int
    BY <1>3
  <2>2. rd.to % ADDRESS_LIMIT = rd.to - 0 * ADDRESS_LIMIT
    BY <1>2, <1>3, <2>1, DivModIs
  <2>3. rd.to % ADDRESS_LIMIT = rd.to
    BY <1>2, <2>1, <2>2
  <2>. QED BY <1>2, <2>3 DEF BssStart
<1>5. BssCells(Phdr) = Phdr.vaddr + Phdr.filesz .. Phdr.vaddr + Phdr.memsz - 1
  <2>1. rd.to + (Phdr.memsz - Phdr.filesz) - 1 = Phdr.vaddr + Phdr.memsz - 1
    BY <1>1, <1>2
  <2>. QED BY <1>2, <1>4, <2>1 DEF BssCells
<1>6. BssCells(Phdr) \subseteq Cells(Phdr)
  BY <1>1, <1>5 DEF Cells
<1>7. ASSUME BssCells(Phdr) \subseteq Address, Wraps(Phdr) PROVE FALSE
  <2>1. Phdr.vaddr + Phdr.memsz >= ADDRESS_LIMIT
    BY <1>7 DEF Wraps
  <2>2. Phdr.vaddr + Phdr.memsz - 1 \in BssCells(Phdr)
    BY <1>1, <1>2, <1>3, <1>5, <2>1
  <2>3. Phdr.vaddr + Phdr.memsz - 1 <= USER_LOAD_MAX - 1
    BY <1>3, <1>7, <2>2 DEF Address
  <2>. QED BY <1>1, <1>3, <2>1, <2>3
<1>. QED BY <1>1, <1>2, <1>5, <1>6, <1>7 DEF Passed

LEMMA ClearBssKeeps ==
  ASSUME ExecInv, ClearBss
  PROVE  ExecInv'
<1>1. /\ ExecTypeOK /\ CheckedFirst /\ ReadsIntoSegment
      /\ pc = "load_segment" /\ rd.need = 0
      /\ memory' = [a \in Address |-> IF a \in BssCells(Phdr) THEN Zero ELSE memory[a]]
      /\ open_file' = Closed /\ rd' = NotReading
      /\ UNCHANGED <<pmm_bitmap, prog, tasks, own, execs>>
      /\ \/ BssCells(Phdr) \subseteq Address /\ pc' = "segment" /\ seg' = seg + 1
         \/ pc' = "halted" /\ seg' = seg
  BY DEF ExecInv, ClearBss, page_fault_handler
<1>2. /\ seg \in 1 .. Len(FILE[prog].phdrs) /\ Phdr = FILE[prog].phdrs[seg]
      /\ Phdr.vaddr \in Nat /\ Phdr.filesz \in Nat /\ Phdr.memsz \in Nat
      /\ Phdr.filesz <= Phdr.memsz /\ FILE[prog].valid
  BY <1>1, CurrentSegment DEF Passed
<1>2a. pc' = "segment" => seg' = seg + 1 /\ Loadable(Phdr) /\ Cells(Phdr) \subseteq Address
  BY <1>1, <1>2, BssAfterRead, CellsInMemory
<1>3. Len(file.phdrs) \in Nat /\ seg \in Nat
  BY <1>1, StateTyped
<1>4. file' = file
  BY <1>1 DEF file
<1>5. rd' \in ReadType /\ rd'.left = 0 /\ rd'.to = 0 /\ rd'.need = 0
  <2>1. rd' = [need |-> 0, left |-> 0, got |-> 0, to |-> 0]
    BY <1>1 DEF NotReading, Reading
  <2>. QED BY <2>1 DEF ReadType
<1>6. ExecTypeOK'
  <2>1. Closed \in OpenType /\ Closed.position = 0 /\ file.size \in Nat
    BY <1>1, FreshFile, StateTyped
  <2>2. open_file' \in [cluster : Nat \union {-1}, position : 0 .. file'.size]
    BY <1>1, <1>4, <2>1 DEF OpenType
  <2>3. rd'.left <= rd'.need /\ rd'.left <= file'.size - open_file'.position
    <3>1. open_file'.position = 0 /\ file'.size = file.size
      BY <1>1, <1>4, <2>1
    <3>2. 0 <= file.size - 0
      BY <2>1
    <3>. QED BY <1>5, <3>1, <3>2
  <2>4. seg' \in 1 .. Len(file'.phdrs) + 1
    <3>1. seg <= Len(file.phdrs) /\ seg >= 1
      BY <1>2, <1>3 DEF file
    <3>2. seg + 1 \in 1 .. Len(file.phdrs) + 1 /\ seg \in 1 .. Len(file.phdrs) + 1
      BY <1>3, <3>1
    <3>. QED BY <1>1, <1>4, <3>2
  <2>5. DOMAIN memory' = Address /\ pc' \in Places /\ pc' \notin {"seek_segment", "load_segment"}
    BY <1>1 DEF Places
  <2>. QED BY <1>1, <1>5, <2>2, <2>3, <2>4, <2>5 DEF ExecTypeOK, ReadType
<1>7. /\ BssCells(Phdr) \subseteq Cells(Phdr)
      /\ BssCells(Phdr) = Phdr.vaddr + Phdr.filesz .. Phdr.vaddr + Phdr.memsz - 1
      /\ rd.to \in Nat /\ rd.to = Phdr.vaddr + Phdr.filesz
  BY <1>1, BssAfterRead
<1>8. \A a \in Address : a \notin Cells(Phdr) => memory'[a] = memory[a]
  BY <1>1, <1>7
<1>9. MachineInv'
  BY <1>1, <1>8, MachineWritten DEF SameSegment, InSegment
<1>10. FileClosed' /\ ReadsIntoSegment'
  BY <1>1, <1>5 DEF FileClosed, ReadsIntoSegment
<1>11. pc' = "segment" => \A i \in 1 .. seg' - 1 : i \in 1 .. seg - 1 \/ i = seg
  <2>1. \A i \in 1 .. (seg + 1) - 1 : i \in 1 .. seg - 1 \/ i = seg
    BY <1>3
  <2>. QED BY <1>2a, <2>1
<1>12. CheckedFirst'
  BY <1>1, <1>2, <1>2a, <1>4, <1>11 DEF CheckedFirst, file
<1>13. InCluster'
  BY <1>1 DEF InCluster
<1>14. ASSUME ~FAT_FAULTS, SegmentsApart(prog), pc' = "segment" PROVE LoadedSoFar'
  <2>1. \A i \in 1 .. seg - 1 : file.phdrs[i].load => Loaded(file.phdrs[i])'
    BY <1>1, <1>8, <1>14, BehindUntouched
  <2>3. \A a \in Phdr.vaddr .. rd.to - 1 : memory[a] = FileByte(Phdr, a)
    BY <1>1, <1>14 DEF ExecInv, LoadedSoFar
  <2>4. ASSUME NEW a \in Cells(Phdr)
        PROVE  memory'[a] = IF a < Phdr.vaddr + Phdr.filesz THEN FileByte(Phdr, a) ELSE Zero
    <3>1. CASE a < Phdr.vaddr + Phdr.filesz
      <4>1. a \in Phdr.vaddr .. rd.to - 1 /\ a \notin BssCells(Phdr)
        BY <1>2, <1>7, <3>1 DEF Cells
      <4>2. a \in Address
        BY <1>2a, <1>14
      <4>. QED BY <1>1, <2>3, <3>1, <4>1, <4>2
    <3>2. CASE ~(a < Phdr.vaddr + Phdr.filesz)
      <4>1. a \in BssCells(Phdr)
        BY <1>2, <1>7, <3>2 DEF Cells
      <4>2. a \in Address
        BY <1>2a, <1>14
      <4>. QED BY <1>1, <3>2, <4>1, <4>2
    <3>. QED BY <3>1, <3>2
  <2>5. ASSUME NEW i, i = seg PROVE Loaded(file.phdrs[i])'
    <3>1. file.phdrs[i] = Phdr
      BY <1>2, <2>5 DEF file
    <3>2. \A a \in Cells(Phdr) :
            memory'[a] = IF a < Phdr.vaddr + Phdr.filesz
                         THEN <<prog, Phdr.offset + a - Phdr.vaddr>> ELSE Zero
      BY <2>4 DEF FileByte
    <3>3. prog' = prog /\ file'.phdrs[i] = Phdr
      BY <1>1, <1>4, <3>1
    <3>. QED BY <3>2, <3>3 DEF Loaded, FileByte
  <2>6. \A i \in 1 .. seg' - 1 : file.phdrs[i].load => Loaded(file.phdrs[i])'
    BY <1>11, <1>14, <2>1, <2>5
  <2>. QED BY <1>1, <1>4, <2>6 DEF LoadedSoFar
<1>15. ~FAT_FAULTS => (SegmentsApart(prog) => LoadedSoFar)'
  <2>1. CASE pc' = "segment"
    BY <1>1, <1>14, <2>1
  <2>2. CASE pc' = "halted"
    BY <2>2 DEF LoadedSoFar
  <2>. QED BY <1>1, <2>1, <2>2
<1>. QED BY <1>6, <1>9, <1>10, <1>12, <1>13, <1>15 DEF ExecInv, MachineInv

----------------------------------------------------------------------------
(* Tasks *)

\* Pages are handed out from the bottom.
LEMMA FirstPagesAre ==
  ASSUME NEW k \in RESERVED_PAGES .. TOTAL_PAGES, pmm_bitmap = 0 .. k - 1, NEW n \in Nat
  PROVE  \E m \in k .. TOTAL_PAGES : FirstPages(n) = k .. m - 1 /\ m <= k + n
<1>1. RESERVED_PAGES \in Nat /\ TOTAL_PAGES \in Nat /\ k \in Nat
  BY PageAssumption
<1>2. FreePages = k .. TOTAL_PAGES - 1
  BY <1>1 DEF FreePages, Managed
<1>3. ASSUME NEW p \in k .. TOTAL_PAGES - 1
      PROVE  Cardinality({q \in FreePages : q <= p}) = p - k + 1
  <2>1. {q \in FreePages : q <= p} = k .. p
    BY <1>1, <1>2
  <2>2. Cardinality(k .. p) = IF k > p THEN 0 ELSE p - k + 1
    BY <1>1, FS_Interval
  <2>3. p \in Nat /\ k <= p
    BY <1>1
  <2>4. (IF k > p THEN 0 ELSE p - k + 1) = p - k + 1
    BY <1>1, <2>3
  <2>. QED BY <2>1, <2>2, <2>4
<1>4. FirstPages(n) = {p \in k .. TOTAL_PAGES - 1 : p - k + 1 <= n}
  BY <1>2, <1>3 DEF FirstPages
<1>5. PICK m \in k .. TOTAL_PAGES :
        m = k + n \/ (m = TOTAL_PAGES /\ TOTAL_PAGES <= k + n)
  <2>1. CASE k + n <= TOTAL_PAGES
    <3>1. k + n \in k .. TOTAL_PAGES
      BY <1>1, <2>1
    <3>. QED BY <3>1
  <2>2. CASE TOTAL_PAGES <= k + n
    BY <1>1, <2>2
  <2>. QED BY <1>1, <2>1, <2>2
<1>6. {p \in k .. TOTAL_PAGES - 1 : p - k + 1 <= n} = k .. m - 1
  BY <1>1, <1>5
<1>. QED BY <1>1, <1>4, <1>5, <1>6

\* The page of a cell.
LEMMA CellsOfPage ==
  ASSUME NEW p \in Nat, NEW a \in PageCells(p)
  PROVE  a \div PAGE_SIZE = p
<1>1. PAGE_SIZE \in Nat /\ PAGE_SIZE > 0
  BY LoadRange
<1>2. (p + 1) * PAGE_SIZE = p * PAGE_SIZE + PAGE_SIZE /\ p * PAGE_SIZE \in Nat
  BY <1>1
<1>3. a \in Nat /\ p * PAGE_SIZE <= a /\ a < p * PAGE_SIZE + PAGE_SIZE
  BY <1>1, <1>2 DEF PageCells
<1>. QED BY <1>1, <1>3, DivModIs
\* Every segment of a program the loader is through with has passed its checks.
LEMMA AllPassed ==
  ASSUME ExecInv, pc = "segment", seg > Len(file.phdrs)
  PROVE  /\ prog \in PROGRAMS /\ \A s \in LoadSegments(prog) : Passed(prog, s)
         /\ \A s \in LoadSegments(prog) : Loadable(s)
         /\ \A i \in 1 .. Len(file.phdrs) : i \in 1 .. seg - 1
<1>1. ExecTypeOK /\ CheckedFirst
  BY DEF ExecInv
<1>2. prog \in PROGRAMS /\ seg \in Nat /\ Len(file.phdrs) \in Nat
  BY <1>1, StateTyped
<1>3. \A i \in 1 .. Len(file.phdrs) : i \in 1 .. seg - 1
  BY <1>2
<1>4. FILE[prog].valid
  BY <1>1 DEF CheckedFirst, file
<1>5. ASSUME NEW s \in LoadSegments(prog) PROVE Loadable(s)
  <2>1. PICK i \in 1 .. Len(FILE[prog].phdrs) : s = FILE[prog].phdrs[i] /\ s.load
    BY <1>2, SegmentsAre
  <2>2. i \in 1 .. seg - 1
    BY <1>3 DEF file
  <2>. QED BY <1>1, <2>1, <2>2 DEF CheckedFirst, file
<1>. QED BY <1>2, <1>3, <1>4, <1>5 DEF Passed

\* A step that leaves the loader between two commands.
LEMMA StaysIdle ==
  ASSUME ExecInv, pc' = "idle", open_file' = Closed, rd' = NotReading,
         prog' = prog, seg' = seg, execs' \in 0 .. MAX_EXECS,
         (pmm_bitmap \subseteq Page)', (DOMAIN memory = Address)',
         (tasks \subseteq [prog : PROGRAMS, stack : SUBSET Managed])',
         \A t \in tasks' : \A s \in LoadSegments(t.prog) : Passed(t.prog, s) /\ Loadable(s),
         WritesInSegments', PagesInOrder', OwnCells'
  PROVE  ExecInv'
<1>1. ExecTypeOK
  BY DEF ExecInv
<1>2. ExecTypeOK'
  <2>1. file' = file
    BY DEF file
  <2>2. Closed \in OpenType /\ Closed.position = 0 /\ file.size \in Nat
    BY <1>1, FreshFile, StateTyped
  <2>3. /\ NotReading \in ReadType /\ NotReading.left = 0 /\ NotReading.need = 0
    BY DEF NotReading, Reading, ReadType
  <2>4. NotReading.left <= NotReading.need /\ NotReading.left <= file.size - Closed.position
    BY <2>2, <2>3
  <2>5. seg' \in 1 .. Len(file.phdrs) + 1 /\ prog \in PROGRAMS
    BY <1>1 DEF ExecTypeOK
  <2>6. open_file' \in [cluster : Nat \union {-1}, position : 0 .. file'.size]
    BY <2>1, <2>2 DEF OpenType
  <2>7. rd' \in [need : Nat, left : Nat, got : Nat, to : Nat]
    BY <2>3 DEF ReadType
  <2>. QED BY <2>1, <2>4, <2>5, <2>6, <2>7 DEF ExecTypeOK, Places
<1>3. FileClosed' /\ CheckedFirst' /\ InCluster' /\ LoadedSoFar'
  BY DEF FileClosed, CheckedFirst, InCluster, LoadedSoFar
<1>4. ReadsIntoSegment'
  BY DEF ReadsIntoSegment, NotReading, Reading
<1>. QED BY <1>2, <1>3, <1>4 DEF ExecInv

LEMMA CreateTaskKeeps ==
  ASSUME ExecInv, CreateTask
  PROVE  ExecInv'
<1>. DEFINE pages == FirstPages(STACK_PAGES + 1)
            stack == UNION {PageCells(p) : p \in pages}
            ready == Cardinality(pages) = STACK_PAGES + 1
<1>1. /\ pc = "segment" /\ seg > Len(file.phdrs) /\ pc' = "idle"
      /\ pmm_bitmap' = pmm_bitmap \union pages
      /\ memory' = [a \in Address |->
             IF ready /\ a \in stack THEN <<"stack">> ELSE memory[a]]
      /\ tasks' = IF ready THEN tasks \union {[prog |-> prog, stack |-> pages]} ELSE tasks
      /\ own' = [a \in {b \in DOMAIN own \union (IF ready THEN ImageOf(prog) ELSE {}) :
                           b \div PAGE_SIZE \notin pmm_bitmap'} |->
             IF a \in DOMAIN own THEN own[a] ELSE memory[a]]
      /\ UNCHANGED <<open_file, prog, seg, rd, execs>>
  BY DEF CreateTask
<1>2. /\ ExecTypeOK /\ CheckedFirst /\ open_file = Closed /\ rd = NotReading
      /\ WritesInSegments /\ OwnCells
  BY <1>1 DEF ExecInv, FileClosed
<1>3. STACK_PAGES + 1 \in Nat /\ execs \in Nat /\ RESERVED_PAGES \in Nat
      /\ TOTAL_PAGES \in Nat /\ execs \in 0 .. MAX_EXECS
  <2>1. execs \in 0 .. MAX_EXECS
    BY <1>2 DEF ExecTypeOK
  <2>. QED BY <2>1, ExecAssumption, PageAssumption
<1>4. PICK k \in RESERVED_PAGES .. TOTAL_PAGES :
        pmm_bitmap = 0 .. k - 1 /\ k <= RESERVED_PAGES + (execs - 1) * (STACK_PAGES + 1)
  BY <1>1 DEF ExecInv, PagesInOrder
<1>5. PICK m \in k .. TOTAL_PAGES : pages = k .. m - 1 /\ m <= k + (STACK_PAGES + 1)
  <2>1. \A n \in Nat : \E m \in k .. TOTAL_PAGES : FirstPages(n) = k .. m - 1 /\ m <= k + n
    BY <1>4, FirstPagesAre
  <2>. QED BY <1>3, <2>1
<1>. HIDE DEF pages, stack, ready
<1>6. k \in Nat /\ m \in Nat /\ RESERVED_PAGES <= k /\ k <= m /\ m <= TOTAL_PAGES
  BY <1>3
<1>7. pages \subseteq Managed /\ pages \subseteq Nat /\ Managed \subseteq Page
  BY <1>3, <1>5, <1>6 DEF Managed, Page
<1>8. PagesInOrder'
  <2>1. pmm_bitmap' = 0 .. m - 1
    BY <1>1, <1>4, <1>5, <1>6
  <2>2. PICK x \in Int, y \in Int :
          /\ x = (execs - 1) * (STACK_PAGES + 1) /\ y = execs * (STACK_PAGES + 1)
          /\ y = x + (STACK_PAGES + 1)
    BY <1>3
  <2>3. k <= RESERVED_PAGES + x /\ m <= k + (STACK_PAGES + 1)
    BY <1>4, <1>5, <2>2, Zenon
  <2>4. m <= RESERVED_PAGES + execs * (STACK_PAGES + 1)
    <3>1. m <= RESERVED_PAGES + y
      <4>1. STACK_PAGES + 1 \in Nat /\ RESERVED_PAGES \in Nat /\ k \in Nat /\ m \in Nat
        BY <1>3, <1>6
      <4>. QED BY <2>2, <2>3, <4>1
    <3>. QED BY <2>2, <3>1, Zenon
  <2>5. m \in RESERVED_PAGES .. TOTAL_PAGES
    BY <1>3, <1>6
  <2>. QED BY <1>1, <2>1, <2>4, <2>5 DEF PagesInOrder
<1>9. (pmm_bitmap \subseteq Page)' /\ (DOMAIN memory = Address)'
  BY <1>1, <1>2, <1>7 DEF ExecTypeOK, Page
<1>10. (tasks \subseteq [prog : PROGRAMS, stack : SUBSET Managed])'
  <2>1. [prog |-> prog, stack |-> pages] \in [prog : PROGRAMS, stack : SUBSET Managed]
    BY <1>2, <1>7 DEF ExecTypeOK
  <2>2. tasks \subseteq [prog : PROGRAMS, stack : SUBSET Managed]
    BY <1>2 DEF ExecTypeOK
  <2>. QED BY <1>1, <2>1, <2>2 DEF Managed
<1>11. \A t \in tasks' : \A s \in LoadSegments(t.prog) : Passed(t.prog, s) /\ Loadable(s)
  <2>1. \A t \in tasks : \A s \in LoadSegments(t.prog) : Passed(t.prog, s) /\ Loadable(s)
    BY <1>2 DEF CheckedFirst
  <2>2. \A s \in LoadSegments(prog) : Passed(prog, s) /\ Loadable(s)
    BY <1>1, AllPassed
  <2>. QED BY <1>1, <2>1, <2>2
<1>12. WritesInSegments'
  <2>1. \A a \in stack : a \div PAGE_SIZE \in pages
    BY <1>7, CellsOfPage DEF stack
  <2>2. ASSUME NEW a \in Address, memory'[a] # <<"initial">>
        PROVE  \/ a \div PAGE_SIZE \in pmm_bitmap' \intersect Managed
               \/ \E g \in PROGRAMS : \E s \in LoadSegments(g) : a \in Cells(s) /\ Passed(g, s)
    <3>1. CASE ready /\ a \in stack
      BY <1>1, <1>7, <2>1, <3>1
    <3>2. CASE ~(ready /\ a \in stack)
      <4>1. memory'[a] = memory[a]
        BY <1>1, <3>2
      <4>. QED BY <1>1, <1>2, <2>2, <4>1 DEF WritesInSegments
    <3>. QED BY <3>1, <3>2
  <2>. QED BY <2>2 DEF WritesInSegments, Managed
<1>13. OwnCells'
  <2>1. DOMAIN own' = {b \in DOMAIN own \union (IF ready THEN ImageOf(prog) ELSE {}) :
                         b \div PAGE_SIZE \notin pmm_bitmap'}
    BY <1>1
  <2>2. ASSUME NEW a \in DOMAIN own'
        PROVE  \E t \in tasks' : a \in ImageOf(t.prog)
    <3>1. CASE a \in DOMAIN own
      BY <1>1, <1>2, <3>1 DEF OwnCells
    <3>2. CASE a \notin DOMAIN own
      <4>1. ready /\ a \in ImageOf(prog)
        BY <2>1, <3>2
      <4>2. PICK t : t = [prog |-> prog, stack |-> pages]
        OBVIOUS
      <4>3. t \in tasks' /\ t.prog = prog
        BY <1>1, <4>1, <4>2
      <4>. QED BY <4>1, <4>3
    <3>. QED BY <3>1, <3>2
  <2>3. \A a \in DOMAIN own' : a \div PAGE_SIZE \notin pmm_bitmap'
    BY <2>1
  <2>4. pc' \notin InSegment
    BY <1>1 DEF InSegment
  <2>. QED BY <2>2, <2>3, <2>4 DEF OwnCells, ImageOf, InSegment
<1>. QED BY <1>1, <1>2, <1>3, <1>8, <1>9, <1>10, <1>11, <1>12, <1>13, StaysIdle

LEMMA TaskWritesKeeps ==
  ASSUME ExecInv, TaskWrites
  PROVE  ExecInv'
<1>1. /\ ExecTypeOK /\ CheckedFirst /\ pc = "idle" /\ open_file = Closed /\ rd = NotReading
      /\ WritesInSegments /\ OwnCells /\ PagesInOrder
      /\ UNCHANGED <<pmm_bitmap, open_file, pc, prog, seg, rd, tasks, execs>>
  BY DEF ExecInv, FileClosed, TaskWrites
<1>2. PICK t \in tasks :
        /\ memory' = [a \in DOMAIN memory |->
                        IF a \in ImageOf(t.prog) THEN <<"written">> ELSE memory[a]]
        /\ own' = [a \in DOMAIN own |->
                        IF a \in ImageOf(t.prog) THEN <<"written">> ELSE own[a]]
  BY DEF TaskWrites
<1>3. t.prog \in PROGRAMS /\ \A s \in LoadSegments(t.prog) : Passed(t.prog, s) /\ Loadable(s)
  BY <1>1 DEF ExecTypeOK, CheckedFirst
<1>4. DOMAIN memory' = Address /\ DOMAIN own' = DOMAIN own
  BY <1>1, <1>2 DEF ExecTypeOK
<1>5. WritesInSegments'
  <2>1. ASSUME NEW a \in Address, a \in ImageOf(t.prog)
        PROVE  \E s \in LoadSegments(t.prog) : a \in Cells(s) /\ Passed(t.prog, s)
    BY <1>3, <2>1 DEF ImageOf
  <2>2. \A a \in Address : a \notin ImageOf(t.prog) => memory'[a] = memory[a]
    BY <1>1, <1>2 DEF ExecTypeOK
  <2>. QED BY <1>1, <1>3, <2>1, <2>2 DEF WritesInSegments
<1>6. OwnCells' /\ PagesInOrder'
  BY <1>1, <1>4 DEF OwnCells, ImageOf, PagesInOrder
<1>7. /\ (pmm_bitmap \subseteq Page)' /\ (DOMAIN memory = Address)' /\ execs' \in 0 .. MAX_EXECS
      /\ (tasks \subseteq [prog : PROGRAMS, stack : SUBSET Managed])'
      /\ \A u \in tasks' : \A s \in LoadSegments(u.prog) : Passed(u.prog, s) /\ Loadable(s)
  BY <1>1, <1>4 DEF ExecTypeOK, CheckedFirst, Page, Address, Managed
<1>. QED BY <1>1, <1>5, <1>6, <1>7, StaysIdle

LEMMA TaskExitsKeeps ==
  ASSUME ExecInv, TaskExits
  PROVE  ExecInv'
<1>1. /\ ExecTypeOK /\ CheckedFirst /\ pc = "idle" /\ open_file = Closed /\ rd = NotReading
      /\ WritesInSegments /\ PagesInOrder
      /\ UNCHANGED <<pmm_bitmap, memory, open_file, pc, prog, seg, rd, execs>>
  BY DEF ExecInv, FileClosed, TaskExits
<1>2. PICK t \in tasks :
        /\ tasks' = tasks \ {t}
        /\ own' = [a \in DOMAIN own \intersect UNION {ImageOf(u.prog) : u \in tasks \ {t}} |->
                     own[a]]
  BY DEF TaskExits
<1>3. OwnCells'
  <2>1. OwnCells
    BY DEF ExecInv
  <2>. QED BY <1>1, <1>2, <2>1 DEF OwnCells, ImageOf
<1>4. WritesInSegments' /\ PagesInOrder'
  BY <1>1 DEF WritesInSegments, PagesInOrder
<1>5. /\ (pmm_bitmap \subseteq Page)' /\ (DOMAIN memory = Address)' /\ execs' \in 0 .. MAX_EXECS
      /\ (tasks \subseteq [prog : PROGRAMS, stack : SUBSET Managed])'
      /\ \A u \in tasks' : \A s \in LoadSegments(u.prog) : Passed(u.prog, s) /\ Loadable(s)
  BY <1>1, <1>2 DEF ExecTypeOK, CheckedFirst, Page, Address, Managed
<1>. QED BY <1>1, <1>3, <1>4, <1>5, StaysIdle

LEMMA StartKeeps ==
  ASSUME ExecInv, NEW g \in PROGRAMS, Start(g)
  PROVE  ExecInv'
<1>1. /\ ExecTypeOK /\ CheckedFirst /\ WritesInSegments /\ PagesInOrder /\ OwnCells
      /\ pc = "idle" /\ execs < MAX_EXECS
      /\ execs' = execs + 1 /\ prog' = g /\ seg' = 1 /\ pc' = "header"
      /\ open_file' = Opened /\ rd' = Reading(HEADER, 0)
      /\ UNCHANGED <<pmm_bitmap, memory, tasks, own>>
  BY DEF ExecInv, Start, Open
<1>2. /\ file' = FILE[g] /\ FILE[g].size \in Nat /\ Len(FILE[g].phdrs) \in Nat
      /\ HEADER \in Nat /\ HEADER > 0
  BY <1>1, FileTyped, ExecAssumption DEF file
<1>3. rd' = [need |-> HEADER, left |-> 0, got |-> 0, to |-> 0]
  BY <1>1 DEF Reading
<1>4. open_file' = [cluster |-> 0, position |-> 0]
  BY <1>1 DEF Opened
<1>5. execs \in Nat /\ execs' \in 0 .. MAX_EXECS
  <2>1. execs \in 0 .. MAX_EXECS
    BY <1>1 DEF ExecTypeOK
  <2>. QED BY <1>1, <2>1, ExecAssumption
<1>6. ExecTypeOK'
  <2>1. (open_file \in [cluster : Nat \union {-1}, position : 0 .. file.size])'
    BY <1>2, <1>4
  <2>2. /\ (rd \in [need : Nat, left : Nat, got : Nat, to : Nat])'
        /\ rd'.left <= rd'.need /\ rd'.left <= file'.size - open_file'.position
    BY <1>2, <1>3, <1>4
  <2>3. seg' \in 1 .. Len(file'.phdrs) + 1
    BY <1>1, <1>2
  <2>4. (tasks \subseteq [prog : PROGRAMS, stack : SUBSET Managed])' /\ (pmm_bitmap \subseteq Page)'
        /\ (DOMAIN memory = Address)'
    BY <1>1 DEF ExecTypeOK, Managed, Page, Address
  <2>. QED BY <1>1, <1>5, <2>1, <2>2, <2>3, <2>4 DEF ExecTypeOK, Places
<1>7. WritesInSegments' /\ OwnCells' /\ CheckedFirst'
  BY <1>1 DEF WritesInSegments, OwnCells, ImageOf, CheckedFirst
<1>8. PagesInOrder'
  <2>1. execs' - 1 = execs
    BY <1>1, <1>5
  <2>. QED BY <1>1, <2>1 DEF PagesInOrder
<1>10. FileClosed' /\ ReadsIntoSegment'
  <2>1. rd'.to = 0 /\ open_file'.cluster >= 0
    BY <1>3, <1>4
  <2>. QED BY <1>1, <2>1 DEF FileClosed, ReadsIntoSegment
<1>11. InCluster'
  <2>1. open_file'.cluster = 0 /\ open_file'.position = 0 /\ CLUSTER_SIZE \in Nat /\ CLUSTER_SIZE > 0
    BY <1>4, ExecAssumption
  <2>2. 0 * CLUSTER_SIZE = 0
    BY <2>1
  <2>. QED BY <1>1, <2>1, <2>2 DEF InCluster
<1>12. LoadedSoFar'
  BY <1>1 DEF LoadedSoFar
<1>. QED BY <1>6, <1>7, <1>8, <1>10, <1>11, <1>12 DEF ExecInv

LEMMA OpenFailsKeeps ==
  ASSUME ExecInv, OpenFails
  PROVE  ExecInv'
<1>1. /\ ExecTypeOK /\ CheckedFirst /\ WritesInSegments /\ PagesInOrder /\ OwnCells
      /\ pc = "idle" /\ open_file = Closed /\ rd = NotReading
      /\ execs < MAX_EXECS /\ execs' = execs + 1
      /\ UNCHANGED <<pmm_bitmap, memory, open_file, pc, prog, seg, rd, tasks, own>>
  BY DEF ExecInv, FileClosed, OpenFails
<1>2. execs \in Nat /\ execs' \in 0 .. MAX_EXECS /\ STACK_PAGES \in Nat
      /\ RESERVED_PAGES \in Nat /\ TOTAL_PAGES \in Nat
  <2>1. execs \in 0 .. MAX_EXECS
    BY <1>1 DEF ExecTypeOK
  <2>. QED BY <1>1, <2>1, ExecAssumption, PageAssumption
<1>3. PagesInOrder'
  <2>1. PICK k \in RESERVED_PAGES .. TOTAL_PAGES :
          pmm_bitmap = 0 .. k - 1 /\ k <= RESERVED_PAGES + execs * (STACK_PAGES + 1)
    BY <1>1 DEF PagesInOrder
  <2>2. (execs + 1) * (STACK_PAGES + 1) = execs * (STACK_PAGES + 1) + (STACK_PAGES + 1)
    BY <1>2
  <2>3. execs * (STACK_PAGES + 1) \in Int /\ (execs + 1) * (STACK_PAGES + 1) \in Int
    BY <1>2
  <2>4. k <= RESERVED_PAGES + (execs + 1) * (STACK_PAGES + 1)
    BY <1>2, <2>1, <2>2, <2>3
  <2>. QED BY <1>1, <2>1, <2>4 DEF PagesInOrder
<1>4. WritesInSegments' /\ OwnCells'
  BY <1>1 DEF WritesInSegments, OwnCells, ImageOf
<1>5. /\ (pmm_bitmap \subseteq Page)' /\ (DOMAIN memory = Address)'
      /\ (tasks \subseteq [prog : PROGRAMS, stack : SUBSET Managed])'
      /\ \A u \in tasks' : \A s \in LoadSegments(u.prog) : Passed(u.prog, s) /\ Loadable(s)
  BY <1>1 DEF ExecTypeOK, CheckedFirst, Page, Address, Managed
<1>. QED BY <1>1, <1>2, <1>3, <1>4, <1>5, StaysIdle

----------------------------------------------------------------------------
(* The loader's invariant *)

LEMMA InitExecInv == Init => ExecInv
<1>. SUFFICES ASSUME Init PROVE ExecInv
  OBVIOUS
<1>1. /\ pmm_bitmap = Page \ Managed /\ memory = [a \in Address |-> <<"initial">>]
      /\ open_file = Closed /\ pc = "idle" /\ prog = (CHOOSE g \in PROGRAMS : TRUE)
      /\ seg = 1 /\ rd = NotReading /\ tasks = {} /\ DOMAIN own = {} /\ execs = 0
  BY DEF Init, pmm_init
<1>2. prog \in PROGRAMS
  BY <1>1, FileAssumption
<1>3. file.size \in Nat /\ Len(file.phdrs) \in Nat
  BY <1>2, FileTyped DEF file
<1>4. ExecTypeOK
  <2>1. open_file \in [cluster : Nat \union {-1}, position : 0 .. file.size]
    BY <1>1, <1>3 DEF Closed
  <2>2. /\ rd \in [need : Nat, left : Nat, got : Nat, to : Nat]
        /\ rd.left <= rd.need /\ rd.left <= file.size - open_file.position
    BY <1>1, <1>3 DEF NotReading, Reading, Closed
  <2>3. seg \in 1 .. Len(file.phdrs) + 1
    BY <1>1, <1>3
  <2>4. execs \in 0 .. MAX_EXECS
    BY <1>1, ExecAssumption
  <2>5. DOMAIN memory = Address
    BY <1>1
  <2>. QED BY <1>1, <1>2, <2>1, <2>2, <2>3, <2>4, <2>5 DEF ExecTypeOK, Places
<1>5. WritesInSegments
  BY <1>1 DEF WritesInSegments
<1>6. OwnCells
  BY <1>1 DEF OwnCells
<1>7. PagesInOrder
  <2>1. RESERVED_PAGES \in RESERVED_PAGES .. TOTAL_PAGES /\ STACK_PAGES + 1 \in Nat
        /\ RESERVED_PAGES \in Nat /\ 0 * (STACK_PAGES + 1) = 0
    BY PageAssumption, ExecAssumption
  <2>2. pmm_bitmap = 0 .. RESERVED_PAGES - 1
    BY <1>1, PageAssumption DEF Page, Managed
  <2>3. RESERVED_PAGES <= RESERVED_PAGES + 0 * (STACK_PAGES + 1)
    BY <2>1
  <2>. QED BY <1>1, <2>1, <2>2, <2>3 DEF PagesInOrder
<1>8. FileClosed /\ CheckedFirst /\ LoadedSoFar
  BY <1>1 DEF FileClosed, CheckedFirst, LoadedSoFar
<1>9. ReadsIntoSegment
  BY <1>1 DEF ReadsIntoSegment, NotReading, Reading
<1>10. InCluster
  BY <1>1 DEF InCluster
<1>. QED BY <1>4, <1>5, <1>6, <1>7, <1>8, <1>9, <1>10 DEF ExecInv

LEMMA StutterKeepsExecInv == ExecInv /\ UNCHANGED vars => ExecInv'
<1>. SUFFICES ASSUME ExecInv, UNCHANGED vars PROVE ExecInv'
  OBVIOUS
<1>1. UNCHANGED <<pmm_bitmap, memory, open_file, pc, prog, seg, rd, tasks, own, execs>>
  BY DEF vars
<1>2. ExecTypeOK' /\ WritesInSegments' /\ FileClosed' /\ PagesInOrder'
  BY <1>1 DEF ExecInv, ExecTypeOK, file, WritesInSegments, FileClosed, PagesInOrder
<1>3. CheckedFirst' /\ ReadsIntoSegment' /\ OwnCells'
  <2>1. OwnCells'
    BY <1>1, OwnUntouched DEF SameSegment, InSegment
  <2>. QED BY <1>1, <2>1 DEF ExecInv, CheckedFirst, file, Phdr, ReadsIntoSegment
<1>4. ~FAT_FAULTS => InCluster' /\ (SegmentsApart(prog') => LoadedSoFar')
  BY <1>1 DEF ExecInv, InCluster, LoadedSoFar, file, Phdr, Loaded, FileByte
<1>. QED BY <1>2, <1>3, <1>4 DEF ExecInv

LEMMA NextKeepsExecInv == ExecInv /\ [Next]_vars => ExecInv'
<1>. SUFFICES ASSUME ExecInv, [Next]_vars PROVE ExecInv'
  OBVIOUS
<1>1. ASSUME NEW g \in PROGRAMS, Start(g) PROVE ExecInv'
  BY <1>1, StartKeeps
<1>2. CASE OpenFails
  BY <1>2, OpenFailsKeeps
<1>3. CASE LoaderStep
  BY <1>3, ReadClusterKeeps, ReadFaultsKeeps, ReadFailsKeeps, ReadPastEndKeeps, CheckHeaderKeeps,
     ReadPhdrKeeps, NextSegmentKeeps, LoadSegmentKeeps, ClearBssKeeps, CreateTaskKeeps
     DEF LoaderStep
<1>4. CASE TaskWrites
  BY <1>4, TaskWritesKeeps
<1>5. CASE TaskExits
  BY <1>5, TaskExitsKeeps
<1>6. CASE UNCHANGED vars
  BY <1>6, StutterKeepsExecInv
<1>. QED BY <1>1, <1>2, <1>3, <1>4, <1>5, <1>6 DEF Next

\* Whatever 64-bit numbers the headers hold and wherever a read fails,
\* elf_load_user_program writes only inside segments that passed its checks, gives the
\* file slot back, and does not get past a segment that is not inside the window.
THEOREM ExecInvariance == Spec => []ExecInv
BY InitExecInv, NextKeepsExecInv, PTL DEF Spec

\* As long as the FAT can be read, and the linker has given the segments of every
\* program different addresses, a load that succeeds has put every byte in its place,
\* however often clusters end, reads come back short or fail.
THEOREM LoadsItsImage ==
  ASSUME ~FAT_FAULTS, \A g \in PROGRAMS : SegmentsApart(g)
  PROVE  Spec => []LoadsImage
<1>1. ExecInv => LoadsImage
  <2>. SUFFICES ASSUME ExecInv, pc = "segment", seg > Len(file.phdrs),
                       NEW s \in LoadSegments(prog)
                PROVE  Loaded(s)
    BY DEF LoadsImage
  <2>1. prog \in PROGRAMS /\ \A i \in 1 .. Len(file.phdrs) : i \in 1 .. seg - 1
    BY AllPassed
  <2>2. LoadedSoFar
    BY <2>1 DEF ExecInv
  <2>3. PICK i \in 1 .. Len(FILE[prog].phdrs) : s = FILE[prog].phdrs[i] /\ s.load
    BY <2>1, SegmentsAre
  <2>. QED BY <2>1, <2>2, <2>3 DEF LoadedSoFar, file
<1>. QED BY <1>1, ExecInvariance, PTL

----------------------------------------------------------------------------
(* Running programs *)

\* What a running program keeps is memory.
LEMMA OwnInMemory ==
  ASSUME ExecInv, NEW a \in DOMAIN own
  PROVE  a \in Address
<1>1. PICK t \in tasks : a \in ImageOf(t.prog)
  BY DEF ExecInv, OwnCells
<1>2. PICK s \in LoadSegments(t.prog) : a \in Cells(s)
  BY <1>1 DEF ImageOf
<1>3. t.prog \in PROGRAMS /\ Loadable(s)
  BY <1>2 DEF ExecInv, ExecTypeOK, CheckedFirst
<1>4. PICK i \in 1 .. Len(FILE[t.prog].phdrs) : s = FILE[t.prog].phdrs[i]
  BY <1>3, SegmentsAre
<1>5. s.vaddr \in Nat /\ s.memsz \in Nat
  BY <1>3, <1>4, PhdrTyped
<1>. QED BY <1>2, <1>3, <1>5, CellsInMemory

\* Creating a task writes its stacks only, in pages that nobody keeps any longer.
LEMMA CreateTaskIntact ==
  ASSUME ExecInv, RunningIntact, CreateTask
  PROVE  RunningIntact'
<1>. DEFINE pages == FirstPages(STACK_PAGES + 1)
            stack == UNION {PageCells(p) : p \in pages}
            ready == Cardinality(pages) = STACK_PAGES + 1
<1>1. /\ pc = "segment" /\ seg > Len(file.phdrs)
      /\ pmm_bitmap' = pmm_bitmap \union pages
      /\ memory' = [a \in Address |->
             IF ready /\ a \in stack THEN <<"stack">> ELSE memory[a]]
      /\ own' = [a \in {b \in DOMAIN own \union (IF ready THEN ImageOf(prog) ELSE {}) :
                           b \div PAGE_SIZE \notin pmm_bitmap'} |->
             IF a \in DOMAIN own THEN own[a] ELSE memory[a]]
  BY DEF CreateTask
<1>2. pages \subseteq Nat
  <2>1. RESERVED_PAGES \in Nat /\ TOTAL_PAGES \in Nat
    BY PageAssumption
  <2>2. pages \subseteq Managed
    BY DEF FirstPages, FreePages
  <2>. QED BY <2>1, <2>2 DEF Managed
<1>3. \A a \in stack : a \div PAGE_SIZE \in pages
  BY <1>2, CellsOfPage
<1>. HIDE DEF pages, stack, ready
<1>4. ASSUME NEW a \in ImageOf(prog) PROVE a \in Address
  <2>1. PICK s \in LoadSegments(prog) : a \in Cells(s)
    BY DEF ImageOf
  <2>2. prog \in PROGRAMS /\ Loadable(s)
    BY <1>1, <2>1, AllPassed
  <2>3. PICK i \in 1 .. Len(FILE[prog].phdrs) : s = FILE[prog].phdrs[i]
    BY <2>2, SegmentsAre
  <2>4. s.vaddr \in Nat /\ s.memsz \in Nat
    BY <2>2, <2>3, PhdrTyped
  <2>. QED BY <2>1, <2>2, <2>4, CellsInMemory
<1>5. ASSUME NEW a \in DOMAIN own' PROVE memory'[a] = own'[a]
  <2>1. (a \in DOMAIN own \/ a \in ImageOf(prog)) /\ a \div PAGE_SIZE \notin pmm_bitmap'
    BY <1>1, <1>5
  <2>2. a \in Address /\ a \notin stack
    BY <1>1, <1>3, <1>4, <2>1, OwnInMemory
  <2>3. memory'[a] = memory[a]
    BY <1>1, <2>2
  <2>4. own'[a] = IF a \in DOMAIN own THEN own[a] ELSE memory[a]
    BY <1>1, <1>5
  <2>. QED BY <2>3, <2>4 DEF RunningIntact
<1>. QED BY <1>5 DEF RunningIntact

\* What is written in the segment being loaded is not kept by anybody.
LEMMA SegmentWritten ==
  ASSUME ExecInv, RunningIntact, pc = "load_segment", own' = own,
         \A a \in Address : a \notin Cells(Phdr) => memory'[a] = memory[a]
  PROVE  RunningIntact'
<1>1. ASSUME NEW a \in DOMAIN own PROVE a \notin Cells(Phdr) /\ a \in Address
  BY OwnInMemory DEF ExecInv, OwnCells
<1>. QED BY <1>1 DEF RunningIntact

\* Bytes that are copied go to the scratch buffer or into the segment.
LEMMA CopiedInSegment ==
  ASSUME ExecInv, NEW n \in Nat \ {0}, n <= rd.need, rd.to # 0
  PROVE  /\ pc = "load_segment"
         /\ \A a \in Address : a \notin Cells(Phdr) => Copied(n)[a] = memory[a]
<1>1. pc = "load_segment"
  BY DEF ExecInv, ReadsIntoSegment
<1>2. rd.to >= Phdr.vaddr /\ rd.to + rd.need = Phdr.vaddr + Phdr.filesz
  BY <1>1 DEF ExecInv, ReadsIntoSegment
<1>3. /\ Phdr.vaddr \in Nat /\ Phdr.filesz \in Nat /\ Phdr.memsz \in Nat
      /\ Phdr.filesz <= Phdr.memsz
  BY <1>1, CurrentSegment
<1>4. rd.to \in Nat /\ rd.need \in Nat
  BY StateTyped DEF ExecInv
<1>5. \A a \in rd.to .. rd.to + n - 1 : a \in Cells(Phdr)
  BY <1>2, <1>3, <1>4 DEF Cells
<1>. QED BY <1>1, <1>5 DEF Copied

\* A step of the loader before that writes in the segment it is in.
LEMMA LoaderWrites ==
  ASSUME ExecInv, RunningIntact, LoaderStep
  PROVE  RunningIntact'
<1>1. CASE UNCHANGED <<memory, own>>
  BY <1>1 DEF RunningIntact
<1>2. CASE CreateTask
  BY <1>2, CreateTaskIntact
<1>3. CASE ReadCluster
  <2>1. PICK n \in Nat \ {0} : n <= rd.need /\ memory' = Copied(n)
    BY <1>3, ReadClusterDoes DEF ExecInv
  <2>2. own' = own
    BY <1>3 DEF ReadCluster
  <2>3. CASE rd.to = 0
    BY <1>1, <2>1, <2>2, <2>3 DEF Copied
  <2>4. CASE rd.to # 0
    BY <2>1, <2>2, <2>4, CopiedInSegment, SegmentWritten
  <2>. QED BY <2>3, <2>4
<1>4. CASE ReadFaults
  <2>1. rd.to # 0 /\ own' = own /\ memory' = Copied(ToCopy) /\ Count > 0
    BY <1>4 DEF ReadFaults, CopyFaults, page_fault_handler
  <2>2. ToCopy \in Nat \ {0} /\ ToCopy <= rd.need
    <3>1. ToCopy \in Nat \ {0} /\ ToCopy <= Count /\ Count \in Int /\ Count <= rd.need
          /\ rd.need \in Nat
      BY <2>1, TurnBounds, CountBounds, StateTyped DEF ExecInv
    <3>. QED BY <3>1
  <2>. QED BY <2>1, <2>2, CopiedInSegment, SegmentWritten
<1>5. CASE ClearBss
  <2>1. /\ pc = "load_segment" /\ rd.need = 0 /\ own' = own
        /\ memory' = [a \in Address |-> IF a \in BssCells(Phdr) THEN Zero ELSE memory[a]]
    BY <1>5 DEF ClearBss, page_fault_handler
  <2>2. BssCells(Phdr) \subseteq Cells(Phdr)
    BY <2>1, BssAfterRead
  <2>. QED BY <2>1, <2>2, SegmentWritten
<1>6. CASE NextSegment
  <2>1. memory' = memory
    BY <1>6 DEF NextSegment, Fail, Untouched
  <2>2. own' = own \/ own' = [a \in DOMAIN own \ Cells(Phdr) |-> own[a]]
    BY <1>6 DEF NextSegment, Fail, Untouched
  <2>. QED BY <2>1, <2>2 DEF RunningIntact
<1>7. ReadFails \/ ReadPastEnd \/ CheckHeader \/ ReadPhdr \/ LoadSegment
        => UNCHANGED <<memory, own>>
  BY DEF ReadFails, ReadPastEnd, CheckHeader, ReadPhdr, LoadSegment, Fail, Untouched
<1>. QED BY <1>1, <1>2, <1>3, <1>4, <1>5, <1>6, <1>7 DEF LoaderStep

\* Wherever programs are linked to and however often they are started, exec changes no
\* cell of a running program but those of a segment that a program started later has
\* there and those of a page handed out for a stack.
THEOREM RunningProgramsIntact == Spec => []RunningIntact
<1>1. Init => RunningIntact
  BY DEF Init, RunningIntact
<1>2. ExecInv /\ RunningIntact /\ [Next]_vars => RunningIntact'
  <2>. SUFFICES ASSUME ExecInv, RunningIntact, [Next]_vars PROVE RunningIntact'
    OBVIOUS
  <2>1. CASE LoaderStep
    BY <2>1, LoaderWrites
  <2>2. CASE TaskWrites
    <3>1. PICK t \in tasks :
            /\ memory' = [a \in DOMAIN memory |->
                            IF a \in ImageOf(t.prog) THEN <<"written">> ELSE memory[a]]
            /\ own' = [a \in DOMAIN own |->
                            IF a \in ImageOf(t.prog) THEN <<"written">> ELSE own[a]]
      BY <2>2 DEF TaskWrites
    <3>2. \A a \in DOMAIN own : a \in DOMAIN memory
      BY OwnInMemory DEF ExecInv, ExecTypeOK
    <3>. QED BY <3>1, <3>2 DEF RunningIntact
  <2>3. CASE TaskExits
    <3>1. PICK t \in tasks :
            /\ own' = [a \in DOMAIN own \intersect UNION {ImageOf(u.prog) : u \in tasks \ {t}} |->
                         own[a]]
            /\ memory' = memory
      BY <2>3 DEF TaskExits
    <3>2. \A a \in DOMAIN own' : a \in DOMAIN own /\ own'[a] = own[a]
      BY <3>1
    <3>. QED BY <3>1, <3>2 DEF RunningIntact
  <2>4. (\E g \in PROGRAMS : Start(g)) \/ OpenFails \/ UNCHANGED vars
          => UNCHANGED <<memory, own>>
    BY DEF Start, OpenFails, vars
  <2>. QED BY <2>1, <2>2, <2>3, <2>4 DEF Next, RunningIntact
<1>. QED BY <1>1, <1>2, ExecInvariance, PTL DEF Spec
=============================================================================
