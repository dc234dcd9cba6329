-------------------------------- MODULE Heap --------------------------------
(***************************************************************************)
(* The kernel heap (mm/heap.c), a bump allocator that takes one page at a  *)
(* time from the physical memory manager, next to the other clients of     *)
(* that manager. An address is a page and an offset into it.               *)
(***************************************************************************)
EXTENDS Pmm, FiniteSets

CONSTANTS
  HEAP_PAGE_SIZE,  \* bytes malloc counts on in a page: 4096 in the code
  SIZE_LIMIT,   \* 2^64: size_t arithmetic is modulo this
  SIZES,        \* what callers ask for
  MAX_BLOCKS    \* bound: successful calls of malloc per behaviour

ASSUME HeapAssumption ==
  /\ HEAP_PAGE_SIZE \in Nat \ {0}
  /\ HEAP_PAGE_SIZE % 8 = 0
  /\ SIZE_LIMIT \in Nat
  /\ HEAP_PAGE_SIZE < SIZE_LIMIT
  /\ SIZES \subseteq 0 .. SIZE_LIMIT - 1
  /\ MAX_BLOCKS \in Nat

VARIABLES
  heap_cursor,     \* page and offset of the next free byte; page NULL: none
  heap_remaining,  \* bytes malloc believes are left above heap_cursor
  heap_pages,      \* history: pages malloc got from the page allocator
  other_pages,     \* history: pages the other clients hold
  blocks           \* history: what malloc returned, with the requested size

heap_vars == <<pmm_bitmap, heap_cursor, heap_remaining, heap_pages, other_pages,
               blocks>>

NoCursor == [page |-> NULL, off |-> 0]

HeapInit ==
  /\ pmm_init
  /\ heap_cursor = NoCursor
  /\ heap_remaining = 0
  /\ heap_pages = {}
  /\ other_pages = {}
  /\ blocks = {}

\* Mutant of RoundUp: the size is not aligned.
RoundUpNot(size) == size

\* Up to the next multiple of 8, in size_t.
RoundUp(size) ==
  IF size % 8 = 0 THEN size ELSE (size + (8 - (size % 8))) % SIZE_LIMIT

\* Mutant of NeedsPage: the page allocator's failure is forgotten, so the stale
\* heap_remaining is used with a NULL cursor.
NeedsPageIgnoresNull(n) == heap_remaining < n

NeedsPage(n) == heap_cursor.page = NULL \/ heap_remaining < n

\* The block at cursor c with "left" bytes after it is handed out.
Carve(c, left, size) ==
  LET n == RoundUp(size) IN
  /\ blocks' = blocks \union {[page |-> c.page, off |-> c.off, size |-> size]}
  /\ heap_cursor' = [page |-> c.page, off |-> c.off + n]
  /\ heap_remaining' = (left - n) % SIZE_LIMIT

\* malloc(size), size > 0: malloc(0) returns NULL and changes nothing. When no
\* page is left the cursor becomes NULL and heap_remaining keeps its value.
malloc(size) ==
  /\ size > 0
  /\ \/ /\ ~NeedsPage(RoundUp(size))
        /\ Carve(heap_cursor, heap_remaining, size)
        /\ UNCHANGED <<pmm_bitmap, heap_pages>>
     \/ /\ NeedsPage(RoundUp(size))
        /\ \E p \in Managed :
             /\ pmm_alloc_page(p)
             /\ Carve([page |-> p, off |-> 0], HEAP_PAGE_SIZE, size)
             /\ heap_pages' = heap_pages \union {p}
     \/ /\ NeedsPage(RoundUp(size))
        /\ pmm_alloc_fails
        /\ heap_cursor' = NoCursor
        /\ UNCHANGED <<heap_remaining, heap_pages, blocks>>
  /\ UNCHANGED other_pages

\* Another client (a task's stack, the network driver) takes a page ...
OtherAlloc ==
  /\ \E p \in Managed :
       /\ pmm_alloc_page(p)
       /\ other_pages' = other_pages \union {p}
  /\ UNCHANGED <<heap_cursor, heap_remaining, heap_pages, blocks>>

\* ... and gives one of its pages back.
OtherFree ==
  /\ \E p \in other_pages :
       /\ pmm_free_page(p)
       /\ other_pages' = other_pages \ {p}
  /\ UNCHANGED <<heap_cursor, heap_remaining, heap_pages, blocks>>

HeapNext ==
  \/ \E size \in SIZES : Cardinality(blocks) < MAX_BLOCKS /\ malloc(size)
  \/ OtherAlloc \/ OtherFree

HeapSpec == HeapInit /\ [][HeapNext]_heap_vars

----------------------------------------------------------------------------
(* Properties *)

\* The type invariant of the allocator.
TypeOK ==
  /\ pmm_bitmap \subseteq Page
  /\ heap_cursor \in [page : Page, off : Nat]
  /\ heap_remaining \in 0 .. SIZE_LIMIT - 1
  /\ heap_pages \subseteq Managed
  /\ other_pages \subseteq Managed
  /\ blocks \subseteq [page : Page, off : Nat, size : Nat]

\* Two blocks share no byte, and every block is 8-byte aligned.
BlocksDisjoint ==
  \A b \in blocks :
    /\ b.off % 8 = 0
    /\ \A d \in blocks \ {b} :
         b.page = d.page => b.off + b.size <= d.off \/ d.off + d.size <= b.off

\* A block lies inside a page that malloc owns: not at NULL after a failed
\* allocation, not past the page's end, not in a page of another client.
BlocksOwned ==
  \A b \in blocks :
    /\ b.page \in heap_pages
    /\ b.off + b.size <= HEAP_PAGE_SIZE

\* The page allocator never gives a page to two clients.
PagesOwned ==
  /\ heap_pages \intersect other_pages = {}
  /\ heap_pages \union other_pages = pmm_bitmap \intersect Managed

\* heap.c: malloc "grabs new pages from pmm as needed": a block of any size is
\* backed by pages malloc got.
AnySizeIsBacked ==
  \A b \in blocks :
    \A i \in 0 .. b.size - 1 : b.page + (b.off + i) \div HEAP_PAGE_SIZE \in heap_pages

----------------------------------------------------------------------------
(* The inductive invariant *)

\* heap_remaining is what is left of the cursor's page, and the blocks of that
\* page end at or below the cursor.
CursorInPage ==
  heap_cursor.page # NULL =>
    /\ heap_cursor.page \in heap_pages
    /\ heap_cursor.off + heap_remaining = HEAP_PAGE_SIZE
    /\ heap_cursor.off % 8 = 0
    /\ \A b \in blocks :
         b.page = heap_cursor.page => b.off + b.size <= heap_cursor.off

IInv == TypeOK /\ BlocksDisjoint /\ BlocksOwned /\ PagesOwned /\ CursorInPage
=============================================================================
