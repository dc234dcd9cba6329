-------------------------------- MODULE Pmm --------------------------------
(***************************************************************************)
(* The physical memory manager (mm/pmm.c): one bit per 4 KB page, pages    *)
(* below RESERVED_PAGES never handed out, first-fit allocation.            *)
(*                                                                         *)
(* A page is named by its index, so the address the C code returns is      *)
(* page * PAGE_SIZE and NULL is page 0, which is always reserved.          *)
(***************************************************************************)
EXTENDS Integers

CONSTANTS
  RESERVED_PAGES,  \* 512 in the code: everything below 2 MB
  TOTAL_PAGES      \* 65536 in the code: 256 MB

ASSUME PageAssumption ==
  /\ RESERVED_PAGES \in Nat \ {0}
  /\ TOTAL_PAGES \in Nat
  /\ RESERVED_PAGES <= TOTAL_PAGES

VARIABLE pmm_bitmap   \* the set of pages whose bit is set (used)

Page == 0 .. TOTAL_PAGES - 1
Managed == RESERVED_PAGES .. TOTAL_PAGES - 1
NULL == 0

\* pmm_init: every bit set, then the bits of the managed range cleared.
pmm_init == pmm_bitmap = Page \ Managed

FreePages == Managed \ pmm_bitmap

\* Mutant of pmm_alloc_page: the bit is not set.
pmm_alloc_page_unmarked(p) ==
  /\ p \in FreePages
  /\ \A q \in FreePages : p <= q
  /\ UNCHANGED pmm_bitmap

\* pmm_alloc_page returns p: the first clear bit from RESERVED_PAGES up.
pmm_alloc_page(p) ==
  /\ p \in FreePages
  /\ \A q \in FreePages : p <= q
  /\ pmm_bitmap' = pmm_bitmap \union {p}

\* pmm_alloc_page returns NULL.
pmm_alloc_fails ==
  /\ FreePages = {}
  /\ UNCHANGED pmm_bitmap

\* pmm_free_page: silently ignores a page outside the managed range.
pmm_free_page(p) ==
  pmm_bitmap' = IF p \in Managed THEN pmm_bitmap \ {p} ELSE pmm_bitmap
=============================================================================
