------------------------------- MODULE MCHeap -------------------------------
(***************************************************************************)
(* Instances of Heap for TLC: pages of three words, three of them managed, *)
(* and requests around every boundary of a word and of a page.             *)
(***************************************************************************)
EXTENDS Heap

UpToAPage == {0, 1, 8, 9, 16, 24}
MoreThanAPage == {8, 32}
=============================================================================
