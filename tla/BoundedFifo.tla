---------------------------- MODULE BoundedFifo ----------------------------
(***************************************************************************)
(* What the rings of the serial, keyboard and network drivers promise: a   *)
(* queue of at most Capacity items. An item that is offered joins its end  *)
(* unless the queue is full, and only then is it dropped; the items leave  *)
(* in the order they joined, each one once.                                *)
(***************************************************************************)
EXTENDS Naturals, Sequences

CONSTANTS Item, Capacity

VARIABLES
  queue,    \* the items in the queue
  offers,   \* how many items were offered so far
  taken     \* the items that left, in order

FifoInit == queue = <<>> /\ offers = 0 /\ taken = <<>>

Offer(c) ==
  /\ offers' = offers + 1
  /\ queue' = IF Len(queue) < Capacity THEN Append(queue, c) ELSE queue
  /\ UNCHANGED taken

\* A stretch of code that cannot be interrupted may take several at once.
TakeSome ==
  \E n \in 1 .. Len(queue) :
    /\ taken' = taken \o SubSeq(queue, 1, n)
    /\ queue' = SubSeq(queue, n + 1, Len(queue))
    /\ UNCHANGED offers

FifoNext == (\E c \in Item : Offer(c)) \/ TakeSome

FifoSpec == FifoInit /\ [][FifoNext]_<<queue, offers, taken>>
=============================================================================
