------------------------------ MODULE CpuRing ------------------------------
(***************************************************************************)
(* What the scheduler promises, with stacks, interrupts and contexts left  *)
(* out: a ring of slots, some of them admitted, one of them the owner of   *)
(* the CPU. The CPU passes from its owner to the next admitted slot round  *)
(* the ring and to no other, and an admitted slot never leaves the ring.   *)
(***************************************************************************)
EXTENDS Integers

CONSTANT Size                      \* number of slots in the ring, at least 1

VARIABLES owner, admitted

RingSlot == 0 .. Size - 1

\* Steps from slot s forward to slot t.
Ahead(s, t) == (t - s) % Size

RingInit == owner = -1 /\ admitted = {}

\* A new slot joins; the owner does not change.
Admit ==
  /\ \E s \in RingSlot \ admitted : admitted' = admitted \union {s}
  /\ UNCHANGED owner

\* The first owner is the lowest admitted slot.
Start ==
  /\ owner = -1
  /\ owner' \in admitted
  /\ \A s \in admitted : owner' <= s
  /\ UNCHANGED admitted

\* The CPU passes to the admitted slot that is nearest ahead of the owner.
Pass ==
  /\ owner \in admitted
  /\ owner' \in admitted \ {owner}
  /\ \A s \in admitted \ {owner} : Ahead(owner + 1, owner') <= Ahead(owner + 1, s)
  /\ UNCHANGED admitted

RingNext == Admit \/ Start \/ Pass

RingSpec == RingInit /\ [][RingNext]_<<owner, admitted>>
=============================================================================
