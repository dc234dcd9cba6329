---------------------------- MODULE RingTheorems ----------------------------
(***************************************************************************)
(* Facts about a ring of N cells with a read and a write index, as both    *)
(* console drivers keep one: what waits in the ring is a sequence, writing *)
(* a cell and moving the write index appends to it, and moving the read    *)
(* index drops from its front. One cell always stays empty. Before them,   *)
(* induction over the natural numbers in the form the provers can use.     *)
(***************************************************************************)
EXTENDS Integers, Sequences, SequenceTheorems, WellFoundedInduction, TLAPS

----------------------------------------------------------------------------
(* Induction *)

\* A nonempty set of numbers has a least member.
LEMMA LeastNumber ==
  ASSUME NEW T, T \subseteq Nat, T # {}
  PROVE  \E n \in T : \A m \in T : n <= m
  <1> DEFINE R == OpToRel(<, Nat)
  <1>1. \A x, y \in Nat : y < x => <<y, x>> \in R
    BY DEF OpToRel
  <1>2. IsWellFoundedOn(R, Nat)
    BY NatLessThanWellFounded
  <1> HIDE DEF R
  <1>3. PICK n \in T : \A y \in T : ~ (<<y, n>> \in R)
    BY <1>2, WFMin
  <1>4. \A m \in T : m \in Nat /\ ~(m < n)
    BY <1>1, <1>3
  <1>5. \A m \in T : n <= m
    BY <1>4
  <1> QED BY <1>5

\* Induction over the numbers, for a set in place of a predicate.
LEMMA SetInduction ==
  ASSUME NEW T, 0 \in T, \A n \in Nat : n \in T => n + 1 \in T
  PROVE  \A n \in Nat : n \in T
  <1> DEFINE U == Nat \ T
  <1> SUFFICES ASSUME U # {} PROVE FALSE
    BY DEF U
  <1>1. PICK n \in U : \A m \in U : n <= m
    BY LeastNumber
  <1>2. n # 0 BY <1>1
  <1>3. n - 1 \in Nat /\ n - 1 \notin U
    BY <1>1, <1>2
  <1> QED BY <1>1, <1>3

----------------------------------------------------------------------------
(* Division *)

\* A quotient and its remainder.
LEMMA DivMod ==
  ASSUME NEW x \in Nat, NEW q \in Nat, q > 0
  PROVE  /\ x \div q \in Nat /\ x % q \in 0 .. q - 1
         /\ x = (x \div q) * q + (x % q)
  OBVIOUS

\* One number is not a multiple of q more than another and less than q above it.
LEMMA Multiples ==
  ASSUME NEW c \in Int, NEW d \in Int, NEW q \in Nat, q > 0, c * q < (d + 1) * q
  PROVE  c <= d
<1>1. SUFFICES ASSUME c >= d + 1 PROVE FALSE
  OBVIOUS
<1>2. PICK k \in Nat : c = d + 1 + k
  <2>1. c - (d + 1) \in Nat /\ c = d + 1 + (c - (d + 1))
    BY <1>1
  <2>. QED BY <2>1
<1>3. c * q = (d + 1) * q + k * q
  BY <1>2
<1>4. k * q >= 0
  OBVIOUS
<1>. QED BY <1>3, <1>4

\* The quotient and the remainder of a number within the multiple c.
LEMMA DivModIs ==
  ASSUME NEW x \in Nat, NEW q \in Nat, q > 0, NEW c \in Int, c * q <= x, x < c * q + q
  PROVE  x \div q = c /\ x % q = x - c * q
<1>. DEFINE d == x \div q
            r == x % q
<1>1. d \in Nat /\ r \in 0 .. q - 1 /\ x = d * q + r
  BY DivMod
<1>. HIDE DEF d, r
<1>2. (d + 1) * q = d * q + q /\ (c + 1) * q = c * q + q
  BY <1>1
<1>3. c * q < (d + 1) * q /\ d * q < (c + 1) * q
  BY <1>1, <1>2
<1>4. c <= d
  BY <1>1, <1>3, Multiples
<1>5. d <= c
  BY <1>1, <1>3, Multiples
<1>6. d = c
  BY <1>1, <1>4, <1>5
<1>7. d = c /\ r = x - c * q
  BY <1>1, <1>6
<1>. QED BY <1>7 DEF d, r

----------------------------------------------------------------------------
(* Rings *)

\* What waits between the read index "from" and the write index "to".
RingSeq(cells, from, to, N) ==
  [i \in 1 .. (to - from) % N |-> cells[(from + i - 1) % N]]

\* The cells that hold something have contents from S.
Holds(cells, from, to, N, S) ==
  \A i \in 1 .. (to - from) % N : cells[(from + i - 1) % N] \in S

\* c joins the end of the queue: "before" becomes "after".
Joins(c, before, after) == after = Append(before, c)

\* The first element of a sequence on its own, and a sequence without its last.
LEMMA FirstAlone ==
  ASSUME NEW S, NEW s \in Seq(S), s # <<>>
  PROVE  SubSeq(s, 1, 1) = <<s[1]>>
  <1>1. Len(s) >= 1 /\ s[1] \in S
    OBVIOUS
  <1>2. /\ SubSeq(s, 1, 1) \in Seq(S) /\ Len(SubSeq(s, 1, 1)) = 1
        /\ SubSeq(s, 1, 1)[1] = s[1]
    BY <1>1
  <1>3. <<s[1]>> \in Seq(S) /\ Len(<<s[1]>>) = 1 /\ <<s[1]>>[1] = s[1]
    BY <1>1
  <1> DEFINE a == SubSeq(s, 1, 1)
             b == <<s[1]>>
  <1>4. Len(a) = Len(b) /\ \A i \in 1 .. Len(a) : a[i] = b[i]
    BY <1>2, <1>3
  <1>5. a \in Seq(S) /\ b \in Seq(S)
    BY <1>2, <1>3
  <1> HIDE DEF a, b
  <1>6. a = b
    BY <1>4, <1>5, SeqEqual
  <1> QED BY <1>6 DEF a, b

LEMMA AppendAt ==
  ASSUME NEW S, NEW s \in Seq(S), NEW c \in S, NEW i \in 1 .. Len(s) + 1
  PROVE  Append(s, c)[i] = IF i = Len(s) + 1 THEN c ELSE s[i]
  OBVIOUS

LEMMA LastApart ==
  ASSUME NEW S, NEW s \in Seq(S), s # <<>>
  PROVE  s = SubSeq(s, 1, Len(s) - 1) \o <<s[Len(s)]>>
  <1>1. Len(s) >= 1
    OBVIOUS
  <1> QED BY <1>1

\* Indices wrap at the end of the ring (the "% SERIAL_TX_BUF" of tx_push).
LEMMA WrapNext ==
  ASSUME NEW N \in Nat \ {0}, NEW i \in 0 .. N - 1
  PROVE  (i + 1) % N = IF i + 1 = N THEN 0 ELSE i + 1
  OBVIOUS

LEMMA WrapSum ==
  ASSUME NEW N \in Nat \ {0}, NEW i \in 0 .. N - 1, NEW k \in 0 .. N
  PROVE  (i + k) % N = IF i + k < N THEN i + k ELSE i + k - N
  OBVIOUS

LEMMA WrapDifference ==
  ASSUME NEW N \in Nat \ {0}, NEW from \in 0 .. N - 1, NEW to \in 0 .. N - 1
  PROVE  (to - from) % N = IF from <= to THEN to - from ELSE to - from + N
  OBVIOUS

\* The ring is empty when the indices meet and full one step before they do.
LEMMA RingCount ==
  ASSUME NEW N \in Nat \ {0}, NEW from \in 0 .. N - 1, NEW to \in 0 .. N - 1
  PROVE  /\ (to - from) % N \in 0 .. N - 1
         /\ (to - from) % N = 0 <=> from = to
         /\ (to - from) % N = N - 1 <=> (to + 1) % N = from
  <1>1. (to - from) % N = IF from <= to THEN to - from ELSE to - from + N
    BY WrapDifference
  <1>2. (to + 1) % N = IF to + 1 = N THEN 0 ELSE to + 1
    BY WrapNext
  <1> QED BY <1>1, <1>2

\* What waits in the ring is a sequence.
LEMMA RingIsSeq ==
  ASSUME NEW N \in Nat \ {0}, NEW from \in 0 .. N - 1, NEW to \in 0 .. N - 1,
         NEW S, NEW cells, Holds(cells, from, to, N, S)
  PROVE  /\ RingSeq(cells, from, to, N) \in Seq(S)
         /\ Len(RingSeq(cells, from, to, N)) = (to - from) % N
  <1>1. (to - from) % N \in Nat
    BY RingCount
  <1>2. RingSeq(cells, from, to, N) \in [1 .. (to - from) % N -> S]
    BY DEF RingSeq, Holds
  <1> QED BY <1>1, <1>2

\* Of the cells that follow the read index only the last is the one at "to".
LEMMA RingCells ==
  ASSUME NEW N \in Nat \ {0}, NEW from \in 0 .. N - 1, NEW to \in 0 .. N - 1,
         NEW len \in 0 .. N - 1, (from + len) % N = to, NEW i \in 1 .. len + 1
  PROVE  /\ (from + i - 1) % N \in 0 .. N - 1
         /\ (from + i - 1) % N = to <=> i = len + 1
  <1>1. (from + (i - 1)) % N = IF from + (i - 1) < N THEN from + (i - 1)
                               ELSE from + (i - 1) - N
    <2>1. i - 1 \in 0 .. N
      OBVIOUS
    <2> QED BY <2>1, WrapSum
  <1>2. (from + len) % N = IF from + len < N THEN from + len ELSE from + len - N
    <2>1. len \in 0 .. N
      OBVIOUS
    <2> QED BY <2>1, WrapSum
  <1> QED BY <1>1, <1>2

\* A cell is written and the write index moves on.
LEMMA RingPush ==
  ASSUME NEW N \in Nat \ {0}, NEW from \in 0 .. N - 1, NEW to \in 0 .. N - 1,
         (to + 1) % N # from,
         NEW S, NEW T, NEW cells \in [0 .. N - 1 -> T], NEW c \in S,
         Holds(cells, from, to, N, S),
         NEW new, new = [cells EXCEPT ![to] = c],
         NEW next, next = (to + 1) % N
  PROVE  /\ Holds(new, from, next, N, S)
         /\ Joins(c, RingSeq(cells, from, to, N), RingSeq(new, from, next, N))
  <1> DEFINE len == (to - from) % N
  <1>1. /\ len \in 0 .. N - 1 /\ len # N - 1
        /\ next \in 0 .. N - 1
        /\ (next - from) % N = len + 1
        /\ (from + len) % N = to
    <2>1. len = IF from <= to THEN to - from ELSE to - from + N
      BY WrapDifference
    <2>2. next = IF to + 1 = N THEN 0 ELSE to + 1
      BY WrapNext
    <2>r. next \in 0 .. N - 1 /\ len \in 0 .. N /\ next # from
      BY <2>1, <2>2
    <2> HIDE DEF len
    <2>3. (next - from) % N = IF from <= next THEN next - from ELSE next - from + N
      BY <2>r, WrapDifference
    <2>4. (from + len) % N = IF from + len < N THEN from + len ELSE from + len - N
      BY <2>r, WrapSum
    <2> QED BY <2>r, <2>1, <2>2, <2>3, <2>4
  <1> HIDE DEF len
  <1>2. ASSUME NEW i \in 1 .. len + 1
        PROVE  /\ (from + i - 1) % N \in 0 .. N - 1
               /\ (from + i - 1) % N = to <=> i = len + 1
    BY <1>1, <1>2, RingCells
  <1>3. \A i \in 1 .. len + 1 :
          new[(from + i - 1) % N] = IF i = len + 1 THEN c ELSE cells[(from + i - 1) % N]
    BY <1>2
  <1>4. \A i \in 1 .. len : cells[(from + i - 1) % N] \in S
    BY DEF Holds, len
  <1>5. Holds(new, from, next, N, S)
    <2> SUFFICES ASSUME NEW i \in 1 .. len + 1
                 PROVE  new[(from + i - 1) % N] \in S
      BY <1>1 DEF Holds
    <2>1. i = len + 1 \/ i \in 1 .. len
      BY <1>1
    <2> QED BY <2>1, <1>3, <1>4
  <1>6. /\ RingSeq(cells, from, to, N) \in Seq(S)
        /\ Len(RingSeq(cells, from, to, N)) = len
    BY RingIsSeq DEF len
  <1>7. /\ RingSeq(new, from, next, N) \in Seq(S)
        /\ Len(RingSeq(new, from, next, N)) = len + 1
    BY <1>1, <1>5, RingIsSeq
  <1>8. ASSUME NEW i \in 1 .. len + 1
        PROVE  RingSeq(new, from, next, N)[i] = Append(RingSeq(cells, from, to, N), c)[i]
    <2>1. RingSeq(new, from, next, N)[i] = new[(from + i - 1) % N]
      BY <1>1 DEF RingSeq
    <2>2. i # len + 1 => RingSeq(cells, from, to, N)[i] = cells[(from + i - 1) % N]
      BY <1>1 DEF RingSeq, len
    <2>3. i = len + 1 \/ i \in 1 .. len
      BY <1>1
    <2>4. Append(RingSeq(cells, from, to, N), c)[i] =
            IF i = len + 1 THEN c ELSE RingSeq(cells, from, to, N)[i]
      BY <1>1, <1>6, AppendAt
    <2>5. new[(from + i - 1) % N]
            = IF i = len + 1 THEN c ELSE cells[(from + i - 1) % N]
      BY <1>3
    <2>6. i \in 1 .. len => i # len + 1
      BY <1>1
    <2> QED BY <2>1, <2>2, <2>3, <2>4, <2>5, <2>6
  <1>9. /\ Append(RingSeq(cells, from, to, N), c) \in Seq(S)
        /\ Len(Append(RingSeq(cells, from, to, N), c)) = len + 1
    BY <1>1, <1>6
  <1>10. RingSeq(new, from, next, N) = Append(RingSeq(cells, from, to, N), c)
    BY <1>7, <1>8, <1>9, SeqEqual
  <1> QED BY <1>5, <1>10 DEF Joins

\* The read index moves on by n cells.
LEMMA RingDrop ==
  ASSUME NEW N \in Nat \ {0}, NEW from \in 0 .. N - 1, NEW to \in 0 .. N - 1,
         NEW n \in 1 .. (to - from) % N,
         NEW S, NEW cells, Holds(cells, from, to, N, S)
  PROVE  /\ (from + n) % N \in 0 .. N - 1
         /\ Holds(cells, (from + n) % N, to, N, S)
         /\ RingSeq(cells, (from + n) % N, to, N)
              = SubSeq(RingSeq(cells, from, to, N), n + 1, (to - from) % N)
  <1> DEFINE len == (to - from) % N
             next == (from + n) % N
             old == RingSeq(cells, from, to, N)
             new == RingSeq(cells, next, to, N)
  <1>1. /\ len \in 0 .. N - 1 /\ n \in 1 .. len
        /\ next \in 0 .. N - 1
        /\ (to - next) % N = len - n
        /\ \A i \in 1 .. len - n : (next + i - 1) % N = (from + (n + i) - 1) % N
    <2>1. len = IF from <= to THEN to - from ELSE to - from + N
      BY WrapDifference
    <2>2. next = IF from + n < N THEN from + n ELSE from + n - N
      BY <2>1, WrapSum
    <2>3. (to - next) % N = IF next <= to THEN to - next ELSE to - next + N
      BY <2>1, <2>2, WrapDifference
    <2>4. ASSUME NEW i \in 1 .. len - n
          PROVE  /\ (next + (i - 1)) % N = IF next + (i - 1) < N THEN next + (i - 1)
                                           ELSE next + (i - 1) - N
                 /\ (from + (n + i - 1)) % N = IF from + (n + i - 1) < N
                                               THEN from + (n + i - 1)
                                               ELSE from + (n + i - 1) - N
      <3>1. i - 1 \in 0 .. N /\ n + i - 1 \in 0 .. N /\ next \in 0 .. N - 1
        BY <2>1, <2>2
      <3> HIDE DEF len, next
      <3> QED BY <3>1, WrapSum
    <2>5. n \in 1 .. len
      OBVIOUS
    <2> HIDE DEF len, next
    <2>6. \A i \in 1 .. len - n : (next + i - 1) % N = (from + (n + i) - 1) % N
      <3> TAKE i \in 1 .. len - n
      <3>1. (next + i - 1) % N = (next + (i - 1)) % N /\ (from + (n + i) - 1) % N = (from + (n + i - 1)) % N
        BY <2>1, <2>2
      <3> QED BY <2>1, <2>2, <2>4, <3>1
    <2> QED BY <2>1, <2>2, <2>3, <2>5, <2>6
  <1> HIDE DEF len, next
  <1>2. ASSUME NEW i \in 1 .. len - n
        PROVE  /\ n + i \in 1 .. len
               /\ cells[(next + i - 1) % N] = cells[(from + (n + i) - 1) % N]
    BY <1>1
  <1>3. Holds(cells, next, to, N, S)
    BY <1>1, <1>2 DEF Holds, len
  <1>4. old \in Seq(S) /\ Len(old) = len
    BY RingIsSeq DEF len
  <1>5. new \in Seq(S) /\ Len(new) = len - n
    BY <1>1, <1>3, RingIsSeq
  <1>6. ASSUME NEW i \in 1 .. len - n
        PROVE  new[i] = old[n + i]
    <2>1. new[i] = cells[(next + i - 1) % N]
      BY <1>1 DEF RingSeq
    <2>2. old[n + i] = cells[(from + (n + i) - 1) % N]
      BY <1>2 DEF RingSeq, len
    <2> QED BY <1>2, <2>1, <2>2
  <1> HIDE DEF old, new
  <1>7. /\ SubSeq(old, n + 1, len) \in Seq(S)
        /\ Len(SubSeq(old, n + 1, len)) = len - n
        /\ \A i \in 1 .. len - n : SubSeq(old, n + 1, len)[i] = old[n + i]
    <2>1. len \in Nat /\ n \in Nat /\ n + 1 \in 1 .. Len(old) + 1 /\ len \in n + 1 - 1 .. Len(old)
      BY <1>1, <1>4
    <2>2. /\ SubSeq(old, n + 1, len) \in Seq(S)
          /\ Len(SubSeq(old, n + 1, len)) = IF n + 1 <= len THEN len - (n + 1) + 1 ELSE 0
          /\ \A i \in 1 .. len - (n + 1) + 1 : SubSeq(old, n + 1, len)[i] = old[n + 1 + i - 1]
      BY <1>4, <2>1, SubSeqProperties
    <2>3. len - (n + 1) + 1 = len - n /\ (~(n + 1 <= len) => len - n = 0)
      BY <2>1, <1>4
    <2>4. ASSUME NEW i \in 1 .. len - n PROVE n + 1 + i - 1 = n + i
      BY <2>1
    <2> QED BY <2>2, <2>3, <2>4
  <1>8. new = SubSeq(old, n + 1, len)
    BY <1>5, <1>6, <1>7, SeqEqual
  <1> QED BY <1>1, <1>3, <1>8 DEF new, old, next, len
=============================================================================
