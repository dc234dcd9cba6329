--------------------------- MODULE TerminalProofs ---------------------------
(***************************************************************************)
(* Proofs about the shell's line editor and the console it writes to, for  *)
(* screens, scrollback rings, lines, histories and prompts of any size,    *)
(* and about the other way out, the serial driver, for every size of its   *)
(* ring and every string.                                                  *)
(*                                                                         *)
(* The argument: vga_putchar, one character at a time, keeps the screen    *)
(* and the scrollback ring a window on an endless paper (PutChar,          *)
(* PutNewline, PutBackspace, by way of vga_scroll in ScrollShows). What    *)
(* the shell prints is a text, so induction over its length lifts this to  *)
(* printf (PutText, PutLines) and to clear_line (RubLine). The paper ends  *)
(* with the prompt and the line being edited, which is what LineOnScreen   *)
(* reads off the screen. sh_parse_and_run's loop is followed from the end  *)
(* of the line to its start (WordsSplit). The serial ring implements       *)
(* BoundedFifo although a writer and the timer interrupt both drain it.    *)
(*                                                                         *)
(* The texts and the loop are recursive functions. The provers take no     *)
(* induction theorem with an operator parameter, so induction is over a    *)
(* set of numbers (SetInduction), and that a recursive function satisfies  *)
(* its equation is proved for each one.                                    *)
(***************************************************************************)
EXTENDS Terminal, Serial, RingTheorems, FiniteSetTheorems

\* f is the console before the text and after each of its characters.
ArePutSteps(f, c, t, N) ==
  f = [n \in 0 .. N |-> IF n = 0 THEN c ELSE Put(f[n - 1], t[n])]

PutSteps(c, t, N) == CHOOSE f : ArePutSteps(f, c, t, N)

\* Printing a text is its last step.
LEMMA PutAllIsPutSteps ==
  ASSUME NEW c, NEW t
  PROVE  PutAll(c, t) = PutSteps(c, t, Len(t))[Len(t)]
  BY DEF PutAll, PutSteps, ArePutSteps

\* The steps of printing a text exist for every text: PutAll recurses downwards.
LEMMA PutStepsExist ==
  ASSUME NEW c, NEW t, NEW N \in Nat
  PROVE  ArePutSteps(PutSteps(c, t, N), c, t, N)
  <1> DEFINE T == {k \in Nat : \E f : ArePutSteps(f, c, t, k)}
  <1>1. 0 \in T
    <2> DEFINE g == [n \in 0 .. 0 |-> c]
    <2>1. ArePutSteps(g, c, t, 0)
      BY DEF ArePutSteps
    <2> HIDE DEF g
    <2> QED BY <2>1
  <1>2. ASSUME NEW k \in Nat, k \in T PROVE k + 1 \in T
    <2>1. PICK f : ArePutSteps(f, c, t, k)
      BY <1>2
    <2> DEFINE g == [n \in 0 .. k + 1 |-> IF n = k + 1 THEN Put(f[k], t[k + 1]) ELSE f[n]]
    <2>2. \A n \in 0 .. k + 1 : g[n] = IF n = 0 THEN c ELSE Put(g[n - 1], t[n])
      BY <2>1 DEF ArePutSteps
    <2>3. ArePutSteps(g, c, t, k + 1)
      BY <2>2 DEF ArePutSteps
    <2> HIDE DEF g
    <2> QED BY <2>3
  <1> HIDE DEF T
  <1>3. N \in T
    BY <1>1, <1>2, SetInduction
  <1>4. \E f : ArePutSteps(f, c, t, N)
    BY <1>3 DEF T
  <1> QED BY <1>4, Zenon DEF PutSteps

\* Two runs over texts that agree up to n are in the same state after n characters.
LEMMA PutStepsAgree ==
  ASSUME NEW c, NEW t, NEW u, NEW K \in Nat, NEW f, NEW g,
         ArePutSteps(f, c, t, K), ArePutSteps(g, c, u, K + 1),
         \A i \in 1 .. K : t[i] = u[i]
  PROVE  f[K] = g[K]
  <1> DEFINE T == {n \in Nat : n <= K => f[n] = g[n]}
  <1>1. 0 \in T
    BY DEF ArePutSteps
  <1>2. ASSUME NEW n \in Nat, n \in T PROVE n + 1 \in T
    <2> SUFFICES ASSUME n + 1 <= K PROVE f[n + 1] = g[n + 1]
      OBVIOUS
    <2>1. f[n + 1] = Put(f[n], t[n + 1]) /\ g[n + 1] = Put(g[n], u[n + 1])
      BY DEF ArePutSteps
    <2>2. f[n] = g[n] /\ t[n + 1] = u[n + 1]
      BY <1>2
    <2> QED BY <2>1, <2>2
  <1> HIDE DEF T
  <1>3. K \in T
    BY <1>1, <1>2, SetInduction
  <1> QED BY <1>3 DEF T

\* Printing nothing changes nothing.
LEMMA PutAllNothing ==
  ASSUME NEW c
  PROVE  PutAll(c, <<>>) = c
  <1>1. ArePutSteps(PutSteps(c, <<>>, 0), c, <<>>, 0)
    BY PutStepsExist
  <1>2. PutSteps(c, <<>>, 0)[0] = c
    BY <1>1 DEF ArePutSteps
  <1> QED BY <1>2, PutAllIsPutSteps

\* Printing a text and one more character is vga_putchar after the text.
LEMMA PutAllAppend ==
  ASSUME NEW S, NEW c, NEW t \in Seq(S), NEW x \in S
  PROVE  PutAll(c, Append(t, x)) = Put(PutAll(c, t), x)
  <1> DEFINE u == Append(t, x)
             f == PutSteps(c, t, Len(t))
             g == PutSteps(c, u, Len(u))
  <1>1. /\ Len(t) \in Nat /\ Len(u) = Len(t) + 1 /\ u[Len(u)] = x
        /\ \A i \in 1 .. Len(t) : t[i] = u[i]
    OBVIOUS
  <1>2. PutAll(c, t) = f[Len(t)] /\ PutAll(c, u) = g[Len(u)]
    BY PutAllIsPutSteps
  <1> HIDE DEF u
  <1>3. ArePutSteps(f, c, t, Len(t)) /\ ArePutSteps(g, c, u, Len(u))
    BY <1>1, PutStepsExist
  <1> HIDE DEF f, g
  <1>4. f[Len(t)] = g[Len(t)]
    <2> DEFINE M == Len(t)
    <2>1. /\ M \in Nat
          /\ ArePutSteps(f, c, t, M) /\ ArePutSteps(g, c, u, M + 1)
          /\ \A i \in 1 .. M : t[i] = u[i]
      BY <1>1, <1>3
    <2> HIDE DEF M
    <2>2. f[M] = g[M]
      BY <2>1, PutStepsAgree
    <2> QED BY <2>2 DEF M
  <1>5. g[Len(u)] = Put(g[Len(t)], u[Len(u)])
    BY <1>1, <1>3 DEF ArePutSteps
  <1>6. PutAll(c, u) = Put(PutAll(c, t), x)
    BY <1>1, <1>2, <1>4, <1>5
  <1> QED BY <1>6 DEF u

ArePrintSteps(f, c, t, N) ==
  f = [n \in 0 .. N |-> IF n = 0 THEN c ELSE OnPaper(f[n - 1], t[n])]

PrintSteps(c, t, N) == CHOOSE f : ArePrintSteps(f, c, t, N)

\* The same facts for the paper.
LEMMA PrintedIsPrintSteps ==
  ASSUME NEW c, NEW t
  PROVE  Printed(c, t) = PrintSteps(c, t, Len(t))[Len(t)]
  BY DEF Printed, PrintSteps, ArePrintSteps

LEMMA PrintStepsExist ==
  ASSUME NEW c, NEW t, NEW N \in Nat
  PROVE  ArePrintSteps(PrintSteps(c, t, N), c, t, N)
  <1> DEFINE T == {k \in Nat : \E f : ArePrintSteps(f, c, t, k)}
  <1>1. 0 \in T
    <2> DEFINE g == [n \in 0 .. 0 |-> c]
    <2>1. ArePrintSteps(g, c, t, 0)
      BY DEF ArePrintSteps
    <2> HIDE DEF g
    <2> QED BY <2>1
  <1>2. ASSUME NEW k \in Nat, k \in T PROVE k + 1 \in T
    <2>1. PICK f : ArePrintSteps(f, c, t, k)
      BY <1>2
    <2> DEFINE g == [n \in 0 .. k + 1 |-> IF n = k + 1 THEN OnPaper(f[k], t[k + 1]) ELSE f[n]]
    <2>2. \A n \in 0 .. k + 1 : g[n] = IF n = 0 THEN c ELSE OnPaper(g[n - 1], t[n])
      BY <2>1 DEF ArePrintSteps
    <2>3. ArePrintSteps(g, c, t, k + 1)
      BY <2>2 DEF ArePrintSteps
    <2> HIDE DEF g
    <2> QED BY <2>3
  <1> HIDE DEF T
  <1>3. N \in T
    BY <1>1, <1>2, SetInduction
  <1>4. \E f : ArePrintSteps(f, c, t, N)
    BY <1>3 DEF T
  <1> QED BY <1>4, Zenon DEF PrintSteps

\* Two runs over texts that agree up to n are in the same state after n characters.
LEMMA PrintStepsAgree ==
  ASSUME NEW c, NEW t, NEW u, NEW K \in Nat, NEW f, NEW g,
         ArePrintSteps(f, c, t, K), ArePrintSteps(g, c, u, K + 1),
         \A i \in 1 .. K : t[i] = u[i]
  PROVE  f[K] = g[K]
  <1> DEFINE T == {n \in Nat : n <= K => f[n] = g[n]}
  <1>1. 0 \in T
    BY DEF ArePrintSteps
  <1>2. ASSUME NEW n \in Nat, n \in T PROVE n + 1 \in T
    <2> SUFFICES ASSUME n + 1 <= K PROVE f[n + 1] = g[n + 1]
      OBVIOUS
    <2>1. f[n + 1] = OnPaper(f[n], t[n + 1]) /\ g[n + 1] = OnPaper(g[n], u[n + 1])
      BY DEF ArePrintSteps
    <2>2. f[n] = g[n] /\ t[n + 1] = u[n + 1]
      BY <1>2
    <2> QED BY <2>1, <2>2
  <1> HIDE DEF T
  <1>3. K \in T
    BY <1>1, <1>2, SetInduction
  <1> QED BY <1>3 DEF T

LEMMA PrintedNothing ==
  ASSUME NEW c
  PROVE  Printed(c, <<>>) = c
  <1>1. ArePrintSteps(PrintSteps(c, <<>>, 0), c, <<>>, 0)
    BY PrintStepsExist
  <1>2. PrintSteps(c, <<>>, 0)[0] = c
    BY <1>1 DEF ArePrintSteps
  <1> QED BY <1>2, PrintedIsPrintSteps

LEMMA PrintedAppend ==
  ASSUME NEW S, NEW c, NEW t \in Seq(S), NEW x \in S
  PROVE  Printed(c, Append(t, x)) = OnPaper(Printed(c, t), x)
  <1> DEFINE u == Append(t, x)
             f == PrintSteps(c, t, Len(t))
             g == PrintSteps(c, u, Len(u))
  <1>1. /\ Len(t) \in Nat /\ Len(u) = Len(t) + 1 /\ u[Len(u)] = x
        /\ \A i \in 1 .. Len(t) : t[i] = u[i]
    OBVIOUS
  <1>2. Printed(c, t) = f[Len(t)] /\ Printed(c, u) = g[Len(u)]
    BY PrintedIsPrintSteps
  <1> HIDE DEF u
  <1>3. ArePrintSteps(f, c, t, Len(t)) /\ ArePrintSteps(g, c, u, Len(u))
    BY <1>1, PrintStepsExist
  <1> HIDE DEF f, g
  <1>4. f[Len(t)] = g[Len(t)]
    <2> DEFINE M == Len(t)
    <2>1. /\ M \in Nat
          /\ ArePrintSteps(f, c, t, M) /\ ArePrintSteps(g, c, u, M + 1)
          /\ \A i \in 1 .. M : t[i] = u[i]
      BY <1>1, <1>3
    <2> HIDE DEF M
    <2>2. f[M] = g[M]
      BY <2>1, PrintStepsAgree
    <2> QED BY <2>2 DEF M
  <1>5. g[Len(u)] = OnPaper(g[Len(t)], u[Len(u)])
    BY <1>1, <1>3 DEF ArePrintSteps
  <1>6. Printed(c, u) = OnPaper(Printed(c, t), x)
    BY <1>1, <1>2, <1>4, <1>5
  <1> QED BY <1>6 DEF u

AreAddSteps(f, t, N) ==
  f = [n \in 0 .. N |-> IF n = 0 THEN <<>> ELSE AddLine(f[n - 1], t[n])]

AddSteps(t, N) == CHOOSE f : AreAddSteps(f, t, N)

\* And for the lines entered.
LEMMA AllAddedIsAddSteps ==
  ASSUME NEW t
  PROVE  AllAdded(t) = AddSteps(t, Len(t))[Len(t)]
  BY DEF AllAdded, AddSteps, AreAddSteps

LEMMA AddStepsExist ==
  ASSUME NEW t, NEW N \in Nat
  PROVE  AreAddSteps(AddSteps(t, N), t, N)
  <1> DEFINE T == {k \in Nat : \E f : AreAddSteps(f, t, k)}
  <1>1. 0 \in T
    <2> DEFINE g == [n \in 0 .. 0 |-> <<>>]
    <2>1. AreAddSteps(g, t, 0)
      BY DEF AreAddSteps
    <2> HIDE DEF g
    <2> QED BY <2>1
  <1>2. ASSUME NEW k \in Nat, k \in T PROVE k + 1 \in T
    <2>1. PICK f : AreAddSteps(f, t, k)
      BY <1>2
    <2> DEFINE g == [n \in 0 .. k + 1 |-> IF n = k + 1 THEN AddLine(f[k], t[k + 1]) ELSE f[n]]
    <2>2. \A n \in 0 .. k + 1 : g[n] = IF n = 0 THEN <<>> ELSE AddLine(g[n - 1], t[n])
      BY <2>1 DEF AreAddSteps
    <2>3. AreAddSteps(g, t, k + 1)
      BY <2>2 DEF AreAddSteps
    <2> HIDE DEF g
    <2> QED BY <2>3
  <1> HIDE DEF T
  <1>3. N \in T
    BY <1>1, <1>2, SetInduction
  <1>4. \E f : AreAddSteps(f, t, N)
    BY <1>3 DEF T
  <1> QED BY <1>4, Zenon DEF AddSteps

\* Two runs over texts that agree up to n are in the same state after n characters.
LEMMA AddStepsAgree ==
  ASSUME NEW t, NEW u, NEW K \in Nat, NEW f, NEW g,
         AreAddSteps(f, t, K), AreAddSteps(g, u, K + 1),
         \A i \in 1 .. K : t[i] = u[i]
  PROVE  f[K] = g[K]
  <1> DEFINE T == {n \in Nat : n <= K => f[n] = g[n]}
  <1>1. 0 \in T
    BY DEF AreAddSteps
  <1>2. ASSUME NEW n \in Nat, n \in T PROVE n + 1 \in T
    <2> SUFFICES ASSUME n + 1 <= K PROVE f[n + 1] = g[n + 1]
      OBVIOUS
    <2>1. f[n + 1] = AddLine(f[n], t[n + 1]) /\ g[n + 1] = AddLine(g[n], u[n + 1])
      BY DEF AreAddSteps
    <2>2. f[n] = g[n] /\ t[n + 1] = u[n + 1]
      BY <1>2
    <2> QED BY <2>1, <2>2
  <1> HIDE DEF T
  <1>3. K \in T
    BY <1>1, <1>2, SetInduction
  <1> QED BY <1>3 DEF T

LEMMA AllAddedNothing ==
  AllAdded(<<>>) = <<>>
  <1>1. AreAddSteps(AddSteps(<<>>, 0), <<>>, 0)
    BY AddStepsExist
  <1>2. AddSteps(<<>>, 0)[0] = <<>>
    BY <1>1 DEF AreAddSteps
  <1> QED BY <1>2, AllAddedIsAddSteps

LEMMA AllAddedAppend ==
  ASSUME NEW S, NEW t \in Seq(S), NEW x \in S
  PROVE  AllAdded(Append(t, x)) = AddLine(AllAdded(t), x)
  <1> DEFINE u == Append(t, x)
             f == AddSteps(t, Len(t))
             g == AddSteps(u, Len(u))
  <1>1. /\ Len(t) \in Nat /\ Len(u) = Len(t) + 1 /\ u[Len(u)] = x
        /\ \A i \in 1 .. Len(t) : t[i] = u[i]
    OBVIOUS
  <1>2. AllAdded(t) = f[Len(t)] /\ AllAdded(u) = g[Len(u)]
    BY AllAddedIsAddSteps
  <1> HIDE DEF u
  <1>3. AreAddSteps(f, t, Len(t)) /\ AreAddSteps(g, u, Len(u))
    BY <1>1, AddStepsExist
  <1> HIDE DEF f, g
  <1>4. f[Len(t)] = g[Len(t)]
    <2> DEFINE M == Len(t)
    <2>1. /\ M \in Nat
          /\ AreAddSteps(f, t, M) /\ AreAddSteps(g, u, M + 1)
          /\ \A i \in 1 .. M : t[i] = u[i]
      BY <1>1, <1>3
    <2> HIDE DEF M
    <2>2. f[M] = g[M]
      BY <2>1, AddStepsAgree
    <2> QED BY <2>2 DEF M
  <1>5. g[Len(u)] = AddLine(g[Len(t)], u[Len(u)])
    BY <1>1, <1>3 DEF AreAddSteps
  <1>6. AllAdded(u) = AddLine(AllAdded(t), x)
    BY <1>1, <1>2, <1>4, <1>5
  <1> QED BY <1>6 DEF u

(* Cells of the paper. *)

\* What a cell can hold, and what can be printed.
Character == Printable \cup {Blank}
Glyph == Character \cup {Newline, Backspace}

\* The screen and the scrollback ring have at least one line.
LEMMA Sizes ==
  /\ WIDTH \in Nat /\ WIDTH >= 1 /\ HEIGHT \in Nat /\ HEIGHT >= 1
  /\ SCROLLBACK_LINES \in Nat /\ SCROLLBACK_LINES >= 1
  BY ConsoleAssumption

\* A line, its prompt and a blank never contain the two control characters.
LEMMA CharFacts ==
  /\ Blank \in Character /\ LETTERS \subseteq Character /\ PROMPT \in Seq(Character)
  /\ Newline \notin Character /\ Backspace \notin Character /\ Newline # Backspace
  <1>1. Newline # Blank /\ Backspace # Blank
    BY Zenon DEF Blank, Newline, Backspace
  <1>2. Newline # Backspace
    BY DEF Newline, Backspace
  <1>3. Newline \notin Printable /\ Backspace \notin Printable /\ PROMPT \in Seq(Printable)
    BY TerminalAssumption
  <1>4. PROMPT \in Seq(Character)
    BY <1>3 DEF Character
  <1>5. LETTERS \subseteq Character
    BY DEF Character, Printable
  <1> QED BY <1>1, <1>2, <1>3, <1>4, <1>5 DEF Character

\* A lower row begins after the end of a higher one.
LEMMA RowBelow ==
  ASSUME NEW W \in Nat, NEW a \in Nat, NEW b \in Nat, a < b
  PROVE  a * W + W <= b * W
  <1> PICK d \in Nat : b = a + 1 + d
    <2>1. b - a - 1 \in Nat /\ b = a + 1 + (b - a - 1)
      OBVIOUS
    <2> QED BY <2>1
  <1>1. b * W = a * W + W + d * W
    OBVIOUS
  <1>2. d * W >= 0 /\ d * W \in Nat
    OBVIOUS
  <1>3. a * W \in Nat /\ b * W \in Nat
    OBVIOUS
  <1> QED BY <1>1, <1>2, <1>3

\* Two lines less than a ring apart have slots of their own.
LEMMA SlotsApart ==
  ASSUME NEW N \in Nat, N > 0, NEW k \in Nat, NEW j \in Nat, 0 < j, j < N, j <= k
  PROVE  (k - j) % N \in 0 .. N - 1 /\ (k - j) % N # k % N
  <1> PICK m \in Nat : m = k - j
    OBVIOUS
  <1> DEFINE a == m \div N
             b == k \div N
             r == m % N
             s == k % N
  <1>1. a \in Nat /\ r \in 0 .. N - 1 /\ m = a * N + r
    BY DivMod
  <1>2. b \in Nat /\ s \in 0 .. N - 1 /\ k = b * N + s
    BY DivMod
  <1> HIDE DEF a, b, r, s
  <1>3. r # s
    <2> SUFFICES ASSUME r = s PROVE FALSE
      OBVIOUS
    <2> PICK an \in Nat : an = a * N
      BY <1>1
    <2> PICK bn \in Nat : bn = b * N
      BY <1>2
    <2>1. bn = an + j
      BY <1>1, <1>2
    <2>2. a < b => an + N <= bn
      BY <1>1, <1>2, RowBelow
    <2>3. b < a => bn + N <= an
      BY <1>1, <1>2, RowBelow
    <2>4. a = b => an = bn
      OBVIOUS
    <2> QED BY <1>1, <1>2, <2>1, <2>2, <2>3, <2>4
  <1> QED BY <1>1, <1>3 DEF r, s

\* A cell has one row and one column.
LEMMA OneRow ==
  ASSUME NEW a \in Nat, NEW b \in Nat, NEW x \in Columns, NEW y \in Columns,
         a * WIDTH + x = b * WIDTH + y
  PROVE  a = b /\ x = y
  <1> PICK W \in Nat : W = WIDTH
    BY Sizes
  <1> PICK aw \in Nat : aw = a * W
    OBVIOUS
  <1> PICK bw \in Nat : bw = b * W
    OBVIOUS
  <1>1. x \in 0 .. W - 1 /\ y \in 0 .. W - 1
    BY DEF Columns
  <1>2. a < b => aw + W <= bw
    BY RowBelow
  <1>3. b < a => bw + W <= aw
    BY RowBelow
  <1>4. aw + x = bw + y
    OBVIOUS
  <1>5. a = b
    BY <1>1, <1>2, <1>3, <1>4
  <1>6. aw = bw
    BY <1>5
  <1> QED BY <1>1, <1>4, <1>5, <1>6

\* The number of the cell in row y and column x.
Nr(y, x) == y * WIDTH + x

\* Two papers that show the same, and two that may differ in one cell.
SameCells(p, q) == \A i \in Nat : Cell(q, i) = Cell(p, i)
ButOneCell(p, q, Y, X, c) ==
  \A i \in Nat : Cell(q, i) = IF i = Nr(Y, X) THEN c ELSE Cell(p, i)

\* Papers with the same cells have the same lines.
LEMMA SameLines ==
  ASSUME NEW p, NEW q, SameCells(p, q), NEW y \in Nat
  PROVE  PaperLine(q, y) = PaperLine(p, y)
  <1>1. \A x \in Columns : y * WIDTH + x \in Nat
    BY Sizes DEF Columns
  <1> QED BY <1>1 DEF PaperLine, SameCells

\* Writing one cell leaves the other lines of the paper alone.
LEMMA OtherLines ==
  ASSUME NEW p, NEW q, NEW Y \in Nat, NEW X \in Columns, NEW c, ButOneCell(p, q, Y, X, c)
  PROVE  \A y \in Nat : y # Y => PaperLine(q, y) = PaperLine(p, y)
  <1> SUFFICES ASSUME NEW y \in Nat, y # Y PROVE PaperLine(q, y) = PaperLine(p, y)
    OBVIOUS
  <1>1. \A x \in Columns : y * WIDTH + x \in Nat
    BY Sizes DEF Columns
  <1>2. \A x \in Columns : y * WIDTH + x # Y * WIDTH + X
    BY OneRow
  <1>3. \A x \in Columns : Cell(q, y * WIDTH + x) = Cell(p, y * WIDTH + x)
    BY <1>1, <1>2 DEF ButOneCell, Nr
  <1> QED BY <1>3 DEF PaperLine

IsLineSet(l, m, X, c) ==
  m[X] = c /\ \A x \in Columns : x # X => m[x] = l[x]

\* Writing one cell changes only that column of its line.
LEMMA LineWithCell ==
  ASSUME NEW p, NEW q, NEW Y \in Nat, NEW X \in Columns, NEW c, ButOneCell(p, q, Y, X, c)
  PROVE  IsLineSet(PaperLine(p, Y), PaperLine(q, Y), X, c)
  <1>1. \A x \in Columns : Y * WIDTH + x \in Nat
    BY Sizes DEF Columns
  <1>2. \A x \in Columns : Y * WIDTH + x = Y * WIDTH + X <=> x = X
    BY OneRow
  <1>3. \A x \in Columns :
          Cell(q, Y * WIDTH + x) = IF x = X THEN c ELSE Cell(p, Y * WIDTH + x)
    BY <1>1, <1>2 DEF ButOneCell, Nr
  <1> QED BY <1>3 DEF PaperLine, IsLineSet

\* The cells of a paper after one more character.
LEMMA CellsAppend ==
  ASSUME NEW S, NEW p \in Seq(S), NEW c \in S, NEW i \in Nat
  PROVE  Cell(Append(p, c), i) = IF i = Len(p) THEN c ELSE Cell(p, i)
  BY DEF Cell

\* The cells of a paper whose last character is rubbed out.
LEMMA CellsWithoutLast ==
  ASSUME NEW S, NEW p \in Seq(S), Len(p) > 0, NEW i \in Nat
  PROVE  Cell(SubSeq(p, 1, Len(p) - 1), i) = IF i = Len(p) - 1 THEN Blank ELSE Cell(p, i)
  <1>1. /\ Len(SubSeq(p, 1, Len(p) - 1)) = Len(p) - 1
        /\ \A j \in 1 .. Len(p) - 1 : SubSeq(p, 1, Len(p) - 1)[j] = p[j]
    <2>1. \A m \in 0 .. Len(p) : /\ Len(SubSeq(p, 1, m)) = m
                                 /\ \A j \in 1 .. m : SubSeq(p, 1, m)[j] = p[j]
      OBVIOUS
    <2>2. Len(p) - 1 \in 0 .. Len(p)
      OBVIOUS
    <2> QED BY <2>1, <2>2
  <1> QED BY <1>1 DEF Cell

\* Padding with blanks changes no cell.
LEMMA CellsPadded ==
  ASSUME NEW S, NEW p \in Seq(S), NEW n \in Nat, NEW i \in Nat
  PROVE  Cell(p \o [j \in 1 .. n |-> Blank], i) = Cell(p, i)
  <1> DEFINE q == [j \in 1 .. n |-> Blank]
  <1>1. q \in Seq({Blank}) /\ Len(q) = n /\ \A j \in 1 .. n : q[j] = Blank
    OBVIOUS
  <1> HIDE DEF q
  <1>2. /\ Len(p \o q) = Len(p) + n
        /\ \A j \in 1 .. Len(p) : (p \o q)[j] = p[j]
        /\ \A j \in Len(p) + 1 .. Len(p) + n : (p \o q)[j] = Blank
    BY <1>1
  <1>3. Cell(p \o q, i) = Cell(p, i)
    BY <1>1, <1>2 DEF Cell
  <1> QED BY <1>3 DEF q

(* Consoles that show a paper. *)

Line == [Columns -> Character]
Screen == [Rows -> Line]
Ring == [0 .. SCROLLBACK_LINES - 1 -> Line]

\* A console whose cursor is in one of the rows 0 .. last.
ConsoleType(last) ==
  [screen : Screen, row : 0 .. last, column : Columns,
   ring : Ring, pos : Nat, total : 0 .. SCROLLBACK_LINES, offset : Nat,
   saved : Screen, screen_saved : BOOLEAN, cursor : Nat \X Nat, hidden : BOOLEAN]

ConsoleIn(c, last) ==
  /\ c \in ConsoleType(last)
  /\ c.total <= c.pos /\ c.offset <= c.total
  /\ c.offset > 0 => c.screen_saved

\* The live screen is shown, and it is a window on the paper.
ShowsTo(c, p, last) ==
  /\ ConsoleIn(c, last) /\ c.offset = 0
  /\ p \in Seq(Character) /\ IsWindow(c, p)

Shows(c, p) == ShowsTo(c, p, HEIGHT - 1)

\* How many cells of the screen are before the cursor.
At(c) == Nr(c.row, c.column)

\* The types of a console's fields.
LEMMA ConsoleFields ==
  ASSUME NEW last, NEW c, ConsoleIn(c, last)
  PROVE  /\ c.screen \in Screen /\ c.saved \in Screen /\ c.ring \in Ring
         /\ c.row \in 0 .. last /\ c.column \in Columns
         /\ c.pos \in Nat /\ c.total \in 0 .. SCROLLBACK_LINES /\ c.offset \in Nat
         /\ c.total <= c.pos /\ c.offset <= c.total
  BY DEF ConsoleIn, ConsoleType

\* What writing and scrolling change of a console.
Updated(c, sc, r, k, rg, n, m) ==
  [c EXCEPT !.screen = sc, !.row = r, !.column = k, !.ring = rg, !.pos = n, !.total = m]

\* A console with new fields of the right types is a console.
LEMMA UpdatedConsole ==
  ASSUME NEW c, NEW sc \in Screen, NEW r \in Nat, NEW k \in Columns,
         NEW rg \in Ring, NEW n \in Nat, NEW m \in 0 .. SCROLLBACK_LINES, m <= n,
         NEW last, ConsoleIn(c, last), c.offset = 0, NEW to \in Nat, r <= to
  PROVE  ConsoleIn(Updated(c, sc, r, k, rg, n, m), to)
  <1> DEFINE d == Updated(c, sc, r, k, rg, n, m)
  <1>0. c \in ConsoleType(last) /\ r \in 0 .. to
    BY DEF ConsoleIn
  <1>1. d \in ConsoleType(to)
    BY <1>0, Zenon DEF ConsoleType, Updated
  <1>2. d.offset = c.offset /\ d.pos = n /\ d.total = m
    BY <1>0 DEF ConsoleType, Updated
  <1>3. 0 <= m
    OBVIOUS
  <1> HIDE DEF d
  <1>4. ConsoleIn(d, to)
    BY <1>1, <1>2, <1>3 DEF ConsoleIn
  <1> QED BY <1>4 DEF d

\* The fields of an updated console.
LEMMA UpdatedFields ==
  ASSUME NEW c, NEW last, ConsoleIn(c, last),
         NEW sc, NEW r, NEW k, NEW rg, NEW n, NEW m
  PROVE  /\ Updated(c, sc, r, k, rg, n, m).offset = c.offset
         /\ Updated(c, sc, r, k, rg, n, m).screen = sc
         /\ Updated(c, sc, r, k, rg, n, m).row = r
         /\ Updated(c, sc, r, k, rg, n, m).column = k
         /\ Updated(c, sc, r, k, rg, n, m).ring = rg
         /\ Updated(c, sc, r, k, rg, n, m).pos = n
         /\ Updated(c, sc, r, k, rg, n, m).total = m
  BY DEF ConsoleIn, ConsoleType, Updated

\* A line of a paper is a line of the screen.
LEMMA LineType ==
  ASSUME NEW p \in Seq(Character), NEW y \in Nat
  PROVE  PaperLine(p, y) \in Line
  <1>1. \A x \in Columns : y * WIDTH + x \in Nat
    BY Sizes DEF Columns
  <1>2. \A i \in Nat : Cell(p, i) \in Character
    BY CharFacts DEF Cell
  <1> QED BY <1>1, <1>2 DEF PaperLine, Line

\* vga_scroll on a console whose cursor has left the screen at the bottom.
LEMMA ScrollShows ==
  ASSUME NEW c, NEW p, ShowsTo(c, p, HEIGHT), c.row = HEIGHT, c.column = 0
  PROVE  /\ Shows(Scroll([c EXCEPT !.row = HEIGHT - 1]), p)
         /\ At(Scroll([c EXCEPT !.row = HEIGHT - 1])) = (HEIGHT - 1) * WIDTH
  <1> DEFINE d == [c EXCEPT !.row = HEIGHT - 1]
             e == Scroll(d)
  <1>1. /\ c.screen \in Screen /\ c.ring \in Ring /\ c.pos \in Nat
        /\ c.total \in 0 .. SCROLLBACK_LINES /\ c.total <= c.pos
        /\ p \in Seq(Character) /\ c.offset = 0 /\ ConsoleIn(c, HEIGHT)
    BY ConsoleFields DEF ShowsTo
  <1> DEFINE sc == [y \in Rows |-> IF y + 1 \in Rows THEN c.screen[y + 1] ELSE BlankLine]
             rg == [c.ring EXCEPT ![c.pos % SCROLLBACK_LINES] = c.screen[0]]
             m == IF c.total < SCROLLBACK_LINES THEN c.total + 1 ELSE c.total
  <1>3. BlankLine \in Line
    BY CharFacts DEF BlankLine, Line
  <1>4. /\ ConsoleIn(e, HEIGHT - 1) /\ e.offset = 0
        /\ e.screen = sc /\ e.row = HEIGHT - 1 /\ e.column = 0 /\ e.ring = rg
        /\ e.pos = c.pos + 1 /\ e.total = m
    <2>1. sc \in Screen
      BY <1>1, <1>3 DEF Screen
    <2>2. c.screen[0] \in Line
      BY <1>1, Sizes DEF Screen, Rows
    <2>3. rg \in Ring
      BY <1>1, <2>2 DEF Ring
    <2>4. m \in 0 .. SCROLLBACK_LINES /\ m <= c.pos + 1 /\ c.pos + 1 \in Nat
      BY <1>1, Sizes
    <2>5. HEIGHT - 1 \in Nat /\ HEIGHT - 1 \in 0 .. HEIGHT - 1 /\ 0 \in Columns
      BY Sizes DEF Columns
    <2> DEFINE u == Updated(c, sc, HEIGHT - 1, 0, rg, c.pos + 1, m)
    <2>6. e = u
      BY DEF Scroll, ShowsTo, ConsoleIn, ConsoleType, Updated
    <2> HIDE DEF e, sc, rg, m
    <2>7. ConsoleIn(u, HEIGHT - 1)
      BY <1>1, <2>1, <2>3, <2>4, <2>5, UpdatedConsole
    <2>8. /\ u.offset = 0 /\ u.screen = sc /\ u.row = HEIGHT - 1 /\ u.column = 0
          /\ u.ring = rg /\ u.pos = c.pos + 1 /\ u.total = m
      BY <1>1, UpdatedFields
    <2> HIDE DEF u
    <2> QED BY <2>6, <2>7, <2>8
  <1>2. /\ e.screen = [y \in Rows |-> IF y + 1 \in Rows THEN c.screen[y + 1] ELSE BlankLine]
        /\ e.row = HEIGHT - 1 /\ e.column = 0
        /\ e.ring = [c.ring EXCEPT ![c.pos % SCROLLBACK_LINES] = c.screen[0]]
        /\ e.pos = c.pos + 1
        /\ e.total = IF c.total < SCROLLBACK_LINES THEN c.total + 1 ELSE c.total
        /\ e.offset = 0
    BY <1>4
  <1>5. IsWindow(e, p)
    <2>1. /\ Len(p) = (c.pos + HEIGHT) * WIDTH
          /\ c.screen = [y \in Rows |-> PaperLine(p, c.pos + y)]
          /\ \A i \in 1 .. c.total :
               c.ring[(c.pos - i) % SCROLLBACK_LINES] = PaperLine(p, c.pos - i)
      <3>1. (c.pos + c.row) * WIDTH + c.column = (c.pos + HEIGHT) * WIDTH
        BY <1>1, Sizes
      <3> QED BY <3>1 DEF ShowsTo, IsWindow, Live
    <2> HIDE DEF e
    <2>2. Len(p) = (e.pos + e.row) * WIDTH + e.column
      <3>1. e.pos + e.row = c.pos + HEIGHT
        BY <1>1, <1>2, Sizes
      <3> QED BY <1>1, <1>2, <2>1, <3>1, Sizes
    <2>3. PaperLine(p, c.pos + HEIGHT) = BlankLine
      <3>1. \A x \in Columns : ~((c.pos + HEIGHT) * WIDTH + x < Len(p))
        BY <1>1, <2>1, Sizes DEF Columns
      <3> QED BY <3>1 DEF PaperLine, Cell, BlankLine
    <2>4. Live(e) = [y \in Rows |-> PaperLine(p, e.pos + y)]
      <3>1. \A y \in Rows : (IF y + 1 \in Rows THEN c.screen[y + 1] ELSE BlankLine)
                              = PaperLine(p, c.pos + 1 + y)
        <4> TAKE y \in Rows
        <4>1. CASE y + 1 \in Rows
          <5>1. c.screen[y + 1] = PaperLine(p, c.pos + (y + 1))
            BY <4>1, <2>1
          <5>2. c.pos + (y + 1) = c.pos + 1 + y
            BY <1>1 DEF Rows
          <5> QED BY <4>1, <5>1, <5>2
        <4>2. CASE ~(y + 1 \in Rows)
          <5>1. c.pos + 1 + y = c.pos + HEIGHT
            BY <1>1, <4>2, Sizes DEF Rows
          <5> QED BY <4>2, <5>1, <2>3
        <4> QED BY <4>1, <4>2
      <3>2. Live(e) = e.screen
        BY <1>2 DEF Live
      <3> QED BY <1>2, <3>1, <3>2
    <2>5. ASSUME NEW i \in 1 .. e.total
          PROVE  e.ring[(e.pos - i) % SCROLLBACK_LINES] = PaperLine(p, e.pos - i)
      <3> PICK N \in Nat : N = SCROLLBACK_LINES /\ N >= 1
        BY Sizes
      <3> PICK k \in Nat : k = c.pos
        BY <1>1
      <3>1. /\ k % N \in 0 .. N - 1
            /\ e.ring = [c.ring EXCEPT ![k % N] = c.screen[0]]
        BY <1>2
      <3>2. CASE i = 1
        <4>1. e.pos - i = k
          BY <1>2, <3>2
        <4>2. e.ring[k % N] = c.screen[0]
          BY <1>1, <3>1 DEF Ring
        <4>3. c.screen[0] = PaperLine(p, k + 0)
          BY <2>1, Sizes DEF Rows
        <4> QED BY <4>1, <4>2, <4>3
      <3>3. CASE i # 1
        <4> PICK j \in Nat : j = i - 1
          BY <3>3
        <4>1. j \in 1 .. c.total /\ j < N /\ j <= k /\ 0 < j /\ N > 0 /\ e.pos - i = k - j
          <5>1. /\ c.pos \in Nat /\ c.total \in 0 .. N /\ c.total <= c.pos
                /\ e.pos = c.pos + 1
                /\ e.total = IF c.total < N THEN c.total + 1 ELSE c.total
            BY <1>1, <1>2
          <5> QED BY <3>3, <5>1
        <4>2. (k - j) % N \in 0 .. N - 1 /\ (k - j) % N # k % N
          BY <4>1, SlotsApart
        <4>3. e.ring[(k - j) % N] = c.ring[(k - j) % N]
          BY <1>1, <3>1, <4>2 DEF Ring
        <4> QED BY <2>1, <4>1, <4>3
      <3> QED BY <3>2, <3>3
    <2> QED BY <2>2, <2>4, <2>5 DEF IsWindow
  <1> HIDE DEF e
  <1>6. Shows(e, p)
    BY <1>1, <1>2, <1>4, <1>5 DEF Shows, ShowsTo
  <1>7. At(e) = (HEIGHT - 1) * WIDTH
    BY <1>2, Sizes DEF At, Nr
  <1> QED BY <1>6, <1>7 DEF e

\* One character has been written to the paper and to the screen.
LEMMA WrittenShows ==
  ASSUME NEW c, NEW p, Shows(c, p), NEW q \in Seq(Character),
         NEW Y \in Rows, NEW X \in Columns, NEW ch \in Character,
         NEW r \in 0 .. HEIGHT, NEW k \in Columns,
         Len(q) = Nr(c.pos + r, k),
         ButOneCell(p, q, c.pos + Y, X, ch)
  PROVE  ShowsTo(Updated(c, [c.screen EXCEPT ![Y][X] = ch], r, k, c.ring, c.pos, c.total),
                 q, HEIGHT)
  <1> DEFINE sc == [c.screen EXCEPT ![Y][X] = ch]
             u == Updated(c, sc, r, k, c.ring, c.pos, c.total)
  <1>1. /\ c.screen \in Screen /\ c.ring \in Ring /\ c.pos \in Nat
        /\ c.total \in 0 .. SCROLLBACK_LINES /\ c.total <= c.pos
        /\ c.offset = 0 /\ ConsoleIn(c, HEIGHT - 1)
        /\ r \in Nat /\ r <= HEIGHT /\ HEIGHT \in Nat
    BY ConsoleFields, Sizes DEF Shows, ShowsTo
  <1>2. sc \in Screen
    BY <1>1 DEF Screen, Line
  <1>3. /\ c.screen = [y \in Rows |-> PaperLine(p, c.pos + y)]
        /\ \A i \in 1 .. c.total :
             c.ring[(c.pos - i) % SCROLLBACK_LINES] = PaperLine(p, c.pos - i)
    BY <1>1 DEF Shows, ShowsTo, IsWindow, Live
  <1> PICK Z \in Nat : Z = c.pos + Y
    BY <1>1 DEF Rows
  <1>4. /\ \A y \in Nat : y # Z => PaperLine(q, y) = PaperLine(p, y)
        /\ IsLineSet(PaperLine(p, Z), PaperLine(q, Z), X, ch)
    <2>1. ButOneCell(p, q, Z, X, ch)
      OBVIOUS
    <2>2. \A y \in Nat : y # Z => PaperLine(q, y) = PaperLine(p, y)
      BY <2>1, OtherLines
    <2>3. IsLineSet(PaperLine(p, Z), PaperLine(q, Z), X, ch)
      BY <2>1, LineWithCell
    <2> QED BY <2>2, <2>3
  <1>5. sc = [y \in Rows |-> PaperLine(q, c.pos + y)]
    <2>1. \A y \in Rows : sc[y] = IF y = Y THEN [c.screen[y] EXCEPT ![X] = ch] ELSE c.screen[y]
      BY <1>1 DEF Screen
    <2>2. \A y \in Rows : c.pos + y \in Nat /\ (c.pos + y = Z <=> y = Y)
      BY <1>1 DEF Rows
    <2>3. \A y \in Rows : c.screen[y] = PaperLine(p, c.pos + y) /\ c.screen[y] \in Line
      BY <1>1, <1>3 DEF Screen
    <2>4. sc[Y] = PaperLine(q, Z)
      <3>1. PaperLine(q, Z) \in Line
        BY LineType
      <3>2. c.screen[Y] = PaperLine(p, Z) /\ c.screen[Y] \in Line
        BY <2>3
      <3>3. sc[Y] = [c.screen[Y] EXCEPT ![X] = ch]
        BY <2>1
      <3> HIDE DEF sc
      <3>4. \A x \in Columns : sc[Y][x] = PaperLine(q, Z)[x]
        BY <1>4, <3>2, <3>3 DEF Line, IsLineSet
      <3>5. sc[Y] \in Line
        BY <1>2 DEF Screen
      <3> QED BY <3>1, <3>4, <3>5 DEF Line
    <2> HIDE DEF sc
    <2>5. \A y \in Rows : sc[y] = PaperLine(q, c.pos + y)
      BY <1>4, <2>1, <2>2, <2>3, <2>4
    <2> QED BY <1>2, <2>5 DEF Screen
  <1>6. ASSUME NEW i \in 1 .. c.total
        PROVE  c.ring[(c.pos - i) % SCROLLBACK_LINES] = PaperLine(q, c.pos - i)
    <2>1. c.pos - i \in Nat /\ c.pos - i # Z
      BY <1>1 DEF Rows
    <2> QED BY <1>3, <1>4, <2>1
  <1> HIDE DEF sc
  <1>7. ConsoleIn(u, HEIGHT)
    BY <1>1, <1>2, UpdatedConsole
  <1>8. /\ u.offset = 0 /\ u.screen = sc /\ u.row = r /\ u.column = k
        /\ u.ring = c.ring /\ u.pos = c.pos /\ u.total = c.total
    BY <1>1, UpdatedFields
  <1> HIDE DEF u
  <1>9. IsWindow(u, q)
    BY <1>5, <1>6, <1>8 DEF IsWindow, Live, Nr
  <1>10. ShowsTo(u, q, HEIGHT)
    BY <1>7, <1>8, <1>9 DEF ShowsTo
  <1> QED BY <1>10 DEF u, sc

\* The cursor has moved over blank cells.
LEMMA MovedShows ==
  ASSUME NEW c, NEW p, Shows(c, p), NEW q \in Seq(Character),
         NEW r \in 0 .. HEIGHT, NEW k \in Columns,
         Len(q) = Nr(c.pos + r, k),
         SameCells(p, q)
  PROVE  ShowsTo(Updated(c, c.screen, r, k, c.ring, c.pos, c.total), q, HEIGHT)
  <1> DEFINE u == Updated(c, c.screen, r, k, c.ring, c.pos, c.total)
  <1>1. /\ c.screen \in Screen /\ c.ring \in Ring /\ c.pos \in Nat
        /\ c.total \in 0 .. SCROLLBACK_LINES /\ c.total <= c.pos
        /\ c.offset = 0 /\ ConsoleIn(c, HEIGHT - 1)
        /\ r \in Nat /\ r <= HEIGHT /\ HEIGHT \in Nat
    BY ConsoleFields, Sizes DEF Shows, ShowsTo
  <1>3. /\ c.screen = [y \in Rows |-> PaperLine(p, c.pos + y)]
        /\ \A i \in 1 .. c.total :
             c.ring[(c.pos - i) % SCROLLBACK_LINES] = PaperLine(p, c.pos - i)
    BY <1>1 DEF Shows, ShowsTo, IsWindow, Live
  <1>4. \A y \in Nat : PaperLine(q, y) = PaperLine(p, y)
    BY SameLines
  <1>5. \A y \in Rows : c.pos + y \in Nat
    BY <1>1 DEF Rows
  <1>6. \A i \in 1 .. c.total : c.pos - i \in Nat
    BY <1>1
  <1>7. ConsoleIn(u, HEIGHT)
    BY <1>1, UpdatedConsole
  <1>8. /\ u.offset = 0 /\ u.screen = c.screen /\ u.row = r /\ u.column = k
        /\ u.ring = c.ring /\ u.pos = c.pos /\ u.total = c.total
    BY <1>1, UpdatedFields
  <1> HIDE DEF u
  <1>9. IsWindow(u, q)
    BY <1>3, <1>4, <1>5, <1>6, <1>8 DEF IsWindow, Live, Nr
  <1>10. ShowsTo(u, q, HEIGHT)
    BY <1>7, <1>8, <1>9 DEF ShowsTo
  <1> QED BY <1>10 DEF u

\* The end of vga_putchar_raw.
Scrolled(d) == IF d.row >= HEIGHT THEN Scroll([d EXCEPT !.row = HEIGHT - 1]) ELSE d

\* The end of vga_putchar_raw: the screen scrolls if the cursor has left it.
LEMMA ScrolledShows ==
  ASSUME NEW d, NEW p, ShowsTo(d, p, HEIGHT), d.row = HEIGHT => d.column = 0
  PROVE  /\ Shows(Scrolled(d), p)
         /\ At(Scrolled(d)) = IF d.row = HEIGHT THEN (HEIGHT - 1) * WIDTH ELSE At(d)
  <1>1. d.row \in 0 .. HEIGHT /\ d \in ConsoleType(HEIGHT)
    BY DEF ShowsTo, ConsoleIn, ConsoleType
  <1>2. CASE d.row = HEIGHT
    <2>1. Scrolled(d) = Scroll([d EXCEPT !.row = HEIGHT - 1])
      BY <1>2, Sizes DEF Scrolled
    <2> QED BY <1>2, <2>1, ScrollShows
  <1>3. CASE d.row # HEIGHT
    <2>1. Scrolled(d) = d /\ d.row \in 0 .. HEIGHT - 1
      BY <1>1, <1>3, Sizes DEF Scrolled
    <2>2. d \in ConsoleType(HEIGHT - 1)
      BY <1>1, <2>1, Zenon DEF ConsoleType
    <2> QED BY <1>3, <2>1, <2>2 DEF Shows, ShowsTo, ConsoleIn
  <1> QED BY <1>2, <1>3

----------------------------------------------------------------------------
(* Where the cursor goes *)

\* Cell numbers of a screen whose top row is row P of the paper.
LEMMA RowStart ==
  ASSUME NEW P \in Nat, NEW R \in Nat, NEW X \in Int
  PROVE  /\ (P + (R + 1)) * WIDTH = (P + R) * WIDTH + WIDTH
         /\ (R + 1) * WIDTH = R * WIDTH + WIDTH
         /\ (P + R) * WIDTH \in Nat /\ R * WIDTH \in Nat /\ P * WIDTH \in Nat
         /\ (P + R) * WIDTH = P * WIDTH + R * WIDTH
  BY Sizes

RowAfter(y, x) == IF x + 1 = WIDTH THEN y + 1 ELSE y
ColumnAfter(x) == IF x + 1 = WIDTH THEN 0 ELSE x + 1
RowBefore(y, x) == IF x > 0 THEN y ELSE y - 1
ColumnBefore(x) == IF x > 0 THEN x - 1 ELSE WIDTH - 1

\* Moving on by one cell, over the end of a row too, is one cell number.
LEMMA NextCell ==
  ASSUME NEW P \in Nat, NEW R \in Rows, NEW X \in Columns
  PROVE  /\ RowAfter(R, X) \in 0 .. HEIGHT /\ ColumnAfter(X) \in Columns
         /\ RowAfter(R, X) = HEIGHT => ColumnAfter(X) = 0
         /\ Nr(P + RowAfter(R, X), ColumnAfter(X)) = Nr(P + R, X) + 1
  <1> DEFINE r == RowAfter(R, X)
             k == ColumnAfter(X)
  <1>1. R \in Nat /\ R <= HEIGHT - 1 /\ X \in Nat /\ X <= WIDTH - 1
    BY Sizes DEF Rows, Columns
  <1>2. r \in 0 .. HEIGHT /\ k \in Columns /\ (r = HEIGHT => k = 0)
    BY <1>1, Sizes DEF Columns, RowAfter, ColumnAfter
  <1>3. PICK a \in Nat : a = (P + R) * WIDTH
    BY <1>1, Sizes
  <1>5. (P + (R + 1)) * WIDTH = a + WIDTH
    BY <1>1, <1>3, RowStart
  <1>6. CASE X + 1 = WIDTH
    <2>1. r = R + 1 /\ k = 0
      BY <1>6 DEF RowAfter, ColumnAfter
    <2> HIDE DEF r, k
    <2>2. (P + r) * WIDTH = a + WIDTH
      BY <1>5, <2>1
    <2>3. a + WIDTH + k = a + X + 1
      BY <1>1, <1>6, <2>1
    <2> QED BY <1>2, <1>3, <2>2, <2>3 DEF r, k, Nr
  <1>7. CASE X + 1 # WIDTH
    <2>1. r = R /\ k = X + 1
      BY <1>7 DEF RowAfter, ColumnAfter
    <2>2. a + k = a + X + 1
      BY <1>1, <2>1
    <2> QED BY <1>2, <1>3, <2>1, <2>2 DEF Nr
  <1> QED BY <1>6, <1>7

\* Moving back by one cell, over the start of a row too, is one cell number.
LEMMA PreviousCell ==
  ASSUME NEW P \in Nat, NEW R \in Rows, NEW X \in Columns, R > 0 \/ X > 0
  PROVE  /\ RowBefore(R, X) \in Rows /\ ColumnBefore(X) \in Columns
         /\ Nr(P + RowBefore(R, X), ColumnBefore(X)) = Nr(P + R, X) - 1
  <1> DEFINE r == RowBefore(R, X)
             k == ColumnBefore(X)
  <1>1. R \in Nat /\ R <= HEIGHT - 1 /\ X \in Nat /\ X <= WIDTH - 1
    BY Sizes DEF Rows, Columns
  <1>2. r \in Rows /\ k \in Columns /\ r \in Nat /\ k \in Nat
    BY <1>1, Sizes DEF Rows, Columns, RowBefore, ColumnBefore
  <1>3. PICK a \in Nat : a = (P + r) * WIDTH
    BY <1>2, Sizes
  <1>5. (P + (r + 1)) * WIDTH = a + WIDTH
    BY <1>2, <1>3, RowStart
  <1>6. CASE X > 0
    <2>1. r = R /\ k = X - 1
      BY <1>6 DEF RowBefore, ColumnBefore
    <2> HIDE DEF r, k
    <2>2. a + k = a + X - 1
      BY <1>1, <2>1
    <2>3. Nr(P + r, k) = a + k /\ Nr(P + R, X) = a + X
      BY <1>3, <2>1 DEF Nr
    <2>4. Nr(P + r, k) = Nr(P + R, X) - 1
      BY <1>1, <1>2, <2>2, <2>3
    <2> QED BY <1>2, <2>4 DEF r, k
  <1>7. CASE X = 0
    <2>1. R = r + 1 /\ k = WIDTH - 1
      BY <1>1, <1>7, Sizes DEF RowBefore, ColumnBefore
    <2> HIDE DEF r, k
    <2>2. (P + R) * WIDTH = a + WIDTH
      BY <1>5, <2>1
    <2>3. a + k = a + WIDTH + X - 1
      BY <1>1, <1>7, <2>1, Sizes
    <2>4. Nr(P + r, k) = a + k /\ Nr(P + R, X) = a + WIDTH + X
      BY <1>3, <2>2 DEF Nr
    <2>5. Nr(P + r, k) = Nr(P + R, X) - 1
      BY <1>1, <1>2, <2>3, <2>4, Sizes
    <2> QED BY <1>2, <2>5 DEF r, k
  <1> QED BY <1>1, <1>6, <1>7

\* A newline on the paper pads it to the start of the next row.
LEMMA NextRow ==
  ASSUME NEW P \in Nat, NEW R \in Rows, NEW X \in Columns, NEW len \in Nat,
         len = Nr(P + R, X)
  PROVE  /\ R + 1 \in 0 .. HEIGHT
         /\ WIDTH - (len % WIDTH) \in Nat
         /\ len + (WIDTH - (len % WIDTH)) = Nr(P + (R + 1), 0)
  <1>1. R \in Nat /\ R <= HEIGHT - 1 /\ X \in Nat /\ X <= WIDTH - 1
    BY Sizes DEF Rows, Columns
  <1>2. PICK n \in Nat : n = P + R
    BY <1>1
  <1>3. PICK a \in Nat : a = n * WIDTH
    BY Sizes
  <1>4. PICK d \in Nat : d = len \div WIDTH
    BY Sizes, DivMod
  <1>5. PICK m \in 0 .. WIDTH - 1 : m = len % WIDTH
    BY Sizes, DivMod
  <1>6. len = d * WIDTH + m
    <2>1. WIDTH \in Nat /\ WIDTH > 0
      BY Sizes
    <2>2. len = (len \div WIDTH) * WIDTH + (len % WIDTH)
      BY <2>1, DivMod
    <2> QED BY <1>4, <1>5, <2>2
  <1>7. m = X
    <2>1. m \in Columns
      BY DEF Columns
    <2>2. d * WIDTH + m = n * WIDTH + X
      BY <1>2, <1>6 DEF Nr
    <2> QED BY <2>1, <2>2, OneRow
  <1>8. (P + (R + 1)) * WIDTH = a + WIDTH
    BY <1>1, <1>2, <1>3, RowStart
  <1>9. len = a + X
    BY <1>2, <1>3 DEF Nr
  <1>10. WIDTH - m \in Nat /\ a + X + (WIDTH - m) = a + WIDTH
    BY <1>1, <1>7, Sizes
  <1>11. R + 1 \in 0 .. HEIGHT
    BY <1>1, Sizes
  <1> QED BY <1>5, <1>8, <1>9, <1>10, <1>11 DEF Nr

----------------------------------------------------------------------------
(* One character *)

\* The cursor of a console that shows a paper.
LEMMA CursorFields ==
  ASSUME NEW c, NEW p, Shows(c, p)
  PROVE  /\ c.row \in Rows /\ c.column \in Columns /\ c.pos \in Nat /\ c.offset = 0
         /\ c.row \in Nat /\ c.column \in Nat /\ p \in Seq(Character) /\ Len(p) \in Nat
         /\ ConsoleIn(c, HEIGHT - 1)
  <1>1. /\ ConsoleIn(c, HEIGHT - 1) /\ c.offset = 0 /\ p \in Seq(Character)
    BY DEF Shows, ShowsTo
  <1>2. c.row \in 0 .. HEIGHT - 1 /\ c.column \in Columns /\ c.pos \in Nat
    BY <1>1, ConsoleFields
  <1> QED BY <1>1, <1>2 DEF Rows, Columns

\* The paper ends at the cursor.
LEMMA PaperLength ==
  ASSUME NEW c, NEW p, Shows(c, p)
  PROVE  Len(p) = Nr(c.pos + c.row, c.column)
  BY DEF Shows, ShowsTo, IsWindow, Nr

\* Cell numbers are naturals.
LEMMA CellNumbers ==
  ASSUME NEW y \in Nat, NEW x \in Columns
  PROVE  Nr(y, x) \in Nat
  BY Sizes DEF Nr, Columns

LEMMA AtNat ==
  ASSUME NEW c, NEW p, Shows(c, p)
  PROVE  At(c) \in Nat
  BY CursorFields, CellNumbers DEF At

\* A printable character is added to the paper; the cursor goes on by one cell, or the
\* screen scrolls and the cursor is at the start of the last row.
LEMMA PutChar ==
  ASSUME NEW c, NEW p, Shows(c, p), NEW ch \in Character
  PROVE  /\ Shows(Put(c, ch), Append(p, ch)) /\ OnPaper(p, ch) = Append(p, ch)
         /\ At(Put(c, ch)) = At(c) + 1 \/ At(Put(c, ch)) = (HEIGHT - 1) * WIDTH
  <1> DEFINE sc == [c.screen EXCEPT ![c.row][c.column] = ch]
             r == RowAfter(c.row, c.column)
             k == ColumnAfter(c.column)
             u == Updated(c, sc, r, k, c.ring, c.pos, c.total)
             q == Append(p, ch)
  <1>0. ch # Newline /\ ch # Backspace
    BY CharFacts
  <1>1. /\ c.row \in Rows /\ c.column \in Columns /\ c.pos \in Nat /\ c.offset = 0
        /\ p \in Seq(Character) /\ Len(p) \in Nat
        /\ ConsoleIn(c, HEIGHT - 1)
    BY CursorFields
  <1>2. Put(c, ch) = Scrolled(u)
    <2>1. Reset(c) = c
      BY <1>1 DEF Reset
    <2>2. StepOn(SetCell(c, ch)) = u
      BY <1>1 DEF RowAfter, ColumnAfter, StepOn, SetCell, LineDown, Updated, ConsoleIn, ConsoleType
    <2> HIDE DEF u
    <2> QED BY <1>0, <2>1, <2>2 DEF Put, Scrolled
  <1>3. q \in Seq(Character) /\ Len(q) = Len(p) + 1
    BY <1>1
  <1>4. /\ r \in 0 .. HEIGHT /\ k \in Columns /\ (r = HEIGHT => k = 0)
        /\ Nr(c.pos + r, k) = Nr(c.pos + c.row, c.column) + 1
        /\ Nr(0 + r, k) = Nr(0 + c.row, c.column) + 1
    BY <1>1, NextCell
  <1>5. Len(q) = Nr(c.pos + r, k)
    BY <1>3, <1>4, PaperLength
  <1>6. ButOneCell(p, q, c.pos + c.row, c.column, ch)
    <2>1. \A i \in Nat : Cell(q, i) = IF i = Len(p) THEN ch ELSE Cell(p, i)
      BY <1>1, CellsAppend
    <2>2. Len(p) = Nr(c.pos + c.row, c.column)
      BY PaperLength
    <2> QED BY <2>1, <2>2 DEF ButOneCell
  <1> HIDE DEF q, r, k
  <1>7. ShowsTo(u, q, HEIGHT)
    <2>1. r \in 0 .. HEIGHT /\ k \in Columns
      BY <1>4
    <2> QED BY <1>1, <1>3, <1>5, <1>6, <2>1, WrittenShows
  <1>8. u.row = r /\ u.column = k
    BY <1>1, UpdatedFields
  <1> HIDE DEF u
  <1>9. /\ Shows(Scrolled(u), q)
        /\ At(Scrolled(u)) = IF u.row = HEIGHT THEN (HEIGHT - 1) * WIDTH ELSE At(u)
    <2>1. u.row = HEIGHT => u.column = 0
      BY <1>4, <1>8
    <2> QED BY <1>7, <2>1, ScrolledShows
  <1>10. At(u) = At(c) + 1
    <2>1. 0 + r = r /\ 0 + c.row = c.row
      BY <1>1, <1>4 DEF Rows
    <2> QED BY <1>4, <1>8, <2>1 DEF At
  <1>11. OnPaper(p, ch) = q
    BY <1>0 DEF OnPaper, q
  <1> QED BY <1>2, <1>9, <1>10, <1>11 DEF q

\* A newline fills the row with blanks.
LEMMA PutNewline ==
  ASSUME NEW c, NEW p, Shows(c, p)
  PROVE  /\ Shows(Put(c, Newline), OnPaper(p, Newline))
         /\ At(Put(c, Newline)) >= At(c) \/ At(Put(c, Newline)) >= (HEIGHT - 1) * WIDTH
  <1> DEFINE u == Updated(c, c.screen, c.row + 1, 0, c.ring, c.pos, c.total)
             m == WIDTH - (Len(p) % WIDTH)
             z == [i \in 1 .. m |-> Blank]
             q == p \o z
  <1>1. /\ c.row \in Rows /\ c.column \in Columns /\ c.pos \in Nat /\ c.offset = 0
        /\ p \in Seq(Character) /\ Len(p) \in Nat /\ c.row \in Nat
        /\ ConsoleIn(c, HEIGHT - 1)
    BY CursorFields
  <1>2. Put(c, Newline) = Scrolled(u)
    <2>1. Reset(c) = c
      BY <1>1 DEF Reset
    <2>2. LineDown(c) = u
      BY <1>1 DEF LineDown, Updated, ConsoleIn, ConsoleType
    <2> HIDE DEF u
    <2> QED BY <2>1, <2>2 DEF Put, Scrolled
  <1>3. /\ c.row + 1 \in 0 .. HEIGHT /\ m \in Nat
        /\ Len(p) + m = Nr(c.pos + (c.row + 1), 0)
    BY <1>1, PaperLength, NextRow
  <1>4. OnPaper(p, Newline) = q
    BY DEF OnPaper
  <1> HIDE DEF m
  <1>5. z \in Seq(Character) /\ Len(z) = m
    BY <1>3, CharFacts
  <1>6. SameCells(p, q)
    BY <1>1, <1>3, CellsPadded DEF SameCells
  <1> HIDE DEF z
  <1>7. q \in Seq(Character) /\ Len(q) = Len(p) + m
    BY <1>1, <1>5
  <1> HIDE DEF q
  <1>8. Len(q) = Nr(c.pos + (c.row + 1), 0)
    BY <1>3, <1>7
  <1>9. 0 \in Columns
    BY Sizes DEF Columns
  <1>10. ShowsTo(u, q, HEIGHT)
    BY <1>3, <1>6, <1>7, <1>8, <1>9, MovedShows
  <1>11. u.column = 0 /\ u.row = c.row + 1
    BY <1>1, UpdatedFields
  <1> HIDE DEF u
  <1>12. /\ Shows(Scrolled(u), q)
         /\ At(Scrolled(u)) = IF u.row = HEIGHT THEN (HEIGHT - 1) * WIDTH ELSE At(u)
    BY <1>10, <1>11, ScrolledShows
  <1>13. At(u) >= At(c) /\ (HEIGHT - 1) * WIDTH >= (HEIGHT - 1) * WIDTH
    <2>1. /\ (c.row + 1) * WIDTH = c.row * WIDTH + WIDTH /\ c.row * WIDTH \in Nat
          /\ (HEIGHT - 1) * WIDTH \in Nat
      BY <1>1, RowStart, Sizes
    <2>2. c.column \in Nat /\ c.column <= WIDTH - 1
      BY <1>1, Sizes DEF Columns
    <2>3. At(u) = (c.row + 1) * WIDTH + 0 /\ At(c) = c.row * WIDTH + c.column
      BY <1>11 DEF At, Nr
    <2> QED BY <2>1, <2>2, <2>3, Sizes
  <1> QED BY <1>2, <1>4, <1>12, <1>13

\* A backspace takes the last character off the paper, unless the cursor is in the
\* first cell of the screen.
LEMMA PutBackspace ==
  ASSUME NEW c, NEW p, Shows(c, p), At(c) > 0
  PROVE  /\ Shows(Put(c, Backspace), SubSeq(p, 1, Len(p) - 1))
         /\ OnPaper(p, Backspace) = SubSeq(p, 1, Len(p) - 1)
         /\ At(Put(c, Backspace)) = At(c) - 1 /\ Len(p) > 0
  <1> DEFINE r == RowBefore(c.row, c.column)
             k == ColumnBefore(c.column)
             sc == [c.screen EXCEPT ![r][k] = Blank]
             u == Updated(c, sc, r, k, c.ring, c.pos, c.total)
             q == SubSeq(p, 1, Len(p) - 1)
  <1>0. Backspace # Newline /\ Blank \in Character
    BY CharFacts
  <1>1. /\ c.row \in Rows /\ c.column \in Columns /\ c.pos \in Nat /\ c.offset = 0
        /\ p \in Seq(Character) /\ Len(p) \in Nat /\ c.row \in Nat /\ c.column \in Nat
        /\ ConsoleIn(c, HEIGHT - 1)
    BY CursorFields
  <1>2. c.row > 0 \/ c.column > 0
    <2> SUFFICES ASSUME c.row = 0, c.column = 0 PROVE FALSE
      BY <1>1
    <2>1. At(c) = 0
      BY Sizes DEF At, Nr
    <2> QED BY <2>1
  <1>3. Put(c, Backspace) = Scrolled(u)
    <2>1. Reset(c) = c
      BY <1>1 DEF Reset
    <2>2. SetCell(StepBack(c), Blank) = u
      BY <1>1, <1>2 DEF RowBefore, ColumnBefore, StepBack, SetCell, Updated, ConsoleIn, ConsoleType
    <2> HIDE DEF u
    <2> QED BY <1>0, <2>1, <2>2 DEF Put, Scrolled
  <1>4. /\ r \in Rows /\ k \in Columns
        /\ Nr(c.pos + r, k) = Nr(c.pos + c.row, c.column) - 1
        /\ Nr(0 + r, k) = Nr(0 + c.row, c.column) - 1
    <2>1. \A P \in Nat : /\ r \in Rows /\ k \in Columns
                          /\ Nr(P + r, k) = Nr(P + c.row, c.column) - 1
      BY <1>1, <1>2, PreviousCell
    <2> HIDE DEF r, k
    <2>2. c.pos \in Nat /\ 0 \in Nat
      BY <1>1
    <2> QED BY <2>1, <2>2, Zenon
  <1> HIDE DEF r, k
  <1>5. Len(p) - 1 = Nr(c.pos + r, k)
    BY <1>1, <1>4, PaperLength
  <1>6. Len(p) - 1 \in Nat
    <2>1. c.pos + r \in Nat
      BY <1>1, <1>4 DEF Rows
    <2> QED BY <1>4, <1>5, <2>1, CellNumbers
  <1>7. q \in Seq(Character) /\ Len(q) = Len(p) - 1
    <2>1. \A j \in 0 .. Len(p) : SubSeq(p, 1, j) \in Seq(Character) /\ Len(SubSeq(p, 1, j)) = j
      BY <1>1
    <2>2. Len(p) - 1 \in 0 .. Len(p)
      BY <1>1, <1>6
    <2> QED BY <2>1, <2>2
  <1>8. ButOneCell(p, q, c.pos + r, k, Blank)
    <2>1. \A i \in Nat : Cell(q, i) = IF i = Len(p) - 1 THEN Blank ELSE Cell(p, i)
      BY <1>1, <1>6, CellsWithoutLast
    <2> QED BY <1>5, <2>1 DEF ButOneCell
  <1>9. OnPaper(p, Backspace) = q
    BY <1>0 DEF OnPaper
  <1>10. Len(p) > 0
    BY <1>1, <1>6
  <1> HIDE DEF q
  <1>11. r \in 0 .. HEIGHT /\ r # HEIGHT /\ Len(q) = Nr(c.pos + r, k)
    BY <1>4, <1>5, <1>7, Sizes DEF Rows
  <1>12. ShowsTo(u, q, HEIGHT)
    BY <1>0, <1>4, <1>7, <1>8, <1>11, WrittenShows
  <1>13. u.row = r /\ u.column = k
    BY <1>1, UpdatedFields
  <1> HIDE DEF u
  <1>14. Shows(Scrolled(u), q) /\ At(Scrolled(u)) = At(u)
    BY <1>11, <1>12, <1>13, ScrolledShows
  <1>15. At(u) = At(c) - 1
    <2>1. 0 + r = r /\ 0 + c.row = c.row
      BY <1>1, <1>4 DEF Rows
    <2> QED BY <1>4, <1>13, <2>1 DEF At
  <1> QED BY <1>3, <1>9, <1>10, <1>14, <1>15 DEF q

----------------------------------------------------------------------------
(* Texts *)

\* Sequences one element at a time.
LEMMA ShorterAndLast ==
  ASSUME NEW S, NEW t \in Seq(S), NEW n \in Nat, Len(t) = n + 1
  PROVE  \E u \in Seq(S) : \E x \in S : t = Append(u, x) /\ Len(u) = n
  <1> DEFINE u == SubSeq(t, 1, n)
  <1>1. u \in Seq(S) /\ Len(u) = n /\ \A i \in 1 .. n : u[i] = t[i]
    OBVIOUS
  <1>2. t[n + 1] \in S
    OBVIOUS
  <1> HIDE DEF u
  <1> DEFINE v == Append(u, t[n + 1])
  <1>3. v \in Seq(S) /\ Len(v) = n + 1 /\ \A i \in 1 .. n + 1 : v[i] = t[i]
    BY <1>1, <1>2
  <1> HIDE DEF v
  <1>4. v = t
    BY <1>3, SeqEqual
  <1> QED BY <1>1, <1>2, <1>4 DEF v

\* Concatenation and one more element.
LEMMA ConcatAppend ==
  ASSUME NEW S, NEW a \in Seq(S), NEW b \in Seq(S), NEW x \in S
  PROVE  a \o Append(b, x) = Append(a \o b, x)
  OBVIOUS

\* Printing two texts one after the other is printing them together.
LEMMA PutAllConcat ==
  ASSUME NEW S, NEW c, NEW a \in Seq(S), NEW b \in Seq(S)
  PROVE  PutAll(c, a \o b) = PutAll(PutAll(c, a), b)
  <1> DEFINE Good(t) == PutAll(c, a \o t) = PutAll(PutAll(c, a), t)
             T == {n \in Nat : \A t \in Seq(S) : Len(t) = n => Good(t)}
  <1>1. 0 \in T
    <2>1. ASSUME NEW t \in Seq(S), Len(t) = 0 PROVE Good(t)
      <3>1. t = <<>>
        BY <2>1
      <3>2. a \o t = a
        BY <3>1
      <3>3. PutAll(PutAll(c, a), t) = PutAll(c, a)
        BY <3>1, PutAllNothing
      <3> QED BY <3>2, <3>3
    <2> QED BY <2>1
  <1>2. ASSUME NEW n \in Nat, n \in T PROVE n + 1 \in T
    <2>1. ASSUME NEW t \in Seq(S), Len(t) = n + 1 PROVE Good(t)
      <3>1. PICK u \in Seq(S), x \in S : t = Append(u, x) /\ Len(u) = n
        BY <2>1, ShorterAndLast
      <3>2. Good(u)
        BY <1>2, <3>1
      <3>3. a \o t = Append(a \o u, x) /\ a \o u \in Seq(S)
        BY <3>1, ConcatAppend
      <3>4. PutAll(c, Append(a \o u, x)) = Put(PutAll(c, a \o u), x)
        <4>1. \A v \in Seq(S) : PutAll(c, Append(v, x)) = Put(PutAll(c, v), x)
          BY PutAllAppend
        <4> QED BY <3>3, <4>1
      <3>5. PutAll(PutAll(c, a), Append(u, x)) = Put(PutAll(PutAll(c, a), u), x)
        BY PutAllAppend
      <3> QED BY <3>1, <3>2, <3>3, <3>4, <3>5
    <2> QED BY <2>1
  <1> HIDE DEF T
  <1>3. Len(b) \in T
    BY <1>1, <1>2, SetInduction
  <1> QED BY <1>3 DEF T

LEMMA PrintedConcat ==
  ASSUME NEW S, NEW p, NEW a \in Seq(S), NEW b \in Seq(S)
  PROVE  Printed(p, a \o b) = Printed(Printed(p, a), b)
  <1> DEFINE Good(t) == Printed(p, a \o t) = Printed(Printed(p, a), t)
             T == {n \in Nat : \A t \in Seq(S) : Len(t) = n => Good(t)}
  <1>1. 0 \in T
    <2>1. ASSUME NEW t \in Seq(S), Len(t) = 0 PROVE Good(t)
      <3>1. t = <<>>
        BY <2>1
      <3>2. a \o t = a
        BY <3>1
      <3>3. Printed(Printed(p, a), t) = Printed(p, a)
        BY <3>1, PrintedNothing
      <3> QED BY <3>2, <3>3
    <2> QED BY <2>1
  <1>2. ASSUME NEW n \in Nat, n \in T PROVE n + 1 \in T
    <2>1. ASSUME NEW t \in Seq(S), Len(t) = n + 1 PROVE Good(t)
      <3>1. PICK u \in Seq(S), x \in S : t = Append(u, x) /\ Len(u) = n
        BY <2>1, ShorterAndLast
      <3>2. Good(u)
        BY <1>2, <3>1
      <3>3. a \o t = Append(a \o u, x) /\ a \o u \in Seq(S)
        BY <3>1, ConcatAppend
      <3>4. Printed(p, Append(a \o u, x)) = OnPaper(Printed(p, a \o u), x)
        <4>1. \A v \in Seq(S) : Printed(p, Append(v, x)) = OnPaper(Printed(p, v), x)
          BY PrintedAppend
        <4> QED BY <3>3, <4>1
      <3>5. Printed(Printed(p, a), Append(u, x)) = OnPaper(Printed(Printed(p, a), u), x)
        BY PrintedAppend
      <3> QED BY <3>1, <3>2, <3>3, <3>4, <3>5
    <2> QED BY <2>1
  <1> HIDE DEF T
  <1>3. Len(b) \in T
    BY <1>1, <1>2, SetInduction
  <1> QED BY <1>3 DEF T

\* The cells above the last row.
Bottom == (HEIGHT - 1) * WIDTH

LEMMA BottomNat ==
  Bottom \in Nat
  BY Sizes DEF Bottom

\* A text of printable characters is added to the paper, and at least as much of it as
\* fits above the last row is on the screen.
LEMMA PutText ==
  ASSUME NEW c, NEW p, Shows(c, p), NEW t \in Seq(Character)
  PROVE  /\ Shows(PutAll(c, t), p \o t) /\ Printed(p, t) = p \o t
         /\ At(PutAll(c, t)) >= At(c) + Len(t) \/ At(PutAll(c, t)) >= Bottom
  <1> DEFINE Good(w) ==
               /\ Shows(PutAll(c, w), p \o w) /\ Printed(p, w) = p \o w
               /\ At(PutAll(c, w)) >= At(c) + Len(w) \/ At(PutAll(c, w)) >= Bottom
             T == {n \in Nat : \A w \in Seq(Character) : Len(w) = n => Good(w)}
  <1>0. p \in Seq(Character) /\ At(c) \in Nat
    BY CursorFields, AtNat
  <1>1. 0 \in T
    <2>1. ASSUME NEW w \in Seq(Character), Len(w) = 0 PROVE Good(w)
      <3>1. w = <<>>
        BY <2>1
      <3>2. p \o w = p
        BY <1>0, <3>1
      <3>3. PutAll(c, w) = c /\ Printed(p, w) = p
        BY <3>1, PutAllNothing, PrintedNothing
      <3>4. At(c) >= At(c) + Len(w)
        BY <1>0, <2>1
      <3> QED BY <3>2, <3>3, <3>4
    <2> QED BY <2>1
  <1>2. ASSUME NEW n \in Nat, n \in T PROVE n + 1 \in T
    <2>1. ASSUME NEW w \in Seq(Character), Len(w) = n + 1 PROVE Good(w)
      <3>1. PICK u \in Seq(Character), x \in Character : w = Append(u, x) /\ Len(u) = n
        BY <2>1, ShorterAndLast
      <3>2. Good(u)
        BY <1>2, <3>1
      <3>3. p \o w = Append(p \o u, x)
        BY <1>0, <3>1, ConcatAppend
      <3> DEFINE d == PutAll(c, u)
                 q == p \o u
      <3>4. PutAll(c, w) = Put(d, x) /\ Printed(p, w) = OnPaper(Printed(p, u), x)
        BY <3>1, PutAllAppend, PrintedAppend
      <3>5. /\ Shows(d, q) /\ Printed(p, u) = q
            /\ At(d) >= At(c) + Len(u) \/ At(d) >= Bottom
        BY <3>2
      <3> HIDE DEF d, q, Good
      <3>6. /\ Shows(Put(d, x), Append(q, x)) /\ OnPaper(q, x) = Append(q, x)
            /\ At(Put(d, x)) = At(d) + 1 \/ At(Put(d, x)) = Bottom
        BY <3>5, PutChar DEF Bottom
      <3>7. At(d) \in Nat /\ At(Put(d, x)) \in Nat
        BY <3>5, <3>6, AtNat
      <3>8. At(PutAll(c, w)) >= At(c) + Len(w) \/ At(PutAll(c, w)) >= Bottom
        BY <1>0, <2>1, <3>1, <3>4, <3>5, <3>6, <3>7, BottomNat
      <3>9. p \o w = Append(q, x)
        BY <3>3 DEF q
      <3> QED BY <3>4, <3>5, <3>6, <3>8, <3>9 DEF Good
    <2> QED BY <2>1
  <1> HIDE DEF T
  <1>3. Len(t) \in T
    BY <1>1, <1>2, SetInduction
  <1> QED BY <1>3 DEF T

\* What the console accepts: printable characters, blank and the two control
\* characters.
LEMMA GlyphFacts ==
  /\ Character \subseteq Glyph /\ Newline \in Glyph /\ Backspace \in Glyph /\ Blank \in Glyph
  BY CharFacts DEF Glyph

\* printf("\b \b") takes one character off the paper; what is on the screen of the
\* last L characters still is.
LEMMA RubOnce ==
  ASSUME NEW c, NEW p, Shows(c, p), NEW L \in Nat, L >= 1, L <= Bottom, At(c) >= L,
         NEW d, d = Put(Put(Put(c, Backspace), Blank), Backspace)
  PROVE  /\ Shows(d, SubSeq(p, 1, Len(p) - 1)) /\ At(d) >= L - 1
         /\ OnPaper(OnPaper(OnPaper(p, Backspace), Blank), Backspace)
              = SubSeq(p, 1, Len(p) - 1)
         /\ Len(p) >= 1
  <1> DEFINE c1 == Put(c, Backspace)
             c2 == Put(c1, Blank)
             q == SubSeq(p, 1, Len(p) - 1)
             r == Append(q, Blank)
  <1>0. p \in Seq(Character) /\ Len(p) \in Nat /\ At(c) \in Nat /\ Blank \in Character
    BY CursorFields, AtNat, CharFacts
  <1>1. Shows(c1, q) /\ OnPaper(p, Backspace) = q /\ At(c1) = At(c) - 1 /\ Len(p) > 0
    BY <1>0, PutBackspace
  <1>2. q \in Seq(Character) /\ Len(q) \in Nat
    BY <1>1, CursorFields
  <1>3. r \in Seq(Character) /\ Len(r) - 1 = Len(q) /\ SubSeq(r, 1, Len(q)) = q
    <2> HIDE DEF q
    <2>1. r \in Seq(Character) /\ Len(r) = Len(q) + 1 /\ \A i \in 1 .. Len(q) : r[i] = q[i]
      BY <1>0, <1>2
    <2> DEFINE s == SubSeq(r, 1, Len(q))
    <2> HIDE DEF r
    <2>2. s \in Seq(Character) /\ Len(s) = Len(q) /\ \A i \in 1 .. Len(q) : s[i] = r[i]
      BY <1>2, <2>1
    <2> HIDE DEF s
    <2>3. s = q
      BY <1>2, <2>1, <2>2, SeqEqual
    <2> QED BY <1>2, <2>1, <2>3 DEF s
  <1> HIDE DEF c1, q
  <1>4. /\ Shows(c2, r) /\ OnPaper(q, Blank) = r
        /\ At(c2) = At(c1) + 1 \/ At(c2) = Bottom
    BY <1>0, <1>1, PutChar DEF Bottom
  <1> HIDE DEF c2, r
  <1>5. At(c2) >= L /\ At(c2) \in Nat
    BY <1>0, <1>1, <1>4, AtNat, BottomNat
  <1>6. d = Put(c2, Backspace)
    BY DEF c1, c2
  <1>7. At(c2) > 0
    BY <1>5
  <1>8. /\ Shows(Put(c2, Backspace), SubSeq(r, 1, Len(r) - 1))
        /\ OnPaper(r, Backspace) = SubSeq(r, 1, Len(r) - 1)
        /\ At(Put(c2, Backspace)) = At(c2) - 1
    BY <1>4, <1>7, PutBackspace
  <1>9. SubSeq(r, 1, Len(r) - 1) = q
    BY <1>3
  <1>10. At(d) >= L - 1 /\ Len(p) >= 1
    BY <1>0, <1>1, <1>5, <1>6, <1>8
  <1> QED BY <1>1, <1>4, <1>6, <1>8, <1>9, <1>10 DEF q

\* clear_line prints one rub-out per character.
LEMMA ClearLineText ==
  /\ ClearLine(0) = <<>>
  /\ \A k \in Nat :
       /\ ClearLine(k) \in Seq(Glyph)
       /\ ClearLine(k + 1) =
            Append(Append(Append(ClearLine(k), Backspace), Blank), Backspace)
  <1>1. ClearLine(0) = <<>>
    BY DEF ClearLine
  <1>2. ASSUME NEW k \in Nat
        PROVE  /\ ClearLine(k) \in Seq(Glyph) /\ Len(ClearLine(k)) = 3 * k
               /\ \A i \in 1 .. 3 * k :
                    ClearLine(k)[i] = IF i % 3 = 2 THEN Blank ELSE Backspace
    BY GlyphFacts DEF ClearLine
  <1>3. ASSUME NEW k \in Nat
        PROVE  ClearLine(k + 1) =
                 Append(Append(Append(ClearLine(k), Backspace), Blank), Backspace)
    <2> DEFINE a == ClearLine(k)
               b == ClearLine(k + 1)
               e == Append(Append(Append(a, Backspace), Blank), Backspace)
    <2>1. /\ a \in Seq(Glyph) /\ Len(a) = 3 * k
          /\ \A i \in 1 .. 3 * k : a[i] = IF i % 3 = 2 THEN Blank ELSE Backspace
      BY <1>2
    <2>2. /\ b \in Seq(Glyph) /\ Len(b) = 3 * k + 3
          /\ \A i \in 1 .. 3 * k + 3 : b[i] = IF i % 3 = 2 THEN Blank ELSE Backspace
      <3>1. k + 1 \in Nat /\ 3 * (k + 1) = 3 * k + 3
        OBVIOUS
      <3> QED BY <1>2, <3>1
    <2> HIDE DEF a, b
    <2>3. /\ e \in Seq(Glyph) /\ Len(e) = 3 * k + 3
          /\ \A i \in 1 .. 3 * k : e[i] = a[i]
          /\ e[3 * k + 1] = Backspace /\ e[3 * k + 2] = Blank /\ e[3 * k + 3] = Backspace
      BY <2>1, GlyphFacts
    <2> HIDE DEF e
    <2>4. /\ (3 * k + 1) % 3 = 1 /\ (3 * k + 2) % 3 = 2 /\ (3 * k + 3) % 3 = 0
      OBVIOUS
    <2>5. ASSUME NEW i \in 1 .. 3 * k + 3 PROVE b[i] = e[i]
      <3>1. i \in 1 .. 3 * k \/ i = 3 * k + 1 \/ i = 3 * k + 2 \/ i = 3 * k + 3
        OBVIOUS
      <3>2. CASE i \in 1 .. 3 * k
        BY <2>1, <2>2, <2>3, <3>2
      <3>3. CASE i = 3 * k + 1
        BY <2>2, <2>3, <2>4, <3>3
      <3>4. CASE i = 3 * k + 2
        BY <2>2, <2>3, <2>4, <3>4
      <3>5. CASE i = 3 * k + 3
        BY <2>2, <2>3, <2>4, <3>5
      <3> QED BY <3>1, <3>2, <3>3, <3>4, <3>5
    <2>6. b = e
      BY <2>2, <2>3, <2>5, SeqEqual
    <2> QED BY <2>6 DEF a, b, e
  <1> QED BY <1>1, <1>2, <1>3

\* clear_line takes pos characters off the paper.
LEMMA RubLine ==
  ASSUME NEW c, NEW p, Shows(c, p), NEW L \in Nat, L <= Bottom, At(c) >= L,
         NEW pos \in Nat, pos <= L
  PROVE  /\ Shows(PutAll(c, ClearLine(pos)), SubSeq(p, 1, Len(p) - pos))
         /\ Printed(p, ClearLine(pos)) = SubSeq(p, 1, Len(p) - pos)
         /\ At(PutAll(c, ClearLine(pos))) >= L - pos
         /\ pos <= Len(p)
  <1> DEFINE Good(k) ==
               /\ Shows(PutAll(c, ClearLine(k)), SubSeq(p, 1, Len(p) - k))
               /\ Printed(p, ClearLine(k)) = SubSeq(p, 1, Len(p) - k)
               /\ At(PutAll(c, ClearLine(k))) >= L - k
               /\ k <= Len(p)
             T == {k \in Nat : k <= L => Good(k)}
  <1>0. p \in Seq(Character) /\ Len(p) \in Nat /\ At(c) \in Nat
    BY CursorFields, AtNat
  <1>1. 0 \in T
    <2>1. PutAll(c, ClearLine(0)) = c /\ Printed(p, ClearLine(0)) = p
      BY ClearLineText, PutAllNothing, PrintedNothing
    <2>2. SubSeq(p, 1, Len(p) - 0) = p
      BY <1>0
    <2>3. At(c) >= L - 0 /\ 0 <= Len(p)
      BY <1>0
    <2> QED BY <2>1, <2>2, <2>3
  <1>2. ASSUME NEW k \in Nat, k \in T PROVE k + 1 \in T
    <2> SUFFICES ASSUME k + 1 <= L PROVE Good(k + 1)
      OBVIOUS
    <2>1. Good(k)
      BY <1>2
    <2> DEFINE a == ClearLine(k)
               d == PutAll(c, a)
               q == SubSeq(p, 1, Len(p) - k)
               e == Put(Put(Put(d, Backspace), Blank), Backspace)
               s == OnPaper(OnPaper(OnPaper(q, Backspace), Blank), Backspace)
    <2>2. /\ Shows(d, q) /\ Printed(p, a) = q /\ At(d) >= L - k /\ k <= Len(p)
      BY <2>1
    <2>3. a \in Seq(Glyph)
      BY ClearLineText
    <2>4. ClearLine(k + 1) = Append(Append(Append(a, Backspace), Blank), Backspace)
      BY ClearLineText
    <2> HIDE DEF a
    <2>5. PutAll(c, ClearLine(k + 1)) = e /\ Printed(p, ClearLine(k + 1)) = s
      <3> DEFINE a1 == Append(a, Backspace)
                 a2 == Append(a1, Blank)
      <3>1. a1 \in Seq(Glyph) /\ a2 \in Seq(Glyph)
        BY <2>3, GlyphFacts
      <3>2. PutAll(c, a1) = Put(d, Backspace) /\ Printed(p, a1) = OnPaper(q, Backspace)
        <4>1. /\ PutAll(c, a1) = Put(PutAll(c, a), Backspace)
              /\ Printed(p, a1) = OnPaper(Printed(p, a), Backspace)
          BY <2>3, GlyphFacts, PutAllAppend, PrintedAppend
        <4>2. Printed(p, a) = q
          BY <2>2
        <4> HIDE DEF a1, q
        <4> QED BY <4>1, <4>2
      <3> HIDE DEF a1
      <3>3. /\ PutAll(c, a2) = Put(PutAll(c, a1), Blank)
            /\ Printed(p, a2) = OnPaper(Printed(p, a1), Blank)
        BY <3>1, GlyphFacts, PutAllAppend, PrintedAppend
      <3> HIDE DEF a2
      <3>4. /\ PutAll(c, Append(a2, Backspace)) = Put(PutAll(c, a2), Backspace)
            /\ Printed(p, Append(a2, Backspace)) = OnPaper(Printed(p, a2), Backspace)
        BY <3>1, GlyphFacts, PutAllAppend, PrintedAppend
      <3>5. ClearLine(k + 1) = Append(a2, Backspace)
        BY <2>4 DEF a1, a2
      <3> QED BY <3>2, <3>3, <3>4, <3>5
    <2> PICK M \in Nat : M = L - k /\ M >= 1 /\ M <= Bottom
      BY BottomNat
    <2> HIDE DEF d, q
    <2>6. /\ Shows(e, SubSeq(q, 1, Len(q) - 1)) /\ At(e) >= M - 1
          /\ s = SubSeq(q, 1, Len(q) - 1) /\ Len(q) >= 1
      BY <2>2, RubOnce
    <2> HIDE DEF e, s
    <2>7. Len(q) = Len(p) - k /\ SubSeq(q, 1, Len(q) - 1) = SubSeq(p, 1, Len(p) - (k + 1))
      <3> DEFINE n == Len(p) - k
      <3>1. n \in Nat /\ n <= Len(p)
        BY <1>0, <2>2
      <3> HIDE DEF n
      <3>2. q = SubSeq(p, 1, n)
        BY DEF q, n
      <3>3. /\ q \in Seq(Character) /\ Len(q) = n /\ \A i \in 1 .. n : q[i] = p[i]
        BY <1>0, <3>1, <3>2
      <3> PICK m \in Nat : n = m + 1
        <4>1. n - 1 \in Nat /\ n = (n - 1) + 1
          BY <2>6, <3>1, <3>3
        <4> QED BY <4>1
      <3> DEFINE x == SubSeq(q, 1, m)
                 y == SubSeq(p, 1, m)
      <3>4. /\ x \in Seq(Character) /\ Len(x) = m /\ \A i \in 1 .. m : x[i] = q[i]
        BY <3>3
      <3>5. /\ y \in Seq(Character) /\ Len(y) = m /\ \A i \in 1 .. m : y[i] = p[i]
        BY <1>0, <3>1
      <3> HIDE DEF x, y
      <3>6. x = y
        BY <3>3, <3>4, <3>5, SeqEqual
      <3>7. Len(q) - 1 = m /\ Len(p) - (k + 1) = m
        BY <1>0, <3>3 DEF n
      <3> QED BY <3>3, <3>6, <3>7 DEF x, y, n
    <2>8. L - (k + 1) = M - 1 /\ k + 1 <= Len(p)
      BY <1>0, <2>6, <2>7
    <2> QED BY <2>5, <2>6, <2>7, <2>8
  <1> HIDE DEF T
  <1>3. pos \in T
    BY <1>1, <1>2, SetInduction
  <1> QED BY <1>3 DEF T

----------------------------------------------------------------------------
(* The console's other operations *)

\* A console, live or looking at the scrollback, whose live screen is a window on the
\* paper,
Lies(c, p) == ConsoleIn(c, HEIGHT - 1) /\ p \in Seq(Character) /\ IsWindow(c, p)

\* and whose hardware cursor is right when the live screen is shown.
Stands(c, p) == Lies(c, p) /\ (c.offset = 0 => c.cursor = <<c.row, c.column>>)

\* A console that shows a paper, with its hardware cursor in place, is one between keys.
LEMMA LiveStands ==
  ASSUME NEW c, NEW p, Shows(c, p), c.cursor = <<c.row, c.column>>
  PROVE  Stands(c, p)
  BY DEF Shows, ShowsTo, Stands, Lies

\* Two consoles with the same live screen, ring and cursor are windows on the same paper.
LEMMA SameWindow ==
  ASSUME NEW c, NEW d, NEW p, IsWindow(c, p), d.pos = c.pos, d.row = c.row,
         d.column = c.column, d.total = c.total, d.ring = c.ring, Live(d) = Live(c)
  PROVE  IsWindow(d, p)
  BY DEF IsWindow

\* vga_flush changes no more than the hardware cursor.
LEMMA FlushShows ==
  ASSUME NEW c, NEW p, Shows(c, p)
  PROVE  Stands(Flush(c), p) /\ Shows(Flush(c), p) /\ At(Flush(c)) = At(c)
  <1> DEFINE d == Flush(c)
  <1>1. /\ c \in ConsoleType(HEIGHT - 1) /\ c.row \in Nat /\ c.column \in Nat
        /\ c.offset = 0 /\ ConsoleIn(c, HEIGHT - 1) /\ p \in Seq(Character) /\ IsWindow(c, p)
    BY CursorFields DEF Shows, ShowsTo, ConsoleIn
  <1>2. <<c.row, c.column>> \in Nat \X Nat
    BY <1>1
  <1>3. d \in ConsoleType(HEIGHT - 1)
    BY <1>1, <1>2, Zenon DEF Flush, ConsoleType
  <1>4. /\ d.pos = c.pos /\ d.row = c.row /\ d.column = c.column /\ d.total = c.total
        /\ d.ring = c.ring /\ d.offset = c.offset /\ d.screen = c.screen
        /\ d.cursor = <<c.row, c.column>>
    BY <1>1 DEF Flush, ConsoleType
  <1> HIDE DEF d
  <1>5. Live(d) = Live(c)
    BY <1>1, <1>4 DEF Live
  <1>6. IsWindow(d, p)
    BY <1>1, <1>4, <1>5, SameWindow
  <1>7. ConsoleIn(d, HEIGHT - 1)
    <2>1. d.total <= d.pos /\ d.offset <= d.total /\ d.offset = 0
      BY <1>1, <1>4, ConsoleFields
    <2> QED BY <1>3, <2>1 DEF ConsoleIn
  <1>8. Shows(d, p) /\ At(d) = At(c)
    BY <1>1, <1>4, <1>6, <1>7 DEF Shows, ShowsTo, At
  <1>9. Stands(d, p)
    BY <1>4, <1>8, LiveStands
  <1> QED BY <1>8, <1>9 DEF d

\* vga_scrollback_reset brings the live screen back.
LEMMA ResetShows ==
  ASSUME NEW c, NEW p, Lies(c, p)
  PROVE  /\ Shows(Reset(c), p) /\ At(Reset(c)) = At(c) /\ Lies(Reset(c), p)
         /\ Stands(c, p) => Stands(Reset(c), p)
  <1>1. /\ c \in ConsoleType(HEIGHT - 1) /\ ConsoleIn(c, HEIGHT - 1)
        /\ p \in Seq(Character) /\ IsWindow(c, p)
    BY DEF Lies, ConsoleIn
  <1>2. CASE c.offset = 0
    <2>1. Reset(c) = c
      BY <1>2 DEF Reset
    <2>2. Shows(c, p)
      BY <1>1, <1>2 DEF Shows, ShowsTo
    <2> QED BY <2>1, <2>2
  <1>3. CASE c.offset # 0
    <2> DEFINE d == [c EXCEPT !.offset = 0, !.screen_saved = FALSE, !.screen = c.saved]
    <2>1. c.offset > 0 /\ c.offset \in Nat /\ c.total <= c.pos /\ c.total >= 0
      BY <1>1, <1>3, ConsoleFields
    <2>2. c.screen_saved
      BY <1>1, <2>1 DEF ConsoleIn
    <2>3. Reset(c) = Flush(d)
      BY <1>3, <2>2 DEF Reset
    <2>4. c.saved \in Screen
      BY <1>1, ConsoleFields
    <2>5. d \in ConsoleType(HEIGHT - 1)
      BY <1>1, <2>4, Zenon DEF ConsoleType
    <2>6. /\ d.pos = c.pos /\ d.row = c.row /\ d.column = c.column /\ d.total = c.total
          /\ d.ring = c.ring /\ d.offset = 0 /\ d.screen = c.saved
      BY <1>1 DEF ConsoleType
    <2> HIDE DEF d
    <2>7. Live(d) = Live(c)
      BY <2>1, <2>6 DEF Live
    <2>8. IsWindow(d, p)
      BY <1>1, <2>6, <2>7, SameWindow
    <2>9. ConsoleIn(d, HEIGHT - 1)
      BY <2>1, <2>5, <2>6 DEF ConsoleIn
    <2>10. Shows(d, p) /\ At(d) = At(c)
      BY <1>1, <2>6, <2>8, <2>9 DEF Shows, ShowsTo, At
    <2>11. Stands(Flush(d), p) /\ Shows(Flush(d), p) /\ At(Flush(d)) = At(d)
      BY <2>10, FlushShows
    <2> QED BY <2>3, <2>10, <2>11 DEF Stands
  <1> QED BY <1>2, <1>3

\* vga_scrollback_render, at an offset within the scrollback and with the live screen
\* saved.
LEMMA RenderStands ==
  ASSUME NEW c, NEW p, ConsoleIn(c, HEIGHT - 1), p \in Seq(Character), IsWindow(c, p),
         c.offset > 0
  PROVE  Stands(Render(c), p) /\ At(Render(c)) = At(c)
  <1> DEFINE start == c.pos - c.offset - HEIGHT
             sc == [y \in Rows |->
                      IF start + y \in 0 .. c.pos - 1
                      THEN c.ring[(start + y) % SCROLLBACK_LINES] ELSE BlankLine]
             d == [c EXCEPT !.hidden = TRUE, !.screen = sc]
  <1>1. /\ c \in ConsoleType(HEIGHT - 1) /\ c.ring \in Ring /\ c.pos \in Nat
        /\ c.total <= c.pos /\ c.offset <= c.total
    BY ConsoleFields DEF ConsoleIn
  <1>2. sc \in Screen
    <2>1. BlankLine \in Line
      BY CharFacts DEF BlankLine, Line
    <2>2. \A n \in Nat : c.ring[n % SCROLLBACK_LINES] \in Line
      <3> TAKE n \in Nat
      <3>1. n % SCROLLBACK_LINES \in 0 .. SCROLLBACK_LINES - 1
        BY Sizes
      <3> QED BY <1>1, <3>1 DEF Ring
    <2>3. \A y \in Rows : start + y \in 0 .. c.pos - 1 => start + y \in Nat
      OBVIOUS
    <2> HIDE DEF start
    <2> QED BY <2>1, <2>2, <2>3 DEF Screen
  <1>3. Render(c) = d
    BY DEF Render
  <1> HIDE DEF sc
  <1>4. d \in ConsoleType(HEIGHT - 1)
    BY <1>1, <1>2, Zenon DEF ConsoleType
  <1>5. /\ d.pos = c.pos /\ d.row = c.row /\ d.column = c.column /\ d.total = c.total
        /\ d.ring = c.ring /\ d.offset = c.offset /\ d.saved = c.saved
        /\ d.screen_saved = c.screen_saved
    BY <1>1 DEF ConsoleType
  <1> HIDE DEF d
  <1>6. Live(d) = Live(c)
    BY <1>5 DEF Live
  <1>7. IsWindow(d, p)
    BY <1>5, <1>6, SameWindow
  <1>8. c.screen_saved
    BY DEF ConsoleIn
  <1>9. ConsoleIn(d, HEIGHT - 1)
    BY <1>1, <1>4, <1>5, <1>8 DEF ConsoleIn
  <1>10. d.offset # 0
    BY <1>5
  <1> QED BY <1>3, <1>5, <1>7, <1>9, <1>10 DEF Stands, Lies, At

\* vga_scrollback_up.
LEMMA ScrollUpStands ==
  ASSUME NEW c, NEW p, Lies(c, p), NEW lines \in Nat, lines > 0
  PROVE  /\ At(ScrollUp(c, lines)) = At(c) /\ Lies(ScrollUp(c, lines), p)
         /\ Stands(c, p) => Stands(ScrollUp(c, lines), p)
  <1>1. /\ c \in ConsoleType(HEIGHT - 1) /\ ConsoleIn(c, HEIGHT - 1)
        /\ p \in Seq(Character) /\ IsWindow(c, p)
    BY DEF Lies, ConsoleIn
  <1>2. /\ c.offset \in Nat /\ c.total \in 0 .. SCROLLBACK_LINES
        /\ c.total <= c.pos /\ c.offset <= c.total /\ c.pos \in Nat
        /\ c.screen \in Screen /\ c.saved \in Screen
    BY <1>1, ConsoleFields
  <1>3. CASE c.total = 0
    BY <1>3 DEF ScrollUp
  <1>4. CASE c.total # 0
    <2> DEFINE first == c.offset = 0
               to == c.offset + lines
               o == IF to > c.total THEN c.total ELSE to
               sv == IF first THEN c.screen ELSE c.saved
               ss == IF first THEN TRUE ELSE c.screen_saved
               d == [c EXCEPT !.saved = sv, !.screen_saved = ss, !.offset = o]
    <2>1. o \in Nat /\ o > 0 /\ o <= c.total
      BY <1>2, <1>4, Sizes
    <2>2. sv \in Screen
      BY <1>2
    <2>3. ss
      <3>1. c.offset > 0 => c.screen_saved
        BY <1>1 DEF ConsoleIn
      <3> QED BY <1>2, <3>1
    <2>4. ScrollUp(c, lines) = Render(d)
      BY <1>1, <1>4 DEF ScrollUp, ConsoleType
    <2>5. sv = Live(c)
      BY <1>2 DEF Live
    <2>6. ss = TRUE
      <3>1. c.screen_saved \in BOOLEAN
        BY <1>1 DEF ConsoleType
      <3> QED BY <2>3, <3>1
    <2> HIDE DEF o, sv, ss
    <2>7. d \in ConsoleType(HEIGHT - 1)
      BY <1>1, <2>1, <2>2, <2>6, Zenon DEF ConsoleType
    <2>8. /\ d.pos = c.pos /\ d.row = c.row /\ d.column = c.column /\ d.total = c.total
          /\ d.ring = c.ring /\ d.offset = o /\ d.saved = sv /\ d.screen_saved = ss
      BY <1>1 DEF ConsoleType
    <2> HIDE DEF d
    <2>9. Live(d) = Live(c)
      BY <2>1, <2>5, <2>8 DEF Live
    <2>10. IsWindow(d, p)
      BY <1>1, <2>8, <2>9, SameWindow
    <2>11. ConsoleIn(d, HEIGHT - 1) /\ d.offset > 0
      BY <1>2, <2>1, <2>3, <2>7, <2>8 DEF ConsoleIn
    <2>12. At(d) = At(c)
      BY <2>8 DEF At
    <2> QED BY <1>1, <2>4, <2>10, <2>11, <2>12, RenderStands DEF Stands
  <1> QED BY <1>3, <1>4

\* vga_scrollback_down.
LEMMA ScrollDownStands ==
  ASSUME NEW c, NEW p, Lies(c, p), NEW lines \in Nat, lines > 0
  PROVE  /\ At(ScrollDown(c, lines)) = At(c) /\ Lies(ScrollDown(c, lines), p)
         /\ Stands(c, p) => Stands(ScrollDown(c, lines), p)
  <1>1. /\ c \in ConsoleType(HEIGHT - 1) /\ ConsoleIn(c, HEIGHT - 1)
        /\ p \in Seq(Character) /\ IsWindow(c, p)
    BY DEF Lies, ConsoleIn
  <1>2. /\ c.offset \in Nat /\ c.total \in 0 .. SCROLLBACK_LINES
        /\ c.total <= c.pos /\ c.offset <= c.total /\ c.pos \in Nat
    BY <1>1, ConsoleFields
  <1>3. CASE c.offset <= lines
    BY <1>3, ResetShows DEF ScrollDown
  <1>4. CASE ~(c.offset <= lines)
    <2> DEFINE o == c.offset - lines
               d == [c EXCEPT !.offset = o]
    <2>1. o \in Nat /\ o > 0 /\ o <= c.total
      BY <1>2, <1>4
    <2>2. ScrollDown(c, lines) = Render(d)
      BY <1>1, <1>4 DEF ScrollDown, ConsoleType
    <2> HIDE DEF o
    <2>3. d \in ConsoleType(HEIGHT - 1)
      BY <1>1, <2>1, Zenon DEF ConsoleType
    <2>4. /\ d.pos = c.pos /\ d.row = c.row /\ d.column = c.column /\ d.total = c.total
          /\ d.ring = c.ring /\ d.offset = o /\ d.saved = c.saved
          /\ d.screen_saved = c.screen_saved
      BY <1>1 DEF ConsoleType
    <2> HIDE DEF d
    <2>5. Live(d) = Live(c) /\ c.screen_saved
      BY <1>1, <1>2, <1>4, <2>1, <2>4 DEF Live, ConsoleIn
    <2>6. IsWindow(d, p)
      BY <1>1, <2>4, <2>5, SameWindow
    <2>7. ConsoleIn(d, HEIGHT - 1) /\ d.offset > 0
      BY <1>2, <2>1, <2>3, <2>4, <2>5 DEF ConsoleIn
    <2>8. At(d) = At(c)
      BY <2>4 DEF At
    <2> QED BY <1>1, <2>2, <2>6, <2>7, <2>8, RenderStands DEF Stands
  <1> QED BY <1>3, <1>4

\* An empty screen with the cursor in its first cell.
LEMMA EmptyShows ==
  ASSUME NEW c, c \in ConsoleType(HEIGHT - 1), c.screen = BlankScreen, c.row = 0,
         c.column = 0, c.pos = 0, c.total = 0, c.offset = 0
  PROVE  Shows(c, <<>>)
  <1>1. ConsoleIn(c, HEIGHT - 1)
    BY DEF ConsoleIn
  <1>2. \A y \in Nat : PaperLine(<<>>, y) = BlankLine
    <2> TAKE y \in Nat
    <2>1. \A x \in Columns : y * WIDTH + x \in Nat
      BY Sizes DEF Columns
    <2>2. \A i \in Nat : Cell(<<>>, i) = Blank
      BY DEF Cell
    <2> QED BY <2>1, <2>2 DEF PaperLine, BlankLine
  <1>3. IsWindow(c, <<>>)
    <2>1. \A y \in Rows : c.pos + y \in Nat
      BY DEF Rows
    <2>2. Live(c) = [y \in Rows |-> PaperLine(<<>>, c.pos + y)]
      BY <1>2, <2>1 DEF Live, BlankScreen
    <2>3. Len(<<>>) = (c.pos + c.row) * WIDTH + c.column
      BY Sizes
    <2> QED BY <2>2, <2>3 DEF IsWindow
  <1>4. <<>> \in Seq(Character)
    OBVIOUS
  <1> QED BY <1>1, <1>3, <1>4 DEF Shows, ShowsTo

LEMMA BlankScreenType ==
  BlankScreen \in Screen /\ BlankLine \in Line
  BY CharFacts DEF BlankScreen, BlankLine, Screen, Line

LEMMA OriginOnScreen ==
  0 \in 0 .. HEIGHT - 1 /\ 0 \in Columns /\ 0 \in Rows /\ 0 \in 0 .. SCROLLBACK_LINES
  BY Sizes DEF Columns, Rows

\* vga_init.
LEMMA PowerOnShows ==
  Shows(PowerOn, <<>>)
  <1>1. [i \in 0 .. SCROLLBACK_LINES - 1 |-> BlankLine] \in Ring
    BY BlankScreenType DEF Ring
  <1>2. <<0, 0>> \in Nat \X Nat
    OBVIOUS
  <1>3. PowerOn \in ConsoleType(HEIGHT - 1)
    BY <1>1, <1>2, BlankScreenType, OriginOnScreen DEF PowerOn, ConsoleType
  <1>4. /\ PowerOn.screen = BlankScreen /\ PowerOn.row = 0 /\ PowerOn.column = 0
        /\ PowerOn.pos = 0 /\ PowerOn.total = 0 /\ PowerOn.offset = 0
    BY DEF PowerOn
  <1> QED BY <1>3, <1>4, EmptyShows

\* vga_clear.
LEMMA ClearShows ==
  ASSUME NEW c, NEW p, Shows(c, p)
  PROVE  Shows(Clear(c), <<>>)
  <1> DEFINE d == [c EXCEPT !.screen = BlankScreen, !.row = 0, !.column = 0,
                            !.pos = 0, !.offset = 0, !.total = 0]
  <1>1. c \in ConsoleType(HEIGHT - 1)
    BY DEF Shows, ShowsTo, ConsoleIn
  <1>2. d \in ConsoleType(HEIGHT - 1)
    <2>1. 0 \in Nat
      OBVIOUS
    <2> QED BY <1>1, <2>1, BlankScreenType, OriginOnScreen, Zenon DEF ConsoleType
  <1>3. /\ d.screen = BlankScreen /\ d.row = 0 /\ d.column = 0
        /\ d.pos = 0 /\ d.total = 0 /\ d.offset = 0
    BY <1>1 DEF ConsoleType
  <1>4. Clear(c) = Flush(d)
    BY DEF Clear
  <1> HIDE DEF d
  <1>5. Shows(d, <<>>)
    BY <1>2, <1>3, EmptyShows
  <1> QED BY <1>4, <1>5, FlushShows

----------------------------------------------------------------------------
(* Words *)

\* The place Seek finds: from p on it is the first as wanted, or past the end.
LEMMA SeekFinds ==
  ASSUME NEW S, NEW line \in Seq(S), NEW p \in 1 .. Len(line) + 1, NEW space \in BOOLEAN
  PROVE  /\ Seek(line, p, space) \in p .. Len(line) + 1
         /\ Seek(line, p, space) = Len(line) + 1 \/ (line[Seek(line, p, space)] = Blank) = space
         /\ \A j \in p .. Seek(line, p, space) - 1 : (line[j] = Blank) # space
  <1> DEFINE N == Len(line)
             Is(i) == (line[i] = Blank) = space
             T == {i \in p .. N + 1 : i = N + 1 \/ Is(i)}
             Good(i) == (i = N + 1 \/ Is(i)) /\ \A j \in p .. i - 1 : (line[j] = Blank) # space
  <1>0. N \in Nat /\ p \in Nat /\ p <= N + 1
    OBVIOUS
  <1> HIDE DEF N, Is
  <1>1. T \subseteq Nat /\ N + 1 \in T
    BY <1>0
  <1>2. PICK n \in T : \A m \in T : n <= m
    BY <1>1, LeastNumber
  <1>3. n \in p .. N + 1 /\ (n = N + 1 \/ Is(n))
    OBVIOUS
  <1>4. ASSUME NEW j \in p .. n - 1 PROVE ~Is(j)
    BY <1>0, <1>2, <1>3
  <1>5. Good(n)
    BY <1>3, <1>4 DEF Is
  <1> HIDE DEF Good
  <1>6. \E i \in p .. N + 1 : Good(i)
    BY <1>3, <1>5
  <1>7. Seek(line, p, space) = CHOOSE i \in p .. N + 1 : Good(i)
    BY DEF Seek, Good, Is, N
  <1>8. Seek(line, p, space) \in p .. N + 1 /\ Good(Seek(line, p, space))
    BY <1>6, <1>7, Zenon
  <1> QED BY <1>8 DEF Good, Is, N

\* Where the word after p begins, and where it ends.
Begin(line, p) == Seek(line, p, FALSE)
End(line, p) == Seek(line, Begin(line, p), TRUE)

\* The next word from p on: it begins at the first place that is not blank and ends at
\* the next blank.
LEMMA WordPlaces ==
  ASSUME NEW S, NEW line \in Seq(S), NEW p \in 1 .. Len(line) + 1
  PROVE  /\ Begin(line, p) \in p .. Len(line) + 1
         /\ Begin(line, p) <= Len(line) => line[Begin(line, p)] # Blank
         /\ \A j \in p .. Begin(line, p) - 1 : line[j] = Blank
         /\ End(line, p) \in Begin(line, p) .. Len(line) + 1
         /\ End(line, p) <= Len(line) => line[End(line, p)] = Blank
         /\ \A j \in Begin(line, p) .. End(line, p) - 1 : line[j] # Blank
         /\ Begin(line, p) <= Len(line) => End(line, p) > Begin(line, p)
  <1> DEFINE b == Begin(line, p)
             e == End(line, p)
  <1>1. /\ b \in p .. Len(line) + 1
        /\ b = Len(line) + 1 \/ (line[b] = Blank) = FALSE
        /\ \A j \in p .. b - 1 : (line[j] = Blank) # FALSE
    BY SeekFinds DEF Begin
  <1>2. b \in 1 .. Len(line) + 1
    BY <1>1
  <1>3. /\ e \in b .. Len(line) + 1
        /\ e = Len(line) + 1 \/ (line[e] = Blank) = TRUE
        /\ \A j \in b .. e - 1 : (line[j] = Blank) # TRUE
    BY <1>2, SeekFinds DEF End
  <1> HIDE DEF b, e
  <1>4. b <= Len(line) => e # b
    BY <1>1, <1>2, <1>3
  <1>5. (b <= Len(line) => line[b] # Blank) /\ \A j \in p .. b - 1 : line[j] = Blank
    <2>1. (b = Len(line) + 1 \/ line[b] # Blank) /\ \A j \in p .. b - 1 : line[j] = Blank
      BY <1>1, Zenon
    <2>2. b <= Len(line) => b # Len(line) + 1
      BY <1>2
    <2> QED BY <2>1, <2>2
  <1>6. (e <= Len(line) => line[e] = Blank) /\ \A j \in b .. e - 1 : line[j] # Blank
    <2>1. (e = Len(line) + 1 \/ line[e] = Blank) /\ \A j \in b .. e - 1 : line[j] # Blank
      BY <1>3, Zenon
    <2>2. e <= Len(line) => e # Len(line) + 1
      BY <1>2, <1>3
    <2> QED BY <2>1, <2>2
  <1>7. b <= Len(line) => e > b
    BY <1>2, <1>3, <1>4
  <1> QED BY <1>1, <1>3, <1>5, <1>6, <1>7 DEF b, e

\* The words from place p on, given those from every later place on.
FromPlace(f, line, p) ==
  IF Begin(line, p) > Len(line) THEN <<>>
  ELSE <<SubSeq(line, Begin(line, p), End(line, p) - 1)>> \o
       (IF End(line, p) > Len(line) THEN <<>> ELSE f[End(line, p) + 1])

AreWordsFrom(f, line) == f = [p \in 1 .. Len(line) + 1 |-> FromPlace(f, line, p)]

WordsFrom(line) == CHOOSE f : AreWordsFrom(f, line)

Shorter(words) == IF Len(words) < MAX_ARGS THEN Len(words) ELSE MAX_ARGS

\* Words is the recursion of sh_parse_and_run, cut to MAX_ARGS words.
LEMMA WordsIsWordsFrom ==
  ASSUME NEW line
  PROVE  Words(line) = SubSeq(WordsFrom(line)[1], 1, Shorter(WordsFrom(line)[1]))
  BY DEF Words, WordsFrom, AreWordsFrom, FromPlace, Begin, End, Shorter

\* The recursion is defined at every place of every line: it always goes to the right.
LEMMA WordsFromExist ==
  ASSUME NEW S, NEW line \in Seq(S)
  PROVE  AreWordsFrom(WordsFrom(line), line)
  <1> DEFINE N == Len(line)
             Is(f, k) == \A p \in 1 .. N + 1 : p > N + 1 - k => f[p] = FromPlace(f, line, p)
             T == {k \in Nat : k <= N + 1 => \E f : Is(f, k)}
  <1>0. N \in Nat
    OBVIOUS
  <1>a. ASSUME NEW p \in 1 .. N + 1, Begin(line, p) <= N, End(line, p) <= N
        PROVE  End(line, p) + 1 \in 1 .. N + 1 /\ End(line, p) + 1 > p
    BY <1>a, WordPlaces, SMTT(30)
  <1>1. 0 \in T
    BY <1>0
  <1>2. ASSUME NEW k \in Nat, k \in T PROVE k + 1 \in T
    <2> SUFFICES ASSUME k + 1 <= N + 1 PROVE \E f : Is(f, k + 1)
      OBVIOUS
    <2>1. PICK f : Is(f, k)
      BY <1>0, <1>2
    <2> DEFINE q == N + 1 - k
               g == [p \in 1 .. N + 1 |-> IF p = q THEN FromPlace(f, line, q) ELSE f[p]]
    <2>2. q \in 1 .. N + 1
      BY <1>0
    <2>3. ASSUME NEW p \in 1 .. N + 1, p > N + 1 - (k + 1)
          PROVE  g[p] = FromPlace(g, line, p)
      <3>1. p >= q
        BY <1>0, <2>3
      <3>2. g[p] = FromPlace(f, line, p)
        BY <1>0, <2>1, <2>3, <3>1
      <3>3. FromPlace(g, line, p) = FromPlace(f, line, p)
        <4>1. CASE Begin(line, p) <= N /\ End(line, p) <= N
          <5>1. End(line, p) + 1 \in 1 .. N + 1 /\ End(line, p) + 1 # q
            BY <1>0, <1>a, <2>2, <3>1, <4>1
          <5>2. g[End(line, p) + 1] = f[End(line, p) + 1]
            BY <5>1
          <5> HIDE DEF g
          <5> QED BY <5>2 DEF FromPlace
        <4>2. CASE ~(Begin(line, p) <= N /\ End(line, p) <= N)
          <5>1. Begin(line, p) > N \/ End(line, p) > N
            <6>1. Begin(line, p) \in p .. N + 1 /\ End(line, p) \in Begin(line, p) .. N + 1
              BY WordPlaces
            <6> QED BY <1>0, <4>2, <6>1
          <5> HIDE DEF g
          <5> QED BY <5>1 DEF FromPlace
        <4> QED BY <4>1, <4>2
      <3> QED BY <3>2, <3>3
    <2> HIDE DEF g
    <2>4. Is(g, k + 1)
      BY <2>3
    <2> QED BY <2>4
  <1> HIDE DEF T
  <1>3. N + 1 \in T
    BY <1>0, <1>1, <1>2, SetInduction
  <1>4. PICK f : Is(f, N + 1)
    BY <1>0, <1>3 DEF T
  <1> DEFINE h == [p \in 1 .. N + 1 |-> f[p]]
  <1>5. ASSUME NEW p \in 1 .. N + 1 PROVE h[p] = FromPlace(h, line, p)
    <2>1. h[p] = FromPlace(f, line, p)
      BY <1>0, <1>4
    <2>2. FromPlace(h, line, p) = FromPlace(f, line, p)
      <3>1. CASE Begin(line, p) <= N /\ End(line, p) <= N
        <4>1. h[End(line, p) + 1] = f[End(line, p) + 1]
          BY <1>a, <3>1
        <4> HIDE DEF h
        <4> QED BY <4>1 DEF FromPlace
      <3>2. CASE ~(Begin(line, p) <= N /\ End(line, p) <= N)
        <4>1. Begin(line, p) > N \/ End(line, p) > N
          <5>1. Begin(line, p) \in p .. N + 1 /\ End(line, p) \in Begin(line, p) .. N + 1
            BY WordPlaces
          <5> QED BY <1>0, <3>2, <5>1
        <4> HIDE DEF h
        <4> QED BY <4>1 DEF FromPlace
      <3> QED BY <3>1, <3>2
    <2> QED BY <2>1, <2>2
  <1>6. h = [p \in 1 .. N + 1 |-> h[p]]
    OBVIOUS
  <1> HIDE DEF h
  <1>7. AreWordsFrom(h, line)
    BY <1>5, <1>6 DEF AreWordsFrom, N
  <1> QED BY <1>7, Zenon DEF WordsFrom

LEMMA WordsFromPlaces ==
  ASSUME NEW S, NEW line \in Seq(S), NEW p \in 1 .. Len(line) + 1
  PROVE  WordsFrom(line)[p] = FromPlace(WordsFrom(line), line, p)
  <1>1. AreWordsFrom(WordsFrom(line), line)
    BY WordsFromExist
  <1> QED BY <1>1, Zenon DEF AreWordsFrom

\* The words of a line are made of its characters.
LEMMA WordsFromType ==
  ASSUME NEW S, NEW line \in Seq(S)
  PROVE  \A p \in 1 .. Len(line) + 1 : WordsFrom(line)[p] \in Seq(Seq(S))
  <1> DEFINE N == Len(line)
             f == WordsFrom(line)
             T == {k \in Nat : \A p \in 1 .. N + 1 : p + k > N + 1 => f[p] \in Seq(Seq(S))}
  <1>0. N \in Nat /\ AreWordsFrom(f, line)
    BY WordsFromExist
  <1> HIDE DEF f
  <1>1. \A p \in 1 .. N + 1 : f[p] = FromPlace(f, line, p)
    BY <1>0, Zenon DEF AreWordsFrom, N
  <1>2. 0 \in T
    BY <1>0
  <1>3. ASSUME NEW k \in Nat, k \in T PROVE k + 1 \in T
    <2> SUFFICES ASSUME NEW p \in 1 .. N + 1, p + (k + 1) > N + 1
                 PROVE  f[p] \in Seq(Seq(S))
      OBVIOUS
    <2> DEFINE b == Begin(line, p)
               e == End(line, p)
               w == SubSeq(line, b, e - 1)
    <2>1. b \in p .. N + 1 /\ e \in b .. N + 1 /\ (b <= N => e > b)
      BY WordPlaces
    <2> HIDE DEF b, e
    <2>2. CASE b > N
      <3>1. f[p] = <<>>
        BY <1>1, <2>2 DEF FromPlace, b
      <3> QED BY <3>1
    <2>3. CASE ~(b > N)
      <3>1. w \in Seq(S)
        BY <1>0, <2>1, <2>3
      <3> HIDE DEF w
      <3>2. <<w>> \in Seq(Seq(S)) /\ <<>> \in Seq(Seq(S))
        BY <3>1
      <3>3. CASE e > N
        <4>1. f[p] = <<w>> \o <<>>
          BY <1>1, <2>3, <3>3 DEF FromPlace, b, e, w
        <4> QED BY <3>2, <4>1
      <3>4. CASE ~(e > N)
        <4>1. f[p] = <<w>> \o f[e + 1]
          BY <1>1, <2>3, <3>4 DEF FromPlace, b, e, w
        <4>2. e + 1 \in 1 .. N + 1 /\ (e + 1) + k > N + 1
          BY <1>0, <2>1, <2>3, <3>4
        <4>3. f[e + 1] \in Seq(Seq(S))
          BY <1>3, <4>2
        <4> QED BY <3>2, <4>1, <4>3
      <3> QED BY <3>3, <3>4
    <2> QED BY <2>2, <2>3
  <1> HIDE DEF T
  <1>4. N + 1 \in T
    BY <1>0, <1>2, <1>3, SetInduction
  <1>5. \A p \in 1 .. N + 1 : f[p] \in Seq(Seq(S))
    BY <1>0, <1>4 DEF T
  <1> QED BY <1>5 DEF f

LEMMA WordsType ==
  ASSUME NEW S, NEW line \in Seq(S)
  PROVE  Words(line) \in Seq(Seq(S))
  <1> DEFINE f == WordsFrom(line)
  <1>5. f[1] \in Seq(Seq(S))
    BY WordsFromType
  <1> HIDE DEF f
  <1>6. Shorter(f[1]) \in 0 .. Len(f[1])
    BY <1>5, TerminalAssumption DEF Shorter
  <1>7. Words(line) = SubSeq(f[1], 1, Shorter(f[1]))
    BY WordsIsWordsFrom DEF f
  <1> QED BY <1>5, <1>6, <1>7

(* The words as SplitsIntoWords describes them. *)

InWord(line) == {i \in 1 .. Len(line) : line[i] # Blank}
Starts(line) == {i \in InWord(line) : i - 1 \notin InWord(line)}
EndOf(line, i) ==
  CHOOSE e \in i .. Len(line) : i .. e \subseteq InWord(line) /\ e + 1 \notin InWord(line)

\* The starts from p on, and those of them up to i.
StartsFrom(line, p) == {i \in Starts(line) : p <= i}
StartsIn(line, p, i) == {j \in Starts(line) : p <= j /\ j <= i}

\* A line has finitely many words.
LEMMA StartsFinite ==
  ASSUME NEW S, NEW line \in Seq(S), NEW T, T \subseteq Starts(line)
  PROVE  IsFiniteSet(T) /\ Cardinality(T) \in Nat
  <1>1. T \subseteq 1 .. Len(line) /\ 1 \in Int /\ Len(line) \in Int
    BY DEF Starts, InWord
  <1>2. IsFiniteSet(1 .. Len(line))
    BY <1>1, FS_Interval
  <1>3. IsFiniteSet(T)
    BY <1>1, <1>2, FS_Subset
  <1> QED BY <1>3, FS_CardinalityType

\* From a place that no word reaches, Begin finds the next start and End the end of its
\* word; the other starts come later.
LEMMA NextStart ==
  ASSUME NEW S, NEW line \in Seq(S), NEW p \in 1 .. Len(line) + 1, p - 1 \notin InWord(line),
         NEW b, b = Begin(line, p), NEW e, e = End(line, p)
  PROVE  /\ b > Len(line) => StartsFrom(line, p) = {}
         /\ b <= Len(line) =>
              /\ b \in Starts(line) /\ e \notin InWord(line)
              /\ StartsFrom(line, p) = StartsFrom(line, e + 1) \cup {b}
              /\ EndOf(line, b) = e - 1
  <1> DEFINE N == Len(line)
  <1>0. N \in Nat /\ p \in Nat /\ p >= 1 /\ p <= N + 1
    OBVIOUS
  <1>1. /\ b \in p .. N + 1 /\ (b <= N => line[b] # Blank)
        /\ \A j \in p .. b - 1 : line[j] = Blank
        /\ e \in b .. N + 1 /\ (e <= N => line[e] = Blank)
        /\ \A j \in b .. e - 1 : line[j] # Blank
        /\ b <= N => e > b
    BY WordPlaces
  <1>2. \A j : j \in InWord(line) <=> j \in 1 .. N /\ line[j] # Blank
    BY DEF InWord
  <1> HIDE DEF N
  <1>3. \A j \in p .. b - 1 : j \notin InWord(line)
    BY <1>1, <1>2
  <1>4. ASSUME b > N PROVE StartsFrom(line, p) = {}
    <2>1. \A j \in Starts(line) : j \in 1 .. N /\ j \in InWord(line)
      BY <1>2 DEF Starts
    <2>2. \A j \in Starts(line) : ~(p <= j)
      BY <1>0, <1>1, <1>3, <1>4, <2>1
    <2> QED BY <2>2 DEF StartsFrom
  <1>5. ASSUME b <= N
        PROVE  /\ b \in Starts(line) /\ e \notin InWord(line)
               /\ StartsFrom(line, p) = StartsFrom(line, e + 1) \cup {b}
               /\ EndOf(line, b) = e - 1
    <2>1. b \in InWord(line)
      BY <1>0, <1>1, <1>2, <1>5
    <2>2. b - 1 \notin InWord(line)
      <3>1. CASE b = p
        BY <3>1
      <3>2. CASE b # p
        <4>1. b - 1 \in p .. b - 1
          BY <1>0, <1>1, <3>2
        <4> QED BY <1>3, <4>1
      <3> QED BY <3>1, <3>2
    <2>3. b \in Starts(line)
      BY <2>1, <2>2 DEF Starts
    <2>4. e \notin InWord(line)
      BY <1>0, <1>1, <1>2, SMTT(30)
    <2>5. \A j \in b .. e - 1 : j \in InWord(line)
      BY <1>0, <1>1, <1>2, SMTT(30)
    <2>6. ASSUME NEW j \in Starts(line), p <= j, j # b PROVE e + 1 <= j
      <3>1. j \in 1 .. N /\ j \in InWord(line) /\ j - 1 \notin InWord(line)
        BY <1>2 DEF Starts
      <3>2. ~(j \in p .. b - 1)
        BY <1>3, <3>1
      <3>3. j > b
        BY <1>0, <1>1, <2>6, <3>1, <3>2
      <3>4. ~(j - 1 \in b .. e - 1)
        BY <2>5, <3>1
      <3>5. j > e
        <4>1. j # e
          BY <2>4, <3>1
        <4> QED BY <1>0, <1>1, <3>1, <3>3, <3>4, <4>1
      <3> QED BY <1>0, <1>1, <3>1, <3>5
    <2>7. \A j \in Starts(line) : j \in 1 .. N
      BY <1>2 DEF Starts
    <2>8. StartsFrom(line, p) = StartsFrom(line, e + 1) \cup {b}
      <3>1. ASSUME NEW j, j \in StartsFrom(line, p)
            PROVE  j \in StartsFrom(line, e + 1) \cup {b}
        BY <2>6, <3>1 DEF StartsFrom
      <3>2. ASSUME NEW j, j \in StartsFrom(line, e + 1) \cup {b}
            PROVE  j \in StartsFrom(line, p)
        <4>1. CASE j = b
          BY <1>0, <1>1, <2>3, <4>1 DEF StartsFrom
        <4>2. CASE j \in StartsFrom(line, e + 1)
          <5>1. j \in Starts(line) /\ e + 1 <= j
            BY <4>2 DEF StartsFrom
          <5>2. p <= j
            BY <1>0, <1>1, <1>5, <2>7, <5>1
          <5> QED BY <5>1, <5>2 DEF StartsFrom
        <4> QED BY <3>2, <4>1, <4>2
      <3> QED BY <3>1, <3>2
    <2>9. EndOf(line, b) = e - 1
      <3> DEFINE IsEnd(x) == b .. x \subseteq InWord(line) /\ x + 1 \notin InWord(line)
      <3>0. b \in Nat /\ e \in Nat /\ e > b /\ e - 1 \in b .. N
        BY <1>0, <1>1, <1>5
      <3>1. IsEnd(e - 1)
        <4>1. e - 1 + 1 = e
          BY <3>0
        <4> QED BY <2>4, <2>5, <4>1
      <3>2. ASSUME NEW x \in b .. N, IsEnd(x) PROVE x = e - 1
        <4>1. x \in Nat /\ b <= x /\ b <= x + 1
          BY <3>0
        <4>2. ~(e \in b .. x)
          BY <2>4, <3>2
        <4>3. ~(x + 1 \in b .. e - 1)
          BY <2>5, <3>2
        <4> QED BY <3>0, <4>1, <4>2, <4>3
      <3> HIDE DEF IsEnd
      <3>3. EndOf(line, b) = CHOOSE x \in b .. N : IsEnd(x)
        BY DEF EndOf, IsEnd, N
      <3>4. EndOf(line, b) \in b .. N /\ IsEnd(EndOf(line, b))
        BY <3>0, <3>1, <3>3, Zenon
      <3> QED BY <3>2, <3>4
    <2> QED BY <2>3, <2>4, <2>8, <2>9
  <1> QED BY <1>4, <1>5 DEF N

\* The start b is the one that is in the counts from p on and not in those from q on.
OneMoreStart(line, p, q, b) ==
  /\ Cardinality(StartsFrom(line, p)) = Cardinality(StartsFrom(line, q)) + 1
  /\ Cardinality(StartsIn(line, p, b)) = 1
  /\ \A i \in StartsFrom(line, q) :
       Cardinality(StartsIn(line, p, i)) = Cardinality(StartsIn(line, q, i)) + 1

\* Counting the words from p on: one more than from q on.
LEMMA StartsCount ==
  ASSUME NEW S, NEW line \in Seq(S), NEW p \in Nat, NEW q \in Nat, NEW b \in Nat,
         b >= p, b < q, b \in Starts(line),
         StartsFrom(line, p) = StartsFrom(line, q) \cup {b}
  PROVE  OneMoreStart(line, p, q, b)
  <1>0. \A j \in Starts(line) : j \in Nat
    BY DEF Starts, InWord
  <1>1. b \notin StartsFrom(line, q)
    BY DEF StartsFrom
  <1>2. IsFiniteSet(StartsFrom(line, q)) /\ Cardinality(StartsFrom(line, q)) \in Nat
    BY StartsFinite DEF StartsFrom
  <1>3. Cardinality(StartsFrom(line, p)) = Cardinality(StartsFrom(line, q)) + 1
    BY <1>1, <1>2, FS_AddElement
  <1>4. \A j \in Starts(line) : p <= j <=> q <= j \/ j = b
    BY <1>0 DEF StartsFrom
  <1>5. StartsIn(line, p, b) = {b}
    <2>1. ASSUME NEW j \in Starts(line) PROVE (p <= j /\ j <= b) <=> j = b
      BY <1>0, <1>4
    <2> QED BY <2>1 DEF StartsIn
  <1>6. Cardinality(StartsIn(line, p, b)) = 1
    BY <1>5, FS_Singleton
  <1>7. ASSUME NEW i \in StartsFrom(line, q)
        PROVE  Cardinality(StartsIn(line, p, i)) = Cardinality(StartsIn(line, q, i)) + 1
    <2>1. i \in Nat /\ q <= i
      BY <1>0 DEF StartsFrom
    <2>2. \A j \in Starts(line) : (p <= j /\ j <= i) <=> (q <= j /\ j <= i) \/ j = b
      BY <1>0, <1>4, <2>1
    <2>3. StartsIn(line, p, i) = StartsIn(line, q, i) \cup {b}
      BY <2>2 DEF StartsIn
    <2>4. b \notin StartsIn(line, q, i)
      BY DEF StartsIn
    <2>5. IsFiniteSet(StartsIn(line, q, i))
      BY StartsFinite DEF StartsIn
    <2> QED BY <2>3, <2>4, <2>5, FS_AddElement
  <1> QED BY <1>3, <1>6, <1>7 DEF OneMoreStart

\* These are the words that start from p on, in their order.
SplitAs(words, line, p) ==
  /\ Len(words) = Cardinality(StartsFrom(line, p))
  /\ \A i \in StartsFrom(line, p) :
       /\ Cardinality(StartsIn(line, p, i)) \in 1 .. Len(words)
       /\ words[Cardinality(StartsIn(line, p, i))] = SubSeq(line, i, EndOf(line, i))
  /\ \A k \in 1 .. Len(words) :
       \E i \in StartsFrom(line, p) : Cardinality(StartsIn(line, p, i)) = k

\* A word put before the others.
LEMMA FirstOfSplit ==
  ASSUME NEW S, NEW w \in S, NEW r \in Seq(S)
  PROVE  /\ <<w>> \o r \in Seq(S) /\ Len(<<w>> \o r) = Len(r) + 1
         /\ (<<w>> \o r)[1] = w
         /\ \A k \in 1 .. Len(r) : (<<w>> \o r)[k + 1] = r[k]
  OBVIOUS

\* One turn of the loop of sh_parse_and_run: a word and then the split of the rest of
\* the line.
LEMMA SplitStep ==
  ASSUME NEW S, NEW line \in Seq(S), NEW p \in 1 .. Len(line) + 1, p - 1 \notin InWord(line),
         NEW b, b = Begin(line, p), NEW e, e = End(line, p), b <= Len(line),
         NEW r \in Seq(Seq(S)), SplitAs(r, line, e + 1)
  PROVE  SplitAs(<<SubSeq(line, b, e - 1)>> \o r, line, p)
  <1> DEFINE N == Len(line)
             w == SubSeq(line, b, e - 1)
             v == <<w>> \o r
             q == e + 1
  <1>0. N \in Nat /\ p \in Nat /\ p >= 1 /\ p <= N + 1 /\ Len(r) \in Nat
    OBVIOUS
  <1>1. b \in p .. N + 1 /\ e \in b .. N + 1 /\ e > b
    BY WordPlaces
  <1>2. /\ b \in Starts(line) /\ StartsFrom(line, p) = StartsFrom(line, e + 1) \cup {b}
        /\ EndOf(line, b) = e - 1
    BY NextStart
  <1>3. b \in Nat /\ q \in Nat /\ b >= p /\ b < q
    BY <1>0, <1>1
  <1>4. w \in Seq(S)
    BY <1>0, <1>1
  <1> HIDE DEF w, N, q
  <1>5. /\ Len(v) = Len(r) + 1 /\ v[1] = w /\ \A k \in 1 .. Len(r) : v[k + 1] = r[k]
    BY <1>4, FirstOfSplit
  <1> HIDE DEF v
  <1>6. /\ Cardinality(StartsFrom(line, p)) = Cardinality(StartsFrom(line, q)) + 1
        /\ Cardinality(StartsIn(line, p, b)) = 1
        /\ \A i \in StartsFrom(line, q) :
             Cardinality(StartsIn(line, p, i)) = Cardinality(StartsIn(line, q, i)) + 1
    <2>1. StartsFrom(line, p) = StartsFrom(line, q) \cup {b}
      BY <1>2 DEF q
    <2>2. OneMoreStart(line, p, q, b)
      BY <1>0, <1>2, <1>3, <2>1, StartsCount
    <2> QED BY <2>2 DEF OneMoreStart
  <1>7. /\ Len(r) = Cardinality(StartsFrom(line, q))
        /\ \A i \in StartsFrom(line, q) :
             /\ Cardinality(StartsIn(line, q, i)) \in 1 .. Len(r)
             /\ r[Cardinality(StartsIn(line, q, i))] = SubSeq(line, i, EndOf(line, i))
        /\ \A k \in 1 .. Len(r) :
             \E i \in StartsFrom(line, q) : Cardinality(StartsIn(line, q, i)) = k
    BY DEF SplitAs, q
  <1>8. \A i : i \in StartsFrom(line, p) <=> i \in StartsFrom(line, q) \/ i = b
    BY <1>2 DEF q
  <1>9. Len(v) = Cardinality(StartsFrom(line, p))
    BY <1>5, <1>6, <1>7
  <1>10. ASSUME NEW i \in StartsFrom(line, p)
         PROVE  /\ Cardinality(StartsIn(line, p, i)) \in 1 .. Len(v)
                /\ v[Cardinality(StartsIn(line, p, i))] = SubSeq(line, i, EndOf(line, i))
    <2>1. CASE i = b
      BY <1>0, <1>2, <1>5, <1>6, <2>1 DEF w
    <2>2. CASE i \in StartsFrom(line, q)
      <3> DEFINE n == Cardinality(StartsIn(line, q, i))
      <3>1. n \in 1 .. Len(r) /\ r[n] = SubSeq(line, i, EndOf(line, i))
        BY <1>7, <2>2
      <3>2. Cardinality(StartsIn(line, p, i)) = n + 1
        BY <1>6, <2>2
      <3> HIDE DEF n
      <3>3. n + 1 \in 1 .. Len(v) /\ v[n + 1] = r[n]
        <4>1. v[n + 1] = r[n]
          BY <1>5, <3>1, Zenon
        <4>2. Len(v) = Len(r) + 1 /\ Len(r) \in Nat /\ n \in 1 .. Len(r)
          BY <1>0, <1>5, <3>1, Zenon
        <4>3. n + 1 \in 1 .. Len(v)
          BY <4>2
        <4> QED BY <4>1, <4>3
      <3> QED BY <3>1, <3>2, <3>3
    <2> QED BY <1>8, <2>1, <2>2
  <1>11. ASSUME NEW k \in 1 .. Len(v)
         PROVE  \E i \in StartsFrom(line, p) : Cardinality(StartsIn(line, p, i)) = k
    <2>1. CASE k = 1
      BY <1>6, <1>8, <2>1
    <2>2. CASE k # 1
      <3>1. k - 1 \in 1 .. Len(r) /\ (k - 1) + 1 = k
        BY <1>0, <1>5, <2>2
      <3>2. PICK i \in StartsFrom(line, q) : Cardinality(StartsIn(line, q, i)) = k - 1
        BY <1>7, <3>1
      <3>3. Cardinality(StartsIn(line, p, i)) = k
        BY <1>6, <3>1, <3>2
      <3> QED BY <1>8, <3>3
    <2> QED BY <2>1, <2>2
  <1>12. SplitAs(v, line, p)
    BY <1>9, <1>10, <1>11 DEF SplitAs
  <1> QED BY <1>12 DEF v, w

\* A rest of the line without words.
LEMMA NothingSplit ==
  ASSUME NEW line, NEW p, StartsFrom(line, p) = {}
  PROVE  SplitAs(<<>>, line, p)
  <1>1. Cardinality({}) = 0
    BY FS_EmptySet
  <1> QED BY <1>1 DEF SplitAs

\* The recursion finds every word of the line in its order.
LEMMA WordsSplit ==
  ASSUME NEW S, NEW line \in Seq(S)
  PROVE  SplitAs(WordsFrom(line)[1], line, 1)
  <1> DEFINE N == Len(line)
             f == WordsFrom(line)
             T == {k \in Nat : \A p \in 1 .. N + 1 :
                     p + k > N + 1 /\ p - 1 \notin InWord(line) => SplitAs(f[p], line, p)}
  <1>0. N \in Nat
    OBVIOUS
  <1>1. \A p \in 1 .. N + 1 : f[p] = FromPlace(f, line, p) /\ f[p] \in Seq(Seq(S))
    BY WordsFromPlaces, WordsFromType
  <1> HIDE DEF f
  <1>2. 0 \in T
    BY <1>0
  <1>3. ASSUME NEW k \in Nat, k \in T PROVE k + 1 \in T
    <2> SUFFICES ASSUME NEW p \in 1 .. N + 1, p + (k + 1) > N + 1, p - 1 \notin InWord(line)
                 PROVE  SplitAs(f[p], line, p)
      OBVIOUS
    <2> DEFINE b == Begin(line, p)
               e == End(line, p)
               w == SubSeq(line, b, e - 1)
               r == IF e > N THEN <<>> ELSE f[e + 1]
    <2>1. b \in p .. N + 1 /\ e \in b .. N + 1 /\ (b <= N => e > b)
      BY WordPlaces
    <2>2. CASE b > N
      <3>1. f[p] = <<>>
        BY <1>1, <2>2 DEF FromPlace
      <3>2. StartsFrom(line, p) = {}
        BY <2>2, NextStart
      <3> QED BY <3>1, <3>2, NothingSplit
    <2>3. CASE ~(b > N)
      <3>0. b <= N
        BY <1>0, <2>1, <2>3
      <3>1. f[p] = <<w>> \o r
        BY <1>1, <2>3 DEF FromPlace
      <3>2. e \notin InWord(line)
        BY <3>0, NextStart
      <3> HIDE DEF b, e
      <3>3. r \in Seq(Seq(S)) /\ SplitAs(r, line, e + 1)
        <4>1. CASE e > N
          <5>1. e + 1 > N + 1 /\ \A j \in Starts(line) : j \in 1 .. N
            BY <1>0, <2>1, <4>1 DEF Starts, InWord
          <5>2. StartsFrom(line, e + 1) = {}
            BY <1>0, <2>1, <5>1 DEF StartsFrom
          <5>3. r = <<>>
            BY <4>1
          <5>4. <<>> \in Seq(Seq(S))
            OBVIOUS
          <5> QED BY <5>2, <5>3, <5>4, NothingSplit
        <4>2. CASE ~(e > N)
          <5>1. e + 1 \in 1 .. N + 1 /\ (e + 1) + k > N + 1 /\ (e + 1) - 1 = e
            BY <1>0, <2>1, <3>0, <4>2
          <5>2. SplitAs(f[e + 1], line, e + 1)
            BY <1>3, <3>2, <5>1
          <5> QED BY <1>1, <4>2, <5>1, <5>2
        <4> QED BY <4>1, <4>2
      <3> HIDE DEF r
      <3>4. SplitAs(<<SubSeq(line, b, e - 1)>> \o r, line, p)
        BY <3>0, <3>3, SplitStep DEF b, e
      <3> QED BY <3>1, <3>4
    <2> QED BY <2>2, <2>3
  <1> HIDE DEF T
  <1>4. N + 1 \in T
    BY <1>0, <1>2, <1>3, SetInduction
  <1>5. 1 \in 1 .. N + 1 /\ 1 + (N + 1) > N + 1 /\ 1 - 1 \notin InWord(line)
    BY <1>0 DEF InWord
  <1>6. SplitAs(f[1], line, 1)
    BY <1>4, <1>5 DEF T
  <1> QED BY <1>6 DEF f

\* The k-th start.
KthStart(line, k) ==
  CHOOSE i \in Starts(line) : Cardinality({j \in Starts(line) : j <= i}) = k

\* Words gives the maximal runs of characters that are not blank, in their order.
LEMMA SplitWords ==
  ASSUME NEW S, NEW line \in Seq(S)
  PROVE  Words(line) = [k \in 1 .. Min({MAX_ARGS, Cardinality(Starts(line))}) |->
                          SubSeq(line, KthStart(line, k), EndOf(line, KthStart(line, k)))]
  <1> DEFINE N == Len(line)
             f == WordsFrom(line)[1]
             C == Cardinality(Starts(line))
             M == Min({MAX_ARGS, C})
             word(k) == SubSeq(line, KthStart(line, k), EndOf(line, KthStart(line, k)))
  <1>0. f \in Seq(Seq(S)) /\ Len(f) \in Nat
    BY WordsFromType
  <1>1. SplitAs(f, line, 1)
    BY WordsSplit
  <1> HIDE DEF f
  <1>2. \A j \in Starts(line) : 1 <= j /\ j \in Nat
    BY DEF Starts, InWord
  <1>3. StartsFrom(line, 1) = Starts(line)
    BY <1>2 DEF StartsFrom
  <1>4. \A i : StartsIn(line, 1, i) = {j \in Starts(line) : j <= i}
    BY <1>2 DEF StartsIn
  <1>5. Len(f) = C
    BY <1>1, <1>3 DEF SplitAs
  <1>6. ASSUME NEW k \in 1 .. C PROVE f[k] = word(k)
    <2> DEFINE Is(i) == Cardinality({j \in Starts(line) : j <= i}) = k
    <2>1. \E i \in Starts(line) : Is(i)
      BY <1>1, <1>3, <1>4, <1>5 DEF SplitAs
    <2> HIDE DEF Is
    <2>2. KthStart(line, k) = CHOOSE i \in Starts(line) : Is(i)
      BY DEF KthStart, Is
    <2>3. KthStart(line, k) \in Starts(line) /\ Is(KthStart(line, k))
      BY <2>1, <2>2, Zenon
    <2> DEFINE i == KthStart(line, k)
    <2> HIDE DEF i
    <2>4. i \in StartsFrom(line, 1) /\ Cardinality(StartsIn(line, 1, i)) = k
      BY <1>3, <1>4, <2>3 DEF Is, i
    <2>5. f[k] = SubSeq(line, i, EndOf(line, i))
      BY <1>1, <2>4 DEF SplitAs
    <2> QED BY <2>5 DEF i
  <1> HIDE DEF word
  <1>7. M = Shorter(f)
    <2>1. MAX_ARGS \in Nat /\ C \in Nat /\ C = Len(f)
      BY <1>0, <1>5, TerminalAssumption
    <2> HIDE DEF C
    <2> DEFINE Z == {MAX_ARGS, C}
               s == Shorter(f)
               Least(x) == \A y \in Z : x <= y
    <2>2. s \in Z /\ Least(s) /\ \A x \in Z : Least(x) => x = s
      BY <2>1 DEF Shorter
    <2>3. M = CHOOSE x \in Z : Least(x)
      BY DEF Min
    <2> HIDE DEF Z, s, Least, M
    <2>4. M \in Z /\ Least(M)
      BY <2>2, <2>3, Zenon
    <2> QED BY <2>2, <2>4 DEF s
  <1> HIDE DEF M, C
  <1>8. M \in 0 .. C /\ C \in Nat
    BY <1>0, <1>5, <1>7, TerminalAssumption DEF Shorter
  <1>9. Words(line) = SubSeq(f, 1, M)
    BY <1>7, WordsIsWordsFrom DEF f
  <1>10. SubSeq(f, 1, M) = [k \in 1 .. M |-> f[k]]
    BY <1>0, <1>5, <1>8
  <1>11. \A k \in 1 .. M : f[k] = word(k)
    BY <1>6, <1>8
  <1>12. Words(line) = [k \in 1 .. M |-> word(k)]
    BY <1>9, <1>10, <1>11
  <1> QED BY <1>12 DEF M, C, word

----------------------------------------------------------------------------
(* What a key prints *)

\* printf and vga_flush of a text without control characters.
LEMMA EchoText ==
  ASSUME NEW c, NEW p, Lies(c, p), NEW t \in Seq(Character), NEW L \in Nat, At(c) >= L,
         L + Len(t) <= Bottom
  PROVE  /\ Stands(Echo(Reset(c), t), p \o t) /\ Printed(p, t) = p \o t
         /\ At(Echo(Reset(c), t)) >= L + Len(t)
  <1> DEFINE d == Reset(c)
             e == PutAll(d, t)
  <1>1. Shows(d, p) /\ At(d) = At(c)
    BY ResetShows
  <1>2. At(d) \in Nat /\ Bottom \in Nat /\ Len(t) \in Nat
    BY <1>1, AtNat, BottomNat
  <1> HIDE DEF d
  <1>3. /\ Shows(e, p \o t) /\ Printed(p, t) = p \o t
        /\ At(e) >= At(d) + Len(t) \/ At(e) >= Bottom
    BY <1>1, PutText
  <1>4. At(e) \in Nat
    BY <1>3, AtNat
  <1> HIDE DEF e
  <1>5. At(e) >= L + Len(t)
    BY <1>1, <1>2, <1>3, <1>4
  <1>6. Stands(Flush(e), p \o t) /\ At(Flush(e)) = At(e)
    BY <1>3, FlushShows
  <1> QED BY <1>3, <1>5, <1>6 DEF Echo, e, d

\* Printing t on a console that stands for paper p gives one that stands for q and has
\* M characters before its cursor.
Echoes(c, p, t, q, M) ==
  /\ Stands(Echo(Reset(c), t), q) /\ Printed(p, t) = q
  /\ At(Echo(Reset(c), t)) >= M

\* The line after the first L characters on the screen is replaced.
LEMMA EchoRecall ==
  ASSUME NEW c, NEW p, Lies(c, p), NEW line \in Seq(Character), NEW pos \in Nat, NEW L \in Nat,
         At(c) >= L + pos, L + pos <= Bottom, L + Len(line) <= Bottom
  PROVE  Echoes(c, p, ClearLine(pos) \o line, SubSeq(p, 1, Len(p) - pos) \o line,
                L + Len(line))
  <1> DEFINE d == Reset(c)
             r == PutAll(d, ClearLine(pos))
             e == PutAll(r, line)
             q == SubSeq(p, 1, Len(p) - pos)
             M == L + pos
  <1>1. Shows(d, p) /\ At(d) = At(c)
    BY ResetShows
  <1>2. At(d) \in Nat /\ Bottom \in Nat /\ Len(line) \in Nat /\ M \in Nat
    BY <1>1, AtNat, BottomNat
  <1>a. M <= Bottom /\ At(d) >= M /\ pos <= M
    BY <1>1, <1>2
  <1> HIDE DEF d, M
  <1>3. /\ Shows(r, q) /\ Printed(p, ClearLine(pos)) = q /\ At(r) >= M - pos /\ pos <= Len(p)
    BY <1>1, <1>2, <1>a, RubLine
  <1>4. At(r) \in Nat
    BY <1>3, AtNat
  <1> HIDE DEF r, q
  <1>5. /\ Shows(e, q \o line) /\ Printed(q, line) = q \o line
        /\ At(e) >= At(r) + Len(line) \/ At(e) >= Bottom
    BY <1>3, PutText
  <1>6. At(e) \in Nat
    BY <1>5, AtNat
  <1> HIDE DEF e
  <1>7. At(e) >= L + Len(line)
    <2>1. M - pos = L
      BY DEF M
    <2> QED BY <1>2, <1>3, <1>4, <1>5, <1>6, <2>1
  <1>8. Stands(Flush(e), q \o line) /\ At(Flush(e)) = At(e)
    BY <1>5, FlushShows
  <1>9. ClearLine(pos) \in Seq(Glyph) /\ line \in Seq(Glyph)
    <2>1. Character \subseteq Glyph
      BY GlyphFacts
    <2>2. line \in Seq(Glyph)
      BY <2>1
    <2> QED BY <2>2, ClearLineText
  <1>10. PutAll(d, ClearLine(pos) \o line) = e
    BY <1>9, PutAllConcat DEF e, r
  <1>11. Printed(p, ClearLine(pos) \o line) = q \o line
    BY <1>3, <1>5, <1>9, PrintedConcat
  <1>12. Echo(d, ClearLine(pos) \o line) = Flush(e)
    BY <1>10 DEF Echo
  <1> QED BY <1>7, <1>8, <1>11, <1>12 DEF q, d, Echoes

\* Lines of text are added to the paper, and the cursor does not come nearer to the start
\* of the screen than the last row is.
LEMMA PutLines ==
  ASSUME NEW c, NEW p, Shows(c, p), NEW t \in Seq(Character \cup {Newline})
  PROVE  /\ Shows(PutAll(c, t), Printed(p, t))
         /\ At(PutAll(c, t)) >= At(c) \/ At(PutAll(c, t)) >= Bottom
  <1> DEFINE S == Character \cup {Newline}
             Good(w) == /\ Shows(PutAll(c, w), Printed(p, w))
                        /\ At(PutAll(c, w)) >= At(c) \/ At(PutAll(c, w)) >= Bottom
             T == {n \in Nat : \A w \in Seq(S) : Len(w) = n => Good(w)}
  <1>0. At(c) \in Nat /\ Bottom \in Nat
    BY AtNat, BottomNat
  <1>1. 0 \in T
    <2>1. ASSUME NEW w \in Seq(S), Len(w) = 0 PROVE Good(w)
      <3>1. w = <<>>
        BY <2>1
      <3> QED BY <1>0, <3>1, PutAllNothing, PrintedNothing
    <2> QED BY <2>1
  <1>2. ASSUME NEW n \in Nat, n \in T PROVE n + 1 \in T
    <2> SUFFICES ASSUME NEW w \in Seq(S), Len(w) = n + 1 PROVE Good(w)
      OBVIOUS
    <2> HIDE DEF S
    <2>1. PICK u \in Seq(S), x \in S : w = Append(u, x) /\ Len(u) = n
      BY ShorterAndLast
    <2> DEFINE d == PutAll(c, u)
               q == Printed(p, u)
               e == Put(d, x)
    <2>2. Shows(d, q) /\ (At(d) >= At(c) \/ At(d) >= Bottom)
      BY <1>2, <2>1
    <2>3. PutAll(c, w) = e /\ Printed(p, w) = OnPaper(q, x)
      BY <2>1, PutAllAppend, PrintedAppend
    <2> HIDE DEF d, q
    <2>4. Shows(e, OnPaper(q, x)) /\ (At(e) >= At(d) \/ At(e) >= Bottom)
      <3>0. At(d) \in Nat
        BY <2>2, AtNat
      <3>1. CASE x \in Character
        <4>1. Shows(e, OnPaper(q, x)) /\ (At(e) = At(d) + 1 \/ At(e) = Bottom)
          BY <2>2, <3>1, PutChar DEF Bottom
        <4> QED BY <1>0, <3>0, <4>1
      <3>2. CASE x = Newline
        BY <2>2, <3>2, PutNewline DEF Bottom
      <3> QED BY <3>1, <3>2 DEF S
    <2>5. At(d) \in Nat /\ At(e) \in Nat
      BY <2>2, <2>4, AtNat
    <2> HIDE DEF e
    <2>6. At(e) >= At(c) \/ At(e) >= Bottom
      BY <1>0, <2>2, <2>4, <2>5
    <2> QED BY <2>3, <2>4, <2>6
  <1> HIDE DEF T
  <1>3. Len(t) \in T
    BY <1>1, <1>2, SetInduction
  <1> QED BY <1>3 DEF T

\* The prompt is printed after the output of a command.
LEMMA EchoPrompt ==
  ASSUME NEW c, NEW p, Shows(c, p), NEW t \in Seq(Character \cup {Newline})
  PROVE  /\ Stands(Echo(c, t \o PROMPT), Printed(p, t) \o PROMPT)
         /\ Printed(p, t \o PROMPT) = Printed(p, t) \o PROMPT
         /\ At(Echo(c, t \o PROMPT)) >= Len(PROMPT)
         /\ Printed(p, t) \in Seq(Character)
  <1> DEFINE S == Character \cup {Newline}
             r == PutAll(c, t)
             q == Printed(p, t)
             e == PutAll(r, PROMPT)
  <1>1. PROMPT \in Seq(Character) /\ PROMPT \in Seq(S) /\ Len(PROMPT) \in Nat
    BY CharFacts
  <1>2. Shows(r, q)
    BY PutLines
  <1>3. PutAll(c, t \o PROMPT) = e /\ Printed(p, t \o PROMPT) = Printed(q, PROMPT)
    BY <1>1, PutAllConcat, PrintedConcat
  <1> HIDE DEF r, q
  <1>4. /\ Shows(e, q \o PROMPT) /\ Printed(q, PROMPT) = q \o PROMPT
        /\ At(e) >= At(r) + Len(PROMPT) \/ At(e) >= Bottom
    BY <1>1, <1>2, PutText
  <1>5. At(r) \in Nat /\ At(e) \in Nat /\ q \in Seq(Character)
    BY <1>2, <1>4, AtNat, CursorFields
  <1>6. Len(PROMPT) <= Bottom
    BY <1>1, Sizes, BottomNat, TerminalAssumption DEF Bottom
  <1> HIDE DEF e
  <1>7. At(e) >= Len(PROMPT)
    BY <1>1, <1>4, <1>5, <1>6, BottomNat
  <1>8. Stands(Flush(e), q \o PROMPT) /\ At(Flush(e)) = At(e)
    BY <1>4, FlushShows
  <1> QED BY <1>3, <1>4, <1>5, <1>7, <1>8 DEF Echo, q

----------------------------------------------------------------------------
(* The line after its prompt *)

\* What sh_readline's buffer can hold.
LineBuf == {l \in Seq(LETTERS) : Len(l) <= MAX - 1}

\* The paper ends in the prompt and the line.
Prompted(p, l) == \E q \in Seq(Character) : p = (q \o PROMPT) \o l

\* The console shows a paper that does, with all of both on the screen.
OnScreen(c, p, l) == Stands(c, p) /\ Prompted(p, l) /\ At(c) >= Len(PROMPT) + Len(l)

\* The console shows the paper, and the cursor has room enough before it for both,
\* whatever a user task has printed after the prompt.
HasRoom(c, p, l) == Lies(c, p) /\ At(c) >= Len(PROMPT) + Len(l)

\* A line that can be in the buffer fits the screen with its prompt.
LEMMA LineFacts ==
  ASSUME NEW l \in LineBuf
  PROVE  /\ l \in Seq(LETTERS) /\ l \in Seq(Character) /\ Len(l) \in Nat /\ Len(l) <= MAX - 1
         /\ Len(PROMPT) \in Nat /\ MAX \in Nat /\ Len(PROMPT) + Len(l) <= Bottom
  <1>1. l \in Seq(LETTERS) /\ Len(l) \in Nat /\ Len(l) <= MAX - 1
    BY DEF LineBuf
  <1>2. LETTERS \subseteq Character /\ Len(PROMPT) \in Nat
    BY CharFacts
  <1>3. l \in Seq(Character)
    BY <1>1, <1>2
  <1>4. MAX \in Nat /\ Len(PROMPT) + MAX <= Bottom
    BY Sizes, TerminalAssumption DEF Bottom
  <1> QED BY <1>1, <1>2, <1>3, <1>4, BottomNat

LEMMA EmptyLine ==
  <<>> \in LineBuf
  BY TerminalAssumption DEF LineBuf

\* A key that prints nothing.
LEMMA NothingOnScreen ==
  ASSUME NEW c, NEW p, NEW l, OnScreen(c, p, l)
  PROVE  OnScreen(Reset(c), p, l)
  BY ResetShows DEF OnScreen, Stands

\* PgUp and PgDn.
LEMMA ScrolledOnScreen ==
  ASSUME NEW c, NEW p, NEW l, OnScreen(c, p, l)
  PROVE  OnScreen(ScrollUp(c, PAGE), p, l) /\ OnScreen(ScrollDown(c, PAGE), p, l)
  <1>1. PAGE \in Nat /\ PAGE > 0
    BY TerminalAssumption
  <1> QED BY <1>1, ScrollUpStands, ScrollDownStands DEF OnScreen, Stands

LEMMA ConcatOne ==
  ASSUME NEW S, NEW a \in Seq(S), NEW x \in S
  PROVE  a \o <<x>> = Append(a, x)
  OBVIOUS

\* The sequence without its last element.
LEMMA FrontAppend ==
  ASSUME NEW S, NEW a \in Seq(S), NEW x \in S
  PROVE  SubSeq(Append(a, x), 1, Len(Append(a, x)) - 1) = a
  <1> DEFINE b == Append(a, x)
             d == SubSeq(b, 1, Len(b) - 1)
  <1>1. /\ b \in Seq(S) /\ Len(b) = Len(a) + 1 /\ Len(a) \in Nat
        /\ \A i \in 1 .. Len(a) : b[i] = a[i]
    OBVIOUS
  <1> HIDE DEF b
  <1>2. d \in Seq(S) /\ Len(d) = Len(a) /\ \A i \in 1 .. Len(a) : d[i] = b[i]
    BY <1>1
  <1> HIDE DEF d
  <1>3. d = a
    BY <1>1, <1>2, SeqEqual
  <1> QED BY <1>3 DEF d, b

LEMMA FrontConcat ==
  ASSUME NEW S, NEW a \in Seq(S), NEW b \in Seq(S), Len(b) > 0
  PROVE  /\ SubSeq(a \o b, 1, Len(a \o b) - 1) = a \o SubSeq(b, 1, Len(b) - 1)
         /\ SubSeq(b, 1, Len(b) - 1) \in Seq(S) /\ Len(SubSeq(b, 1, Len(b) - 1)) = Len(b) - 1
  <1>1. Len(b) - 1 \in Nat /\ Len(b) = (Len(b) - 1) + 1
    OBVIOUS
  <1> DEFINE n == Len(b) - 1
  <1>n. n \in Nat /\ Len(b) = n + 1
    BY <1>1 DEF n
  <1> HIDE DEF n
  <1>m. \E u \in Seq(S) : \E x \in S : b = Append(u, x) /\ Len(u) = n
    BY <1>n, ShorterAndLast
  <1>2. PICK u \in Seq(S), x \in S : b = Append(u, x) /\ Len(u) = Len(b) - 1
    BY <1>m DEF n
  <1>3. SubSeq(b, 1, Len(b) - 1) = u
    BY <1>2, FrontAppend
  <1>4. a \o u \in Seq(S) /\ a \o b = Append(a \o u, x)
    BY <1>2, ConcatAppend
  <1>5. SubSeq(a \o b, 1, Len(a \o b) - 1) = a \o u
    BY <1>4, FrontAppend
  <1> QED BY <1>2, <1>3, <1>5

\* A character typed.
LEMMA TypedOnScreen ==
  ASSUME NEW c, NEW p, NEW l \in LineBuf, OnScreen(c, p, l), NEW x \in LETTERS,
         Len(l) < MAX - 1
  PROVE  /\ OnScreen(Echo(Reset(c), <<x>>), Printed(p, <<x>>), Append(l, x))
         /\ Append(l, x) \in LineBuf
  <1> DEFINE t == <<x>>
             m == Append(l, x)
             L == Len(PROMPT) + Len(l)
  <1>1. /\ l \in Seq(LETTERS) /\ l \in Seq(Character) /\ Len(l) \in Nat /\ L \in Nat /\ x \in Character
    BY LineFacts, CharFacts
  <1>2. m \in LineBuf /\ Len(m) = Len(l) + 1
    BY <1>1, TerminalAssumption DEF LineBuf
  <1>3. Len(PROMPT) + Len(m) <= Bottom /\ Len(PROMPT) \in Nat
    BY <1>2, LineFacts
  <1>4. t \in Seq(Character) /\ Len(t) = 1
    BY <1>1
  <1>5. Lies(c, p) /\ At(c) >= L
    BY DEF OnScreen, Stands
  <1>6. L + Len(t) = Len(PROMPT) + Len(m) /\ L + Len(t) <= Bottom
    BY <1>1, <1>2, <1>3, <1>4
  <1> HIDE DEF t, L
  <1>7. /\ Stands(Echo(Reset(c), t), p \o t) /\ Printed(p, t) = p \o t
        /\ At(Echo(Reset(c), t)) >= L + Len(t)
    BY <1>1, <1>4, <1>5, <1>6, EchoText
  <1>8. Prompted(p \o t, m)
    <2>1. PICK q \in Seq(Character) : p = (q \o PROMPT) \o l
      BY DEF OnScreen, Prompted
    <2> DEFINE r == q \o PROMPT
    <2>2. r \in Seq(Character)
      BY CharFacts
    <2> HIDE DEF r
    <2>3. (r \o l) \o t = r \o m
      <3>1. r \o l \in Seq(Character)
        BY <1>1, <2>2
      <3>2. (r \o l) \o t = Append(r \o l, x)
        BY <1>1, <3>1, ConcatOne DEF t
      <3>3. r \o m = Append(r \o l, x)
        <4>1. l \in Seq(Character) /\ x \in Character
          BY <1>1
        <4> QED BY <2>2, <4>1
      <3> QED BY <3>2, <3>3
    <2>4. p \o t = r \o m
      BY <2>1, <2>3 DEF r
    <2> QED BY <2>4 DEF Prompted, r
  <1> QED BY <1>2, <1>6, <1>7, <1>8 DEF OnScreen, t

\* A line recalled from the history.
LEMMA RecalledOnScreen ==
  ASSUME NEW c, NEW p, NEW l \in LineBuf, OnScreen(c, p, l), NEW m \in LineBuf
  PROVE  OnScreen(Echo(Reset(c), ClearLine(Len(l)) \o m),
                  Printed(p, ClearLine(Len(l)) \o m), m)
  <1> DEFINE L == Len(PROMPT)
             n == Len(l)
             k == SubSeq(p, 1, Len(p) - n)
             t == ClearLine(n) \o m
  <1>1. /\ l \in Seq(Character) /\ m \in Seq(Character) /\ n \in Nat /\ L \in Nat
        /\ L + n <= Bottom /\ L + Len(m) <= Bottom
    BY LineFacts
  <1>2. Lies(c, p) /\ At(c) >= L + n
    BY DEF OnScreen, Stands
  <1> HIDE DEF L, n
  <1>3. Echoes(c, p, t, k \o m, L + Len(m))
    BY <1>1, <1>2, EchoRecall, Zenon
  <1>4. Prompted(k \o m, m)
    <2>1. PICK q \in Seq(Character) : p = (q \o PROMPT) \o l
      BY DEF OnScreen, Prompted
    <2> DEFINE r == q \o PROMPT
    <2>2. r \in Seq(Character)
      BY CharFacts
    <2>a. p = r \o l
      BY <2>1
    <2> HIDE DEF r, n, k
    <2>3. Len(p) = Len(r) + n /\ Len(r) \in Nat
      BY <1>1, <2>2, <2>a DEF n
    <2>4. k = SubSeq(r \o l, 1, Len(r))
      BY <1>1, <2>3, <2>a DEF k
    <2>5. k = r
      BY <1>1, <2>2, <2>4
    <2> QED BY <2>5 DEF Prompted, r
  <1> QED BY <1>3, <1>4 DEF OnScreen, Echoes, L, n

\* Erasing one character is clear_line for one.
LEMMA RubIsClearLine ==
  Rub = ClearLine(1) \o <<>>
  <1> DEFINE r == Rub
             d == ClearLine(1)
  <1>1. r \in Seq(Glyph) /\ Len(r) = 3 /\ r[1] = Backspace /\ r[2] = Blank /\ r[3] = Backspace
    BY GlyphFacts DEF Rub
  <1>2. /\ d \in Seq(Glyph) /\ Len(d) = 3
        /\ \A i \in 1 .. 3 : d[i] = IF i % 3 = 2 THEN Blank ELSE Backspace
    BY GlyphFacts DEF ClearLine
  <1> HIDE DEF r, d
  <1>3. \A i \in 1 .. 3 : r[i] = d[i]
    BY <1>1, <1>2
  <1>4. r = d
    BY <1>1, <1>2, <1>3, SeqEqual
  <1>5. d \o <<>> = d
    BY <1>2
  <1> QED BY <1>4, <1>5 DEF r, d

\* A character erased.
LEMMA ErasedOnScreen ==
  ASSUME NEW c, NEW p, NEW l \in LineBuf, OnScreen(c, p, l), Len(l) > 0
  PROVE  /\ OnScreen(Echo(Reset(c), Rub), Printed(p, Rub), SubSeq(l, 1, Len(l) - 1))
         /\ SubSeq(l, 1, Len(l) - 1) \in LineBuf
  <1> DEFINE m == SubSeq(l, 1, Len(l) - 1)
             L == Len(PROMPT) + Len(m)
             k == SubSeq(p, 1, Len(p) - 1)
  <1>1. l \in Seq(LETTERS) /\ l \in Seq(Character) /\ Len(l) \in Nat /\ Len(l) <= MAX - 1 /\ MAX \in Nat
    BY LineFacts
  <1>2. m \in LineBuf /\ Len(m) = Len(l) - 1
    <2>1. m \in Seq(LETTERS) /\ Len(m) = Len(l) - 1
      BY <1>1, FrontConcat
    <2> HIDE DEF m
    <2> QED BY <1>1, <2>1 DEF LineBuf
  <1>3. Len(PROMPT) + Len(l) <= Bottom /\ Len(PROMPT) \in Nat
    BY LineFacts
  <1>4. Lies(c, p) /\ At(c) >= Len(PROMPT) + Len(l)
    BY DEF OnScreen, Stands
  <1>5. L \in Nat /\ At(c) >= L + 1 /\ L + 1 <= Bottom /\ L + Len(<<>>) <= Bottom /\ 1 \in Nat
    BY <1>1, <1>2, <1>3, <1>4, BottomNat
  <1>6. Rub = ClearLine(1) \o <<>>
    BY RubIsClearLine
  <1> HIDE DEF L
  <1>7. Echoes(c, p, Rub, k \o <<>>, L + Len(<<>>))
    <2>1. <<>> \in Seq(Character)
      OBVIOUS
    <2>2. Echoes(c, p, ClearLine(1) \o <<>>, k \o <<>>, L + Len(<<>>))
      BY <1>4, <1>5, <2>1, EchoRecall, Zenon
    <2> QED BY <1>6, <2>2
  <1>8. Prompted(k \o <<>>, m)
    <2>1. PICK q \in Seq(Character) : p = (q \o PROMPT) \o l
      BY DEF OnScreen, Prompted
    <2> DEFINE r == q \o PROMPT
    <2>2. r \in Seq(Character)
      BY CharFacts
    <2>a. p = r \o l
      BY <2>1
    <2> HIDE DEF r
    <2>3. SubSeq(r \o l, 1, Len(r \o l) - 1) = r \o m /\ m \in Seq(Character)
      BY <1>1, <2>2, FrontConcat, Zenon
    <2>b. k = r \o m
      BY <2>3, <2>a
    <2> HIDE DEF k, m
    <2>c. r \o m \in Seq(Character)
      BY <2>2, <2>3
    <2>4. k \o <<>> = k
      BY <2>b, <2>c
    <2> QED BY <2>b, <2>4 DEF Prompted, r
  <1>9. L + Len(<<>>) = Len(PROMPT) + Len(m)
    BY <1>5 DEF L
  <1> QED BY <1>2, <1>7, <1>8, <1>9 DEF OnScreen, Echoes

\* A line on the screen has room.
LEMMA OnScreenHasRoom ==
  ASSUME NEW c, NEW p, NEW l, OnScreen(c, p, l)
  PROVE  HasRoom(c, p, l)
  BY DEF OnScreen, HasRoom, Stands

\* The keys leave room, whatever they rub out: no key, PgUp and PgDn,
LEMMA NothingHasRoom ==
  ASSUME NEW c, NEW p, NEW l, HasRoom(c, p, l)
  PROVE  /\ HasRoom(Reset(c), p, l)
         /\ HasRoom(ScrollUp(c, PAGE), p, l) /\ HasRoom(ScrollDown(c, PAGE), p, l)
  <1>1. PAGE \in Nat /\ PAGE > 0
    BY TerminalAssumption
  <1>2. Lies(c, p)
    BY DEF HasRoom
  <1>3. /\ At(Reset(c)) = At(c) /\ Lies(Reset(c), p)
        /\ At(ScrollUp(c, PAGE)) = At(c) /\ Lies(ScrollUp(c, PAGE), p)
        /\ At(ScrollDown(c, PAGE)) = At(c) /\ Lies(ScrollDown(c, PAGE), p)
    BY <1>1, <1>2, ResetShows, ScrollUpStands, ScrollDownStands
  <1> QED BY <1>3 DEF HasRoom

\* a character typed,
LEMMA TypedHasRoom ==
  ASSUME NEW c, NEW p, NEW l \in LineBuf, HasRoom(c, p, l), NEW x \in LETTERS,
         Len(l) < MAX - 1
  PROVE  /\ HasRoom(Echo(Reset(c), <<x>>), Printed(p, <<x>>), Append(l, x))
         /\ Append(l, x) \in LineBuf
  <1> DEFINE t == <<x>>
             m == Append(l, x)
             L == Len(PROMPT) + Len(l)
  <1>1. /\ l \in Seq(LETTERS) /\ Len(l) \in Nat /\ L \in Nat /\ x \in Character
    BY LineFacts, CharFacts
  <1>2. m \in LineBuf /\ Len(m) = Len(l) + 1
    BY <1>1, TerminalAssumption DEF LineBuf
  <1>3. Len(PROMPT) + Len(m) <= Bottom /\ Len(PROMPT) \in Nat
    BY <1>2, LineFacts
  <1>4. t \in Seq(Character) /\ Len(t) = 1
    BY <1>1
  <1>5. Lies(c, p) /\ At(c) >= L
    BY DEF HasRoom
  <1>6. L + Len(t) = Len(PROMPT) + Len(m) /\ L + Len(t) <= Bottom
    BY <1>1, <1>2, <1>3, <1>4
  <1> HIDE DEF t, L
  <1>7. /\ Stands(Echo(Reset(c), t), p \o t) /\ Printed(p, t) = p \o t
        /\ At(Echo(Reset(c), t)) >= L + Len(t)
    BY <1>1, <1>4, <1>5, <1>6, EchoText
  <1> QED BY <1>2, <1>6, <1>7 DEF HasRoom, Stands, t

\* a line recalled,
LEMMA RecalledHasRoom ==
  ASSUME NEW c, NEW p, NEW l \in LineBuf, HasRoom(c, p, l), NEW m \in LineBuf
  PROVE  HasRoom(Echo(Reset(c), ClearLine(Len(l)) \o m),
                 Printed(p, ClearLine(Len(l)) \o m), m)
  <1> DEFINE L == Len(PROMPT)
             n == Len(l)
             k == SubSeq(p, 1, Len(p) - n)
             t == ClearLine(n) \o m
  <1>1. /\ l \in Seq(Character) /\ m \in Seq(Character) /\ n \in Nat /\ L \in Nat
        /\ L + n <= Bottom /\ L + Len(m) <= Bottom
    BY LineFacts
  <1>2. Lies(c, p) /\ At(c) >= L + n
    BY DEF HasRoom
  <1> HIDE DEF L, n
  <1>3. Echoes(c, p, t, k \o m, L + Len(m))
    BY <1>1, <1>2, EchoRecall, Zenon
  <1> QED BY <1>3 DEF HasRoom, Echoes, Stands, L, n

\* a character erased,
LEMMA ErasedHasRoom ==
  ASSUME NEW c, NEW p, NEW l \in LineBuf, HasRoom(c, p, l), Len(l) > 0
  PROVE  /\ HasRoom(Echo(Reset(c), Rub), Printed(p, Rub), SubSeq(l, 1, Len(l) - 1))
         /\ SubSeq(l, 1, Len(l) - 1) \in LineBuf
  <1> DEFINE m == SubSeq(l, 1, Len(l) - 1)
             L == Len(PROMPT) + Len(m)
             k == SubSeq(p, 1, Len(p) - 1)
  <1>1. l \in Seq(LETTERS) /\ Len(l) \in Nat /\ Len(l) <= MAX - 1 /\ MAX \in Nat
    BY LineFacts
  <1>2. m \in LineBuf /\ Len(m) = Len(l) - 1
    <2>1. m \in Seq(LETTERS) /\ Len(m) = Len(l) - 1
      BY <1>1, FrontConcat
    <2> HIDE DEF m
    <2> QED BY <1>1, <2>1 DEF LineBuf
  <1>3. Len(PROMPT) + Len(l) <= Bottom /\ Len(PROMPT) \in Nat
    BY LineFacts
  <1>4. Lies(c, p) /\ At(c) >= Len(PROMPT) + Len(l)
    BY DEF HasRoom
  <1> HIDE DEF m
  <1>5. L \in Nat /\ At(c) >= L + 1 /\ L + 1 <= Bottom /\ L + Len(<<>>) <= Bottom /\ 1 \in Nat
    BY <1>1, <1>2, <1>3, <1>4, BottomNat
  <1>6. Rub = ClearLine(1) \o <<>>
    BY RubIsClearLine
  <1> HIDE DEF L
  <1>7. Echoes(c, p, Rub, k \o <<>>, L + Len(<<>>))
    <2>1. <<>> \in Seq(Character)
      OBVIOUS
    <2>2. Echoes(c, p, ClearLine(1) \o <<>>, k \o <<>>, L + Len(<<>>))
      BY <1>4, <1>5, <2>1, EchoRecall, Zenon
    <2> QED BY <1>6, <2>2
  <1>8. L + Len(<<>>) = Len(PROMPT) + Len(m)
    BY <1>5 DEF L
  <1> QED BY <1>2, <1>7, <1>8 DEF HasRoom, Echoes, Stands, m

\* (a text is its first character and the rest)
LEMMA PutAllFirst ==
  ASSUME NEW S, NEW c, NEW x \in S, NEW u \in Seq(S)
  PROVE  PutAll(c, <<x>> \o u) = PutAll(Put(c, x), u)
  <1> DEFINE a == <<x>>
             b == <<>>
  <1>1. a \in Seq(S) /\ b \in Seq(S) /\ a = Append(b, x)
    OBVIOUS
  <1>2. PutAll(c, b) = c
    BY PutAllNothing
  <1> HIDE DEF a, b
  <1>3. PutAll(c, a \o u) = PutAll(PutAll(c, a), u)
    <2>1. \A v, w \in Seq(S) : PutAll(c, v \o w) = PutAll(PutAll(c, v), w)
      BY PutAllConcat
    <2> QED BY <1>1, <2>1
  <1>4. PutAll(c, Append(b, x)) = Put(PutAll(c, b), x)
    BY <1>1, PutAllAppend
  <1>5. PutAll(c, a \o u) = PutAll(Put(c, x), u)
    BY <1>1, <1>2, <1>3, <1>4
  <1> QED BY <1>5 DEF a

\* and the text of a user task, whose first character ends a look at the scrollback.
LEMMA WriteHasRoom ==
  ASSUME NEW c, NEW p, NEW l \in LineBuf, HasRoom(c, p, l),
         NEW t \in Seq(Character \cup {Newline}), t # <<>>
  PROVE  HasRoom(PutAll(c, t), Printed(p, t), l)
  <1> DEFINE S == Character \cup {Newline}
             x == Head(t)
             u == Tail(t)
             d == Reset(c)
  <1>1. x \in S /\ u \in Seq(S) /\ <<x>> \in Seq(S) /\ t = <<x>> \o u
    OBVIOUS
  <1>2. Shows(d, p) /\ At(d) = At(c) /\ Lies(c, p) /\ At(c) >= Len(PROMPT) + Len(l)
    BY ResetShows DEF HasRoom
  <1>3. Reset(d) = d
    BY <1>2, CursorFields DEF Reset
  <1>4. Put(c, x) = Put(d, x)
    BY <1>3 DEF Put
  <1> HIDE DEF S, x, u, d
  <1>5. PutAll(c, t) = PutAll(d, t)
    <2>1. PutAll(c, <<x>> \o u) = PutAll(Put(c, x), u)
      BY <1>1, PutAllFirst
    <2>2. PutAll(d, <<x>> \o u) = PutAll(Put(d, x), u)
      BY <1>1, PutAllFirst
    <2> QED BY <1>1, <1>4, <2>1, <2>2
  <1> DEFINE e == PutAll(d, t)
  <1>6. Shows(e, Printed(p, t)) /\ (At(e) >= At(d) \/ At(e) >= Bottom)
    BY <1>2, PutLines
  <1>7. Lies(e, Printed(p, t)) /\ At(e) \in Nat /\ At(d) \in Nat
    BY <1>2, <1>6, AtNat DEF Shows, ShowsTo, Lies
  <1> HIDE DEF e
  <1>8. Len(PROMPT) + Len(l) <= Bottom /\ Len(PROMPT) \in Nat /\ Len(l) \in Nat
    BY LineFacts
  <1>9. At(e) >= Len(PROMPT) + Len(l)
    BY <1>2, <1>6, <1>7, <1>8, BottomNat
  <1> QED BY <1>5, <1>7, <1>9 DEF HasRoom, e

\* After the output of a command the prompt is on the screen with an empty line.
LEMMA PromptOnScreen ==
  ASSUME NEW c, NEW p, Shows(c, p), NEW t \in Seq(Character \cup {Newline})
  PROVE  OnScreen(Echo(c, t \o PROMPT), Printed(p, t \o PROMPT), <<>>)
  <1> DEFINE q == Printed(p, t)
  <1>1. /\ Stands(Echo(c, t \o PROMPT), q \o PROMPT)
        /\ Printed(p, t \o PROMPT) = q \o PROMPT
        /\ At(Echo(c, t \o PROMPT)) >= Len(PROMPT)
        /\ q \in Seq(Character)
    BY EchoPrompt
  <1> HIDE DEF q
  <1>2. q \o PROMPT \in Seq(Character) /\ Len(PROMPT) \in Nat
    BY <1>1, CharFacts
  <1>3. q \o PROMPT = (q \o PROMPT) \o <<>>
    BY <1>2
  <1>4. Prompted(q \o PROMPT, <<>>)
    BY <1>1, <1>3 DEF Prompted
  <1>5. Len(PROMPT) + Len(<<>>) = Len(PROMPT)
    BY <1>2
  <1> QED BY <1>1, <1>4, <1>5 DEF OnScreen

LEMMA FirstPrompt ==
  ASSUME NEW c, Shows(c, <<>>)
  PROVE  OnScreen(Echo(c, PROMPT), PROMPT, <<>>)
  <1>1. PROMPT \in Seq(Character) /\ <<>> \in Seq(Character \cup {Newline})
    BY CharFacts
  <1>2. <<>> \o PROMPT = PROMPT
    BY <1>1
  <1>3. OnScreen(Echo(c, <<>> \o PROMPT), Printed(<<>>, <<>> \o PROMPT), <<>>)
    BY <1>1, PromptOnScreen
  <1>4. Printed(<<>>, <<>> \o PROMPT) = Printed(<<>>, <<>>) \o PROMPT
    BY <1>1, EchoPrompt
  <1>5. Printed(<<>>, <<>>) = <<>>
    BY PrintedNothing
  <1> QED BY <1>2, <1>3, <1>4, <1>5

\* The clear command.
LEMMA ClearedOnScreen ==
  ASSUME NEW c, NEW p, Lies(c, p)
  PROVE  OnScreen(Echo(Clear(Echo(Reset(c), <<Newline>>)), PROMPT), PROMPT, <<>>)
  <1> DEFINE d == PutAll(Reset(c), <<Newline>>)
             q == Printed(p, <<Newline>>)
  <1>1. <<Newline>> \in Seq(Character \cup {Newline})
    OBVIOUS
  <1>2. Shows(d, q)
    BY <1>1, ResetShows, PutLines
  <1> HIDE DEF d, q
  <1>3. Shows(Flush(d), q)
    BY <1>2, FlushShows
  <1>4. Shows(Clear(Flush(d)), <<>>)
    BY <1>3, ClearShows
  <1>5. Echo(Reset(c), <<Newline>>) = Flush(d)
    BY DEF Echo, d
  <1> QED BY <1>4, <1>5, FirstPrompt

\* Enter with any other line.
LEMMA EnteredOnScreen ==
  ASSUME NEW c, NEW p, Lies(c, p), NEW l \in LineBuf
  PROVE  LET words == Words(l)
             output == IF words = <<>> THEN <<>> ELSE words[1] \o <<Newline>>
             t == <<Newline>> \o output \o PROMPT
         IN  OnScreen(Echo(Reset(c), t), Printed(p, t), <<>>)
  <1> DEFINE S == Character \cup {Newline}
             words == Words(l)
             output == IF words = <<>> THEN <<>> ELSE words[1] \o <<Newline>>
             nl == <<Newline>>
  <1>1. words \in Seq(Seq(LETTERS))
    BY LineFacts, WordsType
  <1>2. nl \in Seq(S) /\ <<>> \in Seq(S)
    OBVIOUS
  <1>3. LETTERS \subseteq S
    BY CharFacts
  <1> HIDE DEF words, S, nl
  <1>4. output \in Seq(S)
    <2>1. CASE words = <<>>
      BY <1>2, <2>1
    <2>2. CASE words # <<>>
      <3>1. words[1] \in Seq(LETTERS)
        BY <1>1, <2>2
      <3>2. words[1] \in Seq(S)
        BY <1>3, <3>1
      <3>3. output = words[1] \o nl
        BY <2>2 DEF nl
      <3> QED BY <1>2, <3>2, <3>3
    <2> QED BY <2>1, <2>2
  <1> HIDE DEF output
  <1>5. nl \o output \in Seq(S)
    BY <1>2, <1>4
  <1>6. Shows(Reset(c), p)
    BY ResetShows
  <1>7. OnScreen(Echo(Reset(c), nl \o output \o PROMPT), Printed(p, nl \o output \o PROMPT), <<>>)
    BY <1>5, <1>6, PromptOnScreen DEF S
  <1> QED BY <1>7 DEF words, output, nl

----------------------------------------------------------------------------
(* The history *)

\* What history_add keeps of the lines added.
HistoryOf(h, a) ==
  /\ h \in Seq(LineBuf) /\ a \in Seq(LineBuf)
  /\ IF Len(a) <= HISTORY_SIZE THEN h = a
     ELSE /\ Len(h) = HISTORY_SIZE
          /\ \A i \in 1 .. Len(h) : \E j \in 1 .. Len(a) : h[i] = a[j]

\* history_add with the history as a parameter.
RememberedIn(h, line) ==
  LET idx == Len(h) % HISTORY_SIZE
  IN IF line = <<>> THEN h
     ELSE IF Len(h) > 0 /\ line = h[Len(h)] THEN h
     ELSE IF idx = Len(h) THEN Append(h, line)
     ELSE [h EXCEPT ![idx + 1] = line]

LEMMA AppendedLine ==
  ASSUME NEW S, NEW a \in Seq(S), NEW l \in S
  PROVE  /\ Append(a, l) \in Seq(S) /\ Len(Append(a, l)) = Len(a) + 1
         /\ Append(a, l)[Len(a) + 1] = l
         /\ \A i \in 1 .. Len(a) : Append(a, l)[i] = a[i]
  OBVIOUS

\* history_add keeps what the history is made of, before and after it is full.
LEMMA HistoryGoesOn ==
  ASSUME NEW h, NEW a, HistoryOf(h, a), NEW l \in LineBuf
  PROVE  HistoryOf(RememberedIn(h, l), AddLine(a, l))
  <1> DEFINE S == LineBuf
             g == RememberedIn(h, l)
             b == AddLine(a, l)
             N == HISTORY_SIZE
             idx == Len(h) % N
  <1>0. /\ h \in Seq(S) /\ a \in Seq(S) /\ l \in S /\ Len(h) \in Nat /\ Len(a) \in Nat
        /\ N \in Nat /\ N >= 1
    BY TerminalAssumption DEF HistoryOf
  <1>1. CASE l = <<>>
    BY <1>1 DEF RememberedIn, AddLine
  <1>2. CASE l # <<>>
    <2> HIDE DEF S, N
    <2>1. b = IF a # <<>> /\ a[Len(a)] = l THEN a ELSE Append(a, l)
      BY <1>2 DEF AddLine
    <2>2. g = IF Len(h) > 0 /\ l = h[Len(h)] THEN h
              ELSE IF idx = Len(h) THEN Append(h, l) ELSE [h EXCEPT ![idx + 1] = l]
      BY <1>2 DEF RememberedIn, N
    <2>3. a # <<>> <=> Len(a) > 0
      BY <1>0
    <2>4. CASE Len(a) < N
      <3>1. h = a
        BY <1>0, <2>4 DEF HistoryOf, N
      <3>2. idx = Len(h)
        BY <1>0, <2>4, <3>1
      <3> HIDE DEF g, b, idx
      <3>3. g = b
        BY <2>1, <2>2, <2>3, <3>1, <3>2
      <3>4. b \in Seq(S) /\ Len(b) <= N
        BY <1>0, <2>1, <2>4
      <3>5. HistoryOf(g, b)
        BY <3>3, <3>4 DEF HistoryOf, S, N
      <3> QED BY <3>5 DEF g, b
    <2>5. CASE ~(Len(a) < N)
      <3>1. Len(h) = N
        BY <1>0, <2>5 DEF HistoryOf, N
      <3>2. idx = 0
        BY <1>0, <3>1
      <3> HIDE DEF g, b, idx
      <3>3. \A i \in 1 .. N : \E j \in 1 .. Len(a) : h[i] = a[j]
        <4>1. CASE Len(a) <= N
          BY <1>0, <2>5, <3>1, <4>1 DEF HistoryOf, N
        <4>2. CASE ~(Len(a) <= N)
          BY <3>1, <4>2 DEF HistoryOf, N
        <4> QED BY <4>1, <4>2
      <3>4. /\ b \in Seq(S) /\ Len(b) \in Nat /\ Len(b) >= Len(a)
            /\ \A j \in 1 .. Len(a) : b[j] = a[j]
            /\ \E j \in 1 .. Len(b) : b[j] = l
        <4>1. CASE a # <<>> /\ a[Len(a)] = l
          <5>1. b = a
            BY <2>1, <4>1
          <5> QED BY <1>0, <2>3, <4>1, <5>1
        <4>2. CASE ~(a # <<>> /\ a[Len(a)] = l)
          <5>1. b = Append(a, l)
            BY <2>1, <4>2
          <5>2. /\ b \in Seq(S) /\ Len(b) = Len(a) + 1 /\ b[Len(a) + 1] = l
                /\ \A i \in 1 .. Len(a) : b[i] = a[i]
            BY <1>0, <5>1, AppendedLine
          <5> QED BY <1>0, <5>2
        <4> QED BY <4>1, <4>2
      <3>5. \A i \in 1 .. N : \E j \in 1 .. Len(b) : h[i] = b[j]
        BY <1>0, <3>3, <3>4
      <3>6. g = h \/ g = [h EXCEPT ![1] = l]
        BY <1>0, <2>2, <3>1, <3>2
      <3>7. /\ g \in Seq(S) /\ Len(g) = N
            /\ \A i \in 1 .. N : g[i] = h[i] \/ g[i] = l
        BY <1>0, <3>1, <3>6
      <3>8. \A i \in 1 .. N : \E j \in 1 .. Len(b) : g[i] = b[j]
        BY <3>4, <3>5, <3>7
      <3>9. CASE Len(b) > N
        <4>1. HistoryOf(g, b)
          BY <1>0, <3>4, <3>7, <3>8, <3>9 DEF HistoryOf, S, N
        <4> QED BY <4>1 DEF g, b
      <3>10. CASE ~(Len(b) > N)
        <4>1. Len(b) = Len(a) /\ Len(a) = N
          BY <1>0, <2>5, <3>4, <3>10
        <4>2. a # <<>> /\ a[Len(a)] = l /\ b = a
          BY <1>0, <2>1, <4>1
        <4>3. h = a
          BY <1>0, <4>1 DEF HistoryOf, N
        <4>4. g = h
          BY <1>0, <2>2, <4>1, <4>2, <4>3
        <4>5. HistoryOf(g, b)
          BY <4>2, <4>4
        <4> QED BY <4>5 DEF g, b
      <3> QED BY <3>9, <3>10
    <2> QED BY <2>4, <2>5
  <1> QED BY <1>1, <1>2

----------------------------------------------------------------------------
(* The invariant *)

\* The line editor's buffers and its place in the history.
Editing ==
  /\ buf \in LineBuf /\ temp \in LineBuf /\ entered \in Seq(LineBuf)
  /\ browse_pos \in 0 .. Len(history)

\* The line as last seen below the history is in the buffer, or saved.
DraftKept ==
  /\ browse_pos = Len(history) => buf = draft
  /\ browse_pos # Len(history) => temp = draft

\* The line has room on the screen; until a user task prints, what is on the screen and on
\* the paper after the prompt is what is in the buffer.
LineKept ==
  /\ written \in BOOLEAN /\ writes \in 0 .. MAX_WRITES
  /\ HasRoom(con, paper, buf)
  /\ ~written => OnScreen(con, paper, buf)

\* The history is made of the lines added.
TerminalIInv ==
  /\ Editing /\ DraftKept /\ LineKept
  /\ HistoryOf(history, Added)

\* The terminal starts in the inductive invariant, and every key keeps it.
LEMMA TerminalInit ==
  Init => TerminalIInv
  <1> SUFFICES ASSUME Init PROVE TerminalIInv
    OBVIOUS
  <1>1. Editing
    <2>1. <<>> \in Seq(LineBuf) /\ 0 \in 0 .. Len(<<>>)
      OBVIOUS
    <2> QED BY <2>1, EmptyLine DEF Init, Editing
  <1>2. DraftKept
    BY DEF Init, DraftKept
  <1>3. LineKept
    <2>1. OnScreen(con, paper, buf)
      BY PowerOnShows, FirstPrompt DEF Init
    <2>2. written = FALSE /\ writes \in 0 .. MAX_WRITES
      BY TerminalAssumption DEF Init
    <2> QED BY <2>1, <2>2, OnScreenHasRoom DEF LineKept
  <1>4. HistoryOf(history, Added)
    <2>1. Added = <<>> /\ history = <<>>
      BY AllAddedNothing DEF Init, Added
    <2>2. Len(<<>>) <= HISTORY_SIZE /\ <<>> \in Seq(LineBuf)
      BY TerminalAssumption
    <2> QED BY <2>1, <2>2 DEF HistoryOf
  <1> QED BY <1>1, <1>2, <1>3, <1>4 DEF TerminalIInv

LEMMA TypeKeeps ==
  ASSUME TerminalIInv, NEW x \in LETTERS, Type(x)
  PROVE  TerminalIInv'
  <1>0. /\ Editing /\ DraftKept /\ LineKept /\ HistoryOf(history, Added)
    BY DEF TerminalIInv
  <1>1. /\ browse_pos' = browse_pos /\ temp' = temp /\ history' = history
        /\ entered' = entered
        /\ draft' = IF browse_pos = Len(history) THEN buf' ELSE draft
    BY DEF Type, history_count
  <1>w. written' = written /\ writes' = writes
    BY DEF Type
  <1>2. buf' \in LineBuf /\ LineKept'
    <2>0. buf \in LineBuf
      BY <1>0 DEF Editing
    <2>1. CASE Len(buf) < MAX - 1
      <3>1. /\ buf' = Append(buf, x) /\ con' = Echo(Reset(con), <<x>>)
            /\ paper' = Printed(paper, <<x>>)
        BY <2>1 DEF Type, Show
      <3> QED BY <1>0, <1>w, <2>0, <2>1, <3>1, TypedOnScreen, TypedHasRoom DEF LineKept
    <2>2. CASE ~(Len(buf) < MAX - 1)
      <3>1. buf' = buf /\ con' = Reset(con) /\ paper' = paper
        BY <2>2 DEF Type, ShowNothing
      <3> QED BY <1>0, <1>w, <2>0, <3>1, NothingOnScreen, NothingHasRoom DEF LineKept
    <2> QED BY <2>1, <2>2
  <1>3. Editing'
    BY <1>0, <1>1, <1>2 DEF Editing
  <1>4. DraftKept'
    BY <1>0, <1>1 DEF DraftKept
  <1>5. HistoryOf(history, Added)'
    BY <1>0, <1>1 DEF Added
  <1> QED BY <1>2, <1>3, <1>4, <1>5 DEF TerminalIInv

LEMMA EraseKeeps ==
  ASSUME TerminalIInv, Erase
  PROVE  TerminalIInv'
  <1>0. /\ Editing /\ DraftKept /\ LineKept /\ HistoryOf(history, Added)
    BY DEF TerminalIInv
  <1>1. /\ browse_pos' = browse_pos /\ temp' = temp /\ history' = history
        /\ entered' = entered
        /\ draft' = IF browse_pos = Len(history) THEN buf' ELSE draft
    BY DEF Erase, history_count
  <1>w. written' = written /\ writes' = writes
    BY DEF Erase
  <1>2. buf' \in LineBuf /\ LineKept'
    <2>0. buf \in LineBuf
      BY <1>0 DEF Editing
    <2>1. CASE Len(buf) > 0
      <3>1. /\ buf' = SubSeq(buf, 1, Len(buf) - 1) /\ con' = Echo(Reset(con), Rub)
            /\ paper' = Printed(paper, Rub)
        BY <2>1 DEF Erase, Show
      <3> QED BY <1>0, <1>w, <2>0, <2>1, <3>1, ErasedOnScreen, ErasedHasRoom DEF LineKept
    <2>2. CASE ~(Len(buf) > 0)
      <3>1. buf' = buf /\ con' = Reset(con) /\ paper' = paper
        BY <2>2 DEF Erase, ShowNothing
      <3> QED BY <1>0, <1>w, <2>0, <3>1, NothingOnScreen, NothingHasRoom DEF LineKept
    <2> QED BY <2>1, <2>2
  <1>3. Editing'
    BY <1>0, <1>1, <1>2 DEF Editing
  <1>4. DraftKept'
    BY <1>0, <1>1 DEF DraftKept
  <1>5. HistoryOf(history, Added)'
    BY <1>0, <1>1 DEF Added
  <1> QED BY <1>2, <1>3, <1>4, <1>5 DEF TerminalIInv

\* A recalled line is on the screen; so is the old one when nothing is recalled.
LEMMA RecallKeeps ==
  ASSUME TerminalIInv, NEW m \in LineBuf, Recall(m), UNCHANGED <<written, writes>>
  PROVE  buf' = m /\ LineKept'
  <1>1. buf \in LineBuf /\ LineKept
    BY DEF TerminalIInv, Editing
  <1>2. /\ buf' = m /\ con' = Echo(Reset(con), ClearLine(Len(buf)) \o m)
        /\ paper' = Printed(paper, ClearLine(Len(buf)) \o m)
    BY DEF Recall, Show
  <1> QED BY <1>1, <1>2, RecalledOnScreen, RecalledHasRoom DEF LineKept

LEMMA NothingKeeps ==
  ASSUME TerminalIInv, ShowNothing, buf' = buf, UNCHANGED <<written, writes>>
  PROVE  LineKept'
  BY NothingOnScreen, NothingHasRoom DEF TerminalIInv, LineKept, ShowNothing

\* The ranges the invariant gives to the line and the history.
LEMMA HistoryFacts ==
  ASSUME TerminalIInv
  PROVE  /\ history \in Seq(LineBuf) /\ Len(history) \in Nat
         /\ browse_pos \in Nat /\ browse_pos <= Len(history)
         /\ buf \in LineBuf /\ temp \in LineBuf /\ entered \in Seq(LineBuf)
         /\ \A i \in 1 .. Len(history) : history[i] \in LineBuf
         /\ Len(history) <= HISTORY_SIZE
  <1>1. /\ history \in Seq(LineBuf) /\ Len(history) \in Nat
    BY DEF TerminalIInv, HistoryOf
  <1>2. Len(history) <= HISTORY_SIZE
    BY <1>1, TerminalAssumption DEF TerminalIInv, HistoryOf
  <1> QED BY <1>1, <1>2 DEF TerminalIInv, Editing

\* The Up key: the draft is saved exactly when the history is entered.
LEMMA UpKeeps ==
  ASSUME TerminalIInv, Up
  PROVE  TerminalIInv'
  <1>1. history' = history /\ draft' = draft /\ entered' = entered
    BY DEF Up
  <1>w. UNCHANGED <<written, writes>>
    BY DEF Up
  <1>2. HistoryOf(history, Added)'
    BY <1>1 DEF Added, TerminalIInv
  <1>3. CASE browse_pos > 0
    <2>1. /\ temp' = IF browse_pos = Len(history) THEN buf ELSE temp
          /\ browse_pos' = browse_pos - 1 /\ Recall(history[browse_pos])
      BY <1>3 DEF Up, history_count
    <2>2. history[browse_pos] \in LineBuf
      BY <1>3, HistoryFacts
    <2>3. buf' = history[browse_pos] /\ LineKept'
      BY <1>w, <2>1, <2>2, RecallKeeps
    <2>4. temp' \in LineBuf /\ browse_pos' \in 0 .. Len(history) /\ browse_pos' # Len(history)
      BY <1>3, <2>1, HistoryFacts
    <2>5. Editing'
      BY <1>1, <2>2, <2>3, <2>4, HistoryFacts DEF Editing
    <2>6. temp' = draft
      BY <2>1 DEF TerminalIInv, DraftKept
    <2>7. DraftKept'
      BY <1>1, <2>4, <2>6 DEF DraftKept
    <2> QED BY <1>2, <2>3, <2>5, <2>7 DEF TerminalIInv
  <1>4. CASE ~(browse_pos > 0)
    <2>1. temp' = temp /\ browse_pos' = browse_pos /\ buf' = buf /\ ShowNothing
      BY <1>4 DEF Up
    <2>2. Editing' /\ DraftKept'
      BY <1>1, <2>1 DEF TerminalIInv, Editing, DraftKept
    <2> QED BY <1>2, <1>w, <2>1, <2>2, NothingKeeps DEF TerminalIInv
  <1> QED BY <1>3, <1>4

\* The Down key: at the bottom the saved draft comes back.
LEMMA DownKeeps ==
  ASSUME TerminalIInv, Down
  PROVE  TerminalIInv' /\ (browse_pos # browse_pos' /\ browse_pos' = Len(history)
                             => buf' = draft)
  <1>1. history' = history /\ draft' = draft /\ entered' = entered /\ temp' = temp
    BY DEF Down
  <1>w. UNCHANGED <<written, writes>>
    BY DEF Down
  <1>2. HistoryOf(history, Added)'
    BY <1>1 DEF Added, TerminalIInv
  <1>3. CASE browse_pos < Len(history)
    <2> DEFINE m == IF browse_pos + 1 = Len(history) THEN temp ELSE history[browse_pos + 2]
    <2>1. browse_pos' = browse_pos + 1 /\ Recall(m)
      BY <1>3 DEF Down, history_count
    <2>2. m \in LineBuf
      BY <1>3, HistoryFacts
    <2>3. temp = draft
      BY <1>3, HistoryFacts DEF TerminalIInv, DraftKept
    <2>4. browse_pos + 1 = Len(history) => m = draft
      BY <2>3
    <2> HIDE DEF m
    <2>5. buf' = m /\ LineKept'
      BY <1>w, <2>1, <2>2, RecallKeeps
    <2>6. browse_pos' \in 0 .. Len(history)
      BY <1>3, <2>1, HistoryFacts
    <2>7. Editing'
      BY <1>1, <2>2, <2>5, <2>6, HistoryFacts DEF Editing
    <2>8. DraftKept'
      BY <1>1, <2>1, <2>3, <2>4, <2>5 DEF DraftKept
    <2> QED BY <1>2, <2>1, <2>4, <2>5, <2>7, <2>8 DEF TerminalIInv
  <1>4. CASE ~(browse_pos < Len(history))
    <2>1. browse_pos' = browse_pos /\ buf' = buf /\ ShowNothing
      BY <1>4 DEF Down, history_count
    <2>2. Editing' /\ DraftKept'
      BY <1>1, <2>1 DEF TerminalIInv, Editing, DraftKept
    <2> QED BY <1>2, <1>w, <2>1, <2>2, NothingKeeps DEF TerminalIInv
  <1> QED BY <1>3, <1>4

\* The Enter key.
LEMMA EnterKeeps ==
  ASSUME TerminalIInv, Enter
  PROVE  TerminalIInv'
  <1> DEFINE words == Words(buf)
             output == IF words = <<>> THEN <<>> ELSE words[1] \o <<Newline>>
             t == <<Newline>> \o output \o PROMPT
  <1>1. /\ history' = Remembered(buf) /\ entered' = Append(entered, buf)
        /\ buf' = <<>> /\ temp' = <<>> /\ draft' = <<>> /\ browse_pos' = Len(history')
    BY DEF Enter
  <1>2. buf \in LineBuf /\ entered \in Seq(LineBuf) /\ HistoryOf(history, AllAdded(entered))
    BY HistoryFacts DEF TerminalIInv, Added
  <1>3. HistoryOf(history', AllAdded(entered'))
    <2>1. Remembered(buf) = RememberedIn(history, buf)
      BY DEF Remembered, RememberedIn, history_count
    <2>2. AllAdded(Append(entered, buf)) = AddLine(AllAdded(entered), buf)
      BY <1>2, AllAddedAppend
    <2> QED BY <1>1, <1>2, <2>1, <2>2, HistoryGoesOn
  <1>4. HistoryOf(history, Added)'
    BY <1>3 DEF Added
  <1>5. Editing'
    <2>1. Append(entered, buf) \in Seq(LineBuf)
      BY <1>2
    <2>2. Len(history') \in 0 .. Len(history')
      BY <1>3 DEF HistoryOf
    <2> QED BY <1>1, <2>1, <2>2, EmptyLine DEF Editing
  <1>6. DraftKept'
    BY <1>1 DEF DraftKept
  <1>7. OnScreen(con', paper', <<>>)
    <2>0. Lies(con, paper)
      BY DEF TerminalIInv, LineKept, HasRoom
    <2>1. CASE words # <<>> /\ words[1] = CLEAR
      <3>1. con' = Echo(Clear(Echo(Reset(con), <<Newline>>)), PROMPT) /\ paper' = PROMPT
        BY <2>1 DEF Enter
      <3> QED BY <2>0, <3>1, ClearedOnScreen
    <2>2. CASE ~(words # <<>> /\ words[1] = CLEAR)
      <3>1. con' = Echo(Reset(con), t) /\ paper' = Printed(paper, t)
        BY <2>2 DEF Enter, Show
      <3>2. OnScreen(Echo(Reset(con), t), Printed(paper, t), <<>>)
        BY <1>2, <2>0, EnteredOnScreen
      <3> HIDE DEF t
      <3> QED BY <3>1, <3>2
    <2> QED BY <2>1, <2>2
  <1>8. LineKept'
    <2>1. written' = FALSE /\ writes' = writes
      BY DEF Enter
    <2> QED BY <1>1, <1>7, <2>1, OnScreenHasRoom DEF TerminalIInv, LineKept
  <1> QED BY <1>1, <1>4, <1>5, <1>6, <1>8 DEF TerminalIInv

\* A user task prints.
LEMMA UserWriteKeeps ==
  ASSUME TerminalIInv, NEW text \in USER_TEXTS, UserWrite(text)
  PROVE  LineKept'
  <1>1. buf \in LineBuf /\ LineKept
    BY DEF TerminalIInv, Editing
  <1>2. text \in Seq(Character \cup {Newline}) /\ text # <<>>
    <2>1. text \in Seq(Printable \cup {Newline}) \ {<<>>}
      BY TerminalAssumption
    <2>2. Printable \cup {Newline} \subseteq Character \cup {Newline}
      BY DEF Character
    <2> QED BY <2>1, <2>2
  <1>3. /\ con' = PutAll(con, text) /\ paper' = Printed(paper, text) /\ buf' = buf
        /\ written' = TRUE /\ writes < MAX_WRITES /\ writes' = writes + 1
    BY DEF UserWrite
  <1>4. writes' \in 0 .. MAX_WRITES
    BY <1>1, <1>3, TerminalAssumption DEF LineKept
  <1>5. HasRoom(con', paper', buf')
    BY <1>1, <1>2, <1>3, WriteHasRoom DEF LineKept
  <1> QED BY <1>3, <1>4, <1>5 DEF LineKept

\* Every step keeps the inductive invariant.
LEMMA TerminalStep ==
  TerminalIInv /\ [Next]_vars => TerminalIInv'
  <1> SUFFICES ASSUME TerminalIInv, [Next]_vars PROVE TerminalIInv'
    OBVIOUS
  <1>1. CASE \E x \in LETTERS : Type(x)
    BY <1>1, TypeKeeps
  <1>2. CASE Erase
    BY <1>2, EraseKeeps
  <1>3. CASE Up
    BY <1>3, UpKeeps
  <1>4. CASE Down
    BY <1>4, DownKeeps
  <1>5. CASE Enter
    BY <1>5, EnterKeeps
  <1>6. ASSUME UNCHANGED <<buf, browse_pos, temp, history, draft, entered>>,
               LineKept'
        PROVE  TerminalIInv'
    <2>1. Editing' /\ DraftKept'
      BY <1>6 DEF TerminalIInv, Editing, DraftKept
    <2>2. HistoryOf(history, Added)'
      BY <1>6 DEF TerminalIInv, Added
    <2> QED BY <1>6, <2>1, <2>2 DEF TerminalIInv
  <1>7. CASE PgUp \/ PgDn
    <2>1. LineKept'
      BY <1>7, ScrolledOnScreen, NothingHasRoom DEF TerminalIInv, LineKept, PgUp, PgDn
    <2> QED BY <1>6, <1>7, <2>1 DEF PgUp, PgDn
  <1>8. CASE OtherKey
    <2>1. LineKept'
      BY <1>8, NothingKeeps DEF OtherKey
    <2> QED BY <1>6, <1>8, <2>1 DEF OtherKey
  <1>9. CASE UNCHANGED vars
    BY <1>6, <1>9 DEF vars, TerminalIInv, LineKept
  <1>10. CASE \E text \in USER_TEXTS : UserWrite(text)
    BY <1>6, <1>10, UserWriteKeeps DEF UserWrite
  <1> QED BY <1>1, <1>2, <1>3, <1>4, <1>5, <1>7, <1>8, <1>9, <1>10 DEF Next

----------------------------------------------------------------------------
(* The theorems *)

LEMMA TerminalIInvHolds ==
  Spec => []TerminalIInv
  BY TerminalInit, TerminalStep, PTL DEF Spec

\* The inductive invariant gives the invariant the run checks.
LEMMA IInvGivesInv ==
  ASSUME TerminalIInv
  PROVE  TerminalInv
  <1>2. /\ ConsoleIn(con, HEIGHT - 1) /\ IsWindow(con, paper)
        /\ written \in BOOLEAN /\ writes \in 0 .. MAX_WRITES
        /\ ~written /\ con.offset = 0 => con.cursor = <<con.row, con.column>>
    BY DEF TerminalIInv, LineKept, HasRoom, OnScreen, Lies, Stands
  <1>3. TerminalTypeOK
    <2>1. /\ con.row \in 0 .. HEIGHT - 1 /\ con.column \in Columns
          /\ con.pos \in Nat /\ con.total \in 0 .. SCROLLBACK_LINES /\ con.offset \in Nat
          /\ con.offset <= con.total
      BY <1>2, ConsoleFields
    <2>2. con.offset > 0 => con.screen_saved
      BY <1>2 DEF ConsoleIn
    <2>3. con.offset \in 0 .. con.total
      BY <2>1
    <2>4. buf \in Seq(LETTERS) /\ Len(buf) <= MAX - 1 /\ Len(temp) <= MAX - 1
      BY HistoryFacts, LineFacts
    <2>5. Len(history) <= HISTORY_SIZE /\ browse_pos \in 0 .. Len(history)
      BY HistoryFacts
    <2> QED BY <1>2, <2>1, <2>2, <2>3, <2>4, <2>5 DEF TerminalTypeOK, history_count, Rows
  <1>4. WindowOnPaper /\ CursorAtInput
    BY <1>2 DEF WindowOnPaper, CursorAtInput
  <1>5. HistoryKeepsLines
    BY DEF TerminalIInv, HistoryOf, HistoryKeepsLines, history_count
  <1> QED BY <1>3, <1>4, <1>5 DEF TerminalInv

\* After every key and every text of a user task the buffers are within their bounds, the screen and the scrollback
\* ring are a window on an endless paper, the hardware cursor is where the next
\* character
\* goes and the history is made of the lines entered (vga_putchar_raw, vga_scroll,
\* vga_scrollback_up, vga_scrollback_down, sh_readline, history_add), for any screen,
\* scrollback, buffer, history and prompt sizes.
THEOREM TerminalInvHolds ==
  Spec => []TerminalInv
  BY TerminalIInvHolds, IInvGivesInv, PTL

\* A cell of the screen, counted from its first one, is the paper's that is as far from
\* the first cell of the window.
LEMMA CellOfScreen ==
  ASSUME NEW c, NEW p, Lies(c, p), NEW i \in Nat, i < WIDTH * HEIGHT
  PROVE  Live(c)[i \div WIDTH][i % WIDTH] = Cell(p, c.pos * WIDTH + i)
  <1> DEFINE y == i \div WIDTH
             x == i % WIDTH
  <1>1. c.pos \in Nat
    BY ConsoleFields DEF Lies
  <1>2. y \in Nat /\ x \in Columns /\ x \in Nat /\ y * WIDTH + x = i
    BY Sizes, DivMod DEF Columns
  <1> HIDE DEF x, y
  <1>3. y \in Rows
    <2>1. y < HEIGHT
      <3>1. SUFFICES ASSUME y >= HEIGHT PROVE FALSE
        BY <1>2, Sizes
      <3>2. y * WIDTH >= HEIGHT * WIDTH
        BY <1>2, <3>1, Sizes
      <3>3. y * WIDTH \in Nat /\ HEIGHT * WIDTH \in Nat /\ HEIGHT * WIDTH = WIDTH * HEIGHT
        BY <1>2, Sizes
      <3> QED BY <1>2, <3>2, <3>3
    <2> QED BY <1>2, <2>1, Sizes DEF Rows
  <1>4. Live(c)[y] = PaperLine(p, c.pos + y)
    BY <1>3 DEF Lies, IsWindow
  <1>5. Live(c)[y][x] = Cell(p, (c.pos + y) * WIDTH + x)
    BY <1>2, <1>4 DEF PaperLine
  <1>6. (c.pos + y) * WIDTH + x = c.pos * WIDTH + i
    <2>1. (c.pos + y) * WIDTH = c.pos * WIDTH + y * WIDTH
      BY <1>1, <1>2, Sizes
    <2>2. c.pos * WIDTH \in Nat /\ y * WIDTH \in Nat
      BY <1>1, <1>2, Sizes
    <2> QED BY <1>2, <2>1, <2>2
  <1> QED BY <1>5, <1>6 DEF x, y

\* The numbers of the cells of the screen.
LEMMA ScreenNumbers ==
  ASSUME NEW r \in Nat, r <= HEIGHT - 1, NEW k \in Nat, k < WIDTH, NEW n \in Nat
  PROVE  /\ Nr(r, k) \in Nat /\ n * WIDTH \in Nat /\ WIDTH * HEIGHT \in Nat
         /\ Nr(n + r, k) = n * WIDTH + Nr(r, k) /\ Nr(r, k) < WIDTH * HEIGHT
  <1>1. (n + r) * WIDTH = n * WIDTH + r * WIDTH
    BY Sizes
  <1>2. n * WIDTH \in Nat /\ r * WIDTH \in Nat /\ WIDTH * HEIGHT \in Nat
    BY Sizes
  <1>3. r * WIDTH <= (HEIGHT - 1) * WIDTH
    <2>1. HEIGHT - 1 \in Nat /\ WIDTH \in Nat
      BY Sizes
    <2>2. \A a, b, w \in Nat : a <= b => a * w <= b * w
      OBVIOUS
    <2> QED BY <2>1, <2>2
  <1>4. (HEIGHT - 1) * WIDTH = WIDTH * HEIGHT - WIDTH /\ (HEIGHT - 1) * WIDTH \in Nat
    BY Sizes
  <1> DEFINE x == r * WIDTH
             y == n * WIDTH
             z == WIDTH * HEIGHT
             v == (n + r) * WIDTH
             w == (HEIGHT - 1) * WIDTH
  <1>5. /\ Nr(r, k) = x + k /\ Nr(n + r, k) = v + k
    BY DEF Nr
  <1>6. v = y + x /\ y \in Nat /\ x \in Nat /\ z \in Nat /\ x <= w /\ w = z - WIDTH
    BY <1>1, <1>2, <1>3, <1>4
  <1> HIDE DEF x, y, z, v, w
  <1>7. x + k \in Nat /\ v + k = y + (x + k) /\ x + k < z
    BY <1>6, Sizes
  <1> QED BY <1>5, <1>6, <1>7 DEF y, z

\* The line and its prompt, cell by cell.
LEMMA OnScreenCells ==
  ASSUME NEW c, NEW p, NEW l \in LineBuf, OnScreen(c, p, l),
         NEW shown, shown = PROMPT \o l, NEW at, at = At(c)
  PROVE  /\ at >= Len(shown)
         /\ \A i \in 1 .. Len(shown) :
              Live(c)[(at - Len(shown) + i - 1) \div WIDTH][(at - Len(shown) + i - 1) % WIDTH]
                = shown[i]
         /\ \A i \in at .. WIDTH * HEIGHT - 1 : Live(c)[i \div WIDTH][i % WIDTH] = Blank
  <1>1. /\ Lies(c, p) /\ ConsoleIn(c, HEIGHT - 1) /\ p \in Seq(Character)
        /\ Len(p) = Nr(c.pos + c.row, c.column)
    BY DEF OnScreen, Stands, Lies, IsWindow, Nr
  <1>2. c.row \in Nat /\ c.row <= HEIGHT - 1 /\ c.column \in Nat /\ c.column < WIDTH /\ c.pos \in Nat
    BY <1>1, ConsoleFields, Sizes DEF Columns
  <1> DEFINE first == c.pos * WIDTH
             N == Len(shown)
             C == WIDTH * HEIGHT
  <1>3. at \in Nat /\ first \in Nat /\ Len(p) = first + at /\ at < C /\ C \in Nat
    BY <1>1, <1>2, ScreenNumbers DEF At
  <1> HIDE DEF first, C
  <1>4. shown \in Seq(Character) /\ N \in Nat /\ N = Len(PROMPT) + Len(l) /\ at >= N
    <2>1. PROMPT \in Seq(Character) /\ l \in Seq(Character)
      BY CharFacts, LineFacts
    <2>2. at >= Len(PROMPT) + Len(l)
      BY DEF OnScreen
    <2> QED BY <2>1, <2>2
  <1>5. ASSUME NEW i \in Nat, i < C
        PROVE  Live(c)[i \div WIDTH][i % WIDTH] = Cell(p, first + i)
    BY <1>1, <1>5, CellOfScreen DEF first, C
  <1>6. \A i \in 1 .. N : p[Len(p) - N + i] = shown[i]
    <2>1. PICK q \in Seq(Character) : p = (q \o PROMPT) \o l
      BY DEF OnScreen, Prompted
    <2>2. (q \o PROMPT) \o l = q \o shown
      <3>1. PROMPT \in Seq(Character) /\ l \in Seq(Character)
        BY CharFacts, LineFacts
      <3> QED BY <3>1
    <2>3. p = q \o shown
      BY <2>1, <2>2
    <2> HIDE DEF N
    <2>4. Len(p) = Len(q) + N /\ Len(q) \in Nat
      BY <1>4, <2>3 DEF N
    <2>5. \A i \in 1 .. N : (q \o shown)[Len(q) + i] = shown[i]
      BY <1>4 DEF N
    <2> QED BY <1>4, <2>3, <2>4, <2>5
  <1> HIDE DEF N
  <1>7. ASSUME NEW i \in 1 .. N
        PROVE  Live(c)[(at - N + i - 1) \div WIDTH][(at - N + i - 1) % WIDTH] = shown[i]
    <2> DEFINE j == at - N + i - 1
    <2>0. /\ N \in Nat /\ at \in Nat /\ first \in Nat /\ C \in Nat /\ i \in Nat /\ i >= 1 /\ i <= N
          /\ at >= N /\ at < C /\ Len(p) = first + at
      BY <1>3, <1>4
    <2>a. j \in Nat /\ j < at
      BY <2>0
    <2>b. first + j + 1 = Len(p) - N + i
      BY <2>0
    <2> HIDE DEF j
    <2>1. j \in Nat /\ j < C /\ first + j < Len(p)
      BY <2>0, <2>a
    <2>2. Live(c)[j \div WIDTH][j % WIDTH] = Cell(p, first + j)
      BY <1>5, <2>1
    <2>3. Cell(p, first + j) = p[Len(p) - N + i]
      BY <2>1, <2>b DEF Cell
    <2>4. Live(c)[j \div WIDTH][j % WIDTH] = shown[i]
      BY <1>6, <2>2, <2>3
    <2> QED BY <2>4 DEF j
  <1>8. ASSUME NEW i \in at .. C - 1
        PROVE  Live(c)[i \div WIDTH][i % WIDTH] = Blank
    <2>1. i \in Nat /\ i < C /\ ~(first + i < Len(p))
      BY <1>3
    <2> QED BY <1>5, <2>1 DEF Cell
  <1> QED BY <1>4, <1>7, <1>8 DEF N, C

\* The cells before the cursor are the prompt and sh_readline's buffer and nothing is
\* left
\* behind the cursor, until a user task prints, whatever was typed, rubbed out, recalled and scrolled
\* (sh_readline,
\* clear_line, vga_putchar_raw).
THEOREM LineOnScreenHolds ==
  Spec => []LineOnScreen
  <1>1. ASSUME TerminalIInv PROVE LineOnScreen
    <2> SUFFICES ASSUME ~written PROVE LineOnScreen
      BY Zenon DEF LineOnScreen
    <2>1. buf \in LineBuf /\ OnScreen(con, paper, buf)
      BY <1>1 DEF TerminalIInv, Editing, LineKept
    <2>a. con.row * WIDTH + con.column = At(con)
      BY DEF At, Nr
    <2> DEFINE shown == PROMPT \o buf
               at == con.row * WIDTH + con.column
    <2>2. /\ at >= Len(shown)
          /\ \A i \in 1 .. Len(shown) :
               Live(con)[(at - Len(shown) + i - 1) \div WIDTH][(at - Len(shown) + i - 1) % WIDTH]
                 = shown[i]
          /\ \A i \in at .. WIDTH * HEIGHT - 1 : Live(con)[i \div WIDTH][i % WIDTH] = Blank
      <3> HIDE DEF shown, at
      <3>1. shown = PROMPT \o buf /\ at = At(con)
        BY <2>a DEF shown, at
      <3> QED BY <2>1, <3>1, OnScreenCells, SMTT(30)
    <2> QED BY <2>2, Zenon DEF LineOnScreen
  <1> QED BY <1>1, TerminalIInvHolds, PTL

\* sh_parse_and_run splits every line at its runs of spaces: the k-th word is the k-th
\* maximal run of other characters, for lines of any length.
THEOREM SplitsIntoWordsHolds ==
  Spec => []SplitsIntoWords
  <1>1. ASSUME TerminalIInv PROVE SplitsIntoWords
    <2> DEFINE S == LETTERS \cup {Blank}
               three(i) == buf \o <<Blank>> \o entered[i] \o <<Blank>> \o buf
    <2>1. buf \in Seq(S) /\ <<Blank>> \in Seq(S)
      <3>1. buf \in Seq(LETTERS)
        BY <1>1, HistoryFacts, LineFacts
      <3> QED BY <3>1
    <2>2. ASSUME NEW i \in 1 .. Len(entered) PROVE three(i) \in Seq(S)
      <3>1. entered[i] \in LineBuf
        BY <1>1, HistoryFacts
      <3>2. entered[i] \in Seq(S)
        <4>1. entered[i] \in Seq(LETTERS)
          BY <3>1, LineFacts
        <4> QED BY <4>1
      <3> HIDE DEF S
      <3> QED BY <2>1, <3>2
    <2> HIDE DEF three, S
    <2>3. ASSUME NEW line \in {buf} \cup {three(i) : i \in 1 .. Len(entered)}
          PROVE  Words(line) = [k \in 1 .. Min({MAX_ARGS, Cardinality(Starts(line))}) |->
                    SubSeq(line, KthStart(line, k), EndOf(line, KthStart(line, k)))]
      <3>1. line \in Seq(S)
        BY <2>1, <2>2
      <3> QED BY <3>1, SplitWords
    <2> QED BY <2>3, Zenon DEF SplitsIntoWords, KthStart, EndOf, Starts, InWord, three
  <1> QED BY <1>1, TerminalIInvHolds, PTL

\* Browsing the history and coming back gives back the line that was being typed
\* (the Up and Down branches of sh_readline).
THEOREM DraftReturnsHolds ==
  Spec => DraftReturns
  <1> DEFINE Back == browse_pos # history_count /\ browse_pos' = history_count'
                       /\ entered' = entered => buf' = draft
  <1>1. TerminalIInv /\ [Next]_vars => [Back]_vars
    <2> SUFFICES ASSUME TerminalIInv, Next, browse_pos # Len(history),
                        browse_pos' = Len(history'), entered' = entered
                 PROVE  buf' = draft
      BY DEF history_count
    <2>1. entered \in Seq(LineBuf) /\ browse_pos \in Nat /\ browse_pos <= Len(history)
          /\ Len(history) \in Nat
      BY HistoryFacts
    <2>2. ~Enter
      <3>1. Append(entered, buf) # entered
        <4>1. buf \in LineBuf
          BY HistoryFacts
        <4>2. Len(Append(entered, buf)) = Len(entered) + 1 /\ Len(entered) \in Nat
          BY <2>1, <4>1
        <4> QED BY <4>2
      <3> QED BY <3>1 DEF Enter
    <2>3. ~Up
      <3>1. ASSUME Up PROVE history' = history /\ browse_pos' <= browse_pos
        BY <2>1, <3>1 DEF Up
      <3> QED BY <2>1, <3>1 DEF Up
    <2>4. CASE Down
      <3>1. history' = history
        BY <2>4 DEF Down
      <3> QED BY <2>4, <3>1, DownKeeps
    <2>5. CASE \/ \E x \in LETTERS : Type(x)
               \/ Erase \/ PgUp \/ PgDn \/ OtherKey
               \/ \E text \in USER_TEXTS : UserWrite(text)
      BY <2>5 DEF Type, Erase, PgUp, PgDn, OtherKey, UserWrite
    <2> QED BY <2>2, <2>3, <2>4, <2>5 DEF Next
  <1> QED BY <1>1, TerminalIInvHolds, PTL DEF DraftReturns, Spec

----------------------------------------------------------------------------
(* The serial driver *)

\* The size of the transmit ring.
TX == SERIAL_TX_BUF

\* The ring of the driver in the terms of RingTheorems.
LEMMA WaitingIsRing ==
  ASSUME SerialInv
  PROVE  /\ TX \in Nat \ {0} /\ tx_head \in 0 .. TX - 1 /\ tx_tail \in 0 .. TX - 1
         /\ tx_buf \in [0 .. TX - 1 -> Char \union {Nul}]
         /\ Count = (tx_tail - tx_head) % TX
         /\ Waiting = RingSeq(tx_buf, tx_head, tx_tail, TX)
         /\ Holds(tx_buf, tx_head, tx_tail, TX, Char)
         /\ Count \in 0 .. TX - 1
         /\ Count = 0 <=> tx_empty
         /\ Count = TX - 1 <=> tx_full
         /\ Waiting \in Seq(Char) /\ Len(Waiting) = Count
  <1>1. /\ TX \in Nat \ {0} /\ tx_head \in 0 .. TX - 1 /\ tx_tail \in 0 .. TX - 1
        /\ tx_buf \in [0 .. TX - 1 -> Char \union {Nul}]
    BY SerialAssumption DEF SerialInv, TypeOK, Index, TX
  <1>2. /\ Count = (tx_tail - tx_head) % TX
        /\ Waiting = RingSeq(tx_buf, tx_head, tx_tail, TX)
    BY DEF Count, Waiting, RingSeq, TX
  <1>3. Holds(tx_buf, tx_head, tx_tail, TX, Char)
    BY DEF SerialInv, RingHoldsChars, Holds, Count, TX
  <1>4. /\ Count \in 0 .. TX - 1
        /\ Count = 0 <=> tx_empty
        /\ Count = TX - 1 <=> tx_full
    BY <1>1, <1>2, RingCount DEF tx_empty, tx_full, Advance, TX
  <1>5. Waiting \in Seq(Char) /\ Len(Waiting) = Count
    BY <1>1, <1>2, <1>3, RingIsSeq
  <1> QED BY <1>1, <1>2, <1>3, <1>4, <1>5

\* In every reachable state the invariant holds. (The ring of the code has 4096
\* bytes; nothing depends on it.)
THEOREM SerialInvariance == SerialSpec => []SerialInv
  <1>1. SerialInit => SerialInv
    <2> SUFFICES ASSUME SerialInit PROVE SerialInv
      OBVIOUS
    <2>1. TypeOK
      BY SerialAssumption DEF SerialInit, TypeOK, Index
    <2>2. Count = 0
      BY SerialAssumption DEF SerialInit, Count
    <2>3. RingHoldsChars
      BY <2>2 DEF RingHoldsChars
    <2>4. CallerKeepsItsFlag
      BY DEF SerialInit, CallerKeepsItsFlag
    <2> QED BY <2>1, <2>3, <2>4 DEF SerialInit, SerialInv, FlagIsSaved, SentIsAtHead
  <1>2. SerialInv /\ [SerialNext]_serial_vars => SerialInv'
    <2> SUFFICES ASSUME SerialInv, [SerialNext]_serial_vars PROVE SerialInv'
      OBVIOUS
    <2> DEFINE ring == <<tx_buf, tx_head, tx_tail>>
    <2>r. UNCHANGED ring => Count' = Count /\ RingHoldsChars'
      BY DEF SerialInv, RingHoldsChars, Count
    <2>1. CASE CallerCli
      BY <2>1, <2>r DEF CallerCli, SerialInv, TypeOK, CallerKeepsItsFlag, FlagIsSaved,
         SentIsAtHead, tx_empty
    <2>2. ASSUME NEW s \in Strings, BeginWrite(s) PROVE SerialInv'
      <3>1. s \in Seq(Char)
        BY SerialAssumption DEF Strings
      <3> QED BY <2>2, <2>r, <3>1 DEF BeginWrite, irq_save_disable, SerialInv, TypeOK,
                 CallerKeepsItsFlag, FlagIsSaved, SentIsAtHead, tx_empty
    <2>3. CASE tx_push
      <3>1. CASE tx_full
        <4>1. UNCHANGED ring
          BY <2>3, <3>1 DEF tx_push
        <4> QED BY <2>3, <2>r, <4>1 DEF tx_push, SerialInv, TypeOK, CallerKeepsItsFlag,
                   FlagIsSaved, SentIsAtHead, tx_empty
      <3>2. CASE ~tx_full
        <4>1. /\ tx_buf' = [tx_buf EXCEPT ![tx_tail] = Head(str)]
              /\ tx_tail' = (tx_tail + 1) % TX
              /\ tx_head' = tx_head
              /\ Head(str) \in Char /\ Tail(str) \in Seq(Char)
          BY <2>3, <3>2 DEF tx_push, Advance, TX, SerialInv, TypeOK
        <4>2. Holds(tx_buf', tx_head', tx_tail', TX, Char)
          BY <3>2, <4>1, WaitingIsRing, RingPush DEF tx_full, Advance, TX
        <4>3. RingHoldsChars'
          BY <4>2 DEF Holds, RingHoldsChars, Count, TX
        <4>4. tx_tail' \in 0 .. TX - 1 /\ tx_buf' \in [Index -> Char \union {Nul}]
          BY <4>1, WaitingIsRing DEF Index, TX
        <4> QED BY <2>3, <4>1, <4>3, <4>4 DEF tx_push, SerialInv, TypeOK, Index, TX,
                   CallerKeepsItsFlag, FlagIsSaved, SentIsAtHead
      <3> QED BY <3>1, <3>2
    <2>4. CASE PushDone
      BY <2>4, <2>r DEF PushDone, SerialInv, TypeOK, CallerKeepsItsFlag, FlagIsSaved,
         SentIsAtHead, tx_empty
    <2>5. CASE DrainOut
      <3>1. tx_buf[tx_head] \in Char
        <4>1. 1 \in 1 .. Count /\ (tx_head + 1 - 1) % TX = tx_head
          <5>1. Count \in Nat /\ Count # 0 /\ tx_head \in 0 .. TX - 1 /\ TX \in Nat \ {0}
            BY <2>5, WaitingIsRing DEF DrainOut
          <5> QED BY <5>1
        <4> QED BY <4>1 DEF SerialInv, RingHoldsChars, TX
      <3>2. /\ sent' \in Seq(Char) /\ sent' # <<>>
            /\ sent'[Len(sent')] = tx_buf[tx_head]
        BY <2>5, <3>1 DEF DrainOut, SerialInv, TypeOK
      <3> QED BY <2>5, <2>r, <3>2 DEF DrainOut, SerialInv, TypeOK, CallerKeepsItsFlag,
                 FlagIsSaved, SentIsAtHead, tx_empty
    <2>6. CASE DrainAdvance
      <3>1. 1 \in 1 .. (tx_tail - tx_head) % TX
        BY <2>6, WaitingIsRing DEF DrainAdvance, SerialInv, SentIsAtHead
      <3>2. tx_head' = (tx_head + 1) % TX /\ UNCHANGED <<tx_buf, tx_tail>>
        BY <2>6 DEF DrainAdvance, Advance, TX
      <3>3. tx_head' \in 0 .. TX - 1 /\ Holds(tx_buf', tx_head', tx_tail', TX, Char)
        BY <3>1, <3>2, WaitingIsRing, RingDrop
      <3>4. RingHoldsChars'
        BY <3>3 DEF Holds, RingHoldsChars, Count, TX
      <3> QED BY <2>6, <3>2, <3>3, <3>4 DEF DrainAdvance, SerialInv, TypeOK, Index, TX,
                 CallerKeepsItsFlag, FlagIsSaved, SentIsAtHead
    <2>7. CASE EndWrite
      BY <2>7, <2>r DEF EndWrite, irq_restore, SerialInv, TypeOK, CallerKeepsItsFlag,
         FlagIsSaved, SentIsAtHead, tx_empty
    <2>8. CASE FlushIrq
      <3>1. PICK n \in 1 .. Count : /\ sent' = sent \o SubSeq(Waiting, 1, n)
                                    /\ tx_head' = (tx_head + n) % TX
        BY <2>8 DEF FlushIrq, TX
      <3>2. UNCHANGED <<tx_buf, tx_tail>> /\ n \in 1 .. (tx_tail - tx_head) % TX
        BY <2>8, WaitingIsRing DEF FlushIrq
      <3>3. tx_head' \in 0 .. TX - 1 /\ Holds(tx_buf', tx_head', tx_tail', TX, Char)
        BY <3>1, <3>2, WaitingIsRing, RingDrop
      <3>4. RingHoldsChars'
        BY <3>3 DEF Holds, RingHoldsChars, Count, TX
      <3>5. sent' \in Seq(Char)
        <4>1. SubSeq(Waiting, 1, n) \in Seq(Char)
          BY WaitingIsRing
        <4> QED BY <3>1, <4>1 DEF SerialInv, TypeOK
      <3>6. pc # "advance"
        BY <2>8 DEF FlushIrq, SerialInv, CallerKeepsItsFlag
      <3> QED BY <2>8, <3>2, <3>3, <3>4, <3>5, <3>6 DEF FlushIrq, SerialInv, TypeOK,
                 Index, TX, CallerKeepsItsFlag, FlagIsSaved, SentIsAtHead
    <2>9. CASE UNCHANGED serial_vars
      BY <2>9, <2>r DEF serial_vars, SerialInv, TypeOK, CallerKeepsItsFlag, FlagIsSaved,
         SentIsAtHead, tx_empty
    <2> QED BY <2>1, <2>2, <2>3, <2>4, <2>5, <2>6, <2>7, <2>8, <2>9 DEF SerialNext
  <1> QED BY <1>1, <1>2, PTL DEF SerialSpec

\* The ring is a FIFO of SERIAL_TX_BUF - 1 characters: tx_push and the two places
\* that drain map to the steps of BoundedFifo, everything else leaves it alone.
THEOREM SerialImplementsFifo == SerialSpec => ImplementsFifo
  <1> DEFINE q == Waiting
             taken == IF pc = "advance" THEN SubSeq(sent, 1, Len(sent) - 1) ELSE sent
  <1>1. SerialInit => Fifo!FifoInit
    <2> SUFFICES ASSUME SerialInit PROVE Fifo!FifoInit
      OBVIOUS
    <2>1. Count = 0
      BY SerialAssumption DEF SerialInit, Count
    <2>2. Waiting = <<>>
      BY <2>1 DEF Waiting
    <2> QED BY <2>2 DEF SerialInit, Fifo!FifoInit
  <1>2. SerialInv /\ [SerialNext]_serial_vars => [Fifo!FifoNext]_<<q, offered, taken>>
    <2> SUFFICES ASSUME SerialInv, [SerialNext]_serial_vars
                 PROVE  Fifo!FifoNext \/ UNCHANGED <<q, offered, taken>>
      OBVIOUS
    <2>w. UNCHANGED <<tx_buf, tx_head, tx_tail>> => UNCHANGED q
      BY DEF Waiting, Count
    <2>p. UNCHANGED sent /\ pc # "advance" /\ pc' # "advance" => UNCHANGED taken
      OBVIOUS
    <2>1. CASE CallerCli
      BY <2>1, <2>w, <2>p DEF CallerCli
    <2>2. ASSUME NEW s \in Strings, BeginWrite(s)
          PROVE  UNCHANGED <<q, offered, taken>>
      BY <2>2, <2>w, <2>p DEF BeginWrite
    <2>3. CASE tx_push
      <3>1. Head(str) \in Char /\ UNCHANGED taken /\ offered' = offered + 1
        BY <2>3, <2>p DEF tx_push, SerialInv, TypeOK
      <3>2. q' = IF Len(q) < TX - 1 THEN Append(q, Head(str)) ELSE q
        <4>1. CASE tx_full
          BY <2>3, <2>w, <4>1, WaitingIsRing DEF tx_push
        <4>2. CASE ~tx_full
          <5>1. /\ tx_buf' = [tx_buf EXCEPT ![tx_tail] = Head(str)]
                /\ tx_tail' = (tx_tail + 1) % TX
                /\ tx_head' = tx_head
            BY <2>3, <4>2 DEF tx_push, Advance, TX
          <5>2. RingSeq(tx_buf', tx_head', tx_tail', TX) = Append(q, Head(str))
            <6>1. (tx_tail + 1) % TX # tx_head
              BY <4>2 DEF tx_full, Advance, TX
            <6>2. Joins(Head(str), RingSeq(tx_buf, tx_head, tx_tail, TX),
                        RingSeq(tx_buf', tx_head, tx_tail', TX))
              BY <3>1, <5>1, <6>1, WaitingIsRing, RingPush
            <6> QED BY <5>1, <6>2, WaitingIsRing DEF Joins
          <5>3. q' = Append(q, Head(str))
            BY <5>2 DEF RingSeq, Waiting, Count, TX
          <5>4. Len(q) < TX - 1
            BY <4>2, WaitingIsRing
          <5> QED BY <5>3, <5>4
        <4> QED BY <4>1, <4>2
      <3>3. Fifo!Offer(Head(str))
        BY <3>1, <3>2 DEF Fifo!Offer, TX
      <3> QED BY <3>1, <3>3 DEF Fifo!FifoNext
    <2>4. CASE PushDone
      BY <2>4, <2>w, <2>p DEF PushDone
    <2>5. CASE DrainOut
      <3>1. SubSeq(sent', 1, Len(sent') - 1) = sent
        BY <2>5 DEF DrainOut, SerialInv, TypeOK
      <3>2. UNCHANGED taken
        BY <2>5, <3>1 DEF DrainOut
      <3> QED BY <2>5, <2>w, <3>2 DEF DrainOut
    <2>6. CASE DrainAdvance
      <3>1. /\ Count \in 0 .. TX - 1 /\ Count # 0 /\ TX \in Nat
            /\ tx_head \in 0 .. TX - 1
            /\ q \in Seq(Char) /\ Len(q) = Count
            /\ Count = (tx_tail - tx_head) % TX
        BY <2>6, WaitingIsRing DEF DrainAdvance, SerialInv, SentIsAtHead
      <3>2. tx_head' = (tx_head + 1) % TX /\ UNCHANGED <<tx_buf, tx_tail>>
        BY <2>6 DEF DrainAdvance, Advance, TX
      <3>3. 1 \in 1 .. (tx_tail - tx_head) % TX
        BY <3>1
      <3>4. RingSeq(tx_buf', tx_head', tx_tail', TX) = SubSeq(q, 2, Count)
        <4>1. RingSeq(tx_buf, (tx_head + 1) % TX, tx_tail, TX)
                = SubSeq(RingSeq(tx_buf, tx_head, tx_tail, TX), 1 + 1,
                         (tx_tail - tx_head) % TX)
          BY <3>3, WaitingIsRing, RingDrop
        <4> QED BY <3>2, <4>1, WaitingIsRing
      <3>5. q' = SubSeq(q, 2, Len(q))
        BY <3>1, <3>4 DEF RingSeq, Waiting, Count, TX
      <3>6. q[1] = tx_buf[tx_head]
        <4>1. (tx_head + 1 - 1) % SERIAL_TX_BUF = tx_head
          BY <3>1 DEF TX
        <4> QED BY <3>1, <4>1 DEF Waiting
      <3>7. taken' = taken \o SubSeq(q, 1, 1)
        <4>1. /\ sent \in Seq(Char) /\ sent # <<>> /\ sent[Len(sent)] = q[1]
              /\ taken = SubSeq(sent, 1, Len(sent) - 1) /\ taken' = sent
          BY <2>6, <3>6 DEF DrainAdvance, SerialInv, TypeOK, SentIsAtHead
        <4>2. SubSeq(q, 1, 1) = <<q[1]>>
          BY <3>1, FirstAlone
        <4>3. sent = SubSeq(sent, 1, Len(sent) - 1) \o <<sent[Len(sent)]>>
          BY <4>1, LastApart
        <4> QED BY <4>1, <4>2, <4>3
      <3>8. 1 \in 1 .. Len(q) /\ UNCHANGED offered
        BY <2>6, <3>1 DEF DrainAdvance
      <3>9. Fifo!TakeSome
        BY <3>5, <3>7, <3>8 DEF Fifo!TakeSome
      <3> QED BY <3>9 DEF Fifo!FifoNext
    <2>7. CASE EndWrite
      BY <2>7, <2>w, <2>p DEF EndWrite
    <2>8. CASE FlushIrq
      <3>1. PICK n \in 1 .. Count : /\ sent' = sent \o SubSeq(Waiting, 1, n)
                                    /\ tx_head' = (tx_head + n) % TX
        BY <2>8 DEF FlushIrq, TX
      <3>2. /\ UNCHANGED <<tx_buf, tx_tail, offered>>
            /\ n \in 1 .. (tx_tail - tx_head) % TX /\ n \in 1 .. Len(q)
        BY <2>8, WaitingIsRing DEF FlushIrq
      <3>3. RingSeq(tx_buf', tx_head', tx_tail', TX) = SubSeq(q, n + 1, Count)
        <4>1. RingSeq(tx_buf, (tx_head + n) % TX, tx_tail, TX)
                = SubSeq(RingSeq(tx_buf, tx_head, tx_tail, TX), n + 1,
                         (tx_tail - tx_head) % TX)
          BY <3>2, WaitingIsRing, RingDrop
        <4> QED BY <3>1, <3>2, <4>1, WaitingIsRing
      <3>4. q' = SubSeq(q, n + 1, Len(q))
        BY <3>3, WaitingIsRing DEF RingSeq, Waiting, Count, TX
      <3>5. pc # "advance" /\ pc' = pc
        BY <2>8 DEF FlushIrq, SerialInv, CallerKeepsItsFlag
      <3>6. taken' = taken \o SubSeq(q, 1, n)
        BY <3>1, <3>5
      <3>7. Fifo!TakeSome
        BY <3>2, <3>4, <3>6 DEF Fifo!TakeSome
      <3> QED BY <3>7 DEF Fifo!FifoNext
    <2>9. CASE UNCHANGED serial_vars
      BY <2>9, <2>w DEF serial_vars
    <2> QED BY <2>1, <2>2, <2>3, <2>4, <2>5, <2>6, <2>7, <2>8, <2>9 DEF SerialNext
  <1> QED BY <1>1, <1>2, SerialInvariance, PTL DEF SerialSpec, ImplementsFifo, Fifo!FifoSpec
=============================================================================
