------------------------------ MODULE Terminal ------------------------------
(***************************************************************************)
(* The shell at the console (shell_run, sh_readline, sh_parse_and_run in   *)
(* shell/shell.c): a line is edited key by key with history and scrollback *)
(* and echoed on the screen, then split into words and run. Commands are   *)
(* clear and one that prints its own name. User tasks, which run while the *)
(* shell waits for a key, print on the same console (SYS_WRITE in          *)
(* arch/syscall.c). What a key prints is one step.                         *)
(***************************************************************************)
EXTENDS Console, FiniteSets, FiniteSetsExt

CONSTANTS
  LETTERS,        \* printable characters that can be typed
  PROMPT,         \* what the shell prints before a line
  MAX,            \* size of the line buffer, SHELL_BUF_SIZE
  MAX_ARGS,
  HISTORY_SIZE,
  PAGE,           \* lines of a PgUp or PgDn (5 in the code)
  CLEAR,          \* the name of the clear command
  USER_TEXTS,     \* what user tasks print: no backspaces, not nothing
  MAX_WRITES,     \* bound: texts of user tasks per behaviour
  MAX_LINES       \* bound: lines entered and texts of user tasks together

\* What a line and its prompt are made of.
Printable == LETTERS \cup {PROMPT[i] : i \in DOMAIN PROMPT}

\* The longest line fits the screen with its prompt: 5 + 255 of 2000 cells.
ASSUME TerminalAssumption ==
  /\ MAX \in Nat \ {0} /\ MAX_ARGS \in Nat \ {0}
  /\ HISTORY_SIZE \in Nat \ {0} /\ PAGE \in Nat \ {0}
  /\ MAX_LINES \in Nat
  /\ PROMPT \in Seq(Printable)
  /\ Newline \notin Printable /\ Backspace \notin Printable
  /\ Len(PROMPT) + MAX <= WIDTH * (HEIGHT - 1)
  /\ USER_TEXTS \subseteq Seq(Printable \cup {Newline}) \ {<<>>}
  /\ MAX_WRITES \in Nat

VARIABLES
  con,             \* the console
  buf,             \* sh_readline's buf[0 .. pos - 1]
  browse_pos, temp,
  history,         \* history[0 .. history_count - 1], from index 1
  written,         \* history: a user task has printed since the last prompt
  draft,           \* history: the line as last seen below the history
  entered,         \* history: the lines entered, oldest first
  paper,           \* history: the output since the last clear, on endless paper
  writes           \* counter for the bound

vars == <<con, buf, browse_pos, temp, history, written, draft, entered, paper, writes>>

history_count == Len(history)

\* printf and then vga_flush.
Echo(c, text) == Flush(PutAll(c, text))

\* A terminal that prints on paper WIDTH columns wide: what is on it is the row of
\* its cells up to the print head.
OnPaper(p, c) ==
  IF c = Newline THEN p \o [i \in 1 .. WIDTH - (Len(p) % WIDTH) |-> Blank]
  ELSE IF c = Backspace THEN SubSeq(p, 1, Len(p) - 1)
  ELSE Append(p, c)

Printed(p, text) ==
  LET after[n \in 0 .. Len(text)] ==
        IF n = 0 THEN p ELSE OnPaper(after[n - 1], text[n])
  IN after[Len(text)]

Init ==
  /\ con = Echo(PowerOn, PROMPT)
  /\ buf = <<>> /\ browse_pos = 0 /\ temp = <<>>
  /\ history = <<>> /\ written = FALSE /\ writes = 0
  /\ draft = <<>> /\ entered = <<>>
  /\ paper = PROMPT

----------------------------------------------------------------------------
(* Words *)

\* The first place from p on where "space or not" is as wanted, or past the end.
Seek(line, p, space) ==
  CHOOSE i \in p .. Len(line) + 1 :
    /\ i = Len(line) + 1 \/ (line[i] = Blank) = space
    /\ \A j \in p .. i - 1 : (line[j] = Blank) # space

\* Mutant of Words: the loop goes on while argc <= MAX_ARGS.
WordsOneTooMany(line) ==
  LET from[p \in 1 .. Len(line) + 1] ==
        LET b == Seek(line, p, FALSE)
            e == Seek(line, b, TRUE)
        IN IF b > Len(line) THEN <<>>
           ELSE <<SubSeq(line, b, e - 1)>> \o
                (IF e > Len(line) THEN <<>> ELSE from[e + 1])
  IN SubSeq(from[1], 1, IF Len(from[1]) <= MAX_ARGS THEN Len(from[1]) ELSE MAX_ARGS + 1)

\* sh_parse_and_run splits the line at runs of spaces into at most MAX_ARGS words.
Words(line) ==
  LET from[p \in 1 .. Len(line) + 1] ==
        LET b == Seek(line, p, FALSE)
            e == Seek(line, b, TRUE)
        IN IF b > Len(line) THEN <<>>
           ELSE <<SubSeq(line, b, e - 1)>> \o
                (IF e > Len(line) THEN <<>> ELSE from[e + 1])
  IN SubSeq(from[1], 1, IF Len(from[1]) < MAX_ARGS THEN Len(from[1]) ELSE MAX_ARGS)

----------------------------------------------------------------------------
(* Keys *)

\* A key other than PgUp and PgDn ends a look at the scrollback; this one then
\* prints the text.
Show(text) ==
  /\ con' = Echo(Reset(con), text)
  /\ paper' = Printed(paper, text)

ShowNothing == con' = Reset(con) /\ UNCHANGED paper

\* printf("\b \b").
Rub == <<Backspace, Blank, Backspace>>

\* Mutant of ClearLine: one cell is left.
ClearLineButOne(pos) ==
  LET rubbed == IF pos = 0 THEN 0 ELSE pos - 1
  IN [i \in 1 .. 3 * rubbed |-> IF i % 3 = 2 THEN Blank ELSE Backspace]

\* clear_line.
ClearLine(pos) == [i \in 1 .. 3 * pos |-> IF i % 3 = 2 THEN Blank ELSE Backspace]

\* A printable character; it is dropped when the buffer is full.
Type(c) ==
  /\ IF Len(buf) < MAX - 1
     THEN buf' = Append(buf, c) /\ Show(<<c>>)
     ELSE UNCHANGED buf /\ ShowNothing
  /\ draft' = IF browse_pos = history_count THEN buf' ELSE draft
  /\ UNCHANGED <<browse_pos, temp, history, written, entered, writes>>

\* Backspace or Delete.
Erase ==
  /\ IF Len(buf) > 0
     THEN buf' = SubSeq(buf, 1, Len(buf) - 1) /\ Show(Rub)
     ELSE UNCHANGED buf /\ ShowNothing
  /\ draft' = IF browse_pos = history_count THEN buf' ELSE draft
  /\ UNCHANGED <<browse_pos, temp, history, written, entered, writes>>

\* The line on the screen and in the buffer is replaced.
Recall(line) == buf' = line /\ Show(ClearLine(Len(buf)) \o line)

\* Mutant of Up: whatever is on the line is saved.
UpSavesAnyLine ==
  /\ IF browse_pos > 0
     THEN temp' = buf /\ browse_pos' = browse_pos - 1 /\ Recall(history[browse_pos])
     ELSE UNCHANGED <<temp, browse_pos, buf>> /\ ShowNothing
  /\ UNCHANGED <<history, written, draft, entered, writes>>

\* The line being typed is saved when the history is entered. history[browse_pos - 1]
\* of the code is history[browse_pos] here.
Up ==
  /\ IF browse_pos > 0
     THEN /\ temp' = IF browse_pos = history_count THEN buf ELSE temp
          /\ browse_pos' = browse_pos - 1
          /\ Recall(history[browse_pos])
     ELSE UNCHANGED <<temp, browse_pos, buf>> /\ ShowNothing
  /\ UNCHANGED <<history, written, draft, entered, writes>>

Down ==
  /\ IF browse_pos < history_count
     THEN /\ browse_pos' = browse_pos + 1
          /\ Recall(IF browse_pos + 1 = history_count THEN temp
                    ELSE history[browse_pos + 2])
     ELSE UNCHANGED <<browse_pos, buf>> /\ ShowNothing
  /\ UNCHANGED <<temp, history, written, draft, entered, writes>>

\* The history after a line: an empty one and a repetition of the last slot are not
\* added; the slot is history_count % HISTORY_SIZE.
Remembered(line) ==
  LET idx == history_count % HISTORY_SIZE
  IN IF line = <<>> THEN history
     ELSE IF history_count > 0 /\ line = history[history_count] THEN history
     ELSE IF idx = history_count THEN Append(history, line)
     ELSE [history EXCEPT ![idx + 1] = line]

\* Enter: the line is remembered, split and run (with another name in front of it a
\* line prints that name), and the shell prompts again.
Enter ==
  LET words == Words(buf)
      output == IF words = <<>> THEN <<>> ELSE words[1] \o <<Newline>>
  IN /\ Len(entered) + writes < MAX_LINES
     /\ history' = Remembered(buf)
     /\ entered' = Append(entered, buf)
     /\ buf' = <<>> /\ temp' = <<>> /\ draft' = <<>> /\ written' = FALSE
     /\ UNCHANGED writes
     /\ browse_pos' = Len(history')
     /\ IF words # <<>> /\ words[1] = CLEAR
        THEN /\ con' = Echo(Clear(Echo(Reset(con), <<Newline>>)), PROMPT)
             /\ paper' = PROMPT
        ELSE Show(<<Newline>> \o output \o PROMPT)

PgUp ==
  /\ con' = ScrollUp(con, PAGE)
  /\ UNCHANGED <<buf, browse_pos, temp, history, written, draft, entered, paper, writes>>

PgDn ==
  /\ con' = ScrollDown(con, PAGE)
  /\ UNCHANGED <<buf, browse_pos, temp, history, written, draft, entered, paper, writes>>

\* Any other key below 32 or above 126. Ctrl+C and Ctrl+X are among them: their
\* branches are inside the one for Backspace and never taken.
OtherKey ==
  /\ ShowNothing
  /\ UNCHANGED <<buf, browse_pos, temp, history, written, draft, entered, writes>>

\* SYS_WRITE of a user task while the shell waits for a key: printf, whose first
\* character ends a look at the scrollback, and no vga_flush. A command started the task.
UserWrite(text) ==
  /\ entered # <<>>
  /\ writes < MAX_WRITES /\ Len(entered) + writes < MAX_LINES
  /\ writes' = writes + 1
  /\ written' = TRUE
  /\ con' = PutAll(con, text)
  /\ paper' = Printed(paper, text)
  /\ UNCHANGED <<buf, browse_pos, temp, history, draft, entered>>

Next ==
  \/ \E c \in LETTERS : Type(c)
  \/ Erase \/ Up \/ Down \/ Enter \/ PgUp \/ PgDn \/ OtherKey
  \/ \E text \in USER_TEXTS : UserWrite(text)

Spec == Init /\ [][Next]_vars

----------------------------------------------------------------------------
(* Properties *)

\* The type invariant: the buffer keeps room for its end mark, the cursor is on the
\* screen, and the indices into history and scrollback are in range.
TerminalTypeOK ==
  /\ buf \in Seq(LETTERS) /\ Len(buf) <= MAX - 1
  /\ Len(temp) <= MAX - 1
  /\ con.row \in Rows /\ con.column \in Columns
  /\ con.offset \in 0 .. con.total /\ con.total \in 0 .. SCROLLBACK_LINES
  /\ con.pos \in Nat /\ con.offset > 0 => con.screen_saved
  /\ history_count <= HISTORY_SIZE
  /\ browse_pos \in 0 .. history_count
  /\ written \in BOOLEAN /\ writes \in 0 .. MAX_WRITES

\* A cell and a line of a paper.
Cell(p, i) == IF i < Len(p) THEN p[i + 1] ELSE Blank
PaperLine(p, y) == [x \in Columns |-> Cell(p, y * WIDTH + x)]

\* The live screen is the bottom of what the paper shows, and the scrollback ring
\* holds the lines above it.
IsWindow(c, p) ==
  /\ Len(p) = (c.pos + c.row) * WIDTH + c.column
  /\ Live(c) = [y \in Rows |-> PaperLine(p, c.pos + y)]
  /\ \A i \in 1 .. c.total :
       c.ring[(c.pos - i) % SCROLLBACK_LINES] = PaperLine(p, c.pos - i)

\* Wrapping, scrolling, rubbing out across rows, clearing, looking at the scrollback
\* and the output of user tasks in the middle of a line, together, show what an endless
\* paper would.
WindowOnPaper == IsWindow(con, paper)

\* sh_readline's buffer and the screen never drift apart: the cells before the cursor
\* are the prompt and the line as it will be run, and nothing is left behind it, as
\* long as no user task has printed after the prompt.
LineOnScreen ==
  ~written =>
    LET shown == PROMPT \o buf
        at == con.row * WIDTH + con.column
        cell(i) == Live(con)[i \div WIDTH][i % WIDTH]
    IN /\ at >= Len(shown)
       /\ \A i \in 1 .. Len(shown) : cell(at - Len(shown) + i - 1) = shown[i]
       /\ \A i \in at .. WIDTH * HEIGHT - 1 : cell(i) = Blank

\* Browsing the history and coming back, over any keys in between, gives back the line
\* as it was when it was left.
DraftReturns ==
  [][browse_pos # history_count /\ browse_pos' = history_count' /\ entered' = entered
       => buf' = draft]_vars

\* The deferred cursor updates leave none out: whenever the shell waits for a key with
\* the live screen shown, the hardware cursor is where the next character goes (a user
\* task moves on without it).
CursorAtInput == ~written /\ con.offset = 0 => con.cursor = <<con.row, con.column>>

\* The lines entered, without empty ones and without repetitions.
AddLine(lines, l) ==
  IF l = <<>> \/ (lines # <<>> /\ lines[Len(lines)] = l) THEN lines
  ELSE Append(lines, l)
AllAdded(lines) ==
  LET upto[n \in 0 .. Len(lines)] ==
        IF n = 0 THEN <<>> ELSE AddLine(upto[n - 1], lines[n])
  IN upto[Len(lines)]
Added == AllAdded(entered)

\* Until it is full the history is exactly the lines entered, in order; after that
\* every slot still holds some line that was entered.
HistoryKeepsLines ==
  IF Len(Added) <= HISTORY_SIZE THEN history = Added
  ELSE \A i \in 1 .. history_count : \E j \in 1 .. Len(Added) : history[i] = Added[j]

\* The terminal's state after every key: buffers within their bounds, the screen and
\* the scrollback a window on the endless paper, the cursor where the next character
\* goes, and the history made of lines that were entered (vga_putchar, vga_scroll_up,
\* sh_readline, history_add).
TerminalInv == TerminalTypeOK /\ WindowOnPaper /\ CursorAtInput /\ HistoryKeepsLines

\* A line is split into its words: the k-th word runs from the k-th character that
\* follows a space or nothing to the next space, and no more than MAX_ARGS are taken.
\* Checked for the line as typed, and for the line before and after each line entered.
SplitsIntoWords ==
  \A line \in {buf}
              \cup {buf \o <<Blank>> \o entered[i] \o <<Blank>> \o buf : i \in 1 .. Len(entered)} :
    LET inWord == {i \in 1 .. Len(line) : line[i] # Blank}
        starts == {i \in inWord : i - 1 \notin inWord}
        kth(k) == CHOOSE i \in starts : Cardinality({j \in starts : j <= i}) = k
        ends(i) == CHOOSE e \in i .. Len(line) : i .. e \subseteq inWord /\ e + 1 \notin inWord
    IN Words(line) = [k \in 1 .. Min({MAX_ARGS, Cardinality(starts)}) |->
                        SubSeq(line, kth(k), ends(kth(k)))]

(* What does not hold. *)

\* "command history ring buffer": the newest line is the first that Up recalls.
RecallsNewest == Added # <<>> => history[history_count] = Added[Len(Added)]

\* "scrollback_view_offset = how many lines back from current".
ViewIsOffsetBack ==
  con.offset > 0 => \A y \in Rows :
    con.screen[y] = PaperLine(paper, con.pos + y - con.offset)

\* "hide cursor when viewing scrollback".
CursorShown == con.hidden => con.offset > 0

\* Ctrl+C gives up the line.
CtrlCAborts == [][OtherKey => buf' = <<>>]_vars
=============================================================================
