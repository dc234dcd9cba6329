------------------------------ MODULE Console ------------------------------
(***************************************************************************)
(* The VGA text console (drivers/display/vga.c): the screen, its cursor    *)
(* and the scrollback ring, as functions from a console to a console. A    *)
(* cell is a character; colours are left out.                              *)
(***************************************************************************)
EXTENDS Integers, Sequences

CONSTANTS
  WIDTH, HEIGHT,      \* VGA_WIDTH, VGA_HEIGHT
  SCROLLBACK_LINES

ASSUME ConsoleAssumption ==
  /\ WIDTH \in Nat \ {0} /\ HEIGHT \in Nat \ {0}
  /\ SCROLLBACK_LINES \in Nat \ {0}

Blank == " "
Newline == "newline"
Backspace == "backspace"

Rows == 0 .. HEIGHT - 1
Columns == 0 .. WIDTH - 1
BlankLine == [x \in Columns |-> Blank]
BlankScreen == [y \in Rows |-> BlankLine]

\* vga_init.
PowerOn ==
  [screen |-> BlankScreen, row |-> 0, column |-> 0,
   ring |-> [i \in 0 .. SCROLLBACK_LINES - 1 |-> BlankLine],
   pos |-> 0, total |-> 0, offset |-> 0,
   saved |-> BlankScreen, screen_saved |-> FALSE,
   cursor |-> <<0, 0>>, hidden |-> FALSE]

\* vga_flush, vga_update_cursor: the hardware cursor follows.
Flush(con) == [con EXCEPT !.cursor = <<con.row, con.column>>]

\* vga_clear.
Clear(con) ==
  Flush([con EXCEPT !.screen = BlankScreen, !.row = 0, !.column = 0,
                    !.pos = 0, !.offset = 0, !.total = 0])

\* vga_scrollback_reset: back to the live screen.
Reset(con) ==
  IF con.offset = 0 THEN con
  ELSE Flush([con EXCEPT !.offset = 0, !.screen_saved = FALSE,
                         !.screen = IF con.screen_saved THEN con.saved ELSE @])

\* vga_scroll: the top line goes to the ring and the others move up.
Scroll(con) ==
  [con EXCEPT
     !.ring[con.pos % SCROLLBACK_LINES] = con.screen[0],
     !.pos = @ + 1,
     !.total = IF @ < SCROLLBACK_LINES THEN @ + 1 ELSE @,
     !.screen = [y \in Rows |-> IF y + 1 \in Rows THEN con.screen[y + 1] ELSE BlankLine]]

\* A character is written to the cell at the cursor.
SetCell(con, c) == [con EXCEPT !.screen[con.row][con.column] = c]

\* Where the cursor goes: to the next line, back over the previous cell (not past
\* the first one), or on by one.
LineDown(con) == [con EXCEPT !.column = 0, !.row = @ + 1]
StepBack(con) ==
  IF con.column > 0 THEN [con EXCEPT !.column = @ - 1]
  ELSE IF con.row > 0 THEN [con EXCEPT !.row = @ - 1, !.column = WIDTH - 1]
  ELSE con
StepOn(con) ==
  IF con.column + 1 = WIDTH THEN LineDown(con) ELSE [con EXCEPT !.column = @ + 1]

\* vga_putchar_raw: output ends a look at the scrollback.
Put(con, c) ==
  LET live == Reset(con)
      moved == IF c = Newline THEN LineDown(live)
               ELSE IF c = Backspace THEN SetCell(StepBack(live), Blank)
               ELSE StepOn(SetCell(live, c))
  IN IF moved.row >= HEIGHT THEN Scroll([moved EXCEPT !.row = HEIGHT - 1]) ELSE moved

\* printf and vga_write, without the cursor.
PutAll(con, text) ==
  LET after[n \in 0 .. Len(text)] ==
        IF n = 0 THEN con ELSE Put(after[n - 1], text[n])
  IN after[Len(text)]

\* vga_scrollback_render: the screen "offset" lines back.
Render(con) ==
  LET start == con.pos - con.offset - HEIGHT
  IN [con EXCEPT
        !.hidden = TRUE,
        !.screen = [y \in Rows |->
           IF start + y \in 0 .. con.pos - 1
           THEN con.ring[(start + y) % SCROLLBACK_LINES] ELSE BlankLine]]

\* Mutant of ScrollUp: the screen is saved on every step.
ScrollUpSavesAgain(con, lines) ==
  IF con.total = 0 THEN con
  ELSE LET to == con.offset + lines
       IN Render([con EXCEPT
            !.saved = con.screen, !.screen_saved = TRUE,
            !.offset = IF to > con.total THEN con.total ELSE to])

\* vga_scrollback_up: the first step saves the live screen.
ScrollUp(con, lines) ==
  IF con.total = 0 THEN con
  ELSE LET first == con.offset = 0
           to == con.offset + lines
       IN Render([con EXCEPT
            !.saved = IF first THEN con.screen ELSE @,
            !.screen_saved = IF first THEN TRUE ELSE @,
            !.offset = IF to > con.total THEN con.total ELSE to])

\* vga_scrollback_down: the last step restores it.
ScrollDown(con, lines) ==
  IF con.offset <= lines THEN Reset(con)
  ELSE Render([con EXCEPT !.offset = @ - lines])

\* The screen as it is or will be again when the look at the scrollback ends.
Live(con) == IF con.offset > 0 THEN con.saved ELSE con.screen
=============================================================================
