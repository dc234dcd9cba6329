------------------------------- MODULE MCExec -------------------------------
(* Programs as the builder of the image lays them out: headers first, segment *)
(* bytes after them.                                                          *)
EXTENDS Exec

Segment(offset, vaddr, filesz, memsz) ==
  [load |-> TRUE, offset |-> offset, vaddr |-> vaddr, filesz |-> filesz, memsz |-> memsz]
Note == [load |-> FALSE, offset |-> 0, vaddr |-> 0, filesz |-> 0, memsz |-> 0]
Program(entry, phdrs, size) ==
  [valid |-> TRUE, entry |-> entry, phoff |-> 2, phdrs |-> phdrs, size |-> size]

\* Pages of two bytes; the allocator hands out pages from 2 up, three for a task.
Linked(base) ==
  Program(base, <<Segment(5, base, 3, 3), Note, Segment(8, base + 4, 1, 4)>>, 9)

\* hello ends where world begins, and low is linked where the shipped programs are, a
\* few pages above the first managed one. clear has no bytes in the file. The others
\* are refused, or are too long for the file or for memory.
Files == [hello |-> Linked(24), world |-> Linked(32), low |-> Linked(10),
          clear |-> Program(22, <<Segment(3, 22, 0, 2)>>, 4),
          data |-> [Program(24, <<Note>>, 4) EXCEPT !.valid = FALSE],
          short |-> Program(40, <<Segment(3, 40, 2, 2)>>, 4),
          big |-> Program(40, <<Segment(3, 39, 1, 5)>>, 4),
          wrap |-> Program(40, <<Segment(3, 38, 1, 30)>>, 4),
          top |-> Program(40, <<Segment(3, 42, 30, 30)>>, 8)]

\* The linker keeps the segments of a program apart.
ASSUME LinkedApart == \A g \in PROGRAMS : SegmentsApart(g)

LowFiles == [low |-> Linked(10)]
=============================================================================
