------------------------------- MODULE Serial -------------------------------
(***************************************************************************)
(* The transmit side of the COM1 driver (drivers/serial/serial.c): a ring  *)
(* filled by serial_putchar and serial_write, drained by them and by the   *)
(* serial_flush of pit_irq_handler. The three functions run with           *)
(* interrupts off and put the flag back as they found it; they are called  *)
(* with interrupts on (the shell) and off (cmd_exec, system calls).        *)
(*                                                                         *)
(* One step is one access to the shared indices, so that the interrupt     *)
(* handler could come in between if the flag allowed it.                   *)
(***************************************************************************)
EXTENDS Integers, Sequences

CONSTANTS
  Char,            \* characters
  SERIAL_TX_BUF,   \* 4096 in the code
  MAX_LINE,        \* bound: longest string passed to serial_write
  MAX_CHARS        \* bound: characters offered per behaviour

ASSUME SerialAssumption ==
  /\ SERIAL_TX_BUF \in Nat \ {0}
  /\ MAX_LINE \in Nat
  /\ MAX_CHARS \in Nat

Index == 0 .. SERIAL_TX_BUF - 1
Nul == "nul"                        \* what the ring holds before it is written

VARIABLES
  tx_buf, tx_head, tx_tail,  \* the ring: read index, write index
  intr,                      \* RFLAGS.IF
  flags,                     \* what irq_save_disable returned
  pc,                        \* where the thread is in the driver
  str,                       \* characters the thread still has to push
  wants,                     \* history: the flag the caller set with cli or sti
  offered,                   \* history: how many characters were pushed
  sent                       \* history: what the UART was given

serial_vars ==
  <<tx_buf, tx_head, tx_tail, intr, flags, pc, str, wants, offered, sent>>

Advance(i) == (i + 1) % SERIAL_TX_BUF

tx_empty == tx_head = tx_tail

\* Mutant of tx_full: the wrap of the write index is forgotten.
tx_full_no_wrap == tx_tail + 1 = tx_head

tx_full == Advance(tx_tail) = tx_head

\* How many characters wait in the ring, and which ones.
Count == (tx_tail - tx_head) % SERIAL_TX_BUF
Waiting == [i \in 1 .. Count |-> tx_buf[(tx_head + i - 1) % SERIAL_TX_BUF]]

SerialInit ==
  /\ tx_buf = [i \in Index |-> Nul]
  /\ tx_head = 0 /\ tx_tail = 0
  /\ intr = TRUE /\ flags = TRUE
  /\ pc = "caller"
  /\ str = <<>>
  /\ wants = TRUE
  /\ offered = 0
  /\ sent = <<>>

\* The caller turns interrupts off or on between its calls of the driver.
CallerCli ==
  /\ pc = "caller"
  /\ intr' = ~intr
  /\ wants' = intr'
  /\ UNCHANGED <<tx_buf, tx_head, tx_tail, flags, pc, str, offered, sent>>

irq_save_disable == flags' = intr /\ intr' = FALSE

\* Mutant of irq_restore: sti instead of popfq.
irq_enable == intr' = TRUE

irq_restore == intr' = flags

\* serial_putchar (one character) and serial_write (a string) begin.
BeginWrite(s) ==
  /\ pc = "caller"
  /\ offered + Len(s) <= MAX_CHARS
  /\ irq_save_disable
  /\ str' = s
  /\ pc' = "push"
  /\ UNCHANGED <<tx_buf, tx_head, tx_tail, wants, offered, sent>>

\* tx_push of the next character; it is dropped when the ring is full.
tx_push ==
  /\ pc = "push" /\ str # <<>>
  /\ IF tx_full
     THEN UNCHANGED <<tx_buf, tx_tail>>
     ELSE /\ tx_buf' = [tx_buf EXCEPT ![tx_tail] = Head(str)]
          /\ tx_tail' = Advance(tx_tail)
  /\ str' = Tail(str)
  /\ offered' = offered + 1
  /\ UNCHANGED <<tx_head, intr, flags, pc, wants, sent>>

\* The string is in the ring; serial_drain begins.
PushDone ==
  /\ pc = "push" /\ str = <<>>
  /\ pc' = "drain"
  /\ UNCHANGED <<tx_buf, tx_head, tx_tail, intr, flags, str, wants, offered, sent>>

\* serial_drain, ring not empty and the UART ready: outb of the character.
DrainOut ==
  /\ pc = "drain" /\ ~tx_empty
  /\ sent' = Append(sent, tx_buf[tx_head])
  /\ pc' = "advance"
  /\ UNCHANGED <<tx_buf, tx_head, tx_tail, intr, flags, str, wants, offered>>

\* ... and the read index moves on.
DrainAdvance ==
  /\ pc = "advance"
  /\ tx_head' = Advance(tx_head)
  /\ pc' = "drain"
  /\ UNCHANGED <<tx_buf, tx_tail, intr, flags, str, wants, offered, sent>>

\* The ring is empty or the UART busy: serial_drain ends, the call returns.
EndWrite ==
  /\ pc = "drain"
  /\ irq_restore
  /\ pc' = "caller"
  /\ UNCHANGED <<tx_buf, tx_head, tx_tail, flags, str, wants, offered, sent>>

\* serial_flush in pit_irq_handler: it runs with interrupts off anyway, sends as
\* much as the UART takes, and iretq puts the interrupted thread's flag back.
FlushIrq ==
  /\ intr
  /\ \E n \in 1 .. Count :
       /\ sent' = sent \o SubSeq(Waiting, 1, n)
       /\ tx_head' = (tx_head + n) % SERIAL_TX_BUF
  /\ UNCHANGED <<tx_buf, tx_tail, intr, flags, pc, str, wants, offered>>

Strings == UNION {[1 .. n -> Char] : n \in 1 .. MAX_LINE}

SerialNext ==
  \/ CallerCli
  \/ \E s \in Strings : BeginWrite(s)
  \/ tx_push \/ PushDone \/ DrainOut \/ DrainAdvance \/ EndWrite
  \/ FlushIrq

SerialSpec == SerialInit /\ [][SerialNext]_serial_vars

----------------------------------------------------------------------------
(* Properties *)

\* The type invariant of the ring and of the driver's caller.
TypeOK ==
  /\ tx_buf \in [Index -> Char \union {Nul}]
  /\ tx_head \in Index /\ tx_tail \in Index
  /\ intr \in BOOLEAN /\ flags \in BOOLEAN
  /\ pc \in {"caller", "push", "drain", "advance"}
  /\ str \in Seq(Char)
  /\ wants \in BOOLEAN
  /\ offered \in Nat
  /\ sent \in Seq(Char)

\* The ring is a FIFO of SERIAL_TX_BUF - 1 characters, whatever the timer
\* interrupt does: nothing is lost while there is room, nothing is sent twice
\* or out of order. (Between outb and the index update the character counts as
\* not yet taken.)
Fifo == INSTANCE BoundedFifo WITH
  Item <- Char,
  Capacity <- SERIAL_TX_BUF - 1,
  queue <- Waiting,
  offers <- offered,
  taken <- IF pc = "advance" THEN SubSeq(sent, 1, Len(sent) - 1) ELSE sent
ImplementsFifo == Fifo!FifoSpec

\* A caller that runs with interrupts off (cmd_exec, a system call) never finds
\* them on while or after it prints, and one that runs with them on gets them
\* back; inside the driver they are off.
CallerKeepsItsFlag == intr = (wants /\ pc = "caller")

\* The cells between the indices hold characters that were pushed, never the bytes
\* the ring started with.
RingHoldsChars == \A i \in 1 .. Count : tx_buf[(tx_head + i - 1) % SERIAL_TX_BUF] \in Char

\* Inside the driver "flags" is what the caller wants back.
FlagIsSaved == pc # "caller" => flags = wants

\* Between outb and the index update the character sent last is still in the ring.
SentIsAtHead ==
  pc = "advance" => ~tx_empty /\ sent # <<>> /\ sent[Len(sent)] = tx_buf[tx_head]

\* The ring's indices stay in the buffer and, whatever a caller or the timer was
\* doing in the driver, interrupts are on exactly when the caller left them on
\* (irq_save_disable and irq_restore pair up). With the three facts above it is
\* inductive.
SerialInv ==
  TypeOK /\ CallerKeepsItsFlag /\ RingHoldsChars /\ FlagIsSaved /\ SentIsAtHead
=============================================================================
