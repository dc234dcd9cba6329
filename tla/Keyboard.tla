------------------------------ MODULE Keyboard ------------------------------
(***************************************************************************)
(* The keyboard driver (drivers/input/keyboard.c): IRQ1 decodes PS/2       *)
(* scancodes into characters and puts them into a ring; keyboard_getchar,  *)
(* called by sh_readline, takes them out without masking interrupts, polls *)
(* the controller itself when interrupts are off, and reads COM1.          *)
(*                                                                         *)
(* The keyboard, its controller (one byte deep) and the PIC are modelled   *)
(* from how the driver uses them. While IRQ0 is in service the PIC holds   *)
(* IRQ1 back; how long it is in service is up to the scheduler (module     *)
(* Scheduler), so here it comes and goes. Keys are physical keys; the      *)
(* letter stands for every key with a character in kbdus.                  *)
(***************************************************************************)
EXTENDS Integers, Sequences

CONSTANTS
  KBD_QUEUE_SIZE,  \* 64 in the code
  KEYS,            \* the physical keys that are used
  MAX_STROKES,     \* bound: key presses and releases per behaviour
  MAX_SERIAL       \* bound: bytes arriving on COM1 per behaviour

AllKeys == {"LSHIFT", "LCTRL", "RCTRL", "C", "UP"}

ASSUME KeyboardAssumption ==
  /\ KBD_QUEUE_SIZE \in Nat \ {0}
  /\ KEYS \subseteq AllKeys
  /\ MAX_STROKES \in Nat
  /\ MAX_SERIAL \in Nat

Index == 0 .. KBD_QUEUE_SIZE - 1

VARIABLES
  kbd_queue, kbd_q_head, kbd_q_tail,  \* the ring: write index, read index
  shift_held, ctrl_held, extended, interrupt_requested,
  intr,      \* RFLAGS.IF of the thread that reads
  irq1,      \* PIC: an edge on IRQ1 is latched
  irq0_in_service,    \* PIC: IRQ0 was delivered and its EOI has not been sent
  obf,       \* port 0x64 bit 0: a scancode waits in the output buffer
  port60,    \* the output buffer: that scancode, or the last one read
  wire,      \* scancodes the keyboard has still to send
  down,      \* keys held down
  com1,      \* bytes received by the UART
  pc,        \* where the reader is in keyboard_getchar
  queued,    \* its local: the character kbd_dequeue read
  typed,     \* history: the characters the key presses stand for
  decoded,   \* history: the characters given to kbd_enqueue
  taken,     \* history: the characters taken from the ring
  strokes, received   \* counters for the bounds

driver == <<kbd_queue, kbd_q_head, kbd_q_tail, shift_held, ctrl_held, extended,
            interrupt_requested, decoded>>
hardware == <<irq1, irq0_in_service, obf, port60, wire, down, typed, strokes>>
reader == <<intr, pc, queued, taken>>
serial == <<com1, received>>
vars == <<driver, hardware, reader, serial>>

Char == {"c", "C", "ctrl-c", "up"}
Scancode == {"E0", "2A", "AA", "1D", "9D", "2E", "AE", "48", "C8"}
SerialByte == {"c", "ctrl-c", "esc", "[", "A"}
Nul == "nul"

Init ==
  /\ kbd_queue = [i \in Index |-> Nul]
  /\ kbd_q_head = 0 /\ kbd_q_tail = 0
  /\ shift_held = FALSE /\ ctrl_held = FALSE /\ extended = FALSE
  /\ interrupt_requested = FALSE
  /\ intr = TRUE
  /\ irq1 = FALSE /\ irq0_in_service = FALSE /\ obf = FALSE /\ port60 = Nul /\ wire = <<>> /\ down = {}
  /\ com1 = <<>>
  /\ pc = "getchar" /\ queued = Nul
  /\ typed = <<>> /\ decoded = <<>> /\ taken = <<>>
  /\ strokes = 0 /\ received = 0

----------------------------------------------------------------------------
(* The keyboard and its controller (external) *)

\* Scancode set 1: what pressing and releasing a key puts on the wire.
MakeCode(k) ==
  CASE k = "LSHIFT" -> <<"2A">> [] k = "LCTRL" -> <<"1D">>
    [] k = "RCTRL" -> <<"E0", "1D">> [] k = "C" -> <<"2E">>
    [] k = "UP" -> <<"E0", "48">>
BreakCode(k) ==
  CASE k = "LSHIFT" -> <<"AA">> [] k = "LCTRL" -> <<"9D">>
    [] k = "RCTRL" -> <<"E0", "9D">> [] k = "C" -> <<"AE">>
    [] k = "UP" -> <<"E0", "C8">>

\* The characters a key press stands for, given the modifier keys held down.
Meaning(k) ==
  CASE k = "C" -> IF down \intersect {"LCTRL", "RCTRL"} # {} THEN <<"ctrl-c">>
                  ELSE IF "LSHIFT" \in down THEN <<"C">> ELSE <<"c">>
    [] k = "UP" -> <<"up">>
    [] OTHER -> <<>>

\* A key goes down or comes up.
Press(k) ==
  /\ strokes < MAX_STROKES /\ wire = <<>>
  /\ k \notin down
  /\ down' = down \union {k}
  /\ wire' = MakeCode(k)
  /\ typed' = typed \o Meaning(k)
  /\ strokes' = strokes + 1
  /\ UNCHANGED <<driver, reader, serial, irq1, irq0_in_service, obf, port60>>

Release(k) ==
  /\ strokes < MAX_STROKES /\ wire = <<>>
  /\ k \in down
  /\ down' = down \ {k}
  /\ wire' = BreakCode(k)
  /\ strokes' = strokes + 1
  /\ UNCHANGED <<driver, reader, serial, irq1, irq0_in_service, obf, port60, typed>>

\* The next scancode reaches the output buffer once the last one was read; the
\* controller raises IRQ1.
Send ==
  /\ wire # <<>> /\ ~obf
  /\ obf' = TRUE /\ port60' = Head(wire)
  /\ wire' = Tail(wire)
  /\ irq1' = TRUE
  /\ UNCHANGED <<driver, reader, serial, irq0_in_service, down, typed, strokes>>

\* A tick is taken, or the EOI of one is sent: by the interrupted thread, or much
\* later by another, after any number of switches. The PIC accepts IRQ0 again only
\* after the EOI; a reader with interrupts off is not interrupted.
Timer ==
  /\ intr
  /\ irq0_in_service' = ~irq0_in_service
  /\ UNCHANGED <<driver, reader, serial, irq1, obf, port60, wire, down, typed, strokes>>

\* A byte arrives on COM1.
Receive(b) ==
  /\ received < MAX_SERIAL
  /\ com1' = Append(com1, b)
  /\ received' = received + 1
  /\ UNCHANGED <<driver, hardware, reader>>

----------------------------------------------------------------------------
(* The driver *)

Advance(i) == (i + 1) % KBD_QUEUE_SIZE

Count == (kbd_q_head - kbd_q_tail) % KBD_QUEUE_SIZE
Waiting == [i \in 1 .. Count |-> kbd_queue[(kbd_q_tail + i - 1) % KBD_QUEUE_SIZE]]

\* Mutant of kbd_enqueue: a full queue overwrites its oldest character.
kbd_enqueue_overwrites(c) ==
  /\ kbd_queue' = [kbd_queue EXCEPT ![kbd_q_head] = c]
  /\ kbd_q_head' = Advance(kbd_q_head)
  /\ decoded' = Append(decoded, c)

\* kbd_enqueue: dropped when the ring is full.
kbd_enqueue(c) ==
  /\ IF Advance(kbd_q_head) = kbd_q_tail
     THEN UNCHANGED <<kbd_queue, kbd_q_head>>
     ELSE /\ kbd_queue' = [kbd_queue EXCEPT ![kbd_q_head] = c]
          /\ kbd_q_head' = Advance(kbd_q_head)
  /\ decoded' = Append(decoded, c)

NoCharacter == UNCHANGED <<kbd_queue, kbd_q_head, decoded, interrupt_requested>>

\* Mutant of Translate: the flag is set only for a character that is queued.
TranslateQueuedOnly ==
  LET c == IF ctrl_held THEN "ctrl-c" ELSE IF shift_held THEN "C" ELSE "c" IN
  /\ interrupt_requested' =
       (interrupt_requested \/ (c = "ctrl-c" /\ Advance(kbd_q_head) # kbd_q_tail))
  /\ kbd_enqueue(c)

\* A character from the tables: control codes, the Ctrl+C flag, the queue.
Translate ==
  LET c == IF ctrl_held THEN "ctrl-c" ELSE IF shift_held THEN "C" ELSE "c" IN
  /\ interrupt_requested' = (interrupt_requested \/ c = "ctrl-c")
  /\ kbd_enqueue(c)

\* Mutant of kbd_process_scancode: the prefix is not cleared by the code after it.
process_keeps_prefix(sc) ==
  \/ /\ sc = "E0"
     /\ extended' = TRUE
     /\ UNCHANGED <<shift_held, ctrl_held>> /\ NoCharacter
  \/ /\ sc \in {"2A", "AA"}
     /\ shift_held' = (sc = "2A")
     /\ UNCHANGED <<ctrl_held, extended>> /\ NoCharacter
  \/ /\ sc \in {"1D", "9D"}
     /\ ctrl_held' = (sc = "1D")
     /\ UNCHANGED <<shift_held, extended>> /\ NoCharacter
  \/ /\ sc \in {"2E", "AE", "48", "C8"} /\ extended
     /\ UNCHANGED <<shift_held, ctrl_held, extended>>
     /\ IF sc = "48" THEN kbd_enqueue("up") /\ UNCHANGED interrupt_requested
        ELSE NoCharacter
  \/ /\ sc \in {"2E", "AE", "48", "C8"} /\ ~extended
     /\ UNCHANGED <<shift_held, ctrl_held, extended>>
     /\ IF sc = "2E" THEN Translate ELSE NoCharacter

\* kbd_process_scancode: the prefix, the modifiers (checked before the prefix is
\* looked at, so E0 1D and E0 9D leave it set), extended keys, plain keys. 48
\* without its prefix has no character; releases have none.
kbd_process_scancode(sc) ==
  \/ /\ sc = "E0"
     /\ extended' = TRUE
     /\ UNCHANGED <<shift_held, ctrl_held>> /\ NoCharacter
  \/ /\ sc \in {"2A", "AA"}
     /\ shift_held' = (sc = "2A")
     /\ UNCHANGED <<ctrl_held, extended>> /\ NoCharacter
  \/ /\ sc \in {"1D", "9D"}
     /\ ctrl_held' = (sc = "1D")
     /\ UNCHANGED <<shift_held, extended>> /\ NoCharacter
  \/ /\ sc \in {"2E", "AE", "48", "C8"} /\ extended
     /\ extended' = FALSE
     /\ UNCHANGED <<shift_held, ctrl_held>>
     /\ IF sc = "48" THEN kbd_enqueue("up") /\ UNCHANGED interrupt_requested
        ELSE NoCharacter
  \/ /\ sc \in {"2E", "AE", "48", "C8"} /\ ~extended
     /\ UNCHANGED <<shift_held, ctrl_held, extended>>
     /\ IF sc = "2E" THEN Translate ELSE NoCharacter

\* keyboard_callback on IRQ1, which the PIC delivers while no IRQ0 is in service: a
\* scancode is read only if there is one.
keyboard_callback ==
  /\ intr /\ irq1 /\ ~irq0_in_service
  /\ irq1' = FALSE
  /\ obf' = FALSE
  /\ IF obf
     THEN kbd_process_scancode(port60)
     ELSE UNCHANGED <<kbd_queue, kbd_q_head, shift_held, ctrl_held, extended,
                      interrupt_requested, decoded>>
  /\ UNCHANGED <<kbd_q_tail, reader, serial, irq0_in_service, port60, wire, down, typed,
                 strokes>>

----------------------------------------------------------------------------
(* keyboard_getchar *)

Return(c) == pc' = "return" /\ queued' = c

\* kbd_dequeue finds the ring not empty and reads the oldest character.
DequeueRead ==
  /\ pc = "getchar" /\ kbd_q_tail # kbd_q_head
  /\ queued' = kbd_queue[kbd_q_tail]
  /\ pc' = "dequeued"
  /\ UNCHANGED <<driver, hardware, serial, intr, taken>>

\* The read index moves on and the character is returned.
DequeueAdvance ==
  /\ pc = "dequeued"
  /\ kbd_q_tail' = Advance(kbd_q_tail)
  /\ taken' = Append(taken, queued)
  /\ Return(queued)
  /\ UNCHANGED <<kbd_queue, kbd_q_head, shift_held, ctrl_held, extended,
                 interrupt_requested, decoded, hardware, serial, intr>>

\* Mutant of PollGuard: the controller is never polled.
PollNever == FALSE

PollGuard == ~intr /\ obf

\* Ring empty, interrupts off and a scancode waiting: the controller is polled.
PollStatus ==
  /\ pc = "getchar" /\ kbd_q_tail = kbd_q_head
  /\ PollGuard
  /\ pc' = "polled"
  /\ UNCHANGED <<driver, hardware, serial, intr, queued, taken>>

\* The scancode is read and processed. Its character, if it has one, is then
\* taken from the ring like any other. The IRQ1 latch stays set.
PollData ==
  /\ pc = "polled"
  /\ kbd_process_scancode(port60)
  /\ obf' = FALSE
  /\ pc' = "getchar"
  /\ UNCHANGED <<kbd_q_tail, irq1, irq0_in_service, port60, wire, down, typed, strokes,
                 intr, queued, taken, serial>>

\* Ring empty, controller not polled: a byte from COM1. An escape sequence is
\* recognised only as far as its bytes have already arrived; "[" and the byte
\* after it are gone even when they make no arrow key.
PollSerial ==
  /\ pc = "getchar" /\ kbd_q_tail = kbd_q_head
  /\ ~PollGuard /\ com1 # <<>>
  /\ LET n == IF com1[1] = "esc" /\ Len(com1) > 1
              THEN IF com1[2] = "[" /\ Len(com1) > 2 THEN 3 ELSE 2
              ELSE 1
     IN /\ Return(IF n = 3 /\ com1[3] = "A" THEN "up" ELSE com1[1])
        /\ com1' = SubSeq(com1, n + 1, Len(com1))
  /\ interrupt_requested' = (interrupt_requested \/ com1[1] = "ctrl-c")
  /\ UNCHANGED <<kbd_queue, kbd_q_head, kbd_q_tail, shift_held, ctrl_held,
                 extended, decoded, hardware, intr, taken, received>>

\* The caller uses the character and calls again, with interrupts on (as
\* sh_readline does) or off (what the driver's polling is for).
CallAgain ==
  /\ pc = "return"
  /\ pc' = "getchar" /\ queued' = Nul
  /\ intr' \in BOOLEAN
  /\ UNCHANGED <<driver, hardware, serial, taken>>

Read == DequeueRead \/ DequeueAdvance \/ PollStatus \/ PollData \/ PollSerial

Next ==
  \/ \E k \in KEYS : Press(k) \/ Release(k)
  \/ Send \/ Timer \/ (\E b \in SerialByte : Receive(b))
  \/ keyboard_callback
  \/ DequeueRead \/ DequeueAdvance \/ PollStatus \/ PollData \/ PollSerial
  \/ CallAgain

Spec == Init /\ [][Next]_vars

\* The controller sends what was typed, the PIC keeps IRQ1 latched until it may
\* deliver it, and the shell keeps reading. Nothing says that IRQ0 is ever taken
\* out of service.
FairSpec ==
  Spec /\ WF_vars(Send) /\ SF_vars(keyboard_callback) /\ WF_vars(Read)
       /\ WF_vars(CallAgain)
----------------------------------------------------------------------------
(* Properties *)

\* The type invariant of the ring, the decoder and the reader.
TypeOK ==
  /\ kbd_queue \in [Index -> Char \union {Nul}]
  /\ kbd_q_head \in Index /\ kbd_q_tail \in Index
  /\ {shift_held, ctrl_held, extended, interrupt_requested, intr, irq1,
      irq0_in_service, obf} \subseteq BOOLEAN
  /\ port60 \in Scancode \union {Nul}
  /\ wire \in Seq(Scancode)
  /\ down \subseteq KEYS
  /\ com1 \in Seq(SerialByte)
  /\ pc \in {"getchar", "dequeued", "polled", "return"}
  /\ queued \in Char \union SerialByte \union {Nul}
  /\ {typed, decoded, taken} \subseteq Seq(Char)

\* Although kbd_dequeue does not mask the interrupt that fills the ring, the ring
\* is a FIFO: IRQ1 never overwrites the character being read, drops only when
\* KBD_QUEUE_SIZE - 1 characters wait, and nothing is returned twice.
Fifo == INSTANCE BoundedFifo WITH
  Item <- Char,
  Capacity <- KBD_QUEUE_SIZE - 1,
  queue <- Waiting,
  offers <- Len(decoded)
ImplementsFifo == Fifo!FifoSpec

AllProcessed == wire = <<>> /\ ~obf

\* Each scancode is processed exactly once, by the interrupt or by the poll and
\* not by both, in order, with the modifiers as they were when the key went
\* down: what was decoded is what was typed.
DecodesKeys == AllProcessed => decoded = typed

\* Ctrl+C is noticed even when the ring has no room for its character.
CtrlCIsNoticed ==
  (\E i \in DOMAIN decoded : decoded[i] = "ctrl-c") => interrupt_requested

\* The cells between the indices hold characters that were queued.
RingHoldsChars ==
  \A i \in 1 .. Count : kbd_queue[(kbd_q_tail + i - 1) % KBD_QUEUE_SIZE] \in Char

\* Between the two steps of kbd_dequeue the character it read is still the oldest.
ReadIsAtTail ==
  pc = "dequeued" => kbd_q_tail # kbd_q_head /\ queued = kbd_queue[kbd_q_tail]

\* A scancode in the controller is a real one, and between the two reads of a poll
\* it is the poll's: the interrupt cannot take it.
ScancodeWaits == (obf => port60 # Nul) /\ (pc = "polled" => ~intr /\ obf)

\* The decoder on its own, without ring and interrupts: what a scancode makes of the
\* flags that are set and of the characters decoded so far.
Decode(st, sc) ==
  CASE sc = "E0" -> [st EXCEPT !.set = st.set \union {"E0"}]
    [] sc = "2A" -> [st EXCEPT !.set = st.set \union {"LSHIFT"}]
    [] sc = "AA" -> [st EXCEPT !.set = st.set \ {"LSHIFT"}]
    [] sc = "1D" -> [st EXCEPT !.set = st.set \union {"LCTRL"}]
    [] sc = "9D" -> [st EXCEPT !.set = st.set \ {"LCTRL"}]
    [] sc = "48" /\ "E0" \in st.set ->
         [set |-> st.set \ {"E0"}, out |-> Append(st.out, "up")]
    [] sc = "2E" /\ "E0" \notin st.set ->
         [st EXCEPT !.out = Append(st.out, IF "LCTRL" \in st.set THEN "ctrl-c"
                                           ELSE IF "LSHIFT" \in st.set THEN "C" ELSE "c")]
    [] OTHER -> [st EXCEPT !.set = st.set \ {"E0"}]

FlagsSet == {f \in {"E0", "LSHIFT", "LCTRL"} : \/ f = "E0" /\ extended
                                               \/ f = "LSHIFT" /\ shift_held
                                               \/ f = "LCTRL" /\ ctrl_held}
Decoder == [set |-> FlagsSet, out |-> decoded]

\* The state the decoder reaches once the output buffer and the wire are empty.
AfterBuffer == IF obf THEN Decode(Decoder, port60) ELSE Decoder
AfterWire ==
  CASE wire = <<>> -> AfterBuffer
    [] Len(wire) = 1 -> Decode(AfterBuffer, wire[1])
    [] OTHER -> Decode(Decode(AfterBuffer, wire[1]), wire[2])

\* The state it should reach: the keys held down, the characters typed.
AsTyped == [set |-> down \intersect {"LSHIFT", "LCTRL"}, out |-> typed]

\* Whatever is still on its way, the decoder is in step with the keyboard: once
\* the pending scancodes are decoded, its flags are the modifiers held down and
\* its characters the ones typed. (E0 1D of the right Ctrl key leaves the prefix
\* set, so this is about the other keys.)
InStep == Len(wire) <= 2 /\ AfterWire = AsTyped

\* The driver's state stays in its ranges, and a Ctrl+C decoded by either the
\* interrupt or the poll sets interrupt_requested, whether or not the ring is full.
\* With the facts above about the ring, the reader and the decoder it is inductive.
KeyboardInv ==
  /\ TypeOK /\ CtrlCIsNoticed
  /\ RingHoldsChars /\ ReadIsAtTail /\ ScancodeWaits
  /\ "RCTRL" \notin KEYS => InStep

\* The only way for a keystroke to be stuck is a tick whose EOI is never sent: the
\* ring and the controller are emptied again and again, even when IRQ1 was latched
\* while the reader had interrupts off, unless from some point on IRQ0 is in service
\* for ever and the reader waits with interrupts on, where it does not poll.
InputDrains ==
  \/ []<>(AllProcessed /\ kbd_q_head = kbd_q_tail)
  \/ <>[](irq0_in_service /\ intr)

\* keyboard.c: "handle extended ctrl (right ctrl) press/release: e0 1d / e0 9d",
\* and with ctrl held "ctrl+c -> 0x03".
RightCtrlWorks ==
  AllProcessed /\ (\E i \in DOMAIN typed : typed[i] = "ctrl-c")
    => interrupt_requested
=============================================================================
