--------------------------- MODULE KeyboardProofs ---------------------------
(***************************************************************************)
(* Proofs about the keyboard driver for every size of its ring and any     *)
(* number of keystrokes: its invariant, that the ring implements           *)
(* BoundedFifo although the reader does not mask the interrupt that fills  *)
(* it, and that what is decoded is what was typed.                         *)
(***************************************************************************)
EXTENDS Keyboard, RingTheorems

N == KBD_QUEUE_SIZE

\* The ring of the driver in the terms of RingTheorems.
LEMMA WaitingIsRing ==
  ASSUME KeyboardInv
  PROVE  /\ N \in Nat \ {0} /\ kbd_q_tail \in 0 .. N - 1 /\ kbd_q_head \in 0 .. N - 1
         /\ kbd_queue \in [0 .. N - 1 -> Char \union {Nul}]
         /\ Count = (kbd_q_head - kbd_q_tail) % N
         /\ Waiting = RingSeq(kbd_queue, kbd_q_tail, kbd_q_head, N)
         /\ Holds(kbd_queue, kbd_q_tail, kbd_q_head, N, Char)
         /\ Count \in 0 .. N - 1
         /\ Count = 0 <=> kbd_q_tail = kbd_q_head
         /\ Count = N - 1 <=> Advance(kbd_q_head) = kbd_q_tail
         /\ Waiting \in Seq(Char) /\ Len(Waiting) = Count
  <1>1. /\ N \in Nat \ {0} /\ kbd_q_tail \in 0 .. N - 1 /\ kbd_q_head \in 0 .. N - 1
        /\ kbd_queue \in [0 .. N - 1 -> Char \union {Nul}]
    BY KeyboardAssumption DEF KeyboardInv, TypeOK, Index, N
  <1>2. /\ Count = (kbd_q_head - kbd_q_tail) % N
        /\ Waiting = RingSeq(kbd_queue, kbd_q_tail, kbd_q_head, N)
    BY DEF Count, Waiting, RingSeq, N
  <1>3. Holds(kbd_queue, kbd_q_tail, kbd_q_head, N, Char)
    BY DEF KeyboardInv, RingHoldsChars, Holds, Count, N
  <1>4. /\ Count \in 0 .. N - 1
        /\ Count = 0 <=> kbd_q_tail = kbd_q_head
        /\ Count = N - 1 <=> Advance(kbd_q_head) = kbd_q_tail
    BY <1>1, <1>2, RingCount DEF Advance, N
  <1>5. Waiting \in Seq(Char) /\ Len(Waiting) = Count
    BY <1>1, <1>2, <1>3, RingIsSeq
  <1> QED BY <1>1, <1>2, <1>3, <1>4, <1>5

\* The oldest character in the ring is a character.
LEMMA OldestIsChar ==
  ASSUME KeyboardInv, kbd_q_tail # kbd_q_head
  PROVE  /\ kbd_queue[kbd_q_tail] \in Char
         /\ Waiting[1] = kbd_queue[kbd_q_tail]
  <1>1. Count \in Nat /\ Count # 0 /\ kbd_q_tail \in 0 .. N - 1 /\ N \in Nat \ {0}
    BY WaitingIsRing
  <1>2. 1 \in 1 .. Count /\ (kbd_q_tail + 1 - 1) % N = kbd_q_tail
    BY <1>1
  <1> QED BY <1>2 DEF KeyboardInv, RingHoldsChars, Waiting, N

\* kbd_enqueue keeps the ring in order, whatever the reader is doing: the oldest
\* character stays where it is, and the new one joins the end unless it is full.
LEMMA Enqueue ==
  ASSUME KeyboardInv, NEW c \in Char, kbd_enqueue(c), kbd_q_tail' = kbd_q_tail
  PROVE  /\ kbd_queue' \in [Index -> Char \union {Nul}] /\ kbd_q_head' \in Index
         /\ RingHoldsChars'
         /\ kbd_q_tail # kbd_q_head => /\ kbd_q_tail # kbd_q_head'
                                       /\ kbd_queue'[kbd_q_tail] = kbd_queue[kbd_q_tail]
         /\ Waiting' = IF Len(Waiting) < N - 1 THEN Append(Waiting, c) ELSE Waiting
  <1>1. CASE Advance(kbd_q_head) = kbd_q_tail
    <2>1. UNCHANGED <<kbd_queue, kbd_q_head, kbd_q_tail>>
      BY <1>1 DEF kbd_enqueue
    <2>2. RingHoldsChars' /\ Waiting' = Waiting
      BY <2>1 DEF KeyboardInv, RingHoldsChars, Waiting, Count
    <2>3. kbd_queue' \in [Index -> Char \union {Nul}] /\ kbd_q_head' \in Index
      BY <2>1 DEF KeyboardInv, TypeOK
    <2>4. ~(Len(Waiting) < N - 1)
      BY <1>1, WaitingIsRing
    <2> QED BY <2>1, <2>2, <2>3, <2>4
  <1>2. CASE Advance(kbd_q_head) # kbd_q_tail
    <2>1. /\ kbd_queue' = [kbd_queue EXCEPT ![kbd_q_head] = c]
          /\ kbd_q_head' = (kbd_q_head + 1) % N
          /\ (kbd_q_head + 1) % N # kbd_q_tail
      BY <1>2 DEF kbd_enqueue, Advance, N
    <2>2. /\ Holds(kbd_queue', kbd_q_tail, kbd_q_head', N, Char)
          /\ Joins(c, RingSeq(kbd_queue, kbd_q_tail, kbd_q_head, N),
                   RingSeq(kbd_queue', kbd_q_tail, kbd_q_head', N))
      BY <2>1, WaitingIsRing, RingPush
    <2>3. RingHoldsChars'
      BY <2>2 DEF Holds, RingHoldsChars, Count, N
    <2>4. Waiting' = Append(Waiting, c)
      <3>1. Waiting' = RingSeq(kbd_queue', kbd_q_tail', kbd_q_head', N)
        BY DEF Waiting, Count, RingSeq, N
      <3> QED BY <2>2, <3>1, WaitingIsRing DEF Joins
    <2>5. Len(Waiting) < N - 1
      BY <1>2, WaitingIsRing
    <2>6. kbd_q_head' \in 0 .. N - 1 /\ kbd_queue' \in [Index -> Char \union {Nul}]
      BY <2>1, WaitingIsRing DEF Index, N
    <2> QED BY <2>1, <2>3, <2>4, <2>5, <2>6, WaitingIsRing DEF Index, N
  <1> QED BY <1>1, <1>2

\* The flags of the decoder and the characters it has produced, as booleans and a
\* sequence.
DecoderTyped ==
  /\ shift_held \in BOOLEAN /\ ctrl_held \in BOOLEAN /\ extended \in BOOLEAN
  /\ interrupt_requested \in BOOLEAN
  /\ decoded \in Seq(Char)

\* kbd_process_scancode gives kbd_enqueue at most one character and sets the Ctrl+C
\* flag with it.
LEMMA ProcessCases ==
  ASSUME DecoderTyped, NEW sc \in Scancode, kbd_process_scancode(sc)
  PROVE  /\ DecoderTyped'
         /\ \/ NoCharacter
            \/ \E c \in Char : /\ kbd_enqueue(c)
                               /\ c = "ctrl-c" => interrupt_requested'
                               /\ interrupt_requested => interrupt_requested'
  <1> USE DEF DecoderTyped, Char
  <1>1. CASE sc \in {"E0", "2A", "AA", "1D", "9D"}
    BY <1>1 DEF kbd_process_scancode, NoCharacter
  <1>2. CASE sc \in {"2E", "AE", "48", "C8"} /\ extended
    <2>1. CASE sc = "48"
      <3>1. /\ kbd_enqueue("up") /\ extended' = FALSE
            /\ UNCHANGED <<shift_held, ctrl_held, interrupt_requested>>
        BY <1>2, <2>1 DEF kbd_process_scancode
      <3>2. decoded' \in Seq(Char)
        BY <3>1 DEF kbd_enqueue
      <3> QED BY <3>1, <3>2
    <2>2. CASE sc # "48"
      BY <1>2, <2>2 DEF kbd_process_scancode, NoCharacter
    <2> QED BY <2>1, <2>2
  <1>3. CASE sc \in {"2E", "AE", "48", "C8"} /\ ~extended
    <2>1. CASE sc = "2E"
      <3> DEFINE c == IF ctrl_held THEN "ctrl-c" ELSE IF shift_held THEN "C" ELSE "c"
      <3>1. /\ kbd_enqueue(c) /\ interrupt_requested' = (interrupt_requested \/ c = "ctrl-c")
            /\ UNCHANGED <<shift_held, ctrl_held, extended>>
        BY <1>3, <2>1 DEF kbd_process_scancode, Translate
      <3>2. c \in Char
        OBVIOUS
      <3> HIDE DEF c
      <3>3. decoded' \in Seq(Char)
        BY <3>1, <3>2 DEF kbd_enqueue
      <3>4. interrupt_requested' \in BOOLEAN
        BY <3>1
      <3> QED BY <3>1, <3>2, <3>3, <3>4
    <2>2. CASE sc # "2E"
      BY <1>3, <2>2 DEF kbd_process_scancode, NoCharacter
    <2> QED BY <2>1, <2>2
  <1> QED BY <1>1, <1>2, <1>3 DEF Scancode

\* ... and it changes the decoder as Decode says.
LEMMA ProcessDecodes ==
  ASSUME DecoderTyped, NEW sc \in Scancode, kbd_process_scancode(sc)
  PROVE  Decoder' = Decode(Decoder, sc)
  <1>1. CASE sc = "E0"
    <2>1. extended' /\ UNCHANGED <<shift_held, ctrl_held, decoded>>
      BY <1>1 DEF kbd_process_scancode, NoCharacter
    <2>2. FlagsSet' = FlagsSet \union {"E0"}
      BY <2>1 DEF FlagsSet
    <2> QED BY <1>1, <2>1, <2>2 DEF Decoder, Decode
  <1>2. CASE sc = "2A"
    <2>1. shift_held' /\ UNCHANGED <<extended, ctrl_held, decoded>>
      BY <1>2 DEF kbd_process_scancode, NoCharacter
    <2>2. FlagsSet' = FlagsSet \union {"LSHIFT"}
      BY <2>1 DEF FlagsSet
    <2> QED BY <1>2, <2>1, <2>2 DEF Decoder, Decode
  <1>3. CASE sc = "AA"
    <2>1. ~shift_held' /\ UNCHANGED <<extended, ctrl_held, decoded>>
      BY <1>3 DEF kbd_process_scancode, NoCharacter
    <2>2. FlagsSet' = FlagsSet \ {"LSHIFT"}
      BY <2>1 DEF FlagsSet
    <2> QED BY <1>3, <2>1, <2>2 DEF Decoder, Decode
  <1>4. CASE sc = "1D"
    <2>1. ctrl_held' /\ UNCHANGED <<extended, shift_held, decoded>>
      BY <1>4 DEF kbd_process_scancode, NoCharacter
    <2>2. FlagsSet' = FlagsSet \union {"LCTRL"}
      BY <2>1 DEF FlagsSet
    <2> QED BY <1>4, <2>1, <2>2 DEF Decoder, Decode
  <1>5. CASE sc = "9D"
    <2>1. ~ctrl_held' /\ UNCHANGED <<extended, shift_held, decoded>>
      BY <1>5 DEF kbd_process_scancode, NoCharacter
    <2>2. FlagsSet' = FlagsSet \ {"LCTRL"}
      BY <2>1 DEF FlagsSet
    <2> QED BY <1>5, <2>1, <2>2 DEF Decoder, Decode
  <1>f. /\ "E0" \in FlagsSet <=> extended
        /\ "LCTRL" \in FlagsSet <=> ctrl_held
        /\ "LSHIFT" \in FlagsSet <=> shift_held
    BY DEF FlagsSet
  <1>6. CASE sc \in {"2E", "AE", "48", "C8"} /\ extended
    <2>1. ~extended' /\ UNCHANGED <<shift_held, ctrl_held>>
      BY <1>6 DEF kbd_process_scancode
    <2>2. FlagsSet' = FlagsSet \ {"E0"}
      BY <2>1 DEF FlagsSet
    <2>3. decoded' = IF sc = "48" THEN Append(decoded, "up") ELSE decoded
      BY <1>6 DEF kbd_process_scancode, kbd_enqueue, NoCharacter
    <2> QED BY <1>6, <1>f, <2>2, <2>3 DEF Decoder, Decode
  <1>7. CASE sc \in {"2E", "AE", "48", "C8"} /\ ~extended
    <2> DEFINE c == IF ctrl_held THEN "ctrl-c" ELSE IF shift_held THEN "C" ELSE "c"
    <2>1. UNCHANGED <<shift_held, ctrl_held, extended>>
      BY <1>7 DEF kbd_process_scancode
    <2>2. FlagsSet' = FlagsSet /\ FlagsSet \ {"E0"} = FlagsSet
      BY <1>7, <2>1 DEF FlagsSet
    <2>3. decoded' = IF sc = "2E" THEN Append(decoded, c) ELSE decoded
      BY <1>7 DEF kbd_process_scancode, Translate, kbd_enqueue, NoCharacter
    <2> QED BY <1>7, <1>f, <2>2, <2>3 DEF Decoder, Decode
  <1> QED BY <1>1, <1>2, <1>3, <1>4, <1>5, <1>6, <1>7 DEF Scancode

\* What processing the scancode of the controller does to the parts of the state
\* the invariant speaks of.
LEMMA ProcessKeepsRing ==
  ASSUME KeyboardInv, port60 \in Scancode, kbd_process_scancode(port60),
         kbd_q_tail' = kbd_q_tail
  PROVE  /\ kbd_queue' \in [Index -> Char \union {Nul}] /\ kbd_q_head' \in Index
         /\ DecoderTyped'
         /\ RingHoldsChars' /\ CtrlCIsNoticed'
         /\ kbd_q_tail # kbd_q_head => /\ kbd_q_tail # kbd_q_head'
                                       /\ kbd_queue'[kbd_q_tail] = kbd_queue[kbd_q_tail]
         /\ \/ Waiting' = Waiting /\ decoded' = decoded
            \/ \E c \in Char :
                 /\ Waiting' = IF Len(Waiting) < N - 1 THEN Append(Waiting, c) ELSE Waiting
                 /\ Len(decoded') = Len(decoded) + 1
  <1>1. DecoderTyped
    BY DEF KeyboardInv, TypeOK, DecoderTyped
  <1>2. DecoderTyped'
    BY <1>1, ProcessCases
  <1>3. CASE NoCharacter
    <2>1. UNCHANGED <<kbd_queue, kbd_q_head, kbd_q_tail, decoded, interrupt_requested>>
      BY <1>3 DEF NoCharacter
    <2>2. RingHoldsChars' /\ Waiting' = Waiting /\ CtrlCIsNoticed'
      BY <2>1 DEF KeyboardInv, RingHoldsChars, Waiting, Count, CtrlCIsNoticed
    <2>3. kbd_queue' \in [Index -> Char \union {Nul}] /\ kbd_q_head' \in Index
      BY <2>1 DEF KeyboardInv, TypeOK
    <2> QED BY <1>2, <2>1, <2>2, <2>3
  <1>4. ASSUME NEW c \in Char, kbd_enqueue(c), c = "ctrl-c" => interrupt_requested',
               interrupt_requested => interrupt_requested'
        PROVE  /\ CtrlCIsNoticed'
               /\ Len(decoded') = Len(decoded) + 1
    <2>1. decoded' = Append(decoded, c) /\ decoded \in Seq(Char)
      BY <1>1, <1>4 DEF kbd_enqueue, DecoderTyped
    <2>2. Len(decoded') = Len(decoded) + 1 /\ DOMAIN decoded' = 1 .. Len(decoded) + 1
      BY <2>1
    <2>3. ASSUME NEW i \in DOMAIN decoded', decoded'[i] = "ctrl-c"
          PROVE  interrupt_requested'
      <3>1. i \in 1 .. Len(decoded) + 1
        BY <2>2
      <3>2. i = Len(decoded) + 1 \/ (i \in DOMAIN decoded /\ i # Len(decoded) + 1)
        BY <2>1, <3>1
      <3>3. decoded'[i] = IF i = Len(decoded) + 1 THEN c ELSE decoded[i]
        BY <2>1, <3>1, AppendAt
      <3> QED BY <1>4, <2>3, <3>2, <3>3 DEF KeyboardInv, CtrlCIsNoticed
    <2> QED BY <2>2, <2>3 DEF CtrlCIsNoticed
  <1>5. ASSUME NEW c \in Char, kbd_enqueue(c), c = "ctrl-c" => interrupt_requested',
               interrupt_requested => interrupt_requested'
        PROVE  /\ kbd_queue' \in [Index -> Char \union {Nul}] /\ kbd_q_head' \in Index
               /\ RingHoldsChars' /\ CtrlCIsNoticed'
               /\ kbd_q_tail # kbd_q_head =>
                    /\ kbd_q_tail # kbd_q_head'
                    /\ kbd_queue'[kbd_q_tail] = kbd_queue[kbd_q_tail]
               /\ Waiting' = IF Len(Waiting) < N - 1 THEN Append(Waiting, c) ELSE Waiting
               /\ Len(decoded') = Len(decoded) + 1
    BY <1>4, <1>5, Enqueue
  <1> QED BY <1>1, <1>2, <1>3, <1>5, ProcessCases

\* The decoder's future depends on the buffer, the wire and its own state only.
LEMMA StaysInStep ==
  ASSUME InStep, AfterBuffer' = AfterBuffer, UNCHANGED <<wire, down, typed>>
  PROVE  InStep'
  <1>1. AfterWire' = AfterWire
    BY DEF AfterWire
  <1>2. AsTyped' = AsTyped
    BY DEF AsTyped
  <1> QED BY <1>1, <1>2 DEF InStep

\* Processing the scancode in the buffer brings the decoder to where it was headed.
LEMMA ProcessInStep ==
  ASSUME KeyboardInv, obf, port60 \in Scancode, kbd_process_scancode(port60), ~obf'
  PROVE  AfterBuffer' = AfterBuffer
  <1>1. DecoderTyped
    BY DEF KeyboardInv, TypeOK, DecoderTyped
  <1>2. Decoder' = Decode(Decoder, port60)
    BY <1>1, ProcessDecodes
  <1> QED BY <1>2 DEF AfterBuffer

\* A scancode moves from the wire to the buffer.
LEMMA SendInStep ==
  ASSUME KeyboardInv, InStep, Send
  PROVE  InStep'
  <1>1. /\ wire \in Seq(Scancode) /\ wire # <<>> /\ Len(wire) \in {1, 2}
        /\ port60' = wire[1] /\ wire' = Tail(wire)
    <2>1. wire \in Seq(Scancode) /\ wire # <<>> /\ Len(wire) <= 2
      BY DEF KeyboardInv, TypeOK, InStep, Send
    <2>2. Len(wire) \in Nat /\ Len(wire) # 0
      BY <2>1
    <2>3. Len(wire) = 1 \/ Len(wire) = 2
      <3> DEFINE n == Len(wire)
      <3>1. n \in Nat /\ n # 0 /\ n <= 2
        BY <2>1, <2>2
      <3> HIDE DEF n
      <3>2. n = 1 \/ n = 2
        BY <3>1
      <3> QED BY <3>2 DEF n
    <2>4. Head(wire) = wire[1]
      BY <2>1
    <2> QED BY <2>1, <2>3, <2>4 DEF Send
  <1>2. UNCHANGED <<down, typed, shift_held, ctrl_held, extended, decoded>> /\ ~obf /\ obf'
    BY DEF Send, driver
  <1>t. AsTyped' = AsTyped
    BY <1>2 DEF AsTyped
  <1>3. AfterBuffer = Decoder /\ AfterBuffer' = Decode(Decoder, wire[1])
    <2>1. Decoder' = Decoder
      BY <1>2 DEF Decoder, FlagsSet
    <2>2. AfterBuffer = Decoder
      BY <1>2 DEF AfterBuffer
    <2>3. AfterBuffer' = Decode(Decoder', port60')
      BY <1>2 DEF AfterBuffer
    <2> QED BY <1>1, <2>1, <2>2, <2>3
  <1>4. CASE Len(wire) = 1
    <2>1. wire' = <<>>
      BY <1>1, <1>4
    <2>2. AfterWire = Decode(Decoder, wire[1])
      BY <1>1, <1>3, <1>4 DEF AfterWire
    <2>3. AfterWire' = AfterBuffer' /\ Len(wire') = 0
      BY <2>1 DEF AfterWire
    <2> QED BY <1>t, <1>3, <2>2, <2>3 DEF InStep
  <1>5. CASE Len(wire) = 2
    <2>1. wire' # <<>> /\ Len(wire') = 1 /\ wire'[1] = wire[2]
      <3>1. Len(wire') = 1 /\ wire'[1] = wire[2]
        BY <1>1, <1>5
      <3> QED BY <3>1
    <2>2. AfterWire = Decode(Decode(Decoder, wire[1]), wire[2])
      BY <1>1, <1>3, <1>5 DEF AfterWire
    <2>3. AfterWire' = Decode(AfterBuffer', wire'[1])
      BY <2>1 DEF AfterWire
    <2> QED BY <1>t, <1>3, <2>1, <2>2, <2>3 DEF InStep
  <1> QED BY <1>1, <1>4, <1>5

\* The flags, whatever else happened, when the buffer and the decoder are untouched.
LEMMA DecoderUntouched ==
  ASSUME UNCHANGED <<shift_held, ctrl_held, extended, decoded, obf, port60>>
  PROVE  AfterBuffer' = AfterBuffer
  <1>1. Decoder' = Decoder
    BY DEF Decoder, FlagsSet
  <1>2. AfterBuffer' = IF obf' THEN Decode(Decoder', port60') ELSE Decoder'
    BY DEF AfterBuffer
  <1> QED BY <1>1, <1>2 DEF AfterBuffer

\* A key goes down: its make code brings the decoder to the new set of keys, and
\* to the character the key stands for.
LEMMA PressInStep ==
  ASSUME KeyboardInv, InStep, "RCTRL" \notin KEYS, NEW k \in KEYS, Press(k)
  PROVE  InStep'
  <1>1. /\ wire = <<>> /\ wire' = MakeCode(k) /\ down' = down \union {k}
        /\ typed' = typed \o Meaning(k)
        /\ UNCHANGED <<shift_held, ctrl_held, extended, decoded, obf, port60>>
    BY DEF Press, driver
  <1>2. /\ AfterBuffer' = AfterBuffer
        /\ AfterBuffer = AsTyped
    BY <1>1, DecoderUntouched DEF InStep, AfterWire
  <1>3. typed \in Seq(Char) /\ "RCTRL" \notin down
    BY DEF KeyboardInv, TypeOK
  <1>4. k \in {"LSHIFT", "LCTRL", "C", "UP"}
    BY KeyboardAssumption DEF AllKeys
  <1>5. CASE k = "LSHIFT"
    <2>1. wire' = <<"2A">> /\ typed' = typed
      BY <1>1, <1>3, <1>5 DEF MakeCode, Meaning
    <2>2. AfterWire' = Decode(AsTyped, "2A")
      BY <1>2, <2>1 DEF AfterWire
    <2>3. Decode(AsTyped, "2A") = AsTyped'
      BY <1>1, <1>5, <2>1 DEF Decode, AsTyped
    <2> QED BY <2>1, <2>2, <2>3 DEF InStep
  <1>6. CASE k = "LCTRL"
    <2>1. wire' = <<"1D">> /\ typed' = typed
      BY <1>1, <1>3, <1>6 DEF MakeCode, Meaning
    <2>2. AfterWire' = Decode(AsTyped, "1D")
      BY <1>2, <2>1 DEF AfterWire
    <2>3. Decode(AsTyped, "1D") = AsTyped'
      BY <1>1, <1>6, <2>1 DEF Decode, AsTyped
    <2> QED BY <2>1, <2>2, <2>3 DEF InStep
  <1>7. CASE k = "C"
    <2> DEFINE c == IF "LCTRL" \in down THEN "ctrl-c"
                    ELSE IF "LSHIFT" \in down THEN "C" ELSE "c"
    <2>1. wire' = <<"2E">>
      BY <1>1, <1>7 DEF MakeCode
    <2>2. Meaning(k) = <<c>> /\ c \in Char
      BY <1>3, <1>7 DEF Meaning, Char
    <2>3. typed' = Append(typed, c)
      BY <1>1, <1>3, <2>2
    <2>4. AfterWire' = Decode(AsTyped, "2E")
      BY <1>2, <2>1 DEF AfterWire
    <2>5. Decode(AsTyped, "2E") = [AsTyped EXCEPT !.out = Append(typed, c)]
      BY DEF Decode, AsTyped
    <2>6. Decode(AsTyped, "2E") = AsTyped'
      BY <1>1, <1>7, <2>3, <2>5 DEF AsTyped
    <2> QED BY <2>1, <2>4, <2>6 DEF InStep
  <1>8. CASE k = "UP"
    <2>1. wire' = <<"E0", "48">> /\ Len(wire') = 2 /\ wire'[1] = "E0" /\ wire'[2] = "48"
      BY <1>1, <1>8 DEF MakeCode
    <2>2. typed' = Append(typed, "up")
      BY <1>1, <1>3, <1>8 DEF Meaning
    <2>3. AfterWire' = Decode(Decode(AsTyped, "E0"), "48")
      BY <1>2, <2>1 DEF AfterWire
    <2>4. Decode(Decode(AsTyped, "E0"), "48") = AsTyped'
      BY <1>1, <1>8, <2>2 DEF Decode, AsTyped
    <2> QED BY <2>1, <2>3, <2>4 DEF InStep
  <1> QED BY <1>4, <1>5, <1>6, <1>7, <1>8

\* A key comes up.
LEMMA ReleaseInStep ==
  ASSUME KeyboardInv, InStep, "RCTRL" \notin KEYS, NEW k \in KEYS, Release(k)
  PROVE  InStep'
  <1>1. /\ wire = <<>> /\ wire' = BreakCode(k) /\ down' = down \ {k}
        /\ UNCHANGED <<typed, shift_held, ctrl_held, extended, decoded, obf, port60>>
    BY DEF Release, driver
  <1>2. /\ AfterBuffer' = AfterBuffer
        /\ AfterBuffer = AsTyped
    BY <1>1, DecoderUntouched DEF InStep, AfterWire
  <1>4. k \in {"LSHIFT", "LCTRL", "C", "UP"}
    BY KeyboardAssumption DEF AllKeys
  <1>5. ASSUME k \in {"LSHIFT", "LCTRL", "C"}
        PROVE  \E sc \in {"AA", "9D", "AE"} :
                 wire' = <<sc>> /\ Decode(AsTyped, sc) = AsTyped'
    <2>1. CASE k = "LSHIFT"
      BY <1>1, <2>1 DEF BreakCode, Decode, AsTyped
    <2>2. CASE k = "LCTRL"
      BY <1>1, <2>2 DEF BreakCode, Decode, AsTyped
    <2>3. CASE k = "C"
      BY <1>1, <2>3 DEF BreakCode, Decode, AsTyped
    <2> QED BY <1>5, <2>1, <2>2, <2>3
  <1>6. CASE k \in {"LSHIFT", "LCTRL", "C"}
    <2>1. PICK sc : wire' = <<sc>> /\ Decode(AsTyped, sc) = AsTyped'
      BY <1>5, <1>6
    <2>2. AfterWire' = Decode(AsTyped, sc)
      BY <1>2, <2>1 DEF AfterWire
    <2> QED BY <2>1, <2>2 DEF InStep
  <1>7. CASE k = "UP"
    <2>1. wire' = <<"E0", "C8">> /\ Len(wire') = 2 /\ wire'[1] = "E0" /\ wire'[2] = "C8"
      BY <1>1, <1>7 DEF BreakCode
    <2>2. AfterWire' = Decode(Decode(AsTyped, "E0"), "C8")
      BY <1>2, <2>1 DEF AfterWire
    <2>3. Decode(Decode(AsTyped, "E0"), "C8") = AsTyped'
      BY <1>1, <1>7 DEF Decode, AsTyped
    <2> QED BY <2>1, <2>2, <2>3 DEF InStep
  <1> QED BY <1>4, <1>6, <1>7

\* The parts of the state that only the decoder and the reader's ring touch.
LEMMA RingUntouched ==
  ASSUME KeyboardInv, UNCHANGED <<kbd_queue, kbd_q_head, kbd_q_tail>>
  PROVE  RingHoldsChars'
  BY DEF KeyboardInv, RingHoldsChars, Count

\* Keys have scancodes, and stand for characters.
LEMMA CodesAndMeaning ==
  ASSUME NEW k \in KEYS
  PROVE  /\ MakeCode(k) \in Seq(Scancode) /\ BreakCode(k) \in Seq(Scancode)
         /\ Meaning(k) \in Seq(Char)
  <1>1. k \in {"LSHIFT", "LCTRL", "RCTRL", "C", "UP"}
    BY KeyboardAssumption DEF AllKeys
  <1>2. ASSUME NEW a \in Scancode, NEW b \in Scancode
        PROVE  <<a>> \in Seq(Scancode) /\ <<a, b>> \in Seq(Scancode)
    OBVIOUS
  <1>3. MakeCode(k) \in Seq(Scancode)
    <2>1. {"2A", "1D", "2E", "E0", "48"} \subseteq Scancode
      BY DEF Scancode
    <2> QED BY <1>1, <1>2, <2>1 DEF MakeCode
  <1>4. BreakCode(k) \in Seq(Scancode)
    <2>1. {"AA", "9D", "AE", "E0", "C8"} \subseteq Scancode
      BY DEF Scancode
    <2> QED BY <1>1, <1>2, <2>1 DEF BreakCode
  <1>5. Meaning(k) \in {<<>>, <<"c">>, <<"C">>, <<"ctrl-c">>, <<"up">>}
    BY <1>1 DEF Meaning
  <1>6. {<<>>, <<"c">>, <<"C">>, <<"ctrl-c">>, <<"up">>} \subseteq Seq(Char)
    <2>1. ASSUME NEW c \in Char PROVE <<c>> \in Seq(Char)
      OBVIOUS
    <2> QED BY <2>1 DEF Char
  <1> QED BY <1>3, <1>4, <1>5, <1>6

\* In every reachable state the invariant holds, for every size of the ring, any set
\* of keys and any number of keystrokes.
THEOREM KeyboardInvariance == Spec => []KeyboardInv
  <1>1. Init => KeyboardInv
    <2> SUFFICES ASSUME Init PROVE KeyboardInv
      OBVIOUS
    <2>1. TypeOK
      <3>1. /\ kbd_queue \in [Index -> Char \union {Nul}]
            /\ kbd_q_head \in Index /\ kbd_q_tail \in Index
        BY KeyboardAssumption DEF Init, Index
      <3>2. {shift_held, ctrl_held, extended, interrupt_requested, intr, irq1, obf}
              \subseteq BOOLEAN
        BY DEF Init
      <3>3. wire \in Seq(Scancode) /\ com1 \in Seq(SerialByte)
        BY DEF Init
      <3>4. {typed, decoded, taken} \subseteq Seq(Char)
        BY DEF Init
      <3> QED BY <3>1, <3>2, <3>3, <3>4 DEF Init, TypeOK
    <2>2. CtrlCIsNoticed
      BY DEF Init, CtrlCIsNoticed
    <2>3. RingHoldsChars
      <3>1. Count = 0
        BY KeyboardAssumption DEF Init, Count
      <3> QED BY <3>1 DEF RingHoldsChars
    <2>4. ReadIsAtTail /\ ScancodeWaits
      BY DEF Init, ReadIsAtTail, ScancodeWaits
    <2>5. InStep
      <3>1. FlagsSet = {} /\ decoded = <<>> /\ AfterWire = Decoder
        BY DEF Init, FlagsSet, AfterWire, AfterBuffer
      <3>2. AsTyped = Decoder
        BY <3>1 DEF Init, Decoder, AsTyped
      <3> QED BY <3>1, <3>2 DEF Init, InStep
    <2> QED BY <2>1, <2>2, <2>3, <2>4, <2>5 DEF KeyboardInv
  <1>2. KeyboardInv /\ [Next]_vars => KeyboardInv'
    <2> SUFFICES ASSUME KeyboardInv, [Next]_vars PROVE KeyboardInv'
      OBVIOUS
    <2>i. TypeOK /\ CtrlCIsNoticed /\ RingHoldsChars /\ ReadIsAtTail /\ ScancodeWaits
      BY DEF KeyboardInv
    <2>s. ASSUME AfterBuffer' = AfterBuffer, UNCHANGED <<wire, down, typed>>
          PROVE  "RCTRL" \notin KEYS => InStep'
      BY <2>s, StaysInStep DEF KeyboardInv
    <2>d. UNCHANGED <<driver, irq1, obf, port60>> => RingHoldsChars' /\ CtrlCIsNoticed'
      BY RingUntouched DEF driver, KeyboardInv, CtrlCIsNoticed
    <2>1. ASSUME NEW k \in KEYS, Press(k)
          PROVE  KeyboardInv'
      <3>1. TypeOK'
        <4>1. MakeCode(k) \in Seq(Scancode) /\ Meaning(k) \in Seq(Char)
          BY CodesAndMeaning
        <4>2. typed' \in Seq(Char) /\ wire' \in Seq(Scancode) /\ down' \subseteq KEYS
          BY <2>1, <2>i, <4>1 DEF Press, TypeOK
        <4> QED BY <2>1, <2>i, <4>2 DEF Press, TypeOK, driver, reader, serial
      <3>2. ReadIsAtTail' /\ ScancodeWaits'
        BY <2>1, <2>i DEF Press, driver, reader, ReadIsAtTail, ScancodeWaits
      <3>3. "RCTRL" \notin KEYS => InStep'
        BY <2>1, PressInStep DEF KeyboardInv
      <3> QED BY <2>1, <2>d, <3>1, <3>2, <3>3 DEF Press, KeyboardInv
    <2>2. ASSUME NEW k \in KEYS, Release(k)
          PROVE  KeyboardInv'
      <3>1. TypeOK'
        <4>1. BreakCode(k) \in Seq(Scancode)
          BY CodesAndMeaning
        <4> QED BY <2>2, <2>i, <4>1 DEF Release, TypeOK, driver, reader, serial
      <3>2. ReadIsAtTail' /\ ScancodeWaits'
        BY <2>2, <2>i DEF Release, driver, reader, ReadIsAtTail, ScancodeWaits
      <3>3. "RCTRL" \notin KEYS => InStep'
        BY <2>2, ReleaseInStep DEF KeyboardInv
      <3> QED BY <2>2, <2>d, <3>1, <3>2, <3>3 DEF Release, KeyboardInv
    <2>3. CASE Send
      <3>1. Head(wire) \in Scancode /\ Tail(wire) \in Seq(Scancode)
        BY <2>3, <2>i DEF Send, TypeOK
      <3>2. TypeOK'
        BY <2>3, <2>i, <3>1 DEF Send, TypeOK, driver, reader, serial
      <3>3. ReadIsAtTail' /\ ScancodeWaits'
        BY <2>3, <2>i, <3>1 DEF Send, driver, reader, ReadIsAtTail, ScancodeWaits,
           Scancode, Nul
      <3>4. RingHoldsChars' /\ CtrlCIsNoticed'
        BY <2>3, <2>i, RingUntouched DEF Send, driver, CtrlCIsNoticed
      <3>5. "RCTRL" \notin KEYS => InStep'
        BY <2>3, SendInStep DEF KeyboardInv
      <3> QED BY <3>2, <3>3, <3>4, <3>5 DEF KeyboardInv
    <2>4. ASSUME NEW b \in SerialByte, Receive(b)
          PROVE  KeyboardInv'
      <3>1. TypeOK'
        BY <2>4, <2>i DEF Receive, TypeOK, driver, hardware, reader
      <3>2. ReadIsAtTail' /\ ScancodeWaits'
        BY <2>4, <2>i DEF Receive, driver, reader, hardware, ReadIsAtTail, ScancodeWaits
      <3>3. AfterBuffer' = AfterBuffer
        BY <2>4, DecoderUntouched DEF Receive, driver, hardware
      <3> QED BY <2>4, <2>d, <2>s, <3>1, <3>2, <3>3 DEF Receive, hardware, KeyboardInv
    <2>5. ASSUME obf, port60 \in Scancode, kbd_process_scancode(port60), ~obf', obf' \in BOOLEAN,
                 UNCHANGED <<kbd_q_tail, serial, irq0_in_service, port60, wire, down, typed,
                             strokes, intr, queued, taken>>,
                 pc' # "polled", pc' \in {"getchar", "dequeued", "return"},
                 pc' = "dequeued" => pc = "dequeued", irq1' \in BOOLEAN
          PROVE  KeyboardInv'
      <3>1. /\ kbd_queue' \in [Index -> Char \union {Nul}] /\ kbd_q_head' \in Index
            /\ DecoderTyped' /\ RingHoldsChars' /\ CtrlCIsNoticed'
            /\ kbd_q_tail # kbd_q_head => /\ kbd_q_tail # kbd_q_head'
                                          /\ kbd_queue'[kbd_q_tail] = kbd_queue[kbd_q_tail]
        BY <2>5, ProcessKeepsRing
      <3>2. TypeOK'
        BY <2>5, <2>i, <3>1 DEF TypeOK, DecoderTyped, serial
      <3>3. ReadIsAtTail' /\ ScancodeWaits'
        BY <2>5, <2>i, <3>1 DEF ReadIsAtTail, ScancodeWaits
      <3>4. AfterBuffer' = AfterBuffer
        BY <2>5, ProcessInStep
      <3> QED BY <2>5, <2>s, <3>1, <3>2, <3>3, <3>4 DEF KeyboardInv
    <2>6. CASE keyboard_callback
      <3>1. pc # "polled" /\ pc' = pc
        BY <2>6, <2>i DEF keyboard_callback, ScancodeWaits, reader
      <3>2. CASE obf
        <4>1. port60 \in Scancode
          BY <2>i, <3>2 DEF TypeOK, ScancodeWaits
        <4>2. pc \in {"getchar", "dequeued", "return"}
          BY <2>i, <3>1 DEF TypeOK
        <4> QED BY <2>5, <2>6, <3>1, <3>2, <4>1, <4>2 DEF keyboard_callback, reader
      <3>3. CASE ~obf
        <4>0. UNCHANGED <<driver, reader, serial, irq0_in_service, port60, wire, down, typed,
                          strokes>>
          BY <2>6, <3>3 DEF keyboard_callback, driver
        <4>1. irq1' = FALSE /\ obf' = FALSE
          BY <2>6 DEF keyboard_callback
        <4>2. TypeOK'
          BY <2>i, <4>0, <4>1 DEF TypeOK, driver, reader, serial
        <4>3. ReadIsAtTail' /\ ScancodeWaits'
          BY <2>i, <3>1, <4>0, <4>1 DEF driver, reader, ReadIsAtTail, ScancodeWaits
        <4>4. RingHoldsChars' /\ CtrlCIsNoticed'
          BY <2>i, <4>0, RingUntouched DEF driver, CtrlCIsNoticed
        <4>5. AfterBuffer' = AfterBuffer
          BY <3>3, <4>0, <4>1 DEF AfterBuffer, Decoder, FlagsSet, driver
        <4> QED BY <2>s, <4>0, <4>2, <4>3, <4>4, <4>5 DEF KeyboardInv
      <3> QED BY <3>2, <3>3
    <2>7. CASE DequeueRead
      <3>1. kbd_queue[kbd_q_tail] \in Char
        BY <2>7, OldestIsChar DEF DequeueRead
      <3>2. TypeOK'
        BY <2>7, <2>i, <3>1 DEF DequeueRead, TypeOK, driver, hardware, serial
      <3>3. ReadIsAtTail' /\ ScancodeWaits'
        BY <2>7, <2>i DEF DequeueRead, driver, hardware, ReadIsAtTail, ScancodeWaits
      <3>4. AfterBuffer' = AfterBuffer
        BY <2>7, DecoderUntouched DEF DequeueRead, driver, hardware
      <3> QED BY <2>7, <2>d, <2>s, <3>2, <3>3, <3>4 DEF DequeueRead, hardware, KeyboardInv
    <2>8. CASE DequeueAdvance
      <3>1. queued \in Char /\ kbd_q_tail # kbd_q_head
        BY <2>8, <2>i, OldestIsChar DEF DequeueAdvance, ReadIsAtTail
      <3>2. /\ kbd_q_tail' = (kbd_q_tail + 1) % N /\ UNCHANGED <<kbd_queue, kbd_q_head>>
            /\ 1 \in 1 .. (kbd_q_head - kbd_q_tail) % N
        BY <2>8, <3>1, WaitingIsRing DEF DequeueAdvance, Advance, N
      <3>3. kbd_q_tail' \in 0 .. N - 1 /\ Holds(kbd_queue', kbd_q_tail', kbd_q_head', N, Char)
        BY <3>2, WaitingIsRing, RingDrop
      <3>4. RingHoldsChars'
        BY <3>3 DEF Holds, RingHoldsChars, Count, N
      <3>5. taken' \in Seq(Char)
        BY <2>8, <2>i, <3>1 DEF DequeueAdvance, TypeOK
      <3>6. TypeOK'
        BY <2>8, <2>i, <3>1, <3>3, <3>5 DEF DequeueAdvance, Return, TypeOK, hardware,
           serial, Index, N
      <3>7. ReadIsAtTail' /\ ScancodeWaits' /\ CtrlCIsNoticed'
        BY <2>8, <2>i DEF DequeueAdvance, Return, hardware, ReadIsAtTail, ScancodeWaits,
           CtrlCIsNoticed
      <3>8. AfterBuffer' = AfterBuffer
        BY <2>8, DecoderUntouched DEF DequeueAdvance, hardware
      <3> QED BY <2>8, <2>s, <3>4, <3>6, <3>7, <3>8 DEF DequeueAdvance, hardware, KeyboardInv
    <2>9. CASE PollStatus
      <3>1. TypeOK'
        BY <2>9, <2>i DEF PollStatus, TypeOK, driver, hardware, serial
      <3>2. ReadIsAtTail' /\ ScancodeWaits'
        BY <2>9, <2>i DEF PollStatus, PollGuard, driver, hardware, ReadIsAtTail, ScancodeWaits
      <3>3. AfterBuffer' = AfterBuffer
        BY <2>9, DecoderUntouched DEF PollStatus, driver, hardware
      <3> QED BY <2>9, <2>d, <2>s, <3>1, <3>2, <3>3 DEF PollStatus, hardware, KeyboardInv
    <2>10. CASE PollData
      <3>1. obf /\ port60 \in Scancode /\ irq1 \in BOOLEAN
        BY <2>10, <2>i DEF PollData, TypeOK, ScancodeWaits
      <3> QED BY <2>5, <2>10, <3>1 DEF PollData
    <2>11. CASE PollSerial
      <3>1. PICK n \in {1, 2, 3} :
              /\ com1' = SubSeq(com1, n + 1, Len(com1)) /\ n <= Len(com1)
              /\ queued' \in {"up", com1[1]}
        <4> DEFINE m == IF com1[1] = "esc" /\ Len(com1) > 1
                        THEN IF com1[2] = "[" /\ Len(com1) > 2 THEN 3 ELSE 2
                        ELSE 1
        <4>1. com1 # <<>> /\ com1 \in Seq(SerialByte)
          BY <2>11, <2>i DEF PollSerial, TypeOK
        <4>2. Len(com1) \in Nat /\ Len(com1) # 0
          BY <4>1
        <4>3. m \in {1, 2, 3} /\ m <= Len(com1)
          BY <4>2
        <4>4. /\ com1' = SubSeq(com1, m + 1, Len(com1))
              /\ queued' = IF m = 3 /\ com1[3] = "A" THEN "up" ELSE com1[1]
          BY <2>11 DEF PollSerial, Return
        <4> HIDE DEF m
        <4> QED BY <4>3, <4>4
      <3>2. com1' \in Seq(SerialByte) /\ com1[1] \in SerialByte
        BY <2>11, <2>i, <3>1 DEF PollSerial, TypeOK
      <3>3. TypeOK'
        BY <2>11, <2>i, <3>1, <3>2 DEF PollSerial, Return, TypeOK, hardware, Char
      <3>4. ReadIsAtTail' /\ ScancodeWaits' /\ CtrlCIsNoticed'
        BY <2>11, <2>i DEF PollSerial, Return, hardware, ReadIsAtTail, ScancodeWaits,
           CtrlCIsNoticed
      <3>5. RingHoldsChars'
        BY <2>11, RingUntouched DEF PollSerial
      <3>6. AfterBuffer' = AfterBuffer
        BY <2>11, DecoderUntouched DEF PollSerial, hardware
      <3> QED BY <2>11, <2>s, <3>3, <3>4, <3>5, <3>6 DEF PollSerial, hardware, KeyboardInv
    <2>12. CASE CallAgain
      <3>1. TypeOK'
        BY <2>12, <2>i DEF CallAgain, TypeOK, driver, hardware, serial
      <3>2. ReadIsAtTail' /\ ScancodeWaits'
        BY <2>12, <2>i DEF CallAgain, driver, hardware, ReadIsAtTail, ScancodeWaits
      <3>3. AfterBuffer' = AfterBuffer
        BY <2>12, DecoderUntouched DEF CallAgain, driver, hardware
      <3> QED BY <2>12, <2>d, <2>s, <3>1, <3>2, <3>3 DEF CallAgain, hardware, KeyboardInv
    <2>14. CASE Timer
      <3>1. TypeOK'
        BY <2>14, <2>i DEF Timer, TypeOK, driver, serial, reader
      <3>2. ReadIsAtTail' /\ ScancodeWaits'
        BY <2>14, <2>i DEF Timer, driver, reader, ReadIsAtTail, ScancodeWaits
      <3>3. AfterBuffer' = AfterBuffer
        BY <2>14, DecoderUntouched DEF Timer, driver
      <3> QED BY <2>14, <2>d, <2>s, <3>1, <3>2, <3>3 DEF Timer, KeyboardInv
    <2>13. CASE UNCHANGED vars
      <3>1. TypeOK'
        BY <2>13, <2>i DEF vars, TypeOK, driver, hardware, serial, reader
      <3>2. ReadIsAtTail' /\ ScancodeWaits'
        BY <2>13, <2>i DEF vars, driver, hardware, reader, ReadIsAtTail, ScancodeWaits
      <3>3. AfterBuffer' = AfterBuffer
        BY <2>13, DecoderUntouched DEF vars, driver, hardware
      <3> QED BY <2>13, <2>d, <2>s, <3>1, <3>2, <3>3 DEF vars, hardware, KeyboardInv
    <2> QED BY <2>1, <2>2, <2>3, <2>4, <2>6, <2>7, <2>8, <2>9, <2>10, <2>11, <2>12, <2>13,
            <2>14
            DEF Next
  <1> QED BY <1>1, <1>2, PTL DEF Spec

\* Each scancode is processed once, by the interrupt or by the poll, and what was
\* decoded is what was typed, for any number of keystrokes. The hypothesis leaves out
\* the right Ctrl key, whose prefix kbd_process_scancode does not clear.
THEOREM DecodesWhatWasTyped ==
  ASSUME "RCTRL" \notin KEYS
  PROVE  Spec => []DecodesKeys
  <1>1. KeyboardInv => DecodesKeys
    <2> SUFFICES ASSUME KeyboardInv, wire = <<>>, ~obf PROVE decoded = typed
      BY DEF DecodesKeys, AllProcessed
    <2>1. Decoder = AsTyped
      BY DEF KeyboardInv, InStep, AfterWire, AfterBuffer
    <2> QED BY <2>1 DEF Decoder, AsTyped
  <1> QED BY <1>1, KeyboardInvariance, PTL

\* The ring is a FIFO of KBD_QUEUE_SIZE - 1 characters: kbd_enqueue, in the interrupt
\* or in the poll, and kbd_dequeue map to the steps of BoundedFifo.
THEOREM KeyboardImplementsFifo == Spec => ImplementsFifo
  <1> DEFINE q == Waiting
             offers == Len(decoded)
  <1>1. Init => Fifo!FifoInit
    <2> SUFFICES ASSUME Init PROVE Fifo!FifoInit
      OBVIOUS
    <2>1. Count = 0
      BY KeyboardAssumption DEF Init, Count
    <2>2. Waiting = <<>>
      BY <2>1 DEF Waiting
    <2> QED BY <2>2 DEF Init, Fifo!FifoInit
  <1>2. KeyboardInv /\ [Next]_vars => [Fifo!FifoNext]_<<q, offers, taken>>
    <2> SUFFICES ASSUME KeyboardInv, [Next]_vars
                 PROVE  Fifo!FifoNext \/ UNCHANGED <<q, offers, taken>>
      OBVIOUS
    <2>w. UNCHANGED <<kbd_queue, kbd_q_head, kbd_q_tail, decoded>> => UNCHANGED <<q, offers>>
      BY DEF Waiting, Count
    <2>i. TypeOK /\ ReadIsAtTail /\ ScancodeWaits
      BY DEF KeyboardInv
    <2>1. ASSUME port60 \in Scancode, kbd_process_scancode(port60),
                 UNCHANGED <<kbd_q_tail, taken>>
          PROVE  Fifo!FifoNext \/ UNCHANGED <<q, offers, taken>>
      <3>1. \/ q' = q /\ decoded' = decoded
            \/ \E c \in Char : /\ q' = IF Len(q) < N - 1 THEN Append(q, c) ELSE q
                               /\ offers' = offers + 1
        BY <2>1, ProcessKeepsRing
      <3>2. CASE q' = q /\ decoded' = decoded
        BY <2>1, <3>2
      <3>3. ASSUME NEW c \in Char, q' = IF Len(q) < N - 1 THEN Append(q, c) ELSE q,
                   offers' = offers + 1
            PROVE  Fifo!Offer(c)
        BY <2>1, <3>3 DEF Fifo!Offer, N
      <3> QED BY <3>1, <3>2, <3>3 DEF Fifo!FifoNext
    <2>2. CASE keyboard_callback
      <3>1. CASE obf
        <4>1. port60 \in Scancode
          BY <2>i, <3>1 DEF TypeOK, ScancodeWaits
        <4> QED BY <2>1, <2>2, <3>1, <4>1 DEF keyboard_callback, reader
      <3>2. CASE ~obf
        BY <2>2, <2>w, <3>2 DEF keyboard_callback, reader
      <3> QED BY <3>1, <3>2
    <2>3. CASE PollData
      <3>1. port60 \in Scancode
        BY <2>3, <2>i DEF PollData, TypeOK, ScancodeWaits
      <3> QED BY <2>1, <2>3, <3>1 DEF PollData
    <2>4. CASE DequeueAdvance
      <3>1. /\ kbd_q_tail # kbd_q_head /\ queued = kbd_queue[kbd_q_tail]
            /\ kbd_q_tail' = (kbd_q_tail + 1) % N
            /\ UNCHANGED <<kbd_queue, kbd_q_head, decoded>>
            /\ taken' = Append(taken, queued)
        BY <2>4, <2>i DEF DequeueAdvance, ReadIsAtTail, Advance, N
      <3>2. q[1] = queued /\ queued \in Char
        BY <3>1, OldestIsChar
      <3>3. Count \in Nat /\ Count # 0 /\ q \in Seq(Char) /\ Len(q) = Count
            /\ Count = (kbd_q_head - kbd_q_tail) % N
        BY <3>1, WaitingIsRing
      <3>4. 1 \in 1 .. (kbd_q_head - kbd_q_tail) % N
        BY <3>3
      <3>5. RingSeq(kbd_queue, (kbd_q_tail + 1) % N, kbd_q_head, N)
              = SubSeq(RingSeq(kbd_queue, kbd_q_tail, kbd_q_head, N), 1 + 1,
                       (kbd_q_head - kbd_q_tail) % N)
        <4>1. /\ N \in Nat \ {0} /\ kbd_q_tail \in 0 .. N - 1 /\ kbd_q_head \in 0 .. N - 1
              /\ Holds(kbd_queue, kbd_q_tail, kbd_q_head, N, Char)
          BY WaitingIsRing
        <4> QED BY <3>4, <4>1, RingDrop
      <3>6. q' = SubSeq(q, 2, Len(q))
        <4>1. q' = RingSeq(kbd_queue', kbd_q_tail', kbd_q_head', N)
          BY DEF Waiting, Count, RingSeq, N
        <4>2. q' = RingSeq(kbd_queue, (kbd_q_tail + 1) % N, kbd_q_head, N)
          BY <3>1, <4>1
        <4>3. q = RingSeq(kbd_queue, kbd_q_tail, kbd_q_head, N)
          BY WaitingIsRing
        <4> HIDE DEF q
        <4>4. q' = SubSeq(q, 1 + 1, (kbd_q_head - kbd_q_tail) % N)
          BY <3>5, <4>2, <4>3
        <4> QED BY <3>3, <4>4
      <3>7. taken' = taken \o SubSeq(q, 1, 1)
        <4>1. SubSeq(q, 1, 1) = <<q[1]>>
          BY <3>3, FirstAlone
        <4>2. taken \in Seq(Char)
          BY <2>i DEF TypeOK
        <4>3. Append(taken, queued) = taken \o <<queued>>
          BY <3>2, <4>2
        <4> QED BY <3>1, <3>2, <4>1, <4>3
      <3>8. 1 \in 1 .. Len(q) /\ UNCHANGED offers
        BY <3>1, <3>3
      <3>9. Fifo!TakeSome
        BY <3>6, <3>7, <3>8 DEF Fifo!TakeSome
      <3> QED BY <3>9 DEF Fifo!FifoNext
    <2>5. ASSUME NEW k \in KEYS, Press(k) \/ Release(k)
          PROVE  UNCHANGED <<q, offers, taken>>
      BY <2>5, <2>w DEF Press, Release, driver, reader
    <2>6. ASSUME NEW b \in SerialByte, Receive(b)
          PROVE  UNCHANGED <<q, offers, taken>>
      BY <2>6, <2>w DEF Receive, driver, reader
    <2>7. CASE Send \/ Timer \/ DequeueRead \/ PollStatus \/ PollSerial \/ CallAgain \/ UNCHANGED vars
      BY <2>7, <2>w DEF Send, Timer, DequeueRead, PollStatus, PollSerial, CallAgain, vars,
         driver, reader
    <2> QED BY <2>2, <2>3, <2>4, <2>5, <2>6, <2>7 DEF Next
  <1> QED BY <1>1, <1>2, KeyboardInvariance, PTL DEF Spec, ImplementsFifo, Fifo!FifoSpec
=============================================================================
