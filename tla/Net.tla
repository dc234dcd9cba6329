-------------------------------- MODULE Net --------------------------------
(***************************************************************************)
(* The network: the PCI scan and the start of the card at boot, and the    *)
(* frames the ping and arp commands send (drivers/network/rtl8139.c and    *)
(* net.c, cmd_ping and cmd_arp of shell/shell.c). Nothing is received: the *)
(* code never calls rtl8139_handle_interrupt or net_handle_packet.         *)
(*                                                                         *)
(* The card is as rtl8139.h describes it: a transmit descriptor whose OWN  *)
(* bit is set is the card's, which sends the frame in the page the         *)
(* descriptor points to and clears the bit, one descriptor after another.  *)
(* It ends a reset before the driver is out of patience. Headers are       *)
(* sequences of the 16-bit words the processor reads from them.            *)
(***************************************************************************)
EXTENDS Pmm, Sequences, FiniteSets

CONSTANTS
  LAYOUTS,       \* PCI buses: functions of each slot, "none", "other" or "card"
  TEXTS,         \* what is typed as an address: sequences of characters
  COUNTS,        \* numbers typed after -c
  RX_PAGES,      \* pages of the receive ring (2 in the code)
  NUM_TX_DESC,   \* RTL8139_NUM_TX_DESC: 4 in the code
  OTHER_PAGES,   \* bound: pages the rest of the kernel holds
  MAX_COMMANDS   \* bound: ping and arp commands per behaviour

Function == {"none", "other", "card"}

ASSUME NetAssumption ==
  /\ \A b \in LAYOUTS :
       /\ b \in Seq([multi : BOOLEAN, func : Seq(Function)])
       /\ \A i \in 1 .. Len(b) : Len(b[i].func) \in 1 .. 8
  /\ TEXTS \subseteq Seq(STRING)
  /\ RX_PAGES \in Nat \ {0} /\ NUM_TX_DESC \in Nat \ {0}
  /\ COUNTS \subseteq Nat /\ OTHER_PAGES \in Nat /\ MAX_COMMANDS \in Nat

Desc == 0 .. NUM_TX_DESC - 1

VARIABLES
  bus,               \* the PCI bus of this machine
  at,                \* the slot and function the scan looks at next
  buffers,           \* pages allocated for the card, receive ring first
  tx_current_desc,
  our_mac,           \* "zero" until net_init copies the card's
  memory,            \* the frame in each page, if any
  card,              \* the card's registers
  pc,                \* where the kernel is; "idle" at the prompt
  cmd,               \* the last command
  others,            \* pages the rest of the kernel holds
  wire,              \* history: the frames sent
  offers,            \* history: frames handed to rtl8139_send_packet with a card
  commands           \* counter for the bound

kernel == <<at, buffers, tx_current_desc, our_mac, pc, cmd, commands>>
history == <<wire, offers>>
vars == <<pmm_bitmap, bus, kernel, memory, card, others, history>>

NoCommand == [kind |-> "none", text |-> <<>>, target |-> <<>>, seq |-> 0, count |-> 0]

Init ==
  /\ pmm_init
  /\ bus \in LAYOUTS /\ at = <<1, 1>> /\ pc = "scan"
  /\ buffers = <<>> /\ tx_current_desc = 0 /\ our_mac = "zero"
  /\ memory = [p \in Page |-> <<>>]
  /\ card = [enabled |-> FALSE, desc |-> 0, own |-> [d \in Desc |-> FALSE],
             txaddr |-> [d \in Desc |-> NULL], rbstart |-> NULL]
  /\ cmd = NoCommand /\ others = {} /\ wire = <<>> /\ offers = 0 /\ commands = 0

----------------------------------------------------------------------------
(* Boot *)

HasMoreFunctions == at[2] < Len(bus[at[1]].func) /\ (at[2] > 1 \/ bus[at[1]].multi)

\* Where the scan goes on: an empty function 0 means an empty slot, and only a slot
\* with the multi-function bit has others.
AfterMiss ==
  IF bus[at[1]].func[1] # "none" /\ HasMoreFunctions
  THEN <<at[1], at[2] + 1>> ELSE <<at[1] + 1, 1>>

\* rtl8139_detect_and_init: the first card found is initialised.
Scan ==
  /\ pc = "scan"
  /\ IF at[1] > Len(bus) THEN pc' = "net_init" /\ UNCHANGED at
     ELSE IF bus[at[1]].func[at[2]] = "card" THEN pc' = "alloc" /\ UNCHANGED at
     ELSE at' = AfterMiss /\ UNCHANGED pc
  /\ UNCHANGED <<pmm_bitmap, bus, buffers, tx_current_desc, our_mac, memory, card, cmd,
                 others, history, commands>>

rx_buffer == IF buffers = <<>> THEN NULL ELSE buffers[1]
tx_buffers(d) == IF RX_PAGES + d < Len(buffers) THEN buffers[RX_PAGES + d + 1] ELSE NULL
BufferPages == RX_PAGES + NUM_TX_DESC

\* rtl8139_init: pages for the receive ring and the transmit buffers. Without one,
\* it returns before the card is set up.
AllocBuffer ==
  /\ pc = "alloc" /\ Len(buffers) < BufferPages
  /\ IF FreePages = {} THEN pmm_alloc_fails /\ pc' = "net_init" /\ UNCHANGED buffers
     ELSE /\ \E p \in FreePages : pmm_alloc_page(p) /\ buffers' = Append(buffers, p)
          /\ UNCHANGED pc
  /\ UNCHANGED <<bus, at, tx_current_desc, our_mac, memory, card, cmd, others, history,
                 commands>>

\* Mutant of StartCard: the descriptors all get the first buffer.
StartCardOneBuffer ==
  /\ pc = "alloc" /\ Len(buffers) = BufferPages
  /\ card' = [enabled |-> TRUE, desc |-> 0, own |-> [d \in Desc |-> FALSE],
              txaddr |-> [d \in Desc |-> tx_buffers(0)], rbstart |-> rx_buffer]
  /\ tx_current_desc' = 0 /\ pc' = "net_init"
  /\ UNCHANGED <<pmm_bitmap, bus, at, buffers, our_mac, memory, cmd, others, history,
                 commands>>

\* The reset, the buffer addresses, and the receiver and transmitter enabled.
StartCard ==
  /\ pc = "alloc" /\ Len(buffers) = BufferPages
  /\ card' = [enabled |-> TRUE, desc |-> 0, own |-> [d \in Desc |-> FALSE],
              txaddr |-> [d \in Desc |-> tx_buffers(d)], rbstart |-> rx_buffer]
  /\ tx_current_desc' = 0 /\ pc' = "net_init"
  /\ UNCHANGED <<pmm_bitmap, bus, at, buffers, our_mac, memory, cmd, others, history,
                 commands>>

\* The card's address was read into the device before its buffers were allocated.
net_init ==
  /\ pc = "net_init"
  /\ our_mac' = IF at[1] > Len(bus) THEN "zero" ELSE "card"
  /\ pc' = "idle"
  /\ UNCHANGED <<pmm_bitmap, bus, at, buffers, tx_current_desc, memory, card, cmd, others,
                 history, commands>>

\* Later the heap and the scheduler take pages of their own.
OthersAllocate ==
  /\ pc = "idle" /\ Cardinality(others) < OTHER_PAGES
  /\ \E p \in FreePages : pmm_alloc_page(p) /\ others' = others \union {p}
  /\ UNCHANGED <<bus, kernel, memory, card, history>>

----------------------------------------------------------------------------
(* Addresses and frames *)

DigitOf == [c \in {"0", "1", "2", "3", "4", "5", "6", "7", "8", "9"} |->
              CASE c = "0" -> 0 [] c = "1" -> 1 [] c = "2" -> 2 [] c = "3" -> 3
                [] c = "4" -> 4 [] c = "5" -> 5 [] c = "6" -> 6 [] c = "7" -> 7
                [] c = "8" -> 8 [] c = "9" -> 9]

\* One turn of parse_ip4's loop over the text.
ParseChar(st, c) ==
  IF st.bad \/ Len(st.octets) = 4 THEN st
  ELSE IF c \in DOMAIN DigitOf
  THEN LET num == st.num * 10 + DigitOf[c]
       IN [st EXCEPT !.num = num, !.bad = num > 255]
  ELSE IF c = "." THEN [st EXCEPT !.octets = Append(@, st.num % 256), !.num = 0]
  ELSE [st EXCEPT !.bad = TRUE]

\* The state of the loop after each character of the text.
Parsing(text) ==
  LET after[n \in 0 .. Len(text)] ==
        IF n = 0 THEN [octets |-> <<>>, num |-> 0, bad |-> FALSE]
        ELSE ParseChar(after[n - 1], text[n])
  IN after

\* Mutant of parse_ip4: a fourth dot is not minded.
parse_ip4_prefix(text) ==
  LET st == Parsing(text)[Len(text)]
  IN IF st.bad \/ Len(st.octets) < 3 THEN <<>>
     ELSE SubSeq(Append(st.octets, st.num % 256), 1, 4)

\* parse_ip4: the four octets, or nothing.
parse_ip4(text) ==
  LET st == Parsing(text)[Len(text)]
  IN IF st.bad \/ Len(st.octets) # 3 THEN <<>> ELSE Append(st.octets, st.num % 256)

\* The sums of the first words of a header.
Sums(words) ==
  LET to[n \in 0 .. Len(words)] == IF n = 0 THEN 0 ELSE to[n - 1] + words[n]
  IN to
Sum(words) == Sums(words)[Len(words)]

\* Mutant of FoldCarries: once only.
FoldCarriesOnce(sum) == (sum % 65536) + (sum \div 65536)

\* "while (sum >> 16)"; for the few words of a header three turns are enough.
FoldCarries(sum) ==
  LET turn(s) == (s % 65536) + (s \div 65536) IN turn(turn(turn(sum)))

\* net_checksum of an even number of bytes, as all headers have.
net_checksum(words) == 65535 - (FoldCarries(Sum(words)) % 65536)

\* An address is put together big-endian and stored as it is: the last octet is the
\* low byte of the first word.
AddressWords(octets) == <<octets[4] + 256 * octets[3], octets[2] + 256 * octets[1]>>

\* net_send_icmp_echo: an IP header (length 36, time to live 64, protocol 1, source
\* our_ip, which is never set) and an echo request with eight bytes of data. seq is 16 bits wide.
EchoFrame(mac, octets, seq) ==
  LET ip(c) == <<69, 9216, 0, 0, 320, c, 0, 0>> \o AddressWords(octets)
      icmp(c) == <<8, c, 1, seq % 65536, 256, 770, 1284, 1798>>
  IN [kind |-> "icmp", src |-> mac,
      headers |-> <<ip(net_checksum(ip(0))), icmp(net_checksum(icmp(0)))>>]

\* net_send_arp_request; an ARP packet has no checksum.
ArpFrame(mac, octets) ==
  [kind |-> "arp", src |-> mac, headers |-> <<AddressWords(octets)>>]

\* The frame the current command sends. Both kinds are shorter than a buffer.
Frame ==
  IF cmd.kind = "arp" THEN ArpFrame(our_mac, cmd.target)
  ELSE EchoFrame(our_mac, cmd.target, cmd.seq)

----------------------------------------------------------------------------
(* Commands *)

\* cmd_ping and cmd_arp up to the first frame: a bad address ends the command, and
\* so does a count of 0.
Command(kind, text, count) ==
  /\ pc = "idle" /\ commands < MAX_COMMANDS /\ commands' = commands + 1
  /\ cmd' = [kind |-> kind, text |-> text, target |-> parse_ip4(text), seq |-> 1,
             count |-> count]
  /\ pc' = IF parse_ip4(text) = <<>> \/ count = 0 THEN "idle" ELSE "send"
  /\ UNCHANGED <<pmm_bitmap, bus, at, buffers, tx_current_desc, our_mac, memory, card,
                 others, history>>

\* With -c but no host argv[3] was never set: whatever address it points to is taken.
cmd_ping == \E text \in TEXTS, count \in COUNTS : Command("ping", text, count)

cmd_arp == \E text \in TEXTS : Command("arp", text, 1)

\* The frame is done with: ping goes on to its next one after a sleep of a second.
SentOrDropped == pc' = IF cmd.seq < cmd.count THEN "sleep" ELSE "idle"

\* pit_sleep_ms: IRQ0 has come often enough for pit_ticks to reach the target. It may
\* also stop coming (module Scheduler: a tick whose EOI is not sent),
PitTicks ==
  /\ pc = "sleep" /\ pc' = "wake"
  /\ UNCHANGED <<pmm_bitmap, bus, at, buffers, tx_current_desc, our_mac, memory, card, cmd,
                 others, history, commands>>

\* and the loop ends: the next frame's turn.
Wake ==
  /\ pc = "wake" /\ pc' = "send" /\ cmd' = [cmd EXCEPT !.seq = @ + 1]
  /\ UNCHANGED <<pmm_bitmap, bus, at, buffers, tx_current_desc, our_mac, memory, card,
                 others, history, commands>>

\* rtl8139_send_packet without a buffer.
SendRefused ==
  /\ pc = "send" /\ tx_buffers(0) = NULL
  /\ SentOrDropped
  /\ UNCHANGED <<pmm_bitmap, bus, at, buffers, tx_current_desc, our_mac, memory, card, cmd,
                 others, history, commands>>

\* Mutant of SendBusy: the driver waits for the descriptor.
SendBusyWaits ==
  /\ pc = "send" /\ tx_buffers(0) # NULL /\ card.own[tx_current_desc]
  /\ UNCHANGED vars

\* The descriptor is still the card's: the frame is dropped.
SendBusy ==
  /\ pc = "send" /\ tx_buffers(0) # NULL /\ card.own[tx_current_desc]
  /\ offers' = offers + 1
  /\ SentOrDropped
  /\ UNCHANGED <<pmm_bitmap, bus, at, buffers, tx_current_desc, our_mac, memory, card, cmd,
                 others, wire, commands>>

\* Mutant of CopyFrame: the OWN bit is not looked at.
CopyFrameAnyway ==
  /\ pc = "send" /\ tx_buffers(0) # NULL
  /\ memory' = [memory EXCEPT ![tx_buffers(tx_current_desc)] = Frame]
  /\ pc' = "kick"
  /\ UNCHANGED <<pmm_bitmap, bus, at, buffers, tx_current_desc, our_mac, card, cmd, others,
                 history, commands>>

\* The frame is copied to the buffer of the descriptor,
CopyFrame ==
  /\ pc = "send" /\ tx_buffers(0) # NULL /\ ~card.own[tx_current_desc]
  /\ memory' = [memory EXCEPT ![tx_buffers(tx_current_desc)] = Frame]
  /\ pc' = "kick"
  /\ UNCHANGED <<pmm_bitmap, bus, at, buffers, tx_current_desc, our_mac, card, cmd, others,
                 history, commands>>

\* the descriptor is given to the card,
Kick ==
  /\ pc = "kick"
  /\ card' = [card EXCEPT !.own[tx_current_desc] = TRUE]
  /\ offers' = offers + 1 /\ pc' = "advance"
  /\ UNCHANGED <<pmm_bitmap, bus, at, buffers, tx_current_desc, our_mac, memory, cmd,
                 others, wire, commands>>

\* and the next descriptor is the current one.
Advance ==
  /\ pc = "advance"
  /\ tx_current_desc' = (tx_current_desc + 1) % NUM_TX_DESC
  /\ SentOrDropped
  /\ UNCHANGED <<pmm_bitmap, bus, at, buffers, our_mac, memory, card, cmd, others, history,
                 commands>>

----------------------------------------------------------------------------
(* The card *)

\* The card sends the frame of its descriptor, whenever the link lets it.
Transmit ==
  /\ card.enabled /\ card.own[card.desc]
  /\ wire' = Append(wire, memory[card.txaddr[card.desc]])
  /\ card' = [card EXCEPT !.own[card.desc] = FALSE,
                          !.desc = (card.desc + 1) % NUM_TX_DESC]
  /\ UNCHANGED <<pmm_bitmap, bus, kernel, memory, others, offers>>

----------------------------------------------------------------------------
KernelStep ==
  \/ Scan \/ AllocBuffer \/ StartCard \/ net_init
  \/ Wake \/ SendRefused \/ SendBusy \/ CopyFrame \/ Kick \/ Advance

Next == KernelStep \/ cmd_ping \/ cmd_arp \/ OthersAllocate \/ Transmit \/ PitTicks

\* The shell is scheduled like any task; the card may be without a link for ever, and
\* nothing says that the ticks keep coming.
Spec == Init /\ [][Next]_vars /\ WF_vars(KernelStep)

----------------------------------------------------------------------------
(* Properties *)

\* Every frame the commands can send.
Addresses == {parse_ip4(text) : text \in TEXTS} \ {<<>>}
Frames ==
  {ArpFrame("card", a) : a \in Addresses}
  \union {EchoFrame("card", a, seq) : a \in Addresses, seq \in UNION {1 .. c : c \in COUNTS}}

Places == {"scan", "alloc", "net_init", "idle", "send", "sleep", "wake", "kick",
           "advance"}

\* The variables stay in their ranges.
NetTypeOK ==
  /\ bus \in LAYOUTS /\ pc \in Places
  /\ buffers \in Seq(Managed) /\ Len(buffers) <= BufferPages
  /\ tx_current_desc \in Desc
  /\ memory = [p \in Page |-> memory[p]]
  /\ card \in [enabled : BOOLEAN, desc : Desc, own : [Desc -> BOOLEAN],
               txaddr : [Desc -> Page], rbstart : Page]
  /\ cmd \in [kind : {"none", "ping", "arp"}, text : TEXTS \union {<<>>},
              target : Addresses \union {<<>>}, seq : Nat, count : Nat]
  /\ wire \in Seq(Frames) /\ offers \in Nat

\* The pages the card reads and writes on its own (the receive ring from rbstart on,
\* the buffer of each descriptor) were allocated for it, are all different, and never
\* come into other hands, although rtl8139_init only hopes that the pages of the ring
\* are contiguous (pmm_alloc_contiguous); and no frame is copied through NULL.
DmaPagesPrivate ==
  LET ring == card.rbstart .. card.rbstart + RX_PAGES - 1
      tx == {card.txaddr[d] : d \in Desc}
  IN /\ card.enabled =>
          /\ ring \union tx \subseteq Managed \intersect pmm_bitmap
          /\ ring \intersect tx = {} /\ Cardinality(tx) = NUM_TX_DESC
          /\ (ring \union tx) \intersect others = {}
     /\ memory[NULL] = <<>>

\* The pages were handed out in order, the card's first.
PagesInOrder ==
  /\ \A i \in 1 .. Len(buffers) : buffers[i] = RESERVED_PAGES + i - 1
  /\ \E k \in RESERVED_PAGES + Len(buffers) .. TOTAL_PAGES :
       pmm_bitmap = 0 .. k - 1 /\ others = RESERVED_PAGES + Len(buffers) .. k - 1

\* The cards the scan can get to, and the order in which it would.
Cards ==
  {a \in (1 .. Len(bus)) \X (1 .. 8) :
     /\ a[2] <= Len(bus[a[1]].func) /\ bus[a[1]].func[a[2]] = "card"
     /\ a[2] = 1 \/ (bus[a[1]].func[1] # "none" /\ bus[a[1]].multi)}
NotAfter(a, b) == a[1] < b[1] \/ (a[1] = b[1] /\ a[2] <= b[2])

\* The scan finds a card if the machine has one behind a function 0, and the first
\* of them (rtl8139_detect_and_init).
ScanFindsCard ==
  pc # "scan" => IF Cards = {} THEN at[1] > Len(bus)
                 ELSE at \in Cards /\ \A c \in Cards : NotAfter(at, c)

\* The scan has passed no card by, and only looks at functions it may look at.
ScanInOrder ==
  /\ at \in (1 .. Len(bus) + 1) \X (1 .. 8)
  /\ pc = "scan" =>
       /\ \A c \in Cards : NotAfter(at, c)
       /\ at[2] = 1 \/ (/\ at[1] <= Len(bus) /\ at[2] <= Len(bus[at[1]].func)
                        /\ bus[at[1]].func[1] # "none" /\ bus[at[1]].multi)
  /\ pc = "alloc" => at[1] <= Len(bus)

\* What the card was given at boot. Without it nothing is ever sent.
CardStarted ==
  /\ pc = "scan" => buffers = <<>>
  /\ pc \in {"scan", "alloc"} => ~card.enabled /\ others = {}
  /\ pc \notin {"scan", "alloc"} =>
       IF at[1] > Len(bus) THEN ~card.enabled /\ buffers = <<>> ELSE card.enabled
  /\ card.enabled =>
       /\ Len(buffers) = BufferPages /\ card.rbstart = buffers[1]
       /\ \A d \in Desc : card.txaddr[d] = buffers[RX_PAGES + d + 1]
  /\ ~card.enabled => \A d \in Desc : ~card.own[d]
  /\ pc \notin {"scan", "alloc", "net_init"} =>
       our_mac = IF card.enabled THEN "card" ELSE "zero"
  /\ pc \in {"kick", "advance"} => card.enabled

\* The command that sends frames was given an address and a count.
CommandInProgress ==
  /\ pc \in {"send", "sleep", "wake", "kick", "advance"} =>
       /\ cmd.kind # "none" /\ cmd.target # <<>> /\ cmd.seq \in 1 .. cmd.count
       /\ cmd.kind = "ping" => cmd.count \in COUNTS
  /\ pc \in {"sleep", "wake"} => cmd.seq < cmd.count

\* The descriptor the driver uses next: the index advances after the frame was
\* handed over.
NextDesc ==
  IF pc = "advance" THEN (tx_current_desc + 1) % NUM_TX_DESC ELSE tx_current_desc

\* The card owns the first "count" descriptors from its own on, which hold frames, and
\* the driver's next one follows them.
OwnsFirst(count) ==
  /\ NextDesc = (card.desc + count) % NUM_TX_DESC
  /\ \A k \in 0 .. NUM_TX_DESC - 1 :
       LET d == (card.desc + k) % NUM_TX_DESC
       IN /\ card.own[d] <=> k < count
          /\ k < count => memory[card.txaddr[d]] \in Frames

\* Driver and card agree on whose each descriptor is, and a frame that is about to be
\* handed over is complete.
RingInStep ==
  /\ \E count \in 0 .. NUM_TX_DESC : OwnsFirst(count)
  /\ pc = "kick" => /\ ~card.own[tx_current_desc]
                    /\ memory[card.txaddr[tx_current_desc]] = Frame

\* The network stack's state after every step: the scan has found the first card, the
\* memory the card uses on its own belongs to nobody else, and driver and card agree
\* on the descriptors.
NetInv ==
  /\ NetTypeOK /\ DmaPagesPrivate /\ ScanFindsCard
  /\ PagesInOrder /\ ScanInOrder /\ CardStarted /\ CommandInProgress /\ RingInStep

\* Memory has room for the card's buffers.
EnoughPages == RESERVED_PAGES + BufferPages <= TOTAL_PAGES

\* The dots of a text, the place of the k-th (the text lies between a 0-th and one
\* after the last), and the numbers that the digits after place a are, up to each place.
Dots(text) == {i \in 1 .. Len(text) : text[i] = "."}
Dot(text, k) ==
  IF k = 0 THEN 0
  ELSE IF k > Cardinality(Dots(text)) THEN Len(text) + 1
  ELSE CHOOSE i \in Dots(text) : Cardinality({j \in Dots(text) : j <= i}) = k
Values(text, a) ==
  LET upto[n \in a .. Len(text)] ==
        IF n = a THEN 0 ELSE 10 * upto[n - 1] + DigitOf[text[n]]
  IN upto

\* The k-th of the numbers with dots between.
Number(text, k) == Values(text, Dot(text, k - 1))[Dot(text, k) - 1]

\* An address: four numbers up to 255 with dots between (an empty number is 0).
IsAddress(text) ==
  /\ Cardinality(Dots(text)) = 3
  /\ \A i \in 1 .. Len(text) : text[i] \in DOMAIN DigitOf \union {"."}
  /\ \A k \in 1 .. 4 : Number(text, k) <= 255

\* A command goes on with an address exactly if one was typed, and with that one
\* (parse_ip4).
ParsesAddress ==
  cmd.kind # "none" =>
    cmd.target = IF IsAddress(cmd.text) THEN [k \in 1 .. 4 |-> Number(cmd.text, k)]
                 ELSE <<>>

\* On the wire the bytes of a word are swapped. A receiver adds up the words of a
\* header, its checksum included, modulo 2^16 - 1.
Swapped(w) == 256 * (w % 256) + (w \div 256)
Verifies(words) == Sum([i \in 1 .. Len(words) |-> Swapped(words[i])]) % 65535 = 0

\* A receiver accepts every frame that leaves: both checksums of an echo request
\* verify (net_checksum adds the words in the processor's byte order and folds the
\* carries), and its source is the card's own address (net_init).
FramesVerify ==
  \A i \in 1 .. Len(wire) :
    /\ wire[i].src = "card"
    /\ wire[i].kind = "icmp" => \A k \in 1 .. 2 : Verifies(wire[i].headers[k])

Queue ==
  LET owned == {k \in 0 .. NUM_TX_DESC - 1 : card.own[(card.desc + k) % NUM_TX_DESC]}
  IN [k \in 1 .. Cardinality(owned) |->
        memory[card.txaddr[(card.desc + k - 1) % NUM_TX_DESC]]]

Fifo == INSTANCE BoundedFifo
          WITH Item <- Frames, Capacity <- NUM_TX_DESC, queue <- Queue, offers <- offers,
               taken <- wire

\* The descriptor ring is a queue: frames leave whole, in the order they were sent,
\* each once, and one is dropped only when all descriptors are the card's
\* (rtl8139_send_packet looks at the current descriptor alone).
SendsInOrder == Fifo!FifoSpec

\* A command comes back to the prompt even if the card never sends anything
\* (rtl8139_send_packet does not wait for a descriptor). What it does wait for are the
\* ticks between two frames of a ping: if they stop, it sleeps for ever.
CommandsEnd ==
  \/ pc # "idle" ~> pc = "idle"
  \/ <>[](pc = "sleep")

\* What net.c says of a frame: it goes "to the target ip", the address typed.
ReachesTarget ==
  \A i \in 1 .. Len(wire) :
    LET words == wire[i].headers[1]
        low == words[Len(words) - 1]
        high == words[Len(words)]
    IN commands = 1 => <<low % 256, low \div 256, high % 256, high \div 256>> = cmd.target
=============================================================================
