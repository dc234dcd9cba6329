----------------------------- MODULE NetProofs -----------------------------
(***************************************************************************)
(* Proofs about Net: the scan finds the first card on every bus; the pages *)
(* the card uses on its own are nobody else's; driver and card agree on    *)
(* the descriptors, so that the ring of descriptors implements BoundedFifo *)
(* for any number of them; an address is parsed right whatever was typed;  *)
(* and every frame that leaves verifies at its receiver. The last two go   *)
(* by induction over the text and over the words of a header.              *)
(***************************************************************************)
EXTENDS Net, FiniteSetTheorems, RingTheorems

----------------------------------------------------------------------------
(* Arithmetic of the ring *)

\* The descriptors from one on are all of them, each once.
LEMMA EachOnce ==
  ASSUME NEW N \in Nat \ {0}, NEW i \in 0 .. N - 1, NEW j \in 0 .. N - 1, NEW k \in 0 .. N - 1
  PROVE  /\ (i + k) % N \in 0 .. N - 1
         /\ (i + j) % N = (i + k) % N => j = k
<1>0. j \in 0 .. N /\ k \in 0 .. N
  OBVIOUS
<1>1. (i + k) % N = IF i + k < N THEN i + k ELSE i + k - N
  BY <1>0, WrapSum
<1>2. (i + j) % N = IF i + j < N THEN i + j ELSE i + j - N
  BY <1>0, WrapSum
<1>. QED BY <1>1, <1>2

\* Where one is after a step, seen from there.
LEMMA OneOn ==
  ASSUME NEW N \in Nat \ {0}, NEW i \in 0 .. N - 1, NEW k \in 0 .. N - 1, NEW j,
         j = (i + 1) % N
  PROVE  (j + k) % N = (i + (k + 1)) % N
<1>0. 1 \in 0 .. N /\ k \in 0 .. N /\ k + 1 \in 0 .. N
  OBVIOUS
<1>1. j = IF i + 1 < N THEN i + 1 ELSE i + 1 - N
  BY <1>0, WrapSum
<1>2. (i + (k + 1)) % N = IF i + (k + 1) < N THEN i + (k + 1) ELSE i + (k + 1) - N
  BY <1>0, WrapSum
<1>3. j \in 0 .. N - 1
  BY <1>1
<1>4. (j + k) % N = IF j + k < N THEN j + k ELSE j + k - N
  BY <1>0, <1>3, WrapSum
<1>. QED BY <1>1, <1>2, <1>3, <1>4

\* Where the one after the first k is.
LEMMA OneMore ==
  ASSUME NEW N \in Nat \ {0}, NEW i \in 0 .. N - 1, NEW k \in 0 .. N - 1, NEW j,
         j = (i + k) % N
  PROVE  (j + 1) % N = (i + (k + 1)) % N
<1>0. 1 \in 0 .. N /\ k \in 0 .. N /\ k + 1 \in 0 .. N
  OBVIOUS
<1>1. j = IF i + k < N THEN i + k ELSE i + k - N
  BY <1>0, WrapSum
<1>2. j \in 0 .. N - 1
  BY <1>1
<1>3. (j + 1) % N = IF j + 1 < N THEN j + 1 ELSE j + 1 - N
  BY <1>0, <1>2, WrapSum
<1>4. (i + (k + 1)) % N = IF i + (k + 1) < N THEN i + (k + 1) ELSE i + (k + 1) - N
  BY <1>0, WrapSum
<1>. QED BY <1>1, <1>2, <1>3, <1>4

----------------------------------------------------------------------------
(* The invariant, action by action *)

\* NetInv without what follows from the rest of it.
Core ==
  /\ NetTypeOK /\ PagesInOrder /\ ScanFindsCard /\ ScanInOrder
  /\ CardStarted /\ CommandInProgress /\ RingInStep
  /\ memory[NULL] = <<>>

CommandRecord ==
  [kind : {"none", "ping", "arp"}, text : TEXTS \union {<<>>},
   target : Addresses \union {<<>>}, seq : Nat, count : Nat]

\* The constants, as the provers need them.
LEMMA Sizes ==
  /\ NUM_TX_DESC \in Nat \ {0} /\ RX_PAGES \in Nat \ {0} /\ BufferPages \in Nat
  /\ BufferPages = RX_PAGES + NUM_TX_DESC
  /\ Desc = 0 .. NUM_TX_DESC - 1 /\ 0 \in Desc
  /\ RESERVED_PAGES \in Nat \ {0} /\ TOTAL_PAGES \in Nat /\ RESERVED_PAGES <= TOTAL_PAGES
  /\ 0 \notin Managed /\ Managed \subseteq Page
<1>1. /\ NUM_TX_DESC \in Nat \ {0} /\ RX_PAGES \in Nat \ {0}
      /\ RESERVED_PAGES \in Nat \ {0} /\ TOTAL_PAGES \in Nat /\ RESERVED_PAGES <= TOTAL_PAGES
  BY NetAssumption, PageAssumption
<1>. QED BY <1>1 DEF BufferPages, Desc, Managed, Page

\* A descriptor of a card that was started has a page of its own.
LEMMA BufferOf ==
  ASSUME Core, card.enabled, NEW d \in Desc
  PROVE  /\ card.txaddr[d] = RESERVED_PAGES + RX_PAGES + d
         /\ tx_buffers(d) = card.txaddr[d]
         /\ card.txaddr[d] \in Managed
<1>1. /\ Len(buffers) = BufferPages /\ buffers \in Seq(Managed)
      /\ card.txaddr[d] = buffers[RX_PAGES + d + 1]
  BY DEF Core, CardStarted, NetTypeOK
<1>2. RX_PAGES + d + 1 \in 1 .. Len(buffers) /\ RX_PAGES + d < Len(buffers)
  BY <1>1, Sizes
<1>3. buffers[RX_PAGES + d + 1] = RESERVED_PAGES + (RX_PAGES + d + 1) - 1
  BY <1>2 DEF Core, PagesInOrder
<1>4. buffers[RX_PAGES + d + 1] \in Managed
  BY <1>1, <1>2
<1>5. tx_buffers(d) = buffers[RX_PAGES + d + 1]
  BY <1>2 DEF tx_buffers
<1>. QED BY <1>1, <1>3, <1>4, <1>5, Sizes

\* rtl8139_send_packet gets past its first check only with a card that was started.
LEMMA HasCard ==
  ASSUME Core, pc \notin {"scan", "alloc", "net_init"}, tx_buffers(0) # NULL
  PROVE  card.enabled /\ our_mac = "card"
<1>1. CASE ~card.enabled
  <2>1. buffers = <<>>
    BY <1>1 DEF Core, CardStarted
  <2>2. ~(RX_PAGES + 0 < Len(buffers))
    BY <2>1, Sizes
  <2>. QED BY <2>2 DEF tx_buffers
<1>. QED BY <1>1 DEF Core, CardStarted

\* The frame of a command is one of those that commands send.
LEMMA FrameIsOne ==
  ASSUME Core, pc \in {"send", "kick"}, our_mac = "card"
  PROVE  Frame \in Frames
<1>1. /\ cmd.target \in Addresses /\ cmd.kind \in {"ping", "arp"}
      /\ cmd.kind = "ping" => cmd.count \in COUNTS
      /\ cmd.seq \in 1 .. cmd.count
  BY DEF Core, CommandInProgress, NetTypeOK
<1>2. CASE cmd.kind = "arp"
  BY <1>1, <1>2 DEF Frame, Frames
<1>3. CASE cmd.kind = "ping"
  <2>1. cmd.seq \in UNION {1 .. c : c \in COUNTS}
    BY <1>1, <1>3
  <2>2. EchoFrame("card", cmd.target, cmd.seq) \in Frames
    BY <1>1, <2>1 DEF Frames
  <2>. QED BY <1>3, <2>2 DEF Frame
<1>. QED BY <1>1, <1>2, <1>3

\* After boot the scan, the pages and the card's set-up are as they were.
LEMMA SetUpSteady ==
  ASSUME Core, UNCHANGED <<pmm_bitmap, bus, at, buffers, others>>,
         pc # "scan", pc' \notin {"scan", "alloc"}
  PROVE  PagesInOrder' /\ ScanFindsCard' /\ ScanInOrder'
<1>1. Cards' = Cards
  BY DEF Cards
<1>2. PagesInOrder'
  BY DEF Core, PagesInOrder
<1>3. ScanFindsCard'
  BY <1>1 DEF Core, ScanFindsCard, NotAfter
<1>4. ScanInOrder'
  BY <1>1 DEF Core, ScanInOrder
<1>. QED BY <1>2, <1>3, <1>4

\* After boot a card stays started, and a machine without one stays without.
LEMMA CardSteady ==
  ASSUME Core, UNCHANGED <<bus, at, buffers, others, our_mac>>,
         pc \notin {"scan", "alloc", "net_init"}, pc' \notin {"scan", "alloc", "net_init"},
         card'.enabled = card.enabled, card'.rbstart = card.rbstart,
         card'.txaddr = card.txaddr, card'.own = card.own \/ card.enabled,
         pc' \in {"kick", "advance"} => card.enabled
  PROVE  CardStarted'
BY DEF Core, CardStarted

\* As long as neither side moves on the descriptors stay as they are.
LEMMA RingSteady ==
  ASSUME Core, UNCHANGED <<card, memory, tx_current_desc>>, pc # "advance",
         pc' \notin {"kick", "advance"}
  PROVE  RingInStep'
<1>1. PICK count \in 0 .. NUM_TX_DESC : OwnsFirst(count)
  BY DEF Core, RingInStep
<1>2. NextDesc' = NextDesc
  BY DEF NextDesc
<1>3. OwnsFirst(count)'
  BY <1>1, <1>2 DEF OwnsFirst, Frames, Addresses
<1>. QED BY <1>1, <1>3 DEF RingInStep

\* Before the scan nothing is allocated and nothing was sent.
LEMMA InitCore ==
  ASSUME Init
  PROVE  Core
<1>1. /\ pmm_bitmap = Page \ Managed /\ bus \in LAYOUTS /\ at = <<1, 1>> /\ pc = "scan"
      /\ buffers = <<>> /\ tx_current_desc = 0 /\ our_mac = "zero"
      /\ memory = [p \in Page |-> <<>>]
      /\ card = [enabled |-> FALSE, desc |-> 0, own |-> [d \in Desc |-> FALSE],
                 txaddr |-> [d \in Desc |-> NULL], rbstart |-> NULL]
      /\ others = {} /\ wire = <<>> /\ offers = 0 /\ cmd = NoCommand
  BY DEF Init, pmm_init
<1>2. 0 \in Page
  BY Sizes DEF Page
<1>3. NetTypeOK
  <2>1. buffers \in Seq(Managed) /\ Len(buffers) <= BufferPages
    BY <1>1, Sizes
  <2>2. card \in [enabled : BOOLEAN, desc : Desc, own : [Desc -> BOOLEAN],
                  txaddr : [Desc -> Page], rbstart : Page]
    BY <1>1, <1>2, Sizes DEF NULL
  <2>3. wire \in Seq(Frames) /\ offers \in Nat
    BY <1>1
  <2>4. memory = [p \in Page |-> memory[p]]
    BY <1>1
  <2>5. cmd \in [kind : {"none", "ping", "arp"}, text : TEXTS \union {<<>>},
                 target : Addresses \union {<<>>}, seq : Nat, count : Nat]
    BY <1>1 DEF NoCommand
  <2>. QED BY <1>1, <2>1, <2>2, <2>3, <2>4, <2>5, Sizes DEF NetTypeOK, Places
<1>4. PagesInOrder
  <2>1. Len(buffers) = 0
    BY <1>1
  <2>2. pmm_bitmap = 0 .. RESERVED_PAGES - 1
    BY <1>1, Sizes DEF Page, Managed
  <2>3. /\ RESERVED_PAGES \in RESERVED_PAGES + Len(buffers) .. TOTAL_PAGES
        /\ RESERVED_PAGES + Len(buffers) .. RESERVED_PAGES - 1 = {}
    BY <2>1, Sizes
  <2>4. \E k \in RESERVED_PAGES + Len(buffers) .. TOTAL_PAGES :
          pmm_bitmap = 0 .. k - 1 /\ others = RESERVED_PAGES + Len(buffers) .. k - 1
    BY <1>1, <2>2, <2>3
  <2>. QED BY <2>1, <2>4 DEF PagesInOrder
<1>5. ScanFindsCard /\ ScanInOrder
  <2>1. Len(bus) \in Nat
    BY <1>1, NetAssumption
  <2>2. at \in (1 .. Len(bus) + 1) \X (1 .. 8) /\ at[1] = 1 /\ at[2] = 1
    BY <1>1, <2>1
  <2>3. ASSUME NEW c \in Cards PROVE NotAfter(at, c)
    <3>1. c[1] \in 1 .. Len(bus) /\ c[2] \in 1 .. 8
      BY DEF Cards
    <3>. QED BY <2>1, <2>2, <3>1 DEF NotAfter
  <2>. QED BY <1>1, <2>2, <2>3 DEF ScanFindsCard, ScanInOrder
<1>6. CardStarted
  BY <1>1 DEF CardStarted
<1>7. CommandInProgress
  BY <1>1 DEF CommandInProgress
<1>8. RingInStep
  <2>1. NextDesc = (card.desc + 0) % NUM_TX_DESC
    BY <1>1, Sizes DEF NextDesc
  <2>2. ASSUME NEW k \in 0 .. NUM_TX_DESC - 1
        PROVE  ~card.own[(card.desc + k) % NUM_TX_DESC] /\ ~(k < 0)
    <3>1. (0 + k) % NUM_TX_DESC \in Desc
      BY Sizes, EachOnce
    <3>. QED BY <1>1, <3>1
  <2>3. OwnsFirst(0)
    BY <2>1, <2>2 DEF OwnsFirst
  <2>4. 0 \in 0 .. NUM_TX_DESC
    BY Sizes
  <2>. QED BY <1>1, <2>3, <2>4 DEF RingInStep
<1>9. memory[NULL] = <<>>
  BY <1>1, <1>2 DEF NULL
<1>. QED BY <1>3, <1>4, <1>5, <1>6, <1>7, <1>8, <1>9 DEF Core

\* The scan looks at every function there is, one after the other.
LEMMA ScanKeeps ==
  ASSUME Core, Scan
  PROVE  Core'
<1>1. /\ pc = "scan"
      /\ UNCHANGED <<pmm_bitmap, bus, buffers, tx_current_desc, our_mac, memory, card, cmd,
                     others, wire, offers, commands>>
  BY DEF Scan, history
<1>2. /\ \/ at[1] > Len(bus) /\ pc' = "net_init" /\ at' = at
         \/ /\ at[1] <= Len(bus) /\ bus[at[1]].func[at[2]] = "card"
            /\ pc' = "alloc" /\ at' = at
         \/ /\ at[1] <= Len(bus) /\ bus[at[1]].func[at[2]] # "card"
            /\ pc' = "scan" /\ at' = AfterMiss
  <2>1. at[1] \in Int /\ Len(bus) \in Int
    BY NetAssumption DEF Core, ScanInOrder, NetTypeOK
  <2>. QED BY <1>1, <2>1 DEF Scan
<1>3. /\ Len(bus) \in Nat /\ at[1] \in 1 .. Len(bus) + 1 /\ at[2] \in 1 .. 8
      /\ \A i \in 1 .. Len(bus) : Len(bus[i].func) \in 1 .. 8
      /\ \A c \in Cards : NotAfter(at, c)
      /\ at[2] = 1 \/ (/\ at[1] <= Len(bus) /\ at[2] <= Len(bus[at[1]].func)
                       /\ bus[at[1]].func[1] # "none" /\ bus[at[1]].multi)
      /\ at \in (1 .. Len(bus) + 1) \X (1 .. 8)
  <2>1. Len(bus) \in Nat /\ \A i \in 1 .. Len(bus) : Len(bus[i].func) \in 1 .. 8
    BY NetAssumption DEF Core, NetTypeOK
  <2>2. at \in (1 .. Len(bus) + 1) \X (1 .. 8)
    BY DEF Core, ScanInOrder
  <2>3. at[1] \in 1 .. Len(bus) + 1 /\ at[2] \in 1 .. 8
    BY <2>2
  <2>. QED BY <1>1, <2>1, <2>2, <2>3, Zenon DEF Core, ScanInOrder
<1>4. Cards' = Cards
  BY <1>1 DEF Cards
<1>5. ASSUME NEW c \in Cards
      PROVE  /\ c[1] \in 1 .. Len(bus) /\ c[2] \in 1 .. 8
             /\ c[2] <= Len(bus[c[1]].func) /\ bus[c[1]].func[c[2]] = "card"
             /\ c[2] = 1 \/ (bus[c[1]].func[1] # "none" /\ bus[c[1]].multi)
  BY DEF Cards
<1>6. ScanFindsCard' /\ ScanInOrder'
  <2>1. CASE at[1] > Len(bus) /\ pc' = "net_init" /\ at' = at
    <3>1. Cards = {}
      BY <1>3, <1>5, <2>1 DEF NotAfter
    <3>. QED BY <1>1, <1>3, <1>4, <2>1, <3>1 DEF ScanFindsCard, ScanInOrder
  <2>2. CASE /\ at[1] <= Len(bus) /\ bus[at[1]].func[at[2]] = "card"
             /\ pc' = "alloc" /\ at' = at
    <3>1. at[1] \in 1 .. Len(bus) /\ at[2] <= Len(bus[at[1]].func)
      BY <1>3, <2>2
    <3>2. at \in (1 .. Len(bus)) \X (1 .. 8)
      BY <1>3, <3>1
    <3>3. at \in Cards
      BY <1>3, <2>2, <3>1, <3>2 DEF Cards
    <3>. QED BY <1>1, <1>3, <1>4, <2>2, <3>3 DEF ScanFindsCard, ScanInOrder, NotAfter
  <2>3. CASE /\ at[1] <= Len(bus) /\ bus[at[1]].func[at[2]] # "card"
             /\ pc' = "scan" /\ at' = AfterMiss
    <3>0. /\ at[1] \in Int /\ at[2] \in Int /\ 1 <= at[1] /\ 1 <= at[2] /\ Len(bus) \in Nat
          /\ \A c \in Cards : c[1] \in Int /\ c[2] \in Int
      <4>1. \A c \in Cards : c[1] \in Int /\ c[2] \in Int
        BY <1>3, <1>5
      <4>. QED BY <1>3, <4>1
    <3>1. at[1] \in 1 .. Len(bus) /\ Len(bus[at[1]].func) \in 1 .. 8
      BY <1>3, <2>3
    <3>2. ASSUME NEW c \in Cards
          PROVE  at[1] < c[1] \/ (at[1] = c[1] /\ at[2] < c[2])
      <4>1. at[1] < c[1] \/ (at[1] = c[1] /\ at[2] <= c[2])
        BY <1>3 DEF NotAfter
      <4>2. ~(at[1] = c[1] /\ at[2] = c[2])
        BY <1>5, <2>3
      <4>. QED BY <3>0, <4>1, <4>2
    <3>3. CASE bus[at[1]].func[1] # "none" /\ HasMoreFunctions
      <4>1. at' = <<at[1], at[2] + 1>>
        BY <2>3, <3>3 DEF AfterMiss
      <4>2. at[2] < Len(bus[at[1]].func) /\ bus[at[1]].multi
        BY <1>3, <3>1, <3>3 DEF HasMoreFunctions
      <4>3. at'[1] = at[1] /\ at'[2] = at[2] + 1 /\ at[2] + 1 \in 1 .. 8
        <5>1. at'[1] = at[1] /\ at'[2] = at[2] + 1
          BY <4>1
        <5>2. PICK len \in 1 .. 8 : len = Len(bus[at[1]].func)
          BY <3>1
        <5>3. at[2] < len
          BY <4>2, <5>2, Zenon
        <5>4. at[2] + 1 \in 1 .. 8
          BY <3>0, <5>3
        <5>. QED BY <5>1, <5>4
      <4>4. at' \in (1 .. Len(bus) + 1) \X (1 .. 8)
        BY <1>3, <4>1, <4>3
      <4>5. \A c \in Cards : NotAfter(at', c)
        <5>. TAKE c \in Cards
        <5>1. at[1] < c[1] \/ (at[1] = c[1] /\ at[2] < c[2])
          BY <3>2
        <5>2. at[1] < c[1] \/ (at[1] = c[1] /\ at[2] + 1 <= c[2])
          BY <3>0, <5>1
        <5>. QED BY <4>3, <5>2, Zenon DEF NotAfter
      <4>6. at'[2] <= Len(bus[at[1]].func)
        BY <1>3, <3>1, <4>2, <4>3
      <4>. QED BY <1>1, <1>4, <2>3, <3>3, <4>2, <4>3, <4>4, <4>5, <4>6
               DEF ScanFindsCard, ScanInOrder, NotAfter
    <3>4. CASE ~(bus[at[1]].func[1] # "none" /\ HasMoreFunctions)
      <4>1. at' = <<at[1] + 1, 1>>
        BY <2>3, <3>4 DEF AfterMiss
      <4>2. ASSUME NEW c \in Cards PROVE at[1] < c[1]
        <5>. SUFFICES ASSUME at[1] = c[1], at[2] < c[2] PROVE FALSE
          BY <3>2
        <5>1. bus[at[1]].func[1] # "none" /\ bus[at[1]].multi
          BY <1>3, <1>5
        <5>2. at[2] < Len(bus[at[1]].func)
          <6>1. PICK len \in 1 .. 8 : len = Len(bus[at[1]].func)
            BY <3>1
          <6>2. c[2] <= len
            BY <1>5, <6>1
          <6>. QED BY <3>0, <6>1, <6>2
        <5>. QED BY <3>4, <5>1, <5>2 DEF HasMoreFunctions
      <4>3. at'[1] = at[1] + 1 /\ at'[2] = 1 /\ at[1] + 1 \in 1 .. Len(bus) + 1
        BY <3>1, <1>3, <4>1
      <4>4. at' \in (1 .. Len(bus) + 1) \X (1 .. 8)
        BY <4>1, <4>3
      <4>5. \A c \in Cards : NotAfter(at', c)
        <5>. TAKE c \in Cards
        <5>1. at[1] < c[1] /\ 1 <= c[2]
          BY <1>5, <4>2
        <5>. QED BY <3>0, <4>3, <5>1 DEF NotAfter
      <4>. QED BY <1>1, <1>4, <2>3, <4>3, <4>4, <4>5 DEF ScanFindsCard, ScanInOrder, NotAfter
    <3>. QED BY <3>3, <3>4
  <2>. QED BY <1>2, <2>1, <2>2, <2>3
<1>7. pc' \in {"scan", "alloc", "net_init"}
  BY <1>2
<1>8. NetTypeOK' /\ PagesInOrder' /\ memory'[NULL] = <<>>
  BY <1>1, <1>7 DEF Core, NetTypeOK, PagesInOrder, Places
<1>9. CardStarted'
  <2>1. ~card.enabled /\ buffers = <<>> /\ others = {} /\ \A d \in Desc : ~card.own[d]
    BY <1>1 DEF Core, CardStarted
  <2>2. pc' = "net_init" => at'[1] > Len(bus)
    BY <1>2
  <2>. QED BY <1>1, <1>7, <2>1, <2>2 DEF CardStarted
<1>10. CommandInProgress'
  BY <1>7 DEF CommandInProgress
<1>11. RingInStep'
  BY <1>1, <1>7, RingSteady
<1>. QED BY <1>6, <1>8, <1>9, <1>10, <1>11 DEF Core

\* The first free page follows those in use.
LEMMA FirstFree ==
  ASSUME NEW k \in RESERVED_PAGES .. TOTAL_PAGES, pmm_bitmap = 0 .. k - 1
  PROVE  /\ k < TOTAL_PAGES => k \in FreePages
         /\ \A p : pmm_alloc_page(p) =>
              p = k /\ k < TOTAL_PAGES /\ k \in Managed /\ pmm_bitmap' = 0 .. (k + 1) - 1
<1>1. FreePages = k .. TOTAL_PAGES - 1
  BY Sizes DEF FreePages, Managed
<1>2. k < TOTAL_PAGES => k \in FreePages
  BY <1>1, Sizes
<1>3. ASSUME NEW p, pmm_alloc_page(p)
      PROVE  p = k /\ k < TOTAL_PAGES /\ k \in Managed /\ pmm_bitmap' = 0 .. (k + 1) - 1
  <2>1. p \in k .. TOTAL_PAGES - 1 /\ \A q \in FreePages : p <= q
    BY <1>1, <1>3 DEF pmm_alloc_page
  <2>2. k < TOTAL_PAGES /\ p = k
    BY <1>2, <2>1, Sizes
  <2>3. pmm_bitmap' = 0 .. (k + 1) - 1
    BY <1>3, <2>2, Sizes DEF pmm_alloc_page
  <2>. QED BY <2>2, <2>3, Sizes DEF Managed
<1>. QED BY <1>2, <1>3

\* A buffer gets the first free page, which follows the buffers there are.
LEMMA AllocBufferKeeps ==
  ASSUME Core, EnoughPages, AllocBuffer
  PROVE  Core'
<1>1. /\ pc = "alloc" /\ Len(buffers) < BufferPages
      /\ UNCHANGED <<bus, at, tx_current_desc, our_mac, memory, card, cmd, others, wire, offers,
                     commands>>
  BY DEF AllocBuffer, history
<1>2. buffers \in Seq(Managed) /\ Len(buffers) \in Nat /\ others = {} /\ ~card.enabled
  BY <1>1 DEF Core, NetTypeOK, CardStarted
<1>3. PICK k \in RESERVED_PAGES + Len(buffers) .. TOTAL_PAGES :
        pmm_bitmap = 0 .. k - 1 /\ others = RESERVED_PAGES + Len(buffers) .. k - 1
  BY DEF Core, PagesInOrder
<1>4. k = RESERVED_PAGES + Len(buffers) /\ k < TOTAL_PAGES /\ k \in RESERVED_PAGES .. TOTAL_PAGES
  BY <1>1, <1>2, <1>3, Sizes DEF EnoughPages
<1>5. /\ pmm_bitmap' = 0 .. (k + 1) - 1 /\ buffers' = Append(buffers, k) /\ k \in Managed
      /\ pc' = pc
  <2>1. FreePages # {}
    BY <1>3, <1>4, FirstFree
  <2>2. PICK p \in FreePages : pmm_alloc_page(p) /\ buffers' = Append(buffers, p)
    BY <2>1 DEF AllocBuffer
  <2>3. p = k /\ k \in Managed /\ pmm_bitmap' = 0 .. (k + 1) - 1
    BY <1>3, <1>4, <2>2, FirstFree
  <2>. QED BY <2>1, <2>2, <2>3 DEF AllocBuffer
<1>6. /\ buffers' \in Seq(Managed) /\ Len(buffers') = Len(buffers) + 1
      /\ \A i \in 1 .. Len(buffers) + 1 :
           buffers'[i] = IF i = Len(buffers) + 1 THEN k ELSE buffers[i]
  BY <1>2, <1>5
<1>7. NetTypeOK'
  <2>1. Len(buffers') <= BufferPages
    BY <1>1, <1>2, <1>6, Sizes
  <2>. QED BY <1>1, <1>5, <1>6, <2>1 DEF Core, NetTypeOK
<1>8. PagesInOrder'
  <2>1. \A i \in 1 .. Len(buffers') : buffers'[i] = RESERVED_PAGES + i - 1
    <3>. TAKE i \in 1 .. Len(buffers')
    <3>1. CASE i = Len(buffers) + 1
      BY <1>2, <1>4, <1>6, <3>1, Sizes
    <3>2. CASE i # Len(buffers) + 1
      <4>1. i \in 1 .. Len(buffers)
        BY <1>2, <1>6, <3>2
      <4>2. buffers[i] = RESERVED_PAGES + i - 1
        BY <4>1 DEF Core, PagesInOrder
      <4>. QED BY <1>6, <3>2, <4>2
    <3>. QED BY <3>1, <3>2
  <2>2. /\ k + 1 \in RESERVED_PAGES + Len(buffers') .. TOTAL_PAGES
        /\ RESERVED_PAGES + Len(buffers') .. (k + 1) - 1 = {}
    BY <1>2, <1>4, <1>6, Sizes
  <2>3. \E m \in RESERVED_PAGES + Len(buffers') .. TOTAL_PAGES :
          pmm_bitmap' = 0 .. m - 1 /\ others' = RESERVED_PAGES + Len(buffers') .. m - 1
    BY <1>1, <1>2, <1>5, <2>2
  <2>. QED BY <2>1, <2>3 DEF PagesInOrder
<1>9. ScanFindsCard' /\ ScanInOrder'
  <2>1. Cards' = Cards
    BY <1>1 DEF Cards
  <2>. QED BY <1>1, <1>5, <2>1 DEF Core, ScanFindsCard, ScanInOrder, NotAfter
<1>10. CardStarted'
  BY <1>1, <1>2, <1>5 DEF Core, CardStarted
<1>11. CommandInProgress' /\ memory'[NULL] = <<>>
  BY <1>1, <1>5 DEF Core, CommandInProgress
<1>12. RingInStep'
  BY <1>1, <1>5, RingSteady
<1>. QED BY <1>7, <1>8, <1>9, <1>10, <1>11, <1>12 DEF Core

\* A card that was just started has nothing to send.
LEMMA StartCardOwns ==
  ASSUME StartCard
  PROVE  card'.desc \in Desc /\ OwnsFirst(0)'
<1>1. /\ pc' = "net_init" /\ tx_current_desc' = 0 /\ card'.desc = 0
      /\ card'.own = [d \in Desc |-> FALSE]
  BY DEF StartCard
<1>2. NextDesc' = (card'.desc + 0) % NUM_TX_DESC
  BY <1>1, Sizes DEF NextDesc
<1>3. ASSUME NEW k \in 0 .. NUM_TX_DESC - 1
      PROVE  ~card'.own[(card'.desc + k) % NUM_TX_DESC] /\ ~(k < 0)
  <2>1. (0 + k) % NUM_TX_DESC \in Desc
    BY Sizes, EachOnce
  <2>. QED BY <1>1, <2>1
<1>4. OwnsFirst(0)'
  BY <1>2, <1>3 DEF OwnsFirst
<1>. QED BY <1>1, <1>4, Sizes

\* The card is told of all its buffers before it is enabled.
LEMMA StartCardKeeps ==
  ASSUME Core, StartCard
  PROVE  Core'
<1>1. /\ pc = "alloc" /\ Len(buffers) = BufferPages /\ pc' = "net_init"
      /\ card' = [enabled |-> TRUE, desc |-> 0, own |-> [d \in Desc |-> FALSE],
                  txaddr |-> [d \in Desc |-> tx_buffers(d)], rbstart |-> rx_buffer]
      /\ tx_current_desc' = 0
      /\ UNCHANGED <<pmm_bitmap, bus, at, buffers, our_mac, memory, cmd, others, wire, offers,
                     commands>>
  BY DEF StartCard, history
<1>2. buffers \in Seq(Managed) /\ Len(buffers) >= 1
  BY <1>1, Sizes DEF Core, NetTypeOK
<1>3. rx_buffer = buffers[1] /\ rx_buffer \in Managed
  BY <1>2 DEF rx_buffer
<1>4. ASSUME NEW d \in Desc
      PROVE  tx_buffers(d) = buffers[RX_PAGES + d + 1] /\ tx_buffers(d) \in Managed
  <2>1. RX_PAGES + d < Len(buffers) /\ RX_PAGES + d + 1 \in 1 .. Len(buffers)
    BY <1>1, Sizes
  <2>. QED BY <1>2, <2>1 DEF tx_buffers
<1>5. NetTypeOK'
  <2>1. card' \in [enabled : BOOLEAN, desc : Desc, own : [Desc -> BOOLEAN],
                   txaddr : [Desc -> Page], rbstart : Page]
    <3>1. [d \in Desc |-> tx_buffers(d)] \in [Desc -> Page]
      BY <1>4, Sizes
    <3>2. rx_buffer \in Page
      BY <1>3, Sizes
    <3>. QED BY <1>1, <3>1, <3>2, Sizes
  <2>. QED BY <1>1, <2>1, Sizes DEF Core, NetTypeOK, Places
<1>6. PagesInOrder' /\ ScanFindsCard' /\ ScanInOrder'
  BY <1>1, SetUpSteady
<1>7. CardStarted'
  <2>1. at[1] <= Len(bus) /\ at[1] \in Int /\ Len(bus) \in Int
    BY <1>1, NetAssumption DEF Core, ScanInOrder, NetTypeOK
  <2>2. card'.enabled /\ card'.rbstart = buffers[1]
    BY <1>1, <1>3
  <2>3. \A d \in Desc : card'.txaddr[d] = buffers[RX_PAGES + d + 1]
    BY <1>1, <1>4
  <2>4. ~(at[1] > Len(bus))
    BY <2>1
  <2>. QED BY <1>1, <2>2, <2>3, <2>4 DEF CardStarted
<1>8. CommandInProgress' /\ memory'[NULL] = <<>>
  BY <1>1 DEF Core, CommandInProgress
<1>9. RingInStep'
  <2>1. 0 \in 0 .. NUM_TX_DESC
    BY Sizes
  <2>. QED BY <1>1, <2>1, StartCardOwns DEF RingInStep
<1>. QED BY <1>5, <1>6, <1>7, <1>8, <1>9 DEF Core

\* net_init copies the address of a card that was found.
LEMMA NetInitKeeps ==
  ASSUME Core, net_init
  PROVE  Core'
<1>1. /\ pc = "net_init" /\ pc' = "idle"
      /\ our_mac' = IF at[1] > Len(bus) THEN "zero" ELSE "card"
      /\ UNCHANGED <<pmm_bitmap, bus, at, buffers, tx_current_desc, memory, card, cmd, others,
                     wire, offers, commands>>
  BY DEF net_init, history
<1>2. NetTypeOK' /\ memory'[NULL] = <<>>
  BY <1>1 DEF Core, NetTypeOK, Places
<1>3. PagesInOrder' /\ ScanFindsCard' /\ ScanInOrder'
  BY <1>1, SetUpSteady
<1>4. CardStarted'
  BY <1>1 DEF Core, CardStarted
<1>5. CommandInProgress'
  BY <1>1 DEF CommandInProgress
<1>6. RingInStep'
  BY <1>1, RingSteady
<1>. QED BY <1>2, <1>3, <1>4, <1>5, <1>6 DEF Core

\* The pages of the rest of the kernel follow the card's.
LEMMA OthersAllocateKeeps ==
  ASSUME Core, OthersAllocate
  PROVE  Core'
<1>1. /\ pc = "idle"
      /\ UNCHANGED <<bus, at, buffers, tx_current_desc, our_mac, pc, cmd, commands, memory,
                     card, wire, offers>>
  BY DEF OthersAllocate, kernel, history
<1>2. PICK p \in FreePages : pmm_alloc_page(p) /\ others' = others \union {p}
  BY DEF OthersAllocate
<1>3. PICK k \in RESERVED_PAGES + Len(buffers) .. TOTAL_PAGES :
        pmm_bitmap = 0 .. k - 1 /\ others = RESERVED_PAGES + Len(buffers) .. k - 1
  BY DEF Core, PagesInOrder
<1>4. Len(buffers) \in Nat
  BY DEF Core, NetTypeOK
<1>5. k \in RESERVED_PAGES .. TOTAL_PAGES
  BY <1>4, Sizes
<1>6. p = k /\ k < TOTAL_PAGES /\ pmm_bitmap' = 0 .. (k + 1) - 1
  BY <1>2, <1>3, <1>5, FirstFree
<1>7. PagesInOrder'
  <2>1. others' = RESERVED_PAGES + Len(buffers) .. (k + 1) - 1
    BY <1>2, <1>3, <1>4, <1>6, Sizes
  <2>2. k + 1 \in RESERVED_PAGES + Len(buffers) .. TOTAL_PAGES
    BY <1>4, <1>6, Sizes
  <2>3. \E m \in RESERVED_PAGES + Len(buffers) .. TOTAL_PAGES :
          pmm_bitmap' = 0 .. m - 1 /\ others' = RESERVED_PAGES + Len(buffers) .. m - 1
    BY <1>6, <2>1, <2>2
  <2>. QED BY <1>1, <2>3 DEF Core, PagesInOrder
<1>8. NetTypeOK' /\ memory'[NULL] = <<>> /\ CommandInProgress'
  BY <1>1 DEF Core, NetTypeOK, CommandInProgress
<1>9. ScanFindsCard' /\ ScanInOrder'
  <2>1. Cards' = Cards
    BY <1>1 DEF Cards
  <2>. QED BY <1>1, <2>1 DEF Core, ScanFindsCard, ScanInOrder, NotAfter
<1>10. CardStarted'
  BY <1>1 DEF Core, CardStarted
<1>11. RingInStep'
  BY <1>1, RingSteady
<1>. QED BY <1>7, <1>8, <1>9, <1>10, <1>11 DEF Core

\* After boot, a step that touches neither the descriptors nor the memory.
LEMMA CommandStep ==
  ASSUME Core, pc \notin {"scan", "alloc", "net_init", "advance"},
         pc' \in {"idle", "send", "sleep", "wake"},
         UNCHANGED <<pmm_bitmap, bus, at, buffers, tx_current_desc, our_mac, memory, card,
                     others, wire>>,
         cmd' \in CommandRecord, offers' \in Nat, CommandInProgress'
  PROVE  Core'
<1>1. NetTypeOK' /\ memory'[NULL] = <<>>
  BY DEF Core, NetTypeOK, Places, CommandRecord
<1>2. PagesInOrder' /\ ScanFindsCard' /\ ScanInOrder'
  BY SetUpSteady
<1>3. CardStarted'
  BY CardSteady
<1>4. RingInStep'
  BY RingSteady
<1>. QED BY <1>1, <1>2, <1>3, <1>4 DEF Core

\* A command goes on to send only with an address and a count.
LEMMA CommandKeeps ==
  ASSUME Core, NEW kind \in {"ping", "arp"}, NEW text \in TEXTS, NEW count \in Nat,
         kind = "ping" => count \in COUNTS, Command(kind, text, count)
  PROVE  Core'
<1>1. /\ pc = "idle"
      /\ cmd' = [kind |-> kind, text |-> text, target |-> parse_ip4(text), seq |-> 1,
                 count |-> count]
      /\ pc' = IF parse_ip4(text) = <<>> \/ count = 0 THEN "idle" ELSE "send"
      /\ UNCHANGED <<pmm_bitmap, bus, at, buffers, tx_current_desc, our_mac, memory, card,
                     others, wire, offers>>
  BY DEF Command, history
<1>2. CommandInProgress'
  <2>1. CASE pc' = "idle"
    BY <2>1 DEF CommandInProgress
  <2>2. CASE pc' = "send"
    <3>1. parse_ip4(text) # <<>> /\ count # 0
      BY <1>1, <2>2
    <3>2. 1 \in 1 .. count
      BY <3>1
    <3>. QED BY <1>1, <2>2, <3>1, <3>2 DEF CommandInProgress
  <2>. QED BY <1>1, <2>1, <2>2
<1>3. offers' \in Nat
  BY <1>1 DEF Core, NetTypeOK
<1>4. cmd' \in CommandRecord
  <2>1. parse_ip4(text) \in Addresses \union {<<>>}
    BY DEF Addresses
  <2>. QED BY <1>1, <2>1 DEF CommandRecord
<1>. QED BY <1>1, <1>2, <1>3, <1>4, CommandStep

\* The two commands.
LEMMA CommandsKeep ==
  ASSUME Core, cmd_ping \/ cmd_arp
  PROVE  Core'
<1>1. ASSUME NEW text \in TEXTS, NEW count \in COUNTS, Command("ping", text, count)
      PROVE  Core'
  <2>1. count \in Nat
    BY NetAssumption
  <2>. QED BY <1>1, <2>1, CommandKeeps
<1>2. ASSUME NEW text \in TEXTS, Command("arp", text, 1)
      PROVE  Core'
  BY <1>2, CommandKeeps
<1>. QED BY <1>1, <1>2 DEF cmd_ping, cmd_arp

\* A ping sleeps only while it has frames left to send,
LEMMA PitTicksKeeps ==
  ASSUME Core, PitTicks
  PROVE  Core'
<1>1. /\ pc = "sleep" /\ pc' = "wake"
      /\ UNCHANGED <<pmm_bitmap, bus, at, buffers, tx_current_desc, our_mac, memory, card, cmd,
                     others, wire, offers>>
  BY DEF PitTicks, history
<1>2. CommandInProgress'
  BY <1>1 DEF Core, CommandInProgress
<1>3. cmd' \in CommandRecord /\ offers' \in Nat
  BY <1>1 DEF Core, NetTypeOK, CommandRecord
<1>. QED BY <1>1, <1>2, <1>3, CommandStep

\* and then goes on with the next.
LEMMA WakeKeeps ==
  ASSUME Core, Wake
  PROVE  Core'
<1>1. /\ pc = "wake" /\ pc' = "send" /\ cmd' = [cmd EXCEPT !.seq = @ + 1]
      /\ UNCHANGED <<pmm_bitmap, bus, at, buffers, tx_current_desc, our_mac, memory, card,
                     others, wire, offers>>
  BY DEF Wake, history
<1>2. /\ cmd \in CommandRecord
      /\ cmd.kind # "none" /\ cmd.target # <<>> /\ cmd.seq \in 1 .. cmd.count
      /\ cmd.kind = "ping" => cmd.count \in COUNTS
      /\ cmd.seq < cmd.count
  BY <1>1 DEF Core, CommandInProgress, NetTypeOK, CommandRecord
<1>3. /\ cmd' \in CommandRecord
      /\ cmd'.target = cmd.target /\ cmd'.kind = cmd.kind /\ cmd'.count = cmd.count
      /\ cmd'.seq = cmd.seq + 1
  BY <1>1, <1>2 DEF CommandRecord
<1>4. cmd.seq + 1 \in 1 .. cmd.count
  <2>1. cmd.seq \in Nat /\ cmd.count \in Nat
    BY <1>2 DEF CommandRecord
  <2>. QED BY <1>2, <2>1
<1>5. CommandInProgress'
  BY <1>1, <1>2, <1>3, <1>4 DEF CommandInProgress
<1>6. offers' \in Nat
  BY <1>1 DEF Core, NetTypeOK
<1>. QED BY <1>1, <1>3, <1>5, <1>6, CommandStep

\* A frame is done with.
LEMMA SentOrDroppedKeeps ==
  ASSUME CommandInProgress, pc \in {"send", "advance"}, SentOrDropped, cmd' = cmd
  PROVE  pc' \in {"idle", "sleep"} /\ CommandInProgress'
<1>1. pc' \in {"idle", "sleep"} /\ (pc' = "sleep" => cmd.seq < cmd.count)
  BY DEF SentOrDropped
<1>. QED BY <1>1 DEF CommandInProgress

\* A frame that is refused or dropped leaves the descriptors alone.
LEMMA NotSentKeeps ==
  ASSUME Core, SendRefused \/ SendBusy
  PROVE  Core'
<1>1. /\ pc = "send" /\ SentOrDropped /\ offers' \in {offers, offers + 1}
      /\ UNCHANGED <<pmm_bitmap, bus, at, buffers, tx_current_desc, our_mac, memory, card, cmd,
                     others, wire>>
  BY DEF SendRefused, SendBusy, history
<1>2. offers' \in Nat
  BY <1>1 DEF Core, NetTypeOK
<1>3. pc' \in {"idle", "sleep"} /\ CommandInProgress'
  BY <1>1, SentOrDroppedKeeps DEF Core
<1>4. cmd' \in CommandRecord
  BY <1>1 DEF Core, NetTypeOK, CommandRecord
<1>. QED BY <1>1, <1>2, <1>3, <1>4, CommandStep

\* The frame goes to a page of which the card has nothing to send.
LEMMA CopyElsewhere ==
  ASSUME Core, CopyFrame
  PROVE  /\ card.enabled /\ memory' = [p \in Page |-> memory'[p]] /\ memory'[NULL] = <<>>
         /\ memory'[card.txaddr[tx_current_desc]] = Frame
         /\ \A d \in Desc :
              card.own[d] => memory'[card.txaddr[d]] = memory[card.txaddr[d]]
<1>1. /\ pc = "send" /\ tx_buffers(0) # NULL /\ ~card.own[tx_current_desc]
      /\ memory' = [memory EXCEPT ![tx_buffers(tx_current_desc)] = Frame]
  BY DEF CopyFrame
<1>2. card.enabled
  BY <1>1, HasCard
<1>3. PICK to : to = card.txaddr[tx_current_desc]
  OBVIOUS
<1>4. tx_current_desc \in Desc
  BY DEF Core, NetTypeOK
<1>5. /\ to = RESERVED_PAGES + RX_PAGES + tx_current_desc
      /\ tx_buffers(tx_current_desc) = to /\ to \in Managed
  BY <1>2, <1>3, <1>4, BufferOf
<1>6. to \in Page /\ to # NULL /\ memory' = [memory EXCEPT ![to] = Frame]
  BY <1>1, <1>5, Sizes DEF NULL
<1>7. /\ memory' = [p \in Page |-> memory'[p]] /\ memory'[to] = Frame
      /\ \A p \in Page : p # to => memory'[p] = memory[p]
  <2>1. memory = [p \in Page |-> memory[p]]
    BY DEF Core, NetTypeOK
  <2>. QED BY <1>6, <2>1
<1>8. memory'[NULL] = <<>>
  <2>1. NULL \in Page
    BY Sizes DEF NULL, Page
  <2>. QED BY <1>6, <1>7, <2>1 DEF Core
<1>9. ASSUME NEW d \in Desc, card.own[d]
      PROVE  memory'[card.txaddr[d]] = memory[card.txaddr[d]]
  <2>1. d # tx_current_desc
    BY <1>1, <1>9
  <2>2. card.txaddr[d] = RESERVED_PAGES + RX_PAGES + d /\ card.txaddr[d] \in Managed
    BY <1>2, BufferOf
  <2>3. card.txaddr[d] # to
    BY <1>4, <1>5, <2>1, <2>2, Sizes
  <2>4. card.txaddr[d] \in Page
    BY <2>2, Sizes
  <2>. QED BY <1>7, <2>3, <2>4
<1>. QED BY <1>2, <1>3, <1>7, <1>8, <1>9

\* The frame is complete before the descriptor is handed over.
LEMMA CopyFrameKeeps ==
  ASSUME Core, CopyFrame
  PROVE  Core'
<1>1. /\ pc = "send" /\ ~card.own[tx_current_desc] /\ pc' = "kick"
      /\ UNCHANGED <<pmm_bitmap, bus, at, buffers, tx_current_desc, our_mac, card, cmd, others,
                     wire, offers>>
  BY DEF CopyFrame, history
<1>2. /\ card.enabled /\ memory' = [p \in Page |-> memory'[p]] /\ memory'[NULL] = <<>>
      /\ memory'[card.txaddr[tx_current_desc]] = Frame
      /\ \A d \in Desc : card.own[d] => memory'[card.txaddr[d]] = memory[card.txaddr[d]]
  BY CopyElsewhere
<1>3. NetTypeOK'
  BY <1>1, <1>2 DEF Core, NetTypeOK, Places
<1>4. PagesInOrder' /\ ScanFindsCard' /\ ScanInOrder'
  BY <1>1, SetUpSteady
<1>5. CardStarted'
  BY <1>1, <1>2, CardSteady
<1>6. CommandInProgress'
  BY <1>1 DEF Core, CommandInProgress
<1>7. RingInStep'
  <2>1. PICK count \in 0 .. NUM_TX_DESC : OwnsFirst(count)
    BY DEF Core, RingInStep
  <2>2. NextDesc' = (card'.desc + count) % NUM_TX_DESC
    BY <1>1, <2>1 DEF OwnsFirst, NextDesc
  <2>3. ASSUME NEW k \in 0 .. NUM_TX_DESC - 1, NEW d, d = (card.desc + k) % NUM_TX_DESC
        PROVE  /\ card'.own[d] <=> k < count
               /\ k < count => memory'[card'.txaddr[d]] \in Frames
    <3>0. card.desc \in Desc
      BY DEF Core, NetTypeOK
    <3>1. d \in Desc
      BY <2>3, <3>0, Sizes, EachOnce
    <3>2. /\ card.own[d] <=> k < count
          /\ k < count => memory[card.txaddr[d]] \in Frames
      BY <2>1, <2>3 DEF OwnsFirst
    <3>. QED BY <1>1, <1>2, <3>1, <3>2
  <2>4. OwnsFirst(count)'
    BY <1>1, <2>2, <2>3 DEF OwnsFirst, Frames, Addresses
  <2>5. ~card'.own[tx_current_desc'] /\ memory'[card'.txaddr[tx_current_desc']] = Frame'
    BY <1>1, <1>2 DEF Frame
  <2>. QED BY <2>4, <2>5 DEF RingInStep
<1>. QED BY <1>2, <1>3, <1>4, <1>5, <1>6, <1>7 DEF Core

CardRecord ==
  [enabled : BOOLEAN, desc : Desc, own : [Desc -> BOOLEAN], txaddr : [Desc -> Page],
   rbstart : Page]

\* A descriptor that the driver finds free is the one after the card's.
LEMMA FreeDescriptor ==
  ASSUME Core, pc \in {"send", "kick"}, NEW count \in 0 .. NUM_TX_DESC, OwnsFirst(count)
  PROVE  /\ tx_current_desc = (card.desc + count) % NUM_TX_DESC
         /\ card.own[tx_current_desc] <=> count = NUM_TX_DESC
<1>1. tx_current_desc = (card.desc + count) % NUM_TX_DESC
  BY DEF OwnsFirst, NextDesc
<1>2. card.desc \in 0 .. NUM_TX_DESC - 1 /\ NUM_TX_DESC \in Nat \ {0}
  BY Sizes DEF Core, NetTypeOK
<1>3. CASE count = NUM_TX_DESC
  <2>1. 0 \in 0 .. NUM_TX_DESC - 1 /\ 0 < NUM_TX_DESC
    BY <1>2
  <2>2. card.own[(card.desc + 0) % NUM_TX_DESC]
    BY <1>3, <2>1 DEF OwnsFirst
  <2>3. PICK i \in 0 .. NUM_TX_DESC - 1 : i = card.desc
    BY <1>2
  <2>4. (i + 0) % NUM_TX_DESC = (i + NUM_TX_DESC) % NUM_TX_DESC
    BY <1>2
  <2>. QED BY <1>1, <1>3, <2>2, <2>3, <2>4
<1>4. CASE count # NUM_TX_DESC
  <2>1. count \in 0 .. NUM_TX_DESC - 1 /\ ~(count < count)
    BY <1>2, <1>4
  <2>2. ~card.own[(card.desc + count) % NUM_TX_DESC]
    BY <2>1 DEF OwnsFirst
  <2>. QED BY <1>1, <1>4, <2>2
<1>. QED BY <1>1, <1>3, <1>4

\* What Kick does to the ring.
LEMMA KickOwns ==
  ASSUME Core, Kick, NEW count \in 0 .. NUM_TX_DESC, OwnsFirst(count)
  PROVE  /\ card' \in CardRecord /\ card'.enabled = card.enabled /\ card'.desc = card.desc
         /\ card'.txaddr = card.txaddr /\ card'.rbstart = card.rbstart
         /\ count < NUM_TX_DESC /\ card.enabled
         /\ memory[card.txaddr[(card.desc + count) % NUM_TX_DESC]] = Frame
         /\ Frame \in Frames
         /\ OwnsFirst(count + 1)'
<1>1. /\ pc = "kick" /\ pc' = "advance"
      /\ card' = [card EXCEPT !.own[tx_current_desc] = TRUE]
      /\ UNCHANGED <<tx_current_desc, memory>>
  BY DEF Kick
<1>2. card \in CardRecord /\ tx_current_desc \in Desc /\ card.desc \in Desc
  BY DEF Core, NetTypeOK, CardRecord
<1>3. /\ card' \in CardRecord /\ card'.enabled = card.enabled /\ card'.desc = card.desc
      /\ card'.txaddr = card.txaddr /\ card'.rbstart = card.rbstart
      /\ card'.own = [card.own EXCEPT ![tx_current_desc] = TRUE]
  BY <1>1, <1>2 DEF CardRecord
<1>4. \A d \in Desc : card'.own[d] <=> card.own[d] \/ d = tx_current_desc
  <2>1. card.own \in [Desc -> BOOLEAN]
    BY <1>2 DEF CardRecord
  <2>. QED BY <1>3, <2>1
<1>5. /\ card.enabled /\ ~card.own[tx_current_desc]
      /\ memory[card.txaddr[tx_current_desc]] = Frame
  BY <1>1 DEF Core, CardStarted, RingInStep
<1>6. Frame \in Frames
  <2>1. our_mac = "card"
    BY <1>1, <1>5 DEF Core, CardStarted
  <2>. QED BY <1>1, <2>1, FrameIsOne
<1>7. tx_current_desc = (card.desc + count) % NUM_TX_DESC /\ count # NUM_TX_DESC
  BY <1>1, <1>5, FreeDescriptor
<1>8. count \in 0 .. NUM_TX_DESC - 1 /\ count < NUM_TX_DESC
  BY <1>7, Sizes
<1>9. NextDesc' = (card'.desc + (count + 1)) % NUM_TX_DESC
  <2>1. (tx_current_desc + 1) % NUM_TX_DESC = (card.desc + (count + 1)) % NUM_TX_DESC
    BY <1>2, <1>7, <1>8, Sizes, OneMore
  <2>. QED BY <1>1, <1>3, <2>1 DEF NextDesc
<1>10. ASSUME NEW k \in 0 .. NUM_TX_DESC - 1, NEW d, d = (card.desc + k) % NUM_TX_DESC
       PROVE  /\ card'.own[d] <=> k < count + 1
              /\ k < count + 1 => memory[card.txaddr[d]] \in Frames
  <2>1. d \in Desc /\ (d = tx_current_desc <=> k = count)
    BY <1>2, <1>7, <1>8, <1>10, Sizes, EachOnce
  <2>2. card.own[d] <=> k < count
    BY <1>10 DEF OwnsFirst
  <2>3. k < count + 1 <=> k < count \/ k = count
    BY <1>8, Sizes
  <2>4. k < count => memory[card.txaddr[d]] \in Frames
    BY <1>10 DEF OwnsFirst
  <2>5. k = count => memory[card.txaddr[d]] \in Frames
    BY <1>5, <1>6, <2>1
  <2>. QED BY <1>4, <2>1, <2>2, <2>3, <2>4, <2>5
<1>11. OwnsFirst(count + 1)'
  BY <1>1, <1>3, <1>9, <1>10 DEF OwnsFirst, Frames, Addresses
<1>. QED BY <1>3, <1>5, <1>6, <1>7, <1>8, <1>11

\* The driver hands over the descriptor that follows the card's.
LEMMA KickKeeps ==
  ASSUME Core, Kick
  PROVE  Core'
<1>1. /\ pc = "kick" /\ pc' = "advance" /\ offers' = offers + 1
      /\ UNCHANGED <<pmm_bitmap, bus, at, buffers, tx_current_desc, our_mac, memory, cmd,
                     others, wire>>
  BY DEF Kick
<1>2. PICK count \in 0 .. NUM_TX_DESC : OwnsFirst(count)
  BY DEF Core, RingInStep
<1>3. /\ card' \in CardRecord /\ card'.enabled = card.enabled
      /\ card'.txaddr = card.txaddr /\ card'.rbstart = card.rbstart
      /\ count < NUM_TX_DESC /\ card.enabled /\ OwnsFirst(count + 1)'
  BY <1>2, KickOwns
<1>4. NetTypeOK' /\ memory'[NULL] = <<>>
  <2>1. offers' \in Nat
    BY <1>1 DEF Core, NetTypeOK
  <2>. QED BY <1>1, <1>3, <2>1 DEF Core, NetTypeOK, Places, CardRecord
<1>5. PagesInOrder' /\ ScanFindsCard' /\ ScanInOrder'
  BY <1>1, SetUpSteady
<1>6. CardStarted'
  BY <1>1, <1>3, CardSteady
<1>7. CommandInProgress'
  BY <1>1 DEF Core, CommandInProgress
<1>8. RingInStep'
  <2>1. count + 1 \in 0 .. NUM_TX_DESC
    BY <1>3, Sizes
  <2>. QED BY <1>1, <1>3, <2>1 DEF RingInStep
<1>. QED BY <1>4, <1>5, <1>6, <1>7, <1>8 DEF Core

\* The index catches up with the frame that was handed over.
LEMMA AdvanceKeeps ==
  ASSUME Core, Advance
  PROVE  Core'
<1>1. /\ pc = "advance" /\ SentOrDropped
      /\ tx_current_desc' = (tx_current_desc + 1) % NUM_TX_DESC
      /\ UNCHANGED <<pmm_bitmap, bus, at, buffers, our_mac, memory, card, cmd, others, wire,
                     offers>>
  BY DEF Advance, history
<1>2. pc' \in {"idle", "sleep"} /\ CommandInProgress'
  BY <1>1, SentOrDroppedKeeps DEF Core
<1>3. NetTypeOK' /\ memory'[NULL] = <<>>
  <2>0. PICK i \in 0 .. NUM_TX_DESC - 1 : i = tx_current_desc
    BY Sizes DEF Core, NetTypeOK
  <2>1. tx_current_desc' \in Desc
    BY <1>1, <2>0, Sizes
  <2>. QED BY <1>1, <1>2, <2>1 DEF Core, NetTypeOK, Places
<1>4. PagesInOrder' /\ ScanFindsCard' /\ ScanInOrder'
  BY <1>1, <1>2, SetUpSteady
<1>5. CardStarted'
  BY <1>1, <1>2, CardSteady
<1>6. RingInStep'
  <2>1. PICK count \in 0 .. NUM_TX_DESC : OwnsFirst(count)
    BY DEF Core, RingInStep
  <2>2. NextDesc' = NextDesc
    BY <1>1, <1>2 DEF NextDesc
  <2>3. OwnsFirst(count)'
    BY <1>1, <2>1, <2>2 DEF OwnsFirst, Frames, Addresses
  <2>. QED BY <1>2, <2>1, <2>3 DEF RingInStep
<1>. QED BY <1>2, <1>3, <1>4, <1>5, <1>6 DEF Core

\* What Transmit does to the ring.
LEMMA TransmitOwns ==
  ASSUME Core, Transmit, NEW count \in 0 .. NUM_TX_DESC, OwnsFirst(count)
  PROVE  /\ card' \in CardRecord /\ card'.enabled = card.enabled
         /\ card'.txaddr = card.txaddr /\ card'.rbstart = card.rbstart
         /\ card'.desc = (card.desc + 1) % NUM_TX_DESC
         /\ \A d \in Desc : card'.own[d] => card.own[d]
         /\ count \in 1 .. NUM_TX_DESC
         /\ memory[card.txaddr[card.desc]] \in Frames
         /\ OwnsFirst(count - 1)'
<1>1. /\ card.enabled /\ card.own[card.desc]
      /\ card' = [card EXCEPT !.own[card.desc] = FALSE,
                              !.desc = (card.desc + 1) % NUM_TX_DESC]
      /\ UNCHANGED <<tx_current_desc, pc, memory>>
  BY DEF Transmit, kernel
<1>2. /\ card \in CardRecord /\ card.desc \in 0 .. NUM_TX_DESC - 1
      /\ NUM_TX_DESC \in Nat \ {0} /\ Desc = 0 .. NUM_TX_DESC - 1
  BY Sizes DEF Core, NetTypeOK, CardRecord
<1>3. PICK i \in 0 .. NUM_TX_DESC - 1 : i = card.desc
  BY <1>2
<1>4. PICK j : j = (i + 1) % NUM_TX_DESC
  OBVIOUS
<1>5. j \in Desc /\ j \in 0 .. NUM_TX_DESC - 1
  BY <1>2, <1>4, EachOnce
<1>6. /\ card' \in CardRecord /\ card'.enabled = card.enabled /\ card'.desc = j
      /\ card'.txaddr = card.txaddr /\ card'.rbstart = card.rbstart
      /\ card'.own = [card.own EXCEPT ![i] = FALSE]
  <2>1. card' = [card EXCEPT !.own[i] = FALSE, !.desc = j]
    BY <1>1, <1>3, <1>4, Zenon
  <2>. QED BY <1>2, <1>3, <1>5, <2>1 DEF CardRecord
<1>7. \A d \in Desc : card'.own[d] <=> card.own[d] /\ d # i
  <2>1. card.own \in [Desc -> BOOLEAN]
    BY <1>2 DEF CardRecord
  <2>. QED BY <1>6, <2>1
<1>8. (i + 0) % NUM_TX_DESC = i /\ (i + NUM_TX_DESC) % NUM_TX_DESC = i
  BY <1>2
<1>9. 0 < count /\ memory[card.txaddr[card.desc]] \in Frames
  <2>1. 0 \in 0 .. NUM_TX_DESC - 1
    BY <1>2
  <2>2. card.own[(i + 0) % NUM_TX_DESC]
    BY <1>1, <1>3, <1>8
  <2>3. 0 < count /\ memory[card.txaddr[(i + 0) % NUM_TX_DESC]] \in Frames
    BY <1>3, <2>1, <2>2 DEF OwnsFirst
  <2>. QED BY <1>3, <1>8, <2>3
<1>10. NextDesc' = (card'.desc + (count - 1)) % NUM_TX_DESC
  <2>1. count - 1 \in 0 .. NUM_TX_DESC - 1 /\ (count - 1) + 1 = count
    BY <1>2, <1>9
  <2>2. (j + (count - 1)) % NUM_TX_DESC = (i + ((count - 1) + 1)) % NUM_TX_DESC
    <3>1. PICK m \in 0 .. NUM_TX_DESC - 1 : m = count - 1
      BY <2>1
    <3>2. (j + m) % NUM_TX_DESC = (i + (m + 1)) % NUM_TX_DESC
      BY <1>4, Sizes, OneOn
    <3>. QED BY <3>1, <3>2
  <2>3. NextDesc = (i + count) % NUM_TX_DESC
    BY <1>3 DEF OwnsFirst
  <2>. QED BY <1>1, <1>6, <2>1, <2>2, <2>3 DEF NextDesc
<1>11. ASSUME NEW k \in 0 .. NUM_TX_DESC - 1, NEW d, d = (j + k) % NUM_TX_DESC
       PROVE  /\ card'.own[d] <=> k < count - 1
              /\ k < count - 1 => memory[card.txaddr[d]] \in Frames
  <2>1. d = (i + (k + 1)) % NUM_TX_DESC
    <3>1. (j + k) % NUM_TX_DESC = (i + (k + 1)) % NUM_TX_DESC
      BY <1>4, Sizes, OneOn
    <3>. QED BY <1>11, <3>1
  <2>2. CASE k = NUM_TX_DESC - 1
    <3>1. k + 1 = NUM_TX_DESC /\ ~(k < count - 1)
      BY <1>2, <2>2
    <3>2. d = i
      BY <1>8, <2>1, <3>1
    <3>. QED BY <1>2, <1>7, <3>1, <3>2
  <2>3. CASE k # NUM_TX_DESC - 1
    <3>1. k + 1 \in 0 .. NUM_TX_DESC - 1 /\ k + 1 # 0 /\ 0 \in 0 .. NUM_TX_DESC - 1
      BY <1>2, <2>3
    <3>2. d \in Desc /\ d # i
      BY <1>2, <1>8, <2>1, <3>1, EachOnce
    <3>3. /\ card.own[d] <=> k + 1 < count
          /\ k + 1 < count => memory[card.txaddr[d]] \in Frames
      BY <1>3, <2>1, <3>1 DEF OwnsFirst
    <3>4. k + 1 < count <=> k < count - 1
      OBVIOUS
    <3>. QED BY <1>7, <3>2, <3>3, <3>4
  <2>. QED BY <2>2, <2>3
<1>12. OwnsFirst(count - 1)'
  <2>1. Frames' = Frames
    BY DEF Frames, Addresses
  <2>2. card'.desc = j /\ card'.txaddr = card.txaddr /\ memory' = memory
    BY <1>1, <1>6
  <2>. QED BY <1>10, <1>11, <2>1, <2>2, Zenon DEF OwnsFirst
<1>13. count \in 1 .. NUM_TX_DESC
  BY <1>2, <1>9
<1>. QED BY <1>3, <1>4, <1>6, <1>7, <1>9, <1>12, <1>13

\* The card may send at any time, in the middle of rtl8139_send_packet too.
LEMMA TransmitKeeps ==
  ASSUME Core, Transmit
  PROVE  Core'
<1>1. /\ card.enabled /\ card.own[card.desc]
      /\ wire' = Append(wire, memory[card.txaddr[card.desc]])
      /\ UNCHANGED <<pmm_bitmap, bus, at, buffers, tx_current_desc, our_mac, pc, cmd, memory,
                     others, offers>>
  BY DEF Transmit, kernel
<1>2. PICK count \in 0 .. NUM_TX_DESC : OwnsFirst(count)
  BY DEF Core, RingInStep
<1>3. /\ card' \in CardRecord /\ card'.enabled = card.enabled
      /\ card'.txaddr = card.txaddr /\ card'.rbstart = card.rbstart
      /\ \A d \in Desc : card'.own[d] => card.own[d]
      /\ count \in 1 .. NUM_TX_DESC
      /\ memory[card.txaddr[card.desc]] \in Frames
      /\ OwnsFirst(count - 1)'
  BY <1>2, TransmitOwns
<1>4. pc \notin {"scan", "alloc"} /\ tx_current_desc \in Desc
  BY <1>1 DEF Core, CardStarted, NetTypeOK
<1>5. NetTypeOK' /\ memory'[NULL] = <<>>
  <2>1. wire' \in Seq(Frames)
    BY <1>1, <1>3 DEF Core, NetTypeOK
  <2>2. UNCHANGED <<Frames, Addresses>>
    BY DEF Frames, Addresses
  <2>. QED BY <1>1, <1>3, <2>1, <2>2 DEF Core, NetTypeOK, CardRecord
<1>6. PagesInOrder' /\ ScanFindsCard' /\ ScanInOrder'
  BY <1>1, <1>4, SetUpSteady
<1>7. CardStarted'
  BY <1>1, <1>3, <1>4 DEF Core, CardStarted
<1>8. CommandInProgress'
  BY <1>1 DEF Core, CommandInProgress
<1>9. RingInStep'
  <2>1. count - 1 \in 0 .. NUM_TX_DESC
    BY <1>3, Sizes
  <2>2. pc' = "kick" => /\ ~card'.own[tx_current_desc']
                        /\ memory'[card'.txaddr[tx_current_desc']] = Frame'
    BY <1>1, <1>3, <1>4 DEF Core, RingInStep, Frame
  <2>. QED BY <1>3, <2>1, <2>2 DEF RingInStep
<1>. QED BY <1>5, <1>6, <1>7, <1>8, <1>9 DEF Core

\* Every step.
LEMMA NextKeeps ==
  ASSUME Core, EnoughPages, [Next]_vars
  PROVE  Core'
<1>1. CASE UNCHANGED vars
  <2>1. /\ UNCHANGED <<pmm_bitmap, bus, at, buffers, tx_current_desc, our_mac, pc, cmd, memory,
                       card, others, wire, offers>>
    BY <1>1 DEF vars, kernel, history
  <2>2. UNCHANGED <<Cards, Frames, Addresses, NextDesc, Frame>>
    BY <2>1 DEF Cards, Frames, Addresses, NextDesc, Frame
  <2>3. NetTypeOK' /\ PagesInOrder' /\ memory'[NULL] = <<>>
    BY <2>1, <2>2 DEF Core, NetTypeOK, PagesInOrder
  <2>4. ScanFindsCard' /\ ScanInOrder'
    BY <2>1, <2>2 DEF Core, ScanFindsCard, ScanInOrder, NotAfter
  <2>5. CardStarted' /\ CommandInProgress'
    BY <2>1 DEF Core, CardStarted, CommandInProgress
  <2>6. RingInStep'
    BY <2>1, <2>2 DEF Core, RingInStep, OwnsFirst
  <2>. QED BY <2>3, <2>4, <2>5, <2>6 DEF Core
<1>. QED BY <1>1, ScanKeeps, AllocBufferKeeps, StartCardKeeps, NetInitKeeps, WakeKeeps,
            NotSentKeeps, CopyFrameKeeps, KickKeeps, AdvanceKeeps, CommandsKeep,
            OthersAllocateKeeps, TransmitKeeps, PitTicksKeeps
         DEF Next, KernelStep

\* How many pages a stretch has.
LEMMA Stretch ==
  ASSUME NEW a \in Nat, NEW n \in Nat \ {0}
  PROVE  Cardinality(a .. a + n - 1) = n
<1>1. a \in Int /\ a + n - 1 \in Int /\ ~(a > a + n - 1)
  OBVIOUS
<1>2. Cardinality(a .. a + n - 1) = (a + n - 1) - a + 1
  BY <1>1, FS_Interval
<1>. QED BY <1>2

\* What NetInv says of the card's pages follows from the order they were handed out in.
LEMMA PagesPrivate ==
  ASSUME Core
  PROVE  DmaPagesPrivate
<1>1. ASSUME card.enabled
      PROVE  LET ring == card.rbstart .. card.rbstart + RX_PAGES - 1
                 tx == {card.txaddr[d] : d \in Desc}
             IN /\ ring \union tx \subseteq Managed \intersect pmm_bitmap
                /\ ring \intersect tx = {} /\ Cardinality(tx) = NUM_TX_DESC
                /\ (ring \union tx) \intersect others = {}
  <2>1. Len(buffers) = BufferPages /\ card.rbstart = RESERVED_PAGES
    <3>1. Len(buffers) = BufferPages /\ card.rbstart = buffers[1]
      BY <1>1 DEF Core, CardStarted
    <3>2. buffers[1] = RESERVED_PAGES + 1 - 1
      BY <3>1, Sizes DEF Core, PagesInOrder
    <3>. QED BY <3>1, <3>2, Sizes
  <2>2. PICK first : first = RESERVED_PAGES + RX_PAGES
    OBVIOUS
  <2>3. {card.txaddr[d] : d \in Desc} = first .. first + NUM_TX_DESC - 1
    <3>1. \A d \in Desc : card.txaddr[d] = first + d
      BY <1>1, <2>2, BufferOf
    <3>2. {card.txaddr[d] : d \in Desc} = {first + d : d \in Desc}
      BY <3>1
    <3>3. ASSUME NEW p \in first .. first + NUM_TX_DESC - 1
          PROVE  p \in {first + d : d \in Desc}
      <4>1. p - first \in Desc /\ p = first + (p - first)
        BY <2>2, Sizes
      <4>. QED BY <4>1
    <3>4. ASSUME NEW d \in Desc PROVE first + d \in first .. first + NUM_TX_DESC - 1
      BY <2>2, Sizes
    <3>. QED BY <3>2, <3>3, <3>4
  <2>4. PICK k \in RESERVED_PAGES + (RX_PAGES + NUM_TX_DESC) .. TOTAL_PAGES :
          /\ pmm_bitmap = 0 .. k - 1
          /\ others = RESERVED_PAGES + (RX_PAGES + NUM_TX_DESC) .. k - 1
    BY <2>1 DEF Core, PagesInOrder, BufferPages
  <2>5. PICK ring, tx :
          /\ ring = card.rbstart .. card.rbstart + RX_PAGES - 1
          /\ tx = {card.txaddr[d] : d \in Desc}
    OBVIOUS
  <2>6. /\ ring = RESERVED_PAGES .. RESERVED_PAGES + RX_PAGES - 1
        /\ tx = RESERVED_PAGES + RX_PAGES .. RESERVED_PAGES + RX_PAGES + NUM_TX_DESC - 1
    BY <2>1, <2>2, <2>3, <2>5, Zenon
  <2>7. /\ RESERVED_PAGES \in Nat /\ RX_PAGES \in Nat \ {0} /\ NUM_TX_DESC \in Nat \ {0}
        /\ TOTAL_PAGES \in Nat
    BY Sizes
  <2>8. ring \union tx \subseteq Managed \intersect pmm_bitmap
    BY <2>4, <2>6, <2>7 DEF Managed
  <2>9. ring \intersect tx = {}
    BY <2>6, <2>7
  <2>10. (ring \union tx) \intersect others = {}
    BY <2>4, <2>6, <2>7
  <2>11. Cardinality(tx) = NUM_TX_DESC
    <3>1. first \in Nat /\ tx = first .. first + NUM_TX_DESC - 1
      BY <2>2, <2>6, <2>7
    <3>. QED BY <2>7, <3>1, Stretch
  <2>. QED BY <2>5, <2>8, <2>9, <2>10, <2>11, Zenon
<1>. QED BY <1>1 DEF DmaPagesPrivate, Core

\* On every bus, with any number of buffers and descriptors, as long as memory has room
\* for the buffers: rtl8139_detect_and_init finds the first card there is, the pages the
\* card reads and writes on its own are never in other hands, and rtl8139_send_packet
\* and the card agree on whose each descriptor is.
THEOREM NetInvariance ==
  ASSUME EnoughPages
  PROVE  Spec => []NetInv
<1>1. Init => Core
  BY InitCore
<1>2. Core /\ [Next]_vars => Core'
  BY NextKeeps
<1>3. Core => NetInv
  BY PagesPrivate DEF Core, NetInv
<1>. QED BY <1>1, <1>2, <1>3, PTL DEF Spec

----------------------------------------------------------------------------
(* The ring of descriptors is a queue *)

\* Queue, of given registers and memory.
RingQueue(own, addr, desc, mem) ==
  LET owned == {k \in 0 .. NUM_TX_DESC - 1 : own[(desc + k) % NUM_TX_DESC]}
  IN [k \in 1 .. Cardinality(owned) |-> mem[addr[(desc + k - 1) % NUM_TX_DESC]]]

\* The frames of the first "count" descriptors wait, in order.
LEMMA QueueOf ==
  ASSUME NEW own, NEW addr, NEW desc \in Desc, NEW mem, NEW count \in 0 .. NUM_TX_DESC,
         \A k \in 0 .. NUM_TX_DESC - 1 :
           /\ own[(desc + k) % NUM_TX_DESC] <=> k < count
           /\ k < count => mem[addr[(desc + k) % NUM_TX_DESC]] \in Frames
  PROVE  /\ RingQueue(own, addr, desc, mem) \in Seq(Frames)
         /\ Len(RingQueue(own, addr, desc, mem)) = count
         /\ \A i \in 1 .. count :
              RingQueue(own, addr, desc, mem)[i] = mem[addr[(desc + (i - 1)) % NUM_TX_DESC]]
<1>1. PICK owned : owned = {k \in 0 .. NUM_TX_DESC - 1 : own[(desc + k) % NUM_TX_DESC]}
  OBVIOUS
<1>2. owned = 0 .. count - 1
  <2>1. owned = {k \in 0 .. NUM_TX_DESC - 1 : k < count}
    BY <1>1
  <2>. QED BY <2>1, Sizes
<1>3. Cardinality(owned) = count
  <2>1. 0 \in Int /\ count - 1 \in Int
    BY Sizes
  <2>2. Cardinality(0 .. count - 1) = IF 0 > count - 1 THEN 0 ELSE (count - 1) - 0 + 1
    BY <2>1, FS_Interval
  <2>. QED BY <1>2, <2>2, Sizes
<1>4. RingQueue(own, addr, desc, mem)
        = [k \in 1 .. count |-> mem[addr[(desc + k - 1) % NUM_TX_DESC]]]
  BY <1>1, <1>3, Zenon DEF RingQueue
<1>5. ASSUME NEW i \in 1 .. count
      PROVE  /\ RingQueue(own, addr, desc, mem)[i]
                  = mem[addr[(desc + (i - 1)) % NUM_TX_DESC]]
             /\ mem[addr[(desc + (i - 1)) % NUM_TX_DESC]] \in Frames
  <2>1. /\ i - 1 \in 0 .. NUM_TX_DESC - 1 /\ i - 1 < count
        /\ desc + i - 1 = desc + (i - 1)
    BY Sizes
  <2>2. RingQueue(own, addr, desc, mem)[i] = mem[addr[(desc + i - 1) % NUM_TX_DESC]]
    BY <1>4
  <2>3. RingQueue(own, addr, desc, mem)[i] = mem[addr[(desc + (i - 1)) % NUM_TX_DESC]]
    BY <2>1, <2>2
  <2>. QED BY <2>1, <2>3
<1>6. RingQueue(own, addr, desc, mem) \in [1 .. count -> Frames]
  <2>1. \A i \in 1 .. count : RingQueue(own, addr, desc, mem)[i] \in Frames
    BY <1>5
  <2>. QED BY <1>4, <2>1
<1>7. count \in Nat
  BY Sizes
<1>. QED BY <1>5, <1>6, <1>7

\* Every frame but the last was there before.
LEMMA JoinsAtEnd ==
  ASSUME NEW S, NEW q \in Seq(S), NEW c \in S, NEW r \in Seq(S), Len(r) = Len(q) + 1,
         \A i \in 1 .. Len(q) : r[i] = q[i], r[Len(q) + 1] = c
  PROVE  r = Append(q, c)
<1>1. Append(q, c) \in Seq(S) /\ Len(Append(q, c)) = Len(q) + 1
  OBVIOUS
<1>2. ASSUME NEW i \in 1 .. Len(q) + 1 PROVE r[i] = Append(q, c)[i]
  <2>1. Append(q, c)[i] = IF i = Len(q) + 1 THEN c ELSE q[i]
    BY AppendAt
  <2>2. i = Len(q) + 1 \/ i \in 1 .. Len(q)
    OBVIOUS
  <2>. QED BY <2>1, <2>2
<1>. QED BY <1>1, <1>2, SeqEqual

\* Every frame but the first is still there.
LEMMA LeavesFront ==
  ASSUME NEW S, NEW q \in Seq(S), Len(q) >= 1, NEW r \in Seq(S), Len(r) = Len(q) - 1,
         \A i \in 1 .. Len(q) - 1 : r[i] = q[i + 1]
  PROVE  r = SubSeq(q, 2, Len(q))
<1>1. PICK n \in Nat \ {0} : n = Len(q)
  OBVIOUS
<1>2. /\ SubSeq(q, 2, n) \in Seq(S) /\ Len(SubSeq(q, 2, n)) = n - 1
      /\ \A i \in 1 .. n - 1 : SubSeq(q, 2, n)[i] = q[i + 1]
  BY <1>1
<1>3. PICK t : t = SubSeq(q, 2, n)
  OBVIOUS
<1>4. t \in Seq(S) /\ Len(t) = Len(r) /\ \A i \in 1 .. Len(r) : r[i] = t[i]
  BY <1>1, <1>2, <1>3
<1>5. r = t
  BY <1>4, SeqEqual
<1>. QED BY <1>1, <1>3, <1>5

\* What waits before a step.
LEMMA Waiting ==
  ASSUME Core, NEW count \in 0 .. NUM_TX_DESC, OwnsFirst(count)
  PROVE  /\ Queue \in Seq(Frames) /\ Len(Queue) = count
         /\ \A i \in 1 .. count :
              Queue[i] = memory[card.txaddr[(card.desc + (i - 1)) % NUM_TX_DESC]]
<1>0. PICK desc \in Desc : desc = card.desc
  BY DEF Core, NetTypeOK
<1>1. PICK own, addr, mem : own = card.own /\ addr = card.txaddr /\ mem = memory
  OBVIOUS
<1>2. Queue = RingQueue(own, addr, desc, mem)
  BY <1>0, <1>1, Zenon DEF Queue, RingQueue
<1>3. \A k \in 0 .. NUM_TX_DESC - 1 :
        /\ own[(desc + k) % NUM_TX_DESC] <=> k < count
        /\ k < count => mem[addr[(desc + k) % NUM_TX_DESC]] \in Frames
  BY <1>0, <1>1, Zenon DEF OwnsFirst
<1>4. /\ RingQueue(own, addr, desc, mem) \in Seq(Frames)
      /\ Len(RingQueue(own, addr, desc, mem)) = count
      /\ \A i \in 1 .. count :
           RingQueue(own, addr, desc, mem)[i] = mem[addr[(desc + (i - 1)) % NUM_TX_DESC]]
  BY <1>3, QueueOf
<1>. QED BY <1>0, <1>1, <1>2, <1>4, Zenon

\* What waits after it.
LEMMA WaitingNext ==
  ASSUME card'.desc \in Desc, NEW count \in 0 .. NUM_TX_DESC, OwnsFirst(count)'
  PROVE  /\ Queue' \in Seq(Frames) /\ Len(Queue') = count
         /\ \A i \in 1 .. count :
              Queue'[i] = memory'[card'.txaddr[(card'.desc + (i - 1)) % NUM_TX_DESC]]
<1>0. PICK desc \in Desc : desc = card'.desc
  OBVIOUS
<1>1. PICK own, addr, mem : own = card'.own /\ addr = card'.txaddr /\ mem = memory'
  OBVIOUS
<1>2. Queue' = RingQueue(own, addr, desc, mem)
  BY <1>0, <1>1, Zenon DEF Queue, RingQueue
<1>3. \A k \in 0 .. NUM_TX_DESC - 1 :
        /\ own[(desc + k) % NUM_TX_DESC] <=> k < count
        /\ k < count => mem[addr[(desc + k) % NUM_TX_DESC]] \in Frames
  <2>1. Frames' = Frames
    BY DEF Frames, Addresses
  <2>. QED BY <1>0, <1>1, <2>1, Zenon DEF OwnsFirst
<1>4. /\ RingQueue(own, addr, desc, mem) \in Seq(Frames)
      /\ Len(RingQueue(own, addr, desc, mem)) = count
      /\ \A i \in 1 .. count :
           RingQueue(own, addr, desc, mem)[i] = mem[addr[(desc + (i - 1)) % NUM_TX_DESC]]
  BY <1>3, QueueOf
<1>. QED BY <1>0, <1>1, <1>2, <1>4, Zenon

\* Before a card is started no frame waits.
LEMMA NothingWaits ==
  ASSUME Core, ~card.enabled
  PROVE  Queue = <<>>
<1>1. PICK count \in 0 .. NUM_TX_DESC : OwnsFirst(count)
  BY DEF Core, RingInStep
<1>2. count = 0
  <2>1. 0 \in 0 .. NUM_TX_DESC - 1 /\ card.desc \in 0 .. NUM_TX_DESC - 1
    BY Sizes DEF Core, NetTypeOK
  <2>2. (card.desc + 0) % NUM_TX_DESC \in Desc
    BY <2>1, Sizes, EachOnce
  <2>3. ~card.own[(card.desc + 0) % NUM_TX_DESC]
    BY <2>2 DEF Core, CardStarted
  <2>4. ~(0 < count)
    BY <1>1, <2>1, <2>3 DEF OwnsFirst
  <2>. QED BY <2>4, Sizes
<1>3. Queue \in Seq(Frames) /\ Len(Queue) = 0
  BY <1>1, <1>2, Waiting
<1>. QED BY <1>3

\* Copying a frame leaves those that wait alone.
LEMMA CopyFrameWaits ==
  ASSUME Core, CopyFrame
  PROVE  Queue' = Queue
<1>1. PICK count \in 0 .. NUM_TX_DESC : OwnsFirst(count)
  BY DEF Core, RingInStep
<1>2. card' = card /\ card.desc \in Desc /\ pc = "send" /\ pc' = "kick"
      /\ tx_current_desc' = tx_current_desc
  BY DEF CopyFrame, Core, NetTypeOK
<1>3. ASSUME NEW k \in 0 .. NUM_TX_DESC - 1, NEW d, d = (card.desc + k) % NUM_TX_DESC,
             k < count
      PROVE  memory'[card.txaddr[d]] = memory[card.txaddr[d]]
  <2>1. d \in Desc
    BY <1>2, <1>3, Sizes, EachOnce
  <2>2. card.own[d]
    BY <1>1, <1>3 DEF OwnsFirst
  <2>. QED BY <2>1, <2>2, CopyElsewhere
<1>4. OwnsFirst(count)'
  <2>1. Frames' = Frames
    BY DEF Frames, Addresses
  <2>2. NextDesc' = NextDesc
    BY <1>2 DEF NextDesc
  <2>. QED BY <1>1, <1>2, <1>3, <2>1, <2>2 DEF OwnsFirst
<1>5. /\ Queue \in Seq(Frames) /\ Len(Queue) = count
      /\ \A i \in 1 .. count :
           Queue[i] = memory[card.txaddr[(card.desc + (i - 1)) % NUM_TX_DESC]]
  BY <1>1, Waiting
<1>6. /\ Queue' \in Seq(Frames) /\ Len(Queue') = count
      /\ \A i \in 1 .. count :
           Queue'[i] = memory'[card'.txaddr[(card'.desc + (i - 1)) % NUM_TX_DESC]]
  BY <1>2, <1>4, WaitingNext
<1>7. ASSUME NEW i \in 1 .. count PROVE Queue'[i] = Queue[i]
  <2>1. i - 1 \in 0 .. NUM_TX_DESC - 1 /\ i - 1 < count
    BY Sizes
  <2>2. PICK k \in 0 .. NUM_TX_DESC - 1 : k = i - 1
    BY <2>1
  <2>3. Queue'[i] = memory'[card.txaddr[(card.desc + k) % NUM_TX_DESC]]
    BY <1>2, <1>6, <2>2
  <2>4. Queue[i] = memory[card.txaddr[(card.desc + k) % NUM_TX_DESC]]
    BY <1>5, <2>2
  <2>. QED BY <1>3, <2>1, <2>2, <2>3, <2>4
<1>8. PICK q, r : q = Queue /\ r = Queue'
  OBVIOUS
<1>9. q \in Seq(Frames) /\ r \in Seq(Frames) /\ Len(q) = Len(r) /\ \A i \in 1 .. Len(q) : q[i] = r[i]
  BY <1>5, <1>6, <1>7, <1>8
<1>10. q = r
  BY <1>9, SeqEqual
<1>. QED BY <1>8, <1>10

\* A frame that is handed over is the last of those that wait.
LEMMA KickJoins ==
  ASSUME Core, Kick
  PROVE  /\ Frame \in Frames /\ Len(Queue) < NUM_TX_DESC
         /\ Queue' = Append(Queue, Frame)
<1>1. PICK count \in 0 .. NUM_TX_DESC : OwnsFirst(count)
  BY DEF Core, RingInStep
<1>2. /\ card' \in CardRecord /\ card'.desc = card.desc /\ card'.txaddr = card.txaddr
      /\ count < NUM_TX_DESC /\ Frame \in Frames /\ OwnsFirst(count + 1)'
      /\ memory[card.txaddr[(card.desc + count) % NUM_TX_DESC]] = Frame
  BY <1>1, KickOwns
<1>3. memory' = memory
  BY DEF Kick
<1>4. count + 1 \in 0 .. NUM_TX_DESC /\ card'.desc \in Desc
  BY <1>2, Sizes DEF CardRecord
<1>5. /\ Queue \in Seq(Frames) /\ Len(Queue) = count
      /\ \A i \in 1 .. count :
           Queue[i] = memory[card.txaddr[(card.desc + (i - 1)) % NUM_TX_DESC]]
  BY <1>1, Waiting
<1>6. /\ Queue' \in Seq(Frames) /\ Len(Queue') = count + 1
      /\ \A i \in 1 .. count + 1 :
           Queue'[i] = memory[card.txaddr[(card.desc + (i - 1)) % NUM_TX_DESC]]
  BY <1>2, <1>3, <1>4, WaitingNext
<1>7. PICK q, r : q = Queue /\ r = Queue'
  OBVIOUS
<1>8. q \in Seq(Frames) /\ r \in Seq(Frames) /\ Len(q) = count /\ Len(r) = Len(q) + 1
  BY <1>5, <1>6, <1>7
<1>9. \A i \in 1 .. count : r[i] = q[i]
  <2>. TAKE i \in 1 .. count
  <2>1. i \in 1 .. count + 1
    OBVIOUS
  <2>. QED BY <1>5, <1>6, <1>7, <2>1
<1>10. r[count + 1] = Frame
  <2>1. count + 1 \in 1 .. count + 1 /\ (count + 1) - 1 = count
    OBVIOUS
  <2>. QED BY <1>2, <1>6, <1>7, <2>1
<1>11. r = Append(q, Frame)
  BY <1>2, <1>8, <1>9, <1>10, JoinsAtEnd
<1>. QED BY <1>2, <1>5, <1>7, <1>11

\* The frame that leaves is the first of those that wait.
LEMMA TransmitTakes ==
  ASSUME Core, Transmit
  PROVE  /\ Len(Queue) >= 1
         /\ wire' = wire \o SubSeq(Queue, 1, 1)
         /\ Queue' = SubSeq(Queue, 2, Len(Queue))
<1>1. PICK count \in 0 .. NUM_TX_DESC : OwnsFirst(count)
  BY DEF Core, RingInStep
<1>2. /\ card' \in CardRecord /\ card'.txaddr = card.txaddr
      /\ card'.desc = (card.desc + 1) % NUM_TX_DESC
      /\ count \in 1 .. NUM_TX_DESC /\ OwnsFirst(count - 1)'
      /\ memory[card.txaddr[card.desc]] \in Frames
  BY <1>1, TransmitOwns
<1>3. /\ memory' = memory
      /\ wire' = Append(wire, memory[card.txaddr[card.desc]])
  BY DEF Transmit
<1>4. count - 1 \in 0 .. NUM_TX_DESC /\ card'.desc \in Desc /\ card.desc \in Desc
  <2>1. card'.desc \in Desc
    BY <1>2 DEF CardRecord
  <2>2. card.desc \in Desc
    BY DEF Core, NetTypeOK
  <2>3. count - 1 \in 0 .. NUM_TX_DESC
    BY <1>2, Sizes
  <2>. QED BY <2>1, <2>2, <2>3
<1>5. /\ Queue \in Seq(Frames) /\ Len(Queue) = count
      /\ \A i \in 1 .. count :
           Queue[i] = memory[card.txaddr[(card.desc + (i - 1)) % NUM_TX_DESC]]
  BY <1>1, Waiting
<1>6. /\ Queue' \in Seq(Frames) /\ Len(Queue') = count - 1
      /\ \A i \in 1 .. count - 1 :
           Queue'[i] = memory[card.txaddr[(card'.desc + (i - 1)) % NUM_TX_DESC]]
  BY <1>2, <1>3, <1>4, WaitingNext
<1>7. PICK q, r : q = Queue /\ r = Queue'
  OBVIOUS
<1>8. /\ q \in Seq(Frames) /\ r \in Seq(Frames) /\ Len(q) = count /\ Len(r) = Len(q) - 1
      /\ Len(q) >= 1
  BY <1>2, <1>5, <1>6, <1>7
<1>9. ASSUME NEW i \in 1 .. count - 1 PROVE r[i] = q[i + 1]
  <2>1. PICK k \in 0 .. NUM_TX_DESC - 1 : k = i - 1 /\ (i + 1) - 1 = k + 1 /\ i + 1 \in 1 .. count
    BY <1>2, Sizes
  <2>2. PICK j : j = card'.desc
    OBVIOUS
  <2>3. PICK d \in 0 .. NUM_TX_DESC - 1 : d = card.desc
    BY <1>4, Sizes
  <2>4. (j + k) % NUM_TX_DESC = (d + (k + 1)) % NUM_TX_DESC
    <3>1. j = (d + 1) % NUM_TX_DESC
      BY <1>2, <2>2, <2>3
    <3>. QED BY <3>1, Sizes, OneOn
  <2>5. r[i] = memory[card.txaddr[(j + k) % NUM_TX_DESC]]
    BY <1>6, <1>7, <2>1, <2>2
  <2>6. q[i + 1] = memory[card.txaddr[(d + (k + 1)) % NUM_TX_DESC]]
    BY <1>5, <1>7, <2>1, <2>3
  <2>. QED BY <2>4, <2>5, <2>6
<1>10. r = SubSeq(q, 2, Len(q))
  BY <1>8, <1>9, LeavesFront
<1>11. q[1] = memory[card.txaddr[card.desc]]
  <2>1. PICK d \in 0 .. NUM_TX_DESC - 1 : d = card.desc
    BY <1>4, Sizes
  <2>2. (d + (1 - 1)) % NUM_TX_DESC = d /\ 1 \in 1 .. count
    BY <1>2, Sizes
  <2>3. q[1] = memory[card.txaddr[(d + (1 - 1)) % NUM_TX_DESC]]
    BY <1>5, <1>7, <2>1, <2>2
  <2>. QED BY <2>1, <2>2, <2>3
<1>12. SubSeq(q, 1, 1) = <<q[1]>>
  BY <1>8, FirstAlone
<1>13. wire' = wire \o SubSeq(q, 1, 1)
  <2>1. wire \in Seq(Frames)
    BY DEF Core, NetTypeOK
  <2>2. PICK f \in Frames : f = q[1]
    BY <1>2, <1>11
  <2>3. Append(wire, f) = wire \o <<f>>
    BY <2>1
  <2>. QED BY <1>3, <1>11, <1>12, <2>2, <2>3
<1>. QED BY <1>7, <1>8, <1>10, <1>13

\* rtl8139_send_packet and the card are a queue of as many frames as there are
\* descriptors: what is offered joins its end or, when every descriptor is the card's,
\* is dropped, and what the card sends is its front.
THEOREM NetImplementsFifo ==
  ASSUME EnoughPages
  PROVE  Spec => SendsInOrder
<1>1. Init => Core /\ Fifo!FifoInit
  <2>. SUFFICES ASSUME Init PROVE Core /\ Fifo!FifoInit
    OBVIOUS
  <2>1. Core
    BY InitCore
  <2>2. Queue = <<>>
    BY <2>1, NothingWaits DEF Init
  <2>. QED BY <2>1, <2>2 DEF Init, Fifo!FifoInit
<1>2. Core /\ [Next]_vars => [Fifo!FifoNext]_<<Queue, offers, wire>>
  <2>. SUFFICES ASSUME Core, [Next]_vars
                PROVE  Fifo!FifoNext \/ UNCHANGED <<Queue, offers, wire>>
    OBVIOUS
  <2>1. UNCHANGED <<card, memory>> => UNCHANGED Queue
    BY DEF Queue
  <2>2. CASE StartCard
    <3>1. Queue = <<>>
      BY <2>2, NothingWaits DEF StartCard, Core, CardStarted
    <3>2. 0 \in 0 .. NUM_TX_DESC
      BY Sizes
    <3>3. Queue' \in Seq(Frames) /\ Len(Queue') = 0
      BY <2>2, <3>2, StartCardOwns, WaitingNext
    <3>4. Queue' = <<>>
      BY <3>3
    <3>. QED BY <2>2, <3>1, <3>4 DEF StartCard, history
  <2>3. CASE SendBusy
    <3>1. /\ pc = "send" /\ tx_buffers(0) # NULL /\ card.own[tx_current_desc]
          /\ offers' = offers + 1 /\ UNCHANGED <<card, memory, wire>>
      BY <2>3 DEF SendBusy
    <3>2. Frame \in Frames
      BY <3>1, HasCard, FrameIsOne
    <3>3. PICK count \in 0 .. NUM_TX_DESC : OwnsFirst(count)
      BY DEF Core, RingInStep
    <3>4. Len(Queue) = NUM_TX_DESC
      BY <3>1, <3>3, FreeDescriptor, Waiting
    <3>5. ~(Len(Queue) < NUM_TX_DESC)
      BY <3>4, Sizes
    <3>6. Fifo!Offer(Frame)
      BY <2>1, <3>1, <3>5 DEF Fifo!Offer
    <3>. QED BY <3>2, <3>6 DEF Fifo!FifoNext
  <2>4. CASE Kick
    <3>1. Fifo!Offer(Frame)
      BY <2>4, KickJoins DEF Fifo!Offer, Kick
    <3>. QED BY <2>4, <3>1, KickJoins DEF Fifo!FifoNext
  <2>5. CASE Transmit
    <3>1. Len(Queue) \in Nat
      BY Waiting DEF Core, RingInStep
    <3>2. 1 \in 1 .. Len(Queue) /\ 1 + 1 = 2
      BY <2>5, <3>1, TransmitTakes
    <3>3. /\ wire' = wire \o SubSeq(Queue, 1, 1)
          /\ Queue' = SubSeq(Queue, 1 + 1, Len(Queue))
      BY <2>5, <3>2, TransmitTakes
    <3>4. Fifo!TakeSome
      BY <2>5, <3>2, <3>3 DEF Fifo!TakeSome, Transmit
    <3>. QED BY <3>4 DEF Fifo!FifoNext
  <2>6. CASE CopyFrame
    BY <2>6, CopyFrameWaits DEF CopyFrame, history
  <2>7. CASE Scan \/ AllocBuffer \/ net_init \/ Wake \/ SendRefused \/ Advance \/ PitTicks
    BY <2>1, <2>7 DEF Scan, AllocBuffer, net_init, Wake, SendRefused, Advance, PitTicks,
                      history
  <2>8. CASE cmd_ping \/ cmd_arp
    BY <2>1, <2>8 DEF cmd_ping, cmd_arp, Command, history
  <2>9. CASE OthersAllocate
    BY <2>1, <2>9 DEF OthersAllocate, history
  <2>10. CASE UNCHANGED vars
    BY <2>1, <2>10 DEF vars, history
  <2>. QED BY <2>2, <2>3, <2>4, <2>5, <2>6, <2>7, <2>8, <2>9, <2>10 DEF Next, KernelStep
<1>3. Core /\ [Next]_vars => Core'
  BY NextKeeps
<1>. QED BY <1>1, <1>2, <1>3, PTL DEF Spec, SendsInOrder, Fifo!FifoSpec

----------------------------------------------------------------------------
(* Checksums *)

AreSums(f, words) ==
  f = [n \in 0 .. Len(words) |-> IF n = 0 THEN 0 ELSE f[n - 1] + words[n]]

\* The sums of a header exist: each follows from the one before.
LEMMA SumsExist ==
  ASSUME NEW words, Len(words) \in Nat
  PROVE  AreSums(Sums(words), words)
<1>. DEFINE N == Len(words)
            Is(f, k) == f = [n \in 0 .. k |-> IF n = 0 THEN 0 ELSE f[n - 1] + words[n]]
            T == {k \in Nat : \E f : Is(f, k)}
<1>1. 0 \in T
  <2>. DEFINE g == [n \in 0 .. 0 |-> 0]
  <2>1. Is(g, 0)
    OBVIOUS
  <2>. HIDE DEF g
  <2>. QED BY <2>1
<1>2. ASSUME NEW k \in Nat, k \in T PROVE k + 1 \in T
  <2>1. PICK f : Is(f, k)
    BY <1>2
  <2>. DEFINE g == [n \in 0 .. k + 1 |-> IF n = k + 1 THEN f[k] + words[k + 1] ELSE f[n]]
  <2>2. \A n \in 0 .. k + 1 : g[n] = IF n = 0 THEN 0 ELSE g[n - 1] + words[n]
    BY <2>1
  <2>3. Is(g, k + 1)
    BY <2>2
  <2>. HIDE DEF g
  <2>. QED BY <2>3
<1>. HIDE DEF T
<1>3. N \in T
  BY <1>1, <1>2, SetInduction
<1>4. \E f : AreSums(f, words)
  BY <1>3 DEF T, AreSums
<1>5. Sums(words) = CHOOSE f : AreSums(f, words)
  BY DEF Sums, AreSums
<1>. QED BY <1>4, <1>5, Zenon

Word == {w \in Nat : w <= 65535}

LEMMA WordIsNumber ==
  ASSUME NEW w \in Word
  PROVE  w \in Nat /\ w <= 65535
  BY DEF Word

\* A header's words are numbers.
LEMMA WordsAreNumbers ==
  ASSUME NEW words \in Seq(Word)
  PROVE  /\ words \in Seq(Nat) /\ Len(words) \in Nat
         /\ \A n \in 1 .. Len(words) :
              words[n] \in Word /\ words[n] \in Nat /\ words[n] <= 65535
<1>1. \A w \in Word : w \in Nat /\ w <= 65535
  BY WordIsNumber
<1>2. \A n \in 1 .. Len(words) : words[n] \in Word
  OBVIOUS
<1>. QED BY <1>1, <1>2

\* Swapping the bytes of a word is multiplying by 256, modulo 2^16 - 1.
LEMMA SwappedWord ==
  ASSUME NEW w \in Word
  PROVE  /\ Swapped(w) \in Word /\ Swapped(w) \in Nat /\ w \div 256 \in Nat
         /\ 256 * w = Swapped(w) + 65535 * (w \div 256)
<1>1. PICK q, r : q = w \div 256 /\ r = w % 256
  OBVIOUS
<1>2. w \in Nat /\ w <= 65535
  BY DEF Word
<1>3. q \in Nat /\ r \in Nat /\ r <= 255 /\ w = 256 * q + r
  BY <1>1, <1>2
<1>4. Swapped(w) = 256 * r + q
  BY <1>1 DEF Swapped
<1>5. q <= 255
  BY <1>2, <1>3
<1>6. 256 * r + q \in Nat /\ 256 * r + q <= 65535 /\ 256 * w = (256 * r + q) + 65535 * q
  BY <1>2, <1>3, <1>5
<1>7. Swapped(w) \in Nat /\ Swapped(w) <= 65535
  BY <1>4, <1>6
<1>8. 256 * w = Swapped(w) + 65535 * q
  BY <1>4, <1>6
<1>. QED BY <1>1, <1>3, <1>7, <1>8 DEF Word

\* How the sums go on.
LEMMA SumsGoOn ==
  ASSUME NEW words \in Seq(Nat)
  PROVE  /\ Sums(words)[0] = 0
         /\ \A n \in 1 .. Len(words) : Sums(words)[n] = Sums(words)[n - 1] + words[n]
<1>1. Len(words) \in Nat
  OBVIOUS
<1>2. AreSums(Sums(words), words)
  BY <1>1, SumsExist
<1>3. PICK f : f = Sums(words)
  OBVIOUS
<1>4. f = [n \in 0 .. Len(words) |-> IF n = 0 THEN 0 ELSE f[n - 1] + words[n]]
  BY <1>2, <1>3 DEF AreSums
<1>5. f[0] = 0 /\ \A n \in 1 .. Len(words) : f[n] = f[n - 1] + words[n]
  BY <1>1, <1>4
<1>. QED BY <1>3, <1>5

\* The sum of words is a number, and at most the largest word for each of them.
LEMMA SumBound ==
  ASSUME NEW words \in Seq(Word)
  PROVE  /\ Sum(words) \in Nat /\ Sum(words) <= 65535 * Len(words)
         /\ \A n \in 0 .. Len(words) : Sums(words)[n] \in Nat
<1>0. /\ words \in Seq(Nat) /\ Len(words) \in Nat
      /\ \A n \in 1 .. Len(words) : words[n] \in Word /\ words[n] \in Nat /\ words[n] <= 65535
  BY WordsAreNumbers
<1>. DEFINE T == {n \in Nat : n <= Len(words) =>
                    Sums(words)[n] \in Nat /\ Sums(words)[n] <= 65535 * n}
<1>1. 0 \in T
  BY <1>0, SumsGoOn
<1>2. ASSUME NEW n \in Nat, n \in T PROVE n + 1 \in T
  <2>1. SUFFICES ASSUME n + 1 <= Len(words)
                 PROVE  /\ Sums(words)[n + 1] \in Nat
                        /\ Sums(words)[n + 1] <= 65535 * (n + 1)
    OBVIOUS
  <2>2. n + 1 \in 1 .. Len(words) /\ (n + 1) - 1 = n /\ n <= Len(words)
    BY <1>0, <2>1
  <2>3. Sums(words)[n + 1] = Sums(words)[n] + words[n + 1]
    BY <1>0, <2>2, SumsGoOn
  <2>4. Sums(words)[n] \in Nat /\ Sums(words)[n] <= 65535 * n
    BY <1>2, <2>2
  <2>5. words[n + 1] \in Nat /\ words[n + 1] <= 65535
    BY <1>0, <2>2
  <2>. QED BY <2>3, <2>4, <2>5
<1>. HIDE DEF T
<1>3. \A n \in Nat : n \in T
  BY <1>1, <1>2, SetInduction
<1>. QED BY <1>0, <1>3 DEF T, Sum

\* Swapping the bytes of every word multiplies their sum by 256, modulo 2^16 - 1.
LEMMA SwappedSum ==
  ASSUME NEW words \in Seq(Word), NEW swapped \in Seq(Word), Len(swapped) = Len(words),
         \A n \in 1 .. Len(words) : swapped[n] = Swapped(words[n])
  PROVE  \E q \in Nat : 256 * Sum(words) = Sum(swapped) + 65535 * q
<1>0. /\ words \in Seq(Nat) /\ Len(words) \in Nat
      /\ \A n \in 1 .. Len(words) : words[n] \in Word /\ words[n] \in Nat /\ words[n] <= 65535
  BY WordsAreNumbers
<1>2. swapped \in Seq(Nat)
  BY WordsAreNumbers
<1>a. /\ Sums(words)[0] = 0
      /\ \A n \in 1 .. Len(words) : Sums(words)[n] = Sums(words)[n - 1] + words[n]
  BY <1>0, SumsGoOn
<1>b. /\ Sums(swapped)[0] = 0
      /\ \A n \in 1 .. Len(words) : Sums(swapped)[n] = Sums(swapped)[n - 1] + swapped[n]
  BY <1>2, SumsGoOn
<1>. DEFINE Apart(n) == \E q \in Nat : 256 * Sums(words)[n] = Sums(swapped)[n] + 65535 * q
            T == {n \in Nat : n <= Len(words) => Apart(n)}
<1>3. 0 \in T
  <2>1. Sums(words)[0] = 0 /\ Sums(swapped)[0] = 0
    BY <1>a, <1>b
  <2>2. 0 \in Nat /\ 256 * Sums(words)[0] = Sums(swapped)[0] + 65535 * 0
    BY <2>1
  <2>3. Apart(0)
    BY <2>2
  <2>. QED BY <2>3
<1>4. ASSUME NEW n \in Nat, n \in T PROVE n + 1 \in T
  <2>1. SUFFICES ASSUME n + 1 <= Len(words)
                 PROVE  Apart(n + 1)
    OBVIOUS
  <2>2. n + 1 \in 1 .. Len(words) /\ (n + 1) - 1 = n /\ n <= Len(words) /\ n \in 0 .. Len(words)
    BY <1>0, <2>1
  <2>a. Sums(words)[n + 1] = Sums(words)[n] + words[n + 1]
    BY <1>a, <2>2
  <2>b. Sums(swapped)[n + 1] = Sums(swapped)[n] + swapped[n + 1]
    BY <1>b, <2>2
  <2>3. /\ Sums(words)[n + 1] = Sums(words)[n] + words[n + 1]
        /\ Sums(swapped)[n + 1] = Sums(swapped)[n] + Swapped(words[n + 1])
    BY <2>2, <2>a, <2>b
  <2>4. PICK q \in Nat : 256 * Sums(words)[n] = Sums(swapped)[n] + 65535 * q
    BY <1>4, <2>2
  <2>5. Sums(words)[n] \in Nat /\ Sums(swapped)[n] \in Nat
    BY <1>2, <2>2, SumBound
  <2>. DEFINE w == words[n + 1]
              r == w \div 256
              a == Sums(words)[n]
              b == Sums(swapped)[n]
              v == Swapped(w)
  <2>6. w \in Nat /\ v \in Nat /\ r \in Nat /\ 256 * w = v + 65535 * r
    BY <1>0, <2>2, SwappedWord
  <2>7. a \in Nat /\ b \in Nat /\ 256 * a = b + 65535 * q
    BY <2>4, <2>5
  <2>. HIDE DEF w, r, a, b, v
  <2>8. 256 * (a + w) = (b + v) + 65535 * (q + r) /\ q + r \in Nat
    BY <2>6, <2>7
  <2>. QED BY <2>3, <2>8 DEF a, b, v, w
<1>. HIDE DEF T
<1>5. \A n \in Nat : n \in T
  BY <1>3, <1>4, SetInduction
<1>. QED BY <1>0, <1>2, <1>5 DEF T, Sum

\* Filling in one word that was 0 adds it to the sum.
LEMMA FilledSum ==
  ASSUME NEW words \in Seq(Word), NEW filled \in Seq(Word), Len(filled) = Len(words),
         NEW k \in 1 .. Len(words), words[k] = 0,
         \A n \in 1 .. Len(words) : n # k => filled[n] = words[n]
  PROVE  Sum(filled) = Sum(words) + filled[k]
<1>0. /\ words \in Seq(Nat) /\ Len(words) \in Nat /\ filled \in Seq(Nat)
      /\ \A n \in 1 .. Len(words) : words[n] \in Nat /\ filled[n] \in Nat
  BY WordsAreNumbers
<1>a. /\ Sums(words)[0] = 0
      /\ \A n \in 1 .. Len(words) : Sums(words)[n] = Sums(words)[n - 1] + words[n]
  BY <1>0, SumsGoOn
<1>b. /\ Sums(filled)[0] = 0
      /\ \A n \in 1 .. Len(words) : Sums(filled)[n] = Sums(filled)[n - 1] + filled[n]
  BY <1>0, SumsGoOn
<1>c. /\ \A n \in 0 .. Len(words) : Sums(words)[n] \in Nat
      /\ \A n \in 0 .. Len(words) : Sums(filled)[n] \in Nat
  BY SumBound
<1>. DEFINE More(n) == Sums(filled)[n] = Sums(words)[n] + (IF k <= n THEN filled[k] ELSE 0)
            T == {n \in Nat : n <= Len(words) => More(n)}
<1>1. 0 \in T
  BY <1>0, <1>a, <1>b
<1>2. ASSUME NEW n \in Nat, n \in T PROVE n + 1 \in T
  <2>1. SUFFICES ASSUME n + 1 <= Len(words)
                 PROVE  More(n + 1)
    OBVIOUS
  <2>2. n + 1 \in 1 .. Len(words) /\ (n + 1) - 1 = n /\ n <= Len(words) /\ n \in 0 .. Len(words)
    BY <1>0, <2>1
  <2>3. Sums(words)[n + 1] = Sums(words)[n] + words[n + 1]
    BY <1>a, <2>2
  <2>4. Sums(filled)[n + 1] = Sums(filled)[n] + filled[n + 1]
    BY <1>b, <2>2
  <2>5. More(n) /\ Sums(words)[n] \in Nat /\ Sums(filled)[n] \in Nat
    BY <1>2, <1>c, <2>2
  <2>6. words[n + 1] \in Nat /\ filled[n + 1] \in Nat /\ filled[k] \in Nat
    BY <1>0, <2>2
  <2>7. CASE n + 1 = k
    BY <2>3, <2>4, <2>5, <2>6, <2>7
  <2>8. CASE n + 1 # k
    <3>1. filled[n + 1] = words[n + 1]
      BY <2>2, <2>8
    <3>. QED BY <2>3, <2>4, <2>5, <2>6, <2>8, <3>1
  <2>. QED BY <2>7, <2>8
<1>. HIDE DEF T
<1>3. \A n \in Nat : n \in T
  BY <1>1, <1>2, SetInduction
<1>4. More(Len(words))
  BY <1>0, <1>3 DEF T
<1>. QED BY <1>0, <1>4 DEF Sum

\* One turn of the loop that folds the carries.
Turn(s) == (s % 65536) + (s \div 65536)

Apart(s, t) == \E q \in Nat : s = t + 65535 * q

LEMMA TurnKeeps ==
  ASSUME NEW s \in Nat
  PROVE  /\ Turn(s) \in Nat /\ Apart(s, Turn(s))
         /\ s <= 2 * 65535 => Turn(s) <= 65535
         /\ s <= 10 * 65535 => Turn(s) <= 2 * 65535
<1>1. PICK q, r : q = s \div 65536 /\ r = s % 65536
  OBVIOUS
<1>2. q \in Nat /\ r \in Nat /\ r <= 65535 /\ s = 65536 * q + r
  BY <1>1
<1>3. Turn(s) = r + q
  BY <1>1 DEF Turn
<1>4. Turn(s) \in Nat /\ s = Turn(s) + 65535 * q
  BY <1>2, <1>3
<1>5. s <= 2 * 65535 => q <= 1 /\ (q = 1 => r <= 65534)
  BY <1>2
<1>6. s <= 10 * 65535 => q <= 65535
  BY <1>2
<1>7. s <= 2 * 65535 => Turn(s) <= 65535
  BY <1>2, <1>3, <1>5
<1>8. s <= 10 * 65535 => Turn(s) <= 2 * 65535
  BY <1>2, <1>3, <1>6
<1>9. Apart(s, Turn(s))
  BY <1>2, <1>4 DEF Apart
<1>. QED BY <1>4, <1>7, <1>8, <1>9

LEMMA ApartAll ==
  ASSUME NEW s \in Nat, NEW t \in Nat, NEW u \in Nat, Apart(s, t), Apart(t, u)
  PROVE  Apart(s, u)
<1>1. PICK q \in Nat : s = t + 65535 * q
  BY DEF Apart
<1>2. PICK r \in Nat : t = u + 65535 * r
  BY DEF Apart
<1>3. q + r \in Nat /\ s = u + 65535 * (q + r)
  BY <1>1, <1>2
<1>. QED BY <1>3 DEF Apart

\* Three turns leave no carry of a header's sum, and change it by multiples of
\* 2^16 - 1 alone.
LEMMA CarriesFolded ==
  ASSUME NEW s \in Nat, s <= 10 * 65535
  PROVE  /\ FoldCarries(s) \in Nat /\ FoldCarries(s) <= 65535
         /\ Apart(s, FoldCarries(s))
<1>. DEFINE a == Turn(s)
            b == Turn(a)
            c == Turn(b)
<1>1. FoldCarries(s) = c
  BY DEF FoldCarries, Turn
<1>2. a \in Nat /\ a <= 2 * 65535 /\ Apart(s, a)
  BY TurnKeeps
<1>. HIDE DEF a
<1>3. b \in Nat /\ b <= 65535 /\ Apart(a, b)
  BY <1>2, TurnKeeps
<1>. HIDE DEF b
<1>4. b <= 2 * 65535
  BY <1>3
<1>5. c \in Nat /\ c <= 65535 /\ Apart(b, c)
  BY <1>3, <1>4, TurnKeeps
<1>. HIDE DEF c
<1>6. Apart(s, b)
  BY <1>2, <1>3, ApartAll
<1>7. Apart(s, c)
  BY <1>3, <1>5, <1>6, ApartAll
<1>. QED BY <1>1, <1>5, <1>7

\* The checksum of a header whose checksum word is 0, filled in, makes the sum a
\* multiple of 2^16 - 1, in the processor's byte order and swapped.
LEMMA FilledVerifies ==
  ASSUME NEW words \in Seq(Word), Len(words) <= 10, NEW k \in 1 .. Len(words), words[k] = 0,
         NEW filled \in Seq(Word), Len(filled) = Len(words),
         filled[k] = net_checksum(words),
         \A n \in 1 .. Len(words) : n # k => filled[n] = words[n]
  PROVE  Verifies(filled)
<1>. DEFINE s == Sum(words)
            f == FoldCarries(s)
            swapped == [i \in 1 .. Len(filled) |-> Swapped(filled[i])]
<1>1. s \in Nat /\ s <= 10 * 65535
  <2>1. s \in Nat /\ s <= 65535 * Len(words)
    BY SumBound
  <2>2. Len(words) \in Nat
    OBVIOUS
  <2>. HIDE DEF s
  <2>. QED BY <2>1, <2>2
<1>2. f \in Nat /\ f <= 65535 /\ Apart(s, f)
  BY <1>1, CarriesFolded
<1>3. net_checksum(words) = 65535 - f
  <2>1. net_checksum(words) = 65535 - (f % 65536)
    BY DEF net_checksum
  <2>. HIDE DEF f
  <2>2. f % 65536 = f
    BY <1>2
  <2>. QED BY <2>1, <2>2
<1>4. Sum(filled) = s + (65535 - f)
  BY <1>3, FilledSum
<1>5. swapped \in Seq(Word) /\ Len(swapped) = Len(filled)
      /\ \A n \in 1 .. Len(filled) : swapped[n] = Swapped(filled[n])
  <2>1. \A n \in 1 .. Len(filled) : Swapped(filled[n]) \in Word
    BY WordsAreNumbers, SwappedWord
  <2>2. Len(filled) \in Nat
    OBVIOUS
  <2>. QED BY <2>1, <2>2
<1>6. Verifies(filled) <=> Sum(swapped) % 65535 = 0
  BY DEF Verifies
<1>. HIDE DEF s, f, swapped
<1>7. PICK p \in Nat : 256 * Sum(filled) = Sum(swapped) + 65535 * p
  BY <1>5, SwappedSum
<1>8. PICK q \in Nat : s = f + 65535 * q
  BY <1>2 DEF Apart
<1>9. Sum(swapped) \in Nat
  BY <1>5, SumBound
<1>10. Sum(filled) = 65535 * (q + 1)
  BY <1>1, <1>2, <1>4, <1>8
<1>11. Sum(swapped) = 65535 * (256 * (q + 1) - p)
  BY <1>7, <1>9, <1>10
<1>12. Sum(swapped) % 65535 = 0
  BY <1>9, <1>11
<1>. QED BY <1>6, <1>12

Byte == {b \in Nat : b <= 255}

\* Two bytes make a word.
LEMMA TwoBytes ==
  ASSUME NEW a \in Byte, NEW b \in Byte
  PROVE  a + 256 * b \in Word
<1>1. a \in Nat /\ a <= 255 /\ b \in Nat /\ b <= 255
  BY DEF Byte
<1>2. a + 256 * b \in Nat /\ a + 256 * b <= 65535
  BY <1>1
<1>. QED BY <1>2 DEF Word

\* A checksum is a word.
LEMMA ChecksumIsWord ==
  ASSUME NEW words \in Seq(Word), Len(words) <= 10
  PROVE  net_checksum(words) \in Word
<1>. DEFINE f == FoldCarries(Sum(words)) % 65536
<1>1. Sum(words) \in Nat /\ Sum(words) <= 65535 * Len(words) /\ Len(words) \in Nat
  BY SumBound
<1>2. Sum(words) <= 10 * 65535
  BY <1>1
<1>3. FoldCarries(Sum(words)) \in Nat
  BY <1>1, <1>2, CarriesFolded
<1>4. f \in Nat /\ f <= 65535
  BY <1>3
<1>5. net_checksum(words) = 65535 - f
  BY DEF net_checksum
<1>. HIDE DEF f
<1>. QED BY <1>4, <1>5 DEF Word

LEMMA HeaderNumbers ==
  /\ 0 \in Word /\ 69 \in Word /\ 9216 \in Word /\ 320 \in Word /\ 8 \in Word /\ 1 \in Word
  /\ 256 \in Word /\ 770 \in Word /\ 1284 \in Word /\ 1798 \in Word
  BY DEF Word

Joined(a, b, w) ==
  /\ w \in Seq(Word) /\ Len(w) = 10
  /\ \A n \in 1 .. 10 : w[n] = IF n <= 8 THEN a[n] ELSE b[n - 8]

LEMMA ConcatWords ==
  ASSUME NEW a \in Seq(Word), NEW b \in Seq(Word)
  PROVE  /\ a \o b \in Seq(Word) /\ Len(a \o b) = Len(a) + Len(b)
         /\ \A n \in 1 .. Len(a) + Len(b) :
              (a \o b)[n] = IF n <= Len(a) THEN a[n] ELSE b[n - Len(a)]
  OBVIOUS

LEMMA JoinedWords ==
  ASSUME NEW a \in Seq(Word), NEW b \in Seq(Word), Len(a) = 8, Len(b) = 2
  PROVE  Joined(a, b, a \o b)
<1>1. /\ a \o b \in Seq(Word) /\ Len(a \o b) = Len(a) + Len(b)
      /\ \A n \in 1 .. Len(a) + Len(b) :
           (a \o b)[n] = IF n <= Len(a) THEN a[n] ELSE b[n - Len(a)]
  BY ConcatWords
<1>. DEFINE w == a \o b
<1>. HIDE DEF w
<1>2. /\ w \in Seq(Word) /\ Len(w) = Len(a) + Len(b)
      /\ \A n \in 1 .. Len(a) + Len(b) : w[n] = IF n <= Len(a) THEN a[n] ELSE b[n - Len(a)]
  BY <1>1 DEF w
<1>3. Len(a) + Len(b) = 10
  OBVIOUS
<1>4. Joined(a, b, w)
  BY <1>2, <1>3 DEF Joined
<1>. QED BY <1>4 DEF w

\* The IP header before and after its checksum is filled in.
IpHeader(c, octets) == <<69, 9216, 0, 0, 320, c, 0, 0>> \o AddressWords(octets)

LEMMA IpWords ==
  ASSUME NEW octets, \A k \in 1 .. 4 : octets[k] \in Byte, NEW c \in Word
  PROVE  /\ IpHeader(c, octets) \in Seq(Word) /\ Len(IpHeader(c, octets)) = 10
         /\ IpHeader(c, octets)[6] = c
         /\ \A n \in 1 .. 10 : n # 6 => IpHeader(c, octets)[n] = IpHeader(0, octets)[n]
<1>. DEFINE a(x) == <<69, 9216, 0, 0, 320, x, 0, 0>>
            b == AddressWords(octets)
<1>1. octets[4] + 256 * octets[3] \in Word /\ octets[2] + 256 * octets[1] \in Word
  BY TwoBytes
<1>2. b \in Seq(Word) /\ Len(b) = 2
  BY <1>1 DEF AddressWords
<1>3. ASSUME NEW x \in Word
      PROVE  /\ a(x) \in Seq(Word) /\ Len(a(x)) = 8 /\ a(x)[6] = x
             /\ a(x)[1] = 69 /\ a(x)[2] = 9216 /\ a(x)[3] = 0 /\ a(x)[4] = 0
             /\ a(x)[5] = 320 /\ a(x)[7] = 0 /\ a(x)[8] = 0
  BY HeaderNumbers
<1>4. \A n \in 1 .. 8 : n # 6 => a(c)[n] = a(0)[n]
  <2>1. 0 \in Word
    BY HeaderNumbers
  <2>2. \A n \in 1 .. 8 : n \in {1, 2, 3, 4, 5, 6, 7, 8}
    OBVIOUS
  <2>. QED BY <1>3, <2>1, <2>2
<1>5. IpHeader(c, octets) = a(c) \o b /\ IpHeader(0, octets) = a(0) \o b
  BY DEF IpHeader
<1>6. /\ a(c) \in Seq(Word) /\ Len(a(c)) = 8 /\ a(c)[6] = c
      /\ a(0) \in Seq(Word) /\ Len(a(0)) = 8
  BY <1>3, HeaderNumbers
<1>. HIDE DEF a, b
<1>c. Joined(a(c), b, a(c) \o b)
  BY <1>2, <1>6, JoinedWords
<1>0. Joined(a(0), b, a(0) \o b)
  BY <1>2, <1>6, JoinedWords
<1>7. /\ a(c) \o b \in Seq(Word) /\ Len(a(c) \o b) = 10
      /\ \A n \in 1 .. 10 : (a(c) \o b)[n] = IF n <= 8 THEN a(c)[n] ELSE b[n - 8]
      /\ \A n \in 1 .. 10 : (a(0) \o b)[n] = IF n <= 8 THEN a(0)[n] ELSE b[n - 8]
  BY <1>c, <1>0 DEF Joined
<1>. QED BY <1>4, <1>5, <1>6, <1>7

\* The echo request before and after its checksum is filled in.
IcmpHeader(c, seq) == <<8, c, 1, seq, 256, 770, 1284, 1798>>

LEMMA IcmpWords ==
  ASSUME NEW seq \in Word, NEW c \in Word
  PROVE  /\ IcmpHeader(c, seq) \in Seq(Word) /\ Len(IcmpHeader(c, seq)) = 8
         /\ IcmpHeader(c, seq)[2] = c
         /\ \A n \in 1 .. 8 : n # 2 => IcmpHeader(c, seq)[n] = IcmpHeader(0, seq)[n]
<1>1. ASSUME NEW x \in Word
      PROVE  /\ IcmpHeader(x, seq) \in Seq(Word) /\ Len(IcmpHeader(x, seq)) = 8
             /\ IcmpHeader(x, seq)[2] = x
             /\ IcmpHeader(x, seq)[1] = 8 /\ IcmpHeader(x, seq)[3] = 1
             /\ IcmpHeader(x, seq)[4] = seq /\ IcmpHeader(x, seq)[5] = 256
             /\ IcmpHeader(x, seq)[6] = 770 /\ IcmpHeader(x, seq)[7] = 1284
             /\ IcmpHeader(x, seq)[8] = 1798
  BY HeaderNumbers DEF IcmpHeader
<1>2. \A n \in 1 .. 8 : n \in {1, 2, 3, 4, 5, 6, 7, 8}
  OBVIOUS
<1>3. 0 \in Word
  BY HeaderNumbers
<1>. QED BY <1>1, <1>2, <1>3

\* A receiver accepts the echo request that net_send_icmp_echo builds, for every
\* target and every sequence number.
LEMMA EchoVerifies ==
  ASSUME NEW octets, \A k \in 1 .. 4 : octets[k] \in Byte, NEW seq \in Nat, NEW mac
  PROVE  /\ EchoFrame(mac, octets, seq).src = mac
         /\ \A k \in 1 .. 2 : Verifies(EchoFrame(mac, octets, seq).headers[k])
<1>. DEFINE s == seq % 65536
            i0 == IpHeader(0, octets)
            x == net_checksum(i0)
            i1 == IpHeader(x, octets)
            e0 == IcmpHeader(0, s)
            y == net_checksum(e0)
            e1 == IcmpHeader(y, s)
<1>1. s \in Word
  BY DEF Word
<1>2. EchoFrame(mac, octets, seq) = [kind |-> "icmp", src |-> mac, headers |-> <<i1, e1>>]
  BY DEF EchoFrame, IpHeader, IcmpHeader
<1>. HIDE DEF s
<1>3. 0 \in Word
  BY HeaderNumbers
<1>4. i0 \in Seq(Word) /\ Len(i0) = 10 /\ i0[6] = 0
  BY <1>3, IpWords
<1>5. e0 \in Seq(Word) /\ Len(e0) = 8 /\ e0[2] = 0
  BY <1>1, <1>3, IcmpWords
<1>6. x \in Word
  <2>. HIDE DEF i0
  <2>1. Len(i0) <= 10
    BY <1>4
  <2>. QED BY <1>4, <2>1, ChecksumIsWord
<1>7. y \in Word
  <2>. HIDE DEF e0
  <2>1. Len(e0) <= 10
    BY <1>5
  <2>. QED BY <1>5, <2>1, ChecksumIsWord
<1>8. i1 \in Seq(Word) /\ Len(i1) = 10 /\ i1[6] = x
      /\ \A n \in 1 .. 10 : n # 6 => i1[n] = i0[n]
  <2>. HIDE DEF x
  <2>. QED BY <1>6, IpWords
<1>9. e1 \in Seq(Word) /\ Len(e1) = 8 /\ e1[2] = y
      /\ \A n \in 1 .. 8 : n # 2 => e1[n] = e0[n]
  <2>. HIDE DEF y
  <2>. QED BY <1>1, <1>7, IcmpWords
<1>. HIDE DEF i0, i1, e0, e1
<1>10. Verifies(i1)
  <2>1. Len(i0) <= 10 /\ 6 \in 1 .. Len(i0) /\ Len(i1) = Len(i0)
        /\ \A n \in 1 .. Len(i0) : n # 6 => i1[n] = i0[n]
    BY <1>4, <1>8
  <2>. QED BY <1>4, <1>8, <2>1, FilledVerifies
<1>11. Verifies(e1)
  <2>1. Len(e0) <= 10 /\ 2 \in 1 .. Len(e0) /\ Len(e1) = Len(e0)
        /\ \A n \in 1 .. Len(e0) : n # 2 => e1[n] = e0[n]
    BY <1>5, <1>9
  <2>. QED BY <1>5, <1>9, <2>1, FilledVerifies
<1>12. /\ EchoFrame(mac, octets, seq).headers[1] = i1
       /\ EchoFrame(mac, octets, seq).headers[2] = e1
       /\ EchoFrame(mac, octets, seq).src = mac
  BY <1>2
<1>13. \A k \in 1 .. 2 : k = 1 \/ k = 2
  OBVIOUS
<1>. QED BY <1>10, <1>11, <1>12, <1>13

----------------------------------------------------------------------------
(* Addresses *)

StartParsing == [octets |-> <<>>, num |-> 0, bad |-> FALSE]

AreStates(f, text, k) ==
  f = [n \in 0 .. k |-> IF n = 0 THEN StartParsing ELSE ParseChar(f[n - 1], text[n])]

\* The states of parse_ip4's loop exist: each follows from the one before.
LEMMA StatesExist ==
  ASSUME NEW text, Len(text) \in Nat
  PROVE  AreStates(Parsing(text), text, Len(text))
<1>. DEFINE T == {k \in Nat : \E f : AreStates(f, text, k)}
<1>1. 0 \in T
  <2>. DEFINE g == [n \in 0 .. 0 |-> StartParsing]
  <2>1. AreStates(g, text, 0)
    BY DEF AreStates
  <2>. HIDE DEF g
  <2>. QED BY <2>1
<1>2. ASSUME NEW k \in Nat, k \in T PROVE k + 1 \in T
  <2>1. PICK f : AreStates(f, text, k)
    BY <1>2
  <2>. DEFINE g == [n \in 0 .. k + 1 |->
                      IF n = k + 1 THEN ParseChar(f[k], text[k + 1]) ELSE f[n]]
  <2>2. \A n \in 0 .. k + 1 :
          g[n] = IF n = 0 THEN StartParsing ELSE ParseChar(g[n - 1], text[n])
    BY <2>1 DEF AreStates
  <2>3. AreStates(g, text, k + 1)
    BY <2>2 DEF AreStates
  <2>. HIDE DEF g
  <2>. QED BY <2>3
<1>. HIDE DEF T
<1>3. Len(text) \in T
  BY <1>1, <1>2, SetInduction
<1>4. \E f : AreStates(f, text, Len(text))
  BY <1>3 DEF T
<1>5. Parsing(text) = CHOOSE f : AreStates(f, text, Len(text))
  BY DEF Parsing, AreStates, StartParsing
<1>. QED BY <1>4, <1>5, Zenon

\* How the loop goes on.
LEMMA ParsingGoesOn ==
  ASSUME NEW text, Len(text) \in Nat
  PROVE  /\ Parsing(text)[0] = StartParsing
         /\ \A n \in 1 .. Len(text) : Parsing(text)[n] = ParseChar(Parsing(text)[n - 1], text[n])
<1>1. AreStates(Parsing(text), text, Len(text))
  BY StatesExist
<1>2. PICK f : f = Parsing(text)
  OBVIOUS
<1>3. f = [n \in 0 .. Len(text) |-> IF n = 0 THEN StartParsing ELSE ParseChar(f[n - 1], text[n])]
  BY <1>1, <1>2 DEF AreStates
<1>4. f[0] = StartParsing /\ \A n \in 1 .. Len(text) : f[n] = ParseChar(f[n - 1], text[n])
  BY <1>3
<1>. QED BY <1>2, <1>4

AreValues(f, text, a, b) ==
  f = [n \in a .. b |-> IF n = a THEN 0 ELSE 10 * f[n - 1] + DigitOf[text[n]]]

\* The numbers after a place of the text exist.
LEMMA ValuesExist ==
  ASSUME NEW text, Len(text) \in Nat, NEW a \in Nat, a <= Len(text)
  PROVE  AreValues(Values(text, a), text, a, Len(text))
<1>. DEFINE T == {k \in Nat : \E f : AreValues(f, text, a, a + k)}
<1>1. 0 \in T
  <2>. DEFINE g == [n \in a .. a + 0 |-> 0]
  <2>1. AreValues(g, text, a, a + 0)
    BY DEF AreValues
  <2>. HIDE DEF g
  <2>. QED BY <2>1
<1>2. ASSUME NEW k \in Nat, k \in T PROVE k + 1 \in T
  <2>1. PICK f : AreValues(f, text, a, a + k)
    BY <1>2
  <2>. DEFINE z == a + (k + 1)
              g == [n \in a .. z |->
                      IF n = z THEN 10 * f[z - 1] + DigitOf[text[z]] ELSE f[n]]
  <2>2. z - 1 = a + k /\ z \in Nat /\ z > a
    OBVIOUS
  <2>. HIDE DEF z
  <2>3. \A n \in a .. z : g[n] = IF n = a THEN 0 ELSE 10 * g[n - 1] + DigitOf[text[n]]
    BY <2>1, <2>2 DEF AreValues
  <2>4. AreValues(g, text, a, z)
    BY <2>3 DEF AreValues
  <2>. HIDE DEF g
  <2>. QED BY <2>4 DEF z
<1>. HIDE DEF T
<1>3. \A k \in Nat : k \in T
  BY <1>1, <1>2, SetInduction
<1>4. \E f : AreValues(f, text, a, Len(text))
  <2>1. Len(text) - a \in Nat /\ a + (Len(text) - a) = Len(text)
    OBVIOUS
  <2>. QED BY <1>3, <2>1 DEF T
<1>5. Values(text, a) = CHOOSE f : AreValues(f, text, a, Len(text))
  BY DEF Values, AreValues
<1>. QED BY <1>4, <1>5, Zenon

\* How the numbers go on.
LEMMA ValuesGoOn ==
  ASSUME NEW text, Len(text) \in Nat, NEW a \in Nat, a <= Len(text)
  PROVE  /\ Values(text, a)[a] = 0
         /\ \A n \in a + 1 .. Len(text) :
              Values(text, a)[n] = 10 * Values(text, a)[n - 1] + DigitOf[text[n]]
<1>1. AreValues(Values(text, a), text, a, Len(text))
  BY ValuesExist
<1>2. PICK f : f = Values(text, a)
  OBVIOUS
<1>3. f = [n \in a .. Len(text) |-> IF n = a THEN 0 ELSE 10 * f[n - 1] + DigitOf[text[n]]]
  BY <1>1, <1>2 DEF AreValues
<1>4. f[a] = 0
  BY <1>3
<1>5. ASSUME NEW n \in a + 1 .. Len(text) PROVE f[n] = 10 * f[n - 1] + DigitOf[text[n]]
  <2>1. n \in a .. Len(text) /\ n # a
    OBVIOUS
  <2>. QED BY <1>3, <2>1
<1>. QED BY <1>2, <1>4, <1>5

\* The digits.
LEMMA DigitFacts ==
  /\ "." \notin DOMAIN DigitOf
  /\ \A c \in DOMAIN DigitOf : DigitOf[c] \in Nat /\ DigitOf[c] <= 9
<1>1. DOMAIN DigitOf = {"0", "1", "2", "3", "4", "5", "6", "7", "8", "9"}
  BY DEF DigitOf
<1>2. "." \notin {"0", "1", "2", "3", "4", "5", "6", "7", "8", "9"}
  OBVIOUS
<1>3. /\ DigitOf["0"] = 0 /\ DigitOf["1"] = 1 /\ DigitOf["2"] = 2 /\ DigitOf["3"] = 3
      /\ DigitOf["4"] = 4 /\ DigitOf["5"] = 5 /\ DigitOf["6"] = 6 /\ DigitOf["7"] = 7
      /\ DigitOf["8"] = 8 /\ DigitOf["9"] = 9
  BY DEF DigitOf
<1>4. ASSUME NEW c \in DOMAIN DigitOf PROVE DigitOf[c] \in Nat /\ DigitOf[c] <= 9
  <2>1. c \in {"0", "1", "2", "3", "4", "5", "6", "7", "8", "9"}
    BY <1>1
  <2>. QED BY <1>3, <2>1
<1>. QED BY <1>1, <1>2, <1>4

\* More digits never make a number smaller.
LEMMA ValuesGrow ==
  ASSUME NEW text, Len(text) \in Nat, NEW a \in Nat, a <= Len(text),
         NEW n \in a .. Len(text), NEW m \in n .. Len(text),
         \A i \in n + 1 .. m : text[i] \in DOMAIN DigitOf,
         Values(text, a)[n] \in Nat
  PROVE  Values(text, a)[m] \in Nat /\ Values(text, a)[m] >= Values(text, a)[n]
<1>. DEFINE V(i) == Values(text, a)[i]
            T == {k \in Nat : n + k <= m => V(n + k) \in Nat /\ V(n + k) >= V(n)}
<1>1. 0 \in T
  OBVIOUS
<1>2. ASSUME NEW k \in Nat, k \in T PROVE k + 1 \in T
  <2>1. SUFFICES ASSUME n + (k + 1) <= m
                 PROVE  V(n + (k + 1)) \in Nat /\ V(n + (k + 1)) >= V(n)
    OBVIOUS
  <2>. DEFINE z == n + (k + 1)
  <2>2. z \in n + 1 .. m /\ z \in a + 1 .. Len(text) /\ z - 1 = n + k /\ n + k <= m
    BY <2>1
  <2>. HIDE DEF z
  <2>3. text[z] \in DOMAIN DigitOf
    BY <2>2
  <2>4. DigitOf[text[z]] \in Nat
    BY <2>3, DigitFacts
  <2>5. Values(text, a)[z] = 10 * Values(text, a)[z - 1] + DigitOf[text[z]]
    BY <2>2, ValuesGoOn
  <2>6. V(n + k) \in Nat /\ V(n + k) >= V(n)
    BY <1>2, <2>2
  <2>. HIDE DEF V
  <2>7. V(z) = 10 * V(n + k) + DigitOf[text[z]]
    BY <2>2, <2>5 DEF V
  <2>8. V(n) \in Nat
    BY DEF V
  <2>9. V(z) \in Nat /\ V(z) >= V(n)
    BY <2>4, <2>6, <2>7, <2>8
  <2>. QED BY <2>9 DEF z
<1>. HIDE DEF T
<1>3. \A k \in Nat : k \in T
  BY <1>1, <1>2, SetInduction
<1>4. m - n \in Nat /\ n + (m - n) = m
  OBVIOUS
<1>. QED BY <1>3, <1>4 DEF T

\* The dots up to a place, and how many they are.
DotsTo(text, n) == {j \in Dots(text) : j <= n}
DotCount(text, n) == Cardinality(DotsTo(text, n))

LEMMA DotsFinite ==
  ASSUME NEW text, Len(text) \in Nat, NEW D, D \subseteq Dots(text)
  PROVE  IsFiniteSet(D) /\ Cardinality(D) \in Nat
<1>1. D \subseteq 1 .. Len(text)
  BY DEF Dots
<1>2. IsFiniteSet(1 .. Len(text))
  BY FS_Interval
<1>3. IsFiniteSet(D)
  BY <1>1, <1>2, FS_Subset
<1>. QED BY <1>3, FS_CardinalityType

\* Counting the dots place by place.
LEMMA CountDots ==
  ASSUME NEW text, Len(text) \in Nat
  PROVE  /\ DotCount(text, 0) = 0
         /\ DotCount(text, Len(text)) = Cardinality(Dots(text))
         /\ \A n \in 1 .. Len(text) :
              DotCount(text, n) = IF text[n] = "." THEN DotCount(text, n - 1) + 1
                                  ELSE DotCount(text, n - 1)
<1>1. DotsTo(text, 0) = {}
  BY DEF DotsTo, Dots
<1>2. DotsTo(text, Len(text)) = Dots(text)
  BY DEF DotsTo, Dots
<1>3. ASSUME NEW n \in 1 .. Len(text)
      PROVE  DotCount(text, n) = IF text[n] = "." THEN DotCount(text, n - 1) + 1
                                 ELSE DotCount(text, n - 1)
  <2>1. CASE text[n] = "."
    <3>1. DotsTo(text, n) = DotsTo(text, n - 1) \cup {n}
      BY <2>1 DEF DotsTo, Dots
    <3>2. n \notin DotsTo(text, n - 1)
      BY DEF DotsTo
    <3>3. IsFiniteSet(DotsTo(text, n - 1))
      BY DotsFinite DEF DotsTo
    <3>. QED BY <2>1, <3>1, <3>2, <3>3, FS_AddElement DEF DotCount
  <2>2. CASE text[n] # "."
    <3>1. DotsTo(text, n) = DotsTo(text, n - 1)
      BY <2>2 DEF DotsTo, Dots
    <3>. QED BY <2>2, <3>1 DEF DotCount
  <2>. QED BY <2>1, <2>2
<1>. QED BY <1>1, <1>2, <1>3, FS_EmptySet DEF DotCount

\* Further on there are as many dots or more, and more after a dot.
LEMMA MoreDots ==
  ASSUME NEW text, Len(text) \in Nat, NEW i \in Nat, NEW j \in Nat, i <= j
  PROVE  /\ DotCount(text, i) \in Nat /\ DotCount(text, j) \in Nat
         /\ DotCount(text, i) <= DotCount(text, j)
         /\ i < j /\ j \in Dots(text) => DotCount(text, i) < DotCount(text, j)
         /\ DotCount(text, j) <= Cardinality(Dots(text))
<1>1. IsFiniteSet(DotsTo(text, i)) /\ IsFiniteSet(DotsTo(text, j)) /\ IsFiniteSet(Dots(text))
      /\ DotCount(text, i) \in Nat /\ DotCount(text, j) \in Nat
  BY DotsFinite DEF DotsTo, DotCount
<1>2. DotsTo(text, i) \subseteq DotsTo(text, j) /\ DotsTo(text, j) \subseteq Dots(text)
  BY DEF DotsTo, Dots
<1>3. DotCount(text, i) <= DotCount(text, j) /\ DotCount(text, j) <= Cardinality(Dots(text))
  BY <1>1, <1>2, FS_Subset DEF DotCount
<1>4. ASSUME i < j, j \in Dots(text) PROVE DotCount(text, i) < DotCount(text, j)
  <2>1. j \in DotsTo(text, j) /\ j \notin DotsTo(text, i)
    BY <1>4 DEF DotsTo
  <2>2. DotsTo(text, i) # DotsTo(text, j)
    BY <2>1
  <2>3. DotCount(text, i) # DotCount(text, j)
    BY <1>1, <1>2, <2>2, FS_Subset DEF DotCount
  <2>. QED BY <1>1, <1>3, <2>3
<1>. QED BY <1>1, <1>3, <1>4

\* The place of a dot.
LEMMA PlaceOfDot ==
  ASSUME NEW text, Len(text) \in Nat, NEW i \in Dots(text)
  PROVE  Dot(text, DotCount(text, i)) = i
<1>1. i \in Nat /\ i >= 1 /\ i <= Len(text)
  BY DEF Dots
<1>2. DotCount(text, i) \in Nat /\ DotCount(text, i) <= Cardinality(Dots(text))
  BY <1>1, MoreDots
<1>3. DotCount(text, 0) \in Nat /\ DotCount(text, 0) < DotCount(text, i)
  BY <1>1, MoreDots
<1>4. Cardinality(Dots(text)) \in Nat
  BY DotsFinite
<1>5. DotCount(text, i) # 0 /\ ~(DotCount(text, i) > Cardinality(Dots(text)))
  BY <1>2, <1>3, <1>4
<1>6. ASSUME NEW j \in Dots(text), DotCount(text, j) = DotCount(text, i)
      PROVE  j = i
  <2>1. j \in Nat
    BY DEF Dots
  <2>2. CASE i < j
    BY <1>1, <1>6, <2>1, <2>2, MoreDots
  <2>3. CASE j < i
    BY <1>1, <1>6, <2>1, <2>3, MoreDots
  <2>. QED BY <1>1, <2>1, <2>2, <2>3
<1>. DEFINE k == DotCount(text, i)
<1>7. Dot(text, k) = CHOOSE j \in Dots(text) : DotCount(text, j) = k
  <2>1. k # 0 /\ ~(k > Cardinality(Dots(text)))
    BY <1>5
  <2>. HIDE DEF k
  <2>. QED BY <2>1 DEF Dot, DotCount, DotsTo
<1>8. (CHOOSE j \in Dots(text) : DotCount(text, j) = k) = i
  BY <1>6, Zenon
<1>. QED BY <1>7, <1>8

\* Up to the number of dots there is a k-th one.
LEMMA KthDot ==
  ASSUME NEW text, Len(text) \in Nat, NEW k \in 1 .. Cardinality(Dots(text))
  PROVE  \E i \in Dots(text) : DotCount(text, i) = k /\ Dot(text, k) = i
<1>0. Cardinality(Dots(text)) \in Nat
  BY DotsFinite
<1>1. /\ DotCount(text, 0) = 0 /\ DotCount(text, Len(text)) = Cardinality(Dots(text))
      /\ \A n \in 1 .. Len(text) :
           DotCount(text, n) = IF text[n] = "." THEN DotCount(text, n - 1) + 1
                               ELSE DotCount(text, n - 1)
  BY CountDots
<1>. DEFINE T == {n \in Nat : DotCount(text, n) >= k}
<1>2. T \subseteq Nat /\ Len(text) \in T
  BY <1>0, <1>1
<1>3. PICK n \in T : \A m \in T : n <= m
  BY <1>2, LeastNumber
<1>4. n \in Nat /\ n # 0 /\ n <= Len(text) /\ n \in 1 .. Len(text) /\ n - 1 \in Nat
  <2>1. n \in Nat /\ DotCount(text, n) >= k /\ n <= Len(text)
    BY <1>2, <1>3
  <2>2. n # 0
    BY <1>0, <1>1, <2>1
  <2>. QED BY <2>1, <2>2
<1>5. DotCount(text, n) >= k /\ ~(DotCount(text, n - 1) >= k)
  <2>1. n - 1 \notin T
    BY <1>3, <1>4
  <2>. QED BY <1>3, <1>4, <2>1
<1>6. DotCount(text, n) \in Nat /\ DotCount(text, n - 1) \in Nat
  BY <1>4, MoreDots
<1>7. text[n] = "." /\ DotCount(text, n) = DotCount(text, n - 1) + 1
  BY <1>0, <1>1, <1>4, <1>5, <1>6
<1>8. n \in Dots(text)
  BY <1>4, <1>7 DEF Dots
<1>9. DotCount(text, n) = k
  BY <1>0, <1>5, <1>6, <1>7
<1>. QED BY <1>8, <1>9, PlaceOfDot

\* Where a place of the text lies between the dots.
LEMMA BetweenDots ==
  ASSUME NEW text, Len(text) \in Nat, NEW n \in 0 .. Len(text), NEW d, d = DotCount(text, n)
  PROVE  /\ d \in Nat
         /\ Dot(text, d) \in 0 .. n
         /\ Dot(text, d + 1) \in n + 1 .. Len(text) + 1
         /\ \A j \in n + 1 .. Dot(text, d + 1) - 1 : text[j] # "."
<1>0. /\ Cardinality(Dots(text)) \in Nat /\ d \in Nat /\ n \in Nat
      /\ d <= Cardinality(Dots(text))
  BY DotsFinite, MoreDots
<1>1. Dot(text, d) \in 0 .. n
  <2>1. CASE d = 0
    BY <2>1 DEF Dot
  <2>2. CASE d # 0
    <3>1. PICK i \in Dots(text) : DotCount(text, i) = d /\ Dot(text, d) = i
      BY <1>0, <2>2, KthDot
    <3>2. i \in Nat
      BY DEF Dots
    <3>3. ~(n < i)
      BY <1>0, <3>1, <3>2, MoreDots
    <3>. QED BY <1>0, <3>1, <3>2, <3>3
  <2>. QED BY <2>1, <2>2
<1>2. CASE d + 1 > Cardinality(Dots(text))
  <2>1. Dot(text, d + 1) = Len(text) + 1
    BY <1>0, <1>2 DEF Dot
  <2>2. ASSUME NEW j \in n + 1 .. Len(text), text[j] = "."
        PROVE  FALSE
    <3>1. j \in Dots(text) /\ j \in Nat /\ n < j
      BY <1>0, <2>2 DEF Dots
    <3>2. /\ DotCount(text, n) < DotCount(text, j) /\ DotCount(text, j) \in Nat
          /\ DotCount(text, j) <= Cardinality(Dots(text))
      BY <1>0, <3>1, MoreDots
    <3>. QED BY <1>0, <1>2, <3>2
  <2>. QED BY <1>0, <1>1, <2>1, <2>2
<1>3. CASE ~(d + 1 > Cardinality(Dots(text)))
  <2>1. PICK i \in Dots(text) : DotCount(text, i) = d + 1 /\ Dot(text, d + 1) = i
    BY <1>0, <1>3, KthDot
  <2>2. i \in Nat /\ i <= Len(text)
    BY DEF Dots
  <2>3. ~(i <= n)
    BY <1>0, <2>1, <2>2, MoreDots
  <2>4. ASSUME NEW j \in n + 1 .. i - 1, text[j] = "."
        PROVE  FALSE
    <3>1. j \in Dots(text) /\ j \in Nat /\ n < j /\ j < i
      BY <1>0, <2>2, <2>4 DEF Dots
    <3>2. DotCount(text, n) < DotCount(text, j) /\ DotCount(text, j) \in Nat
      BY <1>0, <3>1, MoreDots
    <3>3. DotCount(text, j) < DotCount(text, i)
      BY <2>2, <3>1, MoreDots
    <3>. QED BY <1>0, <2>1, <3>2, <3>3
  <2>. QED BY <1>0, <1>1, <2>1, <2>2, <2>3, <2>4
<1>. QED BY <1>2, <1>3

\* A number that is too big halfway is too big.
LEMMA TooBigIsNone ==
  ASSUME NEW text, Len(text) \in Nat, NEW n \in 0 .. Len(text), NEW d, d = DotCount(text, n),
         d <= 3, Values(text, Dot(text, d))[n] \in Nat, Values(text, Dot(text, d))[n] > 255
  PROVE  ~IsAddress(text)
<1>. SUFFICES ASSUME IsAddress(text) PROVE FALSE
  OBVIOUS
<1>. DEFINE a == Dot(text, d)
            m == Dot(text, d + 1) - 1
<1>1. /\ d \in Nat /\ a \in 0 .. n
      /\ Dot(text, d + 1) \in n + 1 .. Len(text) + 1
      /\ \A j \in n + 1 .. m : text[j] # "."
  BY BetweenDots
<1>2. d + 1 \in 1 .. 4 /\ (d + 1) - 1 = d
  BY <1>1
<1>3. Number(text, d + 1) <= 255
  BY <1>2 DEF IsAddress
<1>4. Number(text, d + 1) = Values(text, a)[m]
  BY <1>2 DEF Number
<1>5. m \in n .. Len(text)
  BY <1>1
<1>6. \A j \in n + 1 .. m : text[j] \in DOMAIN DigitOf
  <2>1. \A j \in n + 1 .. m : j \in 1 .. Len(text)
    BY <1>5
  <2>. QED BY <1>1, <2>1 DEF IsAddress
<1>7. Values(text, a)[n] \in Nat /\ Values(text, a)[n] > 255
  OBVIOUS
<1>. HIDE DEF a, m
<1>8. a \in Nat /\ a <= Len(text) /\ n \in a .. Len(text)
  BY <1>1
<1>9. Values(text, a)[m] \in Nat /\ Values(text, a)[m] >= Values(text, a)[n]
  BY <1>5, <1>6, <1>7, <1>8, ValuesGrow
<1>. QED BY <1>3, <1>4, <1>7, <1>9

\* The loop of parse_ip4 is on its way: the numbers before the last dot are the octets,
\* and the digits since then are the number it is at.
Going(text, n, st) ==
  LET d == DotCount(text, n)
  IN /\ st \in [octets : Seq(Byte), num : Byte, bad : BOOLEAN] /\ ~st.bad
     /\ Len(st.octets) = d /\ d <= 3
     /\ \A k \in 1 .. d : st.octets[k] = Number(text, k)
     /\ st.num = Values(text, Dot(text, d))[n]
     /\ \A i \in 1 .. n : text[i] \in DOMAIN DigitOf \union {"."}

\* Or it will refuse the text, and rightly so.
Refusing(text, st) == (st.bad \/ Len(st.octets) = 4) /\ ~IsAddress(text)

\* A digit.
LEMMA DigitStep ==
  ASSUME NEW text, Len(text) \in Nat, NEW n \in 1 .. Len(text), NEW st,
         Going(text, n - 1, st), text[n] \in DOMAIN DigitOf
  PROVE  Going(text, n, ParseChar(st, text[n])) \/ Refusing(text, ParseChar(st, text[n]))
<1>. DEFINE d == DotCount(text, n - 1)
            c == text[n]
            num == st.num * 10 + DigitOf[c]
            next == [st EXCEPT !.num = num, !.bad = num > 255]
<1>1. /\ st \in [octets : Seq(Byte), num : Byte, bad : BOOLEAN] /\ ~st.bad
      /\ Len(st.octets) = d /\ d <= 3
      /\ \A k \in 1 .. d : st.octets[k] = Number(text, k)
      /\ st.num = Values(text, Dot(text, d))[n - 1]
      /\ \A i \in 1 .. n - 1 : text[i] \in DOMAIN DigitOf \union {"."}
  BY DEF Going
<1>2. c # "." /\ DigitOf[c] \in Nat
  BY DigitFacts
<1>3. DotCount(text, n) = d
  BY <1>2, CountDots
<1>4. n - 1 \in 0 .. Len(text) /\ n \in 0 .. Len(text) /\ n \in Nat
  OBVIOUS
<1>5. d \in Nat /\ Dot(text, d) \in 0 .. n - 1
  BY <1>4, BetweenDots
<1>6. st.num \in Nat /\ st.num <= 255
  BY <1>1 DEF Byte
<1>7. num \in Nat
  BY <1>2, <1>6
<1>8. num = Values(text, Dot(text, d))[n]
  <2>1. Dot(text, d) \in Nat /\ Dot(text, d) <= Len(text) /\ n \in Dot(text, d) + 1 .. Len(text)
    BY <1>4, <1>5
  <2>2. Values(text, Dot(text, d))[n] = 10 * Values(text, Dot(text, d))[n - 1] + DigitOf[c]
    BY <2>1, ValuesGoOn
  <2>. QED BY <1>1, <1>2, <1>6, <2>2
<1>9. ParseChar(st, c) = next
  <2>1. ~(st.bad \/ Len(st.octets) = 4)
    BY <1>1, <1>5
  <2>. QED BY <2>1 DEF ParseChar
<1>. HIDE DEF d, c, num
<1>10. /\ next.octets = st.octets /\ next.num = num /\ next.bad = (num > 255)
  BY <1>1
<1>11. CASE num > 255
  <2>1. ~IsAddress(text)
    BY <1>1, <1>3, <1>4, <1>7, <1>8, <1>11, TooBigIsNone
  <2>. QED BY <1>9, <1>10, <1>11, <2>1 DEF Refusing, c
<1>12. CASE ~(num > 255)
  <2>1. num \in Byte
    BY <1>7, <1>12 DEF Byte
  <2>a. ~next.bad
    BY <1>10, <1>12
  <2>b. (num > 255) \in BOOLEAN
    OBVIOUS
  <2>2. next \in [octets : Seq(Byte), num : Byte, bad : BOOLEAN] /\ ~next.bad
    BY <1>1, <2>1, <2>a, <2>b, Zenon
  <2>3. \A i \in 1 .. n : text[i] \in DOMAIN DigitOf \union {"."}
    BY <1>1, <1>4
  <2>. HIDE DEF next
  <2>4. Going(text, n, next)
    BY <1>1, <1>3, <1>8, <1>10, <2>2, <2>3 DEF Going
  <2>. QED BY <1>9, <2>4 DEF c
<1>. QED BY <1>11, <1>12

\* A dot.
LEMMA DotStep ==
  ASSUME NEW text, Len(text) \in Nat, NEW n \in 1 .. Len(text), NEW st,
         Going(text, n - 1, st), text[n] = "."
  PROVE  Going(text, n, ParseChar(st, text[n])) \/ Refusing(text, ParseChar(st, text[n]))
<1>. DEFINE d == DotCount(text, n - 1)
            octets == Append(st.octets, st.num % 256)
            next == [st EXCEPT !.octets = octets, !.num = 0]
<1>1. /\ st \in [octets : Seq(Byte), num : Byte, bad : BOOLEAN] /\ ~st.bad
      /\ Len(st.octets) = d /\ d <= 3
      /\ \A k \in 1 .. d : st.octets[k] = Number(text, k)
      /\ st.num = Values(text, Dot(text, d))[n - 1]
      /\ \A i \in 1 .. n - 1 : text[i] \in DOMAIN DigitOf \union {"."}
  BY DEF Going
<1>2. DotCount(text, n) = d + 1
  BY CountDots
<1>3. d \in Nat
  BY BetweenDots
<1>4. n \in Dots(text) /\ n \in Nat
  BY DEF Dots
<1>5. Dot(text, d + 1) = n
  BY <1>2, <1>4, PlaceOfDot
<1>6. st.num % 256 = st.num /\ st.num \in Byte
  <2>1. st.num \in Byte
    BY <1>1
  <2>2. st.num \in Nat /\ st.num <= 255
    BY <2>1 DEF Byte
  <2>. QED BY <2>1, <2>2
<1>7. st.num = Number(text, d + 1)
  <2>1. (d + 1) - 1 = d
    BY <1>3
  <2>. QED BY <1>1, <1>5, <2>1 DEF Number
<1>8. ParseChar(st, text[n]) = next
  <2>1. ~(st.bad \/ Len(st.octets) = 4)
    BY <1>1, <1>3
  <2>2. text[n] \notin DOMAIN DigitOf
    BY DigitFacts
  <2>. QED BY <2>1, <2>2 DEF ParseChar
<1>9. /\ octets \in Seq(Byte) /\ Len(octets) = d + 1 /\ octets[d + 1] = st.num
      /\ \A k \in 1 .. d : octets[k] = st.octets[k]
  BY <1>1, <1>3, <1>6
<1>. HIDE DEF d, octets
<1>10. next.octets = octets /\ next.num = 0 /\ next.bad = st.bad
  BY <1>1
<1>11. CASE d = 3
  <2>1. Cardinality(Dots(text)) \in Nat /\ DotCount(text, n) <= Cardinality(Dots(text))
    BY <1>4, DotsFinite, MoreDots
  <2>2. ~IsAddress(text)
    BY <1>2, <1>11, <2>1 DEF IsAddress
  <2>3. Len(next.octets) = 4
    BY <1>9, <1>10, <1>11
  <2>. HIDE DEF next
  <2>. QED BY <1>8, <2>2, <2>3 DEF Refusing
<1>12. CASE d # 3
  <2>1. 0 \in Byte
    BY DEF Byte
  <2>2. next \in [octets : Seq(Byte), num : Byte, bad : BOOLEAN] /\ ~next.bad
    BY <1>1, <1>9, <2>1
  <2>3. \A i \in 1 .. n : text[i] \in DOMAIN DigitOf \union {"."}
    BY <1>1, <1>4
  <2>4. Values(text, n)[n] = 0
    BY ValuesGoOn
  <2>5. \A k \in 1 .. d + 1 : octets[k] = Number(text, k)
    BY <1>1, <1>3, <1>7, <1>9
  <2>6. d + 1 <= 3
    BY <1>1, <1>3, <1>12
  <2>. HIDE DEF next
  <2>7. Going(text, n, next)
    BY <1>2, <1>5, <1>9, <1>10, <2>2, <2>3, <2>4, <2>5, <2>6 DEF Going
  <2>. QED BY <1>8, <2>7
<1>. QED BY <1>11, <1>12

\* After every character the loop is on its way or refuses.
LEMMA ParsingKeeps ==
  ASSUME NEW text, Len(text) \in Nat
  PROVE  \A n \in 0 .. Len(text) :
           Going(text, n, Parsing(text)[n]) \/ Refusing(text, Parsing(text)[n])
<1>. DEFINE Good(n) == Going(text, n, Parsing(text)[n]) \/ Refusing(text, Parsing(text)[n])
            T == {n \in Nat : n <= Len(text) => Good(n)}
<1>0. /\ Parsing(text)[0] = StartParsing
      /\ \A n \in 1 .. Len(text) : Parsing(text)[n] = ParseChar(Parsing(text)[n - 1], text[n])
  BY ParsingGoesOn
<1>1. 0 \in T
  <2>1. DotCount(text, 0) = 0
    BY CountDots
  <2>2. Dot(text, 0) = 0 /\ Values(text, 0)[0] = 0
    BY ValuesGoOn DEF Dot
  <2>3. 0 \in Byte
    BY DEF Byte
  <2>4. StartParsing \in [octets : Seq(Byte), num : Byte, bad : BOOLEAN]
    BY <2>3 DEF StartParsing
  <2>5. ~StartParsing.bad /\ StartParsing.num = 0 /\ StartParsing.octets = <<>>
    BY DEF StartParsing
  <2>6. Going(text, 0, StartParsing)
    BY <2>1, <2>2, <2>4, <2>5 DEF Going
  <2>. QED BY <1>0, <2>6
<1>2. ASSUME NEW n \in Nat, n \in T PROVE n + 1 \in T
  <2>1. SUFFICES ASSUME n + 1 <= Len(text) PROVE Good(n + 1)
    OBVIOUS
  <2>. DEFINE m == n + 1
              st == Parsing(text)[n]
              next == ParseChar(st, text[m])
  <2>2. m \in 1 .. Len(text) /\ m - 1 = n
    BY <2>1
  <2>3. Parsing(text)[m] = next
    <3>. HIDE DEF m
    <3>. QED BY <1>0, <2>2
  <2>4. Going(text, n, st) \/ Refusing(text, st)
    BY <1>2, <2>1
  <2>. HIDE DEF m, st
  <2>5. CASE Refusing(text, st)
    <3>1. next = st
      BY <2>5 DEF Refusing, ParseChar
    <3>. HIDE DEF next
    <3>2. Refusing(text, next)
      BY <2>5, <3>1
    <3>. QED BY <2>3, <3>2 DEF m
  <2>6. CASE Going(text, n, st)
    <3>0. Going(text, m - 1, st)
      BY <2>2, <2>6
    <3>1. CASE text[m] \in DOMAIN DigitOf
      <4>1. Going(text, m, next) \/ Refusing(text, next)
        BY <2>2, <3>0, <3>1, DigitStep
      <4>. QED BY <2>3, <4>1 DEF m
    <3>2. CASE text[m] = "."
      <4>1. Going(text, m, next) \/ Refusing(text, next)
        BY <2>2, <3>0, <3>2, DotStep
      <4>. QED BY <2>3, <4>1 DEF m
    <3>3. CASE text[m] \notin DOMAIN DigitOf /\ text[m] # "."
      <4>1. ~IsAddress(text)
        BY <2>2, <3>3 DEF IsAddress
      <4>2. /\ st \in [octets : Seq(Byte), num : Byte, bad : BOOLEAN] /\ ~st.bad
            /\ Len(st.octets) = DotCount(text, n) /\ DotCount(text, n) <= 3
        BY <2>6 DEF Going
      <4>3. next.bad
        BY <3>3, <4>2 DEF ParseChar
      <4>4. Refusing(text, next)
        BY <4>1, <4>3 DEF Refusing
      <4>. QED BY <2>3, <4>4 DEF m
    <3>. QED BY <3>1, <3>2, <3>3
  <2>. QED BY <2>4, <2>5, <2>6
<1>. HIDE DEF T
<1>3. \A n \in Nat : n \in T
  BY <1>1, <1>2, SetInduction
<1>4. \A n \in 0 .. Len(text) : n \in Nat /\ n <= Len(text)
  OBVIOUS
<1>. QED BY <1>3, <1>4 DEF T

LEMMA OneMoreByte ==
  ASSUME NEW o \in Seq(Byte), NEW x \in Byte
  PROVE  /\ Append(o, x) \in Seq(Byte) /\ Len(Append(o, x)) = Len(o) + 1
         /\ Append(o, x)[Len(o) + 1] = x
         /\ \A k \in 1 .. Len(o) : Append(o, x)[k] = o[k]
  OBVIOUS

\* parse_ip4 gives the four numbers of an address, and nothing for any other text.
LEMMA ParsedRight ==
  ASSUME NEW text, Len(text) \in Nat
  PROVE  /\ parse_ip4(text) = IF IsAddress(text) THEN [k \in 1 .. 4 |-> Number(text, k)]
                              ELSE <<>>
         /\ IsAddress(text) => \A k \in 1 .. 4 : Number(text, k) \in Byte
<1>. DEFINE st == Parsing(text)[Len(text)]
            d == Cardinality(Dots(text))
<1>1. Going(text, Len(text), st) \/ Refusing(text, st)
  BY ParsingKeeps
<1>2. parse_ip4(text) = IF st.bad \/ Len(st.octets) # 3 THEN <<>>
                        ELSE Append(st.octets, st.num % 256)
  BY DEF parse_ip4
<1>. HIDE DEF st
<1>3. CASE Refusing(text, st)
  <2>1. (st.bad \/ Len(st.octets) = 4) /\ ~IsAddress(text)
    BY <1>3 DEF Refusing
  <2>0. 4 # 3
    OBVIOUS
  <2>2. st.bad \/ Len(st.octets) # 3
    BY <2>0, <2>1, Zenon
  <2>3. parse_ip4(text) = <<>>
    BY <1>2, <2>2
  <2>. QED BY <2>1, <2>3
<1>4. CASE Going(text, Len(text), st)
  <2>0. DotCount(text, Len(text)) = d /\ d \in Nat
    BY CountDots, DotsFinite
  <2>1. /\ st \in [octets : Seq(Byte), num : Byte, bad : BOOLEAN] /\ ~st.bad
        /\ Len(st.octets) = d /\ d <= 3
        /\ \A k \in 1 .. d : st.octets[k] = Number(text, k)
        /\ st.num = Values(text, Dot(text, d))[Len(text)]
        /\ \A i \in 1 .. Len(text) : text[i] \in DOMAIN DigitOf \union {"."}
    BY <1>4, <2>0 DEF Going
  <2>2. CASE d # 3
    BY <1>2, <2>1, <2>2 DEF IsAddress
  <2>3. CASE d = 3
    <3>. DEFINE target == Append(st.octets, st.num)
    <3>1. st.num \in Byte /\ st.num % 256 = st.num
      <4>1. st.num \in Byte
        BY <2>1
      <4>2. st.num \in Nat /\ st.num <= 255
        BY <4>1 DEF Byte
      <4>. QED BY <4>1, <4>2
    <3>2. Dot(text, 4) = Len(text) + 1
      BY <2>3 DEF Dot
    <3>3. st.num = Number(text, 4)
      <4>1. 4 - 1 = 3 /\ (Len(text) + 1) - 1 = Len(text)
        OBVIOUS
      <4>. QED BY <2>1, <2>3, <3>2, <4>1 DEF Number
    <3>4. \A k \in 1 .. 3 : st.octets[k] = Number(text, k) /\ st.octets[k] \in Byte
      BY <2>1, <2>3
    <3>5. /\ target \in Seq(Byte) /\ Len(target) = 4 /\ target[4] = st.num
          /\ \A k \in 1 .. 3 : target[k] = st.octets[k]
      <4>1. st.octets \in Seq(Byte) /\ Len(st.octets) = 3
        BY <2>1, <2>3
      <4>. DEFINE o == st.octets
                  x == st.num
      <4>2. o \in Seq(Byte) /\ Len(o) + 1 = 4 /\ x \in Byte /\ Len(o) = 3
        BY <3>1, <4>1
      <4>. HIDE DEF o, x
      <4>3. /\ Append(o, x) \in Seq(Byte) /\ Len(Append(o, x)) = Len(o) + 1
            /\ Append(o, x)[Len(o) + 1] = x
            /\ \A k \in 1 .. Len(o) : Append(o, x)[k] = o[k]
        BY <4>2, OneMoreByte
      <4>4. /\ Append(o, x) \in Seq(Byte) /\ Len(Append(o, x)) = 4 /\ Append(o, x)[4] = x
            /\ \A k \in 1 .. 3 : Append(o, x)[k] = o[k]
        BY <4>2, <4>3
      <4>. QED BY <4>4 DEF o, x
    <3>6. \A k \in 1 .. 4 : k = 4 \/ k \in 1 .. 3
      OBVIOUS
    <3>7. \A k \in 1 .. 4 : target[k] = Number(text, k) /\ Number(text, k) \in Byte
      BY <3>1, <3>3, <3>4, <3>5, <3>6
    <3>8. \A k \in 1 .. 4 : Number(text, k) <= 255
      BY <3>7 DEF Byte
    <3>9. IsAddress(text)
      BY <2>1, <2>3, <3>8 DEF IsAddress
    <3>10. parse_ip4(text) = target
      BY <1>2, <2>1, <2>3, <3>1
    <3>. DEFINE numbers == [k \in 1 .. 4 |-> Number(text, k)]
    <3>11. numbers \in Seq(Byte) /\ Len(numbers) = 4 /\ \A k \in 1 .. 4 : numbers[k] = Number(text, k)
      BY <3>7
    <3>. HIDE DEF target, numbers
    <3>12. target = numbers
      <4>1. \A k \in 1 .. Len(target) : target[k] = numbers[k]
        BY <3>5, <3>7, <3>11
      <4>. QED BY <3>5, <3>11, <4>1, SeqEqual
    <3>. QED BY <3>7, <3>9, <3>10, <3>12 DEF numbers
  <2>. QED BY <2>2, <2>3
<1>. QED BY <1>1, <1>3, <1>4

\* The address of the last command is what parse_ip4 made of its text.
Targeted == cmd.kind # "none" => cmd.text \in TEXTS /\ cmd.target = parse_ip4(cmd.text)

LEMMA TargetedKeeps ==
  ASSUME Targeted, NetTypeOK, [Next]_vars
  PROVE  Targeted'
<1>1. ASSUME NEW kind, NEW text \in TEXTS, NEW count, Command(kind, text, count)
      PROVE  Targeted'
  BY <1>1 DEF Command, Targeted
<1>2. CASE cmd_ping \/ cmd_arp
  BY <1>1, <1>2 DEF cmd_ping, cmd_arp
<1>3. CASE Wake
  <2>1. cmd' = [cmd EXCEPT !.seq = @ + 1]
    BY <1>3 DEF Wake
  <2>2. cmd'.kind = cmd.kind /\ cmd'.text = cmd.text /\ cmd'.target = cmd.target
    BY <2>1 DEF NetTypeOK
  <2>. QED BY <2>2 DEF Targeted
<1>4. CASE UNCHANGED cmd
  BY <1>4 DEF Targeted
<1>5. CASE Scan \/ AllocBuffer \/ StartCard \/ net_init \/ SendRefused \/ SendBusy
           \/ CopyFrame \/ Kick \/ Advance
  BY <1>4, <1>5 DEF Scan, AllocBuffer, StartCard, net_init, SendRefused, SendBusy, CopyFrame,
                    Kick, Advance
<1>6. CASE OthersAllocate \/ Transmit \/ PitTicks \/ UNCHANGED vars
  BY <1>4, <1>6 DEF OthersAllocate, Transmit, PitTicks, vars, kernel
<1>. QED BY <1>2, <1>3, <1>5, <1>6 DEF Next, KernelStep

\* A command goes on with an address exactly if its text is four numbers up to 255 with
\* dots between, and with those numbers: parse_ip4's loop, with its early return on a
\* number that grows too big and its stop at the fourth dot, for texts of any length.
THEOREM ParsesAddressHolds ==
  ASSUME EnoughPages
  PROVE  Spec => []ParsesAddress
<1>1. Init => Targeted
  BY DEF Init, NoCommand, Targeted
<1>2. NetInv /\ Targeted /\ [Next]_vars => Targeted'
  BY TargetedKeeps DEF NetInv
<1>3. ASSUME Targeted PROVE ParsesAddress
  <2>1. SUFFICES ASSUME cmd.kind # "none"
                 PROVE  cmd.target = IF IsAddress(cmd.text)
                                     THEN [k \in 1 .. 4 |-> Number(cmd.text, k)] ELSE <<>>
    BY DEF ParsesAddress
  <2>2. cmd.text \in TEXTS /\ cmd.target = parse_ip4(cmd.text)
    BY <1>3, <2>1 DEF Targeted
  <2>3. Len(cmd.text) \in Nat
    BY <2>2, NetAssumption
  <2>. QED BY <2>2, <2>3, ParsedRight
<1>4. Spec => []NetInv
  BY NetInvariance
<1>. QED BY <1>1, <1>2, <1>3, <1>4, PTL DEF Spec

\* Every frame a command can send is accepted by its receiver.
LEMMA FramesAccepted ==
  ASSUME NEW f \in Frames
  PROVE  f.src = "card" /\ (f.kind = "icmp" => \A k \in 1 .. 2 : Verifies(f.headers[k]))
<1>1. CASE f \in {ArpFrame("card", a) : a \in Addresses}
  BY <1>1 DEF ArpFrame
<1>2. ASSUME NEW a \in Addresses, NEW seq \in UNION {1 .. c : c \in COUNTS},
             f = EchoFrame("card", a, seq)
      PROVE  f.src = "card" /\ \A k \in 1 .. 2 : Verifies(f.headers[k])
  <2>1. PICK text \in TEXTS : a = parse_ip4(text) /\ a # <<>>
    BY DEF Addresses
  <2>2. Len(text) \in Nat
    BY NetAssumption
  <2>3. IsAddress(text) /\ a = [k \in 1 .. 4 |-> Number(text, k)]
        /\ \A k \in 1 .. 4 : Number(text, k) \in Byte
    BY <2>1, <2>2, ParsedRight
  <2>4. \A k \in 1 .. 4 : a[k] \in Byte
    BY <2>3
  <2>5. seq \in Nat
    BY NetAssumption
  <2>. QED BY <1>2, <2>4, <2>5, EchoVerifies
<1>. QED BY <1>1, <1>2 DEF Frames

\* A receiver accepts every frame that leaves: both checksums of an echo request verify,
\* although net_checksum adds the words in the processor's byte order, for every address
\* typed and every sequence number; and the source is the card's own address (net_init
\* comes before the first command).
THEOREM FramesVerifyHolds ==
  ASSUME EnoughPages
  PROVE  Spec => []FramesVerify
<1>1. ASSUME NetInv PROVE FramesVerify
  <2>1. wire \in Seq(Frames)
    BY <1>1 DEF NetInv, NetTypeOK
  <2>2. \A i \in 1 .. Len(wire) : wire[i] \in Frames
    BY <2>1
  <2>. QED BY <2>2, FramesAccepted DEF FramesVerify
<1>. QED BY <1>1, NetInvariance, PTL
=============================================================================
