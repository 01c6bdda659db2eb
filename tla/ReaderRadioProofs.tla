------------------------- MODULE ReaderRadioProofs -------------------------
(***************************************************************************)
(* Proofs about ReaderRadio, for every ring size, set of packets and bound *)
(* on the count: the positions and the count of the ring agree at every    *)
(* interrupt and in the middle of every copy, after an overrun too.        *)
(***************************************************************************)
EXTENDS ReaderRadio, Integers, SequenceLemmas

MAX == RADIO_MAX_PKT_BUFFERS

(* The packets that no copy has been begun of. *)
Unread == g_pkt_count - (IF pc \in {"copy", "release"} THEN 1 ELSE 0)

(* Only the proximity reader copies with interrupts enabled, and only a     *)
(* packet that counts.                                                      *)
CopyInv == pc \in {"copy", "release"} => firmware = "prox" /\ g_pkt_count > 0

WaitingOK == waiting \in Seq(Buffers \cup {Any})

Inv == TypeOK /\ WaitingOK /\ CopyInv /\ RingInv

-----------------------------------------------------------------------------
(* One more moves the remainder as the code moves a position. *)
LEMMA RemainderOfSuccessor ==
  ASSUME NEW a \in Int
  PROVE  (a + 1) % MAX = Wrap((a % MAX) + 1)
<1> DEFINE n == MAX
           d == a \div n
           m == a % n
<1>1. n \in Nat \ {0}
  BY ReaderRadioAssumption DEF MAX
<1>2. a = n * d + m /\ m \in 0 .. n - 1 /\ d \in Int
  BY <1>1, DivMod
<1>3. (a + 1) % n = IF m + 1 >= n THEN 0 ELSE m + 1
  <2> HIDE DEF n, d, m
  <2>1. CASE m + 1 >= n
    <3>1. a + 1 = n * (d + 1) + 0
      BY <1>1, <1>2, <2>1
    <3>2. 0 \in 0 .. n - 1 /\ d + 1 \in Int /\ a + 1 \in Int
      BY <1>1, <1>2
    <3>3. QED
      BY <1>1, <3>1, <3>2, <2>1, RemainderIsUnique
  <2>2. CASE ~(m + 1 >= n)
    <3>1. a + 1 = n * d + (m + 1) /\ m + 1 \in 0 .. n - 1 /\ a + 1 \in Int
      BY <1>1, <1>2, <2>2
    <3>2. QED
      BY <1>1, <1>2, <3>1, <2>2, RemainderIsUnique
  <2>3. QED
    BY <2>1, <2>2
<1>4. QED
  BY <1>3 DEF Wrap, MAX

(* A whole turn of the ring does not move it. *)
LEMMA RemainderOfTurn ==
  ASSUME NEW a \in Int
  PROVE  (a - MAX) % MAX = a % MAX
<1> DEFINE n == MAX
           d == a \div n
           m == a % n
<1>1. n \in Nat \ {0}
  BY ReaderRadioAssumption DEF MAX
<1>2. a = n * d + m /\ m \in 0 .. n - 1 /\ d \in Int
  BY <1>1, DivMod
<1> HIDE DEF n, d, m
<1>3. a - n = n * (d - 1) + m /\ d - 1 \in Int /\ a - n \in Int
  BY <1>1, <1>2
<1>4. (a - n) % n = m
  BY <1>1, <1>2, <1>3, RemainderIsUnique
<1>5. QED
  BY <1>4 DEF n, m

(* A position stays in the ring when it is moved. *)
LEMMA WrapIsSlot ==
  ASSUME NEW s \in Slots
  PROVE  Wrap(s + 1) \in Slots
  BY ReaderRadioAssumption DEF Slots, Wrap

-----------------------------------------------------------------------------
(* The ring is empty initially. *)
LEMMA InvInit ==
  ASSUME Init
  PROVE  Inv
<1>1. 0 \in Slots /\ Zeros \in Buffers
  BY ReaderRadioAssumption DEF Slots, Zeros, Buffers
<1>2. TypeOK
  BY <1>1 DEF Init, TypeOK
<1>3. WaitingOK /\ CopyInv
  BY DEF Init, WaitingOK, CopyInv
<1>4. RingInv
  <2>1. 0 % RADIO_MAX_PKT_BUFFERS = 0
    <3>1. /\ RADIO_MAX_PKT_BUFFERS \in Nat \ {0}
          /\ 0 \in 0 .. RADIO_MAX_PKT_BUFFERS - 1
      BY ReaderRadioAssumption
    <3>2. 0 = RADIO_MAX_PKT_BUFFERS * 0 + 0
      BY <3>1
    <3>3. QED
      BY <3>1, <3>2, RemainderIsUnique
  <2>2. QED
    BY <2>1, ReaderRadioAssumption DEF Init, RingInv
<1>5. QED
  BY <1>2, <1>3, <1>4 DEF Inv

(* What RingInv and CopyInv say, with the packets no copy has been begun of. *)
LEMMA RingFacts ==
  ASSUME Inv
  PROVE  /\ Unread \in Nat
         /\ (g_pkt_pos_rd + Unread) % MAX = g_pkt_pos_wr
         /\ Len(waiting) = g_pkt_count
         /\ firmware = "prox" => g_pkt_count <= MAX
  BY DEF Inv, TypeOK, CopyInv, RingInv, Unread, MAX

(* A step that leaves ring, list and copy alone leaves their invariants. *)
LEMMA RingKept ==
  ASSUME Inv, UNCHANGED <<firmware, g_pkt_pos_wr, g_pkt_pos_rd, g_pkt_count,
                          waiting>>,
         pc' \in {"copy", "release"} <=> pc \in {"copy", "release"}
  PROVE  WaitingOK' /\ CopyInv' /\ RingInv'
  BY DEF Inv, WaitingOK, CopyInv, RingInv

(* What is on the air, and what of it is held to anything, are buffers. *)
LEMMA ItemIsBuffer ==
  ASSUME NEW item \in Buffers
  PROVE  View(item) \in Buffers
  BY DEF View, Buffers

(* The receiver names a slot, writes into it and, over a full ring, marks   *)
(* the oldest packet.                                                       *)
LEMMA AddressInv ==
  ASSUME Inv, NEW p \in Packets, Address(p)
  PROVE  Inv'
<1>1. TypeOK'
  <2>1. dma' \in [slot : Slots, pkt : Packets \cup {Blank}, clean : BOOLEAN]
    BY DEF Inv, TypeOK, Address
  <2>2. g_pkt' \in [Slots -> Buffers]
    <3>1. [g_pkt[dma.slot] EXCEPT !.buf = Torn] \in Buffers
      BY DEF Inv, TypeOK, Buffers
    <3>2. g_pkt' = [g_pkt EXCEPT ![dma.slot] =
                      [g_pkt[dma.slot] EXCEPT !.buf = Torn]]
      BY DEF Address
    <3>3. QED
      BY <3>1, <3>2 DEF Inv, TypeOK
  <2>3. hit' \in BOOLEAN /\ radio' = "address"
    BY DEF Address
  <2>4. UNCHANGED <<firmware, g_pkt_pos_wr, g_pkt_pos_rd, g_pkt_count, g_rssi,
                    events, pc, copy, output, wakeup>>
    BY DEF Address, main
  <2>5. QED
    BY <2>1, <2>2, <2>3, <2>4 DEF Inv, TypeOK
<1>2. waiting' \in Seq(Buffers \cup {Any}) /\ Len(waiting') = Len(waiting)
  BY DEF Inv, WaitingOK, Address
<1>3. UNCHANGED <<firmware, g_pkt_pos_wr, g_pkt_pos_rd, g_pkt_count, pc>>
  BY DEF Address, main
<1>4. QED
  BY <1>1, <1>2, <1>3 DEF Inv, WaitingOK, CopyInv, RingInv

(* The other steps of the receiver write at most into the slot of the      *)
(* reception.                                                               *)
LEMMA RadioInv ==
  ASSUME Inv, Radio
  PROVE  Inv'
<1>1. /\ UNCHANGED <<firmware, g_pkt_pos_wr, g_pkt_pos_rd, g_pkt_count, g_rssi,
                      pc, copy, output, waiting, hit>>
      /\ radio' \in {"off", "rampup", "listen", "address", "payload", "crc",
                      "disabled"}
      /\ wakeup' \in BOOLEAN
  BY DEF Inv, TypeOK, Radio, PowerClockIrq, Ready, RssiEnd, PayloadEnd, End,
         ring, air, main, ghost
<1>2. events' \subseteq {"RSSIEND", "PAYLOAD", "END"}
  BY DEF Inv, TypeOK, Radio, PowerClockIrq, Ready, RssiEnd, PayloadEnd, End
<1>3. dma' \in [slot : Slots, pkt : Packets \cup {Blank}, clean : BOOLEAN]
  BY DEF Inv, TypeOK, Radio, PowerClockIrq, Ready, RssiEnd, PayloadEnd, End, air
<1>4. g_pkt' \in [Slots -> Buffers]
  <2>1. CASE PayloadEnd
    <3> DEFINE b == IF dma.clean THEN dma.pkt ELSE Torn
    <3>1. [g_pkt[dma.slot] EXCEPT !.buf = b] \in Buffers
      BY DEF Inv, TypeOK, Buffers
    <3>2. g_pkt' = [g_pkt EXCEPT ![dma.slot] =
                      [g_pkt[dma.slot] EXCEPT !.buf = b]]
      BY <2>1 DEF PayloadEnd
    <3>3. QED
      BY <3>1, <3>2 DEF Inv, TypeOK
  <2>2. CASE PowerClockIrq \/ Ready \/ RssiEnd \/ End
    BY <2>2 DEF Inv, TypeOK, PowerClockIrq, Ready, RssiEnd, End, ring
  <2>3. QED
    BY <2>1, <2>2 DEF Radio
<1>5. TypeOK'
  BY <1>1, <1>2, <1>3, <1>4 DEF Inv, TypeOK
<1>6. WaitingOK' /\ CopyInv' /\ RingInv'
  BY <1>1, RingKept
<1>7. QED
  BY <1>5, <1>6 DEF Inv

(* A packet that is accepted takes the next slot and is counted; over a     *)
(* full ring the BLE reader counts it all the same.                         *)
LEMMA AcceptInv ==
  ASSUME Inv, NEW free \in BOOLEAN, Accept(free),
         firmware = "prox" => ~Full, UNCHANGED <<firmware, pc>>
  PROVE  /\ g_pkt' \in [Slots -> Buffers]
         /\ g_pkt_pos_wr' \in Slots /\ g_pkt_pos_rd' \in Slots
         /\ g_pkt_count' \in Nat
         /\ hit' \in BOOLEAN
         /\ WaitingOK' /\ CopyInv' /\ RingInv'
<1>1. g_pkt' \in [Slots -> Buffers]
  <2>1. [g_pkt[g_pkt_pos_wr] EXCEPT !.rssi = g_rssi] \in Buffers
    BY DEF Inv, TypeOK, Buffers
  <2>2. g_pkt' = [g_pkt EXCEPT ![g_pkt_pos_wr] =
                    [g_pkt[g_pkt_pos_wr] EXCEPT !.rssi = g_rssi]]
    BY DEF Accept
  <2>3. QED
    BY <2>1, <2>2 DEF Inv, TypeOK
<1>2. /\ g_pkt_pos_wr' = Wrap(g_pkt_pos_wr + 1)
      /\ g_pkt_pos_rd' = g_pkt_pos_rd
      /\ g_pkt_count' = g_pkt_count + 1
  BY DEF Accept
<1>3. g_pkt_pos_wr' \in Slots /\ g_pkt_pos_rd' \in Slots /\ g_pkt_count' \in Nat
  BY <1>2, WrapIsSlot DEF Inv, TypeOK
<1>4. hit' \in BOOLEAN
  BY DEF Accept, Inv, TypeOK
<1>5. waiting' \in Seq(Buffers \cup {Any}) /\ Len(waiting') = Len(waiting) + 1
  <2> DEFINE item == View([buf |-> dma.pkt, rssi |-> dma.pkt])
             added == IF hit THEN Any ELSE item
             lost == [i \in 1 .. Len(waiting) + 1 |-> Any]
  <2>1. [buf |-> dma.pkt, rssi |-> dma.pkt] \in Buffers
    BY DEF Inv, TypeOK, Buffers
  <2>2. added \in Buffers \cup {Any}
    BY <2>1, ItemIsBuffer
  <2>3. Len(waiting) + 1 \in Nat /\ waiting \in Seq(Buffers \cup {Any})
    BY DEF Inv, WaitingOK
  <2>4. lost \in Seq(Buffers \cup {Any}) /\ Len(lost) = Len(waiting) + 1
    BY <2>3, FunctionIsSeq
  <2>5. waiting' = IF free THEN Append(waiting, added) ELSE lost
    BY DEF Accept
  <2> HIDE DEF added, lost
  <2>6. QED
    BY <2>2, <2>3, <2>4, <2>5
<1>6. RingInv'
  <2>1. Unread' = Unread + 1
    BY <1>2 DEF Unread, Inv, TypeOK
  <2>2. (g_pkt_pos_rd' + Unread') = (g_pkt_pos_rd + Unread) + 1
    BY <1>2, <2>1, RingFacts DEF Inv, TypeOK, Slots
  <2>3. (g_pkt_pos_rd' + Unread') % MAX = g_pkt_pos_wr'
    <3>1. g_pkt_pos_rd + Unread \in Int
      BY RingFacts DEF Inv, TypeOK, Slots
    <3>2. ((g_pkt_pos_rd + Unread) + 1) % MAX = Wrap(g_pkt_pos_wr + 1)
      BY <3>1, RingFacts, RemainderOfSuccessor
    <3>3. QED
      BY <3>2, <2>2, <1>2
  <2>4. Len(waiting') = g_pkt_count'
    BY <1>2, <1>5, RingFacts
  <2>5. firmware' = "prox" => g_pkt_count' <= MAX
    BY <1>2, RingFacts, ReaderRadioAssumption DEF Full, MAX, Inv, TypeOK
  <2>6. QED
    BY <2>3, <2>4, <2>5 DEF RingInv, Unread, MAX
<1>7. CopyInv'
  BY <1>2 DEF Inv, TypeOK, CopyInv
<1>8. QED
  BY <1>1, <1>3, <1>4, <1>5, <1>6, <1>7 DEF WaitingOK

(* The interrupt handler. *)
LEMMA RadioIrqInv ==
  ASSUME Inv, RadioIrq
  PROVE  Inv'
<1>1. UNCHANGED <<firmware, dma, pc, copy, output>>
  BY DEF RadioIrq, main
<1>2. /\ events' \subseteq {"RSSIEND", "PAYLOAD", "END"}
      /\ g_rssi' \in Packets \cup {Blank}
      /\ wakeup' \in BOOLEAN
      /\ radio' \in {"off", "rampup", "listen", "address", "payload", "crc",
                      "disabled"}
  BY DEF RadioIrq, Inv, TypeOK
<1>3. /\ g_pkt' \in [Slots -> Buffers]
      /\ g_pkt_pos_wr' \in Slots /\ g_pkt_pos_rd' \in Slots
      /\ g_pkt_count' \in Nat
      /\ hit' \in BOOLEAN
      /\ WaitingOK' /\ CopyInv' /\ RingInv'
  <2>1. CASE UNCHANGED <<ring, ghost>>
    <3>1. UNCHANGED <<g_pkt, g_pkt_pos_wr, g_pkt_pos_rd, g_pkt_count, waiting,
                      hit>>
      BY <2>1 DEF ring, ghost
    <3>2. QED
      BY <3>1, <1>1, RingKept DEF Inv, TypeOK
  <2>2. CASE Accept(~Full) /\ (firmware = "prox" => ~Full)
    BY <2>2, <1>1, AcceptInv
  <2>3. QED
    BY <2>1, <2>2 DEF RadioIrq, PayloadServed
<1>4. TypeOK'
  BY <1>1, <1>2, <1>3 DEF Inv, TypeOK
<1>5. QED
  BY <1>3, <1>4 DEF Inv

-----------------------------------------------------------------------------
(* The read position moves past one packet, of which a copy begins or which *)
(* is not counted any more.                                                 *)
LEMMA ReadPosition ==
  ASSUME Inv, Unread > 0, g_pkt_pos_rd' = Wrap(g_pkt_pos_rd + 1),
         Unread' = Unread - 1, UNCHANGED g_pkt_pos_wr
  PROVE  (g_pkt_pos_rd' + Unread') % MAX = g_pkt_pos_wr'
<1>1. g_pkt_pos_rd \in 0 .. MAX - 1 /\ MAX \in Nat \ {0}
  BY ReaderRadioAssumption DEF Inv, TypeOK, Slots, MAX
<1> DEFINE sum == g_pkt_pos_rd + Unread
<1>2. sum \in Int /\ sum % MAX = g_pkt_pos_wr
  BY <1>1, RingFacts
<1>3. g_pkt_pos_rd' + Unread' = sum \/ g_pkt_pos_rd' + Unread' = sum - MAX
  BY <1>1, RingFacts DEF Wrap, MAX
<1> HIDE DEF sum
<1>4. QED
  BY <1>2, <1>3, RemainderOfTurn

(* radio_rx begins a copy: the packet counts, and is not unread any more.   *)
LEMMA FetchInv ==
  ASSUME Inv, Fetch
  PROVE  Inv'
<1>1. /\ firmware = "prox" /\ pc = "check" /\ g_pkt_count > 0
      /\ g_pkt_pos_rd' = Wrap(g_pkt_pos_rd + 1)
      /\ copy' = g_pkt[g_pkt_pos_rd]
      /\ pc' = "copy"
      /\ UNCHANGED <<firmware, g_pkt, g_pkt_pos_wr, g_pkt_count, g_rssi, radio,
                      dma, events, output, wakeup, waiting, hit>>
  BY DEF Fetch, air, ghost
<1>2. TypeOK'
  <2>1. g_pkt_pos_rd' \in Slots /\ copy' \in Buffers
    BY <1>1, WrapIsSlot DEF Inv, TypeOK
  <2>2. QED
    BY <1>1, <2>1 DEF Inv, TypeOK
<1>3. Unread > 0 /\ Unread' = Unread - 1
  BY <1>1 DEF Unread, Inv, TypeOK
<1>4. (g_pkt_pos_rd' + Unread') % MAX = g_pkt_pos_wr'
  BY <1>1, <1>3, ReadPosition
<1>5. RingInv'
  BY <1>1, <1>4, RingFacts DEF RingInv, Unread, MAX
<1>6. WaitingOK' /\ CopyInv'
  BY <1>1 DEF Inv, WaitingOK, CopyInv
<1>7. QED
  BY <1>2, <1>5, <1>6 DEF Inv

(* The copy goes on. *)
LEMMA CopiedInv ==
  ASSUME Inv, Copied
  PROVE  Inv'
<1> DEFINE from == g_pkt[Source]
           b == IF copy.buf = from.buf THEN from.buf ELSE Torn
<1>1. /\ pc = "copy" /\ pc' = "release"
      /\ copy' = [from EXCEPT !.buf = b]
      /\ UNCHANGED <<firmware, g_pkt, g_pkt_pos_wr, g_pkt_pos_rd, g_pkt_count,
                      g_rssi, radio, dma, events, output, wakeup, waiting, hit>>
  BY DEF Copied, ring, air, ghost
<1>2. copy' \in Buffers
  <2>1. Source \in Slots
    BY ReaderRadioAssumption DEF Inv, TypeOK, Slots, Source
  <2>2. from \in Buffers
    BY <2>1 DEF Inv, TypeOK
  <2> HIDE DEF from
  <2>3. b \in Packets \cup {Blank, Torn}
    BY <2>2 DEF Buffers
  <2>4. QED
    BY <1>1, <2>2, <2>3 DEF Buffers
<1>3. TypeOK'
  BY <1>1, <1>2 DEF Inv, TypeOK
<1>4. WaitingOK' /\ CopyInv' /\ RingInv'
  BY <1>1, RingKept
<1>5. QED
  BY <1>3, <1>4 DEF Inv

(* The list loses its oldest packet when one is handed out. *)
LEMMA TailOfWaiting ==
  ASSUME Inv, g_pkt_count > 0, waiting' = Tail(waiting)
  PROVE  WaitingOK' /\ Len(waiting') = g_pkt_count - 1
<1>1. Len(waiting) = g_pkt_count /\ waiting \in Seq(Buffers \cup {Any})
  BY RingFacts DEF Inv, WaitingOK
<1>2. waiting # <<>>
  BY <1>1
<1>3. QED
  BY <1>1, <1>2 DEF WaitingOK

(* The packet is returned and not counted any more. *)
LEMMA ReleaseInv ==
  ASSUME Inv, Release
  PROVE  Inv'
<1>1. /\ pc = "release" /\ pc' = "print"
      /\ output' = copy
      /\ g_pkt_count' = g_pkt_count - 1
      /\ waiting' = Tail(waiting)
      /\ UNCHANGED <<firmware, g_pkt, g_pkt_pos_wr, g_pkt_pos_rd, g_rssi, radio,
                      dma, events, copy, wakeup, hit>>
  BY DEF Release, HandOut
<1>2. g_pkt_count > 0 /\ firmware = "prox" /\ g_pkt_count \in Nat
  BY <1>1 DEF Inv, TypeOK, CopyInv
<1>3. TypeOK'
  <2>1. g_pkt_count' \in Nat
    BY <1>1, <1>2
  <2>2. QED
    BY <1>1, <2>1 DEF Inv, TypeOK
<1>4. Unread' = Unread
  BY <1>1, <1>2 DEF Unread
<1>5. RingInv'
  <2>1. (g_pkt_pos_rd' + Unread') % MAX = g_pkt_pos_wr'
    BY <1>1, <1>4, RingFacts
  <2>2. Len(waiting') = g_pkt_count'
    BY <1>1, <1>2, TailOfWaiting
  <2>3. firmware' = "prox" => g_pkt_count' <= MAX
    BY <1>1, <1>2, RingFacts, ReaderRadioAssumption DEF MAX
  <2>4. QED
    BY <2>1, <2>2, <2>3 DEF RingInv, Unread, MAX
<1>6. CopyInv'
  BY <1>1 DEF CopyInv
<1>7. QED
  BY <1>1, <1>2, <1>3, <1>5, <1>6, TailOfWaiting DEF Inv

(* The BLE reader returns and clears a packet in one step. *)
LEMMA FetchAndClearInv ==
  ASSUME Inv, FetchAndClear
  PROVE  Inv'
<1> DEFINE racing == OnAir /\ dma.slot = g_pkt_pos_rd
           left == IF racing THEN [Zeros EXCEPT !.buf = Torn] ELSE Zeros
           whole == dma.clean /\ ~racing
<1>1. /\ g_pkt' = [g_pkt EXCEPT ![g_pkt_pos_rd] = left]
      /\ dma' = [dma EXCEPT !.clean = whole]
  BY Zenon DEF FetchAndClear
<1>2. left \in Buffers
  BY DEF Zeros, Buffers
<1>3. whole \in BOOLEAN
  BY Zenon
<1> HIDE DEF left, whole
<1>4. /\ firmware = "ble" /\ pc = "check" /\ g_pkt_count > 0
      /\ HandOut(g_pkt[g_pkt_pos_rd])
      /\ g_pkt_pos_rd' = Wrap(g_pkt_pos_rd + 1)
      /\ UNCHANGED <<copy, hit>>
  BY Zenon DEF FetchAndClear
<1>5. /\ pc' = "print"
      /\ output' = g_pkt[g_pkt_pos_rd]
      /\ g_pkt_count' = g_pkt_count - 1
      /\ waiting' = Tail(waiting)
      /\ UNCHANGED <<firmware, g_pkt_pos_wr, g_rssi, radio, events, wakeup>>
  BY <1>4 DEF HandOut
<1>6. TypeOK'
  <2>1. dma' \in [slot : Slots, pkt : Packets \cup {Blank}, clean : BOOLEAN]
    BY <1>1, <1>3 DEF Inv, TypeOK
  <2>2. g_pkt' \in [Slots -> Buffers] /\ output' \in Buffers
    BY <1>1, <1>2, <1>5 DEF Inv, TypeOK
  <2>3. g_pkt_pos_rd' \in Slots /\ g_pkt_count' \in Nat
    BY <1>4, <1>5, WrapIsSlot DEF Inv, TypeOK
  <2>4. QED
    BY <1>4, <1>5, <2>1, <2>2, <2>3 DEF Inv, TypeOK
<1>7. Unread > 0 /\ Unread' = Unread - 1
  BY <1>4, <1>5 DEF Unread, Inv, TypeOK
<1>8. (g_pkt_pos_rd' + Unread') % MAX = g_pkt_pos_wr'
  BY <1>4, <1>5, <1>7, ReadPosition
<1>9. RingInv'
  BY <1>4, <1>5, <1>8, TailOfWaiting DEF RingInv, Unread, MAX
<1>10. WaitingOK' /\ CopyInv'
  BY <1>4, <1>5, TailOfWaiting DEF CopyInv
<1>11. QED
  BY <1>6, <1>9, <1>10 DEF Inv

(* The steps of the main loop outside radio_rx. *)
LEMMA LoopInv ==
  ASSUME Inv, NothingReceived \/ Wfe \/ Printed
  PROVE  Inv'
<1>1. /\ UNCHANGED <<firmware, g_pkt, g_pkt_pos_wr, g_pkt_pos_rd, g_pkt_count,
                      g_rssi, radio, dma, events, copy, output, waiting, hit>>
      /\ wakeup' \in BOOLEAN
      /\ pc \notin {"copy", "release"} /\ pc' \in {"check", "sleep"}
  BY DEF Inv, TypeOK, NothingReceived, Wfe, Printed, ring, air, ghost
<1>2. TypeOK'
  BY <1>1 DEF Inv, TypeOK
<1>3. WaitingOK' /\ CopyInv' /\ RingInv'
  BY <1>1, RingKept
<1>4. QED
  BY <1>2, <1>3 DEF Inv

-----------------------------------------------------------------------------
(* Every step keeps the invariant. *)
LEMMA InvNext ==
  ASSUME Inv, [Next]_vars
  PROVE  Inv'
<1>1. CASE \E p \in Packets : Address(p)
  BY <1>1, AddressInv
<1>2. CASE Radio
  BY <1>2, RadioInv
<1>3. CASE RadioIrq
  BY <1>3, RadioIrqInv
<1>4. CASE Main
  BY <1>4, LoopInv, FetchInv, CopiedInv, ReleaseInv, FetchAndClearInv DEF Main
<1>5. CASE UNCHANGED vars
  <2>1. UNCHANGED <<firmware, g_pkt, g_pkt_pos_wr, g_pkt_pos_rd, g_pkt_count,
                    g_rssi, radio, dma, events, pc, copy, output, wakeup,
                    waiting, hit>>
    BY <1>5 DEF vars, ring, air, main, ghost
  <2>2. WaitingOK' /\ CopyInv' /\ RingInv'
    BY <2>1, RingKept
  <2>3. TypeOK'
    BY <2>1 DEF Inv, TypeOK
  <2>4. QED
    BY <2>2, <2>3 DEF Inv
<1>6. QED
  BY <1>1, <1>2, <1>3, <1>4, <1>5 DEF Next

(* The positions, the count and the packets that wait agree at every        *)
(* interrupt and inside every copy, also after the BLE reader has counted   *)
(* packets beyond its slots; the proximity reader never does that           *)
(* (radio.c 70-91 and 105-130).  Every variable stays in its range.         *)
THEOREM RingOfReaders == Spec => [](TypeOK /\ RingInv)
<1>1. Inv => TypeOK /\ RingInv
  BY DEF Inv
<1>2. QED
  BY InvInit, InvNext, <1>1, PTL DEF Spec

(* Every variable of the receive ring stays in its range, overruns          *)
(* included.                                                                *)
THEOREM TypesOfTheReaders == Spec => []TypeOK
  BY RingOfReaders, PTL

-----------------------------------------------------------------------------
(* The slot of the i-th oldest packet that counts, as long as every one of  *)
(* them has a slot of its own.                                              *)
SlotOf(i) ==
  LET s == g_pkt_pos_wr - g_pkt_count + i - 1
  IN IF s >= 0 THEN s ELSE s + MAX

(* A packet is in its slot as it was accepted, unless an overrun destroyed  *)
(* it: all of them, when the BLE reader counts more than it has slots.  The *)
(* copy in progress is true so far.                                         *)
ContentInv ==
  /\ g_pkt_count <= MAX =>
       \A i \in 1 .. g_pkt_count :
         waiting[i] = Any \/ waiting[i] = View(g_pkt[SlotOf(i)])
  /\ g_pkt_count > MAX => \A i \in 1 .. g_pkt_count : waiting[i] = Any
  /\ pc \in {"copy", "release"} => waiting[1] = Any \/ waiting[1] = copy

(* The receiver writes into the slot behind the packets that count; over a  *)
(* full ring that is the oldest of them.                                    *)
AirInv ==
  /\ radio \in {"off", "rampup", "listen", "address"} => events = {}
  /\ radio = "payload" => events \subseteq {"RSSIEND"}
  /\ radio \in {"listen", "address", "payload"} \/ "PAYLOAD" \in events =>
       dma.slot = g_pkt_pos_wr
  /\ OnAir /\ Full => waiting[1] = Any

(* A packet that did not begin over a full ring is whole when its interrupt *)
(* comes, and the proximity reader then has its RSSI.                       *)
ItemInv ==
  /\ OnAir /\ ~hit => dma.clean
  /\ "PAYLOAD" \in events /\ ~hit => g_pkt[g_pkt_pos_wr].buf = dma.pkt
  /\ (OnAir \/ "PAYLOAD" \in events) /\ ~hit /\ firmware = "ble" => ~Full
  /\ firmware = "prox" =>
       /\ ~hit
       /\ \/ radio = "payload" /\ "RSSIEND" \notin events
          \/ "PAYLOAD" \in events
          => g_rssi = dma.pkt

ItemsInv == ContentInv /\ AirInv /\ ItemInv

(* Ring, list and count, with the size of the ring as MAX. *)
LEMMA CountFacts ==
  ASSUME Inv
  PROVE  /\ MAX \in Nat \ {0} /\ Slots = 0 .. MAX - 1
         /\ g_pkt_pos_wr \in 0 .. MAX - 1 /\ g_pkt_pos_rd \in 0 .. MAX - 1
         /\ g_pkt_count \in Nat
         /\ Len(waiting) = g_pkt_count /\ waiting \in Seq(Buffers \cup {Any})
         /\ firmware = "prox" => g_pkt_count <= MAX
         /\ Full <=> g_pkt_count >= MAX
         /\ firmware \in {"prox", "ble"}
  BY RingFacts, ReaderRadioAssumption
     DEF Inv, TypeOK, WaitingOK, Slots, MAX, Full

(* Its numbers alone. *)
LEMMA RangeFacts ==
  ASSUME Inv
  PROVE  /\ MAX \in Nat \ {0}
         /\ g_pkt_pos_wr \in 0 .. MAX - 1 /\ g_pkt_pos_rd \in 0 .. MAX - 1
         /\ g_pkt_count \in Nat
  BY CountFacts

(* Only a full ring has the slot at the write position in use.              *)
LEMMA SlotFacts ==
  ASSUME Inv, g_pkt_count <= MAX, NEW i \in 1 .. g_pkt_count
  PROVE  /\ SlotOf(i) \in Slots
         /\ g_pkt_count < MAX \/ i # 1 => SlotOf(i) # g_pkt_pos_wr
         /\ i # 1 => SlotOf(i) # SlotOf(1)
<1>1. SlotOf(i) \in Slots
  BY CountFacts DEF SlotOf
<1>2. g_pkt_count < MAX \/ i # 1 => SlotOf(i) # g_pkt_pos_wr
  BY RangeFacts DEF SlotOf
<1>3. i # 1 => SlotOf(i) # SlotOf(1)
  BY RangeFacts DEF SlotOf
<1>4. QED
  BY <1>1, <1>2, <1>3

(* The oldest packet is where the code reads it. *)
LEMMA OldestSlot ==
  ASSUME Inv, g_pkt_count > 0, g_pkt_count <= MAX
  PROVE  SlotOf(1) = IF pc \in {"copy", "release"} THEN Source ELSE g_pkt_pos_rd
<1> DEFINE sum == g_pkt_pos_rd + Unread
<1>1. /\ Unread \in 0 .. MAX
      /\ Unread = IF pc \in {"copy", "release"} THEN g_pkt_count - 1
                                                ELSE g_pkt_count
  BY CountFacts, RingFacts DEF Unread
<1>2. sum \in Nat /\ sum < MAX + MAX /\ sum % MAX = g_pkt_pos_wr
  <2>1. sum \in Nat /\ sum < MAX + MAX
    BY <1>1, RangeFacts
  <2>2. sum % MAX = g_pkt_pos_wr
    BY RingFacts
  <2>3. QED
    BY <2>1, <2>2
<1> HIDE DEF sum
<1>3. g_pkt_pos_wr = IF sum < MAX THEN sum ELSE sum - MAX
  BY <1>2, RangeFacts, SmallRemainder
<1>4. CASE pc \in {"copy", "release"}
  <2>1. sum = g_pkt_pos_rd + g_pkt_count - 1
    BY <1>1, <1>4, RangeFacts DEF sum
  <2>2. Source = IF g_pkt_pos_rd = 0 THEN MAX - 1 ELSE g_pkt_pos_rd - 1
    BY DEF Source, MAX
  <2>3. SlotOf(1) = Source
    BY <1>3, <2>1, <2>2, RangeFacts DEF SlotOf
  <2>4. QED
    BY <1>4, <2>3
<1>5. CASE ~(pc \in {"copy", "release"})
  <2>1. sum = g_pkt_pos_rd + g_pkt_count
    BY <1>1, <1>5 DEF sum
  <2>2. SlotOf(1) = g_pkt_pos_rd
    BY <1>3, <2>1, RangeFacts DEF SlotOf
  <2>3. QED
    BY <1>5, <2>2
<1>6. QED
  BY <1>4, <1>5

(* Packets stay true when at most some of them are given up and the others  *)
(* keep their slots.                                                        *)
LEMMA ContentKept ==
  ASSUME Inv, ContentInv,
         UNCHANGED <<firmware, g_pkt_pos_wr, g_pkt_count>>,
         \A i \in 1 .. g_pkt_count :
           \/ waiting'[i] = Any
           \/ /\ waiting'[i] = waiting[i]
              /\ g_pkt_count <= MAX => g_pkt'[SlotOf(i)] = g_pkt[SlotOf(i)]
  PROVE  /\ g_pkt_count' <= MAX =>
              \A i \in 1 .. g_pkt_count' :
                waiting'[i] = Any \/ waiting'[i] = View(g_pkt[SlotOf(i)])'
         /\ g_pkt_count' > MAX =>
              \A i \in 1 .. g_pkt_count' : waiting'[i] = Any
<1>1. \A i : SlotOf(i)' = SlotOf(i)
  BY DEF SlotOf
<1>2. ASSUME g_pkt_count <= MAX, NEW i \in 1 .. g_pkt_count, waiting'[i] # Any
      PROVE  waiting'[i] = View(g_pkt[SlotOf(i)])'
  <2>1. waiting[i] = View(g_pkt[SlotOf(i)])
    BY <1>2 DEF ContentInv
  <2>2. g_pkt'[SlotOf(i)'] = g_pkt[SlotOf(i)]
    BY <1>1, <1>2
  <2>3. QED
    BY <1>2, <2>1, <2>2 DEF View
<1>3. QED
  BY <1>1, <1>2 DEF ContentInv

-----------------------------------------------------------------------------
(* Nothing waits initially. *)
LEMMA ItemsInit ==
  ASSUME Init
  PROVE  ItemsInv
<1>1. g_pkt_count = 0 /\ pc = "check"
  BY DEF Init
<1>2. ContentInv
  BY <1>1, ReaderRadioAssumption DEF ContentInv, MAX
<1>3. AirInv /\ ItemInv
  BY DEF Init, AirInv, ItemInv, OnAir
<1>4. QED
  BY <1>2, <1>3 DEF ItemsInv

(* A packet begins: over a full ring in the slot of the oldest, which is    *)
(* given up, otherwise in a slot that holds none.                           *)
LEMMA AddressKeepsItems ==
  ASSUME Inv, ItemsInv, NEW p \in Packets, Address(p)
  PROVE  ItemsInv'
<1>1. /\ radio = "listen" /\ radio' = "address" /\ events = {}
      /\ dma.slot = g_pkt_pos_wr
      /\ waiting' = IF Full THEN [waiting EXCEPT ![1] = Any] ELSE waiting
      /\ hit' = (Full /\ firmware = "ble")
      /\ UNCHANGED <<firmware, g_pkt_pos_wr, g_pkt_count, events, pc, copy>>
  BY DEF Address, ItemsInv, AirInv, main
<1>2. \A s \in Slots : s # g_pkt_pos_wr => g_pkt'[s] = g_pkt[s]
  BY <1>1 DEF Address, Inv, TypeOK
<1>3. dma' = [dma EXCEPT !.pkt = p, !.clean = TRUE]
  BY DEF Address
<1>4. /\ dma'.slot = dma.slot /\ dma'.clean
  BY <1>3 DEF Inv, TypeOK
<1>5. Full => g_pkt_count > 0 /\ waiting'[1] = Any
  BY <1>1, CountFacts
<1>6. ASSUME NEW i \in 1 .. g_pkt_count
      PROVE  \/ waiting'[i] = Any
             \/ /\ waiting'[i] = waiting[i]
                /\ g_pkt_count <= MAX => g_pkt'[SlotOf(i)] = g_pkt[SlotOf(i)]
  <2>1. CASE Full /\ i = 1
    BY <1>5, <2>1
  <2>2. CASE ~(Full /\ i = 1)
    <3>1. waiting'[i] = waiting[i]
      BY <1>1, <2>2, CountFacts
    <3>2. g_pkt_count <= MAX => SlotOf(i) \in Slots /\ SlotOf(i) # g_pkt_pos_wr
      BY <2>2, SlotFacts, CountFacts
    <3>3. QED
      BY <3>1, <3>2, <1>2
  <2>3. QED
    BY <2>1, <2>2
<1>7. ContentInv'
  <2>1. pc' \in {"copy", "release"} => waiting'[1] = Any \/ waiting'[1] = copy'
    <3>1. pc \in {"copy", "release"} => 1 \in 1 .. g_pkt_count
      BY CountFacts DEF Inv, CopyInv
    <3>2. QED
      BY <1>1, <1>6, <3>1 DEF ItemsInv, ContentInv
  <2>2. QED
    BY <1>1, <1>6, <2>1, ContentKept DEF ItemsInv, ContentInv, MAX
<1>8. Full' = Full
  BY <1>1 DEF Full
<1>9. AirInv' /\ ItemInv'
  BY <1>1, <1>4, <1>5, <1>8, CountFacts DEF AirInv, ItemInv, OnAir
<1>10. QED
  BY <1>7, <1>9 DEF ItemsInv

(* The last of a packet reaches its slot, which still is behind those that  *)
(* count or over the oldest of a full ring.                                 *)
LEMMA PayloadEndKeepsItems ==
  ASSUME Inv, ItemsInv, PayloadEnd
  PROVE  ItemsInv'
<1>1. /\ radio = "payload" /\ radio' = "crc" /\ OnAir
      /\ dma.slot = g_pkt_pos_wr
      /\ firmware = "prox" => "RSSIEND" \notin events
      /\ events' = events \cup {"PAYLOAD"}
      /\ UNCHANGED <<firmware, g_pkt_pos_wr, g_pkt_pos_rd, g_pkt_count, g_rssi,
                      dma, pc, copy, waiting, hit>>
  BY DEF PayloadEnd, ItemsInv, AirInv, OnAir, main, ghost
<1> DEFINE b == IF dma.clean THEN dma.pkt ELSE Torn
<1>2. /\ \A s \in Slots : s # g_pkt_pos_wr => g_pkt'[s] = g_pkt[s]
      /\ g_pkt'[g_pkt_pos_wr].buf = b
  <2>1. g_pkt' = [g_pkt EXCEPT ![g_pkt_pos_wr] =
                    [g_pkt[g_pkt_pos_wr] EXCEPT !.buf = b]]
    BY <1>1 DEF PayloadEnd
  <2>2. [g_pkt[g_pkt_pos_wr] EXCEPT !.buf = b].buf = b
    BY DEF Inv, TypeOK, Buffers
  <2>3. QED
    BY <2>1, <2>2 DEF Inv, TypeOK
<1>3. ASSUME NEW i \in 1 .. g_pkt_count
      PROVE  \/ waiting'[i] = Any
             \/ /\ waiting'[i] = waiting[i]
                /\ g_pkt_count <= MAX => g_pkt'[SlotOf(i)] = g_pkt[SlotOf(i)]
  <2>1. CASE Full /\ i = 1
    BY <1>1, <2>1 DEF ItemsInv, AirInv
  <2>2. CASE ~(Full /\ i = 1)
    <3>1. g_pkt_count <= MAX => SlotOf(i) \in Slots /\ SlotOf(i) # g_pkt_pos_wr
      BY <2>2, SlotFacts, CountFacts
    <3>2. QED
      BY <1>1, <1>2, <3>1
  <2>3. QED
    BY <2>1, <2>2
<1>4. ContentInv'
  BY <1>1, <1>3, ContentKept DEF ItemsInv, ContentInv, MAX
<1>5. Full' = Full /\ ~OnAir'
  BY <1>1 DEF Full, OnAir
<1>6. AirInv'
  BY <1>1, <1>5 DEF ItemsInv, AirInv
<1>7. ItemInv'
  <2>1. "PAYLOAD" \in events' /\ ~hit' => g_pkt'[g_pkt_pos_wr'].buf = dma'.pkt
    BY <1>1, <1>2 DEF ItemsInv, ItemInv
  <2>2. QED
    BY <1>1, <1>5, <2>1 DEF ItemsInv, ItemInv
<1>8. QED
  BY <1>4, <1>6, <1>7 DEF ItemsInv

(* The other steps of the receiver touch no packet. *)
LEMMA RadioKeepsItems ==
  ASSUME Inv, ItemsInv, PowerClockIrq \/ Ready \/ RssiEnd \/ End
  PROVE  ItemsInv'
<1>1. UNCHANGED <<firmware, g_pkt, g_pkt_pos_wr, g_pkt_count, g_rssi, pc, copy,
                  waiting, hit>>
  BY DEF PowerClockIrq, Ready, RssiEnd, End, ring, main, ghost
<1>2. ContentInv'
  BY <1>1, ContentKept DEF ItemsInv, ContentInv, MAX
<1>3. Full' = Full
  BY <1>1 DEF Full
<1>4. CASE Ready
  <2>1. radio = "rampup" /\ radio' = "listen" /\ UNCHANGED events
    BY <1>4 DEF Ready
  <2>2. dma'.slot = g_pkt_pos_wr /\ dma'.pkt = dma.pkt
    BY <1>4 DEF Ready, Inv, TypeOK
  <2>3. AirInv'
    BY <1>1, <2>1, <2>2 DEF ItemsInv, AirInv, OnAir
  <2>4. ItemInv'
    BY <1>1, <2>1, <2>2 DEF ItemsInv, AirInv, ItemInv, OnAir
  <2>5. QED
    BY <1>2, <2>3, <2>4 DEF ItemsInv
<1>5. CASE PowerClockIrq \/ RssiEnd \/ End
  <2>1. /\ UNCHANGED dma
        /\ \/ radio = "off" /\ radio' = "rampup" /\ UNCHANGED events
           \/ /\ radio = "address" /\ radio' = "payload"
              /\ events' = events \cup {"RSSIEND"}
           \/ /\ radio = "crc" /\ radio' = "disabled"
              /\ events' = events \cup {"END"}
    BY <1>5 DEF PowerClockIrq, RssiEnd, End, air
  <2>2. AirInv'
    BY <1>1, <1>3, <2>1 DEF ItemsInv, AirInv, OnAir
  <2>3. ItemInv'
    BY <1>1, <1>3, <2>1 DEF ItemsInv, ItemInv, OnAir
  <2>4. QED
    BY <1>2, <2>2, <2>3 DEF ItemsInv
<1>6. QED
  BY <1>4, <1>5

(* What an accepted packet does to those that wait.  With room it comes to  *)
(* the slot behind them, whole and, in the proximity reader, with its RSSI. *)
LEMMA AcceptKeepsContent ==
  ASSUME Inv, ItemsInv, "PAYLOAD" \in events, Accept(~Full),
         firmware = "prox" => ~Full, UNCHANGED <<firmware, pc, copy>>
  PROVE  ContentInv'
<1> DEFINE item == View([buf |-> dma.pkt, rssi |-> dma.pkt])
           added == IF hit THEN Any ELSE item
           stored == [g_pkt[g_pkt_pos_wr] EXCEPT !.rssi = g_rssi]
<1>1. /\ g_pkt' = [g_pkt EXCEPT ![g_pkt_pos_wr] = stored]
      /\ g_pkt_pos_wr' = Wrap(g_pkt_pos_wr + 1)
      /\ g_pkt_count' = g_pkt_count + 1
      /\ waiting' = IF ~Full THEN Append(waiting, added)
                    ELSE [i \in 1 .. Len(waiting) + 1 |-> Any]
  BY DEF Accept
<1>2. pc \in {"copy", "release"} => 1 \in 1 .. g_pkt_count
  BY CountFacts DEF Inv, CopyInv
<1>3. CASE Full
  <2>1. g_pkt_count' > MAX
    BY <1>1, <1>3, CountFacts
  <2>2. \A i \in 1 .. g_pkt_count' : waiting'[i] = Any
    BY <1>1, <1>3, CountFacts
  <2>3. 1 \in 1 .. g_pkt_count'
    BY <1>1, CountFacts
  <2>4. ~(g_pkt_count' <= MAX)
    BY <2>1, <1>1, CountFacts
  <2>5. QED
    BY <2>2, <2>3, <2>4 DEF ContentInv, MAX
<1>4. CASE ~Full
  <2>1. g_pkt_count < MAX /\ g_pkt_count + 1 <= MAX
    BY <1>4, CountFacts
  <2>2. added = Any \/ added = View(stored)
    <3>1. CASE hit
      BY <3>1
    <3>2. CASE ~hit
      <4>1. g_pkt[g_pkt_pos_wr].buf = dma.pkt
        BY <3>2 DEF ItemsInv, ItemInv
      <4>2. g_pkt[g_pkt_pos_wr] \in Buffers
        BY DEF Inv, TypeOK
      <4>3. stored = [buf |-> dma.pkt, rssi |-> g_rssi]
        BY <4>1, <4>2 DEF Buffers
      <4>4. CASE firmware = "prox"
        <5>1. g_rssi = dma.pkt
          BY <4>4 DEF ItemsInv, ItemInv
        <5>2. QED
          BY <3>2, <4>3, <5>1
      <4>5. CASE firmware # "prox"
        <5>1. /\ View([buf |-> dma.pkt, rssi |-> g_rssi])
                   = [buf |-> dma.pkt, rssi |-> Blank]
              /\ item = [buf |-> dma.pkt, rssi |-> Blank]
          BY <4>5 DEF View
        <5>2. QED
          BY <3>2, <4>3, <5>1
      <4>6. QED
        BY <4>4, <4>5
    <3>3. QED
      BY <3>1, <3>2
  <2> HIDE DEF added, stored
  <2>3. /\ \A i \in 1 .. g_pkt_count : waiting'[i] = waiting[i]
        /\ waiting'[g_pkt_count + 1] = added
    BY <1>1, <1>4, CountFacts
  <2>4. \A i \in 1 .. g_pkt_count + 1 :
           SlotOf(i)' = IF i = g_pkt_count + 1 THEN g_pkt_pos_wr ELSE SlotOf(i)
    <3>1. /\ g_pkt_pos_wr' = IF g_pkt_pos_wr + 1 >= MAX THEN 0
                             ELSE g_pkt_pos_wr + 1
          /\ g_pkt_count' = g_pkt_count + 1
      BY <1>1 DEF Wrap, MAX
    <3>2. MAX' = MAX
      BY DEF MAX
    <3>3. ASSUME NEW i \in 1 .. g_pkt_count + 1
          PROVE  SlotOf(i)' = IF i = g_pkt_count + 1 THEN g_pkt_pos_wr
                              ELSE SlotOf(i)
      <4> DEFINE s == g_pkt_pos_wr - g_pkt_count + i - 1
                 t == g_pkt_pos_wr' - g_pkt_count' + i - 1
      <4>1. SlotOf(i)' = IF t >= 0 THEN t ELSE t + MAX
        BY <3>2 DEF SlotOf
      <4>2. SlotOf(i) = IF s >= 0 THEN s ELSE s + MAX
        BY DEF SlotOf
      <4>3. t = s \/ t = s - MAX
        BY <3>1, RangeFacts
      <4>4. /\ s \in Int /\ s >= 0 - MAX /\ s < MAX
            /\ i = g_pkt_count + 1 <=> s = g_pkt_pos_wr
        BY <2>1, RangeFacts
      <4>5. t >= 0 - MAX
        BY <2>1, <3>1, RangeFacts
      <4>6. i = g_pkt_count + 1 \/ s < g_pkt_pos_wr
        BY RangeFacts
      <4> HIDE DEF s, t
      <4>7. QED
        BY <4>1, <4>2, <4>3, <4>4, <4>5, <4>6, RangeFacts
    <3>4. QED
      BY <3>3, RangeFacts
  <2>5. ASSUME NEW i \in 1 .. g_pkt_count'
        PROVE  waiting'[i] = Any \/ waiting'[i] = View(g_pkt[SlotOf(i)])'
    <3>1. CASE i \in 1 .. g_pkt_count
      <4>1. waiting[i] = Any \/ waiting[i] = View(g_pkt[SlotOf(i)])
        BY <2>1, <3>1, CountFacts DEF ItemsInv, ContentInv
      <4>2. SlotOf(i) \in Slots /\ SlotOf(i) # g_pkt_pos_wr
        BY <2>1, <3>1, SlotFacts, CountFacts
      <4>3. g_pkt'[SlotOf(i)'] = g_pkt[SlotOf(i)]
        BY <1>1, <2>4, <3>1, <4>2 DEF Inv, TypeOK
      <4>4. View(g_pkt[SlotOf(i)])' = View(g_pkt[SlotOf(i)])
        BY <4>3 DEF View
      <4>5. QED
        BY <2>3, <3>1, <4>1, <4>4
    <3>2. CASE i = g_pkt_count + 1
      <4>1. g_pkt'[SlotOf(i)'] = stored
        <5>1. SlotOf(i)' = g_pkt_pos_wr
          BY <2>4, <3>2
        <5>2. QED
          BY <1>1, <5>1 DEF Inv, TypeOK
      <4>2. View(g_pkt[SlotOf(i)])' = View(stored)
        BY <4>1 DEF View
      <4>3. QED
        BY <2>2, <2>3, <3>2, <4>2
    <3>3. QED
      BY <1>1, <3>1, <3>2, CountFacts
  <2>6. ~(g_pkt_count' > MAX)
    BY <1>1, <2>1, CountFacts
  <2>7. pc' \in {"copy", "release"} => waiting'[1] = Any \/ waiting'[1] = copy'
    BY <1>2, <2>3 DEF ItemsInv, ContentInv
  <2>8. QED
    BY <2>5, <2>6, <2>7 DEF ContentInv, MAX
<1>5. QED
  BY <1>3, <1>4

(* The interrupt of a packet comes when the receiver does not write any     *)
(* more.                                                                    *)
LEMMA RadioIrqKeepsItems ==
  ASSUME Inv, ItemsInv, RadioIrq
  PROVE  ItemsInv'
<1>1. /\ UNCHANGED <<firmware, dma, pc, copy>>
      /\ events # {} /\ events' = {}
      /\ radio' = IF "END" \in events THEN "rampup" ELSE radio
      /\ g_rssi' = IF "RSSIEND" \in events THEN dma.pkt
                   ELSE IF "PAYLOAD" \in events THEN Blank ELSE g_rssi
  BY DEF RadioIrq, main
<1>2. CASE "PAYLOAD" \in events /\ Accept(~Full) /\ (firmware = "prox" => ~Full)
  <2>1. ContentInv'
    BY <1>1, <1>2, AcceptKeepsContent
  <2>2. radio' \in {"rampup", "crc", "disabled"}
    BY <1>1, <1>2 DEF ItemsInv, AirInv, Inv, TypeOK
  <2>3. AirInv'
    BY <1>1, <2>2 DEF AirInv, OnAir
  <2>4. hit' = (hit /\ ~~Full)
    BY <1>2 DEF Accept
  <2>5. ItemInv'
    BY <1>1, <2>2, <2>4 DEF ItemsInv, ItemInv, OnAir
  <2>6. QED
    BY <2>1, <2>3, <2>5 DEF ItemsInv
<1>3. CASE UNCHANGED <<ring, ghost>>
  <2>1. UNCHANGED <<g_pkt, g_pkt_pos_wr, g_pkt_count, waiting, hit>>
    BY <1>3 DEF ring, ghost
  <2>2. ContentInv'
    BY <1>1, <2>1, ContentKept DEF ItemsInv, ContentInv, MAX
  <2>3. Full' = Full /\ (OnAir' => OnAir)
    BY <1>1, <2>1 DEF Full, OnAir
  <2>4. AirInv'
    BY <1>1, <2>1, <2>3 DEF ItemsInv, AirInv
  <2>5. firmware = "prox" /\ radio' = "payload" => g_rssi' = dma.pkt
    BY <1>1 DEF ItemsInv, AirInv, ItemInv
  <2>6. ItemInv'
    BY <1>1, <2>1, <2>3, <2>5 DEF ItemsInv, ItemInv
  <2>7. QED
    BY <2>2, <2>4, <2>6 DEF ItemsInv
<1>4. QED
  BY <1>2, <1>3 DEF RadioIrq, PayloadServed

-----------------------------------------------------------------------------
(* radio_rx begins a copy of the oldest packet. *)
LEMMA FetchKeepsItems ==
  ASSUME Inv, ItemsInv, Fetch
  PROVE  ItemsInv'
<1>1. /\ firmware = "prox" /\ pc = "check" /\ g_pkt_count > 0
      /\ copy' = g_pkt[g_pkt_pos_rd]
      /\ UNCHANGED <<firmware, g_pkt, g_pkt_pos_wr, g_pkt_count, g_rssi, radio,
                      dma, events, waiting, hit>>
  BY DEF Fetch, air, ghost
<1>2. waiting[1] = Any \/ waiting[1] = g_pkt[g_pkt_pos_rd]
  <2>1. 1 \in 1 .. g_pkt_count /\ g_pkt_count <= MAX
    BY <1>1, CountFacts
  <2>2. SlotOf(1) = g_pkt_pos_rd
    BY <1>1, <2>1, OldestSlot
  <2>3. QED
    BY <1>1, <2>1, <2>2 DEF ItemsInv, ContentInv, View
<1>3. ContentInv'
  BY <1>1, <1>2, ContentKept DEF ItemsInv, ContentInv, MAX
<1>4. AirInv' /\ ItemInv'
  BY <1>1 DEF ItemsInv, AirInv, ItemInv, OnAir, Full
<1>5. QED
  BY <1>3, <1>4 DEF ItemsInv

(* The slot has not changed since, unless the packet is given up. *)
LEMMA CopiedKeepsItems ==
  ASSUME Inv, ItemsInv, Copied
  PROVE  ItemsInv'
<1> DEFINE from == g_pkt[Source]
           b == IF copy.buf = from.buf THEN from.buf ELSE Torn
<1>1. /\ pc = "copy"
      /\ copy' = [from EXCEPT !.buf = b]
      /\ UNCHANGED <<firmware, g_pkt, g_pkt_pos_wr, g_pkt_pos_rd, g_pkt_count,
                      g_rssi, radio, dma, events, waiting, hit>>
  BY DEF Copied, ring, air, ghost
<1>2. firmware = "prox" /\ g_pkt_count > 0 /\ g_pkt_count <= MAX
  BY <1>1, CountFacts DEF Inv, CopyInv
<1>3. SlotOf(1) = Source /\ Source \in Slots
  BY <1>1, <1>2, OldestSlot, SlotFacts, CountFacts
<1>4. ASSUME waiting[1] # Any
      PROVE  waiting'[1] = copy'
  <2>1. waiting[1] = from /\ waiting[1] = copy
    BY <1>1, <1>2, <1>3, <1>4, CountFacts DEF ItemsInv, ContentInv, View
  <2>2. b = from.buf
    BY <2>1
  <2>3. from \in Buffers
    BY <1>3 DEF Inv, TypeOK
  <2> HIDE DEF from, b
  <2>4. [from EXCEPT !.buf = b] = from
    BY <2>2, <2>3 DEF Buffers
  <2>5. QED
    BY <1>1, <2>1, <2>4
<1>5. UNCHANGED <<firmware, g_pkt, g_pkt_pos_wr, g_pkt_count, g_rssi, radio, dma,
                  events, waiting, hit>>
  BY <1>1
<1>6. waiting'[1] = Any \/ waiting'[1] = copy'
  BY <1>4, <1>5
<1>7. ContentInv'
  BY <1>5, <1>6, ContentKept DEF ItemsInv, ContentInv, MAX
<1>8. AirInv' /\ ItemInv'
  BY <1>5 DEF ItemsInv, AirInv, ItemInv, OnAir, Full
<1>9. QED
  BY <1>7, <1>8 DEF ItemsInv

(* The others move up by one when the oldest packet is handed out. *)
LEMMA HandOutKeepsContent ==
  ASSUME Inv, ItemsInv, g_pkt_count > 0, g_pkt_count' = g_pkt_count - 1,
         waiting' = Tail(waiting), pc' = "print",
         UNCHANGED <<firmware, g_pkt_pos_wr>>,
         g_pkt_count <= MAX =>
           \A s \in Slots : s # SlotOf(1) => g_pkt'[s] = g_pkt[s]
  PROVE  /\ ContentInv'
         /\ g_pkt_count' > 0 /\ Full' => waiting'[1] = Any
<1>1. \A i \in 1 .. g_pkt_count' :
         waiting'[i] = waiting[i + 1] /\ i + 1 \in 1 .. g_pkt_count
  BY CountFacts
<1>2. \A i \in Nat : SlotOf(i)' = SlotOf(i + 1)
  <2>1. SUFFICES ASSUME NEW i \in Nat
                 PROVE  SlotOf(i)' = SlotOf(i + 1)
    OBVIOUS
  <2>2. g_pkt_pos_wr' - g_pkt_count' + i - 1
          = g_pkt_pos_wr - g_pkt_count + (i + 1) - 1
    <3>1. g_pkt_pos_wr \in Int /\ g_pkt_count \in Int
      BY RangeFacts
    <3>2. QED
      BY <3>1
  <2>3. MAX' = MAX
    BY DEF MAX
  <2>4. QED
    BY <2>2, <2>3 DEF SlotOf
<1>3. ASSUME g_pkt_count' <= MAX, NEW i \in 1 .. g_pkt_count'
      PROVE  waiting'[i] = Any \/ waiting'[i] = View(g_pkt[SlotOf(i)])'
  <2>1. CASE g_pkt_count > MAX
    BY <1>1, <2>1 DEF ItemsInv, ContentInv
  <2>2. CASE ~(g_pkt_count > MAX)
    <3>1. /\ g_pkt_count <= MAX /\ i \in Nat
          /\ i + 1 \in 1 .. g_pkt_count /\ i + 1 # 1
      BY <1>1, <2>2, CountFacts
    <3>2. waiting[i + 1] = Any \/ waiting[i + 1] = View(g_pkt[SlotOf(i + 1)])
      BY <3>1 DEF ItemsInv, ContentInv
    <3>3. SlotOf(i + 1) \in Slots /\ SlotOf(i + 1) # SlotOf(1)
      BY <3>1, SlotFacts
    <3>4. g_pkt'[SlotOf(i)'] = g_pkt[SlotOf(i + 1)]
      BY <1>2, <3>1, <3>3
    <3>5. View(g_pkt[SlotOf(i)])' = View(g_pkt[SlotOf(i + 1)])
      BY <3>4 DEF View
    <3>6. QED
      BY <1>1, <3>2, <3>5
  <2>3. QED
    BY <2>1, <2>2
<1>4. g_pkt_count' >= MAX => \A i \in 1 .. g_pkt_count' : waiting'[i] = Any
  <2>1. g_pkt_count' >= MAX => g_pkt_count > MAX
    BY CountFacts
  <2>2. QED
    BY <1>1, <2>1 DEF ItemsInv, ContentInv
<1>5. ContentInv'
  <2>1. g_pkt_count' > MAX => g_pkt_count' >= MAX
    BY CountFacts
  <2>2. QED
    BY <1>3, <1>4, <2>1 DEF ContentInv, MAX
<1>6. g_pkt_count' > 0 /\ Full' => waiting'[1] = Any
  <2>1. g_pkt_count' > 0 => 1 \in 1 .. g_pkt_count'
    BY CountFacts
  <2>2. QED
    BY <1>4, <2>1 DEF Full, MAX
<1>7. QED
  BY <1>5, <1>6

(* The proximity reader returns its copy. *)
LEMMA ReleaseKeepsItems ==
  ASSUME Inv, ItemsInv, Release
  PROVE  ItemsInv'
<1>1. /\ pc = "release" /\ pc' = "print"
      /\ g_pkt_count' = g_pkt_count - 1
      /\ waiting' = Tail(waiting)
      /\ UNCHANGED <<firmware, g_pkt, g_pkt_pos_wr, g_rssi, radio, dma, events,
                      hit>>
  BY DEF Release, HandOut
<1>2. g_pkt_count > 0
  BY <1>1 DEF Inv, CopyInv
<1>3. ContentInv' /\ (g_pkt_count' > 0 /\ Full' => waiting'[1] = Any)
  BY <1>1, <1>2, HandOutKeepsContent
<1>4. Full' => g_pkt_count' > 0 /\ Full
  BY <1>1, <1>2, CountFacts DEF Full, MAX
<1>5. AirInv' /\ ItemInv'
  BY <1>1, <1>3, <1>4 DEF ItemsInv, AirInv, ItemInv, OnAir
<1>6. QED
  BY <1>3, <1>5 DEF ItemsInv

(* The BLE reader clears the slot of the packet it returns, where the radio *)
(* writes only when the ring is full, and then the packet on the air is     *)
(* marked.                                                                  *)
LEMMA FetchAndClearKeepsItems ==
  ASSUME Inv, ItemsInv, FetchAndClear
  PROVE  ItemsInv'
<1> DEFINE racing == OnAir /\ dma.slot = g_pkt_pos_rd
           left == IF racing THEN [Zeros EXCEPT !.buf = Torn] ELSE Zeros
           whole == dma.clean /\ ~racing
<1>1. /\ g_pkt' = [g_pkt EXCEPT ![g_pkt_pos_rd] = left]
      /\ dma' = [dma EXCEPT !.clean = whole]
  BY Zenon DEF FetchAndClear
<1>2. /\ \A s \in Slots : s # g_pkt_pos_rd => g_pkt'[s] = g_pkt[s]
      /\ dma'.slot = dma.slot /\ dma'.pkt = dma.pkt /\ dma'.clean = whole
  <2> HIDE DEF left, whole
  <2>1. QED
    BY <1>1 DEF Inv, TypeOK
<1>3. /\ firmware = "ble" /\ pc = "check" /\ g_pkt_count > 0
      /\ HandOut(g_pkt[g_pkt_pos_rd])
      /\ UNCHANGED hit
  BY Zenon DEF FetchAndClear
<1>4. /\ pc' = "print"
      /\ g_pkt_count' = g_pkt_count - 1
      /\ waiting' = Tail(waiting)
      /\ UNCHANGED <<firmware, g_pkt_pos_wr, g_rssi, radio, events, hit>>
  BY <1>3 DEF HandOut
<1>5. g_pkt_count <= MAX => SlotOf(1) = g_pkt_pos_rd
  BY <1>3, OldestSlot
<1>6. ContentInv' /\ (g_pkt_count' > 0 /\ Full' => waiting'[1] = Any)
  BY <1>2, <1>3, <1>4, <1>5, HandOutKeepsContent
<1>7. Full' => g_pkt_count' > 0 /\ Full
  BY <1>3, <1>4, CountFacts DEF Full, MAX
<1>8. AirInv'
  BY <1>2, <1>4, <1>6, <1>7 DEF ItemsInv, AirInv, OnAir
<1>9. ItemInv'
  <2>1. ~Full => g_pkt_pos_rd # g_pkt_pos_wr
    <3>1. ~Full => /\ g_pkt_count < MAX /\ g_pkt_count <= MAX
                   /\ 1 \in 1 .. g_pkt_count
      BY <1>3, CountFacts
    <3>2. QED
      BY <1>5, <3>1, SlotFacts
  <2>2. OnAir /\ ~hit => whole
    BY <1>3, <2>1 DEF ItemsInv, AirInv, ItemInv, OnAir
  <2>3. "PAYLOAD" \in events /\ ~hit =>
          g_pkt'[g_pkt_pos_wr] = g_pkt[g_pkt_pos_wr]
    BY <1>2, <1>3, <2>1 DEF ItemsInv, ItemInv, Inv, TypeOK
  <2>4. OnAir' <=> OnAir
    BY <1>4 DEF OnAir
  <2> HIDE DEF whole
  <2>5. QED
    BY <1>2, <1>3, <1>4, <1>7, <2>2, <2>3, <2>4 DEF ItemsInv, ItemInv
<1>10. QED
  BY <1>6, <1>8, <1>9 DEF ItemsInv

(* The rest of the main loop touches nothing of this. *)
LEMMA LoopKeepsItems ==
  ASSUME Inv, ItemsInv, NothingReceived \/ Wfe \/ Printed \/ UNCHANGED vars
  PROVE  ItemsInv'
<1>1. /\ UNCHANGED <<firmware, g_pkt, g_pkt_pos_wr, g_pkt_count, g_rssi, radio,
                      dma, events, copy, waiting, hit>>
      /\ pc' \in {"copy", "release"} => pc \in {"copy", "release"}
  BY DEF NothingReceived, Wfe, Printed, vars, ring, air, main, ghost
<1>2. ContentInv'
  BY <1>1, ContentKept DEF ItemsInv, ContentInv, MAX
<1>3. AirInv' /\ ItemInv'
  BY <1>1 DEF ItemsInv, AirInv, ItemInv, OnAir, Full
<1>4. QED
  BY <1>2, <1>3 DEF ItemsInv

(* Every step keeps what is known of the packets. *)
LEMMA ItemsNext ==
  ASSUME Inv, ItemsInv, [Next]_vars
  PROVE  ItemsInv'
<1>1. CASE \E p \in Packets : Address(p)
  BY <1>1, AddressKeepsItems
<1>2. CASE Radio
  BY <1>2, PayloadEndKeepsItems, RadioKeepsItems DEF Radio
<1>3. CASE RadioIrq
  BY <1>3, RadioIrqKeepsItems
<1>4. CASE Main
  BY <1>4, LoopKeepsItems, FetchKeepsItems, CopiedKeepsItems, ReleaseKeepsItems,
     FetchAndClearKeepsItems DEF Main
<1>5. CASE UNCHANGED vars
  BY <1>5, LoopKeepsItems
<1>6. QED
  BY <1>1, <1>2, <1>3, <1>4, <1>5 DEF Next

-----------------------------------------------------------------------------
(* A packet that begins over a full ring destroys the oldest; otherwise it  *)
(* ends what an overrun did to the one before.                              *)
LEMMA AddressImplements ==
  ASSUME Inv, NEW p \in Packets, Address(p)
  PROVE  Fifo!Overrun \/ Fifo!Refuse
<1>1. /\ waiting' = IF Full THEN [waiting EXCEPT ![1] = Any] ELSE waiting
      /\ hit' = (Full /\ firmware = "ble")
      /\ UNCHANGED <<firmware, output>>
  BY DEF Address, main
<1>2. View(output)' = View(output)
  BY <1>1 DEF View
<1>3. CASE Full
  <2> DEFINE damaged == [i \in 1 .. Len(waiting) |->
                           IF i \in {1} THEN Any ELSE waiting[i]]
  <2>1. Len(waiting) >= RADIO_MAX_PKT_BUFFERS /\ Len(waiting) \in Nat
    BY <1>3, CountFacts DEF MAX
  <2>2. damaged \in Seq(Buffers \cup {Any})
    <3>1. \A i \in 1 .. Len(waiting) : waiting[i] \in Buffers \cup {Any}
      BY CountFacts
    <3>2. damaged \in [1 .. Len(waiting) -> Buffers \cup {Any}]
      BY <3>1
    <3>3. QED
      BY <2>1, <3>2, FunctionIsSeq
  <2>3. waiting' = damaged
    <3>1. DOMAIN waiting = 1 .. Len(waiting)
      BY CountFacts
    <3>2. [waiting EXCEPT ![1] = Any] =
             [i \in DOMAIN waiting |-> IF i = 1 THEN Any ELSE waiting[i]]
      BY Zenon
    <3>3. QED
      BY <1>1, <1>3, <3>1, <3>2, Zenon
  <2> HIDE DEF damaged
  <2>4. waiting' = damaged \o <<>>
    BY <2>2, <2>3
  <2>5. {1} \in SUBSET (1 .. Len(waiting)) /\ <<>> \in {<<>>, <<Any>>}
    BY <2>1, ReaderRadioAssumption
  <2>6. hit' \in BOOLEAN
    BY <1>1
  <2>7. QED
    BY <1>2, <2>1, <2>4, <2>5, <2>6 DEF Fifo!Overrun, damaged
<1>4. CASE ~Full
  BY <1>1, <1>2, <1>4 DEF Fifo!Refuse
<1>5. QED
  BY <1>3, <1>4

(* An accepted packet joins the queue, or costs all that wait. *)
LEMMA AcceptImplements ==
  ASSUME Inv, Accept(~Full), UNCHANGED <<firmware, output>>
  PROVE  Fifo!Overrun \/ \E item \in Buffers : Fifo!Offer(item)
<1> DEFINE item == View([buf |-> dma.pkt, rssi |-> dma.pkt])
<1>1. /\ waiting' = IF ~Full THEN Append(waiting, IF hit THEN Any ELSE item)
                    ELSE [i \in 1 .. Len(waiting) + 1 |-> Any]
      /\ hit' = (hit /\ ~~Full)
  BY Zenon DEF Accept
<1>2. View(output)' = View(output)
  BY DEF View
<1>3. item \in Buffers
  <2>1. [buf |-> dma.pkt, rssi |-> dma.pkt] \in Buffers
    BY DEF Inv, TypeOK, Buffers
  <2>2. QED
    BY <2>1, ItemIsBuffer
<1>4. hit \in BOOLEAN
  BY DEF Inv, TypeOK
<1> HIDE DEF item
<1>5. CASE ~Full
  <2>1. Len(waiting) < RADIO_MAX_PKT_BUFFERS
    BY <1>5, CountFacts DEF MAX
  <2>2. hit' = FALSE /\ waiting' = Append(waiting, IF hit THEN Any ELSE item)
    BY <1>1, <1>5, Zenon
  <2>3. Fifo!Offer(item)
    BY <1>2, <2>1, <2>2 DEF Fifo!Offer
  <2>4. QED
    BY <1>3, <2>3
<1>6. CASE Full
  <2> DEFINE n == Len(waiting)
             all == 1 .. n
             damaged == [i \in 1 .. n |-> IF i \in all THEN Any ELSE waiting[i]]
             longer == [i \in 1 .. n + 1 |-> Any]
  <2>1. n >= RADIO_MAX_PKT_BUFFERS /\ n \in Nat
    BY <1>6, CountFacts DEF MAX
  <2>2. /\ damaged \in [1 .. n -> {Any}] /\ longer \in [1 .. n + 1 -> {Any}]
        /\ \A i \in 1 .. n : longer[i] = damaged[i]
        /\ longer[n + 1] = Any
    BY <2>1
  <2>3. waiting' = longer
    BY <1>1, <1>6, Zenon
  <2>4. hit' \in BOOLEAN
    BY <1>1, Zenon
  <2> HIDE DEF damaged, longer, n
  <2>5. longer = Append(damaged, Any) /\ damaged \in Seq({Any})
    BY <2>1, <2>2, FunctionIsAppend, FunctionIsSeq
  <2>6. Append(damaged, Any) = damaged \o <<Any>>
    BY <2>5, AppendProperties
  <2>7. all \in SUBSET (1 .. n) /\ <<Any>> \in {<<>>, <<Any>>}
    OBVIOUS
  <2>8. waiting' = damaged \o <<Any>>
    BY <2>3, <2>5, <2>6
  <2>9. QED
    BY <1>2, <2>1, <2>4, <2>7, <2>8 DEF Fifo!Overrun, damaged, n
<1>7. QED
  BY <1>5, <1>6

(* What is handed out is the oldest packet as it was accepted, or anything  *)
(* in the place of one that was destroyed.                                  *)
LEMMA HandOutImplements ==
  ASSUME Inv, ItemsInv, NEW item \in Buffers, HandOut(item), g_pkt_count > 0,
         waiting[1] = Any \/ waiting[1] = View(item),
         UNCHANGED <<firmware, hit>>
  PROVE  Fifo!Take
<1>1. View(output)' = View(item) /\ waiting' = Tail(waiting)
  BY DEF HandOut, View
<1>2. waiting # <<>> /\ Head(waiting) = waiting[1]
  BY CountFacts
<1>3. View(output)' \in IF Head(waiting) = Any THEN Buffers ELSE {Head(waiting)}
  BY <1>1, <1>2, ItemIsBuffer
<1>4. QED
  BY <1>1, <1>2, <1>3 DEF Fifo!Take

(* So it is in both readers. *)
LEMMA ReaderTakes ==
  ASSUME Inv, ItemsInv, Release \/ FetchAndClear
  PROVE  Fifo!Take
<1>1. CASE Release
  <2>1. firmware = "prox" /\ pc = "release" /\ HandOut(copy) /\ g_pkt_count > 0
    BY <1>1 DEF Release, Inv, CopyInv
  <2>2. copy \in Buffers /\ View(copy) = copy
    BY <2>1 DEF Inv, TypeOK, View
  <2>3. UNCHANGED <<firmware, hit>>
    BY <1>1 DEF Release, HandOut
  <2>4. QED
    BY <2>1, <2>2, <2>3, HandOutImplements DEF ItemsInv, ContentInv
<1>2. CASE FetchAndClear
  <2>1. /\ pc = "check" /\ HandOut(g_pkt[g_pkt_pos_rd])
        /\ g_pkt_count > 0 /\ UNCHANGED hit
    BY <1>2, Zenon DEF FetchAndClear
  <2>2. UNCHANGED firmware
    BY <2>1 DEF HandOut
  <2>3. g_pkt[g_pkt_pos_rd] \in Buffers /\ 1 \in 1 .. g_pkt_count
    BY <2>1, CountFacts DEF Inv, TypeOK
  <2>4. waiting[1] = Any \/ waiting[1] = View(g_pkt[g_pkt_pos_rd])
    <3>1. g_pkt_count <= MAX \/ g_pkt_count > MAX
      BY CountFacts
    <3>2. QED
      BY <2>1, <2>3, <3>1, OldestSlot DEF ItemsInv, ContentInv
  <2>5. QED
    BY <2>1, <2>2, <2>3, <2>4, HandOutImplements
<1>3. QED
  BY <1>1, <1>2

(* The ring implements the queue in which only an overrun destroys what     *)
(* waits: whatever the interleaving of reception, interrupt and copy, every *)
(* packet accepted with room is handed out whole, once, in order and, in    *)
(* the proximity reader, with its own RSSI (radio.c 57-130 of both          *)
(* readers).                                                                *)
THEOREM RingImplementsOverrunFifo == Spec => HandsOutInOrder
<1>1. Init => Fifo!OverrunInit
  <2> SUFFICES ASSUME Init
               PROVE  waiting = <<>> /\ hit = FALSE /\ View(output) \in Buffers
    BY DEF Fifo!OverrunInit
  <2>1. output \in Buffers
    BY InvInit DEF Inv, TypeOK
  <2>2. QED
    BY <2>1, ItemIsBuffer DEF Init
<1>2. Inv /\ ItemsInv /\ [Next]_vars => [Fifo!OverrunNext]_(Fifo!overrunVars)
  <2> SUFFICES ASSUME Inv, ItemsInv, [Next]_vars
               PROVE  Fifo!OverrunNext \/ UNCHANGED <<waiting, hit, View(output)>>
    BY DEF Fifo!overrunVars
  <2>1. CASE \E p \in Packets : Address(p)
    BY <2>1, AddressImplements DEF Fifo!OverrunNext
  <2>2. CASE RadioIrq
    <3>1. UNCHANGED <<firmware, output>>
      BY <2>2 DEF RadioIrq, main
    <3>2. CASE Accept(~Full)
      BY <3>1, <3>2, AcceptImplements DEF Fifo!OverrunNext
    <3>3. CASE UNCHANGED <<ring, ghost>>
      BY <3>1, <3>3 DEF ghost, View
    <3>4. QED
      BY <2>2, <3>2, <3>3 DEF RadioIrq, PayloadServed
  <2>3. CASE Release \/ FetchAndClear
    BY <2>3, ReaderTakes DEF Fifo!OverrunNext
  <2>4. CASE Radio \/ NothingReceived \/ Wfe \/ Fetch \/ Copied \/ Printed
             \/ UNCHANGED vars
    <3>1. UNCHANGED <<firmware, output, waiting, hit>>
      BY <2>4 DEF Radio, PowerClockIrq, Ready, RssiEnd, PayloadEnd, End,
         NothingReceived, Wfe, Fetch, Copied, Printed, vars, main, ghost
    <3>2. QED
      BY <3>1 DEF View
  <2>5. QED
    BY <2>1, <2>2, <2>3, <2>4 DEF Next, Main
<1>3. QED
  BY <1>1, <1>2, InvInit, InvNext, ItemsInit, ItemsNext, PTL
     DEF Spec, HandsOutInOrder, Fifo!OverrunSpec
=============================================================================
