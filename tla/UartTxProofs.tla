---------------------------- MODULE UartTxProofs ----------------------------
(***************************************************************************)
(* Proofs about UartTx, for every buffer size and set of bytes: what the   *)
(* count says about ring and transmitter, that the port has power as long  *)
(* as a byte is on its way, and that it implements LossyFifo.              *)
(***************************************************************************)
EXTENDS UartTx, SequenceLemmas

(* What is on its way are bytes of the caller: neither the argument of      *)
(* uart_tx nor a slot in use is blank.                                      *)
BytesInv ==
  /\ pc \in {"wait", "push"} => data \in Bytes
  /\ \A i \in 1 .. Stored : g_uart_buffer[SlotOf(i)] \in Bytes

Inv == TypeOK /\ UartInv /\ PoweredWhileBusy /\ BytesInv

-----------------------------------------------------------------------------
(* The slot of the i-th oldest byte, as one case split on the head; the one *)
(* after the last is the head itself.                                       *)
LEMMA SlotOfValue ==
  ASSUME TypeOK, NEW i \in 1 .. Stored + 1
  PROVE  /\ SlotOf(i) \in Slots
         /\ SlotOf(i) = IF g_uart_buffer_head - Stored + i - 1 >= 0
                        THEN g_uart_buffer_head - Stored + i - 1
                        ELSE g_uart_buffer_head - Stored + i - 1 + UART_BUFFER
         /\ Stored \in 0 .. UART_BUFFER - 1
  BY UartTxAssumption DEF TypeOK, Stored, SlotOf, Slots

(* Between its bytes the ring has a slot left: the head is none of theirs.  *)
LEMMA HeadIsFree ==
  ASSUME TypeOK, NEW i \in 1 .. Stored
  PROVE  SlotOf(i) # g_uart_buffer_head
<1>1. i \in 1 .. Stored + 1
  BY UartTxAssumption DEF TypeOK, Stored
<1>2. QED
  BY <1>1, SlotOfValue, UartTxAssumption DEF TypeOK, Slots

(* Nothing but the ring and its count decides where the bytes are.          *)
LEMMA SameRing ==
  ASSUME UNCHANGED <<ring, g_uart_buffer_count>>
  PROVE  /\ Stored' = Stored
         /\ \A i : SlotOf(i)' = SlotOf(i)
  BY DEF ring, Stored, SlotOf

-----------------------------------------------------------------------------
(* Nothing is on its way initially. *)
LEMMA InvInit ==
  ASSUME Init
  PROVE  Inv
<1>1. enable \in BOOLEAN /\ force_powered \in Builds
  BY UartTxAssumption DEF Init
<1>2. TypeOK
  <2>1. 0 \in Slots /\ 0 \in 0 .. UART_BUFFER
    BY UartTxAssumption DEF Slots
  <2>2. QED
    BY <1>1, <2>1, Zenon DEF Init, TypeOK
<1>3. Stored = 0 /\ SlotOf(1) = 0
  BY UartTxAssumption DEF Init, Stored, SlotOf
<1>4. UartInv /\ PoweredWhileBusy /\ BytesInv
  BY <1>3 DEF Init, UartInv, PoweredWhileBusy, BytesInv
<1>5. QED
  BY <1>2, <1>4 DEF Inv

(* Steps that leave the ring alone. *)
LEMMA InvOutside ==
  ASSUME Inv,
         \/ \E byte \in Bytes : Call(byte)
         \/ WaitForBuffer \/ TxdReady \/ PowerOff \/ Flushed \/ PowerUp
         \/ UNCHANGED vars
  PROVE  Inv'
<1>1. UNCHANGED <<ring, g_uart_buffer_count>>
  BY DEF Call, WaitForBuffer, TxdReady, PowerOff, Flushed, PowerUp, vars
<1>2. Stored' = Stored /\ \A i : SlotOf(i)' = SlotOf(i)
  BY <1>1, SameRing
<1>3. TypeOK'
  BY <1>1 DEF Inv, TypeOK, Call, WaitForBuffer, TxdReady, PowerOff, Flushed,
              PowerUp, vars, ring
<1>4. UartInv'
  BY <1>1, <1>2 DEF Inv, TypeOK, UartInv, Call, WaitForBuffer, TxdReady,
                    PowerOff, Flushed, PowerUp, vars, ring
<1>5. PoweredWhileBusy'
  BY <1>1 DEF Inv, PoweredWhileBusy, Call, WaitForBuffer, TxdReady, PowerOff,
              Flushed, PowerUp, vars, ring
<1>6. BytesInv'
  BY <1>1, <1>2 DEF Inv, BytesInv, Call, WaitForBuffer, TxdReady, PowerOff,
                    Flushed, PowerUp, vars, ring
<1>7. QED
  BY <1>3, <1>4, <1>5, <1>6 DEF Inv

(* Storing a byte behind the others leaves those where they are. *)
LEMMA PushStores ==
  ASSUME Inv, Push, g_uart_buffer_count # 0
  PROVE  /\ Stored' = Stored + 1
         /\ \A i \in 1 .. Stored : /\ SlotOf(i)' = SlotOf(i)
                                   /\ g_uart_buffer'[SlotOf(i)] = g_uart_buffer[SlotOf(i)]
         /\ \A i \in {Stored + 1} : SlotOf(i)' = g_uart_buffer_head
         /\ SlotOf(1)' = SlotOf(1)
         /\ g_uart_buffer'[g_uart_buffer_head] = data
<1>1. /\ g_uart_buffer_count \in 1 .. UART_BUFFER - 1
      /\ g_uart_buffer_count' = g_uart_buffer_count + 1
      /\ g_uart_buffer_head' = Wrap(g_uart_buffer_head + 1)
      /\ g_uart_buffer' = [g_uart_buffer EXCEPT ![g_uart_buffer_head] = data]
  BY UartTxAssumption DEF Inv, TypeOK, UartInv, Push
<1>2. Stored' = Stored + 1 /\ Stored \in Nat
  BY <1>1 DEF Stored
<1>3. /\ \A i \in 1 .. Stored + 1 : SlotOf(i)' = SlotOf(i)
      /\ SlotOf(Stored + 1) = g_uart_buffer_head
  <2>1. /\ UART_BUFFER \in Nat \ {0} /\ g_uart_buffer_head \in 0 .. UART_BUFFER - 1
        /\ Stored \in 0 .. UART_BUFFER - 2
    BY <1>1, UartTxAssumption DEF Inv, TypeOK, Stored, Slots
  <2>2. QED
    BY <1>1, <1>2, <2>1 DEF SlotOf, Wrap
<1>4. \A i \in 1 .. Stored : g_uart_buffer'[SlotOf(i)] = g_uart_buffer[SlotOf(i)]
  <2>1. ASSUME NEW i \in 1 .. Stored
        PROVE  g_uart_buffer'[SlotOf(i)] = g_uart_buffer[SlotOf(i)]
    <3>1. SlotOf(i) \in Slots /\ SlotOf(i) # g_uart_buffer_head
      BY <1>2, SlotOfValue, HeadIsFree DEF Inv
    <3>2. QED
      BY <1>1, <3>1 DEF Inv, TypeOK
  <2>2. QED
    BY <2>1
<1>5. g_uart_buffer'[g_uart_buffer_head] = data
  BY <1>1 DEF Inv, TypeOK
<1>6. 1 \in 1 .. Stored + 1 /\ Stored + 1 \in 1 .. Stored + 1
  BY <1>2
<1>7. \A i \in 1 .. Stored : i \in 1 .. Stored + 1
  BY <1>2
<1>8. QED
  BY <1>2, <1>3, <1>4, <1>5, <1>6, <1>7

(* Storing a byte preserves the invariant, whether it goes to the ring or to *)
(* the transmitter.                                                          *)
LEMMA InvPush ==
  ASSUME Inv, Push
  PROVE  Inv'
<1>1. data \in Bytes /\ data # NoByte
  BY UartTxAssumption DEF Inv, BytesInv, Push
<1>2. TypeOK'
  <2>1. /\ UART_BUFFER \in Nat \ {0}
        /\ g_uart_buffer_count' \in 0 .. UART_BUFFER
        /\ g_uart_buffer_head \in Slots /\ Wrap(g_uart_buffer_head + 1) \in Slots
    BY UartTxAssumption DEF Inv, TypeOK, UartInv, Push, Slots, Wrap
  <2>2. g_uart_buffer' \in [Slots -> Bytes \cup {NoByte}]
    BY <1>1, <2>1 DEF Inv, TypeOK, Push
  <2>3. QED
    BY <1>1, <2>1, <2>2 DEF Inv, TypeOK, Push
<1>3. CASE g_uart_buffer_count # 0
  <2>1. /\ Stored' = Stored + 1
        /\ \A i \in 1 .. Stored : /\ SlotOf(i)' = SlotOf(i)
                                  /\ g_uart_buffer'[SlotOf(i)] = g_uart_buffer[SlotOf(i)]
        /\ \A i \in {Stored + 1} : SlotOf(i)' = g_uart_buffer_head
        /\ SlotOf(1)' = SlotOf(1)
        /\ g_uart_buffer'[g_uart_buffer_head] = data
    BY <1>3, PushStores
  <2>2. UartInv'
    BY <1>3, <2>1, UartTxAssumption DEF Inv, TypeOK, UartInv, Push
  <2>3. PoweredWhileBusy'
    BY <1>3 DEF Inv, PoweredWhileBusy, Push
  <2>4. BytesInv'
    <3>1. ASSUME NEW i \in 1 .. Stored + 1
          PROVE  g_uart_buffer'[SlotOf(i)'] \in Bytes
      <4>1. Stored \in Nat
        BY DEF Inv, TypeOK, Stored
      <4>2. i \in 1 .. Stored \/ i = Stored + 1
        BY <4>1
      <4>3. QED
        BY <1>1, <2>1, <4>2 DEF Inv, BytesInv
    <3>2. QED
      BY <2>1, <3>1 DEF BytesInv, Push
  <2>5. QED
    BY <1>2, <2>2, <2>3, <2>4 DEF Inv
<1>4. CASE g_uart_buffer_count = 0
  <2>1. /\ Stored = 0 /\ Stored' = 0
        /\ SlotOf(1)' = SlotOf(1)
    BY <1>4 DEF Push, Stored, SlotOf
  <2>2. UartInv'
    BY <1>1, <1>4, <2>1, UartTxAssumption DEF Inv, TypeOK, UartInv, Push
  <2>3. PoweredWhileBusy' /\ BytesInv'
    BY <1>4, <2>1 DEF PoweredWhileBusy, BytesInv, Push
  <2>4. QED
    BY <1>2, <2>2, <2>3 DEF Inv
<1>5. QED
  BY <1>3, <1>4

(* The interrupt that has another byte to send takes the oldest of the ring. *)
LEMMA IrqTakes ==
  ASSUME Inv, Uart0Irq, g_uart_buffer_count # 1
  PROVE  /\ Stored \in Nat \ {0} /\ Stored' = Stored - 1
         /\ \A i \in 1 .. Stored : SlotOf(i)' = SlotOf(i + 1)
         /\ txd' = g_uart_buffer[SlotOf(1)] /\ txd' \in Bytes
         /\ g_uart_buffer_tail' = SlotOf(1)'
<1>1. /\ g_uart_buffer_count \in 2 .. UART_BUFFER
      /\ g_uart_buffer_count' = g_uart_buffer_count - 1
      /\ g_uart_buffer_tail = SlotOf(1)
      /\ UNCHANGED <<g_uart_buffer, g_uart_buffer_head>>
      /\ txd' = g_uart_buffer[g_uart_buffer_tail]
      /\ g_uart_buffer_tail' = Wrap(g_uart_buffer_tail + 1)
  BY UartTxAssumption DEF Inv, TypeOK, UartInv, Uart0Irq
<1>2. Stored \in 1 .. UART_BUFFER - 1 /\ Stored' = Stored - 1
  BY <1>1, UartTxAssumption DEF Stored
<1>3. \A i \in 1 .. Stored : SlotOf(i)' = SlotOf(i + 1)
  BY <1>1, <1>2, UartTxAssumption DEF Inv, TypeOK, SlotOf, Slots
<1>4. txd' \in Bytes
  BY <1>1, <1>2 DEF Inv, BytesInv
<1>5. SlotOf(2) = Wrap(SlotOf(1) + 1)
  BY <1>2, UartTxAssumption DEF Inv, TypeOK, SlotOf, Slots, Wrap
<1>6. SlotOf(1)' = SlotOf(2)
  BY <1>2, <1>3
<1>7. QED
  BY <1>1, <1>2, <1>3, <1>4, <1>5, <1>6

(* The interrupt preserves the invariant. *)
LEMMA InvIrq ==
  ASSUME Inv, Uart0Irq
  PROVE  Inv'
<1>1. /\ g_uart_buffer_count \in 1 .. UART_BUFFER
      /\ g_uart_buffer_count' = g_uart_buffer_count - 1
      /\ txd = NoByte /\ txdrdy' = FALSE
      /\ UNCHANGED <<force_powered, g_uart_buffer, g_uart_buffer_head, pc, data, sent>>
  BY UartTxAssumption DEF Inv, TypeOK, UartInv, Uart0Irq
<1>2. /\ g_uart_buffer_count' \in 0 .. UART_BUFFER
      /\ enable' \in BOOLEAN /\ txdrdy' \in BOOLEAN
  <2>1. g_uart_buffer_count' \in 0 .. UART_BUFFER
    BY <1>1, UartTxAssumption
  <2>2. enable' \in BOOLEAN
    BY UartTxAssumption DEF Inv, TypeOK, Uart0Irq
  <2>3. QED
    BY <1>1, <2>1, <2>2
<1>3. CASE g_uart_buffer_count = 1
  <2>1. /\ Stored = 0 /\ Stored' = 0
        /\ UNCHANGED <<txd, g_uart_buffer_tail>>
    BY <1>1, <1>3 DEF Uart0Irq, Stored
  <2>2. SlotOf(1)' = SlotOf(1)
    BY <1>1, <2>1 DEF SlotOf
  <2>3. TypeOK'
    BY <1>1, <1>2, <2>1, Zenon DEF Inv, TypeOK
  <2>4. UartInv'
    BY <1>1, <1>3, <2>1, <2>2, UartTxAssumption DEF Inv, TypeOK, UartInv
  <2>5. PoweredWhileBusy' /\ BytesInv'
    BY <1>1, <1>3, <2>1 DEF Inv, PoweredWhileBusy, BytesInv
  <2>6. QED
    BY <2>3, <2>4, <2>5 DEF Inv
<1>4. CASE g_uart_buffer_count # 1
  <2>1. /\ Stored \in Nat \ {0} /\ Stored' = Stored - 1
        /\ \A i \in 1 .. Stored : SlotOf(i)' = SlotOf(i + 1)
        /\ txd' = g_uart_buffer[SlotOf(1)] /\ txd' \in Bytes
        /\ g_uart_buffer_tail' = SlotOf(1)'
    BY <1>4, IrqTakes
  <2>2. enable' = enable /\ enable
    BY <1>1, <1>4 DEF Inv, PoweredWhileBusy, Uart0Irq
  <2>3. SlotOf(1)' \in Slots
    <3>1. SlotOf(1)' = SlotOf(2) /\ 2 \in 1 .. Stored + 1
      BY <2>1
    <3>2. QED
      BY <3>1, SlotOfValue DEF Inv
  <2>4. TypeOK'
    BY <1>1, <1>2, <2>1, <2>3, Zenon DEF Inv, TypeOK
  <2>5. UartInv'
    BY <1>1, <1>4, <2>1, UartTxAssumption DEF Inv, TypeOK, UartInv
  <2>6. BytesInv'
    <3>1. ASSUME NEW i \in 1 .. Stored - 1
          PROVE  g_uart_buffer[SlotOf(i + 1)] \in Bytes
      <4>1. i + 1 \in 1 .. Stored
        BY <2>1
      <4>2. QED
        BY <4>1 DEF Inv, BytesInv
    <3>2. ASSUME NEW i \in 1 .. Stored'
          PROVE  (g_uart_buffer[SlotOf(i)])' \in Bytes
      BY <1>1, <2>1, <3>1
    <3>3. QED
      BY <1>1, <3>2 DEF Inv, BytesInv
  <2>7. QED
    BY <2>2, <2>4, <2>5, <2>6 DEF Inv, PoweredWhileBusy
<1>5. QED
  BY <1>3, <1>4

(* Every step preserves the invariant. *)
LEMMA InvStep == Inv /\ [Next]_vars => Inv'
  BY InvOutside, InvPush, InvIrq DEF Next, Main

(* Types, the meaning of the count, and power while it is not zero, for      *)
(* every buffer size and both builds.                                        *)
THEOREM UartInvariant == Spec => [](TypeOK /\ UartInv /\ PoweredWhileBusy)
<1>1. Init => Inv
  BY InvInit
<1>2. Inv /\ [Next]_vars => Inv'
  BY InvStep
<1>3. QED
  BY <1>1, <1>2, PTL DEF Spec, Inv

(* Every variable of the transmit buffer stays in its range.                *)
THEOREM TypesOfTheUart == Spec => []TypeOK
  BY UartInvariant, PTL

(* The port is never without power while a byte is on its way (uart.c       *)
(* 92-102, 126, 153-158).                                                   *)
THEOREM PowerWhileSending == Spec => []PoweredWhileBusy
  BY UartInvariant, PTL

-----------------------------------------------------------------------------
(* What waits is at most one byte in the transmitter and the bytes in the   *)
(* ring, none of them blank.                                                *)
LEMMA QueueIsSeq ==
  ASSUME Inv
  PROVE  /\ Stored \in Nat
         /\ InRing \in [1..Stored -> Bytes]
         /\ InRing \in Seq(Bytes) /\ Len(InRing) = Stored
         /\ InTransmitter \in Seq(Bytes) /\ Len(InTransmitter) <= 1
         /\ Queue \in Seq(Bytes) /\ Len(Queue) = Len(InTransmitter) + Stored
<1>1. Stored \in Nat
  BY DEF Inv, TypeOK, Stored
<1>2. InRing \in [1..Stored -> Bytes]
  BY DEF Inv, BytesInv, InRing
<1>3. InRing \in Seq(Bytes) /\ Len(InRing) = Stored
  BY <1>1, <1>2, FunctionIsSeq
<1>4. InTransmitter \in Seq(Bytes) /\ Len(InTransmitter) <= 1
  <2>1. CASE txd = NoByte
    BY <2>1, EmptySeq DEF InTransmitter
  <2>2. CASE txd # NoByte
    BY <2>2 DEF Inv, TypeOK, InTransmitter
  <2>3. QED
    BY <2>1, <2>2
<1>5. QED
  BY <1>1, <1>2, <1>3, <1>4, ConcatProperties DEF Queue

(* A byte behind the others is offered to the queue. *)
LEMMA PushOffersToRing ==
  ASSUME Inv, Push, g_uart_buffer_count # 0
  PROVE  Fifo!Offer(data)
<1>1. /\ Stored' = Stored + 1
      /\ \A i \in 1 .. Stored : /\ SlotOf(i)' = SlotOf(i)
                                /\ g_uart_buffer'[SlotOf(i)] = g_uart_buffer[SlotOf(i)]
      /\ \A i \in {Stored + 1} : SlotOf(i)' = g_uart_buffer_head
      /\ g_uart_buffer'[g_uart_buffer_head] = data
  BY PushStores
<1>2. /\ Stored \in Nat /\ InRing \in [1..Stored -> Bytes]
      /\ InRing \in Seq(Bytes) /\ Len(InRing) = Stored
      /\ InTransmitter \in Seq(Bytes) /\ Len(InTransmitter) <= 1
      /\ Queue \in Seq(Bytes) /\ Len(Queue) = Len(InTransmitter) + Stored
  BY QueueIsSeq
<1>3. data \in Bytes
  BY DEF Inv, BytesInv, Push
<1>4. /\ \A i \in 1..Stored : InRing'[i] = InRing[i]
      /\ InRing'[Stored + 1] = data
      /\ InRing' \in [1 .. Stored + 1 -> Bytes]
  <2>1. InRing' = [i \in 1 .. Stored + 1 |-> g_uart_buffer'[SlotOf(i)']]
    BY <1>1 DEF InRing
  <2>2. \A i \in 1..Stored : i \in 1 .. Stored + 1 /\ InRing'[i] = InRing[i]
    BY <1>1, <1>2, <2>1 DEF InRing
  <2>3. Stored + 1 \in 1 .. Stored + 1 /\ InRing'[Stored + 1] = data
    BY <1>1, <1>2, <2>1
  <2>4. ASSUME NEW i \in 1 .. Stored + 1
        PROVE  InRing'[i] \in Bytes
    <3>1. i \in 1..Stored \/ i = Stored + 1
      BY <1>2
    <3>2. QED
      BY <1>2, <1>3, <2>2, <2>3, <3>1
  <2>5. QED
    BY <2>1, <2>2, <2>3, <2>4
<1>5. InRing' = Append(InRing, data)
  BY <1>2, <1>4, FunctionIsAppend
<1>6. InTransmitter' = InTransmitter
  BY DEF Push, InTransmitter
<1>7. Queue' = Append(Queue, data)
  <2>1. Queue' = InTransmitter \o (InRing \o <<data>>)
    BY <1>2, <1>3, <1>5, <1>6, AppendIsConcat DEF Queue
  <2>2. Queue' = Queue \o <<data>>
    BY <1>2, <1>3, <2>1, ConcatAssociative DEF Queue
  <2>3. QED
    BY <1>2, <1>3, <2>2, AppendIsConcat
<1>8. Len(Queue) < UART_BUFFER
  <2>1. UART_BUFFER \in Nat /\ g_uart_buffer_count \in 1 .. UART_BUFFER - 1
    BY UartTxAssumption DEF Inv, TypeOK, UartInv, Push
  <2>2. QED
    BY <1>2, <2>1 DEF Stored
<1>9. QED
  BY <1>7, <1>8 DEF Push, Fifo!Offer

(* A byte for the idle transmitter is offered to the empty queue. *)
LEMMA PushOffersToTransmitter ==
  ASSUME Inv, Push, g_uart_buffer_count = 0
  PROVE  Fifo!Offer(data)
<1>1. data \in Bytes /\ data # NoByte /\ txd = NoByte /\ txd' = data
  BY UartTxAssumption DEF Inv, BytesInv, UartInv, Push
<1>2. Stored = 0 /\ Stored' = 0
  BY DEF Push, Stored
<1>3. InRing = <<>> /\ InRing' = <<>>
  <2>1. \A g \in [1 .. 0 -> Bytes] : g = <<>>
    BY FunctionIsSeq, EmptySeq
  <2>2. InRing \in [1 .. 0 -> Bytes] /\ InRing' \in [1 .. 0 -> Bytes]
    BY <1>2 DEF InRing
  <2>3. QED
    BY <2>1, <2>2
<1>4. InTransmitter = <<>> /\ InTransmitter' = <<data>>
  BY <1>1 DEF InTransmitter
<1>5. Queue = <<>> /\ Queue' = <<data>>
  BY <1>1, <1>3, <1>4, ConcatEmptySeq, EmptySeq DEF Queue
<1>6. Len(Queue) < UART_BUFFER /\ Queue' = Append(Queue, data)
  BY <1>1, <1>5, UartTxAssumption
<1>7. QED
  BY <1>6 DEF Push, Fifo!Offer

(* The byte that leaves the transmitter is the oldest. *)
LEMMA TxdReadyTakes ==
  ASSUME Inv, TxdReady
  PROVE  Fifo!Take
<1>1. InRing \in Seq(Bytes) /\ txd \in Bytes
  BY QueueIsSeq DEF Inv, TypeOK, TxdReady
<1>2. UNCHANGED <<ring, g_uart_buffer_count>>
  BY DEF TxdReady
<1>3. InRing' = InRing
  BY <1>2, SameRing DEF InRing, ring
<1>4. InTransmitter = <<txd>> /\ InTransmitter' = <<>>
  BY DEF TxdReady, InTransmitter
<1>5. Queue = <<txd>> \o InRing /\ Queue' = InRing
  BY <1>1, <1>3, <1>4, ConcatEmptySeq DEF Queue
<1>6. Queue # <<>> /\ Head(Queue) = txd /\ Tail(Queue) = InRing
  BY <1>1, <1>5, HeadAndTailOfConcat
<1>7. QED
  BY <1>5, <1>6 DEF TxdReady, Fifo!Take

(* The interrupt only moves the oldest byte from the ring to the            *)
(* transmitter: what waits, and in which order, stays the same.             *)
LEMMA IrqKeepsQueue ==
  ASSUME Inv, Uart0Irq
  PROVE  Queue' = Queue
<1>1. txd = NoByte /\ g_uart_buffer' = g_uart_buffer
  BY DEF Inv, UartInv, Uart0Irq
<1>2. CASE g_uart_buffer_count = 1
  <2>1. Stored = 0 /\ Stored' = 0 /\ txd' = txd
    BY <1>2 DEF Uart0Irq, Stored
  <2>2. \A i \in 1 .. 0 : FALSE
    OBVIOUS
  <2>3. InRing' = InRing
    BY <2>1, <2>2 DEF InRing
  <2>4. QED
    BY <2>1, <2>3 DEF Queue, InTransmitter
<1>3. CASE g_uart_buffer_count # 1
  <2>1. /\ Stored \in Nat \ {0} /\ Stored' = Stored - 1
        /\ \A i \in 1 .. Stored : SlotOf(i)' = SlotOf(i + 1)
        /\ txd' = g_uart_buffer[SlotOf(1)] /\ txd' \in Bytes
    BY <1>3, IrqTakes
  <2>2. InRing \in [1..Stored -> Bytes] /\ InRing \in Seq(Bytes)
    BY QueueIsSeq
  <2>3. InRing' = [i \in 1 .. Stored - 1 |-> InRing[i + 1]]
    <3>1. InRing' = [i \in 1 .. Stored - 1 |-> g_uart_buffer[SlotOf(i)']]
      BY <1>1, <2>1 DEF InRing
    <3>2. \A i \in 1 .. Stored - 1 :
            /\ SlotOf(i)' = SlotOf(i + 1)
            /\ InRing[i + 1] = g_uart_buffer[SlotOf(i + 1)]
      BY <2>1 DEF InRing
    <3>3. QED
      BY <3>1, <3>2
  <2>4. InRing' \in [1 .. Stored - 1 -> Bytes]
    BY <2>1, <2>2, <2>3
  <2>5. InRing = <<InRing[1]>> \o InRing'
    <3> DEFINE n == Stored - 1
    <3>1. n \in Nat /\ n + 1 = Stored
      BY <2>1
    <3>2. /\ InRing \in [1 .. n + 1 -> Bytes] /\ InRing' \in [1..n -> Bytes]
          /\ \A i \in 1..n : InRing'[i] = InRing[i + 1]
      BY <2>2, <2>3, <2>4, <3>1
    <3> HIDE DEF n
    <3>3. QED
      BY <3>1, <3>2, FunctionIsTail
  <2>6. InRing[1] = txd'
    BY <2>1 DEF InRing
  <2>7. InTransmitter = <<>> /\ InTransmitter' = <<txd'>>
    BY <1>1, <2>1, UartTxAssumption DEF InTransmitter
  <2>8. QED
    BY <2>2, <2>5, <2>6, <2>7, ConcatEmptySeq DEF Queue
<1>4. QED
  BY <1>2, <1>3

(* The port sends every byte it was given once and in order, for every       *)
(* buffer size and both builds: its transmitter and its ring are one queue.  *)
THEOREM PortImplementsFifo == Spec => SendsInOrder
<1>1. Init => Fifo!FifoInit
  <2> SUFFICES ASSUME Init
               PROVE  Queue = <<>> /\ sent \in Bytes \cup {NoByte}
    BY DEF Fifo!FifoInit
  <2>1. Inv /\ Stored = 0 /\ InTransmitter = <<>>
    BY InvInit DEF Init, Stored, InTransmitter
  <2>2. QED
    BY <2>1, QueueIsSeq, EmptySeq DEF Inv, TypeOK
<1>2. Inv /\ [Next]_vars => [Fifo!FifoNext]_(Fifo!fifoVars)
  <2> SUFFICES ASSUME Inv, [Next]_vars
               PROVE  Fifo!FifoNext \/ UNCHANGED <<Queue, sent>>
    BY DEF Fifo!fifoVars
  <2>1. CASE Push
    <3>1. data \in Bytes
      BY <2>1 DEF Inv, BytesInv, Push
    <3>2. Fifo!Offer(data)
      BY <2>1, PushOffersToRing, PushOffersToTransmitter
    <3>3. QED
      BY <3>1, <3>2 DEF Fifo!FifoNext
  <2>2. CASE TxdReady
    BY <2>2, TxdReadyTakes DEF Fifo!FifoNext
  <2>3. CASE Uart0Irq
    BY <2>3, IrqKeepsQueue DEF Uart0Irq
  <2>4. CASE \/ \E byte \in Bytes : Call(byte)
             \/ WaitForBuffer \/ PowerOff \/ Flushed \/ PowerUp \/ UNCHANGED vars
    <3>1. UNCHANGED <<ring, g_uart_buffer_count, txd, sent>>
      BY <2>4 DEF Call, WaitForBuffer, PowerOff, Flushed, PowerUp, vars
    <3>2. QED
      BY <3>1, SameRing DEF Queue, InTransmitter, InRing, ring
  <2>5. QED
    BY <2>1, <2>2, <2>3, <2>4 DEF Next, Main
<1>3. Init => Inv
  BY InvInit
<1>4. Inv /\ [Next]_vars => Inv'
  BY InvStep
<1>5. QED
  BY <1>1, <1>2, <1>3, <1>4, PTL DEF Spec, SendsInOrder, Fifo!FifoSpec
=============================================================================
