------------------------------- MODULE UartTx -------------------------------
(***************************************************************************)
(* The transmit buffer of the serial port                                  *)
(* (firmware/nRF51/core/openbeacon/src/uart.c), which default_putchar of   *)
(* every firmware ends in.                                                 *)
(*                                                                         *)
(* uart_tx runs in the main loop.  It waits for room with interrupts       *)
(* enabled and stores the byte with interrupts disabled, so that           *)
(* UART0_IRQ_Handler may run between the two.  g_uart_buffer_count counts  *)
(* the byte in the transmitter too, which is not in the ring.              *)
(***************************************************************************)
EXTENDS Integers, Sequences

CONSTANTS
  UART_BUFFER,   (* CONFIG_UART_BUFFER                                     *)
  Bytes,         (* what the main loop may send                            *)
  NoByte,        (* before the first byte                                  *)
  Builds         (* values of CONFIG_UART_FORCE_POWERED in the firmwares   *)

ASSUME UartTxAssumption ==
  /\ UART_BUFFER \in Nat \ {0}
  /\ NoByte \notin Bytes
  /\ Builds \subseteq BOOLEAN

VARIABLES
  force_powered,   (* CONFIG_UART_FORCE_POWERED of this build              *)
  g_uart_buffer, g_uart_buffer_head, g_uart_buffer_tail, g_uart_buffer_count,
  pc,         (* where the main loop is: idle, in uart_tx or in uart_power *)
  data,       (* the argument of uart_tx                                   *)
  enable,     (* NRF_UART0->ENABLE                                         *)
  txd,        (* the byte in the transmitter                               *)
  txdrdy,     (* EVENTS_TXDRDY: it has left                                *)
  sent        (* the last byte on the wire                                 *)

ring == <<g_uart_buffer, g_uart_buffer_head, g_uart_buffer_tail>>
vars == <<force_powered, ring, g_uart_buffer_count, pc, data, enable, txd,
          txdrdy, sent>>

Slots == 0 .. UART_BUFFER - 1
Wrap(i) == IF i = UART_BUFFER THEN 0 ELSE i

(* uart_init *)
Init ==
  /\ force_powered \in Builds
  /\ g_uart_buffer = [s \in Slots |-> NoByte]
  /\ g_uart_buffer_head = 0 /\ g_uart_buffer_tail = 0
  /\ g_uart_buffer_count = 0
  /\ pc = "idle" /\ data = NoByte
  /\ enable = force_powered /\ txd = NoByte /\ txdrdy = FALSE
  /\ sent = NoByte

-----------------------------------------------------------------------------
(* uart_tx is called.  Once uart_power has switched the port off for good,  *)
(* no firmware calls it again.                                              *)
Call(byte) ==
  /\ pc = "idle"
  /\ force_powered => enable
  /\ data' = byte
  /\ pc' = "wait"
  /\ UNCHANGED <<force_powered, ring, g_uart_buffer_count, enable, txd,
                 txdrdy, sent>>

(* Faulty variants, as all definitions that end in Fault: the runs must     *)
(* tell them from the code.  Here the ring may overflow by one byte.        *)
WaitForBufferFault ==
  /\ pc = "wait"
  /\ g_uart_buffer_count <= UART_BUFFER
  /\ pc' = "push"
  /\ UNCHANGED <<force_powered, ring, g_uart_buffer_count, data, enable, txd,
                 txdrdy, sent>>

(* There is room. *)
WaitForBuffer ==
  /\ pc = "wait"
  /\ g_uart_buffer_count # UART_BUFFER
  /\ pc' = "push"
  /\ UNCHANGED <<force_powered, ring, g_uart_buffer_count, data, enable, txd,
                 txdrdy, sent>>

(* The byte in the transmitter is not seen. *)
PushFault ==
  /\ pc = "push"
  /\ IF g_uart_buffer_count > 1
     THEN /\ g_uart_buffer' = [g_uart_buffer EXCEPT ![g_uart_buffer_head] = data]
          /\ g_uart_buffer_head' = Wrap(g_uart_buffer_head + 1)
          /\ UNCHANGED <<enable, txd>>
     ELSE /\ txd' = data
          /\ enable' = TRUE
          /\ UNCHANGED <<g_uart_buffer, g_uart_buffer_head>>
  /\ g_uart_buffer_count' = g_uart_buffer_count + 1
  /\ pc' = "idle"
  /\ UNCHANGED <<force_powered, g_uart_buffer_tail, data, txdrdy, sent>>

(* It is not counted. *)
PushUncountedFault ==
  /\ pc = "push"
  /\ IF g_uart_buffer_count # 0
     THEN /\ g_uart_buffer' = [g_uart_buffer EXCEPT ![g_uart_buffer_head] = data]
          /\ g_uart_buffer_head' = Wrap(g_uart_buffer_head + 1)
          /\ g_uart_buffer_count' = g_uart_buffer_count + 1
          /\ UNCHANGED <<enable, txd>>
     ELSE /\ txd' = data
          /\ enable' = TRUE
          /\ UNCHANGED <<g_uart_buffer, g_uart_buffer_head, g_uart_buffer_count>>
  /\ pc' = "idle"
  /\ UNCHANGED <<force_powered, g_uart_buffer_tail, data, txdrdy, sent>>

(* With interrupts off: behind the others, or into the idle transmitter. *)
Push ==
  /\ pc = "push"
  /\ IF g_uart_buffer_count # 0
     THEN /\ g_uart_buffer' = [g_uart_buffer EXCEPT ![g_uart_buffer_head] = data]
          /\ g_uart_buffer_head' = Wrap(g_uart_buffer_head + 1)
          /\ UNCHANGED <<enable, txd>>
     ELSE /\ txd' = data
          /\ enable' = TRUE
          /\ UNCHANGED <<g_uart_buffer, g_uart_buffer_head>>
  /\ g_uart_buffer_count' = g_uart_buffer_count + 1
  /\ pc' = "idle"
  /\ UNCHANGED <<force_powered, g_uart_buffer_tail, data, txdrdy, sent>>

(* The transmitter is done with a byte, unless its power is cut. *)
TxdReady ==
  /\ enable /\ txd # NoByte
  /\ txdrdy' = TRUE
  /\ sent' = txd
  /\ txd' = NoByte
  /\ UNCHANGED <<force_powered, ring, g_uart_buffer_count, pc, data, enable>>

(* The transmitter is never restarted with what is left in the ring. *)
Uart0IrqFault ==
  /\ txdrdy
  /\ txdrdy' = FALSE
  /\ g_uart_buffer_count' = g_uart_buffer_count - 1
  /\ enable' = (enable /\ force_powered)
  /\ UNCHANGED <<force_powered, ring, pc, data, txd, sent>>

(* The power is cut once the ring is empty. *)
Uart0IrqPowerFault ==
  /\ txdrdy
  /\ txdrdy' = FALSE
  /\ g_uart_buffer_count' = g_uart_buffer_count - 1
  /\ enable' = (g_uart_buffer_count' > 1 \/ (enable /\ force_powered))
  /\ IF g_uart_buffer_count' = 0
     THEN UNCHANGED <<txd, g_uart_buffer_tail>>
     ELSE /\ txd' = g_uart_buffer[g_uart_buffer_tail]
          /\ g_uart_buffer_tail' = Wrap(g_uart_buffer_tail + 1)
  /\ UNCHANGED <<force_powered, g_uart_buffer, g_uart_buffer_head, pc, data,
                 sent>>

(* UART0_IRQ_Handler: the next byte, or stop. *)
Uart0Irq ==
  /\ txdrdy
  /\ txdrdy' = FALSE
  /\ g_uart_buffer_count' = g_uart_buffer_count - 1
  /\ IF g_uart_buffer_count' = 0
     THEN /\ enable' = (enable /\ force_powered)
          /\ UNCHANGED <<txd, g_uart_buffer_tail>>
     ELSE /\ txd' = g_uart_buffer[g_uart_buffer_tail]
          /\ g_uart_buffer_tail' = Wrap(g_uart_buffer_tail + 1)
          /\ UNCHANGED enable
  /\ UNCHANGED <<force_powered, g_uart_buffer, g_uart_buffer_head, pc, data,
                 sent>>

(* uart_power(FALSE) waits for the ongoing transmissions ... *)
PowerOff ==
  /\ force_powered /\ pc = "idle" /\ enable
  /\ pc' = "flush"
  /\ UNCHANGED <<force_powered, ring, g_uart_buffer_count, data, enable, txd,
                 txdrdy, sent>>

(* ... and switches the port off. *)
Flushed ==
  /\ pc = "flush"
  /\ g_uart_buffer_count = 0
  /\ enable' = FALSE
  /\ pc' = "idle"
  /\ UNCHANGED <<force_powered, ring, g_uart_buffer_count, data, txd, txdrdy,
                 sent>>

(* uart_power(TRUE) *)
PowerUp ==
  /\ force_powered /\ pc = "idle" /\ ~enable
  /\ enable' = TRUE
  /\ UNCHANGED <<force_powered, ring, g_uart_buffer_count, pc, data, txd,
                 txdrdy, sent>>

Main == WaitForBuffer \/ Push \/ Flushed

Next ==
  \/ \E byte \in Bytes : Call(byte)
  \/ Main \/ TxdReady \/ Uart0Irq \/ PowerOff \/ PowerUp

Spec == Init /\ [][Next]_vars

(* The transmitter finishes every byte, its interrupt is served, and the    *)
(* busy loops wake up on every interrupt.                                   *)
FairSpec == Spec /\ WF_vars(Main) /\ WF_vars(TxdReady) /\ WF_vars(Uart0Irq)

-----------------------------------------------------------------------------
(* Bytes of the ring: all but the one the transmitter has or just had. *)
Stored == IF g_uart_buffer_count = 0 THEN 0 ELSE g_uart_buffer_count - 1

(* The slot of the i-th oldest of them. *)
SlotOf(i) ==
  LET s == g_uart_buffer_head + UART_BUFFER - Stored + i - 1
  IN IF s >= UART_BUFFER THEN s - UART_BUFFER ELSE s

InTransmitter == IF txd = NoByte THEN <<>> ELSE <<txd>>

InRing == [i \in 1..Stored |-> g_uart_buffer[SlotOf(i)]]

Queue == InTransmitter \o InRing

Fifo == INSTANCE LossyFifo
          WITH Items <- Bytes \cup {NoByte}, Capacity <- UART_BUFFER,
               queue <- Queue, taken <- sent

(* The port sends each byte it was given once and in the order given,       *)
(* although the interrupt may run between the test for room and the store,  *)
(* and the first byte of a burst does not pass through the ring.            *)
SendsInOrder == Fifo!FifoSpec

(* Every variable stays in its range. *)
TypeOK ==
  /\ force_powered \in Builds
  /\ g_uart_buffer \in [Slots -> Bytes \cup {NoByte}]
  /\ g_uart_buffer_head \in Slots /\ g_uart_buffer_tail \in Slots
  /\ g_uart_buffer_count \in 0..UART_BUFFER
  /\ pc \in {"idle", "wait", "push", "flush"}
  /\ data \in Bytes \cup {NoByte} /\ txd \in Bytes \cup {NoByte}
  /\ sent \in Bytes \cup {NoByte}
  /\ enable \in BOOLEAN /\ txdrdy \in BOOLEAN

(* The count tells what is on its way: nothing, or one byte in the          *)
(* transmitter or its event, and the rest in the ring from the tail on.     *)
UartInv ==
  /\ g_uart_buffer_count # 0 <=> (txd # NoByte \/ txdrdy)
  /\ ~(txd # NoByte /\ txdrdy)
  /\ g_uart_buffer_tail = SlotOf(1)
  /\ pc = "push" => g_uart_buffer_count # UART_BUFFER

(* The port is never without power while a byte is on its way, neither when *)
(* the interrupt switches it off after the last byte nor when uart_power    *)
(* does (uart.c 92-102, 126, 153-158).                                      *)
PoweredWhileBusy == g_uart_buffer_count # 0 => enable

(* uart_tx and uart_power return: the transmitter never stops while the     *)
(* ring they wait for is full or not empty (uart.c 95-98, 108-110).         *)
CallReturns == pc # "idle" ~> pc = "idle"
=============================================================================
