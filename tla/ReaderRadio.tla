---------------------------- MODULE ReaderRadio ----------------------------
(***************************************************************************)
(* The receive ring of the readers: reader-prox/src/radio.c, of which      *)
(* reader-prox-microbit has a copy, and reader-ble/src/radio.c, each with  *)
(* the main loop that empties it.                                          *)
(*                                                                         *)
(* The radio writes a packet into the slot that PACKETPTR named when the   *)
(* receiver started, byte by byte, and raises up to three events for it,   *)
(* which one interrupt handler serves together.  The main loop copies the  *)
(* oldest slot meanwhile: with interrupts enabled (prox), or disabled and  *)
(* clearing the slot behind it (ble).  PACKETPTR always names              *)
(* g_pkt[g_pkt_pos_wr] and is not a variable.                              *)
(***************************************************************************)
EXTENDS Naturals, Sequences

CONSTANTS
  RADIO_MAX_PKT_BUFFERS,
  Packets,      (* contents on the air; a packet also names its RSSI       *)
  Blank,        (* zeros                                                   *)
  Torn,         (* parts of several packets                                *)
  Any,          (* see OverrunFifo                                         *)
  Firmwares,    (* subset of {"prox", "ble"}                               *)
  COUNT_LIMIT   (* bound: unread packets at which the air falls silent     *)

ASSUME ReaderRadioAssumption ==
  /\ RADIO_MAX_PKT_BUFFERS \in Nat \ {0}
  /\ Firmwares \subseteq {"prox", "ble"}
  /\ Blank \notin Packets /\ Torn \notin Packets /\ Blank # Torn
  /\ COUNT_LIMIT \in Nat

VARIABLES
  firmware,
  g_pkt, g_pkt_pos_wr, g_pkt_pos_rd, g_pkt_count, g_rssi,
  radio,      (* where the receiver is                                     *)
  dma,        (* slot and packet of the reception, and whether only the    *)
              (* radio wrote there                                         *)
  events,     (* radio events not yet served                               *)
  pc, copy,   (* the main loop in radio_rx, and its buffer                 *)
  wakeup,     (* the event register that WFE waits for                     *)
  output,     (* the packet handed to the main loop last                   *)
  waiting,    (* history: what was accepted and not handed out, and        *)
  hit         (* whether radio_rx cleared a part of the packet on the air  *)

ring == <<g_pkt, g_pkt_pos_wr, g_pkt_pos_rd, g_pkt_count>>
air == <<radio, dma>>
main == <<pc, copy, output>>
ghost == <<waiting, hit>>
vars == <<firmware, ring, g_rssi, air, events, main, wakeup, ghost>>

Slots == 0 .. RADIO_MAX_PKT_BUFFERS - 1

(* Faulty variants end in Fault: the runs must tell them from the code.     *)
(* Here the position runs one slot too far.                                 *)
WrapFault(i) == IF i > RADIO_MAX_PKT_BUFFERS THEN 0 ELSE i

Wrap(i) == IF i >= RADIO_MAX_PKT_BUFFERS THEN 0 ELSE i

Buffers == [buf : Packets \cup {Blank, Torn}, rssi : Packets \cup {Blank}]
Zeros == [buf |-> Blank, rssi |-> Blank]
OnAir == radio \in {"address", "payload"}
Full == g_pkt_count >= RADIO_MAX_PKT_BUFFERS

(* A packet and its RSSI.  That of the BLE reader is not held to anything:  *)
(* with interrupts disabled for a whole copy, RSSIEND and PAYLOAD may be    *)
(* served together and in the wrong order.                                  *)
View(item) == IF firmware = "prox" THEN item ELSE [item EXCEPT !.rssi = Blank]

(* radio_init *)
Init ==
  /\ firmware \in Firmwares
  /\ g_pkt = [s \in Slots |-> Zeros]
  /\ g_pkt_pos_wr = 0 /\ g_pkt_pos_rd = 0 /\ g_pkt_count = 0
  /\ g_rssi = Blank
  /\ radio = "off" /\ dma = [slot |-> 0, pkt |-> Blank, clean |-> TRUE]
  /\ events = {}
  /\ pc = "check" /\ copy = Zeros /\ output = Zeros
  /\ wakeup = FALSE
  /\ waiting = <<>> /\ hit = FALSE

-----------------------------------------------------------------------------
(* The radio. *)

(* POWER_CLOCK_IRQ_Handler: RXEN once the crystal runs. *)
PowerClockIrq ==
  /\ radio = "off"
  /\ radio' = "rampup" /\ wakeup' = TRUE
  /\ UNCHANGED <<firmware, ring, g_rssi, dma, events, main, ghost>>

(* READY and, by its shortcut, START: the packet pointer is taken over. *)
Ready ==
  /\ radio = "rampup"
  /\ radio' = "listen"
  /\ dma' = [dma EXCEPT !.slot = g_pkt_pos_wr]
  /\ UNCHANGED <<firmware, ring, g_rssi, events, main, wakeup, ghost>>

(* A packet begins.  When no slot is free it goes over the oldest. *)
Address(p) ==
  /\ radio = "listen" /\ g_pkt_count < COUNT_LIMIT
  /\ radio' = "address"
  /\ dma' = [dma EXCEPT !.pkt = p, !.clean = TRUE]
  /\ g_pkt' = [g_pkt EXCEPT ![dma.slot].buf = Torn]
  /\ waiting' = IF Full THEN [waiting EXCEPT ![1] = Any] ELSE waiting
  /\ hit' = (Full /\ firmware = "ble")
  /\ UNCHANGED <<firmware, g_pkt_pos_wr, g_pkt_pos_rd, g_pkt_count, g_rssi,
                 events, main, wakeup>>

(* Its RSSI has been sampled ... *)
RssiEnd ==
  /\ radio = "address"
  /\ radio' = "payload" /\ events' = events \cup {"RSSIEND"}
  /\ UNCHANGED <<firmware, ring, g_rssi, dma, main, wakeup, ghost>>

(* ... which the interrupt of the proximity reader notices long before the  *)
(* payload is complete; ...                                                 *)
PayloadEnd ==
  /\ radio = "payload"
  /\ firmware = "prox" => "RSSIEND" \notin events
  /\ radio' = "crc" /\ events' = events \cup {"PAYLOAD"}
  /\ g_pkt' = [g_pkt EXCEPT ![dma.slot].buf =
                 IF dma.clean THEN dma.pkt ELSE Torn]
  /\ UNCHANGED <<firmware, g_pkt_pos_wr, g_pkt_pos_rd, g_pkt_count, g_rssi,
                 dma, main, wakeup, ghost>>

(* ... and its CRC, whereupon the shortcut disables the receiver. *)
End ==
  /\ radio = "crc"
  /\ radio' = "disabled" /\ events' = events \cup {"END"}
  /\ UNCHANGED <<firmware, ring, g_rssi, dma, main, wakeup, ghost>>

-----------------------------------------------------------------------------
(* The position is moved before the RSSI is stored. *)
AcceptFault(free) ==
  /\ g_pkt' = [g_pkt EXCEPT ![Wrap(g_pkt_pos_wr + 1)].rssi = g_rssi]
  /\ g_pkt_pos_wr' = Wrap(g_pkt_pos_wr + 1)
  /\ g_pkt_count' = g_pkt_count + 1
  /\ LET item == View([buf |-> dma.pkt, rssi |-> dma.pkt])
     IN waiting' = IF free THEN Append(waiting, IF hit THEN Any ELSE item)
                   ELSE [i \in 1 .. Len(waiting) + 1 |-> Any]
  /\ hit' = (hit /\ ~free)
  /\ UNCHANGED g_pkt_pos_rd

(* RADIO_IRQ_Handler at EVENTS_PAYLOAD.  CRCSTATUS may be that of this      *)
(* packet or, before its END, that of an earlier one: it can be anything.   *)
Accept(free) ==
  /\ g_pkt' = [g_pkt EXCEPT ![g_pkt_pos_wr].rssi = g_rssi]
  /\ g_pkt_pos_wr' = Wrap(g_pkt_pos_wr + 1)
  /\ g_pkt_count' = g_pkt_count + 1
  /\ LET item == View([buf |-> dma.pkt, rssi |-> dma.pkt])
     IN waiting' = IF free THEN Append(waiting, IF hit THEN Any ELSE item)
                   ELSE [i \in 1 .. Len(waiting) + 1 |-> Any]
  /\ hit' = (hit /\ ~free)
  /\ UNCHANGED g_pkt_pos_rd

(* Neither reader looks at the count. *)
PayloadServedFault ==
  IF "PAYLOAD" \in events
  THEN Accept(~Full) \/ UNCHANGED <<ring, ghost>>
  ELSE UNCHANGED <<ring, ghost>>

(* The proximity reader drops a packet when the ring is full. *)
PayloadServed ==
  IF "PAYLOAD" \in events
  THEN \/ /\ firmware = "prox" => ~Full
          /\ Accept(~Full)
       \/ UNCHANGED <<ring, ghost>>
  ELSE UNCHANGED <<ring, ghost>>

(* RADIO_IRQ_Handler: END, PAYLOAD and RSSIEND, in this order. *)
RadioIrq ==
  /\ events # {}
  /\ events' = {}
  /\ radio' = IF "END" \in events THEN "rampup" ELSE radio
  /\ PayloadServed
  /\ g_rssi' = IF "RSSIEND" \in events THEN dma.pkt
               ELSE IF "PAYLOAD" \in events THEN Blank ELSE g_rssi
  /\ wakeup' = TRUE
  /\ UNCHANGED <<firmware, dma, main>>

-----------------------------------------------------------------------------
(* The main loop. *)

(* radio_rx finds nothing ... *)
NothingReceived ==
  /\ pc = "check" /\ g_pkt_count = 0
  /\ pc' = "sleep"
  /\ UNCHANGED <<firmware, ring, g_rssi, air, events, copy, output, wakeup,
                 ghost>>

(* It sleeps until an interrupt comes after that. *)
WfeFault ==
  /\ pc = "sleep" /\ wakeup /\ events # {}
  /\ wakeup' = FALSE /\ pc' = "check"
  /\ UNCHANGED <<firmware, ring, g_rssi, air, events, copy, output, ghost>>

(* ... and the loop sleeps, unless an interrupt came since it last woke. *)
Wfe ==
  /\ pc = "sleep" /\ wakeup
  /\ wakeup' = FALSE /\ pc' = "check"
  /\ UNCHANGED <<firmware, ring, g_rssi, air, events, copy, output, ghost>>

(* radio_rx of the proximity reader leaves the slot and begins to copy, ... *)
Fetch ==
  /\ firmware = "prox" /\ pc = "check" /\ g_pkt_count > 0
  /\ g_pkt_pos_rd' = Wrap(g_pkt_pos_rd + 1)
  /\ copy' = g_pkt[g_pkt_pos_rd]
  /\ pc' = "copy"
  /\ UNCHANGED <<firmware, g_pkt, g_pkt_pos_wr, g_pkt_count, g_rssi, air,
                 events, output, wakeup, ghost>>

(* The slot that the copy comes from. *)
Source == IF g_pkt_pos_rd = 0 THEN RADIO_MAX_PKT_BUFFERS - 1
          ELSE g_pkt_pos_rd - 1

(* ... has copied the rest, ... *)
Copied ==
  /\ pc = "copy"
  /\ copy' = [g_pkt[Source] EXCEPT !.buf = IF copy.buf = @ THEN @ ELSE Torn]
  /\ pc' = "release"
  /\ UNCHANGED <<firmware, ring, g_rssi, air, events, output, wakeup, ghost>>

(* ... and returns it. *)
HandOut(item) ==
  /\ output' = item
  /\ g_pkt_count' = g_pkt_count - 1
  /\ waiting' = Tail(waiting)
  /\ pc' = "print"
  /\ UNCHANGED <<firmware, g_pkt_pos_wr, g_rssi, radio, events, wakeup>>

Release ==
  /\ pc = "release"
  /\ HandOut(copy)
  /\ UNCHANGED <<g_pkt, g_pkt_pos_rd, dma, copy, hit>>

(* radio_rx of the BLE reader, with interrupts disabled: the slot is copied *)
(* and cleared, under the hands of the radio if it is receiving there.      *)
FetchAndClear ==
  /\ firmware = "ble" /\ pc = "check" /\ g_pkt_count > 0
  /\ HandOut(g_pkt[g_pkt_pos_rd])
  /\ LET racing == OnAir /\ dma.slot = g_pkt_pos_rd
     IN /\ g_pkt' = [g_pkt EXCEPT ![g_pkt_pos_rd] =
                       IF racing THEN [Zeros EXCEPT !.buf = Torn] ELSE Zeros]
        /\ dma' = [dma EXCEPT !.clean = @ /\ ~racing]
  /\ g_pkt_pos_rd' = Wrap(g_pkt_pos_rd + 1)
  /\ UNCHANGED <<copy, hit>>

(* The packet is printed, or filtered by its RSSI or signature. *)
Printed ==
  /\ pc = "print"
  /\ pc' = "check"
  /\ UNCHANGED <<firmware, ring, g_rssi, air, events, copy, output, wakeup,
                 ghost>>

Main ==
  NothingReceived \/ Wfe \/ Fetch \/ Copied \/ Release \/ FetchAndClear \/ Printed
Radio == PowerClockIrq \/ Ready \/ RssiEnd \/ PayloadEnd \/ End

Next == Main \/ Radio \/ RadioIrq \/ \E p \in Packets : Address(p)

Spec == Init /\ [][Next]_vars

(* The receiver finishes what it begins, its interrupt is served, and the   *)
(* main loop runs; whether anything is on the air is left open.             *)
FairSpec == Spec /\ WF_vars(Main) /\ WF_vars(Radio) /\ WF_vars(RadioIrq)

-----------------------------------------------------------------------------
Fifo == INSTANCE OverrunFifo
          WITH Items <- Buffers, Capacity <- RADIO_MAX_PKT_BUFFERS,
               queue <- waiting, taken <- View(output)

(* The readers hand out what they accepted whole, once, in order and, for   *)
(* the proximity reader, with the RSSI of the same packet, although copy,   *)
(* reception and the three events overlap; unless a packet arrives while    *)
(* the ring is full, which may destroy what waits (radio.c 73-80, 116-125). *)
HandsOutInOrder == Fifo!OverrunSpec

(* Every variable stays in its range. *)
TypeOK ==
  /\ firmware \in Firmwares
  /\ g_pkt \in [Slots -> Buffers]
  /\ g_pkt_pos_wr \in Slots /\ g_pkt_pos_rd \in Slots /\ g_pkt_count \in Nat
  /\ g_rssi \in Packets \cup {Blank}
  /\ radio \in {"off", "rampup", "listen", "address", "payload", "crc",
                "disabled"}
  /\ dma \in [slot : Slots, pkt : Packets \cup {Blank}, clean : BOOLEAN]
  /\ events \subseteq {"RSSIEND", "PAYLOAD", "END"}
  /\ pc \in {"check", "sleep", "copy", "release", "print"}
  /\ copy \in Buffers /\ output \in Buffers
  /\ wakeup \in BOOLEAN /\ hit \in BOOLEAN

(* Write and read position and count agree at every interrupt, the copy in  *)
(* progress included, so that the ring is sound again after an overrun; and *)
(* the proximity reader never counts more than it has slots.                *)
RingInv ==
  LET unread == g_pkt_count - (IF pc \in {"copy", "release"} THEN 1 ELSE 0)
  IN /\ (g_pkt_pos_rd + unread) % RADIO_MAX_PKT_BUFFERS = g_pkt_pos_wr
     /\ Len(waiting) = g_pkt_count
     /\ firmware = "prox" => g_pkt_count <= RADIO_MAX_PKT_BUFFERS

(* A packet that was accepted does not wait for ever, although the radio    *)
(* may accept it between the test of the count and the sleep, and although  *)
(* later packets come all the time (main.c 90-93).                          *)
EveryPacketHandedOut == g_pkt_count > 0 ~> pc = "print"
=============================================================================
