----------------------------- MODULE ProxRadio -----------------------------
(***************************************************************************)
(* The slot machine of the proximity tag                                   *)
(* (firmware/nRF51/tag-proximity/src/radio.c): a random-length slot starts *)
(* the crystal, every slot transmits a proximity beacon, every             *)
(* LISTEN_RATIO-th slot listens after it, and one slot per second, chosen  *)
(* at random, reports the sightings on the tracker channel.                *)
(*                                                                         *)
(* Four interrupt handlers share the state.  RADIO_IRQ_Handler (priority   *)
(* 2) preempts RTC0_IRQ_Handler (3), so the RTC0 handler is cut where the  *)
(* radio may come in between (rtc); the radio handler takes its three      *)
(* events one after the other (isr) while the hardware goes on raising new *)
(* ones.  POWER_CLOCK_IRQ_Handler (1) preempts both and runs to its end.   *)
(* Time is counted in ticks that are long for a handler: Tick waits for    *)
(* every pending interrupt.                                                *)
(***************************************************************************)
EXTENDS Integers, FiniteSets

CONSTANTS
  Uids,            (* the other tags                                       *)
  Self,            (* the uid of this tag                                  *)
  Free,            (* uid 0: an unused sighting slot                       *)
  StatusBytes,     (* a sighting slot overlaid by the status union member  *)
  Foreign,         (* an authentic packet of another protocol              *)
  Noise,           (* buffer contents that aes_decr rejects                *)
  SIGHTING_SLOTS,  (* CONFIG_SIGHTING_SLOTS                                *)
  LISTEN_RATIO,    (* CONFIG_PROX_LISTEN_RATIO                             *)
  REQUEST_RANGE,   (* 2^5: how many values rng(5) draws from               *)
  BUTTON_SECONDS,  (* CONFIG_BUTTON_DURATION_SECONDS                       *)
  PROX_SPACING,    (* CONFIG_PROX_SPACING, in ticks                        *)
  SPACING_RANGE,   (* 1 << CONFIG_PROX_SPACING_RNG_BITS, in ticks          *)
  LISTEN_TIME,     (* CONFIG_PROX_LISTEN, in ticks                         *)
  BLINK_TIME,      (* MILLISECONDS(1), in ticks                            *)
  HFCLK_TIME,      (* longest start-up of the crystal, in ticks            *)
  AIR_TIME,        (* longest ramp-up and transmission, in ticks           *)
  PROXIMITY_BLINK, (* the build option of that name                        *)
  LATE_RADIO_IRQ   (* may the radio interrupt of a packet's END wait until *)
                   (* the radio has ramped down as well?                   *)

Slots == 1..SIGHTING_SLOTS
RxContents == Uids \cup {Self, Foreign, Noise}
NrfStates == {"IDLE", "TX_PROX", "RX_PROX", "RX_PROX_PACKET",
              "RX_PROX_BLINK", "TX_TRACKER"}
RadioEvents == {"DISABLED", "END", "RSSIEND"}
Unarmed == -1

(* The shortest slot outlasts everything a slot may do. *)
ASSUME ProxRadioAssumption ==
  /\ \A n \in {SIGHTING_SLOTS, LISTEN_RATIO, REQUEST_RANGE, BUTTON_SECONDS,
               PROX_SPACING, SPACING_RANGE, LISTEN_TIME, BLINK_TIME,
               HFCLK_TIME, AIR_TIME} : n \in Nat \ {0}
  /\ PROXIMITY_BLINK \in BOOLEAN /\ LATE_RADIO_IRQ \in BOOLEAN
  /\ {Self, Free, StatusBytes, Foreign, Noise} \cap Uids = {}
  /\ Cardinality({Self, Free, StatusBytes, Foreign, Noise}) = 5
  /\ PROX_SPACING - SPACING_RANGE \div 2 >
       HFCLK_TIME + AIR_TIME + AIR_TIME + LISTEN_TIME + BLINK_TIME

(* A faulty variant, as all definitions that end in Fault: the runs must    *)
(* tell them from the code.  Here the random part is not centred.           *)
SpacingFault == {PROX_SPACING - SPACING_RANGE - r : r \in 0 .. SPACING_RANGE - 1}

Spacing == {PROX_SPACING - SPACING_RANGE \div 2 + r : r \in 0 .. SPACING_RANGE - 1}

VARIABLES
  g_nrf_state, g_request_tx, g_listen_ratio, g_button_pressed,
  g_rssi,        (* 0: reset at the start of a window, 1: measured         *)
  sighting,      (* g_pkt_tracker.p, seen as its sighting slots            *)
  tracker_enc,   (* what was encrypted into g_pkt_tracker_enc last         *)
  rx_enc,        (* g_pkt_prox_rx_enc                                      *)
  logged,        (* the arguments of the last log_sighting                 *)
  rtc, isr,      (* where the RTC0 and the radio handler are               *)
  events,        (* raised and not acknowledged                            *)
  phase,         (* off, tx, rx (waiting), sync (receiving), ramp          *)
  packetptr, chan, crcstatus,    (* NRF_RADIO registers                    *)
  hfclk, dcdc, led,
  cc1, cc2,      (* ticks until COMPARE[1], COMPARE[2]; 0: pending         *)
  second,        (* COMPARE[0] may be raised before the next slot          *)
  due            (* ticks the crystal or the transmitter may still take    *)

gvars == <<g_nrf_state, g_request_tx, g_listen_ratio, g_button_pressed>>
packets == <<g_rssi, sighting, tracker_enc, rx_enc, logged>>
radio == <<phase, packetptr, chan, crcstatus>>
power == <<hfclk, dcdc, led>>
timers == <<cc1, cc2, second, due>>
vars == <<gvars, packets, rtc, isr, events, radio, power, timers>>

Init ==
  /\ g_nrf_state = "IDLE" /\ g_request_tx = 0 /\ g_listen_ratio = 0
  /\ g_button_pressed = 0 /\ g_rssi = 0
  /\ sighting = [s \in Slots |-> Free]
  /\ tracker_enc = [proto |-> "NONE", button |-> FALSE, sighting |-> sighting]
  /\ rx_enc = Noise
  /\ logged = [uid |-> Free, power |-> 1]
  /\ rtc = "idle" /\ isr = "idle" /\ events = {}
  /\ phase = "off" /\ packetptr = "prox" /\ chan = "prox" /\ crcstatus = FALSE
  /\ hfclk = "off" /\ dcdc = FALSE /\ led = FALSE
  /\ cc1 = PROX_SPACING /\ cc2 = Unarmed /\ second = TRUE /\ due = 0

(* The interrupt priorities: the radio handler runs unless the crystal's    *)
(* interrupt is pending, the RTC0 handler unless any of the two is.         *)
RadioRuns == "HFCLKSTARTED" \notin events
Rtc0Runs == isr = "idle" /\ events = {}

-----------------------------------------------------------------------------
(* Time and hardware *)

(* A tick passes once every interrupt is served, unless an activity of the  *)
(* hardware has used up its time.                                           *)
Tick ==
  /\ events = {} /\ rtc = "idle" /\ isr = "idle"
  /\ cc1 # 0 /\ cc2 # 0 /\ phase # "ramp"
  /\ (hfclk = "starting" \/ phase = "tx") => due > 0
  /\ cc1' = cc1 - 1
  /\ cc2' = IF cc2 = Unarmed THEN Unarmed ELSE cc2 - 1
  /\ due' = IF due > 0 THEN due - 1 ELSE 0
  /\ UNCHANGED <<gvars, packets, rtc, isr, events, radio, power, second>>

(* The crystal is stable. *)
HfClkStarted ==
  /\ hfclk = "starting"
  /\ hfclk' = "running"
  /\ events' = events \cup {"HFCLKSTARTED"}
  /\ due' = 0
  /\ UNCHANGED <<gvars, packets, rtc, isr, radio, dcdc, led, cc1, cc2, second>>

(* The last bit of a packet is on the air. *)
TxEnd ==
  /\ phase = "tx"
  /\ phase' = "ramp"
  /\ events' = events \cup {"END"}
  /\ due' = 0
  /\ UNCHANGED <<gvars, packets, rtc, isr, packetptr, chan, crcstatus, power,
                 cc1, cc2, second>>

(* A packet with our address begins; SHORTS start the RSSI measurement. *)
RxAddress ==
  /\ phase = "rx"
  /\ phase' = "sync"
  /\ events' = events \cup {"RSSIEND"}
  /\ UNCHANGED <<gvars, packets, rtc, isr, packetptr, chan, crcstatus, power,
                 timers>>

(* It ends, more than 100 us later: the RSSI interrupt was served long ago. *)
RxEnd(content, crc_ok) ==
  /\ phase = "sync"
  /\ "RSSIEND" \notin events /\ isr = "idle"
  /\ crc_ok \/ content = Noise
  /\ phase' = "ramp"
  /\ rx_enc' = content
  /\ crcstatus' = crc_ok
  /\ events' = events \cup {"END"}
  /\ UNCHANGED <<gvars, g_rssi, sighting, tracker_enc, logged, rtc, isr,
                 packetptr, chan, power, timers>>

(* SHORTS turn END into DISABLE.  The ramp-down takes a few microseconds:   *)
(* an interrupt that is taken at once is over before it ends.               *)
RampDown ==
  /\ phase = "ramp"
  /\ LATE_RADIO_IRQ \/ ("END" \notin events /\ isr = "idle")
  /\ phase' = "off"
  /\ events' = events \cup {"DISABLED"}
  /\ UNCHANGED <<gvars, packets, rtc, isr, packetptr, chan, crcstatus, power,
                 timers>>

(* The button is pressed: GPIOTE_IRQ_Handler, of the priority of RTC0. *)
ButtonPressed ==
  /\ rtc = "idle" /\ Rtc0Runs
  /\ g_button_pressed' = BUTTON_SECONDS
  /\ UNCHANGED <<g_nrf_state, g_request_tx, g_listen_ratio, packets, rtc, isr,
                 events, radio, power, timers>>

-----------------------------------------------------------------------------
(* POWER_CLOCK_IRQ_Handler: encrypt and transmit the proximity packet. *)
PowerClockIrq ==
  /\ "HFCLKSTARTED" \in events
  /\ events' = events \ {"HFCLKSTARTED"}
  /\ packetptr' = "prox"
  /\ phase' = "tx"
  /\ due' = AIR_TIME
  /\ UNCHANGED <<gvars, packets, rtc, isr, chan, crcstatus, power,
                 cc1, cc2, second>>

-----------------------------------------------------------------------------
(* RTC0_IRQ_Handler *)

(* COMPARE[0], once per second.  The request is only drawn when none is     *)
(* pending, and rng may wait for its pool between the test and the write.   *)
Second ==
  /\ second /\ rtc = "idle" /\ Rtc0Runs
  /\ second' = FALSE
  /\ g_button_pressed' = IF g_button_pressed > 0 THEN g_button_pressed - 1 ELSE 0
  /\ rtc' = IF g_request_tx = 0 THEN "draw" ELSE "idle"
  /\ UNCHANGED <<g_nrf_state, g_request_tx, g_listen_ratio, packets, isr,
                 events, radio, power, cc1, cc2, due>>

DrawRequest(r) ==
  /\ rtc = "draw" /\ Rtc0Runs
  /\ g_request_tx' = r
  /\ rtc' = "idle"
  /\ UNCHANGED <<g_nrf_state, g_listen_ratio, g_button_pressed, packets, isr,
                 events, radio, power, timers>>

(* The slots are not counted. *)
SlotStartFault(spacing, bat_good) ==
  /\ cc1 = 0 /\ rtc = "idle" /\ Rtc0Runs
  /\ cc1' = spacing
  /\ hfclk' = "starting" /\ due' = HFCLK_TIME
  /\ IF g_listen_ratio + 1 < LISTEN_RATIO
     THEN /\ g_listen_ratio' = g_listen_ratio
          /\ g_nrf_state' = "TX_PROX"
          /\ UNCHANGED dcdc
     ELSE /\ g_listen_ratio' = 0
          /\ g_nrf_state' = "RX_PROX"
          /\ dcdc' = (dcdc \/ bat_good)
  /\ second' = TRUE
  /\ UNCHANGED <<g_request_tx, g_button_pressed, packets, rtc, isr, events,
                 radio, led, cc2>>

(* COMPARE[1]: the next slot.  The crystal takes longer to start than the   *)
(* rest of the handler, which is one action for that reason.                *)
SlotStart(spacing, bat_good) ==
  /\ cc1 = 0 /\ rtc = "idle" /\ Rtc0Runs
  /\ cc1' = spacing
  /\ hfclk' = "starting" /\ due' = HFCLK_TIME
  /\ IF g_listen_ratio + 1 < LISTEN_RATIO
     THEN /\ g_listen_ratio' = g_listen_ratio + 1
          /\ g_nrf_state' = "TX_PROX"
          /\ UNCHANGED dcdc
     ELSE /\ g_listen_ratio' = 0
          /\ g_nrf_state' = "RX_PROX"
          /\ dcdc' = (dcdc \/ bat_good)
  /\ second' = TRUE
  /\ UNCHANGED <<g_request_tx, g_button_pressed, packets, rtc, isr, events,
                 radio, led, cc2>>

(* The event is not cleared. *)
ListenEndFault ==
  /\ cc2 = 0 /\ rtc = "idle" /\ Rtc0Runs
  /\ cc2' = cc2
  /\ hfclk' = "off"
  /\ rtc' = IF PROXIMITY_BLINK /\ g_nrf_state = "RX_PROX_BLINK"
            THEN "blink" ELSE "stop"
  /\ UNCHANGED <<gvars, packets, isr, events, radio, dcdc, led, cc1, second, due>>

(* COMPARE[2]: the end of the listening window, or of the LED flash after   *)
(* it.  The state is read here and written by the next step.                *)
ListenEnd ==
  /\ cc2 = 0 /\ rtc = "idle" /\ Rtc0Runs
  /\ cc2' = Unarmed
  /\ hfclk' = "off"
  /\ rtc' = IF PROXIMITY_BLINK /\ g_nrf_state = "RX_PROX_BLINK"
            THEN "blink" ELSE "stop"
  /\ UNCHANGED <<gvars, packets, isr, events, radio, dcdc, led, cc1, second, due>>

Blink ==
  /\ rtc = "blink" /\ Rtc0Runs
  /\ g_nrf_state' = "IDLE"
  /\ led' = TRUE
  /\ cc2' = BLINK_TIME
  /\ rtc' = "idle"
  /\ UNCHANGED <<g_request_tx, g_listen_ratio, g_button_pressed, packets, isr,
                 events, radio, hfclk, dcdc, cc1, second, due>>

ListenStop ==
  /\ rtc = "stop" /\ Rtc0Runs
  /\ g_nrf_state' = "IDLE"
  /\ rtc' = "disable"
  /\ UNCHANGED <<g_request_tx, g_listen_ratio, g_button_pressed, packets, isr,
                 events, radio, power, timers>>

(* The DC/DC converter is forgotten. *)
DisableRadioFault ==
  /\ rtc = "disable" /\ Rtc0Runs
  /\ IF phase = "off"
     THEN UNCHANGED <<phase, events, rx_enc>>
     ELSE /\ phase' = "off"
          /\ events' = events \cup {"DISABLED"}
          /\ rx_enc' \in IF phase = "sync" THEN {rx_enc, Noise} ELSE {rx_enc}
  /\ dcdc' = dcdc /\ led' = FALSE
  /\ rtc' = "idle"
  /\ UNCHANGED <<gvars, g_rssi, sighting, tracker_enc, logged, isr, packetptr,
                 chan, crcstatus, hfclk, timers>>

(* TASKS_DISABLE cuts a reception short, which leaves part of a packet in   *)
(* the buffer and the CRC status of the packet before.                      *)
DisableRadio ==
  /\ rtc = "disable" /\ Rtc0Runs
  /\ IF phase = "off"
     THEN UNCHANGED <<phase, events, rx_enc>>
     ELSE /\ phase' = "off"
          /\ events' = events \cup {"DISABLED"}
          /\ rx_enc' \in IF phase = "sync" THEN {rx_enc, Noise} ELSE {rx_enc}
  /\ dcdc' = FALSE /\ led' = FALSE
  /\ rtc' = "idle"
  /\ UNCHANGED <<gvars, g_rssi, sighting, tracker_enc, logged, isr, packetptr,
                 chan, crcstatus, hfclk, timers>>

-----------------------------------------------------------------------------
(* RADIO_IRQ_Handler *)

(* The beacon of a listening slot is out: open the window. *)
StartListening ==
  /\ g_nrf_state = "RX_PROX"
  /\ g_nrf_state' = "RX_PROX_PACKET"
  /\ g_rssi' = 0
  /\ packetptr' = "rx" /\ phase' = "rx"
  /\ cc2' = LISTEN_TIME
  /\ UNCHANGED <<g_request_tx, sighting, tracker_enc, chan, hfclk, dcdc, due>>

(* The request is counted down past zero. *)
BeaconDoneFault ==
  /\ g_nrf_state = "TX_PROX"
  /\ g_request_tx # 1
  /\ g_request_tx' = g_request_tx - 1
  /\ g_nrf_state' = "IDLE"
  /\ hfclk' = "off" /\ dcdc' = FALSE
  /\ UNCHANGED <<g_rssi, sighting, tracker_enc, packetptr, phase, chan, cc2, due>>

(* The request is not counted down. *)
BeaconDoneIdleFault ==
  /\ g_nrf_state = "TX_PROX"
  /\ g_request_tx # 1
  /\ g_request_tx' = g_request_tx
  /\ g_nrf_state' = "IDLE"
  /\ hfclk' = "off" /\ dcdc' = FALSE
  /\ UNCHANGED <<g_rssi, sighting, tracker_enc, packetptr, phase, chan, cc2, due>>

(* The beacon of a transmitting slot is out, and no tracker packet is due   *)
(* in this slot.                                                            *)
BeaconDone ==
  /\ g_nrf_state = "TX_PROX"
  /\ g_request_tx # 1
  /\ g_request_tx' = IF g_request_tx > 0 THEN g_request_tx - 1 ELSE 0
  /\ g_nrf_state' = "IDLE"
  /\ hfclk' = "off" /\ dcdc' = FALSE
  /\ UNCHANGED <<g_rssi, sighting, tracker_enc, packetptr, phase, chan, cc2, due>>

(* The status member of the union covers the first two sighting slots. *)
StatusOverlay ==
  [s \in Slots |-> IF s \in {1, 2} THEN StatusBytes ELSE sighting[s]]

(* The slot the tracker request was counting down to. *)
StartTracker ==
  /\ g_nrf_state = "TX_PROX"
  /\ g_request_tx = 1
  /\ g_request_tx' = 0
  /\ g_nrf_state' = "TX_TRACKER"
  /\ chan' = "tracker"
  /\ sighting' = IF sighting[1] # Free THEN sighting ELSE StatusOverlay
  /\ tracker_enc' = [proto |-> IF sighting[1] # Free THEN "SIGHTING" ELSE "STATUS",
                     button |-> g_button_pressed > 0,
                     sighting |-> sighting']
  /\ packetptr' = "tracker" /\ phase' = "tx" /\ due' = AIR_TIME
  /\ UNCHANGED <<g_rssi, cc2, hfclk, dcdc>>

(* The radio stays on the tracker channel. *)
ConfirmTrackerFault ==
  /\ g_nrf_state = "TX_TRACKER"
  /\ g_nrf_state' = "IDLE"
  /\ chan' = chan
  /\ hfclk' = "off" /\ dcdc' = FALSE
  /\ sighting' = [s \in Slots |-> Free]
  /\ g_request_tx' = 0
  /\ UNCHANGED <<g_rssi, tracker_enc, packetptr, phase, cc2, due>>

(* The tracker packet is out: forget what it reported. *)
ConfirmTracker ==
  /\ g_nrf_state = "TX_TRACKER"
  /\ g_nrf_state' = "IDLE"
  /\ chan' = "prox"
  /\ hfclk' = "off" /\ dcdc' = FALSE
  /\ sighting' = [s \in Slots |-> Free]
  /\ g_request_tx' = 0
  /\ UNCHANGED <<g_rssi, tracker_enc, packetptr, phase, cc2, due>>

IgnoreDisabled ==
  /\ g_nrf_state \notin {"RX_PROX", "TX_PROX", "TX_TRACKER"}
  /\ UNCHANGED <<g_nrf_state, g_request_tx, g_rssi, sighting, tracker_enc,
                 packetptr, phase, chan, hfclk, dcdc, cc2, due>>

(* The handler is entered and looks at EVENTS_DISABLED first. *)
RadioDisabled ==
  /\ isr = "idle" /\ events \cap RadioEvents # {} /\ RadioRuns
  /\ isr' = "end"
  /\ events' = events \ {"DISABLED"}
  /\ IF "DISABLED" \in events
     THEN StartListening \/ BeaconDone \/ StartTracker \/ ConfirmTracker
            \/ IgnoreDisabled
     ELSE UNCHANGED <<g_nrf_state, g_request_tx, g_rssi, sighting, tracker_enc,
                      packetptr, phase, chan, hfclk, dcdc, cc2, due>>
  /\ UNCHANGED <<g_listen_ratio, g_button_pressed, rx_enc, logged, rtc,
                 crcstatus, led, cc1, second>>

(* A tag may take two slots. *)
FirstFreeFault(uid) ==
  {s \in Slots : sighting[s] = Free
                   /\ \A t \in 1 .. s - 1 : sighting[t] \notin {Free}}

(* radio_on_prox_packet: the slot a sighting of uid goes to, if any: the    *)
(* first free one, provided no slot before it names the tag already.        *)
FirstFree(uid) ==
  {s \in Slots : sighting[s] = Free
                   /\ \A t \in 1 .. s - 1 : sighting[t] \notin {Free, uid}}

(* The last slot is shared by all who find no free one. *)
RadioOnProxPacketFault(packet) ==
  IF packet \in {Foreign, Self}
  THEN UNCHANGED <<sighting, logged>>
  ELSE /\ logged' = [uid |-> packet, power |-> g_rssi]
       /\ sighting' = [s \in Slots |->
                         IF s \in FirstFree(packet) \/ s = SIGHTING_SLOTS THEN packet ELSE sighting[s]]

RadioOnProxPacket(packet) ==
  IF packet \in {Foreign, Self}
  THEN UNCHANGED <<sighting, logged>>
  ELSE /\ logged' = [uid |-> packet, power |-> g_rssi]
       /\ sighting' = [s \in Slots |->
                         IF s \in FirstFree(packet) THEN packet ELSE sighting[s]]

(* The state is set in a window only, but any END counts as a reception. *)
RadioEndFault ==
  /\ isr = "end" /\ RadioRuns
  /\ isr' = "rssi"
  /\ events' = events \ {"END"}
  /\ g_nrf_state' = IF "END" \in events /\ g_nrf_state = "RX_PROX_PACKET"
                    THEN "RX_PROX_BLINK" ELSE g_nrf_state
  /\ IF "END" \in events /\ crcstatus /\ rx_enc # Noise
     THEN RadioOnProxPacket(rx_enc)
     ELSE UNCHANGED <<sighting, logged>>
  /\ UNCHANGED <<g_request_tx, g_listen_ratio, g_button_pressed, g_rssi,
                 tracker_enc, rx_enc, rtc, radio, power, timers>>

(* Then at EVENTS_END: whatever is in the receive buffer is decrypted. *)
RadioEnd ==
  /\ isr = "end" /\ RadioRuns
  /\ isr' = "rssi"
  /\ events' = events \ {"END"}
  /\ IF /\ "END" \in events
        /\ g_nrf_state = "RX_PROX_PACKET" /\ crcstatus
        /\ rx_enc # Noise
     THEN /\ g_nrf_state' = "RX_PROX_BLINK"
          /\ RadioOnProxPacket(rx_enc)
     ELSE UNCHANGED <<g_nrf_state, sighting, logged>>
  /\ UNCHANGED <<g_request_tx, g_listen_ratio, g_button_pressed, g_rssi,
                 tracker_enc, rx_enc, rtc, radio, power, timers>>

(* And at EVENTS_RSSIEND. *)
RadioRssi ==
  /\ isr = "rssi" /\ RadioRuns
  /\ isr' = "idle"
  /\ events' = events \ {"RSSIEND"}
  /\ g_rssi' = IF "RSSIEND" \in events THEN 1 ELSE g_rssi
  /\ UNCHANGED <<gvars, sighting, tracker_enc, rx_enc, logged, rtc, radio,
                 power, timers>>

-----------------------------------------------------------------------------
RadioIrq == RadioDisabled \/ RadioEnd \/ RadioRssi

Rtc0Irq ==
  \/ \E r \in 0 .. REQUEST_RANGE - 1 : DrawRequest(r)
  \/ \E spacing \in Spacing, bat_good \in BOOLEAN : SlotStart(spacing, bat_good)
  \/ ListenEnd \/ Blink \/ ListenStop \/ DisableRadio

Hardware == HfClkStarted \/ TxEnd \/ RampDown

Receive == \E content \in RxContents, crc_ok \in BOOLEAN : RxEnd(content, crc_ok)

Next ==
  \/ Tick \/ Hardware \/ RxAddress \/ Receive \/ ButtonPressed
  \/ PowerClockIrq \/ Second \/ Rtc0Irq \/ RadioIrq

Spec == Init /\ [][Next]_vars

(* Time passes, the hardware finishes what it started and interrupts are    *)
(* served.  rng(5) does not draw zero for ever.  Nothing makes other tags   *)
(* transmit or presses the button.                                          *)
Fairness ==
  /\ WF_vars(Tick) /\ WF_vars(Hardware) /\ WF_vars(PowerClockIrq)
  /\ WF_vars(RadioIrq) /\ WF_vars(Rtc0Irq) /\ SF_vars(Second)
  /\ SF_vars(\E r \in 1 .. REQUEST_RANGE - 1 : DrawRequest(r))

FairSpec == Spec /\ Fairness
-----------------------------------------------------------------------------
(* Nothing of a slot is left to do. *)
AtRest ==
  /\ g_nrf_state = "IDLE" /\ phase = "off" /\ hfclk # "starting"
  /\ events = {} /\ isr = "idle" /\ rtc \in {"idle", "draw"}
  /\ cc2 = Unarmed

(* Every variable stays in its range. *)
TypeOK ==
  /\ g_nrf_state \in NrfStates
  /\ g_request_tx \in 0 .. REQUEST_RANGE - 1
  /\ g_listen_ratio \in 0 .. LISTEN_RATIO - 1
  /\ g_button_pressed \in 0 .. BUTTON_SECONDS
  /\ g_rssi \in {0, 1}
  /\ sighting \in [Slots -> Uids \cup {Free, StatusBytes, Self}]
  /\ tracker_enc.proto \in {"NONE", "SIGHTING", "STATUS"}
  /\ tracker_enc.button \in BOOLEAN
  /\ rx_enc \in RxContents
  /\ logged \in [uid : RxContents \cup {Free}, power : {0, 1}]
  /\ rtc \in {"idle", "draw", "blink", "stop", "disable"}
  /\ isr \in {"idle", "end", "rssi"}
  /\ events \subseteq RadioEvents \cup {"HFCLKSTARTED"}
  /\ phase \in {"off", "tx", "rx", "sync", "ramp"}
  /\ packetptr \in {"prox", "rx", "tracker"} /\ chan \in {"prox", "tracker"}
  /\ crcstatus \in BOOLEAN /\ dcdc \in BOOLEAN /\ led \in BOOLEAN
  /\ hfclk \in {"off", "starting", "running"}
  /\ cc1 \in Nat /\ cc2 \in Nat \cup {Unarmed} /\ due \in Nat
  /\ second \in BOOLEAN

(* When the next slot comes, the last one is over: its packets are out, its *)
(* window is closed and every event is handled, so that the slot machine,   *)
(* the radio and the AES engine serve one slot at a time (radio.c 132-167). *)
SlotsDoNotOverlap == cc1 = 0 => AtRest

(* The radio is only ever on with the registers of what it is on for: a     *)
(* beacon leaves on the proximity channel from its own buffer, a tracker    *)
(* packet on the tracker channel from its own, a window listens on the      *)
(* proximity channel and fills the receive buffer; and a transmission never *)
(* loses the crystal (radio.c 212-226, 284-388).                            *)
RadioConfigured ==
  phase # "off" =>
    /\ <<packetptr, chan>> \in
         {<<"prox", "prox">>, <<"tracker", "tracker">>, <<"rx", "prox">>}
    /\ phase = "tx" => /\ packetptr # "rx"
                       /\ hfclk = "running"
                       /\ (packetptr = "tracker" <=> g_nrf_state = "TX_TRACKER")
    /\ phase \in {"rx", "sync"} => /\ packetptr = "rx"
                                   /\ rtc = "idle" => hfclk = "running"

(* Between slots the tag draws no current it does not need: crystal, DC/DC  *)
(* converter and indicator are off, and the radio is back on the proximity  *)
(* channel (radio.c 176-199, 358-384).                                      *)
RestSavesPower ==
  AtRest => hfclk = "off" /\ ~dcdc /\ ~led /\ chan = "prox"

(* Outside a tracker transmission the union of the tracker packet holds     *)
(* sightings and nothing else: different tags, none of them this one, in    *)
(* the first slots; the bytes of a status report never pass for a tag       *)
(* (radio.c 252-269, 321-331, 385).                                         *)
SlotsHoldSightings ==
  g_nrf_state # "TX_TRACKER" =>
    /\ \A s \in Slots : sighting[s] \in Uids \cup {Free}
    /\ \A s, t \in Slots : s < t =>
         \/ sighting[t] = Free
         \/ sighting[s] \notin {Free, sighting[t]}

(* A sighting is only recorded when a reception in the window just open has *)
(* ended: the receiver filled its own buffer and is no longer on, and the   *)
(* signal strength is that of the packet (radio.c 244-269, 289, 397-402).   *)
SightingHeard ==
  [][logged' # logged \/ (\E s \in Slots : sighting[s] = Free /\ sighting'[s] \in Uids)
       => packetptr = "rx" /\ phase \in {"ramp", "off"} /\ g_rssi = 1]_vars

(* A sighting leaves its slot only when a tracker packet that reports it    *)
(* has been transmitted on the tracker channel (radio.c 322-323, 368-386).  *)
SightingsReported ==
  [][(\E s \in Slots : sighting[s] \in Uids /\ sighting'[s] # sighting[s])
       => /\ tracker_enc.proto = "SIGHTING" /\ tracker_enc.sighting = sighting
          /\ chan = "tracker" /\ phase = "off"]_vars

(* Whatever keeps the tag busy, it comes to rest again. *)
RestsAgain == ~AtRest ~> AtRest

(* A tag never stops listening: window follows window (radio.c 147-156).    *)
ListensForEver == []<>(g_nrf_state = "RX_PROX_PACKET")

(* A tag never stops reporting: the request of every second is counted down *)
(* to a tracker transmission, and neither the windows in between nor the    *)
(* interrupt that clears the request (radio.c 386) can starve it.           *)
ReportsForEver == []<>(phase = "tx" /\ chan = "tracker")
=============================================================================
