--------------------------- MODULE TagRadioProofs ---------------------------
(***************************************************************************)
(* Proofs about ProxRadio, for every set of tags, every number of slots    *)
(* and all times that ProxRadioAssumption admits, and about BeaconRadio,   *)
(* for every set of packets and any number of them in mischief's round.    *)
(*                                                                         *)
(* A slot of the proximity tag goes through stages.  The inductive         *)
(* invariant says which one it is in, what that means for the state        *)
(* machine, the radio, the crystal and the pending interrupts, and how     *)
(* much time is left of the slot at least.  That of the other tags says    *)
(* the same of a round that is not cut short, without the time.            *)
(***************************************************************************)
EXTENDS ProxRadio, BeaconRadio, TLAPS

(* What a radio interrupt that waits beyond the ramp-down may leave over.   *)
LateEnd == IF LATE_RADIO_IRQ THEN {"END"} ELSE {}

(* A packet goes out: on the air, ramping down, or waiting for the handler. *)
Outgoing ==
  /\ hfclk = "running"
  /\ \/ phase = "tx" /\ events \subseteq LateEnd
     \/ phase = "ramp" /\ events \subseteq {"END"}
     \/ /\ phase = "off" /\ "DISABLED" \in events
        /\ events \subseteq {"DISABLED"} \cup LateEnd

(* The receiver has been started and may have taken a packet since, with    *)
(* its RSSI.                                                                *)
Incoming ==
  /\ packetptr = "rx" /\ chan = "prox"
  /\ \/ phase = "rx" /\ events \subseteq LateEnd
     \/ phase = "sync" /\ events \subseteq {"RSSIEND"} \cup LateEnd
     \/ phase = "ramp" /\ events \subseteq {"END"}
     \/ phase = "off" /\ events \subseteq {"DISABLED"} \cup LateEnd
  /\ \/ LATE_RADIO_IRQ \/ g_rssi = 1 \/ phase = "rx"
     \/ phase = "sync" /\ "RSSIEND" \in events

(* The receiver has had its packet. *)
Over == LATE_RADIO_IRQ \/ phase \in {"ramp", "off"}

Undisturbed == rtc \in {"idle", "draw"}

(* The stages of a slot.  In Rest nothing is left to do, but the handler    *)
(* may have to return and an event to be ignored.                           *)
Rest ==
  /\ g_nrf_state = "IDLE" /\ phase = "off" /\ chan = "prox"
  /\ hfclk = "off" /\ ~dcdc /\ ~led
  /\ events \subseteq {"DISABLED"} \cup LateEnd
  /\ Undisturbed /\ cc2 = Unarmed
  /\ cc1 > 0 \/ (events = {} /\ isr = "idle")

(* The crystal starts, ... *)
Starting ==
  /\ g_nrf_state \in {"TX_PROX", "RX_PROX"} /\ phase = "off" /\ chan = "prox"
  /\ hfclk = "starting" /\ ~led
  /\ events = {} /\ isr = "idle"
  /\ Undisturbed /\ cc2 = Unarmed
  /\ cc1 > due + AIR_TIME + AIR_TIME + LISTEN_TIME + BLINK_TIME

(* ... is stable, ... *)
Started ==
  /\ g_nrf_state \in {"TX_PROX", "RX_PROX"} /\ phase = "off" /\ chan = "prox"
  /\ hfclk = "running" /\ ~led
  /\ events = {"HFCLKSTARTED"} /\ isr = "idle"
  /\ Undisturbed /\ cc2 = Unarmed
  /\ cc1 > AIR_TIME + AIR_TIME + LISTEN_TIME + BLINK_TIME

OnAirTime == IF phase = "tx" THEN due ELSE 0

(* ... and the beacon goes out. *)
Beacon ==
  /\ g_nrf_state \in {"TX_PROX", "RX_PROX"} /\ Outgoing
  /\ packetptr = "prox" /\ chan = "prox" /\ ~led
  /\ Undisturbed /\ cc2 = Unarmed
  /\ cc1 > OnAirTime + AIR_TIME + LISTEN_TIME + BLINK_TIME

(* After it a tracker packet may follow ... *)
Tracker ==
  /\ g_nrf_state = "TX_TRACKER" /\ Outgoing
  /\ packetptr = "tracker" /\ chan = "tracker" /\ ~led
  /\ Undisturbed /\ cc2 = Unarmed
  /\ cc1 > OnAirTime

(* ... or a listening window, ... *)
Window ==
  /\ g_nrf_state \in {"RX_PROX_PACKET", "RX_PROX_BLINK"} /\ Incoming
  /\ g_nrf_state = "RX_PROX_BLINK" => Over
  /\ hfclk = "running" /\ ~led
  /\ Undisturbed /\ cc2 \in Nat
  /\ cc1 > cc2 + BLINK_TIME

(* ... at whose end the crystal stops, ... *)
Closing ==
  /\ rtc \in {"stop", "blink"}
  /\ rtc = "blink" => g_nrf_state = "RX_PROX_BLINK" /\ PROXIMITY_BLINK
  /\ g_nrf_state \in {"RX_PROX_PACKET", "RX_PROX_BLINK", "IDLE"} /\ Incoming
  /\ g_nrf_state = "RX_PROX_BLINK" => Over
  /\ hfclk = "off" /\ cc2 = Unarmed
  /\ cc1 > IF rtc = "blink" THEN BLINK_TIME ELSE 0

(* ... the indicator may flash, ... *)
Flash ==
  /\ g_nrf_state = "IDLE" /\ Incoming /\ Over /\ PROXIMITY_BLINK
  /\ hfclk = "off"
  /\ Undisturbed /\ cc2 \in Nat
  /\ cc1 > cc2

(* ... and the receiver is switched off. *)
Disabling ==
  /\ rtc = "disable"
  /\ g_nrf_state = "IDLE" /\ Incoming
  /\ hfclk = "off" /\ cc2 = Unarmed
  /\ cc1 > 0

Stage ==
  \/ Rest \/ Starting \/ Started \/ Beacon \/ Tracker \/ Window \/ Closing
  \/ Flash \/ Disabling

(* While the tracker packet is out, its slots are those it was made of, and *)
(* those of a status report name no tag.                                    *)
Reporting ==
  g_nrf_state = "TX_TRACKER" =>
    /\ tracker_enc.sighting = sighting
    /\ \/ tracker_enc.proto = "SIGHTING"
       \/ \A s \in Slots : sighting[s] \notin Uids

Inv == TypeOK /\ Stage /\ SlotsHoldSightings /\ Reporting

-----------------------------------------------------------------------------
(* The times are positive, and the shortest slot outlasts all of them.      *)
LEMMA Times ==
  /\ AIR_TIME \in Nat \ {0} /\ LISTEN_TIME \in Nat \ {0}
  /\ BLINK_TIME \in Nat \ {0} /\ HFCLK_TIME \in Nat \ {0}
  /\ PROX_SPACING \in Nat \ {0}
  /\ \A spacing \in Spacing :
       /\ spacing \in Nat
       /\ spacing > HFCLK_TIME + AIR_TIME + AIR_TIME + LISTEN_TIME + BLINK_TIME
<1>1. \A n \in {PROX_SPACING, SPACING_RANGE, LISTEN_TIME, BLINK_TIME,
                HFCLK_TIME, AIR_TIME} : n \in Nat \ {0}
  BY ProxRadioAssumption
<1>2. PROX_SPACING - SPACING_RANGE \div 2 >
         HFCLK_TIME + AIR_TIME + AIR_TIME + LISTEN_TIME + BLINK_TIME
  BY ProxRadioAssumption
<1>3. SPACING_RANGE \div 2 \in Int
  BY <1>1
<1>4. QED
  BY <1>1, <1>2, <1>3 DEF Spacing

(* A request is drawn from at least one value. *)
LEMMA RequestRange == REQUEST_RANGE \in Nat \ {0} /\ 0 \in 0 .. REQUEST_RANGE - 1
<1>1. REQUEST_RANGE \in Nat \ {0}
  BY ProxRadioAssumption
<1>2. QED
  BY <1>1

(* A tag, this one and the marks of a slot and of a buffer differ. *)
LEMMA Marks ==
  /\ Self \notin Uids /\ Free \notin Uids /\ StatusBytes \notin Uids
  /\ Foreign \notin Uids /\ Noise \notin Uids
  BY ProxRadioAssumption

(* The tag starts at rest. *)
LEMMA InvInit ==
  ASSUME Init
  PROVE  Inv
<1>1. TypeOK
  <2>1. /\ REQUEST_RANGE \in Nat \ {0} /\ LISTEN_RATIO \in Nat \ {0}
        /\ BUTTON_SECONDS \in Nat \ {0} /\ PROX_SPACING \in Nat \ {0}
    BY ProxRadioAssumption
  <2>2. sighting \in [Slots -> Uids \cup {Free, StatusBytes, Self}]
    BY DEF Init
  <2>3. /\ tracker_enc.proto \in {"NONE", "SIGHTING", "STATUS"}
        /\ tracker_enc.button \in BOOLEAN
    BY DEF Init
  <2>4. logged \in [uid : RxContents \cup {Free}, power : {0, 1}]
    BY DEF Init
  <2>5. rx_enc \in RxContents
    BY DEF Init, RxContents
  <2>6. /\ g_nrf_state = "IDLE" /\ g_request_tx = 0 /\ g_listen_ratio = 0
        /\ g_button_pressed = 0 /\ g_rssi = 0
        /\ rtc = "idle" /\ isr = "idle" /\ events = {}
        /\ phase = "off" /\ packetptr = "prox" /\ chan = "prox"
        /\ crcstatus \in BOOLEAN /\ dcdc \in BOOLEAN /\ led \in BOOLEAN
        /\ hfclk = "off"
        /\ cc1 = PROX_SPACING /\ cc2 = Unarmed /\ second \in BOOLEAN /\ due = 0
    BY DEF Init
  <2>7. QED
    BY <2>1, <2>2, <2>3, <2>4, <2>5, <2>6 DEF TypeOK, NrfStates, Unarmed
<1>2. Stage
  BY Times DEF Init, Stage, Rest, Undisturbed
<1>3. SlotsHoldSightings
  BY DEF Init, SlotsHoldSightings
<1>4. Reporting
  BY DEF Init, Reporting
<1>5. QED
  BY <1>1, <1>2, <1>3, <1>4 DEF Inv

-----------------------------------------------------------------------------
(* A step that leaves the slots and the report alone, and the state outside *)
(* a tracker transmission, leaves what is known of them.                    *)
LEMMA SlotsKept ==
  ASSUME Inv, UNCHANGED <<sighting, tracker_enc>>,
         g_nrf_state' = "TX_TRACKER" <=> g_nrf_state = "TX_TRACKER"
  PROVE  SlotsHoldSightings' /\ Reporting'
  BY DEF Inv, SlotsHoldSightings, Reporting

(* Time passes in every stage that waits for it. *)
LEMMA TickInv ==
  ASSUME Inv, Tick
  PROVE  Inv'
<1>1. /\ events = {} /\ rtc = "idle" /\ isr = "idle"
      /\ cc1 # 0 /\ cc2 # 0 /\ phase # "ramp"
      /\ hfclk = "starting" \/ phase = "tx" => due > 0
      /\ cc1' = cc1 - 1
      /\ cc2' = IF cc2 = Unarmed THEN Unarmed ELSE cc2 - 1
      /\ due' = IF due > 0 THEN due - 1 ELSE 0
      /\ UNCHANGED <<gvars, packets, rtc, isr, events, radio, power, second>>
  BY DEF Tick
<1>2. /\ UNCHANGED <<g_nrf_state, g_rssi, rtc, isr, events, phase, packetptr,
                     chan, hfclk, dcdc, led, sighting, tracker_enc>>
      /\ cc1 \in Nat /\ cc2 \in Nat \cup {Unarmed} /\ due \in Nat
  BY <1>1 DEF gvars, packets, radio, power, Inv, TypeOK
<1>3. TypeOK'
  BY <1>1 DEF Inv, TypeOK, Unarmed, gvars, packets, radio, power
<1>4. Stage'
  <2>1. CASE Rest
    <3>1. Rest'
      BY <1>1, <1>2, <2>1 DEF Rest, Undisturbed
    <3>2. QED
      BY <3>1 DEF Stage
  <2>2. CASE Starting
    <3>1. Starting'
      BY <1>1, <1>2, <2>2, Times DEF Starting, Undisturbed
    <3>2. QED
      BY <3>1 DEF Stage
  <2>3. CASE Beacon
    <3>1. Beacon'
      BY <1>1, <1>2, <2>3, Times DEF Beacon, Outgoing, OnAirTime, Undisturbed
    <3>2. QED
      BY <3>1 DEF Stage
  <2>4. CASE Tracker
    <3>1. Tracker'
      BY <1>1, <1>2, <2>4, Times DEF Tracker, Outgoing, OnAirTime, Undisturbed
    <3>2. QED
      BY <3>1 DEF Stage
  <2>5. CASE Window
    <3>1. Incoming' /\ (Over => Over')
      BY <1>1, <1>2, <2>5 DEF Window, Incoming, Over
    <3>2. Window'
      BY <1>1, <1>2, <2>5, <3>1, Times DEF Window, Undisturbed, Unarmed
    <3>3. QED
      BY <3>2 DEF Stage
  <2>6. CASE Flash
    <3>1. Incoming' /\ Over'
      BY <1>1, <1>2, <2>6 DEF Flash, Incoming, Over
    <3>2. Flash'
      BY <1>1, <1>2, <2>6, <3>1 DEF Flash, Undisturbed, Unarmed
    <3>3. QED
      BY <3>2 DEF Stage
  <2>7. ~Started /\ ~Closing /\ ~Disabling
    BY <1>1 DEF Started, Closing, Disabling
  <2>8. QED
    BY <2>1, <2>2, <2>3, <2>4, <2>5, <2>6, <2>7 DEF Inv, Stage
<1>5. SlotsHoldSightings' /\ Reporting'
  BY <1>2, SlotsKept
<1>6. QED
  BY <1>3, <1>4, <1>5 DEF Inv

(* The crystal is stable: the beacon is due. *)
LEMMA HfClkStartedInv ==
  ASSUME Inv, HfClkStarted
  PROVE  Inv'
<1>1. /\ hfclk = "starting" /\ hfclk' = "running"
      /\ events' = events \cup {"HFCLKSTARTED"}
      /\ due' = 0
      /\ UNCHANGED <<g_nrf_state, rtc, isr, phase, chan, led, cc1, cc2,
                     sighting, tracker_enc>>
  BY DEF HfClkStarted, gvars, packets, radio
<1>2. TypeOK'
  BY DEF HfClkStarted, Inv, TypeOK, gvars, packets, radio
<1>3. Stage'
  <2>1. Starting
    BY <1>1 DEF Inv, Stage, Rest, Starting, Started, Beacon, Tracker, Window,
       Closing, Flash, Disabling, Outgoing
  <2>2. Started'
    BY <1>1, <2>1, Times DEF Starting, Started, Undisturbed, Inv, TypeOK
  <2>3. QED
    BY <2>2 DEF Stage
<1>4. SlotsHoldSightings' /\ Reporting'
  BY <1>1, SlotsKept
<1>5. QED
  BY <1>2, <1>3, <1>4 DEF Inv

(* A packet of this tag ends. *)
LEMMA TxEndInv ==
  ASSUME Inv, TxEnd
  PROVE  Inv'
<1>1. /\ phase = "tx" /\ phase' = "ramp"
      /\ events' = events \cup {"END"}
      /\ due' = 0
      /\ UNCHANGED <<g_nrf_state, rtc, isr, packetptr, chan, hfclk, dcdc, led,
                     cc1, cc2, sighting, tracker_enc>>
  BY DEF TxEnd, gvars, packets, power
<1>2. TypeOK'
  BY DEF TxEnd, Inv, TypeOK, gvars, packets, power, RadioEvents
<1>3. Stage'
  <2>1. Beacon \/ Tracker
    BY <1>1 DEF Inv, Stage, Rest, Starting, Started, Window, Closing, Flash,
       Disabling, Incoming
  <2>2. Outgoing'
    BY <1>1, <2>1 DEF Beacon, Tracker, Outgoing, LateEnd
  <2>3. cc1 > OnAirTime => cc1 > OnAirTime'
    BY <1>1 DEF OnAirTime, Inv, TypeOK
  <2>4. CASE Beacon
    <3>1. cc1' > OnAirTime' + AIR_TIME + LISTEN_TIME + BLINK_TIME
      BY <1>1, <2>4, Times DEF Beacon, OnAirTime, Inv, TypeOK
    <3>2. Beacon'
      BY <1>1, <2>2, <2>4, <3>1 DEF Beacon, Undisturbed
    <3>3. QED
      BY <3>2 DEF Stage
  <2>5. CASE Tracker
    <3>1. Tracker'
      BY <1>1, <2>2, <2>3, <2>5 DEF Tracker, Undisturbed
    <3>2. QED
      BY <3>1 DEF Stage
  <2>6. QED
    BY <2>1, <2>4, <2>5
<1>4. SlotsHoldSightings' /\ Reporting'
  BY <1>1, SlotsKept
<1>5. QED
  BY <1>2, <1>3, <1>4 DEF Inv

(* What the stages look at, apart from the receiver. *)
Frame == <<g_nrf_state, rtc, hfclk, dcdc, led, cc1, cc2>>

(* The stages of the receiver. *)
Receiving == Window \/ Closing \/ Flash \/ Disabling

(* The receiver moves on and stays within what the stage allows. *)
LEMMA ReceiverMoves ==
  ASSUME Receiving, Incoming', Over => Over', UNCHANGED Frame
  PROVE  Stage'
<1>1. CASE Window
  <2>1. Window'
    BY <1>1 DEF Window, Frame, Undisturbed
  <2>2. QED
    BY <2>1 DEF Stage
<1>2. CASE Closing
  <2>1. Closing'
    BY <1>2 DEF Closing, Frame
  <2>2. QED
    BY <2>1 DEF Stage
<1>3. CASE Flash
  <2>1. Flash'
    BY <1>3 DEF Flash, Frame, Undisturbed
  <2>2. QED
    BY <2>1 DEF Stage
<1>4. CASE Disabling
  <2>1. Disabling'
    BY <1>4 DEF Disabling, Frame
  <2>2. QED
    BY <2>1 DEF Stage
<1>5. QED
  BY <1>1, <1>2, <1>3, <1>4 DEF Receiving

(* Each of them has the receiver's registers and events. *)
LEMMA ReceivingIsIncoming ==
  ASSUME Receiving
  PROVE  Incoming
  BY DEF Receiving, Window, Closing, Flash, Disabling

(* A packet is heard, ... *)
LEMMA RxAddressInv ==
  ASSUME Inv, RxAddress
  PROVE  Inv'
<1>1. /\ phase = "rx" /\ phase' = "sync"
      /\ events' = events \cup {"RSSIEND"}
      /\ UNCHANGED <<g_nrf_state, g_rssi, rtc, isr, packetptr, chan, hfclk,
                     dcdc, led, cc1, cc2, sighting, tracker_enc>>
  BY DEF RxAddress, gvars, packets, power, timers
<1>2. TypeOK'
  BY DEF RxAddress, Inv, TypeOK, gvars, packets, power, timers, RadioEvents
<1>3. Stage'
  <2>1. Receiving
    BY <1>1 DEF Inv, Stage, Rest, Starting, Started, Beacon, Tracker, Outgoing,
       Receiving
  <2>2. Incoming'
    BY <1>1, <2>1, ReceivingIsIncoming DEF Incoming
  <2>3. Over => Over'
    BY <1>1 DEF Over
  <2>4. QED
    BY <1>1, <2>1, <2>2, <2>3, ReceiverMoves DEF Frame
<1>4. SlotsHoldSightings' /\ Reporting'
  BY <1>1, SlotsKept
<1>5. QED
  BY <1>2, <1>3, <1>4 DEF Inv

(* ... and ends. *)
LEMMA RxEndInv ==
  ASSUME Inv, NEW content \in RxContents, NEW crc_ok \in BOOLEAN,
         RxEnd(content, crc_ok)
  PROVE  Inv'
<1>1. /\ phase = "sync" /\ phase' = "ramp"
      /\ "RSSIEND" \notin events /\ isr = "idle"
      /\ events' = events \cup {"END"}
      /\ UNCHANGED <<g_nrf_state, g_rssi, rtc, isr, packetptr, chan, hfclk,
                     dcdc, led, cc1, cc2, sighting, tracker_enc>>
  BY DEF RxEnd, gvars, power, timers
<1>2. TypeOK'
  <2>1. rx_enc' \in RxContents /\ crcstatus' \in BOOLEAN
    BY DEF RxEnd
  <2>2. UNCHANGED <<g_request_tx, g_listen_ratio, g_button_pressed, logged,
                    second, due>>
    BY DEF RxEnd, gvars, timers
  <2>3. QED
    BY <1>1, <2>1, <2>2 DEF Inv, TypeOK, RadioEvents
<1>3. Stage'
  <2>1. Receiving
    BY <1>1 DEF Inv, Stage, Rest, Starting, Started, Beacon, Tracker, Outgoing,
       Receiving
  <2>2. Incoming'
    BY <1>1, <2>1, ReceivingIsIncoming DEF Incoming, LateEnd
  <2>3. Over => Over'
    BY <1>1 DEF Over
  <2>4. QED
    BY <1>1, <2>1, <2>2, <2>3, ReceiverMoves DEF Frame
<1>4. SlotsHoldSightings' /\ Reporting'
  BY <1>1, SlotsKept
<1>5. QED
  BY <1>2, <1>3, <1>4 DEF Inv

(* The radio is off after either kind of packet. *)
LEMMA RampDownInv ==
  ASSUME Inv, RampDown
  PROVE  Inv'
<1>1. /\ phase = "ramp" /\ phase' = "off"
      /\ LATE_RADIO_IRQ \/ "END" \notin events
      /\ events' = events \cup {"DISABLED"}
      /\ UNCHANGED <<g_nrf_state, g_rssi, rtc, isr, packetptr, chan, hfclk,
                     dcdc, led, cc1, cc2, due, sighting, tracker_enc>>
  BY DEF RampDown, gvars, packets, power, timers
<1>2. TypeOK'
  BY DEF RampDown, Inv, TypeOK, gvars, packets, power, timers, RadioEvents
<1>3. Stage'
  <2>1. Receiving \/ Beacon \/ Tracker
    BY <1>1 DEF Inv, Stage, Rest, Starting, Started, Receiving
  <2>2. CASE Receiving
    <3>1. Incoming'
      BY <1>1, <2>2, ReceivingIsIncoming DEF Incoming, LateEnd
    <3>2. Over => Over'
      BY <1>1 DEF Over
    <3>3. QED
      BY <1>1, <2>2, <3>1, <3>2, ReceiverMoves DEF Frame
  <2>3. Beacon \/ Tracker => Outgoing'
    BY <1>1 DEF Beacon, Tracker, Outgoing, LateEnd
  <2>4. OnAirTime' = OnAirTime
    BY <1>1 DEF OnAirTime
  <2>5. CASE Beacon
    <3>1. Beacon'
      BY <1>1, <2>3, <2>4, <2>5 DEF Beacon, Undisturbed
    <3>2. QED
      BY <3>1 DEF Stage
  <2>6. CASE Tracker
    <3>1. Tracker'
      BY <1>1, <2>3, <2>4, <2>6 DEF Tracker, Undisturbed
    <3>2. QED
      BY <3>1 DEF Stage
  <2>7. QED
    BY <2>1, <2>2, <2>5, <2>6
<1>4. SlotsHoldSightings' /\ Reporting'
  BY <1>1, SlotsKept
<1>5. QED
  BY <1>2, <1>3, <1>4 DEF Inv

-----------------------------------------------------------------------------
(* A step of no consequence for the slot. *)
LEMMA StageKept ==
  ASSUME Stage, UNCHANGED <<g_nrf_state, g_rssi, isr, events, phase, packetptr,
                            chan, hfclk, dcdc, led, cc1, cc2, due>>,
         rtc' = rtc \/ (Undisturbed /\ Undisturbed')
  PROVE  Stage'
<1>1. /\ Outgoing' <=> Outgoing
      /\ Incoming' <=> Incoming
      /\ Over' <=> Over
      /\ OnAirTime' = OnAirTime
  BY DEF Outgoing, Incoming, Over, OnAirTime
<1>2. Undisturbed => Undisturbed'
  BY DEF Undisturbed
<1>3. Rest \/ Starting \/ Started => Stage'
  BY <1>1, <1>2 DEF Stage, Rest, Starting, Started
<1>4. Beacon \/ Tracker => Stage'
  BY <1>1, <1>2 DEF Stage, Beacon, Tracker
<1>5. Window \/ Flash => Stage'
  BY <1>1, <1>2 DEF Stage, Window, Flash
<1>6. Closing \/ Disabling => rtc' = rtc
  BY DEF Closing, Disabling, Undisturbed
<1>7. Closing \/ Disabling => Stage'
  BY <1>1, <1>6 DEF Stage, Closing, Disabling
<1>8. QED
  BY <1>3, <1>4, <1>5, <1>7 DEF Stage

(* The button, the seconds and the draw of a request. *)
LEMMA RequestInv ==
  ASSUME Inv,
         ButtonPressed \/ Second \/ \E r \in 0 .. REQUEST_RANGE - 1 : DrawRequest(r)
  PROVE  Inv'
<1>1. /\ UNCHANGED <<g_nrf_state, g_rssi, isr, events, phase, packetptr, chan,
                     hfclk, dcdc, led, cc1, cc2, due, sighting, tracker_enc>>
      /\ rtc' = rtc \/ (Undisturbed /\ Undisturbed')
  BY DEF ButtonPressed, Second, DrawRequest, packets, radio, power, timers,
     Undisturbed
<1>2. BUTTON_SECONDS \in Nat
  BY ProxRadioAssumption
<1>3. TypeOK'
  <2>1. CASE ButtonPressed
    BY <1>2, <2>1 DEF ButtonPressed, Inv, TypeOK, packets, radio, power, timers
  <2>2. CASE Second
    <3>1. g_button_pressed' \in 0 .. BUTTON_SECONDS
      BY <1>2, <2>2 DEF Second, Inv, TypeOK
    <3>2. second' \in BOOLEAN /\ rtc' \in {"idle", "draw"}
      BY <2>2 DEF Second
    <3>3. UNCHANGED <<g_nrf_state, g_request_tx, g_listen_ratio, packets, isr,
                      events, radio, power, cc1, cc2, due>>
      BY <2>2 DEF Second
    <3>4. QED
      BY <3>1, <3>2, <3>3 DEF Inv, TypeOK, packets, radio, power
  <2>3. CASE \E r \in 0 .. REQUEST_RANGE - 1 : DrawRequest(r)
    BY <2>3 DEF DrawRequest, Inv, TypeOK, packets, radio, power, timers
  <2>4. QED
    BY <2>1, <2>2, <2>3
<1>4. Stage'
  BY <1>1, StageKept DEF Inv
<1>5. SlotsHoldSightings' /\ Reporting'
  BY <1>1, SlotsKept
<1>6. QED
  BY <1>3, <1>4, <1>5 DEF Inv

(* The beacon is encrypted and sent. *)
LEMMA PowerClockIrqInv ==
  ASSUME Inv, PowerClockIrq
  PROVE  Inv'
<1>1. /\ "HFCLKSTARTED" \in events
      /\ events' = events \ {"HFCLKSTARTED"}
      /\ packetptr' = "prox" /\ phase' = "tx" /\ due' = AIR_TIME
      /\ UNCHANGED <<g_nrf_state, rtc, isr, chan, hfclk, dcdc, led, cc1, cc2,
                     sighting, tracker_enc>>
  BY DEF PowerClockIrq, gvars, packets, power
<1>2. TypeOK'
  BY Times DEF PowerClockIrq, Inv, TypeOK, gvars, packets, power
<1>3. Stage'
  <2>1. Started
    BY <1>1 DEF Inv, Stage, Rest, Starting, Beacon, Tracker, Window, Closing,
       Flash, Disabling, Outgoing, Incoming, LateEnd
  <2>2. Outgoing'
    BY <1>1, <2>1 DEF Started, Outgoing
  <2>3. OnAirTime' = AIR_TIME
    BY <1>1 DEF OnAirTime
  <2>4. Beacon'
    BY <1>1, <2>1, <2>2, <2>3 DEF Started, Beacon, Undisturbed
  <2>5. QED
    BY <2>4 DEF Stage
<1>4. SlotsHoldSightings' /\ Reporting'
  BY <1>1, SlotsKept
<1>5. QED
  BY <1>2, <1>3, <1>4 DEF Inv

(* Every stage but Rest ends before the next slot starts. *)
LEMMA SlotsAreApart ==
  ASSUME TypeOK, Stage, cc1 = 0
  PROVE  Rest
<1>1. cc1 \in Nat /\ due \in Nat /\ cc2 \in Nat \cup {Unarmed}
  BY DEF TypeOK
<1>2. OnAirTime \in Nat
  BY <1>1 DEF OnAirTime
<1>3. ~Starting /\ ~Started
  BY <1>1, Times DEF Starting, Started
<1>4. ~Beacon /\ ~Tracker
  BY <1>1, <1>2, Times DEF Beacon, Tracker
<1>5. ~Window /\ ~Flash
  BY <1>1, Times DEF Window, Flash
<1>6. ~Closing /\ ~Disabling
  BY <1>1, Times DEF Closing, Disabling
<1>7. QED
  BY <1>3, <1>4, <1>5, <1>6 DEF Stage

(* A slot starts. *)
LEMMA SlotStartInv ==
  ASSUME Inv, NEW spacing \in Spacing, NEW bat_good \in BOOLEAN,
         SlotStart(spacing, bat_good)
  PROVE  Inv'
<1>1. /\ cc1 = 0 /\ cc1' = spacing
      /\ hfclk' = "starting" /\ due' = HFCLK_TIME
      /\ g_nrf_state' \in {"TX_PROX", "RX_PROX"}
      /\ UNCHANGED <<rtc, isr, events, phase, chan, led, cc2, sighting,
                     tracker_enc>>
  BY DEF SlotStart, packets, radio
<1>2. Rest
  BY <1>1, SlotsAreApart DEF Inv
<1>3. TypeOK'
  <2>1. LISTEN_RATIO \in Nat \ {0}
    BY ProxRadioAssumption
  <2>2. g_listen_ratio' \in 0 .. LISTEN_RATIO - 1 /\ dcdc' \in BOOLEAN
    BY <2>1 DEF SlotStart, Inv, TypeOK
  <2>3. UNCHANGED <<g_request_tx, g_button_pressed, g_rssi, rx_enc, logged,
                    packetptr, crcstatus>>
    BY DEF SlotStart, packets, radio
  <2>4. g_nrf_state' \in NrfStates /\ second' \in BOOLEAN
    BY <1>1 DEF SlotStart, NrfStates
  <2>5. cc1' \in Nat /\ due' \in Nat
    BY <1>1, Times
  <2>6. QED
    BY <1>1, <2>2, <2>3, <2>4, <2>5 DEF Inv, TypeOK
<1>4. Stage'
  <2>1. cc1' > due' + AIR_TIME + AIR_TIME + LISTEN_TIME + BLINK_TIME
    BY <1>1, Times
  <2>2. cc1 \in Nat /\ ~(cc1 > 0)
    BY <1>1
  <2>3. Starting'
    BY <1>1, <1>2, <2>1, <2>2 DEF Rest, Starting, Undisturbed
  <2>4. QED
    BY <2>3 DEF Stage
<1>5. SlotsHoldSightings' /\ Reporting'
  BY <1>1, <1>2, SlotsKept DEF Rest
<1>6. QED
  BY <1>3, <1>4, <1>5 DEF Inv

(* The window or the flash is over: the crystal stops. *)
LEMMA ListenEndInv ==
  ASSUME Inv, ListenEnd
  PROVE  Inv'
<1>1. /\ cc2 = 0 /\ cc2' = Unarmed /\ hfclk' = "off"
      /\ rtc' = IF PROXIMITY_BLINK /\ g_nrf_state = "RX_PROX_BLINK"
                THEN "blink" ELSE "stop"
      /\ UNCHANGED <<g_nrf_state, g_rssi, isr, events, phase, packetptr, chan,
                     cc1, sighting, tracker_enc>>
  BY DEF ListenEnd, gvars, packets, radio
<1>2. TypeOK'
  <2>1. cc2' \in Nat \cup {Unarmed}
    BY <1>1
  <2>2. UNCHANGED <<g_request_tx, g_listen_ratio, g_button_pressed, rx_enc,
                    logged, crcstatus, dcdc, led, second, due>>
    BY DEF ListenEnd, gvars, packets, radio
  <2>3. QED
    BY <1>1, <2>1, <2>2 DEF Inv, TypeOK
<1>3. Stage'
  <2>1. cc2 # Unarmed
    BY <1>1 DEF Unarmed
  <2>2. Window \/ Flash
    BY <2>1 DEF Inv, Stage, Rest, Starting, Started, Beacon, Tracker, Closing,
       Disabling
  <2>3. Incoming' /\ (Over => Over')
    BY <1>1, <2>2 DEF Window, Flash, Incoming, Over
  <2>4. cc1' > IF rtc' = "blink" THEN BLINK_TIME ELSE 0
    BY <1>1, <2>2, Times DEF Window, Flash, Inv, TypeOK
  <2>5. Closing'
    BY <1>1, <2>2, <2>3, <2>4 DEF Window, Flash, Closing
  <2>6. QED
    BY <2>5 DEF Stage
<1>4. SlotsHoldSightings' /\ Reporting'
  BY <1>1, SlotsKept
<1>5. QED
  BY <1>2, <1>3, <1>4 DEF Inv

(* A packet has been received: the indicator is lit for a while. *)
LEMMA BlinkInv ==
  ASSUME Inv, Blink
  PROVE  Inv'
<1>1. /\ rtc = "blink" /\ rtc' = "idle"
      /\ g_nrf_state' = "IDLE" /\ cc2' = BLINK_TIME
      /\ UNCHANGED <<g_rssi, isr, events, phase, packetptr, chan, hfclk, cc1,
                     sighting, tracker_enc>>
  BY DEF Blink, packets, radio
<1>2. TypeOK'
  <2>1. UNCHANGED <<g_request_tx, g_listen_ratio, g_button_pressed, rx_enc,
                    logged, crcstatus, dcdc, second, due>>
    BY DEF Blink, packets, radio
  <2>2. led' \in BOOLEAN
    BY DEF Blink
  <2>3. QED
    BY <1>1, <2>1, <2>2, Times DEF Inv, TypeOK, NrfStates
<1>3. Closing
  BY <1>1 DEF Inv, Stage, Rest, Starting, Started, Beacon, Tracker, Window,
     Flash, Disabling, Undisturbed
<1>4. Stage'
  <2>1. Incoming' /\ Over'
    BY <1>1, <1>3 DEF Closing, Incoming, Over
  <2>2. Flash'
    BY <1>1, <1>3, <2>1, Times DEF Closing, Flash, Undisturbed
  <2>3. QED
    BY <2>2 DEF Stage
<1>5. SlotsHoldSightings' /\ Reporting'
  BY <1>1, <1>3, SlotsKept DEF Closing
<1>6. QED
  BY <1>2, <1>4, <1>5 DEF Inv

(* Otherwise the receiver is to be switched off ... *)
LEMMA ListenStopInv ==
  ASSUME Inv, ListenStop
  PROVE  Inv'
<1>1. /\ rtc = "stop" /\ rtc' = "disable" /\ g_nrf_state' = "IDLE"
      /\ UNCHANGED <<g_rssi, isr, events, phase, packetptr, chan, hfclk, cc1,
                     cc2, sighting, tracker_enc>>
  BY DEF ListenStop, packets, radio, power, timers
<1>2. TypeOK'
  <2>1. UNCHANGED <<g_request_tx, g_listen_ratio, g_button_pressed, rx_enc,
                    logged, crcstatus, dcdc, led, second, due>>
    BY DEF ListenStop, packets, radio, power, timers
  <2>2. QED
    BY <1>1, <2>1 DEF Inv, TypeOK, NrfStates
<1>3. Closing
  BY <1>1 DEF Inv, Stage, Rest, Starting, Started, Beacon, Tracker, Window,
     Flash, Disabling, Undisturbed
<1>4. Stage'
  <2>1. Incoming'
    BY <1>1, <1>3 DEF Closing, Incoming
  <2>2. cc1' > 0
    BY <1>1, <1>3 DEF Closing
  <2>3. Disabling'
    BY <1>1, <1>3, <2>1, <2>2 DEF Closing, Disabling
  <2>4. QED
    BY <2>3 DEF Stage
<1>5. SlotsHoldSightings' /\ Reporting'
  BY <1>1, <1>3, SlotsKept DEF Closing
<1>6. QED
  BY <1>2, <1>4, <1>5 DEF Inv

(* ... and is, in whatever it is doing. *)
LEMMA DisableRadioInv ==
  ASSUME Inv, DisableRadio
  PROVE  Inv'
<1>1. /\ rtc = "disable" /\ rtc' = "idle"
      /\ events = {} /\ phase' = "off"
      /\ events' \subseteq {"DISABLED"}
      /\ UNCHANGED <<g_nrf_state, g_rssi, isr, packetptr, chan, hfclk, cc1, cc2,
                     sighting, tracker_enc>>
  BY DEF DisableRadio, Rtc0Runs, gvars, timers
<1>2. ~dcdc' /\ ~led'
  BY DEF DisableRadio
<1>3. TypeOK'
  <2>1. UNCHANGED <<g_request_tx, g_listen_ratio, g_button_pressed, logged,
                    crcstatus, second, due>>
    BY DEF DisableRadio, gvars, timers
  <2>2. rx_enc' \in RxContents /\ dcdc' \in BOOLEAN /\ led' \in BOOLEAN
    BY DEF DisableRadio, Inv, TypeOK, RxContents
  <2>3. QED
    BY <1>1, <2>1, <2>2 DEF Inv, TypeOK, RadioEvents
<1>4. Stage'
  <2>1. Disabling
    BY <1>1 DEF Inv, Stage, Rest, Starting, Started, Beacon, Tracker, Window,
       Closing, Flash, Undisturbed
  <2>2. Rest'
    BY <1>1, <1>2, <2>1 DEF Disabling, Incoming, Rest, Undisturbed
  <2>3. QED
    BY <2>2 DEF Stage
<1>5. SlotsHoldSightings' /\ Reporting'
  BY <1>1, SlotsKept
<1>6. QED
  BY <1>3, <1>4, <1>5 DEF Inv

-----------------------------------------------------------------------------
(* The radio handler only runs in the stages in which the radio is on or    *)
(* has just been switched off.                                              *)
LEMMA HandlerStages ==
  ASSUME Stage, RadioRuns, isr # "idle" \/ events \cap RadioEvents # {}
  PROVE  (Rest /\ cc1 > 0) \/ Beacon \/ Tracker \/ Receiving
<1>1. ~Starting /\ ~Started
  BY DEF Starting, Started, RadioRuns, RadioEvents
<1>2. Rest => cc1 > 0
  BY DEF Rest
<1>3. QED
  BY <1>1, <1>2 DEF Stage, Receiving

(* It looks at END and RSSIEND without leaving the stage. *)
LEMMA HandlerMoves ==
  ASSUME Stage, RadioRuns, isr # "idle" \/ events \cap RadioEvents # {},
         events' \subseteq events,
         events \subseteq events' \cup {"END", "RSSIEND"},
         g_rssi' \in {g_rssi, 1},
         "RSSIEND" \in events => "RSSIEND" \in events' \/ g_rssi' = 1,
         UNCHANGED <<g_nrf_state, rtc, phase, packetptr, chan, hfclk, dcdc, led,
                     cc1, cc2, due>>
  PROVE  Stage'
<1>1. (Rest /\ cc1 > 0) \/ Beacon \/ Tracker \/ Receiving
  BY HandlerStages
<1>2. CASE Rest /\ cc1 > 0
  <2>1. Rest'
    BY <1>2 DEF Rest, Undisturbed
  <2>2. QED
    BY <2>1 DEF Stage
<1>3. CASE Beacon \/ Tracker
  <2>1. Outgoing' /\ OnAirTime' = OnAirTime
    BY <1>3 DEF Beacon, Tracker, Outgoing, OnAirTime
  <2>2. Beacon => Beacon'
    BY <2>1 DEF Beacon, Undisturbed
  <2>3. Tracker => Tracker'
    BY <2>1 DEF Tracker, Undisturbed
  <2>4. QED
    BY <1>3, <2>2, <2>3 DEF Stage
<1>4. CASE Receiving
  <2>1. Incoming'
    BY <1>4, ReceivingIsIncoming DEF Incoming
  <2>2. Over => Over'
    BY DEF Over
  <2>3. QED
    BY <1>4, <2>1, <2>2, ReceiverMoves DEF Frame
<1>5. QED
  BY <1>1, <1>2, <1>3, <1>4

(* What every alternative of the first part of the handler does. *)
LEMMA DisabledFacts ==
  ASSUME Inv, RadioDisabled
  PROVE  /\ isr = "idle" /\ events \cap RadioEvents # {} /\ RadioRuns
         /\ isr' = "end" /\ events' = events \ {"DISABLED"}
         /\ UNCHANGED <<g_listen_ratio, g_button_pressed, rx_enc, logged, rtc,
                        crcstatus, led, cc1, second>>
  BY DEF RadioDisabled

(* The window is opened: the stage follows the beacon. *)
LEMMA StartListeningInv ==
  ASSUME Inv, RadioDisabled, "DISABLED" \in events, StartListening
  PROVE  Inv'
<1>1. /\ g_nrf_state = "RX_PROX" /\ g_nrf_state' = "RX_PROX_PACKET"
      /\ packetptr' = "rx" /\ phase' = "rx" /\ g_rssi' = 0
      /\ cc2' = LISTEN_TIME
      /\ UNCHANGED <<g_request_tx, sighting, tracker_enc, chan, hfclk, dcdc, due>>
  BY DEF StartListening
<1>2. TypeOK'
  BY <1>1, DisabledFacts, Times DEF Inv, TypeOK, NrfStates
<1>3. Beacon
  <2>1. ~Rest /\ ~Tracker /\ ~Receiving
    BY <1>1 DEF Rest, Tracker, Receiving, Window, Closing, Flash, Disabling
  <2>2. QED
    BY <2>1, DisabledFacts, HandlerStages DEF Inv
<1>4. Stage'
  <2>1. phase = "off"
    BY <1>3 DEF Beacon, Outgoing, LateEnd
  <2>2. Incoming'
    BY <1>1, <1>3, DisabledFacts DEF Beacon, Outgoing, Incoming, LateEnd
  <2>3. cc1' > cc2' + BLINK_TIME
    BY <1>1, <1>3, <2>1, DisabledFacts, Times
       DEF Beacon, OnAirTime, Inv, TypeOK
  <2>4. Window'
    BY <1>1, <1>3, <2>2, <2>3, DisabledFacts, Times
       DEF Beacon, Window, Undisturbed, Outgoing
  <2>5. QED
    BY <2>4 DEF Stage
<1>5. SlotsHoldSightings' /\ Reporting'
  BY <1>1, SlotsKept
<1>6. QED
  BY <1>2, <1>4, <1>5 DEF Inv

(* A transmitting slot ends with its beacon. *)
LEMMA BeaconDoneInv ==
  ASSUME Inv, RadioDisabled, "DISABLED" \in events, BeaconDone
  PROVE  Inv'
<1>1. /\ g_nrf_state = "TX_PROX" /\ g_nrf_state' = "IDLE"
      /\ hfclk' = "off"
      /\ UNCHANGED <<g_rssi, sighting, tracker_enc, packetptr, phase, chan, cc2,
                     due>>
  BY DEF BeaconDone
<1>2. ~dcdc'
  BY DEF BeaconDone
<1>3. TypeOK'
  <2>1. g_request_tx' \in 0 .. REQUEST_RANGE - 1
    BY RequestRange DEF BeaconDone, Inv, TypeOK
  <2>2. dcdc' \in BOOLEAN
    BY DEF BeaconDone
  <2>3. QED
    BY <1>1, <2>1, <2>2, DisabledFacts DEF Inv, TypeOK, NrfStates
<1>4. Beacon
  <2>1. ~Rest /\ ~Tracker /\ ~Receiving
    BY <1>1 DEF Rest, Tracker, Receiving, Window, Closing, Flash, Disabling
  <2>2. QED
    BY <2>1, DisabledFacts, HandlerStages DEF Inv
<1>5. Stage'
  <2>1. phase = "off" /\ events' \subseteq LateEnd
    BY <1>4, DisabledFacts DEF Beacon, Outgoing, LateEnd
  <2>2. cc1' > 0
    BY <1>4, DisabledFacts, Times DEF Beacon, OnAirTime, Inv, TypeOK
  <2>3. LateEnd' = LateEnd
    BY DEF LateEnd
  <2>4. Rest'
    BY <1>1, <1>2, <1>4, <2>1, <2>2, <2>3, DisabledFacts
       DEF Beacon, Rest, Undisturbed
  <2>5. QED
    BY <2>4 DEF Stage
<1>6. SlotsHoldSightings' /\ Reporting'
  BY <1>1, SlotsKept
<1>7. QED
  BY <1>3, <1>5, <1>6 DEF Inv

(* No sighting lies behind a free slot. *)
LEMMA FirstSlotTells ==
  ASSUME SlotsHoldSightings, g_nrf_state # "TX_TRACKER", sighting[1] = Free
  PROVE  \A s \in Slots : sighting[s] = Free
<1>1. 1 \in Slots /\ \A s \in Slots : s = 1 \/ 1 < s
  BY ProxRadioAssumption DEF Slots
<1>2. QED
  BY <1>1 DEF SlotsHoldSightings

(* The tracker packet reports the slots as they are; the status member only *)
(* covers free ones.                                                        *)
LEMMA StartTrackerInv ==
  ASSUME Inv, RadioDisabled, "DISABLED" \in events, StartTracker
  PROVE  Inv'
<1>1. /\ g_nrf_state = "TX_PROX" /\ g_nrf_state' = "TX_TRACKER"
      /\ g_request_tx = 1 /\ g_request_tx' = 0
      /\ chan' = "tracker" /\ packetptr' = "tracker" /\ phase' = "tx"
      /\ due' = AIR_TIME
      /\ UNCHANGED <<g_rssi, cc2, hfclk, dcdc>>
  BY DEF StartTracker
<1>2. /\ sighting' = IF sighting[1] # Free THEN sighting ELSE StatusOverlay
      /\ tracker_enc' =
           [proto |-> IF sighting[1] # Free THEN "SIGHTING" ELSE "STATUS",
            button |-> g_button_pressed > 0,
            sighting |-> sighting']
  BY DEF StartTracker
<1>3. /\ tracker_enc'.proto = IF sighting[1] # Free THEN "SIGHTING" ELSE "STATUS"
      /\ tracker_enc'.button \in BOOLEAN
      /\ tracker_enc'.sighting = sighting'
  <2> DEFINE pressed == g_button_pressed > 0
             proto == IF sighting[1] # Free THEN "SIGHTING" ELSE "STATUS"
  <2>1. pressed \in BOOLEAN
    OBVIOUS
  <2>2. tracker_enc' = [proto |-> proto, button |-> pressed,
                        sighting |-> sighting']
    BY <1>2
  <2> HIDE DEF pressed, proto
  <2>3. /\ tracker_enc'.proto = proto /\ tracker_enc'.button = pressed
        /\ tracker_enc'.sighting = sighting'
    BY <2>2, Zenon
  <2>4. QED
    BY <2>1, <2>3 DEF proto
<1>4. StatusOverlay \in [Slots -> Uids \cup {Free, StatusBytes, Self}]
  BY DEF Inv, TypeOK, StatusOverlay
<1>5. TypeOK'
  <2>1. sighting' \in [Slots -> Uids \cup {Free, StatusBytes, Self}]
    BY <1>2, <1>4 DEF Inv, TypeOK
  <2>2. tracker_enc'.proto \in {"NONE", "SIGHTING", "STATUS"}
    BY <1>3
  <2>3. g_request_tx' \in 0 .. REQUEST_RANGE - 1
    BY <1>1, RequestRange
  <2>4. QED
    BY <1>1, <1>3, <2>1, <2>2, <2>3, DisabledFacts, Times
       DEF Inv, TypeOK, NrfStates
<1>6. Beacon
  <2>1. ~Rest /\ ~Tracker /\ ~Receiving
    BY <1>1 DEF Rest, Tracker, Receiving, Window, Closing, Flash, Disabling
  <2>2. QED
    BY <2>1, DisabledFacts, HandlerStages DEF Inv
<1>7. Stage'
  <2>1. phase = "off"
    BY <1>6 DEF Beacon, Outgoing, LateEnd
  <2>2. Outgoing'
    BY <1>1, <1>6, DisabledFacts DEF Beacon, Outgoing, LateEnd
  <2>3. cc1' > OnAirTime'
    BY <1>1, <1>6, <2>1, DisabledFacts, Times DEF Beacon, OnAirTime, Inv, TypeOK
  <2>4. Tracker'
    BY <1>1, <1>6, <2>2, <2>3, DisabledFacts DEF Beacon, Tracker, Undisturbed
  <2>5. QED
    BY <2>4 DEF Stage
<1>8. SlotsHoldSightings'
  BY <1>1 DEF SlotsHoldSightings
<1>9. Reporting'
  <2>1. CASE sighting[1] # Free
    BY <1>3, <2>1 DEF Reporting
  <2>2. CASE sighting[1] = Free
    <3>1. \A s \in Slots : sighting[s] = Free
      BY <1>1, <2>2, FirstSlotTells DEF Inv
    <3>2. \A s \in Slots : StatusOverlay[s] \in {StatusBytes, Free}
      BY <3>1 DEF StatusOverlay
    <3>3. \A s \in Slots : sighting'[s] \notin Uids
      BY <1>2, <2>2, <3>2, Marks
    <3>4. QED
      BY <1>3, <3>3 DEF Reporting
  <2>3. QED
    BY <2>1, <2>2
<1>10. QED
  BY <1>5, <1>7, <1>8, <1>9 DEF Inv

(* The tracker packet is out, and its slots are free again. *)
LEMMA ConfirmTrackerInv ==
  ASSUME Inv, RadioDisabled, "DISABLED" \in events, ConfirmTracker
  PROVE  Inv'
<1>1. /\ g_nrf_state = "TX_TRACKER" /\ g_nrf_state' = "IDLE"
      /\ g_request_tx' = 0 /\ chan' = "prox" /\ hfclk' = "off"
      /\ UNCHANGED <<g_rssi, tracker_enc, packetptr, phase, cc2, due>>
  BY DEF ConfirmTracker
<1>2. ~dcdc'
  BY DEF ConfirmTracker
<1>3. /\ sighting' \in [Slots -> Uids \cup {Free, StatusBytes, Self}]
      /\ \A s \in Slots : sighting'[s] = Free
  BY DEF ConfirmTracker
<1>4. TypeOK'
  <2>1. g_request_tx' \in 0 .. REQUEST_RANGE - 1
    BY <1>1, RequestRange
  <2>2. dcdc' \in BOOLEAN
    BY DEF ConfirmTracker
  <2>3. QED
    BY <1>1, <1>3, <2>1, <2>2, DisabledFacts DEF Inv, TypeOK, NrfStates
<1>5. Tracker
  <2>1. ~Rest /\ ~Beacon /\ ~Receiving
    BY <1>1 DEF Rest, Beacon, Receiving, Window, Closing, Flash, Disabling
  <2>2. QED
    BY <2>1, DisabledFacts, HandlerStages DEF Inv
<1>6. Stage'
  <2>1. phase = "off" /\ events' \subseteq LateEnd
    BY <1>5, DisabledFacts DEF Tracker, Outgoing, LateEnd
  <2>2. cc1' > 0
    BY <1>5, DisabledFacts DEF Tracker, OnAirTime, Inv, TypeOK
  <2>3. LateEnd' = LateEnd
    BY DEF LateEnd
  <2>4. Rest'
    BY <1>1, <1>2, <1>5, <2>1, <2>2, <2>3, DisabledFacts
       DEF Tracker, Rest, Undisturbed
  <2>5. QED
    BY <2>4 DEF Stage
<1>7. SlotsHoldSightings'
  BY <1>3 DEF SlotsHoldSightings
<1>8. Reporting'
  BY <1>1 DEF Reporting
<1>9. QED
  BY <1>4, <1>6, <1>7, <1>8 DEF Inv

(* The first part of the handler, whatever the state. *)
LEMMA RadioDisabledInv ==
  ASSUME Inv, RadioDisabled
  PROVE  Inv'
<1>1. CASE "DISABLED" \in events /\ StartListening
  BY <1>1, StartListeningInv
<1>2. CASE "DISABLED" \in events /\ BeaconDone
  BY <1>2, BeaconDoneInv
<1>3. CASE "DISABLED" \in events /\ StartTracker
  BY <1>3, StartTrackerInv
<1>4. CASE "DISABLED" \in events /\ ConfirmTracker
  BY <1>4, ConfirmTrackerInv
<1>5. CASE UNCHANGED <<g_nrf_state, g_request_tx, g_rssi, sighting, tracker_enc,
                       packetptr, phase, chan, hfclk, dcdc, cc2, due>>
           /\ ("DISABLED" \in events => IgnoreDisabled)
  <2>1. TypeOK'
    BY <1>5, DisabledFacts DEF Inv, TypeOK
  <2>2. Stage'
    <3>1. CASE "DISABLED" \notin events
      <4>1. events' = events
        BY <3>1, DisabledFacts
      <4>2. QED
        BY <1>5, <4>1, DisabledFacts, HandlerMoves DEF Inv
    <3>2. CASE "DISABLED" \in events
      <4>1. (Rest /\ cc1 > 0) \/ Receiving
        <5>1. ~Beacon /\ ~Tracker
          BY <1>5, <3>2 DEF IgnoreDisabled, Beacon, Tracker
        <5>2. QED
          BY <5>1, DisabledFacts, HandlerStages DEF Inv
      <4>2. Rest /\ cc1 > 0 => Rest'
        BY <1>5, DisabledFacts DEF Rest, Undisturbed, LateEnd
      <4>3. CASE Receiving
        <5>1. Incoming'
          BY <1>5, <3>2, <4>3, DisabledFacts, ReceivingIsIncoming
             DEF Incoming, LateEnd
        <5>2. Over => Over'
          BY <1>5 DEF Over
        <5>3. QED
          BY <1>5, <4>3, <5>1, <5>2, DisabledFacts, ReceiverMoves DEF Frame
      <4>4. QED
        BY <4>1, <4>2, <4>3 DEF Stage
    <3>3. QED
      BY <3>1, <3>2
  <2>3. SlotsHoldSightings' /\ Reporting'
    BY <1>5, SlotsKept
  <2>4. QED
    BY <2>1, <2>2, <2>3 DEF Inv
<1>6. QED
  BY <1>1, <1>2, <1>3, <1>4, <1>5 DEF RadioDisabled, IgnoreDisabled

(* A packet that is not ignored comes from another tag, and goes to at most *)
(* one free slot: behind other tags, each once.                             *)
LEMMA SightingTaken ==
  ASSUME Inv, g_nrf_state # "TX_TRACKER",
         NEW packet \in RxContents \ {Noise}, RadioOnProxPacket(packet)
  PROVE  /\ sighting' \in [Slots -> Uids \cup {Free, StatusBytes, Self}]
         /\ logged' \in [uid : RxContents \cup {Free}, power : {0, 1}]
         /\ \A s \in Slots : sighting[s] # Free => sighting'[s] = sighting[s]
         /\ SlotsHoldSightings'
<1>1. CASE packet \in {Foreign, Self}
  <2>1. UNCHANGED <<sighting, logged>>
    BY <1>1 DEF RadioOnProxPacket
  <2>2. QED
    BY <2>1 DEF Inv, TypeOK, SlotsHoldSightings
<1>2. CASE packet \notin {Foreign, Self}
  <2>1. packet \in Uids /\ packet # Free
    BY <1>2, Marks DEF RxContents
  <2>2. /\ logged' = [uid |-> packet, power |-> g_rssi]
        /\ sighting' = [s \in Slots |->
                          IF s \in FirstFree(packet) THEN packet ELSE sighting[s]]
    BY <1>2, Zenon DEF RadioOnProxPacket
  <2>3. logged' \in [uid : RxContents \cup {Free}, power : {0, 1}]
    BY <2>2 DEF Inv, TypeOK
  <2>4. sighting' \in [Slots -> Uids \cup {Free, StatusBytes, Self}]
    BY <2>1, <2>2 DEF Inv, TypeOK
  <2>5. \A s \in Slots :
           sighting'[s] = IF s \in FirstFree(packet) THEN packet ELSE sighting[s]
    BY <2>2
  <2>6. \A s \in FirstFree(packet) :
           /\ sighting[s] = Free
           /\ \A t \in 1 .. s - 1 : sighting[t] \notin {Free, packet}
    BY DEF FirstFree
  <2>7. \A s \in Slots : sighting'[s] \in Uids \cup {Free}
    BY <2>1, <2>5 DEF Inv, SlotsHoldSightings
  <2>8. ASSUME NEW s \in Slots, NEW t \in Slots, s < t
        PROVE  sighting'[t] = Free \/ sighting'[s] \notin {Free, sighting'[t]}
    <3>1. CASE t \in FirstFree(packet)
      <4>1. s \in 1 .. t - 1
        BY <2>8, ProxRadioAssumption DEF Slots
      <4>2. sighting[s] \notin {Free, packet}
        BY <2>6, <3>1, <4>1
      <4>3. sighting'[s] = sighting[s] /\ sighting'[t] = packet
        BY <2>5, <2>6, <3>1, <4>2
      <4>4. QED
        BY <4>2, <4>3
    <3>2. CASE t \notin FirstFree(packet)
      <4>1. sighting'[t] = sighting[t]
        BY <2>5, <3>2
      <4>2. sighting[t] = Free \/ sighting[s] \notin {Free, sighting[t]}
        BY <2>8 DEF Inv, SlotsHoldSightings
      <4>3. sighting[s] # Free => sighting'[s] = sighting[s]
        BY <2>5, <2>6
      <4>4. QED
        BY <4>1, <4>2, <4>3
    <3>3. QED
      BY <3>1, <3>2
  <2>9. SlotsHoldSightings'
    BY <2>7, <2>8 DEF SlotsHoldSightings, Slots
  <2>10. QED
    BY <2>3, <2>4, <2>5, <2>6, <2>9
<1>3. QED
  BY <1>1, <1>2

(* The condition under which the second part of the handler takes a packet. *)
Takes ==
  /\ "END" \in events
  /\ g_nrf_state = "RX_PROX_PACKET" /\ crcstatus
  /\ rx_enc # Noise

(* It does so in a window, whose end may have come in between. *)
LEMMA TakesInWindow ==
  ASSUME Inv, RadioEnd, Takes
  PROVE  Window \/ Closing
<1>1. isr # "idle" /\ RadioRuns
  BY DEF RadioEnd
<1>2. ~Rest /\ ~Beacon /\ ~Tracker /\ ~Flash /\ ~Disabling
  BY DEF Takes, Rest, Beacon, Tracker, Flash, Disabling
<1>3. QED
  BY <1>1, <1>2, HandlerStages DEF Inv, Receiving

(* A handler that is in time finds the receiver ramping down. *)
LEMMA TakenAtTheEnd ==
  ASSUME Incoming, "END" \in events
  PROVE  Over /\ (LATE_RADIO_IRQ \/ g_rssi = 1)
  BY DEF Incoming, Over, LateEnd

(* The second part of the handler. *)
LEMMA RadioEndInv ==
  ASSUME Inv, RadioEnd
  PROVE  Inv'
<1>1. /\ isr = "end" /\ RadioRuns /\ isr' = "rssi"
      /\ events' = events \ {"END"}
      /\ UNCHANGED <<g_request_tx, g_listen_ratio, g_button_pressed, g_rssi,
                     tracker_enc, rx_enc, rtc, phase, packetptr, chan, crcstatus,
                     hfclk, dcdc, led, cc1, cc2, second, due>>
  BY DEF RadioEnd, radio, power, timers
<1>2. CASE Takes
  <2>1. /\ g_nrf_state = "RX_PROX_PACKET" /\ g_nrf_state' = "RX_PROX_BLINK"
        /\ RadioOnProxPacket(rx_enc)
        /\ rx_enc \in RxContents \ {Noise}
    BY <1>2, Zenon DEF RadioEnd, Takes, Inv, TypeOK
  <2>2. /\ sighting' \in [Slots -> Uids \cup {Free, StatusBytes, Self}]
        /\ logged' \in [uid : RxContents \cup {Free}, power : {0, 1}]
        /\ SlotsHoldSightings'
    BY <2>1, SightingTaken
  <2>3. TypeOK'
    BY <1>1, <2>1, <2>2 DEF Inv, TypeOK, NrfStates
  <2>4. Stage'
    <3>1. Incoming' /\ Over'
      <4>1. Incoming /\ "END" \in events
        BY <1>2, TakesInWindow DEF Takes, Window, Closing
      <4>2. Over'
        BY <1>1, <4>1, TakenAtTheEnd DEF Over
      <4>3. Incoming'
        BY <1>1, <4>1 DEF Incoming
      <4>4. QED
        BY <4>2, <4>3
    <3>2. Window => Window'
      BY <1>1, <2>1, <3>1 DEF Window, Undisturbed
    <3>3. Closing => Closing'
      BY <1>1, <2>1, <3>1 DEF Closing
    <3>4. QED
      BY <1>2, <3>2, <3>3, TakesInWindow DEF Stage
  <2>5. Reporting'
    BY <2>1 DEF Reporting
  <2>6. QED
    BY <2>2, <2>3, <2>4, <2>5 DEF Inv
<1>3. CASE ~Takes
  <2>1. UNCHANGED <<g_nrf_state, sighting, logged>>
    BY <1>3 DEF RadioEnd, Takes
  <2>2. TypeOK'
    BY <1>1, <2>1 DEF Inv, TypeOK
  <2>3. Stage'
    <3>1. /\ events' \subseteq events
          /\ events \subseteq events' \cup {"END", "RSSIEND"}
          /\ "RSSIEND" \in events => "RSSIEND" \in events'
      BY <1>1
    <3>2. QED
      BY <1>1, <2>1, <3>1, HandlerMoves DEF Inv
  <2>4. SlotsHoldSightings' /\ Reporting'
    BY <1>1, <2>1, SlotsKept
  <2>5. QED
    BY <2>2, <2>3, <2>4 DEF Inv
<1>4. QED
  BY <1>2, <1>3

(* The last part of the handler. *)
LEMMA RadioRssiInv ==
  ASSUME Inv, RadioRssi
  PROVE  Inv'
<1>1. /\ isr = "rssi" /\ RadioRuns /\ isr' = "idle"
      /\ events' = events \ {"RSSIEND"}
      /\ g_rssi' = IF "RSSIEND" \in events THEN 1 ELSE g_rssi
      /\ UNCHANGED <<g_nrf_state, g_request_tx, g_listen_ratio,
                     g_button_pressed, sighting, logged,
                     tracker_enc, rx_enc, rtc, phase, packetptr, chan, crcstatus,
                     hfclk, dcdc, led, cc1, cc2, second, due>>
  BY DEF RadioRssi, gvars, radio, power, timers
<1>2. TypeOK'
  BY <1>1 DEF Inv, TypeOK
<1>3. Stage'
  <2>1. /\ events' \subseteq events
        /\ events \subseteq events' \cup {"END", "RSSIEND"}
        /\ "RSSIEND" \in events => g_rssi' = 1
        /\ g_rssi' \in {g_rssi, 1}
    BY <1>1
  <2>2. QED
    BY <1>1, <2>1, HandlerMoves DEF Inv
<1>4. SlotsHoldSightings' /\ Reporting'
  BY <1>1, SlotsKept
<1>5. QED
  BY <1>2, <1>3, <1>4 DEF Inv

(* Every step keeps the invariant. *)
LEMMA InvNext ==
  ASSUME Inv, [Next]_vars
  PROVE  Inv'
<1>1. CASE Tick \/ Hardware \/ RxAddress
  BY <1>1, TickInv, HfClkStartedInv, TxEndInv, RampDownInv, RxAddressInv
     DEF Hardware
<1>2. CASE Receive
  BY <1>2, RxEndInv DEF Receive
<1>3. CASE ButtonPressed \/ Second \/ PowerClockIrq
  BY <1>3, RequestInv, PowerClockIrqInv
<1>4. CASE Rtc0Irq
  BY <1>4, RequestInv, SlotStartInv, ListenEndInv, BlinkInv, ListenStopInv,
     DisableRadioInv DEF Rtc0Irq
<1>5. CASE RadioIrq
  BY <1>5, RadioDisabledInv, RadioEndInv, RadioRssiInv DEF RadioIrq
<1>6. CASE UNCHANGED vars
  <2>1. UNCHANGED <<g_nrf_state, g_request_tx, g_listen_ratio,
                    g_button_pressed, g_rssi, sighting, tracker_enc, rx_enc,
                    logged, rtc, isr, events, phase, packetptr, chan, crcstatus,
                    hfclk, dcdc, led, cc1, cc2, second, due>>
    BY <1>6 DEF vars, gvars, packets, radio, power, timers
  <2>2. TypeOK'
    BY <2>1 DEF Inv, TypeOK
  <2>3. Stage'
    BY <2>1, StageKept DEF Inv
  <2>4. QED
    BY <2>1, <2>2, <2>3, SlotsKept DEF Inv
<1>7. QED
  BY <1>1, <1>2, <1>3, <1>4, <1>5, <1>6 DEF Next

-----------------------------------------------------------------------------
(* The slot machine keeps its invariant, whether or not the radio interrupt *)
(* may be late and the indicator is built in.                               *)
THEOREM StagesOfASlot == Spec => []Inv
  BY InvInit, InvNext, PTL DEF Spec

(* Every variable stays in its range. *)
THEOREM TypesOfTheTag == Spec => []TypeOK
<1>1. Inv => TypeOK
  BY DEF Inv
<1>2. QED
  BY <1>1, StagesOfASlot, PTL

(* Whatever the crystal, the radio and the interrupts take of their times,  *)
(* a slot is over when the next one starts (radio.c 132-167).               *)
THEOREM SlotsAreOver == Spec => []SlotsDoNotOverlap
<1>1. Inv => SlotsDoNotOverlap
  <2> SUFFICES ASSUME Inv, cc1 = 0
               PROVE  AtRest
    BY DEF SlotsDoNotOverlap
  <2>1. Rest /\ ~(cc1 > 0)
    BY SlotsAreApart DEF Inv
  <2>2. QED
    BY <2>1 DEF Rest, Undisturbed, AtRest
<1>2. QED
  BY <1>1, StagesOfASlot, PTL

(* A tag at rest draws no current it does not need and is back on the       *)
(* proximity channel (radio.c 176-199, 358-384).                            *)
THEOREM RestIsQuiet == Spec => []RestSavesPower
<1>1. Inv => RestSavesPower
  <2> SUFFICES ASSUME Inv, AtRest
               PROVE  hfclk = "off" /\ ~dcdc /\ ~led /\ chan = "prox"
    BY DEF RestSavesPower
  <2>1. cc2 = -1 /\ cc2 \notin Nat
    BY DEF AtRest, Unarmed
  <2>2. ~Starting /\ ~Started /\ ~Beacon /\ ~Tracker
    BY DEF AtRest, Starting, Started, Beacon, Tracker
  <2>3. ~Window /\ ~Closing /\ ~Flash /\ ~Disabling
    BY <2>1 DEF AtRest, Window, Closing, Flash, Disabling
  <2>4. QED
    BY <2>2, <2>3 DEF Inv, Stage, Rest
<1>2. QED
  BY <1>1, StagesOfASlot, PTL

(* Outside a tracker transmission the slots hold different other tags,      *)
(* without a gap, and never a status report (radio.c 252-269, 321-331).     *)
THEOREM SlotsNameTags == Spec => []SlotsHoldSightings
<1>1. Inv => SlotsHoldSightings
  BY DEF Inv
<1>2. QED
  BY <1>1, StagesOfASlot, PTL

(* The radio is only on with the registers, the buffer and the crystal of   *)
(* what it is on for, except for a receiver that is left on while the       *)
(* indicator flashes: a build with PROXIMITY_BLINK, and an interrupt that   *)
(* served the end of one packet when the next was on the air already        *)
(* (radio.c 176-199, 212-226, 284-388).                                     *)
THEOREM RadioIsConfigured ==
  ASSUME ~(LATE_RADIO_IRQ /\ PROXIMITY_BLINK)
  PROVE  Spec => []RadioConfigured
<1>1. Inv => RadioConfigured
  <2> SUFFICES ASSUME Inv, phase # "off"
               PROVE  /\ <<packetptr, chan>> \in
                           {<<"prox", "prox">>, <<"tracker", "tracker">>,
                            <<"rx", "prox">>}
                      /\ phase = "tx" =>
                           /\ packetptr # "rx"
                           /\ hfclk = "running"
                           /\ (packetptr = "tracker" <=> g_nrf_state = "TX_TRACKER")
                      /\ phase \in {"rx", "sync"} =>
                           /\ packetptr = "rx"
                           /\ rtc = "idle" => hfclk = "running"
    BY DEF RadioConfigured
  <2>1. ~Rest /\ ~Starting /\ ~Started
    BY DEF Rest, Starting, Started
  <2>2. CASE Beacon
    BY <2>2 DEF Beacon, Outgoing
  <2>3. CASE Tracker
    BY <2>3 DEF Tracker, Outgoing
  <2>4. CASE Receiving
    <3>1. packetptr = "rx" /\ chan = "prox" /\ phase # "tx"
      BY <2>4, ReceivingIsIncoming DEF Incoming
    <3>2. phase \in {"rx", "sync"} /\ rtc = "idle" => Window
      BY <2>4 DEF Receiving, Closing, Flash, Disabling, Over
    <3>3. QED
      BY <3>1, <3>2 DEF Window
  <2>5. QED
    BY <2>1, <2>2, <2>3, <2>4 DEF Inv, Stage, Receiving
<1>2. QED
  BY <1>1, StagesOfASlot, PTL

-----------------------------------------------------------------------------
(* The steps that touch neither the slots nor the log. *)
LEMMA SightingsUntouched ==
  ASSUME [Next]_vars, ~RadioDisabled, ~RadioEnd
  PROVE  UNCHANGED <<sighting, logged>>
<1>1. CASE Tick \/ Hardware \/ RxAddress \/ Receive
  BY <1>1 DEF Tick, Hardware, HfClkStarted, TxEnd, RampDown, RxAddress, Receive,
     RxEnd, packets
<1>2. CASE ButtonPressed \/ PowerClockIrq \/ Second \/ RadioRssi
  BY <1>2 DEF ButtonPressed, PowerClockIrq, Second, RadioRssi, packets
<1>3. CASE Rtc0Irq
  BY <1>3 DEF Rtc0Irq, DrawRequest, SlotStart, ListenEnd, Blink, ListenStop,
     DisableRadio, packets
<1>4. CASE UNCHANGED vars
  BY <1>4 DEF vars, packets
<1>5. QED
  BY <1>1, <1>2, <1>3, <1>4 DEF Next, RadioIrq

(* The first part of the handler changes slots in two ways: it lays the     *)
(* status over free ones, and it frees those of a transmitted report.       *)
LEMMA SlotsAtDisabled ==
  ASSUME Inv, RadioDisabled
  PROVE  /\ logged' = logged
         /\ \/ sighting' = sighting
            \/ /\ \A s \in Slots : sighting[s] = Free
               /\ \A s \in Slots : sighting'[s] \in {Free, StatusBytes}
            \/ /\ "DISABLED" \in events /\ Tracker
               /\ g_nrf_state = "TX_TRACKER"
               /\ \A s \in Slots : sighting'[s] = Free
<1>1. logged' = logged
  BY DisabledFacts
<1>2. CASE "DISABLED" \in events /\ StartTracker
  <2>1. g_nrf_state = "TX_PROX"
    BY <1>2 DEF StartTracker
  <2>2. sighting' = IF sighting[1] # Free THEN sighting ELSE StatusOverlay
    BY <1>2 DEF StartTracker
  <2>3. CASE sighting[1] = Free
    <3>1. \A s \in Slots : sighting[s] = Free
      BY <2>1, <2>3, FirstSlotTells DEF Inv
    <3>2. \A s \in Slots : StatusOverlay[s] \in {Free, StatusBytes}
      BY <3>1 DEF StatusOverlay
    <3>3. QED
      BY <1>1, <2>2, <2>3, <3>1, <3>2
  <2>4. QED
    BY <1>1, <2>2, <2>3
<1>3. CASE "DISABLED" \in events /\ ConfirmTracker
  <2>1. g_nrf_state = "TX_TRACKER" /\ \A s \in Slots : sighting'[s] = Free
    BY <1>3 DEF ConfirmTracker
  <2>2. Tracker
    <3>1. ~Rest /\ ~Beacon /\ ~Receiving
      BY <2>1 DEF Rest, Beacon, Receiving, Window, Closing, Flash, Disabling
    <3>2. QED
      BY <3>1, DisabledFacts, HandlerStages DEF Inv
  <2>3. QED
    BY <1>1, <1>3, <2>1, <2>2
<1>4. CASE sighting' = sighting
  BY <1>1, <1>4
<1>5. QED
  BY <1>2, <1>3, <1>4 DEF RadioDisabled, StartListening, BeaconDone,
     IgnoreDisabled

(* The second part only fills free slots. *)
LEMMA SlotsAtEnd ==
  ASSUME Inv, RadioEnd
  PROVE  /\ \A s \in Slots : sighting[s] # Free => sighting'[s] = sighting[s]
         /\ Takes \/ UNCHANGED <<sighting, logged>>
<1>1. CASE Takes
  <2>1. /\ g_nrf_state = "RX_PROX_PACKET" /\ RadioOnProxPacket(rx_enc)
        /\ rx_enc \in RxContents \ {Noise}
    BY <1>1, Zenon DEF RadioEnd, Takes, Inv, TypeOK
  <2>2. \A s \in Slots : sighting[s] # Free => sighting'[s] = sighting[s]
    BY <2>1, SightingTaken
  <2>3. QED
    BY <1>1, <2>2
<1>2. CASE ~Takes
  BY <1>2 DEF RadioEnd, Takes
<1>3. QED
  BY <1>1, <1>2

(* No sighting is lost between its slot and the air: it leaves the slot     *)
(* only when the report made of it has been transmitted on the tracker      *)
(* channel (radio.c 322-323, 368-386).                                      *)
THEOREM EverySightingIsReported == Spec => SightingsReported
<1>1. ASSUME Inv, [Next]_vars, NEW s \in Slots,
             sighting[s] \in Uids, sighting'[s] # sighting[s]
      PROVE  /\ tracker_enc.proto = "SIGHTING" /\ tracker_enc.sighting = sighting
             /\ chan = "tracker" /\ phase = "off"
  <2>1. sighting[s] # Free
    BY <1>1, Marks
  <2>2. RadioDisabled
    BY <1>1, <2>1, SightingsUntouched, SlotsAtEnd
  <2>3. "DISABLED" \in events /\ Tracker /\ g_nrf_state = "TX_TRACKER"
    BY <1>1, <2>1, <2>2, SlotsAtDisabled
  <2>4. chan = "tracker" /\ phase = "off"
    BY <2>3 DEF Tracker, Outgoing, LateEnd
  <2>5. tracker_enc.sighting = sighting /\ tracker_enc.proto = "SIGHTING"
    BY <1>1, <2>3 DEF Inv, Reporting
  <2>6. QED
    BY <2>4, <2>5
<1>2. Inv /\ [Next]_vars =>
        [(\E s \in Slots : sighting[s] \in Uids /\ sighting'[s] # sighting[s])
           => /\ tracker_enc.proto = "SIGHTING" /\ tracker_enc.sighting = sighting
              /\ chan = "tracker" /\ phase = "off"]_vars
  BY <1>1
<1>3. QED
  BY <1>2, StagesOfASlot, PTL DEF Spec, SightingsReported

(* An interrupt that serves the end of a packet before the radio has ramped *)
(* down records what the window just open has received, with the signal     *)
(* strength of that packet (radio.c 244-269, 289, 397-402).                 *)
THEOREM SightingsWereHeard ==
  ASSUME ~LATE_RADIO_IRQ
  PROVE  Spec => SightingHeard
<1>1. ASSUME Inv, [Next]_vars,
             logged' # logged
               \/ \E s \in Slots : sighting[s] = Free /\ sighting'[s] \in Uids
      PROVE  packetptr = "rx" /\ phase \in {"ramp", "off"} /\ g_rssi = 1
  <2>1. ~RadioDisabled
    BY <1>1, SlotsAtDisabled, Marks
  <2>2. RadioEnd /\ Takes
    BY <1>1, <2>1, SightingsUntouched, SlotsAtEnd, Marks
  <2>3. Incoming /\ "END" \in events
    BY <1>1, <2>2, TakesInWindow DEF Takes, Window, Closing
  <2>4. packetptr = "rx"
    BY <2>3 DEF Incoming
  <2>5. QED
    BY <2>3, <2>4, TakenAtTheEnd DEF Over
<1>2. Inv /\ [Next]_vars =>
        [logged' # logged
           \/ (\E s \in Slots : sighting[s] = Free /\ sighting'[s] \in Uids)
             => packetptr = "rx" /\ phase \in {"ramp", "off"} /\ g_rssi = 1]_vars
  BY <1>1
<1>3. QED
  BY <1>2, StagesOfASlot, PTL DEF Spec, SightingHeard

-----------------------------------------------------------------------------
(* BeaconRadio: the invariant.                                              *)

BeaconTypes ==
  /\ firmware \in {"ble-beacon", "physical-web", "mischief", "power"}
  /\ g_advertisment_index \in Nat /\ g_iteration \in Nat
  /\ raised \subseteq {"COMPARE", "HFCLKSTARTED", "DISABLED"}
  /\ rtc0 \in {"idle", "start", "power"}
  /\ crystal \in {"off", "starting", "running"}
  /\ transmitting \in BOOLEAN /\ overrun \in BOOLEAN /\ sent \in Nat

(* While the interrupts are enabled the packet that is set and its length   *)
(* belong together; while they are not, the length is still to come.        *)
PacketSet ==
  IF new_pkt = <<>> THEN g_beacon_pkt_len = g_beacon_pkt
                    ELSE new_pkt = <<g_beacon_pkt>>

(* Only the mischief firmware counts packets, and only the BLE firmwares    *)
(* channels.  A round that is over, whatever became of it, leaves no count. *)
Counted ==
  /\ firmware # "mischief" => g_iteration = 0
  /\ firmware = "power" => g_advertisment_index = 0 /\ frequency = 0
  /\ ~transmitting /\ crystal = "off" /\ raised \subseteq {"COMPARE"} =>
       g_iteration = 0

(* A round begins: the interrupt of RTC0, ... *)
Begun ==
  /\ sent = 0 /\ g_iteration = 0 /\ ~transmitting
  /\ \/ rtc0 = "idle" /\ raised = {"COMPARE"} /\ crystal = "off"
     \/ /\ firmware # "mischief" => g_advertisment_index = 0
        /\ \/ rtc0 = "start" /\ raised = {} /\ crystal = "off"
           \/ rtc0 = "power" /\ raised = {} /\ crystal = "starting"
           \/ rtc0 = "idle" /\ raised = {} /\ crystal = "starting"
           \/ rtc0 = "idle" /\ raised = {"HFCLKSTARTED"} /\ crystal = "running"

(* ... then one transmission after the other, of which the last is where    *)
(* the counters say, ... *)
Underway ==
  /\ rtc0 = "idle" /\ crystal = "running"
  /\ \/ transmitting /\ raised = {}
     \/ ~transmitting /\ raised = {"DISABLED"}
  /\ sent = CHANNELS * g_iteration + g_advertisment_index + 1
  /\ g_advertisment_index \in 0 .. CHANNELS - 1
  /\ firmware = "mischief" =>
       /\ g_iteration <= TAG_COUNT
       /\ g_pkt_buffer = Packet(g_iteration, g_iteration)
  /\ firmware = "ble-beacon" =>
       LET pdu == IF g_sequence_counter = 0 THEN "name" ELSE "guid"
       IN g_pkt_buffer = Packet(pdu, pdu)

(* ... until it is over, or the next one cuts it short. *)
BeaconInv ==
  /\ BeaconTypes /\ PacketSet /\ Counted
  /\ ~overrun => Begun \/ Underway \/ RoundOver

-----------------------------------------------------------------------------
(* Initially no round is under way. *)
LEMMA BeaconStarts == BeaconInit => BeaconInv
<1> SUFFICES ASSUME BeaconInit
             PROVE  BeaconInv
  OBVIOUS
<1>1. BeaconTypes
  BY BeaconRadioAssumption DEF BeaconInit, BeaconTypes
<1>2. PacketSet /\ Counted /\ RoundOver
  BY DEF BeaconInit, PacketSet, Counted, RoundOver
<1>3. QED
  BY <1>1, <1>2 DEF BeaconInv

(* The timer matches: a round begins, before or after the last one is over. *)
LEMMA CompareKeeps ==
  ASSUME BeaconInv, Compare
  PROVE  BeaconInv'
<1>1. BeaconTypes'
  BY DEF BeaconInv, BeaconTypes, Compare, counters, application, supply, RoundOver
<1>2. PacketSet'
  BY DEF BeaconInv, PacketSet, Compare, application
<1>3. raised' \subseteq {"COMPARE"} => raised \subseteq {"COMPARE"}
  BY DEF Compare
<1>4. Counted'
  BY <1>3 DEF BeaconInv, Counted, Compare, counters, supply
<1>5. ASSUME ~overrun'
      PROVE  Begun'
  <2>1. RoundOver
    BY <1>5 DEF Compare
  <2>2. raised' = {"COMPARE"} /\ g_iteration = 0
    BY <2>1 DEF Compare, RoundOver, BeaconInv, Counted
  <2>3. QED
    BY <2>1, <2>2 DEF Compare, RoundOver, Begun, counters, supply
<1>6. QED
  BY <1>1, <1>2, <1>4, <1>5 DEF BeaconInv

(* RTC0_IRQ_Handler acknowledges the interrupt, ... *)
LEMMA RtcBeginKeeps ==
  ASSUME BeaconInv, RtcBegin
  PROVE  BeaconInv'
<1>1. BeaconTypes'
  BY DEF BeaconInv, BeaconTypes, RtcBegin, transmission, application, supply
<1>2. PacketSet'
  BY DEF BeaconInv, PacketSet, RtcBegin, application
<1>3. raised' \subseteq {"COMPARE"} => raised \subseteq {"COMPARE"}
  BY DEF RtcBegin
<1>4. Counted'
  BY <1>3 DEF BeaconInv, Counted, RtcBegin, transmission, supply
<1>5. ASSUME ~overrun
      PROVE  Begun'
  <2>1. Begun
    <3>1. "COMPARE" \in raised
      BY DEF RtcBegin
    <3>2. ~Underway /\ ~RoundOver
      BY <3>1 DEF Underway, RoundOver
    <3>3. QED
      BY <1>5, <3>2 DEF BeaconInv
  <2>2. raised = {"COMPARE"} /\ rtc0 = "idle" /\ crystal = "off"
          /\ sent = 0 /\ g_iteration = 0 /\ ~transmitting
    BY <2>1 DEF RtcBegin, Begun
  <2>3. raised' = {}
    BY <2>2 DEF RtcBegin
  <2>4. firmware # "mischief" => g_advertisment_index' = 0
    BY DEF RtcBegin, BeaconInv, Counted, BeaconTypes
  <2>5. QED
    BY <2>2, <2>3, <2>4 DEF RtcBegin, Begun, transmission, supply
<1>6. overrun' = overrun
  BY DEF RtcBegin
<1>7. QED
  BY <1>1, <1>2, <1>4, <1>5, <1>6 DEF BeaconInv

(* ... starts the crystal ... *)
LEMMA RtcStartKeeps ==
  ASSUME BeaconInv, RtcStart
  PROVE  BeaconInv'
<1>1. BeaconTypes'
  BY DEF BeaconInv, BeaconTypes, RtcStart, counters, transmission, application, supply
<1>2. PacketSet'
  BY DEF BeaconInv, PacketSet, RtcStart, application
<1>3. Counted'
  BY DEF BeaconInv, Counted, RtcStart, counters, transmission
<1>4. ASSUME ~overrun
      PROVE  Begun'
  <2>1. Begun
    BY <1>4 DEF RtcStart, BeaconInv, Underway, RoundOver
  <2>2. QED
    BY <2>1 DEF RtcStart, Begun, counters, transmission
<1>5. overrun' = overrun
  BY DEF RtcStart
<1>6. QED
  BY <1>1, <1>2, <1>3, <1>4, <1>5 DEF BeaconInv

(* ... and, if the battery allows, the converter. *)
LEMMA RtcPowerKeeps ==
  ASSUME BeaconInv, RtcPower
  PROVE  BeaconInv'
<1>1. BeaconTypes'
  BY DEF BeaconInv, BeaconTypes, RtcPower, counters, transmission, application
<1>2. PacketSet'
  BY DEF BeaconInv, PacketSet, RtcPower, application
<1>3. Counted'
  BY DEF BeaconInv, Counted, RtcPower, counters, transmission
<1>4. ASSUME ~overrun
      PROVE  Begun'
  <2>1. Begun
    BY <1>4 DEF RtcPower, BeaconInv, Underway, RoundOver
  <2>2. QED
    BY <2>1 DEF RtcPower, Begun, counters, transmission
<1>5. overrun' = overrun
  BY DEF RtcPower
<1>6. QED
  BY <1>1, <1>2, <1>3, <1>4, <1>5 DEF BeaconInv

(* The crystal runs. *)
LEMMA CrystalStableKeeps ==
  ASSUME BeaconInv, CrystalStable
  PROVE  BeaconInv'
<1>1. BeaconTypes'
  BY DEF BeaconInv, BeaconTypes, CrystalStable, counters, transmission, application
<1>2. PacketSet'
  BY DEF BeaconInv, PacketSet, CrystalStable, application
<1>3. Counted'
  BY DEF BeaconInv, Counted, CrystalStable, counters, transmission
<1>4. ASSUME ~overrun
      PROVE  Begun'
  <2>1. Begun
    BY <1>4 DEF CrystalStable, BeaconInv, Underway, RoundOver
  <2>2. raised = {} /\ (firmware # "mischief" => g_advertisment_index = 0)
    BY <2>1 DEF CrystalStable, Begun
  <2>3. raised' = {"HFCLKSTARTED"}
    BY <2>2 DEF CrystalStable
  <2>4. QED
    BY <2>1, <2>2, <2>3 DEF CrystalStable, Begun, counters, transmission
<1>5. overrun' = overrun
  BY DEF CrystalStable
<1>6. QED
  BY <1>1, <1>2, <1>3, <1>4, <1>5 DEF BeaconInv

(* A packet is out. *)
LEMMA DisabledKeeps ==
  ASSUME BeaconInv, Disabled
  PROVE  BeaconInv'
<1>1. BeaconTypes'
  BY DEF BeaconInv, BeaconTypes, Disabled, counters, application, supply
<1>2. PacketSet'
  BY DEF BeaconInv, PacketSet, Disabled, application
<1>3. Counted'
  BY DEF BeaconInv, Counted, Disabled, counters, supply
<1>4. ASSUME ~overrun
      PROVE  Underway'
  <2>1. Underway
    BY <1>4 DEF Disabled, BeaconInv, Begun, RoundOver
  <2>2. raised' = {"DISABLED"}
    BY <2>1 DEF Disabled, Underway
  <2>3. CHANNELS' = CHANNELS
    BY DEF Disabled, CHANNELS
  <2>4. QED
    BY <2>1, <2>2, <2>3 DEF Disabled, Underway, counters, supply
<1>5. overrun' = overrun
  BY DEF Disabled
<1>6. QED
  BY <1>1, <1>2, <1>3, <1>4, <1>5 DEF BeaconInv

(* The application sets a packet or an interval. *)
LEMMA ApplicationKeeps ==
  ASSUME BeaconInv,
         \/ \E packet \in Packets \cup {NULL} : Advertise(packet)
         \/ Advertised \/ Interval \/ UNCHANGED beaconVars
  PROVE  BeaconInv'
<1>1. PacketSet'
  BY DEF BeaconInv, PacketSet, Advertise, Advertised, Interval, beaconVars, application
<1>2. UNCHANGED <<firmware, counters, transmission, rtc0, raised, crystal, overrun>>
  BY DEF Advertise, Advertised, Interval, beaconVars, supply
<1>3. BeaconTypes' /\ Counted'
  BY <1>2 DEF BeaconInv, BeaconTypes, Counted, counters, transmission
<1>4. ~overrun => (Begun \/ Underway \/ RoundOver)'
  BY <1>2 DEF BeaconInv, Begun, Underway, RoundOver, CHANNELS, counters, transmission
<1>5. QED
  BY <1>1, <1>2, <1>3, <1>4 DEF BeaconInv

-----------------------------------------------------------------------------
(* The transmission that begins is the one that the number of those before  *)
(* asks for.                                                                *)
RightPacket ==
  /\ crystal' = "running" /\ frequency' = sent % CHANNELS
  /\ firmware = "physical-web" => g_pkt_buffer'.length \in {NULL, g_pkt_buffer'.data}
  /\ firmware # "physical-web" /\ sent % CHANNELS # 0 => UNCHANGED g_pkt_buffer
  /\ firmware = "mischief" => g_pkt_buffer'.data = sent \div CHANNELS

(* There is one channel or there are three. *)
LEMMA ChannelCount ==
  /\ CHANNELS \in {1, 3} /\ CHANNELS \in Nat \ {0}
  /\ firmware = "power" <=> CHANNELS = 1
BY DEF CHANNELS

(* Which packet, on which channel. *)
LEMMA PacketAndChannel ==
  ASSUME NEW i \in Nat, NEW j \in 0 .. CHANNELS - 1,
         sent = CHANNELS * i + j
  PROVE  sent % CHANNELS = j /\ sent \div CHANNELS = i
<1>1. CASE CHANNELS = 1
  BY <1>1
<1>2. CASE CHANNELS = 3
  BY <1>2
<1>3. QED
  BY <1>1, <1>2, ChannelCount

(* What the BLE firmwares send, if nothing has been sent before or the      *)
(* counters are those of what has been.                                     *)
LEMMA SendIsRight ==
  ASSUME BeaconTypes, PacketSet, IrqsEnabled, ~overrun, ~transmitting,
         NEW index \in 0 .. CHANNELS - 1, Send(index), sent = index,
         g_iteration = 0, crystal = "running", UNCHANGED crystal,
         firmware = "ble-beacon" /\ index # 0 =>
           LET pdu == IF g_sequence_counter = 0 THEN "name" ELSE "guid"
           IN g_pkt_buffer = Packet(pdu, pdu)
  PROVE  /\ RightPacket /\ transmitting' /\ sent' = sent + 1
         /\ firmware \in {"ble-beacon", "physical-web"}
         /\ firmware = "ble-beacon" =>
              LET pdu == IF g_sequence_counter = 0 THEN "name" ELSE "guid"
              IN g_pkt_buffer' = Packet(pdu, pdu)
<1>1. index \in Nat /\ 0 \in Nat /\ sent = CHANNELS * 0 + index
  BY ChannelCount
<1>2. sent % CHANNELS = index
  BY <1>1, PacketAndChannel
<1>3. transmitting' /\ sent' = sent + 1 /\ frequency' = index
  BY DEF Send, SendBeacon, SendWeb, TxEn
<1>4. firmware = "physical-web" => g_pkt_buffer'.length \in {NULL, g_pkt_buffer'.data}
  <2>1. SUFFICES ASSUME firmware = "physical-web"
                 PROVE  g_pkt_buffer'.length \in {NULL, g_pkt_buffer'.data}
    OBVIOUS
  <2>2. g_beacon_pkt_len = g_beacon_pkt
    BY DEF IrqsEnabled, PacketSet
  <2>3. QED
    BY <2>1, <2>2 DEF Send, SendWeb, Packet
<1>5. firmware = "ble-beacon" =>
        LET pdu == IF g_sequence_counter = 0 THEN "name" ELSE "guid"
        IN g_pkt_buffer' = Packet(pdu, pdu)
  BY DEF Send, SendBeacon
<1>6. firmware \in {"ble-beacon", "physical-web"}
  BY DEF Send
<1>7. firmware # "physical-web" /\ index # 0 => UNCHANGED g_pkt_buffer
  BY <1>5, <1>6
<1>8. QED
  BY <1>2, <1>3, <1>4, <1>5, <1>6, <1>7 DEF RightPacket

(* What the mischief firmware sends: the packet that it has counted up to.  *)
LEMMA MischiefIsRight ==
  ASSUME BeaconTypes, ~overrun, ~transmitting, firmware = "mischief",
         NEW i \in Nat, SendMischief(i), sent = CHANNELS * i,
         crystal = "running", UNCHANGED crystal
  PROVE  /\ RightPacket /\ transmitting' /\ sent' = sent + 1
         /\ g_advertisment_index' = 0 /\ g_pkt_buffer' = Packet(i, i)
<1>1. CHANNELS = 3 /\ 0 \in 0 .. CHANNELS - 1 /\ sent = CHANNELS * i + 0
  BY ChannelCount
<1>2. sent % CHANNELS = 0 /\ sent \div CHANNELS = i
  BY <1>1, PacketAndChannel
<1>3. transmitting' /\ sent' = sent + 1 /\ frequency' = 0
        /\ g_advertisment_index' = 0 /\ g_pkt_buffer' = Packet(i, i)
  BY DEF SendMischief, TxEn
<1>4. g_pkt_buffer'.data = i
  BY <1>3 DEF Packet
<1>5. QED
  BY <1>2, <1>3, <1>4 DEF RightPacket

(* The crystal's interrupt begins the transmissions of a round. *)
LEMMA CrystalIrqKeeps ==
  ASSUME BeaconInv, CrystalIrq
  PROVE  /\ BeaconInv'
         /\ ~overrun => RightPacket /\ ~transmitting /\ ~RoundOver'
<1>1. transmitting'
  BY DEF CrystalIrq, Send, SendBeacon, SendWeb, SendMischief, SendStatus, TxEn
<1>2. BeaconTypes'
  <2>1. sent' \in Nat
    BY DEF BeaconInv, BeaconTypes, CrystalIrq, Send, SendBeacon, SendWeb,
           SendMischief, SendStatus, TxEn
  <2>2. g_advertisment_index' \in Nat
    BY DEF BeaconInv, BeaconTypes, CrystalIrq, SendMischief
  <2>3. raised' \subseteq {"COMPARE", "HFCLKSTARTED", "DISABLED"}
    BY DEF BeaconInv, BeaconTypes, CrystalIrq
  <2>4. transmitting' \in BOOLEAN
    BY <1>1
  <2>5. QED
    BY <2>1, <2>2, <2>3, <2>4 DEF BeaconInv, BeaconTypes, CrystalIrq, supply
<1>3. PacketSet'
  BY DEF BeaconInv, PacketSet, CrystalIrq, application
<1>4. Counted'
  BY <1>1 DEF BeaconInv, Counted, CrystalIrq, Send, SendBeacon, SendWeb, SendMischief,
              SendStatus
<1>5. ASSUME ~overrun
      PROVE  Underway' /\ RightPacket /\ ~transmitting
  <2>1. Begun
    BY <1>5 DEF CrystalIrq, BeaconInv, Underway, RoundOver
  <2>2. /\ sent = 0 /\ g_iteration = 0 /\ ~transmitting /\ rtc0 = "idle"
        /\ raised = {"HFCLKSTARTED"} /\ crystal = "running"
        /\ firmware # "mischief" => g_advertisment_index = 0
    BY <2>1 DEF CrystalIrq, Begun
  <2>3. raised' = {} /\ UNCHANGED <<firmware, g_iteration, rtc0, crystal, g_sequence_counter>>
    BY <2>2 DEF CrystalIrq, supply
  <2>4. CHANNELS' = CHANNELS /\ 0 \in 0 .. CHANNELS - 1 /\ CHANNELS \in Nat \ {0}
    BY <2>3, ChannelCount DEF CHANNELS
  <2>5. /\ RightPacket /\ sent' = 1
        /\ g_advertisment_index' = 0
        /\ firmware = "mischief" => g_pkt_buffer' = Packet(g_iteration, g_iteration)
        /\ firmware = "ble-beacon" =>
             LET pdu == IF g_sequence_counter = 0 THEN "name" ELSE "guid"
             IN g_pkt_buffer' = Packet(pdu, pdu)
    <3>1. CASE Send(g_advertisment_index) /\ UNCHANGED g_advertisment_index
      <4>1. firmware # "mischief" /\ IrqsEnabled
        BY <3>1 DEF Send, CrystalIrq
      <4>2. Send(0) /\ g_advertisment_index' = 0 /\ sent = 0
        BY <2>2, <3>1, <4>1
      <4>3. QED
        BY <1>5, <2>2, <2>3, <2>4, <4>1, <4>2, SendIsRight DEF BeaconInv
    <3>2. CASE firmware = "mischief" /\ SendMischief(g_iteration)
      <4>1. sent = CHANNELS * 0 /\ SendMischief(0) /\ 0 \in Nat
        BY <2>2, <2>4, <3>2
      <4>2. QED
        BY <1>5, <2>2, <2>3, <3>2, <4>1, MischiefIsRight DEF BeaconInv
    <3>3. CASE firmware = "power" /\ SendStatus /\ UNCHANGED g_advertisment_index
      <4>1. CHANNELS = 1 /\ frequency' = 0 /\ sent' = 1
        BY <1>5, <2>2, <3>3, ChannelCount DEF SendStatus, TxEn, BeaconInv, Counted
      <4>2. sent % CHANNELS = 0
        BY <2>2, <4>1
      <4>3. QED
        BY <2>2, <2>3, <3>3, <4>1, <4>2 DEF RightPacket
    <3>4. QED
      BY <3>1, <3>2, <3>3 DEF CrystalIrq
  <2>6. Underway'
    <3>1. sent' = CHANNELS' * g_iteration' + g_advertisment_index' + 1
            /\ g_advertisment_index' \in 0 .. CHANNELS' - 1
            /\ g_iteration' <= TAG_COUNT
      BY <2>2, <2>3, <2>4, <2>5, BeaconRadioAssumption
    <3>2. QED
      BY <1>1, <2>2, <2>3, <2>5, <3>1 DEF Underway
  <2>7. QED
    BY <2>2, <2>5, <2>6
<1>6. overrun' = overrun /\ ~RoundOver'
  BY <1>1 DEF CrystalIrq, RoundOver
<1>7. QED
  BY <1>2, <1>3, <1>4, <1>5, <1>6 DEF BeaconInv

(* The end of a transmission begins the next one, or ends the round when    *)
(* it is complete.                                                          *)
LEMMA DisabledIrqKeeps ==
  ASSUME BeaconInv, DisabledIrq
  PROVE  /\ BeaconInv'
         /\ ~overrun =>
              /\ ~transmitting
              /\ Sends => RightPacket
              /\ crystal' = "off" => sent = RoundLength
              /\ RoundOver' => ~converter'
<1>1. sent' \in Nat /\ g_iteration' \in Nat /\ g_advertisment_index' \in Nat
  BY DEF BeaconInv, BeaconTypes, DisabledIrq, NextChannel, NextMischief, StatusSent,
         Send, SendBeacon, SendWeb, SendMischief, RepeatMischief, StopAll,
         transmission, TxEn
<1>2. transmitting' \/ UNCHANGED transmission
  BY DEF DisabledIrq, NextChannel, NextMischief, StatusSent, Send, SendBeacon,
         SendWeb, SendMischief, RepeatMischief, StopAll, TxEn
<1>3. UNCHANGED crystal \/ crystal' = "off"
  BY DEF DisabledIrq, NextChannel, NextMischief, StatusSent, StopAll, supply
<1>4. BeaconTypes'
  <2>1. raised' \subseteq {"COMPARE", "HFCLKSTARTED", "DISABLED"}
    BY DEF BeaconInv, BeaconTypes, DisabledIrq
  <2>2. crystal' \in {"off", "starting", "running"}
    BY <1>3 DEF BeaconInv, BeaconTypes
  <2>3. transmitting' \in BOOLEAN
    BY <1>2 DEF BeaconInv, BeaconTypes, transmission
  <2>4. QED
    BY <1>1, <2>1, <2>2, <2>3 DEF BeaconInv, BeaconTypes, DisabledIrq
<1>5. PacketSet'
  BY DEF BeaconInv, PacketSet, DisabledIrq, application
<1>6. Counted'
  <2>1. firmware' = firmware
    BY DEF DisabledIrq
  <2>2. firmware # "mischief" => g_iteration' = 0
    BY DEF DisabledIrq, NextChannel, NextMischief, StatusSent, BeaconInv, Counted
  <2>3. firmware = "power" => g_advertisment_index' = 0 /\ frequency' = 0
    BY DEF DisabledIrq, NextChannel, NextMischief, StatusSent, StopAll,
           transmission, BeaconInv, Counted
  <2>4. transmitting' \/ g_iteration' = 0
    BY <2>2 DEF DisabledIrq, NextMischief, NextChannel, StatusSent, SendMischief,
                RepeatMischief, TxEn
  <2>5. QED
    BY <2>1, <2>2, <2>3, <2>4 DEF Counted
<1>7. UNCHANGED <<firmware, g_sequence_counter, rtc0, overrun>>
  BY DEF DisabledIrq
<1>8. ASSUME ~overrun
      PROVE  /\ Underway' \/ RoundOver'
             /\ ~transmitting
             /\ Sends => RightPacket
             /\ crystal' = "off" => sent = RoundLength
             /\ RoundOver' => ~converter'
  <2>1. Underway /\ raised = {"DISABLED"} /\ ~transmitting /\ IrqsEnabled
    BY <1>8 DEF DisabledIrq, RadioServed, BeaconInv, Begun, Underway, RoundOver
  <2>2. /\ rtc0 = "idle" /\ crystal = "running"
        /\ sent = CHANNELS * g_iteration + g_advertisment_index + 1
        /\ g_advertisment_index \in 0 .. CHANNELS - 1
        /\ firmware = "mischief" =>
             /\ g_iteration <= TAG_COUNT
             /\ g_pkt_buffer = Packet(g_iteration, g_iteration)
        /\ firmware = "ble-beacon" =>
             LET pdu == IF g_sequence_counter = 0 THEN "name" ELSE "guid"
             IN g_pkt_buffer = Packet(pdu, pdu)
    BY <2>1 DEF Underway
  <2>3. raised' = {} /\ rtc0' = "idle"
    BY <1>7, <2>1, <2>2 DEF DisabledIrq
  <2>4. /\ CHANNELS' = CHANNELS /\ CHANNELS \in Nat \ {0} /\ CHANNELS \in {1, 3}
        /\ g_advertisment_index \in Nat /\ g_iteration \in Nat /\ sent \in Nat
        /\ TAG_COUNT \in Nat
    BY <1>7, ChannelCount, BeaconRadioAssumption DEF CHANNELS, BeaconInv, BeaconTypes
  <2> DEFINE index == g_advertisment_index + 1
  <2>5. CASE firmware \in {"ble-beacon", "physical-web"} /\ index < CHANNELS
    <3>1. /\ Send(index) /\ g_advertisment_index' = index
          /\ UNCHANGED <<crystal, g_iteration>> /\ g_iteration = 0
      BY <2>5 DEF DisabledIrq, NextChannel, NextMischief, StatusSent, supply,
                  BeaconInv, Counted
    <3>2. index \in 0 .. CHANNELS - 1 /\ sent = index
      BY <2>2, <2>4, <2>5, <3>1
    <3> HIDE DEF index
    <3>3. /\ RightPacket /\ transmitting' /\ sent' = sent + 1
          /\ firmware = "ble-beacon" =>
               LET pdu == IF g_sequence_counter = 0 THEN "name" ELSE "guid"
               IN g_pkt_buffer' = Packet(pdu, pdu)
      BY <1>8, <2>1, <2>2, <3>1, <3>2, SendIsRight DEF BeaconInv
    <3>4. Underway'
      <4>1. sent' = CHANNELS' * g_iteration' + g_advertisment_index' + 1
              /\ g_advertisment_index' \in 0 .. CHANNELS' - 1
        BY <2>4, <3>1, <3>2, <3>3
      <4>2. QED
        BY <1>7, <2>2, <2>3, <2>5, <3>1, <3>3, <4>1 DEF Underway
    <3>5. QED
      BY <2>1, <2>2, <3>1, <3>3, <3>4 DEF RoundOver
  <2>6. CASE firmware = "mischief" /\ index < CHANNELS
    <3>1. /\ RepeatMischief(index) /\ g_advertisment_index' = index
          /\ UNCHANGED <<crystal, g_iteration>>
      BY <2>4, <2>6 DEF DisabledIrq, NextChannel, NextMischief, StatusSent, supply
    <3>2. /\ transmitting' /\ sent' = sent + 1 /\ frequency' = index
          /\ UNCHANGED g_pkt_buffer
      BY <1>8, <2>1, <3>1 DEF RepeatMischief, TxEn
    <3>3. index \in 0 .. CHANNELS - 1 /\ sent = CHANNELS * g_iteration + index
      BY <2>2, <2>4, <2>6
    <3> HIDE DEF index
    <3>4. sent % CHANNELS = index /\ sent \div CHANNELS = g_iteration
      BY <2>4, <3>3, PacketAndChannel
    <3>5. RightPacket
      BY <2>2, <2>6, <3>1, <3>2, <3>4 DEF RightPacket, Packet
    <3>6. Underway'
      <4>1. sent' = CHANNELS' * g_iteration' + g_advertisment_index' + 1
              /\ g_advertisment_index' \in 0 .. CHANNELS' - 1
        BY <2>4, <3>1, <3>2, <3>3
      <4>2. QED
        BY <1>7, <2>2, <2>3, <2>6, <3>1, <3>2, <4>1 DEF Underway
    <3>7. QED
      BY <2>1, <2>2, <3>1, <3>2, <3>5, <3>6 DEF RoundOver
  <2>7. CASE firmware = "mischief" /\ index = CHANNELS /\ g_iteration < TAG_COUNT
    <3> DEFINE next == g_iteration + 1
    <3>1. /\ g_iteration' = next /\ SendMischief(next)
          /\ UNCHANGED crystal
      BY <2>4, <2>7 DEF DisabledIrq, NextChannel, NextMischief, StatusSent, supply
    <3>2. CHANNELS = 3 /\ next \in Nat /\ next <= TAG_COUNT /\ sent = CHANNELS * next
      BY <2>2, <2>4, <2>7, ChannelCount
    <3> HIDE DEF next
    <3>3. /\ RightPacket /\ transmitting' /\ sent' = sent + 1
          /\ g_advertisment_index' = 0 /\ g_pkt_buffer' = Packet(next, next)
      BY <1>8, <2>1, <2>2, <2>7, <3>1, <3>2, MischiefIsRight DEF BeaconInv
    <3>4. Underway'
      <4>1. sent' = CHANNELS' * g_iteration' + g_advertisment_index' + 1
              /\ g_advertisment_index' \in 0 .. CHANNELS' - 1
        BY <2>4, <3>1, <3>2, <3>3
      <4>2. QED
        BY <1>7, <2>2, <2>3, <2>7, <3>1, <3>2, <3>3, <4>1 DEF Underway
    <3>5. QED
      BY <2>1, <2>2, <3>1, <3>3, <3>4 DEF RoundOver
  <2>8. CASE index = CHANNELS /\ (firmware = "mischief" => g_iteration = TAG_COUNT)
    <3>1. StopAll
      BY <2>4, <2>8 DEF DisabledIrq, NextChannel, NextMischief, StatusSent
    <3>2. ~transmitting' /\ sent' = sent /\ crystal' = "off" /\ ~converter'
      BY <2>1, <3>1 DEF StopAll, transmission
    <3>3. RoundOver'
      BY <2>3, <3>2 DEF RoundOver
    <3>4. sent = RoundLength
      <4>1. CASE firmware = "mischief"
        <5>1. CHANNELS = 3 /\ g_iteration = TAG_COUNT
          BY <2>4, <2>8, <4>1, ChannelCount
        <5>2. sent = (TAG_COUNT + 1) * CHANNELS
          BY <2>2, <2>4, <2>8, <5>1
        <5>3. QED
          BY <4>1, <5>2 DEF RoundLength
      <4>2. CASE firmware # "mischief"
        <5>1. g_iteration = 0
          BY <4>2 DEF BeaconInv, Counted
        <5>2. sent = CHANNELS
          BY <2>2, <2>4, <2>8, <5>1
        <5>3. QED
          BY <4>2, <5>2 DEF RoundLength
      <4>3. QED
        BY <4>1, <4>2
    <3>5. ~Sends
      BY <2>4, <3>2 DEF Sends
    <3>6. QED
      BY <2>1, <3>2, <3>3, <3>4, <3>5
  <2>9. QED
    <3>1. index < CHANNELS \/ index = CHANNELS
      BY <2>2, <2>4
    <3>2. g_iteration < TAG_COUNT \/ g_iteration = TAG_COUNT \/ firmware # "mischief"
      BY <2>2, <2>4
    <3>3. index < CHANNELS => firmware \in {"ble-beacon", "physical-web", "mischief"}
      BY <2>2, <2>4, ChannelCount DEF BeaconInv, BeaconTypes
    <3>4. QED
      BY <2>5, <2>6, <2>7, <2>8, <3>1, <3>2, <3>3
<1>9. QED
  BY <1>4, <1>5, <1>6, <1>7, <1>8 DEF BeaconInv

-----------------------------------------------------------------------------
(* Whatever state a round leaves behind, the next one starts right; and     *)
(* until it is over or cut short the counters say what has been sent.       *)
LEMMA BeaconInvariant == BeaconSpec => []BeaconInv
<1>1. BeaconInit => BeaconInv
  BY BeaconStarts
<1>2. BeaconInv /\ [BeaconNext]_beaconVars => BeaconInv'
  <2> SUFFICES ASSUME BeaconInv, [BeaconNext]_beaconVars
               PROVE  BeaconInv'
    OBVIOUS
  <2>1. CASE Compare
    BY <2>1, CompareKeeps
  <2>2. CASE TimerIrq
    BY <2>2, RtcBeginKeeps, RtcStartKeeps, RtcPowerKeeps DEF TimerIrq
  <2>3. CASE CrystalStable
    BY <2>3, CrystalStableKeeps
  <2>4. CASE CrystalIrq
    BY <2>4, CrystalIrqKeeps
  <2>5. CASE Disabled
    BY <2>5, DisabledKeeps
  <2>6. CASE DisabledIrq
    BY <2>6, DisabledIrqKeeps
  <2>7. CASE \/ \E packet \in Packets \cup {NULL} : Advertise(packet)
             \/ Advertised \/ Interval \/ UNCHANGED beaconVars
    BY <2>7, ApplicationKeeps
  <2>8. QED
    BY <2>1, <2>2, <2>3, <2>4, <2>5, <2>6, <2>7 DEF BeaconNext
<1>3. QED
  BY <1>1, <1>2, PTL DEF BeaconSpec

(* The other steps send nothing, write to no packet and end no round.       *)
LEMMA OthersSendNothing ==
  ASSUME BeaconInv, ~overrun, ~overrun',
         \/ Compare \/ TimerIrq \/ CrystalStable \/ Disabled
         \/ \E packet \in Packets \cup {NULL} : Advertise(packet)
         \/ Advertised \/ Interval \/ UNCHANGED beaconVars
  PROVE  /\ ~Sends /\ UNCHANGED <<g_pkt_buffer, frequency>>
         /\ ~(crystal = "running" /\ crystal' = "off")
         /\ RoundOver' => RoundOver
<1>1. sent \in Nat
  BY DEF BeaconInv, BeaconTypes
<1>2. CASE Compare
  <2>1. sent' \in {0, sent} /\ UNCHANGED <<g_pkt_buffer, frequency, crystal>>
    BY <1>2 DEF Compare, supply
  <2>2. ~RoundOver'
    BY <1>2 DEF Compare, RoundOver
  <2>3. QED
    BY <1>1, <2>1, <2>2 DEF Sends
<1>3. CASE RtcBegin \/ CrystalStable \/ Disabled
  <2>1. sent' = sent /\ UNCHANGED <<g_pkt_buffer, frequency>>
    BY <1>3 DEF RtcBegin, CrystalStable, Disabled, transmission
  <2>2. crystal' = "off" => crystal = "off"
    BY <1>3 DEF RtcBegin, CrystalStable, Disabled, supply
  <2>3. ~RoundOver'
    BY <1>3 DEF RtcBegin, CrystalStable, Disabled, RoundOver
  <2>4. QED
    BY <1>1, <2>1, <2>2, <2>3 DEF Sends
<1>4. CASE RtcStart \/ RtcPower
  <2>1. sent' = sent /\ UNCHANGED <<g_pkt_buffer, frequency>>
    BY <1>4 DEF RtcStart, RtcPower, transmission
  <2>2. crystal' # "off"
    BY <1>4 DEF RtcStart, RtcPower, BeaconInv, Begun, Underway, RoundOver
  <2>3. ~RoundOver'
    BY <2>2 DEF RoundOver
  <2>4. QED
    BY <1>1, <2>1, <2>2, <2>3 DEF Sends
<1>5. CASE \/ \E packet \in Packets \cup {NULL} : Advertise(packet)
           \/ Advertised \/ Interval \/ UNCHANGED beaconVars
  <2>1. UNCHANGED <<transmission, rtc0, raised, crystal>>
    BY <1>5 DEF Advertise, Advertised, Interval, beaconVars, supply
  <2>2. QED
    BY <1>1, <2>1 DEF Sends, RoundOver, transmission
<1>6. QED
  BY <1>2, <1>3, <1>4, <1>5 DEF TimerIrq

(* Every round that is not cut short by the next one sends what it should,  *)
(* on each channel in turn, and switches everything off only then, for      *)
(* every set of packets and every number of tags that mischief plays.       *)
THEOREM BeaconRoundsComplete == BeaconSpec => RoundsComplete
<1> DEFINE P ==
      ~overrun /\ ~overrun' =>
       /\ Sends =>
            /\ crystal' = "running" /\ frequency' = sent % CHANNELS
            /\ firmware = "physical-web" =>
                 g_pkt_buffer'.length \in {NULL, g_pkt_buffer'.data}
            /\ firmware # "physical-web" /\ sent % CHANNELS # 0 =>
                 UNCHANGED g_pkt_buffer
            /\ firmware = "mischief" =>
                 g_pkt_buffer'.data = sent \div CHANNELS
       /\ transmitting /\ transmitting' => UNCHANGED <<g_pkt_buffer, frequency>>
       /\ crystal = "running" /\ crystal' = "off" => sent = RoundLength
       /\ ~RoundOver /\ RoundOver' => ~converter'
<1>1. BeaconInv /\ [BeaconNext]_beaconVars => [P]_beaconVars
  <2> SUFFICES ASSUME BeaconInv, [BeaconNext]_beaconVars, ~overrun, ~overrun'
               PROVE  P
    BY Zenon
  <2>1. CASE CrystalIrq
    <3>1. RightPacket /\ ~transmitting /\ ~RoundOver'
      BY <2>1, CrystalIrqKeeps
    <3>2. crystal' # "off"
      BY <3>1 DEF RightPacket
    <3>3. QED
      BY <3>1, <3>2 DEF RightPacket
  <2>2. CASE DisabledIrq
    BY <2>2, DisabledIrqKeeps, Zenon DEF RightPacket
  <2>3. CASE \/ Compare \/ TimerIrq \/ CrystalStable \/ Disabled
             \/ \E packet \in Packets \cup {NULL} : Advertise(packet)
             \/ Advertised \/ Interval \/ UNCHANGED beaconVars
    BY <2>3, OthersSendNothing, Zenon
  <2>4. QED
    BY <2>1, <2>2, <2>3, Zenon DEF BeaconNext
<1>2. QED
  BY <1>1, BeaconInvariant, PTL DEF BeaconSpec, RoundsComplete
=============================================================================
