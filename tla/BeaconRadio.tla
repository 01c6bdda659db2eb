---------------------------- MODULE BeaconRadio ----------------------------
(***************************************************************************)
(* The tags that only transmit.  Four firmwares share one design: RTC0     *)
(* starts the crystal, its interrupt the first transmission, and the end   *)
(* of each transmission the next one, until the round is over:             *)
(*   firmware/nRF51/tag-ble-beacon/src/radio.c      one packet, 3 channels *)
(*   firmware/nRF51/tag-physical-web/lib/src/radio.c  the same, with a     *)
(*       packet and an interval that the application sets at any time      *)
(*   firmware/nRF51/tag-mischief/src/radio.c        TAG_COUNT + 1 packets  *)
(*   firmware/nRF51/tag-power/src/radio.c           one packet, 1 channel  *)
(*                                                                         *)
(* RTC0_IRQ_Handler (priority 3) is cut where the radio (2) and the        *)
(* crystal's interrupt (1) may come in between.  These two run in one      *)
(* step: the latter changes nothing that the former uses after it.         *)
(* An interval may be too short for a round, even the shortest that        *)
(* radio_interval accepts is.                                              *)
(***************************************************************************)
EXTENDS Integers, FiniteSets

CONSTANTS
  Firmwares,  (* some of those                                             *)
  Packets,    (* what the application lets the physical web beacon send    *)
  NULL,       (* no packet                                                 *)
  TAG_COUNT   (* of the mischief firmware                                  *)

ASSUME BeaconRadioAssumption ==
  /\ Firmwares \subseteq {"ble-beacon", "physical-web", "mischief", "power"}
  /\ TAG_COUNT \in Nat /\ NULL \notin Packets

VARIABLES
  firmware,
  g_advertisment_index, g_iteration,
  g_sequence_counter,               (* modulo 4                            *)
  g_beacon_pkt, g_beacon_pkt_len,   (* each as the packet it belongs to    *)
  new_pkt,       (* radio_advertise has its interrupts disabled to set     *)
                 (*   this packet: <<packet>>, else <<>>                   *)
  short,         (* g_beacon_pkt_interval may end during a round           *)
  g_pkt_buffer,  (* the packet on air: what it is made of, length and data *)
  rtc0,          (* where RTC0_IRQ_Handler is                              *)
  raised,        (* raised and not acknowledged                            *)
  frequency,     (* NRF_RADIO, as an index of g_advertisment               *)
  transmitting, crystal, converter,
  sent,          (* transmissions of this round                            *)
  overrun        (* this round was begun before the last one was over      *)

application == <<g_beacon_pkt, g_beacon_pkt_len, new_pkt, short>>
counters == <<g_advertisment_index, g_iteration, g_sequence_counter>>
transmission == <<g_pkt_buffer, frequency, transmitting, sent>>
supply == <<crystal, converter>>
beaconVars == <<firmware, counters, application, transmission, rtc0, raised,
                supply, overrun>>

CHANNELS == IF firmware = "power" THEN 1 ELSE 3

Packet(length, data) == [length |-> length, data |-> data]

BeaconInit ==
  /\ firmware \in Firmwares
  /\ g_advertisment_index = 0 /\ g_iteration = 0 /\ g_sequence_counter = 0
  /\ g_beacon_pkt = NULL /\ g_beacon_pkt_len = NULL
  /\ new_pkt = <<>> /\ short = FALSE
  /\ g_pkt_buffer = Packet(NULL, NULL)
  /\ rtc0 = "idle" /\ raised = {}
  /\ frequency = 0 /\ transmitting = FALSE
  /\ crystal = "off" /\ converter = FALSE
  /\ sent = 0 /\ overrun = FALSE

(* Nothing of a round is left to do. *)
RoundOver == ~transmitting /\ crystal = "off" /\ raised = {} /\ rtc0 = "idle"

-----------------------------------------------------------------------------
(* A faulty variant, as all definitions that end in Fault: the runs must    *)
(* tell them from the code.  Here radio_advertise does not disable them.    *)
IrqsEnabledFault == TRUE

(* The interrupts that are served, as radio_advertise may disable them. *)
IrqsEnabled == new_pkt = <<>>
RadioServed == IrqsEnabled /\ "HFCLKSTARTED" \notin raised
Rtc0Served == RadioServed /\ "DISABLED" \notin raised

(* Starts the radio with PACKETPTR and EVENTS_END set; while it transmits   *)
(* TASKS_TXEN has no effect.                                                *)
TxEn ==
  /\ transmitting' = TRUE
  /\ sent' = IF transmitting \/ overrun THEN sent ELSE sent + 1

(* radio_send_advertisment of the BLE beacon: its name in every fourth      *)
(* round, its GUID in the others.                                           *)
SendBeacon(index) ==
  /\ frequency' = index
  /\ LET pdu == IF g_sequence_counter = 0 THEN "name" ELSE "guid"
     IN g_pkt_buffer' = Packet(pdu, pdu)
  /\ TxEn

(* And of the physical web beacon: whatever the application has set. *)
SendWeb(index) ==
  /\ frequency' = index
  /\ g_pkt_buffer' = Packet(g_beacon_pkt_len,
       IF g_beacon_pkt_len = NULL THEN g_pkt_buffer.data ELSE g_beacon_pkt)
  /\ TxEn

(* The mischief firmware writes a packet, ... *)
SendMischief(iteration) ==
  /\ g_pkt_buffer' = Packet(iteration, iteration)
  /\ g_advertisment_index' = 0 /\ frequency' = 0
  /\ TxEn

(* ... and repeats it on the other channels. *)
RepeatMischief(index) ==
  /\ frequency' = index
  /\ TxEn
  /\ UNCHANGED g_pkt_buffer

(* The power meter tag encrypts its status first. *)
SendStatus ==
  /\ g_pkt_buffer' = Packet("status", "status")
  /\ TxEn
  /\ UNCHANGED frequency

Send(index) ==
  \/ firmware = "ble-beacon" /\ SendBeacon(index)
  \/ firmware = "physical-web" /\ SendWeb(index)

-----------------------------------------------------------------------------
(* The timer matches. *)
Compare ==
  /\ "COMPARE" \notin raised /\ (RoundOver \/ short)
  /\ raised' = raised \cup {"COMPARE"}
  /\ overrun' = ~RoundOver
  /\ sent' = IF RoundOver THEN 0 ELSE sent
  /\ UNCHANGED <<firmware, counters, application, g_pkt_buffer, frequency,
                 transmitting, rtc0, supply>>

(* RTC0_IRQ_Handler, to where the BLE firmwares have reset the index.  (The *)
(* physical web beacon counts its rounds as well, but never looks.)         *)
RtcBegin ==
  /\ rtc0 = "idle" /\ "COMPARE" \in raised /\ Rtc0Served
  /\ raised' = raised \ {"COMPARE"}
  /\ rtc0' = "start"
  /\ g_advertisment_index' = IF firmware \in {"ble-beacon", "physical-web"}
                             THEN 0 ELSE g_advertisment_index
  /\ g_sequence_counter' = IF firmware = "ble-beacon"
                           THEN (g_sequence_counter + 1) % 4 ELSE 0
  /\ UNCHANGED <<firmware, g_iteration, application, transmission, supply,
                 overrun>>

(* TASKS_HFCLKSTART; whether a crystal that runs raises the event again is  *)
(* not documented.                                                          *)
RtcStart ==
  /\ rtc0 = "start" /\ Rtc0Served
  /\ rtc0' = IF firmware = "power" THEN "idle" ELSE "power"
  /\ IF crystal = "running"
     THEN /\ raised' \in {raised, raised \cup {"HFCLKSTARTED"}}
          /\ UNCHANGED crystal
     ELSE crystal' = "starting" /\ UNCHANGED raised
  /\ UNCHANGED <<firmware, counters, application, transmission, converter,
                 overrun>>

(* The converter is started if adc_bat() is high enough. *)
RtcPower ==
  /\ rtc0 = "power" /\ Rtc0Served
  /\ rtc0' = "idle"
  /\ converter' \in {converter, TRUE}
  /\ UNCHANGED <<firmware, counters, application, transmission, raised, crystal,
                 overrun>>

(* The crystal is stable: that takes longer than the rest of the handler    *)
(* that started it.                                                         *)
CrystalStable ==
  /\ rtc0 = "idle" /\ crystal = "starting" /\ crystal' = "running"
  /\ raised' = raised \cup {"HFCLKSTARTED"}
  /\ UNCHANGED <<firmware, counters, application, transmission, rtc0, converter,
                 overrun>>

CrystalIrq ==
  /\ IrqsEnabled /\ "HFCLKSTARTED" \in raised
  /\ raised' = raised \ {"HFCLKSTARTED"}
  /\ \/ Send(g_advertisment_index) /\ UNCHANGED g_advertisment_index
     \/ firmware = "mischief" /\ SendMischief(g_iteration)
     \/ firmware = "power" /\ SendStatus /\ UNCHANGED g_advertisment_index
  /\ UNCHANGED <<firmware, g_iteration, g_sequence_counter, application, rtc0,
                 supply, overrun>>

(* The packet is out, and the shortcut disables the radio. *)
Disabled ==
  /\ transmitting /\ transmitting' = FALSE
  /\ raised' = raised \cup {"DISABLED"}
  /\ UNCHANGED <<firmware, counters, application, g_pkt_buffer, frequency, sent,
                 rtc0, supply, overrun>>

(* The end of a round: TASKS_HFCLKSTOP, and the converter off. *)
StopAll ==
  /\ crystal' = "off" /\ converter' = FALSE
  /\ UNCHANGED transmission

(* RADIO_IRQ_Handler of the BLE beacons, *)
NextChannel ==
  LET index == g_advertisment_index + 1
  IN /\ firmware \in {"ble-beacon", "physical-web"}
     /\ UNCHANGED g_iteration
     /\ IF index < CHANNELS
        THEN Send(index) /\ g_advertisment_index' = index /\ UNCHANGED supply
        ELSE StopAll /\ g_advertisment_index' = 0

(* of the mischief firmware *)
NextMischief ==
  LET index == g_advertisment_index + 1
  IN /\ firmware = "mischief"
     /\ \/ /\ index < CHANNELS /\ RepeatMischief(index)
           /\ g_advertisment_index' = index
           /\ UNCHANGED <<g_iteration, supply>>
        \/ /\ index = CHANNELS /\ g_iteration < TAG_COUNT
           /\ g_iteration' = g_iteration + 1 /\ SendMischief(g_iteration')
           /\ UNCHANGED supply
        \/ /\ index = CHANNELS /\ g_iteration = TAG_COUNT
           /\ g_advertisment_index' = 0 /\ g_iteration' = 0
           /\ StopAll

(* and of the power meter tag, whose converter is never on. *)
StatusSent ==
  /\ firmware = "power"
  /\ StopAll
  /\ UNCHANGED <<g_advertisment_index, g_iteration>>

DisabledIrq ==
  /\ RadioServed /\ "DISABLED" \in raised
  /\ raised' = raised \ {"DISABLED"}
  /\ NextChannel \/ NextMischief \/ StatusSent
  /\ UNCHANGED <<firmware, g_sequence_counter, application, rtc0, overrun>>

-----------------------------------------------------------------------------
(* The application of a physical web beacon calls radio_advertise, or with  *)
(* length 0 for NULL.                                                       *)
Advertise(packet) ==
  /\ firmware = "physical-web" /\ new_pkt = <<>>
  /\ new_pkt' = <<packet>> /\ g_beacon_pkt' = packet
  /\ UNCHANGED <<firmware, counters, g_beacon_pkt_len, short, transmission,
                 rtc0, raised, supply, overrun>>

(* The length follows in a second access. *)
Advertised ==
  /\ new_pkt # <<>> /\ new_pkt' = <<>>
  /\ g_beacon_pkt_len' = new_pkt[1]
  /\ UNCHANGED <<firmware, counters, g_beacon_pkt, short, transmission, rtc0,
                 raised, supply, overrun>>

(* radio_interval is called. *)
Interval ==
  /\ firmware = "physical-web" /\ new_pkt = <<>>
  /\ short' \in BOOLEAN
  /\ UNCHANGED <<firmware, counters, g_beacon_pkt, g_beacon_pkt_len, new_pkt,
                 transmission, rtc0, raised, supply, overrun>>

TimerIrq == RtcBegin \/ RtcStart \/ RtcPower

BeaconNext ==
  \/ Compare \/ CrystalStable \/ Disabled
  \/ TimerIrq \/ CrystalIrq \/ DisabledIrq
  \/ \E packet \in Packets \cup {NULL} : Advertise(packet)
  \/ Advertised \/ Interval

BeaconSpec == BeaconInit /\ [][BeaconNext]_beaconVars
-----------------------------------------------------------------------------
(* Transmissions of a round. *)
RoundLength ==
  IF firmware = "mischief" THEN (TAG_COUNT + 1) * CHANNELS ELSE CHANNELS

(* A transmission begins. *)
Sends == sent' = sent + 1

(* Every round that is not cut short by the next one, whatever became of    *)
(* the rounds before it and whenever the application sets another packet,   *)
(* sends what it should: on each channel in turn, with the crystal running, *)
(* each packet as one call of radio_advertise gave it (or, in the other     *)
(* firmwares, the same on all channels, and every one of mischief's), and   *)
(* nobody writes to a packet on air.  It is complete when crystal and       *)
(* converter are switched off, and at its end they are (tag-ble-beacon      *)
(* 71-199, physical-web 61-216, mischief 60-198, power 64-138).             *)
RoundsComplete ==
  [][~overrun /\ ~overrun' =>
       /\ Sends =>
            /\ crystal' = "running" /\ frequency' = sent % CHANNELS
            /\ firmware = "physical-web" =>
                 g_pkt_buffer'.length \in {NULL, g_pkt_buffer'.data}
            /\ firmware # "physical-web" /\ sent % CHANNELS # 0 =>
                 UNCHANGED g_pkt_buffer
            /\ firmware = "mischief" =>
                 g_pkt_buffer'.data = sent \div CHANNELS
       /\ transmitting /\ transmitting' => UNCHANGED <<g_pkt_buffer, frequency>>
       /\ crystal = "running" /\ crystal' = "off" => sent = RoundLength
       /\ ~RoundOver /\ RoundOver' => ~converter']_beaconVars
=============================================================================
