# A verification development of OpenBeacon-NG

OpenBeacon-NG is a system of radio tags that detect each other's proximity:
the firmware of the tags and of the readers (`src/firmware/nRF51`) and the
programs on a host that collect what they report (`src/host`). This directory
holds TLA+ models of its concurrent and fault-prone parts, the TLC
configurations that check them and TLAPS proofs about them.

Paths below are relative to the repository; `tag-proximity/src/radio.c` stands
for `firmware/nRF51/tag-proximity/src/radio.c`, and so on.

    tlc -workers 2 -config MCLogBuffer.cfg MCLogBuffer
    tlapm LogBufferProofs.tla
    tlapm UartTxProofs.tla
    tlapm ReaderRadioProofs.tla
    tlapm TagRadioProofs.tla
    tlapm TagLogProofs.tla
    tlapm TrackerProofs.tla
    tlapm LinkProofs.tla

## 1. Inventory

### The proximity tag (firmware/nRF51/tag-proximity)

Everything the tag does in the field happens in interrupt handlers of an nRF51
microcontroller; the main loop reads the accelerometer and empties the log.
Interrupt priorities (`inc/config.h:67-78`): AES 0; RNG and POWER_CLOCK 1;
RADIO 2; RTC0, RTC1, ADC, UART0 and GPIOTE 3.

| part | state | operations | interacts with | hard behaviour |
|---|---|---|---|---|
| slot machine, `radio.c` | `g_nrf_state`, `g_request_tx`, `g_listen_ratio`, `g_button_pressed`, `g_rssi`, packet buffers, registers of RADIO, CLOCK, RTC0 | RTC0, POWER_CLOCK, RADIO, GPIOTE handlers, `radio_on_prox_packet` | sighting ring, `rng`, `aes`, `adc` | handlers preempt each other; three radio events share a handler and are plain flags; slots have no lock and rely on time |
| sighting ring, `log.c:45-165` | `g_log` | `log_sighting` (radio interrupt), `log_read` (main loop) | slot machine, flash log | interrupt in the middle of a copy; full ring |
| flash log, `log.c:54-117,186-357`, `flash.c` | `g_page`, `g_log_page`, `g_log_page_pos`, `g_first`, `g_hse`, the flash chip | `log_init`, `log_process`, `log_dump`, flash commands | heatshrink, ring, serial port | power failure while programming or erasing; nested loops with three error paths; full flash; sleeping chip |
| serial port, `core/.../uart.c` | `g_uart_buffer` and its indices, ENABLE | `uart_init`, `uart_tx`, `uart_power`, UART0 handler | `debug_printf`, `log_dump_escaped` | interrupt between test and store; power switched off by either side; waiting for room |
| random numbers, `rng.c` | pool, indices, count | `rng`, RNG handler | RTC0 and RADIO handlers | start and stop of the generator race |
| `timer.c` | `g_timer_wait` | `timer_wait`, RTC1 handler | main loop | a wake-up between test and sleep |
| `adc.c`, `acc.c`, `aes.c` | a voltage, SPI transfers, the AES engine and its context | | slot machine | the AES engine is used from two interrupt levels |

Properties that make it correct: slots do not overlap; the radio never runs
with wrong registers; power is off between slots; a sighting is recorded only
for a packet received, and stays until it was reported; the ring is a lossy
queue of whole sightings; the log survives crashes and decodes to what was
recorded; nothing starves.

### Other firmware

| part | state and operations | hard behaviour |
|---|---|---|
| `reader-prox`, `reader-prox-microbit` | ring of packets filled by the radio's DMA, emptied by the main loop; the two `radio.c` are the same file | DMA into a slot that is still unread; order of the events of a packet |
| `reader-ble` | the same ring for BLE advertisements, emptied with interrupts disabled | as above; no limit to the count |
| `tag-ble-beacon`, `tag-mischief`, `tag-physical-web` | an advertising state machine: three channels in turn | the interval timer against the radio |
| `tag-power` | one packet on one channel, sixteen times a second | encryption in an interrupt handler |
| `tag-accel`, `tag-sound` | sequential | none beyond the drivers |
| `core` | UART (above), CRCs, XXTEA, printf, start-up | |

### Host programs

| part | state and operations | hard behaviour |
|---|---|---|
| `tag-dumper` | receive loop (`escaped`, `overflow`, `last_type`, `buffer_out`), `port_rx` with a heatshrink decoder | started at any byte; lost bytes; pages of several compressed streams |
| `openbeacon-sniffer` | receive loop of the reader's packets, decryption | as above |
| `openbeacon-cape` | two receive loops, backlog of checksums against duplicates, sequence numbers, UDP | duplicates across readers; lost datagrams |
| `openbeacon-rx` | hash maps of tags and of proximities with a lock per item, a network thread, an estimation thread | walking over a map while it grows; fields written under another item's lock |
| `openbeacon-power` | the same map, one thread | |

## 2. Modules

| module | models | extends or instantiates |
|---|---|---|
| `LossyFifo` | the abstract queue that may refuse an item | |
| `LogBuffer` | the sighting ring | implements `LossyFifo` |
| `LogBufferProofs` | theorems about it | extends `LogBuffer` |
| `ProxRadio` | the slot machine | |
| `TagLog` | the flash log, its dump, power failures, the host's decoder | |
| `TagLogProofs` | theorems about it | extends `TagLog` |
| `UartTx` | the transmit buffer of the serial port | implements `LossyFifo` |
| `UartTxProofs` | theorems about it | extends `UartTx` |
| `SequenceLemmas` | facts about numbers and sequences the proofs rest on | |
| `SerialLink` | the framing of a dump and the receive loop of `tag-dumper` | |
| `PacketLink` | the framing of packets from the readers, the receive loops of `openbeacon-sniffer` and `openbeacon-cape`, its backlog against duplicates | extends `SerialLink` for the escaping |
| `LinkProofs` | theorems about both | extends `PacketLink` |
| `OverrunFifo` | the abstract queue in which an overrun destroys what waits | |
| `ReaderRadio` | the receive ring of the proximity and the BLE reader | implements `OverrunFifo` |
| `ReaderRadioProofs` | theorems about it | extends `ReaderRadio` |
| `Tracker` | the hash maps and the two threads of `openbeacon-rx` | |
| `TrackerProofs` | theorems about it | extends `Tracker` |
| `BeaconRadio` | the four firmwares that only transmit | |
| `TagRadioProofs` | theorems about `ProxRadio` and `BeaconRadio` | extends both |
| `MCTagRadios` | `ProxRadio` and `BeaconRadio` in one run: a behaviour is one of either | |
| `MCSerialLink` | the same for `SerialLink` and `PacketLink` | |
| `MC...` | the instances that TLC checks | |

In every module the variables keep the names they have in the source; where a
local variable outlives an action (`src`, `ipos`, `page`) it is a variable, and
`pc`, `rtc` or `isr` says where the code is. Definitions whose name ends in
`Fault` (in `LogBuffer`: those grouped above `LogSighting`) are wrong on
purpose and used by nothing: put in the place of the definition they precede,
they must make the property they are listed with fail.

### LogBuffer

`LogSighting` is `log_sighting`, one action because the main loop cannot
interrupt the radio handler it runs in. `log_read` is cut at each of its
accesses to shared memory: `ReadStart` (test of the count, address of the
slot), one `CopyWord` for each word of the `memcpy`, `ReadDone` (wrap of the
tail, protected decrement). The refinement maps the abstract queue to the
slots that count as unread, oldest first, and the item taken last to what
`log_read` returned last. That the compiler keeps the order of the copy and of
the decrement is an assumption: the CMSIS intrinsics (`core_cmFunc.h:315-331`)
do not name memory as clobbered.

### ProxRadio

One action per handler, cut where another handler may come in and see a
difference: `RTC0_IRQ_Handler` (priority 3) is `Second` and `DrawRequest`
(between them `rng` may wait), `SlotStart`, and `ListenEnd` followed by `Blink`
or by `ListenStop` and `DisableRadio`; `RADIO_IRQ_Handler` (2) is
`RadioDisabled`, `RadioEnd`, `RadioRssi`, in the order in which it tests its
events, while the hardware raises new ones; `POWER_CLOCK_IRQ_Handler` (1) and
`GPIOTE_IRQ_Handler` run to their ends. `RadioRuns` and `Rtc0Runs` are the
priorities.

The hardware is external: `HfClkStarted`, `TxEnd`, `RxAddress`, `RxEnd`,
`RampDown`. A received packet is one of the other tags, this tag's own packet
sent back, an authentic packet of another protocol, or noise, with or without a
correct CRC; what decryption does with it is in `RadioEnd` and
`RadioOnProxPacket`. A sighting slot holds a tag's uid, 0 or the bytes of the
status report that shares the union. Times, angles and voltages inside packets
are left out.

Time is counted in ticks. The compare registers hold the ticks left until their
event, and a tick waits for every pending interrupt: handlers are short against
the tick. `HFCLK_TIME` and `AIR_TIME` bound the hardware from above, and the
assumption `ProxRadioAssumption` states what the real numbers satisfy (spacing
25 ms less 7.8 ms, window 5 ms, packets and crystal below 1 ms each): the
shortest slot is longer than everything that may happen in it.
`SlotsDoNotOverlap` checks that the code needs no more than that.

`LATE_RADIO_IRQ` tells whether the radio interrupt of a packet's END may be
delayed by the few microseconds the radio takes to ramp down; the main loop and
the handlers of higher priority do disable or delay it at times.

### TagLog

The main loop from `log_init` on, in the field (`log_process`) or in the
programmer (`log_dump`), and `PowerLoss` at any point of it. The encoder is
modelled by its protocol: an input buffer that must be full before it is
encoded, and output that must be polled in pieces of the room left in the page,
of an amount chosen anew for each input buffer. Output is a sequence of units
numbered within the stream that began with the last reset, so that the decoder
of the host is right exactly if it sees the units of one stream in order.
Programming a page that is not blank spoils it; a power failure leaves the page
being written blank, complete or torn, and an erase anywhere in between. A chip
in deep power-down hears no command. `damaged` remembers the two accidents the
design does not protect against, an interrupted erase and a write past the last
page; the properties of the `tag_log` run hold until one of them happens, and
the second one is a finding of its own.

### UartTx

`uart_tx` is `Call`, `WaitForBuffer` and `Push` (interrupts disabled);
`uart_power` is `PowerOff` and `Flushed`, or `PowerUp`; `Uart0Irq` is the
interrupt. `force_powered` is the compile-time switch. The transmitter holds
one byte, which counts as buffered until its interrupt was served. After
`uart_power(FALSE)` no firmware sends any more (`tag-proximity/src/main.c:70`),
which is the guard of `Call`.

### SerialLink

`DumpEscaped` is `log_dump_escaped`; `Announce`, `AnnounceEnd`, `DumpPage`,
`DumpEnd` and `PrintText` are the order in which `log_dump` uses the line.
`Receive` is the body of the receive loop, byte by byte, so that the kernel's
boundaries between reads do not matter. `Attach` starts the host at any byte,
`Lose` loses one. `delivered` is the call of `port_rx` a step makes. The first
thing on the line is the prompt (`log.c:278`), as after every dump. The
assumptions on sizes are those of the code: a tag ID is four bytes, and a page
(`CONFIG_FLASH_PAGESIZE`) and each text fit into the 1024 bytes of the host's
buffer. `TransmissionStart` leaves `overflow` alone, as the code does
(`tag-dumper.c:271-275`): a host that has seen several frames run together by
losses, and too many bytes of them, ignores the tag ID that a transmission start
then begins. `Resynchronises` excepts just that case. That
`port_rx` returns false, after which a frame would not be dropped
(`tag-dumper.c:290`), cannot happen: the decoder only fails on null arguments.

### PacketLink

`Output` is the output of the reader's main loop, one packet with its signal
strength in front, escaped, and ended by 255, 1. `program` says which of the two
programs listens: the sniffer on one line, or the forwarder on two.
`SnifferReceives` is its loop over bytes, where any other sequence after 255
drops what was received; `PortReader` is the forwarder's, where it does not.
`PortReaderPkt` looks for the checksum in the backlog, which is a ring of zeros
at first. The checksum is a constant function; two packets with the same one
are the same to the forwarder, and `SentBefore`, which the property uses,
compares checksums as well. `passed` is the packet a step passes on, by
`port_rx` or by `sendto`, and `recent` the history that the property compares
the backlog with. What becomes of the datagram, and its sequence number, are
left out.

### ReaderRadio

The radio takes the packet pointer over when the receiver starts (`Ready`),
writes the packet into that slot (`Address` to `PayloadEnd`) and raises
RSSIEND, PAYLOAD and END, which `RadioIrq` serves together, those that have come
by then. Copying is cut into `Fetch` and `Copied`, between which the radio may
write (`Torn` is what a slot or a copy then holds); the BLE reader copies and
clears with interrupts disabled, which stops the handler but not the radio
(`FetchAndClear`). The radio does check a CRC, but `CRCSTATUS` is read before
this packet's is known: `PayloadServed` accepts or rejects as it pleases.
`COUNT_LIMIT` bounds how far the BLE reader, which does not look at its count,
may fall behind.

The abstract queue `OverrunFifo` hands out whole items in order and refuses
none silently; a packet that arrives while the ring is full replaces what waits
by `Any`, item by item, since the radio does write over the oldest slot. This
is the most that can be promised, and `RingInv` says that it does no lasting
damage.

### Tracker

`Process` is `process_packet`, cut where it locks and unlocks an item, and
`Estimate` is `thread_estimation_step`: three walks of `IterateLocked` (reset
the tags, use the proximities, print the tags), each item under its own lock.
`Add` may count an item before it stores it, as the compiler does at `-O3`;
`NullPointer` is the walk that follows the pointer not yet stored, after which
the server is gone (`crashed`; the run therefore does not check for deadlock).
Times are seconds; positions, strengths and forces are left out, but a tag
counts the forces on it (`Fcount`), and `edges` is the report. The two clocks
are one that does not run backwards, read by each thread when it begins.

### BeaconRadio

Four firmwares in one module, as their interrupt handlers have the same shape;
`SendBeacon`, `SendWeb`, `SendMischief` with `RepeatMischief` and `SendStatus`
are their ways to build a packet, `NextChannel`, `NextMischief` and
`StatusSent` what they do at its end. `TxEn` has no effect while the radio
transmits. The crystal takes longer to start than the rest of the handler that
starts it (some hundred microseconds against a few). `radio_advertise` is cut
between its two assignments. Rounds follow each other with nothing in between
but the interval: one second, 200 ms or 62 ms, all much longer than a round, so
that `Compare` waits for the end of the round, except where the application
chose the interval (`short`): then it may come at any time, and `overrun` marks
the round it cuts short.

## 3. What the runs check

| run | instance and bounds | properties |
|---|---|---|
| `log_buffer` | 3 slots, sightings of 2 words | types; `RingInv`; `ImplementsFifo`; `UnreadKept`; `EverySightingRead` |
| `prox_radio` | `ProxRadio` with 3 other tags, 2 sighting slots, a window every second slot, requests 0 to 2; `BeaconRadio` with 2 packets to advertise and 3 packets in a round of mischief | types; `SlotsDoNotOverlap`, `RadioConfigured`, `RestSavesPower`, `SlotsHoldSightings`, `SightingHeard`, `SightingsReported`; `RoundsComplete` |
| `prox_radio_live` | 1 tag, 1 slot | `RestsAgain`, `ListensForEver`, `ReportsForEver` |
| `tag_log` | 3 pages of 2 units, entries of 2, input buffer of 3, up to 5 units of output, 3 power cycles | types; `EncoderNotMisused`, `NothingBehindFreePage`, `PagesKept`, `DumpedAsRecorded`, `SightingConsumed` |
| `uart_tx` | ring of 3, 2 byte values, both builds | types; `UartInv`, `PoweredWhileBusy`, `SendsInOrder`, `CallReturns` |
| `serial_link` | `SerialLink` with pages of 2 bytes over {1, 2, 255}, up to 3 pages, 2 lost bytes; a buffer of 4 on the host; `PacketLink` with 4 packets of 2 bytes, two of them with the same checksum and one with checksum 0, a backlog of 2, 1 lost byte | types; `OnlyWholeFrames`, `Resynchronises`; `PacketsArriveOnce` |
| `reader_radio` | both readers, 2 slots, 2 packets, at most 4 unread | types; `RingInv`, `HandsOutInOrder`, `EveryPacketHandedOut` |
| `tracker` | 3 tags of which 2 send and 1 is fixed, 1 sighting per packet, 2 sightings per proximity, 3 packets within 2 seconds | types; `ProximityInv`, `ForcesOfThisReport`, `LiveEdgesReported`, `StepFinishes` |

Why these bounds are enough. A ring of three has a slot that is neither the
oldest nor the youngest, wraps within a few steps, and overflows. Two words are
what tearing needs. With three tags for two slots the sighting slots overflow,
and with a window in every second slot and requests of two slots, tracker
packets, status packets and windows follow each other in every order. Three
pages leave room for a group of two and another one behind it; entry, input
buffer and page sizes are chosen so that entries straddle input buffers, output
straddles pages and one input buffer is worth more than a page. Three power
cycles are: record, crash and record again, dump. Page bytes 1 and 2 are
frame types, and 255 is the escape; a buffer of four overflows when a lost byte
joins a page to the next one or to the text. The packets have 255 in front,
behind or not at all, two share a checksum, one has the checksum 0, and a
backlog of two wraps.
A ring of two slots fills and overruns while one slot is being copied, and four
unread packets are twice its size. With three packets in two seconds a pair is
seen from both ends, expires and comes back while a walk is under way; a walk
needs two items to have one appear behind it.

Four runs end in a violation; each shows a place where the program does not do
what its comments or documents say:

- `prox_radio_stale`: when the interrupt of a beacon's END is delayed past the
  ramp-down, one invocation of `RADIO_IRQ_Handler` first opens the window and
  then takes the beacon's own END for a packet received in it
  (`radio.c:397`). The last packet received is logged again.
- `tag_log_torn`: the verification loop of `log_scan_for_first_free_page` has
  no effect (`log.c:73`), so that a page whose programming was interrupted may
  be taken as free and be programmed again.
- `tag_log_full`: the end of the flash is tested per sighting, not per page
  (`log.c:197,234`); the page behind the last one is the first one.
- `tag_log_erase`: after an erase the tag goes on to dump as many pages as
  there were before it (`log.c:317-342`), from a chip it has put to sleep.

## 4. Fairness

Safety properties are checked without fairness. Liveness assumes

- `LogBuffer`, weak fairness of `LogRead`: the main loop calls `log_process`
  for ever (`main.c:80-87`) and interrupts only delay it. Nothing obliges the
  radio to receive anything.
- `ProxRadio`: weak fairness of time, of the hardware finishing what it
  started, and of pending interrupts. COMPARE[0] competes with other interrupts
  for the same handler and comes every second: strong fairness of `Second`; and
  `rng(5)` does not draw zero for ever: strong fairness of the draw of a
  non-zero request. Other tags and the button are under no obligation.
- `TagLog`: the main loop runs on while there is power.
- `UartTx`: the transmitter finishes its byte, its interrupt is served, and the
  waiting loops make progress when what they wait for is there; exception entry
  sets the event register, so that WFE does not miss a wake-up.

- `ReaderRadio`: the main loop runs, the receiver finishes what it began and
  its interrupt is served; nothing need be on the air.
- `Tracker`: both threads run. Strong fairness of the estimation thread's lock:
  the receiver holds a mutex for microseconds and waits for packets most of the
  time.

## 5. What is proved

`LogBufferProofs`, for every ring size, entry size and set of sightings, from
`LogBufferAssumption` alone:

- `RingInvariant`: `TypeOK` and `RingInv` are always true. Their conjunction
  `Inv` is inductive; `TypeOK` alone is not, since the range of the tail after
  `ReadDone` depends on where it stood before, and neither is `RingInv`, which
  needs the ranges for its arithmetic. Each action has a lemma. The one that
  carries the argument is `HeadIsFree`: in a ring that is not full the slot
  at the head is none of those that count as unread. `TypesOfTheRing` is the
  first half by itself.
- `UnreadIsKept`: the interrupt never writes an unread slot (action property,
  from the same invariant).
- `RingImplementsFifo`: the ring implements `LossyFifo`. Logging into a ring
  with room is `Offer`, the final step of `log_read` is `Take`, everything else
  stutters.

`UartTxProofs`, for every buffer size, set of bytes and both builds, from
`UartTxAssumption` alone:

- `UartInvariant`: `TypeOK`, `UartInv` and `PoweredWhileBusy` are always true.
  The inductive `Inv` adds `BytesInv`: neither the argument of `uart_tx` nor a
  slot in use is blank, without which the transmitter could be restarted with
  nothing and the count would no longer tell whether it runs. `UartInv` needs
  its last conjunct: between the test for room and the store only the interrupt
  runs, and that makes more room. `TypesOfTheUart` and `PowerWhileSending` are
  the other two parts by themselves.
- `PortImplementsFifo`: transmitter and ring together are one `LossyFifo`. The
  store is `Offer`, to the ring (`PushOffersToRing`) or to the idle transmitter
  (`PushOffersToTransmitter`); the byte leaving is `Take`; the interrupt moves
  a byte from one part to the other and leaves the queue as it is
  (`IrqKeepsQueue`).

`ReaderRadioProofs`, for every ring size, set of packets, both readers and every
`COUNT_LIMIT`, from `ReaderRadioAssumption` alone:

- `RingOfReaders`: `TypeOK` and `RingInv` are always true. The inductive `Inv`
  adds `CopyInv` (only the proximity reader copies with interrupts enabled, and
  only a packet that counts) and the type of the list of waiting packets. The
  positions agree modulo the ring size because the count of the BLE reader has
  no limit; the arithmetic is in `RemainderOfSuccessor` (one more moves the
  remainder as `Wrap` moves a position) and `RemainderOfTurn`, both from the
  uniqueness of the remainder. `TypesOfTheReaders` is the types by themselves.
- `RingImplementsOverrunFifo`: the ring implements `OverrunFifo`. `Inv` says
  nothing about contents; `ItemsInv` does, in three parts. `ContentInv`: each
  packet that counts and was not destroyed is in its slot, the copy in progress
  is true so far, and everything is given up while the count is beyond the
  slots. `AirInv`: the receiver writes into the slot at the write position,
  which holds a packet only when the ring is full (`SlotFacts`), and that one is
  then given up already. `ItemInv`: a packet that did not begin over a full ring
  is whole when its interrupt comes, and the proximity reader has its RSSI by
  then. `OldestSlot` shows that the code reads where the oldest packet is.
  Accepting with room is `Offer`; a packet that begins over a full ring, or is
  accepted by the BLE reader beyond it, is `Overrun`; returning one is `Take`.

`TagRadioProofs`, on `ProxRadio`, for every set of tags, number of slots and
timing, from `ProxRadioAssumption` alone unless said otherwise:

- `StagesOfASlot`: the inductive `Inv`. The checked invariants together are not
  inductive, because the code's argument is one of time: nothing but the length
  of a slot keeps two slots apart. `Stage` makes it an invariant. A slot is at
  rest, the crystal is starting or has started, the beacon or the tracker packet
  goes out, the window is open or being closed, the indicator flashes, or the
  receiver is being disabled; each stage says how the state machine, the radio,
  the crystal and the pending events stand, and that the slot has more ticks
  left (`cc1`) than everything that may still come needs. The start of a slot
  allots the time, and every step in it leads to a stage that needs less.
- `TypesOfTheTag`, `SlotsAreOver`, `RestIsQuiet`, `SlotsNameTags`: `TypeOK`,
  `SlotsDoNotOverlap`, `RestSavesPower` and `SlotsHoldSightings` follow.
- `EverySightingIsReported`: `SightingsReported`, an action property, from the
  conjunct `Reporting`.
- `RadioIsConfigured`: `RadioConfigured`, if the builds that blink take the END
  of a packet before the radio has ramped down, or do not blink.
- `SightingsWereHeard`: `SightingHeard`, if END is taken before the ramp-down.
  Without that it is false, as `prox_radio_stale` shows.

and on `BeaconRadio`, for every choice of firmwares, every set of packets and
every `TAG_COUNT`, from `BeaconRadioAssumption` alone:

- `BeaconRoundsComplete`: `RoundsComplete` (action property). The inductive
  `BeaconInv` says what must be true whatever an interval that is too short has
  done: the packet that the application set and its length belong together
  while interrupts are enabled (`PacketSet`), and nothing is counted once the
  radio and the crystal are at rest (`Counted`), so that a round which begins
  then begins right. Of a round that is not cut short it says where it is:
  `Begun` up to the crystal's interrupt, `Underway` with the number of
  transmissions that the counters tell, or over.

`TagLogProofs`, for flashes, pages, entries and encoder buffers of any size, any
compression ratio and any number of restarts, from `TagLogAssumption`:

- `LogStaysInOrder`: the inductive `Inv`. `EncoderInv` is the protocol of the
  nested loops; `SplitInv` says that recorded pages come before free ones and
  that `g_page` is the first free one; `ChainInv` that each page begins a stream
  or goes on where the page before it ends, `BufferInv` the same of the page in
  RAM, and `HostInv` that the decoder has got to where the next page begins.
  The split holds until `damaged`, what is said of contents until that or a
  blank head (`Intact`).
- `TypesOfTheLog`, `ErrorPathIsDead`: `TypeOK` and `EncoderNotMisused`, the
  three error paths that cannot be taken.
- `RecordedPagesSurvive`: `PagesKept` (action property), without assumption.
- `NothingIsHidden`, `DumpMatchesTheLog`: `NothingBehindFreePage` and
  `DumpedAsRecorded`, if an interrupted programming never leaves the first word
  of a page blank (`~BLANK_HEAD`). `tag_log_torn` shows what happens otherwise.
  The host's decoder is a recursive function; that a page of consecutive units
  is decoded to its end is proved from the least unit at which it would not be
  (`LeastNat`), where an induction over data would need what the provers lack.

`TrackerProofs`, for any number of tags, slots of a packet and of a proximity,
any aggregation time and any number of packets, from `TrackerAssumption` alone:

- `InvariantOfTheServer`: the inductive `Inv`. `MapInv` says that a map holds
  each item once and counts it before others see it; `Add` only appends, so the
  items of a walk stay where they are (`MapsGrow`, `WalkKept`). `LockInv` says
  which items each thread has locked, which keeps the receiver's pair and the
  walk's item apart. `ProxInv` reads the ring of sightings backwards from the
  last one; writing a slot leaves all others where they were, one further back
  (`SlotBack`, `RememberedFacts`, remainder arithmetic). It needs `ClockInv`,
  and that the clock started after the aggregation time: a proximity never
  written then counts as old. `ResetInv`, `ForceInv` and `EdgeInv` say of each
  of the three walks what it has done and what it has still to come to.
- `TypesOfTheServer`, `ProximitiesAreInOrder`: `TypeOK` and `ProximityInv`.
- `ForcesAreOfThisReport`: `ForcesOfThisReport`; the forces on a tag are, from
  the second walk on, those of the edges pushed so far, although the receiver
  adds items and moves proximities all the while.
- `NoLiveEdgeIsMissing`: `LiveEdgesReported`; a pair that was live when the
  walk began has a last sighting that is recent for the walk whichever thread
  wrote it last (`At(1)` is `last_seen`).

`LinkProofs`, on `SerialLink`, for every buffer, page, tag ID, text and number of
pages and losses, from `SerialLinkAssumption`:

- `LinkTypeOK`: `TypeOK`. The inductive `LinkInv` says where the line is in
  what is written on it: before the header of the frame (`AtHeader`), between
  its two bytes (`AtType`), after the first `k` bytes of the data (`After`),
  inside an escape (`Within`), or in the text (`InText`). For each of them it
  says what the host has. As long as nothing was lost it has what the tag has
  sent of this frame, or will not pass on what it has (`Got`), which covers a
  host started at any byte. From the first frame without losses on it is in
  step with the escapes, from the second on it has exactly the data (`Exact`),
  and at the header of the third it has all of the frame before (`Kept`). The
  three degrees are needed because each follows from the one before it.
- `LinkOnlyWholeFrames`, `LinkResynchronises`: `OnlyWholeFrames` and
  `Resynchronises`. A byte that ends a frame is the second of a header, which
  the line can only be at in `AtType` (`HeaderIsThere`).

  All of this rests on `EscapedFromFront`: data on the line is the code of its
  first byte and then the rest. `FlattenSeq`, by which `Escaped` is defined, is
  recursive from the other end. That reading it from the front gives the same is
  proved from the least prefix at which it would not (`LeastNat`).

and on `PacketLink`, for every set of packets of any size, every checksum, size
of the backlog and of the forwarder's buffers, from both assumptions:

- `PacketLinkArriveOnce`: `PacketsArriveOnce`. The inductive `PacketInv` locates
  each line as above (`Located`). Sniffer and forwarder differ in what an unknown
  sequence does and in how they count what does not fit, but a byte does the same
  to both as far as the invariant tells (`Reads`, `PassesOn`; `SnifferReads` and
  `ForwarderReads` show it), so that the lines are argued about once. A program
  started in the middle of a packet may by chance have as many bytes as were
  sent; then those are the right ones but for the first (`Match`), which is the
  signal strength. `BacklogOK` says in which slot the checksum of the `b`-th last
  packet sent is, for a ring that wraps, and that the others hold zero.

`SequenceLemmas` relates functions on `1..n` to sequences, appended to or with
the first element taken off, holds what the rings need of remainders, and proves
that a set of numbers has a least element.

TLC finds the inductive invariants of these last four modules true on the
instances of section 3, that of `ProxRadio` to the end with one other tag and one
sighting slot. Several things came to light on the way. `TypeOK` of
`TagLog` was too narrow: it bounded the units of a page by numbers that are
enough for the checked instance only, and now has the ranges that hold for every
value of the constants. And `MAX_TIME`, the bound on the clock of `Tracker`, had
no assumption; it is now a number not before `START`. `Resynchronises` was
checked with a buffer too large to overflow; the proof failed where a
transmission start leaves `overflow` set, which the run now reaches, and the
property names the case. `PacketsArriveOnce` compared packets where the forwarder
compares checksums, which is not the same for two packets that share one. A host
that is started before the tag has printed its prompt was missing. `UpdateTag`
and `Packets` of `Tracker` were rewritten, with the same meaning, in a form the
provers can expand.

Every safety property that a passing run checks is stated by a theorem. Only
model-checked are the liveness properties, `EverySightingRead`, `RestsAgain`,
`ListensForEver`, `ReportsForEver`, `SightingConsumed`, `CallReturns`,
`EveryPacketHandedOut` and `StepFinishes`: the prover supports neither fairness
nor `ENABLED`. And the four runs that end in a violation are counterexamples,
which need no proof.

## 6. What is not modelled

- Pure computation: AES, CRC, XXTEA, angles, printf, and the position estimate
  of `openbeacon-rx` as numbers.
- Vendor headers and start-up code, most of the lines of the repository, and
  the third-party compressor beyond its protocol: there is no behaviour of this
  program in them.
- The formatting of what the host prints, and programs that only do that
  (`filter-singularsighting`, `openbeacon-power`).
- The sequential demonstrations `tag-accel` and `tag-sound`, the start-up code
  of every `main.c`, and the MARKER_TAG builds of the proximity tag.
- `rng.c`: its pool is right because two values of the generator are some
  hundred microseconds apart, which a model needs a clock for.
- The channel switching of the BLE reader, and `radio_enable`.
- In the tracking server, the probing of the hash table, and replayed captures.

What the checks leave open although the code is modelled: that the readers
reject a packet with a wrong CRC (they may not); that the packet pointer the
walk of `IterateLocked` follows is stored (it may not be); rounds of a physical
web beacon with an interval shorter than a round.

## 7. Plan

Done: the tags, the readers, the serial lines and the programs that take what
they deliver, in the order of the table in section 2.

Every safety property of the runs is proved (section 5).

Left, in this order:

1. `RngPool`: the random pool, with a clock.
2. `ReaderRadio` and `PacketLink` composed into one chain from the air to the
   network.
