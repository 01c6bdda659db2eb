------------------------------- MODULE TagLog -------------------------------
(***************************************************************************)
(* The sighting log in the external flash of the proximity tag, from the   *)
(* main loop that compresses it to the host that reads it back             *)
(* (firmware/nRF51/tag-proximity/src/log.c and flash.c, host/tag-dumper).  *)
(*                                                                         *)
(* In the field log_process feeds each sighting to the encoder and writes  *)
(* every full page behind the last one.  In the programmer log_dump waits  *)
(* for the button, sends the pages to the host, or erases the flash.  The  *)
(* power may fail at any time and the tag wake up in either place: log_init *)
(* then looks for the first free page and starts a new group.              *)
(*                                                                         *)
(* The compressed data is seen as units <<stream, n>>: the n-th unit since *)
(* that reset of the encoder.  What a unit holds never matters: the host   *)
(* decodes a unit if its decoder has seen the stream up to it, and makes   *)
(* up sightings otherwise.                                                 *)
(***************************************************************************)
EXTENDS Integers, FiniteSetsExt

CONSTANTS
  PAGES,       (* g_page_count                                             *)
  BUFFER,      (* units in g_log_page.buffer                               *)
  ENTRY,       (* units in a TBeaconProxSighting                           *)
  INPUT,       (* units in the encoder's input buffer                      *)
  LEFTOVER,    (* most units of input the encoder keeps for later          *)
  MAX_DRAIN,   (* most units of output for one input buffer                *)
  BLANK_HEAD,  (* may an interrupted programming leave the first word of   *)
               (* the page erased?                                         *)
  MAX_BOOTS    (* bound on how often the tag is powered up                 *)

ASSUME TagLogAssumption ==
  /\ \A n \in {PAGES, BUFFER, ENTRY, INPUT, MAX_BOOTS} : n \in Nat \ {0}
  /\ LEFTOVER \in 0 .. INPUT - 1 /\ MAX_DRAIN \in Nat
  /\ BLANK_HEAD \in BOOLEAN

VARIABLES
  g_page, g_log_page_pos, g_first,
  buffer,    (* g_log_page.buffer                                          *)
  hse,       (* the encoder: its state, input_size, the output it has for  *)
             (* the input at hand, and the number of its next unit         *)
  stream,    (* how often the encoder was reset                            *)
  ipos,      (* the same in log_process                                    *)
  i, page,   (* the same in log_dump                                       *)
  pc,        (* where the main loop is                                     *)
  flash,     (* the pages                                                  *)
  awake,     (* the flash is not in deep power-down                        *)
  host,      (* how far the decoder of tag-dumper has followed a stream    *)
  boots,
  damaged    (* accidents since the flash was erased: an interrupted erase, *)
             (* a write past the last page                                 *)

log == <<g_log_page_pos, g_first, buffer, hse, stream, ipos>>
dump == <<i, page, host>>
vars == <<g_page, log, dump, pc, flash, awake, boots, damaged>>

Pages == 0 .. PAGES - 1
Blank == [kind |-> "blank"]
Torn == [kind |-> "torn"]
TornBlank == [kind |-> "tornblank"]    (* with 0xFFFFFFFF in the first word *)
Page(first, data) == [kind |-> "page", first |-> first, data |-> data]
NoUnit == <<0, 0>>

Fresh == [ok |-> TRUE, stream |-> 0, next |-> 0]
Garbled == [ok |-> FALSE, stream |-> 0, next |-> 0]

(* heatshrink_encoder_reset *)
ResetEncoder ==
  /\ hse' = [state |-> "NOT_FULL", input |-> 0, drain |-> 0, next |-> 0]
  /\ stream' = stream + 1

Init ==
  /\ g_page = 0 /\ g_log_page_pos = 0 /\ g_first = FALSE
  /\ buffer = [n \in 1..BUFFER |-> NoUnit]
  /\ hse = [state |-> "NOT_FULL", input |-> 0, drain |-> 0, next |-> 0]
  /\ stream = 0 /\ ipos = 0 /\ i = 0 /\ page = 0
  /\ pc = "off" /\ boots = 0
  /\ flash = [p \in Pages |-> Blank] /\ awake = FALSE
  /\ host = Fresh
  /\ damaged = {}

-----------------------------------------------------------------------------
(* Faulty variants, as all definitions that end in Fault: the runs must     *)
(* tell them from the code.  Here a page nobody can read counts as free, ...*)
ScanForFirstFreePageFault ==
  Min({PAGES} \cup {p \in Pages : flash[p].kind # "page"})

(* ... or the log starts at the first page after each restart. *)
ScanForFirstFreePageZeroFault == 0

(* log_scan_for_first_free_page: the loop that verifies the whole page      *)
(* continues itself, not the search, so the first word alone decides.       *)
ScanForFirstFreePage ==
  Min({PAGES} \cup {p \in Pages : flash[p].kind \in {"blank", "tornblank"}})

(* The first group is the only one to be marked. *)
PowerOnFault(in_programmer) ==
  /\ pc = "off" /\ boots < MAX_BOOTS
  /\ boots' = boots + 1
  /\ ResetEncoder
  /\ g_first' = (boots = 0)
  /\ g_log_page_pos' = 0 /\ buffer' = [n \in 1..BUFFER |-> NoUnit]
  /\ g_page' = ScanForFirstFreePage
  /\ pc' = IF in_programmer THEN "wait" ELSE "read"
  /\ awake' = in_programmer
  /\ UNCHANGED <<ipos, dump, flash, damaged>>

(* main_entry and log_init: above 3.2 V the tag is in the programmer. *)
PowerOn(in_programmer) ==
  /\ pc = "off" /\ boots < MAX_BOOTS
  /\ boots' = boots + 1
  /\ ResetEncoder
  /\ g_first' = TRUE
  /\ g_log_page_pos' = 0 /\ buffer' = [n \in 1..BUFFER |-> NoUnit]
  /\ g_page' = ScanForFirstFreePage
  /\ pc' = IF in_programmer THEN "wait" ELSE "read"
  /\ awake' = in_programmer
  /\ UNCHANGED <<ipos, dump, flash, damaged>>

-----------------------------------------------------------------------------
(* log_process *)

(* A sighting is only encoded while there is a page left; else it is lost. *)
Read ==
  /\ pc = "read"
  /\ g_page < PAGES
  /\ ipos' = 0
  /\ pc' = "sink"
  /\ UNCHANGED <<g_page, g_log_page_pos, g_first, buffer, hse, stream, dump,
                 flash, awake, boots, damaged>>

(* The label error. *)
Error ==
  /\ ResetEncoder
  /\ g_log_page_pos' = 0
  /\ g_first' = TRUE
  /\ pc' = "read"
  /\ UNCHANGED <<buffer, ipos>>

(* The rest of the entry is stored whether it fits or not. *)
SinkFault(drain) ==
  /\ pc = "sink"
  /\ ipos' = ENTRY
  /\ hse' = [hse EXCEPT !.input = @ + ENTRY - ipos,
               !.state = IF ENTRY - ipos >= INPUT - hse.input THEN "FILLED" ELSE @,
               !.drain = drain]
  /\ pc' = "poll"
  /\ UNCHANGED <<g_page, g_log_page_pos, g_first, buffer, stream, dump, flash,
                 awake, boots, damaged>>

(* heatshrink_encoder_sink takes what fits; a full input buffer is ready to *)
(* be encoded, to more or less output.                                      *)
Sink(drain) ==
  /\ pc = "sink"
  /\ LET room == INPUT - hse.input
         in == Min({room, ENTRY - ipos})
     IN IF hse.state # "NOT_FULL"
        THEN Error
        ELSE /\ ipos' = ipos + in
             /\ hse' = [hse EXCEPT !.input = @ + in,
                          !.state = IF in = room THEN "FILLED" ELSE @,
                          !.drain = IF in = room THEN drain ELSE @]
             /\ pc' = "poll"
             /\ UNCHANGED <<g_log_page_pos, g_first, buffer, stream>>
  /\ UNCHANGED <<g_page, dump, flash, awake, boots, damaged>>

(* Output is polled only once per input. *)
LoopEndFault(state) == IF ipos < ENTRY THEN "sink" ELSE "read"

(* Output is polled until it comes. *)
LoopEndPollFault(state) ==
  IF state = "FILLED" \/ ipos >= ENTRY THEN "poll" ELSE "sink"

(* The conditions at the end of the two loops. *)
LoopEnd(state) ==
  CASE state = "FILLED" -> "poll"
    [] state # "FILLED" /\ ipos < ENTRY -> "sink"
    [] OTHER -> "read"

(* heatshrink_encoder_poll: output until the page is full, which asks for   *)
(* another poll, or until the input is used up but for a few units.         *)
Poll(left) ==
  /\ pc = "poll"
  /\ LET room == BUFFER - g_log_page_pos
         out == Min({room, hse.drain})
         more == hse.drain > room
     IN IF room = 0
        THEN Error
        ELSE /\ buffer' = [n \in 1..BUFFER |->
                             IF n \in g_log_page_pos + 1 .. g_log_page_pos + out
                             THEN <<stream, hse.next + n - g_log_page_pos - 1>>
                             ELSE buffer[n]]
             /\ g_log_page_pos' = g_log_page_pos + out
             /\ hse' = IF hse.state = "FILLED"
                       THEN [state |-> IF more THEN "FILLED" ELSE "NOT_FULL",
                             input |-> IF more THEN hse.input ELSE left,
                             drain |-> hse.drain - out,
                             next  |-> hse.next + out]
                       ELSE hse
             /\ pc' = IF g_log_page_pos' >= BUFFER THEN "write"
                                                   ELSE LoopEnd(hse'.state)
             /\ UNCHANGED <<g_first, stream, ipos>>
  /\ UNCHANGED <<g_page, dump, flash, awake, boots, damaged>>

(* flash_cmd_seek sends 24 bits of address, of which 9 are for the byte in  *)
(* the page: behind the last page is the first one.                         *)
Seek(p) == p % PAGES

(* Programming only clears bits: a page that was not blank is spoilt. *)
Program(old, new) == IF old = Blank THEN new ELSE Torn

(* A full page: mark the first of a group and write it, behind the last.    *)
(* The chip is given its time before it is sent to sleep again.             *)
WritePage ==
  /\ pc = "write"
  /\ flash' = [flash EXCEPT ![Seek(g_page)] = Program(@, Page(g_first, buffer))]
  /\ damaged' = IF g_page < PAGES THEN damaged ELSE damaged \cup {"overrun"}
  /\ g_first' = FALSE
  /\ g_page' = g_page + 1
  /\ g_log_page_pos' = 0
  /\ awake' = FALSE
  /\ pc' = LoopEnd(hse.state)
  /\ UNCHANGED <<buffer, hse, stream, ipos, dump, boots>>

-----------------------------------------------------------------------------
(* log_dump *)

Press ==
  /\ pc = "wait"
  /\ i' = 0
  /\ pc' = "press"
  /\ UNCHANGED <<g_page, log, page, host, flash, awake, boots, damaged>>

(* The end of the loop that measures the press. *)
Pressed(held) ==
  /\ pc' = IF held THEN "press" ELSE "dump"
  /\ page' = IF held THEN page ELSE 0

(* 750 ms have passed with the button down; the third time erases. *)
Measure(held) ==
  /\ pc = "press"
  /\ i' = Min({i + 1, 3})
  /\ IF i' >= 3 THEN pc' = "erasing" /\ UNCHANGED page
                ELSE Pressed(held)
  /\ UNCHANGED <<g_page, log, host, flash, awake, boots, damaged>>

(* flash_status reports the end of flash_erase.  A sleeping chip hears no   *)
(* command, and what the open input reads as its status is anything.        *)
EraseDone(held) ==
  /\ pc = "erasing"
  /\ IF awake THEN /\ flash' = [p \in Pages |-> Blank]
                   /\ damaged' = {}
              ELSE UNCHANGED <<flash, damaged>>
  /\ awake' = FALSE
  /\ Pressed(held)
  /\ UNCHANGED <<g_page, log, i, host, boots>>

(* What the decoder makes of one unit, and of the units of a page. *)
DecodeUnit(hsd, unit) ==
  IF hsd.ok /\ unit[2] = hsd.next /\ (unit[2] = 0 \/ unit[1] = hsd.stream)
  THEN [ok |-> TRUE, stream |-> unit[1], next |-> unit[2] + 1]
  ELSE Garbled

Decode(hsd, data) ==
  LET after[n \in 0..BUFFER] ==
        IF n = 0 THEN hsd ELSE DecodeUnit(after[n - 1], data[n])
  IN after[BUFFER]

(* port_rx of tag-dumper: an erased page and the first page of a group      *)
(* reset the decoder, a page with a wrong checksum is skipped.              *)
PortRx(hsd, data) ==
  CASE data.kind \in {"blank", "tornblank"} -> Fresh
    [] data.kind = "torn" -> hsd
    [] data.kind = "page" -> Decode(IF data.first THEN Fresh ELSE hsd, data.data)

(* The next page goes to the host; from a sleeping chip, whatever the open  *)
(* input reads.                                                             *)
DumpPage ==
  /\ pc = "dump"
  /\ page < g_page
  /\ \E data \in IF awake THEN {flash[Seek(page)]} ELSE {Blank, Torn} :
        host' = PortRx(host, data)
  /\ page' = page + 1
  /\ UNCHANGED <<g_page, log, i, pc, flash, awake, boots, damaged>>

DumpDone ==
  /\ pc = "dump"
  /\ page = g_page
  /\ pc' = "wait"
  /\ UNCHANGED <<g_page, log, dump, flash, awake, boots, damaged>>

-----------------------------------------------------------------------------
(* What a page may hold when the power failed while it was written. *)
Interrupted(old, new) ==
  {old, Program(old, new), Torn}
    \cup IF BLANK_HEAD /\ old = Blank THEN {TornBlank} ELSE {}

(* The power fails.  Only the flash keeps its contents: a page that was     *)
(* being written or erased is left in between.                              *)
PowerLoss ==
  /\ pc # "off"
  /\ pc' = "off"
  /\ flash' \in
       CASE pc = "write" ->
              {[flash EXCEPT ![Seek(g_page)] = c] :
                 c \in Interrupted(flash[Seek(g_page)], Page(g_first, buffer))}
         [] pc = "erasing" /\ awake ->
              {[p \in Pages |-> IF p \in E THEN Blank
                                ELSE IF p \in T THEN Torn ELSE flash[p]] :
                 E \in SUBSET Pages, T \in SUBSET Pages}
         [] OTHER -> {flash}
  /\ damaged' = damaged
       \cup (IF pc = "erasing" /\ awake THEN {"erase"} ELSE {})
       \cup (IF pc = "write" /\ g_page >= PAGES THEN {"overrun"} ELSE {})
  /\ UNCHANGED <<g_page, log, dump, awake, boots>>

LogProcess ==
  \/ \E drain \in 0..MAX_DRAIN : Sink(drain)
  \/ \E left \in 0..LEFTOVER : Poll(left)
  \/ WritePage

LogDump ==
  \/ \E held \in BOOLEAN : Measure(held) \/ EraseDone(held)
  \/ DumpPage \/ DumpDone

Next ==
  \/ \E in_programmer \in BOOLEAN : PowerOn(in_programmer)
  \/ Read \/ LogProcess
  \/ Press \/ LogDump
  \/ PowerLoss

Spec == Init /\ [][Next]_vars

(* The main loop runs on while there is power. *)
FairSpec == Spec /\ WF_vars(LogProcess)

-----------------------------------------------------------------------------
Units == (0..MAX_BOOTS) \X Nat
PageStates ==
  {Blank, Torn, TornBlank}
    \cup [kind : {"page"}, first : BOOLEAN, data : [1..BUFFER -> Units]]

(* Every variable stays in its range. *)
TypeOK ==
  /\ g_page \in Nat /\ g_log_page_pos \in 0..BUFFER /\ g_first \in BOOLEAN
  /\ buffer \in [1..BUFFER -> Units]
  /\ hse \in [state : {"NOT_FULL", "FILLED"}, input : 0..INPUT,
              drain : 0..MAX_DRAIN, next : Nat]
  /\ stream \in 0..MAX_BOOTS /\ boots \in 0..MAX_BOOTS /\ ipos \in 0..ENTRY
  /\ i \in 0..3 /\ page \in Nat
  /\ pc \in {"off", "read", "sink", "poll", "write", "wait", "press",
             "erasing", "dump"}
  /\ flash \in [Pages -> PageStates] /\ awake \in BOOLEAN
  /\ damaged \subseteq {"erase", "overrun"}

(* The nested loops of log_process never hand the encoder input it has no   *)
(* room for nor poll it without room for output: the error path, which      *)
(* drops what was compressed so far, is never taken (log.c 207, 219).       *)
EncoderNotMisused ==
  /\ pc = "sink" => hse.state = "NOT_FULL"
  /\ pc = "poll" => g_log_page_pos < BUFFER

(* The first free page splits the flash: whatever crash came before, nothing *)
(* that was recorded hides behind it, where log_dump would not send it and  *)
(* log_process would write over it (log.c 54-80, 238, 331).                 *)
NothingBehindFreePage ==
  pc # "off" /\ damaged = {} => \A p \in Pages : p >= g_page => flash[p] = Blank

(* A page that was recorded keeps its contents across crashes and restarts  *)
(* until it is erased.                                                      *)
PagesKept ==
  [][damaged' = {} =>
       \A p \in Pages : flash[p].kind = "page" /\ flash'[p] # flash[p]
                          => pc = "erasing"]_vars

(* The host reconstructs no sighting that was not logged: each group it     *)
(* decodes is one stream without a gap, although the tag lost its power in  *)
(* the middle of other groups and of a write (log.c 222-247, tag-dumper.c   *)
(* 119-150).                                                                *)
DumpedAsRecorded == [][host.ok /\ ~host'.ok => damaged # {}]_vars

(* The loops of log_process end: the tag gets to its next sighting. *)
SightingConsumed == pc \in {"sink", "poll", "write"} ~> pc \in {"read", "off"}

(* docs/quickstart.md 21-22: previous data "is not erased unless explicitely *)
(* wanted".                                                                 *)
NotErasedUnasked ==
  [][\A p \in Pages : flash[p].kind = "page" /\ flash'[p] # flash[p]
                        => pc = "erasing"]_vars

(* log.c 75: the search for a free page stops "if sector is truly empty". *)
FreePageTrulyEmpty ==
  pc # "off" /\ g_page < PAGES => flash[g_page] = Blank

(* docs/quickstart.md 84-85: "Once the erasing stopped, the tag will go back *)
(* into idle mode": it does not send the pages of the last erase.           *)
ErasedGoesIdle == pc = "dump" /\ page < g_page => i < 3
=============================================================================
