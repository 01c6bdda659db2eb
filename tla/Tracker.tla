------------------------------ MODULE Tracker ------------------------------
(***************************************************************************)
(* The tracking server (host/openbeacon-rx/src): the thread of             *)
(* listen_packets, which enters packets into two hash maps, and            *)
(* thread_estimation, which walks over both and prints what it finds.      *)
(*                                                                         *)
(* bmMapHandleToItem has a mutex per item and none for the map.  Add       *)
(* stores a new item by m_MapIterate[m_MapIteratePos++] = map; the         *)
(* compiler may store the position first (g++ -O3 on x86-64 does), and     *)
(* IterateLocked then follows a null pointer.                              *)
(***************************************************************************)
EXTENDS Integers, Sequences, FiniteSets, SequencesExt

CONSTANTS
  Senders,      (* tags whose packets reach the server                     *)
  Tags,         (* tags they hear                                          *)
  Fixed,        (* those with an entry in g_BeaconList                     *)
  CONFIG_SIGHTING_SLOTS, MAX_PROXIMITY_SLOTS,
  PROXAGGREGATION_TIME,
  START,        (* the time when the server starts; 0 is long ago          *)
  MAX_TIME,     (* bound: the time at which the clock stops                *)
  MAX_PACKETS   (* bound: packets that the server receives                 *)

ASSUME TrackerAssumption ==
  /\ Tags \subseteq Nat \ {0} /\ Senders \subseteq Tags /\ Fixed \subseteq Tags
  /\ {PROXAGGREGATION_TIME, CONFIG_SIGHTING_SLOTS, MAX_PROXIMITY_SLOTS}
       \subseteq Nat \ {0}
  /\ START \in Nat /\ START >= PROXAGGREGATION_TIME
  /\ MAX_TIME \in Nat /\ MAX_TIME >= START

VARIABLES
  now,               (* the last time that a thread read from the clock     *)
  tag,               (* TTagItem of each tag                               *)
  prox,              (* TTagProximity of each pair                         *)
  m_MapIterate, m_MapIteratePos,   (* of g_map_tag and g_map_proximity     *)
  owner,             (* which thread has the mutex of an item              *)
  net,               (* the thread of listen_packets                       *)
  received,          (* the packets it has received, for MAX_PACKETS       *)
  est,               (* thread_estimation                                  *)
  crashed,           (* it followed a null pointer                         *)
  edges,             (* the edges of the step's report so far              *)
  live               (* history: pairs that were live when it began edges  *)

maps == <<m_MapIterate, m_MapIteratePos>>
report == <<edges, live>>
vars == <<now, tag, prox, maps, owner, net, received, est, crashed, report>>

Pairs == {pair \in Tags \X Tags : pair[1] < pair[2]}
TagHandles == {<<uid>> : uid \in Tags}
Handles == TagHandles \cup Pairs
Maps == {"tag", "proximity"}
MapOf(handle) == IF Len(handle) = 1 THEN "tag" ELSE "proximity"

(* TBeaconNgTracker: who heard whom, in the order of the slots, or a status *)
(* report.  A tag fills its slots from the first (SlotsHoldSightings of     *)
(* ProxRadio), so that empty ones are behind the others.                    *)
Packets ==
  [uid : Senders, proto : {"STATUS"}, heard : {<<>>}]
    \cup {[uid |-> p[1], proto |-> "SIGHTING", heard |-> p[2]] :
            p \in {q \in Senders \X SeqOf(Tags, CONFIG_SIGHTING_SLOTS) :
                     /\ q[2] # <<>> /\ q[1] \notin ToSet(q[2])
                     /\ Cardinality(ToSet(q[2])) = Len(q[2])}}

NoTag == [tag_id |-> 0, fixed |-> FALSE, calibrated |-> FALSE, Fcount |-> 0]

EmptyFifo == [s \in 0 .. MAX_PROXIMITY_SLOTS - 1 |-> 0]

NoProx == [tag1p |-> 0, tag2p |-> 0, last_seen |-> 0, calibrated |-> FALSE,
           fifo_pos |-> 0, fifo |-> EmptyFifo]

NoPacket == [uid |-> 0, proto |-> "NONE", heard |-> <<>>]

(* The threads between two packets and between two reports. *)
Waiting == [pc |-> "recv", timestamp |-> 0, track |-> NoPacket, i |-> 1]
Sleeping ==
  [pc |-> "idle", pass |-> "tags", timestamp |-> 0, count |-> 0, p |-> 0]

(* main, listen_packets: empty maps, a socket and two threads. *)
Init ==
  /\ now = START
  /\ tag = [uid \in Tags |-> NoTag] /\ prox = [pair \in Pairs |-> NoProx]
  /\ m_MapIterate = [m \in Maps |-> <<>>]
  /\ m_MapIteratePos = [m \in Maps |-> 0]
  /\ owner = [h \in Handles |-> "none"]
  /\ net = Waiting /\ received = 0
  /\ est = Sleeping
  /\ crashed = FALSE
  /\ edges = {} /\ live = {}

-----------------------------------------------------------------------------
(* bmMapHandleToItem *)

Find(handle) == handle \in ToSet(m_MapIterate[MapOf(handle)])

Stored(handle) ==
  m_MapIterate' = [m_MapIterate EXCEPT ![MapOf(handle)] = Append(@, handle)]

(* Add: lock the item.  A new one is counted and stored, one after the      *)
(* other if the compiler chose that order.                                  *)
Add(handle, found, counted) ==
  /\ owner[handle] = "none"
  /\ owner' = [owner EXCEPT ![handle] = "net"]
  /\ IF Find(handle)
     THEN /\ net' = [net EXCEPT !.pc = found]
          /\ UNCHANGED maps
     ELSE /\ m_MapIteratePos' = [m_MapIteratePos EXCEPT ![MapOf(handle)] = @ + 1]
          /\ \/ Stored(handle) /\ net' = [net EXCEPT !.pc = found]
             \/ UNCHANGED m_MapIterate /\ net' = [net EXCEPT !.pc = counted]

Store(handle, found) ==
  /\ Stored(handle)
  /\ net' = [net EXCEPT !.pc = found]
  /\ UNCHANGED <<m_MapIteratePos, owner>>

-----------------------------------------------------------------------------
(* The thread of listen_packets. *)

NetUnchanged == UNCHANGED <<now, est, crashed, report>>

(* recvfrom returns; parse_packet accepts and decrypts the packet. *)
Receive(track, time) ==
  /\ net.pc = "recv" /\ received < MAX_PACKETS
  /\ received' = received + 1
  /\ now' = time
  /\ net' = [pc |-> "tag", timestamp |-> time, track |-> track, i |-> 1]
  /\ UNCHANGED <<tag, prox, maps, owner, est, crashed, report>>

Me == net.track.uid

(* process_packet up to the switch, and its RFBPROTO_BEACON_NG_STATUS.      *)
UpdateTag ==
  tag' = [tag EXCEPT ![Me].tag_id = Me, ![Me].fixed = Me \in Fixed,
                     ![Me].calibrated = @ \/ net.track.proto = "STATUS"]

AddTag ==
  /\ net.pc = "tag"
  /\ Add(<<Me>>, "sighting", "storetag")
  /\ IF net'.pc = "sighting" THEN UpdateTag ELSE UNCHANGED tag
  /\ UNCHANGED <<received, prox>> /\ NetUnchanged

StoreTag ==
  /\ net.pc = "storetag"
  /\ Store(<<Me>>, "sighting") /\ UpdateTag
  /\ UNCHANGED <<received, prox>> /\ NetUnchanged

(* The loop over the sightings.  It does not advance past an empty slot. *)
Slot == net.i <= Len(net.track.heard)
Sorted(a, b) == IF a < b THEN <<a, b>> ELSE <<b, a>>
Pair == Sorted(Me, net.track.heard[net.i])

AddProx ==
  /\ net.pc = "sighting" /\ Slot
  /\ Add(Pair, "sighted", "storeprox")
  /\ UNCHANGED <<received, tag, prox>> /\ NetUnchanged

StoreProx ==
  /\ net.pc = "storeprox"
  /\ Store(Pair, "sighted")
  /\ UNCHANGED <<received, tag, prox>> /\ NetUnchanged

(* Faulty variants end in Fault: the runs must tell them from the code.     *)
(* Here sightings become old one second too late.                           *)
ErasedFault(p) ==
  IF net.timestamp - p.last_seen > PROXAGGREGATION_TIME
  THEN [p EXCEPT !.fifo_pos = 0, !.fifo = EmptyFifo]
  ELSE p

(* erase old sightings *)
Erased(p) ==
  IF net.timestamp - p.last_seen >= PROXAGGREGATION_TIME
  THEN [p EXCEPT !.fifo_pos = 0, !.fifo = EmptyFifo]
  ELSE p

(* The fifo is not closed to a ring. *)
RememberedFault(p) ==
  [p EXCEPT !.last_seen = net.timestamp,
            !.fifo[p.fifo_pos] = net.timestamp,
            !.fifo_pos = IF p.fifo_pos + 1 > MAX_PROXIMITY_SLOTS THEN 0
                         ELSE p.fifo_pos + 1]

(* remember time and sighting *)
Remembered(p) ==
  [p EXCEPT !.last_seen = net.timestamp,
            !.fifo[p.fifo_pos] = net.timestamp,
            !.fifo_pos = IF p.fifo_pos + 1 >= MAX_PROXIMITY_SLOTS THEN 0
                         ELSE p.fifo_pos + 1]

(* The pointers: to the sender when the pair is new, to each tag that is    *)
(* known by now.                                                            *)
Pointed(p) ==
  LET pointer(old, uid) == IF old # 0 THEN old
                           ELSE IF uid = Me \/ Find(<<uid>>) THEN uid ELSE 0
  IN [p EXCEPT !.tag1p = pointer(@, Pair[1]), !.tag2p = pointer(@, Pair[2])]

(* wait till both sides are calibrated *)
Calibrated(p) ==
  [p EXCEPT !.calibrated =
     @ \/ /\ p.tag1p # 0 /\ p.tag2p # 0
          /\ tag[p.tag1p].calibrated /\ tag[p.tag2p].calibrated]

(* process_packet with the lock of the proximity item, and the next slot. *)
Sighted ==
  /\ net.pc = "sighted"
  /\ prox' = [prox EXCEPT ![Pair] = Calibrated(Pointed(Remembered(Erased(@))))]
  /\ owner' = [owner EXCEPT ![Pair] = "none"]
  /\ net' = [net EXCEPT !.pc = "sighting", !.i = @ + 1]
  /\ UNCHANGED <<received, tag, maps>> /\ NetUnchanged

(* A status report is left without unlocking its tag. *)
UnlockTagFault ==
  /\ net.pc = "sighting" /\ ~Slot
  /\ owner' = IF net.track.proto = "STATUS" THEN owner
              ELSE [owner EXCEPT ![<<Me>>] = "none"]
  /\ net' = Waiting
  /\ UNCHANGED <<received, tag, prox, maps>> /\ NetUnchanged

(* release tag object *)
UnlockTag ==
  /\ net.pc = "sighting" /\ ~Slot
  /\ owner' = [owner EXCEPT ![<<Me>>] = "none"]
  /\ net' = Waiting
  /\ UNCHANGED <<received, tag, prox, maps>> /\ NetUnchanged

Process ==
  AddTag \/ StoreTag \/ AddProx \/ StoreProx \/ Sighted \/ UnlockTag

-----------------------------------------------------------------------------
(* thread_estimation *)

EstUnchanged == UNCHANGED <<now, maps, net, received>>

(* thread_estimation_step is called with the time and sleeps. *)
BeginStep(time) ==
  /\ est.pc = "idle"
  /\ now' = time
  /\ est' = [est EXCEPT !.pc = "sleep", !.pass = "reset", !.timestamp = time]
  /\ UNCHANGED <<tag, prox, maps, owner, net, received, crashed, report>>

Age(t) == est.timestamp - t
WalkedMap(pass) == IF pass = "edges" THEN "proximity" ELSE "tag"
Live(p) == p.last_seen # 0 /\ Age(p.last_seen) < PROXAGGREGATION_TIME

(* IterateLocked begins: it reads the number of items, without a lock. *)
Walk(pass) ==
  /\ est' = [est EXCEPT !.pc = "walk", !.pass = pass, !.p = 0,
                        !.count = m_MapIteratePos[WalkedMap(pass)]]
  /\ live' = IF pass = "edges" THEN {pair \in Pairs : Live(prox[pair])} ELSE live
  /\ UNCHANGED <<tag, prox, owner, crashed, edges>> /\ EstUnchanged

WakeUp ==
  /\ est.pc = "sleep"
  /\ Walk("reset")

Counted == est.pc = "walk" /\ est.p < est.count
Entry == m_MapIterate[WalkedMap(est.pass)][est.p + 1]
Missing == est.p >= Len(m_MapIterate[WalkedMap(est.pass)])

(* The next item is counted but not stored yet. *)
NullPointer ==
  /\ Counted /\ Missing
  /\ crashed' = TRUE
  /\ UNCHANGED <<tag, prox, owner, est, report>> /\ EstUnchanged

Lock ==
  /\ Counted /\ ~Missing
  /\ owner[Entry] = "none"
  /\ owner' = [owner EXCEPT ![Entry] = "est"]
  /\ est' = [est EXCEPT !.pc = "call"]
  /\ UNCHANGED <<tag, prox, crashed, report>> /\ EstUnchanged

Unlocked ==
  /\ owner' = [owner EXCEPT ![Entry] = "none"]
  /\ est' = [est EXCEPT !.pc = "walk", !.p = @ + 1]
  /\ UNCHANGED crashed /\ EstUnchanged

(* Forces add up over the reports. *)
ResetTagFault ==
  /\ est.pc = "call" /\ est.pass = "reset"
  /\ Unlocked
  /\ UNCHANGED <<tag, prox, report>>

(* thread_reset_tag *)
ResetTag ==
  /\ est.pc = "call" /\ est.pass = "reset"
  /\ tag' = [tag EXCEPT ![Entry[1]].Fcount = 0]
  /\ Unlocked
  /\ UNCHANGED <<prox, report>>

(* The tag that an edge moves: one end, when only the other is fixed. *)
Pushed(p) ==
  IF p.tag1p = 0 \/ p.tag2p = 0 THEN {}
  ELSE {uid \in {p.tag1p, p.tag2p} :
          ~tag[uid].fixed /\ tag[IF uid = p.tag1p THEN p.tag2p ELSE p.tag1p].fixed}

(* The slots that an edge is the mean of. *)
Recent(p) ==
  {s \in DOMAIN p.fifo : p.fifo[s] # 0 /\ Age(p.fifo[s]) <= PROXAGGREGATION_TIME}

(* An edge that expired is erased. *)
EraseEdge ==
  /\ est.pc = "call" /\ est.pass = "edges" /\ ~Live(prox[Entry])
  /\ prox' = [prox EXCEPT ![Entry].last_seen = 0, ![Entry].fifo_pos = 0,
                          ![Entry].fifo = EmptyFifo]
  /\ Unlocked
  /\ UNCHANGED <<tag, report>>

(* Any other pulls the tag that is not fixed, and is printed. *)
PrintEdge ==
  LET p == prox[Entry]
  IN /\ est.pc = "call" /\ est.pass = "edges" /\ Live(p)
     /\ IF Recent(p) = {}
        THEN UNCHANGED <<tag, edges>>
        ELSE /\ tag' = [uid \in Tags |-> [tag[uid] EXCEPT
                          !.Fcount = IF uid \in Pushed(p) THEN @ + 1 ELSE @]]
             /\ edges' = edges \cup {[pair |-> Entry, pushed |-> Pushed(p)]}
     /\ Unlocked
     /\ UNCHANGED <<prox, live>>

(* A tag is printed, unless it has expired, and takes a step along the mean *)
(* of the forces.  Its position is not modelled: nothing depends on it.     *)
PrintTag ==
  /\ est.pc = "call" /\ est.pass = "tags"
  /\ Unlocked
  /\ UNCHANGED <<tag, prox, report>>

(* The walk ends one item early. *)
WalkedFault == est.pc = "walk" /\ est.p + 1 >= est.count

(* The three walks, one after the other, ... *)
Walked == est.pc = "walk" /\ est.p = est.count

NextPass ==
  /\ Walked /\ est.pass # "tags"
  /\ Walk(IF est.pass = "reset" THEN "edges" ELSE "tags")

(* ... and the end of the report. *)
EndStep ==
  /\ Walked /\ est.pass = "tags"
  /\ est' = Sleeping
  /\ edges' = {} /\ live' = {}
  /\ UNCHANGED <<tag, prox, owner, crashed>> /\ EstUnchanged

Callback == ResetTag \/ EraseEdge \/ PrintEdge \/ PrintTag
Estimate == WakeUp \/ NullPointer \/ Lock \/ Callback \/ NextPass \/ EndStep

Next ==
  /\ ~crashed
  /\ \/ Process \/ Estimate
     \/ \E time \in now .. MAX_TIME :
          BeginStep(time) \/ \E track \in Packets : Receive(track, time)

Spec == Init /\ [][Next]_vars

(* Both threads run.  A mutex that is free again and again is obtained: the *)
(* receiver waits in recvfrom most of the time.                             *)
FairSpec ==
  /\ Spec
  /\ WF_vars(~crashed /\ Process)
  /\ WF_vars(~crashed /\ Estimate)
  /\ SF_vars(Lock)

-----------------------------------------------------------------------------
(* Every variable stays in its range. *)
TypeOK ==
  /\ now \in START .. MAX_TIME
  /\ tag \in [Tags -> [tag_id : Tags \cup {0}, fixed : BOOLEAN,
                       calibrated : BOOLEAN, Fcount : Nat]]
  /\ \A pair \in Pairs :
       /\ prox[pair].fifo_pos \in DOMAIN EmptyFifo
       /\ prox[pair].fifo \in [DOMAIN EmptyFifo -> Nat]
       /\ {prox[pair].tag1p, prox[pair].tag2p} \subseteq Tags \cup {0}
  /\ \A m \in Maps : ToSet(m_MapIterate[m]) \subseteq {h \in Handles : MapOf(h) = m}
  /\ owner \in [Handles -> {"none", "net", "est"}]
  /\ est.p \in 0 .. est.count

(* What both threads and their two ways to erase a proximity leave behind:  *)
(* it points to its own tags, in their order, to the sender at least, and   *)
(* counts as calibrated once both are; its newest sighting is the last one  *)
(* written, and no two neighbours are an aggregation time apart             *)
(* (main.cpp 206-257, 498-504).                                             *)
ProximityInv ==
  \A pair \in {h \in Pairs : Find(h) /\ owner[h] = "none"} :
    LET p == prox[pair]
        at(back) == p.fifo[(p.fifo_pos + 2 * MAX_PROXIMITY_SLOTS - back)
                             % MAX_PROXIMITY_SLOTS]
    IN /\ p.tag1p \in {0, pair[1]} /\ p.tag2p \in {0, pair[2]}
       /\ p.tag1p # 0 \/ p.tag2p # 0
       /\ p.calibrated => p.tag1p # 0 /\ p.tag2p # 0 /\ tag[p.tag1p].calibrated
                            /\ tag[p.tag2p].calibrated
       /\ at(1) = p.last_seen
       /\ \A back \in 1 .. MAX_PROXIMITY_SLOTS - 1 :
            at(back + 1) # 0 => at(back) - at(back + 1) \in
                                  0 .. PROXAGGREGATION_TIME - 1

(* The edges of the report are complete. *)
Complete == est.pass = "tags" /\ est.pc # "idle"

(* The forces on a tag are those of the edges of the same report, of all,   *)
(* although the walk over the edges writes to tags whose locks it does not  *)
(* hold, and new tags and edges appear between the three walks              *)
(* (main.cpp 447-448, 424-434, 539-543, 580-588).                           *)
ForcesOfThisReport ==
  Complete =>
    \A uid \in Tags :
      tag[uid].Fcount = Cardinality({e \in edges : uid \in e.pushed})

(* A report has an edge for every pair that was sighted within the          *)
(* aggregation time when the walk over the edges began, although the        *)
(* receiver adds and refreshes edges, and the walk erases old ones          *)
(* (main.cpp 207-211, 497-504, 529-531; bmMapHandleToItem.cpp 204-213).     *)
LiveEdgesReported == Complete => live \subseteq {e.pair : e \in edges}

(* A report is completed, or the server has crashed: no thread waits for    *)
(* the other for ever, and the items added during a walk do not prolong it  *)
(* (bmMapHandleToItem.cpp 204-213).                                         *)
StepFinishes == est.pc # "idle" ~> (est.pc = "idle" \/ crashed)
=============================================================================
