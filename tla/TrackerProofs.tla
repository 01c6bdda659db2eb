--------------------------- MODULE TrackerProofs ---------------------------
(***************************************************************************)
(* Proofs about Tracker, for any number of tags, slots of a packet and of  *)
(* a proximity, any aggregation time and any number of packets.            *)
(***************************************************************************)
EXTENDS Tracker, SequenceLemmas, FiniteSetTheorems, TLAPS

NetPcs == {"recv", "tag", "storetag", "sighting", "storeprox", "sighted"}
EstPcs == {"idle", "sleep", "walk", "call"}
Passes == {"reset", "edges", "tags"}
Positions == 0 .. MAX_PROXIMITY_SLOTS - 1

(* Ranges, those of TypeOK and of what it leaves out. *)
TagStates ==
  [tag_id : Tags \cup {0}, fixed : BOOLEAN, calibrated : BOOLEAN, Fcount : Nat]

Proximities ==
  [tag1p : Tags \cup {0}, tag2p : Tags \cup {0}, last_seen : Nat,
   calibrated : BOOLEAN, fifo_pos : Positions, fifo : [Positions -> Nat]]

NetStates ==
  [pc : NetPcs, timestamp : Nat, track : Packets \cup {NoPacket},
   i : Nat \ {0}]

EstStates ==
  [pc : EstPcs, pass : Passes, timestamp : Nat, count : Nat, p : Nat]

Types ==
  /\ tag \in [Tags -> TagStates]
  /\ prox \in [Pairs -> Proximities]
  /\ m_MapIterate \in [Maps -> Seq(Handles)]
  /\ m_MapIteratePos \in [Maps -> Nat]
  /\ owner \in [Handles -> {"none", "net", "est"}]
  /\ net \in NetStates
  /\ net.pc # "recv" => net.track \in Packets
  /\ net.pc \in {"storeprox", "sighted"} => Slot
  /\ est \in EstStates
  /\ edges \subseteq [pair : Pairs, pushed : SUBSET Tags]
  /\ IsFiniteSet(edges)

(* The clock does not run backwards: what was seen was seen before. *)
ClockInv ==
  /\ now \in START .. MAX_TIME
  /\ \A pair \in Pairs : prox[pair].last_seen <= now
  /\ net.pc # "recv" =>
       /\ net.timestamp \in START .. now
       /\ \A pair \in Pairs : prox[pair].last_seen <= net.timestamp

(* The j-th item of a map. *)
Item(m, j, handle) ==
  j \in 1 .. Len(m_MapIterate[m]) /\ m_MapIterate[m][j] = handle

(* An item is counted, but not stored yet. *)
Pending(m) == net.pc = (IF m = "tag" THEN "storetag" ELSE "storeprox")

(* Each item is stored once, in its map, and counted before the others can  *)
(* see it.                                                                  *)
ItemsInv ==
  \A m \in Maps :
    /\ \A j \in 1 .. Len(m_MapIterate[m]) : MapOf(m_MapIterate[m][j]) = m
    /\ \A j, k \in 1 .. Len(m_MapIterate[m]) :
         m_MapIterate[m][j] = m_MapIterate[m][k] => j = k
    /\ Pending(m) => m_MapIteratePos[m] = Len(m_MapIterate[m]) + 1
    /\ ~Pending(m) => m_MapIteratePos[m] = Len(m_MapIterate[m])

(* What the receiver works on is stored when it has to be. *)
MapInv ==
  /\ ItemsInv
  /\ net.pc = "storetag" => ~Find(<<Me>>)
  /\ net.pc = "storeprox" => ~Find(Pair)
  /\ net.pc \in {"sighting", "storeprox", "sighted"} => Find(<<Me>>)
  /\ net.pc = "sighted" => Find(Pair)

(* Each thread has the locks of the items it works on. *)
LockInv ==
  /\ net.pc \in {"storetag", "sighting", "storeprox", "sighted"} =>
       owner[<<Me>>] = "net"
  /\ net.pc \in {"storeprox", "sighted"} => owner[Pair] = "net"
  /\ est.p <= est.count
  /\ est.pc = "call" =>
       /\ est.p < est.count
       /\ Item(WalkedMap(est.pass), est.p + 1, Entry)
       /\ owner[Entry] = "est"

(* The sightings of a proximity from the last one backwards. *)
At(p, back) ==
  p.fifo[(p.fifo_pos + 2 * MAX_PROXIMITY_SLOTS - back) % MAX_PROXIMITY_SLOTS]

(* A proximity that the receiver has written, as ProximityInv has it. *)
Sane(pair) ==
  LET p == prox[pair]
  IN /\ p.tag1p \in {0, pair[1]} /\ p.tag2p \in {0, pair[2]}
     /\ p.tag1p # 0 \/ p.tag2p # 0
     /\ p.calibrated => p.tag1p # 0 /\ p.tag2p # 0 /\ tag[p.tag1p].calibrated
                          /\ tag[p.tag2p].calibrated
     /\ At(p, 1) = p.last_seen
     /\ \A back \in 1 .. MAX_PROXIMITY_SLOTS - 1 :
          At(p, back + 1) # 0 =>
            At(p, back) - At(p, back + 1) \in 0 .. PROXAGGREGATION_TIME - 1

(* A proximity is empty until it is stored and written for the first time;  *)
(* its pointers are to tags that are stored.                                *)
ProxInv ==
  \A pair \in Pairs :
    /\ ~Find(pair) => prox[pair] = NoProx
    /\ Find(pair) =>
         \/ Sane(pair)
         \/ net.pc = "sighted" /\ pair = Pair /\ prox[pair] = NoProx
    /\ \A uid \in {prox[pair].tag1p, prox[pair].tag2p} \ {0} : Find(<<uid>>)

(* A walk, with its items before est.p done. *)
Walking(pass) == est.pc \in {"walk", "call"} /\ est.pass = pass

(* The first walk leaves forces on the tags only that are still to come. *)
ResetInv ==
  /\ \A uid \in Tags : tag[uid].Fcount # 0 => Find(<<uid>>)
  /\ est.pc = "sleep" => est.pass = "reset"
  /\ est.pc \in {"idle", "sleep"} \/ est.pass = "reset" => edges = {}
  /\ Walking("reset") =>
       \A uid \in Tags : tag[uid].Fcount # 0 =>
         \E j \in est.p + 1 .. est.count : Item("tag", j, <<uid>>)

(* From then on the forces are those of the edges. *)
ForceInv ==
  Walking("edges") \/ Walking("tags") =>
    \A uid \in Tags :
      tag[uid].Fcount = Cardinality({e \in edges : uid \in e.pushed})

(* The second walk has an edge for each pair that was live when it began or *)
(* has still to come to it, and none twice.                                 *)
EdgeInv ==
  /\ Walking("edges") =>
       /\ \A e \in edges : \E j \in 1 .. est.p : Item("proximity", j, e.pair)
       /\ \A pair \in live :
            \/ \E e \in edges : e.pair = pair
            \/ /\ pair \in Pairs /\ Live(prox[pair])
               /\ \E j \in est.p + 1 .. est.count : Item("proximity", j, pair)
  /\ Walking("tags") => live \subseteq {e.pair : e \in edges}

Inv ==
  /\ Types /\ ClockInv /\ MapInv /\ LockInv /\ ProxInv
  /\ ResetInv /\ ForceInv /\ EdgeInv
-----------------------------------------------------------------------------
(* The constants. *)
LEMMA Constants ==
  /\ Tags \subseteq Nat \ {0} /\ Senders \subseteq Tags
  /\ PROXAGGREGATION_TIME \in Nat \ {0} /\ CONFIG_SIGHTING_SLOTS \in Nat \ {0}
  /\ MAX_PROXIMITY_SLOTS \in Nat \ {0}
  /\ START \in Nat /\ START >= PROXAGGREGATION_TIME
  /\ MAX_TIME \in Nat /\ MAX_TIME >= START
  BY TrackerAssumption

(* The item of a tag is in the one map, that of a pair in the other.        *)
LEMMA MapOfHandles ==
  /\ \A uid \in Tags : <<uid>> \in Handles /\ MapOf(<<uid>>) = "tag"
  /\ \A pair \in Pairs : pair \in Handles /\ MapOf(pair) = "proximity"
  /\ \A h \in Handles : MapOf(h) \in Maps
<1>1. \A uid \in Tags : <<uid>> \in Handles /\ MapOf(<<uid>>) = "tag"
  <2> TAKE uid \in Tags
  <2>1. Len(<<uid>>) = 1
    OBVIOUS
  <2>2. QED
    BY <2>1 DEF Handles, TagHandles, MapOf
<1>2. \A pair \in Pairs : pair \in Handles /\ MapOf(pair) = "proximity"
  <2> TAKE pair \in Pairs
  <2>1. PICK a \in Tags, b \in Tags : pair = <<a, b>>
    BY DEF Pairs
  <2>2. Len(<<a, b>>) = 2
    OBVIOUS
  <2>3. MapOf(pair) = "proximity"
    BY <2>1, <2>2 DEF MapOf
  <2>4. QED
    BY <2>3 DEF Handles
<1>3. \A h \in Handles : MapOf(h) \in Maps
  BY DEF MapOf, Maps
<1>4. QED
  BY <1>1, <1>2, <1>3

(* The two tags of a pair. *)
LEMMA PairFacts ==
  ASSUME NEW pair \in Pairs
  PROVE  /\ pair[1] \in Tags /\ pair[2] \in Tags
         /\ pair[1] \in Nat /\ pair[2] \in Nat /\ pair[1] < pair[2]
         /\ pair[1] # 0 /\ pair[2] # 0
  BY Constants DEF Pairs

(* A packet is from a sender, about others. *)
LEMMA PacketFacts ==
  ASSUME NEW t \in Packets
  PROVE  /\ t.uid \in Tags /\ t.heard \in Seq(Tags)
         /\ \A k \in 1 .. Len(t.heard) : t.heard[k] # t.uid
<1>1. CASE t \in [uid : Senders, proto : {"STATUS"}, heard : {<<>>}]
  <2>1. t.uid \in Senders /\ t.heard = <<>>
    BY <1>1
  <2>2. t.heard \in Seq(Tags) /\ Len(t.heard) = 0
    BY <2>1
  <2>3. \A k \in 1 .. Len(t.heard) : FALSE
    BY <2>2
  <2>4. t.uid \in Tags
    BY <2>1, Constants
  <2>5. QED
    BY <2>2, <2>3, <2>4
<1>2. CASE \E p \in Senders \X SeqOf(Tags, CONFIG_SIGHTING_SLOTS) :
             /\ p[1] \notin ToSet(p[2])
             /\ t.uid = p[1] /\ t.heard = p[2]
  <2>1. PICK p \in Senders \X SeqOf(Tags, CONFIG_SIGHTING_SLOTS) :
           /\ p[1] \notin ToSet(p[2])
           /\ t.uid = p[1] /\ t.heard = p[2]
    BY <1>2
  <2>2. t.uid \in Senders /\ t.heard \in SeqOf(Tags, CONFIG_SIGHTING_SLOTS)
        /\ t.uid \notin ToSet(t.heard)
    BY <2>1
  <2>3. PICK n \in 0 .. CONFIG_SIGHTING_SLOTS : t.heard \in [1..n -> Tags]
    BY <2>2 DEF SeqOf
  <2>4. t.heard \in Seq(Tags) /\ Len(t.heard) = n
    BY <2>3, FunctionIsSeq, Constants
  <2>5. \A k \in 1 .. Len(t.heard) : t.heard[k] \in ToSet(t.heard)
    BY <2>3, <2>4 DEF ToSet
  <2>6. QED
    BY <2>2, <2>4, <2>5, Constants
<1>3. QED
  BY <1>1, <1>2 DEF Packets

(* What the receiver works on. *)
LEMMA Received ==
  ASSUME Types, net.pc # "recv"
  PROVE  /\ Me \in Tags
         /\ Slot => Pair \in Pairs /\ (Pair[1] = Me \/ Pair[2] = Me)
<1>1. net.track \in Packets /\ net.i \in Nat \ {0}
  BY DEF Types, NetStates
<1>2. Me \in Tags
  BY <1>1, PacketFacts DEF Me
<1>3. ASSUME Slot
      PROVE  Pair \in Pairs /\ (Pair[1] = Me \/ Pair[2] = Me)
  <2> DEFINE other == net.track.heard[net.i]
  <2>1. net.i \in 1 .. Len(net.track.heard)
    BY <1>1, <1>3, PacketFacts DEF Slot
  <2>2. other \in Tags /\ other # Me
    BY <1>1, <2>1, PacketFacts DEF Me
  <2>3. Pair = IF Me < other THEN <<Me, other>> ELSE <<other, Me>>
    BY DEF Pair, Sorted
  <2> HIDE DEF other
  <2>4. QED
    BY <1>2, <2>2, <2>3, Constants DEF Pairs
<1>4. QED
  BY <1>2, <1>3

-----------------------------------------------------------------------------
(* What is found is one of the items. *)
LEMMA FindIsItem ==
  ASSUME Types, NEW h \in Handles
  PROVE  Find(h) <=> \E j \in Nat : Item(MapOf(h), j, h)
<1>1. m_MapIterate[MapOf(h)] \in Seq(Handles)
  BY MapOfHandles DEF Types
<1>2. DOMAIN m_MapIterate[MapOf(h)] = 1 .. Len(m_MapIterate[MapOf(h)])
  BY <1>1
<1>3. QED
  BY <1>2 DEF Find, ToSet, Item

(* An item that was not there is stored behind the others. *)
LEMMA Grown ==
  ASSUME Types, NEW h \in Handles, Stored(h)
  PROVE  /\ m_MapIterate' \in [Maps -> Seq(Handles)]
         /\ \A m \in Maps : \A j, g : Item(m, j, g) => Item(m, j, g)'
         /\ \A m \in Maps : \A j, g : Item(m, j, g)' =>
              Item(m, j, g) \/ (m = MapOf(h) /\ g = h
                                  /\ j = Len(m_MapIterate[m]) + 1)
         /\ \A m \in Maps : m # MapOf(h) => m_MapIterate'[m] = m_MapIterate[m]
         /\ Len(m_MapIterate'[MapOf(h)]) = Len(m_MapIterate[MapOf(h)]) + 1
         /\ \A g \in Handles : Find(g)' <=> Find(g) \/ g = h
<1> DEFINE n == MapOf(h)
           s == m_MapIterate[n]
<1>1. /\ n \in Maps /\ s \in Seq(Handles)
      /\ m_MapIterate \in [Maps -> Seq(Handles)]
  BY MapOfHandles DEF Types
<1>2. m_MapIterate' = [m_MapIterate EXCEPT ![n] = Append(s, h)]
  BY Zenon DEF Stored
<1>3. /\ Append(s, h) \in Seq(Handles)
      /\ Len(Append(s, h)) = Len(s) + 1
      /\ \A j \in 1 .. Len(s) : Append(s, h)[j] = s[j]
      /\ Append(s, h)[Len(s) + 1] = h
      /\ DOMAIN Append(s, h) = 1 .. Len(s) + 1
      /\ Len(s) \in Nat
  BY <1>1
<1> HIDE DEF n
<1>4. /\ m_MapIterate' \in [Maps -> Seq(Handles)]
      /\ \A m \in Maps : m # n => m_MapIterate'[m] = m_MapIterate[m]
      /\ m_MapIterate'[n] = Append(s, h)
  BY <1>1, <1>2, <1>3
<1>5. \A m \in Maps : \A j, g : Item(m, j, g) => Item(m, j, g)'
  <2> TAKE m \in Maps
  <2> TAKE j, g
  <2>1. CASE m = n
    <3>1. s = m_MapIterate[m] /\ m_MapIterate'[m] = Append(s, h)
      BY <1>4, <2>1
    <3>2. \A k \in 1 .. Len(s) : k \in 1 .. Len(s) + 1
      BY <1>3
    <3> HIDE DEF s
    <3>3. QED
      BY <1>3, <3>1, <3>2 DEF Item
  <2>2. CASE m # n
    BY <1>4, <2>2 DEF Item
  <2>3. QED
    BY <2>1, <2>2
<1>6. \A m \in Maps : \A j, g : Item(m, j, g)' =>
         Item(m, j, g) \/ (m = n /\ g = h /\ j = Len(m_MapIterate[m]) + 1)
  <2> TAKE m \in Maps
  <2> TAKE j, g
  <2>1. CASE m = n
    <3>1. s = m_MapIterate[m] /\ m_MapIterate'[m] = Append(s, h)
      BY <1>4, <2>1
    <3>2. \A k \in 1 .. Len(s) + 1 : k \in 1 .. Len(s) \/ k = Len(s) + 1
      BY <1>3
    <3> HIDE DEF s
    <3>3. QED
      BY <1>3, <2>1, <3>1, <3>2 DEF Item
  <2>2. CASE m # n
    BY <1>4, <2>2 DEF Item
  <2>3. QED
    BY <2>1, <2>2
<1>7. Len(m_MapIterate'[n]) = Len(m_MapIterate[n]) + 1
  BY <1>3, <1>4
<1>8. \A g \in Handles : Find(g)' <=> Find(g) \/ g = h
  <2> TAKE g \in Handles
  <2>1. MapOf(g) \in Maps
    BY MapOfHandles
  <2>2. CASE MapOf(g) # n
    <3>1. g # h
      BY <2>2 DEF n
    <3>2. QED
      BY <1>4, <2>1, <2>2, <3>1 DEF Find
  <2>3. CASE MapOf(g) = n
    <3>1. DOMAIN s = 1 .. Len(s)
      BY <1>1
    <3>2. g \in ToSet(Append(s, h)) <=> g \in ToSet(s) \/ g = h
      BY <1>3, <3>1 DEF ToSet
    <3>3. QED
      BY <1>4, <2>3, <3>2 DEF Find
  <2>4. QED
    BY <2>2, <2>3
<1>9. QED
  BY <1>4, <1>5, <1>6, <1>7, <1>8 DEF n

-----------------------------------------------------------------------------
(* Initially both maps are empty. *)
LEMMA InvInit ==
  ASSUME Init
  PROVE  Inv
<1>1. EmptyFifo \in [Positions -> Nat] /\ 0 \in Positions
  BY Constants DEF EmptyFifo, Positions
<1>2. NoProx \in Proximities /\ NoProx.last_seen = 0
      /\ NoProx.tag1p = 0 /\ NoProx.tag2p = 0
  BY <1>1 DEF NoProx, Proximities
<1>3. NoTag \in TagStates
      /\ NoTag.Fcount = 0
  BY DEF NoTag, TagStates
<1>4. /\ \A pair \in Pairs : prox[pair] = NoProx
      /\ \A uid \in Tags : tag[uid] = NoTag
      /\ \A m \in Maps : m_MapIterate[m] = <<>> /\ m_MapIteratePos[m] = 0
      /\ now = START /\ edges = {} /\ live = {}
      /\ net = Waiting /\ est = Sleeping
  BY DEF Init
<1>5. /\ net.pc = "recv" /\ est.pc = "idle" /\ est.p = 0 /\ est.count = 0
      /\ net \in NetStates
      /\ est \in EstStates
  BY <1>4 DEF Waiting, Sleeping, NetPcs, EstPcs, Passes, NetStates,
                 EstStates
<1>6. Types
  <2>1. tag \in [Tags -> TagStates]
    BY <1>3 DEF Init
  <2>2. prox \in [Pairs -> Proximities]
    BY <1>2 DEF Init
  <2>3. /\ m_MapIterate \in [Maps -> Seq(Handles)]
        /\ m_MapIteratePos \in [Maps -> Nat]
    BY DEF Init
  <2>4. owner \in [Handles -> {"none", "net", "est"}]
    BY DEF Init
  <2>5. IsFiniteSet(edges)
    BY <1>4, FS_EmptySet
  <2>6. QED
    BY <1>4, <1>5, <2>1, <2>2, <2>3, <2>4, <2>5 DEF Types
<1>7. ClockInv
  BY <1>2, <1>4, <1>5, Constants DEF ClockInv
<1>8. \A m \in Maps : Len(m_MapIterate[m]) = 0
  BY <1>4
<1>9. MapInv
  BY <1>4, <1>5, <1>8 DEF MapInv, ItemsInv, Pending
<1>10. LockInv
  BY <1>5 DEF LockInv
<1>11. \A h \in Handles : ~Find(h)
  BY <1>6, <1>8, FindIsItem, MapOfHandles DEF Item
<1>12. ProxInv
  BY <1>2, <1>4, <1>11, MapOfHandles DEF ProxInv
<1>13. ResetInv /\ ForceInv /\ EdgeInv
  BY <1>3, <1>4, <1>5 DEF ResetInv, ForceInv, EdgeInv, Walking
<1>14. QED
  BY <1>6, <1>7, <1>9, <1>10, <1>12, <1>13 DEF Inv

-----------------------------------------------------------------------------
(* What was stored stays stored. *)
MapsGrow ==
  /\ \A m \in Maps : \A j, h : Item(m, j, h) => Item(m, j, h)'
  /\ \A h \in Handles : Find(h) => Find(h)'

(* A step that leaves the maps alone. *)
LEMMA MapsStay ==
  ASSUME UNCHANGED m_MapIterate
  PROVE  MapsGrow /\ \A h : Find(h)' <=> Find(h)
  BY DEF MapsGrow, Item, Find

(* A step of the receiver, which changes no force, does not disturb a walk: *)
(* it only adds to the maps and only refreshes proximities.                 *)
LEMMA WalkKept ==
  ASSUME Inv, UNCHANGED <<est, edges, live>>, MapsGrow,
         \A uid \in Tags : tag'[uid].Fcount = tag[uid].Fcount,
         \A pair \in Pairs : Live(prox[pair]) => Live(prox[pair])'
  PROVE  ResetInv' /\ ForceInv' /\ EdgeInv'
<1>1. \A pass : Walking(pass)' <=> Walking(pass)
  BY DEF Walking
<1>2. "tag" \in Maps /\ "proximity" \in Maps
  BY DEF Maps
<1>3. ResetInv'
  <2>1. \A uid \in Tags : tag'[uid].Fcount # 0 => Find(<<uid>>)'
    BY MapOfHandles DEF Inv, ResetInv, MapsGrow
  <2>2. Walking("reset") =>
          \A uid \in Tags : tag'[uid].Fcount # 0 =>
            \E j \in est.p + 1 .. est.count : Item("tag", j, <<uid>>)'
    BY <1>2 DEF Inv, ResetInv, MapsGrow
  <2>3. QED
    BY <1>1, <2>1, <2>2 DEF Inv, ResetInv
<1>4. ForceInv'
  BY <1>1 DEF Inv, ForceInv
<1>5. EdgeInv'
  <2>1. SUFFICES ASSUME Walking("edges")
                 PROVE  /\ \A e \in edges : \E j \in 1 .. est.p :
                             Item("proximity", j, e.pair)'
                        /\ \A pair \in live :
                             \/ \E e \in edges : e.pair = pair
                             \/ /\ pair \in Pairs /\ Live(prox[pair])'
                                /\ \E j \in est.p + 1 .. est.count :
                                     Item("proximity", j, pair)'
    BY <1>1 DEF Inv, EdgeInv
  <2>2. QED
    BY <1>2, <2>1 DEF Inv, EdgeInv, MapsGrow
<1>6. QED
  BY <1>3, <1>4, <1>5

(* What the estimation thread has locked stays where it is. *)
LEMMA EntryKept ==
  ASSUME Inv, UNCHANGED est, MapsGrow, est.pc = "call"
  PROVE  /\ Entry' = Entry
         /\ Item(WalkedMap(est.pass), est.p + 1, Entry)'
         /\ Entry \in Handles
<1>1. WalkedMap(est.pass) \in Maps /\ WalkedMap(est.pass)' = WalkedMap(est.pass)
  BY DEF WalkedMap, Maps
<1>2. Item(WalkedMap(est.pass), est.p + 1, Entry)
  BY DEF Inv, LockInv
<1>3. m_MapIterate'[WalkedMap(est.pass)][est.p + 1] = Entry
      /\ est.p + 1 \in 1 .. Len(m_MapIterate'[WalkedMap(est.pass)])
  BY <1>1, <1>2 DEF MapsGrow, Item
<1>4. Entry' = Entry
  BY <1>1, <1>3 DEF Entry
<1>5. Entry \in Handles
  <2>1. m_MapIterate[WalkedMap(est.pass)] \in Seq(Handles)
    BY <1>1 DEF Inv, Types
  <2>2. QED
    BY <1>2, <2>1 DEF Item
<1>6. QED
  BY <1>1, <1>3, <1>4, <1>5 DEF Item

(* A proximity that is not written stays in order: no tag loses its         *)
(* calibration.                                                             *)
LEMMA ProxKept ==
  ASSUME Inv, UNCHANGED prox, MapsGrow,
         \A uid \in Tags : tag[uid].calibrated => tag'[uid].calibrated,
         \A pair \in Pairs : Find(pair)' => Find(pair)
                               \/ (net'.pc = "sighted" /\ pair = Pair'),
         net.pc = "sighted" => net' = net
  PROVE  ProxInv'
<1>1. SUFFICES ASSUME NEW pair \in Pairs
               PROVE  /\ ~Find(pair)' => prox[pair] = NoProx
                      /\ Find(pair)' =>
                           \/ Sane(pair)'
                           \/ /\ net'.pc = "sighted" /\ pair = Pair'
                              /\ prox[pair] = NoProx
                      /\ \A uid \in {prox[pair].tag1p, prox[pair].tag2p} \ {0} :
                           Find(<<uid>>)'
  BY DEF ProxInv
<1>2. /\ ~Find(pair) => prox[pair] = NoProx
      /\ Find(pair) =>
           \/ Sane(pair)
           \/ net.pc = "sighted" /\ pair = Pair /\ prox[pair] = NoProx
      /\ \A uid \in {prox[pair].tag1p, prox[pair].tag2p} \ {0} : Find(<<uid>>)
  BY DEF Inv, ProxInv
<1>3. pair \in Handles /\ (Find(pair) => Find(pair)')
  BY MapOfHandles DEF MapsGrow
<1>4. prox[pair] \in Proximities
  BY DEF Inv, Types
<1>5. \A uid \in {prox[pair].tag1p, prox[pair].tag2p} \ {0} : uid \in Tags
  BY <1>4 DEF Proximities
<1>6. \A uid \in {prox[pair].tag1p, prox[pair].tag2p} \ {0} : Find(<<uid>>)'
  BY <1>2, <1>5, MapOfHandles DEF MapsGrow
<1>7. Sane(pair) => Sane(pair)'
  BY <1>5 DEF Sane, At
<1>8. net.pc = "sighted" => Pair' = Pair
  BY DEF Pair, Me
<1>9. QED
  BY <1>2, <1>3, <1>6, <1>7, <1>8

-----------------------------------------------------------------------------
(* The receiver goes on with the same packet. *)
LEMMA NetMoves ==
  ASSUME Types, NEW x \in NetPcs, net' = [net EXCEPT !.pc = x]
  PROVE  /\ net' \in NetStates
         /\ net'.pc = x /\ net'.timestamp = net.timestamp
         /\ net'.track = net.track /\ net'.i = net.i
         /\ Me' = Me /\ Pair' = Pair /\ (Slot' <=> Slot)
<1>1. net \in NetStates
  BY DEF Types
<1>2. /\ net' \in NetStates
      /\ net'.pc = x /\ net'.timestamp = net.timestamp
      /\ net'.track = net.track /\ net'.i = net.i
  BY <1>1 DEF NetStates
<1>3. QED
  BY <1>2 DEF Me, Pair, Slot

(* A new item has its own place in its map. *)
LEMMA NewItem ==
  ASSUME Types, ItemsInv, NEW h \in Handles, Stored(h), ~Find(h)
  PROVE  \A m \in Maps :
           /\ \A j \in 1 .. Len(m_MapIterate'[m]) :
                MapOf(m_MapIterate'[m][j]) = m
           /\ \A j, k \in 1 .. Len(m_MapIterate'[m]) :
                m_MapIterate'[m][j] = m_MapIterate'[m][k] => j = k
<1> SUFFICES ASSUME NEW m \in Maps
             PROVE  /\ \A j \in 1 .. Len(m_MapIterate'[m]) :
                         MapOf(m_MapIterate'[m][j]) = m
                    /\ \A j, k \in 1 .. Len(m_MapIterate'[m]) :
                         m_MapIterate'[m][j] = m_MapIterate'[m][k] => j = k
  OBVIOUS
<1>1. /\ \A j, g : Item(m, j, g)' =>
           Item(m, j, g) \/ (m = MapOf(h) /\ g = h
                               /\ j = Len(m_MapIterate[m]) + 1)
      /\ m_MapIterate[m] \in Seq(Handles)
  BY Grown DEF Types
<1>2. \A j, g : Item(m, j, g) => MapOf(g) = m /\ j \in Nat
  <2>1. Len(m_MapIterate[m]) \in Nat
    BY <1>1
  <2>2. \A j \in 1 .. Len(m_MapIterate[m]) : j \in Nat
    BY <2>1
  <2>3. QED
    BY <2>2 DEF ItemsInv, Item
<1>3. \A j, k, g : Item(m, j, g) /\ Item(m, k, g) => j = k
  BY DEF ItemsInv, Item
<1>4. m = MapOf(h) => \A j : ~Item(m, j, h)
  BY <1>2, FindIsItem
<1>5. \A j \in 1 .. Len(m_MapIterate'[m]) : \A g :
         g = m_MapIterate'[m][j] => Item(m, j, g)'
  BY DEF Item
<1>6. \A j, g : Item(m, j, g)' => MapOf(g) = m
  BY <1>1, <1>2
<1>7. \A j, k, g : Item(m, j, g)' /\ Item(m, k, g)' => j = k
  BY <1>1, <1>3, <1>4
<1>8. QED
  BY <1>5, <1>6, <1>7

(* Add locks an item, stores it if it is new, or only counts it. *)
LEMMA Added ==
  ASSUME Inv, NEW h \in Handles, NEW found \in NetPcs, NEW counted \in NetPcs,
         counted = (IF MapOf(h) = "tag" THEN "storetag" ELSE "storeprox"),
         net.pc \notin {"recv", "storetag", "storeprox"},
         found \notin {"storetag", "storeprox"},
         Add(h, found, counted)
  PROVE  /\ net' = [net EXCEPT !.pc = net'.pc] /\ net'.pc \in {found, counted}
         /\ MapsGrow
         /\ owner[h] = "none" /\ owner' = [owner EXCEPT ![h] = "net"]
         /\ m_MapIterate' \in [Maps -> Seq(Handles)]
         /\ m_MapIteratePos' \in [Maps -> Nat]
         /\ ItemsInv'
         /\ \A g \in Handles :
              Find(g)' <=> Find(g) \/ (g = h /\ net'.pc = found)
         /\ net'.pc = counted => ~Find(h)
<1>1. Types /\ ItemsInv /\ MapOf(h) \in Maps
  BY MapOfHandles DEF Inv, MapInv
<1>2. /\ m_MapIterate \in [Maps -> Seq(Handles)]
      /\ m_MapIteratePos \in [Maps -> Nat]
      /\ net.pc \in NetPcs
  BY <1>1 DEF Types, NetStates
<1>3. /\ owner[h] = "none" /\ owner' = [owner EXCEPT ![h] = "net"]
      /\ \/ Find(h) /\ net' = [net EXCEPT !.pc = found]
              /\ UNCHANGED <<m_MapIterate, m_MapIteratePos>>
         \/ /\ ~Find(h)
            /\ m_MapIteratePos' = [m_MapIteratePos EXCEPT ![MapOf(h)] = @ + 1]
            /\ \/ Stored(h) /\ net' = [net EXCEPT !.pc = found]
               \/ UNCHANGED m_MapIterate /\ net' = [net EXCEPT !.pc = counted]
  BY Zenon DEF Add, maps
<1>4. \A m \in Maps : ~Pending(m)
  BY DEF Pending
<1>5. \A m \in Maps : m_MapIteratePos[m] = Len(m_MapIterate[m])
                        /\ Len(m_MapIterate[m]) \in Nat
  BY <1>1, <1>2, <1>4 DEF ItemsInv
<1>6. CASE Find(h) /\ net' = [net EXCEPT !.pc = found]
             /\ UNCHANGED <<m_MapIterate, m_MapIteratePos>>
  <2>1. net'.pc = found /\ net' = [net EXCEPT !.pc = net'.pc]
    BY <1>1, <1>6, NetMoves
  <2>2. MapsGrow /\ \A g : Find(g)' <=> Find(g)
    BY <1>6, MapsStay
  <2>3. \A m \in Maps : ~Pending(m)'
    BY <2>1 DEF Pending
  <2>4. ItemsInv'
    BY <1>1, <1>4, <1>6, <2>3 DEF ItemsInv
  <2>5. QED
    BY <1>2, <1>3, <1>6, <2>1, <2>2, <2>4
<1>7. CASE /\ ~Find(h) /\ Stored(h)
           /\ m_MapIteratePos' = [m_MapIteratePos EXCEPT ![MapOf(h)] = @ + 1]
           /\ net' = [net EXCEPT !.pc = found]
  <2>1. net'.pc = found /\ net' = [net EXCEPT !.pc = net'.pc]
    BY <1>1, <1>7, NetMoves
  <2>2. \A m \in Maps : ~Pending(m)'
    BY <2>1 DEF Pending
  <2>3. /\ m_MapIteratePos' \in [Maps -> Nat]
        /\ \A m \in Maps :
             m # MapOf(h) => m_MapIteratePos'[m] = m_MapIteratePos[m]
        /\ m_MapIteratePos'[MapOf(h)] = m_MapIteratePos[MapOf(h)] + 1
    BY <1>1, <1>2, <1>7
  <2>4. /\ m_MapIterate' \in [Maps -> Seq(Handles)]
        /\ MapsGrow
        /\ \A m \in Maps : m # MapOf(h) => m_MapIterate'[m] = m_MapIterate[m]
        /\ Len(m_MapIterate'[MapOf(h)]) = Len(m_MapIterate[MapOf(h)]) + 1
        /\ \A g \in Handles : Find(g)' <=> Find(g) \/ g = h
    BY <1>1, <1>7, Grown DEF MapsGrow
  <2>5. ItemsInv'
    <3>1. \A m \in Maps : m_MapIteratePos'[m] = Len(m_MapIterate'[m])
      BY <1>1, <1>5, <2>3, <2>4
    <3>2. QED
      BY <1>1, <1>7, <2>2, <3>1, NewItem DEF ItemsInv
  <2>6. QED
    BY <1>3, <2>1, <2>3, <2>4, <2>5
<1>8. CASE /\ ~Find(h) /\ UNCHANGED m_MapIterate
           /\ m_MapIteratePos' = [m_MapIteratePos EXCEPT ![MapOf(h)] = @ + 1]
           /\ net' = [net EXCEPT !.pc = counted]
  <2>1. net'.pc = counted /\ net' = [net EXCEPT !.pc = net'.pc]
    BY <1>1, <1>8, NetMoves
  <2>2. \A m \in Maps : Pending(m)' <=> m = MapOf(h)
    BY <1>1, <2>1 DEF Pending, Maps
  <2>3. /\ m_MapIteratePos' \in [Maps -> Nat]
        /\ \A m \in Maps :
             m # MapOf(h) => m_MapIteratePos'[m] = m_MapIteratePos[m]
        /\ m_MapIteratePos'[MapOf(h)] = m_MapIteratePos[MapOf(h)] + 1
    BY <1>1, <1>2, <1>8
  <2>4. MapsGrow /\ \A g : Find(g)' <=> Find(g)
    BY <1>8, MapsStay
  <2>5. \A m \in Maps :
          /\ Pending(m)' => m_MapIteratePos'[m] = Len(m_MapIterate'[m]) + 1
          /\ ~Pending(m)' => m_MapIteratePos'[m] = Len(m_MapIterate'[m])
    BY <1>5, <1>8, <2>2, <2>3
  <2>6. ItemsInv'
    BY <1>1, <1>8, <2>5 DEF ItemsInv
  <2>7. net'.pc # found
    BY <2>1
  <2>8. QED
    BY <1>2, <1>3, <1>8, <2>1, <2>3, <2>4, <2>6, <2>7
<1>9. QED
  BY <1>3, <1>6, <1>7, <1>8

(* Store stores the item that was counted. *)
LEMMA StoredItem ==
  ASSUME Inv, NEW h \in Handles, NEW found \in NetPcs, ~Find(h),
         net.pc = (IF MapOf(h) = "tag" THEN "storetag" ELSE "storeprox"),
         found \notin {"storetag", "storeprox"},
         Store(h, found)
  PROVE  /\ net' = [net EXCEPT !.pc = found]
         /\ MapsGrow
         /\ owner' = owner
         /\ m_MapIterate' \in [Maps -> Seq(Handles)]
         /\ m_MapIteratePos' = m_MapIteratePos
         /\ ItemsInv'
         /\ \A g \in Handles : Find(g)' <=> Find(g) \/ g = h
<1>1. Types /\ ItemsInv /\ MapOf(h) \in Maps
  BY MapOfHandles DEF Inv, MapInv
<1>2. /\ Stored(h) /\ net' = [net EXCEPT !.pc = found]
      /\ UNCHANGED <<m_MapIteratePos, owner>>
  BY Zenon DEF Store
<1>3. net'.pc = found
  BY <1>1, <1>2, NetMoves
<1>4. /\ m_MapIterate' \in [Maps -> Seq(Handles)]
      /\ MapsGrow
      /\ \A m \in Maps : m # MapOf(h) => m_MapIterate'[m] = m_MapIterate[m]
      /\ Len(m_MapIterate'[MapOf(h)]) = Len(m_MapIterate[MapOf(h)]) + 1
      /\ \A g \in Handles : Find(g)' <=> Find(g) \/ g = h
  BY <1>1, <1>2, Grown DEF MapsGrow
<1>5. \A m \in Maps : ~Pending(m)' /\ (Pending(m) <=> m = MapOf(h))
  BY <1>1, <1>3 DEF Pending, Maps
<1>6. \A m \in Maps : m_MapIteratePos'[m] = Len(m_MapIterate'[m])
  <2> TAKE m \in Maps
  <2>1. CASE m = MapOf(h)
    BY <1>1, <1>2, <1>4, <1>5, <2>1 DEF ItemsInv
  <2>2. CASE m # MapOf(h)
    BY <1>1, <1>2, <1>4, <1>5, <2>2 DEF ItemsInv
  <2>3. QED
    BY <2>1, <2>2
<1>7. ItemsInv'
  BY <1>1, <1>2, <1>5, <1>6, NewItem DEF ItemsInv
<1>8. QED
  BY <1>2, <1>4, <1>7

-----------------------------------------------------------------------------
(* A packet is received. *)
LEMMA ReceiveInv ==
  ASSUME Inv, NEW time \in now .. MAX_TIME, NEW track \in Packets,
         Receive(track, time)
  PROVE  Inv'
<1>1. /\ net.pc = "recv" /\ now' = time
      /\ net' = [pc |-> "tag", timestamp |-> time, track |-> track, i |-> 1]
      /\ UNCHANGED <<tag, prox, m_MapIterate, m_MapIteratePos, owner, est,
                     edges, live>>
  BY DEF Receive, maps, report
<1>2. /\ now \in START .. MAX_TIME
      /\ \A pair \in Pairs : prox[pair].last_seen <= now
  BY DEF Inv, ClockInv
<1>3. time \in START .. MAX_TIME /\ time \in Nat /\ now <= time
  BY <1>2, Constants
<1>4. /\ net'.pc = "tag" /\ net'.timestamp = time /\ net'.track \in Packets
      /\ net' \in NetStates
  BY <1>1, <1>3 DEF NetPcs, NetStates, TagStates
<1>5. Types'
  BY <1>1, <1>4 DEF Inv, Types
<1>6. ClockInv'
  <2>1. \A pair \in Pairs : prox[pair].last_seen <= time
    <3> TAKE pair \in Pairs
    <3>1. prox[pair].last_seen \in Nat /\ prox[pair].last_seen <= now
      BY <1>2 DEF Inv, Types, Proximities
    <3>2. QED
      BY <1>2, <1>3, <3>1, Constants
  <2>2. time \in START .. time
    BY <1>3, Constants
  <2>3. QED
    BY <1>1, <1>3, <1>4, <2>1, <2>2 DEF ClockInv
<1>7. MapsGrow /\ \A h : Find(h)' <=> Find(h)
  BY <1>1, MapsStay
<1>8. MapInv'
  <2>1. \A m \in Maps : ~Pending(m)' /\ ~Pending(m)
    BY <1>1, <1>4 DEF Pending
  <2>2. QED
    BY <1>1, <1>4, <2>1 DEF Inv, MapInv, ItemsInv
<1>9. LockInv'
  BY <1>1, <1>4 DEF Inv, LockInv, Item, Entry, WalkedMap
<1>10. ProxInv'
  BY <1>1, <1>7, ProxKept
<1>11. ResetInv' /\ ForceInv' /\ EdgeInv'
  BY <1>1, <1>7, WalkKept DEF Live, Age
<1>12. QED
  BY <1>5, <1>6, <1>8, <1>9, <1>10, <1>11 DEF Inv

(* The lock of the estimation thread is not the one that the receiver takes *)
(* or gives back.                                                           *)
LEMMA OtherLock ==
  ASSUME Inv, UNCHANGED est, MapsGrow, NEW h \in Handles, NEW x,
         owner[h] # "est", owner' = [owner EXCEPT ![h] = x]
  PROVE  /\ est'.p <= est'.count
         /\ est'.pc = "call" =>
              /\ est'.p < est'.count
              /\ Item(WalkedMap(est.pass), est.p + 1, Entry)'
              /\ owner'[Entry'] = "est"
<1>1. SUFFICES ASSUME est.pc = "call"
               PROVE  /\ Item(WalkedMap(est.pass), est.p + 1, Entry)'
                      /\ owner'[Entry'] = "est"
  BY DEF Inv, LockInv
<1>2. Entry' = Entry /\ Item(WalkedMap(est.pass), est.p + 1, Entry)'
      /\ Entry \in Handles
  BY <1>1, EntryKept
<1>3. owner[Entry] = "est"
  BY <1>1 DEF Inv, LockInv
<1>4. owner'[Entry] = owner[Entry]
  BY <1>2, <1>3 DEF Inv, Types
<1>5. QED
  BY <1>2, <1>3, <1>4

(* The packet is noted at its sender, which is never uncalibrated again.    *)
LEMMA TagUpdated ==
  ASSUME Types, Me \in Tags, UpdateTag
  PROVE  /\ tag' \in [Tags -> TagStates]
         /\ \A uid \in Tags : /\ tag'[uid].Fcount = tag[uid].Fcount
                              /\ tag[uid].calibrated => tag'[uid].calibrated
<1> DEFINE old == tag[Me]
           fixed == Me \in Fixed
           calibrated == old.calibrated \/ net.track.proto = "STATUS"
<1>1. tag' = [tag EXCEPT ![Me].tag_id = Me, ![Me].fixed = fixed,
                         ![Me].calibrated = calibrated]
  BY DEF UpdateTag
<1>2. /\ tag \in [Tags -> TagStates]
      /\ old \in TagStates
  BY DEF Types
<1>3. calibrated \in BOOLEAN /\ fixed \in BOOLEAN
      /\ (old.calibrated => calibrated)
  OBVIOUS
<1> HIDE DEF calibrated, fixed
<1>4. QED
  BY <1>1, <1>2, <1>3 DEF TagStates

(* The item of the sender is locked. *)
LEMMA AddTagInv ==
  ASSUME Inv, AddTag
  PROVE  Inv'
<1>1. /\ net.pc = "tag"
      /\ Add(<<Me>>, "sighting", "storetag")
      /\ UpdateTag \/ UNCHANGED tag
      /\ UNCHANGED <<prox, now, est, edges, live>>
  BY DEF AddTag, NetUnchanged, report
<1>2. Me \in Tags /\ <<Me>> \in Handles /\ MapOf(<<Me>>) = "tag"
  BY <1>1, Received, MapOfHandles DEF Inv
<1>3. /\ net' = [net EXCEPT !.pc = net'.pc]
      /\ net'.pc \in {"sighting", "storetag"}
      /\ MapsGrow
      /\ owner[<<Me>>] = "none" /\ owner' = [owner EXCEPT ![<<Me>>] = "net"]
      /\ m_MapIterate' \in [Maps -> Seq(Handles)]
      /\ m_MapIteratePos' \in [Maps -> Nat]
      /\ ItemsInv'
      /\ \A g \in Handles :
           Find(g)' <=> Find(g) \/ (g = <<Me>> /\ net'.pc = "sighting")
      /\ net'.pc = "storetag" => ~Find(<<Me>>)
  BY <1>1, <1>2, Added DEF NetPcs
<1>4. /\ net' \in NetStates
      /\ net'.timestamp = net.timestamp /\ net'.track = net.track
      /\ Me' = Me
  BY <1>3, NetMoves DEF Inv, NetPcs
<1>5. /\ tag' \in [Tags -> TagStates]
      /\ \A uid \in Tags : /\ tag'[uid].Fcount = tag[uid].Fcount
                           /\ tag[uid].calibrated => tag'[uid].calibrated
  BY <1>1, <1>2, TagUpdated DEF Inv, Types
<1>6. owner' \in [Handles -> {"none", "net", "est"}] /\ owner'[<<Me>>] = "net"
  BY <1>2, <1>3 DEF Inv, Types
<1>7. Types'
  BY <1>1, <1>3, <1>4, <1>5, <1>6 DEF Inv, Types
<1>8. ClockInv'
  BY <1>1, <1>4 DEF Inv, ClockInv
<1>9. MapInv'
  BY <1>2, <1>3, <1>4 DEF MapInv
<1>10. LockInv'
  <2>1. net'.pc \notin {"storeprox", "sighted"}
    BY <1>3
  <2>2. /\ est'.p <= est'.count
        /\ est'.pc = "call" =>
             /\ est'.p < est'.count
             /\ Item(WalkedMap(est.pass), est.p + 1, Entry)'
             /\ owner'[Entry'] = "est"
    BY <1>1, <1>2, <1>3, OtherLock
  <2>3. QED
    BY <1>4, <1>6, <2>1, <2>2 DEF LockInv
<1>11. ProxInv'
  <2>1. \A pair \in Pairs : Find(pair)' => Find(pair)
    BY <1>2, <1>3, MapOfHandles
  <2>2. QED
    BY <1>1, <1>3, <1>5, <2>1, ProxKept
<1>12. ResetInv' /\ ForceInv' /\ EdgeInv'
  BY <1>1, <1>3, <1>5, WalkKept DEF Live, Age
<1>13. QED
  BY <1>7, <1>8, <1>9, <1>10, <1>11, <1>12 DEF Inv

(* The item of a new sender is stored. *)
LEMMA StoreTagInv ==
  ASSUME Inv, StoreTag
  PROVE  Inv'
<1>1. /\ net.pc = "storetag"
      /\ Store(<<Me>>, "sighting")
      /\ UpdateTag
      /\ UNCHANGED <<prox, now, est, edges, live>>
  BY DEF StoreTag, NetUnchanged, report
<1>2. /\ Me \in Tags /\ <<Me>> \in Handles /\ MapOf(<<Me>>) = "tag"
      /\ ~Find(<<Me>>) /\ owner[<<Me>>] = "net"
  BY <1>1, Received, MapOfHandles DEF Inv, MapInv, LockInv
<1>3. /\ net' = [net EXCEPT !.pc = "sighting"]
      /\ MapsGrow
      /\ owner' = owner
      /\ m_MapIterate' \in [Maps -> Seq(Handles)]
      /\ m_MapIteratePos' = m_MapIteratePos
      /\ ItemsInv'
      /\ \A g \in Handles : Find(g)' <=> Find(g) \/ g = <<Me>>
  BY <1>1, <1>2, StoredItem DEF NetPcs
<1>4. /\ net' \in NetStates
      /\ net'.pc = "sighting"
      /\ net'.timestamp = net.timestamp /\ net'.track = net.track
      /\ Me' = Me
  BY <1>3, NetMoves DEF Inv, NetPcs
<1>5. /\ tag' \in [Tags -> TagStates]
      /\ \A uid \in Tags : /\ tag'[uid].Fcount = tag[uid].Fcount
                           /\ tag[uid].calibrated => tag'[uid].calibrated
  BY <1>1, <1>2, TagUpdated DEF Inv
<1>6. Types'
  BY <1>1, <1>3, <1>4, <1>5 DEF Inv, Types
<1>7. ClockInv'
  BY <1>1, <1>4 DEF Inv, ClockInv
<1>8. MapInv'
  BY <1>2, <1>3, <1>4 DEF MapInv
<1>9. LockInv'
  <2>1. est.pc = "call" => /\ Entry' = Entry
                           /\ Item(WalkedMap(est.pass), est.p + 1, Entry)'
    BY <1>1, <1>3, EntryKept
  <2>2. QED
    BY <1>1, <1>2, <1>3, <1>4, <2>1 DEF Inv, LockInv
<1>10. ProxInv'
  <2>1. \A pair \in Pairs : Find(pair)' => Find(pair)
    BY <1>2, <1>3, MapOfHandles
  <2>2. QED
    BY <1>1, <1>3, <1>5, <2>1, ProxKept
<1>11. ResetInv' /\ ForceInv' /\ EdgeInv'
  BY <1>1, <1>3, <1>5, WalkKept DEF Live, Age
<1>12. QED
  BY <1>6, <1>7, <1>8, <1>9, <1>10, <1>11 DEF Inv

(* The item of a proximity is locked. *)
LEMMA AddProxInv ==
  ASSUME Inv, AddProx
  PROVE  Inv'
<1>1. /\ net.pc = "sighting" /\ Slot
      /\ Add(Pair, "sighted", "storeprox")
      /\ UNCHANGED <<tag, prox, now, est, edges, live>>
  BY DEF AddProx, NetUnchanged, report
<1>2. /\ Me \in Tags /\ Pair \in Pairs
      /\ <<Me>> \in Handles /\ MapOf(<<Me>>) = "tag"
      /\ Pair \in Handles /\ MapOf(Pair) = "proximity" /\ Pair # <<Me>>
  BY <1>1, Received, MapOfHandles DEF Inv
<1>3. /\ net' = [net EXCEPT !.pc = net'.pc]
      /\ net'.pc \in {"sighted", "storeprox"}
      /\ MapsGrow
      /\ owner[Pair] = "none" /\ owner' = [owner EXCEPT ![Pair] = "net"]
      /\ m_MapIterate' \in [Maps -> Seq(Handles)]
      /\ m_MapIteratePos' \in [Maps -> Nat]
      /\ ItemsInv'
      /\ \A g \in Handles :
           Find(g)' <=> Find(g) \/ (g = Pair /\ net'.pc = "sighted")
      /\ net'.pc = "storeprox" => ~Find(Pair)
  BY <1>1, <1>2, Added DEF NetPcs
<1>4. /\ net' \in NetStates
      /\ net'.timestamp = net.timestamp /\ net'.track = net.track
      /\ Me' = Me /\ Pair' = Pair /\ Slot'
  BY <1>1, <1>3, NetMoves DEF Inv, NetPcs
<1>5. /\ owner' \in [Handles -> {"none", "net", "est"}]
      /\ owner'[Pair] = "net" /\ owner'[<<Me>>] = owner[<<Me>>]
  BY <1>2, <1>3 DEF Inv, Types
<1>6. Types'
  BY <1>1, <1>3, <1>4, <1>5 DEF Inv, Types
<1>7. ClockInv'
  BY <1>1, <1>4 DEF Inv, ClockInv
<1>8. MapInv'
  BY <1>1, <1>2, <1>3, <1>4 DEF Inv, MapInv
<1>9. LockInv'
  <2>1. /\ est'.p <= est'.count
        /\ est'.pc = "call" =>
             /\ est'.p < est'.count
             /\ Item(WalkedMap(est.pass), est.p + 1, Entry)'
             /\ owner'[Entry'] = "est"
    BY <1>1, <1>2, <1>3, OtherLock
  <2>2. owner[<<Me>>] = "net"
    BY <1>1 DEF Inv, LockInv
  <2>3. QED
    BY <1>4, <1>5, <2>1, <2>2 DEF LockInv
<1>10. ProxInv'
  <2>1. \A pair \in Pairs : Find(pair)' => Find(pair)
                              \/ (net'.pc = "sighted" /\ pair = Pair')
    BY <1>3, <1>4, MapOfHandles
  <2>2. QED
    BY <1>1, <2>1, <1>3, ProxKept
<1>11. ResetInv' /\ ForceInv' /\ EdgeInv'
  BY <1>1, <1>3, WalkKept DEF Live, Age
<1>12. QED
  BY <1>6, <1>7, <1>8, <1>9, <1>10, <1>11 DEF Inv

(* The item of a new proximity is stored. *)
LEMMA StoreProxInv ==
  ASSUME Inv, StoreProx
  PROVE  Inv'
<1>1. /\ net.pc = "storeprox"
      /\ Store(Pair, "sighted")
      /\ UNCHANGED <<tag, prox, now, est, edges, live>>
  BY DEF StoreProx, NetUnchanged, report
<1>2. /\ Me \in Tags /\ Pair \in Pairs /\ Slot
      /\ <<Me>> \in Handles
      /\ Pair \in Handles /\ MapOf(Pair) = "proximity"
      /\ ~Find(Pair) /\ Find(<<Me>>)
      /\ owner[<<Me>>] = "net" /\ owner[Pair] = "net"
  BY <1>1, Received, MapOfHandles DEF Inv, MapInv, LockInv, Types
<1>3. /\ net' = [net EXCEPT !.pc = "sighted"]
      /\ MapsGrow
      /\ owner' = owner
      /\ m_MapIterate' \in [Maps -> Seq(Handles)]
      /\ m_MapIteratePos' = m_MapIteratePos
      /\ ItemsInv'
      /\ \A g \in Handles : Find(g)' <=> Find(g) \/ g = Pair
  BY <1>1, <1>2, StoredItem DEF NetPcs
<1>4. /\ net' \in NetStates
      /\ net'.pc = "sighted"
      /\ net'.timestamp = net.timestamp /\ net'.track = net.track
      /\ Me' = Me /\ Pair' = Pair /\ Slot'
  BY <1>2, <1>3, NetMoves DEF Inv, NetPcs
<1>5. Types'
  BY <1>1, <1>3, <1>4 DEF Inv, Types
<1>6. ClockInv'
  BY <1>1, <1>4 DEF Inv, ClockInv
<1>7. MapInv'
  BY <1>1, <1>2, <1>3, <1>4 DEF MapInv
<1>8. LockInv'
  <2>1. est.pc = "call" => /\ Entry' = Entry
                           /\ Item(WalkedMap(est.pass), est.p + 1, Entry)'
    BY <1>1, <1>3, EntryKept
  <2>2. QED
    BY <1>1, <1>2, <1>3, <1>4, <2>1 DEF Inv, LockInv
<1>9. ProxInv'
  <2>1. \A pair \in Pairs : Find(pair)' => Find(pair)
                              \/ (net'.pc = "sighted" /\ pair = Pair')
    BY <1>3, <1>4, MapOfHandles
  <2>2. QED
    BY <1>1, <2>1, <1>3, ProxKept
<1>10. ResetInv' /\ ForceInv' /\ EdgeInv'
  BY <1>1, <1>3, WalkKept DEF Live, Age
<1>11. QED
  BY <1>5, <1>6, <1>7, <1>8, <1>9, <1>10 DEF Inv

-----------------------------------------------------------------------------
(* The slot that is some sightings back from a position. *)
LEMMA SlotBack ==
  ASSUME NEW pos \in Positions, NEW back \in 1 .. MAX_PROXIMITY_SLOTS
  PROVE  LET slot == (pos + 2 * MAX_PROXIMITY_SLOTS - back)
                       % MAX_PROXIMITY_SLOTS
         IN /\ slot \in Positions
            /\ pos >= back => slot = pos - back
            /\ pos < back => slot = pos - back + MAX_PROXIMITY_SLOTS
<1> DEFINE n == MAX_PROXIMITY_SLOTS
           a == pos + 2 * n - back
<1>1. n \in Nat \ {0} /\ pos \in 0 .. n - 1 /\ back \in 1 .. n /\ a \in Int
  BY Constants DEF Positions
<1> HIDE DEF n
<1>2. CASE pos >= back
  <2>1. a = n * 2 + (pos - back) /\ pos - back \in 0 .. n - 1
    BY <1>1, <1>2
  <2>2. a % n = pos - back
    BY <1>1, <2>1, RemainderIsUnique
  <2>3. QED
    BY <1>1, <1>2, <2>1, <2>2 DEF n, Positions
<1>3. CASE pos < back
  <2>1. a = n * 1 + (pos - back + n) /\ pos - back + n \in 0 .. n - 1
    BY <1>1, <1>3
  <2>2. a % n = pos - back + n
    BY <1>1, <2>1, RemainderIsUnique
  <2>3. QED
    BY <1>1, <1>3, <2>1, <2>2 DEF n, Positions
<1>4. QED
  BY <1>1, <1>2, <1>3

(* Old sightings are erased, or they are not old. *)
LEMMA ErasedFacts ==
  ASSUME NEW p \in Proximities, net.timestamp \in Nat
  PROVE  LET e == Erased(p)
         IN /\ e \in Proximities
            /\ e.tag1p = p.tag1p /\ e.tag2p = p.tag2p
            /\ e.calibrated = p.calibrated /\ e.last_seen = p.last_seen
            /\ \/ /\ net.timestamp - p.last_seen >= PROXAGGREGATION_TIME
                  /\ e.fifo = EmptyFifo
               \/ /\ net.timestamp - p.last_seen < PROXAGGREGATION_TIME
                  /\ e = p
<1>1. EmptyFifo \in [Positions -> Nat] /\ 0 \in Positions
  BY Constants DEF EmptyFifo, Positions
<1>2. p.last_seen \in Nat /\ PROXAGGREGATION_TIME \in Nat
  BY Constants DEF Proximities
<1>3. CASE net.timestamp - p.last_seen >= PROXAGGREGATION_TIME
  <2>1. Erased(p) = [p EXCEPT !.fifo_pos = 0, !.fifo = EmptyFifo]
    BY <1>3 DEF Erased
  <2>2. QED
    BY <1>1, <1>3, <2>1 DEF Proximities
<1>4. CASE net.timestamp - p.last_seen < PROXAGGREGATION_TIME
  BY <1>2, <1>4 DEF Erased
<1>5. QED
  BY <1>2, <1>3, <1>4

(* The time is written to the slot at the position, which moves on: what    *)
(* was some sightings back is one more back.                                *)
LEMMA RememberedFacts ==
  ASSUME NEW p \in Proximities, net.timestamp \in Nat
  PROVE  LET q == Remembered(p)
         IN /\ q \in Proximities
            /\ q.tag1p = p.tag1p /\ q.tag2p = p.tag2p
            /\ q.calibrated = p.calibrated /\ q.last_seen = net.timestamp
            /\ At(q, 1) = net.timestamp
            /\ \A back \in 1 .. MAX_PROXIMITY_SLOTS - 1 :
                 At(q, back + 1) = At(p, back)
<1> DEFINE n == MAX_PROXIMITY_SLOTS
           pos == p.fifo_pos
           next == IF pos + 1 >= n THEN 0 ELSE pos + 1
           q == Remembered(p)
<1>1. /\ n \in Nat \ {0} /\ pos \in Positions /\ pos \in 0 .. n - 1
      /\ p.fifo \in [Positions -> Nat]
  BY Constants DEF Proximities, Positions
<1>2. /\ next \in Positions
      /\ pos + 1 = n => next = 0
      /\ pos + 1 < n => next = pos + 1
  BY <1>1 DEF Positions
<1>3. q = [p EXCEPT !.last_seen = net.timestamp, !.fifo[pos] = net.timestamp,
                    !.fifo_pos = next]
  BY DEF Remembered
<1> HIDE DEF next
<1> DEFINE fifo == [p.fifo EXCEPT ![pos] = net.timestamp]
<1>4. /\ q \in Proximities
      /\ q.tag1p = p.tag1p /\ q.tag2p = p.tag2p
      /\ q.calibrated = p.calibrated /\ q.last_seen = net.timestamp
      /\ q.fifo_pos = next /\ q.fifo = fifo
  <2>1. fifo \in [Positions -> Nat]
    BY <1>1
  <2>2. q = [p EXCEPT !.last_seen = net.timestamp, !.fifo = fifo,
                      !.fifo_pos = next]
    BY <1>3 DEF Proximities
  <2> HIDE DEF q, fifo
  <2>3. QED
    BY <1>2, <2>1, <2>2 DEF Proximities
<1> HIDE DEF q
<1>5. At(q, 1) = net.timestamp
  <2>1. (next + 2 * n - 1) % n = pos
    <3>1. 1 \in 1 .. n
      BY <1>1
    <3>2. LET slot == (next + 2 * n - 1) % n
          IN /\ slot \in Positions
             /\ next >= 1 => slot = next - 1
             /\ next < 1 => slot = next - 1 + n
      BY <1>2, <3>1, SlotBack
    <3>3. QED
      BY <1>1, <1>2, <3>2
  <2>2. QED
    BY <1>1, <1>4, <2>1 DEF At
<1>6. \A back \in 1 .. n - 1 : At(q, back + 1) = At(p, back)
  <2> TAKE back \in 1 .. n - 1
  <2>1. back \in 1 .. n /\ back + 1 \in 1 .. n /\ back < n
    BY <1>1
  <2>2. LET slot == (pos + 2 * n - back) % n
        IN /\ slot \in Positions
           /\ pos >= back => slot = pos - back
           /\ pos < back => slot = pos - back + n
    BY <1>1, <2>1, SlotBack
  <2>3. LET slot == (next + 2 * n - (back + 1)) % n
        IN /\ slot \in Positions
           /\ next >= back + 1 => slot = next - (back + 1)
           /\ next < back + 1 => slot = next - (back + 1) + n
    BY <1>2, <2>1, SlotBack
  <2>4. /\ (next + 2 * n - (back + 1)) % n = (pos + 2 * n - back) % n
        /\ (pos + 2 * n - back) % n # pos
    BY <1>1, <1>2, <2>1, <2>2, <2>3
  <2>5. QED
    BY <1>1, <1>4, <2>2, <2>4 DEF At
<1>7. QED
  BY <1>4, <1>5, <1>6 DEF q

(* Nothing is left of the fifo when it is erased. *)
LEMMA EmptyBack ==
  ASSUME NEW p \in Proximities, p.fifo = EmptyFifo,
         NEW back \in 1 .. MAX_PROXIMITY_SLOTS
  PROVE  At(p, back) = 0
<1>1. p.fifo_pos \in Positions
  BY DEF Proximities
<1>2. (p.fifo_pos + 2 * MAX_PROXIMITY_SLOTS - back) % MAX_PROXIMITY_SLOTS
        \in Positions
  BY <1>1, SlotBack
<1>3. QED
  BY <1>2 DEF At, EmptyFifo, Positions

(* The pointers are to the tags of the pair, to the sender at least, and    *)
(* what they pointed to stays.                                              *)
LEMMA PointedFacts ==
  ASSUME NEW p \in Proximities, Me \in Tags, Pair \in Pairs,
         Pair[1] = Me \/ Pair[2] = Me, Find(<<Me>>),
         p.tag1p \in {0, Pair[1]}, p.tag2p \in {0, Pair[2]}
  PROVE  LET q == Pointed(p)
         IN /\ q \in Proximities
            /\ q.calibrated = p.calibrated /\ q.last_seen = p.last_seen
            /\ q.fifo = p.fifo /\ q.fifo_pos = p.fifo_pos
            /\ q.tag1p \in {0, Pair[1]} /\ q.tag2p \in {0, Pair[2]}
            /\ q.tag1p # 0 \/ q.tag2p # 0
            /\ p.tag1p # 0 => q.tag1p = p.tag1p
            /\ p.tag2p # 0 => q.tag2p = p.tag2p
            /\ p.tag1p = 0 /\ q.tag1p # 0 => Find(<<q.tag1p>>)
            /\ p.tag2p = 0 /\ q.tag2p # 0 => Find(<<q.tag2p>>)
<1> DEFINE pointer(old, uid) == IF old # 0 THEN old
                                ELSE IF uid = Me \/ Find(<<uid>>) THEN uid
                                ELSE 0
           one == pointer(p.tag1p, Pair[1])
           two == pointer(p.tag2p, Pair[2])
<1>1. Pointed(p) = [p EXCEPT !.tag1p = one, !.tag2p = two]
  BY DEF Pointed
<1>2. Pair[1] \in Tags /\ Pair[2] \in Tags /\ Pair[1] # 0 /\ Pair[2] # 0
  BY PairFacts
<1>3. /\ one \in {0, Pair[1]} /\ two \in {0, Pair[2]}
      /\ one # 0 \/ two # 0
      /\ p.tag1p # 0 => one = p.tag1p
      /\ p.tag2p # 0 => two = p.tag2p
      /\ p.tag1p = 0 /\ one # 0 => Find(<<one>>)
      /\ p.tag2p = 0 /\ two # 0 => Find(<<two>>)
  BY <1>2
<1> HIDE DEF one, two
<1>4. QED
  BY <1>1, <1>2, <1>3 DEF Proximities

(* It becomes calibrated when both tags are. *)
LEMMA CalibratedFacts ==
  ASSUME NEW p \in Proximities
  PROVE  LET q == Calibrated(p)
         IN /\ q \in Proximities
            /\ q.tag1p = p.tag1p /\ q.tag2p = p.tag2p
            /\ q.last_seen = p.last_seen
            /\ q.fifo = p.fifo /\ q.fifo_pos = p.fifo_pos
            /\ q.calibrated =>
                 \/ p.calibrated
                 \/ /\ p.tag1p # 0 /\ p.tag2p # 0
                    /\ tag[p.tag1p].calibrated /\ tag[p.tag2p].calibrated
<1> DEFINE both == /\ p.tag1p # 0 /\ p.tag2p # 0
                   /\ tag[p.tag1p].calibrated /\ tag[p.tag2p].calibrated
           c == p.calibrated \/ both
<1>1. Calibrated(p) = [p EXCEPT !.calibrated = c]
  BY DEF Calibrated
<1>2. c \in BOOLEAN /\ (c => p.calibrated \/ both)
  OBVIOUS
<1> HIDE DEF c
<1>3. QED
  BY <1>1, <1>2 DEF Proximities

(* What the receiver leaves behind is in order. *)
LEMMA Written ==
  ASSUME Inv, net.pc = "sighted"
  PROVE  LET r == Calibrated(Pointed(Remembered(Erased(prox[Pair]))))
         IN /\ r \in Proximities
            /\ r.last_seen = net.timestamp
            /\ r.tag1p \in {0, Pair[1]} /\ r.tag2p \in {0, Pair[2]}
            /\ r.tag1p # 0 \/ r.tag2p # 0
            /\ r.calibrated => r.tag1p # 0 /\ r.tag2p # 0
                 /\ tag[r.tag1p].calibrated /\ tag[r.tag2p].calibrated
            /\ At(r, 1) = r.last_seen
            /\ \A back \in 1 .. MAX_PROXIMITY_SLOTS - 1 :
                 At(r, back + 1) # 0 =>
                   At(r, back) - At(r, back + 1)
                     \in 0 .. PROXAGGREGATION_TIME - 1
            /\ \A uid \in {r.tag1p, r.tag2p} \ {0} : Find(<<uid>>)
<1> DEFINE p == prox[Pair]
           e == Erased(p)
           q == Remembered(e)
           t == Pointed(q)
           r == Calibrated(t)
           n == MAX_PROXIMITY_SLOTS
           a == PROXAGGREGATION_TIME
<1>1. /\ Me \in Tags /\ Pair \in Pairs /\ (Pair[1] = Me \/ Pair[2] = Me)
      /\ Find(<<Me>>) /\ Find(Pair)
  BY Received DEF Inv, Types, MapInv
<1>2. /\ p \in Proximities /\ net.timestamp \in Nat /\ net.timestamp >= START
      /\ p.last_seen \in Nat /\ p.last_seen <= net.timestamp
  <2>1. p \in Proximities /\ net.timestamp \in START .. now
    BY <1>1 DEF Inv, Types, ClockInv
  <2>2. now \in Int /\ START \in Nat
    BY Constants DEF Inv, ClockInv
  <2>3. QED
    BY <1>1, <2>1, <2>2 DEF Inv, ClockInv, Proximities
<1>3. /\ Sane(Pair) \/ p = NoProx
      /\ \A uid \in {p.tag1p, p.tag2p} \ {0} : Find(<<uid>>)
  BY <1>1 DEF Inv, ProxInv
<1>4. p = NoProx => /\ p.tag1p = 0 /\ p.tag2p = 0 /\ ~p.calibrated
                    /\ p.last_seen = 0
  BY DEF NoProx
<1>5. /\ n \in Nat \ {0} /\ a \in Nat \ {0} /\ START \in Nat /\ START >= a
  BY Constants
<1> HIDE DEF p
<1>6. /\ e \in Proximities
      /\ e.tag1p = p.tag1p /\ e.tag2p = p.tag2p
      /\ e.calibrated = p.calibrated /\ e.last_seen = p.last_seen
      /\ \/ net.timestamp - p.last_seen >= a /\ e.fifo = EmptyFifo
         \/ net.timestamp - p.last_seen < a /\ e = p
  BY <1>2, ErasedFacts
<1> HIDE DEF e
<1>7. /\ q \in Proximities
      /\ q.tag1p = e.tag1p /\ q.tag2p = e.tag2p
      /\ q.calibrated = e.calibrated /\ q.last_seen = net.timestamp
      /\ At(q, 1) = net.timestamp
      /\ \A back \in 1 .. n - 1 : At(q, back + 1) = At(e, back)
  BY <1>2, <1>6, RememberedFacts
<1> HIDE DEF q
<1>8. q.tag1p \in {0, Pair[1]} /\ q.tag2p \in {0, Pair[2]}
  BY <1>3, <1>4, <1>6, <1>7 DEF Sane, p
<1>9. /\ t \in Proximities
      /\ t.calibrated = q.calibrated /\ t.last_seen = q.last_seen
      /\ t.fifo = q.fifo /\ t.fifo_pos = q.fifo_pos
      /\ t.tag1p \in {0, Pair[1]} /\ t.tag2p \in {0, Pair[2]}
      /\ t.tag1p # 0 \/ t.tag2p # 0
      /\ q.tag1p # 0 => t.tag1p = q.tag1p
      /\ q.tag2p # 0 => t.tag2p = q.tag2p
      /\ q.tag1p = 0 /\ t.tag1p # 0 => Find(<<t.tag1p>>)
      /\ q.tag2p = 0 /\ t.tag2p # 0 => Find(<<t.tag2p>>)
  BY <1>1, <1>7, <1>8, PointedFacts
<1> HIDE DEF t
<1>10. /\ r \in Proximities
       /\ r.tag1p = t.tag1p /\ r.tag2p = t.tag2p
       /\ r.last_seen = t.last_seen
       /\ r.fifo = t.fifo /\ r.fifo_pos = t.fifo_pos
       /\ r.calibrated =>
            \/ t.calibrated
            \/ /\ t.tag1p # 0 /\ t.tag2p # 0
               /\ tag[t.tag1p].calibrated /\ tag[t.tag2p].calibrated
  BY <1>9, CalibratedFacts
<1> HIDE DEF r
<1>11. p.calibrated => p.tag1p # 0 /\ p.tag2p # 0 /\ tag[p.tag1p].calibrated
                         /\ tag[p.tag2p].calibrated
  BY <1>3, <1>4 DEF Sane, p
<1>12. r.calibrated => r.tag1p # 0 /\ r.tag2p # 0
         /\ tag[r.tag1p].calibrated /\ tag[r.tag2p].calibrated
  <2>1. t.calibrated => p.calibrated
    BY <1>6, <1>7, <1>9
  <2>2. /\ p.tag1p # 0 => t.tag1p = p.tag1p
        /\ p.tag2p # 0 => t.tag2p = p.tag2p
    BY <1>6, <1>7, <1>9
  <2>3. t.calibrated => t.tag1p # 0 /\ t.tag2p # 0
          /\ tag[t.tag1p].calibrated /\ tag[t.tag2p].calibrated
    BY <1>11, <2>1, <2>2
  <2>4. QED
    BY <1>10, <2>3
<1>13. \A uid \in {r.tag1p, r.tag2p} \ {0} : Find(<<uid>>)
  <2>1. /\ q.tag1p = p.tag1p /\ q.tag2p = p.tag2p
        /\ q.tag1p # 0 => Find(<<q.tag1p>>)
        /\ q.tag2p # 0 => Find(<<q.tag2p>>)
    BY <1>3, <1>6, <1>7
  <2>2. t.tag1p # 0 => Find(<<t.tag1p>>)
    BY <1>9, <2>1
  <2>3. t.tag2p # 0 => Find(<<t.tag2p>>)
    BY <1>9, <2>1
  <2>4. QED
    BY <1>10, <2>2, <2>3
<1>14. \A back : At(r, back) = At(q, back)
  BY <1>9, <1>10 DEF At
<1>15. ASSUME NEW back \in 1 .. n - 1, At(q, back + 1) # 0
       PROVE  At(q, back) - At(q, back + 1) \in 0 .. a - 1
  <2>1. At(q, back + 1) = At(e, back) /\ back \in 1 .. n
    BY <1>5, <1>7
  <2>2. CASE e.fifo = EmptyFifo
    BY <1>6, <1>15, <2>1, <2>2, EmptyBack
  <2>3. CASE net.timestamp - p.last_seen < a /\ e = p
    <3>1. p # NoProx
      BY <1>2, <1>4, <1>5, <2>3
    <3>2. At(p, 1) = p.last_seen
          /\ \A k \in 1 .. n - 1 :
               At(p, k + 1) # 0 => At(p, k) - At(p, k + 1) \in 0 .. a - 1
      BY <1>3, <3>1 DEF Sane, p
    <3>3. CASE back = 1
      BY <1>2, <1>5, <1>7, <2>1, <2>3, <3>2, <3>3
    <3>4. CASE back # 1
      <4>1. back - 1 \in 1 .. n - 1 /\ (back - 1) + 1 = back
        BY <1>5, <3>4
      <4>2. At(q, back) = At(p, back - 1)
        BY <1>7, <2>3, <4>1
      <4>3. At(p, (back - 1) + 1) # 0 =>
              At(p, back - 1) - At(p, (back - 1) + 1) \in 0 .. a - 1
        BY <3>2, <4>1
      <4>4. QED
        BY <1>15, <2>1, <2>3, <4>1, <4>2, <4>3
    <3>5. QED
      BY <3>3, <3>4
  <2>4. QED
    BY <1>6, <2>2, <2>3
<1>16. /\ At(r, 1) = r.last_seen
       /\ \A back \in 1 .. n - 1 :
            At(r, back + 1) # 0 =>
              At(r, back) - At(r, back + 1) \in 0 .. a - 1
  BY <1>7, <1>9, <1>10, <1>14, <1>15
<1>17. QED
  BY <1>7, <1>9, <1>10, <1>12, <1>13, <1>16 DEF p, e, q, t, r

(* A sighting is noted in the proximity. *)
LEMMA SightedInv ==
  ASSUME Inv, Sighted
  PROVE  Inv'
<1> DEFINE r == Calibrated(Pointed(Remembered(Erased(prox[Pair]))))
<1>1. /\ net.pc = "sighted"
      /\ prox' = [prox EXCEPT ![Pair] = r]
      /\ owner' = [owner EXCEPT ![Pair] = "none"]
      /\ net' = [net EXCEPT !.pc = "sighting", !.i = net.i + 1]
      /\ UNCHANGED <<tag, m_MapIterate, m_MapIteratePos, now, est, edges, live>>
  BY DEF Sighted, NetUnchanged, report, maps
<1>2. /\ r \in Proximities
      /\ r.last_seen = net.timestamp
      /\ r.tag1p \in {0, Pair[1]} /\ r.tag2p \in {0, Pair[2]}
      /\ r.tag1p # 0 \/ r.tag2p # 0
      /\ r.calibrated => r.tag1p # 0 /\ r.tag2p # 0
           /\ tag[r.tag1p].calibrated /\ tag[r.tag2p].calibrated
      /\ At(r, 1) = r.last_seen
      /\ \A back \in 1 .. MAX_PROXIMITY_SLOTS - 1 :
           At(r, back + 1) # 0 =>
             At(r, back) - At(r, back + 1) \in 0 .. PROXAGGREGATION_TIME - 1
      /\ \A uid \in {r.tag1p, r.tag2p} \ {0} : Find(<<uid>>)
  BY <1>1, Written
<1> HIDE DEF r
<1>3. /\ Me \in Tags /\ Pair \in Pairs
      /\ <<Me>> \in Handles /\ Pair \in Handles /\ Pair # <<Me>>
      /\ Find(<<Me>>) /\ Find(Pair)
      /\ owner[<<Me>>] = "net" /\ owner[Pair] = "net"
  BY <1>1, Received, MapOfHandles DEF Inv, Types, MapInv, LockInv
<1>4. /\ prox \in [Pairs -> Proximities]
      /\ owner \in [Handles -> {"none", "net", "est"}]
  BY DEF Inv, Types
<1>5. /\ prox' \in [Pairs -> Proximities] /\ prox'[Pair] = r
      /\ \A pair \in Pairs : pair # Pair => prox'[pair] = prox[pair]
      /\ owner' \in [Handles -> {"none", "net", "est"}]
      /\ owner'[<<Me>>] = "net"
  BY <1>1, <1>2, <1>3, <1>4
<1>6. /\ net' \in NetStates
      /\ net'.pc = "sighting"
      /\ net'.timestamp = net.timestamp /\ net'.track = net.track
      /\ Me' = Me
  <2>1. net \in NetStates
    BY DEF Inv, Types
  <2>2. "sighting" \in NetPcs /\ net.i + 1 \in Nat \ {0}
    BY <2>1 DEF NetPcs, NetStates
  <2>3. QED
    BY <1>1, <2>1, <2>2 DEF Me, NetStates
<1>7. Types'
  BY <1>1, <1>5, <1>6 DEF Inv, Types
<1>8. ClockInv'
  <2>1. net.timestamp \in Nat /\ net.timestamp \in START .. now
        /\ now \in START .. MAX_TIME
        /\ \A pair \in Pairs : /\ prox[pair].last_seen <= now
                               /\ prox[pair].last_seen <= net.timestamp
    BY <1>1 DEF Inv, Types, ClockInv, NetStates
  <2>2. net.timestamp <= now /\ net.timestamp <= net.timestamp
    BY <2>1, Constants
  <2>3. \A pair \in Pairs : /\ prox'[pair].last_seen <= now
                            /\ prox'[pair].last_seen <= net.timestamp
    BY <1>2, <1>5, <2>1, <2>2
  <2>4. QED
    BY <1>1, <1>6, <2>1, <2>3 DEF ClockInv
<1>9. MapsGrow /\ \A h : Find(h)' <=> Find(h)
  BY <1>1, MapsStay
<1>10. MapInv'
  <2>1. \A m \in Maps : ~Pending(m)' /\ ~Pending(m)
    BY <1>1, <1>6 DEF Pending
  <2>2. QED
    BY <1>1, <1>3, <1>6, <1>9, <2>1 DEF Inv, MapInv, ItemsInv
<1>11. LockInv'
  <2>1. /\ est'.p <= est'.count
        /\ est'.pc = "call" =>
             /\ est'.p < est'.count
             /\ Item(WalkedMap(est.pass), est.p + 1, Entry)'
             /\ owner'[Entry'] = "est"
    BY <1>1, <1>3, <1>9, OtherLock
  <2>2. QED
    BY <1>5, <1>6, <2>1 DEF LockInv
<1>12. ProxInv'
  <2>1. \A pair \in Pairs : pair = Pair => Sane(pair)'
    BY <1>1, <1>2, <1>5 DEF Sane, At
  <2>2. ASSUME NEW pair \in Pairs
        PROVE  /\ ~Find(pair)' => prox'[pair] = NoProx
               /\ Find(pair)' => Sane(pair)'
               /\ \A uid \in {prox'[pair].tag1p, prox'[pair].tag2p} \ {0} :
                    Find(<<uid>>)'
    <3>1. CASE pair = Pair
      BY <1>2, <1>3, <1>5, <1>9, <2>1, <3>1
    <3>2. CASE pair # Pair
      <4>1. /\ ~Find(pair) => prox[pair] = NoProx
            /\ Find(pair) => Sane(pair)
            /\ \A uid \in {prox[pair].tag1p, prox[pair].tag2p} \ {0} :
                 Find(<<uid>>)
        BY <3>2 DEF Inv, ProxInv
      <4>2. Sane(pair) => Sane(pair)'
        BY <1>1, <1>5, <3>2 DEF Sane, At
      <4>3. QED
        BY <1>5, <1>9, <3>2, <4>1, <4>2
    <3>3. QED
      BY <3>1, <3>2
  <2>3. QED
    BY <2>2 DEF ProxInv
<1>13. ASSUME NEW pair \in Pairs, Live(prox[pair])
       PROVE  Live(prox[pair])'
  <2>1. net.timestamp \in START .. now /\ net.timestamp \in Nat
        /\ prox[Pair].last_seen <= net.timestamp /\ prox[Pair].last_seen \in Nat
        /\ est.timestamp \in Nat
    BY <1>1, <1>3, <1>4 DEF Inv, Types, ClockInv, Proximities,
                              NetStates, EstStates
  <2>2. net.timestamp # 0 /\ PROXAGGREGATION_TIME \in Nat
    BY <2>1, Constants DEF Inv, ClockInv
  <2>3. CASE pair = Pair
    BY <1>1, <1>2, <1>5, <1>13, <2>1, <2>2, <2>3 DEF Live, Age
  <2>4. CASE pair # Pair
    BY <1>1, <1>5, <1>13, <2>4 DEF Live, Age
  <2>5. QED
    BY <2>3, <2>4
<1>14. ResetInv' /\ ForceInv' /\ EdgeInv'
  BY <1>1, <1>9, <1>13, WalkKept
<1>15. QED
  BY <1>7, <1>8, <1>10, <1>11, <1>12, <1>14 DEF Inv

(* The receiver gives the lock of the sender back. *)
LEMMA UnlockTagInv ==
  ASSUME Inv, UnlockTag
  PROVE  Inv'
<1>1. /\ net.pc = "sighting"
      /\ owner' = [owner EXCEPT ![<<Me>>] = "none"]
      /\ net' = Waiting
      /\ UNCHANGED <<tag, prox, m_MapIterate, m_MapIteratePos, now, est, edges,
                     live>>
  BY DEF UnlockTag, NetUnchanged, report, maps
<1>2. <<Me>> \in Handles /\ owner[<<Me>>] = "net"
  BY <1>1, Received, MapOfHandles DEF Inv, LockInv
<1>3. owner' \in [Handles -> {"none", "net", "est"}]
  BY <1>1 DEF Inv, Types
<1>4. /\ net'.pc = "recv"
      /\ net' \in NetStates
  BY <1>1 DEF Waiting, NetPcs, NetStates, EstStates
<1>5. Types'
  BY <1>1, <1>3, <1>4 DEF Inv, Types
<1>6. ClockInv'
  BY <1>1, <1>4 DEF Inv, ClockInv
<1>7. MapsGrow /\ \A h : Find(h)' <=> Find(h)
  BY <1>1, MapsStay
<1>8. MapInv'
  <2>1. \A m \in Maps : ~Pending(m)' /\ ~Pending(m)
    BY <1>1, <1>4 DEF Pending
  <2>2. QED
    BY <1>1, <1>4, <2>1 DEF Inv, MapInv, ItemsInv
<1>9. LockInv'
  <2>1. /\ est'.p <= est'.count
        /\ est'.pc = "call" =>
             /\ est'.p < est'.count
             /\ Item(WalkedMap(est.pass), est.p + 1, Entry)'
             /\ owner'[Entry'] = "est"
    BY <1>1, <1>2, <1>7, OtherLock
  <2>2. QED
    BY <1>4, <2>1 DEF LockInv
<1>10. ProxInv'
  BY <1>1, <1>7, ProxKept
<1>11. ResetInv' /\ ForceInv' /\ EdgeInv'
  BY <1>1, <1>7, WalkKept DEF Live, Age
<1>12. QED
  BY <1>5, <1>6, <1>8, <1>9, <1>10, <1>11 DEF Inv

-----------------------------------------------------------------------------
(* A step that changes nothing of this. *)
LEMMA InvStutter ==
  ASSUME Inv, UNCHANGED <<now, tag, prox, m_MapIterate, m_MapIteratePos, owner,
                          net, est, edges, live>>
  PROVE  Inv'
<1>1. Types' /\ ClockInv'
  BY DEF Inv, Types, ClockInv, Slot
<1>2. MapsGrow /\ \A h : Find(h)' <=> Find(h)
  BY MapsStay
<1>3. MapInv'
  BY DEF Inv, MapInv, ItemsInv, Pending, Find, Me, Pair
<1>4. LockInv'
  BY DEF Inv, LockInv, Item, Entry, WalkedMap, Me, Pair
<1>5. ProxInv'
  BY <1>2, ProxKept
<1>6. ResetInv' /\ ForceInv' /\ EdgeInv'
  BY <1>2, WalkKept DEF Live, Age
<1>7. QED
  BY <1>1, <1>3, <1>4, <1>5, <1>6 DEF Inv

(* A step of the estimation thread leaves the maps to the receiver, and     *)
(* what the receiver has locked.                                            *)
LEMMA ReceiverKept ==
  ASSUME Inv, UNCHANGED <<m_MapIterate, m_MapIteratePos, net>>,
         \A h \in Handles : owner[h] = "net" => owner'[h] = "net"
  PROVE  /\ MapInv' /\ MapsGrow
         /\ \A h : Find(h)' <=> Find(h)
         /\ \A m, j, h : Item(m, j, h)' <=> Item(m, j, h)
         /\ net'.pc \in {"storetag", "sighting", "storeprox", "sighted"} =>
              owner'[<<Me'>>] = "net"
         /\ net'.pc \in {"storeprox", "sighted"} => owner'[Pair'] = "net"
         /\ net'.pc \in {"storeprox", "sighted"} => Slot'
<1>1. Me' = Me /\ Pair' = Pair /\ Slot' = Slot
  BY DEF Me, Pair, Slot
<1>2. MapsGrow /\ \A h : Find(h)' <=> Find(h)
  BY MapsStay
<1>3. MapInv'
  BY <1>1, <1>2 DEF Inv, MapInv, ItemsInv, Pending
<1>4. net.pc # "recv" => <<Me>> \in Handles
  BY Received, MapOfHandles DEF Inv
<1>5. net.pc \in {"storeprox", "sighted"} => Pair \in Handles /\ Slot
  BY Received, MapOfHandles DEF Inv, Types
<1>6. QED
  BY <1>1, <1>2, <1>3, <1>4, <1>5 DEF Inv, LockInv, Item

(* A step begins. *)
LEMMA BeginStepInv ==
  ASSUME Inv, NEW time \in now .. MAX_TIME, BeginStep(time)
  PROVE  Inv'
<1>1. /\ est.pc = "idle" /\ now' = time
      /\ est' = [est EXCEPT !.pc = "sleep", !.pass = "reset",
                            !.timestamp = time]
      /\ UNCHANGED <<tag, prox, m_MapIterate, m_MapIteratePos, owner, net,
                     edges, live>>
  BY DEF BeginStep, maps, report
<1>2. /\ now \in START .. MAX_TIME /\ now \in Nat /\ START \in Nat
      /\ MAX_TIME \in Nat
  BY Constants DEF Inv, ClockInv
<1>3. time \in START .. MAX_TIME /\ time \in Nat /\ now <= time
  BY <1>2
<1>4. est \in EstStates
  BY DEF Inv, Types
<1>5. "sleep" \in EstPcs /\ "reset" \in Passes
  BY DEF EstPcs, Passes
<1>6. /\ est' \in EstStates
      /\ est'.pc = "sleep" /\ est'.pass = "reset"
      /\ est'.p = est.p /\ est'.count = est.count
  BY <1>1, <1>3, <1>4, <1>5 DEF EstStates
<1>7. /\ MapInv' /\ MapsGrow
      /\ \A h : Find(h)' <=> Find(h)
      /\ net'.pc \in {"storetag", "sighting", "storeprox", "sighted"} =>
           owner'[<<Me'>>] = "net"
      /\ net'.pc \in {"storeprox", "sighted"} => owner'[Pair'] = "net"
      /\ net'.pc \in {"storeprox", "sighted"} => Slot'
  BY <1>1, ReceiverKept
<1>8. Types'
  BY <1>1, <1>6, <1>7 DEF Inv, Types
<1>9. ClockInv'
  <2>1. \A pair \in Pairs : prox[pair].last_seen <= time
    <3> TAKE pair \in Pairs
    <3>1. prox[pair].last_seen \in Nat /\ prox[pair].last_seen <= now
      BY DEF Inv, Types, ClockInv, Proximities
    <3>2. QED
      BY <1>2, <1>3, <3>1
  <2>2. net.pc # "recv" =>
          /\ net.timestamp \in START .. time
          /\ \A pair \in Pairs : prox[pair].last_seen <= net.timestamp
    BY <1>2, <1>3 DEF Inv, ClockInv
  <2>3. QED
    BY <1>1, <1>3, <2>1, <2>2 DEF ClockInv
<1>10. LockInv'
  BY <1>6, <1>7 DEF Inv, LockInv
<1>11. ProxInv'
  BY <1>1, <1>7, ProxKept
<1>12. ResetInv'
  <2>1. \A uid \in Tags : tag'[uid].Fcount # 0 => Find(<<uid>>)'
    BY <1>1, <1>7 DEF Inv, ResetInv
  <2>2. QED
    BY <1>1, <1>6, <2>1 DEF Inv, ResetInv, Walking
<1>13. ForceInv' /\ EdgeInv'
  BY <1>6 DEF ForceInv, EdgeInv, Walking
<1>14. QED
  BY <1>8, <1>9, <1>7, <1>10, <1>11, <1>12, <1>13 DEF Inv

(* A walk begins: it comes to every item that is stored by now. *)
LEMMA WalkBegins ==
  ASSUME Inv, NEW pass \in Passes, Walk(pass)
  PROVE  /\ Types' /\ ClockInv' /\ MapInv' /\ LockInv' /\ ProxInv'
         /\ UNCHANGED <<tag, prox, edges>>
         /\ est'.pc = "walk" /\ est'.pass = pass /\ est'.p = 0
         /\ est'.timestamp = est.timestamp
         /\ \A h \in Handles :
              Find(h) => /\ Find(h)'
                         /\ MapOf(h) = WalkedMap(pass) =>
                              \E j \in est'.p + 1 .. est'.count :
                                Item(WalkedMap(pass), j, h)'
         /\ live' = IF pass = "edges" THEN {pair \in Pairs : Live(prox[pair])}
                    ELSE live
<1> DEFINE m == WalkedMap(pass)
           n == m_MapIteratePos[m]
<1>1. /\ est' = [est EXCEPT !.pc = "walk", !.pass = pass, !.p = 0, !.count = n]
      /\ UNCHANGED <<tag, prox, owner, edges, now, m_MapIterate,
                     m_MapIteratePos,
                     net>>
      /\ live' = IF pass = "edges" THEN {pair \in Pairs : Live(prox[pair])}
                 ELSE live
  BY DEF Walk, EstUnchanged, maps
<1>2. /\ est \in EstStates
      /\ m \in Maps /\ n \in Nat /\ m_MapIterate[m] \in Seq(Handles)
      /\ "walk" \in EstPcs
  BY DEF Inv, Types, WalkedMap, Maps, EstPcs
<1>3. n >= Len(m_MapIterate[m]) /\ Len(m_MapIterate[m]) \in Nat
  BY <1>2 DEF Inv, MapInv, ItemsInv
<1> HIDE DEF n
<1>4. /\ est' \in EstStates
      /\ est'.pc = "walk" /\ est'.pass = pass /\ est'.p = 0 /\ est'.count = n
      /\ est'.timestamp = est.timestamp
  BY <1>1, <1>2 DEF EstStates
<1>5. /\ MapInv' /\ MapsGrow
      /\ \A h : Find(h)' <=> Find(h)
      /\ \A mm, j, h : Item(mm, j, h)' <=> Item(mm, j, h)
      /\ net'.pc \in {"storetag", "sighting", "storeprox", "sighted"} =>
           owner'[<<Me'>>] = "net"
      /\ net'.pc \in {"storeprox", "sighted"} => owner'[Pair'] = "net"
      /\ net'.pc \in {"storeprox", "sighted"} => Slot'
  BY <1>1, ReceiverKept
<1>6. Types'
  BY <1>1, <1>4, <1>5 DEF Inv, Types
<1>7. ClockInv'
  BY <1>1 DEF Inv, ClockInv
<1>8. LockInv'
  BY <1>2, <1>4, <1>5 DEF LockInv
<1>9. ProxInv'
  BY <1>1, <1>5, ProxKept
<1>10. ASSUME NEW h \in Handles, Find(h), MapOf(h) = m
       PROVE  \E j \in est'.p + 1 .. est'.count : Item(m, j, h)'
  <2>1. PICK j \in Nat : Item(m, j, h)
    BY <1>10, FindIsItem DEF Inv
  <2>2. j \in 1 .. Len(m_MapIterate[m])
    BY <2>1 DEF Item
  <2>3. j \in est'.p + 1 .. est'.count
    BY <1>2, <1>3, <1>4, <2>2
  <2>4. QED
    BY <1>5, <2>1, <2>3
<1>11. QED
  BY <1>1, <1>4, <1>5, <1>6, <1>7, <1>8, <1>9, <1>10

(* The first walk begins. *)
LEMMA WakeUpInv ==
  ASSUME Inv, WakeUp
  PROVE  Inv'
<1>1. est.pc = "sleep" /\ Walk("reset") /\ "reset" \in Passes
      /\ WalkedMap("reset") = "tag"
  BY DEF WakeUp, Passes, WalkedMap
<1>2. /\ Types' /\ ClockInv' /\ MapInv' /\ LockInv' /\ ProxInv'
      /\ UNCHANGED <<tag, prox, edges>>
      /\ est'.pc = "walk" /\ est'.pass = "reset" /\ est'.p = 0
      /\ \A h \in Handles :
           Find(h) => /\ Find(h)'
                      /\ MapOf(h) = "tag" =>
                           \E j \in est'.p + 1 .. est'.count :
                             Item("tag", j, h)'
  BY <1>1, WalkBegins
<1>3. \A uid \in Tags : tag'[uid].Fcount # 0 =>
         /\ Find(<<uid>>)'
         /\ \E j \in est'.p + 1 .. est'.count : Item("tag", j, <<uid>>)'
  BY <1>2, MapOfHandles DEF Inv, ResetInv
<1>4. ResetInv'
  BY <1>1, <1>2, <1>3 DEF Inv, ResetInv
<1>5. ForceInv' /\ EdgeInv'
  BY <1>2 DEF ForceInv, EdgeInv, Walking
<1>6. QED
  BY <1>2, <1>4, <1>5 DEF Inv

(* The other two begin when the one before is over. *)
LEMMA NextPassInv ==
  ASSUME Inv, NextPass
  PROVE  Inv'
<1>1. /\ est.pc = "walk" /\ est.p = est.count
      /\ est.p \in Nat /\ est.count \in Nat
      /\ \/ est.pass = "reset" /\ Walk("edges")
         \/ est.pass = "edges" /\ Walk("tags")
      /\ "edges" \in Passes /\ "tags" \in Passes
      /\ WalkedMap("edges") = "proximity" /\ WalkedMap("tags") = "tag"
  BY DEF NextPass, Walked, Inv, Types, Passes, WalkedMap, EstStates, TagStates
<1>2. \A j : j \notin est.p + 1 .. est.count
  BY <1>1
<1>3. CASE est.pass = "reset" /\ Walk("edges")
  <2>1. /\ Types' /\ ClockInv' /\ MapInv' /\ LockInv' /\ ProxInv'
        /\ UNCHANGED <<tag, prox, edges>>
        /\ est'.pc = "walk" /\ est'.pass = "edges" /\ est'.p = 0
        /\ est'.timestamp = est.timestamp
        /\ \A h \in Handles :
             Find(h) => /\ Find(h)'
                        /\ MapOf(h) = "proximity" =>
                             \E j \in est'.p + 1 .. est'.count :
                               Item("proximity", j, h)'
        /\ live' = {pair \in Pairs : Live(prox[pair])}
    BY <1>1, <1>3, WalkBegins
  <2>2. \A uid \in Tags : tag[uid].Fcount = 0
    BY <1>1, <1>2, <1>3 DEF Inv, ResetInv, Walking
  <2>3. edges = {}
    BY <1>3 DEF Inv, ResetInv
  <2>4. ResetInv'
    BY <2>1, <2>2, <2>3 DEF ResetInv, Walking
  <2>5. ForceInv'
    <3>1. \A uid \in Tags : Cardinality({e \in edges : uid \in e.pushed}) = 0
      BY <2>3, FS_EmptySet
    <3>2. QED
      BY <2>1, <2>2, <3>1 DEF ForceInv
  <2>6. EdgeInv'
    <3>1. ASSUME NEW pair \in live'
          PROVE  /\ pair \in Pairs /\ Live(prox[pair])'
                 /\ \E j \in est'.p + 1 .. est'.count :
                      Item("proximity", j, pair)'
      <4>1. pair \in Pairs /\ Live(prox[pair])
        BY <2>1, <3>1
      <4>2. Live(prox[pair])'
        BY <2>1, <4>1 DEF Live, Age
      <4>3. Find(pair)
        <5>1. prox[pair].last_seen # 0
          BY <4>1 DEF Live
        <5>2. prox[pair] # NoProx
          BY <5>1 DEF NoProx
        <5>3. QED
          BY <4>1, <5>2 DEF Inv, ProxInv
      <4>4. QED
        BY <2>1, <4>1, <4>2, <4>3, MapOfHandles
    <3>2. QED
      BY <2>1, <2>3, <3>1 DEF EdgeInv, Walking
  <2>7. QED
    BY <2>1, <2>4, <2>5, <2>6 DEF Inv
<1>4. CASE est.pass = "edges" /\ Walk("tags")
  <2>1. /\ Types' /\ ClockInv' /\ MapInv' /\ LockInv' /\ ProxInv'
        /\ UNCHANGED <<tag, prox, edges, live>>
        /\ est'.pc = "walk" /\ est'.pass = "tags"
        /\ \A h \in Handles : Find(h) => Find(h)'
    BY <1>1, <1>4, WalkBegins
  <2>2. ResetInv'
    BY <2>1, MapOfHandles DEF Inv, ResetInv, Walking
  <2>3. ForceInv'
    BY <1>1, <1>4, <2>1 DEF Inv, ForceInv, Walking
  <2>4. EdgeInv'
    <3>1. live \subseteq {e.pair : e \in edges}
      BY <1>1, <1>2, <1>4 DEF Inv, EdgeInv, Walking
    <3>2. QED
      BY <2>1, <3>1 DEF EdgeInv, Walking
  <2>5. QED
    BY <2>1, <2>2, <2>3, <2>4 DEF Inv
<1>5. QED
  BY <1>1, <1>3, <1>4

(* The report ends. *)
LEMMA EndStepInv ==
  ASSUME Inv, EndStep
  PROVE  Inv'
<1>1. /\ est' = Sleeping /\ edges' = {}
      /\ UNCHANGED <<tag, prox, owner, now, m_MapIterate, m_MapIteratePos, net>>
  BY DEF EndStep, EstUnchanged, maps
<1>2. /\ est' \in EstStates
      /\ est'.pc = "idle" /\ est'.p = 0 /\ est'.count = 0
  BY <1>1 DEF Sleeping, EstPcs, Passes, NetStates, EstStates, TagStates
<1>3. /\ MapInv' /\ MapsGrow
      /\ \A h : Find(h)' <=> Find(h)
      /\ net'.pc \in {"storetag", "sighting", "storeprox", "sighted"} =>
           owner'[<<Me'>>] = "net"
      /\ net'.pc \in {"storeprox", "sighted"} => owner'[Pair'] = "net"
      /\ net'.pc \in {"storeprox", "sighted"} => Slot'
  BY <1>1, ReceiverKept
<1>4. Types'
  <2>1. IsFiniteSet({})
    BY FS_EmptySet
  <2>2. QED
    BY <1>1, <1>2, <1>3, <2>1 DEF Inv, Types
<1>5. ClockInv'
  BY <1>1 DEF Inv, ClockInv
<1>6. LockInv'
  BY <1>2, <1>3 DEF LockInv
<1>7. ProxInv'
  BY <1>1, <1>3, ProxKept
<1>8. ResetInv'
  BY <1>1, <1>2, <1>3 DEF Inv, ResetInv, Walking
<1>9. ForceInv' /\ EdgeInv'
  BY <1>2 DEF ForceInv, EdgeInv, Walking
<1>10. QED
  BY <1>3, <1>4, <1>5, <1>6, <1>7, <1>8, <1>9 DEF Inv

-----------------------------------------------------------------------------
(* The next item is locked. *)
LEMMA LockTaken ==
  ASSUME Inv, Lock
  PROVE  Inv'
<1> DEFINE m == WalkedMap(est.pass)
<1>1. /\ est.pc = "walk" /\ est.p < est.count /\ ~Missing
      /\ owner[Entry] = "none"
      /\ owner' = [owner EXCEPT ![Entry] = "est"]
      /\ est' = [est EXCEPT !.pc = "call"]
      /\ UNCHANGED <<tag, prox, now, m_MapIterate, m_MapIteratePos, net, edges,
                     live>>
  BY DEF Lock, Counted, EstUnchanged, maps, report
<1>2. /\ est \in EstStates
      /\ m \in Maps /\ m_MapIterate[m] \in Seq(Handles)
      /\ "call" \in EstPcs
      /\ owner \in [Handles -> {"none", "net", "est"}]
  BY DEF Inv, Types, WalkedMap, Maps, EstPcs
<1>3. /\ est' \in EstStates
      /\ est'.pc = "call" /\ est'.pass = est.pass /\ est'.p = est.p
      /\ est'.count = est.count /\ est'.timestamp = est.timestamp
  BY <1>1, <1>2 DEF NetStates, EstStates
<1>4. Entry' = Entry
  BY <1>1, <1>3 DEF Entry, WalkedMap
<1>5. Item(m, est.p + 1, Entry) /\ Entry \in Handles
  <2>1. est.p < Len(m_MapIterate[m]) /\ est.p \in Nat
        /\ Len(m_MapIterate[m]) \in Nat
    BY <1>1, <1>2 DEF Missing, EstStates
  <2>2. est.p + 1 \in 1 .. Len(m_MapIterate[m])
    BY <2>1
  <2>3. QED
    BY <1>2, <2>2 DEF Item, Entry
<1>6. /\ MapInv' /\ MapsGrow
      /\ \A h : Find(h)' <=> Find(h)
      /\ \A mm, j, h : Item(mm, j, h)' <=> Item(mm, j, h)
      /\ net'.pc \in {"storetag", "sighting", "storeprox", "sighted"} =>
           owner'[<<Me'>>] = "net"
      /\ net'.pc \in {"storeprox", "sighted"} => owner'[Pair'] = "net"
      /\ net'.pc \in {"storeprox", "sighted"} => Slot'
  <2>1. \A h \in Handles : owner[h] = "net" => owner'[h] = "net"
    BY <1>1, <1>2
  <2>2. QED
    BY <1>1, <2>1, ReceiverKept
<1>7. owner' \in [Handles -> {"none", "net", "est"}] /\ owner'[Entry] = "est"
  BY <1>1, <1>2, <1>5
<1>8. Types'
  BY <1>1, <1>3, <1>6, <1>7 DEF Inv, Types
<1>9. ClockInv'
  BY <1>1 DEF Inv, ClockInv
<1>10. LockInv'
  <2>1. Item(WalkedMap(est.pass), est.p + 1, Entry)'
    BY <1>1, <1>3, <1>4, <1>5 DEF Item, WalkedMap
  <2>2. QED
    BY <1>1, <1>2, <1>3, <1>4, <1>6, <1>7, <2>1 DEF LockInv, EstStates
<1>11. ProxInv'
  BY <1>1, <1>6, ProxKept
<1>12. \A pass : Walking(pass)' <=> Walking(pass)
  BY <1>1, <1>3 DEF Walking
<1>13. ResetInv'
  BY <1>1, <1>3, <1>6, <1>12 DEF Inv, ResetInv
<1>14. ForceInv'
  BY <1>1, <1>12 DEF Inv, ForceInv
<1>15. EdgeInv'
  BY <1>1, <1>3, <1>6, <1>12 DEF Inv, EdgeInv, Live, Age
<1>16. QED
  BY <1>6, <1>8, <1>9, <1>10, <1>11, <1>13, <1>14, <1>15 DEF Inv

(* A callback works on the item that the walk has come to, and on it only   *)
(* once; then the item is unlocked.                                         *)
LEMMA CalledOnce ==
  ASSUME Inv, est.pc = "call", Unlocked
  PROVE  /\ Entry \in Handles /\ MapOf(Entry) = WalkedMap(est.pass)
         /\ Item(WalkedMap(est.pass), est.p + 1, Entry) /\ Find(Entry)
         /\ \A j : Item(WalkedMap(est.pass), j, Entry) => j = est.p + 1
         /\ \A mm, j, h : Item(mm, j, h)' <=> Item(mm, j, h)
         /\ \A h : Find(h)' <=> Find(h)
         /\ owner[Entry] = "est"
         /\ owner' \in [Handles -> {"none", "net", "est"}]
         /\ est' \in EstStates
         /\ est'.pc = "walk" /\ est'.pass = est.pass
         /\ est'.timestamp = est.timestamp /\ est'.count = est.count
         /\ est'.p = est.p + 1 /\ est.p \in Nat /\ est.count \in Nat
         /\ est.p + 1 <= est.count
         /\ UNCHANGED <<now, m_MapIterate, m_MapIteratePos, net>>
         /\ MapsGrow /\ MapInv' /\ LockInv'
<1> DEFINE m == WalkedMap(est.pass)
<1>1. /\ owner' = [owner EXCEPT ![Entry] = "none"]
      /\ est' = [est EXCEPT !.pc = "walk", !.p = est.p + 1]
      /\ UNCHANGED <<now, m_MapIterate, m_MapIteratePos, net>>
  BY DEF Unlocked, EstUnchanged, maps
<1>2. /\ est \in EstStates
      /\ m \in Maps /\ m_MapIterate[m] \in Seq(Handles)
      /\ "walk" \in EstPcs
      /\ owner \in [Handles -> {"none", "net", "est"}]
  BY DEF Inv, Types, WalkedMap, Maps, EstPcs
<1>3. /\ est.p < est.count /\ Item(m, est.p + 1, Entry)
      /\ owner[Entry] = "est"
  BY DEF Inv, LockInv
<1>4. est.p \in Nat /\ est.count \in Nat /\ est.p + 1 <= est.count
      /\ est.p + 1 \in Nat
  BY <1>2, <1>3 DEF NetStates, EstStates
<1>5. /\ est' \in EstStates
      /\ est'.pc = "walk" /\ est'.pass = est.pass
      /\ est'.timestamp = est.timestamp /\ est'.count = est.count
      /\ est'.p = est.p + 1
  BY <1>1, <1>2, <1>4 DEF EstStates
<1>6. Entry \in Handles /\ MapOf(Entry) = m
      /\ \A j : Item(m, j, Entry) => j = est.p + 1
  BY <1>2, <1>3 DEF Inv, MapInv, ItemsInv, Item
<1>7. Find(Entry)
  BY <1>3, <1>4, <1>6, FindIsItem DEF Inv
<1>8. owner' \in [Handles -> {"none", "net", "est"}]
      /\ \A h \in Handles : owner[h] = "net" => owner'[h] = "net"
  BY <1>1, <1>2, <1>3
<1>9. /\ MapInv' /\ MapsGrow
      /\ \A h : Find(h)' <=> Find(h)
      /\ \A mm, j, h : Item(mm, j, h)' <=> Item(mm, j, h)
      /\ net'.pc \in {"storetag", "sighting", "storeprox", "sighted"} =>
           owner'[<<Me'>>] = "net"
      /\ net'.pc \in {"storeprox", "sighted"} => owner'[Pair'] = "net"
  BY <1>1, <1>8, ReceiverKept
<1>10. LockInv'
  BY <1>4, <1>5, <1>9 DEF LockInv
<1>11. QED
  BY <1>1, <1>3, <1>4, <1>5, <1>6, <1>7, <1>8, <1>9, <1>10

(* The item of the walks over the tags is that of a tag, the other's that   *)
(* of a pair.                                                               *)
LEMMA EntryIs ==
  ASSUME Inv, Entry \in Handles, MapOf(Entry) = WalkedMap(est.pass)
  PROVE  /\ est.pass = "edges" => Entry \in Pairs
         /\ est.pass # "edges" => Entry[1] \in Tags /\ Entry = <<Entry[1]>>
<1>1. Entry \in Pairs => MapOf(Entry) = "proximity"
  BY MapOfHandles
<1>2. \A uid \in Tags : Entry = <<uid>> => MapOf(Entry) = "tag"
  BY MapOfHandles
<1>3. \/ Entry \in Pairs
      \/ \E uid \in Tags : Entry = <<uid>>
  BY DEF Handles, TagHandles
<1>4. \A uid \in Tags : Entry = <<uid>> => Entry[1] = uid
  OBVIOUS
<1>5. QED
  BY <1>1, <1>2, <1>3, <1>4 DEF WalkedMap

(* What the tag's callback of the first walk does. *)
LEMMA ResetTagInv ==
  ASSUME Inv, ResetTag
  PROVE  Inv'
<1>1. /\ est.pc = "call" /\ est.pass = "reset" /\ Unlocked
      /\ tag' = [tag EXCEPT ![Entry[1]].Fcount = 0]
      /\ UNCHANGED <<prox, edges, live>>
  BY DEF ResetTag, report
<1>2. /\ Entry \in Handles /\ MapOf(Entry) = WalkedMap(est.pass)
      /\ \A mm, j, h : Item(mm, j, h)' <=> Item(mm, j, h)
      /\ \A h : Find(h)' <=> Find(h)
      /\ Item(WalkedMap(est.pass), est.p + 1, Entry)
      /\ owner' \in [Handles -> {"none", "net", "est"}]
      /\ est' \in EstStates
      /\ est'.pc = "walk" /\ est'.pass = est.pass
      /\ est'.timestamp = est.timestamp /\ est'.count = est.count
      /\ est'.p = est.p + 1 /\ est.p \in Nat /\ est.count \in Nat
      /\ UNCHANGED <<now, m_MapIterate, m_MapIteratePos, net>>
      /\ MapsGrow /\ MapInv' /\ LockInv'
  BY <1>1, CalledOnce
<1>3. Entry[1] \in Tags /\ Entry = <<Entry[1]>>
  BY <1>1, <1>2, EntryIs
<1>4. /\ tag' \in [Tags -> TagStates]
      /\ tag'[Entry[1]].Fcount = 0
      /\ \A uid \in Tags : uid # Entry[1] => tag'[uid] = tag[uid]
      /\ \A uid \in Tags : tag[uid].calibrated => tag'[uid].calibrated
  BY <1>1, <1>3 DEF Inv, Types, TagStates
<1>5. Types'
  BY <1>1, <1>2, <1>4 DEF Inv, Types, Slot
<1>6. ClockInv'
  BY <1>1, <1>2 DEF Inv, ClockInv
<1>7. ProxInv'
  BY <1>1, <1>2, <1>4, ProxKept
<1>8. ASSUME NEW uid \in Tags, tag'[uid].Fcount # 0
      PROVE  /\ Find(<<uid>>)'
             /\ \E j \in est'.p + 1 .. est'.count : Item("tag", j, <<uid>>)'
  <2>1. uid # Entry[1] /\ tag[uid].Fcount # 0
    BY <1>4, <1>8
  <2>2. PICK j \in est.p + 1 .. est.count : Item("tag", j, <<uid>>)
    BY <1>1, <2>1 DEF Inv, ResetInv, Walking
  <2>3. Item("tag", est.p + 1, Entry)
    BY <1>1, <1>2 DEF WalkedMap
  <2>4. <<uid>> # Entry
    BY <1>3, <2>1
  <2>5. j # est.p + 1
    BY <2>2, <2>3, <2>4 DEF Item
  <2>6. j \in est'.p + 1 .. est'.count
    BY <1>2, <2>2, <2>5
  <2>7. Find(<<uid>>)
    BY <2>1 DEF Inv, ResetInv
  <2>8. QED
    BY <1>2, <2>2, <2>6, <2>7
<1>9. ResetInv'
  BY <1>1, <1>2, <1>8 DEF Inv, ResetInv
<1>10. ForceInv' /\ EdgeInv'
  BY <1>1, <1>2 DEF ForceInv, EdgeInv, Walking
<1>11. QED
  BY <1>2, <1>5, <1>6, <1>7, <1>9, <1>10 DEF Inv

(* The proximity that the walk has come to is in order: the receiver does   *)
(* not work on it.                                                          *)
LEMMA EntrySane ==
  ASSUME Inv, est.pc = "call", est.pass = "edges", Entry \in Pairs, Find(Entry)
  PROVE  /\ Sane(Entry) /\ prox[Entry] \in Proximities
         /\ \A uid \in {prox[Entry].tag1p, prox[Entry].tag2p} \ {0} :
              Find(<<uid>>)
<1>1. owner[Entry] = "est"
  BY DEF Inv, LockInv
<1>2. net.pc = "sighted" => owner[Pair] = "net"
  BY DEF Inv, LockInv
<1>3. QED
  BY <1>1, <1>2 DEF Inv, ProxInv, Types

(* An edge that expired is erased. *)
LEMMA EraseEdgeInv ==
  ASSUME Inv, EraseEdge
  PROVE  Inv'
<1> DEFINE r == [prox[Entry] EXCEPT !.last_seen = 0, !.fifo_pos = 0,
                                    !.fifo = EmptyFifo]
<1>1. /\ est.pc = "call" /\ est.pass = "edges" /\ ~Live(prox[Entry]) /\ Unlocked
      /\ UNCHANGED <<tag, edges, live>>
  BY DEF EraseEdge, report
<1>2. /\ Entry \in Handles /\ MapOf(Entry) = WalkedMap(est.pass)
      /\ Item(WalkedMap(est.pass), est.p + 1, Entry) /\ Find(Entry)
      /\ \A mm, j, h : Item(mm, j, h)' <=> Item(mm, j, h)
      /\ \A h : Find(h)' <=> Find(h)
      /\ owner[Entry] = "est"
      /\ owner' \in [Handles -> {"none", "net", "est"}]
      /\ est' \in EstStates
      /\ est'.pc = "walk" /\ est'.pass = est.pass
      /\ est'.timestamp = est.timestamp /\ est'.count = est.count
      /\ est'.p = est.p + 1 /\ est.p \in Nat /\ est.count \in Nat
      /\ UNCHANGED <<now, m_MapIterate, m_MapIteratePos, net>>
      /\ MapsGrow /\ MapInv' /\ LockInv'
  BY <1>1, CalledOnce
<1>3. Entry \in Pairs
  BY <1>1, <1>2, EntryIs
<1>4. /\ Sane(Entry) /\ prox[Entry] \in Proximities
      /\ \A uid \in {prox[Entry].tag1p, prox[Entry].tag2p} \ {0} : Find(<<uid>>)
  BY <1>1, <1>2, <1>3, EntrySane
<1>5. EmptyFifo \in [Positions -> Nat] /\ 0 \in Positions
  BY Constants DEF EmptyFifo, Positions
<1>6. /\ r \in Proximities /\ r.last_seen = 0 /\ r.fifo = EmptyFifo
      /\ r.tag1p = prox[Entry].tag1p /\ r.tag2p = prox[Entry].tag2p
      /\ r.calibrated = prox[Entry].calibrated
  BY <1>4, <1>5 DEF Proximities
<1>7. prox \in [Pairs -> Proximities]
  BY DEF Inv, Types
<1>8. prox' = [prox EXCEPT ![Entry] = r]
  <2>1. prox' = [prox EXCEPT ![Entry].last_seen = 0, ![Entry].fifo_pos = 0,
                             ![Entry].fifo = EmptyFifo]
    BY DEF EraseEdge
  <2>2. QED
    BY <1>3, <1>4, <1>7, <2>1 DEF Proximities
<1> HIDE DEF r
<1>9. /\ prox' \in [Pairs -> Proximities] /\ prox'[Entry] = r
      /\ \A pair \in Pairs : pair # Entry => prox'[pair] = prox[pair]
  BY <1>3, <1>6, <1>7, <1>8
<1>10. Types'
  BY <1>1, <1>2, <1>9 DEF Inv, Types, Slot
<1>11. ClockInv'
  <2>1. now \in START .. MAX_TIME /\ now \in Nat /\ 0 <= now
    BY Constants DEF Inv, ClockInv
  <2>2. net.pc # "recv" => 0 <= net.timestamp
    BY DEF Inv, Types, NetStates
  <2>3. \A pair \in Pairs : \/ prox'[pair].last_seen = 0
                            \/ prox'[pair].last_seen = prox[pair].last_seen
    BY <1>6, <1>9
  <2>4. QED
    BY <1>2, <2>1, <2>2, <2>3 DEF Inv, ClockInv
<1>12. ProxInv'
  <2>1. \A back \in 1 .. MAX_PROXIMITY_SLOTS : At(r, back) = 0
    BY <1>6, EmptyBack
  <2>2. 1 \in 1 .. MAX_PROXIMITY_SLOTS
        /\ \A back \in 1 .. MAX_PROXIMITY_SLOTS - 1 :
             back + 1 \in 1 .. MAX_PROXIMITY_SLOTS
    BY Constants
  <2>3. At(r, 1) = r.last_seen
        /\ \A back \in 1 .. MAX_PROXIMITY_SLOTS - 1 : At(r, back + 1) = 0
    <3>1. At(r, 1) = r.last_seen
      BY <1>6, <2>1, <2>2
    <3>2. ASSUME NEW back \in 1 .. MAX_PROXIMITY_SLOTS - 1
          PROVE  At(r, back + 1) = 0
      <4>1. back + 1 \in 1 .. MAX_PROXIMITY_SLOTS
        BY <2>2
      <4>2. QED
        BY <2>1, <4>1
    <3>3. QED
      BY <3>1, <3>2
  <2>4. ASSUME NEW pair \in Pairs, pair = Entry
        PROVE  Sane(pair)'
    <3>1. /\ r.tag1p \in {0, pair[1]} /\ r.tag2p \in {0, pair[2]}
          /\ r.tag1p # 0 \/ r.tag2p # 0
          /\ r.calibrated => r.tag1p # 0 /\ r.tag2p # 0
               /\ tag'[r.tag1p].calibrated /\ tag'[r.tag2p].calibrated
      BY <1>1, <1>4, <1>6, <2>4 DEF Sane
    <3>2. prox'[pair] = r
      BY <1>9, <2>4
    <3>3. QED
      BY <2>3, <3>1, <3>2 DEF Sane, At
  <2>5. Pair' = Pair
    BY <1>2 DEF Pair, Me
  <2>6. ASSUME NEW pair \in Pairs
        PROVE  /\ ~Find(pair)' => prox'[pair] = NoProx
               /\ Find(pair)' =>
                    \/ Sane(pair)'
                    \/ /\ net'.pc = "sighted" /\ pair = Pair'
                       /\ prox'[pair] = NoProx
               /\ \A uid \in {prox'[pair].tag1p, prox'[pair].tag2p} \ {0} :
                    Find(<<uid>>)'
    <3>1. CASE pair = Entry
      BY <1>2, <1>4, <1>6, <1>9, <2>4, <3>1
    <3>2. CASE pair # Entry
      <4>1. /\ ~Find(pair) => prox[pair] = NoProx
            /\ Find(pair) =>
                 \/ Sane(pair)
                 \/ net.pc = "sighted" /\ pair = Pair /\ prox[pair] = NoProx
            /\ \A uid \in {prox[pair].tag1p, prox[pair].tag2p} \ {0} :
                 Find(<<uid>>)
        BY DEF Inv, ProxInv
      <4>2. Sane(pair) => Sane(pair)'
        BY <1>1, <1>9, <3>2 DEF Sane, At
      <4>3. QED
        BY <1>2, <1>9, <2>5, <3>2, <4>1, <4>2
    <3>3. QED
      BY <3>1, <3>2
  <2>7. QED
    BY <2>6 DEF ProxInv
<1>13. ResetInv'
  BY <1>1, <1>2 DEF Inv, ResetInv, Walking
<1>14. ForceInv'
  BY <1>1, <1>2 DEF Inv, ForceInv, Walking
<1>15. EdgeInv'
  <2>1. Item("proximity", est.p + 1, Entry) /\ Walking("edges")
    BY <1>1, <1>2 DEF WalkedMap, Walking
  <2>2. ASSUME NEW e \in edges
        PROVE  \E j \in 1 .. est'.p : Item("proximity", j, e.pair)'
    <3>1. PICK j \in 1 .. est.p : Item("proximity", j, e.pair)
      BY <2>1 DEF Inv, EdgeInv
    <3>2. j \in 1 .. est'.p
      BY <1>2, <3>1
    <3>3. QED
      BY <1>2, <3>1, <3>2
  <2>3. ASSUME NEW pair \in live, ~\E e \in edges : e.pair = pair
        PROVE  /\ pair \in Pairs /\ Live(prox[pair])'
               /\ \E j \in est'.p + 1 .. est'.count :
                    Item("proximity", j, pair)'
    <3>1. pair \in Pairs /\ Live(prox[pair])
          /\ \E j \in est.p + 1 .. est.count : Item("proximity", j, pair)
      BY <2>1, <2>3 DEF Inv, EdgeInv
    <3>2. PICK j \in est.p + 1 .. est.count : Item("proximity", j, pair)
      BY <3>1
    <3>3. pair # Entry
      BY <1>1, <3>1
    <3>4. j # est.p + 1
      BY <2>1, <3>2, <3>3 DEF Item
    <3>5. j \in est'.p + 1 .. est'.count
      BY <1>2, <3>2, <3>4
    <3>6. Live(prox[pair])'
      BY <1>2, <1>9, <3>1, <3>3 DEF Live, Age
    <3>7. QED
      BY <1>2, <3>1, <3>2, <3>5, <3>6
  <2>4. QED
    BY <1>1, <1>2, <2>2, <2>3 DEF EdgeInv, Walking
<1>16. QED
  BY <1>2, <1>10, <1>11, <1>12, <1>13, <1>14, <1>15 DEF Inv

(* An edge that is live has a recent sighting, and each edge is printed     *)
(* once, so that the count of the tag it pushes is that of its edges again. *)
LEMMA PrintEdgeInv ==
  ASSUME Inv, PrintEdge
  PROVE  Inv'
<1> DEFINE p == prox[Entry]
           pushed == Pushed(p)
           new == [pair |-> Entry, pushed |-> pushed]
<1>1. /\ est.pc = "call" /\ est.pass = "edges" /\ Live(p) /\ Unlocked
      /\ \/ Recent(p) = {}
         \/ /\ tag' = [uid \in Tags |-> [tag[uid] EXCEPT
                         !.Fcount = IF uid \in pushed THEN @ + 1 ELSE @]]
            /\ edges' = edges \cup {new}
      /\ UNCHANGED <<prox, live>>
  BY DEF PrintEdge
<1>2. /\ Entry \in Handles /\ MapOf(Entry) = WalkedMap(est.pass)
      /\ Item(WalkedMap(est.pass), est.p + 1, Entry) /\ Find(Entry)
      /\ \A j : Item(WalkedMap(est.pass), j, Entry) => j = est.p + 1
      /\ \A mm, j, h : Item(mm, j, h)' <=> Item(mm, j, h)
      /\ \A h : Find(h)' <=> Find(h)
      /\ owner' \in [Handles -> {"none", "net", "est"}]
      /\ est' \in EstStates
      /\ est'.pc = "walk" /\ est'.pass = est.pass
      /\ est'.timestamp = est.timestamp /\ est'.count = est.count
      /\ est'.p = est.p + 1 /\ est.p \in Nat /\ est.count \in Nat
      /\ UNCHANGED <<now, m_MapIterate, m_MapIteratePos, net>>
      /\ MapsGrow /\ MapInv' /\ LockInv'
  BY <1>1, CalledOnce
<1>3. Entry \in Pairs
  BY <1>1, <1>2, EntryIs
<1>4. /\ Sane(Entry) /\ p \in Proximities
      /\ \A uid \in {p.tag1p, p.tag2p} \ {0} : Find(<<uid>>)
  BY <1>1, <1>2, <1>3, EntrySane
<1>5. Recent(p) # {}
  <2> DEFINE s == (p.fifo_pos + 2 * MAX_PROXIMITY_SLOTS - 1)
                    % MAX_PROXIMITY_SLOTS
  <2>1. s \in Positions
    BY <1>4, Constants, SlotBack DEF Proximities
  <2>2. p.fifo[s] = p.last_seen
    BY <1>4 DEF Sane, At
  <2>3. /\ DOMAIN p.fifo = Positions /\ p.last_seen \in Nat
        /\ est.timestamp \in Nat
    BY <1>4 DEF Proximities, Inv, Types, EstStates
  <2> HIDE DEF s
  <2>4. s \in Recent(p)
    BY <1>1, <2>1, <2>2, <2>3, Constants DEF Recent, Live, Age
  <2>5. QED
    BY <2>4
<1>6. /\ pushed \subseteq Tags
      /\ \A uid \in pushed : Find(<<uid>>)
  BY <1>4 DEF Pushed, Proximities
<1> HIDE DEF pushed
<1>7. /\ tag \in [Tags -> TagStates]
      /\ edges \subseteq [pair : Pairs, pushed : SUBSET Tags]
      /\ IsFiniteSet(edges)
  BY DEF Inv, Types
<1>8. /\ tag' \in [Tags -> TagStates]
      /\ \A uid \in Tags :
           /\ uid \in pushed => tag'[uid].Fcount = tag[uid].Fcount + 1
           /\ uid \notin pushed => tag'[uid].Fcount = tag[uid].Fcount
           /\ tag[uid].calibrated => tag'[uid].calibrated
  <2>1. tag' = [uid \in Tags |-> [tag[uid] EXCEPT
                  !.Fcount = IF uid \in pushed THEN tag[uid].Fcount + 1
                             ELSE tag[uid].Fcount]]
    BY <1>1, <1>5
  <2>2. QED
    BY <1>7, <2>1 DEF TagStates
<1>9. edges' = edges \cup {new} /\ new.pair = Entry /\ new.pushed = pushed
  BY <1>1, <1>5
<1>10. new \in [pair : Pairs, pushed : SUBSET Tags]
  BY <1>3, <1>6
<1> HIDE DEF new
<1>11. Item("proximity", est.p + 1, Entry) /\ Walking("edges")
  BY <1>1, <1>2 DEF WalkedMap, Walking
<1>12. new \notin edges
  <2>1. \A j \in 1 .. est.p : j # est.p + 1
    BY <1>2
  <2>2. \A e \in edges : e.pair # Entry
    BY <1>1, <1>2, <1>11, <2>1 DEF Inv, EdgeInv, WalkedMap
  <2>3. QED
    BY <1>9, <2>2
<1>13. Types'
  <2>1. IsFiniteSet(edges')
    BY <1>7, <1>9, FS_AddElement
  <2>2. QED
    BY <1>1, <1>2, <1>7, <1>8, <1>9, <1>10, <2>1 DEF Inv, Types, Slot
<1>14. ClockInv'
  BY <1>1, <1>2 DEF Inv, ClockInv
<1>15. ProxInv'
  BY <1>1, <1>2, <1>8, ProxKept
<1>16. ResetInv'
  <2>1. \A uid \in Tags : tag'[uid].Fcount # 0 => Find(<<uid>>)'
    BY <1>2, <1>6, <1>8 DEF Inv, ResetInv
  <2>2. QED
    BY <1>1, <1>2, <2>1 DEF ResetInv, Walking
<1>17. ForceInv'
  <2> SUFFICES ASSUME NEW uid \in Tags
               PROVE  tag'[uid].Fcount =
                        Cardinality({e \in edges' : uid \in e.pushed})
    BY DEF ForceInv
  <2> DEFINE S == {e \in edges : uid \in e.pushed}
             T == {e \in edges' : uid \in e.pushed}
  <2>1. tag[uid].Fcount = Cardinality(S)
    BY <1>11 DEF Inv, ForceInv
  <2>2. IsFiniteSet(S)
    BY <1>7, FS_Subset
  <2>3. CASE uid \in pushed
    <3>1. T = S \cup {new} /\ new \notin S
      BY <1>9, <1>12, <2>3
    <3>2. Cardinality(T) = Cardinality(S) + 1
      BY <2>2, <3>1, FS_AddElement
    <3>3. QED
      BY <1>8, <2>1, <2>3, <3>2
  <2>4. CASE uid \notin pushed
    <3>1. T = S
      BY <1>9, <2>4
    <3>2. QED
      BY <1>8, <2>1, <2>4, <3>1
  <2>5. QED
    BY <2>3, <2>4
<1>18. EdgeInv'
  <2>1. ASSUME NEW e \in edges'
        PROVE  \E j \in 1 .. est'.p : Item("proximity", j, e.pair)'
    <3>1. CASE e = new
      <4>1. est.p + 1 \in 1 .. est'.p
        BY <1>2
      <4>2. QED
        BY <1>2, <1>9, <1>11, <3>1, <4>1
    <3>2. CASE e \in edges
      <4>1. PICK j \in 1 .. est.p : Item("proximity", j, e.pair)
        BY <1>11, <3>2 DEF Inv, EdgeInv
      <4>2. j \in 1 .. est'.p
        BY <1>2, <4>1
      <4>3. QED
        BY <1>2, <4>1, <4>2
    <3>3. QED
      BY <1>9, <2>1, <3>1, <3>2
  <2>2. ASSUME NEW pair \in live, ~\E e \in edges' : e.pair = pair
        PROVE  /\ pair \in Pairs /\ Live(prox[pair])'
               /\ \E j \in est'.p + 1 .. est'.count :
                    Item("proximity", j, pair)'
    <3>1. pair # Entry /\ ~\E e \in edges : e.pair = pair
      BY <1>9, <2>2
    <3>2. pair \in Pairs /\ Live(prox[pair])
          /\ \E j \in est.p + 1 .. est.count : Item("proximity", j, pair)
      BY <1>11, <2>2, <3>1 DEF Inv, EdgeInv
    <3>3. PICK j \in est.p + 1 .. est.count : Item("proximity", j, pair)
      BY <3>2
    <3>4. j # est.p + 1
      BY <1>11, <3>1, <3>3 DEF Item
    <3>5. j \in est'.p + 1 .. est'.count
      BY <1>2, <3>3, <3>4
    <3>6. Live(prox[pair])'
      BY <1>1, <1>2, <3>2 DEF Live, Age
    <3>7. QED
      BY <1>2, <3>2, <3>3, <3>5, <3>6
  <2>3. QED
    BY <1>1, <1>2, <2>1, <2>2 DEF EdgeInv, Walking
<1>19. QED
  BY <1>2, <1>13, <1>14, <1>15, <1>16, <1>17, <1>18 DEF Inv

(* A tag is printed. *)
LEMMA PrintTagInv ==
  ASSUME Inv, PrintTag
  PROVE  Inv'
<1>1. /\ est.pc = "call" /\ est.pass = "tags" /\ Unlocked
      /\ UNCHANGED <<tag, prox, edges, live>>
  BY DEF PrintTag, report
<1>2. /\ \A h : Find(h)' <=> Find(h)
      /\ owner' \in [Handles -> {"none", "net", "est"}]
      /\ est' \in EstStates
      /\ est'.pc = "walk" /\ est'.pass = est.pass
      /\ UNCHANGED <<now, m_MapIterate, m_MapIteratePos, net>>
      /\ MapsGrow /\ MapInv' /\ LockInv'
  BY <1>1, CalledOnce
<1>3. Types'
  BY <1>1, <1>2 DEF Inv, Types, Slot
<1>4. ClockInv'
  BY <1>1, <1>2 DEF Inv, ClockInv
<1>5. ProxInv'
  BY <1>1, <1>2, ProxKept
<1>6. ResetInv'
  BY <1>1, <1>2 DEF Inv, ResetInv, Walking
<1>7. ForceInv'
  BY <1>1, <1>2 DEF Inv, ForceInv, Walking
<1>8. EdgeInv'
  BY <1>1, <1>2 DEF Inv, EdgeInv, Walking
<1>9. QED
  BY <1>2, <1>3, <1>4, <1>5, <1>6, <1>7, <1>8 DEF Inv

-----------------------------------------------------------------------------
(* The invariant is kept by every step. *)
LEMMA InvNext ==
  ASSUME Inv, [Next]_vars
  PROVE  Inv'
<1>1. CASE UNCHANGED vars
  BY <1>1, InvStutter DEF vars, maps, report
<1>2. CASE Process
  BY <1>2, AddTagInv, StoreTagInv, AddProxInv, StoreProxInv, SightedInv,
     UnlockTagInv DEF Process
<1>3. CASE Estimate
  <2>1. CASE NullPointer
    BY <2>1, InvStutter DEF NullPointer, EstUnchanged, maps, report
  <2>2. CASE Callback
    BY <2>2, ResetTagInv, EraseEdgeInv, PrintEdgeInv, PrintTagInv DEF Callback
  <2>3. QED
    BY <1>3, <2>1, <2>2, WakeUpInv, LockTaken, NextPassInv, EndStepInv
       DEF Estimate
<1>4. CASE \E time \in now .. MAX_TIME :
             BeginStep(time) \/ \E track \in Packets : Receive(track, time)
  BY <1>4, BeginStepInv, ReceiveInv
<1>5. QED
  BY <1>1, <1>2, <1>3, <1>4 DEF Next

(* The inductive invariant holds in every reachable state: the maps, the    *)
(* locks of both threads and the walk over items that are only added to     *)
(* (main.cpp, bmMapHandleToItem.cpp).                                       *)
THEOREM InvariantOfTheServer == Spec => []Inv
<1>1. Init => Inv
  BY InvInit
<1>2. Inv /\ [Next]_vars => Inv'
  BY InvNext
<1>3. QED
  BY <1>1, <1>2, PTL DEF Spec

(* Tags, proximities, maps and locks stay in their ranges, for any number   *)
(* of tags and packets; each map holds the items of its own kind.           *)
THEOREM TypesOfTheServer == Spec => []TypeOK
<1>1. ASSUME Inv
      PROVE  TypeOK
  <2>1. Types /\ ClockInv /\ ItemsInv /\ est.p <= est.count
    BY <1>1 DEF Inv, MapInv, LockInv
  <2>2. DOMAIN EmptyFifo = Positions
    BY DEF EmptyFifo, Positions
  <2>3. ASSUME NEW pair \in Pairs
        PROVE  /\ prox[pair].fifo_pos \in DOMAIN EmptyFifo
               /\ prox[pair].fifo \in [DOMAIN EmptyFifo -> Nat]
               /\ {prox[pair].tag1p, prox[pair].tag2p} \subseteq Tags \cup {0}
    BY <2>1, <2>2 DEF Types, Proximities
  <2>4. ASSUME NEW m \in Maps
        PROVE  ToSet(m_MapIterate[m]) \subseteq {h \in Handles : MapOf(h) = m}
    <3>1. m_MapIterate[m] \in Seq(Handles)
          /\ DOMAIN m_MapIterate[m] = 1 .. Len(m_MapIterate[m])
      BY <2>1 DEF Types
    <3>2. \A j \in 1 .. Len(m_MapIterate[m]) :
            m_MapIterate[m][j] \in {h \in Handles : MapOf(h) = m}
      BY <2>1, <3>1 DEF ItemsInv
    <3>3. QED
      BY <3>1, <3>2 DEF ToSet
  <2>5. est.p \in 0 .. est.count
    BY <2>1 DEF Types, EstStates
  <2>6. QED
    BY <2>1, <2>3, <2>4, <2>5 DEF TypeOK, Types, ClockInv, TagStates
<1>2. QED
  BY <1>1, InvariantOfTheServer, PTL

(* A proximity that no thread works on points to its own tags, to the       *)
(* sender at least, counts as calibrated only when both tags are, and its   *)
(* newest sighting is the last one written, with no two neighbours an       *)
(* aggregation time apart - whichever thread erased it last (main.cpp       *)
(* 206-257, 498-504).                                                       *)
THEOREM ProximitiesAreInOrder == Spec => []ProximityInv
<1>1. ASSUME Inv
      PROVE  ProximityInv
  <2>1. ASSUME NEW pair \in Pairs, Find(pair), owner[pair] = "none"
        PROVE  Sane(pair)
    <3>1. net.pc = "sighted" => owner[Pair] = "net"
      BY <1>1 DEF Inv, LockInv
    <3>2. QED
      BY <1>1, <2>1, <3>1 DEF Inv, ProxInv
  <2>2. QED
    BY <2>1 DEF ProximityInv, Sane, At
<1>2. QED
  BY <1>1, InvariantOfTheServer, PTL

(* While a report prints its tags, the force on each is the number of the   *)
(* edges of this report that push it, although the second walk writes to    *)
(* tags that it has not locked (main.cpp 447-448, 539-543, 580-588).        *)
THEOREM ForcesAreOfThisReport == Spec => []ForcesOfThisReport
<1>1. ASSUME Inv
      PROVE  ForcesOfThisReport
  <2>1. Complete => Walking("tags")
    BY <1>1 DEF Complete, Walking, Inv, Types, ResetInv, EstPcs,
           EstStates
  <2>2. QED
    BY <1>1, <2>1 DEF ForcesOfThisReport, Inv, ForceInv
<1>2. QED
  BY <1>1, InvariantOfTheServer, PTL

(* No pair that was live when the walk over the edges began is missing from *)
(* the report, though the receiver adds and refreshes pairs during the walk *)
(* (main.cpp 497-504, 529-531; bmMapHandleToItem.cpp 204-213).              *)
THEOREM NoLiveEdgeIsMissing == Spec => []LiveEdgesReported
<1>1. ASSUME Inv
      PROVE  LiveEdgesReported
  <2>1. Complete => Walking("tags")
    BY <1>1 DEF Complete, Walking, Inv, Types, ResetInv, EstPcs,
           EstStates
  <2>2. QED
    BY <1>1, <2>1 DEF LiveEdgesReported, Inv, EdgeInv
<1>2. QED
  BY <1>1, InvariantOfTheServer, PTL
=============================================================================
