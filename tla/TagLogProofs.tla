---------------------------- MODULE TagLogProofs ----------------------------
(***************************************************************************)
(* Proofs about TagLog, for flashes, pages, entries and encoder buffers of *)
(* any size, any compression ratio and any number of restarts.             *)
(***************************************************************************)
EXTENDS TagLog, SequenceLemmas

Logging == pc \in {"read", "sink", "poll", "write"}

(* The loops of log_process: the encoder has room for input where input is  *)
(* stored, the page has room for output where output is polled, there is    *)
(* output only when there is enough input, and only a start of the tag      *)
(* resets the encoder.                                                      *)
EncoderInv ==
  /\ pc \in {"read", "sink"} => hse.state = "NOT_FULL"
  /\ pc \in {"read", "sink", "poll"} => g_log_page_pos < BUFFER
  /\ pc = "write" => g_log_page_pos = BUFFER
  /\ hse.state = "NOT_FULL" => hse.drain = 0
  /\ stream = boots

(* What log_scan_for_first_free_page takes for free. *)
IsFree(p) == flash[p].kind \in {"blank", "tornblank"}

(* The recorded pages come first; the next page to write is the first free  *)
(* one, and in the programmer, where an erase does not move it, at least    *)
(* none of those behind it is in use.                                       *)
SplitInv ==
  damaged = {} =>
    /\ \A p, q \in Pages : p < q /\ IsFree(p) => IsFree(q)
    /\ pc # "off" => \A p \in Pages : p >= g_page => IsFree(p)
    /\ Logging => g_page <= PAGES /\ \A p \in Pages : p < g_page => ~IsFree(p)

(* Only an interrupted programming leaves a page that looks free and is not. *)
HeadInv == ~BLANK_HEAD => \A p \in Pages : flash[p].kind # "tornblank"

(* No accident of either kind has spoilt a page that was in use or taken    *)
(* for free.                                                                *)
Intact == damaged = {} /\ ~BLANK_HEAD

(* The page before p is one of the same stream, and unit is the next. *)
Follows(p, unit) ==
  /\ p > 0 /\ flash[p - 1].kind = "page"
  /\ unit = <<flash[p - 1].data[1][1], flash[p - 1].data[1][2] + BUFFER>>

(* Every page holds consecutive units, from the first of a stream or from   *)
(* where the page before it ends.                                           *)
ChainInv ==
  Intact =>
    \A p \in {q \in Pages : flash[q].kind = "page"} :
      /\ \A n \in 1..BUFFER :
           flash[p].data[n] =
             <<flash[p].data[1][1], flash[p].data[1][2] + n - 1>>
      /\ IF flash[p].first THEN flash[p].data[1][2] = 0
                           ELSE Follows(p, flash[p].data[1])

(* So does the page that is being filled. *)
BufferInv ==
  Logging =>
    /\ hse.next >= g_log_page_pos
    /\ \A n \in 1..BUFFER :
         n <= g_log_page_pos =>
           buffer[n] = <<stream, hse.next - g_log_page_pos + n - 1>>
    /\ g_first => hse.next = g_log_page_pos
    /\ Intact /\ ~g_first =>
         Follows(g_page, <<stream, hse.next - g_log_page_pos>>)

(* The decoder of the host has got to the unit that the next page starts    *)
(* with, unless that page starts a group or the decoder has lost its stream *)
(* before.                                                                  *)
HostInv ==
  /\ pc \in {"wait", "press", "erasing", "dump"} => g_page <= PAGES
  /\ pc = "dump" /\ page < g_page /\ awake /\ Intact /\ host.ok
       /\ flash[page].kind = "page" =>
         \/ flash[page].first
         \/ <<host.stream, host.next>> = flash[page].data[1]

Inv ==
  /\ TypeOK /\ EncoderInv /\ SplitInv /\ HeadInv
  /\ ChainInv /\ BufferInv /\ HostInv

-----------------------------------------------------------------------------
(* Min returns the least of a set of them. *)
LEMMA MinIsLeast ==
  ASSUME NEW T \in SUBSET Nat, T # {}
  PROVE  Min(T) \in T /\ \A y \in T : Min(T) <= y
<1>1. \E x \in T : \A y \in T : x =< y
  BY LeastNat
<1>2. QED
  BY <1>1, Zenon DEF Min

(* The smaller of two. *)
LEMMA MinOfTwo ==
  ASSUME NEW a \in Nat, NEW b \in Nat
  PROVE  Min({a, b}) = IF a <= b THEN a ELSE b
<1>1. {a, b} \in SUBSET Nat /\ {a, b} # {}
  OBVIOUS
<1>2. Min({a, b}) \in {a, b} /\ \A y \in {a, b} : Min({a, b}) <= y
  BY <1>1, MinIsLeast
<1> DEFINE l == Min({a, b})
<1>3. l \in {a, b} /\ l <= a /\ l <= b
  BY <1>2
<1> HIDE DEF l
<1>4. l = IF a <= b THEN a ELSE b
  BY <1>3
<1>5. QED
  BY <1>4 DEF l

-----------------------------------------------------------------------------
(* What the decoder has made of the first n units of a page. *)
Decoded(hsd, data, g, m) ==
  g = [n \in 0..m |-> IF n = 0 THEN hsd ELSE DecodeUnit(g[n - 1], data[n])]

(* Its recursive definition defines a function. *)
LEMMA DecodingExists ==
  ASSUME NEW hsd, NEW data, NEW m \in Nat
  PROVE  \E g : Decoded(hsd, data, g, m)
<1> DEFINE T == {k \in Nat : ~ \E g : Decoded(hsd, data, g, k)}
<1>1. SUFFICES ASSUME T # {}
               PROVE  FALSE
  BY Zenon
<1>2. PICK k \in T : \A y \in T : k <= y
  BY <1>1, LeastNat
<1>3. k \in Nat /\ ~ \E g : Decoded(hsd, data, g, k)
  OBVIOUS
<1>4. CASE k = 0
  <2> DEFINE g == [n \in 0..0 |-> hsd]
  <2>1. g = [n \in 0..0 |->
               IF n = 0 THEN hsd ELSE DecodeUnit(g[n - 1], data[n])]
    OBVIOUS
  <2>2. Decoded(hsd, data, g, k)
    BY <1>4, <2>1, Zenon DEF Decoded
  <2>3. QED
    BY <1>3, <2>2
<1>5. CASE k # 0
  <2>1. k - 1 \in Nat /\ k - 1 \notin T
    BY <1>2, <1>3, <1>5
  <2>2. PICK f : Decoded(hsd, data, f, k - 1)
    BY <2>1
  <2>3. \A n \in 0 .. k - 1 :
           f[n] = IF n = 0 THEN hsd ELSE DecodeUnit(f[n - 1], data[n])
    BY <2>2, Zenon DEF Decoded
  <2> DEFINE g == [n \in 0..k |-> IF n <= k - 1 THEN f[n]
                                  ELSE DecodeUnit(f[k - 1], data[k])]
  <2>4. \A n \in 0..k :
           g[n] = IF n = 0 THEN hsd ELSE DecodeUnit(g[n - 1], data[n])
    <3>1. \A n \in 0..k : n <= k - 1 => g[n] = f[n]
      OBVIOUS
    <3>2. g[k] = DecodeUnit(f[k - 1], data[k])
      BY <1>3
    <3> HIDE DEF g
    <3> TAKE n \in 0..k
    <3>3. CASE n = 0
      BY <1>3, <1>5, <2>3, <3>1, <3>3
    <3>4. CASE n # 0 /\ n <= k - 1
      <4>1. n \in 0 .. k - 1 /\ n - 1 \in 0 .. k /\ n - 1 <= k - 1
        BY <1>3, <3>4
      <4>2. g[n] = f[n] /\ g[n - 1] = f[n - 1]
        BY <3>1, <3>4, <4>1
      <4>3. QED
        BY <2>3, <3>4, <4>1, <4>2
    <3>5. CASE n = k
      <4>1. g[k - 1] = f[k - 1]
        BY <1>3, <1>5, <3>1
      <4>2. QED
        BY <1>5, <3>2, <3>5, <4>1
    <3>6. QED
      BY <1>3, <3>3, <3>4, <3>5
  <2>5. g = [n \in 0..k |-> g[n]]
    OBVIOUS
  <2> HIDE DEF g
  <2>6. Decoded(hsd, data, g, k)
    BY <2>4, <2>5 DEF Decoded
  <2>7. QED
    BY <1>3, <2>6
<1>6. QED
  BY <1>4, <1>5

(* Decode follows it to the last unit. *)
LEMMA DecodeSteps ==
  ASSUME NEW hsd, NEW data
  PROVE  \E g : /\ g[0] = hsd
                /\ \A n \in 1..BUFFER : g[n] = DecodeUnit(g[n - 1], data[n])
                /\ Decode(hsd, data) = g[BUFFER]
<1>1. BUFFER \in Nat
  BY TagLogAssumption
<1> DEFINE g == CHOOSE h : Decoded(hsd, data, h, BUFFER)
<1>2. Decode(hsd, data) = g[BUFFER]
  BY Zenon DEF Decode, Decoded
<1>3. Decoded(hsd, data, g, BUFFER)
  BY <1>1, DecodingExists, Zenon
<1> HIDE DEF g
<1>4. \A n \in 0..BUFFER :
         g[n] = IF n = 0 THEN hsd ELSE DecodeUnit(g[n - 1], data[n])
  BY <1>3, Zenon DEF Decoded
<1>5. g[0] = hsd
  BY <1>1, <1>4
<1>6. \A n \in 1..BUFFER : g[n] = DecodeUnit(g[n - 1], data[n])
  BY <1>1, <1>4
<1>7. QED
  BY <1>2, <1>5, <1>6

(* A unit that is in order. *)
LEMMA UnitInOrder ==
  ASSUME NEW hsd, NEW s, NEW k \in Nat,
         hsd.ok, hsd.next = k, k = 0 \/ hsd.stream = s
  PROVE  DecodeUnit(hsd, <<s, k>>) = [ok |-> TRUE, stream |-> s, next |-> k + 1]
<1>1. <<s, k>>[1] = s /\ <<s, k>>[2] = k
  OBVIOUS
<1>2. QED
  BY <1>1, Zenon DEF DecodeUnit

(* A page that holds the units of stream s from the k-th on. *)
Consecutive(data, s, k) == \A n \in 1..BUFFER : data[n] = <<s, k + n - 1>>

(* A page that goes on where the decoder is. *)
LEMMA DecodeInOrder ==
  ASSUME NEW hsd, NEW data, NEW s, NEW k \in Nat,
         Consecutive(data, s, k),
         hsd.ok, hsd.next = k, k = 0 \/ hsd.stream = s
  PROVE  /\ Decode(hsd, data).ok
         /\ Decode(hsd, data).stream = s
         /\ Decode(hsd, data).next = k + BUFFER
<1>1. BUFFER \in Nat \ {0}
  BY TagLogAssumption
<1>2. PICK g : /\ g[0] = hsd
               /\ \A n \in 1..BUFFER : g[n] = DecodeUnit(g[n - 1], data[n])
               /\ Decode(hsd, data) = g[BUFFER]
  BY DecodeSteps
<1> DEFINE At(n) == g[n].ok /\ g[n].stream = s /\ g[n].next = k + n
           T == {n \in 1..BUFFER : ~At(n)}
<1>3. ASSUME NEW n \in 1..BUFFER, g[n - 1].ok, g[n - 1].next = k + n - 1,
             k + n - 1 = 0 \/ g[n - 1].stream = s
      PROVE  At(n)
  <2>1. k + n - 1 \in Nat /\ (k + n - 1) + 1 = k + n
    BY <1>1
  <2>2. g[n] = DecodeUnit(g[n - 1], <<s, k + n - 1>>)
    BY <1>2 DEF Consecutive
  <2>3. g[n] = [ok |-> TRUE, stream |-> s, next |-> (k + n - 1) + 1]
    BY <1>3, <2>1, <2>2, UnitInOrder
  <2>4. g[n].ok /\ g[n].stream = s /\ g[n].next = (k + n - 1) + 1
    BY <2>3
  <2>5. QED
    BY <2>1, <2>4
<1>4. T = {}
  <2>1. SUFFICES ASSUME T # {}
                 PROVE  FALSE
    BY Zenon
  <2>2. T \in SUBSET Nat
    BY <1>1
  <2> HIDE DEF At
  <2>3. PICK n \in T : \A y \in T : n <= y
    BY <2>1, <2>2, LeastNat
  <2>4. n \in 1..BUFFER /\ ~At(n)
    OBVIOUS
  <2>5. CASE n = 1
    <3>1. g[n - 1] = hsd /\ k + n - 1 = k
      BY <1>2, <2>5
    <3>2. QED
      BY <1>3, <2>4, <3>1
  <2>6. CASE n # 1
    <3>1. n - 1 \in 1..BUFFER /\ n - 1 \notin T
      BY <1>1, <2>3, <2>4, <2>6
    <3>2. At(n - 1)
      BY <3>1
    <3>3. g[n - 1].ok /\ g[n - 1].stream = s /\ g[n - 1].next = k + (n - 1)
      BY <3>2 DEF At
    <3>4. k + (n - 1) = k + n - 1
      BY <1>1, <2>4
    <3>5. QED
      BY <1>3, <2>4, <3>3, <3>4
  <2>7. QED
    BY <2>5, <2>6
<1>5. At(BUFFER)
  BY <1>1, <1>4
<1>6. QED
  BY <1>2, <1>5

(* A decoder that has lost its stream does not find back within a page. *)
LEMMA DecodeLost ==
  ASSUME NEW hsd, NEW data, ~hsd.ok
  PROVE  ~Decode(hsd, data).ok
<1>1. BUFFER \in Nat \ {0}
  BY TagLogAssumption
<1>2. PICK g : /\ g[0] = hsd
               /\ \A n \in 1..BUFFER : g[n] = DecodeUnit(g[n - 1], data[n])
               /\ Decode(hsd, data) = g[BUFFER]
  BY DecodeSteps
<1> DEFINE T == {n \in 0..BUFFER : g[n].ok}
<1>3. ~Garbled.ok
  BY DEF Garbled
<1>4. T = {}
  <2>1. SUFFICES ASSUME T # {}
                 PROVE  FALSE
    BY Zenon
  <2>2. T \in SUBSET Nat
    BY <1>1
  <2>3. PICK n \in T : \A y \in T : n <= y
    BY <2>1, <2>2, LeastNat
  <2>4. n \in 0..BUFFER /\ g[n].ok
    OBVIOUS
  <2>5. n # 0
    BY <1>2, <2>4
  <2>6. n \in 1..BUFFER /\ n - 1 \in 0..BUFFER /\ n - 1 \notin T
    BY <1>1, <2>3, <2>4, <2>5
  <2>7. ~g[n - 1].ok
    BY <2>6
  <2>8. g[n] = DecodeUnit(g[n - 1], data[n])
    BY <1>2, <2>6
  <2>9. g[n] = Garbled
    BY <2>7, <2>8, Zenon DEF DecodeUnit
  <2>10. QED
    BY <1>3, <2>4, <2>9
<1>5. ~g[BUFFER].ok
  BY <1>1, <1>4
<1>6. QED
  BY <1>2, <1>5

-----------------------------------------------------------------------------
(* The sizes. *)
LEMMA Sizes ==
  /\ PAGES \in Nat \ {0} /\ BUFFER \in Nat \ {0} /\ ENTRY \in Nat \ {0}
  /\ INPUT \in Nat \ {0} /\ MAX_BOOTS \in Nat \ {0}
  /\ LEFTOVER \in 0 .. INPUT - 1 /\ MAX_DRAIN \in Nat
  BY TagLogAssumption

(* A page knows what it is. *)
LEMMA Kinds ==
  /\ \A c \in PageStates : c.kind \in {"blank", "torn", "tornblank", "page"}
  /\ \A c \in PageStates : c.kind = "blank" => c = Blank
  /\ \A c \in PageStates : c.kind = "page" => c.first \in BOOLEAN
  /\ Blank.kind = "blank" /\ Torn.kind = "torn" /\ TornBlank.kind = "tornblank"
  /\ Blank \in PageStates /\ Torn \in PageStates /\ TornBlank \in PageStates
<1>1. Blank.kind = "blank" /\ Torn.kind = "torn" /\ TornBlank.kind = "tornblank"
  BY DEF Blank, Torn, TornBlank
<1>2. \A c \in PageStates : \/ c = Blank \/ c = Torn \/ c = TornBlank
                            \/ c.kind = "page" /\ c.first \in BOOLEAN
  BY DEF PageStates
<1>3. QED
  BY <1>1, <1>2 DEF PageStates

(* A page that is written holds what it is made of. *)
LEMMA PageFields ==
  ASSUME NEW first \in BOOLEAN, NEW data \in [1..BUFFER -> Units]
  PROVE  /\ Page(first, data) \in PageStates
         /\ Page(first, data).kind = "page"
         /\ Page(first, data).first = first
         /\ Page(first, data).data = data
  BY DEF Page, PageStates

(* The address of a page is its own. *)
LEMMA SeekIsPage ==
  ASSUME NEW p \in Pages
  PROVE  Seek(p) = p
  BY Sizes DEF Seek, Pages

(* There is a page at every address. *)
LEMMA SeekInFlash ==
  ASSUME NEW p \in Nat
  PROVE  Seek(p) \in Pages
  BY Sizes DEF Seek, Pages

(* Initially the flash is blank. *)
LEMMA InvInit ==
  ASSUME Init
  PROVE  Inv
<1>1. TypeOK
  <2>1. [n \in 1..BUFFER |-> NoUnit] \in [1..BUFFER -> Units]
    BY Sizes DEF NoUnit, Units
  <2>2. [p \in Pages |-> Blank] \in [Pages -> PageStates]
    BY Kinds
  <2>3. hse \in [state : {"NOT_FULL", "FILLED"}, input : 0..INPUT,
                 drain : 0..MAX_DRAIN, next : Nat]
    BY Sizes DEF Init
  <2>4. g_first \in BOOLEAN /\ awake \in BOOLEAN
    BY DEF Init
  <2>5. buffer \in [1..BUFFER -> Units] /\ flash \in [Pages -> PageStates]
    BY <2>1, <2>2 DEF Init
  <2>6. /\ g_page = 0 /\ g_log_page_pos = 0 /\ stream = 0 /\ ipos = 0
        /\ i = 0 /\ page = 0 /\ pc = "off" /\ boots = 0 /\ damaged = {}
    BY DEF Init
  <2>7. QED
    BY <2>3, <2>4, <2>5, <2>6, Sizes DEF TypeOK
<1>2. \A p \in Pages : flash[p].kind = "blank"
  BY Kinds DEF Init
<1>3. pc = "off" /\ stream = boots /\ hse.drain = 0
  BY DEF Init
<1>4. EncoderInv /\ BufferInv /\ HostInv
  BY <1>3 DEF EncoderInv, BufferInv, HostInv, Logging
<1>5. SplitInv /\ HeadInv /\ ChainInv
  BY <1>2, <1>3 DEF SplitInv, HeadInv, ChainInv, IsFree, Logging
<1>6. QED
  BY <1>1, <1>4, <1>5 DEF Inv

-----------------------------------------------------------------------------
(* The scan returns the first free page: with every page behind it free too *)
(* it splits the flash.                                                     *)
LEMMA ScanSplits ==
  ASSUME Inv
  PROVE  /\ ScanForFirstFreePage \in 0..PAGES
         /\ \A p \in Pages : p < ScanForFirstFreePage => ~IsFree(p)
         /\ damaged = {} =>
              \A p \in Pages : p >= ScanForFirstFreePage => IsFree(p)
<1> DEFINE T == {PAGES} \cup {p \in Pages : IsFree(p)}
           k == ScanForFirstFreePage
<1>1. k = Min(T)
  BY Zenon DEF ScanForFirstFreePage, IsFree
<1>2. T \in SUBSET Nat /\ T # {}
  BY Sizes DEF Pages
<1>3. k \in T /\ \A y \in T : k <= y
  BY <1>1, <1>2, MinIsLeast
<1> HIDE DEF k
<1>4. k \in 0..PAGES
  BY <1>3, Sizes DEF Pages
<1>5. \A p \in Pages : p < k => ~IsFree(p)
  BY <1>3, <1>4 DEF Pages
<1>6. ASSUME damaged = {}, NEW p \in Pages, p >= k
      PROVE  IsFree(p)
  <2>1. k \in Pages /\ IsFree(k)
    BY <1>3, <1>4, <1>6, Sizes DEF Pages
  <2>2. p = k \/ k < p
    BY <1>4, <1>6 DEF Pages
  <2>3. QED
    BY <1>6, <2>1, <2>2 DEF Inv, SplitInv
<1>7. QED
  BY <1>4, <1>5, <1>6 DEF k

(* The tag is powered up. *)
LEMMA PowerOnInv ==
  ASSUME Inv, NEW in_programmer \in BOOLEAN, PowerOn(in_programmer)
  PROVE  Inv'
<1>1. /\ pc = "off" /\ boots < MAX_BOOTS /\ boots' = boots + 1
      /\ stream' = stream + 1
      /\ g_first' = TRUE /\ g_log_page_pos' = 0
      /\ buffer' = [n \in 1..BUFFER |-> NoUnit]
      /\ g_page' = ScanForFirstFreePage
      /\ pc' \in {"wait", "read"}
      /\ awake' = in_programmer
      /\ UNCHANGED <<ipos, i, page, host, flash, damaged>>
  BY Zenon DEF PowerOn, ResetEncoder, dump
<1>2. /\ hse'.state = "NOT_FULL" /\ hse'.next = 0 /\ hse'.drain = 0
      /\ hse' \in [state : {"NOT_FULL", "FILLED"}, input : 0..INPUT,
                   drain : 0..MAX_DRAIN, next : Nat]
  BY Sizes DEF PowerOn, ResetEncoder
<1>3. g_page' \in 0..PAGES
  BY <1>1, ScanSplits
<1>4. stream = boots
  BY DEF Inv, EncoderInv
<1>5. TypeOK'
  <2>1. buffer' \in [1..BUFFER -> Units]
    BY <1>1, Sizes DEF NoUnit, Units
  <2>2. stream' \in 0..MAX_BOOTS /\ boots' \in 0..MAX_BOOTS
    BY <1>1, <1>4, Sizes DEF Inv, TypeOK
  <2>3. g_first' \in BOOLEAN /\ awake' \in BOOLEAN
    BY <1>1
  <2>4. g_log_page_pos' \in 0..BUFFER /\ g_page' \in Nat
    BY <1>1, <1>3, Sizes
  <2>5. /\ pc' \in {"wait", "read"}
        /\ UNCHANGED <<ipos, i, page, flash, damaged>>
    BY <1>1
  <2>6. QED
    BY <1>2, <2>1, <2>2, <2>3, <2>4, <2>5 DEF Inv, TypeOK
<1>6. EncoderInv'
  <2>1. g_log_page_pos' = 0 /\ pc' # "write" /\ stream' = boots'
    BY <1>1, <1>4
  <2>2. QED
    BY <1>2, <2>1, Sizes DEF EncoderInv
<1>7. UNCHANGED <<flash, damaged>> /\ \A p : IsFree(p)' <=> IsFree(p)
  BY <1>1 DEF IsFree
<1>8. SplitInv'
  <2>1. g_page' <= PAGES
    BY <1>3, Sizes
  <2>2. \A p \in Pages : p < g_page' => ~IsFree(p)
    BY <1>1, ScanSplits
  <2>3. damaged = {} => \A p \in Pages : p >= g_page' => IsFree(p)
    BY <1>1, ScanSplits
  <2>4. QED
    BY <1>7, <2>1, <2>2, <2>3 DEF Inv, SplitInv
<1>9. HeadInv' /\ ChainInv'
  BY <1>7 DEF Inv, HeadInv, ChainInv, Intact, Follows
<1>10. BufferInv'
  <2>1. g_first' /\ g_log_page_pos' = 0 /\ hse'.next = 0
    BY <1>1, <1>2
  <2>2. \A n \in 1..BUFFER : ~(n <= 0)
    BY Sizes
  <2>3. QED
    BY <2>1, <2>2 DEF BufferInv
<1>11. HostInv'
  <2>1. g_page' <= PAGES /\ pc' # "dump"
    BY <1>1, <1>3, Sizes
  <2>2. QED
    BY <2>1 DEF HostInv
<1>12. QED
  BY <1>5, <1>6, <1>8, <1>9, <1>10, <1>11 DEF Inv

-----------------------------------------------------------------------------
(* Until a page is written nothing changes in the flash. *)
LEMMA FlashKept ==
  ASSUME Inv, Logging, Logging', UNCHANGED <<flash, damaged, g_page>>
  PROVE  SplitInv' /\ HeadInv' /\ ChainInv' /\ HostInv'
<1>1. \A p : IsFree(p)' <=> IsFree(p)
  BY DEF IsFree
<1>2. pc # "off" /\ pc' \notin {"wait", "press", "erasing", "dump"}
  BY DEF Logging
<1>3. QED
  BY <1>1, <1>2 DEF Inv, SplitInv, HeadInv, ChainInv, HostInv, Intact, Follows

(* A sighting is fetched: the encoder has been left ready for input. *)
LEMMA ReadInv ==
  ASSUME Inv, Read
  PROVE  Inv'
<1>1. /\ pc = "read" /\ pc' = "sink" /\ ipos' = 0
      /\ UNCHANGED <<g_page, g_log_page_pos, g_first, buffer, hse, stream, i,
                     page, host, flash, awake, boots, damaged>>
  BY DEF Read, dump
<1>2. TypeOK'
  BY <1>1, Sizes DEF Inv, TypeOK
<1>3. EncoderInv'
  BY <1>1 DEF Inv, EncoderInv
<1>4. Logging /\ Logging'
  BY <1>1 DEF Logging
<1>5. BufferInv'
  BY <1>1, <1>4 DEF Inv, BufferInv, Intact, Follows
<1>6. QED
  BY <1>1, <1>2, <1>3, <1>4, <1>5, FlashKept DEF Inv

(* The encoder takes what it has room for. *)
LEMMA SinkInv ==
  ASSUME Inv, NEW drain \in 0..MAX_DRAIN, Sink(drain)
  PROVE  Inv'
<1> DEFINE room == INPUT - hse.input
           in == Min({room, ENTRY - ipos})
           state == IF in = room THEN "FILLED" ELSE hse.state
           output == IF in = room THEN drain ELSE hse.drain
<1>1. pc = "sink" /\ hse.state = "NOT_FULL" /\ g_log_page_pos < BUFFER
  BY DEF Sink, Inv, EncoderInv
<1>2. /\ hse' = [hse EXCEPT !.input = hse.input + in, !.state = state,
                            !.drain = output]
      /\ ipos' = ipos + in /\ pc' = "poll"
      /\ UNCHANGED <<g_log_page_pos, g_first, buffer, stream>>
  BY <1>1, Zenon DEF Sink
<1>3. UNCHANGED <<g_page, i, page, host, flash, awake, boots, damaged>>
  BY DEF Sink, dump
<1>4. /\ hse \in [state : {"NOT_FULL", "FILLED"}, input : 0..INPUT,
                  drain : 0..MAX_DRAIN, next : Nat]
      /\ ipos \in 0..ENTRY
  BY DEF Inv, TypeOK
<1>5. in \in Nat /\ in <= room /\ in <= ENTRY - ipos
  <2>1. room \in Nat /\ ENTRY - ipos \in Nat
    BY <1>4, Sizes
  <2>2. in = IF room <= ENTRY - ipos THEN room ELSE ENTRY - ipos
    BY <2>1, MinOfTwo
  <2> HIDE DEF in
  <2>3. QED
    BY <2>1, <2>2
<1>6. /\ hse.input + in \in 0..INPUT
      /\ state \in {"NOT_FULL", "FILLED"} /\ output \in 0..MAX_DRAIN
      /\ state = "NOT_FULL" => output = 0
  <2> HIDE DEF in
  <2>1. hse.drain = 0
    BY <1>1 DEF Inv, EncoderInv
  <2>2. QED
    BY <1>4, <1>5, <2>1, Sizes
<1> HIDE DEF in, state, output
<1>7. /\ hse' \in [state : {"NOT_FULL", "FILLED"}, input : 0..INPUT,
                   drain : 0..MAX_DRAIN, next : Nat]
      /\ hse'.next = hse.next
      /\ hse'.state = "NOT_FULL" => hse'.drain = 0
  BY <1>2, <1>4, <1>6
<1>8. ipos' \in 0..ENTRY
  BY <1>2, <1>4, <1>5, Sizes
<1>9. /\ pc' = "poll"
      /\ UNCHANGED <<g_log_page_pos, g_first, buffer, stream>>
  BY <1>2
<1>10. TypeOK'
  BY <1>3, <1>7, <1>8, <1>9 DEF Inv, TypeOK
<1>11. EncoderInv'
  BY <1>1, <1>3, <1>7, <1>9 DEF Inv, EncoderInv
<1>12. Logging /\ Logging'
  BY <1>1, <1>9 DEF Logging
<1>13. BufferInv'
  BY <1>3, <1>7, <1>9, <1>12 DEF Inv, BufferInv, Intact, Follows
<1>14. QED
  BY <1>3, <1>10, <1>11, <1>12, <1>13, FlashKept DEF Inv

(* The loops go on with output while there may be more of it, then with the *)
(* rest of the entry, then with the next one.                               *)
LEMMA LoopEndFacts ==
  ASSUME NEW state \in {"NOT_FULL", "FILLED"}
  PROVE  /\ LoopEnd(state) \in {"poll", "sink", "read"}
         /\ LoopEnd(state) \in {"sink", "read"} => state = "NOT_FULL"
<1>1. CASE state = "FILLED"
  <2>1. LoopEnd(state) = "poll"
    BY <1>1, Zenon DEF LoopEnd
  <2>2. QED
    BY <2>1
<1>2. CASE state # "FILLED" /\ ipos < ENTRY
  <2>1. LoopEnd(state) = "sink"
    BY <1>2 DEF LoopEnd
  <2>2. QED
    BY <1>2, <2>1
<1>3. CASE state # "FILLED" /\ ~(ipos < ENTRY)
  <2>1. LoopEnd(state) = "read"
    BY <1>3 DEF LoopEnd
  <2>2. QED
    BY <1>3, <2>1
<1>4. QED
  BY <1>1, <1>2, <1>3

(* The output at hand fills the page up. *)
LEMMA PollInv ==
  ASSUME Inv, NEW left \in 0..LEFTOVER, Poll(left)
  PROVE  Inv'
<1> DEFINE room == BUFFER - g_log_page_pos
           out == Min({room, hse.drain})
           more == hse.drain > room
           fed == [state |-> IF more THEN "FILLED" ELSE "NOT_FULL",
                   input |-> IF more THEN hse.input ELSE left,
                   drain |-> hse.drain - out,
                   next  |-> hse.next + out]
           filled == [n \in 1..BUFFER |->
                        IF n \in g_log_page_pos + 1 .. g_log_page_pos + out
                        THEN <<stream, hse.next + n - g_log_page_pos - 1>>
                        ELSE buffer[n]]
<1>1. /\ hse \in [state : {"NOT_FULL", "FILLED"}, input : 0..INPUT,
                  drain : 0..MAX_DRAIN, next : Nat]
      /\ g_log_page_pos \in 0..BUFFER /\ stream \in 0..MAX_BOOTS
      /\ buffer \in [1..BUFFER -> Units]
  BY DEF Inv, TypeOK
<1>2. pc = "poll" /\ g_log_page_pos < BUFFER /\ room # 0
  BY <1>1, Sizes DEF Poll, Inv, EncoderInv
<1>3. /\ buffer' = filled
      /\ g_log_page_pos' = g_log_page_pos + out
      /\ hse' = IF hse.state = "FILLED" THEN fed ELSE hse
      /\ pc' = IF g_log_page_pos' >= BUFFER
                 THEN "write" ELSE LoopEnd(hse'.state)
      /\ UNCHANGED <<g_first, stream, ipos>>
  BY <1>2, Zenon DEF Poll
<1>4. UNCHANGED <<g_page, i, page, host, flash, awake, boots, damaged>>
  BY DEF Poll, dump
<1>5. /\ out \in Nat /\ out <= room /\ out <= hse.drain
      /\ more => out = room
      /\ ~more => out = hse.drain
  <2>1. room \in Nat /\ hse.drain \in Nat
    BY <1>1, Sizes
  <2>2. out = IF room <= hse.drain THEN room ELSE hse.drain
    BY <2>1, MinOfTwo
  <2> HIDE DEF out
  <2>3. QED
    BY <2>1, <2>2
<1> HIDE DEF out
<1>6. g_log_page_pos' \in 0..BUFFER
  BY <1>1, <1>3, <1>5, Sizes
<1>7. hse.state # "FILLED" => hse.state = "NOT_FULL"
  BY <1>1
<1>8. /\ hse' \in [state : {"NOT_FULL", "FILLED"}, input : 0..INPUT,
                   drain : 0..MAX_DRAIN, next : Nat]
      /\ hse.state = "FILLED" => hse'.next = hse.next + out
      /\ hse.state # "FILLED" => hse'.next = hse.next
      /\ hse'.state = "NOT_FULL" => hse'.drain = 0
  <2>1. CASE hse.state = "FILLED"
    <3>1. /\ hse.drain - out \in 0..MAX_DRAIN /\ hse.next + out \in Nat
          /\ hse.input \in 0..INPUT /\ left \in 0..INPUT
      BY <1>1, <1>5, Sizes
    <3>2. /\ fed \in [state : {"NOT_FULL", "FILLED"}, input : 0..INPUT,
                      drain : 0..MAX_DRAIN, next : Nat]
          /\ fed.next = hse.next + out
          /\ fed.state = "NOT_FULL" => fed.drain = hse.drain - out /\ ~more
      BY <3>1
    <3>3. hse' = fed
      BY <1>3, <2>1, Zenon
    <3>4. ~more => hse.drain - out = 0
      <4>1. room \in Nat /\ hse.drain \in Nat
        BY <1>1, Sizes
      <4>2. QED
        BY <1>5, <4>1
    <3> HIDE DEF fed
    <3>5. QED
      BY <2>1, <3>2, <3>3, <3>4
  <2>2. CASE hse.state # "FILLED"
    <3>1. hse' = hse
      BY <1>3, <2>2, Zenon
    <3>2. hse.state = "NOT_FULL" => hse.drain = 0
      BY DEF Inv, EncoderInv
    <3>3. QED
      BY <1>1, <2>2, <3>1, <3>2
  <2>3. QED
    BY <2>1, <2>2
<1> HIDE DEF fed
<1>9. buffer' \in [1..BUFFER -> Units]
  <2>1. \A n \in 1..BUFFER :
           n \in g_log_page_pos + 1 .. g_log_page_pos + out =>
             <<stream, hse.next + n - g_log_page_pos - 1>> \in Units
    <3> TAKE n \in 1..BUFFER
    <3>1. n \in g_log_page_pos + 1 .. g_log_page_pos + out =>
            hse.next + n - g_log_page_pos - 1 \in Nat
      BY <1>1, <1>5, Sizes
    <3>2. QED
      BY <1>1, <3>1 DEF Units
  <2>2. \A n \in 1..BUFFER : filled[n] \in Units
    BY <1>1, <2>1
  <2>3. filled \in [1..BUFFER -> Units]
    BY <2>2
  <2> HIDE DEF filled
  <2>4. QED
    BY <1>3, <2>3
<1>10. \A n \in 1..BUFFER :
          buffer'[n] = IF n \in g_log_page_pos + 1 .. g_log_page_pos + out
                       THEN <<stream, hse.next + n - g_log_page_pos - 1>>
                       ELSE buffer[n]
  BY <1>3
<1> HIDE DEF filled
<1>11. /\ pc' \in {"poll", "sink", "read", "write"}
       /\ pc' = "write" => g_log_page_pos' = BUFFER
       /\ pc' # "write" => g_log_page_pos' < BUFFER
       /\ pc' \in {"sink", "read"} => hse'.state = "NOT_FULL"
  <2>1. hse'.state \in {"NOT_FULL", "FILLED"}
    BY <1>8
  <2>2. CASE g_log_page_pos' >= BUFFER
    <3>1. pc' = "write" /\ g_log_page_pos' = BUFFER
      BY <1>3, <1>6, <2>2, Sizes
    <3>2. QED
      BY <3>1
  <2>3. CASE ~(g_log_page_pos' >= BUFFER)
    <3>1. pc' = LoopEnd(hse'.state) /\ g_log_page_pos' < BUFFER
      BY <1>3, <1>6, <2>3, Sizes
    <3>2. QED
      BY <2>1, <3>1, LoopEndFacts
  <2>4. QED
    BY <2>2, <2>3
<1>12. UNCHANGED <<g_first, stream, ipos>>
  BY <1>3, Zenon
<1>13. TypeOK'
  BY <1>4, <1>6, <1>8, <1>9, <1>11, <1>12 DEF Inv, TypeOK
<1>14. EncoderInv'
  BY <1>4, <1>8, <1>11, <1>12 DEF Inv, EncoderInv
<1>15. Logging /\ Logging'
  BY <1>2, <1>11 DEF Logging
<1>16. BufferInv'
  <2>1. hse.state # "FILLED" => hse.drain = 0
    BY <1>7 DEF Inv, EncoderInv
  <2>2. hse'.next = hse.next + out
    BY <1>1, <1>5, <1>8, <2>1
  <2>3. g_log_page_pos' = g_log_page_pos + out
    BY <1>3, Zenon
  <2>4. /\ hse.next >= g_log_page_pos
        /\ \A n \in 1..BUFFER :
             n <= g_log_page_pos =>
               buffer[n] = <<stream, hse.next - g_log_page_pos + n - 1>>
        /\ g_first => hse.next = g_log_page_pos
        /\ Intact /\ ~g_first =>
             Follows(g_page, <<stream, hse.next - g_log_page_pos>>)
    BY <1>15 DEF Inv, BufferInv
  <2>5. hse'.next - g_log_page_pos' = hse.next - g_log_page_pos
    BY <1>1, <1>5, <2>2, <2>3
  <2>6. hse'.next >= g_log_page_pos'
        /\ (g_first => hse'.next = g_log_page_pos')
    BY <1>1, <1>5, <2>2, <2>3, <2>4
  <2>7. ASSUME NEW n \in 1..BUFFER, n <= g_log_page_pos'
        PROVE  buffer'[n] = <<stream, hse.next - g_log_page_pos + n - 1>>
    <3>1. CASE n <= g_log_page_pos
      <4>1. n \notin g_log_page_pos + 1 .. g_log_page_pos + out
        BY <1>1, <1>5, <3>1
      <4>2. QED
        BY <1>10, <2>4, <3>1, <4>1
    <3>2. CASE ~(n <= g_log_page_pos)
      <4>1. n \in g_log_page_pos + 1 .. g_log_page_pos + out
        BY <1>1, <1>5, <2>3, <2>7, <3>2
      <4>2. hse.next + n - g_log_page_pos - 1
              = hse.next - g_log_page_pos + n - 1
        BY <1>1
      <4>3. QED
        BY <1>10, <4>1, <4>2
    <3>3. QED
      BY <3>1, <3>2
  <2>8. Intact' = Intact
        /\ (Follows(g_page, <<stream, hse.next - g_log_page_pos>>)
              => Follows(g_page, <<stream, hse.next - g_log_page_pos>>)')
    BY <1>4, <1>12, <2>5 DEF Intact, Follows
  <2>9. QED
    BY <1>12, <2>4, <2>5, <2>6, <2>7, <2>8 DEF BufferInv
<1>17. QED
  BY <1>4, <1>13, <1>14, <1>15, <1>16, FlashKept DEF Inv

-----------------------------------------------------------------------------
(* The full page. *)
NewPage == Page(g_first, buffer)

(* It is one. *)
LEMMA NewPageFields ==
  ASSUME Inv
  PROVE  /\ NewPage \in PageStates /\ NewPage.kind = "page"
         /\ NewPage.first = g_first /\ NewPage.data = buffer
  BY PageFields DEF NewPage, Inv, TypeOK

(* What a write, finished or not, may leave where there was something else. *)
LEMMA InterruptedFacts ==
  ASSUME Inv, NEW old \in PageStates, NEW c \in Interrupted(old, NewPage)
  PROVE  /\ c \in PageStates
         /\ c = old \/ c = Torn \/ (old = Blank /\ c = NewPage)
              \/ (BLANK_HEAD /\ c = TornBlank)
         /\ Program(old, NewPage) \in Interrupted(old, NewPage)
         /\ Program(old, NewPage).kind \in {"torn", "page"}
<1>1. \/ c = old \/ c = Torn \/ (old = Blank /\ c = NewPage)
      \/ (BLANK_HEAD /\ c = TornBlank)
  BY DEF Interrupted, Program
<1>2. Program(old, NewPage) = NewPage \/ Program(old, NewPage) = Torn
  BY DEF Program
<1>3. Program(old, NewPage) \in Interrupted(old, NewPage)
  BY DEF Interrupted
<1>4. QED
  BY <1>1, <1>2, <1>3, Kinds, NewPageFields

(* A write goes to the first free page and changes that only, or has been   *)
(* noted as an accident: behind the last page.                              *)
LEMMA Written ==
  ASSUME Inv, pc = "write",
         NEW c \in Interrupted(flash[Seek(g_page)], NewPage),
         flash' = [flash EXCEPT ![Seek(g_page)] = c],
         damaged' = IF g_page < PAGES THEN damaged ELSE damaged \cup {"overrun"}
  PROVE  /\ flash' \in [Pages -> PageStates]
         /\ damaged' \subseteq {"erase", "overrun"}
         /\ HeadInv'
         /\ damaged' = {} =>
              /\ damaged = {} /\ g_page \in Pages
              /\ flash'[g_page] = c /\ IsFree(g_page)
              /\ \A p \in Pages : p # g_page => flash'[p] = flash[p]
<1>1. /\ g_page \in Nat /\ flash \in [Pages -> PageStates]
      /\ damaged \subseteq {"erase", "overrun"}
  BY DEF Inv, TypeOK
<1>2. Seek(g_page) \in Pages
  BY <1>1, SeekInFlash
<1>3. c \in PageStates
  BY <1>1, <1>2, InterruptedFacts
<1>4. flash' \in [Pages -> PageStates]
  BY <1>1, <1>3
<1>5. damaged' \subseteq {"erase", "overrun"}
  BY <1>1
<1>6. /\ \A p \in Pages : p # Seek(g_page) => flash'[p] = flash[p]
      /\ flash'[Seek(g_page)] = c
  BY <1>1, <1>2
<1>7. HeadInv'
  <2>1. SUFFICES ASSUME ~BLANK_HEAD, NEW p \in Pages
                 PROVE  flash'[p].kind # "tornblank"
    BY DEF HeadInv
  <2>2. flash[p].kind # "tornblank" /\ flash[Seek(g_page)].kind # "tornblank"
    BY <1>2, <2>1 DEF Inv, HeadInv
  <2>3. c.kind # "tornblank"
    BY <1>1, <1>2, <2>1, <2>2, InterruptedFacts, Kinds, NewPageFields
  <2>4. QED
    BY <1>6, <2>2, <2>3
<1>8. ASSUME damaged' = {}
      PROVE  /\ damaged = {} /\ g_page \in Pages
             /\ flash'[g_page] = c /\ IsFree(g_page)
             /\ \A p \in Pages : p # g_page => flash'[p] = flash[p]
  <2>1. g_page < PAGES /\ damaged = {}
    BY <1>8
  <2>2. g_page \in Pages
    BY <1>1, <2>1, Sizes DEF Pages
  <2>3. Seek(g_page) = g_page
    BY <2>2, SeekIsPage
  <2>4. IsFree(g_page)
    BY <1>1, <2>1, <2>2 DEF Inv, SplitInv
  <2>5. QED
    BY <1>6, <2>1, <2>2, <2>3, <2>4
<1>9. QED
  BY <1>4, <1>5, <1>7, <1>8

(* The units of the page go on where those of the page before end, or start *)
(* a group.                                                                 *)
LEMMA ChainWritten ==
  ASSUME Inv, pc = "write",
         NEW c \in Interrupted(flash[Seek(g_page)], NewPage),
         flash' = [flash EXCEPT ![Seek(g_page)] = c],
         damaged' = IF g_page < PAGES THEN damaged ELSE damaged \cup {"overrun"}
  PROVE  ChainInv'
<1>1. SUFFICES ASSUME Intact', NEW p \in Pages, flash'[p].kind = "page"
               PROVE  /\ \A n \in 1..BUFFER :
                           flash'[p].data[n] = <<flash'[p].data[1][1],
                                                 flash'[p].data[1][2] + n - 1>>
                      /\ IF flash'[p].first THEN flash'[p].data[1][2] = 0
                                            ELSE Follows(p, flash[p].data[1])'
  BY DEF ChainInv
<1>2. /\ damaged = {} /\ ~BLANK_HEAD /\ Intact /\ g_page \in Pages
      /\ flash'[g_page] = c /\ IsFree(g_page)
      /\ \A q \in Pages : q # g_page => flash'[q] = flash[q]
  BY <1>1, Written DEF Intact
<1>3. flash \in [Pages -> PageStates]
  BY DEF Inv, TypeOK
<1>4. CASE p # g_page
  <2>1. flash'[p] = flash[p] /\ ~IsFree(p)
    BY <1>1, <1>2, <1>4 DEF IsFree
  <2>2. p < g_page
    BY <1>2, <1>4, <2>1 DEF Inv, SplitInv, Pages
  <2>3. /\ \A n \in 1..BUFFER :
             flash[p].data[n] = <<flash[p].data[1][1],
                                  flash[p].data[1][2] + n - 1>>
        /\ IF flash[p].first THEN flash[p].data[1][2] = 0
                             ELSE Follows(p, flash[p].data[1])
    BY <1>1, <1>2, <2>1 DEF Inv, ChainInv
  <2>4. p > 0 => p - 1 \in Pages /\ p - 1 # g_page
    BY <1>2, <2>2, Sizes DEF Pages
  <2>5. Follows(p, flash[p].data[1]) => Follows(p, flash[p].data[1])'
    BY <1>2, <2>1, <2>4 DEF Follows
  <2>6. QED
    BY <2>1, <2>3, <2>5
<1>5. CASE p = g_page
  <2>1. Seek(g_page) = g_page
    BY <1>2, SeekIsPage
  <2>2. flash[g_page].kind # "tornblank" /\ flash[g_page].kind # "page"
    BY <1>2 DEF Inv, HeadInv, IsFree
  <2>3. c = NewPage
    BY <1>1, <1>2, <1>3, <1>5, <2>1, <2>2, InterruptedFacts, Kinds
  <2>4. flash'[p].first = g_first /\ flash'[p].data = buffer
    BY <1>2, <1>5, <2>3, NewPageFields
  <2>5. g_log_page_pos = BUFFER /\ Logging
    BY DEF Inv, EncoderInv, Logging
  <2>6. hse.next \in Nat /\ hse.next >= BUFFER
    BY <2>5 DEF Inv, TypeOK, BufferInv
  <2>7. /\ \A n \in 1..BUFFER :
             buffer[n] = <<stream, hse.next - BUFFER + n - 1>>
        /\ g_first => hse.next = BUFFER
        /\ ~g_first => Follows(g_page, <<stream, hse.next - BUFFER>>)
    BY <1>2, <2>5, Sizes DEF Inv, BufferInv
  <2>8. buffer[1] = <<stream, hse.next - BUFFER>>
    <3>1. hse.next - BUFFER + 1 - 1 = hse.next - BUFFER /\ 1 \in 1..BUFFER
      BY <2>6, Sizes
    <3>2. QED
      BY <2>7, <3>1
  <2>9. buffer[1][1] = stream /\ buffer[1][2] = hse.next - BUFFER
    BY <2>8
  <2>10. \A n \in 1..BUFFER : buffer[n] = <<buffer[1][1], buffer[1][2] + n - 1>>
    BY <2>7, <2>9
  <2>11. g_first => buffer[1][2] = 0
    BY <2>6, <2>7, <2>9, Sizes
  <2>12. ~g_first => Follows(p, flash[p].data[1])'
    <3>1. g_page > 0 => g_page - 1 \in Pages /\ g_page - 1 # g_page
      BY <1>2, Sizes DEF Pages
    <3>2. flash'[p].data[1] = <<stream, hse.next - BUFFER>>
      BY <2>4, <2>8
    <3>3. QED
      BY <1>2, <1>5, <2>7, <3>1, <3>2 DEF Follows
  <2>13. QED
    BY <2>4, <2>10, <2>11, <2>12
<1>6. QED
  BY <1>4, <1>5

-----------------------------------------------------------------------------
(* The page is full and written. *)
LEMMA WritePageInv ==
  ASSUME Inv, WritePage
  PROVE  Inv'
<1> DEFINE c == Program(flash[Seek(g_page)], NewPage)
<1>1. /\ pc = "write"
      /\ flash' = [flash EXCEPT ![Seek(g_page)] = c]
      /\ damaged' = IF g_page < PAGES THEN damaged ELSE damaged \cup {"overrun"}
  BY Zenon DEF WritePage, NewPage
<1>2. /\ g_first' = FALSE /\ g_page' = g_page + 1 /\ g_log_page_pos' = 0
      /\ awake' = FALSE /\ pc' = LoopEnd(hse.state)
      /\ UNCHANGED <<buffer, hse, stream, ipos, i, page, host, boots>>
  BY DEF WritePage, dump
<1>3. g_page \in Nat /\ flash \in [Pages -> PageStates]
  BY DEF Inv, TypeOK
<1>4. flash[Seek(g_page)] \in PageStates
  BY <1>3, SeekInFlash
<1>5. /\ c \in Interrupted(flash[Seek(g_page)], NewPage)
      /\ c.kind \in {"torn", "page"}
      /\ c = NewPage \/ c = Torn
  <2>1. c = NewPage \/ c = Torn
    BY DEF Program
  <2>2. c \in Interrupted(flash[Seek(g_page)], NewPage)
    BY DEF Interrupted
  <2>3. QED
    BY <2>1, <2>2, Kinds, NewPageFields
<1> HIDE DEF c
<1>6. /\ flash' \in [Pages -> PageStates]
      /\ damaged' \subseteq {"erase", "overrun"}
      /\ HeadInv'
      /\ damaged' = {} =>
           /\ damaged = {} /\ g_page \in Pages
           /\ flash'[g_page] = c /\ IsFree(g_page)
           /\ \A p \in Pages : p # g_page => flash'[p] = flash[p]
  BY <1>1, <1>5, Written
<1>7. hse.state \in {"NOT_FULL", "FILLED"}
  BY DEF Inv, TypeOK
<1>8. /\ pc' \in {"poll", "sink", "read"}
      /\ pc' \in {"sink", "read"} => hse.state = "NOT_FULL"
  BY <1>2, <1>7, LoopEndFacts
<1>9. TypeOK'
  <2>1. g_page' \in Nat /\ g_log_page_pos' \in 0..BUFFER
    BY <1>2, <1>3, Sizes
  <2>2. QED
    BY <1>2, <1>6, <1>8, <2>1 DEF Inv, TypeOK
<1>10. EncoderInv'
  BY <1>2, <1>8, Sizes DEF Inv, EncoderInv
<1>11. SplitInv'
  <2>1. SUFFICES ASSUME damaged' = {}
                 PROVE  /\ \A p, q \in Pages : p < q /\ IsFree(p)' => IsFree(q)'
                        /\ \A p \in Pages : p >= g_page + 1 => IsFree(p)'
                        /\ g_page + 1 <= PAGES
                        /\ \A p \in Pages : p < g_page + 1 => ~IsFree(p)'
    BY <1>2 DEF SplitInv
  <2>2. g_page \in Pages /\ \A p \in Pages : p = g_page => ~IsFree(p)'
    BY <1>5, <1>6, <2>1 DEF IsFree
  <2>3. \A p \in Pages : p # g_page => (IsFree(p)' <=> IsFree(p))
    BY <1>6, <2>1 DEF IsFree
  <2>4. /\ \A p \in Pages : p >= g_page => IsFree(p)
        /\ \A p \in Pages : p < g_page => ~IsFree(p)
    BY <1>1, <1>6, <2>1 DEF Inv, SplitInv, Logging
  <2>5. /\ \A p \in Pages : p >= g_page + 1 => IsFree(p)'
        /\ \A p \in Pages : p < g_page + 1 => ~IsFree(p)'
    BY <2>2, <2>3, <2>4, Sizes DEF Pages
  <2>6. g_page + 1 <= PAGES
    BY <2>2, Sizes DEF Pages
  <2>7. \A p, q \in Pages : p < q /\ IsFree(p)' => IsFree(q)'
    BY <2>2, <2>5, Sizes DEF Pages
  <2>8. QED
    BY <2>5, <2>6, <2>7
<1>12. ChainInv'
  BY <1>1, <1>5, ChainWritten
<1>13. BufferInv'
  <2>1. hse.next \in Nat /\ g_log_page_pos = BUFFER /\ hse.next >= BUFFER
    BY <1>1 DEF Inv, TypeOK, EncoderInv, BufferInv, Logging
  <2>2. \A n \in 1..BUFFER : ~(n <= 0)
    BY Sizes
  <2>3. ASSUME Intact'
        PROVE  Follows(g_page, <<stream, hse.next - g_log_page_pos>>)'
    <3>1. /\ Intact /\ g_page \in Pages /\ flash'[g_page] = c
          /\ IsFree(g_page)
      BY <1>6, <2>3 DEF Intact
    <3>2. c = NewPage
      <4>1. flash[g_page].kind = "blank"
        BY <3>1 DEF Inv, HeadInv, IsFree, Intact
      <4>2. flash[g_page] = Blank /\ Seek(g_page) = g_page
        BY <1>3, <3>1, <4>1, Kinds, SeekIsPage
      <4>3. QED
        BY <4>2 DEF c, Program
    <3>3. flash'[g_page].kind = "page" /\ flash'[g_page].data = buffer
      BY <3>1, <3>2, NewPageFields
    <3>4. buffer[1] = <<stream, hse.next - BUFFER>>
      <4>1. 1 \in 1..BUFFER /\ 1 <= g_log_page_pos
        BY <2>1, Sizes
      <4>2. buffer[1] = <<stream, hse.next - g_log_page_pos + 1 - 1>>
        BY <1>1, <4>1 DEF Inv, BufferInv, Logging
      <4>3. hse.next - g_log_page_pos + 1 - 1 = hse.next - BUFFER
        BY <2>1, Sizes
      <4>4. QED
        BY <4>2, <4>3
    <3>5. buffer[1][1] = stream /\ buffer[1][2] + BUFFER = hse.next - 0
      BY <2>1, <3>4, Sizes
    <3>6. g_page + 1 > 0 /\ (g_page + 1) - 1 = g_page
      BY <1>3
    <3>7. QED
      BY <1>2, <3>3, <3>5, <3>6 DEF Follows
  <2>4. QED
    BY <1>2, <2>1, <2>2, <2>3 DEF BufferInv
<1>14. HostInv'
  BY <1>8 DEF HostInv
<1>15. QED
  BY <1>6, <1>9, <1>10, <1>11, <1>12, <1>13, <1>14 DEF Inv

-----------------------------------------------------------------------------
(* In the programmer the flash is read, too. *)
Programmer == pc \in {"wait", "press", "erasing", "dump"}

(* Nothing of the log changes there but by an erase. *)
LEMMA LogKept ==
  ASSUME Inv, Programmer, Programmer',
         UNCHANGED <<g_page, log, flash, damaged, boots>>
  PROVE  EncoderInv' /\ SplitInv' /\ HeadInv' /\ ChainInv' /\ BufferInv'
<1>1. \A p : IsFree(p)' <=> IsFree(p)
  BY DEF IsFree
<1>2. pc # "off" /\ ~Logging' /\ pc' # "off"
  BY DEF Logging, Programmer
<1>3. UNCHANGED <<hse, stream, g_log_page_pos>>
  BY DEF log
<1>4. EncoderInv'
  BY <1>2, <1>3 DEF Inv, EncoderInv, Programmer
<1>5. SplitInv'
  BY <1>1, <1>2 DEF Inv, SplitInv
<1>6. HeadInv' /\ ChainInv'
  BY DEF Inv, HeadInv, ChainInv, Intact, Follows
<1>7. BufferInv'
  BY <1>2 DEF BufferInv
<1>8. QED
  BY <1>4, <1>5, <1>6, <1>7

(* The button goes down. *)
LEMMA PressInv ==
  ASSUME Inv, Press
  PROVE  Inv'
<1>1. /\ pc = "wait" /\ pc' = "press" /\ i' = 0
      /\ UNCHANGED <<g_page, log, page, host, flash, awake, boots, damaged>>
  BY DEF Press
<1>2. TypeOK'
  BY <1>1, Sizes DEF Inv, TypeOK, log
<1>3. Programmer /\ Programmer'
  BY <1>1 DEF Programmer
<1>4. HostInv'
  BY <1>1 DEF Inv, HostInv
<1>5. QED
  BY <1>1, <1>2, <1>3, <1>4, LogKept DEF Inv

(* The first page of the flash starts a group, if it is one. *)
LEMMA FirstPageStarts ==
  ASSUME Inv, Intact, 0 < g_page, g_page <= PAGES, flash[0].kind = "page"
  PROVE  flash[0].first
<1>1. 0 \in Pages
  BY Sizes DEF Pages
<1>2. ~Follows(0, flash[0].data[1])
  BY DEF Follows
<1>3. QED
  BY <1>1, <1>2 DEF Inv, ChainInv

(* The press is measured: the dump starts with the first page. *)
LEMMA MeasureInv ==
  ASSUME Inv, NEW held \in BOOLEAN, Measure(held)
  PROVE  Inv'
<1>1. /\ pc = "press" /\ i' = Min({i + 1, 3})
      /\ UNCHANGED <<g_page, log, host, flash, awake, boots, damaged>>
  BY DEF Measure
<1>2. /\ pc' \in {"press", "dump", "erasing"}
      /\ page' = page \/ page' = 0
      /\ pc' = "dump" => page' = 0
  BY Zenon DEF Measure, Pressed
<1>3. i \in 0..3 /\ page \in Nat
  BY DEF Inv, TypeOK
<1>4. i' \in 0..3
  <2>1. i + 1 \in Nat /\ 3 \in Nat
    BY <1>3
  <2>2. i' = IF i + 1 <= 3 THEN i + 1 ELSE 3
    BY <1>1, <2>1, MinOfTwo
  <2>3. QED
    BY <1>3, <2>2
<1>5. TypeOK'
  BY <1>1, <1>2, <1>3, <1>4 DEF Inv, TypeOK, log
<1>6. Programmer /\ Programmer'
  BY <1>1, <1>2 DEF Programmer
<1>7. HostInv'
  <2>1. g_page' = g_page /\ g_page <= PAGES
    BY <1>1 DEF Inv, HostInv
  <2>2. ASSUME pc' = "dump", page' < g_page', Intact',
               flash'[page'].kind = "page"
        PROVE  flash'[page'].first
    <3>1. page' = 0 /\ flash' = flash /\ Intact
      BY <1>1, <1>2, <2>2 DEF Intact
    <3>2. QED
      BY <2>1, <2>2, <3>1, FirstPageStarts
  <2>3. QED
    BY <2>1, <2>2 DEF HostInv
<1>8. QED
  BY <1>1, <1>5, <1>6, <1>7, LogKept DEF Inv

(* The chip erase is done, unless the chip was asleep and has not heard it. *)
LEMMA EraseDoneInv ==
  ASSUME Inv, NEW held \in BOOLEAN, EraseDone(held)
  PROVE  Inv'
<1>1. /\ pc = "erasing" /\ awake' = FALSE
      /\ UNCHANGED <<g_page, log, i, host, boots>>
      /\ \/ flash' = [p \in Pages |-> Blank] /\ damaged' = {}
         \/ UNCHANGED <<flash, damaged>>
  BY Zenon DEF EraseDone
<1>2. /\ pc' \in {"press", "dump"}
      /\ page' = page \/ page' = 0
  BY Zenon DEF EraseDone, Pressed
<1>3. /\ flash' \in [Pages -> PageStates]
      /\ damaged' \subseteq {"erase", "overrun"}
  BY <1>1, Kinds DEF Inv, TypeOK
<1>4. TypeOK'
  <2>1. page' \in Nat
    BY <1>2 DEF Inv, TypeOK
  <2>2. /\ UNCHANGED <<g_page, g_log_page_pos, g_first, buffer, hse, stream,
                       ipos, i, boots>>
        /\ awake' = FALSE
    BY <1>1 DEF log
  <2>3. QED
    BY <1>2, <1>3, <2>1, <2>2 DEF Inv, TypeOK
<1>5. Programmer /\ Programmer' /\ ~Logging' /\ pc # "off"
  BY <1>1, <1>2 DEF Programmer, Logging
<1>6. HostInv'
  BY <1>1, <1>2 DEF Inv, HostInv
<1>7. CASE UNCHANGED <<flash, damaged>>
  BY <1>1, <1>4, <1>5, <1>6, <1>7, LogKept DEF Inv
<1>8. CASE flash' = [p \in Pages |-> Blank]
  <2>1. \A p \in Pages : flash'[p].kind = "blank"
    BY <1>8, Kinds
  <2>2. SplitInv' /\ HeadInv' /\ ChainInv'
    BY <1>5, <2>1 DEF SplitInv, HeadInv, ChainInv, IsFree
  <2>3. EncoderInv'
    BY <1>1, <1>2 DEF Inv, EncoderInv, log
  <2>4. BufferInv'
    BY <1>5 DEF BufferInv
  <2>5. QED
    BY <1>4, <1>6, <2>2, <2>3, <2>4 DEF Inv
<1>9. QED
  BY <1>1, <1>7, <1>8

-----------------------------------------------------------------------------
(* A page that is in order is decoded in order, unless the decoder has lost *)
(* its stream before.                                                       *)
LEMMA PageDecoded ==
  ASSUME Inv, Intact, pc = "dump", page < g_page, awake,
         flash[page].kind = "page", flash[page].first \/ host.ok
  PROVE  LET data == flash[page].data
             next == Decode(IF flash[page].first THEN Fresh ELSE host, data)
         IN  /\ next.ok
             /\ next.stream = data[1][1]
             /\ next.next = data[1][2] + BUFFER
<1> DEFINE units == flash[page].data
           before == IF flash[page].first THEN Fresh ELSE host
           st == units[1][1]
           nx == units[1][2]
<1>1. page \in Pages /\ flash[page] \in PageStates
  BY Sizes DEF Inv, TypeOK, HostInv, Pages
<1>2. units[1] \in Units /\ units[1] = <<st, nx>> /\ nx \in Nat
  <2>1. units \in [1..BUFFER -> Units] /\ 1 \in 1..BUFFER
    BY <1>1, Sizes DEF PageStates, Blank, Torn, TornBlank
  <2>2. units[1] \in Units
    BY <2>1
  <2> HIDE DEF units
  <2>3. QED
    BY <2>2 DEF Units
<1>3. Consecutive(units, st, nx)
  BY <1>1 DEF Inv, ChainInv, Consecutive
<1>4. before.ok /\ before.next = nx /\ (nx = 0 \/ before.stream = st)
  <2>1. CASE flash[page].first
    <3>1. nx = 0
      BY <1>1, <2>1 DEF Inv, ChainInv
    <3>2. before = Fresh
      BY <2>1
    <3>3. QED
      BY <3>1, <3>2 DEF Fresh
  <2>2. CASE ~flash[page].first
    <3>1. <<host.stream, host.next>> = units[1] /\ host.ok
      BY <2>2 DEF Inv, HostInv
    <3>2. host.stream = st /\ host.next = nx
      BY <3>1
    <3>3. before = host
      BY <2>2
    <3> HIDE DEF before, st, nx, units
    <3>4. QED
      BY <3>1, <3>2, <3>3
  <2>3. QED
    BY <2>1, <2>2
<1> HIDE DEF units, before, st, nx
<1>5. /\ Decode(before, units).ok
      /\ Decode(before, units).stream = st
      /\ Decode(before, units).next = nx + BUFFER
  BY <1>2, <1>3, <1>4, DecodeInOrder
<1>6. QED
  BY <1>5, Zenon DEF units, before, st, nx

(* A page goes to the host: the decoder is where the next one goes on.      *)
LEMMA DumpPageInv ==
  ASSUME Inv, DumpPage
  PROVE  Inv'
<1>1. /\ pc = "dump" /\ page < g_page /\ page' = page + 1
      /\ awake => host' = PortRx(host, flash[Seek(page)])
      /\ UNCHANGED <<g_page, log, i, pc, flash, awake, boots, damaged>>
  BY DEF DumpPage
<1>2. TypeOK'
  BY <1>1 DEF Inv, TypeOK, log
<1>3. Programmer /\ Programmer'
  BY <1>1 DEF Programmer
<1>4. g_page <= PAGES /\ page \in Nat /\ g_page \in Nat
  BY <1>1 DEF Inv, TypeOK, HostInv
<1>5. ASSUME page + 1 < g_page, awake, Intact, host'.ok,
             flash[page + 1].kind = "page", ~flash[page + 1].first
      PROVE  <<host'.stream, host'.next>> = flash[page + 1].data[1]
  <2>1. page \in Pages /\ page + 1 \in Pages /\ (page + 1) - 1 = page
    BY <1>4, <1>5, Sizes DEF Pages
  <2>2. Follows(page + 1, flash[page + 1].data[1])
    BY <1>5, <2>1 DEF Inv, ChainInv
  <2>3. /\ flash[page].kind = "page"
        /\ flash[page + 1].data[1] = <<flash[page].data[1][1],
                                       flash[page].data[1][2] + BUFFER>>
    BY <2>1, <2>2 DEF Follows
  <2> DEFINE hsd == IF flash[page].first THEN Fresh ELSE host
  <2>4. host' = Decode(hsd, flash[page].data)
    <3>1. Seek(page) = page
      BY <2>1, SeekIsPage
    <3>2. host' = PortRx(host, flash[page])
      BY <1>1, <1>5, <3>1
    <3>3. flash[page].kind \notin {"blank", "tornblank", "torn"}
      BY <2>3
    <3>4. PortRx(host, flash[page]) = Decode(hsd, flash[page].data)
      BY <2>3, <3>3, Zenon DEF PortRx
    <3>5. QED
      BY <3>2, <3>4, Zenon
  <2>5. flash[page].first \/ host.ok
    <3>1. CASE ~flash[page].first
      <4>1. hsd = host
        BY <3>1, Zenon
      <4>2. QED
        BY <1>5, <2>4, <4>1, DecodeLost
    <3>2. QED
      BY <3>1
  <2>6. /\ host'.stream = flash[page].data[1][1]
        /\ host'.next = flash[page].data[1][2] + BUFFER
    BY <1>1, <1>5, <2>3, <2>4, <2>5, PageDecoded
  <2>7. QED
    BY <2>3, <2>6
<1>6. HostInv'
  BY <1>1, <1>4, <1>5 DEF HostInv, Intact
<1>7. QED
  BY <1>1, <1>2, <1>3, <1>6, LogKept DEF Inv

(* All pages are sent. *)
LEMMA DumpDoneInv ==
  ASSUME Inv, DumpDone
  PROVE  Inv'
<1>1. /\ pc = "dump" /\ pc' = "wait"
      /\ UNCHANGED <<g_page, log, i, page, host, flash, awake, boots, damaged>>
  BY DEF DumpDone, dump
<1>2. TypeOK'
  BY <1>1 DEF Inv, TypeOK, log
<1>3. Programmer /\ Programmer'
  BY <1>1 DEF Programmer
<1>4. HostInv'
  BY <1>1 DEF Inv, HostInv
<1>5. QED
  BY <1>1, <1>2, <1>3, <1>4, LogKept DEF Inv

-----------------------------------------------------------------------------
(* The power fails: what was being written is in between, what was being    *)
(* erased has had an accident.                                              *)
LEMMA PowerLossInv ==
  ASSUME Inv, PowerLoss
  PROVE  Inv'
<1>1. /\ pc # "off" /\ pc' = "off"
      /\ UNCHANGED <<g_page, log, i, page, host, awake, boots>>
  BY DEF PowerLoss, dump
<1>2. UNCHANGED <<g_page, g_log_page_pos, g_first, buffer, hse, stream, ipos>>
  BY <1>1 DEF log
<1>3. EncoderInv' /\ BufferInv' /\ HostInv'
  <2>1. EncoderInv'
    BY <1>1, <1>2 DEF Inv, EncoderInv
  <2>2. BufferInv' /\ HostInv'
    BY <1>1 DEF BufferInv, HostInv, Logging
  <2>3. QED
    BY <2>1, <2>2
<1>4. ASSUME flash' \in [Pages -> PageStates],
             damaged' \subseteq {"erase", "overrun"}
      PROVE  TypeOK'
  BY <1>1, <1>2, <1>4 DEF Inv, TypeOK
<1>5. CASE pc = "write"
  <2>1. PICK c \in Interrupted(flash[Seek(g_page)], NewPage) :
           flash' = [flash EXCEPT ![Seek(g_page)] = c]
    <3>1. flash' \in {[flash EXCEPT ![Seek(g_page)] = c] :
                        c \in Interrupted(flash[Seek(g_page)], NewPage)}
      BY <1>5 DEF PowerLoss, NewPage
    <3>2. QED
      BY <3>1, Zenon
  <2>2. damaged' = IF g_page < PAGES THEN damaged ELSE damaged \cup {"overrun"}
    <3>1. g_page >= PAGES <=> ~(g_page < PAGES)
      BY Sizes DEF Inv, TypeOK
    <3>2. damaged' = damaged \cup (IF g_page >= PAGES THEN {"overrun"} ELSE {})
      BY <1>5 DEF PowerLoss
    <3>3. QED
      BY <3>1, <3>2
  <2>3. /\ flash' \in [Pages -> PageStates]
        /\ damaged' \subseteq {"erase", "overrun"}
        /\ HeadInv'
        /\ damaged' = {} =>
             /\ damaged = {} /\ g_page \in Pages
             /\ flash'[g_page] = c /\ IsFree(g_page)
             /\ \A p \in Pages : p # g_page => flash'[p] = flash[p]
    BY <1>5, <2>1, <2>2, Written
  <2>4. ChainInv'
    BY <1>5, <2>1, <2>2, ChainWritten
  <2>5. SplitInv'
    <3>1. SUFFICES ASSUME damaged' = {},
                          NEW p \in Pages, NEW q \in Pages, p < q, IsFree(p)'
                   PROVE  IsFree(q)'
      BY <1>1 DEF SplitInv, Logging
    <3>2. /\ \A r \in Pages : r >= g_page => IsFree(r)
          /\ \A r \in Pages : r < g_page => ~IsFree(r)
      BY <1>5, <2>3, <3>1 DEF Inv, SplitInv, Logging
    <3>3. \A r \in Pages : r # g_page => (IsFree(r)' <=> IsFree(r))
      BY <2>3, <3>1 DEF IsFree
    <3>4. p >= g_page
      BY <2>3, <3>1, <3>2, <3>3 DEF Pages
    <3>5. q > g_page /\ q # g_page
      BY <2>3, <3>1, <3>4 DEF Pages
    <3>6. IsFree(q)
      BY <2>3, <3>1, <3>2, <3>5 DEF Pages
    <3>7. QED
      BY <3>1, <3>3, <3>5, <3>6
  <2>6. QED
    BY <1>3, <1>4, <2>3, <2>4, <2>5 DEF Inv
<1>6. CASE pc = "erasing" /\ awake
  <2>1. damaged' # {} /\ damaged' \subseteq {"erase", "overrun"}
    BY <1>6 DEF PowerLoss, Inv, TypeOK
  <2> DEFINE Left(E, T) ==
               [p \in Pages |-> IF p \in E THEN Blank
                                ELSE IF p \in T THEN Torn ELSE flash[p]]
  <2>2. PICK E \in SUBSET Pages, T \in SUBSET Pages : flash' = Left(E, T)
    <3>1. flash' \in {Left(E, T) : E \in SUBSET Pages, T \in SUBSET Pages}
      BY <1>6 DEF PowerLoss
    <3> HIDE DEF Left
    <3>2. QED
      BY <3>1
  <2>3. /\ flash' \in [Pages -> PageStates]
        /\ \A p \in Pages : flash'[p] \in {Blank, Torn, flash[p]}
    <3>1. flash \in [Pages -> PageStates]
      BY DEF Inv, TypeOK
    <3>2. QED
      BY <2>2, <3>1, Kinds
  <2>4. HeadInv'
    <3>1. SUFFICES ASSUME ~BLANK_HEAD, NEW p \in Pages
                   PROVE  flash'[p].kind # "tornblank"
      BY DEF HeadInv
    <3>2. flash[p].kind # "tornblank"
      BY <3>1 DEF Inv, HeadInv
    <3>3. QED
      BY <2>3, <3>2, Kinds
  <2>5. SplitInv' /\ ChainInv'
    BY <2>1 DEF SplitInv, ChainInv, Intact
  <2>6. QED
    BY <1>3, <1>4, <2>1, <2>3, <2>4, <2>5 DEF Inv
<1>7. CASE pc # "write" /\ ~(pc = "erasing" /\ awake)
  <2>1. UNCHANGED <<flash, damaged>>
    <3>1. flash' \in {flash}
      BY <1>7 DEF PowerLoss
    <3>2. damaged' = damaged
      BY <1>7 DEF PowerLoss
    <3>3. QED
      BY <3>1, <3>2
  <2>2. \A p : IsFree(p)' <=> IsFree(p)
    BY <2>1 DEF IsFree
  <2>3. SplitInv'
    BY <1>1, <2>1, <2>2 DEF Inv, SplitInv, Logging
  <2>4. HeadInv' /\ ChainInv'
    BY <2>1 DEF Inv, HeadInv, ChainInv, Intact, Follows
  <2>5. /\ flash' \in [Pages -> PageStates]
        /\ damaged' \subseteq {"erase", "overrun"}
    BY <2>1 DEF Inv, TypeOK
  <2>6. QED
    BY <1>3, <1>4, <2>3, <2>4, <2>5 DEF Inv
<1>8. QED
  BY <1>5, <1>6, <1>7

-----------------------------------------------------------------------------
(* Every step of the tag keeps the invariant. *)
LEMMA InvNext ==
  ASSUME Inv, [Next]_vars
  PROVE  Inv'
<1>1. CASE UNCHANGED vars
  <2>1. /\ UNCHANGED <<g_page, g_log_page_pos, g_first, buffer, hse, stream,
                       ipos, i, page, host>>
        /\ UNCHANGED <<pc, flash, awake, boots, damaged>>
    BY <1>1 DEF vars, log, dump
  <2>2. TypeOK'
    BY <2>1 DEF Inv, TypeOK
  <2>3. EncoderInv' /\ HeadInv' /\ HostInv'
    BY <2>1 DEF Inv, EncoderInv, HeadInv, HostInv, Intact
  <2>4. SplitInv'
    BY <2>1 DEF Inv, SplitInv, IsFree, Logging
  <2>5. ChainInv' /\ BufferInv'
    BY <2>1 DEF Inv, ChainInv, BufferInv, Intact, Follows, Logging
  <2>6. QED
    BY <2>2, <2>3, <2>4, <2>5 DEF Inv
<1>2. CASE \E in_programmer \in BOOLEAN : PowerOn(in_programmer)
  BY <1>2, PowerOnInv
<1>3. CASE Read
  BY <1>3, ReadInv
<1>4. CASE LogProcess
  BY <1>4, SinkInv, PollInv, WritePageInv DEF LogProcess
<1>5. CASE Press
  BY <1>5, PressInv
<1>6. CASE LogDump
  BY <1>6, MeasureInv, EraseDoneInv, DumpPageInv, DumpDoneInv DEF LogDump
<1>7. CASE PowerLoss
  BY <1>7, PowerLossInv
<1>8. QED
  BY <1>1, <1>2, <1>3, <1>4, <1>5, <1>6, <1>7 DEF Next

(* The log stays in order: recorded pages first, each group one stream      *)
(* without a gap, the encoder in step with the page that is filled and the  *)
(* decoder of the host in step with the pages that are sent (log.c, flash.c,*)
(* tag-dumper.c).                                                           *)
THEOREM LogStaysInOrder == Spec => []Inv
<1>1. Init => Inv
  BY InvInit
<1>2. Inv /\ [Next]_vars => Inv'
  BY InvNext
<1>3. QED
  BY <1>1, <1>2, PTL DEF Spec

(* Every variable of log.c and flash.c stays in its range. *)
THEOREM TypesOfTheLog == Spec => []TypeOK
<1>1. Inv => TypeOK
  BY DEF Inv
<1>2. QED
  BY <1>1, LogStaysInOrder, PTL

(* The error path of log_process is never taken: its loops hand the encoder *)
(* input and poll it only when there is room (log.c 194-256).               *)
THEOREM ErrorPathIsDead == Spec => []EncoderNotMisused
<1>1. Inv => EncoderNotMisused
  BY DEF Inv, EncoderInv, EncoderNotMisused
<1>2. QED
  BY <1>1, LogStaysInOrder, PTL

(* If an interrupted programming never leaves the first word of a page      *)
(* erased, nothing that was recorded is behind the first free page that     *)
(* log_scan_for_first_free_page finds (log.c 54-80).                        *)
THEOREM NothingIsHidden ==
  ASSUME ~BLANK_HEAD
  PROVE  Spec => []NothingBehindFreePage
<1>1. Inv => NothingBehindFreePage
  <2>1. SUFFICES ASSUME Inv, pc # "off", damaged = {},
                        NEW p \in Pages, p >= g_page
                 PROVE  flash[p] = Blank
    BY DEF NothingBehindFreePage
  <2>2. IsFree(p) /\ flash[p].kind # "tornblank"
    BY <2>1 DEF Inv, SplitInv, HeadInv
  <2>3. flash[p] \in PageStates
    BY <2>1 DEF Inv, TypeOK
  <2>4. QED
    BY <2>2, <2>3, Kinds DEF IsFree
<1>2. QED
  BY <1>1, LogStaysInOrder, PTL

-----------------------------------------------------------------------------
(* Without an accident a page changes by an erase, or when it was free. *)
LEMMA FlashChanges ==
  ASSUME Inv, Next, damaged' = {}, pc # "erasing",
         NEW p \in Pages, flash'[p] # flash[p]
  PROVE  IsFree(p)
<1>1. CASE UNCHANGED flash
  BY <1>1
<1>2. CASE WritePage \/ (PowerLoss /\ pc = "write")
  <2>1. pc = "write" /\ g_page \in Nat
    BY <1>2 DEF WritePage, Inv, TypeOK
  <2>2. damaged' = IF g_page < PAGES THEN damaged ELSE damaged \cup {"overrun"}
    <3>1. CASE WritePage
      BY <3>1 DEF WritePage
    <3>2. CASE PowerLoss
      <4>1. g_page >= PAGES <=> ~(g_page < PAGES)
        BY <2>1, Sizes
      <4>2. damaged' =
              damaged \cup (IF g_page >= PAGES THEN {"overrun"} ELSE {})
        BY <2>1, <3>2 DEF PowerLoss
      <4>3. QED
        BY <4>1, <4>2
    <3>3. QED
      BY <1>2, <3>1, <3>2
  <2>3. \E c \in Interrupted(flash[Seek(g_page)], NewPage) :
           flash' = [flash EXCEPT ![Seek(g_page)] = c]
    <3>1. CASE WritePage
      <4>1. flash' = [flash EXCEPT ![Seek(g_page)] =
                        Program(flash[Seek(g_page)], NewPage)]
        BY <3>1, Zenon DEF WritePage, NewPage
      <4>2. Program(flash[Seek(g_page)], NewPage)
              \in Interrupted(flash[Seek(g_page)], NewPage)
        BY DEF Interrupted
      <4>3. QED
        BY <4>1, <4>2, Zenon
    <3>2. CASE PowerLoss
      <4>1. flash' \in {[flash EXCEPT ![Seek(g_page)] = c] :
                          c \in Interrupted(flash[Seek(g_page)], NewPage)}
        BY <2>1, <3>2 DEF PowerLoss, NewPage
      <4>2. QED
        BY <4>1, Zenon
    <3>3. QED
      BY <1>2, <3>1, <3>2
  <2>4. IsFree(g_page) /\ \A q \in Pages : q # g_page => flash'[q] = flash[q]
    BY <2>1, <2>2, <2>3, Written
  <2>5. QED
    BY <2>4
<1>3. CASE PowerLoss /\ pc # "write"
  <2>1. flash' \in {flash}
    BY <1>3 DEF PowerLoss
  <2>2. QED
    BY <1>1, <2>1
<1>4. CASE \/ \E in_programmer \in BOOLEAN : PowerOn(in_programmer)
           \/ Read \/ Press
  BY <1>1, <1>4 DEF PowerOn, Read, Press
<1>5. CASE LogProcess /\ ~WritePage
  BY <1>1, <1>5 DEF LogProcess, Sink, Poll
<1>6. CASE LogDump
  BY <1>1, <1>6 DEF LogDump, Measure, EraseDone, DumpPage, DumpDone
<1>7. QED
  BY <1>2, <1>3, <1>4, <1>5, <1>6 DEF Next

(* What was recorded survives every crash and restart until it is erased,   *)
(* whatever an interrupted programming leaves (log.c, flash.c).             *)
THEOREM RecordedPagesSurvive == Spec => PagesKept
<1>1. Inv /\ [Next]_vars =>
        [damaged' = {} =>
           \A p \in Pages : flash[p].kind = "page" /\ flash'[p] # flash[p]
                              => pc = "erasing"]_vars
  <2>1. SUFFICES ASSUME Inv, Next, damaged' = {}, pc # "erasing",
                        NEW p \in Pages, flash'[p] # flash[p]
                 PROVE  flash[p].kind # "page"
    OBVIOUS
  <2>2. QED
    BY <2>1, FlashChanges DEF IsFree
<1>2. QED
  BY <1>1, LogStaysInOrder, PTL DEF Spec, PagesKept

-----------------------------------------------------------------------------
(* The decoder loses its stream only over what was spoilt by an accident. *)
LEMMA DecoderFollows ==
  ASSUME Inv, ~BLANK_HEAD, Next, host.ok, damaged = {}
  PROVE  host'.ok
<1>1. CASE UNCHANGED host
  BY <1>1
<1>2. CASE DumpPage
  <2>1. /\ pc = "dump" /\ page < g_page
        /\ \E data \in IF awake THEN {flash[Seek(page)]} ELSE {Blank, Torn} :
              host' = PortRx(host, data)
    BY <1>2 DEF DumpPage
  <2>2. page \in Pages
    BY <2>1, Sizes DEF Inv, TypeOK, HostInv, Pages
  <2>3. PICK data \in PageStates :
           /\ host' = PortRx(host, data)
           /\ awake => data = flash[page]
           /\ ~awake => data = Blank \/ data = Torn
    <3>1. CASE awake
      BY <2>1, <2>2, <3>1, SeekIsPage DEF Inv, TypeOK
    <3>2. CASE ~awake
      BY <2>1, <3>2, Kinds
    <3>3. QED
      BY <3>1, <3>2
  <2>4. CASE data.kind \in {"blank", "tornblank"}
    <3>1. host' = Fresh
      BY <2>3, <2>4, Zenon DEF PortRx
    <3>2. QED
      BY <3>1 DEF Fresh
  <2>5. CASE data.kind = "torn"
    <3>1. data.kind \notin {"blank", "tornblank"} /\ data.kind # "page"
      BY <2>5
    <3>2. host' = host
      BY <2>3, <2>5, <3>1, Zenon DEF PortRx
    <3>3. QED
      BY <3>2
  <2>6. CASE data.kind = "page"
    <3>1. data.kind \notin {"blank", "tornblank"} /\ data.kind # "torn"
      BY <2>6
    <3>2. host' = Decode(IF data.first THEN Fresh ELSE host, data.data)
      BY <2>3, <2>6, <3>1, Zenon DEF PortRx
    <3>3. awake /\ data = flash[page]
      BY <2>3, <2>6, Kinds
    <3>4. Intact
      BY DEF Intact
    <3>5. Decode(IF flash[page].first THEN Fresh ELSE host, flash[page].data).ok
      BY <2>1, <2>6, <3>3, <3>4, PageDecoded
    <3>6. QED
      BY <3>2, <3>3, <3>5
  <2>7. QED
    BY <2>3, <2>4, <2>5, <2>6, Kinds
<1>3. CASE \/ \E in_programmer \in BOOLEAN : PowerOn(in_programmer)
           \/ Read \/ Press \/ PowerLoss
  BY <1>1, <1>3 DEF PowerOn, Read, Press, PowerLoss, dump
<1>4. CASE LogProcess
  BY <1>1, <1>4 DEF LogProcess, Sink, Poll, WritePage, dump
<1>5. CASE LogDump /\ ~DumpPage
  BY <1>1, <1>5 DEF LogDump, Measure, EraseDone, DumpDone, dump
<1>6. QED
  BY <1>2, <1>3, <1>4, <1>5 DEF Next

(* If an interrupted programming never leaves the first word of a page      *)
(* erased, the host decodes each group as one stream without a gap: what it *)
(* reconstructs was logged (log.c 222-247, tag-dumper.c 119-150).           *)
THEOREM DumpMatchesTheLog ==
  ASSUME ~BLANK_HEAD
  PROVE  Spec => DumpedAsRecorded
<1>1. Inv /\ [Next]_vars => [host.ok /\ ~host'.ok => damaged # {}]_vars
  BY DecoderFollows
<1>2. QED
  BY <1>1, LogStaysInOrder, PTL DEF Spec, DumpedAsRecorded
=============================================================================
