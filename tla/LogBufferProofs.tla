-------------------------- MODULE LogBufferProofs --------------------------
(***************************************************************************)
(* Proofs about LogBuffer, for every ring size, entry size and data: the   *)
(* inductive invariant, that the interrupt leaves unread slots alone, and  *)
(* that the ring implements LossyFifo.                                     *)
(***************************************************************************)
EXTENDS LogBuffer, SequenceLemmas

Inv == TypeOK /\ RingInv

-----------------------------------------------------------------------------
(* Incrementing and wrapping keeps an index inside the ring. *)
LEMMA WrapInSlots ==
  ASSUME NEW i \in 0 .. 2 * LOG_BUFFER_COUNT - 1
  PROVE  Wrap(i) \in Slots
  BY LogBufferAssumption DEF Wrap, Slots

(* The i-th unread slot as one case split on the head, which is what the    *)
(* arithmetic below needs.                                                  *)
LEMMA SlotOfValue ==
  ASSUME TypeOK, NEW i \in 1 .. count
  PROVE  /\ SlotOf(i) \in Slots
         /\ SlotOf(i) = IF head - count + i - 1 >= 0
                        THEN head - count + i - 1
                        ELSE head - count + i - 1 + LOG_BUFFER_COUNT
  BY LogBufferAssumption DEF TypeOK, SlotOf, Oldest, Wrap, Slots

(* The oldest slot is inside the ring, and it is the head of a full or an   *)
(* empty one.                                                               *)
LEMMA OldestInSlots ==
  ASSUME TypeOK
  PROVE  /\ Oldest \in Slots
         /\ count > 0 => SlotOf(1) = Oldest
  BY LogBufferAssumption DEF TypeOK, SlotOf, Oldest, Wrap, Slots

(* A ring that is not full has no unread sighting at its head: the slot the *)
(* interrupt writes is free.                                                *)
LEMMA HeadIsFree ==
  ASSUME TypeOK, count < LOG_BUFFER_COUNT, NEW i \in 1 .. count
  PROVE  SlotOf(i) # head
  BY SlotOfValue, LogBufferAssumption DEF TypeOK, Slots

-----------------------------------------------------------------------------
(* The invariant holds initially: .bss is cleared and nothing was logged. *)
LEMMA InvInit == Init => Inv
  BY LogBufferAssumption, WrapInSlots
     DEF Init, Inv, TypeOK, RingInv, Slots, Entry, Blank, Oldest, Wrap

(* The interrupt preserves the invariant at whatever point of log_read it   *)
(* hits: it advances the head and the count together, which leaves the      *)
(* oldest slot where it is.                                                 *)
LEMMA InvLogSighting ==
  ASSUME Inv, NEW s \in Sightings, LogSighting(s)
  PROVE  Inv'
<1>1. CASE count < LOG_BUFFER_COUNT
  <2>1. /\ buffer' = [buffer EXCEPT ![head] = s]
        /\ head' = Wrap(head + 1)
        /\ count' = count + 1
        /\ UNCHANGED <<tail, pc, src, copied, log, got>>
    BY <1>1 DEF LogSighting
  <2>2. TypeOK'
    BY <1>1, <2>1, LogBufferAssumption DEF Inv, TypeOK, Slots, Wrap
  <2>3. Oldest' = Oldest
    BY <1>1, <2>1, LogBufferAssumption DEF Inv, TypeOK, Slots, Wrap, Oldest
  <2>4. pc = "memcpy" => buffer'[src] = buffer[src]
    <3>1. SUFFICES ASSUME pc = "memcpy"
                   PROVE  src # head
      BY <2>1, <3>1 DEF Inv, TypeOK
    <3>2. count \in 1 .. LOG_BUFFER_COUNT /\ src = SlotOf(1)
      BY <3>1, OldestInSlots DEF Inv, TypeOK, RingInv
    <3>3. QED
      BY <1>1, <3>2, HeadIsFree DEF Inv, TypeOK
  <2>5. RingInv'
    BY <2>1, <2>3, <2>4 DEF Inv, RingInv, TypeOK
  <2>6. QED
    BY <2>2, <2>5 DEF Inv
<1>2. CASE ~(count < LOG_BUFFER_COUNT)
  BY <1>2 DEF LogSighting, Inv, TypeOK, RingInv, Oldest, Wrap
<1>3. QED
  BY <1>1, <1>2

(* Taking the tail slot preserves the invariant. *)
LEMMA InvReadStart ==
  ASSUME Inv, ReadStart
  PROVE  Inv'
<1>1. tail = Oldest /\ tail \in Slots
  BY OldestInSlots DEF Inv, ReadStart, RingInv
<1>2. TypeOK'
  BY <1>1, LogBufferAssumption DEF Inv, TypeOK, ReadStart, Slots
<1>3. RingInv'
  BY <1>1 DEF Inv, TypeOK, RingInv, ReadStart, Oldest, Wrap
<1>4. QED
  BY <1>2, <1>3 DEF Inv

(* Moving a word preserves the invariant. *)
LEMMA InvCopyWord ==
  ASSUME Inv, CopyWord
  PROVE  Inv'
<1>1. copied + 1 \in 1..WORDS
  BY LogBufferAssumption DEF Inv, TypeOK, CopyWord
<1>2. buffer[src] \in Entry
  BY DEF Inv, TypeOK
<1>3. TypeOK'
  BY <1>1, <1>2, LogBufferAssumption DEF Inv, TypeOK, CopyWord, Entry
<1>4. ASSUME NEW w \in 1 .. copied + 1
      PROVE  log'[w] = buffer[src][w]
  BY <1>1 DEF Inv, TypeOK, RingInv, CopyWord, Entry
<1>5. RingInv'
  BY <1>4 DEF Inv, TypeOK, RingInv, CopyWord, Oldest, Wrap
<1>6. QED
  BY <1>3, <1>5 DEF Inv

(* Releasing the slot moves the oldest sighting on to the wrapped tail. *)
LEMMA InvReadDone ==
  ASSUME Inv, ReadDone
  PROVE  Inv'
<1>1. /\ count \in 1 .. LOG_BUFFER_COUNT
      /\ tail = Oldest + 1
      /\ Oldest \in Slots
  BY OldestInSlots DEF Inv, TypeOK, RingInv, ReadDone
<1>2. TypeOK'
  BY <1>1, LogBufferAssumption DEF Inv, TypeOK, ReadDone, Slots, Wrap
<1>3. tail' = Oldest'
  BY <1>1, LogBufferAssumption DEF Inv, TypeOK, ReadDone, Slots, Wrap, Oldest
<1>4. RingInv'
  BY <1>3 DEF RingInv, ReadDone
<1>5. QED
  BY <1>2, <1>4 DEF Inv

LEMMA InvStep == Inv /\ [Next]_vars => Inv'
<1> SUFFICES ASSUME Inv, [Next]_vars
             PROVE  Inv'
  OBVIOUS
<1>1. ASSUME NEW s \in Sightings, LogSighting(s)
      PROVE  Inv'
  BY <1>1, InvLogSighting
<1>2. CASE ReadStart
  BY <1>2, InvReadStart
<1>3. CASE CopyWord
  BY <1>3, InvCopyWord
<1>4. CASE ReadDone
  BY <1>4, InvReadDone
<1>5. CASE UNCHANGED vars
  BY <1>5 DEF Inv, TypeOK, RingInv, Oldest, Wrap, vars
<1>6. QED
  BY <1>1, <1>2, <1>3, <1>4, <1>5 DEF Next, LogRead

(* Type correctness and the agreement of the two ends of the ring, for every *)
(* ring and entry size.                                                      *)
THEOREM RingInvariant == Spec => [](TypeOK /\ RingInv)
<1>1. Init => Inv
  BY InvInit
<1>2. Inv /\ [Next]_vars => Inv'
  BY InvStep
<1>3. QED
  BY <1>1, <1>2, PTL DEF Spec, Inv

(* Every variable of the sighting ring stays in its range: neither side of  *)
(* it leaves the ring (log.c 129-165).                                      *)
THEOREM TypesOfTheRing == Spec => []TypeOK
  BY RingInvariant, PTL

-----------------------------------------------------------------------------
(* No step writes a slot that holds a sighting log_read has still to return: *)
(* the interrupt cannot tear or overwrite the entry being copied.            *)
THEOREM UnreadIsKept == Spec => UnreadKept
<1>1. Inv /\ [Next]_vars => [\A s \in Unread : buffer'[s] = buffer[s]]_vars
  <2> SUFFICES ASSUME Inv, [Next]_vars, NEW i \in 1 .. count
               PROVE  buffer'[SlotOf(i)] = buffer[SlotOf(i)]
    BY DEF Unread
  <2>1. ASSUME NEW s \in Sightings, LogSighting(s)
        PROVE  buffer'[SlotOf(i)] = buffer[SlotOf(i)]
    <3>1. CASE count < LOG_BUFFER_COUNT
      <4>1. SlotOf(i) \in Slots /\ SlotOf(i) # head
        BY <3>1, HeadIsFree, SlotOfValue DEF Inv
      <4>2. QED
        BY <2>1, <3>1, <4>1 DEF LogSighting, Inv, TypeOK
    <3>2. CASE ~(count < LOG_BUFFER_COUNT)
      BY <2>1, <3>2 DEF LogSighting
    <3>3. QED
      BY <3>1, <3>2
  <2>2. CASE LogRead \/ UNCHANGED vars
    BY <2>2 DEF LogRead, ReadStart, CopyWord, ReadDone, vars
  <2>3. QED
    BY <2>1, <2>2 DEF Next
<1>2. QED
  BY <1>1, RingInvariant, PTL DEF Spec, UnreadKept, Inv

-----------------------------------------------------------------------------
(* Two sightings with the same words are equal. *)
LEMMA SameEntry ==
  ASSUME NEW e \in Entry, NEW f \in Entry, \A w \in 1..WORDS : e[w] = f[w]
  PROVE  e = f
<1>1. e = [w \in 1..WORDS |-> e[w]] /\ f = [w \in 1..WORDS |-> f[w]]
  BY DEF Entry
<1>2. [w \in 1..WORDS |-> e[w]] = [w \in 1..WORDS |-> f[w]]
  OBVIOUS
<1>3. QED
  BY <1>1, <1>2

(* The unread sightings form a sequence as long as the count. *)
LEMMA QueueIsSeq ==
  ASSUME TypeOK
  PROVE  /\ Queue \in Seq(Entry)
         /\ Len(Queue) = count
         /\ \A i \in 1 .. count : Queue[i] = buffer[SlotOf(i)]
<1>1. \A i \in 1 .. count : buffer[SlotOf(i)] \in Entry
  BY SlotOfValue DEF TypeOK
<1>2. count \in Nat /\ Queue \in [1 .. count -> Entry]
  BY <1>1, LogBufferAssumption DEF TypeOK, Queue
<1>3. QED
  BY <1>2, FunctionIsSeq DEF Queue

(* Logging a sighting into a ring with room is Offer: the slot written      *)
(* becomes the youngest unread one, and the others keep place and content.  *)
LEMMA LogSightingOffers ==
  ASSUME Inv, NEW s \in Sightings, LogSighting(s), count < LOG_BUFFER_COUNT
  PROVE  Fifo!Offer(s)
<1>1. /\ buffer' = [buffer EXCEPT ![head] = s]
      /\ head' = Wrap(head + 1)
      /\ count' = count + 1
      /\ got' = got
  BY DEF LogSighting
<1>2. TypeOK /\ s \in Entry
  BY LogBufferAssumption DEF Inv
<1>3. \A i \in 1 .. count + 1 : SlotOf(i)' = SlotOf(i)
  <2>1. Oldest' = Oldest
    BY <1>1, <1>2, LogBufferAssumption DEF TypeOK, Slots, Wrap, Oldest
  <2>2. QED
    BY <2>1 DEF SlotOf, Wrap
<1>4. \A i \in 1 .. count : buffer'[SlotOf(i)] = buffer[SlotOf(i)]
  BY <1>1, <1>2, SlotOfValue, HeadIsFree DEF TypeOK
<1>5. buffer'[SlotOf(count + 1)] = s
  <2>1. SlotOf(count + 1) = head
    BY <1>2, LogBufferAssumption DEF TypeOK, Slots, SlotOf, Wrap, Oldest
  <2>2. QED
    BY <1>1, <1>2, <2>1 DEF TypeOK
<1>6. /\ Queue \in Seq(Entry) /\ Len(Queue) = count /\ count \in Nat
      /\ \A i \in 1 .. count : Queue[i] = buffer[SlotOf(i)]
  BY <1>2, QueueIsSeq, LogBufferAssumption DEF TypeOK
<1>7. \A i \in 1 .. count + 1 : Queue'[i] = IF i <= count THEN Queue[i] ELSE s
  <2>1. \A i \in 1 .. count + 1 : Queue'[i] = buffer'[SlotOf(i)]
    BY <1>1, <1>3 DEF Queue
  <2>2. QED
    BY <1>4, <1>5, <1>6, <2>1
<1>8. Queue' \in Seq(Entry) /\ Len(Queue') = count + 1
  <2>1. Queue' \in [1 .. count + 1 -> Entry]
    <3>1. \A i \in 1 .. count + 1 : Queue'[i] \in Entry
      BY <1>2, <1>6, <1>7, ElementOfSeq
    <3>2. QED
      BY <1>1, <3>1 DEF Queue
  <2>2. QED
    BY <1>6, <2>1, FunctionIsSeq
<1>9. Queue' = Append(Queue, s)
  <2>1. /\ Append(Queue, s) \in Seq(Entry)
        /\ Len(Append(Queue, s)) = count + 1
        /\ \A i \in 1 .. count + 1 :
             Append(Queue, s)[i] = IF i <= count THEN Queue[i] ELSE s
    BY <1>2, <1>6
  <2>2. QED
    BY <1>7, <1>8, <2>1, SeqEqual
<1>10. QED
  BY <1>1, <1>6, <1>9 DEF Fifo!Offer

(* Releasing the oldest slot is Take: memcpy has moved every word of it.    *)
LEMMA ReadDoneTakes ==
  ASSUME Inv, ReadDone
  PROVE  Fifo!Take
<1>1. /\ count \in Nat \ {0}
      /\ count' = count - 1
      /\ UNCHANGED <<buffer, head>>
      /\ got' = log
  BY LogBufferAssumption DEF Inv, TypeOK, RingInv, ReadDone
<1>2. TypeOK /\ src = SlotOf(1)
  BY OldestInSlots, LogBufferAssumption DEF Inv, TypeOK, RingInv, ReadDone
<1>3. log = buffer[SlotOf(1)]
  <2>1. log \in Entry /\ buffer[src] \in Entry
    BY DEF Inv, TypeOK
  <2>2. \A w \in 1..WORDS : log[w] = buffer[src][w]
    BY DEF Inv, RingInv, ReadDone
  <2>3. log = buffer[src]
    BY <2>1, <2>2, SameEntry
  <2>4. QED
    BY <1>2, <2>3
<1>4. \A i \in 1 .. count - 1 : SlotOf(i)' = SlotOf(i + 1)
  BY <1>1, <1>2, LogBufferAssumption DEF TypeOK, Slots, Wrap, Oldest, SlotOf
<1>5. /\ Queue \in Seq(Entry) /\ Len(Queue) = count
      /\ \A i \in 1 .. count : Queue[i] = buffer[SlotOf(i)]
  BY <1>2, QueueIsSeq
<1>6. \A i \in 1 .. count - 1 : Queue'[i] = Queue[i + 1]
  <2>1. \A i \in 1 .. count - 1 : Queue'[i] = buffer[SlotOf(i)']
    BY <1>1 DEF Queue
  <2>2. QED
    BY <1>1, <1>4, <1>5, <2>1
<1>7. Queue' \in Seq(Entry) /\ Len(Queue') = count - 1
  <2>1. Queue' \in [1 .. count - 1 -> Entry]
    <3>1. \A i \in 1 .. count - 1 : Queue'[i] \in Entry
      BY <1>1, <1>5, <1>6, ElementOfSeq
    <3>2. QED
      BY <1>1, <3>1 DEF Queue
  <2>2. QED
    BY <1>1, <2>1, FunctionIsSeq
<1>8. Queue # <<>>
  BY <1>1, <1>5
<1>9. Queue' = Tail(Queue)
  BY <1>1, <1>5, <1>6, <1>7, <1>8, HeadTailProperties, SeqEqual
<1>10. got' = Head(Queue)
  BY <1>1, <1>3, <1>5
<1>11. QED
  BY <1>8, <1>9, <1>10 DEF Fifo!Take

(* The ring implements the lossy queue: every accepted sighting is returned *)
(* once, whole and in order, however the interrupt and log_read interleave. *)
THEOREM RingImplementsFifo == Spec => ImplementsFifo
<1>1. Init => Fifo!FifoInit
  <2> SUFFICES ASSUME Init
               PROVE  Queue = <<>> /\ got \in Entry
    BY DEF Fifo!FifoInit
  <2>1. TypeOK /\ count = 0
    BY InvInit DEF Inv, Init
  <2>2. QED
    BY <2>1, QueueIsSeq, EmptySeq DEF TypeOK
<1>2. Inv /\ [Next]_vars => [Fifo!FifoNext]_(Fifo!fifoVars)
  <2> SUFFICES ASSUME Inv, [Next]_vars
               PROVE  Fifo!FifoNext \/ UNCHANGED <<Queue, got>>
    BY DEF Fifo!fifoVars
  <2>1. ASSUME NEW s \in Sightings, LogSighting(s)
        PROVE  Fifo!FifoNext \/ UNCHANGED <<Queue, got>>
    <3>1. CASE count < LOG_BUFFER_COUNT
      BY <2>1, <3>1, LogSightingOffers, LogBufferAssumption DEF Fifo!FifoNext
    <3>2. CASE ~(count < LOG_BUFFER_COUNT)
      BY <2>1, <3>2 DEF LogSighting, Queue, SlotOf, Oldest, Wrap
    <3>3. QED
      BY <3>1, <3>2
  <2>2. CASE ReadDone
    BY <2>2, ReadDoneTakes DEF Fifo!FifoNext
  <2>3. CASE ReadStart \/ CopyWord \/ UNCHANGED vars
    BY <2>3 DEF ReadStart, CopyWord, vars, Queue, SlotOf, Oldest, Wrap
  <2>4. QED
    BY <2>1, <2>2, <2>3 DEF Next, LogRead
<1>3. QED
  BY <1>1, <1>2, RingInvariant, PTL
     DEF Spec, Inv, ImplementsFifo, Fifo!FifoSpec
=============================================================================
