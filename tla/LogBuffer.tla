----------------------------- MODULE LogBuffer -----------------------------
(***************************************************************************)
(* The ring of proximity sightings between the radio interrupt and the     *)
(* main loop of the proximity tag                                          *)
(* (firmware/nRF51/tag-proximity/src/log.c, TLogBuffer g_log).             *)
(*                                                                         *)
(* log_sighting runs inside RADIO_IRQ_Handler: the main loop cannot        *)
(* interrupt it, so it is one action.  log_read runs in the main loop and  *)
(* the interrupt may hit it between any two of its memory accesses: the    *)
(* test of g_log.count, every word memcpy moves, and the decrement, which  *)
(* alone is protected by __disable_irq.                                    *)
(***************************************************************************)
EXTENDS Integers, Sequences

CONSTANTS
  LOG_BUFFER_COUNT,  (* CONFIG_LOG_BUFFER_COUNT                            *)
  WORDS,             (* words of a TBeaconProxSighting, moved one by one   *)
  Data,              (* what a word may hold                               *)
  Zero,              (* the word the C runtime clears g_log with           *)
  Sightings          (* the sightings the radio may log                    *)

Entry == [1..WORDS -> Data]

ASSUME LogBufferAssumption ==
  /\ LOG_BUFFER_COUNT \in Nat \ {0}
  /\ WORDS \in Nat \ {0}
  /\ Zero \in Data
  /\ Sightings \subseteq Entry

VARIABLES
  buffer, head, tail, count,  (* the fields of g_log                       *)
  pc,                         (* where the main loop is in log_read        *)
  src,                        (* the slot memcpy reads from                *)
  copied,                     (* words memcpy has moved so far             *)
  log,                        (* the caller's entry memcpy writes to       *)
  got                         (* the entry the last log_read returned 1 for *)

vars == <<buffer, head, tail, count, pc, src, copied, log, got>>

Slots == 0 .. LOG_BUFFER_COUNT - 1
Blank == [w \in 1..WORDS |-> Zero]

(* The wrap-around of an index that was just incremented. *)
Wrap(i) == IF i >= LOG_BUFFER_COUNT THEN i - LOG_BUFFER_COUNT ELSE i

Init ==
  /\ buffer = [s \in Slots |-> Blank]
  /\ head = 0 /\ tail = 0 /\ count = 0
  /\ pc = "log_read" /\ src = 0 /\ copied = 0
  /\ log = Blank /\ got = Blank

-----------------------------------------------------------------------------
(* Faulty variants, each named for its fault: the runs must tell them from  *)
(* the code.                                                                *)
LogSightingOffByOne(s) ==
  /\ IF count <= LOG_BUFFER_COUNT
     THEN /\ buffer' = [buffer EXCEPT ![head] = s]
          /\ head' = Wrap(head + 1)
          /\ count' = count + 1
     ELSE UNCHANGED <<buffer, head, count>>
  /\ UNCHANGED <<tail, pc, src, copied, log, got>>

LogSightingOverOldest(s) ==
  /\ buffer' = [buffer EXCEPT ![head] = s]
  /\ head' = Wrap(head + 1)
  /\ count' = IF count < LOG_BUFFER_COUNT THEN count + 1 ELSE count
  /\ UNCHANGED <<tail, pc, src, copied, log, got>>

ReadStartPreIncrement ==
  /\ pc = "log_read"
  /\ count # 0
  /\ src' = Wrap(tail + 1)
  /\ tail' = tail + 1
  /\ copied' = 0
  /\ pc' = "memcpy"
  /\ UNCHANGED <<buffer, head, count, log, got>>

ReadDoneNoWrap ==
  /\ pc = "memcpy"
  /\ copied = WORDS
  /\ count' = count - 1
  /\ got' = log
  /\ pc' = "log_read"
  /\ UNCHANGED <<buffer, head, tail, src, copied, log>>

ReadDoneNoRelease ==
  /\ pc = "memcpy"
  /\ copied = WORDS
  /\ tail' = Wrap(tail)
  /\ got' = log
  /\ pc' = "log_read"
  /\ UNCHANGED <<buffer, head, count, src, copied, log>>

(* Radio interrupt: store the sighting, or lose it when the ring is full. *)
LogSighting(s) ==
  /\ IF count < LOG_BUFFER_COUNT
     THEN /\ buffer' = [buffer EXCEPT ![head] = s]
          /\ head' = Wrap(head + 1)
          /\ count' = count + 1
     ELSE UNCHANGED <<buffer, head, count>>
  /\ UNCHANGED <<tail, pc, src, copied, log, got>>

(* Main loop: an empty ring makes log_read return 0, which changes nothing; *)
(* otherwise memcpy is called with the tail slot.                           *)
ReadStart ==
  /\ pc = "log_read"
  /\ count # 0
  /\ src' = tail
  /\ tail' = tail + 1
  /\ copied' = 0
  /\ pc' = "memcpy"
  /\ UNCHANGED <<buffer, head, count, log, got>>

(* memcpy moves the next word. *)
CopyWord ==
  /\ pc = "memcpy"
  /\ copied < WORDS
  /\ log' = [log EXCEPT ![copied + 1] = buffer[src][copied + 1]]
  /\ copied' = copied + 1
  /\ UNCHANGED <<buffer, head, tail, count, pc, src, got>>

(* tail is private to the main loop; the decrement runs with interrupts off. *)
ReadDone ==
  /\ pc = "memcpy"
  /\ copied = WORDS
  /\ tail' = Wrap(tail)
  /\ count' = count - 1
  /\ got' = log
  /\ pc' = "log_read"
  /\ UNCHANGED <<buffer, head, src, copied, log>>

LogRead == ReadStart \/ CopyWord \/ ReadDone

Next == LogRead \/ \E s \in Sightings : LogSighting(s)

Spec == Init /\ [][Next]_vars

(* The main loop calls log_process again and again, and a pending interrupt *)
(* delays it but does not stop it.  Nothing forces the radio to see a tag.  *)
FairSpec == Spec /\ WF_vars(LogRead)

-----------------------------------------------------------------------------
(* The slot of the oldest sighting that log_read has not released. *)
Oldest == Wrap(head + LOG_BUFFER_COUNT - count)

(* The slot of the i-th oldest one. *)
SlotOf(i) == Wrap(Oldest + i - 1)

(* Every slot that holds a sighting log_read has still to return. *)
Unread == {SlotOf(i) : i \in 1..count}

Queue == [i \in 1..count |-> buffer[SlotOf(i)]]

Fifo == INSTANCE LossyFifo
          WITH Items <- Entry, Capacity <- LOG_BUFFER_COUNT,
               queue <- Queue, taken <- got

(* The ring is the first-in first-out queue of LossyFifo: whatever the      *)
(* interrupt does between the words of a memcpy, log_read returns each      *)
(* accepted sighting once, whole and in order (log.c 119-165).              *)
ImplementsFifo == Fifo!FifoSpec

(* Every variable of g_log and of log_read stays in its range; the tail may *)
(* only stand one past the end while log_read has not wrapped it.           *)
TypeOK ==
  /\ buffer \in [Slots -> Entry]
  /\ head \in Slots
  /\ tail \in 0 .. LOG_BUFFER_COUNT
  /\ count \in 0 .. LOG_BUFFER_COUNT
  /\ pc \in {"log_read", "memcpy"}
  /\ src \in Slots
  /\ copied \in 0 .. WORDS
  /\ log \in Entry
  /\ got \in Entry

(* log_read and log_sighting agree on the ring: between calls the tail is   *)
(* the oldest sighting, and during one the slot being copied is still       *)
(* counted as unread and the words moved so far are those it holds.         *)
RingInv ==
  /\ pc = "log_read" => tail = Oldest
  /\ pc = "memcpy" =>
       /\ count # 0
       /\ src = Oldest
       /\ tail = src + 1
       /\ \A w \in 1..copied : log[w] = buffer[src][w]

(* The radio interrupt never writes a slot that log_read has still to       *)
(* return, in particular not the one it is copying from (log.c 131-144).    *)
UnreadKept == [][\A s \in Unread : buffer'[s] = buffer[s]]_vars

(* A sighting that was accepted does not stay in the ring: the main loop    *)
(* returns every one of them, however many follow it.                       *)
EverySightingRead == \A s \in Slots : s \in Unread ~> s \notin Unread
=============================================================================
