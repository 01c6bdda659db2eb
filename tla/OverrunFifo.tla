---------------------------- MODULE OverrunFifo ----------------------------
(***************************************************************************)
(* What the packet ring of the readers promises to the main loop: a        *)
(* first-in first-out queue, as LossyFifo, as long as there is room.  The  *)
(* radio does not wait, so that a packet that begins while the queue is    *)
(* full may destroy what waits, and may itself arrive damaged.  What waits *)
(* and is destroyed is still handed out, as anything.                      *)
(***************************************************************************)
EXTENDS Naturals, Sequences

CONSTANTS
  Items,      (* what can be offered and handed out                        *)
  Capacity,   (* how many items may wait without harm                      *)
  Any         (* stands in the queue for an item that was destroyed        *)

VARIABLES
  queue,      (* accepted and not handed out yet                           *)
  hit,        (* an overrun reached the item that is still being received  *)
  taken       (* the item handed out last                                  *)

overrunVars == <<queue, hit, taken>>

OverrunInit ==
  /\ queue = <<>>
  /\ hit = FALSE
  /\ taken \in Items

(* Accept an item, with the harm that an earlier overrun did to it. *)
Offer(item) ==
  /\ Len(queue) < Capacity
  /\ queue' = Append(queue, IF hit THEN Any ELSE item)
  /\ hit' = FALSE
  /\ UNCHANGED taken

(* What waits in a full queue, or some of it, is lost; the queue may grow. *)
Overrun ==
  /\ Len(queue) >= Capacity
  /\ \E lost \in SUBSET (1..Len(queue)), more \in {<<>>, <<Any>>} :
       queue' = [i \in 1..Len(queue) |-> IF i \in lost THEN Any ELSE queue[i]]
                  \o more
  /\ hit' \in BOOLEAN
  /\ UNCHANGED taken

(* The item that was being received is refused. *)
Refuse ==
  /\ hit' = FALSE
  /\ UNCHANGED <<queue, taken>>

(* Hand out the oldest item. *)
Take ==
  /\ queue # <<>>
  /\ taken' \in IF Head(queue) = Any THEN Items ELSE {Head(queue)}
  /\ queue' = Tail(queue)
  /\ UNCHANGED hit

OverrunNext == Take \/ Overrun \/ Refuse \/ \E item \in Items : Offer(item)

OverrunSpec == OverrunInit /\ [][OverrunNext]_overrunVars
=============================================================================
