----------------------------- MODULE LossyFifo -----------------------------
(***************************************************************************)
(* What the sighting ring of the proximity tag (tag-proximity/src/log.c)   *)
(* and the transmit buffer of the serial port (core/openbeacon/src/uart.c) *)
(* promise to their two sides: a first-in first-out queue of at most       *)
(* Capacity items.  An item offered to a full queue is lost and leaves no  *)
(* trace; an item that was accepted is handed out exactly once, complete,  *)
(* and in the order of acceptance.                                         *)
(***************************************************************************)
EXTENDS Naturals, Sequences

CONSTANTS
  Items,    (* what can be offered                        *)
  Capacity  (* how many items may wait at the same time   *)

VARIABLES
  queue,    (* accepted and not handed out yet            *)
  taken     (* the item handed out last                   *)

fifoVars == <<queue, taken>>

FifoInit ==
  /\ queue = <<>>
  /\ taken \in Items

(* Accept an item.  Refusing one is a stuttering step. *)
Offer(item) ==
  /\ Len(queue) < Capacity
  /\ queue' = Append(queue, item)
  /\ UNCHANGED taken

(* Hand out the oldest item. *)
Take ==
  /\ queue # <<>>
  /\ taken' = Head(queue)
  /\ queue' = Tail(queue)

FifoNext == Take \/ \E item \in Items : Offer(item)

FifoSpec == FifoInit /\ [][FifoNext]_fifoVars
=============================================================================
