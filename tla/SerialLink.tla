----------------------------- MODULE SerialLink -----------------------------
(***************************************************************************)
(* The serial line between the tag in the programmer and the host:         *)
(* log_dump and log_dump_escaped of                                        *)
(* firmware/nRF51/tag-proximity/src/log.c write frames, the loop in main   *)
(* of host/tag-dumper/tag-dumper.c takes them apart and calls port_rx.     *)
(*                                                                         *)
(* A frame is 0xFF, its type and its data, in which 0xFF is followed by    *)
(* 0x00; only the header of the next frame ends it.  The host may be       *)
(* started while the tag is sending, and the line may lose bytes.          *)
(***************************************************************************)
EXTENDS Integers, SequencesExt

CONSTANTS
  Data,         (* the byte values that data is made of, besides 0xFF      *)
  PAGE,         (* bytes in a page                                         *)
  TagId,        (* the bytes of the tag ID                                 *)
  Text,         (* what debug_printf writes between the transmissions      *)
  BUFFER_SIZE,  (* the size of buffer_out                                  *)
  MAX_PAGES,    (* bound on the pages of a dump                            *)
  MAX_LOST      (* bound on the bytes the line loses                       *)

FF == 255

ASSUME SerialLinkAssumption ==
  /\ Data \subseteq 0..254
  /\ \A n \in {PAGE, BUFFER_SIZE} : n \in Nat \ {0}
  /\ MAX_PAGES \in Nat /\ MAX_LOST \in Nat
  /\ \A t \in {TagId, Text} : t \in Seq(0..FF) /\ Len(t) <= BUFFER_SIZE
  /\ TagId # <<>> /\ PAGE <= BUFFER_SIZE
  /\ ToSet(Text) \cap {0, 1, 2, 3, FF} = {}

VARIABLES
  stage,      (* what log_dump sends next                                  *)
  pages,      (* pages sent in this dump                                   *)
  out,        (* the bytes still to be put on the line                     *)
  frame,      (* the frame being sent                                      *)
  before,     (* the frame before it                                       *)
  clean,      (* frames in a row, with this one, whose bytes the host got  *)
  attached,   (* tag-dumper is running                                     *)
  escaped, overflow, last_type, buffer_out,   (* its variables             *)
  delivered,  (* <<f>> if this step called port_rx with f, else <<>>       *)
  lost        (* bytes lost on the line                                    *)

tag == <<stage, pages, out, frame, before>>
host == <<escaped, overflow, last_type, buffer_out, delivered>>
vars == <<tag, host, clean, attached, lost>>

Frame(type, data) == [type |-> type, data |-> data]
Pages == [1..PAGE -> Data \cup {FF}]

Init ==
  /\ stage = "text" /\ pages = 0 /\ out = <<>>
  /\ frame = Frame(0, <<>>) /\ before = frame
  /\ clean = 0 /\ attached = FALSE /\ lost = 0
  /\ escaped = FALSE /\ overflow = FALSE /\ last_type = 0 /\ buffer_out = <<>>
  /\ delivered = <<>>

-----------------------------------------------------------------------------
(* A faulty variant, as all definitions that end in Fault: the runs must    *)
(* tell them from the code.  Here 0xFF is not escaped.                      *)
EscapedFault(data) == data

Escaped(data) ==
  FlattenSeq([n \in DOMAIN data |->
                IF data[n] = FF THEN <<FF, 0>> ELSE <<data[n]>>])

(* log_dump_escaped, or the two bytes of a frame without data. *)
DumpEscaped(f) ==
  /\ out = <<>>
  /\ out' = <<FF, f.type>> \o Escaped(f.data)
  /\ before' = frame /\ frame' = f
  /\ clean' = IF attached THEN Min({clean + 1, 4}) ELSE 0
  /\ delivered' = <<>>
  /\ UNCHANGED <<attached, lost, escaped, overflow, last_type, buffer_out>>

(* The transmission start, while waiting and at the start of a dump. *)
Announce ==
  /\ stage = "announce" /\ stage' = "end"
  /\ DumpEscaped(Frame(1, TagId))
  /\ UNCHANGED pages

(* While nobody presses the button the announcement is repeated; when       *)
(* somebody does, there is text, and pages follow the next one.             *)
AnnounceEnd ==
  /\ stage = "end" /\ stage' \in {"announce", "text", "pages"}
  /\ DumpEscaped(Frame(3, <<>>))
  /\ pages' = 0

DumpPage(data) ==
  /\ stage = "pages" /\ UNCHANGED stage
  /\ pages < MAX_PAGES /\ pages' = pages + 1
  /\ DumpEscaped(Frame(2, data))

DumpEnd ==
  /\ stage = "pages" /\ stage' = "text"
  /\ DumpEscaped(Frame(3, <<>>))
  /\ UNCHANGED pages

(* debug_printf writes to the same port, before the first announcement too. *)
PrintText ==
  /\ stage = "text" /\ stage' = "announce"
  /\ out = <<>> /\ out' = Text
  /\ delivered' = <<>>
  /\ UNCHANGED <<pages, frame, before, clean, attached, lost, escaped,
                 overflow, last_type, buffer_out>>

-----------------------------------------------------------------------------
(* buffer_out[pos++] = byte, if it fits. *)
Store(byte) ==
  /\ IF Len(buffer_out) < BUFFER_SIZE
     THEN buffer_out' = Append(buffer_out, byte) /\ UNCHANGED overflow
     ELSE overflow' = TRUE /\ UNCHANGED buffer_out
  /\ delivered' = <<>>
  /\ UNCHANGED last_type

(* It forgets to drop it. *)
TransmissionStartFault ==
  /\ last_type' = 1
  /\ delivered' = <<>>
  /\ UNCHANGED <<overflow, buffer_out>>

(* The start of a transmission drops what was received. *)
TransmissionStart ==
  /\ last_type' = 1
  /\ buffer_out' = <<>>
  /\ delivered' = <<>>
  /\ UNCHANGED overflow

(* The header of another frame ends the last one. *)
FrameEnd(type) ==
  /\ delivered' = IF ~overflow /\ buffer_out # <<>> /\ last_type # 0
                  THEN <<Frame(last_type, buffer_out)>> ELSE <<>>
  /\ overflow' = FALSE
  /\ last_type' = type
  /\ buffer_out' = <<>>

InvalidSequence ==
  /\ last_type' = 0
  /\ delivered' = <<>>
  /\ UNCHANGED <<overflow, buffer_out>>

(* Every other sequence counts as the end of a frame. *)
ReceiveFault(byte) ==
  IF ~escaped
  THEN IF byte = FF
       THEN escaped' = TRUE /\ delivered' = <<>>
              /\ UNCHANGED <<overflow, last_type, buffer_out>>
       ELSE Store(byte) /\ UNCHANGED escaped
  ELSE /\ escaped' = FALSE
       /\ CASE byte = 0 -> Store(FF)
            [] byte = 1 -> TransmissionStart
            [] OTHER -> FrameEnd(byte)

(* The body of the loop over the received bytes. *)
Receive(byte) ==
  IF ~escaped
  THEN IF byte = FF
       THEN escaped' = TRUE /\ delivered' = <<>>
              /\ UNCHANGED <<overflow, last_type, buffer_out>>
       ELSE Store(byte) /\ UNCHANGED escaped
  ELSE /\ escaped' = FALSE
       /\ CASE byte = 0 -> Store(FF)
            [] byte = 1 -> TransmissionStart
            [] byte \in {2, 3} -> FrameEnd(byte)
            [] OTHER -> InvalidSequence

(* The next byte reaches the host, if it is listening. *)
Put ==
  /\ out # <<>> /\ out' = Tail(out)
  /\ IF attached THEN Receive(Head(out))
                 ELSE delivered' = <<>> /\
                        UNCHANGED <<escaped, overflow, last_type, buffer_out>>
  /\ UNCHANGED <<stage, pages, frame, before, clean, attached, lost>>

(* It gets lost. *)
Lose ==
  /\ out # <<>> /\ out' = Tail(out)
  /\ attached /\ lost < MAX_LOST
  /\ lost' = lost + 1
  /\ clean' = 0
  /\ delivered' = <<>>
  /\ UNCHANGED <<stage, pages, frame, before, attached, escaped, overflow,
                 last_type, buffer_out>>

(* tag-dumper is started. *)
Attach ==
  /\ ~attached /\ attached' = TRUE
  /\ UNCHANGED <<tag, host, clean, lost>>

Next ==
  \/ Announce \/ AnnounceEnd
  \/ \E data \in Pages : DumpPage(data)
  \/ DumpEnd \/ PrintText
  \/ Put \/ Lose \/ Attach

Spec == Init /\ [][Next]_vars

-----------------------------------------------------------------------------
(* Every variable stays in its range. *)
TypeOK ==
  /\ stage \in {"announce", "end", "pages", "text"}
  /\ pages \in 0..MAX_PAGES
  /\ \A f \in {frame, before} : f.type \in 0..3
  /\ clean \in 0..4 /\ attached \in BOOLEAN /\ lost \in 0..MAX_LOST
  /\ escaped \in BOOLEAN /\ overflow \in BOOLEAN /\ last_type \in 0..3
  /\ Len(buffer_out) <= BUFFER_SIZE /\ ToSet(buffer_out) \subseteq 0..FF
  /\ Len(delivered) <= 1

(* The header of the frame being sent has just been put on the line, ... *)
HeaderPut == out # <<>> /\ out = Tail(<<FF, frame.type>> \o Escaped(frame.data))

(* Whenever the host is started, and whatever the data looks like, it never *)
(* takes a part of a frame, or two of them, for a frame: without losses     *)
(* port_rx sees exactly the frame that was sent before the header that      *)
(* ended it (log.c 168-184, tag-dumper.c 254-311).                          *)
OnlyWholeFrames ==
  [][lost' = 0 /\ delivered' # <<>> => HeaderPut /\ delivered' = <<before>>]_vars

(* A lost byte spoils its frame and at most the one after it: the host      *)
(* finds the frames again by itself, and passes on every tag ID and page.   *)
(* One case is excepted: a transmission start does not forget an overflow,  *)
(* so that a tag ID is not passed on when buffer_out had overflowed before  *)
(* the loss and the frame between them did not end that (tag-dumper.c       *)
(* 271-283).                                                                *)
Resynchronises ==
  [][clean >= 3 /\ Put /\ HeaderPut /\ frame.type # 1 /\ before.type \in {1, 2}
       => \/ delivered' = <<before>>
          \/ overflow /\ before.type = 1 /\ clean = 3]_vars
=============================================================================
