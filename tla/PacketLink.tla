----------------------------- MODULE PacketLink -----------------------------
(***************************************************************************)
(* The serial lines on which the readers pass on what they hear: the main  *)
(* loop of firmware/nRF51/reader-prox/src/main.c writes each packet, with  *)
(* its signal strength before it, escaped as in SerialLink and ended by    *)
(* 0xFF 0x01.  Two programs take the packets apart again:                  *)
(*   host/openbeacon-sniffer/openbeacon_sniffer.c   on one line,           *)
(*   host/openbeacon-cape/openbeacon_forwarder.c    on two lines, whose    *)
(*     readers mostly hear the same packets: it sends one of them on.      *)
(* Both can be started at any time, and a line may lose bytes.             *)
(***************************************************************************)
EXTENDS SerialLink

CONSTANTS
  Packets,       (* what readers hear: the signal strength, then the bytes *)
  OPENBEACON_SIZE,          (* those bytes                                 *)
  Crc32,                    (* the checksum of the bytes of a packet       *)
  MAX_PKT_SIZE,             (* the size of the forwarder's buffers         *)
  DUPLICATES_BACKLOG_SIZE,  (* checksums that it remembers                 *)
  MAX_DROPPED    (* bound on the bytes that get lost                       *)

Lines == {1, 2}
Size == OPENBEACON_SIZE + 1
Bytes(packet) == Tail(packet)

ASSUME PacketLinkAssumption ==
  /\ OPENBEACON_SIZE \in Nat \ {0} /\ Packets \subseteq [1..Size -> 0..FF]
  /\ MAX_PKT_SIZE \in Nat /\ MAX_PKT_SIZE > Size
  /\ DUPLICATES_BACKLOG_SIZE \in Nat \ {0} /\ MAX_DROPPED \in Nat
  /\ \A p \in Packets : Crc32[Bytes(p)] \in Nat

VARIABLES
  program,    (* which of the two programs it is                           *)
  listening,  (* whether it has been started                               *)
  todo,       (* per line, the bytes still to be put on it                 *)
  packet,     (* per line, the packet being sent                           *)
  intact,     (* per line, packets in a row, with this one, without losses *)
  dropped,    (* bytes lost on the lines                                   *)
  prev, len, rx,                            (* of the sniffer              *)
  g_reader,                                 (* of the forwarder: escape and *)
  g_duplicate_backlog, g_duplicate_pos,     (*   buf[0..pos-1] per reader   *)
  passed,     (* <<p>> if this step passed the packet p on, else <<>>      *)
  recent      (* the bytes of the last packets passed on                   *)

sniffer == <<prev, len, rx>>
forwarder == <<g_reader, g_duplicate_backlog, g_duplicate_pos>>
packetVars == <<program, listening, todo, packet, intact, dropped, sniffer,
                forwarder, passed, recent>>

(* Every reader has announced itself. *)
PacketInit ==
  /\ program \in {"sniffer", "forwarder"} /\ listening = FALSE
  /\ todo = [l \in Lines |-> Text]
  /\ packet = [l \in Lines |-> <<>>] /\ intact = [l \in Lines |-> 0]
  /\ dropped = 0
  /\ prev = FALSE /\ len = 0 /\ rx = <<>>
  /\ g_reader = [l \in Lines |-> [escape |-> FALSE, buf |-> <<>>]]
  /\ g_duplicate_backlog = [i \in 0..DUPLICATES_BACKLOG_SIZE - 1 |-> 0]
  /\ g_duplicate_pos = 0
  /\ passed = <<>> /\ recent = <<>>

-----------------------------------------------------------------------------
(* The main loop of a reader has received p. *)
Output(l, p) ==
  /\ todo[l] = <<>>
  /\ todo' = [todo EXCEPT ![l] = Escaped(p) \o <<FF, 1>>]
  /\ packet' = [packet EXCEPT ![l] = p]
  /\ intact' = [intact EXCEPT ![l] = IF listening THEN Min({@ + 1, 2}) ELSE 0]
  /\ passed' = <<>>
  /\ UNCHANGED <<program, listening, dropped, sniffer, forwarder, recent>>

(* port_rx, or sendto: ps holds the packet, if there is one. *)
Pass(ps) ==
  /\ passed' = ps
  /\ recent' = LET all == recent \o [n \in DOMAIN ps |-> Bytes(ps[n])]
                   n == Len(all) - DUPLICATES_BACKLOG_SIZE
               IN SubSeq(all, Max({1, n + 1}), Len(all))

SnifferStore(byte) ==
  /\ rx' = IF len < Size THEN Append(rx, byte) ELSE rx
  /\ len' = Min({len + 1, Size + 1})       (* all larger values are alike *)
  /\ Pass(<<>>)

(* The loop over the received bytes in main of the sniffer. *)
SnifferReceives(byte) ==
  IF byte = FF THEN prev' = TRUE /\ Pass(<<>>) /\ UNCHANGED <<len, rx>>
  ELSE /\ prev' = FALSE
       /\ \/ ~prev /\ SnifferStore(byte)
          \/ prev /\ byte = 0 /\ SnifferStore(FF)
          \/ /\ prev /\ byte # 0
             /\ Pass(IF byte = 1 /\ len = Size THEN <<rx>> ELSE <<>>)
             /\ len' = 0 /\ rx' = <<>>

(* It looks for duplicates up to its position only. *)
PortReaderPktFault(buf) ==
  LET crc == Crc32[Bytes(buf)]
      duplicate == \E i \in 0..g_duplicate_pos - 1 :
                     g_duplicate_backlog[i] = crc
  IN IF Len(buf) = Size /\ ~duplicate
     THEN /\ g_duplicate_backlog' =
               [g_duplicate_backlog EXCEPT ![g_duplicate_pos] = crc]
          /\ g_duplicate_pos' = (g_duplicate_pos + 1) % DUPLICATES_BACKLOG_SIZE
          /\ Pass(<<buf>>)
     ELSE Pass(<<>>) /\ UNCHANGED <<g_duplicate_backlog, g_duplicate_pos>>

(* port_reader_pkt: what is not a duplicate is remembered and sent. *)
PortReaderPkt(buf) ==
  LET crc == Crc32[Bytes(buf)]
      duplicate == \E i \in DOMAIN g_duplicate_backlog :
                     g_duplicate_backlog[i] = crc
  IN IF Len(buf) = Size /\ ~duplicate
     THEN /\ g_duplicate_backlog' =
               [g_duplicate_backlog EXCEPT ![g_duplicate_pos] = crc]
          /\ g_duplicate_pos' = (g_duplicate_pos + 1) % DUPLICATES_BACKLOG_SIZE
          /\ Pass(<<buf>>)
     ELSE Pass(<<>>) /\ UNCHANGED <<g_duplicate_backlog, g_duplicate_pos>>

(* The body of the loop in port_reader. *)
PortReader(l, byte) ==
  LET buf == g_reader[l].buf
      Becomes(escape, b) ==
        g_reader' = [g_reader EXCEPT ![l] = [escape |-> escape, buf |-> b]]
      Stored(b) == IF Len(buf) < MAX_PKT_SIZE THEN Append(buf, b) ELSE buf
  IN IF g_reader[l].escape /\ byte = 1
     THEN PortReaderPkt(buf) /\ Becomes(FALSE, <<>>)
     ELSE /\ Pass(<<>>)
          /\ UNCHANGED <<g_duplicate_backlog, g_duplicate_pos>>
          /\ IF g_reader[l].escape
             THEN Becomes(FALSE, IF byte = 0 THEN Stored(FF) ELSE buf)
             ELSE Becomes(byte = FF, IF byte = FF THEN buf ELSE Stored(byte))

(* The next byte on a line reaches the program, if it is running. *)
Transfer(l) ==
  /\ todo[l] # <<>> /\ todo' = [todo EXCEPT ![l] = Tail(@)]
  /\ \/ ~listening /\ Pass(<<>>) /\ UNCHANGED <<sniffer, forwarder>>
     \/ /\ listening /\ program = "sniffer" /\ SnifferReceives(Head(todo[l]))
        /\ UNCHANGED forwarder
     \/ /\ listening /\ program = "forwarder" /\ PortReader(l, Head(todo[l]))
        /\ UNCHANGED sniffer
  /\ UNCHANGED <<program, listening, packet, intact, dropped>>

(* It gets lost. *)
Drop(l) ==
  /\ todo[l] # <<>> /\ todo' = [todo EXCEPT ![l] = Tail(@)]
  /\ listening /\ dropped < MAX_DROPPED
  /\ dropped' = dropped + 1
  /\ intact' = [intact EXCEPT ![l] = 0]
  /\ Pass(<<>>)
  /\ UNCHANGED <<program, listening, packet, sniffer, forwarder>>

(* The program is started. *)
Listen ==
  /\ ~listening /\ listening' = TRUE
  /\ Pass(<<>>)
  /\ UNCHANGED <<program, todo, packet, intact, dropped, sniffer, forwarder>>

(* The sniffer opens one port only. *)
PacketNext ==
  \/ \E l \in IF program = "sniffer" THEN {1} ELSE Lines :
       \/ \E p \in Packets : Output(l, p)
       \/ Transfer(l) \/ Drop(l)
  \/ Listen

PacketSpec == PacketInit /\ [][PacketNext]_packetVars

-----------------------------------------------------------------------------
(* The last byte of a packet is received. *)
Ended(l) == todo[l] = <<1>> /\ packet[l] # <<>> /\ Transfer(l)

(* Its checksum is that of one of the last DUPLICATES_BACKLOG_SIZE sent.    *)
SentBefore(p) == \E n \in DOMAIN recent : Crc32[recent[n]] = Crc32[Bytes(p)]

(* Of two packets received without losses one after the other, the second   *)
(* is always recognised, whatever a loss or a late start left behind: the   *)
(* sniffer passes it on as it was sent, and the forwarder if none of the    *)
(* last DUPLICATES_BACKLOG_SIZE it sent had the same checksum, from         *)
(* whichever line, and only then.  (A packet with checksum 0, which the     *)
(* empty backlog is full of, is not promised to be sent.)  Without losses   *)
(* nothing but packets that were sent is ever passed on; only the signal    *)
(* strength is wrong if the program is started in the middle of its escape  *)
(* sequence (openbeacon_sniffer.c 161-204, openbeacon_forwarder.c 72-164).  *)
PacketsArriveOnce ==
  [][\A l \in Lines :
       /\ Ended(l) /\ intact[l] = 2 =>
            \/ passed' = <<packet[l]>>
                 /\ (program = "forwarder" => ~SentBefore(packet[l]))
            \/ passed' = <<>> /\ program = "forwarder"
                 /\ (Crc32[Bytes(packet[l])] = 0 \/ SentBefore(packet[l]))
       /\ dropped = 0 /\ passed' # <<>> =>
            \E k \in Lines :
              /\ Ended(k) /\ Bytes(passed'[1]) = Bytes(packet[k])
              /\ intact[k] > 0 => passed' = <<packet[k]>>]_packetVars
=============================================================================
