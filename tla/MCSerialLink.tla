---------------------------- MODULE MCSerialLink ----------------------------
(***************************************************************************)
(* The two uses of the serial lines, each on its own: a behaviour is one   *)
(* of SerialLink, with pages of two bytes that look like frame types, or   *)
(* one of PacketLink, with packets of one byte.                            *)
(***************************************************************************)
EXTENDS PacketLink

VARIABLE use

MCTagId == <<2, FF, 3>>
MCText == <<10>>
MCPackets == {<<1, 1>>, <<FF, 10>>, <<1, FF>>, <<FF, 0>>}
MCCrc32 == [bytes \in [1..1 -> {0, 1, 10, FF}] |->
              CASE bytes[1] = 0 -> 0 [] bytes[1] = FF -> 2 [] OTHER -> 1]

MCInit ==
  /\ Init /\ PacketInit
  /\ use \in {"dump", "packets"} /\ (use = "dump" => program = "sniffer")

MCNext ==
  \/ use = "dump" /\ Next /\ UNCHANGED <<use, packetVars>>
  \/ use = "packets" /\ PacketNext /\ UNCHANGED <<use, vars>>

MCSpec == MCInit /\ [][MCNext]_<<use, vars, packetVars>>
=============================================================================
