---------------------------- MODULE MCLogBuffer ----------------------------
(* A ring of three slots and two-word sightings of three tags: both words   *)
(* of a sighting name the tag, so a torn copy differs from every sighting.  *)
EXTENDS LogBuffer

MCData == 0..3
MCSightings == {[w \in 1..2 |-> t] : t \in 1..3}
=============================================================================
