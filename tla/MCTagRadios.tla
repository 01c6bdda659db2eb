---------------------------- MODULE MCTagRadios ----------------------------
(***************************************************************************)
(* The radios of the tags, each on its own: a behaviour is one of          *)
(* ProxRadio, with the bounds of MCProxRadio, or one of BeaconRadio.       *)
(***************************************************************************)
EXTENDS MCProxRadio, BeaconRadio

VARIABLE tag

MCInit ==
  /\ Init /\ BeaconInit
  /\ \/ tag = "proximity" /\ firmware = "power"
     \/ tag = "beacon"

MCNext ==
  \/ tag = "proximity" /\ Next /\ UNCHANGED <<tag, beaconVars>>
  \/ tag = "beacon" /\ BeaconNext /\ UNCHANGED <<tag, vars>>

MCSpec == MCInit /\ [][MCNext]_<<tag, vars, beaconVars>>
=============================================================================
