---------------------------- MODULE MCProxRadio ----------------------------
(* Three other tags for two sighting slots, so that the slots overflow; a   *)
(* window in every second slot and requests of up to two slots, so that     *)
(* tracker packets and windows meet in every order; and the shortest time   *)
(* unit that keeps crystal, transmission, window and flash apart.           *)
EXTENDS ProxRadio, TLC

UidSymmetry == Permutations(Uids)
=============================================================================
