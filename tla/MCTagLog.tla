------------------------------ MODULE MCTagLog ------------------------------
(* TagLog on a flash of a few pages. *)
EXTENDS TagLog
=============================================================================
