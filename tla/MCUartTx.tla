------------------------------ MODULE MCUartTx ------------------------------
(* UartTx with a ring of three bytes. *)
EXTENDS UartTx
=============================================================================
