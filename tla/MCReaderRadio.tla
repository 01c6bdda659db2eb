--------------------------- MODULE MCReaderRadio ---------------------------
(* Both readers with a ring of two packets; the BLE reader, which does not  *)
(* look at the count, may fall behind by four.                              *)
EXTENDS ReaderRadio
=============================================================================
