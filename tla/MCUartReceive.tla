--------------------------- MODULE MCUartReceive ---------------------------
(* UartReceive with a FIFO of two entries. *)
EXTENDS UartReceive
=============================================================================
