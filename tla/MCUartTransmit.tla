--------------------------- MODULE MCUartTransmit ---------------------------
(* UartTransmit with a counter that wraps after 8 ticks. *)
EXTENDS UartTransmit
=============================================================================
