------------------------------- MODULE MCUart -------------------------------
(* The receiver with a buffer smaller than what may arrive at once. *)
EXTENDS Uart

MCByte   == {0, 200, 65}
MCScript == <<200, 0, 65, 200>>
=============================================================================
