-------------------------- MODULE MCSocketReconnect --------------------------
(* SocketReconnect with the default settings, a limit, the setting that     *)
(* asks for no attempts, and automatic reconnection switched off.           *)
EXTENDS SocketReconnect

Settings == [auto : {TRUE}, limit : {-1, 0, 2}] \cup [auto : {FALSE}, limit : {0}]
=============================================================================
