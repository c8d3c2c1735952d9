------------------------------ MODULE MCWinProxy ------------------------------
(***************************************************************************)
(* Small instances of WinProxy for TLC.  The stylus has further services,  *)
(* such as the UART, after its own (those before it only delay), which     *)
(* matter where a session is lost during the search: MCServiceLists.  The  *)
(* other run leaves them out.  Another device does not have the stylus     *)
(* service.                                                                *)
(***************************************************************************)
EXTENDS WinProxy

MCServiceLists == {<<"stylus", "other">>, <<"other">>}
MCShortLists == {<<"stylus">>, <<"other">>}
=============================================================================
