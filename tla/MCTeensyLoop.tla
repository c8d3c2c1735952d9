---------------------------- MODULE MCTeensyLoop ----------------------------
(***************************************************************************)
(* A small instance of TeensyLoop for TLC.                                 *)
(***************************************************************************)
EXTENDS TeensyLoop

(* Both limits, and what lies just outside them.                           *)
MCAmps == {6000, 6001, -6000, -6001}
=============================================================================
