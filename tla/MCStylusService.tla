--------------------------- MODULE MCStylusService ---------------------------
(***************************************************************************)
(* Small instances of StylusService for TLC.                               *)
(***************************************************************************)
EXTENDS StylusService

(* Readings that normalise to the initial preRotation, to the 0 that is    *)
(* sent without a sensor, to the largest value, and to one with a high     *)
(* byte of 2; bit 10 of the reading is ignored.                            *)
MCRaw == {327, 326, 325, 1024}
=============================================================================
