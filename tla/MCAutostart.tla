---------------------------- MODULE MCAutostart ----------------------------
(* Small instances of Autostart for TLC.                                   *)
EXTENDS Autostart
=============================================================================
