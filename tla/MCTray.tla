------------------------------- MODULE MCTray -------------------------------
(* Small instances of Tray for TLC.                                        *)
EXTENDS Tray

CONSTANTS g1, g2, g3, o1
=============================================================================
