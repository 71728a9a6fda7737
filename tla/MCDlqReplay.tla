---------------------------- MODULE MCDlqReplay ----------------------------
(* Instances of DlqReplay for TLC: the messages are model values. *)
EXTENDS DlqReplay

CONSTANTS m1, m2, m3, m4
=============================================================================
