---------------------------- MODULE MCSyncSender ----------------------------
(* A small instance of SyncSender for TLC. *)
EXTENDS SyncSender, TLC

CONSTANTS c1, c2, c3, c4

MCSymmetry == Permutations({c1, c2, c3, c4})
=============================================================================
