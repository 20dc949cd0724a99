---------------------------- MODULE MCClientAsync ----------------------------
(* A small instance of ClientAsync for TLC: two calls more than the channel *)
(* has room for, one to block in send and one to wait for the mutex.        *)
EXTENDS ClientAsync

CONSTANTS c1, c2, c3
=============================================================================
