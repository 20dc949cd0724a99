---------------------------- MODULE MCGrpcServer ----------------------------
(***************************************************************************)
(* An instance of GrpcServer for TLC: three clients, one stream each, and a *)
(* process that has too little for them, too little only for all three, or *)
(* just enough.                                                            *)
(***************************************************************************)
EXTENDS GrpcServer

CONSTANTS c1, c2, c3

MCLimits == {[files |-> 3, threads |-> 2], [files |-> 5, threads |-> 3],
              [files |-> 7, threads |-> 3]}
=============================================================================
