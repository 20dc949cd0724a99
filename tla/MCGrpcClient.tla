---------------------------- MODULE MCGrpcClient ----------------------------
(* A small instance of GrpcClient for TLC. *)
EXTENDS GrpcClient

Part(p, n) == [msg |-> "m", part |-> p, size |-> n]

\* A whole message, and the two halves of another.
MCChunks == {<<Part(1, 1)>>, <<Part(1, 2)>>, <<Part(2, 2)>>}

MCServerFrames ==
       [stream : Calls, kind : {"headers"}, end : BOOLEAN, body : {<<>>}]
  \cup [stream : Calls, kind : {"data"}, end : BOOLEAN, body : MCChunks]
  \cup [stream : Calls, kind : {"rst"}, end : {FALSE}, body : {<<>>}]
=============================================================================
