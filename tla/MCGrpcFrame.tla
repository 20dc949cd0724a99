---------------------------- MODULE MCGrpcFrame ----------------------------
(* A small instance of GrpcFrame for TLC. *)
EXTENDS GrpcFrame

\* Messages that look like headers themselves, empty ones, and one whose
\* length needs two bytes.
MCFrames == {<<>>, <<1>>, <<0, 0, 0, 0, 1>>, [i \in 1 .. 258 |-> 0]}
=============================================================================
