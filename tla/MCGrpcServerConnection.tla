----------------------- MODULE MCGrpcServerConnection -----------------------
(* Small instances of GrpcServerConnection for TLC. *)
EXTENDS GrpcServerConnection

CONSTANTS s1, s2

\* A frame of size pieces whose compression flag is flag.
Frame(no, size, flag) ==
  [k \in 1 .. size |-> [no |-> no, part |-> k, size |-> size, flag |-> flag]]

\* One message in one piece and then one in two, of which the peer may leave
\* out the end; one message and then a frame that claims to be compressed.
MCBodies == {Frame(1, 1, 0) \o Frame(2, 2, 0), Frame(1, 1, 0) \o Frame(2, 1, 1)}

\* Unary calls: one message per stream.
MCUnaryBodies == {Frame(1, 1, 0), Frame(1, 2, 0)}

\* The second method has the name of the first; nothing is registered as "/c".
MCMethods == <<"/a", "/a", "/b">>
MCPaths == {"/a", "/b", "/c"}
=============================================================================
