---------------------------- MODULE MCGrpcUnary ----------------------------
(* Small instances of GrpcUnary for TLC. *)
EXTENDS GrpcUnary

\* The second method has the name of the first; nothing is registered as "/c".
MCMethods == <<"/a", "/a", "/b">>

\* Three calls, the least for a response sent again to matter, of different
\* methods, so that the answer of one is not the answer of the next.
MCPathsOf == <<{"/a"}, {"/b"}, {"/a", "/c"}>>
MCSizesOf == <<{1}, {2}, {1}>>

\* Two calls of one method, large enough to fill small buffers.
MCBlockedPathsOf == <<{"/a"}, {"/a"}>>
MCBlockedSizesOf == <<{1, 3}, {1, 3}>>
MCOneMethod == <<"/a">>
=============================================================================
