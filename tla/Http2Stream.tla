---------------------------- MODULE Http2Stream ----------------------------
(***************************************************************************)
(* The life cycle of an HTTP/2 stream as the Stream trait of the solicit   *)
(* crate keeps it: GrpcStream and DefaultStream both take these default    *)
(* methods over.  Closing the remote side of a stream that is closed       *)
(* already opens its local side again.                                     *)
(***************************************************************************)

StreamState == {"Open", "HalfClosedRemote", "HalfClosedLocal", "Closed"}

\* Mutant: that the local side is closed already is forgotten.
CloseRemoteOnly(st) == "HalfClosedRemote"

\* Stream::close_remote
CloseRemote(st) == IF st = "HalfClosedLocal" THEN "Closed" ELSE "HalfClosedRemote"

\* Mutant: only an open stream is closed.
CloseLocalOnlyOpen(st) == IF st = "Open" THEN "HalfClosedLocal" ELSE st

\* Stream::close_local
CloseLocal(st) == IF st = "HalfClosedRemote" THEN "Closed" ELSE "HalfClosedLocal"

\* Stream::is_closed_local
IsClosedLocal(st) == st \in {"HalfClosedLocal", "Closed"}

=============================================================================
