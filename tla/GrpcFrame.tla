------------------------------ MODULE GrpcFrame ------------------------------
(***************************************************************************)
(* The length-prefixed frames of src/src/grpc.rs at the level of bytes:    *)
(* write_frame on one side of a byte stream, on the other a buffer that    *)
(* receives the stream in chunks of any size and is emptied by the loop of *)
(* GrpcStream::process_buf around parse_frame.  The pieces and the sizes   *)
(* that GrpcServerConnection and GrpcClient speak of stand for this.       *)
(***************************************************************************)
EXTENDS Integers, Sequences

CONSTANTS
  Frames,       \* messages the sender may write
  MaxFrames     \* bound: messages written

Byte == 0 .. 255

HeaderLen == 5

\* Its length fits the header: less than 2^32 bytes.
Fits(m) == Len(m) \div (256 * 256 * 256) < 256

ASSUME FramesAssumption == \A m \in Frames : m \in Seq(Byte) /\ Fits(m)

-----------------------------------------------------------------------------
(* grpc.rs *)

\* Mutant: the length in little-endian order.
LenRawLittle(n) ==
  <<n % 256, (n \div 256) % 256, (n \div (256 * 256)) % 256, (n \div (256 * 256 * 256)) % 256>>

\* (n as u32).to_be(), as bytes: lengths of 2^32 and more lose their high part.
LenRaw(n) ==
  <<(n \div (256 * 256 * 256)) % 256, (n \div (256 * 256)) % 256, (n \div 256) % 256, n % 256>>

\* write_frame, what it appends
WriteFrame(m) == <<0>> \o LenRaw(Len(m)) \o m

\* The four bytes read as a big-endian u32.
LenOf(b) == (256 * 256 * 256) * b[2] + (256 * 256) * b[3] + 256 * b[4] + b[5]

\* The flag byte of a buffer with a header is not 0: parse_frame panics.
BadFlag(b) == Len(b) >= HeaderLen /\ b[1] # 0

\* Mutant: the frame's length is compared without the header's.
HasFrameHeaderless(b) == Len(b) >= HeaderLen /\ LenOf(b) <= Len(b)

\* parse_frame is Some: the header is there and so is the whole frame.
HasFrame(b) == Len(b) >= HeaderLen /\ LenOf(b) + HeaderLen <= Len(b)

\* The position after the first frame, and the frame.
FrameEnd(b) == LenOf(b) + HeaderLen
FrameOf(b) == SubSeq(b, HeaderLen + 1, FrameEnd(b))

\* parse_frame_completely is Some.
IsFrame(b) == HasFrame(b) /\ FrameEnd(b) = Len(b)

-----------------------------------------------------------------------------
VARIABLES
  written,      \* messages given to write_frame
  wire,         \* bytes written and not delivered yet
  buf,          \* GrpcStream.req_buf
  parsed,       \* frames parse_frame has returned
  panicked

vars == <<written, wire, buf, parsed, panicked>>

Init ==
  /\ written = <<>>
  /\ wire = <<>>
  /\ buf = <<>>
  /\ parsed = <<>>
  /\ panicked = FALSE

Write(m) ==
  /\ Len(written) < MaxFrames
  /\ written' = Append(written, m)
  /\ wire' = wire \o WriteFrame(m)
  /\ UNCHANGED <<buf, parsed, panicked>>

Settled == ~ BadFlag(buf) /\ ~ HasFrame(buf)

\* new_data_chunk, after the last process_buf has returned
Deliver(n) ==
  /\ ~ panicked
  /\ Settled
  /\ buf' = buf \o SubSeq(wire, 1, n)
  /\ wire' = SubSeq(wire, n + 1, Len(wire))
  /\ UNCHANGED <<written, parsed, panicked>>

\* An iteration of process_buf
Process ==
  /\ ~ panicked
  /\ IF BadFlag(buf)
     THEN panicked' = TRUE /\ UNCHANGED <<buf, parsed>>
     ELSE /\ HasFrame(buf)
          /\ parsed' = Append(parsed, FrameOf(buf))
          /\ buf' = SubSeq(buf, FrameEnd(buf) + 1, Len(buf))
          /\ UNCHANGED panicked
  /\ UNCHANGED <<written, wire>>

Next ==
  \/ \E m \in Frames : Write(m)
  \/ \E n \in 1 .. Len(wire) : Deliver(n)
  \/ Process

Spec == Init /\ [][Next]_vars

-----------------------------------------------------------------------------
(* Properties *)

\* However the bytes are cut, the frames come out as they were written, none
\* is missing once all its bytes are there, and no flag is ever misread.
FramesSurvive ==
  /\ ~ panicked
  /\ Len(parsed) <= Len(written)
  /\ \A i \in 1 .. Len(parsed) : parsed[i] = written[i]
  /\ wire = <<>> /\ Settled => parsed = written /\ buf = <<>>

\* The client's reading of a whole body: it is a frame when it holds exactly
\* one message, and not before the last byte.
CompleteOnlyWhole ==
  \A i \in 1 .. Len(written) :
    LET b == WriteFrame(written[i])
    IN  /\ IsFrame(b)
        /\ FrameOf(b) = written[i]
        /\ \A n \in 0 .. Len(b) - 1 : ~ HasFrame(SubSeq(b, 1, n))
        /\ \A j \in 1 .. Len(written) : ~ IsFrame(b \o WriteFrame(written[j]))

=============================================================================
