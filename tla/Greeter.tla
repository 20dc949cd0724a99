------------------------------ MODULE Greeter -------------------------------
(***************************************************************************)
(* One call between the programs of the repository: a client made by the   *)
(* code generator (greeter_client), or one written elsewhere, and a method *)
(* of a server: greeter_server, the echo of temp-server, or an echo with   *)
(* one of the other marshallers.  Frames and connections are left out: the *)
(* bytes of the request arrive (GrpcUnary says when).                      *)
(***************************************************************************)
EXTENDS HelloMessage

CONSTANTS
  Hello, World, \* the words of the greeting
  Inputs,       \* bytes another client may send
  MaxOps        \* bound: what the user does to a request before the call

ASSUME WordsAssumption == {Hello, World} \subseteq Words

ASSUME InputsAssumption == Inputs \subseteq Seq(WireField)

VARIABLES
  method,       \* the ServerMethod: its marshallers and its handler
  request,      \* the HelloRequest of the client
  ops,          \* what the user has done to it
  at,           \* how far the call is
  wire,         \* the bytes of the request
  out,          \* the bytes of the answer
  reply         \* the HelloReply of the client

vars == <<method, request, ops, at, wire, out, reply>>

ServerMethods ==
  {[marshaller |-> "protobuf", handler |-> "SayHello"]}
    \cup [marshaller : {"bytes", "string", "protobuf"}, handler : {"echo"}]

Init ==
  /\ method \in ServerMethods
  /\ request = New
  /\ ops = 0
  /\ at = "build"
  /\ wire = <<>>
  /\ out = <<>>
  /\ reply = New

-----------------------------------------------------------------------------
(* The user and the client's stub *)

\* One of the operations of a message
Change(m) ==
  /\ at = "build"
  /\ ops < MaxOps
  /\ ops' = ops + 1
  /\ request' = m
  /\ UNCHANGED <<method, at, wire, out, reply>>

SetName(v) == Change(SetField(request, v))
ClearName == Change(ClearField(request))
TakeName == Change(Take(request))
ExtendName(w) == Change(SetField(request, Append(Get(Mut(request)), w)))
ClearAll == Change(Clear(request))

\* merge_from of a request that may have a name already, and an error the
\* user ignores
Merge(bytes) == Change(MergeFrom(request, bytes))

\* GrpcClient::call marshals the request.
SayHello ==
  /\ at = "build"
  /\ request' = Sized(request)
  /\ wire' \in Written(request)
  /\ at' = "sent"
  /\ UNCHANGED <<method, ops, out, reply>>

\* Bytes of another client
OtherClient(bytes) ==
  /\ at = "build"
  /\ ops = 0
  /\ wire' = bytes
  /\ at' = "foreign"
  /\ UNCHANGED <<method, request, ops, out, reply>>

-----------------------------------------------------------------------------
(* on_message of the server's method *)

\* GreeterImpl::SayHello
Greeting(name) == <<Hello>> \o (IF name = <<>> THEN <<World>> ELSE name)

GreetingReply(name) == SetField(New, Greeting(name))

\* Marshaller::read: MarshallerProtobuf and MarshallerString unwrap an error.
ReadFails(bytes) ==
  CASE method.marshaller = "protobuf" -> MergeFails(bytes)
    [] method.marshaller = "string"   -> \E i \in 1 .. Len(bytes) : ~ bytes[i].utf8
    [] method.marshaller = "bytes"    -> FALSE

\* MarshallerProtobuf::read of a HelloRequest: a new one, merged
ReadRequest(bytes) == MergeFrom(New, bytes)

\* Handlers that take and give bytes or strings
EchoesBytes == method.handler = "echo" /\ method.marshaller # "protobuf"

\* What handle and write make of the bytes read
Answers(bytes) ==
  CASE method.handler = "SayHello" -> Written(GreetingReply(Get(ReadRequest(bytes))))
    [] EchoesBytes                 -> {bytes}
    [] OTHER                       -> Written(ReadRequest(bytes))

OnMessage ==
  /\ at \in {"sent", "foreign"}
  /\ ~ ReadFails(wire)
  /\ out' \in Answers(wire)
  /\ at' = "answered"
  /\ UNCHANGED <<method, request, ops, wire, reply>>

\* The thread of the connection panics.
OnMessagePanics ==
  /\ at \in {"sent", "foreign"}
  /\ ReadFails(wire)
  /\ at' = "panicked"
  /\ UNCHANGED <<method, request, ops, wire, out, reply>>

\* MarshallerProtobuf::read of a HelloReply
ReadReply(bytes) == MergeFrom(New, bytes)

\* The client reads the answer with its own marshaller, MarshallerProtobuf.
Return ==
  /\ at = "answered"
  /\ ~ MergeFails(out)
  /\ reply' = ReadReply(out)
  /\ at' = "returned"
  /\ UNCHANGED <<method, request, ops, wire, out>>

ReturnPanics ==
  /\ at = "answered"
  /\ MergeFails(out)
  /\ at' = "panicked"
  /\ UNCHANGED <<method, request, ops, wire, out, reply>>

-----------------------------------------------------------------------------
Names == {<<>>} \cup {<<w>> : w \in Words}

Next ==
  \/ \E v \in Names : SetName(v)
  \/ ClearName
  \/ TakeName
  \/ \E w \in Words : ExtendName(w)
  \/ ClearAll
  \/ \E bytes \in Inputs : Merge(bytes) \/ OtherClient(bytes)
  \/ SayHello
  \/ OnMessage
  \/ OnMessagePanics
  \/ Return
  \/ ReturnPanics

Spec == Init /\ [][Next]_vars

-----------------------------------------------------------------------------
(* Properties *)

\* What bytes say of the text, and of fields this program does not know, groups
\* left out
FieldIn(bytes) ==
  LET last == SelectLastInSeq(bytes, IsField)
  IN  IF last = 0 THEN None ELSE Some(bytes[last].val)

\* SelectSeq(bytes, LAMBDA w : w.key = k)
OfKey(bytes, k) ==
  FoldLeft(LAMBDA s, w : IF w.key = k THEN Append(s, w) ELSE s, <<>>, bytes)

UnknownIn(bytes) == [k \in KeptKeys |-> OfKey(bytes, k)]

\* The bytes of a request can be read and say all that is in it, whatever the
\* user has done to it: an empty name, which is not the same as none, and the
\* unknown fields, groups excepted, of bytes merged before, in whatever order
\* they are written.  They are as many as compute_size has said.
RequestSurvives ==
  at = "sent" =>
    /\ ~ MergeFails(wire)
    /\ FieldIn(wire) = request.field
    /\ UnknownIn(wire) = request.unknown
    /\ SizeOf(wire) = request.cached_size

\* The greeting names who the request named last, through two messages, their
\* marshallers and the handler, and "world" where there is no name or an empty
\* one.
GreetsByName ==
  at = "returned" /\ method.handler = "SayHello" =>
    reply.field = Some(<<Hello>> \o (IF FieldIn(wire) \in {None, Some(<<>>)} THEN <<World>>
                                     ELSE FieldIn(wire)[1]))

\* An echo loses nothing but groups, through whichever marshaller: as HelloReply
\* the answer has the field of the HelloRequest, and every other field, each in
\* its order, that a program keeps without knowing it.
EchoKeepsFields ==
  at = "returned" /\ method.handler = "echo" =>
    reply.field = FieldIn(wire) /\ reply.unknown = UnknownIn(wire)

=============================================================================
