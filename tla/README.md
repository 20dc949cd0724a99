# grpc-rust in TLA+

TLA+ models of this repository (grpc-rust: a gRPC client, server and protoc
plugin over the `solicit` HTTP/2 crate), checked with TLC on small instances and,
for the properties that matter most, proved with TLAPS for every value of the
constants. `PROJECT.json` lists the runs, the source lines behind each
definition, the hazards, the findings and the theorems.

## The system

| Component | Source | State | Operations |
|---|---|---|---|
| Server connection | `src/src/server.rs` `GrpcServerConnection`, `GrpcStream` | the streams of the session, each with `path`, `req_buf`, `resp_buf`, `state` | read one HTTP/2 frame, give it to its stream (`set_headers`, `new_data_chunk`, `set_state`), `process_buf`, write the responses of all streams, flush, reap |
| Method dispatch | `src/src/method.rs` | the list of `ServerMethod`s, immutable | `find_method`, `handle_method` |
| Message frames | `src/src/grpc.rs` | none | `write_frame`, `parse_frame`, `parse_frame_completely` |
| Client | `src/src/client.rs` `GrpcClient` | the session and its streams | `call`: send a request, then handle frames until its stream is closed |
| Shared sender | `src/src/channel_sync_sender.rs` | `Mutex<Option<Sender>>` | `send` |
| Asynchronous client | `src/src/client_async.rs` | the shared sender; a thread with an event loop | `call`, `run_event_loop` |
| Code generator | `src/src/codegen.rs` | the files and the results so far | `gen`: one file after the other |
| Accept loop | `src/src/server.rs` `GrpcServer` | the listener, and one thread per connection | `run`: `accept`, `thread::spawn`; the thread runs `GrpcServerConnection::new` (preface, `try_split`) and `run` |
| Messages and marshallers | `src/grpc-examples/src/helloworld.rs`, `src/src/marshall.rs`, `src/src/grpc_protobuf.rs`, `on_message` of `src/src/method.rs` | a message: its field, its unknown fields, its cached size | accessors, `merge_from`, `compute_size`, `write_to`; `read`, handle, `write` |
| Example programs | `greeter_server.rs`, `greeter_client.rs`, `temp-server.rs` | none of their own | the greeting, the echo |
| Types | `lib.rs`, `result.rs`, `futures_grpc.rs` | none | module declarations, an enumeration, type aliases |

How they interact. A generated client stub builds a `MethodDescriptor` and hands
it with the request to `GrpcClient::call`, which puts the descriptor's name in
`:path` and the marshalled request, framed by `write_frame`, in DATA frames. On
the server one thread per connection reads a frame at a time; `solicit` calls
back into the `GrpcStream`, which cuts messages out of its buffer with
`parse_frame` and runs the handler `find_method` finds, on the same thread. After
*every* frame the thread writes the responses of *every* stream that has some,
and reaps closed streams. The client reads frames until its stream is closed on
both sides and takes the body for one message. The asynchronous client is
unfinished in the source: its calls put an empty request into a channel nobody
reads.

What is hard about it:

- **Buffers and frames.** Messages and DATA frames do not line up.
- **State kept longer than a call.** Neither side removes a finished stream, and
  the server never empties a response buffer, so later frames act on old calls.
- **Two threads and one connection.** Each side writes all it has before it
  reads, so each may wait for the other.
- **Failure by panic.** Almost every error is an `unwrap`: an unknown method ends
  a connection thread, a broken connection the client's thread, a dropped
  receiver poisons a mutex.
- **A blocking wait under a lock** in `SyncSender::send`.
- **One process for all connections.** Handlers of the user run on connection
  threads and may never return, and responses are written there by blocking calls
  to clients that may not read; descriptors and threads are limited, and main
  unwraps each error of `accept` and `spawn`.

What makes each part correct: every message is dispatched once, in order, and
answered on its own stream before the next read; a call returns the answer to
itself or fails, and ends; the shared `Sender` is in its place whenever the mutex
is free; frames survive any cutting; generated stubs and servers agree on names;
one connection never holds up or cuts another unless the process ends; what is in
a message survives being written, read and echoed.

## The modules

### GrpcServerConnection (with Http2Stream)

One connection and its thread. `pc` is where the thread is in `handle_next`:
`read`, `process` (in `process_buf`), `handle_requests`, `prepare_responses`,
`send_data`, `send_trailers`, and `returned` or `panicked` at the end. One action
per callback of the session (`RecvNewStream`, `RecvTrailers`, `RecvBadPath`,
`RecvData`, `RecvRstStream`, `RecvOther`, `RecvError`), one per iteration of
`process_buf`, and one per frame that `prepare_responses` writes, since a write
may fail between any two. `flush_streams` is part of `ReapStreams`: with
`GrpcStream.data` always `None` there is nothing for it to send, so it changes
no state.

The peer is any client that keeps to the HTTP/2 stream life cycle (it may also
end a stream twice with an empty DATA frame, as `GrpcClient` does). Bodies are
sequences of *pieces*: a gRPC frame has parts 1..size, its first part carries the
header, and a DATA frame delivers any number of pieces. `handled`, `out`, `peer`,
`body`, `pos` and `frames` are the environment and histories.

`Http2Stream` holds what `solicit` does to the state of a stream, which is
external: `close_local`, `close_remote`, `is_closed_local`.

### MessageExchange

What the connection promises without frames and buffers: messages are received,
dispatched one by one, answered together, and nothing new is taken in while
anything is left to do. `GrpcServerConnection` implements it
(`ImplementsExchange`).

### GrpcClient

The client's thread: `new`, then for each call `start`, `send` (the loop of
`send_next_data` over *all* open streams of the session, in any order) and
`response` (the loop of `get_response`). Frames of the server are a parameter of
`HandleNextFrame`; in the module's own `Next` they come from any server that cuts
its messages into frames properly, also one that continues after END_STREAM.

### GrpcUnary and UnaryRpc

`GrpcUnary` instantiates both modules and joins them: the server reads what the
client has written, in order, and a write waits for room in buffers of
`ToServer` and `ToClient` frames. The connection may break at any time.
`SizesOf` and `PathsOf` say, call by call, how large its request may be and which
methods it may name; `MaxSize` bounds the sizes.
`UnaryRpc` is the promise to the user: each call is executed at most once, and a
call that returns was executed and has the answer of the method it named.
`ReturnsAfterTrailers` is what makes up for `grpc-status` being ignored: no call
returns before the trailers of its own response have been read.

That calls end is taken apart into what is safety and what is scheduling.
`FramesFit`: the server can take the next frame of what the client has written,
so its peer is never stuck for a reason of the model. `OnlyWritersDeadlock`: each
side waits to read or to write (`ClientWaitsToRead`, `ServerWaitsToWrite`, ...),
and the two wait for each other only if both wait to write. `WorkDecreases`: every
step makes `Work` smaller, a number that counts the frames the client may still
send, those the server has not read, what its thread has still to do after a
frame (`ThreadWork`), the frames the client has not read, and the calls left.

### GrpcServer

The accept loop with all its connections. `main` is where the main thread is in
`run`: `incoming` (in `accept`), `spawn`, or `panicked`, which ends everything.
`thread[c]` is the thread of the connection of client `c`: `preface` (in
`read_exact`), `running`, `ended`. `backlog` holds the clients the system has
connected and nobody has accepted. `limits` is chosen once, at the start: the
descriptors and threads the process is given. A connection costs one descriptor,
and a second one from `try_split` on (`FilesOf`).

A running connection is not modelled by its frames again: `received`,
`dispatched` and `answered`, and the steps that change them, are those of
`MessageExchange`, which `GrpcServerConnection` is proved to implement. What this
module adds is that the call of a handler takes time (`handling`) and may never
end, and that a response may never get written (`Write`), as a client may be
there and not read.

### HelloMessage, Greeter

`HelloMessage` holds the operations of a generated message; bytes are sequences
of wire fields, well formed or not, and texts sequences of words. Of the fields
it does not know a message keeps all but groups, which
`read_unknown_or_skip_group` skips (`KeptKeys`); a group is one field here. `Greeter` is
one call from the request object of a user to the reply object: the operations on
the request, the client's marshaller, `on_message` of the server's method
(greeter, or an echo with each of the marshallers) and the client's reading of
the answer.

### GrpcFrame

`grpc.rs` byte by byte, with the buffer loop around it. It justifies the pieces
of the other modules.

### SyncSender, AtomicChannel, ClientAsync

`SyncSender` is `send` in its steps: lock, take, wait for the channel, put back,
with the poisoning of the mutex by a panic. `AtomicChannel` is a channel whose
send is one step; `SyncSender` implements it. `ClientAsync` is `GrpcClientAsync`
with its event loop thread: it extends `SyncSender`, whose steps happen as parts of
a call, except that nothing is ever received.

### Codegen

The loop of `gen` over the requested files, and the generated code reduced to
its items, signatures and method descriptors. Identifiers are sequences of words,
so that names built by appending can coincide. `HelloworldGrpc` is the generated
file kept in the examples.

## The runs

| Run | Instance | What it shows |
|---|---|---|
| `server_safety` | two streams, two bodies (a message and half or all of one in two parts; a message and a compressed frame), three paths, a method registered twice, five frames, thread scheduled | the invariants and the refinement of the server connection; as long as handlers end and the peer reads, every complete message is answered or the thread stops |
| `server_end_stream` | one message per stream, four frames | finding: a response is sent, and its stream ended, once more for each later frame |
| `server_reap` | one message per stream, four frames | finding: a finished stream is never reaped |
| `client_any_server` | three calls, requests of one or two chunks, six frames of the server out of all headers, data and resets | request framing, streams ended again at most once per call, and answers, whatever the server does |
| `unary` | three calls of different methods, known, doubly known and unknown, the second of two frames; buffers of 20 frames to the server and 12 to the client | client and server together implement `UnaryRpc`; a call returns only after its trailers; every frame can be taken, only writers wait for each other, each step leaves less work, and calls end, also where a response sent again has reopened a finished stream |
| `unary_blocked` | buffers of one and three frames | finding: client and server wait for each other for ever |
| `frame` | messages of several lengths around one byte of the header, two per behaviour, any cutting | frames survive; a body is accepted only whole |
| `sync_sender` | four sends, capacity two, receiver may go | the sender is kept, refuses after a panic, implements a channel |
| `client_async` | three calls, capacity one | at most one call gets in; callers block one another only while the event loop runs, and panic only after it; all end |
| `server` | three clients, each with one message; three descriptors and two threads, five and three, or seven and three | a connection is cut only by itself or with the process; where there is enough for all, the process ends only for a client that has gone; silent clients, clients that do not read and stuck handlers hold nobody else up; what a client held is given back |
| `greeter` | two operations on a request, or up to three wire fields from elsewhere, known, unknown and groups, good and bad | what is in a request survives; who is greeted; what an echo keeps |
| `codegen` | 144 requests: packages empty, simple and nested, services whose names extend each other | stubs reach their handlers, names clash only by suffix |

Bounds and why they are enough. Two streams suffice for everything that relates
streams (an answer on the wrong one, interleaved responses, reaping one with
another pending), as the code treats streams independently except in the loops
over all of them. (They are symmetric, but symmetry is not used: the run also checks
liveness.) Five frames let both streams open, send a message in two DATA frames
and be disturbed by one more frame. Two messages per body exercise order and the
rest left in the buffer; the peer may leave out the end of any body.

Three calls are the least for a reopened stream to be ended during a later call;
they name different methods, so that the answer of one is not the answer of the
next. Six server frames give a response, one sent again and a reset.

In `unary` the client sends at most 19 frames (`MaxFrames`), so 20 to the server
never fill; 12 to the client hold four responses, and the responses sent again
are more, so the server does wait for the client to read. `unary_blocked` is the
same with one and three.

In `server` each client sends one message on one stream, since the order within a
connection is the business of `GrpcServerConnection`. With three descriptors and
two threads each of `accept`, `spawn` and `try_split` can find nothing left; with
five and three no thread is ever missing and descriptors run out only when all
three clients are there; with seven, two for each and one to accept, never.
Six would not do: `accept` wants a descriptor before anybody is there. Two operations on a request reach every pair (merge and
clear, merge and take, merge twice); three wire fields give one field twice with
another between.

`CHECK_DEADLOCK FALSE` is set everywhere because all these programs really stop:
a connection ends, calls are used up, a generator finishes. The type invariant is
run for the server connection; those of the other modules are proved only.

Each property of a passing run has a mutant in `PROJECT.json`: a variant of one
definition, defined beside it and marked *Mutant*, under which the same run finds
the property violated.

## Fairness

- `GrpcServerConnection!FairSpec`: weak fairness of the steps the thread takes
  without waiting for anybody (`OwnStep`). A handler may run for ever
  (`server.rs:101`) and a write waits for the peer to read (`server.rs:244-259`),
  as `unary_blocked` shows; that they end is the premise of
  `EveryMessageAnswered` (`WF_vars(HandlerEnds) /\ WF_vars(WriteEnds)`), not part
  of the specification. The peer's frames are never promised.
- `GrpcUnary!FairSpec`: weak fairness of each of the two threads. A read is
  possible only when a frame is there and a write only when there is room, so
  fairness assumes nothing of the buffers; that the other side reads is not
  assumed but follows, or not (`unary_blocked`). Two things are assumed: handlers
  end, and a thread that reads or writes on a broken connection is told, which is
  up to TCP (the code sets no timeout and sends no PING). Nobody is obliged to
  call and the link need not break.
- `GrpcServer!FairSpec`: weak fairness of the main thread and of what each
  connection thread does by itself, handlers and writes aside. No client has to
  do anything, not even to read, and no handler has to return: where a property
  needs that, it says so of the one connection it is about
  (`WF_vars(HandlerReturns(c))` in `EveryMessageAnswered` and `HungUpReleased`,
  `WF_vars(Write(c))` in `EveryMessageAnswered`).
- `ClientAsync!FairSpec`: weak fairness of each caller and of the event loop,
  whose only wait is a TCP connect, which the operating system ends.

## What is proved

Eight modules hold proofs, all for any value of the constants under the
assumptions named there. Each `LEMMA` and `THEOREM` is checked down to its leaves
by `tlapm`; the theorems worth knowing are listed in `PROJECT.json`.

- `GrpcServerConnectionProofs`: `TypeCorrect`, `DispatchesInOrder`,
  `DispatchesPromptly`, `ReapsOnlyReset`. The inductive invariant is
  `DispatchInv`. `DispatchInOrder` says nothing of `req_buf`, so its core is
  `BufferInv`: the buffer is exactly the part of the body that has been received
  and not drained, it starts at the start of a gRPC frame, and the calls made are
  the messages before it. `DrainedInv` says only the buffer being worked on may
  hold a whole frame; `StateInv` that only a reset closes a stream.
  Then `AnswersOnOwnStream`, `AnswersBeforeReading`, `BlocksStayTogether`, from
  `AnswerInv`, which adds that `resp_buf` answers all calls of its stream
  (`ResponseInv`), that what is unanswered is among the responses being written
  (`PendingInv`), and how far the writer is (`BlockInv`). Last
  `ConnectionImplementsExchange`: each step maps to one of `Receive`, `Dispatch`,
  `Answer`, `Stop` or a stutter; the proof needs both invariants, for instance
  that at a read everything received is answered. `ThreadAlwaysComesBack`: with
  each step of the thread `ThreadWork` decreases, so that it is back at its read
  after a number of steps bounded by the streams it has and the bytes it holds.
- `GrpcClientProofs`: `TypeCorrect`, `FramesRequests`, `EndsAgainOnce`,
  `WaitsAfterSending`, for any server, from `ClientInv`. The DATA frames of each
  stream are its pieces up to the cursor (`PiecesInv`); a stream that has been
  left, or is closed locally, has been read to its end (`DoneInv`), so what a
  reopened stream can still send is an empty frame; and such a stream has been
  silent since the HEADERS of the request being sent (`AgainInv`).
  `AnswersAreStreamBodies` rests on `ReadInv`: `BodyInv` says where in `body` the
  pieces of each frame read have been put (a function `off`, which says it
  without a sum over the frames) and that the body is well
  framed; `StreamInv`, that as long as a call waits nothing has ended its stream.
  These theorems hold of `UnboundedSpec` too, the client without the bound on the
  frames it reads, which is what the composition needs. `SendsBounded` counts
  what the client sends: by `CountInv` a call has sent its HEADERS, the pieces up
  to the cursor, and no more empty frames than there are earlier streams it has
  ended again, which are different ones by `EndsAgainOnce`.
- `GrpcUnaryProofs`: `ReturnsAfterWholeBlock` and `PairImplementsRpc`, for any
  number of calls, any sizes, methods and buffers. Nothing about either side is
  proved again. `PeerInv` says that each side is what the theorems of the other
  one take its peer to be: the client opens its streams in order, sends each body
  as it stands and ends it, so that its steps are steps of the server's peer
  (`ServerStepMaps`); what the server writes is well framed, so that reading it
  is a step of the client (`ClientStepMaps`); and what was read is a prefix of
  what was written (`LinkInv`). Hence the specification of the pair implies both
  specifications (`SpecMaps`) and the promises of both sides hold (`Promises`).
  `OrderInv` (calls are made one after the other) and `PathInv` (the server runs
  the method that was asked for) complete `CallInv`; with `RunOnce` and `Answered`
  they give `RpcInv`, from which each step is one of `UnaryRpc` or a stutter.
  Then the safety half of `EveryCallEnds`. `HandoverInv` ties what the server
  knows of a stream (whether it is there, its peer, the pieces received) to the
  frames it has read of it; the client writes the pieces of a stream in order,
  so the next frame is one it can take (`FramesAlwaysFit`), and with `CountInv`
  it never counts too many. `OnlyWritersWait`: were both to read with nothing on
  the way, the server would have read the whole request, answered all messages of
  it, and the client read the trailers that close its stream. What is left is
  that both write, so with room for `MaxFrames` frames to the server they never
  wait for each other (`RoomMeansProgress`): the finding of `unary_blocked` needs
  *both* directions full. `EveryStepWorks` proves `WorkDecreases`: `WorkInv` bounds
  what the server's thread does after one frame by `PerFrame`, the streams it has
  and the pieces it holds, so that reading a frame leaves less than there was.
- `GrpcServerProofs`: `TypeCorrect`, `CutsAreForced`, `EnoughServesAll`.
  `ServerInv` says a client waits once, in the backlog or with the main thread,
  and has no thread then (`WaitingInv`, `MainInv`), so that a new thread never
  replaces another; the rest is one case per action and connection. For
  `EnoughServesAll`, `Files` counts a first and a second descriptor for each
  client (`FilesBounded`) and a client that is with the main thread has no thread
  (`ThreadsBounded`), so that neither can run out.
- `ClientAsyncProofs`: of `SyncSender`, `TypeCorrect`, `SenderIsKept`,
  `PanicIsFinal` and `SenderImplementsChannel`, from `LockInv`, which ties the
  holder of the mutex to the one call between lock and unlock. Of `ClientAsync`,
  which is written with its actions (so what is proved of `SyncSender` carries
  over, the lemma `ClientUsesSender`), `ClientTypeCorrect`, `AcceptsAtMostCapacity`, whose invariant counts the
  requests in the channel, and `CallersWaitForTheLoop`, the safety half of
  `EveryCallEnds`: whoever holds the mutex can go on unless the channel is full,
  and by `LoopInv` the receiver is gone exactly when the loop is. Hence also
  `PanicsEndWithLoop`: a caller never finds the slot empty (`LockInv`), so a panic
  comes from a receiver that is gone.
- `GrpcFrameProofs`: `ParseGivesBack` and `NoFrameBeforeItsEnd`, for any bytes
  that follow, `OnlyWholeBodies`, and `FramesAreParsed`. The invariant of the last
  is `FrameInv`: the buffer followed by the wire is the frames not parsed yet, end
  to end. To avoid a recursive definition, `FramesLeft` says it by a function `rest`
  with `rest[i - 1] = WriteFrame(written[i]) \o rest[i]`. `LongMessagesAreCut` says
  what becomes of a message that does not fit: the reader gets the beginning of
  it, and takes the rest for the next frame.
- `CodegenProofs`: `RequestedFilesGenerated`, from `CodegenInv`, in which
  `GeneratesRequested` itself is inductive: the function `place` gives for each
  result the requested file it is of. `StubsReachTheirHandlers`: a path can be
  split in one way into package, service and method (`PathsTell`, from
  `SplitAtLast`: what follows the last separator can be told from the rest), and
  in a request no two services have the same full name. `ItemsNamedApart`: each
  pair of item names is compared by its last words (`ItemsClash`).
  `HelloworldUpToDate` is the one theorem with a hypothesis of its own,
  `HelloworldProto`: the Greeter that protoc is given in the package `helloworld`
  is that of `helloworld.proto`, and its messages are where the generated module
  of `helloworld.rs` has them. `MCCodegen` assumes it, so TLC evaluates it.
- `GreeterProofs`: `RequestsSurvive`, `GreetingsAreByName`, `EchoesKeepFields`,
  for any bytes, names and unknown fields. The invariant of the exchange is
  `GreeterInv`: the bytes sent are some writing of the request, those answered
  some answer to the bytes received, and the reply is read from them. What these
  bytes say is the larger part. `MergeMeans`: the message made of fields that can
  be read has the last value of its field, and the unknown fields of each key it
  keeps in their order, groups changing nothing. `ReadPartReads`: before the first field that cannot be read, all
  can. `WritesAll`: whatever is written of a message says all that is in it and is
  as long as `compute_size` says; as the order in which a `HashMap` gives the
  unknown fields is open, this needs that the sum of their sizes is the same in
  any order (`AnyOrder`). These are inductions over the bytes. They are done over
  sets, the sequences for which a fact holds (`SeqInduction`, from the
  well-foundedness of the naturals), and over folds of which it is first shown
  that a function with their equations exists (`FoldExists`).

Assumptions: bodies are made of gRPC frames with their parts in order, the last
possibly cut short (`BodiesAssumption`); the empty path names no method, neither
for the server (`MethodsAssumption`) nor for the pair (`NamesAssumption`);
messages are shorter than 2^32 bytes (`FramesAssumption`,
what the header can say); requests have at least one piece
(`MaxSizeAssumption`, `CallsAssumption`); buffers hold at least one frame
(`BuffersAssumption`); frames of the server are frames
(`ServerFramesAssumption`); clients are finitely many and `NoClient` is none of
them (`ClientsAssumption`); limits are numbers (`LimitsAssumption`); `NoCall` is
no call; a request of protoc is one that protoc makes (`RequestsAssumption`):
names of services and methods hold no `/` and no `.`, the methods of a service
have names of their own, and so have the services of all its files together; the
words of the greeting are words (`WordsAssumption`), the bytes of another client
are wire fields (`InputsAssumption`), and the fields nobody here knows have
finitely many keys, none with the number 1 (`UnknownKeysAssumption`).

Only model-checked:

- liveness (both `EveryMessageAnswered`, both `EveryCallEnds`,
  `EveryClientServed`, `HungUpReleased`), which needs fairness and ENABLED and is
  out of the prover's reach. Of `GrpcUnary!EveryCallEnds` the parts that
  are safety are proved: the two threads do not both wait, writers apart
  (`OnlyWritersWait`, `RoomMeansProgress`), and the steps come to an end
  (`EveryStepWorks`). What is missing is that a thread that does not wait has a
  step to take, which is ENABLED, and that fairness makes it take one.

Every invariant the runs check, and every action property, is proved.

## Findings

1. `server.rs:237`: `resp_buf` is never cleared, so each later frame of the
   connection makes the server send every finished response again, END_STREAM
   included (`server_end_stream`).
2. `server.rs:254`: sending the trailers does not close the stream locally, so
   `reap_streams` never drops a finished call (`server_reap`).
3. `client.rs:93`: with both directions full, client and server wait for each
   other for ever (`unary_blocked`). The responses sent again make this much
   easier to reach.

`unary` shows that the client of this repository survives the first: the frames
sent again go to streams whose call has returned.

## Not modelled

- `solicit`, `futures`, `futures_mio`, `protobuf`: external, modelled from how
  this code uses them. HTTP/2 flow control windows and HPACK are theirs.
- Lengths of 4 GiB and more in the runs and in the loop of `GrpcFrame`: `write_frame`
  truncates them, with the consequence `LongMessagesAreCut` states.
- The text of generated code, its imports and comments, and logging.
- Of `helloworld.rs`: `default_instance`, equality, reflection and file
  descriptors, which no program here uses.
- `lib.rs`, `result.rs`, `futures_grpc.rs`: no behaviour of their own.
- Bad frames in `GrpcServer`: a client that sends one counts as gone. What its
  own connection does with it is in `GrpcServerConnection`.

## Plan

The order was: server connection and its proofs; message frames; shared sender
and asynchronous client; client; the composition; the code generator; the accept
loop; messages and marshallers; then the theorems of the client, of the frame
loop and of the server, and last those of the composition, the generator and the
messages.
What is left:

1. A `GrpcUnary` whose client is served by a server that clears its response
   buffers, to separate what is owed to the re-sent responses from what is not.
