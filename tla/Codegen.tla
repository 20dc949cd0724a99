------------------------------- MODULE Codegen -------------------------------
(***************************************************************************)
(* The protoc plugin of src/src/codegen.rs and the code it generates: for  *)
(* each requested .proto file the traits, the clients and the servers of   *)
(* its services.  Of the generated text the model keeps the items, the     *)
(* types in their signatures and the method descriptors, which is what     *)
(* ties a stub of a client to a handler of a server (method.rs).           *)
(*                                                                         *)
(* An identifier is a sequence of words, so that names built by appending  *)
(* to a name can coincide; a package is a sequence of words and dots.      *)
(***************************************************************************)
EXTENDS Integers, Sequences, SequencesExt

CONSTANTS
  Requests,     \* [files, names]: the file descriptors protoc passes, and the
                \* names of those to generate
  RustMod,      \* proto_path_to_rust_mod of the file names
  RustFqName,   \* rust_fq_name of the messages, by their names in the .proto
  Words         \* the words of names, of packages and of paths

\* The words that join names in the path of a method
Separators == {"/", "."}

ASSUME WordsAssumption == Separators \union {"Async", "Client", "Server"} \subseteq Words

IsName(n) == n \in Seq(Words) /\ \A i \in 1 .. Len(n) : n[i] \notin Separators

\* A service as protoc passes it: its methods have names, each its own.
IsService(s) ==
  /\ IsName(s.name)
  /\ s.methods \in Seq(Range(s.methods))
  /\ \A i \in DOMAIN s.methods : IsName(s.methods[i].name)
  /\ \A i, j \in DOMAIN s.methods : s.methods[i].name = s.methods[j].name => i = j

IsFile(f) ==
  /\ f.package \in Seq(Words)
  /\ f.services \in Seq(Range(f.services))
  /\ \A a \in DOMAIN f.services : IsService(f.services[a])

\* protoc refuses two services of the same full name.
FullNamesDiffer(files) ==
  \A i, j \in DOMAIN files :
    \A a \in DOMAIN files[i].services, b \in DOMAIN files[j].services :
      /\ files[i].package = files[j].package
      /\ files[i].services[a].name = files[j].services[b].name
      => i = j /\ a = b

IsRequest(q) ==
  /\ q.names \in Seq(Range(q.names))
  /\ q.files \in Seq(Range(q.files))
  /\ \A i \in DOMAIN q.files : IsFile(q.files[i])
  /\ FullNamesDiffer(q.files)

ASSUME RequestsAssumption == \A q \in Requests : IsRequest(q)

VARIABLES
  request,
  next,         \* the next of request.names in the loop of gen
  results,
  panicked

vars == <<request, next, results, panicked>>

-----------------------------------------------------------------------------
(* MethodGen *)

\* Mutant: the type is looked for in the generated module itself.
TypePathHere(t) == <<RustFqName[t]>>

\* input and output
TypePath(t) == <<"super::", RustFqName[t]>>

\* Mutant: names the service without its package.
ServicePathBare(file, service) == <<"/">> \o service.name

ServicePath(file, service) == <<"/">> \o file.package \o <<".">> \o service.name

\* sync_sig, and async_sig, whose result is a GrpcFuture
Sig(method, future) ==
  [name   |-> method.name,
   input  |-> TypePath(method.input),
   output |-> (IF future THEN <<"GrpcFuture">> ELSE <<>>) \o TypePath(method.output)]

\* write_method_descriptor
MethodDescriptor(path, method) ==
  [name |-> path \o <<"/">> \o method.name,
   client_streaming |-> method.client_streaming,
   server_streaming |-> method.server_streaming]

-----------------------------------------------------------------------------
(* ServiceGen *)

SyncIntfName(s) == s.name
AsyncIntfName(s) == SyncIntfName(s) \o <<"Async">>
SyncClientName(s) == SyncIntfName(s) \o <<"Client">>
SyncServerName(s) == SyncIntfName(s) \o <<"Server">>

\* Mutant: built from the name of the synchronous interface.
AsyncClientNameSync(s) == SyncIntfName(s) \o <<"Client">>
AsyncClientName(s) == AsyncIntfName(s) \o <<"Client">>

PerMethod(s, Op(_)) == [i \in DOMAIN s.methods |-> Op(s.methods[i])]

Intf(s, name, future) ==
  [name |-> name, methods |-> PerMethod(s, LAMBDA m : Sig(m, future))]

\* The stubs' descriptors, one for each method of the trait the client implements
Client(file, s, name, intf) ==
  [name |-> name, implements |-> intf,
   stubs |-> PerMethod(s, LAMBDA m : MethodDescriptor(ServicePath(file, s), m))]

\* write_server: a ServerMethod is a descriptor and a closure that calls the
\* handler's method.
Server(file, s) ==
  [name |-> SyncServerName(s), serves |-> SyncIntfName(s),
   methods |-> PerMethod(s, LAMBDA m :
     [desc |-> MethodDescriptor(ServicePath(file, s), m), calls |-> m.name])]

\* write
ServiceCode(file, s) ==
  [package      |-> file.package,
   sync_intf    |-> Intf(s, SyncIntfName(s), FALSE),
   async_intf   |-> Intf(s, AsyncIntfName(s), TRUE),
   sync_client  |-> Client(file, s, SyncClientName(s), SyncIntfName(s)),
   async_client |-> Client(file, s, AsyncClientName(s), AsyncIntfName(s)),
   sync_server  |-> Server(file, s)]

-----------------------------------------------------------------------------
(* gen *)

ResultName(name) == RustMod[name] \o <<"_grpc.rs">>

GenFile(file) ==
  [name    |-> ResultName(file.name),
   content |-> [k \in DOMAIN file.services |-> ServiceCode(file, file.services[k])]]

\* Mutant: every file protoc passes, the imported ones too.
FilesToGenerateAll == [i \in DOMAIN request.files |-> request.files[i].name]

FilesToGenerate == request.names

Named(name) == {i \in DOMAIN request.files : request.files[i].name = name}

\* files_map: of two files with the same name the later one is kept.
FileOf(name) ==
  request.files[CHOOSE i \in Named(name) : \A k \in Named(name) : k <= i]

Running == ~ panicked /\ next <= Len(FilesToGenerate)

Init ==
  /\ request \in Requests
  /\ next = 1
  /\ results = <<>>
  /\ panicked = FALSE

\* files_map[..] panics
UnknownFile ==
  /\ Running
  /\ Named(FilesToGenerate[next]) = {}
  /\ panicked' = TRUE
  /\ UNCHANGED <<request, next, results>>

\* A file without services has no result.
NextFile ==
  /\ Running
  /\ Named(FilesToGenerate[next]) # {}
  /\ LET file == FileOf(FilesToGenerate[next])
     IN  results' = IF file.services = <<>> THEN results
                                            ELSE Append(results, GenFile(file))
  /\ next' = next + 1
  /\ UNCHANGED <<request, panicked>>

Next == UnknownFile \/ NextFile

Spec == Init /\ [][Next]_vars

-----------------------------------------------------------------------------
(* What the generated code does at run time *)

\* ServerServiceDefinition::find_method: the first method of that name
Found(server, name) == SelectInSeq(server.methods, LAMBDA m : m.desc.name = name)

\* grpc-examples/helloworld.proto, and what each of its messages is in Rust
HelloworldMethod ==
  [name |-> <<"SayHello">>, input |-> ".helloworld.HelloRequest",
   output |-> ".helloworld.HelloReply",
   client_streaming |-> FALSE, server_streaming |-> FALSE]
HelloworldService == [name |-> <<"Greeter">>, methods |-> <<HelloworldMethod>>]

IsHelloworld(file, service) == file.package = <<"helloworld">> /\ service.name = <<"Greeter">>

\* Where protoc is given a Greeter of the package helloworld, it is that of the
\* repository.
HelloworldProto ==
  /\ \A q \in Requests : \A i \in DOMAIN q.files : \A a \in DOMAIN q.files[i].services :
       IsHelloworld(q.files[i], q.files[i].services[a]) =>
         q.files[i].services[a] = HelloworldService
  /\ RustFqName[HelloworldMethod.input] = "helloworld::HelloRequest"
  /\ RustFqName[HelloworldMethod.output] = "helloworld::HelloReply"

\* grpc-examples/src/helloworld_grpc.rs, the generated file in the repository
HelloworldSayHello(future) ==
  [name   |-> <<"SayHello">>,
   input  |-> <<"super::", "helloworld::HelloRequest">>,
   output |-> (IF future THEN <<"GrpcFuture">> ELSE <<>>)
              \o <<"super::", "helloworld::HelloReply">>]
HelloworldDescriptor ==
  [name |-> <<"/", "helloworld", ".", "Greeter", "/", "SayHello">>,
   client_streaming |-> FALSE, server_streaming |-> FALSE]
HelloworldGrpc ==
  [package      |-> <<"helloworld">>,
   sync_intf    |-> [name |-> <<"Greeter">>, methods |-> <<HelloworldSayHello(FALSE)>>],
   async_intf   |-> [name |-> <<"Greeter", "Async">>, methods |-> <<HelloworldSayHello(TRUE)>>],
   sync_client  |-> [name |-> <<"Greeter", "Client">>, implements |-> <<"Greeter">>,
                     stubs |-> <<HelloworldDescriptor>>],
   async_client |-> [name |-> <<"Greeter", "Async", "Client">>,
                     implements |-> <<"Greeter", "Async">>,
                     stubs |-> <<HelloworldDescriptor>>],
   sync_server  |-> [name |-> <<"Greeter", "Server">>, serves |-> <<"Greeter">>,
                     methods |-> <<[desc  |-> HelloworldDescriptor,
                                    calls |-> <<"SayHello">>]>>]]

-----------------------------------------------------------------------------
(* Properties *)

Generated == UNION {Range(results[r].content) : r \in DOMAIN results}

\* gen answers a request with one result for each requested file that has
\* services, in the order of the request, and leaves the other files that
\* protoc passed (the imported ones) alone.
GeneratesRequested ==
  \E place \in [DOMAIN results -> 1 .. next - 1] :
    /\ \A q, r \in DOMAIN results : q < r => place[q] < place[r]
    /\ Range(place) = {i \in 1 .. next - 1 : FileOf(request.names[i]).services # <<>>}
    /\ \A r \in DOMAIN results : results[r].name = ResultName(request.names[place[r]])

\* A stub of a generated client, synchronous or not, is answered by a
\* generated server exactly when both come from the same service, and then by
\* the handler's method that the stub implements, with the stub's types.
StubsReachHandlers ==
  \A g, h \in Generated : \A c \in {g.sync_client, g.async_client} :
    \A i \in DOMAIN c.stubs :
      LET j == Found(h.sync_server, c.stubs[i].name)
          same == g.package = h.package /\ g.sync_intf.name = h.sync_intf.name
      IN  /\ j # 0 <=> same
          /\ same =>
               \E k \in DOMAIN h.sync_intf.methods :
                 /\ h.sync_intf.methods[k].name = h.sync_server.methods[j].calls
                 /\ h.sync_intf.methods[k] = g.sync_intf.methods[i]
                 /\ h.sync_server.methods[j].desc = c.stubs[i]

ItemSuffixes == {<<"Async">>, <<"Client">>, <<"Async">> \o <<"Client">>, <<"Server">>}

Items(g) == <<g.sync_intf.name, g.async_intf.name, g.sync_client.name,
              g.async_client.name, g.sync_server.name>>

\* The items of a generated file have names of their own, unless the .proto
\* file has two services of which one is called like an item of the other.
ItemsClashOnlyBySuffix ==
  \A r \in DOMAIN results : \A a, b \in DOMAIN results[r].content :
    LET g == results[r].content[a]
        h == results[r].content[b]
    IN  \A i, j \in 1 .. 5 :
          (Items(g)[i] = Items(h)[j] /\ <<a, i>> # <<b, j>>) =>
            \E x \in ItemSuffixes : \/ g.sync_intf.name = h.sync_intf.name \o x
                                \/ h.sync_intf.name = g.sync_intf.name \o x

\* The generator still writes the helloworld_grpc.rs of the examples: for a
\* Greeter in the package helloworld it gives exactly the items of that file.
HelloworldIsCurrent ==
  \A g \in Generated :
    g.package = <<"helloworld">> /\ g.sync_intf.name = <<"Greeter">> => g = HelloworldGrpc

=============================================================================
