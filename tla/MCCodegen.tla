------------------------------ MODULE MCCodegen ------------------------------
(* Requests of protoc for Codegen: two files, whose packages, services and  *)
(* methods vary, one requested file missing or an imported one not asked    *)
(* for.                                                                     *)
EXTENDS Codegen

\* The names of the methods; the second one streams.
Method(name, streaming) ==
  [name |-> <<name>>, input |-> ".helloworld.HelloRequest",
   output |-> ".helloworld.HelloReply",
   client_streaming |-> streaming, server_streaming |-> streaming]

Service(name) ==
  [name |-> name, methods |-> <<Method("SayHello", FALSE), Method("RouteChat", TRUE)>>]

ServiceLists ==
  {<<>>, <<Service(<<"Greeter">>)>>,
   <<Service(<<"Greeter">>), Service(<<"Greeter", "Async">>)>>,
   <<Service(<<"Route">>), Service(<<"Greeter">>), Service(<<"Greeter", "Client">>)>>}

Packages == {<<>>, <<"proto">>, <<"proto", ".", "v2">>}

FileA == {[name |-> <<"a">>, package |-> p, services |-> s] : p \in Packages, s \in ServiceLists}
FileB == {[name |-> <<"b">>, package |-> <<"other">>, services |-> s] : s \in ServiceLists}

Helloworld == [name |-> <<"helloworld">>, package |-> <<"helloworld">>, services |-> <<HelloworldService>>]

MCWords ==
  {"Greeter", "Async", "Client", "Server", "Route", "SayHello", "RouteChat", "a", "b",
   "helloworld", "missing", "proto", "v2", "other", "/", "."}

MCRequests ==
  {[files |-> <<a, b, Helloworld>>, names |-> n] :
     a \in FileA, b \in FileB,
     n \in {<<<<"a">>, <<"b">>>>, <<<<"helloworld">>, <<"a">>>>, <<<<"b">>, <<"missing">>>>}}

MCRustMod == [n \in {<<"a">>, <<"b">>, <<"helloworld">>} |-> n]
MCRustFqName == [t \in {".helloworld.HelloRequest", ".helloworld.HelloReply"} |->
  IF t = ".helloworld.HelloRequest" THEN "helloworld::HelloRequest"
                                    ELSE "helloworld::HelloReply"]

ASSUME HelloworldAssumption == HelloworldProto
=============================================================================
