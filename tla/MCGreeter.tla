----------------------------- MODULE MCGreeter ------------------------------
(***************************************************************************)
(* An instance of Greeter for TLC: requests of up to three wire fields, well *)
(* formed or not.                                                          *)
(***************************************************************************)
EXTENDS Greeter

MCUnknownKeys == {<<2, "delimited">>, <<2, "varint">>, <<3, "group">>}

MCFields ==
  {[key |-> <<1, "delimited">>, val |-> v, utf8 |-> TRUE, whole |-> TRUE] :
     v \in {<<>>, <<"rust">>}}
    \cup {[key |-> k, val |-> <<"go">>, utf8 |-> TRUE, whole |-> TRUE] :
            k \in MCUnknownKeys \cup {<<1, "varint">>}}
    \cup {[key |-> k, val |-> <<"go">>, utf8 |-> FALSE, whole |-> TRUE] :
            k \in {<<1, "delimited">>, <<2, "delimited">>}}
    \cup {[key |-> <<2, "delimited">>, val |-> <<>>, utf8 |-> TRUE, whole |-> FALSE]}

\* Only the last field can be cut short.
MCInputs ==
  {bytes \in BoundedSeq(MCFields, 3) : \A i \in 1 .. Len(bytes) - 1 : bytes[i].whole}
=============================================================================
