---------------------------- MODULE HelloMessage ----------------------------
(***************************************************************************)
(* The generated messages of helloworld.proto                              *)
(* (src/grpc-examples/src/helloworld.rs).  HelloRequest and HelloReply are  *)
(* alike: one optional string with the number 1, and the fields the sender *)
(* knew and this program does not, groups excepted: these are skipped.     *)
(*                                                                         *)
(* Bytes are a sequence of wire fields, as read_tag_unpack of the protobuf *)
(* crate finds them; the last may be cut short.  A text is a sequence of   *)
(* words.                                                                  *)
(***************************************************************************)
EXTENDS Naturals, SequencesExt, FiniteSetsExt

CONSTANTS
  Words,        \* what texts are made of
  UnknownKeys   \* number and wire type of the fields others may send

ASSUME UnknownKeysAssumption ==
  IsFiniteSet(UnknownKeys) /\ \A k \in UnknownKeys : k[1] # 1

\* read_unknown_or_skip_group keeps what is not a group.
KeptKeys == {k \in UnknownKeys : k[2] # "group"}

Text == Seq(Words)

WireField ==
  [key : {<<1, "delimited">>, <<1, "varint">>} \cup UnknownKeys,
   val : Text, utf8 : BOOLEAN, whole : BOOLEAN]

\* The field of a message: Some(v) or None
Some(v) == <<v>>
None == <<>>

\* A message: its field, its unknown fields and the size it has cached.
New == [field |-> None, unknown |-> [k \in KeptKeys |-> <<>>], cached_size |-> 0]

Has(m) == m.field # None

Get(m) == IF Has(m) THEN m.field[1] ELSE <<>>

SetField(m, v) == [m EXCEPT !.field = Some(v)]

ClearField(m) == [m EXCEPT !.field = None]

\* The field is there afterwards, empty if it was not there before.
Mut(m) == SetField(m, Get(m))

\* What is left in the message; Get(m) is what the caller takes.
Take(m) == ClearField(m)

\* Clear::clear
Clear(m) == [ClearField(m) EXCEPT !.unknown = New.unknown]

-----------------------------------------------------------------------------
IsField(w) == w.key[1] = 1

\* read_singular_string_into wants a string; an unknown field may be anything.
Readable(w) ==
  /\ w.whole
  /\ IsField(w) => w.key[2] = "delimited" /\ w.utf8

\* merge_from returns an error.
MergeFails(bytes) == \E i \in 1 .. Len(bytes) : ~ Readable(bytes[i])

\* What merge_from has read when it returns
ReadPart(bytes) ==
  IF MergeFails(bytes)
  THEN SubSeq(bytes, 1, SelectInSeq(bytes, LAMBDA w : ~ Readable(w)) - 1)
  ELSE bytes

\* Mutants: a field that has a value keeps it; unknown fields are skipped
\* as groups are.
MergeFieldKeeps(m, w) ==
  CASE IsField(w)           -> IF Has(m) THEN m ELSE SetField(m, w.val)
    [] w.key \in KeptKeys   -> [m EXCEPT !.unknown[w.key] = Append(@, w)]
    [] OTHER                -> m
MergeFieldSkips(m, w) ==
  IF IsField(w) THEN SetField(m, w.val) ELSE m

\* One round of the loop of merge_from: the last value of the field stays, an
\* unknown field is added to those of its key, an unknown group is read and lost.
MergeField(m, w) ==
  CASE IsField(w)           -> SetField(m, w.val)
    [] w.key \in KeptKeys   -> [m EXCEPT !.unknown[w.key] = Append(@, w)]
    [] OTHER                -> m

\* merge_from.  Where it fails the message has what came before.
MergeFrom(m, bytes) == FoldLeft(MergeField, m, ReadPart(bytes))

-----------------------------------------------------------------------------
FieldOf(v) == [key |-> <<1, "delimited">>, val |-> v, utf8 |-> TRUE, whole |-> TRUE]

\* Tag and length are one byte each in the sizes used here.
WireFieldSize(w) == (IF w.key[2] = "delimited" THEN 2 ELSE 1) + Len(w.val)

SizeOf(bytes) == FoldLeft(LAMBDA n, w : n + WireFieldSize(w), 0, bytes)

UnknownSize(m) == MapThenSumSet(LAMBDA k : SizeOf(m.unknown[k]), KeptKeys)

\* compute_size, which also caches what it returns
ComputeSize(m) ==
  (IF Has(m) THEN WireFieldSize(FieldOf(Get(m))) ELSE 0) + UnknownSize(m)

\* The unknown fields are kept in a HashMap: those of one number and type in
\* their order, the others in any.
UnknownWritten(m) ==
  {FlattenSeq([i \in 1 .. Len(keys) |-> m.unknown[keys[i]]]) : keys \in SetToSeqs(KeptKeys)}

\* Mutant: an empty text is left out.
WrittenIfSet(m) ==
  {(IF Get(m) # <<>> THEN <<FieldOf(Get(m))>> ELSE <<>>) \o rest : rest \in UnknownWritten(m)}

\* write_to_with_cached_sizes: what may be written
Written(m) ==
  {(IF Has(m) THEN <<FieldOf(Get(m))>> ELSE <<>>) \o rest : rest \in UnknownWritten(m)}

\* write_to_bytes computes the size of the message first.
Sized(m) == [m EXCEPT !.cached_size = ComputeSize(m)]
=============================================================================
