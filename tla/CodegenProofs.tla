---------------------------- MODULE CodegenProofs ----------------------------
(***************************************************************************)
(* Theorems of Codegen, for all requests of protoc whose names are names:  *)
(* the results of gen, the paths that tie stubs to handlers, the names of  *)
(* the generated items, and the generated file kept in the examples.       *)
(***************************************************************************)
EXTENDS Codegen, SequenceTheorems, WellFoundedInduction, TLAPS

-----------------------------------------------------------------------------
(* Names joined to names *)

\* A word at the end of a name: Append says what the provers know of it.
LEMMA OneMoreWord ==
  ASSUME NEW S, NEW a \in Seq(S), NEW c \in S
  PROVE  a \o <<c>> = Append(a, c)
BY AppendIsConcat

\* a and m with c between them
Join(a, c, m) == Append(a, c) \o m

\* w is that sequence, word by word.
Joined(w, a, c, m) ==
  /\ Len(w) = Len(a) + 1 + Len(m)
  /\ \A i \in 1 .. Len(a) : w[i] = a[i]
  /\ w[Len(a) + 1] = c
  /\ \A i \in 1 .. Len(m) : w[Len(a) + 1 + i] = m[i]

LEMMA WordsOfJoin ==
  ASSUME NEW S, NEW a \in Seq(S), NEW c \in S, NEW m \in Seq(S)
  PROVE  /\ Append(a, c) \in Seq(S) /\ Join(a, c, m) \in Seq(S)
         /\ Joined(Join(a, c, m), a, c, m)
<1> DEFINE d == Append(a, c)
           w == d \o m
<1>1. Len(a) \in Nat /\ Len(m) \in Nat
  BY LenProperties
<1>2. /\ d \in Seq(S) /\ Len(d) = Len(a) + 1
      /\ \A i \in 1 .. Len(a) : d[i] = a[i]
      /\ d[Len(a) + 1] = c
  BY AppendProperties
<1> HIDE DEF d
<1>3. /\ w \in Seq(S) /\ Len(w) = Len(d) + Len(m)
      /\ \A i \in 1 .. Len(d) + Len(m) :
           w[i] = IF i <= Len(d) THEN d[i] ELSE m[i - Len(d)]
  BY <1>2, ConcatProperties
<1> HIDE DEF w
<1>4. \A i \in 1 .. Len(a) + 1 : w[i] = d[i]
  BY <1>1, <1>2, <1>3
<1>5. ASSUME NEW i \in 1 .. Len(m) PROVE w[Len(a) + 1 + i] = m[i]
  <2>1. /\ Len(a) + 1 + i \in 1 .. Len(d) + Len(m) /\ ~ (Len(a) + 1 + i <= Len(d))
        /\ Len(a) + 1 + i - Len(d) = i
    BY <1>1, <1>2
  <2> QED
    BY <1>3, <2>1
<1>6. Joined(w, a, c, m)
  BY <1>1, <1>2, <1>3, <1>4, <1>5 DEF Joined
<1> QED
  BY <1>2, <1>3, <1>6 DEF d, w, Join

LEMMA SameRest ==
  ASSUME NEW i \in Nat, NEW j \in Nat, NEW k \in Nat, NEW l \in Nat, i + 1 + j = k + 1 + l
  PROVE  i + j = k + l
OBVIOUS

\* Where the last part has no separator, it can be told from the rest.
LEMMA SplitShorter ==
  ASSUME NEW S, NEW a \in Seq(S), NEW b \in Seq(S), NEW c,
         NEW m \in Seq(S), NEW n \in Seq(S), NEW w,
         \A i \in 1 .. Len(n) : n[i] # c,
         Joined(w, a, c, m), Joined(w, b, c, n),
         Len(m) <= Len(n)
  PROVE  a = b /\ m = n
<1>1. /\ Len(a) \in Nat /\ Len(b) \in Nat /\ Len(m) \in Nat /\ Len(n) \in Nat
  BY LenProperties
<1>2. Len(a) + Len(m) = Len(b) + Len(n)
  <2> DEFINE la == Len(a)  lb == Len(b)  lm == Len(m)  ln == Len(n)
  <2>1. la + 1 + lm = lb + 1 + ln
    BY DEF Joined
  <2>2. la \in Nat /\ lb \in Nat /\ lm \in Nat /\ ln \in Nat
    BY <1>1
  <2> HIDE DEF la, lb, lm, ln
  <2>3. la + lm = lb + ln
    BY <2>1, <2>2
  <2> QED
    BY <2>3 DEF la, lb, lm, ln
<1>3. CASE Len(m) < Len(n)
  <2>1. Len(a) - Len(b) \in 1 .. Len(n) /\ Len(b) + 1 + (Len(a) - Len(b)) = Len(a) + 1
    BY <1>1, <1>2, <1>3
  <2>2. w[Len(a) + 1] = n[Len(a) - Len(b)]
    BY <2>1 DEF Joined
  <2> QED
    BY <2>1, <2>2 DEF Joined
<1>4. CASE Len(m) = Len(n)
  <2>1. Len(a) = Len(b)
    BY <1>1, <1>2, <1>4
  <2>2. \A i \in 1 .. Len(a) : a[i] = b[i]
    BY <2>1 DEF Joined
  <2>3. \A i \in 1 .. Len(m) : m[i] = n[i]
    BY <1>4, <2>1 DEF Joined
  <2>4. a = b
    BY <2>1, <2>2, SeqEqual
  <2>5. m = n
    BY <1>4, <2>3, SeqEqual
  <2> QED
    BY <2>4, <2>5
<1> QED
  BY <1>1, <1>3, <1>4

Without(n, c) == \A i \in 1 .. Len(n) : n[i] # c

LEMMA SplitAtLast ==
  ASSUME NEW S, NEW a \in Seq(S), NEW b \in Seq(S), NEW c \in S,
         NEW m \in Seq(S), NEW n \in Seq(S), Without(m, c), Without(n, c),
         Join(a, c, m) = Join(b, c, n)
  PROVE  a = b /\ m = n
<1>1. PICK w : w = Join(a, c, m) /\ w = Join(b, c, n)
  OBVIOUS
<1>2. Joined(w, a, c, m) /\ Joined(w, b, c, n)
  BY <1>1, WordsOfJoin
<1>3. Len(m) <= Len(n) \/ Len(n) <= Len(m)
  BY LenProperties
<1>4. CASE Len(m) <= Len(n)
  BY <1>2, <1>4, SplitShorter DEF Without
<1>5. CASE Len(n) <= Len(m)
  BY <1>2, <1>5, SplitShorter DEF Without
<1> QED
  BY <1>3, <1>4, <1>5

-----------------------------------------------------------------------------
(* The files of a request and their results *)

\* Of some positions there is a last one.
LEMMA LastPosition ==
  ASSUME NEW n \in Nat, NEW T, T \subseteq 1 .. n, T # {}
  PROVE  \E i \in T : \A k \in T : k <= i
<1> DEFINE U == {n - k : k \in T}
<1>1. U \subseteq Nat /\ U # {}
  <2>1. \A k \in T : n - k \in Nat
    OBVIOUS
  <2> QED
    BY <2>1
<1> DEFINE R == OpToRel(<, Nat)
<1>2. \A x, y \in Nat : <<x, y>> \in R <=> x < y
  BY DEF OpToRel
<1>3. IsWellFoundedOn(R, Nat)
  BY NatLessThanWellFounded
<1> HIDE DEF R
<1>4. PICK u \in U : \A v \in U : <<v, u>> \notin R
  <2> HIDE DEF U
  <2> QED
    BY <1>1, <1>3, WFMin
<1>5. PICK i \in T : u = n - i
  OBVIOUS
<1>6. ASSUME NEW k \in T PROVE k <= i
  <2>1. n - k \in U /\ n - k \in Nat /\ n - i \in Nat /\ k \in Nat /\ i \in Nat
    OBVIOUS
  <2>2. ~ (n - k < n - i)
    BY <1>2, <1>4, <1>5, <2>1
  <2> QED
    BY <2>1, <2>2
<1> QED
  BY <1>6

\* files_map finds a file of the name it is asked for.
LEMMA FileOfName ==
  ASSUME IsRequest(request), NEW name, Named(name) # {}
  PROVE  \E i \in DOMAIN request.files :
           FileOf(name) = request.files[i] /\ request.files[i].name = name
<1> DEFINE T == Named(name)
<1>1. Len(request.files) \in Nat /\ T \subseteq 1 .. Len(request.files)
  BY LenProperties DEF IsRequest, Named
<1>2. \E i \in T : \A k \in T : k <= i
  <2> HIDE DEF T
  <2> QED
    BY <1>1, LastPosition DEF T
<1>3. (CHOOSE i \in T : \A k \in T : k <= i) \in T
  <2> HIDE DEF T
  <2> QED
    BY <1>2
<1> QED
  BY <1>3 DEF FileOf, Named

ResultOf == {GenFile(f) : f \in Range(request.files)}

\* The results so far are of files of the request, and those of the requested
\* files before the next one.
CodegenInv ==
  /\ request \in Requests
  /\ next \in 1 .. Len(request.names) + 1
  /\ results \in Seq(ResultOf)
  /\ GeneratesRequested

LEMMA RequestTypes ==
  ASSUME request \in Requests
  PROVE  /\ IsRequest(request)
         /\ Len(request.names) \in Nat
         /\ DOMAIN request.names = 1 .. Len(request.names)
         /\ DOMAIN request.files = 1 .. Len(request.files)
<1>1. IsRequest(request)
  BY RequestsAssumption
<1> QED
  BY <1>1, LenProperties DEF IsRequest

LEMMA CodegenInvInit == Init => CodegenInv
<1> SUFFICES ASSUME Init PROVE CodegenInv
  OBVIOUS
<1>1. request \in Requests /\ next = 1 /\ results = <<>>
  BY DEF Init
<1>2. next \in 1 .. Len(request.names) + 1
  BY <1>1, RequestTypes
<1>3. results \in Seq(ResultOf) /\ DOMAIN results = {}
  BY <1>1, EmptySeq
<1>4. GeneratesRequested
  <2>1. 1 .. next - 1 = {}
    BY <1>1
  <2> DEFINE place == [r \in DOMAIN results |-> 0]
  <2>2. place \in [DOMAIN results -> 1 .. next - 1]
    BY <1>3
  <2>3. Range(place) = {}
    BY <1>3 DEF Range
  <2> QED
    BY <1>3, <2>1, <2>2, <2>3 DEF GeneratesRequested
<1> QED
  BY <1>1, <1>2, <1>3, <1>4 DEF CodegenInv

LEMMA NextFileKeepsPlaces ==
  ASSUME CodegenInv, NextFile
  PROVE  CodegenInv'
<1> DEFINE name == FilesToGenerate[next]
           file == FileOf(name)
<1>1. /\ request' = request /\ next' = next + 1
      /\ results' = IF file.services = <<>> THEN results ELSE Append(results, GenFile(file))
      /\ next <= Len(request.names) /\ Named(name) # {}
  BY DEF NextFile, Running, FilesToGenerate
<1>2. /\ request \in Requests /\ next \in 1 .. Len(request.names) + 1
      /\ results \in Seq(ResultOf) /\ IsRequest(request) /\ Len(request.names) \in Nat
  BY RequestTypes DEF CodegenInv
<1>3. file \in Range(request.files) /\ file.name = name
  BY <1>1, <1>2, FileOfName DEF Range
<1>4. next' \in 1 .. Len(request.names)' + 1
  BY <1>1, <1>2
<1>5. results' \in Seq(ResultOf)'
  <2>1. ResultOf' = ResultOf /\ GenFile(file) \in ResultOf
    BY <1>1, <1>3 DEF ResultOf
  <2> HIDE DEF file
  <2> QED
    BY <1>1, <1>2, <2>1, AppendProperties
<1>6. PICK place \in [DOMAIN results -> 1 .. next - 1] :
        /\ \A q, r \in DOMAIN results : q < r => place[q] < place[r]
        /\ Range(place) = {i \in 1 .. next - 1 : FileOf(request.names[i]).services # <<>>}
        /\ \A r \in DOMAIN results : results[r].name = ResultName(request.names[place[r]])
  BY DEF CodegenInv, GeneratesRequested
<1>7. \A i : (FileOf(request.names[i]).services # <<>>)'
               <=> FileOf(request.names[i]).services # <<>>
  BY <1>1 DEF FileOf, Named
<1>8. 1 .. next' - 1 = (1 .. next - 1) \union {next} /\ next \notin 1 .. next - 1
  BY <1>1, <1>2
<1>9. name = request.names[next]
  BY DEF FilesToGenerate
<1>10. CASE file.services = <<>>
  <2>1. results' = results
    BY <1>1, <1>10
  <2>2. place \in [DOMAIN results -> 1 .. next' - 1]
    BY <1>8
  <2>3. {i \in 1 .. next' - 1 : FileOf(request.names[i]).services # <<>>}
          = {i \in 1 .. next - 1 : FileOf(request.names[i]).services # <<>>}
    BY <1>8, <1>9, <1>10
  <2>4. GeneratesRequested'
    BY <1>1, <1>6, <1>7, <2>1, <2>2, <2>3 DEF GeneratesRequested
  <2> QED
    BY <1>1, <1>2, <1>4, <1>5, <2>4 DEF CodegenInv
<1>11. CASE file.services # <<>>
  <2> DEFINE n == Len(results)
             put == [r \in 1 .. n + 1 |-> IF r = n + 1 THEN next ELSE place[r]]
  <2>1. results' = Append(results, GenFile(file))
    BY <1>1, <1>11
  <2>2. n \in Nat /\ DOMAIN results = 1 .. n
    BY <1>2, LenProperties
  <2>3. /\ DOMAIN results' = 1 .. n + 1
        /\ \A r \in 1 .. n : results'[r] = results[r]
        /\ results'[n + 1] = GenFile(file)
    <3>1. results \in Seq(ResultOf \union {GenFile(file)})
      BY <1>2, SeqMonotonic
    <3> HIDE DEF file
    <3> QED
      BY <2>1, <2>2, <3>1, AppendProperties, LenProperties
  <2>4. put \in [DOMAIN results' -> 1 .. next' - 1]
    BY <1>8, <2>2, <2>3
  <2>5. \A q, r \in DOMAIN results' : q < r => put[q] < put[r]
    BY <1>2, <1>6, <2>2, <2>3
  <2>6. Range(put) = Range(place) \union {next}
    <3>1. \A r \in 1 .. n : put[r] = place[r]
      BY <2>2
    <3>2. DOMAIN put = 1 .. n \union {n + 1} /\ put[n + 1] = next /\ DOMAIN place = 1 .. n
      BY <2>2
    <3> HIDE DEF put
    <3> QED
      BY <3>1, <3>2 DEF Range
  <2>7. {i \in 1 .. next' - 1 : FileOf(request.names[i]).services # <<>>}
          = {i \in 1 .. next - 1 : FileOf(request.names[i]).services # <<>>} \union {next}
    BY <1>8, <1>9, <1>11
  <2>8. \A r \in DOMAIN results' : results'[r].name = ResultName(request.names[put[r]])
    <3>1. results'[n + 1].name = ResultName(request.names[next])
      BY <1>3, <1>9, <2>3 DEF GenFile
    <3> QED
      BY <1>6, <2>2, <2>3, <3>1
  <2>9. GeneratesRequested'
    <3> HIDE DEF put, file, name
    <3>1. PICK p : p = put
      OBVIOUS
    <3>2. {i \in 1 .. next - 1 : FileOf(request.names[i]).services # <<>>}' = Range(p)
      BY <1>1, <1>6, <1>7, <2>6, <2>7, <3>1
    <3>3. \A r \in DOMAIN results' : results'[r].name = ResultName(request'.names[p[r]])
      BY <1>1, <2>8, <3>1
    <3> QED
      BY <2>4, <2>5, <3>1, <3>2, <3>3 DEF GeneratesRequested
  <2> QED
    BY <1>1, <1>2, <1>4, <1>5, <2>9 DEF CodegenInv
<1> QED
  BY <1>10, <1>11

LEMMA CodegenInvariant == Spec => []CodegenInv
<1>1. CodegenInv /\ [Next]_vars => CodegenInv'
  <2> SUFFICES ASSUME CodegenInv, [Next]_vars PROVE CodegenInv'
    OBVIOUS
  <2>1. CASE NextFile
    BY <2>1, NextFileKeepsPlaces
  <2>2. CASE UnknownFile \/ UNCHANGED vars
    <3>1. request' = request /\ next' = next /\ results' = results
      BY <2>2 DEF UnknownFile, vars
    <3>2. \A n : FileOf(n)' = FileOf(n)
      BY <3>1 DEF FileOf, Named
    <3>3. {i \in 1 .. next - 1 : FileOf(request.names[i]).services # <<>>}'
            = {i \in 1 .. next - 1 : FileOf(request.names[i]).services # <<>>}
      BY <3>1, <3>2
    <3>4. GeneratesRequested'
      BY <3>1, <3>3 DEF CodegenInv, GeneratesRequested
    <3> QED
      BY <3>1, <3>4 DEF CodegenInv, ResultOf
  <2> QED
    BY <2>1, <2>2 DEF Next
<1> QED
  BY <1>1, CodegenInvInit, PTL DEF Spec

\* gen answers a request with one result for each requested file that has
\* services, in the order of the request (codegen.rs, gen).
THEOREM RequestedFilesGenerated == Spec => []GeneratesRequested
<1>1. CodegenInv => GeneratesRequested
  BY DEF CodegenInv
<1> QED
  BY <1>1, CodegenInvariant, PTL

-----------------------------------------------------------------------------
(* The paths of the methods *)

LEMMA OneWord == ASSUME NEW S, NEW c \in S PROVE <<c>> \in Seq(S)
OBVIOUS

PackagePath(f) == <<"/">> \o f.package

LEMMA MethodPath ==
  ASSUME NEW f, NEW s, NEW m, f.package \in Seq(Words), IsName(s.name), IsName(m.name)
  PROVE  /\ PackagePath(f) \in Seq(Words) /\ ServicePath(f, s) \in Seq(Words)
         /\ ServicePath(f, s) = Join(PackagePath(f), ".", s.name)
         /\ MethodDescriptor(ServicePath(f, s), m).name = Join(ServicePath(f, s), "/", m.name)
<1> DEFINE P == PackagePath(f)
           Q == ServicePath(f, s)
<1>1. "/" \in Words /\ "." \in Words
  BY WordsAssumption DEF Separators
<1>2. s.name \in Seq(Words) /\ m.name \in Seq(Words)
  BY DEF IsName
<1>3. P \in Seq(Words)
  <2>1. <<"/">> \in Seq(Words)
    BY <1>1, OneWord
  <2> QED
    BY <2>1, ConcatProperties DEF PackagePath
<1>4. Q = (P \o <<".">>) \o s.name
  BY DEF ServicePath, PackagePath
<1>5. P \o <<".">> = Append(P, ".")
  <2> HIDE DEF P
  <2> QED
    BY <1>1, <1>3, OneMoreWord
<1>6. Q = Join(P, ".", s.name)
  BY <1>4, <1>5 DEF Join
<1>7. Q \in Seq(Words)
  <2> HIDE DEF P, Q
  <2> QED
    BY <1>1, <1>2, <1>3, <1>6, WordsOfJoin
<1>8. MethodDescriptor(Q, m).name = (Q \o <<"/">>) \o m.name
  BY DEF MethodDescriptor
<1>9. Q \o <<"/">> = Append(Q, "/")
  <2> HIDE DEF Q
  <2> QED
    BY <1>1, <1>7, OneMoreWord
<1>10. MethodDescriptor(Q, m).name = Join(Q, "/", m.name)
  BY <1>8, <1>9 DEF Join
<1> QED
  BY <1>3, <1>6, <1>7, <1>10

\* The path of a method tells its package, its service and its name.
LEMMA PathsTell ==
  ASSUME NEW f, NEW s, NEW m, f.package \in Seq(Words), IsName(s.name), IsName(m.name),
         NEW g, NEW t, NEW n, g.package \in Seq(Words), IsName(t.name), IsName(n.name),
         MethodDescriptor(ServicePath(f, s), m).name = MethodDescriptor(ServicePath(g, t), n).name
  PROVE  f.package = g.package /\ s.name = t.name /\ m.name = n.name
<1> DEFINE P == PackagePath(f)
           Q == ServicePath(f, s)
           R == PackagePath(g)
           T == ServicePath(g, t)
<1>1. /\ P \in Seq(Words) /\ Q \in Seq(Words) /\ R \in Seq(Words) /\ T \in Seq(Words)
      /\ Q = Join(P, ".", s.name) /\ T = Join(R, ".", t.name)
      /\ Join(Q, "/", m.name) = Join(T, "/", n.name)
  <2>1. /\ P \in Seq(Words) /\ Q \in Seq(Words) /\ Q = Join(P, ".", s.name)
        /\ MethodDescriptor(Q, m).name = Join(Q, "/", m.name)
    BY MethodPath
  <2>2. /\ R \in Seq(Words) /\ T \in Seq(Words) /\ T = Join(R, ".", t.name)
        /\ MethodDescriptor(T, n).name = Join(T, "/", n.name)
    BY MethodPath
  <2> QED
    BY <2>1, <2>2
<1>2. "/" \in Words /\ "." \in Words
  BY WordsAssumption DEF Separators
<1>3. /\ s.name \in Seq(Words) /\ m.name \in Seq(Words)
      /\ t.name \in Seq(Words) /\ n.name \in Seq(Words)
      /\ Without(s.name, ".") /\ Without(t.name, ".")
      /\ Without(m.name, "/") /\ Without(n.name, "/")
  BY DEF IsName, Separators, Without
<1>4. Q = T /\ m.name = n.name
  <2> HIDE DEF P, Q, R, T
  <2> QED
    BY <1>1, <1>2, <1>3, SplitAtLast
<1>5. P = R /\ s.name = t.name
  <2> HIDE DEF P, Q, R, T
  <2> QED
    BY <1>1, <1>2, <1>3, <1>4, SplitAtLast
<1>6. f.package = g.package
  <2>1. <<"/">> \in Seq(Words)
    BY <1>2, OneWord
  <2>2. <<"/">> \o f.package = <<"/">> \o g.package
    BY <1>5 DEF PackagePath
  <2> QED
    BY <2>1, <2>2, ConcatSimplifications
<1> QED
  BY <1>4, <1>5, <1>6

-----------------------------------------------------------------------------
(* Stubs and handlers *)

\* g is generated from the service a of the file i.
From(g, i, a) ==
  /\ i \in DOMAIN request.files /\ a \in DOMAIN request.files[i].services
  /\ g = ServiceCode(request.files[i], request.files[i].services[a])

LEMMA ResultsFromFiles ==
  ASSUME CodegenInv, NEW r \in DOMAIN results
  PROVE  \E i \in DOMAIN request.files :
           /\ DOMAIN results[r].content = DOMAIN request.files[i].services
           /\ \A a \in DOMAIN results[r].content : From(results[r].content[a], i, a)
<1>1. results[r] \in ResultOf
  BY LenProperties, ElementOfSeq DEF CodegenInv
<1>2. PICK i \in DOMAIN request.files : results[r] = GenFile(request.files[i])
  BY <1>1 DEF ResultOf, Range
<1>3. results[r].content =
        [k \in DOMAIN request.files[i].services |->
           ServiceCode(request.files[i], request.files[i].services[k])]
  BY <1>2 DEF GenFile
<1> QED
  BY <1>3 DEF From

LEMMA GeneratedFrom ==
  ASSUME CodegenInv, NEW g \in Generated
  PROVE  \E i, a : From(g, i, a)
<1>1. PICK r \in DOMAIN results : g \in Range(results[r].content)
  BY DEF Generated
<1> QED
  BY <1>1, ResultsFromFiles DEF Range

LEMMA SourceTypes ==
  ASSUME CodegenInv, NEW g, NEW i, NEW a, From(g, i, a)
  PROVE  /\ IsService(request.files[i].services[a])
         /\ request.files[i].package \in Seq(Words)
         /\ FullNamesDiffer(request.files)
<1>1. IsRequest(request)
  BY RequestTypes DEF CodegenInv
<1> QED
  BY <1>1 DEF IsRequest, IsFile, From

\* What the generated code of a service has for each of its methods
Stubs(f, s) == [k \in DOMAIN s.methods |-> MethodDescriptor(ServicePath(f, s), s.methods[k])]

Handlers(f, s) ==
  [k \in DOMAIN s.methods |->
     [desc |-> MethodDescriptor(ServicePath(f, s), s.methods[k]),
      calls |-> s.methods[k].name]]

Sigs(s) == [k \in DOMAIN s.methods |-> Sig(s.methods[k], FALSE)]

LEMMA MethodsOfService ==
  ASSUME NEW f, NEW s, NEW g, g = ServiceCode(f, s)
  PROVE  /\ g.package = f.package /\ g.sync_intf.name = s.name
         /\ g.sync_intf.methods = Sigs(s)
         /\ g.sync_server.methods = Handlers(f, s)
         /\ g.sync_client.stubs = Stubs(f, s) /\ g.async_client.stubs = Stubs(f, s)
<1>1. /\ g.package = f.package
      /\ g.sync_intf = Intf(s, SyncIntfName(s), FALSE)
      /\ g.sync_server = Server(f, s)
      /\ g.sync_client = Client(f, s, SyncClientName(s), SyncIntfName(s))
      /\ g.async_client = Client(f, s, AsyncClientName(s), AsyncIntfName(s))
  BY DEF ServiceCode
<1>2. g.sync_client.stubs = Stubs(f, s) /\ g.async_client.stubs = Stubs(f, s)
  BY <1>1 DEF Client, PerMethod, Stubs
<1>3. g.sync_intf.methods = Sigs(s) /\ g.sync_intf.name = s.name
  BY <1>1 DEF Intf, SyncIntfName, PerMethod, Sigs
<1>4. g.sync_server.methods = Handlers(f, s)
  BY <1>1 DEF Server, PerMethod, Handlers
<1> QED
  BY <1>1, <1>2, <1>3, <1>4

LEMMA MethodsAreSeq ==
  ASSUME NEW s, IsService(s)
  PROVE  DOMAIN s.methods = 1 .. Len(s.methods) /\ Len(s.methods) \in Nat
BY LenProperties DEF IsService

LEMMA LenOfFunction ==
  ASSUME NEW f, NEW n \in Nat, f = [x \in DOMAIN f |-> f[x]], DOMAIN f = 1 .. n
  PROVE  Len(f) = n
<1> DEFINE S == {f[x] : x \in 1 .. n}
<1>1. f \in [1 .. n -> S]
  OBVIOUS
<1>2. f \in Seq(S)
  <2> HIDE DEF S
  <2> QED
    BY <1>1, SeqDef
<1>3. Len(f) \in Nat /\ 1 .. Len(f) = 1 .. n
  <2> HIDE DEF S
  <2> QED
    BY <1>2, LenProperties
<1> QED
  BY <1>3

\* find_method finds the method that is alone in having the name, and none
\* where there is none.
LEMMA FoundAlone ==
  ASSUME NEW server, NEW name, NEW n \in Nat, Len(server.methods) = n
  PROVE  LET I == {k \in 1 .. n : server.methods[k].desc.name = name}
         IN  /\ I = {} => Found(server, name) = 0
             /\ \A k \in 1 .. n : I = {k} => Found(server, name) = k
<1> DEFINE I == {k \in 1 .. n : server.methods[k].desc.name = name}
<1>1. Found(server, name) = IF I # {} THEN Min(I) ELSE 0
  BY DEF Found, SelectInSeq
<1>2. ASSUME NEW k \in 1 .. n, I = {k} PROVE Min(I) = k
  BY <1>2 DEF Min
<1> HIDE DEF I
<1>3. I = {} => Found(server, name) = 0
  BY <1>1
<1>4. \A k \in 1 .. n : I = {k} => Found(server, name) = k
  BY <1>1, <1>2
<1> QED
  BY <1>3, <1>4 DEF I

\* A stub of g, at a server of h
LEMMA StubFound ==
  ASSUME CodegenInv, NEW g \in Generated, NEW h \in Generated,
         NEW c \in {g.sync_client, g.async_client}, NEW i \in DOMAIN c.stubs
  PROVE  LET j == Found(h.sync_server, c.stubs[i].name)
             same == g.package = h.package /\ g.sync_intf.name = h.sync_intf.name
         IN  /\ j # 0 <=> same
             /\ same => /\ i \in DOMAIN h.sync_intf.methods
                        /\ h.sync_intf.methods[i].name = h.sync_server.methods[j].calls
                        /\ h.sync_intf.methods[i] = g.sync_intf.methods[i]
                        /\ h.sync_server.methods[j].desc = c.stubs[i]
<1>1. PICK i1, a1 : From(g, i1, a1)
  BY GeneratedFrom
<1>2. PICK i2, a2 : From(h, i2, a2)
  BY GeneratedFrom
<1> DEFINE f == request.files[i1]
           s == f.services[a1]
           e == request.files[i2]
           t == e.services[a2]
           name == c.stubs[i].name
           n == Len(t.methods)
           I == {k \in 1 .. n : h.sync_server.methods[k].desc.name = name}
           j == Found(h.sync_server, name)
           same == g.package = h.package /\ g.sync_intf.name = h.sync_intf.name
<1>3. /\ IsService(s) /\ f.package \in Seq(Words) /\ g = ServiceCode(f, s)
      /\ IsService(t) /\ e.package \in Seq(Words) /\ h = ServiceCode(e, t)
      /\ FullNamesDiffer(request.files)
  BY <1>1, <1>2, SourceTypes DEF From
<1>4. /\ i1 \in DOMAIN request.files /\ a1 \in DOMAIN f.services
      /\ i2 \in DOMAIN request.files /\ a2 \in DOMAIN e.services
  BY <1>1, <1>2 DEF From
<1>5. f.package = e.package /\ s.name = t.name => i1 = i2 /\ a1 = a2
  BY <1>3, <1>4 DEF FullNamesDiffer
<1>6. i1 = i2 /\ a1 = a2 => f = e /\ s = t
  OBVIOUS
<1> HIDE DEF f, s, e, t
<1>7. /\ c.stubs = Stubs(f, s) /\ g.sync_intf.methods = Sigs(s)
      /\ g.package = f.package /\ g.sync_intf.name = s.name
  BY <1>3, MethodsOfService
<1>8. /\ h.sync_server.methods = Handlers(e, t) /\ h.sync_intf.methods = Sigs(t)
      /\ h.package = e.package /\ h.sync_intf.name = t.name
  BY <1>3, MethodsOfService
<1>9. DOMAIN t.methods = 1 .. n /\ n \in Nat
  BY <1>3, MethodsAreSeq
<1>10. i \in DOMAIN s.methods /\ name = MethodDescriptor(ServicePath(f, s), s.methods[i]).name
  BY <1>7 DEF Stubs
<1>11. /\ DOMAIN h.sync_server.methods = 1 .. n
       /\ \A k \in 1 .. n : /\ h.sync_server.methods[k].calls = t.methods[k].name
                           /\ h.sync_server.methods[k].desc =
                                MethodDescriptor(ServicePath(e, t), t.methods[k])
  BY <1>8, <1>9 DEF Handlers
<1>12. Len(h.sync_server.methods) = n
  <2> HIDE DEF n
  <2>1. Handlers(e, t) = [k \in DOMAIN Handlers(e, t) |-> Handlers(e, t)[k]]
    BY DEF Handlers
  <2> QED
    BY <1>8, <1>9, <1>11, <2>1, LenOfFunction
<1>13. /\ I = {} => j = 0
       /\ \A k \in 1 .. n : I = {k} => j = k
  <2> HIDE DEF n, name
  <2> QED
    BY <1>9, <1>12, FoundAlone
<1>14. ASSUME NEW k \in I
       PROVE  /\ f.package = e.package /\ s.name = t.name
              /\ s.methods[i].name = t.methods[k].name
  <2>1. k \in DOMAIN t.methods /\ MethodDescriptor(ServicePath(e, t), t.methods[k]).name = name
    BY <1>9, <1>11
  <2>2. /\ IsName(s.name) /\ IsName(t.name)
        /\ IsName(s.methods[i].name) /\ IsName(t.methods[k].name)
    BY <1>3, <1>10, <2>1 DEF IsService
  <2> HIDE DEF name, I
  <2> QED
    BY <1>3, <1>10, <2>1, <2>2, PathsTell
<1>15. CASE ~ same
  <2>1. I = {}
    BY <1>7, <1>8, <1>14, <1>15
  <2> QED
    BY <1>13, <1>15, <2>1
<1>16. CASE same
  <2>1. f = e /\ s = t
    BY <1>5, <1>6, <1>7, <1>8, <1>16
  <2>2. i \in 1 .. n /\ h.sync_server.methods[i].desc.name = name
    BY <1>9, <1>10, <1>11, <2>1
  <2>3. i \in I
    BY <2>2
  <2>4. \A k \in I : k = i
    BY <1>3, <1>9, <1>10, <1>14, <2>1 DEF IsService
  <2>5. j = i
    <3>1. I = {i}
      BY <2>3, <2>4
    <3> HIDE DEF I, j, n
    <3> QED
      BY <1>13, <2>2, <3>1
  <2>6. j # 0
    BY <2>2, <2>5
  <2>7. /\ h.sync_server.methods[i].desc = c.stubs[i]
        /\ h.sync_server.methods[i].calls = t.methods[i].name
    BY <1>7, <1>10, <1>11, <2>1, <2>2 DEF Stubs
  <2>8. /\ i \in DOMAIN h.sync_intf.methods
        /\ h.sync_intf.methods[i].name = t.methods[i].name
        /\ h.sync_intf.methods = g.sync_intf.methods
    BY <1>7, <1>8, <1>9, <2>1, <2>2 DEF Sigs, Sig
  <2> QED
    BY <1>16, <2>5, <2>6, <2>7, <2>8
<1> QED
  BY <1>15, <1>16

\* A stub is answered by a generated server exactly when both come from the
\* same service, and then by the method it implements, with its types: the
\* paths of write_method_descriptor tell packages, services and methods apart.
THEOREM StubsReachTheirHandlers == Spec => []StubsReachHandlers
<1>1. CodegenInv => StubsReachHandlers
  BY StubFound DEF StubsReachHandlers
<1> QED
  BY <1>1, CodegenInvariant, PTL

-----------------------------------------------------------------------------
(* The names of the items *)

\* a with one more word
Longer(a, c) == Append(a, c)

LEMMA LongerName ==
  ASSUME NEW S, NEW a \in Seq(S), NEW c \in S
  PROVE  /\ Longer(a, c) \in Seq(S)
         /\ a \o <<c>> = Longer(a, c)
<1>1. Append(a, c) \in Seq(S)
  BY AppendProperties
<1>2. a \o <<c>> = Append(a, c)
  BY OneMoreWord
<1> QED
  BY <1>1, <1>2 DEF Longer

LEMMA LongerTells ==
  ASSUME NEW S, NEW a \in Seq(S), NEW c \in S, NEW b \in Seq(S), NEW d \in S,
         Longer(a, c) = Longer(b, d)
  PROVE  a = b /\ c = d
BY AppendInjective DEF Longer

\* w is the item number i of a service called n.
IsItem(n, i, w) ==
  \/ i = 1 /\ w = n
  \/ i = 2 /\ w = Longer(n, "Async")
  \/ i = 3 /\ w = Longer(n, "Client")
  \/ i = 4 /\ w = Longer(Longer(n, "Async"), "Client")
  \/ i = 5 /\ w = Longer(n, "Server")

LEMMA ItemWords ==
  "Async" \in Words /\ "Client" \in Words /\ "Server" \in Words
BY WordsAssumption

LEMMA ItemNames ==
  ASSUME NEW f, NEW s, IsName(s.name), NEW i \in 1 .. 5
  PROVE  IsItem(s.name, i, Items(ServiceCode(f, s))[i])
<1> DEFINE n == s.name
           g == ServiceCode(f, s)
<1>1. /\ n \in Seq(Words) /\ Longer(n, "Async") \in Seq(Words)
      /\ n \o <<"Async">> = Longer(n, "Async")
      /\ n \o <<"Client">> = Longer(n, "Client")
      /\ n \o <<"Server">> = Longer(n, "Server")
  <2>1. n \in Seq(Words)
    BY DEF IsName
  <2> HIDE DEF n
  <2> QED
    BY <2>1, ItemWords, LongerName
<1>2. Longer(n, "Async") \o <<"Client">> = Longer(Longer(n, "Async"), "Client")
  <2> HIDE DEF n
  <2>1. PICK b : b = Longer(n, "Async")
    OBVIOUS
  <2>2. b \in Seq(Words)
    BY <1>1, <2>1
  <2>3. b \o <<"Client">> = Longer(b, "Client")
    BY <2>2, ItemWords, LongerName
  <2> QED
    BY <2>1, <2>3
<1>3. /\ Items(g)[1] = n
      /\ Items(g)[2] = n \o <<"Async">>
      /\ Items(g)[3] = n \o <<"Client">>
      /\ Items(g)[4] = (n \o <<"Async">>) \o <<"Client">>
      /\ Items(g)[5] = n \o <<"Server">>
  BY DEF ServiceCode, Items, Intf, Client, Server, SyncIntfName,
     AsyncIntfName, SyncClientName, AsyncClientName, SyncServerName
<1>4. /\ Items(g)[2] = Longer(n, "Async")
      /\ Items(g)[3] = Longer(n, "Client")
      /\ Items(g)[4] = Longer(Longer(n, "Async"), "Client")
      /\ Items(g)[5] = Longer(n, "Server")
  BY <1>1, <1>2, <1>3
<1>5. i = 1 \/ i = 2 \/ i = 3 \/ i = 4 \/ i = 5
  OBVIOUS
<1> HIDE DEF n, g
<1> QED
  BY <1>3, <1>4, <1>5 DEF IsItem, n, g

Suffixed(a, b) == \E x \in ItemSuffixes : a = b \o x

LEMMA SuffixesOfItems ==
  ASSUME NEW a \in Seq(Words)
  PROVE  /\ Suffixed(Longer(a, "Async"), a)
         /\ Suffixed(Longer(a, "Client"), a)
         /\ Suffixed(Longer(Longer(a, "Async"), "Client"), a)
         /\ Suffixed(Longer(a, "Server"), a)
<1>1. /\ Longer(a, "Async") \in Seq(Words) /\ Longer(a, "Async") = a \o <<"Async">>
      /\ Longer(a, "Client") = a \o <<"Client">>
      /\ Longer(a, "Server") = a \o <<"Server">>
  BY ItemWords, LongerName
<1>2. Longer(Longer(a, "Async"), "Client") = (a \o <<"Async">>) \o <<"Client">>
  <2>1. PICK b : b = Longer(a, "Async")
    OBVIOUS
  <2>2. b \in Seq(Words)
    BY <1>1, <2>1
  <2>3. b \o <<"Client">> = Longer(b, "Client")
    BY <2>2, ItemWords, LongerName
  <2> QED
    BY <1>1, <2>1, <2>3
<1>3. <<"Async">> \in Seq(Words) /\ <<"Client">> \in Seq(Words)
  BY ItemWords, OneWord
<1>4. (a \o <<"Async">>) \o <<"Client">> = a \o (<<"Async">> \o <<"Client">>)
  BY <1>3, ConcatAssociative
<1>5. /\ <<"Async">> \in ItemSuffixes /\ <<"Client">> \in ItemSuffixes
      /\ <<"Async">> \o <<"Client">> \in ItemSuffixes /\ <<"Server">> \in ItemSuffixes
  BY DEF ItemSuffixes
<1>6. Longer(Longer(a, "Async"), "Client") = a \o (<<"Async">> \o <<"Client">>)
  BY <1>2, <1>4
<1> QED
  BY <1>1, <1>5, <1>6 DEF Suffixed

\* Items of one name are the same item of services of one name, or one of the
\* services is called like an item of the other.
LEMMA ItemsClash ==
  ASSUME NEW n \in Seq(Words), NEW m \in Seq(Words), NEW w, NEW i, NEW j,
         IsItem(n, i, w), IsItem(m, j, w)
  PROVE  (i = j /\ n = m) \/ Suffixed(n, m) \/ Suffixed(m, n)
<1>1. /\ Longer(n, "Async") \in Seq(Words) /\ Longer(m, "Async") \in Seq(Words)
  BY ItemWords, LongerName
<1>2. \A a, b \in Seq(Words), c, d \in Words :
        Longer(a, c) = Longer(b, d) => a = b /\ c = d
  BY LongerTells
<1>3. "Async" # "Client" /\ "Async" # "Server" /\ "Client" # "Server"
  OBVIOUS
<1>4. CASE i = 1 \/ j = 1
  BY <1>4, SuffixesOfItems DEF IsItem
<1>5. CASE i # 1 /\ j # 1 /\ i = j
  BY <1>1, <1>2, <1>5, ItemWords DEF IsItem
<1>6. CASE i # 1 /\ j # 1 /\ i # j
  <2>1. {i, j} = {3, 4}
    BY <1>1, <1>2, <1>3, <1>6, ItemWords DEF IsItem
  <2>2. n = Longer(m, "Async") \/ m = Longer(n, "Async")
    <3>1. (i = 3 /\ j = 4) \/ (i = 4 /\ j = 3)
      BY <1>6, <2>1
    <3>2. CASE i = 3 /\ j = 4
      BY <1>1, <1>2, <3>2, ItemWords DEF IsItem
    <3>3. CASE i = 4 /\ j = 3
      BY <1>1, <1>2, <3>3, ItemWords DEF IsItem
    <3> QED
      BY <3>1, <3>2, <3>3
  <2> QED
    BY <2>2, SuffixesOfItems
<1> QED
  BY <1>4, <1>5, <1>6

\* The items generated for a file have names of their own, unless one of its
\* services is called like an item of another (codegen.rs, the names of
\* ServiceGen).
THEOREM ItemsNamedApart == Spec => []ItemsClashOnlyBySuffix
<1>1. CodegenInv => ItemsClashOnlyBySuffix
  <2> SUFFICES ASSUME CodegenInv, NEW r \in DOMAIN results,
                      NEW a \in DOMAIN results[r].content, NEW b \in DOMAIN results[r].content
               PROVE  LET g == results[r].content[a]
                          h == results[r].content[b]
                      IN  \A i, j \in 1 .. 5 :
                            (Items(g)[i] = Items(h)[j] /\ <<a, i>> # <<b, j>>) =>
                              \E x \in ItemSuffixes :
                                \/ g.sync_intf.name = h.sync_intf.name \o x
                                \/ h.sync_intf.name = g.sync_intf.name \o x
    BY DEF ItemsClashOnlyBySuffix
  <2> DEFINE g == results[r].content[a]
             h == results[r].content[b]
  <2> SUFFICES ASSUME NEW i \in 1 .. 5, NEW j \in 1 .. 5, Items(g)[i] = Items(h)[j],
                      <<a, i>> # <<b, j>>
               PROVE  \E x \in ItemSuffixes : \/ g.sync_intf.name = h.sync_intf.name \o x
                                              \/ h.sync_intf.name = g.sync_intf.name \o x
    OBVIOUS
  <2>1. PICK k : From(g, k, a) /\ From(h, k, b)
    BY ResultsFromFiles
  <2> DEFINE f == request.files[k]
             s == f.services[a]
             t == f.services[b]
  <2>2. g = ServiceCode(f, s) /\ h = ServiceCode(f, t) /\ IsName(s.name) /\ IsName(t.name)
    BY <2>1, SourceTypes DEF From, IsService
  <2>3. s.name = t.name => a = b
    BY <2>1, SourceTypes DEF From, FullNamesDiffer
  <2> HIDE DEF g, h, f, s, t
  <2>4. g.sync_intf.name = s.name /\ h.sync_intf.name = t.name
    BY <2>2, MethodsOfService
  <2>5. PICK w : IsItem(s.name, i, w) /\ IsItem(t.name, j, w)
    <3>1. Items(g)[i] = Items(h)[j]
      BY DEF g, h
    <3> QED
      BY <2>2, <3>1, ItemNames
  <2>6. s.name \in Seq(Words) /\ t.name \in Seq(Words)
    BY <2>2 DEF IsName
  <2>7. (i = j /\ s.name = t.name) \/ Suffixed(s.name, t.name) \/ Suffixed(t.name, s.name)
    BY <2>5, <2>6, ItemsClash
  <2>8. ~ (i = j /\ s.name = t.name)
    BY <2>3
  <2> QED
    BY <2>4, <2>7, <2>8 DEF g, h, Suffixed
<1> QED
  BY <1>1, CodegenInvariant, PTL

-----------------------------------------------------------------------------
(* The generated file of the examples *)

\* A word after others, where the whole is written out as well
LEMMA WordAdded ==
  ASSUME NEW S, NEW s \in Seq(S), NEW c \in S, NEW t \in Seq(S), Len(t) = Len(s) + 1,
         \A i \in 1 .. Len(s) : t[i] = s[i], t[Len(s) + 1] = c
  PROVE  s \o <<c>> = t
<1>1. /\ Append(s, c) \in Seq(S) /\ Len(Append(s, c)) = Len(s) + 1
      /\ \A i \in 1 .. Len(s) : Append(s, c)[i] = s[i]
      /\ Append(s, c)[Len(s) + 1] = c
  BY AppendProperties
<1>2. \A i \in 1 .. Len(t) : Append(s, c)[i] = t[i]
  BY <1>1, LenProperties
<1>3. Append(s, c) = t
  BY <1>1, <1>2, SeqEqual
<1> QED
  BY <1>3, OneMoreWord

\* Words one after the other, as many as the path of a method has
LEMMA TwoWords ==
  ASSUME NEW S, NEW a \in S, NEW b \in S
  PROVE  <<a>> \o <<b>> = <<a, b>>
<1> DEFINE s == <<a>>
           t == <<a, b>>
<1>1. /\ s \in Seq(S) /\ t \in Seq(S)
      /\ Len(t) = Len(s) + 1 /\ t[Len(s) + 1] = b
      /\ \A i \in 1 .. Len(s) : t[i] = s[i]
  OBVIOUS
<1> HIDE DEF s, t
<1>2. s \o <<b>> = t
  BY <1>1, WordAdded
<1> QED
  BY <1>2 DEF s, t

\* The same of three words
LEMMA ThreeWords ==
  ASSUME NEW S, NEW a \in S, NEW b \in S, NEW c \in S
  PROVE  <<a, b>> \o <<c>> = <<a, b, c>>
<1> DEFINE s == <<a, b>>
           t == <<a, b, c>>
<1>1. /\ s \in Seq(S) /\ t \in Seq(S)
      /\ Len(t) = Len(s) + 1 /\ t[Len(s) + 1] = c
      /\ \A i \in 1 .. Len(s) : t[i] = s[i]
  OBVIOUS
<1> HIDE DEF s, t
<1>2. s \o <<c>> = t
  BY <1>1, WordAdded
<1> QED
  BY <1>2 DEF s, t

\* The same of four words
LEMMA FourWords ==
  ASSUME NEW S, NEW a \in S, NEW b \in S, NEW c \in S, NEW d \in S
  PROVE  <<a, b, c>> \o <<d>> = <<a, b, c, d>>
<1> DEFINE s == <<a, b, c>>
           t == <<a, b, c, d>>
<1>1. /\ s \in Seq(S) /\ t \in Seq(S)
      /\ Len(t) = Len(s) + 1 /\ t[Len(s) + 1] = d
      /\ \A i \in 1 .. Len(s) : t[i] = s[i]
  OBVIOUS
<1> HIDE DEF s, t
<1>2. s \o <<d>> = t
  BY <1>1, WordAdded
<1> QED
  BY <1>2 DEF s, t

\* The same of five words
LEMMA FiveWords ==
  ASSUME NEW S, NEW a \in S, NEW b \in S, NEW c \in S, NEW d \in S, NEW e \in S
  PROVE  <<a, b, c, d>> \o <<e>> = <<a, b, c, d, e>>
<1> DEFINE s == <<a, b, c, d>>
           t == <<a, b, c, d, e>>
<1>1. /\ s \in Seq(S) /\ t \in Seq(S)
      /\ Len(t) = Len(s) + 1 /\ t[Len(s) + 1] = e
      /\ \A i \in 1 .. Len(s) : t[i] = s[i]
  OBVIOUS
<1> HIDE DEF s, t
<1>2. s \o <<e>> = t
  BY <1>1, WordAdded
<1> QED
  BY <1>2 DEF s, t

\* The same of six words
LEMMA SixWords ==
  ASSUME NEW S, NEW a \in S, NEW b \in S, NEW c \in S, NEW d \in S, NEW e \in S, NEW f \in S
  PROVE  <<a, b, c, d, e>> \o <<f>> = <<a, b, c, d, e, f>>
<1> DEFINE s == <<a, b, c, d, e>>
           t == <<a, b, c, d, e, f>>
<1>1. /\ s \in Seq(S) /\ t \in Seq(S)
      /\ Len(t) = Len(s) + 1 /\ t[Len(s) + 1] = f
      /\ \A i \in 1 .. Len(s) : t[i] = s[i]
  OBVIOUS
<1> HIDE DEF s, t
<1>2. s \o <<f>> = t
  BY <1>1, WordAdded
<1> QED
  BY <1>2 DEF s, t

\* The names in helloworld_grpc.rs are those joined from the words of the .proto.
LEMMA HelloworldNames ==
  /\ ((((<<"/">> \o <<"helloworld">>) \o <<".">>) \o <<"Greeter">>) \o <<"/">>) \o <<"SayHello">>
       = <<"/", "helloworld", ".", "Greeter", "/", "SayHello">>
  /\ <<"Greeter">> \o <<"Async">> = <<"Greeter", "Async">>
  /\ <<"Greeter">> \o <<"Client">> = <<"Greeter", "Client">>
  /\ <<"Greeter">> \o <<"Server">> = <<"Greeter", "Server">>
  /\ (<<"Greeter">> \o <<"Async">>) \o <<"Client">> = <<"Greeter", "Async", "Client">>
<1> DEFINE S == {"/", "helloworld", ".", "Greeter", "SayHello", "Async", "Client", "Server"}
<1>1. /\ "/" \in S /\ "helloworld" \in S /\ "." \in S /\ "Greeter" \in S /\ "SayHello" \in S
      /\ "Async" \in S /\ "Client" \in S /\ "Server" \in S
  OBVIOUS
<1> HIDE DEF S
<1>2. ((((<<"/">> \o <<"helloworld">>) \o <<".">>) \o <<"Greeter">>) \o <<"/">>) \o <<"SayHello">>
       = <<"/", "helloworld", ".", "Greeter", "/", "SayHello">>
  <2>1. <<"/">> \o <<"helloworld">> = <<"/", "helloworld">>
    BY <1>1, TwoWords
  <2>2. <<"/", "helloworld">> \o <<".">> = <<"/", "helloworld", ".">>
    BY <1>1, ThreeWords
  <2>3. <<"/", "helloworld", ".">> \o <<"Greeter">> = <<"/", "helloworld", ".", "Greeter">>
    BY <1>1, FourWords
  <2>4. <<"/", "helloworld", ".", "Greeter">> \o <<"/">>
          = <<"/", "helloworld", ".", "Greeter", "/">>
    BY <1>1, FiveWords
  <2>5. <<"/", "helloworld", ".", "Greeter", "/">> \o <<"SayHello">>
          = <<"/", "helloworld", ".", "Greeter", "/", "SayHello">>
    BY <1>1, SixWords
  <2> QED
    BY <2>1, <2>2, <2>3, <2>4, <2>5, Zenon
<1>3. /\ <<"Greeter">> \o <<"Async">> = <<"Greeter", "Async">>
      /\ <<"Greeter">> \o <<"Client">> = <<"Greeter", "Client">>
      /\ <<"Greeter">> \o <<"Server">> = <<"Greeter", "Server">>
  BY <1>1, TwoWords
<1>4. <<"Greeter", "Async">> \o <<"Client">> = <<"Greeter", "Async", "Client">>
  BY <1>1, ThreeWords
<1> QED
  BY <1>2, <1>3, <1>4, Zenon

\* The code of that service is the file.
LEMMA HelloworldCode ==
  ASSUME HelloworldProto, NEW file, file.package = <<"helloworld">>
  PROVE  ServiceCode(file, HelloworldService) = HelloworldGrpc
<1> DEFINE s == HelloworldService
           m == HelloworldMethod
<1>1. /\ s.name = <<"Greeter">> /\ s.methods = <<m>> /\ m.name = <<"SayHello">>
      /\ m.client_streaming = FALSE /\ m.server_streaming = FALSE
  BY DEF HelloworldService, HelloworldMethod
<1>2. /\ TypePath(m.input) = <<"super::", "helloworld::HelloRequest">>
      /\ TypePath(m.output) = <<"super::", "helloworld::HelloReply">>
  BY DEF HelloworldProto, TypePath
<1>3. MethodDescriptor(ServicePath(file, s), m) = HelloworldDescriptor
  BY <1>1, HelloworldNames DEF MethodDescriptor, ServicePath, HelloworldDescriptor
<1>4. PerMethod(s, LAMBDA x : Sig(x, FALSE)) = <<HelloworldSayHello(FALSE)>>
  <2> HIDE DEF s, m
  <2> QED
    BY <1>1, <1>2 DEF PerMethod, Sig, HelloworldSayHello
<1>5. PerMethod(s, LAMBDA x : Sig(x, TRUE)) = <<HelloworldSayHello(TRUE)>>
  <2>1. Sig(m, TRUE) = HelloworldSayHello(TRUE)
    BY <1>1, <1>2 DEF Sig, HelloworldSayHello
  <2> DEFINE A(x) == Sig(x, TRUE)
  <2> HIDE DEF s, m, A
  <2>2. PerMethod(s, LAMBDA x : A(x)) = <<A(m)>>
    BY <1>1 DEF PerMethod
  <2> QED
    BY <2>1, <2>2, Zenon DEF A
<1>6. PerMethod(s, LAMBDA x : MethodDescriptor(ServicePath(file, s), x)) = <<HelloworldDescriptor>>
  <2> HIDE DEF s, m
  <2> QED
    BY <1>1, <1>3 DEF PerMethod
<1>7. PerMethod(s, LAMBDA x : [desc |-> MethodDescriptor(ServicePath(file, s), x), calls |-> x.name])
        = <<[desc |-> HelloworldDescriptor, calls |-> <<"SayHello">>]>>
  <2> HIDE DEF s, m
  <2> QED
    BY <1>1, <1>3 DEF PerMethod
<1>8. /\ SyncIntfName(s) = <<"Greeter">> /\ AsyncIntfName(s) = <<"Greeter", "Async">>
      /\ SyncClientName(s) = <<"Greeter", "Client">> /\ SyncServerName(s) = <<"Greeter", "Server">>
      /\ AsyncClientName(s) = <<"Greeter", "Async", "Client">>
  BY <1>1, HelloworldNames, Zenon
  DEF SyncIntfName, AsyncIntfName, SyncClientName, AsyncClientName, SyncServerName
<1> HIDE DEF s
<1> QED
  BY <1>3, <1>4, <1>5, <1>6, <1>7, <1>8, Zenon DEF ServiceCode, HelloworldGrpc, Intf, Client, Server, s

\* The generator still writes the helloworld_grpc.rs of the examples whenever it
\* is given the helloworld.proto of the examples, among whatever other files.
THEOREM HelloworldUpToDate == HelloworldProto => (Spec => []HelloworldIsCurrent)
<1>1. ASSUME HelloworldProto, CodegenInv PROVE HelloworldIsCurrent
  <2> SUFFICES ASSUME NEW g \in Generated, g.package = <<"helloworld">>,
                      g.sync_intf.name = <<"Greeter">>
               PROVE  g = HelloworldGrpc
    BY DEF HelloworldIsCurrent
  <2>1. PICK i, a : From(g, i, a)
    BY <1>1, GeneratedFrom
  <2> DEFINE f == request.files[i]
             s == f.services[a]
  <2>2. /\ i \in DOMAIN request.files /\ a \in DOMAIN f.services
        /\ g = ServiceCode(f, s)
    BY <2>1 DEF From
  <2>3. g.package = f.package /\ g.sync_intf.name = s.name
    BY <2>2, MethodsOfService
  <2>4. request \in Requests
    BY <1>1 DEF CodegenInv
  <2>5. s = HelloworldService
    BY <1>1, <2>2, <2>3, <2>4 DEF HelloworldProto, IsHelloworld
  <2> QED
    BY <1>1, <2>2, <2>3, <2>5, HelloworldCode
<1>2. SUFFICES ASSUME HelloworldProto PROVE Spec => []HelloworldIsCurrent
  OBVIOUS
<1>3. CodegenInv => HelloworldIsCurrent
  BY <1>1, <1>2
<1> QED
  BY <1>3, CodegenInvariant, PTL

=============================================================================
