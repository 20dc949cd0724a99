--------------------------- MODULE GreeterProofs ----------------------------
(***************************************************************************)
(* Proofs about Greeter, for any bytes, names, unknown fields and number of *)
(* operations on a request.                                                *)
(*                                                                         *)
(* What bytes say is computed by folds, so the proofs need induction.  It  *)
(* is done over sets: the numbers, or sequences, for which a fact holds.   *)
(***************************************************************************)
EXTENDS Greeter, FiniteSetTheorems, WellFoundedInduction, TLAPS

-----------------------------------------------------------------------------
(* Induction *)

\* A set of numbers has a least one.
LEMMA LeastNumber ==
  ASSUME NEW T \in SUBSET Nat, T # {}
  PROVE  \E x \in T : \A y \in T : x <= y
<1> DEFINE R == OpToRel(<, Nat)
<1>1. IsWellFoundedOn(R, Nat)
  BY NatLessThanWellFounded
<1>2. \E x \in T : \A y \in T : ~ (<<y, x>> \in R)
  <2> HIDE DEF R
  <2> QED
    BY <1>1, WFMin
<1>3. \A x, y \in Nat : <<y, x>> \in R <=> y < x
  BY DEF OpToRel
<1> HIDE DEF R
<1>4. PICK x \in T : \A y \in T : ~ (<<y, x>> \in R)
  BY <1>2
<1>5. ASSUME NEW y \in T PROVE x <= y
  <2>1. x \in Nat /\ y \in Nat
    BY <1>4
  <2>2. ~ (y < x)
    BY <1>3, <1>4, <2>1
  <2> QED
    BY <2>1, <2>2
<1> QED
  BY <1>4, <1>5

\* A set with 0 and every successor has all numbers.
LEMMA Induction ==
  ASSUME NEW T, 0 \in T, \A n \in Nat : n \in T => n + 1 \in T
  PROVE  Nat \subseteq T
<1> SUFFICES ASSUME Nat \ T # {} PROVE FALSE
  OBVIOUS
<1>1. PICK x \in Nat \ T : \A y \in Nat \ T : x <= y
  BY LeastNumber
<1>2. x # 0 /\ x - 1 \in Nat
  BY <1>1
<1>3. x - 1 \in T
  BY <1>1, <1>2
<1> QED
  BY <1>1, <1>2, <1>3

\* A set with the empty sequence and every longer one has all sequences.
LEMMA SeqInduction ==
  ASSUME NEW E, NEW T, <<>> \in T,
         \A s \in Seq(E), e \in E : s \in T => Append(s, e) \in T
  PROVE  Seq(E) \subseteq T
<1> DEFINE L == {n \in Nat : \A s \in Seq(E) : Len(s) = n => s \in T}
<1>1. 0 \in L
  <2>1. \A s \in Seq(E) : Len(s) = 0 => s = <<>>
    OBVIOUS
  <2> QED
    BY <2>1
<1>2. ASSUME NEW n \in Nat, n \in L PROVE n + 1 \in L
  <2>1. SUFFICES ASSUME NEW s \in Seq(E), Len(s) = n + 1 PROVE s \in T
    OBVIOUS
  <2> DEFINE f == SubSeq(s, 1, n)
  <2>2. f \in Seq(E) /\ Len(f) = n /\ \A i \in 1 .. n : f[i] = s[i]
    BY <2>1
  <2>3. s[n + 1] \in E
    BY <2>1
  <2>4. s = Append(f, s[n + 1])
    <3> HIDE DEF f
    <3> QED
      BY <2>1, <2>2, <2>3
  <2>5. f \in T
    BY <1>2, <2>2
  <2> HIDE DEF f
  <2> QED
    BY <2>2, <2>3, <2>4, <2>5
<1>3. Nat \subseteq L
  <2> HIDE DEF L
  <2> QED
    BY <1>1, <1>2, Induction
<1> QED
  BY <1>3

\* The same for the subsets of a finite set, each with an element that can be
\* taken from it.
LEMMA SubsetInduction ==
  ASSUME NEW D, IsFiniteSet(D), NEW T, {} \in T,
         \A s \in SUBSET D : s # {} => \E x \in s : s \ {x} \in T => s \in T
  PROVE  SUBSET D \subseteq T
<1> DEFINE L == {n \in Nat : \A s \in SUBSET D : Cardinality(s) = n => s \in T}
<1>1. \A s \in SUBSET D : IsFiniteSet(s) /\ Cardinality(s) \in Nat
  BY FS_Subset, FS_CardinalityType
<1>2. 0 \in L
  BY <1>1, FS_EmptySet
<1>3. ASSUME NEW n \in Nat, n \in L PROVE n + 1 \in L
  <2>1. SUFFICES ASSUME NEW s \in SUBSET D, Cardinality(s) = n + 1 PROVE s \in T
    OBVIOUS
  <2>2. s # {}
    <3>1. s = {} => Cardinality(s) = 0
      BY FS_EmptySet
    <3> QED
      BY <2>1, <3>1
  <2>3. PICK x \in s : s \ {x} \in T => s \in T
    BY <2>2
  <2>4. Cardinality(s \ {x}) = n
    <3>1. IsFiniteSet(s)
      BY <1>1
    <3>2. Cardinality(s \ {x}) = Cardinality(s) - 1
      BY <3>1, FS_RemoveElement
    <3> QED
      BY <2>1, <3>2
  <2>5. s \ {x} \in T
    BY <1>3, <2>4
  <2> QED
    BY <2>3, <2>5
<1>4. Nat \subseteq L
  <2> HIDE DEF L
  <2> QED
    BY <1>2, <1>3, Induction
<1> QED
  BY <1>1, <1>4

-----------------------------------------------------------------------------
(* Folds *)

\* ch chooses an element of each subset of D.
Chooses(ch, D) == \A s \in SUBSET D : s # {} => ch[s] \in s

\* v[s] is what folding over s, a subset of D, gives.
Folds(v, D, base, ch, step) ==
  v = [s \in SUBSET D |-> IF s = {} THEN base ELSE step[ch[s]][v[s \ {ch[s]}]]]

\* Such a v exists for any finite set.
LEMMA FoldExists ==
  ASSUME NEW D, IsFiniteSet(D), NEW A, NEW base \in A,
         NEW ch, Chooses(ch, D), NEW step \in [D -> [A -> A]]
  PROVE  \E it \in [SUBSET D -> A] : Folds(it, D, base, ch, step)
<1> DEFINE Upto(n) == {s \in SUBSET D : Cardinality(s) <= n}
           Next1(it, s) == IF s = {} THEN base ELSE step[ch[s]][it[s \ {ch[s]}]]
           L == {n \in Nat : \E it \in [Upto(n) -> A] : \A s \in Upto(n) : it[s] = Next1(it, s)}
<1>1. \A s \in SUBSET D : IsFiniteSet(s) /\ Cardinality(s) \in Nat
  BY FS_Subset, FS_CardinalityType
<1>2. \A s \in SUBSET D : s # {} => Cardinality(s \ {ch[s]}) = Cardinality(s) - 1
  BY <1>1, FS_RemoveElement DEF Chooses
<1>3. 0 \in L
  <2>1. \A s \in Upto(0) : s = {}
    BY <1>1, FS_EmptySet
  <2> DEFINE it == [s \in Upto(0) |-> base]
  <2>2. it \in [Upto(0) -> A] /\ \A s \in Upto(0) : it[s] = Next1(it, s)
    BY <2>1
  <2> HIDE DEF it
  <2> QED
    BY <2>2
<1>4. ASSUME NEW n \in Nat, n \in L PROVE n + 1 \in L
  <2>1. PICK it \in [Upto(n) -> A] : \A s \in Upto(n) : it[s] = Next1(it, s)
    BY <1>4
  <2> DEFINE more == [s \in Upto(n + 1) |-> Next1(it, s)]
  <2>2. ASSUME NEW s \in Upto(n + 1), s # {}
        PROVE  s \ {ch[s]} \in Upto(n) /\ s \ {ch[s]} \in Upto(n + 1) /\ ch[s] \in D
    <3>1. Cardinality(s) \in Nat /\ Cardinality(s) <= n + 1
      BY <1>1
    <3>2. Cardinality(s \ {ch[s]}) = Cardinality(s) - 1
      BY <1>2, <2>2
    <3> QED
      BY <2>2, <3>1, <3>2 DEF Chooses
  <2>3. more \in [Upto(n + 1) -> A]
    BY <2>2
  <2>4. ASSUME NEW s \in Upto(n) PROVE more[s] = it[s]
    <3>1. s \in Upto(n + 1)
      BY <1>1
    <3> QED
      BY <2>1, <3>1
  <2>5. \A s \in Upto(n + 1) : more[s] = Next1(more, s)
    BY <2>2, <2>4
  <2> HIDE DEF more, Upto, Next1
  <2>6. \E g \in [Upto(n + 1) -> A] : \A s \in Upto(n + 1) : g[s] = Next1(g, s)
    BY <2>3, <2>5
  <2> QED
    BY <2>6
<1>5. Nat \subseteq L
  <2> HIDE DEF L
  <2> QED
    BY <1>3, <1>4, Induction
<1>6. Cardinality(D) \in L
  BY <1>1, <1>5
<1>7. Upto(Cardinality(D)) = SUBSET D
  BY <1>1, FS_Subset
<1>8. PICK it \in [SUBSET D -> A] : \A s \in SUBSET D : it[s] = Next1(it, s)
  BY <1>6, <1>7
<1>9. it = [s \in SUBSET D |-> Next1(it, s)]
  <2> HIDE DEF Next1
  <2> QED
    BY <1>8
<1> QED
  BY <1>8, <1>9 DEF Folds

\* Max of FiniteSetsExt is a maximum.
LEMMA MaxIsLast ==
  ASSUME NEW n \in Nat, NEW T \in SUBSET (1 .. n), T # {}
  PROVE  Max(T) \in T /\ \A y \in T : y <= Max(T)
<1> DEFINE U == {n - k : k \in T}
<1>1. U \in SUBSET Nat /\ U # {}
  <2>1. \A k \in T : n - k \in Nat
    OBVIOUS
  <2> QED
    BY <2>1
<1>2. PICK u \in U : \A v \in U : u <= v
  <2> HIDE DEF U
  <2> QED
    BY <1>1, LeastNumber
<1>3. PICK i \in T : u = n - i
  OBVIOUS
<1>4. ASSUME NEW k \in T PROVE i >= k
  <2>1. n - k \in U /\ i \in Nat /\ k \in Nat
    OBVIOUS
  <2> QED
    BY <1>2, <1>3, <2>1
<1>5. Max(T) \in T /\ \A y \in T : Max(T) >= y
  BY <1>4 DEF Max
<1> QED
  BY <1>5

\* Its values are where the steps lead.
LEMMA FoldTyped ==
  ASSUME NEW D, IsFiniteSet(D), NEW A, NEW base \in A,
         NEW ch, Chooses(ch, D), NEW step \in [D -> [A -> A]],
         NEW F, Folds(F, D, base, ch, step)
  PROVE  \A s \in SUBSET D : F[s] \in A
<1> DEFINE T == {s \in SUBSET D : F[s] \in A}
<1>1. {} \in T
  BY DEF Folds
<1>2. ASSUME NEW s \in SUBSET D, s # {} PROVE \E x \in s : s \ {x} \in T => s \in T
  <2>1. ch[s] \in s /\ ch[s] \in D
    BY <1>2 DEF Chooses
  <2>2. F[s] = step[ch[s]][F[s \ {ch[s]}]]
    BY <1>2 DEF Folds
  <2>3. s \ {ch[s]} \in T => s \in T
    BY <2>1, <2>2
  <2> QED
    BY <2>1, <2>3
<1>3. SUBSET D \subseteq T
  <2>1. \A s \in SUBSET D : s # {} => \E x \in s : s \ {x} \in T => s \in T
    BY <1>2
  <2> HIDE DEF T
  <2> QED
    BY <1>1, <2>1, SubsetInduction
<1> QED
  BY <1>3

\* Two ways to choose are the same on the subsets of D.
ChooseAlike(ch, ch2, D) == \A t \in SUBSET D : t # {} => ch2[t] = ch[t]

\* Two folds with the same steps agree on the set they have in common.
LEMMA FoldsAgree ==
  ASSUME NEW D, IsFiniteSet(D), NEW D2, D \subseteq D2, NEW base,
         NEW ch, Chooses(ch, D), NEW ch2, ChooseAlike(ch, ch2, D),
         NEW step, NEW step2, \A i \in D : step2[i] = step[i],
         NEW v, Folds(v, D, base, ch, step), NEW w, Folds(w, D2, base, ch2, step2)
  PROVE  w[D] = v[D]
<1> DEFINE T == {t \in SUBSET D : w[t] = v[t]}
<1>1. {} \in T
  BY DEF Folds
<1>2. ASSUME NEW t \in SUBSET D, t # {} PROVE \E x \in t : t \ {x} \in T => t \in T
  <2>1. ch[t] \in t /\ ch[t] \in D /\ ch2[t] = ch[t] /\ step2[ch[t]] = step[ch[t]]
    BY <1>2 DEF Chooses, ChooseAlike
  <2>2. v[t] = step[ch[t]][v[t \ {ch[t]}]]
    BY <1>2 DEF Folds
  <2>3. w[t] = step2[ch[t]][w[t \ {ch[t]}]]
    <3>1. t \in SUBSET D2
      OBVIOUS
    <3>2. w[t] = step2[ch2[t]][w[t \ {ch2[t]}]]
      BY <1>2, <3>1 DEF Folds
    <3> QED
      BY <2>1, <3>2
  <2>4. t \ {ch[t]} \in T => t \in T
    BY <2>1, <2>2, <2>3
  <2> QED
    BY <2>1, <2>4
<1>3. SUBSET D \subseteq T
  <2>1. \A t \in SUBSET D : t # {} => \E x \in t : t \ {x} \in T => t \in T
    BY <1>2
  <2> HIDE DEF T
  <2> QED
    BY <1>1, <2>1, SubsetInduction
<1> QED
  BY <1>3

\* For each e in E, step[e] leads from A to A.
Steps(step, E, A) == step \in [E -> [A -> A]]

\* A fold whose step is a function
Fold(step, base, s) == FoldLeft(LAMBDA a, e : step[e][a], base, s)

\* FoldLeft takes the last position first.
last == [n \in Nat |-> [t \in SUBSET (1 .. n) |-> Max(t)]]

LEMMA LastChooses == ASSUME NEW n \in Nat PROVE Chooses(last[n], 1 .. n)
  BY MaxIsLast DEF Chooses, last

\* What FoldLeft computes on the way
FoldsSeq(v, A, step, base, s) ==
  /\ \A t \in SUBSET (1 .. Len(s)) : v[t] \in A
  /\ Folds(v, 1 .. Len(s), base, last[Len(s)], [i \in 1 .. Len(s) |-> step[s[i]]])
  /\ v = [t \in SUBSET (1 .. Len(s)) |->
            IF t = {} THEN base ELSE step[s[Max(t)]][v[t \ {Max(t)}]]]
  /\ Fold(step, base, s) = v[1 .. Len(s)]

LEMMA FoldIs ==
  ASSUME NEW E, NEW A, NEW base \in A, NEW step, Steps(step, E, A), NEW s \in Seq(E)
  PROVE  \E v : FoldsSeq(v, A, step, base, s)
<1> DEFINE n == Len(s)
           on == [i \in 1 .. n |-> step[s[i]]]
           F == CHOOSE f : f = [t \in SUBSET (1 .. n) |->
                                  IF t = {} THEN base ELSE step[s[Max(t)]][f[t \ {Max(t)}]]]
<1>1. DOMAIN s = 1 .. n /\ n \in Nat /\ IsFiniteSet(1 .. n)
  BY FS_Interval
<1>2. Fold(step, base, s) = F[1 .. n]
  BY <1>1 DEF Fold, FoldLeft, MapThenFoldSet
<1>3. on \in [1 .. n -> [A -> A]]
  BY DEF Steps
<1>4. Chooses(last[n], 1 .. n)
  BY <1>1, LastChooses
<1>5. \A f : Folds(f, 1 .. n, base, last[n], on)
               <=> f = [t \in SUBSET (1 .. n) |->
                          IF t = {} THEN base ELSE step[s[Max(t)]][f[t \ {Max(t)}]]]
  <2>1. \A t \in SUBSET (1 .. n) : t # {} => last[n][t] = Max(t) /\ on[Max(t)] = step[s[Max(t)]]
    <3>1. \A t \in SUBSET (1 .. n) : last[n][t] = Max(t)
      BY <1>1 DEF last
    <3>2. \A t \in SUBSET (1 .. n) : t # {} => last[n][t] \in 1 .. n
      BY <1>4 DEF Chooses
    <3> QED
      BY <3>1, <3>2
  <2>2. ASSUME NEW f
        PROVE  [t \in SUBSET (1 .. n) |->
                  IF t = {} THEN base ELSE on[last[n][t]][f[t \ {last[n][t]}]]]
                 = [t \in SUBSET (1 .. n) |->
                      IF t = {} THEN base ELSE step[s[Max(t)]][f[t \ {Max(t)}]]]
    <3> HIDE DEF on, n
    <3> QED
      BY <2>1
  <2> HIDE DEF on, n
  <2> QED
    BY <2>2 DEF Folds
<1>6. \E it : Folds(it, 1 .. n, base, last[n], on)
  <2> HIDE DEF n, on
  <2> QED
    BY <1>1, <1>3, <1>4, FoldExists
<1>7. Folds(F, 1 .. n, base, last[n], on)
  BY <1>5, <1>6
<1>8. \A t \in SUBSET (1 .. n) : F[t] \in A
  <2>1. IsFiniteSet(1 .. n)
    BY <1>1
  <2> HIDE DEF n, on, F
  <2> QED
    BY <2>1, <1>3, <1>4, <1>7, FoldTyped
<1>9. F = [t \in SUBSET (1 .. n) |->
             IF t = {} THEN base ELSE step[s[Max(t)]][F[t \ {Max(t)}]]]
  <2> HIDE DEF F
  <2> QED
    BY <1>5, <1>7
<1> HIDE DEF F
<1> QED
  BY <1>2, <1>7, <1>8, <1>9 DEF FoldsSeq

LEMMA FoldEmpty ==
  ASSUME NEW E, NEW A, NEW base \in A, NEW step, Steps(step, E, A)
  PROVE  Fold(step, base, <<>>) = base
<1>1. <<>> \in Seq(E)
  OBVIOUS
<1>2. PICK v : FoldsSeq(v, A, step, base, <<>>)
  BY <1>1, FoldIs
<1>3. Len(<<>>) = 0 /\ 1 .. 0 = {}
  OBVIOUS
<1>4. v[{}] = base
  BY <1>2 DEF FoldsSeq, Folds
<1> QED
  BY <1>2, <1>3, <1>4 DEF FoldsSeq

\* A fold goes through a sequence from left to right.
LEMMA FoldAppend ==
  ASSUME NEW E, NEW A, NEW base \in A, NEW step, Steps(step, E, A),
         NEW s \in Seq(E), NEW e \in E
  PROVE  /\ Fold(step, base, s) \in A
         /\ Fold(step, base, Append(s, e)) = step[e][Fold(step, base, s)]
<1> DEFINE n == Len(s)
           long == Append(s, e)
           on == [i \in 1 .. n |-> step[s[i]]]
           onl == [i \in 1 .. n + 1 |-> step[long[i]]]
<1>1. /\ n \in Nat /\ long \in Seq(E) /\ Len(long) = n + 1
      /\ \A i \in 1 .. n : long[i] = s[i]
      /\ long[n + 1] = e
  OBVIOUS
<1> HIDE DEF long
<1>2. PICK v : FoldsSeq(v, A, step, base, s)
  BY FoldIs
<1>3. PICK w : FoldsSeq(w, A, step, base, long)
  BY <1>1, FoldIs
<1>4. Folds(v, 1 .. n, base, last[n], on) /\ Fold(step, base, s) = v[1 .. n] /\ v[1 .. n] \in A
  BY <1>2 DEF FoldsSeq
<1>5. Folds(w, 1 .. n + 1, base, last[n + 1], onl) /\ Fold(step, base, long) = w[1 .. n + 1]
  BY <1>1, <1>3 DEF FoldsSeq
<1>6. w[1 .. n] = v[1 .. n]
  <2>1. IsFiniteSet(1 .. n) /\ 1 .. n \subseteq 1 .. n + 1
    BY <1>1, FS_Interval
  <2>2. Chooses(last[n], 1 .. n)
    BY <1>1, LastChooses
  <2>3. ChooseAlike(last[n], last[n + 1], 1 .. n)
    BY <1>1 DEF last, ChooseAlike
  <2>4. \A i \in 1 .. n : onl[i] = on[i]
    BY <1>1
  <2> HIDE DEF n, on, onl
  <2>5. Folds(v, 1 .. n, base, last[n], on) /\ Folds(w, 1 .. n + 1, base, last[n + 1], onl)
    BY <1>4, <1>5
  <2>6. PICK D, D2, ch, ch2 : D = 1 .. n /\ D2 = 1 .. n + 1 /\ ch = last[n] /\ ch2 = last[n + 1]
    OBVIOUS
  <2>7. /\ IsFiniteSet(D) /\ D \subseteq D2 /\ Chooses(ch, D)
        /\ ChooseAlike(ch, ch2, D) /\ \A i \in D : onl[i] = on[i]
    BY <2>1, <2>2, <2>3, <2>4, <2>6
  <2>8. Folds(v, D, base, ch, on) /\ Folds(w, D2, base, ch2, onl)
    BY <2>5, <2>6
  <2>9. w[D] = v[D]
    BY <2>7, <2>8, FoldsAgree
  <2> QED
    BY <2>6, <2>9
<1>7. Max(1 .. n + 1) = n + 1
  <2> HIDE DEF n
  <2>1. n + 1 \in 1 .. n + 1 /\ n + 1 \in Nat
    BY <1>1
  <2>2. 1 .. n + 1 \in SUBSET (1 .. n + 1) /\ 1 .. n + 1 # {}
    BY <2>1
  <2>3. Max(1 .. n + 1) \in 1 .. n + 1 /\ \A y \in 1 .. n + 1 : y <= Max(1 .. n + 1)
    BY <2>1, <2>2, MaxIsLast
  <2> QED
    BY <1>1, <2>1, <2>3
<1>8. w[1 .. n + 1] = step[e][v[1 .. n]]
  <2> HIDE DEF n
  <2>1. 1 .. n + 1 # {} /\ (1 .. n + 1) \ {n + 1} = 1 .. n /\ n + 1 \in 1 .. n + 1
    <3>1. n \in Nat
      BY <1>1
    <3>2. n + 1 \in 1 .. n + 1
      BY <3>1
    <3>3. (1 .. n + 1) \ {n + 1} = 1 .. n
      BY <3>1
    <3> QED
      BY <3>2, <3>3
  <2>2. last[n + 1][1 .. n + 1] = n + 1
    BY <1>1, <1>7 DEF last
  <2>3. onl[n + 1] = step[e]
    BY <1>1, <2>1
  <2>4. w[1 .. n + 1] = onl[n + 1][w[1 .. n]]
    <3> HIDE DEF onl
    <3>1. w[1 .. n + 1] = onl[last[n + 1][1 .. n + 1]][w[(1 .. n + 1) \ {last[n + 1][1 .. n + 1]}]]
      BY <1>5, <2>1 DEF Folds
    <3> QED
      BY <2>1, <2>2, <3>1
  <2> QED
    BY <1>6, <2>3, <2>4
<1> QED
  BY <1>4, <1>5, <1>8 DEF long

\* Where v has been, G takes the step that leads to v.
Follows(G, v, step, base, s) ==
  /\ G[{}] = base
  /\ \A t \in SUBSET (1 .. Len(s)) :
       t # {} /\ Max(t) \in t /\ G[t \ {Max(t)}] = v[t \ {Max(t)}]
         => G[t] = step[s[Max(t)]][v[t \ {Max(t)}]]

\* A function that takes the same steps gives the same.
LEMMA FoldSame ==
  ASSUME NEW E, NEW A, NEW base, NEW step, NEW s \in Seq(E),
         NEW v, FoldsSeq(v, A, step, base, s), NEW G, Follows(G, v, step, base, s)
  PROVE  G[1 .. Len(s)] = Fold(step, base, s)
<1> DEFINE n == Len(s)
           T == {t \in SUBSET (1 .. n) : G[t] = v[t]}
<1>1. n \in Nat
  OBVIOUS
<1>2. {} \in T
  BY DEF FoldsSeq, Follows
<1>3. ASSUME NEW t \in SUBSET (1 .. n), t # {}
      PROVE  \E x \in t : t \ {x} \in T => t \in T
  <2>1. Max(t) \in t /\ Max(t) \in 1 .. n
    BY <1>1, <1>3, MaxIsLast
  <2>2. v[t] = step[s[Max(t)]][v[t \ {Max(t)}]]
    BY <1>3 DEF FoldsSeq
  <2>3. t \ {Max(t)} \in T => t \in T
    BY <1>3, <2>1, <2>2 DEF Follows
  <2> HIDE DEF T
  <2> QED
    BY <2>1, <2>3
<1>4. SUBSET (1 .. n) \subseteq T
  <2>1. \A t \in SUBSET (1 .. n) : t # {} => \E x \in t : t \ {x} \in T => t \in T
    BY <1>3
  <2>2. PICK D : D = 1 .. n
    OBVIOUS
  <2>3. IsFiniteSet(1 .. n)
    BY <1>1, FS_Interval
  <2> HIDE DEF T, n
  <2>4. IsFiniteSet(D) /\ \A t \in SUBSET D : t # {} => \E x \in t : t \ {x} \in T => t \in T
    BY <2>1, <2>2, <2>3
  <2>5. SUBSET D \subseteq T
    BY <1>2, <2>4, SubsetInduction
  <2> QED
    BY <2>2, <2>5
<1>5. G[1 .. n] = v[1 .. n]
  BY <1>4
<1> QED
  BY <1>5 DEF FoldsSeq

-----------------------------------------------------------------------------
(* What bytes say *)

SizeStep == [w \in WireField |-> [n \in Nat |-> n + WireFieldSize(w)]]

LEMMA FieldSize == \A w \in WireField : WireFieldSize(w) \in Nat
<1>1. ASSUME NEW w \in WireField PROVE WireFieldSize(w) \in Nat
  <2>1. w.val \in Seq(Words)
    BY DEF WireField, Text
  <2>2. Len(w.val) \in Nat
    BY <2>1
  <2>3. ASSUME NEW tag \in Nat PROVE tag + Len(w.val) \in Nat
    BY <2>2
  <2>4. (IF w.key[2] = "delimited" THEN 2 ELSE 1) \in Nat
    OBVIOUS
  <2> QED
    BY <2>3, <2>4 DEF WireFieldSize
<1> QED
  BY <1>1

LEMMA FieldSizes == Steps(SizeStep, WireField, Nat)
  BY FieldSize DEF SizeStep, Steps

LEMMA SizeIsFold ==
  ASSUME NEW s \in Seq(WireField)
  PROVE  SizeOf(s) = Fold(SizeStep, 0, s)
<1> DEFINE G == CHOOSE f : f = [t \in SUBSET (1 .. Len(s)) |->
                   IF t = {} THEN 0 ELSE f[t \ {Max(t)}] + WireFieldSize(s[Max(t)])]
<1>1. DOMAIN s = 1 .. Len(s) /\ Len(s) \in Nat
  OBVIOUS
<1>2. SizeOf(s) = G[1 .. Len(s)]
  BY <1>1 DEF SizeOf, FoldLeft, MapThenFoldSet
<1>3. PICK v : FoldsSeq(v, Nat, SizeStep, 0, s)
  BY FieldSizes, FoldIs
<1>4. ASSUME NEW t \in SUBSET (1 .. Len(s)), t # {}
      PROVE  SizeStep[s[Max(t)]][v[t \ {Max(t)}]] = v[t \ {Max(t)}] + WireFieldSize(s[Max(t)])
  <2>1. Max(t) \in 1 .. Len(s)
    BY <1>1, <1>4, MaxIsLast
  <2>2. s[Max(t)] \in WireField
    BY <2>1
  <2>3. v[t \ {Max(t)}] \in Nat
    BY <1>3 DEF FoldsSeq
  <2> QED
    BY <2>2, <2>3 DEF SizeStep
<1>5. v = [t \in SUBSET (1 .. Len(s)) |->
             IF t = {} THEN 0 ELSE v[t \ {Max(t)}] + WireFieldSize(s[Max(t)])]
  BY <1>3, <1>4 DEF FoldsSeq
<1>6. G = [t \in SUBSET (1 .. Len(s)) |->
             IF t = {} THEN 0 ELSE G[t \ {Max(t)}] + WireFieldSize(s[Max(t)])]
  BY <1>5
<1> HIDE DEF G
<1>7. Follows(G, v, SizeStep, 0, s)
  BY <1>4, <1>6 DEF Follows
<1>8. G[1 .. Len(s)] = Fold(SizeStep, 0, s)
  BY <1>3, <1>7, FoldSame
<1> QED
  BY <1>2, <1>8

\* compute_size and write_unknown_fields count and write one field after the
\* other.
LEMMA SizeAppend ==
  /\ SizeOf(<<>>) = 0
  /\ \A s \in Seq(WireField) : SizeOf(s) \in Nat
  /\ \A s \in Seq(WireField), w \in WireField : SizeOf(Append(s, w)) = SizeOf(s) + WireFieldSize(w)
<1>1. SizeOf(<<>>) = 0
  <2>1. <<>> \in Seq(WireField)
    OBVIOUS
  <2> QED
    BY <2>1, FieldSizes, SizeIsFold, FoldEmpty
<1>2. ASSUME NEW s \in Seq(WireField), NEW w \in WireField
      PROVE  SizeOf(s) \in Nat /\ SizeOf(Append(s, w)) = SizeOf(s) + WireFieldSize(w)
  <2>1. Append(s, w) \in Seq(WireField)
    OBVIOUS
  <2>2. Fold(SizeStep, 0, s) \in Nat
        /\ Fold(SizeStep, 0, Append(s, w)) = SizeStep[w][Fold(SizeStep, 0, s)]
    BY FieldSizes, FoldAppend
  <2> QED
    BY <2>1, <2>2, SizeIsFold DEF SizeStep
<1>3. ASSUME NEW s \in Seq(WireField) PROVE SizeOf(s) \in Nat
  <2>1. CASE s = <<>>
    BY <1>1, <2>1
  <2>2. CASE s # <<>>
    <3>1. PICK w : w \in WireField
      BY <2>2
    <3> QED
      BY <1>2, <3>1
  <2> QED
    BY <2>1, <2>2
<1> QED
  BY <1>1, <1>2, <1>3

KeyStep(k) ==
  [w \in WireField |-> [s \in Seq(WireField) |-> IF w.key = k THEN Append(s, w) ELSE s]]

LEMMA KeySteps ==
  ASSUME NEW k
  PROVE  Steps(KeyStep(k), WireField, Seq(WireField))
  BY DEF KeyStep, Steps

LEMMA KeyIsFold ==
  ASSUME NEW k, NEW s \in Seq(WireField)
  PROVE  OfKey(s, k) = Fold(KeyStep(k), <<>>, s)
<1> DEFINE Put(f, w) == IF w.key = k THEN Append(f, w) ELSE f
           G == CHOOSE f : f = [t \in SUBSET (1 .. Len(s)) |->
                   IF t = {} THEN <<>> ELSE Put(f[t \ {Max(t)}], s[Max(t)])]
<1>1. DOMAIN s = 1 .. Len(s) /\ Len(s) \in Nat /\ <<>> \in Seq(WireField)
  OBVIOUS
<1>2. OfKey(s, k) = G[1 .. Len(s)]
  BY <1>1 DEF OfKey, FoldLeft, MapThenFoldSet
<1>3. PICK v : FoldsSeq(v, Seq(WireField), KeyStep(k), <<>>, s)
  BY <1>1, KeySteps, FoldIs
<1>4. ASSUME NEW t \in SUBSET (1 .. Len(s)), t # {}
      PROVE  KeyStep(k)[s[Max(t)]][v[t \ {Max(t)}]] = Put(v[t \ {Max(t)}], s[Max(t)])
  <2>1. Max(t) \in 1 .. Len(s)
    BY <1>1, <1>4, MaxIsLast
  <2>2. s[Max(t)] \in WireField
    BY <2>1
  <2>3. v[t \ {Max(t)}] \in Seq(WireField)
    BY <1>3 DEF FoldsSeq
  <2> QED
    BY <2>2, <2>3 DEF KeyStep
<1> HIDE DEF Put
<1>5. v = [t \in SUBSET (1 .. Len(s)) |->
             IF t = {} THEN <<>> ELSE Put(v[t \ {Max(t)}], s[Max(t)])]
  BY <1>3, <1>4 DEF FoldsSeq
<1>6. G = [t \in SUBSET (1 .. Len(s)) |->
             IF t = {} THEN <<>> ELSE Put(G[t \ {Max(t)}], s[Max(t)])]
  BY <1>5
<1> HIDE DEF G
<1>7. Follows(G, v, KeyStep(k), <<>>, s)
  BY <1>4, <1>6 DEF Follows
<1>8. G[1 .. Len(s)] = Fold(KeyStep(k), <<>>, s)
  BY <1>3, <1>7, FoldSame
<1> QED
  BY <1>2, <1>8

LEMMA KeyAppend ==
  ASSUME NEW k
  PROVE  /\ OfKey(<<>>, k) = <<>>
         /\ \A s \in Seq(WireField), w \in WireField :
              /\ OfKey(s, k) \in Seq(WireField)
              /\ OfKey(Append(s, w), k) = IF w.key = k THEN Append(OfKey(s, k), w) ELSE OfKey(s, k)
<1>1. <<>> \in Seq(WireField)
  OBVIOUS
<1>2. OfKey(<<>>, k) = <<>>
  BY <1>1, KeySteps, KeyIsFold, FoldEmpty
<1>3. ASSUME NEW s \in Seq(WireField), NEW w \in WireField
      PROVE  /\ OfKey(s, k) \in Seq(WireField)
             /\ OfKey(Append(s, w), k) = IF w.key = k THEN Append(OfKey(s, k), w) ELSE OfKey(s, k)
  <2>1. Append(s, w) \in Seq(WireField)
    OBVIOUS
  <2>2. /\ Fold(KeyStep(k), <<>>, s) \in Seq(WireField)
        /\ Fold(KeyStep(k), <<>>, Append(s, w)) = KeyStep(k)[w][Fold(KeyStep(k), <<>>, s)]
    <3>1. PICK step, A : step = KeyStep(k) /\ A = Seq(WireField)
      OBVIOUS
    <3>2. Steps(step, WireField, A) /\ <<>> \in A
      BY <1>1, <3>1, KeySteps
    <3>3. /\ Fold(step, <<>>, s) \in A
          /\ Fold(step, <<>>, Append(s, w)) = step[w][Fold(step, <<>>, s)]
      BY <3>2, FoldAppend
    <3> QED
      BY <3>1, <3>3
  <2>3. OfKey(s, k) = Fold(KeyStep(k), <<>>, s)
        /\ OfKey(Append(s, w), k) = Fold(KeyStep(k), <<>>, Append(s, w))
    BY <2>1, KeyIsFold
  <2>4. KeyStep(k)[w] = [f \in Seq(WireField) |-> IF w.key = k THEN Append(f, w) ELSE f]
    BY DEF KeyStep
  <2> QED
    BY <2>2, <2>3, <2>4
<1> QED
  BY <1>2, <1>3

\* The last value of the field is what bytes say of it.
LEMMA FieldAppend ==
  /\ FieldIn(<<>>) = None
  /\ \A s \in Seq(WireField), w \in WireField :
       FieldIn(Append(s, w)) = IF IsField(w) THEN Some(w.val) ELSE FieldIn(s)
<1> DEFINE At(s) == {i \in 1 .. Len(s) : IsField(s[i])}
<1>1. \A s : FieldIn(s) = IF At(s) = {} THEN None
                          ELSE IF Max(At(s)) = 0 THEN None ELSE Some(s[Max(At(s))].val)
  BY DEF FieldIn, SelectLastInSeq
<1>2. FieldIn(<<>>) = None
  <2>1. At(<<>>) = {}
    OBVIOUS
  <2> QED
    BY <1>1, <2>1
<1>3. ASSUME NEW s \in Seq(WireField), NEW w \in WireField
      PROVE  FieldIn(Append(s, w)) = IF IsField(w) THEN Some(w.val) ELSE FieldIn(s)
  <2> DEFINE n == Len(s)
             long == Append(s, w)
  <2>1. /\ n \in Nat /\ Len(long) = n + 1 /\ long[n + 1] = w
        /\ \A i \in 1 .. n : long[i] = s[i]
    OBVIOUS
  <2>2. CASE IsField(w)
    <3>1. n + 1 \in At(long) /\ At(long) \in SUBSET (1 .. n + 1)
      BY <2>1, <2>2
    <3>2. Max(At(long)) \in At(long) /\ \A y \in At(long) : y <= Max(At(long))
      <4> HIDE DEF At
      <4>1. n + 1 \in Nat /\ At(long) # {}
        BY <2>1, <3>1
      <4> QED
        BY <3>1, <4>1, MaxIsLast
    <3>3. Max(At(long)) = n + 1
      <4> HIDE DEF At, n, long
      <4>1. Max(At(long)) \in 1 .. n + 1 /\ n + 1 <= Max(At(long))
        BY <3>1, <3>2
      <4> QED
        BY <2>1, <4>1
    <3> HIDE DEF At, long, n
    <3>4. FieldIn(long) = Some(long[n + 1].val)
      BY <1>1, <2>1, <3>1, <3>3
    <3> QED
      BY <2>1, <2>2, <3>4 DEF long
  <2>3. CASE ~ IsField(w)
    <3>1. At(long) = At(s)
      BY <2>1, <2>3
    <3>2. At(s) # {} => Max(At(s)) \in 1 .. n
      BY <2>1, MaxIsLast
    <3>3. At(s) # {} => long[Max(At(s))] = s[Max(At(s))]
      BY <2>1, <3>2
    <3> HIDE DEF At, long
    <3>4. FieldIn(long) = FieldIn(s)
      BY <1>1, <3>1, <3>3
    <3> QED
      BY <2>3, <3>4 DEF long
  <2> QED
    BY <2>2, <2>3
<1> QED
  BY <1>2, <1>3

-----------------------------------------------------------------------------
(* Messages *)

\* The fields a message keeps of one key, and those merge_from takes
KeptFields(k) == {w \in WireField : w.key = k /\ w.whole}
GoodFields == {w \in WireField : Readable(w)}

Message ==
  [field : {None} \cup {Some(v) : v \in Text},
   unknown : {u \in [KeptKeys -> Seq(WireField)] :
                \A k \in KeptKeys : u[k] \in Seq(KeptFields(k))},
   cached_size : Nat]

MergeStep == [w \in GoodFields |-> [m \in Message |-> MergeField(m, w)]]

LEMMA KeptKeysFacts ==
  /\ KeptKeys \subseteq UnknownKeys
  /\ IsFiniteSet(KeptKeys)
  /\ \A k \in KeptKeys : k[1] # 1
  BY UnknownKeysAssumption, FS_Subset DEF KeptKeys

\* The field, the keys that are kept, and the groups, which change nothing
LEMMA MergeKeepsType ==
  ASSUME NEW m \in Message, NEW w \in GoodFields
  PROVE  /\ MergeField(m, w) \in Message
         /\ MergeField(m, w).field = IF IsField(w) THEN Some(w.val) ELSE m.field
         /\ \A k \in KeptKeys :
              MergeField(m, w).unknown[k] = IF w.key = k THEN Append(m.unknown[k], w) ELSE m.unknown[k]
<1>1. w \in WireField /\ w.whole /\ w.val \in Text
  BY DEF GoodFields, Readable, WireField
<1>2. CASE IsField(w)
  <2>1. \A k \in KeptKeys : w.key # k
    BY <1>2, KeptKeysFacts DEF IsField
  <2>2. MergeField(m, w) = [m EXCEPT !.field = Some(w.val)]
    BY <1>2, <2>1 DEF MergeField, SetField
  <2> QED
    BY <1>1, <1>2, <2>1, <2>2 DEF Message
<1>3. CASE w.key \in KeptKeys
  <2>1. w.key \in KeptKeys /\ ~ IsField(w)
    BY <1>3, KeptKeysFacts DEF IsField
  <2> DEFINE u == [m.unknown EXCEPT ![w.key] = Append(@, w)]
  <2>2. MergeField(m, w) = [m EXCEPT !.unknown = u]
    BY <2>1 DEF MergeField, Message
  <2>3. \A k \in KeptKeys : u[k] = IF w.key = k THEN Append(m.unknown[k], w) ELSE m.unknown[k]
    BY <2>1 DEF Message
  <2>4. \A k \in KeptKeys : m.unknown[k] \in Seq(KeptFields(k)) /\ m.unknown[k] \in Seq(WireField)
    BY DEF Message
  <2>5. w \in KeptFields(w.key)
    BY <1>1 DEF KeptFields
  <2>6. \A k \in KeptKeys : u[k] \in Seq(KeptFields(k)) /\ u[k] \in Seq(WireField)
    <3> HIDE DEF u
    <3> SUFFICES ASSUME NEW k \in KeptKeys
                 PROVE  u[k] \in Seq(KeptFields(k)) /\ u[k] \in Seq(WireField)
      OBVIOUS
    <3>1. CASE w.key = k
      <4>1. u[k] = Append(m.unknown[k], w) /\ w \in KeptFields(k)
        BY <2>3, <2>5, <3>1
      <4>2. m.unknown[k] \in Seq(KeptFields(k)) /\ m.unknown[k] \in Seq(WireField)
        BY <2>4
      <4> QED
        BY <1>1, <4>1, <4>2
    <3>2. CASE w.key # k
      BY <2>3, <2>4, <3>2
    <3> QED
      BY <3>1, <3>2
  <2>7. u \in [KeptKeys -> Seq(WireField)]
    BY <2>6 DEF Message
  <2> HIDE DEF u
  <2> QED
    BY <2>1, <2>2, <2>3, <2>6, <2>7 DEF Message
<1>4. CASE ~ IsField(w) /\ w.key \notin KeptKeys
  BY <1>4 DEF MergeField, Message
<1> QED
  BY <1>2, <1>3, <1>4

\* merge_from of bytes it can read
Merged(m, s) == FoldLeft(MergeField, m, s)

LEMMA MergeSteps == Steps(MergeStep, GoodFields, Message)
  BY MergeKeepsType DEF MergeStep, Steps

LEMMA MergeIsFold ==
  ASSUME NEW m \in Message, NEW s \in Seq(GoodFields)
  PROVE  Merged(m, s) = Fold(MergeStep, m, s)
<1> DEFINE G == CHOOSE f : f = [t \in SUBSET (1 .. Len(s)) |->
                   IF t = {} THEN m ELSE MergeField(f[t \ {Max(t)}], s[Max(t)])]
<1>1. DOMAIN s = 1 .. Len(s) /\ Len(s) \in Nat
  OBVIOUS
<1>2. Merged(m, s) = G[1 .. Len(s)]
  BY <1>1 DEF Merged, FoldLeft, MapThenFoldSet
<1>3. PICK v : FoldsSeq(v, Message, MergeStep, m, s)
  BY MergeSteps, FoldIs
<1>4. ASSUME NEW t \in SUBSET (1 .. Len(s)), t # {}
      PROVE  MergeStep[s[Max(t)]][v[t \ {Max(t)}]] = MergeField(v[t \ {Max(t)}], s[Max(t)])
  <2>1. Max(t) \in 1 .. Len(s)
    BY <1>1, <1>4, MaxIsLast
  <2>2. s[Max(t)] \in GoodFields
    BY <2>1
  <2>3. v[t \ {Max(t)}] \in Message
    BY <1>3 DEF FoldsSeq
  <2> QED
    BY <2>2, <2>3 DEF MergeStep
<1>5. v = [t \in SUBSET (1 .. Len(s)) |->
             IF t = {} THEN m ELSE MergeField(v[t \ {Max(t)}], s[Max(t)])]
  BY <1>3, <1>4 DEF FoldsSeq
<1>6. G = [t \in SUBSET (1 .. Len(s)) |->
             IF t = {} THEN m ELSE MergeField(G[t \ {Max(t)}], s[Max(t)])]
  BY <1>5
<1> HIDE DEF G
<1>7. Follows(G, v, MergeStep, m, s)
  BY <1>4, <1>6 DEF Follows
<1>8. G[1 .. Len(s)] = Fold(MergeStep, m, s)
  BY <1>3, <1>7, FoldSame
<1> QED
  BY <1>2, <1>8

LEMMA MergeAppend ==
  ASSUME NEW m \in Message
  PROVE  /\ Merged(m, <<>>) = m
         /\ \A s \in Seq(GoodFields), w \in GoodFields :
              Merged(m, Append(s, w)) = MergeField(Merged(m, s), w)
<1>1. <<>> \in Seq(GoodFields)
  OBVIOUS
<1>2. Merged(m, <<>>) = m
  BY <1>1, MergeSteps, MergeIsFold, FoldEmpty
<1>3. ASSUME NEW s \in Seq(GoodFields), NEW w \in GoodFields
      PROVE  Merged(m, Append(s, w)) = MergeField(Merged(m, s), w)
  <2>1. Append(s, w) \in Seq(GoodFields)
    OBVIOUS
  <2>2. /\ Fold(MergeStep, m, s) \in Message
        /\ Fold(MergeStep, m, Append(s, w)) = MergeStep[w][Fold(MergeStep, m, s)]
    BY MergeSteps, FoldAppend
  <2>3. Merged(m, s) = Fold(MergeStep, m, s) /\ Merged(m, Append(s, w)) = Fold(MergeStep, m, Append(s, w))
    BY <2>1, MergeIsFold
  <2>4. \A x \in Message : MergeStep[w][x] = MergeField(x, w)
    BY DEF MergeStep
  <2> QED
    BY <2>2, <2>3, <2>4
<1> QED
  BY <1>2, <1>3

LEMMA AppendConcat ==
  ASSUME NEW E, NEW s \in Seq(E), NEW t \in Seq(E), NEW e \in E
  PROVE  s \o Append(t, e) = Append(s \o t, e)
  OBVIOUS

LEMMA ConcatSeqs ==
  ASSUME NEW E, NEW s \in Seq(E), NEW t \in Seq(E), NEW e \in E
  PROVE  s \o t \in Seq(E) /\ Append(t, e) \in Seq(E) /\ s \o <<>> = s /\ <<>> \o s = s
  OBVIOUS

\* What a message is after bytes have been merged into it
MergedRight(m, s) ==
  /\ Merged(m, s) \in Message
  /\ Merged(m, s).field = IF FieldIn(s) = None THEN m.field ELSE FieldIn(s)
  /\ \A k \in KeptKeys : Merged(m, s).unknown[k] = m.unknown[k] \o OfKey(s, k)

LEMMA MergeMeans ==
  ASSUME NEW m \in Message, NEW s \in Seq(GoodFields)
  PROVE  MergedRight(m, s)
<1> DEFINE T == {x \in Seq(GoodFields) : MergedRight(m, x)}
<1>1. <<>> \in T
  <2>1. \A k \in KeptKeys : m.unknown[k] \in Seq(WireField)
    BY DEF Message
  <2>2. \A k \in KeptKeys : m.unknown[k] \o <<>> = m.unknown[k]
    BY <2>1
  <2>3. Merged(m, <<>>) = m /\ FieldIn(<<>>) = None
    BY MergeAppend, FieldAppend
  <2>4. \A k \in KeptKeys : OfKey(<<>>, k) = <<>>
    BY KeyAppend
  <2>5. MergedRight(m, <<>>)
    BY <2>2, <2>3, <2>4 DEF MergedRight
  <2> QED
    BY <2>5
<1>2. ASSUME NEW x \in Seq(GoodFields), NEW w \in GoodFields, x \in T
      PROVE  Append(x, w) \in T
  <2> DEFINE y == Merged(m, x)
             z == Merged(m, Append(x, w))
  <2>1. Append(x, w) \in Seq(GoodFields) /\ x \in Seq(WireField) /\ w \in WireField
    BY DEF GoodFields
  <2>2. z = MergeField(y, w)
    BY MergeAppend
  <2>3. /\ y \in Message
        /\ y.field = IF FieldIn(x) = None THEN m.field ELSE FieldIn(x)
        /\ \A k \in KeptKeys : y.unknown[k] = m.unknown[k] \o OfKey(x, k)
    BY <1>2 DEF MergedRight
  <2> HIDE DEF y, z
  <2>4. z \in Message
    BY <2>2, <2>3, MergeKeepsType
  <2>5. z.field = IF FieldIn(Append(x, w)) = None THEN m.field ELSE FieldIn(Append(x, w))
    <3>1. z.field = IF IsField(w) THEN Some(w.val) ELSE y.field
      BY <2>2, <2>3, MergeKeepsType
    <3>2. FieldIn(Append(x, w)) = IF IsField(w) THEN Some(w.val) ELSE FieldIn(x)
      BY <2>1, FieldAppend
    <3>3. Some(w.val) # None
      BY DEF Some, None
    <3> QED
      BY <2>3, <3>1, <3>2, <3>3
  <2>6. ASSUME NEW k \in KeptKeys
        PROVE  z.unknown[k] = m.unknown[k] \o OfKey(Append(x, w), k)
    <3>1. z.unknown[k] = IF w.key = k THEN Append(y.unknown[k], w) ELSE y.unknown[k]
      BY <2>2, <2>3, MergeKeepsType
    <3>2. OfKey(x, k) \in Seq(WireField)
          /\ OfKey(Append(x, w), k) = IF w.key = k THEN Append(OfKey(x, k), w) ELSE OfKey(x, k)
      BY <2>1, KeyAppend
    <3>3. m.unknown[k] \in Seq(WireField)
      BY DEF Message
    <3>4. Append(m.unknown[k] \o OfKey(x, k), w) = m.unknown[k] \o Append(OfKey(x, k), w)
      <4>1. PICK a \in Seq(WireField), b \in Seq(WireField) : a = m.unknown[k] /\ b = OfKey(x, k)
        BY <2>1, <3>2, <3>3
      <4>2. a \o Append(b, w) = Append(a \o b, w)
        BY <2>1, AppendConcat
      <4> QED
        BY <4>1, <4>2
    <3> QED
      BY <2>3, <3>1, <3>2, <3>4
  <2> QED
    BY <2>1, <2>4, <2>5, <2>6 DEF MergedRight, z
<1>3. Seq(GoodFields) \subseteq T
  <2> HIDE DEF T
  <2> QED
    BY <1>1, <1>2, SeqInduction
<1> QED
  BY <1>3

-----------------------------------------------------------------------------
(* Bytes put one after the other *)

LEMMA KeyConcat ==
  ASSUME NEW k, NEW s \in Seq(WireField), NEW t \in Seq(WireField)
  PROVE  OfKey(s \o t, k) = OfKey(s, k) \o OfKey(t, k)
<1> DEFINE T == {x \in Seq(WireField) : OfKey(s \o x, k) = OfKey(s, k) \o OfKey(x, k)}
<1>1. \A x \in Seq(WireField) : OfKey(x, k) \in Seq(WireField)
  <2> SUFFICES ASSUME NEW x \in Seq(WireField) PROVE OfKey(x, k) \in Seq(WireField)
    OBVIOUS
  <2>1. <<>> \in Seq(WireField)
    OBVIOUS
  <2>2. CASE x = <<>>
    BY <2>1, <2>2, KeyAppend
  <2>3. CASE x # <<>>
    <3>1. PICK w : w \in WireField
      BY <2>3
    <3> QED
      BY <3>1, KeyAppend
  <2> QED
    BY <2>2, <2>3
<1>2. <<>> \in T
  <2>1. <<>> \in Seq(WireField) /\ s \o <<>> = s
    OBVIOUS
  <2>2. OfKey(s, k) \o <<>> = OfKey(s, k)
    <3>1. PICK a : a = OfKey(s, k) /\ a \in Seq(WireField)
      BY <1>1
    <3> QED
      BY <3>1
  <2> QED
    BY <2>1, <2>2, KeyAppend
<1>3. ASSUME NEW x \in Seq(WireField), NEW w \in WireField, x \in T
      PROVE  Append(x, w) \in T
  <2>1. s \o Append(x, w) = Append(s \o x, w) /\ s \o x \in Seq(WireField)
        /\ Append(x, w) \in Seq(WireField)
    BY AppendConcat, ConcatSeqs
  <2>2. OfKey(Append(s \o x, w), k)
          = IF w.key = k THEN Append(OfKey(s \o x, k), w) ELSE OfKey(s \o x, k)
    BY <2>1, KeyAppend
  <2>3. OfKey(Append(x, w), k) = IF w.key = k THEN Append(OfKey(x, k), w) ELSE OfKey(x, k)
    BY KeyAppend
  <2>4. PICK a \in Seq(WireField), b \in Seq(WireField) : a = OfKey(s, k) /\ b = OfKey(x, k)
    BY <1>1
  <2>5. a \o Append(b, w) = Append(a \o b, w)
    BY AppendConcat
  <2>6. Append(a \o b, w) = a \o Append(b, w)
    BY <2>5
  <2>7. OfKey(s \o x, k) = a \o b
    BY <1>3, <2>4
  <2>8. OfKey(s \o Append(x, w), k) = a \o OfKey(Append(x, w), k)
    BY <2>1, <2>2, <2>3, <2>4, <2>6, <2>7
  <2> QED
    BY <2>1, <2>4, <2>8
<1>4. Seq(WireField) \subseteq T
  <2> HIDE DEF T
  <2> QED
    BY <1>2, <1>3, SeqInduction
<1> QED
  BY <1>4

LEMMA SizeConcat ==
  ASSUME NEW s \in Seq(WireField), NEW t \in Seq(WireField)
  PROVE  SizeOf(s \o t) = SizeOf(s) + SizeOf(t)
<1> DEFINE T == {x \in Seq(WireField) : SizeOf(s \o x) = SizeOf(s) + SizeOf(x)}
<1>1. <<>> \in T
  <2>1. <<>> \in Seq(WireField) /\ s \o <<>> = s
    OBVIOUS
  <2>2. SizeOf(s) \in Nat /\ SizeOf(<<>>) = 0
    BY SizeAppend
  <2> QED
    BY <2>1, <2>2
<1>2. ASSUME NEW x \in Seq(WireField), NEW w \in WireField, x \in T
      PROVE  Append(x, w) \in T
  <2>1. s \o Append(x, w) = Append(s \o x, w) /\ s \o x \in Seq(WireField)
        /\ Append(x, w) \in Seq(WireField)
    BY AppendConcat, ConcatSeqs
  <2>2. SizeOf(Append(s \o x, w)) = SizeOf(s \o x) + WireFieldSize(w)
        /\ SizeOf(Append(x, w)) = SizeOf(x) + WireFieldSize(w)
    BY <2>1, SizeAppend
  <2>3. SizeOf(s) \in Nat /\ SizeOf(x) \in Nat /\ SizeOf(Append(x, w)) \in Nat
    BY <2>1, SizeAppend
  <2>4. WireFieldSize(w) \in Nat
    BY FieldSize
  <2>5. PICK a, b, c : a = SizeOf(s) /\ b = SizeOf(x) /\ c = WireFieldSize(w)
    OBVIOUS
  <2>6. a \in Nat /\ b \in Nat /\ c \in Nat /\ (a + b) + c = a + (b + c)
    BY <2>3, <2>4, <2>5
  <2>7. SizeOf(s \o Append(x, w)) = (a + b) + c /\ SizeOf(Append(x, w)) = b + c
    BY <1>2, <2>1, <2>2, <2>5
  <2>8. SizeOf(s \o Append(x, w)) = SizeOf(s) + SizeOf(Append(x, w))
    BY <2>5, <2>6, <2>7
  <2> QED
    BY <2>1, <2>8
<1>3. Seq(WireField) \subseteq T
  <2> HIDE DEF T
  <2> QED
    BY <1>1, <1>2, SeqInduction
<1> QED
  BY <1>3

LEMMA FieldConcat ==
  ASSUME NEW s \in Seq(WireField), NEW t \in Seq(WireField)
  PROVE  FieldIn(s \o t) = IF FieldIn(t) = None THEN FieldIn(s) ELSE FieldIn(t)
<1> DEFINE Both(x) == IF FieldIn(x) = None THEN FieldIn(s) ELSE FieldIn(x)
           T == {x \in Seq(WireField) : FieldIn(s \o x) = Both(x)}
<1>1. <<>> \in T
  <2>1. <<>> \in Seq(WireField) /\ s \o <<>> = s
    OBVIOUS
  <2> QED
    BY <2>1, FieldAppend
<1>2. ASSUME NEW x \in Seq(WireField), NEW w \in WireField, x \in T
      PROVE  Append(x, w) \in T
  <2>1. s \o Append(x, w) = Append(s \o x, w) /\ s \o x \in Seq(WireField)
        /\ Append(x, w) \in Seq(WireField)
    BY AppendConcat, ConcatSeqs
  <2>2. FieldIn(Append(s \o x, w)) = IF IsField(w) THEN Some(w.val) ELSE FieldIn(s \o x)
    BY <2>1, FieldAppend
  <2>3. FieldIn(Append(x, w)) = IF IsField(w) THEN Some(w.val) ELSE FieldIn(x)
    BY FieldAppend
  <2>4. Some(w.val) # None
    BY DEF Some, None
  <2> QED
    BY <1>2, <2>1, <2>2, <2>3, <2>4
<1>3. Seq(WireField) \subseteq T
  <2> HIDE DEF T
  <2> QED
    BY <1>1, <1>2, SeqInduction
<1> QED
  BY <1>3

\* Fields of one key have only that key, and unknown fields say nothing of
\* the field.
LEMMA KeptOfKey ==
  ASSUME NEW k, NEW k0, NEW s \in Seq(KeptFields(k0))
  PROVE  OfKey(s, k) = IF k = k0 THEN s ELSE <<>>
<1> DEFINE Of(x) == IF k = k0 THEN x ELSE <<>>
           T == {x \in Seq(KeptFields(k0)) : OfKey(x, k) = Of(x)}
<1>1. <<>> \in T
  <2>1. <<>> \in Seq(KeptFields(k0))
    OBVIOUS
  <2> QED
    BY <2>1, KeyAppend
<1>2. ASSUME NEW x \in Seq(KeptFields(k0)), NEW w \in KeptFields(k0), x \in T
      PROVE  Append(x, w) \in T
  <2>1. x \in Seq(WireField) /\ w \in WireField /\ w.key = k0
        /\ Append(x, w) \in Seq(KeptFields(k0))
    BY DEF KeptFields
  <2>2. OfKey(Append(x, w), k) = IF w.key = k THEN Append(OfKey(x, k), w) ELSE OfKey(x, k)
    BY <2>1, KeyAppend
  <2> QED
    BY <1>2, <2>1, <2>2
<1>3. Seq(KeptFields(k0)) \subseteq T
  <2> HIDE DEF T
  <2> QED
    BY <1>1, <1>2, SeqInduction
<1> QED
  BY <1>3

UnknownFields == {w \in WireField : w.key \in KeptKeys /\ w.whole}

LEMMA UnknownSaysNothing ==
  ASSUME NEW s \in Seq(UnknownFields)
  PROVE  s \in Seq(WireField) /\ FieldIn(s) = None /\ s \in Seq(GoodFields)
<1>1. \A w \in UnknownFields : w \in WireField /\ ~ IsField(w) /\ w \in GoodFields
  BY KeptKeysFacts DEF UnknownFields, IsField, GoodFields, Readable
<1> DEFINE T == {x \in Seq(UnknownFields) : FieldIn(x) = None}
<1>2. <<>> \in T
  BY FieldAppend
<1>3. ASSUME NEW x \in Seq(UnknownFields), NEW w \in UnknownFields, x \in T
      PROVE  Append(x, w) \in T
  <2>1. x \in Seq(WireField) /\ w \in WireField /\ ~ IsField(w)
        /\ Append(x, w) \in Seq(UnknownFields)
    BY <1>1
  <2> QED
    BY <1>3, <2>1, FieldAppend
<1>4. Seq(UnknownFields) \subseteq T
  <2> HIDE DEF T
  <2> QED
    BY <1>2, <1>3, SeqInduction
<1> QED
  BY <1>1, <1>4

-----------------------------------------------------------------------------
(* The size of the unknown fields *)

\* f[K] is what MapThenSumSet makes of some of the keys.
SomeOf(K) == CHOOSE k \in K : TRUE
SizeOver(f, m) ==
  f = [K \in SUBSET KeptKeys |->
         IF K = {} THEN 0 ELSE SizeOf(m.unknown[SomeOf(K)]) + f[K \ {SomeOf(K)}]]

LEMMA KeySize ==
  ASSUME NEW m \in Message, NEW k \in KeptKeys
  PROVE  SizeOf(m.unknown[k]) \in Nat
<1>1. m.unknown[k] \in Seq(WireField)
  BY DEF Message
<1> QED
  BY <1>1, SizeAppend

LEMMA SumExists ==
  ASSUME NEW m \in Message
  PROVE  \E f : SizeOver(f, m) /\ UnknownSize(m) = f[KeptKeys]
<1> DEFINE G == CHOOSE f : f = [K \in SUBSET KeptKeys |->
                   IF K = {} THEN 0 ELSE SizeOf(m.unknown[SomeOf(K)]) + f[K \ {SomeOf(K)}]]
           ch == [K \in SUBSET KeptKeys |-> SomeOf(K)]
           step == [k \in KeptKeys |-> [n \in Nat |-> SizeOf(m.unknown[k]) + n]]
<1>1. UnknownSize(m) = G[KeptKeys]
  BY DEF UnknownSize, MapThenSumSet, MapThenFoldSet, SomeOf
<1>2. Chooses(ch, KeptKeys)
  BY DEF Chooses, SomeOf
<1>3. step \in [KeptKeys -> [Nat -> Nat]]
  BY KeySize
<1>4. IsFiniteSet(KeptKeys)
  BY KeptKeysFacts
<1>5. PICK f : f \in [SUBSET KeptKeys -> Nat] /\ Folds(f, KeptKeys, 0, ch, step)
  <2> HIDE DEF ch, step
  <2> QED
    BY <1>2, <1>3, <1>4, FoldExists
<1>6. f = [K \in SUBSET KeptKeys |->
             IF K = {} THEN 0 ELSE SizeOf(m.unknown[SomeOf(K)]) + f[K \ {SomeOf(K)}]]
  <2>1. ASSUME NEW K \in SUBSET KeptKeys, K # {}
        PROVE  step[ch[K]][f[K \ {ch[K]}]] = SizeOf(m.unknown[SomeOf(K)]) + f[K \ {SomeOf(K)}]
    <3>1. ch[K] = SomeOf(K) /\ SomeOf(K) \in KeptKeys
      BY <1>2, <2>1 DEF Chooses
    <3>2. f[K \ {SomeOf(K)}] \in Nat
      BY <1>5
    <3> HIDE DEF ch
    <3> QED
      BY <3>1, <3>2
  <2> HIDE DEF ch, step
  <2> QED
    BY <1>5, <2>1 DEF Folds
<1>7. SizeOver(G, m)
  <2>1. G = [K \in SUBSET KeptKeys |->
               IF K = {} THEN 0 ELSE SizeOf(m.unknown[SomeOf(K)]) + G[K \ {SomeOf(K)}]]
    BY <1>6
  <2> HIDE DEF G
  <2> QED
    BY <2>1 DEF SizeOver
<1> QED
  BY <1>1, <1>7

\* The order in which the keys are taken does not matter.
LEMMA AnyOrder ==
  ASSUME NEW m \in Message, NEW f, SizeOver(f, m)
  PROVE  /\ \A K \in SUBSET KeptKeys : f[K] \in Nat
         /\ \A K \in SUBSET KeptKeys, k \in KeptKeys :
              k \in K => f[K] = SizeOf(m.unknown[k]) + f[K \ {k}]
<1> DEFINE size(k) == SizeOf(m.unknown[k])
           AnyFirst(K) == \A k \in K : f[K] = size(k) + f[K \ {k}]
           T == {K \in SUBSET KeptKeys : f[K] \in Nat}
           L == {n \in Nat : \A K \in SUBSET KeptKeys : Cardinality(K) = n => AnyFirst(K)}
<1>1. /\ IsFiniteSet(KeptKeys)
      /\ \A K \in SUBSET KeptKeys : IsFiniteSet(K) /\ Cardinality(K) \in Nat
  BY KeptKeysFacts, FS_Subset, FS_CardinalityType
<1>2. \A k \in KeptKeys : size(k) \in Nat
  BY KeySize
<1>3. \A K \in SUBSET KeptKeys :
        K # {} => SomeOf(K) \in K /\ f[K] = size(SomeOf(K)) + f[K \ {SomeOf(K)}]
  BY DEF SizeOver, SomeOf
<1> HIDE DEF size
<1>4. SUBSET KeptKeys \subseteq T
  <2>1. {} \in T
    BY DEF SizeOver
  <2>2. \A K \in SUBSET KeptKeys : K # {} => \E k \in K : K \ {k} \in T => K \in T
    <3> SUFFICES ASSUME NEW K \in SUBSET KeptKeys, K # {}
                 PROVE  \E k \in K : K \ {k} \in T => K \in T
      OBVIOUS
    <3>1. SomeOf(K) \in K /\ f[K] = size(SomeOf(K)) + f[K \ {SomeOf(K)}]
      BY <1>3
    <3>2. K \ {SomeOf(K)} \in T => K \in T
      BY <1>2, <3>1
    <3> QED
      BY <3>1, <3>2
  <2> HIDE DEF T
  <2> QED
    BY <1>1, <2>1, <2>2, SubsetInduction
<1>5. 0 \in L
  <2>1. \A K \in SUBSET KeptKeys : Cardinality(K) = 0 => K = {}
    BY <1>1, FS_EmptySet
  <2> QED
    BY <2>1
<1>6. ASSUME NEW n \in Nat, n \in L PROVE n + 1 \in L
  <2> SUFFICES ASSUME NEW K \in SUBSET KeptKeys, Cardinality(K) = n + 1, NEW k \in K
               PROVE  f[K] = size(k) + f[K \ {k}]
    OBVIOUS
  <2> DEFINE l == SomeOf(K)
  <2>1. l \in K /\ f[K] = size(l) + f[K \ {l}]
    BY <1>3
  <2>2. CASE k = l
    BY <2>1, <2>2
  <2>3. CASE k # l
    <3> HIDE DEF l
    <3>1. Cardinality(K \ {k}) = n /\ Cardinality(K \ {l}) = n
      <4>1. \A x \in K : Cardinality(K \ {x}) = Cardinality(K) - 1
        BY <1>1, FS_RemoveElement
      <4> QED
        BY <2>1, <4>1
    <3>2. AnyFirst(K \ {k}) /\ AnyFirst(K \ {l})
      BY <1>6, <3>1
    <3>3. f[K \ {k}] = size(l) + f[(K \ {k}) \ {l}]
      BY <2>1, <2>3, <3>2
    <3>4. f[K \ {l}] = size(k) + f[(K \ {l}) \ {k}]
      BY <2>1, <2>3, <3>2
    <3>5. (K \ {k}) \ {l} = (K \ {l}) \ {k}
      OBVIOUS
    <3>6. PICK a, b, c : a = size(k) /\ b = size(l) /\ c = f[(K \ {k}) \ {l}]
      OBVIOUS
    <3>7. a \in Nat /\ b \in Nat /\ c \in Nat
      BY <1>2, <1>4, <2>1, <3>6
    <3>8. b + (a + c) = a + (b + c)
      BY <3>7
    <3> QED
      BY <2>1, <3>3, <3>4, <3>5, <3>6, <3>8
  <2> QED
    BY <2>2, <2>3
<1>7. Nat \subseteq L
  <2> HIDE DEF L
  <2> QED
    BY <1>5, <1>6, Induction
<1>8. \A K \in SUBSET KeptKeys : AnyFirst(K)
  BY <1>1, <1>7
<1> QED
  BY <1>4, <1>8 DEF size

-----------------------------------------------------------------------------
(* What write_unknown_fields writes *)

\* FlattenSeq puts one sequence after the other.
LEMMA FlattenIs ==
  ASSUME NEW s, Len(s) \in Nat, Len(s) # 0
  PROVE  \E f : /\ f = [i \in 1 .. Len(s) |-> IF i = 1 THEN s[i] ELSE f[i - 1] \o s[i]]
                /\ FlattenSeq(s) = f[Len(s)]
<1> DEFINE Flat(f, n) == f = [i \in 1 .. n |-> IF i = 1 THEN s[i] ELSE f[i - 1] \o s[i]]
           L == {n \in Nat : \E f : Flat(f, n)}
           F == CHOOSE f : f = [i \in 1 .. Len(s) |-> IF i = 1 THEN s[i] ELSE f[i - 1] \o s[i]]
<1>1. 0 \in L
  <2> DEFINE g == [i \in 1 .. 0 |-> 0]
  <2>1. Flat(g, 0)
    OBVIOUS
  <2> HIDE DEF Flat, g
  <2> QED
    BY <2>1
<1>2. ASSUME NEW n \in Nat, n \in L PROVE n + 1 \in L
  <2>1. PICK g : Flat(g, n)
    BY <1>2
  <2> DEFINE h == [i \in 1 .. n + 1 |-> IF i = 1 THEN s[i] ELSE g[i - 1] \o s[i]]
  <2>2. ASSUME NEW i \in 1 .. n PROVE h[i] = g[i]
    <3>1. i \in 1 .. n + 1
      OBVIOUS
    <3>2. h[i] = IF i = 1 THEN s[i] ELSE g[i - 1] \o s[i]
      BY <3>1
    <3>3. g[i] = IF i = 1 THEN s[i] ELSE g[i - 1] \o s[i]
      BY <2>1
    <3> HIDE DEF h
    <3> QED
      BY <3>2, <3>3
  <2>3. ASSUME NEW i \in 1 .. n + 1, i # 1 PROVE h[i - 1] = g[i - 1]
    <3>1. i - 1 \in 1 .. n
      BY <2>3
    <3> HIDE DEF h
    <3> QED
      BY <2>2, <3>1
  <2>4. h = [i \in 1 .. n + 1 |-> IF i = 1 THEN s[i] ELSE h[i - 1] \o s[i]]
    BY <2>3
  <2>5. Flat(h, n + 1)
    <3> HIDE DEF h
    <3> QED
      BY <2>4
  <2> HIDE DEF Flat, h
  <2> QED
    BY <2>5
<1>3. Nat \subseteq L
  <2> HIDE DEF L
  <2> QED
    BY <1>1, <1>2, Induction
<1>4. \E f : Flat(f, Len(s))
  BY <1>3
<1>5. Flat(F, Len(s))
  BY <1>4
<1>6. FlattenSeq(s) = F[Len(s)]
  BY DEF FlattenSeq
<1> HIDE DEF F
<1> QED
  BY <1>5, <1>6

\* What bytes with the unknown fields of some keys say, and how many they are
Carries(u, m, f, K) ==
  /\ u \in Seq(UnknownFields)
  /\ \A k \in KeptKeys : OfKey(u, k) = IF k \in K THEN m.unknown[k] ELSE <<>>
  /\ SizeOf(u) = f[K]

LEMMA CarriesNothing ==
  ASSUME NEW m, NEW f, SizeOver(f, m)
  PROVE  Carries(<<>>, m, f, {})
<1>1. f[{}] = 0
  BY DEF SizeOver
<1> QED
  BY <1>1, KeyAppend, SizeAppend DEF Carries

LEMMA CarriesMore ==
  ASSUME NEW m \in Message, NEW f, SizeOver(f, m), NEW K \in SUBSET KeptKeys,
         NEW k \in KeptKeys, k \notin K, NEW u, Carries(u, m, f, K)
  PROVE  Carries(u \o m.unknown[k], m, f, K \cup {k})
<1>1. PICK g : g = m.unknown[k]
  OBVIOUS
<1>2. g \in Seq(WireField) /\ g \in Seq(KeptFields(k))
  BY <1>1 DEF Message
<1>3. KeptFields(k) \subseteq UnknownFields /\ UnknownFields \subseteq WireField
  BY DEF KeptFields, UnknownFields
<1>4. g \in Seq(UnknownFields) /\ u \in Seq(UnknownFields) /\ u \in Seq(WireField)
  BY <1>2, <1>3 DEF Carries
<1>5. u \o g \in Seq(UnknownFields)
  BY <1>4
<1>6. ASSUME NEW l \in KeptKeys
      PROVE  OfKey(u \o g, l) = IF l \in K \cup {k} THEN m.unknown[l] ELSE <<>>
  <2>1. OfKey(u \o g, l) = OfKey(u, l) \o OfKey(g, l)
    BY <1>2, <1>4, KeyConcat
  <2>2. OfKey(g, l) = IF l = k THEN g ELSE <<>>
    BY <1>2, KeptOfKey
  <2>3. OfKey(u, l) = IF l \in K THEN m.unknown[l] ELSE <<>>
    BY DEF Carries
  <2>4. PICK a : a = m.unknown[l] /\ a \in Seq(WireField)
    BY DEF Message
  <2>5. a \o <<>> = a /\ <<>> \o a = a /\ <<>> \o <<>> = <<>>
    BY <2>4
  <2> QED
    BY <1>1, <2>1, <2>2, <2>3, <2>4, <2>5
<1>7. SizeOf(u \o g) = f[K \cup {k}]
  <2>1. SizeOf(u \o g) = SizeOf(u) + SizeOf(g)
    BY <1>2, <1>4, SizeConcat
  <2>2. f[K \cup {k}] = SizeOf(m.unknown[k]) + f[(K \cup {k}) \ {k}]
    <3>1. K \cup {k} \in SUBSET KeptKeys /\ k \in K \cup {k}
      OBVIOUS
    <3> QED
      BY <3>1, AnyOrder
  <2>3. (K \cup {k}) \ {k} = K
    OBVIOUS
  <2>4. SizeOf(u) \in Nat /\ SizeOf(g) \in Nat
    BY <1>2, <1>4, SizeAppend
  <2>5. SizeOf(u) = f[K]
    BY DEF Carries
  <2>6. PICK a, b : a = SizeOf(u) /\ b = SizeOf(g)
    OBVIOUS
  <2>7. a \in Nat /\ b \in Nat /\ a = f[K]
    BY <2>4, <2>5, <2>6
  <2>8. a + b = b + a
    BY <2>7
  <2>9. SizeOf(u \o g) = a + b
    BY <2>1, <2>6
  <2>10. f[K \cup {k}] = b + a
    BY <1>1, <2>2, <2>3, <2>6, <2>7
  <2> QED
    BY <2>8, <2>9, <2>10
<1> QED
  BY <1>1, <1>5, <1>6, <1>7 DEF Carries

\* Whatever the order of the keys, what is written has the unknown fields of
\* the message and is as long as unknown_fields_size says.
LEMMA UnknownIsWritten ==
  ASSUME NEW m \in Message, NEW u \in UnknownWritten(m)
  PROVE  /\ u \in Seq(UnknownFields)
         /\ \A k \in KeptKeys : OfKey(u, k) = m.unknown[k]
         /\ SizeOf(u) = UnknownSize(m)
<1> DEFINE n == Cardinality(KeptKeys)
<1>1. PICK keys \in SetToSeqs(KeptKeys) :
        u = FlattenSeq([i \in 1 .. Len(keys) |-> m.unknown[keys[i]]])
  BY DEF UnknownWritten
<1>2. PICK f : SizeOver(f, m) /\ UnknownSize(m) = f[KeptKeys]
  BY SumExists
<1>3. n \in Nat /\ IsFiniteSet(KeptKeys)
  BY KeptKeysFacts, FS_CardinalityType
<1>4. /\ keys \in [1 .. n -> KeptKeys]
      /\ \A i, j \in 1 .. n : i # j => keys[i] # keys[j]
  BY DEF SetToSeqs
<1> HIDE DEF n
<1>5. Len(keys) = n
  BY <1>3, <1>4
<1> DEFINE groups == [i \in 1 .. n |-> m.unknown[keys[i]]]
           First(i) == {keys[j] : j \in 1 .. i}
<1>6. u = FlattenSeq(groups) /\ Len(groups) = n
  <2>1. Len(groups) = n
    BY <1>3
  <2> QED
    BY <1>1, <1>5, <2>1
<1>7. Carries(u, m, f, KeptKeys)
  <2>1. CASE n = 0
    <3>1. KeptKeys = {}
      BY <1>3, <2>1, FS_EmptySet DEF n
    <3>2. u = <<>>
      BY <1>6, <2>1 DEF FlattenSeq
    <3> QED
      BY <1>2, <3>1, <3>2, CarriesNothing
  <2>2. CASE n # 0
    <3>1. PICK F : /\ F = [i \in 1 .. n |-> IF i = 1 THEN groups[i] ELSE F[i - 1] \o groups[i]]
                   /\ u = F[n]
      <4>1. Len(groups) \in Nat /\ Len(groups) # 0
        BY <1>3, <1>6, <2>2
      <4> HIDE DEF groups
      <4> QED
        BY <1>6, <4>1, FlattenIs
    <3> DEFINE Good(i) == /\ Carries(F[i], m, f, First(i))
                          /\ IsFiniteSet(First(i)) /\ Cardinality(First(i)) = i
               L == {i \in Nat : i \in 1 .. n => Good(i)}
    <3>2. ASSUME NEW i \in 1 .. n PROVE First(i) \in SUBSET KeptKeys
      <4>1. \A j \in 1 .. i : j \in 1 .. n
        BY <1>3
      <4>2. \A j \in 1 .. n : keys[j] \in KeptKeys
        BY <1>4
      <4> QED
        BY <4>1, <4>2
    <3>3. ASSUME NEW i \in Nat, i \in 1 .. n, i + 1 \in 1 .. n, Good(i) PROVE Good(i + 1)
      <4>1. First(i + 1) = First(i) \cup {keys[i + 1]}
        BY <3>3
      <4>2. keys[i + 1] \notin First(i) /\ keys[i + 1] \in KeptKeys
        BY <1>3, <1>4, <3>3
      <4>3. F[i + 1] = F[i] \o m.unknown[keys[i + 1]]
        <5>1. i + 1 # 1 /\ (i + 1) - 1 = i
          BY <3>3
        <5>2. groups[i + 1] = m.unknown[keys[i + 1]]
          BY <3>3
        <5> HIDE DEF groups
        <5>3. F[i + 1] = IF i + 1 = 1 THEN groups[i + 1] ELSE F[(i + 1) - 1] \o groups[i + 1]
          BY <3>1, <3>3
        <5> QED
          BY <5>1, <5>2, <5>3
      <4>4. First(i) \in SUBSET KeptKeys
        BY <3>2, <3>3
      <4> HIDE DEF First
      <4>5. Carries(F[i + 1], m, f, First(i + 1))
        <5>1. PICK v, k, K : v = F[i] /\ k = keys[i + 1] /\ K = First(i)
          OBVIOUS
        <5>2. k \in KeptKeys /\ k \notin K /\ K \in SUBSET KeptKeys /\ Carries(v, m, f, K)
          BY <3>3, <4>2, <4>4, <5>1
        <5>3. Carries(v \o m.unknown[k], m, f, K \cup {k})
          BY <1>2, <5>2, CarriesMore
        <5> QED
          BY <4>1, <4>3, <5>1, <5>3
      <4>6. IsFiniteSet(First(i + 1)) /\ Cardinality(First(i + 1)) = i + 1
        BY <3>3, <4>1, <4>2, FS_AddElement
      <4> QED
        BY <4>5, <4>6
    <3>4. Good(1)
      <4>1. First(1) = {} \cup {keys[1]} /\ keys[1] \in KeptKeys
        BY <1>3, <1>4, <2>2
      <4>2. F[1] = m.unknown[keys[1]]
        BY <1>3, <2>2, <3>1
      <4>3. PICK a : a = m.unknown[keys[1]] /\ a \in Seq(WireField) /\ <<>> \o a = a
        BY <4>1 DEF Message
      <4>4. Carries(<<>> \o m.unknown[keys[1]], m, f, {} \cup {keys[1]})
        <5>1. {} \in SUBSET KeptKeys /\ keys[1] \notin {}
          OBVIOUS
        <5> QED
          BY <1>2, <4>1, <5>1, CarriesNothing, CarriesMore
      <4>5. IsFiniteSet(First(1)) /\ Cardinality(First(1)) = 1
        <5>1. First(1) = {keys[1]}
          BY <4>1
        <5> HIDE DEF First
        <5> QED
          BY <5>1, FS_Singleton
      <4> HIDE DEF First
      <4> QED
        BY <4>1, <4>2, <4>3, <4>4, <4>5
    <3>5. 0 \in L /\ \A i \in Nat : i \in L => i + 1 \in L
      <4>1. 0 \in L
        OBVIOUS
      <4>2. ASSUME NEW i \in Nat, i \in L PROVE i + 1 \in L
        <5> SUFFICES ASSUME i + 1 \in 1 .. n PROVE Good(i + 1)
          OBVIOUS
        <5> HIDE DEF Good
        <5>1. CASE i = 0
          BY <3>4, <5>1
        <5>2. CASE i # 0
          <6>1. i \in 1 .. n
            BY <1>3, <5>2
          <6> QED
            BY <3>3, <4>2, <6>1
        <5> QED
          BY <5>1, <5>2
      <4> QED
        BY <4>1, <4>2
    <3>6. Nat \subseteq L
      <4> HIDE DEF L
      <4> QED
        BY <3>5, Induction
    <3>7. Good(n)
      <4>1. n \in 1 .. n
        BY <1>3, <2>2
      <4> HIDE DEF Good
      <4> QED
        BY <1>3, <3>6, <4>1
    <3>8. First(n) = KeptKeys
      <4>1. First(n) \in SUBSET KeptKeys
        BY <1>3, <1>4
      <4>2. Cardinality(First(n)) = n
        BY <3>7
      <4> HIDE DEF First
      <4> QED
        BY <1>3, <4>1, <4>2, FS_Subset DEF n
    <3> QED
      BY <3>1, <3>7, <3>8
  <2> QED
    BY <2>1, <2>2
<1> QED
  BY <1>2, <1>7 DEF Carries

-----------------------------------------------------------------------------
(* Reading and writing a message *)

LEMMA GoodFieldsRead ==
  ASSUME NEW s \in Seq(GoodFields)
  PROVE  s \in Seq(WireField) /\ ~ MergeFails(s)
<1>1. GoodFields \subseteq WireField /\ \A w \in GoodFields : Readable(w)
  BY DEF GoodFields
<1>2. s \in Seq(WireField)
  BY <1>1
<1>3. \A i \in 1 .. Len(s) : s[i] \in GoodFields
  OBVIOUS
<1> QED
  BY <1>1, <1>2, <1>3 DEF MergeFails

\* What merge_from reads can be read: all of the bytes if it returns no error.
LEMMA ReadPartReads ==
  ASSUME NEW bytes \in Seq(WireField)
  PROVE  /\ ReadPart(bytes) \in Seq(GoodFields)
         /\ ~ MergeFails(bytes) => ReadPart(bytes) = bytes
<1>1. CASE ~ MergeFails(bytes)
  <2>1. \A i \in 1 .. Len(bytes) : bytes[i] \in GoodFields
    BY <1>1 DEF MergeFails, GoodFields
  <2>2. bytes \in Seq(GoodFields)
    BY <2>1
  <2> QED
    BY <1>1, <2>2 DEF ReadPart
<1>2. CASE MergeFails(bytes)
  <2> DEFINE B == {i \in 1 .. Len(bytes) : ~ Readable(bytes[i])}
             least == SelectInSeq(bytes, LAMBDA w : ~ Readable(w))
  <2>1. B \in SUBSET Nat /\ B # {}
    BY <1>2 DEF MergeFails
  <2>2. least = Min(B)
    BY <2>1 DEF SelectInSeq
  <2>3. \E x \in B : \A y \in B : x <= y
    <3> HIDE DEF B
    <3> QED
      BY <2>1, LeastNumber
  <2>4. least \in B /\ \A y \in B : least <= y
    <3>1. Min(B) \in B /\ \A y \in B : Min(B) <= y
      <4> HIDE DEF B
      <4> QED
        BY <2>3 DEF Min
    <3> HIDE DEF B, least
    <3> QED
      BY <2>2, <3>1
  <2>5. ReadPart(bytes) = SubSeq(bytes, 1, least - 1)
    BY <1>2 DEF ReadPart
  <2>6. least \in 1 .. Len(bytes) /\ \A i \in 1 .. Len(bytes) : i < least => Readable(bytes[i])
    <3> HIDE DEF least
    <3>1. least \in 1 .. Len(bytes)
      BY <2>4
    <3>2. ASSUME NEW i \in 1 .. Len(bytes), i < least PROVE Readable(bytes[i])
      <4>1. i \in B => least <= i
        BY <2>4
      <4> QED
        BY <3>1, <3>2, <4>1
    <3> QED
      BY <3>1, <3>2
  <2> HIDE DEF least, B
  <2>7. \A i \in 1 .. least - 1 : bytes[i] \in GoodFields
    <3>1. ASSUME NEW i \in 1 .. least - 1 PROVE bytes[i] \in GoodFields
      <4>1. i \in 1 .. Len(bytes) /\ i < least
        BY <2>6
      <4> QED
        BY <2>6, <4>1 DEF GoodFields
    <3> QED
      BY <3>1
  <2>8. SubSeq(bytes, 1, least - 1) \in Seq(GoodFields)
    BY <2>6, <2>7
  <2> QED
    BY <1>2, <2>5, <2>8
<1> QED
  BY <1>1, <1>2

LEMMA NewIsMessage ==
  New \in Message /\ New.field = None /\ \A k \in KeptKeys : New.unknown[k] = <<>>
<1>1. <<>> \in Seq(WireField) /\ \A k \in KeptKeys : <<>> \in Seq(KeptFields(k))
  OBVIOUS
<1> QED
  BY <1>1 DEF New, Message

\* merge_from makes a message of any bytes, and a new one says what they say.
LEMMA ReadsBack ==
  ASSUME NEW bytes \in Seq(WireField)
  PROVE  /\ \A m \in Message : MergeFrom(m, bytes) \in Message
         /\ ~ MergeFails(bytes) => /\ MergeFrom(New, bytes).field = FieldIn(bytes)
                                   /\ MergeFrom(New, bytes).unknown = UnknownIn(bytes)
<1>1. \A m \in Message : MergeFrom(m, bytes) \in Message
  <2>1. ASSUME NEW m \in Message PROVE Merged(m, ReadPart(bytes)) \in Message
    BY ReadPartReads, MergeMeans DEF MergedRight
  <2> QED
    BY <2>1 DEF MergeFrom, Merged
<1>2. ASSUME ~ MergeFails(bytes)
      PROVE  /\ MergeFrom(New, bytes).field = FieldIn(bytes)
             /\ MergeFrom(New, bytes).unknown = UnknownIn(bytes)
  <2>1. bytes \in Seq(GoodFields) /\ MergeFrom(New, bytes) = Merged(New, bytes)
    <3>1. ReadPart(bytes) = bytes /\ ReadPart(bytes) \in Seq(GoodFields)
      BY <1>2, ReadPartReads
    <3> QED
      BY <3>1 DEF MergeFrom, Merged
  <2>2. MergedRight(New, bytes)
    BY <2>1, NewIsMessage, MergeMeans
  <2>3. PICK m : m = MergeFrom(New, bytes)
    OBVIOUS
  <2>4. m \in Message /\ m.field = IF FieldIn(bytes) = None THEN None ELSE FieldIn(bytes)
    BY <2>1, <2>2, <2>3, NewIsMessage DEF MergedRight
  <2>5. ASSUME NEW k \in KeptKeys PROVE m.unknown[k] = OfKey(bytes, k)
    <3>1. m.unknown[k] = <<>> \o OfKey(bytes, k)
      BY <2>1, <2>2, <2>3, NewIsMessage DEF MergedRight
    <3>2. PICK o : o = OfKey(bytes, k) /\ o \in Seq(WireField)
      <4>1. FieldOf(<<>>) \in WireField
        BY DEF FieldOf, WireField, Text
      <4>2. OfKey(bytes, k) \in Seq(WireField)
        BY <4>1, KeyAppend
      <4> QED
        BY <4>2
    <3>3. <<>> \o o = o
      BY <3>2
    <3> QED
      BY <3>1, <3>2, <3>3
  <2>6. m.unknown = [k \in KeptKeys |-> m.unknown[k]]
    BY <2>4 DEF Message
  <2> QED
    BY <2>3, <2>4, <2>5, <2>6 DEF UnknownIn
<1> QED
  BY <1>1, <1>2

\* Whatever is written of a message can be read, says all that is in it and is
\* as long as compute_size says.
LEMMA WritesAll ==
  ASSUME NEW m \in Message, NEW s \in Written(m)
  PROVE  /\ s \in Seq(WireField) /\ ~ MergeFails(s)
         /\ FieldIn(s) = m.field
         /\ UnknownIn(s) = m.unknown
         /\ SizeOf(s) = ComputeSize(m)
         /\ ComputeSize(m) \in Nat
<1>1. PICK head, rest :
        /\ head = IF Has(m) THEN <<FieldOf(Get(m))>> ELSE <<>>
        /\ rest \in UnknownWritten(m)
        /\ s = head \o rest
  BY DEF Written
<1>2. /\ rest \in Seq(UnknownFields)
      /\ \A k \in KeptKeys : OfKey(rest, k) = m.unknown[k]
      /\ SizeOf(rest) = UnknownSize(m)
  BY <1>1, UnknownIsWritten
<1>3. rest \in Seq(WireField) /\ FieldIn(rest) = None /\ rest \in Seq(GoodFields)
  BY <1>2, UnknownSaysNothing
<1>4. /\ head \in Seq(GoodFields) /\ head \in Seq(WireField)
      /\ FieldIn(head) = m.field
      /\ \A k \in KeptKeys : OfKey(head, k) = <<>>
      /\ SizeOf(head) = (IF Has(m) THEN WireFieldSize(FieldOf(Get(m))) ELSE 0)
      /\ SizeOf(head) \in Nat
  <2>1. CASE ~ Has(m)
    <3>1. head = <<>> /\ m.field = None
      BY <1>1, <2>1 DEF Has
    <3>2. <<>> \in Seq(GoodFields) /\ <<>> \in Seq(WireField)
      OBVIOUS
    <3> QED
      BY <2>1, <3>1, <3>2, FieldAppend, KeyAppend, SizeAppend
  <2>2. CASE Has(m)
    <3>1. PICK w : w = FieldOf(Get(m))
      OBVIOUS
    <3>2. m.field = Some(Get(m)) /\ Get(m) \in Text
      BY <2>2 DEF Has, Get, Message, Some, None
    <3>3. w \in WireField /\ w.key = <<1, "delimited">> /\ w.val = Get(m) /\ w.whole /\ w.utf8
      BY <3>1, <3>2 DEF FieldOf, WireField
    <3>4. IsField(w) /\ w \in GoodFields /\ w.key \notin KeptKeys
      BY <3>3, KeptKeysFacts DEF IsField, GoodFields, Readable
    <3>5. head = <<w>>
      BY <1>1, <2>2, <3>1
    <3>6. head = Append(<<>>, w) /\ <<>> \in Seq(WireField) /\ <<w>> \in Seq(GoodFields)
          /\ <<w>> \in Seq(WireField)
      BY <3>3, <3>4, <3>5
    <3>7. FieldIn(head) = Some(w.val)
      BY <3>3, <3>4, <3>6, FieldAppend
    <3>8. \A k \in KeptKeys : OfKey(head, k) = <<>>
      BY <3>3, <3>4, <3>6, KeyAppend
    <3>9. SizeOf(head) = 0 + WireFieldSize(w) /\ WireFieldSize(w) \in Nat
      BY <3>3, <3>6, SizeAppend, FieldSize
    <3>10. SizeOf(head) = WireFieldSize(w)
      BY <3>9
    <3> QED
      BY <2>2, <3>1, <3>2, <3>3, <3>5, <3>6, <3>7, <3>8, <3>9, <3>10
  <2> QED
    BY <2>1, <2>2
<1>5. s \in Seq(GoodFields)
  BY <1>1, <1>3, <1>4
<1>6. FieldIn(s) = m.field
  BY <1>1, <1>3, <1>4, FieldConcat
<1>7. UnknownIn(s) = m.unknown
  <2>1. ASSUME NEW k \in KeptKeys PROVE OfKey(s, k) = m.unknown[k]
    <3>1. OfKey(s, k) = <<>> \o m.unknown[k]
      BY <1>1, <1>2, <1>3, <1>4, KeyConcat
    <3>2. PICK o : o = m.unknown[k] /\ o \in Seq(WireField)
      BY DEF Message
    <3>3. <<>> \o o = o
      BY <3>2
    <3> QED
      BY <3>1, <3>2, <3>3
  <2>2. m.unknown = [k \in KeptKeys |-> m.unknown[k]]
    BY DEF Message
  <2> QED
    BY <2>1, <2>2 DEF UnknownIn
<1>8. SizeOf(s) = ComputeSize(m) /\ ComputeSize(m) \in Nat
  <2>1. SizeOf(s) = SizeOf(head) + SizeOf(rest)
    BY <1>1, <1>3, <1>4, SizeConcat
  <2>2. ComputeSize(m) = SizeOf(head) + SizeOf(rest)
    BY <1>2, <1>4 DEF ComputeSize
  <2>3. SizeOf(s) \in Nat
    BY <1>5, GoodFieldsRead, SizeAppend
  <2> QED
    BY <2>1, <2>2, <2>3
<1> QED
  BY <1>5, <1>6, <1>7, <1>8, GoodFieldsRead

-----------------------------------------------------------------------------
(* The inductive invariant: what the bytes on either way are made of *)

TypesOK ==
  /\ method \in ServerMethods
  /\ request \in Message
  /\ wire \in Seq(WireField)
  /\ out \in Seq(WireField)

RequestIsWritten ==
  at = "sent" => wire \in Written(request) /\ request.cached_size = ComputeSize(request)

AnswerIsWritten ==
  at \in {"answered", "returned"} => ~ ReadFails(wire) /\ out \in Answers(wire)

ReplyIsRead == at = "returned" => ~ MergeFails(out) /\ reply = ReadReply(out)

GreeterInv == TypesOK /\ RequestIsWritten /\ AnswerIsWritten /\ ReplyIsRead

LEMMA SetFieldKeepsType ==
  ASSUME NEW m \in Message
  PROVE  /\ \A v \in Text : SetField(m, v) \in Message /\ SetField(m, v).field = Some(v)
         /\ ClearField(m) \in Message
         /\ Clear(m) \in Message
         /\ Get(m) \in Text
<1>1. \A v \in Text : SetField(m, v) \in Message /\ SetField(m, v).field = Some(v)
  BY DEF SetField, Message
<1>2. ClearField(m) \in Message
  BY DEF ClearField, Message
<1>3. Clear(m) \in Message
  <2>1. New.unknown \in {u \in [KeptKeys -> Seq(WireField)] :
                           \A k \in KeptKeys : u[k] \in Seq(KeptFields(k))}
    BY NewIsMessage DEF Message
  <2>2. PICK n : n = New.unknown
    OBVIOUS
  <2> QED
    BY <1>2, <2>1, <2>2 DEF Clear, Message
<1>4. Get(m) \in Text
  BY DEF Get, Has, Message, Some, None, Text
<1> QED
  BY <1>1, <1>2, <1>3, <1>4

LEMMA GreetingIsText ==
  ASSUME NEW name \in Text
  PROVE  /\ Greeting(name) \in Text
         /\ GreetingReply(name) \in Message
         /\ GreetingReply(name).field = Some(Greeting(name))
<1>1. Greeting(name) \in Text
  BY WordsAssumption DEF Greeting, Text
<1> QED
  BY <1>1, NewIsMessage, SetFieldKeepsType DEF GreetingReply

\* What the method answers is made of wire fields.
LEMMA AnswersAreFields ==
  ASSUME NEW bytes \in Seq(WireField), NEW s \in Answers(bytes)
  PROVE  s \in Seq(WireField)
<1>1. ReadRequest(bytes) \in Message
  BY ReadsBack, NewIsMessage DEF ReadRequest
<1>2. GreetingReply(Get(ReadRequest(bytes))) \in Message
  BY <1>1, SetFieldKeepsType, GreetingIsText
<1>3. CASE method.handler = "SayHello"
  <2>1. s \in Written(GreetingReply(Get(ReadRequest(bytes))))
    BY <1>3 DEF Answers, EchoesBytes
  <2> QED
    BY <1>2, <2>1, WritesAll
<1>4. CASE method.handler # "SayHello" /\ EchoesBytes
  BY <1>4 DEF Answers
<1>5. CASE method.handler # "SayHello" /\ ~ EchoesBytes
  <2>1. s \in Written(ReadRequest(bytes))
    BY <1>5 DEF Answers
  <2> QED
    BY <1>1, <2>1, WritesAll
<1> QED
  BY <1>3, <1>4, <1>5

LEMMA InitInv == Init => GreeterInv
<1> SUFFICES ASSUME Init PROVE GreeterInv
  OBVIOUS
<1> QED
  BY NewIsMessage DEF Init, GreeterInv, TypesOK, RequestIsWritten, AnswerIsWritten, ReplyIsRead

\* The user changes the request before it is sent.
LEMMA ChangeStep ==
  ASSUME GreeterInv, NEW m \in Message, Change(m)
  PROVE  GreeterInv'
  BY DEF Change, GreeterInv, TypesOK, RequestIsWritten, AnswerIsWritten, ReplyIsRead

LEMMA NextInv == GreeterInv /\ [Next]_vars => GreeterInv'
<1> SUFFICES ASSUME GreeterInv, [Next]_vars PROVE GreeterInv'
  OBVIOUS
<1> USE DEF GreeterInv
<1>0. request \in Message
  BY DEF TypesOK
<1>1. ASSUME NEW v \in Names, SetName(v) PROVE GreeterInv'
  <2>1. v \in Text
    <3>1. <<>> \in Seq(Words) /\ \A w \in Words : <<w>> \in Seq(Words)
      OBVIOUS
    <3> QED
      BY <3>1 DEF Names, Text
  <2> QED
    BY <1>0, <1>1, <2>1, SetFieldKeepsType, ChangeStep DEF SetName
<1>2. CASE ClearName
  BY <1>0, <1>2, SetFieldKeepsType, ChangeStep DEF ClearName
<1>3. CASE TakeName
  BY <1>0, <1>3, SetFieldKeepsType, ChangeStep DEF TakeName, Take
<1>4. ASSUME NEW w \in Words, ExtendName(w) PROVE GreeterInv'
  <2>1. Mut(request) \in Message
    BY <1>0, SetFieldKeepsType DEF Mut
  <2>2. Append(Get(Mut(request)), w) \in Text
    BY <2>1, SetFieldKeepsType DEF Text
  <2> QED
    BY <1>0, <1>4, <2>2, SetFieldKeepsType, ChangeStep DEF ExtendName
<1>5. CASE ClearAll
  BY <1>0, <1>5, SetFieldKeepsType, ChangeStep DEF ClearAll
<1>6. ASSUME NEW bytes \in Inputs, Merge(bytes) PROVE GreeterInv'
  <2>1. bytes \in Seq(WireField)
    BY InputsAssumption
  <2> QED
    BY <1>0, <1>6, <2>1, ReadsBack, ChangeStep DEF Merge
<1>7. ASSUME NEW bytes \in Inputs, OtherClient(bytes) PROVE GreeterInv'
  BY <1>7, InputsAssumption
  DEF OtherClient, TypesOK, RequestIsWritten, AnswerIsWritten, ReplyIsRead
<1>8. CASE SayHello
  <2>1. PICK s \in Written(request) : wire' = s
    BY <1>8 DEF SayHello
  <2>2. s \in Seq(WireField) /\ ComputeSize(request) \in Nat
    BY <1>0, <2>1, WritesAll
  <2>3. /\ request' \in Message
        /\ request'.cached_size = ComputeSize(request)
        /\ request'.field = request.field /\ request'.unknown = request.unknown
    BY <1>0, <1>8, <2>2 DEF SayHello, Sized, Message
  <2>4. Written(request') = Written(request) /\ ComputeSize(request') = ComputeSize(request)
    BY <2>3 DEF Written, ComputeSize, UnknownWritten, UnknownSize, Has, Get
  <2>5. TypesOK'
    BY <1>8, <2>1, <2>2, <2>3 DEF TypesOK, SayHello
  <2>6. RequestIsWritten'
    BY <2>1, <2>3, <2>4 DEF RequestIsWritten
  <2> QED
    BY <1>8, <2>5, <2>6 DEF SayHello, AnswerIsWritten, ReplyIsRead
<1>9. CASE OnMessage
  <2>1. out' \in Seq(WireField)
    BY <1>9, AnswersAreFields DEF OnMessage, TypesOK
  <2>2. AnswerIsWritten'
    BY <1>9 DEF OnMessage, AnswerIsWritten, ReadFails, Answers, EchoesBytes
  <2> QED
    BY <1>9, <2>1, <2>2 DEF OnMessage, TypesOK, RequestIsWritten, ReplyIsRead
<1>10. CASE OnMessagePanics
  BY <1>10 DEF OnMessagePanics, TypesOK, RequestIsWritten, AnswerIsWritten, ReplyIsRead
<1>11. CASE Return
  <2>1. AnswerIsWritten'
    BY <1>11 DEF Return, AnswerIsWritten, ReadFails, Answers, EchoesBytes
  <2> QED
    BY <1>11, <2>1 DEF Return, TypesOK, RequestIsWritten, ReplyIsRead
<1>12. CASE ReturnPanics
  BY <1>12 DEF ReturnPanics, TypesOK, RequestIsWritten, AnswerIsWritten, ReplyIsRead
<1>13. CASE UNCHANGED vars
  <2>1. AnswerIsWritten'
    BY <1>13 DEF vars, AnswerIsWritten, ReadFails, Answers, EchoesBytes
  <2> QED
    BY <1>13, <2>1 DEF vars, TypesOK, RequestIsWritten, ReplyIsRead
<1> QED
  BY <1>1, <1>2, <1>3, <1>4, <1>5, <1>6, <1>7, <1>8, <1>9, <1>10, <1>11, <1>12, <1>13 DEF Next

\* The bytes of a request, the reply and what the method has answered are what
\* the two programs have written and read.
THEOREM ExchangeIsKept == Spec => []GreeterInv
  BY InitInv, NextInv, PTL DEF Spec

-----------------------------------------------------------------------------
(* The properties *)

LEMMA InvRequestSurvives == GreeterInv => RequestSurvives
<1> SUFFICES ASSUME GreeterInv, at = "sent"
             PROVE  /\ ~ MergeFails(wire)
                    /\ FieldIn(wire) = request.field
                    /\ UnknownIn(wire) = request.unknown
                    /\ SizeOf(wire) = request.cached_size
  BY DEF RequestSurvives
<1>1. request \in Message /\ wire \in Written(request)
      /\ request.cached_size = ComputeSize(request)
  BY DEF GreeterInv, TypesOK, RequestIsWritten
<1> QED
  BY <1>1, WritesAll

\* What the handler of a protobuf method reads of the bytes of the request
LEMMA RequestIsRead ==
  ASSUME NEW bytes \in Seq(WireField), ~ MergeFails(bytes)
  PROVE  /\ ReadRequest(bytes) \in Message
         /\ ReadRequest(bytes).field = FieldIn(bytes)
         /\ ReadRequest(bytes).unknown = UnknownIn(bytes)
  BY ReadsBack, NewIsMessage DEF ReadRequest

LEMMA InvGreetsByName == GreeterInv => GreetsByName
<1> SUFFICES ASSUME GreeterInv, at = "returned", method.handler = "SayHello"
             PROVE  reply.field = Some(<<Hello>> \o (IF FieldIn(wire) \in {None, Some(<<>>)}
                                                     THEN <<World>> ELSE FieldIn(wire)[1]))
  BY DEF GreetsByName
<1>1. wire \in Seq(WireField) /\ out \in Seq(WireField) /\ ~ MergeFails(out)
      /\ reply = MergeFrom(New, out)
  BY DEF GreeterInv, TypesOK, ReplyIsRead, ReadReply
<1>2. method.marshaller = "protobuf"
  BY DEF GreeterInv, TypesOK, ServerMethods
<1>3. ~ MergeFails(wire)
  BY <1>2 DEF GreeterInv, AnswerIsWritten, ReadFails
<1>4. PICK m : m = ReadRequest(wire)
  OBVIOUS
<1>5. m \in Message /\ m.field = FieldIn(wire)
  BY <1>1, <1>3, <1>4, RequestIsRead
<1>6. out \in Written(GreetingReply(Get(m)))
  BY <1>4 DEF GreeterInv, AnswerIsWritten, Answers, EchoesBytes
<1>7. PICK name : name = Get(m)
  OBVIOUS
<1>8. name \in Text /\ name = (IF FieldIn(wire) = None THEN <<>> ELSE FieldIn(wire)[1])
  BY <1>5, <1>7, SetFieldKeepsType DEF Get, Has
<1>9. FieldIn(out) = Some(Greeting(name))
  BY <1>6, <1>7, <1>8, GreetingIsText, WritesAll
<1>10. reply.field = Some(Greeting(name))
  BY <1>1, <1>9, ReadsBack
<1>11. name = <<>> <=> FieldIn(wire) \in {None, Some(<<>>)}
  BY <1>5, <1>8 DEF Message, None, Some
<1>12. name # <<>> => name = FieldIn(wire)[1]
  BY <1>8
<1> QED
  BY <1>10, <1>11, <1>12 DEF Greeting

LEMMA InvEchoKeepsFields == GreeterInv => EchoKeepsFields
<1> SUFFICES ASSUME GreeterInv, at = "returned", method.handler = "echo"
             PROVE  reply.field = FieldIn(wire) /\ reply.unknown = UnknownIn(wire)
  BY DEF EchoKeepsFields
<1>1. wire \in Seq(WireField) /\ out \in Seq(WireField) /\ ~ MergeFails(out)
      /\ reply = MergeFrom(New, out)
  BY DEF GreeterInv, TypesOK, ReplyIsRead, ReadReply
<1>2. reply.field = FieldIn(out) /\ reply.unknown = UnknownIn(out)
  BY <1>1, ReadsBack
<1>3. CASE EchoesBytes
  <2>1. out = wire
    BY <1>3 DEF GreeterInv, AnswerIsWritten, Answers
  <2> QED
    BY <1>2, <2>1
<1>4. CASE ~ EchoesBytes
  <2>1. method.marshaller = "protobuf"
    BY <1>4 DEF EchoesBytes
  <2>2. ~ MergeFails(wire)
    BY <2>1 DEF GreeterInv, AnswerIsWritten, ReadFails
  <2>3. PICK m : m = ReadRequest(wire)
    OBVIOUS
  <2>4. m \in Message /\ m.field = FieldIn(wire) /\ m.unknown = UnknownIn(wire)
    BY <1>1, <2>2, <2>3, RequestIsRead
  <2>5. out \in Written(m)
    BY <1>4, <2>3 DEF GreeterInv, AnswerIsWritten, Answers
  <2> QED
    BY <1>2, <2>4, <2>5, WritesAll
<1> QED
  BY <1>3, <1>4

\* However the user has built a request, also by merging bytes of which a part
\* cannot be read, what the client sends of it can be read, says all that is in
\* it and is as long as compute_size said.
THEOREM RequestsSurvive == Spec => []RequestSurvives
  BY ExchangeIsKept, InvRequestSurvives, PTL

\* Whoever made the bytes of the request, a client that gets an answer of
\* SayHello gets the greeting of the name the bytes say last.
THEOREM GreetingsAreByName == Spec => []GreetsByName
  BY ExchangeIsKept, InvGreetsByName, PTL

\* Through any of the marshallers an echo that is read as a reply says all that
\* the bytes of the request said, known here or not, but for unknown groups.
THEOREM EchoesKeepFields == Spec => []EchoKeepsFields
  BY ExchangeIsKept, InvEchoKeepsFields, PTL
=============================================================================
