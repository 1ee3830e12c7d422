--------------------------- MODULE SeqFilterProofs ---------------------------
(***************************************************************************)
(* Facts about filtering a sequence and counting in it, for every sequence *)
(* and every set: the lemmas that the proofs about queues and logs cite.   *)
(*                                                                         *)
(* They need induction.  It is done over sets here: the naturals are well  *)
(* founded (a theorem of the library), so a set of naturals that holds 0   *)
(* and every successor has no least exception, and what is claimed of      *)
(* every sequence is that the set of those it holds of is all of them.     *)
(***************************************************************************)
EXTENDS SeqFilter, SequencesExt, SequenceTheorems, FiniteSetTheorems, WellFoundedInduction, TLAPS

\* Induction over the naturals, for a set: one that holds 0 and every successor of its members
\* holds them all.  (The induction theorems of the library take a predicate, which cannot be
\* instantiated; that the order of the naturals is well founded can.)
LEMMA NatSetInduction ==
  ASSUME NEW T, 0 \in T, \A n \in Nat : n \in T => n + 1 \in T
  PROVE  Nat \subseteq T
<1> DEFINE R == OpToRel(<, Nat)
<1>1. IsWellFoundedOn(R, Nat)
  BY NatLessThanWellFounded
<1>2. \A a, b \in Nat : (<<a, b>> \in R) <=> (a < b)
  BY DEF OpToRel
<1> DEFINE U == Nat \ T
<1>3. U \subseteq Nat OBVIOUS
<1>4. ASSUME U # {} PROVE FALSE
  <2> HIDE DEF U, R
  <2>1. \E x \in U : \A y \in U : ~ (<<y, x>> \in R)
    BY <1>1, <1>4, <1>3, WFMin
  <2>2. PICK x \in U : \A y \in U : ~ (<<y, x>> \in R)
    BY <2>1
  <2>6. x \in Nat /\ x # 0 BY DEF U
  <2>7. x - 1 \in Nat /\ x - 1 + 1 = x
    BY <2>6
  <2>8. x - 1 < x BY <2>6
  <2>9. <<x - 1, x>> \in R
    BY <1>2, <2>6, <2>7, <2>8
  <2>10. x - 1 \notin U
    BY <2>2, <2>9
  <2>11. x - 1 \in T BY <2>7, <2>10 DEF U
  <2>12. x \in T BY <2>7, <2>11
  <2> QED BY <2>12 DEF U
<1> QED BY <1>4

\* Induction over sequences, for a set: one that holds the empty sequence and, with a sequence,
\* every extension of it by one element, holds them all.
LEMMA SeqSetInduction ==
  ASSUME NEW M, NEW T, <<>> \in T,
         \A s \in Seq(M), m \in M : s \in T => Append(s, m) \in T
  PROVE  Seq(M) \subseteq T
<1> DEFINE U == {n \in Nat : \A s \in Seq(M) : Len(s) = n => s \in T}
<1>1. 0 \in U
  <2>1. \A s \in Seq(M) : Len(s) = 0 => s = <<>> OBVIOUS
  <2> QED BY <2>1
<1>2. ASSUME NEW n \in Nat, n \in U PROVE n + 1 \in U
  <2>1. SUFFICES ASSUME NEW s \in Seq(M), Len(s) = n + 1 PROVE s \in T
    BY <1>2
  <2>2. s # <<>> BY <2>1, <1>2
  <2>3. PICK t \in Seq(M), m \in M : s = Append(t, m)
    BY <2>2, SequenceEmptyOrAppend
  <2>4. Len(t) = n BY <2>1, <2>3
  <2>5. t \in T BY <2>4, <1>2
  <2> QED BY <2>3, <2>5
<1>3. Nat \subseteq U
  <2> HIDE DEF U
  <2> QED BY <1>1, <1>2, NatSetInduction
<1>4. SUFFICES ASSUME NEW s \in Seq(M) PROVE s \in T OBVIOUS
<1>5. Len(s) \in Nat OBVIOUS
<1> QED BY <1>3, <1>5

-----------------------------------------------------------------------------
(* Filter. *)

\* What Kept is, up to N.
Grown(s, S, f, N) == f = [n \in 0..N |->
        IF n = 0 THEN <<>>
        ELSE IF s[n] \in S THEN Append(f[n - 1], s[n]) ELSE f[n - 1]]

\* A recursive function is whatever satisfies its equation, if anything does: something satisfies
\* the equation of Kept.
LEMMA KeptExists ==
  ASSUME NEW M, NEW S, NEW s \in Seq(M)
  PROVE  \E f : Grown(s, S, f, Len(s))
<1> DEFINE T == {N \in Nat : \E f : Grown(s, S, f, N)}
<1>1. 0 \in T
  <2> DEFINE f == [n \in 0..0 |-> <<>>]
  <2>1. Grown(s, S, f, 0) BY DEF Grown
  <2> QED BY <2>1
<1>2. ASSUME NEW N \in Nat, N \in T PROVE N + 1 \in T
  <2>1. PICK f : Grown(s, S, f, N) BY <1>2
  <2> DEFINE last == IF s[N+1] \in S THEN Append(f[N], s[N+1]) ELSE f[N]
             g == [n \in 0..(N+1) |-> IF n = N + 1 THEN last ELSE f[n]]
  <2>2. g[N+1] = last OBVIOUS
  <2>3. \A n \in 0..N : g[n] = f[n] BY <1>2
  <2>4. \A n \in 0..N : f[n] = IF n = 0 THEN <<>> ELSE IF s[n] \in S THEN Append(f[n-1], s[n]) ELSE f[n-1]
    BY <2>1 DEF Grown
  <2> HIDE DEF last
  <2>5. \A n \in 0..(N+1) : g[n] = IF n = 0 THEN <<>> ELSE IF s[n] \in S THEN Append(g[n-1], s[n]) ELSE g[n-1]
    <3> TAKE n \in 0..(N+1)
    <3>1. CASE n = N + 1
      <4>1. n - 1 = N /\ N \in 0..N /\ n # 0 BY <3>1
      <4>2. g[n - 1] = f[N] BY <4>1, <2>3
      <4> HIDE DEF g
      <4> QED BY <3>1, <4>1, <4>2, <2>2 DEF last
    <3>2. CASE n # N + 1
      <4>1. n \in 0..N BY <3>2
      <4>2. n # 0 => n - 1 \in 0..N BY <4>1
      <4>3. g[n] = f[n] /\ (n # 0 => g[n - 1] = f[n - 1]) BY <4>1, <4>2, <2>3
      <4> HIDE DEF g
      <4> QED BY <4>1, <4>3, <2>4
    <3> QED BY <3>1, <3>2
  <2>6. g = [n \in 0..(N+1) |-> g[n]] OBVIOUS
  <2>7. Grown(s, S, g, N + 1)
    <3> HIDE DEF g
    <3> QED BY <2>5, <2>6 DEF Grown
  <2> QED BY <2>7
<1>3. Nat \subseteq T
  <2> HIDE DEF T
  <2> QED BY <1>1, <1>2, NatSetInduction
<1> QED BY <1>3

\* Kept satisfies its equation ...
LEMMA KeptDef ==
  ASSUME NEW M, NEW S, NEW s \in Seq(M)
  PROVE  Grown(s, S, Kept(s, S), Len(s))
<1>1. Kept(s, S) = CHOOSE f : Grown(s, S, f, Len(s))
  BY DEF Kept, Grown
<1> QED BY <1>1, KeptExists

\* ... which is: nothing of the first 0 elements, and of n what is kept of n - 1 and the n-th if it is in S.
LEMMA KeptStep ==
  ASSUME NEW M, NEW S, NEW s \in Seq(M)
  PROVE  /\ Kept(s, S)[0] = <<>>
         /\ \A n \in 1..Len(s) : Kept(s, S)[n] = IF s[n] \in S THEN Append(Kept(s, S)[n - 1], s[n])
                                                 ELSE Kept(s, S)[n - 1]
<1> DEFINE f == Kept(s, S)
<1>1. f = [n \in 0..Len(s) |->
        IF n = 0 THEN <<>>
        ELSE IF s[n] \in S THEN Append(f[n - 1], s[n]) ELSE f[n - 1]]
  BY KeptDef DEF Grown
<1>2. Len(s) \in Nat OBVIOUS
<1> HIDE DEF f
<1>3. f[0] = <<>> BY <1>1, <1>2
<1>4. ASSUME NEW n \in 1..Len(s)
      PROVE f[n] = IF s[n] \in S THEN Append(f[n - 1], s[n]) ELSE f[n - 1]
  <2>1. n \in 0..Len(s) /\ n # 0 BY <1>2
  <2>2. \A k \in 0..Len(s) : f[k] = IF k = 0 THEN <<>>
                    ELSE IF s[k] \in S THEN Append(f[k - 1], s[k]) ELSE f[k - 1]
    BY <1>1
  <2> QED BY <2>1, <2>2
<1> QED BY <1>3, <1>4 DEF f

\* Nothing is kept of nothing.
LEMMA FilterEmpty == \A S : Filter(<<>>, S) = <<>>
<1> TAKE S
<1> DEFINE e == <<>>
<1>1. e \in Seq({}) /\ Len(e) = 0 OBVIOUS
<1> HIDE DEF e
<1>2. Kept(e, S)[0] = <<>>
  <2> DEFINE Nothing == {}
  <2>1. e \in Seq(Nothing) BY <1>1
  <2> HIDE DEF Nothing
  <2>2. /\ Kept(e, S)[0] = <<>>
        /\ \A n \in 1..Len(e) : Kept(e, S)[n] = IF e[n] \in S THEN Append(Kept(e, S)[n - 1], e[n])
                                                ELSE Kept(e, S)[n - 1]
    BY <2>1, KeptStep
  <2> QED BY <2>2
<1>3. Filter(e, S) = <<>> BY <1>1, <1>2 DEF Filter
<1> QED BY <1>3 DEF e

\* An element appended is kept at the end, or not at all.
LEMMA FilterAppend ==
  ASSUME NEW M, NEW S, NEW s \in Seq(M), NEW m \in M
  PROVE  Filter(Append(s, m), S) = IF m \in S THEN Append(Filter(s, S), m) ELSE Filter(s, S)
<1> DEFINE t == Append(s, m)
           f == Kept(s, S)
           g == Kept(t, S)
           N == Len(s)
           T == {n \in Nat : n <= N => f[n] = g[n]}
<1>1. t \in Seq(M) /\ Len(t) = N + 1 /\ t[N + 1] = m /\ N \in Nat OBVIOUS
<1>2. \A n \in 1..N : t[n] = s[n] OBVIOUS
<1>3. f[0] = <<>> /\ g[0] = <<>>
  <2> HIDE DEF t
  <2> QED BY <1>1, KeptStep
<1>4. \A n \in 1..N : f[n] = IF s[n] \in S THEN Append(f[n - 1], s[n]) ELSE f[n - 1]
  BY KeptStep
<1>5. \A n \in 1..N + 1 : g[n] = IF t[n] \in S THEN Append(g[n - 1], t[n]) ELSE g[n - 1]
  <2> HIDE DEF t
  <2> QED BY <1>1, KeptStep
<1> HIDE DEF t, f, g, N
<1>6. 0 \in T BY <1>3
<1>7. ASSUME NEW n \in Nat, n \in T PROVE n + 1 \in T
  <2>1. SUFFICES ASSUME n + 1 <= N PROVE f[n + 1] = g[n + 1] OBVIOUS
  <2>2. n + 1 \in 1..N /\ n + 1 \in 1..N + 1 /\ n + 1 - 1 = n BY <2>1, <1>1
  <2>3. f[n] = g[n] BY <1>7, <2>1, <1>1
  <2>4. f[n + 1] = IF s[n + 1] \in S THEN Append(f[n], s[n + 1]) ELSE f[n] BY <1>4, <2>2
  <2>5. g[n + 1] = IF t[n + 1] \in S THEN Append(g[n], t[n + 1]) ELSE g[n] BY <1>5, <2>2
  <2>6. s[n + 1] = t[n + 1] BY <1>2, <2>2
  <2> QED BY <2>3, <2>4, <2>5, <2>6
<1>8. Nat \subseteq T
  <2> HIDE DEF T
  <2> QED BY <1>6, <1>7, NatSetInduction
<1>9. f[N] = g[N] BY <1>1, <1>8
<1>10. g[N + 1] = IF t[N + 1] \in S THEN Append(g[N], t[N + 1]) ELSE g[N]
  <2> DEFINE k == N + 1
  <2>1. k \in 1..k /\ k - 1 = N BY <1>1
  <2>2. \A n \in 1..k : g[n] = IF t[n] \in S THEN Append(g[n - 1], t[n]) ELSE g[n - 1] BY <1>5
  <2> HIDE DEF k
  <2>3. g[k] = IF t[k] \in S THEN Append(g[k - 1], t[k]) ELSE g[k - 1] BY <2>2, <2>1
  <2> QED BY <2>3, <2>1 DEF k
<1>11. Filter(t, S) = g[N + 1] BY <1>1 DEF Filter, g
<1>12. Filter(s, S) = f[N] BY DEF Filter, f, N
<1> QED BY <1>1, <1>9, <1>10, <1>11, <1>12 DEF t

\* What is kept is of the kind of the sequence, and is in S.
LEMMA FilterType ==
  ASSUME NEW M, NEW S, NEW s \in Seq(M)
  PROVE  Filter(s, S) \in Seq(M \cap S) /\ Filter(s, S) \in Seq(M)
<1> DEFINE T == {t \in Seq(M) : Filter(t, S) \in Seq(M \cap S)}
<1>1. <<>> \in T
  <2>1. Filter(<<>>, S) = <<>> BY FilterEmpty
  <2>2. <<>> \in Seq(M) /\ <<>> \in Seq(M \cap S) OBVIOUS
  <2> QED BY <2>1, <2>2
<1>2. ASSUME NEW t \in Seq(M), NEW m \in M, t \in T PROVE Append(t, m) \in T
  <2>1. Append(t, m) \in Seq(M) OBVIOUS
  <2>2. Filter(t, S) \in Seq(M \cap S) BY <1>2
  <2>3. m \in S => Append(Filter(t, S), m) \in Seq(M \cap S) BY <2>2
  <2>5. Filter(Append(t, m), S) = IF m \in S THEN Append(Filter(t, S), m) ELSE Filter(t, S)
    BY FilterAppend
  <2>4. Filter(Append(t, m), S) \in Seq(M \cap S) BY <2>2, <2>3, <2>5
  <2> QED BY <2>1, <2>4
<1>3. Seq(M) \subseteq T
  <2> HIDE DEF T
  <2> QED BY <1>1, <1>2, SeqSetInduction
<1>4. Filter(s, S) \in Seq(M \cap S) BY <1>3
<1>5. Filter(s, S) \in Seq(M)
  <2>1. M \cap S \subseteq M OBVIOUS
  <2> QED BY <1>4, <2>1, SeqMonotonic
<1> QED BY <1>4, <1>5

\* Two sequences one after the other are filtered one after the other.
LEMMA FilterConcat ==
  ASSUME NEW M, NEW S, NEW s \in Seq(M), NEW t \in Seq(M)
  PROVE  Filter(s \o t, S) = Filter(s, S) \o Filter(t, S)
<1> DEFINE T == {u \in Seq(M) : Filter(s \o u, S) = Filter(s, S) \o Filter(u, S)}
<1>0. Filter(s, S) \in Seq(M) BY FilterType
<1>1. <<>> \in T
  <2>1. s \o <<>> = s /\ Filter(s, S) \o <<>> = Filter(s, S) /\ <<>> \in Seq(M) BY <1>0
  <2>2. Filter(<<>>, S) = <<>> BY FilterEmpty
  <2> QED BY <2>1, <2>2
<1>2. ASSUME NEW u \in Seq(M), NEW m \in M, u \in T PROVE Append(u, m) \in T
  <2> DEFINE a == Filter(s, S)
             b == Filter(u, S)
  <2>1. a \in Seq(M) /\ b \in Seq(M) BY FilterType
  <2>2. s \o Append(u, m) = Append(s \o u, m) /\ s \o u \in Seq(M) /\ Append(u, m) \in Seq(M) OBVIOUS
  <2>3. Filter(s \o u, S) = a \o b BY <1>2
  <2>4. Filter(Append(s \o u, m), S) = IF m \in S THEN Append(a \o b, m) ELSE a \o b
    <3> DEFINE v == s \o u
    <3>1. v \in Seq(M) BY <2>2
    <3> HIDE DEF v
    <3>2. Filter(Append(v, m), S) = IF m \in S THEN Append(Filter(v, S), m) ELSE Filter(v, S)
      BY <3>1, FilterAppend
    <3> QED BY <3>2, <2>3 DEF v
  <2>5. Filter(Append(u, m), S) = IF m \in S THEN Append(b, m) ELSE b
    BY FilterAppend
  <2> HIDE DEF a, b
  <2>6. a \o Append(b, m) = Append(a \o b, m) BY <2>1
  <2> QED BY <2>2, <2>4, <2>5, <2>6 DEF a
<1>3. Seq(M) \subseteq T
  <2> HIDE DEF T
  <2> QED BY <1>1, <1>2, SeqSetInduction
<1> QED BY <1>3

\* The elements of a sequence, as it is built up and taken down.
LEMMA ToSetFacts ==
  ASSUME NEW M
  PROVE  /\ ToSet(<<>>) = {}
         /\ \A s \in Seq(M) : ToSet(s) \subseteq M /\ ToSet(s) = {s[i] : i \in 1..Len(s)}
         /\ \A s \in Seq(M) : \A m \in M : ToSet(Append(s, m)) = ToSet(s) \cup {m}
         /\ \A s, t \in Seq(M) : ToSet(s \o t) = ToSet(s) \cup ToSet(t)
         /\ \A s \in Seq(M) : s # <<>> => ToSet(s) = {Head(s)} \cup ToSet(Tail(s))
         /\ \A s \in Seq(M) : ToSet(s) = {} <=> s = <<>>
<1>1. ToSet(<<>>) = {} BY DEF ToSet
<1>2. ASSUME NEW s \in Seq(M) PROVE ToSet(s) \subseteq M /\ ToSet(s) = {s[i] : i \in 1..Len(s)}
  BY DEF ToSet
<1>3. ASSUME NEW s \in Seq(M), NEW m \in M PROVE ToSet(Append(s, m)) = ToSet(s) \cup {m}
  <2> DEFINE t == Append(s, m)
  <2>1. t \in Seq(M) /\ Len(t) = Len(s) + 1 /\ t[Len(s) + 1] = m /\ Len(s) \in Nat OBVIOUS
  <2>2. \A i \in 1..Len(s) : t[i] = s[i] OBVIOUS
  <2> HIDE DEF t
  <2>3. ToSet(t) = {t[i] : i \in 1..Len(t)} BY <1>2, <2>1
  <2>4. ToSet(s) = {s[i] : i \in 1..Len(s)} BY <1>2
  <2>5. ToSet(t) = ToSet(s) \cup {m} BY <2>1, <2>2, <2>3, <2>4
  <2> QED BY <2>5 DEF t
<1>4. ASSUME NEW s \in Seq(M), NEW t \in Seq(M) PROVE ToSet(s \o t) = ToSet(s) \cup ToSet(t)
  <2> DEFINE u == s \o t
  <2>1. u \in Seq(M) /\ Len(u) = Len(s) + Len(t) /\ Len(s) \in Nat /\ Len(t) \in Nat OBVIOUS
  <2>2. \A i \in 1..Len(s) : u[i] = s[i] OBVIOUS
  <2>3. \A i \in 1..Len(t) : u[Len(s) + i] = t[i] OBVIOUS
  <2>9. \A i \in 1..Len(u) : i > Len(s) => u[i] = t[i - Len(s)] /\ i - Len(s) \in 1..Len(t) OBVIOUS
  <2> HIDE DEF u
  <2>4. ToSet(u) = {u[i] : i \in 1..Len(u)} BY <1>2, <2>1
  <2>5. ToSet(s) = {s[i] : i \in 1..Len(s)} BY <1>2
  <2>6. ToSet(t) = {t[i] : i \in 1..Len(t)} BY <1>2
  <2>7. ToSet(u) \subseteq ToSet(s) \cup ToSet(t)
    <3> SUFFICES ASSUME NEW i \in 1..Len(u) PROVE u[i] \in ToSet(s) \cup ToSet(t) BY <2>4
    <3>1. CASE i <= Len(s) BY <3>1, <2>1, <2>2, <2>5
    <3>2. CASE i > Len(s) BY <3>2, <2>1, <2>9, <2>6
    <3> QED BY <3>1, <3>2, <2>1
  <2>8. ToSet(s) \cup ToSet(t) \subseteq ToSet(u)
    <3>1. \A i \in 1..Len(s) : i \in 1..Len(u) BY <2>1
    <3>2. \A i \in 1..Len(t) : Len(s) + i \in 1..Len(u) BY <2>1
    <3>3. ToSet(s) \subseteq ToSet(u) BY <3>1, <2>2, <2>4, <2>5
    <3>4. ToSet(t) \subseteq ToSet(u) BY <3>2, <2>3, <2>4, <2>6
    <3> QED BY <3>3, <3>4
  <2> QED BY <2>7, <2>8 DEF u
<1>5. ASSUME NEW s \in Seq(M), s # <<>> PROVE ToSet(s) = {Head(s)} \cup ToSet(Tail(s))
  <2>1. s = <<Head(s)>> \o Tail(s) /\ Head(s) \in M /\ Tail(s) \in Seq(M) BY <1>5
  <2>2. <<Head(s)>> \in Seq(M) BY <2>1
  <2>3. ToSet(<<Head(s)>>) = {Head(s)} BY DEF ToSet
  <2> DEFINE h == <<Head(s)>>
  <2> HIDE DEF h
  <2>4. h \in Seq(M) BY <2>2 DEF h
  <2>5. ToSet(h \o Tail(s)) = ToSet(h) \cup ToSet(Tail(s)) BY <2>1, <2>4, <1>4
  <2> QED BY <2>1, <2>3, <2>5 DEF h
<1>6. ASSUME NEW s \in Seq(M) PROVE ToSet(s) = {} <=> s = <<>>
  <2>1. CASE s = <<>> BY <1>1, <2>1
  <2>2. CASE s # <<>> BY <1>5, <2>2
  <2> QED BY <2>1, <2>2
<1> QED BY <1>1, <1>2, <1>3, <1>4, <1>5, <1>6
\* The elements that are kept are those in S.
LEMMA FilterElements ==
  ASSUME NEW M, NEW S, NEW s \in Seq(M)
  PROVE  ToSet(Filter(s, S)) = ToSet(s) \cap S
<1> DEFINE T == {t \in Seq(M) : ToSet(Filter(t, S)) = ToSet(t) \cap S}
<1>1. <<>> \in T
  <2>1. <<>> \in Seq(M) OBVIOUS
  <2>2. ToSet(<<>>) = {} BY ToSetFacts
  <2> QED BY <2>1, <2>2, FilterEmpty
<1>2. ASSUME NEW t \in Seq(M), NEW m \in M, t \in T PROVE Append(t, m) \in T
  <2>1. Append(t, m) \in Seq(M) OBVIOUS
  <2>2. Filter(Append(t, m), S) = IF m \in S THEN Append(Filter(t, S), m) ELSE Filter(t, S)
    BY FilterAppend
  <2>3. ToSet(Append(t, m)) = ToSet(t) \cup {m} BY ToSetFacts
  <2>4. Filter(t, S) \in Seq(M) BY FilterType
  <2>5. ToSet(Append(Filter(t, S), m)) = ToSet(Filter(t, S)) \cup {m} BY <2>4, ToSetFacts
  <2>6. ToSet(Filter(t, S)) = ToSet(t) \cap S BY <1>2
  <2>7. ToSet(Filter(Append(t, m), S)) = ToSet(Append(t, m)) \cap S
    <3>1. CASE m \in S BY <3>1, <2>2, <2>3, <2>5, <2>6
    <3>2. CASE m \notin S BY <3>2, <2>2, <2>3, <2>6
    <3> QED BY <3>1, <3>2
  <2> QED BY <2>1, <2>7
<1>3. Seq(M) \subseteq T
  <2> HIDE DEF T
  <2> QED BY <1>1, <1>2, SeqSetInduction
<1> QED BY <1>3

\* A sequence of elements in S is kept as it is.
LEMMA FilterAll ==
  ASSUME NEW M, NEW S, NEW s \in Seq(M), ToSet(s) \subseteq S
  PROVE  Filter(s, S) = s
<1> DEFINE T == {t \in Seq(M) : ToSet(t) \subseteq S => Filter(t, S) = t}
<1>1. <<>> \in T
  <2>1. <<>> \in Seq(M) OBVIOUS
  <2> QED BY <2>1, FilterEmpty
<1>2. ASSUME NEW t \in Seq(M), NEW m \in M, t \in T PROVE Append(t, m) \in T
  <2>1. Append(t, m) \in Seq(M) OBVIOUS
  <2>2. Filter(Append(t, m), S) = IF m \in S THEN Append(Filter(t, S), m) ELSE Filter(t, S)
    BY FilterAppend
  <2>3. ToSet(Append(t, m)) = ToSet(t) \cup {m} BY ToSetFacts
  <2>4. ASSUME ToSet(Append(t, m)) \subseteq S PROVE Filter(Append(t, m), S) = Append(t, m)
    <3>1. m \in S /\ ToSet(t) \subseteq S BY <2>3, <2>4
    <3>2. Filter(t, S) = t BY <1>2, <3>1
    <3> QED BY <3>1, <3>2, <2>2
  <2> QED BY <2>1, <2>4
<1>3. Seq(M) \subseteq T
  <2> HIDE DEF T
  <2> QED BY <1>1, <1>2, SeqSetInduction
<1> QED BY <1>3

-----------------------------------------------------------------------------
(* Count. *)

\* A count is a natural number, and 0 for what does not occur.
LEMMA CountType ==
  ASSUME NEW M, NEW s \in Seq(M), NEW m
  PROVE  /\ Count(m, s) \in Nat
         /\ IsFiniteSet({i \in DOMAIN s : s[i] = m})
         /\ Count(m, s) = 0 <=> m \notin ToSet(s)
<1> DEFINE I == {i \in DOMAIN s : s[i] = m}
<1>1. IsFiniteSet(1..Len(s)) BY FS_Interval
<1>2. DOMAIN s = 1..Len(s) OBVIOUS
<1>3. I \in SUBSET (1..Len(s)) BY <1>2
<1>4. IsFiniteSet(I)
  <2> HIDE DEF I
  <2> QED BY <1>1, <1>3, FS_Subset
<1>5. Cardinality(I) \in Nat
  <2> HIDE DEF I
  <2> QED BY <1>4, FS_CardinalityType
<1>6. Cardinality(I) = 0 <=> I = {}
  <2> HIDE DEF I
  <2> QED BY <1>4, FS_EmptySet
<1>7. I = {} <=> m \notin ToSet(s) BY DEF ToSet
<1>8. Count(m, s) = Cardinality(I) BY DEF Count
<1> QED BY <1>4, <1>5, <1>6, <1>7, <1>8

\* Nothing occurs in nothing.
LEMMA CountEmpty == \A m : Count(m, <<>>) = 0
<1> TAKE m
<1>1. <<>> \in Seq({}) OBVIOUS
<1>2. m \notin ToSet(<<>>) BY ToSetFacts
<1> QED BY <1>1, <1>2, CountType

\* An element appended occurs once more, and no other does.
LEMMA CountAppend ==
  ASSUME NEW M, NEW s \in Seq(M), NEW e \in M, NEW m
  PROVE  Count(m, Append(s, e)) = Count(m, s) + (IF e = m THEN 1 ELSE 0)
<1> DEFINE t == Append(s, e)
           n == Len(s) + 1
           I == {i \in DOMAIN s : s[i] = m}
           J == {i \in DOMAIN t : t[i] = m}
<1>1. Len(s) \in Nat /\ DOMAIN s = 1..Len(s) OBVIOUS
<1>2. DOMAIN t = 1..n /\ t[n] = e /\ \A i \in 1..Len(s) : t[i] = s[i] OBVIOUS
<1>3. IsFiniteSet(I) /\ Cardinality(I) \in Nat BY CountType DEF Count
<1>4. n \notin I BY <1>1
<1>5. e = m => J = I \cup {n}
  <2> HIDE DEF t
  <2> QED BY <1>1, <1>2
<1>6. e # m => J = I
  <2> HIDE DEF t
  <2> QED BY <1>1, <1>2
<1>7. Count(m, t) = Cardinality(J) /\ Count(m, s) = Cardinality(I) BY DEF Count
<1> HIDE DEF t, I, J, n
<1>8. Cardinality(I \cup {n}) = Cardinality(I) + 1
  BY <1>3, <1>4, FS_AddElement
<1>9. CASE e = m BY <1>3, <1>5, <1>7, <1>8, <1>9 DEF t
<1>10. CASE e # m BY <1>3, <1>6, <1>7, <1>10 DEF t
<1> QED BY <1>9, <1>10

\* Two sequences one after the other: the counts add up.
LEMMA CountConcat ==
  ASSUME NEW M, NEW s \in Seq(M), NEW t \in Seq(M), NEW m
  PROVE  Count(m, s \o t) = Count(m, s) + Count(m, t)
<1> DEFINE T == {u \in Seq(M) : Count(m, s \o u) = Count(m, s) + Count(m, u)}
<1>1. <<>> \in T
  <2>1. s \o <<>> = s /\ <<>> \in Seq(M) OBVIOUS
  <2>2. Count(m, s) \in Nat BY CountType
  <2>3. Count(m, <<>>) = 0 BY CountEmpty
  <2> QED BY <2>1, <2>2, <2>3
<1>2. ASSUME NEW u \in Seq(M), NEW e \in M, u \in T PROVE Append(u, e) \in T
  <2>1. s \o Append(u, e) = Append(s \o u, e) /\ s \o u \in Seq(M) /\ Append(u, e) \in Seq(M) OBVIOUS
  <2>2. Count(m, s) \in Nat /\ Count(m, u) \in Nat BY CountType
  <2>3. Count(m, Append(u, e)) = Count(m, u) + (IF e = m THEN 1 ELSE 0) BY CountAppend
  <2>4. Count(m, s \o u) = Count(m, s) + Count(m, u) BY <1>2
  <2>5. Count(m, Append(s \o u, e)) = Count(m, s \o u) + (IF e = m THEN 1 ELSE 0)
    <3> DEFINE v == s \o u
    <3>1. v \in Seq(M) BY <2>1
    <3> HIDE DEF v
    <3>2. Count(m, Append(v, e)) = Count(m, v) + (IF e = m THEN 1 ELSE 0) BY <3>1, CountAppend
    <3> QED BY <3>2 DEF v
  <2>6. Count(m, s \o Append(u, e)) = Count(m, s) + Count(m, Append(u, e))
    BY <2>1, <2>2, <2>3, <2>4, <2>5
  <2> QED BY <2>1, <2>6
<1>3. Seq(M) \subseteq T
  <2> HIDE DEF T
  <2> QED BY <1>1, <1>2, SeqSetInduction
<1> QED BY <1>3

\* The head taken away: it occurs once less.
LEMMA CountTail ==
  ASSUME NEW M, NEW s \in Seq(M), s # <<>>, NEW m
  PROVE  Count(m, s) = Count(m, Tail(s)) + (IF Head(s) = m THEN 1 ELSE 0)
<1> DEFINE h == <<Head(s)>>
<1>1. s = h \o Tail(s) /\ Head(s) \in M /\ Tail(s) \in Seq(M) /\ h \in Seq(M) OBVIOUS
<1>2. h = Append(<<>>, Head(s)) /\ <<>> \in Seq(M) OBVIOUS
<1>3. Count(m, h) = (IF Head(s) = m THEN 1 ELSE 0)
  <2>1. Count(m, <<>>) = 0 BY CountEmpty
  <2>2. Count(m, Append(<<>>, Head(s))) = Count(m, <<>>) + (IF Head(s) = m THEN 1 ELSE 0)
    BY <1>1, <1>2, CountAppend
  <2> QED BY <2>1, <2>2, <1>2
<1> HIDE DEF h
<1>4. Count(m, h \o Tail(s)) = Count(m, h) + Count(m, Tail(s)) BY <1>1, CountConcat
<1>5. Count(m, Tail(s)) \in Nat BY <1>1, CountType
<1>6. Count(m, s) = Count(m, h) + Count(m, Tail(s)) BY <1>1, <1>4
<1> QED BY <1>3, <1>5, <1>6

\* A sequence of one.
LEMMA CountOne ==
  ASSUME NEW M, NEW e \in M, NEW m
  PROVE  Count(m, <<e>>) = IF e = m THEN 1 ELSE 0
<1>1. <<e>> = Append(<<>>, e) /\ <<>> \in Seq(M) OBVIOUS
<1>2. Count(m, <<>>) = 0 BY CountEmpty
<1>3. Count(m, Append(<<>>, e)) = Count(m, <<>>) + (IF e = m THEN 1 ELSE 0) BY <1>1, CountAppend
<1> QED BY <1>1, <1>2, <1>3

\* Filtering leaves the count of an element in S, and of the others nothing.
LEMMA CountFilter ==
  ASSUME NEW M, NEW S, NEW s \in Seq(M), NEW m
  PROVE  Count(m, Filter(s, S)) = IF m \in S THEN Count(m, s) ELSE 0
<1> DEFINE T == {t \in Seq(M) : Count(m, Filter(t, S)) = IF m \in S THEN Count(m, t) ELSE 0}
<1>1. <<>> \in T
  <2>1. <<>> \in Seq(M) OBVIOUS
  <2>2. Count(m, <<>>) = 0 BY CountEmpty
  <2> QED BY <2>1, <2>2, FilterEmpty
<1>2. ASSUME NEW t \in Seq(M), NEW e \in M, t \in T PROVE Append(t, e) \in T
  <2>1. Append(t, e) \in Seq(M) OBVIOUS
  <2>2. Filter(Append(t, e), S) = IF e \in S THEN Append(Filter(t, S), e) ELSE Filter(t, S)
    BY FilterAppend
  <2>3. Count(m, Append(t, e)) = Count(m, t) + (IF e = m THEN 1 ELSE 0) BY CountAppend
  <2>4. Filter(t, S) \in Seq(M) BY FilterType
  <2>5. Count(m, Append(Filter(t, S), e)) = Count(m, Filter(t, S)) + (IF e = m THEN 1 ELSE 0)
    BY <2>4, CountAppend
  <2>6. Count(m, Filter(t, S)) = IF m \in S THEN Count(m, t) ELSE 0 BY <1>2
  <2>7. Count(m, t) \in Nat BY CountType
  <2>8. Count(m, Filter(Append(t, e), S)) = IF m \in S THEN Count(m, Append(t, e)) ELSE 0
    <3>1. CASE e \in S BY <3>1, <2>2, <2>3, <2>5, <2>6, <2>7
    <3>2. CASE e \notin S BY <3>2, <2>2, <2>3, <2>6, <2>7
    <3> QED BY <3>1, <3>2
  <2> QED BY <2>1, <2>8
<1>3. Seq(M) \subseteq T
  <2> HIDE DEF T
  <2> QED BY <1>1, <1>2, SeqSetInduction
<1> QED BY <1>3
\* A sequence cut in two: the counts of the parts add up to its own.
LEMMA CountCut ==
  ASSUME NEW M, NEW s \in Seq(M), NEW k \in 0..Len(s), NEW m
  PROVE  /\ SubSeq(s, 1, k) \in Seq(M)
         /\ SubSeq(s, k + 1, Len(s)) \in Seq(M)
         /\ s = SubSeq(s, 1, k) \o SubSeq(s, k + 1, Len(s))
         /\ Count(m, s) = Count(m, SubSeq(s, 1, k)) + Count(m, SubSeq(s, k + 1, Len(s)))
<1> DEFINE a == SubSeq(s, 1, k)
           b == SubSeq(s, k + 1, Len(s))
<1>1. a \in Seq(M) /\ b \in Seq(M) /\ s = a \o b
  <2>1. a \in Seq(M)
    <3>1. \A i \in 1..k : s[i] \in M OBVIOUS
    <3> QED BY <3>1, SubSeqProperties
  <2>2. b \in Seq(M)
    <3>1. \A i \in (k + 1)..Len(s) : s[i] \in M OBVIOUS
    <3>2. k + 1 \in Int /\ Len(s) \in Int OBVIOUS
    <3> QED BY <3>1, <3>2, SubSeqProperties
  <2>3. a \o b = SubSeq(s, 1, Len(s))
    <3>1. 1 \in 1..Len(s) + 1 /\ k \in 1 - 1..Len(s) /\ Len(s) \in k..Len(s) OBVIOUS
    <3> QED BY <3>1, ConcatAdjacentSubSeq
  <2> QED BY <2>1, <2>2, <2>3, SubSeqFull
<1> HIDE DEF a, b
<1>2. Count(m, a \o b) = Count(m, a) + Count(m, b) BY <1>1, CountConcat
<1>3. Count(m, s) = Count(m, a) + Count(m, b) BY <1>1, <1>2
<1> QED BY <1>1, <1>3 DEF a, b

\* What is kept when exactly the first n elements are in S.
LEMMA FilterPrefix ==
  ASSUME NEW M, NEW S, NEW s \in Seq(M), NEW n \in 0..Len(s), \A i \in 1..Len(s) : s[i] \in S <=> i <= n
  PROVE  Filter(s, S) = SubSeq(s, 1, n)
<1> DEFINE a == SubSeq(s, 1, n)
           b == SubSeq(s, n + 1, Len(s))
<1>0. n \in Nat /\ n <= Len(s) /\ Len(s) \in Nat OBVIOUS
<1>1. a \in Seq(M) /\ b \in Seq(M) /\ s = a \o b BY CountCut
<1>2. Len(a) = n /\ (\A i \in 1..n : a[i] = s[i]) BY <1>0
<1>3. Len(b) = Len(s) - n /\ (\A i \in 1..(Len(s) - n) : b[i] = s[n + i]) BY <1>0
<1> HIDE DEF a, b
<1>4. ToSet(a) \subseteq S
  <2>1. ToSet(a) = {a[i] : i \in 1..Len(a)} BY <1>1, ToSetFacts
  <2> QED BY <1>0, <1>2, <2>1
<1>5. ToSet(b) \cap S = {}
  <2>1. ToSet(b) = {b[i] : i \in 1..Len(b)} BY <1>1, ToSetFacts
  <2>2. ASSUME NEW i \in 1..Len(b) PROVE b[i] \notin S
    <3>1. n + i \in 1..Len(s) /\ ~(n + i <= n) BY <1>0, <1>3
    <3>2. i \in 1..(Len(s) - n) BY <1>3
    <3> QED BY <1>3, <3>1, <3>2
  <2> QED BY <2>1, <2>2
<1>6. Filter(a, S) = a BY <1>1, <1>4, FilterAll
<1>7. Filter(b, S) = <<>>
  <2>1. Filter(b, S) \in Seq(M) BY <1>1, FilterType
  <2>2. ToSet(Filter(b, S)) = {} BY <1>1, <1>5, FilterElements
  <2>3. \A u \in Seq(M) : ToSet(u) = {} <=> u = <<>> BY ToSetFacts
  <2> QED BY <2>1, <2>2, <2>3
<1>8. Filter(s, S) = a \o <<>>
  <2>1. Filter(a \o b, S) = Filter(a, S) \o Filter(b, S) BY <1>1, FilterConcat
  <2>2. Filter(s, S) = Filter(a \o b, S) BY <1>1
  <2> QED BY <2>1, <2>2, <1>6, <1>7
<1>9. a \o <<>> = a BY <1>1
<1> QED BY <1>8, <1>9 DEF a
=============================================================================
