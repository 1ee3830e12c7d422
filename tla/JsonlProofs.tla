---------------------------- MODULE JsonlProofs -----------------------------
(***************************************************************************)
(* Proofs about JsonlStore, with a JsonlReader beside it: for any          *)
(* documents, block size and setups, crashes and power losses as often and *)
(* where they like, that the memory of an open store is what recovery      *)
(* would compute of its log, that an address has one live incarnation,     *)
(* that ids are handed out once as long as power does not fail, that every *)
(* step of the store is a step of PicoStore or none, that a read selects   *)
(* what the commits of the log wrote, that recovery finds its sidecars     *)
(* whole but for what a sweep removed, and that a reader answers from a    *)
(* prefix of the writer's history.                                         *)
(*                                                                         *)
(* There are two hypotheses on the setups.  NoTornReclaims: no append of a *)
(* Reclaim line fails.  Without it the store's promises are broken (the    *)
(* jsonl_damage run): such an append poisons nothing, and the next line    *)
(* is written behind half of it.  TierIsMet, for what is said of sidecars: *)
(* a store whose machine may lose power is opened with the tier that       *)
(* flushes.  The other tier promises nothing then.                         *)
(*                                                                         *)
(* The argument is about prefixes of the log.  GoodLog says of every       *)
(* prefix that its replay succeeds and computes a sound state, and of any  *)
(* two that the longer one's replay holds more commits; so a crash, which  *)
(* leaves a prefix, leaves a good log.  Memory says how the writer's       *)
(* memory and job stand to the replay of the whole.  TrueLog says of every *)
(* prefix that its slices are the latest writes of its commits.  SideInv   *)
(* says of every sidecar that is there that it holds the records of every  *)
(* point of the log that names it, and of those recovery could want that   *)
(* they are there; so it does not matter which prefix a crash leaves, or   *)
(* which one a reader has replayed.                                        *)
(***************************************************************************)
EXTENDS JsonlReader, SeqFilterProofs

-----------------------------------------------------------------------------
(* Replaying a log and applying a run of lines, a line at a time. *)

\* What the function of Replay is, up to N.
Replays(file, f, N) ==
  f = [n \in 0..N |-> IF n = 0 THEN ReplayStart ELSE ReplayLine(f[n - 1], file[n])]

\* Something satisfies the equation of Replay.
LEMMA ReplaysExists ==
  ASSUME NEW file, NEW N \in Nat
  PROVE  \E f : Replays(file, f, N)
<1> DEFINE T == {n \in Nat : \E f : Replays(file, f, n)}
<1>1. 0 \in T
  <2> DEFINE f == [n \in 0..0 |-> ReplayStart]
  <2>1. Replays(file, f, 0) BY DEF Replays
  <2> QED BY <2>1
<1>2. ASSUME NEW n \in Nat, n \in T PROVE n + 1 \in T
  <2>1. PICK f : Replays(file, f, n) BY <1>2
  <2> DEFINE last == ReplayLine(f[n], file[n + 1])
             g == [k \in 0..(n + 1) |-> IF k = n + 1 THEN last ELSE f[k]]
  <2>2. g[n + 1] = last OBVIOUS
  <2>3. \A k \in 0..n : g[k] = f[k] BY <1>2
  <2>4. \A k \in 0..n : f[k] = IF k = 0 THEN ReplayStart ELSE ReplayLine(f[k - 1], file[k])
    BY <2>1 DEF Replays
  <2>5. g = [k \in 0..(n + 1) |-> g[k]] OBVIOUS
  <2> HIDE DEF g
  <2>6. ASSUME NEW k \in 0..(n + 1)
        PROVE  g[k] = IF k = 0 THEN ReplayStart ELSE ReplayLine(g[k - 1], file[k])
    <3>1. CASE k = n + 1
      <4>1. k - 1 = n /\ n \in 0..n /\ k # 0 BY <3>1
      <4>2. g[k - 1] = f[n] BY <4>1, <2>3
      <4> QED BY <3>1, <4>1, <4>2, <2>2
    <3>2. CASE k # n + 1
      <4>1. k \in 0..n BY <3>2
      <4>2. k # 0 => k - 1 \in 0..n BY <4>1
      <4>3. g[k] = f[k] /\ (k # 0 => g[k - 1] = f[k - 1]) BY <4>1, <4>2, <2>3
      <4> QED BY <4>1, <4>3, <2>4
    <3> QED BY <3>1, <3>2
  <2>7. Replays(file, g, n + 1) BY <2>5, <2>6 DEF Replays
  <2> QED BY <2>7
<1>3. Nat \subseteq T
  <2> HIDE DEF T
  <2> QED BY <1>1, <1>2, NatSetInduction
<1> QED BY <1>3

\* ...and so Replay does.
LEMMA ReplayIs ==
  ASSUME NEW file, Len(file) \in Nat
  PROVE  \E f : Replays(file, f, Len(file)) /\ Replay(file) = f[Len(file)]
<1> DEFINE g == CHOOSE f : Replays(file, f, Len(file))
<1>1. Replay(file) = g[Len(file)] BY DEF Replay, Replays
<1>2. Replays(file, g, Len(file)) BY ReplaysExists
<1> QED BY <1>1, <1>2

\* Files that begin alike are replayed alike so far.
LEMMA ReplaysAgree ==
  ASSUME NEW a, NEW b, NEW f, NEW g, NEW M \in Nat, NEW N \in Nat, NEW k \in Nat, k <= M, k <= N,
         Replays(a, f, M), Replays(b, g, N), \A i \in 1..k : a[i] = b[i]
  PROVE  f[k] = g[k]
<1> DEFINE T == {n \in Nat : n <= k => f[n] = g[n]}
<1>1. \A n \in 0..M : f[n] = IF n = 0 THEN ReplayStart ELSE ReplayLine(f[n - 1], a[n]) BY DEF Replays
<1>2. \A n \in 0..N : g[n] = IF n = 0 THEN ReplayStart ELSE ReplayLine(g[n - 1], b[n]) BY DEF Replays
<1>3. 0 \in T
  <2>1. 0 \in 0..M /\ 0 \in 0..N OBVIOUS
  <2> QED BY <1>1, <1>2, <2>1
<1>4. ASSUME NEW n \in Nat, n \in T PROVE n + 1 \in T
  <2> SUFFICES ASSUME n + 1 <= k PROVE f[n + 1] = g[n + 1] OBVIOUS
  <2>1. n + 1 \in 0..M /\ n + 1 \in 0..N /\ n + 1 # 0 /\ (n + 1) - 1 = n /\ n + 1 \in 1..k /\ n <= k OBVIOUS
  <2>2. f[n] = g[n] BY <1>4, <2>1
  <2>3. a[n + 1] = b[n + 1] BY <2>1
  <2>4. f[n + 1] = ReplayLine(f[n], a[n + 1]) BY <1>1, <2>1
  <2>5. g[n + 1] = ReplayLine(g[n], b[n + 1]) BY <1>2, <2>1
  <2> QED BY <2>2, <2>3, <2>4, <2>5
<1>5. Nat \subseteq T
  <2> HIDE DEF T
  <2> QED BY <1>3, <1>4, NatSetInduction
<1> QED BY <1>5

\* recover.rs, open: the loop begins with nothing and goes on with one line.
LEMMA ReplaySteps ==
  /\ Replay(<<>>) = ReplayStart
  /\ \A M : \A file \in Seq(M), m \in M : Replay(Append(file, m)) = ReplayLine(Replay(file), m)
<1>1. Replay(<<>>) = ReplayStart
  <2> DEFINE e == <<>>
  <2>0. Len(e) = 0 OBVIOUS
  <2> HIDE DEF e
  <2>1. PICK f : Replays(e, f, 0) /\ Replay(e) = f[0] BY <2>0, ReplayIs
  <2>2. f[0] = ReplayStart
    <3>1. 0 \in 0..0 OBVIOUS
    <3> QED BY <2>1, <3>1 DEF Replays
  <2> QED BY <2>1, <2>2 DEF e
<1>2. ASSUME NEW M, NEW file \in Seq(M), NEW m \in M
      PROVE  Replay(Append(file, m)) = ReplayLine(Replay(file), m)
  <2> DEFINE t == Append(file, m)
             n == Len(file)
  <2>1. n \in Nat /\ Len(t) = n + 1 /\ t[n + 1] = m /\ \A i \in 1..n : t[i] = file[i] OBVIOUS
  <2> HIDE DEF t, n
  <2>2. PICK f : Replays(t, f, n + 1) /\ Replay(t) = f[n + 1] BY <2>1, ReplayIs
  <2>3. PICK g : Replays(file, g, n) /\ Replay(file) = g[n] BY <2>1, ReplayIs DEF n
  <2>4. f[n] = g[n]
    <3>1. n + 1 \in Nat /\ n <= n + 1 /\ n <= n BY <2>1
    <3> QED BY <2>1, <2>2, <2>3, <3>1, ReplaysAgree
  <2>5. n + 1 \in 0..(n + 1) /\ n + 1 # 0 /\ (n + 1) - 1 = n BY <2>1
  <2>6. f[n + 1] = ReplayLine(f[n], t[n + 1]) BY <2>2, <2>5 DEF Replays
  <2> QED BY <2>1, <2>2, <2>3, <2>4, <2>6 DEF t
<1> QED BY <1>1, <1>2

-----------------------------------------------------------------------------
(* Sequences cut short, maps, largest members, sets in some order. *)

Cut(s, n) == SubSeq(s, 1, n)

\* What a sequence cut short is.
LEMMA CutFacts ==
  ASSUME NEW M, NEW s \in Seq(M)
  PROVE  /\ \A n \in 0..Len(s) : Cut(s, n) \in Seq(M) /\ Len(Cut(s, n)) = n
         /\ \A n \in 0..Len(s) : \A i \in 1..n : Cut(s, n)[i] = s[i]
         /\ \A n \in 0..Len(s) : \A m \in 0..n : Cut(Cut(s, n), m) = Cut(s, m)
         /\ Cut(s, Len(s)) = s
         /\ Cut(s, 0) = <<>>
         /\ \A x \in M : \A n \in 0..Len(s) : Cut(Append(s, x), n) = Cut(s, n)
         /\ \A n \in 0..(Len(s) - 1) : Cut(s, n + 1) = Append(Cut(s, n), s[n + 1])
<1>1. \A n \in 0..Len(s) : Cut(s, n) \in Seq(M) /\ Len(Cut(s, n)) = n BY DEF Cut
<1>2. \A n \in 0..Len(s) : \A i \in 1..n : Cut(s, n)[i] = s[i] BY DEF Cut
<1>3. ASSUME NEW n \in 0..Len(s), NEW m \in 0..n PROVE Cut(Cut(s, n), m) = Cut(s, m)
  <2>1. m \in 0..Len(Cut(s, n)) /\ m \in 0..Len(s) /\ Cut(s, n) \in Seq(M) BY <1>1
  <2>2. Cut(Cut(s, n), m) \in Seq(M) /\ Len(Cut(Cut(s, n), m)) = m BY <2>1 DEF Cut
  <2>3. Cut(s, m) \in Seq(M) /\ Len(Cut(s, m)) = m BY <2>1, <1>1
  <2>4. \A i \in 1..m : Cut(Cut(s, n), m)[i] = Cut(s, n)[i] BY <2>1 DEF Cut
  <2>5. \A i \in 1..m : Cut(Cut(s, n), m)[i] = Cut(s, m)[i] BY <2>1, <2>4, <1>2
  <2> QED BY <2>2, <2>3, <2>5, SeqEqual
<1>4. Cut(s, Len(s)) = s BY SubSeqFull DEF Cut
<1>5. Cut(s, 0) = <<>> BY <1>1
<1>6. ASSUME NEW x \in M, NEW n \in 0..Len(s) PROVE Cut(Append(s, x), n) = Cut(s, n)
  <2> DEFINE t == Append(s, x)
  <2>1. t \in Seq(M) /\ Len(t) = Len(s) + 1 /\ \A i \in 1..Len(s) : t[i] = s[i] OBVIOUS
  <2> HIDE DEF t
  <2>2. Cut(t, n) \in Seq(M) /\ Len(Cut(t, n)) = n /\ \A i \in 1..n : Cut(t, n)[i] = t[i] BY <2>1 DEF Cut
  <2>3. \A i \in 1..n : Cut(t, n)[i] = Cut(s, n)[i] BY <2>1, <2>2, <1>2
  <2> QED BY <2>2, <2>3, <1>1, SeqEqual DEF t
<1>7. ASSUME NEW n \in 0..(Len(s) - 1) PROVE Cut(s, n + 1) = Append(Cut(s, n), s[n + 1])
  <2>1. n \in 0..Len(s) /\ n + 1 \in 0..Len(s) /\ n + 1 \in 1..Len(s) /\ s[n + 1] \in M OBVIOUS
  <2>2. Cut(s, n) \in Seq(M) /\ Len(Cut(s, n)) = n /\ Cut(s, n + 1) \in Seq(M) /\ Len(Cut(s, n + 1)) = n + 1
    BY <2>1, <1>1
  <2> DEFINE a == Cut(s, n)
             b == Append(a, s[n + 1])
  <2> HIDE DEF a
  <2>3. a \in Seq(M) /\ Len(a) = n BY <2>2 DEF a
  <2>4. b \in Seq(M) /\ Len(b) = n + 1 /\ b[n + 1] = s[n + 1] /\ \A i \in 1..n : b[i] = a[i] BY <2>1, <2>3
  <2> HIDE DEF b
  <2>5. \A i \in 1..n : a[i] = s[i] BY <2>1, <1>2 DEF a
  <2>6. \A i \in 1..(n + 1) : Cut(s, n + 1)[i] = s[i] BY <2>1, <1>2
  <2>7. \A i \in 1..(n + 1) : Cut(s, n + 1)[i] = b[i]
    <3> TAKE i \in 1..(n + 1)
    <3>1. i \in 1..n \/ i = n + 1 OBVIOUS
    <3> QED BY <3>1, <2>4, <2>5, <2>6
  <2> QED BY <2>2, <2>4, <2>7, SeqEqual DEF a, b
<1> QED BY <1>1, <1>2, <1>3, <1>4, <1>5, <1>6, <1>7

\* The functions from some of the keys.
Maps(keys, values) == UNION {[some -> values] : some \in SUBSET keys}

\* What such a function is.
LEMMA MapFacts ==
  ASSUME NEW keys, NEW values
  PROVE  /\ \A m \in Maps(keys, values) : DOMAIN m \subseteq keys /\ m \in [DOMAIN m -> values]
         /\ \A some \in SUBSET keys : \A m \in [some -> values] : m \in Maps(keys, values)
BY DEF Maps

\* An insert into a map.
LEMMA PutFacts ==
  ASSUME NEW keys, NEW values, NEW k \in keys, NEW v \in values, NEW m \in Maps(keys, values)
  PROVE  /\ Put(m, k, v) \in Maps(keys, values)
         /\ DOMAIN Put(m, k, v) = DOMAIN m \cup {k}
         /\ Put(m, k, v)[k] = v
         /\ \A x \in DOMAIN m : x # k => Put(m, k, v)[x] = m[x]
<1>1. DOMAIN m \subseteq keys /\ m \in [DOMAIN m -> values] BY MapFacts
<1>2. DOMAIN m \cup {k} \in SUBSET keys /\ Put(m, k, v) \in [DOMAIN m \cup {k} -> values] BY <1>1 DEF Put
<1>3. Put(m, k, v) \in Maps(keys, values) BY <1>2, MapFacts
<1> QED BY <1>3 DEF Put

\* A set of naturals with an upper bound has a greatest member.
LEMMA MaxFacts ==
  ASSUME NEW n \in Nat, NEW S \in SUBSET (0..n), S # {}
  PROVE  Max(S) \in S /\ \A y \in S : Max(S) >= y
<1> DEFINE T == {k \in Nat : \A U \in SUBSET (0..k) : U # {} => \E x \in U : \A y \in U : x >= y}
<1>1. 0 \in T
  <2> SUFFICES ASSUME NEW U \in SUBSET (0..0), U # {} PROVE \E x \in U : \A y \in U : x >= y
    OBVIOUS
  <2>1. PICK x \in U : TRUE OBVIOUS
  <2>2. \A y \in U : x >= y
    <3> TAKE y \in U
    <3>1. x \in 0..0 /\ y \in 0..0 OBVIOUS
    <3> QED BY <3>1
  <2> QED BY <2>2
<1>2. ASSUME NEW k \in Nat, k \in T PROVE k + 1 \in T
  <2> SUFFICES ASSUME NEW U \in SUBSET (0..(k + 1)), U # {} PROVE \E x \in U : \A y \in U : x >= y
    BY <1>2
  <2>1. CASE k + 1 \in U
    <3>1. \A y \in U : k + 1 >= y BY <1>2
    <3> QED BY <2>1, <3>1
  <2>2. CASE k + 1 \notin U
    <3>1. U \in SUBSET (0..k) BY <2>2, <1>2
    <3> QED BY <3>1, <1>2
  <2> QED BY <2>1, <2>2
<1>3. Nat \subseteq T
  <2> HIDE DEF T
  <2> QED BY <1>1, <1>2, NatSetInduction
<1>4. \E x \in S : \A y \in S : x >= y BY <1>3
<1> QED BY <1>4 DEF Max

\* The greater of two numbers.
LEMMA MaxOfTwo ==
  ASSUME NEW a \in Nat, NEW b \in Nat
  PROVE  Max({a, b}) = IF a >= b THEN a ELSE b
<1> DEFINE m == IF a >= b THEN a ELSE b
<1>1. m \in {a, b} /\ \A y \in {a, b} : m >= y OBVIOUS
<1>2. Max({a, b}) \in {a, b} /\ \A y \in {a, b} : Max({a, b}) >= y BY <1>1 DEF Max
<1> QED BY <1>1, <1>2

\* A sequence that has nothing twice.
OneEach(s) == \A i, j \in DOMAIN s : s[i] = s[j] => i = j

\* The members of a finite set, put in some order.
LEMMA OrderedFacts ==
  ASSUME NEW S, IsFiniteSet(S)
  PROVE  SetToSeq(S) \in Seq(S) /\ OneEach(SetToSeq(S)) /\ ToSet(SetToSeq(S)) = S
<1> DEFINE n == Cardinality(S)
           s == SetToSeq(S)
<1>1. n \in Nat BY FS_CardinalityType
<1>2. \E f : f \in Bijection(1..n, S) BY FS_CardinalityType DEF ExistsBijection
<1>3. \E f \in [1..n -> S] : IsInjective(f)
  <2>1. PICK f : f \in Bijection(1..n, S) BY <1>2
  <2>2. f \in Injection(1..n, S) BY <2>1 DEF Bijection
  <2>3. f \in [1..n -> S] /\ IsInjective(f) BY <2>2 DEF Injection
  <2> QED BY <2>3
<1>4. s \in [1..n -> S] /\ IsInjective(s) BY <1>3 DEF SetToSeq
<1> HIDE DEF s
<1>5. s \in Seq(S) BY <1>1, <1>4
<1>6. OneEach(s) BY <1>4 DEF OneEach, IsInjective
<1>7. ToSet(s) = S
  <2> DEFINE T == {s[i] : i \in 1..n}
  <2>0. s \in [1..n -> T] /\ IsInjective(s) /\ \A t \in T : \E i \in 1..n : s[i] = t
    <3>1. s \in [1..n -> T] BY <1>4
    <3> QED BY <1>4, <3>1
  <2>1. s \in Bijection(1..n, T) BY <2>0 DEF Bijection, Injection, Surjection
  <2>b. ExistsBijection(1..n, T) BY <2>1 DEF ExistsBijection
  <2>2. IsFiniteSet(T) /\ Cardinality(T) = n
    <3>1. IsFiniteSet(1..n) /\ Cardinality(1..n) = n BY <1>1, FS_Interval
    <3> HIDE DEF T
    <3> QED BY <2>b, <3>1, FS_Bijection
  <2>3. T \subseteq S BY <1>4
  <2>4. T = S
    <3> HIDE DEF T
    <3> QED BY <2>2, <2>3, FS_Subset
  <2> QED BY <1>4, <2>4 DEF ToSet
<1> QED BY <1>5, <1>6, <1>7 DEF s

\* What a filter keeps depends on the elements' membership alone.
LEMMA FilterSame ==
  ASSUME NEW M, NEW S, NEW T, NEW s \in Seq(M), \A x \in ToSet(s) : x \in S <=> x \in T
  PROVE  Filter(s, S) = Filter(s, T)
<1> DEFINE U == {t \in Seq(M) : (\A x \in ToSet(t) : x \in S <=> x \in T) => Filter(t, S) = Filter(t, T)}
<1>1. <<>> \in U BY FilterEmpty
<1>2. ASSUME NEW t \in Seq(M), NEW m \in M, t \in U PROVE Append(t, m) \in U
  <2> SUFFICES ASSUME \A x \in ToSet(Append(t, m)) : x \in S <=> x \in T
               PROVE  Filter(Append(t, m), S) = Filter(Append(t, m), T)
    OBVIOUS
  <2>1. ToSet(Append(t, m)) = ToSet(t) \cup {m} BY ToSetFacts
  <2>2. Filter(t, S) = Filter(t, T) /\ (m \in S <=> m \in T) BY <1>2, <2>1
  <2>3. /\ Filter(Append(t, m), S) = IF m \in S THEN Append(Filter(t, S), m) ELSE Filter(t, S)
        /\ Filter(Append(t, m), T) = IF m \in T THEN Append(Filter(t, T), m) ELSE Filter(t, T)
    BY FilterAppend
  <2> QED BY <2>2, <2>3
<1>3. Seq(M) \subseteq U
  <2> HIDE DEF U
  <2> QED BY <1>1, <1>2, SeqSetInduction
<1> QED BY <1>3

\* Prefixes: of itself, of what goes on, and of a prefix's extension.
LEMMA PrefixFacts ==
  ASSUME NEW M
  PROVE  /\ \A s \in Seq(M) : IsPrefix(s, s) /\ IsPrefix(<<>>, s)
         /\ \A s \in Seq(M), x \in M : IsPrefix(s, Append(s, x))
         /\ \A s, t, u \in Seq(M) : IsPrefix(s, t) /\ IsPrefix(t, u) => IsPrefix(s, u)
         /\ \A s, t \in Seq(M) : IsPrefix(s, t) <=> Len(s) <= Len(t) /\ \A i \in 1..Len(s) : s[i] = t[i]
<1>1. ASSUME NEW s \in Seq(M), NEW t \in Seq(M)
      PROVE  IsPrefix(s, t) <=> Len(s) <= Len(t) /\ \A i \in 1..Len(s) : s[i] = t[i]
  <2> SUFFICES ASSUME Len(s) <= Len(t)
               PROVE  SubSeq(s, 1, Len(s)) = SubSeq(t, 1, Len(s)) <=> \A i \in 1..Len(s) : s[i] = t[i]
    BY DEF IsPrefix
  <2>1. SubSeq(s, 1, Len(s)) = s BY CutFacts DEF Cut
  <2> DEFINE a == Cut(t, Len(s))
  <2>2. Len(s) \in 0..Len(t) OBVIOUS
  <2>3. a \in Seq(M) /\ Len(a) = Len(s) /\ \A i \in 1..Len(s) : a[i] = t[i] BY <2>2, CutFacts
  <2>4. SubSeq(t, 1, Len(s)) = a BY DEF Cut
  <2> HIDE DEF a
  <2>5. s = a <=> \A i \in 1..Len(s) : s[i] = a[i] BY <2>3, SeqEqual
  <2> QED BY <2>1, <2>3, <2>4, <2>5
<1>b. ASSUME NEW s \in Seq(M), NEW t \in Seq(M), Len(s) <= Len(t), \A i \in 1..Len(s) : s[i] = t[i]
      PROVE  IsPrefix(s, t)
  BY <1>1, <1>b
<1>2. \A s \in Seq(M) : IsPrefix(s, s) BY <1>1
<1>3. ASSUME NEW s \in Seq(M), NEW x \in M PROVE IsPrefix(s, Append(s, x))
  <2> DEFINE t == Append(s, x)
  <2>1. t \in Seq(M) /\ Len(t) = Len(s) + 1 /\ \A i \in 1..Len(s) : s[i] = t[i] OBVIOUS
  <2> HIDE DEF t
  <2>2. Len(s) <= Len(t) BY <2>1
  <2> QED BY <2>1, <2>2, <1>b DEF t
<1>4. \A s, t, u \in Seq(M) : IsPrefix(s, t) /\ IsPrefix(t, u) => IsPrefix(s, u) BY <1>1
<1>5. ASSUME NEW s \in Seq(M) PROVE IsPrefix(<<>>, s)
  <2> DEFINE e == <<>>
  <2>1. e \in Seq(M) /\ Len(e) = 0 /\ Len(e) <= Len(s) /\ \A i \in 1..Len(e) : e[i] = s[i] OBVIOUS
  <2> HIDE DEF e
  <2>2. IsPrefix(e, s) BY <2>1, <1>b
  <2> QED BY <2>2 DEF e
<1> QED BY <1>1, <1>2, <1>3, <1>4, <1>5

\* Before the first line, and after one more.
Begun(s) == [ok |-> TRUE, st |-> s]
ApplyNext(r, line) ==
  IF r.ok /\ Applicable(r.st, line) THEN [ok |-> TRUE, st |-> Apply(r.st, line)] ELSE [r EXCEPT !.ok = FALSE]

\* What the function of ApplyAll is, up to N.
Applies(s, file, f, N) ==
  f = [n \in 0..N |-> IF n = 0 THEN Begun(s) ELSE ApplyNext(f[n - 1], file[n])]

\* Something satisfies the equation of ApplyAll.
LEMMA AppliesExists ==
  ASSUME NEW s, NEW file, NEW N \in Nat
  PROVE  \E f : Applies(s, file, f, N)
<1> DEFINE T == {n \in Nat : \E f : Applies(s, file, f, n)}
<1>1. 0 \in T
  <2> DEFINE f == [n \in 0..0 |-> Begun(s)]
  <2>1. Applies(s, file, f, 0) BY DEF Applies
  <2> QED BY <2>1
<1>2. ASSUME NEW n \in Nat, n \in T PROVE n + 1 \in T
  <2>1. PICK f : Applies(s, file, f, n) BY <1>2
  <2> DEFINE last == ApplyNext(f[n], file[n + 1])
             g == [k \in 0..(n + 1) |-> IF k = n + 1 THEN last ELSE f[k]]
  <2>2. g[n + 1] = last OBVIOUS
  <2>3. \A k \in 0..n : g[k] = f[k] BY <1>2
  <2>4. \A k \in 0..n : f[k] = IF k = 0 THEN Begun(s) ELSE ApplyNext(f[k - 1], file[k])
    BY <2>1 DEF Applies
  <2>5. g = [k \in 0..(n + 1) |-> g[k]] OBVIOUS
  <2> HIDE DEF g
  <2>6. ASSUME NEW k \in 0..(n + 1)
        PROVE  g[k] = IF k = 0 THEN Begun(s) ELSE ApplyNext(g[k - 1], file[k])
    <3>1. CASE k = n + 1
      <4>1. k - 1 = n /\ n \in 0..n /\ k # 0 BY <3>1
      <4>2. g[k - 1] = f[n] BY <4>1, <2>3
      <4> QED BY <3>1, <4>1, <4>2, <2>2
    <3>2. CASE k # n + 1
      <4>1. k \in 0..n BY <3>2
      <4>2. k # 0 => k - 1 \in 0..n BY <4>1
      <4>3. g[k] = f[k] /\ (k # 0 => g[k - 1] = f[k - 1]) BY <4>1, <4>2, <2>3
      <4> QED BY <4>1, <4>3, <2>4
    <3> QED BY <3>1, <3>2
  <2>7. Applies(s, file, g, n + 1) BY <2>5, <2>6 DEF Applies
  <2> QED BY <2>7
<1>3. Nat \subseteq T
  <2> HIDE DEF T
  <2> QED BY <1>1, <1>2, NatSetInduction
<1> QED BY <1>3

\* ...and so ApplyAll does.
LEMMA ApplyAllIs ==
  ASSUME NEW s, NEW file, Len(file) \in Nat
  PROVE  \E f : Applies(s, file, f, Len(file)) /\ ApplyAll(s, file) = f[Len(file)]
<1> DEFINE g == CHOOSE f : Applies(s, file, f, Len(file))
<1>1. ApplyAll(s, file) = g[Len(file)] BY DEF ApplyAll, Begun, ApplyNext, Applies
<1>2. Applies(s, file, g, Len(file)) BY AppliesExists
<1> QED BY <1>1, <1>2

\* Files that begin alike are replayed alike so far.
LEMMA AppliesAgree ==
  ASSUME NEW s, NEW a, NEW b, NEW f, NEW g, NEW M \in Nat, NEW N \in Nat, NEW k \in Nat, k <= M, k <= N,
         Applies(s, a, f, M), Applies(s, b, g, N), \A i \in 1..k : a[i] = b[i]
  PROVE  f[k] = g[k]
<1> DEFINE T == {n \in Nat : n <= k => f[n] = g[n]}
<1>1. \A n \in 0..M : f[n] = IF n = 0 THEN Begun(s) ELSE ApplyNext(f[n - 1], a[n]) BY DEF Applies
<1>2. \A n \in 0..N : g[n] = IF n = 0 THEN Begun(s) ELSE ApplyNext(g[n - 1], b[n]) BY DEF Applies
<1>3. 0 \in T
  <2>1. 0 \in 0..M /\ 0 \in 0..N OBVIOUS
  <2> QED BY <1>1, <1>2, <2>1
<1>4. ASSUME NEW n \in Nat, n \in T PROVE n + 1 \in T
  <2> SUFFICES ASSUME n + 1 <= k PROVE f[n + 1] = g[n + 1] OBVIOUS
  <2>1. n + 1 \in 0..M /\ n + 1 \in 0..N /\ n + 1 # 0 /\ (n + 1) - 1 = n /\ n + 1 \in 1..k /\ n <= k OBVIOUS
  <2>2. f[n] = g[n] BY <1>4, <2>1
  <2>3. a[n + 1] = b[n + 1] BY <2>1
  <2>4. f[n + 1] = ApplyNext(f[n], a[n + 1]) BY <1>1, <2>1
  <2>5. g[n + 1] = ApplyNext(g[n], b[n + 1]) BY <1>2, <2>1
  <2> QED BY <2>2, <2>3, <2>4, <2>5
<1>5. Nat \subseteq T
  <2> HIDE DEF T
  <2> QED BY <1>3, <1>4, NatSetInduction
<1> QED BY <1>5

\* recover.rs, open: the loop begins with nothing and goes on with one line.
LEMMA ApplySteps ==
  /\ \A s : ApplyAll(s, <<>>) = Begun(s)
  /\ \A s : \A M : \A file \in Seq(M), m \in M : ApplyAll(s, Append(file, m)) = ApplyNext(ApplyAll(s, file), m)
<1>1. ASSUME NEW s PROVE ApplyAll(s, <<>>) = Begun(s)
  <2> DEFINE e == <<>>
  <2>0. Len(e) = 0 OBVIOUS
  <2> HIDE DEF e
  <2>1. PICK f : Applies(s, e, f, 0) /\ ApplyAll(s, e) = f[0] BY <2>0, ApplyAllIs
  <2>2. f[0] = Begun(s)
    <3>1. 0 \in 0..0 OBVIOUS
    <3> QED BY <2>1, <3>1 DEF Applies
  <2> QED BY <2>1, <2>2 DEF e
<1>2. ASSUME NEW s, NEW M, NEW file \in Seq(M), NEW m \in M
      PROVE  ApplyAll(s, Append(file, m)) = ApplyNext(ApplyAll(s, file), m)
  <2> DEFINE t == Append(file, m)
             n == Len(file)
  <2>1. n \in Nat /\ Len(t) = n + 1 /\ t[n + 1] = m /\ \A i \in 1..n : t[i] = file[i] OBVIOUS
  <2> HIDE DEF t, n
  <2>a. Len(t) = n + 1 /\ n + 1 \in Nat BY <2>1
  <2>2. PICK f : Applies(s, t, f, n + 1) /\ ApplyAll(s, t) = f[n + 1]
    <3>1. \E f : Applies(s, t, f, Len(t)) /\ ApplyAll(s, t) = f[Len(t)] BY <2>a, ApplyAllIs
    <3> QED BY <2>a, <3>1
  <2>3. PICK g : Applies(s, file, g, n) /\ ApplyAll(s, file) = g[n] BY <2>1, ApplyAllIs DEF n
  <2>4. f[n] = g[n]
    <3>1. n + 1 \in Nat /\ n <= n + 1 /\ n <= n BY <2>1
    <3> QED BY <2>1, <2>2, <2>3, <3>1, AppliesAgree
  <2>5. n + 1 \in 0..(n + 1) /\ n + 1 # 0 /\ (n + 1) - 1 = n BY <2>1
  <2>6. f[n + 1] = ApplyNext(f[n], t[n + 1]) BY <2>2, <2>5 DEF Applies
  <2> QED BY <2>1, <2>2, <2>3, <2>4, <2>6 DEF t
<1> QED BY <1>1, <1>2

-----------------------------------------------------------------------------
(* What the values are. *)

Slices     == [seq : Nat, end : Nat, base : BOOLEAN]
DocRecords == [generation : Nat, slices : Seq(Slices), open : BOOLEAN]
States     == [last : Nat, next : Nat, reserved : Nat, rows : SUBSET Nat, docs : Maps(Docs, DocRecords)]

Ends         == Maps(Docs, [end : Nat, base : BOOLEAN])
RowLines     == [kind : {"row"}, seq : Nat, id : Nat]
DocLines     == [kind : {"document"}, seq : Nat, doc : Docs, open : BOOLEAN]
RetireLines  == [kind : {"retire"}, seq : Nat, doc : Docs]
RecordLines  == RowLines \cup DocLines \cup RetireLines
MarkerLines  == [kind : {"marker"}, seq : Nat, main : Nat, docs : Ends]
MintLines    == [kind : {"mint"}, high : Nat]
ReclaimLines == [kind : {"reclaim"}, doc : Docs, generation : Nat, keep : Seq(Slices)]
Lines == {Torn} \cup RecordLines \cup MarkerLines \cup MintLines \cup ReclaimLines

Commits == [seq : Nat, rows : SUBSET Nat, created : SUBSET Docs, retired : SUBSET Docs,
            wrote : Maps(Docs, BOOLEAN)]
Points == [ok : BOOLEAN, st : States, pending : Seq(RecordLines), read : Nat, confirmed : Nat,
           commits : Seq(Commits)]

\* One live incarnation where there is one address.
Addressed(docs, one) == one => \A d, e \in DOMAIN docs : docs[d].open /\ docs[e].open => d = e

\* Every slice is one record.
Numbered(slices) == \A i \in 1..Len(slices) : slices[i].end = i

\* So a document ends where it has as many slices.
LEMMA EndFacts ==
  ASSUME NEW doc, doc.slices \in Seq(Slices), Numbered(doc.slices)
  PROVE  End(doc) = Len(doc.slices)
<1> DEFINE s == doc.slices
<1>1. s \in Seq(Slices) /\ Numbered(s) OBVIOUS
<1>2. End(doc) = IF s = <<>> THEN 0 ELSE s[Len(s)].end BY DEF End, Last
<1> HIDE DEF s
<1>3. CASE s = <<>> BY <1>2, <1>3 DEF s
<1>4. CASE s # <<>>
  <2>1. Len(s) \in 1..Len(s) BY <1>1, <1>4
  <2> QED BY <2>1, <1>1, <1>2, <1>4 DEF Numbered, s
<1> QED BY <1>3, <1>4

-----------------------------------------------------------------------------
(* A commit's lines, applied. *)

\* What the first k lines of a plan say.
RowIds(plan, k)  == {plan[i].id : i \in {j \in 1..k : plan[j].kind = "row"}}
NewDocs(plan, k) == {plan[i].doc : i \in {j \in 1..k : plan[j].kind = "document"}}
Closing(plan, k) == {plan[i].doc : i \in {j \in 1..k : plan[j].kind = "retire"}}

\* One line more says this much more.
LEMMA SaysMore ==
  ASSUME NEW plan \in Seq(RecordLines), NEW k \in 0..(Len(plan) - 1)
  PROVE  LET p == plan[k + 1] IN
         /\ RowIds(plan, k + 1) = RowIds(plan, k) \cup (IF p.kind = "row" THEN {p.id} ELSE {})
         /\ NewDocs(plan, k + 1) = NewDocs(plan, k) \cup (IF p.kind = "document" THEN {p.doc} ELSE {})
         /\ Closing(plan, k + 1) = Closing(plan, k) \cup (IF p.kind = "retire" THEN {p.doc} ELSE {})
<1>1. 1..(k + 1) = (1..k) \cup {k + 1} /\ k + 1 \notin 1..k OBVIOUS
<1>3. RowIds(plan, k + 1) = RowIds(plan, k) \cup (IF plan[k + 1].kind = "row" THEN {plan[k + 1].id} ELSE {})
  BY <1>1 DEF RowIds
<1>4. NewDocs(plan, k + 1) = NewDocs(plan, k) \cup (IF plan[k + 1].kind = "document" THEN {plan[k + 1].doc} ELSE {})
  BY <1>1 DEF NewDocs
<1>5. Closing(plan, k + 1) = Closing(plan, k) \cup (IF plan[k + 1].kind = "retire" THEN {plan[k + 1].doc} ELSE {})
  BY <1>1 DEF Closing
<1> QED BY <1>3, <1>4, <1>5

\* A plan that creates C and retires X, a document that does both being born retired.
Planned(plan, seq, C, X) ==
  /\ plan \in Seq(RecordLines)
  /\ OneEach(plan)
  /\ \A i \in 1..Len(plan) : plan[i].seq = seq
  /\ \A i \in 1..Len(plan) : plan[i].kind = "document" => plan[i].doc \in C /\ (plan[i].open <=> plan[i].doc \notin X)
  /\ \A i \in 1..Len(plan) : plan[i].kind = "retire" => plan[i].doc \in X \ C
  /\ NewDocs(plan, Len(plan)) = C
  /\ Closing(plan, Len(plan)) = X \ C

\* ...and that a state has room for.
Fits(s, plan, C, X) ==
  /\ C \subseteq Docs /\ C \cap DOMAIN s.docs = {}
  /\ X \ C \subseteq Live(s)
  /\ RowIds(plan, Len(plan)) \cap s.rows = {}

\* The documents after the first k lines.
DocsAfter(docs, plan, X, k) ==
  [d \in DOMAIN docs \cup NewDocs(plan, k) |->
     IF d \in DOMAIN docs
     THEN [generation |-> docs[d].generation, slices |-> docs[d].slices,
           open |-> IF d \in Closing(plan, k) THEN FALSE ELSE docs[d].open]
     ELSE [generation |-> 0, slices |-> <<>>, open |-> IF d \in X THEN FALSE ELSE TRUE]]

\* The next id after some rows.
NextAfter(next, ids, after) ==
  /\ after \in Nat /\ after >= next
  /\ \A id \in ids : after > id
  /\ after = next \/ \E id \in ids : after = id + 1

\* It goes on with one id more.
LEMMA NextFacts ==
  ASSUME NEW next \in Nat, NEW ids \in SUBSET Nat, NEW a \in Nat, NextAfter(next, ids, a), NEW id \in Nat
  PROVE  NextAfter(next, ids \cup {id}, Max({a, id + 1}))
<1>1. Max({a, id + 1}) = IF a >= id + 1 THEN a ELSE id + 1 BY MaxOfTwo
<1>2. CASE a >= id + 1 BY <1>1, <1>2 DEF NextAfter
<1>3. CASE ~(a >= id + 1)
  <2>1. \A x \in ids : id + 1 > x
    <3> TAKE x \in ids
    <3>1. a > x /\ x \in Nat BY DEF NextAfter
    <3> QED BY <3>1, <1>3
  <2>2. id + 1 >= next BY <1>3 DEF NextAfter
  <2> QED BY <1>1, <1>3, <2>1, <2>2 DEF NextAfter
<1> QED BY <1>2, <1>3

\* The same rows leave two next ids in the order they were in.
LEMMA NextOrder ==
  ASSUME NEW next \in Nat, NEW ids \in SUBSET Nat, NEW other \in Nat, NEW a, NEW b,
         NextAfter(next, ids, a), NextAfter(other, ids, b), next <= other
  PROVE  a <= b
<1>1. a \in Nat /\ b \in Nat /\ b >= other BY DEF NextAfter
<1>2. CASE a = next BY <1>1, <1>2
<1>3. CASE a # next
  <2>1. PICK id \in ids : a = id + 1 BY <1>3 DEF NextAfter
  <2>2. b > id /\ id \in Nat BY <2>1 DEF NextAfter
  <2> QED BY <1>1, <2>1, <2>2
<1> QED BY <1>2, <1>3

\* The state after the first k lines.
Part(s, plan, X, k, t) ==
  /\ t \in States
  /\ t.last = s.last /\ t.reserved = s.reserved
  /\ t.rows = s.rows \cup RowIds(plan, k)
  /\ t.docs = DocsAfter(s.docs, plan, X, k)
  /\ NextAfter(s.next, RowIds(plan, k), t.next)

\* Before the first line.
LEMMA PartBegins ==
  ASSUME NEW s \in States, NEW plan, NEW X
  PROVE  Part(s, plan, X, 0, s)
<1>1. RowIds(plan, 0) = {} /\ NewDocs(plan, 0) = {} /\ Closing(plan, 0) = {} BY DEF RowIds, NewDocs, Closing
<1>2. s.docs \in [DOMAIN s.docs -> DocRecords] BY MapFacts DEF States
<1>3. \A d \in DOMAIN s.docs : s.docs[d] = [generation |-> s.docs[d].generation, slices |-> s.docs[d].slices,
                                          open |-> s.docs[d].open]
  BY <1>2 DEF DocRecords
<1>4. DocsAfter(s.docs, plan, X, 0) = [d \in DOMAIN s.docs |-> s.docs[d]] BY <1>1, <1>3 DEF DocsAfter
<1>5. DocsAfter(s.docs, plan, X, 0) = s.docs BY <1>2, <1>4
<1>6. s.next \in Nat BY DEF States
<1> QED BY <1>1, <1>5, <1>6 DEF Part, NextAfter

\* The rows, documents and retirements a plan's lines are about have their types.
LEMMA SaysTypes ==
  ASSUME NEW plan \in Seq(RecordLines), NEW k \in 0..Len(plan)
  PROVE  /\ RowIds(plan, k) \subseteq Nat /\ NewDocs(plan, k) \subseteq Docs /\ Closing(plan, k) \subseteq Docs
         /\ RowIds(plan, k) \subseteq RowIds(plan, Len(plan))
         /\ NewDocs(plan, k) \subseteq NewDocs(plan, Len(plan))
         /\ Closing(plan, k) \subseteq Closing(plan, Len(plan))
<1>1. \A i \in 1..k : i \in 1..Len(plan) /\ plan[i] \in RecordLines OBVIOUS
<1>2. \A i \in 1..k : /\ plan[i].kind = "row" => plan[i].id \in Nat
                      /\ plan[i].kind \in {"document", "retire"} => plan[i].doc \in Docs
  BY <1>1 DEF RecordLines, RowLines, DocLines, RetireLines
<1>3. RowIds(plan, k) \subseteq Nat /\ NewDocs(plan, k) \subseteq Docs /\ Closing(plan, k) \subseteq Docs
  BY <1>2 DEF RowIds, NewDocs, Closing
<1>4. RowIds(plan, k) \subseteq RowIds(plan, Len(plan)) BY <1>1 DEF RowIds
<1>5. NewDocs(plan, k) \subseteq NewDocs(plan, Len(plan)) BY <1>1 DEF NewDocs
<1>6. Closing(plan, k) \subseteq Closing(plan, Len(plan)) BY <1>1 DEF Closing
<1> QED BY <1>3, <1>4, <1>5, <1>6

\* No two lines of a plan are about one row, create one document or retire one.
LEMMA PlannedOnce ==
  ASSUME NEW plan, NEW seq, NEW C, NEW X, Planned(plan, seq, C, X), NEW k \in 0..(Len(plan) - 1)
  PROVE  LET p == plan[k + 1] IN
         /\ p \in RecordLines
         /\ p.kind = "row" => p.id \notin RowIds(plan, k) /\ p.id \in RowIds(plan, Len(plan))
         /\ p.kind = "document" => p.doc \notin NewDocs(plan, k) /\ p.doc \in C /\ (p.open <=> p.doc \notin X)
         /\ p.kind = "retire" => p.doc \notin Closing(plan, k) /\ p.doc \in X \ C
<1> DEFINE p == plan[k + 1]
<1>1. plan \in Seq(RecordLines) /\ k + 1 \in 1..Len(plan) /\ k + 1 \in DOMAIN plan /\ p \in RecordLines
  BY DEF Planned
<1>2. \A i \in 1..k : i \in 1..Len(plan) /\ i \in DOMAIN plan /\ i # k + 1 /\ plan[i] \in RecordLines BY <1>1
<1>3. \A i \in 1..k : plan[i] # p BY <1>1, <1>2 DEF Planned, OneEach
<1>4. \A i \in 1..k : plan[i].seq = seq /\ p.seq = seq BY <1>1, <1>2 DEF Planned
<1>5. ASSUME p.kind = "row" PROVE p.id \notin RowIds(plan, k) /\ p.id \in RowIds(plan, Len(plan))
  <2>1. p.id \in RowIds(plan, Len(plan)) BY <1>1, <1>5 DEF RowIds
  <2>2. ASSUME NEW i \in 1..k, plan[i].kind = "row", plan[i].id = p.id PROVE FALSE
    <3>1. plan[i] \in RowLines /\ p \in RowLines BY <1>1, <1>2, <1>5, <2>2 DEF RecordLines, RowLines, DocLines, RetireLines
    <3>2. plan[i] = p BY <3>1, <2>2, <1>4 DEF RowLines
    <3> QED BY <3>2, <1>3
  <2> QED BY <2>1, <2>2 DEF RowIds
<1>6. ASSUME p.kind = "document" PROVE p.doc \notin NewDocs(plan, k) /\ p.doc \in C /\ (p.open <=> p.doc \notin X)
  <2>1. p.doc \in C /\ (p.open <=> p.doc \notin X) BY <1>1, <1>6 DEF Planned
  <2>2. ASSUME NEW i \in 1..k, plan[i].kind = "document", plan[i].doc = p.doc PROVE FALSE
    <3>1. plan[i] \in DocLines /\ p \in DocLines BY <1>1, <1>2, <1>6, <2>2 DEF RecordLines, RowLines, DocLines, RetireLines
    <3>2. plan[i].open <=> plan[i].doc \notin X BY <1>2, <2>2 DEF Planned
    <3>3. plan[i].open = p.open BY <3>1, <3>2, <2>1, <2>2 DEF DocLines
    <3>4. plan[i] = p BY <3>1, <3>3, <2>2, <1>4 DEF DocLines
    <3> QED BY <3>4, <1>3
  <2> QED BY <2>1, <2>2 DEF NewDocs
<1>7. ASSUME p.kind = "retire" PROVE p.doc \notin Closing(plan, k) /\ p.doc \in X \ C
  <2>1. p.doc \in X \ C BY <1>1, <1>7 DEF Planned
  <2>2. ASSUME NEW i \in 1..k, plan[i].kind = "retire", plan[i].doc = p.doc PROVE FALSE
    <3>1. plan[i] \in RetireLines /\ p \in RetireLines
      BY <1>1, <1>2, <1>7, <2>2 DEF RecordLines, RowLines, DocLines, RetireLines
    <3>2. plan[i] = p BY <3>1, <2>2, <1>4 DEF RetireLines
    <3> QED BY <3>2, <1>3
  <2> QED BY <2>1, <2>2 DEF Closing
<1> QED BY <1>1, <1>5, <1>6, <1>7

\* One more line of the plan applies and does its part.
LEMMA PartStep ==
  ASSUME NEW s \in States, NEW plan, NEW seq, NEW C, NEW X, Planned(plan, seq, C, X), Fits(s, plan, C, X),
         NEW k \in 0..(Len(plan) - 1), NEW t, Part(s, plan, X, k, t)
  PROVE  Applicable(t, plan[k + 1]) /\ Part(s, plan, X, k + 1, Apply(t, plan[k + 1]))
<1> DEFINE p == plan[k + 1]
           u == Apply(t, p)
           a == DocsAfter(s.docs, plan, X, k)
           z == DocsAfter(s.docs, plan, X, k + 1)
<1>1. /\ plan \in Seq(RecordLines) /\ k \in 0..Len(plan) /\ k + 1 \in 0..Len(plan) /\ Len(plan) \in Nat
      /\ p \in RecordLines
  BY PlannedOnce DEF Planned
<1>2. /\ p.kind = "row" => p.id \notin RowIds(plan, k) /\ p.id \in RowIds(plan, Len(plan))
      /\ p.kind = "document" => p.doc \notin NewDocs(plan, k) /\ p.doc \in C /\ (p.open <=> p.doc \notin X)
      /\ p.kind = "retire" => p.doc \notin Closing(plan, k) /\ p.doc \in X \ C
  BY PlannedOnce
<1>3. /\ RowIds(plan, k + 1) = RowIds(plan, k) \cup (IF p.kind = "row" THEN {p.id} ELSE {})
      /\ NewDocs(plan, k + 1) = NewDocs(plan, k) \cup (IF p.kind = "document" THEN {p.doc} ELSE {})
      /\ Closing(plan, k + 1) = Closing(plan, k) \cup (IF p.kind = "retire" THEN {p.doc} ELSE {})
  BY <1>1, SaysMore
<1>4. RowIds(plan, k) \subseteq Nat /\ NewDocs(plan, k) \subseteq C /\ Closing(plan, k) \subseteq X \ C
  BY <1>1, SaysTypes DEF Planned
<1>5. t \in States /\ t.last = s.last /\ t.reserved = s.reserved /\ t.rows = s.rows \cup RowIds(plan, k)
      /\ t.docs = a /\ NextAfter(s.next, RowIds(plan, k), t.next)
  BY DEF Part
<1>6. s.docs \in [DOMAIN s.docs -> DocRecords] /\ DOMAIN s.docs \subseteq Docs BY MapFacts DEF States
<1>7. C \cap DOMAIN s.docs = {} BY DEF Fits
<1>8. DOMAIN a = DOMAIN s.docs \cup NewDocs(plan, k) /\ DOMAIN z = DOMAIN s.docs \cup NewDocs(plan, k + 1)
  BY DEF DocsAfter
<1>t. t.docs \in Maps(Docs, DocRecords) /\ t.rows \in SUBSET Nat /\ t.next \in Nat /\ s.next \in Nat BY <1>5 DEF States
<1>9. CASE p.kind = "row"
  <2>1. p \in RowLines BY <1>1, <1>9 DEF RecordLines, RowLines, DocLines, RetireLines
  <2>2. p.id \in Nat BY <2>1 DEF RowLines
  <2>3. p.id \notin s.rows BY <1>2, <1>9 DEF Fits
  <2>b. p.id \notin t.rows BY <1>2, <1>5, <1>9, <2>3
  <2>4. Applicable(t, p) BY <1>9, <2>b DEF Applicable
  <2>5. u = [t EXCEPT !.rows = @ \cup {p.id}, !.next = Max({@, p.id + 1})] BY <1>9 DEF Apply
  <2>6. NextAfter(s.next, RowIds(plan, k) \cup {p.id}, Max({t.next, p.id + 1})) 
    <3>1. RowIds(plan, k) \in SUBSET Nat BY <1>4
    <3> QED BY <3>1, <1>5, <1>t, <2>2, NextFacts
  <2>7. Max({t.next, p.id + 1}) \in Nat BY <2>6 DEF NextAfter
  <2>8. u \in States /\ u.rows = t.rows \cup {p.id} /\ u.next = Max({t.next, p.id + 1}) /\ u.docs = t.docs
        /\ u.last = t.last /\ u.reserved = t.reserved
    <3> DEFINE ids == t.rows \cup {p.id}
               high == Max({t.next, p.id + 1})
    <3>1. ids \in SUBSET Nat /\ high \in Nat BY <2>2, <2>7, <1>t
    <3> HIDE DEF ids, high, u, p
    <3>2. u = [t EXCEPT !.rows = ids, !.next = high] BY <2>5 DEF ids, high
    <3>3. u \in States /\ u.rows = ids /\ u.next = high /\ u.docs = t.docs /\ u.last = t.last /\ u.reserved = t.reserved
      BY <3>1, <3>2, <1>5, <1>t DEF States
    <3> QED BY <3>3 DEF ids, high
  <2>9. a = z BY <1>3, <1>9 DEF DocsAfter
  <2> QED BY <2>4, <2>6, <2>8, <2>9, <1>3, <1>5, <1>9 DEF Part
<1>10. CASE p.kind = "document"
  <2>1. p \in DocLines BY <1>1, <1>10 DEF RecordLines, RowLines, DocLines, RetireLines
  <2>2. p.doc \in Docs /\ p.open \in BOOLEAN BY <2>1 DEF DocLines
  <2>3. p.doc \notin DOMAIN t.docs BY <1>2, <1>5, <1>7, <1>8, <1>10
  <2>4. Applicable(t, p) BY <1>10, <2>3 DEF Applicable
  <2> DEFINE new == [generation |-> 0, slices |-> <<>>, open |-> p.open]
  <2>5. new \in DocRecords BY <2>2 DEF DocRecords
  <2>6. u = [t EXCEPT !.docs = Put(@, p.doc, new)] BY <1>10 DEF Apply
  <2>7. Put(t.docs, p.doc, new) \in Maps(Docs, DocRecords) BY <2>2, <2>5, <1>t, PutFacts
  <2>8. u \in States /\ u.rows = t.rows /\ u.next = t.next /\ u.docs = Put(t.docs, p.doc, new)
        /\ u.last = t.last /\ u.reserved = t.reserved
    BY <2>6, <2>7, <1>5, <1>t DEF States
  <2>9. Put(a, p.doc, new) = z
    <3>1. DOMAIN z = DOMAIN a \cup {p.doc} BY <1>3, <1>8, <1>10
    <3>2. p.open = IF p.doc \in X THEN FALSE ELSE TRUE BY <1>2, <1>10, <2>2
    <3>3. p.doc \notin DOMAIN s.docs BY <1>2, <1>7, <1>10
    <3>4. z[p.doc] = new BY <3>1, <3>2, <3>3 DEF DocsAfter
    <3>5. \A d \in DOMAIN a : z[d] = a[d] BY <1>3, <1>8, <1>10 DEF DocsAfter
    <3>6. z = [d \in DOMAIN z |-> z[d]] BY DEF DocsAfter
    <3> HIDE DEF a, z, new
    <3>7. \A d \in DOMAIN a \cup {p.doc} : (IF d = p.doc THEN new ELSE a[d]) = z[d] BY <3>4, <3>5
    <3>8. Put(a, p.doc, new) = [d \in DOMAIN a \cup {p.doc} |-> z[d]] BY <3>7 DEF Put
    <3> QED BY <3>1, <3>6, <3>8
  <2>10. u.docs = z BY <2>8, <2>9, <1>5
  <2> QED BY <2>4, <2>8, <2>10, <1>3, <1>5, <1>10 DEF Part
<1>11. CASE p.kind = "retire"
  <2>1. p \in RetireLines BY <1>1, <1>11 DEF RecordLines, RowLines, DocLines, RetireLines
  <2>2. p.doc \in Docs BY <2>1 DEF RetireLines
  <2>3. p.doc \in DOMAIN s.docs /\ s.docs[p.doc].open BY <1>2, <1>11 DEF Fits, Live
  <2>4. p.doc \in DOMAIN a /\ a[p.doc].open BY <2>3, <1>2, <1>8, <1>11 DEF DocsAfter
  <2>5. Applicable(t, p) BY <1>5, <1>11, <2>4 DEF Applicable, Live
  <2>6. u = [t EXCEPT !.docs[p.doc].open = FALSE] BY <1>11 DEF Apply
  <2> DEFINE w == [a EXCEPT ![p.doc].open = FALSE]
  <2>7. w = z
    <3>1. DOMAIN z = DOMAIN a BY <1>3, <1>8, <1>11
    <3>2. \A d \in DOMAIN a : d # p.doc => z[d] = a[d] BY <1>3, <1>8, <1>11 DEF DocsAfter
    <3>a. p.doc \in DOMAIN z /\ p.doc \in DOMAIN a /\ p.doc \in Closing(plan, k + 1) BY <1>3, <1>8, <1>11, <2>3
    <3>b. z[p.doc] = [generation |-> s.docs[p.doc].generation, slices |-> s.docs[p.doc].slices, open |-> FALSE]
      BY <3>a, <1>8, <2>3 DEF DocsAfter
    <3>c. a[p.doc] = [generation |-> s.docs[p.doc].generation, slices |-> s.docs[p.doc].slices,
                      open |-> IF p.doc \in Closing(plan, k) THEN FALSE ELSE s.docs[p.doc].open]
      BY <3>a, <1>8, <2>3 DEF DocsAfter
    <3>3. z[p.doc] = [a[p.doc] EXCEPT !.open = FALSE]
      <4> DEFINE was == IF p.doc \in Closing(plan, k) THEN FALSE ELSE s.docs[p.doc].open
                 g == s.docs[p.doc].generation
                 l == s.docs[p.doc].slices
                 x == a[p.doc]
                 y == z[p.doc]
      <4>1. s.docs[p.doc] \in DocRecords BY <1>6, <2>3
      <4>2. g \in Nat /\ l \in Seq(Slices) /\ was \in BOOLEAN BY <4>1 DEF DocRecords
      <4>3. x = [generation |-> g, slices |-> l, open |-> was] /\ y = [generation |-> g, slices |-> l, open |-> FALSE]
        BY <3>b, <3>c
      <4> HIDE DEF was, g, l, x, y
      <4>4. /\ x \in DocRecords /\ y \in DocRecords
            /\ y.generation = x.generation /\ y.slices = x.slices /\ y.open = FALSE
        BY <4>2, <4>3 DEF DocRecords
      <4>5. y = [x EXCEPT !.open = FALSE] BY <4>4 DEF DocRecords
      <4> QED BY <4>5 DEF x, y
    <3>4. z = [d \in DOMAIN z |-> z[d]] BY DEF DocsAfter
    <3>5. w = [d \in DOMAIN a |-> IF d = p.doc THEN [a[p.doc] EXCEPT !.open = FALSE] ELSE a[d]]
      BY DEF DocsAfter
    <3> HIDE DEF a, z, w
    <3>6. \A d \in DOMAIN a : (IF d = p.doc THEN [a[p.doc] EXCEPT !.open = FALSE] ELSE a[d]) = z[d]
      BY <3>2, <3>3
    <3>7. w = [d \in DOMAIN a |-> z[d]] BY <3>5, <3>6
    <3> QED BY <3>1, <3>4, <3>7
  <2>8. w \in Maps(Docs, DocRecords)
    <3>1. t.docs \in [DOMAIN t.docs -> DocRecords] /\ DOMAIN t.docs \subseteq Docs BY <1>t, MapFacts
    <3>2. a \in [DOMAIN a -> DocRecords] /\ DOMAIN a \subseteq Docs BY <3>1, <1>5
    <3> HIDE DEF a
    <3>3. [a[p.doc] EXCEPT !.open = FALSE] \in DocRecords BY <3>2, <2>4 DEF DocRecords
    <3>4. w \in [DOMAIN a -> DocRecords] BY <3>2, <3>3
    <3> QED BY <3>2, <3>4, MapFacts
  <2>9. u \in States /\ u.rows = t.rows /\ u.next = t.next /\ u.docs = w
        /\ u.last = t.last /\ u.reserved = t.reserved
    <3> HIDE DEF a
    <3>1. u = [t EXCEPT !.docs = w] BY <2>6, <1>5 DEF States
    <3> HIDE DEF w, u
    <3> QED BY <3>1, <2>8, <1>5, <1>t DEF States
  <2> QED BY <2>5, <2>7, <2>9, <1>3, <1>5, <1>11 DEF Part
<1>12. p.kind \in {"row", "document", "retire"} BY <1>1 DEF RecordLines, RowLines, DocLines, RetireLines
<1> QED BY <1>9, <1>10, <1>11, <1>12

\* A plan applies, whole, to a state that has room for it.
LEMMA PlanApplies ==
  ASSUME NEW s \in States, NEW plan, NEW seq, NEW C, NEW X, Planned(plan, seq, C, X), Fits(s, plan, C, X)
  PROVE  ApplyAll(s, plan).ok /\ Part(s, plan, X, Len(plan), ApplyAll(s, plan).st)
         /\ ApplyAll(s, plan) = [ok |-> TRUE, st |-> ApplyAll(s, plan).st]
<1> DEFINE Good(k) == /\ ApplyAll(s, Cut(plan, k)) = [ok |-> TRUE, st |-> ApplyAll(s, Cut(plan, k)).st]
                      /\ Part(s, plan, X, k, ApplyAll(s, Cut(plan, k)).st)
           T == {k \in Nat : k <= Len(plan) => Good(k)}
<1>1. plan \in Seq(RecordLines) /\ Len(plan) \in Nat BY DEF Planned
<1>2. 0 \in T
  <2>1. ApplyAll(s, Cut(plan, 0)) = [ok |-> TRUE, st |-> s] BY <1>1, CutFacts, ApplySteps DEF Begun
  <2>2. ApplyAll(s, Cut(plan, 0)).st = s BY <2>1
  <2>3. Good(0) BY <2>1, <2>2, PartBegins
  <2> QED BY <2>3
<1>3. ASSUME NEW k \in Nat, k \in T PROVE k + 1 \in T
  <2> SUFFICES ASSUME k + 1 <= Len(plan) PROVE Good(k + 1) OBVIOUS
  <2>1. k \in 0..(Len(plan) - 1) /\ k \in 0..Len(plan) /\ k + 1 \in 1..Len(plan) BY <1>1
  <2> DEFINE c == Cut(plan, k)
             r == ApplyAll(s, c)
  <2>2. r = [ok |-> TRUE, st |-> r.st] /\ Part(s, plan, X, k, r.st) BY <1>3, <2>1
  <2>3. Cut(plan, k + 1) = Append(c, plan[k + 1]) /\ c \in Seq(RecordLines) /\ plan[k + 1] \in RecordLines
    BY <1>1, <2>1, CutFacts
  <2> HIDE DEF c
  <2>4. ApplyAll(s, Cut(plan, k + 1)) = ApplyNext(r, plan[k + 1])
    <3>1. ApplyAll(s, Append(c, plan[k + 1])) = ApplyNext(ApplyAll(s, c), plan[k + 1]) BY <2>3, ApplySteps
    <3> QED BY <3>1, <2>3
  <2> HIDE DEF r
  <2>5. Applicable(r.st, plan[k + 1]) /\ Part(s, plan, X, k + 1, Apply(r.st, plan[k + 1])) BY <2>1, <2>2, PartStep
  <2>6. ApplyAll(s, Cut(plan, k + 1)) = [ok |-> TRUE, st |-> Apply(r.st, plan[k + 1])]
    BY <2>2, <2>4, <2>5 DEF ApplyNext
  <2>7. ApplyAll(s, Cut(plan, k + 1)).st = Apply(r.st, plan[k + 1]) BY <2>6
  <2> QED BY <2>5, <2>6, <2>7
<1>4. Nat \subseteq T
  <2> HIDE DEF T
  <2> QED BY <1>2, <1>3, NatSetInduction
<1>5. Good(Len(plan)) BY <1>1, <1>4
<1>6. Cut(plan, Len(plan)) = plan BY <1>1, CutFacts
<1>7. ApplyAll(s, plan) = [ok |-> TRUE, st |-> ApplyAll(s, plan).st] BY <1>5, <1>6
<1>8. ApplyAll(s, plan).ok BY <1>7
<1> QED BY <1>5, <1>6, <1>7, <1>8

GenerationOf(docs, d) == IF d \in DOMAIN docs THEN docs[d].generation ELSE 0
SlicesOf(docs, d)     == IF d \in DOMAIN docs THEN docs[d].slices ELSE <<>>
OpenAfter(docs, X, d) == IF d \in X THEN FALSE ELSE IF d \in DOMAIN docs THEN docs[d].open ELSE TRUE

SliceOf(seq, ends, d) == [seq |-> seq, end |-> ends[d].end, base |-> ends[d].base]

\* The documents after a commit that creates C, retires X and writes those that have ends.
DocsCommitted(docs, C, X, seq, ends) ==
  [d \in DOMAIN docs \cup C |->
     [generation |-> GenerationOf(docs, d),
      slices     |-> IF d \in DOMAIN ends THEN Append(SlicesOf(docs, d), SliceOf(seq, ends, d))
                     ELSE SlicesOf(docs, d),
      open       |-> OpenAfter(docs, X, d)]]

\* The state after a commit.
Committed(s, plan, C, X, seq, ends, u) ==
  /\ u \in States
  /\ u.last = seq /\ u.reserved = s.reserved
  /\ u.rows = s.rows \cup RowIds(plan, Len(plan))
  /\ u.docs = DocsCommitted(s.docs, C, X, seq, ends)
  /\ NextAfter(s.next, RowIds(plan, Len(plan)), u.next)

\* The marker fits: it is the next one, and every document it names has grown.
Publishes(s, C, seq, ends) ==
  /\ seq \in Nat /\ seq > s.last
  /\ ends \in Ends /\ DOMAIN ends \subseteq DOMAIN s.docs \cup C
  /\ \A d \in DOMAIN ends : ends[d].end = Len(SlicesOf(s.docs, d)) + 1

\* A state whose documents hang together, one record a slice.
Sound(s, one) ==
  /\ s \in States
  /\ Addressed(s.docs, one)
  /\ \A d \in DOMAIN s.docs : Numbered(s.docs[d].slices) /\ s.docs[d].slices # <<>>

\* Applying a commit's lines to a state that they fit makes the state of the commit.
LEMMA CommitApplies ==
  ASSUME NEW s, NEW one, Sound(s, one), NEW plan, NEW seq, NEW C, NEW X, NEW ends,
         Planned(plan, seq, C, X), Fits(s, plan, C, X), Publishes(s, C, seq, ends)
  PROVE  LET r == ApplyAll(s, Append(plan, Marker(seq, Len(plan), ends)))
         IN  r = [ok |-> TRUE, st |-> r.st] /\ Committed(s, plan, C, X, seq, ends, r.st)
<1> DEFINE m == Marker(seq, Len(plan), ends)
           n == Len(plan)
           q == ApplyAll(s, plan)
           t == q.st
           r == ApplyAll(s, Append(plan, m))
           z == DocsCommitted(s.docs, C, X, seq, ends)
<1>1. s \in States /\ plan \in Seq(RecordLines) /\ n \in Nat BY DEF Sound, Planned
<1>2. q.ok /\ q = [ok |-> TRUE, st |-> t] /\ Part(s, plan, X, n, t) BY <1>1, PlanApplies
<1>3. r = ApplyNext(q, m)
  <2> DEFINE M == RecordLines \cup {m}
  <2>1. plan \in Seq(M) /\ m \in M BY <1>1
  <2> HIDE DEF m, M
  <2> QED BY <2>1, ApplySteps
<1>4. m.kind = "marker" /\ m.seq = seq /\ m.docs = ends BY DEF Marker
<1>5. s.docs \in [DOMAIN s.docs -> DocRecords] /\ DOMAIN s.docs \subseteq Docs /\ C \subseteq Docs
  BY <1>1, MapFacts DEF States, Fits
<1>6. C \cap DOMAIN s.docs = {} BY DEF Fits
<1>7. NewDocs(plan, n) = C /\ Closing(plan, n) = X \ C BY DEF Planned
<1>8. /\ t \in States /\ t.last = s.last /\ t.reserved = s.reserved
      /\ t.rows = s.rows \cup RowIds(plan, n) /\ t.docs = DocsAfter(s.docs, plan, X, n)
      /\ NextAfter(s.next, RowIds(plan, n), t.next)
  BY <1>2 DEF Part
<1> DEFINE a == DocsAfter(s.docs, plan, X, n)
<1>9. DOMAIN a = DOMAIN s.docs \cup C BY <1>7 DEF DocsAfter
<1>10. \A d \in DOMAIN a : a[d] = [generation |-> GenerationOf(s.docs, d), slices |-> SlicesOf(s.docs, d),
                                   open |-> OpenAfter(s.docs, X, d)]
  <2> TAKE d \in DOMAIN a
  <2>1. CASE d \in DOMAIN s.docs
    <3>1. d \in X <=> d \in X \ C BY <2>1, <1>6
    <3> QED BY <2>1, <3>1, <1>7, <1>9 DEF DocsAfter, GenerationOf, SlicesOf, OpenAfter
  <2>2. CASE d \notin DOMAIN s.docs BY <2>2, <1>9 DEF DocsAfter, GenerationOf, SlicesOf, OpenAfter
  <2> QED BY <2>1, <2>2
<1>11. \A d \in DOMAIN s.docs \cup C : /\ GenerationOf(s.docs, d) \in Nat /\ SlicesOf(s.docs, d) \in Seq(Slices)
                                       /\ OpenAfter(s.docs, X, d) \in BOOLEAN
                                       /\ Numbered(SlicesOf(s.docs, d))
  <2> TAKE d \in DOMAIN s.docs \cup C
  <2>1. CASE d \in DOMAIN s.docs
    <3>1. s.docs[d] \in DocRecords BY <2>1, <1>5
    <3>2. s.docs[d].open \in BOOLEAN /\ s.docs[d].generation \in Nat /\ s.docs[d].slices \in Seq(Slices)
      BY <3>1 DEF DocRecords
    <3>3. Numbered(s.docs[d].slices) BY <2>1 DEF Sound
    <3> QED BY <2>1, <3>2, <3>3 DEF GenerationOf, SlicesOf, OpenAfter
  <2>2. CASE d \notin DOMAIN s.docs BY <2>2 DEF GenerationOf, SlicesOf, OpenAfter, Numbered
  <2> QED BY <2>1, <2>2
<1>12. ends \in [DOMAIN ends -> [end : Nat, base : BOOLEAN]] /\ DOMAIN ends \subseteq DOMAIN s.docs \cup C
  BY MapFacts DEF Ends, Publishes
<1>13. \A d \in DOMAIN ends : d \in DOMAIN a /\ ends[d].end > End(a[d])
  <2> TAKE d \in DOMAIN ends
  <2>1. d \in DOMAIN a BY <1>9, <1>12
  <2>2. a[d].slices = SlicesOf(s.docs, d)
    <3> HIDE DEF a
    <3> QED BY <2>1, <1>10
  <2>3. a[d].slices \in Seq(Slices) /\ Numbered(a[d].slices) BY <2>1, <2>2, <1>9, <1>11
  <2> HIDE DEF a
  <2>4. End(a[d]) = Len(a[d].slices) BY <2>3, EndFacts
  <2>5. ends[d].end = Len(a[d].slices) + 1 BY <2>2 DEF Publishes
  <2> QED BY <2>1, <2>3, <2>4, <2>5
<1>14. seq > t.last BY <1>8 DEF Publishes
<1>15. Applicable(t, m)
  <2> HIDE DEF a, m, t
  <2> QED BY <1>4, <1>8, <1>13, <1>14 DEF Applicable, a
<1>16. r = [ok |-> TRUE, st |-> Apply(t, m)] /\ r.ok /\ r.st = Apply(t, m)
  <2> HIDE DEF r, q, t, m
  <2> QED BY <1>2, <1>3, <1>15 DEF ApplyNext
<1>17. Apply(t, m) = [t EXCEPT !.last = seq, !.docs = WithSlices(t.docs, m)]
  <2> HIDE DEF t, m
  <2> QED BY <1>4 DEF Apply
<1>18. z \in Maps(Docs, DocRecords)
  <2>1. ASSUME NEW d \in DOMAIN s.docs \cup C PROVE z[d] \in DocRecords
    <3>1. d \in DOMAIN ends => SliceOf(seq, ends, d) \in Slices BY <1>12 DEF SliceOf, Slices, Publishes
    <3>2. (IF d \in DOMAIN ends THEN Append(SlicesOf(s.docs, d), SliceOf(seq, ends, d)) ELSE SlicesOf(s.docs, d)) \in Seq(Slices)
      BY <3>1, <1>11
    <3> QED BY <3>2, <1>11 DEF DocsCommitted, DocRecords
  <2>2. DOMAIN z = DOMAIN s.docs \cup C /\ z \in [DOMAIN s.docs \cup C -> DocRecords] BY <2>1 DEF DocsCommitted
  <2>3. DOMAIN s.docs \cup C \in SUBSET Docs BY <1>5
  <2> HIDE DEF z
  <2> QED BY <2>2, <2>3, MapFacts
<1>19. WithSlices(t.docs, m) = z
  <2>1. WithSlices(a, m) = [d \in DOMAIN a |->
           IF d \in DOMAIN ends THEN [a[d] EXCEPT !.slices = Append(@, SliceOf(seq, ends, d))] ELSE a[d]]
    <3> HIDE DEF a, m
    <3> QED BY <1>4 DEF WithSlices, SliceOf
  <2>2. \A d \in DOMAIN a :
          (IF d \in DOMAIN ends THEN [a[d] EXCEPT !.slices = Append(@, SliceOf(seq, ends, d))] ELSE a[d]) = z[d]
    <3> TAKE d \in DOMAIN a
    <3> DEFINE g == GenerationOf(s.docs, d)
               l == SlicesOf(s.docs, d)
               o == OpenAfter(s.docs, X, d)
               x == SliceOf(seq, ends, d)
    <3>1. d \in DOMAIN s.docs \cup C BY <1>9
    <3>2. a[d] = [generation |-> g, slices |-> l, open |-> o] BY <1>10
    <3>3. z[d] = [generation |-> g, slices |-> IF d \in DOMAIN ends THEN Append(l, x) ELSE l, open |-> o]
      BY <3>1 DEF DocsCommitted
    <3>4. g \in Nat /\ l \in Seq(Slices) /\ o \in BOOLEAN BY <3>1, <1>11
    <3> HIDE DEF g, l, o, x, a, z
    <3>5. a[d] \in DocRecords BY <3>2, <3>4 DEF DocRecords
    <3>6. CASE d \in DOMAIN ends
      <4>1. z[d].slices = Append(a[d].slices, x) /\ z[d].generation = a[d].generation /\ z[d].open = a[d].open
            /\ z[d] = [generation |-> g, slices |-> Append(l, x), open |-> o] /\ a[d].slices = l
        BY <3>2, <3>3, <3>6
      <4> DEFINE new == Append(l, x)
      <4>2. [a[d] EXCEPT !.slices = Append(@, x)] = [a[d] EXCEPT !.slices = new] BY <4>1
      <4> HIDE DEF new
      <4>3. [a[d] EXCEPT !.slices = new] = [generation |-> g, slices |-> new, open |-> o] BY <3>2, <3>5 DEF DocRecords
      <4> QED BY <4>1, <4>2, <4>3, <3>6 DEF x, new
    <3>7. CASE d \notin DOMAIN ends BY <3>2, <3>3, <3>7
    <3> QED BY <3>6, <3>7
  <2>3. z = [d \in DOMAIN a |-> z[d]] BY <1>9 DEF DocsCommitted
  <2>4. t.docs = a BY <1>8
  <2> HIDE DEF a, z, t, m
  <2> QED BY <2>1, <2>2, <2>3, <2>4
<1> DEFINE u == [t EXCEPT !.last = seq, !.docs = z]
<1>20. r.st = u
  <2> HIDE DEF r, t, m, z
  <2> QED BY <1>16, <1>17, <1>19 DEF u
<1>21. u \in States /\ u.last = seq /\ u.docs = z /\ u.rows = t.rows /\ u.reserved = t.reserved /\ u.next = t.next
  <2>1. seq \in Nat BY DEF Publishes
  <2> HIDE DEF t, z
  <2> QED BY <2>1, <1>8, <1>18 DEF States
<1> HIDE DEF u, r, t, z
<1>22. Committed(s, plan, C, X, seq, ends, u) BY <1>8, <1>21 DEF Committed, z
<1>23. r = [ok |-> TRUE, st |-> r.st] BY <1>16
<1> QED BY <1>20, <1>22, <1>23 DEF r, m

\* A commit takes a state that hangs together to another, if the addresses are free.
LEMMA SoundAfter ==
  ASSUME NEW s, NEW one, Sound(s, one), NEW plan, NEW seq, NEW C, NEW X, NEW ends, NEW u,
         Fits(s, plan, C, X), Publishes(s, C, seq, ends), Committed(s, plan, C, X, seq, ends, u),
         C \subseteq DOMAIN ends,
         one => \A d \in C : Live(s) \subseteq X /\ \A e \in C : e = d
  PROVE  Sound(u, one)
<1> DEFINE z == DocsCommitted(s.docs, C, X, seq, ends)
<1>1. u \in States /\ u.docs = z BY DEF Committed
<1>2. s \in States /\ DOMAIN z = DOMAIN s.docs \cup C BY DEF Sound, DocsCommitted
<1>3. s.docs \in [DOMAIN s.docs -> DocRecords] BY <1>2, MapFacts DEF States
<1>4. \A d \in DOMAIN z : z[d].open = OpenAfter(s.docs, X, d) BY DEF DocsCommitted
<1>5. \A d \in DOMAIN z : z[d].slices = IF d \in DOMAIN ends THEN Append(SlicesOf(s.docs, d), SliceOf(seq, ends, d))
                                       ELSE SlicesOf(s.docs, d)
  BY DEF DocsCommitted
<1> HIDE DEF z
<1>6. Addressed(z, one)
  <2> SUFFICES ASSUME one, NEW d \in DOMAIN z, NEW e \in DOMAIN z, z[d].open, z[e].open PROVE d = e
    BY DEF Addressed
  <2>1. d \notin X /\ e \notin X BY <1>4 DEF OpenAfter
  <2>2. d \notin C => d \in Live(s) BY <1>2, <1>4, <2>1 DEF OpenAfter, Live
  <2>3. e \notin C => e \in Live(s) BY <1>2, <1>4, <2>1 DEF OpenAfter, Live
  <2>4. CASE d \in C \/ e \in C BY <2>1, <2>2, <2>3, <2>4
  <2>5. CASE d \notin C /\ e \notin C BY <2>2, <2>3, <2>5 DEF Sound, Addressed, Live
  <2> QED BY <2>4, <2>5
<1>7. ASSUME NEW d \in DOMAIN z PROVE Numbered(z[d].slices) /\ z[d].slices # <<>>
  <2> DEFINE l == SlicesOf(s.docs, d)
             x == SliceOf(seq, ends, d)
  <2>1. l \in Seq(Slices) /\ Numbered(l)
    <3>1. CASE d \in DOMAIN s.docs BY <3>1, <1>3 DEF Sound, SlicesOf, DocRecords
    <3>2. CASE d \notin DOMAIN s.docs BY <3>2 DEF SlicesOf, Numbered
    <3> QED BY <3>1, <3>2
  <2>2. CASE d \in DOMAIN ends
    <3>1. x.end = Len(l) + 1 BY <2>2 DEF Publishes, SliceOf
    <3>2. z[d].slices = Append(l, x) BY <1>5, <2>2
    <3> HIDE DEF l, x
    <3> DEFINE y == Append(l, x)
    <3>3. Len(y) = Len(l) + 1 /\ Len(l) \in Nat /\ y[Len(l) + 1] = x /\ \A i \in 1..Len(l) : y[i] = l[i]
      BY <2>1
    <3> HIDE DEF y
    <3>4. \A i \in 1..Len(y) : y[i].end = i
      <4> TAKE i \in 1..Len(y)
      <4>1. i \in 1..Len(l) \/ i = Len(l) + 1 BY <3>3
      <4> QED BY <4>1, <3>1, <3>3, <2>1 DEF Numbered
    <3>5. y # <<>> BY <3>3
    <3> QED BY <3>2, <3>4, <3>5 DEF y, Numbered
  <2>3. CASE d \notin DOMAIN ends
    <3>1. d \in DOMAIN s.docs BY <1>2, <2>3
    <3> QED BY <3>1, <1>5, <2>3 DEF Sound, SlicesOf
  <2> QED BY <2>2, <2>3
<1> QED BY <1>1, <1>6, <1>7 DEF Sound

\* What the open store's state has in common with a recovery's: all but the ids, of which
\* recovery spends whole blocks.
Agrees(s, t) ==
  /\ s.last = t.last /\ s.rows = t.rows /\ s.docs = t.docs
  /\ s.next <= t.next /\ s.reserved < t.next

\* A commit keeps two states in step.
LEMMA AgreeAfter ==
  ASSUME NEW s \in States, NEW t \in States, Agrees(s, t), NEW plan \in Seq(RecordLines), NEW seq, NEW C, NEW X,
         NEW ends, NEW u, NEW v,
         Committed(s, plan, C, X, seq, ends, u), Committed(t, plan, C, X, seq, ends, v)
  PROVE  Agrees(u, v)
<1>1. s.next \in Nat /\ t.next \in Nat /\ s.reserved \in Nat BY DEF States
<1>2. Len(plan) \in 0..Len(plan) OBVIOUS
<1>3. RowIds(plan, Len(plan)) \in SUBSET Nat BY <1>2, SaysTypes
<1>4. u.next <= v.next BY <1>1, <1>3, NextOrder DEF Committed, Agrees
<1>5. v.next \in Nat /\ v.next >= t.next BY DEF Committed, NextAfter
<1>6. u.reserved < v.next BY <1>1, <1>5 DEF Committed, Agrees
<1> QED BY <1>4, <1>6 DEF Committed, Agrees

\* ...and what fits the one fits the other.
LEMMA AgreeFits ==
  ASSUME NEW s, NEW t, Agrees(s, t), NEW plan, NEW C, NEW X, NEW seq, NEW ends
  PROVE  /\ Fits(s, plan, C, X) => Fits(t, plan, C, X)
         /\ Publishes(s, C, seq, ends) => Publishes(t, C, seq, ends)
         /\ Live(s) = Live(t)
BY DEF Agrees, Fits, Publishes, Live

-----------------------------------------------------------------------------
(* Logs. *)

\* The lines a log's lines are of.
LEMMA LineKinds ==
  /\ \A x \in Lines : x.kind \in {"torn", "row", "document", "retire", "marker", "mint", "reclaim"}
  /\ \A x \in Lines : x.kind = "marker" => x \in MarkerLines
  /\ \A x \in Lines : x.kind = "torn" <=> x = Torn
  /\ \A x \in RecordLines : x \in Lines /\ x.kind \in {"row", "document", "retire"}
  /\ \A x \in MarkerLines \cup MintLines \cup ReclaimLines : x \in Lines
  /\ Torn \in Lines
  /\ RecordLines \subseteq Lines
BY DEF Lines, RecordLines, RowLines, DocLines, RetireLines, MarkerLines, MintLines, ReclaimLines, Torn

\* The markers of a log that goes on.
LEMMA MarkersAppend ==
  ASSUME NEW M, NEW L \in Seq(M), NEW x \in M
  PROVE  Markers(Append(L, x)) = IF x.kind = "marker" THEN Append(Markers(L), x) ELSE Markers(L)
<1> DEFINE t == Append(L, x)
           A == {line \in ToSet(t) : line.kind = "marker"}
           B == {line \in ToSet(L) : line.kind = "marker"}
<1>1. ToSet(t) = ToSet(L) \cup {x} BY ToSetFacts
<1>2. \A y \in ToSet(L) : y \in A <=> y \in B BY <1>1
<1>3. Filter(L, A) = Filter(L, B)
  <2> HIDE DEF A, B
  <2> QED BY <1>2, FilterSame
<1>4. Filter(t, A) = IF x \in A THEN Append(Filter(L, A), x) ELSE Filter(L, A)
  <2> HIDE DEF A
  <2> QED BY FilterAppend
<1>5. x \in A <=> x.kind = "marker" BY <1>1
<1> HIDE DEF A, B, t
<1>6. Markers(t) = Filter(t, A) /\ Markers(L) = Filter(L, B) BY DEF Markers, A, B
<1> QED BY <1>3, <1>4, <1>5, <1>6 DEF t

\* The markers of a log are markers.
LEMMA MarkersType ==
  ASSUME NEW L \in Seq(Lines)
  PROVE  Markers(L) \in Seq(MarkerLines)
<1> DEFINE B == {line \in ToSet(L) : line.kind = "marker"}
<1>1. Filter(L, B) \in Seq(Lines \cap B)
  <2> HIDE DEF B
  <2> QED BY FilterType
<1>2. Lines \cap B \subseteq MarkerLines BY LineKinds
<1> HIDE DEF B
<1>3. Filter(L, B) \in Seq(MarkerLines) BY <1>1, <1>2, SeqMonotonic
<1> QED BY <1>3 DEF Markers, B

\* A later point of a log confirms no less and tells the same history so far.
Grows(r1, r2) == r1.confirmed <= r2.confirmed /\ IsPrefix(r1.commits, r2.commits)

\* A log that recovery reads to its end, and what it reads from it.
Whole(L, one) ==
  LET r == Replay(L)
      q == Replay(Cut(L, r.confirmed))
      M == Markers(L)
  IN  /\ r \in Points /\ r.ok
      /\ Sound(r.st, one)
      /\ r.st.reserved < r.st.next
      /\ r.st.last = Len(r.commits)
      /\ r.read = IF EndsTorn(L) THEN Len(L) - 1 ELSE Len(L)
      /\ r.confirmed <= r.read
      /\ q.st = r.st /\ q.commits = r.commits /\ q.pending = <<>> /\ q.confirmed = r.confirmed
      /\ Len(M) = r.st.last
      /\ \A i \in 1..Len(M) : M[i].seq = i

\* One that is, at every point, and that only grows.
GoodLog(L, one) ==
  /\ L \in Seq(Lines)
  /\ \A n \in 0..Len(L) : Whole(Cut(L, n), one)
  /\ \A n \in 0..Len(L) : \A m \in 0..n : Grows(Replay(Cut(L, m)), Replay(Cut(L, n)))

\* What is true of every prefix is true of the log.
LEMMA LogWhole ==
  ASSUME NEW L, NEW one, GoodLog(L, one)
  PROVE  /\ L \in Seq(Lines) /\ Whole(L, one) /\ Len(L) \in Nat
         /\ \A m \in 0..Len(L) : Grows(Replay(Cut(L, m)), Replay(L))
<1>1. L \in Seq(Lines) /\ Len(L) \in 0..Len(L) /\ Len(L) \in Nat BY DEF GoodLog
<1>2. Cut(L, Len(L)) = L BY <1>1, CutFacts
<1>3. Whole(Cut(L, Len(L)), one) /\ \A m \in 0..Len(L) : Grows(Replay(Cut(L, m)), Replay(Cut(L, Len(L))))
  BY <1>1 DEF GoodLog
<1> QED BY <1>1, <1>2, <1>3

\* A prefix of a good log is a good log.
LEMMA LogPrefix ==
  ASSUME NEW L, NEW one, GoodLog(L, one), NEW n \in 0..Len(L)
  PROVE  GoodLog(Cut(L, n), one) /\ Len(Cut(L, n)) = n
<1> DEFINE c == Cut(L, n)
<1>1. L \in Seq(Lines) BY DEF GoodLog
<1>2. c \in Seq(Lines) /\ Len(c) = n BY <1>1, CutFacts
<1>3. \A m \in 0..n : Cut(c, m) = Cut(L, m) /\ m \in 0..Len(L) BY <1>1, CutFacts
<1> HIDE DEF c
<1>4. \A m \in 0..n : Whole(Cut(c, m), one) BY <1>3 DEF GoodLog
<1>5. \A m \in 0..n : \A k \in 0..m : Grows(Replay(Cut(c, k)), Replay(Cut(c, m)))
  <2> TAKE m \in 0..n
  <2> TAKE k \in 0..m
  <2>1. k \in 0..n BY <1>1
  <2> QED BY <2>1, <1>3 DEF GoodLog
<1>6. GoodLog(c, one) BY <1>2, <1>4, <1>5 DEF GoodLog
<1> QED BY <1>2, <1>6 DEF c

\* A line that keeps the log whole, and the replay growing, keeps the log good.
LEMMA LogExtends ==
  ASSUME NEW L, NEW one, GoodLog(L, one), NEW x \in Lines,
         Whole(Append(L, x), one), Grows(Replay(L), Replay(Append(L, x)))
  PROVE  GoodLog(Append(L, x), one)
<1> DEFINE t == Append(L, x)
           N == Len(L)
<1>1. L \in Seq(Lines) /\ N \in Nat BY DEF GoodLog
<1>2. t \in Seq(Lines) /\ Len(t) = N + 1 BY <1>1
<1>3. \A n \in 0..N : Cut(t, n) = Cut(L, n) BY <1>1, CutFacts
<1>4. Cut(t, N + 1) = t /\ Cut(L, N) = L BY <1>1, <1>2, CutFacts
<1>5. \A n \in 0..N : Replay(Cut(L, n)) \in Points
  <2> TAKE n \in 0..N
  <2>1. Whole(Cut(L, n), one) BY DEF GoodLog
  <2> QED BY <2>1 DEF Whole
<1>6. Replay(t) \in Points BY DEF Whole
<1> HIDE DEF t
<1>7. \A n \in 0..(N + 1) : Whole(Cut(t, n), one)
  <2> TAKE n \in 0..(N + 1)
  <2>1. n \in 0..N \/ n = N + 1 BY <1>1
  <2>2. Whole(t, one) BY DEF t
  <2> QED BY <2>1, <2>2, <1>3, <1>4 DEF GoodLog
<1>8. ASSUME NEW n \in 0..(N + 1), NEW m \in 0..n PROVE Grows(Replay(Cut(t, m)), Replay(Cut(t, n)))
  <2>1. CASE n \in 0..N
    <3>1. m \in 0..N BY <2>1
    <3> QED BY <2>1, <3>1, <1>3 DEF GoodLog
  <2>2. CASE n = N + 1
    <3>1. CASE m = N + 1 BY <2>2, <3>1, <1>4, <1>6, PrefixFacts DEF Grows, Points
    <3>2. CASE m # N + 1
      <4>1. m \in 0..N /\ N \in 0..N BY <3>2, <2>2, <1>1
      <4> DEFINE a == Replay(Cut(L, m))
                 b == Replay(L)
                 c == Replay(t)
      <4>2. a \in Points /\ b \in Points /\ c \in Points BY <4>1, <1>4, <1>5, <1>6
      <4>3. Grows(a, b)
        <5>1. Grows(Replay(Cut(L, m)), Replay(Cut(L, N))) BY <4>1 DEF GoodLog
        <5> QED BY <5>1, <1>4
      <4>4. Grows(b, c) BY DEF t
      <4>5. Cut(t, m) = Cut(L, m) BY <4>1, <1>3
      <4> HIDE DEF a, b, c
      <4>6. Grows(a, c) BY <4>2, <4>3, <4>4, PrefixFacts DEF Grows, Points
      <4> QED BY <4>5, <4>6, <2>2, <1>4 DEF a, c
    <3> QED BY <3>1, <3>2
  <2> QED BY <2>1, <2>2, <1>1
<1>9. GoodLog(t, one) BY <1>2, <1>7, <1>8 DEF GoodLog
<1> QED BY <1>9 DEF t

\* A log ends torn when its last line is torn.
LEMMA TornLast ==
  /\ ~EndsTorn(<<>>)
  /\ \A L \in Seq(Lines), x \in Lines : EndsTorn(Append(L, x)) <=> x = Torn
<1>1. ~EndsTorn(<<>>) BY DEF EndsTorn
<1>2. ASSUME NEW L \in Seq(Lines), NEW x \in Lines PROVE EndsTorn(Append(L, x)) <=> x = Torn
  <2> DEFINE t == Append(L, x)
  <2>1. t # <<>> /\ t[Len(t)] = x OBVIOUS
  <2> HIDE DEF t
  <2>2. EndsTorn(t) <=> x = Torn BY <2>1 DEF EndsTorn, Last
  <2> QED BY <2>2 DEF t
<1> QED BY <1>1, <1>2

\* The next line is read from where the log's replay has come to.
LEMMA ReplayAppend ==
  ASSUME NEW L \in Seq(Lines), NEW x \in Lines
  PROVE  Replay(Append(L, x)) = ReplayLine(Replay(L), x)
BY ReplaySteps

\* A line that confirms nothing leaves a good log.
LEMMA LogKept ==
  ASSUME NEW L, NEW one, GoodLog(L, one), ~EndsTorn(L), NEW x \in Lines, x.kind # "marker",
         NEW p, p = Replay(Append(L, x)), p \in Points, p.ok,
         p.st = Replay(L).st, p.commits = Replay(L).commits, p.confirmed = Replay(L).confirmed,
         p.read = IF x = Torn THEN Len(L) ELSE Len(L) + 1
  PROVE  GoodLog(Append(L, x), one) /\ Markers(Append(L, x)) = Markers(L)
<1> DEFINE t == Append(L, x)
           r == Replay(L)
           c == r.confirmed
<1>1. L \in Seq(Lines) /\ Whole(L, one) /\ Len(L) \in Nat BY LogWhole
<1>2. /\ r \in Points /\ Sound(r.st, one) /\ r.st.reserved < r.st.next /\ r.st.last = Len(r.commits)
      /\ r.read = Len(L) /\ c <= r.read /\ c \in Nat
  BY <1>1 DEF Whole, Points
<1>3. c \in 0..Len(L) BY <1>1, <1>2
<1>4. Cut(t, c) = Cut(L, c) BY <1>1, <1>3, CutFacts
<1>5. EndsTorn(t) <=> x = Torn BY <1>1, TornLast
<1>6. Markers(t) = Markers(L) BY <1>1, MarkersAppend
<1>7. Len(t) = Len(L) + 1 BY <1>1
<1> HIDE DEF t
<1>8. p.confirmed <= p.read BY <1>1, <1>2
<1>9. p.read = IF EndsTorn(t) THEN Len(t) - 1 ELSE Len(t) BY <1>1, <1>5, <1>7
<1>10. Replay(t) = p BY DEF t
<1>11. Whole(t, one) BY <1>1, <1>2, <1>4, <1>6, <1>8, <1>9, <1>10 DEF Whole
<1>12. Grows(r, p) BY <1>2, PrefixFacts DEF Grows, Points
<1>13. GoodLog(t, one) BY <1>10, <1>11, <1>12, LogExtends DEF t
<1> QED BY <1>6, <1>13 DEF t

\* So does a line that confirms itself and everything before it.
LEMMA LogConfirmed ==
  ASSUME NEW L, NEW one, GoodLog(L, one), ~EndsTorn(L), NEW x \in Lines, x # Torn,
         NEW p, p = Replay(Append(L, x)), p \in Points, p.ok, p.pending = <<>>,
         p.read = Len(L) + 1, p.confirmed = Len(L) + 1,
         Sound(p.st, one), p.st.reserved < p.st.next, p.st.last = Len(p.commits),
         IsPrefix(Replay(L).commits, p.commits),
         p.st.last = Replay(L).st.last + (IF x.kind = "marker" THEN 1 ELSE 0),
         x.kind = "marker" => x.seq = p.st.last
  PROVE  GoodLog(Append(L, x), one)
<1> DEFINE t == Append(L, x)
           r == Replay(L)
           M == Markers(L)
<1>1. L \in Seq(Lines) /\ Whole(L, one) /\ Len(L) \in Nat BY LogWhole
<1>2. /\ r \in Points /\ r.confirmed <= r.read /\ r.confirmed \in Nat /\ r.read = Len(L)
      /\ Len(M) = r.st.last /\ \A i \in 1..Len(M) : M[i].seq = i
  BY <1>1 DEF Whole, Points
<1>3. t \in Seq(Lines) /\ Len(t) = Len(L) + 1 BY <1>1
<1>4. Cut(t, Len(L) + 1) = t BY <1>3, CutFacts
<1>5. ~EndsTorn(t) BY <1>1, TornLast
<1>6. Len(Markers(t)) = p.st.last /\ \A i \in 1..Len(Markers(t)) : Markers(t)[i].seq = i
  <2>1. M \in Seq(MarkerLines) BY <1>1, MarkersType
  <2>2. Markers(t) = IF x.kind = "marker" THEN Append(M, x) ELSE M BY <1>1, MarkersAppend
  <2> HIDE DEF M, t
  <2>3. CASE x.kind = "marker"
    <3>1. x \in MarkerLines BY <2>3, LineKinds
    <3> DEFINE N == Append(M, x)
    <3>2. Len(N) = Len(M) + 1 /\ N[Len(M) + 1] = x /\ \A i \in 1..Len(M) : N[i] = M[i] BY <2>1, <3>1
    <3>3. Markers(t) = N BY <2>2, <2>3
    <3> HIDE DEF N
    <3>4. Len(M) \in Nat BY <2>1
    <3>5. \A i \in 1..Len(N) : N[i].seq = i
      <4> TAKE i \in 1..Len(N)
      <4>1. i \in 1..Len(M) \/ i = Len(M) + 1 BY <3>2, <3>4
      <4> QED BY <4>1, <1>2, <2>3, <3>2
    <3> QED BY <3>2, <3>3, <3>5, <1>2, <2>3
  <2>4. CASE x.kind # "marker"
    <3>1. r.st.last \in Nat BY <1>2 DEF Points, States
    <3> QED BY <2>2, <2>4, <1>2, <3>1
  <2> QED BY <2>3, <2>4
<1> HIDE DEF t
<1>7. Replay(t) = p BY DEF t
<1>a. Replay(Cut(t, p.confirmed)) = p BY <1>4, <1>7
<1>b. p.read = IF EndsTorn(t) THEN Len(t) - 1 ELSE Len(t) BY <1>3, <1>5
<1>c. p.confirmed <= p.read BY <1>1
<1>8. Whole(t, one) BY <1>6, <1>7, <1>a, <1>b, <1>c DEF Whole
<1>9. Grows(r, p) BY <1>2 DEF Grows
<1>10. GoodLog(t, one) BY <1>7, <1>8, <1>9, LogExtends DEF t
<1> QED BY <1>10 DEF t

\* The empty log.
LEMMA LogEmpty ==
  ASSUME NEW one
  PROVE  GoodLog(<<>>, one) /\ Replay(<<>>) = ReplayStart /\ Markers(<<>>) = <<>>
<1> DEFINE L == <<>>
<1>1. L \in Seq(Lines) /\ Len(L) = 0 OBVIOUS
<1>2. Replay(L) = ReplayStart BY ReplaySteps
<1>3. Markers(L) = <<>> BY FilterEmpty DEF Markers
<1>4. Cut(L, 0) = L
  <2> HIDE DEF L
  <2> QED BY <1>1, CutFacts DEF L
<1>5. ~EndsTorn(L) BY TornLast
<1> HIDE DEF L
<1>6. Empty \in States
  <2> DEFINE m == <<>>
  <2>1. m \in [{} -> DocRecords] OBVIOUS
  <2>2. {} \in SUBSET Docs OBVIOUS
  <2> HIDE DEF m
  <2>3. m \in Maps(Docs, DocRecords) BY <2>1, <2>2, MapFacts
  <2> QED BY <2>3 DEF Empty, States, m
<1>7. DOMAIN Empty.docs = {} BY DEF Empty
<1>8. Sound(Empty, one) BY <1>6, <1>7 DEF Sound, Addressed
<1>9. ReplayStart \in Points BY <1>6 DEF ReplayStart, Points
<1>10. Whole(L, one)
  <2> DEFINE r == ReplayStart
  <2>1. /\ r.ok /\ r.st = Empty /\ r.pending = <<>> /\ r.read = 0 /\ r.confirmed = 0 /\ r.commits = <<>>
    BY DEF ReplayStart
  <2>2. Empty.reserved = 1 /\ Empty.next = 2 /\ Empty.last = 0 BY DEF Empty
  <2>3. Len(Markers(L)) = 0 BY <1>3
  <2>4. Len(r.commits) = 0 BY <2>1
  <2> HIDE DEF r
  <2>5. Replay(L) = r BY <1>2 DEF r
  <2>6. r \in Points BY <1>9 DEF r
  <2> QED BY <1>1, <1>4, <1>5, <1>8, <2>1, <2>2, <2>3, <2>4, <2>5, <2>6 DEF Whole
<1>11. Grows(Replay(L), Replay(L)) BY <1>2, <1>9, PrefixFacts DEF Grows, Points
<1>12. \A n \in 0..Len(L) : n = 0 BY <1>1
<1>13. GoodLog(L, one)
  <2>1. \A n \in 0..Len(L) : Cut(L, n) = L BY <1>4, <1>12
  <2>2. \A n \in 0..Len(L) : \A m \in 0..n : m \in 0..Len(L) BY <1>1
  <2> QED BY <1>1, <2>1, <2>2, <1>10, <1>11 DEF GoodLog
<1> QED BY <1>2, <1>3, <1>13 DEF L

\* A write cut short says nothing.
LEMMA LogCutShort ==
  ASSUME NEW L, NEW one, GoodLog(L, one)
  PROVE  /\ GoodLog(CutShort(L), one)
         /\ Replay(CutShort(L)) = Replay(L)
         /\ Markers(CutShort(L)) = Markers(L)
         /\ \A n \in 0..Len(L) : Cut(CutShort(L), n) = Cut(L, n)
         /\ Len(CutShort(L)) \in Nat /\ Len(L) <= Len(CutShort(L))
<1>1. L \in Seq(Lines) /\ Whole(L, one) /\ Len(L) \in Nat BY LogWhole
<1>2. CASE EndsTorn(L) BY <1>1, <1>2 DEF CutShort
<1>3. CASE ~EndsTorn(L)
  <2> DEFINE t == Append(L, Torn)
  <2>1. CutShort(L) = t BY <1>3 DEF CutShort
  <2>2. Torn \in Lines /\ Torn.kind = "torn" BY LineKinds DEF Torn
  <2>3. Replay(t) = Replay(L) BY <1>1, <2>2, ReplayAppend DEF ReplayLine
  <2>4. Replay(L) \in Points /\ Replay(L).ok /\ Replay(L).read = Len(L) BY <1>1, <1>3 DEF Whole
  <2>5. GoodLog(t, one) /\ Markers(t) = Markers(L)
    <3>1. Torn.kind # "marker" BY <2>2
    <3> QED BY <1>3, <2>2, <2>3, <2>4, <3>1, LogKept
  <2>6. \A n \in 0..Len(L) : Cut(t, n) = Cut(L, n) BY <1>1, <2>2, CutFacts
  <2>7. Len(t) = Len(L) + 1 BY <1>1, <2>2
  <2> HIDE DEF t
  <2> QED BY <1>1, <2>1, <2>3, <2>5, <2>6, <2>7
<1> QED BY <1>2, <1>3

\* A record line waits for its marker.
LEMMA LogPending ==
  ASSUME NEW L, NEW one, GoodLog(L, one), ~EndsTorn(L), NEW x \in RecordLines
  PROVE  LET r == Replay(L)
             p == Replay(Append(L, x))
         IN  /\ GoodLog(Append(L, x), one)
             /\ p.st = r.st /\ p.commits = r.commits /\ p.confirmed = r.confirmed
             /\ p.pending = Append(r.pending, x)
             /\ Markers(Append(L, x)) = Markers(L)
             /\ ~EndsTorn(Append(L, x))
<1> DEFINE r == Replay(L)
           p == Replay(Append(L, x))
<1>1. L \in Seq(Lines) /\ Whole(L, one) /\ Len(L) \in Nat BY LogWhole
<1>2. x \in Lines /\ x.kind \in {"row", "document", "retire"} BY LineKinds
<1>3. x # Torn BY <1>2 DEF Torn
<1>4. r \in Points /\ r.ok /\ r.read = Len(L) BY <1>1 DEF Whole
<1>5. p = ReplayLine(r, x) BY <1>1, <1>2, ReplayAppend
<1> HIDE DEF r, p
<1>6. p = [r EXCEPT !.pending = Append(@, x), !.read = @ + 1] BY <1>2, <1>4, <1>5 DEF ReplayLine
<1>7. Append(r.pending, x) \in Seq(RecordLines) /\ r.read + 1 \in Nat BY <1>4 DEF Points
<1>8. /\ p \in Points /\ p.ok /\ p.st = r.st /\ p.commits = r.commits /\ p.confirmed = r.confirmed
      /\ p.pending = Append(r.pending, x) /\ p.read = Len(L) + 1
  <2> DEFINE new == Append(r.pending, x)
             n == r.read + 1
  <2>1. p = [r EXCEPT !.pending = new, !.read = n] BY <1>6
  <2>2. new \in Seq(RecordLines) /\ n \in Nat BY <1>7
  <2>3. n = Len(L) + 1 BY <1>4
  <2> HIDE DEF new, n
  <2>4. p \in Points /\ p.ok /\ p.st = r.st /\ p.commits = r.commits /\ p.confirmed = r.confirmed
        /\ p.pending = new /\ p.read = n
    BY <2>1, <2>2, <1>4 DEF Points
  <2> QED BY <2>3, <2>4 DEF new
<1>9. GoodLog(Append(L, x), one) /\ Markers(Append(L, x)) = Markers(L)
  BY <1>2, <1>3, <1>8, LogKept DEF p, r
<1>10. ~EndsTorn(Append(L, x)) BY <1>1, <1>2, <1>3, TornLast
<1> QED BY <1>8, <1>9, <1>10 DEF p, r

\* One line, applied alone.
LEMMA OneLineApplies ==
  ASSUME NEW s, NEW x, Applicable(s, x)
  PROVE  LET a == ApplyAll(s, Append(<<>>, x)) IN a = [ok |-> TRUE, st |-> Apply(s, x)]
<1> DEFINE e == <<>>
<1>1. e \in Seq({x}) /\ x \in {x} OBVIOUS
<1>2. ApplyAll(s, e) = Begun(s) BY ApplySteps
<1> HIDE DEF e
<1>3. ApplyAll(s, Append(e, x)) = ApplyNext(ApplyAll(s, e), x) BY <1>1, ApplySteps
<1>4. ApplyNext(Begun(s), x) = [ok |-> TRUE, st |-> Apply(s, x)] BY DEF ApplyNext, Begun
<1>5. ApplyAll(s, Append(e, x)) = [ok |-> TRUE, st |-> Apply(s, x)] BY <1>2, <1>3, <1>4
<1> QED BY <1>5 DEF e

\* All that a line confirms applies, and makes a state and a history.
Confirms(r, x, s, cs) ==
  /\ ApplyAll(r.st, Append(r.pending, x)) = [ok |-> TRUE, st |-> s]
  /\ cs = IF x.kind = "marker" THEN Append(r.commits, CommitOf(r.pending, x)) ELSE r.commits

\* What a confirming line leaves.
LEMMA ConfirmFacts ==
  ASSUME NEW r \in Points, NEW x, NEW s \in States, NEW cs \in Seq(Commits), Confirms(r, x, s, cs)
  PROVE  LET p == Confirm(r, x) IN
         /\ p \in Points /\ p.ok /\ p.st = s /\ p.pending = <<>> /\ p.commits = cs
         /\ p.read = r.read + 1 /\ p.confirmed = r.read + 1
<1> DEFINE a == ApplyAll(r.st, Append(r.pending, x))
           p == Confirm(r, x)
           n == r.read + 1
           none == <<>>
           yes == a.ok
<1> /\ a = [ok |-> TRUE, st |-> s]
    /\ cs = IF x.kind = "marker" THEN Append(r.commits, CommitOf(r.pending, x)) ELSE r.commits
  BY DEF Confirms
<1>1. p = [r EXCEPT !.ok = yes, !.st = a.st, !.pending = none, !.read = @ + 1, !.confirmed = ConfirmedTo(r),
                    !.commits = IF x.kind = "marker" THEN Append(@, CommitOf(r.pending, x)) ELSE @]
  BY DEF Confirm
<1>2. n \in Nat /\ ConfirmedTo(r) = n BY DEF Points, ConfirmedTo
<1>3. none \in Seq(RecordLines) OBVIOUS
<1>4. yes = TRUE /\ a.st = s
  <2>1. a = [ok |-> TRUE, st |-> s] OBVIOUS
  <2> HIDE DEF a
  <2> QED BY <2>1 DEF yes
<1> HIDE DEF a, n, none, p, yes
<1>5. p = [r EXCEPT !.ok = yes, !.st = s, !.pending = none, !.read = n, !.confirmed = n, !.commits = cs]
  BY <1>1, <1>2, <1>4 DEF Points, a, n
<1>6. /\ p \in Points /\ p.ok = yes /\ p.st = s /\ p.pending = none /\ p.commits = cs
      /\ p.read = n /\ p.confirmed = n
  BY <1>2, <1>3, <1>4, <1>5 DEF Points
<1> QED BY <1>4, <1>6 DEF p, n, none

\* Recovery spends a reservation.
LEMMA SpendFacts ==
  ASSUME NEW s, NEW one, Sound(s, one), s.reserved < s.next, NEW high \in Nat
  PROVE  LET u == Spend(s, high) IN
         /\ Sound(u, one) /\ u.reserved < u.next
         /\ u.last = s.last /\ u.rows = s.rows /\ u.docs = s.docs
         /\ u.next >= s.next /\ u.next > high
<1> DEFINE u == Spend(s, high)
           a == Max({s.reserved, high})
           b == Max({s.next, high + 1})
<1>1. s \in States /\ s.reserved \in Nat /\ s.next \in Nat BY DEF Sound, States
<1>2. a = (IF s.reserved >= high THEN s.reserved ELSE high) /\ b = (IF s.next >= high + 1 THEN s.next ELSE high + 1)
  BY <1>1, MaxOfTwo
<1>3. u = [s EXCEPT !.reserved = a, !.next = b] BY DEF Spend
<1> HIDE DEF a, b, u
<1>4. a \in Nat /\ b \in Nat /\ a < b /\ b >= s.next /\ b > high BY <1>1, <1>2
<1>5. u \in States /\ u.reserved = a /\ u.next = b /\ u.last = s.last /\ u.rows = s.rows /\ u.docs = s.docs
  BY <1>1, <1>3, <1>4 DEF States
<1>6. Sound(u, one) BY <1>5 DEF Sound
<1> QED BY <1>4, <1>5, <1>6 DEF u

\* A Mint line, appended where nothing is pending, spends the ids and confirms the log.
LEMMA LogMint ==
  ASSUME NEW L, NEW one, GoodLog(L, one), ~EndsTorn(L), Replay(L).pending = <<>>, NEW high \in Nat
  PROVE  LET r == Replay(L)
             p == Replay(Append(L, Mint(high)))
         IN  /\ GoodLog(Append(L, Mint(high)), one)
             /\ p.st = Spend(r.st, high) /\ p.pending = <<>> /\ p.confirmed = Len(L) + 1
             /\ p.commits = r.commits
             /\ Markers(Append(L, Mint(high))) = Markers(L)
             /\ ~EndsTorn(Append(L, Mint(high)))
<1> DEFINE x == Mint(high)
           r == Replay(L)
           p == Replay(Append(L, x))
           s == Spend(r.st, high)
<1>1. L \in Seq(Lines) /\ Whole(L, one) /\ Len(L) \in Nat BY LogWhole
<1>2. x \in MintLines /\ x.kind = "mint" /\ x.high = high BY DEF Mint, MintLines
<1>3. x \in Lines /\ x # Torn BY <1>2, LineKinds DEF Torn
<1>4. /\ r \in Points /\ r.ok /\ r.read = Len(L) /\ Sound(r.st, one) /\ r.st.reserved < r.st.next
      /\ r.st.last = Len(r.commits)
  BY <1>1 DEF Whole
<1>5. p = ReplayLine(r, x) BY <1>1, <1>3, ReplayAppend
<1>6. p = Confirm(r, x)
  <2> HIDE DEF r, p, x
  <2> QED BY <1>2, <1>4, <1>5 DEF ReplayLine, r
<1>7. /\ Sound(s, one) /\ s.reserved < s.next /\ s.last = r.st.last
  BY <1>4, SpendFacts
<1> DEFINE a == ApplyAll(r.st, Append(r.pending, x))
<1>8. a = [ok |-> TRUE, st |-> s]
  <2>1. Applicable(r.st, x) /\ Apply(r.st, x) = s
    <3> HIDE DEF r, x
    <3> QED BY <1>2 DEF Applicable, Apply, s
  <2> HIDE DEF s
  <2>2. ApplyAll(r.st, Append(<<>>, x)) = [ok |-> TRUE, st |-> Apply(r.st, x)] BY <2>1, OneLineApplies
  <2> QED BY <2>1, <2>2
<1> HIDE DEF r, x, s, a
<1>10. r.commits \in Seq(Commits) /\ s \in States BY <1>4, <1>7 DEF Points, Sound
<1>11. /\ p \in Points /\ p.ok /\ p.st = s /\ p.pending = <<>> /\ p.commits = r.commits
       /\ p.read = Len(L) + 1 /\ p.confirmed = Len(L) + 1
  <2> DEFINE k == Confirm(r, x)
             cs == r.commits
  <2>1. cs = IF x.kind = "marker" THEN Append(r.commits, CommitOf(r.pending, x)) ELSE r.commits BY <1>2
  <2>2. cs \in Seq(Commits) /\ s \in States /\ r \in Points BY <1>4, <1>10
  <2>3. ApplyAll(r.st, Append(r.pending, x)) = [ok |-> TRUE, st |-> s] BY <1>8 DEF a
  <2> HIDE DEF cs
  <2>c. Confirms(r, x, s, cs) BY <2>1, <2>3 DEF Confirms
  <2>4. /\ k \in Points /\ k.ok /\ k.st = s /\ k.pending = <<>> /\ k.commits = cs
        /\ k.read = r.read + 1 /\ k.confirmed = r.read + 1
    BY <2>2, <2>c, ConfirmFacts
  <2> HIDE DEF k
  <2>5. p = k BY <1>6 DEF k
  <2>6. r.read = Len(L) BY <1>4
  <2>7. cs = r.commits BY DEF cs
  <2> HIDE DEF p
  <2> QED BY <2>4, <2>5, <2>6, <2>7
<1> HIDE DEF p
<1>12. IsPrefix(r.commits, p.commits) BY <1>10, <1>11, PrefixFacts
<1>13. r.st.last \in Nat BY <1>4 DEF Sound, States
<1>14. GoodLog(Append(L, x), one) BY <1>2, <1>3, <1>4, <1>7, <1>11, <1>12, <1>13, LogConfirmed DEF p, r
<1>15. Markers(Append(L, x)) = Markers(L) BY <1>1, <1>2, <1>3, MarkersAppend
<1>16. ~EndsTorn(Append(L, x)) BY <1>1, <1>3, TornLast
<1> QED BY <1>11, <1>14, <1>15, <1>16 DEF p, r, x, s

\* The documents after a reclamation.
Reclaimed(docs, d, gen, keep) == [docs EXCEPT ![d] = [@ EXCEPT !.generation = gen, !.slices = keep]]

\* A Reclaim line applies to a document that exists, and changes its generation and slices only.
LEMMA ReclaimApplies ==
  ASSUME NEW s, NEW one, Sound(s, one), NEW d \in DOMAIN s.docs, NEW gen \in Nat,
         NEW keep \in Seq(Slices), Numbered(keep), keep # <<>>
  PROVE  LET x == Reclaim(d, gen, keep)
             u == Apply(s, x)
         IN  /\ x \in ReclaimLines /\ Applicable(s, x) /\ Sound(u, one)
             /\ u.docs = Reclaimed(s.docs, d, gen, keep)
             /\ DOMAIN u.docs = DOMAIN s.docs
             /\ \A e \in DOMAIN s.docs \ {d} : u.docs[e] = s.docs[e]
             /\ u.docs[d].generation = gen /\ u.docs[d].slices = keep /\ u.docs[d].open = s.docs[d].open
             /\ u.last = s.last /\ u.rows = s.rows /\ u.next = s.next /\ u.reserved = s.reserved
<1> DEFINE x == Reclaim(d, gen, keep)
           u == Apply(s, x)
           z == Reclaimed(s.docs, d, gen, keep)
           new == [s.docs[d] EXCEPT !.generation = gen, !.slices = keep]
<1>1. s \in States /\ s.docs \in Maps(Docs, DocRecords) BY DEF Sound, States
<1>2. s.docs \in [DOMAIN s.docs -> DocRecords] /\ DOMAIN s.docs \subseteq Docs BY <1>1, MapFacts
<1>3. x.kind = "reclaim" /\ x.doc = d /\ x.generation = gen /\ x.keep = keep /\ x \in ReclaimLines
  BY <1>2 DEF Reclaim, ReclaimLines
<1>4. Applicable(s, x)
  <2> HIDE DEF x
  <2> QED BY <1>3 DEF Applicable
<1>5. u = [s EXCEPT !.docs[d] = [@ EXCEPT !.generation = gen, !.slices = keep]]
  <2> HIDE DEF x
  <2> QED BY <1>3 DEF Apply
<1>6. new \in DocRecords /\ new.generation = gen /\ new.slices = keep /\ new.open = s.docs[d].open
  BY <1>2 DEF DocRecords
<1>7. z = [s.docs EXCEPT ![d] = new] BY DEF Reclaimed
<1>8. u = [s EXCEPT !.docs = z]
  <2>1. u = [s EXCEPT !.docs = [s.docs EXCEPT ![d] = new]] BY <1>1, <1>5 DEF States
  <2> QED BY <2>1, <1>7
<1> HIDE DEF u, z, new, x
<1>9. z \in [DOMAIN s.docs -> DocRecords] /\ DOMAIN z = DOMAIN s.docs /\ z[d] = new
      /\ \A e \in DOMAIN s.docs \ {d} : z[e] = s.docs[e]
  BY <1>2, <1>6, <1>7
<1>10. z \in Maps(Docs, DocRecords) BY <1>2, <1>9, MapFacts
<1>11. u \in States /\ u.docs = z /\ u.last = s.last /\ u.rows = s.rows /\ u.next = s.next /\ u.reserved = s.reserved
  BY <1>1, <1>8, <1>10 DEF States
<1>12. Addressed(z, one)
  <2>1. \A e \in DOMAIN s.docs : z[e].open = s.docs[e].open BY <1>6, <1>9
  <2> QED BY <2>1, <1>9 DEF Sound, Addressed
<1>13. \A e \in DOMAIN z : Numbered(z[e].slices) /\ z[e].slices # <<>>
  <2> TAKE e \in DOMAIN z
  <2>1. CASE e = d BY <2>1, <1>6, <1>9
  <2>2. CASE e # d BY <2>2, <1>9 DEF Sound
  <2> QED BY <2>1, <2>2
<1>14. Sound(u, one) BY <1>11, <1>12, <1>13 DEF Sound
<1> QED BY <1>3, <1>4, <1>6, <1>9, <1>11, <1>14 DEF u, x, z

\* A Reclaim line, appended where nothing is pending, is applied and confirms the log.
LEMMA LogReclaim ==
  ASSUME NEW L, NEW one, GoodLog(L, one), ~EndsTorn(L), Replay(L).pending = <<>>,
         NEW d \in DOMAIN Replay(L).st.docs, NEW gen \in Nat, NEW keep \in Seq(Slices), Numbered(keep), keep # <<>>
  PROVE  LET r == Replay(L)
             x == Reclaim(d, gen, keep)
             p == Replay(Append(L, x))
         IN  /\ GoodLog(Append(L, x), one)
             /\ p.st = Apply(r.st, x) /\ p.pending = <<>> /\ p.confirmed = Len(L) + 1
             /\ p.commits = r.commits
             /\ Markers(Append(L, x)) = Markers(L)
             /\ ~EndsTorn(Append(L, x))
<1> DEFINE x == Reclaim(d, gen, keep)
           r == Replay(L)
           p == Replay(Append(L, x))
           s == Apply(r.st, x)
<1>1. L \in Seq(Lines) /\ Whole(L, one) /\ Len(L) \in Nat BY LogWhole
<1>4. /\ r \in Points /\ r.ok /\ r.read = Len(L) /\ Sound(r.st, one) /\ r.st.reserved < r.st.next
      /\ r.st.last = Len(r.commits)
  BY <1>1 DEF Whole
<1>2. /\ x \in ReclaimLines /\ Applicable(r.st, x) /\ Sound(s, one)
      /\ s.last = r.st.last /\ s.next = r.st.next /\ s.reserved = r.st.reserved
  BY <1>4, ReclaimApplies
<1>3. x \in Lines /\ x # Torn /\ x.kind = "reclaim" BY <1>2, LineKinds DEF Torn, ReclaimLines
<1>5. p = ReplayLine(r, x) BY <1>1, <1>3, ReplayAppend
<1>6. p = Confirm(r, x)
  <2> HIDE DEF r, p, x
  <2> QED BY <1>3, <1>4, <1>5 DEF ReplayLine, r
<1> DEFINE a == ApplyAll(r.st, Append(r.pending, x))
<1> HIDE DEF x, s
<1>8. a = [ok |-> TRUE, st |-> s]
  <2>1. ApplyAll(r.st, Append(<<>>, x)) = [ok |-> TRUE, st |-> Apply(r.st, x)] BY <1>2, OneLineApplies
  <2> QED BY <2>1 DEF s
<1> HIDE DEF r, a
<1>10. r.commits \in Seq(Commits) /\ s \in States BY <1>2, <1>4 DEF Points, Sound
<1>11. /\ p \in Points /\ p.ok /\ p.st = s /\ p.pending = <<>> /\ p.commits = r.commits
       /\ p.read = Len(L) + 1 /\ p.confirmed = Len(L) + 1
  <2> DEFINE k == Confirm(r, x)
             cs == r.commits
  <2>1. cs = IF x.kind = "marker" THEN Append(r.commits, CommitOf(r.pending, x)) ELSE r.commits BY <1>3
  <2>2. cs \in Seq(Commits) /\ s \in States /\ r \in Points BY <1>4, <1>10
  <2>3. ApplyAll(r.st, Append(r.pending, x)) = [ok |-> TRUE, st |-> s] BY <1>8 DEF a
  <2> HIDE DEF cs
  <2>c. Confirms(r, x, s, cs) BY <2>1, <2>3 DEF Confirms
  <2>4. /\ k \in Points /\ k.ok /\ k.st = s /\ k.pending = <<>> /\ k.commits = cs
        /\ k.read = r.read + 1 /\ k.confirmed = r.read + 1
    BY <2>2, <2>c, ConfirmFacts
  <2> HIDE DEF k
  <2>5. p = k BY <1>6 DEF k
  <2>6. r.read = Len(L) BY <1>4
  <2>7. cs = r.commits BY DEF cs
  <2> HIDE DEF p
  <2> QED BY <2>4, <2>5, <2>6, <2>7
<1> HIDE DEF p
<1>12. IsPrefix(r.commits, p.commits) BY <1>10, <1>11, PrefixFacts
<1>13. r.st.last \in Nat BY <1>4 DEF Sound, States
<1>14. GoodLog(Append(L, x), one) BY <1>2, <1>3, <1>4, <1>11, <1>12, <1>13, LogConfirmed DEF p, r
<1>15. Markers(Append(L, x)) = Markers(L) BY <1>1, <1>3, MarkersAppend
<1>16. ~EndsTorn(Append(L, x)) BY <1>1, <1>3, TornLast
<1> QED BY <1>11, <1>14, <1>15, <1>16 DEF p, r, x, s

\* What a commit did, as the history has it.
LEMMA CommitOfType ==
  ASSUME NEW plan \in Seq(RecordLines), NEW m \in MarkerLines
  PROVE  LET c == CommitOf(plan, m) IN
         /\ c \in Commits /\ c.seq = m.seq /\ DOMAIN c.wrote = DOMAIN m.docs
         /\ \A d \in DOMAIN m.docs : c.wrote[d] = m.docs[d].base
<1> DEFINE rows == {r.id : r \in {x \in ToSet(plan) : x.kind = "row"}}
           created == {r.doc : r \in {x \in ToSet(plan) : x.kind = "document"}}
           retired == {r.doc : r \in {x \in ToSet(plan) :
                                        x.kind = "retire" \/ (x.kind = "document" /\ ~x.open)}}
           bases == [d \in DOMAIN m.docs |-> m.docs[d].base]
<1>1. \A x \in ToSet(plan) : x \in RecordLines BY ToSetFacts
<1>2. \A x \in RecordLines : /\ x.kind = "row" => x.id \in Nat
                             /\ x.kind \in {"document", "retire"} => x.doc \in Docs
  BY DEF RecordLines, RowLines, DocLines, RetireLines
<1>3. rows \in SUBSET Nat /\ created \in SUBSET Docs /\ retired \in SUBSET Docs BY <1>1, <1>2
<1>4. m.seq \in Nat /\ m.docs \in Maps(Docs, [end : Nat, base : BOOLEAN]) BY DEF MarkerLines, Ends
<1>5. DOMAIN m.docs \in SUBSET Docs /\ m.docs \in [DOMAIN m.docs -> [end : Nat, base : BOOLEAN]]
  <2> DEFINE ds == m.docs
             V == [end : Nat, base : BOOLEAN]
  <2>1. ds \in Maps(Docs, V) BY <1>4
  <2> HIDE DEF ds, V
  <2>2. DOMAIN ds \subseteq Docs /\ ds \in [DOMAIN ds -> V] BY <2>1, MapFacts
  <2>3. DOMAIN ds \in SUBSET Docs BY <2>2
  <2> QED BY <2>2, <2>3 DEF ds, V
<1>6. bases \in [DOMAIN m.docs -> BOOLEAN] BY <1>5
<1>7. bases \in Maps(Docs, BOOLEAN) /\ DOMAIN bases = DOMAIN m.docs /\ \A d \in DOMAIN m.docs : bases[d] = m.docs[d].base
  <2>1. DOMAIN bases = DOMAIN m.docs /\ \A d \in DOMAIN m.docs : bases[d] = m.docs[d].base OBVIOUS
  <2> DEFINE D == DOMAIN m.docs
  <2>2. D \in SUBSET Docs /\ bases \in [D -> BOOLEAN] BY <1>5, <1>6
  <2> HIDE DEF bases, D
  <2>3. bases \in Maps(Docs, BOOLEAN) BY <2>2, MapFacts
  <2> QED BY <2>1, <2>3
<1>8. CommitOf(plan, m) = [seq |-> m.seq, rows |-> rows, created |-> created, retired |-> retired, wrote |-> bases]
  BY DEF CommitOf
<1> HIDE DEF rows, created, retired, bases
<1> QED BY <1>3, <1>4, <1>7, <1>8 DEF Commits

\* The addresses of what is created are free, or freed by the same commit.
Vacant(s, C, X, one) == one => \A d \in C : Live(s) \subseteq X /\ \A e \in C : e = d

\* A log whose unconfirmed lines are the plan of a commit, all of it.
AllWritten(L, one, plan, s, seq, C, X, ends) ==
  /\ GoodLog(L, one) /\ ~EndsTorn(L)
  /\ plan = Replay(L).pending /\ s = Replay(L).st /\ seq = s.last + 1
  /\ Planned(plan, seq, C, X) /\ Fits(s, plan, C, X) /\ Publishes(s, C, seq, ends)
  /\ C \subseteq DOMAIN ends /\ Vacant(s, C, X, one)

\* The marker makes the commit.
LEMMA LogMarker ==
  ASSUME NEW L, NEW one, NEW plan, NEW s, NEW seq, NEW C, NEW X, NEW ends,
         AllWritten(L, one, plan, s, seq, C, X, ends)
  PROVE  LET r == Replay(L)
             x == Marker(seq, Len(plan), ends)
             p == Replay(Append(L, x))
         IN  /\ x \in MarkerLines
             /\ GoodLog(Append(L, x), one)
             /\ Committed(s, plan, C, X, seq, ends, p.st) /\ p.pending = <<>> /\ p.confirmed = Len(L) + 1
             /\ p.commits = Append(r.commits, CommitOf(plan, x))
             /\ Markers(Append(L, x)) = Append(Markers(L), x)
             /\ ~EndsTorn(Append(L, x))
<1> DEFINE x == Marker(seq, Len(plan), ends)
           r == Replay(L)
           p == Replay(Append(L, x))
           a == ApplyAll(s, Append(plan, x))
<1> /\ GoodLog(L, one) /\ ~EndsTorn(L)
    /\ plan = Replay(L).pending /\ s = Replay(L).st /\ seq = s.last + 1
    /\ Planned(plan, seq, C, X) /\ Fits(s, plan, C, X) /\ Publishes(s, C, seq, ends)
    /\ C \subseteq DOMAIN ends /\ Vacant(s, C, X, one)
  BY DEF AllWritten
<1>1. L \in Seq(Lines) /\ Whole(L, one) /\ Len(L) \in Nat BY LogWhole
<1>2. plan \in Seq(RecordLines) /\ Len(plan) \in Nat BY DEF Planned
<1>3. x.kind = "marker" /\ x.seq = seq /\ x.main = Len(plan) /\ x.docs = ends /\ x \in MarkerLines
  BY <1>2 DEF Marker, MarkerLines, Publishes
<1>4. x \in Lines /\ x # Torn BY <1>3, LineKinds DEF Torn
<1>5. /\ r \in Points /\ r.ok /\ r.read = Len(L) /\ Sound(s, one) /\ s.reserved < s.next
      /\ s.last = Len(r.commits)
  BY <1>1 DEF Whole
<1>6. p = ReplayLine(r, x) BY <1>1, <1>4, ReplayAppend
<1>7. a = [ok |-> TRUE, st |-> a.st] /\ Committed(s, plan, C, X, seq, ends, a.st)
  <2>1. Sound(s, one) BY <1>5
  <2> DEFINE b == ApplyAll(s, Append(plan, Marker(seq, Len(plan), ends)))
  <2>2. b = [ok |-> TRUE, st |-> b.st] /\ Committed(s, plan, C, X, seq, ends, b.st)
    <3> HIDE DEF x, r, p, a
    <3> QED BY ZenonT(60), <2>1, CommitApplies
  <2>3. a = b OBVIOUS
  <2> HIDE DEF a, b
  <2> QED BY <2>2, <2>3
<1>8. \A q \in ToSet(plan) : q.seq = seq
  <2>1. ToSet(plan) = {plan[i] : i \in 1..Len(plan)} BY <1>2, ToSetFacts
  <2> QED BY <2>1 DEF Planned
<1> HIDE DEF x, a
<1>9. p = Confirm(r, x)
  <2>1. r.pending = plan /\ Len(r.pending) = x.main /\ \A q \in ToSet(r.pending) : q.seq = x.seq BY <1>3, <1>8
  <2> HIDE DEF r, p
  <2> QED BY <2>1, <1>3, <1>5, <1>6 DEF ReplayLine
<1> DEFINE u == a.st
           c == CommitOf(plan, x)
           cs == Append(r.commits, c)
<1>10. c \in Commits BY <1>2, <1>3, CommitOfType
<1>11. cs \in Seq(Commits) /\ IsPrefix(r.commits, cs) /\ Len(cs) = Len(r.commits) + 1
  BY <1>5, <1>10, PrefixFacts DEF Points
<1>12. u \in States BY <1>7 DEF Committed
<1>13. cs = IF x.kind = "marker" THEN Append(r.commits, CommitOf(r.pending, x)) ELSE r.commits BY <1>3
<1>14. ApplyAll(r.st, Append(r.pending, x)) = [ok |-> TRUE, st |-> u] BY <1>7 DEF a
<1> HIDE DEF u, cs, r
<1>15. LET k == Confirm(r, x) IN
       /\ k \in Points /\ k.ok /\ k.st = u /\ k.pending = <<>> /\ k.commits = cs
       /\ k.read = r.read + 1 /\ k.confirmed = r.read + 1
  <2> DEFINE k == Confirm(r, x)
  <2>2. cs \in Seq(Commits) /\ u \in States /\ r \in Points BY <1>5, <1>11, <1>12 DEF r
  <2>c. Confirms(r, x, u, cs) BY <1>13, <1>14 DEF Confirms
  <2>4. /\ k \in Points /\ k.ok /\ k.st = u /\ k.pending = <<>> /\ k.commits = cs
        /\ k.read = r.read + 1 /\ k.confirmed = r.read + 1
    BY <2>2, <2>c, ConfirmFacts
  <2> QED BY <2>4
<1>16. /\ p \in Points /\ p.ok /\ p.st = u /\ p.pending = <<>> /\ p.commits = cs
       /\ p.read = Len(L) + 1 /\ p.confirmed = Len(L) + 1
  <2> DEFINE k == Confirm(r, x)
  <2>1. /\ k \in Points /\ k.ok /\ k.st = u /\ k.pending = <<>> /\ k.commits = cs
        /\ k.read = r.read + 1 /\ k.confirmed = r.read + 1
    BY <1>15
  <2>2. p = k BY <1>9
  <2>3. r.read = Len(L) BY <1>5 DEF r
  <2> HIDE DEF p, k
  <2> QED BY <2>1, <2>2, <2>3
<1> HIDE DEF p
<1>17. Sound(u, one) BY <1>5, <1>7, SoundAfter DEF u, Vacant
<1>18. u.last = seq /\ u.reserved < u.next /\ seq \in Nat /\ s.last \in Nat
  <2>1. s.reserved \in Nat /\ s.next \in Nat /\ s.last \in Nat BY <1>5 DEF Sound, States
  <2>2. u.last = seq /\ u.reserved = s.reserved /\ u.next \in Nat /\ u.next >= s.next BY <1>7 DEF Committed, NextAfter, u
  <2> QED BY <1>5, <2>1, <2>2
<1>19. GoodLog(Append(L, x), one)
  <2>1. p.st.last = Replay(L).st.last + (IF x.kind = "marker" THEN 1 ELSE 0) BY <1>3, <1>16, <1>18
  <2>2. p.st.last = Len(p.commits) BY <1>5, <1>11, <1>16, <1>18
  <2>3. IsPrefix(Replay(L).commits, p.commits) BY <1>11, <1>16 DEF r
  <2>4. x.kind = "marker" => x.seq = p.st.last BY <1>3, <1>16, <1>18
  <2>5. Sound(p.st, one) /\ p.st.reserved < p.st.next BY <1>16, <1>17, <1>18
  <2> QED BY <2>1, <2>2, <2>3, <2>4, <2>5, <1>4, <1>16, LogConfirmed DEF p
<1>20. Markers(Append(L, x)) = Append(Markers(L), x) BY <1>1, <1>3, <1>4, MarkersAppend
<1>21. ~EndsTorn(Append(L, x)) BY <1>1, <1>4, TornLast
<1>22. Committed(s, plan, C, X, seq, ends, p.st) BY <1>7, <1>16 DEF u
<1> QED BY <1>3, <1>16, <1>19, <1>20, <1>21, <1>22 DEF p, r, x, cs

-----------------------------------------------------------------------------
(* The plan of a batch. *)

\* The image of a finite set is finite.
LEMMA FiniteImage ==
  ASSUME NEW S, NEW f, DOMAIN f = S, IsFiniteSet(S)
  PROVE  IsFiniteSet({f[x] : x \in S})
<1> DEFINE T == {f[x] : x \in S}
           g == [x \in S |-> f[x]]
<1>1. g \in [S -> T] /\ \A t \in T : \E x \in S : g[x] = t OBVIOUS
<1> HIDE DEF g, T
<1>2. g \in Surjection(S, T) BY <1>1 DEF Surjection
<1>3. IsFiniteSet(T) BY <1>2, FS_Surjection
<1> QED BY <1>3 DEF T

\* Two sequences of different things, one behind the other.
LEMMA OneEachConcat ==
  ASSUME NEW M, NEW s \in Seq(M), NEW t \in Seq(M), OneEach(s), OneEach(t),
         \A x \in ToSet(s) : x \notin ToSet(t)
  PROVE  s \o t \in Seq(M) /\ OneEach(s \o t) /\ ToSet(s \o t) = ToSet(s) \cup ToSet(t)
<1> DEFINE u == s \o t
           m == Len(s)
           n == Len(t)
<1>1. m \in Nat /\ n \in Nat /\ u \in Seq(M) /\ Len(u) = m + n OBVIOUS
<1>2. \A i \in 1..m : u[i] = s[i] OBVIOUS
<1>3. \A i \in (m + 1)..(m + n) : u[i] = t[i - m] /\ i - m \in 1..n BY <1>1
<1>4. \A i \in 1..m : s[i] \in ToSet(s) BY ToSetFacts
<1>5. \A i \in 1..n : t[i] \in ToSet(t) BY ToSetFacts
<1>6. \A i, j \in 1..m : s[i] = s[j] => i = j BY DEF OneEach
<1>7. \A i, j \in 1..n : t[i] = t[j] => i = j BY DEF OneEach
<1>8. DOMAIN u = 1..(m + n) BY <1>1
<1>9. ToSet(u) = ToSet(s) \cup ToSet(t) BY ToSetFacts
<1> HIDE DEF u, m, n
<1>10. ASSUME NEW i \in 1..(m + n), NEW j \in 1..(m + n), u[i] = u[j] PROVE i = j
  <2>1. CASE i \in 1..m /\ j \in 1..m BY <2>1, <1>10, <1>2, <1>6
  <2>2. CASE i \in 1..m /\ j \in (m + 1)..(m + n) BY <2>2, <1>10, <1>2, <1>3, <1>4, <1>5
  <2>3. CASE i \in (m + 1)..(m + n) /\ j \in 1..m BY <2>3, <1>10, <1>2, <1>3, <1>4, <1>5
  <2>4. CASE i \in (m + 1)..(m + n) /\ j \in (m + 1)..(m + n)
    <3>1. i - m = j - m BY <2>4, <1>10, <1>3, <1>7
    <3> QED BY <3>1, <2>4, <1>1
  <2> QED BY <2>1, <2>2, <2>3, <2>4, <1>1
<1> QED BY <1>1, <1>8, <1>9, <1>10 DEF u, OneEach

Cmds == [write : {"none", "create", "base", "delta"}, retire : BOOLEAN]

\* store.rs, plan: one line for every row, creation and retirement of the batch.
LEMMA PlanFacts ==
  ASSUME NEW b \in Maps(Docs, Cmds), NEW rows \in SUBSET Nat, IsFiniteSet(rows), NEW seq \in Nat
  PROVE  LET p == Plan(b, rows, seq) IN
         Planned(p, seq, Creates(b), Retires(b)) /\ RowIds(p, Len(p)) = rows
<1> DEFINE C == Creates(b)
           X == Retires(b)
           A == {Row(seq, id) : id \in rows}
           B == {Document(seq, d, d \notin Retires(b)) : d \in Creates(b)}
           D == {Retire(seq, d) : d \in Retires(b) \ Creates(b)}
<1>1. DOMAIN b \in SUBSET Docs /\ b \in [DOMAIN b -> Cmds] BY MapFacts
<1>2. C \in SUBSET Docs /\ X \in SUBSET Docs BY <1>1 DEF Creates, Retires
<1>3. IsFiniteSet(Docs) BY DocsAssumption
<1>4. IsFiniteSet(C) /\ IsFiniteSet(X \ C)
  <2>1. C \in SUBSET Docs /\ X \ C \in SUBSET Docs BY <1>2
  <2> HIDE DEF C, X
  <2> QED BY <2>1, <1>3, FS_Subset
<1>5. IsFiniteSet(A)
  <2> DEFINE f == [id \in rows |-> Row(seq, id)]
  <2>1. A = {f[x] : x \in rows} /\ DOMAIN f = rows OBVIOUS
  <2> HIDE DEF f, A
  <2> QED BY <2>1, FiniteImage
<1>6. IsFiniteSet(B)
  <2> DEFINE f == [d \in C |-> Document(seq, d, d \notin Retires(b))]
  <2>1. B = {f[x] : x \in C} /\ DOMAIN f = C OBVIOUS
  <2> HIDE DEF f, B, C
  <2> QED BY <2>1, <1>4, FiniteImage
<1>7. IsFiniteSet(D)
  <2> DEFINE f == [d \in X \ C |-> Retire(seq, d)]
             Y == X \ C
  <2>1. D = {f[x] : x \in Y} /\ DOMAIN f = Y OBVIOUS
  <2>2. IsFiniteSet(Y) BY <1>4
  <2> HIDE DEF f, D, Y
  <2> QED BY <2>1, <2>2, FiniteImage
<1>8. A \subseteq RowLines /\ \A x \in A : x.kind = "row" /\ x.seq = seq
  BY DEF Row, RowLines
<1>9. B \subseteq DocLines /\ \A x \in B : x.kind = "document" /\ x.seq = seq /\ x.doc \in C /\ (x.open <=> x.doc \notin X)
  <2>1. \A d \in Docs : \A w \in BOOLEAN : LET x == Document(seq, d, w) IN
          x \in DocLines /\ x.kind = "document" /\ x.seq = seq /\ x.doc = d /\ x.open = w
    BY DEF Document, DocLines
  <2>2. \A x \in B : \E d \in C : \E w \in BOOLEAN : x = Document(seq, d, w) /\ (w <=> d \notin X) BY Zenon
  <2> HIDE DEF B, C, X
  <2>3. \A x \in B : \E d \in C : \E w \in BOOLEAN : x \in DocLines /\ x.kind = "document" /\ x.seq = seq
                        /\ x.doc = d /\ x.open = w /\ (w <=> d \notin X)
    BY <1>2, <2>1, <2>2
  <2> QED BY <2>3
<1>10. D \subseteq RetireLines /\ \A x \in D : x.kind = "retire" /\ x.seq = seq /\ x.doc \in X \ C
  BY <1>2 DEF Retire, RetireLines
<1>11. {x.id : x \in A} = rows
  <2>1. \A id \in rows : Row(seq, id).id = id /\ Row(seq, id) \in A BY DEF Row
  <2>2. \A x \in A : x.id \in rows BY DEF Row
  <2> QED BY <2>1, <2>2
<1>12. {x.doc : x \in B} = C
  <2>1. \A d \in C : Document(seq, d, d \notin Retires(b)).doc = d /\ Document(seq, d, d \notin Retires(b)) \in B BY DEF Document
  <2> QED BY <2>1, <1>9
<1>13. {x.doc : x \in D} = X \ C
  <2>1. \A d \in X \ C : Retire(seq, d).doc = d /\ Retire(seq, d) \in D BY DEF Retire
  <2> QED BY <2>1, <1>10
<1> DEFINE a == SetToSeq(A)
           c == SetToSeq(B)
           e == SetToSeq(D)
           p == Plan(b, rows, seq)
<1>14. p = (a \o c) \o e BY DEF Plan
<1> HIDE DEF A, B, C, D, X
<1>15. a \in Seq(A) /\ OneEach(a) /\ ToSet(a) = A BY <1>5, OrderedFacts
<1>16. c \in Seq(B) /\ OneEach(c) /\ ToSet(c) = B BY <1>6, OrderedFacts
<1>17. e \in Seq(D) /\ OneEach(e) /\ ToSet(e) = D BY <1>7, OrderedFacts
<1> HIDE DEF a, c, e, p
<1>18. A \subseteq RecordLines /\ B \subseteq RecordLines /\ D \subseteq RecordLines
  BY <1>8, <1>9, <1>10 DEF RecordLines
<1>19. a \in Seq(RecordLines) /\ c \in Seq(RecordLines) /\ e \in Seq(RecordLines)
  BY <1>15, <1>16, <1>17, <1>18, SeqMonotonic
<1>20. a \o c \in Seq(RecordLines) /\ OneEach(a \o c) /\ ToSet(a \o c) = A \cup B
  <2>1. \A x \in ToSet(a) : x \notin ToSet(c) BY <1>8, <1>9, <1>15, <1>16
  <2> QED BY <2>1, <1>15, <1>16, <1>19, OneEachConcat
<1>21. p \in Seq(RecordLines) /\ OneEach(p) /\ ToSet(p) = (A \cup B) \cup D
  <2> DEFINE q == a \o c
  <2>1. q \in Seq(RecordLines) /\ OneEach(q) /\ ToSet(q) = A \cup B BY <1>20
  <2>2. \A x \in ToSet(q) : x \notin ToSet(e) BY <2>1, <1>8, <1>9, <1>10, <1>17
  <2>3. p = q \o e BY <1>14
  <2> HIDE DEF q
  <2> QED BY <2>1, <2>2, <2>3, <1>17, <1>19, OneEachConcat
<1>22. \A i \in 1..Len(p) : p[i] \in (A \cup B) \cup D
  <2>1. ToSet(p) = {p[i] : i \in 1..Len(p)} BY <1>21, ToSetFacts
  <2> QED BY <2>1, <1>21
<1>23. \A x \in (A \cup B) \cup D : \E i \in 1..Len(p) : p[i] = x
  <2>1. ToSet(p) = {p[i] : i \in 1..Len(p)} BY <1>21, ToSetFacts
  <2> QED BY <2>1, <1>21
<1>24. \A x \in (A \cup B) \cup D : /\ x.kind = "row" <=> x \in A
                                    /\ x.kind = "document" <=> x \in B
                                    /\ x.kind = "retire" <=> x \in D
  BY <1>8, <1>9, <1>10
<1>25. RowIds(p, Len(p)) = rows
  <2>1. RowIds(p, Len(p)) = {x.id : x \in A} BY <1>22, <1>23, <1>24 DEF RowIds
  <2> QED BY <2>1, <1>11
<1>26. NewDocs(p, Len(p)) = C
  <2>1. NewDocs(p, Len(p)) = {x.doc : x \in B} BY <1>22, <1>23, <1>24 DEF NewDocs
  <2> QED BY <2>1, <1>12
<1>27. Closing(p, Len(p)) = X \ C
  <2>1. Closing(p, Len(p)) = {x.doc : x \in D} BY <1>22, <1>23, <1>24 DEF Closing
  <2> QED BY <2>1, <1>13
<1>28. Planned(p, seq, C, X)
  BY <1>21, <1>22, <1>24, <1>8, <1>9, <1>10, <1>26, <1>27 DEF Planned
<1> QED BY <1>25, <1>28 DEF p, C, X

-----------------------------------------------------------------------------
(* The invariant. *)

Recs         == [seq : Nat, base : BOOLEAN] \cup {Torn}
SidecarFiles == [recs : Seq(Recs), flushed : Nat, named : BOOLEAN]

ReclaimJobs   == [at : {"reclaim"}, docs : SUBSET Docs]
AuthoriseJobs == [at : {"authorise", "remove"}, docs : SUBSET Docs, doc : Docs]
CommitJobs    == [at : {"content", "flush", "main", "publish"}, seq : Nat, batch : Maps(Docs, Cmds),
                  todo : SUBSET Docs, ends : Ends, plan : Seq(RecordLines), sent : Nat]
Jobs == {Idle} \cup ReclaimJobs \cup AuthoriseJobs \cup CommitJobs

Types ==
  /\ main \in [lines : Seq(Lines), flushed : Nat]
  /\ DOMAIN side \in SUBSET (Docs \X Nat) /\ side \in [DOMAIN side -> SidecarFiles]
  /\ mode \in {"down", "repair", "open", "closed", "corrupt"}
  /\ st \in States
  /\ job \in Jobs
  /\ poison \in BOOLEAN /\ lateErr \in BOOLEAN /\ wrote \in BOOLEAN
  /\ issued \in SUBSET Nat /\ lost \in SUBSET Nat
  /\ setup \in Setups

\* What a recovery would make of main.jsonl as it is.
Recovered == Replay(main.lines)

\* Nothing torn, nothing unconfirmed.
Clean == ~EndsTorn(main.lines) /\ Recovered.pending = <<>> /\ Recovered.confirmed = Len(main.lines)

\* Every sidecar holds one record a slice, and one more if this commit has written it.
Lengths(written) ==
  \A d \in Docs : Len(File(Sidecar(d)).recs) = Len(SlicesOf(st.docs, d)) + (IF d \in written THEN 1 ELSE 0)

\* Between commits, and while a commit's candidates are reclaimed.
Settled ==
  /\ Clean /\ Agrees(st, Recovered.st) /\ Lengths({})
  /\ job # Idle => job.docs \subseteq DOMAIN st.docs /\ job.docs # {}
  /\ job.at = "reclaim" => \A d \in job.docs : Reclaimable(st, d)
  /\ job.at = "authorise" =>
       /\ job.doc \in job.docs
       /\ \A d \in job.docs : Reclaimable(st, d)
       /\ Len(File(NextGeneration(job.doc)).recs) = Len(Rebased(st.docs[job.doc].slices))
  /\ job.at = "remove" =>
       /\ job.doc \in job.docs
       /\ \A d \in job.docs \ {job.doc} : Reclaimable(st, d)

\* During a commit.
Committing ==
  LET C == Creates(job.batch)
      X == Retires(job.batch)
  IN  /\ job.seq = st.last + 1
      /\ Planned(job.plan, job.seq, C, X)
      /\ Fits(st, job.plan, C, X)
      /\ Vacant(st, C, X, setup.oneAddress)
      /\ DOMAIN job.batch \subseteq DOMAIN st.docs \cup C
      /\ job.todo \subseteq Writes(job.batch) /\ DOMAIN job.ends = Writes(job.batch) \ job.todo
      /\ job.at = "content" <=> job.todo # {}
      /\ \A d \in DOMAIN job.ends : job.ends[d].end = Len(SlicesOf(st.docs, d)) + 1
      /\ Lengths(DOMAIN job.ends)
      /\ ~EndsTorn(main.lines)
      /\ job.at # "publish" =>
           /\ Agrees(st, Recovered.st)
           /\ job.sent \in 0..Len(job.plan) /\ Recovered.pending = Cut(job.plan, job.sent)
           /\ job.at # "main" => job.sent = 0
      /\ job.at = "publish" =>
           /\ Clean
           /\ Agrees(ApplyAll(st, Append(job.plan, Marker(job.seq, Len(job.plan), job.ends))).st, Recovered.st)

\* The writer's memory against the log.
Memory ==
  /\ Sound(st, setup.oneAddress)
  /\ mode # "open" => job = Idle /\ ~poison /\ ~wrote
  /\ mode \in {"down", "closed"} => st = Empty
  /\ mode = "repair" => Clean /\ st = Recovered.st
  /\ poison => job = Idle
  /\ mode = "open" /\ ~poison => IF job \in CommitJobs THEN Committing ELSE Settled

\* Ids are spent before they are handed out, and stay spent until a power loss takes the last
\* line that says so.
Ids ==
  /\ \A id \in issued \ lost : id < Recovered.st.next
  /\ mode \in {"repair", "open"} => \A id \in issued \ lost : id < st.next
  /\ "kept" \notin reissued
  /\ ~setup.powerFails => lost = {} /\ reissued = {}

Inv ==
  /\ Types
  /\ GoodLog(main.lines, setup.oneAddress)
  /\ main.flushed <= Len(main.lines)
  /\ Memory
  /\ Ids

\* A job is of the kind its phase says.
LEMMA JobKinds ==
  /\ \A j \in Jobs : j.at \in {"idle", "reclaim", "authorise", "remove", "content", "flush", "main", "publish"}
  /\ \A j \in Jobs : j.at = "idle" <=> j = Idle
  /\ \A j \in Jobs : j.at = "reclaim" => j \in ReclaimJobs
  /\ \A j \in Jobs : j.at \in {"authorise", "remove"} => j \in AuthoriseJobs
  /\ \A j \in Jobs : j.at \in {"content", "flush", "main", "publish"} <=> j \in CommitJobs
  /\ Idle \in Jobs /\ Idle.at = "idle"
BY DEF Jobs, Idle, ReclaimJobs, AuthoriseJobs, CommitJobs

\* Nothing is committed to begin with.
LEMMA EmptyIsSound ==
  ASSUME NEW one
  PROVE  Sound(Empty, one) /\ Empty \in States /\ Empty.docs = <<>> /\ DOMAIN Empty.docs = {}
<1>1. GoodLog(<<>>, one) /\ Replay(<<>>) = ReplayStart BY LogEmpty
<1>2. Sound(Replay(<<>>).st, one) BY <1>1, LogWhole DEF Whole
<1>3. ReplayStart.st = Empty BY DEF ReplayStart
<1>4. Sound(Empty, one) BY <1>1, <1>2, <1>3
<1>5. Empty.docs = <<>> BY DEF Empty
<1> QED BY <1>4, <1>5 DEF Sound

\* An append to a file that does not end torn.
LEMMA WrittenWhole ==
  ASSUME NEW L, ~EndsTorn(L), NEW x
  PROVE  Written(L, x) = Append(L, x)
BY DEF Written

\* A log that is confirmed to its end has nothing pending and nothing torn.
LEMMA ConfirmedClean ==
  ASSUME NEW L, NEW one, GoodLog(L, one), Replay(L).confirmed = Len(L)
  PROVE  ~EndsTorn(L) /\ Replay(L).pending = <<>>
<1>1. L \in Seq(Lines) /\ Whole(L, one) /\ Len(L) \in Nat BY LogWhole
<1>2. Cut(L, Len(L)) = L BY <1>1, CutFacts
<1>3. Replay(L).pending = <<>> BY <1>1, <1>2 DEF Whole
<1>4. Replay(L).confirmed <= (IF EndsTorn(L) THEN Len(L) - 1 ELSE Len(L)) BY <1>1 DEF Whole
<1> QED BY <1>1, <1>3, <1>4

\* The confirmed prefix is one.
LEMMA ConfirmedPart ==
  ASSUME NEW L, NEW one, GoodLog(L, one)
  PROVE  LET n == Replay(L).confirmed
             c == Cut(L, n)
         IN  /\ n \in 0..Len(L) /\ GoodLog(c, one) /\ Len(c) = n
             /\ Replay(c).st = Replay(L).st /\ Replay(c).commits = Replay(L).commits /\ Replay(c).confirmed = n
             /\ Replay(c).pending = <<>> /\ ~EndsTorn(c)
             /\ Len(Markers(c)) = Len(Markers(L)) /\ Replay(L).ok /\ Replay(L).st \in States
<1> DEFINE n == Replay(L).confirmed
           c == Cut(L, n)
<1>1. L \in Seq(Lines) /\ Whole(L, one) /\ Len(L) \in Nat BY LogWhole
<1>2. n \in 0..Len(L)
  <2>1. n \in Nat BY <1>1 DEF Whole, Points
  <2>2. n <= (IF EndsTorn(L) THEN Len(L) - 1 ELSE Len(L)) BY <1>1 DEF Whole
  <2> HIDE DEF n
  <2> QED BY <1>1, <2>1, <2>2
<1>3. GoodLog(c, one) /\ Len(c) = n
  <2> HIDE DEF n
  <2> QED BY <1>2, LogPrefix
<1>4. Replay(c).st = Replay(L).st /\ Replay(c).commits = Replay(L).commits /\ Replay(c).confirmed = n
  BY <1>1 DEF Whole
<1>5. Replay(c).pending = <<>> /\ ~EndsTorn(c)
  <2> HIDE DEF c
  <2> QED BY <1>3, <1>4, ConfirmedClean
<1>6. Len(Markers(c)) = Len(Markers(L))
  <2>1. Whole(c, one)
    <3> HIDE DEF c
    <3> QED BY <1>3, LogWhole
  <2>2. Len(Markers(c)) = Replay(c).st.last
    <3> HIDE DEF c
    <3> QED BY <2>1 DEF Whole
  <2>3. Len(Markers(L)) = Replay(L).st.last BY <1>1 DEF Whole
  <2> QED BY <2>2, <2>3, <1>4
<1>7. Replay(L).ok /\ Replay(L).st \in States BY <1>1 DEF Whole, Sound
<1> QED BY <1>2, <1>3, <1>4, <1>5, <1>6, <1>7

\* What a setup says.
LEMMA SetupFacts ==
  ASSUME NEW s \in Setups
  PROVE  /\ s.flushes \in BOOLEAN /\ s.powerFails \in BOOLEAN /\ s.oneAddress \in BOOLEAN
         /\ s.docs \in SUBSET Docs /\ s.retires \in BOOLEAN
         /\ s.writes \in SUBSET {"none", "create", "base", "delta"}
         /\ s.maxSeq \in Nat /\ s.maxId \in Nat
BY SetupsAssumption DEF Setup

\* The invariant holds to begin with.
LEMMA InitInv == Init => Inv
<1> SUFFICES ASSUME Init PROVE Inv OBVIOUS
<1>1. GoodLog(main.lines, setup.oneAddress) /\ main.lines = <<>> /\ main.flushed = 0 BY LogEmpty DEF Init
<1>2. Sound(st, setup.oneAddress) /\ st \in States BY EmptyIsSound DEF Init
<1>3. Types
  <2>1. main \in [lines : Seq(Lines), flushed : Nat] BY DEF Init
  <2>2. DOMAIN side \in SUBSET (Docs \X Nat) /\ side \in [DOMAIN side -> SidecarFiles] BY DEF Init
  <2>3. job \in Jobs BY DEF Init, Jobs
  <2> QED BY <1>2, <2>1, <2>2, <2>3 DEF Types, Init
<1>4. main.flushed <= Len(main.lines) BY <1>1
<1>5. Memory BY <1>2 DEF Memory, Init
<1>6. Ids BY DEF Ids, Init
<1> QED BY <1>1, <1>3, <1>4, <1>5, <1>6 DEF Inv

-----------------------------------------------------------------------------
(* What ends a process, and what begins one. *)

\* main.jsonl after a flush.
LEMMA FlushedFacts ==
  ASSUME main \in [lines : Seq(Lines), flushed : Nat]
  PROVE  /\ FlushedMain \in [lines : Seq(Lines), flushed : Nat]
         /\ FlushedMain.lines = main.lines /\ FlushedMain.flushed = Len(main.lines)
BY DEF FlushedMain

\* A deferred flush that fails leaves its error behind and nothing else.
LEMMA FlushFailsLateInv == Inv /\ FlushFailsLate => Inv'
<1> SUFFICES ASSUME Inv, FlushFailsLate PROVE Inv' OBVIOUS
<1>1. /\ lateErr' = TRUE
      /\ UNCHANGED <<main, side, mode, st, job, poison, wrote, issued, lost, reissued, swept, setup>>
  BY DEF FlushFailsLate, disk, past
<1>2. Types' BY <1>1 DEF Inv, Types
<1>3. Recovered' = Recovered BY <1>1 DEF Recovered
<1>4. Clean' = Clean BY <1>1, <1>3 DEF Clean
<1>5. \A S : Lengths(S)' = Lengths(S) BY <1>1 DEF Lengths, File, Sidecar
<1>6. Settled' = Settled BY <1>1, <1>3, <1>4, <1>5 DEF Settled, NextGeneration, File
<1>7. Committing' = Committing BY <1>1, <1>3, <1>4, <1>5 DEF Committing
<1>8. Memory' BY <1>1, <1>3, <1>4, <1>6, <1>7 DEF Inv, Memory
<1>9. Ids' BY <1>1, <1>3 DEF Inv, Ids
<1> QED BY <1>1, <1>2, <1>8, <1>9 DEF Inv

\* A process that is gone leaves the log as it was.
LEMMA GoneInv ==
  ASSUME Inv,
         GoodLog(main'.lines, setup.oneAddress), main' \in [lines : Seq(Lines), flushed : Nat],
         main'.flushed <= Len(main'.lines),
         DOMAIN side' \in SUBSET (Docs \X Nat), side' \in [DOMAIN side' -> SidecarFiles],
         mode' \in {"down", "closed"}, job' = Idle, Dropped, setup' = setup,
         issued' = issued, reissued' = reissued, lost' \in SUBSET Nat,
         ~setup.powerFails => lost' = lost,
         \A id \in issued \ lost' : id < Replay(main'.lines).st.next
  PROVE  Inv'
<1>1. st' = Empty /\ ~poison' /\ poison' = FALSE /\ lateErr' = FALSE /\ wrote' = FALSE BY DEF Dropped
<1>2. Sound(Empty, setup.oneAddress) /\ Empty \in States BY EmptyIsSound
<1>4. Types' BY <1>1, <1>2, JobKinds DEF Inv, Types
<1>5. Memory' BY <1>1, <1>2 DEF Memory
<1>6. Ids' BY DEF Inv, Ids, Recovered
<1> QED BY <1>4, <1>5, <1>6 DEF Inv

\* A kill leaves main.jsonl to the next open, and no memory.
LEMMA KillInv == Inv /\ Kill => Inv'
<1> SUFFICES ASSUME Inv, Kill PROVE Inv' OBVIOUS
<1>1. UNCHANGED <<main, side, issued, lost, reissued>> /\ mode' = "down" /\ job' = Idle /\ Dropped /\ setup' = setup
  BY DEF Kill, Gone, disk, past
<1>2. main \in [lines : Seq(Lines), flushed : Nat] /\ DOMAIN side \in SUBSET (Docs \X Nat) /\ side \in [DOMAIN side -> SidecarFiles]
      /\ lost \in SUBSET Nat
  BY DEF Inv, Types
<1>3. GoodLog(main.lines, setup.oneAddress) /\ main.flushed <= Len(main.lines)
      /\ \A id \in issued \ lost : id < Replay(main.lines).st.next
  BY DEF Inv, Ids, Recovered
<1>4. main'.lines = main.lines /\ main' \in [lines : Seq(Lines), flushed : Nat] /\ DOMAIN side' \in SUBSET (Docs \X Nat)
      /\ side' \in [DOMAIN side' -> SidecarFiles] /\ GoodLog(main'.lines, setup.oneAddress) /\ main'.flushed <= Len(main'.lines)
      /\ lost' \in SUBSET Nat /\ \A id \in issued \ lost' : id < Replay(main'.lines).st.next
  BY <1>1, <1>2, <1>3
<1> QED BY <1>1, <1>4, GoneInv

\* A close flushes and forgets.
LEMMA CloseInv == Inv /\ Close => Inv'
<1> SUFFICES ASSUME Inv, Close PROVE Inv' OBVIOUS
<1>1. side' = side /\ mode' \in {"down", "closed"} /\ job' = Idle /\ Dropped /\ UNCHANGED <<issued, lost, reissued>> /\ setup' = setup
  BY DEF Close, Ready, past
<1>2. main \in [lines : Seq(Lines), flushed : Nat] /\ DOMAIN side \in SUBSET (Docs \X Nat) /\ side \in [DOMAIN side -> SidecarFiles]
      /\ lost \in SUBSET Nat
  BY DEF Inv, Types
<1>3. GoodLog(main.lines, setup.oneAddress) /\ main.flushed <= Len(main.lines)
      /\ \A id \in issued \ lost : id < Replay(main.lines).st.next
  BY DEF Inv, Ids, Recovered
<1>4. main' = FlushedMain \/ main' = main BY DEF Close
<1>5. main'.lines = main.lines /\ main' \in [lines : Seq(Lines), flushed : Nat] /\ main'.flushed <= Len(main'.lines)
  <2>1. Len(main.lines) \in Nat BY <1>2
  <2> QED BY <2>1, <1>2, <1>3, <1>4, FlushedFacts
<1>6. DOMAIN side' \in SUBSET (Docs \X Nat) /\ side' \in [DOMAIN side' -> SidecarFiles] /\ GoodLog(main'.lines, setup.oneAddress)
      /\ lost' \in SUBSET Nat /\ \A id \in issued \ lost' : id < Replay(main'.lines).st.next
  BY <1>1, <1>2, <1>3, <1>5
<1> QED BY <1>1, <1>5, <1>6, GoneInv

\* A sidecar cut to a prefix.
LEMMA CutFile ==
  ASSUME NEW f \in SidecarFiles, NEW n \in 0..Len(f.recs)
  PROVE  SubSeq(f.recs, 1, n) \in Seq(Recs) /\ Len(SubSeq(f.recs, 1, n)) = n
<1>1. f.recs \in Seq(Recs) BY DEF SidecarFiles
<1>2. Cut(f.recs, n) \in Seq(Recs) /\ Len(Cut(f.recs, n)) = n BY <1>1, CutFacts
<1> QED BY <1>2 DEF Cut

\* A power loss cuts main.jsonl to a prefix that holds what was flushed.
LEMMA PowerLossInv == Inv /\ PowerLoss => Inv'
<1> SUFFICES ASSUME Inv, PowerLoss PROVE Inv' OBVIOUS
<1>1. /\ setup.powerFails /\ mode' = "down" /\ job' = Idle /\ Dropped /\ setup' = setup
      /\ UNCHANGED <<issued, reissued>> /\ lost' = lost \cup {id \in issued : id >= Replay(main'.lines).st.next}
  BY DEF PowerLoss, Gone
<1>2. main \in [lines : Seq(Lines), flushed : Nat] /\ DOMAIN side \in SUBSET (Docs \X Nat) /\ side \in [DOMAIN side -> SidecarFiles]
  BY DEF Inv, Types
<1>3. GoodLog(main.lines, setup.oneAddress) /\ main.flushed <= Len(main.lines) /\ main.lines \in Seq(Lines) BY LogWhole DEF Inv
<1>4. /\ GoodLog(main'.lines, setup.oneAddress) /\ main' \in [lines : Seq(Lines), flushed : Nat]
      /\ main'.flushed <= Len(main'.lines)
  <2>1. PICK n \in main.flushed..Len(main.lines), torn \in BOOLEAN :
          main' = [lines |-> IF torn THEN CutShort(SubSeq(main.lines, 1, n)) ELSE SubSeq(main.lines, 1, n), flushed |-> n]
    BY DEF PowerLoss
  <2> DEFINE c == Cut(main.lines, n)
  <2>2. n \in 0..Len(main.lines) /\ n \in Nat BY <1>2, <1>3
  <2>3. GoodLog(c, setup.oneAddress) /\ Len(c) = n BY <2>2, <1>3, LogPrefix
  <2>4. main'.lines = (IF torn THEN CutShort(c) ELSE c) /\ main' = [lines |-> main'.lines, flushed |-> n] BY <2>1 DEF Cut
  <2> HIDE DEF c
  <2>5. GoodLog(CutShort(c), setup.oneAddress) /\ Len(CutShort(c)) \in Nat /\ Len(CutShort(c)) >= n
    BY <2>3, <2>2, LogCutShort
  <2>6. GoodLog(main'.lines, setup.oneAddress) /\ n <= Len(main'.lines) BY <2>2, <2>3, <2>4, <2>5
  <2>7. main'.lines \in Seq(Lines) BY <2>6 DEF GoodLog
  <2>8. main'.flushed = n BY <2>4
  <2>9. main' \in [lines : Seq(Lines), flushed : Nat] BY <2>2, <2>4, <2>7
  <2> QED BY <2>6, <2>8, <2>9
<1>5. DOMAIN side' \in SUBSET (Docs \X Nat) /\ side' \in [DOMAIN side' -> SidecarFiles]
  <2>0. PICK left \in SUBSET DOMAIN side : \E cut \in [left -> 0..(2 * setup.maxSeq)] :
          /\ \A f \in left : cut[f] \in side[f].flushed..Len(side[f].recs)
          /\ side' = [f \in left |-> [recs |-> SubSeq(side[f].recs, 1, cut[f]), flushed |-> cut[f], named |-> TRUE]]
    BY DEF PowerLoss
  <2>1. PICK cut \in [left -> 0..(2 * setup.maxSeq)] :
          /\ \A f \in left : cut[f] \in side[f].flushed..Len(side[f].recs)
          /\ side' = [f \in left |-> [recs |-> SubSeq(side[f].recs, 1, cut[f]), flushed |-> cut[f], named |-> TRUE]]
    BY <2>0
  <2>2. ASSUME NEW f \in left PROVE side'[f] \in SidecarFiles
    <3>1. side[f] \in SidecarFiles BY <1>2
    <3>2. cut[f] \in side[f].flushed..Len(side[f].recs) BY <2>1
    <3>3. side[f].flushed \in Nat /\ side[f].recs \in Seq(Recs) BY <3>1 DEF SidecarFiles
    <3>4. cut[f] \in 0..Len(side[f].recs) /\ cut[f] \in Nat BY <3>2, <3>3
    <3>5. SubSeq(side[f].recs, 1, cut[f]) \in Seq(Recs) BY <3>1, <3>4, CutFile
    <3>6. side'[f] = [recs |-> SubSeq(side[f].recs, 1, cut[f]), flushed |-> cut[f], named |-> TRUE] BY <2>1
    <3> QED BY <3>4, <3>5, <3>6 DEF SidecarFiles
  <2>3. DOMAIN side' = left BY <2>1
  <2> DEFINE g == [f \in left |-> [recs |-> SubSeq(side[f].recs, 1, cut[f]), flushed |-> cut[f], named |-> TRUE]]
  <2>4. \A f \in left : g[f] \in SidecarFiles BY <2>1, <2>2
  <2>5. g \in [left -> SidecarFiles] BY <2>4
  <2>6. side' = g BY <2>1
  <2> HIDE DEF g
  <2> QED BY <2>3, <2>5, <2>6, <1>2
<1>6. lost' \in SUBSET Nat /\ \A id \in issued \ lost' : id < Replay(main'.lines).st.next
  <2>1. issued \in SUBSET Nat /\ lost \in SUBSET Nat BY DEF Inv, Types
  <2>2. Replay(main'.lines).st.next \in Nat
    <3>1. Whole(main'.lines, setup.oneAddress) BY <1>4, LogWhole
    <3>2. Sound(Replay(main'.lines).st, setup.oneAddress) BY <3>1 DEF Whole
    <3> QED BY <3>2 DEF Sound, States
  <2> DEFINE next == Replay(main'.lines).st.next
  <2> HIDE DEF next
  <2>3. next \in Nat /\ lost' = lost \cup {id \in issued : id >= next} BY <1>1, <2>2 DEF next
  <2>4. ASSUME NEW id \in issued \ lost' PROVE id < next
    <3>1. id \in Nat /\ ~(id >= next) BY <2>1, <2>3, <2>4
    <3> QED BY <2>3, <3>1
  <2> QED BY <2>1, <2>3, <2>4 DEF next
<1> QED BY <1>1, <1>4, <1>5, <1>6, GoneInv

\* The first half of an open cuts main.jsonl to what its replay confirms, and takes the state of that replay.
LEMMA OpenMainInv == Inv /\ OpenMain => Inv'
<1> SUFFICES ASSUME Inv, OpenMain PROVE Inv' OBVIOUS
<1> DEFINE one == setup.oneAddress
           L == main.lines
           r == Recovered
           n == r.confirmed
           c == Cut(L, n)
<1>1. main \in [lines : Seq(Lines), flushed : Nat] /\ DOMAIN side \in SUBSET (Docs \X Nat) /\ side \in [DOMAIN side -> SidecarFiles]
  BY DEF Inv, Types
<1>2. GoodLog(L, one) /\ main.flushed <= Len(L) BY DEF Inv
<1>3. /\ n \in 0..Len(L) /\ GoodLog(c, one) /\ Len(c) = n
      /\ Replay(c).st = r.st /\ Replay(c).confirmed = n /\ Replay(c).pending = <<>> /\ ~EndsTorn(c)
      /\ r.ok
  BY <1>2, ConfirmedPart DEF Recovered
<1>4. Sound(r.st, one) BY <1>2, LogWhole DEF Whole, Recovered
<1>5. /\ mode \in {"down", "closed"} /\ st' = r.st /\ mode' = "repair"
      /\ main' = IF n < Len(L) THEN Truncated ELSE main
      /\ side' = [f \in DOMAIN side |-> [side[f] EXCEPT !.named = TRUE]]
      /\ UNCHANGED <<job, poison, lateErr, wrote, past, crashes, setup>>
  BY <1>3 DEF OpenMain, Replayed, Recovered
<1>6. job = Idle /\ ~poison /\ ~wrote /\ UNCHANGED <<issued, lost, reissued>> BY <1>5 DEF Inv, Memory, past
<1>7. /\ main' \in [lines : Seq(Lines), flushed : Nat] /\ main'.flushed <= Len(main'.lines)
      /\ GoodLog(main'.lines, one) /\ Recovered'.st = r.st /\ Clean'
  <2>1. CASE n < Len(L)
    <3>1. main' = [lines |-> c, flushed |-> n] BY <1>5, <2>1 DEF Truncated, Recovered, Cut
    <3> HIDE DEF c, n
    <3>2. main'.lines = c /\ main'.flushed = n BY <3>1
    <3>3. c \in Seq(Lines) BY <1>3 DEF GoodLog
    <3>4. n \in Nat BY <1>3
    <3> QED BY <3>1, <3>2, <3>3, <3>4, <1>3 DEF Clean, Recovered
  <2>2. CASE ~(n < Len(L))
    <3>1. Len(L) \in Nat /\ n = Len(L)
      <4>1. Len(L) \in Nat BY <1>1
      <4> HIDE DEF n, L
      <4> QED BY <4>1, <1>3, <2>2
    <3>2. main' = main BY <1>5, <2>2
    <3>3. ~EndsTorn(L) /\ Replay(L).pending = <<>> BY <3>1, <1>2, ConfirmedClean DEF Recovered
    <3> QED BY <3>1, <3>2, <3>3, <1>1, <1>2 DEF Clean, Recovered
  <2> QED BY <2>1, <2>2
<1>8. DOMAIN side' \in SUBSET (Docs \X Nat) /\ side' \in [DOMAIN side' -> SidecarFiles]
  <2>1. \A f \in DOMAIN side : [side[f] EXCEPT !.named = TRUE] \in SidecarFiles BY <1>1 DEF SidecarFiles
  <2> QED BY <2>1, <1>1, <1>5
<1> HIDE DEF r, n, c, L, one
<1>9. r.st \in States BY <1>4 DEF Sound
<1>10. Types' BY <1>5, <1>7, <1>8, <1>9 DEF Inv, Types, past
<1>11. Memory' BY <1>4, <1>5, <1>6, <1>7, <1>8 DEF Memory, one
<1>12. Ids'
  <2>1. /\ \A id \in issued \ lost : id < r.st.next
        /\ "kept" \notin reissued /\ (~setup.powerFails => lost = {} /\ reissued = {})
    BY DEF Inv, Ids, r
  <2> QED BY <2>1, <1>5, <1>6, <1>7 DEF Ids
<1> QED BY <1>5, <1>7, <1>10, <1>11, <1>12 DEF Inv, one

\* A file with n whole records has n records.
LEMMA WholeRecords ==
  ASSUME NEW recs \in Seq(Recs), NEW n \in Nat, Cardinality({i \in DOMAIN recs : recs[i] # Torn}) >= n
  PROVE  Len(recs) >= n
<1> DEFINE I == {i \in DOMAIN recs : recs[i] # Torn}
           N == Len(recs)
<1>1. N \in Nat /\ I \in SUBSET (1..N) BY DEF I
<1>2. Cardinality(I) >= n OBVIOUS
<1> HIDE DEF I, N
<1>3. IsFiniteSet(1..N) /\ Cardinality(1..N) = IF 1 > N THEN 0 ELSE N - 1 + 1 BY <1>1, FS_Interval
<1>4. Cardinality(1..N) = N BY <1>1, <1>3
<1>5. IsFiniteSet(I) /\ Cardinality(I) <= Cardinality(1..N) BY <1>1, <1>3, FS_Subset
<1>6. Cardinality(I) \in Nat BY <1>5, FS_CardinalityType
<1> QED BY <1>1, <1>2, <1>4, <1>5, <1>6 DEF N

\* Every slice is a record, so a document ends where its slices do.
LEMMA ConfirmedIs ==
  ASSUME NEW s, NEW one, Sound(s, one), NEW d \in DOMAIN s.docs
  PROVE  /\ End(s.docs[d]) = Len(s.docs[d].slices) /\ s.docs[d].slices \in Seq(Slices) /\ s.docs[d].slices # <<>>
         /\ Numbered(s.docs[d].slices) /\ s.docs[d].generation \in Nat /\ s.docs[d] \in DocRecords
         /\ Len(s.docs[d].slices) \in Nat /\ Len(s.docs[d].slices) > 0 /\ d \in Docs
<1> DEFINE m == s.docs
<1>1. m \in Maps(Docs, DocRecords) BY DEF Sound, States
<1>2. DOMAIN m \subseteq Docs /\ m[d] \in DocRecords
  <2> HIDE DEF m
  <2>1. m \in [DOMAIN m -> DocRecords] /\ DOMAIN m \subseteq Docs BY <1>1, MapFacts
  <2>2. d \in DOMAIN m BY DEF m
  <2> QED BY <2>1, <2>2
<1>3. Numbered(m[d].slices) /\ m[d].slices # <<>> BY DEF Sound
<1> DEFINE x == m[d]
<1>4. x.slices \in Seq(Slices) /\ x.generation \in Nat BY <1>2 DEF DocRecords
<1>5. Numbered(x.slices) BY <1>3
<1>6. End(x) = Len(x.slices)
  <2> HIDE DEF x
  <2> QED BY <1>4, <1>5, EndFacts
<1>7. Len(x.slices) \in Nat /\ Len(x.slices) > 0 BY <1>3, <1>4
<1> QED BY <1>2, <1>3, <1>4, <1>6, <1>7

\* The second half goes on from that state, or refuses.
LEMMA OpenSidecarsInv == Inv /\ OpenSidecars => Inv'
<1> SUFFICES ASSUME Inv, OpenSidecars PROVE Inv' OBVIOUS
<1> DEFINE one == setup.oneAddress
           live == {Sidecar(d) : d \in DOMAIN st.docs}
           cut(f) == IF Len(side[f].recs) > Confirmed(f[1])
                     THEN FlushedFile([side[f] EXCEPT !.recs = SubSeq(@, 1, Confirmed(f[1]))])
                     ELSE side[f]
<1>1. DOMAIN side \in SUBSET (Docs \X Nat) /\ side \in [DOMAIN side -> SidecarFiles] BY DEF Inv, Types
<1>2. /\ mode = "repair" /\ UNCHANGED <<main, st, job, poison, lateErr, wrote, issued, lost, reissued, crashes, setup>>
      /\ mode' \in {"open", "corrupt"}
  BY DEF OpenSidecars
<1>3. job = Idle /\ ~poison /\ ~wrote /\ Clean /\ st = Recovered.st /\ Sound(st, one) BY <1>2 DEF Inv, Memory
<1>4. Recovered' = Recovered /\ Clean' BY <1>2, <1>3 DEF Clean, Recovered
<1>5. Agrees(st, Recovered.st)
  <2>1. Recovered.st.reserved < Recovered.st.next BY LogWhole DEF Inv, Whole, Recovered
  <2>2. st.next \in Nat BY <1>3 DEF Sound, States
  <2> QED BY <2>1, <2>2, <1>3 DEF Agrees
<1>6. CASE mode' = "corrupt"
  <2>1. side' = side BY <1>6 DEF OpenSidecars
  <2>2. Types' BY <1>2, <1>6, <2>1 DEF Inv, Types
  <2>3. Memory' BY <1>2, <1>3, <1>6 DEF Memory
  <2>4. Ids' BY <1>2, <1>4, <1>6 DEF Inv, Ids
  <2> QED BY <1>2, <2>2, <2>3, <2>4 DEF Inv
<1>7. CASE mode' = "open"
  <2>1. /\ \A d \in DOMAIN st.docs : Complete(Sidecar(d), Confirmed(d))
        /\ side' = [f \in live |-> cut(f)]
    BY <1>7 DEF OpenSidecars
  <2>2. \A d \in DOMAIN st.docs : /\ Sidecar(d) = <<d, st.docs[d].generation>>
                                  /\ Sidecar(d) \in DOMAIN side /\ Sidecar(d)[1] = d
                                  /\ Confirmed(d) = Len(st.docs[d].slices) /\ Confirmed(d) \in Nat
    <3> TAKE d \in DOMAIN st.docs
    <3>1. Sidecar(d) = <<d, st.docs[d].generation>> BY DEF Sidecar
    <3>2. Sidecar(d) \in DOMAIN side BY <2>1 DEF Complete
    <3>3. Confirmed(d) = Len(st.docs[d].slices) /\ Len(st.docs[d].slices) \in Nat BY <1>3, ConfirmedIs DEF Confirmed
    <3> QED BY <3>1, <3>2, <3>3
  <2>3. ASSUME NEW d \in DOMAIN st.docs
        PROVE  cut(Sidecar(d)) \in SidecarFiles /\ Len(cut(Sidecar(d)).recs) = Len(st.docs[d].slices)
    <3> DEFINE f == Sidecar(d)
               x == side[f]
               k == Confirmed(d)
    <3>1. f \in DOMAIN side /\ f[1] = d /\ k \in Nat /\ k = Len(st.docs[d].slices) BY <2>2
    <3>2. x \in SidecarFiles BY <3>1, <1>1
    <3>3. x.recs \in Seq(Recs) /\ Len(x.recs) \in Nat BY <3>2 DEF SidecarFiles
    <3>4. Cardinality({i \in DOMAIN x.recs : x.recs[i] # Torn}) >= k BY <2>1 DEF Complete
    <3>5. Len(x.recs) >= k
      <4> HIDE DEF x, k
      <4> QED BY <3>1, <3>3, <3>4, WholeRecords
    <3>6. CASE Len(x.recs) > k
      <4> DEFINE y == [x EXCEPT !.recs = SubSeq(@, 1, k)]
      <4>1. cut(f) = FlushedFile(y) BY <3>1, <3>6
      <4>2. SubSeq(x.recs, 1, k) \in Seq(Recs) /\ Len(SubSeq(x.recs, 1, k)) = k
        <5> HIDE DEF x, k
        <5>1. k \in 0..Len(x.recs) BY <3>1, <3>3, <3>6
        <5> QED BY <3>2, <5>1, CutFile
      <4>3. y.recs = SubSeq(x.recs, 1, k) /\ y \in SidecarFiles
        <5> HIDE DEF x, k
        <5> QED BY <3>2, <4>2 DEF SidecarFiles, y
      <4> HIDE DEF y
      <4>4. FlushedFile(y).recs = y.recs /\ FlushedFile(y) \in SidecarFiles
        <5>0. y \in SidecarFiles BY <4>3
        <5>1. y.recs \in Seq(Recs) /\ Len(y.recs) \in Nat BY <5>0 DEF SidecarFiles
        <5> QED BY <5>0, <5>1 DEF FlushedFile, SidecarFiles
      <4> HIDE DEF x, f, k, cut
      <4> QED BY <4>1, <4>2, <4>3, <4>4, <3>1 DEF f
    <3>7. CASE ~(Len(x.recs) > k)
      <4>1. cut(f) = x BY <3>1, <3>7
      <4>2. Len(x.recs) = k BY <3>1, <3>3, <3>5, <3>7
      <4> QED BY <4>1, <4>2, <3>1, <3>2
    <3> QED BY <3>6, <3>7
  <2> HIDE DEF cut
  <2>4. DOMAIN side' = live /\ \A d \in DOMAIN st.docs : side'[Sidecar(d)] = cut(Sidecar(d)) BY <2>1
  <2>5. DOMAIN side' \in SUBSET (Docs \X Nat) BY <2>2, <2>4, <1>1
  <2>6. side' \in [DOMAIN side' -> SidecarFiles]
    <3>1. \A f \in live : cut(f) \in SidecarFiles BY <2>3
    <3> QED BY <2>1, <2>4, <3>1
  <2>7. Types' BY <1>2, <1>7, <2>5, <2>6 DEF Inv, Types
  <2>8. \A d \in Docs : Sidecar(d)' = Sidecar(d) BY <1>2 DEF Sidecar
  <2>9. Lengths({})'
    <3> SUFFICES ASSUME NEW d \in Docs
                 PROVE  Len(File(Sidecar(d))'.recs) = Len(SlicesOf(st.docs, d)) + 0
      BY <1>2, <2>8 DEF Lengths
    <3>1. CASE d \in DOMAIN st.docs
      <4>1. Sidecar(d) \in DOMAIN side' BY <3>1, <2>4
      <4>2. File(Sidecar(d))' = cut(Sidecar(d)) BY <4>1, <3>1, <2>4, <2>8 DEF File
      <4>3. Len(st.docs[d].slices) \in Nat BY <3>1, <1>3, ConfirmedIs
      <4> QED BY <4>2, <4>3, <3>1, <2>3 DEF SlicesOf
    <3>2. CASE d \notin DOMAIN st.docs
      <4>1. Sidecar(d) = <<d, 0>> BY <3>2 DEF Sidecar
      <4>2. Sidecar(d) \notin DOMAIN side' BY <3>2, <2>2, <2>4, <4>1
      <4>3. File(Sidecar(d))' = NewFile BY <4>2, <2>8 DEF File
      <4> QED BY <4>3, <3>2 DEF SlicesOf, NewFile
    <3> QED BY <3>1, <3>2
  <2>10. Idle.at = "idle" /\ Idle \notin CommitJobs BY JobKinds
  <2>11. Settled' BY <1>2, <1>3, <1>4, <1>5, <2>9, <2>10 DEF Settled
  <2>12. Memory' BY <1>2, <1>3, <1>7, <2>10, <2>11 DEF Memory
  <2>13. Ids' BY <1>2, <1>4, <1>7 DEF Inv, Ids
  <2> QED BY <1>2, <2>7, <2>12, <2>13 DEF Inv
<1> QED BY <1>2, <1>6, <1>7

-----------------------------------------------------------------------------
(* Ids, and what poisons. *)

\* A write to main.jsonl.
LEMMA MainIsFacts ==
  ASSUME main \in [lines : Seq(Lines), flushed : Nat], NEW lines \in Seq(Lines), MainIs(lines)
  PROVE  main' \in [lines : Seq(Lines), flushed : Nat] /\ main'.lines = lines /\ main'.flushed = main.flushed
BY DEF MainIs

\* Whatever poisons leaves the log as it was, but for a torn end.
LEMMA PoisonInv ==
  ASSUME Inv, mode = "open", mode' = "open", job' = Idle, poison' = TRUE, st' = st,
         MainIs(CutShort(main.lines)) \/ main' = main,
         DOMAIN side' \in SUBSET (Docs \X Nat), side' \in [DOMAIN side' -> SidecarFiles],
         lateErr' \in BOOLEAN, wrote' = wrote, issued' = issued, lost' = lost, reissued' = reissued,
         setup' = setup
  PROVE  Inv'
<1>1. main \in [lines : Seq(Lines), flushed : Nat] BY DEF Inv, Types
<1>2. GoodLog(main.lines, setup.oneAddress) /\ main.flushed <= Len(main.lines) BY DEF Inv
<1>3. main.flushed \in Nat /\ Len(main.lines) \in Nat BY <1>1
<1>4. /\ main' \in [lines : Seq(Lines), flushed : Nat] /\ main'.flushed <= Len(main'.lines)
      /\ GoodLog(main'.lines, setup.oneAddress) /\ Recovered' = Recovered
  <2>1. CASE main' = main BY <2>1, <1>1, <1>2 DEF Recovered
  <2>2. CASE MainIs(CutShort(main.lines))
    <3> DEFINE c == CutShort(main.lines)
    <3>1. GoodLog(c, setup.oneAddress) /\ Replay(c) = Recovered /\ Len(c) \in Nat /\ Len(main.lines) <= Len(c)
      BY <1>2, LogCutShort DEF Recovered
    <3>2. MainIs(c) BY <2>2
    <3> HIDE DEF c
    <3>3. c \in Seq(Lines) BY <3>1 DEF GoodLog
    <3>4. main' \in [lines : Seq(Lines), flushed : Nat] /\ main'.lines = c /\ main'.flushed = main.flushed
      BY <3>2, <3>3, <1>1, MainIsFacts
    <3> QED BY <3>1, <3>4, <1>2, <1>3 DEF Recovered
  <2> QED BY <2>1, <2>2
<1>5. Types' BY <1>4, JobKinds DEF Inv, Types
<1>6. Memory' BY DEF Inv, Memory
<1>7. Ids' BY <1>4 DEF Inv, Ids
<1> QED BY <1>4, <1>5, <1>6, <1>7 DEF Inv

\* When the store is open, between operations.
LEMMA ReadyFacts ==
  ASSUME Inv, Ready, ~poison
  PROVE  mode = "open" /\ job = Idle /\ Settled /\ Idle \notin CommitJobs
BY JobKinds DEF Ready, Inv, Memory

\* A block is on the log before the first of its ids is handed out.
LEMMA MintRawInv == Inv /\ MintRaw => Inv'
<1> SUFFICES ASSUME Inv, MintRaw PROVE Inv' OBVIOUS
<1> DEFINE one == setup.oneAddress
           L == main.lines
           r == Recovered
           high == st.next + IdBlock - 1
<1>1. Types /\ GoodLog(L, one) /\ main.flushed <= Len(L) BY DEF Inv
<1>2. main \in [lines : Seq(Lines), flushed : Nat] /\ DOMAIN side \in SUBSET (Docs \X Nat)
      /\ side \in [DOMAIN side -> SidecarFiles] /\ st \in States
  BY <1>1 DEF Types
<1>3. Ready /\ ~poison /\ lateErr' = FALSE /\ side' = side /\ mode' = mode /\ job' = job /\ setup' = setup
  BY DEF MintRaw
<1>4. mode = "open" /\ job = Idle /\ Settled /\ Idle \notin CommitJobs BY <1>3, ReadyFacts
<1>5. CASE poison' = TRUE /\ UNCHANGED <<st, wrote, issued, lost, reissued>> /\ (MainIs(CutShort(main.lines)) \/ main' = main)
  BY <1>5, <1>2, <1>3, <1>4, PoisonInv
<1>6. CASE /\ IF st.next > st.reserved THEN MainIs(Written(main.lines, Mint(high))) ELSE UNCHANGED main
           /\ wrote' = (wrote \/ st.next > st.reserved)
           /\ st' = [st EXCEPT !.reserved = IF st.next > @ THEN high ELSE @, !.next = @ + 1]
           /\ issued' = issued \cup {st.next}
           /\ lost' = lost \ {st.next}
           /\ reissued' = IF st.next \in issued THEN reissued \cup {Fate(st.next)} ELSE reissued
           /\ poison' = poison
  <2>1. Clean /\ Agrees(st, r.st) /\ Lengths({}) BY <1>4 DEF Settled
  <2>2. st.next \in Nat /\ st.reserved \in Nat /\ IdBlock \in Nat \ {0} BY <1>2, BlockAssumption DEF States
  <2>3. high \in Nat /\ high >= st.next BY <2>2
  <2>4. Sound(r.st, one) /\ r.st.reserved < r.st.next BY <1>1, LogWhole DEF Whole, Recovered
  <2>5. r.st.next \in Nat /\ r.st.reserved \in Nat /\ st.next <= r.st.next /\ st.reserved < r.st.next BY <2>1, <2>4 DEF Sound, States, Agrees
  <2>6. /\ st'.last = st.last /\ st'.rows = st.rows /\ st'.docs = st.docs /\ st'.next = st.next + 1
        /\ st'.reserved = (IF st.next > st.reserved THEN high ELSE st.reserved) /\ st' \in States
    <3> DEFINE h == IF st.next > st.reserved THEN high ELSE st.reserved
               m == st.next + 1
    <3>1. h \in Nat /\ m \in Nat BY <2>2, <2>3
    <3>2. st' = [st EXCEPT !.reserved = h, !.next = m] BY <1>6
    <3> HIDE DEF h, m
    <3>3. st'.last = st.last /\ st'.rows = st.rows /\ st'.docs = st.docs /\ st'.next = m /\ st'.reserved = h /\ st' \in States
      BY <3>1, <3>2, <1>2 DEF States
    <3> QED BY <3>3 DEF h, m
  <2>7. /\ main' \in [lines : Seq(Lines), flushed : Nat] /\ main'.flushed <= Len(main'.lines)
        /\ GoodLog(main'.lines, one) /\ Clean' /\ Agrees(st', Recovered'.st) /\ Recovered'.st.next >= r.st.next
    <3>1. CASE st.next > st.reserved
      <4> DEFINE x == Mint(high)
                 M == Append(L, x)
                 p == Replay(M)
      <4>0. ~EndsTorn(L) /\ Replay(L).pending = <<>> BY <2>1 DEF Clean, Recovered
      <4>1. /\ GoodLog(M, one) /\ p.st = Spend(r.st, high) /\ p.pending = <<>> /\ p.confirmed = Len(L) + 1 /\ ~EndsTorn(M)
        <5> HIDE DEF high, L
        <5> QED BY <4>0, <1>1, <2>3, LogMint DEF Recovered, L
      <4>2. MainIs(M) BY <1>6, <3>1, <4>0, WrittenWhole
      <4>3. M \in Seq(Lines)
        <5> HIDE DEF M
        <5> QED BY <4>1 DEF GoodLog
      <4>4. Len(M) = Len(L) + 1 /\ Len(L) \in Nat /\ main.flushed \in Nat BY <1>2
      <4>5. LET u == Spend(r.st, high) IN
            /\ u.last = r.st.last /\ u.rows = r.st.rows /\ u.docs = r.st.docs /\ u.next >= r.st.next /\ u.next > high
            /\ u.next \in Nat
        <5> HIDE DEF high, r
        <5>1. LET u == Spend(r.st, high) IN
              /\ Sound(u, one) /\ u.last = r.st.last /\ u.rows = r.st.rows /\ u.docs = r.st.docs
              /\ u.next >= r.st.next /\ u.next > high
          BY <2>3, <2>4, SpendFacts
        <5> QED BY <5>1 DEF Sound, States
      <4> HIDE DEF M, p, high, r, L
      <4>6. main' \in [lines : Seq(Lines), flushed : Nat] /\ main'.lines = M /\ main'.flushed = main.flushed
        BY <4>2, <4>3, <1>2, MainIsFacts
      <4>7. Recovered' = p BY <4>6 DEF Recovered, p
      <4>8. Clean' BY <4>1, <4>4, <4>6, <4>7 DEF Clean
      <4>9. st'.next <= p.st.next /\ st'.reserved < p.st.next BY <2>2, <2>3, <2>6, <3>1, <4>1, <4>5
      <4>10. Agrees(st', Recovered'.st) BY <2>1, <2>6, <4>1, <4>5, <4>7, <4>9 DEF Agrees
      <4>11. main'.flushed <= Len(main'.lines) BY <4>4, <4>6, <1>1 DEF L
      <4> QED BY <4>1, <4>5, <4>6, <4>7, <4>8, <4>10, <4>11
    <3>2. CASE ~(st.next > st.reserved)
      <4>1. main' = main BY <1>6, <3>2
      <4>2. Recovered' = r /\ Clean' BY <4>1, <2>1 DEF Recovered, Clean
      <4>3. st'.next <= r.st.next /\ st'.reserved < r.st.next BY <2>2, <2>5, <2>6, <3>2
      <4>4. Agrees(st', r.st) BY <2>1, <2>6, <4>3 DEF Agrees
      <4>5. r.st.next >= r.st.next BY <2>5
      <4> QED BY <4>1, <4>2, <4>4, <4>5, <1>1, <1>2
    <3> QED BY <3>1, <3>2
  <2> HIDE DEF high, r, L
  <2>8. issued \in SUBSET Nat /\ lost \in SUBSET Nat BY <1>1 DEF Types
  <2>9. Types'
    <3>1. wrote' \in BOOLEAN /\ poison' \in BOOLEAN BY <1>6, <1>1 DEF Types
    <3>2. issued' \in SUBSET Nat /\ lost' \in SUBSET Nat BY <1>6, <2>2, <2>8
    <3> QED BY <1>1, <1>3, <2>6, <2>7, <3>1, <3>2 DEF Types
  <2>10. Sound(st', one) BY <2>6 DEF Inv, Memory, Sound, Addressed
  <2>11. Lengths({})' BY <1>3, <2>1, <2>6 DEF Lengths, File, Sidecar
  <2>12. Settled' BY <1>3, <1>4, <2>7, <2>11, JobKinds DEF Settled
  <2>13. Memory' BY <1>3, <1>4, <1>6, <2>10, <2>12 DEF Memory
  <2>14. Ids'
    <3>1. /\ \A id \in issued \ lost : id < r.st.next /\ id < st.next
          /\ "kept" \notin reissued /\ (~setup.powerFails => lost = {} /\ reissued = {})
      BY <1>4 DEF Inv, Ids, r
    <3>2. Recovered'.st.next \in Nat
      <4>1. Sound(Recovered'.st, one)
        <5>1. Whole(main'.lines, one) BY <2>7, LogWhole
        <5> QED BY <5>1 DEF Whole, Recovered
      <4> QED BY <4>1 DEF Sound, States
    <3>3. st.next < Recovered'.st.next BY <2>2, <2>6, <2>7, <3>2 DEF Agrees
    <3>4. st.next \notin issued \ lost BY <3>1, <2>2, <2>8
    <3>5. \A id \in issued \ lost : id < Recovered'.st.next /\ id < st'.next BY <3>1, <3>2, <2>2, <2>5, <2>6, <2>7, <2>8 DEF r
    <3>6. "kept" \notin reissued' /\ (~setup.powerFails => lost' = {} /\ reissued' = {})
      <4>1. st.next \in issued => Fate(st.next) = "lost" BY <3>4 DEF Fate
      <4> QED BY <4>1, <1>6, <3>1, <3>4
    <3>7. issued' \ lost' = (issued \ lost) \cup {st.next} BY <1>6
    <3>8. st.next < st'.next BY <2>2, <2>6
    <3> QED BY <1>3, <3>3, <3>5, <3>6, <3>7, <3>8 DEF Ids
  <2> QED BY <1>3, <2>7, <2>9, <2>13, <2>14 DEF Inv
<1> QED BY <1>3, <1>5, <1>6 DEF MintRaw

-----------------------------------------------------------------------------
(* A commit, up to its marker. *)

\* A commit begins with a plan that fits the state, or finds the error of a deferred flush and poisons.
LEMMA CommitInv == Inv /\ Commit => Inv'
<1> SUFFICES ASSUME Inv, NEW b \in Batches,
                    NEW rows \in {{}} \cup {{id} : id \in IF setup.rows THEN issued \ st.rows ELSE {}},
                    BeginCommit(b, rows)
             PROVE  Inv'
  BY DEF Commit
<1> DEFINE C == Creates(b)
           X == Retires(b)
           plan == Plan(b, rows, st.last + 1)
<1>1. Types BY DEF Inv
<1>2. /\ Ready /\ ~poison /\ Valid(b) /\ lateErr' = FALSE
      /\ UNCHANGED <<main, side, mode, st, wrote, issued, lost, reissued, setup>>
  BY DEF BeginCommit, disk, past
<1>3. mode = "open" /\ job = Idle /\ Settled /\ Idle \notin CommitJobs BY <1>2, ReadyFacts
<1>4. CASE lateErr
  <2>1. poison' = TRUE /\ job' = job BY <1>4 DEF BeginCommit
  <2>2. DOMAIN side' \in SUBSET (Docs \X Nat) /\ side' \in [DOMAIN side' -> SidecarFiles] BY <1>1, <1>2 DEF Types
  <2> QED BY <1>2, <1>3, <2>1, <2>2, PoisonInv
<1>5. CASE ~lateErr
  <2>1. /\ poison' = poison
        /\ job' = [at    |-> IF Writes(b) = {} THEN "main" ELSE "content",
                   seq   |-> st.last + 1,
                   batch |-> b,
                   todo  |-> Writes(b),
                   ends  |-> <<>>,
                   plan  |-> plan,
                   sent  |-> 0]
    BY <1>5 DEF BeginCommit
  <2>2. b \in Maps(Docs, Cmds)
    <3>1. PICK touched \in SUBSET setup.docs : b \in [touched -> Commands] BY DEF Batches
    <3>2. setup.docs \in SUBSET Docs /\ setup.writes \in SUBSET {"none", "create", "base", "delta"} /\ setup.retires \in BOOLEAN
      BY <1>1, SetupFacts DEF Types
    <3>3. Commands \subseteq Cmds BY <3>2 DEF Commands, Cmds
    <3>4. touched \in SUBSET Docs /\ b \in [touched -> Cmds] BY <3>1, <3>2, <3>3
    <3> QED BY <3>4, MapFacts
  <2>3. DOMAIN b \subseteq Docs /\ b \in [DOMAIN b -> Cmds] BY <2>2, MapFacts
  <2>4. C \subseteq Writes(b) /\ Writes(b) \subseteq DOMAIN b /\ X \subseteq DOMAIN b BY DEF Creates, Writes, Retires
  <2>5. st.last \in Nat /\ st.last + 1 \in Nat BY <1>1 DEF Types, States
  <2>6. rows \in SUBSET Nat /\ IsFiniteSet(rows) /\ rows \cap st.rows = {}
    <3>1. issued \in SUBSET Nat BY <1>1 DEF Types
    <3>2. rows = {} \/ \E id \in issued \ st.rows : rows = {id}
      <4> DEFINE from == IF setup.rows THEN issued \ st.rows ELSE {}
      <4>1. rows \in {{}} \cup {{id} : id \in from} OBVIOUS
      <4>2. from \subseteq issued \ st.rows OBVIOUS
      <4> HIDE DEF from
      <4> QED BY <4>1, <4>2
    <3>3. IsFiniteSet(rows)
      <4>1. IsFiniteSet({}) BY FS_EmptySet
      <4>2. \A id : IsFiniteSet({id}) BY FS_Singleton
      <4> QED BY <3>2, <4>1, <4>2
    <3> QED BY <3>1, <3>2, <3>3
  <2>7. Planned(plan, st.last + 1, C, X) /\ RowIds(plan, Len(plan)) = rows BY <2>2, <2>5, <2>6, PlanFacts
  <2>8. C \cap DOMAIN st.docs = {} /\ DOMAIN b \ C \subseteq Live(st) /\ AddressesFree(b) BY <1>2 DEF Valid
  <2>9. Live(st) \subseteq DOMAIN st.docs BY DEF Live
  <2> HIDE DEF C, X, plan
  <2>10. Fits(st, plan, C, X) BY <2>3, <2>4, <2>6, <2>7, <2>8 DEF Fits
  <2>11. Vacant(st, C, X, setup.oneAddress) BY <2>8 DEF Vacant, AddressesFree, SameAddress, C, X
  <2>12. DOMAIN b \subseteq DOMAIN st.docs \cup C BY <2>8, <2>9
  <2>13. plan \in Seq(RecordLines) BY <2>7 DEF Planned
  <2> DEFINE at == IF Writes(b) = {} THEN "main" ELSE "content"
             none == <<>>
  <2>14. DOMAIN none = {} /\ none \in Ends
    <3>1. DOMAIN none = {} /\ {} \in SUBSET Docs /\ none \in [{} -> [end : Nat, base : BOOLEAN]] OBVIOUS
    <3> HIDE DEF none
    <3>2. none \in Maps(Docs, [end : Nat, base : BOOLEAN])
      <4> DEFINE V == [end : Nat, base : BOOLEAN]
                 E == {}
      <4>1. E \in SUBSET Docs /\ none \in [E -> V] BY <3>1
      <4> HIDE DEF V, E
      <4>2. none \in Maps(Docs, V) BY <4>1, MapFacts
      <4> QED BY <4>2 DEF V
    <3> QED BY <3>1, <3>2 DEF Ends
  <2>15. at \in {"content", "main"} /\ (at = "content" <=> Writes(b) # {}) OBVIOUS
  <2> HIDE DEF at, none
  <2>16. job' = [at |-> at, seq |-> st.last + 1, batch |-> b, todo |-> Writes(b), ends |-> none, plan |-> plan, sent |-> 0]
    BY <2>1 DEF at, none
  <2>17. /\ job' \in CommitJobs
         /\ job'.at = at /\ job'.seq = st.last + 1 /\ job'.batch = b /\ job'.todo = Writes(b) /\ job'.ends = none
         /\ job'.plan = plan /\ job'.sent = 0
    BY <2>2, <2>3, <2>4, <2>5, <2>13, <2>14, <2>15, <2>16 DEF CommitJobs
  <2>18. Types' BY <1>1, <1>2, <2>1, <2>17 DEF Types, Jobs
  <2>19. Recovered' = Recovered /\ Clean' BY <1>2, <1>3 DEF Recovered, Clean, Settled
  <2>20. Clean /\ Agrees(st, Recovered.st) /\ Lengths({}) BY <1>3 DEF Settled
  <2>21. Lengths(DOMAIN job.ends)'
    <3>1. DOMAIN job'.ends = {} BY <2>14, <2>17
    <3>2. Lengths({})' BY <2>20, <1>2 DEF Lengths, File, Sidecar
    <3>3. \A S : Lengths(S)' <=> \A d \in Docs : Len(File(Sidecar(d)).recs)' = Len(SlicesOf(st.docs, d))' + (IF d \in S THEN 1 ELSE 0)
      BY DEF Lengths
    <3> QED BY <3>1, <3>2 DEF Lengths
  <2>22. Cut(plan, 0) = <<>> /\ Len(plan) \in Nat BY <2>13, CutFacts
  <2>23. Committing'
    <3>1. /\ job'.seq = st'.last + 1
          /\ Planned(job'.plan, job'.seq, Creates(job'.batch), Retires(job'.batch))
          /\ Fits(st', job'.plan, Creates(job'.batch), Retires(job'.batch))
          /\ Vacant(st', Creates(job'.batch), Retires(job'.batch), setup'.oneAddress)
          /\ DOMAIN job'.batch \subseteq DOMAIN st'.docs \cup Creates(job'.batch)
      BY <1>2, <2>7, <2>10, <2>11, <2>12, <2>17 DEF C, X
    <3>2. /\ job'.todo \subseteq Writes(job'.batch) /\ DOMAIN job'.ends = Writes(job'.batch) \ job'.todo
          /\ job'.at = "content" <=> job'.todo # {}
          /\ \A d \in DOMAIN job'.ends : job'.ends[d].end = Len(SlicesOf(st'.docs, d)) + 1
      BY <2>14, <2>15, <2>17
    <3>3. ~EndsTorn(main'.lines) BY <1>2, <2>20 DEF Clean
    <3>4. Agrees(st', Recovered'.st) BY <1>2, <2>19, <2>20
    <3>5. job'.sent \in 0..Len(job'.plan) /\ Recovered'.pending = Cut(job'.plan, job'.sent)
      BY <2>17, <2>19, <2>20, <2>22 DEF Clean
    <3>6. job'.at # "publish" /\ job'.sent = 0 BY <2>15, <2>17
    <3> QED BY <3>1, <3>2, <3>3, <3>4, <3>5, <3>6, <2>21 DEF Committing
  <2>24. Memory' BY <1>2, <1>3, <2>1, <2>17, <2>23 DEF Inv, Memory
  <2>25. Ids' BY <1>2, <2>19 DEF Inv, Ids
  <2> QED BY <1>2, <2>18, <2>24, <2>25 DEF Inv
<1> QED BY <1>4, <1>5

\* When a commit is on its way.
LEMMA CommittingFacts ==
  ASSUME Inv, mode = "open", job.at \in {"content", "flush", "main", "publish"}
  PROVE  job \in CommitJobs /\ job # Idle /\ ~poison /\ poison = FALSE /\ Committing
<1>1. job \in Jobs /\ poison \in BOOLEAN BY DEF Inv, Types
<1>2. job \in CommitJobs /\ job # Idle BY <1>1, JobKinds
<1> QED BY <1>1, <1>2 DEF Inv, Memory

\* Among the sidecars.
FileAmong(files, f) == IF f \in DOMAIN files THEN files[f] ELSE NewFile

SidecarNames == Docs \X Nat

Filed(files) == DOMAIN files \in SUBSET (Docs \X Nat) /\ files \in [DOMAIN files -> SidecarFiles]

\* One sidecar put there.
LEMMA SidecarPut ==
  ASSUME NEW files, Filed(files), NEW f \in SidecarNames, NEW x \in SidecarFiles, NEW s, s = Put(files, f, x)
  PROVE  /\ Filed(s)
         /\ FileAmong(s, f) = x
         /\ \A g : g # f => FileAmong(s, g) = FileAmong(files, g)
<1>1. DOMAIN s = DOMAIN files \cup {f} BY DEF Put
<1>2. s[f] = x /\ \A g \in DOMAIN files : g # f => s[g] = files[g] BY DEF Put
<1>3. \A g \in DOMAIN s : s[g] \in SidecarFiles BY <1>1, <1>2 DEF Filed
<1>4. s = [g \in DOMAIN s |-> s[g]] BY <1>1 DEF Put
<1>5. s \in [DOMAIN s -> SidecarFiles] BY <1>3, <1>4
<1>6. DOMAIN s \in SUBSET (Docs \X Nat) BY <1>1 DEF Filed, SidecarNames
<1> QED BY <1>1, <1>2, <1>5, <1>6 DEF FileAmong, Filed

\* A sidecar that is there or new.
LEMMA FileTypes ==
  ASSUME Types
  PROVE  /\ \A f : File(f) = FileAmong(side, f)
         /\ \A f : File(f) \in SidecarFiles /\ File(f).recs \in Seq(Recs)
         /\ \A d \in Docs : Sidecar(d) \in Docs \X Nat /\ Sidecar(d)[1] = d /\ Sidecar(d) = <<d, GenerationOf(st.docs, d)>>
         /\ \A d, e \in Docs : d # e => Sidecar(d) # Sidecar(e)
<1>1. NewFile \in SidecarFiles BY DEF NewFile, SidecarFiles
<1>2. \A f : File(f) \in SidecarFiles BY <1>1 DEF Types, File
<1>3. ASSUME NEW d \in Docs
      PROVE  Sidecar(d) \in Docs \X Nat /\ Sidecar(d)[1] = d /\ Sidecar(d) = <<d, GenerationOf(st.docs, d)>>
  <2> DEFINE m == st.docs
  <2>1. m \in Maps(Docs, DocRecords) BY DEF Types, States
  <2>2. Sidecar(d) = <<d, IF d \in DOMAIN m THEN m[d].generation ELSE 0>> BY DEF Sidecar
  <2> HIDE DEF m
  <2>3. m \in [DOMAIN m -> DocRecords] BY <2>1, MapFacts
  <2>4. d \in DOMAIN m => m[d].generation \in Nat BY <2>3 DEF DocRecords
  <2> QED BY <2>2, <2>4 DEF GenerationOf, m
<1>4. \A f : File(f).recs \in Seq(Recs) BY <1>2 DEF SidecarFiles
<1> QED BY <1>2, <1>3, <1>4 DEF File, FileAmong

\* Nothing to choose from is nothing chosen.
LEMMA FirstFacts == \A S : S # {} => First(S) \in S
BY DEF First

\* Content goes to the sidecars; the log stays.
LEMMA AppendContentInv == Inv /\ AppendContent => Inv'
<1> SUFFICES ASSUME Inv, AppendContent PROVE Inv' OBVIOUS
<1> DEFINE d == First(job.todo)
           f == Sidecar(d)
           base == job.batch[d].write # "delta"
           recs == Append(File(f).recs, [seq |-> job.seq, base |-> base])
<1>1. /\ mode = "open" /\ job.at = "content"
      /\ UNCHANGED <<main, wrote, issued, lost, reissued, swept, setup>>
  BY DEF AppendContent, past
<1>2. job \in CommitJobs /\ job # Idle /\ ~poison /\ poison = FALSE /\ Committing BY <1>1, CommittingFacts
<1>3. Types BY DEF Inv
<1>4. job.todo # {} /\ job.todo \in SUBSET Docs BY <1>1, <1>2 DEF Committing, CommitJobs
<1>5. d \in job.todo /\ d \in Docs BY <1>4, FirstFacts
<1>6. base \in BOOLEAN /\ job.seq \in Nat BY <1>2 DEF CommitJobs
<1>7. File(f) \in SidecarFiles /\ File(f).recs \in Seq(Recs) /\ f \in Docs \X Nat BY <1>3, <1>5, FileTypes
<1>8. DOMAIN side \in SUBSET (Docs \X Nat) /\ side \in [DOMAIN side -> SidecarFiles] BY <1>3 DEF Types
<1>9. [seq |-> job.seq, base |-> base] \in Recs /\ Torn \in Recs
  <2> HIDE DEF base
  <2> QED BY <1>6 DEF Recs
<1>10. recs \in Seq(Recs) /\ Len(recs) = Len(File(f).recs) + 1 /\ Append(File(f).recs, Torn) \in Seq(Recs)
  <2> DEFINE x == [seq |-> job.seq, base |-> base]
  <2>1. recs = Append(File(f).recs, x) OBVIOUS
  <2>2. x \in Recs BY <1>9
  <2> HIDE DEF f, recs, x
  <2> QED BY <2>1, <2>2, <1>7, <1>9
<1>11. \A q \in Seq(Recs) : [File(f) EXCEPT !.recs = q] \in SidecarFiles /\ [File(f) EXCEPT !.recs = q].recs = q
  <2> DEFINE x == File(f)
  <2>1. x \in SidecarFiles BY <1>7
  <2> HIDE DEF x
  <2>2. \A q \in Seq(Recs) : [x EXCEPT !.recs = q] \in SidecarFiles /\ [x EXCEPT !.recs = q].recs = q BY <2>1 DEF SidecarFiles
  <2> QED BY <2>2 DEF x
<1> HIDE DEF f, recs, base, d
<1>12. \A q \in Seq(Recs) : AppendTo(f, q) =>
         LET x == [File(f) EXCEPT !.recs = q] IN
         /\ DOMAIN side' \in SUBSET (Docs \X Nat) /\ side' \in [DOMAIN side' -> SidecarFiles]
         /\ FileAmong(side', f) = x /\ x.recs = q
         /\ \A g : g # f => FileAmong(side', g) = FileAmong(side, g)
  <2> TAKE q \in Seq(Recs)
  <2> HAVE AppendTo(f, q)
  <2> DEFINE x == [File(f) EXCEPT !.recs = q]
  <2>1. x \in SidecarFiles /\ x.recs = q BY <1>11
  <2>2. side' = Put(side, f, x) BY DEF AppendTo
  <2> HIDE DEF x
  <2>a. f \in SidecarNames BY <1>7 DEF SidecarNames
  <2>b. Filed(side) BY <1>8 DEF Filed
  <2>3. /\ Filed(side')
        /\ FileAmong(side', f) = x
        /\ \A g : g # f => FileAmong(side', g) = FileAmong(side, g)
    <3> DEFINE t == side'
    <3>1. t = Put(side, f, x) /\ x \in SidecarFiles BY <2>1, <2>2
    <3> HIDE DEF t
    <3>2. /\ Filed(t)
          /\ FileAmong(t, f) = x
          /\ \A g : g # f => FileAmong(t, g) = FileAmong(side, g)
      BY <3>1, <2>a, <2>b, SidecarPut
    <3> QED BY <3>2 DEF t
  <2>4. /\ DOMAIN side' \in SUBSET (Docs \X Nat) /\ side' \in [DOMAIN side' -> SidecarFiles]
        /\ FileAmong(side', f) = x
        /\ \A g : g # f => FileAmong(side', g) = FileAmong(side, g)
    BY <2>3 DEF Filed
  <2> QED BY <2>1, <2>4 DEF x
<1>13. CASE PoisonedBy /\ (AppendTo(f, Append(File(f).recs, Torn)) \/ side' = side)
  <2>1. poison' = TRUE /\ job' = Idle /\ UNCHANGED <<mode, st, lateErr>> BY <1>13 DEF PoisonedBy
  <2>2. DOMAIN side' \in SUBSET (Docs \X Nat) /\ side' \in [DOMAIN side' -> SidecarFiles]
    BY <1>8, <1>10, <1>12, <1>13
  <2>3. lateErr \in BOOLEAN BY <1>3 DEF Types
  <2> QED BY <1>1, <2>1, <2>2, <2>3, PoisonInv
<1>14. CASE /\ AppendTo(f, recs)
            /\ job' = [job EXCEPT
                 !.todo = @ \ {d},
                 !.ends = Put(@, d, [end |-> Len(recs), base |-> base]),
                 !.at = AfterContent(job.todo # {d})]
            /\ UNCHANGED <<poison, mode, st, lateErr>>
  <2> DEFINE at == AfterContent(job.todo # {d})
             todo == job.todo \ {d}
             end == [end |-> Len(recs), base |-> base]
             ends == Put(job.ends, d, end)
  <2>1. at \in {"content", "flush", "main"} /\ (at = "content" <=> todo # {})
    <3>1. job.todo # {d} <=> todo # {} BY <1>5
    <3>2. setup.flushes \in BOOLEAN BY <1>3, SetupFacts DEF Types
    <3> HIDE DEF todo
    <3> QED BY <3>1, <3>2 DEF AfterContent
  <2>2. todo \in SUBSET Docs BY <1>4
  <2>3. /\ ends \in Ends /\ DOMAIN ends = DOMAIN job.ends \cup {d} /\ ends[d] = end
        /\ \A e \in DOMAIN job.ends : e # d => ends[e] = job.ends[e]
    <3> DEFINE V == [end : Nat, base : BOOLEAN]
               m == job.ends
    <3>1. m \in Maps(Docs, V) BY <1>2 DEF CommitJobs, Ends
    <3>2. Len(recs) \in Nat BY <1>10
    <3>3. end \in V BY <1>6, <3>2
    <3> HIDE DEF V, m, end, at, todo, ends
    <3>4. LET p == Put(m, d, end) IN
          /\ p \in Maps(Docs, V) /\ DOMAIN p = DOMAIN m \cup {d} /\ p[d] = end
          /\ \A x \in DOMAIN m : x # d => p[x] = m[x]
      BY <3>1, <3>3, <1>5, PutFacts
    <3> QED BY <3>4 DEF V, m, Ends, ends
  <2>4. ends[d].end = Len(recs) BY <2>3
  <2>5. job' = [job EXCEPT !.todo = todo, !.ends = ends, !.at = at] BY <1>14
  <2> HIDE DEF at, todo, end, ends
  <2>6. /\ job' \in CommitJobs /\ job'.at = at /\ job'.todo = todo /\ job'.ends = ends
        /\ job'.seq = job.seq /\ job'.batch = job.batch /\ job'.plan = job.plan /\ job'.sent = job.sent
    BY <1>2, <2>1, <2>2, <2>3, <2>5 DEF CommitJobs
  <2>7. /\ DOMAIN side' \in SUBSET (Docs \X Nat) /\ side' \in [DOMAIN side' -> SidecarFiles]
        /\ FileAmong(side', f).recs = recs
        /\ \A g : g # f => FileAmong(side', g) = FileAmong(side, g)
    BY <1>10, <1>12, <1>14
  <2>8. Types' BY <1>1, <1>3, <1>14, <2>6, <2>7 DEF Types, Jobs
  <2>9. \A e \in Docs : Sidecar(e)' = Sidecar(e) BY <1>14 DEF Sidecar
  <2>10. \A g : File(g)' = FileAmong(side', g) BY DEF File, FileAmong
  <2>11. Lengths(DOMAIN job.ends) BY <1>2 DEF Committing
  <2>12. d \notin DOMAIN job.ends BY <1>2, <1>5 DEF Committing
  <2>13. Len(recs) = Len(SlicesOf(st.docs, d)) + 1 /\ Len(SlicesOf(st.docs, d)) \in Nat
    <3>1. Len(File(f).recs) = Len(SlicesOf(st.docs, d)) + 0 BY <2>11, <2>12, <1>5 DEF Lengths, f
    <3>2. SlicesOf(st.docs, d) \in Seq(Slices)
      <4>1. Sound(st, setup.oneAddress) BY DEF Inv, Memory
      <4>2. d \in DOMAIN st.docs => st.docs[d].slices \in Seq(Slices) BY <4>1, ConfirmedIs
      <4> QED BY <4>2 DEF SlicesOf
    <3> QED BY <3>1, <3>2, <1>10
  <2>14. Lengths(DOMAIN job.ends)'
    <3> SUFFICES ASSUME NEW e \in Docs
                 PROVE  Len(FileAmong(side', Sidecar(e)).recs) = Len(SlicesOf(st.docs, e)) + (IF e \in DOMAIN ends THEN 1 ELSE 0)
      BY <1>14, <2>6, <2>9, <2>10 DEF Lengths
    <3>1. CASE e = d BY <3>1, <2>3, <2>7, <2>13 DEF f
    <3>2. CASE e # d
      <4>1. Sidecar(e) # f BY <3>2, <1>3, <1>5, FileTypes DEF f
      <4>2. FileAmong(side', Sidecar(e)) = File(Sidecar(e)) BY <4>1, <2>7, <1>3, FileTypes
      <4>3. Len(File(Sidecar(e)).recs) = Len(SlicesOf(st.docs, e)) + (IF e \in DOMAIN job.ends THEN 1 ELSE 0) BY <2>11 DEF Lengths
      <4> QED BY <4>2, <4>3, <3>2, <2>3
    <3> QED BY <3>1, <3>2
  <2>15. Recovered' = Recovered BY <1>1 DEF Recovered
  <2>16. Committing'
    <3>1. /\ job'.seq = st'.last + 1
          /\ Planned(job'.plan, job'.seq, Creates(job'.batch), Retires(job'.batch))
          /\ Fits(st', job'.plan, Creates(job'.batch), Retires(job'.batch))
          /\ Vacant(st', Creates(job'.batch), Retires(job'.batch), setup'.oneAddress)
          /\ DOMAIN job'.batch \subseteq DOMAIN st'.docs \cup Creates(job'.batch)
      BY <1>1, <1>2, <1>14, <2>6 DEF Committing
    <3>2. job'.todo \subseteq Writes(job'.batch) /\ DOMAIN job'.ends = Writes(job'.batch) \ job'.todo
      <4>1. job.todo \subseteq Writes(job.batch) /\ DOMAIN job.ends = Writes(job.batch) \ job.todo BY <1>2 DEF Committing
      <4> QED BY <4>1, <2>3, <2>6, <1>5 DEF todo
    <3>3. job'.at = "content" <=> job'.todo # {} BY <2>1, <2>6
    <3>4. \A e \in DOMAIN job'.ends : job'.ends[e].end = Len(SlicesOf(st'.docs, e)) + 1
      <4>1. \A e \in DOMAIN job.ends : job.ends[e].end = Len(SlicesOf(st.docs, e)) + 1 BY <1>2 DEF Committing
      <4> QED BY <4>1, <1>14, <2>3, <2>4, <2>6, <2>13
    <3>5. ~EndsTorn(main'.lines) BY <1>1, <1>2 DEF Committing
    <3>6. /\ job'.at # "publish"
          /\ Agrees(st', Recovered'.st)
          /\ job'.sent \in 0..Len(job'.plan) /\ Recovered'.pending = Cut(job'.plan, job'.sent)
          /\ job'.sent = 0
      BY <1>1, <1>2, <1>14, <2>1, <2>6, <2>15 DEF Committing
    <3> QED BY <3>1, <3>2, <3>3, <3>4, <3>5, <3>6, <2>14 DEF Committing
  <2>17. Memory' BY <1>1, <1>2, <1>14, <2>6, <2>16, JobKinds DEF Inv, Memory
  <2>18. Ids' BY <1>1, <1>14, <2>15 DEF Inv, Ids
  <2> QED BY <1>1, <2>8, <2>17, <2>18 DEF Inv
<1> QED BY <1>13, <1>14 DEF AppendContent, d, f, base, recs

\* So it does when they are flushed, or fail to be.
LEMMA FlushSidecarsInv == Inv /\ FlushSidecars => Inv'
<1> SUFFICES ASSUME Inv, FlushSidecars PROVE Inv' OBVIOUS
<1>1. /\ mode = "open" /\ job.at = "flush"
      /\ UNCHANGED <<main, wrote, issued, lost, reissued, swept, setup>>
  BY DEF FlushSidecars, past
<1>2. job \in CommitJobs /\ job # Idle /\ ~poison /\ poison = FALSE /\ Committing BY <1>1, CommittingFacts
<1>3. Types /\ DOMAIN side \in SUBSET (Docs \X Nat) /\ side \in [DOMAIN side -> SidecarFiles] /\ lateErr \in BOOLEAN
  BY DEF Inv, Types
<1>4. CASE PoisonedBy /\ side' = side
  <2>1. poison' = TRUE /\ job' = Idle /\ UNCHANGED <<mode, st, lateErr>> BY <1>4 DEF PoisonedBy
  <2>2. DOMAIN side' \in SUBSET (Docs \X Nat) /\ side' \in [DOMAIN side' -> SidecarFiles] BY <1>3, <1>4
  <2> QED BY <1>1, <1>3, <2>1, <2>2, PoisonInv
<1>5. CASE /\ side' = [f \in DOMAIN side |-> IF f \in {Sidecar(d) : d \in Writes(job.batch)}
                                          THEN FlushedFile(side[f]) ELSE side[f]]
           /\ job' = [job EXCEPT !.at = "main"]
           /\ UNCHANGED <<mode, st, poison, lateErr>>
  <2>1. \A x \in SidecarFiles : FlushedFile(x) \in SidecarFiles /\ FlushedFile(x).recs = x.recs
    <3> TAKE x \in SidecarFiles
    <3>1. x.recs \in Seq(Recs) /\ Len(x.recs) \in Nat BY DEF SidecarFiles
    <3> QED BY <3>1 DEF FlushedFile, SidecarFiles
  <2>2. DOMAIN side' = DOMAIN side /\ \A f \in DOMAIN side : side'[f] = side[f] \/ side'[f] = FlushedFile(side[f])
    <3> DEFINE some == {Sidecar(d) : d \in Writes(job.batch)}
    <3>1. side' = [f \in DOMAIN side |-> IF f \in some THEN FlushedFile(side[f]) ELSE side[f]] BY <1>5
    <3> HIDE DEF some
    <3> QED BY <3>1
  <2>3. \A f \in DOMAIN side' : side'[f] \in SidecarFiles /\ side'[f].recs = side[f].recs BY <1>3, <2>1, <2>2
  <2>4. side' \in [DOMAIN side' -> SidecarFiles]
    <3>1. side' = [f \in DOMAIN side' |-> side'[f]] BY <1>5
    <3> QED BY <3>1, <2>3
  <2>5. \A f : File(f)'.recs = File(f).recs BY <2>2, <2>3 DEF File
  <2>6. /\ job' \in CommitJobs /\ job'.at = "main" /\ job'.todo = job.todo /\ job'.ends = job.ends
        /\ job'.seq = job.seq /\ job'.batch = job.batch /\ job'.plan = job.plan /\ job'.sent = job.sent
    BY <1>2, <1>5 DEF CommitJobs
  <2>7. Types' BY <1>1, <1>3, <1>5, <2>2, <2>4, <2>6 DEF Types, Jobs
  <2>8. \A e \in Docs : Sidecar(e)' = Sidecar(e) BY <1>5 DEF Sidecar
  <2>9. Lengths(DOMAIN job.ends)'
    <3>1. Lengths(DOMAIN job.ends) BY <1>2 DEF Committing
    <3> SUFFICES ASSUME NEW e \in Docs
                 PROVE  Len(File(Sidecar(e))'.recs) = Len(SlicesOf(st.docs, e)) + (IF e \in DOMAIN job.ends THEN 1 ELSE 0)
      BY <1>5, <2>6, <2>8 DEF Lengths
    <3> QED BY <3>1, <2>5, <2>8 DEF Lengths
  <2>10. Recovered' = Recovered BY <1>1 DEF Recovered
  <2>11. Committing' BY <1>1, <1>2, <1>5, <2>6, <2>9, <2>10 DEF Committing
  <2>12. Memory' BY <1>1, <1>2, <1>5, <2>6, <2>11, JobKinds DEF Inv, Memory
  <2>13. Ids' BY <1>1, <1>5, <2>10 DEF Inv, Ids
  <2> QED BY <1>1, <2>7, <2>12, <2>13 DEF Inv
<1> QED BY <1>4, <1>5 DEF FlushSidecars

\* What a commit whose content is written is about to make of the state.
LEMMA CommitTakes ==
  ASSUME Inv, mode = "open", job.at \in {"main", "publish"}
  PROVE  LET C == Creates(job.batch)
             X == Retires(job.batch)
             a == ApplyAll(st, Append(job.plan, Marker(job.seq, Len(job.plan), job.ends)))
         IN  /\ Planned(job.plan, job.seq, C, X) /\ Fits(st, job.plan, C, X)
             /\ Publishes(st, C, job.seq, job.ends) /\ C \subseteq DOMAIN job.ends
             /\ Vacant(st, C, X, setup.oneAddress)
             /\ Committed(st, job.plan, C, X, job.seq, job.ends, a.st)
             /\ Sound(a.st, setup.oneAddress)
<1> DEFINE C == Creates(job.batch)
           X == Retires(job.batch)
           plan == job.plan
           seq == job.seq
           ends == job.ends
           one == setup.oneAddress
           a == ApplyAll(st, Append(plan, Marker(seq, Len(plan), ends)))
<1>1. job \in CommitJobs /\ Committing BY CommittingFacts
<1>2. Planned(plan, seq, C, X) /\ Fits(st, plan, C, X) /\ Vacant(st, C, X, one) BY <1>1 DEF Committing
<1>3. Sound(st, one) BY DEF Inv, Memory
<1>4. job.todo = {} /\ DOMAIN ends = Writes(job.batch) BY <1>1 DEF Committing
<1>5. C \subseteq Writes(job.batch) /\ Writes(job.batch) \subseteq DOMAIN job.batch BY DEF Creates, Writes
<1>6. DOMAIN job.batch \subseteq DOMAIN st.docs \cup C BY <1>1 DEF Committing
<1>7. st.last \in Nat /\ seq = st.last + 1 BY <1>1, <1>3 DEF Committing, Sound, States
<1>8. ends \in Ends BY <1>1 DEF CommitJobs
<1>9. \A d \in DOMAIN ends : ends[d].end = Len(SlicesOf(st.docs, d)) + 1 BY <1>1 DEF Committing
<1>10. Publishes(st, C, seq, ends) /\ C \subseteq DOMAIN ends BY <1>4, <1>5, <1>6, <1>7, <1>8, <1>9 DEF Publishes
<1> HIDE DEF C, X, plan, seq, ends, one
<1>11. a = [ok |-> TRUE, st |-> a.st] /\ Committed(st, plan, C, X, seq, ends, a.st)
  BY <1>2, <1>3, <1>10, CommitApplies
<1> DEFINE u == a.st
<1>12. Committed(st, plan, C, X, seq, ends, u) BY <1>11
<1> HIDE DEF u
<1>13. Sound(u, one)
  <2>1. one => \A d \in C : Live(st) \subseteq X /\ \A e \in C : e = d BY <1>2 DEF Vacant
  <2> QED BY <2>1, <1>2, <1>3, <1>10, <1>12, SoundAfter
<1> QED BY <1>2, <1>10, <1>12, <1>13 DEF u, C, X, plan, seq, ends, one

-----------------------------------------------------------------------------
(* The lines of a commit, and its publication. *)

\* The log takes a line of the plan, or after the last the marker that makes them count; an append that fails poisons.
LEMMA AppendMainInv == Inv /\ AppendMain => Inv'
<1> SUFFICES ASSUME Inv, AppendMain PROVE Inv' OBVIOUS
<1> DEFINE one == setup.oneAddress
           L == main.lines
           r == Recovered
           C == Creates(job.batch)
           X == Retires(job.batch)
           plan == job.plan
           mark == Marker(job.seq, Len(plan), job.ends)
           next == IF job.sent < Len(plan) THEN plan[job.sent + 1] ELSE mark
<1>1. /\ mode = "open" /\ job.at = "main"
      /\ UNCHANGED <<side, issued, lost, reissued, swept, setup>>
  BY DEF AppendMain, past
<1>2. job \in CommitJobs /\ job # Idle /\ ~poison /\ poison = FALSE /\ Committing BY <1>1, CommittingFacts
<1>3. Types /\ GoodLog(L, one) /\ main.flushed <= Len(L) BY DEF Inv
<1>4. main \in [lines : Seq(Lines), flushed : Nat] /\ DOMAIN side \in SUBSET (Docs \X Nat)
      /\ side \in [DOMAIN side -> SidecarFiles] /\ lateErr \in BOOLEAN /\ wrote \in BOOLEAN
  BY <1>3 DEF Types
<1>5. CASE PoisonedBy /\ (MainIs(CutShort(L)) \/ main' = main) /\ wrote' = wrote
  <2>1. poison' = TRUE /\ job' = Idle /\ UNCHANGED <<mode, st, lateErr>> BY <1>5 DEF PoisonedBy
  <2>2. DOMAIN side' \in SUBSET (Docs \X Nat) /\ side' \in [DOMAIN side' -> SidecarFiles] BY <1>1, <1>4
  <2> QED BY <1>1, <1>4, <1>5, <2>1, <2>2, PoisonInv
<1>6. CASE /\ MainIs(Written(L, next))
           /\ job' = [job EXCEPT !.sent = @ + 1,
                                 !.at = IF next.kind = "marker" THEN "publish" ELSE @]
           /\ wrote' = TRUE
           /\ UNCHANGED <<mode, st, poison, lateErr>>
  <2>1. plan \in Seq(RecordLines) /\ Len(plan) \in Nat /\ job.seq \in Nat /\ job.sent \in Nat /\ job.ends \in Ends
    BY <1>2 DEF CommitJobs
  <2>2. /\ ~EndsTorn(L) /\ Agrees(st, r.st) /\ job.sent \in 0..Len(plan) /\ r.pending = Cut(plan, job.sent)
        /\ job.seq = st.last + 1 /\ job.todo = {}
    BY <1>1, <1>2 DEF Committing
  <2>3. mark \in MarkerLines /\ mark.kind = "marker" BY <2>1 DEF Marker, MarkerLines
  <2> DEFINE M == Append(L, next)
             p == Replay(M)
  <2>4. MainIs(M) BY <1>6, <2>2, WrittenWhole
  <2>5. Len(M) = Len(L) + 1 /\ Len(L) \in Nat /\ main.flushed \in Nat BY <1>4
  <2>6. /\ Planned(plan, job.seq, C, X) /\ Fits(st, plan, C, X)
        /\ Publishes(st, C, job.seq, job.ends) /\ C \subseteq DOMAIN job.ends /\ Vacant(st, C, X, one)
        /\ Committed(st, plan, C, X, job.seq, job.ends, ApplyAll(st, Append(plan, mark)).st)
    BY <1>1, CommitTakes
  <2>7. Sound(r.st, one) /\ Sound(st, one) BY <1>3, LogWhole DEF Whole, Recovered, Inv, Memory
  \* A record line, or the marker.
  <2>8. CASE job.sent < Len(plan)
    <3>1. next = plan[job.sent + 1] /\ next \in RecordLines BY <2>1, <2>8
    <3> HIDE DEF next
    <3>2. next.kind # "marker" BY <3>1, LineKinds
    <3>3. LET q == Replay(L) IN
          /\ GoodLog(M, one) /\ p.st = q.st /\ p.pending = Append(q.pending, next) /\ ~EndsTorn(M)
      <4> HIDE DEF L, one
      <4> QED BY <3>1, <1>3, <2>2, LogPending DEF L
    <3>4. Append(Cut(plan, job.sent), next) = Cut(plan, job.sent + 1)
      <4>1. job.sent \in 0..(Len(plan) - 1) BY <2>1, <2>8
      <4> QED BY <4>1, <2>1, <3>1, CutFacts
    <3>5. GoodLog(M, one) /\ p.st = r.st /\ p.pending = Cut(plan, job.sent + 1) /\ ~EndsTorn(M)
      BY <3>3, <3>4, <2>2 DEF Recovered
    <3>6. M \in Seq(Lines)
      <4> HIDE DEF M
      <4> QED BY <3>5 DEF GoodLog
    <3>7. main' \in [lines : Seq(Lines), flushed : Nat] /\ main'.lines = M /\ main'.flushed = main.flushed
      <4> HIDE DEF M
      <4> QED BY <2>4, <3>6, <1>4, MainIsFacts
    <3>8. job' = [job EXCEPT !.sent = @ + 1, !.at = @] BY <1>6, <3>2
    <3> HIDE DEF M, p, r
    <3>9. /\ job' \in CommitJobs /\ job'.at = "main" /\ job'.todo = job.todo /\ job'.ends = job.ends
          /\ job'.seq = job.seq /\ job'.batch = job.batch /\ job'.plan = job.plan /\ job'.sent = job.sent + 1
      <4> DEFINE n == job.sent + 1
      <4>1. job' = [job EXCEPT !.sent = n, !.at = "main"]
        <5>1. job.at = "main" BY <1>1
        <5> HIDE DEF mark, C, X, plan
        <5> QED BY <3>8, <5>1
      <4>2. n \in Nat BY <2>1
      <4> HIDE DEF n, mark, C, X, plan
      <4>3. /\ job' \in CommitJobs /\ job'.at = "main" /\ job'.todo = job.todo /\ job'.ends = job.ends
            /\ job'.seq = job.seq /\ job'.batch = job.batch /\ job'.plan = job.plan /\ job'.sent = n
        BY <1>2, <4>1, <4>2 DEF CommitJobs
      <4> QED BY <4>3 DEF n
    <3>10. Recovered' = p BY <3>7 DEF Recovered, p
    <3>11. Types' BY <1>1, <1>3, <1>6, <3>7, <3>9 DEF Types, Jobs
    <3>12. Lengths(DOMAIN job.ends)' BY <1>1, <1>2, <1>6, <3>9 DEF Committing, Lengths, File, Sidecar
    <3>13. job.sent + 1 \in 0..Len(plan) BY <2>1, <2>8
    <3>14. Agrees(st', Recovered'.st) BY <1>6, <2>2, <3>5, <3>10 DEF r
    <3>15. Recovered'.pending = Cut(job'.plan, job'.sent) BY <3>5, <3>9, <3>10
    <3>16. ~EndsTorn(main'.lines) BY <3>5, <3>7
    <3>17. Committing' BY <1>1, <1>2, <1>6, <3>9, <3>12, <3>13, <3>14, <3>15, <3>16 DEF Committing
    <3>18. Memory' BY <1>1, <1>2, <1>6, <3>9, <3>17, JobKinds DEF Inv, Memory
    <3>19. Ids' BY <1>1, <1>6, <3>5, <3>10 DEF Inv, Ids, r
    <3>20. main'.flushed <= Len(main'.lines) BY <1>3, <2>5, <3>7
    <3>21. GoodLog(main'.lines, setup'.oneAddress) BY <1>1, <3>5, <3>7
    <3> QED BY <3>11, <3>18, <3>19, <3>20, <3>21 DEF Inv
  <2>9. CASE ~(job.sent < Len(plan))
    <3>1. next = mark /\ job.sent = Len(plan) BY <2>1, <2>2, <2>9
    <3>2. r.pending = plan BY <2>1, <2>2, <3>1, CutFacts
    <3> HIDE DEF next
    <3>3. /\ Fits(r.st, plan, C, X) /\ Publishes(r.st, C, job.seq, job.ends) /\ Live(st) = Live(r.st)
      BY <2>2, <2>6, AgreeFits
    <3>4. Vacant(r.st, C, X, one) BY <2>6, <3>3 DEF Vacant
    <3>5. job.seq = r.st.last + 1 BY <2>2 DEF Agrees
    <3>6. LET x == Marker(job.seq, Len(plan), job.ends)
              q == Replay(Append(L, x))
          IN  /\ GoodLog(Append(L, x), one)
              /\ Committed(r.st, plan, C, X, job.seq, job.ends, q.st) /\ q.pending = <<>> /\ q.confirmed = Len(L) + 1
              /\ ~EndsTorn(Append(L, x))
      <4> DEFINE s == r.st
                 seq == job.seq
                 ends == job.ends
      <4>1. plan = Replay(L).pending /\ s = Replay(L).st BY <3>2 DEF Recovered
      <4>2. Fits(s, plan, C, X) /\ Publishes(s, C, seq, ends) /\ Vacant(s, C, X, one) /\ seq = s.last + 1
            /\ C \subseteq DOMAIN ends /\ Planned(plan, seq, C, X) /\ GoodLog(L, one) /\ ~EndsTorn(L)
        BY <1>3, <2>2, <2>6, <3>3, <3>4, <3>5
      <4> HIDE DEF s, seq, ends, plan, C, X, L, one
      <4>a. AllWritten(L, one, plan, s, seq, C, X, ends) BY <4>1, <4>2 DEF AllWritten
      <4>3. LET z == Replay(L)
                x == Marker(seq, Len(plan), ends)
                q == Replay(Append(L, x))
            IN  /\ x \in MarkerLines
                /\ GoodLog(Append(L, x), one)
                /\ Committed(s, plan, C, X, seq, ends, q.st) /\ q.pending = <<>> /\ q.confirmed = Len(L) + 1
                /\ q.commits = Append(z.commits, CommitOf(plan, x))
                /\ Markers(Append(L, x)) = Append(Markers(L), x)
                /\ ~EndsTorn(Append(L, x))
        BY <4>a, LogMarker
      <4> QED BY <4>3 DEF s, seq, ends
    <3>7. /\ GoodLog(M, one) /\ Committed(r.st, plan, C, X, job.seq, job.ends, p.st)
          /\ p.pending = <<>> /\ p.confirmed = Len(L) + 1 /\ ~EndsTorn(M)
      BY <3>1, <3>6
    <3> DEFINE u == ApplyAll(st, Append(plan, mark)).st
    <3>8. Agrees(u, p.st)
      <4>1. Committed(st, plan, C, X, job.seq, job.ends, u) BY <2>6
      <4>2. st \in States /\ r.st \in States BY <2>7 DEF Sound
      <4> DEFINE s == r.st
                 v == p.st
      <4>3. Agrees(st, s) /\ s \in States /\ Committed(s, plan, C, X, job.seq, job.ends, v) BY <2>2, <4>2, <3>7
      <4> HIDE DEF u, s, v
      <4>4. Agrees(u, v) BY <2>1, <4>1, <4>2, <4>3, AgreeAfter
      <4> QED BY <4>4 DEF v
    <3>9. p.st.next >= r.st.next /\ p.st.next \in Nat BY <3>7 DEF Committed, NextAfter
    <3>10. M \in Seq(Lines)
      <4> HIDE DEF M
      <4> QED BY <3>7 DEF GoodLog
    <3>11. main' \in [lines : Seq(Lines), flushed : Nat] /\ main'.lines = M /\ main'.flushed = main.flushed
      <4> HIDE DEF M
      <4> QED BY <2>4, <3>10, <1>4, MainIsFacts
    <3>12. job' = [job EXCEPT !.sent = @ + 1, !.at = "publish"] BY <1>6, <2>3, <3>1
    <3> HIDE DEF M, p, r, u, mark
    <3>13. /\ job' \in CommitJobs /\ job'.at = "publish" /\ job'.todo = job.todo /\ job'.ends = job.ends
          /\ job'.seq = job.seq /\ job'.batch = job.batch /\ job'.plan = job.plan
      <4> DEFINE n == job.sent + 1
      <4>1. job' = [job EXCEPT !.sent = n, !.at = "publish"] BY <3>12
      <4>2. n \in Nat BY <2>1
      <4> HIDE DEF n, C, X, plan
      <4>3. /\ job' \in CommitJobs /\ job'.at = "publish" /\ job'.todo = job.todo /\ job'.ends = job.ends
            /\ job'.seq = job.seq /\ job'.batch = job.batch /\ job'.plan = job.plan
        BY <1>2, <4>1, <4>2 DEF CommitJobs
      <4> QED BY <4>3
    <3>14. Recovered' = p BY <3>11 DEF Recovered, p
    <3>15. Types' BY <1>1, <1>3, <1>6, <3>11, <3>13 DEF Types, Jobs
    <3>16. Lengths(DOMAIN job.ends)' BY <1>1, <1>2, <1>6, <3>13 DEF Committing, Lengths, File, Sidecar
    <3>17. Clean' BY <2>5, <3>7, <3>11, <3>14 DEF Clean
    <3>18. Agrees(ApplyAll(st', Append(job'.plan, Marker(job'.seq, Len(job'.plan), job'.ends))).st, Recovered'.st)
      BY <1>6, <3>8, <3>13, <3>14 DEF u, mark
    <3>19. Committing' BY <1>1, <1>2, <1>6, <3>13, <3>16, <3>17, <3>18 DEF Committing, Clean
    <3>20. Memory' BY <1>1, <1>2, <1>6, <3>13, <3>19, JobKinds DEF Inv, Memory
    <3>21. Ids'
      <4>1. /\ \A id \in issued \ lost : id < r.st.next /\ id < st.next
            /\ "kept" \notin reissued /\ (~setup.powerFails => lost = {} /\ reissued = {})
        BY <1>1 DEF Inv, Ids, r
      <4>2. issued \in SUBSET Nat /\ r.st.next \in Nat BY <1>3, <2>7 DEF Types, Sound, States
      <4>3. \A id \in issued \ lost : id < p.st.next BY <4>1, <4>2, <3>9
      <4> QED BY <4>1, <4>3, <1>1, <1>6, <3>14 DEF Ids
    <3>22. main'.flushed <= Len(main'.lines) BY <1>3, <2>5, <3>11
    <3>23. GoodLog(main'.lines, setup'.oneAddress) BY <1>1, <3>7, <3>11
    <3> QED BY <3>15, <3>20, <3>21, <3>22, <3>23 DEF Inv
  <2> QED BY <2>8, <2>9
<1> QED BY <1>5, <1>6 DEF AppendMain

\* What is left to reclaim is a job of its own, or none.
LEMMA ReclaimingFacts ==
  ASSUME NEW docs \in SUBSET Docs, NEW j, j = Reclaiming(docs)
  PROVE  /\ j \in Jobs /\ j \notin CommitJobs /\ j.at \in {"idle", "reclaim"}
         /\ j # Idle => j.at = "reclaim" /\ j.docs = docs /\ docs # {}
<1>1. CASE docs = {} BY <1>1, JobKinds DEF Reclaiming
<1>2. CASE docs # {}
  <2>1. j = [at |-> "reclaim", docs |-> docs] BY <1>2 DEF Reclaiming
  <2>2. j \in Jobs BY <2>1 DEF Jobs, ReclaimJobs
  <2> QED BY <2>1, <2>2, <1>2, JobKinds
<1> QED BY <1>1, <1>2

\* The slices after a commit, a record each.
LEMMA CommittedSlices ==
  ASSUME NEW s, NEW one, Sound(s, one), NEW plan, NEW C, NEW X, NEW seq, NEW ends, NEW u,
         Committed(s, plan, C, X, seq, ends, u), NEW d
  PROVE  /\ d \in DOMAIN u.docs <=> d \in DOMAIN s.docs \cup C
         /\ d \notin C => GenerationOf(u.docs, d) = GenerationOf(s.docs, d)
         /\ GenerationOf(u.docs, d) = GenerationOf(s.docs, d)
         /\ (d \in DOMAIN ends /\ d \in DOMAIN u.docs) =>
              Len(SlicesOf(u.docs, d)) = Len(SlicesOf(s.docs, d)) + 1
         /\ d \notin DOMAIN ends => SlicesOf(u.docs, d) = SlicesOf(s.docs, d)
<1> DEFINE z == DocsCommitted(s.docs, C, X, seq, ends)
           l == SlicesOf(s.docs, d)
           x == SliceOf(seq, ends, d)
<1>1. u.docs = z BY DEF Committed
<1>2. DOMAIN z = DOMAIN s.docs \cup C BY DEF DocsCommitted
<1>3. d \in DOMAIN z => /\ z[d].generation = GenerationOf(s.docs, d)
                        /\ z[d].slices = IF d \in DOMAIN ends THEN Append(l, x) ELSE l
  BY DEF DocsCommitted
<1>4. l \in Seq(Slices)
  <2>1. d \in DOMAIN s.docs => s.docs[d].slices \in Seq(Slices) BY ConfirmedIs
  <2> QED BY <2>1 DEF SlicesOf
<1>5. Len(Append(l, x)) = Len(l) + 1
  <2> HIDE DEF l, x
  <2> QED BY <1>4
<1> HIDE DEF z
<1>6. GenerationOf(z, d) = GenerationOf(s.docs, d) BY <1>2, <1>3 DEF GenerationOf
<1>7. SlicesOf(z, d) = IF d \in DOMAIN z THEN z[d].slices ELSE <<>> BY DEF SlicesOf
<1>8. d \notin DOMAIN z => l = <<>> BY <1>2 DEF SlicesOf
<1> HIDE DEF l, x
<1> QED BY <1>1, <1>2, <1>3, <1>5, <1>6, <1>7, <1>8 DEF l

\* The memory takes what the marker made count.
LEMMA PublishInv == Inv /\ Publish => Inv'
<1> SUFFICES ASSUME Inv, Publish PROVE Inv' OBVIOUS
<1> DEFINE one == setup.oneAddress
           C == Creates(job.batch)
           X == Retires(job.batch)
           ends == job.ends
           a == ApplyAll(st, Append(job.plan, Marker(job.seq, Len(job.plan), ends)))
           u == a.st
           S == {d \in DOMAIN job.batch :
                          (Writes(job.batch) \cup Retires(job.batch)) \cap {d} # {}
                          /\ Reclaimable(u, d)}
<1>1. /\ mode = "open" /\ job.at = "publish" /\ st' = u
      /\ UNCHANGED <<main, side, mode, poison, lateErr, wrote, issued, lost, reissued, swept, setup>>
  BY DEF Publish, past, disk
<1>2. job' = Reclaiming(S) BY <1>1 DEF Publish
<1>3. job \in CommitJobs /\ job # Idle /\ ~poison /\ poison = FALSE /\ Committing BY <1>1, CommittingFacts
<1>4. Types /\ Sound(st, one) BY DEF Inv, Memory
<1>5. Publishes(st, C, job.seq, ends) /\ Committed(st, job.plan, C, X, job.seq, ends, u) /\ Sound(u, one)
  BY <1>1, CommitTakes
<1>6. Clean /\ Agrees(u, Recovered.st) BY <1>1, <1>3 DEF Committing
<1>7. S \subseteq DOMAIN u.docs /\ S \subseteq Docs /\ \A d \in S : Reclaimable(u, d)
  <2>1. DOMAIN job.batch \subseteq DOMAIN st.docs \cup C BY <1>3 DEF Committing
  <2>2. DOMAIN u.docs = DOMAIN st.docs \cup C BY <1>5 DEF Committed, DocsCommitted
  <2>3. DOMAIN u.docs \subseteq Docs
    <3> DEFINE m == u.docs
    <3>1. m \in Maps(Docs, DocRecords) BY <1>5 DEF Sound, States
    <3> HIDE DEF m
    <3>2. DOMAIN m \subseteq Docs BY <3>1, MapFacts
    <3> QED BY <3>2 DEF m
  <2> HIDE DEF C, X, u
  <2> QED BY <2>1, <2>2, <2>3
<1>8. /\ job' \in Jobs /\ job' \notin CommitJobs /\ job'.at \in {"idle", "reclaim"}
      /\ job' # Idle => job'.at = "reclaim" /\ job'.docs = S /\ S # {}
  <2> HIDE DEF S
  <2> QED BY <1>2, <1>7, ReclaimingFacts
<1>9. Lengths({})'
  <2> SUFFICES ASSUME NEW d \in Docs
               PROVE  Len(File(<<d, GenerationOf(u.docs, d)>>).recs) = Len(SlicesOf(u.docs, d))
    <3>1. \A d \in Docs : Sidecar(d)' = <<d, GenerationOf(u.docs, d)>> BY <1>1 DEF Sidecar, GenerationOf
    <3>2. \A f : File(f)' = File(f) BY <1>1 DEF File
    <3> HIDE DEF u
    <3>3. \A d \in Docs : Len(SlicesOf(u.docs, d)) \in Nat
      <4> TAKE d \in Docs
      <4>1. d \in DOMAIN u.docs => u.docs[d].slices \in Seq(Slices) BY <1>5, ConfirmedIs
      <4> DEFINE l == SlicesOf(u.docs, d)
      <4>2. l \in Seq(Slices) BY <4>1 DEF SlicesOf
      <4> HIDE DEF l
      <4> QED BY <4>2 DEF l
    <3> QED BY <1>1, <3>1, <3>2, <3>3 DEF Lengths
  <2>1. Len(File(Sidecar(d)).recs) = Len(SlicesOf(st.docs, d)) + (IF d \in DOMAIN ends THEN 1 ELSE 0)
    BY <1>3 DEF Committing, Lengths
  <2>2. Sidecar(d) = <<d, GenerationOf(st.docs, d)>> BY <1>4, FileTypes
  <2>3. DOMAIN ends \subseteq DOMAIN st.docs \cup C BY <1>5 DEF Publishes
  <2>4. Len(SlicesOf(st.docs, d)) \in Nat
    <3> DEFINE l == SlicesOf(st.docs, d)
    <3>1. d \in DOMAIN st.docs => st.docs[d].slices \in Seq(Slices) BY <1>4, ConfirmedIs
    <3>2. l \in Seq(Slices) BY <3>1 DEF SlicesOf
    <3> HIDE DEF l
    <3> QED BY <3>2 DEF l
  <2> DEFINE s == st
             plan == job.plan
             seq == job.seq
  <2> HIDE DEF u, C, X, ends, S, a, s, plan, seq, one
  <2>5. Sound(s, one) /\ Committed(s, plan, C, X, seq, ends, u) BY <1>4, <1>5 DEF s, plan, seq
  <2>6. /\ d \in DOMAIN u.docs <=> d \in DOMAIN s.docs \cup C
        /\ GenerationOf(u.docs, d) = GenerationOf(s.docs, d)
        /\ (d \in DOMAIN ends /\ d \in DOMAIN u.docs) =>
             Len(SlicesOf(u.docs, d)) = Len(SlicesOf(s.docs, d)) + 1
        /\ d \notin DOMAIN ends => SlicesOf(u.docs, d) = SlicesOf(s.docs, d)
    BY <2>5, CommittedSlices
  <2> QED BY <2>1, <2>2, <2>3, <2>4, <2>6 DEF s
<1> HIDE DEF u, C, X, ends, a, S
<1>10. u \in States BY <1>5 DEF Sound
<1>11. Types' BY <1>1, <1>4, <1>8, <1>10, JobKinds DEF Types
<1>12. Clean' /\ Agrees(st', Recovered'.st) BY <1>1, <1>6 DEF Clean, Recovered
<1>13. Settled'
  <2>1. job' # Idle => job'.docs \subseteq DOMAIN st'.docs /\ job'.docs # {} BY <1>1, <1>7, <1>8
  <2>2. job'.at = "reclaim" => \A d \in job'.docs : Reclaimable(st', d) BY <1>1, <1>7, <1>8, JobKinds
  <2> QED BY <2>1, <2>2, <1>8, <1>9, <1>12 DEF Settled
<1>14. Memory' BY <1>1, <1>3, <1>5, <1>8, <1>13 DEF Inv, Memory
<1>15. Ids'
  <2>1. u.next >= st.next /\ st.next \in Nat /\ u.next \in Nat
    <3>1. NextAfter(st.next, RowIds(job.plan, Len(job.plan)), u.next) BY <1>5 DEF Committed
    <3> QED BY <3>1, <1>4, <1>10 DEF NextAfter, Sound, States
  <2>2. issued \in SUBSET Nat BY <1>4 DEF Types
  <2>3. /\ \A id \in issued \ lost : id < Recovered.st.next /\ id < st.next
        /\ "kept" \notin reissued /\ (~setup.powerFails => lost = {} /\ reissued = {})
    BY <1>1 DEF Inv, Ids
  <2>4. Recovered' = Recovered BY <1>1 DEF Recovered
  <2>5. \A id \in issued \ lost : id < u.next
    <3> HIDE DEF u
    <3> TAKE id \in issued \ lost
    <3>1. id \in Nat /\ id < st.next BY <2>2, <2>3
    <3> QED BY <2>1, <3>1
  <2> QED BY <2>3, <2>4, <2>5, <1>1 DEF Ids
<1> QED BY <1>1, <1>11, <1>14, <1>15 DEF Inv

-----------------------------------------------------------------------------
(* Reclamation. *)

\* What a reclamation keeps of the slices is again one record a slice.
LEMMA RebasedFacts ==
  ASSUME NEW slices \in Seq(Slices), Numbered(slices), NewestBase(slices) > 1
  PROVE  LET b == NewestBase(slices) IN
         /\ b \in 2..Len(slices) /\ Start(slices, b) = b - 1
         /\ Rebased(slices) \in Seq(Slices) /\ Numbered(Rebased(slices)) /\ Rebased(slices) # <<>>
         /\ Len(Rebased(slices)) = Len(slices) + 1 - b
<1> DEFINE b == NewestBase(slices)
           n == Len(slices)
           I == {0} \cup {i \in DOMAIN slices : slices[i].base}
<1>1. n \in Nat /\ DOMAIN slices = 1..n OBVIOUS
<1>2. I \in SUBSET (0..n) /\ I # {} BY <1>1
<1>3. b \in I
  <2>1. b = Max(I) BY DEF NewestBase
  <2> HIDE DEF I, b, n
  <2> QED BY <2>1, <1>1, <1>2, MaxFacts
<1>4. b \in 2..n BY <1>1, <1>2, <1>3
<1> HIDE DEF b, I
<1>5. Start(slices, b) = b - 1
  <2>1. b - 1 \in 1..n /\ ~(b <= 1) BY <1>4, <1>1
  <2> QED BY <2>1 DEF Start, Numbered
<1> DEFINE m == n + 1 - b
           x(i) == [slices[b + i - 1] EXCEPT !.end = @ - Start(slices, b)]
           k == [i \in 1..m |-> x(i)]
<1>6. Rebased(slices) = k BY DEF Rebased, b
<1>7. m \in Nat /\ m >= 1 BY <1>4, <1>1
<1>8. ASSUME NEW i \in 1..m PROVE x(i) \in Slices /\ x(i).end = i
  <2> DEFINE j == b + i - 1
             y == slices[j]
  <2>1. j \in 1..n /\ j - (b - 1) = i /\ i \in Nat BY <1>4, <1>7, <1>1
  <2> HIDE DEF j, n
  <2>2. y \in Slices /\ y.end = j BY <2>1 DEF Numbered, n
  <2>3. x(i) = [y EXCEPT !.end = @ - (b - 1)] BY <1>5 DEF j
  <2> HIDE DEF y, x
  <2>4. x(i) = [y EXCEPT !.end = i] BY <2>1, <2>2, <2>3 DEF Slices
  <2> QED BY <2>1, <2>2, <2>4 DEF Slices
<1> HIDE DEF x, n, m
<1>9. k \in Seq(Slices) /\ Len(k) = m /\ \A i \in 1..m : k[i] = x(i)
  <2>1. k \in [1..m -> Slices] BY <1>8
  <2> HIDE DEF k
  <2>2. k \in Seq(Slices) /\ Len(k) = m BY <2>1, <1>7
  <2> QED BY <2>2 DEF k
<1>10. Numbered(k)
  <2> HIDE DEF k
  <2> QED BY <1>8, <1>9 DEF Numbered
<1>11. k # <<>>
  <2> HIDE DEF k
  <2> QED BY <1>7, <1>9
<1> HIDE DEF k
<1> QED BY <1>4, <1>5, <1>6, <1>9, <1>10, <1>11 DEF b, n, m

\* A document with a base behind others is one of which something can be reclaimed.
LEMMA ReclaimableFacts ==
  ASSUME NEW s, NEW one, Sound(s, one), NEW d \in DOMAIN s.docs, Reclaimable(s, d)
  PROVE  LET slices == s.docs[d].slices IN
         /\ slices \in Seq(Slices) /\ Numbered(slices) /\ NewestBase(slices) > 1
         /\ Rebased(slices) \in Seq(Slices) /\ Numbered(Rebased(slices)) /\ Rebased(slices) # <<>>
         /\ s.docs[d].generation \in Nat /\ d \in Docs
<1> DEFINE slices == s.docs[d].slices
<1>1. slices \in Seq(Slices) /\ Numbered(slices) /\ s.docs[d].generation \in Nat /\ d \in Docs BY ConfirmedIs
<1>2. NewestBase(slices) > 1 BY DEF Reclaimable
<1>3. Rebased(slices) \in Seq(Slices) /\ Numbered(Rebased(slices)) /\ Rebased(slices) # <<>>
  <2> HIDE DEF slices
  <2> QED BY <1>1, <1>2, RebasedFacts
<1> QED BY <1>1, <1>2, <1>3

\* The records copied, one for each slice kept.
LEMMA TailFacts ==
  ASSUME Types, Sound(st, setup.oneAddress), Lengths({}), NEW d \in DOMAIN st.docs, Reclaimable(st, d)
  PROVE  Tail_(d) \in Seq(Recs) /\ Len(Tail_(d)) = Len(Rebased(st.docs[d].slices))
<1> DEFINE slices == st.docs[d].slices
           recs == File(Sidecar(d)).recs
           b == NewestBase(slices)
           n == Len(slices)
<1>1. slices \in Seq(Slices) /\ Numbered(slices) /\ b > 1 /\ d \in Docs BY ReclaimableFacts
<1>2. Confirmed(d) = n BY ConfirmedIs DEF Confirmed
<1>3. recs \in Seq(Recs) /\ n \in Nat BY <1>1, FileTypes
<1>4. Len(recs) = n
  <2>1. Len(recs) = Len(SlicesOf(st.docs, d)) + 0 BY <1>1 DEF Lengths
  <2>2. SlicesOf(st.docs, d) = slices BY DEF SlicesOf
  <2> QED BY <2>1, <2>2, <1>3
<1>5. Tail_(d) = SubSeq(recs, Start(slices, b) + 1, n) BY <1>2 DEF Tail_
<1> HIDE DEF recs, slices
<1>6. b \in 2..n /\ Start(slices, b) = b - 1 /\ Len(Rebased(slices)) = n + 1 - b BY <1>1, RebasedFacts
<1> HIDE DEF b
<1>7. Tail_(d) = SubSeq(recs, b, n)
  <2>1. b - 1 + 1 = b BY <1>3, <1>6 DEF n
  <2> QED BY <2>1, <1>5, <1>6
<1> HIDE DEF n
<1>8. \A i \in b..n : recs[i] \in Recs BY <1>3, <1>4, <1>6
<1>9. b \in Nat /\ b <= n /\ n - b + 1 = n + 1 - b BY <1>3, <1>6
<1>10. b \in 1..(Len(recs) + 1) /\ n \in (b - 1)..Len(recs) BY <1>3, <1>4, <1>6
<1>11. SubSeq(recs, b, n) \in Seq(Recs) /\ Len(SubSeq(recs, b, n)) = n - b + 1 BY <1>3, <1>9, <1>10
<1> QED BY <1>6, <1>7, <1>9, <1>11 DEF slices

\* A file of another name than every sidecar in use may come and go.
LEMMA LengthsKept ==
  ASSUME Types, Lengths({}), st' = st, NEW f, \A d \in Docs : f # Sidecar(d),
         \A g : g # f => FileAmong(side', g) = FileAmong(side, g)
  PROVE  Lengths({})'
<1>1. \A d \in Docs : Sidecar(d)' = Sidecar(d) BY DEF Sidecar
<1>2. \A g : File(g)' = FileAmong(side', g) BY DEF File, FileAmong
<1>3. \A g : File(g) = FileAmong(side, g) BY DEF File, FileAmong
<1>4. \A d \in Docs : File(Sidecar(d))' = File(Sidecar(d)) BY <1>1, <1>2, <1>3
<1> QED BY <1>1, <1>4 DEF Lengths

\* A copy writes a generation that nothing names yet.
LEMMA CopyTailInv == Inv /\ CopyTail => Inv'
<1> SUFFICES ASSUME Inv, CopyTail PROVE Inv' OBVIOUS
<1> DEFINE d == First(job.docs)
           one == setup.oneAddress
           f == NextGeneration(d)
<1>1. /\ mode = "open" /\ job.at = "reclaim"
      /\ UNCHANGED <<mode, st, poison, wrote, issued, lost, reissued, swept, setup>>
  BY DEF CopyTail, past, Defer
<1>2. Types /\ Sound(st, one) /\ main \in [lines : Seq(Lines), flushed : Nat] /\ Filed(side) /\ main.flushed <= Len(main.lines)
      /\ GoodLog(main.lines, one)
  BY DEF Inv, Memory, Types, Filed
<1>3. job \in ReclaimJobs /\ job # Idle /\ job \notin CommitJobs BY <1>1, <1>2, JobKinds DEF Types
<1>4. poison = FALSE /\ ~poison /\ Settled BY <1>1, <1>2, <1>3 DEF Inv, Memory, Types
<1>5. job.docs \in SUBSET Docs /\ job.docs \subseteq DOMAIN st.docs /\ job.docs # {}
      /\ \A e \in job.docs : Reclaimable(st, e)
  BY <1>1, <1>3, <1>4 DEF Settled, ReclaimJobs
<1>6. d \in job.docs /\ d \in DOMAIN st.docs /\ d \in Docs BY <1>5, FirstFacts
<1> HIDE DEF d
<1>7. Reclaimable(st, d) /\ Lengths({}) /\ Clean /\ Agrees(st, Recovered.st) BY <1>4, <1>5, <1>6 DEF Settled
<1>8. Tail_(d) \in Seq(Recs) /\ Len(Tail_(d)) = Len(Rebased(st.docs[d].slices))
  BY <1>2, <1>6, <1>7, TailFacts
<1>9. st.docs[d].generation \in Nat BY <1>2, <1>6, <1>7, ReclaimableFacts
<1>10. f \in SidecarNames /\ \A e \in Docs : f # Sidecar(e)
  <2> DEFINE g == st.docs[d].generation
  <2>1. f = <<d, g + 1>> BY DEF NextGeneration
  <2>2. GenerationOf(st.docs, d) = g BY <1>6 DEF GenerationOf
  <2> HIDE DEF f
  <2>3. \A e \in Docs : Sidecar(e) = <<e, GenerationOf(st.docs, e)>> BY <1>2, FileTypes
  <2>4. g + 1 # g /\ g + 1 \in Nat BY <1>9
  <2> HIDE DEF g
  <2>5. \A e \in Docs : f # Sidecar(e) BY <2>1, <2>2, <2>3, <2>4
  <2> QED BY <2>1, <2>4, <2>5, <1>6 DEF SidecarNames
<1>11. \A x \in SidecarFiles : side' = Put(side, f, x) =>
          Filed(side') /\ FileAmong(side', f) = x /\ Lengths({})'
  <2> TAKE x \in SidecarFiles
  <2> HAVE side' = Put(side, f, x)
  <2> DEFINE t == side'
  <2>1. t = Put(side, f, x) /\ x \in SidecarFiles OBVIOUS
  <2> HIDE DEF t, f
  <2>2. Filed(t) /\ FileAmong(t, f) = x /\ \A g : g # f => FileAmong(t, g) = FileAmong(side, g)
    BY <2>1, <1>2, <1>10, SidecarPut
  <2>3. \A g : g # f => FileAmong(side', g) = FileAmong(side, g) BY <2>2 DEF t
  <2>4. Lengths({})' BY <2>3, <1>1, <1>2, <1>7, <1>10, LengthsKept
  <2> QED BY <2>2, <2>4 DEF t
<1> DEFINE tail == Tail_(d)
           y == [NewFile EXCEPT !.recs = tail]
           z == FlushedFile(y)
<1>12. y \in SidecarFiles /\ z \in SidecarFiles /\ z.recs = Tail_(d)
  <2>1. tail \in Seq(Recs) BY <1>8
  <2> HIDE DEF tail, f
  <2>2. Len(tail) \in Nat BY <2>1
  <2>3. y \in SidecarFiles /\ y.recs = tail BY <2>1 DEF NewFile, SidecarFiles
  <2> HIDE DEF y
  <2>4. z \in SidecarFiles /\ z.recs = y.recs BY <2>2, <2>3 DEF SidecarFiles, FlushedFile
  <2> QED BY <2>3, <2>4 DEF tail
<1> HIDE DEF y, z, tail
<1>13. (main' = main \/ main' = FlushedMain) =>
         /\ main' \in [lines : Seq(Lines), flushed : Nat] /\ main'.lines = main.lines
         /\ main'.flushed <= Len(main'.lines)
  <2>1. Len(main.lines) <= Len(main.lines) /\ Len(main.lines) \in Nat BY <1>2
  <2> QED BY <2>1, <1>2, FlushedFacts
<1>14. ASSUME main'.lines = main.lines
       PROVE  Recovered' = Recovered /\ Clean' /\ Agrees(st', Recovered'.st) /\ Ids' /\ GoodLog(main'.lines, setup'.oneAddress)
  <2>1. Recovered' = Recovered BY <1>14 DEF Recovered
  <2>2. Clean' BY <1>7, <1>14, <2>1 DEF Clean
  <2>3. Ids' BY <1>1, <2>1 DEF Inv, Ids
  <2> QED BY <1>1, <1>2, <1>7, <1>14, <2>1, <2>2, <2>3
<1>15. CASE /\ main' = main \/ main' = FlushedMain
            /\ side' = Put(side, f, z)
            /\ job' = [at |-> "authorise", docs |-> job.docs, doc |-> d]
            /\ lateErr' = lateErr
  <2>1. job' \in AuthoriseJobs /\ job'.at = "authorise" /\ job'.docs = job.docs /\ job'.doc = d
    BY <1>5, <1>6, <1>15 DEF AuthoriseJobs
  <2>2. job' \in Jobs /\ job' # Idle /\ job' \notin CommitJobs
    <3>1. job' \in Jobs BY <2>1 DEF Jobs
    <3> QED BY <3>1, <2>1, JobKinds
  <2>3. Filed(side') /\ FileAmong(side', f) = z /\ Lengths({})' BY <1>11, <1>12, <1>15
  <2>4. Types' BY <1>1, <1>2, <1>13, <1>15, <2>2, <2>3 DEF Types, Filed
  <2>7. File(NextGeneration(job.doc))' = z
    <3>1. NextGeneration(job.doc)' = f BY <1>1, <2>1 DEF NextGeneration
    <3> HIDE DEF f
    <3>2. File(NextGeneration(job.doc))' = FileAmong(side', NextGeneration(job.doc)') BY DEF File, FileAmong
    <3> QED BY <3>1, <3>2, <2>3
  <2>8. Len(File(NextGeneration(job.doc))'.recs) = Len(Rebased(st'.docs[job'.doc].slices))
    BY <1>1, <1>8, <1>12, <2>1, <2>7
  <2>9. Settled' BY <1>1, <1>5, <1>6, <1>13, <1>14, <1>15, <2>1, <2>3, <2>8 DEF Settled
  <2>10. Memory' BY <1>1, <1>2, <1>4, <2>2, <2>9 DEF Inv, Memory
  <2> QED BY <1>13, <1>14, <1>15, <2>4, <2>10 DEF Inv
<1>16. CASE /\ main' = main
            /\ side' = side \/ side' = Put(side, f, y)
            /\ lateErr' = (lateErr /\ ~setup.flushes)
            /\ Defer(d)
  <2> DEFINE rest == job.docs \ {d}
  <2>1. job' = Reclaiming(rest) BY <1>16 DEF Defer
  <2>2. rest \in SUBSET Docs BY <1>5
  <2> HIDE DEF rest
  <2>3. /\ job' \in Jobs /\ job' \notin CommitJobs /\ job'.at \in {"idle", "reclaim"}
        /\ job' # Idle => job'.at = "reclaim" /\ job'.docs = rest /\ rest # {}
    BY <2>1, <2>2, ReclaimingFacts
  <2>4. Filed(side') /\ Lengths({})'
    <3>1. CASE side' = Put(side, f, y)
      <4> HIDE DEF f
      <4> QED BY <3>1, <1>11, <1>12
    <3>2. CASE side' = side
      <4>1. \A g : FileAmong(side', g) = FileAmong(side, g) BY <3>2
      <4> HIDE DEF f
      <4> QED BY <3>2, <4>1, <1>1, <1>2, <1>7, <1>10, LengthsKept
    <3> QED BY <3>1, <3>2, <1>16
  <2>5. lateErr' \in BOOLEAN BY <1>16
  <2>6. Types' BY <1>1, <1>2, <1>13, <1>16, <2>3, <2>4, <2>5 DEF Types, Filed
  <2>7. Settled'
    <3>1. job' # Idle => job'.docs \subseteq DOMAIN st'.docs /\ job'.docs # {} BY <1>1, <1>5, <2>3 DEF rest
    <3>2. job'.at = "reclaim" => \A e \in job'.docs : Reclaimable(st', e) BY <1>1, <1>5, <2>3, JobKinds DEF rest
    <3> QED BY <3>1, <3>2, <1>13, <1>14, <1>16, <2>3, <2>4 DEF Settled
  <2>8. Memory' BY <1>1, <1>2, <1>4, <2>3, <2>7 DEF Inv, Memory
  <2> QED BY <1>13, <1>14, <1>16, <2>6, <2>8 DEF Inv
<1>17. \/ /\ main' = main \/ main' = FlushedMain
          /\ side' = Put(side, f, z)
          /\ job' = [at |-> "authorise", docs |-> job.docs, doc |-> d]
          /\ lateErr' = lateErr
       \/ /\ main' = main
          /\ side' = side \/ side' = Put(side, f, y)
          /\ lateErr' = (lateErr /\ ~setup.flushes)
          /\ Defer(d)
  BY DEF CopyTail, disk, d, y, z, tail
<1> QED BY <1>15, <1>16, <1>17

\* When a document is being reclaimed.
LEMMA AuthorisingFacts ==
  ASSUME Inv, mode = "open", job.at \in {"authorise", "remove"}
  PROVE  /\ job \in AuthoriseJobs /\ job # Idle /\ job \notin CommitJobs /\ ~poison /\ poison = FALSE /\ Settled
         /\ job.docs \in SUBSET Docs /\ job.docs \subseteq DOMAIN st.docs /\ job.doc \in job.docs
         /\ job.doc \in Docs /\ st.docs[job.doc].generation \in Nat
<1>1. job \in Jobs /\ poison \in BOOLEAN BY DEF Inv, Types
<1>2. job \in AuthoriseJobs /\ job # Idle /\ job \notin CommitJobs BY <1>1, JobKinds
<1>3. ~poison /\ poison = FALSE /\ Settled BY <1>1, <1>2 DEF Inv, Memory
<1>4. job.docs \in SUBSET Docs /\ job.docs \subseteq DOMAIN st.docs /\ job.doc \in job.docs
  BY <1>2, <1>3 DEF Settled, AuthoriseJobs
<1>5. job.doc \in Docs /\ st.docs[job.doc].generation \in Nat BY <1>4, ConfirmedIs DEF Inv, Memory
<1> QED BY <1>2, <1>3, <1>4, <1>5

\* A removal takes a generation that nothing names any more, and the job is idle or goes on with the next document.
LEMMA RemoveOldInv == Inv /\ RemoveOld => Inv'
<1> SUFFICES ASSUME Inv, RemoveOld PROVE Inv' OBVIOUS
<1> DEFINE d == job.doc
           one == setup.oneAddress
           f == OldGeneration(d)
           rest == job.docs \ {d}
<1>1. /\ mode = "open" /\ job.at = "remove" /\ job' = Reclaiming(rest)
      /\ UNCHANGED <<mode, st, poison, wrote, issued, lost, reissued, swept, setup>>
      /\ lateErr' = lateErr \/ lateErr' = FALSE
      /\ main' = main \/ main' = FlushedMain
      /\ side' = side \/ side' = Without(f)
  BY DEF RemoveOld, past, disk
<1>2. Types /\ Sound(st, one) /\ main \in [lines : Seq(Lines), flushed : Nat] /\ Filed(side) /\ main.flushed <= Len(main.lines)
      /\ GoodLog(main.lines, one) /\ lateErr \in BOOLEAN
  BY DEF Inv, Memory, Types, Filed
<1>3. /\ job # Idle /\ job \notin CommitJobs /\ ~poison /\ poison = FALSE /\ Settled
      /\ job.docs \in SUBSET Docs /\ job.docs \subseteq DOMAIN st.docs /\ d \in job.docs
      /\ d \in Docs /\ st.docs[d].generation \in Nat
  BY <1>1, AuthorisingFacts
<1>4. Lengths({}) /\ Clean /\ Agrees(st, Recovered.st) /\ \A e \in rest : Reclaimable(st, e) BY <1>1, <1>3 DEF Settled
<1>5. \A e \in Docs : f # Sidecar(e)
  <2> DEFINE g == st.docs[d].generation
  <2>1. f = <<d, g - 1>> BY DEF OldGeneration
  <2>2. GenerationOf(st.docs, d) = g BY <1>3 DEF GenerationOf
  <2>3. \A e \in Docs : Sidecar(e) = <<e, GenerationOf(st.docs, e)>> BY <1>2, FileTypes
  <2>4. g - 1 # g BY <1>3
  <2> HIDE DEF f, g, d
  <2> QED BY <2>1, <2>2, <2>3, <2>4
<1>6. Filed(side') /\ \A g : g # f => FileAmong(side', g) = FileAmong(side, g)
  <2> HIDE DEF f
  <2>1. CASE side' = side BY <2>1, <1>2
  <2>2. CASE side' = Without(f)
    <3>1. DOMAIN side' = DOMAIN side \ {f} /\ \A g \in DOMAIN side' : side'[g] = side[g] BY <2>2 DEF Without
    <3>2. side' = [g \in DOMAIN side' |-> side'[g]] BY <2>2 DEF Without
    <3>3. \A g \in DOMAIN side' : side'[g] \in SidecarFiles BY <3>1, <1>2 DEF Filed
    <3>4. side' \in [DOMAIN side' -> SidecarFiles] BY <3>2, <3>3
    <3> QED BY <3>1, <3>4, <1>2 DEF Filed, FileAmong
  <2> QED BY <2>1, <2>2, <1>1
<1>7. Lengths({})'
  <2> HIDE DEF f
  <2> QED BY <1>1, <1>2, <1>4, <1>5, <1>6, LengthsKept
<1>8. /\ main' \in [lines : Seq(Lines), flushed : Nat] /\ main'.lines = main.lines
      /\ main'.flushed <= Len(main'.lines)
  <2>1. Len(main.lines) <= Len(main.lines) /\ Len(main.lines) \in Nat BY <1>2
  <2> QED BY <2>1, <1>1, <1>2, FlushedFacts
<1>9. Recovered' = Recovered BY <1>8 DEF Recovered
<1>10. Clean' BY <1>4, <1>8, <1>9 DEF Clean
<1>11. rest \in SUBSET Docs BY <1>3
<1>12. /\ job' \in Jobs /\ job' \notin CommitJobs /\ job'.at \in {"idle", "reclaim"}
       /\ job' # Idle => job'.at = "reclaim" /\ job'.docs = rest /\ rest # {}
  <2> HIDE DEF rest
  <2> QED BY <1>1, <1>11, ReclaimingFacts
<1>13. Types' BY <1>1, <1>2, <1>6, <1>8, <1>12 DEF Types, Filed
<1>14. Settled'
  <2>1. job' # Idle => job'.docs \subseteq DOMAIN st'.docs /\ job'.docs # {} BY <1>1, <1>3, <1>12
  <2>2. job'.at = "reclaim" => \A e \in job'.docs : Reclaimable(st', e) BY <1>1, <1>4, <1>12, JobKinds
  <2> HIDE DEF rest
  <2> QED BY <2>1, <2>2, <1>1, <1>4, <1>7, <1>9, <1>10, <1>12 DEF Settled
<1>15. Memory' BY <1>1, <1>2, <1>3, <1>12, <1>14 DEF Inv, Memory
<1>16. Ids' BY <1>1, <1>9 DEF Inv, Ids
<1> QED BY <1>1, <1>2, <1>8, <1>13, <1>15, <1>16 DEF Inv

\* The hypothesis: reclamation's own append, whose failure poisons nothing, does not fail.
NoTornReclaims == \A s \in Setups : "reclaimAppend" \notin s.faults

\* The log and the memory take the Reclaim line in one step.
LEMMA AuthoriseReclaimInv == NoTornReclaims /\ Inv /\ AuthoriseReclaim => Inv'
<1> SUFFICES ASSUME NoTornReclaims, Inv, AuthoriseReclaim PROVE Inv' OBVIOUS
<1> DEFINE d == job.doc
           one == setup.oneAddress
           L == main.lines
           r == Recovered
           gen == st.docs[d].generation + 1
           slices == st.docs[d].slices
           keep == Rebased(slices)
           line == Reclaim(d, gen, keep)
           M == Append(L, line)
           p == Replay(M)
           u == Apply(st, line)
<1>1. "reclaimAppend" \notin setup.faults BY DEF NoTornReclaims, Inv, Types
<1>2. /\ mode = "open" /\ job.at = "authorise"
      /\ MainIs(Written(L, line)) /\ st' = u /\ job' = [job EXCEPT !.at = "remove"] /\ wrote' = TRUE
      /\ UNCHANGED <<mode, poison, side, lateErr, issued, lost, reissued, swept, setup>>
  BY <1>1 DEF AuthoriseReclaim, past
<1>3. Types /\ Sound(st, one) /\ main \in [lines : Seq(Lines), flushed : Nat] /\ main.flushed <= Len(L)
      /\ GoodLog(L, one)
  BY DEF Inv, Memory, Types
<1>4. /\ job \in AuthoriseJobs /\ job # Idle /\ job \notin CommitJobs /\ ~poison /\ poison = FALSE /\ Settled
      /\ job.docs \in SUBSET Docs /\ job.docs \subseteq DOMAIN st.docs /\ d \in job.docs
      /\ d \in Docs /\ st.docs[d].generation \in Nat
  BY <1>2, AuthorisingFacts
<1>5. /\ Lengths({}) /\ Clean /\ Agrees(st, r.st) /\ \A e \in job.docs : Reclaimable(st, e)
      /\ Len(File(NextGeneration(d)).recs) = Len(keep)
  BY <1>2, <1>4 DEF Settled
<1>6. keep \in Seq(Slices) /\ Numbered(keep) /\ keep # <<>> /\ gen \in Nat
  BY <1>3, <1>4, <1>5, ReclaimableFacts
<1>7. d \in DOMAIN st.docs /\ d \in DOMAIN r.st.docs /\ st.docs = r.st.docs BY <1>4, <1>5 DEF Agrees
<1>8. Sound(r.st, one) /\ ~EndsTorn(L) /\ r.pending = <<>>
  BY <1>3, <1>5, LogWhole DEF Whole, Recovered, Clean
<1>9. /\ Sound(u, one) /\ DOMAIN u.docs = DOMAIN st.docs
      /\ u.docs = Reclaimed(st.docs, d, gen, keep)
      /\ \A e \in DOMAIN st.docs \ {d} : u.docs[e] = st.docs[e]
      /\ u.docs[d].generation = gen /\ u.docs[d].slices = keep
      /\ u.last = st.last /\ u.rows = st.rows /\ u.next = st.next /\ u.reserved = st.reserved
  <2> DEFINE s == st
  <2>1. Sound(s, one) /\ d \in DOMAIN s.docs BY <1>3, <1>7
  <2> HIDE DEF s, gen, keep, d, one
  <2>2. LET x == Reclaim(d, gen, keep)
            v == Apply(s, x)
        IN  /\ x \in ReclaimLines /\ Applicable(s, x) /\ Sound(v, one)
            /\ v.docs = Reclaimed(s.docs, d, gen, keep)
            /\ DOMAIN v.docs = DOMAIN s.docs
            /\ \A e \in DOMAIN s.docs \ {d} : v.docs[e] = s.docs[e]
            /\ v.docs[d].generation = gen /\ v.docs[d].slices = keep /\ v.docs[d].open = s.docs[d].open
            /\ v.last = s.last /\ v.rows = s.rows /\ v.next = s.next /\ v.reserved = s.reserved
    BY <2>1, <1>6, ReclaimApplies
  <2> QED BY <2>2 DEF s
<1> DEFINE v == Apply(r.st, line)
<1>10. /\ v.docs = Reclaimed(r.st.docs, d, gen, keep)
       /\ v.last = r.st.last /\ v.rows = r.st.rows /\ v.next = r.st.next /\ v.reserved = r.st.reserved
  <2> DEFINE s == r.st
  <2>1. Sound(s, one) /\ d \in DOMAIN s.docs BY <1>7, <1>8
  <2> HIDE DEF s, gen, keep, d, one
  <2>2. LET x == Reclaim(d, gen, keep)
            w == Apply(s, x)
        IN  /\ x \in ReclaimLines /\ Applicable(s, x) /\ Sound(w, one)
            /\ w.docs = Reclaimed(s.docs, d, gen, keep)
            /\ DOMAIN w.docs = DOMAIN s.docs
            /\ \A e \in DOMAIN s.docs \ {d} : w.docs[e] = s.docs[e]
            /\ w.docs[d].generation = gen /\ w.docs[d].slices = keep /\ w.docs[d].open = s.docs[d].open
            /\ w.last = s.last /\ w.rows = s.rows /\ w.next = s.next /\ w.reserved = s.reserved
    BY <2>1, <1>6, ReclaimApplies
  <2> QED BY <2>2 DEF s
<1>11. /\ GoodLog(M, one) /\ p.st = v /\ p.pending = <<>> /\ p.confirmed = Len(L) + 1 /\ ~EndsTorn(M)
  <2>1. d \in DOMAIN Replay(L).st.docs /\ Replay(L).pending = <<>> BY <1>7, <1>8 DEF Recovered
  <2> HIDE DEF gen, keep, d, one, L
  <2>2. LET z == Replay(L)
            x == Reclaim(d, gen, keep)
            q == Replay(Append(L, x))
        IN  /\ GoodLog(Append(L, x), one)
            /\ q.st = Apply(z.st, x) /\ q.pending = <<>> /\ q.confirmed = Len(L) + 1
            /\ q.commits = z.commits
            /\ Markers(Append(L, x)) = Markers(L)
            /\ ~EndsTorn(Append(L, x))
    BY ZenonT(60), <2>1, <1>3, <1>6, <1>8, LogReclaim
  <2> QED BY <2>2 DEF Recovered, L
<1> HIDE DEF u, v, p
<1>12. Agrees(u, v) BY <1>5, <1>7, <1>9, <1>10 DEF Agrees
<1>13. MainIs(M) BY <1>2, <1>8, WrittenWhole
<1> HIDE DEF line
<1>14. M \in Seq(Lines) /\ Len(M) = Len(L) + 1 /\ Len(L) \in Nat /\ main.flushed \in Nat
  <2>1. Len(L) \in Nat /\ main.flushed \in Nat BY <1>3
  <2>2. Len(M) = Len(L) + 1 BY <1>3
  <2> HIDE DEF M
  <2> QED BY <2>1, <2>2, <1>11 DEF GoodLog
<1>15. main' \in [lines : Seq(Lines), flushed : Nat] /\ main'.lines = M /\ main'.flushed = main.flushed
  <2> HIDE DEF M
  <2> QED BY <1>3, <1>13, <1>14, MainIsFacts
<1> HIDE DEF M
<1>16. Recovered' = p BY <1>15 DEF Recovered, p
<1>17. job' \in AuthoriseJobs /\ job'.at = "remove" /\ job'.docs = job.docs /\ job'.doc = d
  BY <1>2, <1>4 DEF AuthoriseJobs
<1>18. job' \in Jobs /\ job' # Idle /\ job' \notin CommitJobs
  <2>1. job' \in Jobs BY <1>17 DEF Jobs
  <2> QED BY <2>1, <1>17, JobKinds
<1> HIDE DEF keep, gen
<1>19. Types' BY <1>2, <1>3, <1>9, <1>15, <1>18 DEF Types, Sound
<1>20. Clean' BY <1>11, <1>14, <1>15, <1>16 DEF Clean
<1>21. Lengths({})'
  <2>1. \A g : File(g)' = File(g) BY <1>2 DEF File
  <2>2. \A e \in Docs : Sidecar(e)' = <<e, GenerationOf(u.docs, e)>> BY <1>2 DEF Sidecar, GenerationOf
  <2>3. \A e \in Docs : Sidecar(e) = <<e, GenerationOf(st.docs, e)>> BY <1>3, FileTypes
  <2>4. ASSUME NEW e \in Docs
        PROVE  Len(File(<<e, GenerationOf(u.docs, e)>>).recs) = Len(SlicesOf(u.docs, e)) + 0
    <3>1. CASE e = d
      <4>1. GenerationOf(u.docs, e) = gen /\ SlicesOf(u.docs, e) = keep BY <3>1, <1>7, <1>9 DEF GenerationOf, SlicesOf
      <4>2. NextGeneration(d) = <<d, gen>> BY DEF NextGeneration, gen
      <4>3. Len(keep) = Len(keep) + 0
        <5>1. Len(keep) \in Nat BY <1>6
        <5> QED BY <5>1
      <4> HIDE DEF d
      <4> QED BY <3>1, <4>1, <4>2, <4>3, <1>5
    <3>2. CASE e # d
      <4>1. GenerationOf(u.docs, e) = GenerationOf(st.docs, e) /\ SlicesOf(u.docs, e) = SlicesOf(st.docs, e)
        <5>1. e \in DOMAIN st.docs <=> e \in DOMAIN u.docs BY <1>9
        <5>2. e \in DOMAIN st.docs => u.docs[e] = st.docs[e] BY <3>2, <1>9
        <5> HIDE DEF d
        <5> QED BY <5>1, <5>2 DEF GenerationOf, SlicesOf
      <4>2. Len(File(Sidecar(e)).recs) = Len(SlicesOf(st.docs, e)) + 0 BY <1>5 DEF Lengths
      <4> QED BY <4>1, <4>2, <2>3
    <3> QED BY <3>1, <3>2
  <2> QED BY <1>2, <2>1, <2>2, <2>4 DEF Lengths
<1>22. \A e \in job.docs \ {d} : Reclaimable(u, e) BY <1>4, <1>5, <1>9 DEF Reclaimable
<1>23. Settled'
  <2>1. job'.docs \subseteq DOMAIN st'.docs /\ job'.docs # {} BY <1>2, <1>4, <1>9, <1>17
  <2>2. Agrees(st', Recovered'.st) BY <1>2, <1>11, <1>12, <1>16
  <2>3. job'.doc \in job'.docs /\ \A e \in job'.docs \ {job'.doc} : Reclaimable(st', e) BY <1>2, <1>4, <1>17, <1>22
  <2> QED BY <2>1, <2>2, <2>3, <1>17, <1>20, <1>21 DEF Settled
<1>24. Memory' BY <1>2, <1>4, <1>9, <1>18, <1>23 DEF Inv, Memory
<1>25. Ids' BY <1>2, <1>9, <1>10, <1>11, <1>16 DEF Inv, Ids
<1>26. main'.flushed <= Len(main'.lines) BY <1>3, <1>14, <1>15
<1>27. GoodLog(main'.lines, setup'.oneAddress) BY <1>2, <1>11, <1>15
<1> QED BY <1>19, <1>24, <1>25, <1>26, <1>27 DEF Inv

-----------------------------------------------------------------------------
(* Theorems. *)

\* Every step keeps the invariant.
LEMMA NextInv == NoTornReclaims /\ Inv /\ [Next]_vars => Inv'
<1> SUFFICES ASSUME NoTornReclaims, Inv, [Next]_vars PROVE Inv' OBVIOUS
<1>1. CASE Commit BY <1>1, CommitInv
<1>2. CASE AppendContent BY <1>2, AppendContentInv
<1>3. CASE FlushSidecars BY <1>3, FlushSidecarsInv
<1>4. CASE AppendMain BY <1>4, AppendMainInv
<1>5. CASE Publish BY <1>5, PublishInv
<1>6. CASE CopyTail BY <1>6, CopyTailInv
<1>7. CASE AuthoriseReclaim BY <1>7, AuthoriseReclaimInv
<1>8. CASE RemoveOld BY <1>8, RemoveOldInv
<1>9. CASE MintRaw BY <1>9, MintRawInv
<1>10. CASE FlushFailsLate BY <1>10, FlushFailsLateInv
<1>11. CASE Close BY <1>11, CloseInv
<1>12. CASE Kill BY <1>12, KillInv
<1>13. CASE PowerLoss BY <1>13, PowerLossInv
<1>14. CASE OpenMain BY <1>14, OpenMainInv
<1>15. CASE OpenSidecars BY <1>15, OpenSidecarsInv
<1>16. CASE UNCHANGED vars
  <2>1. UNCHANGED <<main, side, mode, st, job, poison, lateErr, wrote, issued, lost, reissued, setup>>
    BY <1>16 DEF vars, disk, memory, past
  <2>2. Types' BY <2>1 DEF Inv, Types
  <2>3. Recovered' = Recovered BY <2>1 DEF Recovered
  <2>4. Clean' = Clean BY <2>1, <2>3 DEF Clean
  <2>5. \A S : Lengths(S)' = Lengths(S) BY <2>1 DEF Lengths, File, Sidecar
  <2>6. Settled' = Settled BY <2>1, <2>3, <2>4, <2>5 DEF Settled, NextGeneration, File
  <2>7. Committing' = Committing BY <2>1, <2>3, <2>4, <2>5 DEF Committing
  <2>8. Memory' BY <2>1, <2>3, <2>4, <2>6, <2>7 DEF Inv, Memory
  <2>9. Ids' BY <2>1, <2>3 DEF Inv, Ids
  <2> QED BY <2>1, <2>2, <2>8, <2>9 DEF Inv
<1> QED BY <1>1, <1>2, <1>3, <1>4, <1>5, <1>6, <1>7, <1>8, <1>9, <1>10, <1>11, <1>12, <1>13, <1>14, <1>15, <1>16
  DEF Next

\* A step of the store beside a reader is a step of the store.
LEMMA ReaderSteps == [RNext]_rvars => [Next]_vars
BY DEF RNext, rvars, Quietly, LosePower, ReadMain, CheckSidecars, DropReader, Next

\* The invariant holds in every state of the store, with a reader beside it.
THEOREM StoreInv == NoTornReclaims => (RSpec => []Inv)
<1> SUFFICES ASSUME NoTornReclaims PROVE RSpec => []Inv OBVIOUS
<1>1. RInit => Inv BY InitInv DEF RInit
<1>2. Inv /\ [RNext]_rvars => Inv' BY NextInv, ReaderSteps
<1> QED BY <1>1, <1>2, PTL DEF RSpec

\* At most one live incarnation per address, in memory as in every state that recovery could
\* compute: validate's check of the batch is enough.
THEOREM OneLive == NoTornReclaims => (RSpec => []OneLivePerAddress)
<1> SUFFICES ASSUME NoTornReclaims PROVE RSpec => []OneLivePerAddress OBVIOUS
<1>1. Inv => OneLivePerAddress
  <2> SUFFICES ASSUME Inv PROVE OneLivePerAddress OBVIOUS
  <2>1. Addressed(st.docs, setup.oneAddress) BY DEF Inv, Memory, Sound
  <2> QED BY <2>1 DEF OneLivePerAddress, Addressed, Live, SameAddress
<1> QED BY <1>1, StoreInv, PTL

\* The open store's memory is what recovery would compute of its log.
THEOREM MemoryIsLog == NoTornReclaims => (RSpec => []MemoryIsTheLog)
<1> SUFFICES ASSUME NoTornReclaims PROVE RSpec => []MemoryIsTheLog OBVIOUS
<1>1. Inv => MemoryIsTheLog
  <2> SUFFICES ASSUME Inv, Ready, ~poison PROVE MemoryIsTheLog BY DEF MemoryIsTheLog
  <2>1. Clean /\ Agrees(st, Recovered.st) BY ReadyFacts DEF Settled
  <2>2. Recovered.ok BY LogWhole DEF Inv, Whole, Recovered
  <2>3. st.next \in Nat /\ Recovered.st.next \in Nat BY LogWhole DEF Inv, Memory, Whole, Recovered, Sound, States
  <2>4. Recovered.st.next >= st.next BY <2>1, <2>3 DEF Agrees
  <2> QED BY <2>1, <2>2, <2>4 DEF MemoryIsTheLog, Clean, Agrees, Recovered
<1> QED BY <1>1, StoreInv, PTL

\* An id that was handed out is not handed out again until a power loss takes the last line
\* that tells of it; where power does not fail, none ever is, whatever a kill leaves of the
\* block it came from.
THEOREM IdsAreNew ==
  NoTornReclaims => (RSpec => [](NoIdIsReissued /\ (~setup.powerFails => reissued = {})))
<1> SUFFICES ASSUME NoTornReclaims
             PROVE  RSpec => [](NoIdIsReissued /\ (~setup.powerFails => reissued = {}))
  OBVIOUS
<1>1. Inv => NoIdIsReissued /\ (~setup.powerFails => reissued = {}) BY DEF Inv, Ids, NoIdIsReissued
<1> QED BY <1>1, StoreInv, PTL

-----------------------------------------------------------------------------
(* What a log says its documents hold. *)

\* The slices of a document are its latest writes, back to a base if not to the first: slice
\* i is record i of the sidecar.  A rewindable document lost none of them.
Descends(slices, commits, d) ==
  LET W == WritersOf(commits, d)
  IN  \E k \in 0..Len(W) :
        /\ Len(slices) = Len(W) - k
        /\ \A i \in 1..Len(slices) : slices[i] = [seq |-> W[k + i].seq, end |-> i, base |-> W[k + i].wrote[d]]
        /\ k > 0 => slices # <<>> /\ slices[1].base
        /\ d \in Rewindable => k = 0

\* Documents against the commits that made them.
Tells(docs, commits) == \A d \in Docs : Descends(SlicesOf(docs, d), commits, d)

\* Documents against earlier ones: a generation only gains slices.
Follows(old, new) ==
  \A d \in DOMAIN old :
    /\ d \in DOMAIN new
    /\ old[d].generation <= new[d].generation
    /\ old[d].generation = new[d].generation =>
         /\ Len(old[d].slices) <= Len(new[d].slices)
         /\ \A i \in 1..Len(old[d].slices) : old[d].slices[i] = new[d].slices[i]

DocsOf(L) == Replay(L).st.docs

\* A log whose every prefix tells, and follows the shorter ones.
TrueLog(L) ==
  /\ \A n \in 0..Len(L) : Tells(DocsOf(Cut(L, n)), Replay(Cut(L, n)).commits)
  /\ \A n \in 0..Len(L) : \A m \in 0..n : Follows(DocsOf(Cut(L, m)), DocsOf(Cut(L, n)))

DocMaps == Maps(Docs, DocRecords)

\* The documents of a state.
LEMMA DocsFacts ==
  ASSUME NEW docs \in DocMaps
  PROVE  /\ DOMAIN docs \subseteq Docs
         /\ \A d \in DOMAIN docs : docs[d].generation \in Nat /\ docs[d].slices \in Seq(Slices)
                                   /\ Len(docs[d].slices) \in Nat
         /\ \A d \in Docs : SlicesOf(docs, d) \in Seq(Slices) /\ Len(SlicesOf(docs, d)) \in Nat
         /\ \A d \in DOMAIN docs : SlicesOf(docs, d) = docs[d].slices
<1>1. DOMAIN docs \subseteq Docs /\ docs \in [DOMAIN docs -> DocRecords] BY MapFacts DEF DocMaps
<1>2. \A d \in DOMAIN docs : docs[d].generation \in Nat /\ docs[d].slices \in Seq(Slices)
  BY <1>1 DEF DocRecords
<1>3. \A d \in DOMAIN docs : Len(docs[d].slices) \in Nat
  <2> TAKE d \in DOMAIN docs
  <2> DEFINE s == docs[d].slices
  <2>1. s \in Seq(Slices) BY <1>2
  <2> HIDE DEF s
  <2>2. Len(s) \in Nat BY <2>1
  <2> QED BY <2>2 DEF s
<1>4. ASSUME NEW d \in Docs PROVE SlicesOf(docs, d) \in Seq(Slices) /\ Len(SlicesOf(docs, d)) \in Nat
  <2> DEFINE s == SlicesOf(docs, d)
  <2>1. s \in Seq(Slices)
    <3>1. <<>> \in Seq(Slices) OBVIOUS
    <3> QED BY <3>1, <1>2 DEF SlicesOf
  <2> HIDE DEF s
  <2>2. Len(s) \in Nat BY <2>1
  <2> QED BY <2>1, <2>2 DEF s
<1>5. \A d \in DOMAIN docs : SlicesOf(docs, d) = docs[d].slices BY DEF SlicesOf
<1> QED BY <1>1, <1>2, <1>3, <1>4, <1>5

\* Following is reflexive and transitive.
LEMMA FollowsSelf ==
  ASSUME NEW docs \in DocMaps
  PROVE  Follows(docs, docs)
BY DocsFacts DEF Follows

\* Following is transitive.
LEMMA FollowsOn ==
  ASSUME NEW a \in DocMaps, NEW b \in DocMaps, NEW c \in DocMaps, Follows(a, b), Follows(b, c)
  PROVE  Follows(a, c)
<1> SUFFICES ASSUME NEW d \in DOMAIN a
             PROVE  /\ d \in DOMAIN c
                    /\ a[d].generation <= c[d].generation
                    /\ a[d].generation = c[d].generation =>
                         /\ Len(a[d].slices) <= Len(c[d].slices)
                         /\ \A i \in 1..Len(a[d].slices) : a[d].slices[i] = c[d].slices[i]
  BY DEF Follows
<1>1. /\ d \in DOMAIN b
      /\ a[d].generation <= b[d].generation
      /\ a[d].generation = b[d].generation =>
           /\ Len(a[d].slices) <= Len(b[d].slices)
           /\ \A i \in 1..Len(a[d].slices) : a[d].slices[i] = b[d].slices[i]
  BY DEF Follows
<1>2. /\ d \in DOMAIN c
      /\ b[d].generation <= c[d].generation
      /\ b[d].generation = c[d].generation =>
           /\ Len(b[d].slices) <= Len(c[d].slices)
           /\ \A i \in 1..Len(b[d].slices) : b[d].slices[i] = c[d].slices[i]
  BY <1>1 DEF Follows
<1>3. a[d].generation \in Nat /\ b[d].generation \in Nat /\ c[d].generation \in Nat
      /\ Len(a[d].slices) \in Nat /\ Len(b[d].slices) \in Nat /\ Len(c[d].slices) \in Nat
  BY <1>1, <1>2, DocsFacts
<1> HIDE DEF Follows
<1>4. a[d].generation <= c[d].generation BY <1>1, <1>2, <1>3
<1>5. ASSUME a[d].generation = c[d].generation
      PROVE  /\ Len(a[d].slices) <= Len(c[d].slices)
             /\ \A i \in 1..Len(a[d].slices) : a[d].slices[i] = c[d].slices[i]
  <2>1. a[d].generation = b[d].generation /\ b[d].generation = c[d].generation BY <1>1, <1>2, <1>3, <1>5
  <2>2. Len(a[d].slices) <= Len(b[d].slices) /\ Len(b[d].slices) <= Len(c[d].slices) BY <2>1, <1>1, <1>2
  <2>3. Len(a[d].slices) <= Len(c[d].slices) BY <2>2, <1>3
  <2>4. \A i \in 1..Len(a[d].slices) : i \in 1..Len(b[d].slices) BY <2>2, <1>3
  <2>5. \A i \in 1..Len(a[d].slices) : a[d].slices[i] = c[d].slices[i] BY <2>1, <2>4, <1>1, <1>2
  <2> QED BY <2>3, <2>5
<1> QED BY <1>2, <1>4, <1>5

\* The documents at a point of a good log.
LEMMA PointDocs ==
  ASSUME NEW L, NEW one, GoodLog(L, one)
  PROVE  /\ DocsOf(L) \in DocMaps
         /\ \A n \in 0..Len(L) : DocsOf(Cut(L, n)) \in DocMaps
         /\ \A n \in 0..Len(L) : Replay(Cut(L, n)).commits \in Seq(Commits)
         /\ \A n \in 0..Len(L) : Sound(Replay(Cut(L, n)).st, one)
         /\ Replay(L).commits \in Seq(Commits)
<1>1. ASSUME NEW n \in 0..Len(L)
      PROVE  /\ DocsOf(Cut(L, n)) \in DocMaps /\ Replay(Cut(L, n)).commits \in Seq(Commits)
             /\ Sound(Replay(Cut(L, n)).st, one)
  <2>1. Whole(Cut(L, n), one) BY DEF GoodLog
  <2> QED BY <2>1 DEF Whole, Points, States, DocMaps, DocsOf
<1>2. L \in Seq(Lines) /\ Len(L) \in 0..Len(L) /\ Cut(L, Len(L)) = L
  <2>1. L \in Seq(Lines) BY DEF GoodLog
  <2> QED BY <2>1, CutFacts
<1>3. DocsOf(Cut(L, Len(L))) \in DocMaps /\ Replay(Cut(L, Len(L))).commits \in Seq(Commits) BY <1>1, <1>2
<1> QED BY <1>1, <1>2, <1>3

\* The whole of a true log tells, and follows its prefixes.
LEMMA TrueWhole ==
  ASSUME NEW L, NEW one, GoodLog(L, one), TrueLog(L)
  PROVE  /\ Tells(DocsOf(L), Replay(L).commits)
         /\ \A n \in 0..Len(L) : Follows(DocsOf(Cut(L, n)), DocsOf(L))
<1>1. L \in Seq(Lines) /\ Len(L) \in 0..Len(L) /\ Cut(L, Len(L)) = L
  <2>1. L \in Seq(Lines) BY DEF GoodLog
  <2> QED BY <2>1, CutFacts
<1>2. Tells(DocsOf(Cut(L, Len(L))), Replay(Cut(L, Len(L))).commits) BY <1>1 DEF TrueLog
<1>3. \A n \in 0..Len(L) : Follows(DocsOf(Cut(L, n)), DocsOf(Cut(L, Len(L)))) BY <1>1 DEF TrueLog
<1> QED BY <1>1, <1>2, <1>3

\* A prefix of a true log is true.
LEMMA TruePrefix ==
  ASSUME NEW L, NEW one, GoodLog(L, one), TrueLog(L), NEW n \in 0..Len(L)
  PROVE  TrueLog(Cut(L, n))
<1> DEFINE c == Cut(L, n)
<1>1. L \in Seq(Lines) BY DEF GoodLog
<1>2. Len(c) = n /\ \A m \in 0..n : Cut(c, m) = Cut(L, m) /\ m \in 0..Len(L) BY <1>1, CutFacts
<1> HIDE DEF c
<1>3. \A m \in 0..n : Tells(DocsOf(Cut(c, m)), Replay(Cut(c, m)).commits) BY <1>2 DEF TrueLog
<1>4. \A m \in 0..n : \A k \in 0..m : Follows(DocsOf(Cut(c, k)), DocsOf(Cut(c, m)))
  <2> TAKE m \in 0..n
  <2> TAKE k \in 0..m
  <2>1. k \in 0..n BY <1>1
  <2> QED BY <2>1, <1>2 DEF TrueLog
<1>5. TrueLog(c) BY <1>2, <1>3, <1>4 DEF TrueLog
<1> QED BY <1>5 DEF c

\* One more line keeps a log true when its documents tell and follow.
LEMMA TrueExtends ==
  ASSUME NEW L, NEW one, GoodLog(L, one), TrueLog(L), NEW x \in Lines, GoodLog(Append(L, x), one),
         Tells(DocsOf(Append(L, x)), Replay(Append(L, x)).commits), Follows(DocsOf(L), DocsOf(Append(L, x)))
  PROVE  TrueLog(Append(L, x))
<1> DEFINE t == Append(L, x)
           N == Len(L)
<1>1. L \in Seq(Lines) /\ N \in Nat BY DEF GoodLog
<1>2. t \in Seq(Lines) /\ Len(t) = N + 1 BY <1>1
<1>3. \A n \in 0..N : Cut(t, n) = Cut(L, n) BY <1>1, CutFacts
<1>4. Cut(t, N + 1) = t /\ Cut(L, N) = L BY <1>1, <1>2, CutFacts
<1>5. DocsOf(L) \in DocMaps /\ \A n \in 0..N : DocsOf(Cut(L, n)) \in DocMaps BY PointDocs
<1>6. DocsOf(t) \in DocMaps BY PointDocs
<1>7. Tells(DocsOf(t), Replay(t).commits) /\ Follows(DocsOf(L), DocsOf(t)) OBVIOUS
<1>8. \A n \in 0..N : Follows(DocsOf(Cut(L, n)), DocsOf(L)) BY TrueWhole
<1> HIDE DEF t
<1>9. \A n \in 0..(N + 1) : Tells(DocsOf(Cut(t, n)), Replay(Cut(t, n)).commits)
  <2> TAKE n \in 0..(N + 1)
  <2>1. n \in 0..N \/ n = N + 1 BY <1>1
  <2> QED BY <2>1, <1>3, <1>4, <1>7 DEF TrueLog
<1>10. ASSUME NEW n \in 0..(N + 1), NEW m \in 0..n PROVE Follows(DocsOf(Cut(t, m)), DocsOf(Cut(t, n)))
  <2>1. CASE n \in 0..N
    <3>1. m \in 0..N BY <2>1
    <3> QED BY <2>1, <3>1, <1>3 DEF TrueLog
  <2>2. CASE n = N + 1
    <3>1. CASE m = N + 1 BY <2>2, <3>1, <1>4, <1>6, FollowsSelf
    <3>2. CASE m # N + 1
      <4>1. m \in 0..N BY <3>2, <2>2, <1>1
      <4>2. Follows(DocsOf(Cut(L, m)), DocsOf(t)) BY <4>1, <1>5, <1>6, <1>7, <1>8, FollowsOn
      <4> QED BY <4>1, <4>2, <2>2, <1>3, <1>4
    <3> QED BY <3>1, <3>2
  <2> QED BY <2>1, <2>2, <1>1
<1>11. TrueLog(t) BY <1>2, <1>9, <1>10 DEF TrueLog
<1> QED BY <1>11 DEF t

\* So does a line that changes neither.
LEMMA TrueKept ==
  ASSUME NEW L, NEW one, GoodLog(L, one), TrueLog(L), NEW x \in Lines, GoodLog(Append(L, x), one),
         DocsOf(Append(L, x)) = DocsOf(L), Replay(Append(L, x)).commits = Replay(L).commits
  PROVE  TrueLog(Append(L, x))
<1>1. Tells(DocsOf(L), Replay(L).commits) BY TrueWhole
<1>2. DocsOf(L) \in DocMaps BY PointDocs
<1>3. Follows(DocsOf(L), DocsOf(L)) BY <1>2, FollowsSelf
<1> QED BY <1>1, <1>3, TrueExtends

\* The empty log says nothing.
LEMMA TrueEmpty == TrueLog(<<>>)
<1> DEFINE L == <<>>
<1>1. L \in Seq(Lines) /\ Len(L) = 0 OBVIOUS
<1>2. Replay(L) = ReplayStart BY ReplaySteps
<1> HIDE DEF L
<1>3. Cut(L, 0) = L BY <1>1, CutFacts
<1>4. DocsOf(L) = <<>> /\ Replay(L).commits = <<>>
  BY <1>2 DEF DocsOf, ReplayStart, Empty
<1>5. DOMAIN DocsOf(L) = {}
  <2>1. DOMAIN <<>> = {} OBVIOUS
  <2> QED BY <2>1, <1>4
<1>6. \A d \in Docs : Descends(SlicesOf(DocsOf(L), d), <<>>, d)
  <2> TAKE d \in Docs
  <2>1. SlicesOf(DocsOf(L), d) = <<>> BY <1>5 DEF SlicesOf
  <2>2. WritersOf(<<>>, d) = <<>> BY FilterEmpty DEF WritersOf
  <2>3. Len(<<>>) = 0 /\ 0 \in 0..0 /\ 0 = 0 - 0 OBVIOUS
  <2>4. \A i \in 1..0 : FALSE OBVIOUS
  <2> QED BY <2>1, <2>2, <2>3, <2>4 DEF Descends
<1>7. Tells(DocsOf(L), Replay(L).commits) BY <1>4, <1>6 DEF Tells
<1>8. Follows(DocsOf(L), DocsOf(L)) BY <1>5 DEF Follows
<1>9. \A n \in 0..0 : n = 0 OBVIOUS
<1>10. TrueLog(L) BY <1>1, <1>3, <1>7, <1>8, <1>9 DEF TrueLog
<1> QED BY <1>10 DEF L

\* The commits that wrote a document, after one more commit.
LEMMA WritersAppend ==
  ASSUME NEW commits \in Seq(Commits), NEW c \in Commits, NEW d
  PROVE  /\ WritersOf(commits, d) \in Seq(Commits)
         /\ WritersOf(Append(commits, c), d) =
              IF d \in DOMAIN c.wrote THEN Append(WritersOf(commits, d), c) ELSE WritersOf(commits, d)
<1> DEFINE t == Append(commits, c)
           A == {x \in ToSet(t) : d \in DOMAIN x.wrote}
           B == {x \in ToSet(commits) : d \in DOMAIN x.wrote}
<1>1. ToSet(t) = ToSet(commits) \cup {c} BY ToSetFacts
<1>2. \A y \in ToSet(commits) : y \in A <=> y \in B BY <1>1
<1>3. Filter(commits, A) = Filter(commits, B)
  <2> HIDE DEF A, B
  <2> QED BY <1>2, FilterSame
<1>4. Filter(t, A) = IF c \in A THEN Append(Filter(commits, A), c) ELSE Filter(commits, A)
  <2> HIDE DEF A
  <2> QED BY FilterAppend
<1>5. c \in A <=> d \in DOMAIN c.wrote BY <1>1
<1>6. Filter(commits, B) \in Seq(Commits)
  <2> HIDE DEF B
  <2> QED BY FilterType
<1> HIDE DEF A, B, t
<1>7. WritersOf(t, d) = Filter(t, A) /\ WritersOf(commits, d) = Filter(commits, B) BY DEF WritersOf, A, B
<1> QED BY <1>3, <1>4, <1>5, <1>6, <1>7 DEF t

\* A write is one more slice.
LEMMA DescendsOn ==
  ASSUME NEW commits \in Seq(Commits), NEW c \in Commits, NEW d, NEW slices \in Seq(Slices),
         Descends(slices, commits, d), d \in DOMAIN c.wrote,
         NEW s \in Slices, s = [seq |-> c.seq, end |-> Len(slices) + 1, base |-> c.wrote[d]]
  PROVE  Descends(Append(slices, s), Append(commits, c), d)
<1> DEFINE W == WritersOf(commits, d)
           V == WritersOf(Append(commits, c), d)
           t == Append(slices, s)
<1>1. W \in Seq(Commits) /\ V = Append(W, c) BY WritersAppend
<1> HIDE DEF V
<1>2. PICK k \in 0..Len(W) :
        /\ Len(slices) = Len(W) - k
        /\ \A i \in 1..Len(slices) : slices[i] = [seq |-> W[k + i].seq, end |-> i, base |-> W[k + i].wrote[d]]
        /\ k > 0 => slices # <<>> /\ slices[1].base
        /\ d \in Rewindable => k = 0
  BY DEF Descends
<1> HIDE DEF W
<1>3. Len(V) = Len(W) + 1 /\ V[Len(W) + 1] = c /\ \A i \in 1..Len(W) : V[i] = W[i] BY <1>1
<1>4. Len(t) = Len(slices) + 1 /\ t[Len(slices) + 1] = s /\ t # <<>> /\ \A i \in 1..Len(slices) : t[i] = slices[i]
  OBVIOUS
<1>5. Len(W) \in Nat /\ Len(slices) \in Nat BY <1>1
<1> HIDE DEF t
<1>6. k \in 0..Len(V) /\ Len(t) = Len(V) - k BY <1>2, <1>3, <1>4, <1>5
<1>7. ASSUME NEW i \in 1..Len(t)
      PROVE  t[i] = [seq |-> V[k + i].seq, end |-> i, base |-> V[k + i].wrote[d]]
  <2>1. CASE i \in 1..Len(slices)
    <3>1. k + i \in 1..Len(W) BY <2>1, <1>2, <1>5
    <3> QED BY <2>1, <3>1, <1>2, <1>3, <1>4
  <2>2. CASE i = Len(slices) + 1
    <3>1. k + i = Len(W) + 1 BY <2>2, <1>2, <1>5
    <3> QED BY <2>2, <3>1, <1>3, <1>4
  <2> QED BY <2>1, <2>2, <1>4, <1>5
<1>8. k > 0 => t # <<>> /\ t[1].base
  <2> SUFFICES ASSUME k > 0 PROVE t[1].base BY <1>4
  <2>1. slices # <<>> /\ slices[1].base BY <1>2
  <2>2. 1 \in 1..Len(slices) BY <2>1, <1>5
  <2> QED BY <2>1, <2>2, <1>4
<1> QED BY <1>2, <1>6, <1>7, <1>8 DEF Descends, V, t

\* A commit that does not write a document says nothing of it.
LEMMA DescendsStill ==
  ASSUME NEW commits \in Seq(Commits), NEW c \in Commits, NEW d, NEW slices,
         Descends(slices, commits, d), d \notin DOMAIN c.wrote
  PROVE  Descends(slices, Append(commits, c), d)
<1>1. WritersOf(Append(commits, c), d) = WritersOf(commits, d) BY WritersAppend
<1> QED BY <1>1 DEF Descends

\* The newest base of some slices.
LEMMA NewestFacts ==
  ASSUME NEW slices \in Seq(Slices)
  PROVE  LET b == NewestBase(slices) IN
         /\ b \in 0..Len(slices)
         /\ b > 0 => slices[b].base
         /\ \A i \in 1..Len(slices) : slices[i].base => i <= b
<1> DEFINE S == {0} \cup {i \in DOMAIN slices : slices[i].base}
<1>1. DOMAIN slices = 1..Len(slices) /\ Len(slices) \in Nat OBVIOUS
<1>2. S \in SUBSET (0..Len(slices)) /\ S # {} BY <1>1
<1>3. NewestBase(slices) = Max(S) BY DEF NewestBase
<1>4. \A i \in S : i = 0 \/ (i \in 1..Len(slices) /\ slices[i].base) BY <1>1
<1>5. \A i \in 1..Len(slices) : slices[i].base => i \in S BY <1>1
<1>6. \A i \in S : i \in 0..Len(slices) BY <1>2
<1> HIDE DEF S
<1>7. Max(S) \in S /\ \A y \in S : Max(S) >= y BY <1>1, <1>2, MaxFacts
<1> QED BY <1>1, <1>3, <1>4, <1>5, <1>6, <1>7

\* Rebased slices descend from the same commits.
LEMMA DescendsRebased ==
  ASSUME NEW commits \in Seq(Commits), NEW d, NEW slices \in Seq(Slices), Numbered(slices),
         Descends(slices, commits, d), NewestBase(slices) > 1, d \notin Rewindable
  PROVE  Descends(Rebased(slices), commits, d)
<1> DEFINE W == WritersOf(commits, d)
           b == NewestBase(slices)
           t == Rebased(slices)
<1>1. Len(W) \in Nat
  <2>1. Filter(commits, {x \in ToSet(commits) : d \in DOMAIN x.wrote}) \in Seq(Commits) BY FilterType
  <2>2. W \in Seq(Commits) BY <2>1 DEF WritersOf
  <2> HIDE DEF W
  <2> QED BY <2>2
<1>2. PICK k \in 0..Len(W) :
        /\ Len(slices) = Len(W) - k
        /\ \A i \in 1..Len(slices) : slices[i] = [seq |-> W[k + i].seq, end |-> i, base |-> W[k + i].wrote[d]]
  BY DEF Descends
<1>3. b \in 2..Len(slices) /\ Start(slices, b) = b - 1 /\ Len(t) = Len(slices) + 1 - b /\ t # <<>> BY RebasedFacts
<1>4. slices[b].base BY <1>3, NewestFacts
<1>5. t = [i \in 1..(Len(slices) + 1 - b) |-> [slices[b + i - 1] EXCEPT !.end = @ - Start(slices, b)]]
  BY DEF Rebased
<1> DEFINE h == k + b - 1
<1>6. Len(slices) \in Nat OBVIOUS
<1> HIDE DEF W, b, t
<1>7. h \in 0..Len(W) /\ Len(t) = Len(W) - h BY <1>1, <1>2, <1>3, <1>6
<1>8. ASSUME NEW i \in 1..Len(t)
      PROVE  t[i] = [seq |-> W[h + i].seq, end |-> i, base |-> W[h + i].wrote[d]]
  <2>1. b + i - 1 \in 1..Len(slices) /\ k + (b + i - 1) = h + i /\ i \in 1..(Len(slices) + 1 - b)
        /\ (b + i - 1) - (b - 1) = i
    BY <1>2, <1>3, <1>6
  <2>2. slices[b + i - 1] = [seq |-> W[h + i].seq, end |-> b + i - 1, base |-> W[h + i].wrote[d]]
    BY <2>1, <1>2
  <2>3. t[i] = [slices[b + i - 1] EXCEPT !.end = @ - (b - 1)] BY <2>1, <1>3, <1>5
  <2> HIDE DEF h
  <2> QED BY <2>1, <2>2, <2>3
<1>9. t[1].base
  <2>1. 1 \in 1..(Len(slices) + 1 - b) /\ b + 1 - 1 = b BY <1>3, <1>6
  <2>2. t[1] = [slices[b] EXCEPT !.end = @ - Start(slices, b)] BY <2>1, <1>5
  <2>3. b \in 1..Len(slices) BY <1>3, <1>6
  <2>4. slices[b] \in Slices BY <2>3
  <2> QED BY <2>2, <2>4, <1>4 DEF Slices
<1>10. \E j \in 0..Len(W) :
        /\ Len(t) = Len(W) - j
        /\ \A i \in 1..Len(t) : t[i] = [seq |-> W[j + i].seq, end |-> i, base |-> W[j + i].wrote[d]]
        /\ j > 0 => t # <<>> /\ t[1].base
        /\ d \in Rewindable => j = 0
  <2> HIDE DEF h
  <2> QED BY <1>3, <1>7, <1>8, <1>9
<1> QED BY <1>10 DEF Descends, W, t

\* A log of which the last line was a reclamation's.
Shortened(L, docs, d) ==
  /\ TrueLog(L)
  /\ DOMAIN DocsOf(L) = DOMAIN docs
  /\ \A e \in DOMAIN docs \ {d} : DocsOf(L)[e] = docs[e]
  /\ DocsOf(L)[d].generation = docs[d].generation + 1 /\ DocsOf(L)[d].slices = Rebased(docs[d].slices)

\* A reclamation keeps the log true.
LEMMA TrueReclaim ==
  ASSUME NEW L, NEW one, GoodLog(L, one), TrueLog(L), ~EndsTorn(L), Replay(L).pending = <<>>,
         NEW d \in DOMAIN DocsOf(L), Reclaimable(Replay(L).st, d)
  PROVE  Shortened(Append(L, Reclaim(d, DocsOf(L)[d].generation + 1, Rebased(DocsOf(L)[d].slices))), DocsOf(L), d)
<1> DEFINE s == Replay(L).st
           gen == s.docs[d].generation + 1
           keep == Rebased(s.docs[d].slices)
           x == Reclaim(d, gen, keep)
           t == Append(L, x)
           u == Apply(s, x)
<1>1. GoodLog(L, one) /\ L \in Seq(Lines) /\ Sound(s, one)
  BY LogWhole DEF Whole
<1>2. d \in DOMAIN s.docs BY DEF DocsOf
<1>3. /\ s.docs[d].slices \in Seq(Slices) /\ Numbered(s.docs[d].slices) /\ NewestBase(s.docs[d].slices) > 1
      /\ keep \in Seq(Slices) /\ Numbered(keep) /\ keep # <<>>
      /\ s.docs[d].generation \in Nat
  BY <1>1, <1>2, ReclaimableFacts
<1>4. gen \in Nat BY <1>3
<1> HIDE DEF keep, gen
<1>5. /\ x \in ReclaimLines
      /\ DOMAIN u.docs = DOMAIN s.docs
      /\ \A e \in DOMAIN s.docs \ {d} : u.docs[e] = s.docs[e]
      /\ u.docs[d].generation = gen /\ u.docs[d].slices = keep
  <2> HIDE DEF u, x, s
  <2> QED BY <1>1, <1>2, <1>3, <1>4, ReclaimApplies DEF u, x
<1>6. x \in Lines BY <1>5, LineKinds
<1>7. GoodLog(t, one) /\ Replay(t).st = u /\ Replay(t).commits = Replay(L).commits
  BY <1>1, <1>2, <1>3, <1>4, LogReclaim
<1> HIDE DEF s, u, x, t
<1>8. DocsOf(t) = u.docs /\ DocsOf(L) = s.docs BY <1>7 DEF DocsOf, s
<1>9. DocsOf(L) \in DocMaps /\ DocsOf(t) \in DocMaps /\ Replay(L).commits \in Seq(Commits) BY <1>7, PointDocs
<1>10. Tells(DocsOf(L), Replay(L).commits) BY TrueWhole
<1>11. Tells(DocsOf(t), Replay(t).commits)
  <2> SUFFICES ASSUME NEW e \in Docs PROVE Descends(SlicesOf(u.docs, e), Replay(L).commits, e)
    BY <1>7, <1>8 DEF Tells
  <2>1. Descends(SlicesOf(s.docs, e), Replay(L).commits, e) BY <1>8, <1>10 DEF Tells
  <2>2. CASE e = d
    <3>1. SlicesOf(u.docs, e) = keep /\ SlicesOf(s.docs, e) = s.docs[d].slices BY <2>2, <1>2, <1>5 DEF SlicesOf
    <3>2. d \notin Rewindable BY DEF Reclaimable
    <3> QED BY <2>1, <2>2, <3>1, <3>2, <1>3, <1>9, DescendsRebased DEF keep, s
  <2>3. CASE e # d
    <3>1. SlicesOf(u.docs, e) = SlicesOf(s.docs, e) BY <2>3, <1>5 DEF SlicesOf
    <3> QED BY <2>1, <3>1
  <2> QED BY <2>2, <2>3
<1>12. Follows(DocsOf(L), DocsOf(t))
  <2> SUFFICES ASSUME NEW e \in DOMAIN s.docs
      PROVE  /\ e \in DOMAIN u.docs
             /\ s.docs[e].generation <= u.docs[e].generation
             /\ s.docs[e].generation = u.docs[e].generation =>
                  /\ Len(s.docs[e].slices) <= Len(u.docs[e].slices)
                  /\ \A i \in 1..Len(s.docs[e].slices) : s.docs[e].slices[i] = u.docs[e].slices[i]
    BY <1>8 DEF Follows
  <2>1. s.docs[e].generation \in Nat /\ Len(s.docs[e].slices) \in Nat BY <1>8, <1>9, DocsFacts
  <2>2. CASE e = d BY <2>1, <2>2, <1>5 DEF gen
  <2>3. CASE e # d
    <3>1. u.docs[e] = s.docs[e] BY <2>3, <1>5
    <3> QED BY <2>1, <3>1, <1>5
  <2> QED BY <2>2, <2>3
<1>13. TrueLog(t) BY <1>6, <1>7, <1>11, <1>12, TrueExtends DEF t
<1>14. Shortened(t, DocsOf(L), d) BY <1>5, <1>8, <1>13 DEF Shortened, gen, keep
<1>15. x = Reclaim(d, DocsOf(L)[d].generation + 1, Rebased(DocsOf(L)[d].slices))
  BY <1>8 DEF x, gen, keep
<1> QED BY <1>14, <1>15 DEF t

\* A log of which the last line was a commit's marker.
Marked(L, s, seq, ends) ==
  /\ TrueLog(L)
  /\ \A d \in DOMAIN DocsOf(L) : DocsOf(L)[d].generation = GenerationOf(s.docs, d)
  /\ \A d \in DOMAIN ends :
       d \in DOMAIN DocsOf(L) /\ DocsOf(L)[d].slices = Append(SlicesOf(s.docs, d), SliceOf(seq, ends, d))
  /\ \A d \in DOMAIN DocsOf(L) \ DOMAIN ends : d \in DOMAIN s.docs /\ DocsOf(L)[d].slices = s.docs[d].slices

\* A commit keeps the log true.
LEMMA TrueMarker ==
  ASSUME NEW L, NEW one, NEW plan, NEW s, NEW seq, NEW C, NEW X, NEW ends,
         AllWritten(L, one, plan, s, seq, C, X, ends), TrueLog(L)
  PROVE  Marked(Append(L, Marker(seq, Len(plan), ends)), s, seq, ends)
<1> DEFINE x == Marker(seq, Len(plan), ends)
           t == Append(L, x)
           c == CommitOf(plan, x)
           u == Replay(t).st
<1>1. GoodLog(L, one) /\ L \in Seq(Lines) /\ Sound(s, one) /\ s = Replay(L).st /\ plan \in Seq(RecordLines)
      /\ C \subseteq DOMAIN ends /\ DOMAIN ends \subseteq DOMAIN s.docs \cup C
      /\ \A d \in DOMAIN ends : ends[d].end = Len(SlicesOf(s.docs, d)) + 1
  <2>1. GoodLog(L, one) /\ s = Replay(L).st /\ Planned(plan, seq, C, X) /\ Publishes(s, C, seq, ends) /\ C \subseteq DOMAIN ends
    BY DEF AllWritten
  <2>2. L \in Seq(Lines) /\ Sound(s, one) BY <2>1, LogWhole DEF Whole
  <2> QED BY <2>1, <2>2 DEF Planned, Publishes
<1>2. /\ x \in MarkerLines /\ GoodLog(t, one)
      /\ Committed(s, plan, C, X, seq, ends, u)
      /\ Replay(t).commits = Append(Replay(L).commits, c)
  BY LogMarker
<1>3. c \in Commits /\ c.seq = x.seq /\ DOMAIN c.wrote = DOMAIN x.docs /\ \A d \in DOMAIN x.docs : c.wrote[d] = x.docs[d].base
  <2> HIDE DEF x
  <2> QED BY <1>1, <1>2, CommitOfType
<1>4. x.seq = seq /\ x.docs = ends BY DEF Marker
<1>5. x \in Lines BY <1>2, LineKinds
<1> HIDE DEF x, t, c, u
<1>6. DocsOf(t) = u.docs /\ DocsOf(L) = s.docs BY <1>1 DEF DocsOf, u
<1>7. u.docs = DocsCommitted(s.docs, C, X, seq, ends) BY <1>2 DEF Committed
<1>8. DocsOf(L) \in DocMaps /\ DocsOf(t) \in DocMaps /\ Replay(L).commits \in Seq(Commits) BY <1>1, <1>2, PointDocs
<1>9. ends \in Maps(Docs, [end : Nat, base : BOOLEAN]) /\ seq \in Nat BY <1>2, <1>4 DEF MarkerLines, Ends
<1>10. \A d \in DOMAIN ends : ends[d] \in [end : Nat, base : BOOLEAN] /\ d \in Docs
  <2> DEFINE V == [end : Nat, base : BOOLEAN]
  <2>1. ends \in Maps(Docs, V) BY <1>9
  <2> HIDE DEF V
  <2>2. ends \in [DOMAIN ends -> V] /\ DOMAIN ends \subseteq Docs BY <2>1, MapFacts
  <2>3. \A d \in DOMAIN ends : ends[d] \in V /\ d \in Docs BY <2>2
  <2> QED BY <2>3 DEF V
<1>11. /\ DOMAIN u.docs = DOMAIN s.docs \cup C
       /\ \A d \in DOMAIN u.docs : u.docs[d].generation = GenerationOf(s.docs, d)
       /\ \A d \in DOMAIN u.docs : u.docs[d].slices = IF d \in DOMAIN ends THEN Append(SlicesOf(s.docs, d), SliceOf(seq, ends, d))
                                                      ELSE SlicesOf(s.docs, d)
  BY <1>7 DEF DocsCommitted
<1>12. \A d \in DOMAIN ends : d \in DOMAIN u.docs /\ u.docs[d].slices = Append(SlicesOf(s.docs, d), SliceOf(seq, ends, d))
  BY <1>1, <1>11
<1>13. \A d \in DOMAIN u.docs \ DOMAIN ends : d \in DOMAIN s.docs /\ u.docs[d].slices = s.docs[d].slices
  BY <1>1, <1>11 DEF SlicesOf
<1>14. Tells(s.docs, Replay(L).commits) BY <1>1, <1>6, TrueWhole
<1>15. Tells(u.docs, Replay(t).commits)
  <2> SUFFICES ASSUME NEW d \in Docs PROVE Descends(SlicesOf(u.docs, d), Append(Replay(L).commits, c), d)
    BY <1>2 DEF Tells
  <2>1. Descends(SlicesOf(s.docs, d), Replay(L).commits, d) BY <1>14 DEF Tells
  <2>2. CASE d \in DOMAIN ends
    <3> DEFINE old == SlicesOf(s.docs, d)
               e == SliceOf(seq, ends, d)
    <3>1. old \in Seq(Slices) BY <1>6, <1>8, DocsFacts
    <3>2. SlicesOf(u.docs, d) = Append(old, e) BY <2>2, <1>12 DEF SlicesOf
    <3>3. e = [seq |-> c.seq, end |-> Len(old) + 1, base |-> c.wrote[d]]
      BY <2>2, <1>1, <1>3, <1>4 DEF SliceOf
    <3>4. e \in Slices BY <2>2, <1>9, <1>10 DEF SliceOf, Slices
    <3>5. d \in DOMAIN c.wrote BY <2>2, <1>3, <1>4
    <3> HIDE DEF old, e
    <3>6. Descends(old, Replay(L).commits, d) BY <2>1 DEF old
    <3> QED BY <3>1, <3>2, <3>3, <3>4, <3>5, <3>6, <1>3, <1>8, DescendsOn
  <2>3. CASE d \notin DOMAIN ends
    <3>1. SlicesOf(u.docs, d) = SlicesOf(s.docs, d)
      <4>1. d \in DOMAIN u.docs <=> d \in DOMAIN s.docs BY <2>3, <1>1, <1>11
      <4> QED BY <4>1, <2>3, <1>13 DEF SlicesOf
    <3>2. d \notin DOMAIN c.wrote BY <2>3, <1>3, <1>4
    <3> QED BY <2>1, <3>1, <3>2, <1>3, <1>8, DescendsStill
  <2> QED BY <2>2, <2>3
<1>16. Follows(s.docs, u.docs)
  <2> SUFFICES ASSUME NEW d \in DOMAIN s.docs
      PROVE  /\ d \in DOMAIN u.docs
             /\ s.docs[d].generation <= u.docs[d].generation
             /\ s.docs[d].generation = u.docs[d].generation =>
                  /\ Len(s.docs[d].slices) <= Len(u.docs[d].slices)
                  /\ \A i \in 1..Len(s.docs[d].slices) : s.docs[d].slices[i] = u.docs[d].slices[i]
    BY DEF Follows
  <2>1. s.docs[d].generation \in Nat /\ s.docs[d].slices \in Seq(Slices) /\ Len(s.docs[d].slices) \in Nat BY <1>6, <1>8, DocsFacts
  <2>2. d \in DOMAIN u.docs /\ u.docs[d].generation = s.docs[d].generation BY <1>11 DEF GenerationOf
  <2>3. CASE d \in DOMAIN ends
    <3> DEFINE old == s.docs[d].slices
               e == SliceOf(seq, ends, d)
               new == Append(old, e)
    <3>1. u.docs[d].slices = new BY <2>3, <1>12 DEF SlicesOf
    <3>2. Len(new) = Len(old) + 1 /\ \A i \in 1..Len(old) : new[i] = old[i]
      <4> HIDE DEF e
      <4> QED BY <2>1
    <3> HIDE DEF new
    <3> QED BY <2>1, <2>2, <3>1, <3>2
  <2>4. CASE d \notin DOMAIN ends
    <3>1. u.docs[d].slices = s.docs[d].slices BY <2>2, <2>4, <1>13
    <3> QED BY <2>1, <2>2, <3>1
  <2> QED BY <2>3, <2>4
<1>17. TrueLog(t) BY <1>1, <1>2, <1>5, <1>6, <1>15, <1>16, TrueExtends DEF t
<1>18. Marked(t, s, seq, ends) BY <1>6, <1>11, <1>12, <1>13, <1>17 DEF Marked
<1> QED BY <1>18 DEF t, x

-----------------------------------------------------------------------------
(* The documents recovery might see. *)

\* What recovery would make of a log's prefixes, from some length on.
Snapshots(L, from) == {DocsOf(Cut(L, n)) : n \in from..Len(L)}

\* One more line is one more prefix.
LEMMA SnapshotsOn ==
  ASSUME NEW L \in Seq(Lines), NEW x \in Lines, NEW from \in 0..Len(L)
  PROVE  /\ Snapshots(Append(L, x), from) = Snapshots(L, from) \cup {DocsOf(Append(L, x))}
         /\ Snapshots(Append(L, x), Len(Append(L, x))) = {DocsOf(Append(L, x))}
         /\ DocsOf(L) \in Snapshots(L, from)
         /\ Snapshots(L, Len(L)) = {DocsOf(L)}
         /\ Snapshots(L, from) \subseteq Snapshots(L, 0)
<1> DEFINE t == Append(L, x)
           N == Len(L)
<1>1. N \in Nat /\ t \in Seq(Lines) /\ Len(t) = N + 1 BY LenProperties
<1>2. \A n \in 0..N : Cut(t, n) = Cut(L, n) BY CutFacts
<1>3. Cut(t, N + 1) = t /\ Cut(L, N) = L BY <1>1, CutFacts
<1> HIDE DEF t
<1>4. from..(N + 1) = (from..N) \cup {N + 1} /\ (N + 1)..(N + 1) = {N + 1} /\ N..N = {N} /\ N \in from..N BY <1>1
<1>5. \A n \in from..N : n \in 0..N BY <1>1
<1>6. {DocsOf(Cut(t, n)) : n \in from..(N + 1)} = {DocsOf(Cut(L, n)) : n \in from..N} \cup {DocsOf(t)}
  BY <1>2, <1>3, <1>4, <1>5
<1>7. {DocsOf(Cut(t, n)) : n \in (N + 1)..(N + 1)} = {DocsOf(t)} BY <1>3, <1>4
<1>8. {DocsOf(Cut(L, n)) : n \in N..N} = {DocsOf(L)} BY <1>3, <1>4
<1>9. DocsOf(L) \in {DocsOf(Cut(L, n)) : n \in from..N} BY <1>3, <1>4
<1>10. {DocsOf(Cut(L, n)) : n \in from..N} \subseteq {DocsOf(Cut(L, n)) : n \in 0..N} BY <1>5
<1> QED BY <1>1, <1>6, <1>7, <1>8, <1>9, <1>10 DEF Snapshots, t

\* A shorter log has fewer.
LEMMA SnapshotsCut ==
  ASSUME NEW L \in Seq(Lines), NEW from \in 0..Len(L), NEW n \in from..Len(L)
  PROVE  /\ Snapshots(Cut(L, n), n) = {DocsOf(Cut(L, n))}
         /\ Snapshots(Cut(L, n), n) \subseteq Snapshots(L, from)
         /\ Snapshots(Cut(L, n), from) \subseteq Snapshots(L, from)
<1> DEFINE t == Cut(L, n)
<1>1. n \in 0..Len(L) /\ Len(L) \in Nat OBVIOUS
<1>2. Len(t) = n /\ \A m \in 0..n : Cut(t, m) = Cut(L, m) BY <1>1, CutFacts
<1> HIDE DEF t
<1>3. n..n = {n} /\ n \in 0..n /\ \A m \in from..n : m \in 0..n /\ m \in from..Len(L) BY <1>1
<1>4. {DocsOf(Cut(t, m)) : m \in n..n} = {DocsOf(Cut(L, n))} BY <1>2, <1>3
<1>5. {DocsOf(Cut(t, m)) : m \in from..n} \subseteq {DocsOf(Cut(L, m)) : m \in from..Len(L)} BY <1>2, <1>3
<1>6. DocsOf(Cut(L, n)) \in {DocsOf(Cut(L, m)) : m \in from..Len(L)} BY <1>1
<1> QED BY <1>2, <1>4, <1>5, <1>6 DEF Snapshots, t

\* Two snapshots of a true log follow one another; the log's own follows them all.
LEMMA SnapshotsFollow ==
  ASSUME NEW L, NEW one, GoodLog(L, one), TrueLog(L)
  PROVE  /\ \A docs \in Snapshots(L, 0) : docs \in DocMaps /\ Follows(docs, DocsOf(L))
         /\ DocsOf(L) \in DocMaps
BY TrueWhole, PointDocs DEF Snapshots

-----------------------------------------------------------------------------
(* The sidecars against the log. *)

\* A file has a record for every slice, flushed where power may fail.
Holds(file, slices, power) ==
  /\ Len(slices) <= Len(file.recs)
  /\ power => Len(slices) <= file.flushed
  /\ \A i \in 1..Len(slices) : file.recs[i] = [seq |-> slices[i].seq, base |-> slices[i].base]

\* What recovery would make of the log cut anywhere, and where it may find it cut.
Seen  == Snapshots(main.lines, 0)
Floor == IF setup.powerFails THEN main.flushed ELSE Len(main.lines)
Could == Snapshots(main.lines, Floor)

NameOf(docs, d) == <<d, docs[d].generation>>

\* A sidecar that is there fits every point of the log that names it.
FilesFit ==
  \A docs \in Seen : \A d \in DOMAIN docs :
    NameOf(docs, d) \in DOMAIN side => Holds(side[NameOf(docs, d)], docs[d].slices, setup.powerFails)

\* Those that recovery may want are there, unless a sweep removed them.
FilesThere ==
  swept \/ \A docs \in Could : \A d \in DOMAIN docs :
             /\ NameOf(docs, d) \in DOMAIN side
             /\ setup.powerFails => side[NameOf(docs, d)].named

\* What a commit has written, and what a reclamation has copied.
Stored ==
  /\ job.at \in {"content", "flush", "main"} =>
       \A d \in DOMAIN job.ends :
         LET file == File(Sidecar(d)) IN
         /\ file.recs[Len(file.recs)] = [seq |-> job.seq, base |-> job.ends[d].base]
         /\ setup.powerFails /\ job.at = "main" => file.named /\ file.flushed = Len(file.recs)
  /\ job.at = "authorise" =>
       File(NextGeneration(job.doc)) = FlushedFile([NewFile EXCEPT !.recs = Tail_(job.doc)])

SideInv ==
  /\ TrueLog(main.lines)
  /\ FilesFit
  /\ FilesThere
  /\ Stored
  /\ mode = "corrupt" => swept

\* A step after which the log says nothing new.
QuietLog == TrueLog(main'.lines) /\ Seen' \subseteq Seen /\ Could' \subseteq Could

\* A log left alone says nothing new.
LEMMA QuietSame ==
  ASSUME TrueLog(main.lines), main' = main, setup' = setup
  PROVE  QuietLog
BY DEF QuietLog, Seen, Could, Floor

\* The bounds of the log.
LEMMA FloorFacts ==
  ASSUME Inv
  PROVE  /\ main.lines \in Seq(Lines) /\ Len(main.lines) \in Nat /\ main.flushed \in 0..Len(main.lines)
         /\ Floor \in 0..Len(main.lines) /\ main \in [lines : Seq(Lines), flushed : Nat]
         /\ GoodLog(main.lines, setup.oneAddress)
<1>1. main \in [lines : Seq(Lines), flushed : Nat] /\ main.flushed <= Len(main.lines) /\ GoodLog(main.lines, setup.oneAddress)
  BY DEF Inv, Types
<1>2. main.lines \in Seq(Lines) /\ main.flushed \in Nat BY <1>1
<1> DEFINE L == main.lines
<1>3. Len(L) \in Nat
  <2>1. L \in Seq(Lines) BY <1>2
  <2> HIDE DEF L
  <2> QED BY <2>1
<1> QED BY <1>1, <1>2, <1>3 DEF Floor

\* What recovery would make of the log as it is, is among what it might.
LEMMA RecoveredSeen ==
  ASSUME Inv, SideInv
  PROVE  /\ DocsOf(main.lines) = Recovered.st.docs
         /\ Recovered.st.docs \in Seen /\ Recovered.st.docs \in Could /\ Could \subseteq Seen
         /\ \A docs \in Seen : docs \in DocMaps /\ Follows(docs, Recovered.st.docs)
         /\ Recovered.st.docs \in DocMaps
<1>1. main.lines \in Seq(Lines) /\ Floor \in 0..Len(main.lines) /\ 0 \in 0..Len(main.lines)
      /\ GoodLog(main.lines, setup.oneAddress)
  BY FloorFacts
<1>2. TrueLog(main.lines) BY DEF SideInv
<1>3. Torn \in Lines BY LineKinds
<1>4. DocsOf(main.lines) = Recovered.st.docs BY DEF DocsOf, Recovered
<1>5. DocsOf(main.lines) \in Seen /\ DocsOf(main.lines) \in Could /\ Could \subseteq Seen
  BY <1>1, <1>3, SnapshotsOn DEF Seen, Could
<1>6. \A docs \in Seen : docs \in DocMaps /\ Follows(docs, DocsOf(main.lines)) BY <1>1, <1>2, SnapshotsFollow DEF Seen
<1> QED BY <1>4, <1>5, <1>6

\* Flushing it leaves recovery one log to find.
LEMMA QuietFlushed ==
  ASSUME Inv, SideInv, main' = FlushedMain, setup' = setup
  PROVE  QuietLog /\ Could' = {Recovered.st.docs}
<1>1. main.lines \in Seq(Lines) /\ Floor \in 0..Len(main.lines) /\ main \in [lines : Seq(Lines), flushed : Nat]
  BY FloorFacts
<1>2. main'.lines = main.lines /\ main'.flushed = Len(main.lines) BY <1>1, FlushedFacts
<1>3. TrueLog(main.lines) BY DEF SideInv
<1>4. Torn \in Lines BY LineKinds
<1>5. Floor' = Len(main.lines) BY <1>2 DEF Floor
<1>6. Could' = {DocsOf(main.lines)} BY <1>1, <1>2, <1>4, <1>5, SnapshotsOn DEF Could
<1>7. Seen' = Seen BY <1>2 DEF Seen
<1> QED BY <1>2, <1>3, <1>6, <1>7, RecoveredSeen DEF QuietLog

\* Nor does a line that changes neither documents nor commits.
LEMMA QuietLine ==
  ASSUME Inv, SideInv, NEW x \in Lines, MainIs(Append(main.lines, x)), setup' = setup,
         GoodLog(Append(main.lines, x), setup.oneAddress),
         Replay(Append(main.lines, x)).st.docs = Recovered.st.docs,
         Replay(Append(main.lines, x)).commits = Recovered.commits
  PROVE  QuietLog
<1>1. main.lines \in Seq(Lines) /\ Floor \in 0..Len(main.lines) /\ 0 \in 0..Len(main.lines)
      /\ main \in [lines : Seq(Lines), flushed : Nat] /\ GoodLog(main.lines, setup.oneAddress)
  BY FloorFacts
<1> DEFINE t == Append(main.lines, x)
<1>2. t \in Seq(Lines) BY <1>1
<1>3. main'.lines = t /\ main'.flushed = main.flushed BY <1>1, <1>2, MainIsFacts
<1>4. TrueLog(main.lines) BY DEF SideInv
<1>5. DocsOf(t) = DocsOf(main.lines) /\ Replay(t).commits = Replay(main.lines).commits BY DEF DocsOf, Recovered
<1>6. TrueLog(t) BY <1>1, <1>4, <1>5, TrueKept
<1>7. /\ Snapshots(t, 0) = Snapshots(main.lines, 0) \cup {DocsOf(t)}
      /\ Snapshots(t, Floor) = Snapshots(main.lines, Floor) \cup {DocsOf(t)}
      /\ Snapshots(t, Len(t)) = {DocsOf(t)}
      /\ DocsOf(main.lines) \in Snapshots(main.lines, 0) /\ DocsOf(main.lines) \in Snapshots(main.lines, Floor)
  BY <1>1, SnapshotsOn
<1> HIDE DEF t
<1>8. Seen' \subseteq Seen BY <1>3, <1>5, <1>7 DEF Seen
<1>9. Could' \subseteq Could
  <2>1. Floor' = IF setup.powerFails THEN Floor ELSE Len(t) BY <1>3 DEF Floor
  <2>2. Could' = Snapshots(t, Floor') BY <1>3 DEF Could
  <2> QED BY <2>1, <2>2, <1>5, <1>7 DEF Could
<1> QED BY <1>3, <1>6, <1>8, <1>9 DEF QuietLog

\* Nor does a line cut short.
LEMMA QuietShort ==
  ASSUME Inv, SideInv, MainIs(CutShort(main.lines)), setup' = setup
  PROVE  QuietLog
<1>1. main \in [lines : Seq(Lines), flushed : Nat] /\ GoodLog(main.lines, setup.oneAddress) /\ main.lines \in Seq(Lines)
  BY FloorFacts
<1>2. GoodLog(CutShort(main.lines), setup.oneAddress) /\ Replay(CutShort(main.lines)) = Recovered
  BY <1>1, LogCutShort DEF Recovered
<1>3. CASE EndsTorn(main.lines)
  <2>1. main' = main BY <1>1, <1>3 DEF MainIs, CutShort
  <2> QED BY <2>1, QuietSame DEF SideInv
<1>4. CASE ~EndsTorn(main.lines)
  <2>1. CutShort(main.lines) = Append(main.lines, Torn) BY <1>4 DEF CutShort
  <2>2. Torn \in Lines BY LineKinds
  <2> QED BY <2>1, <2>2, <1>2, QuietLine
<1> QED BY <1>3, <1>4

\* When the log says nothing new and the sidecars it names are kept, they fit it still.
LEMMA FilesKept ==
  ASSUME SideInv, QuietLog, setup' = setup, swept => swept',
         \A docs \in Seen : \A d \in DOMAIN docs :
           NameOf(docs, d) \in DOMAIN side' =>
             /\ NameOf(docs, d) \in DOMAIN side
             /\ Holds(side[NameOf(docs, d)], docs[d].slices, setup.powerFails) =>
                  Holds(side'[NameOf(docs, d)], docs[d].slices, setup.powerFails),
         swept' \/ \A docs \in Could' : \A d \in DOMAIN docs :
           (NameOf(docs, d) \in DOMAIN side /\ (setup.powerFails => side[NameOf(docs, d)].named)) =>
             NameOf(docs, d) \in DOMAIN side' /\ (setup.powerFails => side'[NameOf(docs, d)].named)
  PROVE  TrueLog(main'.lines) /\ FilesFit' /\ FilesThere'
<1>1. TrueLog(main'.lines) /\ Seen' \subseteq Seen /\ Could' \subseteq Could BY DEF QuietLog
<1>2. FilesFit'
  <2> SUFFICES ASSUME NEW docs \in Seen', NEW d \in DOMAIN docs, NameOf(docs, d) \in DOMAIN side'
               PROVE  Holds(side'[NameOf(docs, d)], docs[d].slices, setup.powerFails)
    BY DEF FilesFit, NameOf
  <2>1. docs \in Seen BY <1>1
  <2> QED BY <2>1 DEF SideInv, FilesFit
<1>3. FilesThere'
  <2> SUFFICES ASSUME ~swept', NEW docs \in Could', NEW d \in DOMAIN docs
               PROVE  NameOf(docs, d) \in DOMAIN side' /\ (setup.powerFails => side'[NameOf(docs, d)].named)
    BY DEF FilesThere, NameOf
  <2>1. docs \in Could /\ ~swept BY <1>1
  <2>2. NameOf(docs, d) \in DOMAIN side /\ (setup.powerFails => side[NameOf(docs, d)].named)
    BY <2>1 DEF SideInv, FilesThere
  <2> QED BY <2>2
<1> QED BY <1>1, <1>2, <1>3

\* A file that has grown, or was flushed.
GrownFrom(a, b) ==
  /\ Len(a.recs) <= Len(b.recs) /\ \A i \in 1..Len(a.recs) : b.recs[i] = a.recs[i]
  /\ a.flushed <= b.flushed \/ b.flushed = Len(b.recs)
  /\ a.named => b.named

\* Files that only grew.
LEMMA FilesGrown ==
  ASSUME Inv, SideInv, QuietLog, setup' = setup, swept => swept',
         \A docs \in Seen : \A d \in DOMAIN docs :
           /\ NameOf(docs, d) \in DOMAIN side' => NameOf(docs, d) \in DOMAIN side
           /\ NameOf(docs, d) \in DOMAIN side =>
                NameOf(docs, d) \in DOMAIN side' /\ GrownFrom(side[NameOf(docs, d)], side'[NameOf(docs, d)])
                /\ side'[NameOf(docs, d)] \in SidecarFiles
  PROVE  TrueLog(main'.lines) /\ FilesFit' /\ FilesThere'
<1>1. \A docs \in Seen : docs \in DocMaps BY RecoveredSeen
<1>2. Could' \subseteq Seen BY RecoveredSeen DEF QuietLog
<1>3. ASSUME NEW docs \in Seen, NEW d \in DOMAIN docs, NameOf(docs, d) \in DOMAIN side'
      PROVE  /\ NameOf(docs, d) \in DOMAIN side
             /\ Holds(side[NameOf(docs, d)], docs[d].slices, setup.powerFails) =>
                  Holds(side'[NameOf(docs, d)], docs[d].slices, setup.powerFails)
  <2> DEFINE f == NameOf(docs, d)
             a == side[f]
             b == side'[f]
             s == docs[d].slices
  <2>1. f \in DOMAIN side /\ GrownFrom(a, b) /\ b \in SidecarFiles BY <1>3
  <2>2. a \in SidecarFiles
    <3>1. side \in [DOMAIN side -> SidecarFiles] BY DEF Inv, Types
    <3> QED BY <2>1, <3>1
  <2>3. Len(s) \in Nat BY <1>1, DocsFacts
  <2> HIDE DEF f, a, b, s
  <2>4. a.flushed \in Nat /\ b.flushed \in Nat /\ a.recs \in Seq(Recs) /\ b.recs \in Seq(Recs)
    BY <2>1, <2>2 DEF SidecarFiles
  <2>5. Len(a.recs) \in Nat /\ Len(b.recs) \in Nat
    <3> DEFINE p == a.recs
               q == b.recs
    <3>1. p \in Seq(Recs) /\ q \in Seq(Recs) BY <2>4
    <3> HIDE DEF p, q
    <3>2. Len(p) \in Nat /\ Len(q) \in Nat BY <3>1
    <3> QED BY <3>2 DEF p, q
  <2>6. ASSUME Holds(a, s, setup.powerFails) PROVE Holds(b, s, setup.powerFails)
    <3>1. Len(s) <= Len(b.recs) BY <2>1, <2>3, <2>5, <2>6 DEF Holds, GrownFrom
    <3>2. setup.powerFails => Len(s) <= b.flushed BY <2>1, <2>3, <2>4, <2>6 DEF Holds, GrownFrom
    <3>3. \A i \in 1..Len(s) : i \in 1..Len(a.recs) BY <2>3, <2>5, <2>6 DEF Holds
    <3>4. \A i \in 1..Len(s) : b.recs[i] = [seq |-> s[i].seq, base |-> s[i].base]
      BY <2>1, <2>6, <3>3 DEF Holds, GrownFrom
    <3> QED BY <3>1, <3>2, <3>4 DEF Holds
  <2> QED BY <2>1, <2>6 DEF f, a, b, s
<1>4. \A docs \in Could' : \A d \in DOMAIN docs :
        (NameOf(docs, d) \in DOMAIN side /\ (setup.powerFails => side[NameOf(docs, d)].named)) =>
          NameOf(docs, d) \in DOMAIN side' /\ (setup.powerFails => side'[NameOf(docs, d)].named)
  BY <1>2 DEF GrownFrom
<1> QED BY <1>3, <1>4, FilesKept

\* Nothing happens to the sidecars.
LEMMA SidecarsStay ==
  ASSUME Inv, SideInv, QuietLog, setup' = setup, swept' = swept, side' = side
  PROVE  TrueLog(main'.lines) /\ FilesFit' /\ FilesThere'
<1>1. \A docs \in Seen : \A d \in DOMAIN docs : NameOf(docs, d) \in DOMAIN side' => NameOf(docs, d) \in DOMAIN side
  OBVIOUS
<1> QED BY <1>1, FilesKept

-----------------------------------------------------------------------------
(* Each step keeps the sidecars fitting. *)

\* There is nothing on the disk at first.
LEMMA InitSide == Init => SideInv
<1> SUFFICES ASSUME Init PROVE SideInv OBVIOUS
<1> DEFINE L == <<>>
<1>1. main.lines = L /\ main.flushed = 0 /\ side = <<>> /\ job.at = "idle" /\ mode = "down" BY DEF Init, Idle
<1>2. L \in Seq(Lines) /\ Len(L) = 0 /\ DOMAIN <<>> = {} OBVIOUS
<1>3. Torn \in Lines BY LineKinds
<1>4. TrueLog(L) BY TrueEmpty
<1>5. DocsOf(L) = <<>>
  <2>1. Replay(L) = ReplayStart BY ReplaySteps
  <2> HIDE DEF L
  <2> QED BY <2>1 DEF DocsOf, ReplayStart, Empty
<1> HIDE DEF L
<1>6. Snapshots(L, Len(L)) = {DocsOf(L)}
  <2>1. 0 \in 0..Len(L) BY <1>2
  <2> QED BY <2>1, <1>2, <1>3, SnapshotsOn
<1>7. Floor = 0 BY <1>1, <1>2 DEF Floor
<1>8. Could = {<<>>} BY <1>1, <1>2, <1>5, <1>6, <1>7 DEF Could
<1>9. FilesFit BY <1>1, <1>2 DEF FilesFit
<1>10. FilesThere BY <1>2, <1>8 DEF FilesThere
<1>11. Stored BY <1>1 DEF Stored
<1> QED BY <1>1, <1>4, <1>9, <1>10, <1>11 DEF SideInv

\* No commit writes, no reclamation copies.
LEMMA NothingStored ==
  ASSUME job'.at \in {"idle", "reclaim", "publish", "remove"}
  PROVE  Stored'
BY DEF Stored

\* A step that leaves the sidecars alone.
LEMMA SideKept ==
  ASSUME Inv, SideInv, QuietLog, side' = side, swept' = swept, setup' = setup, Stored',
         mode' = "corrupt" => mode = "corrupt"
  PROVE  SideInv'
<1>1. TrueLog(main'.lines) /\ FilesFit' /\ FilesThere' BY SidecarsStay
<1> QED BY <1>1 DEF SideInv

\* What is stored, if nothing happens to it.
LEMMA StoredSame ==
  ASSUME Stored, side' = side, st' = st, setup' = setup, job' = job
  PROVE  Stored'
BY DEF Stored, File, Sidecar, NextGeneration, Tail_, Confirmed

\* A commit begins in memory.
LEMMA CommitSide == Inv /\ SideInv /\ Commit => SideInv'
<1> SUFFICES ASSUME Inv, SideInv, NEW b, NEW rows, BeginCommit(b, rows) PROVE SideInv' BY DEF Commit
<1>1. main' = main /\ side' = side /\ mode' = mode /\ st' = st /\ swept' = swept /\ setup' = setup
  BY DEF BeginCommit, disk, past
<1>2. QuietLog BY <1>1, QuietSame DEF SideInv
<1>3. job = Idle BY DEF BeginCommit, Ready
<1>4. CASE job' = job
  <2>1. job'.at = "idle" BY <1>3, <1>4 DEF Idle
  <2> QED BY <1>1, <1>2, <2>1, NothingStored, SideKept
<1>5. CASE job' = [at    |-> IF Writes(b) = {} THEN "main" ELSE "content",
                   seq   |-> st.last + 1,
                   batch |-> b,
                   todo  |-> Writes(b),
                   ends  |-> <<>>,
                   plan  |-> Plan(b, rows, st.last + 1),
                   sent  |-> 0]
  <2>1. job'.ends = <<>> /\ job'.at # "authorise" BY <1>5
  <2>2. DOMAIN <<>> = {} OBVIOUS
  <2>3. DOMAIN job'.ends = {} BY <2>1, <2>2
  <2>4. Stored' BY <2>1, <2>3 DEF Stored
  <2> QED BY <1>1, <1>2, <2>4, SideKept
<1> QED BY <1>4, <1>5 DEF BeginCommit

\* Publishing touches no file.
LEMMA PublishSide == Inv /\ SideInv /\ Publish => SideInv'
<1> SUFFICES ASSUME Inv, SideInv, Publish PROVE SideInv' OBVIOUS
<1>1. main' = main /\ side' = side /\ mode' = mode /\ swept' = swept /\ setup' = setup
  BY DEF Publish, disk, past
<1>2. QuietLog BY <1>1, QuietSame DEF SideInv
<1>3. job'.at \in {"idle", "reclaim"}
  <2> DEFINE docs == {d \in DOMAIN job.batch :
                          (Writes(job.batch) \cup Retires(job.batch)) \cap {d} # {}
                          /\ Reclaimable(st', d)}
  <2>1. job' = Reclaiming(docs) BY DEF Publish
  <2> HIDE DEF docs
  <2> QED BY <2>1 DEF Reclaiming, Idle
<1> QED BY <1>1, <1>2, <1>3, NothingStored, SideKept

\* A flush that fails late takes nothing back that was flushed.
LEMMA FlushFailsLateSide == Inv /\ SideInv /\ FlushFailsLate => SideInv'
<1> SUFFICES ASSUME Inv, SideInv, FlushFailsLate PROVE SideInv' OBVIOUS
<1>1. main' = main /\ side' = side /\ mode' = mode /\ st' = st /\ job' = job /\ swept' = swept /\ setup' = setup
  BY DEF FlushFailsLate, disk, past
<1>2. QuietLog BY <1>1, QuietSame DEF SideInv
<1>3. Stored' BY <1>1, StoredSame DEF SideInv
<1> QED BY <1>1, <1>2, <1>3, SideKept

\* A kill leaves the files as they are.
LEMMA KillSide == Inv /\ SideInv /\ Kill => SideInv'
<1> SUFFICES ASSUME Inv, SideInv, Kill PROVE SideInv' OBVIOUS
<1>1. main' = main /\ side' = side /\ mode' = "down" /\ job'.at = "idle" /\ swept' = swept /\ setup' = setup
  BY DEF Kill, Gone, disk, past, Idle
<1>2. QuietLog BY <1>1, QuietSame DEF SideInv
<1> QED BY <1>1, <1>2, NothingStored, SideKept

\* Closing flushes the log.
LEMMA CloseSide == Inv /\ SideInv /\ Close => SideInv'
<1> SUFFICES ASSUME Inv, SideInv, Close PROVE SideInv' OBVIOUS
<1>1. side' = side /\ mode' \in {"closed", "down"} /\ job' = job /\ job = Idle /\ swept' = swept /\ setup' = setup
  BY DEF Close, Ready, past
<1>2. main' = main \/ main' = FlushedMain BY DEF Close
<1>3. QuietLog BY <1>1, <1>2, QuietSame, QuietFlushed DEF SideInv
<1>4. job'.at = "idle" BY <1>1 DEF Idle
<1> QED BY <1>1, <1>3, <1>4, NothingStored, SideKept

\* A Mint line names no document.
LEMMA MintRawSide == Inv /\ SideInv /\ MintRaw => SideInv'
<1> SUFFICES ASSUME Inv, SideInv, MintRaw PROVE SideInv' OBVIOUS
<1> DEFINE high == st.next + IdBlock - 1
<1>1. /\ Ready /\ ~poison /\ side' = side /\ mode' = mode /\ job' = job /\ job = Idle /\ swept' = swept /\ setup' = setup
  BY DEF MintRaw, Ready
<1>2. job'.at = "idle" BY <1>1 DEF Idle
<1>3. Clean BY <1>1, ReadyFacts DEF Settled
<1>4. main' = main \/ MainIs(CutShort(main.lines)) \/ MainIs(Written(main.lines, Mint(high))) BY DEF MintRaw
<1>5. GoodLog(main.lines, setup.oneAddress) BY FloorFacts
<1>6. CASE MainIs(Written(main.lines, Mint(high)))
  <2> DEFINE x == Mint(high)
             t == Append(main.lines, x)
  <2>1. high \in Nat
    <3>1. st.next \in Nat /\ IdBlock \in Nat \ {0} BY BlockAssumption DEF Inv, Types, States
    <3> QED BY <3>1
  <2>2. ~EndsTorn(main.lines) /\ Replay(main.lines).pending = <<>> BY <1>3 DEF Clean, Recovered
  <2> HIDE DEF high
  <2>3. MainIs(t) BY <1>6, <2>2, WrittenWhole
  <2>4. x \in Lines BY <2>1, LineKinds DEF Mint, MintLines, Lines
  <2>5. GoodLog(t, setup.oneAddress) /\ Replay(t).st = Spend(Recovered.st, high) /\ Replay(t).commits = Recovered.commits
    BY <1>5, <2>1, <2>2, LogMint DEF Recovered
  <2>6. Spend(Recovered.st, high).docs = Recovered.st.docs
    <3>1. Sound(Recovered.st, setup.oneAddress) /\ Recovered.st.reserved < Recovered.st.next
      BY <1>5, LogWhole DEF Whole, Recovered
    <3> QED BY <2>1, <3>1, SpendFacts
  <2>7. QuietLog BY <1>1, <2>3, <2>4, <2>5, <2>6, QuietLine
  <2> QED BY <1>1, <1>2, <2>7, NothingStored, SideKept
<1>7. CASE main' = main \/ MainIs(CutShort(main.lines))
  <2>1. QuietLog BY <1>1, <1>7, QuietSame, QuietShort DEF SideInv
  <2> QED BY <1>1, <1>2, <2>1, NothingStored, SideKept
<1> QED BY <1>4, <1>6, <1>7

-----------------------------------------------------------------------------
(* Names. *)

\* No point of the log names a generation after the latest, or a document that is not there.
LEMMA OldNames ==
  ASSUME Inv, SideInv, NEW docs \in Seen, NEW d \in DOMAIN docs
  PROVE  /\ d \in DOMAIN Recovered.st.docs /\ d \in Docs
         /\ docs[d].generation \in Nat /\ Recovered.st.docs[d].generation \in Nat
         /\ docs[d].generation <= Recovered.st.docs[d].generation
         /\ Len(docs[d].slices) \in Nat /\ Len(Recovered.st.docs[d].slices) \in Nat
         /\ docs[d].generation = Recovered.st.docs[d].generation =>
              /\ Len(docs[d].slices) <= Len(Recovered.st.docs[d].slices)
              /\ \A i \in 1..Len(docs[d].slices) : docs[d].slices[i] = Recovered.st.docs[d].slices[i]
<1>1. docs \in DocMaps /\ Follows(docs, Recovered.st.docs) /\ Recovered.st.docs \in DocMaps BY RecoveredSeen
<1> DEFINE new == Recovered.st.docs
<1>2. /\ d \in DOMAIN new
      /\ docs[d].generation <= new[d].generation
      /\ docs[d].generation = new[d].generation =>
           /\ Len(docs[d].slices) <= Len(new[d].slices)
           /\ \A i \in 1..Len(docs[d].slices) : docs[d].slices[i] = new[d].slices[i]
  <2> HIDE DEF new
  <2>1. Follows(docs, new) BY <1>1 DEF new
  <2> QED BY <2>1 DEF Follows
<1>3. docs[d].generation \in Nat /\ Len(docs[d].slices) \in Nat /\ d \in Docs BY <1>1, DocsFacts
<1>4. new[d].generation \in Nat /\ Len(new[d].slices) \in Nat
  <2> HIDE DEF new
  <2>1. new \in DocMaps BY <1>1 DEF new
  <2> QED BY <1>2, <2>1, DocsFacts
<1> QED BY <1>2, <1>3, <1>4

\* The sidecars of the open store's documents, which it has not lost.
LEMMA LiveFiles ==
  ASSUME Inv, SideInv, st.docs = Recovered.st.docs, NEW d \in DOMAIN st.docs,
         Len(File(Sidecar(d)).recs) >= Len(SlicesOf(st.docs, d))
  PROVE  /\ d \in Docs /\ Sidecar(d) = NameOf(st.docs, d) /\ Sidecar(d) \in DOMAIN side
         /\ File(Sidecar(d)) = side[Sidecar(d)] /\ side[Sidecar(d)] \in SidecarFiles
         /\ Holds(side[Sidecar(d)], st.docs[d].slices, setup.powerFails)
         /\ st.docs[d].slices \in Seq(Slices) /\ Len(st.docs[d].slices) \in Nat \ {0} /\ Numbered(st.docs[d].slices)
         /\ Confirmed(d) = Len(st.docs[d].slices)
<1>1. Sound(st, setup.oneAddress) BY DEF Inv, Memory
<1>2. /\ End(st.docs[d]) = Len(st.docs[d].slices) /\ st.docs[d].slices \in Seq(Slices) /\ st.docs[d].slices # <<>>
      /\ Numbered(st.docs[d].slices) /\ Len(st.docs[d].slices) \in Nat /\ Len(st.docs[d].slices) > 0 /\ d \in Docs
  BY <1>1, ConfirmedIs
<1>3. Sidecar(d) = NameOf(st.docs, d) BY DEF Sidecar, NameOf
<1>4. SlicesOf(st.docs, d) = st.docs[d].slices BY DEF SlicesOf
<1>5. Sidecar(d) \in DOMAIN side
  <2>1. CASE Sidecar(d) \notin DOMAIN side
    <3>1. File(Sidecar(d)).recs = <<>> BY <2>1 DEF File, NewFile
    <3>2. Len(<<>>) = 0 OBVIOUS
    <3>3. Len(File(Sidecar(d)).recs) = 0 BY <3>1, <3>2
    <3> QED BY <3>3, <1>2, <1>4
  <2> QED BY <2>1
<1>6. File(Sidecar(d)) = side[Sidecar(d)] BY <1>5 DEF File
<1>7. side[Sidecar(d)] \in SidecarFiles
  <2>1. side \in [DOMAIN side -> SidecarFiles] BY DEF Inv, Types
  <2> QED BY <1>5, <2>1
<1>8. st.docs \in Seen BY RecoveredSeen
<1>9. Holds(side[Sidecar(d)], st.docs[d].slices, setup.powerFails) BY <1>3, <1>5, <1>8 DEF SideInv, FilesFit
<1> QED BY <1>2, <1>3, <1>5, <1>6, <1>7, <1>9 DEF Confirmed

\* The other hypothesis: where power fails, the store flushes.
TierIsMet == \A s \in Setups : s.powerFails => s.flushes

\* A sidecar with other records.
LEMMA NewRecords ==
  ASSUME NEW x \in SidecarFiles, NEW q \in Seq(Recs)
  PROVE  LET y == [x EXCEPT !.recs = q] IN
         y \in SidecarFiles /\ y.recs = q /\ y.flushed = x.flushed /\ y.named = x.named
BY DEF SidecarFiles

\* One record appended to a file makes it longer.
LEMMA GrownBy ==
  ASSUME NEW x \in SidecarFiles, NEW r \in Recs
  PROVE  GrownFrom(x, [x EXCEPT !.recs = Append(x.recs, r)])
<1> DEFINE q == Append(x.recs, r)
           y == [x EXCEPT !.recs = q]
           p == x.recs
<1>1. p \in Seq(Recs) /\ x.flushed \in Nat BY DEF SidecarFiles
<1>2. q \in Seq(Recs) /\ Len(q) = Len(p) + 1 /\ Len(p) \in Nat /\ \A i \in 1..Len(p) : q[i] = p[i]
  <2> HIDE DEF p
  <2>1. LET z == Append(p, r) IN
        z \in Seq(Recs) /\ Len(z) = Len(p) + 1 /\ Len(p) \in Nat /\ \A i \in 1..Len(p) : z[i] = p[i]
    BY <1>1
  <2> QED BY <2>1 DEF p
<1> HIDE DEF q
<1>3. y.recs = q /\ y.flushed = x.flushed /\ y.named = x.named BY <1>2, NewRecords
<1> HIDE DEF y
<1>4. GrownFrom(x, y) BY <1>1, <1>2, <1>3 DEF GrownFrom, p
<1> QED BY <1>4 DEF y, q

\* A flushed file has all it had.
LEMMA GrownFlushed ==
  ASSUME NEW x \in SidecarFiles
  PROVE  /\ GrownFrom(x, FlushedFile(x)) /\ FlushedFile(x) \in SidecarFiles
         /\ FlushedFile(x).recs = x.recs /\ FlushedFile(x).flushed = Len(x.recs) /\ FlushedFile(x).named
<1> DEFINE p == x.recs
<1>1. p \in Seq(Recs) BY DEF SidecarFiles
<1>2. Len(p) \in Nat
  <2> HIDE DEF p
  <2> QED BY <1>1
<1>3. FlushedFile(x).recs = p /\ FlushedFile(x).flushed = Len(p) /\ FlushedFile(x).named /\ FlushedFile(x) \in SidecarFiles
  BY <1>2 DEF FlushedFile, SidecarFiles
<1>4. GrownFrom(x, FlushedFile(x)) BY <1>2, <1>3 DEF GrownFrom
<1> QED BY <1>3, <1>4

\* A record appended to a sidecar is one that no slice describes yet, and where power fails
\* the commit goes on to flush it.
LEMMA AppendContentSide == TierIsMet /\ Inv /\ SideInv /\ AppendContent => SideInv'
<1> SUFFICES ASSUME TierIsMet, Inv, SideInv, AppendContent PROVE SideInv' OBVIOUS
<1> DEFINE d == First(job.todo)
           f == Sidecar(d)
           x == File(f)
           base == job.batch[d].write # "delta"
           rec == [seq |-> job.seq, base |-> base]
           recs == Append(x.recs, rec)
           last == [end |-> Len(recs), base |-> base]
<1>1. /\ mode = "open" /\ job.at = "content"
      /\ UNCHANGED <<main, wrote, issued, lost, reissued, swept, setup>>
  BY DEF AppendContent, past
<1>2. job \in CommitJobs /\ job # Idle /\ ~poison /\ Committing BY <1>1, CommittingFacts
<1>3. Types BY DEF Inv
<1>4. job.todo # {} /\ job.todo \in SUBSET Docs BY <1>1, <1>2 DEF Committing, CommitJobs
<1>5. d \in job.todo /\ d \in Docs BY <1>4, FirstFacts
<1>6. base \in BOOLEAN /\ job.seq \in Nat BY <1>2 DEF CommitJobs
<1>7. x \in SidecarFiles /\ x.recs \in Seq(Recs) /\ f \in SidecarNames BY <1>3, <1>5, FileTypes DEF SidecarNames
<1>8. Filed(side) BY <1>3 DEF Types, Filed
<1>9. rec \in Recs /\ Torn \in Recs
  <2> HIDE DEF base
  <2> QED BY <1>6 DEF Recs
<1>10. \A e \in Docs : e # d => Sidecar(e) # f BY <1>3, <1>5, FileTypes
<1>11. mode' = "open" /\ st' = st BY <1>1 DEF AppendContent, PoisonedBy
<1>12. QuietLog BY <1>1, QuietSame DEF SideInv
<1>13. st.docs = Recovered.st.docs BY <1>1, <1>2 DEF Committing, Agrees
<1>14. Lengths(DOMAIN job.ends) /\ d \notin DOMAIN job.ends BY <1>2, <1>5 DEF Committing
<1> HIDE DEF d, f, x, rec
\* The file is new to the log, or grows.
<1>15. \A docs \in Seen : \A e \in DOMAIN docs : NameOf(docs, e) = f => f \in DOMAIN side
  <2> SUFFICES ASSUME NEW docs \in Seen, NEW e \in DOMAIN docs, NameOf(docs, e) = f PROVE f \in DOMAIN side OBVIOUS
  <2>1. e \in DOMAIN Recovered.st.docs /\ e \in Docs BY OldNames
  <2>2. f[1] = e BY DEF NameOf
  <2>3. f[1] = d BY <1>3, <1>5, FileTypes DEF f
  <2>4. d \in DOMAIN st.docs BY <2>1, <2>2, <2>3, <1>13
  <2>5. Len(File(Sidecar(d)).recs) = Len(SlicesOf(st.docs, d)) + 0 BY <1>5, <1>14 DEF Lengths
  <2>6. Len(SlicesOf(st.docs, d)) \in Nat
    <3>1. st.docs \in DocMaps BY <1>3 DEF Types, States, DocMaps
    <3> QED BY <3>1, <1>5, DocsFacts
  <2>7. Len(File(Sidecar(d)).recs) >= Len(SlicesOf(st.docs, d)) BY <2>5, <2>6
  <2>8. Sidecar(d) \in DOMAIN side BY <2>4, <2>7, <1>13, LiveFiles
  <2> QED BY <2>8 DEF f
<1>16. ASSUME NEW r \in Recs, AppendTo(f, Append(x.recs, r))
       PROVE  /\ TrueLog(main'.lines) /\ FilesFit' /\ FilesThere'
              /\ FileAmong(side', f).recs = Append(x.recs, r)
              /\ \A g : g # f => FileAmong(side', g) = FileAmong(side, g)
  <2> DEFINE q == Append(x.recs, r)
             y == [x EXCEPT !.recs = q]
  <2>1. q \in Seq(Recs)
    <3> DEFINE p == x.recs
    <3>1. p \in Seq(Recs) BY <1>7
    <3> HIDE DEF p
    <3>2. Append(p, r) \in Seq(Recs) BY <3>1
    <3> QED BY <3>2 DEF p
  <2>2. y \in SidecarFiles /\ y.recs = q BY <2>1, <1>7, NewRecords
  <2>3. side' = Put(side, f, y) BY <1>16 DEF AppendTo, x
  <2>4. GrownFrom(x, y) BY <1>7, GrownBy
  <2> HIDE DEF q, y
  <2>5. DOMAIN side' = DOMAIN side \cup {f} /\ side'[f] = y /\ \A g \in DOMAIN side : g # f => side'[g] = side[g]
    BY <2>3 DEF Put
  <2>6. f \in DOMAIN side => x = side[f] BY DEF x, File
  <2>7. \A g \in DOMAIN side : side[g] \in SidecarFiles BY <1>8 DEF Filed
  <2>8. \A g \in SidecarFiles : GrownFrom(g, g)
    <3> TAKE g \in SidecarFiles
    <3> DEFINE p == g.recs
    <3>1. p \in Seq(Recs) /\ g.flushed \in Nat BY DEF SidecarFiles
    <3>2. Len(p) \in Nat
      <4> HIDE DEF p
      <4> QED BY <3>1
    <3> QED BY <3>1, <3>2 DEF GrownFrom
  <2>9. \A docs \in Seen : \A e \in DOMAIN docs :
           /\ NameOf(docs, e) \in DOMAIN side' => NameOf(docs, e) \in DOMAIN side
           /\ NameOf(docs, e) \in DOMAIN side =>
                NameOf(docs, e) \in DOMAIN side' /\ GrownFrom(side[NameOf(docs, e)], side'[NameOf(docs, e)])
                /\ side'[NameOf(docs, e)] \in SidecarFiles
    <3> TAKE docs \in Seen
    <3> TAKE e \in DOMAIN docs
    <3> DEFINE g == NameOf(docs, e)
    <3>1. CASE g = f BY <3>1, <1>15, <2>2, <2>4, <2>5, <2>6
    <3>2. CASE g # f BY <3>2, <2>5, <2>7, <2>8
    <3> QED BY <3>1, <3>2
  <2>10. TrueLog(main'.lines) /\ FilesFit' /\ FilesThere' BY <2>9, <1>1, <1>12, FilesGrown
  <2>11. /\ FileAmong(side', f) = y
         /\ \A g : g # f => FileAmong(side', g) = FileAmong(side, g)
    <3> DEFINE t == side'
    <3>1. t = Put(side, f, y) BY <2>3
    <3> HIDE DEF t
    <3>2. /\ FileAmong(t, f) = y
          /\ \A g : g # f => FileAmong(t, g) = FileAmong(side, g)
      BY <3>1, <2>2, <1>7, <1>8, SidecarPut
    <3> QED BY <3>2 DEF t
  <2> QED BY <2>2, <2>10, <2>11 DEF q
<1>17. CASE PoisonedBy /\ (AppendTo(f, Append(x.recs, Torn)) \/ side' = side)
  <2>1. job'.at = "idle" BY <1>17 DEF PoisonedBy, Idle
  <2>2. Stored' BY <2>1, NothingStored
  <2>3. TrueLog(main'.lines) /\ FilesFit' /\ FilesThere' BY <1>1, <1>9, <1>12, <1>16, <1>17, SidecarsStay
  <2> QED BY <2>2, <2>3, <1>11 DEF SideInv
<1>18. CASE /\ AppendTo(f, recs)
            /\ job' = [job EXCEPT
                 !.todo = @ \ {d},
                 !.ends = Put(@, d, last),
                 !.at = AfterContent(job.todo # {d})]
  <2> DEFINE at == AfterContent(job.todo # {d})
             ends == Put(job.ends, d, last)
             todo == job.todo \ {d}
  <2>1. /\ TrueLog(main'.lines) /\ FilesFit' /\ FilesThere'
        /\ FileAmong(side', f).recs = recs
        /\ \A g : g # f => FileAmong(side', g) = FileAmong(side, g)
    BY <1>9, <1>16, <1>18
  <2>2. job' = [job EXCEPT !.todo = todo, !.ends = ends, !.at = at] BY <1>18
  <2>3. DOMAIN ends = DOMAIN job.ends \cup {d} /\ ends[d] = last /\ \A e \in DOMAIN job.ends : ends[e] = job.ends[e]
    BY <1>14 DEF Put
  <2>4. last.base = base OBVIOUS
  <2>5. Len(recs) \in Nat \ {0} /\ recs[Len(recs)] = rec
    <3> DEFINE p == x.recs
    <3>1. p \in Seq(Recs) BY <1>7
    <3> HIDE DEF p
    <3>2. LET z == Append(p, rec) IN Len(z) \in Nat \ {0} /\ z[Len(z)] = rec BY <3>1, <1>9
    <3> QED BY <3>2 DEF p
  <2> HIDE DEF at, ends, todo, last, recs, base
  <2>6. job'.at = at /\ job'.ends = ends /\ job'.seq = job.seq BY <2>2, <1>2 DEF CommitJobs
  <2>7. at \in {"content", "flush", "main"} /\ (at = "main" => ~setup.flushes)
    BY DEF at, AfterContent
  <2>8. \A g : File(g)' = FileAmong(side', g) BY DEF File, FileAmong
  <2>9. \A e \in Docs : Sidecar(e)' = Sidecar(e) BY <1>11 DEF Sidecar
  <2>10. DOMAIN job.ends \subseteq Docs
    <3> DEFINE V == [end : Nat, base : BOOLEAN]
    <3>1. job.ends \in Maps(Docs, V) BY <1>2 DEF CommitJobs, Ends
    <3> HIDE DEF V
    <3> QED BY <3>1, MapFacts
  <2>11. \A e \in DOMAIN ends :
           File(Sidecar(e))'.recs[Len(File(Sidecar(e))'.recs)] = [seq |-> job.seq, base |-> ends[e].base]
    <3> TAKE e \in DOMAIN ends
    <3>1. CASE e = d
      <4>0. Sidecar(e) = f /\ e \in Docs BY <3>1, <1>5 DEF f
      <4>1. File(Sidecar(e))'.recs = recs BY <4>0, <2>1, <2>8, <2>9
      <4>2. rec = [seq |-> job.seq, base |-> ends[d].base] BY <2>3, <2>4 DEF rec
      <4> QED BY <3>1, <4>1, <4>2, <2>5
    <3>2. CASE e # d
      <4>1. e \in DOMAIN job.ends /\ e \in Docs /\ ends[e] = job.ends[e] BY <3>2, <2>3, <2>10
      <4>2. Sidecar(e) # f BY <3>2, <4>1, <1>10
      <4>3. File(Sidecar(e))' = File(Sidecar(e)) BY <4>1, <4>2, <2>1, <2>8, <2>9, <1>3, FileTypes
      <4>4. File(Sidecar(e)).recs[Len(File(Sidecar(e)).recs)] = [seq |-> job.seq, base |-> job.ends[e].base]
        BY <4>1, <1>1 DEF SideInv, Stored
      <4> QED BY <4>1, <4>3, <4>4
    <3> QED BY <3>1, <3>2
  <2>12. setup.powerFails => at # "main" BY <2>7, <1>3 DEF TierIsMet, Types
  <2>13. Stored'
    <3>1. \A e \in DOMAIN job'.ends :
             File(Sidecar(e))'.recs[Len(File(Sidecar(e))'.recs)] = [seq |-> job'.seq, base |-> job'.ends[e].base]
      BY <2>6, <2>11
    <3>2. job'.at # "authorise" /\ (setup'.powerFails => job'.at # "main") BY <2>6, <2>7, <2>12, <1>1
    <3> QED BY <3>1, <3>2 DEF Stored
  <2> QED BY <2>1, <2>13, <1>11 DEF SideInv
<1> QED BY <1>17, <1>18 DEF AppendContent, d, f, x, rec

\* A file is as long as itself.
LEMMA GrownSelf == \A x \in SidecarFiles : GrownFrom(x, x)
<1> TAKE x \in SidecarFiles
<1> DEFINE p == x.recs
<1>1. p \in Seq(Recs) /\ x.flushed \in Nat BY DEF SidecarFiles
<1>2. Len(p) \in Nat
  <2> HIDE DEF p
  <2> QED BY <1>1
<1> QED BY <1>1, <1>2 DEF GrownFrom

\* The sidecars a commit has written are there.
LEMMA WrittenThere ==
  ASSUME Inv, mode = "open", job.at \in {"content", "flush", "main", "publish"}, NEW d \in DOMAIN job.ends
  PROVE  /\ d \in Docs /\ Sidecar(d) \in DOMAIN side /\ File(Sidecar(d)) = side[Sidecar(d)]
         /\ side[Sidecar(d)] \in SidecarFiles
         /\ Len(side[Sidecar(d)].recs) = Len(SlicesOf(st.docs, d)) + 1
         /\ SlicesOf(st.docs, d) \in Seq(Slices) /\ Len(SlicesOf(st.docs, d)) \in Nat
<1>1. job \in CommitJobs /\ Committing /\ Types BY CommittingFacts DEF Inv
<1>2. d \in Docs
  <2> DEFINE V == [end : Nat, base : BOOLEAN]
  <2>1. job.ends \in Maps(Docs, V) BY <1>1 DEF CommitJobs, Ends
  <2> HIDE DEF V
  <2> QED BY <2>1, MapFacts
<1>3. st.docs \in DocMaps BY <1>1 DEF Types, States, DocMaps
<1>4. SlicesOf(st.docs, d) \in Seq(Slices) /\ Len(SlicesOf(st.docs, d)) \in Nat BY <1>2, <1>3, DocsFacts
<1>5. Len(File(Sidecar(d)).recs) = Len(SlicesOf(st.docs, d)) + 1 BY <1>1, <1>2 DEF Committing, Lengths
<1>6. Sidecar(d) \in DOMAIN side
  <2>1. CASE Sidecar(d) \notin DOMAIN side
    <3>1. File(Sidecar(d)).recs = <<>> BY <2>1 DEF File, NewFile
    <3>2. Len(<<>>) = 0 OBVIOUS
    <3>3. Len(File(Sidecar(d)).recs) = 0 BY <3>1, <3>2
    <3> QED BY <3>3, <1>4, <1>5
  <2> QED BY <2>1
<1>7. File(Sidecar(d)) = side[Sidecar(d)] BY <1>6 DEF File
<1>8. side[Sidecar(d)] \in SidecarFiles BY <1>1, <1>6 DEF Types
<1> QED BY <1>2, <1>4, <1>5, <1>6, <1>7, <1>8

\* The barrier makes what a commit has written as durable as its marker will need.
LEMMA FlushSidecarsSide == Inv /\ SideInv /\ FlushSidecars => SideInv'
<1> SUFFICES ASSUME Inv, SideInv, FlushSidecars PROVE SideInv' OBVIOUS
<1>1. /\ mode = "open" /\ job.at = "flush"
      /\ UNCHANGED <<main, wrote, issued, lost, reissued, swept, setup>>
  BY DEF FlushSidecars, past
<1>2. job \in CommitJobs /\ job # Idle /\ ~poison /\ Committing BY <1>1, CommittingFacts
<1>3. Types /\ side \in [DOMAIN side -> SidecarFiles] BY DEF Inv, Types
<1>4. mode' = "open" /\ st' = st BY <1>1 DEF FlushSidecars, PoisonedBy
<1>5. QuietLog BY <1>1, QuietSame DEF SideInv
<1>6. CASE PoisonedBy /\ side' = side
  <2>1. job'.at = "idle" BY <1>6 DEF PoisonedBy, Idle
  <2> QED BY <1>1, <1>4, <1>5, <1>6, <2>1, NothingStored, SideKept
<1>7. CASE /\ side' = [f \in DOMAIN side |-> IF f \in {Sidecar(d) : d \in Writes(job.batch)}
                                          THEN FlushedFile(side[f]) ELSE side[f]]
           /\ job' = [job EXCEPT !.at = "main"]
  <2> DEFINE some == {Sidecar(d) : d \in Writes(job.batch)}
  <2>1. side' = [f \in DOMAIN side |-> IF f \in some THEN FlushedFile(side[f]) ELSE side[f]] BY <1>7
  <2>2. \A d \in DOMAIN job.ends : Sidecar(d) \in some BY <1>2 DEF Committing
  <2> HIDE DEF some
  <2>3. \A f \in DOMAIN side : f \in DOMAIN side' /\ GrownFrom(side[f], side'[f]) /\ side'[f] \in SidecarFiles
    BY <2>1, <1>3, GrownFlushed, GrownSelf
  <2>4. DOMAIN side' = DOMAIN side BY <2>1
  <2>5. TrueLog(main'.lines) /\ FilesFit' /\ FilesThere' BY <2>3, <2>4, <1>1, <1>5, FilesGrown
  <2>6. job'.at = "main" /\ job'.ends = job.ends /\ job'.seq = job.seq BY <1>2, <1>7 DEF CommitJobs
  <2>7. Stored'
    <3> SUFFICES ASSUME NEW d \in DOMAIN job'.ends
                 PROVE  LET file == File(Sidecar(d))' IN
                        /\ file.recs[Len(file.recs)] = [seq |-> job.seq, base |-> job.ends[d].base]
                        /\ file.named /\ file.flushed = Len(file.recs)
      BY <2>6 DEF Stored
    <3>1. d \in DOMAIN job.ends BY <2>6
    <3>2. Sidecar(d) \in DOMAIN side /\ File(Sidecar(d)) = side[Sidecar(d)] /\ side[Sidecar(d)] \in SidecarFiles
      BY <3>1, <1>1, WrittenThere
    <3>3. side'[Sidecar(d)] = FlushedFile(side[Sidecar(d)]) BY <3>1, <3>2, <2>1, <2>2
    <3>4. Sidecar(d)' = Sidecar(d) BY <1>4 DEF Sidecar
    <3>5. File(Sidecar(d))' = FlushedFile(side[Sidecar(d)]) BY <3>2, <3>3, <3>4, <2>4 DEF File
    <3>6. File(Sidecar(d)).recs[Len(File(Sidecar(d)).recs)] = [seq |-> job.seq, base |-> job.ends[d].base]
      BY <3>1, <1>1 DEF SideInv, Stored
    <3> QED BY <3>2, <3>5, <3>6, GrownFlushed
  <2> QED BY <2>5, <2>7, <1>4 DEF SideInv
<1> QED BY <1>6, <1>7 DEF FlushSidecars

-----------------------------------------------------------------------------
(* Lines that change the documents. *)

\* One more line is one more point.
LEMMA NewPoint ==
  ASSUME Inv, NEW x \in Lines, MainIs(Append(main.lines, x)), setup' = setup
  PROVE  /\ main'.lines = Append(main.lines, x)
         /\ Seen' \subseteq Seen \cup {DocsOf(Append(main.lines, x))}
         /\ Could' \subseteq Could \cup {DocsOf(Append(main.lines, x))}
<1>1. main.lines \in Seq(Lines) /\ Floor \in 0..Len(main.lines) /\ 0 \in 0..Len(main.lines)
      /\ main \in [lines : Seq(Lines), flushed : Nat]
  BY FloorFacts
<1> DEFINE t == Append(main.lines, x)
<1>2. t \in Seq(Lines) BY <1>1
<1>3. main'.lines = t /\ main'.flushed = main.flushed BY <1>1, <1>2, MainIsFacts
<1>4. /\ Snapshots(t, 0) = Snapshots(main.lines, 0) \cup {DocsOf(t)}
      /\ Snapshots(t, Floor) = Snapshots(main.lines, Floor) \cup {DocsOf(t)}
      /\ Snapshots(t, Len(t)) = {DocsOf(t)}
  BY <1>1, SnapshotsOn
<1> HIDE DEF t
<1>5. Seen' = Seen \cup {DocsOf(t)} BY <1>3, <1>4 DEF Seen
<1>6. Could' \subseteq Could \cup {DocsOf(t)}
  <2>1. Floor' = IF setup.powerFails THEN Floor ELSE Len(t) BY <1>3 DEF Floor
  <2>2. Could' = Snapshots(t, Floor') BY <1>3 DEF Could
  <2> QED BY <2>1, <2>2, <1>4 DEF Could
<1> QED BY <1>3, <1>5, <1>6 DEF t

\* The sidecars fit it if those that it names are there and do.
LEMMA FilesFitNew ==
  ASSUME SideInv, NEW new, setup' = setup, swept' = swept, side' = side, TrueLog(main'.lines),
         Seen' \subseteq Seen \cup {new}, Could' \subseteq Could \cup {new},
         \A d \in DOMAIN new :
           /\ NameOf(new, d) \in DOMAIN side
           /\ Holds(side[NameOf(new, d)], new[d].slices, setup.powerFails)
           /\ setup.powerFails /\ ~swept => side[NameOf(new, d)].named
  PROVE  TrueLog(main'.lines) /\ FilesFit' /\ FilesThere'
<1>1. FilesFit'
  <2> SUFFICES ASSUME NEW docs \in Seen', NEW d \in DOMAIN docs, NameOf(docs, d) \in DOMAIN side
               PROVE  Holds(side[NameOf(docs, d)], docs[d].slices, setup.powerFails)
    BY DEF FilesFit, NameOf
  <2>1. CASE docs \in Seen BY <2>1 DEF SideInv, FilesFit
  <2>2. CASE docs = new BY <2>2
  <2> QED BY <2>1, <2>2
<1>2. FilesThere'
  <2> SUFFICES ASSUME ~swept, NEW docs \in Could', NEW d \in DOMAIN docs
               PROVE  NameOf(docs, d) \in DOMAIN side /\ (setup.powerFails => side[NameOf(docs, d)].named)
    BY DEF FilesThere, NameOf
  <2>1. CASE docs \in Could BY <2>1 DEF SideInv, FilesThere
  <2>2. CASE docs = new BY <2>2
  <2> QED BY <2>1, <2>2
<1> QED BY <1>1, <1>2

\* A log whose plan is written is ready for the marker.
LEMMA MarkerFits ==
  ASSUME Inv, mode = "open", job.at = "main", ~(job.sent < Len(job.plan))
  PROVE  /\ AllWritten(main.lines, setup.oneAddress, job.plan, Recovered.st, job.seq,
                       Creates(job.batch), Retires(job.batch), job.ends)
         /\ st.docs = Recovered.st.docs
<1> DEFINE one == setup.oneAddress
           L == main.lines
           r == Recovered
           C == Creates(job.batch)
           X == Retires(job.batch)
           plan == job.plan
           seq == job.seq
           ends == job.ends
<1>1. job \in CommitJobs /\ Committing BY CommittingFacts
<1>2. GoodLog(L, one) BY DEF Inv
<1>3. plan \in Seq(RecordLines) /\ job.sent \in Nat BY <1>1 DEF CommitJobs
<1>4. Len(plan) \in Nat
  <2> HIDE DEF plan
  <2> QED BY <1>3
<1>5. /\ ~EndsTorn(L) /\ Agrees(st, r.st) /\ job.sent \in 0..Len(plan) /\ r.pending = Cut(plan, job.sent)
      /\ seq = st.last + 1
  BY <1>1 DEF Committing
<1>6. /\ Planned(plan, seq, C, X) /\ Fits(st, plan, C, X)
      /\ Publishes(st, C, seq, ends) /\ C \subseteq DOMAIN ends /\ Vacant(st, C, X, one)
  BY CommitTakes
<1>7. job.sent = Len(plan) BY <1>3, <1>4, <1>5
<1>8. r.pending = plan BY <1>3, <1>5, <1>7, CutFacts
<1>9. st.docs = r.st.docs BY <1>5 DEF Agrees
<1> HIDE DEF plan, seq, ends, C, X, one, r, L
<1>10. Fits(r.st, plan, C, X) /\ Publishes(r.st, C, seq, ends) /\ Live(st) = Live(r.st)
  BY <1>5, <1>6, AgreeFits
<1>11. Vacant(r.st, C, X, one) BY <1>6, <1>10 DEF Vacant
<1>12. seq = r.st.last + 1 BY <1>5 DEF Agrees
<1>13. r = Replay(L) BY DEF r, Recovered, L
<1>14. AllWritten(L, one, plan, r.st, seq, C, X, ends) BY <1>2, <1>5, <1>6, <1>8, <1>10, <1>11, <1>12, <1>13 DEF AllWritten
<1> QED BY <1>9, <1>14 DEF plan, seq, ends, C, X, one, r, L

\* A file that holds some slices, and a record for one more.
LEMMA HoldsMore ==
  ASSUME NEW file \in SidecarFiles, NEW old \in Seq(Slices), NEW s \in Slices, NEW power \in BOOLEAN,
         Len(file.recs) = Len(old) + 1, power => file.flushed = Len(file.recs),
         \A i \in 1..Len(old) : file.recs[i] = [seq |-> old[i].seq, base |-> old[i].base],
         file.recs[Len(file.recs)] = [seq |-> s.seq, base |-> s.base]
  PROVE  Holds(file, Append(old, s), power)
<1> DEFINE t == Append(old, s)
           recs == file.recs
<1>1. t \in Seq(Slices) /\ Len(t) = Len(old) + 1 /\ Len(old) \in Nat /\ t[Len(old) + 1] = s /\ \A i \in 1..Len(old) : t[i] = old[i]
  OBVIOUS
<1> HIDE DEF t
<1>2. \A i \in 1..Len(t) : recs[i] = [seq |-> t[i].seq, base |-> t[i].base]
  <2> TAKE i \in 1..Len(t)
  <2>1. i \in 1..Len(old) \/ i = Len(old) + 1 BY <1>1
  <2> QED BY <2>1, <1>1
<1>3. Len(t) <= Len(recs) /\ (power => Len(t) <= file.flushed) BY <1>1
<1>4. Holds(file, t, power) BY <1>2, <1>3 DEF Holds
<1> QED BY <1>4 DEF t

\* What a commit has written holds what its marker says.
LEMMA WrittenHolds ==
  ASSUME Inv, SideInv, mode = "open", job.at = "main", NEW d \in DOMAIN job.ends
  PROVE  /\ Holds(side[Sidecar(d)], Append(SlicesOf(st.docs, d), SliceOf(job.seq, job.ends, d)), setup.powerFails)
         /\ setup.powerFails => side[Sidecar(d)].named
<1> DEFINE f == Sidecar(d)
           file == side[f]
           old == SlicesOf(st.docs, d)
           s == SliceOf(job.seq, job.ends, d)
<1>1. job \in CommitJobs /\ Committing /\ Types BY CommittingFacts DEF Inv
<1>2. /\ d \in Docs /\ f \in DOMAIN side /\ File(f) = file /\ file \in SidecarFiles
      /\ Len(file.recs) = Len(old) + 1 /\ old \in Seq(Slices) /\ Len(old) \in Nat
  BY WrittenThere
<1>3. /\ file.recs[Len(file.recs)] = [seq |-> job.seq, base |-> job.ends[d].base]
      /\ setup.powerFails => file.named /\ file.flushed = Len(file.recs)
  BY <1>2 DEF SideInv, Stored
<1>4. s \in Slices /\ s.seq = job.seq /\ s.base = job.ends[d].base
  <2> DEFINE V == [end : Nat, base : BOOLEAN]
             m == job.ends
  <2>1. m \in Maps(Docs, V) /\ job.seq \in Nat BY <1>1 DEF CommitJobs, Ends
  <2> HIDE DEF V, m
  <2>2. d \in DOMAIN m BY DEF m
  <2>3. m[d] \in V BY <2>1, <2>2, MapFacts
  <2>4. m[d].end \in Nat /\ m[d].base \in BOOLEAN BY <2>3 DEF V
  <2> QED BY <2>1, <2>4 DEF SliceOf, Slices, m
<1>5. st.docs = Recovered.st.docs BY <1>1 DEF Committing, Agrees
<1>6. \A i \in 1..Len(old) : file.recs[i] = [seq |-> old[i].seq, base |-> old[i].base]
  <2>1. CASE d \in DOMAIN st.docs
    <3>1. Len(File(f).recs) >= Len(old) BY <1>2
    <3>2. Holds(file, st.docs[d].slices, setup.powerFails) BY <2>1, <3>1, <1>5, LiveFiles
    <3>3. old = st.docs[d].slices BY <2>1 DEF SlicesOf
    <3> QED BY <3>2, <3>3 DEF Holds
  <2>2. CASE d \notin DOMAIN st.docs
    <3>1. old = <<>> BY <2>2 DEF SlicesOf
    <3>2. Len(<<>>) = 0 OBVIOUS
    <3>3. Len(old) = 0 BY <3>1, <3>2
    <3> QED BY <3>3
  <2> QED BY <2>1, <2>2
<1>7. setup.powerFails \in BOOLEAN BY <1>1, SetupFacts DEF Types
<1> HIDE DEF f, file, old, s
<1>8. Holds(file, Append(old, s), setup.powerFails) BY ZenonT(60), <1>2, <1>3, <1>4, <1>6, <1>7, HoldsMore
<1> QED BY <1>3, <1>8 DEF f, file, old, s

\* The marker gives every sidecar the slice of its last record, and record lines say nothing.
LEMMA AppendMainSide == Inv /\ SideInv /\ AppendMain => SideInv'
<1> SUFFICES ASSUME Inv, SideInv, AppendMain PROVE SideInv' OBVIOUS
<1> DEFINE one == setup.oneAddress
           L == main.lines
           plan == job.plan
           mark == Marker(job.seq, Len(plan), job.ends)
           next == IF job.sent < Len(plan) THEN plan[job.sent + 1] ELSE mark
<1>1. /\ mode = "open" /\ job.at = "main"
      /\ UNCHANGED <<side, issued, lost, reissued, swept, setup>>
  BY DEF AppendMain, past
<1>2. job \in CommitJobs /\ job # Idle /\ ~poison /\ Committing BY <1>1, CommittingFacts
<1>3. GoodLog(L, one) /\ L \in Seq(Lines) /\ main \in [lines : Seq(Lines), flushed : Nat] BY FloorFacts
<1>4. mode' = "open" /\ st' = st BY <1>1 DEF AppendMain, PoisonedBy
<1>5. ~EndsTorn(L) BY <1>2 DEF Committing
<1>6. CASE PoisonedBy /\ (MainIs(CutShort(L)) \/ main' = main)
  <2>1. job'.at = "idle" BY <1>6 DEF PoisonedBy, Idle
  <2>2. QuietLog BY <1>1, <1>6, QuietShort, QuietSame DEF SideInv
  <2> QED BY <1>1, <1>4, <2>1, <2>2, NothingStored, SideKept
<1>7. CASE /\ MainIs(Written(L, next))
           /\ job' = [job EXCEPT !.sent = @ + 1,
                                 !.at = IF next.kind = "marker" THEN "publish" ELSE @]
  <2>1. MainIs(Append(L, next)) BY <1>5, <1>7, WrittenWhole
  <2>2. plan \in Seq(RecordLines) /\ Len(plan) \in Nat /\ job.sent \in Nat
    <3>1. plan \in Seq(RecordLines) /\ job.sent \in Nat BY <1>2 DEF CommitJobs
    <3> HIDE DEF plan
    <3> QED BY <3>1
  <2>3. CASE job.sent < Len(plan)
    <3>1. next = plan[job.sent + 1] /\ next \in RecordLines BY <2>2, <2>3
    <3> HIDE DEF next
    <3>2. next.kind # "marker" /\ next \in Lines BY <3>1, LineKinds
    <3>3. LET q == Replay(L)
              p == Replay(Append(L, next))
          IN  GoodLog(Append(L, next), one) /\ p.st = q.st /\ p.commits = q.commits
      <4> HIDE DEF L, one
      <4> QED BY <3>1, <1>3, <1>5, LogPending
    <3>4. QuietLog
      <4> DEFINE p == Replay(Append(L, next))
      <4>1. p.st = Recovered.st /\ p.commits = Recovered.commits BY <3>3 DEF Recovered
      <4> HIDE DEF p
      <4>2. p.st.docs = Recovered.st.docs BY <4>1
      <4> QED BY <2>1, <3>2, <3>3, <4>1, <4>2, <1>1, QuietLine DEF p
    <3>5. job'.at = "main" /\ job'.ends = job.ends /\ job'.seq = job.seq
      <4>1. job' = [job EXCEPT !.sent = @ + 1, !.at = @] BY <1>7, <3>2
      <4> HIDE DEF mark, plan
      <4> QED BY <4>1, <1>1, <1>2 DEF CommitJobs
    <3>6. Stored'
      <4>1. \A d \in DOMAIN job.ends : File(Sidecar(d))' = File(Sidecar(d)) BY <1>1, <1>4 DEF File, Sidecar
      <4>2. \A d \in DOMAIN job.ends :
              LET file == File(Sidecar(d)) IN
              /\ file.recs[Len(file.recs)] = [seq |-> job.seq, base |-> job.ends[d].base]
              /\ setup.powerFails => file.named /\ file.flushed = Len(file.recs)
        BY <1>1 DEF SideInv, Stored
      <4> QED BY <1>1, <3>5, <4>1, <4>2 DEF Stored
    <3> QED BY <1>1, <1>4, <3>4, <3>6, SideKept
  <2>4. CASE ~(job.sent < Len(plan))
    <3>1. next = mark BY <2>4
    <3>2. AllWritten(L, one, plan, Recovered.st, job.seq, Creates(job.batch), Retires(job.batch), job.ends)
          /\ st.docs = Recovered.st.docs
      BY <1>1, <2>4, MarkerFits
    <3> DEFINE new == DocsOf(Append(L, mark))
    <3>3. /\ TrueLog(Append(L, mark)) /\ mark \in Lines
          /\ \A d \in DOMAIN new : new[d].generation = GenerationOf(st.docs, d)
          /\ \A d \in DOMAIN job.ends : d \in DOMAIN new /\ new[d].slices = Append(SlicesOf(st.docs, d), SliceOf(job.seq, job.ends, d))
          /\ \A d \in DOMAIN new \ DOMAIN job.ends : d \in DOMAIN st.docs /\ new[d].slices = st.docs[d].slices
      <4> DEFINE s == Recovered.st
                 C == Creates(job.batch)
                 X == Retires(job.batch)
                 seq == job.seq
                 ends == job.ends
      <4>1. AllWritten(L, one, plan, s, seq, C, X, ends) /\ st.docs = s.docs /\ TrueLog(L) BY <3>2 DEF SideInv
      <4> HIDE DEF s, C, X, seq, ends, plan, L, one
      <4>2. Marked(Append(L, Marker(seq, Len(plan), ends)), s, seq, ends) BY <4>1, TrueMarker
      <4>3. Marker(seq, Len(plan), ends) \in MarkerLines
        <5>1. LET x == Marker(seq, Len(plan), ends)
                  q == Replay(Append(L, x))
              IN  x \in MarkerLines
          BY <4>1, LogMarker
        <5> QED BY <5>1
      <4>4. Marker(seq, Len(plan), ends) \in Lines BY <4>3, LineKinds
      <4>5. mark = Marker(seq, Len(plan), ends) BY DEF seq, ends
      <4> HIDE DEF mark
      <4>6. /\ TrueLog(Append(L, mark)) /\ mark \in Lines
            /\ \A d \in DOMAIN new : new[d].generation = GenerationOf(st.docs, d)
            /\ \A d \in DOMAIN ends : d \in DOMAIN new /\ new[d].slices = Append(SlicesOf(st.docs, d), SliceOf(seq, ends, d))
            /\ \A d \in DOMAIN new \ DOMAIN ends : d \in DOMAIN st.docs /\ new[d].slices = st.docs[d].slices
        BY <4>1, <4>2, <4>4, <4>5 DEF Marked
      <4> QED BY <4>6 DEF seq, ends
    <3>4. MainIs(Append(L, mark)) BY <2>1, <3>1
    <3>5. job'.at = "publish"
      <4>1. next.kind = "marker" BY <3>1 DEF Marker
      <4>2. job' = [job EXCEPT !.sent = @ + 1, !.at = "publish"] BY <1>7, <4>1
      <4> HIDE DEF mark, plan, next
      <4> QED BY <4>2, <1>2 DEF CommitJobs
    <3> HIDE DEF mark, next
    <3>6. /\ main'.lines = Append(L, mark)
          /\ Seen' \subseteq Seen \cup {new}
          /\ Could' \subseteq Could \cup {new}
      BY <3>3, <3>4, <1>1, NewPoint
    <3>7. \A d \in DOMAIN new :
           /\ NameOf(new, d) \in DOMAIN side
           /\ Holds(side[NameOf(new, d)], new[d].slices, setup.powerFails)
           /\ setup.powerFails /\ ~swept => side[NameOf(new, d)].named
      <4> TAKE d \in DOMAIN new
      <4>1. NameOf(new, d) = Sidecar(d) BY <3>3 DEF NameOf, Sidecar, GenerationOf
      <4> HIDE DEF new
      <4>2. CASE d \in DOMAIN job.ends
        <5>1. Sidecar(d) \in DOMAIN side BY <4>2, <1>1, WrittenThere
        <5>2. /\ Holds(side[Sidecar(d)], Append(SlicesOf(st.docs, d), SliceOf(job.seq, job.ends, d)), setup.powerFails)
              /\ setup.powerFails => side[Sidecar(d)].named
          BY <4>2, <1>1, WrittenHolds
        <5>3. new[d].slices = Append(SlicesOf(st.docs, d), SliceOf(job.seq, job.ends, d)) BY <4>2, <3>3
        <5> QED BY <4>1, <5>1, <5>2, <5>3
      <4>3. CASE d \notin DOMAIN job.ends
        <5>1. d \in DOMAIN st.docs /\ new[d].slices = st.docs[d].slices BY <4>3, <3>3
        <5>2. Len(File(Sidecar(d)).recs) >= Len(SlicesOf(st.docs, d))
          <6>1. st.docs \in DocMaps BY <3>2, RecoveredSeen
          <6>2. d \in Docs /\ Len(SlicesOf(st.docs, d)) \in Nat BY <5>1, <6>1, DocsFacts
          <6>3. Len(File(Sidecar(d)).recs) = Len(SlicesOf(st.docs, d)) + 0 BY <4>3, <6>2, <1>2 DEF Committing, Lengths
          <6> QED BY <6>2, <6>3
        <5>3. /\ Sidecar(d) = NameOf(st.docs, d) /\ Sidecar(d) \in DOMAIN side
              /\ Holds(side[Sidecar(d)], st.docs[d].slices, setup.powerFails)
          BY <5>1, <5>2, <3>2, LiveFiles
        <5>4. setup.powerFails /\ ~swept => side[NameOf(st.docs, d)].named
          <6>1. st.docs \in Could BY <3>2, RecoveredSeen
          <6> QED BY <6>1, <5>1 DEF SideInv, FilesThere
        <5> QED BY <4>1, <5>1, <5>3, <5>4
      <4> QED BY <4>2, <4>3
    <3>8. TrueLog(main'.lines) BY <3>3, <3>6
    <3> HIDE DEF new
    <3>9. TrueLog(main'.lines) /\ FilesFit' /\ FilesThere'
      BY <1>1, <3>6, <3>7, <3>8, FilesFitNew
    <3> QED BY <1>4, <3>5, <3>9, NothingStored DEF SideInv
  <2> QED BY <2>3, <2>4
<1> QED BY <1>6, <1>7 DEF AppendMain

\* While documents are reclaimed the memory is the log's, and their sidecars are as long as they say.
LEMMA SettledFiles ==
  ASSUME Inv, SideInv, Settled
  PROVE  /\ Types /\ Sound(st, setup.oneAddress) /\ st.docs = Recovered.st.docs
         /\ st.docs \in DocMaps /\ Filed(side)
         /\ \A d \in DOMAIN st.docs :
              /\ Len(File(Sidecar(d)).recs) >= Len(SlicesOf(st.docs, d))
              /\ Sidecar(d) = NameOf(st.docs, d) /\ Sidecar(d) \in DOMAIN side
              /\ Holds(side[Sidecar(d)], st.docs[d].slices, setup.powerFails)
              /\ setup.powerFails /\ ~swept => side[Sidecar(d)].named
<1>1. Types /\ Sound(st, setup.oneAddress) BY DEF Inv, Memory
<1>2. st.docs = Recovered.st.docs /\ Lengths({}) BY DEF Settled, Agrees
<1>3. st.docs \in DocMaps /\ st.docs \in Could BY <1>2, RecoveredSeen
<1>4. Filed(side) BY <1>1 DEF Types, Filed
<1>5. ASSUME NEW d \in DOMAIN st.docs
      PROVE  /\ Len(File(Sidecar(d)).recs) >= Len(SlicesOf(st.docs, d))
             /\ Sidecar(d) = NameOf(st.docs, d) /\ Sidecar(d) \in DOMAIN side
             /\ Holds(side[Sidecar(d)], st.docs[d].slices, setup.powerFails)
             /\ setup.powerFails /\ ~swept => side[Sidecar(d)].named
  <2>1. d \in Docs /\ Len(SlicesOf(st.docs, d)) \in Nat BY <1>3, DocsFacts
  <2>2. Len(File(Sidecar(d)).recs) = Len(SlicesOf(st.docs, d)) + 0 BY <1>2, <2>1 DEF Lengths
  <2>3. Len(File(Sidecar(d)).recs) >= Len(SlicesOf(st.docs, d)) BY <2>1, <2>2
  <2>4. /\ Sidecar(d) = NameOf(st.docs, d) /\ Sidecar(d) \in DOMAIN side
        /\ Holds(side[Sidecar(d)], st.docs[d].slices, setup.powerFails)
    BY <1>2, <2>3, LiveFiles
  <2>5. setup.powerFails /\ ~swept => side[NameOf(st.docs, d)].named BY <1>3 DEF SideInv, FilesThere
  <2> QED BY <2>3, <2>4, <2>5
<1> QED BY <1>1, <1>2, <1>3, <1>4, <1>5

\* No point of the log names a document's next generation.
LEMMA NextUnnamed ==
  ASSUME Inv, SideInv, st.docs = Recovered.st.docs, NEW d \in DOMAIN st.docs, NEW docs \in Seen, NEW e \in DOMAIN docs
  PROVE  NameOf(docs, e) # NextGeneration(d)
<1> SUFFICES ASSUME NameOf(docs, e) = NextGeneration(d) PROVE FALSE OBVIOUS
<1> DEFINE m == Recovered.st.docs
<1>1. docs[e].generation \in Nat /\ m[e].generation \in Nat /\ docs[e].generation <= m[e].generation BY OldNames
<1>2. NameOf(docs, e)[1] = e /\ NameOf(docs, e)[2] = docs[e].generation BY DEF NameOf
<1>3. NextGeneration(d)[1] = d /\ NextGeneration(d)[2] = m[d].generation + 1 BY DEF NextGeneration
<1>4. e = d /\ docs[e].generation = m[e].generation + 1 BY <1>2, <1>3
<1> HIDE DEF m
<1> QED BY <1>1, <1>4

\* The copy is made under a name that no point of the log has given.
LEMMA CopyTailSide == Inv /\ SideInv /\ CopyTail => SideInv'
<1> SUFFICES ASSUME Inv, SideInv, CopyTail PROVE SideInv' OBVIOUS
<1>0. PICK d : d = First(job.docs) OBVIOUS
<1> DEFINE f == NextGeneration(d)
           y == [NewFile EXCEPT !.recs = Tail_(d)]
           z == FlushedFile(y)
<1>1. /\ mode = "open" /\ job.at = "reclaim"
      /\ UNCHANGED <<mode, st, poison, wrote, issued, lost, reissued, swept, setup>>
  BY DEF CopyTail, past, Defer
<1>2. job \in ReclaimJobs /\ job # Idle /\ job \notin CommitJobs /\ Settled
  <2>1. job \in ReclaimJobs /\ job # Idle /\ job \notin CommitJobs BY <1>1, JobKinds DEF Inv, Types
  <2> QED BY <1>1, <2>1 DEF Inv, Memory
<1>3. d \in DOMAIN st.docs
  <2>1. job.docs # {} /\ job.docs \subseteq DOMAIN st.docs BY <1>2 DEF Settled
  <2> QED BY <2>1, <1>0, FirstFacts
<1>4. st.docs = Recovered.st.docs /\ Types /\ st.docs \in DocMaps /\ Sidecar(d) = NameOf(st.docs, d)
  BY <1>2, <1>3, SettledFiles
<1>5. st.docs \in Seen BY <1>4, RecoveredSeen
<1>6. \A docs \in Seen : \A e \in DOMAIN docs : NameOf(docs, e) # f BY <1>3, <1>4, NextUnnamed
<1>7. Sidecar(d) # f BY <1>3, <1>4, <1>5, <1>6
<1>8. \/ /\ main' = main \/ main' = FlushedMain
         /\ side' = Put(side, f, z)
         /\ job' = [at |-> "authorise", docs |-> job.docs, doc |-> d]
      \/ /\ main' = main
         /\ side' = side \/ side' = Put(side, f, y)
         /\ Defer(d)
  BY <1>0 DEF CopyTail, disk
<1>9. QuietLog BY <1>1, <1>8, QuietSame, QuietFlushed DEF SideInv
<1> HIDE DEF f, y, z
<1>10. side' = side \/ side' = Put(side, f, z) \/ side' = Put(side, f, y) BY <1>8
<1>11. \A g : g # f => /\ g \in DOMAIN side' <=> g \in DOMAIN side
                       /\ g \in DOMAIN side => side'[g] = side[g]
  BY <1>10 DEF Put
<1>12. TrueLog(main'.lines) /\ FilesFit' /\ FilesThere'
  <2>1. Could' \subseteq Seen BY <1>9, RecoveredSeen DEF QuietLog
  <2>2. \A docs \in Seen : \A e \in DOMAIN docs :
          /\ NameOf(docs, e) \in DOMAIN side' <=> NameOf(docs, e) \in DOMAIN side
          /\ NameOf(docs, e) \in DOMAIN side => side'[NameOf(docs, e)] = side[NameOf(docs, e)]
    BY <1>6, <1>11
  <2> QED BY <2>1, <2>2, <1>1, <1>9, FilesKept
<1>13. Stored'
  <2>1. CASE side' = Put(side, f, z) /\ job' = [at |-> "authorise", docs |-> job.docs, doc |-> d]
    <3>1. job'.at = "authorise" /\ job'.doc = d BY <2>1
    <3>2. NextGeneration(d)' = f /\ Sidecar(d)' = Sidecar(d) BY <1>1 DEF NextGeneration, Sidecar, f
    <3>3. FileAmong(side', f) = z BY <2>1 DEF FileAmong, Put
    <3>4. File(Sidecar(d))' = File(Sidecar(d))
      <4>1. FileAmong(side', Sidecar(d)) = FileAmong(side, Sidecar(d)) BY <1>7, <1>11 DEF FileAmong
      <4>2. File(Sidecar(d))' = FileAmong(side', Sidecar(d)') /\ File(Sidecar(d)) = FileAmong(side, Sidecar(d))
        BY DEF File, FileAmong
      <4> QED BY <4>1, <4>2, <3>2
    <3>5. Tail_(d)' = Tail_(d)
      <4>1. Confirmed(d)' = Confirmed(d) BY <1>1 DEF Confirmed
      <4>2. File(Sidecar(d))'.recs = File(Sidecar(d)).recs BY <3>4
      <4> QED BY <4>1, <4>2, <1>1 DEF Tail_
    <3>6. File(NextGeneration(d))' = FlushedFile([NewFile EXCEPT !.recs = Tail_(d)'])
      <4>1. File(NextGeneration(d))' = FileAmong(side', NextGeneration(d)') BY DEF File, FileAmong
      <4>2. z = FlushedFile([NewFile EXCEPT !.recs = Tail_(d)]) BY DEF z, y
      <4> QED BY <4>1, <4>2, <3>2, <3>3, <3>5
    <3> QED BY <3>1, <3>6 DEF Stored
  <2>2. CASE Defer(d)
    <3> DEFINE rest == job.docs \ {d}
    <3>1. job' = Reclaiming(rest) BY <2>2 DEF Defer
    <3> HIDE DEF rest
    <3>2. job'.at \in {"idle", "reclaim"} BY <3>1 DEF Reclaiming, Idle
    <3> QED BY <3>2, NothingStored
  <2> QED BY <2>1, <2>2, <1>8
<1> QED BY <1>1, <1>12, <1>13 DEF SideInv

\* Where the log can only be cut to its end, recovery can see only what it is now.
LEMMA OnlyNow ==
  ASSUME Inv, SideInv, setup' = setup, main' = FlushedMain \/ (main' = main /\ ~setup.powerFails)
  PROVE  QuietLog /\ Could' = {Recovered.st.docs}
<1>1. CASE main' = FlushedMain BY <1>1, QuietFlushed
<1>2. CASE main' = main /\ ~setup.powerFails
  <2>1. QuietLog BY <1>2, QuietSame DEF SideInv
  <2>2. main.lines \in Seq(Lines) /\ Len(main.lines) \in 0..Len(main.lines) BY FloorFacts
  <2>3. Torn \in Lines BY LineKinds
  <2>4. Could' = Snapshots(main.lines, Len(main.lines)) BY <1>2 DEF Could, Floor
  <2>5. Could' = {DocsOf(main.lines)} BY <2>2, <2>3, <2>4, SnapshotsOn
  <2> QED BY <2>1, <2>5, RecoveredSeen
<1> QED BY <1>1, <1>2

\* The old generation goes when no log that recovery could find names it: where power fails,
\* the line naming the new one is flushed first.
LEMMA RemoveOldSide == TierIsMet /\ Inv /\ SideInv /\ RemoveOld => SideInv'
<1> SUFFICES ASSUME TierIsMet, Inv, SideInv, RemoveOld PROVE SideInv' OBVIOUS
<1>0. PICK d : d = job.doc OBVIOUS
<1> DEFINE f == OldGeneration(d)
           rest == job.docs \ {d}
<1>1. /\ mode = "open" /\ job.at = "remove" /\ job' = Reclaiming(rest)
      /\ UNCHANGED <<mode, st, poison, wrote, issued, lost, reissued, swept, setup>>
      /\ \/ /\ main' = IF setup.flushes THEN FlushedMain ELSE main
            /\ side' = Without(f)
         \/ main' = main /\ side' = side
  BY <1>0 DEF RemoveOld, past, disk
<1>2. setup.powerFails => setup.flushes BY DEF TierIsMet, Inv, Types
<1>3. /\ Settled /\ d \in DOMAIN st.docs /\ st.docs[d].generation \in Nat BY <1>0, <1>1, AuthorisingFacts
<1>4. st.docs = Recovered.st.docs /\ st.docs \in DocMaps BY <1>3, SettledFiles
<1>5. \A e \in DOMAIN st.docs : NameOf(st.docs, e) # f
  <2> SUFFICES ASSUME NEW e \in DOMAIN st.docs, NameOf(st.docs, e) = f PROVE FALSE OBVIOUS
  <2>1. NameOf(st.docs, e)[1] = e /\ NameOf(st.docs, e)[2] = st.docs[e].generation BY DEF NameOf
  <2>2. f[1] = d /\ f[2] = st.docs[d].generation - 1 BY DEF OldGeneration
  <2>3. st.docs[d].generation = st.docs[d].generation - 1 BY <2>1, <2>2
  <2> QED BY <2>3, <1>3
<1>6. job'.at \in {"idle", "reclaim"}
  <2> HIDE DEF rest
  <2> QED BY <1>1 DEF Reclaiming, Idle
<1>7. CASE main' = main /\ side' = side
  <2>1. QuietLog BY <1>1, <1>7, QuietSame DEF SideInv
  <2> QED BY <1>1, <1>6, <1>7, <2>1, NothingStored, SideKept
<1>8. CASE main' = (IF setup.flushes THEN FlushedMain ELSE main) /\ side' = Without(f)
  <2>1. QuietLog /\ Could' = {st.docs} BY <1>1, <1>2, <1>4, <1>8, OnlyNow
  <2> HIDE DEF f
  <2>2. DOMAIN side' = DOMAIN side \ {f} /\ \A g \in DOMAIN side' : side'[g] = side[g] BY <1>8 DEF Without
  <2>3. TrueLog(main'.lines) /\ FilesFit' /\ FilesThere'
    BY <1>1, <1>5, <2>1, <2>2, FilesKept
  <2> QED BY <1>1, <1>6, <2>3, NothingStored DEF SideInv
<1> QED BY <1>1, <1>7, <1>8

\* A copied tail holds the slices a reclamation keeps.
LEMMA TailHolds ==
  ASSUME Inv, SideInv, Settled, NEW d \in DOMAIN st.docs, Reclaimable(st, d)
  PROVE  LET z == FlushedFile([NewFile EXCEPT !.recs = Tail_(d)]) IN
         /\ Holds(z, Rebased(st.docs[d].slices), setup.powerFails) /\ z.named
         /\ Len(z.recs) > 0
<1> DEFINE slices == st.docs[d].slices
           recs == File(Sidecar(d)).recs
           b == NewestBase(slices)
           n == Len(slices)
           tail == Tail_(d)
           keep == Rebased(slices)
           z == FlushedFile([NewFile EXCEPT !.recs = tail])
<1>1. Types /\ Sound(st, setup.oneAddress) /\ Lengths({}) BY SettledFiles DEF Settled
<1>2. slices \in Seq(Slices) /\ Numbered(slices) /\ b > 1 /\ d \in Docs /\ keep \in Seq(Slices) /\ keep # <<>>
  BY <1>1, ReclaimableFacts
<1>3. tail \in Seq(Recs) /\ Len(tail) = Len(keep) BY <1>1, TailFacts
<1>4. /\ Sidecar(d) \in DOMAIN side /\ Holds(side[Sidecar(d)], slices, setup.powerFails) BY SettledFiles
<1>5. recs = side[Sidecar(d)].recs BY <1>4 DEF File
<1>6. n <= Len(recs) /\ \A i \in 1..n : recs[i] = [seq |-> slices[i].seq, base |-> slices[i].base]
  BY <1>4, <1>5 DEF Holds
<1>7. b \in 2..n /\ Start(slices, b) = b - 1 /\ Len(keep) = n + 1 - b
  <2> HIDE DEF slices
  <2> QED BY <1>2, RebasedFacts
<1>8. Confirmed(d) = n BY <1>1, ConfirmedIs DEF Confirmed
<1>9. recs \in Seq(Recs) /\ n \in Nat BY <1>1, <1>2, FileTypes
<1>10. tail = SubSeq(recs, b, n)
  <2>1. tail = SubSeq(recs, Start(slices, b) + 1, n) BY <1>8 DEF Tail_
  <2> HIDE DEF tail, recs, slices, b, n
  <2>2. b - 1 + 1 = b BY <1>7, <1>9
  <2> QED BY <2>1, <2>2, <1>7
<1>11. keep = [i \in 1..(n + 1 - b) |-> [slices[b + i - 1] EXCEPT !.end = @ - Start(slices, b)]] BY DEF Rebased
<1> HIDE DEF tail, keep, recs, slices, b, n
<1>12. \A i \in 1..Len(keep) : tail[i] = [seq |-> keep[i].seq, base |-> keep[i].base]
  <2> TAKE i \in 1..Len(keep)
  <2>1. b + i - 1 \in 1..n /\ i \in 1..(n + 1 - b) /\ i \in 1..(n - b + 1) BY <1>7, <1>9
  <2>2. tail[i] = recs[b + i - 1]
    <3>1. b \in 1..(Len(recs) + 1) /\ n \in (b - 1)..Len(recs) BY <1>6, <1>7, <1>9
    <3> QED BY <2>1, <3>1, <1>7, <1>9, <1>10
  <2>3. keep[i].seq = slices[b + i - 1].seq /\ keep[i].base = slices[b + i - 1].base
    <3> DEFINE x == slices[b + i - 1]
    <3>1. x \in Slices BY <2>1, <1>2 DEF n
    <3>2. keep[i] = [x EXCEPT !.end = @ - Start(slices, b)] BY <2>1, <1>11
    <3> HIDE DEF x
    <3>3. keep[i].seq = x.seq /\ keep[i].base = x.base BY <3>1, <3>2 DEF Slices
    <3> QED BY <3>3 DEF x
  <2> QED BY <2>1, <2>2, <2>3, <1>6
<1>13. z.recs = tail /\ z.flushed = Len(tail) /\ z.named
  <2> DEFINE y == [NewFile EXCEPT !.recs = tail]
  <2>1. NewFile \in SidecarFiles BY DEF NewFile, SidecarFiles
  <2>2. y \in SidecarFiles /\ y.recs = tail BY <1>3, <2>1, NewRecords
  <2> HIDE DEF y
  <2>3. LET w == FlushedFile(y) IN w.recs = y.recs /\ w.flushed = Len(y.recs) /\ w.named BY <2>2, GrownFlushed
  <2> QED BY <2>2, <2>3 DEF y
<1> HIDE DEF z
<1>14. Len(keep) \in Nat /\ Len(keep) > 0 BY <1>2
<1>15. Len(keep) <= Len(z.recs) /\ (setup.powerFails => Len(keep) <= z.flushed) BY <1>3, <1>13, <1>14
<1>16. Holds(z, keep, setup.powerFails) BY <1>12, <1>13, <1>15 DEF Holds
<1> QED BY <1>3, <1>13, <1>14, <1>16 DEF z, keep, tail, slices

\* A Reclaim line names the copy, which holds the slices it keeps.
LEMMA AuthoriseReclaimSide == NoTornReclaims /\ Inv /\ SideInv /\ AuthoriseReclaim => SideInv'
<1> SUFFICES ASSUME NoTornReclaims, Inv, SideInv, AuthoriseReclaim PROVE SideInv' OBVIOUS
<1>0. PICK d : d = job.doc OBVIOUS
<1> DEFINE L == main.lines
           line == Reclaim(d, st.docs[d].generation + 1, Rebased(st.docs[d].slices))
           M == Append(L, line)
           new == DocsOf(M)
           z == FlushedFile([NewFile EXCEPT !.recs = Tail_(d)])
<1>1. "reclaimAppend" \notin setup.faults BY DEF NoTornReclaims, Inv, Types
<1>2. /\ mode = "open" /\ job.at = "authorise"
      /\ MainIs(Written(L, line)) /\ job' = [job EXCEPT !.at = "remove"]
      /\ UNCHANGED <<mode, side, swept, setup>>
  BY <1>0, <1>1 DEF AuthoriseReclaim, past
<1>3. /\ job \in AuthoriseJobs /\ Settled /\ d \in DOMAIN st.docs /\ d \in job.docs
  BY <1>0, <1>2, AuthorisingFacts
<1>4. Clean /\ Reclaimable(st, d) BY <1>0, <1>2, <1>3 DEF Settled
<1>5. /\ st.docs = Recovered.st.docs /\ Sound(st, setup.oneAddress)
      /\ \A e \in DOMAIN st.docs :
           /\ Sidecar(e) = NameOf(st.docs, e) /\ Sidecar(e) \in DOMAIN side
           /\ Holds(side[Sidecar(e)], st.docs[e].slices, setup.powerFails)
           /\ setup.powerFails /\ ~swept => side[Sidecar(e)].named
  BY <1>3, SettledFiles
<1>6. GoodLog(L, setup.oneAddress) /\ TrueLog(L) /\ ~EndsTorn(L) /\ Replay(L).pending = <<>>
      /\ DocsOf(L) = st.docs
  BY <1>4, <1>5, FloorFacts DEF SideInv, Clean, Recovered, DocsOf
<1>7. d \in DOMAIN DocsOf(L) /\ Reclaimable(Replay(L).st, d)
  BY <1>3, <1>4, <1>5, <1>6 DEF Reclaimable, Recovered
<1>8. Shortened(M, st.docs, d)
  <2> DEFINE one == setup.oneAddress
  <2>1. GoodLog(L, one) BY <1>6
  <2> HIDE DEF one, L, line
  <2>2. Shortened(Append(L, Reclaim(d, DocsOf(L)[d].generation + 1, Rebased(DocsOf(L)[d].slices))), DocsOf(L), d)
    BY <2>1, <1>6, <1>7, TrueReclaim
  <2> QED BY <2>2, <1>6 DEF line
<1>9. line \in Lines
  <2>1. /\ Rebased(st.docs[d].slices) \in Seq(Slices) /\ st.docs[d].generation \in Nat /\ d \in Docs
    BY <1>3, <1>4, <1>5, ReclaimableFacts
  <2> DEFINE keep == Rebased(st.docs[d].slices)
             gen == st.docs[d].generation + 1
  <2>2. keep \in Seq(Slices) /\ gen \in Nat BY <2>1
  <2> HIDE DEF keep, gen
  <2>3. Reclaim(d, gen, keep) \in ReclaimLines BY <2>1, <2>2 DEF Reclaim, ReclaimLines
  <2>4. Reclaim(d, gen, keep) \in Lines BY <2>3, LineKinds
  <2> QED BY <2>4 DEF keep, gen
<1>10. MainIs(M) BY <1>2, <1>6, WrittenWhole
<1>11. job'.at = "remove" BY <1>2, <1>3 DEF AuthoriseJobs
<1> HIDE DEF line
<1>12. /\ main'.lines = M
       /\ Seen' \subseteq Seen \cup {new}
       /\ Could' \subseteq Could \cup {new}
  BY <1>2, <1>9, <1>10, NewPoint
<1>13. /\ NextGeneration(d) \in DOMAIN side /\ side[NextGeneration(d)] = z
       /\ Holds(z, Rebased(st.docs[d].slices), setup.powerFails) /\ z.named
  <2>1. Holds(z, Rebased(st.docs[d].slices), setup.powerFails) /\ z.named /\ Len(z.recs) > 0
    BY <1>3, <1>4, TailHolds
  <2>2. File(NextGeneration(d)) = z BY <1>0, <1>2 DEF SideInv, Stored
  <2> HIDE DEF z
  <2>3. Len(NewFile.recs) = 0 BY DEF NewFile
  <2>4. NextGeneration(d) \in DOMAIN side BY <2>1, <2>2, <2>3 DEF File
  <2> QED BY <2>1, <2>2, <2>4 DEF File
<1>14. /\ DOMAIN new = DOMAIN st.docs
       /\ \A e \in DOMAIN st.docs \ {d} : new[e] = st.docs[e]
       /\ new[d].generation = st.docs[d].generation + 1 /\ new[d].slices = Rebased(st.docs[d].slices)
       /\ TrueLog(M)
  BY <1>8 DEF Shortened
<1> HIDE DEF new, z
<1>15. \A e \in DOMAIN new :
         /\ NameOf(new, e) \in DOMAIN side
         /\ Holds(side[NameOf(new, e)], new[e].slices, setup.powerFails)
         /\ setup.powerFails /\ ~swept => side[NameOf(new, e)].named
  <2> TAKE e \in DOMAIN new
  <2>1. CASE e = d
    <3>1. NameOf(new, e) = NextGeneration(d) BY <2>1, <1>14 DEF NameOf, NextGeneration
    <3> QED BY <2>1, <3>1, <1>13, <1>14
  <2>2. CASE e # d
    <3>1. new[e] = st.docs[e] /\ e \in DOMAIN st.docs BY <2>2, <1>14
    <3>2. NameOf(new, e) = NameOf(st.docs, e) BY <3>1 DEF NameOf
    <3> QED BY <3>1, <3>2, <1>5
  <2> QED BY <2>1, <2>2
<1>16. TrueLog(main'.lines) BY <1>12, <1>14
<1> HIDE DEF M
<1>17. TrueLog(main'.lines) /\ FilesFit' /\ FilesThere' BY <1>2, <1>12, <1>15, <1>16, FilesFitNew
<1> QED BY <1>2, <1>11, <1>17, NothingStored DEF SideInv

-----------------------------------------------------------------------------
(* Crashes and recovery. *)

\* A torn end says nothing.
LEMMA TornSays ==
  ASSUME NEW L, NEW one, GoodLog(L, one), TrueLog(L), NEW from \in 0..Len(L)
  PROVE  TrueLog(CutShort(L)) /\ Snapshots(CutShort(L), from) = Snapshots(L, from)
<1>1. L \in Seq(Lines) BY DEF GoodLog
<1>2. CASE EndsTorn(L) BY <1>2 DEF CutShort
<1>3. CASE ~EndsTorn(L)
  <2>1. CutShort(L) = Append(L, Torn) BY <1>3 DEF CutShort
  <2>2. Torn \in Lines BY LineKinds
  <2>3. GoodLog(CutShort(L), one) /\ Replay(CutShort(L)) = Replay(L) BY LogCutShort
  <2>4. DocsOf(CutShort(L)) = DocsOf(L) /\ Replay(CutShort(L)).commits = Replay(L).commits BY <2>3 DEF DocsOf
  <2>5. TrueLog(CutShort(L)) BY <2>1, <2>2, <2>3, <2>4, TrueKept
  <2>6. Snapshots(CutShort(L), from) = Snapshots(L, from) \cup {DocsOf(CutShort(L))} /\ DocsOf(L) \in Snapshots(L, from)
    BY <1>1, <2>1, <2>2, SnapshotsOn
  <2> QED BY <2>4, <2>5, <2>6
<1> QED BY <1>2, <1>3

\* A power loss leaves a log that recovery could have found before, and what of the sidecars
\* its slices describe was flushed.
LEMMA PowerLossSide == Inv /\ SideInv /\ PowerLoss => SideInv'
<1> SUFFICES ASSUME Inv, SideInv, PowerLoss PROVE SideInv' OBVIOUS
<1> DEFINE L == main.lines
<1>1. setup.powerFails /\ mode' = "down" /\ job'.at = "idle" /\ swept' = swept /\ setup' = setup
  BY DEF PowerLoss, Gone, past, Idle
<1>2. /\ L \in Seq(Lines) /\ Len(L) \in Nat /\ main.flushed \in 0..Len(L) /\ GoodLog(L, setup.oneAddress)
  BY FloorFacts
<1>3. TrueLog(L) BY DEF SideInv
<1>4. PICK n \in main.flushed..Len(L), torn \in BOOLEAN :
        main' = [lines |-> IF torn THEN CutShort(SubSeq(L, 1, n)) ELSE SubSeq(L, 1, n), flushed |-> n]
  BY DEF PowerLoss
<1>5. PICK left \in SUBSET DOMAIN side :
        /\ \A f \in DOMAIN side : side[f].named => f \in left
        /\ \E cut \in [left -> 0..(2 * setup.maxSeq)] :
            /\ \A f \in left : cut[f] \in side[f].flushed..Len(side[f].recs)
            /\ side' = [f \in left |-> [recs |-> SubSeq(side[f].recs, 1, cut[f]), flushed |-> cut[f], named |-> TRUE]]
  BY DEF PowerLoss
<1>6. PICK cut \in [left -> 0..(2 * setup.maxSeq)] :
        /\ \A f \in left : cut[f] \in side[f].flushed..Len(side[f].recs)
        /\ side' = [f \in left |-> [recs |-> SubSeq(side[f].recs, 1, cut[f]), flushed |-> cut[f], named |-> TRUE]]
  BY <1>5
<1> HIDE DEF L
\* What is left of the log says nothing new.
<1>7. QuietLog
  <2> DEFINE c == Cut(L, n)
  <2>1. n \in 0..Len(L) BY <1>2
  <2>2. GoodLog(c, setup.oneAddress) /\ Len(c) = n /\ TrueLog(c) BY <2>1, <1>2, <1>3, LogPrefix, TruePrefix
  <2>3. main'.lines = (IF torn THEN CutShort(c) ELSE c) /\ main'.flushed = n BY <1>4 DEF Cut
  <2>4. /\ Snapshots(c, n) \subseteq Snapshots(L, main.flushed)
        /\ Snapshots(c, 0) \subseteq Snapshots(L, 0)
    <3>1. 0 \in 0..Len(L) /\ n \in 0..Len(L) BY <2>1
    <3> QED BY <3>1, <1>2, SnapshotsCut
  <2> HIDE DEF c
  <2>5. 0 \in 0..Len(c) /\ n \in 0..Len(c) BY <2>1, <2>2
  <2>6. TrueLog(main'.lines) /\ Snapshots(main'.lines, n) = Snapshots(c, n) /\ Snapshots(main'.lines, 0) = Snapshots(c, 0)
    BY <2>2, <2>3, <2>5, TornSays
  <2>7. Seen' \subseteq Seen BY <2>4, <2>6 DEF Seen, L
  <2>8. Could' \subseteq Could BY <1>1, <2>3, <2>4, <2>6 DEF Could, Floor, L
  <2> QED BY <2>6, <2>7, <2>8 DEF QuietLog
<1>8. ASSUME NEW docs \in Seen, NEW d \in DOMAIN docs, NameOf(docs, d) \in DOMAIN side'
      PROVE  /\ NameOf(docs, d) \in DOMAIN side
             /\ Holds(side[NameOf(docs, d)], docs[d].slices, setup.powerFails) =>
                  Holds(side'[NameOf(docs, d)], docs[d].slices, setup.powerFails)
  <2> DEFINE f == NameOf(docs, d)
             a == side[f]
             s == docs[d].slices
             p == a.recs
             k == cut[f]
  <2>1. f \in left /\ f \in DOMAIN side BY <1>6, <1>8
  <2>2. k \in a.flushed..Len(p) /\ side'[f] = [recs |-> SubSeq(p, 1, k), flushed |-> k, named |-> TRUE] BY <1>6, <2>1
  <2>3. a \in SidecarFiles
    <3>1. side \in [DOMAIN side -> SidecarFiles] BY DEF Inv, Types
    <3> QED BY <2>1, <3>1
  <2>4. p \in Seq(Recs) /\ a.flushed \in Nat BY <2>3 DEF SidecarFiles
  <2>5. docs \in DocMaps BY RecoveredSeen
  <2>6. Len(s) \in Nat BY <2>5, DocsFacts
  <2> DEFINE b == side'[f]
  <2>7. b.recs = Cut(p, k) /\ b.flushed = k BY <2>2 DEF Cut
  <2> HIDE DEF f, s, k, b
  <2>8. ASSUME Holds(a, s, setup.powerFails) PROVE Holds(b, s, setup.powerFails)
    <3>1. Len(s) <= a.flushed /\ \A i \in 1..Len(s) : p[i] = [seq |-> s[i].seq, base |-> s[i].base]
      BY <1>1, <2>8 DEF Holds
    <3> HIDE DEF p
    <3>2. k \in 0..Len(p) /\ Len(p) \in Nat BY <2>2, <2>4
    <3>3. Len(Cut(p, k)) = k /\ \A i \in 1..k : Cut(p, k)[i] = p[i] BY <2>4, <3>2, CutFacts
    <3>4. Len(s) <= k BY <2>2, <2>4, <2>6, <3>1, <3>2
    <3>5. \A i \in 1..Len(s) : i \in 1..k BY <2>6, <3>2, <3>4
    <3>6. \A i \in 1..Len(s) : b.recs[i] = [seq |-> s[i].seq, base |-> s[i].base] BY <2>7, <3>1, <3>3, <3>5
    <3> QED BY <2>7, <3>3, <3>4, <3>6 DEF Holds
  <2> QED BY <2>1, <2>8 DEF f, s, b
<1>9. \A docs \in Could' : \A d \in DOMAIN docs :
        (NameOf(docs, d) \in DOMAIN side /\ (setup.powerFails => side[NameOf(docs, d)].named)) =>
          NameOf(docs, d) \in DOMAIN side' /\ (setup.powerFails => side'[NameOf(docs, d)].named)
  <2>1. DOMAIN side' = left /\ \A f \in left : side'[f].named BY <1>6
  <2> QED BY <2>1, <1>1, <1>5
<1>10. TrueLog(main'.lines) /\ FilesFit' /\ FilesThere' BY <1>1, <1>7, <1>8, <1>9, FilesKept
<1> QED BY <1>1, <1>10, NothingStored DEF SideInv

\* Recovery keeps of the log what it confirms, and makes every name durable.
LEMMA OpenMainSide == Inv /\ SideInv /\ OpenMain => SideInv'
<1> SUFFICES ASSUME Inv, SideInv, OpenMain PROVE SideInv' OBVIOUS
<1> DEFINE L == main.lines
           n == Replay(L).confirmed
           c == Cut(L, n)
           one == setup.oneAddress
<1>1. L \in Seq(Lines) /\ Len(L) \in Nat /\ main.flushed \in 0..Len(L) /\ GoodLog(L, one)
  BY FloorFacts
<1>2. n \in 0..Len(L) /\ Len(c) = n /\ Replay(c).st = Replay(L).st /\ Replay(L).ok /\ GoodLog(c, one)
  BY <1>1, ConfirmedPart
<1>3. /\ mode \in {"down", "closed"} /\ mode' = "repair"
      /\ main' = IF n < Len(L) THEN Truncated ELSE main
      /\ side' = [f \in DOMAIN side |-> [side[f] EXCEPT !.named = TRUE]]
      /\ UNCHANGED <<job, issued, lost, reissued, swept, setup>>
  BY <1>2 DEF OpenMain, Replayed, past
<1>4. job'.at = "idle" BY <1>3 DEF Inv, Memory, Idle
<1>5. TrueLog(L) BY DEF SideInv
<1>6. QuietLog
  <2>1. CASE n < Len(L)
    <3>1. main' = [lines |-> c, flushed |-> n] BY <1>3, <2>1 DEF Truncated, Cut
    <3>2. TrueLog(c)
      <4> HIDE DEF n
      <4> QED BY <1>1, <1>2, <1>5, TruePrefix
    <3>3. Snapshots(c, n) = {DocsOf(c)} /\ Snapshots(c, 0) \subseteq Snapshots(L, 0)
      <4> HIDE DEF n
      <4>1. 0 \in 0..Len(L) /\ n \in 0..Len(L) BY <1>1, <1>2
      <4> QED BY <4>1, <1>1, SnapshotsCut
    <3>4. DocsOf(c) = DocsOf(L) BY <1>2 DEF DocsOf
    <3>5. DocsOf(L) \in Could BY RecoveredSeen
    <3> HIDE DEF c, n
    <3>6. main'.lines = c /\ main'.flushed = n BY <3>1
    <3>7. Floor' = n BY <3>6, <1>2 DEF Floor
    <3> HIDE DEF L
    <3>8. Seen' \subseteq Seen BY <3>3, <3>6 DEF Seen, L
    <3>9. Could' \subseteq Could BY <3>3, <3>4, <3>5, <3>6, <3>7 DEF Could
    <3> QED BY <3>2, <3>6, <3>8, <3>9 DEF QuietLog
  <2>2. CASE ~(n < Len(L))
    <3>1. main' = main BY <1>3, <2>2
    <3> QED BY <3>1, <1>3, <1>5, QuietSame
  <2> QED BY <2>1, <2>2
<1> HIDE DEF L, n, c, one
<1>7. side \in [DOMAIN side -> SidecarFiles] BY DEF Inv, Types
<1>8. DOMAIN side' = DOMAIN side
      /\ \A f \in DOMAIN side : side'[f].recs = side[f].recs /\ side'[f].flushed = side[f].flushed /\ side'[f].named
  <2>1. \A x \in SidecarFiles : LET y == [x EXCEPT !.named = TRUE] IN
          y.recs = x.recs /\ y.flushed = x.flushed /\ y.named
    BY DEF SidecarFiles
  <2> QED BY <2>1, <1>3, <1>7
<1>9. \A docs \in Seen : \A d \in DOMAIN docs :
        NameOf(docs, d) \in DOMAIN side' =>
          /\ NameOf(docs, d) \in DOMAIN side
          /\ Holds(side[NameOf(docs, d)], docs[d].slices, setup.powerFails) =>
               Holds(side'[NameOf(docs, d)], docs[d].slices, setup.powerFails)
  BY <1>8 DEF Holds
<1>10. TrueLog(main'.lines) /\ FilesFit' /\ FilesThere' BY <1>3, <1>6, <1>8, <1>9, FilesKept
<1> QED BY <1>3, <1>4, <1>10, NothingStored DEF SideInv

\* A sidecar that holds the slices is complete.
LEMMA HeldIsComplete ==
  ASSUME NEW f \in DOMAIN side, side[f] \in SidecarFiles, NEW slices, Len(slices) \in Nat, NEW power,
         Holds(side[f], slices, power)
  PROVE  Complete(f, Len(slices))
<1> DEFINE p == side[f].recs
           n == Len(slices)
           I == {i \in DOMAIN p : p[i] # Torn}
<1>1. p \in Seq(Recs) BY DEF SidecarFiles
<1>2. n <= Len(p) /\ \A i \in 1..n : p[i] = [seq |-> slices[i].seq, base |-> slices[i].base] BY DEF Holds
<1>3. n \in Nat OBVIOUS
<1>4. \A i \in 1..n : p[i] # Torn
  <2> TAKE i \in 1..n
  <2>1. p[i] = [seq |-> slices[i].seq, base |-> slices[i].base] BY <1>2
  <2> HIDE DEF p, n
  <2>2. DOMAIN p[i] = {"seq", "base"} BY <2>1
  <2>3. DOMAIN Torn = {"kind"} BY DEF Torn
  <2> QED BY <2>2, <2>3
<1> HIDE DEF p, n
<1>5. Len(p) \in Nat /\ DOMAIN p = 1..Len(p) BY <1>1
<1>6. 1..n \subseteq I /\ I \subseteq 1..Len(p) BY <1>2, <1>3, <1>4, <1>5
<1> HIDE DEF I
<1> DEFINE m == Len(p)
<1>5a. m \in Nat BY <1>5
<1>7. IsFiniteSet(1..m) /\ IsFiniteSet(1..n) /\ Cardinality(1..n) = IF 1 > n THEN 0 ELSE n - 1 + 1
  <2> HIDE DEF m
  <2>1. IsFiniteSet(1..m) BY <1>5a, FS_Interval
  <2>2. IsFiniteSet(1..n) /\ Cardinality(1..n) = IF 1 > n THEN 0 ELSE n - 1 + 1 BY <1>3, FS_Interval
  <2> QED BY <2>1, <2>2
<1>8. Cardinality(1..n) = n BY <1>3, <1>7
<1>9. IsFiniteSet(I) BY <1>6, <1>7, FS_Subset
<1>10. Cardinality(1..n) <= Cardinality(I) BY <1>6, <1>9, FS_Subset
<1>11. Cardinality(I) \in Nat BY <1>9, FS_CardinalityType
<1>12. Cardinality(I) >= n BY <1>3, <1>8, <1>10, <1>11
<1> QED BY <1>12 DEF Complete, I, p, n

\* What check_sidecars keeps of a file.
KeptTo(x, k) == IF Len(x.recs) > k THEN FlushedFile([x EXCEPT !.recs = SubSeq(@, 1, k)]) ELSE x

\* It holds the slices that the file held, of those that are confirmed.
LEMMA KeptHolds ==
  ASSUME NEW x \in SidecarFiles, NEW k \in Nat
  PROVE  /\ \A slices, power : Len(slices) \in Nat /\ Len(slices) <= k /\ Holds(x, slices, power) => Holds(KeptTo(x, k), slices, power)
         /\ x.named => KeptTo(x, k).named
<1> DEFINE p == x.recs
           y == [x EXCEPT !.recs = SubSeq(p, 1, k)]
<1>1. p \in Seq(Recs) BY DEF SidecarFiles
<1>2. CASE ~(Len(p) > k) BY <1>2 DEF KeptTo
<1>3. CASE Len(p) > k
  <2>1. Len(Cut(p, k)) = k /\ Cut(p, k) \in Seq(Recs) /\ \A i \in 1..k : Cut(p, k)[i] = p[i]
    <3> HIDE DEF p
    <3>1. k \in 0..Len(p) /\ Len(p) \in Nat BY <1>1, <1>3
    <3> QED BY <1>1, <3>1, CutFacts
  <2>2. y \in SidecarFiles /\ y.recs = Cut(p, k)
    <3> DEFINE q == Cut(p, k)
    <3>1. q \in Seq(Recs) BY <2>1
    <3>2. y = [x EXCEPT !.recs = q] BY DEF Cut
    <3> HIDE DEF q, y
    <3> QED BY <3>1, <3>2, NewRecords DEF q
  <2>3. KeptTo(x, k) = FlushedFile(y) BY <1>3 DEF KeptTo
  <2> HIDE DEF y
  <2> DEFINE z == FlushedFile(y)
  <2>4. z.recs = y.recs /\ z.flushed = Len(y.recs) /\ z.named BY <2>2, GrownFlushed
  <2> HIDE DEF z
  <2>5. z.recs = Cut(p, k) /\ z.flushed = k /\ z.named BY <2>1, <2>2, <2>4
  <2>6. ASSUME NEW slices, NEW power, Len(slices) \in Nat, Len(slices) <= k, Holds(x, slices, power)
        PROVE  Holds(z, slices, power)
    <3>1. \A i \in 1..Len(slices) : i \in 1..k /\ p[i] = [seq |-> slices[i].seq, base |-> slices[i].base]
      BY <2>6 DEF Holds
    <3> HIDE DEF p
    <3> QED BY <2>1, <2>5, <2>6, <3>1 DEF Holds
  <2> QED BY <2>3, <2>5, <2>6 DEF z
<1> QED BY <1>2, <1>3

\* The sidecars are found whole unless a sweep removed one, and a sweep removes what no
\* recovery wants or is counted.
LEMMA OpenSidecarsSide == Inv /\ SideInv /\ OpenSidecars => SideInv'
<1> SUFFICES ASSUME Inv, SideInv, OpenSidecars PROVE SideInv' OBVIOUS
<1> DEFINE live == {Sidecar(d) : d \in DOMAIN st.docs}
           all == \A d \in DOMAIN st.docs : Confirmed(d) > 0 /\ Complete(Sidecar(d), Confirmed(d))
<1>1. /\ mode = "repair" /\ UNCHANGED <<main, job, setup>> /\ mode' \in {"open", "corrupt"}
      /\ \/ /\ mode' = "open" /\ all
            /\ side' = [f \in live |-> KeptTo(side[f], Confirmed(f[1]))]
            /\ swept' = (swept \/ \E f \in DOMAIN side \ live : StillNeeded(f))
         \/ /\ mode' = "corrupt" /\ side' = side /\ swept' = swept
            /\ \E d \in DOMAIN st.docs : Confirmed(d) = 0 \/ ~Complete(Sidecar(d), Confirmed(d))
  BY DEF OpenSidecars, KeptTo
<1>2. job = Idle /\ st = Recovered.st /\ Sound(st, setup.oneAddress) /\ Types BY <1>1 DEF Inv, Memory
<1>3. QuietLog /\ job'.at = "idle" BY <1>1, <1>2, QuietSame DEF SideInv, Idle
<1>4. Stored' BY <1>3, NothingStored
<1>5. \A d \in DOMAIN st.docs :
        /\ Confirmed(d) = Len(st.docs[d].slices) /\ Confirmed(d) \in Nat /\ Confirmed(d) > 0
        /\ Sidecar(d) = NameOf(st.docs, d)
  BY <1>2, ConfirmedIs DEF Confirmed, Sidecar, NameOf
<1>6. side \in [DOMAIN side -> SidecarFiles] BY <1>2 DEF Types
<1>7. st.docs = Recovered.st.docs /\ st.docs \in Could /\ st.docs \in Seen BY <1>2, RecoveredSeen
<1> HIDE DEF live, all
<1>8. CASE mode' = "corrupt"
  <2>1. side' = side /\ swept' = swept /\ \E d \in DOMAIN st.docs : Confirmed(d) = 0 \/ ~Complete(Sidecar(d), Confirmed(d))
    BY <1>1, <1>8
  <2>2. PICK d \in DOMAIN st.docs : Confirmed(d) = 0 \/ ~Complete(Sidecar(d), Confirmed(d)) BY <2>1
  <2>3. swept
    <3> SUFFICES ASSUME ~swept PROVE FALSE OBVIOUS
    <3>1. NameOf(st.docs, d) \in DOMAIN side BY <1>7 DEF SideInv, FilesThere
    <3>2. Holds(side[NameOf(st.docs, d)], st.docs[d].slices, setup.powerFails) BY <1>7, <3>1 DEF SideInv, FilesFit
    <3>3. Complete(NameOf(st.docs, d), Len(st.docs[d].slices)) BY <1>5, <1>6, <3>1, <3>2, HeldIsComplete
    <3> QED BY <1>5, <2>2, <3>3
  <2>4. TrueLog(main'.lines) /\ FilesFit' /\ FilesThere' BY <1>1, <1>3, <2>1, SidecarsStay
  <2> QED BY <1>4, <2>1, <2>3, <2>4 DEF SideInv
<1>9. CASE mode' = "open"
  <2>1. /\ \A d \in DOMAIN st.docs : Complete(Sidecar(d), Confirmed(d))
        /\ side' = [f \in live |-> KeptTo(side[f], Confirmed(f[1]))]
        /\ swept' = (swept \/ \E f \in DOMAIN side \ live : StillNeeded(f))
    BY <1>1, <1>9 DEF all
  <2>2. DOMAIN side' = live /\ \A f \in live : side'[f] = KeptTo(side[f], Confirmed(f[1])) BY <2>1
  <2>3. \A f \in live : f \in DOMAIN side BY <2>1 DEF live, Complete
  <2>4. ASSUME NEW docs \in Seen, NEW d \in DOMAIN docs, NameOf(docs, d) \in DOMAIN side'
        PROVE  /\ NameOf(docs, d) \in DOMAIN side
               /\ Holds(side[NameOf(docs, d)], docs[d].slices, setup.powerFails) =>
                    Holds(side'[NameOf(docs, d)], docs[d].slices, setup.powerFails)
    <3> DEFINE f == NameOf(docs, d)
               k == Confirmed(d)
    <3>1. f \in live /\ f \in DOMAIN side BY <2>2, <2>3, <2>4
    <3>2. PICK e \in DOMAIN st.docs : f = NameOf(st.docs, e) BY <3>1, <1>5 DEF live
    <3>3. f[1] = d /\ e = d /\ docs[d].generation = st.docs[d].generation BY <3>2 DEF NameOf
    <3>4. Len(docs[d].slices) \in Nat /\ Len(docs[d].slices) <= Len(st.docs[d].slices) BY <1>7, <3>3, OldNames
    <3>5. k = Len(st.docs[d].slices) /\ k \in Nat BY <1>5, <3>3
    <3>6. side[f] \in SidecarFiles BY <1>6, <3>1
    <3>7. side'[f] = KeptTo(side[f], k) BY <2>2, <3>1, <3>3
    <3> HIDE DEF f, k
    <3>8. Holds(side[f], docs[d].slices, setup.powerFails) => Holds(side'[f], docs[d].slices, setup.powerFails)
      BY <3>4, <3>5, <3>6, <3>7, KeptHolds
    <3> QED BY <3>1, <3>8 DEF f
  <2>5. ASSUME ~swept', NEW docs \in Could', NEW d \in DOMAIN docs, NameOf(docs, d) \in DOMAIN side,
               setup.powerFails => side[NameOf(docs, d)].named
        PROVE  NameOf(docs, d) \in DOMAIN side' /\ (setup.powerFails => side'[NameOf(docs, d)].named)
    <3> DEFINE f == NameOf(docs, d)
    <3>0. docs \in Could BY <1>3 DEF QuietLog
    <3>1. f \in live
      <4> SUFFICES ASSUME f \notin live PROVE FALSE OBVIOUS
      <4>1. ~StillNeeded(f) BY <2>1, <2>5
      <4>2. CASE setup.powerFails
        <5>1. PICK n \in main.flushed..Len(main.lines) : docs = DocsOf(Cut(main.lines, n))
          BY <3>0, <4>2 DEF Could, Snapshots, Floor
        <5>2. docs = Replay(SubSeq(main.lines, 1, n)).st.docs BY <5>1 DEF DocsOf, Cut
        <5>3. f[1] = d /\ f[2] = docs[d].generation BY DEF NameOf
        <5> HIDE DEF f
        <5>4. StillNeeded(f)
          <6>1. LET r == Replay(SubSeq(main.lines, 1, n)).st.docs IN f[1] \in DOMAIN r /\ r[f[1]].generation = f[2]
            BY <5>2, <5>3, <2>5
          <6> QED BY <4>2, <6>1 DEF StillNeeded
        <5> QED BY <4>1, <5>4
      <4>3. CASE ~setup.powerFails
        <5>1. Could = {DocsOf(main.lines)}
          <6>1. main.lines \in Seq(Lines) /\ Floor \in 0..Len(main.lines) BY FloorFacts
          <6>2. Torn \in Lines BY LineKinds
          <6>3. Snapshots(main.lines, Len(main.lines)) = {DocsOf(main.lines)} BY <6>1, <6>2, SnapshotsOn
          <6> QED BY <4>3, <6>3 DEF Could, Floor
        <5>2. docs = st.docs BY <3>0, <5>1, <1>7, RecoveredSeen
        <5>3. f = Sidecar(d) BY <5>2, <1>5
        <5> QED BY <5>2, <5>3 DEF live
      <4> QED BY <4>2, <4>3
    <3>2. f[1] = d BY DEF NameOf
    <3>3. side[f] \in SidecarFiles BY <1>6, <2>5
    <3>4. d \in DOMAIN st.docs
      <4>1. PICK e \in DOMAIN st.docs : f = NameOf(st.docs, e) BY <3>1, <1>5 DEF live
      <4> QED BY <4>1 DEF NameOf
    <3>5. Confirmed(d) \in Nat BY <1>5, <3>4
    <3>6. side'[f] = KeptTo(side[f], Confirmed(d)) BY <2>2, <3>1, <3>2
    <3> HIDE DEF f
    <3> DEFINE k == Confirmed(d)
    <3> HIDE DEF k
    <3>7. side[f].named => KeptTo(side[f], k).named BY <3>3, <3>5, KeptHolds DEF k
    <3> QED BY <2>2, <2>5, <3>1, <3>6, <3>7 DEF f, k
  <2>6. swept => swept' BY <2>1
  <2>7. TrueLog(main'.lines) /\ FilesFit' /\ FilesThere' BY <1>1, <1>3, <2>4, <2>5, <2>6, FilesKept
  <2> QED BY <1>4, <1>9, <2>7 DEF SideInv
<1> QED BY <1>1, <1>8, <1>9

\* Every step keeps the sidecars fitting the log.
LEMMA NextSide == NoTornReclaims /\ TierIsMet /\ Inv /\ SideInv /\ [Next]_vars => SideInv'
<1> SUFFICES ASSUME NoTornReclaims, TierIsMet, Inv, SideInv, [Next]_vars PROVE SideInv' OBVIOUS
<1>1. CASE UNCHANGED vars
  <2>1. UNCHANGED <<main, side, mode, st, job, swept, setup>> BY <1>1 DEF vars, disk, memory, past
  <2>2. QuietLog BY <2>1, QuietSame DEF SideInv
  <2>3. Stored' BY <2>1, StoredSame DEF SideInv
  <2> QED BY <2>1, <2>2, <2>3, SideKept
<1>2. CASE Next
  BY <1>2, CommitSide, AppendContentSide, FlushSidecarsSide, AppendMainSide, PublishSide, CopyTailSide,
     AuthoriseReclaimSide, RemoveOldSide, MintRawSide, FlushFailsLateSide, CloseSide, KillSide, PowerLossSide,
     OpenMainSide, OpenSidecarsSide DEF Next
<1> QED BY <1>1, <1>2

-----------------------------------------------------------------------------
(* What a read selects. *)

\* A read starts at slice c, which the writer k + c wrote.
ReadsAt(W, slices, d, k, c) ==
  /\ k \in 0..Len(W) /\ c \in 1..Len(slices)
  /\ W \in Seq(Commits) /\ Len(W) = Len(slices) + k
  /\ \A i \in 1..Len(slices) : slices[i].seq = W[k + i].seq
  /\ Start(slices, IF d \in Rewindable THEN 1 ELSE NewestBase(slices)) = c - 1
  /\ (IF d \in Rewindable THEN 1 ELSE Max({1} \cup {i \in DOMAIN W : W[i].wrote[d]})) = k + c

\* Where a read starts, among the slices and among the writers they descend from.
LEMMA ReadsFrom ==
  ASSUME NEW commits \in Seq(Commits), NEW d, NEW slices \in Seq(Slices), Numbered(slices), slices # <<>>,
         Descends(slices, commits, d)
  PROVE  \E k, c : ReadsAt(WritersOf(commits, d), slices, d, k, c)
<1> DEFINE W == WritersOf(commits, d)
           n == Len(slices)
           b == NewestBase(slices)
           B == {1} \cup {i \in DOMAIN W : W[i].wrote[d]}
<1>1. W \in Seq(Commits)
  <2>1. Filter(commits, {x \in ToSet(commits) : d \in DOMAIN x.wrote}) \in Seq(Commits) BY FilterType
  <2> QED BY <2>1 DEF WritersOf
<1>2. PICK k \in 0..Len(W) :
        /\ n = Len(W) - k
        /\ \A i \in 1..n : slices[i] = [seq |-> W[k + i].seq, end |-> i, base |-> W[k + i].wrote[d]]
        /\ k > 0 => slices # <<>> /\ slices[1].base
        /\ d \in Rewindable => k = 0
  BY DEF Descends
<1>3. n \in Nat \ {0} OBVIOUS
<1>4. b \in 0..n /\ (b > 0 => slices[b].base) /\ \A i \in 1..n : slices[i].base => i <= b BY NewestFacts
<1>5. \A i \in 1..n : slices[i].end = i BY DEF Numbered
<1> HIDE DEF W, n, b
<1>6. Len(W) \in Nat /\ DOMAIN W = 1..Len(W) BY <1>1
<1>7. Len(W) = n + k /\ k \in Nat BY <1>2, <1>3, <1>6
<1>8. \A i \in 1..n : slices[i].seq = W[k + i].seq /\ (slices[i].base <=> W[k + i].wrote[d])
  <2> TAKE i \in 1..n
  <2>1. slices[i] = [seq |-> W[k + i].seq, end |-> i, base |-> W[k + i].wrote[d]] BY <1>2
  <2> QED BY <2>1
<1>9. CASE d \in Rewindable
  <2>1. k = 0 BY <1>2, <1>9
  <2>2. Start(slices, 1) = 1 - 1 BY DEF Start
  <2>3. 1 \in 1..n /\ 1 = k + 1 BY <1>3, <2>1
  <2>4. ReadsAt(W, slices, d, k, 1) BY <2>2, <2>3, <1>1, <1>2, <1>7, <1>8, <1>9 DEF ReadsAt, n
  <2> QED BY <2>4 DEF W
<1>10. CASE d \notin Rewindable
  <2> DEFINE c == IF b = 0 THEN 1 ELSE b
  <2>1. c \in 1..n /\ c \in Nat BY <1>3, <1>4
  <2>2. Start(slices, b) = c - 1
    <3>1. CASE b <= 1
      <4>1. c = 1 BY <3>1, <1>3, <1>4
      <4> QED BY <3>1, <4>1 DEF Start
    <3>2. CASE ~(b <= 1)
      <4>1. b - 1 \in 1..n /\ c = b BY <3>2, <1>3, <1>4
      <4> QED BY <3>2, <4>1, <1>5 DEF Start
    <3> QED BY <3>1, <3>2
  <2>3. B \in SUBSET (0..(n + k)) /\ B # {} /\ n + k \in Nat BY <1>3, <1>6, <1>7
  <2>4. k + c \in B
    <3>1. CASE b = 0
      <4>1. k = 0
        <5>1. 1 \in 1..n BY <1>3
        <5>2. ~slices[1].base BY <3>1, <5>1, <1>4
        <5> QED BY <5>2, <1>2, <1>7
      <4> QED BY <3>1, <4>1
    <3>2. CASE b # 0
      <4>1. b \in 1..n /\ slices[b].base BY <3>2, <1>3, <1>4
      <4>2. k + b \in 1..Len(W) BY <4>1, <1>3, <1>7
      <4>3. W[k + b].wrote[d] BY <4>1, <1>8
      <4> QED BY <3>2, <4>2, <4>3, <1>6
    <3> QED BY <3>1, <3>2
  <2>5. \A i \in B : i <= k + c
    <3> TAKE i \in B
    <3>1. CASE i = 1 BY <3>1, <2>1, <1>7
    <3>2. CASE i # 1
      <4>1. i \in 1..(n + k) /\ W[i].wrote[d] BY <3>2, <1>6, <1>7
      <4>2. CASE i <= k BY <4>1, <4>2, <2>1, <1>7
      <4>3. CASE ~(i <= k)
        <5>1. i - k \in 1..n /\ k + (i - k) = i BY <4>1, <4>3, <1>3, <1>7
        <5>2. slices[i - k].base BY <5>1, <4>1, <1>8
        <5>3. i - k <= b BY <5>1, <5>2, <1>4
        <5> QED BY <5>1, <5>3, <1>3, <1>4, <1>7, <4>1
      <4> QED BY <4>2, <4>3
    <3> QED BY <3>1, <3>2
  <2>6. Max(B) = k + c
    <3> HIDE DEF B, c
    <3>1. Max(B) \in B /\ \A y \in B : Max(B) >= y BY <2>3, MaxFacts
    <3>2. Max(B) \in 0..(n + k) /\ Max(B) >= k + c /\ Max(B) <= k + c BY <2>3, <2>4, <2>5, <3>1
    <3> QED BY <3>2, <2>1, <1>3, <1>7
  <2> HIDE DEF c
  <2>7. ReadsAt(W, slices, d, k, c) BY <2>1, <2>2, <2>6, <1>1, <1>2, <1>7, <1>8, <1>10 DEF ReadsAt, n, b
  <2> QED BY <2>7 DEF W
<1> QED BY <1>9, <1>10

\* A sidecar that holds the slices says what the commits wrote.
LEMMA SelectedIsValue ==
  ASSUME NEW commits \in Seq(Commits), NEW s, NEW d, NEW power,
         s.docs[d].slices \in Seq(Slices), Numbered(s.docs[d].slices), s.docs[d].slices # <<>>,
         Descends(s.docs[d].slices, commits, d),
         File(<<d, s.docs[d].generation>>).recs \in Seq(Recs),
         Holds(File(<<d, s.docs[d].generation>>), s.docs[d].slices, power)
  PROVE  Selected(s, d) = Value(commits, d)
<1> DEFINE slices == s.docs[d].slices
           p == File(<<d, s.docs[d].generation>>).recs
           W == WritersOf(commits, d)
           n == Len(slices)
           from == IF d \in Rewindable THEN 1 ELSE NewestBase(slices)
           v == IF d \in Rewindable THEN 1 ELSE Max({1} \cup {i \in DOMAIN W : W[i].wrote[d]})
           q == SubSeq(p, Start(slices, from) + 1, Min({End(s.docs[d]), Len(p)}))
<1>0. PICK k, c : ReadsAt(W, slices, d, k, c)
  <2> HIDE DEF slices
  <2>1. slices \in Seq(Slices) /\ Numbered(slices) /\ slices # <<>> /\ Descends(slices, commits, d) BY DEF slices
  <2> QED BY <2>1, ReadsFrom
<1>1. /\ k \in 0..Len(W) /\ c \in 1..n /\ W \in Seq(Commits) /\ Len(W) = n + k
      /\ \A i \in 1..n : slices[i].seq = W[k + i].seq
      /\ Start(slices, from) = c - 1
      /\ v = k + c
  BY <1>0 DEF ReadsAt
<1>2. Selected(s, d) = [i \in DOMAIN q |-> q[i].seq] BY DEF Selected
<1>3. Value(commits, d) = [i \in 1..(Len(W) + 1 - v) |-> W[v + i - 1].seq] BY DEF Value
<1>4. n \in Nat
  <2> HIDE DEF slices
  <2>1. slices \in Seq(Slices) BY DEF slices
  <2> QED BY <2>1
<1>5. n <= Len(p) /\ \A i \in 1..n : p[i] = [seq |-> slices[i].seq, base |-> slices[i].base] BY DEF Holds
<1>6. End(s.docs[d]) = n
  <2> DEFINE doc == s.docs[d]
  <2>1. doc.slices \in Seq(Slices) /\ Numbered(doc.slices) OBVIOUS
  <2> HIDE DEF doc
  <2>2. End(doc) = Len(doc.slices) BY <2>1, EndFacts
  <2> QED BY <2>2 DEF doc
<1>7. p \in Seq(Recs) OBVIOUS
<1> HIDE DEF p, n, slices, from, v
<1>8. Len(p) \in Nat BY <1>7
<1> DEFINE m == Len(p)
<1>9. Min({n, m}) = n
  <2>1. n \in Nat /\ m \in Nat /\ n <= m BY <1>4, <1>5, <1>8
  <2> HIDE DEF m
  <2>2. n \in {n, m} /\ \A y \in {n, m} : n <= y BY <2>1
  <2>3. \A x \in {n, m} : (\A y \in {n, m} : x <= y) => x = n BY <2>1
  <2> QED BY <2>2, <2>3 DEF Min
<1> HIDE DEF W
<1>10. q = SubSeq(p, c, n)
  <2>1. c - 1 + 1 = c BY <1>1, <1>4
  <2>2. Min({End(s.docs[d]), Len(p)}) = n BY <1>6, <1>9
  <2> QED BY <2>1, <2>2, <1>1
<1> HIDE DEF q, m
<1>11. DOMAIN q = 1..(n + 1 - c) /\ \A i \in 1..(n + 1 - c) : q[i] = p[c + i - 1]
  <2>1. c \in 1..(Len(p) + 1) /\ n \in (c - 1)..Len(p) /\ n - c + 1 = n + 1 - c BY <1>1, <1>4, <1>5, <1>8
  <2> QED BY <2>1, <1>7, <1>10
<1>12. Len(W) + 1 - v = n + 1 - c BY <1>1, <1>4
<1>13. \A i \in 1..(n + 1 - c) : q[i].seq = W[v + i - 1].seq
  <2> TAKE i \in 1..(n + 1 - c)
  <2>1. c + i - 1 \in 1..n /\ v + i - 1 = k + (c + i - 1) BY <1>1, <1>4
  <2>2. p[c + i - 1].seq = slices[c + i - 1].seq
    <3>1. p[c + i - 1] = [seq |-> slices[c + i - 1].seq, base |-> slices[c + i - 1].base] BY <2>1, <1>5
    <3> QED BY <3>1
  <2> QED BY <2>1, <2>2, <1>1, <1>11
<1> QED BY <1>2, <1>3, <1>11, <1>12, <1>13

-----------------------------------------------------------------------------
(* The store's theorems about its sidecars. *)

\* The sidecars fit the log in every state of the store.
THEOREM SidecarsFit == NoTornReclaims /\ TierIsMet => (RSpec => []SideInv)
<1> SUFFICES ASSUME NoTornReclaims, TierIsMet PROVE RSpec => []SideInv OBVIOUS
<1>1. RInit => SideInv BY InitSide DEF RInit
<1>2. Inv /\ SideInv /\ [RNext]_rvars => SideInv' BY NextSide, ReaderSteps
<1>3. RSpec => []Inv BY StoreInv
<1> QED BY <1>1, <1>2, <1>3, PTL DEF RSpec

\* Nothing a crash or a power loss leaves behind is damage that recovery refuses, but for what
\* the sweep at an earlier open removed.
THEOREM OnlyTheSweep == NoTornReclaims /\ TierIsMet => (RSpec => []OnlyTheSweepLosesData)
<1> SUFFICES ASSUME NoTornReclaims, TierIsMet PROVE RSpec => []OnlyTheSweepLosesData OBVIOUS
<1>1. SideInv => OnlyTheSweepLosesData BY DEF SideInv, OnlyTheSweepLosesData
<1> QED BY <1>1, SidecarsFit, PTL

\* What a read of the open store selects is what the commits of its log wrote: the offsets
\* that markers and reclamations carry never drift from the records they describe.
THEOREM ReadsTell == NoTornReclaims /\ TierIsMet => (RSpec => []ReadsTellTheHistory)
<1> SUFFICES ASSUME NoTornReclaims, TierIsMet PROVE RSpec => []ReadsTellTheHistory OBVIOUS
<1>1. Inv /\ SideInv => ReadsTellTheHistory
  <2> SUFFICES ASSUME Inv, SideInv, Ready, ~poison, NEW d \in DOMAIN st.docs
               PROVE  /\ Complete(Sidecar(d), Confirmed(d))
                      /\ Selected(st, d) = Value(Replay(main.lines).commits, d)
    BY DEF ReadsTellTheHistory
  <2>1. Settled BY ReadyFacts
  <2>2. /\ Types /\ Sound(st, setup.oneAddress) /\ st.docs = Recovered.st.docs /\ st.docs \in DocMaps
        /\ Sidecar(d) = NameOf(st.docs, d) /\ Sidecar(d) \in DOMAIN side
        /\ Holds(side[Sidecar(d)], st.docs[d].slices, setup.powerFails)
    BY <2>1, SettledFiles
  <2>3. /\ Confirmed(d) = Len(st.docs[d].slices) /\ st.docs[d].slices \in Seq(Slices) /\ st.docs[d].slices # <<>>
        /\ Numbered(st.docs[d].slices) /\ Len(st.docs[d].slices) \in Nat /\ d \in Docs
    BY <2>2, ConfirmedIs DEF Confirmed
  <2>4. side[Sidecar(d)] \in SidecarFiles BY <2>2 DEF Types
  <2>5. Complete(Sidecar(d), Confirmed(d)) BY <2>2, <2>3, <2>4, HeldIsComplete
  <2>6. File(<<d, st.docs[d].generation>>) = side[Sidecar(d)] BY <2>2 DEF File, NameOf
  <2>7. side[Sidecar(d)].recs \in Seq(Recs) BY <2>4 DEF SidecarFiles
  <2>8. /\ GoodLog(main.lines, setup.oneAddress) /\ TrueLog(main.lines) /\ DocsOf(main.lines) = st.docs
    BY <2>2, FloorFacts, RecoveredSeen DEF SideInv
  <2>9. Replay(main.lines).commits \in Seq(Commits) /\ Tells(st.docs, Replay(main.lines).commits)
    BY <2>8, PointDocs, TrueWhole
  <2>10. Descends(st.docs[d].slices, Replay(main.lines).commits, d)
    <3>1. SlicesOf(st.docs, d) = st.docs[d].slices BY DEF SlicesOf
    <3> QED BY <2>3, <2>9, <3>1 DEF Tells
  <2>11. Selected(st, d) = Value(Replay(main.lines).commits, d)
    BY <2>2, <2>3, <2>6, <2>7, <2>9, <2>10, SelectedIsValue
  <2> QED BY <2>5, <2>11
<1> QED BY <1>1, StoreInv, SidecarsFit, PTL

-----------------------------------------------------------------------------
(* The reader. *)

\* A later log has every confirmed prefix of the earlier one.
Keeps(L, M) == \A n \in 0..Replay(L).confirmed : n \in 0..Replay(M).confirmed /\ Cut(M, n) = Cut(L, n)

\* One more line keeps them.
LEMMA LongerKeeps ==
  ASSUME NEW L, NEW one, GoodLog(L, one), NEW x \in Lines, GoodLog(Append(L, x), one)
  PROVE  Keeps(L, Append(L, x))
<1> DEFINE t == Append(L, x)
           n == Replay(L).confirmed
           m == Replay(t).confirmed
<1>1. L \in Seq(Lines) /\ Len(L) \in Nat /\ n \in 0..Len(L) BY LogWhole, ConfirmedPart
<1>2. t \in Seq(Lines) /\ Len(t) = Len(L) + 1 /\ m \in 0..Len(t)
  <2>1. t \in Seq(Lines) /\ Len(t) = Len(L) + 1 BY <1>1
  <2> HIDE DEF t
  <2> QED BY <2>1, ConfirmedPart DEF t
<1>3. \A k \in 0..Len(L) : Cut(t, k) = Cut(L, k) BY <1>1, CutFacts
<1>4. Cut(L, Len(L)) = L BY <1>1, CutFacts
<1> HIDE DEF t
<1>5. Grows(Replay(L), Replay(t))
  <2>1. Len(L) \in 0..Len(t) /\ Len(L) \in 0..Len(L) BY <1>1, <1>2
  <2>2. Grows(Replay(Cut(t, Len(L))), Replay(t)) BY <2>1, LogWhole DEF t
  <2> QED BY <2>1, <2>2, <1>3, <1>4
<1>6. n <= m BY <1>5 DEF Grows
<1> HIDE DEF n, m
<1>7. \A k \in 0..n : k \in 0..m /\ k \in 0..Len(L) BY <1>1, <1>2, <1>6
<1> QED BY <1>3, <1>7 DEF Keeps, t, n, m

\* So does cutting what is not confirmed.
LEMMA ConfirmedKeeps ==
  ASSUME NEW L, NEW one, GoodLog(L, one)
  PROVE  Keeps(L, L) /\ Keeps(L, Cut(L, Replay(L).confirmed))
<1> DEFINE n == Replay(L).confirmed
<1>1. L \in Seq(Lines) /\ n \in 0..Len(L) /\ Replay(Cut(L, n)).confirmed = n BY LogWhole, ConfirmedPart
<1> HIDE DEF n
<1>2. \A k \in 0..n : Cut(Cut(L, n), k) = Cut(L, k) BY <1>1, CutFacts
<1> QED BY <1>1, <1>2 DEF Keeps, n

\* A line that was written behind a whole one is one more line.
LEMMA WrittenLonger ==
  ASSUME NEW L \in Seq(Lines), NEW x, Written(L, x) \in Seq(Lines)
  PROVE  x \in Lines /\ Written(L, x) = Append(L, x)
<1>1. ASSUME NEW s, NEW y, NEW M, s \in Seq(M), Append(s, y) \in Seq(Lines) PROVE y \in Lines
  <2> DEFINE t == Append(s, y)
  <2>1. Len(t) = Len(s) + 1 /\ Len(s) \in Nat /\ t[Len(s) + 1] = y BY <1>1
  <2>2. t \in Seq(Lines) BY <1>1
  <2> HIDE DEF t
  <2>3. Len(s) + 1 \in 1..Len(t) BY <2>1
  <2> QED BY <2>1, <2>2, <2>3
<1>2. ~EndsTorn(L)
  <2> SUFFICES ASSUME EndsTorn(L) PROVE FALSE OBVIOUS
  <2>1. Append(Front(L), Garbage) \in Seq(Lines) BY DEF Written
  <2>2. Front(L) \in Seq(Lines)
    <3>1. L # <<>> BY DEF EndsTorn
    <3>2. Len(L) - 1 \in 0..Len(L) BY <3>1
    <3> QED BY <3>2, CutFacts DEF Front, Cut
  <2>3. Garbage \in Lines BY <1>1, <2>1, <2>2
  <2>4. Garbage.kind = "garbage" BY DEF Garbage
  <2> QED BY <2>3, <2>4, LineKinds DEF Torn, RecordLines, RowLines, DocLines, RetireLines, MarkerLines, MintLines, ReclaimLines, Lines
<1>3. Written(L, x) = Append(L, x) BY <1>2 DEF Written
<1> QED BY <1>1, <1>3

\* Every step but a power loss.
Steps ==
  \/ Commit
  \/ AppendContent \/ FlushSidecars \/ AppendMain \/ Publish
  \/ CopyTail \/ AuthoriseReclaim \/ RemoveOld
  \/ MintRaw \/ FlushFailsLate \/ Close
  \/ Kill \/ OpenMain \/ OpenSidecars

\* Such a step takes back nothing that the log confirms.
LEMMA LogGoesOn == Inv /\ Inv' /\ (Steps \/ main' = main) => Keeps(main.lines, main'.lines)
<1> SUFFICES ASSUME Inv, Inv', Steps \/ main' = main PROVE Keeps(main.lines, main'.lines) OBVIOUS
<1> DEFINE L == main.lines
           M == main'.lines
           one == setup.oneAddress
<1>1. L \in Seq(Lines) /\ GoodLog(L, one) /\ main \in [lines : Seq(Lines), flushed : Nat] BY FloorFacts
<1>2. M \in Seq(Lines)
  <2>1. main' \in [lines : Seq(Lines), flushed : Nat] BY DEF Inv, Types
  <2> QED BY <2>1
<1>3. setup' = setup \/ main' = main
  BY DEF Steps, Commit, BeginCommit, AppendContent, FlushSidecars, AppendMain, Publish, CopyTail, AuthoriseReclaim,
         RemoveOld, MintRaw, FlushFailsLate, Close, Kill, Gone, OpenMain, Replayed, OpenSidecars
<1>4. setup' = setup => GoodLog(M, one)
  <2>1. GoodLog(M, setup'.oneAddress) BY DEF Inv
  <2> QED BY <2>1
<1>5. FlushedMain.lines = L BY <1>1 DEF FlushedMain
<1>6. \A x : MainIs(x) => M = x BY <1>1 DEF MainIs
<1>7. \/ M = L
      \/ \E x : M = Written(L, x)
      \/ M = CutShort(L)
      \/ M = Cut(L, Replay(L).confirmed)
  <2>1. CASE main' = main BY <2>1
  <2>2. CASE Commit BY <2>2 DEF Commit, BeginCommit, disk
  <2>3. CASE AppendContent BY <2>3 DEF AppendContent
  <2>4. CASE FlushSidecars BY <2>4 DEF FlushSidecars
  <2>5. CASE AppendMain BY <2>5, <1>6 DEF AppendMain
  <2>6. CASE Publish BY <2>6 DEF Publish, disk
  <2>7. CASE CopyTail BY <2>7, <1>5 DEF CopyTail, disk
  <2>8. CASE AuthoriseReclaim BY <2>8, <1>6 DEF AuthoriseReclaim
  <2>9. CASE RemoveOld BY <2>9, <1>5 DEF RemoveOld, disk
  <2>10. CASE MintRaw BY <2>10, <1>6 DEF MintRaw
  <2>11. CASE FlushFailsLate BY <2>11 DEF FlushFailsLate, disk
  <2>12. CASE Close BY <2>12, <1>5 DEF Close
  <2>13. CASE Kill BY <2>13 DEF Kill, disk
  <2>14. CASE OpenMain
    <3>1. main' = Truncated \/ main' = main BY <2>14 DEF OpenMain, Replayed
    <3>2. Truncated.lines = Cut(L, Replay(L).confirmed) BY DEF Truncated, Cut
    <3> QED BY <3>1, <3>2
  <2>15. CASE OpenSidecars BY <2>15 DEF OpenSidecars
  <2> QED BY <2>1, <2>2, <2>3, <2>4, <2>5, <2>6, <2>7, <2>8, <2>9, <2>10, <2>11, <2>12, <2>13, <2>14, <2>15 DEF Steps
<1> HIDE DEF L, M, one
<1> SUFFICES Keeps(L, M) BY DEF L, M
<1>8. Keeps(L, L) /\ Keeps(L, Cut(L, Replay(L).confirmed)) BY <1>1, ConfirmedKeeps
<1>9. M = L \/ setup' = setup BY <1>3 DEF M, L
<1>10. ASSUME NEW x, M = Written(L, x) PROVE Keeps(L, M)
  <2>1. x \in Lines /\ M = Append(L, x) BY <1>1, <1>2, <1>10, WrittenLonger
  <2> QED BY <2>1, <1>1, <1>4, <1>8, <1>9, LongerKeeps
<1>11. CASE M = CutShort(L)
  <2>1. M = L \/ M = Append(L, Torn) BY <1>11 DEF CutShort
  <2>2. Torn \in Lines BY LineKinds
  <2>3. CASE M = L BY <2>3, <1>8
  <2>4. CASE M # L
    <3> DEFINE t == Append(L, Torn)
    <3>1. M = t /\ GoodLog(t, one) BY <2>1, <2>4, <1>4, <1>9
    <3>2. Keeps(L, t) BY <2>2, <3>1, <1>1, LongerKeeps
    <3> QED BY <3>1, <3>2
  <2> QED BY <2>3, <2>4
<1> QED
  <2>1. CASE \E x : M = Written(L, x)
    <3>1. PICK x : M = Written(L, x) BY <2>1
    <3> QED BY <3>1, <1>10
  <2>2. CASE M = L BY <2>2, <1>8
  <2>3. CASE M = Cut(L, Replay(L).confirmed)
    <3> DEFINE c == Cut(L, Replay(L).confirmed)
    <3>1. M = c /\ Keeps(L, c) BY <2>3, <1>8
    <3> HIDE DEF c
    <3> QED BY <3>1
  <2> QED BY <2>1, <2>2, <2>3, <1>7, <1>11

\* What a reader has replayed is a confirmed prefix of the log.
ReplayedTo(n) ==
  reader = [at |-> reader.at, st |-> Replay(Cut(main.lines, n)).st, commits |-> Replay(Cut(main.lines, n)).commits]

ReaderInv == reader.at \in {"replayed", "open"} => \E n \in 0..Recovered.confirmed : ReplayedTo(n)

\* Every step leaves it one.
LEMMA ReaderKeeps == Inv /\ Inv' /\ ReaderInv /\ [RNext]_rvars => ReaderInv'
<1> SUFFICES ASSUME Inv, Inv', ReaderInv, [RNext]_rvars, reader'.at \in {"replayed", "open"}
             PROVE  \E n \in 0..Recovered'.confirmed : ReplayedTo(n)'
  BY DEF ReaderInv
<1>1. Closed.at = "closed" BY DEF Closed
<1>2. GoodLog(main.lines, setup.oneAddress) BY FloorFacts
<1>3. CASE reader' = reader /\ (Steps \/ main' = main)
  <2>1. PICK n \in 0..Recovered.confirmed : ReplayedTo(n) BY <1>3 DEF ReaderInv
  <2>2. Keeps(main.lines, main'.lines) BY <1>3, LogGoesOn
  <2>3. n \in 0..Replay(main'.lines).confirmed /\ Cut(main'.lines, n) = Cut(main.lines, n)
    BY <2>2 DEF Keeps, Recovered
  <2>4. ReplayedTo(n)' BY <2>1, <2>3, <1>3 DEF ReplayedTo
  <2> QED BY <2>3, <2>4 DEF Recovered
<1>4. CASE ReadMain
  <2> DEFINE r == Replay(main.lines)
  <2>1. main' = main /\ reader' = [at |-> "replayed", st |-> r.st, commits |-> r.commits]
    BY <1>4 DEF ReadMain, vars, disk
  <2>2. Replay(Cut(main.lines, r.confirmed)).st = r.st /\ Replay(Cut(main.lines, r.confirmed)).commits = r.commits
        /\ r.confirmed \in 0..Len(main.lines)
    BY <1>2, ConfirmedPart
  <2>3. r.confirmed \in 0..r.confirmed
    <3>1. Len(main.lines) \in Nat BY FloorFacts
    <3> HIDE DEF r
    <3> QED BY <2>2, <3>1
  <2>4. ReplayedTo(r.confirmed)' BY <2>1, <2>2 DEF ReplayedTo
  <2> QED BY <2>1, <2>3, <2>4 DEF Recovered
<1>5. CASE CheckSidecars
  <2>1. reader.at = "replayed" /\ main' = main /\ reader' = [reader EXCEPT !.at = "open"]
    BY <1>5 DEF CheckSidecars, vars, disk
  <2>2. PICK n \in 0..Recovered.confirmed : ReplayedTo(n) BY <2>1 DEF ReaderInv
  <2>3. ReplayedTo(n)' BY <2>1, <2>2 DEF ReplayedTo
  <2> QED BY <2>1, <2>3 DEF Recovered
<1>6. CASE DropReader BY <1>1, <1>6 DEF DropReader
<1>7. CASE LosePower BY <1>1, <1>7 DEF LosePower
<1>8. CASE UNCHANGED rvars BY <1>3, <1>8 DEF rvars, vars, disk
<1> QED BY <1>3, <1>4, <1>5, <1>6, <1>7, <1>8 DEF RNext, Quietly, Steps

\* A reader answers from a prefix of the writer's history, as long as it lives, with the writer
\* appending, reclaiming, failing, crashing and recovering beside it.
THEOREM ReaderSees == NoTornReclaims /\ TierIsMet => (RSpec => []ReaderSeesAPrefix)
<1> SUFFICES ASSUME NoTornReclaims, TierIsMet PROVE RSpec => []ReaderSeesAPrefix OBVIOUS
<1>1. Inv /\ SideInv /\ ReaderInv => ReaderSeesAPrefix
  <2> SUFFICES ASSUME Inv, SideInv, ReaderInv, reader.at = "open"
               PROVE  /\ IsPrefix(reader.commits, Replay(main.lines).commits)
                      /\ \A d \in DOMAIN reader.st.docs :
                           <<d, reader.st.docs[d].generation>> \in DOMAIN side =>
                             Selected(reader.st, d) = Value(reader.commits, d)
    BY DEF ReaderSeesAPrefix
  <2> DEFINE L == main.lines
             one == setup.oneAddress
  <2>1. PICK n \in 0..Recovered.confirmed : ReplayedTo(n) BY DEF ReaderInv
  <2> DEFINE r == Replay(Cut(L, n))
  <2>2. reader.st = r.st /\ reader.commits = r.commits BY <2>1 DEF ReplayedTo
  <2>3. L \in Seq(Lines) /\ Len(L) \in Nat /\ GoodLog(L, one) /\ TrueLog(L) BY FloorFacts DEF SideInv
  <2>4. n \in 0..Len(L)
    <3>1. Recovered.confirmed \in 0..Len(L) BY <2>3, ConfirmedPart DEF Recovered
    <3> HIDE DEF L
    <3> QED BY <2>3, <3>1
  <2>5. IsPrefix(r.commits, Replay(L).commits) BY <2>3, <2>4, LogWhole DEF Grows
  <2>6. DocsOf(Cut(L, n)) = r.st.docs /\ r.st.docs \in Seen BY <2>4 DEF DocsOf, Seen, Snapshots
  <2>7. Sound(r.st, one) /\ r.commits \in Seq(Commits) BY <2>3, <2>4, PointDocs
  <2>8. Tells(r.st.docs, r.commits) BY <2>3, <2>4, <2>6 DEF TrueLog
  <2> HIDE DEF r
  <2>9. ASSUME NEW d \in DOMAIN r.st.docs, <<d, r.st.docs[d].generation>> \in DOMAIN side
        PROVE  Selected(r.st, d) = Value(r.commits, d)
    <3> DEFINE f == <<d, r.st.docs[d].generation>>
               slices == r.st.docs[d].slices
    <3>1. slices \in Seq(Slices) /\ slices # <<>> /\ Numbered(slices) /\ d \in Docs BY <2>7, ConfirmedIs
    <3>2. Holds(side[f], slices, setup.powerFails) BY <2>6, <2>9 DEF SideInv, FilesFit, NameOf
    <3>3. File(f) = side[f] /\ File(f).recs \in Seq(Recs) BY <2>9, FileTypes DEF Inv, File
    <3>4. Descends(slices, r.commits, d) BY <2>8, <3>1 DEF Tells, SlicesOf
    <3> QED BY <2>7, <3>1, <3>2, <3>3, <3>4, SelectedIsValue
  <2> QED BY <2>2, <2>5, <2>9
<1>2. RInit => ReaderInv BY DEF RInit, ReaderInv, Closed
<1>3. Inv /\ Inv' /\ ReaderInv /\ [RNext]_rvars => ReaderInv' BY ReaderKeeps
<1>4. RSpec => []Inv BY StoreInv
<1>5. RSpec => []SideInv BY SidecarsFit
<1> QED BY <1>1, <1>2, <1>3, <1>4, <1>5, PTL DEF RSpec

-----------------------------------------------------------------------------
(* Refinement. *)

\* The markers of a prefix are a prefix of the markers.
LEMMA MarkersCut ==
  ASSUME NEW L \in Seq(Lines), NEW n \in 0..Len(L)
  PROVE  IsPrefix(Markers(Cut(L, n)), Markers(L)) /\ Markers(Cut(L, n)) \in Seq(MarkerLines)
<1> DEFINE U == {t \in Seq(Lines) : \A k \in 0..Len(t) : IsPrefix(Markers(Cut(t, k)), Markers(t))}
<1>1. <<>> \in U
  <2> DEFINE e == <<>>
  <2>1. e \in Seq(Lines) /\ Len(e) = 0 OBVIOUS
  <2> HIDE DEF e
  <2>2. \A k \in 0..Len(e) : Cut(e, k) = e
    <3> TAKE k \in 0..Len(e)
    <3>1. k = Len(e) BY <2>1
    <3> QED BY <3>1, <2>1, CutFacts
  <2>3. Markers(e) \in Seq(MarkerLines) BY <2>1, MarkersType
  <2>4. IsPrefix(Markers(e), Markers(e)) BY <2>3, PrefixFacts
  <2> QED BY <2>1, <2>2, <2>4 DEF e
<1>2. ASSUME NEW t \in Seq(Lines), NEW x \in Lines, t \in U PROVE Append(t, x) \in U
  <2> DEFINE s == Append(t, x)
  <2>1. s \in Seq(Lines) /\ Len(s) = Len(t) + 1 /\ Len(t) \in Nat OBVIOUS
  <2>2. /\ \A k \in 0..Len(t) : Cut(s, k) = Cut(t, k) BY CutFacts
  <2>3. Markers(s) = IF x.kind = "marker" THEN Append(Markers(t), x) ELSE Markers(t) BY MarkersAppend
  <2>4. Markers(t) \in Seq(MarkerLines) BY MarkersType
  <2> HIDE DEF s
  <2>5. Markers(s) \in Seq(MarkerLines) BY <2>1, MarkersType
  <2>6. IsPrefix(Markers(t), Markers(s))
    <3>1. CASE x.kind = "marker" BY <3>1, <2>3, <2>4, LineKinds, PrefixFacts
    <3>2. CASE x.kind # "marker" BY <3>2, <2>3, <2>4, PrefixFacts
    <3> QED BY <3>1, <3>2
  <2>7. ASSUME NEW k \in 0..Len(s) PROVE IsPrefix(Markers(Cut(s, k)), Markers(s))
    <3>1. CASE k = Len(s)
      <4>1. Cut(s, k) = s BY <2>1, <3>1, CutFacts
      <4> QED BY <4>1, <2>5, PrefixFacts
    <3>2. CASE k # Len(s)
      <4>1. k \in 0..Len(t) BY <3>2, <2>1
      <4> DEFINE a == Markers(Cut(t, k))
                 b == Markers(t)
                 c == Markers(s)
      <4>2. IsPrefix(a, b) BY <4>1, <1>2
      <4>3. a \in Seq(MarkerLines)
        <5>1. Cut(t, k) \in Seq(Lines) BY <4>1, CutFacts
        <5> QED BY <5>1, MarkersType
      <4>4. b \in Seq(MarkerLines) /\ c \in Seq(MarkerLines) /\ IsPrefix(b, c) BY <2>4, <2>5, <2>6
      <4> HIDE DEF a, b, c
      <4>5. IsPrefix(a, c) BY <4>2, <4>3, <4>4, PrefixFacts
      <4> QED BY <4>1, <4>5, <2>2 DEF a, c
    <3> QED BY <3>1, <3>2
  <2> QED BY <2>1, <2>7 DEF s
<1>3. Seq(Lines) \subseteq U
  <2> HIDE DEF U
  <2> QED BY <1>1, <1>2, SeqSetInduction
<1>4. Cut(L, n) \in Seq(Lines) BY CutFacts
<1> QED BY <1>3, <1>4, MarkersType

\* Of markers numbered as they come, those up to the n-th are the first n.
LEMMA FirstMarkers ==
  ASSUME NEW M \in Seq(MarkerLines), \A i \in 1..Len(M) : M[i].seq = i, NEW n \in 0..Len(M)
  PROVE  Len(Filter(M, {line \in ToSet(M) : line.seq <= n})) = n
<1> DEFINE S == {line \in ToSet(M) : line.seq <= n}
<1>1. ToSet(M) = {M[i] : i \in 1..Len(M)} BY ToSetFacts
<1>2. \A i \in 1..Len(M) : M[i] \in S <=> i <= n BY <1>1
<1> HIDE DEF S
<1>3. Filter(M, S) = SubSeq(M, 1, n) BY <1>2, FilterPrefix
<1>4. Len(SubSeq(M, 1, n)) = n BY CutFacts DEF Cut
<1> QED BY <1>3, <1>4 DEF S

\* What the abstract store's variables are here.
PLog    == Markers(main.lines)
PSeen   == IF mode = "open" THEN Len(Published) ELSE 0
PSafe   == Len(Markers(SubSeq(main.lines, 1, main.flushed)))
PStatus == CASE mode \in {"down", "repair", "corrupt"} -> "down"
             [] mode = "closed" -> "closed"
             [] mode = "open" -> IF poison THEN "poisoned" ELSE "up"

\* The status, by mode.
LEMMA StatusFacts ==
  /\ mode = "open" => PStatus = IF poison THEN "poisoned" ELSE "up"
  /\ mode = "closed" => PStatus = "closed"
  /\ mode \in {"down", "repair", "corrupt"} => PStatus = "down"
BY DEF PStatus

\* The log of the abstract store, by the invariant.
LEMMA AbstractFacts ==
  ASSUME Inv
  PROVE  /\ PLog \in Seq(MarkerLines) /\ Len(PLog) \in Nat /\ Len(PLog) = Recovered.st.last
         /\ \A i \in 1..Len(PLog) : PLog[i].seq = i
         /\ PSafe \in 0..Len(PLog)
         /\ \A n \in main.flushed..Len(main.lines) : PSafe <= Len(Markers(Cut(main.lines, n)))
         /\ mode = "open" /\ st.last \in 0..Len(PLog) => PSeen = st.last
<1> DEFINE L == main.lines
           one == setup.oneAddress
           f == main.flushed
<1>1. GoodLog(L, one) /\ f \in Nat /\ f <= Len(L) BY DEF Inv, Types
<1>2. L \in Seq(Lines) /\ Whole(L, one) /\ Len(L) \in Nat BY <1>1, LogWhole
<1>3. PLog \in Seq(MarkerLines) BY <1>2, MarkersType DEF PLog
<1>4. Len(PLog) = Recovered.st.last /\ \A i \in 1..Len(PLog) : PLog[i].seq = i
  BY <1>2 DEF Whole, PLog, Recovered
<1>5. Len(PLog) \in Nat BY <1>3
<1>6. PSafe = Len(Markers(Cut(L, f))) BY DEF PSafe, Cut
<1> HIDE DEF L, f
<1>7. f \in 0..Len(L) BY <1>1, <1>2
<1>8. \A n \in 0..Len(L) : Len(Markers(Cut(L, n))) \in Nat /\ Len(Markers(Cut(L, n))) <= Len(Markers(L))
  <2> TAKE n \in 0..Len(L)
  <2> DEFINE a == Markers(Cut(L, n))
             b == Markers(L)
  <2>1. IsPrefix(a, b) /\ a \in Seq(MarkerLines) /\ b \in Seq(MarkerLines) BY <1>2, MarkersCut, MarkersType
  <2> HIDE DEF a, b
  <2>2. Len(a) \in Nat /\ Len(a) <= Len(b) BY <2>1, PrefixFacts
  <2> QED BY <2>2 DEF a, b
<1>9. PSafe \in 0..Len(PLog) BY <1>5, <1>6, <1>7, <1>8 DEF PLog, L
<1>10. ASSUME NEW n \in f..Len(L) PROVE PSafe <= Len(Markers(Cut(L, n)))
  <2>1. n \in 0..Len(L) /\ f \in 0..n BY <1>7, <1>2
  <2> DEFINE c == Cut(L, n)
  <2>2. c \in Seq(Lines) /\ Len(c) = n /\ Cut(c, f) = Cut(L, f) BY <1>2, <2>1, CutFacts
  <2> HIDE DEF c
  <2> DEFINE a == Markers(Cut(c, f))
             b == Markers(c)
  <2>3. IsPrefix(a, b) /\ a \in Seq(MarkerLines) /\ b \in Seq(MarkerLines) BY <2>1, <2>2, MarkersCut, MarkersType
  <2> HIDE DEF a, b
  <2>4. Len(a) <= Len(b) BY <2>3, PrefixFacts
  <2> QED BY <1>6, <2>2, <2>4 DEF a, b, c
<1>11. ASSUME mode = "open", st.last \in 0..Len(PLog) PROVE PSeen = st.last
  <2> DEFINE n == st.last
  <2>1. Published = Filter(PLog, {line \in ToSet(PLog) : line.seq <= n}) BY DEF Published, PLog
  <2>2. n \in 0..Len(PLog) BY <1>11
  <2> HIDE DEF n
  <2>3. Len(Published) = n BY <2>1, <2>2, <1>3, <1>4, FirstMarkers
  <2> QED BY <1>11, <2>3 DEF PSeen, n
<1> QED BY <1>3, <1>4, <1>5, <1>9, <1>10, <1>11 DEF f, L

\* An open store that is not between its marker and its publication has published it all.
LEMMA SeenAll ==
  ASSUME Inv, mode = "open", ~poison, job.at # "publish"
  PROVE  PSeen = Len(PLog) /\ st.last = Len(PLog) /\ PStatus = "up"
<1>1. Agrees(st, Recovered.st)
  <2>1. CASE job \in CommitJobs BY <2>1 DEF Inv, Memory, Committing
  <2>2. CASE job \notin CommitJobs BY <2>2 DEF Inv, Memory, Settled
  <2> QED BY <2>1, <2>2
<1>2. st.last = Len(PLog) /\ Len(PLog) \in Nat BY <1>1, AbstractFacts DEF Agrees
<1>3. PSeen = st.last BY <1>2, AbstractFacts
<1> QED BY <1>2, <1>3, StatusFacts

\* The abstract store's sequence operators are the ones used here.
LEMMA PicoOperators ==
  /\ \A s, t : Pico!IsPrefix(s, t) <=> IsPrefix(s, t)
  /\ \A s : Pico!Last(s) = Last(s)
BY DEF Pico!IsPrefix, IsPrefix, Pico!Last, Last

\* The abstract variables, under the names they have here.
LEMMA PicoVariables ==
  /\ Pico!vars = <<PLog, PSeen, PSafe, wrote, PStatus, setup.powerFails>>
  /\ Pico!Init <=> /\ PLog = <<>> /\ PSeen = 0 /\ PSafe = 0 /\ wrote = FALSE /\ PStatus = "down"
                   /\ setup.powerFails \in BOOLEAN
BY DEF Pico!vars, Pico!Init, PLog, PSeen, PSafe, PStatus

\* Nothing that the abstract store can see.
LEMMA Stutters ==
  ASSUME PLog' = PLog, PSeen' = PSeen, PSafe' = PSafe, wrote' = wrote, PStatus' = PStatus, setup' = setup
  PROVE  UNCHANGED Pico!vars
BY DEF Pico!vars, PLog, PSeen, PSafe, PStatus

\* A commit of unknown outcome.
LEMMA Poisons ==
  ASSUME PStatus = "up", PSeen = Len(PLog), PStatus' = "poisoned",
         PLog' = PLog, PSeen' = PSeen, PSafe' = PSafe, wrote' = wrote, setup' = setup
  PROVE  Pico!Next
<1>1. Pico!Poison BY DEF Pico!Poison, PLog, PSeen, PSafe, PStatus
<1> QED BY <1>1 DEF Pico!Next

\* A flush, or a line that is no marker.
LEMMA Maintains ==
  ASSUME PStatus = "up", PStatus' = "up", PLog' = PLog, PSeen' = PSeen, PSafe' \in PSafe..Len(PLog),
         wrote' \in {wrote, TRUE}, setup' = setup
  PROVE  Pico!Next
<1>1. Pico!Maintain BY DEF Pico!Maintain, PLog, PSeen, PSafe, PStatus
<1> QED BY <1>1 DEF Pico!Next

\* A marker.
LEMMA Writes_ ==
  ASSUME PStatus = "up", PSeen = Len(PLog), PStatus' = "up", PSeen' = PSeen, PSafe' = PSafe, wrote' = TRUE, setup' = setup,
         PLog \in Seq(MarkerLines), \A i \in 1..Len(PLog) : PLog[i].seq = i,
         NEW x \in MarkerLines, PLog' = Append(PLog, x), x.seq = Len(PLog) + 1
  PROVE  Pico!Next
<1> DEFINE a == PLog
           b == PLog'
<1>1. a \in Seq(MarkerLines) /\ b = Append(a, x) OBVIOUS
<1>2. Len(b) = Len(a) + 1 /\ IsPrefix(a, b) /\ Last(b) = x
  <2> HIDE DEF a
  <2>1. IsPrefix(a, Append(a, x)) BY <1>1, PrefixFacts
  <2>2. Len(b) = Len(a) + 1 /\ b[Len(a) + 1] = x BY <1>1
  <2> HIDE DEF b
  <2> QED BY <2>1, <2>2, <1>1 DEF Last
<1>3. x.seq = Pico!NextSeq
  <2>1. Pico!NextSeq = IF a = <<>> THEN 1 ELSE Last(a).seq + 1 BY PicoOperators DEF Pico!NextSeq, PLog
  <2>2. CASE a = <<>>
    <3>1. Len(a) = 0 BY <2>2
    <3> QED BY <2>1, <2>2, <3>1
  <2>3. CASE a # <<>>
    <3>1. Len(a) \in 1..Len(a)
      <4> HIDE DEF a
      <4> QED BY <2>3, <1>1
    <3>2. Last(a).seq = Len(a) BY <3>1 DEF Last
    <3> QED BY <2>1, <2>3, <3>2
  <2> QED BY <2>2, <2>3
<1>4. Pico!Write BY <1>2, <1>3, PicoOperators DEF Pico!Write, PLog, PSeen, PSafe, PStatus
<1> QED BY <1>4 DEF Pico!Next

\* What is published is the log.
LEMMA Publishes_ ==
  ASSUME PStatus = "up", PStatus' = "up", PSeen < Len(PLog), PSeen' = Len(PLog), PLog' = PLog, PSafe' = PSafe,
         wrote' = wrote, setup' = setup
  PROVE  Pico!Next
<1>1. Pico!Publish BY DEF Pico!Publish, PLog, PSeen, PSafe, PStatus
<1> QED BY <1>1 DEF Pico!Next

\* A close that succeeds.
LEMMA Closes ==
  ASSUME PStatus \in {"up", "poisoned"}, PStatus' = "closed", PSeen' = 0, PLog' = PLog, wrote' = FALSE, setup' = setup,
         PSafe' = IF wrote THEN Len(PLog) ELSE PSafe
  PROVE  Pico!Next
<1>1. Pico!Close BY DEF Pico!Close, PLog, PSeen, PSafe, PStatus
<1> QED BY <1>1 DEF Pico!Next

\* A crash, or a close that fails.
LEMMA Stops ==
  ASSUME PStatus \in {"up", "poisoned"}, PStatus' = "down", PSeen' = 0, PLog' = PLog, PSafe' = PSafe, wrote' = FALSE,
         setup' = setup
  PROVE  Pico!Next
<1>1. Pico!Stop BY DEF Pico!Stop, PLog, PSeen, PSafe, PStatus
<1> QED BY <1>1 DEF Pico!Next

\* A repair.
LEMMA Recovers ==
  ASSUME PStatus \in {"down", "closed"}, PStatus' = "down", PLog' = PLog, PSeen' = PSeen, PSafe' \in PSafe..Len(PLog),
         wrote' = wrote, setup' = setup
  PROVE  Pico!Next
<1>1. Pico!Recover BY DEF Pico!Recover, PLog, PSeen, PSafe, PStatus
<1> QED BY <1>1 DEF Pico!Next

\* An open.
LEMMA Opens ==
  ASSUME PStatus = "down", PStatus' = "up", PLog' = PLog, PSeen' = Len(PLog), PSafe' = PSafe, wrote' = FALSE,
         setup' = setup
  PROVE  Pico!Next
<1>1. Pico!Open BY DEF Pico!Open, PLog, PSeen, PSafe, PStatus
<1> QED BY <1>1 DEF Pico!Next

\* A power loss.
LEMMA LosesPower ==
  ASSUME setup.powerFails, PStatus' = "down", PSeen' = 0, wrote' = FALSE, setup' = setup,
         IsPrefix(PLog', PLog), Len(PLog') >= PSafe, PSafe' \in PSafe..Len(PLog')
  PROVE  Pico!Next
<1>1. Pico!PowerLoss BY PicoOperators DEF Pico!PowerLoss, PLog, PSeen, PSafe, PStatus
<1> QED BY <1>1 DEF Pico!Next

\* main.jsonl as it was, flushed, or with a line more.
LEMMA SameMain ==
  ASSUME main' = main
  PROVE  PLog' = PLog /\ PSafe' = PSafe
BY DEF PLog, PSafe

\* A flush of main.jsonl makes every marker durable.
LEMMA FlushedLog ==
  ASSUME Inv, main' = FlushedMain
  PROVE  PLog' = PLog /\ PSafe' = Len(PLog)
<1> DEFINE L == main.lines
<1>1. main \in [lines : Seq(Lines), flushed : Nat] BY DEF Inv, Types
<1>2. main'.lines = L /\ main'.flushed = Len(L) BY <1>1, FlushedFacts
<1>3. Cut(L, Len(L)) = L BY <1>1, CutFacts
<1>4. PSafe' = Len(Markers(Cut(L, Len(L)))) BY <1>2 DEF PSafe, Cut
<1> QED BY <1>2, <1>3, <1>4 DEF PLog

\* The abstract log takes a line if it is a marker.
LEMMA LongerLog ==
  ASSUME Inv, NEW x \in Lines, MainIs(Append(main.lines, x))
  PROVE  PLog' = (IF x.kind = "marker" THEN Append(PLog, x) ELSE PLog) /\ PSafe' = PSafe
<1> DEFINE L == main.lines
           M == Append(L, x)
<1>1. main \in [lines : Seq(Lines), flushed : Nat] /\ main.flushed <= Len(L) BY DEF Inv, Types
<1>2. L \in Seq(Lines) /\ M \in Seq(Lines) /\ main.flushed \in 0..Len(L) BY <1>1
<1>3. Cut(M, main.flushed) = Cut(L, main.flushed)
  <2> DEFINE f == main.flushed
  <2>1. f \in 0..Len(L) BY <1>2
  <2> HIDE DEF f, L
  <2> QED BY <2>1, <1>2, CutFacts DEF f
<1>4. MainIs(M) OBVIOUS
<1>5. Markers(M) = IF x.kind = "marker" THEN Append(Markers(L), x) ELSE Markers(L)
  <2> HIDE DEF L
  <2> QED BY <1>2, MarkersAppend
<1> HIDE DEF M
<1>6. main'.lines = M /\ main'.flushed = main.flushed BY <1>1, <1>2, <1>4, MainIsFacts
<1>7. PSafe' = Len(Markers(Cut(M, main.flushed))) BY <1>6 DEF PSafe, Cut
<1> QED BY <1>3, <1>5, <1>6, <1>7 DEF PLog, PSafe, Cut

\* Half a line is no marker.
LEMMA ShortLog ==
  ASSUME Inv, MainIs(CutShort(main.lines)) \/ main' = main
  PROVE  PLog' = PLog /\ PSafe' = PSafe
<1> DEFINE L == main.lines
           M == CutShort(L)
<1>1. main \in [lines : Seq(Lines), flushed : Nat] /\ main.flushed <= Len(L) /\ GoodLog(L, setup.oneAddress)
  BY DEF Inv, Types
<1>2. main.flushed \in 0..Len(L) BY <1>1
<1>3. /\ GoodLog(M, setup.oneAddress) /\ Markers(M) = Markers(L)
      /\ \A n \in 0..Len(L) : Cut(M, n) = Cut(L, n)
  BY <1>1, LogCutShort
<1>4. CASE MainIs(CutShort(main.lines))
  <2>1. MainIs(M) BY <1>4
  <2> HIDE DEF M
  <2>2. M \in Seq(Lines) BY <1>3 DEF GoodLog
  <2>3. main'.lines = M /\ main'.flushed = main.flushed BY <1>1, <2>1, <2>2, MainIsFacts
  <2>4. PSafe' = Len(Markers(Cut(M, main.flushed))) BY <2>3 DEF PSafe, Cut
  <2> QED BY <1>2, <1>3, <2>3, <2>4 DEF PLog, PSafe, Cut
<1> QED BY <1>4, SameMain

\* What an open store has published, by the sequence of its last commit.
LEMMA SeenIs ==
  ASSUME mode' = "open", NEW M \in Seq(MarkerLines), PLog' = M, \A i \in 1..Len(M) : M[i].seq = i,
         NEW n \in 0..Len(M), st'.last = n
  PROVE  PSeen' = n
<1>1. Published' = Filter(PLog', {line \in ToSet(PLog') : line.seq <= n}) BY DEF Published, PLog
<1>2. Len(Published') = n BY <1>1, FirstMarkers
<1> QED BY <1>2 DEF PSeen

\* With the log and the last commit unchanged, as much of it is published.
LEMMA SameSeen ==
  ASSUME mode' = mode, PLog' = PLog, st'.last = st.last
  PROVE  PSeen' = PSeen
<1>1. Published' = Published BY DEF Published, PLog
<1> QED BY <1>1 DEF PSeen

\* The status of an open store.
LEMMA NextStatus ==
  /\ mode' = "open" => PStatus' = IF poison' THEN "poisoned" ELSE "up"
  /\ mode' = "closed" => PStatus' = "closed"
  /\ mode' \in {"down", "repair", "corrupt"} => PStatus' = "down"
  /\ mode' # "open" => PSeen' = 0
BY DEF PStatus, PSeen

\* A step that poisons, or shows nothing.
LEMMA PoisonsOrNot ==
  ASSUME Inv, mode = "open", ~poison, job.at # "publish", mode' = "open", st' = st,
         PLog' = PLog, PSafe' = PSafe, wrote' = wrote, setup' = setup, poison' = TRUE \/ poison' = poison
  PROVE  Pico!Next \/ UNCHANGED Pico!vars
<1>1. PSeen = Len(PLog) /\ PStatus = "up" BY SeenAll
<1>2. PSeen' = PSeen BY SameSeen
<1>3. CASE poison' = TRUE
  <2>1. PStatus' = "poisoned" BY <1>3, NextStatus
  <2> QED BY <1>1, <1>2, <2>1, Poisons
<1>4. CASE poison' = poison
  <2>1. PStatus' = PStatus
    <3>1. poison = FALSE BY DEF Inv, Types
    <3> QED BY <3>1, <1>4, NextStatus, StatusFacts
  <2> QED BY <1>2, <2>1, Stutters
<1> QED BY <1>3, <1>4

\* A step that flushes, or adds a line that is no marker.
LEMMA MaintainsHere ==
  ASSUME Inv, mode = "open", ~poison, mode' = "open", poison' = poison, st'.last = st.last,
         PLog' = PLog, PSafe' = PSafe \/ PSafe' = Len(PLog), wrote' \in {wrote, TRUE}, setup' = setup
  PROVE  Pico!Next
<1>1. poison = FALSE BY DEF Inv, Types
<1>2. PStatus = "up" /\ PStatus' = "up" BY <1>1, NextStatus, StatusFacts
<1>3. PSeen' = PSeen BY SameSeen
<1>4. PSafe' \in PSafe..Len(PLog)
  <2>1. PSafe \in 0..Len(PLog) /\ Len(PLog) \in Nat BY AbstractFacts
  <2> QED BY <2>1
<1> QED BY <1>2, <1>3, <1>4, Maintains

\* A commit that begins is not seen; one that finds a late error poisons.
LEMMA CommitPico == Inv /\ Commit => Pico!Next \/ UNCHANGED Pico!vars
<1> SUFFICES ASSUME Inv, NEW b, NEW rows, BeginCommit(b, rows) PROVE Pico!Next \/ UNCHANGED Pico!vars
  BY DEF Commit
<1>1. /\ mode = "open" /\ job = Idle /\ ~poison
      /\ UNCHANGED <<main, mode, st, wrote, setup>> /\ (poison' = TRUE \/ poison' = poison)
  BY DEF BeginCommit, Ready, disk
<1>2. job.at # "publish" BY <1>1 DEF Idle
<1> QED BY <1>1, <1>2, SameMain, PoisonsOrNot

\* Content is not seen; an append that fails poisons.
LEMMA AppendContentPico == Inv /\ AppendContent => Pico!Next \/ UNCHANGED Pico!vars
<1> SUFFICES ASSUME Inv, AppendContent PROVE Pico!Next \/ UNCHANGED Pico!vars OBVIOUS
<1>1. /\ mode = "open" /\ job.at = "content"
      /\ UNCHANGED <<main, mode, st, wrote, setup>> /\ (poison' = TRUE \/ poison' = poison)
  BY DEF AppendContent, PoisonedBy
<1>2. ~poison BY <1>1, CommittingFacts
<1> QED BY <1>1, <1>2, SameMain, PoisonsOrNot

\* Nor are the flushes of sidecars.
LEMMA FlushSidecarsPico == Inv /\ FlushSidecars => Pico!Next \/ UNCHANGED Pico!vars
<1> SUFFICES ASSUME Inv, FlushSidecars PROVE Pico!Next \/ UNCHANGED Pico!vars OBVIOUS
<1>1. /\ mode = "open" /\ job.at = "flush"
      /\ UNCHANGED <<main, mode, st, wrote, setup>> /\ (poison' = TRUE \/ poison' = poison)
  BY DEF FlushSidecars, PoisonedBy
<1>2. ~poison BY <1>1, CommittingFacts
<1> QED BY <1>1, <1>2, SameMain, PoisonsOrNot

\* Record lines change nothing that the abstract store sees; the marker is its write.
LEMMA AppendMainPico == Inv /\ AppendMain => Pico!Next \/ UNCHANGED Pico!vars
<1> SUFFICES ASSUME Inv, AppendMain PROVE Pico!Next \/ UNCHANGED Pico!vars OBVIOUS
<1> DEFINE L == main.lines
           plan == job.plan
           mark == Marker(job.seq, Len(plan), job.ends)
           next == IF job.sent < Len(plan) THEN plan[job.sent + 1] ELSE mark
<1>1. mode = "open" /\ job.at = "main" /\ UNCHANGED <<mode, st, setup>> BY DEF AppendMain, PoisonedBy
<1>2. job \in CommitJobs /\ ~poison /\ poison = FALSE /\ Committing BY <1>1, CommittingFacts
<1>3. PSeen = Len(PLog) /\ st.last = Len(PLog) /\ PStatus = "up" BY <1>1, <1>2, SeenAll
<1>4. CASE PoisonedBy /\ (MainIs(CutShort(L)) \/ main' = main) /\ wrote' = wrote
  <2>1. poison' = TRUE BY <1>4 DEF PoisonedBy
  <2>2. PLog' = PLog /\ PSafe' = PSafe BY <1>4, ShortLog
  <2> QED BY <1>1, <1>2, <1>4, <2>1, <2>2, PoisonsOrNot
<1>5. CASE MainIs(Written(L, next)) /\ wrote' = TRUE /\ poison' = poison
  <2>1. plan \in Seq(RecordLines) /\ Len(plan) \in Nat /\ job.seq \in Nat /\ job.sent \in Nat /\ job.ends \in Ends
    BY <1>2 DEF CommitJobs
  <2>2. ~EndsTorn(L) /\ job.sent \in 0..Len(plan) /\ job.seq = st.last + 1 BY <1>1, <1>2 DEF Committing
  <2>3. mark \in MarkerLines /\ mark.kind = "marker" /\ mark.seq = job.seq BY <2>1 DEF Marker, MarkerLines
  <2>4. MainIs(Append(L, next)) BY <1>5, <2>2, WrittenWhole
  <2>5. CASE job.sent < Len(plan)
    <3>1. next = plan[job.sent + 1] /\ next \in RecordLines BY <2>1, <2>5
    <3> HIDE DEF next
    <3>2. next.kind # "marker" /\ next \in Lines BY <3>1, LineKinds
    <3>3. PLog' = PLog /\ PSafe' = PSafe BY <2>4, <3>2, LongerLog
    <3> QED BY <1>1, <1>2, <1>5, <3>3, MaintainsHere
  <2>6. CASE ~(job.sent < Len(plan))
    <3>1. next = mark BY <2>6
    <3> HIDE DEF next, mark
    <3>2. mark \in Lines BY <2>3, LineKinds
    <3>3. PLog' = Append(PLog, mark) /\ PSafe' = PSafe BY <2>3, <2>4, <3>1, <3>2, LongerLog
    <3> DEFINE a == PLog
               M == Append(a, mark)
               n == Len(a)
    <3>4. a \in Seq(MarkerLines) /\ \A i \in 1..n : a[i].seq = i BY AbstractFacts
    <3>5. mark.seq = n + 1 BY <1>3, <2>2, <2>3
    <3> HIDE DEF a
    <3>6. M \in Seq(MarkerLines) /\ Len(M) = n + 1 /\ n \in Nat /\ M[n + 1] = mark /\ \A i \in 1..n : M[i] = a[i]
      BY <2>3, <3>4
    <3>7. \A i \in 1..Len(M) : M[i].seq = i
      <4> TAKE i \in 1..Len(M)
      <4> HIDE DEF M, n
      <4>1. i \in 1..n \/ i = n + 1 BY <3>6
      <4> QED BY <4>1, <3>4, <3>5, <3>6
    <3>8. n \in 0..Len(M)
      <4> HIDE DEF M, n
      <4> QED BY <3>6
    <3>9. PSeen' = n
      <4>1. st'.last = n /\ mode' = "open" BY <1>1, <1>3 DEF a
      <4>2. PLog' = M BY <3>3 DEF a
      <4> HIDE DEF M, n
      <4> QED BY <3>6, <3>7, <3>8, <4>1, <4>2, SeenIs
    <3>10. PStatus' = "up" BY <1>1, <1>2, <1>5, NextStatus
    <3>11. PSeen' = PSeen BY <1>3, <3>9 DEF a
    <3> HIDE DEF M, n
    <3>12. PLog \in Seq(MarkerLines) /\ \A i \in 1..Len(PLog) : PLog[i].seq = i BY AbstractFacts
    <3>13. mark.seq = Len(PLog) + 1 BY <3>5 DEF n, a
    <3> QED BY <1>1, <1>3, <1>5, <2>3, <3>3, <3>10, <3>11, <3>12, <3>13, Writes_
  <2> QED BY <2>5, <2>6
<1> QED BY <1>4, <1>5 DEF AppendMain

\* Publication is Publish.
LEMMA PublishPico == Inv /\ Publish => Pico!Next
<1> SUFFICES ASSUME Inv, Publish PROVE Pico!Next OBVIOUS
<1> DEFINE u == ApplyAll(st, Append(job.plan, Marker(job.seq, Len(job.plan), job.ends))).st
<1>1. mode = "open" /\ job.at = "publish" /\ st' = u /\ UNCHANGED <<main, mode, poison, wrote, setup>>
  BY DEF Publish, disk
<1>2. ~poison /\ poison = FALSE /\ Committing BY <1>1, CommittingFacts
<1>3. u.last = job.seq /\ Agrees(u, Recovered.st) /\ job.seq = st.last + 1
  BY <1>1, <1>2, CommitTakes DEF Committing, Committed
<1> HIDE DEF u
<1> DEFINE n == Len(PLog)
<1>4. n = st'.last /\ n = st.last + 1 /\ n \in Nat BY <1>1, <1>3, AbstractFacts DEF Agrees
<1>5. st.last \in Nat BY DEF Inv, Types, States
<1>6. st.last \in 0..n /\ n \in 0..n BY <1>4, <1>5
<1>7. PSeen = st.last BY <1>1, <1>6, AbstractFacts
<1>8. PLog' = PLog /\ PSafe' = PSafe BY <1>1, SameMain
<1>9. PLog \in Seq(MarkerLines) /\ \A i \in 1..n : PLog[i].seq = i BY AbstractFacts
<1>10. PSeen' = n BY <1>1, <1>4, <1>6, <1>8, <1>9, SeenIs
<1>11. PStatus = "up" /\ PStatus' = "up" BY <1>1, <1>2, StatusFacts, NextStatus
<1>12. PSeen < n BY <1>4, <1>5, <1>7
<1> QED BY <1>1, <1>8, <1>10, <1>11, <1>12, Publishes_

\* A copy is Maintain, whether main.jsonl is flushed or not.
LEMMA CopyTailPico == Inv /\ CopyTail => Pico!Next
<1> SUFFICES ASSUME Inv, CopyTail PROVE Pico!Next OBVIOUS
<1>1. /\ mode = "open" /\ job.at = "reclaim" /\ UNCHANGED <<mode, st, poison, wrote, setup>>
      /\ main' = main \/ main' = FlushedMain
  BY DEF CopyTail, Defer, disk
<1>2. job # Idle BY <1>1 DEF Idle
<1>3. ~poison BY <1>2 DEF Inv, Memory
<1> QED BY <1>1, <1>3, SameMain, FlushedLog, MaintainsHere

\* So is a removal.
LEMMA RemoveOldPico == Inv /\ RemoveOld => Pico!Next
<1> SUFFICES ASSUME Inv, RemoveOld PROVE Pico!Next OBVIOUS
<1>1. /\ mode = "open" /\ job.at = "remove" /\ UNCHANGED <<mode, st, poison, wrote, setup>>
      /\ main' = main \/ main' = FlushedMain
  BY DEF RemoveOld, disk
<1>2. ~poison BY <1>1, AuthorisingFacts
<1> QED BY <1>1, <1>2, SameMain, FlushedLog, MaintainsHere

\* So is a Reclaim line.
LEMMA AuthoriseReclaimPico == NoTornReclaims /\ Inv /\ AuthoriseReclaim => Pico!Next
<1> SUFFICES ASSUME NoTornReclaims, Inv, AuthoriseReclaim PROVE Pico!Next OBVIOUS
<1> DEFINE d == job.doc
           gen == st.docs[d].generation + 1
           keep == Rebased(st.docs[d].slices)
           line == Reclaim(d, gen, keep)
<1>1. "reclaimAppend" \notin setup.faults BY DEF NoTornReclaims, Inv, Types
<1>2. /\ mode = "open" /\ job.at = "authorise"
      /\ MainIs(Written(main.lines, line)) /\ st' = Apply(st, line) /\ wrote' = TRUE
      /\ UNCHANGED <<mode, poison, setup>>
  BY <1>1 DEF AuthoriseReclaim
<1>3. /\ ~poison /\ Settled /\ d \in DOMAIN st.docs /\ d \in job.docs BY <1>2, AuthorisingFacts
<1>4. Clean /\ Reclaimable(st, d) BY <1>2, <1>3 DEF Settled
<1>5. Sound(st, setup.oneAddress) BY DEF Inv, Memory
<1>6. keep \in Seq(Slices) /\ Numbered(keep) /\ keep # <<>> /\ gen \in Nat BY <1>3, <1>4, <1>5, ReclaimableFacts
<1>7. line.kind = "reclaim" /\ line \in Lines
  <2>1. d \in Docs BY <1>2, AuthorisingFacts
  <2> HIDE DEF d, gen, keep
  <2>2. line \in ReclaimLines /\ line.kind = "reclaim" BY <1>6, <2>1 DEF Reclaim, ReclaimLines
  <2> HIDE DEF line
  <2> QED BY <2>2, LineKinds
<1>8. st'.last = st.last
  <2>1. Apply(st, line).last = st.last
    <3> DEFINE s == st
               one == setup.oneAddress
    <3>1. Sound(s, one) /\ d \in DOMAIN s.docs BY <1>3, <1>5
    <3> HIDE DEF s, gen, keep, d, one
    <3>2. LET x == Reclaim(d, gen, keep)
              w == Apply(s, x)
          IN  /\ x \in ReclaimLines /\ Applicable(s, x) /\ Sound(w, one)
              /\ w.docs = Reclaimed(s.docs, d, gen, keep)
              /\ DOMAIN w.docs = DOMAIN s.docs
              /\ \A e \in DOMAIN s.docs \ {d} : w.docs[e] = s.docs[e]
              /\ w.docs[d].generation = gen /\ w.docs[d].slices = keep /\ w.docs[d].open = s.docs[d].open
              /\ w.last = s.last /\ w.rows = s.rows /\ w.next = s.next /\ w.reserved = s.reserved
      BY <3>1, <1>6, ReclaimApplies
    <3> QED BY <3>2 DEF s
  <2> QED BY <1>2, <2>1
<1> HIDE DEF line
<1>9. MainIs(Append(main.lines, line)) BY <1>2, <1>4, WrittenWhole DEF Clean
<1>10. PLog' = PLog /\ PSafe' = PSafe BY <1>7, <1>9, LongerLog
<1> QED BY <1>2, <1>3, <1>8, <1>10, MaintainsHere

\* So is a mint; one that fails poisons.
LEMMA MintRawPico == Inv /\ MintRaw => Pico!Next \/ UNCHANGED Pico!vars
<1> SUFFICES ASSUME Inv, MintRaw PROVE Pico!Next \/ UNCHANGED Pico!vars OBVIOUS
<1> DEFINE high == st.next + IdBlock - 1
           line == Mint(high)
<1>1. Ready /\ ~poison /\ mode' = mode /\ setup' = setup BY DEF MintRaw
<1>2. mode = "open" /\ job = Idle /\ Settled /\ job.at # "publish" BY <1>1, ReadyFacts DEF Idle
<1>3. CASE /\ poison' = TRUE /\ UNCHANGED <<st, wrote>>
           /\ MainIs(CutShort(main.lines)) \/ main' = main
  BY <1>1, <1>2, <1>3, ShortLog, PoisonsOrNot
<1>4. CASE /\ IF st.next > st.reserved THEN MainIs(Written(main.lines, line)) ELSE UNCHANGED main
           /\ wrote' = (wrote \/ st.next > st.reserved)
           /\ st'.last = st.last
           /\ poison' = poison
  <2>1. wrote \in BOOLEAN /\ st \in States BY DEF Inv, Types
  <2>2. wrote' \in {wrote, TRUE} BY <1>4, <2>1
  <2>3. line \in Lines /\ line.kind = "mint"
    <3>1. high \in Nat BY <2>1, BlockAssumption DEF States
    <3> HIDE DEF high
    <3>2. line \in MintLines /\ line.kind = "mint" BY <3>1 DEF Mint, MintLines
    <3> HIDE DEF line
    <3> QED BY <3>2, LineKinds
  <2> HIDE DEF line
  <2>4. PLog' = PLog /\ PSafe' = PSafe
    <3>1. CASE st.next > st.reserved
      <4>1. MainIs(Append(main.lines, line)) BY <1>2, <1>4, <3>1, WrittenWhole DEF Settled, Clean
      <4> QED BY <4>1, <2>3, LongerLog
    <3>2. CASE ~(st.next > st.reserved) BY <1>4, <3>2, SameMain
    <3> QED BY <3>1, <3>2
  <2> QED BY <1>1, <1>2, <1>4, <2>2, <2>4, MaintainsHere
<1>5. ASSUME st' = [st EXCEPT !.reserved = IF st.next > @ THEN high ELSE @, !.next = @ + 1] PROVE st'.last = st.last
  <2>1. st \in States BY DEF Inv, Types
  <2> HIDE DEF high
  <2> QED BY <2>1, <1>5 DEF States
<1> QED BY <1>3, <1>4, <1>5 DEF MintRaw

\* A late error is not seen before it is drained.
LEMMA FlushFailsLatePico == Inv /\ FlushFailsLate => UNCHANGED Pico!vars
<1> SUFFICES ASSUME Inv, FlushFailsLate PROVE UNCHANGED Pico!vars OBVIOUS
<1>1. UNCHANGED <<main, mode, st, poison, wrote, setup>> BY DEF FlushFailsLate, disk
<1>2. PLog' = PLog /\ PSafe' = PSafe BY <1>1, SameMain
<1>3. PSeen' = PSeen BY <1>1, <1>2, SameSeen
<1>4. PStatus' = PStatus BY <1>1 DEF PStatus
<1> QED BY <1>1, <1>2, <1>3, <1>4, Stutters

\* A close is Close or, if its flush fails, Stop.
LEMMA ClosePico == Inv /\ Close => Pico!Next
<1> SUFFICES ASSUME Inv, Close PROVE Pico!Next OBVIOUS
<1>1. mode = "open" /\ wrote' = FALSE /\ setup' = setup BY DEF Close, Ready, Dropped
<1>2. PStatus \in {"up", "poisoned"} BY <1>1, StatusFacts
<1>3. wrote \in BOOLEAN BY DEF Inv, Types
<1>4. CASE mode' = "closed" /\ main' = (IF wrote THEN FlushedMain ELSE main)
  <2>1. PStatus' = "closed" /\ PSeen' = 0 BY <1>4, NextStatus
  <2>2. PLog' = PLog /\ PSafe' = IF wrote THEN Len(PLog) ELSE PSafe
    <3>1. CASE wrote = TRUE BY <3>1, <1>4, FlushedLog
    <3>2. CASE wrote = FALSE BY <3>2, <1>4, SameMain
    <3> QED BY <3>1, <3>2, <1>3
  <2> QED BY <1>1, <1>2, <2>1, <2>2, Closes
<1>5. CASE mode' = "down" /\ main' = main
  <2>1. PStatus' = "down" /\ PSeen' = 0 BY <1>5, NextStatus
  <2> QED BY <1>1, <1>2, <1>5, <2>1, SameMain, Stops
<1> QED BY <1>4, <1>5 DEF Close

\* A kill of an open store is Stop; of one that is not, nothing.
LEMMA KillPico == Inv /\ Kill => Pico!Next \/ UNCHANGED Pico!vars
<1> SUFFICES ASSUME Inv, Kill PROVE Pico!Next \/ UNCHANGED Pico!vars OBVIOUS
<1>1. mode \in {"open", "repair"} /\ mode' = "down" /\ wrote' = FALSE /\ setup' = setup /\ main' = main
  BY DEF Kill, Gone, Dropped, disk
<1>2. PLog' = PLog /\ PSafe' = PSafe BY <1>1, SameMain
<1>3. PStatus' = "down" /\ PSeen' = 0 BY <1>1, NextStatus
<1>4. CASE mode = "open"
  <2>1. PStatus \in {"up", "poisoned"} BY <1>4, StatusFacts
  <2> QED BY <1>1, <1>2, <1>3, <2>1, Stops
<1>5. CASE mode = "repair"
  <2>1. wrote = FALSE BY <1>5 DEF Inv, Memory, Types
  <2>2. PStatus = "down" /\ PSeen = 0 BY <1>5, StatusFacts DEF PSeen
  <2> QED BY <1>1, <1>2, <1>3, <2>1, <2>2, Stutters
<1> QED BY <1>1, <1>4, <1>5

\* A power loss takes a tail of the markers, none of them flushed.
LEMMA PowerLossPico == Inv /\ PowerLoss => Pico!Next
<1> SUFFICES ASSUME Inv, PowerLoss PROVE Pico!Next OBVIOUS
<1> DEFINE L == main.lines
           one == setup.oneAddress
<1>1. setup.powerFails /\ mode' = "down" /\ wrote' = FALSE /\ setup' = setup BY DEF PowerLoss, Gone, Dropped
<1>2. PICK n \in main.flushed..Len(L) : \E torn \in BOOLEAN :
        LET left == SubSeq(L, 1, n)
        IN  main' = [lines |-> IF torn THEN CutShort(left) ELSE left, flushed |-> n]
  BY DEF PowerLoss
<1> DEFINE c == Cut(L, n)
           new == main'.lines
<1>3. (new = c \/ new = CutShort(c)) /\ main'.flushed = n
  <2>1. PICK torn \in BOOLEAN : main' = [lines |-> IF torn THEN CutShort(c) ELSE c, flushed |-> n] BY <1>2 DEF Cut
  <2> HIDE DEF c
  <2>2. torn = TRUE \/ torn = FALSE BY <2>1
  <2> QED BY <2>1, <2>2
<1>4. GoodLog(L, one) /\ L \in Seq(Lines) /\ main.flushed \in Nat /\ n \in 0..Len(L)
  <2>1. GoodLog(L, one) /\ L \in Seq(Lines) /\ main.flushed \in Nat BY DEF Inv, Types
  <2>2. Len(L) \in Nat BY <2>1
  <2> QED BY <2>1, <2>2, <1>2
<1> HIDE DEF L
<1>5. GoodLog(c, one) /\ Len(c) = n /\ c \in Seq(Lines)
  <2>1. GoodLog(c, one) /\ Len(c) = n BY <1>4, LogPrefix
  <2> QED BY <2>1 DEF GoodLog
<1>6. IsPrefix(Markers(c), Markers(L)) BY <1>4, MarkersCut
<1>7. PSafe <= Len(Markers(c)) BY <1>2, AbstractFacts DEF L
<1> HIDE DEF c
<1>8. Cut(c, n) = c /\ n \in 0..Len(c)
  <2>1. Cut(c, Len(c)) = c BY <1>5, CutFacts
  <2> QED BY <2>1, <1>4, <1>5
<1>9. Markers(new) = Markers(c) /\ Cut(new, n) = c
  <2>1. CASE new = c BY <2>1, <1>8
  <2>2. CASE new = CutShort(c)
    <3>1. Markers(CutShort(c)) = Markers(c) /\ \A k \in 0..Len(c) : Cut(CutShort(c), k) = Cut(c, k)
      BY <1>5, LogCutShort
    <3> QED BY <3>1, <2>2, <1>8
  <2> QED BY <2>1, <2>2, <1>3
<1>10. PLog' = Markers(c) BY <1>9 DEF PLog
<1>11. PSafe' = Len(Markers(c)) BY <1>3, <1>9 DEF PSafe, Cut
<1>12. IsPrefix(PLog', PLog) BY <1>6, <1>10 DEF PLog, L
<1>13. PSafe \in Nat /\ Len(Markers(c)) \in Nat
  <2>1. Markers(c) \in Seq(MarkerLines) BY <1>5, MarkersType
  <2>2. PSafe \in 0..Len(PLog) /\ Len(PLog) \in Nat BY AbstractFacts
  <2> QED BY <2>1, <2>2
<1>14. Len(PLog') >= PSafe /\ PSafe' \in PSafe..Len(PLog') BY <1>7, <1>10, <1>11, <1>13
<1>15. PStatus' = "down" /\ PSeen' = 0 BY <1>1, NextStatus
<1> QED BY <1>1, <1>12, <1>14, <1>15, LosesPower

\* Recovery cuts what no marker confirms, and none of the markers.
LEMMA OpenMainPico == Inv /\ OpenMain => Pico!Next
<1> SUFFICES ASSUME Inv, OpenMain PROVE Pico!Next OBVIOUS
<1> DEFINE L == main.lines
           one == setup.oneAddress
           n == Replay(L).confirmed
           c == Cut(L, n)
<1>1. /\ mode \in {"down", "closed"} /\ mode' \in {"repair", "corrupt"} /\ UNCHANGED <<wrote, setup>>
      /\ main' = Truncated \/ main' = main
  BY DEF OpenMain, Replayed
<1>2. PStatus \in {"down", "closed"} /\ PSeen = 0 /\ PStatus' = "down" /\ PSeen' = 0
  BY <1>1, StatusFacts, NextStatus DEF PSeen
<1>3. PSafe \in 0..Len(PLog) /\ Len(PLog) \in Nat BY AbstractFacts
<1>4. CASE main' = main
  <2>1. PLog' = PLog /\ PSafe' \in PSafe..Len(PLog) BY <1>3, <1>4, SameMain
  <2> QED BY <1>1, <1>2, <2>1, Recovers
<1>5. CASE main' = Truncated
  <2>1. GoodLog(L, one) /\ L \in Seq(Lines) BY DEF Inv, Types
  <2>2. n \in 0..Len(L) /\ GoodLog(c, one) /\ Len(c) = n /\ Len(Markers(c)) = Len(Markers(L))
    BY <2>1, ConfirmedPart
  <2>3. main'.lines = c /\ main'.flushed = n BY <1>5 DEF Truncated, Cut
  <2> DEFINE a == Markers(c)
             b == Markers(L)
  <2>4. IsPrefix(a, b) /\ a \in Seq(MarkerLines) /\ b \in Seq(MarkerLines) BY <2>1, <2>2, MarkersCut, MarkersType
  <2>5. a = b
    <3>1. Len(a) = Len(b) BY <2>2
    <3> HIDE DEF a, b
    <3>2. \A i \in 1..Len(a) : a[i] = b[i] BY <2>4, PrefixFacts
    <3> QED BY <2>4, <3>1, <3>2, SeqEqual
  <2>6. PLog' = PLog BY <2>3, <2>5 DEF PLog
  <2>7. PSafe' = Len(Markers(Cut(c, n))) BY <2>3 DEF PSafe, Cut
  <2> HIDE DEF c, n, L
  <2>8. Cut(c, n) = c
    <3>1. c \in Seq(Lines) BY <2>2 DEF GoodLog
    <3>2. Cut(c, Len(c)) = c BY <3>1, CutFacts
    <3> QED BY <3>2, <2>2
  <2>9. PSafe' = Len(PLog) BY <2>5, <2>7, <2>8 DEF PLog, L
  <2>10. PSafe' \in PSafe..Len(PLog) BY <2>9, <1>3
  <2> QED BY <1>1, <1>2, <2>6, <2>10, Recovers
<1> QED BY <1>1, <1>4, <1>5

\* The second half of an open is Open or a refusal, which is not seen.
LEMMA OpenSidecarsPico == Inv /\ OpenSidecars => Pico!Next \/ UNCHANGED Pico!vars
<1> SUFFICES ASSUME Inv, OpenSidecars PROVE Pico!Next \/ UNCHANGED Pico!vars OBVIOUS
<1>1. mode = "repair" /\ mode' \in {"open", "corrupt"} /\ UNCHANGED <<main, st, poison, wrote, setup>>
  BY DEF OpenSidecars
<1>2. poison = FALSE /\ wrote = FALSE /\ st = Recovered.st BY <1>1 DEF Inv, Memory, Types
<1>3. PLog' = PLog /\ PSafe' = PSafe BY <1>1, SameMain
<1>4. PStatus = "down" /\ PSeen = 0 BY <1>1, StatusFacts DEF PSeen
<1>5. CASE mode' = "corrupt"
  <2>1. PStatus' = "down" /\ PSeen' = 0 BY <1>5, NextStatus
  <2> QED BY <1>1, <1>3, <1>4, <2>1, Stutters
<1>6. CASE mode' = "open"
  <2> DEFINE n == Len(PLog)
  <2>1. PLog \in Seq(MarkerLines) /\ n \in Nat /\ n = Recovered.st.last /\ \A i \in 1..n : PLog[i].seq = i
    BY AbstractFacts
  <2>2. st'.last = n /\ n \in 0..n BY <1>1, <1>2, <2>1
  <2>3. PSeen' = n BY <1>3, <1>6, <2>1, <2>2, SeenIs
  <2>4. PStatus' = "up" BY <1>1, <1>2, <1>6, NextStatus
  <2> QED BY <1>1, <1>2, <1>3, <1>4, <2>3, <2>4, Opens
<1> QED BY <1>1, <1>5, <1>6

\* Every step is one of the abstract store's, or none.
LEMMA NextPico == NoTornReclaims /\ Inv /\ [Next]_vars => [Pico!Next]_(Pico!vars)
<1> SUFFICES ASSUME NoTornReclaims, Inv, [Next]_vars PROVE Pico!Next \/ UNCHANGED Pico!vars OBVIOUS
<1>1. CASE Commit BY <1>1, CommitPico
<1>2. CASE AppendContent BY <1>2, AppendContentPico
<1>3. CASE FlushSidecars BY <1>3, FlushSidecarsPico
<1>4. CASE AppendMain BY <1>4, AppendMainPico
<1>5. CASE Publish BY <1>5, PublishPico
<1>6. CASE CopyTail BY <1>6, CopyTailPico
<1>7. CASE AuthoriseReclaim BY <1>7, AuthoriseReclaimPico
<1>8. CASE RemoveOld BY <1>8, RemoveOldPico
<1>9. CASE MintRaw BY <1>9, MintRawPico
<1>10. CASE FlushFailsLate BY <1>10, FlushFailsLatePico
<1>11. CASE Close BY <1>11, ClosePico
<1>12. CASE Kill BY <1>12, KillPico
<1>13. CASE PowerLoss BY <1>13, PowerLossPico
<1>14. CASE OpenMain BY <1>14, OpenMainPico
<1>15. CASE OpenSidecars BY <1>15, OpenSidecarsPico
<1>16. CASE UNCHANGED vars
  <2>1. UNCHANGED <<main, mode, st, poison, wrote, setup>> BY <1>16 DEF vars, disk, memory
  <2>2. PLog' = PLog /\ PSafe' = PSafe BY <2>1, SameMain
  <2>3. PSeen' = PSeen BY <2>1, <2>2, SameSeen
  <2>4. PStatus' = PStatus BY <2>1 DEF PStatus
  <2> QED BY <2>1, <2>2, <2>3, <2>4, Stutters
<1> QED BY <1>1, <1>2, <1>3, <1>4, <1>5, <1>6, <1>7, <1>8, <1>9, <1>10, <1>11, <1>12, <1>13, <1>14, <1>15, <1>16
  DEF Next

\* The store that appends, flushes, crashes, recovers and reclaims in separate steps keeps what
\* the Storage trait promises: a log that grows by whole commits, published in order, of which
\* a process crash takes nothing and a power loss only what was not flushed.
THEOREM StoreKeepsPromise == NoTornReclaims => (RSpec => ImplementsPicoStore)
<1> SUFFICES ASSUME NoTornReclaims PROVE RSpec => ImplementsPicoStore OBVIOUS
<1>1. RInit => Pico!Init
  <2> SUFFICES ASSUME Init PROVE Pico!Init BY DEF RInit
  <2>1. Inv BY InitInv
  <2>2. mode = "down" /\ wrote = FALSE /\ main = [lines |-> <<>>, flushed |-> 0] BY DEF Init
  <2>3. PLog = <<>> BY <2>2, LogEmpty DEF PLog
  <2>4. Len(PLog) = 0 BY <2>3
  <2>5. PSafe = 0 BY <2>1, <2>4, AbstractFacts
  <2>6. PSeen = 0 /\ PStatus = "down" BY <2>2, StatusFacts DEF PSeen
  <2>7. setup.powerFails \in BOOLEAN BY <2>1, SetupFacts DEF Inv, Types
  <2> QED BY <2>2, <2>3, <2>5, <2>6, <2>7, PicoVariables
<1>2. Inv /\ [RNext]_rvars => [Pico!Next]_(Pico!vars) BY NextPico, ReaderSteps
<1> QED BY <1>1, <1>2, StoreInv, PTL DEF RSpec, ImplementsPicoStore, Pico!Spec
=============================================================================
