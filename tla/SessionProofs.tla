---------------------------- MODULE SessionProofs -----------------------------
(***************************************************************************)
(* Proofs about what keeps a session's file: SessionFile, the file itself, *)
(* and SessionLease, the lease that a revival holds on it.  The two have   *)
(* no variable in common, and their proofs no step.                        *)
(*                                                                         *)
(* Of the file, for any managers, entries and faults of sound              *)
(* circumstances: an acknowledged entry survives, and a conversation is    *)
(* cut at refusals only.  First what the operations on one file do to the  *)
(* entries it lists; then an invariant in which a file is known by that    *)
(* list alone.                                                             *)
(*                                                                         *)
(* Of the lease: type correctness and, under the assumption that no runner *)
(* is gone while a contender judges an outdated record of it, that one     *)
(* runner at a time holds it, that its directory and record are at the     *)
(* lease path, and that one runner's writers at a time use the file.       *)
(***************************************************************************)
EXTENDS SessionFile, SessionLease, SeqFilterProofs

-----------------------------------------------------------------------------
(* Lines. *)

EntryLine == [kind : {"entry"}, id : Nat]
Headers   == {Header, OldHeader}
Bad       == {Junk, Cut}
Text      == EntryLine \cup Headers \cup Bad

\* The ids of the entries among these lines, and those of the first n lines, in any order.
IdsOf(ls)     == [i \in 1..Len(Filter(ls, EntryLine)) |-> Filter(ls, EntryLine)[i].id]
Listed(ls, n) == {ls[i].id : i \in {j \in 1..n : ls[j] \in EntryLine}}

\* A file begins with a header, unless its first write did not come that far.
Headed(ls) == ls # <<>> /\ ls[1] \in Headers
Body(ls)   == \A i \in 2..Len(ls) : ls[i] \in EntryLine \cup Bad
Shape(ls)  == \/ ls = <<>>
              \/ Len(ls) = 1 /\ ls[1] \in Bad
              \/ Headed(ls) /\ Body(ls)

\* What an open replaces: nothing, or an older version without a loss.
Replaceable(ls) == ls = <<>> \/ (ls[1] = OldHeader /\ Bad \cap ToSet(ls) = {})

\* s is how t begins.
Begins(s, t) == Len(s) <= Len(t) /\ \A i \in 1..Len(s) : s[i] = t[i]

\* Lines are of one sort.
LEMMA TextFacts ==
  /\ Header \in Text /\ OldHeader \in Text /\ Junk \in Bad /\ Cut \in Bad /\ Header # OldHeader
  /\ Header \in Headers /\ OldHeader \in Headers
  /\ \A l \in Headers : l \in Text /\ l \notin EntryLine /\ l \notin Bad
  /\ \A l \in Bad : l \in Text /\ l \notin EntryLine /\ l \notin Headers
  /\ \A e \in Nat : Line(e) \in EntryLine /\ Line(e) \in Text /\ Line(e).id = e /\ Line(e) \notin Bad
  /\ \A l \in EntryLine : l.id \in Nat /\ l = Line(l.id) /\ l \in Text /\ l \notin Bad
BY DEF Text, Headers, Bad, EntryLine, Header, OldHeader, Junk, Cut, Line

\* Two tests that agree on the elements of a sequence pick the same.
LEMMA FilterAgree ==
  ASSUME NEW M, NEW S, NEW T, NEW s \in Seq(M), \A m \in M : m \in S <=> m \in T
  PROVE  Filter(s, S) = Filter(s, T)
<1> DEFINE U == {t \in Seq(M) : Filter(t, S) = Filter(t, T)}
<1>1. <<>> \in U
  <2>1. <<>> \in Seq(M) OBVIOUS
  <2>2. Filter(<<>>, S) = <<>> /\ Filter(<<>>, T) = <<>> BY FilterEmpty
  <2> QED BY <2>1, <2>2
<1>2. ASSUME NEW t \in Seq(M), NEW m \in M, t \in U PROVE Append(t, m) \in U
  <2>1. Append(t, m) \in Seq(M) OBVIOUS
  <2>2. Filter(Append(t, m), S) = IF m \in S THEN Append(Filter(t, S), m) ELSE Filter(t, S) BY FilterAppend
  <2>3. Filter(Append(t, m), T) = IF m \in T THEN Append(Filter(t, T), m) ELSE Filter(t, T) BY FilterAppend
  <2>4. m \in S <=> m \in T OBVIOUS
  <2>5. Filter(t, S) = Filter(t, T) BY <1>2
  <2> QED BY <2>1, <2>2, <2>3, <2>4, <2>5
<1>3. Seq(M) \subseteq U
  <2> HIDE DEF U
  <2> QED BY <1>1, <1>2, SeqSetInduction
<1> QED BY <1>3

\* The ids of lines, one line more and two texts one after the other.
LEMMA IdsSteps ==
  ASSUME NEW ls \in Seq(Text)
  PROVE  /\ IdsOf(ls) \in Seq(Nat)
         /\ IdsOf(<<>>) = <<>>
         /\ \A e \in Nat : IdsOf(Append(ls, Line(e))) = Append(IdsOf(ls), e)
         /\ \A m \in Text : m \notin EntryLine => IdsOf(Append(ls, m)) = IdsOf(ls)
         /\ \A more \in Seq(Text) : Begins(IdsOf(ls), IdsOf(ls \o more))
<1> DEFINE F == Filter(ls, EntryLine)
<1>1. F \in Seq(EntryLine)
  <2>1. F \in Seq(Text \cap EntryLine) BY FilterType
  <2>2. Text \cap EntryLine = EntryLine BY DEF Text
  <2> HIDE DEF F
  <2> QED BY <2>1, <2>2
<1>2. \A m \in Text : Filter(Append(ls, m), EntryLine) = IF m \in EntryLine THEN Append(F, m) ELSE F BY FilterAppend
<1>3. \A more \in Seq(Text) : /\ Filter(ls \o more, EntryLine) = F \o Filter(more, EntryLine)
                              /\ Filter(more, EntryLine) \in Seq(EntryLine)
  <2> TAKE more \in Seq(Text)
  <2>1. Filter(ls \o more, EntryLine) = F \o Filter(more, EntryLine) BY FilterConcat
  <2>2. Filter(more, EntryLine) \in Seq(Text \cap EntryLine) BY FilterType
  <2>3. Text \cap EntryLine = EntryLine BY DEF Text
  <2> QED BY <2>1, <2>2, <2>3
<1>4. IdsOf(ls) = [i \in 1..Len(F) |-> F[i].id] BY DEF IdsOf
<1> HIDE DEF F
<1>5. \A l \in EntryLine : l.id \in Nat BY DEF EntryLine
<1>6. \A i \in 1..Len(F) : F[i] \in EntryLine BY <1>1
<1>7. IdsOf(ls) \in Seq(Nat) /\ Len(IdsOf(ls)) = Len(F) /\ (\A i \in 1..Len(F) : IdsOf(ls)[i] = F[i].id)
  BY <1>1, <1>4, <1>5, <1>6
<1>8. IdsOf(<<>>) = <<>>
  <2>1. Filter(<<>>, EntryLine) = <<>> BY FilterEmpty
  <2> QED BY <2>1 DEF IdsOf
<1>9. ASSUME NEW e \in Nat PROVE IdsOf(Append(ls, Line(e))) = Append(IdsOf(ls), e)
  <2> DEFINE G == Append(F, Line(e))
             a == IdsOf(Append(ls, Line(e)))
             b == Append(IdsOf(ls), e)
  <2>1. Line(e) \in Text /\ Line(e) \in EntryLine /\ Line(e).id = e BY TextFacts
  <2>2. Filter(Append(ls, Line(e)), EntryLine) = G BY <1>2, <2>1
  <2>3. a = [i \in 1..Len(G) |-> G[i].id] BY <2>2 DEF IdsOf
  <2>4. /\ G \in Seq(EntryLine) /\ Len(G) = Len(F) + 1 /\ (\A i \in 1..Len(F) : G[i] = F[i]) /\ G[Len(F) + 1] = Line(e)
    BY <1>1, <2>1
  <2>5. Len(F) \in Nat BY <1>1
  <2>6. b \in Seq(Nat) /\ Len(b) = Len(F) + 1 /\ (\A i \in 1..Len(F) : b[i] = IdsOf(ls)[i]) /\ b[Len(F) + 1] = e
    BY <1>7, <2>5
  <2> HIDE DEF G, b
  <2>7. \A i \in 1..(Len(F) + 1) : G[i] \in EntryLine BY <2>4
  <2>8. a \in Seq(Nat) /\ Len(a) = Len(F) + 1 /\ (\A i \in 1..(Len(F) + 1) : a[i] = G[i].id)
    BY <1>5, <2>3, <2>4, <2>5, <2>7
  <2> HIDE DEF a
  <2>9. ASSUME NEW i \in 1..(Len(F) + 1) PROVE a[i] = b[i]
    <3>1. CASE i = Len(F) + 1 BY <2>1, <2>4, <2>6, <2>8, <3>1
    <3>2. CASE i # Len(F) + 1
      <4>1. i \in 1..Len(F) BY <2>5, <3>2
      <4> QED BY <1>7, <2>4, <2>6, <2>8, <4>1
    <3> QED BY <3>1, <3>2
  <2>10. a = b
    <3>1. Len(a) = Len(b) /\ (\A i \in 1..Len(a) : a[i] = b[i]) BY <2>6, <2>8, <2>9
    <3> QED BY <2>6, <2>8, <3>1, SeqEqual
  <2> QED BY <2>10 DEF a, b
<1>10. ASSUME NEW m \in Text, m \notin EntryLine PROVE IdsOf(Append(ls, m)) = IdsOf(ls)
  <2>1. Filter(Append(ls, m), EntryLine) = F BY <1>2, <1>10
  <2> QED BY <1>4, <2>1 DEF IdsOf
<1>11. ASSUME NEW more \in Seq(Text) PROVE Begins(IdsOf(ls), IdsOf(ls \o more))
  <2> DEFINE E == Filter(more, EntryLine)
             G == F \o E
             b == IdsOf(ls \o more)
  <2>1. Filter(ls \o more, EntryLine) = G /\ E \in Seq(EntryLine) BY <1>3
  <2>2. b = [i \in 1..Len(G) |-> G[i].id] BY <2>1 DEF IdsOf
  <2>3. Len(F) \in Nat BY <1>1
  <2> HIDE DEF E
  <2>4. Len(G) \in Nat /\ Len(F) <= Len(G) /\ (\A i \in 1..Len(F) : G[i] = F[i]) /\ G \in Seq(EntryLine) BY <1>1, <2>1
  <2> HIDE DEF G
  <2>5. Len(b) = Len(G) /\ (\A i \in 1..Len(G) : b[i] = G[i].id) BY <2>2, <2>4
  <2> HIDE DEF b
  <2>6. Len(IdsOf(ls)) <= Len(b) BY <1>7, <2>3, <2>4, <2>5
  <2>7. ASSUME NEW i \in 1..Len(IdsOf(ls)) PROVE IdsOf(ls)[i] = b[i]
    <3>1. i \in 1..Len(F) /\ i \in 1..Len(G) BY <1>7, <2>3, <2>4
    <3>2. F[i] = G[i] /\ IdsOf(ls)[i] = F[i].id /\ b[i] = G[i].id BY <1>7, <2>4, <2>5, <3>1
    <3> QED BY <3>2
  <2>8. Begins(IdsOf(ls), b) BY <2>6, <2>7 DEF Begins
  <2> QED BY <2>8 DEF b
<1> QED BY <1>7, <1>8, <1>9, <1>10, <1>11

\* Listed says which ids those are.
LEMMA IdsListed ==
  ASSUME NEW ls \in Seq(Text)
  PROVE  ToSet(IdsOf(ls)) = Listed(ls, Len(ls))
<1> DEFINE F == Filter(ls, EntryLine)
<1>1. F \in Seq(EntryLine)
  <2>1. F \in Seq(Text \cap EntryLine) BY FilterType
  <2>2. Text \cap EntryLine = EntryLine BY DEF Text
  <2> HIDE DEF F
  <2> QED BY <2>1, <2>2
<1>2. ToSet(F) = ToSet(ls) \cap EntryLine BY FilterElements
<1>3. IdsOf(ls) = [i \in 1..Len(F) |-> F[i].id] BY DEF IdsOf
<1> HIDE DEF F
<1>4. ToSet(F) = {F[i] : i \in 1..Len(F)} /\ ToSet(ls) = {ls[i] : i \in 1..Len(ls)} BY <1>1, ToSetFacts
<1>5. ToSet(IdsOf(ls)) = {F[i].id : i \in 1..Len(F)}
  <2>1. IdsOf(ls) \in Seq(Nat) BY IdsSteps
  <2>2. ToSet(IdsOf(ls)) = {IdsOf(ls)[i] : i \in 1..Len(IdsOf(ls))} BY <2>1, ToSetFacts
  <2>3. Len(F) \in Nat BY <1>1
  <2>4. Len(IdsOf(ls)) = Len(F) /\ (\A i \in 1..Len(F) : IdsOf(ls)[i] = F[i].id) BY <1>3, <2>3
  <2> QED BY <2>2, <2>4
<1>6. \A x : x \in ToSet(IdsOf(ls)) <=> \E l \in ToSet(F) : x = l.id BY <1>4, <1>5
<1>7. \A x : x \in Listed(ls, Len(ls)) <=> \E l \in ToSet(ls) \cap EntryLine : x = l.id BY <1>4 DEF Listed
<1> QED BY <1>2, <1>6, <1>7

-----------------------------------------------------------------------------
(* Files. *)

FileRecord == [lines : Seq(Text), open : BOOLEAN, synced : Nat, sick : BOOLEAN]
Files == {f \in FileRecord : f.synced <= Len(f.lines) /\ Shape(f.lines) /\ (f.open => f.lines # <<>>)}

Ids(f) == IdsOf(f.lines)

\* The entries a file lists in whole lines, and those that a power loss leaves.
Firm(f) == Listed(f.lines, IF f.open THEN Len(f.lines) - 1 ELSE Len(f.lines))
Sure(f) == Listed(f.lines, IF f.open /\ f.synced = Len(f.lines) THEN f.synced - 1 ELSE f.synced)

\* The least number of a set of them.
LEMMA LeastOf ==
  ASSUME NEW I \in SUBSET Nat, I # {}
  PROVE  Min(I) \in I /\ \A i \in I : Min(I) <= i
<1> DEFINE R == OpToRel(<, Nat)
<1>1. IsWellFoundedOn(R, Nat) BY NatLessThanWellFounded
<1>2. \A a, b \in Nat : (<<a, b>> \in R) <=> (a < b) BY DEF OpToRel
<1> HIDE DEF R
<1>3. \E x \in I : \A y \in I : ~(<<y, x>> \in R) BY <1>1, WFMin
<1>4. \E x \in I : \A y \in I : x <= y
  <2>1. PICK x \in I : \A y \in I : ~(<<y, x>> \in R) BY <1>3
  <2>2. \A y \in I : x <= y
    <3> TAKE y \in I
    <3>1. x \in Nat /\ y \in Nat /\ ~(y < x) BY <1>2, <2>1
    <3> QED BY <3>1
  <2> QED BY <2>2
<1> QED BY <1>4 DEF Min

\* The reader goes up to the first line that is not UTF-8.
LEMMA LegibleFacts ==
  ASSUME NEW ls \in Seq(Text)
  PROVE  /\ Legible(ls) \in Seq(Text) /\ Len(Legible(ls)) \in Nat /\ Len(Legible(ls)) <= Len(ls)
         /\ \A i \in 1..Len(Legible(ls)) : Legible(ls)[i] = ls[i] /\ ls[i] # Cut
         /\ \/ Legible(ls) = ls
            \/ Len(Legible(ls)) < Len(ls) /\ ls[Len(Legible(ls)) + 1] = Cut
         /\ Legible(ls) = ls <=> Cut \notin ToSet(ls)
<1> DEFINE p == Legible(ls)
           I == {i \in 1..Len(ls) : ls[i] = Cut}
<1>1. Len(ls) \in Nat /\ ToSet(ls) = {ls[i] : i \in 1..Len(ls)} BY ToSetFacts
<1>2. CASE Cut \notin ToSet(ls)
  <2>1. p = ls BY <1>2 DEF Legible
  <2>2. \A i \in 1..Len(ls) : ls[i] # Cut BY <1>1, <1>2
  <2> QED BY <1>1, <1>2, <2>1, <2>2
<1>3. CASE Cut \in ToSet(ls)
  <2>1. I \in SUBSET Nat /\ I # {} BY <1>1, <1>3
  <2> DEFINE k == Min(I)
  <2>2. k \in I /\ \A i \in I : k <= i BY <2>1, LeastOf
  <2>3. SelectInSeq(ls, LAMBDA line : line = Cut) = k BY <2>1 DEF SelectInSeq
  <2>4. p = SubSeq(ls, 1, k - 1) BY <1>3, <2>3 DEF Legible
  <2> HIDE DEF k, p
  <2>5. k \in Nat /\ k >= 1 /\ k <= Len(ls) /\ ls[k] = Cut BY <1>1, <2>2
  <2>6. p \in Seq(Text) /\ Len(p) = k - 1 /\ \A i \in 1..(k - 1) : p[i] = ls[i] BY <1>1, <2>4, <2>5
  <2>7. \A i \in 1..(k - 1) : ls[i] # Cut
    <3> TAKE i \in 1..(k - 1)
    <3>1. i \in 1..Len(ls) /\ ~(k <= i) BY <1>1, <2>5
    <3> QED BY <2>2, <3>1
  <2>8. Len(p) + 1 = k /\ Len(p) < Len(ls) /\ p # ls BY <1>1, <2>5, <2>6
  <2>9. \A i \in 1..Len(p) : p[i] = ls[i] /\ ls[i] # Cut BY <2>6, <2>7
  <2> QED BY <1>3, <2>5, <2>6, <2>8, <2>9 DEF p
<1> QED BY <1>2, <1>3

\* What is made of the lines the reader gets to see.
LEMMA ParsedIsListed ==
  ASSUME NEW f, NEW ls \in Seq(Text), Legible(f.lines) = ls, Cut \notin ToSet(ls),
         ls \in {<<>>, <<Junk>>} \/ (Headed(ls) /\ Body(ls))
  PROVE  /\ EntriesOf(f) = IdsOf(ls)
         /\ IsSession(f) <=> Headed(ls)
         /\ Headed(ls) => Parsed(f)[1] = ls[1]
         /\ Parsed(f) = ls <=> Junk \notin ToSet(ls)
         /\ Cut \notin ToSet(Parsed(f)) /\ Junk \notin ToSet(Parsed(f))
<1> DEFINE P == [kind : {"header", "oldHeader", "entry"}, id : Nat]
<1>2. \A m \in Text : m \in P <=> m \notin Bad
  BY DEF Text, EntryLine, Headers, Header, OldHeader, Bad, Junk, Cut
<1>1. Junk \in Bad /\ Junk \in Text /\ Junk \notin P /\ Junk \notin EntryLine /\ Junk \notin Headers
      /\ Cut \in Text /\ Cut \notin P
  BY <1>2, TextFacts
<1>3. Parsed(f) = Filter(ls, P) BY DEF Parsed
<1> HIDE DEF P
<1>4. CASE ls \in {<<>>, <<Junk>>}
  <2>1. \A S : Junk \notin S => Filter(ls, S) = <<>>
    <3> TAKE S
    <3> HAVE Junk \notin S
    <3>1. <<>> \in Seq({Junk}) /\ <<Junk>> \in Seq({Junk}) OBVIOUS
    <3>2. Filter(ls, S) \in Seq({Junk} \cap S) BY <1>4, <3>1, FilterType
    <3> QED BY <3>2
  <2>2. Parsed(f) = <<>> BY <1>1, <1>3, <2>1
  <2>3. IdsOf(ls) = <<>>
    <3>1. Filter(ls, EntryLine) = <<>> BY <1>1, <2>1
    <3> QED BY <3>1 DEF IdsOf
  <2>4. ~Headed(ls)
    <3>1. ls = <<>> \/ (ls # <<>> /\ ls[1] = Junk) BY <1>4
    <3> QED BY <1>1, <3>1 DEF Headed
  <2>5. Parsed(f) = ls <=> Junk \notin ToSet(ls)
    <3>1. CASE ls = <<>> BY <2>2, <3>1, ToSetFacts
    <3>2. CASE ls = <<Junk>>
      <4> DEFINE j == <<Junk>>
      <4>1. j \in Seq({Junk}) /\ Len(j) = 1 /\ j[1] = Junk /\ j # <<>> OBVIOUS
      <4> HIDE DEF j
      <4>2. ToSet(j) = {j[i] : i \in 1..Len(j)} BY <4>1, ToSetFacts
      <4>3. Junk \in ToSet(j) BY <4>1, <4>2
      <4>4. ls = j BY <3>2 DEF j
      <4> QED BY <2>2, <4>1, <4>3, <4>4
    <3> QED BY <1>4, <3>1, <3>2
  <2>6. ToSet(Parsed(f)) = {} BY <2>2, ToSetFacts
  <2> QED BY <2>2, <2>3, <2>4, <2>5, <2>6 DEF EntriesOf, IsSession
<1>5. CASE Headed(ls) /\ Body(ls)
  <2> DEFINE h == ls[1]
             b == Tail(ls)
             B == EntryLine \cup {Junk}
             K == Filter(b, EntryLine)
  <2>1. ls # <<>> /\ h \in Headers BY <1>5 DEF Headed
  <2>2. h \in Text /\ h \in P /\ h \notin EntryLine
    <3>1. h \in Text /\ h \notin Bad /\ h \notin EntryLine BY <2>1, TextFacts
    <3> QED BY <1>2, <3>1
  <2>3. b \in Seq(Text) /\ Len(b) = Len(ls) - 1 /\ (\A i \in 1..Len(b) : b[i] = ls[i + 1]) BY <1>1, <2>1
  <2>4. ls = <<h>> \o b /\ <<h>> \in Seq(Text) BY <1>1, <2>1, <2>2
  <2>5. b \in Seq(B)
    <3>1. \A i \in 1..Len(b) : b[i] \in B
      <4> TAKE i \in 1..Len(b)
      <4>1. Len(ls) \in Nat BY <1>1
      <4>2. i + 1 \in 2..Len(ls) /\ i + 1 \in 1..Len(ls) BY <2>3, <4>1
      <4>3. ls[i + 1] # Cut
        <5>1. ToSet(ls) = {ls[j] : j \in 1..Len(ls)} BY ToSetFacts
        <5> QED BY <4>2, <5>1
      <4>4. ls[i + 1] \in EntryLine \cup Bad BY <1>5, <4>2 DEF Body
      <4> QED BY <2>3, <4>3, <4>4 DEF Bad
    <3> HIDE DEF b, B
    <3>2. b = [i \in 1..Len(b) |-> b[i]] /\ Len(b) \in Nat BY <2>3
    <3> QED BY <3>1, <3>2
  <2>6. Filter(<<h>>, P) = <<h>> /\ Filter(<<h>>, EntryLine) = <<>>
    <3> HIDE DEF h
    <3>1. <<h>> = Append(<<>>, h) /\ <<>> \in Seq(Text) OBVIOUS
    <3> DEFINE none == <<>>
    <3>2. none \in Seq(Text) /\ <<h>> = Append(none, h) BY <3>1
    <3>3. ASSUME NEW S PROVE Filter(none, S) = <<>> BY FilterEmpty
    <3>4. ASSUME NEW S PROVE Filter(<<h>>, S) = IF h \in S THEN <<h>> ELSE <<>>
      <4>1. Append(none, h) = <<h>> BY <3>2
      <4> HIDE DEF none
      <4>2. Filter(Append(none, h), S) = IF h \in S THEN Append(Filter(none, S), h) ELSE Filter(none, S)
        BY <2>2, <3>2, FilterAppend
      <4>3. Filter(none, S) = <<>> BY <3>3
      <4> QED BY <3>1, <4>1, <4>2, <4>3
    <3> QED BY <2>2, <3>4
  <2>7. Filter(b, P) = K
    <3>1. \A m \in B : m \in P <=> m \in EntryLine 
      <4>1. \A m \in EntryLine : m \in P BY <1>2, TextFacts
      <4> QED BY <1>1, <4>1
    <3> HIDE DEF B, b
    <3> QED BY <2>5, <3>1, FilterAgree
  <2>8. Filter(ls, P) = <<h>> \o K /\ Filter(ls, EntryLine) = <<>> \o K
    <3> HIDE DEF h, b, K
    <3>1. \A S : Filter(<<h>> \o b, S) = Filter(<<h>>, S) \o Filter(b, S) BY <2>3, <2>4, FilterConcat
    <3> QED BY <2>4, <2>6, <2>7, <3>1 DEF K
  <2>9. K \in Seq(EntryLine)
    <3> HIDE DEF b, B
    <3>1. K \in Seq(B \cap EntryLine) BY <2>5, FilterType
    <3>2. B \cap EntryLine = EntryLine BY <1>1 DEF B
    <3> HIDE DEF K
    <3> QED BY <3>1, <3>2
  <2> HIDE DEF K
  <2>10. <<>> \o K = K BY <2>9, ConcatEmptySeq
  <2>11. IdsOf(ls) = [i \in 1..Len(K) |-> K[i].id] BY <2>8, <2>10 DEF IdsOf
  <2>12. /\ Parsed(f) # <<>> /\ Parsed(f)[1] = h /\ Len(Parsed(f)) = Len(K) + 1
         /\ \A i \in 1..Len(K) : Parsed(f)[i + 1] = K[i]
    <3> HIDE DEF h
    <3>1. Len(<<h>> \o K) = Len(K) + 1 /\ Len(K) \in Nat BY <2>2, <2>9
    <3>2. (<<h>> \o K)[1] = h /\ <<h>> \o K # <<>> BY <2>2, <2>9
    <3>3. \A i \in 1..Len(K) : (<<h>> \o K)[i + 1] = K[i] BY <2>2, <2>9
    <3> QED BY <1>3, <2>8, <3>1, <3>2, <3>3
  <2>13. IsSession(f) BY <2>1, <2>12 DEF IsSession, Headers
  <2>14. EntriesOf(f) = IdsOf(ls)
    <3>1. Len(K) \in Nat BY <2>9
    <3>2. EntriesOf(f) = [i \in 1..Len(K) |-> Parsed(f)[i + 1].id] BY <2>12, <2>13, <3>1 DEF EntriesOf
    <3> QED BY <2>11, <2>12, <3>2
  <2>15. ToSet(Parsed(f)) = ToSet(ls) \cap P BY <1>3, FilterElements
  <2>16. Parsed(f) = ls <=> Junk \notin ToSet(ls)
    <3>1. CASE Junk \in ToSet(ls) BY <1>1, <2>15, <3>1
    <3>2. CASE Junk \notin ToSet(ls)
      <4>1. ToSet(ls) \subseteq Text BY ToSetFacts
      <4>2. ToSet(ls) \subseteq P BY <1>2, <3>2, <4>1 DEF Bad
      <4>3. Filter(ls, P) = ls BY <4>2, FilterAll
      <4> QED BY <1>3, <3>2, <4>3
    <3> QED BY <3>1, <3>2
  <2> QED BY <1>1, <1>5, <2>12, <2>13, <2>14, <2>15, <2>16
<1> QED BY <1>4, <1>5

\* What a manager opened on a file holds is what its lines list, as far as the reader gets.
LEMMA EntriesAreIds ==
  ASSUME NEW f \in Files
  PROVE  /\ EntriesOf(f) = IdsOf(Legible(f.lines))
         /\ EntriesOf(f) \in Seq(Nat) /\ Begins(EntriesOf(f), Ids(f))
         /\ ToSet(EntriesOf(f)) \subseteq ToSet(Ids(f))
         /\ IsSession(f) <=> Headed(f.lines)
         /\ Headed(f.lines) => /\ Parsed(f)[1] = f.lines[1]
                               /\ ~Recovered(f) <=> Bad \cap ToSet(f.lines) = {}
         /\ Cut \notin ToSet(f.lines) => EntriesOf(f) = Ids(f)
<1> DEFINE ls == f.lines
           p == Legible(ls)
<1>1. ls \in Seq(Text) /\ Shape(ls) /\ Len(ls) \in Nat BY DEF Files, FileRecord
<1>2. /\ p \in Seq(Text) /\ Len(p) \in Nat /\ Len(p) <= Len(ls)
      /\ \A i \in 1..Len(p) : p[i] = ls[i] /\ ls[i] # Cut
      /\ p = ls \/ (Len(p) < Len(ls) /\ ls[Len(p) + 1] = Cut)
      /\ p = ls <=> Cut \notin ToSet(ls)
  BY <1>1, LegibleFacts
<1> HIDE DEF p
<1>3. Cut \notin ToSet(p)
  <2>1. ToSet(p) = {p[i] : i \in 1..Len(p)} BY <1>2, ToSetFacts
  <2> QED BY <1>2, <2>1
<1>4. Headed(ls) => Headed(p) /\ Body(p) /\ p[1] = ls[1]
  <2> HAVE Headed(ls)
  <2>1. ls # <<>> /\ ls[1] \in Headers BY DEF Headed
  <2>2. Len(ls) > 0 BY <1>1, <2>1
  <2>3. ls[1] # Cut BY <2>1, TextFacts
  <2>4. Len(p) > 0
    <3>1. CASE Len(p) = 0 BY <1>2, <2>2, <2>3, <3>1
    <3> QED BY <1>2, <3>1
  <2>5. p # <<>> /\ p[1] = ls[1] BY <1>2, <2>4
  <2>6. Body(ls) BY <1>1, <2>1, TextFacts DEF Shape
  <2>7. Body(p)
    <3> SUFFICES ASSUME NEW i \in 2..Len(p) PROVE p[i] \in EntryLine \cup Bad BY DEF Body
    <3>1. i \in 1..Len(p) /\ i \in 2..Len(ls) BY <1>1, <1>2
    <3> QED BY <1>2, <2>6, <3>1 DEF Body
  <2> QED BY <2>1, <2>5, <2>7 DEF Headed
<1>5. ~Headed(ls) => p \in {<<>>, <<Junk>>} /\ ~Headed(p)
  <2> HAVE ~Headed(ls)
  <2>1. ls = <<>> \/ (Len(ls) = 1 /\ ls[1] \in Bad) BY <1>1 DEF Shape
  <2>2. CASE Len(p) = 0
    <3>1. p = <<>> BY <1>2, <2>2
    <3> QED BY <3>1 DEF Headed
  <2>3. CASE Len(p) # 0
    <3>1. Len(ls) = 1 /\ ls[1] \in Bad /\ Len(p) = 1
      <4>1. ls # <<>> BY <1>1, <1>2, <2>3
      <4> QED BY <1>2, <2>1, <2>3, <4>1
    <3>2. p[1] = ls[1] /\ ls[1] # Cut BY <1>2, <3>1
    <3>3. p[1] = Junk BY <3>1, <3>2 DEF Bad
    <3> DEFINE j == <<Junk>>
    <3>4. j \in Seq(Text) /\ Len(j) = 1 /\ j[1] = Junk BY TextFacts
    <3> HIDE DEF j
    <3>5. \A i \in 1..Len(p) : p[i] = j[i]
      <4> TAKE i \in 1..Len(p)
      <4>1. i = 1 BY <3>1
      <4> QED BY <3>3, <3>4, <4>1
    <3>6. p = j BY <1>2, <3>1, <3>4, <3>5, SeqEqual
    <3>7. p[1] \notin Headers BY <3>3, TextFacts
    <3> QED BY <3>6, <3>7 DEF j, Headed
  <2> QED BY <2>2, <2>3
<1>6. /\ EntriesOf(f) = IdsOf(p)
      /\ IsSession(f) <=> Headed(p)
      /\ Headed(p) => Parsed(f)[1] = p[1]
      /\ Parsed(f) = p <=> Junk \notin ToSet(p)
      /\ Cut \notin ToSet(Parsed(f)) /\ Junk \notin ToSet(Parsed(f))
  <2>1. p \in {<<>>, <<Junk>>} \/ (Headed(p) /\ Body(p)) BY <1>4, <1>5
  <2>2. Legible(f.lines) = p BY DEF p
  <2> QED BY <1>2, <1>3, <2>1, <2>2, ParsedIsListed
<1>7. IdsOf(p) \in Seq(Nat) BY <1>2, IdsSteps
<1>8. Begins(IdsOf(p), IdsOf(ls))
  <2> DEFINE a == SubSeq(ls, 1, Len(p))
             b == SubSeq(ls, Len(p) + 1, Len(ls))
  <2>1. Len(p) \in 0..Len(ls) BY <1>1, <1>2
  <2>2. a \in Seq(Text) /\ b \in Seq(Text) /\ ls = a \o b BY <1>1, <2>1, CountCut
  <2>3. Len(a) = Len(p) /\ \A i \in 1..Len(p) : a[i] = ls[i] BY <1>1, <1>2
  <2> HIDE DEF a, b
  <2>4. a = p BY <1>2, <2>2, <2>3, SeqEqual
  <2> QED BY <1>2, <2>2, <2>4, IdsSteps
<1>9. ToSet(IdsOf(p)) \subseteq ToSet(IdsOf(ls))
  <2> DEFINE a == IdsOf(p)
             b == IdsOf(ls)
  <2>1. a \in Seq(Nat) /\ b \in Seq(Nat) /\ Begins(a, b) BY <1>1, <1>7, <1>8, IdsSteps
  <2> HIDE DEF a, b
  <2>2. ToSet(a) = {a[i] : i \in 1..Len(a)} /\ ToSet(b) = {b[i] : i \in 1..Len(b)} BY <2>1, ToSetFacts
  <2>3. \A i \in 1..Len(a) : i \in 1..Len(b) /\ a[i] = b[i] BY <2>1 DEF Begins
  <2>4. ToSet(a) \subseteq ToSet(b) BY <2>2, <2>3
  <2> QED BY <2>4 DEF a, b
<1>10. ~Recovered(f) <=> Bad \cap ToSet(ls) = {}
  <2>1. CASE p = ls BY <1>2, <1>6, <2>1 DEF Recovered, Bad
  <2>2. CASE p # ls BY <1>2, <1>6, <2>2, TextFacts DEF Recovered
  <2> QED BY <2>1, <2>2
<1>11. Legible(ls) = p BY DEF p
<1> QED BY <1>2, <1>4, <1>5, <1>6, <1>7, <1>8, <1>9, <1>10, <1>11 DEF Ids

\* An entry that it does not get to is behind.
LEMMA IdsAreLegibleOrNot ==
  ASSUME NEW f \in Files
  PROVE  ToSet(Ids(f)) \subseteq
           ToSet(EntriesOf(f)) \cup {f.lines[i].id : i \in Len(Legible(f.lines)) + 1..Len(f.lines)}
<1> DEFINE ls == f.lines
           p == Legible(ls)
<1>1. ls \in Seq(Text) /\ Len(ls) \in Nat BY DEF Files, FileRecord
<1>2. p \in Seq(Text) /\ Len(p) \in Nat /\ (\A i \in 1..Len(p) : p[i] = ls[i]) BY <1>1, LegibleFacts
<1>3. EntriesOf(f) = IdsOf(p) BY EntriesAreIds
<1> HIDE DEF p
<1>4. ToSet(Ids(f)) = Listed(ls, Len(ls)) /\ ToSet(EntriesOf(f)) = Listed(p, Len(p))
  BY <1>1, <1>2, <1>3, IdsListed DEF Ids
<1>5. ASSUME NEW i \in 1..Len(ls), ls[i] \in EntryLine
      PROVE  ls[i].id \in Listed(p, Len(p)) \/ i \in Len(p) + 1..Len(ls)
  <2>1. CASE i \in 1..Len(p) BY <1>2, <1>5, <2>1 DEF Listed
  <2>2. CASE i \notin 1..Len(p) BY <1>1, <1>2, <2>2
  <2> QED BY <2>1, <2>2
<1> QED BY <1>4, <1>5 DEF Listed, p

\* What the reader gets to of a file that has grown is what it got to, and perhaps more.
LEMMA LegibleGrows ==
  ASSUME NEW ls \in Seq(Text), NEW ms \in Seq(Text), Begins(ls, ms)
  PROVE  Begins(IdsOf(Legible(ls)), IdsOf(Legible(ms)))
<1> DEFINE p == Legible(ls)
           q == Legible(ms)
<1>1. /\ p \in Seq(Text) /\ Len(p) \in Nat /\ Len(p) <= Len(ls)
      /\ \A i \in 1..Len(p) : p[i] = ls[i] /\ ls[i] # Cut
  BY LegibleFacts
<1>2. /\ q \in Seq(Text) /\ Len(q) \in Nat /\ Len(q) <= Len(ms) /\ (\A i \in 1..Len(q) : q[i] = ms[i])
      /\ q = ms \/ (Len(q) < Len(ms) /\ ms[Len(q) + 1] = Cut)
  BY LegibleFacts
<1> HIDE DEF p, q
<1>3. Len(ls) \in Nat /\ Len(ms) \in Nat /\ Len(ls) <= Len(ms) /\ \A i \in 1..Len(ls) : ls[i] = ms[i] BY DEF Begins
<1>4. Len(p) <= Len(q)
  <2> SUFFICES ASSUME Len(q) < Len(p) PROVE FALSE BY <1>1, <1>2
  <2>1. Len(q) + 1 \in 1..Len(p) /\ Len(q) + 1 \in 1..Len(ls) BY <1>1, <1>2
  <2>2. Len(q) < Len(ms) BY <1>1, <1>2, <1>3
  <2>3. ms[Len(q) + 1] = Cut BY <1>2, <2>2
  <2> QED BY <1>1, <1>3, <2>1, <2>3
<1> DEFINE a == SubSeq(q, 1, Len(p))
           b == SubSeq(q, Len(p) + 1, Len(q))
<1>5. Len(p) \in 0..Len(q) BY <1>1, <1>2, <1>4
<1>6. a \in Seq(Text) /\ b \in Seq(Text) /\ q = a \o b BY <1>2, <1>5, CountCut
<1>7. Len(a) = Len(p) /\ \A i \in 1..Len(p) : a[i] = q[i] BY <1>1, <1>2, <1>4
<1> HIDE DEF a, b
<1>8. \A i \in 1..Len(p) : a[i] = p[i]
  <2> TAKE i \in 1..Len(p)
  <2>1. i \in 1..Len(q) /\ i \in 1..Len(ls) BY <1>1, <1>2, <1>4
  <2> QED BY <1>1, <1>2, <1>3, <1>7, <2>1
<1>9. a = p BY <1>1, <1>6, <1>7, <1>8, SeqEqual
<1>10. Begins(IdsOf(p), IdsOf(p \o b)) BY <1>1, <1>6, IdsSteps
<1> QED BY <1>6, <1>9, <1>10 DEF p, q

\* A part of the lines lists a part of the entries.
LEMMA ListedFacts ==
  ASSUME NEW ls \in Seq(Text), NEW n \in Nat, n <= Len(ls)
  PROVE  /\ Listed(ls, n) \subseteq ToSet(IdsOf(ls))
         /\ \A a \in Int : a <= n => Listed(ls, a) \subseteq Listed(ls, n)
         /\ n # 0 /\ ls[n] \in EntryLine => Listed(ls, n) = Listed(ls, n - 1) \cup {ls[n].id}
<1>1. Len(ls) \in Nat OBVIOUS
<1>2. \A a \in Int : a <= n => Listed(ls, a) \subseteq Listed(ls, n) BY DEF Listed
<1>3. Listed(ls, n) \subseteq Listed(ls, Len(ls)) BY <1>1 DEF Listed
<1>5. ASSUME n # 0, ls[n] \in EntryLine PROVE Listed(ls, n) = Listed(ls, n - 1) \cup {ls[n].id}
  <2>1. \A i : i \in 1..n <=> i \in 1..(n - 1) \/ i = n BY <1>5
  <2> QED BY <1>5, <2>1 DEF Listed
<1> QED BY <1>2, <1>3, <1>5, IdsListed

\* Which is the same part if the lines are.
LEMMA ListedAgree ==
  ASSUME NEW ls, NEW ms, NEW a \in Int, \A i \in 1..a : ms[i] = ls[i]
  PROVE  Listed(ms, a) = Listed(ls, a)
BY DEF Listed

\* What a file is, and what its lists are to each other.
LEMMA FileFacts ==
  ASSUME NEW f \in Files
  PROVE  /\ f.lines \in Seq(Text) /\ Len(f.lines) \in Nat /\ Shape(f.lines)
         /\ f.open \in BOOLEAN /\ f.sick \in BOOLEAN
         /\ f.synced \in Nat /\ f.synced <= Len(f.lines) /\ (f.open => f.lines # <<>> /\ Len(f.lines) > 0)
         /\ Ids(f) \in Seq(Nat)
         /\ Sure(f) \subseteq Firm(f) /\ Firm(f) \subseteq ToSet(Ids(f))
         /\ ~f.open => Firm(f) = ToSet(Ids(f))
         /\ f.lines = <<>> => Ids(f) = <<>> /\ Firm(f) = {} /\ Sure(f) = {} /\ ~f.open
<1>1. /\ f.lines \in Seq(Text) /\ Len(f.lines) \in Nat /\ Shape(f.lines)
      /\ f.open \in BOOLEAN /\ f.sick \in BOOLEAN
      /\ f.synced \in Nat /\ f.synced <= Len(f.lines) /\ (f.open => f.lines # <<>>)
  BY DEF Files, FileRecord
<1>2. f.open => Len(f.lines) > 0 BY <1>1
<1>3. Ids(f) \in Seq(Nat) BY <1>1, IdsSteps DEF Ids
<1> DEFINE ls == f.lines
           a == IF f.open THEN Len(ls) - 1 ELSE Len(ls)
           b == IF f.open /\ f.synced = Len(ls) THEN f.synced - 1 ELSE f.synced
<1>4. a \in Nat /\ b \in Int /\ b <= a /\ a <= Len(ls) BY <1>1, <1>2
<1>5. Firm(f) = Listed(ls, a) /\ Sure(f) = Listed(ls, b) BY DEF Firm, Sure
<1> HIDE DEF a, b
<1>6. Listed(ls, b) \subseteq Listed(ls, a) BY <1>1, <1>4, ListedFacts
<1>7. Listed(ls, a) \subseteq ToSet(IdsOf(ls)) BY <1>1, <1>4, ListedFacts
<1>8. ~f.open => Firm(f) = ToSet(Ids(f)) BY <1>1, IdsListed DEF Firm, Ids
<1>9. ASSUME ls = <<>> PROVE Ids(f) = <<>> /\ Firm(f) = {} /\ Sure(f) = {} /\ ~f.open
  <2>1. IdsOf(<<>>) = <<>> BY <1>1, IdsSteps
  <2>2. Ids(f) = <<>> BY <1>9, <2>1 DEF Ids
  <2>3. ToSet(Ids(f)) = {} BY <2>2, ToSetFacts
  <2> QED BY <1>1, <1>5, <1>6, <1>7, <1>9, <2>2, <2>3 DEF Ids
<1> QED BY <1>1, <1>2, <1>3, <1>5, <1>6, <1>7, <1>8, <1>9 DEF Ids

\* One more line, whole or not, behind a line that ended.
LEMMA LineAdded ==
  ASSUME NEW f \in Files, Headed(f.lines), ~f.open,
         NEW l \in EntryLine \cup Bad, NEW g \in FileRecord,
         g.lines = Append(f.lines, l), g.synced = f.synced, g.sick = f.sick
  PROVE  /\ g \in Files /\ Headed(g.lines) 
         /\ g.lines[1] = f.lines[1] /\ Begins(f.lines, g.lines)
         /\ Ids(g) = IF l \in EntryLine THEN Append(Ids(f), l.id) ELSE Ids(f)
         /\ Firm(f) \subseteq Firm(g) /\ Sure(f) \subseteq Sure(g)
         /\ ~g.open => Firm(g) = ToSet(Ids(g))
         /\ ~Replaceable(f.lines) => ~Replaceable(g.lines)
<1> DEFINE ls == f.lines
           ms == Append(ls, l)
           n  == Len(ls)
<1>1. ls \in Seq(Text) /\ n \in Nat /\ n > 0 /\ ls # <<>> /\ ls[1] \in Headers BY FileFacts DEF Headed
<1>2. l \in Text BY DEF Text
<1>3. ms \in Seq(Text) /\ Len(ms) = n + 1 /\ (\A i \in 1..n : ms[i] = ls[i]) /\ ms[n + 1] = l /\ ms # <<>>
  BY <1>1, <1>2
<1>4. g.lines = ms OBVIOUS
<1>7. f.synced \in Nat /\ f.synced <= n BY FileFacts
<1> HIDE DEF ms
<1>8. ms[1] = ls[1] BY <1>1, <1>3
<1>9. Headed(ms) BY <1>1, <1>3, <1>8 DEF Headed
<1>10. \A i \in 2..Len(ms) : ms[i] \in EntryLine \cup Bad
  <2>1. ls # <<>> /\ ls[1] \notin Bad BY <1>1, TextFacts
  <2>2. \A i \in 2..n : ls[i] \in EntryLine \cup Bad BY <2>1, FileFacts DEF Shape, Body
  <2> TAKE i \in 2..Len(ms)
  <2>3. i \in 2..n \/ i = n + 1 BY <1>1, <1>3
  <2>4. CASE i = n + 1 BY <1>3, <2>4
  <2>5. CASE i \in 2..n
    <3>1. ms[i] = ls[i] BY <1>1, <1>3, <2>5
    <3> QED BY <2>2, <2>5, <3>1
  <2> QED BY <2>3, <2>4, <2>5
<1>11. g \in Files
  <2>1. Shape(g.lines) BY <1>4, <1>9, <1>10 DEF Shape, Body
  <2>2. g.synced <= Len(g.lines) BY <1>3, <1>4, <1>7, <1>1
  <2> QED BY <1>3, <1>4, <2>1, <2>2 DEF Files
<1>12. Ids(g) = IF l \in EntryLine THEN Append(Ids(f), l.id) ELSE Ids(f)
  <2>1. CASE l \in EntryLine
    <3>1. l.id \in Nat /\ l = Line(l.id) BY <2>1, TextFacts
    <3>2. IdsOf(Append(ls, Line(l.id))) = Append(IdsOf(ls), l.id) BY <1>1, <3>1, IdsSteps
    <3> QED BY <1>4, <2>1, <3>1, <3>2 DEF Ids, ms
  <2>2. CASE l \notin EntryLine
    <3>1. IdsOf(Append(ls, l)) = IdsOf(ls) BY <1>1, <1>2, <2>2, IdsSteps
    <3> QED BY <1>4, <2>2, <3>1 DEF Ids, ms
  <2> QED BY <2>1, <2>2
<1>13. Firm(f) = Listed(ls, n) BY DEF Firm
<1>14. Listed(ms, n) = Listed(ls, n) BY <1>1, <1>3, ListedAgree
<1>15. Listed(ms, n) \subseteq Firm(g)
  <2>1. Listed(ms, n) \subseteq Listed(ms, n + 1) BY <1>1, <1>3, ListedFacts
  <2>2. CASE g.open
    <3>1. Firm(g) = Listed(ms, Len(ms) - 1) BY <1>4, <2>2 DEF Firm
    <3>2. Len(ms) - 1 = n BY <1>1, <1>3
    <3> QED BY <3>1, <3>2
  <2>3. CASE ~g.open
    <3>1. Firm(g) = Listed(ms, Len(ms)) BY <1>4, <2>3 DEF Firm
    <3> QED BY <1>3, <2>1, <3>1
  <2> QED BY <2>2, <2>3
<1>16. Sure(g) = Listed(ms, f.synced)
  <2>1. g.synced # Len(g.lines) BY <1>1, <1>3, <1>4, <1>7
  <2> QED BY <1>4, <2>1 DEF Sure
<1>17. Sure(f) = Listed(ls, f.synced) BY DEF Sure
<1>18. Listed(ms, f.synced) = Listed(ls, f.synced)
  <2>1. \A i \in 1..f.synced : ms[i] = ls[i] BY <1>1, <1>3, <1>7
  <2> QED BY <1>7, <2>1, ListedAgree
<1>19. ~g.open => Firm(g) = ToSet(Ids(g)) BY <1>11, FileFacts
<1>20. ASSUME ~Replaceable(ls) PROVE ~Replaceable(ms)
  <2>1. ls[1] # OldHeader \/ Bad \cap ToSet(ls) # {} BY <1>20 DEF Replaceable
  <2>2. ToSet(ms) = ToSet(ls) \cup {l} BY <1>1, <1>2, ToSetFacts DEF ms
  <2> QED BY <1>3, <1>8, <2>1, <2>2 DEF Replaceable
<1>21. Begins(ls, ms) BY <1>1, <1>3 DEF Begins
<1> QED BY <1>4, <1>8, <1>9, <1>11, <1>12, <1>13, <1>14, <1>15, <1>16, <1>17, <1>18, <1>19, <1>20, <1>21

\* append_line's write, and what is left of one cut short.
LEMMA AppendedFile ==
  ASSUME NEW f \in Files, Headed(f.lines), ~f.open, NEW e \in Nat
  PROVE  LET g == Written(f, <<Line(e)>>)
         IN  /\ g \in Files /\ Headed(g.lines) /\ ~g.open /\ g.sick = f.sick /\ g.lines[1] = f.lines[1]
             /\ Begins(f.lines, g.lines)
             /\ Ids(g) = Append(Ids(f), e) /\ Firm(g) = ToSet(Ids(g)) /\ Firm(f) \subseteq Firm(g)
             /\ Sure(f) \subseteq Sure(g)
             /\ ~Replaceable(f.lines) => ~Replaceable(g.lines)
<1> DEFINE g == Written(f, <<Line(e)>>)
<1>1. f \in FileRecord /\ f.lines \in Seq(Text) BY FileFacts DEF Files
<1>2. Line(e) \in EntryLine /\ Line(e) \in Text /\ Line(e).id = e BY TextFacts
<1>3. <<Line(e)>> # <<>> OBVIOUS
<1>4. g = [f EXCEPT !.lines = @ \o <<Line(e)>>] BY <1>3 DEF Written
<1>5. f.lines \o <<Line(e)>> = Append(f.lines, Line(e)) /\ Append(f.lines, Line(e)) \in Seq(Text) BY <1>1, <1>2
<1>6. g \in FileRecord /\ g.lines = Append(f.lines, Line(e)) /\ g.open = FALSE /\ g.synced = f.synced /\ g.sick = f.sick
  BY <1>1, <1>4, <1>5 DEF FileRecord
<1> HIDE DEF g
<1>7. /\ g \in Files /\ Headed(g.lines) /\ g.lines[1] = f.lines[1] /\ Begins(f.lines, g.lines)
      /\ Ids(g) = IF Line(e) \in EntryLine THEN Append(Ids(f), Line(e).id) ELSE Ids(f)
      /\ Firm(f) \subseteq Firm(g) /\ Sure(f) \subseteq Sure(g) /\ Firm(g) = ToSet(Ids(g))
      /\ ~Replaceable(f.lines) => ~Replaceable(g.lines)
  BY <1>2, <1>6, LineAdded
<1> QED BY <1>2, <1>6, <1>7 DEF g

\* What an append cut short leaves of a file whose last line is terminated: what it was, or that and more.
LEMMA AppendCutShort ==
  ASSUME NEW f \in Files, Headed(f.lines), ~f.open, NEW e \in Nat, NEW g \in CutShort(f, <<Line(e)>>)
  PROVE  /\ g \in Files /\ Headed(g.lines) /\ g.lines[1] = f.lines[1] /\ Begins(f.lines, g.lines)
         /\ Ids(g) = Ids(f) \/ Ids(g) = Append(Ids(f), e)
         /\ Firm(f) \subseteq Firm(g) /\ Sure(f) \subseteq Sure(g)
         /\ ~Replaceable(f.lines) => ~Replaceable(g.lines)
<1> DEFINE text == <<Line(e)>>
           whole(n) == Written(f, SubSeq(text, 1, n - 1))
<1>1. DOMAIN text = {1} /\ text[1] = Line(e) OBVIOUS
<1>2. SubSeq(text, 1, 0) = <<>>
  <2>1. text \in Seq({Line(e)}) OBVIOUS
  <2> HIDE DEF text
  <2> QED BY <2>1
<1>3. whole(1) = f BY <1>2 DEF Written
<1>4. PICK n \in DOMAIN text : g \in {whole(n)} \cup StoppedIn(whole(n), text[n]) BY DEF CutShort
<1>5. n = 1 BY <1>1
<1>6. g = f \/ g \in StoppedIn(f, Line(e)) BY <1>1, <1>3, <1>4, <1>5
<1>7. CASE g = f
  <2>1. Begins(f.lines, f.lines)
    <3>1. Len(f.lines) \in Nat BY FileFacts
    <3> QED BY <3>1 DEF Begins
  <2> QED BY <1>7, <2>1
<1>8. ASSUME NEW piece \in Bad \cup {Line(e)}, g = [f EXCEPT !.lines = Append(@, piece), !.open = TRUE]
      PROVE  /\ g \in Files /\ Headed(g.lines) /\ g.lines[1] = f.lines[1] /\ Begins(f.lines, g.lines)
             /\ Ids(g) = Ids(f) \/ Ids(g) = Append(Ids(f), e)
             /\ Firm(f) \subseteq Firm(g) /\ Sure(f) \subseteq Sure(g)
             /\ ~Replaceable(f.lines) => ~Replaceable(g.lines)
  <2>1. piece \in EntryLine \cup Bad /\ (piece \in EntryLine => piece.id = e) BY TextFacts
  <2>0. /\ g \in FileRecord /\ g.lines = Append(f.lines, piece) /\ g.open = TRUE
        /\ g.synced = f.synced /\ g.sick = f.sick
    <3>1. f \in FileRecord /\ f.lines \in Seq(Text) BY FileFacts DEF Files
    <3>2. piece \in Text BY <2>1 DEF Text
    <3>3. Append(f.lines, piece) \in Seq(Text) BY <3>1, <3>2
    <3> QED BY <1>8, <3>1, <3>3 DEF FileRecord
  <2>2. /\ g \in Files /\ Headed(g.lines) /\ g.lines[1] = f.lines[1] /\ Begins(f.lines, g.lines)
        /\ Ids(g) = IF piece \in EntryLine THEN Append(Ids(f), piece.id) ELSE Ids(f)
        /\ Firm(f) \subseteq Firm(g) /\ Sure(f) \subseteq Sure(g)
        /\ ~Replaceable(f.lines) => ~Replaceable(g.lines)
    BY <2>0, <2>1, LineAdded
  <2> QED BY <2>1, <2>2
<1>9. CASE g \in StoppedIn(f, Line(e))
  <2>1. \E piece \in Bad \cup {Line(e)} : g = [f EXCEPT !.lines = Append(@, piece), !.open = TRUE] BY <1>9 DEF StoppedIn, Torn, Bad
  <2> QED BY <1>8, <2>1
<1> QED BY <1>6, <1>7, <1>9

\* A header and one line per entry.
Whole(es) == <<Header>> \o [i \in DOMAIN es |-> Line(es[i])]

\* ... is a file's content, which lists those entries.
LEMMA WholeText ==
  ASSUME NEW es \in Seq(Nat)
  PROVE  /\ Whole(es) \in Seq(Text) /\ Shape(Whole(es)) /\ Whole(es) # <<>> /\ Whole(es)[1] = Header
         /\ Len(Whole(es)) = Len(es) + 1
         /\ \A i \in 2..Len(Whole(es)) : Whole(es)[i] \in EntryLine
         /\ IdsOf(Whole(es)) = es
<1> DEFINE b == [i \in DOMAIN es |-> Line(es[i])]
           w == <<Header>> \o b
<1>1. DOMAIN es = 1..Len(es) /\ Len(es) \in Nat /\ \A i \in 1..Len(es) : es[i] \in Nat OBVIOUS
<1>2. \A i \in 1..Len(es) : Line(es[i]) \in EntryLine /\ Line(es[i]).id = es[i] BY <1>1, TextFacts
<1>3. b \in Seq(EntryLine) /\ Len(b) = Len(es) /\ \A i \in 1..Len(es) : b[i] = Line(es[i]) BY <1>1, <1>2
<1> HIDE DEF b
<1>4. b \in Seq(Text)
  <2>1. EntryLine \subseteq Text BY DEF Text
  <2> QED BY <1>3, <2>1
<1>5. <<Header>> \in Seq(Text) /\ Header \in Text BY TextFacts
<1>6. /\ w \in Seq(Text) /\ Len(w) = Len(es) + 1 /\ w[1] = Header /\ w # <<>>
      /\ \A i \in 1..Len(es) : w[i + 1] = b[i]
  BY <1>1, <1>3, <1>4, <1>5
<1>7. Filter(w, EntryLine) = b
  <2>1. Filter(<<Header>> \o b, EntryLine) = Filter(<<Header>>, EntryLine) \o Filter(b, EntryLine)
    BY <1>4, <1>5, FilterConcat
  <2>2. Filter(<<Header>>, EntryLine) = <<>>
    <3>1. <<Header>> \in Seq({Header}) OBVIOUS
    <3>2. Filter(<<Header>>, EntryLine) \in Seq({Header} \cap EntryLine) BY <3>1, FilterType
    <3>3. {Header} \cap EntryLine = {} BY TextFacts
    <3> QED BY <3>2, <3>3
  <2>3. Filter(b, EntryLine) = b
    <3>1. ToSet(b) \subseteq EntryLine BY <1>3, ToSetFacts
    <3> QED BY <1>3, <3>1, FilterAll
  <2>4. <<>> \o b = b BY <1>3, ConcatEmptySeq
  <2> QED BY <2>1, <2>2, <2>3, <2>4
<1>8. w = Whole(es) BY DEF b, Whole
<1> HIDE DEF w
<1>9. \A i \in 2..Len(w) : w[i] \in EntryLine
  <2> TAKE i \in 2..Len(w)
  <2>1. i - 1 \in 1..Len(es) /\ i = (i - 1) + 1 BY <1>1, <1>6
  <2>2. w[i] = b[i - 1] BY <1>6, <2>1
  <2>3. b[i - 1] \in EntryLine BY <1>2, <1>3, <2>1
  <2> QED BY <2>2, <2>3
<1>10. Shape(w) BY <1>6, <1>9 DEF Shape, Body, Headed, Headers
<1>11. IdsOf(w) = es
  <2>1. IdsOf(w) = [i \in 1..Len(b) |-> b[i].id] BY <1>7 DEF IdsOf
  <2>2. IdsOf(w) = [i \in 1..Len(es) |-> es[i]] BY <1>2, <1>3, <2>1
  <2> QED BY <2>2
<1> QED BY <1>6, <1>8, <1>9, <1>10, <1>11

\* A file just created, one just written, and one that replaces another.
LEMMA NewFiles ==
  /\ NewFile(<<>>) \in Files /\ NewFile(<<>>).lines = <<>> /\ ~NewFile(<<>>).open /\ ~NewFile(<<>>).sick
  /\ \A es \in Seq(Nat) :
       LET g == Flushed(NewFile(Whole(es)))
       IN  /\ g \in Files /\ g.lines = Whole(es) /\ ~g.open /\ Ids(g) = es
           /\ Firm(g) = ToSet(es) /\ Sure(g) = ToSet(es)
<1>1. /\ NewFile(<<>>) \in FileRecord /\ NewFile(<<>>).lines = <<>> /\ ~NewFile(<<>>).open
      /\ NewFile(<<>>).synced = 0 /\ ~NewFile(<<>>).sick
  <2>1. <<>> \in Seq(Text) OBVIOUS
  <2> QED BY <2>1 DEF NewFile, FileRecord
<1>2. NewFile(<<>>) \in Files BY <1>1 DEF Files, Shape
<1>3. ASSUME NEW es \in Seq(Nat)
      PROVE  LET g == Flushed(NewFile(Whole(es)))
             IN  /\ g \in Files /\ g.lines = Whole(es) /\ ~g.open /\ Ids(g) = es
                 /\ Firm(g) = ToSet(es) /\ Sure(g) = ToSet(es)
  <2> DEFINE w == Whole(es)
             g == Flushed(NewFile(w))
  <2>1. w \in Seq(Text) /\ Shape(w) /\ IdsOf(w) = es BY WholeText
  <2> HIDE DEF w
  <2>2. Len(w) \in Nat BY <2>1
  <2>3. g \in FileRecord /\ g.lines = w /\ g.open = FALSE /\ g.synced = Len(w) /\ g.sick = FALSE
    BY <2>1, <2>2 DEF Flushed, NewFile, FileRecord
  <2> HIDE DEF g
  <2>4. g \in Files BY <2>1, <2>2, <2>3 DEF Files
  <2>5. Ids(g) = es BY <2>1, <2>3 DEF Ids
  <2>6. Firm(g) = ToSet(es) BY <2>3, <2>4, <2>5, FileFacts
  <2>7. Sure(g) = Firm(g) BY <2>3 DEF Sure, Firm
  <2> QED BY <2>3, <2>4, <2>5, <2>6, <2>7 DEF g, w
<1> QED BY <1>1, <1>2, <1>3

\* The first text, in one write.
LEMMA FirstWritten ==
  ASSUME NEW f \in Files, f.lines = <<>>, NEW es \in Seq(Nat)
  PROVE  LET g == Written(f, Whole(es))
         IN  /\ g \in Files /\ g.lines # <<>> /\ g.lines[1] = Header /\ ~g.open /\ g.sick = f.sick
             /\ Ids(g) = es /\ Firm(g) = ToSet(es)
<1> DEFINE w == Whole(es)
           g == Written(f, w)
<1>1. w \in Seq(Text) /\ Shape(w) /\ w # <<>> /\ w[1] = Header /\ IdsOf(w) = es BY WholeText
<1> HIDE DEF w
<1>2. f \in FileRecord /\ ~f.open /\ f.synced = 0
  <2>1. f.synced <= Len(f.lines) /\ f.synced \in Nat /\ ~f.open BY FileFacts
  <2>2. Len(f.lines) = 0 OBVIOUS
  <2> QED BY <2>1, <2>2 DEF Files
<1>3. <<>> \o w = w BY <1>1, ConcatEmptySeq
<1>4. g \in FileRecord /\ g.lines = w /\ g.open = f.open /\ g.synced = f.synced /\ g.sick = f.sick
  BY <1>1, <1>2, <1>3 DEF Written, FileRecord
<1> HIDE DEF g
<1>5. g.synced <= Len(g.lines) BY <1>1, <1>2, <1>4
<1>6. g \in Files BY <1>1, <1>2, <1>4, <1>5 DEF Files
<1>7. Ids(g) = es BY <1>1, <1>4 DEF Ids
<1>8. Firm(g) = ToSet(Ids(g)) BY <1>2, <1>4, <1>6, FileFacts
<1> QED BY <1>1, <1>2, <1>4, <1>6, <1>7, <1>8 DEF g, w

\* Lines up to some point, perhaps with a piece of the next one ...
CutAt(ls, n, ms) ==
  \/ ms = SubSeq(ls, 1, n)
  \/ n < Len(ls) /\ \E piece \in Bad \cup {ls[n + 1]} : ms = Append(SubSeq(ls, 1, n), piece)

\* ... are a shape still, and what they
\* list is how the list of all of them begins.
LEMMA CutText ==
  ASSUME NEW ls \in Seq(Text), Shape(ls), NEW n \in Nat, n <= Len(ls), NEW ms, CutAt(ls, n, ms)
  PROVE  /\ ms \in Seq(Text) /\ Shape(ms) /\ Begins(IdsOf(ms), IdsOf(ls))
         /\ n <= Len(ms) /\ (\A i \in 1..n : ms[i] = ls[i])
<1> DEFINE a == SubSeq(ls, 1, n)
           b == SubSeq(ls, n + 1, Len(ls))
           c == SubSeq(ls, 1, n + 1)
           d == SubSeq(ls, n + 2, Len(ls))
<1>1. Len(ls) \in Nat OBVIOUS
<1>2. /\ a \in Seq(Text) /\ Len(a) = n /\ (\A i \in 1..n : a[i] = ls[i])
      /\ b \in Seq(Text) /\ ls = a \o b
  <2>1. a \in Seq(Text) /\ Len(a) = n /\ (\A i \in 1..n : a[i] = ls[i]) BY <1>1
  <2>0. n \in 0..Len(ls) BY <1>1
  <2>2. b \in Seq(Text) /\ ls = a \o b BY <2>0, CountCut
  <2> QED BY <2>1, <2>2
<1>3. Begins(IdsOf(a), IdsOf(ls))
  <2> HIDE DEF a, b
  <2>1. Begins(IdsOf(a), IdsOf(a \o b)) BY <1>2, IdsSteps
  <2> QED BY <1>2, <2>1
<1>4. ASSUME n < Len(ls) PROVE Append(a, ls[n + 1]) = c /\ Begins(IdsOf(c), IdsOf(ls)) /\ ls[n + 1] \in Text
  <2>1. c \in Seq(Text) /\ Len(c) = n + 1 /\ (\A i \in 1..(n + 1) : c[i] = ls[i]) BY <1>1, <1>4
  <2>2. n + 1 \in 0..Len(ls) BY <1>1, <1>4
  <2>3. SubSeq(ls, (n + 1) + 1, Len(ls)) \in Seq(Text) /\ ls = c \o SubSeq(ls, (n + 1) + 1, Len(ls)) BY <2>2, CountCut
  <2>4. ls[n + 1] \in Text BY <1>1, <1>4
  <2>5. Append(a, ls[n + 1]) = c
    <3> HIDE DEF a, c
    <3> DEFINE p == Append(a, ls[n + 1])
    <3>1. p \in Seq(Text) /\ Len(p) = n + 1 /\ (\A i \in 1..n : p[i] = a[i]) /\ p[n + 1] = ls[n + 1] BY <1>2, <2>4
    <3> HIDE DEF p
    <3>2. \A i \in 1..(n + 1) : i \in 1..n \/ i = n + 1 OBVIOUS
    <3>3. \A i \in 1..(n + 1) : p[i] = c[i] BY <1>2, <2>1, <3>1, <3>2
    <3>4. p = c BY <2>1, <3>1, <3>3, SeqEqual
    <3> QED BY <3>4 DEF p
  <2>6. Begins(IdsOf(c), IdsOf(ls))
    <3> DEFINE e == SubSeq(ls, (n + 1) + 1, Len(ls))
    <3> HIDE DEF c, e
    <3>1. Begins(IdsOf(c), IdsOf(c \o e)) BY <2>1, <2>3, IdsSteps DEF e
    <3> QED BY <2>3, <3>1 DEF e
  <2> QED BY <2>4, <2>5, <2>6
<1> HIDE DEF a, b, c, d
<1>5. ms = a \/ (n < Len(ls) /\ \E piece \in Bad \cup {ls[n + 1]} : ms = Append(a, piece)) BY DEF a, CutAt
<1>6. ms \in Seq(Text) /\ n <= Len(ms) /\ (\A i \in 1..n : ms[i] = ls[i])
  <2>1. CASE ms = a BY <1>2, <2>1
  <2>2. ASSUME n < Len(ls), NEW piece \in Bad \cup {ls[n + 1]}, ms = Append(a, piece)
        PROVE  ms \in Seq(Text) /\ n <= Len(ms) /\ (\A i \in 1..n : ms[i] = ls[i])
    <3>1. piece \in Text BY <1>4, <2>2, TextFacts
    <3> DEFINE p == Append(a, piece)
    <3>2. p \in Seq(Text) /\ Len(p) = n + 1 /\ (\A i \in 1..n : p[i] = a[i]) BY <1>2, <3>1
    <3> HIDE DEF p
    <3> QED BY <1>2, <2>2, <3>2 DEF p
  <2> QED BY <1>5, <2>1, <2>2
<1>7. Begins(IdsOf(ms), IdsOf(ls))
  <2>1. CASE ms = a BY <1>3, <2>1
  <2>2. ASSUME n < Len(ls), NEW piece \in Bad \cup {ls[n + 1]}, ms = Append(a, piece) PROVE Begins(IdsOf(ms), IdsOf(ls))
    <3>1. CASE piece \in Bad
      <4>1. IdsOf(Append(a, piece)) = IdsOf(a) BY <1>2, <3>1, IdsSteps, TextFacts
      <4> QED BY <1>3, <2>2, <4>1
    <3>2. CASE piece = ls[n + 1] BY <1>4, <2>2, <3>2
    <3> QED BY <3>1, <3>2
  <2> QED BY <1>5, <2>1, <2>2
<1>8. Shape(ms)
  <2>1. Len(ms) \in Nat BY <1>6
  <2>2. \A i \in 1..Len(ms) : (i \in 1..Len(ls) /\ ms[i] = ls[i]) \/ ms[i] \in Bad
    <3>1. CASE ms = a BY <1>1, <1>2, <3>1
    <3>2. ASSUME n < Len(ls), NEW piece \in Bad \cup {ls[n + 1]}, ms = Append(a, piece)
          PROVE  \A i \in 1..Len(ms) : (i \in 1..Len(ls) /\ ms[i] = ls[i]) \/ ms[i] \in Bad
      <4>1. piece \in Text BY <1>4, <3>2, TextFacts
      <4> DEFINE p == Append(a, piece)
      <4>2. Len(p) = n + 1 /\ (\A i \in 1..n : p[i] = a[i]) /\ p[n + 1] = piece BY <1>2, <4>1
      <4> HIDE DEF p
      <4>3. \A i \in 1..Len(p) : i \in 1..n \/ i = n + 1 BY <4>2
      <4>4. \A i \in 1..n : i \in 1..Len(ls) BY <1>1, <3>2
      <4>5. n + 1 \in 1..Len(ls) BY <1>1, <3>2
      <4>6. ASSUME NEW i \in 1..Len(p) PROVE (i \in 1..Len(ls) /\ p[i] = ls[i]) \/ p[i] \in Bad
        <5>1. CASE i \in 1..n BY <1>2, <4>2, <4>4, <5>1
        <5>2. CASE i = n + 1 BY <3>2, <4>2, <4>5, <5>2
        <5> QED BY <4>3, <5>1, <5>2
      <4>7. ms = p BY <3>2 DEF p
      <4> QED BY <4>6, <4>7
    <3> QED BY <1>5, <3>1, <3>2
  <2>3. CASE Len(ms) = 0
    <3>1. ms = <<>> BY <1>6, <2>3
    <3> QED BY <3>1 DEF Shape
  <2>4. CASE Len(ms) # 0 /\ Headed(ls) /\ Body(ls)
    <3>1. Body(ms)
      <4> SUFFICES ASSUME NEW i \in 2..Len(ms) PROVE ms[i] \in EntryLine \cup Bad BY DEF Body
      <4>1. i \in 1..Len(ms) BY <2>1
      <4>2. CASE i \in 1..Len(ls) /\ ms[i] = ls[i]
        <5>1. i \in 2..Len(ls) BY <1>1, <4>2
        <5> QED BY <2>4, <4>2, <5>1 DEF Body
      <4> QED BY <2>2, <4>1, <4>2
    <3>2. ms # <<>> /\ 1 \in 1..Len(ms) BY <2>1, <2>4
    <3>3. CASE ms[1] = ls[1]
      <4>1. Headed(ms) BY <2>4, <3>2, <3>3 DEF Headed
      <4> QED BY <3>1, <4>1 DEF Shape
    <3>4. CASE ms[1] # ls[1]
      <4>1. ms[1] \in Bad BY <2>2, <3>2, <3>4
      <4>2. n = 0 BY <1>6, <3>4
      <4>3. Len(ms) = 1
        <5>1. Len(ms) <= 1
          <6>1. CASE ms = a BY <1>2, <4>2, <6>1
          <6>2. ASSUME n < Len(ls), NEW piece \in Bad \cup {ls[n + 1]}, ms = Append(a, piece) PROVE Len(ms) <= 1
            <7>1. piece \in Text BY <1>4, <6>2, TextFacts
            <7> QED BY <1>2, <4>2, <6>2, <7>1
          <6> QED BY <1>5, <6>1, <6>2
        <5>2. Len(ms) # 0 BY <2>4
        <5>3. Len(ms) \in Nat BY <2>1
        <5> DEFINE k == Len(ms)
        <5>4. k \in Nat /\ k <= 1 /\ k # 0 BY <5>1, <5>2, <5>3
        <5> HIDE DEF k
        <5>5. k = 1 BY <5>4
        <5> QED BY <5>5 DEF k
      <4> QED BY <4>1, <4>3 DEF Shape
    <3> QED BY <3>3, <3>4
  <2>5. CASE Len(ms) # 0 /\ Len(ls) = 1 /\ ls[1] \in Bad
    <3>1. Len(ms) = 1
      <4>1. CASE ms = a BY <1>1, <1>2, <2>1, <2>5, <4>1
      <4>2. ASSUME n < Len(ls), NEW piece \in Bad \cup {ls[n + 1]}, ms = Append(a, piece) PROVE Len(ms) = 1
        <5>1. piece \in Text /\ n = 0 BY <1>4, <2>5, <4>2, TextFacts
        <5> QED BY <1>2, <4>2, <5>1
      <4> QED BY <1>5, <4>1, <4>2
    <3>2. ms[1] \in Bad
      <4>1. 1 \in 1..Len(ms) BY <3>1
      <4> QED BY <2>2, <2>5, <4>1
    <3> QED BY <3>1, <3>2 DEF Shape
  <2>6. CASE Len(ms) # 0 /\ ls = <<>>
    <3>1. Len(ls) = 0 BY <2>6
    <3>2. n = 0 /\ ms = a BY <1>5, <3>1
    <3> QED BY <1>2, <2>6, <3>2
  <2> QED BY <2>3, <2>4, <2>5, <2>6 DEF Shape
<1> QED BY <1>6, <1>7, <1>8

\* The first text cut short: the file lists some of the entries it should, from the first on.
LEMMA FirstCutShort ==
  ASSUME NEW f \in Files, f.lines = <<>>, NEW es \in Seq(Nat), NEW g \in CutShort(f, Whole(es))
  PROVE  g \in Files /\ Begins(Ids(g), es)
<1> DEFINE w == Whole(es)
           part(n) == SubSeq(w, 1, n - 1)
           whole(n) == Written(f, part(n))
<1>1. w \in Seq(Text) /\ Shape(w) /\ Len(w) \in Nat /\ DOMAIN w = 1..Len(w) /\ IdsOf(w) = es BY WholeText
<1>2. f \in FileRecord /\ f.open = FALSE /\ f.synced = 0
  <2>1. f.synced <= Len(f.lines) /\ f.synced \in Nat /\ f.open \in BOOLEAN /\ ~f.open BY FileFacts
  <2>2. Len(f.lines) = 0 OBVIOUS
  <2> QED BY <2>1, <2>2 DEF Files
<1>3. PICK n \in DOMAIN w : g \in {whole(n)} \cup StoppedIn(whole(n), w[n]) BY DEF CutShort
<1> DEFINE k == n - 1
<1>4. n \in Nat /\ k \in Nat /\ k < Len(w) /\ n = k + 1 BY <1>1, <1>3
<1> HIDE DEF w
<1>5. part(n) \in Seq(Text) BY <1>1, <1>4
<1> DEFINE p == part(n)
           v == whole(n)
<1>6. p \in Seq(Text) /\ p = SubSeq(w, 1, k) BY <1>5
<1>7. v = Written(f, p) OBVIOUS
<1> HIDE DEF p, v
<1>8. v \in FileRecord /\ v.lines = p /\ v.open = FALSE /\ v.synced = 0
  <2>1. CASE p = <<>>
    <3>1. v = f BY <1>7, <2>1 DEF Written
    <3> QED BY <1>2, <2>1, <3>1
  <2>2. CASE p # <<>>
    <3>1. v = [f EXCEPT !.lines = f.lines \o p] BY <1>2, <1>7, <2>2 DEF Written
    <3>2. f.lines \o p = p BY <1>6, ConcatEmptySeq
    <3> QED BY <1>2, <1>6, <3>1, <3>2 DEF FileRecord
  <2> QED BY <2>1, <2>2
<1>9. g \in FileRecord /\ g.synced = 0 /\ CutAt(w, k, g.lines) /\ (g.open => g.lines # <<>>)
  <2>1. CASE g = v BY <1>6, <1>8, <2>1 DEF CutAt
  <2>2. ASSUME NEW piece \in Bad \cup {w[n]}, g = [v EXCEPT !.lines = Append(@, piece), !.open = TRUE]
        PROVE  g \in FileRecord /\ g.synced = 0 /\ CutAt(w, k, g.lines) /\ (g.open => g.lines # <<>>)
    <3>1. piece \in Text BY <1>1, <1>3, <2>2, TextFacts
    <3>2. Append(p, piece) \in Seq(Text) /\ Append(p, piece) # <<>> BY <1>6, <3>1, SMTT(30)
    <3>3. g \in FileRecord /\ g.synced = 0 /\ g.lines = Append(p, piece) BY <1>8, <2>2, <3>2 DEF FileRecord
    <3>4. CutAt(w, k, Append(p, piece)) BY <1>4, <1>6, <2>2 DEF CutAt
    <3> QED BY <3>2, <3>3, <3>4
  <2>3. CASE g \in StoppedIn(v, w[n])
    <3>1. \E piece \in Bad \cup {w[n]} : g = [v EXCEPT !.lines = Append(@, piece), !.open = TRUE]
      BY <1>8, <2>3 DEF StoppedIn, Torn, Bad
    <3> QED BY <2>2, <3>1
  <2> QED BY <1>3, <2>1, <2>3 DEF v
<1>10. g.lines \in Seq(Text) /\ Shape(g.lines) /\ Begins(IdsOf(g.lines), IdsOf(w)) BY <1>1, <1>4, <1>9, CutText
<1>11. g.synced <= Len(g.lines) BY <1>9, <1>10
<1>12. g \in Files BY <1>9, <1>10, <1>11 DEF Files
<1> QED BY <1>1, <1>10, <1>12 DEF Ids

\* A flush, and one that fails.
LEMMA FlushedFile ==
  ASSUME NEW f \in Files
  PROVE  /\ LET g == Flushed(f)
            IN  /\ g \in Files /\ g.lines = f.lines /\ g.open = f.open /\ g.sick = f.sick
                /\ Ids(g) = Ids(f) /\ Firm(g) = Firm(f) /\ Sure(f) \subseteq Sure(g)
                /\ ~f.sick => Sure(g) = Firm(f)
         /\ LET g == [f EXCEPT !.sick = TRUE]
            IN  /\ g \in Files /\ g.lines = f.lines /\ g.open = f.open
                /\ Ids(g) = Ids(f) /\ Firm(g) = Firm(f) /\ Sure(g) = Sure(f)
<1>1. f \in FileRecord /\ Shape(f.lines) /\ Len(f.lines) \in Nat /\ Sure(f) \subseteq Firm(f) /\ (f.open => f.lines # <<>>)
  BY FileFacts DEF Files
<1>2. CASE f.sick
  <2>1. Flushed(f) = f BY <1>2 DEF Flushed
  <2>2. LET g == [f EXCEPT !.sick = TRUE] IN g = f BY <1>1, <1>2 DEF FileRecord
  <2> QED BY <1>2, <2>1, <2>2
<1>3. CASE ~f.sick
  <2> DEFINE g == Flushed(f)
             h == [f EXCEPT !.sick = TRUE]
  <2>1. g \in FileRecord /\ g.lines = f.lines /\ g.open = f.open /\ g.sick = f.sick /\ g.synced = Len(f.lines)
    BY <1>1, <1>3 DEF Flushed, FileRecord
  <2>2. h \in FileRecord /\ h.lines = f.lines /\ h.open = f.open /\ h.synced = f.synced BY <1>1 DEF FileRecord
  <2> HIDE DEF g, h
  <2>3. g \in Files /\ h \in Files BY <1>1, <2>1, <2>2 DEF Files
  <2>4. Ids(g) = Ids(f) /\ Ids(h) = Ids(f) BY <2>1, <2>2 DEF Ids
  <2>5. Firm(g) = Firm(f) /\ Firm(h) = Firm(f) /\ Sure(h) = Sure(f) BY <2>1, <2>2 DEF Firm, Sure
  <2>6. Sure(g) = Firm(f) BY <2>1 DEF Firm, Sure
  <2> QED BY <1>1, <2>1, <2>2, <2>3, <2>4, <2>5, <2>6 DEF g, h
<1> QED BY <1>2, <1>3

\* An open terminates the last line.
LEMMA TerminatedFile ==
  ASSUME NEW f \in Files
  PROVE  LET g == Terminated(f)
         IN  /\ g \in Files /\ g.lines = f.lines /\ ~g.open /\ g.sick = f.sick
             /\ Ids(g) = Ids(f) /\ Firm(g) = ToSet(Ids(f)) /\ Sure(g) = Sure(f)
<1> DEFINE g == Terminated(f)
           n == IF f.open /\ f.synced = Len(f.lines) THEN f.synced - 1 ELSE f.synced
<1>1. /\ f \in FileRecord /\ Shape(f.lines) /\ Len(f.lines) \in Nat /\ f.synced \in Nat /\ f.synced <= Len(f.lines)
      /\ f.open => Len(f.lines) > 0
  BY FileFacts DEF Files
<1>2. n \in Nat /\ n <= Len(f.lines) BY <1>1
<1>3. g = [f EXCEPT !.open = FALSE, !.synced = n] BY DEF Terminated
<1> HIDE DEF g, n
<1>4. g \in FileRecord /\ g.lines = f.lines /\ g.open = FALSE /\ g.sick = f.sick /\ g.synced = n
  BY <1>1, <1>2, <1>3 DEF FileRecord
<1>5. g \in Files BY <1>1, <1>2, <1>4 DEF Files
<1>6. Ids(g) = Ids(f) BY <1>4 DEF Ids
<1>7. Firm(g) = ToSet(Ids(f)) BY <1>4, <1>5, <1>6, FileFacts
<1>8. Sure(g) = Sure(f) BY <1>4 DEF Sure, n
<1> QED BY <1>4, <1>5, <1>6, <1>7, <1>8 DEF g

\* What a power loss leaves of a file, which is flushed by being all there is.
LEMMA SurvivingFile ==
  ASSUME NEW f \in Files, NEW g \in Survivors(f)
  PROVE  LET h == [g EXCEPT !.synced = Len(g.lines), !.sick = FALSE]
         IN  h \in Files /\ Begins(Ids(h), Ids(f)) /\ Sure(f) \subseteq Sure(h)
<1> DEFINE ls == f.lines
           kept(n) == [f EXCEPT !.lines = SubSeq(@, 1, n), !.open = FALSE]
           h == [g EXCEPT !.synced = Len(g.lines), !.sick = FALSE]
           Good == h \in Files /\ Begins(Ids(h), Ids(f)) /\ Sure(f) \subseteq Sure(h)
<1>1. /\ f \in FileRecord /\ ls \in Seq(Text) /\ Shape(ls) /\ Len(ls) \in Nat /\ f.synced \in Nat /\ f.synced <= Len(ls)
      /\ f.open => ls # <<>> /\ Len(ls) > 0
      /\ Sure(f) \subseteq Firm(f)
  BY FileFacts DEF Files
<1>2. ASSUME g = f PROVE Good
  <2>1. h \in FileRecord /\ h.lines = ls /\ h.open = f.open /\ h.synced = Len(ls) BY <1>1, <1>2 DEF FileRecord
  <2> HIDE DEF h
  <2>2. h \in Files BY <1>1, <2>1 DEF Files
  <2>3. Ids(h) = Ids(f) /\ Ids(f) \in Seq(Nat) BY <2>1, FileFacts DEF Ids
  <2>4. Begins(Ids(h), Ids(f)) BY <2>3 DEF Begins
  <2>5. Sure(h) = Firm(f) BY <2>1 DEF Firm, Sure
  <2> QED BY <1>1, <2>2, <2>4, <2>5
<1>3. ASSUME NEW n \in f.synced..Len(ls) - 1, g \in {kept(n)} \cup StoppedIn(kept(n), ls[n + 1])
      PROVE  Good
  <2> DEFINE v == kept(n)
             p == SubSeq(ls, 1, n)
  <2>1. n \in Nat /\ n < Len(ls) /\ f.synced <= n BY <1>1, <1>3
  <2>2. p \in Seq(Text) /\ Len(p) = n BY <1>1, <2>1
  <2>3. v = [f EXCEPT !.lines = p, !.open = FALSE] OBVIOUS
  <2>4. v \in FileRecord /\ v.lines = p /\ v.open = FALSE BY <1>1, <2>2, <2>3 DEF FileRecord
  <2>5. p = SubSeq(ls, 1, n) OBVIOUS
  <2> HIDE DEF v, p
  <2>6. /\ g \in FileRecord /\ CutAt(ls, n, g.lines) /\ (g.open => Len(g.lines) = n + 1) /\ g.lines \in Seq(Text)
        /\ Len(g.lines) \in {n, n + 1}
    <3>1. CASE g = v BY <2>1, <2>2, <2>4, <2>5, <3>1 DEF CutAt
    <3>2. ASSUME NEW piece \in Bad \cup {ls[n + 1]}, g = [v EXCEPT !.lines = Append(@, piece), !.open = TRUE]
          PROVE  /\ g \in FileRecord /\ CutAt(ls, n, g.lines) /\ (g.open => Len(g.lines) = n + 1) /\ g.lines \in Seq(Text)
                 /\ Len(g.lines) \in {n, n + 1}
      <4>1. ls[n + 1] \in Text BY <1>1, <2>1
      <4>2. piece \in Text BY <3>2, <4>1, TextFacts
      <4>3. Append(p, piece) \in Seq(Text) /\ Len(Append(p, piece)) = n + 1 BY <2>2, <4>2
      <4>4. g \in FileRecord /\ g.lines = Append(p, piece) BY <2>4, <3>2, <4>3 DEF FileRecord
      <4>5. CutAt(ls, n, Append(p, piece)) BY <2>1, <2>5, <3>2 DEF CutAt
      <4> QED BY <4>3, <4>4, <4>5
    <3>3. CASE g \in StoppedIn(v, ls[n + 1])
      <4>1. \E piece \in Bad \cup {ls[n + 1]} : g = [v EXCEPT !.lines = Append(@, piece), !.open = TRUE]
        BY <2>4, <3>3 DEF StoppedIn, Torn, Bad
      <4> QED BY <3>2, <4>1
    <3> QED BY <1>3, <3>1, <3>3 DEF v
  <2>7. h \in FileRecord /\ h.lines = g.lines /\ h.open = g.open /\ h.synced = Len(g.lines)
    <3>1. Len(g.lines) \in Nat BY <2>6
    <3> QED BY <2>6, <3>1 DEF FileRecord
  <2> HIDE DEF h
  <2>8. /\ Shape(g.lines) /\ Begins(IdsOf(g.lines), IdsOf(ls)) /\ n <= Len(g.lines)
        /\ \A i \in 1..n : g.lines[i] = ls[i]
    BY <1>1, <2>1, <2>6, CutText
  <2>9. h \in Files
    <3>1. h.open => h.lines # <<>>
      <4>1. h.open => Len(h.lines) > 0 BY <2>1, <2>6, <2>7
      <4> QED BY <2>6, <2>7, <4>1
    <3>2. h.synced <= Len(h.lines) BY <2>1, <2>6, <2>7
    <3> QED BY <2>7, <2>8, <3>1, <3>2 DEF Files
  <2>10. Sure(f) \subseteq Sure(h)
    <3> DEFINE a == IF f.open /\ f.synced = Len(ls) THEN f.synced - 1 ELSE f.synced
               b == IF h.open /\ h.synced = Len(h.lines) THEN h.synced - 1 ELSE h.synced
    <3>1. a \in Int /\ a <= n BY <1>1, <2>1
    <3>2. b \in Nat /\ n <= b /\ b <= Len(h.lines) BY <2>1, <2>6, <2>7
    <3>3. Sure(f) = Listed(ls, a) /\ Sure(h) = Listed(h.lines, b) BY DEF Sure
    <3> HIDE DEF a, b
    <3>4. Listed(h.lines, a) = Listed(ls, a)
      <4>1. \A i \in 1..a : h.lines[i] = ls[i] BY <2>1, <2>7, <2>8, <3>1
      <4> QED BY <3>1, <4>1, ListedAgree
    <3>5. Listed(h.lines, a) \subseteq Listed(h.lines, b)
      <4>1. a <= b BY <2>1, <3>1, <3>2
      <4>2. h.lines \in Seq(Text) BY <2>6, <2>7
      <4> QED BY <3>1, <3>2, <4>1, <4>2, ListedFacts
    <3> QED BY <3>3, <3>4, <3>5
  <2> QED BY <2>7, <2>8, <2>9, <2>10 DEF Ids
<1>4. g = f \/ \E n \in f.synced..Len(ls) - 1 : g \in {kept(n)} \cup StoppedIn(kept(n), ls[n + 1]) BY DEF Survivors
<1> HIDE DEF Good
<1>5. Good BY <1>2, <1>3, <1>4
<1> QED BY <1>5 DEF Good

-----------------------------------------------------------------------------
(* The invariant. *)

\* Every entry was attached to one that comes before it, is lost or is no entry.
Chained(ids, up, lost) ==
  \A i \in 1..Len(ids) : \/ up[ids[i]] = 0 \/ up[ids[i]] \in lost
                         \/ \E j \in 1..(i - 1) : ids[j] = up[ids[i]]

\* An entry that no file will list: its append was refused, and nobody who holds it has its first
\* flush before it still.
LostOnes == {x \in refused : \A m \in Managers : x \in ToSet(entries[m]) => flushed[m]}

Made == 1..Len(parent)
Now  == inodes[entryNow]

NowIds   == IF entryNow = 0 THEN <<>> ELSE Ids(inodes[entryNow])
NowFirm  == IF entryNow = 0 THEN {} ELSE Firm(inodes[entryNow])
NowSure  == IF entryNow = 0 THEN {} ELSE Sure(inodes[entryNow])
SafeIds  == IF entrySafe = 0 THEN <<>> ELSE Ids(inodes[entrySafe])
SafeSure == IF entrySafe = 0 THEN {} ELSE Sure(inodes[entrySafe])

Points == {"closed", "idle", "creating", "writing", "flushing", "replacing", "naming"}

TypeOK ==
  /\ inodes \in Seq(Files)
  /\ entryNow \in 0..Len(inodes) /\ entrySafe \in 0..Len(inodes)
  /\ at \in [Managers -> Points]
  /\ entries \in [Managers -> Seq(Nat)] /\ leaf \in [Managers -> Nat]
  /\ talked \in [Managers -> BOOLEAN] /\ flushed \in [Managers -> BOOLEAN]
  /\ fd \in [Managers -> Nat] /\ syncErr \in [Managers -> BOOLEAN]
  /\ requests \subseteq (Managers \cup {Nobody}) \X Nat
  /\ parent \in Seq(Nat)
  /\ faults \in Nat /\ losses \in Nat
  /\ setup \in Setups

\* Whatever is spoken of has been made.
MadeInv ==
  /\ \A m \in Managers : ToSet(entries[m]) \subseteq Made
  /\ ToSet(NowIds) \subseteq Made /\ ToSet(SafeIds) \subseteq Made
  /\ acked \subseteq Made /\ refused \subseteq Made /\ owed \subseteq Made /\ excused \subseteq Made

\* Where a manager may be, and that every handle and every request is about the current file.
PlaceOf(m) ==
  /\ at[m] # "closed" => m \in setup.managers
  /\ at[m] = "closed" => ~flushed[m] /\ fd[m] = 0 /\ entries[m] = <<>>
  /\ flushed[m] => at[m] \in {"idle", "replacing", "naming"}
  /\ fd[m] # 0 => /\ fd[m] = entryNow
                  /\ at[m] \in {"writing", "flushing"} \/ (flushed[m] /\ at[m] = "idle")
  /\ at[m] \in {"writing", "flushing"} => fd[m] = entryNow /\ entryNow # 0
  /\ leaf[m] \in {0} \cup ToSet(entries[m])
  /\ at[m] \in {"creating", "writing", "flushing"} => leaf[m] \in ToSet(entries[m])

PlaceInv ==
  /\ \A m \in Managers : PlaceOf(m)
  /\ \A r \in requests : r[2] = entryNow /\ entryNow # 0

Away(n)   == at[n] \in {"closed", "idle", "creating"}
Spared(m) == \A n \in Managers \ {m} : ~flushed[n] /\ Away(n)

\* What the current file is while a manager is at a point.
WhenFlushed(m)  == flushed[m] => entryNow # 0 /\ Headed(Now.lines) /\ ~Now.open
WhenIdle(m)     == flushed[m] /\ at[m] = "idle" => ~Replaceable(Now.lines)
WhenWriting(m)  == at[m] = "writing" => Now.lines = <<>> /\ ~Now.sick /\ requests = {} /\ Spared(m)
WhenFlushing(m) ==
  at[m] = "flushing" =>
    /\ Now.lines # <<>> /\ Now.lines[1] = Header /\ ~Now.open /\ ~Now.sick
    /\ ToSet(entries[m]) \subseteq ToSet(NowIds)
    /\ \A n \in Managers \ {m} : Away(n)
    /\ (\A n \in setup.managers : n = m) => requests = {}
WhenReplacing(m) ==
  /\ at[m] \in {"replacing", "naming"} =>
       entryNow # 0 /\ ~Now.open /\ requests = {} /\ entries[m] = NowIds /\ Spared(m)
  /\ at[m] = "replacing" => Replaceable(Now.lines)
  /\ at[m] = "naming" => Headed(Now.lines) /\ ~Replaceable(Now.lines)

CurrentOf(m) == WhenFlushed(m) /\ WhenIdle(m) /\ WhenWriting(m) /\ WhenFlushing(m) /\ WhenReplacing(m)

CurrentInv ==
  /\ \A m \in Managers : CurrentOf(m)
  /\ requests # {} => ~Replaceable(Now.lines)

\* What a manager holds is in the file, or else will be written into it whole.
MemoryOf(m) ==
  /\ flushed[m] => ToSet(entries[m]) \subseteq ToSet(NowIds) \cup LostOnes
  /\ ~flushed[m] => Chained(entries[m], parent, {})

MemoryInv == \A m \in Managers : MemoryOf(m)

HistoryInv == Chained(NowIds, parent, LostOnes) /\ Chained(SafeIds, parent, LostOnes)

\* An acknowledged entry is in a whole line, and one whose flush came back in a flushed line of
\* whatever the path may name after a power loss.
AckInv ==
  /\ acked \ excused \subseteq NowFirm
  /\ acked \ (excused \cup owed) \subseteq NowSure
  /\ acked \ (excused \cup owed) \subseteq SafeSure

IInv == TypeOK /\ MadeInv /\ PlaceInv /\ CurrentInv /\ MemoryInv /\ HistoryInv /\ AckInv

AllSound == \A s \in Setups : Sound(s)

-----------------------------------------------------------------------------
(* Chains. *)

\* A chain stays one as far as it goes on, when more entries are made and more are lost.
LEMMA ChainedKept ==
  ASSUME NEW ids \in Seq(Nat), NEW first \in Seq(Nat), NEW up \in Seq(Nat), NEW up2 \in Seq(Nat),
         NEW lost, NEW lost2, Begins(first, ids), ToSet(ids) \subseteq 1..Len(up), Chained(ids, up, lost),
         lost \subseteq lost2, \A i \in 1..Len(up) : up2[i] = up[i]
  PROVE  Chained(first, up2, lost2)
<1>1. /\ Len(first) \in Nat /\ Len(ids) \in Nat /\ Len(first) <= Len(ids)
      /\ \A i \in 1..Len(first) : first[i] = ids[i]
  BY DEF Begins
<1>2. \A i \in 1..Len(ids) : ids[i] \in 1..Len(up)
  <2>1. ToSet(ids) = {ids[i] : i \in 1..Len(ids)} BY ToSetFacts
  <2> QED BY <2>1
<1>3. ASSUME NEW i \in 1..Len(first)
      PROVE  \/ up2[first[i]] = 0 \/ up2[first[i]] \in lost2
             \/ \E j \in 1..(i - 1) : first[j] = up2[first[i]]
  <2>1. i \in 1..Len(ids) BY <1>1
  <2>2. first[i] = ids[i] /\ up2[first[i]] = up[ids[i]] BY <1>1, <1>2, <2>1
  <2>3. \A j \in 1..(i - 1) : first[j] = ids[j]
    <3>1. \A j \in 1..(i - 1) : j \in 1..Len(first) BY <1>1
    <3> QED BY <1>1, <3>1
  <2>4. \/ up[ids[i]] = 0 \/ up[ids[i]] \in lost
        \/ \E j \in 1..(i - 1) : ids[j] = up[ids[i]]
    BY <2>1 DEF Chained
  <2> QED BY <2>2, <2>3, <2>4
<1> QED BY <1>3 DEF Chained

\* ... and by an entry attached to what it holds.
LEMMA ChainedAppend ==
  ASSUME NEW ids \in Seq(Nat), NEW up \in Seq(Nat), NEW leaf0 \in Nat, NEW lost,
         ToSet(ids) \subseteq 1..Len(up), Chained(ids, up, lost),
         leaf0 = 0 \/ leaf0 \in lost \/ leaf0 \in ToSet(ids)
  PROVE  Chained(Append(ids, Len(up) + 1), Append(up, leaf0), lost)
<1> DEFINE e == Len(up) + 1
           more == Append(ids, e)
           up2 == Append(up, leaf0)
<1>1. Len(ids) \in Nat /\ Len(up) \in Nat OBVIOUS
<1>2. Len(more) = Len(ids) + 1 /\ (\A i \in 1..Len(ids) : more[i] = ids[i]) /\ more[Len(ids) + 1] = e BY <1>1
<1>3. (\A i \in 1..Len(up) : up2[i] = up[i]) /\ up2[e] = leaf0 BY <1>1
<1>4. ToSet(ids) = {ids[i] : i \in 1..Len(ids)} BY ToSetFacts
<1>5. \A i \in 1..Len(ids) : ids[i] \in 1..Len(up) BY <1>4
<1> HIDE DEF e, more, up2
<1>6. ASSUME NEW i \in 1..Len(more)
      PROVE  \/ up2[more[i]] = 0 \/ up2[more[i]] \in lost
             \/ \E j \in 1..(i - 1) : more[j] = up2[more[i]]
  <2>1. i \in 1..Len(ids) \/ i = Len(ids) + 1 BY <1>1, <1>2
  <2>2. CASE i \in 1..Len(ids)
    <3>1. more[i] = ids[i] /\ up2[more[i]] = up[ids[i]] BY <1>2, <1>3, <1>5, <2>2
    <3>2. \A j \in 1..(i - 1) : more[j] = ids[j]
      <4> TAKE j \in 1..(i - 1)
      <4>1. j \in 1..Len(ids) BY <1>1, <2>2
      <4> QED BY <1>2, <4>1
    <3>3. \/ up[ids[i]] = 0 \/ up[ids[i]] \in lost
          \/ \E j \in 1..(i - 1) : ids[j] = up[ids[i]]
      BY <2>2 DEF Chained
    <3> QED BY <3>1, <3>2, <3>3
  <2>3. CASE i = Len(ids) + 1
    <3>1. up2[more[i]] = leaf0 BY <1>2, <1>3, <2>3
    <3>2. i - 1 = Len(ids) BY <1>1, <2>3
    <3>3. \A j \in 1..(i - 1) : more[j] = ids[j] BY <1>2, <3>2
    <3>4. leaf0 \in ToSet(ids) => \E j \in 1..(i - 1) : ids[j] = leaf0 BY <1>4, <3>2
    <3> QED BY <3>1, <3>3, <3>4
  <2> QED BY <2>1, <2>2, <2>3
<1>7. Chained(more, up2, lost) BY <1>6 DEF Chained
<1> QED BY <1>7 DEF e, more, up2

\* A sequence begins with itself, and more of the same begins with it; what begins one is part of it.
LEMMA BeginsFacts ==
  ASSUME NEW s \in Seq(Nat)
  PROVE  /\ Begins(s, s) /\ Begins(<<>>, s)
         /\ \A e \in Nat : Begins(s, Append(s, e)) /\ Append(s, e) \in Seq(Nat) /\ ToSet(Append(s, e)) = ToSet(s) \cup {e}
         /\ \A t \in Seq(Nat) : Begins(s, t) => ToSet(s) \subseteq ToSet(t)
<1>1. Begins(s, s) /\ Begins(<<>>, s) BY DEF Begins
<1>2. ASSUME NEW e \in Nat
      PROVE  Begins(s, Append(s, e)) /\ Append(s, e) \in Seq(Nat) /\ ToSet(Append(s, e)) = ToSet(s) \cup {e}
  <2>1. Append(s, e) \in Seq(Nat) /\ Len(Append(s, e)) = Len(s) + 1 /\ \A i \in 1..Len(s) : Append(s, e)[i] = s[i] OBVIOUS
  <2>2. ToSet(Append(s, e)) = ToSet(s) \cup {e} BY ToSetFacts
  <2>3. Len(s) \in Nat OBVIOUS
  <2> DEFINE t == Append(s, e)
  <2> HIDE DEF t
  <2>4. Begins(s, t) BY <2>1, <2>3 DEF Begins, t
  <2> QED BY <2>1, <2>2, <2>4 DEF t
<1>3. ASSUME NEW t \in Seq(Nat), Begins(s, t) PROVE ToSet(s) \subseteq ToSet(t)
  <2>1. ToSet(s) = {s[i] : i \in 1..Len(s)} /\ ToSet(t) = {t[i] : i \in 1..Len(t)} BY ToSetFacts
  <2>2. \A i \in 1..Len(s) : i \in 1..Len(t) /\ s[i] = t[i] BY <1>3 DEF Begins
  <2> QED BY <2>1, <2>2
<1> QED BY <1>1, <1>2, <1>3

-----------------------------------------------------------------------------
(* What the steps have in common. *)

\* What is known of the two files a path may name.
LEMMA ListTypes ==
  ASSUME TypeOK
  PROVE  /\ NowIds \in Seq(Nat) /\ SafeIds \in Seq(Nat)
         /\ NowSure \subseteq NowFirm /\ NowFirm \subseteq ToSet(NowIds)
         /\ entryNow # 0 => Now \in Files /\ NowIds = Ids(Now) /\ NowFirm = Firm(Now) /\ NowSure = Sure(Now)
         /\ entrySafe # 0 => inodes[entrySafe] \in Files /\ SafeIds = Ids(inodes[entrySafe])
         /\ entryNow \in Nat /\ entrySafe \in Nat /\ Len(inodes) \in Nat
<1>1. inodes \in Seq(Files) /\ entryNow \in 0..Len(inodes) /\ entrySafe \in 0..Len(inodes) /\ Len(inodes) \in Nat
  BY DEF TypeOK
<1>2. entryNow # 0 => inodes[entryNow] \in Files BY <1>1
<1>3. entrySafe # 0 => inodes[entrySafe] \in Files BY <1>1
<1>4. <<>> \in Seq(Nat) /\ ToSet(<<>>) = {} BY ToSetFacts
<1>5. CASE entryNow = 0
  <2>1. NowIds = <<>> /\ NowFirm = {} /\ NowSure = {} BY <1>5 DEF NowIds, NowFirm, NowSure
  <2>2. SafeIds \in Seq(Nat) /\ (entrySafe # 0 => SafeIds = Ids(inodes[entrySafe])) BY <1>3, <1>4, FileFacts DEF SafeIds
  <2> QED BY <1>1, <1>3, <1>4, <1>5, <2>1, <2>2
<1>6. CASE entryNow # 0
  <2>1. NowIds = Ids(Now) /\ NowFirm = Firm(Now) /\ NowSure = Sure(Now) /\ Now \in Files
    BY <1>2, <1>6 DEF NowIds, NowFirm, NowSure, Now
  <2>2. NowIds \in Seq(Nat) /\ NowSure \subseteq NowFirm /\ NowFirm \subseteq ToSet(NowIds) BY <2>1, FileFacts
  <2>3. SafeIds \in Seq(Nat) /\ (entrySafe # 0 => SafeIds = Ids(inodes[entrySafe])) BY <1>3, <1>4, FileFacts DEF SafeIds
  <2> QED BY <1>1, <1>3, <1>6, <2>1, <2>2, <2>3
<1> QED BY <1>5, <1>6

\* What an open reads is how the list of the current file begins, all of it where the reader gets to
\* the end.
LEMMA RecordedBegins ==
  ASSUME TypeOK
  PROVE  /\ Recorded \in Seq(Nat) /\ Begins(Recorded, NowIds)
         /\ ToSet(NowIds) \subseteq ToSet(Recorded) \cup Hidden
         /\ entryNow # 0 => Recorded = IdsOf(Legible(Now.lines))
<1>1. CASE entryNow = 0
  <2>1. Recorded = <<>> /\ NowIds = <<>> BY <1>1 DEF Recorded, Opened, NowIds
  <2>2. <<>> \in Seq(Nat) /\ Begins(<<>>, <<>>) /\ ToSet(<<>>) = {} BY ToSetFacts DEF Begins
  <2> QED BY <1>1, <2>1, <2>2
<1>2. CASE entryNow # 0
  <2>1. Now \in Files /\ NowIds = Ids(Now) BY <1>2, ListTypes
  <2>2. Recorded = EntriesOf(Now) BY <1>2 DEF Recorded, Opened, Now
  <2>3. Hidden = {Now.lines[i].id : i \in Len(Legible(Now.lines)) + 1..Len(Now.lines)} BY <1>2 DEF Hidden, Now
  <2>4. /\ EntriesOf(Now) = IdsOf(Legible(Now.lines)) /\ EntriesOf(Now) \in Seq(Nat)
        /\ Begins(EntriesOf(Now), Ids(Now))
    BY <2>1, EntriesAreIds
  <2>5. ToSet(Ids(Now)) \subseteq
          ToSet(EntriesOf(Now)) \cup {Now.lines[i].id : i \in Len(Legible(Now.lines)) + 1..Len(Now.lines)}
    BY <2>1, IdsAreLegibleOrNot
  <2> QED BY <2>1, <2>2, <2>3, <2>4, <2>5
<1> QED BY <1>1, <1>2

\* After a step likewise.
LEMMA RecordedBeginsNext ==
  ASSUME TypeOK'
  PROVE  Recorded' \in Seq(Nat) /\ (entryNow' # 0 => Recorded' = IdsOf(Legible(Now.lines')))
<1>1. CASE entryNow' = 0
  <2>1. Recorded' = <<>> BY <1>1 DEF Recorded, Opened
  <2> QED BY <1>1, <2>1
<1>2. CASE entryNow' # 0
  <2>1. inodes' \in Seq(Files) /\ entryNow' \in 0..Len(inodes') BY DEF TypeOK
  <2>2. Now' \in Files BY <1>2, <2>1 DEF Now
  <2>3. Recorded' = EntriesOf(Now') BY <1>2 DEF Recorded, Opened, Now
  <2>4. EntriesOf(Now') = IdsOf(Legible(Now.lines')) /\ EntriesOf(Now') \in Seq(Nat) BY <2>2, EntriesAreIds
  <2> QED BY <2>3, <2>4
<1> QED BY <1>1, <1>2

\* How a beginning begins.
LEMMA BeginsOn ==
  ASSUME NEW r \in Seq(Nat), NEW s \in Seq(Nat), NEW t \in Seq(Nat), Begins(r, s), Begins(s, t)
  PROVE  Begins(r, t)
<1>1. Len(r) \in Nat /\ Len(s) \in Nat /\ Len(t) \in Nat OBVIOUS
<1>2. Len(r) <= Len(s) /\ Len(s) <= Len(t) BY DEF Begins
<1>3. \A i \in 1..Len(r) : i \in 1..Len(s) /\ r[i] = s[i] BY <1>1, <1>2 DEF Begins
<1>4. \A i \in 1..Len(s) : s[i] = t[i] BY DEF Begins
<1> QED BY <1>1, <1>2, <1>3, <1>4 DEF Begins

\* A step that leaves the files alone leaves what they list.
LEMMA DiskUnchanged ==
  ASSUME UNCHANGED disk
  PROVE  /\ NowIds' = NowIds /\ NowFirm' = NowFirm /\ NowSure' = NowSure /\ SafeIds' = SafeIds /\ SafeSure' = SafeSure
         /\ Now' = Now /\ inodes' = inodes /\ entryNow' = entryNow /\ entrySafe' = entrySafe
BY DEF disk, NowIds, NowFirm, NowSure, SafeIds, SafeSure, Now

\* The current file changes, and the device may name it from now on.
LEMMA DiskTouched ==
  ASSUME TypeOK, entryNow # 0, NEW g \in Files, FileIs(entryNow, g), entryNow' = entryNow,
         entrySafe' \in {entrySafe, entryNow}
  PROVE  /\ inodes' \in Seq(Files) /\ entryNow' \in 0..Len(inodes') /\ entrySafe' \in 0..Len(inodes')
         /\ Now' = g /\ NowIds' = Ids(g) /\ NowFirm' = Firm(g) /\ NowSure' = Sure(g)
         /\ \/ SafeIds' = NowIds' /\ SafeSure' = NowSure'
            \/ SafeIds' = SafeIds /\ SafeSure' = SafeSure
<1>1. inodes \in Seq(Files) /\ entryNow \in 1..Len(inodes) /\ entrySafe \in 0..Len(inodes) BY DEF TypeOK
<1>2. inodes' = [inodes EXCEPT ![entryNow] = g] BY DEF FileIs
<1>3. inodes' \in Seq(Files) /\ Len(inodes') = Len(inodes) BY <1>1, <1>2
<1>4. inodes'[entryNow] = g /\ \A i \in 1..Len(inodes) : i # entryNow => inodes'[i] = inodes[i] BY <1>1, <1>2
<1>5. Now' = g /\ NowIds' = Ids(g) /\ NowFirm' = Firm(g) /\ NowSure' = Sure(g)
  BY <1>4 DEF Now, NowIds, NowFirm, NowSure
<1>6. CASE entrySafe' = entryNow
  <2>1. SafeIds' = Ids(g) /\ SafeSure' = Sure(g) BY <1>4, <1>6 DEF SafeIds, SafeSure
  <2> QED BY <1>1, <1>3, <1>5, <1>6, <2>1
<1>7. CASE entrySafe' # entryNow
  <2>1. entrySafe' = entrySafe BY <1>7
  <2>2. entrySafe # 0 => inodes'[entrySafe] = inodes[entrySafe] BY <1>1, <1>4, <1>7, <2>1
  <2>3. SafeIds' = SafeIds /\ SafeSure' = SafeSure BY <2>1, <2>2 DEF SafeIds, SafeSure
  <2> QED BY <1>1, <1>3, <1>5, <2>1, <2>3
<1> QED BY <1>6, <1>7

\* A new file has the name, and the device still has the old one.
LEMMA DiskReplaced ==
  ASSUME TypeOK, NEW g \in Files, inodes' = Append(inodes, g), entryNow' = Len(inodes'), entrySafe' = entrySafe
  PROVE  /\ inodes' \in Seq(Files) /\ entryNow' \in 0..Len(inodes') /\ entrySafe' \in 0..Len(inodes') /\ entryNow' # 0
         /\ Now' = g /\ NowIds' = Ids(g) /\ NowFirm' = Firm(g) /\ NowSure' = Sure(g)
         /\ SafeIds' = SafeIds /\ SafeSure' = SafeSure
<1>1. inodes \in Seq(Files) /\ entrySafe \in 0..Len(inodes) /\ Len(inodes) \in Nat BY DEF TypeOK
<1> DEFINE more == Append(inodes, g)
<1>2. more \in Seq(Files) /\ Len(more) = Len(inodes) + 1 /\ more[Len(inodes) + 1] = g
      /\ \A i \in 1..Len(inodes) : more[i] = inodes[i]
  BY <1>1
<1>3. inodes' = more OBVIOUS
<1> HIDE DEF more
<1>4. entryNow' = Len(inodes) + 1 /\ entryNow' # 0 BY <1>1, <1>2, <1>3
<1>5. Now' = g /\ NowIds' = Ids(g) /\ NowFirm' = Firm(g) /\ NowSure' = Sure(g)
  BY <1>2, <1>3, <1>4 DEF Now, NowIds, NowFirm, NowSure
<1>6. entrySafe # 0 => inodes'[entrySafe] = inodes[entrySafe] BY <1>1, <1>2, <1>3
<1>7. SafeIds' = SafeIds /\ SafeSure' = SafeSure BY <1>6 DEF SafeIds, SafeSure
<1> QED BY <1>1, <1>2, <1>3, <1>4, <1>5, <1>7

\* A manager that a step is not about.
Unmoved(n) == /\ at'[n] = at[n] /\ entries'[n] = entries[n] /\ leaf'[n] = leaf[n]
              /\ flushed'[n] = flushed[n] /\ fd'[n] = fd[n]

\* The entries made stay attached to what they were.
Attached == parent' \in Seq(Nat) /\ Len(parent) <= Len(parent') /\ \A i \in 1..Len(parent) : parent'[i] = parent[i]

\* What has been made stays made, and what it is attached to does not change.
LEMMA AttachedFacts ==
  ASSUME TypeOK, \/ parent' = parent
                 \/ \E up \in Nat : parent' = Append(parent, up)
  PROVE  Attached /\ Made \subseteq Made'
<1>1. parent \in Seq(Nat) /\ Len(parent) \in Nat BY DEF TypeOK
<1>2. CASE parent' = parent BY <1>1, <1>2 DEF Attached, Made
<1>3. ASSUME NEW up \in Nat, parent' = Append(parent, up) PROVE Attached /\ Made \subseteq Made'
  <2>1. /\ Append(parent, up) \in Seq(Nat) /\ Len(Append(parent, up)) = Len(parent) + 1
        /\ \A i \in 1..Len(parent) : Append(parent, up)[i] = parent[i]
    BY <1>1
  <2>2. parent' \in Seq(Nat) /\ Len(parent') = Len(parent) + 1 /\ \A i \in 1..Len(parent) : parent'[i] = parent[i]
    BY <1>3, <2>1
  <2> QED BY <1>1, <2>2 DEF Attached, Made
<1> QED BY <1>2, <1>3

\* What is lost stays lost, unless a step takes back a refusal.
LEMMA LostKept ==
  ASSUME TypeOK, MadeInv, refused \subseteq refused',
         \A n \in Managers : \/ entries'[n] = entries[n] /\ (flushed[n] => flushed'[n])
                             \/ entries'[n] = <<>> \/ flushed'[n]
                             \/ entries'[n] = Append(entries[n], Len(parent) + 1) /\ (flushed[n] => flushed'[n])
  PROVE  LostOnes \subseteq LostOnes'
<1>1. SUFFICES ASSUME NEW x \in LostOnes PROVE x \in LostOnes' OBVIOUS
<1>2. x \in refused /\ x \in refused' /\ x # Len(parent) + 1 /\ \A n \in Managers : x \in ToSet(entries[n]) => flushed[n]
  BY DEF LostOnes, MadeInv, Made
<1>3. ASSUME NEW n \in Managers, x \in ToSet(entries'[n]) PROVE flushed'[n]
  <2>1. CASE entries'[n] = entries[n] /\ (flushed[n] => flushed'[n]) BY <1>2, <1>3, <2>1
  <2>2. CASE entries'[n] = <<>> \/ flushed'[n]
    <3>1. ToSet(<<>>) = {} BY ToSetFacts
    <3> QED BY <1>3, <2>2, <3>1
  <2>3. CASE entries'[n] = Append(entries[n], Len(parent) + 1) /\ (flushed[n] => flushed'[n])
    <3>1. entries[n] \in Seq(Nat) /\ Len(parent) + 1 \in Nat BY DEF TypeOK
    <3>2. ToSet(entries'[n]) = ToSet(entries[n]) \cup {Len(parent) + 1} BY <2>3, <3>1, BeginsFacts
    <3> QED BY <1>2, <1>3, <2>3, <3>2
  <2> QED BY <2>1, <2>2, <2>3
<1> QED BY <1>2, <1>3 DEF LostOnes

\* A manager the step is not about ...
LEMMA OthersKept ==
  ASSUME TypeOK, MadeInv, PlaceInv, MemoryInv, NEW n \in Managers, Unmoved(n), Attached, setup' = setup,
         LostOnes \subseteq LostOnes', ToSet(NowIds) \subseteq ToSet(NowIds'),
         entryNow' = entryNow \/ (fd[n] = 0 /\ at[n] \notin {"writing", "flushing"})
  PROVE  PlaceOf(n)' /\ MemoryOf(n)'
<1>1. PlaceOf(n) /\ MemoryOf(n) BY DEF PlaceInv, MemoryInv
<1>2. PlaceOf(n)'
  <2>1. CASE entryNow' = entryNow BY <1>1, <2>1 DEF PlaceOf, Unmoved
  <2>2. CASE fd[n] = 0 /\ at[n] \notin {"writing", "flushing"} BY <1>1, <2>2 DEF PlaceOf, Unmoved
  <2> QED BY <2>1, <2>2
<1>3. entries[n] \in Seq(Nat) /\ parent \in Seq(Nat) /\ parent' \in Seq(Nat) BY DEF TypeOK, Attached
<1>4. ToSet(entries[n]) \subseteq 1..Len(parent) BY DEF MadeInv, Made
<1>5. Chained(entries[n], parent, {}) => Chained(entries[n], parent', {})
  <2>1. Begins(entries[n], entries[n]) BY <1>3, BeginsFacts
  <2>2. \A i \in 1..Len(parent) : parent'[i] = parent[i] BY DEF Attached
  <2> QED BY <1>3, <1>4, <2>1, <2>2, ChainedKept
<1>6. flushed'[n] => ToSet(entries'[n]) \subseteq ToSet(NowIds') \cup LostOnes' BY <1>1 DEF MemoryOf, Unmoved
<1>7. ~flushed'[n] => Chained(entries'[n], parent', {}) BY <1>1, <1>5 DEF MemoryOf, Unmoved
<1> QED BY <1>2, <1>6, <1>7 DEF MemoryOf

\* ... and one that is dropped.
Dropped(n) == /\ at'[n] = "closed" /\ entries'[n] = <<>> /\ leaf'[n] = 0
              /\ flushed'[n] = FALSE /\ fd'[n] = 0

\* What is asked of a manager is nothing of one that is dropped.
LEMMA DroppedKept ==
  ASSUME NEW n \in Managers, Dropped(n)
  PROVE  PlaceOf(n)' /\ MemoryOf(n)' /\ CurrentOf(n)' /\ ToSet(entries'[n]) = {}
<1>1. PlaceOf(n)' BY DEF PlaceOf, Dropped
<1>2. MemoryOf(n)'
  <2>1. Chained(<<>>, parent', {}) BY DEF Chained
  <2> QED BY <2>1 DEF MemoryOf, Dropped
<1>3. CurrentOf(n)'
  BY DEF CurrentOf, WhenFlushed, WhenIdle, WhenWriting, WhenFlushing, WhenReplacing, Dropped
<1>4. ToSet(entries'[n]) = {} BY ToSetFacts DEF Dropped
<1> QED BY <1>1, <1>2, <1>3, <1>4

\* A manager that is away and has no flushed file is not touched by what becomes of the file.
LEMMA AwayKept ==
  ASSUME NEW n \in Managers, ~flushed'[n], at'[n] \in {"closed", "idle", "creating"}
  PROVE  CurrentOf(n)'
BY DEF CurrentOf, WhenFlushed, WhenIdle, WhenWriting, WhenFlushing, WhenReplacing

\* What the file that everybody has open may go through.
FileKept ==
  /\ Headed(Now.lines) => Headed(Now.lines)'
  /\ ~Replaceable(Now.lines) => ~Replaceable(Now.lines)'
  /\ Now.lines # <<>> /\ Now.lines[1] = Header => (Now.lines # <<>> /\ Now.lines[1] = Header)'
  /\ ~Now.open => ~Now.open'
  /\ ToSet(NowIds) \subseteq ToSet(NowIds')

\* What a manager knows of the file it keeps to know, whoever else moves, unless it is about to write
\* or to replace it and the other has just got to it.
LEMMA OthersCurrent ==
  ASSUME PlaceInv, CurrentInv, NEW m \in Managers \cup {Nobody}, NEW n \in Managers \ {m},
         \A k \in Managers \ {m} : Unmoved(k),
         entryNow' = entryNow, setup' = setup, entryNow # 0 => FileKept,
         requests = {} => (requests' = {} \/ (m \in Managers /\ flushed[m])),
         at[n] \in {"writing", "replacing", "naming"} =>
            /\ m \in Managers /\ ~flushed[m] /\ Away(m) => ~flushed'[m] /\ Away(m)'
            /\ (m \in Managers => ~flushed[m]) => Now.lines' = Now.lines /\ NowIds' = NowIds,
         at[n] = "flushing" /\ m \in Managers /\ Away(m) => Away(m)',
         at[n] \in {"writing", "flushing"} => (Now.sick' => Now.sick)
  PROVE  CurrentOf(n)'
<1>1. PlaceOf(n) /\ CurrentOf(n) /\ Unmoved(n) /\ n \in Managers BY DEF PlaceInv, CurrentInv
<1>2. /\ WhenFlushed(n) /\ WhenIdle(n) /\ WhenWriting(n) /\ WhenFlushing(n) /\ WhenReplacing(n)
  BY <1>1 DEF CurrentOf
<1>3. /\ at'[n] = at[n] /\ flushed'[n] = flushed[n] /\ entries'[n] = entries[n] BY <1>1 DEF Unmoved
<1>4. at[n] \in {"writing", "replacing", "naming"} => (Spared(n) /\ requests = {} /\ entryNow # 0)
  BY <1>1, <1>2 DEF WhenWriting, WhenReplacing, PlaceOf
<1>5. m \in Managers /\ Spared(n) => ~flushed[m] /\ Away(m) BY DEF Spared
<1>6. at[n] \in {"writing", "replacing", "naming"} => Spared(n)'
  <2> SUFFICES ASSUME at[n] \in {"writing", "replacing", "naming"}, NEW k \in Managers \ {n}
               PROVE  ~flushed'[k] /\ at'[k] \in {"closed", "idle", "creating"}
    BY DEF Spared, Away
  <2>1. Spared(n) BY <1>4
  <2>2. CASE k = m
    <3>1. ~flushed[m] /\ Away(m) BY <1>5, <2>1, <2>2
    <3>2. ~flushed'[m] /\ Away(m)' BY <2>2, <3>1
    <3> QED BY <2>2, <3>2 DEF Away
  <2>3. CASE k # m
    <3>1. Unmoved(k) /\ ~flushed[k] /\ Away(k) BY <2>1, <2>3 DEF Spared
    <3> QED BY <3>1 DEF Unmoved, Away
  <2> QED BY <2>2, <2>3
<1>7. at[n] \in {"writing", "replacing", "naming"} => requests' = {} BY <1>4, <1>5
<1>8. at[n] \in {"writing", "replacing", "naming"} => Now.lines' = Now.lines /\ NowIds' = NowIds BY <1>4, <1>5
<1>9. entryNow # 0 => FileKept OBVIOUS
<1>10. WhenFlushed(n)' BY <1>2, <1>3, <1>9 DEF WhenFlushed, FileKept
<1>11. WhenIdle(n)'
  <2>1. flushed[n] => entryNow # 0 BY <1>2 DEF WhenFlushed
  <2> QED BY <1>2, <1>3, <1>9, <2>1 DEF WhenIdle, FileKept
<1>12. WhenWriting(n)'
  <2>1. at'[n] = "writing" => Now.lines' = <<>> BY <1>2, <1>3, <1>8 DEF WhenWriting
  <2>2. at'[n] = "writing" => ~Now.sick' BY <1>2, <1>3 DEF WhenWriting
  <2>3. at'[n] = "writing" => requests' = {} /\ Spared(n)' BY <1>3, <1>6, <1>7
  <2> QED BY <2>1, <2>2, <2>3 DEF WhenWriting
<1>13. WhenReplacing(n)'
  <2>1. at'[n] \in {"replacing", "naming"} => ~Now.open' /\ entryNow' # 0
    BY <1>2, <1>3, <1>4, <1>9 DEF WhenReplacing, FileKept
  <2>2. at'[n] \in {"replacing", "naming"} => entries'[n] = NowIds' /\ requests' = {} /\ Spared(n)'
    BY <1>2, <1>3, <1>6, <1>7, <1>8 DEF WhenReplacing
  <2>3. at'[n] = "replacing" => Replaceable(Now.lines)'
    <3>1. at[n] = "replacing" => Replaceable(Now.lines) /\ Now.lines' = Now.lines BY <1>2, <1>8 DEF WhenReplacing
    <3> QED BY <1>3, <3>1 DEF Replaceable
  <2>4. at'[n] = "naming" => (Headed(Now.lines) /\ ~Replaceable(Now.lines))'
    BY <1>2, <1>3, <1>4, <1>9 DEF WhenReplacing, FileKept
  <2> QED BY <2>1, <2>2, <2>3, <2>4 DEF WhenReplacing
<1>14. WhenFlushing(n)'
  <2> SUFFICES ASSUME at[n] = "flushing"
               PROVE  /\ (Now.lines # <<>> /\ Now.lines[1] = Header /\ ~Now.open /\ ~Now.sick)'
                      /\ ToSet(entries'[n]) \subseteq ToSet(NowIds')
                      /\ \A k \in Managers \ {n} : Away(k)'
                      /\ (\A k \in setup'.managers : k = n) => requests' = {}
    BY <1>3 DEF WhenFlushing
  <2>1. /\ Now.lines # <<>> /\ Now.lines[1] = Header /\ ~Now.open /\ ~Now.sick
        /\ ToSet(entries[n]) \subseteq ToSet(NowIds)
        /\ \A k \in Managers \ {n} : Away(k)
        /\ (\A k \in setup.managers : k = n) => requests = {}
        /\ entryNow # 0 /\ n \in setup.managers
    BY <1>1, <1>2 DEF WhenFlushing, PlaceOf
  <2>2. (Now.lines # <<>> /\ Now.lines[1] = Header /\ ~Now.open /\ ~Now.sick)'
    <3>1. (Now.lines # <<>> /\ Now.lines[1] = Header /\ ~Now.open)' BY <1>9, <2>1 DEF FileKept
    <3>2. ~Now.sick' BY <2>1
    <3> QED BY <3>1, <3>2
  <2>3. ToSet(entries'[n]) \subseteq ToSet(NowIds') BY <1>3, <1>9, <2>1 DEF FileKept
  <2>4. ASSUME NEW k \in Managers \ {n} PROVE Away(k)'
    <3>1. CASE k = m
      <4>1. Away(m) BY <2>1, <3>1
      <4> QED BY <3>1, <4>1
    <3>2. CASE k # m
      <4>1. Unmoved(k) /\ Away(k) BY <2>1, <3>2
      <4> QED BY <4>1 DEF Unmoved, Away
    <3> QED BY <3>1, <3>2
  <2>5. ASSUME \A k \in setup'.managers : k = n PROVE requests' = {}
    <3>1. requests = {} BY <2>1, <2>5
    <3>2. CASE m \in Managers /\ flushed[m]
      <4>1. PlaceOf(m) BY <3>2 DEF PlaceInv
      <4>2. m \in setup.managers BY <3>2, <4>1 DEF PlaceOf
      <4> QED BY <2>5, <4>2
    <3> QED BY <3>1, <3>2
  <2> QED BY <2>2, <2>3, <2>4, <2>5
<1> QED BY <1>10, <1>11, <1>12, <1>13, <1>14 DEF CurrentOf

\* The lists stay chains ...
LEMMA HistoryStep ==
  ASSUME TypeOK, MadeInv, HistoryInv, Attached, LostOnes \subseteq LostOnes',
         SafeIds' = SafeIds \/ SafeIds' = NowIds', Chained(NowIds', parent', LostOnes')
  PROVE  HistoryInv'
<1>1. Chained(SafeIds, parent', LostOnes')
  <2>1. SafeIds \in Seq(Nat) /\ parent \in Seq(Nat) /\ parent' \in Seq(Nat) BY ListTypes DEF TypeOK, Attached
  <2>2. Begins(SafeIds, SafeIds) /\ ToSet(SafeIds) \subseteq 1..Len(parent) BY <2>1, BeginsFacts DEF MadeInv, Made
  <2>3. Chained(SafeIds, parent, LostOnes) /\ \A i \in 1..Len(parent) : parent'[i] = parent[i] BY DEF HistoryInv, Attached
  <2> QED BY <2>1, <2>2, <2>3, ChainedKept
<1> QED BY <1>1 DEF HistoryInv

\* ... of course if the current one is what it was.
LEMMA HistorySame ==
  ASSUME TypeOK, MadeInv, HistoryInv, Attached, LostOnes \subseteq LostOnes', NowIds' = NowIds
  PROVE  Chained(NowIds', parent', LostOnes')
<1>1. NowIds \in Seq(Nat) /\ parent \in Seq(Nat) /\ parent' \in Seq(Nat) BY ListTypes DEF TypeOK, Attached
<1>2. Begins(NowIds, NowIds) /\ ToSet(NowIds) \subseteq 1..Len(parent) BY <1>1, BeginsFacts DEF MadeInv, Made
<1>3. Chained(NowIds, parent, LostOnes) /\ \A i \in 1..Len(parent) : parent'[i] = parent[i] BY DEF HistoryInv, Attached
<1>4. Chained(NowIds, parent', LostOnes') BY <1>1, <1>2, <1>3, ChainedKept
<1> QED BY <1>4

\* Acknowledged entries stay where they are as long as nothing is taken from the files.
LEMMA AckStep ==
  ASSUME AckInv, acked' = acked, excused' = excused, owed \subseteq owed',
         NowFirm \subseteq NowFirm', NowSure \subseteq NowSure',
         SafeSure \subseteq SafeSure' \/ NowSure \subseteq SafeSure'
  PROVE  AckInv'
<1>1. acked' \ (excused' \cup owed') \subseteq acked \ (excused \cup owed) OBVIOUS
<1> QED BY <1>1 DEF AckInv

\* What is left to show of a step of one manager that leaves the others the file they know.
LEMMA OneMoves ==
  ASSUME IInv, NEW m \in Managers \cup {Nobody},
         TypeOK', setup' = setup, Attached, Made \subseteq Made', LostOnes \subseteq LostOnes',
         entryNow' = entryNow, entryNow # 0 => FileKept,
         \A n \in Managers \ {m} : Unmoved(n),
         m \in Managers => PlaceOf(m)' /\ CurrentOf(m)' /\ MemoryOf(m)' /\ ToSet(entries'[m]) \subseteq Made',
         \A n \in Managers \ {m} : at[n] \in {"writing", "replacing", "naming"} =>
            /\ m \in Managers /\ ~flushed[m] /\ Away(m) => ~flushed'[m] /\ Away(m)'
            /\ (m \in Managers => ~flushed[m]) => Now.lines' = Now.lines /\ NowIds' = NowIds,
         \A n \in Managers \ {m} : at[n] = "flushing" /\ m \in Managers /\ Away(m) => Away(m)',
         \A n \in Managers \ {m} : at[n] \in {"writing", "flushing"} => (Now.sick' => Now.sick),
         requests = {} => (requests' = {} \/ (m \in Managers /\ flushed[m])),
         \A r \in requests' : r[2] = entryNow /\ entryNow # 0,
         requests' # {} => ~Replaceable(Now.lines)',
         acked' \subseteq Made', refused' \subseteq Made', owed' \subseteq Made', excused' \subseteq Made',
         ToSet(NowIds') \subseteq Made', ToSet(NowIds) \subseteq ToSet(NowIds'),
         SafeIds' = SafeIds \/ SafeIds' = NowIds',
         Chained(NowIds', parent', LostOnes'), AckInv'
  PROVE  IInv'
<1>1. TypeOK /\ MadeInv /\ PlaceInv /\ CurrentInv /\ MemoryInv /\ HistoryInv BY DEF IInv
<1>2. ASSUME NEW n \in Managers
      PROVE  PlaceOf(n)' /\ CurrentOf(n)' /\ MemoryOf(n)' /\ ToSet(entries'[n]) \subseteq Made'
  <2>1. CASE n = m BY <2>1
  <2>2. CASE n # m
    <3>1. n \in Managers \ {m} /\ Unmoved(n) BY <2>2
    <3>2. PlaceOf(n)' /\ MemoryOf(n)' BY <1>1, <3>1, OthersKept
    <3>3. CurrentOf(n)' BY <1>1, <3>1, OthersCurrent
    <3>4. ToSet(entries'[n]) \subseteq Made' BY <1>1, <3>1 DEF MadeInv, Unmoved
    <3> QED BY <3>2, <3>3, <3>4
  <2> QED BY <2>1, <2>2
<1>3. HistoryInv' BY <1>1, HistoryStep
<1>4. MadeInv'
  <2>1. ToSet(SafeIds') \subseteq Made' BY <1>1 DEF MadeInv
  <2> QED BY <1>2, <2>1 DEF MadeInv
<1>5. PlaceInv' BY <1>2 DEF PlaceInv
<1>6. CurrentInv' BY <1>2 DEF CurrentInv
<1>7. MemoryInv' BY <1>2 DEF MemoryInv
<1> QED BY <1>3, <1>4, <1>5, <1>6, <1>7 DEF IInv

\* The same of a step that only its manager is near enough to notice.
LEMMA OneMovesAlone ==
  ASSUME IInv, NEW m \in Managers,
         TypeOK', setup' = setup, Attached, Made \subseteq Made', LostOnes \subseteq LostOnes',
         \A n \in Managers \ {m} : Unmoved(n) /\ ~flushed[n] /\ Away(n),
         PlaceOf(m)', CurrentOf(m)', MemoryOf(m)', ToSet(entries'[m]) \subseteq Made',
         \A r \in requests' : r[2] = entryNow' /\ entryNow' # 0,
         requests' # {} => ~Replaceable(Now.lines)',
         acked' \subseteq Made', refused' \subseteq Made', owed' \subseteq Made', excused' \subseteq Made',
         ToSet(NowIds') \subseteq Made', ToSet(NowIds) \subseteq ToSet(NowIds'),
         SafeIds' = SafeIds \/ SafeIds' = NowIds',
         Chained(NowIds', parent', LostOnes'), AckInv'
  PROVE  IInv'
<1>1. TypeOK /\ MadeInv /\ PlaceInv /\ CurrentInv /\ MemoryInv /\ HistoryInv BY DEF IInv
<1>2. ASSUME NEW n \in Managers
      PROVE  PlaceOf(n)' /\ CurrentOf(n)' /\ MemoryOf(n)' /\ ToSet(entries'[n]) \subseteq Made'
  <2>1. CASE n = m BY <2>1
  <2>2. CASE n # m
    <3>1. Unmoved(n) /\ ~flushed[n] /\ Away(n) /\ PlaceOf(n) BY <1>1, <2>2 DEF PlaceInv
    <3>2. fd[n] = 0 /\ at[n] \notin {"writing", "flushing"} BY <3>1 DEF PlaceOf, Away
    <3>3. PlaceOf(n)' /\ MemoryOf(n)' BY <1>1, <3>1, <3>2, OthersKept
    <3>4. ~flushed'[n] /\ at'[n] \in {"closed", "idle", "creating"} BY <3>1 DEF Unmoved, Away
    <3>5. CurrentOf(n)' BY <3>4, AwayKept
    <3>6. ToSet(entries'[n]) \subseteq Made' BY <1>1, <3>1 DEF MadeInv, Unmoved
    <3> QED BY <3>3, <3>5, <3>6
  <2> QED BY <2>1, <2>2
<1>3. HistoryInv' BY <1>1, HistoryStep
<1>4. MadeInv'
  <2>1. ToSet(SafeIds') \subseteq Made' BY <1>1 DEF MadeInv
  <2> QED BY <1>2, <2>1 DEF MadeInv
<1>5. PlaceInv' BY <1>2 DEF PlaceInv
<1>6. CurrentInv' BY <1>2 DEF CurrentInv
<1>7. MemoryInv' BY <1>2 DEF MemoryInv
<1> QED BY <1>3, <1>4, <1>5, <1>6, <1>7 DEF IInv

\* The same of a step that leaves the files alone, and the requests.
LEMMA OneMovesInMemory ==
  ASSUME IInv, NEW m \in Managers,
         TypeOK', setup' = setup, Attached, Made \subseteq Made', LostOnes \subseteq LostOnes',
         UNCHANGED disk, acked' = acked, owed' = owed, excused' = excused, refused' \subseteq Made',
         \A n \in Managers \ {m} : Unmoved(n),
         PlaceOf(m)', CurrentOf(m)', MemoryOf(m)', ToSet(entries'[m]) \subseteq Made',
         \A n \in Managers \ {m} : at[n] \in {"writing", "replacing", "naming"} /\ ~flushed[m] /\ Away(m) =>
                                     ~flushed'[m] /\ Away(m)',
         \A n \in Managers \ {m} : at[n] = "flushing" /\ Away(m) => Away(m)',
         requests' \subseteq requests
  PROVE  IInv' /\ NowIds' = NowIds
<1>1. TypeOK /\ MadeInv /\ PlaceInv /\ CurrentInv /\ MemoryInv /\ HistoryInv /\ AckInv BY DEF IInv
<1>2. /\ NowIds' = NowIds /\ NowFirm' = NowFirm /\ NowSure' = NowSure /\ SafeIds' = SafeIds /\ SafeSure' = SafeSure
      /\ Now' = Now /\ entryNow' = entryNow
  BY DiskUnchanged
<1>3. FileKept BY <1>2 DEF FileKept
<1>4. Chained(NowIds', parent', LostOnes') BY <1>1, <1>2, HistorySame
<1>5. AckInv' BY <1>1, <1>2, AckStep
<1>6. acked' \subseteq Made' /\ owed' \subseteq Made' /\ excused' \subseteq Made' /\ ToSet(NowIds') \subseteq Made'
  BY <1>1, <1>2 DEF MadeInv
<1>7. /\ \A r \in requests' : r[2] = entryNow /\ entryNow # 0
      /\ requests' # {} => ~Replaceable(Now.lines)'
      /\ requests = {} => requests' = {}
  BY <1>1, <1>2 DEF PlaceInv, CurrentInv
<1>8. IInv' BY <1>2, <1>3, <1>4, <1>5, <1>6, <1>7, OneMoves
<1> QED BY <1>2, <1>8

\* What sound circumstances leave out.
LEMMA SoundFacts ==
  ASSUME IInv, AllSound
  PROVE  /\ ~setup.lateOpens /\ setup.named /\ "torn" \notin setup.faults
         /\ \A kind \in {"cut", "flush"} : kind \in setup.faults => \A m, n \in setup.managers : m = n
<1>1. Sound(setup) BY DEF IInv, TypeOK, AllSound
<1> QED BY <1>1 DEF Sound

\* Where a write can be cut short or a flush fail, one manager at most is open.
LEMMA OnlyOne ==
  ASSUME IInv, AllSound, NEW kind \in {"cut", "flush"}, kind \in setup.faults,
         NEW m \in Managers, at[m] # "closed", NEW n \in Managers, n # m
  PROVE  at[n] = "closed" /\ ~flushed[n] /\ fd[n] = 0 /\ entries[n] = <<>>
<1>1. PlaceOf(m) /\ PlaceOf(n) BY DEF IInv, PlaceInv
<1>2. n \in setup.managers => n = m BY <1>1, SoundFacts DEF PlaceOf
<1> QED BY <1>1, <1>2 DEF PlaceOf

\* A dropped manager keeps nothing, and nobody else has moved.
LEMMA ForgetFacts ==
  ASSUME TypeOK, NEW m \in Managers, Forget(m)
  PROVE  /\ Dropped(m) /\ \A n \in Managers \ {m} : Unmoved(n)
         /\ at' \in [Managers -> Points] /\ entries' \in [Managers -> Seq(Nat)] /\ leaf' \in [Managers -> Nat]
         /\ talked' \in [Managers -> BOOLEAN] /\ flushed' \in [Managers -> BOOLEAN]
         /\ fd' \in [Managers -> Nat] /\ syncErr' \in [Managers -> BOOLEAN]
<1>1. <<>> \in Seq(Nat) /\ "closed" \in Points BY DEF Points
<1>2. /\ at \in [Managers -> Points] /\ entries \in [Managers -> Seq(Nat)] /\ leaf \in [Managers -> Nat]
      /\ talked \in [Managers -> BOOLEAN] /\ flushed \in [Managers -> BOOLEAN]
      /\ fd \in [Managers -> Nat] /\ syncErr \in [Managers -> BOOLEAN]
  BY DEF TypeOK
<1>3. Dropped(m) /\ \A n \in Managers \ {m} : Unmoved(n) BY <1>2 DEF Forget, Goto, Dropped, Unmoved
<1>4. /\ at' \in [Managers -> Points] /\ entries' \in [Managers -> Seq(Nat)] /\ leaf' \in [Managers -> Nat]
      /\ talked' \in [Managers -> BOOLEAN] /\ flushed' \in [Managers -> BOOLEAN]
      /\ fd' \in [Managers -> Nat] /\ syncErr' \in [Managers -> BOOLEAN]
  BY <1>1, <1>2 DEF Forget, Goto
<1> QED BY <1>3, <1>4

\* A fault is one the setup has, and is counted.
LEMMA FaultFacts ==
  ASSUME TypeOK, NEW kind, Fault(kind)
  PROVE  kind \in setup.faults /\ faults' \in Nat
BY DEF Fault, TypeOK

-----------------------------------------------------------------------------
(* Steps in memory. *)

\* SessionManager::create, or open_with_cwd of a path that names nothing.
LEMMA OpenMissingKeeps ==
  ASSUME IInv, NEW m \in Managers, OpenMissing(m)
  PROVE  IInv' /\ NowIds' = NowIds
<1>1. TypeOK /\ MadeInv /\ PlaceOf(m) /\ CurrentOf(m) BY DEF IInv, PlaceInv, CurrentInv
<1>2. /\ at[m] = "closed" /\ at' = [at EXCEPT ![m] = "idle"] /\ entries' = [entries EXCEPT ![m] = <<>>]
      /\ leaf' = [leaf EXCEPT ![m] = 0]
      /\ UNCHANGED <<disk, inodes, entryNow, entrySafe, talked, flushed, fd, syncErr, requests, parent, faults, losses, setup>>
      /\ UNCHANGED <<acked, refused, owed, excused>>
  BY DEF OpenMissing, MayOpen, Assemble, Goto, disk, past
<1>3. at \in [Managers -> Points] /\ entries \in [Managers -> Seq(Nat)] /\ leaf \in [Managers -> Nat]
      /\ <<>> \in Seq(Nat) /\ "idle" \in Points
  BY <1>1 DEF TypeOK, Points
<1>4. TypeOK'
  <2>1. at' \in [Managers -> Points] /\ entries' \in [Managers -> Seq(Nat)] /\ leaf' \in [Managers -> Nat] BY <1>2, <1>3
  <2> QED BY <1>1, <1>2, <2>1 DEF TypeOK
<1>5. /\ at'[m] = "idle" /\ entries'[m] = <<>> /\ leaf'[m] = 0 /\ flushed'[m] = FALSE /\ fd'[m] = 0
      /\ \A n \in Managers \ {m} : Unmoved(n)
  <2>1. flushed[m] = FALSE /\ fd[m] = 0 BY <1>1, <1>2 DEF PlaceOf, TypeOK
  <2> QED BY <1>2, <1>3, <2>1 DEF Unmoved
<1>6. Attached /\ Made \subseteq Made' BY <1>1, <1>2, AttachedFacts
<1>7. LostOnes \subseteq LostOnes'
  <2>1. \A n \in Managers : \/ entries'[n] = entries[n] /\ (flushed[n] => flushed'[n])
                            \/ entries'[n] = <<>>
    BY <1>2, <1>5 DEF Unmoved
  <2> QED BY <1>1, <1>2, <2>1, LostKept
<1>8. PlaceOf(m)'
  <2>1. m \in setup.managers BY DEF OpenMissing, MayOpen
  <2> QED BY <1>2, <1>5, <2>1 DEF PlaceOf
<1>9. MemoryOf(m)'
  <2>1. Chained(<<>>, parent', {}) BY DEF Chained
  <2> QED BY <1>5, <2>1 DEF MemoryOf
<1>10. CurrentOf(m)' BY <1>5, AwayKept
<1>11. ToSet(entries'[m]) \subseteq Made' BY <1>5, ToSetFacts
<1>12. Away(m) /\ Away(m)' /\ ~flushed'[m] BY <1>2, <1>5 DEF Away
<1>13. refused' \subseteq Made' BY <1>1, <1>2, <1>6 DEF MadeInv
<1> QED BY <1>2, <1>4, <1>5, <1>6, <1>7, <1>8, <1>9, <1>10, <1>11, <1>12, <1>13, OneMovesInMemory

\* A manager that is dropped, of itself or with its process, when nothing else happens.
LEMMA ForgetKeeps ==
  ASSUME IInv, NEW m \in Managers, at[m] # "closed", Forget(m), UNCHANGED <<disk, parent, past, losses, setup>>,
         faults' \in Nat, requests' \subseteq requests
  PROVE  IInv' /\ NowIds' = NowIds
<1>1. TypeOK /\ MadeInv /\ PlaceOf(m) /\ CurrentOf(m) BY DEF IInv, PlaceInv, CurrentInv
<1>2. /\ Dropped(m) /\ \A n \in Managers \ {m} : Unmoved(n)
      /\ at' \in [Managers -> Points] /\ entries' \in [Managers -> Seq(Nat)] /\ leaf' \in [Managers -> Nat]
      /\ talked' \in [Managers -> BOOLEAN] /\ flushed' \in [Managers -> BOOLEAN]
      /\ fd' \in [Managers -> Nat] /\ syncErr' \in [Managers -> BOOLEAN]
  BY <1>1, ForgetFacts
<1>3. UNCHANGED <<disk, inodes, entryNow, entrySafe, parent, acked, refused, owed, excused, losses, setup>> BY DEF disk, past
<1>4. TypeOK' BY <1>1, <1>2, <1>3 DEF TypeOK
<1>5. Attached /\ Made \subseteq Made' BY <1>1, <1>3, AttachedFacts
<1>6. LostOnes \subseteq LostOnes'
  <2>1. \A n \in Managers : \/ entries'[n] = entries[n] /\ (flushed[n] => flushed'[n])
                            \/ entries'[n] = <<>>
    BY <1>2 DEF Unmoved, Dropped
  <2> QED BY <1>1, <1>3, <2>1, LostKept
<1>7. PlaceOf(m)' /\ MemoryOf(m)' /\ CurrentOf(m)' /\ ToSet(entries'[m]) \subseteq Made' BY <1>2, DroppedKept
<1>8. Away(m)' /\ ~flushed'[m] BY <1>2 DEF Away, Dropped
<1>9. refused' \subseteq Made' BY <1>1, <1>3, <1>5 DEF MadeInv
<1> QED BY <1>2, <1>3, <1>4, <1>5, <1>6, <1>7, <1>8, <1>9, OneMovesInMemory

\* open_with_cwd returns an error.
LEMMA OpenFailsKeeps ==
  ASSUME IInv, NEW m \in Managers, OpenFails(m)
  PROVE  IInv' /\ NowIds' = NowIds
<1>1. TypeOK BY DEF IInv
<1>2. at[m] # "closed" /\ faults' \in Nat BY <1>1, FaultFacts DEF OpenFails
<1>3. Forget(m) /\ UNCHANGED <<disk, parent, past, losses, setup>> /\ requests' = requests BY DEF OpenFails
<1> QED BY <1>2, <1>3, ForgetKeeps

\* A process dies between two system calls.
LEMMA KillKeeps ==
  ASSUME IInv, NEW m \in Managers, Kill(m)
  PROVE  IInv' /\ NowIds' = NowIds
<1>1. TypeOK BY DEF IInv
<1>2. at[m] # "closed" /\ faults' \in Nat BY <1>1, FaultFacts DEF Kill
<1>3. Forget(m) /\ UNCHANGED <<disk, parent, past, losses, setup>> /\ requests' \subseteq requests BY DEF Kill
<1> QED BY <1>2, <1>3, ForgetKeeps

\* branch and reset_leaf.
LEMMA NavigateKeeps ==
  ASSUME IInv, NEW m \in Managers, Navigate(m)
  PROVE  IInv' /\ NowIds' = NowIds
<1>1. TypeOK /\ MadeInv /\ PlaceOf(m) /\ CurrentOf(m) /\ MemoryOf(m)
  BY DEF IInv, PlaceInv, CurrentInv, MemoryInv
<1>2. PICK to \in ToSet(entries[m]) \cup {0} : leaf' = [leaf EXCEPT ![m] = to] BY DEF Navigate
<1>3. /\ at[m] = "idle"
      /\ UNCHANGED <<disk, inodes, entryNow, entrySafe, at, entries, talked, flushed, fd, syncErr, requests, parent, faults,
                     losses, setup>>
      /\ UNCHANGED <<acked, refused, owed, excused>>
  BY DEF Navigate, disk, past
<1>4. to \in Nat
  <2>1. entries[m] \in Seq(Nat) BY <1>1 DEF TypeOK
  <2> QED BY <2>1, ToSetFacts
<1>5. TypeOK'
  <2>1. leaf' \in [Managers -> Nat] BY <1>1, <1>2, <1>4 DEF TypeOK
  <2> QED BY <1>1, <1>3, <2>1 DEF TypeOK
<1>6. leaf'[m] = to /\ \A n \in Managers \ {m} : Unmoved(n) BY <1>1, <1>2, <1>3 DEF Unmoved, TypeOK
<1>7. Attached /\ Made \subseteq Made' /\ parent' = parent BY <1>1, <1>3, AttachedFacts
<1>8. LostOnes' = LostOnes BY <1>3 DEF LostOnes
<1>9. NowIds' = NowIds /\ Now' = Now BY <1>3, DiskUnchanged
<1>10. PlaceOf(m)' BY <1>1, <1>3, <1>6 DEF PlaceOf
<1>11. MemoryOf(m)' BY <1>1, <1>3, <1>8, <1>9 DEF MemoryOf
<1>12. CurrentOf(m)'
  <2>1. WhenFlushed(m)' /\ WhenIdle(m)' BY <1>1, <1>3, <1>9 DEF CurrentOf, WhenFlushed, WhenIdle
  <2>2. WhenWriting(m)' /\ WhenFlushing(m)' /\ WhenReplacing(m)' BY <1>3 DEF WhenWriting, WhenFlushing, WhenReplacing
  <2> QED BY <2>1, <2>2 DEF CurrentOf
<1>13. ToSet(entries'[m]) \subseteq Made' /\ refused' \subseteq Made' BY <1>1, <1>3, <1>7 DEF MadeInv
<1>14. flushed'[m] = flushed[m] /\ (Away(m)' <=> Away(m)) BY <1>3 DEF Away
<1> QED BY <1>3, <1>5, <1>6, <1>7, <1>8, <1>10, <1>11, <1>12, <1>13, <1>14, OneMovesInMemory

\* A new entry in the memory of a manager that has it to write still.
LEMMA PushFacts ==
  ASSUME IInv, NEW m \in Managers, Push(m)
  PROVE  LET e == Len(parent) + 1
         IN  /\ e \in Nat /\ e \notin Made /\ e \in Made' /\ Made \subseteq Made' /\ Attached /\ parent' = Append(parent, leaf[m])
             /\ entries' \in [Managers -> Seq(Nat)] /\ leaf' \in [Managers -> Nat]
             /\ entries'[m] = Append(entries[m], e) /\ leaf'[m] = e
             /\ ToSet(entries'[m]) = ToSet(entries[m]) \cup {e} /\ ToSet(entries'[m]) \subseteq Made'
             /\ \A n \in Managers \ {m} : entries'[n] = entries[n] /\ leaf'[n] = leaf[n]
             /\ ~flushed[m] => Chained(entries'[m], parent', {})
<1> DEFINE e == Len(parent) + 1
<1>1. TypeOK /\ MadeInv /\ PlaceOf(m) /\ MemoryOf(m) BY DEF IInv, PlaceInv, MemoryInv
<1>2. /\ parent \in Seq(Nat) /\ Len(parent) \in Nat /\ entries[m] \in Seq(Nat) /\ leaf[m] \in Nat
      /\ entries \in [Managers -> Seq(Nat)] /\ leaf \in [Managers -> Nat]
  BY <1>1 DEF TypeOK
<1>3. /\ parent' = Append(parent, leaf[m])
      /\ entries' = [entries EXCEPT ![m] = Append(entries[m], e)]
      /\ leaf' = [leaf EXCEPT ![m] = e]
  BY DEF Push
<1>4. Attached /\ Made \subseteq Made' BY <1>1, <1>2, <1>3, AttachedFacts
<1>5. e \in Nat /\ e \notin Made BY <1>2 DEF Made
<1>6. e \in Made'
  <2>1. Len(Append(parent, leaf[m])) = Len(parent) + 1 BY <1>2
  <2> QED BY <1>2, <1>3, <2>1 DEF Made
<1>7. Append(entries[m], e) \in Seq(Nat) /\ ToSet(Append(entries[m], e)) = ToSet(entries[m]) \cup {e}
  BY <1>2, <1>5, BeginsFacts
<1> HIDE DEF e
<1>8. /\ entries' \in [Managers -> Seq(Nat)] /\ leaf' \in [Managers -> Nat]
      /\ entries'[m] = Append(entries[m], e) /\ leaf'[m] = e
      /\ \A n \in Managers \ {m} : entries'[n] = entries[n] /\ leaf'[n] = leaf[n]
  BY <1>2, <1>3, <1>5, <1>7
<1>9. ToSet(entries[m]) \subseteq Made BY <1>1 DEF MadeInv
<1>10. ASSUME ~flushed[m] PROVE Chained(entries'[m], parent', {})
  <2>1. Chained(entries[m], parent, {}) BY <1>1, <1>10 DEF MemoryOf
  <2>2. leaf[m] = 0 \/ leaf[m] \in ToSet(entries[m]) BY <1>1 DEF PlaceOf
  <2>3. Chained(Append(entries[m], Len(parent) + 1), Append(parent, leaf[m]), {})
    BY <1>2, <1>9, <2>1, <2>2, ChainedAppend DEF Made
  <2> QED BY <1>3, <1>8, <2>3 DEF e
<1> QED BY <1>3, <1>4, <1>5, <1>6, <1>7, <1>8, <1>9, <1>10 DEF e

\* push_entry, where the entry stays in memory or waits for the first flush.
LEMMA PushKeeps ==
  ASSUME IInv, NEW m \in Managers, Push(m), ~flushed[m],
         UNCHANGED <<disk, flushed, fd, syncErr, requests, past, faults, losses, setup>>,
         at' \in [Managers -> Points], talked' \in [Managers -> BOOLEAN], at'[m] \in {"idle", "creating"},
         \A n \in Managers \ {m} : at'[n] = at[n]
  PROVE  IInv' /\ NowIds' = NowIds
<1> DEFINE e == Len(parent) + 1
<1>1. TypeOK /\ MadeInv /\ PlaceOf(m) /\ CurrentOf(m) /\ MemoryOf(m) BY DEF IInv, PlaceInv, CurrentInv, MemoryInv
<1>2. /\ e \in Nat /\ e \notin Made /\ e \in Made' /\ Made \subseteq Made' /\ Attached /\ parent' = Append(parent, leaf[m])
      /\ entries' \in [Managers -> Seq(Nat)] /\ leaf' \in [Managers -> Nat]
      /\ entries'[m] = Append(entries[m], e) /\ leaf'[m] = e
      /\ ToSet(entries'[m]) = ToSet(entries[m]) \cup {e} /\ ToSet(entries'[m]) \subseteq Made'
      /\ \A n \in Managers \ {m} : entries'[n] = entries[n] /\ leaf'[n] = leaf[n]
      /\ ~flushed[m] => Chained(entries'[m], parent', {})
  BY PushFacts
<1>3. /\ UNCHANGED <<disk, inodes, entryNow, entrySafe, flushed, fd, syncErr, requests, faults, losses, setup>>
      /\ UNCHANGED <<acked, refused, owed, excused>>
  BY DEF disk, past
<1>4. TypeOK'
  <2>1. parent' \in Seq(Nat) BY <1>2 DEF Attached
  <2> QED BY <1>1, <1>2, <1>3, <2>1 DEF TypeOK
<1>5. \A n \in Managers \ {m} : Unmoved(n) BY <1>2, <1>3 DEF Unmoved
<1>6. LostOnes \subseteq LostOnes'
  <2>1. \A n \in Managers : \/ entries'[n] = entries[n] /\ (flushed[n] => flushed'[n])
                            \/ entries'[n] = Append(entries[n], Len(parent) + 1) /\ (flushed[n] => flushed'[n])
    BY <1>2, <1>3
  <2> QED BY <1>1, <1>3, <2>1, LostKept
<1>7. PlaceOf(m)'
  <2>1. at[m] = "idle" BY DEF Push
  <2>2. fd[m] = 0 /\ m \in setup.managers BY <1>1, <2>1 DEF PlaceOf
  <2> QED BY <1>2, <1>3, <2>2 DEF PlaceOf
<1>8. MemoryOf(m)' BY <1>2, <1>3 DEF MemoryOf
<1>9. CurrentOf(m)' BY <1>3, AwayKept
<1>10. ~flushed'[m] /\ Away(m)' BY <1>3 DEF Away
<1>11. refused' \subseteq Made' BY <1>1, <1>2, <1>3 DEF MadeInv
<1> QED BY <1>2, <1>3, <1>4, <1>5, <1>6, <1>7, <1>8, <1>9, <1>10, <1>11, OneMovesInMemory

\* persist_last before the first message.
LEMMA AppendSetupKeeps ==
  ASSUME IInv, NEW m \in Managers, AppendSetup(m)
  PROVE  IInv' /\ NowIds' = NowIds
<1>1. TypeOK BY DEF IInv
<1>2. Push(m) /\ ~flushed[m] /\ UNCHANGED <<disk, at, talked, flushed, fd, syncErr, requests, past, faults, losses, setup>>
  BY DEF AppendSetup
<1>3. at'[m] = "idle" /\ at' \in [Managers -> Points] /\ talked' \in [Managers -> BOOLEAN]
  BY <1>1, <1>2 DEF Push, TypeOK
<1> QED BY <1>2, <1>3, PushKeeps

\* persist_last from the first message on, as long as there is no file.
LEMMA BeginFirstFlushKeeps ==
  ASSUME IInv, NEW m \in Managers, BeginFirstFlush(m)
  PROVE  IInv' /\ NowIds' = NowIds
<1>1. TypeOK BY DEF IInv
<1>2. /\ Push(m) /\ ~flushed[m] /\ UNCHANGED <<disk, flushed, fd, syncErr, requests, past, faults, losses, setup>>
      /\ at' = [at EXCEPT ![m] = "creating"] /\ talked' = [talked EXCEPT ![m] = TRUE]
  BY DEF BeginFirstFlush, Goto
<1>3. /\ at'[m] = "creating" /\ at' \in [Managers -> Points] /\ talked' \in [Managers -> BOOLEAN]
      /\ \A n \in Managers \ {m} : at'[n] = at[n]
  BY <1>1, <1>2 DEF TypeOK, Points
<1> QED BY <1>2, <1>3, PushKeeps

\* An open of an empty file: nobody has it open, and nobody is writing its first text.
LEMMA OpenEmptyKeeps ==
  ASSUME IInv, AllSound, NEW m \in Managers, OpenEmpty(m)
  PROVE  IInv' /\ NowIds' = NowIds
<1>1. TypeOK /\ MadeInv /\ PlaceInv /\ CurrentInv /\ PlaceOf(m) /\ CurrentOf(m) BY DEF IInv, PlaceInv, CurrentInv
<1>2. /\ at[m] = "closed" /\ at' = [at EXCEPT ![m] = "replacing"] /\ entries' = [entries EXCEPT ![m] = <<>>]
      /\ leaf' = [leaf EXCEPT ![m] = 0] /\ m \in setup.managers
      /\ entryNow # 0 /\ Now.lines = <<>>
      /\ UNCHANGED <<disk, inodes, entryNow, entrySafe, talked, flushed, fd, syncErr, requests, parent, faults, losses, setup>>
      /\ UNCHANGED <<acked, refused, owed, excused>>
  BY DEF OpenEmpty, MayOpen, Assemble, Goto, disk, past, Now
<1>3. at \in [Managers -> Points] /\ entries \in [Managers -> Seq(Nat)] /\ leaf \in [Managers -> Nat]
      /\ <<>> \in Seq(Nat) /\ "replacing" \in Points
  BY <1>1 DEF TypeOK, Points
<1>4. TypeOK'
  <2>1. at' \in [Managers -> Points] /\ entries' \in [Managers -> Seq(Nat)] /\ leaf' \in [Managers -> Nat] BY <1>2, <1>3
  <2> QED BY <1>1, <1>2, <2>1 DEF TypeOK
<1>5. /\ at'[m] = "replacing" /\ entries'[m] = <<>> /\ leaf'[m] = 0 /\ flushed'[m] = FALSE /\ fd'[m] = 0
      /\ \A n \in Managers \ {m} : Unmoved(n)
  <2>1. flushed[m] = FALSE /\ fd[m] = 0 BY <1>1, <1>2 DEF PlaceOf, TypeOK
  <2> QED BY <1>2, <1>3, <2>1 DEF Unmoved
<1>6. Attached /\ Made \subseteq Made' BY <1>1, <1>2, AttachedFacts
<1>7. LostOnes \subseteq LostOnes'
  <2>1. \A n \in Managers : \/ entries'[n] = entries[n] /\ (flushed[n] => flushed'[n])
                            \/ entries'[n] = <<>>
    BY <1>2, <1>5 DEF Unmoved
  <2> QED BY <1>1, <1>2, <2>1, LostKept
<1>8. PlaceOf(m)' BY <1>2, <1>5 DEF PlaceOf
<1>9. MemoryOf(m)'
  <2>1. Chained(<<>>, parent', {}) BY DEF Chained
  <2> QED BY <1>5, <2>1 DEF MemoryOf
<1>10. \A n \in Managers \ {m} : ~flushed[n] /\ Away(n)
  <2> TAKE n \in Managers \ {m}
  <2>1. CurrentOf(n) BY <1>1 DEF CurrentInv
  <2>2. ~flushed[n] BY <1>2, <2>1 DEF CurrentOf, WhenFlushed, Headed
  <2>3. at[n] # "flushing" BY <1>2, <2>1 DEF CurrentOf, WhenFlushing
  <2>4. at[n] \notin {"writing", "replacing", "naming"} BY SoundFacts DEF OpenEmpty, MayOpen
  <2>5. at[n] \in Points BY <1>3
  <2> QED BY <2>2, <2>3, <2>4, <2>5 DEF Points, Away
<1>11. CurrentOf(m)'
  <2>1. Now' = Now /\ NowIds' = NowIds BY <1>2, DiskUnchanged
  <2>2. NowIds = <<>> /\ ~Now.open BY <1>1, <1>2, ListTypes, FileFacts
  <2>3. Replaceable(Now.lines) BY <1>2 DEF Replaceable
  <2>4. requests = {} BY <1>1, <2>3 DEF CurrentInv
  <2>5. Spared(m)' BY <1>5, <1>10 DEF Spared, Away, Unmoved
  <2>6. WhenFlushed(m)' /\ WhenIdle(m)' /\ WhenWriting(m)' /\ WhenFlushing(m)'
    BY <1>5 DEF WhenFlushed, WhenIdle, WhenWriting, WhenFlushing
  <2>7. WhenReplacing(m)' BY <1>2, <1>5, <2>1, <2>2, <2>3, <2>4, <2>5 DEF WhenReplacing
  <2> QED BY <2>6, <2>7 DEF CurrentOf
<1>12. ToSet(entries'[m]) \subseteq Made' BY <1>5, ToSetFacts
<1>13. refused' \subseteq Made' BY <1>1, <1>2, <1>6 DEF MadeInv
<1>14. \A n \in Managers \ {m} : at[n] \notin {"writing", "flushing", "replacing", "naming"} BY <1>10 DEF Away
<1> QED BY <1>2, <1>4, <1>5, <1>6, <1>7, <1>8, <1>9, <1>11, <1>12, <1>13, <1>14, OneMovesInMemory

\* Closing leaves its requests to nobody, and asks for one more if anything has been written.
LEMMA CloseKeeps ==
  ASSUME IInv, NEW m \in Managers, Close(m)
  PROVE  IInv' /\ NowIds' = NowIds
<1>1. /\ TypeOK /\ MadeInv /\ PlaceInv /\ CurrentInv /\ PlaceOf(m) /\ CurrentOf(m) /\ HistoryInv /\ AckInv
  BY DEF IInv, PlaceInv, CurrentInv
<1>2. /\ at[m] = "idle" /\ Forget(m)
      /\ requests' = {IF r[1] = m THEN <<Nobody, r[2]>> ELSE r : r \in requests}
                       \cup (IF fd[m] = 0 THEN {} ELSE {<<Nobody, fd[m]>>})
      /\ UNCHANGED <<disk, inodes, entryNow, entrySafe, parent, acked, refused, owed, excused, faults, losses, setup>>
  BY DEF Close, disk, past
<1>3. /\ Dropped(m) /\ \A n \in Managers \ {m} : Unmoved(n)
      /\ at' \in [Managers -> Points] /\ entries' \in [Managers -> Seq(Nat)] /\ leaf' \in [Managers -> Nat]
      /\ talked' \in [Managers -> BOOLEAN] /\ flushed' \in [Managers -> BOOLEAN]
      /\ fd' \in [Managers -> Nat] /\ syncErr' \in [Managers -> BOOLEAN]
  BY <1>1, <1>2, ForgetFacts
<1>4. fd[m] # 0 => fd[m] = entryNow /\ flushed[m] /\ ~Replaceable(Now.lines)
  BY <1>1, <1>2 DEF PlaceOf, CurrentOf, WhenIdle
<1>5. requests \subseteq (Managers \cup {Nobody}) \X Nat /\ fd[m] \in Nat BY <1>1 DEF TypeOK
<1>6. ASSUME NEW r \in requests'
      PROVE  /\ r \in (Managers \cup {Nobody}) \X Nat /\ r[2] = entryNow /\ entryNow # 0 /\ ~Replaceable(Now.lines)
             /\ requests # {} \/ flushed[m]
  <2>1. CASE r \in {IF q[1] = m THEN <<Nobody, q[2]>> ELSE q : q \in requests}
    <3>1. PICK q \in requests : r = IF q[1] = m THEN <<Nobody, q[2]>> ELSE q BY <2>1
    <3>2. q[2] = entryNow /\ entryNow # 0 /\ ~Replaceable(Now.lines) BY <1>1, <3>1 DEF PlaceInv, CurrentInv
    <3>3. r[2] = q[2] /\ r \in (Managers \cup {Nobody}) \X Nat
      <4>1. q \in (Managers \cup {Nobody}) \X Nat BY <1>5
      <4>2. q[2] \in Nat BY <4>1
      <4>3. CASE q[1] = m
        <5>1. r = <<Nobody, q[2]>> BY <3>1, <4>3
        <5> QED BY <4>2, <5>1
      <4>4. CASE q[1] # m
        <5>1. r = q BY <3>1, <4>4
        <5> QED BY <4>1, <5>1
      <4> QED BY <4>3, <4>4
    <3> QED BY <3>1, <3>2, <3>3
  <2>2. CASE fd[m] # 0 /\ r = <<Nobody, fd[m]>>
    <3>1. r \in (Managers \cup {Nobody}) \X Nat /\ r[2] = fd[m] BY <1>5, <2>2
    <3> QED BY <1>4, <2>2, <3>1
  <2> QED BY <1>2, <2>1, <2>2
<1>7. TypeOK'
  <2>1. requests' \subseteq (Managers \cup {Nobody}) \X Nat BY <1>6
  <2> QED BY <1>1, <1>2, <1>3, <2>1 DEF TypeOK
<1>8. Attached /\ Made \subseteq Made' BY <1>1, <1>2, AttachedFacts
<1>9. LostOnes \subseteq LostOnes'
  <2>1. \A n \in Managers : \/ entries'[n] = entries[n] /\ (flushed[n] => flushed'[n])
                            \/ entries'[n] = <<>>
    BY <1>3 DEF Unmoved, Dropped
  <2> QED BY <1>1, <1>2, <2>1, LostKept
<1>10. PlaceOf(m)' /\ MemoryOf(m)' /\ CurrentOf(m)' /\ ToSet(entries'[m]) \subseteq Made' BY <1>3, DroppedKept
<1>11. Away(m)' /\ ~flushed'[m] BY <1>3 DEF Away, Dropped
<1>12. /\ NowIds' = NowIds /\ NowFirm' = NowFirm /\ NowSure' = NowSure /\ SafeIds' = SafeIds /\ SafeSure' = SafeSure
       /\ Now' = Now /\ entryNow' = entryNow
  BY <1>2, DiskUnchanged
<1>13. FileKept BY <1>12 DEF FileKept
<1>14. Chained(NowIds', parent', LostOnes') BY <1>1, <1>8, <1>9, <1>12, HistorySame
<1>15. AckInv' BY <1>1, <1>2, <1>12, AckStep
<1>16. /\ acked' \subseteq Made' /\ refused' \subseteq Made' /\ owed' \subseteq Made' /\ excused' \subseteq Made'
       /\ ToSet(NowIds') \subseteq Made'
  BY <1>1, <1>2, <1>8, <1>12 DEF MadeInv
<1>17. /\ \A r \in requests' : r[2] = entryNow /\ entryNow # 0
       /\ requests' # {} => ~Replaceable(Now.lines)'
       /\ requests = {} => requests' = {} \/ flushed[m]
  BY <1>6, <1>12
<1>18. IInv' BY <1>2, <1>3, <1>7, <1>8, <1>9, <1>10, <1>11, <1>12, <1>13, <1>14, <1>15, <1>16, <1>17, OneMoves
<1> QED BY <1>12, <1>18

-----------------------------------------------------------------------------
(* Steps on the file. *)

\* What an open holds as its leaf is in what it holds.
LEMMA LeafFacts ==
  ASSUME NEW s \in Seq(Nat)
  PROVE  /\ (IF s = <<>> THEN 0 ELSE Last(s)) \in Nat
         /\ (IF s = <<>> THEN 0 ELSE Last(s)) \in {0} \cup ToSet(s)
<1>1. CASE s = <<>> BY <1>1
<1>2. CASE s # <<>>
  <2>1. Len(s) \in 1..Len(s) /\ Last(s) = s[Len(s)] BY <1>2 DEF Last
  <2>2. ToSet(s) = {s[i] : i \in 1..Len(s)} BY ToSetFacts
  <2> QED BY <1>2, <2>1, <2>2
<1> QED BY <1>1, <1>2

\* An open of a session reads the current file's list, and terminates its last line.
LEMMA OpenFileKeeps ==
  ASSUME IInv, AllSound, NEW m \in Managers, OpenFile(m)
  PROVE  IInv' /\ NowIds' = NowIds
<1> DEFINE g == Terminated(Now)
           point == IF Replaceable(Now.lines) THEN "replacing" ELSE "idle"
           read  == EntriesOf(Now)
           first == IF read = <<>> THEN 0 ELSE Last(read)
<1>1. /\ TypeOK /\ MadeInv /\ PlaceInv /\ CurrentInv /\ PlaceOf(m) /\ CurrentOf(m) /\ HistoryInv /\ AckInv
  BY DEF IInv, PlaceInv, CurrentInv
<1>2. entryNow # 0 /\ IsSession(Now) BY DEF OpenFile, Now
<1>3. Now \in Files /\ NowIds = Ids(Now) /\ NowFirm = Firm(Now) /\ NowSure = Sure(Now) /\ NowIds \in Seq(Nat)
      /\ NowFirm \subseteq ToSet(NowIds)
  BY <1>1, <1>2, ListTypes
<1>4. /\ read \in Seq(Nat) /\ ToSet(read) \subseteq ToSet(NowIds)
      /\ Headed(Now.lines) /\ Parsed(Now)[1] = Now.lines[1] /\ Now.lines # <<>>
      /\ ~Recovered(Now) <=> Bad \cap ToSet(Now.lines) = {}
      /\ Cut \notin ToSet(Now.lines) => read = NowIds
  BY <1>2, <1>3, EntriesAreIds DEF Headed
<1> HIDE DEF read
<1>5. (Parsed(Now)[1] = OldHeader /\ ~Recovered(Now)) <=> Replaceable(Now.lines) BY <1>4 DEF Replaceable
<1>6. /\ at[m] = "closed" /\ m \in setup.managers
      /\ \A n \in Managers : at[n] \notin {"writing", "replacing", "naming"}
  BY SoundFacts DEF OpenFile, MayOpen
<1>7. /\ at' = [at EXCEPT ![m] = point] /\ entries' = [entries EXCEPT ![m] = read]
      /\ leaf' = [leaf EXCEPT ![m] = first] /\ flushed' = [flushed EXCEPT ![m] = TRUE]
      /\ FileIs(entryNow, g)
      /\ UNCHANGED <<entryNow, entrySafe, talked, fd, syncErr, requests, parent, faults, losses, setup>>
      /\ UNCHANGED <<acked, refused, owed, excused>>
  BY <1>5 DEF OpenFile, Assemble, Goto, Now, past, read
<1>8. /\ g \in Files /\ g.lines = Now.lines /\ ~g.open /\ g.sick = Now.sick
      /\ Ids(g) = Ids(Now) /\ Firm(g) = ToSet(Ids(Now)) /\ Sure(g) = Sure(Now)
  BY <1>3, TerminatedFile
<1> HIDE DEF g
<1>9. /\ inodes' \in Seq(Files) /\ entryNow' \in 0..Len(inodes') /\ entrySafe' \in 0..Len(inodes')
      /\ Now' = g /\ NowIds' = Ids(g) /\ NowFirm' = Firm(g) /\ NowSure' = Sure(g)
      /\ \/ SafeIds' = NowIds' /\ SafeSure' = NowSure'
         \/ SafeIds' = SafeIds /\ SafeSure' = SafeSure
  BY <1>1, <1>2, <1>7, <1>8, DiskTouched
<1>10. NowIds' = NowIds BY <1>3, <1>8, <1>9
<1>11. first \in Nat /\ first \in {0} \cup ToSet(read) BY <1>4, LeafFacts
<1> HIDE DEF first
<1>12. point \in Points /\ point \in {"replacing", "idle"} /\ (point = "replacing" <=> Replaceable(Now.lines)) BY DEF Points
<1> HIDE DEF point
<1>13. /\ at \in [Managers -> Points] /\ entries \in [Managers -> Seq(Nat)] /\ leaf \in [Managers -> Nat]
       /\ flushed \in [Managers -> BOOLEAN]
  BY <1>1 DEF TypeOK
<1>14. TypeOK'
  <2>1. /\ at' \in [Managers -> Points] /\ entries' \in [Managers -> Seq(Nat)] /\ leaf' \in [Managers -> Nat]
        /\ flushed' \in [Managers -> BOOLEAN]
    BY <1>4, <1>7, <1>11, <1>12, <1>13
  <2> QED BY <1>1, <1>7, <1>9, <2>1 DEF TypeOK
<1>15. /\ at'[m] = point /\ entries'[m] = read /\ leaf'[m] = first /\ flushed'[m] = TRUE /\ fd'[m] = 0
       /\ \A n \in Managers \ {m} : Unmoved(n)
  <2>1. fd[m] = 0 BY <1>1, <1>6 DEF PlaceOf
  <2> QED BY <1>7, <1>13, <2>1 DEF Unmoved
<1>16. Attached /\ Made \subseteq Made' BY <1>1, <1>7, AttachedFacts
<1>17. LostOnes \subseteq LostOnes'
  <2>1. \A n \in Managers : \/ entries'[n] = entries[n] /\ (flushed[n] => flushed'[n])
                            \/ flushed'[n]
    BY <1>15 DEF Unmoved
  <2> QED BY <1>1, <1>7, <2>1, LostKept
<1>18. PlaceOf(m)' BY <1>6, <1>7, <1>11, <1>12, <1>15 DEF PlaceOf
<1>19. MemoryOf(m)' BY <1>4, <1>10, <1>15 DEF MemoryOf
<1>20. point = "replacing" => \A n \in Managers \ {m} : ~flushed[n] /\ Away(n)
  <2> SUFFICES ASSUME Replaceable(Now.lines), NEW n \in Managers \ {m} PROVE ~flushed[n] /\ Away(n) BY <1>12
  <2>1. CurrentOf(n) /\ PlaceOf(n) BY <1>1 DEF CurrentInv, PlaceInv
  <2>2. at[n] \in Points BY <1>13
  <2>3. ~flushed[n] BY <1>6, <2>1 DEF CurrentOf, WhenIdle, PlaceOf
  <2>4. at[n] # "flushing" BY <2>1, TextFacts DEF CurrentOf, WhenFlushing, Replaceable
  <2> QED BY <1>6, <2>2, <2>3, <2>4 DEF Away, Points
<1>21. CurrentOf(m)'
  <2>1. Headed(Now.lines') /\ (Replaceable(Now.lines') <=> Replaceable(Now.lines)) /\ ~Now.open'
    BY <1>4, <1>8, <1>9
  <2>2. WhenFlushed(m)' BY <1>2, <1>7, <2>1 DEF WhenFlushed
  <2>3. WhenIdle(m)' BY <1>12, <1>15, <2>1 DEF WhenIdle
  <2>4. WhenWriting(m)' /\ WhenFlushing(m)' BY <1>12, <1>15 DEF WhenWriting, WhenFlushing
  <2>5. WhenReplacing(m)'
    <3>1. at'[m] # "naming" BY <1>12, <1>15
    <3>2. ASSUME point = "replacing"
          PROVE  /\ entryNow' # 0 /\ ~Now.open' /\ requests' = {} /\ entries'[m] = NowIds' /\ Spared(m)'
                 /\ Replaceable(Now.lines)'
      <4>1. Spared(m)' BY <1>15, <1>20, <3>2 DEF Spared, Away, Unmoved
      <4>2. requests' = {} BY <1>1, <1>7, <1>12, <3>2 DEF CurrentInv
      <4>3. read = NowIds BY <1>4, <1>12, <3>2, TextFacts DEF Replaceable
      <4> QED BY <1>2, <1>7, <1>10, <1>12, <1>15, <2>1, <3>2, <4>1, <4>2, <4>3
    <3> QED BY <1>12, <1>15, <3>1, <3>2 DEF WhenReplacing
  <2> QED BY <2>2, <2>3, <2>4, <2>5 DEF CurrentOf
<1>22. FileKept BY <1>8, <1>9, <1>10 DEF FileKept
<1>23. Chained(NowIds', parent', LostOnes') BY <1>1, <1>10, <1>16, <1>17, HistorySame
<1>24. AckInv'
  <2>1. NowFirm \subseteq NowFirm' /\ NowSure \subseteq NowSure' /\ (SafeSure \subseteq SafeSure' \/ NowSure \subseteq SafeSure')
    BY <1>3, <1>8, <1>9
  <2> QED BY <1>1, <1>7, <2>1, AckStep
<1>25. /\ acked' \subseteq Made' /\ refused' \subseteq Made' /\ owed' \subseteq Made' /\ excused' \subseteq Made'
       /\ ToSet(NowIds') \subseteq Made' /\ ToSet(entries'[m]) \subseteq Made'
  BY <1>1, <1>4, <1>7, <1>10, <1>15, <1>16 DEF MadeInv
<1>26. /\ \A r \in requests' : r[2] = entryNow /\ entryNow # 0
       /\ requests' # {} => ~Replaceable(Now.lines)'
  <2>1. Now.lines' = Now.lines BY <1>8, <1>9
  <2> QED BY <1>1, <1>7, <2>1 DEF PlaceInv, CurrentInv, Replaceable
<1>27. \A n \in Managers \ {m} : at[n] = "flushing" /\ Away(m) => Away(m)'
  <2>1. point = "replacing" => \A n \in Managers \ {m} : at[n] # "flushing" BY <1>20 DEF Away
  <2> QED BY <1>12, <1>15, <2>1 DEF Away
<1>28. Now.sick' => Now.sick BY <1>8, <1>9
<1>29. IInv'
  BY <1>6, <1>7, <1>9, <1>10, <1>14, <1>15, <1>16, <1>17, <1>18, <1>19, <1>21, <1>22, <1>23, <1>24, <1>25, <1>26,
     <1>27, <1>28, OneMoves
<1> QED BY <1>10, <1>29

\* Nobody knows anything of a file that is not there.
LEMMA NoFile ==
  ASSUME IInv, entryNow = 0, NEW n \in Managers
  PROVE  ~flushed[n] /\ Away(n) /\ fd[n] = 0 /\ requests = {}
<1>1. PlaceOf(n) /\ CurrentOf(n) /\ at[n] \in Points BY DEF IInv, PlaceInv, CurrentInv, TypeOK
<1>2. ~flushed[n] BY <1>1 DEF CurrentOf, WhenFlushed
<1>3. at[n] \notin {"writing", "flushing", "replacing", "naming"} BY <1>1 DEF CurrentOf, WhenReplacing, PlaceOf
<1>4. Away(n) BY <1>1, <1>3 DEF Away, Points
<1>5. fd[n] = 0 BY <1>1, <1>2, <1>3 DEF PlaceOf
<1>6. requests = {} BY DEF IInv, PlaceInv
<1> QED BY <1>2, <1>4, <1>5, <1>6

\* An append of the first message is refused, before anything of it is in the file: its manager is
\* idle again, and the entry in its memory.
LEMMA RefusedInMemory ==
  ASSUME IInv, NEW m \in Managers, at[m] \in {"creating", "writing"}, Refuse(m),
         at' = [at EXCEPT ![m] = "idle"], fd' \in [Managers -> Nat], fd'[m] = 0,
         \A n \in Managers \ {m} : fd'[n] = fd[n], faults' \in Nat,
         UNCHANGED <<disk, entries, leaf, talked, flushed, syncErr, requests, parent, acked, owed, excused, losses, setup>>
  PROVE  IInv' /\ NowIds' = NowIds
<1>1. TypeOK /\ MadeInv /\ PlaceOf(m) /\ CurrentOf(m) /\ MemoryOf(m) BY DEF IInv, PlaceInv, CurrentInv, MemoryInv
<1>2. at \in [Managers -> Points] /\ "idle" \in Points BY <1>1 DEF TypeOK, Points
<1>3. UNCHANGED <<inodes, entryNow, entrySafe>> /\ refused' = refused \cup {leaf[m]} BY DEF disk, Refuse
<1>4. TypeOK'
  <2>1. at' \in [Managers -> Points] BY <1>2
  <2> QED BY <1>1, <1>3, <2>1 DEF TypeOK
<1>5. at'[m] = "idle" /\ \A n \in Managers \ {m} : Unmoved(n) BY <1>2 DEF Unmoved
<1>6. Attached /\ Made \subseteq Made' BY <1>1, AttachedFacts
<1>7. LostOnes \subseteq LostOnes' BY <1>1, <1>3, LostKept
<1>8. ~flushed[m] /\ ~flushed'[m] /\ m \in setup.managers /\ leaf[m] \in ToSet(entries[m]) BY <1>1 DEF PlaceOf
<1>9. PlaceOf(m)' BY <1>1, <1>5, <1>8 DEF PlaceOf
<1>10. MemoryOf(m)' BY <1>1, <1>8 DEF MemoryOf
<1>11. CurrentOf(m)' BY <1>5, <1>8, AwayKept
<1>12. ToSet(entries'[m]) \subseteq Made' BY <1>1, <1>6 DEF MadeInv
<1>13. refused' \subseteq Made' BY <1>1, <1>3, <1>6, <1>8 DEF MadeInv
<1>14. ~flushed'[m] /\ Away(m)' BY <1>5, <1>8 DEF Away
<1> QED BY <1>4, <1>5, <1>6, <1>7, <1>9, <1>10, <1>11, <1>12, <1>13, <1>14, OneMovesInMemory

\* create_exclusive: its create_new, which makes the file or is refused.
LEMMA CreateKeeps ==
  ASSUME IInv, NEW m \in Managers, Create(m)
  PROVE  IInv' /\ NowIds' = NowIds
<1>1. TypeOK /\ MadeInv /\ PlaceInv /\ PlaceOf(m) /\ CurrentOf(m) /\ MemoryOf(m) /\ HistoryInv /\ AckInv
  BY DEF IInv, PlaceInv, CurrentInv, MemoryInv
<1>2. /\ at[m] = "creating"
      /\ UNCHANGED <<entrySafe, entries, leaf, talked, flushed, syncErr, requests, parent, acked, owed, excused, losses,
                     setup>>
  BY DEF Create
<1>3. ASSUME /\ (entryNow # 0 /\ UNCHANGED faults) \/ Fault("refuse")
             /\ Refuse(m)
             /\ Goto(m, "idle")
             /\ UNCHANGED <<inodes, entryNow, fd>>
      PROVE  IInv' /\ NowIds' = NowIds
  <2>1. faults' \in Nat BY <1>1, <1>3, FaultFacts DEF TypeOK
  <2>2. fd' = fd /\ UNCHANGED disk /\ at' = [at EXCEPT ![m] = "idle"] BY <1>2, <1>3 DEF disk, Goto
  <2>3. fd[m] = 0 /\ fd \in [Managers -> Nat] BY <1>1, <1>2 DEF PlaceOf, TypeOK
  <2>4. Refuse(m) BY <1>3
  <2> QED BY <1>2, <2>1, <2>2, <2>3, <2>4, RefusedInMemory
<1>4. ASSUME /\ entryNow = 0
             /\ inodes' = Append(inodes, NewFile(<<>>))
             /\ entryNow' = Len(inodes')
             /\ fd' = [fd EXCEPT ![m] = entryNow']
             /\ Goto(m, "writing")
             /\ UNCHANGED <<refused, faults>>
      PROVE  IInv' /\ NowIds' = NowIds
  <2> DEFINE g == NewFile(<<>>)
  <2>1. g \in Files /\ g.lines = <<>> /\ ~g.open /\ ~g.sick BY NewFiles
  <2>2. inodes' = Append(inodes, g) BY <1>4
  <2> HIDE DEF g
  <2>3. Ids(g) = <<>> /\ Firm(g) = {} /\ Sure(g) = {} BY <2>1, FileFacts
  <2>4. /\ inodes' \in Seq(Files) /\ entryNow' \in 0..Len(inodes') /\ entrySafe' \in 0..Len(inodes') /\ entryNow' # 0
        /\ Now' = g /\ NowIds' = Ids(g) /\ NowFirm' = Firm(g) /\ NowSure' = Sure(g)
        /\ SafeIds' = SafeIds /\ SafeSure' = SafeSure
    BY <1>1, <1>2, <1>4, <2>1, <2>2, DiskReplaced
  <2>5. NowIds = <<>> /\ NowFirm = {} /\ NowSure = {} BY <1>4 DEF NowIds, NowFirm, NowSure
  <2>6. NowIds' = NowIds /\ ToSet(<<>>) = {} BY <2>3, <2>4, <2>5, ToSetFacts
  <2>7. \A n \in Managers : ~flushed[n] /\ Away(n) /\ fd[n] = 0 /\ requests = {} BY <1>4, NoFile
  <2>8. at \in [Managers -> Points] /\ fd \in [Managers -> Nat] BY <1>1 DEF TypeOK
  <2>9. at' = [at EXCEPT ![m] = "writing"] /\ fd' = [fd EXCEPT ![m] = entryNow'] BY <1>4 DEF Goto
  <2>10. TypeOK'
    <3>1. at' \in [Managers -> Points] BY <2>8, <2>9 DEF Points
    <3>2. entryNow' \in Nat
      <4>1. Len(inodes') \in Nat BY <2>4
      <4> QED BY <2>4, <4>1
    <3>3. fd' \in [Managers -> Nat] BY <2>8, <2>9, <3>2
    <3> QED BY <1>1, <1>2, <1>4, <2>4, <3>1, <3>3 DEF TypeOK
  <2>11. at'[m] = "writing" /\ fd'[m] = entryNow' /\ \A n \in Managers \ {m} : Unmoved(n)
    BY <1>2, <2>8, <2>9 DEF Unmoved
  <2>12. Attached /\ Made \subseteq Made' BY <1>1, <1>2, AttachedFacts
  <2>13. LostOnes \subseteq LostOnes'
    <3>1. refused' = refused BY <1>4
    <3> QED BY <1>1, <1>2, <3>1, LostKept
  <2>14. PlaceOf(m)' BY <1>1, <1>2, <2>4, <2>7, <2>11 DEF PlaceOf
  <2>15. MemoryOf(m)' BY <1>1, <1>2, <2>7 DEF MemoryOf
  <2>16. CurrentOf(m)'
    <3>1. Spared(m)' BY <2>7, <2>11 DEF Spared, Unmoved, Away
    <3>2. requests' = {} /\ flushed'[m] = flushed[m] /\ ~flushed[m] BY <1>2, <2>7
    <3>3. WhenWriting(m)' BY <2>1, <2>4, <3>1, <3>2 DEF WhenWriting
    <3>4. WhenFlushed(m)' /\ WhenIdle(m)' /\ WhenFlushing(m)' /\ WhenReplacing(m)'
      BY <2>11, <3>2 DEF WhenFlushed, WhenIdle, WhenFlushing, WhenReplacing
    <3> QED BY <3>3, <3>4 DEF CurrentOf
  <2>17. requests' = {} BY <1>2, <2>7
  <2>18. Chained(NowIds', parent', LostOnes') BY <1>1, <2>6, <2>12, <2>13, HistorySame
  <2>19. AckInv' BY <1>1, <1>2, <2>4, <2>5, AckStep
  <2>20. /\ acked' \subseteq Made' /\ refused' \subseteq Made' /\ owed' \subseteq Made' /\ excused' \subseteq Made'
         /\ ToSet(NowIds') \subseteq Made' /\ ToSet(entries'[m]) \subseteq Made'
    BY <1>1, <1>2, <1>4, <2>6, <2>12 DEF MadeInv
  <2>21. IInv'
    BY <1>2, <2>4, <2>6, <2>7, <2>10, <2>11, <2>12, <2>13, <2>14, <2>15, <2>16, <2>17, <2>18, <2>19, <2>20, OneMovesAlone
  <2> QED BY <2>6, <2>21
<1> QED BY <1>3, <1>4 DEF Create

\* rewrite's file lists what the one it replaces did, and is flushed.
LEMMA ReplaceKeeps ==
  ASSUME IInv, NEW m \in Managers, Replace(m)
  PROVE  IInv' /\ NowIds' = NowIds
<1> DEFINE g == Flushed(NewFile(Whole(entries[m])))
<1>1. TypeOK /\ MadeInv /\ PlaceInv /\ PlaceOf(m) /\ CurrentOf(m) /\ MemoryOf(m) /\ HistoryInv /\ AckInv
  BY DEF IInv, PlaceInv, CurrentInv, MemoryInv
<1>2. /\ at[m] = "replacing" /\ at' = [at EXCEPT ![m] = "naming"]
      /\ inodes' = Append(inodes, g) /\ entryNow' = Len(inodes')
      /\ UNCHANGED <<entrySafe, entries, leaf, talked, flushed, fd, syncErr, requests, parent, faults, losses, setup>>
      /\ UNCHANGED <<acked, refused, owed, excused>>
  BY DEF Replace, Goto, Whole, past
<1>3. entryNow # 0 /\ requests = {} /\ entries[m] = NowIds /\ Spared(m) BY <1>1, <1>2 DEF CurrentOf, WhenReplacing
<1>4. NowIds \in Seq(Nat) /\ NowFirm \subseteq ToSet(NowIds) /\ NowSure \subseteq NowFirm BY <1>1, ListTypes
<1>5. /\ g \in Files /\ g.lines = Whole(NowIds) /\ ~g.open /\ Ids(g) = NowIds
      /\ Firm(g) = ToSet(NowIds) /\ Sure(g) = ToSet(NowIds)
  BY <1>3, <1>4, NewFiles
<1>6. g.lines # <<>> /\ g.lines[1] = Header BY <1>4, <1>5, WholeText
<1> HIDE DEF g
<1>7. /\ inodes' \in Seq(Files) /\ entryNow' \in 0..Len(inodes') /\ entrySafe' \in 0..Len(inodes') /\ entryNow' # 0
      /\ Now' = g /\ NowIds' = Ids(g) /\ NowFirm' = Firm(g) /\ NowSure' = Sure(g)
      /\ SafeIds' = SafeIds /\ SafeSure' = SafeSure
  BY <1>1, <1>2, <1>5, DiskReplaced
<1>8. NowIds' = NowIds BY <1>5, <1>7
<1>9. at \in [Managers -> Points] BY <1>1 DEF TypeOK
<1>10. TypeOK'
  <2>1. at' \in [Managers -> Points] BY <1>2, <1>9 DEF Points
  <2> QED BY <1>1, <1>2, <1>7, <2>1 DEF TypeOK
<1>11. at'[m] = "naming" /\ \A n \in Managers \ {m} : Unmoved(n) BY <1>2, <1>9 DEF Unmoved
<1>12. \A n \in Managers \ {m} : Unmoved(n) /\ ~flushed[n] /\ Away(n) BY <1>3, <1>11 DEF Spared
<1>13. Attached /\ Made \subseteq Made' BY <1>1, <1>2, AttachedFacts
<1>14. LostOnes \subseteq LostOnes' BY <1>1, <1>2, LostKept
<1>15. PlaceOf(m)'
  <2>1. fd[m] = 0 BY <1>1, <1>2 DEF PlaceOf
  <2> QED BY <1>1, <1>2, <1>11, <2>1 DEF PlaceOf
<1>16. MemoryOf(m)'
  <2>1. flushed'[m] => ToSet(entries'[m]) \subseteq ToSet(NowIds') BY <1>2, <1>3, <1>8
  <2> QED BY <1>1, <1>2, <2>1 DEF MemoryOf
<1>17. Headed(Now.lines') /\ ~Replaceable(Now.lines') /\ ~Now.open'
  BY <1>5, <1>6, <1>7, TextFacts DEF Headed, Headers, Replaceable
<1>18. CurrentOf(m)'
  <2>1. Spared(m)' BY <1>12 DEF Spared, Unmoved, Away
  <2>2. WhenFlushed(m)' /\ WhenIdle(m)' BY <1>7, <1>17 DEF WhenFlushed, WhenIdle
  <2>3. WhenWriting(m)' /\ WhenFlushing(m)' BY <1>11 DEF WhenWriting, WhenFlushing
  <2>4. WhenReplacing(m)' BY <1>2, <1>3, <1>7, <1>8, <1>11, <1>17, <2>1 DEF WhenReplacing
  <2> QED BY <2>2, <2>3, <2>4 DEF CurrentOf
<1>19. requests' = {} BY <1>2, <1>3
<1>20. Chained(NowIds', parent', LostOnes') BY <1>1, <1>8, <1>13, <1>14, HistorySame
<1>21. AckInv'
  <2>1. NowFirm \subseteq NowFirm' /\ NowSure \subseteq NowSure' /\ SafeSure \subseteq SafeSure' BY <1>4, <1>5, <1>7
  <2> QED BY <1>1, <1>2, <2>1, AckStep
<1>22. /\ acked' \subseteq Made' /\ refused' \subseteq Made' /\ owed' \subseteq Made' /\ excused' \subseteq Made'
       /\ ToSet(NowIds') \subseteq Made' /\ ToSet(entries'[m]) \subseteq Made'
  BY <1>1, <1>2, <1>8, <1>13 DEF MadeInv
<1>23. IInv'
  BY <1>2, <1>7, <1>8, <1>10, <1>12, <1>13, <1>14, <1>15, <1>16, <1>18, <1>19, <1>20, <1>21, <1>22, OneMovesAlone
<1> QED BY <1>8, <1>23

\* The device learns the new name.
LEMMA NameFileKeeps ==
  ASSUME IInv, NEW m \in Managers, NameFile(m)
  PROVE  IInv' /\ NowIds' = NowIds
<1>1. TypeOK /\ MadeInv /\ PlaceInv /\ PlaceOf(m) /\ CurrentOf(m) /\ MemoryOf(m) /\ HistoryInv /\ AckInv
  BY DEF IInv, PlaceInv, CurrentInv, MemoryInv
<1>2. /\ at[m] = "naming" /\ at' = [at EXCEPT ![m] = "idle"] /\ flushed' = [flushed EXCEPT ![m] = TRUE]
      /\ entrySafe' = entryNow
      /\ UNCHANGED <<inodes, entryNow, entries, leaf, talked, fd, syncErr, requests, parent, faults, losses, setup>>
      /\ UNCHANGED <<acked, refused, owed, excused>>
  BY DEF NameFile, Goto, past
<1>3. /\ entryNow # 0 /\ requests = {} /\ entries[m] = NowIds /\ Spared(m) /\ ~Now.open
      /\ Headed(Now.lines) /\ ~Replaceable(Now.lines)
  BY <1>1, <1>2 DEF CurrentOf, WhenReplacing
<1>4. /\ Now' = Now /\ NowIds' = NowIds /\ NowFirm' = NowFirm /\ NowSure' = NowSure
      /\ SafeIds' = NowIds /\ SafeSure' = NowSure
  BY <1>2 DEF Now, NowIds, NowFirm, NowSure, SafeIds, SafeSure
<1>5. at \in [Managers -> Points] /\ flushed \in [Managers -> BOOLEAN] BY <1>1 DEF TypeOK
<1>6. TypeOK'
  <2>1. at' \in [Managers -> Points] /\ flushed' \in [Managers -> BOOLEAN] BY <1>2, <1>5 DEF Points
  <2> QED BY <1>1, <1>2, <2>1 DEF TypeOK
<1>7. at'[m] = "idle" /\ flushed'[m] = TRUE /\ \A n \in Managers \ {m} : Unmoved(n) BY <1>2, <1>5 DEF Unmoved
<1>8. \A n \in Managers \ {m} : Unmoved(n) /\ ~flushed[n] /\ Away(n) BY <1>3, <1>7 DEF Spared
<1>9. Attached /\ Made \subseteq Made' BY <1>1, <1>2, AttachedFacts
<1>10. LostOnes \subseteq LostOnes'
  <2>1. \A n \in Managers : entries'[n] = entries[n] /\ (flushed[n] => flushed'[n]) BY <1>2, <1>7 DEF Unmoved
  <2> QED BY <1>1, <1>2, <2>1, LostKept
<1>11. PlaceOf(m)' BY <1>1, <1>2, <1>7 DEF PlaceOf
<1>12. MemoryOf(m)' BY <1>2, <1>3, <1>4, <1>7 DEF MemoryOf
<1>13. CurrentOf(m)'
  <2>1. WhenFlushed(m)' /\ WhenIdle(m)' BY <1>2, <1>3, <1>4 DEF WhenFlushed, WhenIdle
  <2>2. WhenWriting(m)' /\ WhenFlushing(m)' /\ WhenReplacing(m)' BY <1>7 DEF WhenWriting, WhenFlushing, WhenReplacing
  <2> QED BY <2>1, <2>2 DEF CurrentOf
<1>14. requests' = {} BY <1>2, <1>3
<1>15. Chained(NowIds', parent', LostOnes') BY <1>1, <1>4, <1>9, <1>10, HistorySame
<1>16. AckInv' BY <1>1, <1>2, <1>4, AckStep
<1>17. /\ acked' \subseteq Made' /\ refused' \subseteq Made' /\ owed' \subseteq Made' /\ excused' \subseteq Made'
       /\ ToSet(NowIds') \subseteq Made' /\ ToSet(entries'[m]) \subseteq Made'
  BY <1>1, <1>2, <1>4, <1>9 DEF MadeInv
<1>18. IInv'
  BY <1>2, <1>4, <1>6, <1>8, <1>9, <1>10, <1>11, <1>12, <1>13, <1>14, <1>15, <1>16, <1>17, OneMovesAlone
<1> QED BY <1>4, <1>18

\* The first text is written by a manager whose file nobody else has open.
LEMMA WritingFacts ==
  ASSUME IInv, NEW m \in Managers, at[m] = "writing"
  PROVE  /\ entryNow # 0 /\ fd[m] = entryNow /\ Now \in Files /\ Now.lines = <<>> /\ ~Now.sick /\ requests = {}
         /\ \A n \in Managers \ {m} : ~flushed[n] /\ Away(n)
         /\ NowIds = <<>> /\ NowFirm = {} /\ NowSure = {}
         /\ ~flushed[m] /\ leaf[m] \in ToSet(entries[m]) /\ m \in setup.managers
         /\ entries[m] \in Seq(Nat) /\ ToSet(entries[m]) \subseteq Made /\ Chained(entries[m], parent, {})
<1>1. TypeOK /\ MadeInv /\ PlaceOf(m) /\ CurrentOf(m) /\ MemoryOf(m) BY DEF IInv, PlaceInv, CurrentInv, MemoryInv
<1>2. /\ entryNow # 0 /\ fd[m] = entryNow /\ ~flushed[m] /\ leaf[m] \in ToSet(entries[m]) /\ m \in setup.managers
  BY <1>1 DEF PlaceOf
<1>3. Now.lines = <<>> /\ ~Now.sick /\ requests = {} /\ Spared(m) BY <1>1 DEF CurrentOf, WhenWriting
<1>4. Now \in Files /\ NowIds = Ids(Now) /\ NowFirm = Firm(Now) /\ NowSure = Sure(Now) BY <1>1, <1>2, ListTypes
<1>5. NowIds = <<>> /\ NowFirm = {} /\ NowSure = {} BY <1>3, <1>4, FileFacts
<1>6. entries[m] \in Seq(Nat) /\ ToSet(entries[m]) \subseteq Made /\ Chained(entries[m], parent, {})
  BY <1>1, <1>2 DEF TypeOK, MadeInv, MemoryOf
<1> QED BY <1>2, <1>3, <1>4, <1>5, <1>6 DEF Spared

\* ... and is a chain, as far as it comes.
LEMMA FirstTextKeeps ==
  ASSUME IInv, NEW m \in Managers, at[m] = "writing", NEW g \in Files, FileIs(entryNow, g), Begins(Ids(g), entries[m]),
         UNCHANGED <<entryNow, entrySafe, parent, acked, owed, excused, setup>>,
         TypeOK', requests' = {}, LostOnes \subseteq LostOnes', refused' \subseteq Made,
         \A n \in Managers \ {m} : Unmoved(n),
         PlaceOf(m)', CurrentOf(m)', MemoryOf(m)', ToSet(entries'[m]) \subseteq Made
  PROVE  IInv' /\ Begins(NowIds, NowIds')
<1>1. TypeOK /\ MadeInv /\ AckInv BY DEF IInv
<1>2. /\ entryNow # 0 /\ \A n \in Managers \ {m} : ~flushed[n] /\ Away(n)
      /\ NowIds = <<>> /\ NowFirm = {} /\ NowSure = {}
      /\ entries[m] \in Seq(Nat) /\ ToSet(entries[m]) \subseteq Made /\ Chained(entries[m], parent, {})
  BY WritingFacts
<1>3. /\ NowIds' = Ids(g)
      /\ \/ SafeIds' = NowIds' /\ SafeSure' = NowSure'
         \/ SafeIds' = SafeIds /\ SafeSure' = SafeSure
  BY <1>1, <1>2, DiskTouched
<1>4. Ids(g) \in Seq(Nat) BY FileFacts
<1>5. Begins(NowIds, NowIds') BY <1>2, <1>3, <1>4, BeginsFacts
<1>6. Attached /\ Made \subseteq Made' BY <1>1, AttachedFacts
<1>7. Chained(NowIds', parent', LostOnes')
  <2>1. parent \in Seq(Nat) BY <1>1 DEF TypeOK
  <2>2. Chained(Ids(g), parent, LostOnes') BY <1>2, <1>4, <2>1, ChainedKept DEF Made
  <2> QED BY <1>3, <2>2
<1>8. AckInv' BY <1>1, <1>2, <1>3, AckStep
<1>9. /\ acked' \subseteq Made' /\ refused' \subseteq Made' /\ owed' \subseteq Made' /\ excused' \subseteq Made'
      /\ ToSet(NowIds') \subseteq Made' /\ ToSet(entries'[m]) \subseteq Made'
  <2>1. ToSet(Ids(g)) \subseteq ToSet(entries[m]) BY <1>2, <1>4, BeginsFacts
  <2> QED BY <1>1, <1>2, <1>3, <1>6, <2>1 DEF MadeInv
<1>10. ToSet(NowIds) \subseteq ToSet(NowIds') BY <1>2, ToSetFacts
<1>11. IInv' BY <1>2, <1>3, <1>6, <1>7, <1>8, <1>9, <1>10, OneMovesAlone
<1> QED BY <1>5, <1>11

\* create_exclusive: its write, which may fail or be cut short.
LEMMA WriteFirstKeeps ==
  ASSUME IInv, NEW m \in Managers, WriteFirst(m)
  PROVE  IInv' /\ Begins(NowIds, NowIds')
<1> DEFINE es == entries[m]
<1>1. TypeOK /\ MadeInv /\ PlaceOf(m) /\ MemoryOf(m) BY DEF IInv, PlaceInv, MemoryInv
<1>2. /\ at[m] = "writing"
      /\ UNCHANGED <<entryNow, entrySafe, entries, leaf, talked, flushed, syncErr, requests, parent, acked, owed, excused,
                     losses, setup>>
  BY DEF WriteFirst
<1>3. /\ entryNow # 0 /\ fd[m] = entryNow /\ Now \in Files /\ Now.lines = <<>> /\ ~Now.sick /\ requests = {}
      /\ \A n \in Managers \ {m} : ~flushed[n] /\ Away(n)
      /\ ~flushed[m] /\ leaf[m] \in ToSet(es) /\ m \in setup.managers
      /\ es \in Seq(Nat) /\ ToSet(es) \subseteq Made
      /\ NowIds \in Seq(Nat)
  BY <1>1, <1>2, WritingFacts, ListTypes
<1>4. FirstText(m) = Whole(es) BY DEF FirstText, Lines, Whole
<1> HIDE DEF es
<1>5. at \in [Managers -> Points] /\ fd \in [Managers -> Nat] BY <1>1 DEF TypeOK
<1>6. refused' \in {refused, refused \cup {leaf[m]}} /\ refused' \subseteq Made
  <2>1. refused' \in {refused, refused \cup {leaf[m]}} BY DEF WriteFirst, Refuse
  <2>2. leaf[m] \in Made BY <1>3
  <2> QED BY <1>1, <2>1, <2>2 DEF MadeInv
<1>7. LostOnes \subseteq LostOnes' BY <1>1, <1>2, <1>6, LostKept
<1>8. MemoryOf(m)' BY <1>1, <1>2, <1>3 DEF MemoryOf
<1>9. ToSet(entries'[m]) \subseteq Made BY <1>2, <1>3 DEF es
<1>10. ASSUME FileIs(fd[m], Written(inodes[fd[m]], FirstText(m))), Goto(m, "flushing"), UNCHANGED <<fd, refused, faults>>
       PROVE  IInv' /\ Begins(NowIds, NowIds')
  <2> DEFINE g == Written(Now, Whole(es))
  <2>1. /\ g \in Files /\ g.lines # <<>> /\ g.lines[1] = Header /\ ~g.open /\ g.sick = Now.sick
        /\ Ids(g) = es /\ Firm(g) = ToSet(es)
    BY <1>3, FirstWritten
  <2>2. FileIs(entryNow, g) BY <1>3, <1>4, <1>10 DEF Now
  <2> HIDE DEF g
  <2>3. /\ inodes' \in Seq(Files) /\ entryNow' \in 0..Len(inodes') /\ entrySafe' \in 0..Len(inodes')
        /\ Now' = g /\ NowIds' = Ids(g)
    BY <1>1, <1>2, <1>3, <2>1, <2>2, DiskTouched
  <2>4. at' = [at EXCEPT ![m] = "flushing"] BY <1>10 DEF Goto
  <2>5. TypeOK'
    <3>1. at' \in [Managers -> Points] BY <1>5, <2>4 DEF Points
    <3> QED BY <1>1, <1>2, <1>10, <2>3, <3>1 DEF TypeOK
  <2>6. at'[m] = "flushing" /\ fd'[m] = entryNow /\ \A n \in Managers \ {m} : Unmoved(n)
    BY <1>2, <1>3, <1>5, <1>10, <2>4 DEF Unmoved
  <2>7. PlaceOf(m)' BY <1>2, <1>3, <2>6 DEF PlaceOf, es
  <2>8. CurrentOf(m)'
    <3>1. \A n \in Managers \ {m} : Away(n)' BY <1>3, <2>6 DEF Unmoved, Away
    <3>2. WhenFlushed(m)' /\ WhenIdle(m)' /\ WhenWriting(m)' /\ WhenReplacing(m)'
      BY <1>2, <1>3, <2>6 DEF WhenFlushed, WhenIdle, WhenWriting, WhenReplacing
    <3>3. ToSet(entries'[m]) \subseteq ToSet(NowIds') BY <1>2, <2>1, <2>3 DEF es
    <3>4. (Now.lines # <<>> /\ Now.lines[1] = Header /\ ~Now.open /\ ~Now.sick)' BY <1>3, <2>1, <2>3
    <3>5. WhenFlushing(m)' BY <1>2, <1>3, <3>1, <3>3, <3>4 DEF WhenFlushing
    <3> QED BY <3>2, <3>5 DEF CurrentOf
  <2>9. Begins(Ids(g), es) BY <1>3, <2>1, BeginsFacts
  <2>10. requests' = {} BY <1>2, <1>3
  <2> QED BY <1>2, <1>6, <1>7, <1>8, <1>9, <2>1, <2>2, <2>5, <2>6, <2>7, <2>8, <2>9, <2>10, FirstTextKeeps DEF es
<1>11. ASSUME fd' = [fd EXCEPT ![m] = 0], Refuse(m), Goto(m, "idle"), Fault("refuse"), UNCHANGED inodes
       PROVE  IInv' /\ Begins(NowIds, NowIds')
  <2>1. faults' \in Nat BY <1>1, <1>11, FaultFacts
  <2>2. fd' \in [Managers -> Nat] /\ fd'[m] = 0 /\ \A n \in Managers \ {m} : fd'[n] = fd[n] BY <1>5, <1>11
  <2>3. at' = [at EXCEPT ![m] = "idle"] /\ UNCHANGED disk BY <1>2, <1>11 DEF Goto, disk
  <2>4. Refuse(m) BY <1>11
  <2>5. IInv' /\ NowIds' = NowIds BY <1>2, <2>1, <2>2, <2>3, <2>4, RefusedInMemory
  <2> QED BY <1>3, <2>5, BeginsFacts
<1>12. ASSUME fd' = [fd EXCEPT ![m] = 0], Refuse(m), Goto(m, "idle"), Fault("first"),
              NEW g \in CutShort(inodes[fd[m]], FirstText(m)), FileIs(fd[m], g)
       PROVE  IInv' /\ Begins(NowIds, NowIds')
  <2>1. g \in Files /\ Begins(Ids(g), es)
    <3>1. g \in CutShort(Now, Whole(es)) BY <1>3, <1>4, <1>12 DEF Now
    <3> QED BY <1>3, <3>1, FirstCutShort
  <2>2. FileIs(entryNow, g) BY <1>3, <1>12
  <2>3. inodes' \in Seq(Files) /\ entryNow' \in 0..Len(inodes') /\ entrySafe' \in 0..Len(inodes')
    BY <1>1, <1>2, <1>3, <2>1, <2>2, DiskTouched
  <2>4. at' = [at EXCEPT ![m] = "idle"] BY <1>12 DEF Goto
  <2>5. TypeOK'
    <3>1. at' \in [Managers -> Points] /\ fd' \in [Managers -> Nat] BY <1>5, <1>12, <2>4 DEF Points
    <3>2. faults' \in Nat BY <1>1, <1>12, FaultFacts
    <3> QED BY <1>1, <1>2, <2>3, <3>1, <3>2 DEF TypeOK
  <2>6. at'[m] = "idle" /\ fd'[m] = 0 /\ \A n \in Managers \ {m} : Unmoved(n)
    BY <1>2, <1>5, <1>12, <2>4 DEF Unmoved
  <2>7. PlaceOf(m)' BY <1>2, <1>3, <2>6 DEF PlaceOf, es
  <2>8. CurrentOf(m)' BY <1>2, <1>3, <2>6, AwayKept
  <2>9. requests' = {} BY <1>2, <1>3
  <2> QED BY <1>2, <1>6, <1>7, <1>8, <1>9, <2>1, <2>2, <2>5, <2>6, <2>7, <2>8, <2>9, FirstTextKeeps DEF es
<1> QED BY <1>10, <1>11, <1>12 DEF WriteFirst

\* The flush the first message waits for.  What it answers to is whole lines of a file that nobody
\* replaces, which the device can name from now on.
LEMMA SyncFirstKeeps ==
  ASSUME IInv, AllSound, NEW m \in Managers, SyncFirst(m)
  PROVE  IInv' /\ NowIds' = NowIds
<1> DEFINE es == ToSet(entries[m])
<1>1. TypeOK /\ MadeInv /\ PlaceInv /\ CurrentInv /\ PlaceOf(m) /\ CurrentOf(m) /\ MemoryOf(m) /\ HistoryInv /\ AckInv
  BY DEF IInv, PlaceInv, CurrentInv, MemoryInv
<1>2. /\ at[m] = "flushing" /\ fd' = [fd EXCEPT ![m] = 0] /\ at' = [at EXCEPT ![m] = "idle"]
      /\ UNCHANGED <<entryNow, entries, leaf, talked, syncErr, requests, parent, owed, excused, losses, setup>>
  BY DEF SyncFirst, Goto
<1>3. fd[m] = entryNow /\ entryNow # 0 /\ ~flushed[m] /\ leaf[m] \in {0} \cup es /\ leaf[m] \in es /\ m \in setup.managers
  BY <1>1, <1>2 DEF PlaceOf
<1>4. /\ Now.lines # <<>> /\ Now.lines[1] = Header /\ ~Now.open /\ ~Now.sick /\ es \subseteq ToSet(NowIds)
      /\ \A n \in Managers \ {m} : Away(n)
  BY <1>1, <1>2 DEF CurrentOf, WhenFlushing
<1>5. Now \in Files /\ NowIds = Ids(Now) /\ NowFirm = Firm(Now) /\ NowSure = Sure(Now) BY <1>1, <1>3, ListTypes
<1>6. Headed(Now.lines) /\ ~Replaceable(Now.lines) BY <1>4, TextFacts DEF Headed, Headers, Replaceable
<1>7. /\ at \in [Managers -> Points] /\ fd \in [Managers -> Nat] /\ flushed \in [Managers -> BOOLEAN]
      /\ "idle" \in Points
  BY <1>1 DEF TypeOK, Points
<1>8. /\ at' \in [Managers -> Points] /\ fd' \in [Managers -> Nat]
      /\ at'[m] = "idle" /\ fd'[m] = 0 /\ \A n \in Managers \ {m} : at'[n] = at[n] /\ fd'[n] = fd[n]
  BY <1>2, <1>7
<1>9. Attached /\ Made \subseteq Made' BY <1>1, <1>2, AttachedFacts
<1>10. es \subseteq Made BY <1>1 DEF MadeInv
<1> HIDE DEF es
<1>11. ASSUME NEW g \in Files, FileIs(entryNow, g), g.lines = Now.lines, g.open = Now.open, Ids(g) = Ids(Now),
              entrySafe' \in {entrySafe, entryNow}
       PROVE  /\ inodes' \in Seq(Files) /\ entryNow' \in 0..Len(inodes') /\ entrySafe' \in 0..Len(inodes')
              /\ Now' = g /\ NowIds' = NowIds /\ NowFirm' = Firm(g) /\ NowSure' = Sure(g)
              /\ \/ SafeIds' = NowIds' /\ SafeSure' = NowSure'
                 \/ SafeIds' = SafeIds /\ SafeSure' = SafeSure
              /\ FileKept
              /\ \A r \in requests' : r[2] = entryNow' /\ entryNow' # 0
              /\ requests' # {} => ~Replaceable(Now.lines)'
  <2>1. /\ inodes' \in Seq(Files) /\ entryNow' \in 0..Len(inodes') /\ entrySafe' \in 0..Len(inodes')
        /\ Now' = g /\ NowIds' = Ids(g) /\ NowFirm' = Firm(g) /\ NowSure' = Sure(g)
        /\ \/ SafeIds' = NowIds' /\ SafeSure' = NowSure'
           \/ SafeIds' = SafeIds /\ SafeSure' = SafeSure
    BY <1>1, <1>2, <1>3, <1>11, DiskTouched
  <2>2. NowIds' = NowIds BY <1>5, <1>11, <2>1
  <2>3. Now.lines' = Now.lines /\ Now.open' = Now.open BY <1>11, <2>1
  <2>4. FileKept BY <2>2, <2>3 DEF FileKept
  <2>5. requests' # {} => ~Replaceable(Now.lines)' BY <1>6, <2>3
  <2>6. \A r \in requests' : r[2] = entryNow' /\ entryNow' # 0 BY <1>1, <1>2 DEF PlaceInv
  <2> QED BY <2>1, <2>2, <2>4, <2>5, <2>6
<1>12. ASSUME FileIs(fd[m], Flushed(inodes[fd[m]])), entrySafe' = NamedBy(fd[m]), flushed' = [flushed EXCEPT ![m] = TRUE],
              acked' = acked \cup es, refused' = refused \ es, UNCHANGED faults
       PROVE  IInv' /\ NowIds' = NowIds
  <2> DEFINE g == Flushed(Now)
  <2>1. /\ g \in Files /\ g.lines = Now.lines /\ g.open = Now.open /\ Ids(g) = Ids(Now)
        /\ Firm(g) = Firm(Now) /\ Sure(g) = Firm(Now)
    BY <1>4, <1>5, FlushedFile
  <2>2. FileIs(entryNow, g) BY <1>3, <1>12 DEF Now
  <2> HIDE DEF g
  <2>3. entrySafe' = entryNow BY <1>3, <1>12, SoundFacts DEF NamedBy
  <2>4. /\ inodes' \in Seq(Files) /\ entryNow' \in 0..Len(inodes') /\ entrySafe' \in 0..Len(inodes')
        /\ Now' = g /\ NowIds' = NowIds /\ NowFirm' = Firm(g) /\ NowSure' = Sure(g)
        /\ \/ SafeIds' = NowIds' /\ SafeSure' = NowSure'
           \/ SafeIds' = SafeIds /\ SafeSure' = SafeSure
        /\ FileKept
        /\ \A r \in requests' : r[2] = entryNow' /\ entryNow' # 0
        /\ requests' # {} => ~Replaceable(Now.lines)'
    BY <1>11, <2>1, <2>2, <2>3
  <2>5. flushed' \in [Managers -> BOOLEAN] /\ flushed'[m] = TRUE /\ \A n \in Managers \ {m} : flushed'[n] = flushed[n]
    BY <1>7, <1>12
  <2>6. TypeOK' BY <1>1, <1>2, <1>8, <1>12, <2>4, <2>5 DEF TypeOK
  <2>7. \A n \in Managers \ {m} : Unmoved(n) BY <1>2, <1>8, <2>5 DEF Unmoved
  <2>8. LostOnes \subseteq LostOnes'
    <3> SUFFICES ASSUME NEW x \in LostOnes PROVE x \in LostOnes' OBVIOUS
    <3>1. x \in refused /\ \A n \in Managers : x \in ToSet(entries[n]) => flushed[n] BY DEF LostOnes
    <3>2. x \notin es BY <1>3, <3>1 DEF es
    <3>3. x \in refused' BY <1>12, <3>1, <3>2
    <3>4. \A n \in Managers : x \in ToSet(entries'[n]) => flushed'[n] BY <1>2, <2>5, <3>1
    <3> QED BY <3>3, <3>4 DEF LostOnes
  <2>9. PlaceOf(m)' BY <1>2, <1>3, <1>8, <2>5 DEF PlaceOf, es
  <2>10. MemoryOf(m)' BY <1>2, <1>4, <2>4, <2>5 DEF MemoryOf, es
  <2>11. CurrentOf(m)'
    <3>1. Headed(Now.lines') /\ ~Replaceable(Now.lines') /\ ~Now.open' /\ entryNow' # 0 BY <1>2, <1>3, <1>4, <1>6, <2>1, <2>4
    <3>2. WhenFlushed(m)' /\ WhenIdle(m)' BY <3>1 DEF WhenFlushed, WhenIdle
    <3>3. WhenWriting(m)' /\ WhenFlushing(m)' /\ WhenReplacing(m)' BY <1>8 DEF WhenWriting, WhenFlushing, WhenReplacing
    <3> QED BY <3>2, <3>3 DEF CurrentOf
  <2>12. Chained(NowIds', parent', LostOnes') BY <1>1, <1>9, <2>4, <2>8, HistorySame
  <2>13. AckInv'
    <3>1. Firm(Now) = ToSet(NowIds) BY <1>4, <1>5, FileFacts
    <3>2. acked' \ excused' \subseteq ToSet(NowIds)
      <4>1. acked \ excused \subseteq ToSet(NowIds) BY <1>1, <1>5, <3>1 DEF AckInv
      <4> QED BY <1>2, <1>4, <1>12, <4>1
    <3>3. NowFirm' = ToSet(NowIds) /\ NowSure' = ToSet(NowIds) BY <2>1, <2>4, <3>1
    <3>4. SafeSure' = NowSure' BY <1>2, <1>3, <2>3 DEF SafeSure, NowSure
    <3> QED BY <3>2, <3>3, <3>4 DEF AckInv
  <2>14. /\ acked' \subseteq Made' /\ refused' \subseteq Made' /\ owed' \subseteq Made' /\ excused' \subseteq Made'
         /\ ToSet(NowIds') \subseteq Made' /\ ToSet(entries'[m]) \subseteq Made'
    BY <1>1, <1>2, <1>9, <1>10, <1>12, <2>4 DEF MadeInv
  <2>15. \A n \in Managers \ {m} : at[n] \notin {"writing", "flushing", "replacing", "naming"} BY <1>4 DEF Away
  <2>16. Away(m)' BY <1>8 DEF Away
  <2>17. IInv' BY <1>2, <1>9, <2>4, <2>6, <2>7, <2>8, <2>9, <2>10, <2>11, <2>12, <2>13, <2>14, <2>15, <2>16, OneMoves
  <2> QED BY <2>4, <2>17
<1>13. ASSUME Fault("flush"), FileIs(fd[m], [inodes[fd[m]] EXCEPT !.sick = TRUE]), Refuse(m),
              UNCHANGED <<entrySafe, flushed, acked>>
       PROVE  IInv' /\ NowIds' = NowIds
  <2> DEFINE g == [Now EXCEPT !.sick = TRUE]
  <2>1. /\ g \in Files /\ g.lines = Now.lines /\ g.open = Now.open /\ Ids(g) = Ids(Now)
        /\ Firm(g) = Firm(Now) /\ Sure(g) = Sure(Now)
    BY <1>5, FlushedFile
  <2>2. FileIs(entryNow, g) BY <1>3, <1>13 DEF Now
  <2> HIDE DEF g
  <2>3. entrySafe' \in {entrySafe, entryNow} BY <1>13
  <2>4. /\ inodes' \in Seq(Files) /\ entryNow' \in 0..Len(inodes') /\ entrySafe' \in 0..Len(inodes')
        /\ Now' = g /\ NowIds' = NowIds /\ NowFirm' = Firm(g) /\ NowSure' = Sure(g)
        /\ \/ SafeIds' = NowIds' /\ SafeSure' = NowSure'
           \/ SafeIds' = SafeIds /\ SafeSure' = SafeSure
        /\ FileKept
        /\ \A r \in requests' : r[2] = entryNow' /\ entryNow' # 0
        /\ requests' # {} => ~Replaceable(Now.lines)'
    BY <1>11, <2>1, <2>2, <2>3
  <2>5. "flush" \in setup.faults /\ faults' \in Nat BY <1>1, <1>13, FaultFacts
  <2>6. TypeOK' BY <1>1, <1>2, <1>8, <1>13, <2>4, <2>5 DEF TypeOK
  <2>7. \A n \in Managers \ {m} : Unmoved(n) /\ ~flushed[n] /\ Away(n)
    <3>1. \A n \in Managers \ {m} : ~flushed[n] BY <1>2, <2>5, OnlyOne
    <3> QED BY <1>2, <1>4, <1>8, <1>13, <3>1 DEF Unmoved
  <2>8. refused' = refused \cup {leaf[m]} BY <1>13 DEF Refuse
  <2>9. LostOnes \subseteq LostOnes' BY <1>1, <1>2, <1>13, <2>8, LostKept
  <2>10. PlaceOf(m)' BY <1>2, <1>3, <1>8, <1>13 DEF PlaceOf, es
  <2>11. MemoryOf(m)' BY <1>1, <1>2, <1>3, <1>13 DEF MemoryOf
  <2>12. CurrentOf(m)' BY <1>3, <1>8, <1>13, AwayKept
  <2>13. Chained(NowIds', parent', LostOnes') BY <1>1, <1>9, <2>4, <2>9, HistorySame
  <2>14. AckInv'
    <3>1. NowFirm' = NowFirm /\ NowSure' = NowSure BY <1>5, <2>1, <2>4
    <3> QED BY <1>1, <1>2, <1>13, <2>4, <3>1, AckStep
  <2>15. /\ acked' \subseteq Made' /\ refused' \subseteq Made' /\ owed' \subseteq Made' /\ excused' \subseteq Made'
         /\ ToSet(NowIds') \subseteq Made' /\ ToSet(entries'[m]) \subseteq Made'
    BY <1>1, <1>2, <1>3, <1>9, <1>10, <1>13, <2>4, <2>8 DEF MadeInv
  <2>16. IInv' BY <1>2, <1>9, <2>4, <2>6, <2>7, <2>9, <2>10, <2>11, <2>12, <2>13, <2>14, <2>15, OneMovesAlone
  <2> QED BY <2>4, <2>16
<1> QED BY <1>12, <1>13 DEF SyncFirst, es

\* A manager that appends lines has the current file, and its leaf is in it or lost.
LEMMA AppendingFacts ==
  ASSUME IInv, NEW m \in Managers, flushed[m], at[m] = "idle"
  PROVE  /\ Handle(m) = entryNow /\ entryNow # 0 /\ m \in setup.managers
         /\ Now \in Files /\ NowIds = Ids(Now) /\ NowFirm = Firm(Now) /\ NowSure = Sure(Now) /\ NowIds \in Seq(Nat)
         /\ Headed(Now.lines) /\ ~Now.open /\ ~Replaceable(Now.lines)
         /\ leaf[m] = 0 \/ leaf[m] \in LostOnes \/ leaf[m] \in ToSet(NowIds)
<1>1. TypeOK /\ PlaceOf(m) /\ CurrentOf(m) /\ MemoryOf(m) BY DEF IInv, PlaceInv, CurrentInv, MemoryInv
<1>2. entryNow # 0 /\ Headed(Now.lines) /\ ~Now.open /\ ~Replaceable(Now.lines)
  BY <1>1 DEF CurrentOf, WhenFlushed, WhenIdle
<1>3. Handle(m) = entryNow /\ m \in setup.managers BY <1>1 DEF PlaceOf, Handle
<1>4. leaf[m] = 0 \/ leaf[m] \in LostOnes \/ leaf[m] \in ToSet(NowIds) BY <1>1 DEF PlaceOf, MemoryOf
<1> QED BY <1>1, <1>2, <1>3, <1>4, ListTypes

\* One entry more is at the end of the chain.
LEMMA ChainedNext ==
  ASSUME IInv, NEW m \in Managers, flushed[m], at[m] = "idle", parent' = Append(parent, leaf[m]),
         LostOnes \subseteq LostOnes'
  PROVE  Chained(Append(NowIds, Len(parent) + 1), parent', LostOnes')
<1>1. TypeOK /\ MadeInv /\ HistoryInv BY DEF IInv
<1>2. NowIds \in Seq(Nat) /\ (leaf[m] = 0 \/ leaf[m] \in LostOnes' \/ leaf[m] \in ToSet(NowIds)) BY AppendingFacts
<1>3. parent \in Seq(Nat) /\ leaf[m] \in Nat /\ ToSet(NowIds) \subseteq 1..Len(parent) BY <1>1 DEF TypeOK, MadeInv, Made
<1>4. Begins(NowIds, NowIds) BY <1>2, BeginsFacts
<1>5. Chained(NowIds, parent, LostOnes) BY <1>1 DEF HistoryInv
<1>6. Chained(NowIds, parent, LostOnes') BY <1>2, <1>3, <1>4, <1>5, ChainedKept
<1>7. Chained(Append(NowIds, Len(parent) + 1), Append(parent, leaf[m]), LostOnes') BY <1>2, <1>3, <1>6, ChainedAppend
<1> QED BY <1>7

\* append_line: a whole line, or a refusal.
LEMMA AppendLineKeeps ==
  ASSUME IInv, AllSound, NEW m \in Managers, AppendLine(m)
  PROVE  IInv' /\ Begins(NowIds, NowIds')
<1> DEFINE e == Len(parent) + 1
<1>1. TypeOK /\ MadeInv /\ PlaceInv /\ CurrentInv /\ PlaceOf(m) /\ CurrentOf(m) /\ MemoryOf(m) /\ HistoryInv /\ AckInv
  BY DEF IInv, PlaceInv, CurrentInv, MemoryInv
<1>2. /\ flushed[m] /\ at[m] = "idle" /\ Push(m) /\ syncErr' = [syncErr EXCEPT ![m] = FALSE]
      /\ UNCHANGED <<entryNow, entrySafe, at, talked, flushed, excused, losses, setup>>
  BY DEF AppendLine, Push
<1>3. /\ Handle(m) = entryNow /\ entryNow # 0 /\ m \in setup.managers
      /\ Now \in Files /\ NowIds = Ids(Now) /\ NowFirm = Firm(Now) /\ NowSure = Sure(Now) /\ NowIds \in Seq(Nat)
      /\ Headed(Now.lines) /\ ~Now.open /\ ~Replaceable(Now.lines)
  BY <1>2, AppendingFacts
<1>4. /\ e \in Nat /\ e \notin Made /\ e \in Made' /\ Made \subseteq Made' /\ Attached /\ parent' = Append(parent, leaf[m])
      /\ entries' \in [Managers -> Seq(Nat)] /\ leaf' \in [Managers -> Nat]
      /\ entries'[m] = Append(entries[m], e) /\ leaf'[m] = e
      /\ ToSet(entries'[m]) = ToSet(entries[m]) \cup {e} /\ ToSet(entries'[m]) \subseteq Made'
      /\ \A n \in Managers \ {m} : entries'[n] = entries[n] /\ leaf'[n] = leaf[n]
  BY <1>2, PushFacts
<1>5. /\ fd \in [Managers -> Nat] /\ syncErr' \in [Managers -> BOOLEAN] /\ parent' \in Seq(Nat)
      /\ requests \subseteq (Managers \cup {Nobody}) \X Nat /\ entryNow \in Nat
  BY <1>1, <1>2, <1>4, ListTypes DEF TypeOK, Attached
<1>6. \/ /\ FileIs(entryNow, Written(Now, <<Line(e)>>))
         /\ fd' = [fd EXCEPT ![m] = entryNow]
         /\ requests' = requests \cup {<<m, entryNow>>}
         /\ owed' = owed \cup {e}
         /\ acked' \in {acked, acked \cup {e}}
         /\ UNCHANGED <<refused, faults>>
      \/ /\ faults' \in Nat /\ UNCHANGED inodes
         /\ fd' = [fd EXCEPT ![m] = 0]
         /\ refused' = refused \cup {e}
         /\ UNCHANGED <<requests, owed, acked>>
  <2>1. ~Fault("torn") BY <1>1, FaultFacts, SoundFacts
  <2>2. Fault("refuse") => faults' \in Nat BY <1>1, FaultFacts
  <2> QED BY <1>3, <2>1, <2>2 DEF AppendLine, Now
<1> HIDE DEF e
<1>7. refused \subseteq refused' BY <1>6
<1>8. LostOnes \subseteq LostOnes'
  <2>1. \A n \in Managers : \/ entries'[n] = entries[n] /\ (flushed[n] => flushed'[n])
                            \/ entries'[n] = Append(entries[n], Len(parent) + 1) /\ (flushed[n] => flushed'[n])
    BY <1>2, <1>4 DEF e
  <2> QED BY <1>1, <1>7, <2>1, LostKept
<1>9. CASE /\ FileIs(entryNow, Written(Now, <<Line(e)>>))
           /\ fd' = [fd EXCEPT ![m] = entryNow]
           /\ requests' = requests \cup {<<m, entryNow>>}
           /\ owed' = owed \cup {e}
           /\ acked' \in {acked, acked \cup {e}}
           /\ UNCHANGED <<refused, faults>>
  <2> DEFINE g == Written(Now, <<Line(e)>>)
  <2>1. /\ g \in Files /\ Headed(g.lines) /\ ~g.open /\ g.sick = Now.sick /\ g.lines[1] = Now.lines[1]
        /\ Ids(g) = Append(Ids(Now), e) /\ Firm(g) = ToSet(Ids(g)) /\ Firm(Now) \subseteq Firm(g)
        /\ Sure(Now) \subseteq Sure(g)
        /\ ~Replaceable(Now.lines) => ~Replaceable(g.lines)
    BY <1>3, <1>4, AppendedFile
  <2>2. FileIs(entryNow, g) BY <1>9
  <2> HIDE DEF g
  <2>3. /\ inodes' \in Seq(Files) /\ entryNow' \in 0..Len(inodes') /\ entrySafe' \in 0..Len(inodes')
        /\ Now' = g /\ NowIds' = Ids(g) /\ NowFirm' = Firm(g) /\ NowSure' = Sure(g)
        /\ \/ SafeIds' = NowIds' /\ SafeSure' = NowSure'
           \/ SafeIds' = SafeIds /\ SafeSure' = SafeSure
    BY <1>1, <1>2, <1>3, <2>1, <2>2, DiskTouched
  <2>4. NowIds' = Append(NowIds, e) BY <1>3, <2>1, <2>3
  <2>5. Begins(NowIds, NowIds') /\ ToSet(NowIds') = ToSet(NowIds) \cup {e} BY <1>3, <1>4, <2>4, BeginsFacts
  <2>6. /\ fd' \in [Managers -> Nat] /\ fd'[m] = entryNow /\ \A n \in Managers \ {m} : fd'[n] = fd[n]
    BY <1>5, <1>9
  <2>7. TypeOK'
    <3>1. requests' \subseteq (Managers \cup {Nobody}) \X Nat BY <1>5, <1>9
    <3> QED BY <1>1, <1>2, <1>4, <1>5, <1>9, <2>3, <2>6, <3>1 DEF TypeOK
  <2>8. \A n \in Managers \ {m} : Unmoved(n) BY <1>2, <1>4, <2>6 DEF Unmoved
  <2>9. PlaceOf(m)' BY <1>2, <1>3, <1>4, <2>6 DEF PlaceOf
  <2>10. MemoryOf(m)'
    <3>1. ToSet(entries[m]) \subseteq ToSet(NowIds) \cup LostOnes BY <1>1, <1>2 DEF MemoryOf
    <3>2. ToSet(entries'[m]) \subseteq ToSet(NowIds') \cup LostOnes' BY <1>4, <1>8, <2>5, <3>1
    <3> QED BY <1>2, <3>2 DEF MemoryOf
  <2>11. Headed(Now.lines') /\ ~Replaceable(Now.lines') /\ ~Now.open' BY <1>3, <2>1, <2>3
  <2>12. CurrentOf(m)'
    <3>1. WhenFlushed(m)' /\ WhenIdle(m)' BY <1>2, <1>3, <2>11 DEF WhenFlushed, WhenIdle
    <3>2. WhenWriting(m)' /\ WhenFlushing(m)' /\ WhenReplacing(m)' BY <1>2 DEF WhenWriting, WhenFlushing, WhenReplacing
    <3> QED BY <3>1, <3>2 DEF CurrentOf
  <2>13. FileKept
    <3>1. Now.lines[1] = Header => Now.lines' # <<>> /\ Now.lines'[1] = Header BY <2>1, <2>3 DEF Headed
    <3> QED BY <2>5, <2>11, <3>1 DEF FileKept
  <2>14. Chained(NowIds', parent', LostOnes') BY <1>2, <1>4, <1>8, <2>4, ChainedNext DEF e
  <2>15. AckInv'
    <3>1. NowFirm \subseteq NowFirm' /\ e \in NowFirm' /\ NowSure \subseteq NowSure'
      <4>1. NowFirm' = ToSet(NowIds') BY <2>1, <2>3
      <4> QED BY <1>3, <2>1, <2>3, <2>5, <4>1
    <3>2. SafeSure \subseteq SafeSure' \/ NowSure \subseteq SafeSure' BY <2>3, <3>1
    <3>3. acked' \ excused' \subseteq (acked \ excused) \cup {e} BY <1>2, <1>9
    <3>4. acked' \ (excused' \cup owed') \subseteq acked \ (excused \cup owed) BY <1>2, <1>9
    <3> QED BY <1>1, <3>1, <3>2, <3>3, <3>4 DEF AckInv
  <2>16. /\ acked' \subseteq Made' /\ refused' \subseteq Made' /\ owed' \subseteq Made' /\ excused' \subseteq Made'
         /\ ToSet(NowIds') \subseteq Made'
    BY <1>1, <1>2, <1>4, <1>9, <2>5 DEF MadeInv
  <2>17. /\ \A r \in requests' : r[2] = entryNow /\ entryNow # 0
         /\ requests' # {} => ~Replaceable(Now.lines)'
    BY <1>1, <1>3, <1>9, <2>11 DEF PlaceInv
  <2>18. (Now.sick' => Now.sick) /\ Away(m)' BY <1>2, <2>1, <2>3 DEF Away
  <2>19. ToSet(NowIds) \subseteq ToSet(NowIds') BY <2>5
  <2>20. SafeIds' = SafeIds \/ SafeIds' = NowIds' BY <2>3
  <2>21. IInv'
    BY <1>2, <1>4, <1>8, <2>7, <2>8, <2>9, <2>10, <2>12, <2>13, <2>14, <2>15, <2>16, <2>17, <2>18, <2>19, <2>20, OneMoves
  <2> QED BY <2>5, <2>21
<1>10. CASE /\ faults' \in Nat /\ UNCHANGED inodes
            /\ fd' = [fd EXCEPT ![m] = 0]
            /\ refused' = refused \cup {e}
            /\ UNCHANGED <<requests, owed, acked>>
  <2>1. UNCHANGED disk BY <1>2, <1>10 DEF disk
  <2>2. NowIds' = NowIds /\ Now' = Now BY <2>1, DiskUnchanged
  <2>3. fd' \in [Managers -> Nat] /\ fd'[m] = 0 /\ \A n \in Managers \ {m} : fd'[n] = fd[n] BY <1>5, <1>10
  <2>4. TypeOK' BY <1>1, <1>2, <1>4, <1>5, <1>10, <2>3 DEF TypeOK
  <2>5. \A n \in Managers \ {m} : Unmoved(n) BY <1>2, <1>4, <2>3 DEF Unmoved
  <2>6. PlaceOf(m)' BY <1>2, <1>3, <1>4, <2>3 DEF PlaceOf
  <2>7. e \in LostOnes'
    <3>1. \A n \in Managers : e \in ToSet(entries'[n]) => flushed'[n]
      <4> TAKE n \in Managers
      <4>1. CASE n = m BY <1>2, <4>1
      <4>2. CASE n # m BY <1>1, <1>4, <4>2 DEF MadeInv
      <4> QED BY <4>1, <4>2
    <3> QED BY <1>10, <3>1 DEF LostOnes
  <2>8. MemoryOf(m)'
    <3>1. ToSet(entries[m]) \subseteq ToSet(NowIds) \cup LostOnes BY <1>1, <1>2 DEF MemoryOf
    <3>2. ToSet(entries'[m]) \subseteq ToSet(NowIds') \cup LostOnes' BY <1>4, <1>8, <2>2, <2>7, <3>1
    <3> QED BY <1>2, <3>2 DEF MemoryOf
  <2>9. CurrentOf(m)'
    <3>1. WhenFlushed(m)' /\ WhenIdle(m)' BY <1>2, <1>3, <2>2 DEF WhenFlushed, WhenIdle
    <3>2. WhenWriting(m)' /\ WhenFlushing(m)' /\ WhenReplacing(m)' BY <1>2 DEF WhenWriting, WhenFlushing, WhenReplacing
    <3> QED BY <3>1, <3>2 DEF CurrentOf
  <2>10. refused' \subseteq Made' BY <1>1, <1>4, <1>10 DEF MadeInv
  <2>11. Away(m)' BY <1>2 DEF Away
  <2>12. IInv' /\ NowIds' = NowIds
    BY <1>2, <1>4, <1>8, <1>10, <2>1, <2>4, <2>5, <2>6, <2>8, <2>9, <2>10, <2>11, OneMovesInMemory
  <2> QED BY <1>3, <2>12, BeginsFacts
<1> QED BY <1>6, <1>9, <1>10

\* The syncer moves no manager: what was in whole lines is in flushed ones, unless the flush fails.
LEMMA SyncKeeps ==
  ASSUME IInv, AllSound, NEW r \in requests, Sync(r)
  PROVE  IInv' /\ NowIds' = NowIds
<1>1. TypeOK /\ MadeInv /\ PlaceInv /\ CurrentInv /\ HistoryInv /\ AckInv BY DEF IInv
<1>2. /\ requests' = requests \ {r}
      /\ UNCHANGED <<entryNow, at, entries, leaf, talked, flushed, fd, parent, acked, refused, excused, losses, setup>>
  BY DEF Sync
<1>3. r[2] = entryNow /\ entryNow # 0 BY <1>1 DEF PlaceInv
<1>4. Now \in Files /\ NowIds = Ids(Now) /\ NowFirm = Firm(Now) /\ NowSure = Sure(Now) BY <1>1, <1>3, ListTypes
<1>5. Nobody \notin Managers BY NobodyAssumption
<1>6. \A n \in Managers \ {Nobody} : Unmoved(n) BY <1>2 DEF Unmoved
<1>7. LostOnes' = LostOnes BY <1>2 DEF LostOnes
<1>8. Attached /\ Made \subseteq Made' BY <1>1, <1>2, AttachedFacts
<1>9. ASSUME NEW g \in Files, FileIs(entryNow, g), g.lines = Now.lines, g.open = Now.open, Ids(g) = Ids(Now),
             entrySafe' \in {entrySafe, entryNow}, faults' \in Nat, syncErr' \in [Managers -> BOOLEAN],
             owed' \subseteq owed,
             \A n \in Managers : at[n] \in {"writing", "flushing"} => (g.sick => Now.sick),
             Now' = g /\ NowFirm' = Firm(g) /\ NowSure' = Sure(g) => AckInv'
      PROVE  IInv' /\ NowIds' = NowIds
  <2>1. /\ inodes' \in Seq(Files) /\ entryNow' \in 0..Len(inodes') /\ entrySafe' \in 0..Len(inodes')
        /\ Now' = g /\ NowIds' = Ids(g) /\ NowFirm' = Firm(g) /\ NowSure' = Sure(g)
        /\ \/ SafeIds' = NowIds' /\ SafeSure' = NowSure'
           \/ SafeIds' = SafeIds /\ SafeSure' = SafeSure
    BY <1>1, <1>2, <1>3, <1>9, DiskTouched
  <2>2. NowIds' = NowIds BY <1>4, <1>9, <2>1
  <2>3. Now.lines' = Now.lines /\ Now.open' = Now.open BY <1>9, <2>1
  <2>4. FileKept BY <2>2, <2>3 DEF FileKept
  <2>5. TypeOK'
    <3>1. requests' \subseteq (Managers \cup {Nobody}) \X Nat BY <1>1, <1>2 DEF TypeOK
    <3> QED BY <1>1, <1>2, <1>9, <2>1, <3>1 DEF TypeOK
  <2>6. AckInv' BY <1>9, <2>1
  <2>7. Chained(NowIds', parent', LostOnes') BY <1>1, <1>7, <1>8, <2>2, HistorySame
  <2>8. /\ acked' \subseteq Made' /\ refused' \subseteq Made' /\ owed' \subseteq Made' /\ excused' \subseteq Made'
        /\ ToSet(NowIds') \subseteq Made' /\ ToSet(NowIds) \subseteq ToSet(NowIds')
    BY <1>1, <1>2, <1>8, <1>9, <2>2 DEF MadeInv
  <2>9. /\ \A q \in requests' : q[2] = entryNow /\ entryNow # 0
        /\ requests' # {} => ~Replaceable(Now.lines)'
        /\ requests = {} => requests' = {}
    BY <1>1, <1>2, <2>3 DEF PlaceInv, CurrentInv, Replaceable
  <2>10. \A n \in Managers \ {Nobody} : at[n] \in {"writing", "flushing"} => (Now.sick' => Now.sick) BY <1>9, <2>1
  <2>11. LostOnes \subseteq LostOnes' BY <1>7
  <2> DEFINE m == Nobody
  <2>12. m \in Managers \cup {Nobody} /\ m \notin Managers BY <1>5
  <2>13. IInv'
    BY <1>2, <1>5, <1>6, <1>8, <2>1, <2>2, <2>3, <2>4, <2>5, <2>6, <2>7, <2>8, <2>9, <2>10, <2>11, <2>12, OneMoves
  <2> QED BY <2>2, <2>13
<1>10. ASSUME FileIs(r[2], Flushed(inodes[r[2]])),
              owed' = IF inodes[r[2]].sick THEN owed
                      ELSE owed \ {line.id : line \in ToSet(inodes[r[2]].lines)},
              entrySafe' = NamedBy(r[2]), UNCHANGED <<syncErr, faults>>
       PROVE  IInv' /\ NowIds' = NowIds
  <2> DEFINE g == Flushed(Now)
  <2>1. /\ g \in Files /\ g.lines = Now.lines /\ g.open = Now.open /\ g.sick = Now.sick /\ Ids(g) = Ids(Now)
        /\ Firm(g) = Firm(Now) /\ Sure(Now) \subseteq Sure(g) /\ (~Now.sick => Sure(g) = Firm(Now))
    BY <1>4, FlushedFile
  <2>2. FileIs(entryNow, g) BY <1>3, <1>10 DEF Now
  <2> HIDE DEF g
  <2>3. entrySafe' = entryNow BY <1>3, <1>10, SoundFacts DEF NamedBy
  <2>4. owed' \subseteq owed /\ (Now.sick => owed' = owed) BY <1>3, <1>10 DEF Now
  <2>5. ASSUME Now' = g, NowFirm' = Firm(g), NowSure' = Sure(g) PROVE AckInv'
    <3>1. SafeSure' = NowSure' BY <1>2, <1>3, <2>3 DEF SafeSure, NowSure
    <3>2. NowFirm' = NowFirm /\ NowSure \subseteq NowSure' BY <1>4, <2>1, <2>5
    <3>3. CASE Now.sick
      <4>1. owed \subseteq owed' BY <2>4, <3>3
      <4> QED BY <1>1, <1>2, <3>1, <3>2, <4>1, AckStep
    <3>4. CASE ~Now.sick
      <4>1. NowSure' = NowFirm BY <1>4, <2>1, <2>5, <3>4
      <4> QED BY <1>1, <1>2, <3>1, <3>2, <4>1 DEF AckInv
    <3> QED BY <3>3, <3>4
  <2>6. syncErr' \in [Managers -> BOOLEAN] /\ faults' \in Nat BY <1>1, <1>10 DEF TypeOK
  <2>7. (Now' = g /\ NowFirm' = Firm(g) /\ NowSure' = Sure(g)) => AckInv' BY <2>5
  <2> QED BY <1>9, <2>1, <2>2, <2>3, <2>4, <2>6, <2>7
<1>11. ASSUME Fault("flush"), FileIs(r[2], [inodes[r[2]] EXCEPT !.sick = TRUE]),
              syncErr' = IF r[1] = Nobody THEN syncErr ELSE [syncErr EXCEPT ![r[1]] = TRUE],
              UNCHANGED <<owed, entrySafe>>
       PROVE  IInv' /\ NowIds' = NowIds
  <2> DEFINE g == [Now EXCEPT !.sick = TRUE]
  <2>1. /\ g \in Files /\ g.lines = Now.lines /\ g.open = Now.open /\ Ids(g) = Ids(Now)
        /\ Firm(g) = Firm(Now) /\ Sure(g) = Sure(Now)
    BY <1>4, FlushedFile
  <2>2. FileIs(entryNow, g) BY <1>3, <1>11 DEF Now
  <2> HIDE DEF g
  <2>3. "flush" \in setup.faults /\ faults' \in Nat BY <1>1, <1>11, FaultFacts
  <2>4. syncErr' \in [Managers -> BOOLEAN] BY <1>1, <1>11 DEF TypeOK
  <2>5. ASSUME NEW n \in Managers PROVE at[n] \notin {"writing", "flushing"}
    <3>1. PlaceOf(n) /\ CurrentOf(n) BY <1>1 DEF PlaceInv, CurrentInv
    <3>2. at[n] # "writing" BY <3>1 DEF CurrentOf, WhenWriting
    <3>3. at[n] # "flushing"
      <4> SUFFICES ASSUME at[n] = "flushing" PROVE FALSE OBVIOUS
      <4>1. n \in setup.managers BY <3>1 DEF PlaceOf
      <4>2. \A k \in setup.managers : k = n BY <2>3, <4>1, SoundFacts
      <4> QED BY <3>1, <4>2 DEF CurrentOf, WhenFlushing
    <3> QED BY <3>2, <3>3
  <2>6. ASSUME Now' = g, NowFirm' = Firm(g), NowSure' = Sure(g) PROVE AckInv'
    <3>1. NowFirm' = NowFirm /\ NowSure' = NowSure BY <1>4, <2>1, <2>6
    <3>2. SafeSure \subseteq SafeSure' \/ NowSure \subseteq SafeSure'
      <4>1. \/ SafeIds' = NowIds' /\ SafeSure' = NowSure'
            \/ SafeIds' = SafeIds /\ SafeSure' = SafeSure
        BY <1>1, <1>2, <1>3, <1>11, <2>1, <2>2, DiskTouched
      <4> QED BY <3>1, <4>1
    <3> QED BY <1>1, <1>2, <1>11, <3>1, <3>2, AckStep
  <2>7. (Now' = g /\ NowFirm' = Firm(g) /\ NowSure' = Sure(g)) => AckInv' BY <2>6
  <2>8. \A n \in Managers : at[n] \in {"writing", "flushing"} => (g.sick => Now.sick) BY <2>5
  <2>9. owed' \subseteq owed /\ entrySafe' \in {entrySafe, entryNow} BY <1>11
  <2> QED BY <1>9, <2>1, <2>2, <2>3, <2>4, <2>7, <2>8, <2>9
<1> QED BY <1>10, <1>11 DEF Sync

\* The process dies inside a write: the file is the longer by some of it, or has no more than it had.
LEMMA DieWritingKeeps ==
  ASSUME IInv, AllSound, NEW m \in Managers, DieWriting(m)
  PROVE  IInv' /\ Begins(NowIds, NowIds')
<1>1. TypeOK /\ MadeInv /\ PlaceInv /\ CurrentInv /\ HistoryInv /\ AckInv BY DEF IInv
<1>2. /\ Fault("cut") /\ Forget(m) /\ requests' = {r \in requests : r[1] # m}
      /\ UNCHANGED <<entryNow, entrySafe, acked, refused, owed, excused, losses, setup>>
  BY DEF DieWriting, past
<1>3. "cut" \in setup.faults /\ faults' \in Nat BY <1>1, <1>2, FaultFacts
<1>4. /\ Dropped(m) /\ \A n \in Managers \ {m} : Unmoved(n)
      /\ at' \in [Managers -> Points] /\ entries' \in [Managers -> Seq(Nat)] /\ leaf' \in [Managers -> Nat]
      /\ talked' \in [Managers -> BOOLEAN] /\ flushed' \in [Managers -> BOOLEAN]
      /\ fd' \in [Managers -> Nat] /\ syncErr' \in [Managers -> BOOLEAN]
  BY <1>1, <1>2, ForgetFacts
<1>5. PlaceOf(m)' /\ MemoryOf(m)' /\ CurrentOf(m)' /\ ToSet(entries'[m]) = {} BY <1>4, DroppedKept
<1>6. LostOnes \subseteq LostOnes'
  <2>1. \A n \in Managers : \/ entries'[n] = entries[n] /\ (flushed[n] => flushed'[n])
                            \/ entries'[n] = <<>>
    BY <1>4 DEF Unmoved, Dropped
  <2> QED BY <1>1, <1>2, <2>1, LostKept
<1>7. refused' \subseteq Made BY <1>1, <1>2 DEF MadeInv
<1>8. ASSUME inodes' \in Seq(Files), entryNow' \in 0..Len(inodes'), entrySafe' \in 0..Len(inodes'), parent' \in Seq(Nat)
      PROVE  TypeOK'
  <2>1. requests' \subseteq (Managers \cup {Nobody}) \X Nat BY <1>1, <1>2 DEF TypeOK
  <2> QED BY <1>1, <1>2, <1>3, <1>4, <1>8, <2>1 DEF TypeOK
<1>9. ASSUME at[m] = "writing", NEW g \in CutShort(inodes[fd[m]], FirstText(m)), FileIs(fd[m], g), UNCHANGED parent
      PROVE  IInv' /\ Begins(NowIds, NowIds')
  <2> DEFINE es == entries[m]
  <2>1. entryNow # 0 /\ fd[m] = entryNow /\ Now \in Files /\ Now.lines = <<>> /\ requests = {} /\ es \in Seq(Nat)
    BY <1>9, WritingFacts
  <2>2. FirstText(m) = Whole(es) BY DEF FirstText, Lines, Whole
  <2> HIDE DEF es
  <2>3. g \in Files /\ Begins(Ids(g), es)
    <3>1. g \in CutShort(Now, Whole(es)) BY <1>9, <2>1, <2>2 DEF Now
    <3> QED BY <2>1, <3>1, FirstCutShort
  <2>4. FileIs(entryNow, g) BY <1>9, <2>1
  <2>5. inodes' \in Seq(Files) /\ entryNow' \in 0..Len(inodes') /\ entrySafe' \in 0..Len(inodes')
    BY <1>1, <1>2, <2>1, <2>3, <2>4, DiskTouched
  <2>6. TypeOK' BY <1>1, <1>8, <1>9, <2>5 DEF TypeOK
  <2>7. requests' = {} BY <1>2, <2>1
  <2> QED BY <1>2, <1>4, <1>5, <1>6, <1>7, <1>9, <2>3, <2>4, <2>6, <2>7, FirstTextKeeps DEF es
<1>10. ASSUME at[m] = "idle", flushed[m], parent' = Append(parent, leaf[m]),
              NEW g \in CutShort(inodes[Handle(m)], <<Line(Len(parent) + 1)>>), FileIs(Handle(m), g)
       PROVE  IInv' /\ Begins(NowIds, NowIds')
  <2> DEFINE e == Len(parent) + 1
  <2>1. /\ Handle(m) = entryNow /\ entryNow # 0
        /\ Now \in Files /\ NowIds = Ids(Now) /\ NowFirm = Firm(Now) /\ NowSure = Sure(Now) /\ NowIds \in Seq(Nat)
        /\ Headed(Now.lines) /\ ~Now.open /\ ~Replaceable(Now.lines)
    BY <1>10, AppendingFacts
  <2>2. /\ parent \in Seq(Nat) /\ leaf[m] \in Nat /\ e \in Nat /\ leaf[m] \in Nat BY <1>1 DEF TypeOK
  <2>3. parent' \in Seq(Nat) /\ Len(parent') = e
    <3>1. Append(parent, leaf[m]) \in Seq(Nat) /\ Len(Append(parent, leaf[m])) = Len(parent) + 1 BY <2>2
    <3> QED BY <1>10, <3>1
  <2>4. Attached /\ Made \subseteq Made' BY <1>1, <1>10, <2>2, AttachedFacts
  <2>5. e \in Made' BY <2>2, <2>3 DEF Made
  <2>6. g \in CutShort(Now, <<Line(e)>>) /\ FileIs(entryNow, g) BY <1>10, <2>1 DEF Now
  <2>7. e = Len(parent) + 1 OBVIOUS
  <2> HIDE DEF e
  <2>8. /\ g \in Files /\ Headed(g.lines) /\ g.lines[1] = Now.lines[1]
        /\ Ids(g) = Ids(Now) \/ Ids(g) = Append(Ids(Now), e)
        /\ Firm(Now) \subseteq Firm(g) /\ Sure(Now) \subseteq Sure(g)
        /\ ~Replaceable(Now.lines) => ~Replaceable(g.lines)
    BY <2>1, <2>2, <2>6, AppendCutShort
  <2>9. /\ inodes' \in Seq(Files) /\ entryNow' \in 0..Len(inodes') /\ entrySafe' \in 0..Len(inodes')
        /\ Now' = g /\ NowIds' = Ids(g) /\ NowFirm' = Firm(g) /\ NowSure' = Sure(g)
        /\ \/ SafeIds' = NowIds' /\ SafeSure' = NowSure'
           \/ SafeIds' = SafeIds /\ SafeSure' = SafeSure
    BY <1>1, <1>2, <2>1, <2>6, <2>8, DiskTouched
  <2>10. TypeOK' BY <1>8, <2>3, <2>9
  <2>11. \/ NowIds' = NowIds
         \/ NowIds' = Append(NowIds, e)
    BY <2>1, <2>8, <2>9
  <2>12. Begins(NowIds, NowIds') /\ ToSet(NowIds') \subseteq ToSet(NowIds) \cup {e} /\ ToSet(NowIds) \subseteq ToSet(NowIds')
    <3>1. CASE NowIds' = NowIds BY <2>1, <3>1, BeginsFacts
    <3>2. CASE NowIds' = Append(NowIds, e) BY <2>1, <2>2, <3>2, BeginsFacts
    <3> QED BY <2>11, <3>1, <3>2
  <2>13. Chained(NowIds', parent', LostOnes')
    <3>1. CASE NowIds' = NowIds BY <1>1, <1>6, <2>4, <3>1, HistorySame
    <3>2. CASE NowIds' = Append(NowIds, e) BY <1>6, <1>10, <2>7, <3>2, ChainedNext
    <3> QED BY <2>11, <3>1, <3>2
  <2>14. AckInv'
    <3>1. NowFirm \subseteq NowFirm' /\ NowSure \subseteq NowSure' BY <2>1, <2>8, <2>9
    <3> QED BY <1>1, <1>2, <2>9, <3>1, AckStep
  <2>15. \A n \in Managers \ {m} : Unmoved(n) /\ ~flushed[n] /\ Away(n)
    <3> TAKE n \in Managers \ {m}
    <3>1. at[m] # "closed" BY <1>10
    <3>2. at[n] = "closed" /\ ~flushed[n] BY <1>3, <3>1, OnlyOne
    <3> QED BY <1>4, <3>2 DEF Away
  <2>16. /\ \A r \in requests' : r[2] = entryNow' /\ entryNow' # 0
         /\ requests' # {} => ~Replaceable(Now.lines)'
    BY <1>1, <1>2, <2>1, <2>8, <2>9 DEF PlaceInv
  <2>17. /\ acked' \subseteq Made' /\ refused' \subseteq Made' /\ owed' \subseteq Made' /\ excused' \subseteq Made'
         /\ ToSet(NowIds') \subseteq Made' /\ ToSet(entries'[m]) \subseteq Made'
    BY <1>1, <1>2, <1>5, <2>4, <2>5, <2>12 DEF MadeInv
  <2>18. IInv' BY <1>2, <1>5, <1>6, <2>4, <2>9, <2>10, <2>12, <2>13, <2>14, <2>15, <2>16, <2>17, OneMovesAlone
  <2> QED BY <2>12, <2>18
<1> QED BY <1>2, <1>9, <1>10 DEF DieWriting

\* What a power loss leaves is the beginning of one of two files, of which both had in flushed lines
\* what has to be there afterwards.
LEMMA PowerLossKeeps ==
  ASSUME IInv, PowerLoss
  PROVE  IInv'
<1>1. TypeOK /\ MadeInv /\ HistoryInv /\ AckInv BY DEF IInv
<1>2. /\ UNCHANGED <<parent, acked, refused, setup>> /\ requests' = {} /\ owed' = {} /\ excused' = excused \cup owed
      /\ entryNow' = Len(inodes') /\ entrySafe' = Len(inodes') /\ losses' = losses + 1
      /\ at' = [m \in Managers |-> "closed"] /\ entries' = [m \in Managers |-> <<>>] /\ leaf' = [m \in Managers |-> 0]
      /\ talked' = [m \in Managers |-> FALSE] /\ flushed' = [m \in Managers |-> FALSE]
      /\ fd' = [m \in Managers |-> 0] /\ syncErr' = [m \in Managers |-> FALSE]
  BY DEF PowerLoss
<1>3. PICK i \in {entryNow, entrySafe} :
        IF i = 0
        THEN inodes' = <<>>
        ELSE \E f \in Survivors(inodes[i]) : inodes' = <<[f EXCEPT !.synced = Len(f.lines), !.sick = FALSE]>>
  BY DEF PowerLoss
<1> DEFINE ids == IF i = 0 THEN <<>> ELSE Ids(inodes[i])
           sure == IF i = 0 THEN {} ELSE Sure(inodes[i])
<1>4. /\ (ids = NowIds /\ sure = NowSure) \/ (ids = SafeIds /\ sure = SafeSure)
      /\ i # 0 => inodes[i] \in Files
      /\ i # 0 => ids = Ids(inodes[i]) /\ sure = Sure(inodes[i])
      /\ i = 0 => sure = {}
  <2>1. CASE i = entryNow BY <1>1, <2>1, ListTypes DEF NowIds, NowSure, Now
  <2>2. CASE i = entrySafe BY <1>1, <2>2, ListTypes DEF SafeIds, SafeSure
  <2> QED BY <2>1, <2>2
<1> HIDE DEF ids, sure
<1>5. /\ ids \in Seq(Nat) /\ ToSet(ids) \subseteq Made /\ Chained(ids, parent, LostOnes)
      /\ acked \ (excused \cup owed) \subseteq sure /\ parent \in Seq(Nat)
  <2>1. NowIds \in Seq(Nat) /\ SafeIds \in Seq(Nat) /\ parent \in Seq(Nat) BY <1>1, ListTypes DEF TypeOK
  <2> QED BY <1>1, <1>4, <2>1 DEF MadeInv, HistoryInv, AckInv
<1>6. /\ inodes' \in Seq(Files) /\ Len(inodes') \in Nat
      /\ NowIds' \in Seq(Nat) /\ SafeIds' = NowIds' /\ SafeSure' = NowSure' /\ Begins(NowIds', ids)
      /\ sure \subseteq NowSure' /\ NowSure' \subseteq NowFirm'
  <2>1. SafeIds' = NowIds' /\ SafeSure' = NowSure' BY <1>2 DEF NowIds, SafeIds, NowSure, SafeSure
  <2>2. CASE i = 0
    <3>1. inodes' = <<>> /\ <<>> \in Seq(Files) BY <1>3, <2>2
    <3>2. Len(inodes') = 0 BY <3>1
    <3>3. NowIds' = <<>> /\ NowSure' = {} /\ NowFirm' = {} BY <1>2, <3>2 DEF NowIds, NowSure, NowFirm
    <3>4. Begins(<<>>, ids) /\ <<>> \in Seq(Nat) BY <1>5, BeginsFacts
    <3> QED BY <1>4, <2>1, <2>2, <3>1, <3>2, <3>3, <3>4
  <2>3. ASSUME i # 0, NEW f \in Survivors(inodes[i]),
               inodes' = <<[f EXCEPT !.synced = Len(f.lines), !.sick = FALSE]>>
        PROVE  /\ inodes' \in Seq(Files) /\ Len(inodes') \in Nat
               /\ NowIds' \in Seq(Nat) /\ Begins(NowIds', ids)
               /\ sure \subseteq NowSure' /\ NowSure' \subseteq NowFirm'
    <3> DEFINE h == [f EXCEPT !.synced = Len(f.lines), !.sick = FALSE]
    <3>1. h \in Files /\ Begins(Ids(h), ids) /\ sure \subseteq Sure(h) BY <1>4, <2>3, SurvivingFile
    <3>2. inodes' = <<h>> BY <2>3
    <3> HIDE DEF h
    <3>3. inodes' \in Seq(Files) /\ Len(inodes') = 1 /\ inodes'[1] = h BY <3>1, <3>2
    <3>4. NowIds' = Ids(h) /\ NowSure' = Sure(h) /\ NowFirm' = Firm(h)
      BY <1>2, <3>3 DEF NowIds, NowSure, NowFirm
    <3> QED BY <3>1, <3>3, <3>4, FileFacts
  <2> QED BY <1>3, <2>1, <2>2, <2>3
<1>7. /\ \A n \in Managers : Dropped(n) BY <1>2 DEF Dropped
<1>8. TypeOK'
  <2>1. <<>> \in Seq(Nat) /\ "closed" \in Points BY DEF Points
  <2>2. /\ at' \in [Managers -> Points] /\ entries' \in [Managers -> Seq(Nat)] /\ leaf' \in [Managers -> Nat]
        /\ talked' \in [Managers -> BOOLEAN] /\ flushed' \in [Managers -> BOOLEAN]
        /\ fd' \in [Managers -> Nat] /\ syncErr' \in [Managers -> BOOLEAN]
    BY <1>2, <2>1
  <2>3. entryNow' \in 0..Len(inodes') /\ entrySafe' \in 0..Len(inodes') BY <1>2, <1>6
  <2>4. faults' \in Nat /\ losses' \in Nat
    <3>1. Fault("power") BY DEF PowerLoss
    <3>2. faults' \in Nat BY <1>1, <3>1, FaultFacts
    <3>3. losses' \in Nat BY <1>1, <1>2 DEF TypeOK
    <3> QED BY <3>2, <3>3
  <2> QED BY <1>1, <1>2, <1>6, <2>2, <2>3, <2>4 DEF TypeOK
<1>9. LostOnes \subseteq LostOnes'
  <2>1. \A n \in Managers : entries'[n] = <<>> BY <1>2
  <2> QED BY <1>1, <1>2, <2>1, LostKept
<1>10. HistoryInv'
  <2>1. Chained(NowIds', parent, LostOnes') BY <1>5, <1>6, <1>9, ChainedKept DEF Made
  <2> QED BY <1>2, <1>6, <2>1 DEF HistoryInv
<1>11. MadeInv'
  <2>1. ToSet(NowIds') \subseteq Made BY <1>5, <1>6, BeginsFacts
  <2>2. Made' = Made BY <1>2 DEF Made
  <2>3. \A n \in Managers : ToSet(entries'[n]) = {} BY <1>7, DroppedKept
  <2> QED BY <1>1, <1>2, <1>6, <2>1, <2>2, <2>3 DEF MadeInv
<1>12. AckInv' BY <1>2, <1>5, <1>6 DEF AckInv
<1>13. PlaceInv' /\ CurrentInv' /\ MemoryInv'
  <2>1. \A n \in Managers : PlaceOf(n)' /\ MemoryOf(n)' /\ CurrentOf(n)' BY <1>7, DroppedKept
  <2> QED BY <1>2, <2>1 DEF PlaceInv, CurrentInv, MemoryInv
<1> QED BY <1>8, <1>10, <1>11, <1>12, <1>13 DEF IInv

-----------------------------------------------------------------------------
(* The whole. *)

\* A file there is to begin with: a header of either version and one entry, flushed.
LEMMA FirstFiles ==
  ASSUME NEW h \in Headers
  PROVE  LET f == Flushed(NewFile(<<h, Line(1)>>))
         IN  f \in Files /\ Ids(f) = << 1 >> /\ Firm(f) = {1} /\ Sure(f) = {1}
<1> DEFINE ls == <<h, Line(1)>>
           f == Flushed(NewFile(ls))
<1>1. Line(1) \in EntryLine /\ Line(1) \in Text /\ h \in Text /\ h \notin EntryLine /\ 1 \in Nat
  <2>1. Header \in Text /\ OldHeader \in Text /\ Header \notin EntryLine /\ OldHeader \notin EntryLine BY TextFacts
  <2>2. Line(1) \in EntryLine /\ Line(1) \in Text BY TextFacts
  <2> QED BY <2>1, <2>2 DEF Headers
<1>2. ls \in Seq(Text) /\ Len(ls) = 2 /\ ls[1] = h /\ ls[2] = Line(1) /\ ls # <<>> BY <1>1
<1>3. IdsOf(ls) = << 1 >>
  <2> DEFINE none == <<>>
             one == <<h>>
  <2>1. none \in Seq(Text) /\ one \in Seq(Text) /\ Append(none, h) = one /\ Append(one, Line(1)) = ls
    <3> DEFINE l == Line(1)
    <3>1. h \in Text /\ l \in Text BY <1>1
    <3> HIDE DEF l
    <3>2. <<>> \in Seq(Text) /\ <<h>> \in Seq(Text) BY <3>1
    <3>3. Append(<<>>, h) = <<h>> OBVIOUS
    <3>4. Append(<<h>>, l) = <<h, l>>
      <4> DEFINE a == Append(<<h>>, l)
                 b == <<h, l>>
      <4>1. a \in Seq(Text) /\ Len(a) = 2 /\ a[1] = h /\ a[2] = l BY <3>1, <3>2
      <4>2. b \in Seq(Text) /\ Len(b) = 2 /\ b[1] = h /\ b[2] = l BY <3>1
      <4> HIDE DEF a, b
      <4>3. \A i \in 1..Len(a) : i = 1 \/ i = 2 BY <4>1
      <4>4. a = b BY <4>1, <4>2, <4>3, SeqEqual
      <4> QED BY <4>4 DEF a, b
    <3> QED BY <3>2, <3>3, <3>4 DEF l
  <2>2. IdsOf(none) = <<>>
    <3>1. <<>> \in Seq(Text) OBVIOUS
    <3> QED BY <3>1, IdsSteps
  <2> HIDE DEF none, one, ls
  <2>3. IdsOf(one) = <<>> BY <1>1, <2>1, <2>2, IdsSteps
  <2>4. IdsOf(ls) = Append(<<>>, 1)
    <3>1. IdsOf(Append(one, Line(1))) = Append(IdsOf(one), 1) BY <1>1, <2>1, IdsSteps
    <3> QED BY <2>1, <2>3, <3>1
  <2> QED BY <2>4
<1> HIDE DEF ls
<1>4. f \in FileRecord /\ f.lines = ls /\ f.open = FALSE /\ f.synced = Len(ls)
  <2>1. Len(ls) \in Nat BY <1>2
  <2> QED BY <1>2, <2>1 DEF Flushed, NewFile, FileRecord
<1> HIDE DEF f
<1>5. Shape(ls)
  <2>1. \A i \in 2..Len(ls) : i = 2 BY <1>2
  <2>2. Body(ls) BY <1>1, <1>2, <2>1 DEF Body
  <2>3. Headed(ls) BY <1>2 DEF Headed
  <2> QED BY <2>2, <2>3 DEF Shape
<1>6. f \in Files
  <2>1. f.synced <= Len(f.lines)
    <3>1. Len(ls) \in Nat BY <1>2
    <3> QED BY <1>4, <3>1
  <2>2. Shape(f.lines) BY <1>4, <1>5
  <2>3. ~f.open BY <1>4
  <2>4. f \in FileRecord BY <1>4
  <2> QED BY <2>1, <2>2, <2>3, <2>4 DEF Files
<1>7. Ids(f) = << 1 >> BY <1>3, <1>4 DEF Ids
<1>8. ToSet(<< 1 >>) = {1}
  <2> DEFINE none == <<>>
  <2>1. none \in Seq(Nat) /\ ToSet(none) = {} /\ Append(none, 1) = << 1 >> BY ToSetFacts
  <2> HIDE DEF none
  <2>2. ToSet(Append(none, 1)) = ToSet(none) \cup {1} BY <2>1, BeginsFacts
  <2> QED BY <2>1, <2>2
<1>9. Firm(f) = {1} BY <1>4, <1>6, <1>7, <1>8, FileFacts
<1>10. Sure(f) = Firm(f) BY <1>4 DEF Sure, Firm
<1> QED BY <1>6, <1>7, <1>9, <1>10 DEF f, ls

\* The files that a path may name to begin with: none, an empty one, and an earlier session.
LEMMA InitIInv ==
  ASSUME Init
  PROVE  IInv
<1>1. PICK d \in setup.disks :
        /\ inodes = CASE d = "missing" -> <<>>
                      [] d = "empty"   -> <<NewFile(<<>>)>>
                      [] d = "old"     -> <<Flushed(NewFile(<<OldHeader, Line(1)>>))>>
                      [] d = "current" -> <<Flushed(NewFile(<<Header, Line(1)>>))>>
        /\ parent = IF d \in {"old", "current"} THEN << 0 >> ELSE <<>>
        /\ acked = IF d \in {"old", "current"} THEN {1} ELSE {}
  BY DEF Init
<1>2. /\ setup \in Setups /\ entryNow = Len(inodes) /\ entrySafe = Len(inodes)
      /\ at = [m \in Managers |-> "closed"] /\ entries = [m \in Managers |-> <<>>] /\ leaf = [m \in Managers |-> 0]
      /\ talked = [m \in Managers |-> FALSE] /\ flushed = [m \in Managers |-> FALSE]
      /\ fd = [m \in Managers |-> 0] /\ syncErr = [m \in Managers |-> FALSE]
      /\ requests = {} /\ refused = {} /\ owed = {} /\ excused = {} /\ faults = 0 /\ losses = 0
  BY DEF Init
<1>3. d \in {"missing", "empty", "old", "current"}
  <2>1. setup.disks \subseteq {"missing", "empty", "old", "current"} BY <1>2, SetupsAssumption DEF Setup
  <2> QED BY <2>1
<1>4. ToSet(<<>>) = {} BY ToSetFacts
<1>5. /\ inodes \in Seq(Files) /\ Len(inodes) \in Nat /\ parent \in Seq(Nat)
      /\ ToSet(NowIds) \subseteq Made /\ acked \subseteq Made /\ Chained(NowIds, parent, LostOnes)
      /\ acked \subseteq NowSure /\ NowSure \subseteq NowFirm
  <2>1. CASE d = "missing"
    <3>1. inodes = <<>> /\ parent = <<>> /\ acked = {} BY <1>1, <2>1
    <3>2. Len(inodes) = 0 /\ inodes \in Seq(Files) /\ parent \in Seq(Nat) BY <3>1
    <3>3. NowIds = <<>> /\ NowSure = {} /\ NowFirm = {} BY <1>2, <3>2 DEF NowIds, NowSure, NowFirm
    <3> QED BY <1>4, <3>1, <3>2, <3>3 DEF Chained
  <2>2. ASSUME NEW f \in Files, inodes = <<f>> PROVE
            /\ inodes \in Seq(Files) /\ Len(inodes) = 1
            /\ NowIds = Ids(f) /\ NowSure = Sure(f) /\ NowFirm = Firm(f)
    <3>1. inodes \in Seq(Files) /\ Len(inodes) = 1 /\ inodes[1] = f BY <2>2
    <3> QED BY <1>2, <3>1 DEF NowIds, NowSure, NowFirm
  <2>3. CASE d = "empty"
    <3> DEFINE f == NewFile(<<>>)
    <3>1. inodes = <<f>> /\ parent = <<>> /\ acked = {} BY <1>1, <2>3
    <3>2. f \in Files /\ Ids(f) = <<>> /\ Firm(f) = {} /\ Sure(f) = {} BY NewFiles, FileFacts
    <3> HIDE DEF f
    <3>3. /\ inodes \in Seq(Files) /\ Len(inodes) = 1 /\ NowIds = <<>> /\ NowSure = {} /\ NowFirm = {}
      BY <2>2, <3>1, <3>2
    <3>4. parent \in Seq(Nat) BY <3>1
    <3> QED BY <1>4, <3>1, <3>3, <3>4 DEF Chained
  <2>4. ASSUME NEW h \in Headers, inodes = <<Flushed(NewFile(<<h, Line(1)>>))>>, parent = << 0 >>, acked = {1}
        PROVE  /\ inodes \in Seq(Files) /\ Len(inodes) \in Nat /\ parent \in Seq(Nat)
               /\ ToSet(NowIds) \subseteq Made /\ acked \subseteq Made /\ Chained(NowIds, parent, LostOnes)
               /\ acked \subseteq NowSure /\ NowSure \subseteq NowFirm
    <3> DEFINE f == Flushed(NewFile(<<h, Line(1)>>))
    <3>1. f \in Files /\ Ids(f) = << 1 >> /\ Firm(f) = {1} /\ Sure(f) = {1} BY FirstFiles
    <3>2. inodes = <<f>> BY <2>4
    <3> HIDE DEF f
    <3>3. /\ inodes \in Seq(Files) /\ Len(inodes) = 1 /\ NowIds = << 1 >> /\ NowSure = {1} /\ NowFirm = {1}
      BY <2>2, <3>1, <3>2
    <3>4. parent \in Seq(Nat) /\ Len(parent) = 1 /\ parent[1] = 0 BY <2>4
    <3>5. Made = {1} BY <3>4 DEF Made
    <3>6. ToSet(NowIds) \subseteq {1}
      <4>1. NowIds \in Seq(Nat) /\ Len(NowIds) = 1 /\ NowIds[1] = 1 BY <3>3
      <4>2. ToSet(NowIds) = {NowIds[i] : i \in 1..Len(NowIds)} BY <4>1, ToSetFacts
      <4> QED BY <4>1, <4>2
    <3>7. Chained(NowIds, parent, LostOnes)
      <4>1. Len(NowIds) = 1 /\ NowIds[1] = 1 BY <3>3
      <4>2. \A i \in 1..Len(NowIds) : parent[NowIds[i]] = 0 BY <3>4, <4>1
      <4> QED BY <4>2 DEF Chained
    <3> QED BY <2>4, <3>3, <3>4, <3>5, <3>6, <3>7
  <2>5. CASE d = "old"
    <3>1. /\ inodes = <<Flushed(NewFile(<<OldHeader, Line(1)>>))>> /\ parent = << 0 >> /\ acked = {1}
          /\ OldHeader \in Headers
      BY <1>1, <2>5 DEF Headers
    <3> QED BY <2>4, <3>1
  <2>6. CASE d = "current"
    <3>1. /\ inodes = <<Flushed(NewFile(<<Header, Line(1)>>))>> /\ parent = << 0 >> /\ acked = {1}
          /\ Header \in Headers
      BY <1>1, <2>6 DEF Headers
    <3> QED BY <2>4, <3>1
  <2> QED BY <1>3, <2>1, <2>3, <2>5, <2>6
<1>6. SafeIds = NowIds /\ SafeSure = NowSure BY <1>2 DEF SafeIds, NowIds, SafeSure, NowSure
<1>7. TypeOK
  <2>1. <<>> \in Seq(Nat) /\ "closed" \in Points BY DEF Points
  <2> QED BY <1>2, <1>5, <2>1 DEF TypeOK
<1>8. MadeInv
  <2>1. \A m \in Managers : ToSet(entries[m]) = {} BY <1>2, <1>4
  <2> QED BY <1>2, <1>5, <1>6, <2>1 DEF MadeInv
<1>9. PlaceInv BY <1>2 DEF PlaceInv, PlaceOf
<1>10. CurrentInv
  BY <1>2 DEF CurrentInv, CurrentOf, WhenFlushed, WhenIdle, WhenWriting, WhenFlushing, WhenReplacing
<1>11. MemoryInv
  <2>1. Chained(<<>>, parent, {}) BY DEF Chained
  <2> QED BY <1>2, <2>1 DEF MemoryInv, MemoryOf
<1>12. HistoryInv BY <1>5, <1>6 DEF HistoryInv
<1>13. AckInv BY <1>5, <1>6 DEF AckInv
<1> QED BY <1>7, <1>8, <1>9, <1>10, <1>11, <1>12, <1>13 DEF IInv

\* Every step keeps the invariant, and every one but a power loss keeps what the file lists.
LEMMA NextKeeps ==
  ASSUME IInv, AllSound, [Next]_vars
  PROVE  IInv' /\ (PowerLoss \/ Begins(NowIds, NowIds'))
<1>1. NowIds \in Seq(Nat) BY ListTypes DEF IInv
<1>2. Begins(NowIds, NowIds) BY <1>1, BeginsFacts
<1>3. CASE UNCHANGED vars
  <2>1. UNCHANGED disk /\ UNCHANGED vars BY <1>3 DEF vars
  <2>2. NowIds' = NowIds BY <2>1, DiskUnchanged
  <2>3. IInv' = IInv
    <3>1. /\ UNCHANGED <<inodes, entryNow, entrySafe, at, entries, leaf, talked, flushed, fd, syncErr, requests, parent>>
          /\ UNCHANGED <<acked, refused, owed, excused, faults, losses, setup>>
      BY <1>3 DEF vars, disk, manager, past
    <3> QED BY <3>1
          DEF IInv, TypeOK, MadeInv, PlaceInv, PlaceOf, CurrentInv, CurrentOf, WhenFlushed, WhenIdle, WhenWriting,
              WhenFlushing, WhenReplacing, Spared, Away, MemoryInv, MemoryOf, HistoryInv, AckInv, LostOnes, Made, Now,
              NowIds, NowFirm, NowSure, SafeIds, SafeSure
  <2> QED BY <1>2, <2>2, <2>3
<1>4. ASSUME NEW m \in Managers,
             \/ OpenMissing(m) \/ OpenEmpty(m) \/ OpenFile(m) \/ Replace(m) \/ NameFile(m) \/ OpenFails(m)
             \/ AppendSetup(m) \/ BeginFirstFlush(m) \/ Create(m) \/ SyncFirst(m) \/ Navigate(m) \/ Close(m) \/ Kill(m)
      PROVE  IInv' /\ NowIds' = NowIds
  BY <1>4, OpenMissingKeeps, OpenEmptyKeeps, OpenFileKeeps, ReplaceKeeps, NameFileKeeps, OpenFailsKeeps, AppendSetupKeeps,
     BeginFirstFlushKeeps, CreateKeeps, SyncFirstKeeps, NavigateKeeps, CloseKeeps, KillKeeps
<1>5. ASSUME NEW m \in Managers, WriteFirst(m) \/ AppendLine(m) \/ DieWriting(m) PROVE IInv' /\ Begins(NowIds, NowIds')
  BY <1>5, WriteFirstKeeps, AppendLineKeeps, DieWritingKeeps
<1>6. ASSUME NEW r \in requests, Sync(r) PROVE IInv' /\ NowIds' = NowIds BY <1>6, SyncKeeps
<1>7. CASE PowerLoss BY <1>7, PowerLossKeeps
<1>8. CASE \E m \in Managers :
             \/ OpenMissing(m) \/ OpenEmpty(m) \/ OpenFile(m) \/ Replace(m) \/ NameFile(m)
             \/ OpenFails(m) \/ AppendSetup(m) \/ BeginFirstFlush(m) \/ Create(m) \/ WriteFirst(m)
             \/ SyncFirst(m) \/ AppendLine(m) \/ Navigate(m) \/ Close(m) \/ Kill(m) \/ DieWriting(m)
  BY <1>2, <1>4, <1>5, <1>8
<1>9. CASE \E r \in requests : Sync(r) BY <1>2, <1>6, <1>9
<1> QED BY <1>3, <1>7, <1>8, <1>9 DEF Next

\* What the reader gets to is never less: short of a power loss the file grows, or is replaced by one
\* that is read to its end.
LEMMA LinesGrow ==
  ASSUME IInv, AllSound, [Next]_vars, ~PowerLoss, entryNow # 0
  PROVE  entryNow' # 0 /\ (Begins(Now.lines, Now.lines') \/ Cut \notin ToSet(Now.lines'))
<1>1. /\ TypeOK /\ Now \in Files /\ Now.lines \in Seq(Text) /\ Len(Now.lines) \in Nat
      /\ Begins(Now.lines, Now.lines)
  <2>1. TypeOK /\ Now \in Files BY ListTypes DEF IInv
  <2>2. Now.lines \in Seq(Text) /\ Len(Now.lines) \in Nat BY <2>1, FileFacts
  <2> QED BY <2>1, <2>2 DEF Begins
<1>2. ASSUME NEW g, FileIs(entryNow, g), entryNow' = entryNow, Begins(Now.lines, g.lines)
      PROVE  entryNow' # 0 /\ Begins(Now.lines, Now.lines')
  <2>1. inodes \in Seq(Files) /\ entryNow \in 1..Len(inodes) BY <1>1 DEF TypeOK
  <2>2. inodes' = [inodes EXCEPT ![entryNow] = g] BY <1>2 DEF FileIs
  <2>3. Now' = g BY <1>2, <2>1, <2>2 DEF Now
  <2> QED BY <1>2, <2>3
<1>3. ASSUME NEW g, FileIs(entryNow, g), entryNow' = entryNow, g.lines = Now.lines
      PROVE  entryNow' # 0 /\ Begins(Now.lines, Now.lines')
  BY <1>1, <1>2, <1>3
<1>4. ASSUME inodes' = inodes, entryNow' = entryNow PROVE entryNow' # 0 /\ Begins(Now.lines, Now.lines')
  <2>1. Now' = Now BY <1>4 DEF Now
  <2> QED BY <1>1, <1>4, <2>1
<1>5. Terminated(Now).lines = Now.lines /\ Flushed(Now).lines = Now.lines /\ [Now EXCEPT !.sick = TRUE].lines = Now.lines
  BY <1>1, TerminatedFile, FlushedFile
<1>6. ASSUME NEW m \in Managers,
             \/ OpenMissing(m) \/ OpenEmpty(m) \/ NameFile(m) \/ OpenFails(m) \/ AppendSetup(m) \/ BeginFirstFlush(m)
             \/ Create(m) \/ Navigate(m) \/ Close(m) \/ Kill(m)
      PROVE  inodes' = inodes /\ entryNow' = entryNow
  BY <1>6 DEF OpenMissing, OpenEmpty, NameFile, OpenFails, AppendSetup, BeginFirstFlush, Create, Navigate, Close, Kill,
              disk
<1>7. ASSUME NEW m \in Managers, OpenFile(m) PROVE entryNow' # 0 /\ Begins(Now.lines, Now.lines')
  <2>1. FileIs(entryNow, Terminated(Now)) /\ entryNow' = entryNow BY <1>7 DEF OpenFile, Now
  <2> QED BY <1>3, <1>5, <2>1
<1>8. ASSUME NEW m \in Managers, Replace(m) PROVE entryNow' # 0 /\ Cut \notin ToSet(Now.lines')
  <2> DEFINE w == Whole(entries[m])
             g == Flushed(NewFile(w))
  <2>1. entries[m] \in Seq(Nat) BY <1>1 DEF TypeOK
  <2>2. /\ w \in Seq(Text) /\ w[1] = Header /\ \A i \in 2..Len(w) : w[i] \in EntryLine
    BY <2>1, WholeText
  <2>3. g \in Files /\ g.lines = w BY <2>1, NewFiles
  <2>4. inodes' = Append(inodes, g) /\ entryNow' = Len(inodes') /\ entrySafe' = entrySafe BY <1>8 DEF Replace, Whole
  <2> HIDE DEF w, g
  <2>5. entryNow' # 0 /\ Now' = g BY <1>1, <2>3, <2>4, DiskReplaced
  <2>6. Cut \notin ToSet(w)
    <3>1. ToSet(w) = {w[i] : i \in 1..Len(w)} /\ Len(w) \in Nat BY <2>2, ToSetFacts
    <3>2. \A i \in 1..Len(w) : i = 1 \/ i \in 2..Len(w) BY <3>1
    <3>3. Header # Cut /\ Cut \notin EntryLine BY TextFacts
    <3> QED BY <2>2, <3>1, <3>2, <3>3
  <2> QED BY <2>3, <2>5, <2>6
<1>9. ASSUME NEW m \in Managers, at[m] = "writing", NEW g, FileIs(fd[m], g), entryNow' = entryNow
      PROVE  entryNow' # 0 /\ Begins(Now.lines, Now.lines')
  <2>1. fd[m] = entryNow /\ Now.lines = <<>> BY <1>9, WritingFacts
  <2>2. inodes \in Seq(Files) /\ entryNow \in 1..Len(inodes) BY <1>1 DEF TypeOK
  <2>3. inodes' = [inodes EXCEPT ![entryNow] = g] BY <1>9, <2>1 DEF FileIs
  <2>4. Now' = g BY <1>9, <2>2, <2>3 DEF Now
  <2> QED BY <1>9, <2>1, <2>4 DEF Begins
<1>10. ASSUME NEW m \in Managers, WriteFirst(m)
       PROVE  entryNow' # 0 /\ Begins(Now.lines, Now.lines')
  <2>1. at[m] = "writing" /\ entryNow' = entryNow /\ (inodes' = inodes \/ \E g : FileIs(fd[m], g))
    BY <1>10 DEF WriteFirst
  <2> QED BY <1>4, <1>9, <2>1
<1>11. ASSUME NEW m \in Managers, SyncFirst(m)
       PROVE  entryNow' # 0 /\ Begins(Now.lines, Now.lines')
  <2>1. fd[m] = entryNow
    <3>1. PlaceOf(m) /\ at[m] = "flushing" BY <1>11 DEF IInv, PlaceInv, SyncFirst
    <3> QED BY <3>1 DEF PlaceOf
  <2>2. entryNow' = entryNow /\ (FileIs(entryNow, Flushed(Now)) \/ FileIs(entryNow, [Now EXCEPT !.sick = TRUE]))
    BY <1>11, <2>1 DEF SyncFirst, Now
  <2> QED BY <1>3, <1>5, <2>2
<1>12. ASSUME NEW m \in Managers, flushed[m], at[m] = "idle", NEW e \in Nat, entryNow' = entryNow,
              FileIs(Handle(m), Written(inodes[Handle(m)], <<Line(e)>>))
                \/ \E g \in CutShort(inodes[Handle(m)], <<Line(e)>>) : FileIs(Handle(m), g)
       PROVE  entryNow' # 0 /\ Begins(Now.lines, Now.lines')
  <2>1. Handle(m) = entryNow /\ Headed(Now.lines) /\ ~Now.open BY <1>12, AppendingFacts
  <2>2. Begins(Now.lines, Written(Now, <<Line(e)>>).lines) BY <1>1, <2>1, AppendedFile
  <2>3. \A g \in CutShort(Now, <<Line(e)>>) : Begins(Now.lines, g.lines) BY <1>1, <2>1, AppendCutShort
  <2>4. \/ FileIs(entryNow, Written(Now, <<Line(e)>>)) \/ \E g \in CutShort(Now, <<Line(e)>>) : FileIs(entryNow, g)
    BY <1>12, <2>1 DEF Now
  <2> QED BY <1>2, <1>12, <2>2, <2>3, <2>4
<1>13. Len(parent) + 1 \in Nat BY <1>1 DEF TypeOK
<1>14. ASSUME NEW m \in Managers, AppendLine(m)
       PROVE  entryNow' # 0 /\ Begins(Now.lines, Now.lines')
  <2>1. flushed[m] /\ at[m] = "idle" /\ entryNow' = entryNow BY <1>14 DEF AppendLine, Push
  <2>2. \/ inodes' = inodes
        \/ FileIs(Handle(m), Written(inodes[Handle(m)], <<Line(Len(parent) + 1)>>))
        \/ \E g \in CutShort(inodes[Handle(m)], <<Line(Len(parent) + 1)>>) : FileIs(Handle(m), g)
    BY <1>14 DEF AppendLine
  <2> QED BY <1>4, <1>12, <1>13, <2>1, <2>2
<1>15. ASSUME NEW m \in Managers, DieWriting(m)
       PROVE  entryNow' # 0 /\ Begins(Now.lines, Now.lines')
  <2>1. entryNow' = entryNow BY <1>15 DEF DieWriting
  <2>2. \/ at[m] = "writing" /\ \E g : FileIs(fd[m], g)
        \/ /\ at[m] = "idle" /\ flushed[m]
           /\ \E g \in CutShort(inodes[Handle(m)], <<Line(Len(parent) + 1)>>) : FileIs(Handle(m), g)
    BY <1>15 DEF DieWriting
  <2> QED BY <1>9, <1>12, <1>13, <2>1, <2>2
<1>16. ASSUME NEW r \in requests, Sync(r) PROVE entryNow' # 0 /\ Begins(Now.lines, Now.lines')
  <2>1. r[2] = entryNow BY DEF IInv, PlaceInv
  <2>2. entryNow' = entryNow /\ (FileIs(entryNow, Flushed(Now)) \/ FileIs(entryNow, [Now EXCEPT !.sick = TRUE]))
    BY <1>16, <2>1 DEF Sync, Now
  <2> QED BY <1>3, <1>5, <2>2
<1>17. CASE UNCHANGED vars
  <2>1. inodes' = inodes /\ entryNow' = entryNow BY <1>17 DEF vars, disk
  <2> QED BY <1>4, <2>1
<1>18. CASE \E m \in Managers :
              \/ OpenMissing(m) \/ OpenEmpty(m) \/ OpenFile(m) \/ Replace(m) \/ NameFile(m)
              \/ OpenFails(m) \/ AppendSetup(m) \/ BeginFirstFlush(m) \/ Create(m) \/ WriteFirst(m)
              \/ SyncFirst(m) \/ AppendLine(m) \/ Navigate(m) \/ Close(m) \/ Kill(m) \/ DieWriting(m)
  BY <1>4, <1>6, <1>7, <1>8, <1>10, <1>11, <1>14, <1>15, <1>18
<1>19. CASE \E r \in requests : Sync(r) BY <1>16, <1>19
<1> QED BY <1>17, <1>18, <1>19 DEF Next

\* The inductive invariant, which holds in every state of sound circumstances: the types, where a
\* manager may be, what the file is while it is there, and what has to be in which lines of it.
THEOREM SessionFileInvariant ==
  ASSUME AllSound
  PROVE  Spec => []IInv
<1>1. Init => IInv BY InitIInv
<1>2. ASSUME IInv, [Next]_vars PROVE IInv' BY <1>2, NextKeeps
<1> QED BY <1>1, <1>2, PTL DEF Spec

\* AcknowledgedEntriesSurvive, of any managers, entries, crashes, power losses and failures of sound
\* circumstances: push_entry and persist_last answer Ok only to what stays in the file, where every
\* later open reads it unless it stands behind a line that is not UTF-8.
THEOREM AcknowledgedEntriesAlwaysSurvive ==
  ASSUME AllSound
  PROVE  Spec => []AcknowledgedEntriesSurvive
<1>1. ASSUME IInv PROVE AcknowledgedEntriesSurvive
  <2>1. TypeOK /\ AckInv BY <1>1 DEF IInv
  <2>2. ToSet(NowIds) \subseteq ToSet(Recorded) \cup Hidden /\ NowFirm \subseteq ToSet(NowIds)
    BY <2>1, RecordedBegins, ListTypes
  <2> QED BY <2>1, <2>2 DEF AcknowledgedEntriesSurvive, AckInv
<1>2. Spec => []IInv BY SessionFileInvariant
<1> QED BY <1>1, <1>2, PTL

\* HistoryIsCutAtRefusalsOnly, of the same: a file that is read back holds the branch an entry was
\* attached to, up to an entry whose append was refused.
THEOREM HistoryIsOnlyEverCutAtRefusals ==
  ASSUME AllSound
  PROVE  Spec => []HistoryIsCutAtRefusalsOnly
<1>1. ASSUME IInv PROVE HistoryIsCutAtRefusalsOnly
  <2>1. TypeOK /\ HistoryInv BY <1>1 DEF IInv
  <2>2. Recorded \in Seq(Nat) /\ NowIds \in Seq(Nat) /\ Begins(Recorded, NowIds) BY <2>1, RecordedBegins, ListTypes
  <2>3. /\ DOMAIN Recorded = 1..Len(Recorded) /\ Len(Recorded) \in Nat /\ Len(NowIds) \in Nat
        /\ Len(Recorded) <= Len(NowIds) /\ \A i \in 1..Len(Recorded) : Recorded[i] = NowIds[i]
    BY <2>2 DEF Begins
  <2>4. LostOnes \subseteq refused BY DEF LostOnes
  <2>5. Chained(NowIds, parent, LostOnes) BY <2>1 DEF HistoryInv
  <2>6. ASSUME NEW i \in DOMAIN Recorded
        PROVE  parent[Recorded[i]] # 0 =>
                 parent[Recorded[i]] \in refused \/ \E j \in 1..i - 1 : Recorded[j] = parent[Recorded[i]]
    <3>1. i \in 1..Len(NowIds) /\ Recorded[i] = NowIds[i] /\ i \in Nat BY <2>3
    <3>2. \A j \in 1..i - 1 : Recorded[j] = NowIds[j] BY <2>3, <3>1
    <3>3. \/ parent[NowIds[i]] = 0 \/ parent[NowIds[i]] \in LostOnes
          \/ \E j \in 1..(i - 1) : NowIds[j] = parent[NowIds[i]]
      BY <2>5, <3>1 DEF Chained
    <3> QED BY <2>4, <3>1, <3>2, <3>3
  <2> QED BY <2>6 DEF HistoryIsCutAtRefusalsOnly
<1>2. Spec => []IInv BY SessionFileInvariant
<1> QED BY <1>1, <1>2, PTL

\* NothingIsUnwritten, of the same: short of a power loss, opens, rewrites, appends, crashes inside a
\* write and failures of any call leave in front what the file listed.
THEOREM NothingIsEverUnwritten ==
  ASSUME AllSound
  PROVE  Spec => NothingIsUnwritten
<1>1. ASSUME IInv, IInv', [Next]_vars, losses' = losses PROVE IsPrefix(Recorded, Opened(inodes', entryNow'))
  <2> DEFINE s == Recorded
             t == Recorded'
  <2>1. TypeOK /\ TypeOK' BY <1>1 DEF IInv
  <2>2. s \in Seq(Nat) /\ t \in Seq(Nat) BY <2>1, RecordedBegins, RecordedBeginsNext
  <2>3. ~PowerLoss
    <3>1. losses \in Nat BY <2>1 DEF TypeOK
    <3>2. PowerLoss => losses' = losses + 1 BY DEF PowerLoss
    <3> QED BY <1>1, <3>1, <3>2
  <2>4. Begins(s, t)
    <3>1. CASE entryNow = 0
      <4>1. Recorded = <<>> BY <3>1 DEF Recorded, Opened
      <4> QED BY <2>2, <4>1, BeginsFacts
    <3>2. CASE entryNow # 0
      <4>1. entryNow' # 0 /\ (Begins(Now.lines, Now.lines') \/ Cut \notin ToSet(Now.lines'))
        BY <1>1, <2>3, <3>2, LinesGrow
      <4>2. Now \in Files /\ Now' \in Files /\ Now.lines \in Seq(Text) /\ Now.lines' \in Seq(Text)
        <5>1. Now \in Files BY <2>1, <3>2, ListTypes
        <5>2. inodes' \in Seq(Files) /\ entryNow' \in 0..Len(inodes') BY <2>1 DEF TypeOK
        <5>3. Now' \in Files BY <4>1, <5>2 DEF Now
        <5> QED BY <5>1, <5>3, FileFacts
      <4>3. s = IdsOf(Legible(Now.lines)) /\ t = IdsOf(Legible(Now.lines'))
        BY <2>1, <3>2, <4>1, RecordedBegins, RecordedBeginsNext
      <4>4. CASE Begins(Now.lines, Now.lines') BY <4>2, <4>3, <4>4, LegibleGrows
      <4>5. CASE Cut \notin ToSet(Now.lines')
        <5>1. t = NowIds'
          <6>1. Legible(Now.lines') = Now.lines' BY <4>2, <4>5, LegibleFacts
          <6>2. NowIds' = IdsOf(Now.lines') BY <4>1 DEF NowIds, Ids, Now
          <6> QED BY <4>3, <6>1, <6>2
        <5>2. Begins(s, NowIds) /\ NowIds \in Seq(Nat) BY <2>1, RecordedBegins, ListTypes
        <5>3. Begins(NowIds, NowIds') BY <1>1, <2>3, NextKeeps
        <5> HIDE DEF s, t
        <5>4. Begins(NowIds, t) BY <5>1, <5>3
        <5> QED BY <2>2, <5>2, <5>4, BeginsOn
      <4> QED BY <4>1, <4>4, <4>5
    <3> QED BY <3>1, <3>2
  <2>5. t = Opened(inodes', entryNow') BY DEF Recorded
  <2> HIDE DEF s, t
  <2>8. Len(s) \in Nat /\ Len(t) \in Nat /\ Len(s) <= Len(t) /\ \A i \in 1..Len(s) : s[i] = t[i] BY <2>2, <2>4 DEF Begins
  <2>9. SubSeq(s, 1, Len(s)) = SubSeq(t, 1, Len(s))
    <3> DEFINE a == SubSeq(s, 1, Len(s))
               b == SubSeq(t, 1, Len(s))
    <3>1. /\ a \in Seq(Nat) /\ Len(a) = Len(s) /\ \A i \in 1..Len(s) : a[i] = s[i]
      BY <2>2, <2>8
    <3>2. /\ b \in Seq(Nat) /\ Len(b) = Len(s) /\ \A i \in 1..Len(s) : b[i] = t[i]
      BY <2>2, <2>8
    <3> HIDE DEF a, b
    <3>3. a = b BY <2>8, <3>1, <3>2, SeqEqual
    <3> QED BY <3>3 DEF a, b
  <2>10. IsPrefix(s, t) BY <2>8, <2>9 DEF IsPrefix
  <2> QED BY <2>5, <2>10 DEF s
<1>2. Spec => []IInv BY SessionFileInvariant
<1> QED BY <1>1, <1>2, PTL DEF Spec, NothingIsUnwritten

-----------------------------------------------------------------------------
(* The lease: types. *)

\* Only a refused or dead contender has used up its attempts.
AttemptsLeft == \A p \in Runners : phase[p] \in Contending => tries[p] <= AcquireAttempts

LEMMA InitTyped == LeaseInit => LeaseTypeOK /\ AttemptsLeft
  BY LeaseAssumption DEF LeaseInit, LeaseTypeOK, AttemptsLeft, Contending, Phases, Records, WriterStates

\* The steps of an acquisition keep the types.
LEMMA AcquireTyped ==
  ASSUME LeaseTypeOK, AttemptsLeft, NEW p \in Runners, Acquire(p)
  PROVE  LeaseTypeOK' /\ AttemptsLeft'
<1> USE LeaseAssumption DEF LeaseTypeOK, AttemptsLeft, Contending, Phases, Move
<1>1. CASE Claim(p)
  <2>1. [token |-> p, writer |-> NoWriter] \in Records
    BY DEF Records, WriterStates, NoWriter
  <2>2. record' \in [Runners -> Records \cup {None}] /\ lease' \in Runners \cup {None}
    <3>1. CASE Vacant(lease)
      <4>1. lease' = p /\ record' = [record EXCEPT ![p] = [token |-> p, writer |-> NoWriter]]
        BY <1>1, <3>1 DEF Claim
      <4>2. record \in [Runners -> Records \cup {None}] OBVIOUS
      <4>3. record' \in [Runners -> Records \cup {None}] BY ONLY <2>1, <4>1, <4>2
      <4> QED BY <4>1, <4>3
    <3>2. CASE ~Vacant(lease) BY <1>1, <3>2 DEF Claim
    <3> QED BY <3>1, <3>2
  <2>3. phase' \in [Runners -> Phases] /\ phase'[p] \in {"run", "lost"}
    <3>1. phase' = [phase EXCEPT ![p] = "run"] \/ phase' = [phase EXCEPT ![p] = "lost"]
      BY <1>1 DEF Claim
    <3>2. phase \in [Runners -> Phases] OBVIOUS
    <3> QED BY ONLY <3>1, <3>2 DEF Phases, Contending
  <2>4. \A q \in Runners \ {p} : phase'[q] = phase[q]
    BY <1>1 DEF Claim
  <2>5. UNCHANGED <<foreign, tomb, seen, tries, writerVars, taskVars>>
    BY <1>1 DEF Claim
  <2>6. phase[p] = "claim"
    BY <1>1 DEF Claim
  <2> QED BY <2>2, <2>3, <2>4, <2>5, <2>6 DEF writerVars, taskVars
<1>2. CASE Lost(p)
  BY <1>2 DEF Lost, pathVars, writerVars, taskVars
<1>3. CASE ReadOwner(p)
  BY <1>3 DEF ReadOwner, Incumbent, pathVars, writerVars, taskVars
<1>4. CASE Judge(p)
  BY <1>4 DEF Judge, pathVars, writerVars, taskVars
<1>5. CASE Break(p)
  <2>1. seen[p].token \in Runners
    BY <1>5 DEF Break, Records
  <2>2. tomb' \in [Runners -> Runners \cup {None}] /\ lease' \in Runners \cup {None}
    <3> DEFINE grave == seen[p].token
    <3>1. CASE lease # None /\ Vacant(tomb[grave])
      <4>1. lease' = None /\ tomb' = [tomb EXCEPT ![grave] = lease]
        BY <1>5, <3>1 DEF Break, MoveAside
      <4>2. tomb \in [Runners -> Runners \cup {None}] /\ lease \in Runners
        BY <3>1
      <4>3. tomb' \in [Runners -> Runners \cup {None}] BY ONLY <2>1, <4>1, <4>2
      <4> QED BY <4>1, <4>3
    <3>2. CASE ~(lease # None /\ Vacant(tomb[grave])) BY <1>5, <3>2 DEF Break, MoveAside
    <3> QED BY <3>1, <3>2
  <2>3. tries' \in [Runners -> 1..AcquireAttempts + 1]
    BY <1>5 DEF Break, NextAttempt
  <2>4. phase' \in [Runners -> Phases]
    BY <1>5 DEF Break, NextAttempt
  <2>5. /\ phase'[p] \in {"claim", "refused"}
        /\ phase'[p] \in Contending => tries'[p] <= AcquireAttempts
    BY <1>5 DEF Break, NextAttempt
  <2>6. \A q \in Runners \ {p} : phase'[q] = phase[q] /\ tries'[q] = tries[q]
    BY <1>5 DEF Break, NextAttempt
  <2>7. UNCHANGED <<foreign, record, seen, writerVars, taskVars>>
    BY <1>5 DEF Break
  <2> QED BY <2>2, <2>3, <2>4, <2>5, <2>6, <2>7 DEF writerVars, taskVars
<1> QED BY <1>1, <1>2, <1>3, <1>4, <1>5 DEF Acquire

\* What a holder dispatches and records keeps the types.
LEMMA RunTyped ==
  ASSUME LeaseTypeOK, AttemptsLeft, NEW p \in Runners, Work(p) \/ WriterExits(p) \/ Task(p)
  PROVE  LeaseTypeOK' /\ AttemptsLeft'
<1> USE LeaseAssumption DEF LeaseTypeOK, AttemptsLeft
<1> DEFINE Attains(q) == q \in [Runners -> Seq(WriterStates)]
<1>1. ASSUME NEW u \in WriterStates, Send(p, u) PROVE Attains(queue')
  BY <1>1 DEF Send
<1>2. CASE Dispatch(p)
  <2>1. Attains(queue') BY <1>1, <1>2 DEF Dispatch, WriterStates, Spawning
  <2> QED BY <1>2, <2>1 DEF Dispatch, pathVars, claimVars
<1>3. CASE Spawn(p)
  BY <1>3 DEF Spawn, pathVars, claimVars, taskVars
<1>4. CASE SpawnFails(p)
  BY <1>4 DEF SpawnFails, pathVars, claimVars, taskVars
<1>5. CASE Launched(p)
  <2>1. Attains(queue') BY <1>1, <1>5 DEF Launched, WriterStates
  <2> QED BY <1>5, <2>1 DEF Launched, pathVars, claimVars
<1>6. CASE Closed(p)
  <2>1. Attains(queue') BY <1>1, <1>6 DEF Closed, WriterStates, NoWriter
  <2>2. step' \in [Runners -> {"idle", "dispatched", "forked", "launched"}]
    BY <1>6 DEF Closed
  <2>3. UNCHANGED <<pathVars, claimVars, spawned, alive, orphans, writing>>
    BY <1>6 DEF Closed
  <2> QED BY <2>1, <2>2, <2>3 DEF pathVars, claimVars
<1>7. CASE WriterExits(p)
  BY <1>7 DEF WriterExits, pathVars, claimVars, taskVars
<1>8. CASE TakeUpdate(p)
  <2>1. queue[p] \in Seq(WriterStates) /\ queue[p] # <<>> BY <1>8 DEF TakeUpdate
  <2>2. Head(queue[p]) \in WriterStates /\ Tail(queue[p]) \in Seq(WriterStates) BY <2>1
  <2> QED BY <1>8, <2>2 DEF TakeUpdate, pathVars, claimVars, writerVars
<1>9. CASE WriteUpdate(p)
  <2>1. [token |-> p, writer |-> writing[p]] \in Records
    BY <1>9 DEF WriteUpdate, Records
  <2> QED BY <1>9, <2>1 DEF WriteUpdate, claimVars, writerVars
<1> QED BY <1>2, <1>3, <1>4, <1>5, <1>6, <1>7, <1>8, <1>9 DEF Work, Task

\* Releasing and dying keep the types.
LEMMA LeaveTyped ==
  ASSUME LeaseTypeOK, AttemptsLeft, NEW p \in Runners, Leave(p) \/ KillRunner(p)
  PROVE  LeaseTypeOK' /\ AttemptsLeft'
<1> USE LeaseAssumption DEF LeaseTypeOK, AttemptsLeft, Contending, Phases, Move
<1>1. CASE Release(p)
  BY <1>1 DEF Release, pathVars, writerVars, taskVars
<1>2. CASE Unlink(p)
  BY <1>2 DEF Unlink, writerVars, taskVars
<1>3. CASE Rmdir(p)
  BY <1>3 DEF Rmdir, writerVars, taskVars
<1>4. CASE Exit(p)
  BY <1>4 DEF Exit, pathVars, writerVars, taskVars
<1>5. CASE KillRunner(p)
  BY <1>5 DEF KillRunner, pathVars, writerVars
<1> QED BY <1>1, <1>2, <1>3, <1>4, <1>5 DEF Leave

LEMMA StepTyped == LeaseTypeOK /\ AttemptsLeft /\ [LeaseNext]_leaseVars => LeaseTypeOK' /\ AttemptsLeft'
<1> SUFFICES ASSUME LeaseTypeOK, AttemptsLeft, [LeaseNext]_leaseVars PROVE LeaseTypeOK' /\ AttemptsLeft'
  OBVIOUS
<1>1. CASE UNCHANGED leaseVars
  BY <1>1 DEF LeaseTypeOK, AttemptsLeft, leaseVars, pathVars, claimVars, writerVars, taskVars
<1>2. CASE LeaseNext
  BY <1>2, AcquireTyped, RunTyped, LeaveTyped DEF LeaseNext
<1> QED BY <1>1, <1>2

\* Every variable has its type, and a contender judges only a record it could read.
THEOREM LeaseTypes == LeaseSpec => []LeaseTypeOK
  BY InitTyped, StepTyped, PTL DEF LeaseSpec

-----------------------------------------------------------------------------
(* Mutual exclusion.  Claim, WriteUpdate, Unlink, Rmdir and Break all act by  *)
(* path, on whatever directory is there.  The invariant says why that is the  *)
(* directory they mean: a directory with a record is at the lease path or at  *)
(* its own tombstone, a holder's is at the lease path, and the dead owner a   *)
(* contender is about to break still has its record, so if its directory is   *)
(* not at the lease path any more its tombstone is taken.                     *)

Claimed(p) == phase[p] \in {"run", "unlink", "rmdir", "exit", "gone"}

RecordsAreOwn == \A d \in Runners : record[d] # None => record[d].token = d /\ Claimed(d)

RecordsAreFound == \A d \in Runners : record[d] # None => lease = d \/ tomb[d] = d

HoldersLead == \A p \in Runners : Holds(p) => lease = p /\ record[p] # None

JudgesAreInformed ==
  \A q \in Runners : phase[q] \in {"judge", "break"} =>
    /\ Claimed(seen[q].token)
    /\ Gone(seen[q].token) => record[seen[q].token] # None
    /\ phase[q] = "break" => Gone(seen[q].token)

Guarded == RecordsAreOwn /\ RecordsAreFound /\ HoldersLead /\ JudgesAreInformed

LeaseInv == LeaseTypeOK /\ AttemptsLeft /\ Guarded

LEMMA InitGuarded == LeaseInit => Guarded
  BY LeaseAssumption
  DEF LeaseInit, Guarded, RecordsAreOwn, RecordsAreFound, HoldersLead, JudgesAreInformed, Holds

\* What the steps below need of the types.
LEMMA LeaseShape ==
  ASSUME LeaseTypeOK
  PROVE  /\ None \notin Runners /\ None \notin Records
         /\ lease \in Runners \cup {None}
         /\ record \in [Runners -> Records \cup {None}]
         /\ tomb \in [Runners -> Runners \cup {None}]
         /\ phase \in [Runners -> Phases]
         /\ seen \in [Runners -> Records \cup {None}]
         /\ \A q \in Runners : phase[q] \in {"judge", "break"} =>
              seen[q] # None /\ seen[q].token \in Runners
  BY LeaseAssumption, NoneAssumption DEF LeaseTypeOK, Records

\* Steps of a runner that touch neither the lease path nor anybody's phase.
LEMMA QuietGuarded ==
  ASSUME Guarded, UNCHANGED <<lease, record, tomb, phase, seen>>
  PROVE  Guarded'
  BY DEF Guarded, RecordsAreOwn, RecordsAreFound, HoldersLead, JudgesAreInformed, Holds, Claimed, Gone

LEMMA ClaimGuarded ==
  ASSUME LeaseTypeOK, Guarded, NEW p \in Runners, Claim(p)
  PROVE  Guarded'
<1> USE DEF Guarded, Claimed, Holds, Gone
<1>1. /\ phase[p] = "claim" /\ phase'[p] \in {"run", "lost"}
      /\ \A q \in Runners \ {p} : phase'[q] = phase[q]
      /\ UNCHANGED <<tomb, seen>>
  BY LeaseShape DEF Claim, Move
<1>2. \A q \in Runners : phase[q] \in {"judge", "break"} => q # p /\ seen[q].token # p
  BY <1>1 DEF JudgesAreInformed
<1>3. CASE Vacant(lease)
  <2>1. /\ lease' = p /\ phase'[p] = "run"
        /\ record'[p] = [token |-> p, writer |-> NoWriter]
        /\ \A d \in Runners \ {p} : record'[d] = record[d]
    BY <1>3, LeaseShape DEF Claim, Move
  <2>2. [token |-> p, writer |-> NoWriter] \in Records
    BY DEF Records, WriterStates, NoWriter
  <2>3. \A d \in Runners : lease = d => record[d] = None
    BY <1>3, LeaseShape DEF Vacant
  <2>4. RecordsAreOwn' BY <1>1, <2>1 DEF RecordsAreOwn
  <2>5. RecordsAreFound' BY <1>1, <2>1, <2>3 DEF RecordsAreFound
  <2>6. HoldersLead' BY <1>1, <2>1, <2>2, <2>3, LeaseShape DEF HoldersLead
  <2>7. JudgesAreInformed' BY <1>1, <1>2, <2>1, LeaseShape DEF JudgesAreInformed
  <2> QED BY <2>4, <2>5, <2>6, <2>7
<1>4. CASE ~Vacant(lease)
  <2>1. phase'[p] = "lost" /\ UNCHANGED <<lease, record>>
    BY <1>4, LeaseShape DEF Claim, Move
  <2>2. RecordsAreOwn' /\ RecordsAreFound' BY <1>1, <2>1 DEF RecordsAreOwn, RecordsAreFound
  <2>3. HoldersLead' BY <1>1, <2>1 DEF HoldersLead
  <2>4. JudgesAreInformed' BY <1>1, <1>2, <2>1, LeaseShape DEF JudgesAreInformed
  <2> QED BY <2>2, <2>3, <2>4
<1> QED BY <1>3, <1>4

\* A contender looks at what is there and touches nothing.
LEMMA LookGuarded ==
  ASSUME LeaseTypeOK, Guarded, NEW p \in Runners, Lost(p) \/ ReadOwner(p) \/ Judge(p)
  PROVE  Guarded'
<1> USE DEF Guarded, Claimed, Holds, Gone
<1>1. /\ phase[p] \in {"lost", "read", "judge"}
      /\ phase'[p] \in {"read", "judge", "break", "refused"}
      /\ \A q \in Runners \ {p} : phase'[q] = phase[q] /\ seen'[q] = seen[q]
      /\ UNCHANGED <<lease, record, tomb>>
  BY LeaseShape DEF Lost, ReadOwner, Judge, Move, pathVars
<1>2. \A q \in Runners : phase[q] \in {"judge", "break"} => seen[q].token # p
  BY <1>1 DEF JudgesAreInformed
<1>3. RecordsAreOwn' BY <1>1 DEF RecordsAreOwn
<1>4. RecordsAreFound' BY <1>1 DEF RecordsAreFound
<1>5. HoldersLead' BY <1>1 DEF HoldersLead
<1>6. ASSUME phase'[p] \in {"judge", "break"}
      PROVE  LET x == seen'[p].token IN
               /\ x \in Runners \ {p} /\ Claimed(x)
               /\ Gone(x) => record[x] # None
               /\ phase'[p] = "break" => Gone(x)
  <2>1. CASE ReadOwner(p)
    <3>1. lease \in Runners /\ record[lease] # None /\ seen'[p] = record[lease] /\ phase'[p] = "judge"
      BY <2>1, <1>6, LeaseShape DEF ReadOwner, Incumbent, Move
    <3>2. record[lease].token = lease /\ Claimed(lease)
      BY <3>1 DEF RecordsAreOwn
    <3>3. phase[p] = "read" BY <2>1 DEF ReadOwner
    <3> QED BY <3>1, <3>2, <3>3
  <2>2. CASE Judge(p)
    <3>1. phase[p] = "judge" /\ seen' = seen /\ phase'[p] = "break" /\ Gone(seen[p].token)
      BY <2>2, <1>6, LeaseShape DEF Judge, Move, DemonstrablyStale
    <3> QED BY <3>1, <1>2, LeaseShape DEF JudgesAreInformed
  <2>3. CASE Lost(p)
    BY <2>3, <1>6, LeaseShape DEF Lost, Move
  <2> QED BY <2>1, <2>2, <2>3
<1>7. JudgesAreInformed' BY <1>1, <1>2, <1>6, LeaseShape DEF JudgesAreInformed
<1> QED BY <1>3, <1>4, <1>5, <1>7

\* If the directory at the lease path is not the dead owner's any more, the
\* owner's is at its tombstone, which keeps the contender off.
LEMMA BreakGuarded ==
  ASSUME LeaseTypeOK, Guarded, NEW p \in Runners, Break(p)
  PROVE  Guarded'
<1> USE DEF Guarded, Claimed, Holds, Gone
<1> DEFINE x == seen[p].token
<1>1. /\ phase[p] = "break" /\ phase'[p] \in {"claim", "refused"}
      /\ \A q \in Runners \ {p} : phase'[q] = phase[q]
      /\ UNCHANGED <<record, seen>>
  BY LeaseShape DEF Break, NextAttempt, Move
<1>2. x \in Runners /\ Gone(x) /\ record[x] # None /\ (lease = x \/ tomb[x] = x)
  BY <1>1, LeaseShape DEF JudgesAreInformed, RecordsAreFound
<1>3. \/ UNCHANGED <<lease, tomb>>
      \/ /\ lease = x /\ lease' = None
         /\ tomb' = [tomb EXCEPT ![x] = x]
  BY <1>2, LeaseShape DEF Break, MoveAside, Vacant
<1>4. \A q \in Runners : phase[q] \in {"judge", "break"} => seen[q].token # p
  BY <1>1 DEF JudgesAreInformed
<1>5. RecordsAreOwn' BY <1>1 DEF RecordsAreOwn
<1>6. RecordsAreFound' BY <1>1, <1>2, <1>3, LeaseShape DEF RecordsAreFound
<1>7. HoldersLead' BY <1>1, <1>2, <1>3 DEF HoldersLead
<1>8. JudgesAreInformed' BY <1>1, <1>4, LeaseShape DEF JudgesAreInformed
<1> QED BY <1>5, <1>6, <1>7, <1>8

LEMMA WriteGuarded ==
  ASSUME LeaseTypeOK, Guarded, NEW p \in Runners, WriteUpdate(p)
  PROVE  Guarded'
<1> USE DEF Guarded, Claimed, Holds, Gone
<1>1. lease = p /\ record[p] # None
  BY DEF WriteUpdate, HoldersLead
<1>2. [token |-> p, writer |-> writing[p]] \in Records
  BY DEF WriteUpdate, LeaseTypeOK, Records
<1>3. /\ record'[p] = [token |-> p, writer |-> writing[p]]
      /\ \A d \in Runners \ {p} : record'[d] = record[d]
      /\ UNCHANGED <<lease, tomb, phase, seen>>
  BY <1>1, LeaseShape DEF WriteUpdate, claimVars
<1>4. record'[p] # None /\ record'[p].token = p
  BY <1>2, <1>3, LeaseShape
<1>5. RecordsAreOwn' BY <1>1, <1>3, <1>4 DEF RecordsAreOwn
<1>6. RecordsAreFound' BY <1>1, <1>3 DEF RecordsAreFound
<1>7. HoldersLead' BY <1>3, <1>4 DEF HoldersLead
<1>8. JudgesAreInformed' BY <1>3, <1>4, LeaseShape DEF JudgesAreInformed
<1> QED BY <1>5, <1>6, <1>7, <1>8

\* Releasing: what is at the lease path is the runner's own until it is removed.
LEMMA ReleaseGuarded ==
  ASSUME LeaseTypeOK, Guarded, NEW p \in Runners, Release(p) \/ Unlink(p) \/ Rmdir(p)
  PROVE  Guarded'
<1> USE DEF Guarded, Claimed, Holds, Gone
<1>1. /\ phase[p] \in {"run", "unlink", "rmdir"}
      /\ phase'[p] \in {"unlink", "rmdir", "exit"}
      /\ \A q \in Runners \ {p} : phase'[q] = phase[q]
      /\ UNCHANGED <<tomb, seen>>
  BY LeaseShape DEF Release, Unlink, Rmdir, Move, pathVars
<1>2. CASE Release(p)
  <2>1. phase[p] = "run" /\ UNCHANGED <<lease, record>>
    BY <1>2 DEF Release, pathVars
  <2>2. RecordsAreOwn' /\ RecordsAreFound' BY <1>1, <2>1 DEF RecordsAreOwn, RecordsAreFound
  <2>3. HoldersLead' BY <1>1, <2>1 DEF HoldersLead
  <2>4. JudgesAreInformed' BY <1>1, <2>1, LeaseShape DEF JudgesAreInformed
  <2> QED BY <2>2, <2>3, <2>4
<1>3. CASE Unlink(p)
  <2>1. lease = p /\ phase'[p] = "rmdir" /\ lease' = lease
    BY <1>3, LeaseShape DEF Unlink, Move, HoldersLead
  <2>2. record'[p] = None /\ \A d \in Runners \ {p} : record'[d] = record[d]
    BY <1>3, <2>1, LeaseShape DEF Unlink
  <2>3. RecordsAreOwn' BY <1>1, <2>2 DEF RecordsAreOwn
  <2>4. RecordsAreFound' BY <1>1, <2>1, <2>2 DEF RecordsAreFound
  <2>5. HoldersLead' BY <1>1, <2>1, <2>2 DEF HoldersLead
  <2>6. JudgesAreInformed' BY <1>1, <2>1, <2>2, LeaseShape DEF JudgesAreInformed
  <2> QED BY <2>3, <2>4, <2>5, <2>6
<1>4. CASE Rmdir(p)
  <2>1. phase'[p] = "exit" /\ record' = record
    BY <1>4, LeaseShape DEF Rmdir, Move
  <2>2. \A d \in Runners : lease = d /\ record[d] # None => lease' = d
    BY <1>4, LeaseShape DEF Rmdir, Vacant
  <2>3. RecordsAreOwn' BY <1>1, <2>1 DEF RecordsAreOwn
  <2>4. RecordsAreFound' BY <1>1, <2>1, <2>2 DEF RecordsAreFound
  <2>5. HoldersLead' BY <1>1, <2>1, <2>2 DEF HoldersLead
  <2>6. JudgesAreInformed' BY <1>1, <2>1, LeaseShape DEF JudgesAreInformed
  <2> QED BY <2>3, <2>4, <2>5, <2>6
<1> QED BY <1>2, <1>3, <1>4

\* Ending or being killed: whoever judges the runner by then has its record.
LEMMA EndGuarded ==
  ASSUME Prompt, LeaseTypeOK, Guarded, NEW p \in Runners, Exit(p) \/ KillRunner(p)
  PROVE  Guarded'
<1> USE DEF Guarded, Claimed, Holds, Gone
<1>1. /\ phase[p] \notin {"refused", "gone"} /\ phase'[p] = "gone"
      /\ \A q \in Runners \ {p} : phase'[q] = phase[q]
      /\ UNCHANGED <<lease, record, tomb, seen>>
  BY LeaseShape DEF Exit, KillRunner, Move, pathVars
<1>2. ~JudgedByOldRecord(p)
  BY DEF Exit, KillRunner
<1>3. ASSUME NEW q \in Runners, phase[q] \in {"judge", "break"}, seen[q].token = p
      PROVE  phase[q] = "judge" /\ record[p] # None
  <2>1. phase[q] = "judge" BY <1>1, <1>3 DEF JudgesAreInformed
  <2>2. seen[q] = record[p] BY <1>2, <1>3, <2>1 DEF JudgedByOldRecord
  <2> QED BY <1>3, <2>1, <2>2, LeaseShape
<1>4. RecordsAreOwn' BY <1>1 DEF RecordsAreOwn
<1>5. RecordsAreFound' BY <1>1 DEF RecordsAreFound
<1>6. HoldersLead' BY <1>1 DEF HoldersLead
<1>7. JudgesAreInformed' BY <1>1, <1>3, LeaseShape DEF JudgesAreInformed
<1> QED BY <1>4, <1>5, <1>6, <1>7

LEMMA StepGuarded ==
  ASSUME Prompt, LeaseTypeOK, Guarded, [LeaseNext]_leaseVars
  PROVE  Guarded'
<1>1. CASE UNCHANGED leaseVars
  BY <1>1, QuietGuarded DEF leaseVars, pathVars, claimVars
<1>2. ASSUME NEW p \in Runners,
             Acquire(p) \/ Work(p) \/ WriterExits(p) \/ Task(p) \/ Leave(p) \/ KillRunner(p)
      PROVE  Guarded'
  <2>1. CASE Acquire(p)
    BY <2>1, ClaimGuarded, LookGuarded, BreakGuarded DEF Acquire
  <2>2. CASE Work(p) \/ WriterExits(p) \/ TakeUpdate(p)
    <3>1. UNCHANGED <<lease, record, tomb, phase, seen>>
      BY <2>2 DEF Work, Dispatch, Spawn, SpawnFails, Launched, Closed, WriterExits, TakeUpdate,
                  pathVars, claimVars
    <3> QED BY <3>1, QuietGuarded
  <2>3. CASE WriteUpdate(p)
    BY <2>3, WriteGuarded
  <2>4. CASE Leave(p) \/ KillRunner(p)
    BY <2>4, ReleaseGuarded, EndGuarded DEF Leave
  <2> QED BY <1>2, <2>1, <2>2, <2>3, <2>4 DEF Task
<1> QED BY <1>1, <1>2 DEF LeaseNext

LEMMA LeaseInvariant == Prompt => (LeaseSpec => []LeaseInv)
<1> SUFFICES ASSUME Prompt PROVE LeaseSpec => []LeaseInv
  OBVIOUS
<1>1. LeaseInit => LeaseInv
  BY InitTyped, InitGuarded DEF LeaseInv
<1>2. LeaseInv /\ [LeaseNext]_leaseVars => LeaseInv'
  BY StepTyped, StepGuarded DEF LeaseInv
<1> QED BY <1>1, <1>2, PTL DEF LeaseSpec

\* The lease path holds the directory and the record of whoever holds the
\* lease, if no runner is gone while an outdated record of it is judged.
THEOREM HoldersKeepThePath == Prompt => (LeaseSpec => []HoldersAreRecorded)
<1>1. LeaseInv => HoldersAreRecorded
  BY LeaseShape DEF LeaseInv, Guarded, HoldersLead, RecordsAreOwn, HoldersAreRecorded, OwnsThePath, Incumbent
<1> QED BY <1>1, LeaseInvariant, PTL

\* Under the same assumption no two runners hold the lease at once.
THEOREM LeaseIsExclusive == Prompt => (LeaseSpec => []OneHolder)
<1>1. HoldersAreRecorded => OneHolder
  BY DEF HoldersAreRecorded, OneHolder
<1> QED BY <1>1, HoldersKeepThePath, PTL
-----------------------------------------------------------------------------
(* The writers.  A writer outlives its runner, and then the record alone      *)
(* keeps contenders away: the record of a killed runner covers its living     *)
(* writer unless the kill orphaned it, nobody writes it any more, and a       *)
(* contender that finds the runner gone has read exactly that record.         *)

WritersAreAttended ==
  \A p \in alive :
    /\ spawned[p] # 0
    /\ phase[p] \in {"run", "gone"}
    /\ phase[p] = "run" => step[p] \in {"forked", "launched"}
    /\ phase[p] = "gone" /\ p \notin orphans => lease = p /\ Covered(p)

JudgesKnowTheDead ==
  \A q \in Runners : phase[q] \in {"judge", "break"} /\ Gone(seen[q].token) =>
    /\ phase[q] = "judge" => seen[q] = record[seen[q].token]
    /\ phase[q] = "break" => seen[q].token \notin alive \ orphans

Attended == WritersAreAttended /\ JudgesKnowTheDead

LEMMA InitAttended == LeaseInit => Attended
  BY DEF LeaseInit, Attended, WritersAreAttended, JudgesKnowTheDead

LEMMA QuietAttended ==
  ASSUME Attended, UNCHANGED <<lease, record, tomb, phase, seen, step, spawned, alive, orphans>>
  PROVE  Attended'
  BY DEF Attended, WritersAreAttended, JudgesKnowTheDead, Covered, Gone

\* Who claims finds the path vacant: no living writer's record is there.
LEMMA ClaimAttended ==
  ASSUME LeaseTypeOK, Guarded, Attended, NEW p \in Runners, Claim(p)
  PROVE  Attended'
<1> USE DEF Attended, Gone, Covered
<1>1. /\ phase[p] = "claim" /\ phase'[p] \in {"run", "lost"}
      /\ \A q \in Runners \ {p} : phase'[q] = phase[q]
      /\ UNCHANGED <<seen, step, spawned, alive, orphans>>
  BY LeaseShape DEF Claim, Move, writerVars
<1>2. /\ \A d \in Runners \ {p} : record'[d] = record[d]
      /\ \A d \in Runners : lease = d /\ record[d] # None => lease' = d
  BY LeaseShape DEF Claim, Vacant
<1>3. alive \subseteq Runners \ {p}
  BY <1>1 DEF WritersAreAttended, LeaseTypeOK
<1>4. \A q \in Runners : phase[q] \in {"judge", "break"} => seen[q].token \in Runners \ {p}
  BY <1>1, LeaseShape DEF Guarded, JudgesAreInformed, Claimed
<1>5. WritersAreAttended' BY <1>1, <1>2, <1>3 DEF WritersAreAttended
<1>6. JudgesKnowTheDead' BY <1>1, <1>2, <1>4 DEF JudgesKnowTheDead
<1> QED BY <1>5, <1>6

\* A contender that calls a record stale has read that the writer is gone.
LEMMA LookAttended ==
  ASSUME LeaseTypeOK, Guarded, Attended, NEW p \in Runners, Lost(p) \/ ReadOwner(p) \/ Judge(p)
  PROVE  Attended'
<1> USE DEF Attended, Gone
<1>1. /\ phase[p] \in {"lost", "read", "judge"}
      /\ phase'[p] \in {"read", "judge", "break", "refused"}
      /\ \A q \in Runners \ {p} : phase'[q] = phase[q] /\ seen'[q] = seen[q]
      /\ UNCHANGED <<lease, record, step, spawned, alive, orphans>>
  BY LeaseShape DEF Lost, ReadOwner, Judge, Move, pathVars, writerVars
<1>2. alive \subseteq Runners \ {p}
  BY <1>1 DEF WritersAreAttended, LeaseTypeOK
<1>3. \A q \in Runners : phase[q] \in {"judge", "break"} => seen[q].token \in Runners \ {p}
  BY <1>1, LeaseShape DEF Guarded, JudgesAreInformed, Claimed
<1>4. WritersAreAttended' BY <1>1, <1>2 DEF WritersAreAttended, Covered
<1>5. ASSUME phase'[p] \in {"judge", "break"}, (Gone(seen[p].token))'
      PROVE  /\ phase'[p] = "judge" => seen'[p] = record[seen'[p].token]
             /\ phase'[p] = "break" => seen'[p].token \notin alive \ orphans
  <2>1. CASE ReadOwner(p)
    <3>1. lease \in Runners /\ record[lease] # None /\ seen'[p] = record[lease] /\ phase'[p] = "judge"
      BY <2>1, <1>5, LeaseShape DEF ReadOwner, Incumbent, Move
    <3>2. record[lease].token = lease
      BY <3>1 DEF Guarded, RecordsAreOwn
    <3> QED BY <3>1, <3>2
  <2>2. CASE Judge(p)
    <3> DEFINE x == seen[p].token
    <3>1. phase[p] = "judge" /\ seen' = seen /\ phase'[p] = "break" /\ DemonstrablyStale(p, seen[p])
      BY <2>2, <1>5, LeaseShape DEF Judge, Move
    <3>2. x \in Runners /\ Gone(x) /\ seen[p] = record[x]
      BY <3>1, <1>3, LeaseShape DEF DemonstrablyStale, JudgesKnowTheDead
    <3>3. x \in alive \ orphans => spawned[x] # 0 /\ record[x].writer \in {Spawning, spawned[x]}
      <4>1. x \in alive \ orphans => phase[x] = "gone" BY <3>2 DEF WritersAreAttended
      <4> QED BY <4>1 DEF WritersAreAttended, Covered
    <3>4. x \notin alive \ orphans
      BY <3>1, <3>2, <3>3 DEF DemonstrablyStale, WriterGone, NoWriter, Spawning
    <3> QED BY <3>1, <3>4
  <2>3. CASE Lost(p)
    BY <2>3, <1>5, LeaseShape DEF Lost, Move
  <2> QED BY <2>1, <2>2, <2>3
<1>6. JudgesKnowTheDead' BY <1>1, <1>3, <1>5 DEF JudgesKnowTheDead
<1> QED BY <1>4, <1>6

\* What a contender moves aside is the directory of an owner without a writer.
LEMMA BreakAttended ==
  ASSUME LeaseTypeOK, Guarded, Attended, NEW p \in Runners, Break(p)
  PROVE  Attended'
<1> USE DEF Attended, Gone
<1> DEFINE x == seen[p].token
<1>1. /\ phase[p] = "break" /\ phase'[p] \in {"claim", "refused"}
      /\ \A q \in Runners \ {p} : phase'[q] = phase[q]
      /\ UNCHANGED <<record, seen, step, spawned, alive, orphans>>
  BY LeaseShape DEF Break, NextAttempt, Move, writerVars
<1>2. x \in Runners /\ Gone(x) /\ record[x] # None /\ (lease = x \/ tomb[x] = x)
  BY <1>1, LeaseShape DEF Guarded, JudgesAreInformed, RecordsAreFound
<1>3. x \notin alive \ orphans
  BY <1>1, <1>2 DEF JudgesKnowTheDead
<1>4. lease' = lease \/ lease = x
  BY <1>2, LeaseShape DEF Break, MoveAside, Vacant
<1>5. alive \subseteq Runners \ {p}
  BY <1>1 DEF WritersAreAttended, LeaseTypeOK
<1>6. \A q \in Runners : phase[q] \in {"judge", "break"} => seen[q].token \in Runners \ {p}
  BY <1>1, LeaseShape DEF Guarded, JudgesAreInformed, Claimed
<1>7. WritersAreAttended' BY <1>1, <1>3, <1>4, <1>5 DEF WritersAreAttended, Covered
<1>8. JudgesKnowTheDead' BY <1>1, <1>6 DEF JudgesKnowTheDead
<1> QED BY <1>7, <1>8

\* Only its runner rewrites a record, and only while it runs.
LEMMA WriteAttended ==
  ASSUME LeaseTypeOK, Guarded, Attended, NEW p \in Runners, WriteUpdate(p)
  PROVE  Attended'
<1> USE DEF Attended, Gone
<1>1. phase[p] = "run" /\ lease = p
  BY DEF WriteUpdate, Guarded, HoldersLead, Holds
<1>2. /\ \A d \in Runners \ {p} : record'[d] = record[d]
      /\ UNCHANGED <<lease, phase, seen, step, spawned, alive, orphans>>
  BY <1>1, LeaseShape DEF WriteUpdate, claimVars, writerVars
<1>3. WritersAreAttended' BY <1>1, <1>2 DEF WritersAreAttended, Covered
<1>4. \A q \in Runners : phase[q] \in {"judge", "break"} => seen[q].token \in Runners
  BY LeaseShape
<1>5. JudgesKnowTheDead' BY <1>1, <1>2, <1>4 DEF JudgesKnowTheDead
<1> QED BY <1>3, <1>5

\* A dispatch ends only after its writer's end has been observed.
LEMMA WorkAttended ==
  ASSUME LeaseTypeOK, Guarded, Attended, NEW p \in Runners, Work(p) \/ WriterExits(p)
  PROVE  Attended'
<1> USE DEF Attended, Gone
<1>1. UNCHANGED <<lease, record, phase, seen, orphans>>
  BY DEF Work, Dispatch, Spawn, SpawnFails, Launched, Closed, WriterExits, pathVars, claimVars
<1>2. CASE WriterExits(p)
  <2>1. alive' = alive \ {p} /\ UNCHANGED <<step, spawned>> BY <1>2 DEF WriterExits
  <2> QED BY <1>1, <2>1 DEF WritersAreAttended, JudgesKnowTheDead, Covered
<1>3. CASE Spawn(p)
  <2>1. /\ phase[p] = "run" /\ alive' = alive \cup {p}
        /\ step'[p] = "forked" /\ spawned'[p] = spawned[p] + 1 /\ spawned[p] \in Nat
        /\ \A q \in Runners \ {p} : step'[q] = step[q] /\ spawned'[q] = spawned[q]
    BY <1>3 DEF Spawn, LeaseTypeOK
  <2>2. alive \subseteq Runners BY DEF LeaseTypeOK
  <2>3. WritersAreAttended'
    BY <1>1, <2>1, <2>2 DEF WritersAreAttended, Covered
  <2>4. JudgesKnowTheDead' BY <1>1, <2>1 DEF JudgesKnowTheDead
  <2> QED BY <2>3, <2>4
<1>4. CASE Dispatch(p) \/ SpawnFails(p) \/ Launched(p) \/ Closed(p)
  <2>1. /\ phase[p] = "run" /\ UNCHANGED <<spawned, alive>>
        /\ \A q \in Runners \ {p} : step'[q] = step[q]
        /\ p \in alive => step'[p] \in {"forked", "launched"}
    BY <1>4 DEF Dispatch, SpawnFails, Launched, Closed, LeaseTypeOK, WritersAreAttended
  <2>2. alive \subseteq Runners BY DEF LeaseTypeOK
  <2>3. WritersAreAttended' BY <1>1, <2>1, <2>2 DEF WritersAreAttended, Covered
  <2>4. JudgesKnowTheDead' BY <1>1, <2>1 DEF JudgesKnowTheDead
  <2> QED BY <2>3, <2>4
<1> QED BY <1>2, <1>3, <1>4 DEF Work

\* A runner that releases has no writer left.
LEMMA ReleaseAttended ==
  ASSUME LeaseTypeOK, Guarded, Attended, NEW p \in Runners, Release(p) \/ Unlink(p) \/ Rmdir(p)
  PROVE  Attended'
<1> USE DEF Attended, Gone
<1>1. /\ phase[p] \in {"run", "unlink", "rmdir"}
      /\ phase'[p] \in {"unlink", "rmdir", "exit"}
      /\ phase[p] = "run" => step[p] = "idle"
      /\ \A q \in Runners \ {p} : phase'[q] = phase[q]
      /\ UNCHANGED <<seen, step, spawned, alive, orphans>>
  BY LeaseShape DEF Release, Unlink, Rmdir, Move, writerVars
<1>2. alive \subseteq Runners \ {p}
  BY <1>1 DEF WritersAreAttended, LeaseTypeOK
<1>3. /\ \A d \in Runners \ {p} : record'[d] = record[d]
      /\ \A d \in Runners \ {p} : lease = d /\ record[d] # None => lease' = d
  <2>1. CASE Release(p) BY <2>1 DEF Release, pathVars
  <2>2. CASE Unlink(p)
    <3>1. lease = p /\ lease' = lease BY <2>2 DEF Unlink, Guarded, HoldersLead, Holds
    <3> QED BY <2>2, <3>1, LeaseShape DEF Unlink
  <2>3. CASE Rmdir(p) BY <2>3, LeaseShape DEF Rmdir, Vacant
  <2> QED BY <2>1, <2>2, <2>3
<1>4. WritersAreAttended' BY <1>1, <1>2, <1>3 DEF WritersAreAttended, Covered
<1>5. \A q \in Runners : phase[q] \in {"judge", "break"} => q # p /\ seen[q].token \in Runners
  BY <1>1, LeaseShape
<1>6. JudgesKnowTheDead' BY <1>1, <1>3, <1>5 DEF JudgesKnowTheDead
<1> QED BY <1>4, <1>6

\* A runner is killed with a record that covers its writer, or orphans it.
LEMMA EndAttended ==
  ASSUME Prompt, LeaseTypeOK, Guarded, Attended, NEW p \in Runners, Exit(p) \/ KillRunner(p)
  PROVE  Attended'
<1> USE DEF Attended, Gone
<1>1. /\ phase[p] \notin {"refused", "gone"} /\ phase'[p] = "gone"
      /\ \A q \in Runners \ {p} : phase'[q] = phase[q]
      /\ UNCHANGED <<lease, record, seen, step, spawned, alive>> /\ orphans \subseteq orphans'
  BY LeaseShape DEF Exit, KillRunner, Move, pathVars, writerVars
<1>2. ~JudgedByOldRecord(p)
  BY DEF Exit, KillRunner
<1>3. p \in alive => phase[p] = "run" /\ (p \notin orphans' => Covered(p))
  BY <1>1 DEF WritersAreAttended, Exit, KillRunner
<1>4. phase[p] = "run" => lease = p
  BY DEF Guarded, HoldersLead, Holds
<1>5. alive \subseteq Runners BY DEF LeaseTypeOK
<1>6. WritersAreAttended' BY <1>1, <1>3, <1>4, <1>5 DEF WritersAreAttended, Covered
<1>7. ASSUME NEW q \in Runners, phase[q] \in {"judge", "break"}, seen[q].token = p
      PROVE  phase[q] = "judge" /\ seen[q] = record[p]
  <2>1. phase[q] = "judge" BY <1>1, <1>7 DEF Guarded, JudgesAreInformed
  <2> QED BY <1>2, <1>7, <2>1 DEF JudgedByOldRecord
<1>8. JudgesKnowTheDead' BY <1>1, <1>7, LeaseShape DEF JudgesKnowTheDead
<1> QED BY <1>6, <1>8

LEMMA StepAttended ==
  ASSUME Prompt, LeaseTypeOK, Guarded, Attended, [LeaseNext]_leaseVars
  PROVE  Attended'
<1>1. CASE UNCHANGED leaseVars
  BY <1>1, QuietAttended DEF leaseVars, pathVars, claimVars, writerVars
<1>2. ASSUME NEW p \in Runners,
             Acquire(p) \/ Work(p) \/ WriterExits(p) \/ Task(p) \/ Leave(p) \/ KillRunner(p)
      PROVE  Attended'
  <2>1. CASE Acquire(p)
    BY <2>1, ClaimAttended, LookAttended, BreakAttended DEF Acquire
  <2>2. CASE Work(p) \/ WriterExits(p)
    BY <2>2, WorkAttended
  <2>3. CASE TakeUpdate(p)
    BY <2>3, QuietAttended DEF TakeUpdate, pathVars, claimVars, writerVars
  <2>4. CASE WriteUpdate(p)
    BY <2>4, WriteAttended
  <2>5. CASE Leave(p) \/ KillRunner(p)
    BY <2>5, ReleaseAttended, EndAttended DEF Leave
  <2> QED BY <1>2, <2>1, <2>2, <2>3, <2>4, <2>5 DEF Task
<1> QED BY <1>1, <1>2 DEF LeaseNext

\* One revival at a time uses the session file, its surviving writer included, but for writers
\* orphaned by a kill that came while the record missed them, if no runner is gone while an
\* outdated record of it is judged.
THEOREM SessionHasOneKnownUser == Prompt => (LeaseSpec => []OneKnownUser)
<1> SUFFICES ASSUME Prompt PROVE LeaseSpec => []OneKnownUser
  OBVIOUS
<1>1. LeaseInit => LeaseInv /\ Attended
  BY InitTyped, InitGuarded, InitAttended DEF LeaseInv
<1>2. LeaseInv /\ Attended /\ [LeaseNext]_leaseVars => LeaseInv' /\ Attended'
  BY StepTyped, StepGuarded, StepAttended DEF LeaseInv
<1>3. LeaseInv /\ Attended => OneKnownUser
  <2>1. ASSUME LeaseInv, Attended, NEW p \in Runners \ orphans, Uses(p) PROVE lease = p
    BY <2>1 DEF LeaseInv, Guarded, HoldersLead, Holds, Attended, WritersAreAttended, Uses
  <2> QED BY <2>1 DEF OneKnownUser
<1> QED BY <1>1, <1>2, <1>3, PTL DEF LeaseSpec
=============================================================================
