------------------------------ MODULE SeqFilter ------------------------------
(***************************************************************************)
(* Filtering a sequence and counting in it: what iter().filter and the     *)
(* retain of a queue do with a list of messages, calls or lines.           *)
(*                                                                         *)
(* The test is membership in a set.  Kept is a function of the number of   *)
(* elements looked at, for the facts proved about it in SeqFilterProofs.   *)
(***************************************************************************)
EXTENDS Integers, Sequences, FiniteSets

\* What is kept of the first n elements, for each n.
Kept(s, S) ==
  LET kept[n \in 0..Len(s)] ==
        IF n = 0 THEN <<>>
        ELSE IF s[n] \in S THEN Append(kept[n - 1], s[n]) ELSE kept[n - 1]
  IN  kept

\* The elements of s that are in S, in their order.
Filter(s, S) == Kept(s, S)[Len(s)]

\* How often m occurs in s.
Count(m, s) == Cardinality({i \in DOMAIN s : s[i] = m})
=============================================================================
