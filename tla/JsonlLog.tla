------------------------------- MODULE JsonlLog -------------------------------
(***************************************************************************)
(* main.jsonl as the writer means it and as recovery reads it: the lines   *)
(* of wire.rs, Committed::apply_line of state.rs, and the replay loop of   *)
(* recover.rs.  Pure operators; module JsonlStore has the processes.       *)
(*                                                                         *)
(* Lengths count records, not bytes.  A write that stopped short leaves a  *)
(* Torn element at the end of the file; appending behind it completes one  *)
(* undecodable line.                                                       *)
(***************************************************************************)
EXTENDS SeqFilter, SequencesExt

CONSTANTS
  Docs,        \* document incarnations
  Rewindable   \* those whose record retains history

ASSUME DocsAssumption == IsFiniteSet(Docs) /\ Rewindable \subseteq Docs

\* A map after an insert.
Put(m, k, v) == [x \in DOMAIN m \cup {k} |-> IF x = k THEN v ELSE m[x]]

-----------------------------------------------------------------------------
(* Lines. *)

Torn    == [kind |-> "torn"]
Garbage == [kind |-> "garbage"]

Row(seq, id)           == [kind |-> "row", seq |-> seq, id |-> id]
Document(seq, d, open) == [kind |-> "document", seq |-> seq, doc |-> d, open |-> open]
Retire(seq, d)         == [kind |-> "retire", seq |-> seq, doc |-> d]
Marker(seq, n, docs)   == [kind |-> "marker", seq |-> seq, main |-> n, docs |-> docs]
Mint(high)             == [kind |-> "mint", high |-> high]
Reclaim(d, gen, keep)  == [kind |-> "reclaim", doc |-> d, generation |-> gen, keep |-> keep]

EndsTorn(file) == file # <<>> /\ Last(file) = Torn

\* What an O_APPEND write leaves behind, whole or cut short.
Written(file, record) ==
  IF EndsTorn(file) THEN Append(Front(file), Garbage) ELSE Append(file, record)
CutShort(file) == IF EndsTorn(file) THEN file ELSE Append(file, Torn)

-----------------------------------------------------------------------------
(* Committed state. *)

Empty == [last |-> 0, next |-> 2, reserved |-> 1, rows |-> {}, docs |-> <<>>]

End(doc) == IF doc.slices = <<>> THEN 0 ELSE Last(doc.slices).end

\* The index of the newest base among the slices, 0 when there is none.
NewestBase(slices) == Max({0} \cup {i \in DOMAIN slices : slices[i].base})

\* The offset at which slice i starts.
Start(slices, i) == IF i <= 1 THEN 0 ELSE slices[i - 1].end

Reclaimable(st, d) == d \notin Rewindable /\ NewestBase(st.docs[d].slices) > 1

Live(st) == {d \in DOMAIN st.docs : st.docs[d].open}

\* apply_line refuses what cannot be reconciled with what is already applied...
Applicable(st, line) ==
  CASE line.kind = "row"      -> line.id \notin st.rows
    [] line.kind = "document" -> line.doc \notin DOMAIN st.docs
    [] line.kind = "retire"   -> line.doc \in Live(st)
    [] line.kind = "reclaim"  -> line.doc \in DOMAIN st.docs
    [] line.kind = "mint"     -> TRUE
    [] line.kind = "marker"   ->
         /\ line.seq > st.last
         /\ \A d \in DOMAIN line.docs :
              d \in DOMAIN st.docs /\ line.docs[d].end > End(st.docs[d])

\* A marker adds one slice to every document it names.
WithSlices(docs, line) ==
  [d \in DOMAIN docs |->
     IF d \in DOMAIN line.docs
     THEN [docs[d] EXCEPT !.slices =
             Append(@, [seq |-> line.seq, end |-> line.docs[d].end, base |-> line.docs[d].base])]
     ELSE docs[d]]

\* Plausible bug: replaying a reservation restores the ceiling and spends nothing.
SpendNothing(st, high) == [st EXCEPT !.reserved = Max({@, high})]

\* Recovery spends the whole block a Mint line reserved: it cannot know how far the writer
\* that reserved it got.
Spend(st, high) == [st EXCEPT !.reserved = Max({@, high}), !.next = Max({@, high + 1})]

\* ...and applies the rest.
Apply(st, line) ==
  CASE line.kind = "row" ->
         [st EXCEPT !.rows = @ \cup {line.id}, !.next = Max({@, line.id + 1})]
    [] line.kind = "document" ->
         [st EXCEPT !.docs =
            Put(@, line.doc, [generation |-> 0, slices |-> <<>>, open |-> line.open])]
    [] line.kind = "retire" ->
         [st EXCEPT !.docs[line.doc].open = FALSE]
    [] line.kind = "marker" ->
         [st EXCEPT !.last = line.seq, !.docs = WithSlices(@, line)]
    [] line.kind = "mint" ->
         Spend(st, line.high)
    [] line.kind = "reclaim" ->
         [st EXCEPT !.docs[line.doc] =
            [@ EXCEPT !.generation = line.generation, !.slices = line.keep]]

\* Apply a run of lines, stopping at the first one that does not fit.
ApplyAll(st, lines) ==
  LET after[n \in 0..Len(lines)] ==
        IF n = 0
        THEN [ok |-> TRUE, st |-> st]
        ELSE LET r == after[n - 1] IN
             IF r.ok /\ Applicable(r.st, lines[n])
             THEN [ok |-> TRUE, st |-> Apply(r.st, lines[n])]
             ELSE [r EXCEPT !.ok = FALSE]
  IN  after[Len(lines)]

-----------------------------------------------------------------------------
(* The replay loop of recover::open. *)

\* What one commit did, for the abstract log.
CommitOf(records, marker) ==
  [seq     |-> marker.seq,
   rows    |-> {r.id : r \in {x \in ToSet(records) : x.kind = "row"}},
   created |-> {r.doc : r \in {x \in ToSet(records) : x.kind = "document"}},
   retired |-> {r.doc : r \in {x \in ToSet(records) :
                                 x.kind = "retire" \/ (x.kind = "document" /\ ~x.open)}},
   wrote   |-> [d \in DOMAIN marker.docs |-> marker.docs[d].base]]

\* pending: record lines whose marker has not been read.  confirmed: the length of the
\* prefix that ends in a marker, a mint or a reclamation.
ReplayStart == [ok |-> TRUE, st |-> Empty, pending |-> <<>>, read |-> 0, confirmed |-> 0,
                commits |-> <<>>]

\* Plausible bug: the confirmed prefix ends where the confirming line starts.
ConfirmedBefore(r) == r.read

\* The line being read, r.read + 1 in the file, confirms itself and everything before it.
ConfirmedTo(r) == r.read + 1

Confirm(r, line) ==
  LET applied == ApplyAll(r.st, Append(r.pending, line)) IN
  [r EXCEPT !.ok = applied.ok,
            !.st = applied.st,
            !.pending = <<>>,
            !.read = @ + 1,
            !.confirmed = ConfirmedTo(r),
            !.commits = IF line.kind = "marker" THEN Append(@, CommitOf(r.pending, line)) ELSE @]

ReplayLine(r, line) ==
  IF ~r.ok \/ line.kind = "torn" THEN r ELSE
  CASE line.kind = "garbage" -> [r EXCEPT !.ok = FALSE]
    [] line.kind = "marker" ->
         IF Len(r.pending) = line.main /\ \A p \in ToSet(r.pending) : p.seq = line.seq
         THEN Confirm(r, line)
         ELSE [r EXCEPT !.ok = FALSE]
    [] line.kind \in {"mint", "reclaim"} ->
         IF r.pending = <<>> THEN Confirm(r, line) ELSE [r EXCEPT !.ok = FALSE]
    [] OTHER -> [r EXCEPT !.pending = Append(@, line), !.read = @ + 1]

Replay(file) ==
  LET upto[n \in 0..Len(file)] ==
        IF n = 0 THEN ReplayStart ELSE ReplayLine(upto[n - 1], file[n])
  IN  upto[Len(file)]

\* The commits that wrote d, in their order.
WritersOf(commits, d) == Filter(commits, {c \in ToSet(commits) : d \in DOMAIN c.wrote})

\* What a history says a document holds: the commits that wrote it, back to its newest
\* base -- or all of them, when the document is rewindable.
Value(commits, d) ==
  LET wrote == WritersOf(commits, d)
      base  == Max({1} \cup {i \in DOMAIN wrote : wrote[i].wrote[d]})
      from  == IF d \in Rewindable THEN 1 ELSE base
  IN  [i \in 1..(Len(wrote) + 1 - from) |-> wrote[from + i - 1].seq]
=============================================================================
