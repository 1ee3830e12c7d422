-------------------------------- MODULE Watch --------------------------------
(***************************************************************************)
(* What observing a Pico document promises (cyrup-pico, spec of            *)
(* session.rs and slot.rs): a subscription captures its baseline and       *)
(* registers in one instant, from then on it is owed every committed       *)
(* value, it delivers what it owes in order, it may drop all but the       *)
(* newest when it owes too much, and the retirement of the document is     *)
(* the last thing it delivers.                                             *)
(***************************************************************************)
EXTENDS Integers, Sequences

CONSTANTS
  Docs,        \* incarnations of documents
  Values,      \* committed values: numbers from 1, in the order of their commits
  Subscribers,
  MaxPending,  \* how much a subscription may owe before it collapses
  None

Retired == 0   \* what a retirement delivers

VARIABLES
  truth,  \* per document: its committed value, None while it has no live incarnation
  status, \* per subscriber: out, opening, open, or ended
  bound,  \* per subscriber: its document
  view,   \* per subscriber: the value it shows
  owed    \* per subscriber: the values committed and not delivered

watchVars == <<truth, status, bound, view, owed>>

Live(s) == status[s] \in {"opening", "open"}

WatchInit ==
  /\ truth \in [Docs -> {None}]
  /\ status = [s \in Subscribers |-> "out"]
  /\ bound = [s \in Subscribers |-> None]
  /\ view = [s \in Subscribers |-> None]
  /\ owed = [s \in Subscribers |-> <<>>]

Owe(d, v) ==
  owed' = [s \in Subscribers |-> IF Live(s) /\ bound[s] = d THEN Append(owed[s], v) ELSE owed[s]]

\* A committed value becomes known: a commit, or a first read from storage.
Commit(d) ==
  \E v \in Values :
    /\ truth[d] # None => v > truth[d]
    /\ truth' = [truth EXCEPT ![d] = v]
    /\ Owe(d, v)
    /\ UNCHANGED <<status, bound, view>>

Retire(d) ==
  /\ truth[d] # None
  /\ truth' = [truth EXCEPT ![d] = None]
  /\ Owe(d, Retired)
  /\ UNCHANGED <<status, bound, view>>

\* The baseline and the registration, in one instant; the session may be closing.
Open(s) ==
  \E d \in Docs, to \in {"opening", "ended"} :
    /\ status[s] = "out" /\ truth[d] # None
    /\ status' = [status EXCEPT ![s] = to]
    /\ bound' = [bound EXCEPT ![s] = d]
    /\ view' = [view EXCEPT ![s] = truth[d]]
    /\ UNCHANGED <<truth, owed>>

Opened(s) ==
  /\ status[s] = "opening"
  /\ status' = [status EXCEPT ![s] = "open"]
  /\ UNCHANGED <<truth, bound, view, owed>>

\* What is owed goes out in order; a retirement is the end.
Deliver(s) ==
  /\ status[s] = "open" /\ owed[s] # <<>>
  /\ view' = [view EXCEPT ![s] = Head(owed[s])]
  /\ IF Head(owed[s]) = Retired
     THEN status' = [status EXCEPT ![s] = "ended"] /\ owed' = [owed EXCEPT ![s] = <<>>]
     ELSE owed' = [owed EXCEPT ![s] = Tail(@)] /\ UNCHANGED status
  /\ UNCHANGED <<truth, bound>>

\* Owing too much, a set of subscriptions owes only the newest value.
Collapse ==
  \E S \in (SUBSET Subscribers) \ {{}} :
    /\ \A s \in S : Live(s) /\ owed[s] # <<>>
                    /\ (Len(owed[s]) > MaxPending \/ status[s] = "opening")
    /\ owed' = [s \in Subscribers |-> IF s \in S THEN <<owed[s][Len(owed[s])]>> ELSE owed[s]]
    /\ UNCHANGED <<truth, status, bound, view>>

\* Stopped, cancelled, failed, dropped or closed, one subscription or all.
End ==
  \E S \in (SUBSET Subscribers) \ {{}} :
    /\ \A s \in S : Live(s)
    /\ status' = [s \in Subscribers |-> IF s \in S THEN "ended" ELSE status[s]]
    /\ owed' = [s \in Subscribers |-> IF s \in S THEN <<>> ELSE owed[s]]
    /\ UNCHANGED <<truth, bound, view>>

WatchNext ==
  \/ \E d \in Docs : Commit(d) \/ Retire(d)
  \/ \E s \in Subscribers : Open(s) \/ Opened(s) \/ Deliver(s)
  \/ Collapse \/ End

WatchSpec == WatchInit /\ [][WatchNext]_watchVars
=============================================================================
