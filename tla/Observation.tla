----------------------------- MODULE Observation -----------------------------
(***************************************************************************)
(* Observing a Pico session: cyrup-pico/src/slot.rs and session.rs, with   *)
(* the document authority of docs.rs and the consumers of watch.rs and     *)
(* state.rs.                                                               *)
(*                                                                         *)
(* One committer owns the mutation line.  A commit swaps the authority's   *)
(* trackers and then, in a second step, publishes its frames into the      *)
(* slots registered for the document.  A subscription is acquired off the  *)
(* line: it resolves the address, registers its slot, reads value and      *)
(* revision, and arms the slot with them.  Its consumer enables a wake-up, *)
(* takes a frame or waits.                                                 *)
(*                                                                         *)
(* All documents here are incarnations at one address.  A commit touches   *)
(* one of them (publish treats the changes of a commit one by one); values *)
(* are numbered in the order of their commits.  Left out: operations and   *)
(* contexts of frames, observers, storage (module JsonlStore).             *)
(***************************************************************************)
EXTENDS Integers, Sequences, SeqFilter

CONSTANTS
  Docs,            \* the incarnations that the address may have, in turn
  Subscribers,     \* acquisitions of subscriptions
  MaxPending,      \* MAX_PENDING_FRAMES
  MaxValue,        \* commits to one document (a bound)
  MigratesWatched, \* a document is migrated while a subscription is bound to it
  None

\* Why a slot ends.
Reasons == {"retired", "stopped", "cancelled", "failed", "closed"}

\* A change of a document to a value of a revision; a retirement has none.
Frames == [value : Nat, revision : Nat \cup {None}]

ASSUME ObservationAssumption ==
  /\ None \notin Docs \cup Nat \cup Reasons /\ None \notin Frames
  /\ MaxPending \in Nat \ {0} /\ MaxValue \in Nat \ {0}
  /\ MigratesWatched \in BOOLEAN

VARIABLES
  stored,     \* per document: what storage holds (absent, old, current or retired)
  value,      \* per document: the number of its newest committed value
  tracker,    \* per document: its revision in the authority, None if not there
  current,    \* the incarnation the authority has at the address
  line,       \* where the committer is
  change,     \* the change it publishes
  registered, \* the subscribers whose slots are in the registry
  pc,         \* per subscriber: where it is
  doc,        \* per subscriber: the incarnation its slot is bound to
  taken,      \* per subscriber: the baseline it has read, not yet armed with
  baseline,   \* per slot: the watermark
  view,       \* per slot: current, what the consumer sees
  pending,    \* per slot: the buffered frames (a value and its revision, None for a retirement)
  end,        \* per slot: why it ended
  woken,      \* per subscriber: its enabled wake-up has been notified
  cancelled   \* the subscribers whose context is cancelled

lineVars == <<stored, value, tracker, current, line, change>>
slotVars == <<baseline, view, pending, end>>
vars     == <<lineVars, registered, pc, doc, taken, slotVars, woken, cancelled>>

-----------------------------------------------------------------------------

Retired == 0

Consuming == {"ready", "enabled", "checking", "waiting", "delivering"}

ObsInit ==
  /\ stored \in [Docs -> {"absent", "old", "current"}]
  /\ \A d, e \in Docs : stored[d] # "absent" /\ stored[e] # "absent" => d = e
  /\ value = [d \in Docs |-> IF stored[d] = "absent" THEN 0 ELSE 1]
  /\ tracker = [d \in Docs |-> None]
  /\ current = None
  /\ line = "idle"
  /\ change = None
  /\ registered = {}
  /\ pc = [s \in Subscribers |-> "find"]
  /\ doc = [s \in Subscribers |-> None]
  /\ taken = [s \in Subscribers |-> None]
  /\ baseline = [s \in Subscribers |-> None]
  /\ view = [s \in Subscribers |-> None]
  /\ pending = [s \in Subscribers |-> <<>>]
  /\ end = [s \in Subscribers |-> None]
  /\ woken = [s \in Subscribers |-> FALSE]
  /\ cancelled = {}

-----------------------------------------------------------------------------
(* The committer: adoption, then publication. *)

InStorage(d) == stored[d] \in {"old", "current"}

Watched(d) == \E s \in registered : doc[s] = d /\ end[s] = None

\* A transaction that reads a document puts it into the authority, committed or not.
Load(d) ==
  /\ line = "idle" /\ InStorage(d) /\ tracker[d] = None
  /\ tracker' = [tracker EXCEPT ![d] = 0]
  /\ current' = d
  /\ UNCHANGED <<stored, value, line, change, registered, pc, doc, taken, slotVars, woken, cancelled>>

Publishing(d, v) ==
  /\ line' = "publish"
  /\ change' = [doc |-> d, value |-> v]
  /\ UNCHANGED <<registered, pc, doc, taken, slotVars, woken, cancelled>>

\* Swap::Create.
Create(d) ==
  /\ line = "idle" /\ stored[d] = "absent"
  /\ \A e \in Docs : ~InStorage(e)
  /\ stored' = [stored EXCEPT ![d] = "current"]
  /\ value' = [value EXCEPT ![d] = 1]
  /\ tracker' = [tracker EXCEPT ![d] = 0]
  /\ current' = d
  /\ Publishing(d, 1)

\* Swap::Adopt.
ChangeValue(d) ==
  /\ line = "idle" /\ InStorage(d) /\ tracker[d] # None /\ value[d] < MaxValue
  /\ value' = [value EXCEPT ![d] = @ + 1]
  /\ tracker' = [tracker EXCEPT ![d] = @ + 1]
  /\ UNCHANGED <<stored, current>>
  /\ Publishing(d, value[d] + 1)

\* Swap::Rebase: the first write at a newer version starts a new tracker.
Migrate(d) ==
  /\ line = "idle" /\ stored[d] = "old" /\ value[d] < MaxValue
  /\ MigratesWatched \/ ~Watched(d)
  /\ stored' = [stored EXCEPT ![d] = "current"]
  /\ value' = [value EXCEPT ![d] = @ + 1]
  /\ tracker' = [tracker EXCEPT ![d] = 0]
  /\ current' = d
  /\ Publishing(d, value[d] + 1)

\* Swap::Retire.  The version is not looked at.
Retire(d) ==
  /\ line = "idle" /\ InStorage(d) /\ tracker[d] # None
  /\ stored' = [stored EXCEPT ![d] = "retired"]
  /\ tracker' = [tracker EXCEPT ![d] = None]
  /\ current' = IF current = d THEN None ELSE current
  /\ UNCHANGED value
  /\ Publishing(d, Retired)

\* Storage cannot tell whether it committed: the commit drops the line's only handle.
Uncertain ==
  /\ line = "idle"
  /\ line' = "lost"
  /\ UNCHANGED <<stored, value, tracker, current, change, registered, pc, doc, taken, slotVars, woken, cancelled>>

\* The frame of the change, at the revision the document is at after adoption.
Frame ==
  [value |-> change.value,
   revision |-> IF change.value = Retired THEN None ELSE tracker[change.doc]]

\* The retirement and the frames above the watermark pass; without one, all do.
Fresh(f, base) == f.revision = None \/ base = None \/ f.revision > base

FreshFrames(base) == {f \in Frames : Fresh(f, base)}

\* Plausible bug: the slot holds on to its oldest frames.
PushDroppingNewest(s, f) ==
  IF end[s] # None \/ ~Fresh(f, baseline[s]) \/ Len(pending[s]) >= MaxPending THEN pending[s]
  ELSE Append(pending[s], f)

Push(s, f) ==
  IF end[s] # None \/ ~Fresh(f, baseline[s]) THEN pending[s]
  ELSE IF Len(pending[s]) >= MaxPending THEN <<f>>
  ELSE Append(pending[s], f)

\* Plausible bug: the wake-up is made when the consumer starts to wait.
NotifyWaiting(S) == woken' = [s \in Subscribers |-> woken[s] \/ (s \in S /\ pc[s] = "waiting")]

\* notify_waiters reaches the wake-ups that are enabled.
Notify(S) ==
  woken' = [s \in Subscribers |->
             woken[s] \/ (s \in S /\ pc[s] \in {"enabled", "checking", "waiting"})]

\* The frame goes into every registered slot of the document.
Publish ==
  LET slots == {s \in registered : doc[s] = change.doc} IN
  /\ line = "publish"
  /\ pending' = [s \in Subscribers |-> IF s \in slots THEN Push(s, Frame) ELSE pending[s]]
  /\ Notify(slots)
  /\ line' = "idle"
  /\ change' = None
  /\ UNCHANGED <<stored, value, tracker, current, registered, pc, doc, taken, baseline, view, end, cancelled>>

\* Slots end once; what they have buffered goes.
Terminate(S, reason) ==
  /\ end' = [s \in Subscribers |-> IF s \in S /\ end[s] = None THEN reason ELSE end[s]]
  /\ pending' = [s \in Subscribers |-> IF s \in S /\ end[s] = None THEN <<>> ELSE pending[s]]
  /\ Notify(S)

\* Admission is sealed, ...
Seal ==
  /\ line = "idle"
  /\ line' = "sealed"
  /\ UNCHANGED <<stored, value, tracker, current, change, registered, pc, doc, taken, slotVars, woken, cancelled>>

\* ... and the registry is drained.
Close ==
  /\ line = "sealed"
  /\ line' = "closed"
  /\ Terminate(registered, "closed")
  /\ registered' = {}
  /\ UNCHANGED <<stored, value, tracker, current, change, pc, doc, taken, baseline, view, cancelled>>

-----------------------------------------------------------------------------
(* Acquiring a subscription, off the line. *)

Go(s, to) == pc' = [pc EXCEPT ![s] = to]

Find(s) ==
  /\ pc[s] = "find"
  /\ Go(s, IF current = None THEN "done" ELSE "register")
  /\ doc' = [doc EXCEPT ![s] = current]
  /\ UNCHANGED <<lineVars, registered, taken, slotVars, woken, cancelled>>

Register(s) ==
  /\ pc[s] = "register"
  /\ Go(s, "read")
  /\ registered' = registered \cup {s}
  /\ UNCHANGED <<lineVars, doc, taken, slotVars, woken, cancelled>>

\* The incarnation may be gone by now: the slot is dropped again.
ReadBaseline(s) ==
  /\ pc[s] = "read"
  /\ IF tracker[doc[s]] = None
     THEN /\ Go(s, "done")
          /\ Terminate({s}, "stopped")
          /\ registered' = registered \ {s}
          /\ UNCHANGED taken
     ELSE /\ Go(s, "arm")
          /\ taken' = [taken EXCEPT ![s] = [value |-> value[doc[s]], revision |-> tracker[doc[s]]]]
          /\ UNCHANGED <<end, pending, woken, registered>>
  /\ UNCHANGED <<lineVars, doc, baseline, view, cancelled>>

Arm(s) ==
  /\ pc[s] = "arm"
  /\ Go(s, "ready")
  /\ view' = [view EXCEPT ![s] = taken[s].value]
  /\ baseline' = [baseline EXCEPT ![s] = taken[s].revision]
  /\ pending' = [pending EXCEPT ![s] = Filter(@, FreshFrames(taken[s].revision))]
  /\ UNCHANGED <<lineVars, registered, doc, taken, end, woken, cancelled>>

-----------------------------------------------------------------------------
(* Consuming. *)

\* The wake-up is enabled before the buffer is looked at.
Enable(s) ==
  /\ pc[s] = "ready"
  /\ Go(s, "enabled")
  /\ woken' = [woken EXCEPT ![s] = FALSE]
  /\ UNCHANGED <<lineVars, registered, doc, taken, slotVars, cancelled>>

TakeFrame(s, to) ==
  LET f == Head(pending[s]) IN
  /\ pending[s] # <<>>
  /\ pending' = [pending EXCEPT ![s] = Tail(@)]
  /\ view' = [view EXCEPT ![s] = f.value]
  /\ end' = [end EXCEPT ![s] = IF f.value = Retired /\ @ = None THEN "retired" ELSE @]
  /\ Go(s, to)
  /\ UNCHANGED <<lineVars, registered, doc, taken, baseline, woken, cancelled>>

Take(s) == pc[s] = "enabled" /\ TakeFrame(s, "delivering")

TakeNothing(s) ==
  /\ pc[s] = "enabled" /\ pending[s] = <<>>
  /\ Go(s, "checking")
  /\ UNCHANGED <<lineVars, registered, doc, taken, slotVars, woken, cancelled>>

CheckEnd(s) ==
  /\ pc[s] = "checking"
  /\ Go(s, IF end[s] = None THEN "waiting" ELSE "done")
  /\ UNCHANGED <<lineVars, registered, doc, taken, slotVars, woken, cancelled>>

\* The listener returns; after a retirement the loop ends, as it does on its failure.
Delivered(s) ==
  /\ pc[s] = "delivering"
  /\ \/ Go(s, IF view[s] = Retired THEN "done" ELSE "ready") /\ UNCHANGED <<end, pending, woken>>
     \/ Go(s, "done") /\ Terminate({s}, "failed")
  /\ UNCHANGED <<lineVars, registered, doc, taken, baseline, view, cancelled>>

\* Cancellation is polled before the wake-up.
Wake(s) ==
  /\ pc[s] = "waiting"
  /\ IF s \in cancelled
     THEN Go(s, "done") /\ Terminate({s}, "cancelled")
     ELSE woken[s] /\ Go(s, "ready") /\ UNCHANGED <<end, pending, woken>>
  /\ UNCHANGED <<lineVars, registered, doc, taken, baseline, view, cancelled>>

Cancel(s) ==
  /\ s \notin cancelled
  /\ cancelled' = cancelled \cup {s}
  /\ UNCHANGED <<lineVars, registered, pc, doc, taken, slotVars, woken>>

\* The handle's stop(); the consumer finds the end by itself.
Stop(s) ==
  /\ pc[s] \in Consuming /\ end[s] = None
  /\ Terminate({s}, "stopped")
  /\ UNCHANGED <<lineVars, registered, pc, doc, taken, baseline, view, cancelled>>

\* The consumer is dropped with its registration.
Drop(s) ==
  /\ pc[s] \in Consuming
  /\ Go(s, "done")
  /\ Terminate({s}, "stopped")
  /\ registered' = registered \ {s}
  /\ UNCHANGED <<lineVars, doc, taken, baseline, view, cancelled>>

-----------------------------------------------------------------------------

Commit     == \E d \in Docs : Load(d) \/ Create(d) \/ ChangeValue(d) \/ Migrate(d) \/ Retire(d)
Line       == Commit \/ Publish \/ Uncertain \/ Seal \/ Close
Acquire(s) == Find(s) \/ Register(s) \/ ReadBaseline(s) \/ Arm(s)
Consume(s) == Enable(s) \/ Take(s) \/ TakeNothing(s) \/ CheckEnd(s) \/ Delivered(s) \/ Wake(s)

ObsNext ==
  \/ Line
  \/ \E s \in Subscribers : Acquire(s) \/ Consume(s) \/ Cancel(s) \/ Stop(s) \/ Drop(s)

Spec == ObsInit /\ [][ObsNext]_vars

\* A commit that has been adopted is published; a consumer that can go on does.
FairSpec ==
  Spec /\ WF_vars(Publish) /\ \A s \in Subscribers : WF_vars(Acquire(s)) /\ WF_vars(Consume(s))

-----------------------------------------------------------------------------
(* Properties. *)

Listening(s) == pc[s] \in Consuming /\ end[s] = None

\* A subscription with nothing left to deliver shows the committed value: no
\* frame is missed in the window between adoption and publication, between
\* registration and arming, or in an overflow (the table of slot.rs).
WatchesConverge ==
  \A s \in Subscribers :
    Listening(s) /\ pending[s] = <<>> /\ line # "publish"
      => tracker[doc[s]] # None /\ view[s] = value[doc[s]]

\* The acquisition has read its baseline: from here on it is owed every frame.
Bound(s) == taken[s] # None

Truth == [d \in Docs |-> IF tracker[d] = None THEN None ELSE value[d]]

StatusOf(s) ==
  IF ~Bound(s) THEN "out"
  ELSE IF end[s] # None THEN "ended"
  ELSE IF pc[s] = "arm" THEN "opening" ELSE "open"

ValuesOf(frames) == [i \in 1..Len(frames) |-> frames[i].value]

\* What is owed is what is buffered above the baseline, ...
Buffered(s) == ValuesOf(Filter(pending[s], FreshFrames(taken[s].revision)))

\* ... and the change that has been adopted and is not published yet.
Coming(s) ==
  IF line = "publish" /\ change.doc = doc[s] /\ Fresh(Frame, taken[s].revision)
  THEN <<change.value>> ELSE <<>>

Statuses == [s \in Subscribers |-> StatusOf(s)]
BoundTo  == [s \in Subscribers |-> IF Bound(s) THEN doc[s] ELSE None]
Shown    == [s \in Subscribers |-> IF pc[s] = "arm" THEN taken[s].value ELSE view[s]]
Owed     == [s \in Subscribers |->
               IF Bound(s) /\ end[s] = None THEN Buffered(s) \o Coming(s) ELSE <<>>]

Promise == INSTANCE Watch WITH
  Values <- 1..MaxValue,
  truth  <- Truth,
  status <- Statuses,
  bound  <- BoundTo,
  view   <- Shown,
  owed   <- Owed

\* Every subscription gets its baseline and then every committed value in order,
\* or the newest after an overflow, and the retirement last: acquisition,
\* adoption and publication, in their separate steps, implement the promise of
\* acquiring baseline and subscription in one instant.
ImplementsWatch == Promise!WatchSpec

\* A consumer is never left asleep over a frame or over the end of its
\* subscription: the wake-up is enabled before the buffer is looked at (next).
ConsumersWake ==
  \A s \in Subscribers :
    (pc[s] \in Consuming /\ (pending[s] # <<>> \/ end[s] # None))
      ~> pc[s] \in {"delivering", "done"}
=============================================================================
