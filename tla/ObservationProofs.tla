--------------------------- MODULE ObservationProofs ---------------------------
(***************************************************************************)
(* That acquiring a subscription in four steps beside a line that adopts   *)
(* and publishes in two keeps the promise of one instant, for any          *)
(* documents, subscribers and commits, as long as no document is migrated  *)
(* under a subscription.                                                   *)
(***************************************************************************)
EXTENDS Observation, SeqFilterProofs

Places == {"find", "register", "read", "arm", "done"} \cup Consuming

ObsTypes ==
  /\ stored \in [Docs -> {"absent", "old", "current", "retired"}]
  /\ value \in [Docs -> 0..MaxValue]
  /\ tracker \in [Docs -> Nat \cup {None}]
  /\ current \in Docs \cup {None}
  /\ registered \subseteq Subscribers
  /\ pc \in [Subscribers -> Places]
  /\ doc \in [Subscribers -> Docs \cup {None}]
  /\ taken \in [Subscribers -> [value : Nat, revision : Nat] \cup {None}]
  /\ baseline \in [Subscribers -> Nat \cup {None}]
  /\ view \in [Subscribers -> Nat \cup {None}]
  /\ pending \in [Subscribers -> Seq(Frames)]
  /\ end \in [Subscribers -> Reasons \cup {None}]
  /\ woken \in [Subscribers -> BOOLEAN]

\* What the line is about to publish has been adopted.
LineInv ==
  /\ \A d \in Docs : /\ tracker[d] # None => InStorage(d)
                     /\ InStorage(d) => value[d] # 0
  /\ current # None => tracker[current] # None
  /\ line = "publish" => /\ change \in [doc : Docs, value : 0..MaxValue]
                         /\ change.value = Retired <=> tracker[change.doc] = None
                         /\ change.value = Retired => stored[change.doc] = "retired"

\* Where a subscriber is, what it has and whether its slot can be reached.
SlotInv(s) ==
  /\ pc[s] \in {"find", "register"} => end[s] = None
  /\ pc[s] \in {"find", "register", "read"} => taken[s] = None
  /\ pc[s] \in {"arm"} \cup Consuming => taken[s] # None
  /\ pc[s] \in {"find", "register", "done"} /\ end[s] = None => taken[s] = None /\ pending[s] = <<>> /\ s \notin registered
  /\ pc[s] \notin {"find", "done"} \/ taken[s] # None => doc[s] \in Docs
  /\ pc[s] \in {"find", "register", "read", "arm"} => baseline[s] = None
  /\ pc[s] \in {"read", "arm"} \cup Consuming /\ end[s] = None => s \in registered
  /\ end[s] # None => pending[s] = <<>>
  /\ pc[s] = "delivering" /\ view[s] = Retired => end[s] # None

\* The incarnation a slot is bound to is in the authority until it is retired.
DocInv(s) == doc[s] \in Docs => tracker[doc[s]] # None \/ stored[doc[s]] = "retired"

\* What is buffered has been committed, and a retirement is the last of it.
PendingInv(s) ==
  \A i \in 1..Len(pending[s]) :
    LET f == pending[s][i]
    IN  /\ f.value = Retired <=> f.revision = None
        /\ f.revision # None /\ tracker[doc[s]] # None => f.revision <= tracker[doc[s]]
        /\ f.revision = None => /\ i = Len(pending[s]) /\ tracker[doc[s]] = None
                                /\ ~(line = "publish" /\ change.doc = doc[s])

\* An armed slot buffers only what it owes, above a baseline that has been committed.
BaselineInv(s) ==
  /\ taken[s] # None /\ end[s] = None /\ tracker[doc[s]] # None => taken[s].revision <= tracker[doc[s]]
  /\ pc[s] \in Consuming => /\ baseline[s] = taken[s].revision
                            /\ \A i \in 1..Len(pending[s]) : Fresh(pending[s][i], taken[s].revision)

ObsInv ==
  /\ ObsTypes /\ LineInv
  /\ \A s \in Subscribers : SlotInv(s) /\ DocInv(s) /\ PendingInv(s) /\ BaselineInv(s)

-----------------------------------------------------------------------------
(* The invariant. *)

slotState == <<registered, pc, doc, taken, baseline, view, pending, end>>

\* What the invariant says of a subscriber.
SubInv(s) == SlotInv(s) /\ DocInv(s) /\ PendingInv(s) /\ BaselineInv(s)

LEMMA NoneFacts == None \notin Docs /\ None \notin Nat /\ None \notin Reasons /\ None \notin Frames
BY ObservationAssumption

\* Nothing is known of a subscription to begin with.
LEMMA InitObsInv ==
  ASSUME ObsInit
  PROVE  ObsInv
<1>1. ObsTypes
  <2>1. <<>> \in Seq(Frames) OBVIOUS
  <2>2. MaxValue \in Nat \ {0} BY ObservationAssumption
  <2>3. stored \in [Docs -> {"absent", "old", "current", "retired"}] BY DEF ObsInit
  <2>4. value \in [Docs -> 0..MaxValue] BY <2>2 DEF ObsInit
  <2> QED BY <2>1, <2>3, <2>4 DEF ObsInit, ObsTypes, Places
<1>2. LineInv BY DEF ObsInit, LineInv, InStorage
<1>3. ASSUME NEW s \in Subscribers PROVE SubInv(s)
  <2>1. pc[s] = "find" /\ doc[s] = None /\ taken[s] = None /\ baseline[s] = None /\ pending[s] = <<>> /\ end[s] = None
        /\ s \notin registered
    BY DEF ObsInit
  <2>2. Len(<<>>) = 0 OBVIOUS
  <2> QED BY <2>1, <2>2, NoneFacts DEF SubInv, SlotInv, DocInv, PendingInv, BaselineInv, Consuming
<1> QED BY <1>1, <1>2, <1>3 DEF ObsInv, SubInv

\* A step of the line that adopts, or that ends it, leaves the slots alone: enough that it takes a live
\* slot's tracker on or retires its document.
LEMMA LineMoves ==
  ASSUME ObsInv, UNCHANGED slotState, ObsTypes', LineInv',
         \A s \in Subscribers :
           doc[s] \in Docs =>
             \/ /\ stored'[doc[s]] = "retired" /\ tracker'[doc[s]] = None
                /\ tracker[doc[s]] = None => ~(line' = "publish" /\ change'.doc = doc[s])
             \/ /\ tracker[doc[s]] # None /\ tracker'[doc[s]] # None
                /\ end[s] = None /\ s \in registered => tracker[doc[s]] <= tracker'[doc[s]]
  PROVE  ObsInv'
<1>1. ASSUME NEW s \in Subscribers PROVE SubInv(s)'
  <2>1. SlotInv(s) /\ DocInv(s) /\ PendingInv(s) /\ BaselineInv(s) BY DEF ObsInv
  <2>2. SlotInv(s)' BY <2>1 DEF slotState, SlotInv
  <2>3. /\ registered' = registered /\ pc'[s] = pc[s] /\ doc'[s] = doc[s] /\ taken'[s] = taken[s]
        /\ baseline'[s] = baseline[s] /\ pending'[s] = pending[s] /\ end'[s] = end[s]
    BY DEF slotState
  <2>4. DocInv(s)' BY <2>3 DEF DocInv
  <2>5. ASSUME end[s] = None, pending[s] # <<>> \/ taken[s] # None PROVE s \in registered /\ doc[s] \in Docs
    <3>1. pc[s] \in {"read", "arm"} \cup Consuming BY <2>1, <2>5 DEF SlotInv, ObsInv, ObsTypes, Places
    <3> QED BY <2>1, <2>5, <3>1 DEF SlotInv, Consuming
  <2>6. /\ pending[s] \in Seq(Frames) /\ \A i \in 1..Len(pending[s]) : pending[s][i] \in Frames
        /\ taken[s] \in [value : Nat, revision : Nat] \cup {None}
    BY DEF ObsInv, ObsTypes
  <2>7. \A d \in Docs : tracker[d] \in Nat \cup {None} /\ tracker'[d] \in Nat \cup {None} BY DEF ObsInv, ObsTypes
  <2>8. PendingInv(s)'
    <3> SUFFICES ASSUME NEW i \in 1..Len(pending[s])
                 PROVE  LET f == pending[s][i]
                        IN  /\ f.value = Retired <=> f.revision = None
                            /\ f.revision # None /\ tracker'[doc[s]] # None => f.revision <= tracker'[doc[s]]
                            /\ f.revision = None => /\ i = Len(pending[s]) /\ tracker'[doc[s]] = None
                                                    /\ ~(line' = "publish" /\ change'.doc = doc[s])
      BY <2>3 DEF PendingInv
    <3> DEFINE f == pending[s][i]
    <3>1. end[s] = None /\ s \in registered /\ doc[s] \in Docs
      <4>1. pending[s] # <<>> BY <2>6
      <4> QED BY <2>1, <2>5, <4>1 DEF SlotInv
    <3>2. /\ f.value = Retired <=> f.revision = None
          /\ f.revision # None /\ tracker[doc[s]] # None => f.revision <= tracker[doc[s]]
          /\ f.revision = None => i = Len(pending[s]) /\ tracker[doc[s]] = None
      BY <2>1 DEF PendingInv
    <3>3. f.revision \in Nat \cup {None} BY <2>6 DEF Frames
    <3> HIDE DEF f
    <3>4. f.revision # None /\ tracker'[doc[s]] # None => f.revision <= tracker'[doc[s]]
      BY <3>1, <3>2, <3>3, <2>7
    <3>5. f.revision = None => tracker'[doc[s]] = None /\ ~(line' = "publish" /\ change'.doc = doc[s])
      BY <3>1, <3>2
    <3> QED BY <3>2, <3>4, <3>5 DEF f
  <2>9. BaselineInv(s)'
    <3>1. ASSUME taken[s] # None, end[s] = None, tracker'[doc[s]] # None PROVE taken[s].revision <= tracker'[doc[s]]
      <4>1. s \in registered /\ doc[s] \in Docs BY <2>5, <3>1
      <4>2. tracker[doc[s]] # None => taken[s].revision <= tracker[doc[s]] BY <2>1, <3>1 DEF BaselineInv
      <4>3. taken[s].revision \in Nat BY <2>6, <3>1
      <4> QED BY <2>7, <3>1, <4>1, <4>2, <4>3
    <3>2. pc[s] \in Consuming => /\ baseline[s] = taken[s].revision
                                 /\ \A i \in 1..Len(pending[s]) : Fresh(pending[s][i], taken[s].revision)
      BY <2>1 DEF BaselineInv
    <3> QED BY <2>3, <3>1, <3>2 DEF BaselineInv, Fresh
  <2> QED BY <2>2, <2>4, <2>8, <2>9 DEF SubInv
<1> QED BY <1>1 DEF ObsInv, SubInv

\* Reading a document into the authority: nobody can have been bound to it.
LEMMA LoadInv ==
  ASSUME ObsInv, NEW d \in Docs, Load(d)
  PROVE  ObsInv'
<1>1. /\ line = "idle" /\ InStorage(d) /\ tracker[d] = None /\ tracker' = [tracker EXCEPT ![d] = 0] /\ current' = d
      /\ UNCHANGED <<stored, value, line, change>> /\ UNCHANGED slotState /\ woken' = woken
  BY DEF Load, slotState, slotVars
<1>2. ObsTypes' BY <1>1 DEF ObsInv, ObsTypes, slotState
<1>3. tracker'[d] = 0 /\ (\A e \in Docs \ {d} : tracker'[e] = tracker[e]) BY <1>1 DEF ObsInv, ObsTypes
<1>4. LineInv' BY <1>1, <1>3, NoneFacts DEF ObsInv, LineInv, InStorage
<1>5. ASSUME NEW s \in Subscribers, doc[s] \in Docs, tracker[doc[s]] # None
      PROVE  tracker'[doc[s]] # None /\ tracker[doc[s]] <= tracker'[doc[s]]
  <2>1. doc[s] # d BY <1>1, <1>5
  <2>2. tracker'[doc[s]] = tracker[doc[s]] /\ tracker[doc[s]] \in Nat BY <1>3, <1>5, <2>1 DEF ObsInv, ObsTypes
  <2> QED BY <1>5, <2>2
<1>6. ASSUME NEW s \in Subscribers, doc[s] \in Docs, tracker[doc[s]] = None
      PROVE  stored'[doc[s]] = "retired" /\ tracker'[doc[s]] = None
  <2>1. stored[doc[s]] = "retired" BY <1>6 DEF ObsInv, DocInv
  <2>2. doc[s] # d BY <1>1, <2>1 DEF InStorage
  <2> QED BY <1>1, <1>3, <1>6, <2>1, <2>2
<1> QED BY <1>1, <1>2, <1>4, <1>5, <1>6, LineMoves

\* A new incarnation, which nobody can have been bound to.
LEMMA CreateInv ==
  ASSUME ObsInv, NEW d \in Docs, Create(d)
  PROVE  ObsInv'
<1>1. /\ line = "idle" /\ stored[d] = "absent" /\ stored' = [stored EXCEPT ![d] = "current"]
      /\ value' = [value EXCEPT ![d] = 1] /\ tracker' = [tracker EXCEPT ![d] = 0] /\ current' = d
      /\ line' = "publish" /\ change' = [doc |-> d, value |-> 1] /\ UNCHANGED slotState /\ woken' = woken
  BY DEF Create, Publishing, slotState, slotVars
<1>2. 1 \in 0..MaxValue BY ObservationAssumption
<1>3. ObsTypes' BY <1>1, <1>2 DEF ObsInv, ObsTypes, slotState
<1>4. /\ tracker'[d] = 0 /\ stored'[d] = "current" /\ value'[d] = 1
      /\ \A e \in Docs \ {d} : tracker'[e] = tracker[e] /\ stored'[e] = stored[e] /\ value'[e] = value[e]
  BY <1>1 DEF ObsInv, ObsTypes
<1>5. LineInv' BY <1>1, <1>2, <1>4, NoneFacts DEF ObsInv, LineInv, InStorage, Retired
<1>6. tracker[d] = None BY <1>1 DEF ObsInv, LineInv, InStorage
<1>7. ASSUME NEW s \in Subscribers, doc[s] \in Docs
      PROVE  doc[s] # d /\ (tracker[doc[s]] # None => tracker[doc[s]] <= tracker'[doc[s]])
  <2>1. doc[s] # d BY <1>1, <1>6, <1>7 DEF ObsInv, DocInv
  <2>2. tracker[doc[s]] # None => tracker[doc[s]] \in Nat BY <1>7 DEF ObsInv, ObsTypes
  <2> QED BY <1>4, <1>7, <2>1, <2>2
<1>8. ASSUME NEW s \in Subscribers, doc[s] \in Docs, tracker[doc[s]] = None
      PROVE  stored'[doc[s]] = "retired" /\ tracker'[doc[s]] = None
  <2>1. stored[doc[s]] = "retired" BY <1>8 DEF ObsInv, DocInv
  <2> QED BY <1>4, <1>7, <1>8, <2>1
<1> QED BY <1>1, <1>3, <1>4, <1>5, <1>7, <1>8, LineMoves

\* Adopting a value: the tracker goes on.
LEMMA ChangeValueInv ==
  ASSUME ObsInv, NEW d \in Docs, ChangeValue(d)
  PROVE  ObsInv'
<1>1. /\ line = "idle" /\ InStorage(d) /\ tracker[d] # None /\ value[d] < MaxValue
      /\ value' = [value EXCEPT ![d] = @ + 1] /\ tracker' = [tracker EXCEPT ![d] = @ + 1]
      /\ stored' = stored /\ current' = current
      /\ line' = "publish" /\ change' = [doc |-> d, value |-> value[d] + 1] /\ UNCHANGED slotState /\ woken' = woken
  BY DEF ChangeValue, Publishing, slotState, slotVars
<1>2. tracker[d] \in Nat /\ value[d] \in Nat /\ value[d] + 1 \in 0..MaxValue
  BY <1>1, ObservationAssumption DEF ObsInv, ObsTypes
<1>3. ObsTypes' BY <1>1, <1>2 DEF ObsInv, ObsTypes, slotState
<1>4. /\ tracker'[d] = tracker[d] + 1 /\ value'[d] = value[d] + 1
      /\ \A e \in Docs \ {d} : tracker'[e] = tracker[e] /\ value'[e] = value[e]
  BY <1>1 DEF ObsInv, ObsTypes
<1>5. tracker'[d] \in Nat /\ tracker'[d] # None /\ value'[d] # 0 BY <1>2, <1>4, NoneFacts
<1>6. LineInv' BY <1>1, <1>2, <1>4, <1>5 DEF ObsInv, LineInv, InStorage, Retired
<1>7. ASSUME NEW s \in Subscribers, doc[s] \in Docs, tracker[doc[s]] # None
      PROVE  tracker'[doc[s]] # None /\ tracker[doc[s]] <= tracker'[doc[s]]
  <2>1. tracker[doc[s]] \in Nat BY <1>7 DEF ObsInv, ObsTypes
  <2> QED BY <1>2, <1>4, <1>5, <1>7, <2>1
<1>8. ASSUME NEW s \in Subscribers, doc[s] \in Docs, tracker[doc[s]] = None
      PROVE  stored'[doc[s]] = "retired" /\ tracker'[doc[s]] = None /\ change'.doc # doc[s]
  <2>1. stored[doc[s]] = "retired" BY <1>8 DEF ObsInv, DocInv
  <2> QED BY <1>1, <1>4, <1>8, <2>1
<1> QED BY <1>1, <1>3, <1>6, <1>7, <1>8, LineMoves

\* The first write of a newer version, a new tracker: no live slot is bound to the document.
LEMMA MigrateInv ==
  ASSUME ObsInv, ~MigratesWatched, NEW d \in Docs, Migrate(d)
  PROVE  ObsInv'
<1>1. /\ line = "idle" /\ stored[d] = "old" /\ value[d] < MaxValue /\ ~Watched(d)
      /\ stored' = [stored EXCEPT ![d] = "current"]
      /\ value' = [value EXCEPT ![d] = @ + 1] /\ tracker' = [tracker EXCEPT ![d] = 0] /\ current' = d
      /\ line' = "publish" /\ change' = [doc |-> d, value |-> value[d] + 1] /\ UNCHANGED slotState /\ woken' = woken
  BY DEF Migrate, Publishing, slotState, slotVars
<1>2. value[d] \in Nat /\ value[d] + 1 \in 0..MaxValue BY <1>1, ObservationAssumption DEF ObsInv, ObsTypes
<1>3. ObsTypes' BY <1>1, <1>2 DEF ObsInv, ObsTypes, slotState
<1>4. /\ tracker'[d] = 0 /\ stored'[d] = "current" /\ value'[d] = value[d] + 1
      /\ \A e \in Docs \ {d} : tracker'[e] = tracker[e] /\ stored'[e] = stored[e] /\ value'[e] = value[e]
  BY <1>1 DEF ObsInv, ObsTypes
<1>5. value'[d] # 0 BY <1>2, <1>4
<1>6. LineInv' BY <1>1, <1>2, <1>4, <1>5, NoneFacts DEF ObsInv, LineInv, InStorage, Retired
<1>7. ASSUME NEW s \in Subscribers, doc[s] \in Docs, tracker[doc[s]] # None
      PROVE  tracker'[doc[s]] # None /\ (end[s] = None /\ s \in registered => tracker[doc[s]] <= tracker'[doc[s]])
  <2>1. tracker[doc[s]] \in Nat BY <1>7 DEF ObsInv, ObsTypes
  <2>2. CASE doc[s] = d BY <1>1, <1>4, <2>2, NoneFacts DEF Watched
  <2>3. CASE doc[s] # d BY <1>4, <1>7, <2>1, <2>3
  <2> QED BY <2>2, <2>3
<1>8. ASSUME NEW s \in Subscribers, doc[s] \in Docs, tracker[doc[s]] = None
      PROVE  stored'[doc[s]] = "retired" /\ tracker'[doc[s]] = None /\ change'.doc # doc[s]
  <2>1. stored[doc[s]] = "retired" BY <1>8 DEF ObsInv, DocInv
  <2> QED BY <1>1, <1>4, <1>8, <2>1
<1> QED BY <1>1, <1>3, <1>6, <1>7, <1>8, LineMoves

\* Retiring: the tracker goes.
LEMMA RetireInv ==
  ASSUME ObsInv, NEW d \in Docs, Retire(d)
  PROVE  ObsInv'
<1>1. /\ line = "idle" /\ InStorage(d) /\ tracker[d] # None
      /\ stored' = [stored EXCEPT ![d] = "retired"] /\ tracker' = [tracker EXCEPT ![d] = None]
      /\ current' = (IF current = d THEN None ELSE current) /\ value' = value
      /\ line' = "publish" /\ change' = [doc |-> d, value |-> Retired] /\ UNCHANGED slotState /\ woken' = woken
  BY DEF Retire, Publishing, slotState, slotVars
<1>2. ObsTypes' BY <1>1 DEF ObsInv, ObsTypes, slotState
<1>3. /\ tracker'[d] = None /\ stored'[d] = "retired"
      /\ \A e \in Docs \ {d} : tracker'[e] = tracker[e] /\ stored'[e] = stored[e]
  BY <1>1 DEF ObsInv, ObsTypes
<1>4. 0 \in 0..MaxValue BY ObservationAssumption
<1>5. LineInv'
  <2>1. current' # None => current' # d /\ current' \in Docs BY <1>1 DEF ObsInv, ObsTypes
  <2> QED BY <1>1, <1>3, <1>4, <2>1 DEF ObsInv, LineInv, InStorage, Retired
<1>6. ASSUME NEW s \in Subscribers, doc[s] \in Docs, tracker[doc[s]] # None, doc[s] # d
      PROVE  tracker'[doc[s]] # None /\ tracker[doc[s]] <= tracker'[doc[s]]
  <2>1. tracker[doc[s]] \in Nat BY <1>6 DEF ObsInv, ObsTypes
  <2> QED BY <1>3, <1>6, <2>1
<1>7. ASSUME NEW s \in Subscribers, doc[s] \in Docs, tracker[doc[s]] = None
      PROVE  stored'[doc[s]] = "retired" /\ tracker'[doc[s]] = None /\ change'.doc # doc[s]
  <2>1. stored[doc[s]] = "retired" BY <1>7 DEF ObsInv, DocInv
  <2> QED BY <1>1, <1>3, <1>7, <2>1
<1> QED BY <1>1, <1>2, <1>3, <1>5, <1>6, <1>7, LineMoves

-----------------------------------------------------------------------------
(* Steps that leave the documents alone. *)

Unmoved(n) ==
  /\ pc'[n] = pc[n] /\ doc'[n] = doc[n] /\ taken'[n] = taken[n] /\ baseline'[n] = baseline[n]
  /\ view'[n] = view[n] /\ pending'[n] = pending[n] /\ end'[n] = end[n]
  /\ n \in registered' <=> n \in registered

\* Nothing is adopted, and what is being published is so, or has been.
DocsStay ==
  /\ UNCHANGED <<stored, value, tracker, current>>
  /\ line' # "publish" \/ UNCHANGED <<line, change>>

\* A subscriber that does not move keeps its invariant.
LEMMA UnmovedKept ==
  ASSUME NEW n \in Subscribers, SubInv(n), DocsStay, Unmoved(n)
  PROVE  SubInv(n)'
<1>1. SlotInv(n)' BY DEF SubInv, SlotInv, Unmoved
<1>2. DocInv(n)' BY DEF SubInv, DocInv, Unmoved, DocsStay
<1>3. PendingInv(n)' BY DEF SubInv, PendingInv, Unmoved, DocsStay
<1>4. BaselineInv(n)' BY DEF SubInv, BaselineInv, Unmoved, DocsStay, Fresh
<1> QED BY <1>1, <1>2, <1>3, <1>4 DEF SubInv

\* So does the line.
LEMMA OthersKept ==
  ASSUME ObsInv, DocsStay, ObsTypes', \A n \in Subscribers : Unmoved(n) \/ SubInv(n)'
  PROVE  ObsInv'
<1>1. LineInv' BY DEF ObsInv, LineInv, DocsStay, InStorage
<1>2. ASSUME NEW n \in Subscribers PROVE SubInv(n)'
  <2>1. SubInv(n) BY DEF ObsInv, SubInv
  <2> QED BY <2>1, UnmovedKept
<1> QED BY <1>1, <1>2 DEF ObsInv, SubInv

\* A slot that ends, or has ended, keeps what it is owed to keep.
LEMMA EndedKept ==
  ASSUME NEW n \in Subscribers, SubInv(n), DocsStay, pc[n] \notin {"find", "register"},
         doc'[n] = doc[n], taken'[n] = taken[n], baseline'[n] = baseline[n],
         pc'[n] \in {pc[n], "done"}, end'[n] # None, pending'[n] = <<>>
  PROVE  SubInv(n)'
<1>1. SlotInv(n)' BY DEF SubInv, SlotInv, Consuming
<1>2. DocInv(n)' BY DEF SubInv, DocInv, DocsStay
<1>3. Len(<<>>) = 0 OBVIOUS
<1>4. PendingInv(n)' BY <1>3 DEF PendingInv
<1>5. BaselineInv(n)' BY <1>3 DEF SubInv, BaselineInv, Consuming
<1> QED BY <1>1, <1>2, <1>4, <1>5 DEF SubInv

\* What terminate does to each slot.
LEMMA TerminateFacts ==
  ASSUME ObsInv, NEW S \in SUBSET Subscribers, NEW reason \in Reasons, Terminate(S, reason)
  PROVE  /\ end' \in [Subscribers -> Reasons \cup {None}]
         /\ pending' \in [Subscribers -> Seq(Frames)]
         /\ woken' \in [Subscribers -> BOOLEAN]
         /\ \A n \in S : end'[n] # None /\ pending'[n] = <<>>
         /\ \A n \in Subscribers : end[n] # None => end'[n] = end[n] /\ pending'[n] = pending[n]
         /\ \A n \in Subscribers \ S : end'[n] = end[n] /\ pending'[n] = pending[n]
<1>1. /\ end \in [Subscribers -> Reasons \cup {None}] /\ pending \in [Subscribers -> Seq(Frames)]
      /\ woken \in [Subscribers -> BOOLEAN]
  BY DEF ObsInv, ObsTypes
<1>2. reason # None BY NoneFacts
<1>3. \A n \in Subscribers : end[n] # None => pending[n] = <<>> BY DEF ObsInv, SlotInv
<1>4. /\ end' = [s \in Subscribers |-> IF s \in S /\ end[s] = None THEN reason ELSE end[s]]
      /\ pending' = [s \in Subscribers |-> IF s \in S /\ end[s] = None THEN <<>> ELSE pending[s]]
  BY DEF Terminate
<1>5. woken' \in [Subscribers -> BOOLEAN] BY <1>1 DEF Terminate, Notify
<1>6. end' \in [Subscribers -> Reasons \cup {None}] BY <1>1, <1>4
<1>7. pending' \in [Subscribers -> Seq(Frames)]
  <2>1. <<>> \in Seq(Frames) OBVIOUS
  <2> QED BY <1>1, <1>4, <2>1
<1> QED BY <1>2, <1>3, <1>4, <1>5, <1>6, <1>7

\* Sealing, or losing, an idle line.
LEMMA LineEndsInv ==
  ASSUME ObsInv, Uncertain \/ Seal
  PROVE  ObsInv'
<1>1. DocsStay /\ (\A n \in Subscribers : Unmoved(n)) /\ ObsTypes'
  BY DEF Uncertain, Seal, DocsStay, Unmoved, slotVars, ObsInv, ObsTypes
<1> QED BY <1>1, OthersKept

\* Draining the registry.
LEMMA CloseInv ==
  ASSUME ObsInv, Close
  PROVE  ObsInv'
<1>1. /\ line' = "closed" /\ Terminate(registered, "closed") /\ registered' = {}
      /\ UNCHANGED <<stored, value, tracker, current, change, pc, doc, taken, baseline, view>>
  BY DEF Close
<1>2. registered \subseteq Subscribers /\ "closed" \in Reasons BY DEF ObsInv, ObsTypes, Reasons
<1>3. /\ end' \in [Subscribers -> Reasons \cup {None}] /\ pending' \in [Subscribers -> Seq(Frames)]
      /\ woken' \in [Subscribers -> BOOLEAN]
      /\ \A n \in registered : end'[n] # None /\ pending'[n] = <<>>
      /\ \A n \in Subscribers \ registered : end'[n] = end[n] /\ pending'[n] = pending[n]
  BY <1>1, <1>2, TerminateFacts
<1>4. ObsTypes' BY <1>1, <1>3 DEF ObsInv, ObsTypes
<1>5. DocsStay BY <1>1 DEF DocsStay
<1>6. ASSUME NEW n \in Subscribers, n \in registered PROVE SubInv(n)'
  <2>1. SubInv(n) BY DEF ObsInv, SubInv
  <2>2. pc[n] \notin {"find", "register"} BY <2>1, <1>6 DEF SubInv, SlotInv
  <2> QED BY <1>1, <1>3, <1>5, <1>6, <2>1, <2>2, EndedKept
<1>7. ASSUME NEW n \in Subscribers, n \notin registered PROVE Unmoved(n)
  BY <1>1, <1>3, <1>7 DEF Unmoved
<1> QED BY <1>4, <1>5, <1>6, <1>7, OthersKept

\* What is published is a frame, and a retirement exactly if the document is gone.
LEMMA FrameFacts ==
  ASSUME ObsInv, line = "publish"
  PROVE  /\ Frame \in Frames /\ Frame.value = change.value /\ change.doc \in Docs
         /\ Frame.value = Retired <=> Frame.revision = None
         /\ Frame.revision = tracker[change.doc]
<1>1. /\ change \in [doc : Docs, value : 0..MaxValue] /\ (change.value = Retired <=> tracker[change.doc] = None)
      /\ change.doc \in Docs /\ change.value \in Nat
  BY ObservationAssumption DEF ObsInv, LineInv
<1>2. tracker[change.doc] \in Nat \cup {None} BY <1>1 DEF ObsInv, ObsTypes
<1>3. Frame.value = change.value /\ Frame.revision = tracker[change.doc] BY <1>1 DEF Frame
<1>4. Frame \in Frames BY <1>1, <1>2 DEF Frame, Frames
<1> QED BY <1>1, <1>3, <1>4

\* Publishing: a slot buffers the frame, or nothing, or all but the frame is dropped.
LEMMA PublishInv ==
  ASSUME ObsInv, Publish
  PROVE  ObsInv'
<1> DEFINE slots == {s \in registered : doc[s] = change.doc}
<1>1. /\ line = "publish" /\ line' = "idle"
      /\ pending' = [s \in Subscribers |-> IF s \in slots THEN Push(s, Frame) ELSE pending[s]]
      /\ Notify(slots)
      /\ UNCHANGED <<stored, value, tracker, current, registered, pc, doc, taken, baseline, view, end>>
  BY DEF Publish
<1>2. /\ Frame \in Frames /\ (Frame.value = Retired <=> Frame.revision = None)
      /\ Frame.revision = tracker[change.doc] /\ change.doc \in Docs
  BY <1>1, FrameFacts
<1>3. ASSUME NEW s \in Subscribers
      PROVE  /\ Push(s, Frame) \in Seq(Frames)
             /\ \/ Push(s, Frame) = pending[s]
                \/ /\ Push(s, Frame) \in {<<Frame>>, Append(pending[s], Frame)}
                   /\ end[s] = None /\ Fresh(Frame, baseline[s])
  <2>1. pending[s] \in Seq(Frames) BY DEF ObsInv, ObsTypes
  <2>2. <<Frame>> \in Seq(Frames) /\ Append(pending[s], Frame) \in Seq(Frames) BY <1>2, <2>1
  <2> QED BY <2>1, <2>2 DEF Push
<1>4. pending' \in [Subscribers -> Seq(Frames)]
  <2>1. \A s \in Subscribers : pending[s] \in Seq(Frames) BY DEF ObsInv, ObsTypes
  <2> QED BY <1>1, <1>3, <2>1
<1>5. ObsTypes'
  <2>1. woken' \in [Subscribers -> BOOLEAN] BY <1>1 DEF Notify, ObsInv, ObsTypes
  <2> QED BY <1>1, <1>4, <2>1 DEF ObsInv, ObsTypes
<1>6. DocsStay BY <1>1 DEF DocsStay
<1>7. ASSUME NEW s \in Subscribers, ~Unmoved(s) PROVE SubInv(s)'
  <2>1. SubInv(s) BY DEF ObsInv, SubInv
  <2>2. s \in registered /\ doc[s] = change.doc /\ pending'[s] = Push(s, Frame) /\ pending'[s] # pending[s]
    BY <1>1, <1>7 DEF Unmoved
  <2>3. end[s] = None /\ Fresh(Frame, baseline[s]) BY <1>3, <2>2
  <2>4. /\ Len(pending'[s]) \in Nat \ {0} /\ pending'[s][Len(pending'[s])] = Frame
        /\ \A i \in 1..Len(pending'[s]) : i # Len(pending'[s]) => i \in 1..Len(pending[s]) /\ pending'[s][i] = pending[s][i]
    <3>1. pending[s] \in Seq(Frames) BY DEF ObsInv, ObsTypes
    <3>2. CASE Push(s, Frame) = <<Frame>> BY <2>2, <3>2
    <3>3. CASE Push(s, Frame) = Append(pending[s], Frame) BY <2>2, <3>1, <3>3
    <3> QED BY <1>3, <2>2, <3>2, <3>3
  <2>5. SlotInv(s)' BY <1>1, <2>1, <2>2, <2>3 DEF SubInv, SlotInv
  <2>6. DocInv(s)' BY <1>1, <2>1 DEF SubInv, DocInv
  <2>7. ASSUME NEW i \in 1..Len(pending'[s]), i # Len(pending'[s])
        PROVE  /\ pending'[s][i].value = Retired <=> pending'[s][i].revision = None
               /\ pending'[s][i].revision # None
               /\ tracker[doc[s]] # None => pending'[s][i].revision <= tracker[doc[s]]
    BY <1>1, <2>1, <2>2, <2>4, <2>7 DEF SubInv, PendingInv
  <2>8. tracker[doc[s]] \in Nat \cup {None} BY <1>2, <2>2 DEF ObsInv, ObsTypes
  <2>9. Frame.revision # None /\ tracker[doc[s]] # None => Frame.revision <= tracker[doc[s]] BY <1>2, <2>2, <2>8
  <2> HIDE DEF slots
  <2>10. PendingInv(s)'
    <3> SUFFICES ASSUME NEW i \in 1..Len(pending'[s])
                 PROVE  LET f == pending'[s][i]
                        IN  /\ f.value = Retired <=> f.revision = None
                            /\ f.revision # None /\ tracker[doc[s]] # None => f.revision <= tracker[doc[s]]
                            /\ f.revision = None => i = Len(pending'[s]) /\ tracker[doc[s]] = None
      BY <1>1 DEF PendingInv
    <3>1. CASE i # Len(pending'[s]) BY <2>7, <3>1
    <3>2. CASE i = Len(pending'[s])
      <4>1. pending'[s][i] = Frame BY <2>4, <3>2
      <4> QED BY <1>2, <2>2, <2>9, <3>2, <4>1
    <3> QED BY <3>1, <3>2
  <2>11. BaselineInv(s)'
    <3>1. pc[s] \in Consuming => \A i \in 1..Len(pending'[s]) : Fresh(pending'[s][i], taken[s].revision)
      BY <2>1, <2>3, <2>4 DEF SubInv, BaselineInv
    <3> QED BY <1>1, <2>1, <3>1 DEF SubInv, BaselineInv, Fresh
  <2> QED BY <2>5, <2>6, <2>10, <2>11 DEF SubInv
<1> QED BY <1>5, <1>6, <1>7, OthersKept

-----------------------------------------------------------------------------
(* Steps of a subscriber. *)

\* The address is resolved, or nothing is there.
LEMMA FindInv ==
  ASSUME ObsInv, NEW s \in Subscribers, Find(s)
  PROVE  ObsInv'
<1>1. /\ pc[s] = "find" /\ pc' = [pc EXCEPT ![s] = IF current = None THEN "done" ELSE "register"]
      /\ doc' = [doc EXCEPT ![s] = current]
      /\ UNCHANGED <<registered, taken, baseline, view, pending, end, woken>> /\ UNCHANGED lineVars
  BY DEF Find, Go, slotVars
<1>2. DocsStay BY <1>1 DEF DocsStay, lineVars
<1>3. ObsTypes' BY <1>1 DEF ObsInv, ObsTypes, Places, lineVars
<1>4. \A n \in Subscribers \ {s} : Unmoved(n) BY <1>1 DEF Unmoved, ObsInv, ObsTypes
<1>5. SubInv(s)'
  <2>1. /\ pc'[s] = (IF current = None THEN "done" ELSE "register") /\ doc'[s] = current
        /\ taken[s] = None /\ end[s] = None /\ pending[s] = <<>> /\ s \notin registered /\ baseline[s] = None
    BY <1>1 DEF ObsInv, ObsTypes, SlotInv
  <2>2. current \in Docs \cup {None} /\ (current # None => tracker[current] # None) BY DEF ObsInv, ObsTypes, LineInv
  <2>3. Len(<<>>) = 0 OBVIOUS
  <2>4. SlotInv(s)' BY <1>1, <2>1, <2>2 DEF SlotInv, Consuming
  <2>5. DocInv(s)' BY <1>1, <2>1, <2>2, NoneFacts DEF DocInv, lineVars
  <2>6. PendingInv(s)' BY <1>1, <2>1, <2>3 DEF PendingInv
  <2>7. BaselineInv(s)' BY <1>1, <2>1 DEF BaselineInv, Consuming
  <2> QED BY <2>4, <2>5, <2>6, <2>7 DEF SubInv
<1> QED BY <1>2, <1>3, <1>4, <1>5, OthersKept

\* The slot is registered.
LEMMA RegisterInv ==
  ASSUME ObsInv, NEW s \in Subscribers, Register(s)
  PROVE  ObsInv'
<1>1. /\ pc[s] = "register" /\ pc' = [pc EXCEPT ![s] = "read"] /\ registered' = registered \cup {s}
      /\ UNCHANGED <<doc, taken, baseline, view, pending, end, woken>> /\ UNCHANGED lineVars
  BY DEF Register, Go, slotVars
<1>2. DocsStay BY <1>1 DEF DocsStay, lineVars
<1>3. ObsTypes' BY <1>1 DEF ObsInv, ObsTypes, Places, lineVars
<1>4. \A n \in Subscribers \ {s} : Unmoved(n) BY <1>1 DEF Unmoved, ObsInv, ObsTypes
<1>5. SubInv(s)'
  <2>1. /\ pc'[s] = "read" /\ doc[s] \in Docs
        /\ taken[s] = None /\ end[s] = None /\ pending[s] = <<>> /\ baseline[s] = None
    BY <1>1 DEF ObsInv, ObsTypes, SlotInv
  <2>2. Len(<<>>) = 0 OBVIOUS
  <2>3. SlotInv(s)' BY <1>1, <2>1 DEF SlotInv, Consuming
  <2>4. DocInv(s)' BY <1>1 DEF DocInv, lineVars, ObsInv
  <2>5. PendingInv(s)' BY <1>1, <2>1, <2>2 DEF PendingInv
  <2>6. BaselineInv(s)' BY <1>1, <2>1 DEF BaselineInv, Consuming
  <2> QED BY <2>3, <2>4, <2>5, <2>6 DEF SubInv
<1> QED BY <1>2, <1>3, <1>4, <1>5, OthersKept

\* The baseline is read, of a document that is still there.
LEMMA ReadBaselineInv ==
  ASSUME ObsInv, NEW s \in Subscribers, ReadBaseline(s)
  PROVE  ObsInv'
<1>1. pc[s] = "read" /\ UNCHANGED <<doc, baseline, view>> /\ UNCHANGED lineVars BY DEF ReadBaseline
<1>2. DocsStay BY <1>1 DEF DocsStay, lineVars
<1>3. SubInv(s) /\ taken[s] = None /\ doc[s] \in Docs /\ baseline[s] = None
  BY <1>1 DEF ObsInv, SubInv, SlotInv
<1>4. CASE tracker[doc[s]] = None
  <2>1. pc' = [pc EXCEPT ![s] = "done"] /\ Terminate({s}, "stopped") /\ registered' = registered \ {s} /\ taken' = taken
    BY <1>4 DEF ReadBaseline, Go
  <2>2. "stopped" \in Reasons BY DEF Reasons
  <2>3. /\ end' \in [Subscribers -> Reasons \cup {None}] /\ pending' \in [Subscribers -> Seq(Frames)]
        /\ woken' \in [Subscribers -> BOOLEAN] /\ end'[s] # None /\ pending'[s] = <<>>
        /\ \A n \in Subscribers \ {s} : end'[n] = end[n] /\ pending'[n] = pending[n]
    BY <2>1, <2>2, TerminateFacts
  <2>4. ObsTypes' BY <1>1, <2>1, <2>3 DEF ObsInv, ObsTypes, Places, lineVars
  <2>5. pc'[s] = "done" /\ \A n \in Subscribers \ {s} : Unmoved(n)
    BY <1>1, <2>1, <2>3 DEF Unmoved, ObsInv, ObsTypes
  <2>6. SubInv(s)' BY <1>1, <1>2, <1>3, <2>1, <2>3, <2>5, EndedKept
  <2> QED BY <1>2, <2>4, <2>5, <2>6, OthersKept
<1>5. CASE tracker[doc[s]] # None
  <2> DEFINE base == [value |-> value[doc[s]], revision |-> tracker[doc[s]]]
  <2>1. pc' = [pc EXCEPT ![s] = "arm"] /\ taken' = [taken EXCEPT ![s] = base] /\ UNCHANGED <<end, pending, woken, registered>>
    BY <1>5 DEF ReadBaseline, Go
  <2>2. base \in [value : Nat, revision : Nat] BY <1>3, <1>5, ObservationAssumption DEF ObsInv, ObsTypes
  <2>3. base # None /\ base.revision = tracker[doc[s]] /\ base.revision \in Nat
    <3>1. [base EXCEPT !.revision = base.revision] = base OBVIOUS
    <3>2. base \in Frames BY <2>2 DEF Frames
    <3> QED BY <2>2, <3>2, NoneFacts
  <2> HIDE DEF base
  <2>4. ObsTypes' BY <1>1, <2>1, <2>2 DEF ObsInv, ObsTypes, Places, lineVars
  <2>5. /\ pc'[s] = "arm" /\ taken'[s] = base
        /\ \A n \in Subscribers \ {s} : Unmoved(n)
    BY <1>1, <2>1 DEF Unmoved, ObsInv, ObsTypes
  <2>6. SlotInv(s)' BY <1>1, <1>3, <2>1, <2>3, <2>5 DEF SlotInv, SubInv, Consuming
  <2>7. DocInv(s)' /\ PendingInv(s)' BY <1>1, <1>3, <2>1 DEF DocInv, PendingInv, SubInv, lineVars
  <2>8. BaselineInv(s)' BY <1>1, <2>1, <2>3, <2>5 DEF BaselineInv, Consuming, lineVars
  <2>9. SubInv(s)' BY <2>6, <2>7, <2>8 DEF SubInv
  <2> QED BY <1>2, <2>4, <2>5, <2>9, OthersKept
<1> QED BY <1>4, <1>5

\* q is made of elements of p that are in S, and only its last can be the last of p.
LeftOf(p, q, M, S) ==
  /\ q \in Seq(M)
  /\ \A i \in 1..Len(q) : /\ q[i] \in S
                          /\ \E j \in 1..Len(p) : p[j] = q[i] /\ (j = Len(p) => i = Len(q))

\* What a filter leaves of a sequence is such a part of it.
LEMMA LastStaysLast ==
  ASSUME NEW M, NEW S, NEW p \in Seq(M)
  PROVE  LeftOf(p, Filter(p, S), M, S)
<1> DEFINE q == Filter(p, S)
<1>1. q \in Seq(M) /\ q \in Seq(M \cap S) BY FilterType
<1>2. ToSet(q) = ToSet(p) \cap S BY FilterElements
<1>3. ToSet(q) = {q[i] : i \in 1..Len(q)} /\ ToSet(p) = {p[i] : i \in 1..Len(p)} BY <1>1, ToSetFacts
<1>4. CASE p = <<>>
  <2>1. q = <<>> BY <1>4, FilterEmpty
  <2> QED BY <1>1, <2>1 DEF LeftOf
<1>5. CASE p # <<>>
  <2>1. PICK u \in Seq(M), l \in M : p = Append(u, l) BY <1>5, SequenceEmptyOrAppend
  <2> DEFINE v == Filter(u, S)
  <2>7. Len(u) = Len(p) - 1 /\ Len(u) \in Nat /\ \A i \in 1..Len(u) : u[i] = p[i] BY <2>1
  <2>2. q = IF l \in S THEN Append(v, l) ELSE v
    <3> QED BY <2>1, FilterAppend
  <2>3. ASSUME NEW x \in ToSet(u) PROVE \E j \in 1..Len(p) : p[j] = x /\ j # Len(p)
    <3>1. PICK i \in 1..Len(u) : u[i] = x BY ToSetFacts
    <3>2. i \in 1..Len(p) /\ i # Len(p) /\ p[i] = x BY <2>7, <3>1
    <3> QED BY <3>2
  <2>4. v \in Seq(M) /\ ToSet(v) \subseteq ToSet(u) /\ ToSet(v) = {v[i] : i \in 1..Len(v)}
    <3>1. v \in Seq(M) BY FilterType
    <3>2. ToSet(v) = ToSet(u) \cap S BY FilterElements
    <3> HIDE DEF v
    <3>3. ToSet(v) = {v[i] : i \in 1..Len(v)} BY <3>1, ToSetFacts
    <3> QED BY <3>1, <3>2, <3>3
  <2> HIDE DEF v, q
  <2>5. ASSUME NEW i \in 1..Len(q), i # Len(q) PROVE \E j \in 1..Len(p) : p[j] = q[i] /\ j # Len(p)
    <3>1. i \in 1..Len(v) /\ q[i] = v[i] BY <2>1, <2>2, <2>4, <2>5
    <3> QED BY <2>3, <2>4, <3>1
  <2>6. \A i \in 1..Len(q) : q[i] \in S /\ \E j \in 1..Len(p) : p[j] = q[i] BY <1>2, <1>3
  <2>8. ASSUME NEW i \in 1..Len(q) PROVE \E j \in 1..Len(p) : p[j] = q[i] /\ (j = Len(p) => i = Len(q))
    BY <2>5, <2>6
  <2> QED BY <1>1, <2>6, <2>8 DEF q, LeftOf
<1> QED BY <1>4, <1>5

\* The slot is armed: what its baseline includes is dropped.
LEMMA ArmInv ==
  ASSUME ObsInv, NEW s \in Subscribers, Arm(s)
  PROVE  ObsInv'
<1> DEFINE rev == taken[s].revision
           q   == Filter(pending[s], FreshFrames(rev))
<1>1. /\ pc[s] = "arm" /\ pc' = [pc EXCEPT ![s] = "ready"] /\ view' = [view EXCEPT ![s] = taken[s].value]
      /\ baseline' = [baseline EXCEPT ![s] = rev] /\ pending' = [pending EXCEPT ![s] = q]
      /\ UNCHANGED <<registered, doc, taken, end, woken>> /\ UNCHANGED lineVars
  BY DEF Arm, Go
<1>2. DocsStay BY <1>1 DEF DocsStay, lineVars
<1>3. SubInv(s) /\ taken[s] # None /\ taken[s] \in [value : Nat, revision : Nat] /\ rev \in Nat /\ taken[s].value \in Nat
  BY <1>1 DEF ObsInv, ObsTypes, SubInv, SlotInv
<1>4. pending[s] \in Seq(Frames) BY DEF ObsInv, ObsTypes
<1>5. LeftOf(pending[s], q, Frames, FreshFrames(rev)) BY <1>4, LastStaysLast
<1>6. pending[s] = <<>> => q = <<>> BY FilterEmpty
<1> HIDE DEF q
<1>7. ObsTypes' BY <1>1, <1>3, <1>5 DEF LeftOf, ObsInv, ObsTypes, Places, Consuming, lineVars
<1>8. /\ pc'[s] = "ready" /\ view'[s] = taken[s].value /\ baseline'[s] = rev /\ pending'[s] = q
      /\ \A n \in Subscribers \ {s} : Unmoved(n)
  BY <1>1 DEF Unmoved, ObsInv, ObsTypes
<1>9. SlotInv(s)' BY <1>1, <1>3, <1>6, <1>8 DEF SlotInv, SubInv, Consuming
<1>10. DocInv(s)' BY <1>1, <1>3 DEF DocInv, SubInv, lineVars
<1>11. PendingInv(s)'
  <2> SUFFICES ASSUME NEW i \in 1..Len(q)
               PROVE  LET f == q[i]
                      IN  /\ f.value = Retired <=> f.revision = None
                          /\ f.revision # None /\ tracker[doc[s]] # None => f.revision <= tracker[doc[s]]
                          /\ f.revision = None => /\ i = Len(q) /\ tracker[doc[s]] = None
                                                  /\ ~(line = "publish" /\ change.doc = doc[s])
    BY <1>1, <1>8 DEF PendingInv, lineVars
  <2>1. PICK j \in 1..Len(pending[s]) : pending[s][j] = q[i] /\ (j = Len(pending[s]) => i = Len(q)) BY <1>5 DEF LeftOf
  <2> QED BY <1>3, <1>5, <2>1 DEF SubInv, PendingInv
<1>12. BaselineInv(s)'
  <2>1. \A i \in 1..Len(q) : Fresh(q[i], rev) BY <1>5 DEF LeftOf, FreshFrames
  <2> QED BY <1>1, <1>3, <1>8, <2>1 DEF BaselineInv, SubInv, lineVars, Fresh
<1>13. SubInv(s)' BY <1>9, <1>10, <1>11, <1>12 DEF SubInv
<1> QED BY <1>2, <1>7, <1>8, <1>13, OthersKept

\* A frame is taken from a live slot; a retirement was the last one.
LEMMA TakeFacts ==
  ASSUME ObsInv, NEW s \in Subscribers, TakeFrame(s, "delivering")
  PROVE  /\ end[s] = None /\ pending[s] # <<>> /\ pending[s] \in Seq(Frames) /\ Head(pending[s]) \in Frames
         /\ Head(pending[s]) = pending[s][1] /\ Tail(pending[s]) \in Seq(Frames)
         /\ Len(Tail(pending[s])) = Len(pending[s]) - 1
         /\ \A i \in 1..Len(Tail(pending[s])) : i + 1 \in 1..Len(pending[s]) /\ Tail(pending[s])[i] = pending[s][i + 1]
         /\ Head(pending[s]).value = Retired => Tail(pending[s]) = <<>>
<1>1. pending[s] # <<>> BY DEF TakeFrame
<1>2. pending[s] \in Seq(Frames) BY DEF ObsInv, ObsTypes
<1>3. end[s] = None BY <1>1 DEF ObsInv, SlotInv
<1>4. /\ Head(pending[s]) = pending[s][1] /\ Head(pending[s]) \in Frames /\ Tail(pending[s]) \in Seq(Frames)
      /\ Len(Tail(pending[s])) = Len(pending[s]) - 1
      /\ \A i \in 1..Len(Tail(pending[s])) : i + 1 \in 1..Len(pending[s]) /\ Tail(pending[s])[i] = pending[s][i + 1]
      /\ 1 \in 1..Len(pending[s])
  BY <1>1, <1>2
<1>5. ASSUME Head(pending[s]).value = Retired PROVE Tail(pending[s]) = <<>>
  <2>1. pending[s][1].revision = None /\ 1 = Len(pending[s]) BY <1>4, <1>5 DEF ObsInv, PendingInv
  <2>2. Len(Tail(pending[s])) = 0 BY <1>4, <2>1
  <2>3. \A t \in Seq(Frames) : Len(t) = 0 => t = <<>> OBVIOUS
  <2> QED BY <1>4, <2>2, <2>3
<1> QED BY <1>1, <1>2, <1>3, <1>4, <1>5

\* The oldest frame is shown.
LEMMA TakeInv ==
  ASSUME ObsInv, NEW s \in Subscribers, Take(s)
  PROVE  ObsInv'
<1> DEFINE f == Head(pending[s])
           q == Tail(pending[s])
<1>1. /\ pc[s] = "enabled" /\ pc' = [pc EXCEPT ![s] = "delivering"] /\ view' = [view EXCEPT ![s] = f.value]
      /\ end' = [end EXCEPT ![s] = IF f.value = Retired /\ @ = None THEN "retired" ELSE @]
      /\ pending' = [pending EXCEPT ![s] = q]
      /\ UNCHANGED <<registered, doc, taken, baseline, woken>> /\ UNCHANGED lineVars /\ TakeFrame(s, "delivering")
  BY DEF Take, TakeFrame, Go
<1>2. DocsStay BY <1>1 DEF DocsStay, lineVars
<1>3. /\ end[s] = None /\ pending[s] # <<>> /\ f \in Frames /\ q \in Seq(Frames) /\ Len(q) = Len(pending[s]) - 1
      /\ \A i \in 1..Len(q) : i + 1 \in 1..Len(pending[s]) /\ q[i] = pending[s][i + 1]
      /\ f.value = Retired => q = <<>>
  BY <1>1, TakeFacts
<1>4. SubInv(s) /\ pending[s] \in Seq(Frames) BY DEF ObsInv, SubInv, ObsTypes
<1> HIDE DEF f, q
<1>5. f.value \in Nat BY <1>3 DEF Frames
<1>6. "retired" \in Reasons /\ "retired" # None BY NoneFacts DEF Reasons
<1>7. ObsTypes' BY <1>1, <1>3, <1>5, <1>6 DEF ObsInv, ObsTypes, Places, Consuming, lineVars
<1>8. /\ pc'[s] = "delivering" /\ view'[s] = f.value /\ pending'[s] = q
      /\ end'[s] = (IF f.value = Retired THEN "retired" ELSE None)
      /\ \A n \in Subscribers \ {s} : Unmoved(n)
  BY <1>1, <1>3 DEF Unmoved, ObsInv, ObsTypes
<1>9. SlotInv(s)' BY <1>1, <1>3, <1>4, <1>6, <1>8 DEF SlotInv, SubInv, Consuming
<1>10. DocInv(s)' BY <1>1, <1>4 DEF DocInv, SubInv, lineVars
<1>11. PendingInv(s)'
  <2> SUFFICES ASSUME NEW i \in 1..Len(q)
               PROVE  LET g == q[i]
                      IN  /\ g.value = Retired <=> g.revision = None
                          /\ g.revision # None /\ tracker[doc[s]] # None => g.revision <= tracker[doc[s]]
                          /\ g.revision = None => /\ i = Len(q) /\ tracker[doc[s]] = None
                                                  /\ ~(line = "publish" /\ change.doc = doc[s])
    BY <1>1, <1>8 DEF PendingInv, lineVars
  <2>1. i + 1 \in 1..Len(pending[s]) /\ q[i] = pending[s][i + 1] BY <1>3
  <2>2. i + 1 = Len(pending[s]) => i = Len(q) BY <1>3, <1>4
  <2> QED BY <1>4, <2>1, <2>2 DEF SubInv, PendingInv
<1>12. BaselineInv(s)'
  <2>1. \A i \in 1..Len(q) : Fresh(q[i], taken[s].revision) BY <1>1, <1>3, <1>4 DEF SubInv, BaselineInv, Consuming
  <2> QED BY <1>1, <1>3, <1>4, <1>8, <2>1 DEF BaselineInv, SubInv, lineVars, Fresh, Consuming
<1>13. SubInv(s)' BY <1>9, <1>10, <1>11, <1>12 DEF SubInv
<1> QED BY <1>2, <1>7, <1>8, <1>13, OthersKept

\* A consumer goes on with what it was doing; it is done only if its slot has ended.
LEMMA PlaceMoves ==
  ASSUME ObsInv, NEW s \in Subscribers, pc[s] \in Consuming,
         NEW to \in (Consuming \ {"delivering"}) \cup {"done"}, to = "done" => end[s] # None,
         pc' = [pc EXCEPT ![s] = to], woken' \in [Subscribers -> BOOLEAN],
         UNCHANGED <<lineVars, registered, doc, taken, slotVars>>
  PROVE  ObsInv'
<1>1. DocsStay BY DEF DocsStay, lineVars
<1>2. ObsTypes' BY DEF ObsInv, ObsTypes, Places, lineVars, slotVars
<1>3. pc'[s] = to /\ \A n \in Subscribers \ {s} : Unmoved(n) BY DEF Unmoved, ObsInv, ObsTypes, slotVars
<1>4. SubInv(s)
  BY DEF ObsInv, SubInv
<1>5. SlotInv(s)' BY <1>3, <1>4 DEF SlotInv, SubInv, Consuming, slotVars
<1>6. DocInv(s)' BY <1>4 DEF DocInv, SubInv, lineVars
<1>7. PendingInv(s)' BY <1>4 DEF PendingInv, SubInv, lineVars, slotVars
<1>8. BaselineInv(s)' BY <1>3, <1>4 DEF BaselineInv, SubInv, lineVars, slotVars, Consuming, Fresh
<1>9. SubInv(s)' BY <1>5, <1>6, <1>7, <1>8 DEF SubInv
<1> QED BY <1>1, <1>2, <1>3, <1>9, OthersKept

\* A consumer's slot ends.
LEMMA SlotEnds ==
  ASSUME ObsInv, NEW s \in Subscribers, pc[s] \in Consuming, NEW reason \in Reasons, Terminate({s}, reason),
         pc' \in {pc, [pc EXCEPT ![s] = "done"]}, registered' \in {registered, registered \ {s}},
         UNCHANGED <<lineVars, doc, taken, baseline, view>>
  PROVE  ObsInv'
<1>1. DocsStay BY DEF DocsStay, lineVars
<1>2. /\ end' \in [Subscribers -> Reasons \cup {None}] /\ pending' \in [Subscribers -> Seq(Frames)]
      /\ woken' \in [Subscribers -> BOOLEAN] /\ end'[s] # None /\ pending'[s] = <<>>
      /\ \A n \in Subscribers \ {s} : end'[n] = end[n] /\ pending'[n] = pending[n]
  BY TerminateFacts
<1>3. ObsTypes' BY <1>2 DEF ObsInv, ObsTypes, Places, lineVars
<1>4. pc'[s] \in {pc[s], "done"} /\ \A n \in Subscribers \ {s} : Unmoved(n) BY <1>2 DEF Unmoved, ObsInv, ObsTypes
<1>5. SubInv(s) /\ pc[s] \notin {"find", "register"} BY DEF ObsInv, SubInv, Consuming
<1>6. SubInv(s)' BY <1>1, <1>2, <1>4, <1>5, EndedKept
<1> QED BY <1>1, <1>3, <1>4, <1>6, OthersKept

\* The steps of a consumer other than taking a frame, and what may befall it.
LEMMA ConsumeInv ==
  ASSUME ObsInv, NEW s \in Subscribers,
         \/ Enable(s) \/ TakeNothing(s) \/ CheckEnd(s) \/ Delivered(s) \/ Wake(s)
         \/ Cancel(s) \/ Stop(s) \/ Drop(s)
  PROVE  ObsInv'
<1>0. woken \in [Subscribers -> BOOLEAN] BY DEF ObsInv, ObsTypes
<1>1. CASE Enable(s)
  <2>1. [woken EXCEPT ![s] = FALSE] \in [Subscribers -> BOOLEAN] BY <1>0
  <2>2. "enabled" \in (Consuming \ {"delivering"}) \cup {"done"} BY DEF Consuming
  <2>3. /\ pc[s] \in Consuming /\ pc' = [pc EXCEPT ![s] = "enabled"] /\ woken' \in [Subscribers -> BOOLEAN]
        /\ UNCHANGED <<lineVars, registered, doc, taken, slotVars>>
    BY <1>1, <2>1 DEF Enable, Go, Consuming
  <2> QED BY <2>2, <2>3, PlaceMoves
<1>2. CASE TakeNothing(s)
  <2>2. "checking" \in (Consuming \ {"delivering"}) \cup {"done"} BY DEF Consuming
  <2>3. /\ pc[s] \in Consuming /\ pc' = [pc EXCEPT ![s] = "checking"] /\ woken' \in [Subscribers -> BOOLEAN]
        /\ UNCHANGED <<lineVars, registered, doc, taken, slotVars>>
    BY <1>0, <1>2 DEF TakeNothing, Go, Consuming
  <2> QED BY <2>2, <2>3, PlaceMoves
<1>3. CASE CheckEnd(s)
  <2> DEFINE to == IF end[s] = None THEN "waiting" ELSE "done"
  <2>2. to \in (Consuming \ {"delivering"}) \cup {"done"} /\ (to = "done" => end[s] # None) BY DEF Consuming
  <2>3. /\ pc[s] \in Consuming /\ pc' = [pc EXCEPT ![s] = to] /\ woken' \in [Subscribers -> BOOLEAN]
        /\ UNCHANGED <<lineVars, registered, doc, taken, slotVars>>
    BY <1>0, <1>3 DEF CheckEnd, Go, Consuming
  <2> QED BY <2>2, <2>3, PlaceMoves
<1>4. CASE Delivered(s)
  <2>1. pc[s] = "delivering" /\ pc[s] \in Consuming /\ UNCHANGED <<lineVars, registered, doc, taken, baseline, view>>
    BY <1>4 DEF Delivered, Consuming
  <2>2. CASE Go(s, IF view[s] = Retired THEN "done" ELSE "ready") /\ UNCHANGED <<end, pending, woken>>
    <3> DEFINE to == IF view[s] = Retired THEN "done" ELSE "ready"
    <3>1. to \in (Consuming \ {"delivering"}) \cup {"done"} BY DEF Consuming
    <3>2. to = "done" => end[s] # None BY <2>1 DEF ObsInv, SlotInv
    <3>3. /\ pc' = [pc EXCEPT ![s] = to] /\ woken' \in [Subscribers -> BOOLEAN]
          /\ UNCHANGED <<lineVars, registered, doc, taken, slotVars>>
      BY <1>0, <2>1, <2>2 DEF Go, slotVars
    <3> QED BY <2>1, <3>1, <3>2, <3>3, PlaceMoves
  <2>3. CASE Go(s, "done") /\ Terminate({s}, "failed")
    <3>1. "failed" \in Reasons BY DEF Reasons
    <3> QED BY <2>1, <2>3, <3>1, SlotEnds DEF Go
  <2> QED BY <1>4, <2>2, <2>3 DEF Delivered
<1>5. CASE Wake(s)
  <2>1. pc[s] \in Consuming /\ UNCHANGED <<lineVars, registered, doc, taken, baseline, view>>
    BY <1>5 DEF Wake, Consuming
  <2>2. CASE s \in cancelled
    <3>1. "cancelled" \in Reasons BY DEF Reasons
    <3> QED BY <1>5, <2>1, <2>2, <3>1, SlotEnds DEF Wake, Go
  <2>3. CASE s \notin cancelled
    <3>1. "ready" \in (Consuming \ {"delivering"}) \cup {"done"} BY DEF Consuming
    <3>2. /\ pc' = [pc EXCEPT ![s] = "ready"] /\ woken' \in [Subscribers -> BOOLEAN]
          /\ UNCHANGED <<lineVars, registered, doc, taken, slotVars>>
      BY <1>0, <1>5, <2>1, <2>3 DEF Wake, Go, slotVars
    <3> QED BY <2>1, <3>1, <3>2, PlaceMoves
  <2> QED BY <2>2, <2>3
<1>6. CASE Cancel(s)
  <2>1. UNCHANGED <<lineVars, registered, pc, doc, taken, slotVars, woken>> BY <1>6 DEF Cancel
  <2>2. DocsStay /\ ObsTypes' /\ \A n \in Subscribers : Unmoved(n)
    BY <2>1 DEF DocsStay, Unmoved, lineVars, slotVars, ObsInv, ObsTypes
  <2> QED BY <2>2, OthersKept
<1>7. CASE Stop(s)
  <2>1. "stopped" \in Reasons BY DEF Reasons
  <2>2. /\ pc[s] \in Consuming /\ Terminate({s}, "stopped") /\ pc' = pc /\ registered' = registered
        /\ UNCHANGED <<lineVars, doc, taken, baseline, view>>
    BY <1>7 DEF Stop
  <2> QED BY <2>1, <2>2, SlotEnds
<1>8. CASE Drop(s)
  <2>1. "stopped" \in Reasons BY DEF Reasons
  <2>2. /\ pc[s] \in Consuming /\ Terminate({s}, "stopped") /\ pc' = [pc EXCEPT ![s] = "done"]
        /\ registered' = registered \ {s} /\ UNCHANGED <<lineVars, doc, taken, baseline, view>>
    BY <1>8 DEF Drop, Go
  <2> QED BY <2>1, <2>2, SlotEnds
<1> QED BY <1>1, <1>2, <1>3, <1>4, <1>5, <1>6, <1>7, <1>8

\* Every step keeps the invariant, unless a document is migrated under a subscription.
LEMMA NextObsInv ==
  ASSUME ObsInv, ~MigratesWatched, [ObsNext]_vars
  PROVE  ObsInv'
<1>1. CASE UNCHANGED vars
  <2>1. DocsStay /\ ObsTypes' /\ \A n \in Subscribers : Unmoved(n)
    BY <1>1 DEF vars, DocsStay, Unmoved, lineVars, slotVars, ObsInv, ObsTypes
  <2> QED BY <2>1, OthersKept
<1>2. CASE Line
  <2>1. CASE Commit BY <2>1, LoadInv, CreateInv, ChangeValueInv, MigrateInv, RetireInv DEF Commit
  <2>2. CASE Publish \/ Uncertain \/ Seal \/ Close BY <2>2, PublishInv, LineEndsInv, CloseInv
  <2> QED BY <1>2, <2>1, <2>2 DEF Line
<1>3. ASSUME NEW s \in Subscribers, Acquire(s) \/ Consume(s) \/ Cancel(s) \/ Stop(s) \/ Drop(s) PROVE ObsInv'
  <2>1. CASE Acquire(s) BY <2>1, FindInv, RegisterInv, ReadBaselineInv, ArmInv DEF Acquire
  <2>2. CASE Take(s) BY <2>2, TakeInv
  <2> QED BY <1>3, <2>1, <2>2, ConsumeInv DEF Consume
<1> QED BY <1>1, <1>2, <1>3 DEF ObsNext

\* The invariant: what a slot buffers has been committed, in order, above a baseline
\* that has been committed too, and a slot that lives can be reached by the line.
THEOREM ObservationInvariant ==
  ASSUME ~MigratesWatched
  PROVE  Spec => []ObsInv
<1>1. ObsInit => ObsInv BY InitObsInv
<1>2. ObsInv /\ [ObsNext]_vars => ObsInv' BY NextObsInv
<1> QED BY <1>1, <1>2, PTL DEF Spec

-----------------------------------------------------------------------------
(* The promise: what each step means to the abstract specification. *)

\* What is owed to a subscription as values instead of frames.
LEMMA ValuesFacts ==
  ASSUME NEW q \in Seq(Frames)
  PROVE  /\ ValuesOf(q) \in Seq(Nat) /\ Len(ValuesOf(q)) = Len(q)
         /\ ValuesOf(q) = <<>> <=> q = <<>>
         /\ \A f \in Frames : ValuesOf(Append(q, f)) = Append(ValuesOf(q), f.value)
         /\ q # <<>> => Head(ValuesOf(q)) = Head(q).value /\ Tail(ValuesOf(q)) = ValuesOf(Tail(q))
<1>1. Len(q) \in Nat /\ \A i \in 1..Len(q) : q[i].value \in Nat
  <2>1. Len(q) \in Nat /\ \A i \in 1..Len(q) : q[i] \in Frames OBVIOUS
  <2> QED BY <2>1 DEF Frames
<1>2. ValuesOf(q) \in Seq(Nat) /\ Len(ValuesOf(q)) = Len(q) /\ \A i \in 1..Len(q) : ValuesOf(q)[i] = q[i].value
  BY <1>1 DEF ValuesOf
<1>3. ValuesOf(q) = <<>> <=> q = <<>>
  <2>1. q = <<>> <=> Len(q) = 0 OBVIOUS
  <2>2. ValuesOf(q) = <<>> <=> Len(ValuesOf(q)) = 0 BY <1>2
  <2> QED BY <1>2, <2>1, <2>2
<1>4. ASSUME NEW f \in Frames PROVE ValuesOf(Append(q, f)) = Append(ValuesOf(q), f.value)
  <2>1. Append(q, f) \in Seq(Frames) /\ Len(Append(q, f)) = Len(q) + 1 OBVIOUS
  <2>2. f.value \in Nat BY DEF Frames
  <2>3. \A i \in 1..(Len(q) + 1) : Append(q, f)[i] = IF i = Len(q) + 1 THEN f ELSE q[i] OBVIOUS
  <2>4. ValuesOf(Append(q, f)) = [i \in 1..(Len(q) + 1) |-> Append(q, f)[i].value] BY <2>1 DEF ValuesOf
  <2>5. Append(ValuesOf(q), f.value) \in Seq(Nat) /\ Len(Append(ValuesOf(q), f.value)) = Len(q) + 1 BY <1>2, <2>2
  <2>6. \A i \in 1..(Len(q) + 1) : Append(ValuesOf(q), f.value)[i] = IF i = Len(q) + 1 THEN f.value ELSE q[i].value
    BY <1>2, <2>2
  <2>7. \A i \in 1..(Len(q) + 1) : Append(ValuesOf(q), f.value)[i] = Append(q, f)[i].value BY <2>3, <2>6
  <2>8. Append(ValuesOf(q), f.value) = [i \in 1..(Len(q) + 1) |-> Append(ValuesOf(q), f.value)[i]] BY <2>5
  <2> QED BY <2>4, <2>7, <2>8
<1>5. ASSUME q # <<>> PROVE Head(ValuesOf(q)) = Head(q).value /\ Tail(ValuesOf(q)) = ValuesOf(Tail(q))
  <2>1. Len(q) >= 1 /\ Head(q) = q[1] BY <1>5
  <2>2. Head(ValuesOf(q)) = ValuesOf(q)[1] BY <1>2, <2>1
  <2>3. Tail(q) \in Seq(Frames) /\ Len(Tail(q)) = Len(q) - 1 /\ \A i \in 1..(Len(q) - 1) : Tail(q)[i] = q[i + 1] BY <1>5
  <2>4. /\ Tail(ValuesOf(q)) \in Seq(Nat) /\ Len(Tail(ValuesOf(q))) = Len(q) - 1
        /\ \A i \in 1..(Len(q) - 1) : Tail(ValuesOf(q))[i] = ValuesOf(q)[i + 1]
    BY <1>2, <1>3, <1>5
  <2>5. \A i \in 1..(Len(q) - 1) : i + 1 \in 1..Len(q) BY <1>1
  <2>6. \A i \in 1..(Len(q) - 1) : Tail(ValuesOf(q))[i] = Tail(q)[i].value BY <1>2, <2>3, <2>4, <2>5
  <2>7. Tail(ValuesOf(q)) = [i \in 1..(Len(q) - 1) |-> Tail(ValuesOf(q))[i]]
    <3>1. \A u \in Seq(Nat) : u = [i \in 1..Len(u) |-> u[i]] OBVIOUS
    <3> QED BY <2>4, <3>1, ZenonT(20)
  <2> QED BY <1>2, <2>1, <2>2, <2>3, <2>6, <2>7 DEF ValuesOf
<1> QED BY <1>2, <1>3, <1>4, <1>5

\* A subscription that is opening or open can be reached, and its baseline is known.
LEMMA LiveFacts ==
  ASSUME ObsInv, NEW s \in Subscribers, taken[s] # None, end[s] = None
  PROVE  /\ s \in registered /\ doc[s] \in Docs /\ pc[s] \in {"arm"} \cup Consuming
         /\ taken[s] \in [value : Nat, revision : Nat] /\ taken[s].revision \in Nat
         /\ pending[s] \in Seq(Frames)
         /\ tracker[doc[s]] \in Nat => taken[s].revision <= tracker[doc[s]]
<1>1. /\ taken[s] \in [value : Nat, revision : Nat] /\ taken[s].revision \in Nat
      /\ pending[s] \in Seq(Frames) /\ pc[s] \in Places
  BY DEF ObsInv, ObsTypes
<1>2. pc[s] \in {"arm"} \cup Consuming BY <1>1 DEF ObsInv, SlotInv, Places
<1>3. s \in registered /\ doc[s] \in Docs BY <1>2 DEF ObsInv, SlotInv
<1>4. tracker[doc[s]] \in Nat => taken[s].revision <= tracker[doc[s]] BY NoneFacts DEF ObsInv, BaselineInv
<1> QED BY <1>1, <1>2, <1>3, <1>4

\* What a subscriber is to the abstract specification.
Seen(s) == <<StatusOf(s), IF Bound(s) THEN doc[s] ELSE None,
             IF pc[s] = "arm" THEN taken[s].value ELSE view[s],
             IF Bound(s) /\ end[s] = None THEN Buffered(s) \o Coming(s) ELSE <<>> >>

\* A subscriber whose slot and place are the same is the same, unless it is armed or something comes to it.
LEMMA SameSeen ==
  ASSUME NEW s \in Subscribers, taken'[s] = taken[s], doc'[s] = doc[s] \/ taken[s] = None,
         end'[s] = end[s] \/ taken[s] = None,
         pending'[s] = pending[s] \/ taken[s] = None \/ end[s] # None,
         view'[s] = view[s], pc'[s] = "arm" <=> pc[s] = "arm",
         taken[s] # None /\ end[s] = None => Coming(s)' = Coming(s)
  PROVE  Seen(s)' = Seen(s)
<1>1. StatusOf(s)' = StatusOf(s) BY DEF StatusOf, Bound
<1>2. (IF Bound(s) THEN doc[s] ELSE None)' = (IF Bound(s) THEN doc[s] ELSE None) BY DEF Bound
<1>3. (IF pc[s] = "arm" THEN taken[s].value ELSE view[s])' = (IF pc[s] = "arm" THEN taken[s].value ELSE view[s])
  OBVIOUS
<1>4. (IF Bound(s) /\ end[s] = None THEN Buffered(s) \o Coming(s) ELSE <<>>)'
      = (IF Bound(s) /\ end[s] = None THEN Buffered(s) \o Coming(s) ELSE <<>>)
  <2>1. CASE taken[s] = None \/ end[s] # None BY <2>1 DEF Bound
  <2>2. CASE taken[s] # None /\ end[s] = None
    <3>1. Buffered(s)' = Buffered(s) BY <2>2 DEF Buffered, FreshFrames, Fresh
    <3> QED BY <2>2, <3>1 DEF Bound
  <2> QED BY <2>1, <2>2
<1> QED BY <1>1, <1>2, <1>3, <1>4 DEF Seen

\* If all subscribers are the same and the documents too, nothing happens.
LEMMA NothingSeen ==
  ASSUME UNCHANGED <<tracker, value>>, \A s \in Subscribers : Seen(s)' = Seen(s)
  PROVE  UNCHANGED Promise!watchVars
<1>1. \A s \in Subscribers : /\ StatusOf(s)' = StatusOf(s)
                             /\ (IF Bound(s) THEN doc[s] ELSE None)' = (IF Bound(s) THEN doc[s] ELSE None)
                             /\ (IF pc[s] = "arm" THEN taken[s].value ELSE view[s])'
                                = (IF pc[s] = "arm" THEN taken[s].value ELSE view[s])
                             /\ (IF Bound(s) /\ end[s] = None THEN Buffered(s) \o Coming(s) ELSE <<>>)'
                                = (IF Bound(s) /\ end[s] = None THEN Buffered(s) \o Coming(s) ELSE <<>>)
  BY DEF Seen
<1>2. Statuses' = Statuses BY <1>1 DEF Statuses
<1>3. BoundTo' = BoundTo BY <1>1 DEF BoundTo
<1>4. Shown' = Shown BY <1>1 DEF Shown
<1>5. Owed' = Owed BY <1>1 DEF Owed
<1>6. Truth' = Truth BY DEF Truth
<1> QED BY <1>2, <1>3, <1>4, <1>5, <1>6 DEF Promise!watchVars

-----------------------------------------------------------------------------
(* The line: what is adopted is owed from that instant. *)

\* What a slot has buffered, as the abstract specification sees it.
LEMMA BufferedType ==
  ASSUME ObsInv, NEW s \in Subscribers
  PROVE  /\ Filter(pending[s], FreshFrames(taken[s].revision)) \in Seq(Frames)
         /\ Buffered(s) \in Seq(Nat)
         /\ Buffered(s) \o <<>> = Buffered(s)
         /\ \A v \in Nat : Buffered(s) \o <<v>> = Append(Buffered(s), v)
<1>1. pending[s] \in Seq(Frames) BY DEF ObsInv, ObsTypes
<1>2. Filter(pending[s], FreshFrames(taken[s].revision)) \in Seq(Frames) BY <1>1, FilterType
<1>3. Buffered(s) \in Seq(Nat) BY <1>2, ValuesFacts DEF Buffered
<1> QED BY <1>2, <1>3

\* A commit to d, of which the live slots of d are owed the value v.
LEMMA CommitOwes ==
  ASSUME ObsInv, line = "idle", UNCHANGED slotState, NEW d \in Docs, NEW v \in Nat,
         \A s \in Subscribers :
           taken[s] # None /\ end[s] = None
             => Coming(s)' = IF doc[s] = d THEN <<v>> ELSE <<>>
  PROVE  Promise!Owe(d, v) /\ UNCHANGED <<Statuses, BoundTo, Shown>>
<1>1. UNCHANGED <<Statuses, BoundTo, Shown>>
  BY DEF Statuses, BoundTo, Shown, StatusOf, Bound, slotState
<1> DEFINE owed(s) == IF Bound(s) /\ end[s] = None THEN Buffered(s) \o Coming(s) ELSE <<>>
<1>2. ASSUME NEW s \in Subscribers
      PROVE  owed(s)' = IF Promise!Live(s) /\ BoundTo[s] = d THEN Append(owed(s), v) ELSE owed(s)
  <2>1. Promise!Live(s) <=> taken[s] # None /\ end[s] = None BY DEF Promise!Live, Statuses, StatusOf, Bound
  <2>2. CASE taken[s] = None \/ end[s] # None BY <2>1, <2>2 DEF Bound, slotState
  <2>3. CASE taken[s] # None /\ end[s] = None
    <3>1. BoundTo[s] = doc[s] BY <2>3 DEF BoundTo, Bound
    <3>2. Coming(s) = <<>> BY DEF Coming
    <3>3. Buffered(s)' = Buffered(s) BY DEF Buffered, FreshFrames, Fresh, slotState
    <3>4. owed(s) = Buffered(s) /\ owed(s)' = Buffered(s) \o (IF doc[s] = d THEN <<v>> ELSE <<>>)
      BY <2>3, <3>2, <3>3, BufferedType DEF Bound, slotState
    <3> HIDE DEF owed
    <3> QED BY <2>1, <2>3, <3>1, <3>4, BufferedType
  <2> QED BY <2>2, <2>3
<1>3. Owed = [s \in Subscribers |-> owed(s)] /\ Owed' = [s \in Subscribers |-> owed(s)']
  BY DEF Owed
<1> HIDE DEF owed
<1>4. Promise!Owe(d, v) BY <1>2, <1>3 DEF Promise!Owe
<1> QED BY <1>1, <1>4

\* Reading a document from storage makes its value known; nobody is bound to it yet.
LEMMA LoadCommits ==
  ASSUME ObsInv, NEW d \in Docs, Load(d)
  PROVE  Promise!Commit(d)
<1>1. /\ line = "idle" /\ InStorage(d) /\ tracker[d] = None /\ tracker' = [tracker EXCEPT ![d] = 0]
      /\ UNCHANGED <<stored, value, line, change>> /\ UNCHANGED slotState
  BY DEF Load, slotState, slotVars
<1>2. value[d] \in 1..MaxValue /\ value[d] \in Nat
  <2>1. value[d] \in 0..MaxValue /\ value[d] # 0 BY <1>1 DEF ObsInv, ObsTypes, LineInv
  <2> QED BY <2>1, ObservationAssumption
<1>3. Truth[d] = None /\ Truth' = [Truth EXCEPT ![d] = value[d]]
  <2>1. tracker'[d] = 0 /\ 0 # None BY <1>1, NoneFacts DEF ObsInv, ObsTypes
  <2> QED BY <1>1, <2>1 DEF Truth, ObsInv, ObsTypes
<1>4. ASSUME NEW s \in Subscribers, taken[s] # None /\ end[s] = None
      PROVE  Coming(s)' = IF doc[s] = d THEN <<value[d]>> ELSE <<>>
  <2>1. doc[s] # d
    <3>1. doc[s] \in Docs BY <1>4, LiveFacts
    <3>2. stored[d] # "retired" BY <1>1 DEF InStorage
    <3> QED BY <1>1, <3>1, <3>2 DEF ObsInv, DocInv
  <2>2. Coming(s)' = <<>> BY <1>1 DEF Coming
  <2> QED BY <2>1, <2>2
<1>5. Promise!Owe(d, value[d]) /\ UNCHANGED <<Statuses, BoundTo, Shown>> BY <1>1, <1>2, <1>4, CommitOwes
<1> QED BY <1>2, <1>3, <1>5 DEF Promise!Commit

\* The change that has been adopted comes to the live slots of its document, above their baselines.
LEMMA ChangeComes ==
  ASSUME ObsInv, UNCHANGED slotState, NEW d \in Docs, NEW v \in Nat,
         line' = "publish", change' = [doc |-> d, value |-> v],
         v # Retired => tracker'[d] \in Nat,
         NEW s \in Subscribers, taken[s] # None, end[s] = None,
         doc[s] = d /\ v # Retired => taken[s].revision < tracker'[d]
  PROVE  Coming(s)' = IF doc[s] = d THEN <<v>> ELSE <<>>
<1>1. change'.doc = d /\ change'.value = v /\ doc'[s] = doc[s] /\ taken'[s] = taken[s] BY DEF slotState
<1>2. Frame'.revision = IF v = Retired THEN None ELSE tracker'[d] BY <1>1 DEF Frame
<1>3. Coming(s)' = IF doc[s] = d /\ Fresh(Frame', taken[s].revision) THEN <<v>> ELSE <<>>
  BY <1>1 DEF Coming, Fresh
<1>4. taken[s].revision \in Nat BY LiveFacts
<1>5. doc[s] = d => Fresh(Frame', taken[s].revision) BY <1>2, <1>4 DEF Fresh
<1> QED BY <1>3, <1>5

\* A new incarnation: nobody is bound to it yet.
LEMMA CreateCommits ==
  ASSUME ObsInv, NEW d \in Docs, Create(d)
  PROVE  Promise!Commit(d)
<1>1. /\ line = "idle" /\ stored[d] = "absent" /\ value' = [value EXCEPT ![d] = 1]
      /\ tracker' = [tracker EXCEPT ![d] = 0] /\ line' = "publish" /\ change' = [doc |-> d, value |-> 1]
      /\ UNCHANGED slotState
  BY DEF Create, Publishing, slotState, slotVars
<1>2. 1 \in 1..MaxValue BY ObservationAssumption
<1>3. tracker[d] = None BY <1>1 DEF ObsInv, LineInv, InStorage
<1>4. Truth[d] = None /\ Truth' = [Truth EXCEPT ![d] = 1]
  <2>1. tracker'[d] = 0 /\ 0 # None BY <1>1, NoneFacts DEF ObsInv, ObsTypes
  <2> QED BY <1>1, <1>3, <2>1 DEF Truth, ObsInv, ObsTypes
<1>5. ASSUME NEW s \in Subscribers, taken[s] # None /\ end[s] = None
      PROVE  Coming(s)' = IF doc[s] = d THEN <<1>> ELSE <<>>
  <2>1. doc[s] # d
    <3>1. doc[s] \in Docs BY <1>5, LiveFacts
    <3> QED BY <1>1, <1>3, <3>1 DEF ObsInv, DocInv
  <2>2. tracker'[d] \in Nat BY <1>1 DEF ObsInv, ObsTypes
  <2> QED BY <1>1, <1>5, <2>1, <2>2, ChangeComes
<1>6. Promise!Owe(d, 1) /\ UNCHANGED <<Statuses, BoundTo, Shown>> BY <1>1, <1>5, CommitOwes
<1> QED BY <1>2, <1>4, <1>6 DEF Promise!Commit

\* A changed value is owed to every live slot of the document: its revision is above their baselines.
LEMMA ChangeValueCommits ==
  ASSUME ObsInv, NEW d \in Docs, ChangeValue(d)
  PROVE  Promise!Commit(d)
<1> DEFINE v == value[d] + 1
<1>1. /\ line = "idle" /\ tracker[d] # None /\ value[d] < MaxValue
      /\ value' = [value EXCEPT ![d] = v] /\ tracker' = [tracker EXCEPT ![d] = @ + 1]
      /\ line' = "publish" /\ change' = [doc |-> d, value |-> v] /\ UNCHANGED slotState
  BY DEF ChangeValue, Publishing, slotState, slotVars
<1>2. tracker[d] \in Nat /\ value[d] \in Nat /\ v \in 1..MaxValue /\ v > value[d] /\ v \in Nat /\ v # Retired
  BY <1>1, ObservationAssumption DEF ObsInv, ObsTypes, Retired
<1> HIDE DEF v
<1>3. tracker'[d] = tracker[d] + 1 /\ tracker'[d] \in Nat /\ tracker'[d] # None
  BY <1>1, <1>2, NoneFacts DEF ObsInv, ObsTypes
<1>4. Truth[d] = value[d] BY <1>1 DEF Truth
<1>5. Truth' = [Truth EXCEPT ![d] = v]
  BY <1>1, <1>3 DEF Truth, ObsInv, ObsTypes
<1>6. ASSUME NEW s \in Subscribers, taken[s] # None /\ end[s] = None
      PROVE  Coming(s)' = IF doc[s] = d THEN <<v>> ELSE <<>>
  <2>1. doc[s] = d => taken[s].revision < tracker'[d]
    <3>1. taken[s].revision \in Nat /\ (doc[s] = d => taken[s].revision <= tracker[d]) BY <1>2, <1>6, LiveFacts
    <3> QED BY <1>2, <1>3, <3>1
  <2> QED BY <1>1, <1>2, <1>3, <1>6, <2>1, ChangeComes
<1>7. Promise!Owe(d, v) /\ UNCHANGED <<Statuses, BoundTo, Shown>> BY <1>1, <1>2, <1>6, CommitOwes
<1> QED BY <1>2, <1>4, <1>5, <1>7 DEF Promise!Commit

\* A migration: no live slot is bound to the document.
LEMMA MigrateCommits ==
  ASSUME ObsInv, ~MigratesWatched, NEW d \in Docs, Migrate(d)
  PROVE  Promise!Commit(d)
<1> DEFINE v == value[d] + 1
<1>1. /\ line = "idle" /\ value[d] < MaxValue /\ ~Watched(d)
      /\ value' = [value EXCEPT ![d] = v] /\ tracker' = [tracker EXCEPT ![d] = 0]
      /\ line' = "publish" /\ change' = [doc |-> d, value |-> v] /\ UNCHANGED slotState
  BY DEF Migrate, Publishing, slotState, slotVars
<1>2. value[d] \in Nat /\ v \in 1..MaxValue /\ v > value[d] /\ v \in Nat /\ v # Retired
  BY <1>1, ObservationAssumption DEF ObsInv, ObsTypes, Retired
<1> HIDE DEF v
<1>3. tracker'[d] = 0 /\ tracker'[d] \in Nat /\ tracker'[d] # None BY <1>1, NoneFacts DEF ObsInv, ObsTypes
<1>4. Truth[d] # None => Truth[d] = value[d] BY DEF Truth
<1>5. Truth' = [Truth EXCEPT ![d] = v] BY <1>1, <1>3 DEF Truth, ObsInv, ObsTypes
<1>6. ASSUME NEW s \in Subscribers, taken[s] # None /\ end[s] = None
      PROVE  Coming(s)' = IF doc[s] = d THEN <<v>> ELSE <<>>
  <2>1. s \in registered BY <1>6, LiveFacts
  <2>2. doc[s] # d BY <1>1, <1>6, <2>1 DEF Watched
  <2> QED BY <1>1, <1>2, <1>3, <1>6, <2>2, ChangeComes
<1>7. Promise!Owe(d, v) /\ UNCHANGED <<Statuses, BoundTo, Shown>> BY <1>1, <1>2, <1>6, CommitOwes
<1> QED BY <1>2, <1>4, <1>5, <1>7 DEF Promise!Commit

\* A retirement is owed to every live slot of the document.
LEMMA RetireRetires ==
  ASSUME ObsInv, NEW d \in Docs, Retire(d)
  PROVE  Promise!Retire(d)
<1>1. /\ line = "idle" /\ tracker[d] # None /\ tracker' = [tracker EXCEPT ![d] = None] /\ value' = value
      /\ line' = "publish" /\ change' = [doc |-> d, value |-> Retired] /\ UNCHANGED slotState
  BY DEF Retire, Publishing, slotState, slotVars
<1>2. Truth[d] # None
  <2>1. value[d] \in Nat BY ObservationAssumption DEF ObsInv, ObsTypes
  <2> QED BY <1>1, <2>1, NoneFacts DEF Truth
<1>3. Truth' = [Truth EXCEPT ![d] = None] BY <1>1 DEF Truth, ObsInv, ObsTypes
<1>4. Retired \in Nat BY DEF Retired
<1>5. ASSUME NEW s \in Subscribers, taken[s] # None /\ end[s] = None
      PROVE  Coming(s)' = IF doc[s] = d THEN <<Retired>> ELSE <<>>
  BY <1>1, <1>4, <1>5, ChangeComes
<1>6. Promise!Owe(d, Retired) /\ UNCHANGED <<Statuses, BoundTo, Shown>> BY <1>1, <1>4, <1>5, CommitOwes
<1>7. Promise!Retired = Retired BY DEF Promise!Retired, Retired
<1> QED BY <1>2, <1>3, <1>6, <1>7 DEF Promise!Retire

\* A filter of nothing but passing elements, and of none.
LEMMA FilterExtremes ==
  ASSUME NEW M, NEW S, NEW p \in Seq(M)
  PROVE  /\ (\A i \in 1..Len(p) : p[i] \in S) => Filter(p, S) = p
         /\ (\A i \in 1..Len(p) : p[i] \notin S) => Filter(p, S) = <<>>
<1>1. ASSUME \A i \in 1..Len(p) : p[i] \in S PROVE Filter(p, S) = p
  <2>1. ToSet(p) = {p[i] : i \in 1..Len(p)} BY ToSetFacts
  <2>2. ToSet(p) \subseteq S BY <1>1, <2>1
  <2> QED BY <2>2, FilterAll
<1>2. ASSUME \A i \in 1..Len(p) : p[i] \notin S PROVE Filter(p, S) = <<>>
  <2> DEFINE q == Filter(p, S)
  <2>1. q \in Seq(M) /\ \A i \in 1..Len(q) : q[i] \in S /\ \E j \in 1..Len(p) : p[j] = q[i] BY LastStaysLast DEF LeftOf
  <2> HIDE DEF q
  <2>2. ~\E i \in 1..Len(q) : TRUE BY <1>2, <2>1
  <2>3. q = <<>> BY <2>1, <2>2
  <2> QED BY <2>3 DEF q
<1> QED BY <1>1, <1>2

\* A filter of one element.
LEMMA FilterOne ==
  ASSUME NEW M, NEW S, NEW m \in M
  PROVE  Filter(<<m>>, S) = IF m \in S THEN <<m>> ELSE <<>>
<1> DEFINE e == <<>>
<1>1. e \in Seq(M) OBVIOUS
<1>2. Append(e, m) = <<m>> /\ Filter(e, S) = e BY FilterEmpty
<1> HIDE DEF e
<1>3. Filter(Append(e, m), S) = IF m \in S THEN Append(Filter(e, S), m) ELSE Filter(e, S) BY <1>1, FilterAppend
<1> QED BY <1>1, <1>2, <1>3 DEF e

\* What publication does to what a live slot is owed: nothing, unless the buffer is full.
LEMMA PublishOwes ==
  ASSUME ObsInv, Publish, NEW s \in Subscribers, taken[s] # None, end[s] = None
  PROVE  LET over == /\ doc[s] = change.doc /\ Fresh(Frame, taken[s].revision)
                     /\ Len(pending[s]) >= MaxPending
         IN  /\ Coming(s)' = <<>>
             /\ over => /\ Buffered(s)' = <<change.value>> /\ Coming(s) = <<change.value>>
                        /\ pc[s] # "arm" => Len(Buffered(s)) >= MaxPending
             /\ ~over => Buffered(s)' = Buffered(s) \o Coming(s)
<1> DEFINE F   == Frame
           rev == taken[s].revision
           T   == FreshFrames(rev)
           p   == pending[s]
<1>1. /\ line = "publish" /\ line' = "idle"
      /\ pending'[s] = IF s \in registered /\ doc[s] = change.doc THEN Push(s, F) ELSE p
      /\ UNCHANGED <<tracker, registered, pc, doc, taken, baseline, end>>
  BY DEF Publish
<1>2. /\ F \in Frames /\ F.value = change.value /\ change.doc \in Docs /\ F.revision = tracker[change.doc]
  BY <1>1, FrameFacts
<1>3. /\ s \in registered /\ doc[s] \in Docs /\ pc[s] \in {"arm"} \cup Consuming /\ rev \in Nat /\ p \in Seq(Frames)
      /\ tracker[doc[s]] \in Nat => rev <= tracker[doc[s]]
  BY LiveFacts
<1>4. Buffered(s) = ValuesOf(Filter(p, T)) /\ Buffered(s)' = ValuesOf(Filter(pending'[s], T))
  BY <1>1 DEF Buffered, FreshFrames, Fresh
<1>5. Coming(s)' = <<>> BY <1>1 DEF Coming
<1>6. Coming(s) = IF doc[s] = change.doc /\ Fresh(F, rev) THEN <<change.value>> ELSE <<>> BY <1>1 DEF Coming
<1>7. F \in T <=> Fresh(F, rev) BY <1>2 DEF FreshFrames
<1>8. baseline[s] = IF pc[s] = "arm" THEN None ELSE rev
  BY <1>3 DEF ObsInv, SlotInv, BaselineInv, Consuming
<1>9. pc[s] # "arm" => Filter(p, T) = p
  <2>1. ASSUME pc[s] # "arm", NEW i \in 1..Len(p) PROVE p[i] \in T
    <3>1. Fresh(p[i], rev) BY <1>3, <2>1 DEF ObsInv, BaselineInv
    <3>2. p[i] \in Frames BY <1>3
    <3> QED BY <3>1, <3>2 DEF FreshFrames
  <2> QED BY <1>3, <2>1, FilterExtremes
<1>10. /\ Filter(p, T) \in Seq(Frames) /\ Filter(Append(p, F), T) = IF F \in T THEN Append(Filter(p, T), F) ELSE Filter(p, T)
       /\ Filter(<<F>>, T) = IF F \in T THEN <<F>> ELSE <<>>
  <2> HIDE DEF F, T, p
  <2>1. Filter(p, T) \in Seq(Frames) BY <1>3, FilterType
  <2>2. Filter(Append(p, F), T) = IF F \in T THEN Append(Filter(p, T), F) ELSE Filter(p, T) BY <1>2, <1>3, FilterAppend
  <2> QED BY <1>2, <2>1, <2>2, FilterOne
<1>11. /\ ValuesOf(<<F>>) = <<change.value>> /\ ValuesOf(Append(Filter(p, T), F)) = Buffered(s) \o <<change.value>>
       /\ Len(ValuesOf(Filter(p, T))) = Len(Filter(p, T)) /\ Buffered(s) \o <<>> = Buffered(s)
  <2>0. <<>> \in Seq(Frames) /\ Append(<<>>, F) = <<F>> OBVIOUS
  <2>1. <<>> \in Seq(Frames) /\ Append(<<>>, F) = <<F>> /\ ValuesOf(<<>>) = <<>> BY <2>0, ValuesFacts
  <2>2. ValuesOf(<<F>>) = Append(<<>>, F.value) BY <1>2, <2>1, ValuesFacts
  <2>3. Append(<<>>, F.value) = <<F.value>> OBVIOUS
  <2>4. ValuesOf(Append(Filter(p, T), F)) = Append(Buffered(s), F.value) BY <1>2, <1>4, <1>10, ValuesFacts
  <2>5. F.value \in Nat BY <1>2 DEF Frames
  <2> QED BY <1>2, <1>10, <2>2, <2>3, <2>4, <2>5, BufferedType, ValuesFacts
<1>12. CASE doc[s] # change.doc BY <1>1, <1>4, <1>5, <1>6, <1>11, <1>12
<1>13. CASE doc[s] = change.doc /\ Fresh(F, rev)
  <2>1. Fresh(F, baseline[s]) BY <1>8, <1>13 DEF Fresh
  <2>2. pending'[s] = IF Len(p) >= MaxPending THEN <<F>> ELSE Append(p, F) BY <1>1, <1>3, <1>13, <2>1 DEF Push
  <2> HIDE DEF F, T, p
  <2>3. CASE Len(p) >= MaxPending
    <3>1. Buffered(s)' = <<change.value>> BY <1>4, <1>7, <1>10, <1>11, <1>13, <2>2, <2>3
    <3>2. pc[s] # "arm" => Len(Buffered(s)) >= MaxPending BY <1>4, <1>9, <1>11, <2>3
    <3> QED BY <1>5, <1>6, <1>13, <2>3, <3>1, <3>2 DEF F, p
  <2>4. CASE ~(Len(p) >= MaxPending)
    <3>1. Buffered(s)' = Buffered(s) \o <<change.value>> BY <1>4, <1>7, <1>10, <1>11, <1>13, <2>2, <2>4
    <3> QED BY <1>5, <1>6, <1>13, <2>4, <3>1 DEF F, p
  <2> QED BY <2>3, <2>4
<1>14. CASE doc[s] = change.doc /\ ~Fresh(F, rev)
  <2>1. Buffered(s)' = Buffered(s)
    <3>1. CASE pc[s] # "arm"
      <4>1. pending'[s] = p BY <1>1, <1>3, <1>8, <1>14, <3>1 DEF Push
      <4> QED BY <1>4, <4>1
    <3>2. CASE pc[s] = "arm"
      <4>1. F.revision # None /\ F.revision = tracker[doc[s]] /\ F.revision \in Nat /\ F.revision <= rev
        <5>1. F.revision \in Nat \cup {None} BY <1>2 DEF Frames
        <5>2. rev # None BY <1>3, NoneFacts
        <5> QED BY <1>2, <1>3, <1>14, <5>1, <5>2 DEF Fresh
      <4>2. ASSUME NEW i \in 1..Len(p) PROVE p[i] \notin T
        <5>1. p[i] \in Frames BY <1>3
        <5>2. /\ p[i].revision # None => p[i].revision <= tracker[doc[s]]
              /\ p[i].revision # None
          BY <4>1, <4>2 DEF ObsInv, PendingInv
        <5>3. p[i].revision \in Nat BY <5>1, <5>2 DEF Frames
        <5>4. rev # None BY <1>3, NoneFacts
        <5>5. ~(p[i].revision > rev) BY <1>3, <4>1, <5>2, <5>3
        <5>6. ~Fresh(p[i], rev) BY <5>2, <5>4, <5>5 DEF Fresh
        <5> QED BY <5>6 DEF FreshFrames
      <4>3. Filter(p, T) = <<>> BY <1>3, <4>2, FilterExtremes
      <4>4. pending'[s] \in {<<F>>, Append(p, F)} BY <1>1, <1>3, <1>8, <1>14, <3>2 DEF Push, Fresh
      <4> HIDE DEF F, T, p
      <4>5. Filter(pending'[s], T) = <<>> BY <1>7, <1>10, <1>14, <4>3, <4>4
      <4> QED BY <1>4, <4>3, <4>5
    <3> QED BY <3>1, <3>2
  <2> QED BY <1>5, <1>6, <1>11, <1>14, <2>1
<1> QED BY <1>12, <1>13, <1>14

\* Publishing is nothing to the specification, or the collapse of the slots that are full.
LEMMA PublishCollapses ==
  ASSUME ObsInv, Publish
  PROVE  Promise!Collapse \/ UNCHANGED Promise!watchVars
<1> DEFINE v       == change.value
           over(s) == /\ taken[s] # None /\ end[s] = None
                      /\ doc[s] = change.doc /\ Fresh(Frame, taken[s].revision) /\ Len(pending[s]) >= MaxPending
           full    == {s \in Subscribers : over(s)}
           owed(s) == IF Bound(s) /\ end[s] = None THEN Buffered(s) \o Coming(s) ELSE <<>>
<1>1. UNCHANGED <<tracker, value, pc, doc, taken, view, end>> BY DEF Publish
<1>2. UNCHANGED <<Truth, Statuses, BoundTo, Shown>> BY <1>1 DEF Truth, Statuses, StatusOf, BoundTo, Shown, Bound
<1>3. v \in Nat
  <2>1. line = "publish" BY DEF Publish
  <2>2. v \in 0..MaxValue BY <2>1 DEF ObsInv, LineInv
  <2> QED BY <2>2, ObservationAssumption
<1> HIDE DEF v
<1>4. ASSUME NEW s \in Subscribers
      PROVE  /\ owed(s)' = IF over(s) THEN <<v>> ELSE owed(s)
             /\ over(s) => /\ owed(s) = Append(Buffered(s), v) /\ Buffered(s) \in Seq(Nat)
                           /\ Statuses[s] \in {"opening", "open"}
                           /\ Statuses[s] # "opening" => Len(Buffered(s)) >= MaxPending
  <2>1. CASE taken[s] = None \/ end[s] # None BY <1>1, <2>1 DEF Bound
  <2>2. CASE taken[s] # None /\ end[s] = None
    <3>1. /\ Coming(s)' = <<>>
          /\ over(s) => /\ Buffered(s)' = <<v>> /\ Coming(s) = <<v>>
                        /\ pc[s] # "arm" => Len(Buffered(s)) >= MaxPending
          /\ ~over(s) => Buffered(s)' = Buffered(s) \o Coming(s)
      BY <2>2, PublishOwes DEF v
    <3>2. owed(s) = Buffered(s) \o Coming(s) /\ owed(s)' = Buffered(s)' \o Coming(s)' BY <1>1, <2>2 DEF Bound
    <3>3. Statuses[s] = IF pc[s] = "arm" THEN "opening" ELSE "open" BY <2>2 DEF Statuses, StatusOf, Bound
    <3>4. Buffered(s)' \o <<>> = Buffered(s)'
      <4>1. ObsInv' BY PublishInv
      <4>2. Buffered(s)' \in Seq(Nat)
        <5>1. pending'[s] \in Seq(Frames) BY <4>1 DEF ObsInv, ObsTypes
        <5>2. Filter(pending'[s], FreshFrames(taken'[s].revision)) \in Seq(Frames) BY <5>1, FilterType
        <5>3. Buffered(s)' = ValuesOf(Filter(pending'[s], FreshFrames(taken'[s].revision)))
          BY DEF Buffered, FreshFrames, Fresh
        <5> QED BY <5>2, <5>3, ValuesFacts
      <4> QED BY <4>2
    <3> HIDE DEF owed, over
    <3>5. over(s) => owed(s) = Append(Buffered(s), v) /\ Buffered(s) \in Seq(Nat) BY <1>3, <3>1, <3>2, BufferedType
    <3>6. owed(s)' = IF over(s) THEN <<v>> ELSE owed(s) BY <3>1, <3>2, <3>4
    <3> QED BY <3>1, <3>3, <3>5, <3>6
  <2> QED BY <2>1, <2>2
<1>5. Owed = [s \in Subscribers |-> owed(s)] /\ Owed' = [s \in Subscribers |-> owed(s)'] BY DEF Owed
<1> HIDE DEF owed, over
<1>6. CASE full = {}
  <2>1. Owed' = Owed BY <1>4, <1>5, <1>6
  <2> QED BY <1>2, <2>1 DEF Promise!watchVars
<1>7. CASE full # {}
  <2>1. full \in (SUBSET Subscribers) \ {{}} BY <1>7
  <2>2. ASSUME NEW s \in full
        PROVE  /\ Promise!Live(s) /\ Owed[s] # <<>> /\ Owed[s][Len(Owed[s])] = v
               /\ Len(Owed[s]) > MaxPending \/ Statuses[s] = "opening"
    <3>1. s \in Subscribers /\ over(s) OBVIOUS
    <3>2. Owed[s] = owed(s) BY <1>5, <3>1
    <3>3. Owed[s] = Append(Buffered(s), v) /\ Buffered(s) \in Seq(Nat) BY <1>4, <3>1, <3>2
    <3>4. Len(Owed[s]) = Len(Buffered(s)) + 1 /\ Owed[s][Len(Owed[s])] = v /\ Owed[s] # <<>> BY <1>3, <3>3
    <3>5. Statuses[s] # "opening" => Len(Owed[s]) > MaxPending
      <4>1. Len(Buffered(s)) \in Nat /\ MaxPending \in Nat BY <3>3, ObservationAssumption
      <4> QED BY <1>4, <3>1, <3>4, <4>1
    <3> QED BY <1>4, <3>1, <3>4, <3>5 DEF Promise!Live
  <2>3. Owed' = [s \in Subscribers |-> IF s \in full THEN <<Owed[s][Len(Owed[s])]>> ELSE Owed[s]]
    BY <1>4, <1>5, <2>2
  <2> HIDE DEF full
  <2> QED BY <1>2, <2>1, <2>2, <2>3 DEF Promise!Collapse
<1> QED BY <1>6, <1>7

-----------------------------------------------------------------------------
(* The subscribers, and what ends a subscription. *)

\* Slots that end, end subscriptions, or none.
LEMMA EndsEnd ==
  ASSUME ObsInv, NEW S \in SUBSET Subscribers, NEW reason \in Reasons, Terminate(S, reason),
         UNCHANGED <<tracker, value, doc, taken, view>>,
         \A s \in Subscribers : pc'[s] = "arm" <=> pc[s] = "arm",
         \A s \in Subscribers : Coming(s)' = Coming(s)
  PROVE  Promise!End \/ UNCHANGED Promise!watchVars
<1> DEFINE ends == {s \in S : taken[s] # None /\ end[s] = None}
<1>1. /\ \A n \in S : end'[n] # None
      /\ \A n \in Subscribers : end[n] # None => end'[n] = end[n] /\ pending'[n] = pending[n]
      /\ \A n \in Subscribers \ S : end'[n] = end[n] /\ pending'[n] = pending[n]
  BY TerminateFacts
<1>2. ASSUME NEW s \in Subscribers, s \notin ends PROVE Seen(s)' = Seen(s)
  <2>1. (end'[s] = end[s] /\ pending'[s] = pending[s]) \/ taken[s] = None BY <1>1, <1>2
  <2> QED BY <2>1, SameSeen
<1>3. CASE ends = {} BY <1>2, <1>3, NothingSeen
<1>4. CASE ends # {}
  <2>1. ends \in (SUBSET Subscribers) \ {{}} BY <1>4
  <2>2. ASSUME NEW s \in ends
        PROVE  /\ Statuses[s] \in {"opening", "open"} /\ Statuses'[s] = "ended" /\ Owed'[s] = <<>>
    <3>1. s \in Subscribers /\ taken[s] # None /\ end[s] = None /\ end'[s] # None BY <1>1
    <3> QED BY <3>1 DEF Statuses, StatusOf, Bound, Owed
  <2>3. ASSUME NEW s \in Subscribers, s \notin ends PROVE Statuses'[s] = Statuses[s] /\ Owed'[s] = Owed[s]
    <3>1. Seen(s)' = Seen(s) BY <1>2, <2>3
    <3>2. /\ StatusOf(s)' = StatusOf(s)
          /\ (IF Bound(s) /\ end[s] = None THEN Buffered(s) \o Coming(s) ELSE <<>>)'
             = (IF Bound(s) /\ end[s] = None THEN Buffered(s) \o Coming(s) ELSE <<>>)
      BY <3>1 DEF Seen
    <3> QED BY <3>2 DEF Statuses, Owed
  <2>4. Statuses' = [s \in Subscribers |-> IF s \in ends THEN "ended" ELSE Statuses[s]]
    <3>1. Statuses' = [s \in Subscribers |-> Statuses'[s]] BY DEF Statuses
    <3> HIDE DEF ends
    <3> QED BY <2>2, <2>3, <3>1
  <2>5. Owed' = [s \in Subscribers |-> IF s \in ends THEN <<>> ELSE Owed[s]]
    <3>1. Owed' = [s \in Subscribers |-> Owed'[s]] BY DEF Owed
    <3> HIDE DEF ends
    <3> QED BY <2>2, <2>3, <3>1
  <2>6. UNCHANGED <<Truth, BoundTo, Shown>> BY DEF Truth, BoundTo, Shown, Bound
  <2> HIDE DEF ends
  <2>7. \A s \in ends : Promise!Live(s) BY <2>2 DEF Promise!Live
  <2> QED BY <2>1, <2>4, <2>5, <2>6, <2>7 DEF Promise!End
<1> QED BY <1>3, <1>4

\* Closing the session.
LEMMA CloseEnds ==
  ASSUME ObsInv, Close
  PROVE  Promise!End \/ UNCHANGED Promise!watchVars
<1>1. /\ line = "sealed" /\ line' = "closed" /\ Terminate(registered, "closed")
      /\ UNCHANGED <<tracker, value, pc, doc, taken, view>>
  BY DEF Close
<1>2. registered \subseteq Subscribers /\ "closed" \in Reasons BY DEF ObsInv, ObsTypes, Reasons
<1>3. \A s \in Subscribers : Coming(s)' = Coming(s) BY <1>1 DEF Coming
<1> QED BY <1>1, <1>2, <1>3, EndsEnd

\* A line that stays where it is lets the same come to a slot that is bound as it was.
LEMMA ComingStays ==
  ASSUME NEW s \in Subscribers, UNCHANGED lineVars, taken'[s] = taken[s], doc'[s] = doc[s]
  PROVE  Coming(s)' = Coming(s)
BY DEF Coming, Fresh, Frame, lineVars

\* Stopping, cancelling, dropping and failing.
LEMMA SlotEndsEnd ==
  ASSUME ObsInv, NEW s \in Subscribers, pc[s] \in {"read"} \cup Consuming, NEW reason \in Reasons, Terminate({s}, reason),
         pc' \in {pc, [pc EXCEPT ![s] = "done"]}, UNCHANGED <<lineVars, doc, taken, view>>
  PROVE  Promise!End \/ UNCHANGED Promise!watchVars
<1>1. pc \in [Subscribers -> Places] BY DEF ObsInv, ObsTypes
<1>2. \A n \in Subscribers : pc'[n] = "arm" <=> pc[n] = "arm" BY <1>1 DEF Consuming
<1>3. \A n \in Subscribers : Coming(n)' = Coming(n) BY ComingStays
<1>4. UNCHANGED <<tracker, value>> BY DEF lineVars
<1> QED BY <1>2, <1>3, <1>4, EndsEnd

\* The steps the specification does not see.
LEMMA QuietSteps ==
  ASSUME ObsInv,
         \/ Uncertain \/ Seal \/ UNCHANGED vars
         \/ \E s \in Subscribers : \/ Find(s) \/ Register(s) \/ Enable(s) \/ TakeNothing(s) \/ CheckEnd(s) \/ Cancel(s)
  PROVE  UNCHANGED Promise!watchVars
<1>1. CASE Uncertain \/ Seal
  <2>1. /\ line = "idle" /\ line' # "publish"
        /\ UNCHANGED <<tracker, value, pc, doc, taken, view, pending, end>>
    BY <1>1 DEF Uncertain, Seal, slotVars
  <2>2. ASSUME NEW s \in Subscribers PROVE Seen(s)' = Seen(s)
    <3>1. Coming(s)' = Coming(s) BY <2>1 DEF Coming
    <3> QED BY <2>1, <3>1, SameSeen
  <2> QED BY <2>1, <2>2, NothingSeen
<1>2. CASE UNCHANGED vars
  <2>1. UNCHANGED lineVars /\ UNCHANGED <<tracker, value, pc, doc, taken, view, pending, end>>
    BY <1>2 DEF vars, lineVars, slotVars
  <2>2. ASSUME NEW s \in Subscribers PROVE Seen(s)' = Seen(s)
    <3>1. Coming(s)' = Coming(s) BY <2>1, ComingStays
    <3> QED BY <2>1, <3>1, SameSeen
  <2> QED BY <2>1, <2>2, NothingSeen
<1>3. ASSUME NEW s \in Subscribers, \/ Find(s) \/ Register(s) \/ Enable(s) \/ TakeNothing(s) \/ CheckEnd(s) \/ Cancel(s)
      PROVE  UNCHANGED Promise!watchVars
  <2>1. /\ UNCHANGED lineVars /\ UNCHANGED <<taken, view, pending, end>>
        /\ doc' = doc \/ (pc[s] = "find" /\ doc' = [doc EXCEPT ![s] = current])
        /\ pc' = pc \/ \E to \in Places \ {"arm"} : pc[s] # "arm" /\ pc' = [pc EXCEPT ![s] = to]
    BY <1>3 DEF Find, Register, Enable, TakeNothing, CheckEnd, Cancel, Go, slotVars, Places, Consuming
  <2>2. pc \in [Subscribers -> Places] /\ doc \in [Subscribers -> Docs \cup {None}] BY DEF ObsInv, ObsTypes
  <2>3. \A n \in Subscribers : pc'[n] = "arm" <=> pc[n] = "arm" BY <2>1, <2>2
  <2>4. \A n \in Subscribers : doc'[n] = doc[n] \/ taken[n] = None
    <3>1. pc[s] = "find" => taken[s] = None BY DEF ObsInv, SlotInv
    <3> QED BY <2>1, <2>2, <3>1
  <2>5. ASSUME NEW n \in Subscribers PROVE Seen(n)' = Seen(n)
    <3>1. taken[n] # None => Coming(n)' = Coming(n) BY <2>1, <2>4, ComingStays
    <3> QED BY <2>1, <2>3, <2>4, <3>1, SameSeen
  <2>6. UNCHANGED <<tracker, value>> BY <2>1 DEF lineVars
  <2> QED BY <2>5, <2>6, NothingSeen
<1> QED BY <1>1, <1>2, <1>3

\* The steps of a consumer that end its subscription, or that go on.
LEMMA ConsumerEnds ==
  ASSUME ObsInv, NEW s \in Subscribers, Delivered(s) \/ Wake(s) \/ Stop(s) \/ Drop(s)
  PROVE  Promise!End \/ UNCHANGED Promise!watchVars
<1>1. pc[s] \in Consuming /\ UNCHANGED <<lineVars, doc, taken, view>>
  BY DEF Delivered, Wake, Stop, Drop, Consuming
<1>2. CASE UNCHANGED <<end, pending>> /\ \E to \in {"ready", "done"} : pc' = [pc EXCEPT ![s] = to]
  <2>1. pc \in [Subscribers -> Places] BY DEF ObsInv, ObsTypes
  <2>2. \A n \in Subscribers : pc'[n] = "arm" <=> pc[n] = "arm" BY <1>1, <1>2, <2>1 DEF Consuming
  <2>3. ASSUME NEW n \in Subscribers PROVE Seen(n)' = Seen(n)
    <3>1. Coming(n)' = Coming(n) BY <1>1, ComingStays
    <3> QED BY <1>1, <1>2, <2>2, <3>1, SameSeen
  <2>4. UNCHANGED <<tracker, value>> BY <1>1 DEF lineVars
  <2> QED BY <2>3, <2>4, NothingSeen
<1>3. CASE \E reason \in {"failed", "cancelled", "stopped"} :
             Terminate({s}, reason) /\ pc' \in {pc, [pc EXCEPT ![s] = "done"]}
  <2>1. PICK reason \in {"failed", "cancelled", "stopped"} :
          Terminate({s}, reason) /\ pc' \in {pc, [pc EXCEPT ![s] = "done"]}
    BY <1>3
  <2>2. reason \in Reasons BY DEF Reasons
  <2> QED BY <1>1, <2>1, <2>2, SlotEndsEnd
<1> QED BY <1>2, <1>3 DEF Delivered, Wake, Stop, Drop, Go

\* What a subscriber is seen as, taken apart ...
LEMMA SeenFacts ==
  ASSUME NEW s \in Subscribers, Seen(s)' = Seen(s)
  PROVE  /\ Statuses'[s] = Statuses[s] /\ BoundTo'[s] = BoundTo[s]
         /\ Shown'[s] = Shown[s] /\ Owed'[s] = Owed[s]
<1>1. /\ StatusOf(s)' = StatusOf(s)
      /\ (IF Bound(s) THEN doc[s] ELSE None)' = (IF Bound(s) THEN doc[s] ELSE None)
      /\ (IF pc[s] = "arm" THEN taken[s].value ELSE view[s])' = (IF pc[s] = "arm" THEN taken[s].value ELSE view[s])
      /\ (IF Bound(s) /\ end[s] = None THEN Buffered(s) \o Coming(s) ELSE <<>>)'
         = (IF Bound(s) /\ end[s] = None THEN Buffered(s) \o Coming(s) ELSE <<>>)
  BY DEF Seen
<1> QED BY <1>1 DEF Statuses, BoundTo, Shown, Owed

\* ... and put together: a step of one subscriber.
LEMMA SeenShapes ==
  ASSUME NEW s \in Subscribers
  PROVE  /\ \A x : (\A n \in Subscribers : Statuses'[n] = IF n = s THEN x ELSE Statuses[n])
                     => Statuses' = [Statuses EXCEPT ![s] = x]
         /\ \A x : (\A n \in Subscribers : BoundTo'[n] = IF n = s THEN x ELSE BoundTo[n])
                     => BoundTo' = [BoundTo EXCEPT ![s] = x]
         /\ \A x : (\A n \in Subscribers : Shown'[n] = IF n = s THEN x ELSE Shown[n])
                     => Shown' = [Shown EXCEPT ![s] = x]
         /\ \A x : (\A n \in Subscribers : Owed'[n] = IF n = s THEN x ELSE Owed[n])
                     => Owed' = [Owed EXCEPT ![s] = x]
         /\ (\A n \in Subscribers : Statuses'[n] = Statuses[n]) => Statuses' = Statuses
         /\ (\A n \in Subscribers : BoundTo'[n] = BoundTo[n]) => BoundTo' = BoundTo
         /\ (\A n \in Subscribers : Shown'[n] = Shown[n]) => Shown' = Shown
         /\ (\A n \in Subscribers : Owed'[n] = Owed[n]) => Owed' = Owed
<1>1. /\ Statuses' = [n \in Subscribers |-> Statuses'[n]] /\ Statuses = [n \in Subscribers |-> Statuses[n]]
      /\ BoundTo' = [n \in Subscribers |-> BoundTo'[n]] /\ BoundTo = [n \in Subscribers |-> BoundTo[n]]
  BY DEF Statuses, BoundTo
<1>2. /\ Shown' = [n \in Subscribers |-> Shown'[n]] /\ Shown = [n \in Subscribers |-> Shown[n]]
      /\ Owed' = [n \in Subscribers |-> Owed'[n]] /\ Owed = [n \in Subscribers |-> Owed[n]]
  BY DEF Shown, Owed
<1> QED BY <1>1, <1>2

\* The baseline is read: nothing is owed above it yet.
LEMMA ReadOpens ==
  ASSUME ObsInv, NEW s \in Subscribers, ReadBaseline(s)
  PROVE  Promise!Open(s) \/ Promise!End \/ UNCHANGED Promise!watchVars
<1>1. pc[s] = "read" /\ UNCHANGED <<lineVars, doc, view, baseline>> BY DEF ReadBaseline
<1>2. taken[s] = None /\ doc[s] \in Docs BY <1>1 DEF ObsInv, SlotInv
<1>3. CASE tracker[doc[s]] = None
  <2>1. pc' = [pc EXCEPT ![s] = "done"] /\ Terminate({s}, "stopped") /\ taken' = taken
    BY <1>3 DEF ReadBaseline, Go
  <2>2. "stopped" \in Reasons BY DEF Reasons
  <2> QED BY <1>1, <2>1, <2>2, SlotEndsEnd
<1>4. CASE tracker[doc[s]] # None
  <2> DEFINE base == [value |-> value[doc[s]], revision |-> tracker[doc[s]]]
             to   == IF end[s] = None THEN "opening" ELSE "ended"
             T    == FreshFrames(tracker[doc[s]])
             p    == pending[s]
  <2>1. /\ pc' = [pc EXCEPT ![s] = "arm"] /\ taken' = [taken EXCEPT ![s] = base]
        /\ UNCHANGED <<end, pending>>
    BY <1>4 DEF ReadBaseline, Go
  <2>2. /\ pc \in [Subscribers -> Places] /\ taken \in [Subscribers -> [value : Nat, revision : Nat] \cup {None}]
        /\ tracker[doc[s]] \in Nat /\ value[doc[s]] \in Nat /\ p \in Seq(Frames)
    BY <1>2, <1>4, ObservationAssumption DEF ObsInv, ObsTypes
  <2>3. base # None
    <3>1. base \in Frames BY <2>2 DEF Frames
    <3> QED BY <3>1, NoneFacts
  <2>4. pc'[s] = "arm" /\ taken'[s] = base /\ \A n \in Subscribers \ {s} : pc'[n] = pc[n] /\ taken'[n] = taken[n]
    BY <2>1, <2>2
  <2>5. ASSUME NEW n \in Subscribers, n # s PROVE Seen(n)' = Seen(n)
    <3>1. Coming(n)' = Coming(n) BY <1>1, <2>4, <2>5, ComingStays
    <3> QED BY <1>1, <2>1, <2>4, <2>5, <3>1, SameSeen
  <2>6. /\ StatusOf(s) = "out" /\ StatusOf(s)' = to /\ Bound(s)' /\ ~Bound(s)
    BY <1>2, <2>1, <2>3, <2>4 DEF StatusOf, Bound
  <2>7. Buffered(s)' = <<>>
    <3>1. ASSUME NEW i \in 1..Len(p) PROVE p[i] \notin T
      <4>1. p[i] \in Frames BY <2>2
      <4>2. p[i].revision # None /\ p[i].revision <= tracker[doc[s]] BY <1>4, <3>1 DEF ObsInv, PendingInv
      <4>3. p[i].revision \in Nat BY <4>1, <4>2 DEF Frames
      <4>4. ~(p[i].revision > tracker[doc[s]]) BY <2>2, <4>2, <4>3
      <4> QED BY <1>4, <4>2, <4>4 DEF Fresh, FreshFrames
    <3>2. Filter(p, T) = <<>> BY <2>2, <3>1, FilterExtremes
    <3>3. Buffered(s)' = ValuesOf(Filter(p, T))
      <4>1. taken'[s].revision = tracker[doc[s]] BY <2>4
      <4> QED BY <2>1, <4>1 DEF Buffered, FreshFrames, Fresh
    <3>4. <<>> \in Seq(Frames) OBVIOUS
    <3>5. ValuesOf(<<>>) = <<>> BY <3>4, ValuesFacts
    <3> QED BY <3>2, <3>3, <3>5
  <2>8. Coming(s)' = <<>>
    <3>1. ASSUME line = "publish", change.doc = doc[s] PROVE ~Fresh(Frame, tracker[doc[s]])
      <4>1. Frame.revision = tracker[doc[s]] BY <3>1, FrameFacts
      <4>2. ~(tracker[doc[s]] > tracker[doc[s]]) BY <2>2
      <4> QED BY <1>4, <4>1, <4>2 DEF Fresh
    <3>2. line' = line /\ change' = change /\ tracker' = tracker /\ doc' = doc /\ taken'[s].revision = tracker[doc[s]]
      BY <1>1, <2>4 DEF lineVars
    <3>3. Coming(s)' = IF line = "publish" /\ change.doc = doc[s] /\ Fresh(Frame, tracker[doc[s]])
                       THEN <<change.value>> ELSE <<>>
      BY <3>2 DEF Coming, Fresh, Frame
    <3> QED BY <3>1, <3>3
  <2> HIDE DEF to, T, p
  <2>9. Truth[doc[s]] = value[doc[s]] /\ Truth[doc[s]] # None
    BY <1>2, <1>4, <2>2, NoneFacts DEF Truth
  <2>10. ASSUME NEW n \in Subscribers, n # s
         PROVE  /\ Statuses'[n] = Statuses[n] /\ BoundTo'[n] = BoundTo[n]
                /\ Shown'[n] = Shown[n] /\ Owed'[n] = Owed[n]
    BY <2>5, <2>10, SeenFacts
  <2>11. Statuses[s] = "out" /\ Statuses'[s] = to BY <2>6 DEF Statuses
  <2>12. BoundTo'[s] = doc[s] BY <1>1, <2>6 DEF BoundTo
  <2>13. Shown'[s] = Truth[doc[s]] BY <2>4, <2>9 DEF Shown
  <2>14. Owed'[s] = Owed[s] BY <2>6, <2>7, <2>8 DEF Owed
  <2>15. /\ Statuses' = [Statuses EXCEPT ![s] = to] /\ BoundTo' = [BoundTo EXCEPT ![s] = doc[s]]
         /\ Shown' = [Shown EXCEPT ![s] = Truth[doc[s]]] /\ Owed' = Owed
    BY <2>10, <2>11, <2>12, <2>13, <2>14, SeenShapes
  <2>16. Truth' = Truth BY <1>1 DEF Truth, lineVars
  <2>17. to \in {"opening", "ended"} BY DEF to
  <2> QED BY <1>2, <2>9, <2>11, <2>15, <2>16, <2>17 DEF Promise!Open
<1> QED BY <1>3, <1>4

\* Arming drops only what was not owed.
LEMMA ArmOpens ==
  ASSUME ObsInv, NEW s \in Subscribers, Arm(s)
  PROVE  Promise!Opened(s) \/ UNCHANGED Promise!watchVars
<1> DEFINE T == FreshFrames(taken[s].revision)
           q == Filter(pending[s], T)
<1>1. /\ pc[s] = "arm" /\ pc' = [pc EXCEPT ![s] = "ready"] /\ view' = [view EXCEPT ![s] = taken[s].value]
      /\ pending' = [pending EXCEPT ![s] = q]
      /\ UNCHANGED <<doc, taken, end>> /\ UNCHANGED lineVars
  BY DEF Arm, Go
<1>2. taken[s] # None BY <1>1 DEF ObsInv, SlotInv
<1>3. /\ pc \in [Subscribers -> Places] /\ view \in [Subscribers -> Nat \cup {None}]
      /\ pending \in [Subscribers -> Seq(Frames)]
  BY DEF ObsInv, ObsTypes
<1>4. /\ pc'[s] = "ready" /\ view'[s] = taken[s].value /\ pending'[s] = q
      /\ \A n \in Subscribers \ {s} : pc'[n] = pc[n] /\ view'[n] = view[n] /\ pending'[n] = pending[n]
  BY <1>1, <1>3
<1>5. ASSUME NEW n \in Subscribers PROVE Coming(n)' = Coming(n) BY <1>1, ComingStays
<1>6. ASSUME NEW n \in Subscribers, n # s PROVE Seen(n)' = Seen(n)
  BY <1>1, <1>4, <1>5, <1>6, SameSeen
<1>7. Buffered(s)' = Buffered(s)
  <2>1. pending[s] \in Seq(Frames) BY <1>3
  <2>2. q \in Seq(Frames) /\ \A i \in 1..Len(q) : q[i] \in T BY <2>1, LastStaysLast DEF LeftOf
  <2>3. Filter(q, T) = q BY <2>2, FilterExtremes
  <2>4. Buffered(s)' = ValuesOf(Filter(q, T)) BY <1>1, <1>4 DEF Buffered, FreshFrames, Fresh
  <2> QED BY <2>3, <2>4 DEF Buffered
<1>8. Truth' = Truth BY <1>1 DEF Truth, lineVars
<1>9. ASSUME NEW n \in Subscribers, n # s
      PROVE  /\ Statuses'[n] = Statuses[n] /\ BoundTo'[n] = BoundTo[n]
             /\ Shown'[n] = Shown[n] /\ Owed'[n] = Owed[n]
  BY <1>6, <1>9, SeenFacts
<1> DEFINE to == IF end[s] = None THEN "open" ELSE "ended"
<1>10. /\ Statuses'[s] = to /\ Statuses[s] = IF end[s] = None THEN "opening" ELSE "ended"
  BY <1>1, <1>2, <1>4 DEF Statuses, StatusOf, Bound
<1>11. BoundTo'[s] = BoundTo[s] /\ Shown'[s] = Shown[s] BY <1>1, <1>4 DEF BoundTo, Shown, Bound
<1>12. Owed'[s] = Owed[s] BY <1>1, <1>5, <1>7 DEF Owed, Bound
<1> HIDE DEF to, q, T
<1>13. /\ Statuses' = [Statuses EXCEPT ![s] = to] /\ BoundTo' = [BoundTo EXCEPT ![s] = BoundTo[s]]
       /\ Shown' = [Shown EXCEPT ![s] = Shown[s]] /\ Owed' = Owed
  BY <1>9, <1>10, <1>11, <1>12, SeenShapes
<1>14. BoundTo' = BoundTo /\ Shown' = Shown BY <1>9, <1>11, SeenShapes
<1>15. CASE end[s] = None BY <1>8, <1>10, <1>13, <1>14, <1>15 DEF Promise!Opened, to
<1>16. CASE end[s] # None
  <2>1. Statuses' = Statuses BY <1>9, <1>10, <1>16, SeenShapes DEF to
  <2> QED BY <1>8, <1>13, <1>14, <2>1 DEF Promise!watchVars
<1> QED BY <1>15, <1>16

\* A frame that is taken is the first that was owed; a retirement was the last.
LEMMA TakeDelivers ==
  ASSUME ObsInv, NEW s \in Subscribers, Take(s)
  PROVE  Promise!Deliver(s)
<1> DEFINE f   == Head(pending[s])
           q   == Tail(pending[s])
           rev == taken[s].revision
<1>1. /\ pc[s] = "enabled" /\ pc' = [pc EXCEPT ![s] = "delivering"] /\ view' = [view EXCEPT ![s] = f.value]
      /\ end' = [end EXCEPT ![s] = IF f.value = Retired /\ @ = None THEN "retired" ELSE @]
      /\ pending' = [pending EXCEPT ![s] = q]
      /\ UNCHANGED <<doc, taken>> /\ UNCHANGED lineVars /\ TakeFrame(s, "delivering")
  BY DEF Take, TakeFrame, Go
<1>2. /\ end[s] = None /\ pending[s] # <<>> /\ pending[s] \in Seq(Frames) /\ f \in Frames /\ q \in Seq(Frames)
      /\ f = pending[s][1] /\ Len(q) = Len(pending[s]) - 1
      /\ \A i \in 1..Len(q) : i + 1 \in 1..Len(pending[s]) /\ q[i] = pending[s][i + 1]
      /\ f.value = Retired => q = <<>>
  BY <1>1, TakeFacts
<1>3. taken[s] # None /\ "retired" # None BY <1>1, NoneFacts DEF ObsInv, SlotInv, Consuming, Reasons
<1>4. /\ pc \in [Subscribers -> Places] /\ view \in [Subscribers -> Nat \cup {None}]
      /\ pending \in [Subscribers -> Seq(Frames)] /\ end \in [Subscribers -> Reasons \cup {None}]
  BY DEF ObsInv, ObsTypes
<1>5. ASSUME NEW i \in 1..Len(pending[s]) PROVE pending[s][i] \in FreshFrames(rev)
  <2>1. pending[s][i] \in Frames BY <1>2
  <2>2. Fresh(pending[s][i], rev) BY <1>1 DEF ObsInv, BaselineInv, Consuming
  <2> QED BY <2>1, <2>2 DEF FreshFrames
<1>6. Buffered(s) = ValuesOf(pending[s])
  <2>1. Filter(pending[s], FreshFrames(rev)) = pending[s] BY <1>2, <1>5, FilterExtremes
  <2> QED BY <2>1 DEF Buffered
<1>7. Head(Buffered(s)) = f.value /\ Tail(Buffered(s)) = ValuesOf(q) /\ Buffered(s) # <<>> /\ Buffered(s) \in Seq(Nat)
  BY <1>2, <1>6, ValuesFacts
<1>8. f.value = Retired => Coming(s) = <<>> /\ q = <<>>
  <2>1. ASSUME f.value = Retired, line = "publish", change.doc = doc[s] PROVE FALSE
    <3>1. 1 \in 1..Len(pending[s]) BY <1>2
    <3> QED BY <1>2, <2>1, <3>1 DEF ObsInv, PendingInv
  <2> QED BY <1>2, <2>1 DEF Coming
<1>9. Coming(s) \in Seq(Nat)
  <2>1. CASE line = "publish"
    <3>1. change.value \in 0..MaxValue BY <2>1 DEF ObsInv, LineInv
    <3>2. change.value \in Nat BY <3>1, ObservationAssumption
    <3> QED BY <3>2 DEF Coming
  <2> QED BY <2>1 DEF Coming
<1>10. Owed[s] = Buffered(s) \o Coming(s) BY <1>2, <1>3 DEF Owed, Bound
<1>11. Owed[s] # <<>> /\ Head(Owed[s]) = f.value /\ Tail(Owed[s]) = ValuesOf(q) \o Coming(s)
  <2>1. \A b, c \in Seq(Nat) : b # <<>> => b \o c # <<>> /\ Head(b \o c) = Head(b) /\ Tail(b \o c) = Tail(b) \o c
    <3> TAKE b, c \in Seq(Nat)
    <3> HAVE b # <<>>
    <3>1. /\ Len(b) \in Nat \ {0} /\ Len(c) \in Nat /\ b \o c \in Seq(Nat) /\ Len(b \o c) = Len(b) + Len(c)
          /\ \A i \in 1..(Len(b) + Len(c)) : (b \o c)[i] = IF i <= Len(b) THEN b[i] ELSE c[i - Len(b)]
      OBVIOUS
    <3>2. b \o c # <<>> /\ Head(b \o c) = Head(b) BY <3>1
    <3>3. /\ Tail(b) \in Seq(Nat) /\ Len(Tail(b)) = Len(b) - 1 /\ Tail(b) \o c \in Seq(Nat)
          /\ Len(Tail(b) \o c) = Len(b) - 1 + Len(c)
          /\ \A i \in 1..(Len(b) - 1) : Tail(b)[i] = b[i + 1]
      BY <3>1
    <3>4. \A i \in 1..(Len(b) - 1 + Len(c)) :
            (Tail(b) \o c)[i] = IF i <= Len(b) - 1 THEN b[i + 1] ELSE c[i - (Len(b) - 1)]
      BY <3>1, <3>3
    <3>5. /\ Tail(b \o c) \in Seq(Nat) /\ Len(Tail(b \o c)) = Len(b) - 1 + Len(c)
          /\ \A i \in 1..(Len(b) - 1 + Len(c)) : Tail(b \o c)[i] = (b \o c)[i + 1]
      BY <3>1, <3>2
    <3>6. \A i \in 1..(Len(b) - 1 + Len(c)) : Tail(b \o c)[i] = (Tail(b) \o c)[i]
      BY <3>1, <3>4, <3>5
    <3>7. Tail(b \o c) = Tail(b) \o c BY <3>3, <3>5, <3>6
    <3> QED BY <3>2, <3>7
  <2>2. /\ Buffered(s) \o Coming(s) # <<>> /\ Head(Buffered(s) \o Coming(s)) = Head(Buffered(s))
        /\ Tail(Buffered(s) \o Coming(s)) = Tail(Buffered(s)) \o Coming(s)
    BY <1>7, <1>9, <2>1, Zenon
  <2> QED BY <1>7, <1>10, <2>2, Zenon
<1> HIDE DEF f, q
<1>12. /\ pc'[s] = "delivering" /\ view'[s] = f.value /\ pending'[s] = q
       /\ end'[s] = (IF f.value = Retired THEN "retired" ELSE None)
       /\ \A n \in Subscribers \ {s} : pc'[n] = pc[n] /\ view'[n] = view[n] /\ pending'[n] = pending[n] /\ end'[n] = end[n]
  BY <1>1, <1>2, <1>4
<1>13. ASSUME NEW n \in Subscribers PROVE Coming(n)' = Coming(n) BY <1>1, ComingStays
<1>14. ASSUME NEW n \in Subscribers, n # s PROVE Seen(n)' = Seen(n)
  BY <1>1, <1>12, <1>13, <1>14, SameSeen
<1>15. ASSUME NEW n \in Subscribers, n # s
       PROVE  /\ Statuses'[n] = Statuses[n] /\ BoundTo'[n] = BoundTo[n]
              /\ Shown'[n] = Shown[n] /\ Owed'[n] = Owed[n]
  BY <1>14, <1>15, SeenFacts
<1>16. Buffered(s)' = ValuesOf(q)
  <2>1. \A i \in 1..Len(q) : q[i] \in FreshFrames(rev) BY <1>2, <1>5
  <2>2. Filter(q, FreshFrames(rev)) = q BY <1>2, <2>1, FilterExtremes
  <2>3. Buffered(s)' = ValuesOf(Filter(q, FreshFrames(rev))) BY <1>1, <1>12 DEF Buffered, FreshFrames, Fresh
  <2> QED BY <2>2, <2>3
<1> DEFINE to   == IF f.value = Retired THEN "ended" ELSE "open"
           left == IF f.value = Retired THEN <<>> ELSE Tail(Owed[s])
<1>17. Statuses[s] = "open" /\ Statuses'[s] = to BY <1>1, <1>2, <1>3, <1>12 DEF Statuses, StatusOf, Bound
<1>18. BoundTo'[s] = BoundTo[s] BY <1>1 DEF BoundTo, Bound
<1>19. Shown'[s] = Head(Owed[s]) BY <1>11, <1>12 DEF Shown
<1>20. Owed'[s] = left
  <2>1. Owed'[s] = IF end'[s] = None THEN Buffered(s)' \o Coming(s)' ELSE <<>> BY <1>1, <1>3 DEF Owed, Bound
  <2> QED BY <1>3, <1>11, <1>12, <1>13, <1>16, <2>1
<1> HIDE DEF to, left
<1>21. /\ Statuses' = [Statuses EXCEPT ![s] = to] /\ Shown' = [Shown EXCEPT ![s] = Head(Owed[s])]
       /\ Owed' = [Owed EXCEPT ![s] = left]
  BY <1>15, <1>17, <1>19, <1>20, SeenShapes
<1>22. BoundTo' = BoundTo BY <1>15, <1>18, SeenShapes
<1>23. Truth' = Truth BY <1>1 DEF Truth, lineVars
<1>24. Promise!Retired = Retired BY DEF Promise!Retired, Retired
<1>25. CASE f.value = Retired
  BY <1>11, <1>17, <1>21, <1>22, <1>23, <1>24, <1>25 DEF Promise!Deliver, to, left
<1>26. CASE f.value # Retired
  <2>1. Statuses' = Statuses
    <3>1. Statuses'[s] = Statuses[s] BY <1>17, <1>26 DEF to
    <3> QED BY <1>15, <3>1, SeenShapes
  <2> QED BY <1>11, <1>17, <1>21, <1>22, <1>23, <1>24, <1>26, <2>1 DEF Promise!Deliver, left
<1> QED BY <1>25, <1>26

\* Every step is a step of the promise or none.
LEMMA StepsKeepThePromise ==
  ASSUME ObsInv, ~MigratesWatched, [ObsNext]_vars
  PROVE  Promise!WatchNext \/ UNCHANGED Promise!watchVars
<1>1. CASE UNCHANGED vars BY <1>1, QuietSteps
<1>2. CASE Line
  <2>1. ASSUME NEW d \in Docs, Load(d) \/ Create(d) \/ ChangeValue(d) \/ Migrate(d)
        PROVE  Promise!Commit(d)
    BY <2>1, LoadCommits, CreateCommits, ChangeValueCommits, MigrateCommits
  <2>2. ASSUME NEW d \in Docs, Retire(d) PROVE Promise!Retire(d) BY <2>2, RetireRetires
  <2>3. CASE Commit BY <2>1, <2>2, <2>3 DEF Commit, Promise!WatchNext
  <2>4. CASE Publish BY <2>4, PublishCollapses DEF Promise!WatchNext
  <2>5. CASE Uncertain \/ Seal BY <2>5, QuietSteps
  <2>6. CASE Close BY <2>6, CloseEnds DEF Promise!WatchNext
  <2> QED BY <1>2, <2>3, <2>4, <2>5, <2>6 DEF Line
<1>3. ASSUME NEW s \in Subscribers, Acquire(s) \/ Consume(s) \/ Cancel(s) \/ Stop(s) \/ Drop(s)
      PROVE  Promise!WatchNext \/ UNCHANGED Promise!watchVars
  <2>1. CASE ReadBaseline(s) BY <2>1, ReadOpens DEF Promise!WatchNext
  <2>2. CASE Arm(s) BY <2>2, ArmOpens DEF Promise!WatchNext
  <2>3. CASE Take(s) BY <2>3, TakeDelivers DEF Promise!WatchNext
  <2>4. CASE Delivered(s) \/ Wake(s) \/ Stop(s) \/ Drop(s) BY <2>4, ConsumerEnds DEF Promise!WatchNext
  <2>5. CASE Find(s) \/ Register(s) \/ Enable(s) \/ TakeNothing(s) \/ CheckEnd(s) \/ Cancel(s)
    BY <2>5, QuietSteps
  <2> QED BY <1>3, <2>1, <2>2, <2>3, <2>4, <2>5 DEF Acquire, Consume
<1> QED BY <1>1, <1>2, <1>3 DEF ObsNext

\* Nothing is promised to begin with.
LEMMA InitPromise ==
  ASSUME ObsInit
  PROVE  Promise!WatchInit
<1>1. Truth \in [Docs -> {None}] BY DEF ObsInit, Truth
<1>2. \A s \in Subscribers : taken[s] = None /\ view[s] = None /\ pc[s] # "arm" BY DEF ObsInit
<1>3. Statuses = [s \in Subscribers |-> "out"] BY <1>2 DEF Statuses, StatusOf, Bound
<1>4. BoundTo = [s \in Subscribers |-> None] BY <1>2 DEF BoundTo, Bound
<1>5. Shown = [s \in Subscribers |-> None] BY <1>2 DEF Shown
<1>6. Owed = [s \in Subscribers |-> <<>>] BY <1>2 DEF Owed, Bound
<1> QED BY <1>1, <1>3, <1>4, <1>5, <1>6 DEF Promise!WatchInit

\* slot.rs and session.rs: registering, reading the baseline and arming, each in its own
\* step beside a line that adopts and publishes in two, deliver what acquiring in one
\* instant would, for any documents, subscribers, buffer size and number of commits.
THEOREM SubscriptionsKeepThePromise ==
  ASSUME ~MigratesWatched
  PROVE  Spec => ImplementsWatch
<1>1. ObsInit => Promise!WatchInit BY InitPromise
<1>2. ObsInv /\ [ObsNext]_vars => [Promise!WatchNext]_(Promise!watchVars)
  BY StepsKeepThePromise
<1>3. Spec => []ObsInv BY ObservationInvariant
<1> QED BY <1>1, <1>2, <1>3, PTL DEF Spec, ImplementsWatch, Promise!WatchSpec

-----------------------------------------------------------------------------
(* Convergence, from the promise alone. *)

\* What a live subscription comes to when all it is owed has been delivered is the truth.
ComesToTruth ==
  \A s \in Subscribers :
    IF Promise!Live(s)
    THEN /\ BoundTo[s] \in Docs /\ Owed[s] \in Seq(Nat)
         /\ Owed[s] = <<>> => Truth[BoundTo[s]] # None /\ Shown[s] = Truth[BoundTo[s]]
         /\ Owed[s] # <<>> =>
              Owed[s][Len(Owed[s])] = IF Truth[BoundTo[s]] = None THEN Retired ELSE Truth[BoundTo[s]]
    ELSE Owed[s] = <<>>

\* A value owed as the newest is the truth, to those it is owed to.
LEMMA OwingIsTrue ==
  ASSUME ComesToTruth, NEW d \in Docs, NEW v \in Nat, Promise!Owe(d, v),
         UNCHANGED <<Statuses, BoundTo, Shown>>,
         NEW x, Truth' = [Truth EXCEPT ![d] = x], v = IF x = None THEN Retired ELSE x
  PROVE  ComesToTruth'
<1>1. DOMAIN Truth = Docs BY DEF Truth
<1>2. Owed' = [s \in Subscribers |-> IF Promise!Live(s) /\ BoundTo[s] = d THEN Append(Owed[s], v) ELSE Owed[s]]
  BY DEF Promise!Owe
<1>3. Truth'[d] = x /\ \A e \in Docs \ {d} : Truth'[e] = Truth[e] BY <1>1
<1>4. \A s \in Subscribers : Promise!Live(s)' <=> Promise!Live(s) BY DEF Promise!Live
<1>5. ASSUME NEW s \in Subscribers, Promise!Live(s), BoundTo[s] = d
      PROVE  /\ Owed'[s] \in Seq(Nat) /\ Owed'[s] # <<>> /\ Owed'[s][Len(Owed'[s])] = v
  <2>1. Owed[s] \in Seq(Nat) BY <1>5 DEF ComesToTruth
  <2>2. Owed'[s] = Append(Owed[s], v) BY <1>2, <1>5
  <2> QED BY <2>1, <2>2, SMTT(30)
<1>6. ASSUME NEW s \in Subscribers, ~(Promise!Live(s) /\ BoundTo[s] = d) PROVE Owed'[s] = Owed[s] BY <1>2, <1>6
<1> QED BY <1>3, <1>4, <1>5, <1>6 DEF ComesToTruth

\* The last element stays last in the tail.
LEMMA LastOfTail ==
  ASSUME NEW q \in Seq(Nat), q # <<>>
  PROVE  /\ Tail(q) \in Seq(Nat) /\ Head(q) = q[1]
         /\ Tail(q) = <<>> => Len(q) = 1
         /\ Tail(q) # <<>> => Tail(q)[Len(Tail(q))] = q[Len(q)]
<1>1. Len(q) \in Nat \ {0} /\ Head(q) = q[1] OBVIOUS
<1>2. Tail(q) \in Seq(Nat) /\ Len(Tail(q)) = Len(q) - 1 /\ \A i \in 1..(Len(q) - 1) : Tail(q)[i] = q[i + 1] OBVIOUS
<1>3. Tail(q) = <<>> <=> Len(Tail(q)) = 0
  <2>1. \A t \in Seq(Nat) : t = <<>> <=> Len(t) = 0 OBVIOUS
  <2> QED BY <1>2, <2>1
<1>4. ASSUME Tail(q) # <<>> PROVE Tail(q)[Len(Tail(q))] = q[Len(q)]
  <2>1. Len(q) - 1 \in 1..(Len(q) - 1) /\ Len(q) - 1 + 1 = Len(q) BY <1>1, <1>2, <1>3, <1>4
  <2>2. Tail(q)[Len(q) - 1] = q[Len(q) - 1 + 1] BY <1>2, <2>1
  <2> QED BY <1>2, <2>1, <2>2
<1> QED BY <1>1, <1>2, <1>3, <1>4

\* Every step of the promise leaves the newest value last.
LEMMA PromiseComesToTruth ==
  ASSUME ComesToTruth, Promise!WatchNext \/ UNCHANGED Promise!watchVars
  PROVE  ComesToTruth'
<1>0. /\ DOMAIN Truth = Docs /\ DOMAIN Statuses = Subscribers /\ DOMAIN BoundTo = Subscribers
      /\ DOMAIN Shown = Subscribers /\ DOMAIN Owed = Subscribers
  BY DEF Truth, Statuses, BoundTo, Shown, Owed
<1>1. CASE UNCHANGED Promise!watchVars BY <1>1 DEF Promise!watchVars, ComesToTruth, Promise!Live
<1>2. ASSUME NEW d \in Docs, Promise!Commit(d) PROVE ComesToTruth'
  <2>1. PICK v \in 1..MaxValue : /\ Truth' = [Truth EXCEPT ![d] = v] /\ Promise!Owe(d, v)
                                 /\ UNCHANGED <<Statuses, BoundTo, Shown>>
    BY <1>2 DEF Promise!Commit
  <2>2. v \in Nat /\ v # None BY ObservationAssumption
  <2> QED BY <2>1, <2>2, OwingIsTrue
<1>3. ASSUME NEW d \in Docs, Promise!Retire(d) PROVE ComesToTruth'
  <2>1. /\ Truth' = [Truth EXCEPT ![d] = None] /\ Promise!Owe(d, Retired) /\ UNCHANGED <<Statuses, BoundTo, Shown>>
    BY <1>3 DEF Promise!Retire, Promise!Retired, Retired
  <2>2. Retired \in Nat BY DEF Retired
  <2> QED BY <2>1, <2>2, OwingIsTrue
<1>4. ASSUME NEW s \in Subscribers, Promise!Open(s) PROVE ComesToTruth'
  <2>1. PICK d \in Docs, to \in {"opening", "ended"} :
          /\ Statuses[s] = "out" /\ Truth[d] # None /\ Statuses' = [Statuses EXCEPT ![s] = to]
          /\ BoundTo' = [BoundTo EXCEPT ![s] = d] /\ Shown' = [Shown EXCEPT ![s] = Truth[d]]
          /\ UNCHANGED <<Truth, Owed>>
    BY <1>4 DEF Promise!Open
  <2>2. Owed[s] = <<>> /\ <<>> \in Seq(Nat) BY <2>1 DEF ComesToTruth, Promise!Live
  <2>3. /\ Statuses'[s] = to /\ BoundTo'[s] = d /\ Shown'[s] = Truth[d]
        /\ \A n \in Subscribers \ {s} : /\ Statuses'[n] = Statuses[n] /\ BoundTo'[n] = BoundTo[n]
                                        /\ Shown'[n] = Shown[n]
    BY <1>0, <2>1
  <2> QED BY <2>1, <2>2, <2>3 DEF ComesToTruth, Promise!Live
<1>5. ASSUME NEW s \in Subscribers, Promise!Opened(s) PROVE ComesToTruth'
  <2>1. /\ Statuses[s] = "opening" /\ Statuses' = [Statuses EXCEPT ![s] = "open"]
        /\ UNCHANGED <<Truth, BoundTo, Shown, Owed>>
    BY <1>5 DEF Promise!Opened
  <2>2. \A n \in Subscribers : Promise!Live(n)' <=> Promise!Live(n) BY <1>0, <2>1 DEF Promise!Live
  <2> QED BY <2>1, <2>2 DEF ComesToTruth
<1>6. ASSUME NEW s \in Subscribers, Promise!Deliver(s) PROVE ComesToTruth'
  <2> DEFINE q == Owed[s]
  <2>1. /\ Statuses[s] = "open" /\ q # <<>> /\ Shown' = [Shown EXCEPT ![s] = Head(q)]
        /\ IF Head(q) = Retired
           THEN Statuses' = [Statuses EXCEPT ![s] = "ended"] /\ Owed' = [Owed EXCEPT ![s] = <<>>]
           ELSE Owed' = [Owed EXCEPT ![s] = Tail(q)] /\ UNCHANGED Statuses
        /\ UNCHANGED <<Truth, BoundTo>>
    BY <1>6 DEF Promise!Deliver, Promise!Retired, Retired
  <2>2. Promise!Live(s) BY <2>1 DEF Promise!Live
  <2>3. /\ BoundTo[s] \in Docs /\ q \in Seq(Nat)
        /\ q[Len(q)] = IF Truth[BoundTo[s]] = None THEN Retired ELSE Truth[BoundTo[s]]
    BY <2>1, <2>2 DEF ComesToTruth
  <2> HIDE DEF q
  <2>4. /\ Tail(q) \in Seq(Nat) /\ Head(q) = q[1]
        /\ Tail(q) = <<>> => Len(q) = 1
        /\ Tail(q) # <<>> => Tail(q)[Len(Tail(q))] = q[Len(q)]
    BY <2>1, <2>3, LastOfTail
  <2>5. \A n \in Subscribers \ {s} : Statuses'[n] = Statuses[n] /\ Shown'[n] = Shown[n] /\ Owed'[n] = Owed[n]
    BY <1>0, <2>1
  <2>6. CASE Head(q) = Retired
    <3>1. Statuses'[s] = "ended" /\ Owed'[s] = <<>> BY <1>0, <2>1, <2>6
    <3> QED BY <2>1, <2>5, <3>1 DEF ComesToTruth, Promise!Live
  <2>7. CASE Head(q) # Retired
    <3>1. Statuses'[s] = "open" /\ Owed'[s] = Tail(q) /\ Shown'[s] = Head(q) BY <1>0, <2>1, <2>7
    <3>2. Tail(q) = <<>> => Truth[BoundTo[s]] # None /\ Head(q) = Truth[BoundTo[s]] BY <2>3, <2>4, <2>7
    <3>3. /\ BoundTo'[s] \in Docs /\ Owed'[s] \in Seq(Nat)
          /\ Owed'[s] = <<>> => Truth'[BoundTo'[s]] # None /\ Shown'[s] = Truth'[BoundTo'[s]]
          /\ Owed'[s] # <<>> =>
               Owed'[s][Len(Owed'[s])] = IF Truth'[BoundTo'[s]] = None THEN Retired ELSE Truth'[BoundTo'[s]]
      BY <2>1, <2>3, <2>4, <3>1, <3>2
    <3> QED BY <2>1, <2>2, <2>5, <3>1, <3>3 DEF ComesToTruth, Promise!Live
  <2> QED BY <2>6, <2>7
<1>7. CASE Promise!Collapse
  <2>1. PICK S \in (SUBSET Subscribers) \ {{}} :
          /\ \A s \in S : Promise!Live(s) /\ Owed[s] # <<>>
          /\ Owed' = [s \in Subscribers |-> IF s \in S THEN <<Owed[s][Len(Owed[s])]>> ELSE Owed[s]]
          /\ UNCHANGED <<Truth, Statuses, BoundTo, Shown>>
    BY <1>7 DEF Promise!Collapse
  <2>2. \A n \in Subscribers : Promise!Live(n)' <=> Promise!Live(n) BY <2>1 DEF Promise!Live
  <2>3. ASSUME NEW s \in Subscribers, s \in S
        PROVE  /\ Owed'[s] \in Seq(Nat) /\ Owed'[s] # <<>> /\ Owed'[s][Len(Owed'[s])] = Owed[s][Len(Owed[s])]
    <3>1. Owed[s] \in Seq(Nat) /\ Owed[s] # <<>> BY <2>1, <2>3 DEF ComesToTruth
    <3>2. Owed[s][Len(Owed[s])] \in Nat BY <3>1
    <3>3. Owed'[s] = <<Owed[s][Len(Owed[s])]>> BY <2>1, <2>3
    <3> QED BY <3>2, <3>3
  <2>4. \A s \in Subscribers \ S : Owed'[s] = Owed[s] BY <2>1
  <2> QED BY <2>1, <2>2, <2>3, <2>4 DEF ComesToTruth
<1>8. CASE Promise!End
  <2>1. PICK S \in (SUBSET Subscribers) \ {{}} :
          /\ Statuses' = [s \in Subscribers |-> IF s \in S THEN "ended" ELSE Statuses[s]]
          /\ Owed' = [s \in Subscribers |-> IF s \in S THEN <<>> ELSE Owed[s]]
          /\ UNCHANGED <<Truth, BoundTo, Shown>>
    BY <1>8 DEF Promise!End
  <2> QED BY <2>1 DEF ComesToTruth, Promise!Live
<1> QED BY <1>1, <1>2, <1>3, <1>4, <1>5, <1>6, <1>7, <1>8 DEF Promise!WatchNext

\* Nothing is left to deliver, nothing is coming: the consumer shows the committed value.
LEMMA TruthConverges ==
  ASSUME ObsInv, ComesToTruth
  PROVE  WatchesConverge
<1> SUFFICES ASSUME NEW s \in Subscribers, Listening(s), pending[s] = <<>>, line # "publish"
             PROVE  tracker[doc[s]] # None /\ view[s] = value[doc[s]]
  BY DEF WatchesConverge
<1>1. pc[s] \in Consuming /\ end[s] = None /\ taken[s] # None BY DEF Listening, ObsInv, SlotInv
<1>2. doc[s] \in Docs BY <1>1, LiveFacts
<1>3. Statuses[s] = "open" /\ BoundTo[s] = doc[s] /\ Shown[s] = view[s]
  BY <1>1 DEF Statuses, StatusOf, Bound, BoundTo, Shown, Consuming
<1>4. Owed[s] = <<>>
  <2>1. Coming(s) = <<>> BY DEF Coming
  <2>2. Buffered(s) = ValuesOf(<<>>) BY FilterEmpty DEF Buffered
  <2>3. <<>> \in Seq(Frames) OBVIOUS
  <2>4. ValuesOf(<<>>) = <<>> BY <2>3, ValuesFacts
  <2> QED BY <1>1, <2>1, <2>2, <2>4 DEF Owed, Bound
<1>5. Truth[doc[s]] # None /\ view[s] = Truth[doc[s]] BY <1>3, <1>4 DEF ComesToTruth, Promise!Live
<1> QED BY <1>2, <1>5 DEF Truth

\* The table of slot.rs: a subscription with nothing left to deliver shows the committed
\* value of its document, which is still there, unless the document has been migrated
\* under it (the run observation_migration shows that it need not, then).
THEOREM SubscriptionsConverge ==
  ASSUME ~MigratesWatched
  PROVE  Spec => []WatchesConverge
<1>1. ObsInit => ComesToTruth
  <2>1. ASSUME ObsInit, NEW s \in Subscribers PROVE Statuses[s] = "out" /\ Owed[s] = <<>>
    BY <2>1 DEF ObsInit, Statuses, StatusOf, Bound, Owed
  <2> QED BY <2>1 DEF ComesToTruth, Promise!Live
<1>2. ObsInv /\ ComesToTruth /\ [ObsNext]_vars => ComesToTruth'
  BY StepsKeepThePromise, PromiseComesToTruth
<1>3. Spec => []ObsInv BY ObservationInvariant
<1>4. ObsInv /\ ComesToTruth => WatchesConverge BY TruthConverges
<1> QED BY <1>1, <1>2, <1>3, <1>4, PTL DEF Spec

=============================================================================
