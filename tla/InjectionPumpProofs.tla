------------------------- MODULE InjectionPumpProofs -------------------------
(***************************************************************************)
(* Proofs about InjectionPump, for any turns, steers, notices and prompts: *)
(* an injected message is in one place, and an acknowledgement is a fact.  *)
(* Both are about where copies of a message are, so the invariant counts   *)
(* them twice over: Held(m), what the pump's books say it has to see to,   *)
(* and Copies(m), where the message itself is.  The books are what makes   *)
(* the second inductive: a message that is acknowledged was in them, and   *)
(* is out of them afterwards.                                              *)
(***************************************************************************)
EXTENDS InjectionPump, SeqFilterProofs

-----------------------------------------------------------------------------
(* The invariant, part by part. *)

\* Where a driver can be, where the pump can be, and what its channel carries.
Stages == {"off", "queueing", "preparing", "spawned", "running", "retrying", "continuing",
           "settling", "emitting", "draining", "dropping", "done"}
Places == {"receive", "steer", "pushSteers", "join", "takeBack", "pushTurns", "look", "busy",
           "edge", "settle", "append", "edit", "persist", "appended", "offer", "start", "accepted"}
Items == [kind : {"request"}, message : Requests] \cup [kind : {"steered"}, message : Steers]

\* The types of the variables.
AgentType ==
  /\ running \in Drivers \cup {NoOne} /\ polls \in BOOLEAN
  /\ hand \in Seq(Messages) /\ steering \in Seq(Messages) /\ transcript \in Seq(Messages)
  /\ lost \subseteq Messages

SessionType ==
  /\ driverUp \in BOOLEAN /\ released \in BOOLEAN /\ draining \in BOOLEAN
  /\ drive \in [Drivers -> Stages] /\ retries \in Nat

PumpType ==
  /\ sent \in [Requests -> {"no", "never", "steering", "steered", "yes"}]
  /\ channel \in Seq(Items)
  /\ at \in Places
  /\ inbox \in Seq(Requests) /\ steered \subseteq Steers
  /\ queued \in Seq(Turns) /\ turn \in Seq(Turns) /\ taken \in Seq(Steers)
  /\ answer \in [Requests -> {"none", "accepted", "unavailable"}]

TypeOK == AgentType /\ SessionType /\ PumpType

\* A run takes from its queue while it polls.
HandFits ==
  /\ running = NoOne => ~polls
  /\ ~polls => hand = <<>>

\* What is empty at the pump's points, and where no turn is in the inbox.
PumpFits ==
  /\ at \in {"append", "edit", "persist", "appended", "offer", "start", "accepted"} => queued = <<>>
  /\ taken # <<>> => at \in {"edit", "persist", "appended"}
  /\ at = "start" => turn # <<>>
  /\ at \in {"append", "edit", "persist"} => ToSet(inbox) \cap Turns = {}

\* In how many places of the pump's books a message is: what has arrived, what is to be scheduled,
\* what it must hear about again, what it is about to run.
Held(m) ==
  Count(m, Arrived("request")) + Count(m, Arrived("steered")) + Count(m, inbox)
  + (IF m \in steered THEN 1 ELSE 0) + Count(m, queued) + Count(m, turn)

\* Once only, and only while the message has been sent and awaits an answer.
HeldOnce(m) ==
  /\ Held(m) <= 1
  /\ Held(m) # 0 => sent[m] = "yes" /\ answer[m] = "none"
  /\ sent[m] # "yes" => answer[m] = "none"

\* A message and its copies, while it is not yet, still, or no longer the producer's business.
Accounted(m) ==
  /\ Copies(m) <= 1
  /\ Copies(m) # 0 => sent[m] \in {"steered", "yes"}
  /\ sent[m] \in {"steered", "yes"} /\ answer[m] # "unavailable" => Copies(m) = 1

\* A run, or the transcript, has the message, or had it when it failed.
Delivered(m) == Count(m, hand) # 0 \/ Count(m, transcript) # 0 \/ m \in lost

\* What the pump is about to acknowledge: the steers it took back and those it did not find are
\* no longer queued, nor in a run's hand, what it appends is in the transcript, what it ran has been delivered.
Placed(m) ==
  /\ Count(m, taken) # 0 => m \in steered
  /\ at \in {"edit", "persist", "appended"} /\ m \in steered => Count(m, steering) = 0
  /\ at \in {"edit", "persist"} /\ m \in steered => Count(m, hand) = 0
  /\ at \in {"persist", "appended"} /\ (Count(m, inbox) # 0 \/ Count(m, taken) # 0) => Count(m, transcript) # 0
  /\ at = "accepted" /\ Count(m, turn) # 0 => Delivered(m)

\* What has been said of a message.
Truthful(m) ==
  /\ answer[m] = "accepted" => Delivered(m)
  /\ answer[m] = "unavailable" => Count(m, hand) = 0 /\ Count(m, steering) = 0
  /\ answer[m] = "unavailable" /\ m \in Turns => Count(m, transcript) = 0 /\ m \notin lost

Sound(m) == Accounted(m) /\ Placed(m) /\ Truthful(m)

\* The driver of a turn is started by the pump, with the run.
OnlyPromptsQueue == \A d \in Turns : drive[d] \notin {"queueing", "preparing", "spawned"}

-----------------------------------------------------------------------------
(* What has arrived on the pump's channel. *)

\* Requests arrive as requests, and only steers are announced as steered.
LEMMA ArrivedType ==
  ASSUME channel \in Seq(Items)
  PROVE  /\ Arrived("request") \in Seq(Requests)
         /\ Arrived("steered") \in Seq(Steers)
<1> DEFINE Is(kind) == [kind : {kind}, message : Requests]
           these(kind) == Filter(channel, Is(kind))
<1>1. these("request") \in Seq(Items \cap Is("request")) /\ these("steered") \in Seq(Items \cap Is("steered"))
  <2> HIDE DEF Is
  <2> QED BY FilterType
<1>2. \A item \in Items \cap Is("request") : item.message \in Requests OBVIOUS
<1>3. \A item \in Items \cap Is("steered") : item.message \in Steers
  BY DEF Items
<1> DEFINE a == these("request")
           b == these("steered")
           A == Items \cap Is("request")
           B == Items \cap Is("steered")
<1>4. a \in Seq(A) /\ b \in Seq(B) BY <1>1
<1> HIDE DEF these, Is, A, B
<1>5. [i \in DOMAIN a |-> a[i].message] \in Seq(Requests)
  <2> HIDE DEF a
  <2>1. DOMAIN a = 1..Len(a) /\ Len(a) \in Nat /\ \A i \in 1..Len(a) : a[i] \in A BY <1>4
  <2>2. \A i \in DOMAIN a : a[i].message \in Requests BY <1>2, <2>1 DEF A
  <2> QED BY <2>1, <2>2, IsASeq
<1>6. [i \in DOMAIN b |-> b[i].message] \in Seq(Steers)
  <2> HIDE DEF b
  <2>1. DOMAIN b = 1..Len(b) /\ Len(b) \in Nat /\ \A i \in 1..Len(b) : b[i] \in B BY <1>4
  <2>2. \A i \in DOMAIN b : b[i].message \in Steers BY <1>3, <2>1 DEF B
  <2> QED BY <2>1, <2>2, IsASeq
<1> QED BY <1>5, <1>6 DEF Arrived, these, Is

\* No items carry no messages.
LEMMA NoneArrived ==
  ASSUME NEW a, a = <<>>
  PROVE  [i \in DOMAIN a |-> a[i].message] = <<>>
<1> DEFINE f == [i \in DOMAIN a |-> a[i].message]
<1>1. DOMAIN a = 1..0 OBVIOUS
<1>2. f = [i \in 1..0 |-> a[i].message] BY <1>1
<1>3. f \in Seq({}) /\ Len(f) = 0 BY <1>2
<1> HIDE DEF f
<1>4. f = <<>> BY <1>3
<1> QED BY <1>4 DEF f

\* On an empty channel nothing has arrived.
LEMMA ArrivedNothing ==
  ASSUME channel = <<>>
  PROVE  Arrived("request") = <<>> /\ Arrived("steered") = <<>>
<1>1. Filter(channel, [kind : {"request"}, message : Requests]) = <<>>
  BY FilterEmpty
<1>2. Filter(channel, [kind : {"steered"}, message : Requests]) = <<>>
  BY FilterEmpty
<1> QED BY <1>1, <1>2, NoneArrived DEF Arrived

\* An item put on the channel is one more arrival of its kind, and none of the other.
LEMMA ArrivedMore ==
  ASSUME channel \in Seq(Items), NEW m \in Requests, NEW kind \in {"request", "steered"},
         kind = "steered" => m \in Steers,
         channel' = Append(channel, [kind |-> kind, message |-> m])
  PROVE  /\ Arrived(kind)' = Append(Arrived(kind), m)
         /\ \A other \in {"request", "steered"} \ {kind} : Arrived(other)' = Arrived(other)
<1> DEFINE Is(k) == [kind : {k}, message : Requests]
           item == [kind |-> kind, message |-> m]
           a == Filter(channel, Is(kind))
<1>1. item \in Items BY DEF Items
<1>2. item \in Is(kind) OBVIOUS
<1>3. \A other \in {"request", "steered"} \ {kind} : item \notin Is(other) OBVIOUS
<1>4. item.message = m OBVIOUS
<1>5. channel' = Append(channel, item) OBVIOUS
<1> HIDE DEF item
<1>6. Filter(channel', Is(kind)) = Append(a, item)
  <2> HIDE DEF Is
  <2> QED BY <1>1, <1>2, <1>5, FilterAppend
<1>7. \A other \in {"request", "steered"} \ {kind} : Filter(channel', Is(other)) = Filter(channel, Is(other))
  <2> TAKE other \in {"request", "steered"} \ {kind}
  <2>1. item \notin Is(other) BY <1>3
  <2> HIDE DEF Is
  <2> QED BY <1>1, <2>1, <1>5, FilterAppend
<1>8. a \in Seq(Items)
  <2> HIDE DEF Is
  <2> QED BY FilterType
<1> HIDE DEF a, Is
<1>9. [i \in DOMAIN Append(a, item) |-> Append(a, item)[i].message] = Append([i \in DOMAIN a |-> a[i].message], m)
  <2> DEFINE b == Append(a, item)
             c == [i \in DOMAIN a |-> a[i].message]
  <2>1. DOMAIN a = 1..Len(a) /\ Len(a) \in Nat BY <1>8
  <2>2. DOMAIN b = 1..(Len(a) + 1) /\ b[Len(a) + 1] = item /\ \A i \in 1..Len(a) : b[i] = a[i] BY <1>8, <1>1
  <2>3. Len(c) = Len(a) /\ c \in Seq({a[i].message : i \in DOMAIN a}) BY <2>1
  <2>4. Append(c, m) = [i \in 1..(Len(a) + 1) |-> IF i = Len(a) + 1 THEN m ELSE c[i]] BY <2>1, <2>3
  <2> HIDE DEF b
  <2>5. [i \in DOMAIN b |-> b[i].message] = [i \in 1..(Len(a) + 1) |-> IF i = Len(a) + 1 THEN m ELSE c[i]]
    BY <1>4, <2>1, <2>2
  <2> QED BY <2>4, <2>5 DEF b
<1> QED BY <1>6, <1>7, <1>9 DEF Arrived, a, Is

\* Both parts of a sequence of messages are sequences of the same messages.
LEMMA OnlyType ==
  ASSUME NEW M, NEW s \in Seq(M), NEW S, M \subseteq Messages
  PROVE  /\ Only(s, S) \in Seq(M) /\ Only(s, S) \in Seq(M \cap S)
         /\ Without(s, S) \in Seq(M)
BY FilterType DEF Only, Without

\* The parts of the inbox that the pump pushes or gathers, and what it leaves.
LEMMA InboxParts ==
  ASSUME inbox \in Seq(Requests)
  PROVE  /\ Only(inbox, Turns) \in Seq(Turns) /\ Without(inbox, Turns) \in Seq(Requests)
         /\ Only(inbox, Steers) \in Seq(Messages) /\ Without(inbox, Steers) \in Seq(Requests)
<1>1. Requests \subseteq Messages BY DEF Messages
<1>2. Only(inbox, Turns) \in Seq(Requests \cap Turns) /\ Without(inbox, Turns) \in Seq(Requests)
  BY <1>1, OnlyType
<1>3. Requests \cap Turns = Turns BY DEF Requests
<1>4. Only(inbox, Steers) \in Seq(Requests) /\ Without(inbox, Steers) \in Seq(Requests)
  BY <1>1, OnlyType
<1>5. Only(inbox, Steers) \in Seq(Messages) BY <1>1, <1>4, SeqMonotonic
<1> QED BY <1>2, <1>3, <1>4, <1>5

-----------------------------------------------------------------------------
(* Types, and what is empty where. *)

\* The program starts well-typed, with nothing in hand and nothing of the pump's queued.
LEMMA InitTypes == PumpInit => TypeOK /\ HandFits /\ PumpFits /\ OnlyPromptsQueue
<1> SUFFICES ASSUME PumpInit PROVE TypeOK /\ HandFits /\ PumpFits /\ OnlyPromptsQueue OBVIOUS
<1> USE DEF PumpInit
<1>1. AgentType
  <2>1. <<>> \in Seq(Messages) OBVIOUS
  <2> QED BY <2>1 DEF AgentType
<1>2. SessionType
  <2>1. PICK load \in Loads : /\ drive = [d \in Drivers |-> IF d \in Prompts \ load.messages THEN "done" ELSE "off"]
                             /\ retries = load.retries
    OBVIOUS
  <2>2. retries \in Nat BY <2>1, PumpAssumption
  <2>3. drive \in [Drivers -> Stages] BY <2>1 DEF Stages
  <2> QED BY <2>2, <2>3 DEF SessionType
<1>3. PumpType
  <2>1. sent \in [Requests -> {"no", "never", "steering", "steered", "yes"}] OBVIOUS
  <2>2. answer \in [Requests -> {"none", "accepted", "unavailable"}] OBVIOUS
  <2>3. <<>> \in Seq(Items) /\ <<>> \in Seq(Requests) /\ <<>> \in Seq(Turns) /\ <<>> \in Seq(Steers) OBVIOUS
  <2> QED BY <2>1, <2>2, <2>3 DEF PumpType, Places
<1>4. HandFits /\ PumpFits BY DEF HandFits, PumpFits
<1>5. OnlyPromptsQueue BY DEF OnlyPromptsQueue, Drivers
<1> QED BY <1>1, <1>2, <1>3, <1>4, <1>5 DEF TypeOK

\* Every step of a producer, the agent, a driver or the pump keeps the types.
LEMMA StepTypes ==
  ASSUME TypeOK, HandFits, PumpFits, OnlyPromptsQueue, PumpNext
  PROVE  TypeOK'
<1> USE DEF TypeOK, AgentType, SessionType, PumpType, agentVars, sessionVars, pumpVars, Messages, Requests, Drivers
<1>0. <<>> \in Seq(Steers) /\ <<>> \in Seq(Turns) /\ <<>> \in Seq(Messages) /\ \A m \in Messages : <<m>> \in Seq(Messages) OBVIOUS
<1>1. ASSUME NEW m \in Requests, Inject(m) PROVE TypeOK'
  <2>1. [kind |-> "request", message |-> m] \in Items BY DEF Items
  <2>2. channel' \in Seq(Items) BY <2>1, <1>1 DEF Inject
  <2>3. sent' \in [Requests -> {"no", "never", "steering", "steered", "yes"}] BY <1>1 DEF Inject
  <2> QED BY <1>1, <2>2, <2>3 DEF Inject
<1>2. ASSUME NEW m \in Steers, SeeRun(m) PROVE TypeOK'
  <2>1. sent' \in [Requests -> {"no", "never", "steering", "steered", "yes"}] BY <1>2 DEF SeeRun
  <2> QED BY <1>2, <2>1 DEF SeeRun
<1>3. ASSUME NEW m \in Steers, SteerNow(m) PROVE TypeOK'
  <2>1. sent' \in [Requests -> {"no", "never", "steering", "steered", "yes"}] BY <1>3 DEF SteerNow
  <2>2. steering' \in Seq(Messages) BY <1>3 DEF SteerNow
  <2> QED BY <1>3, <2>1, <2>2 DEF SteerNow
<1>4. ASSUME NEW m \in Steers, TellPump(m) PROVE TypeOK'
  <2>1. [kind |-> "steered", message |-> m] \in Items BY DEF Items
  <2>2. channel' \in Seq(Items) BY <2>1, <1>4 DEF TellPump
  <2>3. sent' \in [Requests -> {"no", "never", "steering", "steered", "yes"}] BY <1>4 DEF TellPump
  <2> QED BY <1>4, <2>2, <2>3 DEF TellPump
<1>5. CASE ClearQueue
  <2>1. ToSet(steering) \subseteq Messages BY ToSetFacts
  <2> QED BY <1>5, <2>1 DEF ClearQueue
<1>6. CASE PollSteering
  <2>1. Head(steering) \in Messages /\ Tail(steering) \in Seq(Messages) BY <1>6 DEF PollSteering
  <2> QED BY <1>6, <2>1 DEF PollSteering
<1>7. CASE EndMessage
  <2>1. Head(hand) \in Messages /\ Tail(hand) \in Seq(Messages) BY <1>7 DEF EndMessage
  <2> QED BY <1>7, <2>1 DEF EndMessage
<1>8. CASE StopPolling
  <2>1. ToSet(hand) \subseteq Messages BY ToSetFacts
  <2> QED BY <1>0, <1>8, <2>1 DEF StopPolling
<1>9. CASE EndRun BY <1>9 DEF EndRun
<1>10. ASSUME NEW p \in Prompts, Submit(p) PROVE TypeOK'
  BY <1>10 DEF Submit, Stages
<1>11. ASSUME NEW d \in Drivers, Drive(d) PROVE TypeOK'
  <2>1. CASE QueuePrompt(d) BY <2>1 DEF QueuePrompt, Stages
  <2>2. CASE SpawnRun(d) BY <2>2 DEF SpawnRun, ClaimRunLatch, Stages
  <2>3. CASE DriveRun(d)
    <3>1. hand' \in Seq(Messages) BY <1>0, <2>3, ZenonT(30) DEF DriveRun, StartRun
    <3> QED BY <2>3, <3>1 DEF DriveRun, StartRun, Stages
  <2>4. CASE PostRun(d)
    <3>1. retries' \in Nat BY <2>4 DEF PostRun
    <3> QED BY <2>4, <3>1 DEF PostRun, Stages
  <2>5. CASE ContinueRun(d)
    <3>1. steering # <<>> => Head(steering) \in Messages /\ Tail(steering) \in Seq(Messages) OBVIOUS
    <3>2. hand' \in Seq(Messages) BY <1>0, <2>5, <3>1 DEF ContinueRun, StartRun
    <3>3. running' \in Drivers \cup {NoOne} /\ polls' \in BOOLEAN /\ steering' \in Seq(Messages)
      BY <2>5, <3>1 DEF ContinueRun, StartRun
    <3> QED BY <2>5, <3>2, <3>3 DEF ContinueRun, Stages
  <2>6. CASE Release(d) BY <2>6 DEF Release, Stages
  <2>7. CASE BeginDrain(d) BY <2>7 DEF BeginDrain, Stages
  <2>8. CASE EndDrain(d) BY <2>8 DEF EndDrain, Stages
  <2>9. CASE DropLatch(d) BY <2>9 DEF DropLatch, Stages
  <2> QED BY <1>11, <2>1, <2>2, <2>3, <2>4, <2>5, <2>6, <2>7, <2>8, <2>9 DEF Drive
<1>12. CASE Pump
  <2>0. ASSUME DrainReady PROVE channel' \in Seq(Items) /\ inbox' \in Seq(Requests) /\ steered' \subseteq Steers
    <3>1. Arrived("request") \in Seq(Requests) /\ Arrived("steered") \in Seq(Steers) BY ArrivedType
    <3>2. ToSet(Arrived("steered")) \subseteq Steers BY <3>1, ToSetFacts
    <3>3. inbox \o Arrived("request") \in Seq(Requests) BY <3>1
    <3> QED BY <2>0, <3>2, <3>3 DEF DrainReady
  <2>1. CASE Receive BY <2>0, <2>1 DEF Receive, Places
  <2>2. CASE CheckSteers BY <2>2 DEF CheckSteers, Places
  <2>3. CASE PushSteers
    <3>1. Only(inbox, Steers) \in Seq(Messages) /\ Without(inbox, Steers) \in Seq(Requests)
      BY InboxParts
    <3>2. steering \o Only(inbox, Steers) \in Seq(Messages) BY <3>1
    <3> QED BY <2>3, <3>1, <3>2 DEF PushSteers, Places
  <2>4. CASE CheckTurns BY <2>4 DEF CheckTurns, Places
  <2>5. CASE SettleQueued
    <3>1. queued # <<>> /\ Head(queued) \in Turns /\ Tail(queued) \in Seq(Turns) BY <2>5 DEF SettleQueued
    <3>2. Without(steering, {Head(queued)}) \in Seq(Messages) BY OnlyType
    <3>3. Append(turn, Head(queued)) \in Seq(Turns) BY <3>1
    <3>4. answer' \in [Requests -> {"none", "accepted", "unavailable"}] BY <2>5 DEF SettleQueued
    <3> QED BY <2>5, <3>1, <3>2, <3>3, <3>4 DEF SettleQueued
  <2>6. ASSUME NEW next \in Places, GatherTurns(next) PROVE TypeOK'
    <3>1. Only(inbox, Turns) \in Seq(Turns) /\ Without(inbox, Turns) \in Seq(Requests)
      BY InboxParts
    <3>3. turn \o Only(inbox, Turns) \in Seq(Turns) BY <3>1
    <3> QED BY <2>6, <3>1, <3>3 DEF GatherTurns
  <2>7. CASE Requeue BY <2>6, <2>7 DEF Requeue, Places
  <2>8. CASE PushTurn
    <3>1. turn # <<>> /\ Head(turn) \in Turns /\ Tail(turn) \in Seq(Turns) BY <2>8 DEF PushTurn
    <3>2. Append(steering, Head(turn)) \in Seq(Messages) /\ Append(queued, Head(turn)) \in Seq(Turns) BY <3>1
    <3>3. at' \in Places BY <2>8 DEF PushTurn, Places
    <3> QED BY <2>8, <3>1, <3>2, <3>3 DEF PushTurn
  <2>9. CASE LookIdle BY <2>9 DEF LookIdle, Places
  <2>10. CASE WakeIdle BY <2>10 DEF WakeIdle, Places
  <2>11. CASE WakeItem BY <2>0, <2>11 DEF WakeItem, Places
  <2>12. CASE DrainAgain BY <2>0, <2>12 DEF DrainAgain, Places
  <2>13. CASE SplitInbox BY <2>6, <2>13 DEF SplitInbox, Places
  <2>14. inbox \o turn \in Seq(Requests)
    <3>1. turn \in Seq(Requests) OBVIOUS
    <3> QED BY <3>1
  <2>15. ASSUME KeepAll PROVE inbox' \in Seq(Requests) /\ turn' \in Seq(Turns) /\ at' \in Places
    BY <2>14, <2>15 DEF KeepAll, Places
  <2>16. CASE TakeStranded
    <3>1. Only(steering, steered) \in Seq(Steers) /\ Without(steering, steered) \in Seq(Messages)
      <4>1. Only(steering, steered) \in Seq(Messages \cap steered) /\ Without(steering, steered) \in Seq(Messages)
        BY OnlyType
      <4>2. Messages \cap steered \subseteq Steers OBVIOUS
      <4> QED BY <4>1, <4>2, SeqMonotonic
    <3>2. at' \in Places BY <2>15, <2>16 DEF TakeStranded, Places
    <3>3. inbox' \in Seq(Requests) /\ turn' \in Seq(Turns) BY <2>15, <2>16 DEF TakeStranded
    <3>4. taken' \in Seq(Steers) /\ steering' \in Seq(Messages) BY <2>16, <3>1 DEF TakeStranded
    <3> QED BY <2>16, <3>2, <3>3, <3>4 DEF TakeStranded
  <2>17. CASE EditTranscript
    <3>1. taken \in Seq(Messages) /\ inbox \in Seq(Messages) OBVIOUS
    <3>2. taken \o steering \in Seq(Messages) /\ transcript \o taken \o inbox \in Seq(Messages) BY <3>1
    <3>3. inbox' \in Seq(Requests) /\ turn' \in Seq(Turns) /\ at' \in Places
      BY <2>15, <2>17 DEF EditTranscript, Places
    <3>4. taken' \in Seq(Steers) /\ steering' \in Seq(Messages) /\ transcript' \in Seq(Messages)
      BY <1>0, <2>17, <3>2 DEF EditTranscript
    <3> QED BY <2>17, <3>3, <3>4 DEF EditTranscript
  <2>18. CASE Persist BY <2>18 DEF Persist, Places
  <2>19. ASSUME NEW S, NEW outcome \in {"accepted", "unavailable"}, Answer(S, outcome)
         PROVE answer' \in [Requests -> {"none", "accepted", "unavailable"}]
    BY <2>19 DEF Answer
  <2>20. CASE PersistFault
    <3>1. transcript' \in Seq(Messages)
      <4>1. PICK k \in 1..Len(taken \o inbox) :
              \/ /\ Len(transcript) >= Len(taken \o inbox)
                 /\ transcript' = SubSeq(transcript, 1, Len(transcript) - Len(taken \o inbox) + k - 1)
              \/ UNCHANGED transcript
        BY <2>20 DEF PersistFault
      <4>2. Len(transcript) \in Nat /\ Len(taken \o inbox) \in Nat /\ k \in Nat
        <5>1. taken \in Seq(Messages) /\ inbox \in Seq(Messages) OBVIOUS
        <5> QED BY <5>1
      <4> DEFINE e == Len(transcript) - Len(taken \o inbox) + k - 1
      <4>3. Len(transcript) >= Len(taken \o inbox) => e \in 0..Len(transcript) BY <4>2
      <4>4. e \in 0..Len(transcript) => SubSeq(transcript, 1, e) \in Seq(Messages)
        <5> HIDE DEF e
        <5> QED BY CountCut
      <4> HIDE DEF e
      <4>5. Len(transcript) >= Len(taken \o inbox) => SubSeq(transcript, 1, e) \in Seq(Messages)
        BY <4>3, <4>4
      <4> QED BY <4>1, <4>5 DEF e
    <3>2. answer' \in [Requests -> {"none", "accepted", "unavailable"}]
      BY <2>19, <2>20 DEF PersistFault
    <3> QED BY <2>20, <3>1, <3>2, SMTT(30) DEF PersistFault, Places
  <2>21. CASE Appended
    <3>1. answer' \in [Requests -> {"none", "accepted", "unavailable"}] BY <2>19, <2>21 DEF Appended
    <3> QED BY <2>21, <3>1 DEF Appended, Places
  <2>22. CASE OfferTurn BY <2>22 DEF OfferTurn, ClaimRunLatch, Places
  <2>23. CASE StartTurn
    <3>1. turn # <<>> /\ Head(turn) \in Turns /\ turn \in Seq(Messages) BY <2>23 DEF StartTurn, PumpFits
    <3>2. answer' \in [Requests -> {"none", "accepted", "unavailable"}] BY <2>19, <2>23 DEF StartTurn
    <3>3. inbox' \in Seq(Requests) /\ turn' \in Seq(Turns) /\ at' \in Places
      BY <1>0, <2>15, <2>23 DEF StartTurn, Places
    <3>4. running' \in Drivers \cup {NoOne} /\ polls' \in BOOLEAN /\ hand' \in Seq(Messages)
      BY <2>23, <3>1 DEF StartTurn, StartRun
    <3>5. drive' \in [Drivers -> Stages] /\ driverUp' \in BOOLEAN
      BY <2>23, <3>1 DEF StartTurn, Stages
    <3> QED BY <2>23, <3>2, <3>3, <3>4, <3>5 DEF StartTurn
  <2>24. CASE Accepted
    <3>1. answer' \in [Requests -> {"none", "accepted", "unavailable"}] BY <2>19, <2>24 DEF Accepted
    <3> QED BY <2>24, <3>1 DEF Accepted, Places
  <2> QED BY <1>12, <2>1, <2>2, <2>3, <2>4, <2>5, <2>7, <2>8, <2>9, <2>10, <2>11, <2>12, <2>13, <2>16,
             <2>17, <2>18, <2>20, <2>21, <2>22, <2>23, <2>24 DEF Pump
<1> QED BY <1>1, <1>2, <1>3, <1>4, <1>5, <1>6, <1>7, <1>8, <1>9, <1>10, <1>11, <1>12 DEF PumpNext, Produce, Run

\* A run that no longer polls has nothing in hand, the pump appends with none of its turns queued and
\* runs with a turn to run, and the driver of a turn starts running.
LEMMA StepFits ==
  ASSUME TypeOK, HandFits, PumpFits, OnlyPromptsQueue, PumpNext
  PROVE  HandFits' /\ PumpFits' /\ OnlyPromptsQueue'
<1> USE DEF HandFits, PumpFits, OnlyPromptsQueue, agentVars, sessionVars, pumpVars
<1>0. TypeOK /\ NoOne \notin Drivers /\ Turns \cap Prompts = {} /\ Turns \subseteq Drivers
  BY PumpAssumption DEF Drivers, Messages, Requests
<1>1. ASSUME NEW m \in Requests, Inject(m) PROVE HandFits' /\ PumpFits' /\ OnlyPromptsQueue'
  BY <1>1 DEF Inject
<1>2. ASSUME NEW m \in Steers, SeeRun(m) \/ SteerNow(m) \/ TellPump(m)
      PROVE HandFits' /\ PumpFits' /\ OnlyPromptsQueue'
  BY <1>2 DEF SeeRun, SteerNow, TellPump
<1>3. CASE ClearQueue BY <1>3 DEF ClearQueue
<1>4. CASE PollSteering BY <1>4 DEF PollSteering
<1>5. CASE EndMessage BY <1>5 DEF EndMessage
<1>6. CASE StopPolling BY <1>6 DEF StopPolling
<1>7. CASE EndRun BY <1>7 DEF EndRun
<1>8. ASSUME NEW p \in Prompts, Submit(p) PROVE HandFits' /\ PumpFits' /\ OnlyPromptsQueue'
  BY <1>0, <1>8 DEF Submit
<1>9. ASSUME NEW d \in Drivers, Drive(d) PROVE HandFits' /\ PumpFits' /\ OnlyPromptsQueue'
  <2>0. drive \in [Drivers -> Stages] BY DEF TypeOK, SessionType
  <2>1. CASE QueuePrompt(d) BY <2>0, <1>0, <2>1 DEF QueuePrompt
  <2>2. CASE SpawnRun(d) BY <2>0, <1>0, <2>2 DEF SpawnRun, ClaimRunLatch
  <2>3. CASE DriveRun(d)
    <3>1. d \notin Turns BY <2>3 DEF DriveRun
    <3>2. OnlyPromptsQueue' BY <2>0, <1>0, <2>3, <3>1 DEF DriveRun
    <3>3. HandFits' BY <1>0, <2>3 DEF DriveRun, StartRun
    <3> QED BY <2>3, <3>2, <3>3 DEF DriveRun
  <2>4. CASE PostRun(d) BY <2>0, <1>0, <2>4 DEF PostRun
  <2>5. CASE ContinueRun(d)
    <3>1. OnlyPromptsQueue' BY <2>0, <1>0, <2>5 DEF ContinueRun
    <3>2. HandFits' BY <1>0, <2>5 DEF ContinueRun, StartRun
    <3> QED BY <2>5, <3>1, <3>2 DEF ContinueRun
  <2>6. CASE Release(d) BY <2>0, <1>0, <2>6 DEF Release
  <2>7. CASE BeginDrain(d) BY <2>0, <1>0, <2>7 DEF BeginDrain
  <2>8. CASE EndDrain(d) BY <2>0, <1>0, <2>8 DEF EndDrain
  <2>9. CASE DropLatch(d) BY <2>0, <1>0, <2>9 DEF DropLatch
  <2> QED BY <1>9, <2>1, <2>2, <2>3, <2>4, <2>5, <2>6, <2>7, <2>8, <2>9 DEF Drive
<1>10. CASE Pump
  <2>1. CASE Receive BY <2>1 DEF Receive, DrainReady
  <2>2. CASE CheckSteers BY <2>2 DEF CheckSteers
  <2>3. CASE PushSteers BY <2>3 DEF PushSteers
  <2>4. CASE CheckTurns BY <2>4 DEF CheckTurns
  <2>5. CASE SettleQueued BY <2>5 DEF SettleQueued
  <2>6. CASE Requeue BY <2>6 DEF Requeue, GatherTurns
  <2>7. CASE PushTurn BY <2>7 DEF PushTurn
  <2>8. CASE LookIdle BY <2>8 DEF LookIdle
  <2>9. CASE WakeIdle BY <2>9 DEF WakeIdle
  <2>10. CASE WakeItem BY <2>10 DEF WakeItem, DrainReady
  <2>11. CASE DrainAgain BY <2>11 DEF DrainAgain, DrainReady
  <2>12. CASE SplitInbox
    <3>1. inbox \in Seq(Messages) BY SeqMonotonic DEF TypeOK, PumpType, Messages
    <3>2. Without(inbox, Turns) \in Seq(Messages \cap (Messages \ Turns)) BY <3>1, FilterType DEF Without
    <3>3. ToSet(Without(inbox, Turns)) \cap Turns = {} BY <3>2 DEF ToSet
    <3> QED BY <2>12, <3>3 DEF SplitInbox, GatherTurns
  <2>13. CASE TakeStranded
    <3>1. taken = <<>> BY <2>13 DEF TakeStranded
    <3>2. CASE KeepAll BY <2>13, <3>1, <3>2 DEF TakeStranded, KeepAll
    <3>3. CASE taken' = taken /\ at' = "appended" BY <2>13, <3>1, <3>3 DEF TakeStranded
    <3>4. CASE /\ taken' = Only(steering, steered)
               /\ at' = IF taken' \o inbox = <<>> THEN "appended" ELSE "edit"
               /\ UNCHANGED inbox
      <4>1. at = "append" /\ at' \in {"appended", "edit"} /\ UNCHANGED <<queued, turn>>
        BY <2>13, <3>4 DEF TakeStranded, KeepAll
      <4>2. PumpFits' BY <3>4, <4>1
      <4> QED BY <2>13, <4>2 DEF TakeStranded
    <3> QED BY <2>13, <3>2, <3>3, <3>4 DEF TakeStranded
  <2>14. CASE EditTranscript BY <2>14 DEF EditTranscript, KeepAll
  <2>15. CASE Persist BY <2>15 DEF Persist
  <2>16. CASE PersistFault BY <2>16 DEF PersistFault
  <2>17. CASE Appended BY <2>17 DEF Appended
  <2>18. CASE OfferTurn BY <2>18 DEF OfferTurn
  <2>19. CASE StartTurn
    <3>1. turn # <<>> /\ Head(turn) \in Turns /\ turn \in Seq(Turns)
      BY <2>19 DEF StartTurn, TypeOK, PumpType
    <3>2. OnlyPromptsQueue'
      <4>1. drive \in [Drivers -> Stages] BY DEF TypeOK, SessionType
      <4> QED BY <1>0, <2>19, <3>1, <4>1 DEF StartTurn
    <3>3. HandFits' BY <1>0, <2>19, <3>1 DEF StartTurn, StartRun
    <3>4. PumpFits' BY <2>19 DEF StartTurn, KeepAll
    <3> QED BY <3>2, <3>3, <3>4
  <2>20. CASE Accepted BY <2>20 DEF Accepted
  <2> QED BY <1>10, <2>1, <2>2, <2>3, <2>4, <2>5, <2>6, <2>7, <2>8, <2>9, <2>10, <2>11, <2>12, <2>13, <2>14,
             <2>15, <2>16, <2>17, <2>18, <2>19, <2>20 DEF Pump
<1> QED BY <1>1, <1>2, <1>3, <1>4, <1>5, <1>6, <1>7, <1>8, <1>9, <1>10 DEF PumpNext, Produce, Run

-----------------------------------------------------------------------------
(* The pump's books: in them a message is at most once, and while it is it has been sent and not
   been answered. *)

\* Counts are numbers.
LEMMA CountTypes ==
  ASSUME TypeOK, NEW m
  PROVE  /\ Count(m, Arrived("request")) \in Nat /\ Count(m, Arrived("steered")) \in Nat
         /\ Count(m, inbox) \in Nat /\ Count(m, queued) \in Nat /\ Count(m, turn) \in Nat
         /\ Count(m, taken) \in Nat /\ Count(m, hand) \in Nat /\ Count(m, steering) \in Nat
         /\ Count(m, transcript) \in Nat
<1> USE DEF TypeOK, AgentType, PumpType
<1>1. Count(m, Arrived("request")) \in Nat /\ Count(m, Arrived("steered")) \in Nat
  <2>1. Arrived("request") \in Seq(Requests) /\ Arrived("steered") \in Seq(Steers) BY ArrivedType
  <2> QED BY <2>1, CountType
<1>2. Count(m, inbox) \in Nat /\ Count(m, queued) \in Nat /\ Count(m, turn) \in Nat BY CountType
<1>3. Count(m, taken) \in Nat /\ Count(m, hand) \in Nat /\ Count(m, steering) \in Nat BY CountType
<1>4. Count(m, transcript) \in Nat BY CountType
<1> QED BY <1>1, <1>2, <1>3, <1>4

\* Nothing is entered or struck by a step that leaves the books alone.
LEMMA HeldSame ==
  ASSUME NEW m, UNCHANGED <<channel, inbox, steered, queued, turn>>
  PROVE  Held(m)' = Held(m)
BY DEF Held, Arrived

\* drain_ready files what has arrived, each once.
LEMMA HeldDrained ==
  ASSUME TypeOK, NEW m \in Requests, HeldOnce(m), DrainReady, UNCHANGED <<queued, turn, sent, answer>>
  PROVE  HeldOnce(m)'
<1>1. Arrived("request") \in Seq(Requests) /\ Arrived("steered") \in Seq(Steers)
  BY ArrivedType DEF TypeOK, PumpType
<1>2. Arrived("request")' = <<>> /\ Arrived("steered")' = <<>>
  <2>1. channel' = <<>> BY DEF DrainReady
  <2>2. Filter(channel', [kind : {"request"}, message : Requests]) = <<>>
        /\ Filter(channel', [kind : {"steered"}, message : Requests]) = <<>>
    BY <2>1, FilterEmpty
  <2> QED BY <2>2, NoneArrived DEF Arrived
<1>3. Count(m, inbox \o Arrived("request")) = Count(m, inbox) + Count(m, Arrived("request"))
  BY <1>1, CountConcat DEF TypeOK, PumpType
<1>4. Count(m, Arrived("steered")) = 0 <=> m \notin ToSet(Arrived("steered"))
  BY <1>1, CountType
<1> DEFINE a == Count(m, Arrived("request"))
           b == Count(m, Arrived("steered"))
           c == Count(m, inbox)
           d == IF m \in steered THEN 1 ELSE 0
           e == Count(m, queued) + Count(m, turn)
<1>5. a \in Nat /\ b \in Nat /\ c \in Nat /\ d \in Nat /\ e \in Nat BY CountTypes
<1>6. Held(m) = a + b + c + d + e BY <1>5, CountTypes DEF Held
<1>7. Count(m, inbox') = c + a BY <1>3, <1>5 DEF DrainReady
<1>8. (IF m \in steered' THEN 1 ELSE 0) = IF b = 0 THEN d ELSE 1 BY <1>4, <1>5 DEF DrainReady
<1>9. Count(m, queued') + Count(m, turn') = e OBVIOUS
<1>10. Count(m, queued') \in Nat /\ Count(m, turn') \in Nat BY CountTypes
<1>11. Held(m)' = Count(m, <<>>) + Count(m, <<>>) + Count(m, inbox') + (IF m \in steered' THEN 1 ELSE 0)
                  + Count(m, queued') + Count(m, turn')
  BY <1>2 DEF Held
<1>12. Count(m, <<>>) = 0 BY CountEmpty
<1>13. Held(m) <= 1 BY DEF HeldOnce
<1> HIDE DEF a, b, c, d, e
<1>14. Held(m)' = Held(m) BY <1>5, <1>6, <1>7, <1>8, <1>9, <1>10, <1>11, <1>12, <1>13
<1> QED BY <1>14 DEF HeldOnce

\* Splitting by a set leaves each message on one side.
LEMMA CountParts ==
  ASSUME NEW M, M \subseteq Messages, NEW s \in Seq(M), NEW S, NEW m \in Messages
  PROVE  /\ Count(m, Only(s, S)) = IF m \in S THEN Count(m, s) ELSE 0
         /\ Count(m, Without(s, S)) = IF m \in S THEN 0 ELSE Count(m, s)
<1>1. Count(m, Only(s, S)) = IF m \in S THEN Count(m, s) ELSE 0 BY CountFilter DEF Only
<1>2. Count(m, Without(s, S)) = IF m \in Messages \ S THEN Count(m, s) ELSE 0 BY CountFilter DEF Without
<1> QED BY <1>1, <1>2

\* Gathering turns from the inbox moves them.
LEMMA HeldGathered ==
  ASSUME TypeOK, NEW m \in Requests, NEW next, GatherTurns(next)
  PROVE  Held(m)' = Held(m)
<1>1. inbox \in Seq(Requests) /\ turn \in Seq(Turns) /\ Only(inbox, Turns) \in Seq(Turns)
  BY InboxParts DEF TypeOK, PumpType
<1>2. m \in Messages /\ Requests \subseteq Messages BY DEF Messages
<1>3. Count(m, turn \o Only(inbox, Turns)) = Count(m, turn) + Count(m, Only(inbox, Turns))
  BY <1>1, CountConcat
<1>4. Count(m, Only(inbox, Turns)) = IF m \in Turns THEN Count(m, inbox) ELSE 0
  BY <1>1, <1>2, CountParts
<1>5. Count(m, Without(inbox, Turns)) = IF m \in Turns THEN 0 ELSE Count(m, inbox)
  BY <1>1, <1>2, CountParts
<1>6. Arrived("request")' = Arrived("request") /\ Arrived("steered")' = Arrived("steered")
  BY DEF GatherTurns, Arrived
<1>7. Count(m, inbox) \in Nat /\ Count(m, turn) \in Nat BY CountTypes
<1>8. Count(m, inbox') + Count(m, turn') = Count(m, inbox) + Count(m, turn)
  BY <1>3, <1>4, <1>5, <1>7 DEF GatherTurns
<1>9. Count(m, inbox') \in Nat /\ Count(m, turn') \in Nat
  BY <1>3, <1>4, <1>5, <1>7 DEF GatherTurns
<1>10. queued' = queued /\ steered' = steered BY DEF GatherTurns
<1>11. Count(m, Arrived("request")) \in Nat /\ Count(m, Arrived("steered")) \in Nat /\ Count(m, queued) \in Nat
  BY CountTypes
<1> QED BY <1>6, <1>7, <1>8, <1>9, <1>10, <1>11 DEF Held

\* What is kept after AgentBusy is back in the inbox.
LEMMA HeldKept ==
  ASSUME TypeOK, NEW m, KeepAll, UNCHANGED <<channel, steered, queued>>
  PROVE  /\ Held(m)' = Held(m)
         /\ Count(m, inbox') = Count(m, inbox) + Count(m, turn) /\ Count(m, turn') = 0
<1>1. inbox \in Seq(Requests) /\ turn \in Seq(Requests)
  BY SeqMonotonic DEF TypeOK, PumpType, Requests
<1>2. Count(m, inbox \o turn) = Count(m, inbox) + Count(m, turn) BY <1>1, CountConcat
<1>3. Count(m, inbox') = Count(m, inbox) + Count(m, turn) /\ Count(m, turn') = 0
  BY <1>2, CountEmpty DEF KeepAll
<1>4. Count(m, inbox) \in Nat /\ Count(m, turn) \in Nat BY CountTypes
<1>5. Arrived("request")' = Arrived("request") /\ Arrived("steered")' = Arrived("steered") BY DEF Arrived
<1>6. Count(m, Arrived("request")) \in Nat /\ Count(m, Arrived("steered")) \in Nat /\ Count(m, queued) \in Nat
  BY CountTypes
<1>7. queued' = queued /\ steered' = steered OBVIOUS
<1>8. Held(m)' = Held(m) BY <1>3, <1>4, <1>5, <1>6, <1>7 DEF Held
<1> QED BY <1>3, <1>8

\* Every step: what enters the books was not yet sent, what is answered leaves them.
LEMMA StepHeld ==
  ASSUME TypeOK, NEW m \in Requests, \A r \in Requests : HeldOnce(r), PumpNext, PumpFits
  PROVE  HeldOnce(m)'
<1> USE DEF agentVars, sessionVars, pumpVars
<1>0. HeldOnce(m) /\ Held(m) \in Nat /\ Steers \subseteq Requests /\ Turns \subseteq Requests
  BY CountTypes DEF Held, Requests
<1>n. /\ Count(m, Arrived("request")) \in Nat /\ Count(m, Arrived("steered")) \in Nat
      /\ Count(m, inbox) \in Nat /\ Count(m, queued) \in Nat /\ Count(m, turn) \in Nat
  BY CountTypes
<1>s. sent \in [Requests -> {"no", "never", "steering", "steered", "yes"}] BY DEF TypeOK, PumpType
<1>1. ASSUME NEW r \in Requests, Inject(r) PROVE HeldOnce(m)'
  <2>1. Arrived("request")' = Append(Arrived("request"), r) /\ Arrived("steered")' = Arrived("steered")
    BY <1>1, ArrivedMore DEF Inject, TypeOK, PumpType
  <2>2. Arrived("request") \in Seq(Requests) BY ArrivedType DEF TypeOK, PumpType
  <2>3. Count(m, Append(Arrived("request"), r)) = Count(m, Arrived("request")) + (IF r = m THEN 1 ELSE 0)
    BY <2>2, CountAppend
  <2>4. Held(m)' = Held(m) + (IF r = m THEN 1 ELSE 0)
    <3>1. inbox' = inbox /\ steered' = steered /\ queued' = queued /\ turn' = turn BY <1>1 DEF Inject
    <3>2. Count(m, Arrived("request")') = Count(m, Arrived("request")) + (IF r = m THEN 1 ELSE 0) BY <2>1, <2>3
    <3> QED BY <1>n, <2>1, <3>1, <3>2 DEF Held
  <2>5. r = m => Held(m) = 0 /\ answer[m] = "none" /\ sent'[m] = "yes"
    BY <1>0, <1>1, <1>s DEF Inject, HeldOnce
  <2>6. r # m => sent'[m] = sent[m] BY <1>1, <1>s DEF Inject
  <2>7. answer' = answer BY <1>1 DEF Inject
  <2> QED BY <1>0, <2>4, <2>5, <2>6, <2>7 DEF HeldOnce
<1>2. ASSUME NEW r \in Steers, SeeRun(r) \/ SteerNow(r) PROVE HeldOnce(m)'
  <2>1. UNCHANGED <<channel, inbox, steered, queued, turn, answer>> BY <1>2 DEF SeeRun, SteerNow
  <2>2. Held(m)' = Held(m) BY <2>1, HeldSame
  <2>3. sent'[m] = sent[m] \/ (sent[m] # "yes" /\ sent'[m] # "yes")
    BY <1>0, <1>2, <1>s DEF SeeRun, SteerNow
  <2> QED BY <1>0, <2>1, <2>2, <2>3 DEF HeldOnce
<1>3. ASSUME NEW r \in Steers, TellPump(r) PROVE HeldOnce(m)'
  <2>1. Arrived("steered")' = Append(Arrived("steered"), r) /\ Arrived("request")' = Arrived("request")
    <3>1. channel \in Seq(Items) /\ r \in Requests BY <1>0 DEF TypeOK, PumpType
    <3>2. channel' = Append(channel, [kind |-> "steered", message |-> r]) BY <1>3 DEF TellPump
    <3> QED BY <3>1, <3>2, ArrivedMore
  <2>2. Arrived("steered") \in Seq(Steers) BY ArrivedType DEF TypeOK, PumpType
  <2>3. Count(m, Append(Arrived("steered"), r)) = Count(m, Arrived("steered")) + (IF r = m THEN 1 ELSE 0)
    BY <2>2, CountAppend
  <2>4. Held(m)' = Held(m) + (IF r = m THEN 1 ELSE 0)
    <3>1. inbox' = inbox /\ steered' = steered /\ queued' = queued /\ turn' = turn BY <1>3 DEF TellPump
    <3>2. Count(m, Arrived("steered")') = Count(m, Arrived("steered")) + (IF r = m THEN 1 ELSE 0) BY <2>1, <2>3
    <3> QED BY <1>n, <2>1, <3>1, <3>2 DEF Held
  <2>5. r = m => Held(m) = 0 /\ answer[m] = "none" /\ sent'[m] = "yes"
    BY <1>0, <1>3, <1>s DEF TellPump, HeldOnce
  <2>6. r # m => sent'[m] = sent[m] BY <1>0, <1>3, <1>s DEF TellPump
  <2>7. answer' = answer BY <1>3 DEF TellPump
  <2> QED BY <1>0, <2>4, <2>5, <2>6, <2>7 DEF HeldOnce
<1>4. ASSUME UNCHANGED <<channel, inbox, steered, queued, turn, sent, answer>> PROVE HeldOnce(m)'
  BY <1>0, <1>4, HeldSame DEF HeldOnce
<1>5. ASSUME ClearQueue \/ Run PROVE HeldOnce(m)'
  BY <1>4, <1>5 DEF ClearQueue, Run, PollSteering, EndMessage, StopPolling, EndRun
<1>6. ASSUME NEW p \in Prompts, Submit(p) PROVE HeldOnce(m)'
  BY <1>4, <1>6 DEF Submit
<1>7. ASSUME NEW d \in Drivers, Drive(d) PROVE HeldOnce(m)'
  <2>1. UNCHANGED <<channel, inbox, steered, queued, turn, sent, answer>>
    BY <1>7 DEF Drive, QueuePrompt, SpawnRun, DriveRun, PostRun, ContinueRun, Release, BeginDrain, EndDrain,
                DropLatch
  <2> QED BY <2>1, <1>4
<1>8. CASE Receive \/ WakeItem \/ DrainAgain
  <2>1. DrainReady /\ UNCHANGED <<queued, turn, sent, answer>> BY <1>8 DEF Receive, WakeItem, DrainAgain
  <2> QED BY <1>0, <2>1, HeldDrained
<1>9. CASE CheckSteers \/ CheckTurns \/ LookIdle \/ WakeIdle \/ Persist \/ OfferTurn
  BY <1>4, <1>9 DEF CheckSteers, CheckTurns, LookIdle, WakeIdle, Persist, OfferTurn
<1>10. CASE PushSteers
  <2>1. Count(m, inbox') = IF m \in Steers THEN 0 ELSE Count(m, inbox)
    <3>1. inbox \in Seq(Requests) /\ Requests \subseteq Messages /\ m \in Messages
      BY DEF TypeOK, PumpType, Messages
    <3>2. inbox' = Without(inbox, Steers) BY <1>10 DEF PushSteers
    <3> QED BY <3>1, <3>2, CountParts
  <2>2. m \in ToSet(inbox) <=> Count(m, inbox) # 0 BY CountType DEF TypeOK, PumpType
  <2>3. m \in steered' <=> m \in steered \/ (m \in Steers /\ Count(m, inbox) # 0)
    BY <1>10, <2>2 DEF PushSteers
  <2>4. UNCHANGED <<channel, queued, turn, sent, answer>> BY <1>10 DEF PushSteers
  <2>5. Arrived("request")' = Arrived("request") /\ Arrived("steered")' = Arrived("steered")
    BY <2>4 DEF Arrived
  <2>6. Held(m) <= 1 BY <1>0 DEF HeldOnce
  <2>7. Held(m)' = Held(m)
    BY <1>n, <2>1, <2>3, <2>4, <2>5, <2>6 DEF Held
  <2> QED BY <1>0, <2>4, <2>7 DEF HeldOnce
<1>11. CASE SettleQueued
  <2> DEFINE h == Head(queued)
  <2>1. queued # <<>> /\ queued \in Seq(Turns) /\ h \in Turns /\ turn \in Seq(Turns)
    BY <1>11 DEF SettleQueued, TypeOK, PumpType
  <2>2. Count(m, queued) = Count(m, queued') + (IF h = m THEN 1 ELSE 0)
    BY <1>11, <2>1, CountTail DEF SettleQueued
  <2>3. Count(m, queued') \in Nat
    <3>1. queued' \in Seq(Turns) BY <1>11, <2>1 DEF SettleQueued
    <3> QED BY <3>1, CountType
  <2>4. Count(m, Append(turn, h)) = Count(m, turn) + (IF h = m THEN 1 ELSE 0)
    BY <2>1, CountAppend
  <2>5. UNCHANGED <<channel, inbox, steered, sent>> BY <1>11 DEF SettleQueued
  <2>6. Arrived("request")' = Arrived("request") /\ Arrived("steered")' = Arrived("steered")
    BY <2>5 DEF Arrived
  <2>7. \/ turn' = Append(turn, h) /\ answer' = answer
        \/ turn' = turn /\ answer' = [answer EXCEPT ![h] = "accepted"]
    BY <1>11 DEF SettleQueued
  <2> HIDE DEF h
  <2>8. CASE turn' = Append(turn, h) /\ answer' = answer
    <3>1. Held(m)' = Held(m)
      <4>1. Count(m, turn') = Count(m, turn) + (IF h = m THEN 1 ELSE 0) BY <2>4, <2>8
      <4>2. inbox' = inbox /\ steered' = steered BY <2>5
      <4>3. Count(m, turn') + Count(m, queued') = Count(m, turn) + Count(m, queued)
        BY <1>n, <2>2, <2>3, <4>1
      <4>4. Count(m, turn') \in Nat BY <1>n, <4>1
      <4> QED BY <1>n, <2>3, <2>6, <4>2, <4>3, <4>4 DEF Held
    <3> QED BY <1>0, <2>5, <2>8, <3>1 DEF HeldOnce
  <2>9. CASE turn' = turn /\ answer' = [answer EXCEPT ![h] = "accepted"]
    <3>1. Held(m)' + (IF h = m THEN 1 ELSE 0) = Held(m) /\ Held(m)' \in Nat
      BY <1>n, <2>2, <2>3, <2>5, <2>6, <2>9, SMTT(30) DEF Held
    <3>2. h # m => answer'[m] = answer[m] BY <2>9, <1>0 DEF TypeOK, PumpType
    <3>3. CASE h = m
      <4>1. Held(m)' = 0 /\ sent[m] = "yes" BY <1>0, <3>1, <3>3 DEF HeldOnce
      <4> QED BY <4>1, <2>5 DEF HeldOnce
    <3>4. CASE h # m BY <1>0, <2>5, <3>1, <3>2, <3>4 DEF HeldOnce
    <3> QED BY <3>3, <3>4
  <2> QED BY <2>7, <2>8, <2>9
<1>12. CASE Requeue \/ SplitInbox
  <2>1. PICK next \in {"pushTurns", "append"} : GatherTurns(next) BY <1>12 DEF Requeue, SplitInbox
  <2>2. Held(m)' = Held(m) BY <2>1, HeldGathered
  <2>3. UNCHANGED <<sent, answer>> BY <2>1 DEF GatherTurns
  <2> QED BY <1>0, <2>2, <2>3 DEF HeldOnce
<1>13. CASE PushTurn
  <2> DEFINE h == Head(turn)
  <2>1. turn # <<>> /\ queued \in Seq(Turns) /\ h \in Turns /\ turn \in Seq(Turns) /\ Tail(turn) \in Seq(Turns)
    BY <1>13 DEF PushTurn, TypeOK, PumpType
  <2>2. Count(m, turn) = Count(m, Tail(turn)) + (IF h = m THEN 1 ELSE 0) /\ Count(m, Tail(turn)) \in Nat
    BY <2>1, CountTail, CountType
  <2>3. Count(m, Append(queued, h)) = Count(m, queued) + (IF h = m THEN 1 ELSE 0)
    BY <2>1, CountAppend
  <2>4. UNCHANGED <<channel, inbox, steered, sent, answer>> /\ queued' = Append(queued, h) /\ turn' = Tail(turn)
    BY <1>13 DEF PushTurn
  <2>5. Arrived("request")' = Arrived("request") /\ Arrived("steered")' = Arrived("steered")
    BY <2>4 DEF Arrived
  <2> HIDE DEF h
  <2>6. Held(m)' = Held(m)
    <3>1. Count(m, queued') = Count(m, queued) + (IF h = m THEN 1 ELSE 0) BY <2>3, <2>4
    <3>2. Count(m, turn) = Count(m, turn') + (IF h = m THEN 1 ELSE 0) /\ Count(m, turn') \in Nat BY <2>2, <2>4
    <3>3. Count(m, turn') + Count(m, queued') = Count(m, turn) + Count(m, queued)
      BY <1>n, <3>1, <3>2
    <3>4. Count(m, queued') \in Nat BY <1>n, <3>1
    <3>5. inbox' = inbox /\ steered' = steered BY <2>4
    <3> QED BY <1>n, <2>5, <3>2, <3>3, <3>4, <3>5 DEF Held
  <2> QED BY <1>0, <2>4, <2>6 DEF HeldOnce
<1>14. ASSUME KeepAll, UNCHANGED <<channel, steered, queued, sent, answer>> PROVE HeldOnce(m)'
  <2>1. Held(m)' = Held(m) BY <1>14, HeldKept
  <2> QED BY <1>0, <1>14, <2>1 DEF HeldOnce
<1>15. CASE TakeStranded
  <2>1. \/ UNCHANGED <<channel, inbox, steered, queued, turn, sent, answer>>
        \/ KeepAll /\ UNCHANGED <<channel, steered, queued, sent, answer>>
    BY <1>15 DEF TakeStranded
  <2> QED BY <2>1, <1>4, <1>14
<1>16. CASE EditTranscript
  <2>1. \/ UNCHANGED <<channel, inbox, steered, queued, turn, sent, answer>>
        \/ KeepAll /\ UNCHANGED <<channel, steered, queued, sent, answer>>
    BY <1>16 DEF EditTranscript
  <2> QED BY <2>1, <1>4, <1>14
<1>17. ASSUME NEW outcome \in {"accepted", "unavailable"}, NEW S, Answer(S, outcome),
              UNCHANGED <<channel, queued, sent>>,
              Count(m, inbox') = 0 \/ inbox' = inbox, m \notin steered' \/ steered' = steered,
              Count(m, turn') = 0 \/ turn' = turn,
              m \in S => Held(m)' = 0 /\ Held(m) # 0
       PROVE  HeldOnce(m)'
  <2>1. Arrived("request")' = Arrived("request") /\ Arrived("steered")' = Arrived("steered")
    BY <1>17 DEF Arrived
  <2>2. Held(m)' \in Nat /\ Held(m)' <= Held(m) BY <1>n, <1>17, <2>1 DEF Held
  <2>3. m \notin S => answer'[m] = answer[m] BY <1>17 DEF Answer
  <2>4. CASE m \in S BY <1>0, <1>17, <2>4 DEF HeldOnce
  <2>5. CASE m \notin S BY <1>0, <1>17, <2>2, <2>3, <2>5 DEF HeldOnce
  <2> QED BY <2>4, <2>5
<1>18. (m \in ToSet(inbox) <=> Count(m, inbox) # 0) /\ (m \in ToSet(turn) <=> Count(m, turn) # 0)
  BY CountType DEF TypeOK, PumpType
<1>19. Count(m, <<>>) = 0 BY CountEmpty
<1>20. CASE PersistFault
  <2> DEFINE S == ToSet(inbox \o turn) \cup steered
  <2>1. Answer(S, "unavailable") /\ inbox' = <<>> /\ turn' = <<>> /\ steered' = {}
        /\ UNCHANGED <<channel, queued, sent>>
    BY <1>20 DEF PersistFault
  <2>2. ToSet(inbox \o turn) = ToSet(inbox) \cup ToSet(turn)
    <3>1. inbox \in Seq(Requests) /\ turn \in Seq(Requests)
      BY SeqMonotonic DEF TypeOK, PumpType, Requests
    <3> QED BY <3>1, ToSetFacts
  <2>3. m \in S <=> Count(m, inbox) # 0 \/ Count(m, turn) # 0 \/ m \in steered BY <1>18, <2>2
  <2> HIDE DEF S
  <2>4. Arrived("request")' = Arrived("request") /\ Arrived("steered")' = Arrived("steered")
    BY <2>1 DEF Arrived
  <2>5. Held(m) <= 1 BY <1>0 DEF HeldOnce
  <2>6. m \in S => Held(m)' = 0 /\ Held(m) # 0
    BY <1>n, <1>19, <2>1, <2>3, <2>4, <2>5 DEF Held
  <2> QED BY <1>17, <1>19, <2>1, <2>6
<1>21. CASE Appended
  <2> DEFINE S == ToSet(inbox) \cup steered
  <2>1. Answer(S, "accepted") /\ inbox' = <<>> /\ turn' = turn /\ steered' = {}
        /\ UNCHANGED <<channel, queued, sent>>
    BY <1>21 DEF Appended
  <2>3. m \in S <=> Count(m, inbox) # 0 \/ m \in steered BY <1>18
  <2> HIDE DEF S
  <2>4. Arrived("request")' = Arrived("request") /\ Arrived("steered")' = Arrived("steered")
    BY <2>1 DEF Arrived
  <2>5. Held(m) <= 1 BY <1>0 DEF HeldOnce
  <2>6. m \in S => Held(m)' = 0 /\ Held(m) # 0
    BY <1>n, <1>19, <2>1, <2>3, <2>4, <2>5 DEF Held
  <2> QED BY <1>17, <1>19, <2>1, <2>6
<1>22. ASSUME NEW outcome \in {"accepted", "unavailable"}, Answer(ToSet(turn), outcome), turn' = <<>>,
              UNCHANGED <<channel, inbox, steered, queued, sent>>
       PROVE  HeldOnce(m)'
  <2>4. Arrived("request")' = Arrived("request") /\ Arrived("steered")' = Arrived("steered")
    BY <1>22 DEF Arrived
  <2>5. Held(m) <= 1 BY <1>0 DEF HeldOnce
  <2>6. m \in ToSet(turn) => Held(m)' = 0 /\ Held(m) # 0
    BY <1>n, <1>18, <1>19, <1>22, <2>4, <2>5 DEF Held
  <2> DEFINE S == ToSet(turn)
  <2>7. Answer(S, outcome) /\ (m \in S => Held(m)' = 0 /\ Held(m) # 0) BY <1>22, <2>6
  <2> HIDE DEF S
  <2> QED BY <1>17, <1>19, <1>22, <2>7
<1>23. CASE StartTurn
  <2>1. \/ UNCHANGED <<channel, inbox, steered, queued, turn, sent, answer>>
        \/ KeepAll /\ UNCHANGED <<channel, steered, queued, sent, answer>>
        \/ /\ Answer(ToSet(turn), "unavailable") /\ turn' = <<>>
           /\ UNCHANGED <<channel, inbox, steered, queued, sent>>
    BY <1>23 DEF StartTurn
  <2> QED BY <2>1, <1>4, <1>14, <1>22
<1>24. CASE Accepted BY <1>22, <1>24 DEF Accepted
<1> QED BY <1>1, <1>2, <1>3, <1>5, <1>6, <1>7, <1>8, <1>9, <1>10, <1>11, <1>12, <1>13, <1>15, <1>16, <1>20, <1>21,
           <1>23, <1>24 DEF PumpNext, Produce, Pump

-----------------------------------------------------------------------------
(* The copies of a message: that there is at most one, and what has been said of it is true. *)

\* Copies as a sum of counts, one per place.
LEMMA CopiesCount ==
  ASSUME TypeOK, NEW m
  PROVE  Copies(m) = Count(m, Arrived("request"))
           + (IF at \in {"persist", "appended"} THEN 0 ELSE Count(m, inbox) + Count(m, taken))
           + (IF at = "accepted" THEN 0 ELSE Count(m, turn))
           + Count(m, hand) + Count(m, steering) + Count(m, transcript)
           + (IF m \in lost THEN 1 ELSE 0)
<1>1. inbox \in Seq(Requests) /\ taken \in Seq(Requests)
  BY SeqMonotonic DEF TypeOK, PumpType, Requests
<1>2. Count(m, inbox \o taken) = Count(m, inbox) + Count(m, taken) BY <1>1, CountConcat
<1> QED BY <1>2 DEF Copies

\* Soundness is about places and answers: a step that leaves both alone keeps it, as long as the
\* pump does not enter or leave a point where the copies are counted otherwise.
LEMMA SoundSame ==
  ASSUME NEW m, Sound(m),
         UNCHANGED <<channel, inbox, taken, turn, hand, steering, transcript, lost, steered, sent, answer>>,
         \/ at' = at
         \/ {at, at'} \cap {"edit", "persist", "appended", "accepted"} = {}
  PROVE  Sound(m)'
<1>1. Arrived("request")' = Arrived("request") BY DEF Arrived
<1>2. Delivered(m)' <=> Delivered(m) BY DEF Delivered
<1>3. Copies(m)' = Copies(m) BY <1>1 DEF Copies
<1>4. Accounted(m)' BY <1>3 DEF Sound, Accounted
<1>5. Placed(m)' BY <1>2 DEF Sound, Placed
<1>6. Truthful(m)' BY <1>2 DEF Sound, Truthful
<1> QED BY <1>4, <1>5, <1>6 DEF Sound

\* A step of the agent moves copies between its queue, its hand and the transcript, or loses them.
LEMMA SoundMoved ==
  ASSUME NEW m, TypeOK, Sound(m), UNCHANGED <<channel, inbox, taken, turn, at, steered, sent, answer>>,
         Count(m, hand') \in Nat, Count(m, steering') \in Nat, Count(m, transcript') \in Nat,
         Count(m, hand') + Count(m, steering') + Count(m, transcript') + (IF m \in lost' THEN 1 ELSE 0)
           = Count(m, hand) + Count(m, steering) + Count(m, transcript) + (IF m \in lost THEN 1 ELSE 0),
         Count(m, steering') <= Count(m, steering),
         Count(m, transcript') >= Count(m, transcript),
         Count(m, hand') <= Count(m, hand) + Count(m, steering)
  PROVE  Sound(m)'
<1>0. /\ Count(m, Arrived("request")) \in Nat /\ Count(m, inbox) \in Nat /\ Count(m, turn) \in Nat
      /\ Count(m, taken) \in Nat /\ Count(m, hand) \in Nat /\ Count(m, steering) \in Nat
      /\ Count(m, transcript) \in Nat
  BY CountTypes
<1>1. Arrived("request")' = Arrived("request") BY DEF Arrived
<1>2. Delivered(m) => Delivered(m)' BY <1>0 DEF Delivered
<1>3. Copies(m)' = Copies(m)
  <2> DEFINE own == Count(m, Arrived("request"))
                    + (IF at \in {"persist", "appended"} THEN 0 ELSE Count(m, inbox \o taken))
                    + (IF at = "accepted" THEN 0 ELSE Count(m, turn))
  <2>1. Count(m, inbox \o taken) \in Nat
    <3>1. inbox \o taken \in Seq(Requests)
      <4>1. inbox \in Seq(Requests) /\ taken \in Seq(Requests)
        BY SeqMonotonic DEF TypeOK, PumpType, Requests
      <4> QED BY <4>1
    <3> QED BY <3>1, CountType
  <2>2. own \in Nat BY <2>1, <1>0
  <2>3. Copies(m) = own + Count(m, hand) + Count(m, steering) + Count(m, transcript)
                    + (IF m \in lost THEN 1 ELSE 0)
    BY DEF Copies
  <2>4. Copies(m)' = own + Count(m, hand') + Count(m, steering') + Count(m, transcript')
                    + (IF m \in lost' THEN 1 ELSE 0)
    BY <1>1 DEF Copies
  <2> HIDE DEF own
  <2> QED BY <1>0, <2>2, <2>3, <2>4
<1>4. Accounted(m)' BY <1>3 DEF Sound, Accounted
<1>5. Placed(m)' BY <1>0, <1>2 DEF Sound, Placed
<1>7. Count(m, hand) = 0 /\ Count(m, steering) = 0 /\ Count(m, transcript) = 0 /\ m \notin lost
      => Count(m, transcript') = 0 /\ m \notin lost'
  <2>1. CASE m \in lost' BY <1>0, <2>1
  <2>2. CASE m \notin lost' BY <1>0, <2>2
  <2> QED BY <2>1, <2>2
<1>6. Truthful(m)' BY <1>0, <1>2, <1>7 DEF Sound, Truthful
<1> QED BY <1>4, <1>5, <1>6 DEF Sound

\* The copies after a step, as a sum of counts.
LEMMA CopiesCountNext ==
  ASSUME TypeOK', NEW m
  PROVE  /\ Copies(m)' = Count(m, Arrived("request")')
           + (IF at' \in {"persist", "appended"} THEN 0 ELSE Count(m, inbox') + Count(m, taken'))
           + (IF at' = "accepted" THEN 0 ELSE Count(m, turn'))
           + Count(m, hand') + Count(m, steering') + Count(m, transcript')
           + (IF m \in lost' THEN 1 ELSE 0)
         /\ Count(m, inbox') \in Nat /\ Count(m, taken') \in Nat /\ Count(m, turn') \in Nat
         /\ Count(m, hand') \in Nat /\ Count(m, steering') \in Nat /\ Count(m, transcript') \in Nat
<1>0. /\ inbox' \in Seq(Requests) /\ taken' \in Seq(Steers) /\ turn' \in Seq(Turns)
      /\ hand' \in Seq(Messages) /\ steering' \in Seq(Messages) /\ transcript' \in Seq(Messages)
  BY DEF TypeOK, PumpType, AgentType
<1>1. taken' \in Seq(Requests) BY <1>0, SeqMonotonic DEF Requests
<1>2. Count(m, inbox' \o taken') = Count(m, inbox') + Count(m, taken') BY <1>0, <1>1, CountConcat
<1>3. Count(m, inbox') \in Nat /\ Count(m, taken') \in Nat /\ Count(m, turn') \in Nat BY <1>0, CountType
<1>4. Count(m, hand') \in Nat /\ Count(m, steering') \in Nat /\ Count(m, transcript') \in Nat
  BY <1>0, CountType
<1> QED BY <1>2, <1>3, <1>4 DEF Copies

\* The user's, the run's and the drivers' steps: a message leaves the queue for a run's hand, the
\* hand for the transcript, or is lost; a driver of a turn never brings a copy of its own.
LEMMA SoundAgent ==
  ASSUME TypeOK, HandFits, OnlyPromptsQueue, NEW m \in Requests, Sound(m),
         ClearQueue \/ Run \/ (\E d \in Drivers : Drive(d)) \/ (\E p \in Prompts : Submit(p))
  PROVE  Sound(m)'
<1> USE DEF agentVars, sessionVars, pumpVars
<1>0. /\ Count(m, hand) \in Nat /\ Count(m, steering) \in Nat /\ Count(m, transcript) \in Nat
  BY CountTypes
<1>1. Count(m, hand) + Count(m, steering) + Count(m, transcript) + (IF m \in lost THEN 1 ELSE 0) <= 1
  <2>1. Copies(m) <= 1 BY DEF Sound, Accounted
  <2> QED BY <2>1, CopiesCount, CountTypes
<1>2. hand \in Seq(Messages) /\ steering \in Seq(Messages) /\ transcript \in Seq(Messages)
  BY DEF TypeOK, AgentType
<1>3. (m \in ToSet(hand) <=> Count(m, hand) # 0) /\ (m \in ToSet(steering) <=> Count(m, steering) # 0)
  BY <1>2, CountType
<1>4. Count(m, <<>>) = 0 BY CountEmpty
<1>5. m \notin Prompts BY PumpAssumption
<1>6. steering # <<>> => /\ Count(m, steering) = Count(m, Tail(steering)) + (IF Head(steering) = m THEN 1 ELSE 0)
                        /\ Count(m, Tail(steering)) \in Nat
                        /\ Count(m, <<Head(steering)>>) = IF Head(steering) = m THEN 1 ELSE 0
  <2> SUFFICES ASSUME steering # <<>>
               PROVE  /\ Count(m, steering) = Count(m, Tail(steering)) + (IF Head(steering) = m THEN 1 ELSE 0)
                      /\ Count(m, Tail(steering)) \in Nat
                      /\ Count(m, <<Head(steering)>>) = IF Head(steering) = m THEN 1 ELSE 0
    OBVIOUS
  <2>1. Tail(steering) \in Seq(Messages) /\ Head(steering) \in Messages BY <1>2
  <2>2. Count(m, steering) = Count(m, Tail(steering)) + (IF Head(steering) = m THEN 1 ELSE 0) BY <1>2, CountTail
  <2>3. Count(m, Tail(steering)) \in Nat BY <2>1, CountType
  <2>4. Count(m, <<Head(steering)>>) = IF Head(steering) = m THEN 1 ELSE 0 BY <2>1, CountOne
  <2> QED BY <2>2, <2>3, <2>4
<1>7. CASE ClearQueue
  <2>1. Count(m, steering') = 0 /\ (m \in lost' <=> m \in lost \/ Count(m, steering) # 0)
    BY <1>3, <1>4, <1>7 DEF ClearQueue
  <2> QED BY <1>0, <1>1, <1>7, <2>1, SoundMoved DEF ClearQueue
<1>8. CASE PollSteering
  <2>1. steering # <<>> /\ hand = <<>> /\ hand' = <<Head(steering)>> /\ steering' = Tail(steering)
    BY <1>8 DEF PollSteering
  <2>2. /\ Count(m, hand) = 0 /\ Count(m, hand') \in Nat /\ Count(m, steering') \in Nat
        /\ Count(m, hand') + Count(m, steering') = Count(m, steering)
    BY <1>0, <1>4, <1>6, <2>1
  <2> QED BY <1>0, <1>8, <2>2, SoundMoved DEF PollSteering
<1>9. CASE EndMessage
  <2>1. Tail(hand) \in Seq(Messages) /\ Head(hand) \in Messages BY <1>2, <1>9 DEF EndMessage
  <2>2. Count(m, hand) = Count(m, Tail(hand)) + (IF Head(hand) = m THEN 1 ELSE 0)
    BY <1>2, <1>9, CountTail DEF EndMessage
  <2>3. Count(m, Append(transcript, Head(hand))) = Count(m, transcript) + (IF Head(hand) = m THEN 1 ELSE 0)
    BY <1>2, <2>1, CountAppend
  <2>4. Count(m, Tail(hand)) \in Nat BY <2>1, CountType
  <2>5. /\ Count(m, hand') = Count(m, Tail(hand))
        /\ Count(m, transcript') = Count(m, transcript) + (IF Head(hand) = m THEN 1 ELSE 0)
    BY <1>9, <2>3 DEF EndMessage
  <2>6. /\ Count(m, hand') \in Nat /\ Count(m, transcript') \in Nat
        /\ Count(m, hand') <= Count(m, hand) /\ Count(m, transcript') >= Count(m, transcript)
        /\ Count(m, hand') + Count(m, transcript') = Count(m, hand) + Count(m, transcript)
    BY <1>0, <2>2, <2>4, <2>5
  <2>7. UNCHANGED <<channel, inbox, taken, turn, at, steered, sent, answer, steering, lost>>
    BY <1>9 DEF EndMessage
  <2> QED BY <1>0, <2>6, <2>7, SoundMoved
<1>10. CASE StopPolling
  <2>1. Count(m, hand') = 0 /\ (m \in lost' <=> m \in lost \/ Count(m, hand) # 0)
    BY <1>3, <1>4, <1>10 DEF StopPolling
  <2> QED BY <1>0, <1>1, <1>10, <2>1, SoundMoved DEF StopPolling
<1>11. CASE EndRun BY <1>11, SoundSame DEF EndRun
<1>12. ASSUME NEW p \in Prompts, Submit(p) PROVE Sound(m)' BY <1>12, SoundSame DEF Submit
<1>13. ASSUME NEW d \in Drivers, Drive(d) PROVE Sound(m)'
  <2>1. drive[d] \in {"queueing", "spawned"} => d # m BY <1>5, <1>13 DEF OnlyPromptsQueue, Drivers
  <2>2. d \in Messages BY DEF Drivers, Messages, Requests
  <2>3. CASE QueuePrompt(d)
    <3>1. Count(m, Append(steering, d)) = Count(m, steering) + (IF d = m THEN 1 ELSE 0)
      BY <1>2, <2>2, CountAppend
    <3>2. Count(m, steering') = Count(m, steering) BY <1>0, <2>1, <2>3, <3>1 DEF QueuePrompt
    <3> QED BY <1>0, <2>3, <3>2, SoundMoved DEF QueuePrompt
  <2>4. CASE DriveRun(d)
    <3>1. d # m BY <2>1, <2>4 DEF DriveRun
    <3>2. Count(m, <<d>>) = 0 BY <2>2, <3>1, CountOne
    <3>3. Count(m, hand') = Count(m, hand) /\ (m \in lost' <=> m \in lost)
      BY <1>4, <2>4, <3>1, <3>2 DEF DriveRun, StartRun, HandFits
    <3> QED BY <1>0, <2>4, <3>3, SoundMoved DEF DriveRun
  <2>5. CASE ContinueRun(d)
    <3>1. /\ Count(m, hand') \in Nat /\ Count(m, steering') \in Nat
          /\ Count(m, steering') <= Count(m, steering)
          /\ Count(m, hand') + Count(m, steering') = Count(m, hand) + Count(m, steering)
      <4>1. CASE hand' = <<>> /\ steering' = steering /\ running = NoOne
        BY <1>0, <1>4, <4>1 DEF HandFits
      <4>2. CASE steering # <<>> /\ hand' = <<Head(steering)>> /\ steering' = Tail(steering) /\ running = NoOne
        BY <1>0, <1>4, <1>6, <4>2 DEF HandFits
      <4>3. CASE UNCHANGED <<hand, steering>> BY <1>0, <4>3
      <4> QED BY <2>5, <4>1, <4>2, <4>3 DEF ContinueRun, StartRun
    <3> QED BY <1>0, <2>5, <3>1, SoundMoved DEF ContinueRun
  <2>6. CASE SpawnRun(d) BY <2>6, SoundSame DEF SpawnRun
  <2>7. CASE PostRun(d) BY <2>7, SoundSame DEF PostRun
  <2>8. CASE Release(d) BY <2>8, SoundSame DEF Release
  <2>9. CASE BeginDrain(d) BY <2>9, SoundSame DEF BeginDrain
  <2>10. CASE EndDrain(d) BY <2>10, SoundSame DEF EndDrain
  <2>11. CASE DropLatch(d) BY <2>11, SoundSame DEF DropLatch
  <2> QED BY <1>13, <2>3, <2>4, <2>5, <2>6, <2>7, <2>8, <2>9, <2>10, <2>11 DEF Drive
<1> QED BY <1>7, <1>8, <1>9, <1>10, <1>11, <1>12, <1>13 DEF Run

\* A producer's steps: the first copy of a message, which the pump or the queue then has.
LEMMA SoundProducers ==
  ASSUME TypeOK, TypeOK', NEW m \in Requests, Sound(m), HeldOnce(m), NEW r \in Requests,
         Inject(r) \/ (r \in Steers /\ (SeeRun(r) \/ SteerNow(r) \/ TellPump(r)))
  PROVE  Sound(m)'
<1> USE DEF agentVars, sessionVars, pumpVars
<1>0. sent \in [Requests -> {"no", "never", "steering", "steered", "yes"}] BY DEF TypeOK, PumpType
<1>c. /\ Count(m, Arrived("request")) \in Nat /\ Count(m, Arrived("steered")) \in Nat
      /\ Count(m, inbox) \in Nat /\ Count(m, queued) \in Nat /\ Count(m, turn) \in Nat
      /\ Count(m, taken) \in Nat /\ Count(m, hand) \in Nat /\ Count(m, steering) \in Nat
      /\ Count(m, transcript) \in Nat
  BY CountTypes
<1>1. CASE Inject(r)
  <2>1. Arrived("request")' = Append(Arrived("request"), r)
    BY <1>1, ArrivedMore DEF Inject, TypeOK, PumpType
  <2>2. Arrived("request") \in Seq(Requests) BY ArrivedType DEF TypeOK, PumpType
  <2>3. Count(m, Arrived("request")') = Count(m, Arrived("request")) + (IF r = m THEN 1 ELSE 0)
    <3>1. Count(m, Append(Arrived("request"), r)) = Count(m, Arrived("request")) + (IF r = m THEN 1 ELSE 0)
      BY <2>2, CountAppend
    <3> QED BY <2>1, <3>1
  <2>4. UNCHANGED <<inbox, taken, turn, at, hand, steering, transcript, lost, steered, answer>> BY <1>1 DEF Inject
  <2>5. Copies(m)' = Copies(m) + (IF r = m THEN 1 ELSE 0)
    BY <1>c, <2>3, <2>4, CopiesCount, CopiesCountNext
  <2>6. IF r = m THEN sent[m] = "no" /\ sent'[m] = "yes" ELSE sent'[m] = sent[m] BY <1>0, <1>1 DEF Inject
  <2>7. Copies(m) \in Nat BY <1>c, CopiesCount
  <2>8. Accounted(m)' BY <2>4, <2>5, <2>6, <2>7 DEF Sound, Accounted
  <2>9. Placed(m)' /\ Truthful(m)' BY <2>4 DEF Sound, Placed, Truthful, Delivered
  <2> QED BY <2>8, <2>9 DEF Sound
<1>2. CASE r \in Steers /\ SeeRun(r)
  <2>1. UNCHANGED <<channel, inbox, taken, turn, at, hand, steering, transcript, lost, steered, answer>>
    BY <1>2 DEF SeeRun
  <2>2. Copies(m)' = Copies(m) BY <2>1 DEF Copies, Arrived
  <2>3. IF r = m THEN sent[m] = "no" /\ sent'[m] = "steering" ELSE sent'[m] = sent[m] BY <1>0, <1>2 DEF SeeRun
  <2>4. Accounted(m)' BY <2>1, <2>2, <2>3 DEF Sound, Accounted
  <2>5. Placed(m)' /\ Truthful(m)' BY <2>1 DEF Sound, Placed, Truthful, Delivered
  <2> QED BY <2>4, <2>5 DEF Sound
<1>3. CASE r \in Steers /\ SteerNow(r)
  <2>1. UNCHANGED <<channel, inbox, taken, turn, at, hand, transcript, lost, steered, answer>>
    BY <1>3 DEF SteerNow
  <2>2. Count(m, steering') = Count(m, steering) + (IF r = m THEN 1 ELSE 0)
    <3>1. r \in Messages /\ steering \in Seq(Messages) BY DEF TypeOK, AgentType, Messages
    <3>2. Count(m, Append(steering, r)) = Count(m, steering) + (IF r = m THEN 1 ELSE 0) BY <3>1, CountAppend
    <3> QED BY <1>3, <3>2 DEF SteerNow
  <2>3. Arrived("request")' = Arrived("request") BY <2>1 DEF Arrived
  <2>4. Copies(m)' = Copies(m) + (IF r = m THEN 1 ELSE 0)
    BY <1>c, <2>1, <2>2, <2>3, CopiesCount, CopiesCountNext
  <2>5. IF r = m THEN sent[m] = "steering" /\ sent'[m] = "steered" ELSE sent'[m] = sent[m]
    BY <1>0, <1>3 DEF SteerNow
  <2>6. Copies(m) \in Nat BY <1>c, CopiesCount
  <2>7. Accounted(m)' BY <2>1, <2>4, <2>5, <2>6 DEF Sound, Accounted
  <2>8. r = m => m \notin steered
    <3>1. r = m => Held(m) = 0 BY <2>5, <1>c DEF HeldOnce, Held
    <3> QED BY <3>1, <1>c DEF Held
  <2>9. Placed(m)' BY <1>c, <2>1, <2>2, <2>8 DEF Sound, Placed, Delivered
  <2>11. r = m => answer[m] = "none" BY <2>5 DEF HeldOnce
  <2>10. Truthful(m)' BY <1>3, <1>c, <2>1, <2>2, <2>11 DEF Sound, Truthful, Delivered
  <2> QED BY <2>7, <2>9, <2>10 DEF Sound
<1>4. CASE r \in Steers /\ TellPump(r)
  <2>1. UNCHANGED <<inbox, taken, turn, at, hand, steering, transcript, lost, steered, answer>>
    BY <1>4 DEF TellPump
  <2>2. Arrived("request")' = Arrived("request")
    <3>1. channel \in Seq(Items) BY DEF TypeOK, PumpType
    <3>2. channel' = Append(channel, [kind |-> "steered", message |-> r]) BY <1>4 DEF TellPump
    <3> QED BY <1>4, <3>1, <3>2, ArrivedMore
  <2>3. Copies(m)' = Copies(m) BY <2>1, <2>2 DEF Copies
  <2>4. IF r = m THEN sent[m] = "steered" /\ sent'[m] = "yes" ELSE sent'[m] = sent[m]
    BY <1>0, <1>4 DEF TellPump
  <2>5. Accounted(m)' BY <2>1, <2>3, <2>4 DEF Sound, Accounted
  <2>6. Placed(m)' /\ Truthful(m)' BY <2>1 DEF Sound, Placed, Truthful, Delivered
  <2> QED BY <2>5, <2>6 DEF Sound
<1> QED BY <1>1, <1>2, <1>3, <1>4

\* AgentBusy, wherever it is met: the turn is requested again, and what was taken back is queued.
LEMMA SoundKept ==
  ASSUME TypeOK, TypeOK', NEW m \in Requests, Sound(m), HeldOnce(m), KeepAll,
         at \notin {"persist", "appended", "accepted"},
         UNCHANGED <<channel, hand, transcript, lost, steered, queued, sent, answer>>,
         Count(m, taken') + Count(m, steering') = Count(m, taken) + Count(m, steering),
         Count(m, taken') = 0,
         Count(m, taken) # 0 => answer[m] = "none"
  PROVE  Sound(m)'
<1>c. /\ Count(m, Arrived("request")) \in Nat
      /\ Count(m, inbox) \in Nat /\ Count(m, turn) \in Nat
      /\ Count(m, taken) \in Nat /\ Count(m, hand) \in Nat /\ Count(m, steering) \in Nat
      /\ Count(m, transcript) \in Nat
  BY CountTypes
<1>1. Count(m, inbox') = Count(m, inbox) + Count(m, turn) /\ Count(m, turn') = 0 BY HeldKept
<1>2. at' = "receive" BY DEF KeepAll
<1>3. Arrived("request")' = Arrived("request") BY DEF Arrived
<1>4. Copies(m)' = Copies(m)
  <2>1. Copies(m) = Count(m, Arrived("request")) + Count(m, inbox) + Count(m, taken) + Count(m, turn)
           + Count(m, hand) + Count(m, steering) + Count(m, transcript) + (IF m \in lost THEN 1 ELSE 0)
    BY <1>c, CopiesCount
  <2>2. Copies(m)' = Count(m, Arrived("request")') + Count(m, inbox') + Count(m, taken') + Count(m, turn')
           + Count(m, hand') + Count(m, steering') + Count(m, transcript') + (IF m \in lost' THEN 1 ELSE 0)
    BY <1>c, <1>2, <1>3, CopiesCountNext
  <2>3. Count(m, steering') \in Nat BY CopiesCountNext
  <2> QED BY <1>c, <1>1, <1>3, <2>1, <2>2, <2>3
<1>5. Accounted(m)' BY <1>4 DEF Sound, Accounted
<1>6. Placed(m)' BY <1>2 DEF Placed
<1>7. answer[m] # "none" => Count(m, steering') = Count(m, steering)
  BY <1>c, CopiesCountNext
<1>8. Truthful(m)' BY <1>7 DEF Sound, Truthful, Delivered
<1> QED BY <1>5, <1>6, <1>8 DEF Sound

\* drain_ready moves messages from the channel to the inbox.
LEMMA SoundDrained ==
  ASSUME TypeOK, TypeOK', NEW m \in Requests, Sound(m), HeldOnce(m), DrainReady,
         {at, at'} \cap {"edit", "persist", "appended", "accepted"} = {},
         UNCHANGED <<taken, turn, hand, steering, transcript, lost, queued, sent, answer>>
  PROVE  Sound(m)'
<1>c. /\ Count(m, Arrived("request")) \in Nat
      /\ Count(m, inbox) \in Nat /\ Count(m, turn) \in Nat
      /\ Count(m, taken) \in Nat /\ Count(m, hand) \in Nat /\ Count(m, steering) \in Nat
      /\ Count(m, transcript) \in Nat
  BY CountTypes
<1>a. at \notin {"persist", "appended", "accepted"} /\ at' \notin {"persist", "appended", "accepted"} OBVIOUS
<1>1. Arrived("request") \in Seq(Requests) /\ inbox \in Seq(Requests)
  BY ArrivedType DEF TypeOK, PumpType
<1>2. Count(m, inbox') = Count(m, inbox) + Count(m, Arrived("request"))
  BY <1>1, CountConcat DEF DrainReady
<1>3. Count(m, Arrived("request")') = 0
  <2>1. channel' = <<>> BY DEF DrainReady
  <2>2. Filter(channel', [kind : {"request"}, message : Requests]) = <<>> BY <2>1, FilterEmpty
  <2> QED BY <2>2, NoneArrived, CountEmpty DEF Arrived
<1>4. Copies(m)' = Copies(m)
  <2>1. Copies(m) = Count(m, Arrived("request")) + Count(m, inbox) + Count(m, taken) + Count(m, turn)
           + Count(m, hand) + Count(m, steering) + Count(m, transcript) + (IF m \in lost THEN 1 ELSE 0)
    BY <1>c, <1>a, CopiesCount
  <2>2. Copies(m)' = Count(m, Arrived("request")') + Count(m, inbox') + Count(m, taken') + Count(m, turn')
           + Count(m, hand') + Count(m, steering') + Count(m, transcript') + (IF m \in lost' THEN 1 ELSE 0)
    BY <1>a, <1>3, CopiesCountNext
  <2> QED BY <1>c, <1>2, <1>3, <2>1, <2>2
<1>5. Accounted(m)' BY <1>4 DEF Sound, Accounted
<1>6. Placed(m)' BY DEF Sound, Placed, DrainReady
<1>7. Truthful(m)' BY DEF Sound, Truthful, Delivered
<1> QED BY <1>5, <1>6, <1>7 DEF Sound

\* The copies of a message outside the steps in which the transcript or a run's hand has the one
\* that counts.
LEMMA CopiesAtRest ==
  ASSUME TypeOK, NEW m, at \notin {"persist", "appended", "accepted"}
  PROVE  Copies(m) = Count(m, Arrived("request")) + Count(m, inbox) + Count(m, taken) + Count(m, turn)
           + Count(m, hand) + Count(m, steering) + Count(m, transcript) + (IF m \in lost THEN 1 ELSE 0)
BY CountTypes, CopiesCount

\* The same after a step.
LEMMA CopiesAtRestNext ==
  ASSUME TypeOK', NEW m, at' \notin {"persist", "appended", "accepted"}, Count(m, Arrived("request")') \in Nat
  PROVE  Copies(m)' = Count(m, Arrived("request")') + Count(m, inbox') + Count(m, taken') + Count(m, turn')
           + Count(m, hand') + Count(m, steering') + Count(m, transcript') + (IF m \in lost' THEN 1 ELSE 0)
BY CopiesCountNext

\* QueuedTurn::settle: a turn no longer queued is accepted, and then it has been delivered: of its one
\* copy none is in a queue or with the pump.
LEMMA SoundSettled ==
  ASSUME TypeOK, TypeOK', PumpFits, NEW m \in Requests, Sound(m), HeldOnce(m), SettleQueued
  PROVE  Sound(m)'
<1>c. /\ Count(m, Arrived("request")) \in Nat /\ Count(m, Arrived("steered")) \in Nat
      /\ Count(m, inbox) \in Nat /\ Count(m, queued) \in Nat /\ Count(m, turn) \in Nat
      /\ Count(m, taken) \in Nat /\ Count(m, hand) \in Nat /\ Count(m, steering) \in Nat
      /\ Count(m, transcript) \in Nat
  BY CountTypes
<1> DEFINE h == Head(queued)
<1>1. /\ at \in {"takeBack", "settle"} /\ queued # <<>> /\ queued \in Seq(Turns)
      /\ h \in Turns /\ turn \in Seq(Turns) /\ steering \in Seq(Messages)
      /\ h \in Messages /\ m \in Messages
  BY DEF SettleQueued, TypeOK, PumpType, AgentType, Messages, Requests
<1>2. UNCHANGED <<running, polls, hand, transcript, lost, sent, channel, at, inbox, steered, taken>>
  BY DEF SettleQueued
<1>3. Arrived("request")' = Arrived("request") BY <1>2 DEF Arrived
<1>4. h \in ToSet(steering) <=> Count(h, steering) # 0 BY <1>1, CountType
<1>5. \/ h \in ToSet(steering) /\ steering' = Without(steering, {h}) /\ turn' = Append(turn, h) /\ answer' = answer
      \/ h \notin ToSet(steering) /\ UNCHANGED <<steering, turn>> /\ answer' = [answer EXCEPT ![h] = "accepted"]
  BY DEF SettleQueued
<1>6. Copies(m) = Count(m, Arrived("request")) + Count(m, inbox) + Count(m, taken) + Count(m, turn)
           + Count(m, hand) + Count(m, steering) + Count(m, transcript) + (IF m \in lost THEN 1 ELSE 0)
  BY <1>1, CopiesAtRest
<1>7. Copies(m)' = Count(m, Arrived("request")) + Count(m, inbox) + Count(m, taken) + Count(m, turn')
           + Count(m, hand) + Count(m, steering') + Count(m, transcript) + (IF m \in lost THEN 1 ELSE 0)
  BY <1>1, <1>2, <1>3, <1>c, CopiesAtRestNext
<1>8. CASE h \in ToSet(steering) /\ steering' = Without(steering, {h}) /\ turn' = Append(turn, h) /\ answer' = answer
  <2>1. Count(m, turn') = Count(m, turn) + (IF h = m THEN 1 ELSE 0) BY <1>1, <1>8, CountAppend
  <2>2. Count(m, steering') = IF m \in {h} THEN 0 ELSE Count(m, steering) BY <1>1, <1>8, CountParts
  <2>3. h = m => Count(m, steering) = 1
    <3>1. Copies(m) <= 1 BY DEF Sound, Accounted
    <3>2. h = m => Count(m, steering) # 0 BY <1>4, <1>8
    <3>3. Count(m, steering) <= 1 BY <1>c, <1>6, <3>1
    <3> QED BY <1>c, <3>2, <3>3
  <2> HIDE DEF h
  <2>4. Copies(m)' = Copies(m) BY <1>c, <1>6, <1>7, <2>1, <2>2, <2>3
  <2>5. Accounted(m)' BY <1>2, <1>8, <2>4 DEF Sound, Accounted
  <2>6. Placed(m)' BY <1>1, <1>2 DEF Sound, Placed
  <2>7. Truthful(m)' BY <1>2, <1>8, <2>2 DEF Sound, Truthful, Delivered
  <2> QED BY <2>5, <2>6, <2>7 DEF Sound
<1>9. CASE h \notin ToSet(steering) /\ UNCHANGED <<steering, turn>> /\ answer' = [answer EXCEPT ![h] = "accepted"]
  <2>1. Copies(m)' = Copies(m) BY <1>6, <1>7, <1>9
  <2>2. Placed(m)' BY <1>1, <1>2, <1>9 DEF Sound, Placed
  <2>3. CASE h = m
    <3>1. Count(m, queued) # 0
      <4>1. m \in ToSet(queued) BY <1>1, <2>3, ToSetFacts
      <4> QED BY <1>1, <4>1, CountType
    <3>2. Held(m) <= 1 /\ (Held(m) # 0 => sent[m] = "yes" /\ answer[m] = "none") BY DEF HeldOnce
    <3>3. /\ Count(m, Arrived("request")) = 0 /\ Count(m, inbox) = 0 /\ Count(m, turn) = 0 /\ Held(m) # 0
      BY <1>c, <3>1, <3>2 DEF Held
    <3>4. sent[m] = "yes" /\ answer[m] = "none" BY <3>2, <3>3
    <3>5. Copies(m) = 1 BY <3>4 DEF Sound, Accounted
    <3>6. Count(m, steering) = 0 BY <1>4, <1>9, <2>3
    <3>7. Count(m, taken) = 0
      <4>1. taken = <<>> BY <1>1 DEF PumpFits
      <4> QED BY <4>1, CountEmpty
    <3>8. Delivered(m) BY <1>c, <1>6, <3>3, <3>5, <3>6, <3>7 DEF Delivered
    <3>9. Delivered(m)' BY <3>8, <1>2 DEF Delivered
    <3>10. answer'[m] = "accepted" BY <1>9, <2>3 DEF TypeOK, PumpType
    <3>11. Accounted(m)' BY <1>2, <2>1, <3>4, <3>5 DEF Accounted
    <3>12. Truthful(m)' BY <3>9, <3>10 DEF Truthful
    <3> QED BY <2>2, <3>11, <3>12 DEF Sound
  <2>4. CASE h # m
    <3>1. answer'[m] = answer[m] BY <1>9, <2>4 DEF TypeOK, PumpType
    <3>2. Accounted(m)' BY <1>2, <2>1, <3>1 DEF Sound, Accounted
    <3>3. Truthful(m)' BY <1>2, <1>9, <3>1 DEF Sound, Truthful, Delivered
    <3> QED BY <2>2, <3>2, <3>3 DEF Sound
  <2> QED BY <2>3, <2>4
<1> QED BY <1>5, <1>8, <1>9

\* Gathering and pushing move the copy between the inbox, the turn and the steering queue.
LEMMA SoundTurns ==
  ASSUME TypeOK, TypeOK', PumpFits, NEW m \in Requests, Sound(m), HeldOnce(m),
         Requeue \/ SplitInbox \/ PushTurn \/ PushSteers
  PROVE  Sound(m)'
<1> USE DEF agentVars, sessionVars, pumpVars
<1>c. /\ Count(m, Arrived("request")) \in Nat /\ Count(m, Arrived("steered")) \in Nat
      /\ Count(m, inbox) \in Nat /\ Count(m, queued) \in Nat /\ Count(m, turn) \in Nat
      /\ Count(m, taken) \in Nat /\ Count(m, hand) \in Nat /\ Count(m, steering) \in Nat
      /\ Count(m, transcript) \in Nat
  BY CountTypes
<1>t. /\ inbox \in Seq(Requests) /\ turn \in Seq(Turns) /\ steering \in Seq(Messages)
      /\ Requests \subseteq Messages /\ m \in Messages
  BY DEF TypeOK, PumpType, AgentType, Messages
<1>1. CASE Requeue \/ SplitInbox
  <2>1. PICK next \in {"pushTurns", "append"} : GatherTurns(next) /\ at \in {"takeBack", "settle"}
    BY <1>1 DEF Requeue, SplitInbox
  <2>2. UNCHANGED <<channel, taken, hand, steering, transcript, lost, steered, sent, answer>> /\ at' = next
        /\ turn' = turn \o Only(inbox, Turns) /\ inbox' = Without(inbox, Turns)
    BY <2>1 DEF GatherTurns
  <2>3. Only(inbox, Turns) \in Seq(Turns) BY <1>t, InboxParts
  <2>4. Count(m, turn') = Count(m, turn) + (IF m \in Turns THEN Count(m, inbox) ELSE 0)
    BY <1>t, <2>2, <2>3, CountConcat, CountParts
  <2>5. Count(m, inbox') = IF m \in Turns THEN 0 ELSE Count(m, inbox)
    BY <1>t, <2>2, CountParts, SMTT(30)
  <2>6. Arrived("request")' = Arrived("request") BY <2>2 DEF Arrived
  <2>7. Copies(m) = Count(m, Arrived("request")) + Count(m, inbox) + Count(m, taken) + Count(m, turn)
           + Count(m, hand) + Count(m, steering) + Count(m, transcript) + (IF m \in lost THEN 1 ELSE 0)
    BY <2>1, CopiesAtRest
  <2>8. Copies(m)' = Count(m, Arrived("request")) + Count(m, inbox') + Count(m, taken) + Count(m, turn')
           + Count(m, hand) + Count(m, steering) + Count(m, transcript) + (IF m \in lost THEN 1 ELSE 0)
    BY <1>c, <2>2, <2>6, CopiesAtRestNext
  <2>9. Copies(m)' = Copies(m) BY <1>c, <2>4, <2>5, <2>7, <2>8
  <2>10. Accounted(m)' BY <2>2, <2>9 DEF Sound, Accounted
  <2>11. Placed(m)' /\ Truthful(m)' BY <2>2 DEF Sound, Placed, Truthful, Delivered
  <2> QED BY <2>10, <2>11 DEF Sound
<1>2. CASE PushTurn
  <2> DEFINE h == Head(turn)
  <2>1. /\ at = "pushTurns" /\ at' \in {"look", "pushTurns"} /\ turn # <<>>
        /\ UNCHANGED <<channel, inbox, taken, hand, transcript, lost, steered, sent, answer>>
        /\ turn' = Tail(turn) /\ steering' = Append(steering, h)
    BY <1>2 DEF PushTurn
  <2>2. h \in Turns /\ h \in Messages /\ Tail(turn) \in Seq(Turns)
    BY <1>t, <2>1 DEF Messages, Requests
  <2>3. Count(m, turn) = Count(m, turn') + (IF h = m THEN 1 ELSE 0) /\ Count(m, turn') \in Nat
    BY <1>t, <2>1, <2>2, CountTail, CountType
  <2>4. Count(m, steering') = Count(m, steering) + (IF h = m THEN 1 ELSE 0)
    BY <1>t, <2>1, <2>2, CountAppend
  <2>5. Arrived("request")' = Arrived("request") BY <2>1 DEF Arrived
  <2>6. Copies(m) = Count(m, Arrived("request")) + Count(m, inbox) + Count(m, taken) + Count(m, turn)
           + Count(m, hand) + Count(m, steering) + Count(m, transcript) + (IF m \in lost THEN 1 ELSE 0)
    BY <2>1, CopiesAtRest
  <2>7. Copies(m)' = Count(m, Arrived("request")) + Count(m, inbox) + Count(m, taken) + Count(m, turn')
           + Count(m, hand) + Count(m, steering') + Count(m, transcript) + (IF m \in lost THEN 1 ELSE 0)
    BY <1>c, <2>1, <2>5, CopiesAtRestNext
  <2> HIDE DEF h
  <2>8. Copies(m)' = Copies(m) BY <1>c, <2>3, <2>4, <2>6, <2>7
  <2>9. Accounted(m)' BY <2>1, <2>8 DEF Sound, Accounted
  <2>10. h = m => answer[m] = "none"
    <3>1. h = m => Held(m) # 0 BY <1>c, <2>3 DEF Held
    <3> QED BY <3>1 DEF HeldOnce
  <2>11. Placed(m)' BY <2>1 DEF Sound, Placed
  <2>12. Truthful(m)' BY <1>c, <2>1, <2>4, <2>10 DEF Sound, Truthful, Delivered
  <2> QED BY <2>9, <2>11, <2>12 DEF Sound
<1>3. CASE PushSteers
  <2>1. /\ at = "pushSteers" /\ at' = "join"
        /\ UNCHANGED <<channel, taken, turn, hand, transcript, lost, sent, answer>>
        /\ steering' = steering \o Only(inbox, Steers) /\ inbox' = Without(inbox, Steers)
        /\ steered \subseteq steered'
    BY <1>3 DEF PushSteers
  <2>2. Only(inbox, Steers) \in Seq(Messages) BY <1>t, InboxParts
  <2>3. Count(m, steering') = Count(m, steering) + (IF m \in Steers THEN Count(m, inbox) ELSE 0)
    BY <1>t, <2>1, <2>2, CountConcat, CountParts, SMTT(30)
  <2>4. Count(m, inbox') = IF m \in Steers THEN 0 ELSE Count(m, inbox)
    BY <1>t, <2>1, CountParts
  <2>5. Arrived("request")' = Arrived("request") BY <2>1 DEF Arrived
  <2>6. Copies(m) = Count(m, Arrived("request")) + Count(m, inbox) + Count(m, taken) + Count(m, turn)
           + Count(m, hand) + Count(m, steering) + Count(m, transcript) + (IF m \in lost THEN 1 ELSE 0)
    BY <2>1, CopiesAtRest
  <2>7. Copies(m)' = Count(m, Arrived("request")) + Count(m, inbox') + Count(m, taken) + Count(m, turn)
           + Count(m, hand) + Count(m, steering') + Count(m, transcript) + (IF m \in lost THEN 1 ELSE 0)
    BY <1>c, <2>1, <2>5, CopiesAtRestNext
  <2>8. Copies(m)' = Copies(m) BY <1>c, <2>3, <2>4, <2>6, <2>7
  <2>9. Accounted(m)' BY <2>1, <2>8 DEF Sound, Accounted
  <2>10. Placed(m)' BY <2>1 DEF Sound, Placed
  <2>12. Count(m, inbox) # 0 => answer[m] = "none"
    <3>2. Count(m, inbox) # 0 => Held(m) # 0
      <4> DEFINE n == IF m \in steered THEN 1 ELSE 0
      <4>1. n \in Nat OBVIOUS
      <4>2. Held(m) = Count(m, Arrived("request")) + Count(m, Arrived("steered")) + Count(m, inbox)
                      + n + Count(m, queued) + Count(m, turn)
        BY DEF Held
      <4> HIDE DEF n
      <4> QED BY <1>c, <4>1, <4>2
    <3> QED BY <3>2 DEF HeldOnce
  <2>11. Truthful(m)' BY <1>c, <2>1, <2>3, <2>12 DEF Sound, Truthful, Delivered
  <2> QED BY <2>9, <2>10, <2>11 DEF Sound
<1> QED BY <1>1, <1>2, <1>3

\* Taking steers back empties the queue of them, so those not found have been delivered.
LEMMA SoundTaken ==
  ASSUME TypeOK, TypeOK', HandFits, PumpFits, NEW m \in Requests, Sound(m), HeldOnce(m), TakeStranded
  PROVE  Sound(m)'
<1> USE DEF agentVars, sessionVars, pumpVars
<1>c. /\ Count(m, Arrived("request")) \in Nat /\ Count(m, Arrived("steered")) \in Nat
      /\ Count(m, inbox) \in Nat /\ Count(m, queued) \in Nat /\ Count(m, turn) \in Nat
      /\ Count(m, taken) \in Nat /\ Count(m, hand) \in Nat /\ Count(m, steering) \in Nat
      /\ Count(m, transcript) \in Nat
  BY CountTypes
<1>1. at = "append" /\ taken = <<>> /\ UNCHANGED <<channel, hand, transcript, lost, steered, queued, sent, answer>>
  BY DEF TakeStranded, PumpFits
<1>2. Count(m, taken) = 0 BY <1>1, CountEmpty
<1>3. Arrived("request")' = Arrived("request") BY <1>1 DEF Arrived
<1>4. Copies(m) = Count(m, Arrived("request")) + Count(m, inbox) + Count(m, taken) + Count(m, turn)
           + Count(m, hand) + Count(m, steering) + Count(m, transcript) + (IF m \in lost THEN 1 ELSE 0)
  BY <1>1, CopiesAtRest
<1>5. CASE inbox = <<>> /\ steered = {} /\ at' = "appended" /\ UNCHANGED <<steering, inbox, turn, taken>>
  <2>1. Count(m, inbox) = 0 BY <1>5, CountEmpty
  <2>2. Copies(m)' = Count(m, Arrived("request")) + Count(m, turn)
           + Count(m, hand) + Count(m, steering) + Count(m, transcript) + (IF m \in lost THEN 1 ELSE 0)
    BY <1>c, <1>1, <1>3, <1>5, CopiesCountNext
  <2>3. Copies(m)' = Copies(m) BY <1>c, <1>2, <1>4, <2>1, <2>2
  <2>4. Accounted(m)' BY <1>1, <2>3 DEF Sound, Accounted
  <2>5. Placed(m)' BY <1>1, <1>2, <1>5, <2>1 DEF Sound, Placed
  <2>6. Truthful(m)' BY <1>1, <1>5 DEF Sound, Truthful, Delivered
  <2> QED BY <2>4, <2>5, <2>6 DEF Sound
<1>6. CASE KeepAll /\ UNCHANGED <<steering, taken>>
  <2>1. at \notin {"persist", "appended", "accepted"} BY <1>1
  <2> QED BY <1>1, <1>2, <1>6, <2>1, SoundKept
<1>7. CASE /\ taken' = Only(steering, steered)
           /\ steering' = Without(steering, steered)
           /\ at' = IF taken' \o inbox = <<>> THEN "appended" ELSE "edit"
           /\ UNCHANGED <<inbox, turn>>
           /\ running = NoOne
  <2>9. Count(m, hand) = 0 BY <1>7, CountEmpty DEF HandFits
  <2>1. steering \in Seq(Messages) /\ m \in Messages BY DEF TypeOK, AgentType, Messages
  <2>2. Count(m, taken') = IF m \in steered THEN Count(m, steering) ELSE 0 BY <1>7, <2>1, CountParts
  <2>3. Count(m, steering') = IF m \in steered THEN 0 ELSE Count(m, steering) BY <1>7, <2>1, CountParts
  <2>4. at' = "appended" => Count(m, taken') = 0 /\ Count(m, inbox) = 0
    <3>1. SUFFICES ASSUME taken' \o inbox = <<>> PROVE Count(m, taken') = 0 /\ Count(m, inbox) = 0
      BY <1>7
    <3>2. taken' \in Seq(Requests) /\ inbox \in Seq(Requests)
      BY SeqMonotonic DEF TypeOK, PumpType, Requests
    <3>3. Count(m, taken' \o inbox) = Count(m, taken') + Count(m, inbox) BY <3>2, CountConcat
    <3>4. Count(m, taken') \in Nat BY <3>2, CountType
    <3>5. Count(m, taken' \o inbox) = 0 BY <3>1, CountEmpty
    <3> QED BY <1>c, <3>3, <3>4, <3>5
  <2>5. Copies(m)' = Copies(m)
    <3>1. CASE at' = "edit"
      <4>1. at' \notin {"persist", "appended", "accepted"} BY <3>1
      <4>2. Copies(m)' = Count(m, Arrived("request")) + Count(m, inbox) + Count(m, taken') + Count(m, turn)
               + Count(m, hand) + Count(m, steering') + Count(m, transcript) + (IF m \in lost THEN 1 ELSE 0)
        BY <1>c, <1>1, <1>3, <1>7, <4>1, CopiesAtRestNext
      <4> QED BY <1>c, <1>2, <1>4, <2>2, <2>3, <4>2
    <3>2. CASE at' = "appended"
      <4>1. Copies(m)' = Count(m, Arrived("request")) + Count(m, turn)
               + Count(m, hand) + Count(m, steering') + Count(m, transcript) + (IF m \in lost THEN 1 ELSE 0)
        BY <1>c, <1>1, <1>3, <1>7, <3>2, CopiesCountNext
      <4> QED BY <1>c, <1>2, <1>4, <2>2, <2>3, <2>4, <3>2, <4>1
    <3> QED BY <1>7, <3>1, <3>2
  <2>6. Accounted(m)' BY <1>1, <2>5 DEF Sound, Accounted
  <2>7. Placed(m)' BY <1>1, <1>7, <2>2, <2>3, <2>4, <2>9 DEF Sound, Placed
  <2>8. Truthful(m)' BY <1>1, <2>3 DEF Sound, Truthful, Delivered
  <2> QED BY <2>6, <2>7, <2>8 DEF Sound
<1> QED BY <1>5, <1>6, <1>7 DEF TakeStranded, Active

\* The append puts a copy of the batch into the transcript, which is the copy from then on; refused,
\* the steers are queued again.
LEMMA SoundEdited ==
  ASSUME TypeOK, TypeOK', PumpFits, NEW m \in Requests, Sound(m), HeldOnce(m), EditTranscript
  PROVE  Sound(m)'
<1> USE DEF agentVars, sessionVars, pumpVars
<1>c. /\ Count(m, Arrived("request")) \in Nat /\ Count(m, Arrived("steered")) \in Nat
      /\ Count(m, inbox) \in Nat /\ Count(m, queued) \in Nat /\ Count(m, turn) \in Nat
      /\ Count(m, taken) \in Nat /\ Count(m, hand) \in Nat /\ Count(m, steering) \in Nat
      /\ Count(m, transcript) \in Nat
  BY CountTypes
<1>1. at = "edit" /\ UNCHANGED <<channel, hand, lost, steered, queued, sent, answer>>
  BY DEF EditTranscript
<1>2. taken \in Seq(Messages) /\ inbox \in Seq(Messages) /\ steering \in Seq(Messages) /\ transcript \in Seq(Messages)
  BY SeqMonotonic DEF TypeOK, PumpType, AgentType, Messages, Requests
<1>3. Count(m, taken) # 0 => m \in steered /\ answer[m] = "none"
  <2>1. m \in steered => Held(m) # 0 BY <1>c DEF Held
  <2> QED BY <2>1 DEF Sound, Placed, HeldOnce
<1>4. CASE steering' = taken \o steering /\ taken' = <<>> /\ KeepAll /\ transcript' = transcript
  <2>1. Count(m, steering') = Count(m, taken) + Count(m, steering) /\ Count(m, taken') = 0
    BY <1>2, <1>4, CountConcat, CountEmpty
  <2>2. at \notin {"persist", "appended", "accepted"} BY <1>1
  <2>3. Count(m, taken') + Count(m, steering') = Count(m, taken) + Count(m, steering) BY <1>c, <2>1
  <2> QED BY <1>1, <1>3, <1>4, <2>1, <2>2, <2>3, SoundKept
<1>5. CASE transcript' = transcript \o taken \o inbox /\ at' = "persist" /\ UNCHANGED <<steering, inbox, turn, taken>>
  <2>1. Count(m, transcript') = Count(m, transcript) + Count(m, taken) + Count(m, inbox)
    <3>1. Count(m, transcript \o taken) = Count(m, transcript) + Count(m, taken) BY <1>2, CountConcat
    <3> DEFINE tt == transcript \o taken
    <3>2. tt \in Seq(Messages) BY <1>2
    <3> HIDE DEF tt
    <3>3. Count(m, tt \o inbox) = Count(m, tt) + Count(m, inbox) BY <1>2, <3>2, CountConcat
    <3> QED BY <1>5, <3>1, <3>3 DEF tt
  <2>2. Arrived("request")' = Arrived("request") BY <1>1 DEF Arrived
  <2>3. Copies(m) = Count(m, Arrived("request")) + Count(m, inbox) + Count(m, taken) + Count(m, turn)
           + Count(m, hand) + Count(m, steering) + Count(m, transcript) + (IF m \in lost THEN 1 ELSE 0)
    BY <1>1, CopiesAtRest
  <2>4. Copies(m)' = Count(m, Arrived("request")) + Count(m, turn)
           + Count(m, hand) + Count(m, steering) + Count(m, transcript') + (IF m \in lost THEN 1 ELSE 0)
    BY <1>c, <1>1, <1>5, <2>2, CopiesCountNext
  <2>5. Copies(m)' = Copies(m) BY <1>c, <2>1, <2>3, <2>4
  <2>6. Accounted(m)' BY <1>1, <2>5 DEF Sound, Accounted
  <2>7. Placed(m)' BY <1>c, <1>1, <1>5, <2>1 DEF Sound, Placed
  <2>9. Count(m, inbox) # 0 => answer[m] = "none"
    <3>1. Count(m, inbox) # 0 => Held(m) # 0
      <4> DEFINE n == IF m \in steered THEN 1 ELSE 0
      <4>1. n \in Nat OBVIOUS
      <4>2. Held(m) = Count(m, Arrived("request")) + Count(m, Arrived("steered")) + Count(m, inbox)
                      + n + Count(m, queued) + Count(m, turn)
        BY DEF Held
      <4> HIDE DEF n
      <4>3. Held(m) >= Count(m, inbox) BY <1>c, <4>1, <4>2
      <4> QED BY <1>c, <4>3
    <3> QED BY <3>1 DEF HeldOnce
  <2>10. answer[m] # "none" => Count(m, transcript') = Count(m, transcript)
    BY <1>c, <1>3, <2>1, <2>9
  <2>8. Truthful(m)' BY <1>c, <1>1, <1>5, <2>1, <2>10 DEF Sound, Truthful, Delivered
  <2> QED BY <2>6, <2>7, <2>8 DEF Sound
<1> QED BY <1>4, <1>5 DEF EditTranscript

\* The batch is on the file: the copies are where they were.
LEMMA SoundPersist ==
  ASSUME TypeOK, TypeOK', NEW m \in Requests, Sound(m), Persist
  PROVE  Sound(m)'
<1>1. at = "persist" /\ at' = "appended"
      /\ UNCHANGED <<channel, inbox, taken, turn, hand, steering, transcript, lost, steered, sent, answer>>
  BY DEF Persist, agentVars
<1>2. Copies(m)' = Copies(m) BY <1>1 DEF Copies, Arrived
<1>3. Accounted(m)' BY <1>1, <1>2 DEF Sound, Accounted
<1>4. Placed(m)' BY <1>1 DEF Sound, Placed
<1>5. Truthful(m)' BY <1>1 DEF Sound, Truthful, Delivered
<1> QED BY <1>3, <1>4, <1>5 DEF Sound

\* What is accepted after the append is in the transcript, or is a steer that a run has taken.
LEMMA SoundAppended ==
  ASSUME TypeOK, TypeOK', PumpFits, NEW m \in Requests, Sound(m), HeldOnce(m), Appended
  PROVE  Sound(m)'
<1> USE DEF agentVars, sessionVars, pumpVars
<1>c. /\ Count(m, Arrived("request")) \in Nat /\ Count(m, Arrived("steered")) \in Nat
      /\ Count(m, inbox) \in Nat /\ Count(m, queued) \in Nat /\ Count(m, turn) \in Nat
      /\ Count(m, taken) \in Nat /\ Count(m, hand) \in Nat /\ Count(m, steering) \in Nat
      /\ Count(m, transcript) \in Nat
  BY CountTypes
<1>1. /\ at = "appended" /\ at' = "offer" /\ inbox' = <<>> /\ taken' = <<>> /\ steered' = {}
      /\ UNCHANGED <<channel, turn, hand, steering, transcript, lost, sent>>
      /\ Answer(ToSet(inbox) \cup steered, "accepted")
  BY DEF Appended
<1>2. Arrived("request")' = Arrived("request") BY <1>1 DEF Arrived
<1>3. Copies(m) = Count(m, Arrived("request")) + Count(m, turn)
           + Count(m, hand) + Count(m, steering) + Count(m, transcript) + (IF m \in lost THEN 1 ELSE 0)
  BY <1>c, <1>1, CopiesCount
<1>4. at' \notin {"persist", "appended", "accepted"} /\ Count(m, inbox') = 0 /\ Count(m, taken') = 0
  BY <1>1, CountEmpty
<1>5. Copies(m)' = Count(m, Arrived("request")) + Count(m, inbox') + Count(m, taken') + Count(m, turn)
           + Count(m, hand) + Count(m, steering) + Count(m, transcript) + (IF m \in lost THEN 1 ELSE 0)
  BY <1>c, <1>1, <1>2, <1>4, CopiesAtRestNext
<1>6. Copies(m)' = Copies(m) BY <1>c, <1>3, <1>4, <1>5
<1>7. m \in ToSet(inbox) <=> Count(m, inbox) # 0 BY CountType DEF TypeOK, PumpType
<1>8. Placed(m)' BY <1>1, <1>4 DEF Placed
<1>9. Delivered(m)' <=> Delivered(m) BY <1>1 DEF Delivered
<1>10. Held(m) <= 1 /\ (Held(m) # 0 => sent[m] = "yes" /\ answer[m] = "none") BY DEF HeldOnce
<1>11. CASE Count(m, inbox) # 0 \/ m \in steered
  <2>1. Held(m) # 0
    <3>1. CASE m \in steered BY <1>c, <3>1 DEF Held
    <3>2. CASE m \notin steered
      <4>1. Held(m) = Count(m, Arrived("request")) + Count(m, Arrived("steered")) + Count(m, inbox)
                        + 0 + Count(m, queued) + Count(m, turn)
        BY <3>2 DEF Held
      <4>2. Count(m, inbox) > 0 BY <1>c, <1>11, <3>2
      <4> QED BY <1>c, <4>1, <4>2
    <3> QED BY <3>1, <3>2
  <2>2. sent[m] = "yes" /\ answer[m] = "none" BY <1>10, <2>1
  <2>3. answer'[m] = "accepted" BY <1>1, <1>7, <1>11 DEF Answer
  <2>4. Copies(m) = 1 BY <2>2 DEF Sound, Accounted
  <2>5. Delivered(m)
    <3>1. CASE Count(m, inbox) # 0 BY <1>1, <3>1 DEF Sound, Placed, Delivered
    <3>2. CASE m \in steered
      <4>1. Count(m, steering) = 0 BY <1>1, <3>2 DEF Sound, Placed
      <4>2. Count(m, Arrived("request")) = 0 /\ Count(m, turn) = 0 BY <1>c, <1>10, <3>2 DEF Held
      <4> QED BY <1>c, <1>3, <2>4, <4>1, <4>2 DEF Delivered
    <3> QED BY <1>11, <3>1, <3>2
  <2>6. Accounted(m)' BY <1>1, <1>6, <2>2, <2>4 DEF Accounted
  <2>7. Truthful(m)' BY <1>9, <2>3, <2>5 DEF Truthful
  <2> QED BY <1>8, <2>6, <2>7 DEF Sound
<1>12. CASE ~(Count(m, inbox) # 0 \/ m \in steered)
  <2>1. answer'[m] = answer[m] BY <1>1, <1>7, <1>12 DEF Answer
  <2>2. Accounted(m)' BY <1>1, <1>6, <2>1 DEF Sound, Accounted
  <2>3. Truthful(m)' BY <1>1, <1>9, <2>1 DEF Sound, Truthful
  <2> QED BY <1>8, <2>2, <2>3 DEF Sound
<1> QED BY <1>11, <1>12

\* What PersistFault leaves of the copies in the transcript: all but some of those it appended.
LEMMA TranscriptCut ==
  ASSUME TypeOK, NEW m, PersistFault
  PROVE  /\ Count(m, transcript') <= Count(m, transcript)
         /\ Count(m, taken) = 0 /\ Count(m, inbox) = 0 => Count(m, transcript') = Count(m, transcript)
<1> DEFINE batch == taken \o inbox
           end   == Len(transcript)
           p     == end - Len(batch)
<1>1. taken \in Seq(Messages) /\ inbox \in Seq(Messages) /\ transcript \in Seq(Messages)
  BY SeqMonotonic DEF TypeOK, PumpType, AgentType, Messages, Requests
<1>2. batch \in Seq(Messages) /\ Len(batch) \in Nat /\ end \in Nat BY <1>1
<1>3. Count(m, batch) = Count(m, taken) + Count(m, inbox) BY <1>1, CountConcat
<1>4. Count(m, taken) \in Nat /\ Count(m, inbox) \in Nat /\ Count(m, transcript) \in Nat BY CountTypes
<1>5. PICK k \in 1..Len(batch) :
        \/ /\ end >= Len(batch) /\ SubSeq(transcript, p + 1, end) = batch
           /\ transcript' = SubSeq(transcript, 1, p + k - 1)
        \/ transcript' = transcript
  BY DEF PersistFault
<1>6. CASE /\ end >= Len(batch) /\ SubSeq(transcript, p + 1, end) = batch
           /\ transcript' = SubSeq(transcript, 1, p + k - 1)
  <2> DEFINE a == SubSeq(transcript, 1, p)
             j == p + k - 1
             v == SubSeq(transcript, 1, j)
  <2>1. p \in 0..end /\ j \in 0..end /\ p <= j BY <1>2, <1>5, <1>6
  <2>2. Count(m, transcript) = Count(m, a) + Count(m, batch)
    <3> HIDE DEF batch, p
    <3> QED BY <1>1, <1>6, <2>1, CountCut
  <2>3. /\ v \in Seq(Messages) /\ SubSeq(transcript, j + 1, end) \in Seq(Messages)
        /\ Count(m, transcript) = Count(m, v) + Count(m, SubSeq(transcript, j + 1, end))
    <3> HIDE DEF j
    <3> QED BY <1>1, <2>1, CountCut
  <2>4. Len(v) = j /\ SubSeq(v, 1, p) = a
    <3>1. \A i \in 1..j : transcript[i] \in Messages BY <1>1, <2>1
    <3>2. 1 \in Int /\ j \in Int /\ j \in Nat /\ p \in Nat BY <2>1
    <3> HIDE DEF p, j
    <3>3. Len(v) = j BY <3>1, <3>2, SubSeqProperties
    <3>4. SubSeq(v, 1, p) = a
      <4>1. CASE p = 0 BY <4>1, SubSeqEmpty
      <4>2. CASE p # 0
        <5>1. p \in 1..(j - 1 + 1) /\ 1 \in 1..(j - 1 + 1) /\ j \in 1..Len(transcript) /\ 1 \in 1..Len(transcript)
          BY <1>2, <2>1, <3>2, <4>2
        <5>2. SubSeq(SubSeq(transcript, 1, j), 1, p) = SubSeq(transcript, 1 + 1 - 1, 1 + p - 1)
          BY <1>1, <5>1, SubSeqOfSubSeq
        <5>3. 1 + 1 - 1 = 1 /\ 1 + p - 1 = p BY <3>2
        <5> QED BY <5>2, <5>3
      <4> QED BY <4>1, <4>2
    <3> QED BY <3>3, <3>4
  <2>5. SubSeq(v, 1, p) \in Seq(Messages) /\ SubSeq(v, p + 1, j) \in Seq(Messages)
        /\ Count(m, v) = Count(m, a) + Count(m, SubSeq(v, p + 1, j))
    <3>1. p \in 0..Len(v) /\ v \in Seq(Messages) BY <2>1, <2>3, <2>4
    <3>2. /\ SubSeq(v, 1, p) \in Seq(Messages) /\ SubSeq(v, p + 1, Len(v)) \in Seq(Messages)
          /\ Count(m, v) = Count(m, SubSeq(v, 1, p)) + Count(m, SubSeq(v, p + 1, Len(v)))
      <4> HIDE DEF v, p, j, a
      <4> QED BY <3>1, CountCut
    <3> HIDE DEF v, p, j, a
    <3> QED BY <3>2, <2>4
  <2>6. /\ Count(m, v) \in Nat /\ Count(m, SubSeq(transcript, j + 1, end)) \in Nat
        /\ Count(m, a) \in Nat /\ Count(m, SubSeq(v, p + 1, j)) \in Nat
    BY <2>3, <2>4, <2>5, CountType
  <2>7. transcript' = v BY <1>6
  <2> HIDE DEF a, v, j, p, batch
  <2>8. Count(m, transcript') = Count(m, v) BY <2>7
  <2>9. Count(m, transcript') <= Count(m, transcript) BY <2>3, <2>6, <2>8
  <2>10. Count(m, taken) = 0 /\ Count(m, inbox) = 0 => Count(m, transcript') = Count(m, transcript)
    BY <1>3, <2>2, <2>5, <2>6, <2>8, <2>9
  <2> QED BY <2>9, <2>10
<1>7. CASE transcript' = transcript BY <1>4, <1>7
<1> QED BY <1>5, <1>6, <1>7

\* A failed append: every message handed back has left the pump, and a turn or a notice no queue has.
LEMMA SoundFault ==
  ASSUME TypeOK, TypeOK', PumpFits, NEW m \in Requests, Sound(m), HeldOnce(m), PersistFault
  PROVE  Sound(m)'
<1> USE DEF agentVars, sessionVars, pumpVars
<1>c. /\ Count(m, Arrived("request")) \in Nat /\ Count(m, Arrived("steered")) \in Nat
      /\ Count(m, inbox) \in Nat /\ Count(m, queued) \in Nat /\ Count(m, turn) \in Nat
      /\ Count(m, taken) \in Nat /\ Count(m, hand) \in Nat /\ Count(m, steering) \in Nat
      /\ Count(m, transcript) \in Nat
  BY CountTypes
<1> DEFINE S == ToSet(inbox \o turn) \cup steered
<1>1. /\ at = "persist" /\ at' = "receive" /\ inbox' = <<>> /\ taken' = <<>> /\ turn' = <<>> /\ steered' = {}
      /\ UNCHANGED <<channel, hand, steering, lost, sent>>
      /\ Answer(S, "unavailable")
  BY DEF PersistFault
<1>2. Arrived("request")' = Arrived("request") BY <1>1 DEF Arrived
<1>3. Copies(m) = Count(m, Arrived("request")) + Count(m, turn)
           + Count(m, hand) + Count(m, steering) + Count(m, transcript) + (IF m \in lost THEN 1 ELSE 0)
  BY <1>c, <1>1, CopiesCount
<1>4. /\ at' \notin {"persist", "appended", "accepted"}
      /\ Count(m, inbox') = 0 /\ Count(m, taken') = 0 /\ Count(m, turn') = 0
  BY <1>1, CountEmpty
<1>5. Copies(m)' = Count(m, Arrived("request")) + Count(m, inbox') + Count(m, taken') + Count(m, turn')
           + Count(m, hand) + Count(m, steering) + Count(m, transcript') + (IF m \in lost THEN 1 ELSE 0)
  BY <1>c, <1>1, <1>2, <1>4, CopiesAtRestNext
<1>6. Count(m, transcript') \in Nat BY CopiesCountNext
<1>7. /\ Count(m, transcript') <= Count(m, transcript)
      /\ Count(m, taken) = 0 /\ Count(m, inbox) = 0 => Count(m, transcript') = Count(m, transcript)
  BY TranscriptCut
<1>8. m \in S <=> Count(m, inbox) # 0 \/ Count(m, turn) # 0 \/ m \in steered
  <2>1. inbox \in Seq(Messages) /\ turn \in Seq(Messages)
    BY SeqMonotonic DEF TypeOK, PumpType, Messages, Requests
  <2>2. ToSet(inbox \o turn) = ToSet(inbox) \cup ToSet(turn) BY <2>1, ToSetFacts
  <2>3. (m \in ToSet(inbox) <=> Count(m, inbox) # 0) /\ (m \in ToSet(turn) <=> Count(m, turn) # 0)
    BY <2>1, CountType
  <2> QED BY <2>2, <2>3
<1> HIDE DEF S
<1>9. Placed(m)' BY <1>1, <1>4 DEF Placed
<1>10. Copies(m) <= 1 BY DEF Sound, Accounted
<1>11. CASE m \in S
  <2>1. sent[m] = "yes"
    <3>1. CASE m \in steered
      <4>1. Held(m) # 0 BY <1>c, <3>1 DEF Held
      <4> QED BY <4>1 DEF HeldOnce
    <3>2. CASE m \notin steered
      <4>1. Held(m) = Count(m, Arrived("request")) + Count(m, Arrived("steered")) + Count(m, inbox)
                        + 0 + Count(m, queued) + Count(m, turn)
        BY <3>2 DEF Held
      <4>2. Count(m, inbox) > 0 \/ Count(m, turn) > 0 BY <1>c, <1>8, <1>11, <3>2
      <4>3. Held(m) # 0 BY <1>c, <4>1, <4>2
      <4> QED BY <4>3 DEF HeldOnce
    <3> QED BY <3>1, <3>2
  <2>2. answer'[m] = "unavailable" BY <1>1, <1>11 DEF Answer
  <2>3. Copies(m)' <= 1
    <3>1. CASE m \in lost BY <1>c, <1>3, <1>4, <1>5, <1>6, <1>7, <1>10, <3>1
    <3>2. CASE m \notin lost BY <1>c, <1>3, <1>4, <1>5, <1>6, <1>7, <1>10, <3>2
    <3> QED BY <3>1, <3>2
  <2>4. Accounted(m)' BY <1>1, <2>1, <2>2, <2>3 DEF Accounted
  <2>5. Count(m, hand) = 0 /\ Count(m, steering) = 0
    <3>1. CASE m \in steered BY <1>1, <3>1 DEF Sound, Placed
    <3>2. CASE m \notin steered
      <4>1. Count(m, inbox) # 0 \/ Count(m, turn) # 0 BY <1>8, <1>11, <3>2
      <4>2. Count(m, transcript) + Count(m, turn) >= 1 BY <1>c, <1>1, <4>1 DEF Sound, Placed
      <4>3. Count(m, turn) + Count(m, hand) + Count(m, steering) + Count(m, transcript) <= 1
        <5>1. CASE m \in lost BY <1>c, <1>3, <1>10, <5>1
        <5>2. CASE m \notin lost BY <1>c, <1>3, <1>10, <5>2
        <5> QED BY <5>1, <5>2
      <4> QED BY <1>c, <4>2, <4>3
    <3> QED BY <3>1, <3>2
  <2>7. ASSUME m \in Turns PROVE Count(m, transcript') = 0 /\ m \notin lost'
    <3>1. m \notin steered /\ m \notin Notices
      BY <2>7, PumpAssumption DEF TypeOK, PumpType
    <3>2. Count(m, inbox) = 0
      <4>1. inbox \in Seq(Requests) BY DEF TypeOK, PumpType
      <4>2. m \notin ToSet(inbox) BY <1>1, <2>7 DEF PumpFits
      <4> QED BY <4>1, <4>2, CountType
    <3>3. Count(m, turn) >= 1 BY <1>c, <1>8, <1>11, <3>1, <3>2
    <3>4. Count(m, transcript) = 0 /\ m \notin lost
      <4>1. CASE m \in lost BY <1>c, <1>3, <1>10, <3>3, <4>1
      <4>2. CASE m \notin lost BY <1>c, <1>3, <1>10, <3>3, <4>2
      <4> QED BY <4>1, <4>2
    <3> QED BY <1>1, <1>6, <1>7, <3>4
  <2>6. Truthful(m)' BY <1>1, <2>2, <2>5, <2>7 DEF Truthful
  <2> QED BY <1>9, <2>4, <2>6 DEF Sound
<1>12. CASE m \notin S
  <2>1. answer'[m] = answer[m] BY <1>1, <1>12 DEF Answer
  <2>2. Count(m, inbox) = 0 /\ Count(m, turn) = 0 /\ Count(m, taken) = 0
    BY <1>8, <1>12 DEF Sound, Placed
  <2>3. Count(m, transcript') = Count(m, transcript) BY <1>7, <2>2
  <2>4. Copies(m)' = Copies(m) BY <1>c, <1>3, <1>4, <1>5, <2>2, <2>3
  <2>5. Accounted(m)' BY <1>1, <2>1, <2>4 DEF Sound, Accounted
  <2>6. Truthful(m)' BY <1>1, <2>1, <2>3 DEF Sound, Truthful, Delivered
  <2> QED BY <1>9, <2>5, <2>6 DEF Sound
<1> QED BY <1>11, <1>12

\* The turn is in the run's hand, still the pump's, or nowhere and unavailable.
LEMMA SoundStart ==
  ASSUME TypeOK, TypeOK', PumpFits, HandFits, NEW m \in Requests, Sound(m), HeldOnce(m), StartTurn
  PROVE  Sound(m)'
<1> USE DEF agentVars, sessionVars, pumpVars
<1>c. /\ Count(m, Arrived("request")) \in Nat /\ Count(m, Arrived("steered")) \in Nat
      /\ Count(m, inbox) \in Nat /\ Count(m, queued) \in Nat /\ Count(m, turn) \in Nat
      /\ Count(m, taken) \in Nat /\ Count(m, hand) \in Nat /\ Count(m, steering) \in Nat
      /\ Count(m, transcript) \in Nat
  BY CountTypes
<1>1. /\ at = "start" /\ taken = <<>>
      /\ UNCHANGED <<channel, steering, transcript, lost, sent, steered, queued, taken>>
  BY DEF StartTurn, PumpFits
<1>2. Count(m, taken) = 0 BY <1>1, CountEmpty
<1>3. Arrived("request")' = Arrived("request") BY <1>1 DEF Arrived
<1>4. Copies(m) = Count(m, Arrived("request")) + Count(m, inbox) + Count(m, taken) + Count(m, turn)
           + Count(m, hand) + Count(m, steering) + Count(m, transcript) + (IF m \in lost THEN 1 ELSE 0)
  BY <1>1, CopiesAtRest
<1>5. Count(m, turn) # 0 => sent[m] = "yes" /\ answer[m] = "none"
  <2>1. CASE m \in steered
    <3>1. Held(m) # 0 BY <1>c, <2>1 DEF Held
    <3> QED BY <3>1 DEF HeldOnce
  <2>2. CASE m \notin steered
    <3>1. Held(m) = Count(m, Arrived("request")) + Count(m, Arrived("steered")) + Count(m, inbox)
                      + 0 + Count(m, queued) + Count(m, turn)
      BY <2>2 DEF Held
    <3>2. Count(m, turn) # 0 => Held(m) # 0 BY <1>c, <3>1
    <3> QED BY <3>2 DEF HeldOnce
  <2> QED BY <2>1, <2>2
<1>6. CASE running = NoOne /\ hand' = turn /\ at' = "accepted" /\ UNCHANGED <<inbox, turn, answer>>
  <2>1. hand = <<>> BY <1>6 DEF HandFits
  <2>2. Count(m, hand) = 0 BY <2>1, CountEmpty
  <2>3. Count(m, hand') = Count(m, turn) BY <1>6
  <2>4. Copies(m)' = Count(m, Arrived("request")) + Count(m, inbox) + Count(m, taken)
           + Count(m, hand') + Count(m, steering) + Count(m, transcript) + (IF m \in lost THEN 1 ELSE 0)
    BY <1>c, <1>1, <1>3, <1>6, <2>3, CopiesCountNext
  <2>5. Copies(m)' = Copies(m) BY <1>c, <1>4, <2>2, <2>3, <2>4
  <2>6. Accounted(m)' BY <1>1, <1>6, <2>5 DEF Sound, Accounted
  <2>7. Placed(m)' BY <1>1, <1>2, <1>6, <2>3 DEF Placed, Delivered
  <2>8. Truthful(m)' BY <1>1, <1>5, <1>6, <2>2, <2>3 DEF Sound, Truthful, Delivered
  <2> QED BY <2>6, <2>7, <2>8 DEF Sound
<1>7. CASE KeepAll /\ UNCHANGED <<hand, answer>>
  <2>1. at \notin {"persist", "appended", "accepted"} BY <1>1
  <2>2. Count(m, taken') = 0 /\ Count(m, taken') + Count(m, steering') = Count(m, taken) + Count(m, steering)
    BY <1>1, <1>2
  <2> QED BY <1>1, <1>2, <1>7, <2>1, <2>2, SoundKept
<1>8. CASE Answer(ToSet(turn), "unavailable") /\ turn' = <<>> /\ at' = "receive" /\ UNCHANGED <<hand, inbox>>
  <2>1. at' \notin {"persist", "appended", "accepted"} /\ Count(m, turn') = 0 BY <1>8, CountEmpty
  <2>2. Copies(m)' = Count(m, Arrived("request")) + Count(m, inbox) + Count(m, taken) + Count(m, turn')
           + Count(m, hand) + Count(m, steering) + Count(m, transcript) + (IF m \in lost THEN 1 ELSE 0)
    BY <1>c, <1>1, <1>3, <1>8, <2>1, CopiesAtRestNext
  <2>3. m \in ToSet(turn) <=> Count(m, turn) # 0 BY CountType DEF TypeOK, PumpType
  <2>4. Placed(m)' BY <1>1, <1>2, <1>8 DEF Placed
  <2>5. Copies(m) <= 1 BY DEF Sound, Accounted
  <2>6. CASE Count(m, turn) # 0
    <3>1. answer'[m] = "unavailable" BY <1>8, <2>3, <2>6 DEF Answer
    <3>2. /\ Copies(m)' <= 1 /\ Count(m, hand) = 0 /\ Count(m, steering) = 0
          /\ Count(m, transcript) = 0 /\ m \notin lost
      <4> DEFINE gone == IF m \in lost THEN 1 ELSE 0
      <4>1. gone \in Nat /\ (m \in lost => gone = 1) OBVIOUS
      <4>2. /\ Copies(m) = Count(m, Arrived("request")) + Count(m, inbox) + Count(m, taken) + Count(m, turn)
                           + Count(m, hand) + Count(m, steering) + Count(m, transcript) + gone
            /\ Copies(m)' = Count(m, Arrived("request")) + Count(m, inbox) + Count(m, taken) + Count(m, turn')
                           + Count(m, hand) + Count(m, steering) + Count(m, transcript) + gone
        BY <1>4, <2>2
      <4> HIDE DEF gone
      <4> QED BY <1>c, <1>2, <2>1, <2>5, <2>6, <4>1, <4>2
    <3>3. Accounted(m)' BY <1>1, <1>5, <2>6, <3>1, <3>2 DEF Accounted
    <3>4. Truthful(m)' BY <1>1, <1>8, <3>1, <3>2 DEF Truthful
    <3> QED BY <2>4, <3>3, <3>4 DEF Sound
  <2>7. CASE Count(m, turn) = 0
    <3>1. answer'[m] = answer[m] BY <1>8, <2>3, <2>7 DEF Answer
    <3>2. Copies(m)' = Copies(m) BY <1>c, <1>4, <2>1, <2>2, <2>7
    <3>3. Accounted(m)' BY <1>1, <3>1, <3>2 DEF Sound, Accounted
    <3>4. Truthful(m)' BY <1>1, <1>8, <3>1 DEF Sound, Truthful, Delivered
    <3> QED BY <2>4, <3>3, <3>4 DEF Sound
  <2> QED BY <2>6, <2>7
<1> QED BY <1>6, <1>7, <1>8 DEF StartTurn, StartRun

\* What the pump acknowledges after starting a run has been delivered to it.
LEMMA SoundAccepted ==
  ASSUME TypeOK, TypeOK', PumpFits, NEW m \in Requests, Sound(m), HeldOnce(m), Accepted
  PROVE  Sound(m)'
<1> USE DEF agentVars, sessionVars, pumpVars
<1>c. /\ Count(m, Arrived("request")) \in Nat /\ Count(m, Arrived("steered")) \in Nat
      /\ Count(m, inbox) \in Nat /\ Count(m, queued) \in Nat /\ Count(m, turn) \in Nat
      /\ Count(m, taken) \in Nat /\ Count(m, hand) \in Nat /\ Count(m, steering) \in Nat
      /\ Count(m, transcript) \in Nat
  BY CountTypes
<1>1. /\ at = "accepted" /\ at' = "receive" /\ turn' = <<>> /\ taken = <<>>
      /\ UNCHANGED <<channel, inbox, taken, steered, hand, steering, transcript, lost, sent>>
      /\ Answer(ToSet(turn), "accepted")
  BY DEF Accepted, PumpFits
<1>2. Arrived("request")' = Arrived("request") BY <1>1 DEF Arrived
<1>3. Copies(m) = Count(m, Arrived("request")) + Count(m, inbox) + Count(m, taken)
           + Count(m, hand) + Count(m, steering) + Count(m, transcript) + (IF m \in lost THEN 1 ELSE 0)
  BY <1>c, <1>1, CopiesCount
<1>4. at' \notin {"persist", "appended", "accepted"} /\ Count(m, turn') = 0 /\ Count(m, taken) = 0
  BY <1>1, CountEmpty
<1>5. Copies(m)' = Count(m, Arrived("request")) + Count(m, inbox) + Count(m, taken) + Count(m, turn')
           + Count(m, hand) + Count(m, steering) + Count(m, transcript) + (IF m \in lost THEN 1 ELSE 0)
  BY <1>c, <1>1, <1>2, <1>4, CopiesAtRestNext
<1>6. Copies(m)' = Copies(m) BY <1>c, <1>3, <1>4, <1>5
<1>7. m \in ToSet(turn) <=> Count(m, turn) # 0 BY CountType DEF TypeOK, PumpType
<1>8. Placed(m)' BY <1>1, <1>4 DEF Placed
<1>9. Delivered(m)' <=> Delivered(m) BY <1>1 DEF Delivered
<1>10. CASE Count(m, turn) # 0
  <2>1. sent[m] = "yes" /\ answer[m] = "none"
    <3>1. CASE m \in steered
      <4>1. Held(m) # 0 BY <1>c, <3>1 DEF Held
      <4> QED BY <4>1 DEF HeldOnce
    <3>2. CASE m \notin steered
      <4>1. Held(m) = Count(m, Arrived("request")) + Count(m, Arrived("steered")) + Count(m, inbox)
                        + 0 + Count(m, queued) + Count(m, turn)
        BY <3>2 DEF Held
      <4>2. Held(m) # 0 BY <1>c, <1>10, <4>1
      <4> QED BY <4>2 DEF HeldOnce
    <3> QED BY <3>1, <3>2
  <2>2. answer'[m] = "accepted" BY <1>1, <1>7, <1>10 DEF Answer
  <2>3. Accounted(m)' BY <1>1, <1>6, <2>1, <2>2 DEF Sound, Accounted
  <2>4. Delivered(m) BY <1>1, <1>10 DEF Sound, Placed
  <2>5. Truthful(m)' BY <1>9, <2>2, <2>4 DEF Truthful
  <2> QED BY <1>8, <2>3, <2>5 DEF Sound
<1>11. CASE Count(m, turn) = 0
  <2>1. answer'[m] = answer[m] BY <1>1, <1>7, <1>11 DEF Answer
  <2>2. Accounted(m)' BY <1>1, <1>6, <2>1 DEF Sound, Accounted
  <2>3. Truthful(m)' BY <1>1, <1>9, <2>1 DEF Sound, Truthful
  <2> QED BY <1>8, <2>2, <2>3 DEF Sound
<1> QED BY <1>10, <1>11

\* Every step of the pump keeps the messages sound.
LEMMA SoundPump ==
  ASSUME TypeOK, TypeOK', PumpFits, HandFits, NEW m \in Requests, Sound(m), HeldOnce(m), Pump
  PROVE  Sound(m)'
<1> USE DEF agentVars, sessionVars, pumpVars
<1>1. CASE Receive \/ WakeItem \/ DrainAgain
  <2>1. /\ DrainReady /\ {at, at'} \cap {"edit", "persist", "appended", "accepted"} = {}
        /\ UNCHANGED <<taken, turn, hand, steering, transcript, lost, queued, sent, answer>>
    BY <1>1 DEF Receive, WakeItem, DrainAgain
  <2> QED BY <2>1, SoundDrained
<1>2. CASE CheckSteers \/ CheckTurns \/ LookIdle \/ WakeIdle \/ OfferTurn
  <2>1. /\ UNCHANGED <<channel, inbox, taken, turn, hand, steering, transcript, lost, steered, sent, answer>>
        /\ {at, at'} \cap {"edit", "persist", "appended", "accepted"} = {}
    BY <1>2 DEF CheckSteers, CheckTurns, LookIdle, WakeIdle, OfferTurn
  <2> QED BY <2>1, SoundSame
<1>3. CASE SettleQueued BY <1>3, SoundSettled
<1>4. CASE PushSteers \/ Requeue \/ PushTurn \/ SplitInbox BY <1>4, SoundTurns
<1>5. CASE TakeStranded BY <1>5, SoundTaken
<1>6. CASE EditTranscript BY <1>6, SoundEdited
<1>7. CASE Persist BY <1>7, SoundPersist
<1>8. CASE PersistFault BY <1>8, SoundFault
<1>9. CASE Appended BY <1>9, SoundAppended
<1>10. CASE StartTurn BY <1>10, SoundStart
<1>11. CASE Accepted BY <1>11, SoundAccepted
<1> QED BY <1>1, <1>2, <1>3, <1>4, <1>5, <1>6, <1>7, <1>8, <1>9, <1>10, <1>11 DEF Pump

-----------------------------------------------------------------------------
(* The theorems. *)

\* The inductive invariant.
PumpInv ==
  /\ TypeOK /\ HandFits /\ PumpFits /\ OnlyPromptsQueue
  /\ \A m \in Requests : HeldOnce(m) /\ Sound(m)

\* The invariant holds at the start ...
LEMMA InitInv == PumpInit => PumpInv
<1> SUFFICES ASSUME PumpInit PROVE PumpInv OBVIOUS
<1>1. TypeOK /\ HandFits /\ PumpFits /\ OnlyPromptsQueue BY InitTypes
<1>2. ASSUME NEW m \in Requests PROVE HeldOnce(m) /\ Sound(m)
  <2>1. /\ channel = <<>> /\ inbox = <<>> /\ queued = <<>> /\ turn = <<>> /\ taken = <<>> /\ steered = {}
        /\ hand = <<>> /\ steering = <<>> /\ transcript = <<>> /\ lost = {}
        /\ at = "receive" /\ answer[m] = "none" /\ sent[m] \in {"no", "never"}
    BY <1>2 DEF PumpInit
  <2>2. Arrived("request") = <<>> /\ Arrived("steered") = <<>> BY <2>1, ArrivedNothing
  <2>3. Count(m, <<>>) = 0 BY CountEmpty
  <2>4. Held(m) = 0 BY <2>1, <2>2, <2>3 DEF Held
  <2>5. Copies(m) = 0 BY <1>1, <2>1, <2>2, <2>3, CopiesAtRest
  <2>6. HeldOnce(m) BY <2>1, <2>4 DEF HeldOnce
  <2>7. Accounted(m) BY <2>1, <2>5 DEF Accounted
  <2>8. Placed(m) /\ Truthful(m) BY <2>1, <2>3 DEF Placed, Truthful
  <2> QED BY <2>6, <2>7, <2>8 DEF Sound
<1> QED BY <1>1, <1>2 DEF PumpInv

\* ... and every step keeps it.
LEMMA StepInv == PumpInv /\ [PumpNext]_vars => PumpInv'
<1> SUFFICES ASSUME PumpInv, [PumpNext]_vars PROVE PumpInv' OBVIOUS
<1>0. TypeOK /\ HandFits /\ PumpFits /\ OnlyPromptsQueue /\ \A m \in Requests : HeldOnce(m) /\ Sound(m)
  BY DEF PumpInv
<1>1. CASE PumpNext
  <2>1. TypeOK' BY <1>0, <1>1, StepTypes
  <2>2. HandFits' /\ PumpFits' /\ OnlyPromptsQueue' BY <1>0, <1>1, StepFits
  <2>3. ASSUME NEW m \in Requests PROVE HeldOnce(m)' BY <1>0, <1>1, <2>3, StepHeld
  <2>4. ASSUME NEW m \in Requests PROVE Sound(m)'
    <3>0. Sound(m) /\ HeldOnce(m) BY <1>0, <2>4
    <3>1. CASE \E r \in Requests : Inject(r) BY <1>0, <2>1, <3>0, <3>1, SoundProducers
    <3>2. CASE \E r \in Steers : SeeRun(r) \/ Produce(r)
      <4>1. PICK r \in Requests : r \in Steers /\ (SeeRun(r) \/ SteerNow(r) \/ TellPump(r))
        BY <3>2 DEF Produce, Requests
      <4> QED BY <1>0, <2>1, <3>0, <4>1, SoundProducers
    <3>3. CASE ClearQueue \/ Run \/ (\E d \in Drivers : Drive(d)) \/ (\E p \in Prompts : Submit(p))
      BY <1>0, <3>0, <3>3, SoundAgent
    <3>4. CASE Pump BY <1>0, <2>1, <3>0, <3>4, SoundPump
    <3> QED BY <1>1, <3>1, <3>2, <3>3, <3>4 DEF PumpNext
  <2> QED BY <2>1, <2>2, <2>3, <2>4 DEF PumpInv
<1>2. CASE UNCHANGED vars
  <2> USE <1>2 DEF vars, agentVars, sessionVars, pumpVars
  <2>1. TypeOK' BY <1>0 DEF TypeOK, AgentType, SessionType, PumpType
  <2>2. HandFits' /\ PumpFits' /\ OnlyPromptsQueue' BY <1>0 DEF HandFits, PumpFits, OnlyPromptsQueue
  <2>3. ASSUME NEW m \in Requests PROVE HeldOnce(m)' /\ Sound(m)'
    <3>1. Held(m)' = Held(m) BY HeldSame
    <3>2. HeldOnce(m)' BY <1>0, <2>3, <3>1 DEF HeldOnce
    <3>3. Sound(m) BY <1>0, <2>3
    <3>4. UNCHANGED <<channel, inbox, taken, turn, hand, steering, transcript, lost, steered, sent, answer>> /\ at' = at
      OBVIOUS
    <3>5. Sound(m)' BY <3>3, <3>4, SoundSame
    <3> QED BY <3>2, <3>5
  <2> QED BY <2>1, <2>2, <2>3 DEF PumpInv
<1> QED BY <1>1, <1>2

\* The inductive invariant, types included, holds of every behaviour.
THEOREM PumpInvariant == Spec => []PumpInv
BY InitInv, StepInv, PTL DEF Spec

\* Whatever runs end, prompts claim, queues are cleared and appends are refused or fail in between:
\* an injected message is never in two places (session/mod.rs: "never lost, never delivered
\* twice"), and until it is reported unavailable it is in one.
THEOREM OneCopyOfEach == Spec => []OneCopy
<1>1. PumpInv => OneCopy BY DEF PumpInv, OneCopy, Sound, Accounted
<1> QED BY <1>1, PumpInvariant, PTL

\* An accepted message has reached a run or the transcript, or was in a queue that the user
\* emptied; one reported unavailable is neither queued nor in a run's hand, and if it is a turn it
\* has not been delivered at all (InjectOutcome).
THEOREM AcknowledgementsAreTrue == Spec => []AnswersAreTrue
<1>1. ASSUME PumpInv PROVE AnswersAreTrue
  <2> SUFFICES ASSUME NEW m \in Requests
               PROVE  /\ answer[m] = "accepted" => m \in ToSet(hand \o transcript) \cup lost
                      /\ answer[m] = "unavailable" => m \notin ToSet(hand \o steering)
                      /\ answer[m] = "unavailable" /\ m \in Turns => m \notin ToSet(transcript) \cup lost
    BY DEF AnswersAreTrue
  <2>1. TypeOK /\ Truthful(m) BY <1>1 DEF PumpInv, Sound
  <2>2. hand \in Seq(Messages) /\ steering \in Seq(Messages) /\ transcript \in Seq(Messages)
    BY <2>1 DEF TypeOK, AgentType
  <2>3. /\ ToSet(hand \o transcript) = ToSet(hand) \cup ToSet(transcript)
        /\ ToSet(hand \o steering) = ToSet(hand) \cup ToSet(steering)
    BY <2>2, ToSetFacts
  <2>4. /\ Count(m, hand) = 0 <=> m \notin ToSet(hand)
        /\ Count(m, steering) = 0 <=> m \notin ToSet(steering)
        /\ Count(m, transcript) = 0 <=> m \notin ToSet(transcript)
    BY <2>2, CountType
  <2> QED BY <2>1, <2>3, <2>4 DEF Truthful, Delivered
<1> QED BY <1>1, PumpInvariant, PTL
=============================================================================
