---------------------------- MODULE AgentLoopProofs ----------------------------
(***************************************************************************)
(* Proofs about AgentLoop, for every bound: type correctness, the nesting  *)
(* of the events subscribers see, that a run which ends of itself leaves   *)
(* nothing behind, and the flow of messages: what the queues were given is *)
(* delivered once and in order, a request shows what subscribers saw, and  *)
(* a later turn has a reason.  The invariants are read off the control     *)
(* point: what is open, what a turn owes, what the last polls found and    *)
(* where a drained message is held are facts of where the run task is      *)
(* suspended, and each action carries them from its point to the next.     *)
(***************************************************************************)
EXTENDS AgentLoop, SeqFilterProofs

-----------------------------------------------------------------------------
(* The strengthenings. *)

\* Points between turns and points of a turn at which no message is open.
Between == {"start", "firstTurn", "prepare", "poll", "pollFollowUp", "agentEnd", "done"}
Silent  == {"prompts", "queued", "enter", "request", "transform", "owed", "tools",
            "finish", "turnEnd"}
Telling == {"promptsEnd", "queuedEnd", "stream", "close", "toolsEnd"}

FailureIsUnwinding ==
  /\ failed => pc \in {"failing", "failEnd", "done"}
  /\ pc \in {"failing", "failEnd"} => failed

OpenByPoint ==
  /\ pc \in Between => ~turnOpen /\ open = NoMsg
  /\ pc \in Silent => turnOpen /\ open = NoMsg
  /\ pc \in Telling => turnOpen
  /\ pc = "failEnd" => open = NoMsg

EndsByPoint ==
  /\ pc \notin {"done", "failing", "failEnd"} => ended = 0
  /\ pc \in {"failing", "failEnd"} => ended \in {0, 1}
  /\ pc = "done" => ended \in IF failed THEN {1, 2} ELSE {1}

NestInv == FailureIsUnwinding /\ OpenByPoint /\ EndsByPoint

\* The message that is open is the one its point speaks of ...
AnswerIsOpen ==
  /\ pc = "stream" => open \in {NoMsg, Msg("assistant")}
  /\ pc = "close" => open = Msg("assistant")
  /\ pc = "toolsEnd" => open.kind \in {"result", "finalResult"}

\* ... has_more_tools says whether the turn left results to answer ...
ToolsAreOwed == pc \in {"finish", "turnEnd", "poll"} => (wantTools <=> OwesResults)

\* ... and what the polls after a turn have established when the run moves on.
PollsAreFor ==
  /\ pc \in {"poll", "pollFollowUp"} => ~HardExit /\ decision # "end"
  /\ pc = "pollFollowUp" =>
       /\ ~OwesResults
       /\ Len(steering) <= late.steer
       /\ explicit <=> decision = "continue"

IdleInv == AnswerIsOpen /\ ToolsAreOwed /\ PollsAreFor /\ EndsOnlyWhenIdle

-----------------------------------------------------------------------------
(* Sequences. *)

\* A drained batch and what it leaves are made of the queue's messages.
LEMMA BatchType ==
  ASSUME NEW q \in Seq(Message)
  PROVE  Batch(q) \in Seq(Message) /\ Remainder(q) \in Seq(Message)
BY HeadTailProperties, EmptySeq DEF Batch, Remainder

\* A poll that finds nothing leaves an empty queue.
LEMMA EmptyBatch ==
  ASSUME NEW q \in Seq(Message), Batch(q) = <<>>
  PROVE  Remainder(q) = <<>>
BY DEF Batch, Remainder

\* The messages queued before the run began are messages.
LEMMA QueuedType ==
  ASSUME NEW kind \in Kinds, NEW n \in Nat
  PROVE  Queued(kind, 0, n) \in Seq(Message)
<1>1. \A i \in 1..n : [kind |-> kind, n |-> 0 + i] \in Message
  BY DEF Message
<1>2. Queued(kind, 0, n) = [i \in 1..n |-> [kind |-> kind, n |-> 0 + i]]
  BY DEF Queued
<1>. QED  BY <1>1, <1>2

\* What was appended is last.
LEMMA LastAppend ==
  ASSUME NEW q \in Seq(Message), NEW m \in Message
  PROVE  Append(q, m) # <<>> /\ Last(Append(q, m)) = m
BY AppendProperties DEF Last

LEMMA MsgType == \A kind \in Kinds : Msg(kind) \in Message
BY DEF Msg, Message

-----------------------------------------------------------------------------
(* Type correctness. *)

LEMMA InitType == Init => TypeOK
<1>. SUFFICES ASSUME Init PROVE TypeOK
  OBVIOUS
<1>. PICK q \in 0..MaxSteer, f \in 0..MaxFollowUp :
       /\ sent = [steer |-> q, follow |-> f]
       /\ \/ /\ entry \in {"fresh", "resume"}
             /\ inject = IF entry = "fresh" THEN <<Msg("prompt")>> ELSE <<>>
             /\ steering = Queued("steer", 0, q)
             /\ followUp = Queued("follow", 0, f)
          \/ /\ entry = "steeringDrain"
             /\ inject = Batch(Queued("steer", 0, q))
             /\ steering = Remainder(Queued("steer", 0, q))
             /\ followUp = Queued("follow", 0, f)
          \/ /\ entry = "followUpDrain"
             /\ inject = Batch(Queued("follow", 0, f))
             /\ steering = <<>>
             /\ followUp = Remainder(Queued("follow", 0, f))
  BY DEF Init
<1>1. q \in Nat /\ f \in Nat
  BY BoundsAssumption
<1>2. Queued("steer", 0, q) \in Seq(Message) /\ Queued("follow", 0, f) \in Seq(Message)
  BY <1>1, QueuedType DEF Kinds
<1>3. Msg("prompt") \in Message
  BY MsgType DEF Kinds
<1>. DEFINE steers  == Queued("steer", 0, q)
            follows == Queued("follow", 0, f)
<1>4. {steering, followUp, inject} \subseteq Seq(Message)
  <2>. HIDE DEF steers, follows
  <2>1. /\ {Batch(steers), Remainder(steers)} \subseteq Seq(Message)
        /\ {Batch(follows), Remainder(follows)} \subseteq Seq(Message)
    BY <1>2, BatchType DEF steers, follows
  <2>2. <<Msg("prompt")>> \in Seq(Message) /\ <<>> \in Seq(Message)
    BY <1>3, EmptySeq
  <2>3. steering \in {steers, Remainder(steers), <<>>}
    BY DEF steers
  <2>4. followUp \in {follows, Remainder(follows)}
    BY DEF follows
  <2>5. inject \in {<<Msg("prompt")>>, <<>>, Batch(steers), Batch(follows)}
    BY DEF steers, follows
  <2>6. steers \in Seq(Message) /\ follows \in Seq(Message)
    BY <1>2 DEF steers, follows
  <2>. QED  BY ONLY <2>1, <2>2, <2>3, <2>4, <2>5, <2>6
<1>5. {sent, late} \subseteq [steer : Nat, follow : Nat]
  BY <1>1 DEF Init
<1>6. {pending, observed, messages, fresh} \subseteq Seq(Message)
  BY EmptySeq DEF Init
<1>7. entry \in {"fresh", "resume", "steeringDrain", "followUpDrain"}
  OBVIOUS
<1>. QED  BY <1>4, <1>5, <1>6, <1>7 DEF Init, TypeOK, Points, Stops, Decisions

(* What the emission helpers do to the types. *)

LEMMA ConcludeType ==
  ASSUME TypeOK, NEW ok \in BOOLEAN, open \in Message, Conclude(ok)
  PROVE  /\ open' \in Message \cup {NoMsg}
         /\ {observed', messages', fresh'} \subseteq Seq(Message)
         /\ {since', updates'} \subseteq Nat
BY AppendProperties DEF Conclude, TypeOK

LEMMA UpdateType ==
  ASSUME TypeOK, NEW updated \in BOOLEAN, NEW replaced \in BOOLEAN, Update(updated, replaced)
  PROVE  /\ open' \in Message \cup {NoMsg}
         /\ {observed', messages', fresh'} \subseteq Seq(Message)
         /\ {since', updates'} \subseteq Nat
<1>1. Msg("context") \in Message
  BY MsgType DEF Kinds
<1>2. Len(observed) \in Nat
  BY LenProperties DEF TypeOK
<1>. QED  BY <1>1, <1>2, SMTT(30) DEF Update, TypeOK

LEMMA OpenTurnType ==
  ASSUME TypeOK, OpenTurn
  PROVE  /\ turnOpen' \in BOOLEAN
         /\ {ended', mark'} \subseteq Nat
         /\ late' \in [steer : Nat, follow : Nat]
BY LenProperties DEF OpenTurn, TypeOK

(* At these points a message is in hand: types alone do not say so, and the messages the
   next steps append are typed by it. *)
HeldByPoint ==
  /\ pc \in {"prompts", "promptsEnd", "queued", "queuedEnd"} => inject # <<>>
  /\ pc \in {"promptsEnd", "queuedEnd", "close", "toolsEnd"} => open \in Message

TypeInv == TypeOK /\ HeldByPoint

LEMMA TypeStep == TypeInv /\ [Next]_vars => TypeInv'
<1>. SUFFICES ASSUME TypeInv, [Next]_vars PROVE TypeInv'
  OBVIOUS
<1>. USE DEF TypeInv
<1>1. ASSUME NEW ok \in BOOLEAN, EmitAgentStart(ok)
      PROVE  TypeInv'
  BY <1>1
  DEF EmitAgentStart, Then, TypeOK, HeldByPoint, Points, clientVars, queueVars, logVars,
      turnVars, eventVars
<1>2. ASSUME NEW ok \in BOOLEAN, EmitFirstTurnStart(ok)
      PROVE  TypeInv'
  BY <1>2
  DEF EmitFirstTurnStart, Then, OpenTurn, TypeOK, HeldByPoint, Points, clientVars, queueVars,
      logVars, turnVars, eventVars
<1>3. ASSUME NEW ok \in BOOLEAN, OpenInjected(ok)
      PROVE  TypeInv'
  BY <1>3
  DEF OpenInjected, Then, Announce, TypeOK, HeldByPoint, Points, clientVars, queueVars,
      logVars, turnVars, eventVars
<1>4. ASSUME NEW ok \in BOOLEAN, CloseInjected(ok)
      PROVE  TypeInv'
  <2>1. /\ open' \in Message \cup {NoMsg}
        /\ {observed', messages', fresh'} \subseteq Seq(Message)
        /\ {since', updates'} \subseteq Nat
    BY <1>4, ConcludeType DEF CloseInjected, HeldByPoint
  <2>2. inject # <<>> /\ inject \in Seq(Message) /\ inject' = Tail(inject)
    BY <1>4 DEF CloseInjected, HeldByPoint, TypeOK
  <2>3. inject' \in Seq(Message)
    BY <2>2, HeadTailProperties
  <2>4. /\ pc' \in {"prompts", "enter", "queued", "request", "failing"} /\ failed' \in BOOLEAN
        /\ pc' \in {"prompts", "queued"} => inject' # <<>>
    BY <1>4 DEF CloseInjected, Then
  <2>5. UNCHANGED <<entry, drainAll, clientVars, pending, turnVars, eventVars>>
    BY <1>4 DEF CloseInjected
  <2>. QED
    BY ONLY TypeInv, <2>1, <2>3, <2>4, <2>5
    DEF TypeInv, TypeOK, HeldByPoint, Points, clientVars, queueVars, logVars, turnVars,
        eventVars
<1>5. ASSUME InitialPoll PROVE TypeInv'
  <2>1. steering \in Seq(Message)
    BY DEF TypeOK
  <2>2. {steering', inject'} \subseteq Seq(Message)
    BY <1>5, <2>1, BatchType, EmptySeq DEF InitialPoll
  <2>. QED
    BY ONLY TypeInv, <1>5, <2>2
    DEF TypeInv, InitialPoll, TypeOK, HeldByPoint, Points, clientVars, queueVars, logVars,
        turnVars, eventVars
<1>6. ASSUME NEW u \in Updates, NEW ok \in BOOLEAN, PrepareTurn(u[1], u[2], ok)
      PROVE  TypeInv'
  <2>1. u[1] \in Seq(Message) /\ u[2] \in BOOLEAN
    <3>1. u = <<<<>>, FALSE>> \/ u = <<<<Msg("prepared")>>, TRUE>>
      BY DEF Updates
    <3>2. <<Msg("prepared")>> \in Seq(Message) /\ <<>> \in Seq(Message)
      BY MsgType, EmptySeq DEF Kinds
    <3>3. CASE u = <<<<>>, FALSE>>
      <4>1. u[1] = <<>> /\ u[2] = FALSE
        BY <3>3
      <4>. QED  BY <4>1, <3>2
    <3>4. CASE u = <<<<Msg("prepared")>>, TRUE>>
      <4>1. u[1] = <<Msg("prepared")>> /\ u[2] = TRUE
        BY <3>4
      <4>. QED  BY <4>1, <3>2
    <3>. QED  BY <3>1, <3>3, <3>4
  <2>2. {steering, pending} \subseteq Seq(Message)
    BY DEF TypeOK
  <2>3. {Batch(steering), Remainder(steering)} \subseteq Seq(Message)
    BY <2>2, BatchType
  <2>4. PICK batch \in {Batch(steering), pending} : inject' = u[1] \o batch
    BY <1>6 DEF PrepareTurn
  <2>5. inject' \in Seq(Message)
    BY ONLY <2>1, <2>2, <2>3, <2>4, ConcatProperties
  <2>6. steering' \in Seq(Message) /\ pending' \in Seq(Message)
    BY <1>6, <2>2, <2>3, EmptySeq DEF PrepareTurn
  <2>7. /\ open' \in Message \cup {NoMsg}
        /\ {observed', messages', fresh'} \subseteq Seq(Message)
        /\ {since', updates'} \subseteq Nat
    BY <1>6, <2>1, UpdateType DEF PrepareTurn
  <2>8. /\ turnOpen' \in BOOLEAN
        /\ {ended', mark'} \subseteq Nat
        /\ late' \in [steer : Nat, follow : Nat]
    BY <1>6, OpenTurnType DEF PrepareTurn
  <2>9. /\ pc' \in {"request", "queued", "failing"} /\ failed' \in BOOLEAN
        /\ pc' = "queued" => inject' # <<>>
    BY <1>6 DEF PrepareTurn, Then
  <2>10. /\ UNCHANGED <<entry, drainAll, followUp, aborted, sent, wantTools, explicit>>
         /\ reply' = "none" /\ decision' = "none"
    BY <1>6 DEF PrepareTurn
  <2>. QED
    BY ONLY TypeInv, <2>5, <2>6, <2>7, <2>8, <2>9, <2>10
    DEF TypeInv, Stops, Decisions, TypeOK, HeldByPoint, Points, clientVars, queueVars,
        logVars, turnVars, eventVars
<1>7. ASSUME NEW replaced \in BOOLEAN, PrepareRequest(replaced)
      PROVE  TypeInv'
  <2>1. /\ open' \in Message \cup {NoMsg}
        /\ {observed', messages', fresh'} \subseteq Seq(Message)
        /\ {since', updates'} \subseteq Nat
    BY <1>7, UpdateType DEF PrepareRequest
  <2>. QED
    BY ONLY TypeInv, <1>7, <2>1
    DEF TypeInv, PrepareRequest, TypeOK, HeldByPoint, Points, clientVars, queueVars, logVars,
        turnVars, eventVars
<1>8. ASSUME OpenStream PROVE TypeInv'
  BY <1>8
  DEF OpenStream, TypeOK, HeldByPoint, Points, clientVars, queueVars, logVars, turnVars,
      eventVars
<1>9. ASSUME NEW ok \in BOOLEAN, StreamStarts(ok)
      PROVE  TypeInv'
  <2>1. Msg("assistant") \in Message
    BY MsgType DEF Kinds
  <2>2. open' \in Message /\ UNCHANGED <<observed, messages, fresh, since, updates>>
    BY <1>9, <2>1 DEF StreamStarts, Announce
  <2>. QED
    BY ONLY TypeInv, <1>9, <2>2
    DEF TypeInv, StreamStarts, Then, TypeOK, HeldByPoint, Points, clientVars, queueVars,
        logVars, turnVars, eventVars
<1>10. ASSUME NEW stop \in Stops, StreamEnds(stop)
      PROVE  TypeInv'
  BY <1>10
  DEF StreamEnds, Settle, TypeOK, HeldByPoint, Points, clientVars, queueVars, logVars,
      turnVars, eventVars
<1>11. ASSUME StreamAborts PROVE TypeInv'
  BY <1>11
  DEF StreamAborts, Settle, TypeOK, HeldByPoint, Points, clientVars, queueVars, logVars,
      turnVars, eventVars
<1>12. ASSUME NEW ok \in BOOLEAN, EmitOwedStart(ok)
      PROVE  TypeInv'
  <2>1. Msg("assistant") \in Message
    BY MsgType DEF Kinds
  <2>2. open' \in Message /\ UNCHANGED <<observed, messages, fresh, since, updates>>
    BY <1>12, <2>1 DEF EmitOwedStart, Announce
  <2>. QED
    BY ONLY TypeInv, <1>12, <2>2
    DEF TypeInv, EmitOwedStart, Then, TypeOK, HeldByPoint, Points, clientVars, queueVars,
        logVars, turnVars, eventVars
<1>13. ASSUME NEW ok \in BOOLEAN, CloseAnswer(ok)
      PROVE  TypeInv'
  <2>1. /\ open' \in Message \cup {NoMsg}
        /\ {observed', messages', fresh'} \subseteq Seq(Message)
        /\ {since', updates'} \subseteq Nat
    BY <1>13, ConcludeType DEF CloseAnswer, HeldByPoint
  <2>. QED
    BY ONLY TypeInv, <1>13, <2>1
    DEF TypeInv, CloseAnswer, Then, TypeOK, HeldByPoint, Points, clientVars, queueVars,
        logVars, turnVars, eventVars
<1>14. ASSUME NEW terminate \in BOOLEAN, NEW ok \in BOOLEAN, RunTools(terminate, ok)
      PROVE  TypeInv'
  <2>1. Msg("result") \in Message /\ Msg("finalResult") \in Message
    BY MsgType DEF Kinds
  <2>2. open' \in Message /\ UNCHANGED <<observed, messages, fresh, since, updates>>
    BY <1>14, <2>1 DEF RunTools, Announce
  <2>. QED
    BY ONLY TypeInv, <1>14, <2>2
    DEF TypeInv, RunTools, Then, TypeOK, HeldByPoint, Points, clientVars, queueVars, logVars,
        turnVars, eventVars
<1>15. ASSUME NEW ok \in BOOLEAN, CloseResults(ok)
      PROVE  TypeInv'
  BY <1>15
  DEF CloseResults, Then, Conclude, TypeOK, HeldByPoint, Points, clientVars, queueVars,
      logVars, turnVars, eventVars
<1>16. ASSUME NEW d \in Decisions, FinishTurn(d)
      PROVE  TypeInv'
  BY <1>16
  DEF FinishTurn, TypeOK, HeldByPoint, Points, clientVars, queueVars, logVars, turnVars,
      eventVars
<1>17. ASSUME NEW ok \in BOOLEAN, EmitTurnEnd(ok)
      PROVE  TypeInv'
  BY <1>17
  DEF EmitTurnEnd, Then, TypeOK, HeldByPoint, Points, clientVars, queueVars, logVars,
      turnVars, eventVars
<1>18. ASSUME PollSteering PROVE TypeInv'
  <2>1. steering \in Seq(Message)
    BY DEF TypeOK
  <2>2. {steering', pending'} \subseteq Seq(Message)
    BY <1>18, <2>1, BatchType DEF PollSteering
  <2>3. explicit' \in BOOLEAN /\ pc' \in {"prepare", "pollFollowUp"}
    BY <1>18 DEF PollSteering
  <2>. QED
    BY ONLY TypeInv, <1>18, <2>2, <2>3
    DEF TypeInv, PollSteering, TypeOK, HeldByPoint, Points, clientVars, queueVars, logVars,
        turnVars, eventVars
<1>19. ASSUME PollFollowUp PROVE TypeInv'
  <2>1. followUp \in Seq(Message)
    BY DEF TypeOK
  <2>2. {followUp', pending'} \subseteq Seq(Message)
    BY <1>19, <2>1, BatchType DEF PollFollowUp
  <2>. QED
    BY ONLY TypeInv, <1>19, <2>2
    DEF TypeInv, PollFollowUp, TypeOK, HeldByPoint, Points, clientVars, queueVars, logVars,
        turnVars, eventVars
<1>20. ASSUME NEW ok \in BOOLEAN, EmitAgentEnd(ok)
      PROVE  TypeInv'
  BY <1>20, SMTT(30)
  DEF EmitAgentEnd, Then, TypeOK, HeldByPoint, Points, clientVars, queueVars, logVars,
      turnVars, eventVars
<1>21. ASSUME HookFails PROVE TypeInv'
  BY <1>21
  DEF HookFails, Then, TypeOK, HeldByPoint, Points, clientVars, queueVars, logVars, turnVars,
      eventVars
<1>22. ASSUME FailMessage PROVE TypeInv'
  <2>1. Msg("failure") \in Message
    BY MsgType DEF Kinds
  <2>2. observed' \in Seq(Message)
    BY <1>22, <2>1, AppendProperties DEF FailMessage, TypeOK
  <2>. QED
    BY ONLY TypeInv, <1>22, <2>2, EmptySeq
    DEF TypeInv, FailMessage, TypeOK, HeldByPoint, Points, clientVars, queueVars, logVars,
        turnVars, eventVars
<1>23. ASSUME FailEnd PROVE TypeInv'
  <2>1. Msg("failure") \in Message
    BY MsgType DEF Kinds
  <2>2. fresh' \in Seq(Message)
    BY <1>23, <2>1 DEF FailEnd
  <2>3. /\ pc' = "done" /\ turnOpen' = FALSE /\ ended' = ended + 1
        /\ UNCHANGED <<failed, entry, drainAll, clientVars, queueVars, open, observed, messages,
                       since, updates, turnVars, mark, late>>
    BY <1>23 DEF FailEnd
  <2>4. pc' \in Points /\ turnOpen' \in BOOLEAN /\ ended' \in Nat
    <3>1. ended \in Nat
      BY DEF TypeOK
    <3>2. pc' = "done" /\ turnOpen' = FALSE /\ ended' = ended + 1
      BY <2>3
    <3>3. pc' \in Points
      BY <3>2 DEF Points
    <3>4. ended' \in Nat
      BY ONLY <3>1, <3>2
    <3>5. turnOpen' \in BOOLEAN
      BY ONLY <3>2
    <3>. QED  BY ONLY <3>3, <3>4, <3>5
  <2>5. HeldByPoint'
    BY <2>3 DEF HeldByPoint
  <2>6. TypeOK'
    BY ONLY TypeInv, <2>2, <2>3, <2>4 DEF TypeInv, TypeOK, clientVars, queueVars, turnVars
  <2>. QED  BY ONLY <2>5, <2>6 DEF TypeInv
<1>24. ASSUME Steer PROVE TypeInv'
  <2>1. sent' \in [steer : Nat, follow : Nat] /\ late' \in [steer : Nat, follow : Nat]
    <3>1. sent \in [steer : Nat, follow : Nat] /\ late \in [steer : Nat, follow : Nat]
      BY DEF TypeOK
    <3>2. /\ sent' = [sent EXCEPT !.steer = sent.steer + 1]
          /\ late' \in {late, [late EXCEPT !.steer = late.steer + 1]}
      BY <1>24 DEF Steer, Late
    <3>. QED  BY ONLY <3>1, <3>2
  <2>2. [kind |-> "steer", n |-> sent'.steer] \in Message
    BY <2>1 DEF Message, Kinds
  <2>3. steering' \in Seq(Message)
    BY <1>24, <2>2, AppendProperties DEF Steer, TypeOK
  <2>. QED
    BY ONLY TypeInv, <1>24, <2>1, <2>3
    DEF TypeInv, Steer, TypeOK, HeldByPoint, Points, clientVars, queueVars, logVars, turnVars,
        eventVars
<1>25. ASSUME FollowUp PROVE TypeInv'
  <2>1. sent' \in [steer : Nat, follow : Nat] /\ late' \in [steer : Nat, follow : Nat]
    <3>1. sent \in [steer : Nat, follow : Nat] /\ late \in [steer : Nat, follow : Nat]
      BY DEF TypeOK
    <3>2. /\ sent' = [sent EXCEPT !.follow = sent.follow + 1]
          /\ late' \in {late, [late EXCEPT !.follow = late.follow + 1]}
      BY <1>25 DEF FollowUp, Late
    <3>. QED  BY ONLY <3>1, <3>2
  <2>2. [kind |-> "follow", n |-> sent'.follow] \in Message
    BY <2>1 DEF Message, Kinds
  <2>3. followUp' \in Seq(Message)
    BY <1>25, <2>2, AppendProperties DEF FollowUp, TypeOK
  <2>. QED
    BY ONLY TypeInv, <1>25, <2>1, <2>3
    DEF TypeInv, FollowUp, TypeOK, HeldByPoint, Points, clientVars, queueVars, logVars,
        turnVars, eventVars
<1>26. ASSUME Abort PROVE TypeInv'
  BY <1>26
  DEF Abort, TypeOK, HeldByPoint, Points, clientVars, queueVars, logVars, turnVars, eventVars
<1>u. ASSUME UNCHANGED vars PROVE TypeInv'
  BY <1>u DEF TypeOK, HeldByPoint, vars, clientVars, queueVars, logVars, turnVars, eventVars
<1>. QED
  BY <1>1, <1>2, <1>3, <1>4, <1>5, <1>6, <1>7, <1>8, <1>9, <1>10, <1>11, <1>12, <1>13, <1>14,
     <1>15, <1>16, <1>17, <1>18, <1>19, <1>20, <1>21, <1>22, <1>23, <1>24, <1>25, <1>26, <1>u
  DEF Next, Loop, Provider, Client

\* Every variable keeps its type, and a message is in hand where the code takes one for granted.
THEOREM LoopTypes == Spec => []TypeOK
<1>1. Init => TypeInv
  BY InitType DEF Init, TypeInv, HeldByPoint
<1>2. TypeInv /\ [Next]_vars => TypeInv'
  BY TypeStep
<1>3. TypeInv => TypeOK
  BY DEF TypeInv
<1>. QED  BY <1>1, <1>2, <1>3, PTL DEF Spec

LEMMA TypesHold == Spec => []TypeInv
<1>1. Init => TypeInv
  BY InitType DEF Init, TypeInv, HeldByPoint
<1>. QED  BY <1>1, TypeStep, PTL DEF Spec

-----------------------------------------------------------------------------
(* The nesting of events. *)

LEMMA NestStep == TypeInv /\ NestInv /\ [Next]_vars => NestInv'
<1>. SUFFICES ASSUME TypeInv, NestInv, [Next]_vars PROVE NestInv'
  OBVIOUS
<1>. USE DEF NestInv, FailureIsUnwinding, OpenByPoint, EndsByPoint, Between, Silent, Telling,
            logVars, eventVars
<1>1. ASSUME NEW ok \in BOOLEAN, EmitAgentStart(ok)
      PROVE  NestInv'
  BY <1>1 DEF EmitAgentStart, Then
<1>2. ASSUME NEW ok \in BOOLEAN, EmitFirstTurnStart(ok)
      PROVE  NestInv'
  BY <1>2 DEF EmitFirstTurnStart, Then, OpenTurn
<1>3. ASSUME NEW ok \in BOOLEAN, OpenInjected(ok)
      PROVE  NestInv'
  BY <1>3 DEF OpenInjected, Then, Announce
<1>4. ASSUME NEW ok \in BOOLEAN, CloseInjected(ok)
      PROVE  NestInv'
  BY <1>4 DEF CloseInjected, Then, Conclude
<1>5. ASSUME InitialPoll PROVE NestInv'
  BY <1>5 DEF InitialPoll
<1>6. ASSUME NEW u \in Updates, NEW ok \in BOOLEAN, PrepareTurn(u[1], u[2], ok)
      PROVE  NestInv'
  BY <1>6 DEF PrepareTurn, Then, Update, OpenTurn
<1>7. ASSUME NEW replaced \in BOOLEAN, PrepareRequest(replaced)
      PROVE  NestInv'
  BY <1>7 DEF PrepareRequest, Update
<1>8. ASSUME OpenStream PROVE NestInv'
  BY <1>8 DEF OpenStream
<1>9. ASSUME NEW ok \in BOOLEAN, StreamStarts(ok)
      PROVE  NestInv'
  BY <1>9 DEF StreamStarts, Then, Announce
<1>10. ASSUME NEW stop \in Stops, StreamEnds(stop)
      PROVE  NestInv'
  BY <1>10 DEF StreamEnds, Settle
<1>11. ASSUME StreamAborts PROVE NestInv'
  BY <1>11 DEF StreamAborts, Settle
<1>12. ASSUME NEW ok \in BOOLEAN, EmitOwedStart(ok)
      PROVE  NestInv'
  BY <1>12 DEF EmitOwedStart, Then, Announce
<1>13. ASSUME NEW ok \in BOOLEAN, CloseAnswer(ok)
      PROVE  NestInv'
  BY <1>13 DEF CloseAnswer, Then, Conclude
<1>14. ASSUME NEW terminate \in BOOLEAN, NEW ok \in BOOLEAN, RunTools(terminate, ok)
      PROVE  NestInv'
  BY <1>14 DEF RunTools, Then, Announce
<1>15. ASSUME NEW ok \in BOOLEAN, CloseResults(ok)
      PROVE  NestInv'
  BY <1>15 DEF CloseResults, Then, Conclude
<1>16. ASSUME NEW d \in Decisions, FinishTurn(d)
      PROVE  NestInv'
  BY <1>16 DEF FinishTurn
<1>17. ASSUME NEW ok \in BOOLEAN, EmitTurnEnd(ok)
      PROVE  NestInv'
  BY <1>17 DEF EmitTurnEnd, Then
<1>18. ASSUME PollSteering PROVE NestInv'
  BY <1>18 DEF PollSteering
<1>19. ASSUME PollFollowUp PROVE NestInv'
  BY <1>19 DEF PollFollowUp
<1>20. ASSUME NEW ok \in BOOLEAN, EmitAgentEnd(ok)
      PROVE  NestInv'
  <2>1. pc = "agentEnd" /\ ended = 0 /\ ~turnOpen
    BY <1>20 DEF EmitAgentEnd, EndsByPoint, OpenByPoint, Between
  <2>2. ended' = 1 /\ open' = NoMsg /\ turnOpen' = turnOpen
    BY <1>20, <2>1 DEF EmitAgentEnd
  <2>3. \/ pc' = "done" /\ failed' = FALSE
        \/ pc' = "failing" /\ failed' = TRUE
    BY <1>20 DEF EmitAgentEnd, Then
  <2>. QED
    BY ONLY <2>1, <2>2, <2>3
<1>21. ASSUME HookFails PROVE NestInv'
  BY <1>21 DEF HookFails, Then
<1>22. ASSUME FailMessage PROVE NestInv'
  BY <1>22 DEF FailMessage
<1>23. ASSUME FailEnd PROVE NestInv'
  BY <1>23 DEF FailEnd
<1>24. ASSUME Steer PROVE NestInv'
  BY <1>24 DEF Steer, Late
<1>25. ASSUME FollowUp PROVE NestInv'
  BY <1>25 DEF FollowUp, Late
<1>26. ASSUME Abort PROVE NestInv'
  BY <1>26 DEF Abort
<1>u. ASSUME UNCHANGED vars PROVE NestInv'
  BY <1>u DEF vars
<1>. QED
  BY <1>1, <1>2, <1>3, <1>4, <1>5, <1>6, <1>7, <1>8, <1>9, <1>10, <1>11, <1>12, <1>13, <1>14,
     <1>15, <1>16, <1>17, <1>18, <1>19, <1>20, <1>21, <1>22, <1>23, <1>24, <1>25, <1>26, <1>u
  DEF Next, Loop, Provider, Client

\* AgentLoop's EventsNest, for every bound.
THEOREM EventsNestAlways == Spec => []EventsNest
<1>1. Init => NestInv
  BY DEF Init, NestInv, FailureIsUnwinding, OpenByPoint, EndsByPoint, Between, Silent, Telling
<1>2. TypeInv /\ NestInv => EventsNest
  BY DEF TypeInv, TypeOK, Points, NestInv, FailureIsUnwinding, OpenByPoint, EndsByPoint,
         Between, Silent, Telling, EventsNest
<1>. QED  BY <1>1, <1>2, NestStep, TypesHold, PTL DEF Spec

-----------------------------------------------------------------------------
(* What a run that ends of itself leaves behind. *)

LEMMA IdleStep == TypeInv /\ NestInv /\ IdleInv /\ [Next]_vars => IdleInv'
<1>. SUFFICES ASSUME TypeInv, NestInv, IdleInv, [Next]_vars PROVE IdleInv'
  OBVIOUS
<1>. USE DEF IdleInv, AnswerIsOpen, ToolsAreOwed, PollsAreFor, EndsOnlyWhenIdle,
            OwesResults, HardExit, logVars, turnVars, eventVars, clientVars, queueVars
<1>1. ASSUME NEW ok \in BOOLEAN, EmitAgentStart(ok)
      PROVE  IdleInv'
  BY <1>1 DEF EmitAgentStart, Then
<1>2. ASSUME NEW ok \in BOOLEAN, EmitFirstTurnStart(ok)
      PROVE  IdleInv'
  BY <1>2 DEF EmitFirstTurnStart, Then, OpenTurn
<1>3. ASSUME NEW ok \in BOOLEAN, OpenInjected(ok)
      PROVE  IdleInv'
  BY <1>3 DEF OpenInjected, Then, Announce
<1>4. ASSUME NEW ok \in BOOLEAN, CloseInjected(ok)
      PROVE  IdleInv'
  BY <1>4 DEF CloseInjected, Then, Conclude
<1>5. ASSUME InitialPoll PROVE IdleInv'
  BY <1>5 DEF InitialPoll
<1>6. ASSUME NEW u \in Updates, NEW ok \in BOOLEAN, PrepareTurn(u[1], u[2], ok)
      PROVE  IdleInv'
  BY <1>6 DEF PrepareTurn, Then, Update, OpenTurn
<1>7. ASSUME NEW replaced \in BOOLEAN, PrepareRequest(replaced)
      PROVE  IdleInv'
  BY <1>7 DEF PrepareRequest, Update
<1>8. ASSUME OpenStream PROVE IdleInv'
  BY <1>8 DEF OpenStream, NestInv, OpenByPoint, Silent
<1>9. ASSUME NEW ok \in BOOLEAN, StreamStarts(ok)
      PROVE  IdleInv'
  BY <1>9 DEF StreamStarts, Then, Announce
<1>10. ASSUME NEW stop \in Stops, StreamEnds(stop)
      PROVE  IdleInv'
  BY <1>10 DEF StreamEnds, Settle
<1>11. ASSUME StreamAborts PROVE IdleInv'
  BY <1>11 DEF StreamAborts, Settle
<1>12. ASSUME NEW ok \in BOOLEAN, EmitOwedStart(ok)
      PROVE  IdleInv'
  BY <1>12 DEF EmitOwedStart, Then, Announce
<1>13. ASSUME NEW ok \in BOOLEAN, CloseAnswer(ok)
      PROVE  IdleInv'
  <2>1. observed \in Seq(Message) /\ open = Msg("assistant")
    BY <1>13 DEF CloseAnswer, AnswerIsOpen, TypeInv, TypeOK
  <2>2. observed' = Append(observed, open)
    BY <1>13 DEF CloseAnswer, Conclude
  <2>3. ~OwesResults'
    BY ONLY <2>1, <2>2, LastAppend, MsgType DEF OwesResults, Msg, Kinds
  <2>4. pc' \in {"tools", "finish", "failing"} /\ wantTools' = FALSE
    BY <1>13 DEF CloseAnswer, Then
  <2>. QED
    BY ONLY <2>3, <2>4
    DEF IdleInv, AnswerIsOpen, ToolsAreOwed, PollsAreFor, EndsOnlyWhenIdle
<1>14. ASSUME NEW terminate \in BOOLEAN, NEW ok \in BOOLEAN, RunTools(terminate, ok)
      PROVE  IdleInv'
  <2>1. pc' \in {"toolsEnd", "failing"} /\ open' \in {Msg("result"), Msg("finalResult")}
    BY <1>14 DEF RunTools, Then, Announce
  <2>2. open'.kind \in {"result", "finalResult"}
    BY ONLY <2>1 DEF Msg
  <2>. QED
    BY ONLY <2>1, <2>2
    DEF IdleInv, AnswerIsOpen, ToolsAreOwed, PollsAreFor, EndsOnlyWhenIdle
<1>15. ASSUME NEW ok \in BOOLEAN, CloseResults(ok)
      PROVE  IdleInv'
  <2>1. observed \in Seq(Message) /\ open \in Message
    BY <1>15 DEF CloseResults, TypeInv, TypeOK, HeldByPoint
  <2>2. observed' = Append(observed, open) /\ wantTools' = (open.kind = "result")
    BY <1>15 DEF CloseResults, Conclude
  <2>3. wantTools' <=> OwesResults'
    BY ONLY <2>1, <2>2, LastAppend DEF OwesResults
  <2>4. pc' \in {"finish", "failing"}
    BY <1>15 DEF CloseResults, Then
  <2>. QED
    BY ONLY <2>3, <2>4
    DEF IdleInv, AnswerIsOpen, ToolsAreOwed, PollsAreFor, EndsOnlyWhenIdle
<1>16. ASSUME NEW d \in Decisions, FinishTurn(d)
      PROVE  IdleInv'
  BY <1>16 DEF FinishTurn
<1>17. ASSUME NEW ok \in BOOLEAN, EmitTurnEnd(ok)
      PROVE  IdleInv'
  BY <1>17 DEF EmitTurnEnd, Then
<1>18. ASSUME PollSteering PROVE IdleInv'
  <2>1. /\ pc = "poll" /\ ~HardExit /\ decision # "end"
        /\ wantTools <=> OwesResults
    BY <1>18 DEF PollSteering, ToolsAreOwed, PollsAreFor
  <2>2. UNCHANGED <<open, observed, reply, wantTools, decision, late>>
    BY <1>18 DEF PollSteering, logVars, eventVars
  <2>3. (OwesResults' <=> OwesResults) /\ (HardExit' <=> HardExit)
    BY <2>2 DEF OwesResults, HardExit
  <2>4. CASE pc' = "prepare"
    BY ONLY <2>4 DEF IdleInv, AnswerIsOpen, ToolsAreOwed, PollsAreFor, EndsOnlyWhenIdle
  <2>5. CASE pc' = "pollFollowUp"
    <3>1. ~wantTools /\ Batch(steering) = <<>> /\ explicit' = (decision = "continue")
      BY <1>18, <2>5 DEF PollSteering
    <3>2. steering' = <<>>
      BY <1>18, <3>1, EmptyBatch DEF PollSteering, TypeInv, TypeOK
    <3>3. late.steer \in Nat
      BY DEF TypeInv, TypeOK
    <3>4. Len(steering') <= late'.steer
      BY ONLY <2>2, <3>2, <3>3
    <3>. QED
      BY ONLY <2>1, <2>2, <2>3, <2>5, <3>1, <3>4
      DEF IdleInv, AnswerIsOpen, ToolsAreOwed, PollsAreFor, EndsOnlyWhenIdle
  <2>. QED  BY <1>18, <2>4, <2>5 DEF PollSteering
<1>19. ASSUME PollFollowUp PROVE IdleInv'
  <2>1. /\ pc = "pollFollowUp" /\ ~OwesResults
        /\ Len(steering) <= late.steer
        /\ explicit <=> decision = "continue"
    BY <1>19 DEF PollFollowUp, PollsAreFor
  <2>2. UNCHANGED <<steering, observed, decision, late>>
    BY <1>19 DEF PollFollowUp, logVars, eventVars
  <2>3. OwesResults' <=> OwesResults
    BY <2>2 DEF OwesResults
  <2>4. CASE pc' = "prepare"
    BY ONLY <2>4 DEF IdleInv, AnswerIsOpen, ToolsAreOwed, PollsAreFor, EndsOnlyWhenIdle
  <2>5. CASE pc' = "agentEnd"
    <3>1. ~explicit /\ Batch(followUp) = <<>>
      BY <1>19, <2>5 DEF PollFollowUp
    <3>2. followUp' = <<>>
      BY <1>19, <3>1, EmptyBatch DEF PollFollowUp, TypeInv, TypeOK
    <3>3. late.follow \in Nat
      BY DEF TypeInv, TypeOK
    <3>4. Len(followUp') <= late'.follow
      BY ONLY <2>2, <3>2, <3>3
    <3>. QED
      BY ONLY <2>1, <2>2, <2>3, <2>5, <3>1, <3>4
      DEF IdleInv, AnswerIsOpen, ToolsAreOwed, PollsAreFor, EndsOnlyWhenIdle
  <2>. QED  BY <1>19, <2>4, <2>5 DEF PollFollowUp
<1>20. ASSUME NEW ok \in BOOLEAN, EmitAgentEnd(ok)
      PROVE  IdleInv'
  BY <1>20 DEF EmitAgentEnd, Then
<1>21. ASSUME HookFails PROVE IdleInv'
  BY <1>21 DEF HookFails, Then
<1>22. ASSUME FailMessage PROVE IdleInv'
  BY <1>22 DEF FailMessage
<1>23. ASSUME FailEnd PROVE IdleInv'
  BY <1>23 DEF FailEnd
<1>24. ASSUME Steer PROVE IdleInv'
  <2>1. steering \in Seq(Message) /\ late \in [steer : Nat, follow : Nat]
    BY DEF TypeInv, TypeOK
  <2>2. steering' = Append(steering, [kind |-> "steer", n |-> sent'.steer])
    BY <1>24 DEF Steer
  <2>3. Len(steering') = Len(steering) + 1
    BY ONLY <2>1, <2>2, AppendProperties
  <2>4. UNCHANGED <<pc, failed, open, observed, reply, wantTools, decision, explicit, turnOpen,
                  followUp>>
    BY <1>24 DEF Steer, logVars, turnVars
  <2>5. ~turnOpen => late'.steer = late.steer + 1 /\ late'.follow = late.follow
    BY <1>24, <2>1 DEF Steer, Late
  <2>6. pc \in {"pollFollowUp", "agentEnd"} => ~turnOpen
    BY <1>24 DEF Steer, NestInv, OpenByPoint, Between
  <2>7. Len(steering) \in Nat /\ Len(followUp) \in Nat
    BY LenProperties DEF TypeInv, TypeOK
  <2>8. AnswerIsOpen' /\ ToolsAreOwed'
    BY <2>4 DEF AnswerIsOpen, ToolsAreOwed, OwesResults
  <2>9. (OwesResults' <=> OwesResults) /\ (HardExit' <=> HardExit)
    BY <2>4 DEF OwesResults, HardExit
  <2>10. ~turnOpen => /\ late.steer \in Nat
                      /\ Len(steering) <= late.steer => Len(steering') <= late'.steer
                      /\ Len(followUp) <= late.follow => Len(followUp') <= late'.follow
    BY ONLY <2>1, <2>3, <2>4, <2>5, <2>7
  <2>11. PollsAreFor'
    BY <2>4, <2>6, <2>9, <2>10 DEF PollsAreFor
  <2>12. EndsOnlyWhenIdle'
    BY <2>4, <2>6, <2>9, <2>10 DEF EndsOnlyWhenIdle
  <2>. QED  BY <2>8, <2>11, <2>12
<1>25. ASSUME FollowUp PROVE IdleInv'
  <2>1. followUp \in Seq(Message) /\ late \in [steer : Nat, follow : Nat]
    BY DEF TypeInv, TypeOK
  <2>2. followUp' = Append(followUp, [kind |-> "follow", n |-> sent'.follow])
    BY <1>25 DEF FollowUp
  <2>3. Len(followUp') = Len(followUp) + 1
    BY ONLY <2>1, <2>2, AppendProperties
  <2>4. UNCHANGED <<pc, failed, open, observed, reply, wantTools, decision, explicit, turnOpen,
                  steering>>
    BY <1>25 DEF FollowUp, logVars, turnVars
  <2>5. ~turnOpen => late'.follow = late.follow + 1 /\ late'.steer = late.steer
    BY <1>25, <2>1 DEF FollowUp, Late
  <2>6. pc \in {"pollFollowUp", "agentEnd"} => ~turnOpen
    BY <1>25 DEF FollowUp, NestInv, OpenByPoint, Between
  <2>7. Len(steering) \in Nat /\ Len(followUp) \in Nat
    BY LenProperties DEF TypeInv, TypeOK
  <2>8. AnswerIsOpen' /\ ToolsAreOwed'
    BY <2>4 DEF AnswerIsOpen, ToolsAreOwed, OwesResults
  <2>9. (OwesResults' <=> OwesResults) /\ (HardExit' <=> HardExit)
    BY <2>4 DEF OwesResults, HardExit
  <2>10. ~turnOpen => /\ late.follow \in Nat
                      /\ Len(steering) <= late.steer => Len(steering') <= late'.steer
                      /\ Len(followUp) <= late.follow => Len(followUp') <= late'.follow
    BY ONLY <2>1, <2>3, <2>4, <2>5, <2>7
  <2>11. PollsAreFor'
    BY <2>4, <2>6, <2>9, <2>10 DEF PollsAreFor
  <2>12. EndsOnlyWhenIdle'
    BY <2>4, <2>6, <2>9, <2>10 DEF EndsOnlyWhenIdle
  <2>. QED  BY <2>8, <2>11, <2>12
<1>26. ASSUME Abort PROVE IdleInv'
  BY <1>26 DEF Abort
<1>u. ASSUME UNCHANGED vars PROVE IdleInv'
  BY <1>u DEF vars
<1>. QED
  BY <1>1, <1>2, <1>3, <1>4, <1>5, <1>6, <1>7, <1>8, <1>9, <1>10, <1>11, <1>12, <1>13, <1>14,
     <1>15, <1>16, <1>17, <1>18, <1>19, <1>20, <1>21, <1>22, <1>23, <1>24, <1>25, <1>26, <1>u
  DEF Next, Loop, Provider, Client

\* AgentLoop's EndsOnlyWhenIdle, for every bound.
THEOREM EndsOnlyWhenIdleAlways == Spec => []EndsOnlyWhenIdle
<1>1. Init => IdleInv
  BY DEF Init, IdleInv, AnswerIsOpen, ToolsAreOwed, PollsAreFor, EndsOnlyWhenIdle
<1>2. Init => NestInv
  BY DEF Init, NestInv, FailureIsUnwinding, OpenByPoint, EndsByPoint, Between, Silent, Telling
<1>3. IdleInv => EndsOnlyWhenIdle
  BY DEF IdleInv
<1>. QED  BY <1>1, <1>2, <1>3, NestStep, IdleStep, TypesHold, PTL DEF Spec

-----------------------------------------------------------------------------
(* What the messages are and where they stand. *)

Steers   == [kind : {"steer"}, n : Nat]
Follows  == [kind : {"follow"}, n : Nat]
Injected == [kind : {"prompt", "steer", "follow", "prepared"}, n : Nat]
Told     == [kind : Kinds \ {"context"}, n : Nat]

\* The points before the first poll, those that hold messages to inject, and the ends.
Opening == {"start", "firstTurn", "prompts", "promptsEnd", "enter"}
Holding == {"start", "firstTurn", "prompts", "promptsEnd", "queued", "queuedEnd", "failing"}
Ending  == {"failing", "failEnd", "done"}

\* A message is held only between the poll that drains it and its announcement, and one that is
\* being announced is the first of those held.
MessagesByPlace ==
  /\ steering \in Seq(Steers) /\ followUp \in Seq(Follows)
  /\ pending \in Seq(Steers) \/ pending \in Seq(Follows)
  /\ inject \in Seq(Injected) /\ observed \in Seq(Told)
  /\ pc \in {"promptsEnd", "queuedEnd"} => open = Head(inject)
  /\ inject # <<>> => pc \in Holding
  /\ pending # <<>> => pc \in {"prepare", "failing"}

\* The first turn polls steering unless its prompt was made of it; no poll takes two messages
\* one at a time.
PlacesByTurn ==
  /\ mark <= Len(observed)
  /\ pc \in {"start", "firstTurn"} => observed = <<>>
  /\ pc \in {"prompts", "promptsEnd", "enter"} => mark = 0
  /\ pc \in Opening /\ entry # "steeringDrain" => OfKind(observed \o inject, "steer") = <<>>
  /\ ~drainAll => /\ Len(pending) <= 1
                  /\ pc \in {"start", "firstTurn"} => Len(inject) <= 1

\* The loop's copies are what subscribers saw, until a failure unwinds it.
CopiesAgree ==
  pc \notin Ending =>
    /\ fresh = observed
    /\ since <= Len(observed)
    /\ \E p \in {<<>>, <<Msg("context")>>} : messages = p \o SubSeq(observed, since + 1, Len(observed))

\* A run that prepares a turn has been given a reason.
NextTurnHasAReason ==
  pc = "prepare" =>
    /\ ~HardExit /\ decision # "end"
    /\ OwesResults \/ decision = "continue" \/ pending # <<>>

FlowInv ==
  /\ MessagesByPlace /\ PlacesByTurn /\ CopiesAgree /\ NextTurnHasAReason
  /\ QueuesAreLossless /\ OneSteeringMessagePerTurn

-----------------------------------------------------------------------------
(* Sequences of messages. *)

\* Every kind of message is a message.
LEMMA MessageKinds ==
  /\ Steers \subseteq Injected /\ Follows \subseteq Injected /\ Injected \subseteq Told /\ Told \subseteq Message
  /\ Steers \subseteq Message /\ Follows \subseteq Message /\ Injected \subseteq Message
BY DEF Steers, Follows, Injected, Told, Message, Kinds

\* A sequence of some of the messages is a sequence of them all.
LEMMA SequencesOfMessages ==
  /\ \A s \in Seq(Steers) : s \in Seq(Message) /\ s \in Seq(Injected)
  /\ \A s \in Seq(Follows) : s \in Seq(Message) /\ s \in Seq(Injected)
  /\ \A s \in Seq(Injected) : s \in Seq(Message) /\ s \in Seq(Told)
  /\ \A s \in Seq(Told) : s \in Seq(Message)
BY MessageKinds, SeqMonotonic

\* What is of a kind in nothing, in one message more, and in two sequences one after the other.
LEMMA OfKindSteps ==
  ASSUME NEW kind, NEW s \in Seq(Message)
  PROVE  /\ OfKind(<<>>, kind) = <<>>
         /\ OfKind(s, kind) \in Seq(Message)
         /\ \A m \in Message : OfKind(Append(s, m), kind) = IF m.kind = kind THEN Append(OfKind(s, kind), m)
                                                                          ELSE OfKind(s, kind)
         /\ \A t \in Seq(Message) : OfKind(s \o t, kind) = OfKind(s, kind) \o OfKind(t, kind)
<1> DEFINE S == [kind : {kind}, n : Nat]
<1>1. \A m \in Message : m \in S <=> m.kind = kind BY DEF Message
<1> HIDE DEF S
<1>2. ASSUME NEW m \in Message
      PROVE  Filter(Append(s, m), S) = IF m.kind = kind THEN Append(Filter(s, S), m) ELSE Filter(s, S)
  <2>1. Filter(Append(s, m), S) = IF m \in S THEN Append(Filter(s, S), m) ELSE Filter(s, S) BY FilterAppend
  <2> QED BY <1>1, <2>1
<1>3. ASSUME NEW t \in Seq(Message) PROVE Filter(s \o t, S) = Filter(s, S) \o Filter(t, S) BY FilterConcat
<1>4. Filter(<<>>, S) = <<>> BY FilterEmpty
<1>5. Filter(s, S) \in Seq(Message) BY FilterType
<1> QED BY <1>2, <1>3, <1>4, <1>5 DEF OfKind, S

\* A sequence of one kind is all of it, and of the messages of other kinds none is.
LEMMA OfKindAllOrNone ==
  ASSUME NEW kind, NEW M, NEW s \in Seq(M)
  PROVE  /\ M \subseteq [kind : {kind}, n : Nat] => OfKind(s, kind) = s
         /\ M \cap [kind : {kind}, n : Nat] = {} => OfKind(s, kind) = <<>>
<1> DEFINE S == [kind : {kind}, n : Nat]
<1> HIDE DEF S
<1>1. ASSUME M \subseteq S PROVE Filter(s, S) = s
  <2>1. ToSet(s) \subseteq M BY DEF ToSet
  <2>2. ToSet(s) \subseteq S BY <1>1, <2>1
  <2> QED BY <2>2, FilterAll
<1>2. ASSUME M \cap S = {} PROVE Filter(s, S) = <<>>
  <2>1. Filter(s, S) \in Seq(M \cap S) BY FilterType
  <2> QED BY <1>2, <2>1
<1> QED BY <1>1, <1>2 DEF OfKind, S

\* There are no more of a kind than there are messages.
LEMMA OfKindLength ==
  ASSUME NEW kind, NEW s \in Seq(Message)
  PROVE  Len(OfKind(s, kind)) <= Len(s)
<1> DEFINE T == {q \in Seq(Message) : Len(OfKind(q, kind)) <= Len(q)}
<1>1. <<>> \in T
  <2>1. <<>> \in Seq(Message) /\ Len(<<>>) <= Len(<<>>) OBVIOUS
  <2> QED BY <2>1, OfKindSteps
<1>2. ASSUME NEW q \in Seq(Message), NEW m \in Message, q \in T PROVE Append(q, m) \in T
  <2>1. Append(q, m) \in Seq(Message) /\ Len(Append(q, m)) = Len(q) + 1 /\ Len(q) \in Nat BY AppendProperties
  <2>2. OfKind(q, kind) \in Seq(Message) /\ Len(OfKind(q, kind)) <= Len(q) BY <1>2, OfKindSteps
  <2>3. OfKind(Append(q, m), kind) = IF m.kind = kind THEN Append(OfKind(q, kind), m) ELSE OfKind(q, kind) BY OfKindSteps
  <2>4. Len(Append(OfKind(q, kind), m)) = Len(OfKind(q, kind)) + 1 /\ Len(OfKind(q, kind)) \in Nat
    BY <2>2, AppendProperties
  <2>5. Len(OfKind(Append(q, m), kind)) <= Len(Append(q, m)) BY <2>1, <2>2, <2>3, <2>4
  <2> QED BY <2>1, <2>5
<1> HIDE DEF T
<1>3. Seq(Message) \subseteq T BY <1>1, <1>2, SeqSetInduction
<1> QED BY <1>3 DEF T

\* What the queues and the turn's messages hold of each kind.
LEMMA KindsApart ==
  /\ \A s \in Seq(Steers) : OfKind(s, "steer") = s /\ OfKind(s, "follow") = <<>>
  /\ \A s \in Seq(Follows) : OfKind(s, "follow") = s /\ OfKind(s, "steer") = <<>>
  /\ \A s \in Seq(Told) : OfKind(s, "context") = <<>>
<1>1. ASSUME NEW s \in Seq(Steers) PROVE OfKind(s, "steer") = s /\ OfKind(s, "follow") = <<>>
  <2>1. Steers \subseteq [kind : {"steer"}, n : Nat] /\ Steers \cap [kind : {"follow"}, n : Nat] = {} BY DEF Steers
  <2> QED BY <2>1, OfKindAllOrNone
<1>2. ASSUME NEW s \in Seq(Follows) PROVE OfKind(s, "follow") = s /\ OfKind(s, "steer") = <<>>
  <2>1. Follows \subseteq [kind : {"follow"}, n : Nat] /\ Follows \cap [kind : {"steer"}, n : Nat] = {} BY DEF Follows
  <2> QED BY <2>1, OfKindAllOrNone
<1>3. ASSUME NEW s \in Seq(Told) PROVE OfKind(s, "context") = <<>>
  <2>1. Told \cap [kind : {"context"}, n : Nat] = {} BY DEF Told
  <2> QED BY <2>1, OfKindAllOrNone
<1> QED BY <1>1, <1>2, <1>3

\* A drained batch and what is left make up the queue; one at a time it is one message at most.
LEMMA BatchFacts ==
  ASSUME NEW M, NEW q \in Seq(M)
  PROVE  /\ Batch(q) \in Seq(M) /\ Remainder(q) \in Seq(M)
         /\ Batch(q) \o Remainder(q) = q
         /\ ~drainAll => Len(Batch(q)) <= 1
<1>1. <<>> \in Seq(M) /\ q \o <<>> = q /\ Len(<<>>) = 0 OBVIOUS
<1>2. CASE drainAll \/ q = <<>> BY <1>1, <1>2 DEF Batch, Remainder
<1>3. CASE ~drainAll /\ q # <<>>
  <2>1. Head(q) \in M /\ Tail(q) \in Seq(M) /\ <<Head(q)>> \in Seq(M) /\ Len(<<Head(q)>>) = 1 BY <1>3
  <2>2. <<Head(q)>> \o Tail(q) = q BY <1>3
  <2> QED BY <1>3, <2>1, <2>2 DEF Batch, Remainder
<1> QED BY <1>2, <1>3

\* A message more in a queue is the next one of those it was given.
LEMMA QueuedNext ==
  ASSUME NEW kind, NEW n \in Nat
  PROVE  /\ Queued(kind, 0, n) \in Seq([kind : {kind}, n : Nat])
         /\ Queued(kind, 0, n + 1) = Append(Queued(kind, 0, n), [kind |-> kind, n |-> n + 1])
         /\ Len(Queued(kind, 0, n)) = n
<1> DEFINE M == [kind : {kind}, n : Nat]
           q == Queued(kind, 0, n)
           r == Queued(kind, 0, n + 1)
           m == [kind |-> kind, n |-> n + 1]
<1>1. q = [i \in 1..n |-> [kind |-> kind, n |-> i]] /\ r = [i \in 1..(n + 1) |-> [kind |-> kind, n |-> i]] BY DEF Queued
<1>2. \A i \in 1..(n + 1) : [kind |-> kind, n |-> i] \in M OBVIOUS
<1> HIDE DEF M
<1>3. q \in Seq(M) /\ r \in Seq(M) /\ Len(q) = n /\ Len(r) = n + 1 BY <1>1, <1>2
<1>4. m \in M BY <1>2
<1>5. \A i \in 1..n : q[i] = r[i] BY <1>1
<1>6. r[n + 1] = m BY <1>1
<1> HIDE DEF q, r, m
<1>7. r = Append(q, m) BY <1>3, <1>4, <1>5, <1>6
<1> QED BY <1>3, <1>7 DEF q, r, m, M

\* The part of a transcript behind a mark, as the transcript and the mark move.
LEMMA Behind ==
  ASSUME NEW M, NEW s \in Seq(M), NEW n \in 0..Len(s)
  PROVE  /\ SubSeq(s, n + 1, Len(s)) \in Seq(M)
         /\ \A m \in M : SubSeq(Append(s, m), n + 1, Len(Append(s, m))) = Append(SubSeq(s, n + 1, Len(s)), m)
         /\ SubSeq(s, Len(s) + 1, Len(s)) = <<>>
<1>1. SubSeq(s, n + 1, Len(s)) \in Seq(M) BY CountCut
<1>2. ASSUME NEW m \in M
      PROVE  SubSeq(Append(s, m), n + 1, Len(Append(s, m))) = Append(SubSeq(s, n + 1, Len(s)), m)
  <2>1. Append(s, m) \in Seq(M) /\ Len(Append(s, m)) = Len(s) + 1 BY AppendProperties
  <2>2. /\ Len(SubSeq(s, n + 1, Len(s))) = Len(s) - n
        /\ \A i \in 1..(Len(s) - n) : SubSeq(s, n + 1, Len(s))[i] = s[n + i]
    OBVIOUS
  <2> DEFINE a == SubSeq(Append(s, m), n + 1, Len(Append(s, m)))
             b == SubSeq(s, n + 1, Len(s))
  <2>3. a \in Seq(M) /\ Len(a) = Len(s) + 1 - n /\ (\A i \in 1..(Len(s) + 1 - n) : a[i] = Append(s, m)[n + i])
    BY <2>1
  <2>4. \A i \in 1..Len(s) : Append(s, m)[i] = s[i] BY <2>1
  <2>5. Append(s, m)[Len(s) + 1] = m BY <2>1
  <2> HIDE DEF a, b
  <2>6. b \in Seq(M) /\ Len(b) = Len(s) - n /\ (\A i \in 1..(Len(s) - n) : b[i] = s[n + i]) BY <1>1, <2>2 DEF b
  <2>7. Append(b, m) \in Seq(M) /\ Len(Append(b, m)) = Len(s) - n + 1 BY <2>6, AppendProperties
  <2>8. ASSUME NEW i \in 1..(Len(s) + 1 - n) PROVE a[i] = Append(b, m)[i]
    <3>1. CASE i = Len(s) + 1 - n
      <4>1. a[i] = m BY <2>3, <2>5, <3>1
      <4>2. Append(b, m)[i] = m BY <2>6, <3>1
      <4> QED BY <4>1, <4>2
    <3>2. CASE i # Len(s) + 1 - n
      <4>1. i \in 1..(Len(s) - n) /\ n + i \in 1..Len(s) BY <3>2
      <4>2. a[i] = s[n + i] BY <2>3, <2>4, <4>1
      <4>3. Append(b, m)[i] = b[i] BY <2>6, <4>1
      <4> QED BY <2>6, <4>1, <4>2, <4>3
    <3> QED BY <3>1, <3>2
  <2>9. a = Append(b, m)
    <3>1. Len(a) = Len(Append(b, m)) /\ (\A i \in 1..Len(a) : a[i] = Append(b, m)[i]) BY <2>3, <2>7, <2>8
    <3> QED BY <2>3, <2>7, <3>1, SeqEqual
  <2> QED BY <2>9 DEF a, b
<1>3. SubSeq(s, Len(s) + 1, Len(s)) = <<>> BY SubSeqEmpty
<1> QED BY <1>1, <1>2, <1>3

\* What is told or held, together: a message moves from the one to the other, and one of another
\* kind is not in it.
LEMMA ToldAndHeld ==
  ASSUME NEW kind, NEW obs \in Seq(Message), NEW held \in Seq(Message)
  PROVE  /\ OfKind(obs \o held, kind) = OfKind(obs, kind) \o OfKind(held, kind)
         /\ held # <<>> => Append(obs, Head(held)) \o Tail(held) = obs \o held
         /\ \A m \in Message : m.kind # kind => OfKind(Append(obs, m), kind) = OfKind(obs, kind)
<1>1. OfKind(obs \o held, kind) = OfKind(obs, kind) \o OfKind(held, kind) BY OfKindSteps
<1>2. ASSUME held # <<>> PROVE Append(obs, Head(held)) \o Tail(held) = obs \o held
  <2>1. Head(held) \in Message /\ Tail(held) \in Seq(Message) BY <1>2, HeadTailProperties
  <2>2. Append(obs, Head(held)) = obs \o <<Head(held)>> BY <2>1, AppendIsConcat
  <2>3. <<Head(held)>> \in Seq(Message) BY <2>1
  <2>4. (obs \o <<Head(held)>>) \o Tail(held) = obs \o (<<Head(held)>> \o Tail(held))
    BY <2>1, <2>3, ConcatAssociative
  <2>5. <<Head(held)>> \o Tail(held) = held BY <1>2
  <2> QED BY <2>2, <2>4, <2>5
<1>3. ASSUME NEW m \in Message, m.kind # kind PROVE OfKind(Append(obs, m), kind) = OfKind(obs, kind)
  BY <1>3, OfKindSteps
<1> QED BY <1>1, <1>2, <1>3

\* The messages of the turn: those told since it began and those it still holds.
Turn == SubSeq(observed, mark + 1, Len(observed)) \o inject

\* The messages of a turn, as one is told, taken from those held or not, and as the turn begins.
LEMMA TurnSteps ==
  ASSUME NEW obs \in Seq(Message), NEW held \in Seq(Message), NEW n \in 0..Len(obs)
  PROVE  /\ SubSeq(obs, n + 1, Len(obs)) \o held \in Seq(Message)
         /\ \A m \in Message, kind \in Kinds : m.kind # kind =>
              OfKind(SubSeq(Append(obs, m), n + 1, Len(Append(obs, m))) \o held, kind)
                = OfKind(SubSeq(obs, n + 1, Len(obs)) \o held, kind)
         /\ held # <<>> => SubSeq(Append(obs, Head(held)), n + 1, Len(Append(obs, Head(held)))) \o Tail(held)
                            = SubSeq(obs, n + 1, Len(obs)) \o held
         /\ SubSeq(obs, Len(obs) + 1, Len(obs)) \o held = held
         /\ SubSeq(obs, 1, Len(obs)) = obs
         /\ \A kind \in Kinds : Len(OfKind(SubSeq(obs, n + 1, Len(obs)) \o <<>>, kind))
                              <= Len(OfKind(SubSeq(obs, n + 1, Len(obs)) \o held, kind))
<1> DEFINE b == SubSeq(obs, n + 1, Len(obs))
<1>1. b \in Seq(Message) BY Behind
<1>2. \A m \in Message : SubSeq(Append(obs, m), n + 1, Len(Append(obs, m))) = Append(b, m) BY Behind
<1>3. SubSeq(obs, Len(obs) + 1, Len(obs)) = <<>> BY Behind
<1>4. SubSeq(obs, 1, Len(obs)) = obs BY SubSeqFull
<1> HIDE DEF b
<1>5. b \o held \in Seq(Message) BY <1>1, ConcatProperties
<1>6. ASSUME NEW m \in Message, NEW kind \in Kinds, m.kind # kind
      PROVE  OfKind(Append(b, m) \o held, kind) = OfKind(b \o held, kind)
  <2>1. Append(b, m) \in Seq(Message) BY <1>1, AppendProperties
  <2>2. OfKind(Append(b, m), kind) = OfKind(b, kind) BY <1>1, <1>6, ToldAndHeld
  <2>3. OfKind(Append(b, m) \o held, kind) = OfKind(Append(b, m), kind) \o OfKind(held, kind) BY <2>1, ToldAndHeld
  <2>4. OfKind(b \o held, kind) = OfKind(b, kind) \o OfKind(held, kind) BY <1>1, ToldAndHeld
  <2> QED BY <2>2, <2>3, <2>4
<1>7. ASSUME held # <<>> PROVE Append(b, Head(held)) \o Tail(held) = b \o held BY <1>1, <1>7, ToldAndHeld
<1>8. ASSUME NEW kind \in Kinds PROVE Len(OfKind(b \o <<>>, kind)) <= Len(OfKind(b \o held, kind))
  <2>1. b \o <<>> = b BY <1>1, ConcatEmptySeq
  <2>2. OfKind(b \o held, kind) = OfKind(b, kind) \o OfKind(held, kind) BY <1>1, ToldAndHeld
  <2>3. OfKind(b, kind) \in Seq(Message) BY <1>1, OfKindSteps
  <2>4. OfKind(held, kind) \in Seq(Message) BY OfKindSteps
  <2>5. Len(OfKind(b, kind) \o OfKind(held, kind)) = Len(OfKind(b, kind)) + Len(OfKind(held, kind))
    BY <2>3, <2>4, ConcatProperties
  <2>6. Len(OfKind(b, kind)) \in Nat /\ Len(OfKind(held, kind)) \in Nat BY <2>3, <2>4, LenProperties
  <2> QED BY <2>1, <2>2, <2>5, <2>6
<1>9. ASSUME held # <<>> PROVE Head(held) \in Message BY <1>9, HeadTailProperties
<1> QED
  <2>1. held # <<>> => SubSeq(Append(obs, Head(held)), n + 1, Len(Append(obs, Head(held)))) \o Tail(held) = b \o held
    BY <1>2, <1>7, <1>9
  <2>2. \A m \in Message, kind \in Kinds : m.kind # kind =>
          OfKind(SubSeq(Append(obs, m), n + 1, Len(Append(obs, m))) \o held, kind) = OfKind(b \o held, kind)
    BY <1>2, <1>6
  <2>3. <<>> \o held = held BY ConcatEmptySeq
  <2> QED BY <1>3, <1>4, <1>5, <1>8, <2>1, <2>2, <2>3 DEF b

\* The types that the steps below use, and the turn's part of the transcript.
LEMMA FlowTypes ==
  ASSUME TypeInv, FlowInv
  PROVE  /\ {steering, followUp, pending, inject, observed} \subseteq Seq(Message)
         /\ pending \o inject \in Seq(Message)
         /\ mark \in Nat /\ mark \in 0..Len(observed) /\ Len(observed) \in Nat /\ since \in Nat
         /\ sent.steer \in Nat /\ sent.follow \in Nat /\ sent \in [steer : Nat, follow : Nat]
         /\ Turn \in Seq(Message)
<1>1. /\ {steering, followUp, pending, inject, observed} \subseteq Seq(Message)
      /\ mark \in Nat /\ since \in Nat /\ sent \in [steer : Nat, follow : Nat]
  BY DEF TypeInv, TypeOK
<1>2. pending \o inject \in Seq(Message) BY <1>1, ConcatProperties
<1>3. Len(observed) \in Nat BY <1>1, LenProperties
<1>4. mark \in 0..Len(observed) BY <1>1, <1>3 DEF FlowInv, PlacesByTurn
<1>5. Turn \in Seq(Message) BY <1>1, <1>4, TurnSteps DEF Turn
<1> QED BY <1>1, <1>2, <1>3, <1>4, <1>5

\* The properties in the words of the proof.
LEMMA FlowProperties ==
  ASSUME {observed, pending, inject} \subseteq Seq(Message)
  PROVE  /\ ~(failed /\ pc # "failing") =>
              ((QueuesAreLossless <=>
                 /\ OfKind(observed \o (pending \o inject), "steer") \o steering = Queued("steer", 0, sent.steer)
                 /\ OfKind(observed \o (pending \o inject), "follow") \o followUp = Queued("follow", 0, sent.follow)))
         /\ OneSteeringMessagePerTurn <=>
              (turnOpen /\ ~drainAll =>
                 /\ Len(OfKind(Turn, "steer")) <= 1 /\ Len(OfKind(Turn, "follow")) <= 1
                 /\ Len(OfKind(Turn, "follow")) = 1 /\ mark > 0 => Len(OfKind(Turn, "steer")) = 0)
<1>1. pending \o inject \in Seq(Message) BY ConcatProperties
<1>2. \A kind \in Kinds : OfKind(observed \o (pending \o inject), kind) = OfKind(observed, kind) \o OfKind(pending \o inject, kind)
  BY <1>1, ToldAndHeld
<1> QED BY <1>2 DEF QueuesAreLossless, Lossless, Held, OneSteeringMessagePerTurn, Turn, Kinds

\* And in the next state.
LEMMA FlowPropertiesNext ==
  ASSUME {observed', pending', inject'} \subseteq Seq(Message)
  PROVE  /\ ~(failed' /\ pc' # "failing") =>
              ((QueuesAreLossless' <=>
                 /\ OfKind(observed' \o (pending' \o inject'), "steer") \o steering' = Queued("steer", 0, sent'.steer)
                 /\ OfKind(observed' \o (pending' \o inject'), "follow") \o followUp' = Queued("follow", 0, sent'.follow)))
         /\ OneSteeringMessagePerTurn' <=>
              (turnOpen' /\ ~drainAll' =>
                 /\ Len(OfKind(Turn', "steer")) <= 1 /\ Len(OfKind(Turn', "follow")) <= 1
                 /\ Len(OfKind(Turn', "follow")) = 1 /\ mark' > 0 => Len(OfKind(Turn', "steer")) = 0)
<1>1. pending' \o inject' \in Seq(Message) BY ConcatProperties
<1>2. \A kind \in Kinds : OfKind(observed' \o (pending' \o inject'), kind)
                           = OfKind(observed', kind) \o OfKind(pending' \o inject', kind)
  BY <1>1, ToldAndHeld
<1> QED BY <1>2 DEF QueuesAreLossless, Lossless, Held, OneSteeringMessagePerTurn, Turn, Kinds

-----------------------------------------------------------------------------
(* Every step keeps the messages in their places. *)

\* A step that moves no message ...
Still ==
  /\ UNCHANGED <<pending, inject, observed, steering, followUp, sent, mark, drainAll, entry>>
  /\ turnOpen' => turnOpen
  /\ (failed' /\ pc' # "failing") <=> (failed /\ pc # "failing")
  /\ \/ pc' = pc /\ UNCHANGED <<reply, decision>>
     \/ pc' = "failing"
     \/ pc = "start" /\ pc' = "firstTurn"
     \/ pc = "prompts" /\ pc' = "promptsEnd"
     \/ pc = "queued" /\ pc' = "queuedEnd"
     \/ {pc, pc'} \cap (Opening \cup Holding \cup {"prepare"}) = {}
  /\ pc' \in {"promptsEnd", "queuedEnd"} => open' = IF pc' = pc THEN open ELSE Head(inject)

\* ... and replaces no context: it announces, asks, decides, fails or aborts.
Quiet ==
  /\ Still
  /\ \/ UNCHANGED <<messages, fresh, since>> /\ (pc \in Ending => pc' \in Ending)
     \/ pc' \in Ending

\* Most steps are quiet.
LEMMA QuietSteps ==
  ASSUME TypeInv, NestInv,
         \/ OpenStream \/ StreamAborts \/ HookFails \/ FailEnd \/ Abort \/ UNCHANGED vars
         \/ \E d \in Decisions : FinishTurn(d)
         \/ \E stop \in Stops : StreamEnds(stop)
         \/ \E ok \in BOOLEAN : \/ EmitAgentStart(ok) \/ OpenInjected(ok) \/ StreamStarts(ok) \/ EmitOwedStart(ok)
                               \/ EmitTurnEnd(ok) \/ EmitAgentEnd(ok)
                               \/ \E terminate \in BOOLEAN : RunTools(terminate, ok)
  PROVE  Quiet
<1> USE DEF TypeInv, NestInv, FailureIsUnwinding, Still, Quiet, Opening, Holding, Ending, Then, Announce, Settle,
            clientVars, queueVars, logVars, turnVars, eventVars
<1>1. CASE OpenStream BY <1>1 DEF OpenStream
<1>2. CASE StreamAborts BY <1>2 DEF StreamAborts
<1>3. CASE HookFails BY <1>3 DEF HookFails
<1>4. CASE FailEnd BY <1>4 DEF FailEnd
<1>5. CASE Abort BY <1>5 DEF Abort
<1>6. CASE UNCHANGED vars BY <1>6 DEF vars
<1>7. ASSUME NEW d \in Decisions, FinishTurn(d) PROVE Quiet BY <1>7 DEF FinishTurn
<1>8. ASSUME NEW stop \in Stops, StreamEnds(stop) PROVE Quiet BY <1>8 DEF StreamEnds
<1>9. ASSUME NEW ok \in BOOLEAN, EmitAgentStart(ok) PROVE Quiet BY <1>9 DEF EmitAgentStart
<1>10. ASSUME NEW ok \in BOOLEAN, OpenInjected(ok) PROVE Quiet BY <1>10 DEF OpenInjected
<1>11. ASSUME NEW ok \in BOOLEAN, StreamStarts(ok) PROVE Quiet BY <1>11 DEF StreamStarts
<1>12. ASSUME NEW ok \in BOOLEAN, EmitOwedStart(ok) PROVE Quiet BY <1>12 DEF EmitOwedStart
<1>13. ASSUME NEW ok \in BOOLEAN, EmitTurnEnd(ok) PROVE Quiet BY <1>13 DEF EmitTurnEnd
<1>14. ASSUME NEW ok \in BOOLEAN, EmitAgentEnd(ok) PROVE Quiet BY <1>14 DEF EmitAgentEnd
<1>15. ASSUME NEW ok \in BOOLEAN, NEW terminate \in BOOLEAN, RunTools(terminate, ok) PROVE Quiet
  BY <1>15 DEF RunTools
<1> QED BY <1>1, <1>2, <1>3, <1>4, <1>5, <1>6, <1>7, <1>8, <1>9, <1>10, <1>11, <1>12, <1>13, <1>14, <1>15

\* A step that moves no message keeps all but the agreement of the copies.
LEMMA StillKeepsFlow ==
  ASSUME TypeInv, FlowInv, Still, CopiesAgree'
  PROVE  FlowInv'
<1>1. UNCHANGED <<pending, inject, observed, steering, followUp, sent, mark, drainAll, entry>> BY DEF Still
<1>2. MessagesByPlace' BY <1>1 DEF FlowInv, MessagesByPlace, Still, Opening, Holding
<1>3. PlacesByTurn'
  <2>1. /\ pc' \in {"start", "firstTurn"} => pc \in {"start", "firstTurn"}
        /\ pc' \in {"prompts", "promptsEnd", "enter"} => pc \in {"prompts", "promptsEnd", "enter"}
        /\ pc' \in Opening => pc \in Opening
    BY DEF Still, Opening, Holding
  <2> HIDE DEF Opening
  <2>2. (OfKind(observed \o inject, "steer"))' = OfKind(observed \o inject, "steer") BY <1>1
  <2> QED BY <1>1, <2>1, <2>2 DEF FlowInv, PlacesByTurn
<1>4. NextTurnHasAReason' BY <1>1 DEF FlowInv, NextTurnHasAReason, HardExit, OwesResults, Still
<1>5. QueuesAreLossless' BY <1>1 DEF FlowInv, QueuesAreLossless, Lossless, Held, Still
<1>6. OneSteeringMessagePerTurn' BY <1>1 DEF FlowInv, OneSteeringMessagePerTurn, Still
<1> QED BY <1>2, <1>3, <1>4, <1>5, <1>6 DEF FlowInv

\* A quiet step keeps all of it.
LEMMA QuietKeepsFlow ==
  ASSUME TypeInv, FlowInv, Quiet
  PROVE  FlowInv'
<1>1. CopiesAgree'
  <2>1. CASE pc' \in Ending BY <2>1 DEF CopiesAgree
  <2>2. CASE pc' \notin Ending
    <3>1. pc \notin Ending /\ UNCHANGED <<messages, fresh, since, observed>> BY <2>2 DEF Quiet, Still
    <3> QED BY <3>1 DEF FlowInv, CopiesAgree
  <2> QED BY <2>1, <2>2
<1> QED BY <1>1, StillKeepsFlow DEF Quiet

\* The first turn begins.
LEMMA FirstTurnKeepsFlow ==
  ASSUME TypeInv, NestInv, FlowInv, NEW ok \in BOOLEAN, EmitFirstTurnStart(ok)
  PROVE  FlowInv'
<1>0. /\ {steering, followUp, pending, inject, observed} \subseteq Seq(Message) /\ mark \in 0..Len(observed)
      /\ Len(observed) \in Nat
  BY FlowTypes
<1>1. /\ pc = "firstTurn" /\ mark' = Len(observed)
      /\ pc' = (IF ok THEN IF inject = <<>> THEN "enter" ELSE "prompts" ELSE "failing") /\ failed' = ~ok
      /\ UNCHANGED <<pending, inject, observed, steering, followUp, sent, drainAll, entry, messages, fresh, since>>
  BY DEF EmitFirstTurnStart, Then, OpenTurn, clientVars, queueVars, logVars
<1>2. observed = <<>> /\ pending = <<>> /\ ~failed
  BY <1>1 DEF FlowInv, PlacesByTurn, MessagesByPlace, NestInv, FailureIsUnwinding
<1>3. Len(observed) = 0 BY <1>2
<1>4. MessagesByPlace' BY <1>1 DEF FlowInv, MessagesByPlace, Holding
<1>5. PlacesByTurn' BY <1>0, <1>1, <1>3 DEF FlowInv, PlacesByTurn, Opening
<1>6. CopiesAgree' BY <1>1 DEF FlowInv, CopiesAgree, Ending
<1>7. NextTurnHasAReason' BY <1>1 DEF NextTurnHasAReason
<1>8. QueuesAreLossless' BY <1>1, <1>2 DEF FlowInv, QueuesAreLossless, Lossless, Held
<1>9. OneSteeringMessagePerTurn'
  <2>1. Turn' = inject
    <3>1. SubSeq(observed, Len(observed) + 1, Len(observed)) \o inject = inject BY <1>0, TurnSteps
    <3> QED BY <1>1, <3>1 DEF Turn
  <2>2. ~drainAll => Len(inject) <= 1 BY <1>1 DEF FlowInv, PlacesByTurn
  <2>3. ASSUME NEW kind PROVE Len(OfKind(inject, kind)) <= Len(inject)
    BY <1>0, OfKindLength
  <2> QED BY <1>0, <1>1, <1>3, <2>1, <2>2, <2>3, FlowPropertiesNext
<1> QED BY <1>4, <1>5, <1>6, <1>7, <1>8, <1>9 DEF FlowInv

\* A message that is told goes to both of the loop's copies, or the run fails.
LEMMA ConcludeKeepsCopies ==
  ASSUME TypeInv, FlowInv, NEW ok \in BOOLEAN, Conclude(ok), open \in Message,
         pc \notin Ending, ~ok => pc' \in Ending
  PROVE  CopiesAgree'
<1>0. observed \in Seq(Message) /\ since \in Nat /\ Len(observed) \in Nat BY FlowTypes
<1>1. SUFFICES ASSUME ok PROVE CopiesAgree' BY DEF CopiesAgree
<1>2. /\ observed' = Append(observed, open) /\ messages' = Append(messages, open) /\ fresh' = Append(fresh, open)
      /\ since' = since
  BY <1>1 DEF Conclude
<1>3. fresh = observed /\ since <= Len(observed) BY DEF FlowInv, CopiesAgree
<1>4. PICK p \in {<<>>, <<Msg("context")>>} : messages = p \o SubSeq(observed, since + 1, Len(observed))
  BY DEF FlowInv, CopiesAgree
<1>5. p \in Seq(Message)
  <2>1. Msg("context") \in Message BY MsgType DEF Kinds
  <2>2. <<Msg("context")>> \in Seq(Message) /\ <<>> \in Seq(Message) BY <2>1
  <2>3. p = <<>> \/ p = <<Msg("context")>> OBVIOUS
  <2> QED BY <2>2, <2>3
<1> DEFINE b == SubSeq(observed, since + 1, Len(observed))
<1>6. b \in Seq(Message) /\ SubSeq(observed', since + 1, Len(observed')) = Append(b, open)
  <2>1. since \in 0..Len(observed) BY <1>0, <1>3
  <2> QED BY <1>0, <1>2, <2>1, Behind, ZenonT(30)
<1>7. messages' = Append(p \o b, open) BY <1>2, <1>4
<1> HIDE DEF b
<1>8. Append(p \o b, open) = p \o Append(b, open)
  <2>1. p \o b \in Seq(Message) /\ <<open>> \in Seq(Message) BY <1>5, <1>6, ConcatProperties
  <2>2. Append(p \o b, open) = (p \o b) \o <<open>> /\ Append(b, open) = b \o <<open>> BY <1>6, <2>1, AppendIsConcat
  <2>3. (p \o b) \o <<open>> = p \o (b \o <<open>>) BY <1>5, <1>6, <2>1, ConcatAssociative
  <2> QED BY <2>2, <2>3
<1>9. Len(observed') = Len(observed) + 1 BY <1>0, <1>2, AppendProperties
<1>10. since' <= Len(observed') BY <1>0, <1>2, <1>3, <1>9
<1>11. messages' = p \o SubSeq(observed', since' + 1, Len(observed')) BY <1>2, <1>6, <1>7, <1>8
<1> QED BY <1>2, <1>3, <1>10, <1>11 DEF CopiesAgree

\* A message held is told: it moves.
LEMMA InjectedKeepsFlow ==
  ASSUME TypeInv, NestInv, FlowInv, NEW ok \in BOOLEAN, CloseInjected(ok)
  PROVE  FlowInv'
<1>0. /\ {steering, followUp, pending, inject, observed} \subseteq Seq(Message) /\ mark \in 0..Len(observed)
      /\ Len(observed) \in Nat /\ mark \in Nat
  BY FlowTypes
<1>1. /\ pc \in {"promptsEnd", "queuedEnd"} /\ inject # <<>> /\ open = Head(inject) /\ open \in Message
      /\ inject \in Seq(Injected) /\ observed \in Seq(Told)
  BY DEF CloseInjected, TypeInv, HeldByPoint, FlowInv, MessagesByPlace
<1>2. /\ observed' = Append(observed, Head(inject)) /\ inject' = Tail(inject) /\ Conclude(ok)
      /\ UNCHANGED <<pending, steering, followUp, sent, mark, drainAll, entry, turnOpen>>
  BY <1>1 DEF CloseInjected, Conclude, clientVars, eventVars
<1>3. /\ pc' = IF ~ok THEN "failing" ELSE IF pc = "promptsEnd" THEN IF inject' # <<>> THEN "prompts" ELSE "enter"
                                                         ELSE IF inject' # <<>> THEN "queued" ELSE "request"
      /\ failed' = ~ok
  BY <1>1 DEF CloseInjected, Then
<1>4. pending = <<>> /\ ~failed
  BY <1>1 DEF FlowInv, MessagesByPlace, NestInv, FailureIsUnwinding
<1>5. Tail(inject) \in Seq(Injected) /\ Tail(inject) \in Seq(Message) /\ Head(inject) \in Told /\ Head(inject) \in Message
  BY <1>0, <1>1, HeadTailProperties, MessageKinds
<1>6. /\ Append(observed, Head(inject)) \in Seq(Told) /\ Append(observed, Head(inject)) \in Seq(Message)
      /\ Len(observed') = Len(observed) + 1
  BY <1>0, <1>1, <1>2, <1>5, AppendProperties
<1>7. observed' \o inject' = observed \o inject BY <1>0, <1>1, <1>2, ToldAndHeld
<1>8. MessagesByPlace' BY <1>2, <1>3, <1>4, <1>5, <1>6 DEF FlowInv, MessagesByPlace, Holding
<1>9. PlacesByTurn'
  <2>1. mark' <= Len(observed') /\ pc' \notin {"start", "firstTurn"} BY <1>0, <1>2, <1>3, <1>6
  <2>2. pc' \in Opening => pc \in {"promptsEnd"} /\ pc \in Opening BY <1>1, <1>3 DEF Opening
  <2>3. pc' \in {"prompts", "promptsEnd", "enter"} => pc = "promptsEnd" BY <1>1, <1>3
  <2>4. OfKind(observed' \o inject', "steer") = OfKind(observed \o inject, "steer") BY <1>7
  <2> HIDE DEF Opening
  <2> QED BY <1>2, <2>1, <2>2, <2>3, <2>4 DEF FlowInv, PlacesByTurn
<1>10. CopiesAgree'
  <2>1. pc \notin Ending /\ (~ok => pc' \in Ending) BY <1>1, <1>3 DEF Ending
  <2> QED BY <1>1, <1>2, <2>1, ConcludeKeepsCopies
<1>11. NextTurnHasAReason' BY <1>3 DEF NextTurnHasAReason
<1>12. QueuesAreLossless'
  <2>1. observed' \o (pending' \o inject') = observed \o (pending \o inject)
    <3>1. <<>> \o inject = inject /\ <<>> \o inject' = inject' BY <1>0, <1>2, <1>5, ConcatEmptySeq
    <3> QED BY <1>2, <1>4, <1>7, <3>1
  <2>2. ~(failed /\ pc # "failing") /\ ~(failed' /\ pc' # "failing") BY <1>3, <1>4
  <2>3. {observed', pending', inject'} \subseteq Seq(Message) BY <1>0, <1>2, <1>5, <1>6
  <2>4. QueuesAreLossless BY DEF FlowInv
  <2> QED BY <1>0, <1>2, <2>1, <2>2, <2>3, <2>4, FlowProperties, FlowPropertiesNext
<1>13. OneSteeringMessagePerTurn'
  <2>1. Turn' = Turn BY <1>0, <1>1, <1>2, TurnSteps DEF Turn
  <2>2. {observed', pending', inject'} \subseteq Seq(Message) BY <1>0, <1>2, <1>5, <1>6
  <2>3. OneSteeringMessagePerTurn BY DEF FlowInv
  <2> QED BY <1>0, <1>2, <2>1, <2>2, <2>3, FlowProperties, FlowPropertiesNext
<1> QED BY <1>8, <1>9, <1>10, <1>11, <1>12, <1>13 DEF FlowInv

\* A message that was held by nobody is told: an answer, or the results of its tools.
LEMMA ToldKeepsFlow ==
  ASSUME TypeInv, NestInv, IdleInv, FlowInv, NEW ok \in BOOLEAN, CloseAnswer(ok) \/ CloseResults(ok)
  PROVE  FlowInv'
<1>0. /\ {steering, followUp, pending, inject, observed} \subseteq Seq(Message) /\ mark \in 0..Len(observed)
      /\ Len(observed) \in Nat /\ mark \in Nat
  BY FlowTypes
<1>1. /\ pc \in {"close", "toolsEnd"} /\ open \in Message /\ open.kind \in {"assistant", "result", "finalResult"}
      /\ observed \in Seq(Told)
  BY DEF CloseAnswer, CloseResults, TypeInv, HeldByPoint, FlowInv, MessagesByPlace, IdleInv, AnswerIsOpen, Msg
<1>2. /\ observed' = Append(observed, open) /\ Conclude(ok)
      /\ UNCHANGED <<inject, pending, steering, followUp, sent, mark, drainAll, entry, turnOpen>>
  BY <1>1 DEF CloseAnswer, CloseResults, Conclude, clientVars, queueVars, eventVars
<1>3. pc' \in (IF ok THEN {"tools", "finish"} ELSE {"failing"}) /\ failed' = ~ok
  BY <1>1 DEF CloseAnswer, CloseResults, Then
<1>4. pending = <<>> /\ inject = <<>> /\ ~failed
  BY <1>1 DEF FlowInv, MessagesByPlace, NestInv, FailureIsUnwinding, Holding
<1>5. open \in Told BY <1>1 DEF Told, Message
<1>6. /\ Append(observed, open) \in Seq(Told) /\ Append(observed, open) \in Seq(Message)
      /\ Len(observed') = Len(observed) + 1
  BY <1>0, <1>1, <1>2, <1>5, AppendProperties
<1>7. {observed', pending', inject'} \subseteq Seq(Message) BY <1>0, <1>2, <1>6
<1>8. MessagesByPlace' BY <1>2, <1>3, <1>4, <1>6 DEF FlowInv, MessagesByPlace
<1>9. PlacesByTurn'
  <2>1. mark' <= Len(observed') /\ pc' \notin Opening BY <1>0, <1>2, <1>3, <1>6 DEF Opening
  <2>2. pc' \notin {"start", "firstTurn", "prompts", "promptsEnd", "enter"} BY <2>1 DEF Opening
  <2> HIDE DEF Opening
  <2> QED BY <1>2, <2>1, <2>2 DEF FlowInv, PlacesByTurn
<1>10. CopiesAgree'
  <2>1. pc \notin Ending /\ (~ok => pc' \in Ending) BY <1>1, <1>3 DEF Ending
  <2> QED BY <1>1, <1>2, <2>1, ConcludeKeepsCopies
<1>11. NextTurnHasAReason' BY <1>3 DEF NextTurnHasAReason
<1>12. QueuesAreLossless'
  <2>1. <<>> \o <<>> = <<>> /\ observed \o <<>> = observed /\ observed' \o <<>> = observed'
    BY <1>0, <1>7, ConcatEmptySeq
  <2>2. OfKind(observed', "steer") = OfKind(observed, "steer") /\ OfKind(observed', "follow") = OfKind(observed, "follow")
    <3>1. open.kind # "steer" /\ open.kind # "follow" BY <1>1
    <3>2. \A kind : \A m \in Message : m.kind # kind => OfKind(Append(observed, m), kind) = OfKind(observed, kind)
      BY <1>0, ToldAndHeld
    <3> QED BY <1>1, <1>2, <3>1, <3>2
  <2>3. ~(failed /\ pc # "failing") /\ ~(failed' /\ pc' # "failing") BY <1>3, <1>4
  <2>4. QueuesAreLossless BY DEF FlowInv
  <2> QED BY <1>0, <1>2, <1>4, <1>7, <2>1, <2>2, <2>3, <2>4, FlowProperties, FlowPropertiesNext
<1>13. OneSteeringMessagePerTurn'
  <2>1. OfKind(Turn', "steer") = OfKind(Turn, "steer") /\ OfKind(Turn', "follow") = OfKind(Turn, "follow")
    <3>1. open.kind # "steer" /\ open.kind # "follow" BY <1>1
    <3>2. \A m \in Message, kind \in Kinds : m.kind # kind =>
            OfKind(SubSeq(Append(observed, m), mark + 1, Len(Append(observed, m))) \o inject, kind)
              = OfKind(SubSeq(observed, mark + 1, Len(observed)) \o inject, kind)
      BY <1>0, TurnSteps, ZenonT(30)
    <3>3. "steer" \in Kinds /\ "follow" \in Kinds BY DEF Kinds
    <3> QED BY <1>1, <1>2, <3>1, <3>2, <3>3 DEF Turn
  <2>2. OneSteeringMessagePerTurn BY DEF FlowInv
  <2> QED BY <1>0, <1>2, <1>7, <2>1, <2>2, FlowProperties, FlowPropertiesNext
<1> QED BY <1>8, <1>9, <1>10, <1>11, <1>12, <1>13 DEF FlowInv

\* A context that replaces the loop's copy starts it anew.
LEMMA UpdateKeepsCopies ==
  ASSUME TypeInv, FlowInv, NEW updated, NEW replaced \in BOOLEAN, Update(updated, replaced), pc \notin Ending
  PROVE  CopiesAgree'
<1>0. observed \in Seq(Message) /\ Len(observed) \in Nat BY FlowTypes
<1>1. fresh' = fresh /\ observed' = observed /\ fresh = observed BY DEF Update, FlowInv, CopiesAgree
<1>2. CASE replaced
  <2>1. messages' = <<Msg("context")>> /\ since' = Len(observed) BY <1>2 DEF Update
  <2>2. SubSeq(observed, Len(observed) + 1, Len(observed)) = <<>> BY <1>0, SubSeqEmpty
  <2>3. <<Msg("context")>> \o <<>> = <<Msg("context")>> OBVIOUS
  <2> QED BY <1>0, <1>1, <2>1, <2>2, <2>3 DEF CopiesAgree
<1>3. CASE ~replaced
  <2>1. messages' = messages /\ since' = since BY <1>3 DEF Update
  <2> QED BY <1>1, <2>1 DEF FlowInv, CopiesAgree
<1> QED BY <1>2, <1>3

\* A request is prepared.
LEMMA RequestKeepsFlow ==
  ASSUME TypeInv, NestInv, FlowInv, NEW replaced \in BOOLEAN, PrepareRequest(replaced)
  PROVE  FlowInv'
<1>1. pc \notin Ending /\ Update(replaced, replaced) BY DEF PrepareRequest, Ending
<1>2. CopiesAgree' BY <1>1, UpdateKeepsCopies
<1>3. Still
  BY DEF PrepareRequest, Update, Still, Opening, Holding, NestInv, FailureIsUnwinding, clientVars, queueVars, logVars,
         turnVars, eventVars
<1> QED BY <1>2, <1>3, StillKeepsFlow

\* A batch taken from its queue: what is told, taken and left makes up what was told and queued.
LEMMA TakenKeepsOrder ==
  ASSUME NEW obs \in Seq(Message), NEW q \in Seq(Message), NEW kind
  PROVE  /\ OfKind(Batch(q), kind) = Batch(q) =>
              OfKind(obs \o Batch(q), kind) \o Remainder(q) = OfKind(obs, kind) \o q
         /\ OfKind(Batch(q), kind) = <<>> => OfKind(obs \o Batch(q), kind) = OfKind(obs, kind)
<1> DEFINE a == Batch(q)
           r == Remainder(q)
           x == OfKind(obs, kind)
<1>1. a \in Seq(Message) /\ r \in Seq(Message) /\ a \o r = q BY BatchFacts
<1> HIDE DEF a, r
<1>2. OfKind(obs \o a, kind) = x \o OfKind(a, kind) /\ x \in Seq(Message) BY <1>1, OfKindSteps
<1> HIDE DEF x
<1>3. (x \o a) \o r = x \o (a \o r)
  <2>1. a \in Seq(Message) /\ r \in Seq(Message) /\ x \in Seq(Message) BY <1>1, <1>2
  <2>2. x \o a \in Seq(Message) /\ a \o r \in Seq(Message) BY <2>1, ConcatProperties
  <2>3. (x \o a) \o r = x \o (a \o r) BY <2>1, <2>2, ConcatAssociative, SMTT(30)
  <2> QED BY <2>3
<1>4. x \o <<>> = x BY <1>2, ConcatEmptySeq
<1>5. OfKind(a, kind) = a => OfKind(obs \o a, kind) \o r = x \o q BY <1>1, <1>2, <1>3
<1>6. OfKind(a, kind) = <<>> => OfKind(obs \o a, kind) = x BY <1>2, <1>4
<1> QED BY <1>5, <1>6 DEF a, r, x

\* The two queues, taken from.
LEMMA TakenOfEither ==
  ASSUME NEW obs \in Seq(Message)
  PROVE  /\ \A q \in Seq(Steers) : /\ Batch(q) \in Seq(Message) /\ Remainder(q) \in Seq(Message)
                                   /\ OfKind(obs \o Batch(q), "steer") \o Remainder(q) = OfKind(obs, "steer") \o q
                                   /\ OfKind(obs \o Batch(q), "follow") = OfKind(obs, "follow")
         /\ \A q \in Seq(Follows) : /\ Batch(q) \in Seq(Message) /\ Remainder(q) \in Seq(Message)
                                    /\ OfKind(obs \o Batch(q), "follow") \o Remainder(q) = OfKind(obs, "follow") \o q
                                    /\ OfKind(obs \o Batch(q), "steer") = OfKind(obs, "steer")
<1>1. ASSUME NEW q \in Seq(Steers)
      PROVE  /\ Batch(q) \in Seq(Message) /\ Remainder(q) \in Seq(Message)
             /\ OfKind(obs \o Batch(q), "steer") \o Remainder(q) = OfKind(obs, "steer") \o q
             /\ OfKind(obs \o Batch(q), "follow") = OfKind(obs, "follow")
  <2>1. Batch(q) \in Seq(Steers) /\ Remainder(q) \in Seq(Steers) BY BatchFacts
  <2>2. OfKind(Batch(q), "steer") = Batch(q) /\ OfKind(Batch(q), "follow") = <<>> BY <2>1, KindsApart
  <2>3. q \in Seq(Message) /\ Batch(q) \in Seq(Message) /\ Remainder(q) \in Seq(Message) BY <2>1, SequencesOfMessages
  <2> QED BY <2>2, <2>3, TakenKeepsOrder
<1>2. ASSUME NEW q \in Seq(Follows)
      PROVE  /\ Batch(q) \in Seq(Message) /\ Remainder(q) \in Seq(Message)
             /\ OfKind(obs \o Batch(q), "follow") \o Remainder(q) = OfKind(obs, "follow") \o q
             /\ OfKind(obs \o Batch(q), "steer") = OfKind(obs, "steer")
  <2>1. Batch(q) \in Seq(Follows) /\ Remainder(q) \in Seq(Follows) BY BatchFacts
  <2>2. OfKind(Batch(q), "follow") = Batch(q) /\ OfKind(Batch(q), "steer") = <<>> BY <2>1, KindsApart
  <2>3. q \in Seq(Message) /\ Batch(q) \in Seq(Message) /\ Remainder(q) \in Seq(Message) BY <2>1, SequencesOfMessages
  <2> QED BY <2>2, <2>3, TakenKeepsOrder
<1> QED BY <1>1, <1>2

\* The first poll.
LEMMA InitialPollKeepsFlow ==
  ASSUME TypeInv, NestInv, FlowInv, InitialPoll
  PROVE  FlowInv'
<1>0. /\ {steering, followUp, pending, inject, observed} \subseteq Seq(Message) /\ mark \in 0..Len(observed)
      /\ Len(observed) \in Nat /\ mark \in Nat /\ <<>> \in Seq(Message)
  BY FlowTypes
<1>1. /\ pc = "enter" /\ pc' \in {"request", "queued"} /\ pc' = (IF inject' = <<>> THEN "request" ELSE "queued") /\ failed' = failed
      /\ UNCHANGED <<observed, pending, followUp, sent, mark, drainAll, entry, turnOpen, messages, fresh, since>>
  BY DEF InitialPoll, logVars, eventVars
<1>2. steering \in Seq(Steers) /\ followUp \in Seq(Follows) /\ inject = <<>> /\ pending = <<>> /\ mark = 0 /\ ~failed
  BY <1>1 DEF FlowInv, MessagesByPlace, PlacesByTurn, NestInv, FailureIsUnwinding, Holding
<1>3. /\ entry = "steeringDrain" => inject' = <<>> /\ steering' = steering
      /\ entry # "steeringDrain" => inject' = Batch(steering) /\ steering' = Remainder(steering)
  BY DEF InitialPoll, SkipInitialPoll
<1>4. /\ Batch(steering) \in Seq(Steers) /\ Remainder(steering) \in Seq(Steers) /\ (~drainAll => Len(Batch(steering)) <= 1)
      /\ Batch(steering) \in Seq(Message) /\ Remainder(steering) \in Seq(Message)
      /\ OfKind(observed \o Batch(steering), "steer") \o Remainder(steering) = OfKind(observed, "steer") \o steering
      /\ OfKind(observed \o Batch(steering), "follow") = OfKind(observed, "follow")
  <2>1. /\ Batch(steering) \in Seq(Steers) /\ Remainder(steering) \in Seq(Steers) /\ (~drainAll => Len(Batch(steering)) <= 1)
    BY <1>2, BatchFacts
  <2> QED BY <1>0, <1>2, <2>1, TakenOfEither
<1>5. inject' \in Seq(Steers) /\ steering' \in Seq(Steers) /\ inject' \in Seq(Message)
  <2>1. <<>> \in Seq(Steers) OBVIOUS
  <2>2. CASE entry = "steeringDrain" BY <1>0, <1>2, <1>3, <2>1, <2>2
  <2>3. CASE entry # "steeringDrain" BY <1>3, <1>4, <2>3
  <2> QED BY <2>2, <2>3
<1>6. {observed', pending', inject'} \subseteq Seq(Message) BY <1>0, <1>1, <1>5
<1>7. MessagesByPlace'
  <2>1. inject' \in Seq(Injected) BY <1>5, SequencesOfMessages
  <2> QED BY <1>1, <1>2, <1>5, <2>1 DEF FlowInv, MessagesByPlace, Holding
<1>8. PlacesByTurn' BY <1>1 DEF FlowInv, PlacesByTurn, Opening
<1>9. CopiesAgree' BY <1>1 DEF FlowInv, CopiesAgree, Ending
<1>10. NextTurnHasAReason' BY <1>1 DEF NextTurnHasAReason
<1>11. <<>> \o <<>> = <<>> /\ observed \o <<>> = observed /\ <<>> \o inject' = inject' BY <1>0, <1>5, ConcatEmptySeq
<1>12. QueuesAreLossless'
  <2>1. ~(failed /\ pc # "failing") /\ ~(failed' /\ pc' # "failing") /\ QueuesAreLossless BY <1>1, <1>2 DEF FlowInv
  <2>2. /\ OfKind(observed, "steer") \o steering = Queued("steer", 0, sent.steer)
        /\ OfKind(observed, "follow") \o followUp = Queued("follow", 0, sent.follow)
    BY <1>0, <1>2, <1>11, <2>1, FlowProperties
  <2>3. /\ OfKind(observed \o inject', "steer") \o steering' = OfKind(observed, "steer") \o steering
        /\ OfKind(observed \o inject', "follow") = OfKind(observed, "follow")
    BY <1>3, <1>4, <1>11
  <2> QED BY <1>1, <1>2, <1>6, <1>11, <2>1, <2>2, <2>3, FlowPropertiesNext
<1>13. OneSteeringMessagePerTurn'
  <2>1. SubSeq(observed, 1, Len(observed)) = observed BY <1>0, SubSeqFull
  <2>2. Turn = observed /\ Turn' = observed \o inject'
    <3>1. mark + 1 = 1 /\ mark' + 1 = 1 BY <1>1, <1>2
    <3>2. observed' = observed BY <1>1
    <3> QED BY <1>2, <1>11, <2>1, <3>1, <3>2 DEF Turn
  <2>3. turnOpen /\ ~drainAll => Len(OfKind(observed, "steer")) <= 1 /\ Len(OfKind(observed, "follow")) <= 1
    BY <1>0, <2>2, FlowProperties DEF FlowInv
  <2>4. OfKind(observed \o inject', "follow") = OfKind(observed, "follow") BY <1>3, <1>4, <1>11
  <2>5. turnOpen /\ ~drainAll => Len(OfKind(observed \o inject', "steer")) <= 1
    <3>1. CASE entry = "steeringDrain" BY <1>3, <1>11, <2>3, <3>1
    <3>2. CASE entry # "steeringDrain"
      <4>1. OfKind(observed, "steer") = <<>>
        <5>1. OfKind(observed \o inject, "steer") = <<>> BY <1>1, <3>2 DEF FlowInv, PlacesByTurn, Opening
        <5> QED BY <1>2, <1>11, <5>1
      <4>2. OfKind(observed \o inject', "steer") = OfKind(observed, "steer") \o OfKind(inject', "steer")
        BY <1>0, <1>5, ToldAndHeld
      <4>3. OfKind(inject', "steer") = inject' BY <1>5, KindsApart
      <4>4. OfKind(observed \o inject', "steer") = inject' BY <1>11, <4>1, <4>2, <4>3
      <4>5. inject' = Batch(steering) /\ (~drainAll => Len(Batch(steering)) <= 1) BY <1>3, <1>4, <3>2
      <4> QED BY <4>4, <4>5
    <3> QED BY <3>1, <3>2
  <2> QED BY <1>1, <1>2, <1>6, <2>2, <2>3, <2>4, <2>5, FlowPropertiesNext
<1> QED BY <1>7, <1>8, <1>9, <1>10, <1>12, <1>13 DEF FlowInv

\* What the polls between turns find in the run's hands: nothing.
LEMMA BetweenTurns ==
  ASSUME TypeInv, NestInv, FlowInv, pc \in {"prepare", "poll", "pollFollowUp"}
  PROVE  /\ {steering, followUp, pending, observed} \subseteq Seq(Message)
         /\ observed \in Seq(Told) /\ steering \in Seq(Steers) /\ followUp \in Seq(Follows)
         /\ inject = <<>> /\ ~failed /\ (pc # "prepare" => pending = <<>>)
         /\ OfKind(observed \o pending, "steer") \o steering = Queued("steer", 0, sent.steer)
         /\ OfKind(observed \o pending, "follow") \o followUp = Queued("follow", 0, sent.follow)
<1>1. {steering, followUp, pending, inject, observed} \subseteq Seq(Message) BY FlowTypes
<1>2. inject = <<>> /\ ~failed /\ (pc # "prepare" => pending = <<>>)
  BY DEF FlowInv, MessagesByPlace, Holding, NestInv, FailureIsUnwinding
<1>3. observed \in Seq(Told) /\ steering \in Seq(Steers) /\ followUp \in Seq(Follows) BY DEF FlowInv, MessagesByPlace
<1>4. pending \o <<>> = pending BY <1>1, ConcatEmptySeq
<1>5. QueuesAreLossless BY DEF FlowInv
<1>6. /\ OfKind(observed \o (pending \o inject), "steer") \o steering = Queued("steer", 0, sent.steer)
      /\ OfKind(observed \o (pending \o inject), "follow") \o followUp = Queued("follow", 0, sent.follow)
  BY <1>1, <1>2, <1>5, FlowProperties
<1> QED BY <1>1, <1>2, <1>3, <1>4, <1>6

\* The poll after a turn.
LEMMA PollSteeringKeepsFlow ==
  ASSUME TypeInv, NestInv, IdleInv, FlowInv, PollSteering
  PROVE  FlowInv'
<1>0. /\ mark \in 0..Len(observed) /\ Len(observed) \in Nat /\ <<>> \in Seq(Message) BY FlowTypes
<1>1. /\ pc = "poll" /\ pc' = (IF wantTools \/ pending' # <<>> THEN "prepare" ELSE "pollFollowUp") /\ failed' = failed
      /\ pending' = Batch(steering) /\ steering' = Remainder(steering)
      /\ UNCHANGED <<observed, inject, followUp, sent, mark, drainAll, entry, turnOpen, messages, fresh, since, reply, decision>>
  BY DEF PollSteering, logVars, eventVars
<1>2. /\ {steering, followUp, pending, observed} \subseteq Seq(Message)
      /\ steering \in Seq(Steers) /\ inject = <<>> /\ ~failed /\ pending = <<>>
      /\ OfKind(observed, "steer") \o steering = Queued("steer", 0, sent.steer)
      /\ OfKind(observed, "follow") \o followUp = Queued("follow", 0, sent.follow)
  <2>1. observed \in Seq(Message) /\ pending = <<>> BY <1>1, BetweenTurns
  <2>2. observed \o <<>> = observed BY <2>1, ConcatEmptySeq
  <2> QED BY <1>1, <2>1, <2>2, BetweenTurns
<1>3. /\ Batch(steering) \in Seq(Steers) /\ Remainder(steering) \in Seq(Steers) /\ (~drainAll => Len(Batch(steering)) <= 1)
      /\ Batch(steering) \in Seq(Message)
      /\ OfKind(observed \o Batch(steering), "steer") \o Remainder(steering) = OfKind(observed, "steer") \o steering
      /\ OfKind(observed \o Batch(steering), "follow") = OfKind(observed, "follow")
  <2>1. /\ Batch(steering) \in Seq(Steers) /\ Remainder(steering) \in Seq(Steers) /\ (~drainAll => Len(Batch(steering)) <= 1)
    BY <1>2, BatchFacts
  <2> QED BY <1>2, <2>1, TakenOfEither
<1>4. {observed', pending', inject'} \subseteq Seq(Message) BY <1>0, <1>1, <1>2, <1>3
<1>5. MessagesByPlace' BY <1>1, <1>2, <1>3 DEF FlowInv, MessagesByPlace, Holding
<1>6. PlacesByTurn' BY <1>1, <1>3 DEF FlowInv, PlacesByTurn, Opening
<1>7. CopiesAgree' BY <1>1 DEF FlowInv, CopiesAgree, Ending
<1>8. NextTurnHasAReason'
  <2>1. ~HardExit /\ decision # "end" /\ (wantTools <=> OwesResults) BY <1>1 DEF IdleInv, PollsAreFor, ToolsAreOwed
  <2>2. HardExit' = HardExit /\ OwesResults' = OwesResults BY <1>1 DEF HardExit, OwesResults
  <2> QED BY <1>1, <2>1, <2>2 DEF NextTurnHasAReason
<1>9. QueuesAreLossless'
  <2>1. Batch(steering) \o <<>> = Batch(steering) BY <1>3, ConcatEmptySeq
  <2>2. ~(failed' /\ pc' # "failing") BY <1>1, <1>2
  <2> QED BY <1>1, <1>2, <1>3, <1>4, <2>1, <2>2, FlowPropertiesNext
<1>10. OneSteeringMessagePerTurn' BY <1>1 DEF FlowInv, OneSteeringMessagePerTurn
<1> QED BY <1>5, <1>6, <1>7, <1>8, <1>9, <1>10 DEF FlowInv

\* The poll of the follow-ups.
LEMMA PollFollowUpKeepsFlow ==
  ASSUME TypeInv, NestInv, IdleInv, FlowInv, PollFollowUp
  PROVE  FlowInv'
<1>0. /\ mark \in 0..Len(observed) /\ Len(observed) \in Nat /\ <<>> \in Seq(Message) BY FlowTypes
<1>1. /\ pc = "pollFollowUp" /\ pc' = (IF pending' # <<>> \/ explicit THEN "prepare" ELSE "agentEnd") /\ failed' = failed
      /\ pending' = Batch(followUp) /\ followUp' = Remainder(followUp)
      /\ UNCHANGED <<observed, inject, steering, sent, mark, drainAll, entry, turnOpen, messages, fresh, since, reply, decision>>
  BY DEF PollFollowUp, logVars, eventVars
<1>2. /\ {steering, followUp, pending, observed} \subseteq Seq(Message)
      /\ followUp \in Seq(Follows) /\ inject = <<>> /\ ~failed /\ pending = <<>>
      /\ OfKind(observed, "steer") \o steering = Queued("steer", 0, sent.steer)
      /\ OfKind(observed, "follow") \o followUp = Queued("follow", 0, sent.follow)
  <2>1. observed \in Seq(Message) /\ pending = <<>> BY <1>1, BetweenTurns
  <2>2. observed \o <<>> = observed BY <2>1, ConcatEmptySeq
  <2> QED BY <1>1, <2>1, <2>2, BetweenTurns
<1>3. /\ Batch(followUp) \in Seq(Follows) /\ Remainder(followUp) \in Seq(Follows) /\ (~drainAll => Len(Batch(followUp)) <= 1)
      /\ Batch(followUp) \in Seq(Message)
      /\ OfKind(observed \o Batch(followUp), "follow") \o Remainder(followUp) = OfKind(observed, "follow") \o followUp
      /\ OfKind(observed \o Batch(followUp), "steer") = OfKind(observed, "steer")
  <2>1. /\ Batch(followUp) \in Seq(Follows) /\ Remainder(followUp) \in Seq(Follows) /\ (~drainAll => Len(Batch(followUp)) <= 1)
    BY <1>2, BatchFacts
  <2> QED BY <1>2, <2>1, TakenOfEither
<1>4. {observed', pending', inject'} \subseteq Seq(Message) BY <1>0, <1>1, <1>2, <1>3
<1>5. MessagesByPlace' BY <1>1, <1>2, <1>3 DEF FlowInv, MessagesByPlace, Holding
<1>6. PlacesByTurn' BY <1>1, <1>3 DEF FlowInv, PlacesByTurn, Opening
<1>7. CopiesAgree' BY <1>1 DEF FlowInv, CopiesAgree, Ending
<1>8. NextTurnHasAReason'
  <2>1. ~HardExit /\ decision # "end" /\ (explicit <=> decision = "continue") BY <1>1 DEF IdleInv, PollsAreFor
  <2>2. HardExit' = HardExit BY <1>1 DEF HardExit
  <2> QED BY <1>1, <2>1, <2>2 DEF NextTurnHasAReason
<1>9. QueuesAreLossless'
  <2>1. Batch(followUp) \o <<>> = Batch(followUp) BY <1>3, ConcatEmptySeq
  <2>2. ~(failed' /\ pc' # "failing") BY <1>1, <1>2
  <2> QED BY <1>1, <1>2, <1>3, <1>4, <2>1, <2>2, FlowPropertiesNext
<1>10. OneSteeringMessagePerTurn' BY <1>1 DEF FlowInv, OneSteeringMessagePerTurn
<1> QED BY <1>5, <1>6, <1>7, <1>8, <1>9, <1>10 DEF FlowInv

\* A message is queued: it is the last of those its queue was given.
LEMMA QueueingKeepsFlow ==
  ASSUME TypeInv, NestInv, FlowInv, Steer \/ FollowUp
  PROVE  FlowInv'
<1>0. /\ {steering, followUp, pending, inject, observed} \subseteq Seq(Message)
      /\ sent.steer \in Nat /\ sent.follow \in Nat /\ sent \in [steer : Nat, follow : Nat]
  BY FlowTypes
<1>1. /\ ~failed
      /\ UNCHANGED <<pc, failed, entry, drainAll, inject, pending, observed, messages, fresh, since, open, turnOpen, mark, reply, decision>>
  BY DEF Steer, FollowUp, queueVars, logVars, turnVars
<1>2. \/ /\ steering' = Append(steering, [kind |-> "steer", n |-> sent.steer + 1]) /\ followUp' = followUp
         /\ sent'.steer = sent.steer + 1 /\ sent'.follow = sent.follow
      \/ /\ followUp' = Append(followUp, [kind |-> "follow", n |-> sent.follow + 1]) /\ steering' = steering
         /\ sent'.follow = sent.follow + 1 /\ sent'.steer = sent.steer
  BY <1>0 DEF Steer, FollowUp
<1>3. /\ [kind |-> "steer", n |-> sent.steer + 1] \in Steers /\ [kind |-> "follow", n |-> sent.follow + 1] \in Follows
  BY <1>0 DEF Steers, Follows
<1>4. MessagesByPlace'
  <2>1. steering \in Seq(Steers) /\ followUp \in Seq(Follows) BY DEF FlowInv, MessagesByPlace
  <2>2. steering' \in Seq(Steers) /\ followUp' \in Seq(Follows) BY <1>2, <1>3, <2>1, AppendProperties
  <2> QED BY <1>1, <2>2 DEF FlowInv, MessagesByPlace
<1>5. PlacesByTurn' BY <1>1 DEF FlowInv, PlacesByTurn
<1>6. CopiesAgree' BY <1>1 DEF FlowInv, CopiesAgree
<1>7. NextTurnHasAReason' BY <1>1 DEF FlowInv, NextTurnHasAReason, HardExit, OwesResults
<1>8. QueuesAreLossless'
  <2> DEFINE a == OfKind(observed \o (pending \o inject), "steer")
             b == OfKind(observed \o (pending \o inject), "follow")
  <2>1. a \o steering = Queued("steer", 0, sent.steer) /\ b \o followUp = Queued("follow", 0, sent.follow)
    BY <1>0, <1>1, FlowProperties DEF FlowInv
  <2>2. a \in Seq(Message) /\ b \in Seq(Message)
    <3>1. observed \o (pending \o inject) \in Seq(Message) BY <1>0, ConcatProperties
    <3> QED BY <3>1, OfKindSteps
  <2>3. a' = a /\ b' = b BY <1>1
  <2> HIDE DEF a, b
  <2>4. \A x, q \in Seq(Message) : \A m \in Message : x \o Append(q, m) = Append(x \o q, m) OBVIOUS
  <2>5. \A n \in Nat : \A kind : Queued(kind, 0, n + 1) = Append(Queued(kind, 0, n), [kind |-> kind, n |-> n + 1]) BY QueuedNext
  <2>6. [kind |-> "steer", n |-> sent.steer + 1] \in Message /\ [kind |-> "follow", n |-> sent.follow + 1] \in Message
    BY <1>3, MessageKinds
  <2>7. a \o Append(steering, [kind |-> "steer", n |-> sent.steer + 1]) = Queued("steer", 0, sent.steer + 1)
    <3>1. a \o Append(steering, [kind |-> "steer", n |-> sent.steer + 1]) = Append(a \o steering, [kind |-> "steer", n |-> sent.steer + 1])
      BY <1>0, <2>2, <2>4, <2>6
    <3>2. Queued("steer", 0, sent.steer + 1) = Append(Queued("steer", 0, sent.steer), [kind |-> "steer", n |-> sent.steer + 1]) BY <1>0, <2>5
    <3> QED BY <2>1, <3>1, <3>2
  <2>8. b \o Append(followUp, [kind |-> "follow", n |-> sent.follow + 1]) = Queued("follow", 0, sent.follow + 1)
    <3>1. b \o Append(followUp, [kind |-> "follow", n |-> sent.follow + 1]) = Append(b \o followUp, [kind |-> "follow", n |-> sent.follow + 1])
      BY <1>0, <2>2, <2>4, <2>6
    <3>2. Queued("follow", 0, sent.follow + 1) = Append(Queued("follow", 0, sent.follow), [kind |-> "follow", n |-> sent.follow + 1]) BY <1>0, <2>5
    <3> QED BY <2>1, <3>1, <3>2
  <2>9. a \o steering' = Queued("steer", 0, sent'.steer) /\ b \o followUp' = Queued("follow", 0, sent'.follow)
    BY <1>2, <2>1, <2>7, <2>8
  <2>10. ~(failed' /\ pc' # "failing") /\ {observed', pending', inject'} \subseteq Seq(Message) BY <1>0, <1>1
  <2> QED BY <1>1, <2>3, <2>9, <2>10, FlowPropertiesNext DEF a, b
<1>9. OneSteeringMessagePerTurn' BY <1>1 DEF FlowInv, OneSteeringMessagePerTurn
<1> QED BY <1>4, <1>5, <1>6, <1>7, <1>8, <1>9 DEF FlowInv

\* A later turn begins: it holds what prepare_next_turn gave it and one batch.
LEMMA PrepareTurnKeepsFlow ==
  ASSUME TypeInv, NestInv, FlowInv, NEW u \in Updates, NEW ok \in BOOLEAN, PrepareTurn(u[1], u[2], ok)
  PROVE  FlowInv'
<1> DEFINE p == u[1]
           b == IF pending = <<>> THEN Batch(steering) ELSE pending
<1>0. mark \in 0..Len(observed) /\ Len(observed) \in Nat BY FlowTypes
<1>1. p \in Seq(Injected) /\ p \in Seq(Message) /\ OfKind(p, "steer") = <<>> /\ OfKind(p, "follow") = <<>> /\ u[2] \in BOOLEAN
  <2> DEFINE M == [kind : {"prepared"}, n : Nat]
  <2>1. u = <<<<>>, FALSE>> \/ u = <<<<Msg("prepared")>>, TRUE>> BY DEF Updates
  <2>2. p = <<>> \/ p = <<Msg("prepared")>>
    <3>1. CASE u = <<<<>>, FALSE>> BY <3>1
    <3>2. CASE u = <<<<Msg("prepared")>>, TRUE>> BY <3>2
    <3> QED BY <2>1, <3>1, <3>2
  <2>3. u[2] \in BOOLEAN
    <3>1. CASE u = <<<<>>, FALSE>> BY <3>1
    <3>2. CASE u = <<<<Msg("prepared")>>, TRUE>> BY <3>2
    <3> QED BY <2>1, <3>1, <3>2
  <2>4. Msg("prepared") \in M BY DEF Msg
  <2>5. M \cap [kind : {"steer"}, n : Nat] = {} /\ M \cap [kind : {"follow"}, n : Nat] = {} /\ M \subseteq Injected
    BY DEF Injected
  <2> HIDE DEF M, p
  <2>6. <<Msg("prepared")>> \in Seq(M) /\ <<>> \in Seq(M) BY <2>4
  <2>7. p \in Seq(M) BY <2>2, <2>6
  <2>8. OfKind(p, "steer") = <<>> /\ OfKind(p, "follow") = <<>> BY <2>5, <2>7, OfKindAllOrNone
  <2>9. p \in Seq(Injected) BY <2>5, <2>7, SeqMonotonic
  <2> QED BY <2>3, <2>8, <2>9, SequencesOfMessages
<1>2. /\ pc = "prepare" /\ failed' = ~ok
      /\ pc' = (IF ok THEN IF inject' = <<>> THEN "request" ELSE "queued" ELSE "failing")
      /\ inject' = p \o b /\ pending' = <<>> /\ mark' = Len(observed) /\ turnOpen'
      /\ steering' = IF pending = <<>> THEN Remainder(steering) ELSE steering
      /\ UNCHANGED <<observed, followUp, sent, drainAll, entry>>
  BY DEF PrepareTurn, OpenTurn, Then, Update
<1> HIDE DEF p
<1>3. /\ {steering, followUp, pending, observed} \subseteq Seq(Message)
      /\ observed \in Seq(Told) /\ steering \in Seq(Steers) /\ followUp \in Seq(Follows) /\ ~failed
      /\ pending \in Seq(Steers) \/ pending \in Seq(Follows)
      /\ OfKind(observed \o pending, "steer") \o steering = Queued("steer", 0, sent.steer)
      /\ OfKind(observed \o pending, "follow") \o followUp = Queued("follow", 0, sent.follow)
  BY <1>2, BetweenTurns DEF FlowInv, MessagesByPlace
<1>4. /\ Batch(steering) \in Seq(Steers) /\ Remainder(steering) \in Seq(Steers) /\ (~drainAll => Len(Batch(steering)) <= 1)
      /\ OfKind(observed \o Batch(steering), "steer") \o Remainder(steering) = OfKind(observed, "steer") \o steering
      /\ OfKind(observed \o Batch(steering), "follow") = OfKind(observed, "follow")
  <2>1. /\ Batch(steering) \in Seq(Steers) /\ Remainder(steering) \in Seq(Steers) /\ (~drainAll => Len(Batch(steering)) <= 1)
    BY <1>3, BatchFacts
  <2> QED BY <1>3, <2>1, TakenOfEither
<1>5. /\ b \in Seq(Steers) \/ b \in Seq(Follows)
      /\ ~drainAll => Len(b) <= 1
      /\ steering' \in Seq(Steers)
      /\ OfKind(observed \o b, "steer") \o steering' = Queued("steer", 0, sent.steer)
      /\ OfKind(observed \o b, "follow") \o followUp = Queued("follow", 0, sent.follow)
  <2>1. CASE pending = <<>>
    <3>1. observed \o pending = observed BY <1>3, <2>1, ConcatEmptySeq
    <3>2. b = Batch(steering) /\ steering' = Remainder(steering) BY <1>2, <2>1
    <3> QED BY <1>3, <1>4, <3>1, <3>2
  <2>2. CASE pending # <<>>
    <3>1. b = pending /\ steering' = steering BY <1>2, <2>2
    <3>2. ~drainAll => Len(pending) <= 1 BY DEF FlowInv, PlacesByTurn
    <3> QED BY <1>3, <3>1, <3>2
  <2> QED BY <2>1, <2>2
<1> HIDE DEF b
<1>6. b \in Seq(Injected) /\ b \in Seq(Message) BY <1>5, SequencesOfMessages
<1>7. inject' \in Seq(Injected) /\ inject' \in Seq(Message) BY <1>1, <1>2, <1>6, ConcatProperties
<1>8. OfKind(inject', "steer") = OfKind(b, "steer") /\ OfKind(inject', "follow") = OfKind(b, "follow")
  <2>1. \A kind : OfKind(p \o b, kind) = OfKind(p, kind) \o OfKind(b, kind) BY <1>1, <1>6, ToldAndHeld
  <2>2. \A kind : OfKind(b, kind) \in Seq(Message) BY <1>6, OfKindSteps
  <2>3. \A x \in Seq(Message) : <<>> \o x = x BY ConcatEmptySeq
  <2>4. <<>> \o OfKind(b, "steer") = OfKind(b, "steer") /\ <<>> \o OfKind(b, "follow") = OfKind(b, "follow") BY <2>2, <2>3
  <2> QED BY <1>1, <1>2, <2>1, <2>4
<1>9. {observed', pending', inject'} \subseteq Seq(Message)
  <2>1. <<>> \in Seq(Message) OBVIOUS
  <2> QED BY <1>2, <1>3, <1>7, <2>1
<1>10. MessagesByPlace'
  <2>1. <<>> \in Seq(Steers) OBVIOUS
  <2> QED BY <1>2, <1>3, <1>5, <1>7, <2>1 DEF MessagesByPlace, Holding
<1>11. PlacesByTurn'
  <2>1. Len(<<>>) = 0 OBVIOUS
  <2> QED BY <1>0, <1>2, <2>1 DEF PlacesByTurn, Opening
<1>12. CopiesAgree'
  <2>1. pc \notin Ending BY <1>2 DEF Ending
  <2>2. PICK updated \in BOOLEAN : Update(updated, u[2])
    <3>1. Update(u[2] \/ u[1] # <<>>, u[2]) /\ (u[2] \/ u[1] # <<>>) \in BOOLEAN BY <1>1 DEF PrepareTurn
    <3> QED BY <3>1
  <2> QED BY <1>1, <2>1, <2>2, UpdateKeepsCopies
<1>13. NextTurnHasAReason' BY <1>2 DEF NextTurnHasAReason
<1>14. QueuesAreLossless'
  <2>1. <<>> \o inject' = inject' BY <1>7, ConcatEmptySeq
  <2>2. ~(failed' /\ pc' # "failing") BY <1>2
  <2>3. \A kind : /\ OfKind(observed \o inject', kind) = OfKind(observed, kind) \o OfKind(inject', kind)
                  /\ OfKind(observed \o b, kind) = OfKind(observed, kind) \o OfKind(b, kind)
    BY <1>3, <1>6, <1>7, ToldAndHeld, ZenonT(30)
  <2>4. /\ OfKind(observed \o inject', "steer") = OfKind(observed \o b, "steer")
        /\ OfKind(observed \o inject', "follow") = OfKind(observed \o b, "follow")
    BY <1>8, <2>3
  <2>5. observed' \o (pending' \o inject') = observed \o inject' BY <1>2, <2>1
  <2> QED BY <1>2, <1>5, <1>9, <2>2, <2>4, <2>5, FlowPropertiesNext
<1>15. OneSteeringMessagePerTurn'
  <2>1. Turn' = inject'
    <3>1. SubSeq(observed, Len(observed) + 1, Len(observed)) \o inject' = inject' BY <1>0, <1>3, <1>7, TurnSteps
    <3> QED BY <1>2, <3>1 DEF Turn
  <2>2. \/ OfKind(b, "steer") = b /\ OfKind(b, "follow") = <<>>
        \/ OfKind(b, "follow") = b /\ OfKind(b, "steer") = <<>>
    BY <1>5, KindsApart
  <2>3. Len(<<>>) = 0 OBVIOUS
  <2>4. drainAll' = drainAll BY <1>2
  <2>5. Len(b) \in Nat BY <1>6, LenProperties
  <2>6. /\ OfKind(Turn', "steer") = OfKind(b, "steer") /\ OfKind(Turn', "follow") = OfKind(b, "follow")
    BY <1>8, <2>1
  <2>7. ~drainAll' => Len(b) <= 1 BY <1>5, <2>4
  <2>8. turnOpen' /\ ~drainAll' =>
          /\ Len(OfKind(Turn', "steer")) <= 1 /\ Len(OfKind(Turn', "follow")) <= 1
          /\ Len(OfKind(Turn', "follow")) = 1 /\ mark' > 0 => Len(OfKind(Turn', "steer")) = 0
    <3>1. CASE OfKind(b, "steer") = b /\ OfKind(b, "follow") = <<>> BY <2>3, <2>5, <2>6, <2>7, <3>1
    <3>2. CASE OfKind(b, "follow") = b /\ OfKind(b, "steer") = <<>> BY <2>3, <2>5, <2>6, <2>7, <3>2
    <3> QED BY <2>2, <3>1, <3>2
  <2> QED BY <1>9, <2>8, FlowPropertiesNext
<1> QED BY <1>10, <1>11, <1>12, <1>13, <1>14, <1>15 DEF FlowInv

\* The two ends of a sequence cut in three: what a failed run has told is the start of what the
\* queue was given, what is still queued is the end, and only what it held is lost.
LEMMA CutInThree ==
  ASSUME NEW a \in Seq(Message), NEW h \in Seq(Message), NEW q \in Seq(Message)
  PROVE  LET all == (a \o h) \o q
         IN  IsPrefix(a, all) /\ IsSuffix(q, all) /\ Len(a) + Len(q) <= Len(all)
<1> DEFINE all == (a \o h) \o q
           r == Reverse(q)
           R == Reverse(all)
<1>1. a \o h \in Seq(Message) /\ Len(a \o h) = Len(a) + Len(h) /\ (\A i \in 1..Len(a) : (a \o h)[i] = a[i])
  BY ConcatProperties
<1>2. /\ all \in Seq(Message) /\ Len(all) = Len(a) + Len(h) + Len(q)
      /\ \A i \in 1..Len(a) : all[i] = a[i]
      /\ \A i \in 1..Len(q) : all[Len(a) + Len(h) + i] = q[i]
  BY <1>1
<1>3. Len(a) \in Nat /\ Len(h) \in Nat /\ Len(q) \in Nat OBVIOUS
<1> HIDE DEF all
<1>4. IsPrefix(a, all)
  <2>1. SubSeq(a, 1, Len(a)) = a BY SubSeqFull
  <2>2. SubSeq(all, 1, Len(a)) \in Seq(Message) /\ Len(SubSeq(all, 1, Len(a))) = Len(a)
        /\ (\A i \in 1..Len(a) : SubSeq(all, 1, Len(a))[i] = all[i])
    BY <1>2, <1>3
  <2>3. SubSeq(all, 1, Len(a)) = a BY <1>2, <2>2, SeqEqual
  <2> QED BY <1>2, <1>3, <2>1, <2>3 DEF IsPrefix
<1>5. IsSuffix(q, all)
  <2>1. /\ r \in Seq(Message) /\ Len(r) = Len(q) /\ (\A i \in 1..Len(q) : r[i] = q[Len(q) - i + 1])
    BY <1>3 DEF Reverse
  <2>2. /\ R \in Seq(Message) /\ Len(R) = Len(all) /\ (\A i \in 1..Len(all) : R[i] = all[Len(all) - i + 1])
    BY <1>2, <1>3 DEF Reverse
  <2> HIDE DEF r, R
  <2>3. SubSeq(r, 1, Len(r)) = r BY <2>1, SubSeqFull
  <2>4. SubSeq(R, 1, Len(q)) \in Seq(Message) /\ Len(SubSeq(R, 1, Len(q))) = Len(q)
        /\ (\A i \in 1..Len(q) : SubSeq(R, 1, Len(q))[i] = R[i])
    BY <1>2, <1>3, <2>2
  <2>5. ASSUME NEW i \in 1..Len(q) PROVE R[i] = r[i]
    <3>1. R[i] = all[Len(all) - i + 1] BY <1>2, <1>3, <2>2
    <3>2. Len(all) - i + 1 = Len(a) + Len(h) + (Len(q) - i + 1) /\ Len(q) - i + 1 \in 1..Len(q) BY <1>2, <1>3
    <3>3. all[Len(a) + Len(h) + (Len(q) - i + 1)] = q[Len(q) - i + 1] BY <1>2, <3>2
    <3> QED BY <2>1, <3>1, <3>2, <3>3
  <2>6. SubSeq(R, 1, Len(q)) = r BY <2>1, <2>4, <2>5, SeqEqual
  <2>7. IsPrefix(r, R) BY <1>2, <1>3, <2>1, <2>2, <2>3, <2>6 DEF IsPrefix
  <2> QED BY <2>7 DEF IsSuffix, r, R
<1>6. Len(a) + Len(q) <= Len(all) BY <1>2, <1>3
<1> QED BY <1>4, <1>5, <1>6 DEF all

\* The failure's message: what the run held is lost with its frame, and nothing else.
LEMMA FailMessageKeepsFlow ==
  ASSUME TypeInv, NestInv, FlowInv, FailMessage
  PROVE  FlowInv'
<1>0. /\ {steering, followUp, pending, inject, observed} \subseteq Seq(Message) /\ mark \in 0..Len(observed)
      /\ Len(observed) \in Nat /\ mark \in Nat /\ <<>> \in Seq(Message) /\ pending \o inject \in Seq(Message)
      /\ sent.steer \in Nat /\ sent.follow \in Nat
  BY FlowTypes
<1>1. /\ pc = "failing" /\ pc' = "failEnd" /\ failed' = failed
      /\ observed' = Append(observed, Msg("failure")) /\ pending' = <<>> /\ inject' = <<>>
      /\ UNCHANGED <<steering, followUp, sent, mark, drainAll, entry, turnOpen>>
  BY DEF FailMessage, clientVars, eventVars
<1>2. failed BY <1>1 DEF NestInv, FailureIsUnwinding
<1>3. /\ Msg("failure") \in Told /\ Msg("failure") \in Message
      /\ Msg("failure").kind # "steer" /\ Msg("failure").kind # "follow"
  BY DEF Msg, Told, Message, Kinds
<1>4. /\ observed' \in Seq(Told) /\ observed' \in Seq(Message) /\ Len(observed') = Len(observed) + 1
  <2>1. observed \in Seq(Told) BY DEF FlowInv, MessagesByPlace
  <2> QED BY <1>0, <1>1, <1>3, <2>1, AppendProperties
<1>5. MessagesByPlace'
  <2>1. <<>> \in Seq(Steers) /\ <<>> \in Seq(Injected) OBVIOUS
  <2> QED BY <1>1, <1>4, <2>1 DEF FlowInv, MessagesByPlace
<1>6. PlacesByTurn'
  <2>1. Len(<<>>) = 0 OBVIOUS
  <2> QED BY <1>0, <1>1, <1>4, <2>1 DEF PlacesByTurn, Opening
<1>7. CopiesAgree' BY <1>1 DEF CopiesAgree, Ending
<1>8. NextTurnHasAReason' BY <1>1 DEF NextTurnHasAReason
<1>9. QueuesAreLossless'
  <2>1. /\ OfKind(observed', "steer") = OfKind(observed, "steer") /\ OfKind(observed', "follow") = OfKind(observed, "follow")
    <3>1. \A kind : \A m \in Message : m.kind # kind => OfKind(Append(observed, m), kind) = OfKind(observed, kind)
      BY <1>0, ToldAndHeld
    <3> QED BY <1>1, <1>3, <3>1
  <2>2. /\ (OfKind(observed, "steer") \o OfKind(pending \o inject, "steer")) \o steering = Queued("steer", 0, sent.steer)
        /\ (OfKind(observed, "follow") \o OfKind(pending \o inject, "follow")) \o followUp = Queued("follow", 0, sent.follow)
    BY <1>1 DEF FlowInv, QueuesAreLossless, Lossless, Held
  <2>3. \A kind : OfKind(observed, kind) \in Seq(Message) /\ OfKind(pending \o inject, kind) \in Seq(Message)
    BY <1>0, OfKindSteps
  <2>4. Len(Queued("steer", 0, sent.steer)) = sent.steer /\ Len(Queued("follow", 0, sent.follow)) = sent.follow
    BY <1>0, QueuedNext
  <2>5. \A a, h, q \in Seq(Message) : LET all == (a \o h) \o q
                                      IN  IsPrefix(a, all) /\ IsSuffix(q, all) /\ Len(a) + Len(q) <= Len(all)
    BY CutInThree
  <2>6. /\ IsPrefix(OfKind(observed, "steer"), Queued("steer", 0, sent.steer))
        /\ IsSuffix(steering, Queued("steer", 0, sent.steer))
        /\ Len(OfKind(observed, "steer")) + Len(steering) <= sent.steer
    BY <1>0, <2>2, <2>3, <2>4, <2>5
  <2>7. /\ IsPrefix(OfKind(observed, "follow"), Queued("follow", 0, sent.follow))
        /\ IsSuffix(followUp, Queued("follow", 0, sent.follow))
        /\ Len(OfKind(observed, "follow")) + Len(followUp) <= sent.follow
    BY <1>0, <2>2, <2>3, <2>4, <2>5
  <2> QED BY <1>1, <1>2, <2>1, <2>6, <2>7 DEF QueuesAreLossless, Lossless
<1>10. OneSteeringMessagePerTurn'
  <2> DEFINE n(kind) == Len(OfKind(Turn, kind))
  <2>1. OneSteeringMessagePerTurn BY DEF FlowInv
  <2>2. turnOpen /\ ~drainAll => /\ n("steer") <= 1 /\ n("follow") <= 1
                                 /\ n("follow") = 1 /\ mark > 0 => n("steer") = 0
    BY <1>0, <2>1, FlowProperties
  <2>3. \A kind : n(kind) \in Nat
    <3>1. Turn \in Seq(Message) BY FlowTypes
    <3>2. \A kind : OfKind(Turn, kind) \in Seq(Message) BY <3>1, OfKindSteps
    <3> QED BY <3>2, LenProperties
  <2>4. ASSUME NEW kind \in {"steer", "follow"} PROVE Len(OfKind(Turn', kind)) \in Nat /\ Len(OfKind(Turn', kind)) <= n(kind)
    <3>1. kind \in Kinds /\ Msg("failure").kind # kind BY <1>3 DEF Kinds
    <3>2. Turn' = SubSeq(Append(observed, Msg("failure")), mark + 1, Len(Append(observed, Msg("failure")))) \o <<>>
      BY <1>1 DEF Turn
    <3>3. OfKind(SubSeq(Append(observed, Msg("failure")), mark + 1, Len(Append(observed, Msg("failure")))) \o <<>>, kind)
            = OfKind(SubSeq(observed, mark + 1, Len(observed)) \o <<>>, kind)
      <4>1. \A m \in Message, k \in Kinds : m.kind # k =>
              OfKind(SubSeq(Append(observed, m), mark + 1, Len(Append(observed, m))) \o <<>>, k)
                = OfKind(SubSeq(observed, mark + 1, Len(observed)) \o <<>>, k)
        BY <1>0, TurnSteps, ZenonT(30)
      <4> QED BY <1>3, <3>1, <4>1
    <3>4. Len(OfKind(SubSeq(observed, mark + 1, Len(observed)) \o <<>>, kind)) <= n(kind)
      BY <1>0, <3>1, TurnSteps DEF Turn
    <3>5. SubSeq(observed, mark + 1, Len(observed)) \o <<>> \in Seq(Message) BY <1>0, TurnSteps
    <3>6. OfKind(SubSeq(observed, mark + 1, Len(observed)) \o <<>>, kind) \in Seq(Message) BY <3>5, OfKindSteps
    <3>7. Len(OfKind(SubSeq(observed, mark + 1, Len(observed)) \o <<>>, kind)) \in Nat BY <3>6, LenProperties
    <3> QED BY <3>2, <3>3, <3>4, <3>7
  <2>5. {observed', pending', inject'} \subseteq Seq(Message) BY <1>0, <1>1, <1>4
  <2> HIDE DEF n
  <2>6. turnOpen' = turnOpen /\ drainAll' = drainAll /\ mark' = mark BY <1>1
  <2>7. turnOpen' /\ ~drainAll' =>
          /\ Len(OfKind(Turn', "steer")) <= 1 /\ Len(OfKind(Turn', "follow")) <= 1
          /\ Len(OfKind(Turn', "follow")) = 1 /\ mark' > 0 => Len(OfKind(Turn', "steer")) = 0
    BY <2>2, <2>3, <2>4, <2>6
  <2> QED BY <2>5, <2>7, FlowPropertiesNext
<1> QED BY <1>5, <1>6, <1>7, <1>8, <1>9, <1>10 DEF FlowInv

\* What a run starts from: the queues hold all they were given but what was drained for the prompt.
LEMMA FlowInit == Init => FlowInv
<1> SUFFICES ASSUME Init PROVE FlowInv OBVIOUS
<1> PICK q \in 0..MaxSteer, f \in 0..MaxFollowUp :
       /\ sent = [steer |-> q, follow |-> f]
       /\ \/ /\ entry \in {"fresh", "resume"}
             /\ inject = IF entry = "fresh" THEN <<Msg("prompt")>> ELSE <<>>
             /\ steering = Queued("steer", 0, q)
             /\ followUp = Queued("follow", 0, f)
          \/ /\ entry = "steeringDrain"
             /\ inject = Batch(Queued("steer", 0, q))
             /\ steering = Remainder(Queued("steer", 0, q))
             /\ followUp = Queued("follow", 0, f)
          \/ /\ entry = "followUpDrain" /\ q = 0
             /\ inject = Batch(Queued("follow", 0, f))
             /\ steering = <<>>
             /\ followUp = Remainder(Queued("follow", 0, f))
  BY DEF Init
<1> DEFINE S == Queued("steer", 0, q)
           F == Queued("follow", 0, f)
           Split ==
             /\ steering \in Seq(Steers) /\ followUp \in Seq(Follows) /\ inject \in Seq(Injected)
             /\ OfKind(inject, "steer") \o steering = S /\ OfKind(inject, "follow") \o followUp = F
             /\ entry # "steeringDrain" => OfKind(inject, "steer") = <<>>
             /\ ~drainAll => Len(inject) <= 1
<1>1. q \in Nat /\ f \in Nat BY BoundsAssumption
<1>2. S \in Seq(Steers) /\ F \in Seq(Follows) /\ (q = 0 => S = <<>>)
  <2>1. S \in Seq([kind : {"steer"}, n : Nat]) /\ F \in Seq([kind : {"follow"}, n : Nat]) /\ Len(S) = q
    BY <1>1, QueuedNext
  <2> HIDE DEF S, F
  <2>2. S \in Seq(Steers) /\ F \in Seq(Follows) BY <2>1 DEF Steers, Follows
  <2>3. q = 0 => S = <<>> BY <2>1
  <2> QED BY <2>2, <2>3
<1>3. S \in Seq(Message) /\ F \in Seq(Message) BY <1>2, SequencesOfMessages
<1>4. <<>> \o S = S /\ <<>> \o F = F BY <1>3, ConcatEmptySeq
<1>5. sent.steer = q /\ sent.follow = f OBVIOUS
<1>6. ASSUME entry \in {"fresh", "resume"} PROVE Split
  <2> DEFINE M == [kind : {"prompt"}, n : Nat]
  <2>1. Msg("prompt") \in M BY DEF Msg
  <2>2. M \cap [kind : {"steer"}, n : Nat] = {} /\ M \cap [kind : {"follow"}, n : Nat] = {} /\ M \subseteq Injected
    BY DEF Injected
  <2> HIDE DEF M, S, F
  <2>3. <<Msg("prompt")>> \in Seq(M) /\ <<>> \in Seq(M) /\ Len(<<>>) = 0 /\ Len(<<Msg("prompt")>>) = 1 BY <2>1
  <2>4. inject \in Seq(M) /\ Len(inject) <= 1
    <3>1. inject = <<Msg("prompt")>> \/ inject = <<>> BY <1>6
    <3>2. CASE inject = <<Msg("prompt")>> BY <2>3, <3>2
    <3>3. CASE inject = <<>> BY <2>3, <3>3
    <3> QED BY <3>1, <3>2, <3>3
  <2>5. OfKind(inject, "steer") = <<>> /\ OfKind(inject, "follow") = <<>> BY <2>2, <2>4, OfKindAllOrNone
  <2>6. inject \in Seq(Injected) BY <2>2, <2>4, SeqMonotonic
  <2>7. steering = S /\ followUp = F BY <1>6 DEF S, F
  <2> QED BY <1>2, <1>4, <2>4, <2>5, <2>6, <2>7
<1>7. ASSUME entry = "steeringDrain" PROVE Split
  <2> HIDE DEF S, F
  <2>1. inject = Batch(S) /\ steering = Remainder(S) /\ followUp = F BY <1>7 DEF S, F
  <2>2. inject \in Seq(Steers) /\ steering \in Seq(Steers) /\ inject \o steering = S /\ (~drainAll => Len(inject) <= 1)
    BY <1>2, <2>1, BatchFacts
  <2>3. OfKind(inject, "steer") = inject /\ OfKind(inject, "follow") = <<>> BY <2>2, KindsApart
  <2>4. inject \in Seq(Injected) BY <2>2, SequencesOfMessages
  <2> QED BY <1>2, <1>4, <1>7, <2>1, <2>2, <2>3, <2>4
<1>8. ASSUME entry = "followUpDrain", q = 0 PROVE Split
  <2> HIDE DEF S, F
  <2>1. inject = Batch(F) /\ steering = <<>> /\ followUp = Remainder(F) BY <1>8 DEF S, F
  <2>2. inject \in Seq(Follows) /\ followUp \in Seq(Follows) /\ inject \o followUp = F /\ (~drainAll => Len(inject) <= 1)
    BY <1>2, <2>1, BatchFacts
  <2>3. OfKind(inject, "follow") = inject /\ OfKind(inject, "steer") = <<>> BY <2>2, KindsApart
  <2>4. inject \in Seq(Injected) BY <2>2, SequencesOfMessages
  <2> QED BY <1>2, <1>4, <1>8, <2>1, <2>2, <2>3, <2>4
<1>9. Split
  <2>1. entry \in {"fresh", "resume"} \/ entry = "steeringDrain" \/ (entry = "followUpDrain" /\ q = 0) OBVIOUS
  <2> HIDE DEF Split
  <2> QED BY <1>6, <1>7, <1>8, <2>1
<1> HIDE DEF S, F
<1>10. /\ pc = "start" /\ failed = FALSE /\ turnOpen = FALSE /\ pending = <<>> /\ observed = <<>>
       /\ messages = <<>> /\ fresh = <<>> /\ mark = 0 /\ since = 0
  BY DEF Init
<1>11. <<>> \in Seq(Message) /\ <<>> \in Seq(Steers) /\ <<>> \in Seq(Told) /\ Len(<<>>) = 0 OBVIOUS
<1>12. inject \in Seq(Message) /\ steering \in Seq(Message) /\ followUp \in Seq(Message)
  BY <1>9, SequencesOfMessages
<1>13. observed \o (pending \o inject) = inject /\ observed \o inject = inject
  BY <1>10, <1>12, ConcatEmptySeq
<1>14. MessagesByPlace BY <1>9, <1>10, <1>11 DEF MessagesByPlace, Holding
<1>15. PlacesByTurn BY <1>9, <1>10, <1>11, <1>13 DEF PlacesByTurn
<1>16. CopiesAgree
  <2>1. SubSeq(observed, since + 1, Len(observed)) = <<>> BY <1>10, <1>11, TurnSteps
  <2>2. <<>> \o <<>> = <<>> BY <1>11, ConcatEmptySeq
  <2>3. <<>> \in {<<>>, <<Msg("context")>>} /\ messages = <<>> \o SubSeq(observed, since + 1, Len(observed))
    BY <1>10, <2>1, <2>2
  <2> QED BY <1>10, <1>11, <2>3 DEF CopiesAgree
<1>17. NextTurnHasAReason BY <1>10 DEF NextTurnHasAReason
<1>18. QueuesAreLossless
  <2>1. {observed, pending, inject} \subseteq Seq(Message) BY <1>10, <1>11, <1>12
  <2>2. OfKind(inject, "steer") \o steering = Queued("steer", 0, sent.steer)
    BY <1>5, <1>9 DEF S
  <2>3. OfKind(inject, "follow") \o followUp = Queued("follow", 0, sent.follow)
    BY <1>5, <1>9 DEF F
  <2> QED BY <1>10, <1>13, <2>1, <2>2, <2>3, FlowProperties
<1>19. OneSteeringMessagePerTurn BY <1>10 DEF OneSteeringMessagePerTurn
<1> QED BY <1>14, <1>15, <1>16, <1>17, <1>18, <1>19 DEF FlowInv

\* Every step keeps the flow.
LEMMA FlowStep == TypeInv /\ NestInv /\ IdleInv /\ FlowInv /\ [Next]_vars => FlowInv'
<1> SUFFICES ASSUME TypeInv, NestInv, IdleInv, FlowInv, [Next]_vars PROVE FlowInv' OBVIOUS
<1>1. ASSUME NEW ok \in BOOLEAN, EmitFirstTurnStart(ok) PROVE FlowInv' BY <1>1, FirstTurnKeepsFlow
<1>2. ASSUME NEW ok \in BOOLEAN, CloseInjected(ok) PROVE FlowInv' BY <1>2, InjectedKeepsFlow
<1>3. ASSUME NEW ok \in BOOLEAN, CloseAnswer(ok) \/ CloseResults(ok) PROVE FlowInv' BY <1>3, ToldKeepsFlow
<1>4. ASSUME NEW replaced \in BOOLEAN, PrepareRequest(replaced) PROVE FlowInv' BY <1>4, RequestKeepsFlow
<1>5. CASE InitialPoll BY <1>5, InitialPollKeepsFlow
<1>6. CASE PollSteering BY <1>6, PollSteeringKeepsFlow
<1>7. CASE PollFollowUp BY <1>7, PollFollowUpKeepsFlow
<1>8. CASE Steer \/ FollowUp BY <1>8, QueueingKeepsFlow
<1>9. ASSUME NEW ok \in BOOLEAN, NEW u \in Updates, PrepareTurn(u[1], u[2], ok) PROVE FlowInv'
  BY <1>9, PrepareTurnKeepsFlow
<1>10. CASE FailMessage BY <1>10, FailMessageKeepsFlow
<1>11. CASE \/ OpenStream \/ StreamAborts \/ HookFails \/ FailEnd \/ Abort \/ UNCHANGED vars
            \/ \E d \in Decisions : FinishTurn(d)
            \/ \E stop \in Stops : StreamEnds(stop)
            \/ \E ok \in BOOLEAN : \/ EmitAgentStart(ok) \/ OpenInjected(ok) \/ StreamStarts(ok) \/ EmitOwedStart(ok)
                                   \/ EmitTurnEnd(ok) \/ EmitAgentEnd(ok)
                                   \/ \E terminate \in BOOLEAN : RunTools(terminate, ok)
  <2>1. Quiet BY <1>11, QuietSteps
  <2> QED BY <2>1, QuietKeepsFlow
<1> QED BY <1>1, <1>2, <1>3, <1>4, <1>5, <1>6, <1>7, <1>8, <1>9, <1>10, <1>11 DEF Next, Loop, Provider, Client

\* The flow of messages holds in every state, for every bound.
LEMMA FlowHolds == Spec => [](TypeInv /\ NestInv /\ IdleInv /\ FlowInv)
<1>1. Init => IdleInv
  BY DEF Init, IdleInv, AnswerIsOpen, ToolsAreOwed, PollsAreFor, EndsOnlyWhenIdle
<1>2. Init => NestInv
  BY DEF Init, NestInv, FailureIsUnwinding, OpenByPoint, EndsByPoint, Between, Silent, Telling
<1> QED BY <1>1, <1>2, FlowInit, NestStep, IdleStep, FlowStep, TypesHold, PTL DEF Spec

\* AgentLoop's QueuesDeliver, for every bound: from the client's queues through the drained batch
\* and the turn's messages to the transcript nothing is lost, doubled or reordered, and in
\* one-at-a-time mode no turn takes two messages of a queue.
THEOREM QueuesDeliverAlways == Spec => []QueuesDeliver
<1>1. FlowInv => QueuesDeliver BY DEF FlowInv, QueuesDeliver
<1> QED BY <1>1, FlowHolds, PTL

\* AgentLoop's RequestsSeeTheTranscript, for every bound: the provider is asked with what
\* subscribers were told, and agent_end carries it.
THEOREM RequestsSeeTheTranscriptAlways == Spec => []RequestsSeeTheTranscript
<1>1. ASSUME TypeInv, FlowInv PROVE RequestsSeeTheTranscript
  <2>1. pc = "agentEnd" => fresh = observed BY <1>1 DEF FlowInv, CopiesAgree, Ending
  <2>2. ASSUME pc = "stream"
        PROVE  messages = (IF OfKind(messages, "context") = <<>> THEN <<>> ELSE <<Msg("context")>>)
                            \o SubSeq(observed, since + 1, Len(observed))
    <3> DEFINE b == SubSeq(observed, since + 1, Len(observed))
               c == <<Msg("context")>>
    <3>1. /\ since <= Len(observed) /\ since \in Nat /\ Len(observed) \in Nat
          /\ messages = <<>> \o b \/ messages = c \o b
          /\ observed \in Seq(Told)
      BY <1>1, <2>2, FlowTypes DEF FlowInv, CopiesAgree, Ending, MessagesByPlace
    <3>2. b \in Seq(Told) BY <3>1, Behind
    <3>3. Msg("context") \in [kind : {"context"}, n : Nat] /\ Msg("context") \in Message BY DEF Msg, Message, Kinds
    <3>4. c \in Seq([kind : {"context"}, n : Nat]) /\ c \in Seq(Message) /\ c # <<>> BY <3>3
    <3> HIDE DEF b, c
    <3>5. b \in Seq(Message) /\ OfKind(b, "context") = <<>> BY <3>2, KindsApart, SequencesOfMessages
    <3>6. OfKind(c, "context") = c BY <3>4, OfKindAllOrNone
    <3>7. \A t \in Seq(Message) : OfKind(c \o t, "context") = OfKind(c, "context") \o OfKind(t, "context")
      BY <3>4, OfKindSteps
    <3>8. <<>> \o b = b /\ c \o <<>> = c BY <3>4, <3>5, ConcatEmptySeq
    <3>9. OfKind(c \o b, "context") = c BY <3>5, <3>6, <3>7, <3>8
    <3>10. messages = (IF OfKind(messages, "context") = <<>> THEN <<>> ELSE c) \o b
      <4>1. CASE messages = <<>> \o b BY <3>5, <3>8, <4>1
      <4>2. CASE messages = c \o b BY <3>4, <3>9, <4>2
      <4> QED BY <3>1, <4>1, <4>2
    <3> QED BY <3>10 DEF b, c
  <2> QED BY <2>1, <2>2 DEF RequestsSeeTheTranscript
<1> QED BY <1>1, FlowHolds, PTL

\* A turn after the first opens where a turn was prepared, and carries what it was prepared for.
LEMMA PreparedTurnHasAReason ==
  ASSUME TypeInv, NestInv, FlowInv, NEW u \in Updates, NEW ok \in BOOLEAN, PrepareTurn(u[1], u[2], ok)
  PROVE  /\ ~HardExit /\ decision # "end"
         /\ \/ OwesResults
            \/ decision = "continue"
            \/ OfKind(inject', "steer") \o OfKind(inject', "follow") # <<>>
<1>1. /\ ~HardExit /\ decision # "end"
      /\ OwesResults \/ decision = "continue" \/ pending # <<>>
  BY DEF PrepareTurn, FlowInv, NextTurnHasAReason
<1>2. ASSUME pending # <<>> PROVE OfKind(inject', "steer") \o OfKind(inject', "follow") # <<>>
  <2>1. inject' = u[1] \o pending BY <1>2 DEF PrepareTurn
  <2>2. u[1] \in Seq(Message)
    <3>1. Msg("prepared") \in Message BY DEF Msg, Message, Kinds
    <3>2. <<Msg("prepared")>> \in Seq(Message) /\ <<>> \in Seq(Message) BY <3>1
    <3>3. CASE u = <<<<>>, FALSE>> BY <3>2, <3>3
    <3>4. CASE u = <<<<Msg("prepared")>>, TRUE>> BY <3>2, <3>4
    <3> QED BY <3>3, <3>4 DEF Updates
  <2>3. pending \in Seq(Steers) \/ pending \in Seq(Follows) BY DEF FlowInv, MessagesByPlace
  <2>4. pending \in Seq(Message) /\ Len(pending) \in Nat /\ Len(pending) > 0
    BY <1>2, <2>3, SequencesOfMessages, LenProperties, EmptySeq
  <2>5. \A kind : /\ OfKind(u[1] \o pending, kind) = OfKind(u[1], kind) \o OfKind(pending, kind)
                  /\ OfKind(u[1], kind) \in Seq(Message) /\ OfKind(pending, kind) \in Seq(Message)
    BY <2>2, <2>4, OfKindSteps
  <2>6. ASSUME NEW kind
        PROVE  /\ OfKind(inject', kind) \in Seq(Message)
               /\ Len(OfKind(inject', kind)) = Len(OfKind(u[1], kind)) + Len(OfKind(pending, kind))
    <3> DEFINE a == OfKind(u[1], kind)
               c == OfKind(pending, kind)
    <3>1. OfKind(inject', kind) = a \o c /\ a \in Seq(Message) /\ c \in Seq(Message) BY <2>1, <2>5
    <3> HIDE DEF a, c
    <3>2. a \o c \in Seq(Message) /\ Len(a \o c) = Len(a) + Len(c) BY <3>1, ConcatProperties
    <3> QED BY <3>1, <3>2 DEF a, c
  <2>7. \A kind : /\ Len(OfKind(u[1], kind)) \in Nat /\ Len(OfKind(pending, kind)) \in Nat
                  /\ Len(OfKind(inject', kind)) \in Nat
    BY <2>5, <2>6, LenProperties
  <2>8. OfKind(pending, "steer") = pending \/ OfKind(pending, "follow") = pending BY <2>3, KindsApart
  <2>9. Len(OfKind(inject', "steer")) + Len(OfKind(inject', "follow")) > 0 BY <2>4, <2>6, <2>7, <2>8
  <2>10. Len(OfKind(inject', "steer") \o OfKind(inject', "follow"))
           = Len(OfKind(inject', "steer")) + Len(OfKind(inject', "follow"))
    BY <2>6, ConcatProperties
  <2> QED BY <2>9, <2>10, EmptySeq
<1> QED BY <1>1, <1>2

\* AgentLoop's TurnsHaveAReason, for every bound: a later turn answers tool results, delivers a
\* queued message or was asked for by finish_turn, and never follows a hard exit or an end.
THEOREM TurnsHaveAReasonAlways == Spec => TurnsHaveAReason
<1> DEFINE Reason ==
             ~turnOpen /\ turnOpen' /\ pc # "firstTurn" =>
               /\ ~HardExit /\ decision # "end"
               /\ \/ OwesResults
                  \/ decision = "continue"
                  \/ OfKind(inject', "steer") \o OfKind(inject', "follow") # <<>>
<1>1. TypeInv /\ NestInv /\ IdleInv /\ FlowInv /\ [Next]_vars => [Reason]_vars
  <2> SUFFICES ASSUME TypeInv, NestInv, FlowInv, Next, ~turnOpen, turnOpen', pc # "firstTurn"
               PROVE  Reason
    OBVIOUS
  <2>1. PICK ok \in BOOLEAN, u \in Updates : PrepareTurn(u[1], u[2], ok)
    <3>1. CASE Loop
      <4> USE DEF clientVars, queueVars, logVars, turnVars, eventVars
      <4>1. ~(\/ InitialPoll \/ PollSteering \/ PollFollowUp \/ OpenStream \/ StreamAborts \/ HookFails
              \/ FailMessage \/ FailEnd
              \/ \E d \in Decisions : FinishTurn(d)
              \/ \E replaced \in BOOLEAN : PrepareRequest(replaced))
        BY DEF InitialPoll, PollSteering, PollFollowUp, OpenStream, StreamAborts, HookFails, FailMessage, FailEnd,
               FinishTurn, PrepareRequest, Settle
      <4>2. ~\E ok \in BOOLEAN : \/ EmitAgentStart(ok) \/ EmitFirstTurnStart(ok) \/ OpenInjected(ok)
                                 \/ CloseInjected(ok) \/ EmitOwedStart(ok) \/ CloseAnswer(ok) \/ CloseResults(ok)
                                 \/ EmitTurnEnd(ok) \/ EmitAgentEnd(ok)
                                 \/ \E terminate \in BOOLEAN : RunTools(terminate, ok)
        BY DEF EmitAgentStart, EmitFirstTurnStart, OpenInjected, CloseInjected, EmitOwedStart, CloseAnswer,
               CloseResults, EmitTurnEnd, EmitAgentEnd, RunTools
      <4> QED BY <3>1, <4>1, <4>2 DEF Loop
    <3>2. ~Provider BY DEF Provider, StreamStarts, StreamEnds, Settle, eventVars
    <3>3. ~Client BY DEF Client, Steer, FollowUp, Abort, eventVars
    <3> QED BY <3>1, <3>2, <3>3 DEF Next
  <2> QED BY <2>1, PreparedTurnHasAReason
<1>2. Spec => [][Reason]_vars
  <2> HIDE DEF Reason
  <2> QED BY <1>1, FlowHolds, PTL DEF Spec
<1> QED BY <1>2 DEF TurnsHaveAReason
=============================================================================
