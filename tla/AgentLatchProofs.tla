-------------------------- MODULE AgentLatchProofs --------------------------
(***************************************************************************)
(* AgentLatch for every set of callers and runs: its type invariant, the   *)
(* three invariants that make the latch one, and its messages: a run's     *)
(* copy of the transcript, and the order of what is queued.                *)
(***************************************************************************)
EXTENDS AgentLatch, SequenceTheorems, TLAPS

-----------------------------------------------------------------------------
(* The queue operators on typed sequences. *)

LEMMA BatchType ==
  ASSUME NEW queue \in Seq(Message)
  PROVE  Batch(queue) \in Seq(Message)
BY DEF Batch

LEMMA RemainderType ==
  ASSUME NEW queue \in Seq(Message)
  PROVE  Remainder(queue) \in Seq(Message)
BY DEF Remainder

LEMMA EmptyType == <<>> \in Seq(Message)
OBVIOUS

LEMMA FreshType ==
  ASSUME NEW source \in Sources, born \in Nat
  PROVE  Fresh(source) \in Message
BY DEF Fresh, Message

LEMMA FrontType ==
  ASSUME NEW s \in Seq(Message), s # <<>>
  PROVE  Front(s) \in Seq(Message)
BY DEF Front

-----------------------------------------------------------------------------
(* Types. *)

\* What an agent is built with, written out.
LEMMA FirstTranscript ==
  ASSUME Init
  PROVE  \/ transcript = <<>>
         \/ transcript = <<[via |-> "system", id |-> 0]>>
         \/ transcript = <<[via |-> "system", id |-> 0], [via |-> "assistant", id |-> 0]>>
<1>1. setup.histories \subseteq {"none", "system", "answered"}
  BY SetupsAssumption DEF Init, Setup
<1>2. PICK h \in {"none", "system", "answered"} : transcript = History[h]
  BY <1>1 DEF Init
<1> QED BY <1>2 DEF History

LEMMA InitType == Init => TypeOK
<1> SUFFICES ASSUME Init PROVE TypeOK
  OBVIOUS
<1>1. transcript \in Seq(Message)
  <2> DEFINE system == [via |-> "system", id |-> 0]
             answer == [via |-> "assistant", id |-> 0]
  <2>1. system \in Message /\ answer \in Message
    BY DEF Message, Sources
  <2> HIDE DEF system, answer
  <2>2. <<system>> \in Seq(Message) /\ <<system, answer>> \in Seq(Message)
    BY <2>1
  <2> QED BY <2>2, EmptyType, FirstTranscript DEF system, answer
<1>2. view \in [Runs -> Seq(Message)] /\ todo \in [Runs -> Seq(Message)]
  BY EmptyType DEF Init
<1>3. AgentTypeOK
  BY <1>1, EmptyType DEF Init, AgentTypeOK
<1>4. RunTypeOK
  BY <1>2 DEF Init, RunTypeOK, Phases
<1>5. CallerTypeOK
  BY DEF Init, CallerTypeOK, CallerPoints
<1> QED BY <1>3, <1>4, <1>5 DEF TypeOK

LEMMA StarterType ==
  ASSUME TypeOK, NEW c \in Callers, Starter(c)
  PROVE  TypeOK'
<1> USE DEF TypeOK, AgentTypeOK, RunTypeOK, CallerTypeOK, Phases, Holding, Starting, Dropping, CallerPoints, agentVars, runVars, Goto
<1>1. CASE ClaimLatch(c)
  <2>1. CASE running
    BY <1>1, <2>1 DEF ClaimLatch
  <2>2. CASE ~running
    <3>1. PICK r \in Runs : claim' = [claim EXCEPT ![c] = r] /\ phase' = [phase EXCEPT ![r] = "claimed"]
      BY <1>1, <2>2 DEF ClaimLatch
    <3>2. at' \in [Callers -> CallerPoints]
      BY <1>1, <2>2 DEF ClaimLatch
    <3>3. AgentTypeOK'
      BY <1>1, <2>2 DEF ClaimLatch
    <3>4. RunTypeOK'
      BY <1>1, <2>2, <3>1 DEF ClaimLatch
    <3>5. CallerTypeOK'
      BY <1>1, <2>2, <3>1, <3>2 DEF ClaimLatch
    <3> QED BY <3>3, <3>4, <3>5
  <2> QED BY <2>1, <2>2
<1>2. CASE InstallToken(c)
  BY <1>2 DEF InstallToken
<1>3. CASE Snapshot(c)
  BY <1>3 DEF Snapshot, Reject
<1>4. CASE StartPrompt(c)
  <2>1. <<Fresh("prompt")>> \in Seq(Message)
    BY FreshType DEF Sources
  <2>a. AgentTypeOK'
    BY <1>4, <2>1 DEF StartPrompt, Spawn
  <2>r. RunTypeOK'
    BY <1>4, <2>1 DEF StartPrompt, Spawn
  <2>c. CallerTypeOK'
    BY <1>4, <2>1 DEF StartPrompt, Spawn
  <2> QED BY <2>a, <2>r, <2>c
<1>5. CASE StartContinue(c)
  <2>a. AgentTypeOK'
    BY <1>5, EmptyType, BatchType, RemainderType DEF StartContinue, Spawn, Reject
  <2>r. RunTypeOK'
    <3>1. CASE Reject(c) /\ UNCHANGED <<todo, handle>>
      BY <1>5, <3>1 DEF StartContinue, Reject
    <3>2. CASE Spawn(c, Batch(steering)) \/ Spawn(c, <<>>)
      <4>1. PICK batch \in Seq(Message) : Spawn(c, batch)
        BY <3>2, BatchType, EmptyType
      <4> QED BY <1>5, <4>1 DEF StartContinue, Spawn
    <3>3. CASE UNCHANGED <<phase, todo, handle>>
      BY <1>5, <3>3 DEF StartContinue
    <3> QED BY <1>5, <3>1, <3>2, <3>3 DEF StartContinue
  <2>c. CallerTypeOK'
    BY <1>5, EmptyType, BatchType, RemainderType DEF StartContinue, Spawn, Reject
  <2> QED BY <2>a, <2>r, <2>c
<1>6. CASE StartFollowUp(c)
  <2>a. AgentTypeOK'
    BY <1>6, BatchType, RemainderType DEF StartFollowUp, Spawn, Reject
  <2>r. RunTypeOK'
    <3>1. CASE followUp = <<>>
      BY <1>6, <3>1 DEF StartFollowUp, Reject
    <3>2. CASE followUp # <<>>
      <4>1. Batch(followUp) \in Seq(Message)
        BY BatchType
      <4> DEFINE batch == Batch(followUp)
      <4>2. Spawn(c, batch)
        BY <1>6, <3>2 DEF StartFollowUp
      <4> HIDE DEF batch
      <4> QED BY <1>6, <4>1, <4>2 DEF StartFollowUp, Spawn
    <3> QED BY <3>1, <3>2
  <2>c. CallerTypeOK'
    BY <1>6, BatchType, RemainderType DEF StartFollowUp, Spawn, Reject
  <2> QED BY <2>a, <2>r, <2>c
<1>7. CASE ReturnRejected(c)
  BY <1>7 DEF ReturnRejected
<1> QED BY <1>1, <1>2, <1>3, <1>4, <1>5, <1>6, <1>7 DEF Starter

LEMMA ClientType ==
  ASSUME TypeOK, NEW c \in Callers, Client(c)
  PROVE  TypeOK'
<1> USE DEF TypeOK, AgentTypeOK, RunTypeOK, CallerTypeOK, CallerPoints, agentVars, runVars, Goto
<1>1. CASE BeginPrompt(c) \/ BeginContinue(c)
  BY <1>1 DEF BeginPrompt, BeginContinue, Begin
<1>2. CASE BeginReset(c)
  BY <1>2 DEF BeginReset
<1>3. CASE ResetState(c)
  <2>t. transcript' \in Seq(Message)
    <3>1. CASE transcript' = <<>>
      BY <3>1, EmptyType
    <3>2. CASE \E i \in DOMAIN transcript : transcript' = <<transcript[i]>>
      <4>1. PICK i \in DOMAIN transcript : transcript' = <<transcript[i]>>
        BY <3>2
      <4>2. transcript[i] \in Message
        OBVIOUS
      <4> QED BY <4>1, <4>2
    <3> QED BY <1>3, <3>1, <3>2 DEF ResetState
  <2>a. AgentTypeOK'
    BY <1>3, <2>t DEF ResetState
  <2>r. RunTypeOK'
    BY <1>3, EmptyType DEF ResetState
  <2>c. CallerTypeOK'
    BY <1>3, EmptyType DEF ResetState
  <2> QED BY <2>a, <2>r, <2>c
<1>4. CASE ResetQueues(c)
  BY <1>4, EmptyType DEF ResetQueues
<1>5. CASE EditTranscript(c)
  <2>t. transcript' \in Seq(Message)
    <3>1. CASE transcript' = Append(transcript, Fresh("edit"))
      <4>1. Fresh("edit") \in Message
        BY FreshType DEF Sources
      <4> QED BY <3>1, <4>1
    <3>2. CASE EndsInAssistant(transcript) /\ transcript' = Front(transcript)
      BY <3>2, FrontType DEF EndsInAssistant
    <3> QED BY <1>5, <3>1, <3>2 DEF EditTranscript
  <2>a. AgentTypeOK'
    BY <1>5, <2>t DEF EditTranscript, EndsInAssistant, Sources
  <2>r. RunTypeOK'
    BY <1>5, FreshType, FrontType DEF EditTranscript, EndsInAssistant, Sources
  <2>c. CallerTypeOK'
    BY <1>5, FreshType, FrontType DEF EditTranscript, EndsInAssistant, Sources
  <2> QED BY <2>a, <2>r, <2>c
<1>6. CASE AppendFinalized(c)
  BY <1>6, FreshType DEF AppendFinalized, Sources
<1>7. CASE Steer(c)
  BY <1>7, FreshType DEF Steer, Sources
<1>8. CASE FollowUp(c)
  BY <1>8, FreshType DEF FollowUp, Sources
<1>9. CASE SetModel(c)
  BY <1>9 DEF SetModel
<1>10. CASE Abort(c)
  BY <1>10 DEF Abort
<1>11. CASE BeginWait(c)
  BY <1>11 DEF BeginWait
<1>12. CASE ReturnIdle(c)
  BY <1>12 DEF ReturnIdle
<1> QED
  BY <1>1, <1>2, <1>3, <1>4, <1>5, <1>6, <1>7, <1>8, <1>9, <1>10, <1>11, <1>12 DEF Client

LEMMA BodyType ==
  ASSUME TypeOK, NEW r \in Runs, Body(r)
  PROVE  TypeOK'
<1> USE DEF TypeOK, AgentTypeOK, RunTypeOK, CallerTypeOK, Phases, Holding, Dropping, agentVars
<1>1. CASE EmitTaken(r)
  <2>1. Head(todo[r]) \in Message /\ Tail(todo[r]) \in Seq(Message)
    BY <1>1 DEF EmitTaken
  <2> QED BY <1>1, <2>1 DEF EmitTaken
<1>2. CASE OpenReply(r)
  BY <1>2 DEF OpenReply, runVars
<1>3. CASE CloseReply(r)
  <2>1. Fresh("assistant") \in Message
    BY FreshType DEF Sources
  <2>t. transcript' \in Seq(Message)
    BY <1>3, <2>1 DEF CloseReply
  <2>a. AgentTypeOK'
    BY <1>3, <2>t DEF CloseReply
  <2>r. RunTypeOK'
    BY <1>3, <2>1 DEF CloseReply
  <2>c. CallerTypeOK'
    BY <1>3, <2>1 DEF CloseReply
  <2> QED BY <2>a, <2>r, <2>c
<1>4. CASE PollSteering(r)
  BY <1>4, BatchType, RemainderType DEF PollSteering
<1>5. CASE PollFollowUp(r)
  BY <1>5, BatchType, RemainderType DEF PollFollowUp
<1>6. CASE FinishRun(r)
  BY <1>6 DEF FinishRun
<1>7. CASE FailRun(r)
  <2>1. Fresh("assistant") \in Message
    BY FreshType DEF Sources
  <2>t. transcript' \in Seq(Message)
    BY <1>7, <2>1, EmptyType DEF FailRun
  <2>a. AgentTypeOK'
    BY <1>7, <2>t DEF FailRun
  <2>r. RunTypeOK'
    BY <1>7, <2>1, EmptyType DEF FailRun
  <2>c. CallerTypeOK'
    BY <1>7, <2>1, EmptyType DEF FailRun
  <2> QED BY <2>a, <2>r, <2>c
<1> QED BY <1>1, <1>2, <1>3, <1>4, <1>5, <1>6, <1>7 DEF Body

LEMMA SettleType ==
  ASSUME TypeOK, NEW r \in Runs, Settle(r)
  PROVE  TypeOK'
<1> USE DEF TypeOK, AgentTypeOK, RunTypeOK, CallerTypeOK, Phases, Holding, Dropping, agentVars
<1>1. CASE DropState(r)
  BY <1>1 DEF DropState
<1>2. CASE DropSlot(r)
  BY <1>2 DEF DropSlot
<1>3. CASE DropRunning(r)
  BY <1>3 DEF DropRunning
<1>4. CASE DropResult(r)
  BY <1>4 DEF DropResult
<1> QED BY <1>1, <1>2, <1>3, <1>4 DEF Settle

LEMMA NextType ==
  ASSUME TypeOK, [Next]_vars
  PROVE  TypeOK'
<1>1. CASE Next
  BY <1>1, StarterType, ClientType, BodyType, SettleType DEF Next
<1>2. CASE UNCHANGED vars
  BY <1>2 DEF vars, agentVars, runVars, TypeOK, AgentTypeOK, RunTypeOK, CallerTypeOK
<1> QED BY <1>1, <1>2

\* Every variable keeps its type (the state that lifecycle.rs and facade.rs guard).
THEOREM TypeCorrect == Spec => []TypeOK
<1>1. Init => TypeOK
  BY InitType
<1>2. TypeOK /\ [Next]_vars => TypeOK'
  BY NextType
<1> QED BY <1>1, <1>2, PTL DEF Spec

-----------------------------------------------------------------------------
(* The inductive invariant.  OneRunHoldsTheLatch alone is not inductive: that a claim   *)
(* may go on needs to know that its run is still where the caller left it.               *)

AtSlot  == {"slotPrompt", "slotContinue"}
AtSnap  == {"snapPrompt", "snapContinue"}
AtStart == {"startPrompt", "startContinue", "startFollowUp"}

\* A caller between its claim and its return owns one run, which no other caller owns,
\* and the phase of that run is the one its control point stands for.
ClaimOK ==
  /\ \A c \in Callers :
       /\ claim[c] # NoRun <=> at[c] \in AtSlot \cup AtSnap \cup AtStart \cup {"rejected"}
       /\ at[c] \in AtSlot => phase[claim[c]] = "claimed"
       /\ at[c] \in AtSnap => phase[claim[c]] = "slotted"
       /\ at[c] \in AtStart => phase[claim[c]] = "snapped"
       /\ at[c] = "rejected" => phase[claim[c]] \in Dropping \cup {"dropResult", "done"}
  /\ \A c, d \in Callers : claim[c] # NoRun /\ claim[c] = claim[d] => c = d

\* Only a run that is live, or about to clear it, leaves something in flight.
InflightOK == inflight => \E r \in Runs : phase[r] \in {"live", "dropState"}

LatchInv == OneRunHoldsTheLatch /\ SlotBelongsToTheHolder /\ InflightOK /\ ClaimOK

IInv == TypeOK /\ LatchInv

LEMMA InitInv == Init => IInv
<1> SUFFICES ASSUME Init PROVE IInv
  OBVIOUS
<1>1. OneRunHoldsTheLatch /\ InflightOK
  BY DEF Init, OneRunHoldsTheLatch, InflightOK, Holding, Starting, Dropping
<1>2. SlotBelongsToTheHolder
  BY NoRunAssumption DEF Init, SlotBelongsToTheHolder, Slotted
<1>3. ClaimOK
  BY DEF Init, ClaimOK, AtSlot, AtSnap, AtStart
<1> QED BY <1>1, <1>2, <1>3, InitType DEF IInv, LatchInv

\* What every early return after the claim does, and what every accepted start does.
LEMMA RejectInv ==
  ASSUME IInv, NEW c \in Callers, at[c] \in AtSnap \cup AtStart, Reject(c),
         UNCHANGED <<running, slot, inflight, claim>>
  PROVE  LatchInv'
<1> USE NoRunAssumption DEF IInv, LatchInv, TypeOK, AgentTypeOK, RunTypeOK, CallerTypeOK, OneRunHoldsTheLatch,
  SlotBelongsToTheHolder, InflightOK, ClaimOK, AtSlot, AtSnap, AtStart, Phases, Slotted,
  Holding, Starting, Dropping, agentVars, runVars, Goto
<1>1. PICK r \in Runs : claim[c] = r /\ phase[r] \in {"slotted", "snapped"}
  OBVIOUS
<1>2. phase' = [phase EXCEPT ![r] = "dropState"] /\ at' = [at EXCEPT ![c] = "rejected"]
  BY <1>1 DEF Reject
<1>3. OneRunHoldsTheLatch'
  BY <1>1, <1>2
<1>4. SlotBelongsToTheHolder'
  BY <1>1, <1>2
<1>5. InflightOK'
  BY <1>1, <1>2
<1>6. ClaimOK'
  BY <1>1, <1>2
<1> QED BY <1>3, <1>4, <1>5, <1>6 DEF LatchInv

LEMMA SpawnInv ==
  ASSUME IInv, NEW c \in Callers, at[c] \in AtStart, NEW batch, Spawn(c, batch),
         UNCHANGED <<running, slot, inflight>>
  PROVE  LatchInv'
<1> USE NoRunAssumption DEF IInv, LatchInv, TypeOK, AgentTypeOK, RunTypeOK, CallerTypeOK, OneRunHoldsTheLatch,
  SlotBelongsToTheHolder, InflightOK, ClaimOK, AtSlot, AtSnap, AtStart, Phases, Slotted,
  Holding, Starting, Dropping, agentVars, runVars, Goto
<1>1. PICK r \in Runs : claim[c] = r /\ phase[r] = "snapped"
  OBVIOUS
<1>2. /\ phase' = [phase EXCEPT ![r] = "live"]
      /\ at' = [at EXCEPT ![c] = "idle"]
      /\ claim' = [claim EXCEPT ![c] = NoRun]
  BY <1>1 DEF Spawn
<1>3. OneRunHoldsTheLatch'
  BY <1>1, <1>2
<1>4. SlotBelongsToTheHolder'
  BY <1>1, <1>2
<1>5. InflightOK'
  BY <1>1, <1>2
<1>6. ClaimOK'
  BY <1>1, <1>2
<1> QED BY <1>3, <1>4, <1>5, <1>6 DEF LatchInv

LEMMA StarterInv ==
  ASSUME IInv, NEW c \in Callers, Starter(c)
  PROVE  IInv'
<1>t. TypeOK'
  BY StarterType DEF IInv, LatchInv
<1> SUFFICES LatchInv'
  BY <1>t DEF IInv, LatchInv
<1> USE NoRunAssumption DEF IInv, LatchInv, TypeOK, AgentTypeOK, RunTypeOK, CallerTypeOK, OneRunHoldsTheLatch,
  SlotBelongsToTheHolder, InflightOK, ClaimOK, AtSlot, AtSnap, AtStart, Phases, Slotted,
  Holding, Starting, Dropping, agentVars, runVars, Goto
<1>1. CASE ClaimLatch(c)
  <2>1. CASE running
    BY <1>1, <2>1 DEF ClaimLatch, LatchInv
  <2>2. CASE ~running
    <3>1. PICK r \in Runs : /\ phase[r] = "unused"
                            /\ phase' = [phase EXCEPT ![r] = "claimed"]
                            /\ claim' = [claim EXCEPT ![c] = r]
      BY <1>1, <2>2 DEF ClaimLatch
    <3>2. claim[c] = NoRun /\ \A d \in Callers : claim[d] # r
      <4>1. claim[c] = NoRun
        BY <1>1 DEF ClaimLatch
      <4>2. ASSUME NEW d \in Callers, claim[d] = r PROVE FALSE
        BY <3>1, <4>2
      <4> QED BY <4>1, <4>2
    <3>3. PICK p \in AtSlot : at' = [at EXCEPT ![c] = p]
      BY <1>1, <2>2 DEF ClaimLatch
    <3>4. OneRunHoldsTheLatch'
      BY <1>1, <2>2, <3>1 DEF ClaimLatch
    <3>5. SlotBelongsToTheHolder' /\ InflightOK'
      BY <1>1, <2>2, <3>1 DEF ClaimLatch
    <3>6. ClaimOK'
      BY <3>1, <3>2, <3>3
    <3> QED BY <3>4, <3>5, <3>6 DEF LatchInv
  <2> QED BY <2>1, <2>2
<1>2. CASE InstallToken(c)
  <2>1. OneRunHoldsTheLatch' /\ InflightOK'
    BY <1>2 DEF InstallToken
  <2>2. SlotBelongsToTheHolder'
    BY <1>2 DEF InstallToken
  <2>3. ClaimOK'
    BY <1>2 DEF InstallToken
  <2> QED BY <2>1, <2>2, <2>3 DEF LatchInv
<1>3. CASE Snapshot(c)
  <2>1. CASE Reject(c)
    BY <1>3, <2>1, RejectInv DEF Snapshot
  <2>2. CASE ~Reject(c)
    <3>1. PICK r \in Runs : claim[c] = r /\ phase[r] = "slotted"
      BY <1>3 DEF Snapshot
    <3>2. phase' = [phase EXCEPT ![r] = "snapped"]
      BY <1>3, <2>2, <3>1 DEF Snapshot
    <3>3. PICK p \in AtStart : at' = [at EXCEPT ![c] = p]
      BY <1>3, <2>2 DEF Snapshot
    <3>4. UNCHANGED <<running, slot, inflight, claim>>
      BY <1>3 DEF Snapshot
    <3>5. OneRunHoldsTheLatch' /\ InflightOK'
      BY <3>1, <3>2, <3>4
    <3>6. SlotBelongsToTheHolder'
      BY <3>1, <3>2, <3>4
    <3>7. ClaimOK'
      BY <3>1, <3>2, <3>3, <3>4
    <3> QED BY <3>5, <3>6, <3>7 DEF LatchInv
  <2> QED BY <2>1, <2>2
<1>4. CASE StartPrompt(c)
  BY <1>4, SpawnInv DEF StartPrompt
<1>5. CASE StartContinue(c)
  <2>1. UNCHANGED <<running, slot, inflight>> /\ at[c] \in AtStart
    BY <1>5 DEF StartContinue
  <2>2. CASE Reject(c) /\ UNCHANGED claim
    BY <2>1, <2>2, RejectInv
  <2>3. CASE Spawn(c, Batch(steering)) \/ Spawn(c, <<>>)
    BY <2>1, <2>3, SpawnInv
  <2>4. CASE Goto(c, "startFollowUp") /\ UNCHANGED <<phase, claim>>
    <3>1. OneRunHoldsTheLatch' /\ InflightOK' /\ SlotBelongsToTheHolder'
      BY <2>1, <2>4
    <3>2. ClaimOK'
      BY <2>1, <2>4
    <3> QED BY <3>1, <3>2 DEF LatchInv
  <2> QED BY <1>5, <2>2, <2>3, <2>4 DEF StartContinue
<1>6. CASE StartFollowUp(c)
  <2>1. UNCHANGED <<running, slot, inflight>> /\ at[c] \in AtStart
    BY <1>6 DEF StartFollowUp
  <2>2. CASE Reject(c) /\ UNCHANGED claim
    BY <2>1, <2>2, RejectInv
  <2>3. CASE Spawn(c, Batch(followUp))
    BY <2>1, <2>3, SpawnInv
  <2> QED BY <1>6, <2>2, <2>3 DEF StartFollowUp
<1>7. CASE ReturnRejected(c)
  <2>1. OneRunHoldsTheLatch' /\ InflightOK' /\ SlotBelongsToTheHolder'
    BY <1>7 DEF ReturnRejected
  <2>2. ClaimOK'
    BY <1>7 DEF ReturnRejected
  <2> QED BY <2>1, <2>2 DEF LatchInv
<1> QED BY <1>1, <1>2, <1>3, <1>4, <1>5, <1>6, <1>7 DEF Starter

\* Everything that happens to a caller outside a claim leaves the invariant alone.
LEMMA ClientInv ==
  ASSUME IInv, NEW c \in Callers, Client(c)
  PROVE  IInv'
<1>t. TypeOK'
  BY ClientType DEF IInv, LatchInv
<1> SUFFICES LatchInv'
  BY <1>t DEF IInv, LatchInv
<1> USE DEF agentVars, runVars
<1>1. UNCHANGED <<running, slot, phase, claim>> /\ inflight' \in {FALSE, inflight}
  BY DEF Client, BeginPrompt, BeginContinue, Begin, BeginReset, ResetState, ResetQueues,
     EditTranscript, AppendFinalized, Steer, FollowUp, SetModel, Abort, BeginWait, ReturnIdle
<1>2. PICK p : /\ p \notin AtSlot \cup AtSnap \cup AtStart \cup {"rejected"}
              /\ at[c] \notin AtSlot \cup AtSnap \cup AtStart \cup {"rejected"}
              /\ at' = [at EXCEPT ![c] = p]
  <2> USE DEF AtSlot, AtSnap, AtStart, IInv, LatchInv, TypeOK, CallerTypeOK, Goto
  <2>1. CASE BeginPrompt(c) \/ BeginContinue(c) \/ BeginReset(c) \/ ResetState(c)
             \/ ResetQueues(c) \/ BeginWait(c) \/ ReturnIdle(c)
    BY <2>1 DEF BeginPrompt, BeginContinue, Begin, BeginReset, ResetState, ResetQueues,
       BeginWait, ReturnIdle
  <2>2. CASE at' = at /\ at[c] = "idle"
    BY <2>2
  <2> QED BY <2>1, <2>2 DEF Client, EditTranscript, AppendFinalized, Steer, FollowUp, SetModel, Abort
<1>3. OneRunHoldsTheLatch'
  BY <1>1 DEF IInv, LatchInv, OneRunHoldsTheLatch
<1>4. SlotBelongsToTheHolder'
  BY <1>1 DEF IInv, LatchInv, SlotBelongsToTheHolder
<1>5. InflightOK'
  BY <1>1 DEF IInv, LatchInv, InflightOK
<1>6. ClaimOK'
  BY <1>1, <1>2 DEF IInv, LatchInv, ClaimOK, AtSlot, AtSnap, AtStart, TypeOK, CallerTypeOK
<1> QED BY <1>3, <1>4, <1>5, <1>6 DEF LatchInv

\* No caller is starting a live run, nor one whose guard drops, except the refused one.
LEMMA BodyInv ==
  ASSUME IInv, NEW r \in Runs, Body(r)
  PROVE  IInv'
<1>t. TypeOK'
  BY BodyType DEF IInv, LatchInv
<1> SUFFICES LatchInv'
  BY <1>t DEF IInv, LatchInv
<1> USE DEF agentVars, runVars
<1>1. /\ UNCHANGED <<running, slot, at, claim>>
      /\ phase[r] = "live"
      /\ phase' \in {phase, [phase EXCEPT ![r] = "dropState"]}
  BY DEF Body, EmitTaken, OpenReply, CloseReply, PollSteering, PollFollowUp, FinishRun, FailRun
<1> USE NoRunAssumption DEF IInv, LatchInv, TypeOK, AgentTypeOK, RunTypeOK, CallerTypeOK, OneRunHoldsTheLatch,
  SlotBelongsToTheHolder, InflightOK, ClaimOK, AtSlot, AtSnap, AtStart, Phases, Slotted,
  Holding, Starting, Dropping, agentVars, runVars, Goto
<1>2. OneRunHoldsTheLatch'
  <2>1. CASE UNCHANGED phase
    BY <1>1, <2>1
  <2>2. CASE phase' = [phase EXCEPT ![r] = "dropState"]
    BY <1>1, <2>2
  <2> QED BY <1>1, <2>1, <2>2
<1>3. SlotBelongsToTheHolder'
  BY <1>1
<1>4. InflightOK'
  BY <1>1
<1>5. ClaimOK'
  BY <1>1
<1> QED BY <1>2, <1>3, <1>4, <1>5 DEF LatchInv

LEMMA SettleInv ==
  ASSUME IInv, NEW r \in Runs, Settle(r)
  PROVE  IInv'
<1>t. TypeOK'
  BY SettleType DEF IInv, LatchInv
<1> SUFFICES LatchInv'
  BY <1>t DEF IInv, LatchInv
<1> USE NoRunAssumption DEF IInv, LatchInv, TypeOK, AgentTypeOK, RunTypeOK, CallerTypeOK, OneRunHoldsTheLatch,
  SlotBelongsToTheHolder, InflightOK, ClaimOK, AtSlot, AtSnap, AtStart, Phases, Slotted,
  Holding, Starting, Dropping, agentVars, runVars, Goto
<1>1. CASE DropState(r)
  <2>1. OneRunHoldsTheLatch'
    BY <1>1 DEF DropState
  <2>2. SlotBelongsToTheHolder'
    BY <1>1 DEF DropState
  <2>3. InflightOK'
    BY <1>1 DEF DropState
  <2>4. ClaimOK'
    BY <1>1 DEF DropState
  <2> QED BY <2>1, <2>2, <2>3, <2>4 DEF LatchInv
<1>2. CASE DropSlot(r)
  <2>1. OneRunHoldsTheLatch'
    BY <1>2 DEF DropSlot
  <2>2. SlotBelongsToTheHolder'
    BY <1>2 DEF DropSlot
  <2>3. InflightOK'
    BY <1>2 DEF DropSlot
  <2>4. ClaimOK'
    BY <1>2 DEF DropSlot
  <2> QED BY <2>1, <2>2, <2>3, <2>4 DEF LatchInv
<1>3. CASE DropRunning(r)
  <2>1. OneRunHoldsTheLatch'
    BY <1>3 DEF DropRunning
  <2>2. SlotBelongsToTheHolder'
    BY <1>3 DEF DropRunning
  <2>3. InflightOK'
    BY <1>3 DEF DropRunning
  <2>4. ClaimOK'
    BY <1>3 DEF DropRunning
  <2> QED BY <2>1, <2>2, <2>3, <2>4 DEF LatchInv
<1>4. CASE DropResult(r)
  <2>1. OneRunHoldsTheLatch'
    BY <1>4 DEF DropResult
  <2>2. SlotBelongsToTheHolder'
    BY <1>4 DEF DropResult
  <2>3. InflightOK'
    BY <1>4 DEF DropResult
  <2>4. ClaimOK'
    BY <1>4 DEF DropResult
  <2> QED BY <2>1, <2>2, <2>3, <2>4 DEF LatchInv
<1> QED BY <1>1, <1>2, <1>3, <1>4 DEF Settle

\* The invariant is inductive.
THEOREM Invariance == Spec => []IInv
<1>1. Init => IInv
  BY InitInv
<1>2. IInv /\ [Next]_vars => IInv'
  <2> SUFFICES ASSUME IInv, [Next]_vars PROVE IInv'
    OBVIOUS
  <2>1. CASE Next
    BY <2>1, StarterInv, ClientInv, BodyInv, SettleInv DEF Next
  <2>2. CASE UNCHANGED vars
    BY <2>2 DEF vars, agentVars, runVars, IInv, LatchInv, TypeOK, AgentTypeOK, RunTypeOK, CallerTypeOK,
       OneRunHoldsTheLatch, SlotBelongsToTheHolder, InflightOK, ClaimOK
  <2> QED BY <2>1, <2>2
<1> QED BY <1>1, <1>2, PTL DEF Spec

\* claim_and_snapshot and SettlementGuard::drop are a mutual exclusion, and the channel
\* is its lock word: `running` is true exactly while one run holds it.
THEOREM LatchIsExclusive == Spec => []OneRunHoldsTheLatch
<1>1. IInv => OneRunHoldsTheLatch
  BY DEF IInv, LatchInv
<1> QED BY <1>1, Invariance, PTL

\* abort() reaches the run that holds the latch, and never a run that has settled.
THEOREM SlotIsTheHolders == Spec => []SlotBelongsToTheHolder
<1>1. IInv => SlotBelongsToTheHolder
  BY DEF IInv, LatchInv
<1> QED BY <1>1, Invariance, PTL

\* What wait_for_idle promises its caller: once `running` reads false nothing of the last
\* run is left.  It holds because DropRunning is the third step of the settlement.
THEOREM IdleMeansSettled == Spec => []IdleIsSettled
<1>1. IInv => IdleIsSettled
  BY DEF IInv, LatchInv, TypeOK, AgentTypeOK, OneRunHoldsTheLatch, SlotBelongsToTheHolder, InflightOK,
     IdleIsSettled, Holding, Starting, Dropping, Slotted
<1> QED BY <1>1, Invariance, PTL

-----------------------------------------------------------------------------
(* ToldIn. *)

LEMMA ToldInItself ==
  ASSUME NEW s \in Seq(Message)
  PROVE  ToldIn(s, s)
<1> DEFINE f == [i \in DOMAIN s |-> i]
<1>1. /\ f \in [DOMAIN s -> DOMAIN s]
      /\ \A i \in DOMAIN s : s[f[i]] = s[i]
      /\ \A i, j \in DOMAIN s : i < j => f[i] < f[j]
      /\ \A k \in DOMAIN s : s[k].via = "final" \/ \E i \in DOMAIN s : f[i] = k
  OBVIOUS
<1> QED BY <1>1 DEF ToldIn

\* A finalized message that is appended to the transcript alone.
LEMMA ToldInLonger ==
  ASSUME NEW s \in Seq(Message), NEW t \in Seq(Message), NEW m \in Message,
         ToldIn(s, t), m.via = "final"
  PROVE  ToldIn(s, Append(t, m))
<1>1. PICK f \in [DOMAIN s -> DOMAIN t] :
        /\ \A i \in DOMAIN s : t[f[i]] = s[i]
        /\ \A i, j \in DOMAIN s : i < j => f[i] < f[j]
        /\ \A k \in DOMAIN t : t[k].via = "final" \/ \E i \in DOMAIN s : f[i] = k
  BY DEF ToldIn
<1> DEFINE v == Append(t, m)
<1>2. /\ DOMAIN v = DOMAIN t \cup {Len(t) + 1}
      /\ \A k \in DOMAIN t : v[k] = t[k]
      /\ v[Len(t) + 1] = m
  OBVIOUS
<1> HIDE DEF v
<1>3. f \in [DOMAIN s -> DOMAIN v]
  BY <1>1, <1>2
<1>4. \A i \in DOMAIN s : v[f[i]] = s[i]
  BY <1>1, <1>2
<1>5. \A k \in DOMAIN v : v[k].via = "final" \/ \E i \in DOMAIN s : f[i] = k
  BY <1>1, <1>2
<1>6. ToldIn(s, v)
  BY <1>1, <1>3, <1>4, <1>5 DEF ToldIn
<1> QED BY <1>6 DEF v

\* A message that the run appends to both.
LEMMA ToldInBoth ==
  ASSUME NEW s \in Seq(Message), NEW t \in Seq(Message), NEW m \in Message, ToldIn(s, t)
  PROVE  ToldIn(Append(s, m), Append(t, m))
<1>1. PICK f \in [DOMAIN s -> DOMAIN t] :
        /\ \A i \in DOMAIN s : t[f[i]] = s[i]
        /\ \A i, j \in DOMAIN s : i < j => f[i] < f[j]
        /\ \A k \in DOMAIN t : t[k].via = "final" \/ \E i \in DOMAIN s : f[i] = k
  BY DEF ToldIn
<1> DEFINE u == Append(s, m)
           v == Append(t, m)
           g == [i \in DOMAIN u |-> IF i = Len(s) + 1 THEN Len(t) + 1 ELSE f[i]]
<1>2. /\ DOMAIN v = DOMAIN t \cup {Len(t) + 1} /\ Len(t) + 1 \notin DOMAIN t
      /\ \A k \in DOMAIN t : v[k] = t[k]
      /\ v[Len(t) + 1] = m
      /\ \A k \in DOMAIN t : k \in Nat /\ k < Len(t) + 1
  OBVIOUS
<1>3. /\ DOMAIN u = DOMAIN s \cup {Len(s) + 1} /\ Len(s) + 1 \notin DOMAIN s
      /\ \A i \in DOMAIN s : u[i] = s[i]
      /\ u[Len(s) + 1] = m
      /\ \A i \in DOMAIN s : i \in Nat /\ i < Len(s) + 1
      /\ Len(s) \in Nat
  OBVIOUS
<1>4. \A i \in DOMAIN s : g[i] = f[i] /\ g[i] \in DOMAIN t
  BY <1>1, <1>3
<1>5. g[Len(s) + 1] = Len(t) + 1
  BY <1>3
<1> HIDE DEF u, v, g
<1>6. g \in [DOMAIN u -> DOMAIN v]
  BY <1>2, <1>3, <1>4, <1>5 DEF g
<1>7. \A i \in DOMAIN u : v[g[i]] = u[i]
  BY <1>1, <1>2, <1>3, <1>4, <1>5
<1>8. \A i, j \in DOMAIN u : i < j => g[i] < g[j]
  BY <1>1, <1>2, <1>3, <1>4, <1>5
<1>9. \A k \in DOMAIN v : v[k].via = "final" \/ \E i \in DOMAIN u : g[i] = k
  BY <1>1, <1>2, <1>3, <1>4, <1>5
<1> QED BY <1>6, <1>7, <1>8, <1>9 DEF ToldIn, u, v

-----------------------------------------------------------------------------
(* A run's copy of the transcript. *)

\* What a step may do to one run's view without breaking it.
LEMMA TranscriptStep ==
  ASSUME IInv, RunSeesTheTranscript, [Next]_vars
  PROVE  RunSeesTheTranscript'
<1> USE DEF IInv, LatchInv, TypeOK, AgentTypeOK, RunTypeOK, CallerTypeOK, Goto, agentVars, runVars
<1> SUFFICES ASSUME NEW r \in Runs, phase'[r] \in {"snapped", "live"}, r \notin wiped'
             PROVE  ToldIn(view'[r], transcript')
  BY DEF RunSeesTheTranscript
<1>k. ASSUME phase[r] \in {"snapped", "live"}, wiped \subseteq wiped',
             UNCHANGED <<transcript, view>>
      PROVE  ToldIn(view'[r], transcript')
  BY <1>k DEF RunSeesTheTranscript
<1>h. ASSUME phase[r] \in {"snapped", "live"}
      PROVE  running /\ \A p \in Runs : phase[p] \in Holding => p = r
  BY <1>h DEF OneRunHoldsTheLatch, Holding, Starting
<1>1. ASSUME NEW c \in Callers, Starter(c) PROVE ToldIn(view'[r], transcript')
  <2>1. CASE Snapshot(c) /\ claim[c] = r /\ model
    <3>1. view'[r] = transcript /\ transcript' = transcript
      BY <2>1 DEF Snapshot
    <3> QED BY <3>1, ToldInItself
  <2>2. CASE ~(Snapshot(c) /\ claim[c] = r /\ model)
    <3>1. UNCHANGED <<transcript, wiped>>
      BY <1>1 DEF Starter, ClaimLatch, InstallToken, Snapshot, StartPrompt, StartContinue, StartFollowUp,
        ReturnRejected
    <3>2. view'[r] = view[r]
      BY <1>1, <2>2 DEF Starter, ClaimLatch, InstallToken, Snapshot, StartPrompt, StartContinue,
        StartFollowUp, ReturnRejected, Reject
    <3>3. phase[r] \in {"snapped", "live"}
      BY <1>1, <2>2 DEF Starter, ClaimLatch, InstallToken, Snapshot, StartPrompt, StartContinue,
        StartFollowUp, ReturnRejected, Reject, Spawn, ClaimOK, AtSlot, AtSnap, AtStart
    <3> QED BY <3>1, <3>2, <3>3 DEF RunSeesTheTranscript
  <2> QED BY <2>1, <2>2
<1>2. ASSUME NEW c \in Callers, Client(c) PROVE ToldIn(view'[r], transcript')
  <2>1. UNCHANGED <<phase, view>>
    BY <1>2 DEF Client, BeginPrompt, BeginContinue, Begin, BeginReset, ResetState, ResetQueues, EditTranscript,
      AppendFinalized, Steer, FollowUp, SetModel, Abort, BeginWait, ReturnIdle
  <2>2. CASE ResetState(c)
    BY <2>1, <2>2 DEF ResetState
  <2>3. CASE EditTranscript(c)
    BY <1>h, <2>1, <2>3 DEF EditTranscript
  <2>4. CASE AppendFinalized(c)
    <3>1. Fresh("final") \in Message /\ Fresh("final").via = "final"
      BY FreshType DEF Sources, Fresh
    <3>2. ToldIn(view[r], transcript) /\ transcript' = Append(transcript, Fresh("final"))
      BY <2>1, <2>4 DEF AppendFinalized, RunSeesTheTranscript
    <3> QED BY <2>1, <3>1, <3>2, ToldInLonger
  <2>5. CASE ~ResetState(c) /\ ~EditTranscript(c) /\ ~AppendFinalized(c)
    BY <1>2, <1>k, <2>1, <2>5 DEF Client, BeginPrompt, BeginContinue, Begin, BeginReset, ResetQueues,
      Steer, FollowUp, SetModel, Abort, BeginWait, ReturnIdle
  <2> QED BY <2>2, <2>3, <2>4, <2>5
<1>3. ASSUME NEW p \in Runs, Body(p) PROVE ToldIn(view'[r], transcript')
  <2>1. phase[p] = "live"
    BY <1>3 DEF Body, EmitTaken, OpenReply, CloseReply, PollSteering, PollFollowUp, FinishRun, FailRun
  <2>2. phase[r] \in {"snapped", "live"} /\ wiped' = wiped
    BY <1>3 DEF Body, EmitTaken, OpenReply, CloseReply, PollSteering, PollFollowUp, FinishRun, FailRun
  <2>3. p = r
    BY <1>h, <2>1, <2>2 DEF Holding
  <2>4. ToldIn(view[r], transcript)
    BY <2>2 DEF RunSeesTheTranscript
  <2>5. CASE EmitTaken(p)
    <3>1. Head(todo[r]) \in Message
      BY <2>3, <2>5 DEF EmitTaken
    <3> QED BY <2>3, <2>4, <2>5, <3>1, ToldInBoth DEF EmitTaken
  <2>6. CASE CloseReply(p)
    <3>1. Fresh("assistant") \in Message
      BY FreshType DEF Sources
    <3> QED BY <2>3, <2>4, <2>6, <3>1, ToldInBoth DEF CloseReply
  <2>7. CASE FailRun(p)
    BY <2>3, <2>7 DEF FailRun
  <2>8. CASE ~EmitTaken(p) /\ ~CloseReply(p) /\ ~FailRun(p)
    BY <1>3, <1>k, <2>2, <2>8 DEF Body, OpenReply, PollSteering, PollFollowUp, FinishRun
  <2> QED BY <2>5, <2>6, <2>7, <2>8
<1>4. ASSUME NEW p \in Runs, Settle(p) PROVE ToldIn(view'[r], transcript')
  <2>1. phase[p] \in {"dropState", "dropSlot", "dropRunning", "dropResult"}
    BY <1>4 DEF Settle, DropState, DropSlot, DropRunning, DropResult
  <2>2. p # r /\ phase[r] \in {"snapped", "live"} /\ UNCHANGED <<transcript, wiped>>
    BY <1>4, <2>1 DEF Settle, DropState, DropSlot, DropRunning, DropResult
  <2>3. view'[r] = view[r]
    BY <1>4, <2>2 DEF Settle, DropState, DropSlot, DropRunning, DropResult
  <2> QED BY <2>2, <2>3 DEF RunSeesTheTranscript
<1>5. CASE UNCHANGED vars
  BY <1>k, <1>5 DEF vars
<1> QED BY <1>1, <1>2, <1>3, <1>4, <1>5 DEF Next

\* A run's copy of the transcript and the shared one stay the same story for any callers,
\* claims, edits, failures and settlements: only a reset that overtakes a claim parts them.
THEOREM TranscriptsAgree == Spec => []RunSeesTheTranscript
<1>1. Init => RunSeesTheTranscript
  BY DEF Init, RunSeesTheTranscript
<1>2. IInv /\ RunSeesTheTranscript /\ [Next]_vars => RunSeesTheTranscript'
  BY TranscriptStep
<1> QED BY <1>1, <1>2, Invariance, PTL DEF Spec

-----------------------------------------------------------------------------
(* Order.  Before compares two sequences as Ordered does the parts of one. *)

Queued == {"steer", "followUp"}

Before(s, t, source) ==
  \A i \in DOMAIN s, j \in DOMAIN t : s[i].via = source /\ t[j].via = source => s[i].id < t[j].id

Below(s, bound) == \A i \in DOMAIN s : s[i].id < bound

AllVia(s, source) == \A i \in DOMAIN s : s[i].via = source

\* s is a contiguous piece of t.
Window(s, t) == \E n \in Nat : \A i \in DOMAIN s : i + n \in DOMAIN t /\ s[i] = t[i + n]

LEMMA SequenceDomain ==
  ASSUME NEW s \in Seq(Message)
  PROVE  /\ Len(s) \in Nat /\ DOMAIN s = 1 .. Len(s)
         /\ \A i \in DOMAIN s : i \in Nat /\ s[i] \in Message
OBVIOUS

LEMMA WindowKeeps ==
  ASSUME NEW s \in Seq(Message), NEW t \in Seq(Message), Window(s, t)
  PROVE  /\ \A x : Ordered(t, x) => Ordered(s, x)
         /\ \A x, u : Before(u, t, x) => Before(u, s, x)
         /\ \A x, u : Before(t, u, x) => Before(s, u, x)
         /\ \A x : AllVia(t, x) => AllVia(s, x)
         /\ \A b : Below(t, b) => Below(s, b)
<1>1. PICK n \in Nat : \A i \in DOMAIN s : i + n \in DOMAIN t /\ s[i] = t[i + n]
  BY DEF Window
<1>2. \A i, j \in DOMAIN s : i < j => i + n < j + n
  BY SequenceDomain
<1>3. ASSUME NEW x, Ordered(t, x) PROVE Ordered(s, x)
  BY <1>1, <1>2, <1>3 DEF Ordered
<1>4. ASSUME NEW x, NEW u PROVE /\ Before(u, t, x) => Before(u, s, x)
                                /\ Before(t, u, x) => Before(s, u, x)
  BY <1>1 DEF Before
<1>5. ASSUME NEW x, AllVia(t, x) PROVE AllVia(s, x)
  BY <1>1, <1>5 DEF AllVia
<1>6. ASSUME NEW b, Below(t, b) PROVE Below(s, b)
  BY <1>1, <1>6 DEF Below
<1> QED BY <1>3, <1>4, <1>5, <1>6

LEMMA WindowItself ==
  ASSUME NEW s \in Seq(Message)
  PROVE  Window(s, s)
<1>1. \A i \in DOMAIN s : i + 0 \in DOMAIN s /\ s[i] = s[i + 0]
  BY SequenceDomain
<1> QED BY <1>1 DEF Window

LEMMA WindowEmpty ==
  ASSUME NEW t
  PROVE  Window(<<>>, t)
<1>1. \A i \in DOMAIN <<>> : i + 0 \in DOMAIN t /\ <<>>[i] = t[i + 0]
  OBVIOUS
<1> QED BY <1>1 DEF Window

LEMMA WindowOne ==
  ASSUME NEW t \in Seq(Message), NEW k \in DOMAIN t
  PROVE  Window(<<t[k]>>, t)
<1>1. k - 1 \in Nat /\ 1 + (k - 1) = k
  OBVIOUS
<1>2. \A i \in DOMAIN <<t[k]>> : i = 1 /\ <<t[k]>>[i] = t[k]
  OBVIOUS
<1> DEFINE n == k - 1
<1>3. n \in Nat /\ \A i \in DOMAIN <<t[k]>> : i + n \in DOMAIN t /\ <<t[k]>>[i] = t[i + n]
  BY <1>1, <1>2
<1> HIDE DEF n
<1> QED BY <1>3 DEF Window

LEMMA WindowTail ==
  ASSUME NEW t \in Seq(Message), t # <<>>
  PROVE  Window(Tail(t), t)
<1>1. \A i \in DOMAIN Tail(t) : i + 1 \in DOMAIN t /\ Tail(t)[i] = t[i + 1]
  OBVIOUS
<1> QED BY <1>1 DEF Window

LEMMA WindowFront ==
  ASSUME NEW t \in Seq(Message), t # <<>>
  PROVE  Window(Front(t), t)
<1>1. \A i \in DOMAIN Front(t) : i + 0 \in DOMAIN t /\ Front(t)[i] = t[i + 0]
  BY DEF Front
<1> QED BY <1>1 DEF Window

\* A drain splits a queue in two.
LEMMA DrainSplits ==
  ASSUME NEW q \in Seq(Message)
  PROVE  /\ Batch(q) \in Seq(Message) /\ Window(Batch(q), q)
         /\ Remainder(q) \in Seq(Message) /\ Window(Remainder(q), q)
         /\ \A x : Ordered(q, x) => Before(Batch(q), Remainder(q), x)
<1>1. CASE DrainAll \/ q = <<>>
  <2>1. Batch(q) = q /\ Remainder(q) = <<>>
    BY <1>1 DEF Batch, Remainder
  <2> QED BY <2>1, WindowItself, WindowEmpty, EmptyType DEF Before
<1>2. CASE ~(DrainAll \/ q = <<>>)
  <2>1. Batch(q) = <<Head(q)>> /\ Remainder(q) = Tail(q)
    BY <1>2 DEF Batch, Remainder
  <2>2. Head(q) = q[1] /\ 1 \in DOMAIN q /\ Head(q) \in Message
    BY <1>2
  <2>3. \A j \in DOMAIN Tail(q) : j + 1 \in DOMAIN q /\ Tail(q)[j] = q[j + 1] /\ 1 < j + 1
    BY <1>2
  <2>4. \A i \in DOMAIN <<Head(q)>> : <<Head(q)>>[i] = q[1]
    BY <2>2
  <2>5. ASSUME NEW x, Ordered(q, x) PROVE Before(<<Head(q)>>, Tail(q), x)
    BY <2>2, <2>3, <2>4, <2>5 DEF Ordered, Before
  <2>6. Window(<<Head(q)>>, q) /\ Window(Tail(q), q)
    BY <1>2, <2>2, WindowOne, WindowTail
  <2>7. <<Head(q)>> \in Seq(Message) /\ Tail(q) \in Seq(Message)
    BY <1>2, <2>2
  <2> QED BY <2>1, <2>5, <2>6, <2>7
<1> QED BY <1>1, <1>2

\* A message put at the end.
LEMMA AppendKeeps ==
  ASSUME NEW s \in Seq(Message), NEW m \in Message
  PROVE  /\ \A x : Ordered(s, x) /\ Before(s, <<m>>, x) => Ordered(Append(s, m), x)
         /\ \A x, u : Before(u, s, x) /\ Before(u, <<m>>, x) => Before(u, Append(s, m), x)
         /\ \A x, u : Before(s, u, x) /\ Before(<<m>>, u, x) => Before(Append(s, m), u, x)
         /\ \A x : AllVia(s, x) /\ m.via = x => AllVia(Append(s, m), x)
         /\ \A b : Below(s, b) /\ m.id < b => Below(Append(s, m), b)
<1> DEFINE v == Append(s, m)
           k == Len(s) + 1
<1>1. /\ DOMAIN v = DOMAIN s \cup {k}
      /\ \A i \in DOMAIN s : v[i] = s[i] /\ i < k /\ ~(k < i)
      /\ v[k] = m /\ ~(k < k)
  OBVIOUS
<1>2. DOMAIN <<m>> = {1} /\ <<m>>[1] = m
  OBVIOUS
<1> HIDE DEF v, k
<1>3. ASSUME NEW x, Ordered(s, x), Before(s, <<m>>, x) PROVE Ordered(v, x)
  BY <1>1, <1>2, <1>3 DEF Ordered, Before
<1>4. ASSUME NEW x, NEW u PROVE /\ Before(u, s, x) /\ Before(u, <<m>>, x) => Before(u, v, x)
                                /\ Before(s, u, x) /\ Before(<<m>>, u, x) => Before(v, u, x)
  BY <1>1, <1>2 DEF Before
<1>5. ASSUME NEW x, AllVia(s, x), m.via = x PROVE AllVia(v, x)
  BY <1>1, <1>5 DEF AllVia
<1>6. ASSUME NEW b, Below(s, b), m.id < b PROVE Below(v, b)
  BY <1>1, <1>6 DEF Below
<1> QED BY <1>3, <1>4, <1>5, <1>6 DEF v

LEMMA ConcatKeeps ==
  ASSUME NEW s \in Seq(Message), NEW t \in Seq(Message)
  PROVE  /\ \A x : Ordered(s, x) /\ Ordered(t, x) /\ Before(s, t, x) => Ordered(s \o t, x)
         /\ \A x, u : Before(s, u, x) /\ Before(t, u, x) => Before(s \o t, u, x)
<1> DEFINE v == s \o t
<1>1. \A i \in DOMAIN v :
        \/ i \in DOMAIN s /\ v[i] = s[i]
        \/ i - Len(s) \in DOMAIN t /\ v[i] = t[i - Len(s)]
  BY ConcatProperties
<1>2. \A i, j \in DOMAIN v :
        i < j => /\ i \in Int /\ j \in Int
                 /\ i - Len(s) < j - Len(s)
                 /\ i - Len(s) \in DOMAIN t => j \notin DOMAIN s
  BY ConcatProperties
<1>3. \A i \in DOMAIN s : i \in Int
  OBVIOUS
<1> HIDE DEF v
<1>4. ASSUME NEW x, Ordered(s, x), Ordered(t, x), Before(s, t, x) PROVE Ordered(v, x)
  BY <1>1, <1>2, <1>4 DEF Ordered, Before
<1>5. ASSUME NEW x, NEW u, Before(s, u, x), Before(t, u, x) PROVE Before(v, u, x)
  BY <1>1, <1>5 DEF Before
<1> QED BY <1>4, <1>5 DEF v

-----------------------------------------------------------------------------
(* The inductive invariant.  QueuesAreFifo alone says nothing of the next poll: that a  *)
(* batch goes behind all that was delivered needs the order between each two places, and *)
(* that nothing queued later can have an older number.                                  *)

QueuesPure == AllVia(steering, "steer") /\ AllVia(followUp, "followUp")

Numbered ==
  /\ Below(transcript, born) /\ Below(steering, born) /\ Below(followUp, born)
  /\ \A r \in Runs : Below(todo[r], born)

OnlyTheLiveHold == \A r \in Runs : todo[r] # <<>> => phase[r] = "live"

\* The order of one source's messages within each place, and between the places.
Chain(x) ==
  /\ Ordered(transcript, x) /\ Ordered(steering, x) /\ Ordered(followUp, x)
  /\ Before(transcript, steering, x) /\ Before(transcript, followUp, x)
  /\ \A r \in Runs :
       /\ Ordered(todo[r], x) /\ Before(transcript, todo[r], x)
       /\ Before(todo[r], steering, x) /\ Before(todo[r], followUp, x)

MessageInv == QueuesPure /\ Numbered /\ OnlyTheLiveHold /\ \A x \in Queued : Chain(x)

\* The two queues have no message of one source between them.
LEMMA QueuesApart ==
  ASSUME QueuesPure, NEW x
  PROVE  Before(steering, followUp, x) /\ Before(followUp, steering, x)
BY DEF QueuesPure, AllVia, Before

LEMMA BelowMore ==
  ASSUME NEW s \in Seq(Message), NEW n \in Nat, NEW k \in Nat, n <= k, Below(s, n)
  PROVE  Below(s, k)
<1>1. ASSUME NEW i \in DOMAIN s PROVE s[i].id < k
  <2>1. s[i].id < n /\ s[i].id \in Nat
    BY SequenceDomain DEF Below, Message
  <2> QED BY <2>1
<1> QED BY <1>1 DEF Below

\* A message of no queue has no place in a queue's order; a fresh one comes after all.
LEMMA ForeignKeeps ==
  ASSUME NEW m, NEW x, m.via # x, NEW u
  PROVE  Before(<<m>>, u, x) /\ Before(u, <<m>>, x) /\ Ordered(<<m>>, x)
BY DEF Before, Ordered

LEMMA FreshIsLast ==
  ASSUME NEW s, NEW m, Below(s, m.id), NEW x
  PROVE  Before(s, <<m>>, x)
BY DEF Before, Below

\* Places that only lose messages.
LEMMA LosingKeeps ==
  ASSUME TypeOK, TypeOK', MessageInv, OnlyTheLiveHold', born <= born',
         Window(transcript', transcript), Window(steering', steering),
         Window(followUp', followUp), \A r \in Runs : Window(todo'[r], todo[r])
  PROVE  MessageInv'
<1> USE DEF TypeOK, AgentTypeOK, RunTypeOK, CallerTypeOK
<1>1. QueuesPure'
  BY WindowKeeps DEF MessageInv, QueuesPure
<1>2. \A s \in Seq(Message) : Below(s, born) => Below(s, born')
  BY BelowMore
<1>3. Numbered'
  <2>1. Below(transcript', born) /\ Below(steering', born) /\ Below(followUp', born)
    BY WindowKeeps DEF MessageInv, Numbered
  <2>2. \A r \in Runs : Below(todo'[r], born)
    BY WindowKeeps DEF MessageInv, Numbered
  <2> QED BY <1>2, <2>1, <2>2 DEF Numbered
<1>4. ASSUME NEW x \in Queued PROVE Chain(x)'
  <2>0. Chain(x)
    BY DEF MessageInv
  <2>1. Ordered(transcript', x) /\ Ordered(steering', x) /\ Ordered(followUp', x)
    BY <2>0, WindowKeeps DEF Chain
  <2>2. Before(transcript', steering', x) /\ Before(transcript', followUp', x)
    <3>1. Before(transcript', steering, x) /\ Before(transcript', followUp, x)
      BY <2>0, WindowKeeps DEF Chain
    <3> QED BY <3>1, WindowKeeps
  <2>3. ASSUME NEW r \in Runs
        PROVE  /\ Ordered(todo'[r], x) /\ Before(transcript', todo'[r], x)
               /\ Before(todo'[r], steering', x) /\ Before(todo'[r], followUp', x)
    <3>1. todo[r] \in Seq(Message) /\ todo'[r] \in Seq(Message) /\ Window(todo'[r], todo[r])
      BY <2>3
    <3>2. Ordered(todo'[r], x)
      BY <2>0, <3>1, WindowKeeps DEF Chain
    <3>3. Before(transcript', todo'[r], x)
      <4>1. Before(transcript', todo[r], x)
        BY <2>0, WindowKeeps DEF Chain
      <4> QED BY <3>1, <4>1, WindowKeeps
    <3>4. Before(todo'[r], steering', x) /\ Before(todo'[r], followUp', x)
      <4>1. Before(todo'[r], steering, x) /\ Before(todo'[r], followUp, x)
        BY <2>0, <3>1, WindowKeeps DEF Chain
      <4> QED BY <4>1, WindowKeeps
    <3> QED BY <3>2, <3>3, <3>4
  <2> QED BY <2>1, <2>2, <2>3 DEF Chain
<1> QED BY <1>1, <1>3, <1>4 DEF MessageInv

\* A message of the run's own at the end of the transcript.
LEMMA OwnMessageKeeps ==
  ASSUME TypeOK, TypeOK', MessageInv, OnlyTheLiveHold',
         NEW m \in Message, m.via \notin Queued, m.id < born', born <= born',
         transcript' = Append(transcript, m), UNCHANGED <<steering, followUp>>,
         \A r \in Runs : Window(todo'[r], todo[r])
  PROVE  MessageInv'
<1> USE DEF TypeOK, AgentTypeOK, RunTypeOK, CallerTypeOK
<1>1. QueuesPure'
  BY DEF MessageInv, QueuesPure
<1>2. Numbered'
  <2>1. Below(transcript, born') /\ Below(steering', born') /\ Below(followUp', born')
    BY BelowMore DEF MessageInv, Numbered
  <2>2. Below(transcript', born')
    BY <2>1, AppendKeeps
  <2>3. ASSUME NEW r \in Runs PROVE Below(todo'[r], born')
    <3>1. todo[r] \in Seq(Message) /\ todo'[r] \in Seq(Message) /\ Window(todo'[r], todo[r])
      OBVIOUS
    <3>2. Below(todo'[r], born)
      BY <3>1, WindowKeeps DEF MessageInv, Numbered
    <3> QED BY <3>1, <3>2, BelowMore
  <2> QED BY <2>1, <2>2, <2>3 DEF Numbered
<1>3. ASSUME NEW x \in Queued PROVE Chain(x)'
  <2>0. Chain(x) /\ m.via # x
    BY DEF MessageInv
  <2>f. \A u : Before(<<m>>, u, x) /\ Before(u, <<m>>, x)
    BY <2>0, ForeignKeeps
  <2>1. Ordered(transcript', x) /\ Ordered(steering', x) /\ Ordered(followUp', x)
    BY <2>0, <2>f, AppendKeeps DEF Chain
  <2>2. Before(transcript', steering', x) /\ Before(transcript', followUp', x)
    BY <2>0, <2>f, AppendKeeps DEF Chain
  <2>3. ASSUME NEW r \in Runs
        PROVE  /\ Ordered(todo'[r], x) /\ Before(transcript', todo'[r], x)
               /\ Before(todo'[r], steering', x) /\ Before(todo'[r], followUp', x)
    <3>1. todo[r] \in Seq(Message) /\ todo'[r] \in Seq(Message) /\ Window(todo'[r], todo[r])
      OBVIOUS
    <3>2. Ordered(todo'[r], x) /\ Before(transcript, todo'[r], x)
      BY <2>0, <3>1, WindowKeeps DEF Chain
    <3>3. Before(todo'[r], steering', x) /\ Before(todo'[r], followUp', x)
      BY <2>0, <3>1, WindowKeeps DEF Chain
    <3>4. Before(transcript', todo'[r], x)
      BY <2>f, <3>2, AppendKeeps
    <3> QED BY <3>2, <3>3, <3>4
  <2> QED BY <2>1, <2>2, <2>3 DEF Chain
<1> QED BY <1>1, <1>2, <1>3 DEF MessageInv

\* A run takes a batch while it has none: from a queue, or a prompt of its own.
LEMMA TakingKeeps ==
  ASSUME TypeOK, TypeOK', MessageInv, OnlyTheLiveHold', born <= born', UNCHANGED transcript,
         NEW p \in Runs, NEW batch \in Seq(Message), todo' = [todo EXCEPT ![p] = batch],
         Below(batch, born'), Window(steering', steering), Window(followUp', followUp),
         \A x \in Queued :
           /\ Ordered(batch, x) /\ Before(transcript, batch, x)
           /\ Before(batch, steering', x) /\ Before(batch, followUp', x)
  PROVE  MessageInv'
<1> USE DEF TypeOK, AgentTypeOK, RunTypeOK, CallerTypeOK
<1>1. QueuesPure'
  BY WindowKeeps DEF MessageInv, QueuesPure
<1>2. Numbered'
  <2>1. Below(transcript', born') /\ Below(steering', born') /\ Below(followUp', born')
    BY WindowKeeps, BelowMore DEF MessageInv, Numbered
  <2>2. ASSUME NEW r \in Runs PROVE Below(todo'[r], born')
    <3>1. Below(todo[r], born')
      BY BelowMore DEF MessageInv, Numbered
    <3> QED BY <3>1
  <2> QED BY <2>1, <2>2 DEF Numbered
<1>3. ASSUME NEW x \in Queued PROVE Chain(x)'
  <2>0. Chain(x)
    BY DEF MessageInv
  <2>1. Ordered(transcript', x) /\ Ordered(steering', x) /\ Ordered(followUp', x)
    BY <2>0, WindowKeeps DEF Chain
  <2>2. Before(transcript', steering', x) /\ Before(transcript', followUp', x)
    BY <2>0, WindowKeeps DEF Chain
  <2>3. ASSUME NEW r \in Runs
        PROVE  /\ Ordered(todo'[r], x) /\ Before(transcript', todo'[r], x)
               /\ Before(todo'[r], steering', x) /\ Before(todo'[r], followUp', x)
    <3>1. CASE r = p
      BY <3>1
    <3>2. CASE r # p
      <4>1. todo'[r] = todo[r]
        BY <3>2
      <4>2. Ordered(todo[r], x) /\ Before(transcript, todo[r], x)
        BY <2>0 DEF Chain
      <4>3. Before(todo[r], steering', x) /\ Before(todo[r], followUp', x)
        BY <2>0, WindowKeeps DEF Chain
      <4> QED BY <4>1, <4>2, <4>3
    <3> QED BY <3>1, <3>2
  <2> QED BY <2>1, <2>2, <2>3 DEF Chain
<1> QED BY <1>1, <1>2, <1>3 DEF MessageInv

\* The two ways a batch leaves a queue.
LEMMA SteeringTaken ==
  ASSUME TypeOK, TypeOK', MessageInv, OnlyTheLiveHold', UNCHANGED <<transcript, followUp, born>>,
         NEW p \in Runs, todo' = [todo EXCEPT ![p] = Batch(steering)],
         steering' = Remainder(steering)
  PROVE  MessageInv'
<1> USE DEF TypeOK, AgentTypeOK, RunTypeOK, CallerTypeOK
<1> DEFINE batch == Batch(steering)
<1>1. batch \in Seq(Message) /\ Window(batch, steering) /\ Window(steering', steering)
  BY DrainSplits
<1>2. \A x \in Queued : Before(batch, steering', x)
  BY DrainSplits DEF MessageInv, Chain
<1> HIDE DEF batch
<1>3. Below(batch, born') /\ Window(followUp', followUp)
  BY <1>1, WindowKeeps, WindowItself DEF MessageInv, Numbered
<1>4. \A x \in Queued : Ordered(batch, x) /\ Before(transcript, batch, x)
  BY <1>1, WindowKeeps DEF MessageInv, Chain
<1>5. \A x \in Queued : Before(batch, followUp', x)
  BY <1>1, WindowKeeps, QueuesApart DEF MessageInv
<1>6. todo' = [todo EXCEPT ![p] = batch]
  BY DEF batch
<1>7. born <= born'
  OBVIOUS
<1> QED BY <1>1, <1>2, <1>3, <1>4, <1>5, <1>6, <1>7, TakingKeeps

LEMMA FollowUpTaken ==
  ASSUME TypeOK, TypeOK', MessageInv, OnlyTheLiveHold', UNCHANGED <<transcript, steering, born>>,
         NEW p \in Runs, todo' = [todo EXCEPT ![p] = Batch(followUp)],
         followUp' = Remainder(followUp)
  PROVE  MessageInv'
<1> USE DEF TypeOK, AgentTypeOK, RunTypeOK, CallerTypeOK
<1> DEFINE batch == Batch(followUp)
<1>1. batch \in Seq(Message) /\ Window(batch, followUp) /\ Window(followUp', followUp)
  BY DrainSplits
<1>2. \A x \in Queued : Before(batch, followUp', x)
  BY DrainSplits DEF MessageInv, Chain
<1> HIDE DEF batch
<1>3. Below(batch, born') /\ Window(steering', steering)
  BY <1>1, WindowKeeps, WindowItself DEF MessageInv, Numbered
<1>4. \A x \in Queued : Ordered(batch, x) /\ Before(transcript, batch, x)
  BY <1>1, WindowKeeps DEF MessageInv, Chain
<1>5. \A x \in Queued : Before(batch, steering', x)
  BY <1>1, WindowKeeps, QueuesApart DEF MessageInv
<1>6. todo' = [todo EXCEPT ![p] = batch]
  BY DEF batch
<1>7. born <= born'
  OBVIOUS
<1> QED BY <1>1, <1>2, <1>3, <1>4, <1>5, <1>6, <1>7, TakingKeeps

\* A fresh message goes to the end of its queue.
LEMMA QueueingKeeps ==
  ASSUME TypeOK, TypeOK', MessageInv, OnlyTheLiveHold', UNCHANGED <<transcript, todo>>,
         NEW m \in Message, m.id = born, born' = born + 1,
         \/ m.via = "steer" /\ steering' = Append(steering, m) /\ followUp' = followUp
         \/ m.via = "followUp" /\ followUp' = Append(followUp, m) /\ steering' = steering
  PROVE  MessageInv'
<1> USE DEF TypeOK, AgentTypeOK, RunTypeOK, CallerTypeOK
<1>b. born <= born' /\ m.id < born'
  OBVIOUS
<1>1. QueuesPure'
  BY AppendKeeps DEF MessageInv, QueuesPure
<1>2. Numbered'
  <2>1. Below(transcript', born') /\ Below(steering, born') /\ Below(followUp, born')
    BY <1>b, BelowMore DEF MessageInv, Numbered
  <2>2. Below(steering', born') /\ Below(followUp', born')
    BY <1>b, <2>1, AppendKeeps
  <2>3. \A r \in Runs : Below(todo'[r], born')
    BY <1>b, BelowMore DEF MessageInv, Numbered
  <2> QED BY <2>1, <2>2, <2>3 DEF Numbered
<1>3. ASSUME NEW x \in Queued PROVE Chain(x)'
  <2>0. Chain(x)
    BY DEF MessageInv
  <2>a. \A s \in Seq(Message) :
          /\ Ordered(s, x) /\ Before(s, <<m>>, x) => Ordered(Append(s, m), x)
          /\ \A u : Before(u, s, x) /\ Before(u, <<m>>, x) => Before(u, Append(s, m), x)
    BY AppendKeeps
  <2>1. Before(steering, <<m>>, x) /\ Before(followUp, <<m>>, x) /\ Before(transcript, <<m>>, x)
    BY FreshIsLast DEF MessageInv, Numbered
  <2>2. \A r \in Runs : Before(todo[r], <<m>>, x)
    BY FreshIsLast DEF MessageInv, Numbered
  <2>3. /\ steering \in Seq(Message) /\ followUp \in Seq(Message)
        /\ steering' \in {steering, Append(steering, m)}
        /\ followUp' \in {followUp, Append(followUp, m)}
    OBVIOUS
  <2>4. Ordered(transcript', x) /\ Ordered(steering', x) /\ Ordered(followUp', x)
    BY <2>0, <2>1, <2>3, <2>a DEF Chain
  <2>5. \A u : /\ Before(u, <<m>>, x) /\ Before(u, steering, x) => Before(u, steering', x)
               /\ Before(u, <<m>>, x) /\ Before(u, followUp, x) => Before(u, followUp', x)
    BY <2>3, <2>a
  <2>6. Before(transcript, steering', x) /\ Before(transcript, followUp', x)
    BY <2>0, <2>1, <2>5 DEF Chain
  <2>7. ASSUME NEW r \in Runs
        PROVE  Before(todo[r], steering', x) /\ Before(todo[r], followUp', x)
    <3>1. /\ Before(todo[r], <<m>>, x)
          /\ Before(todo[r], steering, x) /\ Before(todo[r], followUp, x)
      BY <2>0, <2>2 DEF Chain
    <3> QED BY <2>5, <3>1
  <2>8. transcript' = transcript /\ todo' = todo
    OBVIOUS
  <2>9. \A r \in Runs : Ordered(todo[r], x) /\ Before(transcript, todo[r], x)
    BY <2>0 DEF Chain
  <2> QED BY <2>4, <2>6, <2>7, <2>8, <2>9 DEF Chain
<1> QED BY <1>1, <1>2, <1>3 DEF MessageInv

\* The run emits the first message it took; no other run holds any.
LEMMA EmittingKeeps ==
  ASSUME TypeOK, TypeOK', MessageInv, OnlyTheLiveHold', UNCHANGED <<steering, followUp, born>>,
         NEW p \in Runs, todo[p] # <<>>, \A r \in Runs \ {p} : todo[r] = <<>>,
         transcript' = Append(transcript, Head(todo[p])),
         todo' = [todo EXCEPT ![p] = Tail(@)]
  PROVE  MessageInv'
<1> DEFINE held == todo[p]
           m == Head(held)
           one == <<m>>
           rest == Tail(held)
<1>1. /\ held \in Seq(Message) /\ held # <<>> /\ transcript \in Seq(Message)
      /\ steering \in Seq(Message) /\ followUp \in Seq(Message)
  BY DEF TypeOK, AgentTypeOK, RunTypeOK
<1>2. /\ m \in Message /\ one \in Seq(Message) /\ rest \in Seq(Message)
      /\ 1 \in DOMAIN held /\ m = held[1] /\ one[1] = m /\ DOMAIN one = {1}
      /\ \A j \in DOMAIN rest : j + 1 \in DOMAIN held /\ rest[j] = held[j + 1] /\ 1 < j + 1
  BY <1>1
<1>3. Window(one, held) /\ Window(rest, held)
  BY <1>1, <1>2, WindowOne, WindowTail
<1>4. /\ transcript' = Append(transcript, m)
      /\ todo'[p] = rest
      /\ \A r \in Runs \ {p} : todo'[r] = <<>>
  BY DEF TypeOK, RunTypeOK
<1>5. /\ \A x : Ordered(transcript, x) /\ Before(transcript, one, x) => Ordered(transcript', x)
      /\ \A x, u : Before(transcript, u, x) /\ Before(one, u, x) => Before(transcript', u, x)
      /\ \A b : Below(transcript, b) /\ m.id < b => Below(transcript', b)
  BY <1>1, <1>2, <1>4, AppendKeeps
<1> HIDE DEF held, m, one, rest
<1>6. /\ \A x : Ordered(held, x) => Ordered(rest, x)
      /\ \A x, u : Before(u, held, x) => Before(u, one, x) /\ Before(u, rest, x)
      /\ \A x, u : Before(held, u, x) => Before(one, u, x) /\ Before(rest, u, x)
      /\ \A b : Below(held, b) => Below(one, b) /\ Below(rest, b)
  BY <1>1, <1>2, <1>3, WindowKeeps
<1>7. ASSUME NEW x, Ordered(held, x) PROVE Before(one, rest, x)
  BY <1>2, <1>7 DEF Ordered, Before
<1>8. QueuesPure'
  BY DEF MessageInv, QueuesPure
<1>9. Numbered'
  <2>1. Below(held, born)
    BY DEF MessageInv, Numbered, held
  <2>2. Below(rest, born) /\ m.id < born
    BY <1>2, <1>6, <2>1 DEF Below
  <2>3. Below(transcript', born)
    BY <1>5, <2>2 DEF MessageInv, Numbered
  <2>4. Below(<<>>, born)
    BY DEF Below
  <2> QED BY <1>4, <2>2, <2>3, <2>4 DEF MessageInv, Numbered
<1>10. ASSUME NEW x \in Queued PROVE Chain(x)'
  <2>1. /\ Ordered(transcript, x) /\ Ordered(steering, x) /\ Ordered(followUp, x)
        /\ Before(transcript, steering, x) /\ Before(transcript, followUp, x)
        /\ Ordered(held, x) /\ Before(transcript, held, x)
        /\ Before(held, steering, x) /\ Before(held, followUp, x)
    BY DEF MessageInv, Chain, held
  <2>2. Ordered(transcript', x) /\ Ordered(steering', x) /\ Ordered(followUp', x)
    BY <1>5, <1>6, <2>1
  <2>3. Before(transcript', steering', x) /\ Before(transcript', followUp', x)
    BY <1>5, <1>6, <2>1
  <2>4. /\ Ordered(rest, x) /\ Before(transcript', rest, x)
        /\ Before(rest, steering', x) /\ Before(rest, followUp', x)
    BY <1>5, <1>6, <1>7, <2>1
  <2>5. \A u : Ordered(<<>>, x) /\ Before(u, <<>>, x) /\ Before(<<>>, u, x)
    BY DEF Ordered, Before
  <2>6. ASSUME NEW r \in Runs
        PROVE  /\ Ordered(todo'[r], x) /\ Before(transcript', todo'[r], x)
               /\ Before(todo'[r], steering', x) /\ Before(todo'[r], followUp', x)
    <3>1. CASE r = p
      BY <1>4, <2>4, <3>1
    <3>2. CASE r # p
      BY <1>4, <2>5, <3>2
    <3> QED BY <3>1, <3>2
  <2> QED BY <2>2, <2>3, <2>6 DEF Chain
<1> QED BY <1>8, <1>9, <1>10 DEF MessageInv

-----------------------------------------------------------------------------
(* Every step keeps the order. *)

LEMMA HoldersStep ==
  ASSUME IInv, OnlyTheLiveHold, [Next]_vars
  PROVE  OnlyTheLiveHold'
<1> USE DEF IInv, LatchInv, TypeOK, AgentTypeOK, RunTypeOK, CallerTypeOK, Goto, agentVars, runVars
<1>1. ASSUME NEW c \in Callers, Starter(c) PROVE OnlyTheLiveHold'
  <2>1. CASE \E batch : at[c] \in AtStart /\ Spawn(c, batch)
    <3>1. PICK batch : at[c] \in AtStart /\ Spawn(c, batch)
      BY <2>1
    <3>2. claim[c] \in Runs
      BY <3>1, NoRunAssumption DEF ClaimOK
    <3>3. ASSUME NEW r \in Runs, todo'[r] # <<>> PROVE phase'[r] = "live"
      <4>1. CASE r = claim[c]
        BY <3>1, <3>2, <4>1 DEF Spawn
      <4>2. CASE r # claim[c]
        BY <3>1, <3>2, <3>3, <4>2 DEF Spawn, OnlyTheLiveHold
      <4> QED BY <4>1, <4>2
    <3> QED BY <3>3 DEF OnlyTheLiveHold
  <2>2. CASE ~\E batch : at[c] \in AtStart /\ Spawn(c, batch)
    <3>1. UNCHANGED todo /\ \A r \in Runs : phase[r] = "live" => phase'[r] = "live"
      <4>1. CASE ClaimLatch(c) \/ InstallToken(c) \/ Snapshot(c) \/ ReturnRejected(c)
        BY <4>1 DEF ClaimLatch, InstallToken, Snapshot, Reject, ReturnRejected, ClaimOK, AtSlot, AtSnap
      <4>2. CASE StartPrompt(c) \/ StartContinue(c) \/ StartFollowUp(c)
        BY <2>2, <4>2 DEF StartPrompt, StartContinue, StartFollowUp, Reject, ClaimOK, AtStart
      <4> QED BY <1>1, <4>1, <4>2 DEF Starter
    <3> QED BY <3>1 DEF OnlyTheLiveHold
  <2> QED BY <2>1, <2>2
<1>2. ASSUME NEW c \in Callers, Client(c) PROVE OnlyTheLiveHold'
  <2>1. UNCHANGED <<phase, todo>>
    BY <1>2 DEF Client, BeginPrompt, BeginContinue, Begin, BeginReset, ResetState, ResetQueues, EditTranscript,
      AppendFinalized, Steer, FollowUp, SetModel, Abort, BeginWait, ReturnIdle
  <2> QED BY <2>1 DEF OnlyTheLiveHold
<1>3. ASSUME NEW p \in Runs, Body(p) PROVE OnlyTheLiveHold'
  <2>1. CASE EmitTaken(p) \/ OpenReply(p) \/ CloseReply(p) \/ PollSteering(p) \/ PollFollowUp(p)
    BY <2>1 DEF EmitTaken, OpenReply, CloseReply, PollSteering, PollFollowUp, OnlyTheLiveHold
  <2>2. CASE FinishRun(p) \/ FailRun(p)
    BY <2>2 DEF FinishRun, FailRun, OnlyTheLiveHold
  <2> QED BY <1>3, <2>1, <2>2 DEF Body
<1>4. ASSUME NEW p \in Runs, Settle(p) PROVE OnlyTheLiveHold'
  BY <1>4 DEF Settle, DropState, DropSlot, DropRunning, DropResult, OnlyTheLiveHold
<1>5. CASE UNCHANGED vars
  BY <1>5 DEF vars, OnlyTheLiveHold
<1> QED BY <1>1, <1>2, <1>3, <1>4, <1>5 DEF Next

LEMMA MessageStep ==
  ASSUME IInv, IInv', MessageInv, [Next]_vars
  PROVE  MessageInv'
<1>t. TypeOK /\ TypeOK' /\ OnlyTheLiveHold'
  BY HoldersStep DEF IInv, MessageInv
<1>w. /\ Window(transcript, transcript) /\ Window(steering, steering) /\ Window(followUp, followUp)
      /\ \A r \in Runs : Window(todo[r], todo[r])
  BY <1>t, WindowItself DEF TypeOK, AgentTypeOK, RunTypeOK
<1>n. born \in Nat /\ born <= born /\ born <= born + 1 /\ born < born + 1
  BY <1>t DEF TypeOK, CallerTypeOK
<1>u. ASSUME UNCHANGED <<transcript, steering, followUp, todo, born>> PROVE MessageInv'
  BY <1>n, <1>t, <1>u, <1>w, LosingKeeps
<1>f. \A source \in Sources : /\ Fresh(source) \in Message
                              /\ Fresh(source).via = source /\ Fresh(source).id = born
  BY <1>n, FreshType DEF Fresh
<1>1. ASSUME NEW c \in Callers, Starter(c) PROVE MessageInv'
  <2>1. at[c] \in AtStart => claim[c] \in Runs
    BY NoRunAssumption DEF IInv, LatchInv, ClaimOK, TypeOK, CallerTypeOK
  <2>2. CASE ClaimLatch(c) \/ InstallToken(c) \/ Snapshot(c) \/ ReturnRejected(c)
    BY <1>u, <2>2 DEF ClaimLatch, InstallToken, Snapshot, ReturnRejected, agentVars, runVars
  <2>3. CASE StartPrompt(c)
    <3> DEFINE m == Fresh("prompt")
    <3>1. m \in Message /\ m.via = "prompt" /\ m.id = born
      BY <1>f DEF Sources
    <3>2. /\ claim[c] \in Runs
          /\ todo' = [todo EXCEPT ![claim[c]] = <<m>>]
          /\ UNCHANGED <<transcript, steering, followUp>> /\ born' = born + 1
      BY <2>1, <2>3 DEF StartPrompt, Spawn, agentVars, AtStart
    <3> HIDE DEF m
    <3>3. <<m>> \in Seq(Message) /\ Below(<<m>>, born')
      BY <1>n, <3>1, <3>2 DEF Below
    <3>4. \A x \in Queued : /\ Ordered(<<m>>, x) /\ Before(transcript, <<m>>, x)
                            /\ Before(<<m>>, steering, x) /\ Before(<<m>>, followUp, x)
      BY <3>1, ForeignKeeps DEF Queued
    <3> QED BY <1>n, <1>t, <1>w, <3>2, <3>3, <3>4, TakingKeeps
  <2>4. CASE StartContinue(c)
    <3>1. at[c] \in AtStart /\ UNCHANGED <<transcript, followUp, born>>
      BY <2>4 DEF StartContinue, AtStart
    <3>2. CASE Spawn(c, Batch(steering)) /\ steering' = Remainder(steering)
      BY <1>t, <2>1, <3>1, <3>2, SteeringTaken DEF Spawn
    <3>3. CASE Spawn(c, <<>>) /\ UNCHANGED steering
      <4>1. \A r \in Runs : Window(todo'[r], todo[r])
        BY <1>t, <1>w, <2>1, <3>1, <3>3, WindowEmpty DEF Spawn, TypeOK, RunTypeOK
      <4> QED BY <1>n, <1>t, <1>w, <3>1, <3>3, <4>1, LosingKeeps
    <3>4. CASE UNCHANGED <<todo, steering>>
      BY <1>u, <3>1, <3>4
    <3> QED BY <2>4, <3>2, <3>3, <3>4 DEF StartContinue
  <2>5. CASE StartFollowUp(c)
    <3>1. at[c] \in AtStart /\ UNCHANGED <<transcript, steering, born>>
      BY <2>5 DEF StartFollowUp, AtStart
    <3>2. CASE Spawn(c, Batch(followUp)) /\ followUp' = Remainder(followUp)
      BY <1>t, <2>1, <3>1, <3>2, FollowUpTaken DEF Spawn
    <3>3. CASE UNCHANGED <<todo, followUp>>
      BY <1>u, <3>1, <3>3
    <3> QED BY <2>5, <3>2, <3>3 DEF StartFollowUp
  <2> QED BY <1>1, <2>2, <2>3, <2>4, <2>5 DEF Starter
<1>2. ASSUME NEW c \in Callers, Client(c) PROVE MessageInv'
  <2>1. UNCHANGED todo
    BY <1>2 DEF Client, BeginPrompt, BeginContinue, Begin, BeginReset, ResetState, ResetQueues, EditTranscript,
      AppendFinalized, Steer, FollowUp, SetModel, Abort, BeginWait, ReturnIdle, runVars
  <2>2. CASE ResetState(c)
    <3>1. Window(transcript', transcript)
      BY <1>t, <2>2, WindowEmpty, WindowOne DEF ResetState, TypeOK, AgentTypeOK
    <3> QED BY <1>n, <1>t, <1>w, <2>1, <2>2, <3>1, LosingKeeps DEF ResetState
  <2>3. CASE ResetQueues(c)
    <3>1. Window(steering', steering) /\ Window(followUp', followUp)
      BY <1>w, <2>3, WindowEmpty DEF ResetQueues
    <3> QED BY <1>n, <1>t, <1>w, <2>1, <2>3, <3>1, LosingKeeps DEF ResetQueues
  <2>4. CASE EditTranscript(c)
    <3>1. UNCHANGED <<steering, followUp>>
      BY <2>4 DEF EditTranscript
    <3>2. CASE transcript' = Append(transcript, Fresh("edit")) /\ born' = born + 1
      BY <1>f, <1>n, <1>t, <1>w, <2>1, <3>1, <3>2, OwnMessageKeeps DEF Sources, Queued
    <3>3. CASE EndsInAssistant(transcript) /\ transcript' = Front(transcript) /\ UNCHANGED born
      <4>1. Window(transcript', transcript)
        BY <1>t, <3>3, WindowFront DEF EndsInAssistant, TypeOK, AgentTypeOK
      <4> QED BY <1>n, <1>t, <1>w, <2>1, <3>1, <3>3, <4>1, LosingKeeps
    <3> QED BY <2>4, <3>2, <3>3 DEF EditTranscript
  <2>5. CASE AppendFinalized(c)
    BY <1>f, <1>n, <1>t, <1>w, <2>1, <2>5, OwnMessageKeeps DEF AppendFinalized, Sources, Queued
  <2>6. CASE Steer(c)
    BY <1>f, <1>t, <2>1, <2>6, QueueingKeeps DEF Steer, Sources
  <2>7. CASE FollowUp(c)
    BY <1>f, <1>t, <2>1, <2>7, QueueingKeeps DEF FollowUp, Sources
  <2>8. CASE \/ BeginPrompt(c) \/ BeginContinue(c) \/ BeginReset(c) \/ SetModel(c) \/ Abort(c)
             \/ BeginWait(c) \/ ReturnIdle(c)
    BY <1>u, <2>8 DEF BeginPrompt, BeginContinue, Begin, BeginReset, SetModel, Abort, BeginWait, ReturnIdle,
      agentVars, runVars
  <2> QED BY <1>2, <2>2, <2>3, <2>4, <2>5, <2>6, <2>7, <2>8 DEF Client
<1>3. ASSUME NEW p \in Runs, Body(p) PROVE MessageInv'
  <2>1. CASE EmitTaken(p)
    <3>1. \A r \in Runs \ {p} : todo[r] = <<>>
      BY <2>1 DEF EmitTaken, MessageInv, OnlyTheLiveHold, IInv, LatchInv, OneRunHoldsTheLatch, Holding
    <3> QED BY <1>t, <2>1, <3>1, EmittingKeeps DEF EmitTaken
  <2>2. CASE CloseReply(p)
    BY <1>f, <1>n, <1>t, <1>w, <2>2, OwnMessageKeeps DEF CloseReply, Sources, Queued
  <2>3. CASE PollSteering(p)
    BY <1>t, <2>3, SteeringTaken DEF PollSteering
  <2>4. CASE PollFollowUp(p)
    BY <1>t, <2>4, FollowUpTaken DEF PollFollowUp
  <2>5. CASE FailRun(p)
    <3>1. \A r \in Runs : Window(todo'[r], todo[r])
      BY <1>t, <1>w, <2>5, WindowEmpty DEF FailRun, TypeOK, RunTypeOK
    <3> QED BY <1>f, <1>n, <1>t, <2>5, <3>1, OwnMessageKeeps DEF FailRun, Sources, Queued
  <2>6. CASE OpenReply(p) \/ FinishRun(p)
    BY <1>u, <2>6 DEF OpenReply, FinishRun, agentVars, runVars
  <2> QED BY <1>3, <2>1, <2>2, <2>3, <2>4, <2>5, <2>6 DEF Body
<1>4. ASSUME NEW p \in Runs, Settle(p) PROVE MessageInv'
  BY <1>4, <1>u DEF Settle, DropState, DropSlot, DropRunning, DropResult, agentVars
<1>5. CASE UNCHANGED vars
  BY <1>5, <1>u DEF vars, agentVars, runVars
<1> QED BY <1>1, <1>2, <1>3, <1>4, <1>5 DEF Next

LEMMA InitMessages == Init => MessageInv
<1> SUFFICES ASSUME Init PROVE MessageInv
  OBVIOUS
<1>1. QueuesPure /\ OnlyTheLiveHold
  BY DEF Init, QueuesPure, AllVia, OnlyTheLiveHold
<1>2. \A i \in DOMAIN transcript :
         transcript[i].via \in {"system", "assistant"} /\ transcript[i].id = 0
  BY FirstTranscript
<1>3. Numbered
  BY <1>2 DEF Init, Numbered, Below
<1>4. ASSUME NEW x \in Queued PROVE Chain(x)
  BY <1>2 DEF Init, Chain, Ordered, Before, Queued
<1> QED BY <1>1, <1>3, <1>4 DEF MessageInv

\* What the invariant says of the whole way a message goes.
LEMMA DeliveryOrdered ==
  ASSUME IInv, MessageInv
  PROVE  QueuesAreFifo
<1> SUFFICES ASSUME NEW x \in Queued PROVE Ordered(Delivery, x)
  BY DEF QueuesAreFifo, Queued
<1> DEFINE hand == InHand
<1>1. transcript \in Seq(Message) /\ steering \in Seq(Message) /\ followUp \in Seq(Message)
  BY DEF IInv, TypeOK, AgentTypeOK
<1>2. /\ hand \in Seq(Message) /\ Ordered(hand, x) /\ Before(transcript, hand, x)
      /\ Before(hand, steering, x) /\ Before(hand, followUp, x)
  <2>1. CASE \A r \in Runs : todo[r] = <<>>
    <3>1. hand = <<>>
      BY <2>1 DEF InHand
    <3> HIDE DEF hand
    <3> QED BY <3>1, EmptyType DEF Ordered, Before
  <2>2. CASE ~\A r \in Runs : todo[r] = <<>>
    <3>1. PICK r \in Runs : hand = todo[r]
      BY <2>2 DEF InHand
    <3> HIDE DEF hand
    <3>2. todo[r] \in Seq(Message)
      BY DEF IInv, TypeOK, RunTypeOK
    <3> QED BY <3>1, <3>2 DEF MessageInv, Chain
  <2> QED BY <2>1, <2>2
<1>3. Delivery = transcript \o hand \o steering \o followUp
  BY DEF Delivery
<1> HIDE DEF hand
<1>4. /\ Ordered(transcript, x) /\ Ordered(steering, x) /\ Ordered(followUp, x)
      /\ Before(transcript, steering, x) /\ Before(transcript, followUp, x)
      /\ Before(steering, followUp, x)
  BY QueuesApart DEF MessageInv, Chain
<1>5. /\ transcript \o hand \in Seq(Message)
      /\ Ordered(transcript \o hand, x)
      /\ Before(transcript \o hand, steering, x) /\ Before(transcript \o hand, followUp, x)
  BY <1>1, <1>2, <1>4, ConcatKeeps
<1> DEFINE upTo == transcript \o hand
<1>6. /\ upTo \in Seq(Message) /\ Ordered(upTo, x)
      /\ Before(upTo, steering, x) /\ Before(upTo, followUp, x)
  BY <1>5
<1> HIDE DEF upTo
<1>7. /\ upTo \o steering \in Seq(Message)
      /\ Ordered(upTo \o steering, x) /\ Before(upTo \o steering, followUp, x)
  BY <1>1, <1>4, <1>6, ConcatKeeps
<1>8. Ordered(upTo \o steering \o followUp, x)
  BY <1>1, <1>4, <1>7, ConcatKeeps
<1> QED BY <1>3, <1>8 DEF upTo

\* Steering and follow-up messages keep the order they were queued in, each delivered once,
\* for any callers, queue mode and number of runs.
THEOREM DeliveryIsFifo == Spec => []QueuesAreFifo
<1>1. Init => MessageInv
  BY InitMessages
<1>2. IInv /\ IInv' /\ MessageInv /\ [Next]_vars => MessageInv'
  BY MessageStep
<1>3. IInv /\ MessageInv => QueuesAreFifo
  BY DeliveryOrdered
<1> QED BY <1>1, <1>2, <1>3, Invariance, PTL DEF Spec

=============================================================================
