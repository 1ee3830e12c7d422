------------------------------ MODULE AgentLatch ------------------------------
(***************************************************************************)
(* The run latch of cyrup-agent: agent/lifecycle.rs and agent/facade.rs.   *)
(*                                                                         *)
(* Any number of tasks share one Agent.  A run is claimed by a compare-    *)
(* and-set on the `running` watch channel, installs its cancel token, then *)
(* snapshots the transcript under the state lock, and is spawned.  Its     *)
(* SettlementGuard gives everything back in four separate steps.  Each     *)
(* critical section of the code is one action here, so every interleaving  *)
(* of callers, run tasks and settlements is explored.                      *)
(*                                                                         *)
(* What a run does between its start and its settlement is reduced to what *)
(* the latch's clients can see of it (messages reduced into the shared     *)
(* transcript, queues polled, a failure); module AgentLoop has the loop.   *)
(***************************************************************************)
EXTENDS Naturals, Sequences, SequencesExt

CONSTANTS
  Callers,   \* tasks holding the Agent
  Runs,      \* RunCancel tokens, one per accepted claim (a bound on claims)
  NoRun,     \* Option::None, in the cancel slot and in `claim`
  DrainAll,  \* QueueMode of both queues: All (TRUE) or OneAtATime (FALSE)
  Setups     \* the circumstances a behaviour may have, one of which holds throughout

\* What a setup says.
Setup == [
  ops       : [Callers -> SUBSET {"prompt", "continue", "reset", "edit", "final", "steer",
                                  "followUp", "model", "abort", "wait"}],
                        \* per caller: the operations it may begin
  histories : SUBSET {"none", "system", "answered"},  \* what the agent is built with
  maxMsgs   : Nat]      \* bound on the messages ever created

ASSUME NoRunAssumption == NoRun \notin Runs
ASSUME SetupsAssumption == \A s \in Setups : s \in Setup
ASSUME DrainAllAssumption == DrainAll \in BOOLEAN

VARIABLES
  running,     \* the value of running_tx, the latch itself
  slot,        \* cancel_slot
  cancelled,   \* the tokens that have been fired
  model,       \* state.model is Some
  transcript,  \* state.messages
  inflight,    \* state.streaming_message is Some, or pending_tool_calls is not empty
  steering,    \* the steering queue
  followUp,    \* the follow-up queue
  phase,       \* per run: where its guard is
  view,        \* per run: its private copy of the transcript
  todo,        \* per run: messages it took and has not emitted yet
  handle,      \* per run: the oneshot behind its RunHandle
  at,          \* per caller: its control point
  claim,       \* per caller: the run it is starting
  born,        \* number of messages created so far
  wiped,       \* history: runs whose transcript a reset rewrote under them
  setup        \* the circumstances

agentVars == <<running, slot, cancelled, model, transcript, inflight, steering, followUp>>
runVars   == <<phase, view, todo, handle>>
vars      == <<agentVars, runVars, at, claim, born, wiped, setup>>

-----------------------------------------------------------------------------

Sources == {"system", "prompt", "steer", "followUp", "edit", "final", "assistant"}
Message == [via : Sources, id : Nat]

\* The next message of a given source; ids are unique because `born` counts them.
Fresh(source) == [via |-> source, id |-> born]

\* A run's life: its claim, its two critical sections, its task, its guard's drop.
Starting == {"claimed", "slotted", "snapped"}
Dropping == {"dropState", "dropSlot", "dropRunning"}
Holding  == Starting \cup {"live"} \cup Dropping
Phases   == {"unused"} \cup Holding \cup {"dropResult", "done"}

\* The phases in which the cancel slot is this run's.
Slotted  == {"slotted", "snapped", "live", "dropState", "dropSlot"}

CallerPoints == {"idle", "prompt", "continue", "slotPrompt", "slotContinue",
                 "snapPrompt", "snapContinue", "startPrompt", "startContinue",
                 "startFollowUp", "rejected", "resetState", "resetSteering",
                 "resetFollowUp", "waiting"}

\* PendingQueue::drain: the batch it returns and what it leaves.
Batch(queue)     == IF DrainAll \/ queue = <<>> THEN queue ELSE <<Head(queue)>>
Remainder(queue) == IF DrainAll \/ queue = <<>> THEN <<>> ELSE Tail(queue)

\* The current system message is the newest one in the transcript.
IsCurrentSystem(msgs, i) ==
  /\ msgs[i].via = "system"
  /\ \A j \in DOMAIN msgs : msgs[j].via = "system" => j <= i

EndsInAssistant(msgs) == msgs # <<>> /\ Last(msgs).via = "assistant"

\* The messages an agent is built with: none, a system message, or a conversation that an
\* answer ends (a session that is resumed).
History ==
  LET system == [via |-> "system", id |-> 0]
      answer == [via |-> "assistant", id |-> 0]
  IN  [none |-> <<>>, system |-> <<system>>, answered |-> <<system, answer>>]

Init ==
  /\ running = FALSE
  /\ slot = NoRun
  /\ cancelled = {}
  /\ model = TRUE
  /\ setup \in Setups
  /\ transcript \in {History[h] : h \in setup.histories}
  /\ inflight = FALSE
  /\ steering = <<>>
  /\ followUp = <<>>
  /\ phase = [r \in Runs |-> "unused"]
  /\ view = [r \in Runs |-> <<>>]
  /\ todo = [r \in Runs |-> <<>>]
  /\ handle = [r \in Runs |-> "none"]
  /\ at = [c \in Callers |-> "idle"]
  /\ claim = [c \in Callers |-> NoRun]
  /\ born = 1
  /\ wiped = {}

-----------------------------------------------------------------------------
(* Starting a run: prompt and continue_run share the claim. *)

Goto(c, point) == at' = [at EXCEPT ![c] = point]

\* The is_running() fast path; a busy agent refuses and nothing changes.
Begin(c, o) ==
  /\ at[c] = "idle"
  /\ o \in setup.ops[c]
  /\ ~running
  /\ Goto(c, o)
  /\ UNCHANGED <<agentVars, runVars, claim, born, wiped, setup>>

BeginPrompt(c)   == Begin(c, "prompt")
BeginContinue(c) == Begin(c, "continue")

\* Plausible bug: only the fast path looks at the latch.
ClaimLatchUnchecked(c) ==
  /\ at[c] \in {"prompt", "continue"}
  /\ running' = TRUE
  /\ \E r \in Runs :
       /\ phase[r] = "unused"
       /\ phase' = [phase EXCEPT ![r] = "claimed"]
       /\ claim' = [claim EXCEPT ![c] = r]
  /\ Goto(c, IF at[c] = "prompt" THEN "slotPrompt" ELSE "slotContinue")
  /\ UNCHANGED <<slot, cancelled, model, transcript, inflight, steering, followUp,
                 view, todo, handle, born, wiped, setup>>

\* The compare-and-set on running_tx.  Losing it is RunActive(Run).
ClaimLatch(c) ==
  /\ at[c] \in {"prompt", "continue"}
  /\ \/ /\ running
        /\ Goto(c, "idle")
        /\ UNCHANGED <<running, phase, claim>>
     \/ /\ ~running
        /\ running' = TRUE
        /\ \E r \in Runs :
             /\ phase[r] = "unused"
             /\ phase' = [phase EXCEPT ![r] = "claimed"]
             /\ claim' = [claim EXCEPT ![c] = r]
        /\ Goto(c, IF at[c] = "prompt" THEN "slotPrompt" ELSE "slotContinue")
  /\ UNCHANGED <<slot, cancelled, model, transcript, inflight, steering, followUp,
                 view, todo, handle, born, wiped, setup>>

InstallToken(c) ==
  /\ at[c] \in {"slotPrompt", "slotContinue"}
  /\ slot' = claim[c]
  /\ phase' = [phase EXCEPT ![claim[c]] = "slotted"]
  /\ Goto(c, IF at[c] = "slotPrompt" THEN "snapPrompt" ELSE "snapContinue")
  /\ UNCHANGED <<running, cancelled, model, transcript, inflight, steering, followUp,
                 view, todo, handle, claim, born, wiped, setup>>

\* An early return after the claim: the caller's guard drops before it returns.
Reject(c) ==
  /\ phase' = [phase EXCEPT ![claim[c]] = "dropState"]
  /\ Goto(c, "rejected")

\* One state lock: the model check, then the run-start snapshot.
Snapshot(c) ==
  /\ at[c] \in {"snapPrompt", "snapContinue"}
  /\ \/ /\ ~model
        /\ Reject(c)
        /\ UNCHANGED view
     \/ /\ model
        /\ view' = [view EXCEPT ![claim[c]] = transcript]
        /\ phase' = [phase EXCEPT ![claim[c]] = "snapped"]
        /\ Goto(c, IF at[c] = "snapPrompt" THEN "startPrompt" ELSE "startContinue")
  /\ UNCHANGED <<agentVars, todo, handle, claim, born, wiped, setup>>

\* spawn_run: the task owns the guard from here on.
Spawn(c, batch) ==
  /\ phase' = [phase EXCEPT ![claim[c]] = "live"]
  /\ todo' = [todo EXCEPT ![claim[c]] = batch]
  /\ handle' = [handle EXCEPT ![claim[c]] = "open"]
  /\ claim' = [claim EXCEPT ![c] = NoRun]
  /\ Goto(c, "idle")

StartPrompt(c) ==
  /\ at[c] = "startPrompt"
  /\ Spawn(c, <<Fresh("prompt")>>)
  /\ born' = born + 1
  /\ UNCHANGED <<agentVars, view, wiped, setup>>

\* continue_run on the snapshot: an empty transcript is refused, an assistant tail
\* drains steering (then follow-up) into a prompt, anything else resumes.
StartContinue(c) ==
  LET base == view[claim[c]] IN
  /\ at[c] = "startContinue"
  /\ \/ /\ base = <<>>
        /\ Reject(c)
        /\ UNCHANGED <<todo, handle, claim, steering>>
     \/ /\ EndsInAssistant(base)
        /\ steering # <<>>
        /\ Spawn(c, Batch(steering))
        /\ steering' = Remainder(steering)
     \/ /\ EndsInAssistant(base)
        /\ steering = <<>>
        /\ Goto(c, "startFollowUp")
        /\ UNCHANGED <<phase, todo, handle, claim, steering>>
     \/ /\ base # <<>>
        /\ ~EndsInAssistant(base)
        /\ Spawn(c, <<>>)
        /\ UNCHANGED steering
  /\ UNCHANGED <<running, slot, cancelled, model, transcript, inflight, followUp,
                 view, born, wiped, setup>>

StartFollowUp(c) ==
  /\ at[c] = "startFollowUp"
  /\ \/ /\ followUp = <<>>
        /\ Reject(c)
        /\ UNCHANGED <<todo, handle, claim, followUp>>
     \/ /\ followUp # <<>>
        /\ Spawn(c, Batch(followUp))
        /\ followUp' = Remainder(followUp)
  /\ UNCHANGED <<running, slot, cancelled, model, transcript, inflight, steering,
                 view, born, wiped, setup>>

\* The refused caller gets its Err once its guard has finished dropping.
ReturnRejected(c) ==
  /\ at[c] = "rejected"
  /\ phase[claim[c]] = "done"
  /\ claim' = [claim EXCEPT ![c] = NoRun]
  /\ Goto(c, "idle")
  /\ UNCHANGED <<agentVars, runVars, born, wiped, setup>>

-----------------------------------------------------------------------------
(* The other operations of the facade. *)

\* reset: the check and the three locks it then takes are four separate steps.
BeginReset(c) ==
  /\ at[c] = "idle"
  /\ "reset" \in setup.ops[c]
  /\ ~running
  /\ Goto(c, "resetState")
  /\ UNCHANGED <<agentVars, runVars, claim, born, wiped, setup>>

ResetState(c) ==
  /\ at[c] = "resetState"
  /\ \/ /\ \A i \in DOMAIN transcript : transcript[i].via # "system"
        /\ transcript' = <<>>
     \/ \E i \in DOMAIN transcript :
          /\ IsCurrentSystem(transcript, i)
          /\ transcript' = <<transcript[i]>>
  /\ inflight' = FALSE
  /\ wiped' = wiped \cup {r \in Runs : phase[r] \in {"snapped", "live"}}
  /\ Goto(c, "resetSteering")
  /\ UNCHANGED <<running, slot, cancelled, model, steering, followUp, runVars, claim, born, setup>>

ResetQueues(c) ==
  /\ \/ /\ at[c] = "resetSteering"
        /\ steering' = <<>>
        /\ Goto(c, "resetFollowUp")
        /\ UNCHANGED followUp
     \/ /\ at[c] = "resetFollowUp"
        /\ followUp' = <<>>
        /\ Goto(c, "idle")
        /\ UNCHANGED steering
  /\ UNCHANGED <<running, slot, cancelled, model, transcript, inflight, runVars, claim,
                 born, wiped, setup>>

\* Plausible bug: the edit forgets the latch.
EditTranscriptUnlatched(c) ==
  /\ at[c] = "idle"
  /\ "edit" \in setup.ops[c]
  /\ born < setup.maxMsgs
  /\ transcript' = Append(transcript, Fresh("edit"))
  /\ born' = born + 1
  /\ UNCHANGED <<running, slot, cancelled, model, inflight, steering, followUp, runVars,
                 at, claim, wiped, setup>>

\* edit_transcript reads the latch with the state lock held: one step.  The two edits
\* the session makes are an append and a pop of the trailing assistant message.
EditTranscript(c) ==
  /\ at[c] = "idle"
  /\ "edit" \in setup.ops[c]
  /\ ~running
  /\ \/ /\ born < setup.maxMsgs
        /\ transcript' = Append(transcript, Fresh("edit"))
        /\ born' = born + 1
     \/ /\ EndsInAssistant(transcript)
        /\ transcript' = Front(transcript)
        /\ UNCHANGED born
  /\ UNCHANGED <<running, slot, cancelled, model, inflight, steering, followUp, runVars,
                 at, claim, wiped, setup>>

\* append_finalized_message does not consult the latch.
AppendFinalized(c) ==
  /\ at[c] = "idle"
  /\ "final" \in setup.ops[c]
  /\ born < setup.maxMsgs
  /\ transcript' = Append(transcript, Fresh("final"))
  /\ born' = born + 1
  /\ UNCHANGED <<running, slot, cancelled, model, inflight, steering, followUp, runVars,
                 at, claim, wiped, setup>>

\* Plausible bug: a steering message overtakes those that are waiting.
SteerInFront(c) ==
  /\ at[c] = "idle"
  /\ "steer" \in setup.ops[c]
  /\ born < setup.maxMsgs
  /\ steering' = <<Fresh("steer")>> \o steering
  /\ born' = born + 1
  /\ UNCHANGED <<running, slot, cancelled, model, transcript, inflight, followUp, runVars,
                 at, claim, wiped, setup>>

Steer(c) ==
  /\ at[c] = "idle"
  /\ "steer" \in setup.ops[c]
  /\ born < setup.maxMsgs
  /\ steering' = Append(steering, Fresh("steer"))
  /\ born' = born + 1
  /\ UNCHANGED <<running, slot, cancelled, model, transcript, inflight, followUp, runVars,
                 at, claim, wiped, setup>>

FollowUp(c) ==
  /\ at[c] = "idle"
  /\ "followUp" \in setup.ops[c]
  /\ born < setup.maxMsgs
  /\ followUp' = Append(followUp, Fresh("followUp"))
  /\ born' = born + 1
  /\ UNCHANGED <<running, slot, cancelled, model, transcript, inflight, steering, runVars,
                 at, claim, wiped, setup>>

SetModel(c) ==
  /\ at[c] = "idle"
  /\ "model" \in setup.ops[c]
  /\ model' = ~model
  /\ UNCHANGED <<running, slot, cancelled, transcript, inflight, steering, followUp,
                 runVars, at, claim, born, wiped, setup>>

\* abort fires whatever token the slot holds; an empty slot makes it a no-op.
Abort(c) ==
  /\ at[c] = "idle"
  /\ "abort" \in setup.ops[c]
  /\ slot # NoRun
  /\ cancelled' = cancelled \cup {slot}
  /\ UNCHANGED <<running, slot, model, transcript, inflight, steering, followUp, runVars,
                 at, claim, born, wiped, setup>>

BeginWait(c) ==
  /\ at[c] = "idle"
  /\ "wait" \in setup.ops[c]
  /\ running
  /\ Goto(c, "waiting")
  /\ UNCHANGED <<agentVars, runVars, claim, born, wiped, setup>>

\* wait_for_idle re-reads the channel on every change and returns on `false`.
ReturnIdle(c) ==
  /\ at[c] = "waiting"
  /\ ~running
  /\ Goto(c, "idle")
  /\ UNCHANGED <<agentVars, runVars, claim, born, wiped, setup>>

-----------------------------------------------------------------------------
(* The run task. *)

\* message_end of a prompt, steering or follow-up message: the reducer pushes it onto
\* state.messages, the loop onto its own copy.
EmitTaken(r) ==
  /\ phase[r] = "live"
  /\ todo[r] # <<>>
  /\ transcript' = Append(transcript, Head(todo[r]))
  /\ view' = [view EXCEPT ![r] = Append(@, Head(todo[r]))]
  /\ todo' = [todo EXCEPT ![r] = Tail(@)]
  /\ UNCHANGED <<running, slot, cancelled, model, inflight, steering, followUp, phase,
                 handle, at, claim, born, wiped, setup>>

\* message_start, or tool_execution_start: something is in flight in the shared state.
OpenReply(r) ==
  /\ phase[r] = "live"
  /\ todo[r] = <<>>
  /\ ~inflight
  /\ born < setup.maxMsgs
  /\ inflight' = TRUE
  /\ UNCHANGED <<running, slot, cancelled, model, transcript, steering, followUp, runVars,
                 at, claim, born, wiped, setup>>

\* message_end of an assistant message.
CloseReply(r) ==
  /\ phase[r] = "live"
  /\ todo[r] = <<>>
  /\ inflight
  /\ born < setup.maxMsgs
  /\ inflight' = FALSE
  /\ transcript' = Append(transcript, Fresh("assistant"))
  /\ view' = [view EXCEPT ![r] = Append(@, Fresh("assistant"))]
  /\ born' = born + 1
  /\ UNCHANGED <<running, slot, cancelled, model, steering, followUp, phase, todo, handle,
                 at, claim, wiped, setup>>

\* Plausible bug: the poll peeks where it should drain.
PollSteeringPeek(r) ==
  /\ phase[r] = "live"
  /\ todo[r] = <<>>
  /\ steering # <<>>
  /\ todo' = [todo EXCEPT ![r] = Batch(steering)]
  /\ UNCHANGED <<agentVars, phase, view, handle, at, claim, born, wiped, setup>>

\* poll_steering and poll_follow_up, one lock each.
PollSteering(r) ==
  /\ phase[r] = "live"
  /\ todo[r] = <<>>
  /\ steering # <<>>
  /\ todo' = [todo EXCEPT ![r] = Batch(steering)]
  /\ steering' = Remainder(steering)
  /\ UNCHANGED <<running, slot, cancelled, model, transcript, inflight, followUp, phase,
                 view, handle, at, claim, born, wiped, setup>>

PollFollowUp(r) ==
  /\ phase[r] = "live"
  /\ todo[r] = <<>>
  /\ followUp # <<>>
  /\ todo' = [todo EXCEPT ![r] = Batch(followUp)]
  /\ followUp' = Remainder(followUp)
  /\ UNCHANGED <<running, slot, cancelled, model, transcript, inflight, steering, phase,
                 view, handle, at, claim, born, wiped, setup>>

\* agent_end is out: the task completes its guard, which starts to drop.
FinishRun(r) ==
  /\ phase[r] = "live"
  /\ todo[r] = <<>>
  /\ phase' = [phase EXCEPT ![r] = "dropState"]
  /\ UNCHANGED <<agentVars, view, todo, handle, at, claim, born, wiped, setup>>

\* A RunFailure or a panic: the failure message is reduced into the shared transcript
\* only, whatever the run had taken from a queue goes with it, and the guard drops.
FailRun(r) ==
  /\ phase[r] = "live"
  /\ born < setup.maxMsgs
  /\ transcript' = Append(transcript, Fresh("assistant"))
  /\ born' = born + 1
  /\ inflight' \in {FALSE, inflight}
  /\ todo' = [todo EXCEPT ![r] = <<>>]
  /\ phase' = [phase EXCEPT ![r] = "dropState"]
  /\ UNCHANGED <<running, slot, cancelled, model, steering, followUp, view, handle, at,
                 claim, wiped, setup>>

-----------------------------------------------------------------------------
(* SettlementGuard::drop, run by the task or by a refused caller. *)

\* Plausible bugs: one of the four steps is forgotten.
DropStateDirty(r) ==
  /\ phase[r] = "dropState"
  /\ phase' = [phase EXCEPT ![r] = "dropSlot"]
  /\ UNCHANGED <<agentVars, view, todo, handle, at, claim, born, wiped, setup>>

DropSlotKept(r) ==
  /\ phase[r] = "dropSlot"
  /\ phase' = [phase EXCEPT ![r] = "dropRunning"]
  /\ UNCHANGED <<agentVars, view, todo, handle, at, claim, born, wiped, setup>>

DropRunningSilent(r) ==
  /\ phase[r] = "dropRunning"
  /\ phase' = [phase EXCEPT ![r] = "dropResult"]
  /\ UNCHANGED <<agentVars, view, todo, handle, at, claim, born, wiped, setup>>

DropResultUnsent(r) ==
  /\ phase[r] = "dropResult"
  /\ view' = [view EXCEPT ![r] = <<>>]
  /\ phase' = [phase EXCEPT ![r] = "done"]
  /\ UNCHANGED <<agentVars, todo, handle, at, claim, born, wiped, setup>>

DropState(r) ==
  /\ phase[r] = "dropState"
  /\ inflight' = FALSE
  /\ phase' = [phase EXCEPT ![r] = "dropSlot"]
  /\ UNCHANGED <<running, slot, cancelled, model, transcript, steering, followUp, view,
                 todo, handle, at, claim, born, wiped, setup>>

DropSlot(r) ==
  /\ phase[r] = "dropSlot"
  /\ slot' = NoRun
  /\ phase' = [phase EXCEPT ![r] = "dropRunning"]
  /\ UNCHANGED <<running, cancelled, model, transcript, inflight, steering, followUp, view,
                 todo, handle, at, claim, born, wiped, setup>>

DropRunning(r) ==
  /\ phase[r] = "dropRunning"
  /\ running' = FALSE
  /\ phase' = [phase EXCEPT ![r] = "dropResult"]
  /\ UNCHANGED <<slot, cancelled, model, transcript, inflight, steering, followUp, view,
                 todo, handle, at, claim, born, wiped, setup>>

DropResult(r) ==
  /\ phase[r] = "dropResult"
  /\ handle' = [handle EXCEPT ![r] = IF @ = "open" THEN "resolved" ELSE @]
  /\ view' = [view EXCEPT ![r] = <<>>]
  /\ phase' = [phase EXCEPT ![r] = "done"]
  /\ UNCHANGED <<agentVars, todo, at, claim, born, wiped, setup>>

-----------------------------------------------------------------------------

Starter(c) ==
  \/ ClaimLatch(c) \/ InstallToken(c) \/ Snapshot(c)
  \/ StartPrompt(c) \/ StartContinue(c) \/ StartFollowUp(c) \/ ReturnRejected(c)

Client(c) ==
  \/ BeginPrompt(c) \/ BeginContinue(c) \/ BeginReset(c) \/ ResetState(c) \/ ResetQueues(c)
  \/ EditTranscript(c) \/ AppendFinalized(c) \/ Steer(c) \/ FollowUp(c) \/ SetModel(c)
  \/ Abort(c) \/ BeginWait(c) \/ ReturnIdle(c)

Body(r) ==
  \/ EmitTaken(r) \/ OpenReply(r) \/ CloseReply(r) \/ PollSteering(r) \/ PollFollowUp(r)
  \/ FinishRun(r) \/ FailRun(r)

Settle(r) == DropState(r) \/ DropSlot(r) \/ DropRunning(r) \/ DropResult(r)

Next ==
  \/ \E c \in Callers : Starter(c) \/ Client(c)
  \/ \E r \in Runs : Body(r) \/ Settle(r)

Spec == Init /\ [][Next]_vars

\* The tokio scheduler polls every spawned task, a caller that entered an operation
\* runs it to its end, and the model and the tools a run awaits do answer.
Fairness ==
  /\ \A c \in Callers : WF_vars(Starter(c)) /\ WF_vars(ReturnIdle(c))
  /\ \A r \in Runs : WF_vars(Body(r)) /\ WF_vars(Settle(r))

FairSpec == Spec /\ Fairness

-----------------------------------------------------------------------------
(* Properties. *)

AgentTypeOK ==
  /\ running \in BOOLEAN
  /\ slot \in Runs \cup {NoRun}
  /\ cancelled \subseteq Runs
  /\ model \in BOOLEAN
  /\ inflight \in BOOLEAN
  /\ transcript \in Seq(Message)
  /\ steering \in Seq(Message)
  /\ followUp \in Seq(Message)

RunTypeOK ==
  /\ phase \in [Runs -> Phases]
  /\ view \in [Runs -> Seq(Message)]
  /\ todo \in [Runs -> Seq(Message)]
  /\ handle \in [Runs -> {"none", "open", "resolved"}]

CallerTypeOK ==
  /\ at \in [Callers -> CallerPoints]
  /\ claim \in [Callers -> Runs \cup {NoRun}]
  /\ born \in Nat
  /\ wiped \subseteq Runs

\* The types of the state that lifecycle.rs and facade.rs guard; in particular abort only
\* ever fires the token of some run, never that of an empty slot.
TypeOK == AgentTypeOK /\ RunTypeOK /\ CallerTypeOK

\* The channel reads `true` exactly while one run is between its claim and the third
\* step of its settlement, and never while two are: claim_and_snapshot and
\* SettlementGuard::drop together are a mutual exclusion.
OneRunHoldsTheLatch ==
  /\ running <=> \E r \in Runs : phase[r] \in Holding
  /\ \A r, s \in Runs : phase[r] \in Holding /\ phase[s] \in Holding => r = s

\* The cancel slot always belongs to the run that holds the latch: abort() can neither
\* hit a run that has ended nor lose the token of the one that has just begun.
SlotBelongsToTheHolder == \A r \in Runs : slot = r <=> phase[r] \in Slotted

\* Whoever reads `false` from the channel finds nothing left over from the last run: no
\* token in the slot, no streaming message, no pending tool call.
IdleIsSettled == ~running => slot = NoRun /\ ~inflight

\* The messages of s stand in t in their order, and whatever else t has was appended by
\* append_finalized_message.
ToldIn(s, t) ==
  \E f \in [DOMAIN s -> DOMAIN t] :
    /\ \A i \in DOMAIN s : t[f[i]] = s[i]
    /\ \A i, j \in DOMAIN s : i < j => f[i] < f[j]
    /\ \A k \in DOMAIN t : t[k].via = "final" \/ \E i \in DOMAIN s : f[i] = k

\* While a run is in flight its private copy and the shared transcript tell the same
\* story: the same messages in the same order, but for appended finalized messages --
\* unless a reset slipped in: reset() reads the latch and writes in separate steps, so a run
\* claimed between them has its transcript rewritten (`wiped`).
RunSeesTheTranscript ==
  \A r \in Runs :
    phase[r] \in {"snapped", "live"} /\ r \notin wiped => ToldIn(view[r], transcript)

\* What the run in flight has taken from the queues and not emitted yet.
InHand ==
  LET busy == {r \in Runs : todo[r] # <<>>}
  IN  IF busy = {} THEN <<>> ELSE todo[CHOOSE r \in busy : TRUE]

\* Every place a queued message can be, in delivery order.
Delivery == transcript \o InHand \o steering \o followUp

\* The messages of one source stand in s in the order they were made, each once.
Ordered(s, source) ==
  \A i, j \in DOMAIN s :
    i < j /\ s[i].via = source /\ s[j].via = source => s[i].id < s[j].id

\* Messages of one queue are delivered at most once and in the order they were queued,
\* across polls, continuations and the boundary between two runs.
QueuesAreFifo == \A source \in {"steer", "followUp"} : Ordered(Delivery, source)

\* Every RunHandle handed out is resolved, whichever way the run ends.
HandlesResolve == \A r \in Runs : handle[r] = "open" ~> handle[r] = "resolved"

\* wait_for_idle returns (claims are finite, so the channel does not flap for ever).
WaitersReturn == \A c \in Callers : at[c] = "waiting" ~> at[c] = "idle"

=============================================================================
