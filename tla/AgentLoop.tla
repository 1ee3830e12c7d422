------------------------------- MODULE AgentLoop -------------------------------
(***************************************************************************)
(* One run of the agent loop: cyrup-agent's agent/run/turn.rs, mod.rs and  *)
(* stream.rs, against a client that steers, queues follow-ups and aborts   *)
(* at any moment.  An action is what the run task does from one await to   *)
(* the next: a hook's return, a provider event, or the emission of an      *)
(* event to the subscribers, any of which may fail the run.                *)
(*                                                                         *)
(* Abstracted: the content of messages, tool declarations riding in with   *)
(* the injected messages, message_update and tool_execution events, and a  *)
(* tool batch's inside: a batch shows here as one tool-result message that *)
(* does or does not ask for another turn.                                  *)
(***************************************************************************)
EXTENDS SequencesExt, SeqFilter

CONSTANTS
  MaxAnswers,   \* only the run's first MaxAnswers responses call tools or are continued
  MaxSteer,     \* bound on the steering messages ever queued
  MaxFollowUp,  \* bound on the follow-up messages ever queued
  MaxUpdates    \* bound on the hook returns that carry an update

ASSUME BoundsAssumption == {MaxAnswers, MaxSteer, MaxFollowUp, MaxUpdates} \subseteq Nat

VARIABLES
  pc,         \* where the run task is suspended
  entry,      \* RunEntry: how this run was started
  drainAll,   \* the QueueMode of both queues
  steering,   \* the steering queue
  followUp,   \* the follow-up queue
  aborted,    \* the run's cancel token has been fired
  pending,    \* run_loop's `pending`: drained, not yet injected
  inject,     \* the messages of this turn still to be announced
  open,       \* state.streaming_message: announced, not ended
  observed,   \* what the run added to state.messages, as subscribers saw it
  messages,   \* RunCtx.messages: the loop's working copy
  fresh,      \* RunCtx.new_messages: the payload of agent_end
  reply,      \* how the turn's assistant message stopped
  wantTools,  \* has_more_tools
  decision,   \* what finish_turn decided for this turn
  explicit,   \* explicit_continuation
  failed,     \* a RunFailure is unwinding the loop
  turnOpen,   \* history: a turn_start without its turn_end
  ended,      \* history: how many agent_end events were emitted
  mark,       \* history: Len(observed) when the turn started
  since,      \* history: Len(observed) when a hook last replaced the context
  sent,       \* history: how many messages each queue has been given
  late,       \* history: how many of them between turns
  updates     \* history: how many hook returns carried an update

clientVars == <<steering, followUp, aborted, sent>>
queueVars  == <<pending, inject>>
logVars    == <<open, observed, messages, fresh, since, updates>>
turnVars   == <<reply, wantTools, decision, explicit>>
eventVars  == <<turnOpen, ended, mark, late>>
vars == <<pc, failed, entry, drainAll, clientVars, queueVars, logVars, turnVars, eventVars>>

-----------------------------------------------------------------------------

Kinds   == {"prompt", "steer", "follow", "prepared", "context",
            "assistant", "result", "finalResult", "failure"}
Message == [kind : Kinds, n : Nat]
NoMsg   == [kind |-> "none", n |-> 0]

Msg(kind)          == [kind |-> kind, n |-> 0]
Queued(kind, from, to) == [i \in 1..(to - from) |-> [kind |-> kind, n |-> from + i]]
OfKind(msgs, kind) == Filter(msgs, [kind : {kind}, n : Nat])

\* PendingQueue::drain: the batch it returns and what it leaves.
Batch(queue)     == IF drainAll \/ queue = <<>> THEN queue ELSE <<Head(queue)>>
Remainder(queue) == IF drainAll \/ queue = <<>> THEN <<>> ELSE Tail(queue)

Answers == Len(OfKind(observed, "assistant"))

\* A stop by error or abort ends the run whatever finish_turn decides.
HardExit == reply \in {"error", "aborted"}

Points == {"start", "firstTurn", "prompts", "promptsEnd", "enter", "prepare", "queued",
           "queuedEnd", "request", "transform", "stream", "owed", "close", "tools",
           "toolsEnd", "finish", "turnEnd", "poll", "pollFollowUp", "agentEnd", "failing",
           "failEnd", "done"}

(* A prompt may find messages already queued.  continue_run turns a drained batch into the
   prompt: steering if there is any, else a follow-up; or it resumes the transcript as it is. *)
Init ==
  /\ pc = "start"
  /\ drainAll \in BOOLEAN
  /\ aborted = FALSE
  /\ \E q \in 0..MaxSteer, f \in 0..MaxFollowUp :
       LET steers  == Queued("steer", 0, q)
           follows == Queued("follow", 0, f) IN
       /\ sent = [steer |-> q, follow |-> f]
       /\ \/ /\ entry \in {"fresh", "resume"}
             /\ inject = IF entry = "fresh" THEN <<Msg("prompt")>> ELSE <<>>
             /\ steering = steers
             /\ followUp = follows
          \/ /\ entry = "steeringDrain"
             /\ q > 0
             /\ inject = Batch(steers)
             /\ steering = Remainder(steers)
             /\ followUp = follows
          \/ /\ entry = "followUpDrain"
             /\ q = 0 /\ f > 0
             /\ inject = Batch(follows)
             /\ steering = <<>>
             /\ followUp = Remainder(follows)
  /\ pending = <<>>
  /\ open = NoMsg
  /\ observed = <<>> /\ messages = <<>> /\ fresh = <<>>
  /\ reply = "none" /\ decision = "none"
  /\ wantTools = FALSE /\ explicit = FALSE
  /\ failed = FALSE /\ turnOpen = FALSE
  /\ ended = 0 /\ mark = 0 /\ since = 0 /\ updates = 0
  /\ late = [steer |-> 0, follow |-> 0]

-----------------------------------------------------------------------------
(* Emission. *)

\* The reducer has run; then a subscriber fails the run or all of them return.
Then(ok, point) ==
  /\ pc' = IF ok THEN point ELSE "failing"
  /\ failed' = ~ok

\* message_start.
Announce(m) ==
  /\ open' = m
  /\ UNCHANGED <<observed, messages, fresh, since, updates>>

\* message_end: the reducer appends; the loop's own copies follow once every subscriber returned.
Conclude(ok) ==
  /\ open' = NoMsg
  /\ observed' = Append(observed, open)
  /\ messages' = IF ok THEN Append(messages, open) ELSE messages
  /\ fresh' = IF ok THEN Append(fresh, open) ELSE fresh
  /\ UNCHANGED <<since, updates>>

\* A hook's update: its context override replaces the working copy and nothing else.
Update(updated, replaced) ==
  /\ updates' = IF updated THEN updates + 1 ELSE updates
  /\ updates' <= MaxUpdates
  /\ messages' = IF replaced THEN <<Msg("context")>> ELSE messages
  /\ since' = IF replaced THEN Len(observed) ELSE since
  /\ UNCHANGED <<open, observed, fresh>>

OpenTurn ==
  /\ turnOpen' = TRUE
  /\ mark' = Len(observed)
  /\ late' = [steer |-> 0, follow |-> 0]
  /\ UNCHANGED ended

-----------------------------------------------------------------------------
(* The start of the run: run_entry and the head of run_loop. *)

EmitAgentStart(ok) ==
  /\ pc = "start"
  /\ Then(ok, "firstTurn")
  /\ UNCHANGED <<entry, drainAll, clientVars, queueVars, logVars, turnVars, eventVars>>

EmitFirstTurnStart(ok) ==
  /\ pc = "firstTurn"
  /\ OpenTurn
  /\ Then(ok, IF inject = <<>> THEN "enter" ELSE "prompts")
  /\ UNCHANGED <<entry, drainAll, clientVars, queueVars, logVars, turnVars>>

\* One message of the prompt, or of what the turn injects, is announced ...
OpenInjected(ok) ==
  /\ pc \in {"prompts", "queued"}
  /\ Announce(Head(inject))
  /\ Then(ok, IF pc = "prompts" THEN "promptsEnd" ELSE "queuedEnd")
  /\ UNCHANGED <<entry, drainAll, clientVars, queueVars, turnVars, eventVars>>

\* ... and ended.
CloseInjected(ok) ==
  /\ pc \in {"promptsEnd", "queuedEnd"}
  /\ Conclude(ok)
  /\ inject' = Tail(inject)
  /\ LET prompts == pc = "promptsEnd"
         more    == inject' # <<>> IN
     Then(ok, CASE prompts /\ more   -> "prompts"
                [] prompts /\ ~more  -> "enter"
                [] ~prompts /\ more  -> "queued"
                [] ~prompts /\ ~more -> "request")
  /\ UNCHANGED <<entry, drainAll, clientVars, pending, turnVars, eventVars>>

\* Plausible bug: every run polls steering at once.
NeverSkipsInitialPoll == FALSE

SkipInitialPoll == entry = "steeringDrain"

\* The poll at the top of run_loop; the first turn injects what it returned.
InitialPoll ==
  /\ pc = "enter"
  /\ inject' = IF SkipInitialPoll THEN <<>> ELSE Batch(steering)
  /\ steering' = IF SkipInitialPoll THEN steering ELSE Remainder(steering)
  /\ pc' = IF inject' = <<>> THEN "request" ELSE "queued"
  /\ UNCHANGED <<failed, entry, drainAll, followUp, aborted, sent, pending, logVars,
                 turnVars, eventVars>>

\* Plausible bug: the second poll overwrites what the first one drained.
PrepareTurnRepolls(prepared, replaced, ok) ==
  /\ pc = "prepare"
  /\ Update(replaced \/ prepared # <<>>, replaced)
  /\ inject' = prepared \o Batch(steering)
  /\ steering' = Remainder(steering)
  /\ pending' = <<>>
  /\ OpenTurn
  /\ Then(ok, IF inject' = <<>> THEN "request" ELSE "queued")
  /\ reply' = "none" /\ decision' = "none"
  /\ UNCHANGED <<entry, drainAll, followUp, aborted, sent, wantTools, explicit>>

\* A later turn: prepare_next_turn returns, what was queued meanwhile is picked up only if the
\* earlier poll found nothing, and turn_start is emitted.
PrepareTurn(prepared, replaced, ok) ==
  /\ pc = "prepare"
  /\ Update(replaced \/ prepared # <<>>, replaced)
  /\ LET batch == IF pending = <<>> THEN Batch(steering) ELSE pending IN
       /\ inject' = prepared \o batch
       /\ steering' = IF pending = <<>> THEN Remainder(steering) ELSE steering
  /\ pending' = <<>>
  /\ OpenTurn
  /\ Then(ok, IF inject' = <<>> THEN "request" ELSE "queued")
  /\ reply' = "none" /\ decision' = "none"
  /\ UNCHANGED <<entry, drainAll, followUp, aborted, sent, wantTools, explicit>>

-----------------------------------------------------------------------------
(* The request and its answer. *)

PrepareRequest(replaced) ==
  /\ pc = "request"
  /\ Update(replaced, replaced)
  /\ pc' = "transform"
  /\ UNCHANGED <<failed, entry, drainAll, clientVars, queueVars, turnVars, eventVars>>

\* transform_context and convert_to_llm returned; the provider's stream is opened.
OpenStream ==
  /\ pc = "transform"
  /\ pc' = "stream"
  /\ UNCHANGED <<failed, entry, drainAll, clientVars, queueVars, logVars, turnVars, eventVars>>

\* The provider's start event.  The select is biased: a fired token is seen before any event.
StreamStarts(ok) ==
  /\ pc = "stream"
  /\ ~aborted
  /\ open = NoMsg
  /\ Announce(Msg("assistant"))
  /\ Then(ok, "stream")
  /\ UNCHANGED <<entry, drainAll, clientVars, queueVars, turnVars, eventVars>>

\* message_start is owed exactly when the stream never started.
Settle(stop) ==
  /\ reply' = stop
  /\ pc' = IF open = NoMsg THEN "owed" ELSE "close"
  /\ UNCHANGED <<failed, entry, drainAll, clientVars, queueVars, logVars, wantTools,
                 decision, explicit, eventVars>>

\* The terminal event, or the stream's end without one (an error).
StreamEnds(stop) ==
  /\ pc = "stream"
  /\ ~aborted
  /\ stop \in IF Answers < MaxAnswers THEN {"text", "calls", "truncated", "error"}
                                      ELSE {"text", "error"}
  /\ Settle(stop)

\* Plausible bug: the token is looked at between provider events only.
StreamAbortsOnceStarted ==
  /\ pc = "stream"
  /\ aborted
  /\ open # NoMsg
  /\ Settle("aborted")

StreamAborts ==
  /\ pc = "stream"
  /\ aborted
  /\ Settle("aborted")

EmitOwedStart(ok) ==
  /\ pc = "owed"
  /\ Announce(Msg("assistant"))
  /\ Then(ok, "close")
  /\ UNCHANGED <<entry, drainAll, clientVars, queueVars, turnVars, eventVars>>

\* Plausible bug: has_more_tools is not reset by a response without tool calls.
CloseAnswerKeepsWanting(ok) ==
  /\ pc = "close"
  /\ Conclude(ok)
  /\ UNCHANGED wantTools
  /\ Then(ok, IF reply \in {"calls", "truncated"} THEN "tools" ELSE "finish")
  /\ UNCHANGED <<entry, drainAll, clientVars, queueVars, reply, decision, explicit, eventVars>>

\* A message with tool calls is followed by its batch, any other by finish_turn.
CloseAnswer(ok) ==
  /\ pc = "close"
  /\ Conclude(ok)
  /\ wantTools' = FALSE
  /\ Then(ok, IF reply \in {"calls", "truncated"} THEN "tools" ELSE "finish")
  /\ UNCHANGED <<entry, drainAll, clientVars, queueVars, reply, decision, explicit, eventVars>>

\* The batch's calls have settled and their results are announced.  A batch may end tool-driven
\* continuation; one whose calls were cut off by the token limit never does.
RunTools(terminate, ok) ==
  /\ pc = "tools"
  /\ terminate => reply = "calls"
  /\ Announce(Msg(IF terminate THEN "finalResult" ELSE "result"))
  /\ Then(ok, "toolsEnd")
  /\ UNCHANGED <<entry, drainAll, clientVars, queueVars, turnVars, eventVars>>

\* Plausible bug: the results of a terminating batch are not pushed.
CloseResultsWhenWanted(ok) ==
  /\ pc = "toolsEnd"
  /\ Conclude(ok /\ open.kind = "result")
  /\ wantTools' = (open.kind = "result")
  /\ Then(ok, "finish")
  /\ UNCHANGED <<entry, drainAll, clientVars, queueVars, reply, decision, explicit, eventVars>>

CloseResults(ok) ==
  /\ pc = "toolsEnd"
  /\ Conclude(ok)
  /\ wantTools' = (open.kind = "result")
  /\ Then(ok, "finish")
  /\ UNCHANGED <<entry, drainAll, clientVars, queueVars, reply, decision, explicit, eventVars>>

-----------------------------------------------------------------------------
(* The end of a turn. *)

\* Plausible bug: a hard exit goes straight to agent_end.
FinishTurnHard(d) ==
  /\ pc = "finish"
  /\ d = "continue" => Answers <= MaxAnswers
  /\ decision' = d
  /\ pc' = IF HardExit THEN "agentEnd" ELSE "turnEnd"
  /\ UNCHANGED <<failed, entry, drainAll, clientVars, queueVars, logVars, reply, wantTools,
                 explicit, eventVars>>

FinishTurn(d) ==
  /\ pc = "finish"
  /\ d = "continue" => Answers <= MaxAnswers
  /\ decision' = d
  /\ pc' = "turnEnd"
  /\ UNCHANGED <<failed, entry, drainAll, clientVars, queueVars, logVars, reply, wantTools,
                 explicit, eventVars>>

\* After a hard exit, or when finish_turn said end, no queue is polled again.
EmitTurnEnd(ok) ==
  /\ pc = "turnEnd"
  /\ turnOpen' = FALSE
  /\ Then(ok, IF HardExit \/ decision = "end" THEN "agentEnd" ELSE "poll")
  /\ UNCHANGED <<entry, drainAll, steering, followUp, aborted, sent, queueVars, logVars,
                 turnVars, ended, mark, late>>

\* Plausible bug: a continuation is kept only when it is already satisfied.
PollSteeringForgets ==
  /\ pc = "poll"
  /\ pending' = Batch(steering)
  /\ steering' = Remainder(steering)
  /\ LET natural == wantTools \/ pending' # <<>> IN
       /\ explicit' = (decision = "continue" /\ natural)
       /\ pc' = IF natural THEN "prepare" ELSE "pollFollowUp"
  /\ UNCHANGED <<failed, entry, drainAll, followUp, aborted, sent, inject, logVars,
                 reply, wantTools, decision, eventVars>>

\* Tool results or a queued message make the next turn, and satisfy a continuation.
PollSteering ==
  /\ pc = "poll"
  /\ pending' = Batch(steering)
  /\ steering' = Remainder(steering)
  /\ LET natural == wantTools \/ pending' # <<>> IN
       /\ explicit' = (decision = "continue" /\ ~natural)
       /\ pc' = IF natural THEN "prepare" ELSE "pollFollowUp"
  /\ UNCHANGED <<failed, entry, drainAll, followUp, aborted, sent, inject, logVars,
                 reply, wantTools, decision, eventVars>>

\* A follow-up makes the next turn; failing that, a continuation still owed does.
PollFollowUp ==
  /\ pc = "pollFollowUp"
  /\ pending' = Batch(followUp)
  /\ followUp' = Remainder(followUp)
  /\ explicit' = FALSE
  /\ pc' = IF pending' # <<>> \/ explicit THEN "prepare" ELSE "agentEnd"
  /\ UNCHANGED <<failed, entry, drainAll, steering, aborted, sent, inject, logVars,
                 reply, wantTools, decision, eventVars>>

EmitAgentEnd(ok) ==
  /\ pc = "agentEnd"
  /\ ended' = ended + 1
  /\ open' = NoMsg
  /\ Then(ok, "done")
  /\ UNCHANGED <<entry, drainAll, clientVars, queueVars, observed, messages, fresh, since,
                 updates, turnVars, turnOpen, mark, late>>

-----------------------------------------------------------------------------
(* emit_run_failure: every producer of a RunFailure ends here. *)

HookFails ==
  /\ pc \in {"prepare", "request", "transform", "finish"}
  /\ Then(FALSE, "failing")
  /\ UNCHANGED <<entry, drainAll, clientVars, queueVars, logVars, turnVars, eventVars>>

\* The closing events are emitted whatever their subscribers do.  First the failure's message;
\* what run_loop had drained and not injected has died with its frame.
FailMessage ==
  /\ pc = "failing"
  /\ observed' = Append(observed, Msg("failure"))
  /\ open' = NoMsg
  /\ pending' = <<>>
  /\ inject' = <<>>
  /\ pc' = "failEnd"
  /\ UNCHANGED <<failed, entry, drainAll, clientVars, messages, fresh, since, updates, turnVars,
                 eventVars>>

\* Then turn_end and agent_end, whose payload is the failure alone.
FailEnd ==
  /\ pc = "failEnd"
  /\ turnOpen' = FALSE
  /\ ended' = ended + 1
  /\ fresh' = <<Msg("failure")>>
  /\ pc' = "done"
  /\ UNCHANGED <<failed, entry, drainAll, clientVars, queueVars, open, observed, messages, since,
                 updates, turnVars, mark, late>>

-----------------------------------------------------------------------------
(* The client.  A failed run's closing events read no queue and no token, so what the client
   does during them is left out. *)

\* A message queued between two turns.
Late(queue) == late' = IF turnOpen THEN late ELSE [late EXCEPT ![queue] = @ + 1]

Steer ==
  /\ pc # "done" /\ ~failed
  /\ sent.steer < MaxSteer
  /\ sent' = [sent EXCEPT !.steer = @ + 1]
  /\ Late("steer")
  /\ steering' = Append(steering, [kind |-> "steer", n |-> sent'.steer])
  /\ UNCHANGED <<pc, failed, entry, drainAll, followUp, aborted, queueVars, logVars,
                 turnVars, turnOpen, ended, mark>>

FollowUp ==
  /\ pc # "done" /\ ~failed
  /\ sent.follow < MaxFollowUp
  /\ sent' = [sent EXCEPT !.follow = @ + 1]
  /\ Late("follow")
  /\ followUp' = Append(followUp, [kind |-> "follow", n |-> sent'.follow])
  /\ UNCHANGED <<pc, failed, entry, drainAll, steering, aborted, queueVars, logVars,
                 turnVars, turnOpen, ended, mark>>

Abort ==
  /\ pc # "done" /\ ~failed
  /\ ~aborted
  /\ aborted' = TRUE
  /\ UNCHANGED <<pc, failed, entry, drainAll, steering, followUp, sent, queueVars,
                 logVars, turnVars, eventVars>>

Client == Steer \/ FollowUp \/ Abort

-----------------------------------------------------------------------------

\* An update of prepare_next_turn: its messages, and whether it replaces the context.
Updates   == {<<<<>>, FALSE>>, <<<<Msg("prepared")>>, TRUE>>}
Decisions == {"none", "end", "continue"}
Stops     == {"text", "calls", "truncated", "error"}

\* What the run does of itself, given that hooks, tools and subscribers return.
Loop ==
  \/ InitialPoll \/ PollSteering \/ PollFollowUp
  \/ OpenStream \/ StreamAborts \/ HookFails
  \/ FailMessage \/ FailEnd
  \/ \E d \in Decisions : FinishTurn(d)
  \/ \E replaced \in BOOLEAN : PrepareRequest(replaced)
  \/ \E ok \in BOOLEAN :
       \/ EmitAgentStart(ok) \/ EmitFirstTurnStart(ok) \/ OpenInjected(ok) \/ CloseInjected(ok)
       \/ EmitOwedStart(ok) \/ CloseAnswer(ok) \/ CloseResults(ok)
       \/ EmitTurnEnd(ok) \/ EmitAgentEnd(ok)
       \/ \E terminate \in BOOLEAN : RunTools(terminate, ok)
       \/ \E u \in Updates : PrepareTurn(u[1], u[2], ok)

Provider ==
  \/ \E ok \in BOOLEAN : StreamStarts(ok)
  \/ \E stop \in Stops : StreamEnds(stop)

Next == Loop \/ Provider \/ Client

Spec == Init /\ [][Next]_vars

\* Hooks, tools and subscribers return; nothing is assumed of the provider or the client.
FairSpec == Spec /\ WF_vars(Loop)

-----------------------------------------------------------------------------
(* Properties. *)

\* Every variable keeps its type.
TypeOK ==
  /\ pc \in Points
  /\ entry \in {"fresh", "resume", "steeringDrain", "followUpDrain"}
  /\ {drainAll, aborted, wantTools, explicit, failed, turnOpen} \subseteq BOOLEAN
  /\ {steering, followUp, pending, inject, observed, messages, fresh} \subseteq Seq(Message)
  /\ open \in Message \cup {NoMsg}
  /\ reply \in Stops \cup {"none", "aborted"}
  /\ decision \in Decisions
  /\ {ended, mark, since, updates} \subseteq Nat
  /\ {sent, late} \subseteq [steer : Nat, follow : Nat]

\* What is held between a poll and the transcript: an announced message is still the head
\* of `inject`.
Held == pending \o inject

(* A queue is delivered in order, each message once, whatever the interleaving of pushes and
   polls: delivered, in hand and still queued make up exactly what was queued.  Only a failed
   run may lose messages, and only the batch it held. *)
Lossless(kind, queue, count) ==
  LET got == OfKind(observed, kind)
      all == Queued(kind, 0, count) IN
  IF failed /\ pc # "failing"
  THEN /\ IsPrefix(got, all)
       /\ IsSuffix(queue, all)
       /\ Len(got) + Len(queue) <= count
  ELSE got \o OfKind(Held, kind) \o queue = all

QueuesAreLossless ==
  /\ Lossless("steer", steering, sent.steer)
  /\ Lossless("follow", followUp, sent.follow)

(* One-at-a-time delivers at most one steering message in a turn: across the drain that made
   the prompt, the initial poll, the poll after a turn and the poll after its preparation;
   and past the first turn, one made by a follow-up carries no steering message.  (A run started
   from a drained follow-up does poll steering at once: the code skips that poll for a drained
   steering message only.) *)
OneSteeringMessagePerTurn ==
  LET turn  == SubSeq(observed, mark + 1, Len(observed)) \o inject
      steer == Len(OfKind(turn, "steer"))
      follow == Len(OfKind(turn, "follow")) IN
  turnOpen /\ ~drainAll =>
    /\ steer <= 1 /\ follow <= 1
    /\ follow = 1 /\ mark > 0 => steer = 0

(* What the queues promise together: a message is delivered once and in order, and in
   one-at-a-time mode not beside another of its queue. *)
QueuesDeliver == QueuesAreLossless /\ OneSteeringMessagePerTurn

\* The tool results the last turn left for the model, if any.
OwesResults == observed # <<>> /\ Last(observed).kind = "result"

(* A run that ends of itself, neither by a hard exit, nor by finish_turn's end, nor by a
   failure, leaves nothing behind: no tool result unanswered, no continuation unfulfilled,
   and in the queues only what came after its last turn_end. *)
EndsOnlyWhenIdle ==
  pc = "agentEnd" /\ ~HardExit /\ decision # "end" =>
    /\ ~OwesResults
    /\ decision # "continue"
    /\ Len(steering) <= late.steer
    /\ Len(followUp) <= late.follow

(* No turn is run for nothing: a later turn starts only to answer tool results, to deliver a
   queued message, or because finish_turn asked for it, and never after a hard exit or an end. *)
TurnsHaveAReason ==
  [][~turnOpen /\ turnOpen' /\ pc # "firstTurn" =>
       /\ ~HardExit /\ decision # "end"
       /\ \/ OwesResults
          \/ decision = "continue"
          \/ OfKind(inject', "steer") \o OfKind(inject', "follow") # <<>>]_vars

(* Subscribers see a well-nested run: messages one at a time and inside a turn, agent_end
   outside of both, and once, unless the subscriber of agent_end is what failed.  Only the
   closing events of a failure may break the nesting; they too leave nothing open. *)
EventsNest ==
  /\ open # NoMsg /\ ~failed => turnOpen
  /\ pc = "agentEnd" => ~turnOpen /\ open = NoMsg
  /\ pc = "done" => /\ ~turnOpen /\ open = NoMsg
                    /\ ended \in IF failed THEN {1, 2} ELSE {1}

(* The model is asked with what subscribers were shown: the working copy is the observed
   transcript since the last context override, and agent_end's payload is all of it. *)
RequestsSeeTheTranscript ==
  /\ pc = "stream" => messages =
       (IF OfKind(messages, "context") = <<>> THEN <<>> ELSE <<Msg("context")>>)
          \o SubSeq(observed, since + 1, Len(observed))
  /\ pc = "agentEnd" => fresh = observed

(* An aborted run ends: whatever it is doing, and although the provider may never answer. *)
AbortSettles == aborted ~> pc = "done"

=============================================================================
