---------------------------- MODULE InjectionPump ----------------------------
(***************************************************************************)
(* How background messages reach a session: the injection pump of          *)
(* cyrup-session-svc (session/mod.rs, session/inject.rs,                   *)
(* session/queued_turn.rs), the session's run driver and its latches       *)
(* (session/run.rs), and what both use of the agent.                       *)
(*                                                                         *)
(* A producer hands over a turn (a completed background result that wants  *)
(* an answer), a steer (an intercom message for the run that is going) or  *)
(* a notice (context, for which no turn is wanted).  Whether a run is      *)
(* going is read from latches that move between the read and what is done  *)
(* about it: a message pushed onto a run's queue may come after the run's  *)
(* last poll, and a prompt may claim the agent before the pump does.       *)
(*                                                                         *)
(* A run and its driver carry the name of the message the driver was       *)
(* started with.  No two messages merge (each carries details), the queue  *)
(* is drained one at a time, and the agent's claim is one step (its        *)
(* critical sections are the subject of AgentLatch).  What a run ended     *)
(* with, and so what the driver does next, is left open.                   *)
(***************************************************************************)
EXTENDS SeqFilter, SequencesExt

CONSTANTS
  Turns, Steers, Notices, \* what producers inject
  Prompts,                \* what the user submits
  Loads,                  \* what may come together: messages, and continuations unasked for
  NoOne

Requests == Turns \cup Steers \cup Notices
Messages == Requests \cup Prompts
Drivers  == Turns \cup Prompts

ASSUME PumpAssumption ==
  /\ NoOne \notin Messages
  /\ Turns \cap (Steers \cup Notices) = {} /\ Steers \cap Notices = {}
  /\ Prompts \cap Requests = {}
  /\ Loads \subseteq [messages : SUBSET Messages, retries : Nat]

VARIABLES
  running,    \* agent: whose run holds the latch
  polls,      \* agent: that run will poll its queue again
  hand,       \* agent: what it has taken and not yet put into the transcript
  steering,   \* agent: the steering queue
  transcript, \* agent: the messages in the transcript
  lost,       \* what a failed run had in hand, a cleared queue held, a refused prompt carried
  driverUp,   \* session: driver_tx
  released,   \* session: run_released
  draining,   \* session: settled_drain_tx
  drive,      \* session: where each driver is
  retries,    \* session: continuations left
  sent,       \* per request: where its producer is
  channel,    \* the queue of the pump
  at,         \* pump: where it is
  inbox,      \* pump: requests to be scheduled
  steered,    \* pump: steers it or a producer has pushed
  queued,     \* pump: turns it has pushed
  turn,       \* pump: turns taken back or about to be pushed or run
  taken,      \* pump: steers taken back, about to be appended
  answer      \* per request: its acknowledgement

agentVars   == <<running, polls, hand, steering, transcript, lost>>
sessionVars == <<driverUp, released, draining, drive, retries>>
pumpVars    == <<at, inbox, steered, queued, turn, taken, answer>>
vars == <<agentVars, sessionVars, sent, channel, pumpVars>>

-----------------------------------------------------------------------------

PumpInit ==
  /\ running = NoOne /\ polls = FALSE
  /\ hand = <<>> /\ steering = <<>> /\ transcript = <<>> /\ lost = {}
  /\ driverUp = FALSE /\ released = FALSE /\ draining = FALSE
  /\ \E load \in Loads :
       /\ sent = [m \in Requests |-> IF m \in load.messages THEN "no" ELSE "never"]
       /\ drive = [d \in Drivers |-> IF d \in Prompts \ load.messages THEN "done" ELSE "off"]
       /\ retries = load.retries
  /\ channel = <<>>
  /\ at = "receive"
  /\ inbox = <<>> /\ steered = {} /\ queued = <<>> /\ turn = <<>> /\ taken = <<>>
  /\ answer = [m \in Requests |-> "none"]

\* is_run_active.
Active == (driverUp /\ ~released) \/ running # NoOne

Only(s, S) == Filter(s, S)
Without(s, S) == Filter(s, Messages \ S)

-----------------------------------------------------------------------------
(* Producers. *)

\* A request put on the pump's queue; a steer only if its producer saw no run.
Inject(m) ==
  /\ sent[m] = "no"
  /\ m \in Steers => ~Active
  /\ sent' = [sent EXCEPT ![m] = "yes"]
  /\ channel' = Append(channel, [kind |-> "request", message |-> m])
  /\ UNCHANGED <<agentVars, sessionVars, pumpVars>>

\* A producer of a steer that sees a run ...
SeeRun(m) ==
  /\ sent[m] = "no" /\ Active
  /\ sent' = [sent EXCEPT ![m] = "steering"]
  /\ UNCHANGED <<agentVars, sessionVars, channel, pumpVars>>

\* ... pushes it itself ...
SteerNow(m) ==
  /\ sent[m] = "steering"
  /\ sent' = [sent EXCEPT ![m] = "steered"]
  /\ steering' = Append(steering, m)
  /\ UNCHANGED <<running, polls, hand, transcript, lost, sessionVars, channel, pumpVars>>

\* ... and leaves its fate to the pump.
TellPump(m) ==
  /\ sent[m] = "steered"
  /\ sent' = [sent EXCEPT ![m] = "yes"]
  /\ channel' = Append(channel, [kind |-> "steered", message |-> m])
  /\ UNCHANGED <<agentVars, sessionVars, pumpVars>>

\* The user empties the queues, the pump's messages included.
ClearQueue ==
  /\ steering # <<>>
  /\ steering' = <<>>
  /\ lost' = lost \cup ToSet(steering)
  /\ UNCHANGED <<running, polls, hand, transcript, sessionVars, sent, channel, pumpVars>>

-----------------------------------------------------------------------------
(* The agent's run. *)

\* The compare-and-set of Agent::prompt and Agent::continue_run.
StartRun(d, messages) ==
  /\ running = NoOne
  /\ running' = d
  /\ polls' = TRUE
  /\ hand' = messages

PollSteering ==
  /\ running # NoOne /\ polls /\ hand = <<>> /\ steering # <<>>
  /\ hand' = <<Head(steering)>>
  /\ steering' = Tail(steering)
  /\ UNCHANGED <<running, polls, transcript, lost, sessionVars, sent, channel, pumpVars>>

\* message_end: into the transcript, and onto the file.
EndMessage ==
  /\ running # NoOne /\ hand # <<>>
  /\ transcript' = Append(transcript, Head(hand))
  /\ hand' = Tail(hand)
  /\ UNCHANGED <<running, polls, steering, lost, sessionVars, sent, channel, pumpVars>>

\* The run has found its queue empty, is aborted, or fails, with what it had in hand.
StopPolling ==
  /\ running # NoOne /\ polls
  /\ polls' = FALSE
  /\ hand' = <<>>
  /\ lost' = lost \cup ToSet(hand)
  /\ UNCHANGED <<running, steering, transcript, sessionVars, sent, channel, pumpVars>>

EndRun ==
  /\ running # NoOne /\ ~polls
  /\ running' = NoOne
  /\ UNCHANGED <<polls, hand, steering, transcript, lost, sessionVars, sent, channel, pumpVars>>

-----------------------------------------------------------------------------
(* The session's drivers. *)

\* A prompt reads the latches once, before its handlers run: it will queue or start a run.
Submit(p) ==
  /\ drive[p] = "off"
  /\ drive' = [drive EXCEPT ![p] = IF Active THEN "queueing" ELSE "preparing"]
  /\ UNCHANGED <<agentVars, driverUp, released, draining, retries, sent, channel, pumpVars>>

QueuePrompt(p) ==
  /\ drive[p] = "queueing"
  /\ drive' = [drive EXCEPT ![p] = "done"]
  /\ steering' = Append(steering, p)
  /\ UNCHANGED <<running, polls, hand, transcript, lost, driverUp, released, draining, retries,
                 sent, channel, pumpVars>>

ClaimRunLatch ==
  /\ driverUp' = TRUE
  /\ released' = FALSE

SpawnRun(p) ==
  /\ drive[p] = "preparing"
  /\ ClaimRunLatch
  /\ drive' = [drive EXCEPT ![p] = "spawned"]
  /\ UNCHANGED <<agentVars, draining, retries, sent, channel, pumpVars>>

\* A prompt whose agent is taken by now is logged and dropped.
DriveRun(d) ==
  /\ drive[d] = "spawned"
  /\ \/ /\ StartRun(d, <<d>>)
        /\ drive' = [drive EXCEPT ![d] = "running"]
        /\ UNCHANGED lost
     \/ /\ running # NoOne
        /\ drive' = [drive EXCEPT ![d] = "settling"]
        /\ lost' = lost \cup {d}
        /\ UNCHANGED <<running, polls, hand>>
  /\ UNCHANGED <<steering, transcript, driverUp, released, draining, retries, sent, channel, pumpVars>>

\* The run has ended: a retry or a compaction continues it, something queued does, or it is
\* over (also with something queued, when it was aborted or the check itself failed).
PostRun(d) ==
  /\ drive[d] = "running" /\ running # d
  /\ \/ /\ retries > 0
        /\ retries' = retries - 1
        /\ drive' = [drive EXCEPT ![d] = "retrying"]
     \/ /\ steering # <<>>
        /\ drive' = [drive EXCEPT ![d] = "continuing"]
        /\ UNCHANGED retries
     \/ /\ drive' = [drive EXCEPT ![d] = "settling"]
        /\ UNCHANGED retries
  /\ UNCHANGED <<agentVars, driverUp, released, draining, sent, channel, pumpVars>>

\* A retry goes on from the transcript; where that ends in an answer, a queued message is needed.
ContinueRun(d) ==
  /\ drive[d] \in {"retrying", "continuing"}
  /\ \/ /\ drive[d] = "retrying" /\ StartRun(d, <<>>)
        /\ drive' = [drive EXCEPT ![d] = "running"]
        /\ UNCHANGED steering
     \/ /\ steering # <<>> /\ StartRun(d, <<Head(steering)>>)
        /\ drive' = [drive EXCEPT ![d] = "running"]
        /\ steering' = Tail(steering)
     \/ /\ running # NoOne \/ steering = <<>>
        /\ drive' = [drive EXCEPT ![d] = "settling"]
        /\ UNCHANGED <<running, polls, hand, steering>>
  /\ UNCHANGED <<transcript, lost, driverUp, released, draining, retries, sent, channel, pumpVars>>

\* settle_run: the session reads idle again, and agent_settled is emitted ...
Release(d) ==
  /\ drive[d] = "settling"
  /\ released' = TRUE
  /\ drive' = [drive EXCEPT ![d] = "emitting"]
  /\ UNCHANGED <<agentVars, driverUp, draining, retries, sent, channel, pumpVars>>

\* ... what was deferred until now runs, under a latch of its own ...
BeginDrain(d) ==
  /\ drive[d] = "emitting"
  /\ draining' = TRUE
  /\ drive' = [drive EXCEPT ![d] = "draining"]
  /\ UNCHANGED <<agentVars, driverUp, released, retries, sent, channel, pumpVars>>

EndDrain(d) ==
  /\ drive[d] = "draining"
  /\ draining' = FALSE
  /\ drive' = [drive EXCEPT ![d] = "dropping"]
  /\ UNCHANGED <<agentVars, driverUp, released, retries, sent, channel, pumpVars>>

\* ... and the latch comes down, unless another run has claimed it since the release.
DropLatch(d) ==
  /\ drive[d] = "dropping"
  /\ released' = FALSE
  /\ driverUp' = (driverUp /\ ~released)
  /\ drive' = [drive EXCEPT ![d] = "done"]
  /\ UNCHANGED <<agentVars, draining, retries, sent, channel, pumpVars>>

-----------------------------------------------------------------------------
(* The pump. *)

Arrived(kind) ==
  LET items == Filter(channel, [kind : {kind}, message : Requests])
  IN  [i \in DOMAIN items |-> items[i].message]

\* drain_ready: file whatever has arrived.
DrainReady ==
  /\ channel' = <<>>
  /\ inbox' = inbox \o Arrived("request")
  /\ steered' = steered \cup ToSet(Arrived("steered"))

Owned == inbox # <<>> \/ steered # {} \/ queued # <<>>

\* Plausible bug: what an AgentBusy has left with the pump waits for the next item.
ReceiveOnlyItems ==
  /\ at = "receive" /\ channel # <<>>
  /\ DrainReady
  /\ at' = "steer"
  /\ UNCHANGED <<agentVars, sessionVars, sent, queued, turn, taken, answer>>

\* The head of the loop: with nothing owned, wait for an item.
Receive ==
  /\ at = "receive" /\ (Owned \/ channel # <<>>)
  /\ DrainReady
  /\ at' = "steer"
  /\ UNCHANGED <<agentVars, sessionVars, sent, queued, turn, taken, answer>>

\* steer_injections_onto_live_run: the read, then the pushes.
CheckSteers ==
  /\ at = "steer"
  /\ at' = IF Only(inbox, Steers) # <<>> /\ Active THEN "pushSteers" ELSE "join"
  /\ UNCHANGED <<agentVars, sessionVars, sent, channel, inbox, steered, queued, turn, taken, answer>>

PushSteers ==
  /\ at = "pushSteers"
  /\ steering' = steering \o Only(inbox, Steers)
  /\ steered' = steered \cup (ToSet(inbox) \cap Steers)
  /\ inbox' = Without(inbox, Steers)
  /\ at' = "join"
  /\ UNCHANGED <<running, polls, hand, transcript, lost, sessionVars, sent, channel, queued, turn, taken, answer>>

\* queue_turn_injections_onto_live_run: with a turn to be pushed and a run to push it to, the
\* turns the run has not drained yet are taken back first.
CheckTurns ==
  /\ at = "join"
  /\ at' = IF Only(inbox, Turns) # <<>> /\ Active THEN "takeBack" ELSE "look"
  /\ UNCHANGED <<agentVars, sessionVars, sent, channel, inbox, steered, queued, turn, taken, answer>>

\* Plausible bug: every turn is taken for undrained.
SettleQueuedBlindly ==
  /\ at \in {"takeBack", "settle"} /\ queued # <<>>
  /\ queued' = Tail(queued)
  /\ steering' = Without(steering, {Head(queued)})
  /\ turn' = Append(turn, Head(queued))
  /\ UNCHANGED <<running, polls, hand, transcript, lost, sessionVars, sent, channel, at, inbox, steered,
                 taken, answer>>

\* QueuedTurn::settle: still in the queue, it is the pump's again; else the run has drained it.
SettleQueued ==
  /\ at \in {"takeBack", "settle"} /\ queued # <<>>
  /\ queued' = Tail(queued)
  /\ LET m == Head(queued) IN
     IF m \in ToSet(steering)
       THEN /\ steering' = Without(steering, {m})
            /\ turn' = Append(turn, m)
            /\ UNCHANGED answer
       ELSE /\ answer' = [answer EXCEPT ![m] = "accepted"]
            /\ UNCHANGED <<steering, turn>>
  /\ UNCHANGED <<running, polls, hand, transcript, lost, sessionVars, sent, channel, at, inbox, steered, taken>>

\* What was taken back comes before what arrived later.
GatherTurns(next) ==
  /\ turn' = turn \o Only(inbox, Turns)
  /\ inbox' = Without(inbox, Turns)
  /\ at' = next
  /\ UNCHANGED <<agentVars, sessionVars, sent, channel, steered, queued, taken, answer>>

Requeue   == at = "takeBack" /\ queued = <<>> /\ GatherTurns("pushTurns")
SplitInbox == at = "settle" /\ queued = <<>> /\ GatherTurns("append")

PushTurn ==
  /\ at = "pushTurns" /\ turn # <<>>
  /\ steering' = Append(steering, Head(turn))
  /\ queued' = Append(queued, Head(turn))
  /\ turn' = Tail(turn)
  /\ at' = IF Len(turn) = 1 THEN "look" ELSE "pushTurns"
  /\ UNCHANGED <<running, polls, hand, transcript, lost, sessionVars, sent, channel, inbox, steered, taken, answer>>

\* The end of the busy phase, or another wait in it.
LookIdle ==
  /\ at = "look"
  /\ at' = IF Active THEN "busy" ELSE "edge"
  /\ UNCHANGED <<agentVars, sessionVars, sent, channel, inbox, steered, queued, turn, taken, answer>>

\* wait_for_latches_idle has returned.
WakeIdle ==
  /\ at = "busy" /\ ~driverUp /\ ~draining /\ running = NoOne
  /\ at' = "steer"
  /\ UNCHANGED <<agentVars, sessionVars, sent, channel, inbox, steered, queued, turn, taken, answer>>

WakeItem ==
  /\ at = "busy" /\ channel # <<>>
  /\ DrainReady
  /\ at' = "steer"
  /\ UNCHANGED <<agentVars, sessionVars, sent, queued, turn, taken, answer>>

\* The idle edge: what came meanwhile belongs to the same turn.
DrainAgain ==
  /\ at = "edge"
  /\ DrainReady
  /\ at' = "settle"
  /\ UNCHANGED <<agentVars, sessionVars, sent, queued, turn, taken, answer>>

\* InjectionOffer::AgentBusy: everything is still owned.
KeepAll ==
  /\ inbox' = inbox \o turn
  /\ turn' = <<>>
  /\ at' = "receive"

\* Plausible bug: what the pump has steered counts as drained.
TakeNothing ==
  /\ at = "append"
  /\ \/ /\ Active
        /\ KeepAll
     \/ /\ ~Active
        /\ at' = IF inbox = <<>> THEN "appended" ELSE "edit"
        /\ UNCHANGED <<inbox, turn>>
  /\ UNCHANGED <<agentVars, sessionVars, sent, channel, steered, queued, taken, answer>>

\* append_no_turn_messages, under the manager's lock: the latches again, and the steers that no
\* run has drained.
TakeStranded ==
  /\ at = "append"
  /\ \/ /\ inbox = <<>> /\ steered = {}
        /\ at' = "appended"
        /\ UNCHANGED <<steering, inbox, turn, taken>>
     \/ /\ inbox # <<>> \/ steered # {}
        /\ Active
        /\ KeepAll
        /\ UNCHANGED <<steering, taken>>
     \/ /\ inbox # <<>> \/ steered # {}
        /\ ~Active
        /\ taken' = Only(steering, steered)
        /\ steering' = Without(steering, steered)
        /\ at' = IF taken' \o inbox = <<>> THEN "appended" ELSE "edit"
        /\ UNCHANGED <<inbox, turn>>
  /\ UNCHANGED <<running, polls, hand, transcript, lost, sessionVars, sent, channel, steered, queued, answer>>

\* edit_transcript is refused while a run holds the latch: the steers go back to the head.
EditTranscript ==
  /\ at = "edit"
  /\ IF running # NoOne
       THEN /\ steering' = taken \o steering
            /\ taken' = <<>>
            /\ KeepAll
            /\ UNCHANGED transcript
       ELSE /\ transcript' = transcript \o taken \o inbox
            /\ at' = "persist"
            /\ UNCHANGED <<steering, inbox, turn, taken>>
  /\ UNCHANGED <<running, polls, hand, lost, sessionVars, sent, channel, steered, queued, answer>>

Answer(S, outcome) == answer' = [m \in Requests |-> IF m \in S THEN outcome ELSE answer[m]]

Persist ==
  /\ at = "persist"
  /\ at' = "appended"
  /\ UNCHANGED <<agentVars, sessionVars, sent, channel, inbox, steered, queued, turn, taken, answer>>

\* The tree refuses the k-th message: the rest leaves the transcript again, unless a run has
\* claimed the latch or added to it, and every request is handed back.
PersistFault ==
  /\ at = "persist"
  /\ \E k \in 1..Len(taken \o inbox) :
       LET batch == taken \o inbox
           end   == Len(transcript)
       IN IF running = NoOne /\ end >= Len(batch) /\ SubSeq(transcript, end - Len(batch) + 1, end) = batch
            THEN transcript' = SubSeq(transcript, 1, end - Len(batch) + k - 1)
            ELSE UNCHANGED transcript
  /\ Answer(ToSet(inbox \o turn) \cup steered, "unavailable")
  /\ inbox' = <<>> /\ turn' = <<>> /\ taken' = <<>> /\ steered' = {}
  /\ at' = "receive"
  /\ UNCHANGED <<running, polls, hand, steering, lost, sessionVars, sent, channel, queued>>

Appended ==
  /\ at = "appended"
  /\ Answer(ToSet(inbox) \cup steered, "accepted")
  /\ inbox' = <<>> /\ taken' = <<>> /\ steered' = {}
  /\ at' = "offer"
  /\ UNCHANGED <<agentVars, sessionVars, sent, channel, queued, turn>>

\* run_injection: the session's latch, then the agent's.
OfferTurn ==
  /\ at = "offer"
  /\ IF turn = <<>>
       THEN at' = "receive" /\ UNCHANGED <<driverUp, released>>
       ELSE at' = "start" /\ ClaimRunLatch
  /\ UNCHANGED <<agentVars, draining, drive, retries, sent, channel, inbox, steered, queued, turn, taken, answer>>

\* Plausible bug: the latch stays up when the agent did not take the turn.
StartTurnLeavingLatch ==
  /\ at = "start"
  /\ \/ /\ StartRun(Head(turn), turn)
        /\ drive' = [drive EXCEPT ![Head(turn)] = "running"]
        /\ at' = "accepted"
        /\ UNCHANGED <<inbox, turn, answer>>
     \/ /\ running # NoOne
        /\ KeepAll
        /\ UNCHANGED <<running, polls, hand, drive, answer>>
     \/ /\ running = NoOne
        /\ Answer(ToSet(turn), "unavailable")
        /\ turn' = <<>>
        /\ at' = "receive"
        /\ UNCHANGED <<running, polls, hand, drive, inbox>>
  /\ UNCHANGED <<steering, transcript, lost, driverUp, released, draining, retries, sent, channel,
                 steered, queued, taken>>

\* Plausible bug: a busy agent is reported to the producers, and the turn offered again as well.
StartTurnReportingBusy ==
  /\ at = "start"
  /\ \/ /\ StartRun(Head(turn), turn)
        /\ drive' = [drive EXCEPT ![Head(turn)] = "running"]
        /\ at' = "accepted"
        /\ UNCHANGED <<driverUp, inbox, turn, answer>>
     \/ /\ running # NoOne
        /\ driverUp' = FALSE
        /\ Answer(ToSet(turn), "unavailable")
        /\ KeepAll
        /\ UNCHANGED <<running, polls, hand, drive>>
     \/ /\ running = NoOne
        /\ driverUp' = FALSE
        /\ Answer(ToSet(turn), "unavailable")
        /\ turn' = <<>>
        /\ at' = "receive"
        /\ UNCHANGED <<running, polls, hand, drive, inbox>>
  /\ UNCHANGED <<steering, transcript, lost, released, draining, retries, sent, channel, steered, queued, taken>>

\* Agent::prompt takes the turn, has a run already (AgentBusy), or fails for good.
StartTurn ==
  /\ at = "start"
  /\ \/ /\ StartRun(Head(turn), turn)
        /\ drive' = [drive EXCEPT ![Head(turn)] = "running"]
        /\ at' = "accepted"
        /\ UNCHANGED <<driverUp, inbox, turn, answer>>
     \/ /\ running # NoOne
        /\ driverUp' = FALSE
        /\ KeepAll
        /\ UNCHANGED <<running, polls, hand, drive, answer>>
     \/ /\ running = NoOne
        /\ driverUp' = FALSE
        /\ Answer(ToSet(turn), "unavailable")
        /\ turn' = <<>>
        /\ at' = "receive"
        /\ UNCHANGED <<running, polls, hand, drive, inbox>>
  /\ UNCHANGED <<steering, transcript, lost, released, draining, retries, sent, channel, steered, queued, taken>>

Accepted ==
  /\ at = "accepted"
  /\ Answer(ToSet(turn), "accepted")
  /\ turn' = <<>>
  /\ at' = "receive"
  /\ UNCHANGED <<agentVars, sessionVars, sent, channel, inbox, steered, queued, taken>>

-----------------------------------------------------------------------------

Produce(m) == SteerNow(m) \/ TellPump(m)

Run == PollSteering \/ EndMessage \/ StopPolling \/ EndRun

Drive(d) ==
  \/ QueuePrompt(d) \/ SpawnRun(d) \/ DriveRun(d) \/ PostRun(d) \/ ContinueRun(d)
  \/ Release(d) \/ BeginDrain(d) \/ EndDrain(d) \/ DropLatch(d)

Pump ==
  \/ Receive \/ CheckSteers \/ PushSteers \/ CheckTurns \/ SettleQueued \/ Requeue \/ PushTurn
  \/ LookIdle \/ WakeIdle \/ WakeItem \/ DrainAgain \/ SplitInbox \/ TakeStranded
  \/ EditTranscript \/ Persist \/ PersistFault \/ Appended \/ OfferTurn \/ StartTurn \/ Accepted

PumpNext ==
  \/ \E m \in Requests : Inject(m)
  \/ \E m \in Steers : SeeRun(m) \/ Produce(m)
  \/ \E p \in Prompts : Submit(p)
  \/ \E d \in Drivers : Drive(d)
  \/ ClearQueue \/ Run \/ Pump

Spec == PumpInit /\ [][PumpNext]_vars

\* Tasks that can go on do; nothing is assumed of users and of what producers begin.
FairSpec ==
  /\ Spec
  /\ WF_vars(Run) /\ WF_vars(Pump)
  /\ \A m \in Steers : WF_vars(Produce(m))
  /\ \A d \in Drivers : WF_vars(Drive(d))

-----------------------------------------------------------------------------
(* Properties. *)

\* The copies of a message: on its way to the pump, in the pump's hands (while it appends, the
\* transcript has the copy that counts; an accepted turn is in the run's hand), in the agent.
Copies(m) ==
  Count(m, Arrived("request"))
  + (IF at \in {"persist", "appended"} THEN 0 ELSE Count(m, inbox \o taken))
  + (IF at = "accepted" THEN 0 ELSE Count(m, turn))
  + Count(m, hand) + Count(m, steering) + Count(m, transcript)
  + (IF m \in lost THEN 1 ELSE 0)

\* Nothing injected is lost or doubled on the way (ICOM-035, SUBA-229: "never lost, never
\* delivered twice"): whatever runs end, prompts claim and turns are taken back in between,
\* an injected message is in exactly one place until its producer is told that it is unavailable.
OneCopy ==
  \A m \in Requests :
    /\ Copies(m) <= 1
    /\ sent[m] \in {"steered", "yes"} /\ answer[m] # "unavailable" => Copies(m) = 1

\* An acknowledgement tells the producer what to do with its copy (InjectOutcome).  An accepted
\* message has left the pump and every queue: a run took it up, it is in the transcript, or the
\* user emptied the queue it stood in.  One reported unavailable is in no queue and in no run's
\* hand, and never gets there afterwards, so that the producer's retry is not beside it.  Of a
\* turn more is true: it was not delivered at all.  Of steers and notices that is not so, although
\* the outcome promises it: when the tree refuses a message, the pump reports unavailable every
\* steer it owns, those included that a run has drained, and every notice of the batch, those
\* included that the tree has taken, or that a run claimed since has in its snapshot.
AnswersAreTrue ==
  \A m \in Requests :
    /\ answer[m] = "accepted" => m \in ToSet(hand \o transcript) \cup lost
    /\ answer[m] = "unavailable" => m \notin ToSet(hand \o steering)
    /\ answer[m] = "unavailable" /\ m \in Turns => m \notin ToSet(transcript) \cup lost

\* No request stays unanswered, and none stranded in the queue of a run that is over: the pump
\* catches up with all that was handed to it, whatever claims the agent first.
Outstanding == \E m \in Requests : sent[m] \notin {"no", "never"} /\ answer[m] = "none"

PumpCatchesUp == Outstanding ~> ~Outstanding

\* The session's latch does not stay up (else waiters hang and the pump parks for good), whatever
\* claims are refused and settlements overlap.
SessionSettles == driverUp ~> ~driverUp

=============================================================================
