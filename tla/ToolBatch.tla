------------------------------ MODULE ToolBatch ------------------------------
(***************************************************************************)
(* The tool calls of assistant messages, executed as batches:              *)
(* cyrup-agent/src/agent/run/tools/exec.rs with preflight.rs.              *)
(*                                                                         *)
(* A parallel batch prepares all its calls in source order, spawns a task  *)
(* for each prepared one, hands the start from task to task in source      *)
(* order, finalizes them as they finish and emits their results in source  *)
(* order.  A sequential batch does all of it for one call at a time.  The  *)
(* bodies are mutations of files (module FileLocks); batches of several    *)
(* agents of one process share the files and the locks.                    *)
(*                                                                         *)
(* Left out: the content of results, progress updates, the terminate fold  *)
(* and the hooks' own effects.                                             *)
(***************************************************************************)
EXTENDS FileLocks, SeqFilter

CONSTANTS
  Batches,    \* batches under way in the process
  Calls,      \* per batch: its calls, in source order
  Sequential, \* the batches executed by execute_sequential
  Disturbed   \* the batches that may be aborted or fail (a bound)

\* Every call belongs to one batch, once.
ASSUME CallsAssumption ==
  /\ \A b \in Batches : Calls[b] \in Seq(Tasks) /\ Len(Calls[b]) > 0 /\ IsInjective(Calls[b])
  /\ \A t \in Tasks : \E b \in Batches : t \in ToSet(Calls[b])
  /\ \A b, c \in Batches : b # c => ToSet(Calls[b]) \cap ToSet(Calls[c]) = {}

VARIABLES
  phase,     \* per batch: where its coordinator is
  ready,     \* per batch: the prepared calls, in source order
  prepared,  \* per batch: how many calls have been through prepare
  task,      \* per call: its place in the start chain
  inbox,     \* per batch: the Finished and Aborted messages, oldest first
  filled,    \* per batch: the calls whose slot of `finalized` is filled
  results    \* per batch: the calls whose result message has been emitted

batchVars == <<phase, ready, prepared, task, inbox, filled, results>>
vars      == <<bodyVars, batchVars>>

-----------------------------------------------------------------------------

Phases == {"prepare", "check", "run", "body", "emit", "done", "failed"}

\* unspawned, spawned (waiting for its turn), started, and done (or never to be).
TaskPoints == {"none", "spawned", "started", "done"}

Init ==
  /\ FileInit
  /\ key = path
  /\ LockInit
  /\ phase = [b \in Batches |-> "prepare"]
  /\ ready = [b \in Batches |-> <<>>]
  /\ prepared = [b \in Batches |-> 0]
  /\ task = [t \in Tasks |-> "none"]
  /\ inbox = [b \in Batches |-> <<>>]
  /\ filled = [b \in Batches |-> {}]
  /\ results = [b \in Batches |-> <<>>]

Aborted(b) == ToSet(Calls[b]) \subseteq cancelled

\* The call the coordinator is to prepare.
Current(b) == Calls[b][prepared[b] + 1]

\* The call it has prepared last.
Latest(b) == Calls[b][prepared[b]]

\* The run's token fires, and with it every call's.
AbortBatch(b) ==
  /\ b \in Disturbed
  /\ ~Aborted(b)
  /\ Cancel(ToSet(Calls[b]))
  /\ UNCHANGED <<fileVars, batchVars>>

-----------------------------------------------------------------------------
(* The coordinator. *)

\* Plausible bug: a parallel batch starts a call as soon as it is prepared.
PrepareReadySpawning(b) ==
  /\ phase[b] = "prepare"
  /\ ~Aborted(b)
  /\ prepared' = [prepared EXCEPT ![b] = @ + 1]
  /\ ready' = [ready EXCEPT ![b] = Append(@, Current(b))]
  /\ phase' = [phase EXCEPT ![b] = IF b \in Sequential THEN "body" ELSE "check"]
  /\ task' = [task EXCEPT ![Current(b)] = "spawned"]
  /\ UNCHANGED <<bodyVars, inbox, filled, results>>

\* prepare() gives Prep::Ready: the tool exists, its arguments are valid, before_tool_call
\* lets it proceed and the token has not fired.  Only a sequential batch executes it now.
PrepareReady(b) ==
  /\ phase[b] = "prepare"
  /\ ~Aborted(b)
  /\ prepared' = [prepared EXCEPT ![b] = @ + 1]
  /\ ready' = [ready EXCEPT ![b] = Append(@, Current(b))]
  /\ phase' = [phase EXCEPT ![b] = IF b \in Sequential THEN "body" ELSE "check"]
  /\ task' = [task EXCEPT ![Current(b)] = IF b \in Sequential THEN "spawned" ELSE @]
  /\ UNCHANGED <<bodyVars, inbox, filled, results>>

\* Prep::Immediate: any of these said no; the call is finalized with an error at once.
PrepareImmediate(b) ==
  /\ phase[b] = "prepare"
  /\ prepared' = [prepared EXCEPT ![b] = @ + 1]
  /\ filled' = [filled EXCEPT ![b] = @ \cup {Current(b)}]
  /\ results' = IF b \in Sequential THEN [results EXCEPT ![b] = Append(@, Current(b))]
                                    ELSE results
  /\ phase' = [phase EXCEPT ![b] = "check"]
  /\ UNCHANGED <<bodyVars, ready, task, inbox>>

\* The bottom of the loop over the calls: an abort breaks it.  Behind it a parallel batch
\* spawns what it has deferred; a sequential one is done.
CheckAbort(b) ==
  /\ phase[b] = "check"
  /\ IF ~Aborted(b) /\ prepared[b] < Len(Calls[b])
     THEN /\ phase' = [phase EXCEPT ![b] = "prepare"]
          /\ UNCHANGED task
     ELSE IF b \in Sequential
     THEN /\ phase' = [phase EXCEPT ![b] = "done"]
          /\ UNCHANGED task
     ELSE /\ phase' = [phase EXCEPT ![b] = "run"]
          /\ task' = [t \in Tasks |-> IF t \in ToSet(ready[b]) THEN "spawned" ELSE task[t]]
  /\ UNCHANGED <<bodyVars, ready, prepared, inbox, filled, results>>

\* A message of a task: Finished is finalized through after_tool_call, Aborted is not;
\* either way the call's tool_execution_end is emitted and its slot filled.
Receive(b) ==
  /\ phase[b] = "run"
  /\ inbox[b] # <<>>
  /\ filled' = [filled EXCEPT ![b] = @ \cup {Head(inbox[b])}]
  /\ inbox' = [inbox EXCEPT ![b] = Tail(@)]
  /\ UNCHANGED <<bodyVars, phase, ready, prepared, task, results>>

\* remaining == 0, and the JoinSet is empty.
Join(b) ==
  /\ phase[b] = "run"
  /\ ToSet(ready[b]) \subseteq filled[b]
  /\ phase' = [phase EXCEPT ![b] = "emit"]
  /\ UNCHANGED <<bodyVars, ready, prepared, task, inbox, filled, results>>

\* Plausible bug: the results are emitted in the order the calls were prepared to run.
EmitReadyFirst(b) ==
  /\ phase[b] = "emit"
  /\ \E t \in filled[b] \ ToSet(results[b]) :
       /\ t \in ToSet(ready[b]) \/ ToSet(ready[b]) \subseteq ToSet(results[b])
       /\ results' = [results EXCEPT ![b] = Append(@, t)]
  /\ phase' = [phase EXCEPT ![b] = IF Len(results[b]) + 1 = Cardinality(filled[b])
                                   THEN "done" ELSE @]
  /\ UNCHANGED <<bodyVars, ready, prepared, task, inbox, filled>>

\* The result messages, slot by slot.
Emit(b) ==
  /\ phase[b] = "emit"
  /\ LET present == Filter(Calls[b], filled[b])
     IN  /\ results' = [results EXCEPT ![b] = Append(@, present[Len(@) + 1])]
         /\ phase' = [phase EXCEPT ![b] = IF Len(results[b]) + 1 = Len(present)
                                          THEN "done" ELSE @]
  /\ UNCHANGED <<bodyVars, ready, prepared, task, inbox, filled>>

\* A subscriber fails under an event: RunFailure leaves the runtime and drops the JoinSet.
\* (A sequential batch has no event while one of these bodies is suspended.)
Fail(b) ==
  /\ b \in Disturbed
  /\ phase[b] \notin {"done", "failed"}
  /\ phase[b] = "body" => body[Latest(b)] = "over"
  /\ phase' = [phase EXCEPT ![b] = "failed"]
  /\ UNCHANGED <<bodyVars, ready, prepared, task, inbox, filled, results>>

-----------------------------------------------------------------------------
(* The tasks. *)

\* The previous task of the chain has been polled, or is gone.
MyTurn(b, t) ==
  \A i \in 2..Len(ready[b]) :
    ready[b][i] = t => task[ready[b][i - 1]] \in {"started", "done"}

\* Plausible bug: the start is not handed on; the spawned tasks run as they are polled.
StartUnordered(b, t) ==
  /\ t \in ToSet(ready[b])
  /\ task[t] = "spawned"
  /\ t \notin cancelled \/ b \in Sequential
  /\ EnterGuard(t)
  /\ task' = [task EXCEPT ![t] = "started"]
  /\ UNCHANGED <<phase, ready, prepared, inbox, filled, results>>

\* A call's body is driven to its first suspension, inside guard(), and the next may go.
Start(b, t) ==
  /\ t \in ToSet(ready[b])
  /\ task[t] = "spawned"
  /\ t \notin cancelled \/ b \in Sequential
  /\ MyTurn(b, t)
  /\ EnterGuard(t)
  /\ task' = [task EXCEPT ![t] = "started"]
  /\ UNCHANGED <<phase, ready, prepared, inbox, filled, results>>

\* The run was aborted before the call's turn came.
StartAborted(b, t) ==
  /\ t \in ToSet(ready[b])
  /\ task[t] = "spawned"
  /\ t \in cancelled /\ b \notin Sequential
  /\ MyTurn(b, t)
  /\ task' = [task EXCEPT ![t] = "done"]
  /\ inbox' = [inbox EXCEPT ![b] = Append(@, t)]
  /\ UNCHANGED <<bodyVars, phase, ready, prepared, filled, results>>

\* The body has returned: Finished goes to the coordinator, which in a sequential batch
\* is the same task and emits the result right away.
Finish(b, t) ==
  /\ t \in ToSet(ready[b])
  /\ task[t] = "started"
  /\ body[t] = "over"
  /\ task' = [task EXCEPT ![t] = "done"]
  /\ IF b \in Sequential
     THEN /\ phase[b] = "body"
          /\ filled' = [filled EXCEPT ![b] = @ \cup {t}]
          /\ results' = [results EXCEPT ![b] = Append(@, t)]
          /\ phase' = [phase EXCEPT ![b] = "check"]
          /\ UNCHANGED inbox
     ELSE /\ inbox' = [inbox EXCEPT ![b] = Append(@, t)]
          /\ UNCHANGED <<phase, filled, results>>
  /\ UNCHANGED <<bodyVars, ready, prepared>>

\* The tasks of a failed batch are destroyed, wherever each is suspended.  JoinSet's drop
\* tells them to stop in the order in which they were spawned, so one that has not begun is
\* gone only after those before it have begun or are gone.
DropTask(b, t) ==
  /\ phase[b] = "failed" /\ b \notin Sequential
  /\ t \in ToSet(ready[b])
  /\ \/ /\ task[t] = "spawned"
        /\ MyTurn(b, t)
        /\ UNCHANGED bodyVars
     \/ /\ task[t] = "started"
        /\ DropBody(t)
  /\ task' = [task EXCEPT ![t] = "done"]
  /\ UNCHANGED <<phase, ready, prepared, inbox, filled, results>>

-----------------------------------------------------------------------------

Coordinate(b) ==
  PrepareReady(b) \/ PrepareImmediate(b) \/ CheckAbort(b) \/ Receive(b) \/ Join(b) \/ Emit(b)

Job(t) == JobStep(t) /\ UNCHANGED batchVars

\* Everything the task of a call does, or that is done to it.
TaskStep(t) ==
  \/ BodyStep(t) /\ UNCHANGED batchVars
  \/ \E b \in Batches : Start(b, t) \/ StartAborted(b, t) \/ Finish(b, t) \/ DropTask(b, t)

Progress ==
  \/ \E b \in Batches : Coordinate(b)
  \/ \E t \in Tasks : TaskStep(t) \/ Job(t)

Next == Progress \/ \E b \in Batches : AbortBatch(b) \/ Fail(b)

Spec == Init /\ [][Next]_vars

\* The runtime does not stop while a coordinator or a task can be polled or a submitted
\* file operation can land.  (Every call ends, so this is all that fairness to each of
\* them would give.)  Hooks and subscribers return; no abort or failure is owed.
FairSpec == Spec /\ WF_vars(Progress)

-----------------------------------------------------------------------------

\* "NO tool body starts until EVERY call in the batch has been prepared": no call of a
\* parallel batch runs beside a before_tool_call of that batch.
NothingRunsBesideAHook ==
  \A b \in Batches \ Sequential :
    phase[b] \in {"prepare", "check"} =>
      \A t \in ToSet(Calls[b]) : task[t] = "none" /\ body[t] = "off"

\* "Two mutations of the same file must be granted in the order the model issued them":
\* once a later call of a batch writes a file, an earlier one is finished with it or will
\* never begin, unless the file's creation gave the two different keys.
IssueOrder ==
  \A b \in Batches : \A i, j \in 1..Len(Calls[b]) :
    LET t == Calls[b][i]
        u == Calls[b][j]
    IN  i < j /\ File(t) = File(u) /\ body[u] \in {"writing", "written"} =>
          /\ body[t] \notin {"queued", "resolved"}
          /\ body[t] \in {"waiting", "locked", "writing", "written"} => Rekeyed(t, u)
          /\ body[t] = "off" => task[t] # "spawned"

\* A batch that returns has answered the calls it announced, one result each and in the
\* order the model wrote them, and has left no task, no place and no lock behind.
ReturnsComplete ==
  \A b \in Batches : phase[b] = "done" =>
    /\ results[b] = SubSeq(Calls[b], 1, prepared[b])
    /\ \A t \in ToSet(Calls[b]) : /\ task[t] \in {"none", "done"}
                                  /\ body[t] \in {"off", "over"}
                                  /\ at[t] = "idle"

\* Every batch returns, by an error at the latest, and every place and lock is given
\* back, whatever is aborted, refused, failing or dropped on the way.
BatchesSettle ==
  <>[](/\ \A b \in Batches : phase[b] \in {"done", "failed"}
       /\ \A t \in Tasks : at[t] = "idle")

=============================================================================
