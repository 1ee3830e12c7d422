# cyrup in TLA+

Models, model-checking instances and machine-checked proofs for the parts of
[cyrup](../src/README.md) whose correctness depends on interleavings, failures
and crashes: the agent's run latch and loop, the way background messages reach a
session, the scheduling of tool calls and the locks they take, the lease under which
processes revive a session, and the durable store and the subscriptions of the Pico5
kernel.

Paths below are relative to `src/crates/`. Every definition that stands for code
names its lines in `PROJECT.json` (`map`); the hazards that the properties are for are
listed there too, each at the line where it bites.

## 1. The system

cyrup is a coding agent: about 1.4 million lines of Rust in 33 crates. A user (or
an editor, a script, another process) talks to a *session*; the session owns an
*agent*, which asks a model *provider* for an answer, executes the *tools* the
answer calls, and asks again until there is nothing left to do. Extensions and
hooks are called at fixed points, subscribers see every event, and what happened
is appended to durable files.

```
 front ends (cyrup, cyrup-tui, cyrup-modes, cyrup-acp, cyrup-sdk)
        |  prompt, steer, abort                 ^ events
        v                                       |
 cyrup-session-svc ---- cyrup-session (JSONL tree) ---- cyrup-config
        |
        v
 cyrup-agent:  latch --> loop --> tool batch --> cyrup-tools (write, edit, bash ...)
                 |        |            |               |
              queues   provider     hooks        FileMutationLocks
                                (cyrup-ext,            |
                              permission-system)  cyrup-core::keyed_lock
 cyrup-ext-subagents, cyrup-intercom, cyrup-mcp: other processes
 cyrup-pico -> cyrup-pico-store -> cyrup-pico-store-jsonl: the durability kernel
```

| Part | State it keeps | Operations | What is hard | What makes it correct |
|---|---|---|---|---|
| Agent latch (`cyrup-agent`, `agent/lifecycle.rs`, `agent/facade.rs`) | the `running` channel, the cancel slot, the transcript and in-flight state, two queues | prompt, continue, steer, follow-up, edit, reset, abort, wait for idle | any number of callers; the claim, the snapshot and the four-step settlement are separate critical sections | one run at a time; an abort hits the run it is meant for; idle means nothing is left over; no message lost, doubled or reordered |
| Agent loop (`agent/run/turn.rs`, `mod.rs`, `stream.rs`) | the turn's messages, the working copy, the decision to go on | run a turn, poll queues, call hooks, stream, run tools | hooks and subscribers may fail at every await, the provider may hang, the client pushes and aborts at any moment | a turn has a reason, none is owed at the end, events nest, an abort ends the run |
| Tool batch (`agent/run/tools/exec.rs`) | prepared calls, a chain of starts, a channel of results | prepare, spawn, start, finish, join, emit | tasks are polled in no order of ours; approval prompts; aborts and failures in the middle | calls start in source order, nothing runs beside an approval, every call has one result, in order |
| Session service (`cyrup-session-svc`, `session/run.rs`, `inject.rs`, `queued_turn.rs`) | the session's two latches, the drivers of its runs, the injection pump's inbox and what it has pushed onto the agent's queue | prompt, inject a turn, a steer or a notice, settle | whether a run is going is read in one step and acted on in a later one; a prompt may claim the agent in between; settlements overlap | an injected message is delivered once, an acknowledgement is a fact, the pump catches up, the session settles |
| File locks (`cyrup-tools/src/lock.rs`) over keyed locks (`cyrup-core/src/keyed_lock.rs`) | a map from key to mutex with reference counts, a line per mutex, a registration chain | enqueue, wait, give up, unlock, evict | cancellation and dropped futures at each await; eviction races registration; a file's key changes when it is created | one holder per key, first come first served, no leaked entry, no mixed writes |
| Pico JSONL store (`cyrup-pico-store-jsonl`) | `main.jsonl` with markers, one sidecar per document and generation, the committed state in memory | open, commit, reclaim, mint, read, close | a crash between any two system calls, lost unflushed bytes, failing appends and flushes, a reader without a lock | it always opens, to exactly the confirmed commits; reads never drift; ids are never reused |
| Pico session line and subscriptions (`cyrup-pico`, `slot.rs`, `session.rs`, `docs.rs`, `watch.rs`) | the authority's trackers, the registry of slots, a buffer and a watermark per slot, drafts | commit, adopt, publish, acquire, consume, stop, close, fork | adoption and publication are two steps; a subscription registers, reads and arms off the line; buffers overflow | each frame once or in the baseline; no consumer sleeps over one |
| Session file (`cyrup-session`, `store.rs`, `manager/`) | a JSONL tree of entries, the leaf, a held append handle, the process's flusher | open, append, branch, rewrite, drop | crashes inside a write, between the creation and the first flush, and around the rename; a second manager of the same file; failing calls that leave memory ahead of the file | an acknowledged entry is there for whoever opens the file; a conversation breaks off only where an append was refused |
| Revival lease (`cyrup-ext-subagents`, `background/session_lease`) | a lease directory with an owner record, tombstones, the runner's writers and the task that records them | claim, judge, break, record, release | several processes that rename and remove by path, killed between any two steps, with writers that survive them | one runner per session file, a stale lease is taken |
| Subagents (the rest of `cyrup-ext-subagents`) | run directories, result files, receipts | spawn, supervise, deliver | several processes, restarts | a result delivered once |
| Intercom (`cyrup-intercom`) | the broker's sessions, asks, mailboxes, receipts | send, ask, reply, cancel, expire | disconnects, timeouts against late answers | an ask is answered at most once and never lost silently |
| Permission system, configuration, providers, extensions, MCP, codemode, front ends, resources | rules, files, connections, views | decide, load, call, draw | mostly sequential, or input and output | see `PROJECT.json`, `components` |

## 2. The modules

```
 AgentLatch            AgentLoop        FifoLocks <..... KeyedLocks
     |                     |                         |
 MCAgentLatch      AgentLoopProofs           FileLocks
 AgentLatchProofs                                    |
                                             ToolBatch --- ToolBatchProofs
 InjectionPump     SessionLease                      |
     |                 |                     MCToolBatch
 MCInjectionPump   MCSessionLease
 InjectionPumpProofs                         SeqFilter --- SeqFilterProofs

 JsonlLog                     Observation ......> Watch
     |                             |        |
 JsonlStore ......> PicoStore  MCObservation  ObservationProofs
     |
 JsonlReader --- JsonlProofs   SessionFile --- SessionProofs --- SessionLease
     |                             |
 MCJsonl                       MCSessionFile

 ( | : EXTENDS,  ..> : implements )
```

**AgentLatch.** One action per critical section of `lifecycle.rs` and `facade.rs`.
A caller's control point `at[c]` walks through `claim_and_snapshot` (fast path,
compare-and-set on the channel, cancel slot, state lock), `start_run`, or one of the
other operations; a run's `phase[r]` walks through its life and through the four
steps of `SettlementGuard::drop`. `transcript`, `inflight` and `model` are what is
under the state lock; `steering` and `followUp` are the queues. A run's body is
reduced to what its clients can observe: messages reduced into the transcript,
queue polls, failure. `view[r]` is the run's own copy of the transcript. `setup`, chosen in the initial state and
never changed, says which operations a caller may begin, how the transcript begins and how many messages there may be; the theorems leave it open.

**AgentLoop.** One run, from its prompt to `agent_end`. `pc` is where the run task is
suspended, and an action is what it does from one await to the next. Every hook return
and every event emission may fail, which unwinds through `failing`; the client
pushes to the queues and aborts between any two steps; the provider may start,
answer, stop with a length limit, refuse, or never return. A tool batch is one step that yields tool
results; its inside is ToolBatch.

**InjectionPump.** The session's side of a run. A producer hands over a *turn* (a
finished background result that wants an answer), a *steer* (a message for the run that is
going) or a *notice* (context only). `at` is where the pump's task is in its loop: it files what has
arrived (`inbox`), pushes steers and turns onto the queue of a live run (`steered`, `queued`),
takes back at the idle edge what no run has drained (`taken`, `turn`), appends it to transcript and file,
or starts a run with it. `drive[d]` is where a driver (`drive_run` and `settle_run` for one prompt or
injected turn) is, `driverUp`, `released` and `draining` are the session's latches. A
run and its driver carry the name of the message the driver was started with. The agent below it is reduced to its
latch, its queue and its hand: a claim is one step because AgentLatch shows that the claim's critical sections
let one run in; the reads of the latches that precede it (`Active`) are steps of their own, which is what the
module is about. What a run ended with, hence whether its driver retries, continues or settles, is left open.

**KeyedLocks, FileLocks, ToolBatch.** The registry is parameterised by its users
(`Tasks`, `Keys`) and by the allocations a mutex may have (`Mutexes`: a freed
address may be reused, the hazard of comparing by reference; the instances have two, as there are never more than two keys in use). FileLocks adds the
body of `write`: the registration chain, realpath as key, the open and
write of `write_in_place`, which run on the blocking pool and land even when their
task is dropped. `guessed` is history: the tasks that did not find their file when they resolved its path, and went by its
spelling. ToolBatch adds the coordinators: `task[t]` is a call's place in the
start chain, `inbox[b]` the channel of finished calls, `filled` and `results` the two
orders in which answers become known and are emitted. When a subscriber fails, the tasks of a parallel batch are
destroyed where they are suspended; that `JoinSet` tells them to stop in the order of their spawning, so that none
begins after an earlier one was lost, is the guard of `DropTask`. `FifoLocks` is what the
registry promises: one first-come-first-served line per key, as its own documentation
says of it.

**JsonlLog, JsonlStore, JsonlReader.** JsonlLog is the pure part: the lines of
`main.jsonl`, `apply_line`, the replay of a log, slices and reclamation points. JsonlStore is
the protocol, one action per system call: a file is its records, how many of them
are flushed, and whether its directory entry is. A process crash keeps every byte
written; a power loss keeps of every file some prefix not shorter than what was
flushed, and may forget unflushed directory entries. `job` is where a commit, a
reclamation or an id reservation is suspended. `setup`, chosen in the initial state and never changed,
says which crashes, faults and batches a behaviour may have, so that one run covers
instances that would be too large together. JsonlReader puts a second process
beside the writer, without the store lock; a power loss ends it, a crash of the writer does not. `lost` and `reissued` are the history of ids: those of which a
power loss took every line that told of them, and those that were returned again. `PicoStore` states the contract: a
log of commits that a crash never shortens, of which a power loss may take a tail
that was not safe, and of which an open store shows a prefix.

**SessionFile.** The JSONL file of a conversation, by system call. `inodes` are the files there have been at the path, `entryNow` and
`entrySafe` the one the path names and the one it names on the device; a file is its lines, whether the last one lacks its
newline, and how many are flushed. `at[m]` is where a manager is: opening (and replacing, then naming, what it replaces),
idle, or in its first flush (creating, writing, flushing). An append is one action: `push_entry` moves memory and leaf
first, `append_line` writes one line to the held handle and leaves the flush to the syncer (`requests`). What follows an unterminated line
is glued to it and parses no more; `load` terminates the last line. A write of text with characters of several bytes (`wide`) may stop
inside one; the line it leaves (`Cut`) is not UTF-8, and `load` gives up there (`Legible`), where it skips a line that merely does not
parse. `setup` again says what a behaviour may have.
The entries' numbers stand for ids, `parent` for the tree; `acked`, `refused`, `owed` and `excused` are history: what was
answered Ok or Err, what has not been flushed yet, and what a power loss caught in that state.

**SessionLease.** One session file, its lease path and any number of runners. A runner claims by renaming its own directory onto
the path, which succeeds if what is there is absent or empty; a loser reads `owner.json`, asks the
process table about owner and writer, and moves what it finds at the path to the tombstone named after the owner it
*read*. `record[d]` is the owner record inside directory `d`, wherever the directory is by now, so that a
rewrite, a removal or a rename that goes by path may hit another runner's directory. The runner's writers
(`step`, `spawned`, `alive`) reach the record through a channel (`queue`) and a task that checks the token and
writes in two steps. `release` is a check, the removal of the record, and the removal of the directory. A
runner may be killed between any two steps; its writer lives on. `orphans` is history: the runners that were killed while their
record missed their living writer.

**Observation, Watch.** The committer's line (adoption into the authority, then publication into the registered slots) beside
subscriptions that are acquired off the line in four steps: resolve the address, register the slot, read value
and revision, arm the slot with them. The consumer enables its wake-up, takes a frame, looks for an
end, waits. Values are numbered by commit; `tracker[d]` is the revision the watermark compares. `Watch` is the promise:
baseline and registration in one instant, every later value in order, or only the newest
after an overflow, the retirement last. In the refinement what is owed is what is buffered above the baseline, plus the change that has been
adopted and not yet published.

**SeqFilter.** What `SelectSeq` picks and what a count counts, defined by a recursive function so that lemmas about
it can be proved; AgentLoop, ToolBatch and InjectionPump pick messages and events with it, Observation the frames above a baseline, SessionFile the lines that parse, JsonlLog the
commits that wrote a document, JsonlStore the markers.

Definitions marked "Plausible bug" are variants used to confirm that each property
notices a mistake in the code it is about; nothing else refers to them.

## 3. The runs

| Run | What it asks | Bounds |
|---|---|---|
| `agent_latch` | exclusivity, slot ownership, settled idleness, transcript agreement, queue order; handles resolve, waiters return | 2 callers, 2 claims, one-at-a-time queues: two runs overlap in every phase of each other's claim and settlement. Two setups. `Divided`: 2 messages; either caller starts a run, one resets and edits, the other steers, appends, aborts and waits. `Queues`: an answered conversation and 3 messages steered or queued as follow-ups, up to 3 of them at once, while runs poll and `continue` drains. The safety properties are proved for callers that may do everything |
| `agent_loop` | queue delivery, turn reasons, nesting, agreement of the three message lists, abort | 2 steering messages, 1 follow-up, 1 tool-calling or continued answer, 1 hook update; both queue modes and the four ways a run is started. Two steering messages are what one-at-a-time delivery needs to go wrong |
| `jsonl` | reopening, memory against log, reads, addresses, ids, an open reader, the contract | four setups. `Kills`: 2 incarnations of one address, 2 commits, rows, 3 ids in blocks of 2, a process crash, append, flush and late-flush faults. `PowerLosses`: 2 documents, 3 commits (which give a second reclamation of one document), 2 crashes of either kind, failing flushes. `PowerLossIds`: 4 ids in blocks of 2, 2 commits with rows, 3 crashes of either kind, failing appends. `Reads`: a reader beside 4 commits, 1 crash, failing appends |
| `jsonl_damage` | fails (`CrashesAreHarmless`): an id is returned again after a power loss; the store refuses to open after a sweep and a power loss, and after a Reclaim line whose append stopped short | three setups, each of which fails alone. `LostMints`: ids, 1 commit. `Sweeps`: `PowerLosses` without failing calls. `TornReclaims`: 1 document, 3 commits, 1 crash |
| `tool_batch` | registry, file contents, hooks, order, results, refinement of FifoLocks, settlement | a parallel batch of two calls beside a sequential one; two arrangements of files, one with a file under two spellings, one with a new file that both calls of the parallel batch name through a link, beside another file. The parallel batch may be aborted, refused, fail or be dropped at any step; the sequential one, which disturbs nothing, is there to be waited for |
| `session_lease` | the holder's directory and record are at the path, one runner and one writer use the file, orphaned writers apart, a stale lease is taken | 3 runners, on one machine or one of them on another; one has 2 writers; 4 attempts as in the code; a kill at any step, the record behind its writer or not. Three runners are an owner, a contender that judges it, and the successor the contender's rename may hit |
| `session_lease_successor` | fails (`OneUser`): a contender takes the lease of a killed runner whose record missed its writer; a contender moves a successor's lease aside | the same, without the assumption `Prompt`, and no writer exempt |
| `observation` | the refinement of Watch, no consumer asleep over a frame or an end | 2 incarnations at an address, 1 subscription, a buffer of 2 frames, 4 values. Slots do not touch each other, so one subscription meets every interleaving with the line; 4 values overflow a buffer of 2 after an arming |
| `observation_migration` | fails: a subscriber shows an old value with nothing left to deliver | the same, with `MigratesWatched` |
| `injection_pump` | one copy of every message, true acknowledgements, the pump catches up, the session settles | what may come together: two turns and a prompt; a turn, a steer and a prompt; a steer, a notice and a prompt; a turn and a notice with one retry. Two drivers beside a pump that holds something is what the claims and settlements need to overlap |
| `session_file` | acknowledged entries stay in the file and are read, a conversation breaks off only at a refusal, nothing readable is taken back | four setups. `Alone`: one manager after another on a missing, empty, old or current file, 3 entries, 3 faults (death between or inside writes, power loss, refused calls, failing flushes). `Wide`: the same with lines that may be cut inside a character, 2 faults. `Longer`: 4 entries, 1 fault. `Together`: two managers, 3 entries, 1 fault. Three entries are one that is read back, one that a fault hits and one that is appended behind it |
| `session_file_damage` | fails (`AcknowledgedEntriesAreRead`): an acknowledged entry is not read by the next open | five setups, each of which fails alone: `WideTails`, `TornWrites`, `DeathsBeside`, `NewNames`, `LateOpens` |

Deadlock is not checked anywhere: batches, runs and closed stores end, and an idle
agent without callers left stops.

What the runs say together: the latch, the loop, the registry, the lease, the slots, the pump and the session file keep their
promises in all interleavings explored, with the exceptions recorded as findings:

* the JSONL store's orphan sweep trusts a log it has not flushed (`jsonl_damage`, setup `Sweeps`);
* a failed append of a Reclaim line does not poison the store as its documentation
  requires, and the next commit completes an undecodable line (`jsonl_damage`, setup `TornReclaims`);
* an id that was returned is returned again after a power loss: nothing flushes a Mint line, on the PowerLoss tier either (`jsonl_damage`, setup `LostMints`);
* a session file whose last line a crash cut inside a character keeps, but does not show, what is appended behind that line; and
  acknowledged entries are lost in four other circumstances, listed below (`session_file_damage`);
* a runner that is killed between spawning a writer and its record's saying so loses its lease to a contender while
  the writer lives, where `executor.rs:1321` says that it keeps it (`session_lease_successor`);
* a contender that has read an owner's record before the owner released moves the successor's lease aside: an
  owner that releases leaves no tombstone (`session_lease_successor`);
* a migration replaces the revision counter that a subscription's watermark was read
  from, and its frames are dropped as already seen (`observation_migration`).

TLC stops at the first counterexample of a run. To see another one, leave its setup alone in the `.cfg` (`Setups <- {...}` by a definition of the
MC module); for the successor, set `MaxSpawns` to 0.

The passing runs are stated so that these do not hide anything else. `OnlyTheSweepLosesData` allows a loss only after such
a sweep. `NoIdIsReissued` allows an id to come back only when a power loss has taken the last line that told of it, its block's and its commits', and
in `PowerLossIds` power losses take lines of every kind. `OneKnownUser` leaves out the writers of runners killed while their record missed them (`orphans`) and nobody else; kills
are free to come then. `session_lease` assumes `Prompt`: no runner is gone while a contender judges an outdated record of it.
`observation` assumes that no document is migrated under a subscription (`MigratesWatched = FALSE`). `AcknowledgedEntriesSurvive` asks that an acknowledged entry be
read, or stand in the file behind a line that is not UTF-8 (`Hidden`).

`session_file` assumes five things (`Sound` in SessionFile), which a setup can drop. Without the first four,
`AcknowledgedEntriesSurvive` fails too, not just `AcknowledgedEntriesAreRead`:

* no append is cut short and survived. `append_line` gives up its handle and reopens the file at the torn tail, so the *next* entry is glued
  to it, acknowledged and unreadable; only `load` terminates a tail (`store.rs:262` describes the reopened session, not this one): `TornWrites`;
* no manager dies inside a write while another one has the file open, for the same reason: the survivor's next entry is lost, where `store.rs:267`
  promises that a concurrent appender costs "at most one partial final line": `DeathsBeside`;
* flushing a new file flushes the directory entry that names it. `create_exclusive` flushes the file alone; `durable.rs`
  says of the rename why that is not enough: `NewNames`;
* no path is opened between another manager's `create_new` and its write. `open_with_cwd` takes a file of length zero for an abandoned one and
  replaces it, and the creator goes on appending to a file without a name: `LateOpens`;
* no flush fails where two managers may have the file open. Which of them learns of a failure is the kernel's affair; the model
  reports it to the one whose flush it was, and would make the other's next flush a success that flushed nothing.

Known of the code, in the models, and the subject of no run of its own:

* a file has two lock keys while it comes into being under another path than its realpath, its spelling before the
  open and its realpath after it (`lock.rs:220`), so two writers of a new file below a symbolic link write it at once, where `lock.rs:3` says that they
  "cannot interleave/corrupt" and `keyed_lock.rs:11` asks for a single form of every spelling. `tool_batch` has such a file; `WritesDoNotMix` and `IssueOrder` leave out the
  pairs this happens to (`Rekeyed`) and no others, and both fail in that run when the exemption is struck out;
* when the session tree refuses an injected message, the pump answers `SessionUnavailable` for every steer it owns, those a run
  has drained included, and for every notice of the batch, those the tree has taken and those whose roll-back a run's claim refused included (`inject.rs:506`, `mod.rs:1168`).
  `cyrup-ext/src/host/services.rs:43` says of this answer that nothing was delivered. `AnswersAreTrue` asks that of turns; of steers and notices
  it asks that they be in no queue and no run's hand;
* `Agent::reset` is not refused if a claim falls between its check and its lock (`RunSeesTheTranscript` leaves out only the runs such a reset has rewritten);
* a reader can be refused by a healthy store whose writer reclaims beneath it;
* a refused `run_injection` lowers the session's latch under a driver that is still going;
* a prompt that starts after another claim is dropped with a log line, and one that queues after its run has polled for the last time waits for the next run;
* a rename of the lease lost to contention on a path that is free a moment later refuses the revival as a fault.

### Fairness

* `AgentLatch`: weak fairness of every caller's own steps between a claim and its
  return, of a waiter's return, and of every run's body and settlement. These are tokio tasks that are
  always runnable when the action is enabled; nothing is assumed of callers beginning
  anything, nor of aborts.
* `AgentLoop`: weak fairness of the loop's own step only (`WF_vars(Loop)`). Hooks,
  tools and subscribers are taken to return, as the code awaits them without a
  timeout; the provider is not: `AbortSettles` must hold although it hangs.
* `ToolBatch`: weak fairness of `Progress`, the coordinators', tasks' and
  blocking-pool steps together. Each await in a batch is resolved by another step of that set, so this is
  the scheduler's promise and no more; tool bodies and hooks return, aborts and failures need not happen.
* `SessionLease`: weak fairness of each runner's `Acquire`, whose steps are system calls in a row. Nothing is
  assumed of holders, writers or kills: `StaleLeaseIsTaken` needs the contender alone.
* `Observation`: weak fairness of `Publish` (the committer does not wait between adoption and publication), and
  of every subscription's `Acquire` and `Consume`; a listener is taken to return.
* `InjectionPump`: weak fairness of the run, the pump, a producer between its push and its
  report, and every driver. The provider is taken to return. Nothing is assumed of users and of what producers begin.
* The JSONL modules and SessionFile claim no liveness.

## 4. The proofs

TLAPS checks the following for every value of the constants, under the assumptions
named in the modules (`NoRun` is not a run, bounds are naturals, `NoMutex` is not a
mutex, `None` is neither a document nor a frame, the documents of the JSONL store are finitely many, every call belongs to one batch, once, paths and realpaths are functions that agree).

**AgentLatchProofs.** `TypeCorrect`, and by the inductive invariant `IInv` the
three properties `LatchIsExclusive`, `SlotIsTheHolders`, `IdleMeansSettled`. None of the three is
inductive alone. That the latch is exclusive needs to know that a claim found
the channel false, hence (by `running <=> someone holds`) that nobody holds it; that the
slot is the holder's needs to know which control point of a caller goes with which
phase of its run, since the token is stored by the caller, after the claim.
`ClaimOK` says so: a caller between its claim and its return owns exactly one run, no two callers own the same one, and
its phase matches the caller's place. `InflightOK` says that in-flight state exists
only under a holder whose guard has not yet cleared it, which is why a channel that reads false means settled. The proof
has a lemma for each group of actions.

`TranscriptsAgree` (`RunSeesTheTranscript`) and `DeliveryIsFifo` (`QueuesAreFifo`), over the same
`IInv`. The first is inductive with it: while a run has its copy it alone holds the latch, so edits are refused, and what it
appends itself goes to both. The second needs `MessageInv`, the order of each source within every place a message can be and
between every two of them (`Chain`), with two facts that make a new message the last: ids grow (`Numbered`), and each queue holds one
source (`QueuesPure`). A run holds a batch only while it is live (`OnlyTheLiveHold`), so one batch stands between the transcript and
the queues. A poll, a drain into a prompt, a reset, a failed run and a pop of the tail all take contiguous pieces of sequences
that are in order (`Window`, `WindowKeeps`), and one lemma per kind of move does the rest.

**ToolBatchProofs.** Its first part is about the registry alone. `LockInv` is the type invariant, `OneLiveMutexPerKey`,
`NothingLeaks` and six facts that make them inductive: a task has a reference
exactly at the control points where the code has an `Arc` (`ReferencesAreCounted`, without which
eviction could remove a mutex that is in use); two keys never share a mutex
(`MutexesAreApart`, because a minted mutex is one nobody references); the line of a mutex
holds exactly the tasks that wait for it or hold it, each once (`LinesAreSound`,
`PlacesAreApart`, `PlacesAreKept`); and a guard's holder is the head of its line
(`HoldersAreHeads`). Exclusion is the last step: two holders of one key have the same mutex, so
both are the head of one line. The lemma that takes work is the removal of a place from the middle of a line,
`RemoveAtFacts` and `LeaveLineInv`.

`RegistryIsFifo` shows that the registry implements FifoLocks: by `LockInv` the line of a key is that of one
mutex, so a first poll joins it, a grant enters it, giving up a place leaves it, and
registration, dropping a reference and eviction are stutters (a mutex is minted with an empty line, and one
that nobody references has an empty line).

The second part composes. `BatchesUseTheRegistry` shows `Spec => LockSpec`: each step of the
coordinators, tasks, blocking jobs and drops is a registry step or leaves the registry alone. So `CallsExclude`,
`CallsEvict` and `CallsAreFifo` hold of any batches without a new invariant. `HooksStandAlone`
proves `NothingRunsBesideAHook`; what makes it inductive is that only prepared calls of the same
batch are spawned (`CoordinatorsAreSound`), that batches share no call, and that whatever happens to a task happens to
one that is spawned already (`BusyCallsAreElsewhere`). `BatchesReturnComplete` proves `ReturnsComplete`, that a batch
which returns has the result of each of its calls once and in source order: `BatchInv` says where the answer of a call is,
by the call's place (not yet given; in the inbox once; filled), that `filled` and `results` are filled in in these two orders and no
other, and that a call whose batch is over is nowhere else.

The third part, on the bodies of the calls, has `FilesHaveOneWriter` (`WritesDoNotMix`) and `WritesInIssueOrder` (`IssueOrder`), for any batches,
calls, paths, aborts and failures. In the registry a call goes by the key it resolved, which is its file's realpath unless it did not find the file
(`KeyIsResolved` in `BodyInv`); so two writers of one file hold one key's guard or are `Rekeyed`, and exclusion of the registry gives the first theorem once it is known that whoever is about to write has
truncated the file and nobody with its key wrote since (`ContentInv`), and that a key once resolved stays (`KeyedStaysKeyed`). The second is a chain of orders, each inductive from the one
before: tasks begin in source order (`ChainInv`), so calls stand in the registration line in source order
(`RegistersInOrder`), so they stand in the line of the file's mutex in source order (`LinesAreInOrder`), whose head is the holder.

**AgentLoopProofs.** What makes the loop's properties inductive is what must be true at each control point: `TypeInv` says
which message is open and which is waiting there, `NestInv` what the events emitted so far leave open, `IdleInv` what the
decision to stop has already looked at. With these, `LoopTypes`, `EventsNestAlways` and `EndsOnlyWhenIdleAlways` are read off the
control point, for any number of messages and any order of failures. `FlowInv` adds where the messages are: held only between the
poll that drains them and their announcement, of one queue at a time, the three copies of what was told equal outside of a failure's
unwinding, and a prepared turn with the reason it was prepared for. From it follow `QueuesDeliverAlways`, `RequestsSeeTheTranscriptAlways` and
`TurnsHaveAReasonAlways`. One-at-a-time delivery is not inductive by itself: that the poll before the first turn and the poll
after a turn do not both contribute is a matter of what the run was started from and of where the transcript stood when the turn
opened (`PlacesByTurn`). Most steps move no message (`Quiet`) and are proved together.

**InjectionPumpProofs.** `OneCopyOfEach` (`OneCopy`) and `AcknowledgementsAreTrue` (`AnswersAreTrue`), for any turns, steers, notices and
prompts, by `PumpInv`. An accepted message is where a run took it, an unavailable one in no queue and no run's hand for good, and an unavailable turn nowhere in the
transcript either. `PumpInv` counts each message twice: what the pump's books say is still to be seen to (`Held`: in the channel, filed, pushed, taken back)
and where the message itself is (`Copies`: the agent's queue, its hand, the transcript, the pump's own hands). Neither count is inductive without the
other: an acknowledgement is true because the message was in the books when the step that answered looked at it. The pump's place `at` says which of
the books are empty, and a run's poll or failure moves copies and leaves the books alone.

**JsonlProofs.** `OneLive` (`OneLivePerAddress`), `MemoryIsLog` (`MemoryIsTheLog`), `IdsAreNew` (`NoIdIsReissued`) and
`StoreKeepsPromise` (`ImplementsPicoStore`), for any documents, block size, batches, crashes, power losses and failing calls, a reader beside the
writer included, under one hypothesis: `NoTornReclaims`, no setup lets the append of a Reclaim line fail. Under a second one, `TierIsMet` (where power fails the
store is opened with the tier that flushes; the other tier promises nothing then), `OnlyTheSweep` (`OnlyTheSweepLosesData`), `ReadsTell` (`ReadsTellTheHistory`)
and `ReaderSees` (`ReaderSeesAPrefix`). The `jsonl_damage` run is what happens
without it (that failure poisons nothing); MCJsonl asserts both of the setups of the `jsonl` run. `IdsAreNew` says two things: no id is returned again
while a line that tells of it is left, whatever is lost; and where power does not fail, none is at all.

What replay computes is a fold over all lines, and nothing is known of one that has no lemma for one line more (`ReplayStep`). The invariant is therefore about
prefixes. `GoodLog(L)` says of every prefix of `L` that its replay succeeds in a state that is `Sound` (one live incarnation an address,
slices numbered by records) with no reserved id unspent, that what it confirms replays to the same state, and that the markers are numbered by commit; and of any two
prefixes that the longer one tells the history further. A torn line, a record line, a marker whose record lines are complete, a Mint and a Reclaim line each keep
a log good (`LogCutShort`, `LogPending`, `LogMarker`, `LogMint`, `LogReclaim`); a crash leaves a prefix. `Memory` relates the writer's memory to the replay of the whole log, by the phase of its
job: equal when nothing is under way or a reclamation is (`Settled`); behind by exactly the plan's lines sent so far during a commit (`Committing`), whose plan fits
the state (`Fits`) whatever its batch is, so that the marker that comes last is applicable. Half a line can stand at the end of the log only while the store is poisoned or down.
The refinement maps markers to the abstract log, and has one lemma for each abstract action and one for each action of the store.

What the sidecars hold is a second invariant, `SideInv`, and it too is about every prefix of the log, because a crash, a power loss and a reader each take one. `TrueLog` says that at
every prefix the slices of a document are the latest writes of that prefix's commits, from a base on if not from the first (`Descends`: a reclamation drops what lies before the newest
base and renumbers the rest), and that between a prefix and a longer one a generation only gains slices (`Follows`). `FilesFit` says that a sidecar which is there holds, record for
record and flushed where power may fail, the slices of every prefix that names it; `FilesThere` that those named by a prefix which recovery could find (from the flushed length on) are there, and their directory entries durable, unless
`swept`. `FilesFit` alone makes reads and readers tell the history: whatever prefix a reader replayed (`ReaderInv`: a confirmed one, which no step but a power loss takes back), the file under its name
can only have grown. `FilesThere` makes recovery succeed: a replaced generation is removed once no log that recovery could find names it. The steps that
do the work are the marker (`WrittenHolds`: the barrier has made every sidecar as long and as durable as its new slice), the copy of a tail, made under a name no prefix has given
(`NextUnnamed`, `TailHolds`), and the sweep, which either removes only what no such prefix names or sets `swept`. `SelectedIsValue` connects offsets, records and commits.

**SessionProofs**, of the session file. `AcknowledgedEntriesAlwaysSurvive` (`AcknowledgedEntriesSurvive`), `HistoryIsOnlyEverCutAtRefusals`
(`HistoryIsCutAtRefusalsOnly`) and `NothingIsEverUnwritten` (`NothingIsUnwritten`), for any managers, entries, beginnings, process deaths,
power losses and failing calls, text cut inside a character included, under one hypothesis: `AllSound`, every setup is `Sound`. These are the five assumptions of section 3, and
`session_file_damage` has a setup without each of the first four: no append is cut short and survived; the file system
names a file it flushes; nothing is opened while it is being created; and where a process may die inside a write, or a flush may
fail, there is one manager (one after another, any number of times). Any number of managers share the file otherwise. MCSessionFile
asserts that the setups of the run are sound, so the hypothesis is one that the checked behaviours satisfy.

A file is known by the list of the ids of all its lines that parse (`IdsOf`), of which an open reads a beginning, up to a line that is not UTF-8
(`RecordedBegins`, `LegibleFacts`): what stands in the list is read or hidden, and a beginning of a longer list is not shorter (`RecordedBeginsNext`). One lemma per operation says what it does to that list: it extends it (`Begins`), or, for a
replacement, keeps it. `Firm` are the entries in whole lines, `Sure` those that a power loss leaves; an entry that
was answered Ok is firm in the current file, and once its flush has come back it is sure in whatever file the path may name after a power loss
(`AckInv`). That is inductive only with what each manager may do next: which points hold a handle and that every handle and
request is about the current file (`PlaceInv`), what the file is while a manager is about to write or to replace it and that nobody
else is beyond opening then (`CurrentInv`), and that what a manager holds is in the file, or else will be
written into it whole (`MemoryInv`). The tree needs `HistoryInv`: the parent of an entry stands before it, or is one of those
that were refused, in the current file and in the one a power loss would go back to. `OneMoves`, `OneMovesAlone` and
`OneMovesInMemory` reduce a step to its manager; there is one lemma for each action.

**SessionProofs**, of the lease. `HoldersKeepThePath` and `LeaseIsExclusive`, for any number of runners, machines, attempts and
writers, under `Prompt`. Claims, record writes, removals and breaks all act by path, on whatever directory is there; `LeaseInv` says
why that is the directory they mean. A directory with a record is at the lease path or at its own tombstone; a
holder's is at the lease path; and the dead owner a contender is about to break still has its record, so if its directory is
not at the lease path any more, its tombstone is taken. `Prompt` is used for the last of these alone. `SessionHasOneKnownUser` proves
`OneKnownUser` under `Prompt` too: the record of a runner that was killed names its living writer or the runner is one of the `orphans`, nobody writes
that record any more (`WritersAreAttended`), and a contender that finds the runner gone has read exactly this record (`JudgesKnowTheDead`), so it
breaks no lease whose writer lives and was known.

**ObservationProofs.** `SubscriptionsKeepThePromise` is the refinement of Watch (`ImplementsWatch`), for any documents, subscribers, buffer size and
number of commits, under one hypothesis: `~MigratesWatched`, no document is migrated under a subscription (run `observation_migration` is what happens
without it). The steps of the line map to commits and retirements at the *adoption*; a publication is a stutter unless a buffer is full, where it is the collapse.
Reading the baseline is where a subscription is acquired, arming is where its acquirer learns of it, taking a frame delivers it, and whatever ends a slot ends
it in Watch; registration and waiting are stutters. The work is that the value owed first and next is the same on both sides: frames that lie in the slot below the baseline must be
those the baseline contains, and those above it all that came since. `ObservationInvariant` (`ObsInv`) says so: what the line is about to publish has
been adopted (`LineInv`); a slot that lives is registered and bound (`SlotInv`), to an incarnation that is in the authority until it is retired (`DocInv`); what a
slot buffers has been committed, and a retirement is the last of it (`PendingInv`); the baseline was a committed revision, and an armed slot buffers only what
is above it (`BaselineInv`).

`SubscriptionsConverge` is then proved about Watch rather than about the slots: a watch comes to the truth (`ComesToTruth`), so by the refinement
`WatchesConverge` holds of the code under the same hypothesis. This is the property that `observation_migration` violates without it.

**SeqFilterProofs.** The facts about filtering and counting that these cite: type, append, concatenation, all or none kept, what a cut
leaves. They need induction, and the library's induction theorems take a predicate, which the installed provers cannot instantiate; here
the induction is over sets of naturals and of sequences (`NatSetInduction`, `SeqSetInduction`), from the well-foundedness of the naturals.

Only model-checked: everything under fairness (`HandlesResolve`, `WaitersReturn`, `AbortSettles`,
`BatchesSettle`, `StaleLeaseIsTaken`, `ConsumersWake`, `PumpCatchesUp`, `SessionSettles`). The other way round, `OneLiveMutexPerKey` is proved
and in no run: `ImplementsFifoLocks` and `OneGuardPerKey` are what it is for.

## 5. What is left out

Inside the modelled parts: `set_messages`, the selective queue drains and restores
of the facade; message content, tool declarations and progress events of the loop;
results' content and the terminate fold of batches; edit's read and diff, and
directories created for a write; queries, copies and the identity record of the
store; wakes and `sendUserMessage`, the follow-up lane, prompts and control operations deferred to the settlement, compaction and its gate,
the merging of requests without details, a session dropped under its pump, and `wait_for_idle` with its count of pending turns; commit and close
observers, the context of frames, and a subscription acquired after the close; permissions, timestamps
and I/O errors of the lease; branched sessions and forks into a new file, labels, what an entry holds, and two managers that replace one
session file at the same time (they share the temporary sibling); and reused process ids, which start identities tell apart. A writer dropped in the middle of a blocking operation releases its lock while the operation is
still under way: the files it touched are exempt from `WritesDoNotMix`, and the
hazard is recorded. KeyedLocks takes
the first poll of a mutex to claim a place: tokio defers it when the task's cooperative budget is
spent, which `keyed_lock.rs` (the first caveat in `enqueue`) finds unreachable from write and edit.

Whole parts: everything in the last rows of the table of section 1, because it is sequential policy, or input and
output, or because its turn has not come (next section).

## 6. Plan

In order of how much a mistake would cost:

1. SessionFile: branched sessions (`manager/branched_session.rs`) and forks, which move a manager to a new file, and compaction entries.
2. **Broker** (`cyrup-intercom/src/broker`): asks, replies, cancellation, mailbox
   expiry and reconnects; an ask has at most one outcome, and receipts agree with it.
3. **Delivery** (`cyrup-ext-subagents/src/background/delivery`): custody and receipts of a background result
   through restarts.
4. InjectionPump: `wait_for_idle` with the count of pending turns, wakes, and the settlement's deferred prompts.
5. An instance of ToolBatch for a writer dropped in the middle of a blocking operation.
6. Bounded checks of pure functions: `cyrup-pico-doc`'s replay planner and the compaction cut of
   `cyrup-session` against reference definitions.
