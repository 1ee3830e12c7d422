---------------------------- MODULE SessionLease ----------------------------
(***************************************************************************)
(* The revival lease of one session file:                                  *)
(* cyrup-ext-subagents/src/background/session_lease, with the runner that  *)
(* takes it (runner_main/entry.rs) and the writers it records              *)
(* (runner_main/executor.rs).                                              *)
(*                                                                         *)
(* A runner is a process that revives a session.  It claims the lease by   *)
(* renaming a directory of its own onto the lease path; the directory      *)
(* holds owner.json, which names the runner and what it knows of its       *)
(* writer, the child process that writes the session file.  A contender    *)
(* that finds the lease taken reads the record, asks the process table     *)
(* whether owner and writer are gone, and if they are moves the directory  *)
(* to a tombstone named after the owner it read.  A runner may be killed   *)
(* between any two steps; its writer survives it.                          *)
(*                                                                         *)
(* Directories and tokens are named by the runner that made them.  Left    *)
(* out: permissions, timestamps, I/O errors other than a lost rename, and  *)
(* reused process ids (start identities tell them apart).                  *)
(***************************************************************************)
EXTENDS Integers, Sequences

CONSTANTS
  Runners,         \* revivals of the session file; also their tokens and directories
  Placements,      \* the sets of runners that may be on another machine (a shared file system)
  None,
  AcquireAttempts, \* ACQUIRE_ATTEMPTS
  MaxSpawns,       \* per runner: the writers it spawns (a bound)
  MaxLag,          \* updates the lease task is behind when a step is dispatched (a bound)
  Prompt           \* assumed: no runner is gone while a contender judges an outdated record of it

ASSUME LeaseAssumption ==
  /\ None \notin Runners
  /\ Placements \subseteq SUBSET Runners
  /\ AcquireAttempts \in Nat \ {0}
  /\ MaxSpawns \in [Runners -> Nat] /\ MaxLag \in Nat
  /\ Prompt \in BOOLEAN

VARIABLES
  foreign, \* the runners on the other machine; never changes
  lease,   \* the directory at the lease path
  record,  \* per directory: its owner.json
  tomb,    \* per token: the directory at its tombstone
  phase,   \* per runner: where it is
  seen,    \* per runner: the record it judges
  tries,   \* per runner: the attempt it is in
  step,    \* per runner: how far the dispatch of a writer has come
  spawned, \* per runner: the writers it has spawned, the last of which may be alive
  alive,   \* the runners whose last writer is alive
  orphans, \* history: runners killed while their record missed their living writer
  queue,   \* per runner: the writer updates sent to its lease task
  writing  \* per runner: the update the task has checked the token for

pathVars   == <<foreign, lease, record, tomb>>
claimVars  == <<phase, seen, tries>>
writerVars == <<step, spawned, alive, orphans>>
taskVars   == <<queue, writing>>
leaseVars  == <<pathVars, claimVars, writerVars, taskVars>>

-----------------------------------------------------------------------------

Contending == {"claim", "lost", "read", "judge", "break"}
Phases     == Contending \cup {"run", "unlink", "rmdir", "exit", "refused", "gone"}

\* What a record says of the writer: none, one about to be spawned, or the n-th.
NoWriter     == 0
Spawning     == -1
WriterStates == {Spawning} \cup Nat

Records == [token : Runners, writer : WriterStates]

ASSUME NoneAssumption == None \notin Records

LeaseInit ==
  /\ foreign \in Placements
  /\ lease = None
  /\ record = [d \in Runners |-> None]
  /\ tomb = [t \in Runners |-> None]
  /\ phase = [p \in Runners |-> "claim"]
  /\ seen = [p \in Runners |-> None]
  /\ tries = [p \in Runners |-> 1]
  /\ step = [p \in Runners |-> "idle"]
  /\ spawned = [p \in Runners |-> 0]
  /\ alive = {} /\ orphans = {}
  /\ queue = [p \in Runners |-> <<>>]
  /\ writing = [p \in Runners |-> None]

\* A rename may replace a directory that is absent or empty.
Vacant(d) == d = None \/ record[d] = None

\* What reading owner.json at the lease path gives.
Incumbent == IF lease = None THEN None ELSE record[lease]

Gone(p) == phase[p] \in {"refused", "gone"}

Move(p, to) == phase' = [phase EXCEPT ![p] = to]

-----------------------------------------------------------------------------
(* Acquiring. *)

\* The rename of the candidate directory onto the lease path.
Claim(p) ==
  /\ phase[p] = "claim"
  /\ IF Vacant(lease)
     THEN /\ lease' = p
          /\ record' = [record EXCEPT ![p] = [token |-> p, writer |-> NoWriter]]
          /\ Move(p, "run")
     ELSE UNCHANGED <<lease, record>> /\ Move(p, "lost")
  /\ UNCHANGED <<foreign, tomb, seen, tries, writerVars, taskVars>>

\* A lost rename is contention if the path exists, and a fault if it is free by now.
Lost(p) ==
  /\ phase[p] = "lost"
  /\ Move(p, IF lease = None THEN "refused" ELSE "read")
  /\ UNCHANGED <<pathVars, seen, tries, writerVars, taskVars>>

\* A record that cannot be read refuses the revival.
ReadOwner(p) ==
  /\ phase[p] = "read"
  /\ seen' = [seen EXCEPT ![p] = Incumbent]
  /\ Move(p, IF Incumbent = None THEN "refused" ELSE "judge")
  /\ UNCHANGED <<pathVars, tries, writerVars, taskVars>>

WriterGone(p, w) == p \notin alive \/ w # spawned[p]

\* Plausible bug: a dead owner is enough.
StaleByOwner(p, r) ==
  /\ p \in foreign <=> r.token \in foreign
  /\ Gone(r.token)

\* The ladder: the owner's machine, the owner's process, the writer.
DemonstrablyStale(p, r) ==
  /\ p \in foreign <=> r.token \in foreign
  /\ Gone(r.token)
  /\ \/ r.writer = NoWriter
     \/ r.writer > 0 /\ WriterGone(r.token, r.writer)

Judge(p) ==
  /\ phase[p] = "judge"
  /\ Move(p, IF DemonstrablyStale(p, seen[p]) THEN "break" ELSE "refused")
  /\ UNCHANGED <<pathVars, seen, tries, writerVars, taskVars>>

\* The directory at the lease path moves to a tombstone.  If it is gone or the
\* tombstone is taken, another contender was first.
MoveAside(grave) ==
  IF lease # None /\ Vacant(tomb[grave])
  THEN tomb' = [tomb EXCEPT ![grave] = lease] /\ lease' = None
  ELSE UNCHANGED <<tomb, lease>>

NextAttempt(p) ==
  /\ tries' = [tries EXCEPT ![p] = @ + 1]
  /\ Move(p, IF tries[p] < AcquireAttempts THEN "claim" ELSE "refused")

\* Plausible bug: the tombstone is named after the contender.
BreakToOwnTombstone(p) ==
  /\ phase[p] = "break"
  /\ MoveAside(p)
  /\ NextAttempt(p)
  /\ UNCHANGED <<foreign, record, seen, writerVars, taskVars>>

\* Plausible bug: the contender goes round again and leaves the directory.
BreakNothing(p) ==
  /\ phase[p] = "break"
  /\ NextAttempt(p)
  /\ UNCHANGED <<pathVars, seen, writerVars, taskVars>>

\* The tombstone is the one of the owner that was read.
Break(p) ==
  /\ phase[p] = "break"
  /\ MoveAside(seen[p].token)
  /\ NextAttempt(p)
  /\ UNCHANGED <<foreign, record, seen, writerVars, taskVars>>

Acquire(p) == Claim(p) \/ Lost(p) \/ ReadOwner(p) \/ Judge(p) \/ Break(p)

-----------------------------------------------------------------------------
(* Running: the writers the runner dispatches, and the task that records them. *)

Send(p, update) == queue' = [queue EXCEPT ![p] = Append(@, update)]

\* A step is dispatched; its update is sent before anything is spawned.
Dispatch(p) ==
  /\ phase[p] = "run" /\ step[p] = "idle"
  /\ spawned[p] < MaxSpawns[p] /\ Len(queue[p]) <= MaxLag
  /\ step' = [step EXCEPT ![p] = "dispatched"]
  /\ Send(p, Spawning)
  /\ UNCHANGED <<pathVars, claimVars, spawned, alive, orphans, writing>>

Spawn(p) ==
  /\ phase[p] = "run" /\ step[p] = "dispatched"
  /\ spawned[p] < MaxSpawns[p]
  /\ step' = [step EXCEPT ![p] = "forked"]
  /\ spawned' = [spawned EXCEPT ![p] = @ + 1]
  /\ alive' = alive \cup {p}
  /\ UNCHANGED <<pathVars, claimVars, orphans, taskVars>>

\* The last candidate of the ladder cannot be spawned: nothing is reported.
SpawnFails(p) ==
  /\ phase[p] = "run" /\ step[p] = "dispatched"
  /\ step' = [step EXCEPT ![p] = "idle"]
  /\ UNCHANGED <<pathVars, claimVars, spawned, alive, orphans, taskVars>>

Launched(p) ==
  /\ phase[p] = "run" /\ step[p] = "forked"
  /\ step' = [step EXCEPT ![p] = "launched"]
  /\ Send(p, spawned[p])
  /\ UNCHANGED <<pathVars, claimVars, spawned, alive, orphans, writing>>

\* The writer's end is observed.  The ladder may go on to its next candidate,
\* which is spawned without an update of its own.
Closed(p) ==
  /\ phase[p] = "run" /\ step[p] = "launched" /\ p \notin alive
  /\ \E next \in {"idle", "dispatched"} : step' = [step EXCEPT ![p] = next]
  /\ Send(p, NoWriter)
  /\ UNCHANGED <<pathVars, claimVars, spawned, alive, orphans, writing>>

WriterExits(p) ==
  /\ alive' = alive \ {p}
  /\ p \in alive
  /\ UNCHANGED <<pathVars, claimVars, step, spawned, orphans, taskVars>>

OwnsThePath(p) == Incumbent # None /\ Incumbent.token = p

\* The lease task takes an update and checks the token; a mismatch drops it.
TakeUpdate(p) ==
  /\ phase[p] = "run" /\ queue[p] # <<>> /\ writing[p] = None
  /\ queue' = [queue EXCEPT ![p] = Tail(@)]
  /\ writing' = [writing EXCEPT ![p] = IF OwnsThePath(p) THEN Head(queue[p]) ELSE None]
  /\ UNCHANGED <<pathVars, claimVars, writerVars>>

\* The write goes to whatever directory is at the lease path by now.
WriteUpdate(p) ==
  /\ phase[p] = "run" /\ writing[p] # None
  /\ record' = IF lease = None THEN record
               ELSE [record EXCEPT ![lease] = [token |-> p, writer |-> writing[p]]]
  /\ writing' = [writing EXCEPT ![p] = None]
  /\ UNCHANGED <<foreign, lease, tomb, claimVars, writerVars, queue>>

-----------------------------------------------------------------------------
(* Releasing. *)

\* run_inner has returned and the lease task has drained: the token is checked.
Release(p) ==
  /\ phase[p] = "run" /\ step[p] = "idle"
  /\ queue[p] = <<>> /\ writing[p] = None
  /\ Move(p, IF OwnsThePath(p) THEN "unlink" ELSE "exit")
  /\ UNCHANGED <<pathVars, seen, tries, writerVars, taskVars>>

\* remove_dir_all empties the directory at the lease path ...
Unlink(p) ==
  /\ phase[p] = "unlink"
  /\ record' = IF lease = None THEN record ELSE [record EXCEPT ![lease] = None]
  /\ Move(p, "rmdir")
  /\ UNCHANGED <<foreign, lease, tomb, seen, tries, writerVars, taskVars>>

\* ... and removes it by name, unless a successor's is there.
Rmdir(p) ==
  /\ phase[p] = "rmdir"
  /\ lease' = IF Vacant(lease) THEN None ELSE lease
  /\ Move(p, "exit")
  /\ UNCHANGED <<foreign, record, tomb, seen, tries, writerVars, taskVars>>

\* A contender has read p's record and not looked for p's process yet, and the
\* record has been rewritten or removed since.
JudgedByOldRecord(p) ==
  \E q \in Runners : phase[q] = "judge" /\ seen[q].token = p /\ seen[q] # record[p]

\* The process ends.
Exit(p) ==
  /\ phase[p] = "exit"
  /\ Prompt => ~JudgedByOldRecord(p)
  /\ Move(p, "gone")
  /\ UNCHANGED <<pathVars, seen, tries, writerVars, taskVars>>

\* What is on disk tells a contender of p's writer.
Covered(p) == record[p] # None /\ record[p].writer \in {Spawning, spawned[p]}

\* The runner is killed; its writer, its updates and its directory are left as they are.
KillRunner(p) ==
  /\ phase[p] \notin {"refused", "gone"}
  /\ Prompt => ~JudgedByOldRecord(p)
  /\ Move(p, "gone")
  /\ orphans' = IF p \in alive /\ ~Covered(p) THEN orphans \cup {p} ELSE orphans
  /\ queue' = [queue EXCEPT ![p] = <<>>]
  /\ writing' = [writing EXCEPT ![p] = None]
  /\ UNCHANGED <<pathVars, seen, tries, step, spawned, alive>>

-----------------------------------------------------------------------------

Work(p)  == Dispatch(p) \/ Spawn(p) \/ SpawnFails(p) \/ Launched(p) \/ Closed(p)
Task(p)  == TakeUpdate(p) \/ WriteUpdate(p)
Leave(p) == Release(p) \/ Unlink(p) \/ Rmdir(p) \/ Exit(p)

LeaseNext ==
  \E p \in Runners :
    Acquire(p) \/ Work(p) \/ WriterExits(p) \/ Task(p) \/ Leave(p) \/ KillRunner(p)

LeaseSpec == LeaseInit /\ [][LeaseNext]_leaseVars

\* A revival that has begun goes on until it holds the lease or is refused.
FairSpec == LeaseSpec /\ \A p \in Runners : WF_leaseVars(Acquire(p))

-----------------------------------------------------------------------------
(* Properties. *)

\* Every variable has its type, and a contender judges only a record it could
\* read (read_lease_owner_at in acquire_session_lease).
LeaseTypeOK ==
  /\ foreign \subseteq Runners
  /\ lease \in Runners \cup {None}
  /\ record \in [Runners -> Records \cup {None}]
  /\ tomb \in [Runners -> Runners \cup {None}]
  /\ phase \in [Runners -> Phases]
  /\ seen \in [Runners -> Records \cup {None}]
  /\ tries \in [Runners -> 1..AcquireAttempts + 1]
  /\ step \in [Runners -> {"idle", "dispatched", "forked", "launched"}]
  /\ spawned \in [Runners -> Nat]
  /\ alive \subseteq Runners /\ orphans \subseteq Runners
  /\ queue \in [Runners -> Seq(WriterStates)]
  /\ writing \in [Runners -> WriterStates \cup {None}]
  /\ \A p \in Runners : phase[p] \in {"judge", "break"} => seen[p] # None

Holds(p) == phase[p] \in {"run", "unlink"}

\* No two runners hold the lease of one session file at once, whoever is
\* killed between which steps of claiming, breaking and releasing it.
OneHolder == \A p, q \in Runners : Holds(p) /\ Holds(q) => p = q

\* The lease path holds the directory and the record of whoever holds the
\* lease, so no contender's rename and no other owner's update or release has
\* touched them (update_writer, release and the tombstone rename all go by path).
HoldersAreRecorded == \A p \in Runners : Holds(p) => lease = p /\ OwnsThePath(p)

Uses(p) == phase[p] = "run" \/ p \in alive

\* A session file is never in use by two revivals at once, the writers that killed runners have
\* left behind included.  The record is to see to it: a lease is "spawning" from before a writer
\* exists until its process can be probed, and is then never stale (executor.rs: "so a runner
\* killed inside that window keeps its lease").
OneUser == \A p, q \in Runners : Uses(p) /\ Uses(q) => p = q

\* What remains of that with the record behind its writers: updates reach it through a queue, and a
\* ladder's later candidates are spawned with the record at none.  No two revivals use the file
\* at once but for the writers that such a lag has orphaned, though a kill may come at any step,
\* every other writer outlive its runner, and contenders judge, break and retake the lease by path.
OneKnownUser == \A p, q \in Runners \ orphans : Uses(p) /\ Uses(q) => p = q

\* A lease whose owner is demonstrably stale does not outlast a contender that
\* comes for it, unless the contender is killed.
StaleLeaseIsTaken ==
  \A p, x \in Runners :
    (phase[p] = "claim" /\ tries[p] = 1 /\ lease = x /\ record[x] # None
       /\ DemonstrablyStale(p, record[x]))
      ~> (lease # x \/ phase[p] = "gone")
=============================================================================
