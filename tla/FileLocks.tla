------------------------------ MODULE FileLocks ------------------------------
(***************************************************************************)
(* One mutation of a file per task: the body of cyrup-tools' write tool    *)
(* (tools/write.rs, and what edit shares with it) under FileMutationLocks  *)
(* (lock.rs), which is KeyedLocks with                                     *)
(*   - a global FIFO, MUTATION_REGISTRATION, held while a path is resolved *)
(*     to its key and the place in the key's line is taken, and            *)
(*   - the realpath of the file as its key -- or the path as it was        *)
(*     spelled, while the file does not exist.                             *)
(* File operations run on tokio's blocking pool: one that was submitted    *)
(* lands even when the task that waits for it is dropped.                  *)
(*                                                                         *)
(* The keys of KeyedLocks are paths here.  Parent directories exist, and a *)
(* payload is its writer's name.                                           *)
(***************************************************************************)
EXTENDS KeyedLocks, FiniteSets

CONSTANTS
  Files,      \* the files mutated
  FileOf,     \* the file a path leads to
  RealPath,   \* the path realpath(3) gives for a file that exists
  Starts      \* the choices of a path for every task and of the files that exist

ASSUME PathsAssumption ==
  /\ FileOf \in [Keys -> Files]
  /\ RealPath \in [Files -> Keys]
  /\ \A f \in Files : FileOf[RealPath[f]] = f
ASSUME StartsAssumption ==
  \A start \in Starts : start.path \in [Tasks -> Keys] /\ start.exists \subseteq Files

VARIABLES
  path,          \* per task: the path it was asked to write
  exists,        \* the files that exist
  content,       \* per file: whose bytes it holds
  registration,  \* MUTATION_REGISTRATION: its line, the head holds it
  body,          \* per task: where its write::execute is
  resolved,      \* per task: the key its path resolved to
  guessed,       \* history: the tasks whose file was missing when they resolved its path
  job,           \* per task: the blocking operation it has submitted (none, open, write)
  outcome        \* per task: how its body ended (none, ok, error, dropped)

fileVars == <<path, exists, content, registration, body, resolved, guessed, job, outcome>>
bodyVars == <<lockVars, fileVars>>

-----------------------------------------------------------------------------

\* queued:    in guard(), waiting for MUTATION_REGISTRATION or for realpath.
\* resolved:  the key is known, the place not taken.
\* waiting:   outside the registration, in the key's line.
\* locked:    the guard is held.
\* writing:   in write_in_place, a blocking operation submitted.
\* written:   write_in_place has returned.
\* unwinding: the guard or the place is being dropped.
BodyPoints == {"off", "queued", "resolved", "waiting", "locked", "writing", "written",
               "unwinding", "over"}

File(t) == FileOf[path[t]]

FileInit ==
  /\ \E start \in Starts : path = start.path /\ exists = start.exists
  /\ content = [f \in Files |-> {}]
  /\ registration = <<>>
  /\ body = [t \in Tasks |-> "off"]
  /\ resolved = path
  /\ guessed = {}
  /\ job = [t \in Tasks |-> "none"]
  /\ outcome = [t \in Tasks |-> "none"]

Goto(t, point) == body' = [body EXCEPT ![t] = point]

\* guard(): the first await of a mutation takes the last place in the registration line.
EnterGuard(t) ==
  /\ body[t] = "off"
  /\ registration' = Append(registration, t)
  /\ Goto(t, "queued")
  /\ UNCHANGED <<lockVars, path, exists, content, resolved, guessed, job, outcome>>

\* Plausible bug: the path is taken as it was spelled.
ResolveLexically(t) ==
  /\ body[t] = "queued"
  /\ Head(registration) = t
  /\ resolved' = [resolved EXCEPT ![t] = path[t]]
  /\ guessed' = IF File(t) \in exists THEN guessed ELSE guessed \cup {t}
  /\ Goto(t, "resolved")
  /\ UNCHANGED <<lockVars, path, exists, content, registration, job, outcome>>

\* key(): realpath on the blocking pool, under the registration.  A file that is missing
\* is keyed by its spelling.
Resolve(t) ==
  /\ body[t] = "queued"
  /\ Head(registration) = t
  /\ resolved' = [resolved EXCEPT ![t] =
                    IF File(t) \in exists THEN RealPath[File(t)] ELSE path[t]]
  /\ guessed' = IF File(t) \in exists THEN guessed ELSE guessed \cup {t}
  /\ Goto(t, "resolved")
  /\ UNCHANGED <<lockVars, path, exists, content, registration, job, outcome>>

\* Plausible bug: an early return that keeps the registration.
ResolveFailsHolding(t) ==
  /\ body[t] = "queued"
  /\ Head(registration) = t
  /\ outcome' = [outcome EXCEPT ![t] = "error"]
  /\ Goto(t, "over")
  /\ UNCHANGED <<lockVars, path, exists, content, registration, resolved, guessed, job>>

\* key() fails for any other reason: the error leaves guard(), the chain advances.
ResolveFails(t) ==
  /\ body[t] = "queued"
  /\ Head(registration) = t
  /\ registration' = Tail(registration)
  /\ outcome' = [outcome EXCEPT ![t] = "error"]
  /\ Goto(t, "over")
  /\ UNCHANGED <<lockVars, path, exists, content, resolved, guessed, job>>

\* enqueue(): find or mint the key's mutex ...
Link(t) ==
  /\ body[t] = "resolved"
  /\ Register(t, resolved[t])
  /\ UNCHANGED fileVars

\* ... take the place, and only then let the next registration in.
Place(t) ==
  /\ body[t] = "resolved"
  /\ Claim(t)
  /\ registration' = Tail(registration)
  /\ Goto(t, "waiting")
  /\ UNCHANGED <<path, exists, content, resolved, guessed, job, outcome>>

Granted(t) ==
  /\ body[t] = "waiting"
  /\ Grant(t)
  /\ Goto(t, "locked")
  /\ UNCHANGED <<path, exists, content, registration, resolved, guessed, job, outcome>>

\* wait() sees the token: "Operation aborted", the place is forfeited.
Refused(t) ==
  /\ body[t] = "waiting"
  /\ t \in cancelled
  /\ Forfeit(t)
  /\ outcome' = [outcome EXCEPT ![t] = "error"]
  /\ Goto(t, "unwinding")
  /\ UNCHANGED <<path, exists, content, registration, resolved, guessed, job>>

\* The token is looked at once more under the guard, then write_in_place begins.
BeginWrite(t) ==
  /\ body[t] = "locked"
  /\ t \notin cancelled
  /\ job' = [job EXCEPT ![t] = "open"]
  /\ Goto(t, "writing")
  /\ UNCHANGED <<lockVars, path, exists, content, registration, resolved, guessed, outcome>>

AbortUnwritten(t) ==
  /\ body[t] = "locked"
  /\ t \in cancelled
  /\ Unlock(t)
  /\ outcome' = [outcome EXCEPT ![t] = "error"]
  /\ Goto(t, "unwinding")
  /\ UNCHANGED <<path, exists, content, registration, resolved, guessed, job>>

\* open(2) lands: the file exists and is empty.  Its task submits the write.
OpenLands(t) ==
  /\ job[t] = "open"
  /\ exists' = exists \cup {File(t)}
  /\ content' = [content EXCEPT ![File(t)] = {}]
  /\ job' = [job EXCEPT ![t] = IF body[t] = "writing" THEN "write" ELSE "none"]
  /\ UNCHANGED <<lockVars, path, registration, body, resolved, guessed, outcome>>

\* write(2) lands at the writer's own offset: bytes of other writers stay behind it.
WriteLands(t) ==
  /\ job[t] = "write"
  /\ content' = [content EXCEPT ![File(t)] = @ \cup {t}]
  /\ job' = [job EXCEPT ![t] = "none"]
  /\ body' = [body EXCEPT ![t] = IF @ = "writing" THEN "written" ELSE @]
  /\ UNCHANGED <<lockVars, path, exists, registration, resolved, guessed, outcome>>

\* The operation fails; its task, if it is still there, returns the error.
JobFails(t) ==
  /\ job[t] # "none"
  /\ job' = [job EXCEPT ![t] = "none"]
  /\ \/ /\ body[t] = "writing"
        /\ Unlock(t)
        /\ outcome' = [outcome EXCEPT ![t] = "error"]
        /\ Goto(t, "unwinding")
     \/ /\ body[t] # "writing"
        /\ UNCHANGED <<lockVars, outcome, body>>
  /\ UNCHANGED <<path, exists, content, registration, resolved, guessed>>

\* The token is looked at after the write too: only the result is aborted.
FinishWrite(t) ==
  /\ body[t] = "written"
  /\ Unlock(t)
  /\ outcome' = [outcome EXCEPT ![t] = IF t \in cancelled THEN "error" ELSE "ok"]
  /\ Goto(t, "unwinding")
  /\ UNCHANGED <<path, exists, content, registration, resolved, guessed, job>>

\* The rest of the drop of a guard or of a forfeited place.
Unreference(t) ==
  /\ body[t] = "unwinding"
  /\ DropHandle(t)
  /\ UNCHANGED fileVars

Return(t) ==
  /\ body[t] = "unwinding"
  /\ Evict(t)
  /\ Goto(t, "over")
  /\ UNCHANGED <<path, exists, content, registration, resolved, guessed, job, outcome>>

\* The task is dropped where it is suspended.  Its locals are released; a blocking
\* operation it submitted is not recalled.
DropBody(t) ==
  /\ outcome' = [outcome EXCEPT ![t] = "dropped"]
  /\ \/ /\ body[t] \in {"queued", "resolved"}
        /\ at[t] = "idle"
        /\ \E i \in 1..Len(registration) :
             registration[i] = t /\ registration' = RemoveAt(registration, i)
        /\ Goto(t, "over")
        /\ UNCHANGED lockVars
     \/ /\ \/ body[t] = "waiting" /\ Forfeit(t)
           \/ body[t] \in {"writing", "written"} /\ Unlock(t)
        /\ Goto(t, "unwinding")
        /\ UNCHANGED registration
  /\ UNCHANGED <<path, exists, content, resolved, guessed, job>>

BodyStep(t) ==
  \/ Resolve(t) \/ ResolveFails(t) \/ Link(t) \/ Place(t) \/ Granted(t) \/ Refused(t)
  \/ BeginWrite(t) \/ AbortUnwritten(t) \/ FinishWrite(t) \/ Unreference(t) \/ Return(t)

JobStep(t) == OpenLands(t) \/ WriteLands(t) \/ JobFails(t)

-----------------------------------------------------------------------------

\* Two tasks took different keys for one file, because one of them did not find it: it came
\* into being between their registrations, under another path than realpath gives for it.
Rekeyed(t, u) == resolved[t] # resolved[u] /\ {t, u} \cap guessed # {}

\* "`write`/`edit` serialize per canonical path so concurrent mutations of the same file
\* cannot interleave/corrupt": a file never holds the bytes of two writers, but of a pair that
\* the file's creation gave different keys.  (A writer whose task was dropped with an operation
\* in flight is left out: its guard is gone before the operation lands.)
WritesDoNotMix ==
  \A f \in Files :
    (\A t \in Tasks : File(t) = f => outcome[t] # "dropped") =>
      \A t, u \in content[f] : t = u \/ Rekeyed(t, u)

=============================================================================
