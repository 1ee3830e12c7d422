----------------------------- MODULE KeyedLocks -----------------------------
(***************************************************************************)
(* The registry of per-key async mutexes: cyrup-core/src/keyed_lock.rs.    *)
(*                                                                         *)
(* The map holds one Arc<Mutex<()>> per key in use.  A task finds or mints *)
(* the mutex, takes its place in the mutex's line with one poll, waits for *)
(* the place to come up or gives it up, and on the way out releases the    *)
(* mutex, drops its Arc and evicts the map's entry if nobody else has one. *)
(* Each of these happens under a different lock of the map or the mutex,   *)
(* so each is an action and other tasks run between any two of them.       *)
(***************************************************************************)
EXTENDS Naturals, Sequences, SequencesExt

CONSTANTS
  Tasks,    \* those who lock
  Keys,     \* what is locked
  Mutexes,  \* the allocations a mutex may have; a freed one may be reused
  NoMutex   \* no entry, no reference

ASSUME NoMutexAssumption == NoMutex \notin Mutexes

VARIABLES
  map,       \* KeyedLockMap: the mutex registered for each key
  line,      \* per mutex: its FIFO; the head has been assigned the permit
  at,        \* per task: its control point
  key,       \* per task: the key of its acquisition
  handle,    \* per task: the Arc it holds in `lock`
  cancelled  \* the tasks whose token has fired

lockVars == <<map, line, at, key, handle, cancelled>>

-----------------------------------------------------------------------------

\* registered: enqueue() has the mutex and has not polled the acquire future yet.
\* claimed:    a KeyedAcquire, whose place may have come up already.
\* holding:    a KeyedGuard.
\* left:       the permit or the place is given up, the Arc is not.
\* evicting:   the Arc is dropped, the eviction check is still to come.
Referencing == {"registered", "claimed", "holding", "left"}
Points      == {"idle", "evicting"} \cup Referencing

LockInit ==
  /\ map = [k \in Keys |-> NoMutex]
  /\ line = [m \in Mutexes |-> <<>>]
  /\ at = [t \in Tasks |-> "idle"]
  /\ key \in [Tasks -> Keys]
  /\ handle = [t \in Tasks |-> NoMutex]
  /\ cancelled = {}

\* A mutex nobody references: neither the map nor a task.
Unallocated == {m \in Mutexes : /\ \A k \in Keys : map[k] # m
                                /\ \A t \in Tasks : handle[t] # m}

\* Plausible bug: the map is searched first and the entry inserted later.
RegisterAnew(t, k) ==
  /\ at[t] = "idle"
  /\ \E m \in Unallocated :
       /\ map' = [map EXCEPT ![k] = m]
       /\ line' = [line EXCEPT ![m] = <<>>]
       /\ handle' = [handle EXCEPT ![t] = m]
  /\ at' = [at EXCEPT ![t] = "registered"]
  /\ key' = [key EXCEPT ![t] = k]
  /\ UNCHANGED cancelled

\* enqueue, first half: get_or_insert under the map's shard lock.
Register(t, k) ==
  /\ at[t] = "idle"
  /\ \/ /\ map[k] # NoMutex
        /\ handle' = [handle EXCEPT ![t] = map[k]]
        /\ UNCHANGED <<map, line>>
     \/ /\ map[k] = NoMutex
        /\ \E m \in Unallocated :
             /\ map' = [map EXCEPT ![k] = m]
             /\ line' = [line EXCEPT ![m] = <<>>]
             /\ handle' = [handle EXCEPT ![t] = m]
  /\ at' = [at EXCEPT ![t] = "registered"]
  /\ key' = [key EXCEPT ![t] = k]
  /\ UNCHANGED cancelled

\* enqueue, second half: exactly one poll takes the permit or the last place.
Claim(t) ==
  /\ at[t] = "registered"
  /\ line' = [line EXCEPT ![handle[t]] = Append(@, t)]
  /\ at' = [at EXCEPT ![t] = "claimed"]
  /\ UNCHANGED <<map, key, handle, cancelled>>

\* A token may fire at any time and stays fired; tasks may share one.
Cancel(tasks) ==
  /\ cancelled' = cancelled \cup tasks
  /\ UNCHANGED <<map, line, at, key, handle>>

\* Plausible bug: whoever polls the mutex first gets it.
GrantUnordered(t) ==
  /\ at[t] = "claimed"
  /\ t \notin cancelled
  /\ \A u \in Tasks : at[u] = "holding" => handle[u] # handle[t]
  /\ at' = [at EXCEPT ![t] = "holding"]
  /\ UNCHANGED <<map, line, key, handle, cancelled>>

\* wait(): a fired token is looked at first, then the place must have come up.  The Arc
\* moves into the guard, so the PendingEntry that drops here finds it and evicts nothing.
Grant(t) ==
  /\ at[t] = "claimed"
  /\ t \notin cancelled
  /\ Head(line[handle[t]]) = t
  /\ at' = [at EXCEPT ![t] = "holding"]
  /\ UNCHANGED <<map, line, key, handle, cancelled>>

\* The permit goes back and is assigned to the next place in line; a place that has not
\* come up is taken out of the line.
LeaveLine(t) ==
  /\ \E i \in 1..Len(line[handle[t]]) :
       /\ line[handle[t]][i] = t
       /\ line' = [line EXCEPT ![handle[t]] = RemoveAt(@, i)]
  /\ at' = [at EXCEPT ![t] = "left"]
  /\ UNCHANGED <<map, key, handle, cancelled>>

\* A KeyedAcquire is dropped: by wait() on cancellation, or with the future around it.
Forfeit(t) == at[t] = "claimed" /\ LeaveLine(t)

\* KeyedGuard::drop, first statement.
Unlock(t) == at[t] = "holding" /\ LeaveLine(t)

\* lock.take(), in both drops.
DropHandle(t) ==
  /\ at[t] = "left"
  /\ handle' = [handle EXCEPT ![t] = NoMutex]
  /\ at' = [at EXCEPT ![t] = "evicting"]
  /\ UNCHANGED <<map, line, key, cancelled>>

\* Plausible bug: the Arc is dropped after the check, which therefore always finds it.
EvictCountingItself(t) ==
  /\ at[t] = "evicting"
  /\ at' = [at EXCEPT ![t] = "idle"]
  /\ UNCHANGED <<map, line, key, handle, cancelled>>

\* evict_if_unreferenced under the shard lock: remove_if(strong_count == 1).
Evict(t) ==
  /\ at[t] = "evicting"
  /\ map' = IF \E u \in Tasks : handle[u] = map[key[t]]
            THEN map ELSE [map EXCEPT ![key[t]] = NoMutex]
  /\ at' = [at EXCEPT ![t] = "idle"]
  /\ UNCHANGED <<line, key, handle, cancelled>>

LockNext ==
  \/ \E tasks \in SUBSET Tasks : Cancel(tasks)
  \/ \E t \in Tasks :
       \/ \E k \in Keys : Register(t, k)
       \/ Claim(t) \/ Grant(t) \/ Forfeit(t) \/ Unlock(t) \/ DropHandle(t) \/ Evict(t)

LockSpec == LockInit /\ [][LockNext]_lockVars

-----------------------------------------------------------------------------

LockTypeOK ==
  /\ map \in [Keys -> Mutexes \cup {NoMutex}]
  /\ line \in [Mutexes -> Seq(Tasks)]
  /\ at \in [Tasks -> Points]
  /\ key \in [Tasks -> Keys]
  /\ handle \in [Tasks -> Mutexes \cup {NoMutex}]
  /\ cancelled \subseteq Tasks

\* The module's safety argument: for any live key there is exactly one mutex.  Whoever
\* has a reference for a key has it to the mutex the map holds for that key, however
\* evictions, mintings and reused allocations interleave.
OneLiveMutexPerKey ==
  \A t \in Tasks : at[t] \in Referencing => /\ handle[t] # NoMutex
                                            /\ map[key[t]] = handle[t]

\* What the registry is for: two guards for one key never coexist.
OneGuardPerKey ==
  \A t, u \in Tasks :
    at[t] = "holding" /\ at[u] = "holding" /\ key[t] = key[u] => t = u

\* The map is process-global and nothing else collects it: an entry exists only while an
\* acquisition of its key is under way, whichever way the others ended.
NothingLeaks ==
  \A k \in Keys : map[k] # NoMutex => \E t \in Tasks : at[t] # "idle" /\ key[t] = k

\* The registry behaves as one first-come-first-served line per key: that of the key's
\* mutex, which may be another one every time the key comes into use.
KeyLines == [k \in Keys |-> IF map[k] = NoMutex THEN <<>> ELSE line[map[k]]]
Guarded  == {t \in Tasks : at[t] = "holding"}

Promise == INSTANCE FifoLocks WITH line <- KeyLines, inside <- Guarded

ImplementsFifoLocks == Promise!Spec

=============================================================================
