--------------------------- MODULE ToolBatchProofs ---------------------------
(***************************************************************************)
(* That the registry of keyed_lock.rs keeps one mutex per key, excludes    *)
(* two guards of one key, leaks no entry and is one first-come-first-      *)
(* served line per key, for any number of tasks, keys and allocations; and *)
(* that batches of tool calls, aborted, failed and dropped in any way, use *)
(* it as its users may, so that this holds in them, for any number of      *)
(* batches and calls.                                                      *)
(***************************************************************************)
EXTENDS ToolBatch, SeqFilterProofs

-----------------------------------------------------------------------------
(* The registry (module KeyedLocks). *)

\* A task has an Arc exactly between get_or_insert and lock.take().
ReferencesAreCounted ==
  \A t \in Tasks : at[t] \in Referencing <=> handle[t] # NoMutex

\* Two keys never share a mutex.
MutexesAreApart ==
  \A j, k \in Keys : map[j] = map[k] /\ map[j] # NoMutex => j = k

\* Whoever stands in the line of a mutex has a place or a guard of it ...
LinesAreSound ==
  \A m \in Mutexes : \A i \in 1..Len(line[m]) :
    /\ at[line[m][i]] \in {"claimed", "holding"}
    /\ handle[line[m][i]] = m

\* ... only once ...
PlacesAreApart ==
  \A m \in Mutexes : \A i, j \in 1..Len(line[m]) : line[m][i] = line[m][j] => i = j

\* ... and whoever has one stands there.
PlacesAreKept ==
  \A t \in Tasks : at[t] \in {"claimed", "holding"} =>
    \E i \in 1..Len(line[handle[t]]) : line[handle[t]][i] = t

\* A guard's task is at the head of its line.
HoldersAreHeads ==
  \A t \in Tasks : at[t] = "holding" => line[handle[t]][1] = t

LockInv ==
  /\ LockTypeOK
  /\ ReferencesAreCounted
  /\ OneLiveMutexPerKey
  /\ MutexesAreApart
  /\ LinesAreSound
  /\ PlacesAreApart
  /\ PlacesAreKept
  /\ HoldersAreHeads
  /\ NothingLeaks

-----------------------------------------------------------------------------
(* Taking one element out of a line. *)

LEMMA RemoveAtFacts ==
  ASSUME NEW S, NEW s \in Seq(S), NEW i \in 1..Len(s)
  PROVE  /\ RemoveAt(s, i) \in Seq(S)
         /\ Len(RemoveAt(s, i)) = Len(s) - 1
         /\ \A j \in 1..Len(s) - 1 : RemoveAt(s, i)[j] = IF j < i THEN s[j] ELSE s[j + 1]
<1> DEFINE front == SubSeq(s, 1, i - 1)
           back  == SubSeq(s, i + 1, Len(s))
<1>1. front \in Seq(S) /\ Len(front) = i - 1 /\ \A j \in 1..i - 1 : front[j] = s[j]
  OBVIOUS
<1>2. /\ back \in Seq(S)
      /\ Len(back) = Len(s) - i
      /\ \A j \in 1..Len(s) - i : back[j] = s[i + j]
  OBVIOUS
<1>3. RemoveAt(s, i) = front \o back
  BY DEF RemoveAt
<1> HIDE DEF front, back
<1>4. front \o back \in Seq(S) /\ Len(front \o back) = Len(s) - 1
  BY <1>1, <1>2
<1>5. ASSUME NEW j \in 1..Len(s) - 1
      PROVE  (front \o back)[j] = IF j < i THEN s[j] ELSE s[j + 1]
  <2>1. CASE j < i
    BY <2>1, <1>1, <1>2
  <2>2. CASE ~(j < i)
    <3>1. (front \o back)[j] = back[j - Len(front)]
      BY <2>2, <1>1, <1>2
    <3>2. j - (i - 1) \in 1..Len(s) - i
      BY <2>2
    <3> QED BY <3>1, <3>2, <2>2, <1>1, <1>2
  <2> QED BY <2>1, <2>2
<1> QED BY <1>3, <1>4, <1>5

LEMMA PlacesAreTasks ==
  ASSUME LockTypeOK, NEW m \in Mutexes, NEW i \in 1..Len(line[m])
  PROVE  line[m][i] \in Tasks
<1>1. line[m] \in Seq(Tasks)
  BY DEF LockTypeOK
<1> QED BY <1>1

\* Before its claim and after it has left, a task is in no line.
LEMMA OutsidersAreNotInLine ==
  ASSUME LockInv, NEW t \in Tasks, at[t] \notin {"claimed", "holding"},
         NEW m \in Mutexes, NEW i \in 1..Len(line[m])
  PROVE  line[m][i] \in Tasks \ {t}
<1>1. line[m][i] \in Tasks
  BY PlacesAreTasks DEF LockInv
<1>2. at[line[m][i]] \in {"claimed", "holding"}
  BY DEF LockInv, LinesAreSound
<1> QED BY <1>1, <1>2

-----------------------------------------------------------------------------
(* The initial states and one lemma per action. *)

LEMMA InitLockInv == LockInit => LockInv
<1> SUFFICES ASSUME LockInit PROVE LockInv
  OBVIOUS
<1>1. LockTypeOK
  BY DEF LockInit, LockTypeOK, Points
<1>2. LinesAreSound /\ PlacesAreApart
  BY DEF LockInit, LinesAreSound, PlacesAreApart
<1>3. OneLiveMutexPerKey /\ PlacesAreKept /\ HoldersAreHeads /\ ReferencesAreCounted
  BY DEF LockInit, OneLiveMutexPerKey, PlacesAreKept, HoldersAreHeads, ReferencesAreCounted,
         Referencing
<1>4. MutexesAreApart /\ NothingLeaks
  BY DEF LockInit, MutexesAreApart, NothingLeaks
<1> QED BY <1>1, <1>2, <1>3, <1>4 DEF LockInv

\* get_or_insert, when the key has a mutex.
LEMMA RegisterFoundInv ==
  ASSUME LockInv, NEW t \in Tasks, NEW k \in Keys, Register(t, k), map[k] # NoMutex
  PROVE  LockInv'
<1> USE DEF LockInv, Register, Referencing
<1>1. /\ at[t] = "idle"
      /\ handle' = [handle EXCEPT ![t] = map[k]]
      /\ map' = map /\ line' = line /\ cancelled' = cancelled
      /\ at' = [at EXCEPT ![t] = "registered"]
      /\ key' = [key EXCEPT ![t] = k]
  OBVIOUS
<1> HIDE DEF Register
<1>2. LockTypeOK'
  BY <1>1 DEF LockTypeOK, Points
<1>3. \A u \in Tasks \ {t} : at'[u] = at[u] /\ handle'[u] = handle[u] /\ key'[u] = key[u]
  BY <1>1 DEF LockTypeOK
<1>4. at'[t] = "registered" /\ handle'[t] = map[k] /\ key'[t] = k
  BY <1>1 DEF LockTypeOK
<1>5. ReferencesAreCounted'
  BY <1>3, <1>4 DEF ReferencesAreCounted
<1>6. OneLiveMutexPerKey'
  BY <1>1, <1>3, <1>4 DEF OneLiveMutexPerKey
<1>7. MutexesAreApart'
  BY <1>1 DEF MutexesAreApart
<1>8. \A m \in Mutexes : \A i \in 1..Len(line[m]) : line[m][i] \in Tasks \ {t}
  BY <1>1, OutsidersAreNotInLine
<1>9. LinesAreSound' /\ PlacesAreApart'
  BY <1>1, <1>3, <1>8 DEF LinesAreSound, PlacesAreApart
<1>10. PlacesAreKept' /\ HoldersAreHeads'
  BY <1>1, <1>3, <1>4 DEF PlacesAreKept, HoldersAreHeads
<1>11. NothingLeaks'
  BY <1>1, <1>3, <1>4 DEF NothingLeaks
<1> QED BY <1>2, <1>5, <1>6, <1>7, <1>9, <1>10, <1>11

\* get_or_insert, when it mints one: an allocation that nobody references any more.
LEMMA RegisterMintedInv ==
  ASSUME LockInv, NEW t \in Tasks, NEW k \in Keys, Register(t, k), map[k] = NoMutex
  PROVE  LockInv'
<1> USE DEF LockInv, Referencing
<1>1. PICK m \in Unallocated :
        /\ map' = [map EXCEPT ![k] = m]
        /\ line' = [line EXCEPT ![m] = <<>>]
        /\ handle' = [handle EXCEPT ![t] = m]
  BY DEF Register
<1>2. /\ at[t] = "idle"
      /\ at' = [at EXCEPT ![t] = "registered"]
      /\ key' = [key EXCEPT ![t] = k]
      /\ cancelled' = cancelled
  BY DEF Register
<1>3. /\ m \in Mutexes /\ m # NoMutex
      /\ \A j \in Keys : map[j] # m
      /\ \A u \in Tasks : handle[u] # m
  BY NoMutexAssumption DEF Unallocated
<1>4. LockTypeOK'
  <2>1. <<>> \in Seq(Tasks)
    OBVIOUS
  <2> QED BY <1>1, <1>2, <1>3, <2>1 DEF LockTypeOK, Points
<1>5. \A u \in Tasks \ {t} : at'[u] = at[u] /\ handle'[u] = handle[u] /\ key'[u] = key[u]
  BY <1>1, <1>2 DEF LockTypeOK
<1>6. at'[t] = "registered" /\ handle'[t] = m /\ key'[t] = k
  BY <1>1, <1>2 DEF LockTypeOK
<1>7. map'[k] = m /\ \A j \in Keys \ {k} : map'[j] = map[j]
  BY <1>1 DEF LockTypeOK
<1>8. line'[m] = <<>> /\ \A n \in Mutexes \ {m} : line'[n] = line[n]
  BY <1>1, <1>3 DEF LockTypeOK
<1>9. ReferencesAreCounted'
  BY <1>3, <1>5, <1>6 DEF ReferencesAreCounted
<1>10. OneLiveMutexPerKey'
  <2> SUFFICES ASSUME NEW u \in Tasks \ {t}, at[u] \in Referencing
               PROVE  map'[key[u]] = handle[u] /\ handle[u] # NoMutex
    BY <1>3, <1>5, <1>6, <1>7 DEF OneLiveMutexPerKey
  <2>1. map[key[u]] = handle[u] /\ handle[u] # NoMutex
    BY DEF OneLiveMutexPerKey
  <2>2. key[u] \in Keys \ {k}
    BY <2>1 DEF LockTypeOK
  <2> QED BY <2>1, <2>2, <1>7
<1>11. MutexesAreApart'
  BY <1>3, <1>7 DEF MutexesAreApart
<1>12. \A n \in Mutexes : \A i \in 1..Len(line[n]) : line[n][i] \in Tasks \ {t}
  BY <1>2, OutsidersAreNotInLine
<1>13. LinesAreSound' /\ PlacesAreApart'
  BY <1>5, <1>8, <1>12 DEF LinesAreSound, PlacesAreApart
<1>14. PlacesAreKept' /\ HoldersAreHeads'
  <2> SUFFICES ASSUME NEW u \in Tasks \ {t}, at[u] \in {"claimed", "holding"}
               PROVE  line'[handle[u]] = line[handle[u]]
    BY <1>5, <1>6 DEF PlacesAreKept, HoldersAreHeads
  <2>1. handle[u] \in Mutexes \ {m}
    BY <1>3 DEF ReferencesAreCounted, LockTypeOK
  <2> QED BY <2>1, <1>8
<1>15. NothingLeaks'
  BY <1>2, <1>5, <1>6, <1>7 DEF NothingLeaks
<1> QED BY <1>4, <1>9, <1>10, <1>11, <1>13, <1>14, <1>15

\* The first poll takes the last place of the line.
LEMMA ClaimInv ==
  ASSUME LockInv, NEW t \in Tasks, Claim(t)
  PROVE  LockInv'
<1> USE DEF LockInv, Referencing
<1> DEFINE m == handle[t]
<1>1. /\ at[t] = "registered"
      /\ line' = [line EXCEPT ![m] = Append(@, t)]
      /\ at' = [at EXCEPT ![t] = "claimed"]
      /\ map' = map /\ key' = key /\ handle' = handle /\ cancelled' = cancelled
  BY DEF Claim
<1>2. m \in Mutexes
  BY <1>1 DEF ReferencesAreCounted, LockTypeOK
<1>3. /\ line[m] \in Seq(Tasks)
      /\ line'[m] = Append(line[m], t)
      /\ \A n \in Mutexes \ {m} : line'[n] = line[n]
  BY <1>1, <1>2 DEF LockTypeOK
<1>4. at'[t] = "claimed" /\ \A u \in Tasks \ {t} : at'[u] = at[u]
  BY <1>1 DEF LockTypeOK
<1>5. /\ Len(line'[m]) = Len(line[m]) + 1
      /\ line'[m][Len(line[m]) + 1] = t
      /\ \A i \in 1..Len(line[m]) : line'[m][i] = line[m][i]
  BY <1>3
<1>6. \A n \in Mutexes : \A i \in 1..Len(line[n]) : line[n][i] \in Tasks \ {t}
  BY <1>1, OutsidersAreNotInLine
<1>7. LockTypeOK'
  <2>1. Append(line[m], t) \in Seq(Tasks)
    BY <1>3
  <2> QED BY <2>1, <1>1, <1>2 DEF LockTypeOK, Points
<1>8. ReferencesAreCounted' /\ OneLiveMutexPerKey'
  BY <1>1, <1>4 DEF ReferencesAreCounted, OneLiveMutexPerKey
<1>9. MutexesAreApart' /\ NothingLeaks'
  BY <1>1, <1>4 DEF MutexesAreApart, NothingLeaks
<1> HIDE DEF m
<1>10. LinesAreSound'
  <2> SUFFICES ASSUME NEW n \in Mutexes, NEW i \in 1..Len(line'[n])
               PROVE  at'[line'[n][i]] \in {"claimed", "holding"} /\ handle[line'[n][i]] = n
    BY <1>1 DEF LinesAreSound
  <2>1. CASE n = m /\ i = Len(line[m]) + 1
    BY <2>1, <1>4, <1>5 DEF m
  <2>2. CASE ~(n = m /\ i = Len(line[m]) + 1)
    <3>1. i \in 1..Len(line[n]) /\ line'[n][i] = line[n][i]
      BY <2>2, <1>3, <1>5
    <3> QED BY <3>1, <1>4, <1>6 DEF LinesAreSound
  <2> QED BY <2>1, <2>2
<1>11. PlacesAreApart'
  <2> SUFFICES ASSUME NEW n \in Mutexes, NEW i \in 1..Len(line'[n]), NEW j \in 1..Len(line'[n]),
                      line'[n][i] = line'[n][j]
               PROVE  i = j
    BY DEF PlacesAreApart
  <2>1. CASE n # m
    BY <2>1, <1>3 DEF PlacesAreApart
  <2>2. CASE n = m
    BY <2>2, <1>2, <1>3, <1>5, <1>6 DEF PlacesAreApart
  <2> QED BY <2>1, <2>2
<1>12. PlacesAreKept' /\ HoldersAreHeads'
  <2> SUFFICES ASSUME NEW u \in Tasks \ {t}, at[u] \in {"claimed", "holding"}
               PROVE  \A i \in 1..Len(line[handle[u]]) :
                        i \in 1..Len(line'[handle[u]]) /\ line'[handle[u]][i] = line[handle[u]][i]
    <3>1. \A u \in Tasks \ {t} : at[u] = "holding" => 1 \in 1..Len(line[handle[u]])
      <4> SUFFICES ASSUME NEW u \in Tasks, at[u] = "holding"
                   PROVE  1 \in 1..Len(line[handle[u]])
        OBVIOUS
      <4>1. PICK i \in 1..Len(line[handle[u]]) : line[handle[u]][i] = u
        BY DEF PlacesAreKept
      <4>2. line[handle[u]] \in Seq(Tasks)
        BY DEF ReferencesAreCounted, LockTypeOK
      <4> QED BY <4>1, <4>2
    <3>2. PlacesAreKept'
      BY <3>1, <1>1, <1>4, <1>5, <1>3 DEF PlacesAreKept, m
    <3> QED BY <3>1, <3>2, <1>1, <1>4 DEF HoldersAreHeads
  <2>1. handle[u] \in Mutexes
    BY DEF ReferencesAreCounted, LockTypeOK
  <2> QED BY <2>1, <1>3, <1>5
<1> QED BY <1>7, <1>8, <1>9, <1>10, <1>11, <1>12

\* A token fires: no part of the registry hears of it.
LEMMA CancelInv ==
  ASSUME LockInv, NEW tasks \in SUBSET Tasks, Cancel(tasks)
  PROVE  LockInv'
BY DEF LockInv, Cancel, LockTypeOK, ReferencesAreCounted, OneLiveMutexPerKey, MutexesAreApart,
       LinesAreSound, PlacesAreApart, PlacesAreKept, HoldersAreHeads, NothingLeaks

\* The place has come up: the task at the head holds the guard.
LEMMA GrantInv ==
  ASSUME LockInv, NEW t \in Tasks, Grant(t)
  PROVE  LockInv'
<1> USE DEF LockInv, Referencing
<1>1. /\ at[t] = "claimed"
      /\ Head(line[handle[t]]) = t
      /\ at' = [at EXCEPT ![t] = "holding"]
      /\ map' = map /\ line' = line /\ key' = key /\ handle' = handle /\ cancelled' = cancelled
  BY DEF Grant
<1>2. at'[t] = "holding" /\ \A u \in Tasks \ {t} : at'[u] = at[u]
  BY <1>1 DEF LockTypeOK
<1>3. line[handle[t]] \in Seq(Tasks)
  BY <1>1 DEF ReferencesAreCounted, LockTypeOK
<1>4. line[handle[t]][1] = t
  BY <1>1, <1>3
<1>5. LockTypeOK'
  BY <1>1 DEF LockTypeOK, Points
<1>6. ReferencesAreCounted' /\ OneLiveMutexPerKey' /\ MutexesAreApart' /\ NothingLeaks'
  BY <1>1, <1>2 DEF ReferencesAreCounted, OneLiveMutexPerKey, MutexesAreApart, NothingLeaks
<1>7. LinesAreSound'
  <2> SUFFICES ASSUME NEW m \in Mutexes, NEW i \in 1..Len(line[m])
               PROVE  at'[line[m][i]] \in {"claimed", "holding"} /\ handle[line[m][i]] = m
    BY <1>1 DEF LinesAreSound
  <2>1. line[m][i] \in Tasks
    BY PlacesAreTasks
  <2> QED BY <2>1, <1>2 DEF LinesAreSound
<1>8. PlacesAreApart'
  BY <1>1 DEF PlacesAreApart
<1>9. PlacesAreKept' /\ HoldersAreHeads'
  BY <1>1, <1>2, <1>4 DEF PlacesAreKept, HoldersAreHeads
<1> QED BY <1>5, <1>6, <1>7, <1>8, <1>9

\* The permit or the place is given up.  The others keep their places; the next one
\* moves up only if it was the head that left.
LEMMA LeaveLineInv ==
  ASSUME LockInv, NEW t \in Tasks, at[t] \in {"claimed", "holding"}, LeaveLine(t)
  PROVE  LockInv'
<1> USE DEF LockInv, Referencing
<1> DEFINE m == handle[t]
<1>1. PICK p \in 1..Len(line[m]) :
        /\ line[m][p] = t
        /\ line' = [line EXCEPT ![m] = RemoveAt(@, p)]
  BY DEF LeaveLine
<1>2. /\ at' = [at EXCEPT ![t] = "left"]
      /\ map' = map /\ key' = key /\ handle' = handle /\ cancelled' = cancelled
  BY DEF LeaveLine
<1>3. m \in Mutexes /\ line[m] \in Seq(Tasks)
  BY DEF ReferencesAreCounted, LockTypeOK
<1>4. line'[m] = RemoveAt(line[m], p) /\ \A n \in Mutexes \ {m} : line'[n] = line[n]
  BY <1>1, <1>3 DEF LockTypeOK
<1>5. at'[t] = "left" /\ \A u \in Tasks \ {t} : at'[u] = at[u]
  BY <1>2 DEF LockTypeOK
<1> HIDE DEF m
<1>6. /\ RemoveAt(line[m], p) \in Seq(Tasks)
      /\ Len(RemoveAt(line[m], p)) = Len(line[m]) - 1
      /\ \A j \in 1..Len(line[m]) - 1 :
           RemoveAt(line[m], p)[j] = IF j < p THEN line[m][j] ELSE line[m][j + 1]
  BY <1>1, <1>3, RemoveAtFacts
<1>7. LockTypeOK'
  BY <1>1, <1>2, <1>3, <1>6 DEF LockTypeOK, Points
<1>8. ReferencesAreCounted' /\ OneLiveMutexPerKey' /\ MutexesAreApart' /\ NothingLeaks'
  BY <1>2, <1>5 DEF ReferencesAreCounted, OneLiveMutexPerKey, MutexesAreApart, NothingLeaks
\* Where an element of the new line stood before.
<1>9. \A j \in 1..Len(line'[m]) : \E i \in 1..Len(line[m]) :
        i # p /\ line'[m][j] = line[m][i] /\ i = (IF j < p THEN j ELSE j + 1)
  <2> SUFFICES ASSUME NEW j \in 1..Len(line[m]) - 1
               PROVE  \E i \in 1..Len(line[m]) :
                        /\ i # p
                        /\ RemoveAt(line[m], p)[j] = line[m][i]
                        /\ i = (IF j < p THEN j ELSE j + 1)
    BY <1>4, <1>6
  <2>0. Len(line[m]) \in Nat
    BY <1>3
  <2>1. CASE j < p
    <3>1. j \in 1..Len(line[m]) /\ j # p
      BY <2>0, <2>1
    <3> QED BY <3>1, <2>1, <1>6
  <2>2. CASE ~(j < p)
    <3>1. j + 1 \in 1..Len(line[m]) /\ j + 1 # p
      BY <2>0, <2>2
    <3> QED BY <3>1, <2>2, <1>6
  <2> QED BY <2>1, <2>2
<1>10. \A n \in Mutexes : \A i \in 1..Len(line'[n]) : line'[n][i] \in Tasks \ {t}
  <2> SUFFICES ASSUME NEW n \in Mutexes, NEW i \in 1..Len(line'[n])
               PROVE  line'[n][i] \in Tasks \ {t}
    OBVIOUS
  <2>1. CASE n = m
    <3>1. PICK j \in 1..Len(line[m]) : j # p /\ line'[m][i] = line[m][j]
      BY <2>1, <1>9
    <3>2. line[m][j] # t
      BY <3>1, <1>1, <1>3 DEF PlacesAreApart
    <3>3. line[m][j] \in Tasks
      BY <1>3, PlacesAreTasks
    <3> QED BY <3>1, <3>2, <3>3, <2>1
  <2>2. CASE n # m
    <3>1. i \in 1..Len(line[n]) /\ line'[n][i] = line[n][i]
      BY <2>2, <1>4
    <3>2. line[n][i] \in Tasks /\ handle[line[n][i]] = n
      BY <3>1, PlacesAreTasks DEF LinesAreSound
    <3> QED BY <3>1, <3>2, <2>2 DEF m
  <2> QED BY <2>1, <2>2
<1>11. LinesAreSound'
  <2> SUFFICES ASSUME NEW n \in Mutexes, NEW i \in 1..Len(line'[n])
               PROVE  at[line'[n][i]] \in {"claimed", "holding"} /\ handle[line'[n][i]] = n
    BY <1>2, <1>5, <1>10 DEF LinesAreSound
  <2>1. CASE n = m
    BY <2>1, <1>3, <1>9 DEF LinesAreSound
  <2>2. CASE n # m
    BY <2>2, <1>4 DEF LinesAreSound
  <2> QED BY <2>1, <2>2
<1>12. PlacesAreApart'
  <2> SUFFICES ASSUME NEW n \in Mutexes, NEW i \in 1..Len(line'[n]), NEW j \in 1..Len(line'[n]),
                      line'[n][i] = line'[n][j]
               PROVE  i = j
    BY DEF PlacesAreApart
  <2>1. CASE n = m
    <3>1. PICK k \in 1..Len(line[m]) :
            line'[m][i] = line[m][k] /\ k = (IF i < p THEN i ELSE i + 1)
      BY <2>1, <1>9
    <3>2. PICK l \in 1..Len(line[m]) :
            line'[m][j] = line[m][l] /\ l = (IF j < p THEN j ELSE j + 1)
      BY <2>1, <1>9
    <3>3. k = l
      BY <2>1, <3>1, <3>2, <1>3 DEF PlacesAreApart
    <3>4. i \in Int /\ j \in Int /\ p \in Int
      BY <2>1, <1>4, <1>6, <1>3
    <3> QED BY <3>1, <3>2, <3>3, <3>4
  <2>2. CASE n # m
    BY <2>2, <1>4 DEF PlacesAreApart
  <2> QED BY <2>1, <2>2
\* Where an element of the old line stands now.
<1>13. \A i \in 1..Len(line[m]) : i # p =>
         \E j \in 1..Len(line'[m]) :
           line'[m][j] = line[m][i] /\ j = (IF i < p THEN i ELSE i - 1)
  <2> SUFFICES ASSUME NEW i \in 1..Len(line[m]), i # p
               PROVE  \E j \in 1..Len(line[m]) - 1 :
                        /\ RemoveAt(line[m], p)[j] = line[m][i]
                        /\ j = (IF i < p THEN i ELSE i - 1)
    BY <1>4, <1>6
  <2>0. Len(line[m]) \in Nat /\ p \in 1..Len(line[m])
    BY <1>1, <1>3
  <2>1. CASE i < p
    <3>1. i \in 1..Len(line[m]) - 1
      BY <2>0, <2>1
    <3> QED BY <3>1, <2>1, <1>6
  <2>2. CASE ~(i < p)
    <3>1. i - 1 \in 1..Len(line[m]) - 1 /\ ~(i - 1 < p) /\ (i - 1) + 1 = i
      BY <2>0, <2>2
    <3> QED BY <3>1, <2>2, <1>6
  <2> QED BY <2>1, <2>2
<1>14. PlacesAreKept'
  <2> SUFFICES ASSUME NEW u \in Tasks \ {t}, at[u] \in {"claimed", "holding"}
               PROVE  \E j \in 1..Len(line'[handle[u]]) : line'[handle[u]][j] = u
    BY <1>2, <1>5 DEF PlacesAreKept
  <2>1. PICK i \in 1..Len(line[handle[u]]) : line[handle[u]][i] = u
    BY DEF PlacesAreKept
  <2>2. handle[u] \in Mutexes
    BY DEF ReferencesAreCounted, LockTypeOK
  <2>3. CASE handle[u] = m
    <3>1. i # p
      BY <2>1, <2>3, <1>1
    <3> QED BY <3>1, <2>1, <2>3, <1>13
  <2>4. CASE handle[u] # m
    BY <2>1, <2>2, <2>4, <1>4
  <2> QED BY <2>3, <2>4
<1>15. HoldersAreHeads'
  <2> SUFFICES ASSUME NEW u \in Tasks \ {t}, at[u] = "holding"
               PROVE  line'[handle[u]][1] = u
    BY <1>2, <1>5 DEF HoldersAreHeads
  <2>1. line[handle[u]][1] = u
    BY DEF HoldersAreHeads
  <2>2. PICK i \in 1..Len(line[handle[u]]) : line[handle[u]][i] = u
    BY DEF PlacesAreKept
  <2>3. handle[u] \in Mutexes /\ line[handle[u]] \in Seq(Tasks)
    BY DEF ReferencesAreCounted, LockTypeOK
  <2>4. CASE handle[u] = m
    <3>1. 1 \in 1..Len(line[m]) /\ 1 # p
      BY <2>1, <2>2, <2>3, <2>4, <1>1
    <3>2. 1 < p
      BY <3>1, <1>1, <1>3
    <3> QED BY <3>1, <3>2, <2>1, <2>4, <1>13
  <2>5. CASE handle[u] # m
    BY <2>1, <2>3, <2>5, <1>4
  <2> QED BY <2>4, <2>5
<1> QED BY <1>7, <1>8, <1>11, <1>12, <1>14, <1>15

\* lock.take(): the task's last reference goes; it is in no line any more.
LEMMA DropHandleInv ==
  ASSUME LockInv, NEW t \in Tasks, DropHandle(t)
  PROVE  LockInv'
<1> USE DEF LockInv, Referencing
<1>1. /\ at[t] = "left"
      /\ handle' = [handle EXCEPT ![t] = NoMutex]
      /\ at' = [at EXCEPT ![t] = "evicting"]
      /\ map' = map /\ line' = line /\ key' = key /\ cancelled' = cancelled
  BY DEF DropHandle
<1>2. \A u \in Tasks \ {t} : at'[u] = at[u] /\ handle'[u] = handle[u]
  BY <1>1 DEF LockTypeOK
<1>3. at'[t] = "evicting" /\ handle'[t] = NoMutex
  BY <1>1 DEF LockTypeOK
<1>4. \A m \in Mutexes : \A i \in 1..Len(line[m]) : line[m][i] \in Tasks \ {t}
  BY <1>1, OutsidersAreNotInLine
<1>5. LockTypeOK'
  BY <1>1 DEF LockTypeOK, Points
<1>6. ReferencesAreCounted' /\ OneLiveMutexPerKey' /\ MutexesAreApart' /\ NothingLeaks'
  BY <1>1, <1>2, <1>3 DEF ReferencesAreCounted, OneLiveMutexPerKey, MutexesAreApart, NothingLeaks
<1>7. LinesAreSound' /\ PlacesAreApart'
  BY <1>1, <1>2, <1>4 DEF LinesAreSound, PlacesAreApart
<1>8. PlacesAreKept' /\ HoldersAreHeads'
  BY <1>1, <1>2, <1>3 DEF PlacesAreKept, HoldersAreHeads
<1> QED BY <1>5, <1>6, <1>7, <1>8

\* The eviction check: an entry goes only when no task has a reference to its mutex, and
\* stays only when one has.
LEMMA EvictInv ==
  ASSUME LockInv, NEW t \in Tasks, Evict(t)
  PROVE  LockInv'
<1> USE DEF LockInv, Referencing
<1> DEFINE k == key[t]
<1>1. /\ at[t] = "evicting"
      /\ map' = IF \E u \in Tasks : handle[u] = map[k]
                THEN map ELSE [map EXCEPT ![k] = NoMutex]
      /\ at' = [at EXCEPT ![t] = "idle"]
      /\ line' = line /\ key' = key /\ handle' = handle /\ cancelled' = cancelled
  BY DEF Evict
<1>2. k \in Keys /\ handle[t] = NoMutex
  BY <1>1 DEF LockTypeOK, ReferencesAreCounted
<1> HIDE DEF k
<1>3. at'[t] = "idle" /\ \A u \in Tasks \ {t} : at'[u] = at[u]
  BY <1>1 DEF LockTypeOK
<1>4. \A j \in Keys \ {k} : map'[j] = map[j]
  BY <1>1, <1>2 DEF LockTypeOK
<1>5. \/ map'[k] = map[k]
      \/ map'[k] = NoMutex /\ \A u \in Tasks : handle[u] # map[k]
  BY <1>1, <1>2 DEF LockTypeOK
<1>6. LockTypeOK'
  BY <1>1 DEF LockTypeOK, Points
<1>7. ReferencesAreCounted'
  BY <1>1, <1>3 DEF ReferencesAreCounted
<1>8. OneLiveMutexPerKey'
  <2> SUFFICES ASSUME NEW u \in Tasks \ {t}, at[u] \in Referencing
               PROVE  map'[key[u]] = handle[u] /\ handle[u] # NoMutex
    BY <1>1, <1>3 DEF OneLiveMutexPerKey
  <2>1. map[key[u]] = handle[u] /\ handle[u] # NoMutex /\ key[u] \in Keys
    BY DEF OneLiveMutexPerKey, LockTypeOK
  <2>2. CASE key[u] = k
    BY <2>1, <2>2, <1>5
  <2>3. CASE key[u] # k
    BY <2>1, <2>3, <1>4
  <2> QED BY <2>2, <2>3
<1>9. MutexesAreApart'
  BY <1>2, <1>4, <1>5 DEF MutexesAreApart
<1>10. LinesAreSound'
  <2> SUFFICES ASSUME NEW m \in Mutexes, NEW i \in 1..Len(line[m])
               PROVE  at'[line[m][i]] \in {"claimed", "holding"} /\ handle[line[m][i]] = m
    BY <1>1 DEF LinesAreSound
  <2>1. line[m][i] \in Tasks \ {t}
    BY <1>1, OutsidersAreNotInLine
  <2> QED BY <2>1, <1>3 DEF LinesAreSound
<1>11. PlacesAreApart' /\ PlacesAreKept' /\ HoldersAreHeads'
  BY <1>1, <1>3 DEF PlacesAreApart, PlacesAreKept, HoldersAreHeads
<1>12. NothingLeaks'
  <2> SUFFICES ASSUME NEW j \in Keys, map'[j] # NoMutex
               PROVE  \E u \in Tasks \ {t} : at[u] # "idle" /\ key[u] = j
    BY <1>1, <1>3 DEF NothingLeaks
  <2>1. CASE j = k
    <3>1. map[k] # NoMutex /\ \E u \in Tasks : handle[u] = map[k]
      BY <2>1, <1>1, <1>2 DEF LockTypeOK
    <3>2. PICK u \in Tasks : handle[u] = map[k]
      BY <3>1
    <3>3. at[u] \in Referencing /\ u # t
      BY <3>1, <3>2, <1>2 DEF ReferencesAreCounted
    <3>4. map[key[u]] = map[k] /\ key[u] \in Keys
      BY <3>2, <3>3 DEF OneLiveMutexPerKey, LockTypeOK
    <3>5. key[u] = k
      BY <3>1, <3>4, <1>2 DEF MutexesAreApart
    <3> QED BY <3>3, <3>5, <2>1
  <2>2. CASE j # k
    <3>1. PICK u \in Tasks : at[u] # "idle" /\ key[u] = j
      BY <2>2, <1>4 DEF NothingLeaks
    <3> QED BY <3>1, <2>2 DEF k
  <2> QED BY <2>1, <2>2
<1> QED BY <1>6, <1>7, <1>8, <1>9, <1>10, <1>11, <1>12

-----------------------------------------------------------------------------
(* The theorems. *)

\* The invariant is inductive.
THEOREM LockInvariance == LockSpec => []LockInv
<1>1. LockInit => LockInv
  BY InitLockInv
<1>2. LockInv /\ [LockNext]_lockVars => LockInv'
  <2> SUFFICES ASSUME LockInv, [LockNext]_lockVars PROVE LockInv'
    OBVIOUS
  <2>1. ASSUME NEW t \in Tasks, NEW k \in Keys, Register(t, k) PROVE LockInv'
    BY <2>1, RegisterFoundInv, RegisterMintedInv
  <2>2. ASSUME NEW t \in Tasks, Claim(t) PROVE LockInv'
    BY <2>2, ClaimInv
  <2>3. ASSUME NEW tasks \in SUBSET Tasks, Cancel(tasks) PROVE LockInv'
    BY <2>3, CancelInv
  <2>4. ASSUME NEW t \in Tasks, Grant(t) PROVE LockInv'
    BY <2>4, GrantInv
  <2>5. ASSUME NEW t \in Tasks, Forfeit(t) PROVE LockInv'
    BY <2>5, LeaveLineInv DEF Forfeit
  <2>6. ASSUME NEW t \in Tasks, Unlock(t) PROVE LockInv'
    BY <2>6, LeaveLineInv DEF Unlock
  <2>7. ASSUME NEW t \in Tasks, DropHandle(t) PROVE LockInv'
    BY <2>7, DropHandleInv
  <2>8. ASSUME NEW t \in Tasks, Evict(t) PROVE LockInv'
    BY <2>8, EvictInv
  <2>9. CASE UNCHANGED lockVars
    BY <2>9 DEF lockVars, LockInv, LockTypeOK, ReferencesAreCounted, OneLiveMutexPerKey,
           MutexesAreApart, LinesAreSound, PlacesAreApart, PlacesAreKept, HoldersAreHeads,
           NothingLeaks
  <2> QED BY <2>1, <2>2, <2>3, <2>4, <2>5, <2>6, <2>7, <2>8, <2>9 DEF LockNext
<1> QED BY <1>1, <1>2, PTL DEF LockSpec

\* Every variable of the registry keeps its type.
THEOREM LockTypeCorrect == LockSpec => []LockTypeOK
<1>1. LockInv => LockTypeOK
  BY DEF LockInv
<1> QED BY <1>1, LockInvariance, PTL

\* "For any live key there is exactly one Arc<Mutex<()>>": evict_if_unreferenced and
\* get_or_insert never leave a task with a mutex the map does not hold for its key.
THEOREM OneMutexPerKey == LockSpec => []OneLiveMutexPerKey
<1>1. LockInv => OneLiveMutexPerKey
  BY DEF LockInv
<1> QED BY <1>1, LockInvariance, PTL

\* Two KeyedGuards of one key never coexist: their tasks are the head of one line.
THEOREM GuardsExclude == LockSpec => []OneGuardPerKey
<1>1. LockInv => OneGuardPerKey
  BY DEF LockInv, OneLiveMutexPerKey, HoldersAreHeads, OneGuardPerKey, Referencing
<1> QED BY <1>1, LockInvariance, PTL

\* The process-global map holds no entry nobody is locking, however acquisitions end.
THEOREM EntriesAreEvicted == LockSpec => []NothingLeaks
<1>1. LockInv => NothingLeaks
  BY DEF LockInv
<1> QED BY <1>1, LockInvariance, PTL

-----------------------------------------------------------------------------
(* The registry implements FifoLocks. *)

\* A key that an acquisition refers to has its line in the mutex of the acquisition.
LEMMA HandleIsTheKeysMutex ==
  ASSUME LockInv, NEW t \in Tasks, at[t] \in Referencing
  PROVE  /\ handle[t] \in Mutexes
         /\ key[t] \in Keys
         /\ map[key[t]] = handle[t]
         /\ KeyLines[key[t]] = line[handle[t]]
         /\ \A k \in Keys \ {key[t]} : map[k] # handle[t]
<1>1. handle[t] \in Mutexes /\ key[t] \in Keys /\ map[key[t]] = handle[t]
  BY DEF LockInv, LockTypeOK, ReferencesAreCounted, OneLiveMutexPerKey
<1>2. handle[t] # NoMutex
  BY <1>1, NoMutexAssumption
<1>3. \A k \in Keys \ {key[t]} : map[k] # handle[t]
  BY <1>1, <1>2 DEF LockInv, MutexesAreApart
<1> QED BY <1>1, <1>2, <1>3 DEF KeyLines

\* A change to the line of t's mutex is the same change to the line of t's key.
LEMMA KeyLinesFollow ==
  ASSUME LockInv, NEW t \in Tasks, at[t] \in Referencing, NEW new,
         line' = [line EXCEPT ![handle[t]] = new], map' = map
  PROVE  KeyLines' = [KeyLines EXCEPT ![key[t]] = new]
<1>1. /\ handle[t] \in Mutexes
      /\ key[t] \in Keys
      /\ map[key[t]] = handle[t]
      /\ \A k \in Keys \ {key[t]} : map[k] # handle[t]
  BY HandleIsTheKeysMutex
<1>2. /\ line'[handle[t]] = new
      /\ \A m \in Mutexes \ {handle[t]} : line'[m] = line[m]
  BY <1>1 DEF LockInv, LockTypeOK
<1>3. KeyLines' = [k \in Keys |-> IF map[k] = NoMutex THEN <<>> ELSE line'[map[k]]]
  BY DEF KeyLines
<1>4. KeyLines'[key[t]] = new
  BY <1>1, <1>2, <1>3, NoMutexAssumption
<1>5. ASSUME NEW k \in Keys \ {key[t]} PROVE KeyLines'[k] = KeyLines[k]
  <2>1. map[k] # NoMutex => map[k] \in Mutexes \ {handle[t]}
    BY <1>1 DEF LockInv, LockTypeOK
  <2> QED BY <2>1, <1>2, <1>3 DEF KeyLines
<1>6. KeyLines = [k \in Keys |-> KeyLines[k]] /\ KeyLines' = [k \in Keys |-> KeyLines'[k]]
  BY DEF KeyLines
<1> QED BY <1>1, <1>4, <1>5, <1>6

\* Finding or minting a mutex gives nobody a place.
LEMMA RegisterStutters ==
  ASSUME LockInv, NEW t \in Tasks, NEW k \in Keys, Register(t, k)
  PROVE  KeyLines' = KeyLines /\ Guarded' = Guarded
<1>1. Guarded' = Guarded
  BY DEF Register, Guarded, LockInv, LockTypeOK
<1>2. CASE map[k] # NoMutex
  BY <1>1, <1>2 DEF Register, KeyLines
<1>3. CASE map[k] = NoMutex
  <2>1. PICK m \in Unallocated : /\ map' = [map EXCEPT ![k] = m]
                                 /\ line' = [line EXCEPT ![m] = <<>>]
    BY <1>3 DEF Register
  <2>2. m \in Mutexes /\ m # NoMutex /\ \A j \in Keys : map[j] # m
    BY <2>1, NoMutexAssumption DEF Unallocated
  <2>3. ASSUME NEW j \in Keys PROVE KeyLines'[j] = KeyLines[j]
    <3>1. CASE j = k
      <4>1. map'[j] = m /\ line'[m] = <<>>
        BY <3>1, <2>1, <2>2 DEF LockInv, LockTypeOK
      <4> QED BY <4>1, <3>1, <2>2, <1>3 DEF KeyLines
    <3>2. CASE j # k
      <4>1. map'[j] = map[j]
        BY <3>2, <2>1 DEF LockInv, LockTypeOK
      <4>2. map[j] # NoMutex => line'[map[j]] = line[map[j]]
        BY <2>1, <2>2 DEF LockInv, LockTypeOK
      <4> QED BY <4>1, <4>2 DEF KeyLines
    <3> QED BY <3>1, <3>2
  <2> QED BY <2>3, <1>1 DEF KeyLines
<1> QED BY <1>2, <1>3

\* The first poll joins the line of the key.
LEMMA ClaimJoins ==
  ASSUME LockInv, NEW t \in Tasks, Claim(t)
  PROVE  Promise!Join(t, key[t])
<1>1. /\ at[t] = "registered" /\ at[t] \in Referencing
      /\ line' = [line EXCEPT ![handle[t]] = Append(line[handle[t]], t)]
      /\ map' = map
  BY DEF Claim, Referencing
<1>2. KeyLines' = [KeyLines EXCEPT ![key[t]] = Append(line[handle[t]], t)]
  BY <1>1, KeyLinesFollow
<1>3. KeyLines[key[t]] = line[handle[t]]
  BY <1>1, HandleIsTheKeysMutex
<1>4. ASSUME NEW j \in Keys PROVE t \notin ToSet(KeyLines[j])
  <2>1. CASE map[j] = NoMutex
    BY <2>1 DEF KeyLines, ToSet
  <2>2. CASE map[j] # NoMutex
    <3>1. map[j] \in Mutexes /\ KeyLines[j] = line[map[j]]
      BY <2>2 DEF KeyLines, LockInv, LockTypeOK
    <3>2. \A i \in 1..Len(line[map[j]]) : line[map[j]][i] # t
      BY <3>1, <1>1, OutsidersAreNotInLine
    <3>3. DOMAIN line[map[j]] = 1..Len(line[map[j]])
      BY <3>1 DEF LockInv, LockTypeOK
    <3> QED BY <3>1, <3>2, <3>3 DEF ToSet
  <2> QED BY <2>1, <2>2
<1>5. Guarded' = Guarded
  BY DEF Claim, Guarded, LockInv, LockTypeOK
<1> QED BY <1>2, <1>3, <1>4, <1>5 DEF Promise!Join, Promise!ToSet, ToSet

\* The head of the key's line comes in.
LEMMA GrantEnters ==
  ASSUME LockInv, NEW t \in Tasks, Grant(t)
  PROVE  Promise!Enter(t, key[t])
<1>1. at[t] = "claimed" /\ at[t] \in Referencing
  BY DEF Grant, Referencing
<1>2. KeyLines[key[t]] = line[handle[t]] /\ handle[t] \in Mutexes
  BY <1>1, HandleIsTheKeysMutex
<1>3. line[handle[t]] # <<>>
  BY <1>1 DEF LockInv, PlacesAreKept
<1>4. Guarded' = Guarded \cup {t} /\ KeyLines' = KeyLines
  BY DEF Grant, Guarded, KeyLines, LockInv, LockTypeOK
<1> QED BY <1>2, <1>3, <1>4 DEF Grant, Promise!Enter

\* A guard or a place that is dropped leaves the line of the key.
LEMMA LeaveLineLeaves ==
  ASSUME LockInv, NEW t \in Tasks, at[t] \in {"claimed", "holding"}, LeaveLine(t)
  PROVE  Promise!Leave(t, key[t])
<1>1. at[t] \in Referencing /\ map' = map
  BY DEF LeaveLine, Referencing
<1>2. PICK i \in 1..Len(line[handle[t]]) :
        /\ line[handle[t]][i] = t
        /\ line' = [line EXCEPT ![handle[t]] = RemoveAt(line[handle[t]], i)]
  BY DEF LeaveLine
<1>3. KeyLines' = [KeyLines EXCEPT ![key[t]] = RemoveAt(line[handle[t]], i)]
  BY <1>1, <1>2, KeyLinesFollow
<1>4. KeyLines[key[t]] = line[handle[t]]
  BY <1>1, HandleIsTheKeysMutex
<1>5. Guarded' = Guarded \ {t}
  BY DEF LeaveLine, Guarded, LockInv, LockTypeOK
<1> QED BY <1>2, <1>3, <1>4, <1>5 DEF Promise!Leave, Promise!RemoveAt, RemoveAt

\* An evicted entry had an empty line.
LEMMA EvictStutters ==
  ASSUME LockInv, NEW t \in Tasks, Evict(t)
  PROVE  KeyLines' = KeyLines /\ Guarded' = Guarded
<1>1. Guarded' = Guarded
  BY DEF Evict, Guarded, LockInv, LockTypeOK
<1>2. CASE map' = map
  BY <1>1, <1>2 DEF Evict, KeyLines
<1>3. CASE map' # map
  <2>1. map' = [map EXCEPT ![key[t]] = NoMutex] /\ \A u \in Tasks : handle[u] # map[key[t]]
    BY <1>3 DEF Evict
  <2>2. key[t] \in Keys /\ map[key[t]] \in Mutexes
    BY <2>1, <1>3 DEF LockInv, LockTypeOK
  <2>3. line[map[key[t]]] = <<>>
    <3>1. SUFFICES ASSUME line[map[key[t]]] # <<>> PROVE FALSE
      OBVIOUS
    <3>2. 1 \in 1..Len(line[map[key[t]]])
      BY <2>2, <3>1 DEF LockInv, LockTypeOK
    <3>3. line[map[key[t]]][1] \in Tasks
      BY <2>2, <3>2, PlacesAreTasks DEF LockInv
    <3>4. handle[line[map[key[t]]][1]] = map[key[t]]
      BY <2>2, <3>2 DEF LockInv, LinesAreSound
    <3> QED BY <2>1, <3>3, <3>4
  <2>4. \A j \in Keys : KeyLines'[j] = KeyLines[j]
    BY <2>1, <2>2, <2>3 DEF KeyLines, LockInv, LockTypeOK, Evict
  <2> QED BY <1>1, <2>4 DEF KeyLines
<1> QED BY <1>2, <1>3

\* keyed_lock.rs keeps one first-come-first-served line per key, although the mutex that
\* carries it is minted, shared, given up and evicted in separate steps.
THEOREM RegistryIsFifo == LockSpec => ImplementsFifoLocks
<1>1. LockInit => Promise!Init
  BY DEF LockInit, Promise!Init, KeyLines, Guarded
<1>2. LockInv /\ [LockNext]_lockVars => [Promise!Next]_(Promise!vars)
  <2> SUFFICES ASSUME LockInv, [LockNext]_lockVars
               PROVE  Promise!Next \/ (KeyLines' = KeyLines /\ Guarded' = Guarded)
    BY DEF Promise!vars
  <2>1. ASSUME NEW t \in Tasks PROVE at[t] \in Referencing => key[t] \in Keys
    BY DEF LockInv, LockTypeOK
  <2>2. ASSUME NEW t \in Tasks, NEW k \in Keys, Register(t, k)
        PROVE  KeyLines' = KeyLines /\ Guarded' = Guarded
    BY <2>2, RegisterStutters
  <2>3. ASSUME NEW t \in Tasks, Claim(t) PROVE Promise!Next
    BY <2>3, <2>1, ClaimJoins DEF Promise!Next, Claim, Referencing
  <2>4. ASSUME NEW t \in Tasks, Grant(t) PROVE Promise!Next
    BY <2>4, <2>1, GrantEnters DEF Promise!Next, Grant, Referencing
  <2>5. ASSUME NEW t \in Tasks, Forfeit(t) \/ Unlock(t) PROVE Promise!Next
    BY <2>5, <2>1, LeaveLineLeaves DEF Promise!Next, Forfeit, Unlock, Referencing
  <2>6. ASSUME NEW t \in Tasks, Evict(t) PROVE KeyLines' = KeyLines /\ Guarded' = Guarded
    BY <2>6, EvictStutters
  <2>7. ASSUME NEW t \in Tasks, DropHandle(t)
        PROVE  KeyLines' = KeyLines /\ Guarded' = Guarded
    BY <2>7 DEF DropHandle, KeyLines, Guarded, LockInv, LockTypeOK
  <2>8. CASE (\E tasks \in SUBSET Tasks : Cancel(tasks)) \/ UNCHANGED lockVars
    BY <2>8 DEF Cancel, lockVars, KeyLines, Guarded
  <2> QED BY <2>2, <2>3, <2>4, <2>5, <2>6, <2>7, <2>8 DEF LockNext
<1> QED BY <1>1, <1>2, LockInvariance, PTL DEF LockSpec, ImplementsFifoLocks, Promise!Spec

-----------------------------------------------------------------------------
(* The batches that use it. *)

\* The keys the calls hand to the registry are paths.
KeysAreResolved ==
  /\ path \in [Tasks -> Keys]
  /\ resolved \in [Tasks -> Keys]

\* The steps of a call's body, and those of the blocking pool.
LEMMA BodyUsesTheRegistry ==
  ASSUME KeysAreResolved, NEW t \in Tasks, BodyStep(t)
  PROVE  [LockNext]_lockVars /\ KeysAreResolved'
<1> USE DEF KeysAreResolved
<1>1. CASE Resolve(t)
  <2>1. (IF File(t) \in exists THEN RealPath[File(t)] ELSE path[t]) \in Keys
    BY PathsAssumption DEF File
  <2> QED BY <1>1, <2>1 DEF Resolve
<1>2. CASE ResolveFails(t)
  BY <1>2 DEF ResolveFails
<1>3. CASE Link(t)
  <2>1. resolved[t] \in Keys
    OBVIOUS
  <2> QED BY <1>3, <2>1 DEF Link, LockNext, fileVars
<1>4. CASE Place(t)
  BY <1>4 DEF Place, LockNext
<1>5. CASE Granted(t)
  BY <1>5 DEF Granted, LockNext
<1>6. CASE Refused(t)
  BY <1>6 DEF Refused, LockNext
<1>7. CASE BeginWrite(t)
  BY <1>7 DEF BeginWrite
<1>8. CASE AbortUnwritten(t)
  BY <1>8 DEF AbortUnwritten, LockNext
<1>9. CASE FinishWrite(t)
  BY <1>9 DEF FinishWrite, LockNext
<1>10. CASE Unreference(t)
  BY <1>10 DEF Unreference, LockNext, fileVars
<1>11. CASE Return(t)
  BY <1>11 DEF Return, LockNext
<1> QED BY <1>1, <1>2, <1>3, <1>4, <1>5, <1>6, <1>7, <1>8, <1>9, <1>10, <1>11 DEF BodyStep

LEMMA JobsUseTheRegistry ==
  ASSUME KeysAreResolved, NEW t \in Tasks, JobStep(t)
  PROVE  [LockNext]_lockVars /\ KeysAreResolved'
<1> USE DEF KeysAreResolved
<1>1. CASE OpenLands(t)
  BY <1>1 DEF OpenLands
<1>2. CASE WriteLands(t)
  BY <1>2 DEF WriteLands
<1>3. CASE JobFails(t)
  BY <1>3 DEF JobFails, LockNext
<1> QED BY <1>1, <1>2, <1>3 DEF JobStep

LEMMA DropsUseTheRegistry ==
  ASSUME KeysAreResolved, NEW t \in Tasks, DropBody(t)
  PROVE  [LockNext]_lockVars /\ KeysAreResolved'
BY DEF DropBody, LockNext, KeysAreResolved

\* What the coordinator of a batch does itself.
LEMMA CoordinatorsUseTheRegistry ==
  ASSUME KeysAreResolved, NEW b \in Batches, Coordinate(b) \/ AbortBatch(b) \/ Fail(b)
  PROVE  [LockNext]_lockVars /\ KeysAreResolved'
<1> USE DEF KeysAreResolved, bodyVars, fileVars
<1>1. CASE AbortBatch(b)
  <2>1. ToSet(Calls[b]) \in SUBSET Tasks
    BY CallsAssumption DEF ToSet
  <2> QED BY <1>1, <2>1 DEF AbortBatch, LockNext
<1>2. CASE PrepareReady(b)
  BY <1>2 DEF PrepareReady
<1>3. CASE PrepareImmediate(b)
  BY <1>3 DEF PrepareImmediate
<1>4. CASE CheckAbort(b)
  BY <1>4 DEF CheckAbort
<1>5. CASE Receive(b)
  BY <1>5 DEF Receive
<1>6. CASE Join(b)
  BY <1>6 DEF Join
<1>7. CASE Emit(b)
  BY <1>7 DEF Emit
<1>8. CASE Fail(b)
  BY <1>8 DEF Fail
<1> QED BY <1>1, <1>2, <1>3, <1>4, <1>5, <1>6, <1>7, <1>8 DEF Coordinate

LEMMA TasksUseTheRegistry ==
  ASSUME KeysAreResolved, NEW t \in Tasks, TaskStep(t)
  PROVE  [LockNext]_lockVars /\ KeysAreResolved'
<1> USE DEF bodyVars, fileVars
<1>1. CASE BodyStep(t)
  BY <1>1, BodyUsesTheRegistry
<1>2. ASSUME NEW b \in Batches, Start(b, t) PROVE [LockNext]_lockVars /\ KeysAreResolved'
  BY <1>2 DEF Start, EnterGuard, KeysAreResolved
<1>3. ASSUME NEW b \in Batches, StartAborted(b, t) PROVE [LockNext]_lockVars /\ KeysAreResolved'
  BY <1>3 DEF StartAborted, KeysAreResolved
<1>4. ASSUME NEW b \in Batches, Finish(b, t) PROVE [LockNext]_lockVars /\ KeysAreResolved'
  BY <1>4 DEF Finish, KeysAreResolved
<1>5. ASSUME NEW b \in Batches, DropTask(b, t) PROVE [LockNext]_lockVars /\ KeysAreResolved'
  <2>1. CASE DropBody(t)
    BY <2>1, DropsUseTheRegistry
  <2>2. CASE UNCHANGED bodyVars
    BY <2>2 DEF KeysAreResolved
  <2> QED BY <1>5, <2>1, <2>2 DEF DropTask
<1> QED BY <1>1, <1>2, <1>3, <1>4, <1>5 DEF TaskStep

\* Every step of a batch is a step of the registry or none of its business: the writes of
\* tool calls reach the map of keyed_lock.rs only through enqueue, wait and the drops.
THEOREM BatchesUseTheRegistry == Spec => LockSpec
<1>1. Init => LockInit /\ KeysAreResolved
  BY StartsAssumption DEF Init, FileInit, KeysAreResolved
<1>2. KeysAreResolved /\ [Next]_vars => [LockNext]_lockVars /\ KeysAreResolved'
  <2> SUFFICES ASSUME KeysAreResolved, [Next]_vars
               PROVE  [LockNext]_lockVars /\ KeysAreResolved'
    OBVIOUS
  <2>1. ASSUME NEW b \in Batches, Coordinate(b) \/ AbortBatch(b) \/ Fail(b)
        PROVE  [LockNext]_lockVars /\ KeysAreResolved'
    BY <2>1, CoordinatorsUseTheRegistry
  <2>2. ASSUME NEW t \in Tasks, TaskStep(t) PROVE [LockNext]_lockVars /\ KeysAreResolved'
    BY <2>2, TasksUseTheRegistry
  <2>3. ASSUME NEW t \in Tasks, Job(t) PROVE [LockNext]_lockVars /\ KeysAreResolved'
    BY <2>3, JobsUseTheRegistry DEF Job
  <2>4. CASE UNCHANGED vars
    BY <2>4 DEF vars, bodyVars, fileVars, KeysAreResolved
  <2> QED BY <2>1, <2>2, <2>3, <2>4 DEF Next, Progress
<1> QED BY <1>1, <1>2, PTL DEF Spec, LockSpec

\* Two calls never hold guards of one key, in whatever batches they are.
THEOREM CallsExclude == Spec => []OneGuardPerKey
BY BatchesUseTheRegistry, GuardsExclude, PTL

\* And when all calls are over the process-global map is empty again.
THEOREM CallsEvict == Spec => []NothingLeaks
BY BatchesUseTheRegistry, EntriesAreEvicted, PTL

\* A call waits for a key's guard only behind the calls that took their place before it,
\* whatever batches, aborts and drops surround them.
THEOREM CallsAreFifo == Spec => ImplementsFifoLocks
BY BatchesUseTheRegistry, RegistryIsFifo, PTL

-----------------------------------------------------------------------------
(* No call of a parallel batch runs beside one of its hooks. *)

\* What the coordinators keep, whatever their tasks do.
CoordinatorsAreSound ==
  /\ phase \in [Batches -> Phases]
  /\ prepared \in [Batches -> Nat]
  /\ ready \in [Batches -> Seq(Tasks)]
  /\ task \in [Tasks -> TaskPoints]
  /\ body \in [Tasks -> BodyPoints]
  /\ \A b \in Batches : \A i \in 1..Len(ready[b]) : ready[b][i] \in ToSet(Calls[b])
  /\ \A b \in Batches : phase[b] = "prepare" => prepared[b] < Len(Calls[b])

HookInv == CoordinatorsAreSound /\ NothingRunsBesideAHook

LEMMA ReadyCallsAreCalls ==
  ASSUME CoordinatorsAreSound, NEW b \in Batches, NEW t \in ToSet(ready[b])
  PROVE  t \in ToSet(Calls[b]) /\ t \in Tasks
<1>1. ready[b] \in Seq(Tasks) /\ Calls[b] \in Seq(Tasks)
  BY CallsAssumption DEF CoordinatorsAreSound
<1>2. PICK i \in 1..Len(ready[b]) : ready[b][i] = t
  BY <1>1 DEF ToSet
<1> QED BY <1>1, <1>2 DEF CoordinatorsAreSound

LEMMA CurrentIsACall ==
  ASSUME CoordinatorsAreSound, NEW b \in Batches, phase[b] = "prepare"
  PROVE  Current(b) \in ToSet(Calls[b]) /\ Current(b) \in Tasks
<1>1. Calls[b] \in Seq(Tasks) /\ prepared[b] + 1 \in 1..Len(Calls[b])
  BY CallsAssumption DEF CoordinatorsAreSound
<1> QED BY <1>1 DEF Current, ToSet

LEMMA InitHookInv == Init => HookInv
<1> SUFFICES ASSUME Init PROVE HookInv
  OBVIOUS
<1>1. \A b \in Batches : ToSet(Calls[b]) \subseteq Tasks /\ Len(Calls[b]) \in Nat /\ Len(Calls[b]) > 0
  BY CallsAssumption DEF ToSet
<1>2. CoordinatorsAreSound
  BY <1>1 DEF Init, FileInit, CoordinatorsAreSound, Phases, TaskPoints, BodyPoints
<1>3. NothingRunsBesideAHook
  BY <1>1 DEF Init, FileInit, NothingRunsBesideAHook
<1> QED BY <1>2, <1>3 DEF HookInv

\* A call that has been spawned or has a body is of no batch that still prepares; so what
\* befalls only such a call, and no coordinator, keeps the invariant.
LEMMA BusyCallsAreElsewhere ==
  ASSUME HookInv, NEW t \in Tasks, task[t] # "none" \/ body[t] # "off",
         phase' = phase, prepared' = prepared, ready' = ready,
         NEW p \in TaskPoints, task' = [task EXCEPT ![t] = p],
         NEW q \in BodyPoints, body' = [body EXCEPT ![t] = q]
  PROVE  HookInv'
<1>1. CoordinatorsAreSound'
  BY DEF HookInv, CoordinatorsAreSound
<1>2. NothingRunsBesideAHook'
  <2> SUFFICES ASSUME NEW b \in Batches \ Sequential, phase[b] \in {"prepare", "check"},
                      NEW u \in ToSet(Calls[b])
               PROVE  task'[u] = "none" /\ body'[u] = "off"
    BY DEF NothingRunsBesideAHook
  <2>1. task[u] = "none" /\ body[u] = "off"
    BY DEF HookInv, NothingRunsBesideAHook
  <2>2. u # t
    BY <2>1
  <2> QED BY <2>1, <2>2 DEF HookInv, CoordinatorsAreSound
<1> QED BY <1>1, <1>2 DEF HookInv

\* A body that has begun, and what the blocking pool does for it.
LEMMA BodyKeepsHookInv ==
  ASSUME HookInv, NEW t \in Tasks, BodyStep(t) \/ JobStep(t), UNCHANGED batchVars
  PROVE  HookInv'
<1> USE DEF batchVars
<1>1. task \in [Tasks -> TaskPoints] /\ body \in [Tasks -> BodyPoints]
  BY DEF HookInv, CoordinatorsAreSound
<1>2. task' = [task EXCEPT ![t] = task[t]] /\ task[t] \in TaskPoints
  BY <1>1
<1>3. CASE body' = body
  BY <1>3 DEF HookInv, CoordinatorsAreSound, NothingRunsBesideAHook
<1>4. CASE body' # body
  <2>1. body[t] # "off" /\ \E q \in BodyPoints : body' = [body EXCEPT ![t] = q]
    <3>1. CASE Resolve(t) \/ ResolveFails(t) \/ Link(t) \/ Place(t)
      BY <3>1, <1>4 DEF Resolve, ResolveFails, Link, Place, Goto, BodyPoints, fileVars
    <3>2. CASE Granted(t) \/ Refused(t) \/ BeginWrite(t) \/ AbortUnwritten(t)
      BY <3>2 DEF Granted, Refused, BeginWrite, AbortUnwritten, Goto, BodyPoints
    <3>3. CASE FinishWrite(t) \/ Unreference(t) \/ Return(t)
      BY <3>3, <1>4 DEF FinishWrite, Unreference, Return, Goto, BodyPoints, fileVars
    <3>4. CASE OpenLands(t) \/ JobFails(t)
      BY <3>4, <1>4 DEF OpenLands, JobFails, Goto, BodyPoints
    <3>5. CASE WriteLands(t)
      <4>1. body[t] = "writing"
        BY <3>5, <1>1, <1>4 DEF WriteLands
      <4> QED BY <3>5, <4>1 DEF WriteLands, BodyPoints
    <3> QED BY <3>1, <3>2, <3>3, <3>4, <3>5 DEF BodyStep, JobStep
  <2> QED BY <2>1, <1>2, BusyCallsAreElsewhere
<1> QED BY <1>3, <1>4

\* A coordinator leaves its loop over the calls before it spawns the first of them.
LEMMA CoordinatorKeepsHookInv ==
  ASSUME HookInv, NEW b \in Batches, Coordinate(b) \/ AbortBatch(b) \/ Fail(b)
  PROVE  HookInv'
<1> USE DEF HookInv
<1>1. /\ phase \in [Batches -> Phases]
      /\ prepared \in [Batches -> Nat]
      /\ ready \in [Batches -> Seq(Tasks)]
      /\ task \in [Tasks -> TaskPoints]
      /\ body \in [Tasks -> BodyPoints]
  BY DEF CoordinatorsAreSound
<1>2. ASSUME phase[b] = "prepare", prepared' = [prepared EXCEPT ![b] = prepared[b] + 1],
             ready' \in {ready, [ready EXCEPT ![b] = Append(ready[b], Current(b))]},
             NEW p \in {"check", "body"}, phase' = [phase EXCEPT ![b] = p],
             task' \in [Tasks -> TaskPoints], body' = body
      PROVE  CoordinatorsAreSound'
  <2>1. Current(b) \in ToSet(Calls[b]) /\ Current(b) \in Tasks
    BY <1>2, CurrentIsACall
  <2>2. ready' \in [Batches -> Seq(Tasks)] /\ phase' \in [Batches -> Phases]
    <3>1. Append(ready[b], Current(b)) \in Seq(Tasks)
      BY <1>1, <2>1
    <3>2. ready' \in [Batches -> Seq(Tasks)]
      BY <3>1, <1>1, <1>2
    <3> QED BY <3>2, <1>1, <1>2 DEF Phases
  <2>3. ASSUME NEW c \in Batches, NEW i \in 1..Len(ready'[c])
        PROVE  ready'[c][i] \in ToSet(Calls[c])
    <3>1. CASE ready'[c] = ready[c]
      BY <3>1, <2>3 DEF CoordinatorsAreSound
    <3>2. CASE c = b /\ ready'[b] = Append(ready[b], Current(b))
      <4>1. ready[b] \in Seq(Tasks)
        BY <1>1
      <4>2. CASE i = Len(ready[b]) + 1
        BY <4>1, <4>2, <3>2, <2>1
      <4>3. CASE i \in 1..Len(ready[b])
        BY <4>1, <4>3, <3>2 DEF CoordinatorsAreSound
      <4> QED BY <4>1, <4>2, <4>3, <3>2, <2>3
    <3> QED BY <3>1, <3>2, <1>1, <1>2
  <2>4. prepared' \in [Batches -> Nat] /\ \A c \in Batches \ {b} : prepared'[c] = prepared[c]
    BY <1>1, <1>2
  <2>5. phase'[b] = p /\ \A c \in Batches \ {b} : phase'[c] = phase[c]
    BY <1>1, <1>2
  <2>6. \A c \in Batches : phase'[c] = "prepare" => prepared'[c] < Len(Calls[c])
    BY <2>4, <2>5 DEF CoordinatorsAreSound
  <2> QED BY <1>1, <1>2, <2>2, <2>3, <2>4, <2>6 DEF CoordinatorsAreSound
<1>3. CASE PrepareReady(b)
  <2>1. Current(b) \in ToSet(Calls[b]) /\ Current(b) \in Tasks
    BY <1>3, CurrentIsACall DEF PrepareReady
  <2>2. body' = body /\ phase[b] = "prepare"
    BY <1>3 DEF PrepareReady, bodyVars, fileVars
  <2>3. task' = [task EXCEPT ![Current(b)] = IF b \in Sequential THEN "spawned" ELSE @]
    BY <1>3 DEF PrepareReady
  <2>4. task' \in [Tasks -> TaskPoints]
    BY <2>1, <2>3, <1>1 DEF TaskPoints
  <2>5. CoordinatorsAreSound'
    BY <1>3, <1>2, <2>2, <2>4 DEF PrepareReady
  <2>6. ASSUME NEW c \in Batches \ Sequential, phase'[c] \in {"prepare", "check"},
               NEW u \in ToSet(Calls[c])
        PROVE  task'[u] = "none" /\ body'[u] = "off"
    <3>1. phase[c] \in {"prepare", "check"}
      BY <1>3, <1>1, <2>2, <2>6 DEF PrepareReady
    <3>2. task[u] = "none" /\ body[u] = "off"
      BY <3>1, <2>6 DEF NothingRunsBesideAHook
    <3>3. b \in Sequential => u # Current(b)
      BY <2>1, <2>6, CallsAssumption
    <3> QED BY <3>2, <3>3, <2>1, <2>2, <2>3, <1>1
  <2> QED BY <2>5, <2>6 DEF NothingRunsBesideAHook
<1>4. CASE PrepareImmediate(b)
  <2>1. /\ body' = body /\ task' = task /\ ready' = ready /\ phase[b] = "prepare"
        /\ phase' = [phase EXCEPT ![b] = "check"]
        /\ prepared' = [prepared EXCEPT ![b] = prepared[b] + 1]
    BY <1>4 DEF PrepareImmediate, bodyVars, fileVars
  <2>2. CoordinatorsAreSound'
    BY <2>1, <1>1, <1>2
  <2>3. NothingRunsBesideAHook'
    BY <2>1, <1>1 DEF NothingRunsBesideAHook
  <2> QED BY <2>2, <2>3
<1>5. CASE CheckAbort(b) /\ phase'[b] = "run"
  <2>1. /\ body' = body /\ ready' = ready /\ prepared' = prepared
        /\ phase' = [phase EXCEPT ![b] = "run"]
        /\ task' = [t \in Tasks |-> IF t \in ToSet(ready[b]) THEN "spawned" ELSE task[t]]
    BY <1>5, <1>1 DEF CheckAbort, bodyVars, fileVars
  <2>2. CoordinatorsAreSound'
    BY <2>1, <1>1 DEF CoordinatorsAreSound, Phases, TaskPoints
  <2>3. ASSUME NEW c \in Batches \ Sequential, phase'[c] \in {"prepare", "check"},
               NEW u \in ToSet(Calls[c])
        PROVE  task'[u] = "none" /\ body'[u] = "off"
    <3>1. c # b /\ phase[c] \in {"prepare", "check"}
      BY <2>1, <2>3, <1>1
    <3>2. task[u] = "none" /\ body[u] = "off"
      BY <3>1, <2>3 DEF NothingRunsBesideAHook
    <3>3. u \notin ToSet(ready[b])
      BY <3>1, <2>3, ReadyCallsAreCalls, CallsAssumption
    <3>4. u \in Tasks
      BY <2>3, CallsAssumption DEF ToSet
    <3> QED BY <3>2, <3>3, <3>4, <2>1
  <2> QED BY <2>2, <2>3 DEF NothingRunsBesideAHook
<1>6. CASE CheckAbort(b) /\ phase'[b] # "run"
  <2>1. /\ body' = body /\ ready' = ready /\ prepared' = prepared /\ task' = task
        /\ phase[b] = "check"
        /\ \/ phase' = [phase EXCEPT ![b] = "prepare"] /\ prepared[b] < Len(Calls[b])
           \/ phase' = [phase EXCEPT ![b] = "done"]
    BY <1>6, <1>1 DEF CheckAbort, bodyVars, fileVars
  <2>2. CoordinatorsAreSound'
    BY <2>1, <1>1 DEF CoordinatorsAreSound, Phases
  <2>3. NothingRunsBesideAHook'
    BY <2>1, <1>1 DEF NothingRunsBesideAHook
  <2> QED BY <2>2, <2>3
<1>7. CASE Receive(b) \/ AbortBatch(b)
  <2>1. UNCHANGED <<phase, ready, prepared, task, body>>
    BY <1>7 DEF Receive, AbortBatch, bodyVars, fileVars, batchVars
  <2> QED BY <2>1 DEF CoordinatorsAreSound, NothingRunsBesideAHook
<1>8. CASE Join(b) \/ Emit(b) \/ Fail(b)
  <2>1. /\ UNCHANGED <<ready, prepared, task, body>>
        /\ \E p \in {"emit", "done", "failed", phase[b]} : phase' = [phase EXCEPT ![b] = p]
    BY <1>8 DEF Join, Emit, Fail, bodyVars, fileVars
  <2>2. CoordinatorsAreSound'
    BY <2>1, <1>1 DEF CoordinatorsAreSound, Phases
  <2>3. NothingRunsBesideAHook'
    BY <2>1, <1>1 DEF NothingRunsBesideAHook
  <2> QED BY <2>2, <2>3
<1> QED BY <1>3, <1>4, <1>5, <1>6, <1>7, <1>8 DEF Coordinate

\* Only a spawned task starts, and only a started one ends.
LEMMA TaskKeepsHookInv ==
  ASSUME HookInv, NEW t \in Tasks, NEW b \in Batches,
         Start(b, t) \/ StartAborted(b, t) \/ Finish(b, t) \/ DropTask(b, t)
  PROVE  HookInv'
<1> USE DEF HookInv
<1>1. /\ phase \in [Batches -> Phases]
      /\ task \in [Tasks -> TaskPoints]
      /\ body \in [Tasks -> BodyPoints]
      /\ task[t] \in TaskPoints /\ body[t] \in BodyPoints
      /\ body = [body EXCEPT ![t] = body[t]]
  BY DEF CoordinatorsAreSound
<1>2. CASE Start(b, t)
  <2>1. /\ UNCHANGED <<phase, ready, prepared>>
        /\ task[t] # "none"
        /\ task' = [task EXCEPT ![t] = "started"]
        /\ body' = [body EXCEPT ![t] = "queued"]
    BY <1>2 DEF Start, EnterGuard, Goto
  <2> QED BY <2>1, BusyCallsAreElsewhere DEF TaskPoints, BodyPoints
<1>3. CASE StartAborted(b, t)
  <2>1. /\ UNCHANGED <<phase, ready, prepared, body>>
        /\ task[t] # "none"
        /\ task' = [task EXCEPT ![t] = "done"]
    BY <1>3 DEF StartAborted, bodyVars, fileVars
  <2> QED BY <2>1, <1>1, BusyCallsAreElsewhere DEF TaskPoints
<1>4. CASE DropTask(b, t)
  <2>1. /\ UNCHANGED <<phase, ready, prepared>>
        /\ task[t] # "none"
        /\ task' = [task EXCEPT ![t] = "done"]
    BY <1>4 DEF DropTask
  <2>2. \E q \in BodyPoints : body' = [body EXCEPT ![t] = q]
    BY <1>4, <1>1 DEF DropTask, DropBody, Goto, bodyVars, fileVars, BodyPoints
  <2> QED BY <2>1, <2>2, BusyCallsAreElsewhere DEF TaskPoints
<1>5. CASE Finish(b, t) /\ b \notin Sequential
  <2>1. /\ UNCHANGED <<phase, ready, prepared, body>>
        /\ task[t] # "none"
        /\ task' = [task EXCEPT ![t] = "done"]
    BY <1>5 DEF Finish, bodyVars, fileVars
  <2> QED BY <2>1, <1>1, BusyCallsAreElsewhere DEF TaskPoints
<1>6. CASE Finish(b, t) /\ b \in Sequential
  <2>1. /\ UNCHANGED <<ready, prepared, body>>
        /\ task[t] = "started"
        /\ task' = [task EXCEPT ![t] = "done"]
        /\ phase' = [phase EXCEPT ![b] = "check"]
    BY <1>6 DEF Finish, bodyVars, fileVars
  <2>2. CoordinatorsAreSound'
    BY <2>1, <1>1 DEF CoordinatorsAreSound, Phases, TaskPoints
  <2>3. ASSUME NEW c \in Batches \ Sequential, phase'[c] \in {"prepare", "check"},
               NEW u \in ToSet(Calls[c])
        PROVE  task'[u] = "none" /\ body'[u] = "off"
    <3>1. phase[c] \in {"prepare", "check"}
      BY <2>1, <2>3, <1>1, <1>6
    <3>2. task[u] = "none" /\ body[u] = "off"
      BY <3>1, <2>3 DEF NothingRunsBesideAHook
    <3>3. u # t
      BY <3>2, <2>1
    <3> QED BY <3>2, <3>3, <2>1, <1>1
  <2> QED BY <2>2, <2>3 DEF NothingRunsBesideAHook
<1> QED BY <1>2, <1>3, <1>4, <1>5, <1>6

LEMMA HookInvariance == Spec => []HookInv
<1>1. Init => HookInv
  BY InitHookInv
<1>2. HookInv /\ [Next]_vars => HookInv'
  <2> SUFFICES ASSUME HookInv, [Next]_vars PROVE HookInv'
    OBVIOUS
  <2>1. ASSUME NEW b \in Batches, Coordinate(b) \/ AbortBatch(b) \/ Fail(b) PROVE HookInv'
    BY <2>1, CoordinatorKeepsHookInv
  <2>2. ASSUME NEW t \in Tasks, TaskStep(t) PROVE HookInv'
    BY <2>2, BodyKeepsHookInv, TaskKeepsHookInv DEF TaskStep
  <2>3. ASSUME NEW t \in Tasks, Job(t) PROVE HookInv'
    BY <2>3, BodyKeepsHookInv DEF Job
  <2>4. CASE UNCHANGED vars
    BY <2>4 DEF vars, bodyVars, fileVars, batchVars, HookInv, CoordinatorsAreSound,
           NothingRunsBesideAHook
  <2> QED BY <2>1, <2>2, <2>3, <2>4 DEF Next, Progress
<1> QED BY <1>1, <1>2, PTL DEF Spec

\* "NO tool body starts until EVERY call in the batch has been prepared": while
\* before_tool_call of a parallel batch may be waiting for a person, no call of that batch
\* has a task or a body, for any batches beside it.
THEOREM HooksStandAlone == Spec => []NothingRunsBesideAHook
<1>1. HookInv => NothingRunsBesideAHook
  BY DEF HookInv
<1> QED BY <1>1, HookInvariance, PTL

-----------------------------------------------------------------------------
(* A batch that is done is complete. *)

\* Which point of the registry goes with which point of the body.
PlaceMatchesBody(t) ==
  /\ body[t] \in {"off", "queued", "over"} => at[t] = "idle"
  /\ body[t] = "resolved" => at[t] \in {"idle", "registered"}
  /\ body[t] = "waiting" => at[t] = "claimed"
  /\ body[t] \in {"locked", "writing", "written"} => at[t] = "holding"
  /\ body[t] = "unwinding" => at[t] \in {"left", "evicting"}

PlacesMatchBodies == at \in [Tasks -> Points] /\ \A t \in Tasks : PlaceMatchesBody(t)

\* The calls a batch has prepared are those it has answered and those that have a task, or will;
\* a call is answered, or its message on the way, when its task is over.
CallsAreAccountedFor(b) ==
  /\ prepared[b] <= Len(Calls[b])
  /\ phase[b] \in {"prepare", "failed"} \/ prepared[b] > 0
  /\ ToSet(ready[b]) \cup filled[b] = {Calls[b][i] : i \in 1..prepared[b]}
  /\ ToSet(inbox[b]) \subseteq ToSet(ready[b])
  /\ \A t \in ToSet(ready[b]) : t \in ToSet(inbox[b]) \cup filled[b] => task[t] = "done"
  /\ \A t \in ToSet(Calls[b]) \ ToSet(ready[b]) : task[t] = "none"

\* A body runs inside its task.
BodiesRunInTasks(b) ==
  phase[b] # "failed" =>
    \A t \in ToSet(Calls[b]) :
      /\ task[t] \in {"none", "spawned"} => body[t] = "off"
      /\ task[t] = "done" => body[t] \in {"off", "over"}

\* A parallel batch emits nothing until every task is over, and then call by call.
ParallelResults(b) ==
  /\ phase[b] # "body"
  /\ phase[b] \in {"prepare", "check", "run"} => results[b] = <<>>
  /\ phase[b] \in {"emit", "done"} => ToSet(ready[b]) \subseteq filled[b]
  /\ phase[b] = "emit" =>
       Len(results[b]) < prepared[b] /\ results[b] = SubSeq(Calls[b], 1, Len(results[b]))
  /\ phase[b] = "done" => results[b] = SubSeq(Calls[b], 1, prepared[b])

\* A sequential batch has emitted all results but that of the call whose body runs.
SequentialResults(b) ==
  /\ phase[b] \notin {"run", "emit"}
  /\ phase[b] \in {"prepare", "check", "done"} =>
       /\ results[b] = SubSeq(Calls[b], 1, prepared[b])
       /\ \A t \in ToSet(ready[b]) : task[t] = "done"
  /\ phase[b] = "body" =>
       /\ results[b] = SubSeq(Calls[b], 1, prepared[b] - 1)
       /\ Latest(b) \in ToSet(ready[b])
       /\ \A t \in ToSet(ready[b]) \ {Latest(b)} : task[t] = "done"

BatchIsSound(b) ==
  /\ CallsAreAccountedFor(b)
  /\ BodiesRunInTasks(b)
  /\ IF b \in Sequential THEN SequentialResults(b) ELSE ParallelResults(b)

BatchInv ==
  /\ inbox \in [Batches -> Seq(Tasks)]
  /\ filled \in [Batches -> SUBSET Tasks]
  /\ results \in [Batches -> Seq(Tasks)]
  /\ \A b \in Batches : BatchIsSound(b)

\* Every step of the specification is one of these, as far as bodies and locks go: a step
\* of a body, of the pool, a start, a drop, or a token that fires.
LEMMA StepsOfBodies ==
  ASSUME [Next]_vars
  PROVE  \/ \E t \in Tasks : BodyStep(t) \/ JobStep(t) \/ EnterGuard(t) \/ DropBody(t)
         \/ \E tasks \in SUBSET Tasks : Cancel(tasks) /\ UNCHANGED fileVars
         \/ UNCHANGED bodyVars
<1>1. ASSUME NEW b \in Batches, AbortBatch(b)
      PROVE  \E tasks \in SUBSET Tasks : Cancel(tasks) /\ UNCHANGED fileVars
  <2>1. ToSet(Calls[b]) \in SUBSET Tasks
    BY CallsAssumption DEF ToSet
  <2> QED BY <1>1, <2>1 DEF AbortBatch, fileVars
<1>2. ASSUME NEW b \in Batches, Coordinate(b) \/ Fail(b) PROVE UNCHANGED bodyVars
  BY <1>2 DEF Coordinate, PrepareReady, PrepareImmediate, CheckAbort, Receive, Join, Emit, Fail
<1>3. ASSUME NEW t \in Tasks, TaskStep(t)
      PROVE  BodyStep(t) \/ EnterGuard(t) \/ DropBody(t) \/ UNCHANGED bodyVars
  BY <1>3 DEF TaskStep, Start, StartAborted, Finish, DropTask
<1> QED BY <1>1, <1>2, <1>3 DEF Next, Progress, Job, vars

\* A body's points and its task's place in the registry go together, whatever is dropped.
LEMMA PlacesInvariance == Spec => [](body \in [Tasks -> BodyPoints] /\ PlacesMatchBodies)
<1> DEFINE Inv == body \in [Tasks -> BodyPoints] /\ PlacesMatchBodies
<1>1. Init => Inv
  BY DEF Init, FileInit, LockInit, BodyPoints, Points, PlacesMatchBodies, PlaceMatchesBody
<1>2. Inv /\ [Next]_vars => Inv'
  <2> SUFFICES ASSUME Inv, [Next]_vars PROVE Inv'
    OBVIOUS
  <2>1. ASSUME NEW t \in Tasks, BodyStep(t) PROVE Inv'
    <3> USE DEF Goto, BodyPoints, Points, Referencing, lockVars, fileVars, PlacesMatchBodies, PlaceMatchesBody
    <3>1. CASE Resolve(t) \/ ResolveFails(t) \/ BeginWrite(t)
      BY <3>1 DEF Resolve, ResolveFails, BeginWrite
    <3>2. CASE Link(t) BY <3>2 DEF Link, Register
    <3>3. CASE Place(t) BY <3>3 DEF Place, Claim
    <3>4. CASE Granted(t) BY <3>4 DEF Granted, Grant
    <3>5. CASE Refused(t) BY <3>5 DEF Refused, Forfeit, LeaveLine
    <3>6. CASE AbortUnwritten(t) BY <3>6 DEF AbortUnwritten, Unlock, LeaveLine
    <3>7. CASE FinishWrite(t) BY <3>7 DEF FinishWrite, Unlock, LeaveLine
    <3>8. CASE Unreference(t) BY <3>8 DEF Unreference, DropHandle
    <3>9. CASE Return(t) BY <3>9 DEF Return, Evict
    <3> QED BY <2>1, <3>1, <3>2, <3>3, <3>4, <3>5, <3>6, <3>7, <3>8, <3>9 DEF BodyStep
  <2>2. ASSUME NEW t \in Tasks, JobStep(t) \/ EnterGuard(t) \/ DropBody(t) PROVE Inv'
    <3> USE DEF Goto, BodyPoints, Points, Referencing, lockVars, PlacesMatchBodies, PlaceMatchesBody
    <3>1. CASE OpenLands(t) BY <3>1 DEF OpenLands
    <3>2. CASE WriteLands(t) BY <3>2 DEF WriteLands
    <3>3. CASE JobFails(t) BY <3>3 DEF JobFails, Unlock, LeaveLine
    <3>4. CASE EnterGuard(t) BY <3>4 DEF EnterGuard
    <3>5. CASE DropBody(t) /\ body[t] \in {"queued", "resolved"} BY <3>5 DEF DropBody
    <3>6. CASE DropBody(t) /\ body[t] \notin {"queued", "resolved"}
      BY <3>6 DEF DropBody, Forfeit, Unlock, LeaveLine
    <3> QED BY <2>2, <3>1, <3>2, <3>3, <3>4, <3>5, <3>6 DEF JobStep
  <2>3. CASE at' = at /\ body' = body
    BY <2>3 DEF PlacesMatchBodies, PlaceMatchesBody
  <2>4. CASE \E tasks \in SUBSET Tasks : Cancel(tasks) /\ UNCHANGED fileVars
    BY <2>3, <2>4 DEF Cancel, fileVars
  <2>5. CASE UNCHANGED bodyVars
    BY <2>3, <2>5 DEF bodyVars, lockVars, fileVars
  <2> QED BY <2>1, <2>2, <2>4, <2>5, StepsOfBodies
<1> QED BY <1>1, <1>2, PTL DEF Spec

\* A body that has not begun begins only with its task, and one that is over stays over.
LEMMA IdleBodiesStay ==
  ASSUME body \in [Tasks -> BodyPoints], NEW t \in Tasks, BodyStep(t) \/ JobStep(t), NEW u \in Tasks
  PROVE  body'[u] = body[u] \/ body[u] \notin {"off", "over"}
<1>1. CASE BodyStep(t)
  BY <1>1 DEF BodyStep, Resolve, ResolveFails, Link, Place, Granted, Refused, BeginWrite, AbortUnwritten,
     FinishWrite, Unreference, Return, Goto, fileVars
<1>2. CASE JobStep(t)
  BY <1>2 DEF JobStep, OpenLands, WriteLands, JobFails, Goto
<1> QED BY <1>1, <1>2

\* The books of a batch are about its own calls: what leaves them alone keeps them.
LEMMA BatchUntouched ==
  ASSUME NEW b \in Batches, BatchIsSound(b),
         phase'[b] = phase[b], prepared'[b] = prepared[b], ready'[b] = ready[b],
         inbox'[b] = inbox[b], filled'[b] = filled[b], results'[b] = results[b],
         ToSet(ready[b]) \subseteq ToSet(Calls[b]),
         \A u \in ToSet(Calls[b]) : task'[u] = task[u] /\ (body'[u] = body[u] \/ body[u] \notin {"off", "over"})
  PROVE  BatchIsSound(b)'
<1>1. CallsAreAccountedFor(b)' BY DEF BatchIsSound, CallsAreAccountedFor
<1>2. BodiesRunInTasks(b)' BY DEF BatchIsSound, BodiesRunInTasks
<1>3. CASE b \in Sequential
  <2>1. SequentialResults(b)' BY <1>3 DEF BatchIsSound, SequentialResults, Latest
  <2> QED BY <1>1, <1>2, <1>3, <2>1 DEF BatchIsSound
<1>4. CASE b \notin Sequential
  <2>1. ParallelResults(b)' BY <1>4 DEF BatchIsSound, ParallelResults
  <2> QED BY <1>1, <1>2, <1>4, <2>1 DEF BatchIsSound
<1> QED BY <1>3, <1>4

\* The calls of a batch, by their places.
LEMMA CallsByPlace ==
  ASSUME NEW b \in Batches
  PROVE  /\ Calls[b] \in Seq(Tasks) /\ Len(Calls[b]) \in Nat /\ Len(Calls[b]) > 0
         /\ ToSet(Calls[b]) = {Calls[b][i] : i \in 1..Len(Calls[b])} /\ ToSet(Calls[b]) \subseteq Tasks
         /\ \A i, j \in 1..Len(Calls[b]) : Calls[b][i] = Calls[b][j] => i = j
         /\ \A c \in Batches : c # b => ToSet(Calls[b]) \cap ToSet(Calls[c]) = {}
<1>1. Calls[b] \in Seq(Tasks) /\ Len(Calls[b]) > 0 /\ IsInjective(Calls[b])
  BY CallsAssumption
<1>2. ToSet(Calls[b]) = {Calls[b][i] : i \in 1..Len(Calls[b])} /\ ToSet(Calls[b]) \subseteq Tasks
  BY <1>1, ToSetFacts
<1>3. \A i, j \in 1..Len(Calls[b]) : Calls[b][i] = Calls[b][j] => i = j
  BY <1>1 DEF IsInjective
<1>4. \A c \in Batches : c # b => ToSet(Calls[b]) \cap ToSet(Calls[c]) = {}
  BY CallsAssumption
<1>5. Len(Calls[b]) \in Nat BY <1>1
<1> QED BY <1>1, <1>2, <1>3, <1>4, <1>5

LEMMA InitBatchInv == Init => BatchInv
<1> SUFFICES ASSUME Init PROVE BatchInv
  OBVIOUS
<1>1. <<>> \in Seq(Tasks) OBVIOUS
<1>2. inbox \in [Batches -> Seq(Tasks)] /\ filled \in [Batches -> SUBSET Tasks] /\ results \in [Batches -> Seq(Tasks)]
  BY <1>1 DEF Init
<1>3. ASSUME NEW b \in Batches PROVE BatchIsSound(b)
  <2>1. /\ Calls[b] \in Seq(Tasks) /\ Len(Calls[b]) \in Nat /\ Len(Calls[b]) > 0 /\ ToSet(Calls[b]) \subseteq Tasks
    BY CallsByPlace
  <2>2. /\ phase[b] = "prepare" /\ ready[b] = <<>> /\ prepared[b] = 0 /\ inbox[b] = <<>> /\ filled[b] = {}
        /\ results[b] = <<>> /\ \A t \in ToSet(Calls[b]) : task[t] = "none" /\ body[t] = "off"
    BY <2>1 DEF Init, FileInit
  <2>3. ToSet(<<>>) = {} BY ToSetFacts
  <2>4. SubSeq(Calls[b], 1, 0) = <<>> BY SubSeqEmpty
  <2>5. {Calls[b][i] : i \in 1..0} = {} OBVIOUS
  <2>6. CallsAreAccountedFor(b) BY <2>1, <2>2, <2>3, <2>5 DEF CallsAreAccountedFor
  <2>7. BodiesRunInTasks(b) BY <2>2 DEF BodiesRunInTasks
  <2>8. SequentialResults(b) BY <2>2, <2>3, <2>4 DEF SequentialResults
  <2>9. ParallelResults(b) BY <2>2 DEF ParallelResults
  <2> QED BY <2>6, <2>7, <2>8, <2>9 DEF BatchIsSound
<1> QED BY <1>2, <1>3 DEF BatchInv

\* The call a coordinator prepares is the next one: it is none of those before it.
LEMMA NextCall ==
  ASSUME CoordinatorsAreSound, NEW b \in Batches, phase[b] = "prepare"
  PROVE  /\ prepared[b] \in Nat /\ prepared[b] + 1 <= Len(Calls[b])
         /\ Current(b) = Calls[b][prepared[b] + 1]
         /\ Current(b) \in ToSet(Calls[b]) /\ Current(b) \in Tasks
         /\ {Calls[b][i] : i \in 1..(prepared[b] + 1)} = {Calls[b][i] : i \in 1..prepared[b]} \cup {Current(b)}
         /\ Current(b) \notin {Calls[b][i] : i \in 1..prepared[b]}
         /\ SubSeq(Calls[b], 1, prepared[b] + 1) = Append(SubSeq(Calls[b], 1, prepared[b]), Current(b))
<1> DEFINE s == Calls[b]
           n == prepared[b]
<1>1. s \in Seq(Tasks) /\ Len(s) \in Nat /\ \A i, j \in 1..Len(s) : s[i] = s[j] => i = j
  BY CallsByPlace
<1>2. n \in Nat /\ n + 1 <= Len(s)
  <2>1. n \in Nat /\ n < Len(s) BY DEF CoordinatorsAreSound
  <2> QED BY <1>1, <2>1
<1>3. Current(b) = s[n + 1] BY DEF Current
<1>4. Current(b) \in ToSet(s) /\ Current(b) \in Tasks BY CurrentIsACall
<1> HIDE DEF s, n
<1>5. {s[i] : i \in 1..(n + 1)} = {s[i] : i \in 1..n} \cup {s[n + 1]}
  <2>1. 1..(n + 1) = (1..n) \cup {n + 1} BY <1>2
  <2> QED BY <2>1
<1>6. s[n + 1] \notin {s[i] : i \in 1..n}
  <2>1. n + 1 \in 1..Len(s) /\ \A i \in 1..n : i \in 1..Len(s) /\ i # n + 1 BY <1>1, <1>2
  <2> QED BY <1>1, <2>1
<1>7. SubSeq(s, 1, n + 1) = Append(SubSeq(s, 1, n), s[n + 1])
  BY <1>1, <1>2
<1> QED BY <1>2, <1>3, <1>4, <1>5, <1>6, <1>7 DEF s, n

\* prepare() of one more call.
LEMMA PrepareKeepsBatch ==
  ASSUME HookInv, BatchInv, NEW b \in Batches, PrepareReady(b) \/ PrepareImmediate(b)
  PROVE  BatchIsSound(b)'
<1>0. /\ phase \in [Batches -> Phases] /\ prepared \in [Batches -> Nat] /\ ready \in [Batches -> Seq(Tasks)]
      /\ task \in [Tasks -> TaskPoints] /\ filled \in [Batches -> SUBSET Tasks]
      /\ results \in [Batches -> Seq(Tasks)]
  BY DEF HookInv, CoordinatorsAreSound, BatchInv
<1>1. BatchIsSound(b) /\ phase[b] = "prepare" BY DEF BatchInv, PrepareReady, PrepareImmediate
<1> DEFINE s == Calls[b]
           n == prepared[b]
           before == {s[i] : i \in 1..n}
           m == Current(b)
<1>2. /\ n \in Nat /\ n + 1 <= Len(s) /\ m = s[n + 1] /\ m \in ToSet(s) /\ m \in Tasks
      /\ {s[i] : i \in 1..(n + 1)} = before \cup {m}
      /\ m \notin before
      /\ SubSeq(s, 1, n + 1) = Append(SubSeq(s, 1, n), m)
  BY <1>1, NextCall DEF HookInv
<1>3. /\ prepared'[b] = n + 1 /\ inbox'[b] = inbox[b] /\ body' = body
      /\ \A t \in Tasks \ {m} : task'[t] = task[t]
      /\ phase'[b] \in {"check", "body"}
  BY <1>0, <1>2 DEF PrepareReady, PrepareImmediate, bodyVars, fileVars
<1>4. /\ ToSet(ready[b]) \cup filled[b] = before /\ ToSet(inbox[b]) \subseteq ToSet(ready[b])
      /\ \A t \in ToSet(ready[b]) : t \in ToSet(inbox[b]) \cup filled[b] => task[t] = "done"
      /\ \A t \in ToSet(s) \ ToSet(ready[b]) : task[t] = "none"
  BY <1>1 DEF BatchIsSound, CallsAreAccountedFor
<1>5. task[m] = "none" /\ body[m] = "off" BY <1>1, <1>2, <1>4 DEF BatchIsSound, BodiesRunInTasks
<1>6. ToSet(s) \subseteq Tasks BY CallsByPlace
<1>7. before = {Calls[b][i] : i \in 1..prepared[b]} OBVIOUS
<1>8. {Calls[b][i] : i \in 1..prepared'[b]} = before \cup {m} BY <1>2, <1>3
<1>9. PrepareReady(b) => ToSet(ready'[b]) = ToSet(ready[b]) \cup {m}
  <2>1. PrepareReady(b) => ready'[b] = Append(ready[b], m) BY <1>0 DEF PrepareReady
  <2>2. ready[b] \in Seq(Tasks) BY <1>0
  <2>3. \A q \in Seq(Tasks) : \A x \in Tasks : ToSet(Append(q, x)) = ToSet(q) \cup {x} BY ToSetFacts
  <2>4. ToSet(Append(ready[b], m)) = ToSet(ready[b]) \cup {m} BY <1>2, <2>2, <2>3
  <2> QED BY <2>1, <2>4
<1>10. CASE PrepareReady(b)
  <2> HIDE DEF before, m, n
  <2>1. filled'[b] = filled[b] /\ results'[b] = results[b]
        /\ task'[m] = (IF b \in Sequential THEN "spawned" ELSE "none")
        /\ phase'[b] = (IF b \in Sequential THEN "body" ELSE "check")
    BY <1>0, <1>2, <1>5, <1>10 DEF PrepareReady, m
  <2>2. \A t \in ToSet(s) : t # m => task'[t] = task[t] BY <1>3, <1>6
  <2>3. m \notin ToSet(inbox[b]) \cup filled[b] \cup ToSet(ready[b]) BY <1>2, <1>4
  <2>4. ToSet(ready[b]) \subseteq ToSet(s)
    BY ReadyCallsAreCalls DEF HookInv
  <2>5. prepared'[b] <= Len(Calls[b]) /\ prepared'[b] > 0 BY <1>2, <1>3
  <2>6. ToSet(ready'[b]) \cup filled'[b] = {Calls[b][i] : i \in 1..prepared'[b]} BY <1>4, <1>8, <1>9, <1>10, <2>1
  <2>7. \A t \in ToSet(ready'[b]) : t \in ToSet(inbox'[b]) \cup filled'[b] => task'[t] = "done"
    BY <1>3, <1>4, <1>9, <1>10, <2>1, <2>2, <2>3, <2>4
  <2>8. \A t \in ToSet(Calls[b]) \ ToSet(ready'[b]) : task'[t] = "none"
    BY <1>4, <1>9, <1>10, <2>2
  <2>9. ToSet(inbox'[b]) \subseteq ToSet(ready'[b]) BY <1>3, <1>4, <1>9, <1>10
  <2>10. CallsAreAccountedFor(b)' BY <2>5, <2>6, <2>7, <2>8, <2>9 DEF CallsAreAccountedFor
  <2>11. BodiesRunInTasks(b)'
    BY <1>1, <1>3, <1>5, <2>1, <2>2 DEF BatchIsSound, BodiesRunInTasks
  <2>12. CASE b \in Sequential
    <3>1. /\ results[b] = SubSeq(s, 1, n) /\ \A t \in ToSet(ready[b]) : task[t] = "done"
      BY <1>1, <2>12 DEF BatchIsSound, SequentialResults, n
    <3>2. prepared'[b] - 1 = n BY <1>2, <1>3
    <3>3. Latest(b)' = m BY <1>2, <1>3 DEF Latest
    <3>4. SequentialResults(b)' BY <1>9, <1>10, <2>1, <2>2, <2>4, <2>12, <3>1, <3>2, <3>3 DEF SequentialResults
    <3> QED BY <2>10, <2>11, <2>12, <3>4 DEF BatchIsSound
  <2>13. CASE b \notin Sequential
    <3>1. ParallelResults(b)' BY <1>1, <2>1, <2>13 DEF BatchIsSound, ParallelResults
    <3> QED BY <2>10, <2>11, <2>13, <3>1 DEF BatchIsSound
  <2> QED BY <2>12, <2>13
<1>11. CASE PrepareImmediate(b)
  <2> HIDE DEF before, m, n
  <2>1. filled'[b] = filled[b] \cup {m} /\ ready'[b] = ready[b] /\ task' = task /\ phase'[b] = "check"
        /\ results'[b] = (IF b \in Sequential THEN Append(results[b], m) ELSE results[b])
    BY <1>0, <1>11 DEF PrepareImmediate, m
  <2>2. m \notin ToSet(ready[b]) BY <1>2, <1>4
  <2>3. prepared'[b] <= Len(Calls[b]) /\ prepared'[b] > 0 BY <1>2, <1>3
  <2>4. ToSet(ready'[b]) \cup filled'[b] = {Calls[b][i] : i \in 1..prepared'[b]} BY <1>4, <1>8, <2>1
  <2>5. CallsAreAccountedFor(b)' BY <1>3, <1>4, <2>1, <2>2, <2>3, <2>4 DEF CallsAreAccountedFor
  <2>6. BodiesRunInTasks(b)' BY <1>1, <1>3, <2>1 DEF BatchIsSound, BodiesRunInTasks
  <2>7. CASE b \in Sequential
    <3>1. /\ results[b] = SubSeq(s, 1, n) /\ \A t \in ToSet(ready[b]) : task[t] = "done"
      BY <1>1, <2>7 DEF BatchIsSound, SequentialResults, n
    <3>2. results'[b] = SubSeq(Calls[b], 1, prepared'[b]) BY <1>2, <1>3, <2>1, <2>7, <3>1
    <3>3. SequentialResults(b)' BY <2>1, <3>1, <3>2 DEF SequentialResults
    <3> QED BY <2>5, <2>6, <2>7, <3>3 DEF BatchIsSound
  <2>8. CASE b \notin Sequential
    <3>1. ParallelResults(b)' BY <1>1, <2>1, <2>8 DEF BatchIsSound, ParallelResults
    <3> QED BY <2>5, <2>6, <2>8, <3>1 DEF BatchIsSound
  <2> QED BY <2>7, <2>8
<1> QED BY <1>10, <1>11

\* The loop's bottom: on to the next call, or the tasks are spawned, or a sequential batch is done.
LEMMA CheckKeepsBatch ==
  ASSUME HookInv, BatchInv, NEW b \in Batches, CheckAbort(b)
  PROVE  BatchIsSound(b)'
<1>0. /\ phase \in [Batches -> Phases] /\ BatchIsSound(b) /\ phase[b] = "check"
      /\ UNCHANGED <<ready, prepared, inbox, filled, results, body>>
  BY DEF HookInv, CoordinatorsAreSound, BatchInv, CheckAbort, bodyVars, fileVars
<1>1. ToSet(Calls[b]) \subseteq Tasks /\ ToSet(ready[b]) \subseteq ToSet(Calls[b])
  BY CallsByPlace, ReadyCallsAreCalls DEF HookInv
<1>2. prepared[b] > 0 BY <1>0 DEF BatchIsSound, CallsAreAccountedFor
<1>3. CASE task' = task /\ phase'[b] = "prepare"
  <2>1. CallsAreAccountedFor(b)' BY <1>0, <1>3 DEF BatchIsSound, CallsAreAccountedFor
  <2>2. BodiesRunInTasks(b)' BY <1>0, <1>3 DEF BatchIsSound, BodiesRunInTasks
  <2>3. b \in Sequential => SequentialResults(b)' BY <1>0, <1>3 DEF BatchIsSound, SequentialResults
  <2>4. b \notin Sequential => ParallelResults(b)' BY <1>0, <1>3 DEF BatchIsSound, ParallelResults
  <2> QED BY <2>1, <2>2, <2>3, <2>4 DEF BatchIsSound
<1>4. CASE task' = task /\ b \in Sequential /\ phase'[b] = "done"
  <2>1. CallsAreAccountedFor(b)' BY <1>0, <1>2, <1>4 DEF BatchIsSound, CallsAreAccountedFor
  <2>2. BodiesRunInTasks(b)' BY <1>0, <1>4 DEF BatchIsSound, BodiesRunInTasks
  <2>3. SequentialResults(b)' BY <1>0, <1>4 DEF BatchIsSound, SequentialResults
  <2> QED BY <1>4, <2>1, <2>2, <2>3 DEF BatchIsSound
<1>5. CASE /\ b \notin Sequential /\ phase'[b] = "run"
           /\ task' = [t \in Tasks |-> IF t \in ToSet(ready[b]) THEN "spawned" ELSE task[t]]
  <2>1. \A t \in ToSet(Calls[b]) : task[t] = "none" /\ body[t] = "off"
    BY <1>0, <1>5 DEF HookInv, NothingRunsBesideAHook
  <2>2. \A t \in ToSet(Calls[b]) : task'[t] = IF t \in ToSet(ready[b]) THEN "spawned" ELSE "none"
    BY <1>1, <1>5, <2>1
  <2>3. \A t \in ToSet(ready[b]) : t \notin ToSet(inbox[b]) \cup filled[b]
    BY <1>0, <1>1, <2>1 DEF BatchIsSound, CallsAreAccountedFor
  <2>4. CallsAreAccountedFor(b)' BY <1>0, <1>2, <1>5, <2>2, <2>3 DEF BatchIsSound, CallsAreAccountedFor
  <2>5. BodiesRunInTasks(b)' BY <1>0, <2>1, <2>2 DEF BodiesRunInTasks
  <2>6. ParallelResults(b)' BY <1>0, <1>5 DEF BatchIsSound, ParallelResults
  <2> QED BY <1>5, <2>4, <2>5, <2>6 DEF BatchIsSound
<1> QED BY <1>0, <1>3, <1>4, <1>5 DEF CheckAbort

\* The messages of the tasks, and the end of them.
LEMMA ReceiveKeepsBatch ==
  ASSUME HookInv, BatchInv, NEW b \in Batches, Receive(b) \/ Join(b)
  PROVE  BatchIsSound(b)'
<1>0. /\ phase \in [Batches -> Phases] /\ BatchIsSound(b) /\ phase[b] = "run"
      /\ inbox \in [Batches -> Seq(Tasks)] /\ filled \in [Batches -> SUBSET Tasks]
      /\ UNCHANGED <<ready, prepared, task, results, body>>
  BY DEF HookInv, CoordinatorsAreSound, BatchInv, Receive, Join, bodyVars, fileVars
<1>1. b \notin Sequential /\ results[b] = <<>> /\ prepared[b] > 0
  BY <1>0 DEF BatchIsSound, SequentialResults, ParallelResults, CallsAreAccountedFor
<1>2. CASE Receive(b)
  <2>1. inbox[b] # <<>> /\ inbox[b] \in Seq(Tasks) BY <1>0, <1>2 DEF Receive
  <2>2. \A q \in Seq(Tasks) : q # <<>> => ToSet(q) = {Head(q)} \cup ToSet(Tail(q)) BY ToSetFacts
  <2>3. ToSet(inbox[b]) = {Head(inbox[b])} \cup ToSet(Tail(inbox[b])) BY <2>1, <2>2
  <2>4. inbox'[b] = Tail(inbox[b]) /\ filled'[b] = filled[b] \cup {Head(inbox[b])} /\ phase'[b] = "run"
    BY <1>0, <1>2 DEF Receive
  <2>5. CallsAreAccountedFor(b)' BY <1>0, <2>3, <2>4 DEF BatchIsSound, CallsAreAccountedFor
  <2>6. BodiesRunInTasks(b)' BY <1>0, <2>4 DEF BatchIsSound, BodiesRunInTasks
  <2>7. ParallelResults(b)' BY <1>0, <1>1, <2>4 DEF BatchIsSound, ParallelResults
  <2> QED BY <1>1, <2>5, <2>6, <2>7 DEF BatchIsSound
<1>3. CASE Join(b)
  <2>1. phase'[b] = "emit" /\ inbox' = inbox /\ filled' = filled /\ ToSet(ready[b]) \subseteq filled[b]
    BY <1>0, <1>3 DEF Join
  <2>2. CallsAreAccountedFor(b)' BY <1>0, <1>1, <2>1 DEF BatchIsSound, CallsAreAccountedFor
  <2>3. BodiesRunInTasks(b)' BY <1>0, <2>1 DEF BatchIsSound, BodiesRunInTasks
  <2>4. Len(results[b]) = 0 /\ SubSeq(Calls[b], 1, 0) = <<>> BY <1>1, SubSeqEmpty
  <2>5. ParallelResults(b)' BY <1>0, <1>1, <2>1, <2>4 DEF ParallelResults
  <2> QED BY <1>1, <2>2, <2>3, <2>5 DEF BatchIsSound
<1> QED BY <1>2, <1>3

\* When all are over the filled slots are those of the prepared calls, in source order.
LEMMA EmitKeepsBatch ==
  ASSUME HookInv, BatchInv, NEW b \in Batches, Emit(b)
  PROVE  BatchIsSound(b)'
<1>0. /\ phase \in [Batches -> Phases] /\ BatchIsSound(b) /\ phase[b] = "emit"
      /\ filled \in [Batches -> SUBSET Tasks] /\ results \in [Batches -> Seq(Tasks)]
      /\ prepared \in [Batches -> Nat]
      /\ UNCHANGED <<ready, prepared, inbox, filled, task, body>>
  BY DEF HookInv, CoordinatorsAreSound, BatchInv, Emit, bodyVars, fileVars
<1> DEFINE s == Calls[b]
           n == prepared[b]
           k == Len(results[b])
<1>1. /\ b \notin Sequential /\ k < n /\ results[b] = SubSeq(s, 1, k) /\ ToSet(ready[b]) \subseteq filled[b]
      /\ n <= Len(s) /\ n > 0 /\ ToSet(ready[b]) \cup filled[b] = {s[i] : i \in 1..n}
  BY <1>0 DEF BatchIsSound, SequentialResults, ParallelResults, CallsAreAccountedFor
<1>2. s \in Seq(Tasks) /\ Len(s) \in Nat /\ \A i, j \in 1..Len(s) : s[i] = s[j] => i = j
  BY CallsByPlace
<1>3. n \in Nat /\ k \in Nat BY <1>0
<1>4. Filter(s, filled[b]) = SubSeq(s, 1, n)
  <2>1. filled[b] = {s[i] : i \in 1..n} BY <1>1
  <2>2. \A i \in 1..Len(s) : s[i] \in filled[b] <=> i <= n
    <3> HIDE DEF s, n
    <3>1. \A i \in 1..n : i \in 1..Len(s) /\ i <= n BY <1>1, <1>2, <1>3
    <3>2. \A i \in 1..Len(s) : i <= n => i \in 1..n BY <1>3
    <3> QED BY <1>2, <2>1, <3>1, <3>2
  <2>3. n \in 0..Len(s) BY <1>1, <1>2, <1>3
  <2> DEFINE F == filled[b]
  <2>4. \A i \in 1..Len(s) : s[i] \in F <=> i <= n BY <2>2
  <2> HIDE DEF s, n, F
  <2>5. s \in Seq(Tasks) BY <1>2
  <2>6. Filter(s, F) = SubSeq(s, 1, n) BY <2>3, <2>4, <2>5, FilterPrefix
  <2> QED BY <2>6 DEF F
<1>5. Len(SubSeq(s, 1, n)) = n /\ SubSeq(s, 1, n)[k + 1] = s[k + 1]
  <2> HIDE DEF s, n, k
  <2> QED BY <1>1, <1>2, <1>3
<1>6. SubSeq(s, 1, k + 1) = Append(SubSeq(s, 1, k), s[k + 1])
  <2> HIDE DEF s, n, k
  <2> QED BY <1>1, <1>2, <1>3
<1>7. results'[b] = SubSeq(s, 1, k + 1) /\ phase'[b] = IF k + 1 = n THEN "done" ELSE "emit"
  <2>1. results'[b] = Append(results[b], SubSeq(s, 1, n)[k + 1])
    BY <1>0, <1>4 DEF Emit
  <2>2. phase'[b] = IF k + 1 = Len(SubSeq(s, 1, n)) THEN "done" ELSE "emit"
    BY <1>0, <1>4 DEF Emit
  <2> QED BY <1>1, <1>5, <1>6, <2>1, <2>2
<1>8. Len(results'[b]) = k + 1
  <2> HIDE DEF s, n, k
  <2> QED BY <1>1, <1>2, <1>3, <1>7
<1>9. CallsAreAccountedFor(b)' BY <1>0, <1>1 DEF BatchIsSound, CallsAreAccountedFor
<1>10. BodiesRunInTasks(b)' BY <1>0, <1>7 DEF BatchIsSound, BodiesRunInTasks
<1>11. ParallelResults(b)'
  <2>1. CASE k + 1 = n BY <1>0, <1>1, <1>7, <2>1 DEF ParallelResults
  <2>2. CASE k + 1 # n
    <3>1. k + 1 < n BY <1>1, <1>3, <2>2
    <3> QED BY <1>0, <1>1, <1>7, <1>8, <2>2, <3>1 DEF ParallelResults
  <2> QED BY <2>1, <2>2
<1> QED BY <1>1, <1>9, <1>10, <1>11 DEF BatchIsSound

\* A batch that fails owes no results.
LEMMA FailKeepsBatch ==
  ASSUME HookInv, BatchInv, NEW b \in Batches, Fail(b)
  PROVE  BatchIsSound(b)'
<1>0. /\ BatchIsSound(b) /\ phase'[b] = "failed"
      /\ UNCHANGED <<ready, prepared, inbox, filled, results, task, body>>
  BY DEF HookInv, CoordinatorsAreSound, BatchInv, Fail, bodyVars, fileVars
<1>1. CallsAreAccountedFor(b)' BY <1>0 DEF BatchIsSound, CallsAreAccountedFor
<1>2. BodiesRunInTasks(b)' BY <1>0 DEF BodiesRunInTasks
<1>3. SequentialResults(b)' BY <1>0 DEF SequentialResults
<1>4. ParallelResults(b)' BY <1>0 DEF ParallelResults
<1> QED BY <1>1, <1>2, <1>3, <1>4 DEF BatchIsSound

\* A call starts in its turn, is lost in its turn, or ends with its body: only a spawned or started
\* call of the batch moves, and of a sequential batch only the one prepared last.
LEMMA TaskKeepsBatch ==
  ASSUME HookInv, BatchInv, NEW b \in Batches, NEW t \in Tasks,
         Start(b, t) \/ StartAborted(b, t) \/ Finish(b, t) \/ DropTask(b, t)
  PROVE  BatchIsSound(b)'
<1>0. /\ phase \in [Batches -> Phases] /\ BatchIsSound(b)
      /\ task \in [Tasks -> TaskPoints] /\ body \in [Tasks -> BodyPoints]
      /\ inbox \in [Batches -> Seq(Tasks)] /\ filled \in [Batches -> SUBSET Tasks]
      /\ results \in [Batches -> Seq(Tasks)]
      /\ t \in ToSet(ready[b]) /\ task[t] \in {"spawned", "started"} /\ ready' = ready /\ prepared' = prepared
  BY DEF HookInv, CoordinatorsAreSound, BatchInv, Start, StartAborted, Finish, DropTask
<1>1. ToSet(Calls[b]) \subseteq Tasks /\ ToSet(ready[b]) \subseteq ToSet(Calls[b])
  BY CallsByPlace, ReadyCallsAreCalls DEF HookInv
<1>2. t \notin ToSet(inbox[b]) \cup filled[b] BY <1>0 DEF BatchIsSound, CallsAreAccountedFor
<1>3. b \in Sequential =>
        /\ phase[b] \in {"body", "failed"}
        /\ phase[b] = "body" => /\ t = Latest(b) /\ results[b] = SubSeq(Calls[b], 1, prepared[b] - 1)
                               /\ \A u \in ToSet(ready[b]) \ {t} : task[u] = "done"
  BY <1>0 DEF BatchIsSound, SequentialResults, Phases
<1>5. inbox[b] \in Seq(Tasks) /\ ToSet(Append(inbox[b], t)) = ToSet(inbox[b]) \cup {t}
  <2>1. \A q \in Seq(Tasks) : \A x \in Tasks : ToSet(Append(q, x)) = ToSet(q) \cup {x} BY ToSetFacts
  <2> QED BY <1>0, <2>1
<1>6. CASE Start(b, t)
  <2>1. /\ task' = [task EXCEPT ![t] = "started"] /\ body' = [body EXCEPT ![t] = "queued"]
        /\ UNCHANGED <<phase, inbox, filled, results>>
    BY <1>6 DEF Start, EnterGuard, Goto
  <2>2. \A u \in Tasks : u # t => task'[u] = task[u] /\ body'[u] = body[u] BY <1>0, <2>1
  <2>3. task'[t] = "started" BY <1>0, <2>1
  <2>4. CallsAreAccountedFor(b)' BY <1>0, <1>1, <1>2, <2>1, <2>2 DEF BatchIsSound, CallsAreAccountedFor
  <2>5. BodiesRunInTasks(b)' BY <1>0, <1>1, <2>1, <2>2, <2>3 DEF BatchIsSound, BodiesRunInTasks
  <2>6. b \in Sequential => SequentialResults(b)'
    BY <1>0, <1>1, <1>3, <2>1, <2>2 DEF SequentialResults, Latest
  <2>7. b \notin Sequential => ParallelResults(b)' BY <1>0, <2>1 DEF BatchIsSound, ParallelResults
  <2> QED BY <2>4, <2>5, <2>6, <2>7 DEF BatchIsSound
<1>7. CASE StartAborted(b, t) \/ (Finish(b, t) /\ b \notin Sequential)
  <2>1. /\ task' = [task EXCEPT ![t] = "done"] /\ body' = body /\ b \notin Sequential
        /\ inbox' = [inbox EXCEPT ![b] = Append(@, t)]
        /\ UNCHANGED <<phase, filled, results>>
        /\ task[t] = "spawned" \/ body[t] = "over"
    BY <1>7 DEF StartAborted, Finish, bodyVars, fileVars
  <2>2. \A u \in Tasks : u # t => task'[u] = task[u] BY <1>0, <2>1
  <2>3. task'[t] = "done" BY <1>0, <2>1
  <2>4. ToSet(inbox'[b]) = ToSet(inbox[b]) \cup {t} BY <1>0, <1>5, <2>1
  <2>5. CallsAreAccountedFor(b)' BY <1>0, <1>1, <2>1, <2>2, <2>3, <2>4 DEF BatchIsSound, CallsAreAccountedFor
  <2>6. phase[b] # "failed" => body[t] \in {"off", "over"} BY <1>0, <1>1, <2>1 DEF BatchIsSound, BodiesRunInTasks
  <2>7. BodiesRunInTasks(b)' BY <1>0, <1>1, <2>1, <2>2, <2>3, <2>6 DEF BatchIsSound, BodiesRunInTasks
  <2>8. ParallelResults(b)' BY <1>0, <2>1 DEF BatchIsSound, ParallelResults
  <2> QED BY <2>1, <2>5, <2>7, <2>8 DEF BatchIsSound
<1>8. CASE Finish(b, t) /\ b \in Sequential
  <2>1. /\ task' = [task EXCEPT ![t] = "done"] /\ body' = body /\ phase[b] = "body" /\ phase'[b] = "check"
        /\ body[t] = "over"
        /\ inbox' = inbox /\ filled'[b] = filled[b] \cup {t} /\ results'[b] = Append(results[b], t)
    BY <1>0, <1>8 DEF Finish, bodyVars, fileVars
  <2>2. \A u \in Tasks : u # t => task'[u] = task[u] BY <1>0, <2>1
  <2>3. task'[t] = "done" BY <1>0, <2>1
  <2>4. CallsAreAccountedFor(b)' BY <1>0, <1>1, <2>1, <2>2, <2>3 DEF BatchIsSound, CallsAreAccountedFor
  <2>5. BodiesRunInTasks(b)' BY <1>0, <1>1, <2>1, <2>2, <2>3 DEF BatchIsSound, BodiesRunInTasks
  <2>6. Append(SubSeq(Calls[b], 1, prepared[b] - 1), t) = SubSeq(Calls[b], 1, prepared[b])
    <3> DEFINE s == Calls[b]
               n == prepared[b]
    <3>1. n \in Nat /\ n > 0 /\ n <= Len(s) /\ s \in Seq(Tasks) /\ t = s[n]
      BY <1>0, <1>3, <1>8, <2>1, CallsByPlace
         DEF HookInv, CoordinatorsAreSound, BatchIsSound, CallsAreAccountedFor, Latest
    <3> HIDE DEF s, n
    <3>2. Append(SubSeq(s, 1, n - 1), s[n]) = SubSeq(s, 1, n) BY <3>1
    <3> QED BY <3>1, <3>2 DEF s, n
  <2>7. results'[b] = SubSeq(Calls[b], 1, prepared'[b]) BY <1>0, <1>3, <1>8, <2>1, <2>6
  <2>8. \A u \in ToSet(ready[b]) : task'[u] = "done" BY <1>1, <1>3, <1>8, <2>1, <2>2, <2>3
  <2>9. SequentialResults(b)' BY <1>0, <2>1, <2>7, <2>8 DEF SequentialResults
  <2> QED BY <1>8, <2>4, <2>5, <2>9 DEF BatchIsSound
<1>9. CASE DropTask(b, t)
  <2>1. /\ task' = [task EXCEPT ![t] = "done"] /\ phase[b] = "failed"
        /\ UNCHANGED <<phase, inbox, filled, results>>
    BY <1>9 DEF DropTask
  <2>2. \A u \in Tasks : u # t => task'[u] = task[u] BY <1>0, <2>1
  <2>3. task'[t] = "done" BY <1>0, <2>1
  <2>4. CallsAreAccountedFor(b)' BY <1>0, <1>1, <2>1, <2>2, <2>3 DEF BatchIsSound, CallsAreAccountedFor
  <2>5. BodiesRunInTasks(b)' BY <2>1 DEF BodiesRunInTasks
  <2>6. SequentialResults(b)' BY <2>1 DEF SequentialResults
  <2>7. ParallelResults(b)' BY <2>1 DEF ParallelResults
  <2> QED BY <2>4, <2>5, <2>6, <2>7 DEF BatchIsSound
<1> QED BY <1>6, <1>7, <1>8, <1>9

\* Every step keeps the books of every batch, the one that moves and those beside it.
LEMMA StepKeepsBatches ==
  ASSUME HookInv, BatchInv, [Next]_vars
  PROVE  BatchInv'
<1>0. /\ phase \in [Batches -> Phases] /\ prepared \in [Batches -> Nat] /\ ready \in [Batches -> Seq(Tasks)]
      /\ task \in [Tasks -> TaskPoints] /\ body \in [Tasks -> BodyPoints]
      /\ inbox \in [Batches -> Seq(Tasks)] /\ filled \in [Batches -> SUBSET Tasks]
      /\ results \in [Batches -> Seq(Tasks)]
  BY DEF HookInv, CoordinatorsAreSound, BatchInv
<1>1. \A b \in Batches :
        /\ BatchIsSound(b) /\ ToSet(Calls[b]) \subseteq Tasks /\ ToSet(ready[b]) \subseteq ToSet(Calls[b])
        /\ \A c \in Batches : c # b => ToSet(Calls[b]) \cap ToSet(Calls[c]) = {}
  BY CallsByPlace, ReadyCallsAreCalls DEF HookInv, BatchInv
<1>2. ASSUME UNCHANGED batchVars,
             \A u \in Tasks : body'[u] = body[u] \/ body[u] \notin {"off", "over"}
      PROVE  BatchInv'
  <2>1. ASSUME NEW b \in Batches PROVE BatchIsSound(b)'
    <3>1. /\ phase'[b] = phase[b] /\ prepared'[b] = prepared[b] /\ ready'[b] = ready[b]
          /\ inbox'[b] = inbox[b] /\ filled'[b] = filled[b] /\ results'[b] = results[b]
          /\ \A u \in ToSet(Calls[b]) : task'[u] = task[u] /\ (body'[u] = body[u] \/ body[u] \notin {"off", "over"})
      BY <1>1, <1>2 DEF batchVars
    <3> QED BY <1>1, <3>1, BatchUntouched
  <2> QED BY <1>2, <2>1 DEF BatchInv, batchVars
<1>3. ASSUME NEW c \in Batches, BatchIsSound(c)',
             inbox' \in [Batches -> Seq(Tasks)], filled' \in [Batches -> SUBSET Tasks],
             results' \in [Batches -> Seq(Tasks)],
             \A b \in Batches \ {c} :
               /\ phase'[b] = phase[b] /\ prepared'[b] = prepared[b] /\ ready'[b] = ready[b]
               /\ inbox'[b] = inbox[b] /\ filled'[b] = filled[b] /\ results'[b] = results[b],
             \A u \in Tasks \ ToSet(Calls[c]) : task'[u] = task[u] /\ body'[u] = body[u]
      PROVE  BatchInv'
  <2>1. ASSUME NEW b \in Batches \ {c} PROVE BatchIsSound(b)'
    <3>1. \A u \in ToSet(Calls[b]) : task'[u] = task[u] /\ (body'[u] = body[u] \/ body[u] \notin {"off", "over"})
      BY <1>1, <1>3, <2>1
    <3>2. /\ phase'[b] = phase[b] /\ prepared'[b] = prepared[b] /\ ready'[b] = ready[b]
          /\ inbox'[b] = inbox[b] /\ filled'[b] = filled[b] /\ results'[b] = results[b]
      BY <1>3, <2>1
    <3> QED BY <1>1, <3>1, <3>2, BatchUntouched
  <2> QED BY <1>3, <2>1 DEF BatchInv
<1>4. ASSUME NEW b \in Batches, Coordinate(b) \/ Fail(b) PROVE BatchInv'
  <2>1. BatchIsSound(b)'
    BY <1>4, PrepareKeepsBatch, CheckKeepsBatch, ReceiveKeepsBatch, EmitKeepsBatch, FailKeepsBatch DEF Coordinate
  <2>2. phase[b] = "prepare" => Current(b) \in Tasks /\ Current(b) \in ToSet(Calls[b])
    BY CurrentIsACall DEF HookInv
  <2>3. body' = body BY <1>4 DEF Coordinate, PrepareReady, PrepareImmediate, CheckAbort, Receive, Join, Emit, Fail,
                             bodyVars, fileVars
  <2>4. \A u \in Tasks \ ToSet(Calls[b]) : task'[u] = task[u]
    <3>1. CASE PrepareReady(b) BY <1>0, <2>2, <3>1 DEF PrepareReady
    <3>2. CASE CheckAbort(b) BY <1>1, <3>2 DEF CheckAbort
    <3> QED BY <1>4, <3>1, <3>2 DEF Coordinate, PrepareImmediate, Receive, Join, Emit, Fail
  <2>5. \A c \in Batches \ {b} :
          /\ phase'[c] = phase[c] /\ prepared'[c] = prepared[c] /\ ready'[c] = ready[c]
          /\ inbox'[c] = inbox[c] /\ filled'[c] = filled[c] /\ results'[c] = results[c]
    BY <1>0, <1>4 DEF Coordinate, PrepareReady, PrepareImmediate, CheckAbort, Receive, Join, Emit, Fail
  <2>6. inbox' \in [Batches -> Seq(Tasks)]
    <3>1. CASE Receive(b)
      <4>1. inbox[b] \in Seq(Tasks) /\ inbox[b] # <<>> BY <1>0, <3>1 DEF Receive
      <4>2. Tail(inbox[b]) \in Seq(Tasks) BY <4>1
      <4> QED BY <1>0, <3>1, <4>2 DEF Receive
    <3> QED BY <1>0, <1>4, <3>1 DEF Coordinate, PrepareReady, PrepareImmediate, CheckAbort, Join, Emit, Fail
  <2>7. filled' \in [Batches -> SUBSET Tasks]
    <3>1. CASE PrepareImmediate(b) BY <1>0, <2>2, <3>1 DEF PrepareImmediate
    <3>2. CASE Receive(b)
      <4>1. Head(inbox[b]) \in Tasks BY <1>0, <3>2 DEF Receive
      <4> QED BY <1>0, <3>2, <4>1 DEF Receive
    <3> QED BY <1>0, <1>4, <3>1, <3>2 DEF Coordinate, PrepareReady, CheckAbort, Join, Emit, Fail
  <2>8. results' \in [Batches -> Seq(Tasks)]
    <3>1. CASE PrepareImmediate(b)
      <4>1. Append(results[b], Current(b)) \in Seq(Tasks) BY <1>0, <2>2, <3>1 DEF PrepareImmediate
      <4> QED BY <1>0, <3>1, <4>1 DEF PrepareImmediate
    <3>2. CASE Emit(b)
      <4>1. /\ phase[b] = "emit" /\ b \notin Sequential /\ results'[b] \in Seq(Tasks)
        <5>1. phase[b] = "emit" BY <3>2 DEF Emit
        <5>2. b \notin Sequential BY <1>1, <5>1 DEF BatchIsSound, SequentialResults
        <5>3. \E n \in 0..Len(Calls[b]) : results'[b] = SubSeq(Calls[b], 1, n)
          <6>1. /\ phase'[b] \in {"emit", "done"} /\ prepared' = prepared
                /\ Len(results'[b]) = Len(results[b]) + 1
            BY <1>0, <3>2, <5>1 DEF Emit
          <6>2. Len(results[b]) < prepared[b] /\ prepared[b] <= Len(Calls[b]) /\ Len(results[b]) \in Nat
            BY <1>0, <1>1, <5>1, <5>2 DEF BatchIsSound, ParallelResults, CallsAreAccountedFor
          <6>3. Len(Calls[b]) \in Nat BY CallsByPlace
          <6>4. results'[b] = SubSeq(Calls[b], 1, Len(results'[b])) \/ results'[b] = SubSeq(Calls[b], 1, prepared'[b])
            BY <2>1, <5>2, <6>1 DEF BatchIsSound, ParallelResults
          <6>5. Len(results'[b]) \in 0..Len(Calls[b]) /\ prepared'[b] \in 0..Len(Calls[b])
            BY <1>0, <6>1, <6>2, <6>3
          <6> QED BY <6>4, <6>5
        <5>4. Calls[b] \in Seq(Tasks) BY CallsByPlace
        <5>5. \A s \in Seq(Tasks) : \A n \in 0..Len(s) : SubSeq(s, 1, n) \in Seq(Tasks) OBVIOUS
        <5>6. results'[b] \in Seq(Tasks) BY <5>3, <5>4, <5>5
        <5> QED BY <5>1, <5>2, <5>6
      <4> QED BY <1>0, <3>2, <4>1 DEF Emit
    <3> QED BY <1>0, <1>4, <3>1, <3>2 DEF Coordinate, PrepareReady, CheckAbort, Receive, Join, Fail
  <2> QED BY <1>3, <2>1, <2>3, <2>4, <2>5, <2>6, <2>7, <2>8
<1>5. ASSUME NEW b \in Batches, AbortBatch(b) PROVE BatchInv'
  <2>1. UNCHANGED batchVars /\ body' = body BY <1>5 DEF AbortBatch, fileVars
  <2> QED BY <1>2, <2>1
<1>6. ASSUME NEW t \in Tasks, (BodyStep(t) \/ JobStep(t)) /\ UNCHANGED batchVars PROVE BatchInv'
  <2>1. \A u \in Tasks : body'[u] = body[u] \/ body[u] \notin {"off", "over"} BY <1>0, <1>6, IdleBodiesStay
  <2> QED BY <1>2, <1>6, <2>1
<1>7. ASSUME NEW t \in Tasks, NEW b \in Batches,
             Start(b, t) \/ StartAborted(b, t) \/ Finish(b, t) \/ DropTask(b, t)
      PROVE  BatchInv'
  <2>1. BatchIsSound(b)' BY <1>7, TaskKeepsBatch
  <2>2. t \in ToSet(Calls[b]) BY <1>1, <1>7 DEF Start, StartAborted, Finish, DropTask
  <2>3. \A u \in Tasks \ {t} : task'[u] = task[u] /\ body'[u] = body[u]
    <3>1. \A u \in Tasks \ {t} : task'[u] = task[u] BY <1>0, <1>7 DEF Start, StartAborted, Finish, DropTask
    <3>2. \A u \in Tasks \ {t} : body'[u] = body[u]
      BY <1>0, <1>7 DEF Start, StartAborted, Finish, DropTask, EnterGuard, DropBody, Goto, bodyVars, fileVars
    <3> QED BY <3>1, <3>2
  <2>4. \A u \in Tasks \ ToSet(Calls[b]) : task'[u] = task[u] /\ body'[u] = body[u] BY <2>2, <2>3
  <2>5. \A c \in Batches \ {b} :
          /\ phase'[c] = phase[c] /\ prepared'[c] = prepared[c] /\ ready'[c] = ready[c]
          /\ inbox'[c] = inbox[c] /\ filled'[c] = filled[c] /\ results'[c] = results[c]
    BY <1>0, <1>7 DEF Start, StartAborted, Finish, DropTask
  <2>6. Append(inbox[b], t) \in Seq(Tasks) /\ Append(results[b], t) \in Seq(Tasks) BY <1>0
  <2>7. /\ inbox' \in [Batches -> Seq(Tasks)] /\ filled' \in [Batches -> SUBSET Tasks]
        /\ results' \in [Batches -> Seq(Tasks)]
    <3>1. CASE Start(b, t) \/ DropTask(b, t) BY <1>0, <3>1 DEF Start, DropTask
    <3>2. CASE StartAborted(b, t) BY <1>0, <2>6, <3>2 DEF StartAborted
    <3>3. CASE Finish(b, t) /\ b \in Sequential
      <4>1. /\ inbox' = inbox
            /\ filled' = [filled EXCEPT ![b] = filled[b] \cup {t}]
            /\ results' = [results EXCEPT ![b] = Append(results[b], t)]
        BY <3>3 DEF Finish
      <4>2. filled' \in [Batches -> SUBSET Tasks] BY <1>0, <4>1
      <4>3. results' \in [Batches -> Seq(Tasks)] BY <1>0, <2>6, <4>1
      <4> QED BY <1>0, <4>1, <4>2, <4>3
    <3>4. CASE Finish(b, t) /\ b \notin Sequential BY <1>0, <2>6, <3>4 DEF Finish
    <3> QED BY <1>7, <3>1, <3>2, <3>3, <3>4
  <2> QED BY <1>3, <2>1, <2>4, <2>5, <2>7
<1>8. CASE UNCHANGED vars
  <2>1. UNCHANGED batchVars /\ body' = body BY <1>8 DEF vars, bodyVars, fileVars
  <2> QED BY <1>2, <2>1
<1> QED BY <1>4, <1>5, <1>6, <1>7, <1>8 DEF Next, Progress, TaskStep, Job

\* A batch that returns has one result for each call it prepared, in the order of the message, and
\* none of its calls has a task, a body, a place in a line or a guard: for any number of batches,
\* calls and files, and whatever is aborted, refused, failing or dropped beside it.
THEOREM BatchesReturnComplete == Spec => []ReturnsComplete
<1>1. Init => BatchInv BY InitBatchInv
<1>2. HookInv /\ BatchInv /\ [Next]_vars => BatchInv' BY StepKeepsBatches
<1>3. Spec => []BatchInv BY <1>1, <1>2, HookInvariance, PTL DEF Spec
<1>4. HookInv /\ BatchInv /\ PlacesMatchBodies => ReturnsComplete
  <2> SUFFICES ASSUME HookInv, BatchInv, PlacesMatchBodies, NEW b \in Batches, phase[b] = "done"
               PROVE  /\ results[b] = SubSeq(Calls[b], 1, prepared[b])
                      /\ \A t \in ToSet(Calls[b]) : /\ task[t] \in {"none", "done"}
                                                    /\ body[t] \in {"off", "over"}
                                                    /\ at[t] = "idle"
    BY DEF ReturnsComplete
  <2>1. BatchIsSound(b) /\ ToSet(Calls[b]) \subseteq Tasks BY CallsByPlace DEF BatchInv
  <2>2. results[b] = SubSeq(Calls[b], 1, prepared[b])
    BY <2>1 DEF BatchIsSound, SequentialResults, ParallelResults
  <2>3. ASSUME NEW t \in ToSet(Calls[b]) PROVE task[t] \in {"none", "done"}
    BY <2>1, <2>3 DEF BatchIsSound, SequentialResults, ParallelResults, CallsAreAccountedFor
  <2>4. ASSUME NEW t \in ToSet(Calls[b]) PROVE body[t] \in {"off", "over"} /\ at[t] = "idle"
    <3>1. body[t] \in {"off", "over"} BY <2>1, <2>3, <2>4 DEF BatchIsSound, BodiesRunInTasks
    <3> QED BY <2>1, <2>4, <3>1 DEF PlacesMatchBodies, PlaceMatchesBody
  <2> QED BY <2>2, <2>3, <2>4
<1> QED BY <1>3, <1>4, HookInvariance, PlacesInvariance, PTL

-----------------------------------------------------------------------------
(***************************************************************************)
(* That writes of one file neither mix nor overtake each other, for any    *)
(* batches, calls, paths and failures, but of a pair that the creation of  *)
(* the file gave different keys: the start chain, the registration line    *)
(* and the line of the file's key are one order.                           *)
(***************************************************************************)

(* What is true of a call at each point of its body. *)

BodiesHaveTypes ==
  /\ path \in [Tasks -> Keys]
  /\ resolved \in [Tasks -> Keys]
  /\ exists \subseteq Files
  /\ content \in [Files -> SUBSET Tasks]
  /\ body \in [Tasks -> BodyPoints]
  /\ job \in [Tasks -> {"none", "open", "write"}]
  /\ outcome \in [Tasks -> {"none", "ok", "error", "dropped"}]
  /\ at \in [Tasks -> Points]
  /\ key \in [Tasks -> Keys]

\* In the registry a call goes by the key it resolved, its file's realpath where it found it.
KeyIsResolved(t) ==
  /\ at[t] \in {"registered", "claimed", "holding"} => key[t] = resolved[t]
  /\ body[t] \in {"resolved", "waiting", "locked", "writing", "written"} /\ t \notin guessed =>
       resolved[t] = RealPath[File(t)]

\* The blocking pool works for a body that waits for it, or for one that was dropped.
JobMatchesBody(t) ==
  /\ job[t] # "none" => body[t] = "writing" \/ outcome[t] = "dropped"
  /\ body[t] \notin {"unwinding", "over"} => outcome[t] = "none"

BodyIsSound(t) == PlaceMatchesBody(t) /\ KeyIsResolved(t) /\ JobMatchesBody(t)

BodyInv == BodiesHaveTypes /\ \A t \in Tasks : BodyIsSound(t)

-----------------------------------------------------------------------------
(* Contents. *)

Undisturbed(f) == \A t \in Tasks : File(t) = f => outcome[t] # "dropped"

\* Whoever is about to write has truncated the file, and nobody with its key has written since.
WritersFindItEmpty ==
  \A t \in Tasks : job[t] = "write" /\ Undisturbed(File(t)) =>
    \A u \in content[File(t)] : t = u \/ Rekeyed(t, u)

\* Whoever has written has its key for good.
WritersAreKeyed == \A f \in Files : \A t \in content[f] : body[t] \notin {"off", "queued"}

ContentInv == WritesDoNotMix /\ WritersFindItEmpty /\ WritersAreKeyed

-----------------------------------------------------------------------------
(* The order of a batch. *)

\* The prepared calls are in source order ...
ReadyInOrder ==
  \A b \in Batches : \A k, l \in 1..Len(ready[b]) : \A i, j \in 1..Len(Calls[b]) :
    k < l /\ Calls[b][i] = ready[b][k] /\ Calls[b][j] = ready[b][l] => i < j

\* ... and have been through prepare.
ReadyArePrepared ==
  \A b \in Batches : \A k \in 1..Len(ready[b]) : \A i \in 1..Len(Calls[b]) :
    Calls[b][i] = ready[b][k] => i <= prepared[b]

\* A call has a task only if it is one of them, and a body only if its task has begun.
TasksAreReady ==
  \A b \in Batches : \A t \in ToSet(Calls[b]) :
    /\ task[t] # "none" => t \in ToSet(ready[b])
    /\ body[t] # "off" => task[t] \in {"started", "done"}

\* A task begins, or is lost, only behind those before it.
StartsInOrder ==
  \A b \in Batches : \A k, l \in 1..Len(ready[b]) :
    k < l /\ task[ready[b][l]] \in {"started", "done"} => task[ready[b][k]] \in {"started", "done"}

ChainInv == ReadyInOrder /\ ReadyArePrepared /\ TasksAreReady /\ StartsInOrder

\* The registration line holds the calls inside guard(), each once ...
RegistrationIsSound ==
  /\ registration \in Seq(Tasks)
  /\ \A i \in 1..Len(registration) : body[registration[i]] \in {"queued", "resolved"}
  /\ \A i, j \in 1..Len(registration) : registration[i] = registration[j] => i = j
  /\ \A t \in Tasks : body[t] \in {"queued", "resolved"} =>
       \E i \in 1..Len(registration) : registration[i] = t

\* ... and the one that knows its key is its head.
ResolvedIsHead == \A t \in Tasks : body[t] = "resolved" => registration[1] = t

RegistrationInv == RegistrationIsSound /\ ResolvedIsHead

\* While a call is in the registration line, the later ones of its batch are behind it.
RegistersInOrder ==
  \A b \in Batches : \A k, l \in 1..Len(ready[b]) :
    k < l /\ body[ready[b][k]] \in {"queued", "resolved"} =>
      /\ body[ready[b][l]] \in {"off", "queued", "over"}
      /\ \A i, j \in 1..Len(registration) :
           registration[i] = ready[b][k] /\ registration[j] = ready[b][l] => i < j

\* In the line of a mutex the calls of a batch stand in source order.
LinesAreInOrder ==
  \A b \in Batches : \A k, l \in 1..Len(ready[b]) : \A m \in Mutexes :
    \A i, j \in 1..Len(line[m]) :
      k < l /\ line[m][i] = ready[b][k] /\ line[m][j] = ready[b][l] => i < j

-----------------------------------------------------------------------------
(* BodyInv is inductive. *)

LEMMA InitBodyInv == Init => BodyInv
<1> SUFFICES ASSUME Init PROVE BodyInv
  OBVIOUS
<1>1. PICK start \in Starts : path = start.path /\ exists = start.exists
  BY DEF Init, FileInit
<1>2. path \in [Tasks -> Keys] /\ exists \subseteq Files
  BY <1>1, StartsAssumption
<1>3. BodiesHaveTypes
  BY <1>2 DEF Init, FileInit, LockInit, BodiesHaveTypes, BodyPoints, Points
<1>4. \A t \in Tasks : BodyIsSound(t)
  BY <1>1, <1>2 DEF Init, FileInit, LockInit, BodyIsSound, File,
     PlaceMatchesBody, KeyIsResolved, JobMatchesBody, Referencing
<1> QED BY <1>3, <1>4 DEF BodyInv

\* What a step leaves alone of the other calls is enough for them.
LEMMA OthersStaySound ==
  ASSUME BodyInv, NEW u \in Tasks, path' = path, u \in guessed' <=> u \in guessed,
         /\ body'[u] = body[u] /\ at'[u] = at[u] /\ key'[u] = key[u]
         /\ resolved'[u] = resolved[u] /\ job'[u] = job[u] /\ outcome'[u] = outcome[u]
  PROVE  BodyIsSound(u)'
BY DEF BodyInv, BodyIsSound, File, PlaceMatchesBody, KeyIsResolved, JobMatchesBody

\* A step of one call that keeps it sound.
LEMMA OneCallMoves ==
  ASSUME BodyInv, NEW t \in Tasks, path' = path, BodiesHaveTypes',
         \A u \in Tasks \ {t} :
           /\ body'[u] = body[u] /\ at'[u] = at[u] /\ key'[u] = key[u]
           /\ resolved'[u] = resolved[u] /\ job'[u] = job[u] /\ outcome'[u] = outcome[u]
           /\ (u \in guessed' <=> u \in guessed),
         BodyIsSound(t)'
  PROVE  BodyInv'
<1>1. \A u \in Tasks \ {t} : BodyIsSound(u)'
  BY OthersStaySound
<1> QED BY <1>1 DEF BodyInv

LEMMA BodyStepKeepsBodyInv ==
  ASSUME BodyInv, NEW t \in Tasks, BodyStep(t)
  PROVE  BodyInv'
<1> DEFINE Apart == \A u \in Tasks \ {t} :
             /\ body'[u] = body[u] /\ at'[u] = at[u] /\ key'[u] = key[u]
             /\ resolved'[u] = resolved[u] /\ job'[u] = job[u] /\ outcome'[u] = outcome[u]
             /\ (u \in guessed' <=> u \in guessed)
<1> SUFFICES path' = path /\ BodiesHaveTypes' /\ Apart /\ BodyIsSound(t)'
  BY OneCallMoves
<1>1. BodiesHaveTypes /\ BodyIsSound(t) /\ File(t) \in Files
  BY PathsAssumption DEF BodyInv, BodiesHaveTypes, File
<1> USE DEF Goto, BodiesHaveTypes, BodyPoints, Points, Referencing, lockVars, fileVars
<1> USE DEF BodyIsSound, PlaceMatchesBody, KeyIsResolved, JobMatchesBody, File
<1>2. CASE Resolve(t)
  <2>1. RealPath[File(t)] \in Keys /\ path[t] \in Keys
    BY <1>1, PathsAssumption
  <2>2. body[t] = "queued" /\ body' = [body EXCEPT ![t] = "resolved"] /\ at' = at /\ key' = key
    BY <1>2 DEF Resolve
  <2>3. CASE File(t) \in exists
    <3>1. resolved' = [resolved EXCEPT ![t] = RealPath[File(t)]] /\ guessed' = guessed
      BY <1>2, <2>3 DEF Resolve
    <3> QED BY <1>1, <1>2, <2>1, <2>2, <3>1 DEF Resolve
  <2>4. CASE File(t) \notin exists
    <3>1. resolved' = [resolved EXCEPT ![t] = path[t]] /\ guessed' = guessed \cup {t}
      BY <1>2, <2>4 DEF Resolve
    <3> QED BY <1>1, <1>2, <2>1, <2>2, <3>1 DEF Resolve
  <2> QED BY <2>3, <2>4
<1>3. CASE ResolveFails(t)
  BY <1>1, <1>3 DEF ResolveFails
<1>4. CASE Link(t)
  BY <1>1, <1>4 DEF Link, Register
<1>5. CASE Place(t)
  BY <1>1, <1>5 DEF Place, Claim
<1>6. CASE Granted(t)
  BY <1>1, <1>6 DEF Granted, Grant
<1>7. CASE Refused(t)
  BY <1>1, <1>7 DEF Refused, Forfeit, LeaveLine
<1>8. CASE BeginWrite(t)
  BY <1>1, <1>8 DEF BeginWrite
<1>9. CASE AbortUnwritten(t)
  BY <1>1, <1>9 DEF AbortUnwritten, Unlock, LeaveLine
<1>10. CASE FinishWrite(t)
  BY <1>1, <1>10 DEF FinishWrite, Unlock, LeaveLine
<1>11. CASE Unreference(t)
  BY <1>1, <1>11 DEF Unreference, DropHandle
<1>12. CASE Return(t)
  BY <1>1, <1>12 DEF Return, Evict
<1> QED BY <1>2, <1>3, <1>4, <1>5, <1>6, <1>7, <1>8, <1>9, <1>10, <1>11, <1>12 DEF BodyStep

LEMMA JobStepKeepsBodyInv ==
  ASSUME BodyInv, NEW t \in Tasks, JobStep(t)
  PROVE  BodyInv'
<1> DEFINE Apart == \A u \in Tasks \ {t} :
             /\ body'[u] = body[u] /\ at'[u] = at[u] /\ key'[u] = key[u]
             /\ resolved'[u] = resolved[u] /\ job'[u] = job[u] /\ outcome'[u] = outcome[u]
             /\ (u \in guessed' <=> u \in guessed)
<1> SUFFICES path' = path /\ BodiesHaveTypes' /\ Apart /\ BodyIsSound(t)'
  BY OneCallMoves
<1>1. BodiesHaveTypes /\ BodyIsSound(t) /\ File(t) \in Files
  BY PathsAssumption DEF BodyInv, BodiesHaveTypes, File
<1> USE DEF Goto, BodiesHaveTypes, BodyPoints, Points, Referencing, lockVars
<1> USE DEF BodyIsSound, PlaceMatchesBody, KeyIsResolved, JobMatchesBody, File
<1>2. CASE OpenLands(t)
  BY <1>1, <1>2 DEF OpenLands
<1>3. CASE WriteLands(t)
  BY <1>1, <1>3 DEF WriteLands
<1>4. CASE JobFails(t)
  BY <1>1, <1>4 DEF JobFails, Unlock, LeaveLine
<1> QED BY <1>2, <1>3, <1>4 DEF JobStep

LEMMA DropKeepsBodyInv ==
  ASSUME BodyInv, NEW t \in Tasks, DropBody(t)
  PROVE  BodyInv'
<1> DEFINE Apart == \A u \in Tasks \ {t} :
             /\ body'[u] = body[u] /\ at'[u] = at[u] /\ key'[u] = key[u]
             /\ resolved'[u] = resolved[u] /\ job'[u] = job[u] /\ outcome'[u] = outcome[u]
             /\ (u \in guessed' <=> u \in guessed)
<1> SUFFICES path' = path /\ BodiesHaveTypes' /\ Apart /\ BodyIsSound(t)'
  BY OneCallMoves
<1>1. BodiesHaveTypes /\ BodyIsSound(t) /\ File(t) \in Files
  BY PathsAssumption DEF BodyInv, BodiesHaveTypes, File
<1> USE DEF Goto, BodiesHaveTypes, BodyPoints, Points, Referencing, lockVars
<1> USE DEF BodyIsSound, PlaceMatchesBody, KeyIsResolved, JobMatchesBody, File
<1>2. CASE body[t] \in {"queued", "resolved"}
  BY <1>1, <1>2 DEF DropBody
<1>3. CASE body[t] \notin {"queued", "resolved"}
  BY <1>1, <1>3 DEF DropBody, Forfeit, Unlock, LeaveLine
<1> QED BY <1>2, <1>3

LEMMA EnterKeepsBodyInv ==
  ASSUME BodyInv, NEW t \in Tasks, EnterGuard(t)
  PROVE  BodyInv'
<1>1. BodiesHaveTypes /\ BodyIsSound(t)
  BY DEF BodyInv
<1> QED BY <1>1, OneCallMoves DEF EnterGuard, Goto, BodiesHaveTypes, BodyPoints, lockVars,
        BodyIsSound, PlaceMatchesBody, KeyIsResolved, JobMatchesBody, File

LEMMA BodyInvariance == Spec => []BodyInv
<1>1. Init => BodyInv
  BY InitBodyInv
<1>2. BodyInv /\ [Next]_vars => BodyInv'
  <2> SUFFICES ASSUME BodyInv, [Next]_vars PROVE BodyInv'
    OBVIOUS
  <2>1. ASSUME NEW t \in Tasks, BodyStep(t) \/ JobStep(t) \/ EnterGuard(t) \/ DropBody(t)
        PROVE  BodyInv'
    BY <2>1, BodyStepKeepsBodyInv, JobStepKeepsBodyInv, EnterKeepsBodyInv, DropKeepsBodyInv
  <2>2. CASE UNCHANGED fileVars /\ at' = at /\ key' = key
    BY <2>2 DEF fileVars, BodyInv, BodiesHaveTypes, BodyIsSound, PlaceMatchesBody,
       KeyIsResolved, JobMatchesBody, File
  <2>3. CASE \E tasks \in SUBSET Tasks : Cancel(tasks) /\ UNCHANGED fileVars
    BY <2>3, <2>2 DEF Cancel
  <2>4. CASE UNCHANGED bodyVars
    BY <2>4, <2>2 DEF bodyVars, lockVars
  <2> QED BY <2>1, <2>3, <2>4, StepsOfBodies
<1> QED BY <1>1, <1>2, PTL DEF Spec

-----------------------------------------------------------------------------
(* Contents. *)

\* Two calls that write one undisturbed file are one, or have different keys: each holds the
\* guard of its key.
LEMMA WritersExclude ==
  ASSUME BodyInv, OneGuardPerKey, NEW t \in Tasks, NEW u \in Tasks, File(t) = File(u),
         Undisturbed(File(t)), job[t] # "none", job[u] # "none"
  PROVE  t = u \/ Rekeyed(t, u)
<1>1. outcome[t] # "dropped" /\ outcome[u] # "dropped"
  BY DEF Undisturbed
<1>2. body[t] = "writing" /\ body[u] = "writing"
  BY <1>1 DEF BodyInv, BodyIsSound, JobMatchesBody
<1>3. at[t] = "holding" /\ at[u] = "holding"
  BY <1>2 DEF BodyInv, BodyIsSound, PlaceMatchesBody
<1>4. key[t] = resolved[t] /\ key[u] = resolved[u]
  BY <1>3 DEF BodyInv, BodyIsSound, KeyIsResolved
<1>5. t \notin guessed /\ u \notin guessed => resolved[t] = resolved[u]
  BY <1>2 DEF BodyInv, BodyIsSound, KeyIsResolved
<1> QED BY <1>3, <1>4, <1>5 DEF OneGuardPerKey, Rekeyed

\* A call that has its key keeps it, and how it came by it.
LEMMA KeyedStaysKeyed ==
  ASSUME BodyInv, [Next]_vars, NEW u \in Tasks, body[u] \notin {"off", "queued"}
  PROVE  /\ body'[u] \notin {"off", "queued"}
         /\ resolved'[u] = resolved[u]
         /\ u \in guessed' <=> u \in guessed
<1>1. /\ body \in [Tasks -> BodyPoints] /\ resolved \in [Tasks -> Keys]
  BY DEF BodyInv, BodiesHaveTypes
<1> DEFINE Keeps == /\ body'[u] \notin {"off", "queued"}
                    /\ resolved'[u] = resolved[u]
                    /\ u \in guessed' <=> u \in guessed
<1>2. ASSUME NEW t \in Tasks, BodyStep(t) PROVE Keeps
  BY <1>1, <1>2 DEF BodyStep, Resolve, ResolveFails, Link, Place, Granted, Refused, BeginWrite,
     AbortUnwritten, FinishWrite, Unreference, Return, Goto, fileVars
<1>3. ASSUME NEW t \in Tasks, JobStep(t) PROVE Keeps
  BY <1>1, <1>3 DEF JobStep, OpenLands, WriteLands, JobFails, Goto
<1>4. ASSUME NEW t \in Tasks, EnterGuard(t) \/ DropBody(t) PROVE Keeps
  BY <1>1, <1>4 DEF EnterGuard, DropBody, Goto
<1>5. CASE UNCHANGED fileVars \/ UNCHANGED bodyVars
  BY <1>5 DEF fileVars, bodyVars
<1> QED BY <1>2, <1>3, <1>4, <1>5, StepsOfBodies

\* A file whose writer was dropped stays out of it.
LEMMA DroppedStaysDropped ==
  ASSUME BodyInv, [Next]_vars, NEW f, Undisturbed(f)'
  PROVE  Undisturbed(f)
<1> SUFFICES ASSUME NEW u \in Tasks, outcome[u] = "dropped"
             PROVE  outcome'[u] = "dropped" /\ File(u)' = File(u)
  BY DEF Undisturbed
<1> USE DEF File
<1>1. body[u] \in {"unwinding", "over"} /\ outcome \in [Tasks -> {"none", "ok", "error", "dropped"}]
  BY DEF BodyInv, BodiesHaveTypes, BodyIsSound, JobMatchesBody
<1>2. ASSUME NEW t \in Tasks, BodyStep(t) PROVE outcome'[u] = outcome[u] /\ path' = path
  BY <1>1, <1>2 DEF BodyStep, Resolve, ResolveFails, Link, Place, Granted, Refused, BeginWrite,
     AbortUnwritten, FinishWrite, Unreference, Return, fileVars
<1>3. ASSUME NEW t \in Tasks, JobStep(t) PROVE outcome'[u] = outcome[u] /\ path' = path
  BY <1>1, <1>3 DEF JobStep, OpenLands, WriteLands, JobFails
<1>4. ASSUME NEW t \in Tasks, EnterGuard(t) \/ DropBody(t)
      PROVE  outcome'[u] = outcome[u] /\ path' = path
  BY <1>1, <1>4 DEF EnterGuard, DropBody
<1>5. CASE UNCHANGED fileVars \/ UNCHANGED bodyVars
  BY <1>5 DEF fileVars, bodyVars
<1> QED BY <1>2, <1>3, <1>4, <1>5, StepsOfBodies

LEMMA JobKeepsContentInv ==
  ASSUME BodyInv, OneGuardPerKey, ContentInv, [Next]_vars, NEW t \in Tasks, JobStep(t)
  PROVE  ContentInv'
<1>1. /\ content \in [Files -> SUBSET Tasks] /\ job \in [Tasks -> {"none", "open", "write"}]
      /\ \A u \in Tasks : File(u) \in Files
  BY PathsAssumption DEF BodyInv, BodiesHaveTypes, File
<1>2. /\ \A u \in Tasks : File(u)' = File(u)
      /\ \A u, v : Rekeyed(u, v)' <=> Rekeyed(u, v)
  BY DEF JobStep, OpenLands, WriteLands, JobFails, File, Rekeyed
<1>3. \A f : Undisturbed(f)' => Undisturbed(f)
  BY DroppedStaysDropped
<1>4. job[t] # "none" /\ \A u \in Tasks \ {t} : job'[u] = job[u]
  BY <1>1 DEF JobStep, OpenLands, WriteLands, JobFails
<1>5. WritesDoNotMix'
  <2> SUFFICES ASSUME NEW f \in Files, Undisturbed(f)', NEW u \in content'[f], NEW v \in content'[f]
               PROVE  u = v \/ Rekeyed(u, v)
    BY <1>2 DEF WritesDoNotMix, Undisturbed
  <2>1. Undisturbed(f)
    BY <1>3
  <2>2. \A x, y \in content[f] : x = y \/ Rekeyed(x, y)
    BY <2>1 DEF ContentInv, WritesDoNotMix, Undisturbed
  <2>3. CASE OpenLands(t)
    BY <2>3, <2>2, <1>1 DEF OpenLands
  <2>4. CASE WriteLands(t)
    <3>1. File(t) = f => \A x \in content[f] : x = t \/ (Rekeyed(x, t) /\ Rekeyed(t, x))
      BY <2>1, <2>4 DEF WriteLands, ContentInv, WritersFindItEmpty, Rekeyed
    <3> QED BY <3>1, <2>2, <2>4, <1>1 DEF WriteLands
  <2>5. CASE JobFails(t)
    BY <2>5, <2>2 DEF JobFails
  <2> QED BY <2>3, <2>4, <2>5 DEF JobStep
<1>6. WritersFindItEmpty'
  <2> SUFFICES ASSUME NEW u \in Tasks, job'[u] = "write", Undisturbed(File(u))',
                      NEW v \in content'[File(u)]
               PROVE  u = v \/ Rekeyed(u, v)
    BY <1>2 DEF WritersFindItEmpty
  <2>1. Undisturbed(File(u)) /\ File(u) \in Files
    BY <1>1, <1>2, <1>3
  <2>2. v \in content[File(u)] /\ job[u] = "write" => u = v \/ Rekeyed(u, v)
    BY <2>1 DEF ContentInv, WritersFindItEmpty
  <2>3. CASE u = t
    BY <2>3, <1>1 DEF JobStep, OpenLands, WriteLands, JobFails
  <2>4. CASE u # t
    <3>1. job[u] = "write"
      BY <2>4, <1>4
    <3>2. File(u) = File(t) => Rekeyed(u, t)
      BY <2>1, <2>4, <3>1, <1>4, WritersExclude
    <3>3. v \in content[File(u)] \/ (v = t /\ File(u) = File(t))
      BY <1>1, <2>1 DEF JobStep, OpenLands, WriteLands, JobFails
    <3> QED BY <2>2, <3>1, <3>2, <3>3
  <2> QED BY <2>3, <2>4
<1>7. WritersAreKeyed'
  <2> SUFFICES ASSUME NEW f \in Files, NEW u \in content'[f]
               PROVE  body'[u] \notin {"off", "queued"}
    BY DEF WritersAreKeyed
  <2>1. u \in Tasks /\ body[u] \notin {"off", "queued"}
    <3>1. body[t] \notin {"off", "queued"}
      BY <1>4 DEF BodyInv, BodyIsSound, JobMatchesBody
    <3>2. u \in content[f] \/ u = t
      BY <1>1 DEF JobStep, OpenLands, WriteLands, JobFails
    <3> QED BY <3>1, <3>2, <1>1 DEF ContentInv, WritersAreKeyed
  <2> QED BY <2>1, KeyedStaysKeyed
<1> QED BY <1>5, <1>6, <1>7 DEF ContentInv

\* "Concurrent mutations of the same file cannot interleave/corrupt": for any batches, calls
\* and paths, a file never holds the bytes of two writers, but of a pair that its creation gave
\* different keys, provided no writer of it was dropped half way.
THEOREM FilesHaveOneWriter == Spec => []WritesDoNotMix
<1>1. Init => ContentInv
  BY DEF Init, FileInit, ContentInv, WritesDoNotMix, WritersFindItEmpty, WritersAreKeyed
<1>2. BodyInv /\ OneGuardPerKey /\ ContentInv /\ [Next]_vars => ContentInv'
  <2> SUFFICES ASSUME BodyInv, OneGuardPerKey, ContentInv, [Next]_vars PROVE ContentInv'
    OBVIOUS
  <2>1. ASSUME NEW t \in Tasks, JobStep(t) PROVE ContentInv'
    BY <2>1, JobKeepsContentInv
  <2>2. ASSUME content' = content, path' = path,
               \A u \in Tasks : job'[u] = "write" => job[u] = "write"
        PROVE  ContentInv'
    <3>1. \A f : Undisturbed(f)' => Undisturbed(f)
      BY DroppedStaysDropped
    <3>2. \A u \in Tasks : File(u)' = File(u) /\ File(u) \in Files
      BY <2>2, PathsAssumption DEF File, BodyInv, BodiesHaveTypes
    <3>3. \A f \in Files : \A u \in content[f] :
            u \in Tasks /\ body[u] \notin {"off", "queued"} /\ body'[u] \notin {"off", "queued"}
      BY KeyedStaysKeyed DEF ContentInv, WritersAreKeyed, BodyInv, BodiesHaveTypes
    <3>4. \A u, v \in Tasks : body[u] \notin {"off", "queued"} /\ body[v] \notin {"off", "queued"} =>
            (Rekeyed(u, v)' <=> Rekeyed(u, v))
      BY KeyedStaysKeyed DEF Rekeyed
    <3>5. WritesDoNotMix'
      <4> SUFFICES ASSUME NEW f \in Files, Undisturbed(f)', NEW u \in content[f], NEW v \in content[f]
                   PROVE  u = v \/ Rekeyed(u, v)'
        BY <2>2 DEF WritesDoNotMix, Undisturbed
      <4>1. u = v \/ Rekeyed(u, v)
        BY <3>1 DEF ContentInv, WritesDoNotMix, Undisturbed
      <4> QED BY <4>1, <3>3, <3>4
    <3>6. WritersFindItEmpty'
      <4> SUFFICES ASSUME NEW u \in Tasks, job'[u] = "write", Undisturbed(File(u))',
                          NEW v \in content[File(u)]
                   PROVE  u = v \/ Rekeyed(u, v)'
        BY <2>2, <3>2 DEF WritersFindItEmpty
      <4>1. u = v \/ Rekeyed(u, v)
        BY <2>2, <3>1, <3>2 DEF ContentInv, WritersFindItEmpty
      <4>2. body[u] \notin {"off", "queued"}
        BY <2>2 DEF BodyInv, BodyIsSound, JobMatchesBody
      <4> QED BY <4>1, <4>2, <3>2, <3>3, <3>4
    <3>7. WritersAreKeyed'
      BY <2>2, <3>3 DEF WritersAreKeyed
    <3> QED BY <3>5, <3>6, <3>7 DEF ContentInv
  <2>3. ASSUME NEW t \in Tasks, BodyStep(t) PROVE ContentInv'
    <3>1. job \in [Tasks -> {"none", "open", "write"}]
      BY DEF BodyInv, BodiesHaveTypes
    <3>2. content' = content /\ path' = path /\ \A u \in Tasks : job'[u] = "write" => job[u] = "write"
      BY <2>3, <3>1 DEF BodyStep, Resolve, ResolveFails, Link, Place, Granted, Refused, BeginWrite,
         AbortUnwritten, FinishWrite, Unreference, Return, fileVars
    <3> QED BY <3>2, <2>2
  <2>4. ASSUME NEW t \in Tasks, EnterGuard(t) \/ DropBody(t) PROVE ContentInv'
    BY <2>4, <2>2 DEF EnterGuard, DropBody
  <2>5. CASE UNCHANGED fileVars \/ UNCHANGED bodyVars
    BY <2>5, <2>2 DEF fileVars, bodyVars
  <2> QED BY <2>1, <2>3, <2>4, <2>5, StepsOfBodies
<1>3. ContentInv => WritesDoNotMix
  BY DEF ContentInv
<1> QED BY <1>1, <1>2, <1>3, BodyInvariance, CallsExclude, PTL DEF Spec

-----------------------------------------------------------------------------
(* The registration line: what each step does to it and to the body it moves. *)

\* t takes the last place.
Enters(t) ==
  /\ body[t] = "off"
  /\ body' = [body EXCEPT ![t] = "queued"]
  /\ registration' = Append(registration, t)

\* t, the head, learns its key.
Resolves(t) ==
  /\ body[t] = "queued" /\ registration[1] = t
  /\ body' = [body EXCEPT ![t] = "resolved"]
  /\ registration' = registration

\* t leaves the line, from wherever it stands.
Leaves(t) ==
  /\ body[t] \in {"queued", "resolved"}
  /\ body[t] = "queued" => body'[t] = "over"
  /\ \E q \in {"waiting", "over"} : body' = [body EXCEPT ![t] = q]
  /\ \E p \in 1..Len(registration) :
       /\ registration[p] = t
       /\ registration' \in Seq(Tasks)
       /\ Len(registration') = Len(registration) - 1
       /\ \A j \in 1..Len(registration) - 1 :
            registration'[j] = IF j < p THEN registration[j] ELSE registration[j + 1]

\* t goes on behind the line, or nothing happens that the line hears of.
GoesOn(t) ==
  /\ body[t] \in {"waiting", "locked", "writing", "written", "unwinding"}
  /\ \E q \in {"waiting", "locked", "writing", "written", "unwinding", "over"} :
       body' = [body EXCEPT ![t] = q]
  /\ registration' = registration

Stays == body' = body /\ registration' = registration

LineMoves == Stays \/ \E t \in Tasks : Enters(t) \/ Resolves(t) \/ Leaves(t) \/ GoesOn(t)

\* A call inside guard() stands in the line.
LEMMA QueuedIsInLine ==
  ASSUME RegistrationInv, NEW t \in Tasks, body[t] \in {"queued", "resolved"}
  PROVE  /\ registration \in Seq(Tasks) /\ Len(registration) \in Nat /\ registration # <<>>
         /\ \E i \in 1..Len(registration) : registration[i] = t
         /\ Head(registration) = registration[1]
BY DEF RegistrationInv, RegistrationIsSound

\* The head that leaves takes the first place with it.
LEMMA TailFacts ==
  ASSUME NEW S, NEW s \in Seq(S), s # <<>>
  PROVE  /\ Tail(s) \in Seq(S) /\ 1 \in 1..Len(s)
         /\ Len(Tail(s)) = Len(s) - 1
         /\ \A j \in 1..Len(s) - 1 : Tail(s)[j] = IF j < 1 THEN s[j] ELSE s[j + 1]
OBVIOUS

LEMMA BodyStepMovesTheLine ==
  ASSUME BodyInv, RegistrationInv, NEW t \in Tasks, BodyStep(t)
  PROVE  LineMoves
<1>1. body \in [Tasks -> BodyPoints]
  BY DEF BodyInv, BodiesHaveTypes
<1>2. CASE Resolve(t)
  BY <1>2, QueuedIsInLine DEF Resolve, Goto, LineMoves, Resolves
<1>3. CASE ResolveFails(t) \/ Place(t)
  <2>1. /\ body[t] \in {"queued", "resolved"}
        /\ registration' = Tail(registration)
        /\ \/ body[t] = "queued" /\ body' = [body EXCEPT ![t] = "over"]
           \/ body[t] = "resolved" /\ body' = [body EXCEPT ![t] = "waiting"]
    BY <1>3 DEF ResolveFails, Place, Goto
  <2>2. registration[1] = t
    BY <1>3, <2>1, QueuedIsInLine DEF ResolveFails, Place, RegistrationInv, ResolvedIsHead
  <2>3. registration \in Seq(Tasks) /\ registration # <<>>
    BY <2>1, QueuedIsInLine
  <2> DEFINE r == Tail(registration)
  <2>4. /\ r \in Seq(Tasks) /\ 1 \in 1..Len(registration)
        /\ Len(r) = Len(registration) - 1
        /\ \A j \in 1..Len(registration) - 1 :
             r[j] = IF j < 1 THEN registration[j] ELSE registration[j + 1]
    BY <2>3, TailFacts
  <2> HIDE DEF r
  <2>5. registration' = r
    BY <2>1 DEF r
  <2>6. Leaves(t)
    <3>1. body[t] \in {"queued", "resolved"} /\ (body[t] = "queued" => body'[t] = "over")
      BY <1>1, <2>1
    <3>2. \E q \in {"waiting", "over"} : body' = [body EXCEPT ![t] = q]
      BY <2>1
    <3>3. \E p \in 1..Len(registration) :
            /\ registration[p] = t
            /\ registration' \in Seq(Tasks)
            /\ Len(registration') = Len(registration) - 1
            /\ \A j \in 1..Len(registration) - 1 :
                 registration'[j] = IF j < p THEN registration[j] ELSE registration[j + 1]
      BY <2>2, <2>4, <2>5
    <3> QED BY <3>1, <3>2, <3>3 DEF Leaves
  <2> QED BY <2>6 DEF LineMoves
<1>4. CASE Link(t)
  BY <1>4 DEF Link, fileVars, LineMoves, Stays
<1>5. CASE Granted(t) \/ Refused(t) \/ BeginWrite(t) \/ AbortUnwritten(t)
  BY <1>5 DEF Granted, Refused, BeginWrite, AbortUnwritten, Goto, LineMoves, GoesOn
<1>6. CASE FinishWrite(t) \/ Return(t)
  BY <1>6 DEF FinishWrite, Return, Goto, LineMoves, GoesOn
<1>7. CASE Unreference(t)
  BY <1>7 DEF Unreference, fileVars, LineMoves, Stays
<1> QED BY <1>2, <1>3, <1>4, <1>5, <1>6, <1>7 DEF BodyStep

LEMMA DropMovesTheLine ==
  ASSUME BodyInv, RegistrationInv, NEW t \in Tasks, DropBody(t)
  PROVE  LineMoves
<1>1. body \in [Tasks -> BodyPoints]
  BY DEF BodyInv, BodiesHaveTypes
<1>2. CASE body[t] \in {"queued", "resolved"}
  <2>1. registration \in Seq(Tasks)
    BY DEF RegistrationInv, RegistrationIsSound
  <2>2. PICK p \in 1..Len(registration) :
          registration[p] = t /\ registration' = RemoveAt(registration, p)
    BY <1>2 DEF DropBody
  <2> DEFINE r == RemoveAt(registration, p)
  <2>3. /\ r \in Seq(Tasks)
        /\ Len(r) = Len(registration) - 1
        /\ \A j \in 1..Len(registration) - 1 :
             r[j] = IF j < p THEN registration[j] ELSE registration[j + 1]
    BY <2>1, RemoveAtFacts
  <2> HIDE DEF r
  <2>4. registration' = r /\ body' = [body EXCEPT ![t] = "over"]
    BY <1>2, <2>2 DEF r, DropBody, Goto
  <2>5. Leaves(t)
    BY <1>1, <1>2, <2>2, <2>3, <2>4 DEF Leaves
  <2> QED BY <2>5 DEF LineMoves
<1>3. CASE body[t] \notin {"queued", "resolved"}
  BY <1>3 DEF DropBody, Goto, LineMoves, GoesOn
<1> QED BY <1>2, <1>3

LEMMA JobMovesNoLine ==
  ASSUME BodyInv, NEW t \in Tasks, JobStep(t)
  PROVE  LineMoves
<1>1. body \in [Tasks -> BodyPoints] /\ body = [body EXCEPT ![t] = body[t]]
  BY DEF BodyInv, BodiesHaveTypes
<1>2. CASE OpenLands(t)
  BY <1>2 DEF OpenLands, LineMoves, Stays
<1>3. CASE WriteLands(t)
  <2>1. CASE body[t] = "writing"
    BY <1>3, <2>1 DEF WriteLands, LineMoves, GoesOn
  <2>2. CASE body[t] # "writing"
    BY <1>1, <1>3, <2>2 DEF WriteLands, LineMoves, Stays
  <2> QED BY <2>1, <2>2
<1>4. CASE JobFails(t)
  BY <1>4 DEF JobFails, Goto, LineMoves, GoesOn, Stays
<1> QED BY <1>2, <1>3, <1>4 DEF JobStep

LEMMA StepsMoveTheLine ==
  ASSUME BodyInv, RegistrationInv, [Next]_vars
  PROVE  LineMoves
<1>1. ASSUME NEW t \in Tasks, EnterGuard(t) PROVE LineMoves
  BY <1>1 DEF EnterGuard, Goto, LineMoves, Enters
<1>2. CASE UNCHANGED fileVars \/ UNCHANGED bodyVars
  BY <1>2 DEF fileVars, bodyVars, LineMoves, Stays
<1> QED BY <1>1, <1>2, StepsOfBodies, BodyStepMovesTheLine, DropMovesTheLine, JobMovesNoLine

LEMMA LineMovesKeepRegistration ==
  ASSUME BodyInv, RegistrationInv, LineMoves
  PROVE  RegistrationInv'
<1>1. body \in [Tasks -> BodyPoints]
  BY DEF BodyInv, BodiesHaveTypes
<1>2. /\ registration \in Seq(Tasks) /\ Len(registration) \in Nat
      /\ \A i \in 1..Len(registration) : registration[i] \in Tasks
      /\ \A i \in 1..Len(registration) : body[registration[i]] \in {"queued", "resolved"}
      /\ \A i, j \in 1..Len(registration) : registration[i] = registration[j] => i = j
      /\ \A t \in Tasks : body[t] \in {"queued", "resolved"} =>
           \E i \in 1..Len(registration) : registration[i] = t
      /\ \A t \in Tasks : body[t] = "resolved" => registration[1] = t
  BY DEF RegistrationInv, RegistrationIsSound, ResolvedIsHead
<1>3. CASE Stays
  BY <1>3 DEF Stays, RegistrationInv, RegistrationIsSound, ResolvedIsHead
<1>4. ASSUME NEW t \in Tasks, Enters(t) PROVE RegistrationInv'
  <2>1. body'[t] = "queued" /\ \A u \in Tasks \ {t} : body'[u] = body[u]
    BY <1>1, <1>4 DEF Enters
  <2>2. /\ registration' \in Seq(Tasks)
        /\ Len(registration') = Len(registration) + 1
        /\ registration'[Len(registration) + 1] = t
        /\ \A i \in 1..Len(registration) : registration'[i] = registration[i]
    BY <1>2, <1>4 DEF Enters
  <2>3. \A i \in 1..Len(registration) : registration[i] \in Tasks \ {t}
    BY <1>2, <1>4 DEF Enters
  <2>4. \A i \in 1..Len(registration') : body'[registration'[i]] \in {"queued", "resolved"}
    <3> SUFFICES ASSUME NEW i \in 1..Len(registration')
                 PROVE  body'[registration'[i]] \in {"queued", "resolved"}
      OBVIOUS
    <3>1. CASE i = Len(registration) + 1
      BY <3>1, <2>1, <2>2
    <3>2. CASE i # Len(registration) + 1
      BY <3>2, <1>2, <2>1, <2>2, <2>3
    <3> QED BY <3>1, <3>2
  <2>5. \A i, j \in 1..Len(registration') : registration'[i] = registration'[j] => i = j
    BY <1>2, <2>2, <2>3
  <2>6. \A u \in Tasks : body'[u] \in {"queued", "resolved"} =>
          \E i \in 1..Len(registration') : registration'[i] = u
    <3> SUFFICES ASSUME NEW u \in Tasks, body'[u] \in {"queued", "resolved"}
                 PROVE  \E i \in 1..Len(registration') : registration'[i] = u
      OBVIOUS
    <3>1. CASE u = t
      BY <3>1, <1>2, <2>2
    <3>2. CASE u # t
      BY <3>2, <1>2, <2>1, <2>2
    <3> QED BY <3>1, <3>2
  <2>7. \A u \in Tasks : body'[u] = "resolved" => registration'[1] = u
    BY <1>2, <2>1, <2>2
  <2> QED BY <2>2, <2>4, <2>5, <2>6, <2>7 DEF RegistrationInv, RegistrationIsSound, ResolvedIsHead
<1>5. ASSUME NEW t \in Tasks, Resolves(t) PROVE RegistrationInv'
  <2>1. /\ body'[t] = "resolved" /\ \A u \in Tasks \ {t} : body'[u] = body[u]
        /\ registration' = registration /\ registration[1] = t
    BY <1>1, <1>5 DEF Resolves
  <2>2. \A i \in 1..Len(registration) : body'[registration[i]] \in {"queued", "resolved"}
    BY <1>2, <2>1
  <2>3. body[t] \in {"queued", "resolved"}
    BY <1>5 DEF Resolves
  <2>4. \A u \in Tasks : body'[u] \in {"queued", "resolved"} =>
          \E i \in 1..Len(registration) : registration[i] = u
    BY <1>2, <2>1, <2>3
  <2>5. \A u \in Tasks : body'[u] = "resolved" => registration[1] = u
    BY <1>2, <2>1
  <2> QED BY <1>2, <2>1, <2>2, <2>4, <2>5 DEF RegistrationInv, RegistrationIsSound, ResolvedIsHead
<1>6. ASSUME NEW t \in Tasks, Leaves(t) PROVE RegistrationInv'
  <2>1. body'[t] \notin {"queued", "resolved"} /\ \A u \in Tasks \ {t} : body'[u] = body[u]
    BY <1>1, <1>6 DEF Leaves
  <2>2. PICK p \in 1..Len(registration) :
          /\ registration[p] = t
          /\ registration' \in Seq(Tasks)
          /\ Len(registration') = Len(registration) - 1
          /\ \A j \in 1..Len(registration) - 1 :
               registration'[j] = IF j < p THEN registration[j] ELSE registration[j + 1]
    BY <1>6 DEF Leaves
  <2>3. \A j \in 1..Len(registration') : registration'[j] \in Tasks \ {t}
    BY <1>2, <2>2
  <2>4. \A j \in 1..Len(registration') : body'[registration'[j]] \in {"queued", "resolved"}
    <3>1. \A j \in 1..Len(registration') : body[registration'[j]] \in {"queued", "resolved"}
      BY <1>2, <2>2
    <3> QED BY <3>1, <2>1, <2>3
  <2>5. \A i, j \in 1..Len(registration') : registration'[i] = registration'[j] => i = j
    BY <1>2, <2>2
  <2>6. \A u \in Tasks : body'[u] \in {"queued", "resolved"} =>
          \E i \in 1..Len(registration') : registration'[i] = u
    <3> SUFFICES ASSUME NEW u \in Tasks, body'[u] \in {"queued", "resolved"}
                 PROVE  \E i \in 1..Len(registration') : registration'[i] = u
      OBVIOUS
    <3>1. u # t /\ body[u] \in {"queued", "resolved"}
      BY <2>1
    <3>2. PICK i \in 1..Len(registration) : registration[i] = u
      BY <3>1, <1>2
    <3>3. CASE i < p
      <4>1. i \in 1..Len(registration') /\ registration'[i] = u
        BY <3>2, <3>3, <1>2, <2>2
      <4> QED BY <4>1
    <3>4. CASE p < i
      <4>1. i - 1 \in 1..Len(registration') /\ registration'[i - 1] = u
        BY <3>2, <3>4, <1>2, <2>2
      <4> QED BY <4>1
    <3>5. i # p
      BY <3>1, <3>2, <2>2
    <3> QED BY <3>3, <3>4, <3>5, <1>2
  <2>7. \A u \in Tasks : body'[u] = "resolved" => registration'[1] = u
    <3> SUFFICES ASSUME NEW u \in Tasks, body'[u] = "resolved" PROVE registration'[1] = u
      OBVIOUS
    <3>1. u # t /\ body[u] = "resolved" /\ registration[1] = u
      BY <1>2, <2>1
    <3>2. p # 1
      BY <3>1, <2>2
    <3> QED BY <3>1, <3>2, <1>2, <2>2
  <2> QED BY <2>2, <2>4, <2>5, <2>6, <2>7 DEF RegistrationInv, RegistrationIsSound, ResolvedIsHead
<1>7. ASSUME NEW t \in Tasks, GoesOn(t) PROVE RegistrationInv'
  <2>1. /\ body[t] \notin {"queued", "resolved"} /\ body'[t] \notin {"queued", "resolved"}
        /\ \A u \in Tasks \ {t} : body'[u] = body[u]
        /\ registration' = registration
    BY <1>1, <1>7 DEF GoesOn
  <2>2. \A i \in 1..Len(registration) : body'[registration[i]] \in {"queued", "resolved"}
    BY <1>2, <2>1
  <2>3. \A u \in Tasks : body'[u] \in {"queued", "resolved"} => u # t /\ body'[u] = body[u]
    BY <2>1
  <2> QED BY <1>2, <2>1, <2>2, <2>3 DEF RegistrationInv, RegistrationIsSound, ResolvedIsHead
<1> QED BY <1>3, <1>4, <1>5, <1>6, <1>7 DEF LineMoves

-----------------------------------------------------------------------------
(* The order of the registration line. *)

LEMMA ReadyCallsAreApart ==
  ASSUME CoordinatorsAreSound, ChainInv, NEW b \in Batches,
         NEW k \in 1..Len(ready[b]), NEW l \in 1..Len(ready[b]), k < l
  PROVE  /\ ready[b][k] \in Tasks /\ ready[b][k] \in ToSet(Calls[b])
         /\ ready[b][l] \in Tasks /\ ready[b][l] \in ToSet(Calls[b])
         /\ ready[b][k] # ready[b][l]
<1>1. ready[b] \in Seq(Tasks) /\ Calls[b] \in Seq(Tasks)
  BY CallsAssumption DEF CoordinatorsAreSound
<1>2. ready[b][k] \in ToSet(Calls[b]) /\ ready[b][l] \in ToSet(Calls[b])
  BY DEF CoordinatorsAreSound
<1>3. PICK i \in 1..Len(Calls[b]) : Calls[b][i] = ready[b][k]
  BY <1>1, <1>2, SMTT(30) DEF ToSet
<1>4. ready[b][k] # ready[b][l]
  BY <1>3, <1>1 DEF ChainInv, ReadyInOrder
<1> QED BY <1>1, <1>2, <1>4

\* Entering and leaving keep the later calls of a batch behind the earlier ones.
LEMMA LineMovesKeepOrder ==
  ASSUME BodyInv, RegistrationInv, CoordinatorsAreSound, ChainInv, RegistersInOrder,
         LineMoves, ready' = ready, \A t \in Tasks : Enters(t) => task[t] = "spawned"
  PROVE  RegistersInOrder'
<1> SUFFICES ASSUME NEW b \in Batches, NEW k \in 1..Len(ready[b]), NEW l \in 1..Len(ready[b]),
                    k < l, body'[ready[b][k]] \in {"queued", "resolved"}
             PROVE  /\ body'[ready[b][l]] \in {"off", "queued", "over"}
                    /\ \A i, j \in 1..Len(registration') :
                         registration'[i] = ready[b][k] /\ registration'[j] = ready[b][l] => i < j
  BY DEF RegistersInOrder
<1> DEFINE x == ready[b][k]
           y == ready[b][l]
<1>1. x \in Tasks /\ y \in Tasks /\ x # y /\ x \in ToSet(Calls[b]) /\ y \in ToSet(Calls[b])
  BY ReadyCallsAreApart
<1>2. body[x] \in {"queued", "resolved"} =>
        /\ body[y] \in {"off", "queued", "over"}
        /\ \A i, j \in 1..Len(registration) :
             registration[i] = x /\ registration[j] = y => i < j
  BY DEF RegistersInOrder
<1>3. task[y] \in {"started", "done"} => task[x] \in {"started", "done"}
  BY DEF ChainInv, StartsInOrder
<1>4. body[y] # "off" => task[y] \in {"started", "done"}
  BY <1>1 DEF ChainInv, TasksAreReady
<1>5. body \in [Tasks -> BodyPoints]
  BY DEF BodyInv, BodiesHaveTypes
<1>6. /\ registration \in Seq(Tasks) /\ Len(registration) \in Nat
      /\ \A i \in 1..Len(registration) : body[registration[i]] \in {"queued", "resolved"}
      /\ body[x] \in {"queued", "resolved"} =>
           \E i \in 1..Len(registration) : registration[i] = x
  BY <1>1 DEF RegistrationInv, RegistrationIsSound
<1> HIDE DEF x, y
<1> SUFFICES /\ body'[y] \in {"off", "queued", "over"}
             /\ \A i, j \in 1..Len(registration') :
                  registration'[i] = x /\ registration'[j] = y => i < j
  BY DEF x, y
<1>7. body'[x] \in {"queued", "resolved"}
  BY DEF x
<1>8. CASE Stays
  BY <1>2, <1>7, <1>8 DEF Stays
<1>9. ASSUME NEW t \in Tasks, Enters(t)
      PROVE  /\ body'[y] \in {"off", "queued", "over"}
             /\ \A i, j \in 1..Len(registration') :
                  registration'[i] = x /\ registration'[j] = y => i < j
  <2>1. body'[t] = "queued" /\ body[t] = "off" /\ \A u \in Tasks \ {t} : body'[u] = body[u]
    BY <1>5, <1>9 DEF Enters
  <2>2. /\ Len(registration') = Len(registration) + 1
        /\ registration'[Len(registration) + 1] = t
        /\ \A i \in 1..Len(registration) : registration'[i] = registration[i]
    BY <1>6, <1>9 DEF Enters
  <2>3. \A i \in 1..Len(registration) : registration[i] # t
    BY <1>6, <2>1
  <2>4. CASE t = x
    <3>1. body[y] = "off"
      BY <1>3, <1>4, <1>9, <2>4
    <3>2. body'[y] = "off" /\ \A j \in 1..Len(registration) : registration[j] # y
      BY <3>1, <1>1, <1>6, <2>1, <2>4
    <3> QED BY <3>2, <1>1, <1>6, <2>2, <2>4
  <2>5. CASE t # x
    <3>1. body[x] \in {"queued", "resolved"}
      BY <2>5, <2>1, <1>1, <1>7
    <3>2. body'[y] \in {"off", "queued", "over"}
      BY <3>1, <1>1, <1>2, <2>1
    <3>3. ASSUME NEW i \in 1..Len(registration'), NEW j \in 1..Len(registration'),
                 registration'[i] = x, registration'[j] = y
          PROVE  i < j
      <4>1. i \in 1..Len(registration) /\ registration[i] = x
        BY <3>3, <2>5, <2>2, <1>6
      <4>2. CASE j = Len(registration) + 1
        BY <4>1, <4>2, <1>6
      <4>3. CASE j # Len(registration) + 1
        <5>1. j \in 1..Len(registration) /\ registration[j] = y
          BY <3>3, <4>3, <2>2, <1>6
        <5> QED BY <4>1, <5>1, <3>1, <1>2
      <4> QED BY <4>2, <4>3
    <3> QED BY <3>2, <3>3
  <2> QED BY <2>4, <2>5
<1>10. ASSUME NEW t \in Tasks, Resolves(t)
       PROVE  /\ body'[y] \in {"off", "queued", "over"}
              /\ \A i, j \in 1..Len(registration') :
                   registration'[i] = x /\ registration'[j] = y => i < j
  <2>1. /\ body'[t] = "resolved" /\ body[t] = "queued"
        /\ \A u \in Tasks \ {t} : body'[u] = body[u]
        /\ registration' = registration /\ registration[1] = t
    BY <1>5, <1>10 DEF Resolves
  <2>2. body[x] \in {"queued", "resolved"}
    BY <2>1, <1>1, <1>7
  <2>3. PICK i \in 1..Len(registration) : registration[i] = x
    BY <2>2, <1>6
  <2>4. t # y
    <3> SUFFICES ASSUME t = y PROVE FALSE
      OBVIOUS
    <3>1. 1 \in 1..Len(registration) /\ registration[1] = y
      BY <2>1, <2>3, <1>6
    <3>2. i < 1
      BY <3>1, <2>2, <2>3, <1>2
    <3> QED BY <3>2, <2>3
  <2> QED BY <2>1, <2>2, <2>4, <1>1, <1>2
<1>11. ASSUME NEW t \in Tasks, Leaves(t)
       PROVE  /\ body'[y] \in {"off", "queued", "over"}
              /\ \A i, j \in 1..Len(registration') :
                   registration'[i] = x /\ registration'[j] = y => i < j
  <2>1. /\ body'[t] \notin {"queued", "resolved"} /\ \A u \in Tasks \ {t} : body'[u] = body[u]
        /\ body[t] = "queued" => body'[t] = "over"
        /\ body[t] \in {"queued", "resolved"}
    BY <1>5, <1>11 DEF Leaves
  <2>2. PICK p \in 1..Len(registration) :
          /\ Len(registration') = Len(registration) - 1
          /\ \A j \in 1..Len(registration) - 1 :
               registration'[j] = IF j < p THEN registration[j] ELSE registration[j + 1]
    BY <1>11 DEF Leaves
  <2>3. body[x] \in {"queued", "resolved"}
    BY <2>1, <1>1, <1>7
  <2>4. body'[y] \in {"off", "queued", "over"}
    BY <2>1, <2>3, <1>1, <1>2
  <2>5. ASSUME NEW i \in 1..Len(registration'), NEW j \in 1..Len(registration'),
               registration'[i] = x, registration'[j] = y
        PROVE  i < j
    <3>1. \A n, m \in 1..Len(registration) : registration[n] = x /\ registration[m] = y => n < m
      BY <2>3, <1>2
    <3> DEFINE n == IF i < p THEN i ELSE i + 1
               m == IF j < p THEN j ELSE j + 1
    <3>2. n \in 1..Len(registration) /\ m \in 1..Len(registration) /\ (n < m => i < j)
      BY <2>2, <1>6
    <3>3. registration[n] = x /\ registration[m] = y
      BY <2>2, <2>5, <1>6
    <3> QED BY <3>1, <3>2, <3>3
  <2> QED BY <2>4, <2>5
<1>12. ASSUME NEW t \in Tasks, GoesOn(t)
       PROVE  /\ body'[y] \in {"off", "queued", "over"}
              /\ \A i, j \in 1..Len(registration') :
                   registration'[i] = x /\ registration'[j] = y => i < j
  <2>1. /\ body[t] \in {"waiting", "locked", "writing", "written", "unwinding"}
        /\ body'[t] \notin {"queued", "resolved"}
        /\ \A u \in Tasks \ {t} : body'[u] = body[u]
        /\ registration' = registration
    BY <1>5, <1>12 DEF GoesOn
  <2>2. body[x] \in {"queued", "resolved"} /\ t # y
    BY <2>1, <1>1, <1>2, <1>7
  <2> QED BY <2>1, <2>2, <1>1, <1>2
<1> QED BY <1>8, <1>9, <1>10, <1>11, <1>12 DEF LineMoves

-----------------------------------------------------------------------------
(* The order of the starts. *)

\* What a step does to the tasks of a batch that has been spawned: at most one of them
\* begins, or ends, and it begins in its turn.
TasksMove ==
  /\ ready' = ready /\ prepared' = prepared
  /\ \/ task' = task
     \/ \E t \in Tasks : \E q \in {"started", "done"} :
          /\ task' = [task EXCEPT ![t] = q]
          /\ task[t] \in {"spawned", "started"}
          /\ task[t] = "spawned" => \E b \in Batches : t \in ToSet(ready[b]) /\ MyTurn(b, t)

\* Nobody but a task that begins enters guard().
BodiesBegin ==
  \A u \in Tasks : body[u] = "off" /\ body'[u] # "off" => task[u] = "spawned" /\ task'[u] = "started"

LEMMA TasksMoveKeepChain ==
  ASSUME CoordinatorsAreSound, ChainInv, TasksMove, BodiesBegin
  PROVE  ChainInv'
<1>1. task \in [Tasks -> TaskPoints] /\ ready' = ready /\ prepared' = prepared
  BY DEF CoordinatorsAreSound, TasksMove
<1>2. \A u \in Tasks : /\ task[u] \in {"started", "done"} => task'[u] \in {"started", "done"}
                       /\ task'[u] # "none" => task[u] # "none"
  BY <1>1 DEF TasksMove
<1>3. ReadyInOrder' /\ ReadyArePrepared'
  BY <1>1 DEF ChainInv, ReadyInOrder, ReadyArePrepared
<1>4. TasksAreReady'
  <2> SUFFICES ASSUME NEW b \in Batches, NEW t \in ToSet(Calls[b])
               PROVE  /\ task'[t] # "none" => t \in ToSet(ready[b])
                      /\ body'[t] # "off" => task'[t] \in {"started", "done"}
    BY <1>1 DEF TasksAreReady
  <2>1. t \in Tasks
    BY CallsAssumption DEF ToSet
  <2>2. /\ task[t] # "none" => t \in ToSet(ready[b])
        /\ body[t] # "off" => task[t] \in {"started", "done"}
    BY DEF ChainInv, TasksAreReady
  <2> QED BY <2>1, <2>2, <1>2 DEF BodiesBegin
<1>5. StartsInOrder'
  <2> SUFFICES ASSUME NEW b \in Batches, NEW k \in 1..Len(ready[b]), NEW l \in 1..Len(ready[b]),
                      k < l, task'[ready[b][l]] \in {"started", "done"}
               PROVE  task'[ready[b][k]] \in {"started", "done"}
    BY <1>1 DEF StartsInOrder
  <2>1. /\ ready[b][k] \in Tasks /\ ready[b][l] \in Tasks /\ ready[b][l] \in ToSet(Calls[b])
        /\ ready[b] \in Seq(Tasks)
    BY ReadyCallsAreApart DEF CoordinatorsAreSound
  <2>2. \A i \in 1..Len(ready[b]) :
          k < i /\ task[ready[b][i]] \in {"started", "done"} => task[ready[b][k]] \in {"started", "done"}
    BY DEF ChainInv, StartsInOrder
  <2>3. CASE task[ready[b][l]] \in {"started", "done"}
    BY <2>1, <2>2, <2>3, <1>2
  <2>4. CASE task[ready[b][l]] \notin {"started", "done"}
    <3>1. PICK c \in Batches : ready[b][l] \in ToSet(ready[c]) /\ MyTurn(c, ready[b][l])
      BY <2>1, <2>4, <1>1 DEF TasksMove
    <3>2. c = b
      <4>1. ready[b][l] \in ToSet(Calls[c])
        BY <3>1, ReadyCallsAreCalls
      <4> QED BY <4>1, <2>1, CallsAssumption
    <3>3. l \in 2..Len(ready[b]) /\ l - 1 \in 1..Len(ready[b]) /\ (k = l - 1 \/ k < l - 1)
      BY <2>1
    <3>4. task[ready[b][l - 1]] \in {"started", "done"}
      BY <3>1, <3>2, <3>3 DEF MyTurn
    <3>5. task[ready[b][k]] \in {"started", "done"}
      BY <3>3, <3>4, <2>2
    <3> QED BY <3>5, <2>1, <1>2
  <2> QED BY <2>3, <2>4
<1> QED BY <1>3, <1>4, <1>5 DEF ChainInv

-----------------------------------------------------------------------------
(* The order of a key's line. *)

LEMMA LocksKeepOrder ==
  ASSUME LockInv, BodyInv, CoordinatorsAreSound, ChainInv, RegistersInOrder, LinesAreInOrder,
         [LockNext]_lockVars, ready' = ready
  PROVE  LinesAreInOrder'
<1> SUFFICES ASSUME NEW b \in Batches, NEW k \in 1..Len(ready[b]), NEW l \in 1..Len(ready[b]),
                    NEW m \in Mutexes, NEW i \in 1..Len(line'[m]), NEW j \in 1..Len(line'[m]),
                    k < l, line'[m][i] = ready[b][k], line'[m][j] = ready[b][l]
             PROVE  i < j
  BY SMTT(30) DEF LinesAreInOrder
<1> DEFINE x == ready[b][k]
           y == ready[b][l]
<1>1. x \in Tasks /\ y \in Tasks /\ x # y
  BY ReadyCallsAreApart
<1>2. \A n, o \in 1..Len(line[m]) : line[m][n] = x /\ line[m][o] = y => n < o
  BY DEF LinesAreInOrder
<1>3. body[x] = "resolved" => body[y] \in {"off", "queued", "over"}
  BY DEF RegistersInOrder
<1>4. /\ line \in [Mutexes -> Seq(Tasks)] /\ line[m] \in Seq(Tasks) /\ Len(line[m]) \in Nat
      /\ at \in [Tasks -> Points]
  BY DEF LockInv, LockTypeOK
<1>5. line'[m][i] = x /\ line'[m][j] = y
  OBVIOUS
<1> HIDE DEF x, y
<1>6. CASE line' = line
  BY <1>2, <1>5, <1>6
<1>7. ASSUME NEW t \in Tasks, NEW q \in Keys, Register(t, q) PROVE i < j
  <2>1. CASE line'[m] = line[m]
    BY <2>1, <1>2, <1>5
  <2>2. CASE line'[m] # line[m]
    <3>1. line'[m] = <<>>
      BY <1>7, <2>2, <1>4 DEF Register
    <3> QED BY <3>1
  <2> QED BY <2>1, <2>2
<1>8. ASSUME NEW t \in Tasks, Claim(t) PROVE i < j
  <2>1. at[t] = "registered" /\ (m # handle[t] => line'[m] = line[m])
    BY <1>8, <1>4 DEF Claim
  <2>2. CASE m # handle[t]
    BY <2>1, <2>2, <1>2, <1>5
  <2>3. CASE m = handle[t]
    <3>1. /\ Len(line'[m]) = Len(line[m]) + 1
          /\ line'[m][Len(line[m]) + 1] = t
          /\ \A n \in 1..Len(line[m]) : line'[m][n] = line[m][n]
      BY <2>3, <1>4, <1>8 DEF Claim
    <3>2. body[t] = "resolved"
      BY <2>1 DEF BodyInv, BodyIsSound, PlaceMatchesBody, BodiesHaveTypes, BodyPoints
    <3>3. \A n \in 1..Len(line[m]) : line[m][n] # t
      BY <2>1, OutsidersAreNotInLine
    <3>4. t # x
      <4> SUFFICES ASSUME t = x PROVE FALSE
        OBVIOUS
      <4>1. at[y] = "idle"
        BY <3>2, <1>1, <1>3 DEF BodyInv, BodyIsSound, PlaceMatchesBody
      <4>2. \A n \in 1..Len(line[m]) : line[m][n] # y
        BY <4>1, <1>1, OutsidersAreNotInLine
      <4> QED BY <4>2, <3>1, <1>1, <1>4, <1>5
    <3>5. i \in 1..Len(line[m]) /\ line[m][i] = x
      BY <3>1, <3>4, <1>4, <1>5
    <3>6. CASE j = Len(line[m]) + 1
      BY <3>5, <3>6, <1>4
    <3>7. CASE j # Len(line[m]) + 1
      <4>1. j \in 1..Len(line[m]) /\ line[m][j] = y
        BY <3>1, <3>7, <1>4, <1>5
      <4> QED BY <4>1, <3>5, <1>2
    <3> QED BY <3>6, <3>7
  <2> QED BY <2>2, <2>3
<1>9. ASSUME NEW t \in Tasks, LeaveLine(t) PROVE i < j
  <2>1. PICK p \in 1..Len(line[handle[t]]) :
          line' = [line EXCEPT ![handle[t]] = RemoveAt(line[handle[t]], p)]
    BY <1>9 DEF LeaveLine
  <2>2. CASE m # handle[t]
    BY <2>1, <2>2, <1>2, <1>4, <1>5
  <2>3. CASE m = handle[t]
    <3>1. line'[m] = RemoveAt(line[m], p) /\ p \in 1..Len(line[m])
      BY <2>1, <2>3, <1>4
    <3>2. /\ Len(line'[m]) = Len(line[m]) - 1
          /\ \A n \in 1..Len(line[m]) - 1 :
               line'[m][n] = IF n < p THEN line[m][n] ELSE line[m][n + 1]
      BY <3>1, <1>4, RemoveAtFacts
    <3> DEFINE n == IF i < p THEN i ELSE i + 1
               o == IF j < p THEN j ELSE j + 1
    <3>3. n \in 1..Len(line[m]) /\ o \in 1..Len(line[m]) /\ (n < o => i < j)
      BY <3>1, <3>2, <1>4
    <3>4. line[m][n] = x /\ line[m][o] = y
      BY <3>2, <1>4, <1>5
    <3> QED BY <3>3, <3>4, <1>2
  <2> QED BY <2>2, <2>3
<1> QED BY <1>6, <1>7, <1>8, <1>9 DEF LockNext, lockVars, Cancel, Grant, Forfeit, Unlock,
        DropHandle, Evict

-----------------------------------------------------------------------------
(* All of it. *)

OrderInv == ChainInv /\ RegistrationInv /\ RegistersInOrder /\ LinesAreInOrder

LEMMA InitOrderInv == Init => OrderInv
<1> SUFFICES ASSUME Init PROVE OrderInv
  OBVIOUS
<1>1. /\ ready = [b \in Batches |-> <<>>] /\ registration = <<>>
      /\ task = [t \in Tasks |-> "none"] /\ body = [t \in Tasks |-> "off"]
  BY DEF Init, FileInit
<1>2. \A b \in Batches : ToSet(Calls[b]) \subseteq Tasks
  BY CallsAssumption DEF ToSet
<1>3. ReadyInOrder /\ ReadyArePrepared /\ StartsInOrder /\ RegistersInOrder /\ LinesAreInOrder
  BY <1>1 DEF ReadyInOrder, ReadyArePrepared, StartsInOrder, RegistersInOrder, LinesAreInOrder
<1>4. TasksAreReady
  BY <1>1, <1>2 DEF TasksAreReady
<1>5. RegistrationInv
  BY <1>1 DEF RegistrationInv, RegistrationIsSound, ResolvedIsHead
<1> QED BY <1>3, <1>4, <1>5 DEF OrderInv, ChainInv

\* A step that prepares no call and spawns no task.
LEMMA MovesKeepOrderInv ==
  ASSUME LockInv, HookInv, BodyInv, OrderInv, TasksMove, BodiesBegin, LineMoves,
         [LockNext]_lockVars
  PROVE  OrderInv'
<1>1. CoordinatorsAreSound /\ ready' = ready
  BY DEF HookInv, TasksMove
<1>2. ASSUME NEW t \in Tasks, Enters(t) PROVE task[t] = "spawned"
  <2>1. body[t] = "off" /\ body'[t] = "queued"
    BY <1>2 DEF Enters, BodyInv, BodiesHaveTypes
  <2> QED BY <2>1 DEF BodiesBegin
<1>3. ChainInv'
  BY <1>1, TasksMoveKeepChain DEF OrderInv
<1>4. RegistrationInv'
  BY LineMovesKeepRegistration DEF OrderInv
<1>5. RegistersInOrder'
  BY <1>1, <1>2, LineMovesKeepOrder DEF OrderInv
<1>6. LinesAreInOrder'
  BY <1>1, LocksKeepOrder DEF OrderInv
<1> QED BY <1>3, <1>4, <1>5, <1>6 DEF OrderInv

\* The call that is prepared next is none of the prepared ones, has no task and no body.
LEMMA CurrentIsUntouched ==
  ASSUME CoordinatorsAreSound, ChainInv, NEW b \in Batches, phase[b] = "prepare"
  PROVE  /\ Current(b) \in Tasks /\ Current(b) \in ToSet(Calls[b])
         /\ prepared[b] + 1 \in 1..Len(Calls[b])
         /\ \A k \in 1..Len(ready[b]) : ready[b][k] # Current(b)
         /\ Current(b) \notin ToSet(ready[b])
         /\ task[Current(b)] = "none" /\ body[Current(b)] = "off"
<1>1. /\ Calls[b] \in Seq(Tasks) /\ ready[b] \in Seq(Tasks)
      /\ prepared[b] \in Nat /\ prepared[b] + 1 \in 1..Len(Calls[b])
  BY CallsAssumption DEF CoordinatorsAreSound
<1>2. Current(b) \in Tasks /\ Current(b) \in ToSet(Calls[b])
  BY CurrentIsACall
<1>3. \A k \in 1..Len(ready[b]) : ready[b][k] # Current(b)
  BY <1>1 DEF ChainInv, ReadyArePrepared, Current
<1>4. Current(b) \notin ToSet(ready[b])
  BY <1>1, <1>3 DEF ToSet
<1> QED BY <1>1, <1>2, <1>3, <1>4 DEF ChainInv, TasksAreReady

LEMMA PrepareReadyKeepsOrderInv ==
  ASSUME LockInv, HookInv, BodyInv, OrderInv, NEW b \in Batches, PrepareReady(b)
  PROVE  OrderInv'
<1> DEFINE c == Current(b)
<1>1. /\ phase[b] = "prepare" /\ CoordinatorsAreSound /\ ChainInv
      /\ task \in [Tasks -> TaskPoints] /\ ready \in [Batches -> Seq(Tasks)]
      /\ prepared \in [Batches -> Nat]
  BY DEF HookInv, CoordinatorsAreSound, OrderInv, PrepareReady
<1>2. /\ c \in Tasks /\ c \in ToSet(Calls[b]) /\ prepared[b] + 1 \in 1..Len(Calls[b])
      /\ c = Calls[b][prepared[b] + 1]
      /\ \A k \in 1..Len(ready[b]) : ready[b][k] # c
      /\ c \notin ToSet(ready[b]) /\ task[c] = "none" /\ body[c] = "off"
  BY <1>1, CurrentIsUntouched DEF Current
<1> HIDE DEF c
<1>3. /\ ready' = [ready EXCEPT ![b] = Append(ready[b], c)]
      /\ prepared' = [prepared EXCEPT ![b] = prepared[b] + 1]
      /\ task' = [task EXCEPT ![c] = IF b \in Sequential THEN "spawned" ELSE task[c]]
      /\ body' = body /\ registration' = registration /\ line' = line
  BY DEF PrepareReady, c, bodyVars, fileVars, lockVars
<1>4. /\ \A d \in Batches \ {b} : ready'[d] = ready[d] /\ prepared'[d] = prepared[d]
      /\ ready'[b] = Append(ready[b], c) /\ prepared'[b] = prepared[b] + 1
      /\ task'[c] \in {"none", "spawned"} /\ \A u \in Tasks \ {c} : task'[u] = task[u]
  BY <1>1, <1>2, <1>3
<1>5. /\ ready[b] \in Seq(Tasks) /\ Len(ready[b]) \in Nat
      /\ Len(ready'[b]) = Len(ready[b]) + 1
      /\ ready'[b][Len(ready[b]) + 1] = c
      /\ \A k \in 1..Len(ready[b]) : ready'[b][k] = ready[b][k]
  BY <1>1, <1>4
\* A pair of the new line of prepared calls is an old one, or ends in the new call.
<1>6. ASSUME NEW d \in Batches, NEW k \in 1..Len(ready'[d]), NEW l \in 1..Len(ready'[d]), k < l
      PROVE  \/ /\ k \in 1..Len(ready[d]) /\ l \in 1..Len(ready[d])
                /\ ready'[d][k] = ready[d][k] /\ ready'[d][l] = ready[d][l]
             \/ /\ d = b /\ k \in 1..Len(ready[b]) /\ ready'[d][k] = ready[b][k]
                /\ ready'[d][l] = c
  <2>1. CASE d # b
    BY <2>1, <1>4
  <2>2. CASE d = b
    BY <2>2, <1>5, <1>6
  <2> QED BY <2>1, <2>2
<1>7. ReadyInOrder'
  <2> SUFFICES ASSUME NEW d \in Batches, NEW k \in 1..Len(ready'[d]), NEW l \in 1..Len(ready'[d]),
                      NEW i \in 1..Len(Calls[d]), NEW j \in 1..Len(Calls[d]),
                      k < l, Calls[d][i] = ready'[d][k], Calls[d][j] = ready'[d][l]
               PROVE  i < j
    BY DEF ReadyInOrder
  <2>1. CASE k \in 1..Len(ready[d]) /\ l \in 1..Len(ready[d])
             /\ ready'[d][k] = ready[d][k] /\ ready'[d][l] = ready[d][l]
    BY <2>1, <1>1 DEF ChainInv, ReadyInOrder
  <2>2. CASE d = b /\ k \in 1..Len(ready[b]) /\ ready'[d][k] = ready[b][k] /\ ready'[d][l] = c
    <3>1. i <= prepared[b]
      BY <2>2, <1>1 DEF ChainInv, ReadyArePrepared
    <3>2. j = prepared[b] + 1
      <4>1. IsInjective(Calls[b]) /\ Calls[b] \in Seq(Tasks)
        BY CallsAssumption
      <4>2. \A n, o \in 1..Len(Calls[b]) : Calls[b][n] = Calls[b][o] => n = o
        BY <4>1 DEF IsInjective
      <4> QED BY <4>2, <2>2, <1>2
    <3> QED BY <3>1, <3>2, <2>2, <1>1
  <2> QED BY <2>1, <2>2, <1>6
<1>8. ReadyArePrepared'
  <2> SUFFICES ASSUME NEW d \in Batches, NEW k \in 1..Len(ready'[d]),
                      NEW i \in 1..Len(Calls[d]), Calls[d][i] = ready'[d][k]
               PROVE  i <= prepared'[d]
    BY DEF ReadyArePrepared
  <2>1. CASE d # b
    BY <2>1, <1>1, <1>4 DEF ChainInv, ReadyArePrepared
  <2>2. CASE d = b /\ k \in 1..Len(ready[b])
    <3>1. i <= prepared[b]
      BY <2>2, <1>1, <1>5 DEF ChainInv, ReadyArePrepared
    <3> QED BY <3>1, <2>2, <1>1, <1>4
  <2>3. CASE d = b /\ k = Len(ready[b]) + 1
    <3>1. Calls[b] \in Seq(Tasks) /\ \A n, o \in 1..Len(Calls[b]) : Calls[b][n] = Calls[b][o] => n = o
      BY CallsAssumption DEF IsInjective
    <3>2. i = prepared[b] + 1
      BY <3>1, <2>3, <1>2, <1>5
    <3> QED BY <3>2, <2>3, <1>1, <1>4
  <2> QED BY <2>1, <2>2, <2>3, <1>5
<1>9. TasksAreReady'
  <2> SUFFICES ASSUME NEW d \in Batches, NEW t \in ToSet(Calls[d])
               PROVE  /\ task'[t] # "none" => t \in ToSet(ready'[d])
                      /\ body[t] # "off" => task'[t] \in {"started", "done"}
    BY <1>3 DEF TasksAreReady
  <2>1. t \in Tasks
    BY CallsAssumption DEF ToSet
  <2>2. /\ task[t] # "none" => t \in ToSet(ready[d])
        /\ body[t] # "off" => task[t] \in {"started", "done"}
    BY <1>1 DEF ChainInv, TasksAreReady
  <2>3. c \in ToSet(ready'[b]) /\ ToSet(ready[b]) \subseteq ToSet(ready'[b])
    <3>1. ready'[b] \in Seq(Tasks)
      BY <1>1, <1>2, <1>4
    <3> QED BY <3>1, <1>5, SMTT(30) DEF ToSet
  <2>4. t = c => d = b
    <3>1. d # b => ToSet(Calls[d]) \cap ToSet(Calls[b]) = {}
      BY CallsAssumption
    <3>2. c \in ToSet(Calls[b])
      BY <1>2
    <3> QED BY <3>1, <3>2
  <2> QED BY <2>1, <2>2, <2>3, <2>4, <1>2, <1>4
<1>10. StartsInOrder'
  <2> SUFFICES ASSUME NEW d \in Batches, NEW k \in 1..Len(ready'[d]), NEW l \in 1..Len(ready'[d]),
                      k < l, task'[ready'[d][l]] \in {"started", "done"}
               PROVE  task'[ready'[d][k]] \in {"started", "done"}
    BY DEF StartsInOrder
  <2>1. ready'[d][l] # c
    BY <1>4
  <2>2. /\ k \in 1..Len(ready[d]) /\ l \in 1..Len(ready[d])
        /\ ready'[d][k] = ready[d][k] /\ ready'[d][l] = ready[d][l]
    BY <2>1, <1>6
  <2>3. ready[d][k] \in Tasks /\ ready[d][l] \in Tasks
    BY <2>2, <1>1, ReadyCallsAreApart
  <2>4. task[ready[d][l]] \in {"started", "done"}
    BY <2>1, <2>2, <2>3, <1>4
  <2>5. task[ready[d][k]] \in {"started", "done"}
    BY <2>2, <2>4, <1>1 DEF ChainInv, StartsInOrder
  <2> QED BY <2>2, <2>3, <2>5, <1>2, <1>4
<1>11. RegistrationInv'
  BY <1>3 DEF OrderInv, RegistrationInv, RegistrationIsSound, ResolvedIsHead
<1>12. RegistersInOrder'
  <2>0. body' = body /\ registration' = registration
    BY <1>3
  <2> SUFFICES ASSUME NEW d \in Batches, NEW k \in 1..Len(ready'[d]), NEW l \in 1..Len(ready'[d]),
                      k < l, body[ready'[d][k]] \in {"queued", "resolved"}
               PROVE  /\ body[ready'[d][l]] \in {"off", "queued", "over"}
                      /\ \A i, j \in 1..Len(registration) :
                           registration[i] = ready'[d][k] /\ registration[j] = ready'[d][l] => i < j
    BY <2>0 DEF RegistersInOrder
  <2>1. \A j \in 1..Len(registration) : registration[j] # c
    BY <1>2 DEF OrderInv, RegistrationInv, RegistrationIsSound
  <2>2. CASE k \in 1..Len(ready[d]) /\ l \in 1..Len(ready[d])
             /\ ready'[d][k] = ready[d][k] /\ ready'[d][l] = ready[d][l]
    BY <2>2 DEF OrderInv, RegistersInOrder
  <2>3. CASE ready'[d][l] = c
    BY <2>1, <2>3, <1>2
  <2> QED BY <2>2, <2>3, <1>6
<1>13. LinesAreInOrder'
  <2> SUFFICES ASSUME NEW d \in Batches, NEW k \in 1..Len(ready'[d]), NEW l \in 1..Len(ready'[d]),
                      NEW m \in Mutexes, NEW i \in 1..Len(line[m]), NEW j \in 1..Len(line[m]),
                      k < l, line[m][i] = ready'[d][k], line[m][j] = ready'[d][l]
               PROVE  i < j
    BY <1>3 DEF LinesAreInOrder
  <2>1. at[c] = "idle"
    BY <1>2 DEF BodyInv, BodyIsSound, PlaceMatchesBody
  <2>2. line[m][j] # c
    BY <2>1, <1>2, OutsidersAreNotInLine
  <2>3. /\ k \in 1..Len(ready[d]) /\ l \in 1..Len(ready[d])
        /\ ready'[d][k] = ready[d][k] /\ ready'[d][l] = ready[d][l]
    BY <2>2, <1>6
  <2> QED BY <2>3 DEF OrderInv, LinesAreInOrder
<1> QED BY <1>7, <1>8, <1>9, <1>10, <1>11, <1>12, <1>13 DEF OrderInv, ChainInv

\* A parallel batch spawns what it has prepared: none of it has a body yet.
LEMMA SpawnKeepsOrderInv ==
  ASSUME LockInv, HookInv, BodyInv, OrderInv, NEW b \in Batches, CheckAbort(b),
         phase'[b] = "run"
  PROVE  OrderInv'
<1>1. /\ CoordinatorsAreSound /\ ChainInv /\ NothingRunsBesideAHook
      /\ phase \in [Batches -> Phases] /\ task \in [Tasks -> TaskPoints]
  BY DEF HookInv, OrderInv, CoordinatorsAreSound
<1>2. /\ phase[b] = "check" /\ b \notin Sequential
      /\ task' = [t \in Tasks |-> IF t \in ToSet(ready[b]) THEN "spawned" ELSE task[t]]
      /\ ready' = ready /\ prepared' = prepared
      /\ body' = body /\ registration' = registration /\ line' = line
  BY <1>1 DEF CheckAbort, bodyVars, fileVars, lockVars
<1>3. \A t \in ToSet(Calls[b]) : task[t] = "none" /\ body[t] = "off"
  BY <1>1, <1>2 DEF NothingRunsBesideAHook
<1>4. ASSUME NEW d \in Batches \ {b}, NEW t \in ToSet(Calls[d])
      PROVE  t \in Tasks /\ t \notin ToSet(ready[b]) /\ task'[t] = task[t]
  <2>1. t \in Tasks
    BY CallsAssumption DEF ToSet
  <2>2. t \notin ToSet(ready[b])
    <3>1. ToSet(Calls[d]) \cap ToSet(Calls[b]) = {}
      BY CallsAssumption
    <3> QED BY <3>1, <1>1, ReadyCallsAreCalls
  <2> QED BY <2>1, <2>2, <1>2
<1>5. ReadyInOrder' /\ ReadyArePrepared'
  BY <1>1, <1>2 DEF ChainInv, ReadyInOrder, ReadyArePrepared
<1>6. TasksAreReady'
  <2> SUFFICES ASSUME NEW d \in Batches, NEW t \in ToSet(Calls[d])
               PROVE  /\ task'[t] # "none" => t \in ToSet(ready[d])
                      /\ body[t] # "off" => task'[t] \in {"started", "done"}
    BY <1>2 DEF TasksAreReady
  <2>1. t \in Tasks
    BY CallsAssumption DEF ToSet
  <2>2. CASE d = b
    BY <2>1, <2>2, <1>2, <1>3
  <2>3. CASE d # b
    BY <2>3, <1>1, <1>4 DEF ChainInv, TasksAreReady
  <2> QED BY <2>2, <2>3
<1>7. StartsInOrder'
  <2> SUFFICES ASSUME NEW d \in Batches, NEW k \in 1..Len(ready[d]), NEW l \in 1..Len(ready[d]),
                      k < l, task'[ready[d][l]] \in {"started", "done"}
               PROVE  task'[ready[d][k]] \in {"started", "done"}
    BY <1>2 DEF StartsInOrder
  <2>1. /\ ready[d][k] \in Tasks /\ ready[d][k] \in ToSet(Calls[d])
        /\ ready[d][l] \in Tasks /\ ready[d][l] \in ToSet(Calls[d])
        /\ ready[d] \in Seq(Tasks)
    BY <1>1, ReadyCallsAreApart DEF CoordinatorsAreSound
  <2>2. CASE d = b
    <3>1. ready[d][l] \in ToSet(ready[b])
      BY <2>1, <2>2 DEF ToSet
    <3> QED BY <3>1, <2>1, <1>2
  <2>3. CASE d # b
    <3>1. task'[ready[d][k]] = task[ready[d][k]] /\ task'[ready[d][l]] = task[ready[d][l]]
      BY <2>1, <2>3, <1>4
    <3> QED BY <3>1, <1>1 DEF ChainInv, StartsInOrder
  <2> QED BY <2>2, <2>3
<1>8. RegistrationInv' /\ RegistersInOrder' /\ LinesAreInOrder'
  BY <1>2 DEF OrderInv, RegistrationInv, RegistrationIsSound, ResolvedIsHead, RegistersInOrder,
     LinesAreInOrder
<1> QED BY <1>5, <1>6, <1>7, <1>8 DEF OrderInv, ChainInv

LEMMA CoordinatorKeepsOrderInv ==
  ASSUME LockInv, HookInv, BodyInv, OrderInv, NEW b \in Batches,
         Coordinate(b) \/ AbortBatch(b) \/ Fail(b)
  PROVE  OrderInv'
<1> USE DEF bodyVars, fileVars, lockVars
<1>1. ASSUME ready' = ready, task' = task, UNCHANGED <<body, registration, line>>,
             \A d \in Batches : prepared'[d] \in Nat /\ prepared[d] <= prepared'[d]
      PROVE  OrderInv'
  <2>1. ReadyArePrepared'
    <3> SUFFICES ASSUME NEW d \in Batches, NEW k \in 1..Len(ready[d]), NEW i \in 1..Len(Calls[d]),
                        Calls[d][i] = ready[d][k]
                 PROVE  i <= prepared'[d]
      BY <1>1 DEF ReadyArePrepared
    <3>1. i <= prepared[d] /\ prepared[d] \in Nat /\ i \in Nat
      BY DEF OrderInv, ChainInv, ReadyArePrepared, HookInv, CoordinatorsAreSound
    <3> QED BY <3>1, <1>1
  <2> QED BY <2>1, <1>1 DEF OrderInv, ChainInv, ReadyInOrder, TasksAreReady, StartsInOrder,
          RegistrationInv, RegistrationIsSound, ResolvedIsHead, RegistersInOrder, LinesAreInOrder
<1>2. /\ prepared \in [Batches -> Nat]
      /\ phase \in [Batches -> Phases]
  BY DEF HookInv, CoordinatorsAreSound
<1>3. CASE PrepareReady(b)
  BY <1>3, PrepareReadyKeepsOrderInv
<1>4. CASE PrepareImmediate(b)
  <2>1. prepared' = [prepared EXCEPT ![b] = prepared[b] + 1]
    BY <1>4 DEF PrepareImmediate
  <2>2. \A d \in Batches : prepared'[d] \in Nat /\ prepared[d] <= prepared'[d]
    BY <2>1, <1>2
  <2> QED BY <2>2, <1>1, <1>4 DEF PrepareImmediate
<1>5. CASE CheckAbort(b) /\ phase'[b] = "run"
  BY <1>5, SpawnKeepsOrderInv
<1>6. CASE CheckAbort(b) /\ phase'[b] # "run"
  BY <1>1, <1>2, <1>6 DEF CheckAbort
<1>7. CASE Receive(b) \/ Join(b) \/ Emit(b)
  BY <1>1, <1>2, <1>7 DEF Receive, Join, Emit
<1>8. CASE AbortBatch(b) \/ Fail(b)
  BY <1>1, <1>2, <1>8 DEF AbortBatch, Fail, Cancel, batchVars
<1> QED BY <1>3, <1>4, <1>5, <1>6, <1>7, <1>8 DEF Coordinate

\* A body that has not begun is begun by nobody but its task.
LEMMA OffStaysOff ==
  ASSUME BodyInv, NEW t \in Tasks, BodyStep(t) \/ JobStep(t) \/ DropBody(t)
  PROVE  \A u \in Tasks : body[u] = "off" => body'[u] = "off"
<1>1. body \in [Tasks -> BodyPoints]
  BY DEF BodyInv, BodiesHaveTypes
<1>2. CASE BodyStep(t)
  BY <1>1, <1>2 DEF BodyStep, Resolve, ResolveFails, Link, Place, Granted, Refused, BeginWrite,
     AbortUnwritten, FinishWrite, Unreference, Return, Goto, fileVars
<1>3. CASE JobStep(t)
  BY <1>1, <1>3 DEF JobStep, OpenLands, WriteLands, JobFails, Goto
<1>4. CASE DropBody(t)
  BY <1>1, <1>4 DEF DropBody, Goto
<1> QED BY <1>2, <1>3, <1>4

LEMMA TaskKeepsOrderInv ==
  ASSUME LockInv, HookInv, BodyInv, OrderInv, LineMoves, [LockNext]_lockVars,
         NEW t \in Tasks, TaskStep(t) \/ Job(t)
  PROVE  OrderInv'
<1> SUFFICES TasksMove /\ BodiesBegin
  BY MovesKeepOrderInv
<1>1. task \in [Tasks -> TaskPoints] /\ body \in [Tasks -> BodyPoints]
  BY DEF HookInv, CoordinatorsAreSound
<1>2. CASE (BodyStep(t) /\ UNCHANGED batchVars) \/ Job(t)
  <2>1. ready' = ready /\ prepared' = prepared /\ task' = task
    BY <1>2 DEF Job, batchVars
  <2>2. \A u \in Tasks : body[u] = "off" => body'[u] = "off"
    BY <1>2, OffStaysOff DEF Job
  <2> QED BY <2>1, <2>2 DEF TasksMove, BodiesBegin
<1>3. ASSUME NEW b \in Batches, Start(b, t) PROVE TasksMove /\ BodiesBegin
  <2>1. /\ ready' = ready /\ prepared' = prepared /\ task' = [task EXCEPT ![t] = "started"]
        /\ task[t] = "spawned" /\ t \in ToSet(ready[b]) /\ MyTurn(b, t)
        /\ body' = [body EXCEPT ![t] = "queued"]
    BY <1>3 DEF Start, EnterGuard, Goto
  <2> QED BY <2>1, <1>1 DEF TasksMove, BodiesBegin
<1>4. ASSUME NEW b \in Batches, StartAborted(b, t) PROVE TasksMove /\ BodiesBegin
  <2>1. /\ ready' = ready /\ prepared' = prepared /\ task' = [task EXCEPT ![t] = "done"]
        /\ task[t] = "spawned" /\ t \in ToSet(ready[b]) /\ MyTurn(b, t)
        /\ body' = body
    BY <1>4 DEF StartAborted, bodyVars, fileVars
  <2> QED BY <2>1 DEF TasksMove, BodiesBegin
<1>5. ASSUME NEW b \in Batches, Finish(b, t) PROVE TasksMove /\ BodiesBegin
  <2>1. /\ ready' = ready /\ prepared' = prepared /\ task' = [task EXCEPT ![t] = "done"]
        /\ task[t] = "started" /\ body' = body
    BY <1>5 DEF Finish, bodyVars, fileVars
  <2> QED BY <2>1 DEF TasksMove, BodiesBegin
<1>6. ASSUME NEW b \in Batches, DropTask(b, t) PROVE TasksMove /\ BodiesBegin
  <2>1. /\ ready' = ready /\ prepared' = prepared /\ task' = [task EXCEPT ![t] = "done"]
        /\ \/ task[t] = "spawned" /\ t \in ToSet(ready[b]) /\ MyTurn(b, t) /\ body' = body
           \/ task[t] = "started" /\ DropBody(t)
    BY <1>6 DEF DropTask, bodyVars, fileVars
  <2>2. \A u \in Tasks : body[u] = "off" => body'[u] = "off"
    BY <2>1, OffStaysOff
  <2> QED BY <2>1, <2>2 DEF TasksMove, BodiesBegin
<1> QED BY <1>2, <1>3, <1>4, <1>5, <1>6 DEF TaskStep

\* Who writes is the head of its file's line; an earlier call of its batch is not in that
\* line, not before it, and will not come any more.
LEMMA OrderIsIssueOrder ==
  ASSUME LockInv, HookInv, BodyInv, OrderInv
  PROVE  IssueOrder
<1> SUFFICES ASSUME NEW b \in Batches, NEW i \in 1..Len(Calls[b]), NEW j \in 1..Len(Calls[b]),
                    i < j, File(Calls[b][i]) = File(Calls[b][j]),
                    body[Calls[b][j]] \in {"writing", "written"}
             PROVE  /\ body[Calls[b][i]] \notin {"queued", "resolved"}
                    /\ body[Calls[b][i]] \in {"waiting", "locked", "writing", "written"} =>
                         Rekeyed(Calls[b][i], Calls[b][j])
                    /\ body[Calls[b][i]] = "off" => task[Calls[b][i]] # "spawned"
  BY DEF IssueOrder
<1> DEFINE t == Calls[b][i]
           u == Calls[b][j]
<1>1. Calls[b] \in Seq(Tasks)
  BY CallsAssumption
<1>2. t \in Tasks /\ u \in Tasks /\ t \in ToSet(Calls[b]) /\ u \in ToSet(Calls[b])
  BY <1>1 DEF ToSet
<1>3. body[u] \in {"writing", "written"} /\ File(t) = File(u)
  OBVIOUS
<1>4. task[u] \in {"started", "done"} /\ u \in ToSet(ready[b])
  BY <1>2, <1>3 DEF OrderInv, ChainInv, TasksAreReady
<1>5. CASE t \notin ToSet(ready[b])
  <2>1. task[t] = "none" /\ body[t] = "off"
    BY <1>2, <1>5 DEF OrderInv, ChainInv, TasksAreReady
  <2> QED BY <2>1
<1>6. CASE t \in ToSet(ready[b])
  <2>1. ready[b] \in Seq(Tasks)
    BY DEF HookInv, CoordinatorsAreSound
  <2>2. PICK k \in 1..Len(ready[b]) : ready[b][k] = t
    BY <2>1, <1>6 DEF ToSet
  <2>3. PICK l \in 1..Len(ready[b]) : ready[b][l] = u
    BY <2>1, <1>4 DEF ToSet
  <2>4. k < l
    <3>1. k # l
      <4>1. \A n, o \in 1..Len(Calls[b]) : Calls[b][n] = Calls[b][o] => n = o
        BY <1>1, CallsAssumption DEF IsInjective
      <4> QED BY <4>1, <2>2, <2>3
    <3>2. ~(l < k)
      BY <2>2, <2>3 DEF OrderInv, ChainInv, ReadyInOrder
    <3> QED BY <3>1, <3>2, <2>1
  <2>5. task[t] \in {"started", "done"}
    BY <1>4, <2>2, <2>3, <2>4 DEF OrderInv, ChainInv, StartsInOrder
  <2>6. body[t] \notin {"queued", "resolved"}
    BY <1>3, <2>2, <2>3, <2>4 DEF OrderInv, RegistersInOrder
  <2> HIDE DEF t, u
  <2>7. body[t] \in {"waiting", "locked", "writing", "written"} => Rekeyed(t, u)
    <3> SUFFICES ASSUME body[t] \in {"waiting", "locked", "writing", "written"}, ~Rekeyed(t, u)
                 PROVE  FALSE
      OBVIOUS
    <3>1. at[t] \in {"claimed", "holding"} /\ at[u] = "holding"
      BY <1>2, <1>3 DEF BodyInv, BodyIsSound, PlaceMatchesBody
    <3>2. key[t] = key[u]
      <4>1. key[t] = resolved[t] /\ key[u] = resolved[u]
        BY <3>1, <1>2 DEF BodyInv, BodyIsSound, KeyIsResolved
      <4>2. t \notin guessed /\ u \notin guessed => resolved[t] = resolved[u]
        BY <1>2, <1>3 DEF BodyInv, BodyIsSound, KeyIsResolved
      <4> QED BY <4>1, <4>2 DEF Rekeyed
    <3>3. handle[t] = handle[u] /\ handle[u] \in Mutexes
      BY <3>1, <3>2, <1>2, HandleIsTheKeysMutex DEF Referencing
    <3>4. PICK n \in 1..Len(line[handle[u]]) : line[handle[u]][n] = t
      BY <3>1, <3>3, <1>2 DEF LockInv, PlacesAreKept
    <3>5. line[handle[u]][1] = u /\ line[handle[u]] \in Seq(Tasks)
      BY <3>1, <3>3, <1>2 DEF LockInv, HoldersAreHeads, LockTypeOK
    <3>6. 1 \in 1..Len(line[handle[u]])
      BY <3>4, <3>5
    <3>7. n < 1
      BY <2>2, <2>3, <2>4, <3>3, <3>4, <3>5, <3>6 DEF OrderInv, LinesAreInOrder
    <3> QED BY <3>4, <3>7
  <2>8. task[t] # "spawned"
    BY <2>5
  <2> QED BY <2>6, <2>7, <2>8 DEF t, u
<1> QED BY <1>5, <1>6

\* "Two mutations of the same file must be granted in the order the model issued them":
\* for any batches beside each other, any aborts, failures and drops in them, and however
\* the tasks are polled, a call that writes a file has no earlier call of its batch with
\* that file before it, but one to which the file's creation gave another key.
THEOREM WritesInIssueOrder == Spec => []IssueOrder
<1>1. Init => OrderInv
  BY InitOrderInv
<1>2. LockInv /\ HookInv /\ BodyInv /\ OrderInv /\ [LockNext]_lockVars /\ [Next]_vars => OrderInv'
  <2> SUFFICES ASSUME LockInv, HookInv, BodyInv, OrderInv, [LockNext]_lockVars, [Next]_vars
               PROVE  OrderInv'
    OBVIOUS
  <2>1. LineMoves
    BY StepsMoveTheLine DEF OrderInv
  <2>2. ASSUME NEW b \in Batches, Coordinate(b) \/ AbortBatch(b) \/ Fail(b) PROVE OrderInv'
    BY <2>2, CoordinatorKeepsOrderInv
  <2>3. ASSUME NEW t \in Tasks, TaskStep(t) \/ Job(t) PROVE OrderInv'
    BY <2>1, <2>3, TaskKeepsOrderInv
  <2>4. CASE UNCHANGED vars
    <3>1. TasksMove /\ BodiesBegin
      BY <2>4 DEF vars, bodyVars, fileVars, batchVars, TasksMove, BodiesBegin
    <3> QED BY <3>1, <2>1, MovesKeepOrderInv
  <2> QED BY <2>2, <2>3, <2>4 DEF Next, Progress
<1>3. LockInv /\ HookInv /\ BodyInv /\ OrderInv => IssueOrder
  BY OrderIsIssueOrder
<1> QED BY <1>1, <1>2, <1>3, BodyInvariance, HookInvariance, BatchesUseTheRegistry, LockInvariance,
        PTL DEF Spec, LockSpec

=============================================================================
