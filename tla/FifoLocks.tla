------------------------------ MODULE FifoLocks ------------------------------
(***************************************************************************)
(* What a lock domain promises: one first-come-first-served line per key,  *)
(* whose head alone may be inside, and which anyone may leave.  There is   *)
(* no registry, no mutex and no eviction here; KeyedLocks implements this. *)
(***************************************************************************)
EXTENDS Naturals, Sequences, SequencesExt

CONSTANTS Tasks, Keys

VARIABLES
  line,   \* per key: who has a place, oldest first
  inside  \* who is in a critical section

vars == <<line, inside>>

Init ==
  /\ line = [k \in Keys |-> <<>>]
  /\ inside = {}

\* A task with no place anywhere takes the last one.
Join(t, k) ==
  /\ \A j \in Keys : t \notin ToSet(line[j])
  /\ line' = [line EXCEPT ![k] = Append(@, t)]
  /\ UNCHANGED inside

\* Only the oldest place may enter.
Enter(t, k) ==
  /\ line[k] # <<>>
  /\ Head(line[k]) = t
  /\ inside' = inside \cup {t}
  /\ UNCHANGED line

\* A place is given up from the head or from the middle of the line.
Leave(t, k) ==
  /\ \E i \in 1..Len(line[k]) :
       /\ line[k][i] = t
       /\ line' = [line EXCEPT ![k] = RemoveAt(@, i)]
  /\ inside' = inside \ {t}

Next == \E t \in Tasks, k \in Keys : Join(t, k) \/ Enter(t, k) \/ Leave(t, k)

Spec == Init /\ [][Next]_vars

=============================================================================
