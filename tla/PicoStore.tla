------------------------------ MODULE PicoStore -------------------------------
(***************************************************************************)
(* What a Pico store promises whoever commits to it (the Storage trait of  *)
(* cyrup-pico-store, the two tiers of store.rs's Durability): a log of     *)
(* commits that an open store answers from, that a process crash never     *)
(* shortens, and of which a power loss may take a tail -- though not what  *)
(* a store wrote before it was closed.                                     *)
(***************************************************************************)
EXTENDS Naturals, Sequences, SequencesExt

VARIABLES
  log,     \* the commits the store holds
  seen,    \* how many of them the open store has published
  safe,    \* how many of them no power loss can take
  wrote,   \* has the open store written anything?
  status,  \* "down", "up", "poisoned" after a commit of unknown outcome, or "closed"
  powerFails \* may the machine lose power? (never changes)

vars == <<log, seen, safe, wrote, status, powerFails>>

NextSeq == IF log = <<>> THEN 1 ELSE Last(log).seq + 1

Init ==
  /\ log = <<>> /\ seen = 0 /\ safe = 0 /\ wrote = FALSE /\ status = "down"
  /\ powerFails \in BOOLEAN

Open ==
  /\ status = "down"
  /\ status' = "up"
  /\ seen' = Len(log)
  /\ wrote' = FALSE
  /\ UNCHANGED <<log, safe>>

\* A commit joins the log at one point, whole, and with the next sequence...
Write ==
  /\ status = "up"
  /\ seen = Len(log)
  /\ Len(log') = Len(log) + 1
  /\ IsPrefix(log, log')
  /\ Last(log').seq = NextSeq
  /\ wrote' = TRUE
  /\ UNCHANGED <<seen, safe, status>>

\* ...and only then is it published and acknowledged.
Publish ==
  /\ status = "up"
  /\ seen < Len(log)
  /\ seen' = Len(log)
  /\ UNCHANGED <<log, safe, wrote, status>>

\* Reservations, reclamations, and the flushes they wait for.
Maintain ==
  /\ status = "up"
  /\ wrote' \in {wrote, TRUE}
  /\ safe' \in safe..Len(log)
  /\ UNCHANGED <<log, seen, status>>

\* A commit whose outcome is unknown: nothing further is accepted from this process.
Poison ==
  /\ status = "up"
  /\ seen = Len(log)
  /\ status' = "poisoned"
  /\ UNCHANGED <<log, seen, safe, wrote>>

\* A close that succeeds leaves nothing this store wrote to a power loss.
Close ==
  /\ status \in {"up", "poisoned"}
  /\ status' = "closed"
  /\ seen' = 0
  /\ safe' = IF wrote THEN Len(log) ELSE safe
  /\ wrote' = FALSE
  /\ UNCHANGED log

\* A crash, or a close that fails.
Stop ==
  /\ status \in {"up", "poisoned"}
  /\ status' = "down"
  /\ seen' = 0
  /\ wrote' = FALSE
  /\ UNCHANGED <<log, safe>>

\* Before it opens, a store may remove an unconfirmed tail and flush the rest.
Recover ==
  /\ status \in {"down", "closed"}
  /\ status' = "down"
  /\ safe' \in safe..Len(log)
  /\ UNCHANGED <<log, seen, wrote>>

PowerLoss ==
  /\ powerFails
  /\ status' = "down"
  /\ seen' = 0
  /\ wrote' = FALSE
  /\ IsPrefix(log', log)
  /\ Len(log') >= safe
  /\ safe' \in safe..Len(log')

Next ==
  /\ Open \/ Write \/ Publish \/ Maintain \/ Poison \/ Close \/ Stop \/ Recover \/ PowerLoss
  /\ UNCHANGED powerFails

Spec == Init /\ [][Next]_vars
=============================================================================
