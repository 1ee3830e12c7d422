------------------------------- MODULE MCJsonl --------------------------------
(* Instances of JsonlStore and JsonlReader for TLC: the setups a behaviour may have. *)
EXTENDS JsonlReader

CONSTANTS d1, d2

Growing(s) == s @@ [oneAddress |-> FALSE, writes |-> {"create", "base", "delta"}, retires |-> FALSE,
                    rows |-> FALSE, maxId |-> 1]

\* Process crashes and failing appends; everything a batch may do to two incarnations of
\* one address, rows and ids.
Kills == [
  flushes |-> FALSE, powerFails |-> FALSE, faults |-> {"append", "late", "sync"},
  docs |-> {d1, d2}, oneAddress |-> TRUE, writes |-> {"none", "create", "base", "delta"},
  retires |-> TRUE, rows |-> TRUE, reads |-> FALSE, maxSeq |-> 2, maxId |-> 3, maxCrashes |-> 1]

\* The PowerLoss tier: power losses and failing flushes; reclamations of two documents.
PowerLosses == Growing([
  flushes |-> TRUE, powerFails |-> TRUE, faults |-> {"sync"}, docs |-> {d1, d2},
  reads |-> FALSE, maxSeq |-> 3, maxCrashes |-> 2])

\* Ids under the PowerLoss tier: reserved, used by commits, lost with the lines that tell of them.
PowerLossIds == [PowerLosses EXCEPT
  !.docs = {}, !.faults = {"append"}, !.rows = TRUE, !.maxSeq = 2, !.maxId = 4, !.maxCrashes = 3]

\* A reader beside a writer that commits, reclaims, fails, crashes and recovers.
Reads == Growing([
  flushes |-> FALSE, powerFails |-> FALSE, faults |-> {"append"}, docs |-> {d1},
  reads |-> TRUE, maxSeq |-> 4, maxCrashes |-> 1])

\* What the documentation rules out and the code does: power is lost after a crash has left
\* a Reclaim line unflushed; the append of a Reclaim line stops short; power is lost after a
\* mint has returned.
Sweeps == [PowerLosses EXCEPT !.faults = {}]
TornReclaims == Growing([
  flushes |-> FALSE, powerFails |-> FALSE, faults |-> {"reclaimAppend"}, docs |-> {d1},
  reads |-> FALSE, maxSeq |-> 3, maxCrashes |-> 1])

SoundSetups == {Kills, PowerLosses, PowerLossIds, Reads}

\* The hypotheses of the theorems of JsonlProofs, NoTornReclaims and TierIsMet.
ASSUME SoundAssumption ==
  \A s \in SoundSetups : "reclaimAppend" \notin s.faults /\ (s.powerFails => s.flushes)

LostMints == [Sweeps EXCEPT !.docs = {d1}, !.maxSeq = 1, !.maxId = 2]

DamagingSetups == {Sweeps, TornReclaims, LostMints}
=============================================================================
