--------------------------- MODULE MCSessionFile ----------------------------
(* Instances of SessionFile for TLC: the setups a behaviour may have. *)
EXTENDS SessionFile

CONSTANTS m1, m2  \* Managers

\* One manager after the other, every beginning, and every fault but an append that is
\* written half and survived.
Alone == [
  managers |-> {m1}, disks |-> {"missing", "empty", "old", "current"},
  faults |-> {"kill", "cut", "power", "refuse", "first", "flush"},
  lateOpens |-> FALSE, named |-> TRUE, wide |-> FALSE, maxEntries |-> 3, maxFaults |-> 3]

\* ... with text that a fault may cut inside a character.
Wide == [Alone EXCEPT !.wide = TRUE, !.maxFaults = 2]

\* A longer session, with one of those faults.
Longer == [Wide EXCEPT !.maxEntries = 4, !.maxFaults = 1]

\* Two managers of one file, one of which may die between its calls.
Together == [
  managers |-> {m1, m2}, disks |-> {"missing", "current"},
  faults |-> {"kill", "refuse", "power"},
  lateOpens |-> FALSE, named |-> TRUE, wide |-> FALSE, maxEntries |-> 3, maxFaults |-> 1]

SoundSetups == {Alone, Wide, Longer, Together}

\* What the theorems about SessionFile take for granted of a behaviour is so of the run.
ASSUME SetupsAreSound == \A s \in SoundSetups : Sound(s)

\* The setups in which an acknowledged entry is not read, each for a reason of its own: a death
\* in the middle of a character; an append written half and survived; a death inside a write
\* beside another manager; a power loss while the directory entry of a new file is not
\* flushed; an open while the file is being created.
WideTails    == [Wide EXCEPT !.disks = {"current"}, !.faults = {"cut"}]
TornWrites   == [Alone EXCEPT !.disks = {"current"}, !.faults = {"torn"}]
DeathsBeside == [Together EXCEPT !.disks = {"current"}, !.faults = {"cut"}]
NewNames     == [Alone EXCEPT !.disks = {"missing"}, !.faults = {"power"}, !.named = FALSE]
LateOpens    == [Together EXCEPT !.disks = {"missing"}, !.faults = {}, !.lateOpens = TRUE]

DamagingSetups == {WideTails, TornWrites, DeathsBeside, NewNames, LateOpens}

=============================================================================
