------------------------------ MODULE JsonlStore ------------------------------
(***************************************************************************)
(* cyrup-pico-store-jsonl: the commit protocol (store.rs write), sidecar   *)
(* reclamation (reclaim_one), id reservation (mint_raw) and recovery       *)
(* (recover.rs) over files that a crash can cut between any two system     *)
(* calls.                                                                  *)
(*                                                                         *)
(* One action is one system call, or the in-memory step after it.  A       *)
(* process crash keeps every byte written; a power loss keeps, of every    *)
(* file, some prefix not shorter than what was flushed.  The store lock    *)
(* (lock.rs) is what allows one writer here; module JsonlReader adds a     *)
(* second process that takes no lock.                                      *)
(***************************************************************************)
EXTENDS JsonlLog

CONSTANTS
  IdBlock,  \* ID_BLOCK
  Setups    \* the circumstances a behaviour may have, one of which holds throughout

\* What a setup says.
Setup == [
  flushes    : BOOLEAN,       \* JsonlOptions::flushes, the PowerLoss tier
  powerFails : BOOLEAN,       \* does the machine lose power?
  faults     : SUBSET {"append", "reclaimAppend", "sync", "late"},  \* the calls that may fail
  docs       : SUBSET Docs,   \* the incarnations that are created ...
  oneAddress : BOOLEAN,       \* ... at one address or each at its own
  writes     : SUBSET {"none", "create", "base", "delta"},  \* what a batch may do to one:
  retires    : BOOLEAN,       \* write to it, retire it
  rows       : BOOLEAN,       \* do batches carry a row (an entry, task, submission...)?
  reads      : BOOLEAN,       \* is there a reader beside the writer (module JsonlReader)?
  maxSeq     : Nat,           \* bound on commits
  maxId      : Nat,           \* bound on ids minted
  maxCrashes : Nat]           \* bound on crashes

ASSUME BlockAssumption == IdBlock \in Nat \ {0}
ASSUME SetupsAssumption == \A s \in Setups : s \in Setup

VARIABLES
  main,     \* main.jsonl: its lines, and how many of them are flushed
  side,     \* the sidecars by <<document, generation>>: records, flushed, directory entry
  mode,     \* the writer: "down", "repair" (half open), "open", "closed", or "corrupt" (refused to open)
  st,       \* its Committed state
  job,      \* where its commit or reclamation is
  poison,   \* poison is Some
  lateErr,  \* main's sticky error from a deferred flush
  wrote,    \* has this process appended to main.jsonl?
  issued,   \* history: every id mint_raw ever returned
  lost,     \* history: those of them whose reservation a power loss has taken
  reissued, \* history: what was returned again: an id so "lost", or one "kept"
  swept,    \* history: a sweep removed what an unflushed reclamation had replaced
  crashes,  \* number of crashes so far
  setup     \* the circumstances

disk   == <<main, side>>
memory == <<mode, st, job, poison, lateErr, wrote>>
past   == <<issued, lost, reissued, swept>>
vars   == <<disk, memory, past, crashes, setup>>

Idle == [at |-> "idle"]
Ready == mode = "open" /\ job = Idle

Init ==
  /\ main = [lines |-> <<>>, flushed |-> 0]
  /\ side = <<>>
  /\ mode = "down"
  /\ st = Empty
  /\ job = Idle
  /\ poison = FALSE
  /\ lateErr = FALSE
  /\ wrote = FALSE
  /\ issued = {}
  /\ lost = {}
  /\ reissued = {}
  /\ swept = FALSE
  /\ crashes = 0
  /\ setup \in Setups

-----------------------------------------------------------------------------
(* Files. *)

NewFile == [recs |-> <<>>, flushed |-> 0, named |-> FALSE]
File(f) == IF f \in DOMAIN side THEN side[f] ELSE NewFile
Sidecar(d) == <<d, IF d \in DOMAIN st.docs THEN st.docs[d].generation ELSE 0>>

AppendTo(f, recs) == side' = Put(side, f, [File(f) EXCEPT !.recs = recs])
MainIs(lines) == main' = [main EXCEPT !.lines = lines]
FlushedMain == [main EXCEPT !.flushed = Len(main.lines)]

\* What fdatasync of a file makes durable; its directory entry along with it, which is
\* what journalling file systems do and POSIX does not promise.
FlushedFile(file) == [file EXCEPT !.flushed = Len(file.recs), !.named = TRUE]

Confirmed(d) == End(st.docs[d])

-----------------------------------------------------------------------------
(* Commit. *)

Creates(b) == {d \in DOMAIN b : b[d].write = "create"}
Writes(b)  == {d \in DOMAIN b : b[d].write # "none"}
Retires(b) == {d \in DOMAIN b : b[d].retire}

SameAddress(d, e) == setup.oneAddress \/ d = e

\* Plausible bug: the batch's own creations are not compared with each other.
AddressesFreeOfCommitted(b) ==
  \A d \in Creates(b) : \A e \in Live(st) : SameAddress(d, e) => e \in Retires(b)

\* validate: the addresses of a batch's creations are free, or freed by it.
AddressesFree(b) ==
  \A d \in Creates(b) :
    /\ \A e \in Live(st) : SameAddress(d, e) => e \in Retires(b)
    /\ \A e \in Creates(b) : SameAddress(d, e) => e = d

Valid(b) ==
  /\ Creates(b) \cap DOMAIN st.docs = {}
  /\ DOMAIN b \ Creates(b) \subseteq Live(st)
  /\ AddressesFree(b)

\* plan: the record lines of main.jsonl, in table order.
Plan(b, rows, seq) ==
  SetToSeq({Row(seq, id) : id \in rows})
    \o SetToSeq({Document(seq, d, d \notin Retires(b)) : d \in Creates(b)})
    \o SetToSeq({Retire(seq, d) : d \in Retires(b) \ Creates(b)})

\* What a batch may do to one document: at least one of writing to it and retiring it.
Commands ==
  {c \in [write : setup.writes, retire : {FALSE} \cup {setup.retires}] :
     IF c.retire THEN c.write # "delta" ELSE c.write # "none"}

Batches == UNION {[touched -> Commands] : touched \in SUBSET setup.docs}

\* guard_commit, validate, allocate_seq, plan, and write's drain_deferred.
BeginCommit(b, rows) ==
  /\ Ready
  /\ ~poison
  /\ b # <<>> \/ rows # {}
  /\ Valid(b)
  /\ st.last < setup.maxSeq
  /\ lateErr' = FALSE
  /\ \/ /\ lateErr
        /\ poison' = TRUE
        /\ UNCHANGED job
     \/ /\ ~lateErr
        /\ job' = [at    |-> IF Writes(b) = {} THEN "main" ELSE "content",
                   seq   |-> st.last + 1,
                   batch |-> b,
                   todo  |-> Writes(b),
                   ends  |-> <<>>,
                   plan  |-> Plan(b, rows, st.last + 1),
                   sent  |-> 0]
        /\ UNCHANGED poison
  /\ UNCHANGED <<disk, mode, st, wrote, past, crashes, setup>>

Commit ==
  \E b \in Batches, rows \in {{}} \cup {{id} : id \in IF setup.rows THEN issued \ st.rows ELSE {}} :
    BeginCommit(b, rows)

\* poisoned_by: the commit ends Uncertain and the backend is poisoned.
PoisonedBy ==
  /\ poison' = TRUE
  /\ job' = Idle
  /\ UNCHANGED <<mode, st, lateErr>>

\* Commands and candidates are taken in id order.
First(docs) == CHOOSE d \in docs : TRUE

\* Where a commit goes from one content record.
AfterContent(more) == IF more THEN "content" ELSE IF setup.flushes THEN "flush" ELSE "main"

\* Step 1: one complete content record to each affected sidecar.
AppendContent ==
  /\ mode = "open"
  /\ job.at = "content"
  /\ LET d == First(job.todo)
         f == Sidecar(d)
         base == job.batch[d].write # "delta"
         recs == Append(File(f).recs, [seq |-> job.seq, base |-> base])
     IN  \/ /\ AppendTo(f, recs)
            /\ job' = [job EXCEPT
                 !.todo = @ \ {d},
                 !.ends = Put(@, d, [end |-> Len(recs), base |-> base]),
                 !.at = AfterContent(job.todo # {d})]
            /\ UNCHANGED <<poison, mode, st, lateErr>>
         \/ /\ "append" \in setup.faults
            /\ \/ AppendTo(f, Append(File(f).recs, Torn))
               \/ UNCHANGED side
            /\ PoisonedBy
  /\ UNCHANGED <<main, wrote, past, crashes, setup>>

\* Plausible bug: the flush is requested and not waited for.
FlushSidecarsLater ==
  /\ mode = "open"
  /\ job.at = "flush"
  /\ job' = [job EXCEPT !.at = "main"]
  /\ UNCHANGED <<disk, mode, st, poison, lateErr, wrote, past, crashes, setup>>

\* The strong tier's barrier: every affected sidecar reaches the device first.
FlushSidecars ==
  /\ mode = "open"
  /\ job.at = "flush"
  /\ \/ /\ side' = [f \in DOMAIN side |-> IF f \in {Sidecar(d) : d \in Writes(job.batch)}
                                          THEN FlushedFile(side[f]) ELSE side[f]]
        /\ job' = [job EXCEPT !.at = "main"]
        /\ UNCHANGED <<mode, st, poison, lateErr>>
     \/ /\ "sync" \in setup.faults
        /\ UNCHANGED side
        /\ PoisonedBy
  /\ UNCHANGED <<main, wrote, past, crashes, setup>>

\* Step 2: the record lines, then the one marker that publishes them.
AppendMain ==
  /\ mode = "open"
  /\ job.at = "main"
  /\ LET next == IF job.sent < Len(job.plan)
                 THEN job.plan[job.sent + 1]
                 ELSE Marker(job.seq, Len(job.plan), job.ends)
     IN  \/ /\ MainIs(Written(main.lines, next))
            /\ job' = [job EXCEPT !.sent = @ + 1,
                                  !.at = IF next.kind = "marker" THEN "publish" ELSE @]
            /\ wrote' = TRUE
            /\ UNCHANGED <<mode, st, poison, lateErr>>
         \/ /\ "append" \in setup.faults
            /\ MainIs(CutShort(main.lines)) \/ UNCHANGED main
            /\ PoisonedBy
            /\ UNCHANGED wrote
  /\ UNCHANGED <<side, past, crashes, setup>>

\* What a commit leaves to reclaim.
Reclaiming(docs) == IF docs = {} THEN Idle ELSE [at |-> "reclaim", docs |-> docs]

\* Plausible bug: only the marker is applied to the state in memory.
PublishMarkerOnly ==
  /\ mode = "open"
  /\ job.at = "publish"
  /\ st' = Apply(st, Marker(job.seq, Len(job.plan), job.ends))
  /\ job' = Idle
  /\ UNCHANGED <<disk, mode, poison, lateErr, wrote, past, crashes, setup>>

\* Step 3: publish in memory, acknowledge, then see what this commit authorises.
Publish ==
  /\ mode = "open"
  /\ job.at = "publish"
  /\ st' = ApplyAll(st, Append(job.plan, Marker(job.seq, Len(job.plan), job.ends))).st
  /\ job' = Reclaiming({d \in DOMAIN job.batch :
                          (Writes(job.batch) \cup Retires(job.batch)) \cap {d} # {}
                          /\ Reclaimable(st', d)})
  /\ UNCHANGED <<disk, mode, poison, lateErr, wrote, past, crashes, setup>>

-----------------------------------------------------------------------------
(* Reclamation: reclaim and reclaim_one. *)

\* "Deferred": the next candidate, and nothing is said of the failure.
Defer(d) ==
  /\ job' = Reclaiming(job.docs \ {d})
  /\ UNCHANGED <<mode, st, poison>>

\* Plausible bug: the kept slices keep their old offsets.
KeptAsTheyWere(slices) ==
  LET from == NewestBase(slices)
  IN  [i \in 1..(Len(slices) + 1 - from) |-> slices[from + i - 1]]

\* The slices a reclamation keeps, their offsets counted from the new file's start.
Rebased(slices) ==
  LET from == NewestBase(slices) IN
  [i \in 1..(Len(slices) + 1 - from) |->
     [slices[from + i - 1] EXCEPT !.end = @ - Start(slices, from)]]

\* The records from the newest base to the confirmed end, copied as bytes.
Tail_(d) ==
  LET slices == st.docs[d].slices
  IN  SubSeq(File(Sidecar(d)).recs, Start(slices, NewestBase(slices)) + 1, Confirmed(d))

\* Plausible bug: the replacement is renamed over the live sidecar.
NextGenerationInPlace(d) == <<d, st.docs[d].generation>>

NextGeneration(d) == <<d, st.docs[d].generation + 1>>

\* Flush main.jsonl (strong tier), write the replacement, rename it durably to the next
\* generation's name.  Any failure defers; a failed flush takes the sticky error with it.
CopyTail ==
  /\ mode = "open"
  /\ job.at = "reclaim"
  /\ LET d == First(job.docs) IN
     \/ /\ setup.flushes => ~lateErr
        /\ main' = IF setup.flushes THEN FlushedMain ELSE main
        /\ side' = Put(side, NextGeneration(d), FlushedFile([NewFile EXCEPT !.recs = Tail_(d)]))
        /\ job' = [at |-> "authorise", docs |-> job.docs, doc |-> d]
        /\ UNCHANGED <<mode, st, poison, lateErr>>
     \/ /\ "sync" \in setup.faults \/ (setup.flushes /\ lateErr)
        /\ \/ UNCHANGED disk
           \/ /\ UNCHANGED main
              /\ side' = Put(side, NextGeneration(d), [NewFile EXCEPT !.recs = Tail_(d)])
        /\ lateErr' = (lateErr /\ ~setup.flushes)
        /\ Defer(d)
  /\ UNCHANGED <<wrote, past, crashes, setup>>

\* The line that makes the next generation the authoritative one.  A failed append only
\* defers: it poisons nothing.
AuthoriseReclaim ==
  /\ mode = "open"
  /\ job.at = "authorise"
  /\ LET d == job.doc
         line == Reclaim(d, st.docs[d].generation + 1, Rebased(st.docs[d].slices))
     IN  \/ /\ MainIs(Written(main.lines, line))
            /\ st' = Apply(st, line)
            /\ job' = [job EXCEPT !.at = "remove"]
            /\ wrote' = TRUE
            /\ UNCHANGED <<mode, poison>>
         \/ /\ "reclaimAppend" \in setup.faults
            /\ MainIs(CutShort(main.lines)) \/ UNCHANGED main
            /\ Defer(d)
            /\ UNCHANGED wrote
  /\ UNCHANGED <<side, lateErr, past, crashes, setup>>

Without(f) == [g \in DOMAIN side \ {f} |-> side[g]]
OldGeneration(d) == <<d, st.docs[d].generation - 1>>

\* The old generation goes once the line naming its replacement is as durable as it is.
RemoveOld ==
  /\ mode = "open"
  /\ job.at = "remove"
  /\ \/ /\ setup.flushes => ~lateErr
        /\ main' = IF setup.flushes THEN FlushedMain ELSE main
        /\ side' = Without(OldGeneration(job.doc))
        /\ UNCHANGED lateErr
     \/ /\ setup.flushes
        /\ "sync" \in setup.faults \/ lateErr
        /\ lateErr' = FALSE
        /\ UNCHANGED disk
  /\ job' = Reclaiming(job.docs \ {job.doc})
  /\ UNCHANGED <<mode, st, poison, wrote, past, crashes, setup>>

-----------------------------------------------------------------------------
(* mint_raw, deferred flushes, close. *)

Fate(id) == IF id \in lost THEN "lost" ELSE "kept"

\* A writer hands out the ids of the block it reserved one at a time.
MintRaw ==
  /\ Ready
  /\ ~poison
  /\ st.next <= setup.maxId
  /\ lateErr' = FALSE
  /\ LET high == st.next + IdBlock - 1 IN
     \/ /\ lateErr
        /\ poison' = TRUE
        /\ UNCHANGED <<main, st, wrote, issued, lost, reissued>>
     \/ /\ ~lateErr
        /\ st.next > st.reserved
        /\ "append" \in setup.faults
        /\ MainIs(CutShort(main.lines)) \/ UNCHANGED main
        /\ poison' = TRUE
        /\ UNCHANGED <<st, wrote, issued, lost, reissued>>
     \/ /\ ~lateErr
        /\ IF st.next > st.reserved THEN MainIs(Written(main.lines, Mint(high))) ELSE UNCHANGED main
        /\ wrote' = (wrote \/ st.next > st.reserved)
        /\ st' = [st EXCEPT !.reserved = IF st.next > @ THEN high ELSE @, !.next = @ + 1]
        /\ issued' = issued \cup {st.next}
        /\ lost' = lost \ {st.next}
        /\ reissued' = IF st.next \in issued THEN reissued \cup {Fate(st.next)} ELSE reissued
        /\ UNCHANGED poison
  /\ UNCHANGED <<side, mode, job, swept, crashes, setup>>

\* The flush worker fails to write main.jsonl back after the append has returned.
FlushFailsLate ==
  /\ "late" \in setup.faults
  /\ mode = "open"
  /\ ~lateErr
  /\ main.flushed < Len(main.lines)
  /\ lateErr' = TRUE
  /\ UNCHANGED <<disk, mode, st, job, poison, wrote, past, crashes, setup>>

Dropped ==
  /\ st' = Empty
  /\ poison' = FALSE
  /\ lateErr' = FALSE
  /\ wrote' = FALSE

\* close flushes what this process wrote, through the handles it opened; then the value is
\* dropped, and the lock with it.  (Sidecar flushes are left out: the strong tier has made
\* them before each marker, and the other tier has no power loss here.)
Close ==
  /\ Ready
  /\ \/ /\ ~lateErr
        /\ mode' = "closed"
        /\ main' = IF wrote THEN FlushedMain ELSE main
     \/ /\ "sync" \in setup.faults \/ lateErr
        /\ mode' = "down"
        /\ UNCHANGED main
  /\ Dropped
  /\ UNCHANGED <<side, job, past, crashes, setup>>

-----------------------------------------------------------------------------
(* Crashes. *)

Gone ==
  /\ crashes < setup.maxCrashes
  /\ crashes' = crashes + 1
  /\ mode' = "down"
  /\ job' = Idle
  /\ Dropped
  /\ UNCHANGED setup

Kill ==
  /\ mode \in {"open", "repair"}
  /\ Gone
  /\ UNCHANGED <<disk, past>>

\* The survivors of a power loss: any flushed-or-longer prefix, and any set of files that
\* includes every one whose directory entry was made durable.
PowerLoss ==
  /\ setup.powerFails
  /\ \E n \in main.flushed..Len(main.lines), torn \in BOOLEAN :
       LET left == SubSeq(main.lines, 1, n) IN
       /\ torn => n < Len(main.lines)
       /\ main' = [lines |-> IF torn THEN CutShort(left) ELSE left, flushed |-> n]
  /\ \E left \in SUBSET DOMAIN side :
       /\ \A f \in DOMAIN side : side[f].named => f \in left
       /\ \E cut \in [left -> 0..(2 * setup.maxSeq)] :
            /\ \A f \in left : cut[f] \in side[f].flushed..Len(side[f].recs)
            /\ side' = [f \in left |-> [recs |-> SubSeq(side[f].recs, 1, cut[f]),
                                        flushed |-> cut[f], named |-> TRUE]]
  /\ lost' = lost \cup {id \in issued : id >= Replay(main'.lines).st.next}
  /\ Gone
  /\ UNCHANGED <<issued, reissued, swept>>

-----------------------------------------------------------------------------
(* Recovery: open_for_write. *)

\* Claim the identity record (whose rename flushes the directory) and replay the log...
Replayed(truncated) ==
  /\ mode \in {"down", "closed"}
  /\ LET r == Replay(main.lines) IN
     \/ /\ r.ok
        /\ st' = r.st
        /\ mode' = "repair"
        /\ main' = IF r.confirmed < Len(main.lines) THEN truncated ELSE main
     \/ /\ ~r.ok
        /\ mode' = "corrupt"
        /\ UNCHANGED <<st, main>>
  /\ side' = [f \in DOMAIN side |-> [side[f] EXCEPT !.named = TRUE]]
  /\ UNCHANGED <<job, poison, lateErr, wrote, past, crashes, setup>>

Truncated == LET n == Replay(main.lines).confirmed
             IN  [lines |-> SubSeq(main.lines, 1, n), flushed |-> n]

\* ...and cut everything no marker confirms.
OpenMain == Replayed(Truncated)

Complete(f, n) ==
  f \in DOMAIN side /\ Cardinality({i \in DOMAIN side[f].recs : side[f].recs[i] # Torn}) >= n

\* Would a power loss now make recovery want f, although this one does not?
StillNeeded(f) ==
  /\ setup.powerFails
  /\ \E n \in main.flushed..Len(main.lines) :
       LET docs == Replay(SubSeq(main.lines, 1, n)).st.docs
       IN  f[1] \in DOMAIN docs /\ docs[f[1]].generation = f[2]

\* check_sidecars, then sweep_orphans.
OpenSidecars ==
  /\ mode = "repair"
  /\ LET live == {Sidecar(d) : d \in DOMAIN st.docs} IN
     \/ /\ \A d \in DOMAIN st.docs : Confirmed(d) > 0 /\ Complete(Sidecar(d), Confirmed(d))
        /\ mode' = "open"
        /\ side' = [f \in live |->
             IF Len(side[f].recs) > Confirmed(f[1])
             THEN FlushedFile([side[f] EXCEPT !.recs = SubSeq(@, 1, Confirmed(f[1]))])
             ELSE side[f]]
        /\ swept' = (swept \/ \E f \in DOMAIN side \ live : StillNeeded(f))
     \/ /\ \E d \in DOMAIN st.docs : Confirmed(d) = 0 \/ ~Complete(Sidecar(d), Confirmed(d))
        /\ mode' = "corrupt"
        /\ UNCHANGED <<side, swept>>
  /\ UNCHANGED <<main, st, job, poison, lateErr, wrote, issued, lost, reissued, crashes, setup>>

-----------------------------------------------------------------------------

Next ==
  \/ Commit
  \/ AppendContent \/ FlushSidecars \/ AppendMain \/ Publish
  \/ CopyTail \/ AuthoriseReclaim \/ RemoveOld
  \/ MintRaw \/ FlushFailsLate \/ Close
  \/ Kill \/ PowerLoss
  \/ OpenMain \/ OpenSidecars

Spec == Init /\ [][Next]_vars

-----------------------------------------------------------------------------
(* Properties. *)

\* Whatever a crash leaves behind, the store opens again: nothing the protocol writes is
\* ever mistaken for damage.
CrashesAreNotCorruption == mode # "corrupt"

\* The same, and under power loss with the strong tier too, but for one thing: the sweep at
\* open removes a generation whose replacement is named by a line that is not flushed yet.
OnlyTheSweepLosesData == mode = "corrupt" => swept

\* The open store's state is what a recovery of its files would compute -- the single
\* apply_line path -- but for the ids, of which recovery spends a whole block.
MemoryIsTheLog ==
  Ready /\ ~poison =>
    LET r == Replay(main.lines) IN
    /\ r.ok
    /\ r.confirmed = Len(main.lines)
    /\ r.st.last = st.last /\ r.st.rows = st.rows /\ r.st.docs = st.docs
    /\ r.st.next >= st.next

\* The records a read of d selects by the offsets of a state s: from the newest base (from
\* the start, when every point is readable) to the confirmed end of s's generation.
Selected(s, d) ==
  LET slices == s.docs[d].slices
      from   == IF d \in Rewindable THEN 1 ELSE NewestBase(slices)
      file   == File(<<d, s.docs[d].generation>>).recs
      recs   == SubSeq(file, Start(slices, from) + 1, Min({End(s.docs[d]), Len(file)}))
  IN  [i \in DOMAIN recs |-> recs[i].seq]

\* A read returns what the commits of the log wrote, across reclamations, torn writes and
\* crashes: offsets carried by markers never drift from the bytes they describe.
ReadsTellTheHistory ==
  Ready /\ ~poison =>
    \A d \in DOMAIN st.docs :
      /\ Complete(Sidecar(d), Confirmed(d))
      /\ Selected(st, d) = Value(Replay(main.lines).commits, d)

\* At most one live incarnation per address, whatever batches and recoveries did.
OneLivePerAddress ==
  \A d, e \in Live(st) : SameAddress(d, e) => d = e

\* Damage and reuse are what a store of either tier must never come to: it opens again, and no
\* id is handed out twice ("a mint has to be durable before it returns").
CrashesAreHarmless == CrashesAreNotCorruption /\ reissued = {}

\* An id that was handed out is not handed out again (spec.md: gaps are permitted, reuse is
\* not), however many kills and power losses come between, as long as the store still has a
\* line that tells of it: the block it came from, or a commit that used it.  A power loss
\* alone can take the last such line, since no mint waits for a flush.
NoIdIsReissued == "kept" \notin reissued

\* The store implements the abstract one: its log is the markers of main.jsonl, what it
\* has published is what the open process has applied, and what is safe is what is flushed.
Markers(lines) == Filter(lines, {line \in ToSet(lines) : line.kind = "marker"})
Published == LET markers == Markers(main.lines)
             IN  Filter(markers, {line \in ToSet(markers) : line.seq <= st.last})

Pico == INSTANCE PicoStore WITH
  log    <- Markers(main.lines),
  seen   <- IF mode = "open" THEN Len(Published) ELSE 0,
  safe   <- Len(Markers(SubSeq(main.lines, 1, main.flushed))),
  wrote  <- wrote,
  powerFails <- setup.powerFails,
  status <- CASE mode \in {"down", "repair", "corrupt"} -> "down"
              [] mode = "closed" -> "closed"
              [] mode = "open" -> IF poison THEN "poisoned" ELSE "up"

ImplementsPicoStore == Pico!Spec
=============================================================================
