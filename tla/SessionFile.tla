----------------------------- MODULE SessionFile -----------------------------
(***************************************************************************)
(* A session's JSONL file: cyrup-session's store.rs, durable.rs and the    *)
(* managers (manager/mod.rs, lifecycle.rs, load.rs, navigate.rs) that      *)
(* append to it, in one process or in several.                             *)
(*                                                                         *)
(* One action is one system call that another manager or a crash can       *)
(* come between.  A file is a sequence of lines of which the last may lack *)
(* its newline: that is what a write leaves that a crash or a full disk    *)
(* cut short, and what the next write is glued to.  A process crash keeps  *)
(* every byte written, a power loss keeps of the file a prefix not shorter *)
(* than what was flushed.  Entries are numbered as they are made.          *)
(***************************************************************************)
EXTENDS SequencesExt, SeqFilter

CONSTANTS
  Managers,  \* SessionManagers that may be opened on the path, of any processes
  Nobody,    \* the owner of a flush request whose store was dropped
  Setups     \* the circumstances a behaviour may have, one of which holds throughout

\* What a setup says.
Setup == [
  managers   : SUBSET Managers,   \* who opens the path
  disks      : SUBSET {"missing", "empty", "old", "current"},  \* what is there to begin with
  faults     : SUBSET {"kill", "cut", "power", "refuse", "first", "torn", "flush"},
  lateOpens  : BOOLEAN,  \* may the path be opened between a first flush's create and its write?
  named      : BOOLEAN,  \* does flushing a file flush the directory entry that names it?
  wide       : BOOLEAN,  \* does the text hold characters of more than one byte?
  maxEntries : Nat,      \* bound on entries
  maxFaults  : Nat]      \* bound on faults

ASSUME NobodyAssumption == Nobody \notin Managers
ASSUME SetupsAssumption == \A s \in Setups : s \in Setup

VARIABLES
  inodes,   \* the files there have been at the path, in order of creation
  entryNow, \* the one the path names (0: none) ...
  entrySafe,\* ... and the one it names on the device
  at,       \* per manager: its control point
  entries,  \* per manager: SessionManager::entries
  leaf,     \* per manager: the entry the next one is appended to (0: none)
  talked,   \* per manager: entries_have_conversation(entries)
  flushed,  \* per manager: SessionManager::flushed
  fd,       \* per manager: DiskStore::file (0: None), or create_exclusive's own handle
  syncErr,  \* per manager: DiskStore::sync_err is Some
  requests, \* what the syncer has been asked to flush: <<manager, inode>>
  parent,   \* the parent of every entry made so far
  acked,    \* history: entries in the file whose append returned Ok
  refused,  \* history: entries whose append returned Err
  owed,     \* history: entries written whose flush has not come back
  excused,  \* history: entries a power loss caught before their flush
  faults,   \* number of faults so far
  losses,   \* number of power losses so far
  setup     \* the circumstances

disk    == <<inodes, entryNow, entrySafe>>
manager == <<at, entries, leaf, talked, flushed, fd, syncErr>>
past    == <<acked, refused, owed, excused>>
vars    == <<disk, manager, requests, parent, past, faults, losses, setup>>

-----------------------------------------------------------------------------
(* Lines and files. *)

Header    == [kind |-> "header", id |-> 0]
OldHeader == [kind |-> "oldHeader", id |-> 0]
Junk      == [kind |-> "junk", id |-> 0]   \* a line that does not parse
Cut       == [kind |-> "cut", id |-> 0]    \* one that is not UTF-8
Line(e)   == [kind |-> "entry", id |-> e]

NewFile(lines) == [lines |-> lines, open |-> FALSE, synced |-> 0, sick |-> FALSE]
Flushed(f) == IF f.sick THEN f ELSE [f EXCEPT !.synced = Len(f.lines)]

\* The first bytes written behind an unterminated line make it another line, which no
\* longer parses, or is not even UTF-8.
Glued(f) == [f EXCEPT !.lines = Front(f.lines) \o <<IF Last(f.lines) = Cut THEN Cut ELSE Junk>>,
                      !.open = FALSE,
                      !.synced = IF f.synced = Len(f.lines) THEN f.synced - 1 ELSE f.synced]

\* What the beginning of a line is by itself.  It may end inside a character.
Torn == IF setup.wide THEN {Junk, Cut} ELSE {Junk}

\* One write(2) of whole lines.
Written(f, text) ==
  IF text = <<>> THEN f
  ELSE IF f.open THEN [Glued(f) EXCEPT !.lines = @ \o Tail(text)]
  ELSE [f EXCEPT !.lines = @ \o text]

\* ... and one that stops inside a line: in its text, or just before its newline.
StoppedIn(f, line) ==
  IF f.open THEN {[Glued(f) EXCEPT !.lines = Front(@) \o <<piece>>, !.open = TRUE]
                   : piece \in IF Last(f.lines) = Cut THEN {Cut} ELSE Torn}
  ELSE {[f EXCEPT !.lines = Append(@, piece), !.open = TRUE] : piece \in Torn \cup {line}}

\* What a write of these lines may leave if it does not complete.
CutShort(f, text) ==
  UNION {LET whole == Written(f, SubSeq(text, 1, n - 1))
         IN  {whole} \cup StoppedIn(whole, text[n]) : n \in DOMAIN text}

\* What a power loss may leave.
Survivors(f) ==
  {f} \cup UNION {LET kept == [f EXCEPT !.lines = SubSeq(@, 1, n), !.open = FALSE]
                  IN  {kept} \cup StoppedIn(kept, f.lines[n + 1])
                  : n \in f.synced..Len(f.lines) - 1}

-----------------------------------------------------------------------------
(* load: what the tolerant reader makes of a file. *)

\* It skips a line that does not parse, and gives up at one that is not UTF-8.
Legible(lines) ==
  IF Cut \notin ToSet(lines) THEN lines
  ELSE SubSeq(lines, 1, SelectInSeq(lines, LAMBDA line : line = Cut) - 1)

Parsed(f) == Filter(Legible(f.lines), [kind : {"header", "oldHeader", "entry"}, id : Nat])
IsSession(f) ==
  LET parsed == Parsed(f)
  IN  parsed # <<>> /\ parsed[1] \in {Header, OldHeader}
Recovered(f) == Parsed(f) # f.lines
EntriesOf(f) ==
  LET parsed == Parsed(f)
  IN  IF IsSession(f) THEN [i \in 1..Len(parsed) - 1 |-> parsed[i + 1].id] ELSE <<>>

\* What a manager opened on the path would hold, and what one opened now would.
Opened(files, named) == IF named = 0 THEN <<>> ELSE EntriesOf(files[named])
Recorded == Opened(inodes, entryNow)

\* What it would not, although it is there: the lines behind the one the reader gives up at.
Hidden ==
  IF entryNow = 0 THEN {}
  ELSE LET lines == inodes[entryNow].lines
       IN  {lines[i].id : i \in Len(Legible(lines)) + 1..Len(lines)}

Init ==
  /\ setup \in Setups
  /\ \E d \in setup.disks :
       /\ inodes = CASE d = "missing" -> <<>>
                     [] d = "empty"   -> <<NewFile(<<>>)>>
                     [] d = "old"     -> <<Flushed(NewFile(<<OldHeader, Line(1)>>))>>
                     [] d = "current" -> <<Flushed(NewFile(<<Header, Line(1)>>))>>
       /\ parent = IF d \in {"old", "current"} THEN <<0>> ELSE <<>>
       /\ acked = IF d \in {"old", "current"} THEN {1} ELSE {}
  /\ entryNow = Len(inodes)
  /\ entrySafe = Len(inodes)
  /\ at = [m \in Managers |-> "closed"]
  /\ entries = [m \in Managers |-> <<>>]
  /\ leaf = [m \in Managers |-> 0]
  /\ talked = [m \in Managers |-> FALSE]
  /\ flushed = [m \in Managers |-> FALSE]
  /\ fd = [m \in Managers |-> 0]
  /\ syncErr = [m \in Managers |-> FALSE]
  /\ requests = {}
  /\ refused = {}
  /\ owed = {}
  /\ excused = {}
  /\ faults = 0
  /\ losses = 0

Goto(m, point) == at' = [at EXCEPT ![m] = point]
FileIs(i, f) == inodes' = [inodes EXCEPT ![i] = f]

\* A call fails, if this behaviour has such faults.
Fault(kind) ==
  /\ kind \in setup.faults
  /\ faults < setup.maxFaults
  /\ faults' = faults + 1

-----------------------------------------------------------------------------
(* Opening. *)

\* Nobody is replacing the file; and nobody has created it and not written it yet, unless
\* the setup allows that.  (Two managers that replace one file at once would share its
\* temporary sibling; that is left out.)
MayOpen(m) ==
  /\ m \in setup.managers
  /\ at[m] = "closed"
  /\ \A n \in Managers : at[n] \notin {"replacing", "naming"}
  /\ setup.lateOpens \/ \A n \in Managers : at[n] # "writing"

\* assemble: the leaf is the last entry.
Assemble(m, loaded) ==
  /\ entries' = [entries EXCEPT ![m] = loaded]
  /\ leaf' = [leaf EXCEPT ![m] = IF loaded = <<>> THEN 0 ELSE Last(loaded)]

\* create, or open_with_cwd of a path where there is nothing: the file comes with the
\* first message.
OpenMissing(m) ==
  /\ MayOpen(m)
  /\ entryNow = 0
  /\ Assemble(m, <<>>)
  /\ Goto(m, "idle")
  /\ UNCHANGED <<disk, talked, flushed, fd, syncErr, requests, parent, past, faults, losses,
                 setup>>

\* open_with_cwd of an empty file, to be replaced by one with a header ...
OpenEmpty(m) ==
  /\ MayOpen(m)
  /\ entryNow # 0
  /\ inodes[entryNow].lines = <<>>
  /\ Assemble(m, <<>>)
  /\ Goto(m, "replacing")
  /\ UNCHANGED <<disk, talked, flushed, fd, syncErr, requests, parent, past, faults, losses,
                 setup>>

\* terminate_last_line.
Terminated(f) ==
  [f EXCEPT !.open = FALSE,
            !.synced = IF f.open /\ f.synced = Len(f.lines) THEN f.synced - 1 ELSE f.synced]

\* Plausible bug: the last line is left as it is.
OpenFileUnterminated(m) ==
  LET f == inodes[entryNow]
  IN  /\ MayOpen(m)
      /\ entryNow # 0
      /\ IsSession(f)
      /\ Assemble(m, EntriesOf(f))
      /\ flushed' = [flushed EXCEPT ![m] = TRUE]
      /\ Goto(m, IF Parsed(f)[1] = OldHeader /\ ~Recovered(f) THEN "replacing" ELSE "idle")
      /\ UNCHANGED <<disk, talked, fd, syncErr, requests, parent, past, faults, losses, setup>>

\* ... and of one that load accepts: what parses is kept, the last line is terminated, and
\* a file of an older version is rewritten unless something in it was dropped.
OpenFile(m) ==
  LET f == inodes[entryNow]
  IN  /\ MayOpen(m)
      /\ entryNow # 0
      /\ IsSession(f)
      /\ Assemble(m, EntriesOf(f))
      /\ flushed' = [flushed EXCEPT ![m] = TRUE]
      /\ FileIs(entryNow, Terminated(f))
      /\ Goto(m, IF Parsed(f)[1] = OldHeader /\ ~Recovered(f) THEN "replacing" ELSE "idle")
      /\ UNCHANGED <<entryNow, entrySafe, talked, fd, syncErr, requests, parent, past, faults,
                     losses, setup>>

\* What a dropped manager leaves to the next one opened in its place.
Forget(m) ==
  /\ Goto(m, "closed")
  /\ entries' = [entries EXCEPT ![m] = <<>>]
  /\ leaf' = [leaf EXCEPT ![m] = 0]
  /\ talked' = [talked EXCEPT ![m] = FALSE]
  /\ flushed' = [flushed EXCEPT ![m] = FALSE]
  /\ fd' = [fd EXCEPT ![m] = 0]
  /\ syncErr' = [syncErr EXCEPT ![m] = FALSE]

\* rewrite: the temporary sibling, which nobody reads, is written and flushed, and renamed
\* over the path.
Replace(m) ==
  /\ at[m] = "replacing"
  /\ inodes' = Append(inodes, Flushed(NewFile(
                 <<Header>> \o [i \in DOMAIN entries[m] |-> Line(entries[m][i])])))
  /\ entryNow' = Len(inodes')
  /\ Goto(m, "naming")
  /\ UNCHANGED <<entrySafe, entries, leaf, talked, flushed, fd, syncErr, requests, parent,
                 past, faults, losses, setup>>

\* fsync_parent_dir.
NameFile(m) ==
  /\ at[m] = "naming"
  /\ entrySafe' = entryNow
  /\ flushed' = [flushed EXCEPT ![m] = TRUE]
  /\ Goto(m, "idle")
  /\ UNCHANGED <<inodes, entryNow, entries, leaf, talked, fd, syncErr, requests, parent, past,
                 faults, losses, setup>>

\* A failure of either fails the open.
OpenFails(m) ==
  /\ \/ at[m] = "replacing" /\ Fault("refuse")
     \/ at[m] = "naming" /\ Fault("flush")
  /\ Forget(m)
  /\ UNCHANGED <<disk, requests, parent, past, losses, setup>>

-----------------------------------------------------------------------------
(* push_entry and persist_last. *)

\* The entry is in memory, and the leaf is on it, before anything is written.
Push(m) ==
  /\ at[m] = "idle"
  /\ Len(parent) < setup.maxEntries
  /\ parent' = Append(parent, leaf[m])
  /\ entries' = [entries EXCEPT ![m] = Append(@, Len(parent) + 1)]
  /\ leaf' = [leaf EXCEPT ![m] = Len(parent) + 1]

\* No message yet: setup entries stay in memory.
AppendSetup(m) ==
  /\ ~flushed[m] /\ ~talked[m]
  /\ Push(m)
  /\ UNCHANGED <<disk, at, talked, flushed, fd, syncErr, requests, past, faults, losses, setup>>

\* The first message, or any entry after it as long as the file could not be made.
BeginFirstFlush(m) ==
  /\ ~flushed[m]
  /\ Push(m)
  /\ talked' = [talked EXCEPT ![m] = TRUE]
  /\ Goto(m, "creating")
  /\ UNCHANGED <<disk, flushed, fd, syncErr, requests, past, faults, losses, setup>>

Refuse(m) == refused' = refused \cup {leaf[m]}

\* Plausible bug: whatever is at the path is truncated.
CreateTruncating(m) ==
  /\ at[m] = "creating"
  /\ IF entryNow = 0
     THEN inodes' = Append(inodes, NewFile(<<>>)) /\ entryNow' = Len(inodes')
     ELSE FileIs(entryNow, NewFile(<<>>)) /\ UNCHANGED entryNow
  /\ fd' = [fd EXCEPT ![m] = entryNow']
  /\ Goto(m, "writing")
  /\ UNCHANGED <<entrySafe, entries, leaf, talked, flushed, syncErr, requests, parent, past,
                 faults, losses, setup>>

\* create_exclusive: create_new refuses a file that exists; the append fails, and the entry
\* stays in memory.
Create(m) ==
  /\ at[m] = "creating"
  /\ \/ /\ entryNow = 0
        /\ inodes' = Append(inodes, NewFile(<<>>))
        /\ entryNow' = Len(inodes')
        /\ fd' = [fd EXCEPT ![m] = entryNow']
        /\ Goto(m, "writing")
        /\ UNCHANGED <<refused, faults>>
     \/ /\ (entryNow # 0 /\ UNCHANGED faults) \/ Fault("refuse")
        /\ Refuse(m)
        /\ Goto(m, "idle")
        /\ UNCHANGED <<inodes, entryNow, fd>>
  /\ UNCHANGED <<entrySafe, entries, leaf, talked, flushed, syncErr, requests, parent, acked,
                 owed, excused, losses, setup>>

Lines(m) == [i \in DOMAIN entries[m] |-> Line(entries[m][i])]

\* Plausible bug: only the entry that made the file is written into it.
LastLineOnly(m) == <<Header, Line(leaf[m])>>

\* The header and everything buffered so far.
FirstText(m) == <<Header>> \o Lines(m)

\* ... are written in one call, which may fail half way.
WriteFirst(m) ==
  /\ at[m] = "writing"
  /\ \/ /\ FileIs(fd[m], Written(inodes[fd[m]], FirstText(m)))
        /\ Goto(m, "flushing")
        /\ UNCHANGED <<fd, refused, faults>>
     \/ /\ \/ Fault("refuse") /\ UNCHANGED inodes
           \/ Fault("first") /\ \E f \in CutShort(inodes[fd[m]], FirstText(m)) : FileIs(fd[m], f)
        /\ fd' = [fd EXCEPT ![m] = 0]
        /\ Refuse(m)
        /\ Goto(m, "idle")
  /\ UNCHANGED <<entryNow, entrySafe, entries, leaf, talked, flushed, syncErr, requests, parent,
                 acked, owed, excused, losses, setup>>

\* Plausible bug: the new file is not flushed.
SyncFirstSkipped(m) ==
  /\ at[m] = "flushing"
  /\ flushed' = [flushed EXCEPT ![m] = TRUE]
  /\ acked' = acked \cup ToSet(entries[m])
  /\ refused' = refused \ ToSet(entries[m])
  /\ fd' = [fd EXCEPT ![m] = 0]
  /\ Goto(m, "idle")
  /\ UNCHANGED <<disk, entries, leaf, talked, syncErr, requests, parent, owed, excused, faults,
                 losses, setup>>

\* What the path names on the device once this file is flushed.
NamedBy(i) == IF setup.named /\ entryNow = i THEN i ELSE entrySafe

\* The flush the first message waits for.
SyncFirst(m) ==
  /\ at[m] = "flushing"
  /\ fd' = [fd EXCEPT ![m] = 0]
  /\ Goto(m, "idle")
  /\ \/ /\ FileIs(fd[m], Flushed(inodes[fd[m]]))
        /\ entrySafe' = NamedBy(fd[m])
        /\ flushed' = [flushed EXCEPT ![m] = TRUE]
        /\ acked' = acked \cup ToSet(entries[m])
        /\ refused' = refused \ ToSet(entries[m])
        /\ UNCHANGED faults
     \/ /\ Fault("flush")
        /\ FileIs(fd[m], [inodes[fd[m]] EXCEPT !.sick = TRUE])
        /\ Refuse(m)
        /\ UNCHANGED <<entrySafe, flushed, acked>>
  /\ UNCHANGED <<entryNow, entries, leaf, talked, syncErr, requests, parent, owed, excused,
                 losses, setup>>

\* The file append_line writes to: the held handle, or what the path names now.
Handle(m) == IF fd[m] = 0 THEN entryNow ELSE fd[m]

\* append_line: one write, and the flush is the syncer's.  A flush that failed meanwhile is
\* reported now, although this entry is in the file; a write that fails gives up the handle.
AppendLine(m) ==
  LET i == Handle(m)
      e == Len(parent) + 1
  IN  /\ flushed[m]
      /\ Push(m)
      /\ syncErr' = [syncErr EXCEPT ![m] = FALSE]
      /\ \/ /\ FileIs(i, Written(inodes[i], <<Line(e)>>))
            /\ fd' = [fd EXCEPT ![m] = i]
            /\ requests' = requests \cup {<<m, i>>}
            /\ owed' = owed \cup {e}
            /\ acked' = IF syncErr[m] THEN acked ELSE acked \cup {e}
            /\ UNCHANGED <<refused, faults>>
         \/ /\ \/ Fault("refuse") /\ UNCHANGED inodes
               \/ Fault("torn") /\ \E f \in CutShort(inodes[i], <<Line(e)>>) : FileIs(i, f)
            /\ fd' = [fd EXCEPT ![m] = 0]
            /\ refused' = refused \cup {e}
            /\ UNCHANGED <<requests, owed, acked>>
      /\ UNCHANGED <<entryNow, entrySafe, at, talked, flushed, excused, losses, setup>>

\* branch and reset_leaf: the leaf is nowhere but in memory.
Navigate(m) ==
  /\ at[m] = "idle"
  /\ \E to \in ToSet(entries[m]) \cup {0} : leaf' = [leaf EXCEPT ![m] = to]
  /\ UNCHANGED <<disk, at, entries, talked, flushed, fd, syncErr, requests, parent, past,
                 faults, losses, setup>>

-----------------------------------------------------------------------------
(* The syncer, and the ends. *)

\* One flush of a round: what has been written to the file by now is on the device.  A
\* failure is kept for the store's next append; the pages it was about are not tried again.
Sync(r) ==
  /\ r \in requests
  /\ requests' = requests \ {r}
  /\ \/ /\ FileIs(r[2], Flushed(inodes[r[2]]))
        /\ owed' = IF inodes[r[2]].sick THEN owed
                   ELSE owed \ {line.id : line \in ToSet(inodes[r[2]].lines)}
        /\ entrySafe' = NamedBy(r[2])
        /\ UNCHANGED <<syncErr, faults>>
     \/ /\ Fault("flush")
        /\ FileIs(r[2], [inodes[r[2]] EXCEPT !.sick = TRUE])
        /\ syncErr' = IF r[1] = Nobody THEN syncErr ELSE [syncErr EXCEPT ![r[1]] = TRUE]
        /\ UNCHANGED <<owed, entrySafe>>
  /\ UNCHANGED <<entryNow, at, entries, leaf, talked, flushed, fd, parent, acked, refused,
                 excused, losses, setup>>

\* The store is dropped, with a last flush of what it wrote.
Close(m) ==
  /\ at[m] = "idle"
  /\ Forget(m)
  /\ requests' = {IF r[1] = m THEN <<Nobody, r[2]>> ELSE r : r \in requests}
                   \cup (IF fd[m] = 0 THEN {} ELSE {<<Nobody, fd[m]>>})
  /\ UNCHANGED <<disk, parent, past, faults, losses, setup>>

\* The process dies between two calls, and what it asked its syncer for with it ...
Kill(m) ==
  /\ at[m] # "closed"
  /\ Fault("kill")
  /\ Forget(m)
  /\ requests' = {r \in requests : r[1] # m}
  /\ UNCHANGED <<disk, parent, past, losses, setup>>

\* ... or inside a write.
DieWriting(m) ==
  /\ Fault("cut")
  /\ \/ /\ at[m] = "writing"
        /\ \E f \in CutShort(inodes[fd[m]], FirstText(m)) : FileIs(fd[m], f)
        /\ UNCHANGED parent
     \/ /\ at[m] = "idle" /\ flushed[m]
        /\ Len(parent) < setup.maxEntries
        /\ parent' = Append(parent, leaf[m])
        /\ \E f \in CutShort(inodes[Handle(m)], <<Line(Len(parent) + 1)>>) : FileIs(Handle(m), f)
  /\ Forget(m)
  /\ requests' = {r \in requests : r[1] # m}
  /\ UNCHANGED <<entryNow, entrySafe, past, losses, setup>>

\* The machine loses power: a prefix of the file is left, if the path names it still.
PowerLoss ==
  /\ Fault("power")
  /\ losses' = losses + 1
  /\ \E i \in {entryNow, entrySafe} :
       IF i = 0
       THEN inodes' = <<>>
       ELSE \E f \in Survivors(inodes[i]) :
              inodes' = <<[f EXCEPT !.synced = Len(f.lines), !.sick = FALSE]>>
  /\ entryNow' = Len(inodes')
  /\ entrySafe' = Len(inodes')
  /\ at' = [m \in Managers |-> "closed"]
  /\ entries' = [m \in Managers |-> <<>>]
  /\ leaf' = [m \in Managers |-> 0]
  /\ talked' = [m \in Managers |-> FALSE]
  /\ flushed' = [m \in Managers |-> FALSE]
  /\ fd' = [m \in Managers |-> 0]
  /\ syncErr' = [m \in Managers |-> FALSE]
  /\ requests' = {}
  /\ excused' = excused \cup owed
  /\ owed' = {}
  /\ UNCHANGED <<parent, acked, refused, setup>>

Next ==
  \/ \E m \in Managers :
       \/ OpenMissing(m) \/ OpenEmpty(m) \/ OpenFile(m) \/ Replace(m) \/ NameFile(m)
       \/ OpenFails(m) \/ AppendSetup(m) \/ BeginFirstFlush(m) \/ Create(m) \/ WriteFirst(m)
       \/ SyncFirst(m) \/ AppendLine(m) \/ Navigate(m) \/ Close(m) \/ Kill(m) \/ DieWriting(m)
  \/ \E r \in requests : Sync(r)
  \/ PowerLoss

Spec == Init /\ [][Next]_vars

-----------------------------------------------------------------------------
(* Properties. *)

\* The circumstances under which the first three hold: a write that is cut short kills its process, whose
\* file nobody else has open; a creator is left alone between its two calls; a flushed file is
\* named; and a flush that fails is about pages of one process.
Sound(s) ==
  /\ ~s.lateOpens /\ s.named /\ "torn" \notin s.faults
  /\ {"cut", "flush"} \cap s.faults # {} => \A m, n \in s.managers : m = n

\* An append that returned Ok is there for whoever opens the file, through process crashes;
\* and through power losses too once its flush has come back, which the first message of a
\* session waits for.  If a crash left the file with a line that is not UTF-8, then what was
\* appended behind that line is in the file still, and only such entries are not read.
AcknowledgedEntriesSurvive == acked \ excused \subseteq ToSet(Recorded) \cup Hidden

\* What an entry is attached to is in the file with it, so that a conversation read back is
\* the one that was held, up to an entry whose append was refused.
HistoryIsCutAtRefusalsOnly ==
  LET list == Recorded
  IN  \A i \in DOMAIN list :
        LET up == parent[list[i]]
        IN  up # 0 => up \in refused \/ \E j \in 1..i - 1 : list[j] = up

\* "Append-only in memory and on disk": short of a power loss, what an open would have read
\* stays what it reads first.
NothingIsUnwritten ==
  [][losses' = losses => IsPrefix(Recorded, Opened(inodes', entryNow'))]_disk


\* "A crash mid-write leaves a partial final line that the tolerant reader drops", and "this
\* append starts a fresh line instead of being glued onto the partial one and lost with it":
\* what was answered Ok is read by the next open, whatever crash there was.
AcknowledgedEntriesAreRead == acked \ excused \subseteq ToSet(Recorded)

=============================================================================
