----------------------------- MODULE JsonlReader ------------------------------
(***************************************************************************)
(* JsonlStore with a second process: open_read_only takes no lock, replays *)
(* main.jsonl and checks the sidecars in two steps, repairs nothing, and   *)
(* then answers every read from the state it replayed.  The writer goes on *)
(* meanwhile.                                                              *)
(***************************************************************************)
EXTENDS JsonlStore

VARIABLE reader   \* the read-only store: how far it is, and the state it replayed

rvars == <<vars, reader>>

Closed == [at |-> "closed"]

RInit == Init /\ reader = Closed

\* recover::open with repair = false: an unconfirmed tail is ignored and left alone.
ReadMain ==
  /\ setup.reads
  /\ reader.at = "closed"
  /\ LET r == Replay(main.lines) IN
     reader' = IF r.ok THEN [at |-> "replayed", st |-> r.st, commits |-> r.commits]
               ELSE [at |-> "refused"]
  /\ UNCHANGED vars

\* check_sidecars, against the sidecars as they are by then.
CheckSidecars ==
  /\ reader.at = "replayed"
  /\ LET docs == reader.st.docs
         present(d) == Complete(<<d, docs[d].generation>>, End(docs[d]))
     IN  \/ /\ \A d \in DOMAIN docs : present(d)
            /\ reader' = [reader EXCEPT !.at = "open"]
         \/ /\ \E d \in DOMAIN docs : ~present(d)
            /\ reader' = [at |-> "refused"]
  /\ UNCHANGED vars

DropReader ==
  /\ reader.at \in {"open", "refused"}
  /\ reader' = Closed
  /\ UNCHANGED vars

Quietly(step) == step /\ UNCHANGED reader

\* A power loss ends the reader too.
LosePower == PowerLoss /\ reader' = Closed

RNext ==
  \/ Quietly(Commit)
  \/ Quietly(AppendContent) \/ Quietly(FlushSidecars) \/ Quietly(AppendMain) \/ Quietly(Publish)
  \/ Quietly(CopyTail) \/ Quietly(AuthoriseReclaim) \/ Quietly(RemoveOld)
  \/ Quietly(MintRaw) \/ Quietly(FlushFailsLate) \/ Quietly(Close)
  \/ Quietly(Kill) \/ LosePower
  \/ Quietly(OpenMain) \/ Quietly(OpenSidecars)
  \/ ReadMain \/ CheckSidecars \/ DropReader

RSpec == RInit /\ [][RNext]_rvars

-----------------------------------------------------------------------------
(* Properties. *)

\* A reader answers from a prefix of the writer's history, for as long as it lives: what it
\* replayed is never taken back, and a sidecar it can still find holds the bytes its
\* offsets describe, whatever the writer appended, reclaimed or repaired since.
ReaderSeesAPrefix ==
  reader.at = "open" =>
    /\ IsPrefix(reader.commits, Replay(main.lines).commits)
    /\ \A d \in DOMAIN reader.st.docs :
         <<d, reader.st.docs[d].generation>> \in DOMAIN side =>
           Selected(reader.st, d) = Value(reader.commits, d)
=============================================================================
