---------------------------- MODULE MCAgentLatch ----------------------------
(* The instance of AgentLatch for TLC. *)
EXTENDS AgentLatch, TLC

CONSTANTS c1, c2  \* Callers

\* What the two callers may begin.  Either can start a run, beside the other's or after it;
\* one resets and edits what the other feeds, aborts and waits for.
Divided == [
  ops |-> c1 :> {"prompt", "reset", "edit", "model"} @@
          c2 :> {"continue", "steer", "final", "abort", "wait"},
  histories |-> {"none", "system"}, maxMsgs |-> 2]

\* Three messages in the queues, which a run polls and a continuation of an answered
\* conversation drains while more are pushed.
Queues == [
  ops |-> c1 :> {"prompt", "continue"} @@ c2 :> {"steer", "followUp"},
  histories |-> {"answered"}, maxMsgs |-> 4]

LatchSetups == {Divided, Queues}

=============================================================================
