-------------------------- MODULE MCInjectionPump --------------------------
(* Instances of InjectionPump for TLC: which messages come together. *)
EXTENDS InjectionPump

CONSTANTS t1, t2, s1, n1, p1

Load(messages, count) == [messages |-> messages, retries |-> count]

\* Two turns and a prompt (a turn is taken back, merged with the next, refused and offered again),
\* the largest, without a retry; a steer and a turn beside a prompt (a stranded steer); a steer
\* and a notice appended together; a turn and a notice, of which one is answered first.
Together ==
  {Load({t1, t2, p1}, 0)} \cup {Load(M, 1) : M \in {{t1, s1, p1}, {s1, n1, p1}, {t1, n1}}}

=============================================================================
