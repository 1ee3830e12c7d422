---------------------------- MODULE MCToolBatch ----------------------------
(* Instances of ToolBatch for TLC: a parallel batch of two and a sequential one. *)
EXTENDS ToolBatch

CONSTANTS a1, a2, b1, par, seq, f, g, real, link, other

BothCalls == (par :> <<a1, a2>>) @@ (seq :> <<b1>>)
LinkFile  == (real :> f) @@ (link :> f) @@ (other :> g)
LinkReal  == (f :> real) @@ (g :> other)

Names(p1, p2, q1, files) ==
  [path |-> (a1 :> p1) @@ (a2 :> p2) @@ (b1 :> q1), exists |-> files]

\* One file under two spellings; a new file that two calls name through a symbolic link, beside
\* another file.
Arrangements == {Names(link, real, link, {f, g}), Names(link, link, other, {g})}

=============================================================================
