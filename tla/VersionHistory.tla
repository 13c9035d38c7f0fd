----------------------------- MODULE VersionHistory -----------------------------
(***************************************************************************)
(* What the authors of a workflow are promised: one draft at a time, in    *)
(* which every accepted edit follows all the edits accepted before it and  *)
(* is made once, and versions that never change once they are published.   *)
(***************************************************************************)
EXTENDS Naturals, Sequences

CONSTANTS Edits, NoGraph

VARIABLES
    released,  \* the published graphs, in their order
    draft      \* the graph being edited, or NoGraph

vars == <<released, draft>>

\* h is g with edits added, each once and none of those of g.
Continues(g, h) ==
    /\ h \in Seq(Edits) /\ Len(g) <= Len(h)
    /\ \A i \in 1..Len(g) : h[i] = g[i]
    /\ \A i, j \in 1..Len(h) : i < j /\ Len(g) < j => h[i] # h[j]

Init == released = <<>> /\ draft = <<>>

\* Edits are accepted one or several at a time, and once, however often they are sent.
Edit ==
    /\ draft # NoGraph /\ Continues(draft, draft')
    /\ UNCHANGED released

Release ==
    /\ draft # NoGraph
    /\ released' = Append(released, draft)
    /\ draft' = NoGraph

Start(n) ==
    /\ draft = NoGraph
    /\ draft' = released[n]
    /\ UNCHANGED released

Next == Edit \/ Release \/ (\E n \in DOMAIN released : Start(n))

Spec == Init /\ [][Next]_vars
================================================================================
