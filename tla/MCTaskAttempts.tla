----------------------------- MODULE MCTaskAttempts -----------------------------
(* A small instance of TaskAttempts for TLC. *)
EXTENDS TaskAttempts, TLC

CONSTANTS a1, a2, e1, e2

MCAuthors == {a1, a2}
MCEdits == {e1, e2}
Symmetry == Permutations(MCAuthors) \cup Permutations(MCEdits)

\* Two requests under way, or one and one attempt, or two attempts; and once there is a
\* task, nothing unsaved.
Load ==
    /\ Cardinality(requests) + Len(attempts) <= 2
    /\ pin # 0 => \A c \in Authors : screen[c] = window[c].graph
================================================================================
