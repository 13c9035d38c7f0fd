--------------------------- MODULE ConversationTurns ---------------------------
(***************************************************************************)
(* What a conversation promises about its turns: they are served one at a  *)
(* time and in the order they were asked, an answer is given only in the   *)
(* turn that is being served, and a turn that has ended never starts again.*)
(* A turn may still be asked, and taken up, by those who had found the     *)
(* conversation before it was deleted; it gets no answer.                  *)
(***************************************************************************)
EXTENDS Naturals

CONSTANT Turns   \* their sequence numbers

VARIABLES
    turn,     \* "absent", "waiting", "serving" or "ended"
    answered, \* the turns that got an answer
    exists    \* the conversation has not been deleted

vars == <<turn, answered, exists>>

Init ==
    /\ turn = [t \in Turns |-> "absent"]
    /\ answered = {}
    /\ exists = TRUE

Ask(t) ==
    /\ turn[t] = "absent"
    /\ \A s \in Turns : s > t => turn[s] = "absent"
    /\ turn' = [turn EXCEPT ![t] = "waiting"]
    /\ UNCHANGED <<answered, exists>>

Serve(t) ==
    /\ turn[t] = "waiting"
    /\ \A s \in Turns : turn[s] # "serving" /\ (s < t => turn[s] # "waiting")
    /\ turn' = [turn EXCEPT ![t] = "serving"]
    /\ UNCHANGED <<answered, exists>>

Answer(t) ==
    /\ exists /\ turn[t] = "serving"
    /\ turn' = [turn EXCEPT ![t] = "ended"]
    /\ answered' = answered \cup {t}
    /\ UNCHANGED exists

\* Some turns end without an answer: one is stopped or fails, or a restart
\* interrupts them all.
End(S) ==
    /\ \A t \in S : turn[t] \in {"waiting", "serving"}
    /\ turn' = [t \in Turns |-> IF t \in S THEN "ended" ELSE turn[t]]
    /\ UNCHANGED <<answered, exists>>

Delete ==
    /\ exists /\ exists' = FALSE
    /\ turn' = [t \in Turns |-> "absent"]
    /\ answered' = {}

Next ==
    \/ \E t \in Turns : Ask(t) \/ Serve(t) \/ Answer(t)
    \/ \E S \in SUBSET Turns : End(S)
    \/ Delete

Spec == Init /\ [][Next]_vars
================================================================================
