--------------------------- MODULE ConversationQueue ---------------------------
(***************************************************************************)
(* The turns of one AI conversation: its rows in the conversation store    *)
(* (ai_conversations.py), the jobs that claim and execute them             *)
(* (kick_conversation_queue, run_generation, run_agent_generation) and the *)
(* handlers that post, retry, stop and delete (api/ai_conversations.py).   *)
(*                                                                         *)
(* Every post and every retry makes one row and kicks one job, which may   *)
(* claim another row than its own, and kicks its successor when it ends;   *)
(* so a run and the chain of jobs kicked for it share a number, the run's  *)
(* sequence number.                                                        *)
(***************************************************************************)
EXTENDS Naturals

CONSTANT MaxRuns   \* bound on the posts and retries

ASSUME MaxRunsAssumption == MaxRuns \in Nat

Runs == 1..MaxRuns
Ended == {"completed", "failed", "cancelled", "interrupted"}
Active == {"queued", "running"}

VARIABLES
    exists,    \* FALSE when the conversation was deleted
    asked,     \* how many runs were ever made
    thread,    \* its status: "idle", "running" or "error"
    status,    \* of each run; "none" when there is no such row
    answered,  \* the runs with an assistant message of complete_run
    session,   \* the run that last wrote the Agent's session, 0 for none
    pc,        \* where each job is
    holds,     \* the run it claimed, 0 before
    admitted,  \* requests that found the conversation, and have not acted yet
    chosen,    \* the run a stop request will stop, 0 for no request
    leaving,   \* a delete request has passed its check
    dropped    \* a job gave up a run or the queue because the store raised

vars == <<exists, asked, thread, status, answered, session, pc, holds,
          admitted, chosen, leaving, dropped>>
rows == <<exists, asked, thread, status, answered, session>>
requests == <<admitted, chosen, leaving>>

With(s) == {r \in Runs : status[r] = s}
ActiveRuns == {r \in Runs : status[r] \in Active}
Rows == {r \in Runs : status[r] # "none"}

Init ==
    /\ exists = TRUE /\ asked = 0 /\ thread = "idle"
    /\ status = [r \in Runs |-> "none"]
    /\ answered = {} /\ session = 0
    /\ pc = [j \in Runs |-> "none"]
    /\ holds = [j \in Runs |-> 0]
    /\ admitted = 0 /\ chosen = 0
    /\ leaving = FALSE /\ dropped = FALSE

--------------------------------------------------------------------------------
(* Posting, retrying and kicking.                                          *)

\* A handler looks for the conversation first; whoever else writes before it
\* does is not looked at again.
Admit ==
    /\ exists /\ admitted < MaxRuns
    /\ admitted' = admitted + 1
    /\ UNCHANGED <<rows, pc, holds, chosen, leaving, dropped>>

Acts == admitted > 0 /\ admitted' = admitted - 1

\* What is written of the conversation itself is lost when its row is gone.
ThreadShows(s) == thread' = IF exists THEN s ELSE thread

Enqueue(r) ==
    /\ r = asked + 1 /\ asked' = r
    /\ status' = [status EXCEPT ![r] = "queued"]
    /\ ThreadShows("running")
    /\ pc' = [pc EXCEPT ![r] = "posted"]
    /\ UNCHANGED <<exists, answered, session, holds, chosen, leaving, dropped>>

Post(r) == Acts /\ Enqueue(r)

\* Only a failed or stopped run is tried again, and only in a quiet thread.
Retry(r) ==
    /\ ActiveRuns = {} /\ With("failed") \cup With("cancelled") # {}
    /\ Acts /\ Enqueue(r)

\* Something else is refused, or a check that comes later fails.
Refuse == Acts /\ UNCHANGED <<rows, pc, holds, chosen, leaving, dropped>>

\* A job goes on ...
Move(j, from, to) ==
    /\ pc[j] \in from
    /\ pc' = [pc EXCEPT ![j] = to]

\* ... and lets go of its run.
Release(j, from, to) == Move(j, from, to) /\ holds' = [holds EXCEPT ![j] = 0]

\* The handler reads what it has written, and kicks a job.
Kick(j) ==
    /\ Move(j, {"posted"}, IF j \in Rows THEN "kicked" ELSE "none")
    /\ UNCHANGED <<rows, holds, requests, dropped>>

--------------------------------------------------------------------------------
(* The job.                                                                *)

Oldest(r, S) == r \in S /\ \A s \in S : r <= s
Newest(r, S) == r \in S /\ \A s \in S : r >= s

ClaimBeside(j) ==   \* slip: the claim does not look for a running run
    /\ Move(j, {"kicked"}, "claimed")
    /\ \E r \in Runs : /\ Oldest(r, With("queued"))
                       /\ holds' = [holds EXCEPT ![j] = r]
                       /\ status' = [status EXCEPT ![r] = "running"]
    /\ ThreadShows("running")
    /\ UNCHANGED <<exists, asked, answered, session, requests, dropped>>

\* claim_next_queued_run: one transaction.
Claim(j) ==
    /\ With("running") = {}
    /\ Move(j, {"kicked"}, "claimed")
    /\ \E r \in Runs : /\ Oldest(r, With("queued"))
                       /\ holds' = [holds EXCEPT ![j] = r]
                       /\ status' = [status EXCEPT ![r] = "running"]
    /\ ThreadShows("running")
    /\ UNCHANGED <<exists, asked, answered, session, requests, dropped>>

ClaimNothing(j) ==
    /\ With("running") # {} \/ With("queued") = {}
    /\ Move(j, {"kicked"}, "none")
    /\ UNCHANGED <<rows, holds, requests, dropped>>

\* The claim is announced and the conversation read, before the job's try.
Enter(j) ==
    /\ IF exists THEN Move(j, {"claimed"}, "working") /\ UNCHANGED holds
                 ELSE Release(j, {"claimed"}, "none")
    /\ UNCHANGED <<rows, requests, dropped>>

\* A job sees between two deltas, or after waiting for capacity, that its
\* run was stopped; if the row is gone, reading it raises.
Notice(j) ==
    /\ Release(j, {"working"}, "finally")
    /\ status[holds[j]] \in {"cancelled", "none"}
    /\ UNCHANGED <<rows, requests, dropped>>

\* The Agent's session cannot be resumed: it is forgotten and a fresh one tried.
ForgetSession(j) ==
    /\ pc[j] = "working" /\ session # 0
    /\ session' = 0
    /\ UNCHANGED <<exists, asked, thread, status, answered, pc, holds,
                   requests, dropped>>

\* The last time the job looks whether it was stopped.
Seal(j) ==
    /\ Move(j, {"working"}, "sealed")
    /\ status[holds[j]] \notin {"cancelled", "none"}
    /\ UNCHANGED <<rows, holds, requests, dropped>>

\* upsert_agent_runtime_session.
SaveSession(j) ==
    /\ Move(j, {"sealed"}, "saved")
    /\ session' = holds[j]
    /\ UNCHANGED <<exists, asked, thread, status, answered, holds,
                   requests, dropped>>

CompleteLate(j) ==   \* slip: the status is not checked again
    LET r == holds[j] IN
    /\ Release(j, {"sealed", "saved"}, "finally")
    /\ answered' = answered \cup {r}
    /\ status' = [status EXCEPT ![r] = "completed"]
    /\ ThreadShows("idle")
    /\ UNCHANGED <<exists, asked, session, requests, dropped>>

\* complete_run: the status is checked again in the transaction that answers.
Complete(j) ==
    LET r == holds[j] IN
    /\ Release(j, {"sealed", "saved"}, "finally")
    /\ status[r] \in Active
    /\ answered' = answered \cup {r}
    /\ status' = [status EXCEPT ![r] = "completed"]
    /\ ThreadShows("idle")
    /\ UNCHANGED <<exists, asked, session, requests, dropped>>

\* fail_run, from wherever the job raised or a gate refused the answer.
Fail(j) ==
    LET r == holds[j] IN
    /\ Release(j, {"working", "sealed", "saved"}, "finally")
    /\ status[r] \in Active
    /\ status' = [status EXCEPT ![r] = "failed"]
    /\ ThreadShows("error")
    /\ UNCHANGED <<exists, asked, answered, session, requests, dropped>>

\* Neither changes a run that has ended.
TooLate(j) ==
    /\ Release(j, {"working", "sealed", "saved"}, "finally")
    /\ status[holds[j]] \notin Active
    /\ UNCHANGED <<rows, requests, dropped>>

LeaveQueue(j) ==   \* slip: a job that ends does not look for queued runs
    /\ Move(j, {"finally"}, "none")
    /\ UNCHANGED <<rows, holds, requests, dropped>>

\* next_queued_run: the next run is kicked when none is running.
Finally(j) ==
    /\ Move(j, {"finally"}, IF With("running") = {} /\ With("queued") # {}
                            THEN "kicked" ELSE "none")
    /\ UNCHANGED <<rows, holds, requests, dropped>>

\* A call of the store raises outside the job's try, or in its handlers: the
\* job ends, or gives up its run as it is.
JobRaises(j) ==
    /\ \/ Release(j, {"posted", "kicked", "claimed", "finally"}, "none")
       \/ Release(j, {"working", "sealed", "saved"}, "finally")
    /\ dropped' = TRUE
    /\ UNCHANGED <<rows, requests>>

--------------------------------------------------------------------------------
(* Stopping, deleting and restarting.                                      *)

\* cancel_run reads, outside any transaction, the row it will stop: the
\* running one, or else the newest queued one ...
Choose ==
    /\ chosen = 0 /\ Acts
    /\ chosen' \in Runs
    /\ \/ Oldest(chosen', With("running"))
       \/ With("running") = {} /\ Newest(chosen', With("queued"))
    /\ UNCHANGED <<rows, pc, holds, leaving, dropped>>

Cancelled == [r \in Runs |-> IF r = chosen /\ r \in Rows THEN "cancelled" ELSE status[r]]

StopThread ==   \* slip: the thread is idle whatever is queued
    /\ chosen # 0 /\ chosen' = 0
    /\ status' = Cancelled
    /\ ThreadShows("idle")
    /\ UNCHANGED <<exists, asked, answered, session, pc, holds, admitted, leaving, dropped>>

\* ... and writes it whatever has become of it.
Stop ==
    /\ chosen # 0 /\ chosen' = 0
    /\ status' = Cancelled
    /\ ThreadShows(IF ActiveRuns \ {chosen} = {} THEN "idle" ELSE "running")
    /\ UNCHANGED <<exists, asked, answered, session, pc, holds, admitted, leaving, dropped>>

\* delete_conversation looks at the newest run only ...
DeleteCheck ==
    /\ exists /\ ~leaving
    /\ \A r \in Runs : Newest(r, Rows) => status[r] \notin Active
    /\ leaving' = TRUE
    /\ UNCHANGED <<rows, pc, holds, admitted, chosen, dropped>>

\* ... and removes every row of the conversation.
Delete ==
    /\ leaving /\ leaving' = FALSE
    /\ exists' = FALSE /\ thread' = "idle"
    /\ status' = [r \in Runs |-> "none"]
    /\ answered' = {} /\ session' = 0
    /\ UNCHANGED <<asked, pc, holds, admitted, chosen, dropped>>

\* The process dies and starts again; startup marks what was queued or
\* running.
Restart ==
    /\ status' = [r \in Runs |-> IF status[r] \in Active THEN "interrupted" ELSE status[r]]
    /\ ThreadShows(IF ActiveRuns = {} THEN thread ELSE "idle")
    /\ pc' = [j \in Runs |-> "none"]
    /\ holds' = [j \in Runs |-> 0]
    /\ admitted' = 0 /\ chosen' = 0 /\ leaving' = FALSE
    /\ UNCHANGED <<exists, asked, answered, session, dropped>>

--------------------------------------------------------------------------------
Work(j) ==
    \/ Kick(j) \/ Claim(j) \/ ClaimNothing(j) \/ Enter(j) \/ Notice(j) \/ Seal(j)
    \/ SaveSession(j) \/ Complete(j) \/ Fail(j) \/ TooLate(j) \/ Finally(j)

Next ==
    \/ \E r \in Runs : Post(r) \/ Retry(r)
    \/ \E j \in Runs : Work(j) \/ ForgetSession(j) \/ JobRaises(j)
    \/ Admit \/ Refuse \/ Choose \/ Stop \/ DeleteCheck \/ Delete \/ Restart

\* Jobs run: a provider answers, fails or times out, and the store answers.
\* A stop request that was accepted is carried out; nobody has to make one.
Fairness ==
    /\ \A j \in Runs : WF_vars(Work(j))
    /\ WF_vars(Stop)

Spec == Init /\ [][Next]_vars /\ Fairness

--------------------------------------------------------------------------------
TypeOK ==
    /\ exists \in BOOLEAN /\ leaving \in BOOLEAN
    /\ asked \in 0..MaxRuns /\ admitted \in 0..MaxRuns
    /\ thread \in {"idle", "running", "error"}
    /\ status \in [Runs -> {"none"} \cup Active \cup Ended]
    /\ answered \in SUBSET Runs
    /\ session \in 0..MaxRuns
    /\ pc \in [Runs -> {"none", "posted", "kicked", "claimed", "working", "sealed",
                        "saved", "finally"}]
    /\ holds \in [Runs -> 0..MaxRuns]
    /\ chosen \in 0..MaxRuns /\ dropped \in BOOLEAN

(***************************************************************************)
(* The status shown for a thread and its rows agree: a run is executing    *)
(* only in a thread shown as running, and such a thread has a run to wait  *)
(* for, whatever stops, failures and restarts came in between.  A post that *)
(* found the conversation before it was deleted makes a run without one.   *)
(***************************************************************************)
ThreadStatusIsTrue ==
    exists =>
        /\ With("running") # {} => thread = "running"
        /\ thread = "running" => ActiveRuns # {}

(***************************************************************************)
(* In a conversation that exists nothing waits for nobody: while the store *)
(* answers, a running run is in the hands of exactly one job, and a queue  *)
(* has a job that will come back to it: a kick that finds a run executing  *)
(* ends, and relies on that run.  A run made after its conversation was    *)
(* deleted is claimed and left running until the next restart.             *)
(***************************************************************************)
InHand(j) == pc[j] \in {"claimed", "working", "sealed", "saved"}
TurnsHaveADriver ==
    exists /\ ~dropped =>
        /\ \A r \in With("running") : \E j \in Runs :
              {k \in Runs : InHand(k) /\ holds[k] = r} = {j}
        /\ With("queued") # {} => \E j \in Runs : pc[j] # "none"

(***************************************************************************)
(* The Agent's session moves to newer turns; an older turn takes it back   *)
(* only if the user stopped that turn (its job had looked just before).    *)
(***************************************************************************)
SessionFollowsTheTurns ==
    [][ exists /\ session' \in Runs /\ session' < session => status[session'] = "cancelled" ]_vars

\* The store and its jobs serve turns one at a time and in order.
TurnOf(s) == CASE s = "none" -> "absent" [] s = "queued" -> "waiting"
               [] s = "running" -> "serving" [] OTHER -> "ended"
Abstract == INSTANCE ConversationTurns WITH
    Turns <- Runs, turn <- [r \in Runs |-> TurnOf(status[r])]
TurnsSpec == Abstract!Spec

(***************************************************************************)
(* A queued run does not wait for ever, unless a call of the store raised  *)
(* where the job has no handler or the conversation is deleted.            *)
(***************************************************************************)
QueuedIsServed ==
    \A r \in Runs : status[r] = "queued" ~> status[r] # "queued" \/ dropped \/ ~exists

================================================================================
