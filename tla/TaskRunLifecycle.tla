---------------------------- MODULE TaskRunLifecycle ----------------------------
(***************************************************************************)
(* The life of one V3 task run with a human approval, as the endpoints of  *)
(* api/agent_workbench.py, its background executions, the worker threads   *)
(* they start, the expiry monitor and startup recovery write its public    *)
(* status (workbench_task_run_events.py).                                  *)
(*                                                                         *)
(* Handlers and coroutines share one event loop: each is one step up to    *)
(* its next await, and "loop" holds those whose writes are two, between    *)
(* which a worker thread may write, or the process may die.  The lease,    *)
(* the approval and the workflow thread are reduced to what ExecutionLease *)
(* (ExclusiveExecution, with heartbeats on time), HumanApproval            *)
(* (ApprovalOutcome) and WorkflowRunner (a final execution status) give.   *)
(***************************************************************************)
EXTENDS Naturals

CONSTANTS
    Backgrounds,   \* places for background executions; bounds those alive at a time
    Nobody,        \* the lease is free
    Dead,          \* the lease is held by nobody who is alive
    CanRerun,      \* the run has a plan that can be rerun
    MayCrash       \* the process may die

ASSUME LifecycleAssumption ==
    /\ Nobody \notin Backgrounds /\ Dead \notin Backgrounds /\ Nobody # Dead
    /\ CanRerun \in BOOLEAN /\ MayCrash \in BOOLEAN

VARIABLES
    status,    \* the public status of the task run
    report,    \* execution_status in workflow_execution.json
    approval,  \* the outcome of the approval node
    due,       \* its deadline has passed
    lease,     \* who holds the execution lease
    stage,     \* where each background execution is
    verdict,   \* the result its worker thread returns
    active,    \* the task run is in _ACTIVE_TASK_RUN_IDS
    loop,      \* the handler the event loop is in between two of its writes
    monitor,   \* the expiry monitor of the approval is scheduled
    reruns,    \* the executions that a rerun request runs, without the lease
    overlapped,  \* history: an execution took the lease beside a rerun
    dropped,     \* history: since an execution was last created, a store raised
                 \* where nothing catches it and the status stays as it is
    up         \* the backend process is up

vars == <<status, report, approval, due, lease, stage, verdict, active, loop,
          monitor, reruns, overlapped, dropped, up>>
work == <<lease, stage, verdict, active, reruns, overlapped>>
wait == <<approval, due, monitor>>
rerun == <<reruns, overlapped>>
host == <<up, dropped>>

Verdicts == {"completed", "failed", "cancelled", "timed_out", "waiting"}
Terminal == {"completed", "failed", "error", "cancelled", "timed_out"}
Stages == {"none", "created", "contending", "preflight", "working", "asked",
           "reported", "marked"}
Owning == {"preflight", "working", "asked", "reported", "marked"}

Alive == \E b \in Backgrounds : stage[b] # "none"
Idle == up /\ loop = "none"   \* the event loop may run its next step

Init ==
    /\ status = "prepared" /\ report = "none"
    /\ approval = "none" /\ due = FALSE
    /\ lease = Nobody
    /\ stage = [b \in Backgrounds |-> "none"]
    /\ verdict = [b \in Backgrounds |-> "none"]
    /\ active = FALSE /\ loop = "none" /\ monitor = FALSE
    /\ reruns = {} /\ overlapped = FALSE /\ dropped = FALSE
    /\ up = TRUE

\* The status that mark_v3_outcomes shows for an execution status.
Public(x) == IF x = "timed_out" THEN "failed" ELSE x

\* asyncio.create_task(_execute_task_run_background(...))
Create(b) ==
    /\ stage[b] = "none" /\ stage' = [stage EXCEPT ![b] = "created"]
    /\ dropped' = FALSE

--------------------------------------------------------------------------------
\* POST execute, when it is not refused (still active) or answered (in progress).
Execute(b) ==
    /\ Idle /\ ~active /\ status \notin {"queued", "running"}
    /\ status' = "queued"
    /\ Create(b)
    /\ UNCHANGED <<report, lease, verdict, active, rerun, wait, loop, up>>

\* Execute and rerun write "queued" and then append an event: if that raises,
\* nothing is started, and requests to execute are answered from then on.
QueueOnly ==
    /\ Idle /\ ~active /\ status \notin {"queued", "running"}
    /\ status' = "queued" /\ dropped' = TRUE
    /\ UNCHANGED <<report, work, wait, loop, up>>

\* POST rerun-plan/execute: the handler marks the run active and running and awaits
\* the worker thread itself, with no preflight and without the lease.
RerunUnseen(b) ==   \* slip: the active mark is not consulted
    /\ CanRerun /\ Idle /\ status \notin {"queued", "running"}
    /\ stage[b] = "none"
    /\ status' = "running" /\ active' = TRUE
    /\ stage' = [stage EXCEPT ![b] = "working"]
    /\ reruns' = reruns \cup {b} /\ dropped' = FALSE
    /\ UNCHANGED <<report, lease, verdict, overlapped, wait, loop, up>>

Rerun(b) ==
    /\ CanRerun /\ Idle /\ ~active /\ status \notin {"queued", "running"}
    /\ stage[b] = "none"
    /\ status' = "running" /\ active' = TRUE
    /\ stage' = [stage EXCEPT ![b] = "working"]
    /\ reruns' = reruns \cup {b} /\ dropped' = FALSE
    /\ UNCHANGED <<report, lease, verdict, overlapped, wait, loop, up>>

\* The lease is taken, or the status says that nothing is left to execute.
BeginWithoutLease(b) ==   \* slip: a held lease does not stop it
    /\ Idle /\ stage[b] \in {"created", "contending"}
    /\ IF status \in Terminal \cup {"waiting"}
       THEN /\ stage' = [stage EXCEPT ![b] = "none"]
            /\ UNCHANGED <<lease, active, overlapped>>
       ELSE /\ lease' = b /\ active' = TRUE
            /\ stage' = [stage EXCEPT ![b] = "preflight"]
            /\ overlapped' = (overlapped \/ reruns # {})
    /\ UNCHANGED <<status, report, verdict, reruns, wait, loop, host>>

Begin(b) ==
    /\ Idle /\ stage[b] \in {"created", "contending"}
    /\ IF status \in Terminal \cup {"waiting"}
       THEN /\ stage' = [stage EXCEPT ![b] = "none"]
            /\ UNCHANGED <<lease, active, overlapped>>
       ELSE /\ lease = Nobody
            /\ lease' = b /\ active' = TRUE
            /\ stage' = [stage EXCEPT ![b] = "preflight"]
            /\ overlapped' = (overlapped \/ reruns # {})
    /\ UNCHANGED <<status, report, verdict, reruns, wait, loop, host>>

\* Before its try: reading the run, or the lease, raises, perhaps when the record
\* of the lease is already in place.  Nobody hears of it.
BeginRaises(b) ==
    /\ Idle /\ stage[b] \in {"created", "contending"}
    /\ stage' = [stage EXCEPT ![b] = "none"]
    /\ lease' = lease \/ (lease = Nobody /\ lease' = Dead)
    /\ dropped' = TRUE
    /\ UNCHANGED <<status, report, verdict, active, rerun, wait, loop, up>>

\* Somebody else holds the lease: sleep and look again.
Contend(b) ==
    /\ Idle /\ stage[b] = "created"
    /\ status \notin Terminal \cup {"waiting"} /\ lease # Nobody
    /\ stage' = [stage EXCEPT ![b] = "contending"]
    /\ UNCHANGED <<status, report, lease, verdict, active, rerun, wait, loop, host>>

EndKeepingLease(b) ==   \* slip: the lease is not released
    /\ stage' = [stage EXCEPT ![b] = "none"]
    /\ verdict' = [verdict EXCEPT ![b] = "none"]
    /\ active' = FALSE /\ reruns' = reruns \ {b}
    /\ UNCHANGED <<lease, overlapped>>

\* The finally clause; that of a rerun has no lease to release.  If the release
\* raises, the lease has to run out and the mark stays.
End(b) ==
    /\ stage' = [stage EXCEPT ![b] = "none"]
    /\ verdict' = [verdict EXCEPT ![b] = "none"]
    /\ reruns' = reruns \ {b}
    /\ \/ active' = FALSE /\ lease' = IF lease = b THEN Nobody ELSE lease
       \/ b \notin reruns /\ UNCHANGED active /\ lease' = IF lease = b THEN Dead ELSE lease
    /\ UNCHANGED overlapped

\* The preflight of the agents is awaited; then the worker thread starts,
\* unless the task run was cancelled.
Preflight(b) ==
    /\ Idle /\ stage[b] = "preflight"
    /\ IF status = "cancelled"
       THEN End(b) /\ UNCHANGED status
       ELSE /\ status' = "running"
            /\ stage' = [stage EXCEPT ![b] = "working"]
            /\ UNCHANGED <<lease, verdict, active, rerun>>
    /\ UNCHANGED <<report, wait, loop, host>>

\* A blocked preflight spares a cancelled status, and its outcomes replace it.
PreflightBlocked(b) ==
    /\ Idle /\ stage[b] = "preflight"
    /\ status' = "failed"
    /\ End(b)
    /\ UNCHANGED <<report, wait, loop, host>>

--------------------------------------------------------------------------------
\* The worker thread, which does not hold the event loop.
Conclude(b, v) ==
    /\ report' = v
    /\ verdict' = [verdict EXCEPT ![b] = v]
    /\ stage' = [stage EXCEPT ![b] = "reported"]
    /\ UNCHANGED <<status, lease, active, rerun, wait, loop, host>>

\* It reaches the approval node and enters the wait if it is the first to.
Ask(b) ==
    /\ up /\ stage[b] = "working"
    /\ approval \in {"none", "pending", "cancelled"} /\ ~due
    /\ approval' = IF approval = "none" THEN "pending" ELSE approval
    /\ stage' = [stage EXCEPT ![b] = "asked"]
    /\ UNCHANGED <<status, report, lease, verdict, active, rerun, due, monitor, loop, host>>

ReportWaiting(b) ==
    /\ up /\ stage[b] = "asked"
    /\ Conclude(b, "waiting")

\* It writes workflow_execution.json: a node failed or the approval was rejected,
\* a deadline has passed, the run was cancelled when it looked, or all went well.
CompleteRegardless(b) ==   \* slip: any resolution of the approval completes it
    /\ up /\ stage[b] = "working"
    /\ \/ \E v \in {"failed", "timed_out"} : Conclude(b, v)
       \/ status = "cancelled" /\ Conclude(b, "cancelled")
       \/ approval \in {"approved", "rejected", "expired"} /\ Conclude(b, "completed")

Report(b) ==
    /\ up /\ stage[b] = "working"
    /\ \/ \E v \in {"failed", "timed_out"} : Conclude(b, v)
       \/ status = "cancelled" /\ Conclude(b, "cancelled")
       \/ approval = "approved" /\ Conclude(b, "completed")

\* mark_v3_outcomes at the end of the closure, whatever the status is now.
Mark(b) ==
    /\ up /\ stage[b] = "reported"
    /\ status' = Public(verdict[b])
    /\ stage' = [stage EXCEPT ![b] = "marked"]
    /\ UNCHANGED <<report, lease, verdict, active, rerun, wait, loop, host>>

--------------------------------------------------------------------------------
\* Back in the event loop: the status again, unless cancelled; a run that waits
\* has its expiry monitor scheduled.
Return(b) ==
    /\ Idle /\ stage[b] = "marked" /\ b \notin reruns
    /\ status' = IF status = "cancelled" THEN status ELSE verdict[b]
    /\ monitor' = (\/ monitor
                   \/ status # "cancelled" /\ verdict[b] = "waiting" /\ approval = "pending")
    /\ End(b)
    /\ UNCHANGED <<report, approval, due, loop, host>>

\* The handler of a rerun writes the runner's "status", which knows fewer outcomes,
\* and schedules no monitor.
Legacy(v) == IF v \in {"failed", "timed_out"} THEN "error" ELSE v

ReturnRerun(b) ==
    /\ Idle /\ stage[b] = "marked" /\ b \in reruns
    /\ status' = IF status = "cancelled" THEN status ELSE Legacy(verdict[b])
    /\ End(b)
    /\ UNCHANGED <<report, wait, loop, host>>

\* The worker thread, or one of the writes around it, raised.
Raise(b) ==
    /\ Idle /\ stage[b] \in Owning
    /\ status' = IF status = "cancelled" THEN status ELSE "failed"
    /\ End(b)
    /\ UNCHANGED <<report, wait, loop, host>>

\* Writing "failed" raises too.
GiveUp(b) ==
    /\ Idle /\ stage[b] \in Owning
    /\ End(b)
    /\ dropped' = TRUE
    /\ UNCHANGED <<status, report, wait, loop, up>>

\* POST decision: the approval store records it ...
Decide(answer) ==
    /\ Idle
    /\ \/ approval = "pending" /\ status = "waiting" /\ ~due /\ approval' = answer
       \/ approval = answer /\ UNCHANGED approval
    /\ \E b \in Backgrounds : stage[b] = "none"
    /\ monitor' = FALSE
    /\ loop' = "deciding"
    /\ UNCHANGED <<status, report, due, work, host>>

\* ... and the task run is queued again, if it still waits.
Resume(b) ==
    /\ up /\ loop = "deciding"
    /\ loop' = "none"
    /\ IF status = "waiting"
       THEN status' = "queued" /\ Create(b)
       ELSE UNCHANGED <<status, stage, dropped>>
    /\ UNCHANGED <<report, lease, verdict, active, rerun, wait, up>>

\* A store raises between two writes of a handler; that of a decision may have
\* queued the task run by then.
HandlerRaises ==
    /\ up /\ loop # "none" /\ loop' = "none"
    /\ \/ UNCHANGED status
       \/ loop = "deciding" /\ status = "waiting" /\ status' = "queued"
    /\ dropped' = (dropped \/ loop = "deciding")
    /\ UNCHANGED <<report, wait, work, up>>

\* POST cancel of a run that was queued or running when the handler looked ...
Cancel ==
    /\ Idle /\ status \in {"queued", "running"}
    /\ loop' = "cancelling"
    /\ UNCHANGED <<status, report, work, wait, host>>

\* ... or waiting: the approval store arbitrates: cancelled now or before, or
\* nothing to cancel.
CancelWait ==
    /\ Idle /\ status = "waiting"
    /\ approval \in {"none", "cancelled"} \/ (approval = "pending" /\ ~due)
    /\ approval' = IF approval = "pending" THEN "cancelled" ELSE approval
    /\ loop' = "cancelling"
    /\ UNCHANGED <<status, report, due, monitor, work, host>>

\* The status is guarded ...
MarkCancelled ==
    /\ up /\ loop = "cancelling"
    /\ loop' = "clearing"
    /\ status' = IF status \in Terminal \ {"error"} THEN status ELSE "cancelled"
    /\ monitor' = FALSE
    /\ UNCHANGED <<report, approval, due, work, host>>

\* ... and the outcomes are not.
FinishCancel ==
    /\ up /\ loop = "clearing"
    /\ loop' = "none"
    /\ status' = "cancelled"
    /\ UNCHANGED <<report, wait, work, host>>

\* The monitor, or a decision or cancellation that came too late, claims the
\* expiry ...
Expire ==
    /\ Idle /\ approval \in {"pending", "expired"} /\ due
    /\ monitor \/ status = "waiting"
    /\ approval' = "expired" /\ monitor' = FALSE
    /\ loop' = "expiring"
    /\ UNCHANGED <<status, report, due, work, host>>

\* ... and ends the run, if it waits.
FinishExpire ==
    /\ up /\ loop = "expiring"
    /\ loop' = "none"
    /\ status' = IF status = "waiting" THEN Public("timed_out") ELSE status
    /\ UNCHANGED <<report, wait, work, host>>

\* GET: _reconcile_persisted_task_run_outcomes shows what the last execution that
\* ended has reported.
Read ==
    /\ Idle /\ report # "none"
    /\ status' = Public(report)
    /\ UNCHANGED <<report, wait, work, loop, host>>

--------------------------------------------------------------------------------
DeadlinePasses ==
    /\ approval = "pending" /\ ~due
    /\ due' = TRUE
    /\ UNCHANGED <<status, report, approval, monitor, work, loop, host>>

\* The heartbeats of a dead process stop, and its lease runs out.
LeaseRunsOut ==
    /\ lease = Dead
    /\ lease' = Nobody
    /\ UNCHANGED <<status, report, stage, verdict, active, rerun, wait, loop, host>>

Crash ==
    /\ MayCrash /\ up /\ up' = FALSE
    /\ lease' = IF lease = Nobody THEN Nobody ELSE Dead
    /\ stage' = [b \in Backgrounds |-> "none"]
    /\ verdict' = [b \in Backgrounds |-> "none"]
    /\ active' = FALSE /\ loop' = "none" /\ monitor' = FALSE
    /\ reruns' = {} /\ dropped' = FALSE
    /\ UNCHANGED <<status, report, approval, due, overlapped>>

\* reconcile_v3_startup_recovery: what becomes of a run that was in progress.
RecoverCancelled ==
    /\ approval = "cancelled"
    /\ status' = IF status = "waiting" THEN "cancelled" ELSE status
    /\ UNCHANGED <<approval, monitor, stage, active, dropped>>

RecoverExpired ==
    /\ approval = "expired" \/ (approval = "pending" /\ due)
    /\ approval' = "expired"
    /\ status' = IF status = "waiting" THEN Public("timed_out") ELSE status
    /\ UNCHANGED <<monitor, stage, active, dropped>>

RecoverWaiting ==
    /\ approval = "pending" /\ ~due
    /\ status' = "waiting" /\ monitor' = TRUE
    /\ UNCHANGED <<approval, stage, active, dropped>>

ScheduleUnstarted(b) ==   \* slip: the run is queued, its background forgotten
    /\ approval \in {"none", "approved", "rejected"}
    /\ status' = IF status = "waiting" THEN status ELSE "queued"
    /\ UNCHANGED <<approval, monitor, stage, active, dropped>>

\* "resume", which schedule_recovered_v3_task_run refuses a run that waits.
Schedule(b) ==
    /\ approval \in {"none", "approved", "rejected"}
    /\ IF status = "waiting"
       THEN UNCHANGED <<status, stage, active, dropped>>
       ELSE status' = "queued" /\ active' = TRUE /\ Create(b)
    /\ UNCHANGED <<approval, monitor>>

Recover ==
    /\ ~up /\ up' = TRUE
    /\ \/ /\ status \in {"queued", "running", "waiting"}
          /\ \/ RecoverCancelled \/ RecoverExpired \/ RecoverWaiting
             \/ \E b \in Backgrounds : Schedule(b)
       \/ /\ status \notin {"queued", "running", "waiting"}
          /\ UNCHANGED <<status, approval, monitor, stage, active, dropped>>
    /\ UNCHANGED <<report, due, lease, verdict, rerun, loop>>

\* Scheduling raises when the run is queued: the backend does not start.
RecoveryRaises ==
    /\ ~up /\ status \in {"queued", "running"}
    /\ approval \in {"none", "approved", "rejected"}
    /\ status' = "queued"
    /\ UNCHANGED <<report, work, wait, loop, host>>

Next ==
    \/ \E b \in Backgrounds :
         \/ Execute(b) \/ Rerun(b) \/ Begin(b) \/ Contend(b) \/ Preflight(b)
         \/ PreflightBlocked(b) \/ Ask(b) \/ ReportWaiting(b) \/ Report(b) \/ Mark(b)
         \/ Return(b) \/ ReturnRerun(b) \/ Raise(b) \/ Resume(b)
         \/ BeginRaises(b) \/ GiveUp(b)
    \/ \E answer \in {"approved", "rejected"} : Decide(answer)
    \/ Cancel \/ CancelWait \/ MarkCancelled \/ FinishCancel
    \/ Expire \/ FinishExpire \/ Read \/ QueueOnly \/ HandlerRaises
    \/ DeadlinePasses \/ LeaseRunsOut \/ Crash \/ Recover \/ RecoveryRaises

Spec == Init /\ [][Next]_vars

\* The event loop runs its handlers and coroutines on, worker threads end, a
\* dead lease runs out and a dead backend is restarted.  No store has to raise.
Fairness ==
    /\ \A b \in Backgrounds :
         /\ WF_vars(Resume(b))
         /\ SF_vars(Begin(b))
         /\ WF_vars(Ask(b) \/ ReportWaiting(b) \/ Report(b) \/ Mark(b))
         /\ SF_vars(Preflight(b) \/ PreflightBlocked(b) \/ Return(b)
                   \/ ReturnRerun(b) \/ Raise(b))
    /\ WF_vars(MarkCancelled) /\ WF_vars(FinishCancel) /\ WF_vars(FinishExpire)
    /\ WF_vars(LeaseRunsOut) /\ WF_vars(Recover)

FairSpec == Spec /\ Fairness

--------------------------------------------------------------------------------
TypeOK ==
    /\ status \in Verdicts \cup {"prepared", "queued", "running", "error"}
    /\ report \in Verdicts \cup {"none"}
    /\ approval \in {"none", "pending", "approved", "rejected", "expired", "cancelled"}
    /\ lease \in Backgrounds \cup {Nobody, Dead}
    /\ stage \in [Backgrounds -> Stages]
    /\ verdict \in [Backgrounds -> Verdicts \cup {"none"}]
    /\ loop \in {"none", "deciding", "cancelling", "clearing", "expiring"}
    /\ due \in BOOLEAN /\ active \in BOOLEAN /\ monitor \in BOOLEAN /\ up \in BOOLEAN
    /\ reruns \subseteq Backgrounds /\ overlapped \in BOOLEAN /\ dropped \in BOOLEAN

(***************************************************************************)
(* Requests, reruns, resumed decisions and recovery create executions that *)
(* overlap, but one at a time is at work on the run (ExclusiveExecution),  *)
(* until one finds the lease free while a rerun, which holds none, is at   *)
(* work: from then on only the executions with the lease exclude each      *)
(* other (OneOwner).                                                       *)
(***************************************************************************)
AtWork == {b \in Backgrounds : stage[b] \in Owning}
Owner == AtWork \ reruns

executor == IF AtWork = {} \/ overlapped THEN Nobody ELSE CHOOSE b \in AtWork : TRUE

Exclusive == INSTANCE ExclusiveExecution WITH Executors <- Backgrounds, NoOwner <- Nobody

OneExecution == Exclusive!Spec
OneOwner == \A b, c \in Owner : b = c

(***************************************************************************)
(* While a worker thread may still be at work, a request to execute the    *)
(* run again, or to rerun it, is refused: the executions that share        *)
(* _ACTIVE_TASK_RUN_IDS do not clear each other's mark, until an execution *)
(* has begun beside a rerun.                                               *)
(***************************************************************************)
WorkIsMarked == AtWork # {} => active \/ overlapped

(***************************************************************************)
(* A run shown as queued or running has somebody who executes it, through  *)
(* overlapping requests, crashes and recovery.  Two exceptions: recovery   *)
(* over an approval that expired or was cancelled, whose guarded write     *)
(* spares a queued or running status while nobody executes the run; and a  *)
(* store that raised after the run was queued and before an execution was  *)
(* created for it, in an execution before its try, or in one that was      *)
(* about to write that it failed.  The latter lasts until the next         *)
(* execution or restart.                                                   *)
(***************************************************************************)
Stranded == Idle /\ status \in {"queued", "running"} /\ ~Alive
Excused == approval \in {"expired", "cancelled"} \/ dropped

StrandedOnlyIfExcused == Stranded => Excused

(***************************************************************************)
(* A run is not shown as completed unless its approval was approved,       *)
(* whatever expired, was cancelled, restarted or read in between.          *)
(***************************************************************************)
CompletedMeansApproved == status = "completed" => approval = "approved"

\* A queued run is taken up, or stops being queued, unless it was stranded: its
\* approval is resolved, or a store raised where nothing catches it.
QueuedIsServed == status = "queued" ~> (status # "queued" \/ Excused)

(***************************************************************************)
(* A cancelled run stays cancelled until it is executed or rerun           *)
(* (mark_status_unless: "Atomically avoid replacing an authoritative       *)
(* terminal status").                                                      *)
(***************************************************************************)
CancelledStaysCancelled ==
    [][status = "cancelled" => \/ status' \in {"cancelled", "queued"}
                               \/ \E b \in Backgrounds : Rerun(b)]_vars

(***************************************************************************)
(* A decided approval leaves nobody waiting for input: the decision        *)
(* endpoint is to "commit one approval decision and resume the frozen      *)
(* task-run lifecycle" (a store that raised is no part of this).           *)
(***************************************************************************)
DecisionResumes ==
    Idle /\ ~dropped /\ approval \in {"approved", "rejected"} /\ status = "waiting" => Alive

================================================================================
