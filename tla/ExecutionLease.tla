---------------------------- MODULE ExecutionLease ----------------------------
(***************************************************************************)
(* The Attempt-local execution lease (workflow_execution_lease.py) as the  *)
(* background executors of api/agent_workbench.py use it: contend for the  *)
(* lease file, renew it from a heartbeat task while the workflow thread    *)
(* executes nodes, notice that it was lost, release it, or crash and leave *)
(* it behind.                                                              *)
(*                                                                         *)
(* Time is counted in ticks and only differences of instants matter, so    *)
(* the model keeps the time a record has left instead of expires_at, and   *)
(* the time an executor's heartbeat has slept instead of heartbeat_at.     *)
(* owner_token is random and fresh for each acquisition; an executor holds *)
(* only the token of its last acquisition, so "the tokens match" is "the   *)
(* record was written by this executor since it last acquired".            *)
(***************************************************************************)
EXTENDS Integers

CONSTANTS
    Executors,        \* the background executions of one Attempt, in any process
    NoOwner,          \* the lease file does not exist
    TTL,              \* _EXECUTION_LEASE_TTL
    HeartbeatEvery,   \* _EXECUTION_LEASE_HEARTBEAT_SECONDS
    MaxDelay          \* how late the event loop may run a due heartbeat

ASSUME LeaseAssumption ==
    /\ NoOwner \notin Executors
    /\ TTL \in Nat \ {0}
    /\ HeartbeatEvery \in Nat \ {0}
    /\ MaxDelay \in Nat

VARIABLES
    record,   \* workflow_execution_lease.json: its owner and the time it has left
    phase,    \* where each background execution is
    heart,    \* its heartbeat task and the lease_lost event
    slept,    \* how long its heartbeat has slept since it last renewed
    late      \* a heartbeat has not come within the TTL, or died (history)

vars == <<record, phase, heart, slept, late>>

Phases == {"idle", "contending", "between", "inNode"}
Hearts == {"off", "beating", "lost", "dead"}
Latest == HeartbeatEvery + MaxDelay

\* The workflow thread of e is at work: between two nodes or inside one.
Executing(e) == phase[e] \in {"between", "inNode"}

\* Slips of the lease store, for the mutant runs: acquire that forgets the
\* expiry, or the owner.
UnclaimedWhenReleased == record.owner = NoOwner
UnclaimedAlways == TRUE

\* acquire: current_time < existing.expires_at refuses.
Unclaimed == record.owner = NoOwner \/ record.left = 0

Init ==
    /\ record = [owner |-> NoOwner, left |-> 0]
    /\ phase = [e \in Executors |-> "idle"]
    /\ heart = [e \in Executors |-> "off"]
    /\ slept = [e \in Executors |-> 0]
    /\ late = FALSE

\* A first attempt that found an unexpired record; it sleeps and polls.
Contend(e) ==
    /\ phase[e] = "idle"
    /\ ~Unclaimed
    /\ phase' = [phase EXCEPT ![e] = "contending"]
    /\ UNCHANGED <<record, heart, slept, late>>

\* While it waited, the Attempt became terminal or began to wait for input.
Abandon(e) ==
    /\ phase[e] = "contending"
    /\ phase' = [phase EXCEPT ![e] = "idle"]
    /\ UNCHANGED <<record, heart, slept, late>>

\* At the first attempt or at a poll.
Acquire(e) ==
    /\ phase[e] \in {"idle", "contending"}
    /\ Unclaimed
    /\ record' = [owner |-> e, left |-> TTL]
    /\ phase' = [phase EXCEPT ![e] = "between"]
    /\ heart' = [heart EXCEPT ![e] = "beating"]
    /\ slept' = [slept EXCEPT ![e] = 0]
    /\ UNCHANGED late

HeartbeatDue(e) == heart[e] = "beating" /\ slept[e] >= HeartbeatEvery

RenewWithoutExtending(e) ==   \* slip: expires_at is left as it was
    /\ HeartbeatDue(e)
    /\ record.owner = e /\ record.left > 0
    /\ slept' = [slept EXCEPT ![e] = 0]
    /\ UNCHANGED <<record, phase, heart, late>>

Renew(e) ==
    /\ HeartbeatDue(e)
    /\ record.owner = e /\ record.left > 0
    /\ record' = [record EXCEPT !.left = TTL]
    /\ slept' = [slept EXCEPT ![e] = 0]
    /\ UNCHANGED <<phase, heart, late>>

\* ExecutionLeaseLost: another owner, no record, or the record has expired.
NoticeLoss(e) ==
    /\ HeartbeatDue(e)
    /\ record.owner # e \/ record.left = 0
    /\ heart' = [heart EXCEPT ![e] = "lost"]
    /\ UNCHANGED <<record, phase, slept, late>>

\* An OSError of the lock or of the atomic write ends the heartbeat task: it
\* catches lease errors only, so lease_lost stays clear.
HeartbeatDies(e) ==
    /\ HeartbeatDue(e)
    /\ heart' = [heart EXCEPT ![e] = "dead"]
    /\ late' = TRUE
    /\ UNCHANGED <<record, phase, slept>>

StartNodeUnasked(e) ==   \* slip: is_cancelled ignores lease_lost
    /\ phase[e] = "between"
    /\ phase' = [phase EXCEPT ![e] = "inNode"]
    /\ UNCHANGED <<record, heart, slept, late>>

\* The runner consults is_cancelled, hence lease_lost, before each node only.
StartNode(e) ==
    /\ phase[e] = "between" /\ heart[e] # "lost"
    /\ phase' = [phase EXCEPT ![e] = "inNode"]
    /\ UNCHANGED <<record, heart, slept, late>>

CommitNode(e) ==
    /\ phase[e] = "inNode"
    /\ phase' = [phase EXCEPT ![e] = "between"]
    /\ UNCHANGED <<record, heart, slept, late>>

FinishReleasingAny(e) ==   \* slip: release forgets to compare the token
    /\ phase[e] = "between"
    /\ phase' = [phase EXCEPT ![e] = "idle"]
    /\ heart' = [heart EXCEPT ![e] = "off"]
    /\ slept' = [slept EXCEPT ![e] = 0]
    /\ record' = [owner |-> NoOwner, left |-> 0]
    /\ UNCHANGED late

\* The finally clause: release unlinks the record when the token still matches,
\* but awaiting a heartbeat task that died raises before release is reached.
Finish(e) ==
    /\ phase[e] = "between"
    /\ phase' = [phase EXCEPT ![e] = "idle"]
    /\ heart' = [heart EXCEPT ![e] = "off"]
    /\ slept' = [slept EXCEPT ![e] = 0]
    /\ record' = IF record.owner = e /\ heart[e] # "dead"
                 THEN [owner |-> NoOwner, left |-> 0] ELSE record
    /\ UNCHANGED late

\* The process dies: the record outlives it.
Crash(e) ==
    /\ phase[e] # "idle"
    /\ phase' = [phase EXCEPT ![e] = "idle"]
    /\ heart' = [heart EXCEPT ![e] = "off"]
    /\ slept' = [slept EXCEPT ![e] = 0]
    /\ UNCHANGED <<record, late>>

\* A tick passes; no live heartbeat is kept waiting longer than MaxDelay.
Tick ==
    /\ \A e \in Executors : heart[e] = "beating" => slept[e] < Latest
    /\ record' = [record EXCEPT !.left = IF @ > 0 THEN @ - 1 ELSE 0]
    /\ slept' = [e \in Executors |->
                    IF heart[e] = "beating" THEN slept[e] + 1 ELSE slept[e]]
    /\ late' = (late \/ \E e \in Executors : heart[e] = "beating" /\ slept'[e] >= TTL)
    /\ UNCHANGED <<phase, heart>>

Step(e) ==
    \/ Contend(e) \/ Abandon(e) \/ Acquire(e)
    \/ Renew(e) \/ NoticeLoss(e) \/ HeartbeatDies(e)
    \/ StartNode(e) \/ CommitNode(e) \/ Finish(e) \/ Crash(e)

Next == Tick \/ \E e \in Executors : Step(e)

Spec == Init /\ [][Next]_vars

\* The event loop runs due heartbeats and polls a contended lease for ever, the
\* clock goes on, and node executors return.
Fairness ==
    /\ WF_vars(Tick)
    /\ \A e \in Executors :
         /\ WF_vars(phase[e] = "contending" /\ Acquire(e))
         /\ WF_vars(Renew(e) \/ NoticeLoss(e))
         /\ WF_vars(CommitNode(e))
         /\ WF_vars(Finish(e))

FairSpec == Spec /\ Fairness

-------------------------------------------------------------------------------
TypeOK ==
    /\ record \in [owner : Executors \cup {NoOwner}, left : 0..TTL]
    /\ phase \in [Executors -> Phases]
    /\ heart \in [Executors -> Hearts]
    /\ slept \in [Executors -> 0..Latest]
    /\ late \in BOOLEAN

(***************************************************************************)
(* At most one executor is at work on the Attempt, whatever crashes and    *)
(* restarts happened (WorkflowExecutionLeaseStore: "Serialize durable      *)
(* execution ownership"), as long as no heartbeat missed the TTL.          *)
(***************************************************************************)
SingleExecutor ==
    ~late => \A e, f \in Executors : Executing(e) /\ Executing(f) => e = f

(***************************************************************************)
(* As long as no heartbeat missed the TTL, an executor at work owns an     *)
(* unexpired record, with exactly the time left that its last renewal gave *)
(* it: the heartbeat never runs against a record it no longer owns.        *)
(***************************************************************************)
ExecutorOwnsRecord ==
    ~late => \A e \in Executors : Executing(e) =>
        /\ record.owner = e
        /\ heart[e] = "beating"
        /\ record.left = TTL - slept[e] /\ record.left > 0

(***************************************************************************)
(* However late the heartbeats are, the lease changes hands only when it   *)
(* was released or has run out: no executor that renewed within the TTL is *)
(* displaced (acquire, heartbeat and release compare expiry and token).    *)
(***************************************************************************)
NoEarlyTakeover ==
    [][\A e \in Executors :
          (record.owner = e /\ record.left > 0 /\ record'.owner # e)
             => (Executing(e) /\ ~Executing(e)' /\ record'.owner = NoOwner)]_vars

(***************************************************************************)
(* An Attempt somebody waits for is executed in the end, or nobody waits   *)
(* any longer: the record of a crashed executor delays the others by no    *)
(* more than its TTL (_acquire_task_run_execution_lease polls it).         *)
(***************************************************************************)
CrashedOwnerIsReplaced ==
    (\E e \in Executors : phase[e] = "contending")
        ~> (\/ \E e \in Executors : Executing(e)
            \/ \A e \in Executors : phase[e] # "contending")

\* An executor that noticed the loss winds up and does not stay at work.
LossEndsExecution ==
    \A e \in Executors : heart[e] = "lost" ~> ~Executing(e)

\* The lease implements exclusive execution; where a heartbeat missed the TTL
\* it promises no more, and the mapping lets the execution end.
executor == IF ~late /\ \E e \in Executors : Executing(e)
            THEN CHOOSE e \in Executors : Executing(e) ELSE NoOwner

Exclusive == INSTANCE ExclusiveExecution
ExclusiveSpec == Exclusive!Spec
===============================================================================
