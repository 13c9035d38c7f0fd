----------------------------- MODULE HumanApproval -----------------------------
(***************************************************************************)
(* The arbitration of one human approval (human_approval.py): decisions,   *)
(* the expiry of the deadline and cancellations compete under one file     *)
(* lock, with callers that took their instant before they got the lock, a  *)
(* monitor that sleeps until the deadline, and processes that die and      *)
(* recover (workflow_startup_recovery.py).                                 *)
(*                                                                         *)
(* An instant matters only as being before or after the approval deadline, *)
(* so that is all the clock and the captured instants keep.                *)
(***************************************************************************)
EXTENDS FiniteSets

CONSTANTS
    Callers,      \* requests that decide or cancel
    Decisions,    \* complete immutable decisions: value, actor, reason, time
    Absent,       \* no approval record
    NoDecision,   \* a record with decision null
    EarlyWake,    \* may the monitor's sleep end before the wall clock deadline?
    SlowRecovery  \* may the deadline pass between recovery's two readings?

ASSUME ApprovalAssumption ==
    /\ Absent \notin Decisions /\ NoDecision \notin Decisions
    /\ Absent # NoDecision
    /\ Decisions \cap {"absent", "waiting", "timed_out", "cancelled"} = {}
    /\ EarlyWake \in BOOLEAN /\ SlowRecovery \in BOOLEAN

VARIABLES
    clock,      \* "before" or "after" the approval deadline
    record,     \* the approval record: Absent, NoDecision or its decision
    receipts,   \* the receipt files: a subset of {"expiry", "cancellation"}
    request,    \* what each caller is asking for
    proposal,   \* the decision it proposes
    received,   \* its received_at (or now), relative to the deadline
    answer,     \* what it was told about it
    monitor,    \* _monitor_task_run_human_approval_expiry
    process     \* the backend process: "up", "down", or "claimed" by recovery

vars == <<clock, record, receipts, request, proposal, received, answer,
          monitor, process>>
callVars == <<request, proposal, received, answer>>

Instants == {"before", "after"}
Answers == {"none", "created", "replayed", "conflict", "expired", "cancelled",
            "refused"}

Waiting == record = NoDecision /\ receipts = {}

Init ==
    /\ clock = "before"
    /\ record = Absent
    /\ receipts = {}
    /\ request = [c \in Callers |-> "none"]
    /\ proposal \in [Callers -> Decisions]
    /\ received = [c \in Callers |-> "before"]
    /\ answer = [c \in Callers |-> "none"]
    /\ monitor = "unscheduled"
    /\ process = "up"

\* enter_waiting; the deadline is still ahead.
EnterWaiting ==
    /\ process = "up" /\ record = Absent /\ clock = "before"
    /\ record' = NoDecision
    /\ UNCHANGED <<clock, receipts, callVars, monitor, process>>

DeadlinePasses ==
    /\ record # Absent /\ clock = "before"
    /\ process = "claimed" => SlowRecovery
    /\ clock' = "after"
    /\ UNCHANGED <<record, receipts, callVars, monitor, process>>

\* A request arrives and its instant is taken; the lock is not held yet.
Receive(c, kind, d) ==
    /\ process = "up" /\ request[c] = "none" /\ record # Absent
    /\ request' = [request EXCEPT ![c] = kind]
    /\ proposal' = [proposal EXCEPT ![c] = d]
    /\ received' = [received EXCEPT ![c] = clock]
    /\ answer' = [answer EXCEPT ![c] = "none"]
    /\ UNCHANGED <<clock, record, receipts, monitor, process>>

Reply(c, a) ==
    /\ answer' = [answer EXCEPT ![c] = a]
    /\ request' = [request EXCEPT ![c] = "none"]
    /\ UNCHANGED <<proposal, received>>

ClaimEarlyExpiry(instant) ==   \* slip: the claim does not look at the clock
    IF record = NoDecision /\ "cancellation" \notin receipts
    THEN receipts \cup {"expiry"} ELSE receipts

ClaimOverCancellation(instant) ==   \* slip: a cancellation does not count
    IF record = NoDecision /\ instant = "after"
    THEN receipts \cup {"expiry"} ELSE receipts

\* _claim_expiry_locked: the receipts after a claim taken at this instant.
ClaimExpiry(instant) ==
    IF record = NoDecision /\ "cancellation" \notin receipts /\ instant = "after"
    THEN receipts \cup {"expiry"} ELSE receipts

\* The monitors of the Attempt are cancelled when a decision stands or a
\* cancellation was claimed; one that is past its sleep is not stopped.
CancelMonitor == monitor' = IF monitor = "asleep" THEN "off" ELSE monitor

DecideExpired(c) ==
    /\ request[c] = "decide"
    /\ "expiry" \in receipts
    /\ Reply(c, "expired")
    /\ UNCHANGED <<clock, record, receipts, monitor, process>>

DecideCancelled(c) ==
    /\ request[c] = "decide"
    /\ receipts = {"cancellation"}
    /\ Reply(c, "conflict")
    /\ UNCHANGED <<clock, record, receipts, monitor, process>>

DecideConflicting(c) ==
    /\ request[c] = "decide"
    /\ receipts = {} /\ record \in Decisions /\ record # proposal[c]
    /\ Reply(c, "conflict")
    /\ UNCHANGED <<clock, record, receipts, monitor, process>>

DecideAgain(c) ==
    /\ request[c] = "decide"
    /\ receipts = {} /\ record = proposal[c]
    /\ Reply(c, "replayed")
    /\ CancelMonitor
    /\ UNCHANGED <<clock, record, receipts, process>>

\* Received at or after the deadline: the request claims the expiry itself.
DecideTooLate(c) ==
    /\ request[c] = "decide"
    /\ Waiting /\ received[c] = "after"
    /\ receipts' = ClaimExpiry(received[c])
    /\ Reply(c, "expired")
    /\ UNCHANGED <<clock, record, monitor, process>>

DecideOverReceipts(c) ==   \* slip: the receipts are not looked at
    /\ request[c] = "decide"
    /\ record = NoDecision /\ received[c] = "before"
    /\ record' = proposal[c]
    /\ Reply(c, "created")
    /\ CancelMonitor
    /\ UNCHANGED <<clock, receipts, process>>

DecideAnew(c) ==   \* slip: the last decision wins
    /\ request[c] = "decide"
    /\ record # Absent /\ receipts = {} /\ received[c] = "before"
    /\ record' = proposal[c]
    /\ Reply(c, "created")
    /\ CancelMonitor
    /\ UNCHANGED <<clock, receipts, process>>

\* The first decision, received in time, even if the deadline has passed since.
DecideFirst(c) ==
    /\ request[c] = "decide"
    /\ Waiting /\ received[c] = "before"
    /\ record' = proposal[c]
    /\ Reply(c, "created")
    /\ CancelMonitor
    /\ UNCHANGED <<clock, receipts, process>>

CancelAgain(c) ==
    /\ request[c] = "cancel"
    /\ "cancellation" \in receipts
    /\ Reply(c, "cancelled")
    /\ CancelMonitor
    /\ UNCHANGED <<clock, record, receipts, process>>

CancelRefused(c) ==
    /\ request[c] = "cancel"
    /\ "cancellation" \notin receipts
    /\ record \in Decisions \/ "expiry" \in receipts
    /\ Reply(c, "refused")
    /\ UNCHANGED <<clock, record, receipts, monitor, process>>

CancelTooLate(c) ==
    /\ request[c] = "cancel"
    /\ Waiting /\ received[c] = "after"
    /\ receipts' = ClaimExpiry(received[c])
    /\ Reply(c, "refused")
    /\ UNCHANGED <<clock, record, monitor, process>>

CancelFirst(c) ==
    /\ request[c] = "cancel"
    /\ Waiting /\ received[c] = "before"
    /\ receipts' = {"cancellation"}
    /\ Reply(c, "cancelled")
    /\ CancelMonitor
    /\ UNCHANGED <<clock, record, process>>

\* The background execution that ended in waiting_for_input schedules it.
ScheduleMonitor ==
    /\ process = "up" /\ monitor = "unscheduled" /\ record # Absent
    /\ monitor' = IF Waiting THEN "asleep" ELSE "off"
    /\ UNCHANGED <<clock, record, receipts, callVars, process>>

\* asyncio.sleep counts the loop's clock, the claim compares the wall clock.
MonitorWakes ==
    /\ monitor = "asleep"
    /\ clock = "after" \/ EarlyWake
    /\ monitor' = clock
    /\ UNCHANGED <<clock, record, receipts, callVars, process>>

\* It claims at the instant it took ("before" or "after") and ends.
MonitorClaims ==
    /\ monitor \in Instants
    /\ receipts' = ClaimExpiry(monitor)
    /\ monitor' = "off"
    /\ UNCHANGED <<clock, record, callVars, process>>

Crash ==
    /\ process # "down"
    /\ process' = "down"
    /\ request' = [c \in Callers |-> "none"]
    /\ monitor' = IF record = Absent THEN "unscheduled" ELSE "off"
    /\ UNCHANGED <<clock, record, receipts, proposal, received, answer>>

\* Startup recovery claims an overdue expiry at one instant ...
RecoverExpired ==
    /\ process = "down"
    /\ process' = "claimed"
    /\ receipts' = ClaimExpiry(clock)
    /\ UNCHANGED <<clock, record, callVars, monitor>>

RecoverUnwatched ==   \* slip: recovery forgets the approvals still pending
    /\ process = "claimed"
    /\ process' = "up"
    /\ UNCHANGED <<clock, record, receipts, callVars, monitor>>

\* ... and watches a wait that is, at a later one, still pending.
RecoverPending ==
    /\ process = "claimed"
    /\ process' = "up"
    /\ monitor' = IF Waiting /\ clock = "before" THEN "asleep" ELSE monitor
    /\ UNCHANGED <<clock, record, receipts, callVars>>

Decide(c) ==
    \/ DecideExpired(c) \/ DecideCancelled(c) \/ DecideConflicting(c)
    \/ DecideAgain(c) \/ DecideTooLate(c) \/ DecideFirst(c)

Cancel(c) ==
    CancelAgain(c) \/ CancelRefused(c) \/ CancelTooLate(c) \/ CancelFirst(c)

Next ==
    \/ EnterWaiting \/ DeadlinePasses
    \/ \E c \in Callers :
         \/ \E d \in Decisions, kind \in {"decide", "cancel"} : Receive(c, kind, d)
         \/ Decide(c) \/ Cancel(c)
    \/ ScheduleMonitor \/ MonitorWakes \/ MonitorClaims
    \/ Crash \/ RecoverExpired \/ RecoverPending

Spec == Init /\ [][Next]_vars

\* Time goes on through crashes, coroutines run, a dead backend is restarted.
Fairness ==
    /\ SF_vars(DeadlinePasses) /\ WF_vars(RecoverExpired) /\ WF_vars(RecoverPending)
    /\ WF_vars(ScheduleMonitor) /\ WF_vars(MonitorWakes) /\ WF_vars(MonitorClaims)

FairSpec == Spec /\ Fairness

--------------------------------------------------------------------------------
TypeOK ==
    /\ clock \in Instants
    /\ record \in Decisions \cup {Absent, NoDecision}
    /\ receipts \in SUBSET {"expiry", "cancellation"}
    /\ request \in [Callers -> {"none", "decide", "cancel"}]
    /\ proposal \in [Callers -> Decisions]
    /\ received \in [Callers -> Instants]
    /\ answer \in [Callers -> Answers]
    /\ monitor \in {"unscheduled", "asleep", "off"} \cup Instants
    /\ process \in {"up", "down", "claimed"}

(***************************************************************************)
(* No two of decision, expiry and cancellation win (the bug report on the  *)
(* arbitration: any fix that "allows more than one durable winner is       *)
(* invalid"), and none wins an approval that was never entered.            *)
(***************************************************************************)
OneWinner ==
    /\ record \in Decisions \cup {Absent} => receipts = {}
    /\ receipts # {"expiry", "cancellation"}

(***************************************************************************)
(* What a caller was told stays true: an expiry or a cancellation that was *)
(* reported is on record, a decision reported as created or replayed is    *)
(* the recorded one, and only one caller created it (decide_with_outcome,  *)
(* claim_cancellation: "atomically report whether this call created it").  *)
(***************************************************************************)
AnswersHold ==
    /\ \A c \in Callers :
         /\ answer[c] = "expired" => receipts = {"expiry"}
         /\ answer[c] = "cancelled" => receipts = {"cancellation"}
         /\ answer[c] \in {"created", "replayed"} => record = proposal[c]
    /\ \A c, d \in Callers : answer[c] = "created" /\ answer[d] = "created" => c = d

\* Expiry is never on record before the deadline, whoever claimed it.
ExpiryNotEarly == "expiry" \in receipts => clock = "after"

(***************************************************************************)
(* A resolved approval stays resolved as it was, across crashes, replayed  *)
(* requests and late monitors.                                             *)
(***************************************************************************)
ResolutionIsFinal ==
    [][/\ record \in Decisions => record' = record
       /\ receipts # {} => receipts' = receipts]_vars

(***************************************************************************)
(* Every wait ends: by its deadline at the latest the monitor, or recovery *)
(* after a crash, claims the expiry ("Schedule one live, durable expiry    *)
(* claimant for each waiting approval").                                   *)
(***************************************************************************)
EveryWaitEnds == (record # Absent) ~> ~Waiting

\* The store implements the once-and-for-ever outcome.
outcome ==
    IF record = Absent THEN "absent"
    ELSE IF record \in Decisions THEN record
    ELSE IF "expiry" \in receipts THEN "timed_out"
    ELSE IF "cancellation" \in receipts THEN "cancelled"
    ELSE "waiting"

Abstract == INSTANCE ApprovalOutcome
OutcomeSpec == Abstract!Spec
================================================================================
