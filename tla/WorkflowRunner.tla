----------------------------- MODULE WorkflowRunner -----------------------------
(***************************************************************************)
(* The V3 execution of one Attempt (_execute_v3_task_run with the serial   *)
(* DAG scheduler and the node checkpoint store): seeding from checkpoints, *)
(* executing the nodes in topological order, committing each, reducing the *)
(* results to the four status axes - with crashes, retries, cancellation,  *)
(* the total deadline and, if a lease was lost, two executors at a time.   *)
(***************************************************************************)
EXTENDS Naturals, Sequences, FiniteSets

CONSTANTS
    Nodes,
    Order,          \* topological_order
    Deps,           \* depends_on
    Kind,           \* "work" (agents, tools), "approval", "validator", "governance"
    Policy,         \* the effective failure_policy
    Professional,   \* the validators that a governance plugin runs (sfmea, ...)
    Blocking,       \* the nodes whose governance verdict blocks the delivery
    Generating,     \* the governance nodes that generate declared artifacts
    Versions,       \* the contents an artifact can have
    Executors,
    Overlap,        \* may an executor start while another one runs?
    ReuseSettings,  \* the values workflow_checkpoint_reuse_enabled takes
    Interrupts,     \* which of the four kinds below may happen
    MaxStarts       \* bounds the executions of the Attempt

Kinds == {"work", "approval", "validator", "governance"}
Interruptions == {"cancel", "deadline", "exception", "suspension"}

ASSUME RunnerAssumption ==
    /\ Order \in Seq(Nodes)
    /\ Deps \in [Nodes -> SUBSET Nodes]
    /\ Kind \in [Nodes -> Kinds]
    /\ Policy \in [Nodes -> {"stop", "continue_independent"}]
    /\ Professional \subseteq Nodes /\ Blocking \subseteq Nodes
    /\ Generating \subseteq {n \in Nodes : Kind[n] = "governance"}
    /\ Versions \cap {"none", "fixed"} = {}
    /\ Overlap \in BOOLEAN /\ ReuseSettings \subseteq BOOLEAN
    /\ Interrupts \subseteq Interruptions
    /\ MaxStarts \in Nat

\* What schedule() checks of a plan before it executes a node: the order is of
\* its nodes, and each comes after those it depends on.
ASSUME PlanAssumption ==
    /\ \A n \in Nodes : \E i \in 1..Len(Order) : Order[i] = n
    /\ \A i \in 1..Len(Order) : \A d \in Deps[Order[i]] :
          \E j \in 1..(i - 1) : Order[j] = d

VARIABLES
    checkpoint,  \* checkpoints/<node>.json, revision 0 while there is none
    file,        \* the content of each node's declared artifact
    approval,    \* the approval of each approval node
    outcome,     \* workflow_execution.json, as last written
    cancelled,   \* the Attempt's status is "cancelled"
    lost,        \* the executors that noticed the loss of their lease
    overdue,     \* total_execution_timeout_at has passed
    starts,      \* how many executions were started
    forgot,      \* history: an execution ran with reuse switched off
    phase,       \* where each executor is
    pos,         \* the node it is at, by its place in Order
    result,      \* results_by_node of its execution
    hashes,      \* its checkpoint_output_hashes
    draft        \* the node it executes, before the result is filed

durable == <<checkpoint, file, approval>>
requests == <<cancelled, lost, overdue, starts, forgot>>
local == <<phase, pos, result, hashes, draft>>
vars == <<durable, outcome, requests, local>>

Plain(status) == [status |-> status, axis |-> "", gov |-> ""]
Unseen == Plain("unseen")
Verdict(status, axis, gov) == [status |-> status, axis |-> axis, gov |-> gov]

Failures == {"failed", "timed_out", "cancelled"}
Handlers == {n \in Nodes : Kind[n] \in {"validator", "governance"}}

NoCheckpoint(n) ==
    [revision |-> 0, key |-> [d \in Deps[n] |-> "none"], out |-> "none",
     snapshot |-> "none", result |-> Unseen, used |-> [d \in Deps[n] |-> "none"]]

Draft(used, snapshot, out, r) ==
    [used |-> used, snapshot |-> snapshot, out |-> out, result |-> r]
Blank == Draft(<<>>, "none", "none", Unseen)

\* The content behind a node's outputs: the artifact it declares, or else what
\* its result says of itself, which does not change.
Declares(n) == Kind[n] = "work" \/ n \in Generating
Content(n) == IF Declares(n) /\ file[n] # "none" THEN file[n] ELSE "fixed"
Committed(n) == checkpoint[n].revision > 0

\* The idempotency key: definition and inputs are frozen, so the upstream hashes.
Key(e, n) == [d \in Deps[n] |-> hashes[e][d]]

Succeeded(e, n) == result[e][n].status = "completed"

Init ==
    /\ checkpoint = [n \in Nodes |-> NoCheckpoint(n)]
    /\ file = [n \in Nodes |-> "none"]
    /\ approval = [n \in Nodes |-> "none"]
    /\ outcome = [execution |-> "none", validation |-> "none", governance |-> "none",
                  delivery |-> "none", results |-> [n \in Nodes |-> Unseen]]
    /\ cancelled = FALSE /\ lost = {} /\ overdue = FALSE /\ starts = 0 /\ forgot = FALSE
    /\ phase = [e \in Executors |-> "idle"]
    /\ pos = [e \in Executors |-> 1]
    /\ result = [e \in Executors |-> [n \in Nodes |-> Unseen]]
    /\ hashes = [e \in Executors |-> [n \in Nodes |-> "none"]]
    /\ draft = [e \in Executors |-> Blank]

\* execute_task_run, by a user's request or by recovery.
Start(e) ==
    /\ phase[e] = "idle" /\ starts < MaxStarts
    /\ Overlap \/ \A f \in Executors : phase[f] = "idle"
    /\ \/ cancelled' = FALSE /\ overdue' = FALSE      \* a new request
       \/ ~cancelled /\ UNCHANGED <<cancelled, overdue>>   \* recovery
    /\ starts' = starts + 1 /\ lost' = lost \ {e}
    /\ \E reuse \in ReuseSettings :
         /\ phase' = [phase EXCEPT ![e] = IF reuse THEN "seeding" ELSE "running"]
         /\ forgot' = (forgot \/ ~reuse)
    /\ pos' = [pos EXCEPT ![e] = 1]
    /\ result' = [result EXCEPT ![e] = [n \in Nodes |-> Unseen]]
    /\ hashes' = [hashes EXCEPT ![e] = [n \in Nodes |-> "none"]]
    /\ draft' = [draft EXCEPT ![e] = Blank]
    /\ UNCHANGED <<durable, outcome>>

At(e, p) == phase[e] = p /\ pos[e] <= Len(Order)
Node(e) == Order[pos[e]]

MatchesWithoutArtifacts(e, n) ==   \* slip: the artifacts are not hashed again
    /\ Committed(n)
    /\ checkpoint[n].key = Key(e, n)

\* What load_reusable_seed and _v3_checkpoint_artifacts_match accept.
Matches(e, n) ==
    /\ Committed(n)
    /\ checkpoint[n].key = Key(e, n)
    /\ Content(n) = checkpoint[n].out

SeedNothing(e) ==   \* slip: seeding skips every node
    /\ At(e, "seeding")
    /\ UNCHANGED <<result, hashes>>
    /\ pos' = [pos EXCEPT ![e] = @ + 1]
    /\ UNCHANGED <<durable, outcome, requests, phase, draft>>

\* One round of the seed loop.
Seed(e) ==
    /\ At(e, "seeding")
    /\ LET n == Node(e) IN
         IF (\A d \in Deps[n] : Succeeded(e, d)) /\ Matches(e, n)
         THEN /\ result' = [result EXCEPT ![e][n] = checkpoint[n].result]
              /\ hashes' = [hashes EXCEPT ![e][n] = checkpoint[n].out]
         ELSE UNCHANGED <<result, hashes>>
    /\ pos' = [pos EXCEPT ![e] = @ + 1]
    /\ UNCHANGED <<durable, outcome, requests, phase, draft>>

Seeded(e) ==
    /\ phase[e] = "seeding" /\ pos[e] > Len(Order)
    /\ phase' = [phase EXCEPT ![e] = "running"]
    /\ pos' = [pos EXCEPT ![e] = 1]
    /\ UNCHANGED <<durable, outcome, requests, result, hashes, draft>>

\* The nodes that set stop_remaining.
StopSources(e) ==
    {m \in Nodes : \/ result[e][m].status = "waiting_for_input"
                   \/ result[e][m].status \in Failures /\ Policy[m] = "stop"}

Pending(e) == At(e, "running") /\ result[e][Node(e)] = Unseen
Ready(e) ==
    /\ Pending(e) /\ StopSources(e) = {}
    /\ \A d \in Deps[Node(e)] : Succeeded(e, d)

\* The scheduler files the node's result and goes on.
File(e, r) ==
    /\ result' = [result EXCEPT ![e][Node(e)] = r]
    /\ pos' = [pos EXCEPT ![e] = @ + 1]
    /\ phase' = [phase EXCEPT ![e] = "running"]
    /\ draft' = [draft EXCEPT ![e] = Blank]

Reuse(e) ==
    /\ At(e, "running") /\ result[e][Node(e)] # Unseen
    /\ pos' = [pos EXCEPT ![e] = @ + 1]
    /\ UNCHANGED <<durable, outcome, requests, phase, result, hashes, draft>>

Block(e) ==
    /\ Pending(e) /\ ~Ready(e)
    /\ File(e, Plain("blocked"))
    /\ UNCHANGED <<durable, outcome, requests, hashes>>

IsCancelled(e) == cancelled \/ e \in lost

\* execute_node looks at the cancellation first, then at the deadline.
Interrupted(e) ==
    /\ Ready(e)
    /\ \/ IsCancelled(e) /\ File(e, Plain("cancelled"))
       \/ ~IsCancelled(e) /\ overdue /\ File(e, Plain("timed_out"))
    /\ UNCHANGED <<durable, outcome, requests, hashes>>

Executes(e) == Ready(e) /\ ~IsCancelled(e) /\ ~overdue
Used(n) == [d \in Deps[n] |-> Content(d)]

\* An agent or a Tool starts, or a governance plugin has passed and generated:
\* what it depends on is read.
BeginWork(e) ==
    /\ Executes(e) /\ Declares(Node(e))
    /\ phase' = [phase EXCEPT ![e] = "working"]
    /\ draft' = [draft EXCEPT ![e] = Draft(Used(Node(e)), "none", "none", Unseen)]
    /\ UNCHANGED <<durable, outcome, requests, pos, result, hashes>>

\* The axis that dispatch gives the node's verdict.
Axis(n) == IF Kind[n] = "validator" /\ n \notin Professional
           THEN "artifact_validation" ELSE "governance"

Success(n) ==
    IF n \in Handlers
    THEN Verdict("completed", Axis(n), IF Axis(n) = "governance" THEN "passed" ELSE "")
    ELSE Plain("completed")

\* What was generated before is removed ...
Clear(e) ==
    /\ At(e, "working") /\ Node(e) \in Generating
    /\ file' = [file EXCEPT ![Node(e)] = "none"]
    /\ phase' = [phase EXCEPT ![e] = "cleared"]
    /\ UNCHANGED <<checkpoint, approval, outcome, requests, pos, result, hashes, draft>>

\* ... and the artifact is in place.  The result of an agent tells of its content,
\* that of a governance node only where it is.
Produce(e) ==
    /\ \/ At(e, "working") /\ Node(e) \notin Generating
       \/ At(e, "cleared") /\ file[Node(e)] = "none"
    /\ LET n == Node(e) IN
       \E v \in Versions :
         /\ file' = [file EXCEPT ![n] = v]
         /\ draft' = [draft EXCEPT ![e] =
                Draft(@.used, IF n \in Generating THEN "fixed" ELSE v, "none", Success(n))]
    /\ phase' = [phase EXCEPT ![e] = "produced"]
    /\ UNCHANGED <<checkpoint, approval, outcome, requests, pos, result, hashes>>

WorkFails(e) ==
    /\ At(e, "working") /\ Kind[Node(e)] = "work"
    /\ \/ File(e, Plain("failed"))
       \/ IsCancelled(e) /\ File(e, Plain("cancelled"))
       \/ overdue /\ File(e, Plain("timed_out"))
    /\ UNCHANGED <<durable, outcome, requests, hashes>>

\* _v3_human_approval_step_result
AskApproval(e) ==
    /\ Executes(e) /\ Kind[Node(e)] = "approval"
    /\ LET n == Node(e) IN
       \/ /\ approval[n] \in {"none", "pending"}
          /\ approval' = [approval EXCEPT ![n] = "pending"]
          /\ File(e, Plain("waiting_for_input"))
       \/ /\ approval[n] = "rejected" /\ File(e, Plain("failed"))
          /\ UNCHANGED approval
       \/ /\ approval[n] = "expired" /\ File(e, Plain("timed_out"))
          /\ UNCHANGED approval
    /\ UNCHANGED <<checkpoint, file, outcome, requests, hashes>>

\* The node succeeded without an artifact of its own.
Conclude(e) ==
    /\ draft' = [draft EXCEPT ![e] = Draft(Used(Node(e)), "fixed", "none", Success(Node(e)))]
    /\ phase' = [phase EXCEPT ![e] = "produced"]
    /\ UNCHANGED <<durable, outcome, requests, pos, result, hashes>>

Approved(e) ==
    /\ Executes(e) /\ Kind[Node(e)] = "approval" /\ approval[Node(e)] = "approved"
    /\ Conclude(e)

HandlerPasses(e) ==
    /\ Executes(e) /\ Node(e) \in Handlers \ Generating
    /\ Conclude(e)

HandlerWarns(e) ==   \* slip: no governance node blocks
    /\ Executes(e) /\ Node(e) \in Handlers
    /\ File(e, Verdict("failed", Axis(Node(e)),
                       IF Axis(Node(e)) = "governance" THEN "warning" ELSE ""))
    /\ UNCHANGED <<durable, outcome, requests, hashes>>

HandlerFails(e) ==
    /\ Executes(e) /\ Node(e) \in Handlers
    /\ LET n == Node(e) IN
         File(e, Verdict("failed", Axis(n),
                         CASE Axis(n) # "governance" -> ""
                           [] Axis(n) = "governance" /\ n \in Blocking -> "failed"
                           [] OTHER -> "warning"))
    /\ UNCHANGED <<durable, outcome, requests, hashes>>

\* execute_node raised (an I/O error, say, or somebody else's artifact is where the
\* generated one should go): the scheduler files a bare failure.
Raise(e) ==
    /\ \/ At(e, "cleared") /\ file[Node(e)] # "none"
       \/ /\ "exception" \in Interrupts
          /\ \/ phase[e] \in {"working", "cleared", "produced", "hashed"} /\ pos[e] <= Len(Order)
             \/ Executes(e) /\ Kind[Node(e)] # "work"
    /\ File(e, Plain("failed"))
    /\ UNCHANGED <<durable, outcome, requests, hashes>>

\* _v3_checkpoint_output_hashes reads what is in place now.
HashOutputs(e) ==
    /\ At(e, "produced")
    /\ draft' = [draft EXCEPT ![e] =
                    Draft(@.used, @.snapshot, Content(Node(e)), @.result)]
    /\ phase' = [phase EXCEPT ![e] = "hashed"]
    /\ UNCHANGED <<durable, outcome, requests, pos, result, hashes>>

Proposal(e) ==
    LET n == Node(e) IN
    [revision |-> checkpoint[n].revision + 1, key |-> Key(e, n), out |-> draft[e].out,
     snapshot |-> draft[e].snapshot, result |-> draft[e].result, used |-> draft[e].used]

\* The checkpoint there has the proposal's key, and its data.
SameKey(e) == Committed(Node(e)) /\ checkpoint[Node(e)].key = Key(e, Node(e))
SameData(e) ==
    LET held == checkpoint[Node(e)] IN
    held.out = draft[e].out /\ held.snapshot = draft[e].snapshot
    /\ held.result = draft[e].result

\* The checkpoint holds the result; the events about it may still raise.
Kept(e) ==
    /\ hashes' = [hashes EXCEPT ![e][Node(e)] = draft[e].out]
    /\ \/ File(e, draft[e].result)
       \/ "exception" \in Interrupts /\ File(e, Plain("failed"))

CommitAnyway(e) ==   \* slip: the last writer wins
    /\ At(e, "hashed")
    /\ checkpoint' = [checkpoint EXCEPT ![Node(e)] = Proposal(e)]
    /\ Kept(e)
    /\ UNCHANGED <<file, approval, outcome, requests>>

CommitFirstKept(e) ==   \* slip: what is there already counts as this result
    /\ At(e, "hashed")
    /\ \/ ~SameKey(e) /\ checkpoint' = [checkpoint EXCEPT ![Node(e)] = Proposal(e)]
       \/ SameKey(e) /\ UNCHANGED checkpoint
    /\ Kept(e)
    /\ UNCHANGED <<file, approval, outcome, requests>>

\* commit_completed: the first, or a new key; a repetition; a conflict, which raises.
Commit(e) ==
    /\ At(e, "hashed")
    /\ \/ /\ ~SameKey(e)
          /\ checkpoint' = [checkpoint EXCEPT ![Node(e)] = Proposal(e)]
          /\ Kept(e)
       \/ /\ SameKey(e) /\ SameData(e)
          /\ Kept(e)
          /\ UNCHANGED checkpoint
       \/ /\ SameKey(e) /\ ~SameData(e)
          /\ File(e, Plain("failed"))
          /\ UNCHANGED <<checkpoint, hashes>>
    /\ UNCHANGED <<file, approval, outcome, requests>>

--------------------------------------------------------------------------------
\* The four axes.
Statuses(e, S) == {result[e][n].status : n \in S}

\* _v3_execution_status
ExecutionStatus(e) ==
    LET seen == Statuses(e, Nodes \ Handlers) IN
    CASE "waiting_for_input" \in seen -> "waiting_for_input"
      [] "waiting_for_input" \notin seen /\ "cancelled" \in seen -> "cancelled"
      [] seen \cap {"waiting_for_input", "cancelled"} = {} /\ "timed_out" \in seen
           -> "timed_out"
      [] seen \cap {"waiting_for_input", "cancelled", "timed_out"} = {}
           /\ seen \cap {"failed", "blocked"} # {} -> "failed"
      [] OTHER -> "completed"

Reported(e) == {n \in Handlers : result[e][n].status # "blocked"}
ValidatorResults(e) == {n \in Reported(e) : result[e][n].axis = "artifact_validation"}
GovernanceResults(e) == Reported(e) \ ValidatorResults(e)

\* blocked_by of a blocked node.
Blockers(e, n) ==
    LET unmet == {d \in Deps[n] : ~Succeeded(e, d)}
    IN IF unmet # {} THEN unmet ELSE StopSources(e)

BlockedByGovernance(e) ==
    \E n \in Nodes :
        /\ Kind[n] = "validator" /\ result[e][n].status = "blocked"
        /\ \E b \in Blockers(e, n) : Kind[b] = "governance" /\ result[e][b].status = "failed"

\* _v3_artifact_validation_status
ValidationStatus(e) ==
    LET results == ValidatorResults(e)
        configured == \E n \in Nodes : Kind[n] = "validator"
    IN CASE results = {} /\ ~configured -> "not_requested"
         [] results = {} /\ configured ->
              IF ExecutionStatus(e) = "completed" /\ BlockedByGovernance(e)
              THEN "failed" ELSE "not_started"
         [] results # {} ->
              IF "failed" \in Statuses(e, results) THEN "failed" ELSE "passed"

\* _v3_governance_status
GovernanceStatus(e) ==
    LET govs == {result[e][n].gov : n \in GovernanceResults(e)} IN
    CASE govs = {} -> "not_requested"
      [] "failed" \in govs -> "failed"
      [] "failed" \notin govs /\ "warning" \in govs -> "warning"
      [] OTHER -> "passed"

\* derive_delivery_status
Delivery(execution, validation, governance) ==
    CASE execution = "waiting_for_input" -> "pending"
      [] execution \in Failures -> "blocked"
      [] execution = "completed" /\ validation = "not_started" -> "pending"
      [] execution = "completed" /\ validation = "failed" -> "blocked"
      [] execution = "completed" /\ validation \in {"passed", "not_requested"} ->
           IF governance = "failed" THEN "blocked" ELSE "ready"

\* The axes are reduced and workflow_execution.json is written.
Finish(e) ==
    /\ phase[e] = "running" /\ pos[e] > Len(Order)
    /\ LET x == ExecutionStatus(e)
           v == ValidationStatus(e)
           g == GovernanceStatus(e)
       IN outcome' = [execution |-> x, validation |-> v, governance |-> g,
                      delivery |-> Delivery(x, v, g), results |-> result[e]]
    /\ phase' = [phase EXCEPT ![e] = "idle"]
    /\ UNCHANGED <<durable, requests, pos, result, hashes, draft>>

--------------------------------------------------------------------------------
\* The process dies, or the scheduler raises; the next execution starts from the files.
Crash(e) ==
    /\ phase[e] # "idle"
    /\ phase' = [phase EXCEPT ![e] = "idle"]
    /\ pos' = [pos EXCEPT ![e] = 1]
    /\ result' = [result EXCEPT ![e] = [n \in Nodes |-> Unseen]]
    /\ hashes' = [hashes EXCEPT ![e] = [n \in Nodes |-> "none"]]
    /\ draft' = [draft EXCEPT ![e] = Blank]
    /\ UNCHANGED <<durable, outcome, requests>>

Cancel ==
    /\ "cancel" \in Interrupts /\ ~cancelled
    /\ \E e \in Executors : phase[e] # "idle"
    /\ cancelled' = TRUE
    /\ UNCHANGED <<durable, outcome, lost, overdue, starts, forgot, local>>

\* The heartbeat found another owner in the lease file, or its own record
\* expired (the host was suspended, say).
NoticeLoss(e) ==
    /\ Overlap \/ "suspension" \in Interrupts
    /\ phase[e] # "idle" /\ e \notin lost
    /\ lost' = lost \cup {e}
    /\ UNCHANGED <<durable, outcome, cancelled, overdue, starts, forgot, local>>

DeadlinePasses ==
    /\ "deadline" \in Interrupts /\ ~overdue /\ starts > 0
    /\ overdue' = TRUE
    /\ UNCHANGED <<durable, outcome, cancelled, lost, starts, forgot, local>>

\* HumanApproval's outcome, once and for ever.
Answer(n) ==
    /\ approval[n] = "pending"
    /\ \E a \in {"approved", "rejected", "expired"} : approval' = [approval EXCEPT ![n] = a]
    /\ UNCHANGED <<checkpoint, file, outcome, requests, local>>

Next ==
    \/ \E e \in Executors :
         \/ Start(e) \/ Seed(e) \/ Seeded(e)
         \/ Reuse(e) \/ Block(e) \/ Interrupted(e)
         \/ BeginWork(e) \/ Clear(e) \/ Produce(e) \/ WorkFails(e)
         \/ AskApproval(e) \/ Approved(e) \/ HandlerPasses(e) \/ HandlerFails(e)
         \/ Raise(e) \/ HashOutputs(e) \/ Commit(e) \/ Finish(e) \/ Crash(e)
         \/ NoticeLoss(e)
    \/ Cancel \/ DeadlinePasses
    \/ \E n \in Nodes : Answer(n)

Spec == Init /\ [][Next]_vars

--------------------------------------------------------------------------------
Outputs == Versions \cup {"fixed"}
Results ==
    [status : Failures \cup {"unseen", "completed", "blocked", "waiting_for_input"},
     axis : {"", "artifact_validation", "governance"},
     gov : {"", "passed", "warning", "failed"}]

TypeOK ==
    /\ DOMAIN checkpoint = Nodes
    /\ \A n \in Nodes :
         /\ checkpoint[n].revision \in Nat
         /\ checkpoint[n].key \in [Deps[n] -> Outputs \cup {"none"}]
         /\ checkpoint[n].out \in Outputs \cup {"none"}
         /\ checkpoint[n].result \in Results
    /\ file \in [Nodes -> Versions \cup {"none"}]
    /\ approval \in [Nodes -> {"none", "pending", "approved", "rejected", "expired"}]
    /\ outcome.delivery \in {"none", "pending", "ready", "blocked"}
    /\ outcome.results \in [Nodes -> Results]
    /\ cancelled \in BOOLEAN /\ overdue \in BOOLEAN /\ lost \subseteq Executors
    /\ starts \in 0..MaxStarts /\ forgot \in BOOLEAN
    /\ phase \in [Executors -> {"idle", "seeding", "running", "working", "cleared",
                               "produced", "hashed"}]
    /\ pos \in [Executors -> 1..(Len(Order) + 1)]
    /\ result \in [Executors -> [Nodes -> Results]]
    /\ hashes \in [Executors -> [Nodes -> Outputs \cup {"none"}]]
    /\ DOMAIN draft = Executors
    /\ \A e \in Executors : draft[e].out \in Outputs \cup {"none"}
                            /\ draft[e].result \in Results

(***************************************************************************)
(* The checkpoints are a durable, append-only record of the plan's run     *)
(* (DurableDag): commit_completed never replaces one, and each is for the  *)
(* outputs its dependencies are committed with.                            *)
(***************************************************************************)
Dag == INSTANCE DurableDag WITH
         committed <- {n \in Nodes : Committed(n)},
         lineage <- [n \in Nodes |-> checkpoint[n].key],
         output <- [n \in Nodes |-> checkpoint[n].out]

DagSpec == Dag!Spec

(***************************************************************************)
(* What a node really read, when it ran, is what its checkpoint's key says *)
(* it was computed from: reuse after a restart is sound.                   *)
(***************************************************************************)
KeysTellTheTruth ==
    \A n \in Nodes : Committed(n) => checkpoint[n].used = checkpoint[n].key

(***************************************************************************)
(* When an execution is reported completed, every node of it is committed  *)
(* and the artifacts in place are the committed ones, whatever was rerun,  *)
(* overwritten or lost before: every agent, Tool and approval, and every   *)
(* validator and governance node that did not fail and was not blocked     *)
(* (which deliver nothing).                                                *)
(***************************************************************************)
Finishes == \E e \in Executors : Finish(e)

DeliversWhatItCommitted ==
    [][Finishes /\ outcome'.execution = "completed"
       => \A n \in Nodes :
            n \notin Handlers \/ outcome'.results[n].status = "completed"
              => Committed(n) /\ Content(n) = checkpoint[n].out]_vars

(***************************************************************************)
(* A committed node is not executed again, and its artifact not removed or *)
(* written again, after crashes, restarts and new requests, until an       *)
(* execution runs with reuse switched off.                                 *)
(***************************************************************************)
CommittedWorkIsKept ==
    ~forgot => \A e \in Executors :
        phase[e] \in {"working", "cleared", "produced", "hashed"} => ~Committed(Node(e))

(***************************************************************************)
(* When a delivery becomes ready, every artifact validator and blocking    *)
(* governance node that came to a verdict has passed what is delivered:    *)
(* what it judged, in this execution or an earlier one, is what is in      *)
(* place now.  Without a verdict is only one that was cut off (by an       *)
(* exception, the deadline, a cancellation or a lost lease), and one that  *)
(* was blocked where a handler was cut off or its failure is a warning.    *)
(***************************************************************************)
Judges == {n \in Handlers : Axis(n) = "artifact_validation" \/ n \in Blocking}
CutOff(r) == r.status \in Failures /\ r.axis = ""
Warned(r) == r.status = "failed" /\ r.gov = "warning"

ReadyMeansJudged ==
    [][Finishes /\ outcome'.delivery = "ready"
       => \A n \in Judges :
            LET r == outcome'.results IN
            \/ r[n].status = "completed" /\ checkpoint[n].used = Used(n)
            \/ CutOff(r[n])
            \/ /\ r[n].status = "blocked"
               /\ \E m \in Handlers : CutOff(r[m]) \/ Warned(r[m])]_vars

(***************************************************************************)
(* "Any blocking governance node fails -> governance=failed,               *)
(* delivery=blocked" (the status rules of the target architecture).        *)
(***************************************************************************)
BlockingFailureBlocks ==
    outcome.delivery = "ready" =>
        \A n \in Blocking :
            Kind[n] = "governance" => outcome.results[n].status \notin Failures
================================================================================
