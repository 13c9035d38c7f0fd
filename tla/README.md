# Verification of the CodeTalk task-run runtime

CodeTalk turns a workflow drawn in its workbench into a compiled contract and executes
it as a *task run* (an Attempt): agents produce artifacts, Tools are called, a person
approves, validators and governance plugins judge, and a delivery comes out or not. The
state of an Attempt lives in files of its artifact directory. Several backend processes
may serve the same data directory, a process may die at any instant, and people decide,
cancel, re-run and read an Attempt while it executes. Beside the workflows, a person
talks to an agent in conversations whose turns are queued and run in the background.

This directory models that runtime (the V3 path), the authoring of its workflows and the
turns of its conversations in TLA+, checks them with TLC on small instances, and proves
their safety properties with TLAPS for all instances. Paths below are relative to
`src/backend/app` unless they say otherwise; `PROJECT.json` maps every definition to its
lines.

## 1. Inventory

| component | state | operations | talks to | what is hard | what makes it correct |
|---|---|---|---|---|---|
| Execution lease (`services/workflow_execution_lease.py`) | one lease file per Attempt; a heartbeat task and a `lease_lost` event per executor | acquire, heartbeat, release | background executions, in any process | takeover of an expired record, late or dead heartbeats, releases with an old token | one executor at a time; no takeover from somebody alive; a crashed owner is replaced |
| Task-run lifecycle (`api/agent_workbench.py`: execute, rerun, decide, cancel, GET, `_execute_task_run_background`) | public status in `task_run.json`, `_ACTIVE_TASK_RUN_IDS`, expiry monitors | each endpoint, the background execution, the worker thread | everything below | status written from handlers, coroutines, a worker thread and recovery, often in two writes; a rerun that takes no lease | one execution works on a run; a queued run is served; completed means approved; cancelled stays cancelled |
| Startup recovery (`services/workflow_startup_recovery.py`, `main.py`) | none of its own | classify each Attempt in progress; resume, wait, expire, cancel or fail it | status store, approval store, scheduling | crashes between any two writes | nobody is left queued without an executor, or waiting without a monitor |
| Human approval (`services/human_approval.py`) | record, expiry and cancellation receipt per node, one file lock | enter, decide, claim expiry, claim cancellation | endpoints, monitor, recovery, runner | three claimants racing with instants they took before the lock | one outcome, never early, final, and told truthfully |
| Workflow runner and DAG scheduler (`services/workbench_workflow_runner.py`, `workflow_scheduler.py`, `workflow_handler_dispatcher.py`) | results of the execution, artifacts, `workflow_execution.json` | seed from checkpoints, execute, hash, commit, reduce | checkpoints, approvals, journal, handlers | crashes between artifact and checkpoint, cancellation, deadline, a lost lease, policies | completed means committed; ready means judged |
| Node checkpoints (`services/node_checkpoint.py`) | one file per node: key, data, revision | load for reuse, commit | runner | overwritten artifacts, conflicts on retry, two executors | each commit is for its dependencies' committed outputs, once and for good |
| Run status (`services/workflow_run_status.py`) | none | reduce four axes to a delivery | runner, status store | blocked and interrupted nodes | see ready above |
| Tool action journal (`services/tool_action_journal.py`) | one file per action key | begin, complete, fail | Tool nodes, Agents' Tool requests | crash between call and record | at most one call; outcomes on record are true |
| Agent run coordinator (`services/agent_run_coordinator.py`) | active counts, waiters | slot (enter, wait, cancel), release, notify | runs of agents and AI conversations | cancellation crossing a grant, callbacks awaited between | no unit leaks, no wakeup is lost, first come first served |
| Event log and checkpoint projection (`services/workbench_task_run_events.py`, `checkpoint_projection.py`, `stream_task_run_events`) | `task_run_events.jsonl`, the projection in the task record, a cursor per stream | append, append once, list, rebuild | runner, endpoints, recovery | a line torn by a crash, text that splits a line, numbers counted from the file, readers without the lock | readers see a feed without gaps or repetitions; recovery leaves no checkpoint untold |
| AI conversations (`services/ai_conversations.py`, `api/ai_conversations.py`) | thread, runs and messages in SQLite; one job per post | post, retry, claim, complete, fail, stop, delete, kick, recover | coordinator, agents | jobs that claim other rows than their own, stops crossing completions, a store that raises | one turn at a time, in order; a queue always has a job; the thread's status is true |
| Workflow authoring (`services/workflow_version_store.py`, `api/workbench_v2_workflows.py`) | version rows with revisions, the header, the windows of the designer and what is unsaved on their canvases | edit, save, add a node, compile, publish, derive a draft | tasks | late, repeated and lost requests of several windows; edits typed while a save or a publication is under way | no accepted edit is lost or made twice; a published version is what its publisher had saved |
| Tasks and attempts (`api/workbench_v2_tasks.py`, `services/workbench_task_run.py`) | the task's pin, an attempt's files and their snapshot | create, prepare, retry, accept for execution | authoring, runner | a crash between two writes of a preparation or inside one; a retry of half an attempt | an attempt runs what the publisher had saved, or does not run |
| Child sessions, harness and provider adapters, Tool runtime | mailboxes, processes | | runner | | |
| Process and component managers, repository analysis and coverage, knowledge center, reports, LLM clients, settings, frontend, deployer | | | | | not part of the durable runtime |

`PROJECT.json` lists every component with its status and the hazards at their lines.

## 2. Modules

```
ExclusiveExecution <--implements-- ExecutionLease        ExecutionLeaseProofs
        ^---------------implements-- TaskRunLifecycle     TaskRunLifecycleProofs
ApprovalOutcome    <--implements-- HumanApproval         OnceOnlyProofs
DurableDag         <--implements-- WorkflowRunner        WorkflowRunnerProofs
AtMostOnceAction   <--implements-- ToolActionJournal     OnceOnlyProofs
EventFeed          <--implements-- TaskRunEvents         TaskRunEventsProofs
ConversationTurns  <--implements-- ConversationQueue     ConversationQueueProofs
VersionHistory     <--implements-- TaskAttempts          TaskAttemptsProofs
                                     | extends WorkflowVersions
                                   AgentRunCoordinator   AgentRunCoordinatorProofs
```

The left column says what a component promises, in a page; the middle one models the
code. `MC*` modules name the model values of the runs.

**ExecutionLease.** `record` is the lease file as owner and remaining lifetime,
`phase` the background execution (idle, contending, between nodes, in a node), `heart`
its heartbeat task and `slept` the time since it last renewed. Only differences of
instants matter, so the clock is a `Tick` that shortens lifetimes; owner tokens are
random and fresh, so "the tokens match" is "the record was written by this executor".
`late` is a history variable: some heartbeat missed the TTL or died. What the lease
promises ends there, because nothing fences the writes of an executor that lost it.

**HumanApproval.** One approval node: `record`, `receipts`, the instant each caller took
before the lock (`received`), what it was told (`answer`), the expiry monitor and the
process with recovery between its two readings. `EarlyWake` lets the monitor's sleep
end before the wall clock reaches the deadline, `SlowRecovery` lets the deadline pass
inside recovery.

**WorkflowRunner.** One Attempt executed several times, by one or more executors: the
scheduler's order and failure policies, seeding from checkpoints, artifacts as versions,
hashes, `commit_completed` with its two comparisons, approvals, validators and governance
nodes, the four axes and the delivery. An artifact's version stands for everything the
code compares besides the key: the output hash and, for an agent, the result snapshot and
provider session. A governance node in `Generating` declares an artifact too: its plugin
reads and judges, what was generated before is removed (`Clear`), the new artifact is put
in its place (`Produce`) and hashed like an agent's; its result names the artifact and not
its content. `forgot` is a history variable: an execution ran with checkpoint reuse
switched off.

**ToolActionJournal.** Actions, the record of each, what the Tool really did (`effect`)
and how often it was called, for callers that crash, raise or replay. Its specification
is `JournalSpec`, so that one module of proofs can extend it and HumanApproval.

**AgentRunCoordinator.** `slot`, with every `await` a point where other runs and
cancellations step in: `active`, `waiters`, and for each run whether it is announced,
queued, granted or holding.

**TaskRunLifecycle** composes them at the level of one run: the public `status`, the
execution status last written to `workflow_execution.json` (`report`), the approval's
outcome, the lease's owner and the `stage` and `verdict` of each background execution or
rerun, `active`, the expiry monitor, and `loop` for handlers whose writes are two.
Handlers and coroutines share an event loop, so each is one step up to its next await or,
where a worker thread can be seen in between, up to its next write; worker threads step
at any time. A rerun is an execution in `reruns`: it starts in the worker thread with the
active mark and no lease. `overlapped` is a history variable: an execution took the lease
while a rerun was at work. `dropped` is another: since an execution was last created, a
store raised where nothing catches it, so that the status stays as it is: after "queued"
was written and before the execution was created (`QueueOnly`, `HandlerRaises`,
`RecoveryRaises`), in an execution before its try (`BeginRaises`), or when it was to
write "failed" (`GiveUp`). A cancellation reads, marks and writes the outcomes in three
steps. `CanRerun` and `MayCrash` switch reruns and crashes off for the two violated runs,
whose histories need neither. The lease, the approval and the runner are reduced to what
their own modules establish: exclusive ownership (heartbeats on time), one final
resolution, and a final execution status.

**TaskRunEvents.** The log as `lines` that can be decoded or not, with `open` and
`broken` for an end without a newline or inside a character; a writer's appends under the
lock, each of which may be cut short anywhere or hold a line separator that JSON does not
escape; `checkpoints` and their `projection` as recovery rebuilds them; the streams,
which read without the lock, page by page, and stop after the status became terminal.
An event is its number and deduplication key.

**ConversationQueue.** The rows of one conversation and its jobs. A post or retry makes a
row and kicks a job; a job claims the oldest queued row, works (session, deltas and
delivery are steps inside), completes or fails it in one transaction, and kicks its
successor. A request finds the conversation (`Admit`) and acts later, on rows it does not
tie to the conversation any more; `admitted` counts the requests in between. `chosen` and
`leaving` are the stop and delete requests between their read and their write (one of
each at a time), `dropped` is a history variable: a call of the store raised where the
job has no handler. `asked` counts the runs ever made, since a row that was deleted
gives back its number in the store but not in the model.

**WorkflowVersions** and **TaskAttempts.** Version rows with state, revision and graph,
the header's current draft, the windows of the designer and the requests between them
and the backend, which arrive in any order, twice or never; a graph is the sequence of
the edits that made it. `window` is what the designer last saved or was answered, `screen`
what its canvas shows: an edit is local (`Edit`) until a save sends the whole canvas, the
answer of a save leaves what was typed meanwhile, and the answer of a canvas command
replaces it. A publication names a revision only; `saved` records, of each published
version, the graph that its publisher's window had saved, or was answered, as that
revision. TaskAttempts adds the task pinned to a published version and the files of its
attempts, written one by one with a crash possible between any two, and the runner's
acceptance of a frozen attempt. `task_run.json` and the task bundle are replaced
atomically at the end (`_write_run`); the other files are written in place, so that a
crash may leave the plan or the snapshot cut short: nobody accepts either, and a retry
reads neither.

### Plan

Done: the modules above, the rerun endpoint among them. Left, in this order:

1. *ChildSession* (mailbox and budget per Attempt) and the process manager.
2. The composition of the lifecycle and the lease with late heartbeats, and several
   processes with their own active marks.
3. Workflow headers (archive, status, copies) and the drafts of schema 2.
4. Proofs: an abstract first-come-first-served queue per provider that
   AgentRunCoordinator implements, and the lease and the runner in one specification,
   which would turn the hypothesis `~Overlap` of the runner's theorems into one about
   heartbeats.

## 3. Runs

| run | question | instance |
|---|---|---|
| `lease` | Does the lease serialize execution, survive crashes, and degrade as stated when heartbeats are late? | 3 executors, TTL 3, period 1, delay up to 3 |
| `approval` | One truthful, final, never early outcome, and does every wait end? | 2 callers, 2 decisions, unbounded crashes |
| `tool_journal` | Is a Tool ever called twice, or its outcome misreported? | 3 callers, 2 actions, 2 outputs, 1 error |
| `coordinator` | Do units leak, wakeups get lost, waiters overtake or wait for ever? | 4 runs, 2 providers with limits 1 and 2, 2 slots |
| `conversation` | Are turns served one at a time and in order, is no queue abandoned, is the status true? | 2 posts or retries |
| `runner` | Are checkpoints sound through every interruption, with reuse on and off; is committed work kept, what is delivered committed, what is ready judged? | 5 nodes, one of them a governance node that generates, 2 artifact versions, up to 4 executions, one at a time, every interruption |
| `lifecycle` | Does one execution at a time work on the run, is a queued run served, does completed mean approved? | 2 executions alive at a time, any number of crashes and raising stores |
| `events` | Do readers see a feed, and is every restored checkpoint told? | 2 writers, 1 stream, 1 node, pages of 1, 4 lines, 1 torn write |
| `authoring` | Is no accepted edit lost or repeated, and does an attempt run what its publisher had saved? | 2 windows, 2 edits, 2 requests, 2 versions, 3 revisions, 2 attempts |
| `lifecycle_cancel` | (violated) Does a cancelled run stay cancelled? | no crash, no rerun |
| `lifecycle_decision` | (violated) Does a decision resume the run? | no crash, no rerun |
| `runner_governance` | (violated) Does any blocking governance node that fails block the delivery? | the plan of `runner` with a second governance node, 2 executions |

Bounds. A third lease executor contends while one takes over from another; TTL 3 with
period 1 leaves heartbeats that are on time, late within the TTL and late beyond it (the
code's 60 s and 10 s leave the same three cases). The approval's clock has two values
because the code compares instants with one deadline only. Two actions show that records
do not interfere; a third caller replays while two dispute. The coordinator's run has a
waiter of the full provider in front of one that could start. Two turns are enough for a
job to claim another row than its own, to be overtaken by a stop and to kick a
successor; the proofs hold for any number. The plan of `runner` has an agent, an
approval of its report, a governance node that generates from both, and a validator and
a professional validator that judge what was generated; its four executions, about a
million states, are enough to run it, interrupt it, run it with reuse off and run it
again; two artifact versions tell an unchanged artifact from a changed one. Two
executors at a time are left to the proofs, which have any number. Two executions of a
run are one that ends and one that a request, a decision or recovery creates, or one and
a rerun. A log of four lines holds a torn event, the event that is appended to it and
two more, with pages of one event between which the log grows. In `authoring`, two
windows race for one draft through three revisions (a save, the save it makes stale, and
a third), both with unsaved edits on their canvases; the constraint `Load` keeps
requests under way and attempts together at two, and leaves nothing unsaved once there
is a task, when canvas commands are enough to change the draft beside
the attempts.

`CHECK_DEADLOCK FALSE` stands where the system really stops: the runner when its last
allowed execution has ended, a conversation whose bounded posts are done or that was
deleted, a log whose run has ended and whose streams are done, an authoring session with
its bounds used up, and a task run that is marked active with nothing left to execute it
(known limits below).

Type invariants are proved (section 4; that of TaskAttempts is part of its `Invariance`,
that of the coordinator of `UnitsOwned`) and not run again.

### Fairness

* Lease: the clock goes on, the event loop runs due heartbeats and polls the lease, and
  node executors return. Crashes, cancellations and new requests are never required.
* Approval: strong fairness of the deadline (time passes while others act), weak
  fairness of recovery and of the monitor's own steps: `asyncio` runs what is ready.
* Coordinator: each run goes on, or is cancelled, after each of its awaits; a slot is
  released by the `finally` of its context manager.
* Conversation: the event loop runs a job on after each of its awaits, agents and model
  calls return or time out, and a stop request that has chosen its run goes on. Posts,
  deletes, restarts and raising stores are never required.
* Lifecycle: a worker thread goes on; a coroutine that is ready infinitely often while
  other handlers run gets its turn (strong fairness, since a handler between two writes
  or a crash disables it for a while); a dead lease runs out; a dead backend is
  restarted.
* Events: an open stream polls again, looks at the status and reads on (it sleeps and
  repeats until the run is done). Writers owe nothing.

### What the violated runs show

* `lifecycle_cancel`: `mark_status_unless` spares "cancelled", and the outcomes that
  follow it replace it. The blocked preflight, a late worker thread and a GET do this.
* `lifecycle_decision`: a decision that arrives between the worker thread's
  "waiting_for_input" and the background execution's own is recorded and queued, then
  overwritten; the new execution finds a waiting run and ends. The handler of a rerun that
  returns in that moment, a GET and a crash between the decision and the queueing have the
  same effect. Deciding the same again resumes the run.
* `runner_governance`: the agent's report is approved, the artifact generated and
  validated, and the last governance node raises. The scheduler files a bare failure,
  `_v3_governance_status` looks at results with a governance status only, and the delivery
  is ready. `src/docs/refactor/harness-workflow-target-architecture.md:464` blocks it.

### Known limits of what holds

Some passing properties state an exception the code really has, and some behaviours are
known and outside what is checked.

*Task runs.*
* `StrandedOnlyIfExcused` and `QueuedIsServed` have two exceptions. Recovery over an
  approval that expired or was cancelled, with the status queued or running, marks
  nothing and schedules nothing, and the run is excluded from the interruption of other
  runs; it stays queued for ever and `execute` answers 202. And a store that raises where
  nothing catches it (`dropped`) leaves a run queued or running without an execution;
  `execute` answers 202 until somebody cancels the run or the backend restarts, which
  schedules it again.
* A recovered run whose execution raises before its try, and a run whose execution fails
  to release the lease, keep their active mark: executing or rerunning them answers 409
  for the life of the process. If scheduling a recovered run raises, the backend does not
  start (`RecoveryRaises`).
* `OneExecution` and `WorkIsMarked` end where `overlapped` begins. The code reaches it:
  a background execution waits for the lease, the run is cancelled and the owner ends, a
  rerun starts (no lease, status "running"), and the waiting execution finds a running
  run and a free lease. A decision taken while a rerun shows "waiting_for_input" does it
  too. Two executions then write one Attempt, and the first to end clears the mark of
  both; only the executions with the lease still exclude each other (`OneOwner`). What
  two executors leave of the checkpoints is WorkflowRunner's subject.
* A rerun that fails ends as "error", a status `execute` counts as terminal and the task
  record normalizes to "prepared" when it is loaded; a GET shows it as failed. A rerun
  that ends waiting schedules no expiry monitor: the approval expires at a decision, a
  cancellation or the next restart.
* `CancelledStaysCancelled` allows "queued" and a rerun, because executing a cancelled
  run again is legal.
* A recovered run cancelled while its execution waits for the lease keeps its active
  mark for the life of the process: executing or rerunning it answers 409.
* `EveryWaitEnds` is checked without `EarlyWake` and `SlowRecovery`; with either, a wait
  may end only by a decision, a cancellation or the next restart (the monitor measures
  its sleep with another clock than the one the claim compares, and recovery takes two
  instants). An expired approval is shown as "failed": the public status knows no
  "timed_out", which shows for an instant between two writes.
* With checkpoint reuse off, a committed node runs again and is refused its checkpoint
  whenever it writes anything else, on every retry. A governance node that generates has
  removed the committed artifact by then; no execution is completed with the other one
  (`DeliversWhatItCommitted`), but nothing brings the first back.
* `ReadyMeansJudged` excepts a validator or governance node that was cut off by an
  exception, the deadline, a cancellation or a lost lease: its result has no axis and no
  verdict, and counts for neither side. For a blocking governance node that fails by an
  exception the architecture says otherwise (`runner_governance`); for one that never came
  to a verdict it says nothing. Validators that were configured and left no counted result
  stay not_started or pending for ever.
* It also excepts a node that is blocked behind such a node, or behind a governance node
  that does not block, fails, and has the policy "stop" or is what the other depends on:
  the delivery is ready without the other's verdict.
* An executor that lost its lease still writes `workflow_execution.json` over its
  successor's. An Agent's Tool call is keyed by the provider's call id, so the node run
  again after a crash asks under a new key: at most once holds per key.
* The coordinator's queue positions are computed under its lock and delivered after it,
  so a caller may be told an old position last.

*Events.* A completion may be told twice, once by the runner without a key and once by
recovery with one. Only recovery updates the projection. The list endpoint reads the page
and `latest_event_id` separately, and the cockpit
(`src/frontend/src/features/runs/run-cockpit-page.tsx`) uses the latter as its
cursor, so it may skip an event; `list_after` with a large limit takes the oldest events.
A stream may say it is done before it has yielded the last event. `RestoredIsTold` allows
two untold events per torn write: an unreadable line and the one appended to it.

*Conversations.* A run interrupted by a restart cannot be retried, a stop that arrives
late can turn an answered run into a cancelled one, and deleting a conversation checks
only its newest run, so it can be deleted under a running job. `TurnsHaveADriver` and
`QueuedIsServed` end where the store raises outside the job's handlers (`dropped`), and
they, like `ThreadStatusIsTrue`, speak of a conversation that exists: a post or retry that
found it and inserts its run after the delete leaves a run that is claimed, whose job
then ends because it cannot read the conversation, and that stays running until the next
restart marks it. Of such runs the model still shows that they are taken up one at a time
and in order and are never answered (`TurnsSpec`).

*Authoring.* A published version is what its publisher's window had saved as the revision
it named, which may be less than what its screen showed: the canvas stays enabled while
`publishWorkflow` awaits its save, the validation and the compilation, and the request
carries no graph. (An edit that the timer saves in between is published without a
validation of its own; the publication compiles it.) The answer of a canvas command
replaces what was typed while it was under way; such an edit was never accepted, and
`HistorySpec` speaks of accepted ones. The deployment is one backend process
(`src/docs/decisions/workbench-v2.md`, D022), whose handlers run in one piece; a second
process could let a window adopt another's revision, because a save reads its row again
after the transaction, and could give two attempts one number. Archiving a task looks at
its last run only.

## 4. Proofs

All theorems are of the specifications themselves, without bounds on their constants
beyond the named assumptions of each module.

* **ExecutionLeaseProofs**: `TypeCorrect`, `OwnershipHolds`, `MutualExclusion`,
  `NotTakenEarly`, `Refinement` (of ExclusiveExecution). Mutual exclusion is not
  inductive: `Acquire` has to find every executor at work holding an unexpired record.
  That follows from `ExecutorOwnsRecord`, which says that until a heartbeat is late the
  record's remaining time and its owner's sleep add up to the TTL, and from
  `IdleHasNoHeartbeat`.
* **OnceOnlyProofs**, of the two stores in which something happens once and is told truly.
  HumanApproval: `TypeCorrect`, `SingleWinner`, `AnswersAreKept`, `NoEarlyExpiry`,
  `Finality`, `Refinement` (of ApprovalOutcome), for every `EarlyWake` and
  `SlowRecovery`. The strengthening is `InstantsReached`: an instant in somebody's hands
  is one the clock has reached. ToolActionJournal: `JournalTypeCorrect`, `CalledOnce`,
  `TruthfulOutcomes`, `NoConflict`, `JournalRefinement` (of AtMostOnceAction). The
  strengthening: a prepared action has one holder of the right to call (`OneHolder`),
  whose progress agrees with the effect (`HolderAgrees`).
* **WorkflowRunnerProofs**, on four invariants, each on top of the first or the second:
  * `IInv`, for every plan and any number of executors, overlapping or not, with every
    interruption: `TypeCorrect` and `CheckpointsAreDurable` (of DurableDag). What an
    executor holds for completed is committed with the hash it holds (`Known`), so the
    key it commits with is the one any committed checkpoint of the node has (`Sound`),
    and `commit_completed` never takes its new-revision branch on a committed node.
  * `AInv`, while executions do not overlap: `KeysAreTrue` (a checkpoint's key names the
    contents the node really read) and `DeliveryIsCommitted` (an execution reported
    completed has every node committed that it counts as completed, and their artifacts in
    place, those that governance nodes generate included). What an executor holds for
    completed is in place (`Placed`), so a node reads what its key says (`Based`), and
    what was hashed is still there when it is committed (`Fresh`).
  * `KInv`, until an execution ran with reuse switched off: `CommittedIsKept` (no node with
    a checkpoint is executed again, nor its artifact removed). Committed artifacts are in
    place between executions as well (`InPlace`), so what is committed is found again by
    the seed loop (`SeededSoFar`) and passed over by the scheduler (`Recalled`).
  * `GInv`, without overlap and with every interruption: `ReadyIsJudged`. Every validator
    and governance node is unseen, blocked, cut off, or has a verdict of its own
    (`Judged`), also from a checkpoint (`Recorded`); a verdict that passed is committed for
    what is in place (`PassedIsInPlace`); and a blocked node has something before it that
    failed or waits (`Excused`), which either keeps the execution from being completed or
    is a handler that was cut off or only warns.

  The hypotheses are behaviours, not conveniences. `~Overlap` is what the lease
  establishes while heartbeats are on time (`MutualExclusion`); with two executors an
  artifact can change between its hash and its commit. With reuse off a committed node
  does run again, which is why `CommittedWorkIsKept` ends where `forgot` begins. What
  `ReadyMeansJudged` excepts is what the code does deliver unjudged (known limits,
  section 3). `PlanAssumption` is what `schedule()` checks before it executes a node
  (`services/workflow_scheduler.py`): the order has every node, each after those it
  depends on.
* **TaskRunLifecycleProofs**: `TypeCorrect`, `ActiveWhileAtWork`, `LeaseExcludes`,
  `NobodyElseIsStranded`, `NoCompletionUnapproved`, `Refinement` (of
  ExclusiveExecution). The invariant adds that owners hold the lease
  (`OwnerHoldsLease`), that one execution at most is at work until one begins beside a
  rerun (`OneAtWork`: the mark keeps reruns out, the lease the others, and the mark
  survives because only one is at work), that a concluded thread has a verdict to write,
  that a queued run has an execution even while a handler is between two writes
  (`Served`, with the same two exceptions), and that "completed" in status, report or
  verdict comes from an approved approval.
* **ConversationQueueProofs**: `TypeCorrect`, `StatusIsTrue`, `NoTurnIsAbandoned`,
  `SessionsMoveOn`, `Refinement` (of ConversationTurns), for any number of posts. The
  strengthening: nothing older than a running run is queued (`ServedInOrder`), a job in
  the middle of its work holds a running or stopped run that is its alone
  (`JobsHoldRuns`), a number is used once and a job at work in a deleted conversation has
  lost its row (`Numbers`), and, while the store answers in a conversation that exists, a
  queue has a job and a running run has one that holds it (`Driven`).
* **TaskRunEventsProofs**: `TypeCorrect`, `Invariance`, `Refinement` (of EventFeed) and
  `RestoredStaysTold`, for any numbers of writers, streams, nodes, lines and torn writes.
  The strengthening for the feed: an event that can be read has the number of its line
  (`Numbered`), because an append counts the lines that cannot be decoded as well, and
  the keys of readable events differ (`OneEach`). For what is told: the events that are
  due and cannot be read number at most two per torn write, and two fewer while the log
  ends in a torn line, since the text that is appended to it loses that line's event and
  its own (`Covered`); an event is due once its node is in the projection, or once a
  recovery that will put it there has told it, and only recoveries hold such nodes
  (`Released`).
* **AgentRunCoordinatorProofs**: `UnitsOwned` (with the types), `NobodyForgotten`,
  `ExactQueue`, `ServedInOrder`, `WaitersWaitForSomebody`, for any runs, providers and
  limits. The invariant is the run's three together with "nobody is queued twice"
  (`CInv`): each of them needs the others, because the scan that wakes waiters counts on
  the queue and the units at once. The model sums and scans with folds of the library,
  which choose a function that satisfies their equations; `TotalIsCounted` shows that the
  sum is the number of units, and `ScanIsStepwise` that the scan of one waiter more is one
  step more, each by first showing that such a function exists.
* **TaskAttemptsProofs**: `Invariance`, `Refinement` (of VersionHistory),
  `RunsWhatWasSaved`, for any numbers of windows, edits, requests, versions and attempts.
  The strengthening: what a window takes for saved, or a request says, was true of the
  version at the revision it names (`WindowsOK`, `RequestsOK`), so a revision that matches
  means that nothing has changed; a canvas shows what its window has saved followed by the
  edits since, each once (`Continues`), and so does what it asked to save, until the
  window learns of a later revision (`Awaits`); and what an attempt has frozen is its
  version's graph or nothing that the runner accepts.

Every invariant and action property of a passing run, and every refinement one checks,
is stated by one of these theorems. Only model-checked is liveness
(`CrashedOwnerIsReplaced`, `LossEndsExecution`, `EveryWaitEnds`, `WaitingEnds`, both
`QueuedIsServed`, `DeliveredAtLast`): the prover handles neither fairness nor ENABLED.
The three violated properties are TLC's as well. Induction is used where it can be
stated about a set (the least element of a set of naturals, or of subsets of a finite
set); the library's theorems that take an operator as a parameter cannot be
instantiated, and no module with a theorem reaches a RECURSIVE operator. How a plan gets
its topological order (`WorkflowRunner` takes it as a constant) is not proved, only what
`schedule()` checks of it is assumed.

## 5. What is left out

* Data: prompts, agent output, hashes as bytes, contract validation, redaction, the
  wording of events. Where the code only compares such data, model values stand for it;
  the definition compiled from a graph is the graph.
* The legacy execution path and read-only deployments: V3 runs do not take the one, and
  nothing changes in the other.
* Malformed files other than the event log: leases, approvals, checkpoints, journal
  records, `workflow_execution.json` and the task record are replaced atomically (temporary
  file, replace). Most files of a preparation are written in place (`_write_json`);
  TaskAttempts has those that matter for what runs. An attempt whose first
  `task_run.json` is cut short is none: no listing shows it.
* Several approval nodes in one run: the store keeps them apart; the lifecycle models
  one. The deadlines of a whole execution appear as a report "timed_out" at any time.
  Whether a rerun plan is executable is a check of files, left to chance by `Rerun`.
* The cancellation of background tasks by a server shutdown: what it leaves is a
  "failed" run, as `Raise` does, or a crash.
* Two backend processes in the lifecycle: `_ACTIVE_TASK_RUN_IDS` is per process, so
  `WorkIsMarked` speaks of one; the lease's own module has any number.
* Conversations: the stream of deltas and its event rows, the input message of a run, and
  `mark_run_running`, which changes nothing that is modelled; two stop requests or two
  delete requests at once; a conversation made anew.
* Authoring: headers (status, archive, copies), built-in workflows, drafts of schema 2
  (written without a revision), requests for published versions (refused), trial runs,
  overrides, and the task record's own fields.
* Everything under "not modelled" in `PROJECT.json`, with its reason.
