------------------------------ MODULE TaskAttempts ------------------------------
(***************************************************************************)
(* A task and its attempts (workbench_v2_tasks.py, workbench_task_run.py): *)
(* the task is pinned to a published version, an attempt copies it, or its *)
(* parent's copy, into files of its own, and the runner executes what the  *)
(* files' snapshot authorizes.  An attempt is prepared in one piece, unless*)
(* the process dies between two of its writes.                             *)
(***************************************************************************)
EXTENDS WorkflowVersions

CONSTANT MaxAttempts  \* bound on the attempts

ASSUME AttemptsAssumption == MaxAttempts \in Nat

VARIABLES
    pin,        \* the version the task was created for, or 0
    attempts,   \* what the files of each attempt hold
    preparing   \* [attempt, next, content] of the attempt being prepared, or Idle

vars == <<authoring, pin, attempts, preparing>>

Idle == [next |-> "none"]

Content(d, p, n) == [definition |-> d, plan |-> p, version |-> n]

\* run: task_run.json; plan: compiled_plan.json (NoGraph: missing, empty or cut short, and
\* no retry reads it); frozen: the components run_snapshot_v3.json pins (none, if it is
\* missing or cut short); ran: the runner accepted it.
Attempt(d) == [run |-> Content(d, NoGraph, 0), plan |-> NoGraph, frozen |-> {}, ran |-> FALSE]

Init ==
    /\ AuthoringInit
    /\ pin = 0 /\ attempts = <<>> /\ preparing = Idle

\* create_task: of any published version.
CreateTask(n) ==
    /\ preparing = Idle /\ pin = 0
    /\ versions[n].state = "published"
    /\ pin' = n
    /\ UNCHANGED <<authoring, attempts, preparing>>

\* create_task_attempt and prepare, up to the write of task_run.json: a retry takes what
\* its parent's file holds, and no plan if the parent was never given one.
Prepare(parent) ==
    LET i == Len(attempts) + 1
        c == IF parent = 0
             THEN Content(versions[pin].graph, versions[pin].graph, pin)
             ELSE attempts[parent].run
    IN  /\ preparing = Idle /\ pin # 0 /\ i <= MaxAttempts
        /\ attempts' = Append(attempts, Attempt(c.definition))
        /\ preparing' = [next |-> "freeze", attempt |-> i, content |-> c]
        /\ UNCHANGED <<authoring, pin>>

Step(from, to) ==
    /\ preparing.next = from
    /\ preparing' = IF to = "none" THEN Idle ELSE [preparing EXCEPT !.next = to]
    /\ UNCHANGED <<authoring, pin>>

\* prepare's last write
Freeze ==
    /\ Step("freeze", "bundle")
    /\ attempts' = [attempts EXCEPT ![preparing.attempt].frozen = {"definition"}]

\* _write_run
WriteRun ==
    /\ Step("bundle", "plan")
    /\ attempts' = [attempts EXCEPT ![preparing.attempt].run = preparing.content]

\* refresh_run_snapshot_v3 writes the plan ...
WritePlan ==
    /\ Step("plan", "refreeze")
    /\ attempts' = [attempts EXCEPT ![preparing.attempt].plan = preparing.content.plan]

\* ... and pins it.
Refreeze ==
    /\ Step("refreeze", "none")
    /\ attempts' = [attempts EXCEPT ![preparing.attempt].frozen = {"definition", "plan"}]

\* The process dies.  The files stay as they are, but _write_json truncates the one it is
\* about to write: the plan, which was not there, or the snapshot.
Die ==
    /\ preparing # Idle
    /\ preparing' = Idle
    /\ \/ UNCHANGED attempts
       \/ /\ preparing.next = "refreeze"
          /\ attempts' = [attempts EXCEPT ![preparing.attempt].frozen = {}]
    /\ UNCHANGED <<authoring, pin>>

\* execute_task_run and load_frozen_v3_execution_authority: no part may be missing or
\* empty.
Execute(i) ==
    /\ preparing = Idle
    /\ attempts[i].frozen = {"definition", "plan"} /\ attempts[i].plan # NoGraph
    /\ attempts' = [attempts EXCEPT ![i].ran = TRUE]
    /\ UNCHANGED <<authoring, pin, preparing>>

Next ==
    \/ preparing = Idle /\ AuthoringNext /\ UNCHANGED <<pin, attempts, preparing>>
    \/ \E n \in DOMAIN versions : CreateTask(n)
    \/ \E parent \in 0..Len(attempts) : Prepare(parent)
    \/ Freeze \/ WriteRun \/ WritePlan \/ Refreeze \/ Die
    \/ \E i \in DOMAIN attempts : Execute(i)

Spec == Init /\ [][Next]_vars

--------------------------------------------------------------------------------
(***************************************************************************)
(* Whatever was edited, published, retried or cut short in between, an     *)
(* attempt that ran was given, definition and plan, the version its task   *)
(* was created for, and that version is the graph its publisher's window   *)
(* had saved, or was answered, as the revision it named: not what another  *)
(* window has made of the draft since.  (Edits still unsaved on the        *)
(* publisher's screen are not part of it.)                                 *)
(***************************************************************************)
ExecutesWhatWasSaved ==
    \A i \in DOMAIN attempts :
        LET a == attempts[i]
        IN  a.ran => /\ a.run = Content(saved[pin], saved[pin], pin)
                     /\ a.plan = saved[pin]
================================================================================
