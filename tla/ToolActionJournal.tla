--------------------------- MODULE ToolActionJournal ---------------------------
(***************************************************************************)
(* The journal of Tool actions (tool_action_journal.py) as its two callers *)
(* use it: Tool nodes (_execute_v3_tool_node) and Tool requests of an      *)
(* Agent (harness_facade._dispatch_tool_request).  A caller asks the       *)
(* journal before it calls the Tool and records the outcome afterwards; it *)
(* may die or raise anywhere in between, and after a restart, or after a   *)
(* lost lease, another one asks for the same action again.                 *)
(*                                                                         *)
(* An action is its action_key: attempt, node, tool and frozen arguments.  *)
(***************************************************************************)
EXTENDS Naturals

CONSTANTS
    ToolCallers,  \* executions that reach a Tool call, in any process
    Actions,      \* action keys
    Outputs,      \* what a Tool may return
    Errors,       \* how it may fail
    Unrecorded,   \* no journal record
    Prepared      \* a record with status prepared

Outcomes == Outputs \cup Errors

ASSUME JournalAssumption ==
    /\ Outputs \cap Errors = {}
    /\ Unrecorded # Prepared
    /\ {Unrecorded, Prepared} \cap Outcomes = {}
    /\ {"none", "begun", "indeterminate", "raised"} \cap Outcomes = {}

VARIABLES
    journal,   \* the record of each action: Unrecorded, Prepared or its outcome
    effect,    \* what calling the Tool did: "none", "begun" or its outcome
    calls,     \* how often the Tool was called for each action
    pc,        \* "idle", "execute" (decided to call), "calling", "returned"
    action,    \* the action each caller is, or was last, concerned with
    told       \* the result it returned to its node or Agent

journalVars == <<journal, effect, calls, pc, action, told>>

JournalInit ==
    /\ journal = [a \in Actions |-> Unrecorded]
    /\ effect = [a \in Actions |-> "none"]
    /\ calls = [a \in Actions |-> 0]
    /\ pc = [c \in ToolCallers |-> "idle"]
    /\ action \in [ToolCallers -> Actions]
    /\ told = [c \in ToolCallers |-> "none"]

BeginReexecuting(c, a) ==   \* slip: a prepared record is taken for a free one
    /\ pc[c] = "idle" /\ journal[a] \in {Unrecorded, Prepared}
    /\ journal' = [journal EXCEPT ![a] = Prepared]
    /\ pc' = [pc EXCEPT ![c] = "execute"]
    /\ action' = [action EXCEPT ![c] = a]
    /\ told' = [told EXCEPT ![c] = "none"]
    /\ UNCHANGED <<effect, calls>>

\* begin finds no record and prepares one: the disposition is "execute".
Begin(c, a) ==
    /\ pc[c] = "idle" /\ journal[a] = Unrecorded
    /\ journal' = [journal EXCEPT ![a] = Prepared]
    /\ pc' = [pc EXCEPT ![c] = "execute"]
    /\ action' = [action EXCEPT ![c] = a]
    /\ told' = [told EXCEPT ![c] = "none"]
    /\ UNCHANGED <<effect, calls>>

\* begin finds a record: its outcome is the answer, or nobody knows.
Replay(c, a) ==
    /\ pc[c] = "idle" /\ journal[a] # Unrecorded
    /\ action' = [action EXCEPT ![c] = a]
    /\ told' = [told EXCEPT ![c] = IF journal[a] = Prepared
                                   THEN "indeterminate" ELSE journal[a]]
    /\ UNCHANGED <<journal, effect, calls, pc>>

\* tool_dispatcher.dispatch is called ...
Call(c) ==
    /\ pc[c] = "execute"
    /\ pc' = [pc EXCEPT ![c] = "calling"]
    /\ calls' = [calls EXCEPT ![action[c]] = @ + 1]
    /\ effect' = [effect EXCEPT ![action[c]] = "begun"]
    /\ UNCHANGED <<journal, action, told>>

\* ... and returns.
Return(c, outcome) ==
    /\ pc[c] = "calling"
    /\ pc' = [pc EXCEPT ![c] = "returned"]
    /\ effect' = [effect EXCEPT ![action[c]] = outcome]
    /\ UNCHANGED <<journal, calls, action, told>>

CommitAnything(c) ==   \* slip: the journal keeps an outcome of another call
    /\ pc[c] = "returned"
    /\ \E o \in Outcomes : /\ journal' = [journal EXCEPT ![action[c]] = o]
                           /\ told' = [told EXCEPT ![c] = o]
    /\ pc' = [pc EXCEPT ![c] = "idle"]
    /\ UNCHANGED <<effect, calls, action>>

CommitAndForget(c) ==   \* slip: the record is removed with the outcome
    /\ pc[c] = "returned"
    /\ told' = [told EXCEPT ![c] = effect[action[c]]]
    /\ journal' = [journal EXCEPT ![action[c]] = Unrecorded]
    /\ pc' = [pc EXCEPT ![c] = "idle"]
    /\ UNCHANGED <<effect, calls, action>>

\* complete or fail: a record that is no longer prepared is a conflict, which
\* the caller raises, unless it already says the same.
Commit(c) ==
    /\ pc[c] = "returned"
    /\ IF journal[action[c]] \in {Prepared, effect[action[c]]}
       THEN /\ journal' = [journal EXCEPT ![action[c]] = effect[action[c]]]
            /\ told' = [told EXCEPT ![c] = effect[action[c]]]
       ELSE /\ told' = [told EXCEPT ![c] = "raised"]
            /\ UNCHANGED journal
    /\ pc' = [pc EXCEPT ![c] = "idle"]
    /\ UNCHANGED <<effect, calls, action>>

\* The Tool raises, its output is no JSON, or the record cannot be written.
Raise(c) ==
    /\ pc[c] \in {"calling", "returned"}
    /\ pc' = [pc EXCEPT ![c] = "idle"]
    /\ told' = [told EXCEPT ![c] = "raised"]
    /\ UNCHANGED <<journal, effect, calls, action>>

CallerDies(c) ==
    /\ pc[c] # "idle"
    /\ pc' = [pc EXCEPT ![c] = "idle"]
    /\ told' = [told EXCEPT ![c] = "none"]
    /\ UNCHANGED <<journal, effect, calls, action>>

CallerStep(c) ==
    \/ \E a \in Actions : Begin(c, a) \/ Replay(c, a)
    \/ Call(c)
    \/ \E o \in Outcomes : Return(c, o)
    \/ Commit(c) \/ Raise(c) \/ CallerDies(c)

JournalNext == \E c \in ToolCallers : CallerStep(c)

JournalSpec == JournalInit /\ [][JournalNext]_journalVars

--------------------------------------------------------------------------------
JournalTypeOK ==
    /\ journal \in [Actions -> {Unrecorded, Prepared} \cup Outcomes]
    /\ effect \in [Actions -> {"none", "begun"} \cup Outcomes]
    /\ calls \in [Actions -> Nat]
    /\ pc \in [ToolCallers -> {"idle", "execute", "calling", "returned"}]
    /\ action \in [ToolCallers -> Actions]
    /\ told \in [ToolCallers -> {"none", "indeterminate", "raised"} \cup Outcomes]

(***************************************************************************)
(* No Tool is ever called twice for one action, whoever crashed, raised or *)
(* lost its lease ("a later process must escalate rather than run the Tool *)
(* a second time").                                                        *)
(***************************************************************************)
AtMostOneCall == \A a \in Actions : calls[a] <= 1

(***************************************************************************)
(* What is on record, and what any caller was told, is what the one call   *)
(* really produced; so no two callers ever got different outcomes.         *)
(***************************************************************************)
OutcomesAreTrue ==
    /\ \A a \in Actions : journal[a] \in Outcomes => journal[a] = effect[a]
    /\ \A c \in ToolCallers : told[c] \in Outcomes => told[c] = journal[action[c]]

(***************************************************************************)
(* A caller that was given the right to call the Tool can record what it   *)
(* returned: nobody else's outcome is in the way (ToolActionConflict).     *)
(***************************************************************************)
CommitMeetsNoConflict ==
    \A c \in ToolCallers : pc[c] # "idle" => journal[action[c]] = Prepared

\* The journal and its callers implement the at-most-once action.
AtMostOnce == INSTANCE AtMostOnceAction WITH Absent <- Unrecorded, recorded <- journal
ActionSpec == AtMostOnce!Spec
================================================================================
