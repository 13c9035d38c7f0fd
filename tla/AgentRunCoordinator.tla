-------------------------- MODULE AgentRunCoordinator --------------------------
(***************************************************************************)
(* The capacity of local Agent processes (agent_run_coordinator.py): runs  *)
(* of conversations take a slot, wait for one in arrival order, and may be *)
(* cancelled at every await.                                               *)
(*                                                                         *)
(* The critical sections under the asyncio lock contain no await, so each  *)
(* is one step.  Callbacks are awaited outside the lock; what they tell of *)
(* the place in the queue is left out, only that a waiter awaits its own   *)
(* first on_queued before it looks at its future is kept.                  *)
(***************************************************************************)
EXTENDS Naturals, Sequences, FiniteSets, SequencesExt, Functions

CONSTANTS
    Runs,        \* the runs that need an Agent process
    Providers,
    Provider,    \* the provider of each run
    MaxGlobal,   \* max_global_agent_processes
    Limit        \* provider_limits, max_processes_per_provider for the others

ASSUME CoordinatorAssumption ==
    /\ IsFiniteSet(Runs) /\ IsFiniteSet(Providers)
    /\ Provider \in [Runs -> Providers]
    /\ MaxGlobal \in Nat \ {0}
    /\ Limit \in [Providers -> Nat \ {0}]

VARIABLES
    active,    \* _active_by_provider
    waiters,   \* _waiters, in arrival order
    stage,     \* where each run is in slot()
    shown,     \* the position last computed for a waiter (last_queue_status), 0 for others
    announced  \* the waiters whose first on_queued was awaited

vars == <<active, waiters, stage, shown, announced>>

Stages == {"out", "queued", "granted", "holding"}

Total(act) == SumFunction(act)
CanStart(act, p) == Total(act) < MaxGlobal /\ act[p] < Limit[p]
Position(queue, r) == CHOOSE i \in DOMAIN queue : queue[i] = r

Init ==
    /\ active = [p \in Providers |-> 0]
    /\ waiters = <<>>
    /\ stage = [r \in Runs |-> "out"]
    /\ shown = [r \in Runs |-> 0]
    /\ announced = {}

\* slot(): nobody of its provider waits and there is room.
Start(r) ==
    /\ stage[r] = "out"
    /\ \A w \in ToSet(waiters) : Provider[w] # Provider[r]
    /\ CanStart(active, Provider[r])
    /\ active' = [active EXCEPT ![Provider[r]] = @ + 1]
    /\ stage' = [stage EXCEPT ![r] = "holding"]
    /\ UNCHANGED <<waiters, shown, announced>>

EnqueueFromZero(r) ==   \* slip: the position is that before the append
    /\ stage[r] = "out"
    /\ \/ \E w \in ToSet(waiters) : Provider[w] = Provider[r]
       \/ ~CanStart(active, Provider[r])
    /\ waiters' = Append(waiters, r)
    /\ stage' = [stage EXCEPT ![r] = "queued"]
    /\ shown' = [shown EXCEPT ![r] = Len(waiters)]
    /\ UNCHANGED <<active, announced>>

\* slot(): it is appended, and awaits on_queued with its position first.
Enqueue(r) ==
    /\ stage[r] = "out"
    /\ \/ \E w \in ToSet(waiters) : Provider[w] = Provider[r]
       \/ ~CanStart(active, Provider[r])
    /\ waiters' = Append(waiters, r)
    /\ stage' = [stage EXCEPT ![r] = "queued"]
    /\ shown' = [shown EXCEPT ![r] = Len(waiters')]
    /\ UNCHANGED <<active, announced>>

WakeFirst(act, queue) ==   \* slip: the scan stops at the first it cannot start
    IF queue # <<>> /\ CanStart(act, Provider[Head(queue)])
    THEN [active |-> [act EXCEPT ![Provider[Head(queue)]] = @ + 1],
          kept |-> Tail(queue)]
    ELSE [active |-> act, kept |-> queue]

WakeNewestFirst(act, queue) ==   \* slip: the scan runs from the other end
    LET Consider(s, r) ==
          IF CanStart(s.active, Provider[r])
          THEN [s EXCEPT !.active[Provider[r]] = @ + 1]
          ELSE [s EXCEPT !.kept = <<r>> \o @]
    IN FoldLeft(Consider, [active |-> act, kept |-> <<>>], Reverse(queue))

\* _wake_eligible_waiters: in arrival order, each that can start is granted.
Wake(act, queue) ==
    LET Consider(s, r) ==
          IF CanStart(s.active, Provider[r])
          THEN [s EXCEPT !.active[Provider[r]] = @ + 1]
          ELSE [s EXCEPT !.kept = Append(@, r)]
    IN FoldLeft(Consider, [active |-> act, kept |-> <<>>], queue)

\* What _release and _cancel_waiter end with, once the run gave up its unit.
WakeAndNotify(r, act, queue) ==
    LET woken == Wake(act, queue)
        granted == ToSet(queue) \ ToSet(woken.kept)
    IN /\ active' = woken.active
       /\ waiters' = woken.kept
       /\ stage' = [s \in Runs |-> CASE s = r -> "out"
                                     [] s \in granted -> "granted"
                                     [] OTHER -> stage[s]]
       /\ shown' = [s \in Runs |-> IF s \in ToSet(woken.kept)
                                   THEN Position(woken.kept, s) ELSE 0]
       /\ announced' = announced \ {r}

\* _deactivate
Deactivated(p) == [active EXCEPT ![p] = IF @ > 0 THEN @ - 1 ELSE 0]

\* The future is done and on_queued was awaited: the body of the slot runs.
Resume(r) ==
    /\ stage[r] = "granted" /\ r \in announced
    /\ stage' = [stage EXCEPT ![r] = "holding"]
    /\ UNCHANGED <<active, waiters, shown, announced>>

\* The body ended, raised or was cancelled.
Release(r) ==
    /\ stage[r] = "holding"
    /\ WakeAndNotify(r, Deactivated(Provider[r]), waiters)

CancelForgettingGrant(r) ==   \* slip: a granted waiter only leaves the queue
    \/ /\ stage[r] = "queued"
       /\ WakeAndNotify(r, active, RemoveAt(waiters, Position(waiters, r)))
    \/ stage[r] = "granted" /\ WakeAndNotify(r, active, waiters)

\* Cancelled, or its on_queued raised, before it resumed.
CancelWaiter(r) ==
    \/ /\ stage[r] = "queued"
       /\ WakeAndNotify(r, active, RemoveAt(waiters, Position(waiters, r)))
    \/ /\ stage[r] = "granted"
       /\ WakeAndNotify(r, Deactivated(Provider[r]), waiters)

\* Its first on_queued, awaited outside the lock, returns; it may be granted
\* or overtaken in the meantime.
Announce(r) ==
    /\ stage[r] \in {"queued", "granted"} /\ r \notin announced
    /\ announced' = announced \cup {r}
    /\ UNCHANGED <<active, waiters, stage, shown>>

Step(r) ==
    \/ Start(r) \/ Enqueue(r) \/ Resume(r) \/ Release(r) \/ CancelWaiter(r)
    \/ Announce(r)

Next == \E r \in Runs : Step(r)

Spec == Init /\ [][Next]_vars

\* Tasks that can go on do, and no Agent process runs for ever.
Fairness ==
    \A r \in Runs : WF_vars(Announce(r) \/ Resume(r) \/ Release(r))

FairSpec == Spec /\ Fairness

--------------------------------------------------------------------------------
TypeOK ==
    /\ active \in [Providers -> 0..MaxGlobal]
    /\ waiters \in Seq(Runs) /\ Len(waiters) <= Cardinality(Runs)
    /\ stage \in [Runs -> Stages]
    /\ shown \in [Runs -> 0..Cardinality(Runs)]
    /\ announced \in SUBSET Runs

Owners(p) == {r \in Runs : stage[r] \in {"granted", "holding"} /\ Provider[r] = p}

(***************************************************************************)
(* The state is well typed, and the units counted are those that runs own, *)
(* granted ones that have not resumed included: none leaks, none is given  *)
(* back twice, and the global and the provider limits bound the processes  *)
(* that really run (_cancel_waiter against _wake_eligible_waiters).        *)
(***************************************************************************)
UnitsAreOwned ==
    /\ TypeOK
    /\ \A p \in Providers : active[p] = Cardinality(Owners(p)) /\ active[p] <= Limit[p]
    /\ Total(active) <= MaxGlobal

(***************************************************************************)
(* Outside the critical sections nobody waits who could start: every       *)
(* release and every cancellation wakes all it makes room for.             *)
(***************************************************************************)
NoLostWakeup == \A w \in ToSet(waiters) : ~CanStart(active, Provider[w])

(***************************************************************************)
(* Exactly the queued runs are in the queue, once each, and the position   *)
(* last computed for each is its position, so no change goes unnoticed.    *)
(***************************************************************************)
QueueIsExact ==
    /\ ToSet(waiters) = {r \in Runs : stage[r] = "queued"}
    /\ Len(waiters) = Cardinality(ToSet(waiters))
    /\ \A i \in DOMAIN waiters : shown[waiters[i]] = i

(***************************************************************************)
(* Runs of one provider are granted their units in the order in which they *)
(* came.                                                                   *)
(***************************************************************************)
FirstComeFirstServed ==
    [][\A i \in DOMAIN waiters : \A r \in Runs :
          /\ waiters[i] \in ToSet(waiters') /\ Provider[r] = Provider[waiters[i]]
          /\ stage[r] \in {"out", "queued"} /\ stage'[r] \in {"granted", "holding"}
          => stage[r] = "queued" /\ Position(waiters, r) < i]_vars

\* A waiting run gets its slot, or gives up.
WaitingEnds == \A r \in Runs : stage[r] = "queued" ~> stage[r] \in {"holding", "out"}
================================================================================
