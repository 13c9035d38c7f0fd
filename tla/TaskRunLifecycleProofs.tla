------------------------ MODULE TaskRunLifecycleProofs ------------------------
(***************************************************************************)
(* Theorems about the life of a task run, for any number of background     *)
(* executions, crashes and raising stores.                                 *)
(***************************************************************************)
EXTENDS TaskRunLifecycle, TLAPS

\* A worker thread that has concluded has a verdict to write as the status.
VerdictGiven ==
    \A b \in Backgrounds : stage[b] \in {"reported", "marked"} => verdict[b] \in Verdicts

\* Whoever has begun and not ended, and is no rerun, holds the lease.
OwnerHoldsLease == \A b \in Owner : lease = b

\* Until an execution begins beside a rerun, one at most is at work.
OneAtWork == ~overlapped => \A b, c \in AtWork : b = c

\* A queued or running run has an execution, begun or to begin, but for the
\* approval that was resolved without one and the store that raised.
Served == up /\ status \in {"queued", "running"} => Alive \/ Excused

\* "completed" is written by the thread that saw the approval approved, and
\* copied from its report or verdict.
CompletionIsApproved ==
    \/ status = "completed" \/ report = "completed"
    \/ \E b \in Backgrounds : verdict[b] = "completed"
  => approval = "approved"

(***************************************************************************)
(* The inductive invariant: none of its parts is inductive without the     *)
(* types and VerdictGiven, since Mark and Return copy the verdict.  That    *)
(* one is at work needs the mark for reruns and the lease for the others,   *)
(* and the mark survives because only one is at work.                       *)
(***************************************************************************)
LifecycleInv ==
    /\ TypeOK /\ VerdictGiven /\ OwnerHoldsLease /\ OneAtWork /\ WorkIsMarked
    /\ Served /\ CompletionIsApproved

LEMMA InitTyped == Init => TypeOK
<1> SUFFICES ASSUME Init PROVE TypeOK
  OBVIOUS
<1>1. /\ due \in BOOLEAN /\ active \in BOOLEAN
      /\ monitor \in BOOLEAN /\ up \in BOOLEAN /\ dropped \in BOOLEAN
  BY DEF Init
<1> QED
  BY <1>1 DEF Init, TypeOK, Verdicts, Stages

LEMMA TypeStep ==
  ASSUME TypeOK, VerdictGiven, [Next]_vars
  PROVE  TypeOK'
<1> USE LifecycleAssumption DEF TypeOK, Verdicts, Terminal, Stages, Public
<1>1. ASSUME NEW b \in Backgrounds, Execute(b) PROVE TypeOK'
  BY <1>1 DEF Execute, Idle, Create, wait, host, rerun
<1>2. ASSUME NEW b \in Backgrounds, Begin(b) PROVE TypeOK'
  <2>1. /\ lease' \in Backgrounds \cup {Nobody, Dead}
        /\ stage' \in [Backgrounds -> Stages]
    BY <1>2 DEF Begin
  <2>2. active' \in BOOLEAN
    BY <1>2 DEF Begin
  <2> QED
    BY <1>2, <2>1, <2>2 DEF Begin, wait, host, rerun
<1>3. ASSUME NEW b \in Backgrounds, Contend(b) PROVE TypeOK'
  BY <1>3 DEF Contend, Idle, wait, host, rerun
<1>4. ASSUME NEW b \in Backgrounds, Preflight(b) PROVE TypeOK'
  <2>1. /\ reruns' \subseteq Backgrounds /\ overlapped' \in BOOLEAN
        /\ active' \in BOOLEAN
    BY <1>4 DEF Preflight, End, rerun
  <2>2. /\ stage' \in [Backgrounds -> Stages]
        /\ verdict' \in [Backgrounds -> Verdicts \cup {"none"}]
    BY <1>4 DEF Preflight, End
  <2> QED
    BY <1>4, <2>1, <2>2 DEF Preflight, End, wait, host
<1>5. ASSUME NEW b \in Backgrounds, PreflightBlocked(b) PROVE TypeOK'
  BY <1>5 DEF PreflightBlocked, Idle, End, wait, host, rerun
<1>6. ASSUME NEW b \in Backgrounds, Ask(b) PROVE TypeOK'
  BY <1>6 DEF Ask, host, rerun
<1>7. ASSUME NEW b \in Backgrounds, ReportWaiting(b) PROVE TypeOK'
  BY <1>7 DEF ReportWaiting, Conclude, wait, host, rerun
<1>8. ASSUME NEW b \in Backgrounds, Report(b) PROVE TypeOK'
  <2>1. PICK v \in Verdicts : Conclude(b, v)
    BY <1>8 DEF Report
  <2> QED
    BY <2>1 DEF Conclude, wait, host, rerun
<1>9. ASSUME NEW b \in Backgrounds, Mark(b) PROVE TypeOK'
  <2>1. verdict[b] \in Verdicts
    BY <1>9 DEF Mark, VerdictGiven
  <2> QED
    BY <1>9, <2>1 DEF Mark, wait, host, rerun
<1>10. ASSUME NEW b \in Backgrounds, Return(b) PROVE TypeOK'
  <2>1. verdict[b] \in Verdicts
    BY <1>10 DEF Return, VerdictGiven
  <2>2. monitor' \in BOOLEAN
    BY <1>10 DEF Return
  <2>3. reruns' \subseteq Backgrounds /\ overlapped' \in BOOLEAN /\ active' \in BOOLEAN
    BY <1>10 DEF Return, End
  <2> QED
    BY <1>10, <2>1, <2>2, <2>3 DEF Return, End, host
<1>11. ASSUME NEW b \in Backgrounds, Raise(b) PROVE TypeOK'
  <2>1. active' \in BOOLEAN
    BY <1>11, Zenon DEF Raise, End
  <2> QED
    BY <1>11, <2>1 DEF Raise, End, wait, host
<1>12. ASSUME NEW b \in Backgrounds, Resume(b) PROVE TypeOK'
  <2>1. dropped' \in BOOLEAN
    BY <1>12, Zenon DEF Resume, Create
  <2> QED
    BY <1>12, <2>1 DEF Resume, Create, wait, rerun
<1>13. ASSUME NEW answer \in {"approved", "rejected"}, Decide(answer) PROVE TypeOK'
  <2>1. /\ monitor' \in BOOLEAN
        /\ approval' \in {"none", "pending", "approved", "rejected", "expired", "cancelled"}
    BY <1>13 DEF Decide
  <2> QED
    BY <1>13, <2>1 DEF Decide, work, host, rerun
<1>14. CASE Cancel
  BY <1>14 DEF Cancel, Idle, wait, work, host, rerun
<1>15. CASE CancelWait
  BY <1>15 DEF CancelWait, Idle, work, host, rerun
<1>16. CASE FinishCancel
  BY <1>16 DEF FinishCancel, wait, work, host, rerun
<1>17. CASE Expire
  BY <1>17 DEF Expire, Idle, work, host, rerun
<1>18. CASE FinishExpire
  BY <1>18 DEF FinishExpire, wait, work, host, rerun
<1>19. CASE Read
  BY <1>19 DEF Read, Idle, wait, work, host, rerun
<1>20. CASE DeadlinePasses
  BY <1>20 DEF DeadlinePasses, work, host, rerun
<1>21. CASE LeaseRunsOut
  BY <1>21 DEF LeaseRunsOut, wait, host, rerun
<1>22. CASE Crash
  <2>1. /\ up' \in BOOLEAN /\ active' \in BOOLEAN /\ monitor' \in BOOLEAN
        /\ due' \in BOOLEAN /\ dropped' \in BOOLEAN
    BY <1>22 DEF Crash
  <2>2. lease' \in Backgrounds \cup {Nobody, Dead}
    BY <1>22 DEF Crash
  <2>3. /\ stage' \in [Backgrounds -> Stages]
        /\ verdict' \in [Backgrounds -> Verdicts \cup {"none"}]
    BY <1>22 DEF Crash
  <2> QED
    BY <1>22, <2>1, <2>2, <2>3 DEF Crash
<1>23. CASE Recover
  <2>1. /\ up' \in BOOLEAN /\ active' \in BOOLEAN /\ monitor' \in BOOLEAN
        /\ due' \in BOOLEAN /\ dropped' \in BOOLEAN
    BY <1>23, Zenon
    DEF Recover, RecoverCancelled, RecoverExpired, RecoverWaiting, Schedule, Create, rerun
  <2>2. stage' \in [Backgrounds -> Stages]
    BY <1>23
    DEF Recover, RecoverCancelled, RecoverExpired, RecoverWaiting, Schedule, Create, rerun
  <2>3. /\ status' \in Verdicts \cup {"prepared", "queued", "running", "error"}
        /\ approval' \in {"none", "pending", "approved", "rejected", "expired", "cancelled"}
    BY <1>23 DEF Recover, RecoverCancelled, RecoverExpired, RecoverWaiting, Schedule, rerun
  <2> QED
    BY <1>23, <2>1, <2>2, <2>3 DEF Recover, rerun
<1>24. CASE UNCHANGED vars
  BY <1>24 DEF vars
<1>25. ASSUME NEW b \in Backgrounds, Rerun(b) PROVE TypeOK'
  BY <1>25 DEF Rerun, Idle, wait, host
<1>26. ASSUME NEW b \in Backgrounds, ReturnRerun(b) PROVE TypeOK'
  <2>1. verdict[b] \in Verdicts
    BY <1>26 DEF ReturnRerun, VerdictGiven
  <2>2. reruns' \subseteq Backgrounds /\ overlapped' \in BOOLEAN /\ active' \in BOOLEAN
    BY <1>26 DEF ReturnRerun, End
  <2> QED
    BY <1>26, <2>1, <2>2 DEF ReturnRerun, Legacy, End, wait, host
<1>27. CASE QueueOnly
  BY <1>27 DEF QueueOnly, Idle, work, wait, rerun
<1>28. ASSUME NEW b \in Backgrounds, BeginRaises(b) PROVE TypeOK'
  BY <1>28 DEF BeginRaises, Idle, wait, rerun
<1>29. ASSUME NEW b \in Backgrounds, GiveUp(b) PROVE TypeOK'
  <2>1. active' \in BOOLEAN /\ dropped' \in BOOLEAN
    BY <1>29, Zenon DEF GiveUp, End
  <2> QED
    BY <1>29, <2>1 DEF GiveUp, End, wait
<1>30. CASE HandlerRaises
  BY <1>30 DEF HandlerRaises, work, wait
<1>31. CASE MarkCancelled
  BY <1>31 DEF MarkCancelled, work, host
<1>32. CASE RecoveryRaises
  BY <1>32 DEF RecoveryRaises, work, wait, host
<1> QED
  BY <1>1, <1>2, <1>3, <1>4, <1>5, <1>6, <1>7, <1>8, <1>9, <1>10, <1>11, <1>12, <1>13, <1>14, <1>15, <1>16, <1>17, <1>18, <1>19, <1>20, <1>21, <1>22, <1>23, <1>24,
    <1>25, <1>26, <1>27, <1>28, <1>29, <1>30, <1>31, <1>32 DEF Next

LEMMA VerdictStep ==
  ASSUME LifecycleInv, [Next]_vars
  PROVE  VerdictGiven'
<1> USE LifecycleAssumption DEF LifecycleInv, TypeOK, VerdictGiven, Verdicts, Stages
<1>1. ASSUME NEW b \in Backgrounds, Execute(b) PROVE VerdictGiven'
  BY <1>1 DEF Execute, Idle, Create, wait, host, rerun
<1>2. ASSUME NEW b \in Backgrounds, Begin(b) PROVE VerdictGiven'
  BY <1>2 DEF Begin, Idle, wait, host, rerun
<1>3. ASSUME NEW b \in Backgrounds, Contend(b) PROVE VerdictGiven'
  BY <1>3 DEF Contend, Idle, wait, host, rerun
<1>4. ASSUME NEW b \in Backgrounds, Preflight(b) PROVE VerdictGiven'
  BY <1>4 DEF Preflight, Idle, End, wait, host, rerun
<1>5. ASSUME NEW b \in Backgrounds, PreflightBlocked(b) PROVE VerdictGiven'
  BY <1>5 DEF PreflightBlocked, Idle, End, wait, host, rerun
<1>6. ASSUME NEW b \in Backgrounds, Ask(b) PROVE VerdictGiven'
  BY <1>6 DEF Ask, host, rerun
<1>7. ASSUME NEW b \in Backgrounds, ReportWaiting(b) PROVE VerdictGiven'
  BY <1>7 DEF ReportWaiting, Conclude, wait, host, rerun
<1>8. ASSUME NEW b \in Backgrounds, Report(b) PROVE VerdictGiven'
  BY <1>8 DEF Report, Conclude, wait, host, rerun
<1>9. ASSUME NEW b \in Backgrounds, Mark(b) PROVE VerdictGiven'
  BY <1>9 DEF Mark, wait, host, rerun
<1>10. ASSUME NEW b \in Backgrounds, Return(b) PROVE VerdictGiven'
  BY <1>10 DEF Return, Idle, End, host, rerun
<1>11. ASSUME NEW b \in Backgrounds, Raise(b) PROVE VerdictGiven'
  BY <1>11 DEF Raise, Idle, End, Owning, wait, host, rerun
<1>12. ASSUME NEW b \in Backgrounds, Resume(b) PROVE VerdictGiven'
  BY <1>12 DEF Resume, Create, wait, host, rerun
<1>13. ASSUME NEW answer \in {"approved", "rejected"}, Decide(answer) PROVE VerdictGiven'
  BY <1>13 DEF Decide, Idle, work, host, rerun
<1>14. CASE Cancel
  BY <1>14 DEF Cancel, Idle, wait, work, host, rerun
<1>15. CASE CancelWait
  BY <1>15 DEF CancelWait, Idle, work, host, rerun
<1>16. CASE FinishCancel
  BY <1>16 DEF FinishCancel, wait, work, host, rerun
<1>17. CASE Expire
  BY <1>17 DEF Expire, Idle, work, host, rerun
<1>18. CASE FinishExpire
  BY <1>18 DEF FinishExpire, wait, work, host, rerun
<1>19. CASE Read
  BY <1>19 DEF Read, Idle, wait, work, host, rerun
<1>20. CASE DeadlinePasses
  BY <1>20 DEF DeadlinePasses, work, host, rerun
<1>21. CASE LeaseRunsOut
  BY <1>21 DEF LeaseRunsOut, wait, host, rerun
<1>22. CASE Crash
  BY <1>22 DEF Crash
<1>23. CASE Recover
  BY <1>23 DEF Recover, RecoverCancelled, RecoverExpired, RecoverWaiting, Schedule, Create, rerun
<1>24. CASE UNCHANGED vars
  BY <1>24 DEF vars
<1>25. ASSUME NEW b \in Backgrounds, Rerun(b) PROVE VerdictGiven'
  BY <1>25 DEF Rerun, Idle, wait, host
<1>26. ASSUME NEW b \in Backgrounds, ReturnRerun(b) PROVE VerdictGiven'
  BY <1>26 DEF ReturnRerun, Legacy, Idle, End, wait, host
<1>27. CASE QueueOnly
  BY <1>27 DEF QueueOnly, Idle, work, wait, rerun
<1>28. ASSUME NEW b \in Backgrounds, BeginRaises(b) PROVE VerdictGiven'
  BY <1>28 DEF BeginRaises, Idle, wait, rerun
<1>29. ASSUME NEW b \in Backgrounds, GiveUp(b) PROVE VerdictGiven'
  BY <1>29 DEF GiveUp, Idle, End, Owning, wait
<1>30. CASE HandlerRaises
  BY <1>30 DEF HandlerRaises, work, wait
<1>31. CASE MarkCancelled
  BY <1>31 DEF MarkCancelled, work, host
<1>32. CASE RecoveryRaises
  BY <1>32 DEF RecoveryRaises, work, wait, host
<1> QED
  BY <1>1, <1>2, <1>3, <1>4, <1>5, <1>6, <1>7, <1>8, <1>9, <1>10, <1>11, <1>12, <1>13, <1>14, <1>15, <1>16, <1>17, <1>18, <1>19, <1>20, <1>21, <1>22, <1>23, <1>24,
    <1>25, <1>26, <1>27, <1>28, <1>29, <1>30, <1>31, <1>32 DEF Next

LEMMA LeaseStep ==
  ASSUME LifecycleInv, [Next]_vars
  PROVE  OwnerHoldsLease'
<1> USE LifecycleAssumption DEF LifecycleInv, TypeOK, OwnerHoldsLease, AtWork, Owner, Owning
<1>1. ASSUME NEW b \in Backgrounds, Execute(b) PROVE OwnerHoldsLease'
  BY <1>1 DEF Execute, Idle, Create, wait, host, rerun
<1>2. ASSUME NEW b \in Backgrounds, Begin(b) PROVE OwnerHoldsLease'
  BY <1>2 DEF Begin, Idle, wait, host, rerun
<1>3. ASSUME NEW b \in Backgrounds, Contend(b) PROVE OwnerHoldsLease'
  BY <1>3 DEF Contend, Idle, wait, host, rerun
<1>4. ASSUME NEW b \in Backgrounds, Preflight(b) PROVE OwnerHoldsLease'
  BY <1>4 DEF Preflight, Idle, End, wait, host, rerun
<1>5. ASSUME NEW b \in Backgrounds, PreflightBlocked(b) PROVE OwnerHoldsLease'
  BY <1>5 DEF PreflightBlocked, Idle, End, wait, host, rerun
<1>6. ASSUME NEW b \in Backgrounds, Ask(b) PROVE OwnerHoldsLease'
  BY <1>6 DEF Ask, host, rerun
<1>7. ASSUME NEW b \in Backgrounds, ReportWaiting(b) PROVE OwnerHoldsLease'
  BY <1>7 DEF ReportWaiting, Conclude, wait, host, rerun
<1>8. ASSUME NEW b \in Backgrounds, Report(b) PROVE OwnerHoldsLease'
  BY <1>8 DEF Report, Conclude, wait, host, rerun
<1>9. ASSUME NEW b \in Backgrounds, Mark(b) PROVE OwnerHoldsLease'
  BY <1>9 DEF Mark, wait, host, rerun
<1>10. ASSUME NEW b \in Backgrounds, Return(b) PROVE OwnerHoldsLease'
  BY <1>10 DEF Return, Idle, End, host, rerun
<1>11. ASSUME NEW b \in Backgrounds, Raise(b) PROVE OwnerHoldsLease'
  BY <1>11 DEF Raise, Idle, End, Owning, wait, host, rerun
<1>12. ASSUME NEW b \in Backgrounds, Resume(b) PROVE OwnerHoldsLease'
  BY <1>12 DEF Resume, Create, wait, host, rerun
<1>13. ASSUME NEW answer \in {"approved", "rejected"}, Decide(answer) PROVE OwnerHoldsLease'
  BY <1>13 DEF Decide, Idle, work, host, rerun
<1>14. CASE Cancel
  BY <1>14 DEF Cancel, Idle, wait, work, host, rerun
<1>15. CASE CancelWait
  BY <1>15 DEF CancelWait, Idle, work, host, rerun
<1>16. CASE FinishCancel
  BY <1>16 DEF FinishCancel, wait, work, host, rerun
<1>17. CASE Expire
  BY <1>17 DEF Expire, Idle, work, host, rerun
<1>18. CASE FinishExpire
  BY <1>18 DEF FinishExpire, wait, work, host, rerun
<1>19. CASE Read
  BY <1>19 DEF Read, Idle, wait, work, host, rerun
<1>20. CASE DeadlinePasses
  BY <1>20 DEF DeadlinePasses, work, host, rerun
<1>21. CASE LeaseRunsOut
  BY <1>21 DEF LeaseRunsOut, wait, host, rerun
<1>22. CASE Crash
  BY <1>22 DEF Crash
<1>23. CASE Recover
  BY <1>23 DEF Recover, RecoverCancelled, RecoverExpired, RecoverWaiting, Schedule, Create, rerun
<1>24. CASE UNCHANGED vars
  BY <1>24 DEF vars
<1>25. ASSUME NEW b \in Backgrounds, Rerun(b) PROVE OwnerHoldsLease'
  BY <1>25 DEF Rerun, Idle, wait, host
<1>26. ASSUME NEW b \in Backgrounds, ReturnRerun(b) PROVE OwnerHoldsLease'
  BY <1>26 DEF ReturnRerun, Legacy, Idle, End, wait, host
<1>27. CASE QueueOnly
  BY <1>27 DEF QueueOnly, Idle, work, wait, rerun
<1>28. ASSUME NEW b \in Backgrounds, BeginRaises(b) PROVE OwnerHoldsLease'
  BY <1>28 DEF BeginRaises, Idle, wait, rerun
<1>29. ASSUME NEW b \in Backgrounds, GiveUp(b) PROVE OwnerHoldsLease'
  BY <1>29 DEF GiveUp, Idle, End, Owning, wait
<1>30. CASE HandlerRaises
  BY <1>30 DEF HandlerRaises, work, wait
<1>31. CASE MarkCancelled
  BY <1>31 DEF MarkCancelled, work, host
<1>32. CASE RecoveryRaises
  BY <1>32 DEF RecoveryRaises, work, wait, host
<1> QED
  BY <1>1, <1>2, <1>3, <1>4, <1>5, <1>6, <1>7, <1>8, <1>9, <1>10, <1>11, <1>12, <1>13, <1>14, <1>15, <1>16, <1>17, <1>18, <1>19, <1>20, <1>21, <1>22, <1>23, <1>24,
    <1>25, <1>26, <1>27, <1>28, <1>29, <1>30, <1>31, <1>32 DEF Next

LEMMA ActiveStep ==
  ASSUME LifecycleInv, [Next]_vars
  PROVE  WorkIsMarked'
<1> USE LifecycleAssumption DEF LifecycleInv, TypeOK, OwnerHoldsLease, OneAtWork, WorkIsMarked,
       AtWork, Owner, Owning
<1>1. ASSUME NEW b \in Backgrounds, Execute(b) PROVE WorkIsMarked'
  BY <1>1 DEF Execute, Idle, Create, wait, host, rerun
<1>2. ASSUME NEW b \in Backgrounds, Begin(b) PROVE WorkIsMarked'
  BY <1>2 DEF Begin, Idle, wait, host, rerun
<1>3. ASSUME NEW b \in Backgrounds, Contend(b) PROVE WorkIsMarked'
  BY <1>3 DEF Contend, Idle, wait, host, rerun
<1>4. ASSUME NEW b \in Backgrounds, Preflight(b) PROVE WorkIsMarked'
  BY <1>4 DEF Preflight, Idle, End, wait, host, rerun
<1>5. ASSUME NEW b \in Backgrounds, PreflightBlocked(b) PROVE WorkIsMarked'
  BY <1>5 DEF PreflightBlocked, Idle, End, wait, host, rerun
<1>6. ASSUME NEW b \in Backgrounds, Ask(b) PROVE WorkIsMarked'
  BY <1>6 DEF Ask, host, rerun
<1>7. ASSUME NEW b \in Backgrounds, ReportWaiting(b) PROVE WorkIsMarked'
  BY <1>7 DEF ReportWaiting, Conclude, wait, host, rerun
<1>8. ASSUME NEW b \in Backgrounds, Report(b) PROVE WorkIsMarked'
  <2>1. PICK v \in Verdicts : Conclude(b, v)
    BY <1>8 DEF Report, Verdicts
  <2>2. AtWork' \subseteq AtWork
    BY <1>8, <2>1 DEF Report, Conclude, rerun
  <2> QED
    BY <2>1, <2>2 DEF Conclude, rerun
<1>9. ASSUME NEW b \in Backgrounds, Mark(b) PROVE WorkIsMarked'
  BY <1>9 DEF Mark, wait, host, rerun
<1>10. ASSUME NEW b \in Backgrounds, Return(b) PROVE WorkIsMarked'
  BY <1>10 DEF Return, Idle, End, host, rerun
<1>11. ASSUME NEW b \in Backgrounds, Raise(b) PROVE WorkIsMarked'
  BY <1>11 DEF Raise, Idle, End, Owning, wait, host, rerun
<1>12. ASSUME NEW b \in Backgrounds, Resume(b) PROVE WorkIsMarked'
  BY <1>12 DEF Resume, Create, wait, host, rerun
<1>13. ASSUME NEW answer \in {"approved", "rejected"}, Decide(answer) PROVE WorkIsMarked'
  BY <1>13 DEF Decide, Idle, work, host, rerun
<1>14. CASE Cancel
  BY <1>14 DEF Cancel, Idle, wait, work, host, rerun
<1>15. CASE CancelWait
  BY <1>15 DEF CancelWait, Idle, work, host, rerun
<1>16. CASE FinishCancel
  BY <1>16 DEF FinishCancel, wait, work, host, rerun
<1>17. CASE Expire
  BY <1>17 DEF Expire, Idle, work, host, rerun
<1>18. CASE FinishExpire
  BY <1>18 DEF FinishExpire, wait, work, host, rerun
<1>19. CASE Read
  BY <1>19 DEF Read, Idle, wait, work, host, rerun
<1>20. CASE DeadlinePasses
  BY <1>20 DEF DeadlinePasses, work, host, rerun
<1>21. CASE LeaseRunsOut
  BY <1>21 DEF LeaseRunsOut, wait, host, rerun
<1>22. CASE Crash
  BY <1>22 DEF Crash
<1>23. CASE Recover
  BY <1>23 DEF Recover, RecoverCancelled, RecoverExpired, RecoverWaiting, Schedule, Create, rerun
<1>24. CASE UNCHANGED vars
  BY <1>24 DEF vars
<1>25. ASSUME NEW b \in Backgrounds, Rerun(b) PROVE WorkIsMarked'
  BY <1>25 DEF Rerun, Idle, wait, host
<1>26. ASSUME NEW b \in Backgrounds, ReturnRerun(b) PROVE WorkIsMarked'
  BY <1>26 DEF ReturnRerun, Legacy, Idle, End, wait, host
<1>27. CASE QueueOnly
  BY <1>27 DEF QueueOnly, Idle, work, wait, rerun
<1>28. ASSUME NEW b \in Backgrounds, BeginRaises(b) PROVE WorkIsMarked'
  BY <1>28 DEF BeginRaises, Idle, wait, rerun
<1>29. ASSUME NEW b \in Backgrounds, GiveUp(b) PROVE WorkIsMarked'
  BY <1>29 DEF GiveUp, Idle, End, Owning, wait
<1>30. CASE HandlerRaises
  BY <1>30 DEF HandlerRaises, work, wait
<1>31. CASE MarkCancelled
  BY <1>31 DEF MarkCancelled, work, host
<1>32. CASE RecoveryRaises
  BY <1>32 DEF RecoveryRaises, work, wait, host
<1> QED
  BY <1>1, <1>2, <1>3, <1>4, <1>5, <1>6, <1>7, <1>8, <1>9, <1>10, <1>11, <1>12, <1>13, <1>14, <1>15, <1>16, <1>17, <1>18, <1>19, <1>20, <1>21, <1>22, <1>23, <1>24,
    <1>25, <1>26, <1>27, <1>28, <1>29, <1>30, <1>31, <1>32 DEF Next

LEMMA OneStep ==
  ASSUME LifecycleInv, [Next]_vars
  PROVE  OneAtWork'
<1> USE LifecycleAssumption DEF LifecycleInv, TypeOK, OwnerHoldsLease, OneAtWork, WorkIsMarked,
       AtWork, Owner, Owning
<1>1. ASSUME NEW b \in Backgrounds, Execute(b) PROVE OneAtWork'
  BY <1>1 DEF Execute, Idle, Create, wait, host, rerun
<1>2. ASSUME NEW b \in Backgrounds, Begin(b) PROVE OneAtWork'
  BY <1>2 DEF Begin, Idle, wait, host, rerun
<1>3. ASSUME NEW b \in Backgrounds, Contend(b) PROVE OneAtWork'
  BY <1>3 DEF Contend, Idle, wait, host, rerun
<1>4. ASSUME NEW b \in Backgrounds, Preflight(b) PROVE OneAtWork'
  BY <1>4 DEF Preflight, Idle, End, wait, host, rerun
<1>5. ASSUME NEW b \in Backgrounds, PreflightBlocked(b) PROVE OneAtWork'
  BY <1>5 DEF PreflightBlocked, Idle, End, wait, host, rerun
<1>6. ASSUME NEW b \in Backgrounds, Ask(b) PROVE OneAtWork'
  BY <1>6 DEF Ask, host, rerun
<1>7. ASSUME NEW b \in Backgrounds, ReportWaiting(b) PROVE OneAtWork'
  BY <1>7 DEF ReportWaiting, Conclude, wait, host, rerun
<1>8. ASSUME NEW b \in Backgrounds, Report(b) PROVE OneAtWork'
  <2>1. PICK v \in Verdicts : Conclude(b, v)
    BY <1>8 DEF Report, Verdicts
  <2>2. AtWork' \subseteq AtWork
    BY <1>8, <2>1 DEF Report, Conclude, rerun
  <2> QED
    BY <2>1, <2>2 DEF Conclude, rerun
<1>9. ASSUME NEW b \in Backgrounds, Mark(b) PROVE OneAtWork'
  BY <1>9 DEF Mark, wait, host, rerun
<1>10. ASSUME NEW b \in Backgrounds, Return(b) PROVE OneAtWork'
  BY <1>10 DEF Return, Idle, End, host, rerun
<1>11. ASSUME NEW b \in Backgrounds, Raise(b) PROVE OneAtWork'
  BY <1>11 DEF Raise, Idle, End, Owning, wait, host, rerun
<1>12. ASSUME NEW b \in Backgrounds, Resume(b) PROVE OneAtWork'
  BY <1>12 DEF Resume, Create, wait, host, rerun
<1>13. ASSUME NEW answer \in {"approved", "rejected"}, Decide(answer) PROVE OneAtWork'
  BY <1>13 DEF Decide, Idle, work, host, rerun
<1>14. CASE Cancel
  BY <1>14 DEF Cancel, Idle, wait, work, host, rerun
<1>15. CASE CancelWait
  BY <1>15 DEF CancelWait, Idle, work, host, rerun
<1>16. CASE FinishCancel
  BY <1>16 DEF FinishCancel, wait, work, host, rerun
<1>17. CASE Expire
  BY <1>17 DEF Expire, Idle, work, host, rerun
<1>18. CASE FinishExpire
  BY <1>18 DEF FinishExpire, wait, work, host, rerun
<1>19. CASE Read
  BY <1>19 DEF Read, Idle, wait, work, host, rerun
<1>20. CASE DeadlinePasses
  BY <1>20 DEF DeadlinePasses, work, host, rerun
<1>21. CASE LeaseRunsOut
  BY <1>21 DEF LeaseRunsOut, wait, host, rerun
<1>22. CASE Crash
  BY <1>22 DEF Crash
<1>23. CASE Recover
  BY <1>23 DEF Recover, RecoverCancelled, RecoverExpired, RecoverWaiting, Schedule, Create, rerun
<1>24. CASE UNCHANGED vars
  BY <1>24 DEF vars
<1>25. ASSUME NEW b \in Backgrounds, Rerun(b) PROVE OneAtWork'
  BY <1>25 DEF Rerun, Idle, wait, host
<1>26. ASSUME NEW b \in Backgrounds, ReturnRerun(b) PROVE OneAtWork'
  BY <1>26 DEF ReturnRerun, Legacy, Idle, End, wait, host
<1>27. CASE QueueOnly
  BY <1>27 DEF QueueOnly, Idle, work, wait, rerun
<1>28. ASSUME NEW b \in Backgrounds, BeginRaises(b) PROVE OneAtWork'
  BY <1>28 DEF BeginRaises, Idle, wait, rerun
<1>29. ASSUME NEW b \in Backgrounds, GiveUp(b) PROVE OneAtWork'
  BY <1>29 DEF GiveUp, Idle, End, Owning, wait
<1>30. CASE HandlerRaises
  BY <1>30 DEF HandlerRaises, work, wait
<1>31. CASE MarkCancelled
  BY <1>31 DEF MarkCancelled, work, host
<1>32. CASE RecoveryRaises
  BY <1>32 DEF RecoveryRaises, work, wait, host
<1> QED
  BY <1>1, <1>2, <1>3, <1>4, <1>5, <1>6, <1>7, <1>8, <1>9, <1>10, <1>11, <1>12, <1>13, <1>14, <1>15, <1>16, <1>17, <1>18, <1>19, <1>20, <1>21, <1>22, <1>23, <1>24,
    <1>25, <1>26, <1>27, <1>28, <1>29, <1>30, <1>31, <1>32 DEF Next

LEMMA OverlapStays ==
  ASSUME LifecycleInv, [Next]_vars
  PROVE  overlapped => overlapped'
<1> USE DEF LifecycleInv, TypeOK
<1>1. ASSUME NEW b \in Backgrounds, Execute(b) PROVE overlapped => overlapped'
  BY <1>1 DEF Execute, Idle, Create, wait, host, rerun
<1>2. ASSUME NEW b \in Backgrounds, Begin(b) PROVE overlapped => overlapped'
  BY <1>2 DEF Begin, Idle, wait, host, rerun
<1>3. ASSUME NEW b \in Backgrounds, Contend(b) PROVE overlapped => overlapped'
  BY <1>3 DEF Contend, Idle, wait, host, rerun
<1>4. ASSUME NEW b \in Backgrounds, Preflight(b) PROVE overlapped => overlapped'
  BY <1>4 DEF Preflight, Idle, End, wait, host, rerun
<1>5. ASSUME NEW b \in Backgrounds, PreflightBlocked(b) PROVE overlapped => overlapped'
  BY <1>5 DEF PreflightBlocked, Idle, End, wait, host, rerun
<1>6. ASSUME NEW b \in Backgrounds, Ask(b) PROVE overlapped => overlapped'
  BY <1>6 DEF Ask, host, rerun
<1>7. ASSUME NEW b \in Backgrounds, ReportWaiting(b) PROVE overlapped => overlapped'
  BY <1>7 DEF ReportWaiting, Conclude, wait, host, rerun
<1>8. ASSUME NEW b \in Backgrounds, Report(b) PROVE overlapped => overlapped'
  BY <1>8 DEF Report, Conclude, rerun
<1>9. ASSUME NEW b \in Backgrounds, Mark(b) PROVE overlapped => overlapped'
  BY <1>9 DEF Mark, wait, host, rerun
<1>10. ASSUME NEW b \in Backgrounds, Return(b) PROVE overlapped => overlapped'
  BY <1>10 DEF Return, Idle, End, host, rerun
<1>11. ASSUME NEW b \in Backgrounds, Raise(b) PROVE overlapped => overlapped'
  BY <1>11 DEF Raise, Idle, End, Owning, wait, host, rerun
<1>12. ASSUME NEW b \in Backgrounds, Resume(b) PROVE overlapped => overlapped'
  BY <1>12 DEF Resume, Create, wait, host, rerun
<1>13. ASSUME NEW answer \in {"approved", "rejected"}, Decide(answer) PROVE overlapped => overlapped'
  BY <1>13 DEF Decide, Idle, work, host, rerun
<1>14. CASE Cancel
  BY <1>14 DEF Cancel, Idle, wait, work, host, rerun
<1>15. CASE CancelWait
  BY <1>15 DEF CancelWait, Idle, work, host, rerun
<1>16. CASE FinishCancel
  BY <1>16 DEF FinishCancel, wait, work, host, rerun
<1>17. CASE Expire
  BY <1>17 DEF Expire, Idle, work, host, rerun
<1>18. CASE FinishExpire
  BY <1>18 DEF FinishExpire, wait, work, host, rerun
<1>19. CASE Read
  BY <1>19 DEF Read, Idle, wait, work, host, rerun
<1>20. CASE DeadlinePasses
  BY <1>20 DEF DeadlinePasses, work, host, rerun
<1>21. CASE LeaseRunsOut
  BY <1>21 DEF LeaseRunsOut, wait, host, rerun
<1>22. CASE Crash
  BY <1>22 DEF Crash
<1>23. CASE Recover
  BY <1>23 DEF Recover, RecoverCancelled, RecoverExpired, RecoverWaiting, Schedule, Create, rerun
<1>24. CASE UNCHANGED vars
  BY <1>24 DEF vars
<1>25. ASSUME NEW b \in Backgrounds, Rerun(b) PROVE overlapped => overlapped'
  BY <1>25 DEF Rerun, Idle, wait, host
<1>26. ASSUME NEW b \in Backgrounds, ReturnRerun(b) PROVE overlapped => overlapped'
  BY <1>26 DEF ReturnRerun, Legacy, Idle, End, wait, host
<1>27. CASE QueueOnly
  BY <1>27 DEF QueueOnly, Idle, work, wait, rerun
<1>28. ASSUME NEW b \in Backgrounds, BeginRaises(b) PROVE overlapped => overlapped'
  BY <1>28 DEF BeginRaises, Idle, wait, rerun
<1>29. ASSUME NEW b \in Backgrounds, GiveUp(b) PROVE overlapped => overlapped'
  BY <1>29 DEF GiveUp, Idle, End, Owning, wait
<1>30. CASE HandlerRaises
  BY <1>30 DEF HandlerRaises, work, wait
<1>31. CASE MarkCancelled
  BY <1>31 DEF MarkCancelled, work, host
<1>32. CASE RecoveryRaises
  BY <1>32 DEF RecoveryRaises, work, wait, host
<1> QED
  BY <1>1, <1>2, <1>3, <1>4, <1>5, <1>6, <1>7, <1>8, <1>9, <1>10, <1>11, <1>12, <1>13, <1>14, <1>15, <1>16, <1>17, <1>18, <1>19, <1>20, <1>21, <1>22, <1>23, <1>24,
    <1>25, <1>26, <1>27, <1>28, <1>29, <1>30, <1>31, <1>32 DEF Next

LEMMA ServedStep ==
  ASSUME LifecycleInv, [Next]_vars
  PROVE  Served'
<1> USE LifecycleAssumption DEF LifecycleInv, TypeOK, VerdictGiven, Served, Alive, Excused, Verdicts, Terminal, Public
<1>1. ASSUME NEW b \in Backgrounds, Execute(b) PROVE Served'
  BY <1>1 DEF Execute, Idle, Create, wait, host, rerun
<1>2. ASSUME NEW b \in Backgrounds, Begin(b) PROVE Served'
  BY <1>2 DEF Begin, Idle, wait, host, rerun
<1>3. ASSUME NEW b \in Backgrounds, Contend(b) PROVE Served'
  BY <1>3 DEF Contend, Idle, wait, host, rerun
<1>4. ASSUME NEW b \in Backgrounds, Preflight(b) PROVE Served'
  BY <1>4 DEF Preflight, Idle, End, wait, host, rerun
<1>5. ASSUME NEW b \in Backgrounds, PreflightBlocked(b) PROVE Served'
  BY <1>5 DEF PreflightBlocked, Idle, End, wait, host, rerun
<1>6. ASSUME NEW b \in Backgrounds, Ask(b) PROVE Served'
  BY <1>6 DEF Ask, host, rerun
<1>7. ASSUME NEW b \in Backgrounds, ReportWaiting(b) PROVE Served'
  BY <1>7 DEF ReportWaiting, Conclude, wait, host, rerun
<1>8. ASSUME NEW b \in Backgrounds, Report(b) PROVE Served'
  BY <1>8 DEF Report, Conclude, wait, host, rerun
<1>9. ASSUME NEW b \in Backgrounds, Mark(b) PROVE Served'
  BY <1>9 DEF Mark, wait, host, rerun
<1>10. ASSUME NEW b \in Backgrounds, Return(b) PROVE Served'
  BY <1>10 DEF Return, Idle, End, host, rerun
<1>11. ASSUME NEW b \in Backgrounds, Raise(b) PROVE Served'
  BY <1>11 DEF Raise, Idle, End, Owning, wait, host, rerun
<1>12. ASSUME NEW b \in Backgrounds, Resume(b) PROVE Served'
  BY <1>12 DEF Resume, Create, wait, host, rerun
<1>13. ASSUME NEW answer \in {"approved", "rejected"}, Decide(answer) PROVE Served'
  BY <1>13 DEF Decide, Idle, work, host, rerun
<1>14. CASE Cancel
  BY <1>14 DEF Cancel, Idle, wait, work, host, rerun
<1>15. CASE CancelWait
  BY <1>15 DEF CancelWait, Idle, work, host, rerun
<1>16. CASE FinishCancel
  BY <1>16 DEF FinishCancel, wait, work, host, rerun
<1>17. CASE Expire
  BY <1>17 DEF Expire, Idle, work, host, rerun
<1>18. CASE FinishExpire
  BY <1>18 DEF FinishExpire, wait, work, host, rerun
<1>19. CASE Read
  BY <1>19 DEF Read, Idle, wait, work, host, rerun
<1>20. CASE DeadlinePasses
  BY <1>20 DEF DeadlinePasses, work, host, rerun
<1>21. CASE LeaseRunsOut
  BY <1>21 DEF LeaseRunsOut, wait, host, rerun
<1>22. CASE Crash
  BY <1>22 DEF Crash
<1>23. CASE Recover
  BY <1>23 DEF Recover, RecoverCancelled, RecoverExpired, RecoverWaiting, Schedule, Create, rerun
<1>24. CASE UNCHANGED vars
  BY <1>24 DEF vars
<1>25. ASSUME NEW b \in Backgrounds, Rerun(b) PROVE Served'
  BY <1>25 DEF Rerun, Idle, wait, host
<1>26. ASSUME NEW b \in Backgrounds, ReturnRerun(b) PROVE Served'
  BY <1>26 DEF ReturnRerun, Legacy, Idle, End, wait, host
<1>27. CASE QueueOnly
  BY <1>27 DEF QueueOnly, Idle, work, wait, rerun
<1>28. ASSUME NEW b \in Backgrounds, BeginRaises(b) PROVE Served'
  BY <1>28 DEF BeginRaises, Idle, wait, rerun
<1>29. ASSUME NEW b \in Backgrounds, GiveUp(b) PROVE Served'
  BY <1>29 DEF GiveUp, Idle, End, Owning, wait
<1>30. CASE HandlerRaises
  BY <1>30 DEF HandlerRaises, work, wait
<1>31. CASE MarkCancelled
  BY <1>31 DEF MarkCancelled, work, host
<1>32. CASE RecoveryRaises
  BY <1>32 DEF RecoveryRaises, work, wait, host
<1> QED
  BY <1>1, <1>2, <1>3, <1>4, <1>5, <1>6, <1>7, <1>8, <1>9, <1>10, <1>11, <1>12, <1>13, <1>14, <1>15, <1>16, <1>17, <1>18, <1>19, <1>20, <1>21, <1>22, <1>23, <1>24,
    <1>25, <1>26, <1>27, <1>28, <1>29, <1>30, <1>31, <1>32 DEF Next

LEMMA CompletionStep ==
  ASSUME LifecycleInv, [Next]_vars
  PROVE  CompletionIsApproved'
<1> USE LifecycleAssumption DEF LifecycleInv, TypeOK, CompletionIsApproved, Public
<1>1. ASSUME NEW b \in Backgrounds, Execute(b) PROVE CompletionIsApproved'
  BY <1>1 DEF Execute, Idle, Create, wait, host, rerun
<1>2. ASSUME NEW b \in Backgrounds, Begin(b) PROVE CompletionIsApproved'
  BY <1>2 DEF Begin, Idle, wait, host, rerun
<1>3. ASSUME NEW b \in Backgrounds, Contend(b) PROVE CompletionIsApproved'
  BY <1>3 DEF Contend, Idle, wait, host, rerun
<1>4. ASSUME NEW b \in Backgrounds, Preflight(b) PROVE CompletionIsApproved'
  BY <1>4 DEF Preflight, Idle, End, wait, host, rerun
<1>5. ASSUME NEW b \in Backgrounds, PreflightBlocked(b) PROVE CompletionIsApproved'
  BY <1>5 DEF PreflightBlocked, Idle, End, wait, host, rerun
<1>6. ASSUME NEW b \in Backgrounds, Ask(b) PROVE CompletionIsApproved'
  BY <1>6 DEF Ask, host, rerun
<1>7. ASSUME NEW b \in Backgrounds, ReportWaiting(b) PROVE CompletionIsApproved'
  BY <1>7 DEF ReportWaiting, Conclude, wait, host, rerun
<1>8. ASSUME NEW b \in Backgrounds, Report(b) PROVE CompletionIsApproved'
  BY <1>8 DEF Report, Conclude, wait, host, rerun
<1>9. ASSUME NEW b \in Backgrounds, Mark(b) PROVE CompletionIsApproved'
  BY <1>9 DEF Mark, wait, host, rerun
<1>10. ASSUME NEW b \in Backgrounds, Return(b) PROVE CompletionIsApproved'
  BY <1>10 DEF Return, Idle, End, host, rerun
<1>11. ASSUME NEW b \in Backgrounds, Raise(b) PROVE CompletionIsApproved'
  BY <1>11 DEF Raise, Idle, End, Owning, wait, host, rerun
<1>12. ASSUME NEW b \in Backgrounds, Resume(b) PROVE CompletionIsApproved'
  BY <1>12 DEF Resume, Create, wait, host, rerun
<1>13. ASSUME NEW answer \in {"approved", "rejected"}, Decide(answer) PROVE CompletionIsApproved'
  BY <1>13 DEF Decide, Idle, work, host, rerun
<1>14. CASE Cancel
  BY <1>14 DEF Cancel, Idle, wait, work, host, rerun
<1>15. CASE CancelWait
  BY <1>15 DEF CancelWait, Idle, work, host, rerun
<1>16. CASE FinishCancel
  BY <1>16 DEF FinishCancel, wait, work, host, rerun
<1>17. CASE Expire
  BY <1>17 DEF Expire, Idle, work, host, rerun
<1>18. CASE FinishExpire
  BY <1>18 DEF FinishExpire, wait, work, host, rerun
<1>19. CASE Read
  BY <1>19 DEF Read, Idle, wait, work, host, rerun
<1>20. CASE DeadlinePasses
  BY <1>20 DEF DeadlinePasses, work, host, rerun
<1>21. CASE LeaseRunsOut
  BY <1>21 DEF LeaseRunsOut, wait, host, rerun
<1>22. CASE Crash
  BY <1>22 DEF Crash
<1>23. CASE Recover
  BY <1>23 DEF Recover, RecoverCancelled, RecoverExpired, RecoverWaiting, Schedule, Create, rerun
<1>24. CASE UNCHANGED vars
  BY <1>24 DEF vars
<1>25. ASSUME NEW b \in Backgrounds, Rerun(b) PROVE CompletionIsApproved'
  BY <1>25 DEF Rerun, Idle, wait, host
<1>26. ASSUME NEW b \in Backgrounds, ReturnRerun(b) PROVE CompletionIsApproved'
  BY <1>26 DEF ReturnRerun, Legacy, Idle, End, wait, host
<1>27. CASE QueueOnly
  BY <1>27 DEF QueueOnly, Idle, work, wait, rerun
<1>28. ASSUME NEW b \in Backgrounds, BeginRaises(b) PROVE CompletionIsApproved'
  BY <1>28 DEF BeginRaises, Idle, wait, rerun
<1>29. ASSUME NEW b \in Backgrounds, GiveUp(b) PROVE CompletionIsApproved'
  BY <1>29 DEF GiveUp, Idle, End, Owning, wait
<1>30. CASE HandlerRaises
  BY <1>30 DEF HandlerRaises, work, wait
<1>31. CASE MarkCancelled
  BY <1>31 DEF MarkCancelled, work, host
<1>32. CASE RecoveryRaises
  BY <1>32 DEF RecoveryRaises, work, wait, host
<1> QED
  BY <1>1, <1>2, <1>3, <1>4, <1>5, <1>6, <1>7, <1>8, <1>9, <1>10, <1>11, <1>12, <1>13, <1>14, <1>15, <1>16, <1>17, <1>18, <1>19, <1>20, <1>21, <1>22, <1>23, <1>24,
    <1>25, <1>26, <1>27, <1>28, <1>29, <1>30, <1>31, <1>32 DEF Next

LEMMA LifecycleInvHolds == Spec => []LifecycleInv
<1>1. Init => LifecycleInv
  <2> SUFFICES ASSUME Init PROVE LifecycleInv
    OBVIOUS
  <2>1. TypeOK
    BY InitTyped
  <2>2. VerdictGiven /\ OwnerHoldsLease /\ OneAtWork /\ WorkIsMarked
    BY DEF Init, VerdictGiven, OwnerHoldsLease, OneAtWork, WorkIsMarked, AtWork, Owner, Owning
  <2>3. Served /\ CompletionIsApproved
    BY DEF Init, Served, CompletionIsApproved
  <2> QED
    BY <2>1, <2>2, <2>3 DEF LifecycleInv
<1>2. LifecycleInv /\ [Next]_vars => LifecycleInv'
  BY TypeStep, VerdictStep, LeaseStep, OneStep, ActiveStep, ServedStep, CompletionStep
  DEF LifecycleInv
<1> QED
  BY <1>1, <1>2, PTL DEF Spec

-------------------------------------------------------------------------------
(***************************************************************************)
(* Every reachable state is well typed: no other status, report or verdict *)
(* ever appears.                                                           *)
(***************************************************************************)
THEOREM TypeCorrect == Spec => []TypeOK
<1>1. LifecycleInv => TypeOK
  BY DEF LifecycleInv
<1> QED
  BY <1>1, LifecycleInvHolds, PTL

(***************************************************************************)
(* While an execution is at work, the run is marked as active, so that a   *)
(* request to execute or rerun it is refused, until one begins beside a    *)
(* rerun.                                                                  *)
(***************************************************************************)
THEOREM ActiveWhileAtWork == Spec => []WorkIsMarked
<1>1. LifecycleInv => WorkIsMarked
  BY DEF LifecycleInv
<1> QED
  BY <1>1, LifecycleInvHolds, PTL

(***************************************************************************)
(* The executions that hold the lease exclude each other, with or without  *)
(* reruns.                                                                 *)
(***************************************************************************)
THEOREM LeaseExcludes == Spec => []OneOwner
<1>1. LifecycleInv => OneOwner
  BY DEF LifecycleInv, OwnerHoldsLease, OneOwner
<1> QED
  BY <1>1, LifecycleInvHolds, PTL

(***************************************************************************)
(* A queued or running run has an execution, or its approval expired or    *)
(* was cancelled, or a store raised where nothing catches it since an      *)
(* execution was last created.                                             *)
(***************************************************************************)
THEOREM NobodyElseIsStranded == Spec => []StrandedOnlyIfExcused
<1>1. LifecycleInv => StrandedOnlyIfExcused
  BY DEF LifecycleInv, Served, StrandedOnlyIfExcused, Stranded, Idle
<1> QED
  BY <1>1, LifecycleInvHolds, PTL

(***************************************************************************)
(* A run is shown as completed only if its approval was approved.          *)
(***************************************************************************)
THEOREM NoCompletionUnapproved == Spec => []CompletedMeansApproved
<1>1. LifecycleInv => CompletedMeansApproved
  BY DEF LifecycleInv, CompletionIsApproved, CompletedMeansApproved
<1> QED
  BY <1>1, LifecycleInvHolds, PTL

-------------------------------------------------------------------------------
\* An execution starts to work when nobody is at work, or beside a rerun.
LEMMA WorkStartsAlone ==
  ASSUME LifecycleInv, [Next]_vars, NEW b \in Backgrounds, b \notin AtWork, b \in AtWork'
  PROVE  AtWork = {} \/ overlapped'
<1> USE LifecycleAssumption DEF LifecycleInv, TypeOK, OwnerHoldsLease, WorkIsMarked, AtWork, Owner,
       Owning
<1>1. ASSUME NEW c \in Backgrounds, Execute(c) PROVE AtWork = {} \/ overlapped'
  BY <1>1 DEF Execute, Idle, Create, wait, host, rerun
<1>2. ASSUME NEW c \in Backgrounds, Begin(c) PROVE AtWork = {} \/ overlapped'
  BY <1>2 DEF Begin, Idle, wait, host, rerun
<1>3. ASSUME NEW c \in Backgrounds, Contend(c) PROVE AtWork = {} \/ overlapped'
  BY <1>3 DEF Contend, Idle, wait, host, rerun
<1>4. ASSUME NEW c \in Backgrounds, Preflight(c) PROVE AtWork = {} \/ overlapped'
  BY <1>4 DEF Preflight, Idle, End, wait, host, rerun
<1>5. ASSUME NEW c \in Backgrounds, PreflightBlocked(c) PROVE AtWork = {} \/ overlapped'
  BY <1>5 DEF PreflightBlocked, Idle, End, wait, host, rerun
<1>6. ASSUME NEW c \in Backgrounds, Ask(c) PROVE AtWork = {} \/ overlapped'
  BY <1>6 DEF Ask, host, rerun
<1>7. ASSUME NEW c \in Backgrounds, ReportWaiting(c) PROVE AtWork = {} \/ overlapped'
  BY <1>7 DEF ReportWaiting, Conclude, wait, host, rerun
<1>8. ASSUME NEW c \in Backgrounds, Report(c) PROVE AtWork = {} \/ overlapped'
  BY <1>8 DEF Report, Conclude, wait, host, rerun
<1>9. ASSUME NEW c \in Backgrounds, Mark(c) PROVE AtWork = {} \/ overlapped'
  BY <1>9 DEF Mark, wait, host, rerun
<1>10. ASSUME NEW c \in Backgrounds, Return(c) PROVE AtWork = {} \/ overlapped'
  BY <1>10 DEF Return, Idle, End, host, rerun
<1>11. ASSUME NEW c \in Backgrounds, Raise(c) PROVE AtWork = {} \/ overlapped'
  BY <1>11 DEF Raise, Idle, End, Owning, wait, host, rerun
<1>12. ASSUME NEW c \in Backgrounds, Resume(c) PROVE AtWork = {} \/ overlapped'
  BY <1>12 DEF Resume, Create, wait, host, rerun
<1>13. ASSUME NEW answer \in {"approved", "rejected"}, Decide(answer) PROVE AtWork = {} \/ overlapped'
  BY <1>13 DEF Decide, Idle, work, host, rerun
<1>14. CASE Cancel
  BY <1>14 DEF Cancel, Idle, wait, work, host, rerun
<1>15. CASE CancelWait
  BY <1>15 DEF CancelWait, Idle, work, host, rerun
<1>16. CASE FinishCancel
  BY <1>16 DEF FinishCancel, wait, work, host, rerun
<1>17. CASE Expire
  BY <1>17 DEF Expire, Idle, work, host, rerun
<1>18. CASE FinishExpire
  BY <1>18 DEF FinishExpire, wait, work, host, rerun
<1>19. CASE Read
  BY <1>19 DEF Read, Idle, wait, work, host, rerun
<1>20. CASE DeadlinePasses
  BY <1>20 DEF DeadlinePasses, work, host, rerun
<1>21. CASE LeaseRunsOut
  BY <1>21 DEF LeaseRunsOut, wait, host, rerun
<1>22. CASE Crash
  BY <1>22 DEF Crash
<1>23. CASE Recover
  BY <1>23 DEF Recover, RecoverCancelled, RecoverExpired, RecoverWaiting, Schedule, Create, rerun
<1>24. CASE UNCHANGED vars
  BY <1>24 DEF vars
<1>25. ASSUME NEW c \in Backgrounds, Rerun(c) PROVE AtWork = {} \/ overlapped'
  BY <1>25 DEF Rerun, Idle, wait, host
<1>26. ASSUME NEW c \in Backgrounds, ReturnRerun(c) PROVE AtWork = {} \/ overlapped'
  BY <1>26 DEF ReturnRerun, Legacy, Idle, End, wait, host
<1>27. CASE QueueOnly
  BY <1>27 DEF QueueOnly, Idle, work, wait, rerun
<1>28. ASSUME NEW c \in Backgrounds, BeginRaises(c) PROVE AtWork = {} \/ overlapped'
  BY <1>28 DEF BeginRaises, Idle, wait, rerun
<1>29. ASSUME NEW c \in Backgrounds, GiveUp(c) PROVE AtWork = {} \/ overlapped'
  BY <1>29 DEF GiveUp, Idle, End, Owning, wait
<1>30. CASE HandlerRaises
  BY <1>30 DEF HandlerRaises, work, wait
<1>31. CASE MarkCancelled
  BY <1>31 DEF MarkCancelled, work, host
<1>32. CASE RecoveryRaises
  BY <1>32 DEF RecoveryRaises, work, wait, host
<1> QED
  BY <1>1, <1>2, <1>3, <1>4, <1>5, <1>6, <1>7, <1>8, <1>9, <1>10, <1>11, <1>12, <1>13, <1>14, <1>15, <1>16, <1>17, <1>18, <1>19, <1>20, <1>21, <1>22, <1>23, <1>24,
    <1>25, <1>26, <1>27, <1>28, <1>29, <1>30, <1>31, <1>32 DEF Next

(***************************************************************************)
(* The executions of a run implement exclusive execution: requests,        *)
(* reruns, decisions and recovery create as many as they like, and one at  *)
(* a time is at work, until one begins beside a rerun.                     *)
(***************************************************************************)
THEOREM Refinement == Spec => OneExecution
<1>1. Init => Exclusive!Init
  BY DEF Init, Exclusive!Init, executor, AtWork, Owning
<1>2. ASSUME LifecycleInv, LifecycleInv', [Next]_vars
      PROVE  [Exclusive!Next]_executor
  <2>1. executor \in Backgrounds \cup {Nobody}
    BY DEF executor, AtWork
  <2>2. CASE AtWork' = {} \/ overlapped'
    <3>1. executor' = Nobody
      BY <2>2 DEF executor
    <3> QED
      BY <2>1, <3>1, LifecycleAssumption DEF Exclusive!Next, Exclusive!Yield
  <2>3. ASSUME NEW b \in AtWork', ~overlapped' PROVE [Exclusive!Next]_executor
    <3>1. b \in Backgrounds /\ ~overlapped
      BY <1>2, <2>3, OverlapStays DEF AtWork
    <3>2. executor' = b
      BY <1>2, <2>3 DEF LifecycleInv, OneAtWork, executor
    <3>3. CASE b \in AtWork
      BY <1>2, <3>1, <3>2, <3>3 DEF LifecycleInv, OneAtWork, executor
    <3>4. CASE b \notin AtWork
      <4>1. AtWork = {}
        BY <1>2, <2>3, <3>1, <3>4, WorkStartsAlone
      <4>2. executor = Nobody
        BY <4>1 DEF executor
      <4> QED
        BY <3>1, <3>2, <4>2 DEF Exclusive!Next, Exclusive!Claim
    <3> QED
      BY <3>3, <3>4
  <2> QED
    BY <2>2, <2>3
<1> QED
  BY <1>1, <1>2, LifecycleInvHolds, PTL DEF Spec, OneExecution, Exclusive!Spec
===============================================================================
