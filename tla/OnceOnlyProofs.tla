----------------------------- MODULE OnceOnlyProofs -----------------------------
(***************************************************************************)
(* Theorems about the two records that are settled once: a human approval, *)
(* for every set of callers and of decisions, however early the monitor    *)
(* wakes and however long recovery takes, and the action of a Tool, for    *)
(* every set of callers, actions and outcomes.                             *)
(***************************************************************************)
EXTENDS HumanApproval, ToolActionJournal, TLAPS

(***************************************************************************)
(* The inductive invariant.  An expiry can be claimed by whoever holds an  *)
(* instant after the deadline, so ExpiryNotEarly needs every instant in    *)
(* somebody's hands to be one the clock has reached.                       *)
(***************************************************************************)
InstantsReached ==
    /\ \A c \in Callers : received[c] = "after" => clock = "after"
    /\ monitor = "after" => clock = "after"

ApprovalInv ==
    TypeOK /\ OneWinner /\ AnswersHold /\ ExpiryNotEarly /\ InstantsReached

\* The receipt files of one approval.
LEMMA OneReceipt ==
  ASSUME TypeOK, OneWinner
  PROVE  receipts \in {{}, {"expiry"}, {"cancellation"}}
<1>1. CASE "expiry" \in receipts
  BY <1>1 DEF TypeOK, OneWinner
<1>2. CASE "expiry" \notin receipts
  BY <1>2 DEF TypeOK
<1> QED
  BY <1>1, <1>2

\* What a claim does to the receipts: nothing, or it ends a pending wait.
LEMMA ClaimIsGuarded ==
  ASSUME TypeOK, OneWinner, NEW instant \in Instants
  PROVE  \/ ClaimExpiry(instant) = receipts
         \/ /\ Waiting /\ instant = "after"
            /\ ClaimExpiry(instant) = {"expiry"}
BY DEF ClaimExpiry, TypeOK, OneWinner, Waiting

LEMMA InitApproval == Init => ApprovalInv
BY ApprovalAssumption
   DEF Init, ApprovalInv, TypeOK, OneWinner, AnswersHold, ExpiryNotEarly,
       InstantsReached, Instants, Answers

LEMMA DecidePreserves ==
  ASSUME ApprovalInv, NEW c \in Callers, Decide(c)
  PROVE  ApprovalInv'
<1> USE ApprovalAssumption
    DEF ApprovalInv, TypeOK, OneWinner, AnswersHold, ExpiryNotEarly,
        InstantsReached, Instants, Answers, Reply, Waiting
<1>1. CASE DecideExpired(c)
  <2>1. receipts = {"expiry"}
    BY <1>1, OneReceipt DEF DecideExpired
  <2> QED
    BY <1>1, <2>1 DEF DecideExpired
<1>2. CASE DecideCancelled(c)
  BY <1>2 DEF DecideCancelled
<1>3. CASE DecideConflicting(c)
  BY <1>3 DEF DecideConflicting
<1>4. CASE DecideAgain(c)
  BY <1>4 DEF DecideAgain, CancelMonitor
<1>5. CASE DecideTooLate(c)
  BY <1>5 DEF DecideTooLate, ClaimExpiry
<1>6. CASE DecideFirst(c)
  BY <1>6 DEF DecideFirst, CancelMonitor
<1> QED
  BY <1>1, <1>2, <1>3, <1>4, <1>5, <1>6 DEF Decide

LEMMA CancelPreserves ==
  ASSUME ApprovalInv, NEW c \in Callers, Cancel(c)
  PROVE  ApprovalInv'
<1> USE ApprovalAssumption
    DEF ApprovalInv, TypeOK, OneWinner, AnswersHold, ExpiryNotEarly,
        InstantsReached, Instants, Answers, Reply, Waiting
<1>1. CASE CancelAgain(c)
  <2>1. receipts = {"cancellation"}
    BY <1>1, OneReceipt DEF CancelAgain
  <2> QED
    BY <1>1, <2>1 DEF CancelAgain, CancelMonitor
<1>2. CASE CancelRefused(c)
  BY <1>2 DEF CancelRefused
<1>3. CASE CancelTooLate(c)
  BY <1>3 DEF CancelTooLate, ClaimExpiry
<1>4. CASE CancelFirst(c)
  BY <1>4 DEF CancelFirst, CancelMonitor
<1> QED
  BY <1>1, <1>2, <1>3, <1>4 DEF Cancel

LEMMA ApprovalInvInductive ==
  ASSUME ApprovalInv, [Next]_vars
  PROVE  ApprovalInv'
<1> USE ApprovalAssumption
    DEF ApprovalInv, TypeOK, OneWinner, AnswersHold, ExpiryNotEarly,
        InstantsReached, Instants, Answers, callVars
<1>1. CASE EnterWaiting
  BY <1>1 DEF EnterWaiting
<1>2. CASE DeadlinePasses
  BY <1>2 DEF DeadlinePasses
<1>3. ASSUME NEW c \in Callers, NEW d \in Decisions,
             NEW kind \in {"decide", "cancel"}, Receive(c, kind, d)
      PROVE  ApprovalInv'
  BY <1>3 DEF Receive
<1>4. ASSUME NEW c \in Callers, Decide(c) PROVE ApprovalInv'
  BY <1>4, DecidePreserves
<1>5. ASSUME NEW c \in Callers, Cancel(c) PROVE ApprovalInv'
  BY <1>5, CancelPreserves
<1>6. CASE ScheduleMonitor
  BY <1>6 DEF ScheduleMonitor
<1>7. CASE MonitorWakes
  BY <1>7 DEF MonitorWakes
<1>8. CASE MonitorClaims
  BY <1>8 DEF MonitorClaims, ClaimExpiry
<1>9. CASE Crash
  BY <1>9 DEF Crash
<1>10. CASE RecoverExpired
  BY <1>10 DEF RecoverExpired, ClaimExpiry
<1>11. CASE RecoverPending
  BY <1>11 DEF RecoverPending
<1>12. CASE UNCHANGED vars
  BY <1>12 DEF vars
<1> QED
  BY <1>1, <1>2, <1>3, <1>4, <1>5, <1>6, <1>7, <1>8, <1>9, <1>10, <1>11,
     <1>12 DEF Next

LEMMA ApprovalInvHolds == Spec => []ApprovalInv
BY InitApproval, ApprovalInvInductive, PTL DEF Spec

--------------------------------------------------------------------------------
(***************************************************************************)
(* Every reachable state of the arbitration is well typed.                 *)
(***************************************************************************)
THEOREM TypeCorrect == Spec => []TypeOK
<1>1. ApprovalInv => TypeOK
  BY DEF ApprovalInv
<1> QED
  BY <1>1, ApprovalInvHolds, PTL

(***************************************************************************)
(* At most one of decision, expiry and cancellation ever wins.             *)
(***************************************************************************)
THEOREM SingleWinner == Spec => []OneWinner
<1>1. ApprovalInv => OneWinner
  BY DEF ApprovalInv
<1> QED
  BY <1>1, ApprovalInvHolds, PTL

(***************************************************************************)
(* What callers were told about the approval stays true.                   *)
(***************************************************************************)
THEOREM AnswersAreKept == Spec => []AnswersHold
<1>1. ApprovalInv => AnswersHold
  BY DEF ApprovalInv
<1> QED
  BY <1>1, ApprovalInvHolds, PTL

(***************************************************************************)
(* No expiry is on record before the deadline.                             *)
(***************************************************************************)
THEOREM NoEarlyExpiry == Spec => []ExpiryNotEarly
<1>1. ApprovalInv => ExpiryNotEarly
  BY DEF ApprovalInv
<1> QED
  BY <1>1, ApprovalInvHolds, PTL

(***************************************************************************)
(* Every step leaves the outcome as it was, enters the wait or ends it.    *)
(***************************************************************************)
LEMMA StepsOfTheOutcome ==
  ASSUME ApprovalInv, [Next]_vars
  PROVE  \/ UNCHANGED <<record, receipts>>
         \/ /\ record = Absent /\ record' = NoDecision
            /\ UNCHANGED receipts
         \/ /\ Waiting /\ record' \in Decisions
            /\ UNCHANGED receipts
         \/ /\ Waiting /\ receipts' \in {{"expiry"}, {"cancellation"}}
            /\ UNCHANGED record
<1> DEFINE Goal ==
      \/ UNCHANGED <<record, receipts>>
      \/ /\ record = Absent /\ record' = NoDecision
         /\ UNCHANGED receipts
      \/ /\ Waiting /\ record' \in Decisions
         /\ UNCHANGED receipts
      \/ /\ Waiting /\ receipts' \in {{"expiry"}, {"cancellation"}}
         /\ UNCHANGED record
<1> USE DEF ApprovalInv
<1>1. CASE EnterWaiting
  BY <1>1 DEF EnterWaiting
<1>2. ASSUME NEW c \in Callers, Decide(c) PROVE Goal
  <2>1. CASE DecideTooLate(c)
    BY <2>1 DEF DecideTooLate, ClaimExpiry, Waiting
  <2>2. CASE DecideFirst(c)
    BY <2>2 DEF DecideFirst, TypeOK
  <2> QED
    BY <1>2, <2>1, <2>2
    DEF Decide, DecideExpired, DecideCancelled, DecideConflicting, DecideAgain
<1>3. ASSUME NEW c \in Callers, Cancel(c) PROVE Goal
  <2>1. CASE CancelTooLate(c)
    BY <2>1 DEF CancelTooLate, ClaimExpiry, Waiting
  <2> QED
    BY <1>3, <2>1 DEF Cancel, CancelAgain, CancelRefused, CancelFirst
<1>4. CASE MonitorClaims
  BY <1>4, ClaimIsGuarded DEF MonitorClaims
<1>5. CASE RecoverExpired
  <2>1. clock \in Instants
    BY DEF TypeOK
  <2> QED
    BY <1>5, <2>1, ClaimIsGuarded DEF RecoverExpired
<1>6. CASE \/ DeadlinePasses \/ ScheduleMonitor \/ MonitorWakes \/ Crash
           \/ RecoverPending \/ UNCHANGED vars
           \/ \E c \in Callers, d \in Decisions, kind \in {"decide", "cancel"} :
                 Receive(c, kind, d)
  BY <1>6 DEF DeadlinePasses, ScheduleMonitor, MonitorWakes, Crash,
              RecoverPending, Receive, vars
<1> QED
  BY <1>1, <1>2, <1>3, <1>4, <1>5, <1>6 DEF Next

(***************************************************************************)
(* A resolved approval stays resolved as it was.                           *)
(***************************************************************************)
THEOREM Finality == Spec => ResolutionIsFinal
<1>1. ASSUME ApprovalInv, [Next]_vars
      PROVE  [/\ record \in Decisions => record' = record
              /\ receipts # {} => receipts' = receipts]_vars
  BY <1>1, StepsOfTheOutcome, ApprovalAssumption DEF Waiting
<1> QED
  BY <1>1, ApprovalInvHolds, PTL DEF Spec, ResolutionIsFinal

(***************************************************************************)
(* The files and the lock implement the once-and-for-ever outcome.         *)
(***************************************************************************)
THEOREM Refinement == Spec => OutcomeSpec
<1>1. Init => Abstract!Init
  BY DEF Init, Abstract!Init, outcome
<1>2. ASSUME ApprovalInv, ApprovalInv', [Next]_vars
      PROVE  [Abstract!Next]_outcome
  <2> USE ApprovalAssumption
  <2>1. CASE UNCHANGED <<record, receipts>>
    BY <2>1 DEF outcome
  <2>2. CASE record = Absent /\ record' = NoDecision /\ UNCHANGED receipts
    <3>1. receipts = {}
      BY <1>2, <2>2 DEF ApprovalInv, OneWinner
    <3> QED
      BY <2>2, <3>1 DEF outcome, Abstract!Next, Abstract!Wait
  <2>3. CASE Waiting /\ record' \in Decisions /\ UNCHANGED receipts
    BY <2>3 DEF outcome, Waiting, Abstract!Next, Abstract!Resolve, Abstract!Resolutions
  <2>4. CASE /\ Waiting /\ receipts' \in {{"expiry"}, {"cancellation"}}
             /\ UNCHANGED record
    BY <2>4 DEF outcome, Waiting, Abstract!Next, Abstract!Resolve, Abstract!Resolutions
  <2> QED
    BY <1>2, <2>1, <2>2, <2>3, <2>4, StepsOfTheOutcome
<1> QED
  BY <1>1, <1>2, ApprovalInvHolds, PTL DEF Spec, OutcomeSpec, Abstract!Spec

--------------------------------------------------------------------------------
(***************************************************************************)
(* The inductive invariant: a prepared action has at most one caller that  *)
(* holds the right to call the Tool, and how far that caller got agrees    *)
(* with how often the Tool was called and with what it did.                *)
(***************************************************************************)
OneHolder ==
    \A c, d \in ToolCallers :
        pc[c] # "idle" /\ pc[d] # "idle" /\ action[c] = action[d] => c = d

HolderAgrees ==
    \A c \in ToolCallers :
        /\ pc[c] = "execute" => calls[action[c]] = 0 /\ effect[action[c]] = "none"
        /\ pc[c] = "calling" => effect[action[c]] = "begun"
        /\ pc[c] = "returned" => effect[action[c]] \in Outcomes

UnrecordedIsUntouched ==
    \A a \in Actions :
        journal[a] = Unrecorded => calls[a] = 0 /\ effect[a] = "none"

JournalInv ==
    /\ JournalTypeOK /\ AtMostOneCall
    /\ OutcomesAreTrue /\ CommitMeetsNoConflict
    /\ OneHolder /\ HolderAgrees /\ UnrecordedIsUntouched

LEMMA InitJournal ==
  ASSUME JournalInit
  PROVE  JournalInv
BY JournalAssumption
   DEF JournalInit, JournalInv, JournalTypeOK, AtMostOneCall, OutcomesAreTrue,
       CommitMeetsNoConflict, OneHolder, HolderAgrees, UnrecordedIsUntouched, Outcomes

LEMMA JournalInvInductive ==
  ASSUME JournalInv, [JournalNext]_journalVars
  PROVE  JournalInv'
<1> USE JournalAssumption
    DEF JournalInv, JournalTypeOK, AtMostOneCall, OutcomesAreTrue,
        CommitMeetsNoConflict, OneHolder, HolderAgrees, UnrecordedIsUntouched
<1>1. ASSUME NEW c \in ToolCallers, NEW a \in Actions, Begin(c, a)
      PROVE  JournalInv'
  BY <1>1 DEF Begin
<1>2. ASSUME NEW c \in ToolCallers, NEW a \in Actions, Replay(c, a)
      PROVE  JournalInv'
  BY <1>2 DEF Replay
<1>3. ASSUME NEW c \in ToolCallers, Call(c) PROVE JournalInv'
  BY <1>3 DEF Call
<1>4. ASSUME NEW c \in ToolCallers, NEW o \in Outcomes, Return(c, o)
      PROVE  JournalInv'
  BY <1>4 DEF Return
<1>5. ASSUME NEW c \in ToolCallers, Commit(c) PROVE JournalInv'
  <2>1. journal[action[c]] = Prepared /\ effect[action[c]] \in Outcomes
    BY <1>5 DEF Commit
  <2> QED
    BY <1>5, <2>1 DEF Commit
<1>6. ASSUME NEW c \in ToolCallers, Raise(c) PROVE JournalInv'
  BY <1>6 DEF Raise
<1>7. ASSUME NEW c \in ToolCallers, CallerDies(c) PROVE JournalInv'
  BY <1>7 DEF CallerDies
<1>8. CASE UNCHANGED journalVars
  BY <1>8 DEF journalVars
<1> QED
  BY <1>1, <1>2, <1>3, <1>4, <1>5, <1>6, <1>7, <1>8 DEF JournalNext, CallerStep

LEMMA JournalInvHolds == JournalSpec => []JournalInv
BY InitJournal, JournalInvInductive, PTL DEF JournalSpec

--------------------------------------------------------------------------------
(***************************************************************************)
(* Every reachable state of the journal is well typed.                     *)
(***************************************************************************)
THEOREM JournalTypeCorrect == JournalSpec => []JournalTypeOK
<1>1. JournalInv => JournalTypeOK
  BY DEF JournalInv
<1> QED
  BY <1>1, JournalInvHolds, PTL

(***************************************************************************)
(* No Tool is called twice for one action.                                 *)
(***************************************************************************)
THEOREM CalledOnce == JournalSpec => []AtMostOneCall
<1>1. JournalInv => AtMostOneCall
  BY DEF JournalInv
<1> QED
  BY <1>1, JournalInvHolds, PTL

(***************************************************************************)
(* What is on record and what callers are told is what the call produced.  *)
(***************************************************************************)
THEOREM TruthfulOutcomes == JournalSpec => []OutcomesAreTrue
<1>1. JournalInv => OutcomesAreTrue
  BY DEF JournalInv
<1> QED
  BY <1>1, JournalInvHolds, PTL

(***************************************************************************)
(* The caller of a Tool can always record what the Tool returned.          *)
(***************************************************************************)
THEOREM NoConflict == JournalSpec => []CommitMeetsNoConflict
<1>1. JournalInv => CommitMeetsNoConflict
  BY DEF JournalInv
<1> QED
  BY <1>1, JournalInvHolds, PTL

(***************************************************************************)
(* The journal and its callers implement the at-most-once action.          *)
(***************************************************************************)
THEOREM JournalRefinement == JournalSpec => ActionSpec
<1>1. JournalInit => AtMostOnce!Init
  BY DEF JournalInit, AtMostOnce!Init
<1>2. ASSUME JournalInv, [JournalNext]_journalVars
      PROVE  [AtMostOnce!Next]_(AtMostOnce!vars)
  <2> USE <1>2 DEF JournalInv, AtMostOnce!vars, AtMostOnce!Next
  <2>1. ASSUME NEW c \in ToolCallers, NEW a \in Actions, Begin(c, a)
        PROVE  AtMostOnce!Prepare(a)
    BY <2>1 DEF Begin, AtMostOnce!Prepare
  <2>2. ASSUME NEW c \in ToolCallers, Call(c)
        PROVE  AtMostOnce!Perform(action[c])
    BY <2>2 DEF Call, AtMostOnce!Perform, CommitMeetsNoConflict, HolderAgrees
  <2>3. ASSUME NEW c \in ToolCallers, NEW o \in Outcomes, Return(c, o)
        PROVE  AtMostOnce!Produce(action[c])
    BY <2>3 DEF Return, AtMostOnce!Produce, CommitMeetsNoConflict,
                HolderAgrees
  <2>4. ASSUME NEW c \in ToolCallers, Commit(c)
        PROVE  AtMostOnce!Record(action[c])
    BY <2>4 DEF Commit, AtMostOnce!Record, CommitMeetsNoConflict, HolderAgrees
  <2>5. ASSUME NEW c \in ToolCallers,
               \/ \E a \in Actions : Replay(c, a)
               \/ Raise(c) \/ CallerDies(c)
        PROVE  UNCHANGED AtMostOnce!vars
    BY <2>5 DEF Replay, Raise, CallerDies
  <2>6. CASE UNCHANGED journalVars
    BY <2>6 DEF journalVars
  <2>7. \A c \in ToolCallers : action[c] \in Actions
    BY DEF JournalTypeOK
  <2> QED
    BY <2>1, <2>2, <2>3, <2>4, <2>5, <2>6, <2>7 DEF JournalNext, CallerStep
<1> QED
  BY <1>1, <1>2, JournalInvHolds, PTL DEF JournalSpec, ActionSpec, AtMostOnce!Spec
================================================================================
