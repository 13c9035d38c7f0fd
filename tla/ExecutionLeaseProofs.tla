------------------------- MODULE ExecutionLeaseProofs -------------------------
(***************************************************************************)
(* Theorems about the execution lease, for every set of executors and every*)
(* TTL, heartbeat period and delay.                                        *)
(***************************************************************************)
EXTENDS ExecutionLease, TLAPS

LEMMA InitTyped == Init => TypeOK
<1> SUFFICES ASSUME Init PROVE TypeOK
  OBVIOUS
<1>1. 0 \in 0..TTL /\ 0 \in 0..Latest
  BY LeaseAssumption DEF Latest
<1>2. record \in [owner : Executors \cup {NoOwner}, left : 0..TTL]
  BY <1>1 DEF Init
<1>3. /\ phase \in [Executors -> Phases] /\ heart \in [Executors -> Hearts]
      /\ slept \in [Executors -> 0..Latest]
  BY <1>1 DEF Init, Phases, Hearts
<1>4. late \in BOOLEAN
  BY DEF Init
<1> QED
  BY <1>2, <1>3, <1>4 DEF TypeOK

(***************************************************************************)
(* Every reachable state is well typed; in particular no record outlives   *)
(* its TTL and no heartbeat sleeps longer than the event loop may delay it.*)
(***************************************************************************)
THEOREM TypeCorrect == Spec => []TypeOK
<1>1. Init => TypeOK
  BY InitTyped
<1>2. ASSUME TypeOK, [Next]_vars PROVE TypeOK'
  <2> USE LeaseAssumption, <1>2 DEF TypeOK, Phases, Hearts, Latest
  <2>1. CASE Tick
    BY <2>1 DEF Tick
  <2>2. ASSUME NEW e \in Executors, Contend(e) PROVE TypeOK'
    BY <2>2 DEF Contend
  <2>3. ASSUME NEW e \in Executors, Abandon(e) PROVE TypeOK'
    BY <2>3 DEF Abandon
  <2>4. ASSUME NEW e \in Executors, Acquire(e) PROVE TypeOK'
    BY <2>4 DEF Acquire
  <2>5. ASSUME NEW e \in Executors, Renew(e) PROVE TypeOK'
    BY <2>5 DEF Renew
  <2>6. ASSUME NEW e \in Executors, NoticeLoss(e) PROVE TypeOK'
    BY <2>6 DEF NoticeLoss
  <2>7. ASSUME NEW e \in Executors, HeartbeatDies(e) PROVE TypeOK'
    BY <2>7 DEF HeartbeatDies
  <2>8. ASSUME NEW e \in Executors, StartNode(e) PROVE TypeOK'
    BY <2>8 DEF StartNode
  <2>9. ASSUME NEW e \in Executors, CommitNode(e) PROVE TypeOK'
    BY <2>9 DEF CommitNode
  <2>10. ASSUME NEW e \in Executors, Finish(e) PROVE TypeOK'
    BY <2>10 DEF Finish
  <2>11. ASSUME NEW e \in Executors, Crash(e) PROVE TypeOK'
    BY <2>11 DEF Crash
  <2>12. CASE UNCHANGED vars
    BY <2>12 DEF vars
  <2> QED
    BY <2>1, <2>2, <2>3, <2>4, <2>5, <2>6, <2>7, <2>8, <2>9, <2>10, <2>11,
       <2>12 DEF Next, Step
<1> QED
  BY <1>1, <1>2, PTL DEF Spec

-------------------------------------------------------------------------------
(***************************************************************************)
(* The inductive invariant behind mutual exclusion.  SingleExecutor alone  *)
(* is not inductive: Acquire must find every executor at work holding an   *)
(* unexpired record, which is so because the record's remaining time and   *)
(* the sleep of its owner's heartbeat add up to the TTL until a heartbeat  *)
(* misses it.                                                              *)
(***************************************************************************)
IdleHasNoHeartbeat == \A e \in Executors : ~Executing(e) => heart[e] = "off"

LeaseInv == TypeOK /\ ExecutorOwnsRecord /\ IdleHasNoHeartbeat

\* An executor at work finds its record unexpired.
LEMMA RecordIsLive ==
  ASSUME LeaseInv, ~late, NEW e \in Executors, Executing(e)
  PROVE  record.owner = e /\ record.left > 0 /\ ~Unclaimed
BY LeaseAssumption
   DEF LeaseInv, TypeOK, ExecutorOwnsRecord, Unclaimed

\* While somebody is at work nobody else is, and nobody can acquire.
LEMMA OwnersAgree ==
  ASSUME LeaseInv PROVE SingleExecutor
BY DEF LeaseInv, ExecutorOwnsRecord, SingleExecutor

LEMMA IdleInductive ==
  ASSUME LeaseInv, [Next]_vars
  PROVE  IdleHasNoHeartbeat'
<1> USE DEF LeaseInv, TypeOK, IdleHasNoHeartbeat, Executing
<1>1. CASE Tick
  BY <1>1 DEF Tick
<1>2. CASE \E e \in Executors :
             Contend(e) \/ Abandon(e) \/ Acquire(e) \/ StartNode(e) \/ CommitNode(e)
  BY <1>2 DEF Contend, Abandon, Acquire, StartNode, CommitNode
<1>3. CASE \E e \in Executors : Renew(e) \/ NoticeLoss(e) \/ HeartbeatDies(e)
  BY <1>3 DEF Renew, NoticeLoss, HeartbeatDies, HeartbeatDue
<1>4. CASE \E e \in Executors : Finish(e) \/ Crash(e)
  BY <1>4 DEF Finish, Crash
<1>5. CASE UNCHANGED vars
  BY <1>5 DEF vars
<1> QED
  BY <1>1, <1>2, <1>3, <1>4, <1>5 DEF Next, Step

LEMMA OwnershipInductive ==
  ASSUME LeaseInv, [Next]_vars, TypeOK'
  PROVE  ExecutorOwnsRecord'
<1> USE LeaseAssumption DEF LeaseInv, TypeOK, Phases, Hearts
<1> DEFINE Good(e) == Executing(e)' =>
                        /\ record'.owner = e
                        /\ heart'[e] = "beating"
                        /\ record'.left = TTL - slept'[e] /\ record'.left > 0
<1>1. SUFFICES ASSUME ~late', NEW e \in Executors PROVE Good(e)
  BY DEF ExecutorOwnsRecord, Executing
<1>2. ~late
  BY <1>1 DEF Next, Step, vars, Tick, Contend, Abandon, Acquire, Renew, NoticeLoss,
              HeartbeatDies, StartNode, CommitNode, Finish, Crash
<1> USE <1>2
<1>3. Executing(e) => record.owner = e /\ record.left > 0 /\ ~Unclaimed
  BY RecordIsLive
<1>4. CASE Tick
  <2>1. SUFFICES ASSUME Executing(e)' PROVE Good(e)
    OBVIOUS
  <2>2. /\ Executing(e) /\ heart[e] = "beating" /\ heart'[e] = "beating"
        /\ record.left = TTL - slept[e]
    BY <1>3, <1>4, <2>1 DEF Tick, Executing, ExecutorOwnsRecord
  <2>3. /\ record'.owner = e
        /\ record'.left = record.left - 1
        /\ slept'[e] = slept[e] + 1
    BY <1>3, <1>4, <2>2 DEF Tick
  <2>4. slept'[e] < TTL
    <3>1. ~(slept'[e] >= TTL)
      BY <1>1, <1>4, <2>2 DEF Tick
    <3>2. slept'[e] \in Int /\ TTL \in Int
      BY <2>3
    <3> QED
      BY <3>1, <3>2
  <2>5. slept[e] \in Int /\ TTL \in Int
    OBVIOUS
  <2> QED
    BY <2>2, <2>3, <2>4, <2>5
<1>5. ASSUME NEW f \in Executors, Contend(f) PROVE Good(e)
  BY <1>5 DEF Contend, Executing, ExecutorOwnsRecord
<1>6. ASSUME NEW f \in Executors, Abandon(f) PROVE Good(e)
  BY <1>6 DEF Abandon, Executing, ExecutorOwnsRecord
<1>7. ASSUME NEW f \in Executors, Acquire(f) PROVE Good(e)
  BY <1>3, <1>7 DEF Acquire, Executing, ExecutorOwnsRecord
<1>8. ASSUME NEW f \in Executors, Renew(f) PROVE Good(e)
  BY <1>3, <1>8 DEF Renew, HeartbeatDue, Executing, ExecutorOwnsRecord
<1>9. ASSUME NEW f \in Executors, NoticeLoss(f) PROVE Good(e)
  <2>1. Executing(f)
    BY <1>9 DEF NoticeLoss, HeartbeatDue, IdleHasNoHeartbeat
  <2> QED
    BY <2>1, <1>9, RecordIsLive DEF NoticeLoss
<1>10. ASSUME NEW f \in Executors, HeartbeatDies(f) PROVE Good(e)
  BY <1>1, <1>10 DEF HeartbeatDies
<1>11. ASSUME NEW f \in Executors, StartNode(f) PROVE Good(e)
  BY <1>11 DEF StartNode, Executing, ExecutorOwnsRecord
<1>12. ASSUME NEW f \in Executors, CommitNode(f) PROVE Good(e)
  BY <1>12 DEF CommitNode, Executing, ExecutorOwnsRecord
<1>13. ASSUME NEW f \in Executors, Finish(f) PROVE Good(e)
  BY <1>3, <1>13 DEF Finish, Executing, ExecutorOwnsRecord
<1>14. ASSUME NEW f \in Executors, Crash(f) PROVE Good(e)
  BY <1>14 DEF Crash, Executing, ExecutorOwnsRecord
<1>15. CASE UNCHANGED vars
  BY <1>15 DEF vars, Executing, ExecutorOwnsRecord
<1> QED
  BY <1>4, <1>5, <1>6, <1>7, <1>8, <1>9, <1>10, <1>11, <1>12, <1>13, <1>14,
     <1>15 DEF Next, Step

LEMMA LeaseInvHolds == Spec => []LeaseInv
<1>1. Init => LeaseInv
  <2> SUFFICES ASSUME Init PROVE LeaseInv
    OBVIOUS
  <2>1. TypeOK
    BY InitTyped
  <2>2. ExecutorOwnsRecord /\ IdleHasNoHeartbeat
    BY DEF Init, ExecutorOwnsRecord, IdleHasNoHeartbeat, Executing
  <2> QED
    BY <2>1, <2>2 DEF LeaseInv
<1>2. LeaseInv /\ [Next]_vars /\ TypeOK' => LeaseInv'
  BY IdleInductive, OwnershipInductive DEF LeaseInv
<1> QED
  BY <1>1, <1>2, TypeCorrect, PTL DEF Spec

(***************************************************************************)
(* Until a heartbeat misses the TTL, an executor at work owns the record,  *)
(* and the record is unexpired.                                            *)
(***************************************************************************)
THEOREM OwnershipHolds == Spec => []ExecutorOwnsRecord
<1>1. LeaseInv => ExecutorOwnsRecord
  BY DEF LeaseInv
<1> QED
  BY <1>1, LeaseInvHolds, PTL

(***************************************************************************)
(* Until a heartbeat misses the TTL, at most one executor is at work on an *)
(* Attempt.                                                                *)
(***************************************************************************)
THEOREM MutualExclusion == Spec => []SingleExecutor
<1>1. LeaseInv => SingleExecutor
  BY OwnersAgree
<1> QED
  BY <1>1, LeaseInvHolds, PTL

-------------------------------------------------------------------------------
\* The refinement mapping names the executor at work, if there is one.
LEMMA ExecutorIs ==
  ASSUME SingleExecutor, ~late, NEW e \in Executors, Executing(e)
  PROVE  executor = e
BY DEF executor, SingleExecutor

LEMMA ExecutorIsNone ==
  ASSUME late \/ \A e \in Executors : ~Executing(e)
  PROVE  executor = NoOwner
BY DEF executor

(***************************************************************************)
(* The lease implements exclusive execution: the Attempt is only claimed   *)
(* when nobody executes it, and given up before somebody else claims it.   *)
(* A late heartbeat ends the execution of the abstract specification.      *)
(***************************************************************************)
THEOREM Refinement == Spec => ExclusiveSpec
<1>1. Init => Exclusive!Init
  BY ExecutorIsNone DEF Init, Exclusive!Init, Executing
<1>2. ASSUME LeaseInv, LeaseInv', [Next]_vars
      PROVE  [Exclusive!Next]_executor
  <2>1. SingleExecutor /\ SingleExecutor'
    BY <1>2 DEF LeaseInv, ExecutorOwnsRecord, SingleExecutor
  <2>2. executor \in Executors \cup {NoOwner}
    BY DEF executor
  <2>3. CASE executor' = NoOwner
    BY <2>2, <2>3, LeaseAssumption DEF Exclusive!Next, Exclusive!Yield
  <2>4. CASE executor' # NoOwner
    <3>1. ~late' /\ \E f \in Executors : Executing(f)'
      BY <2>4 DEF executor
    <3>2. ~late
      BY <1>2, <3>1
      DEF Next, Step, vars, Tick, Contend, Abandon, Acquire, Renew, NoticeLoss,
          HeartbeatDies, StartNode, CommitNode, Finish, Crash
    <3>3. PICK f \in Executors : Executing(f)'
      BY <3>1
    <3>4. executor' = f
      BY <2>1, <3>1, <3>3 DEF executor, SingleExecutor
    <3>5. CASE Executing(f)
      BY <2>1, <3>2, <3>4, <3>5, ExecutorIs
    <3>6. CASE ~Executing(f)
      <4>1. Acquire(f)
        BY <1>2, <3>3, <3>6
        DEF Next, Step, vars, Tick, Contend, Abandon, Acquire, Renew, NoticeLoss,
            HeartbeatDies, StartNode, CommitNode, Finish, Crash, Executing,
            LeaseInv, TypeOK
      <4>2. \A e \in Executors : ~Executing(e)
        BY <1>2, <3>2, <4>1, RecordIsLive DEF Acquire
      <4> QED
        BY <3>4, <4>2, ExecutorIsNone DEF Exclusive!Next, Exclusive!Claim
    <3> QED
      BY <3>5, <3>6
  <2> QED
    BY <2>3, <2>4
<1> QED
  BY <1>1, <1>2, LeaseInvHolds, PTL DEF Spec, ExclusiveSpec, Exclusive!Spec
-------------------------------------------------------------------------------
(***************************************************************************)
(* However late heartbeats are, and even after one died, an unexpired      *)
(* record is given up only by the executor it belongs to, as it ends       *)
(* (acquire compares the expiry, release compares the token).              *)
(***************************************************************************)
THEOREM NotTakenEarly == Spec => NoEarlyTakeover
<1> DEFINE Early(e) == record.owner = e /\ record.left > 0 /\ record'.owner # e
           Ended(e) == Executing(e) /\ ~Executing(e)' /\ record'.owner = NoOwner
<1>1. ASSUME TypeOK, Next, NEW e \in Executors, Early(e)
      PROVE  Ended(e)
  <2>1. ~Unclaimed
    BY <1>1, LeaseAssumption DEF Unclaimed
  <2>2. record \in [owner : Executors \cup {NoOwner}, left : 0..TTL]
    BY <1>1 DEF TypeOK
  <2>3. ~Tick
    BY <1>1, <2>2 DEF Tick
  <2>4. ASSUME NEW f \in Executors, Step(f) PROVE Finish(f)
    <3>1. ~Acquire(f)
      BY <2>1 DEF Acquire
    <3>2. ~Renew(f)
      BY <1>1, <2>2 DEF Renew
    <3>3. record' # record
      BY <1>1
    <3> QED
      BY <2>4, <3>1, <3>2, <3>3
         DEF Step, Contend, Abandon, NoticeLoss, HeartbeatDies, StartNode,
             CommitNode, Crash
  <2>5. PICK f \in Executors : Finish(f)
    BY <1>1, <2>3, <2>4 DEF Next
  <2>6. f = e /\ record'.owner = NoOwner
    BY <1>1, <2>5 DEF Finish
  <2>7. phase \in [Executors -> Phases]
    BY <1>1 DEF TypeOK
  <2> QED
    BY <2>5, <2>6, <2>7 DEF Finish, Executing
<1>2. TypeOK /\ [Next]_vars => [\A e \in Executors : Early(e) => Ended(e)]_vars
  BY <1>1
<1> QED
  BY <1>2, TypeCorrect, PTL DEF Spec, NoEarlyTakeover
===============================================================================
