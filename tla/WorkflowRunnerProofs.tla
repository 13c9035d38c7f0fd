--------------------------- MODULE WorkflowRunnerProofs ---------------------------
(***************************************************************************)
(* Four invariants: IInv, AInv on top of it, KInv and GInv each on AInv.   *)
(*                                                                         *)
(* IInv: the checkpoints of an Attempt implement DurableDag, for every     *)
(* plan and any number of executors, overlapping or not, with every        *)
(* interruption.                                                           *)
(*                                                                         *)
(* The argument: an executor only counts a node as completed while a       *)
(* checkpoint with the hashes it uses is there (Known); so the key it      *)
(* commits with is the one any committed checkpoint of that node has       *)
(* (Sound), and commit_completed never takes its new-revision branch on a  *)
(* committed node.                                                         *)
(*                                                                         *)
(* AInv (executions do not overlap): keys tell the truth, and completed    *)
(* means committed.  KInv: committed work is kept, until an execution runs *)
(* with reuse switched off.  GInv: what is ready was judged.               *)
(***************************************************************************)
EXTENDS WorkflowRunner, TLAPS

\* A committed node was committed for what its dependencies are committed with.
Sound ==
    \A n \in Nodes :
        /\ checkpoint[n].revision = 0 =>
              /\ checkpoint[n].key = [d \in Deps[n] |-> "none"]
              /\ checkpoint[n].out = "none"
        /\ checkpoint[n].revision > 0 =>
              /\ checkpoint[n].out \in Outputs
              /\ \A d \in Deps[n] : /\ checkpoint[d].revision > 0
                                    /\ checkpoint[n].key[d] = checkpoint[d].out

\* What an executor holds for completed is committed, with the hash it holds.
Known ==
    \A e \in Executors : \A n \in Nodes :
        result[e][n].status = "completed" =>
            checkpoint[n].revision > 0 /\ hashes[e][n] = checkpoint[n].out

\* While a node executes, its dependencies are completed.
Fed ==
    \A e \in Executors :
        phase[e] \in {"working", "cleared", "produced", "hashed"} =>
            /\ pos[e] <= Len(Order)
            /\ \A d \in Deps[Order[pos[e]]] : result[e][d].status = "completed"

\* What is hashed is there.
Written ==
    \A e \in Executors :
        phase[e] = "hashed" => draft[e].out \in Outputs

IInv == TypeOK /\ Sound /\ Known /\ Fed /\ Written

--------------------------------------------------------------------------------
LEMMA PlanLength == Len(Order) \in Nat /\ MaxStarts \in Nat
  BY RunnerAssumption DEF RunnerAssumption

LEMMA ContentType == ASSUME TypeOK, NEW n \in Nodes PROVE Content(n) \in Outputs
  <1>1. file[n] \in Versions \cup {"none"}
    BY DEF TypeOK
  <1> QED
    BY <1>1 DEF Content, Outputs

LEMMA InitIInv == Init => IInv
  <1> SUFFICES ASSUME Init PROVE IInv
    OBVIOUS
  <1> USE RunnerAssumption DEF Init, NoCheckpoint, Unseen, Plain, Blank, Draft
  <1>1. /\ DOMAIN checkpoint = Nodes
        /\ \A n \in Nodes : /\ checkpoint[n].revision = 0
                            /\ checkpoint[n].key = [d \in Deps[n] |-> "none"]
                            /\ checkpoint[n].out = "none"
                            /\ checkpoint[n].result \in Results
    BY DEF Results
  <1>2. /\ outcome.delivery = "none" /\ outcome.results \in [Nodes -> Results]
        /\ result \in [Executors -> [Nodes -> Results]]
        /\ \A e \in Executors : \A n \in Nodes : result[e][n].status = "unseen"
    BY DEF Results
  <1>3. /\ DOMAIN draft = Executors
        /\ \A e \in Executors : draft[e].out = "none" /\ draft[e].result \in Results
    BY DEF Results
  <1>4. pos \in [Executors -> 1..(Len(Order) + 1)] /\ starts \in 0..MaxStarts
    <2>1. Len(Order) \in Nat /\ MaxStarts \in Nat
      BY PlanLength
    <2>2. pos = [e \in Executors |-> 1] /\ starts = 0
      OBVIOUS
    <2> HIDE RunnerAssumption DEF Init
    <2> QED
      BY <2>1, <2>2
  <1>5. TypeOK
    BY <1>1, <1>2, <1>3, <1>4 DEF TypeOK
  <1>6. phase = [e \in Executors |-> "idle"]
    OBVIOUS
  <1> HIDE DEF Init
  <1>7. Sound /\ Known
    BY <1>1, <1>2 DEF Sound, Known
  <1>8. Fed /\ Written
    BY <1>6 DEF Fed, Written
  <1> QED
    BY <1>5, <1>7, <1>8 DEF IInv

\* The node an executor is at.
LEMMA NodeType ==
    ASSUME TypeOK, NEW e \in Executors, pos[e] <= Len(Order)
    PROVE  Order[pos[e]] \in Nodes
  BY RunnerAssumption DEF TypeOK

(***************************************************************************)
(* Filing a result other than "completed" disturbs nothing: the steps that *)
(* block, interrupt, fail, wait or raise.                                  *)
(***************************************************************************)
LEMMA FilingKeeps ==
    ASSUME IInv, NEW e \in Executors, NEW r \in Results, r.status # "completed",
           pos[e] <= Len(Order),
           File(e, r), UNCHANGED <<checkpoint, file, outcome, requests, hashes>>,
           approval' \in [Nodes -> {"none", "pending", "approved", "rejected", "expired"}]
    PROVE  IInv'
  <1>0. Node(e) \in Nodes
    BY NodeType DEF IInv, Node
  <1> DEFINE n == Node(e)
  <1>1. /\ result' = [result EXCEPT ![e][n] = r]
        /\ pos' = [pos EXCEPT ![e] = @ + 1]
        /\ phase' = [phase EXCEPT ![e] = "running"]
        /\ draft' = [draft EXCEPT ![e] = Blank]
    BY DEF File
  <1>2. TypeOK /\ Sound /\ Known /\ Fed /\ Written
    BY DEF IInv
  <1>3. Blank.out = "none" /\ Blank.result \in Results
    BY DEF Blank, Draft, Unseen, Plain, Results
  <1> HIDE DEF n
  <1>4. n \in Nodes
    BY <1>0 DEF n
  <1>5. result' \in [Executors -> [Nodes -> Results]]
    BY <1>1, <1>2, <1>4 DEF TypeOK
  <1>6. pos' \in [Executors -> 1..(Len(Order) + 1)]
    BY <1>1, <1>2, RunnerAssumption DEF TypeOK
  <1>7. TypeOK'
    BY <1>1, <1>2, <1>3, <1>5, <1>6 DEF TypeOK, requests
  <1>8. Sound'
    BY <1>2 DEF Sound
  <1>9. \A f \in Executors : \A m \in Nodes :
            result'[f][m].status = "completed" => result[f][m].status = "completed"
    BY <1>1, <1>2, <1>4 DEF TypeOK
  <1>10. Known'
    BY <1>2, <1>9 DEF Known
  <1>11. \A f \in Executors :
            phase'[f] \in {"working", "cleared", "produced", "hashed"} =>
                f # e /\ phase[f] = phase'[f] /\ pos'[f] = pos[f] /\ result'[f] = result[f]
                /\ draft'[f] = draft[f]
    BY <1>1, <1>2 DEF TypeOK
  <1>12. Fed' /\ Written'
    BY <1>2, <1>11 DEF Fed, Written
  <1> QED
    BY <1>7, <1>8, <1>10, <1>12 DEF IInv

\* The steps that file such a result.
LEMMA FilingSteps ==
    ASSUME IInv, NEW e \in Executors,
           Block(e) \/ Interrupted(e) \/ WorkFails(e) \/ AskApproval(e)
           \/ HandlerFails(e) \/ Raise(e)
    PROVE  IInv'
  <1>1. PICK r \in Results : r.status # "completed" /\ File(e, r)
    BY DEF Block, Interrupted, WorkFails, AskApproval, HandlerFails, Raise, Plain, Verdict,
           Results, Failures, Axis
  <1>2. pos[e] <= Len(Order)
    BY DEF Block, Interrupted, WorkFails, AskApproval, HandlerFails, Raise,
           Executes, Ready, Pending, At
  <1>3. UNCHANGED <<checkpoint, file, outcome, requests, hashes>>
    BY DEF Block, Interrupted, WorkFails, AskApproval, HandlerFails, Raise, durable
  <1>4. approval' \in [Nodes -> {"none", "pending", "approved", "rejected", "expired"}]
    BY DEF Block, Interrupted, WorkFails, AskApproval, HandlerFails, Raise, durable,
           IInv, TypeOK
  <1> QED
    BY <1>1, <1>2, <1>3, <1>4, FilingKeeps

(***************************************************************************)
(* A step of one executor outside execute_node keeps the invariant if what *)
(* it then holds for completed is committed.                               *)
(***************************************************************************)
LEMMA ScanKeeps ==
    ASSUME IInv, NEW e \in Executors, NEW p \in {"idle", "seeding", "running"},
           phase' = [phase EXCEPT ![e] = p],
           pos' \in [Executors -> 1..(Len(Order) + 1)],
           result' \in [Executors -> [Nodes -> Results]],
           hashes' \in [Executors -> [Nodes -> Outputs \cup {"none"}]],
           \A f \in Executors \ {e} :
               pos'[f] = pos[f] /\ result'[f] = result[f] /\ hashes'[f] = hashes[f],
           \A n \in Nodes : result'[e][n].status = "completed" =>
               checkpoint[n].revision > 0 /\ hashes'[e][n] = checkpoint[n].out,
           draft' = draft \/ draft' = [draft EXCEPT ![e] = Blank],
           outcome'.delivery \in {"none", "pending", "ready", "blocked"},
           outcome'.results \in [Nodes -> Results],
           cancelled' \in BOOLEAN, overdue' \in BOOLEAN, lost' \subseteq Executors,
           starts' \in 0..MaxStarts, forgot' \in BOOLEAN, UNCHANGED durable
    PROVE  IInv'
  <1>1. TypeOK /\ Sound /\ Known /\ Fed /\ Written
    BY DEF IInv
  <1>2. UNCHANGED <<checkpoint, file, approval>>
    BY DEF durable
  <1>3. DOMAIN draft = Executors /\ DOMAIN draft' = Executors
    BY <1>1 DEF TypeOK
  <1>4. Blank.out = "none" /\ Blank.result \in Results
    BY DEF Blank, Draft, Unseen, Plain, Results
  <1>5. \A f \in Executors : draft'[f] = draft[f] \/ draft'[f] = Blank
    BY <1>3
  <1>6. \A f \in Executors : draft'[f].out \in Outputs \cup {"none"}
                             /\ draft'[f].result \in Results
    <2> TAKE f \in Executors
    <2>1. draft[f].out \in Outputs \cup {"none"} /\ draft[f].result \in Results
      BY <1>1 DEF TypeOK
    <2> QED
      BY <1>4, <1>5, <2>1
  <1>7. phase' \in [Executors -> {"idle", "seeding", "running", "working", "cleared",
                                 "produced", "hashed"}]
    BY <1>1 DEF TypeOK
  <1>8. TypeOK'
    BY <1>1, <1>2, <1>3, <1>6, <1>7 DEF TypeOK
  <1>9. Sound'
    BY <1>1, <1>2 DEF Sound
  <1>10. ASSUME NEW f \in Executors, NEW n \in Nodes, result'[f][n].status = "completed"
         PROVE  checkpoint[n].revision > 0 /\ hashes'[f][n] = checkpoint[n].out
    <2>1. CASE f = e
      BY <1>10, <2>1
    <2>2. CASE f # e
      <3>1. result'[f] = result[f] /\ hashes'[f] = hashes[f]
        BY <2>2
      <3> QED
        BY <1>1, <1>10, <3>1 DEF Known
    <2> QED
      BY <2>1, <2>2
  <1>11. Known'
    BY <1>2, <1>10 DEF Known
  <1>12. \A f \in Executors :
            phase'[f] \in {"working", "cleared", "produced", "hashed"} =>
                f # e /\ phase[f] = phase'[f]
    BY <1>1 DEF TypeOK
  <1>13. \A f \in Executors \ {e} : draft'[f] = draft[f]
    BY <1>3
  <1>14. Fed'
    <2> SUFFICES ASSUME NEW f \in Executors, phase'[f] \in {"working", "cleared", "produced", "hashed"}
                 PROVE  /\ pos'[f] <= Len(Order)
                        /\ \A d \in Deps[Order[pos'[f]]] :
                              result'[f][d].status = "completed"
      BY DEF Fed
    <2>1. f # e /\ phase[f] = phase'[f]
      BY <1>12
    <2>2. pos'[f] = pos[f] /\ result'[f] = result[f]
      BY <2>1
    <2> QED
      BY <1>1, <2>1, <2>2 DEF Fed
  <1>15. Written'
    BY <1>1, <1>2, <1>12, <1>13 DEF Written
  <1> QED
    BY <1>8, <1>9, <1>11, <1>14, <1>15 DEF IInv

\* The steps of the seed loop, the scheduler's own, and the ends of an execution.
LEMMA ScanSteps ==
    ASSUME IInv, NEW e \in Executors,
           Start(e) \/ Seed(e) \/ Seeded(e) \/ Reuse(e) \/ Finish(e) \/ Crash(e)
    PROVE  IInv'
  <1>0. TypeOK /\ Sound /\ Known
    BY DEF IInv
  <1>1. Unseen \in Results /\ Unseen.status # "completed"
    BY DEF Unseen, Plain, Results
  <1>2. Len(Order) \in Nat /\ MaxStarts \in Nat
    BY PlanLength
  <1>3. outcome.delivery \in {"none", "pending", "ready", "blocked"}
        /\ outcome.results \in [Nodes -> Results]
        /\ cancelled \in BOOLEAN /\ overdue \in BOOLEAN /\ lost \subseteq Executors
        /\ starts \in 0..MaxStarts /\ forgot \in BOOLEAN
    BY <1>0 DEF TypeOK
  <1>4. /\ pos \in [Executors -> 1..(Len(Order) + 1)]
        /\ result \in [Executors -> [Nodes -> Results]]
        /\ hashes \in [Executors -> [Nodes -> Outputs \cup {"none"}]]
    BY <1>0 DEF TypeOK
  <1>5. \A n \in Nodes : result[e][n].status = "completed" =>
            checkpoint[n].revision > 0 /\ hashes[e][n] = checkpoint[n].out
    BY <1>0 DEF Known
  <1>6. CASE Start(e) \/ Crash(e)
    <2>1. /\ pos' = [pos EXCEPT ![e] = 1]
          /\ result' = [result EXCEPT ![e] = [n \in Nodes |-> Unseen]]
          /\ hashes' = [hashes EXCEPT ![e] = [n \in Nodes |-> "none"]]
          /\ draft' = [draft EXCEPT ![e] = Blank]
          /\ UNCHANGED durable /\ UNCHANGED outcome
      BY <1>6 DEF Start, Crash
    <2>2. PICK p \in {"idle", "seeding", "running"} : phase' = [phase EXCEPT ![e] = p]
      BY <1>6 DEF Start, Crash
    <2>3. cancelled' \in BOOLEAN /\ overdue' \in BOOLEAN /\ lost' \subseteq Executors
          /\ starts' \in 0..MaxStarts /\ forgot' \in BOOLEAN
      <3>1. CASE Start(e)
        <4>1. starts < MaxStarts /\ starts' = starts + 1
          BY <3>1 DEF Start
        <4>2. starts' \in 0..MaxStarts
          BY <1>2, <1>3, <4>1
        <4>3. (cancelled' = FALSE /\ overdue' = FALSE) \/ UNCHANGED <<cancelled, overdue>>
          BY <3>1 DEF Start
        <4>4. lost' = lost \ {e}
          BY <3>1 DEF Start
        <4>5. forgot' \in BOOLEAN
          BY <1>3, <3>1 DEF Start
        <4> QED
          BY <1>3, <4>2, <4>3, <4>4, <4>5
      <3>2. CASE Crash(e)
        BY <1>3, <3>2 DEF Crash, requests
      <3> QED
        BY <1>6, <3>1, <3>2
    <2>4. /\ pos' \in [Executors -> 1..(Len(Order) + 1)]
          /\ result' \in [Executors -> [Nodes -> Results]]
          /\ hashes' \in [Executors -> [Nodes -> Outputs \cup {"none"}]]
      BY <1>1, <1>2, <1>4, <2>1
    <2>5. \A f \in Executors \ {e} :
             pos'[f] = pos[f] /\ result'[f] = result[f] /\ hashes'[f] = hashes[f]
      BY <1>4, <2>1
    <2>6. \A n \in Nodes : result'[e][n].status # "completed"
      BY <1>1, <1>4, <2>1
    <2> QED
      BY <1>3, <2>1, <2>2, <2>3, <2>4, <2>5, <2>6, ScanKeeps
  <1>7. CASE Seed(e)
    <2>1. /\ pos[e] <= Len(Order) /\ phase[e] = "seeding"
          /\ pos' = [pos EXCEPT ![e] = @ + 1]
          /\ UNCHANGED <<durable, outcome, requests, phase, draft>>
      BY <1>7 DEF Seed, At
    <2>2. phase' = [phase EXCEPT ![e] = "seeding"]
      BY <1>0, <2>1 DEF TypeOK
    <2>3. /\ pos' \in [Executors -> 1..(Len(Order) + 1)]
          /\ \A f \in Executors \ {e} : pos'[f] = pos[f]
      BY <1>2, <1>4, <2>1
    <2>4. Node(e) \in Nodes
      BY <1>0, <2>1, NodeType DEF Node
    <2> DEFINE n == Node(e)
    <2>5. \/ /\ checkpoint[n].revision > 0
             /\ result' = [result EXCEPT ![e][n] = checkpoint[n].result]
             /\ hashes' = [hashes EXCEPT ![e][n] = checkpoint[n].out]
          \/ UNCHANGED <<result, hashes>>
      BY <1>7 DEF Seed, Matches, Committed
    <2>6. checkpoint[n].result \in Results /\ checkpoint[n].out \in Outputs \cup {"none"}
      BY <1>0, <2>4 DEF TypeOK
    <2> HIDE DEF n
    <2>7. n \in Nodes
      BY <2>4 DEF n
    <2>8. /\ result' \in [Executors -> [Nodes -> Results]]
          /\ hashes' \in [Executors -> [Nodes -> Outputs \cup {"none"}]]
          /\ \A f \in Executors \ {e} : result'[f] = result[f] /\ hashes'[f] = hashes[f]
      <3>1. CASE UNCHANGED <<result, hashes>>
        BY <1>4, <3>1
      <3>2. CASE /\ result' = [result EXCEPT ![e][n] = checkpoint[n].result]
                 /\ hashes' = [hashes EXCEPT ![e][n] = checkpoint[n].out]
        <4>1. result' \in [Executors -> [Nodes -> Results]]
          BY <1>4, <2>6, <2>7, <3>2
        <4>2. hashes' \in [Executors -> [Nodes -> Outputs \cup {"none"}]]
          BY <1>4, <2>6, <2>7, <3>2
        <4> QED
          BY <1>4, <3>2, <4>1, <4>2
      <3> QED
        BY <2>5, <3>1, <3>2
    <2>9. ASSUME NEW m \in Nodes, result'[e][m].status = "completed"
          PROVE  checkpoint[m].revision > 0 /\ hashes'[e][m] = checkpoint[m].out
      <3>1. CASE m = n /\ checkpoint[n].revision > 0
                 /\ hashes' = [hashes EXCEPT ![e][n] = checkpoint[n].out]
        BY <1>4, <2>7, <3>1
      <3>2. CASE result'[e][m] = result[e][m] /\ hashes'[e][m] = hashes[e][m]
        BY <1>5, <2>9, <3>2
      <3>3. ASSUME m # n PROVE result'[e][m] = result[e][m] /\ hashes'[e][m] = hashes[e][m]
        BY <1>4, <2>5, <2>7, <3>3
      <3> QED
        BY <2>5, <3>1, <3>2, <3>3
    <2> QED
      BY <1>3, <2>1, <2>2, <2>3, <2>8, <2>9, ScanKeeps DEF requests
  <1>8. CASE Seeded(e) \/ Reuse(e)
    <2>1. UNCHANGED <<durable, outcome, requests, result, hashes, draft>>
      BY <1>8 DEF Seeded, Reuse
    <2>2. phase' = [phase EXCEPT ![e] = "running"]
      BY <1>0, <1>8 DEF Seeded, Reuse, At, TypeOK
    <2>3. \/ pos' = [pos EXCEPT ![e] = 1]
          \/ pos[e] <= Len(Order) /\ pos' = [pos EXCEPT ![e] = @ + 1]
      BY <1>8 DEF Seeded, Reuse, At
    <2>4. /\ pos' \in [Executors -> 1..(Len(Order) + 1)]
          /\ \A f \in Executors \ {e} : pos'[f] = pos[f]
      BY <1>2, <1>4, <2>3
    <2> QED
      BY <1>3, <1>4, <1>5, <2>1, <2>2, <2>4, ScanKeeps DEF requests
  <1>9. CASE Finish(e)
    <2>1. /\ phase' = [phase EXCEPT ![e] = "idle"]
          /\ UNCHANGED <<durable, requests, pos, result, hashes, draft>>
      BY <1>9 DEF Finish
    <2>2. outcome'.delivery \in {"none", "pending", "ready", "blocked"}
          /\ outcome'.results \in [Nodes -> Results]
      <3>1. outcome'.results = result[e]
        BY <1>9 DEF Finish
      <3>2. outcome'.delivery =
              Delivery(ExecutionStatus(e), ValidationStatus(e), GovernanceStatus(e))
        BY <1>9 DEF Finish
      <3>3. ExecutionStatus(e) \in Failures \cup {"waiting_for_input", "completed"}
        BY DEF ExecutionStatus, Failures
      <3>4. ValidationStatus(e) \in {"not_requested", "not_started", "failed", "passed"}
        BY DEF ValidationStatus
      <3>5. ASSUME NEW x \in Failures \cup {"waiting_for_input", "completed"},
                   NEW v \in {"not_requested", "not_started", "failed", "passed"}, NEW g
            PROVE  Delivery(x, v, g) \in {"none", "pending", "ready", "blocked"}
        BY DEF Delivery, Failures
      <3> QED
        BY <1>4, <3>1, <3>2, <3>3, <3>4, <3>5
    <2> QED
      BY <1>3, <1>4, <1>5, <2>1, <2>2, ScanKeeps DEF requests
  <1> QED
    BY <1>6, <1>7, <1>8, <1>9

(***************************************************************************)
(* A step inside execute_node keeps the invariant if the node's            *)
(* dependencies are completed and what it says is produced or hashed is.   *)
(***************************************************************************)
LEMMA WorkKeeps ==
    ASSUME IInv, NEW e \in Executors, NEW p \in {"working", "cleared", "produced", "hashed"}, NEW D,
           pos[e] <= Len(Order),
           \A d \in Deps[Node(e)] : result[e][d].status = "completed",
           phase' = [phase EXCEPT ![e] = p],
           draft' = [draft EXCEPT ![e] = D] \/ (UNCHANGED draft /\ D = draft[e]),
           D.out \in Outputs \cup {"none"}, D.result \in Results,
           p = "hashed" => D.out \in Outputs,
           \/ UNCHANGED file
           \/ \E v \in Versions \cup {"none"} : file' = [file EXCEPT ![Node(e)] = v],
           UNCHANGED <<checkpoint, approval, outcome, requests, pos, result, hashes>>
    PROVE  IInv'
  <1>1. TypeOK /\ Sound /\ Known /\ Fed /\ Written
    BY DEF IInv
  <1>2. Order[pos[e]] \in Nodes /\ Node(e) = Order[pos[e]]
    BY <1>1, NodeType DEF Node
  <1>3. file' \in [Nodes -> Versions \cup {"none"}]
    <2>1. file \in [Nodes -> Versions \cup {"none"}]
      BY <1>1 DEF TypeOK
    <2> QED
      BY <1>2, <2>1
  <1>4. /\ DOMAIN draft' = Executors /\ draft'[e] = D
        /\ \A f \in Executors \ {e} : draft'[f] = draft[f]
    BY <1>1 DEF TypeOK
  <1>5. \A f \in Executors : draft'[f].out \in Outputs \cup {"none"}
                             /\ draft'[f].result \in Results
    BY <1>1, <1>4 DEF TypeOK
  <1>6. phase' \in [Executors -> {"idle", "seeding", "running", "working", "cleared",
                                 "produced", "hashed"}]
    BY <1>1 DEF TypeOK
  <1>7. TypeOK'
    BY <1>1, <1>3, <1>4, <1>5, <1>6 DEF TypeOK, requests
  <1>8. Sound' /\ Known'
    BY <1>1 DEF Sound, Known
  <1>9. phase'[e] = p /\ \A f \in Executors \ {e} : phase'[f] = phase[f]
    BY <1>1 DEF TypeOK
  <1>10. Fed'
    BY <1>1, <1>2, <1>9 DEF Fed
  <1>11. Written'
    BY <1>1, <1>4, <1>9 DEF Written
  <1> QED
    BY <1>7, <1>8, <1>10, <1>11 DEF IInv

\* The steps inside execute_node, before the checkpoint.
LEMMA WorkSteps ==
    ASSUME IInv, NEW e \in Executors,
           BeginWork(e) \/ Clear(e) \/ Produce(e) \/ Approved(e) \/ HandlerPasses(e) \/ HashOutputs(e)
    PROVE  IInv'
  <1>1. TypeOK /\ Fed /\ Written
    BY DEF IInv
  <1>2. pos[e] <= Len(Order)
    BY DEF BeginWork, Clear, Produce, Approved, HandlerPasses, HashOutputs, Executes, Ready,
           Pending, At
  <1>3. Order[pos[e]] \in Nodes /\ Node(e) = Order[pos[e]]
    BY <1>1, <1>2, NodeType DEF Node
  <1>4. \A d \in Deps[Node(e)] : result[e][d].status = "completed"
    <2>1. CASE Executes(e)
      BY <2>1 DEF Executes, Ready, Succeeded
    <2>2. CASE phase[e] \in {"working", "cleared", "produced"}
      BY <1>1, <1>3, <2>2 DEF Fed
    <2> QED
      BY <2>1, <2>2 DEF BeginWork, Clear, Produce, Approved, HandlerPasses, HashOutputs, At
  <1>5. Success(Node(e)) \in Results /\ Unseen \in Results
    BY DEF Success, Verdict, Axis, Plain, Unseen, Results
  <1>6. \A used, snapshot, out, r : /\ Draft(used, snapshot, out, r).out = out
                                   /\ Draft(used, snapshot, out, r).result = r
    BY DEF Draft
  <1>7. CASE BeginWork(e)
    <2>1. /\ phase' = [phase EXCEPT ![e] = "working"]
          /\ draft' = [draft EXCEPT ![e] = Draft(Used(Node(e)), "none", "none", Unseen)]
          /\ UNCHANGED <<checkpoint, file, approval, outcome, requests, pos, result, hashes>>
      BY <1>7 DEF BeginWork, durable
    <2> DEFINE D == Draft(Used(Node(e)), "none", "none", Unseen)
    <2>2. /\ draft' = [draft EXCEPT ![e] = D]
          /\ D.out = "none" /\ D.result \in Results
      BY <1>5, <1>6, <2>1
    <2> HIDE DEF D
    <2> QED
      BY <1>2, <1>4, <2>1, <2>2, WorkKeeps
  <1>8. CASE Clear(e)
    <2>1. /\ phase' = [phase EXCEPT ![e] = "cleared"] /\ phase[e] = "working"
          /\ file' = [file EXCEPT ![Node(e)] = "none"]
          /\ UNCHANGED <<checkpoint, approval, outcome, requests, pos, result, hashes>>
      BY <1>8 DEF Clear, At
    <2> DEFINE D == draft[e]
    <2>2. /\ UNCHANGED draft /\ D = draft[e]
          /\ D.out \in Outputs \cup {"none"} /\ D.result \in Results
      BY <1>1, <1>8 DEF Clear, TypeOK
    <2> HIDE DEF D
    <2> QED
      BY <1>2, <1>4, <2>1, <2>2, WorkKeeps
  <1>9. CASE Produce(e)
    <2>1. PICK v \in Versions : file' = [file EXCEPT ![Node(e)] = v]
      BY <1>9 DEF Produce
    <2>3. /\ phase' = [phase EXCEPT ![e] = "produced"]
          /\ UNCHANGED <<checkpoint, approval, outcome, requests, pos, result, hashes>>
      BY <1>9 DEF Produce
    <2> DEFINE D == draft'[e]
    <2>2. PICK snapshot : D = Draft(draft[e].used, snapshot, "none", Success(Node(e)))
      BY <1>1, <1>9 DEF Produce, TypeOK
    <2>4. /\ draft' = [draft EXCEPT ![e] = D]
          /\ D.out = "none" /\ D.result \in Results
      BY <1>1, <1>5, <1>6, <1>9, <2>2 DEF Produce, TypeOK
    <2> HIDE DEF D
    <2> QED
      BY <1>2, <1>4, <2>1, <2>3, <2>4, WorkKeeps
  <1>10. CASE Approved(e) \/ HandlerPasses(e)
    <2>2. /\ phase' = [phase EXCEPT ![e] = "produced"]
          /\ draft' = [draft EXCEPT ![e] =
                           Draft(Used(Node(e)), "fixed", "none", Success(Node(e)))]
          /\ UNCHANGED <<checkpoint, file, approval, outcome, requests, pos, result, hashes>>
      BY <1>10 DEF Approved, HandlerPasses, Conclude, durable
    <2> DEFINE D == Draft(Used(Node(e)), "fixed", "none", Success(Node(e)))
    <2>3. /\ draft' = [draft EXCEPT ![e] = D]
          /\ D.out = "none" /\ D.result \in Results
      BY <1>5, <1>6, <2>2
    <2> HIDE DEF D
    <2> QED
      BY <1>2, <1>4, <2>2, <2>3, WorkKeeps
  <1>11. CASE HashOutputs(e)
    <2>1. /\ phase' = [phase EXCEPT ![e] = "hashed"]
          /\ draft' = [draft EXCEPT ![e] = Draft(draft[e].used, draft[e].snapshot,
                                                Content(Node(e)), draft[e].result)]
          /\ UNCHANGED <<checkpoint, file, approval, outcome, requests, pos, result, hashes>>
          /\ phase[e] = "produced"
      BY <1>1, <1>11 DEF HashOutputs, At, durable, TypeOK
    <2>3. Content(Node(e)) \in Outputs
      BY <1>1, <1>3, ContentType
    <2>4. draft[e].result \in Results
      BY <1>1 DEF TypeOK
    <2> DEFINE D == Draft(draft[e].used, draft[e].snapshot,
                           Content(Node(e)), draft[e].result)
    <2>5. /\ draft' = [draft EXCEPT ![e] = D]
          /\ D.out \in Outputs /\ D.result \in Results
      BY <1>6, <2>1, <2>3, <2>4
    <2> HIDE DEF D
    <2> QED
      BY <1>2, <1>4, <2>1, <2>5, WorkKeeps
  <1> QED
    BY <1>7, <1>8, <1>9, <1>10, <1>11

(***************************************************************************)
(* The heart of the argument: a node at its checkpoint with a key that the *)
(* checkpoint there has not has no checkpoint, and the key is made of the  *)
(* outputs its dependencies are committed with.                            *)
(***************************************************************************)
LEMMA KeyOfCommitted ==
    ASSUME IInv, NEW e \in Executors, At(e, "hashed")
    PROVE  /\ \A d \in Deps[Node(e)] : /\ checkpoint[d].revision > 0
                                       /\ Key(e, Node(e))[d] = checkpoint[d].out
           /\ ~SameKey(e) => checkpoint[Node(e)].revision = 0
  <1>1. TypeOK /\ Sound /\ Known /\ Fed
    BY DEF IInv
  <1>2. Node(e) \in Nodes /\ Node(e) = Order[pos[e]]
    BY <1>1, NodeType DEF Node, At
  <1>3. Deps[Node(e)] \subseteq Nodes
    BY <1>2, RunnerAssumption DEF RunnerAssumption
  <1>4. \A d \in Deps[Node(e)] : result[e][d].status = "completed"
    BY <1>1, <1>2 DEF Fed, At
  <1>5. \A d \in Deps[Node(e)] : checkpoint[d].revision > 0 /\ hashes[e][d] = checkpoint[d].out
    BY <1>1, <1>3, <1>4 DEF Known
  <1>6. Key(e, Node(e)) = [d \in Deps[Node(e)] |-> hashes[e][d]]
    BY DEF Key
  <1>7. ASSUME Committed(Node(e)) PROVE checkpoint[Node(e)].key = Key(e, Node(e))
    <2>1. checkpoint[Node(e)].key \in [Deps[Node(e)] -> Outputs \cup {"none"}]
      BY <1>1, <1>2 DEF TypeOK
    <2>2. \A d \in Deps[Node(e)] : checkpoint[Node(e)].key[d] = checkpoint[d].out
      BY <1>1, <1>2, <1>7 DEF Sound, Committed
    <2> QED
      BY <1>5, <1>6, <2>1, <2>2
  <1>8. checkpoint[Node(e)].revision \in Nat
    BY <1>1, <1>2 DEF TypeOK
  <1> QED
    BY <1>5, <1>6, <1>7, <1>8 DEF SameKey, Committed

\* What the new revision of a node's checkpoint says.
LEMMA NewCheckpoint ==
    ASSUME IInv, NEW e \in Executors, At(e, "hashed"), ~SameKey(e),
           checkpoint' = [checkpoint EXCEPT ![Node(e)] = Proposal(e)]
    PROVE  LET n == Node(e) IN
           /\ n \in Nodes /\ DOMAIN checkpoint' = Nodes
           /\ checkpoint[n].revision = 0 /\ checkpoint'[n].revision = 1
           /\ checkpoint'[n].key = Key(e, n)
           /\ checkpoint'[n].key \in [Deps[n] -> Outputs \cup {"none"}]
           /\ checkpoint'[n].out = draft[e].out /\ draft[e].out \in Outputs
           /\ checkpoint'[n].result \in Results
           /\ \A m \in Nodes \ {n} : checkpoint'[m] = checkpoint[m]
  <1>1. TypeOK /\ Sound /\ Known /\ Fed /\ Written
    BY DEF IInv
  <1>2. Node(e) \in Nodes
    BY <1>1, NodeType DEF Node, At
  <1>3. checkpoint[Node(e)].revision = 0
    BY KeyOfCommitted
  <1>4. DOMAIN checkpoint = Nodes
    BY <1>1 DEF TypeOK
  <1>5. checkpoint'[Node(e)] = Proposal(e)
    BY <1>2, <1>4
  <1>6. /\ Proposal(e).revision = 1 /\ Proposal(e).key = Key(e, Node(e))
        /\ Proposal(e).out = draft[e].out /\ Proposal(e).result = draft[e].result
    BY <1>3 DEF Proposal
  <1>7. Key(e, Node(e)) \in [Deps[Node(e)] -> Outputs \cup {"none"}]
    <2>1. hashes[e] \in [Nodes -> Outputs \cup {"none"}]
      BY <1>1 DEF TypeOK
    <2>2. Deps[Node(e)] \subseteq Nodes
      BY <1>2, RunnerAssumption DEF RunnerAssumption
    <2> QED
      BY <2>1, <2>2 DEF Key
  <1>8. draft[e].out \in Outputs /\ draft[e].result \in Results
    BY <1>1 DEF Written, TypeOK, At
  <1> QED
    BY <1>2, <1>3, <1>4, <1>5, <1>6, <1>7, <1>8

\* commit_completed: a first revision, a repetition or a conflict.
LEMMA CommitStep ==
    ASSUME IInv, NEW e \in Executors, Commit(e)
    PROVE  IInv'
  <1>1. TypeOK /\ Sound /\ Known /\ Fed /\ Written
    BY DEF IInv
  <1>2. At(e, "hashed") /\ pos[e] <= Len(Order)
    BY DEF Commit, At
  <1>3. Node(e) \in Nodes
    BY <1>1, <1>2, NodeType DEF Node
  <1>4. UNCHANGED <<file, approval, outcome, requests>>
    BY DEF Commit
  <1>5. CASE SameKey(e) /\ ~SameData(e)
    <2>1. File(e, Plain("failed")) /\ UNCHANGED <<checkpoint, hashes>>
      BY <1>5 DEF Commit
    <2>2. Plain("failed") \in Results /\ Plain("failed").status # "completed"
      BY DEF Plain, Results, Failures
    <2>3. approval' \in [Nodes -> {"none", "pending", "approved", "rejected", "expired"}]
      BY <1>1, <1>4 DEF TypeOK
    <2> QED
      BY <1>2, <1>4, <2>1, <2>2, <2>3, FilingKeeps
  <1>6. CASE \/ ~SameKey(e) /\ checkpoint' = [checkpoint EXCEPT ![Node(e)] = Proposal(e)]
             \/ SameKey(e) /\ SameData(e) /\ UNCHANGED checkpoint
    <2> DEFINE n == Node(e)
    <2>0. draft[e].result \in Results /\ Plain("failed") \in Results
      BY <1>1 DEF TypeOK, Plain, Results, Failures
    <2>1. PICK r \in Results :
          /\ result' = [result EXCEPT ![e][n] = r]
          /\ hashes' = [hashes EXCEPT ![e][n] = draft[e].out]
          /\ pos' = [pos EXCEPT ![e] = @ + 1]
          /\ phase' = [phase EXCEPT ![e] = "running"]
          /\ draft' = [draft EXCEPT ![e] = Blank]
      BY <1>6, <2>0 DEF Commit, Kept, File
    <2>2. /\ DOMAIN checkpoint' = Nodes
          /\ \A m \in Nodes :
               /\ checkpoint'[m].revision \in Nat
               /\ checkpoint'[m].key \in [Deps[m] -> Outputs \cup {"none"}]
               /\ checkpoint'[m].out \in Outputs \cup {"none"}
               /\ checkpoint'[m].result \in Results
      <3>1. CASE UNCHANGED checkpoint
        BY <1>1, <3>1 DEF TypeOK
      <3>2. CASE ~SameKey(e) /\ checkpoint' = [checkpoint EXCEPT ![Node(e)] = Proposal(e)]
        <4>1. /\ DOMAIN checkpoint' = Nodes /\ checkpoint'[n].revision = 1
              /\ checkpoint'[n].key \in [Deps[n] -> Outputs \cup {"none"}]
              /\ checkpoint'[n].out \in Outputs /\ checkpoint'[n].result \in Results
              /\ \A m \in Nodes \ {n} : checkpoint'[m] = checkpoint[m]
          BY <1>2, <3>2, NewCheckpoint
        <4>2. \A m \in Nodes \ {n} :
                 /\ checkpoint[m].revision \in Nat
                 /\ checkpoint[m].key \in [Deps[m] -> Outputs \cup {"none"}]
                 /\ checkpoint[m].out \in Outputs \cup {"none"}
                 /\ checkpoint[m].result \in Results
          BY <1>1 DEF TypeOK
        <4> QED
          BY <4>1, <4>2
      <3> QED
        BY <1>6, <3>1, <3>2
    <2>3. /\ checkpoint'[n].revision > 0 /\ checkpoint'[n].out = draft[e].out
          /\ \A m \in Nodes : checkpoint'[m] = checkpoint[m] \/ checkpoint[m].revision = 0
      BY <1>2, <1>6, NewCheckpoint DEF SameKey, SameData, Committed
    <2>4. ASSUME NEW m \in Nodes, NEW d \in Deps[m], checkpoint'[m].revision > 0
          PROVE  checkpoint'[d].revision > 0 /\ checkpoint'[m].key[d] = checkpoint'[d].out
      <3>1. d \in Nodes
        BY RunnerAssumption DEF RunnerAssumption
      <3>2. CASE checkpoint'[m] = checkpoint[m]
        <4>1. checkpoint[d].revision > 0 /\ checkpoint[m].key[d] = checkpoint[d].out
          BY <1>1, <2>4, <3>2 DEF Sound
        <4> QED
          BY <2>3, <3>1, <3>2, <4>1
      <3>3. CASE checkpoint'[m] # checkpoint[m]
        <4>1. m = n /\ checkpoint'[m].key = Key(e, n)
          BY <1>2, <1>6, <3>3, NewCheckpoint
        <4>2. checkpoint[d].revision > 0 /\ Key(e, n)[d] = checkpoint[d].out
          BY <1>2, <4>1, KeyOfCommitted
        <4> QED
          BY <2>3, <3>1, <4>1, <4>2
      <3> QED
        BY <3>2, <3>3
    <2>5. ASSUME NEW m \in Nodes
          PROVE  /\ checkpoint'[m].revision = 0 =>
                      /\ checkpoint'[m].key = [d \in Deps[m] |-> "none"]
                      /\ checkpoint'[m].out = "none"
                 /\ checkpoint'[m].revision > 0 => checkpoint'[m].out \in Outputs
      <3>1. CASE checkpoint'[m] = checkpoint[m]
        BY <1>1, <3>1 DEF Sound
      <3>2. CASE checkpoint'[m] # checkpoint[m]
        BY <1>2, <1>6, <3>2, NewCheckpoint
      <3> QED
        BY <3>1, <3>2
    <2>6. Sound'
      BY <2>4, <2>5 DEF Sound
    <2>7. draft[e].out \in Outputs /\ draft[e].result \in Results
      BY <1>1, <1>2 DEF Written, TypeOK, At
    <2> HIDE DEF n
    <2>8. n \in Nodes
      BY <1>3 DEF n
    <2>9. /\ result \in [Executors -> [Nodes -> Results]]
          /\ hashes \in [Executors -> [Nodes -> Outputs \cup {"none"}]]
          /\ pos \in [Executors -> 1..(Len(Order) + 1)]
      BY <1>1 DEF TypeOK
    <2>10. result' \in [Executors -> [Nodes -> Results]]
      BY <2>1, <2>7, <2>8, <2>9
    <2>11. hashes' \in [Executors -> [Nodes -> Outputs \cup {"none"}]]
      BY <2>1, <2>7, <2>8, <2>9
    <2>12. pos' \in [Executors -> 1..(Len(Order) + 1)]
      BY <1>2, <2>1, <2>9, PlanLength
    <2>13. /\ DOMAIN draft' = Executors
           /\ \A f \in Executors : draft'[f].out \in Outputs \cup {"none"}
                                   /\ draft'[f].result \in Results
      <3>1. Blank.out = "none" /\ Blank.result \in Results
        BY DEF Blank, Draft, Unseen, Plain, Results
      <3> QED
        BY <1>1, <2>1, <3>1 DEF TypeOK
    <2>14. TypeOK'
      BY <1>1, <1>4, <2>1, <2>2, <2>10, <2>11, <2>12, <2>13 DEF TypeOK, requests
    <2>15. ASSUME NEW f \in Executors, NEW m \in Nodes, result'[f][m].status = "completed"
           PROVE  checkpoint'[m].revision > 0 /\ hashes'[f][m] = checkpoint'[m].out
      <3>1. CASE f = e /\ m = n
        BY <2>1, <2>3, <2>8, <2>9, <3>1
      <3>2. CASE ~(f = e /\ m = n)
        <4>1. result'[f][m] = result[f][m] /\ hashes'[f][m] = hashes[f][m]
          BY <2>1, <2>8, <2>9, <3>2
        <4>2. checkpoint[m].revision > 0 /\ hashes[f][m] = checkpoint[m].out
          BY <1>1, <2>15, <4>1 DEF Known
        <4> QED
          BY <2>3, <4>1, <4>2
      <3> QED
        BY <3>1, <3>2
    <2>16. Known'
      BY <2>15 DEF Known
    <2>17. \A f \in Executors :
              phase'[f] \in {"working", "cleared", "produced", "hashed"} =>
                 f # e /\ phase[f] = phase'[f] /\ pos'[f] = pos[f] /\ result'[f] = result[f]
                 /\ draft'[f] = draft[f]
      BY <1>1, <2>1 DEF TypeOK
    <2>18. Fed' /\ Written'
      BY <1>1, <1>4, <2>17 DEF Fed, Written
    <2> QED
      BY <2>6, <2>14, <2>16, <2>18 DEF IInv
  <1> QED
    BY <1>5, <1>6 DEF Commit

(***************************************************************************)
(* The requests around the executors, and the approval's answer.           *)
(***************************************************************************)
LEMMA RequestSteps ==
    ASSUME IInv,
           \/ Cancel \/ DeadlinePasses
           \/ \E e \in Executors : NoticeLoss(e)
           \/ \E n \in Nodes : Answer(n)
           \/ UNCHANGED vars
    PROVE  IInv'
  <1>1. TypeOK /\ Sound /\ Known /\ Fed /\ Written
    BY DEF IInv
  <1>2. /\ UNCHANGED <<checkpoint, file, outcome, starts, forgot, phase, pos, result, hashes,
                      draft>>
        /\ cancelled' \in BOOLEAN /\ overdue' \in BOOLEAN /\ lost' \subseteq Executors
    BY <1>1 DEF Cancel, DeadlinePasses, NoticeLoss, Answer, vars, durable, requests, local,
                TypeOK
  <1>3. approval' \in [Nodes -> {"none", "pending", "approved", "rejected", "expired"}]
    BY <1>1 DEF Cancel, DeadlinePasses, NoticeLoss, Answer, vars, durable, local, TypeOK
  <1>4. TypeOK'
    BY <1>1, <1>2, <1>3 DEF TypeOK
  <1>5. Sound' /\ Known' /\ Fed' /\ Written'
    BY <1>1, <1>2 DEF Sound, Known, Fed, Written
  <1> QED
    BY <1>4, <1>5 DEF IInv

LEMMA NextIInv == IInv /\ [Next]_vars => IInv'
  <1> SUFFICES ASSUME IInv, [Next]_vars PROVE IInv'
    OBVIOUS
  <1>1. ASSUME NEW e \in Executors,
               \/ Start(e) \/ Seed(e) \/ Seeded(e) \/ Reuse(e) \/ Finish(e) \/ Crash(e)
        PROVE  IInv'
    BY <1>1, ScanSteps
  <1>2. ASSUME NEW e \in Executors,
               Block(e) \/ Interrupted(e) \/ WorkFails(e) \/ AskApproval(e)
               \/ HandlerFails(e) \/ Raise(e)
        PROVE  IInv'
    BY <1>2, FilingSteps
  <1>3. ASSUME NEW e \in Executors,
               BeginWork(e) \/ Clear(e) \/ Produce(e) \/ Approved(e) \/ HandlerPasses(e)
               \/ HashOutputs(e)
        PROVE  IInv'
    BY <1>3, WorkSteps
  <1>4. ASSUME NEW e \in Executors, Commit(e) PROVE IInv'
    BY <1>4, CommitStep
  <1>5. CASE \/ Cancel \/ DeadlinePasses
             \/ \E e \in Executors : NoticeLoss(e)
             \/ \E n \in Nodes : Answer(n)
             \/ UNCHANGED vars
    BY <1>5, RequestSteps
  <1> QED
    BY <1>1, <1>2, <1>3, <1>4, <1>5 DEF Next

--------------------------------------------------------------------------------
LEMMA Invariance == Spec => []IInv
  BY InitIInv, NextIInv, PTL DEF Spec

(***************************************************************************)
(* Every state of an Attempt's execution is well-formed.                   *)
(***************************************************************************)
THEOREM TypeCorrect == Spec => []TypeOK
  <1>1. IInv => TypeOK
    BY DEF IInv
  <1> QED
    BY <1>1, Invariance, PTL

--------------------------------------------------------------------------------
\* The checkpoints as DurableDag sees them change only in commit_completed.
LEMMA DagInit == Init => Dag!Init
  <1> SUFFICES ASSUME Init PROVE Dag!Init
    OBVIOUS
  <1>1. \A n \in Nodes : /\ checkpoint[n].revision = 0 /\ checkpoint[n].out = "none"
                         /\ checkpoint[n].key = [d \in Deps[n] |-> "none"]
    BY DEF Init, NoCheckpoint
  <1>2. {n \in Nodes : Committed(n)} = {}
    <2>1. ASSUME NEW n \in Nodes PROVE ~Committed(n)
      <3>1. checkpoint[n].revision = 0
        BY <1>1
      <3> QED
        BY <3>1 DEF Committed
    <2> QED
      BY <2>1
  <1>3. [n \in Nodes |-> checkpoint[n].key] = [n \in Nodes |-> [d \in Deps[n] |-> "none"]]
    BY <1>1
  <1>4. [n \in Nodes |-> checkpoint[n].out] = [n \in Nodes |-> "none"]
    BY <1>1
  <1> QED
    BY <1>2, <1>3, <1>4 DEF Dag!Init

LEMMA DagCommit ==
    ASSUME IInv, NEW e \in Executors, At(e, "hashed"), ~SameKey(e),
           checkpoint' = [checkpoint EXCEPT ![Node(e)] = Proposal(e)]
    PROVE  Dag!Next
  <1> DEFINE n == Node(e)
             committed == {m \in Nodes : Committed(m)}
             lineage == [m \in Nodes |-> checkpoint[m].key]
             output == [m \in Nodes |-> checkpoint[m].out]
  <1>1. /\ n \in Nodes
        /\ checkpoint[n].revision = 0 /\ checkpoint'[n].revision = 1
        /\ checkpoint'[n].key = Key(e, n)
        /\ checkpoint'[n].out = draft[e].out /\ draft[e].out \in Outputs
        /\ \A m \in Nodes \ {n} : checkpoint'[m] = checkpoint[m]
    BY NewCheckpoint
  <1>2. \A d \in Deps[n] : checkpoint[d].revision > 0 /\ Key(e, n)[d] = checkpoint[d].out
    BY KeyOfCommitted
  <1>3. Deps[n] \subseteq Nodes
    BY <1>1, RunnerAssumption DEF RunnerAssumption
  <1>4. n \notin committed /\ Deps[n] \subseteq committed
    BY <1>1, <1>2, <1>3 DEF Committed
  <1>5. committed' = committed \cup {n}
    BY <1>1 DEF Committed
  <1>6. Key(e, n) = [d \in Deps[n] |-> output[d]]
    BY <1>2, <1>3 DEF Key
  <1>7. lineage' = [lineage EXCEPT ![n] = [d \in Deps[n] |-> output[d]]]
    <2>1. \A m \in Nodes : checkpoint'[m].key =
                             IF m = n THEN [d \in Deps[n] |-> output[d]] ELSE checkpoint[m].key
      BY <1>1, <1>6
    <2>2. lineage' = [m \in Nodes |-> checkpoint'[m].key]
      OBVIOUS
    <2> HIDE DEF n
    <2> QED
      BY <2>1, <2>2
  <1>8. output' = [output EXCEPT ![n] = draft[e].out]
    <2>1. \A m \in Nodes : checkpoint'[m].out =
                             IF m = n THEN draft[e].out ELSE checkpoint[m].out
      BY <1>1
    <2>2. output' = [m \in Nodes |-> checkpoint'[m].out]
      OBVIOUS
    <2> HIDE DEF n
    <2> QED
      BY <2>1, <2>2
  <1> QED
    BY <1>1, <1>4, <1>5, <1>7, <1>8 DEF Dag!Next, Dag!Commit

LEMMA DagStep == IInv /\ [Next]_vars => [Dag!Next]_Dag!vars
  <1> SUFFICES ASSUME IInv, [Next]_vars PROVE [Dag!Next]_Dag!vars
    OBVIOUS
  <1>1. CASE UNCHANGED checkpoint
    BY <1>1 DEF Dag!vars, Committed
  <1>2. ASSUME NEW e \in Executors, Commit(e) PROVE [Dag!Next]_Dag!vars
    <2>1. CASE ~SameKey(e) /\ checkpoint' = [checkpoint EXCEPT ![Node(e)] = Proposal(e)]
      BY <1>2, <2>1, DagCommit DEF Commit
    <2>2. CASE UNCHANGED checkpoint
      BY <1>1, <2>2
    <2> QED
      BY <1>2, <2>1, <2>2 DEF Commit
  <1>3. UNCHANGED checkpoint \/ \E e \in Executors : Commit(e)
    BY DEF Next, vars, durable, Start, Seed, Seeded, Reuse, Block, Interrupted, BeginWork,
           Clear, Produce, WorkFails, AskApproval, Approved, HandlerPasses, HandlerFails, Conclude,
           Raise, HashOutputs, Finish, Crash, NoticeLoss, Cancel, DeadlinePasses, Answer
  <1> QED
    BY <1>1, <1>2, <1>3

(***************************************************************************)
(* commit_completed under any crashes, retries and overlaps: a checkpoint  *)
(* is never replaced, and is committed for the outputs its dependencies    *)
(* are committed with.                                                     *)
(***************************************************************************)
THEOREM CheckpointsAreDurable == Spec => DagSpec
  BY DagInit, DagStep, Invariance, PTL DEF Spec, DagSpec, Dag!Spec

--------------------------------------------------------------------------------
(***************************************************************************)
(* What one executor at a time, with its lease, may rely on.  The second   *)
(* invariant, for executions that do not overlap: what an executor holds   *)
(* for completed is in place (Placed), so what a node reads when it starts *)
(* is what its key says (Based), and its artifact is still the one it has  *)
(* hashed when the checkpoint is written (Fresh).                          *)
(***************************************************************************)
InNode == {"working", "cleared", "produced", "hashed"}

Alone == \A e, f \in Executors : phase[e] # "idle" /\ phase[f] # "idle" => e = f

Undecided(e) == phase[e] \in InNode => result[e][Node(e)] = Unseen
Based(e) == phase[e] \in InNode => draft[e].used = Key(e, Node(e))
Passing(e) == phase[e] \in {"produced", "hashed"} => draft[e].result.status = "completed"
Fresh(e) == phase[e] = "hashed" => draft[e].out = Content(Node(e))
Placed(e) ==
    phase[e] # "idle" =>
        \A n \in Nodes : result[e][n].status = "completed" => Content(n) = hashes[e][n]
Visited(e) ==
    phase[e] \in InNode \cup {"running"} =>
        \A i \in 1..(pos[e] - 1) : result[e][Order[i]] # Unseen

Steady(e) ==
    Undecided(e) /\ Based(e) /\ Passing(e) /\ Fresh(e) /\ Placed(e) /\ Visited(e)

Marked ==
    \A e \in Executors : \A n \in Nodes :
        result[e][n].status = "unseen" => result[e][n] = Unseen
Decided == \A n \in Nodes : Committed(n) => checkpoint[n].result.status = "completed"

AInv ==
    /\ IInv /\ Alone /\ \A e \in Executors : Steady(e)
    /\ Marked /\ Decided /\ KeysTellTheTruth

LEMMA InitAInv == Init => AInv
  <1> SUFFICES ASSUME Init PROVE AInv
    OBVIOUS
  <1>1. /\ phase = [e \in Executors |-> "idle"]
        /\ result = [e \in Executors |-> [n \in Nodes |-> Unseen]]
        /\ checkpoint = [n \in Nodes |-> NoCheckpoint(n)]
    BY DEF Init
  <1>2. Alone
    BY <1>1 DEF Alone
  <1>3. \A e \in Executors : Steady(e)
    BY <1>1 DEF Steady, Undecided, Based, Passing, Fresh, Placed, Visited, InNode
  <1>4. Marked
    BY <1>1 DEF Marked
  <1>5. \A n \in Nodes : ~Committed(n)
    BY <1>1 DEF Committed, NoCheckpoint
  <1>6. Decided /\ KeysTellTheTruth
    BY <1>5 DEF Decided, KeysTellTheTruth
  <1> QED
    BY <1>2, <1>3, <1>4, <1>6, InitIInv DEF AInv

\* The others are idle while one executor is not.
LEMMA OthersIdle ==
    ASSUME AInv, NEW e \in Executors, phase[e] # "idle"
    PROVE  \A f \in Executors \ {e} : phase[f] = "idle"
  BY DEF AInv, Alone

\* So only the executor that steps has to be looked at.
LEMMA StepperSuffices ==
    ASSUME TypeOK, NEW e \in Executors, NEW p,
           \A f \in Executors \ {e} : phase[f] = "idle",
           phase' = [phase EXCEPT ![e] = p],
           Steady(e)'
    PROVE  Alone' /\ \A f \in Executors : Steady(f)'
  <1>1. \A f \in Executors \ {e} : phase'[f] = "idle"
    BY DEF TypeOK
  <1>2. \A f \in Executors \ {e} : Steady(f)'
    BY <1>1 DEF Steady, Undecided, Based, Passing, Fresh, Placed, Visited, InNode
  <1> QED
    BY <1>1, <1>2 DEF Alone

\* The checkpoints stay, and with them what is said of them.
LEMMA CheckpointsStay ==
    ASSUME AInv, UNCHANGED checkpoint
    PROVE  Decided' /\ KeysTellTheTruth'
  BY DEF AInv, Decided, KeysTellTheTruth, Committed

LEMMA ResetAInv ==
    ASSUME AInv, IInv', ~Overlap, NEW e \in Executors, Start(e) \/ Crash(e)
    PROVE  AInv'
  <1>1. TypeOK /\ Marked
    BY DEF AInv, IInv
  <1>2. /\ result' = [result EXCEPT ![e] = [n \in Nodes |-> Unseen]]
        /\ pos' = [pos EXCEPT ![e] = 1]
        /\ UNCHANGED checkpoint
    BY DEF Start, Crash, durable
  <1>3. PICK p \in {"idle", "seeding", "running"} : phase' = [phase EXCEPT ![e] = p]
    BY DEF Start, Crash
  <1>4. \A f \in Executors \ {e} : phase[f] = "idle"
    BY OthersIdle DEF Start, Crash
  <1>5. /\ phase'[e] \notin InNode /\ phase'[e] \notin {"produced", "hashed"}
        /\ pos'[e] = 1 /\ \A n \in Nodes : result'[e][n] = Unseen
    BY <1>1, <1>2, <1>3 DEF TypeOK, InNode
  <1>6. Unseen.status = "unseen"
    BY DEF Unseen, Plain
  <1>7. Steady(e)'
    BY <1>5, <1>6 DEF Steady, Undecided, Based, Passing, Fresh, Placed, Visited
  <1>8. Marked'
    BY <1>1, <1>2, <1>5 DEF Marked, TypeOK
  <1> QED
    BY <1>1, <1>2, <1>3, <1>4, <1>7, <1>8, StepperSuffices, CheckpointsStay DEF AInv

LEMMA SeedAInv ==
    ASSUME AInv, IInv', NEW e \in Executors, Seed(e)
    PROVE  AInv'
  <1> DEFINE n == Node(e)
  <1>1. TypeOK /\ Marked /\ Decided /\ Placed(e)
    BY DEF AInv, IInv, Steady
  <1>2. /\ phase[e] = "seeding" /\ pos[e] <= Len(Order)
        /\ UNCHANGED <<checkpoint, file, phase>>
    BY DEF Seed, At, durable
  <1>3. n \in Nodes
    BY <1>1, <1>2, NodeType DEF Node
  <1>4. phase' = [phase EXCEPT ![e] = "seeding"]
    BY <1>1, <1>2 DEF TypeOK
  <1>5. \/ UNCHANGED <<result, hashes>>
        \/ /\ Committed(n) /\ Content(n) = checkpoint[n].out
           /\ result' = [result EXCEPT ![e][n] = checkpoint[n].result]
           /\ hashes' = [hashes EXCEPT ![e][n] = checkpoint[n].out]
    BY DEF Seed, Matches
  <1> HIDE DEF n
  <1>6. \A m \in Nodes : \/ result'[e][m] = result[e][m] /\ hashes'[e][m] = hashes[e][m]
                         \/ /\ result'[e][m].status = "completed"
                            /\ Content(m) = hashes'[e][m]
    BY <1>1, <1>3, <1>5 DEF TypeOK, Decided
  <1>7. \A m \in Nodes : Content(m)' = Content(m)
    BY <1>2 DEF Content
  <1>8. Placed(e)'
    BY <1>1, <1>2, <1>6, <1>7 DEF Placed
  <1>9. Steady(e)'
    BY <1>2, <1>8 DEF Steady, Undecided, Based, Passing, Fresh, Visited, InNode
  <1>10. \A f \in Executors \ {e} : result'[f] = result[f]
    BY <1>1, <1>5 DEF TypeOK
  <1>11. Marked'
    <2> SUFFICES ASSUME NEW f \in Executors, NEW m \in Nodes,
                        result'[f][m].status = "unseen"
                 PROVE  result'[f][m] = Unseen
      BY DEF Marked
    <2>1. result'[f][m] = result[f][m]
      BY <1>6, <1>10
    <2> QED
      BY <1>1, <2>1 DEF Marked
  <1> QED
    BY <1>1, <1>2, <1>4, <1>9, <1>11, OthersIdle, StepperSuffices, CheckpointsStay DEF AInv

LEMMA ScanAInv ==
    ASSUME AInv, IInv', NEW e \in Executors, Seeded(e) \/ Reuse(e) \/ Finish(e)
    PROVE  AInv'
  <1>1. TypeOK /\ Marked /\ Placed(e) /\ Visited(e)
    BY DEF AInv, IInv, Steady
  <1>2. UNCHANGED <<checkpoint, file, result, hashes>>
    BY DEF Seeded, Reuse, Finish, durable
  <1>3. PICK p \in {"idle", "running"} : phase' = [phase EXCEPT ![e] = p]
    BY <1>1 DEF Seeded, Reuse, Finish, At, TypeOK
  <1>4. phase[e] # "idle"
    BY DEF Seeded, Reuse, Finish, At
  <1>5. phase'[e] = p
    BY <1>1, <1>3 DEF TypeOK
  <1>6. \A m \in Nodes : Content(m)' = Content(m)
    BY <1>2 DEF Content
  <1>7. Placed(e)'
    BY <1>1, <1>2, <1>4, <1>6 DEF Placed
  <1>8. Visited(e)'
    <2>1. CASE Seeded(e)
      <3>1. pos'[e] = 1
        BY <1>1, <2>1 DEF Seeded, TypeOK
      <3> QED
        BY <3>1 DEF Visited
    <2>2. CASE Reuse(e)
      <3>1. /\ phase[e] = "running" /\ pos'[e] = pos[e] + 1
            /\ result[e][Order[pos[e]]] # Unseen
        BY <1>1, <2>2 DEF Reuse, At, Node, TypeOK
      <3>2. pos[e] \in Nat
        BY <1>1 DEF TypeOK
      <3>3. \A i \in 1..(pos'[e] - 1) : i \in 1..(pos[e] - 1) \/ i = pos[e]
        BY <3>1, <3>2
      <3>4. \A i \in 1..(pos'[e] - 1) : result[e][Order[i]] # Unseen
        BY <1>1, <3>1, <3>3 DEF Visited
      <3> QED
        BY <1>2, <3>4 DEF Visited
    <2>3. CASE Finish(e)
      <3>1. phase'[e] = "idle"
        BY <1>1, <2>3 DEF Finish, TypeOK
      <3> QED
        BY <3>1 DEF Visited, InNode
    <2> QED
      BY <2>1, <2>2, <2>3
  <1>9. Steady(e)'
    BY <1>5, <1>7, <1>8 DEF Steady, Undecided, Based, Passing, Fresh, InNode
  <1>10. Marked'
    BY <1>1, <1>2 DEF Marked
  <1> QED
    BY <1>1, <1>2, <1>3, <1>4, <1>9, <1>10, OthersIdle, StepperSuffices, CheckpointsStay
       DEF AInv

(***************************************************************************)
(* A result is filed.  It counts as completed only if the node's artifact  *)
(* is in place with the hash that is kept.                                 *)
(***************************************************************************)
LEMMA FilingAInv ==
    ASSUME AInv, NEW e \in Executors, NEW r \in Results,
           phase[e] # "idle", phase[e] # "seeding", pos[e] <= Len(Order),
           r.status # "unseen", File(e, r), UNCHANGED file,
           \/ UNCHANGED hashes /\ r.status # "completed"
           \/ hashes' = [hashes EXCEPT ![e][Node(e)] = Content(Node(e))]
    PROVE  Alone' /\ Marked' /\ \A f \in Executors : Steady(f)'
  <1> DEFINE n == Node(e)
  <1>1. TypeOK /\ Marked /\ Placed(e) /\ Visited(e)
    BY DEF AInv, IInv, Steady
  <1>2. /\ result' = [result EXCEPT ![e][n] = r]
        /\ pos' = [pos EXCEPT ![e] = @ + 1]
        /\ phase' = [phase EXCEPT ![e] = "running"]
    BY DEF File
  <1>3. n \in Nodes /\ n = Order[pos[e]] /\ pos[e] \in Nat
    BY <1>1, NodeType DEF Node, TypeOK
  <1>4. r # Unseen
    <2>1. Unseen.status = "unseen"
      BY DEF Unseen, Plain
    <2> QED
      BY <2>1
  <1>5. /\ phase'[e] = "running" /\ pos'[e] = pos[e] + 1
        /\ result'[e][n] = r
        /\ \A m \in Nodes \ {n} : result'[e][m] = result[e][m] /\ hashes'[e][m] = hashes[e][m]
        /\ \A f \in Executors \ {e} : result'[f] = result[f]
    BY <1>1, <1>2, <1>3 DEF TypeOK
  <1>6. r.status = "completed" => hashes'[e][n] = Content(n)
    BY <1>1, <1>3 DEF TypeOK
  <1> HIDE DEF n
  <1>7. \A m \in Nodes : Content(m)' = Content(m)
    BY DEF Content
  <1>8. Placed(e)'
    BY <1>1, <1>3, <1>5, <1>6, <1>7 DEF Placed
  <1>9. Visited(e)'
    <2> SUFFICES ASSUME NEW i \in 1..(pos'[e] - 1) PROVE result'[e][Order[i]] # Unseen
      BY DEF Visited
    <2>1. i \in 1..Len(Order) /\ (i = pos[e] \/ i \in 1..(pos[e] - 1))
      BY <1>3, <1>5, PlanLength
    <2>2. Order[i] \in Nodes
      BY <2>1, RunnerAssumption DEF RunnerAssumption
    <2>3. phase[e] \in InNode \cup {"running"}
      BY <1>1 DEF InNode, TypeOK
    <2>4. Order[i] = n \/ result[e][Order[i]] # Unseen
      BY <1>1, <1>3, <2>1, <2>3 DEF Visited
    <2> QED
      BY <1>4, <1>5, <2>2, <2>4
  <1>10. Steady(e)'
    BY <1>5, <1>8, <1>9 DEF Steady, Undecided, Based, Passing, Fresh, InNode
  <1>11. Marked'
    <2> SUFFICES ASSUME NEW f \in Executors, NEW m \in Nodes,
                        result'[f][m].status = "unseen"
                 PROVE  result'[f][m] = Unseen
      BY DEF Marked
    <2>1. result'[f][m] = result[f][m]
      BY <1>5
    <2> QED
      BY <1>1, <2>1 DEF Marked
  <1> QED
    BY <1>1, <1>2, <1>10, <1>11, OthersIdle, StepperSuffices

LEMMA FilingStepsAInv ==
    ASSUME AInv, IInv', NEW e \in Executors,
           Block(e) \/ Interrupted(e) \/ WorkFails(e) \/ AskApproval(e)
           \/ HandlerFails(e) \/ Raise(e)
    PROVE  AInv'
  <1>1. PICK r \in Results : r.status \notin {"completed", "unseen"} /\ File(e, r)
    BY DEF Block, Interrupted, WorkFails, AskApproval, HandlerFails, Raise, Plain, Verdict,
           Results, Failures, Axis
  <1>2. pos[e] <= Len(Order) /\ phase[e] # "idle" /\ phase[e] # "seeding"
    BY DEF Block, Interrupted, WorkFails, AskApproval, HandlerFails, Raise,
           Executes, Ready, Pending, At
  <1>3. UNCHANGED <<checkpoint, file, hashes>>
    BY DEF Block, Interrupted, WorkFails, AskApproval, HandlerFails, Raise, durable
  <1>4. Alone' /\ Marked' /\ \A f \in Executors : Steady(f)'
    BY <1>1, <1>2, <1>3, FilingAInv
  <1> QED
    BY <1>3, <1>4, CheckpointsStay DEF AInv

\* What a node reads when it starts is what its key will say.
LEMMA InputsInPlace ==
    ASSUME AInv, NEW e \in Executors, Executes(e)
    PROVE  Used(Node(e)) = Key(e, Node(e))
  <1>1. TypeOK /\ Placed(e)
    BY DEF AInv, IInv, Steady
  <1>2. Node(e) \in Nodes /\ phase[e] # "idle"
    BY <1>1, NodeType DEF Node, Executes, Ready, Pending, At
  <1>3. Deps[Node(e)] \subseteq Nodes
    BY <1>2, RunnerAssumption DEF RunnerAssumption
  <1>4. \A d \in Deps[Node(e)] : Content(d) = hashes[e][d]
    BY <1>1, <1>2, <1>3 DEF Placed, Executes, Ready, Succeeded
  <1> QED
    BY <1>4 DEF Used, Key

\* A step inside execute_node, before the checkpoint.
LEMMA WorkAInv ==
    ASSUME AInv, IInv', NEW e \in Executors, NEW p \in InNode, NEW D,
           phase[e] # "idle", phase[e] # "seeding", pos[e] <= Len(Order),
           result[e][Node(e)] = Unseen,
           phase' = [phase EXCEPT ![e] = p],
           draft' = [draft EXCEPT ![e] = D] \/ (UNCHANGED draft /\ D = draft[e]),
           D.used = Key(e, Node(e)),
           p \notin {"working", "cleared"} => D.result.status = "completed",
           p = "hashed" => UNCHANGED file /\ D.out = Content(Node(e)),
           \/ UNCHANGED file
           \/ \E v : file' = [file EXCEPT ![Node(e)] = v],
           UNCHANGED <<checkpoint, pos, result, hashes>>
    PROVE  AInv'
  <1>1. TypeOK /\ Marked /\ Placed(e) /\ Visited(e)
    BY DEF AInv, IInv, Steady
  <1>2. Node(e) \in Nodes
    BY <1>1, NodeType DEF Node
  <1>3. phase'[e] = p /\ draft'[e] = D
    BY <1>1 DEF TypeOK
  <1>4. \A m \in Nodes \ {Node(e)} : Content(m)' = Content(m)
    BY <1>1, <1>2 DEF Content, TypeOK
  <1>5. Unseen.status = "unseen"
    BY DEF Unseen, Plain
  <1>6. Placed(e)'
    BY <1>1, <1>4, <1>5 DEF Placed
  <1>7. Visited(e)'
    BY <1>1 DEF Visited, InNode, TypeOK
  <1>8. Node(e)' = Node(e) /\ Key(e, Node(e))' = Key(e, Node(e))
    BY DEF Node, Key
  <1>9. Undecided(e)' /\ Based(e)' /\ Passing(e)'
    BY <1>3, <1>8 DEF Undecided, Based, Passing
  <1>10. Fresh(e)'
    BY <1>3, <1>8 DEF Fresh, Content
  <1>11. Steady(e)'
    BY <1>6, <1>7, <1>9, <1>10 DEF Steady
  <1>12. Marked'
    BY <1>1 DEF Marked
  <1> QED
    BY <1>1, <1>11, <1>12, OthersIdle, StepperSuffices, CheckpointsStay DEF AInv

LEMMA SuccessCompletes == \A n : Success(n).status = "completed"
  BY DEF Success, Verdict, Plain

LEMMA WorkStepsAInv ==
    ASSUME AInv, IInv', NEW e \in Executors,
           BeginWork(e) \/ Clear(e) \/ Produce(e) \/ Approved(e) \/ HandlerPasses(e) \/ HashOutputs(e)
    PROVE  AInv'
  <1>1. TypeOK /\ Undecided(e) /\ Based(e) /\ Passing(e)
    BY DEF AInv, IInv, Steady
  <1>2. pos[e] <= Len(Order) /\ phase[e] # "idle" /\ phase[e] # "seeding"
    BY DEF BeginWork, Clear, Produce, Approved, HandlerPasses, HashOutputs, Executes, Ready,
           Pending, At
  <1>3. result[e][Node(e)] = Unseen
    BY <1>1 DEF BeginWork, Clear, Produce, Approved, HandlerPasses, HashOutputs, Executes, Ready,
           Pending, At, Undecided, InNode
  <1>4. \A used, snapshot, out, r : /\ Draft(used, snapshot, out, r).used = used
                                   /\ Draft(used, snapshot, out, r).out = out
                                   /\ Draft(used, snapshot, out, r).result = r
    BY DEF Draft
  <1>5. CASE BeginWork(e)
    <2> DEFINE D == Draft(Used(Node(e)), "none", "none", Unseen)
    <2>1. /\ phase' = [phase EXCEPT ![e] = "working"]
          /\ draft' = [draft EXCEPT ![e] = D]
          /\ UNCHANGED <<checkpoint, file, pos, result, hashes>>
      BY <1>5 DEF BeginWork, durable
    <2>2. D.used = Key(e, Node(e))
      BY <1>4, <1>5, InputsInPlace DEF BeginWork
    <2>3. "working" \in InNode
      BY DEF InNode
    <2> HIDE DEF D
    <2> QED
      BY <1>2, <1>3, <2>1, <2>2, <2>3, WorkAInv
  <1>6. CASE Clear(e)
    <2>1. /\ phase' = [phase EXCEPT ![e] = "cleared"] /\ phase[e] = "working"
          /\ file' = [file EXCEPT ![Node(e)] = "none"]
          /\ UNCHANGED <<checkpoint, pos, result, hashes>>
      BY <1>6 DEF Clear, At
    <2> DEFINE D == draft[e]
    <2>2. UNCHANGED draft /\ D = draft[e] /\ D.used = Key(e, Node(e))
      BY <1>1, <1>6, <2>1 DEF Clear, Based, InNode
    <2>3. "cleared" \in InNode
      BY DEF InNode
    <2> HIDE DEF D
    <2> QED
      BY <1>2, <1>3, <2>1, <2>2, <2>3, WorkAInv
  <1>7. CASE Produce(e)
    <2>1. PICK v : file' = [file EXCEPT ![Node(e)] = v]
      BY <1>7 DEF Produce
    <2> DEFINE D == draft'[e]
    <2>7. PICK snapshot : D = Draft(draft[e].used, snapshot, "none", Success(Node(e)))
      BY <1>1, <1>7 DEF Produce, TypeOK
    <2>2. /\ phase' = [phase EXCEPT ![e] = "produced"]
          /\ UNCHANGED <<checkpoint, pos, result, hashes>>
      BY <1>7 DEF Produce
    <2>3. D.used = Key(e, Node(e))
      BY <1>1, <1>4, <1>7, <2>7 DEF Produce, At, Based, InNode
    <2>4. D.result.status = "completed"
      BY <1>4, <2>7, SuccessCompletes
    <2>5. "produced" \in InNode
      BY DEF InNode
    <2>6. draft' = [draft EXCEPT ![e] = D]
      BY <1>1, <1>7 DEF Produce, TypeOK
    <2> HIDE DEF D
    <2> QED
      BY <1>2, <1>3, <2>1, <2>2, <2>3, <2>4, <2>5, <2>6, WorkAInv
  <1>8. CASE Approved(e) \/ HandlerPasses(e)
    <2> DEFINE D == Draft(Used(Node(e)), "fixed", "none", Success(Node(e)))
    <2>2. /\ phase' = [phase EXCEPT ![e] = "produced"]
          /\ draft' = [draft EXCEPT ![e] = D] /\ Executes(e)
          /\ UNCHANGED <<checkpoint, file, pos, result, hashes>>
      BY <1>8 DEF Approved, HandlerPasses, Conclude, durable
    <2>3. D.used = Key(e, Node(e)) /\ D.result.status = "completed"
      BY <1>4, <2>2, InputsInPlace, SuccessCompletes
    <2>4. "produced" \in InNode
      BY DEF InNode
    <2> HIDE DEF D
    <2> QED
      BY <1>2, <1>3, <2>2, <2>3, <2>4, WorkAInv
  <1>9. CASE HashOutputs(e)
    <2> DEFINE D == Draft(draft[e].used, draft[e].snapshot, Content(Node(e)),
                          draft[e].result)
    <2>1. /\ phase' = [phase EXCEPT ![e] = "hashed"]
          /\ draft' = [draft EXCEPT ![e] = D]
          /\ UNCHANGED <<checkpoint, file, pos, result, hashes>>
          /\ phase[e] = "produced"
      BY <1>1, <1>9 DEF HashOutputs, At, durable, TypeOK
    <2>2. /\ D.used = Key(e, Node(e)) /\ D.out = Content(Node(e))
          /\ D.result.status = "completed"
      BY <1>1, <1>4, <2>1 DEF Based, Passing, InNode
    <2>3. "hashed" \in InNode
      BY DEF InNode
    <2> HIDE DEF D
    <2> QED
      BY <1>2, <1>3, <2>1, <2>2, <2>3, WorkAInv
  <1> QED
    BY <1>5, <1>6, <1>7, <1>8, <1>9

LEMMA CommitAInv ==
    ASSUME AInv, IInv', NEW e \in Executors, Commit(e)
    PROVE  AInv'
  <1> DEFINE n == Node(e)
  <1>1. IInv /\ TypeOK /\ Decided /\ KeysTellTheTruth /\ Steady(e)
    BY DEF AInv, IInv
  <1>2. At(e, "hashed") /\ phase[e] = "hashed" /\ pos[e] <= Len(Order) /\ UNCHANGED file
    BY DEF Commit, At
  <1>3. /\ draft[e].used = Key(e, n) /\ draft[e].out = Content(n)
        /\ draft[e].result.status = "completed" /\ draft[e].result \in Results
    BY <1>1, <1>2 DEF Steady, Based, Fresh, Passing, InNode, TypeOK
  <1>4. PICK r \in Results :
           /\ File(e, r) /\ r.status # "unseen"
           /\ \/ UNCHANGED hashes /\ r.status # "completed"
              \/ hashes' = [hashes EXCEPT ![e][n] = Content(n)]
    <2>1. Plain("failed") \in Results /\ Plain("failed").status = "failed"
      BY DEF Plain, Results, Failures
    <2> QED
      BY <1>3, <2>1 DEF Commit, Kept
  <1>5. Alone' /\ Marked' /\ \A f \in Executors : Steady(f)'
    BY <1>2, <1>4, FilingAInv
  <1>6. CASE UNCHANGED checkpoint
    BY <1>5, <1>6, CheckpointsStay DEF AInv
  <1>7. CASE ~SameKey(e) /\ checkpoint' = [checkpoint EXCEPT ![n] = Proposal(e)]
    <2>1. n \in Nodes /\ DOMAIN checkpoint = Nodes
      BY <1>1, <1>2, NodeType DEF Node, TypeOK
    <2>2. /\ Proposal(e).key = Key(e, n) /\ Proposal(e).used = draft[e].used
          /\ Proposal(e).result = draft[e].result
      BY DEF Proposal
    <2> HIDE DEF n
    <2>3. \A m \in Nodes : checkpoint'[m] = IF m = n THEN Proposal(e) ELSE checkpoint[m]
      BY <1>7, <2>1
    <2>4. Decided'
      BY <1>1, <1>3, <2>2, <2>3 DEF Decided, Committed
    <2>5. KeysTellTheTruth'
      BY <1>1, <1>3, <2>2, <2>3 DEF KeysTellTheTruth, Committed
    <2> QED
      BY <1>5, <2>4, <2>5 DEF AInv
  <1> QED
    BY <1>6, <1>7 DEF Commit

LEMMA RequestAInv ==
    ASSUME AInv, IInv',
           \/ Cancel \/ DeadlinePasses
           \/ \E e \in Executors : NoticeLoss(e)
           \/ \E n \in Nodes : Answer(n)
           \/ UNCHANGED vars
    PROVE  AInv'
  <1>1. UNCHANGED <<checkpoint, file, phase, pos, result, hashes, draft>>
    BY DEF Cancel, DeadlinePasses, NoticeLoss, Answer, vars, durable, local
  <1>2. Alone' /\ Marked'
    BY <1>1 DEF AInv, Alone, Marked
  <1>3. ASSUME NEW e \in Executors PROVE Steady(e)'
    BY <1>1 DEF AInv, Steady, Undecided, Based, Passing, Fresh, Placed, Visited, Node, Key,
                Content
  <1> QED
    BY <1>1, <1>2, <1>3, CheckpointsStay DEF AInv

LEMMA NextAInv == ASSUME ~Overlap, AInv, [Next]_vars PROVE AInv'
  <1>1. IInv'
    BY NextIInv DEF AInv
  <1>2. ASSUME NEW e \in Executors PROVE
           /\ Start(e) \/ Crash(e) => AInv'
           /\ Seed(e) => AInv'
           /\ Seeded(e) \/ Reuse(e) \/ Finish(e) => AInv'
           /\ Block(e) \/ Interrupted(e) \/ WorkFails(e) \/ AskApproval(e)
              \/ HandlerFails(e) \/ Raise(e) => AInv'
           /\ BeginWork(e) \/ Clear(e) \/ Produce(e) \/ Approved(e) \/ HandlerPasses(e)
              \/ HashOutputs(e) => AInv'
           /\ Commit(e) => AInv'
    BY <1>1, ResetAInv, SeedAInv, ScanAInv, FilingStepsAInv, WorkStepsAInv, CommitAInv
  <1>3. CASE \/ Cancel \/ DeadlinePasses
             \/ \E e \in Executors : NoticeLoss(e)
             \/ \E n \in Nodes : Answer(n)
             \/ UNCHANGED vars
    BY <1>1, <1>3, RequestAInv
  <1> QED
    BY <1>2, <1>3 DEF Next

LEMMA AloneInvariance == ~Overlap => (Spec => []AInv)
  <1> SUFFICES ASSUME ~Overlap PROVE Spec => []AInv
    OBVIOUS
  <1>1. AInv /\ [Next]_vars => AInv'
    BY NextAInv
  <1> QED
    BY InitAInv, <1>1, PTL DEF Spec

(***************************************************************************)
(* While executions do not overlap, the key of every checkpoint says what  *)
(* its node really read, whatever was interrupted, repeated or reused.     *)
(***************************************************************************)
THEOREM KeysAreTrue == ~Overlap => (Spec => []KeysTellTheTruth)
  <1>1. AInv => KeysTellTheTruth
    BY DEF AInv
  <1> QED
    BY <1>1, AloneInvariance, PTL

--------------------------------------------------------------------------------
\* A plan's order reaches every node, so a finished pass has left none out.
LEMMA AllVisited ==
    ASSUME AInv, NEW e \in Executors, phase[e] = "running", pos[e] > Len(Order)
    PROVE  \A n \in Nodes : result[e][n].status # "unseen"
  <1> SUFFICES ASSUME NEW n \in Nodes PROVE result[e][n] # Unseen
    BY DEF AInv, Marked
  <1>1. PICK i \in 1..Len(Order) : Order[i] = n
    BY PlanAssumption
  <1>2. i \in 1..(pos[e] - 1)
    BY PlanLength DEF AInv, IInv, TypeOK
  <1> QED
    BY <1>1, <1>2 DEF AInv, Steady, Visited

LEMMA FinishDelivers ==
    ASSUME AInv, NEW e \in Executors, Finish(e), outcome'.execution = "completed",
           NEW n \in Nodes, n \notin Handlers \/ outcome'.results[n].status = "completed"
    PROVE  Committed(n) /\ Content(n) = checkpoint[n].out
  <1>1. TypeOK /\ Known /\ Placed(e)
    BY DEF AInv, IInv, Steady
  <1>2. phase[e] = "running" /\ pos[e] > Len(Order) /\ ExecutionStatus(e) = "completed"
    BY DEF Finish
  <1>3. ASSUME n \notin Handlers PROVE result[e][n].status = "completed"
    <2>1. Statuses(e, Nodes \ Handlers)
            \cap {"waiting_for_input", "cancelled", "timed_out", "failed", "blocked"} = {}
      BY <1>2 DEF ExecutionStatus
    <2>2. result[e][n].status \in Statuses(e, Nodes \ Handlers)
      BY <1>3 DEF Statuses
    <2>3. result[e][n] \in Results
      BY <1>1 DEF TypeOK
    <2>4. result[e][n].status \in Failures \cup {"unseen", "completed", "blocked",
                                                "waiting_for_input"}
      BY <2>3 DEF Results
    <2>5. result[e][n].status # "unseen"
      BY <1>2, AllVisited
    <2> QED
      BY <2>1, <2>2, <2>4, <2>5 DEF Failures
  <1>4. outcome'.results = result[e]
    BY DEF Finish
  <1>5. result[e][n].status = "completed"
    BY <1>3, <1>4
  <1> QED
    BY <1>1, <1>2, <1>5 DEF Known, Placed, Committed

(***************************************************************************)
(* An execution that is reported completed has committed every node it     *)
(* counts as completed, and the artifacts in place are the committed ones: *)
(* every node but a handler that failed or was blocked.                    *)
(***************************************************************************)
THEOREM DeliveryIsCommitted == ~Overlap => (Spec => DeliversWhatItCommitted)
  <1> SUFFICES ASSUME ~Overlap PROVE Spec => DeliversWhatItCommitted
    OBVIOUS
  <1>1. AInv /\ [Next]_vars =>
          [Finishes /\ outcome'.execution = "completed"
             => \A n \in Nodes :
                  n \notin Handlers \/ outcome'.results[n].status = "completed"
                    => Committed(n) /\ Content(n) = checkpoint[n].out]_vars
    BY FinishDelivers DEF Finishes
  <1> QED
    BY <1>1, AloneInvariance, PTL DEF Spec, DeliversWhatItCommitted

--------------------------------------------------------------------------------
(***************************************************************************)
(* With checkpoints reused, a pass first takes up every committed node,    *)
(* because what is committed is still in place (InPlace); so the node it   *)
(* executes has no checkpoint, and its artifact is the only one to change. *)
(***************************************************************************)
InPlace == \A n \in Nodes : Committed(n) => Content(n) = checkpoint[n].out

SeededSoFar(e) ==
    phase[e] = "seeding" =>
        \A i \in 1..(pos[e] - 1) : Committed(Order[i]) => Succeeded(e, Order[i])
Recalled(e) ==
    phase[e] \in InNode \cup {"running"} =>
        \A n \in Nodes : Committed(n) => result[e][n] # Unseen

Retained == InPlace /\ \A e \in Executors : SeededSoFar(e) /\ Recalled(e)

KInv == AInv /\ (~forgot => Retained)

LEMMA InitKInv == Init => KInv
  <1> SUFFICES ASSUME Init PROVE KInv
    OBVIOUS
  <1>1. /\ phase = [e \in Executors |-> "idle"]
        /\ checkpoint = [n \in Nodes |-> NoCheckpoint(n)]
    BY DEF Init
  <1>2. InPlace
    BY <1>1 DEF InPlace, Committed, NoCheckpoint
  <1>3. \A e \in Executors : SeededSoFar(e) /\ Recalled(e)
    BY <1>1 DEF SeededSoFar, Recalled, InNode
  <1> QED
    BY <1>2, <1>3, InitAInv DEF KInv, Retained

LEMMA KeptBySteppers ==
    ASSUME TypeOK, NEW e \in Executors, NEW p,
           \A f \in Executors \ {e} : phase[f] = "idle",
           phase' = [phase EXCEPT ![e] = p],
           SeededSoFar(e)', Recalled(e)'
    PROVE  \A f \in Executors : SeededSoFar(f)' /\ Recalled(f)'
  <1>1. \A f \in Executors \ {e} : phase'[f] = "idle"
    BY DEF TypeOK
  <1> QED
    BY <1>1 DEF SeededSoFar, Recalled, InNode

\* A committed node whose dependencies were taken up is taken up.
LEMMA SeedTakesUp ==
    ASSUME AInv, Retained, NEW e \in Executors, Seed(e), Committed(Node(e))
    PROVE  result'[e][Node(e)].status = "completed"
  <1> DEFINE n == Node(e)
  <1>1. IInv /\ TypeOK /\ Sound /\ Known /\ Decided /\ InPlace /\ SeededSoFar(e)
    BY DEF Retained, AInv, IInv
  <1>2. phase[e] = "seeding" /\ pos[e] <= Len(Order) /\ pos[e] \in 1..Len(Order)
    BY <1>1, PlanLength DEF Seed, At, TypeOK
  <1>3. n \in Nodes /\ n = Order[pos[e]]
    BY <1>1, <1>2, NodeType DEF Node
  <1>4. Deps[n] \subseteq Nodes
    BY <1>3, RunnerAssumption DEF RunnerAssumption
  <1>5. \A d \in Deps[n] : checkpoint[d].revision > 0 /\ checkpoint[n].key[d] = checkpoint[d].out
    BY <1>1, <1>3 DEF Sound, Committed
  <1>6. \A d \in Deps[n] : Succeeded(e, d)
    <2> SUFFICES ASSUME NEW d \in Deps[n] PROVE Succeeded(e, d)
      OBVIOUS
    <2>1. PICK j \in 1..(pos[e] - 1) : Order[j] = d
      BY <1>2, <1>3, PlanAssumption
    <2> QED
      BY <1>1, <1>2, <1>5, <2>1 DEF SeededSoFar, Committed
  <1>7. checkpoint[n].key = Key(e, n)
    <2>1. \A d \in Deps[n] : hashes[e][d] = checkpoint[n].key[d]
      BY <1>1, <1>4, <1>5, <1>6 DEF Known, Succeeded
    <2>2. checkpoint[n].key \in [Deps[n] -> Outputs \cup {"none"}]
      BY <1>1, <1>3 DEF TypeOK
    <2> HIDE DEF n
    <2> QED
      BY <2>1, <2>2 DEF Key
  <1>8. Matches(e, n)
    BY <1>1, <1>3, <1>7 DEF Matches, InPlace
  <1>9. result' = [result EXCEPT ![e][n] = checkpoint[n].result]
    BY <1>6, <1>8 DEF Seed
  <1>10. checkpoint[n].result.status = "completed"
    BY <1>1, <1>3 DEF Decided
  <1> HIDE DEF n
  <1>11. result'[e][n] = checkpoint[n].result
    BY <1>1, <1>3, <1>9 DEF TypeOK
  <1> QED
    BY <1>10, <1>11 DEF n


\* What is in place stays so while neither checkpoints nor artifacts change.
LEMMA PlaceStays ==
    ASSUME Retained, UNCHANGED <<checkpoint, file>>
    PROVE  InPlace'
  BY DEF Retained, InPlace, Committed, Content

LEMMA ResetKInv ==
    ASSUME AInv, Retained, ~forgot',
           NEW e \in Executors, Start(e) \/ Crash(e), \A f \in Executors \ {e} : phase[f] = "idle"
    PROVE  Retained'
  <1>1. TypeOK
    BY DEF Retained, AInv, IInv
  <1>2. pos' = [pos EXCEPT ![e] = 1] /\ UNCHANGED <<checkpoint, file>>
    BY DEF Start, Crash, durable
  <1>3. PICK p \in {"idle", "seeding"} : phase' = [phase EXCEPT ![e] = p]
    BY DEF Start, Crash
  <1>4. pos'[e] = 1 /\ phase'[e] = p
    BY <1>1, <1>2, <1>3 DEF TypeOK
  <1>5. SeededSoFar(e)' /\ Recalled(e)'
    BY <1>4 DEF SeededSoFar, Recalled, InNode
  <1> QED
    BY <1>1, <1>2, <1>3, <1>5, KeptBySteppers, PlaceStays DEF Retained

LEMMA SeedKInv ==
    ASSUME AInv, Retained, NEW e \in Executors, Seed(e),
           \A f \in Executors \ {e} : phase[f] = "idle"
    PROVE  Retained'
  <1>1. TypeOK /\ SeededSoFar(e) /\ Decided
    BY DEF Retained, AInv, IInv
  <1>2. /\ phase[e] = "seeding" /\ pos[e] <= Len(Order)
        /\ pos'[e] = pos[e] + 1 /\ pos[e] \in 1..Len(Order)
        /\ UNCHANGED <<checkpoint, file, phase>>
    BY <1>1, PlanLength DEF Seed, At, durable, TypeOK
  <1>3. phase' = [phase EXCEPT ![e] = "seeding"]
    BY <1>1, <1>2 DEF TypeOK
  <1>4. Node(e) \in Nodes
    BY <1>1, <1>2, NodeType DEF Node
  <1>5. \A m \in Nodes \ {Node(e)} : result'[e][m] = result[e][m]
    BY <1>1, <1>4 DEF Seed, TypeOK
  <1>6. SeededSoFar(e)'
    <2> SUFFICES ASSUME NEW i \in 1..(pos'[e] - 1), Committed(Order[i])
                 PROVE  result'[e][Order[i]].status = "completed"
      BY <1>2 DEF SeededSoFar, Committed, Succeeded
    <2>1. i \in 1..Len(Order) /\ (i = pos[e] \/ i \in 1..(pos[e] - 1))
      BY <1>2, PlanLength
    <2>2. Order[i] \in Nodes
      BY <2>1, RunnerAssumption DEF RunnerAssumption
    <2>3. CASE Order[i] = Node(e)
      BY <2>3, SeedTakesUp
    <2>4. CASE Order[i] # Node(e)
      <3>1. i \in 1..(pos[e] - 1)
        BY <2>1, <2>4 DEF Node
      <3>2. Succeeded(e, Order[i])
        BY <1>1, <1>2, <3>1 DEF SeededSoFar
      <3> QED
        BY <1>5, <2>2, <2>4, <3>2 DEF Succeeded
    <2> QED
      BY <2>3, <2>4
  <1>7. Recalled(e)'
    BY <1>2 DEF Recalled, InNode
  <1> QED
    BY <1>1, <1>2, <1>3, <1>6, <1>7, KeptBySteppers, PlaceStays DEF Retained

\* The seeding is over: every committed node was taken up.
LEMMA SeededKInv ==
    ASSUME AInv, Retained, NEW e \in Executors, Seeded(e),
           \A f \in Executors \ {e} : phase[f] = "idle"
    PROVE  Retained'
  <1>1. TypeOK /\ SeededSoFar(e)
    BY DEF Retained, AInv, IInv
  <1>2. /\ phase[e] = "seeding" /\ pos[e] > Len(Order)
        /\ phase' = [phase EXCEPT ![e] = "running"]
        /\ UNCHANGED <<checkpoint, file, result>>
    BY DEF Seeded, durable
  <1>3. ASSUME NEW n \in Nodes, Committed(n) PROVE result[e][n] # Unseen
    <2>1. PICK i \in 1..Len(Order) : Order[i] = n
      BY PlanAssumption
    <2>2. i \in 1..(pos[e] - 1)
      BY <1>1, <1>2, PlanLength DEF TypeOK
    <2>3. result[e][n].status = "completed"
      BY <1>1, <1>2, <1>3, <2>1, <2>2 DEF SeededSoFar, Succeeded
    <2>4. Unseen.status = "unseen"
      BY DEF Unseen, Plain
    <2> QED
      BY <2>3, <2>4
  <1>4. phase'[e] = "running"
    BY <1>1, <1>2 DEF TypeOK
  <1>5. Recalled(e)' /\ SeededSoFar(e)'
    BY <1>2, <1>3, <1>4 DEF Recalled, SeededSoFar, Committed
  <1> QED
    BY <1>1, <1>2, <1>5, KeptBySteppers, PlaceStays DEF Retained

\* Steps that change neither checkpoints nor artifacts and forget no result.
LEMMA GoOnKInv ==
    ASSUME AInv, Retained, NEW e \in Executors,
           \/ Reuse(e) \/ Finish(e) \/ Block(e) \/ Interrupted(e) \/ WorkFails(e)
           \/ AskApproval(e) \/ HandlerFails(e) \/ Raise(e) \/ BeginWork(e) \/ Approved(e)
           \/ HandlerPasses(e) \/ HashOutputs(e),
           \A f \in Executors \ {e} : phase[f] = "idle"
    PROVE  Retained'
  <1>1. TypeOK /\ Recalled(e)
    BY DEF Retained, AInv, IInv
  <1>2. phase[e] \in InNode \cup {"running"} /\ UNCHANGED <<checkpoint, file>>
    BY DEF Reuse, Finish, Block, Interrupted, WorkFails, AskApproval, HandlerFails, Raise,
           BeginWork, Approved, HandlerPasses, HashOutputs, Executes, Ready, Pending, At,
           InNode, durable, Conclude
  <1>3. PICK p \in InNode \cup {"idle", "running"} : phase' = [phase EXCEPT ![e] = p]
    <2>1. CASE Reuse(e)
      BY <1>1, <2>1 DEF Reuse, At, TypeOK
    <2>2. CASE ~Reuse(e)
      BY <2>2 DEF Finish, Block, Interrupted, WorkFails, AskApproval, HandlerFails, Raise,
             BeginWork, Approved, HandlerPasses, HashOutputs, InNode, File, Conclude
    <2> QED
      BY <2>1, <2>2
  <1>4. \/ UNCHANGED result
        \/ \E r \in Results : r.status # "unseen" /\ result' = [result EXCEPT ![e][Node(e)] = r]
    BY DEF Reuse, Finish, Block, Interrupted, WorkFails, AskApproval, HandlerFails, Raise,
           BeginWork, Approved, HandlerPasses, HashOutputs, File, Conclude, Plain, Verdict,
           Results, Failures, Axis
  <1>5. ASSUME NEW n \in Nodes, result[e][n] # Unseen PROVE result'[e][n] # Unseen
    <2>1. Unseen.status = "unseen"
      BY DEF Unseen, Plain
    <2> QED
      BY <1>1, <1>4, <1>5, <2>1 DEF TypeOK
  <1>6. phase'[e] = p
    BY <1>1, <1>3 DEF TypeOK
  <1>7. Recalled(e)' /\ SeededSoFar(e)'
    BY <1>1, <1>2, <1>5, <1>6 DEF Recalled, SeededSoFar, Committed, InNode
  <1> QED
    BY <1>1, <1>2, <1>3, <1>7, KeptBySteppers, PlaceStays DEF Retained

\* The node that removes or produces its artifact has no checkpoint.
LEMMA ProduceKInv ==
    ASSUME AInv, Retained, NEW e \in Executors, Clear(e) \/ Produce(e),
           \A f \in Executors \ {e} : phase[f] = "idle"
    PROVE  Retained'
  <1>1. TypeOK /\ Recalled(e) /\ Undecided(e) /\ InPlace
    BY DEF Retained, AInv, IInv, Steady
  <1>2. /\ phase[e] \in {"working", "cleared"} /\ pos[e] <= Len(Order)
        /\ UNCHANGED <<checkpoint, result>>
        /\ \E v : file' = [file EXCEPT ![Node(e)] = v]
    BY DEF Clear, Produce, At
  <1>3. Node(e) \in Nodes
    BY <1>1, <1>2, NodeType DEF Node
  <1>4. ~Committed(Node(e))
    BY <1>1, <1>2, <1>3 DEF Recalled, Undecided, InNode
  <1>5. InPlace'
    BY <1>1, <1>2, <1>3, <1>4 DEF InPlace, Committed, Content, TypeOK
  <1>6. PICK p \in {"cleared", "produced"} : phase' = [phase EXCEPT ![e] = p]
    BY DEF Clear, Produce
  <1>7. Recalled(e)' /\ SeededSoFar(e)'
    BY <1>1, <1>2, <1>6 DEF TypeOK, Recalled, SeededSoFar, Committed, InNode
  <1> QED
    BY <1>1, <1>5, <1>6, <1>7, KeptBySteppers DEF Retained

LEMMA CommitKInv ==
    ASSUME AInv, Retained, NEW e \in Executors, Commit(e),
           \A f \in Executors \ {e} : phase[f] = "idle"
    PROVE  Retained'
  <1> DEFINE n == Node(e)
  <1>1. TypeOK /\ Recalled(e) /\ Fresh(e) /\ Passing(e) /\ InPlace
    BY DEF Retained, AInv, IInv, Steady
  <1>2. /\ phase[e] = "hashed" /\ pos[e] <= Len(Order) /\ UNCHANGED file
        /\ draft[e].out = Content(n) /\ draft[e].result.status = "completed"
    BY <1>1 DEF Commit, At, Fresh, Passing
  <1>3. n \in Nodes /\ DOMAIN checkpoint = Nodes
    BY <1>1, <1>2, NodeType DEF Node, TypeOK
  <1>4. PICK r : File(e, r) /\ r.status # "unseen"
    <2>1. Plain("failed").status = "failed"
      BY DEF Plain
    <2> QED
      BY <1>2, <2>1 DEF Commit, Kept
  <1>5. /\ phase' = [phase EXCEPT ![e] = "running"]
        /\ result' = [result EXCEPT ![e][n] = r]
    BY <1>4 DEF File
  <1>6. \/ UNCHANGED checkpoint
        \/ checkpoint' = [checkpoint EXCEPT ![n] = Proposal(e)]
    BY DEF Commit
  <1>7. Proposal(e).out = draft[e].out
    BY DEF Proposal
  <1> HIDE DEF n
  <1>8. InPlace'
    BY <1>1, <1>2, <1>3, <1>6, <1>7 DEF InPlace, Committed, Content
  <1>9. phase'[e] = "running" /\ r # Unseen
    <2>1. Unseen.status = "unseen"
      BY DEF Unseen, Plain
    <2> QED
      BY <1>1, <1>4, <1>5, <2>1 DEF TypeOK
  <1>10. \A m \in Nodes : m = n \/ (Committed(m)' <=> Committed(m))
    BY <1>3, <1>6 DEF Committed
  <1>11. Recalled(e)'
    BY <1>1, <1>2, <1>3, <1>5, <1>9, <1>10 DEF Recalled, InNode, TypeOK
  <1>12. SeededSoFar(e)'
    BY <1>9 DEF SeededSoFar
  <1> QED
    BY <1>1, <1>5, <1>8, <1>11, <1>12, KeptBySteppers DEF Retained

LEMMA RequestKInv ==
    ASSUME AInv, Retained,
           \/ Cancel \/ DeadlinePasses
           \/ \E e \in Executors : NoticeLoss(e)
           \/ \E n \in Nodes : Answer(n)
           \/ UNCHANGED vars
    PROVE  Retained'
  <1>1. UNCHANGED <<checkpoint, file, phase, pos, result>>
    BY DEF Cancel, DeadlinePasses, NoticeLoss, Answer, vars, durable, local
  <1>2. \A e \in Executors : SeededSoFar(e)' /\ Recalled(e)'
    BY <1>1 DEF Retained, SeededSoFar, Recalled, Committed, Succeeded
  <1> QED
    BY <1>1, <1>2, PlaceStays DEF Retained

LEMMA NextKInv ==
    ASSUME ~Overlap, KInv, [Next]_vars
    PROVE  KInv'
  <1>1. AInv /\ AInv'
    BY NextAInv DEF KInv
  <1>2. ~forgot' => ~forgot
    BY DEF Next, vars, requests, Start, Seed, Seeded, Reuse, Block, Interrupted, BeginWork,
           Clear, Produce, WorkFails, AskApproval, Approved, HandlerPasses, HandlerFails,
           Conclude, Raise, HashOutputs, Commit, Finish, Crash, NoticeLoss, Cancel,
           DeadlinePasses, Answer
  <1> SUFFICES ASSUME ~forgot' PROVE Retained'
    BY <1>1 DEF KInv
  <1>3. Retained
    BY <1>2 DEF KInv
  <1>4. ASSUME NEW e \in Executors, NEW f \in Executors \ {e},
               Start(e) \/ phase[e] # "idle"
        PROVE  phase[f] = "idle"
    BY <1>1, <1>4, OthersIdle DEF Start
  <1>5. ASSUME NEW e \in Executors PROVE
           /\ Start(e) \/ Crash(e) => Retained'
           /\ Seed(e) => Retained'
           /\ Seeded(e) => Retained'
           /\ Clear(e) \/ Produce(e) => Retained'
           /\ Commit(e) => Retained'
    BY <1>1, <1>3, <1>4, ResetKInv, SeedKInv, SeededKInv, ProduceKInv, CommitKInv
       DEF Crash, Seed, Seeded, Clear, Produce, Commit, At
  <1>6. ASSUME NEW e \in Executors,
               \/ Reuse(e) \/ Finish(e) \/ Block(e) \/ Interrupted(e) \/ WorkFails(e)
               \/ AskApproval(e) \/ HandlerFails(e) \/ Raise(e) \/ BeginWork(e) \/ Approved(e)
               \/ HandlerPasses(e) \/ HashOutputs(e)
        PROVE  Retained'
    <2>1. phase[e] # "idle"
      BY <1>6 DEF Reuse, Finish, Block, Interrupted, WorkFails, AskApproval, HandlerFails,
           Raise, BeginWork, Approved, HandlerPasses, HashOutputs, Executes, Ready, Pending,
           At
    <2> QED
      BY <1>1, <1>3, <1>4, <1>6, <2>1, GoOnKInv
  <1>7. CASE \/ Cancel \/ DeadlinePasses
             \/ \E e \in Executors : NoticeLoss(e)
             \/ \E n \in Nodes : Answer(n)
             \/ UNCHANGED vars
    BY <1>1, <1>3, <1>7, RequestKInv
  <1> QED
    BY <1>5, <1>6, <1>7 DEF Next

(***************************************************************************)
(* While executions do not overlap, and none ran with reuse switched off,  *)
(* a node with a checkpoint is never executed again, nor its artifact      *)
(* removed or written again.                                               *)
(***************************************************************************)
THEOREM CommittedIsKept == ~Overlap => (Spec => []CommittedWorkIsKept)
  <1> SUFFICES ASSUME ~Overlap PROVE Spec => []CommittedWorkIsKept
    OBVIOUS
  <1>1. KInv /\ [Next]_vars => KInv'
    BY NextKInv
  <1>2. KInv => CommittedWorkIsKept
    <2> SUFFICES ASSUME KInv, ~forgot, NEW e \in Executors, phase[e] \in InNode
                 PROVE  ~Committed(Node(e))
      BY DEF CommittedWorkIsKept, InNode
    <2>1. TypeOK /\ Fed /\ Undecided(e) /\ Recalled(e)
      BY DEF KInv, Retained, AInv, IInv, Steady
    <2>2. Node(e) \in Nodes
      BY <2>1, NodeType DEF Fed, Node, InNode
    <2> QED
      BY <2>1, <2>2 DEF Undecided, Recalled
  <1> QED
    BY <1>1, <1>2, InitKInv, PTL DEF Spec

--------------------------------------------------------------------------------
(***************************************************************************)
(* What a handler's result says.  It has passed, was rejected, was blocked *)
(* or was cut off (Judged), and has passed only what its checkpoint says   *)
(* it has (Judging, Recorded), after everything it depends on (Supported). *)
(* If anything is blocked, something has failed, or waits (Excused).       *)
(***************************************************************************)
Rejection(n) ==
    Verdict("failed", Axis(n), CASE Axis(n) # "governance" -> ""
                                 [] Axis(n) = "governance" /\ n \in Blocking -> "failed"
                                 [] OTHER -> "warning")

Judged(e) ==
    \A n \in Handlers :
        \/ result[e][n] \in {Unseen, Plain("blocked"), Success(n), Rejection(n)}
        \/ CutOff(result[e][n])
Judging(e) == phase[e] \in {"produced", "hashed"} => draft[e].result = Success(Node(e))
Recorded == \A n \in Nodes : Committed(n) => checkpoint[n].result = Success(n)
Supported(e) ==
    \A n \in Nodes : Succeeded(e, n) => \A d \in Deps[n] : Succeeded(e, d)

Blocked(e, n) == result[e][n].status = "blocked"
Ended(e, n) == result[e][n].status \in Failures \cup {"waiting_for_input"}
Excused(e) ==
    /\ (\E n \in Nodes : Blocked(e, n)) => \E m \in Nodes : Ended(e, m)
    /\ phase[e] = "seeding" =>
          \A n \in Nodes : result[e][n].status \in {"unseen", "completed"}

Accountable(e) == Judged(e) /\ Judging(e) /\ Supported(e) /\ Excused(e)

GInv == AInv /\ Recorded /\ \A e \in Executors : Accountable(e)

\* Ended, blocked and their like, by status.
LEMMA StatusOf ==
    /\ Unseen.status = "unseen" /\ \A t : Plain(t).status = t /\ Plain(t).axis = ""
    /\ \A n : Success(n).status = "completed" /\ Rejection(n).status = "failed"
  BY DEF Unseen, Plain, Success, Rejection, Verdict

LEMMA InitGInv == Init => GInv
  <1> SUFFICES ASSUME Init PROVE GInv
    OBVIOUS
  <1>1. /\ phase = [e \in Executors |-> "idle"]
        /\ result = [e \in Executors |-> [n \in Nodes |-> Unseen]]
        /\ checkpoint = [n \in Nodes |-> NoCheckpoint(n)]
    BY DEF Init
  <1>2. Recorded
    BY <1>1 DEF Recorded, Committed, NoCheckpoint
  <1>3. ASSUME NEW e \in Executors PROVE Accountable(e)
    <2>1. \A n \in Nodes : result[e][n] = Unseen
      BY <1>1
    <2>2. Judged(e) /\ Supported(e)
      BY <2>1, StatusOf DEF Judged, Handlers, Supported, Succeeded
    <2>3. Judging(e)
      BY <1>1 DEF Judging
    <2>4. Excused(e)
      BY <1>1, <2>1, StatusOf DEF Excused, Blocked
    <2> QED
      BY <2>2, <2>3, <2>4 DEF Accountable
  <1> QED
    BY <1>2, <1>3, InitAInv DEF GInv

\* An executor keeps what is said of it while its own variables stay.
LEMMA ExecutorStays ==
    ASSUME GInv, NEW f \in Executors,
           phase'[f] = phase[f], pos'[f] = pos[f], result'[f] = result[f],
           draft'[f] = draft[f]
    PROVE  Accountable(f)'
  <1>1. Judged(f)' /\ Supported(f)'
    BY DEF GInv, Accountable, Judged, Supported, Succeeded
  <1>2. Judging(f)'
    BY DEF GInv, Accountable, Judging, Node
  <1>3. Excused(f)'
    BY DEF GInv, Accountable, Excused, Blocked, Ended
  <1> QED
    BY <1>1, <1>2, <1>3 DEF Accountable

\* A step of one executor.
LEMMA OneSteps ==
    ASSUME GInv, NEW e \in Executors, NEW p, NEW i, NEW S, NEW D,
           phase' = [phase EXCEPT ![e] = p], pos' = [pos EXCEPT ![e] = i],
           result' = [result EXCEPT ![e] = S],
           draft' = [draft EXCEPT ![e] = D] \/ UNCHANGED draft,
           Accountable(e)'
    PROVE  \A f \in Executors : Accountable(f)'
  <1>1. TypeOK
    BY DEF GInv, AInv, IInv
  <1> SUFFICES ASSUME NEW f \in Executors \ {e}
               PROVE  Accountable(f)'
    OBVIOUS
  <1>2. /\ phase'[f] = phase[f] /\ pos'[f] = pos[f] /\ result'[f] = result[f]
        /\ draft'[f] = draft[f]
    BY <1>1 DEF TypeOK
  <1> QED
    BY <1>2, ExecutorStays

\* The record stays, and with it what is said of it.
LEMMA RecordStays ==
    ASSUME GInv, UNCHANGED checkpoint
    PROVE  Recorded'
  BY DEF GInv, Recorded, Committed

LEMMA ResetGInv ==
    ASSUME GInv, NEW e \in Executors, Start(e) \/ Crash(e)
    PROVE  Recorded' /\ \A f \in Executors : Accountable(f)'
  <1> DEFINE S == [n \in Nodes |-> Unseen]
  <1>1. TypeOK
    BY DEF GInv, AInv, IInv
  <1>2. /\ result' = [result EXCEPT ![e] = S]
        /\ pos' = [pos EXCEPT ![e] = 1] /\ draft' = [draft EXCEPT ![e] = Blank]
        /\ UNCHANGED checkpoint
    BY DEF Start, Crash, durable
  <1>3. PICK p \in {"idle", "seeding", "running"} : phase' = [phase EXCEPT ![e] = p]
    BY DEF Start, Crash
  <1>4. phase'[e] = p /\ \A n \in Nodes : result'[e][n] = Unseen
    BY <1>1, <1>2, <1>3 DEF TypeOK
  <1>5. Judged(e)' /\ Supported(e)'
    BY <1>4, StatusOf DEF Judged, Handlers, Supported, Succeeded
  <1>6. Judging(e)'
    BY <1>4 DEF Judging
  <1>7. Excused(e)'
    BY <1>4, StatusOf DEF Excused, Blocked
  <1> HIDE DEF S
  <1> QED
    BY <1>2, <1>3, <1>5, <1>6, <1>7, OneSteps, RecordStays DEF Accountable

LEMMA SeedGInv ==
    ASSUME GInv, NEW e \in Executors, Seed(e)
    PROVE  Recorded' /\ \A f \in Executors : Accountable(f)'
  <1> DEFINE n == Node(e)
  <1>1. TypeOK /\ Recorded /\ Judged(e) /\ Supported(e) /\ Excused(e)
    BY DEF GInv, AInv, IInv, Accountable
  <1>2. /\ phase[e] = "seeding" /\ pos[e] <= Len(Order)
        /\ pos' = [pos EXCEPT ![e] = pos[e] + 1]
        /\ UNCHANGED <<checkpoint, phase, draft>>
    BY <1>1 DEF Seed, At, durable, TypeOK
  <1>3. n \in Nodes
    BY <1>1, <1>2, NodeType DEF Node
  <1>4. \/ UNCHANGED result
        \/ /\ Committed(n) /\ result' = [result EXCEPT ![e][n] = checkpoint[n].result]
           /\ \A d \in Deps[n] : Succeeded(e, d)
    BY DEF Seed, Matches
  <1> HIDE DEF n
  <1>5. PICK S : result' = [result EXCEPT ![e] = S]
    BY <1>1, <1>4 DEF TypeOK
  <1>6. phase' = [phase EXCEPT ![e] = "seeding"]
    BY <1>1, <1>2 DEF TypeOK
  <1>7. \A m \in Nodes : \/ result'[e][m] = result[e][m]
                         \/ /\ Committed(m) /\ result'[e][m] = Success(m)
                            /\ \A d \in Deps[m] : Succeeded(e, d)
    BY <1>1, <1>3, <1>4 DEF TypeOK, Recorded
  <1>8. Judged(e)'
    BY <1>1, <1>7 DEF Judged, Handlers
  <1>9. Judging(e)'
    BY <1>2 DEF Judging
  <1>10. \A m \in Nodes : result'[e][m].status \in {"unseen", "completed"}
    BY <1>1, <1>2, <1>7, StatusOf DEF Excused
  <1>11. Excused(e)'
    BY <1>10 DEF Excused, Blocked
  <1>12. \A m \in Nodes : Succeeded(e, m) => Succeeded(e, m)'
    BY <1>7, StatusOf DEF Succeeded
  <1>13. Supported(e)'
    <2> SUFFICES ASSUME NEW m \in Nodes, Succeeded(e, m)', NEW d \in Deps[m]
                 PROVE  Succeeded(e, d)'
      BY DEF Supported
    <2>1. Succeeded(e, d)
      BY <1>1, <1>7 DEF Supported, Succeeded
    <2>2. d \in Nodes
      BY RunnerAssumption DEF RunnerAssumption
    <2> QED
      BY <1>12, <2>1, <2>2
  <1> QED
    BY <1>2, <1>5, <1>6, <1>8, <1>9, <1>11, <1>13, OneSteps, RecordStays DEF Accountable

\* The pass goes on without a new result.
LEMMA ScanGInv ==
    ASSUME GInv, NEW e \in Executors, Seeded(e) \/ Reuse(e) \/ Finish(e)
    PROVE  Recorded' /\ \A f \in Executors : Accountable(f)'
  <1>1. TypeOK /\ Judged(e) /\ Supported(e) /\ Excused(e)
    BY DEF GInv, AInv, IInv, Accountable
  <1>2. UNCHANGED <<checkpoint, result, draft>>
    BY DEF Seeded, Reuse, Finish, durable
  <1>3. PICK p \in {"idle", "running"} : phase' = [phase EXCEPT ![e] = p]
    <2>1. CASE Reuse(e)
      BY <1>1, <2>1 DEF Reuse, At, TypeOK
    <2> QED
      BY <2>1 DEF Seeded, Finish
  <1>4. PICK i : pos' = [pos EXCEPT ![e] = i]
    <2>1. CASE Finish(e)
      BY <1>1, <2>1 DEF Finish, TypeOK
    <2>2. CASE Seeded(e)
      BY <2>2 DEF Seeded
    <2>3. CASE Reuse(e)
      BY <2>3 DEF Reuse
    <2> QED
      BY <2>1, <2>2, <2>3
  <1>5. result' = [result EXCEPT ![e] = result[e]]
    BY <1>1, <1>2 DEF TypeOK
  <1>6. phase'[e] = p
    BY <1>1, <1>3 DEF TypeOK
  <1>7. Judged(e)' /\ Judging(e)' /\ Supported(e)'
    BY <1>1, <1>2, <1>6 DEF Judged, Judging, Supported, Succeeded
  <1>8. Excused(e)'
    BY <1>1, <1>2, <1>6 DEF Excused, Blocked, Ended
  <1> QED
    BY <1>2, <1>3, <1>4, <1>5, <1>7, <1>8, OneSteps, RecordStays DEF Accountable

\* A result is filed; if it says blocked, something has ended or was blocked before.
LEMMA FilingGInv ==
    ASSUME GInv, NEW e \in Executors, NEW r, File(e, r), pos[e] <= Len(Order),
           result[e][Node(e)] = Unseen,
           \/ r \in {Plain("blocked"), Success(Node(e)), Rejection(Node(e))}
           \/ r.status \in Failures \cup {"waiting_for_input"}
              /\ (Node(e) \in Handlers => CutOff(r)),
           r = Success(Node(e)) => \A d \in Deps[Node(e)] : Succeeded(e, d),
           r.status = "blocked" => \E m \in Nodes : Ended(e, m) \/ Blocked(e, m)
    PROVE  \A f \in Executors : Accountable(f)'
  <1> DEFINE n == Node(e)
  <1>1. TypeOK /\ Judged(e) /\ Supported(e) /\ Excused(e)
    BY DEF GInv, AInv, IInv, Accountable
  <1>2. n \in Nodes
    BY <1>1, NodeType DEF Node
  <1>3. /\ result' = [result EXCEPT ![e][n] = r]
        /\ pos' = [pos EXCEPT ![e] = pos[e] + 1]
        /\ phase' = [phase EXCEPT ![e] = "running"]
        /\ draft' = [draft EXCEPT ![e] = Blank]
    BY <1>1 DEF File, TypeOK
  <1> HIDE DEF n
  <1>4. PICK S : result' = [result EXCEPT ![e] = S]
    BY <1>1, <1>3 DEF TypeOK
  <1>5. /\ phase'[e] = "running" /\ result'[e][n] = r
        /\ \A m \in Nodes \ {n} : result'[e][m] = result[e][m]
    BY <1>1, <1>2, <1>3 DEF TypeOK
  <1>6. Judged(e)'
    <2>1. n \in Handlers =>
            r \in {Plain("blocked"), Success(n), Rejection(n)} \/ CutOff(r)
      BY DEF n
    <2> QED
      BY <1>1, <1>5, <2>1 DEF Judged, Handlers
  <1>7. Judging(e)'
    BY <1>5 DEF Judging
  <1>8. result[e][n].status = "unseen"
    BY StatusOf DEF n
  <1>9. r.status = "completed" => r = Success(n)
    BY StatusOf DEF n, Failures
  <1>10. \A m \in Nodes : /\ Ended(e, m) => Ended(e, m)'
                          /\ Succeeded(e, m) => Succeeded(e, m)'
                          /\ Blocked(e, m) => Blocked(e, m)'
    BY <1>5, <1>8 DEF Ended, Succeeded, Blocked, Failures
  <1>11. Excused(e)'
    <2> SUFFICES ASSUME NEW k \in Nodes, Blocked(e, k)' PROVE \E m \in Nodes : Ended(e, m)'
      BY <1>5 DEF Excused
    <2>1. \E m \in Nodes : Ended(e, m) \/ Blocked(e, m)
      BY <1>5 DEF Blocked
    <2> QED
      BY <1>1, <1>10, <2>1 DEF Excused
  <1>12. Supported(e)'
    <2> SUFFICES ASSUME NEW m \in Nodes, Succeeded(e, m)', NEW d \in Deps[m]
                 PROVE  Succeeded(e, d)'
      BY DEF Supported
    <2>1. d \in Nodes
      BY RunnerAssumption DEF RunnerAssumption
    <2>2. CASE m = n
      BY <1>5, <1>9, <1>10, <2>1, <2>2 DEF Succeeded, n
    <2>3. CASE m # n
      BY <1>1, <1>5, <1>10, <2>1, <2>3 DEF Succeeded, Supported
    <2> QED
      BY <2>2, <2>3
  <1> QED
    BY <1>3, <1>4, <1>6, <1>7, <1>11, <1>12, OneSteps DEF Accountable

\* What a blocked node waits for was visited before it.
LEMMA BlockIsExcused ==
    ASSUME GInv, NEW e \in Executors, Block(e)
    PROVE  \E m \in Nodes : Ended(e, m) \/ Blocked(e, m)
  <1>1. TypeOK /\ Marked /\ Visited(e)
    BY DEF GInv, AInv, IInv, Steady
  <1>2. phase[e] = "running" /\ pos[e] <= Len(Order) /\ pos[e] \in 1..Len(Order)
    BY <1>1, PlanLength DEF Block, Pending, At, TypeOK
  <1>3. Node(e) \in Nodes /\ Node(e) = Order[pos[e]]
    BY <1>1, <1>2, NodeType DEF Node
  <1>4. CASE StopSources(e) # {}
    BY <1>4 DEF StopSources, Ended
  <1>5. CASE StopSources(e) = {}
    <2>1. PICK d \in Deps[Node(e)] : ~Succeeded(e, d)
      BY <1>5 DEF Block, Ready
    <2>2. d \in Nodes
      BY <1>3, RunnerAssumption DEF RunnerAssumption
    <2>3. PICK j \in 1..(pos[e] - 1) : Order[j] = d
      BY <1>2, <1>3, PlanAssumption
    <2>4. result[e][d] # Unseen
      BY <1>1, <1>2, <2>3 DEF Visited
    <2>5. result[e][d].status \notin {"unseen", "completed"}
      BY <1>1, <2>1, <2>2, <2>4 DEF Marked, Succeeded
    <2>6. result[e][d] \in Results
      BY <1>1, <2>2 DEF TypeOK
    <2>7. Ended(e, d) \/ Blocked(e, d)
      BY <2>5, <2>6 DEF Results, Ended, Blocked
    <2> QED
      BY <2>2, <2>7
  <1> QED
    BY <1>4, <1>5

LEMMA FilingStepsGInv ==
    ASSUME GInv, NEW e \in Executors,
           Block(e) \/ Interrupted(e) \/ WorkFails(e) \/ AskApproval(e)
           \/ HandlerFails(e) \/ Raise(e)
    PROVE  Recorded' /\ \A f \in Executors : Accountable(f)'
  <1>1. TypeOK /\ Undecided(e)
    BY DEF GInv, AInv, IInv, Steady
  <1>2. UNCHANGED checkpoint /\ pos[e] <= Len(Order)
    BY DEF Block, Interrupted, WorkFails, AskApproval, HandlerFails, Raise, durable,
           Executes, Ready, Pending, At
  <1>3. result[e][Node(e)] = Unseen
    BY <1>1 DEF Block, Interrupted, WorkFails, AskApproval, HandlerFails, Raise,
           Executes, Ready, Pending, At, Undecided, InNode
  <1>4. CASE Block(e)
    <2>1. File(e, Plain("blocked"))
      BY <1>4 DEF Block
    <2>2. Plain("blocked") # Success(Node(e))
      BY StatusOf
    <2> QED
      BY <1>2, <1>3, <1>4, <2>1, <2>2, BlockIsExcused, FilingGInv, RecordStays
  <1>5. CASE Interrupted(e) \/ WorkFails(e) \/ AskApproval(e) \/ Raise(e)
    <2>1. PICK t \in Failures \cup {"waiting_for_input"} :
             File(e, Plain(t)) /\ (Node(e) \in Handlers => t \in Failures)
      BY <1>5 DEF Interrupted, WorkFails, AskApproval, Raise, Handlers, Failures
    <2>2. Plain(t).status = t /\ Plain(t).axis = "" /\ Plain(t) # Success(Node(e))
      BY <2>1, StatusOf DEF Failures
    <2>3. Node(e) \in Handlers => CutOff(Plain(t))
      BY <2>1, <2>2 DEF CutOff
    <2>4. t # "blocked"
      BY <2>1 DEF Failures
    <2> QED
      BY <1>2, <1>3, <2>1, <2>2, <2>3, <2>4, FilingGInv, RecordStays
  <1>6. CASE HandlerFails(e)
    <2>1. File(e, Rejection(Node(e)))
      BY <1>6 DEF HandlerFails, Rejection
    <2>2. Rejection(Node(e)) # Success(Node(e)) /\ Rejection(Node(e)).status # "blocked"
      BY StatusOf
    <2> QED
      BY <1>2, <1>3, <2>1, <2>2, FilingGInv, RecordStays
  <1> QED
    BY <1>4, <1>5, <1>6

\* A step that only changes what e drafts, or how far it is with it.
LEMMA DraftGInv ==
    ASSUME GInv, NEW e \in Executors, NEW p \in InNode, NEW D,
           phase' = [phase EXCEPT ![e] = p],
           draft' = [draft EXCEPT ![e] = D] \/ (UNCHANGED draft /\ D = draft[e]),
           UNCHANGED <<checkpoint, pos, result>>,
           p \in {"produced", "hashed"} => D.result = Success(Node(e))
    PROVE  Recorded' /\ \A f \in Executors : Accountable(f)'
  <1>1. TypeOK /\ Judged(e) /\ Supported(e) /\ Excused(e)
    BY DEF GInv, AInv, IInv, Accountable
  <1>2. pos' = [pos EXCEPT ![e] = pos[e]] /\ result' = [result EXCEPT ![e] = result[e]]
    BY <1>1 DEF TypeOK
  <1>3. phase'[e] = p /\ draft'[e] = D /\ Node(e)' = Node(e)
    BY <1>1 DEF TypeOK, Node
  <1>4. Judged(e)' /\ Judging(e)' /\ Supported(e)'
    BY <1>1, <1>3 DEF Judged, Judging, Supported, Succeeded
  <1>5. Excused(e)'
    BY <1>1, <1>3 DEF Excused, Blocked, Ended, InNode
  <1> QED
    BY <1>2, <1>4, <1>5, OneSteps, RecordStays DEF Accountable

LEMMA WorkStepsGInv ==
    ASSUME GInv, NEW e \in Executors,
           BeginWork(e) \/ Clear(e) \/ Produce(e) \/ Approved(e) \/ HandlerPasses(e)
           \/ HashOutputs(e)
    PROVE  Recorded' /\ \A f \in Executors : Accountable(f)'
  <1>1. TypeOK /\ Judging(e)
    BY DEF GInv, AInv, IInv, Accountable
  <1>2. UNCHANGED <<checkpoint, pos, result>>
    BY DEF BeginWork, Clear, Produce, Approved, HandlerPasses, HashOutputs, Conclude, durable
  <1>3. \A used, snapshot, out, r : Draft(used, snapshot, out, r).result = r
    BY DEF Draft
  <1>4. CASE BeginWork(e) \/ Clear(e)
    <2>1. PICK p \in {"working", "cleared"} : phase' = [phase EXCEPT ![e] = p]
      BY <1>4 DEF BeginWork, Clear
    <2>2. p \in InNode /\ p \notin {"produced", "hashed"}
      BY <2>1 DEF InNode
    <2>3. CASE BeginWork(e)
      <3> DEFINE D == Draft(Used(Node(e)), "none", "none", Unseen)
      <3>1. draft' = [draft EXCEPT ![e] = D]
        BY <2>3 DEF BeginWork
      <3> HIDE DEF D
      <3> QED
        BY <1>2, <2>1, <2>2, <3>1, DraftGInv
    <2>4. CASE Clear(e)
      BY <1>2, <2>1, <2>2, <2>4, DraftGInv DEF Clear
    <2> QED
      BY <1>4, <2>3, <2>4
  <1>5. ASSUME phase' = [phase EXCEPT ![e] = "produced"] \/ phase' = [phase EXCEPT ![e] = "hashed"],
               NEW D, draft' = [draft EXCEPT ![e] = D], D.result = Success(Node(e))
        PROVE  Recorded' /\ \A f \in Executors : Accountable(f)'
    BY <1>2, <1>5, DraftGInv DEF InNode
  <1>6. CASE Produce(e)
    <2> DEFINE D == draft'[e]
    <2>1. PICK snapshot : D = Draft(draft[e].used, snapshot, "none", Success(Node(e)))
      BY <1>1, <1>6 DEF Produce, TypeOK
    <2>2. draft' = [draft EXCEPT ![e] = D] /\ D.result = Success(Node(e))
      BY <1>1, <1>3, <1>6, <2>1 DEF Produce, TypeOK
    <2> HIDE DEF D
    <2> QED
      BY <1>5, <1>6, <2>2 DEF Produce
  <1>7. CASE Approved(e) \/ HandlerPasses(e)
    <2> DEFINE D == Draft(Used(Node(e)), "fixed", "none", Success(Node(e)))
    <2>1. draft' = [draft EXCEPT ![e] = D] /\ phase' = [phase EXCEPT ![e] = "produced"]
      BY <1>7 DEF Approved, HandlerPasses, Conclude
    <2>2. D.result = Success(Node(e))
      BY <1>3
    <2> HIDE DEF D
    <2> QED
      BY <1>5, <2>1, <2>2
  <1>8. CASE HashOutputs(e)
    <2> DEFINE D == Draft(draft[e].used, draft[e].snapshot, Content(Node(e)),
                          draft[e].result)
    <2>1. draft' = [draft EXCEPT ![e] = D] /\ phase' = [phase EXCEPT ![e] = "hashed"]
      BY <1>1, <1>8 DEF HashOutputs, TypeOK
    <2>2. D.result = Success(Node(e))
      BY <1>1, <1>3, <1>8 DEF HashOutputs, At, Judging
    <2> HIDE DEF D
    <2> QED
      BY <1>5, <2>1, <2>2
  <1> QED
    BY <1>4, <1>6, <1>7, <1>8

LEMMA CommitGInv ==
    ASSUME GInv, NEW e \in Executors, Commit(e)
    PROVE  Recorded' /\ \A f \in Executors : Accountable(f)'
  <1> DEFINE n == Node(e)
  <1>1. TypeOK /\ Fed /\ Judging(e) /\ Undecided(e) /\ Recorded
    BY DEF GInv, AInv, IInv, Steady, Accountable
  <1>2. phase[e] = "hashed" /\ pos[e] <= Len(Order)
    BY DEF Commit, At
  <1>3. /\ n \in Nodes /\ DOMAIN checkpoint = Nodes /\ result[e][n] = Unseen
        /\ draft[e].result = Success(n)
    BY <1>1, <1>2, NodeType DEF Node, TypeOK, Undecided, Judging, InNode
  <1>4. \A d \in Deps[n] : Succeeded(e, d)
    BY <1>1, <1>2 DEF Fed, Node, Succeeded
  <1>5. File(e, Success(n)) \/ File(e, Plain("failed"))
    BY <1>3 DEF Commit, Kept
  <1>6. \A f \in Executors : Accountable(f)'
    <2>1. CASE File(e, Success(n))
      BY <1>2, <1>3, <1>4, <2>1, FilingGInv, StatusOf
    <2>2. CASE File(e, Plain("failed"))
      <3>1. CutOff(Plain("failed")) /\ Plain("failed").status = "failed"
            /\ Plain("failed") # Success(n)
        BY StatusOf DEF CutOff, Failures
      <3>2. Plain("failed").status \in Failures /\ Plain("failed").status # "blocked"
        BY <3>1 DEF Failures
      <3> QED
        BY <1>2, <1>3, <2>2, <3>1, <3>2, FilingGInv
    <2> QED
      BY <1>5, <2>1, <2>2
  <1>7. \/ UNCHANGED checkpoint
        \/ checkpoint' = [checkpoint EXCEPT ![n] = Proposal(e)]
    BY DEF Commit
  <1>8. Proposal(e).result = draft[e].result
    BY DEF Proposal
  <1> HIDE DEF n
  <1>9. Recorded'
    BY <1>1, <1>3, <1>7, <1>8 DEF Recorded, Committed
  <1> QED
    BY <1>6, <1>9

LEMMA NextGInv ==
    ASSUME ~Overlap, GInv, [Next]_vars
    PROVE  GInv'
  <1>1. AInv'
    BY NextAInv DEF GInv
  <1>2. ASSUME NEW e \in Executors PROVE
           /\ Start(e) \/ Crash(e) => GInv'
           /\ Seed(e) => GInv'
           /\ Seeded(e) \/ Reuse(e) \/ Finish(e) => GInv'
           /\ Block(e) \/ Interrupted(e) \/ WorkFails(e) \/ AskApproval(e)
              \/ HandlerFails(e) \/ Raise(e) => GInv'
           /\ BeginWork(e) \/ Clear(e) \/ Produce(e) \/ Approved(e) \/ HandlerPasses(e)
              \/ HashOutputs(e) => GInv'
           /\ Commit(e) => GInv'
    BY <1>1, ResetGInv, SeedGInv, ScanGInv, FilingStepsGInv, WorkStepsGInv, CommitGInv
       DEF GInv
  <1>3. ASSUME \/ Cancel \/ DeadlinePasses
               \/ \E e \in Executors : NoticeLoss(e)
               \/ \E n \in Nodes : Answer(n)
               \/ UNCHANGED vars
        PROVE  GInv'
    <2>1. UNCHANGED <<checkpoint, phase, pos, result, draft>>
      BY <1>3 DEF Cancel, DeadlinePasses, NoticeLoss, Answer, vars, durable, local
    <2> QED
      BY <1>1, <2>1, ExecutorStays, RecordStays DEF GInv
  <1> QED
    BY <1>2, <1>3 DEF Next

\* The statuses that the reductions can return.
LEMMA AxisValues ==
    ASSUME NEW e \in Executors
    PROVE  /\ ExecutionStatus(e) \in Failures \cup {"waiting_for_input", "completed"}
           /\ ValidationStatus(e) \in {"not_requested", "failed", "not_started", "passed"}
  <1>1. ExecutionStatus(e) \in Failures \cup {"waiting_for_input", "completed"}
    BY DEF ExecutionStatus, Failures
  <1>2. ValidationStatus(e) \in {"not_requested", "failed", "not_started", "passed"}
    BY DEF ValidationStatus
  <1> QED
    BY <1>1, <1>2

LEMMA ReadyAxes ==
    ASSUME NEW e \in Executors,
           Delivery(ExecutionStatus(e), ValidationStatus(e), GovernanceStatus(e)) = "ready"
    PROVE  /\ ExecutionStatus(e) = "completed" /\ ValidationStatus(e) # "failed"
           /\ GovernanceStatus(e) # "failed"
  <1> DEFINE x == ExecutionStatus(e)
             v == ValidationStatus(e)
             g == GovernanceStatus(e)
  <1>1. /\ x \in Failures \cup {"waiting_for_input", "completed"}
        /\ v \in {"not_requested", "failed", "not_started", "passed"}
    BY AxisValues
  <1> HIDE DEF x, v, g
  <1>2. Delivery(x, v, g) = "ready" => x = "completed" /\ v # "failed" /\ g # "failed"
    BY <1>1 DEF Delivery, Failures
  <1> QED
    BY <1>2 DEF x, v, g

\* A completed execution leaves no other node than handlers undone.
LEMMA OthersComplete ==
    ASSUME AInv, NEW e \in Executors, phase[e] = "running", pos[e] > Len(Order),
           ExecutionStatus(e) = "completed", NEW n \in Nodes \ Handlers
    PROVE  result[e][n].status = "completed"
  <1>1. Statuses(e, Nodes \ Handlers)
          \cap {"waiting_for_input", "cancelled", "timed_out", "failed", "blocked"} = {}
    BY DEF ExecutionStatus
  <1>2. result[e][n].status \in Statuses(e, Nodes \ Handlers)
    BY DEF Statuses
  <1>3. result[e][n].status \in Failures \cup {"unseen", "completed", "blocked",
                                              "waiting_for_input"}
    <2>1. result[e][n] \in Results
      BY DEF AInv, IInv, TypeOK
    <2> QED
      BY <2>1 DEF Results
  <1> QED
    BY <1>1, <1>2, <1>3, AllVisited DEF Failures

\* The axes show the rejection of a handler whose verdict counts.
LEMMA RejectionShows ==
    ASSUME NEW e \in Executors, NEW n \in Judges, result[e][n] = Rejection(n)
    PROVE  ValidationStatus(e) = "failed" \/ GovernanceStatus(e) = "failed"
  <1>1. /\ Rejection(n).status = "failed" /\ Rejection(n).axis = Axis(n)
        /\ Axis(n) = "governance" /\ n \in Blocking => Rejection(n).gov = "failed"
    BY DEF Rejection, Verdict
  <1>2. n \in Reported(e)
    BY <1>1 DEF Reported, Judges
  <1>3. CASE Axis(n) = "artifact_validation"
    <2>1. n \in ValidatorResults(e)
      BY <1>1, <1>2, <1>3 DEF ValidatorResults
    <2>2. "failed" \in Statuses(e, ValidatorResults(e))
      BY <1>1, <2>1 DEF Statuses
    <2> QED
      BY <2>1, <2>2 DEF ValidationStatus
  <1>4. CASE Axis(n) # "artifact_validation"
    <2>1. Axis(n) = "governance"
      BY <1>4 DEF Axis
    <2>2. n \in GovernanceResults(e)
      BY <1>1, <1>2, <2>1 DEF GovernanceResults, ValidatorResults
    <2>3. "failed" \in {result[e][m].gov : m \in GovernanceResults(e)}
      BY <1>1, <1>4, <2>1, <2>2 DEF Judges
    <2> QED
      BY <2>3 DEF GovernanceStatus
  <1> QED
    BY <1>3, <1>4

(***************************************************************************)
(* A verdict passed in this execution or an earlier one is about what is   *)
(* in place now: the key of its checkpoint says so.                        *)
(***************************************************************************)
LEMMA PassedIsInPlace ==
    ASSUME GInv, NEW e \in Executors, phase[e] # "idle", NEW n \in Nodes, Succeeded(e, n)
    PROVE  checkpoint[n].used = Used(n)
  <1>1. /\ TypeOK /\ Sound /\ Known /\ Placed(e) /\ KeysTellTheTruth /\ Supported(e)
    BY DEF GInv, AInv, IInv, Steady, Accountable
  <1>2. checkpoint[n].revision > 0 /\ checkpoint[n].used = checkpoint[n].key
    BY <1>1 DEF Known, Succeeded, KeysTellTheTruth, Committed
  <1>3. Deps[n] \subseteq Nodes
    BY RunnerAssumption DEF RunnerAssumption
  <1>4. \A d \in Deps[n] : checkpoint[n].key[d] = Content(d)
    <2> SUFFICES ASSUME NEW d \in Deps[n] PROVE checkpoint[n].key[d] = Content(d)
      OBVIOUS
    <2>1. result[e][d].status = "completed"
      BY <1>1 DEF Supported, Succeeded
    <2>2. Content(d) = hashes[e][d] /\ hashes[e][d] = checkpoint[d].out
      BY <1>1, <1>3, <2>1 DEF Placed, Known
    <2>3. checkpoint[n].key[d] = checkpoint[d].out
      BY <1>1, <1>2 DEF Sound
    <2> QED
      BY <2>2, <2>3
  <1>5. checkpoint[n].key \in [Deps[n] -> Outputs \cup {"none"}]
    BY <1>1 DEF TypeOK
  <1> QED
    BY <1>2, <1>4, <1>5 DEF Used

LEMMA FinishIsJudged ==
    ASSUME GInv, NEW e \in Executors, Finish(e), outcome'.delivery = "ready",
           NEW n \in Judges
    PROVE  LET r == outcome'.results IN
           \/ r[n].status = "completed" /\ checkpoint[n].used = Used(n)
           \/ CutOff(r[n])
           \/ /\ r[n].status = "blocked"
              /\ \E m \in Handlers : CutOff(r[m]) \/ Warned(r[m])
  <1>1. AInv /\ TypeOK /\ Judged(e) /\ Excused(e)
    BY DEF GInv, AInv, IInv, Accountable
  <1>2. /\ phase[e] = "running" /\ pos[e] > Len(Order)
        /\ outcome'.results = result[e]
        /\ Delivery(ExecutionStatus(e), ValidationStatus(e), GovernanceStatus(e)) = "ready"
    BY DEF Finish
  <1>3. /\ ExecutionStatus(e) = "completed" /\ ValidationStatus(e) # "failed"
        /\ GovernanceStatus(e) # "failed"
    BY <1>2, ReadyAxes
  <1>4. n \in Handlers /\ n \in Nodes
    BY DEF Judges, Handlers
  <1>5. \A m \in Handlers : result[e][m] # Unseen
    BY <1>1, <1>2, AllVisited, StatusOf DEF Handlers
  <1>6. \A m \in Judges : result[e][m] # Rejection(m)
    BY <1>3, RejectionShows
  <1>7. CASE result[e][n] = Success(n)
    BY <1>2, <1>4, <1>7, PassedIsInPlace, StatusOf DEF Succeeded
  <1>8. CASE result[e][n] = Plain("blocked")
    <2>1. PICK m \in Nodes : Ended(e, m)
      BY <1>1, <1>4, <1>8, StatusOf DEF Excused, Blocked
    <2>2. m \in Handlers
      <3>1. result[e][m].status # "completed"
        BY <2>1 DEF Ended, Failures
      <3> QED
        BY <1>1, <1>2, <1>3, <3>1, OthersComplete
    <2>3. result[e][m] = Rejection(m) \/ CutOff(result[e][m])
      BY <1>1, <2>1, <2>2, StatusOf DEF Judged, Ended, Failures
    <2>4. ASSUME result[e][m] = Rejection(m) PROVE Warned(result[e][m])
      <3>1. Axis(m) = "governance" /\ m \notin Blocking
        BY <1>6, <2>2, <2>4 DEF Judges, Axis
      <3>2. Rejection(m) = Verdict("failed", Axis(m), "warning")
        BY <3>1 DEF Rejection
      <3> QED
        BY <2>4, <3>2 DEF Warned, Verdict
    <2> QED
      BY <1>2, <1>8, <2>2, <2>3, <2>4, StatusOf
  <1> QED
    BY <1>1, <1>2, <1>4, <1>5, <1>6, <1>7, <1>8 DEF Judged

(***************************************************************************)
(* A ready delivery has been judged as it is by every artifact validator   *)
(* and blocking governance node that came to a verdict, for every plan and *)
(* whatever crashed, failed or was interrupted, cancelled or repeated.     *)
(***************************************************************************)
THEOREM ReadyIsJudged == ~Overlap => (Spec => ReadyMeansJudged)
  <1> SUFFICES ASSUME ~Overlap PROVE Spec => ReadyMeansJudged
    OBVIOUS
  <1>1. GInv /\ [Next]_vars => GInv'
    BY NextGInv
  <1>2. GInv /\ [Next]_vars =>
          [Finishes /\ outcome'.delivery = "ready"
             => \A n \in Judges :
                  LET r == outcome'.results IN
                  \/ r[n].status = "completed" /\ checkpoint[n].used = Used(n)
                  \/ CutOff(r[n])
                  \/ /\ r[n].status = "blocked"
                     /\ \E m \in Handlers : CutOff(r[m]) \/ Warned(r[m])]_vars
    BY FinishIsJudged DEF Finishes
  <1> QED
    BY <1>1, <1>2, InitGInv, PTL DEF Spec, ReadyMeansJudged
================================================================================
