------------------------- MODULE ConversationQueueProofs -------------------------
(***************************************************************************)
(* For any number of posts, retries, stops, failures, restarts and raising *)
(* store calls: the thread's status is true, no turn is left without a job *)
(* while the store answers, the Agent's session is taken back by stopped   *)
(* turns only, and turns are served one at a time and in order.            *)
(***************************************************************************)
EXTENDS ConversationQueue, TLAPS

HoldsARun == \A j \in Runs : InHand(j) => holds[j] \in Runs
Typed == TypeOK /\ HoldsARun

AtMostOneRunning == \A r, s \in Runs : status[r] = "running" /\ status[s] = "running" => r = s

\* What is running was claimed before everything after it.
NothingOlderIsActive(r) == \A s \in Runs : s < r => status[s] \notin Active
ServedInOrder ==
    /\ \A r \in Runs : status[r] = "running" => NothingOlderIsActive(r)
    /\ exists /\ session # 0 => status[session] # "none" /\ NothingOlderIsActive(session)

\* A job's run has not ended but by a stop, and is its alone.
JobsHoldRuns ==
    /\ exists => \A j \in Runs : InHand(j) =>
          status[holds[j]] \in {"running", "cancelled"} /\ NothingOlderIsActive(holds[j])
    /\ exists => \A j, k \in Runs : InHand(j) /\ InHand(k) /\ holds[j] = holds[k] => j = k

\* Numbers are used once; until a delete every number used has its row, and
\* after it a job at work has lost its own.
Numbers ==
    /\ \A r \in Runs : r > asked => status[r] = "none" /\ pc[r] = "none"
    /\ session <= asked /\ \A j \in Runs : holds[j] <= asked
    /\ exists => \A r \in Runs : r <= asked => status[r] # "none"
    /\ ~exists => \A j \in Runs :
          pc[j] \in {"working", "sealed", "saved"} => status[holds[j]] = "none"
    /\ leaving => exists

Driven ==
    exists /\ ~dropped =>
        /\ \A r \in Runs : status[r] = "running" => \E j \in Runs : InHand(j) /\ holds[j] = r
        /\ (\E r \in Runs : status[r] = "queued") => \E j \in Runs : pc[j] # "none"

IInv ==
    /\ Typed /\ AtMostOneRunning /\ ServedInOrder /\ JobsHoldRuns
    /\ Numbers /\ ThreadStatusIsTrue /\ Driven

--------------------------------------------------------------------------------
(* Types.                                                                  *)

LEMMA TypeInit == Init => Typed
  <1> SUFFICES ASSUME Init PROVE Typed
    OBVIOUS
  <1>1. exists \in BOOLEAN /\ leaving \in BOOLEAN /\ dropped \in BOOLEAN
    BY Zenon DEF Init
  <1>2. /\ thread \in {"idle", "running", "error"} /\ answered \in SUBSET Runs
        /\ session \in 0..MaxRuns /\ chosen \in 0..MaxRuns
        /\ asked \in 0..MaxRuns /\ admitted \in 0..MaxRuns
    BY MaxRunsAssumption DEF Init
  <1>3. /\ status \in [Runs -> {"none"} \cup Active \cup Ended]
        /\ holds \in [Runs -> 0..MaxRuns]
    BY MaxRunsAssumption DEF Init, Runs
  <1>4. pc = [j \in Runs |-> "none"]
    BY DEF Init
  <1> QED
    BY <1>1, <1>2, <1>3, <1>4 DEF TypeOK, Typed, HoldsARun, InHand

LEMMA TypeStep == Typed /\ [Next]_vars => Typed'
  <1> USE MaxRunsAssumption DEF Typed, TypeOK, HoldsARun, InHand, Runs, Active, Ended, rows, requests, Move, Release,
          ThreadShows, Acts, Rows
  <1> SUFFICES ASSUME Typed, [Next]_vars PROVE Typed'
    OBVIOUS
  <1>1. ASSUME NEW r \in Runs, Acts, Enqueue(r) PROVE Typed'
    BY <1>1 DEF Enqueue
  <1>2. ASSUME NEW j \in Runs, Kick(j) PROVE Typed'
    BY <1>2 DEF Kick
  <1>3. ASSUME NEW j \in Runs, Claim(j) PROVE Typed'
    BY <1>3 DEF Claim, Oldest, With
  <1>4. ASSUME NEW j \in Runs, ClaimNothing(j) PROVE Typed'
    BY <1>4 DEF ClaimNothing
  <1>5. ASSUME NEW j \in Runs, Enter(j) PROVE Typed'
    <2>1. CASE exists
      BY <1>5, <2>1 DEF Enter
    <2>2. CASE ~exists
      <3>1. pc[j] = "claimed" /\ pc' = [pc EXCEPT ![j] = "none"]
        BY <1>5, <2>2 DEF Enter
      <3>2. holds' = [holds EXCEPT ![j] = 0] /\ UNCHANGED <<rows, requests, dropped>>
        BY <1>5, <2>2 DEF Enter
      <3> QED
        BY <3>1, <3>2
    <2> QED
      BY <2>1, <2>2
  <1>6. ASSUME NEW j \in Runs, Notice(j) PROVE Typed'
    BY <1>6 DEF Notice
  <1>7. ASSUME NEW j \in Runs, ForgetSession(j) PROVE Typed'
    BY <1>7 DEF ForgetSession
  <1>8. ASSUME NEW j \in Runs, Seal(j) PROVE Typed'
    BY <1>8 DEF Seal
  <1>9. ASSUME NEW j \in Runs, SaveSession(j) PROVE Typed'
    BY <1>9 DEF SaveSession
  <1>10. ASSUME NEW j \in Runs, Complete(j) PROVE Typed'
    <2>1. holds[j] \in Runs /\ answered' \in SUBSET Runs
      BY <1>10 DEF Complete
    <2>2. status' \in [Runs -> {"none"} \cup Active \cup Ended]
      BY <1>10, <2>1 DEF Complete
    <2> QED
      BY <1>10, <2>1, <2>2 DEF Complete
  <1>11. ASSUME NEW j \in Runs, Fail(j) PROVE Typed'
    BY <1>11 DEF Fail
  <1>12. ASSUME NEW j \in Runs, TooLate(j) PROVE Typed'
    BY <1>12 DEF TooLate
  <1>13. ASSUME NEW j \in Runs, Finally(j) PROVE Typed'
    BY <1>13 DEF Finally
  <1>14. ASSUME NEW j \in Runs, JobRaises(j) PROVE Typed'
    <2>1. pc' \in [Runs -> {"none", "posted", "kicked", "claimed", "working", "sealed",
                            "saved", "finally"}]
      BY <1>14 DEF JobRaises
    <2>2. dropped' \in BOOLEAN
      BY <1>14, Zenon DEF JobRaises
    <2> QED
      <3>1. /\ pc' = [pc EXCEPT ![j] = "none"] \/ pc' = [pc EXCEPT ![j] = "finally"]
            /\ holds' = [holds EXCEPT ![j] = 0] /\ UNCHANGED <<rows, requests>>
        BY <1>14 DEF JobRaises
      <3> QED
        BY <2>1, <2>2, <3>1
  <1>15. CASE Choose
    BY <1>15 DEF Choose, Oldest, With, Newest
  <1>16. CASE Stop
    BY <1>16 DEF Stop, Cancelled
  <1>17. CASE DeleteCheck
    BY <1>17 DEF DeleteCheck
  <1>18. CASE Delete
    <2>1. exists' \in BOOLEAN /\ leaving' \in BOOLEAN
      BY <1>18, Zenon DEF Delete
    <2>2. status' \in [Runs -> {"none"} \cup Active \cup Ended]
      BY <1>18 DEF Delete
    <2>3. answered' \in SUBSET Runs /\ session' \in 0..MaxRuns
      BY <1>18 DEF Delete
    <2> QED
      BY <1>18, <2>1, <2>2, <2>3 DEF Delete
  <1>19. CASE Restart
    <2>1. status' \in [Runs -> {"none"} \cup Active \cup Ended]
      BY <1>19 DEF Restart
    <2>2. chosen' \in 0..MaxRuns /\ holds' \in [Runs -> 0..MaxRuns]
      BY <1>19 DEF Restart
    <2>4. leaving' \in BOOLEAN
      BY <1>19, Zenon DEF Restart
    <2>3. pc' = [j \in Runs |-> "none"] /\ thread' \in {"idle", "running", "error"}
      BY <1>19 DEF Restart
    <2> QED
      BY <1>19, <2>1, <2>2, <2>3, <2>4 DEF Restart
  <1>20. CASE UNCHANGED vars
    BY <1>20 DEF vars
  <1>21. CASE Admit
    BY <1>21 DEF Admit
  <1>22. CASE Refuse
    BY <1>22 DEF Refuse
  <1> QED
    BY <1>21, <1>22, <1>1, <1>2, <1>3, <1>4, <1>5, <1>6, <1>7, <1>8, <1>9, <1>10, <1>11, <1>12, <1>13, <1>14, <1>15, <1>16, <1>17, <1>18, <1>19, <1>20 DEF Next, Post, Retry, Work

--------------------------------------------------------------------------------
(* The invariant.                                                          *)

LEMMA InvInit == Init => IInv
  <1> SUFFICES ASSUME Init PROVE IInv
    OBVIOUS
  <1>1. Typed
    BY TypeInit
  <1>2. /\ \A r \in Runs : status[r] = "none" /\ pc[r] = "none" /\ holds[r] = 0
        /\ session = 0 /\ asked = 0
    BY DEF Init
  <1>3. exists /\ ~leaving /\ thread = "idle"
    BY DEF Init
  <1> QED
    BY <1>1, <1>2, <1>3, MaxRunsAssumption DEF IInv, AtMostOneRunning, ServedInOrder,
       JobsHoldRuns, Numbers, ThreadStatusIsTrue, Driven, With, InHand, Runs

LEMMA InvStep == IInv /\ [Next]_vars => IInv'
  <1> SUFFICES ASSUME IInv, [Next]_vars PROVE IInv'
    OBVIOUS
  <1> USE MaxRunsAssumption DEF IInv, Typed, TypeOK, HoldsARun, InHand, Runs, Active, Ended,
          rows, requests, Move, Release, With, ActiveRuns, ThreadShows, Acts, Rows
  <1>0. Typed'
    BY TypeStep
  <1>1. ASSUME NEW r \in Runs, Acts, Enqueue(r) PROVE IInv'
    <2>0. /\ r = asked + 1 /\ asked' = r /\ status[r] = "none" /\ pc[r] = "none"
          /\ \A s \in Runs : s > r => status[s] = "none"
          /\ status' = [status EXCEPT ![r] = "queued"] /\ pc' = [pc EXCEPT ![r] = "posted"]
          /\ UNCHANGED <<exists, session, holds, leaving, dropped>>
          /\ exists => thread' = "running"
      BY <1>1 DEF Enqueue, Numbers
    <2>1. AtMostOneRunning'
      BY <2>0 DEF AtMostOneRunning
    <2>2. ServedInOrder'
      BY <2>0 DEF ServedInOrder, NothingOlderIsActive, Numbers
    <2>3. JobsHoldRuns'
      BY <2>0 DEF JobsHoldRuns, NothingOlderIsActive, Numbers
    <2>4. Numbers'
      BY <2>0 DEF Numbers
    <2>5. ThreadStatusIsTrue'
      BY <2>0 DEF ThreadStatusIsTrue
    <2>6. Driven'
      <3>1. \A j \in Runs : InHand(j) => InHand(j)' /\ holds'[j] = holds[j]
        BY <2>0
      <3>2. pc'[r] # "none"
        BY <2>0
      <3> QED
        BY <2>0, <3>1, <3>2 DEF Driven
    <2> QED
      BY <1>0, <2>1, <2>2, <2>3, <2>4, <2>5, <2>6
  <1>2. ASSUME NEW j \in Runs, Kick(j) PROVE IInv'
    <2>1. AtMostOneRunning'
      BY <1>2 DEF AtMostOneRunning, Kick
    <2>2. ServedInOrder'
      BY <1>2 DEF ServedInOrder, Kick, NothingOlderIsActive
    <2>3. JobsHoldRuns'
      BY <1>2 DEF JobsHoldRuns, Kick, NothingOlderIsActive
    <2>4. Numbers'
      BY <1>2 DEF Numbers, Kick
    <2>5. ThreadStatusIsTrue'
      BY <1>2 DEF ThreadStatusIsTrue, Kick
    <2>6. Driven'
      <3>1. \A i \in Runs : /\ exists /\ pc[i] # "none" => pc'[i] # "none"
                            /\ InHand(i) => InHand(i)'
        BY <1>2 DEF Kick, Numbers
      <3>2. UNCHANGED <<exists, status, holds, dropped>>
        BY <1>2 DEF Kick
      <3> QED
        BY <3>1, <3>2 DEF Driven
    <2> QED
      BY <1>0, <2>1, <2>2, <2>3, <2>4, <2>5, <2>6
  <1>3. ASSUME NEW j \in Runs, Claim(j) PROVE IInv'
    <2>0. PICK r \in Runs :
            /\ status[r] = "queued" /\ \A s \in Runs : status[s] = "queued" => r <= s
            /\ \A s \in Runs : status[s] # "running"
            /\ holds' = [holds EXCEPT ![j] = r] /\ pc[j] = "kicked"
            /\ pc' = [pc EXCEPT ![j] = "claimed"]
            /\ status' = [status EXCEPT ![r] = "running"]
            /\ exists => thread' = "running"
            /\ UNCHANGED <<exists, asked, answered, session, requests, dropped>>
      BY <1>3 DEF Claim, Oldest
    <2>1. AtMostOneRunning'
      BY <2>0 DEF AtMostOneRunning
    <2>2. ServedInOrder'
      BY <2>0 DEF ServedInOrder, NothingOlderIsActive
    <2>3. JobsHoldRuns'
      <3>1. \A i \in Runs : i # j => pc'[i] = pc[i] /\ holds'[i] = holds[i]
        BY <2>0
      <3>2. \A i \in Runs : exists /\ InHand(i) => holds[i] # r
        BY <2>0 DEF JobsHoldRuns
      <3> QED
        BY <2>0, <3>1, <3>2 DEF JobsHoldRuns, NothingOlderIsActive
    <2>4. Numbers'
      BY <1>3 DEF Numbers, Claim, Oldest
    <2>5. ThreadStatusIsTrue'
      BY <1>3 DEF ThreadStatusIsTrue, Claim, Oldest
    <2>6. Driven'
      BY <1>3 DEF Driven, Claim, Oldest
    <2> QED
      BY <1>0, <2>1, <2>2, <2>3, <2>4, <2>5, <2>6
  <1>4. ASSUME NEW j \in Runs, ClaimNothing(j) PROVE IInv'
    <2>1. AtMostOneRunning'
      BY <1>4 DEF AtMostOneRunning, ClaimNothing
    <2>2. ServedInOrder'
      BY <1>4 DEF ServedInOrder, ClaimNothing, NothingOlderIsActive
    <2>3. JobsHoldRuns'
      BY <1>4 DEF JobsHoldRuns, ClaimNothing, NothingOlderIsActive
    <2>4. Numbers'
      BY <1>4 DEF Numbers, ClaimNothing
    <2>5. ThreadStatusIsTrue'
      BY <1>4 DEF ThreadStatusIsTrue, ClaimNothing
    <2>6. Driven'
      <3>1. \A i \in Runs : i # j => pc'[i] = pc[i]
        BY <1>4 DEF ClaimNothing
      <3>2. ~InHand(j) /\ UNCHANGED <<exists, status, holds, dropped>>
        BY <1>4 DEF ClaimNothing
      <3>3. (\E r \in Runs : status[r] = "running") \/ ~(\E r \in Runs : status[r] = "queued")
        BY <1>4 DEF ClaimNothing
      <3> QED
        BY <3>1, <3>2, <3>3 DEF Driven
    <2> QED
      BY <1>0, <2>1, <2>2, <2>3, <2>4, <2>5, <2>6
  <1>5. ASSUME NEW j \in Runs, Enter(j) PROVE IInv'
    <2>1. AtMostOneRunning'
      BY <1>5 DEF AtMostOneRunning, Enter
    <2>2. ServedInOrder'
      BY <1>5 DEF ServedInOrder, Enter, NothingOlderIsActive
    <2>3. JobsHoldRuns'
      BY <1>5 DEF JobsHoldRuns, Enter, NothingOlderIsActive
    <2>4. Numbers'
      BY <1>5 DEF Numbers, Enter
    <2>5. ThreadStatusIsTrue'
      BY <1>5 DEF ThreadStatusIsTrue, Enter
    <2>6. Driven'
      <3>1. CASE exists
        <4>1. \A i \in Runs : (pc[i] # "none" => pc'[i] # "none") /\ (InHand(i) => InHand(i)')
          BY <1>5, <3>1 DEF Enter
        <4> QED
          BY <1>5, <3>1, <4>1 DEF Driven, Enter
      <3>2. CASE ~exists
        BY <1>5, <3>2 DEF Driven, Enter, Numbers
      <3> QED
        BY <3>1, <3>2
    <2> QED
      BY <1>0, <2>1, <2>2, <2>3, <2>4, <2>5, <2>6
  <1>6. ASSUME NEW j \in Runs, Notice(j) PROVE IInv'
    <2>1. AtMostOneRunning'
      BY <1>6 DEF AtMostOneRunning, Notice
    <2>2. ServedInOrder'
      BY <1>6 DEF ServedInOrder, Notice, NothingOlderIsActive
    <2>3. JobsHoldRuns'
      BY <1>6 DEF JobsHoldRuns, Notice, NothingOlderIsActive
    <2>4. Numbers'
      BY <1>6 DEF Numbers, Notice
    <2>5. ThreadStatusIsTrue'
      BY <1>6 DEF ThreadStatusIsTrue, Notice
    <2>6. Driven'
      BY <1>6 DEF Driven, Notice
    <2> QED
      BY <1>0, <2>1, <2>2, <2>3, <2>4, <2>5, <2>6
  <1>7. ASSUME NEW j \in Runs, ForgetSession(j) PROVE IInv'
    <2>1. AtMostOneRunning'
      BY <1>7 DEF AtMostOneRunning, ForgetSession
    <2>2. ServedInOrder'
      BY <1>7 DEF ServedInOrder, ForgetSession, NothingOlderIsActive
    <2>3. JobsHoldRuns'
      BY <1>7 DEF JobsHoldRuns, ForgetSession, NothingOlderIsActive
    <2>4. Numbers'
      BY <1>7 DEF Numbers, ForgetSession
    <2>5. ThreadStatusIsTrue'
      BY <1>7 DEF ThreadStatusIsTrue, ForgetSession
    <2>6. Driven'
      BY <1>7 DEF Driven, ForgetSession
    <2> QED
      BY <1>0, <2>1, <2>2, <2>3, <2>4, <2>5, <2>6
  <1>8. ASSUME NEW j \in Runs, Seal(j) PROVE IInv'
    <2>1. AtMostOneRunning'
      BY <1>8 DEF AtMostOneRunning, Seal
    <2>2. ServedInOrder'
      BY <1>8 DEF ServedInOrder, Seal, NothingOlderIsActive
    <2>3. JobsHoldRuns'
      BY <1>8 DEF JobsHoldRuns, Seal, NothingOlderIsActive
    <2>4. Numbers'
      BY <1>8 DEF Numbers, Seal
    <2>5. ThreadStatusIsTrue'
      BY <1>8 DEF ThreadStatusIsTrue, Seal
    <2>6. Driven'
      BY <1>8 DEF Driven, Seal
    <2> QED
      BY <1>0, <2>1, <2>2, <2>3, <2>4, <2>5, <2>6
  <1>9. ASSUME NEW j \in Runs, SaveSession(j) PROVE IInv'
    <2>1. AtMostOneRunning'
      BY <1>9 DEF AtMostOneRunning, SaveSession
    <2>2. ServedInOrder'
      BY <1>9 DEF ServedInOrder, SaveSession, NothingOlderIsActive, JobsHoldRuns
    <2>3. JobsHoldRuns'
      BY <1>9 DEF JobsHoldRuns, SaveSession, NothingOlderIsActive
    <2>4. Numbers'
      BY <1>9 DEF Numbers, SaveSession
    <2>5. ThreadStatusIsTrue'
      BY <1>9 DEF ThreadStatusIsTrue, SaveSession
    <2>6. Driven'
      BY <1>9 DEF Driven, SaveSession
    <2> QED
      BY <1>0, <2>1, <2>2, <2>3, <2>4, <2>5, <2>6
  <1>10. ASSUME NEW j \in Runs, Complete(j) PROVE IInv'
    <2>1. AtMostOneRunning'
      BY <1>10 DEF AtMostOneRunning, Complete
    <2>2. ServedInOrder'
      BY <1>10 DEF ServedInOrder, Complete, NothingOlderIsActive
    <2>3. JobsHoldRuns'
      BY <1>10 DEF JobsHoldRuns, Complete, NothingOlderIsActive
    <2>4. Numbers'
      BY <1>10 DEF Numbers, Complete
    <2>5. ThreadStatusIsTrue'
      BY <1>10 DEF ThreadStatusIsTrue, Complete, AtMostOneRunning, JobsHoldRuns, Numbers
    <2>6. Driven'
      BY <1>10 DEF Driven, Complete
    <2> QED
      BY <1>0, <2>1, <2>2, <2>3, <2>4, <2>5, <2>6
  <1>11. ASSUME NEW j \in Runs, Fail(j) PROVE IInv'
    <2>1. AtMostOneRunning'
      BY <1>11 DEF AtMostOneRunning, Fail
    <2>2. ServedInOrder'
      BY <1>11 DEF ServedInOrder, Fail, NothingOlderIsActive
    <2>3. JobsHoldRuns'
      BY <1>11 DEF JobsHoldRuns, Fail, NothingOlderIsActive
    <2>4. Numbers'
      BY <1>11 DEF Numbers, Fail
    <2>5. ThreadStatusIsTrue'
      BY <1>11 DEF ThreadStatusIsTrue, Fail, AtMostOneRunning, JobsHoldRuns, Numbers
    <2>6. Driven'
      BY <1>11 DEF Driven, Fail
    <2> QED
      BY <1>0, <2>1, <2>2, <2>3, <2>4, <2>5, <2>6
  <1>12. ASSUME NEW j \in Runs, TooLate(j) PROVE IInv'
    <2>1. AtMostOneRunning'
      BY <1>12 DEF AtMostOneRunning, TooLate
    <2>2. ServedInOrder'
      BY <1>12 DEF ServedInOrder, TooLate, NothingOlderIsActive
    <2>3. JobsHoldRuns'
      BY <1>12 DEF JobsHoldRuns, TooLate, NothingOlderIsActive
    <2>4. Numbers'
      BY <1>12 DEF Numbers, TooLate
    <2>5. ThreadStatusIsTrue'
      BY <1>12 DEF ThreadStatusIsTrue, TooLate
    <2>6. Driven'
      BY <1>12 DEF Driven, TooLate
    <2> QED
      BY <1>0, <2>1, <2>2, <2>3, <2>4, <2>5, <2>6
  <1>13. ASSUME NEW j \in Runs, Finally(j) PROVE IInv'
    <2>1. AtMostOneRunning'
      BY <1>13 DEF AtMostOneRunning, Finally
    <2>2. ServedInOrder'
      BY <1>13 DEF ServedInOrder, Finally, NothingOlderIsActive
    <2>3. JobsHoldRuns'
      BY <1>13 DEF JobsHoldRuns, Finally, NothingOlderIsActive
    <2>4. Numbers'
      BY <1>13 DEF Numbers, Finally
    <2>5. ThreadStatusIsTrue'
      BY <1>13 DEF ThreadStatusIsTrue, Finally
    <2>6. Driven'
      <3>1. \A i \in Runs : i # j => pc'[i] = pc[i]
        BY <1>13 DEF Finally
      <3>2. ~InHand(j) /\ UNCHANGED <<exists, status, holds, dropped>>
        BY <1>13 DEF Finally
      <3>3. \/ \E r \in Runs : status[r] = "running"
            \/ ~(\E r \in Runs : status[r] = "queued")
            \/ pc'[j] = "kicked"
        BY <1>13 DEF Finally
      <3>4. \A i \in Runs : InHand(i) => InHand(i)'
        BY <3>1, <3>2
      <3>5. exists /\ ~dropped /\ (\E r \in Runs : status[r] = "queued") => \E i \in Runs : pc'[i] # "none"
        BY <3>1, <3>2, <3>3 DEF Driven
      <3> QED
        BY <3>2, <3>4, <3>5 DEF Driven
    <2> QED
      BY <1>0, <2>1, <2>2, <2>3, <2>4, <2>5, <2>6
  <1>14. ASSUME NEW j \in Runs, JobRaises(j) PROVE IInv'
    <2>1. AtMostOneRunning'
      BY <1>14 DEF AtMostOneRunning, JobRaises
    <2>2. ServedInOrder'
      BY <1>14 DEF ServedInOrder, JobRaises, NothingOlderIsActive
    <2>3. JobsHoldRuns'
      <3>1. \A i \in Runs : InHand(i)' => i # j /\ InHand(i) /\ holds'[i] = holds[i]
        BY <1>14 DEF JobRaises
      <3>2. UNCHANGED <<exists, status>>
        BY <1>14 DEF JobRaises
      <3> QED
        BY <3>1, <3>2 DEF JobsHoldRuns, NothingOlderIsActive
    <2>4. Numbers'
      BY <1>14 DEF Numbers, JobRaises
    <2>5. ThreadStatusIsTrue'
      BY <1>14 DEF ThreadStatusIsTrue, JobRaises
    <2>6. Driven'
      BY <1>14 DEF Driven, JobRaises
    <2> QED
      BY <1>0, <2>1, <2>2, <2>3, <2>4, <2>5, <2>6
  <1>15. CASE Choose
    <2>1. AtMostOneRunning'
      BY <1>15 DEF AtMostOneRunning, Choose, Oldest, Newest
    <2>2. ServedInOrder'
      BY <1>15 DEF ServedInOrder, Choose, NothingOlderIsActive, Oldest, Newest
    <2>3. JobsHoldRuns'
      BY <1>15 DEF JobsHoldRuns, Choose, NothingOlderIsActive, Oldest, Newest
    <2>4. Numbers'
      BY <1>15 DEF Numbers, Choose, Oldest, Newest
    <2>5. ThreadStatusIsTrue'
      BY <1>15 DEF ThreadStatusIsTrue, Choose, Oldest, Newest
    <2>6. Driven'
      BY <1>15 DEF Driven, Choose, Oldest, Newest
    <2> QED
      BY <1>0, <2>1, <2>2, <2>3, <2>4, <2>5, <2>6
  <1>16. CASE Stop
    <2>1. AtMostOneRunning'
      BY <1>16 DEF AtMostOneRunning, Stop, Cancelled
    <2>2. ServedInOrder'
      <3>1. \A r \in Runs : status'[r] = status[r] \/ status'[r] = "cancelled"
        BY <1>16 DEF Stop, Cancelled
      <3> QED
        BY <1>16, <3>1 DEF ServedInOrder, Stop, Cancelled, NothingOlderIsActive
    <2>3. JobsHoldRuns'
      BY <1>16 DEF JobsHoldRuns, Stop, Cancelled, NothingOlderIsActive
    <2>4. Numbers'
      BY <1>16 DEF Numbers, Stop, Cancelled
    <2>5. ThreadStatusIsTrue'
      BY <1>16 DEF ThreadStatusIsTrue, Stop, Cancelled
    <2>6. Driven'
      BY <1>16 DEF Driven, Stop, Cancelled
    <2> QED
      BY <1>0, <2>1, <2>2, <2>3, <2>4, <2>5, <2>6
  <1>17. CASE DeleteCheck
    <2>1. AtMostOneRunning'
      BY <1>17 DEF AtMostOneRunning, DeleteCheck
    <2>2. ServedInOrder'
      BY <1>17 DEF ServedInOrder, DeleteCheck, NothingOlderIsActive
    <2>3. JobsHoldRuns'
      BY <1>17 DEF JobsHoldRuns, DeleteCheck, NothingOlderIsActive
    <2>4. Numbers'
      BY <1>17 DEF Numbers, DeleteCheck
    <2>5. ThreadStatusIsTrue'
      BY <1>17 DEF ThreadStatusIsTrue, DeleteCheck
    <2>6. Driven'
      BY <1>17 DEF Driven, DeleteCheck
    <2> QED
      BY <1>0, <2>1, <2>2, <2>3, <2>4, <2>5, <2>6
  <1>18. CASE Delete
    <2>1. AtMostOneRunning'
      BY <1>18 DEF AtMostOneRunning, Delete
    <2>2. ServedInOrder'
      BY <1>18 DEF ServedInOrder, Delete, NothingOlderIsActive
    <2>3. JobsHoldRuns'
      BY <1>18 DEF JobsHoldRuns, Delete, NothingOlderIsActive
    <2>4. Numbers'
      BY <1>18 DEF Numbers, Delete
    <2>5. ThreadStatusIsTrue'
      BY <1>18 DEF ThreadStatusIsTrue, Delete
    <2>6. Driven'
      BY <1>18 DEF Driven, Delete
    <2> QED
      BY <1>0, <2>1, <2>2, <2>3, <2>4, <2>5, <2>6
  <1>19. CASE Restart
    <2>1. AtMostOneRunning'
      BY <1>19 DEF AtMostOneRunning, Restart
    <2>2. ServedInOrder'
      BY <1>19 DEF ServedInOrder, Restart, NothingOlderIsActive
    <2>3. JobsHoldRuns'
      BY <1>19 DEF JobsHoldRuns, Restart, NothingOlderIsActive
    <2>4. Numbers'
      BY <1>19 DEF Numbers, Restart
    <2>5. ThreadStatusIsTrue'
      BY <1>19 DEF ThreadStatusIsTrue, Restart
    <2>6. Driven'
      BY <1>19 DEF Driven, Restart
    <2> QED
      BY <1>0, <2>1, <2>2, <2>3, <2>4, <2>5, <2>6
  <1>21. CASE Admit
    BY <1>0, <1>21 DEF Admit, AtMostOneRunning, ServedInOrder, JobsHoldRuns, Numbers,
       ThreadStatusIsTrue, Driven, NothingOlderIsActive
  <1>22. CASE Refuse
    BY <1>0, <1>22 DEF Refuse, AtMostOneRunning, ServedInOrder, JobsHoldRuns, Numbers,
       ThreadStatusIsTrue, Driven, NothingOlderIsActive
  <1>20. CASE UNCHANGED vars
    BY <1>0, <1>20 DEF vars, AtMostOneRunning, ServedInOrder, JobsHoldRuns, Numbers, ThreadStatusIsTrue, Driven, NothingOlderIsActive
  <1> QED
    BY <1>21, <1>22, <1>1, <1>2, <1>3, <1>4, <1>5, <1>6, <1>7, <1>8, <1>9, <1>10, <1>11, <1>12, <1>13, <1>14, <1>15, <1>16, <1>17, <1>18, <1>19, <1>20 DEF Next, Post, Retry, Work

\* The invariant holds in every reachable state.
THEOREM Invariance == Spec => []IInv
  BY InvInit, InvStep, PTL DEF Spec

(* Variables hold what they should: no job, stop or session names a run that *)
(* does not exist.                                                           *)
THEOREM TypeCorrect == Spec => []TypeOK
  <1>1. IInv => TypeOK
    BY DEF IInv, Typed
  <1> QED
    BY <1>1, Invariance, PTL

(* The status shown for the thread and the statuses of its runs agree.       *)
THEOREM StatusIsTrue == Spec => []ThreadStatusIsTrue
  <1>1. IInv => ThreadStatusIsTrue
    BY DEF IInv
  <1> QED
    BY <1>1, Invariance, PTL

(* In a conversation that exists and while the store answers, a running run  *)
(* is in the hands of exactly one job and a queue has a job that will come   *)
(* back to it.                                                               *)
THEOREM NoTurnIsAbandoned == Spec => []TurnsHaveADriver
  <1>1. ASSUME IInv PROVE TurnsHaveADriver
    <2> SUFFICES ASSUME exists, ~dropped PROVE
          /\ \A r \in With("running") : \E j \in Runs :
                {k \in Runs : InHand(k) /\ holds[k] = r} = {j}
          /\ With("queued") # {} => \E j \in Runs : pc[j] # "none"
      BY DEF TurnsHaveADriver
    <2>1. ASSUME NEW r \in With("running")
          PROVE \E j \in Runs : {k \in Runs : InHand(k) /\ holds[k] = r} = {j}
      <3>1. PICK j \in Runs : InHand(j) /\ holds[j] = r
        BY <1>1, <2>1 DEF IInv, Driven, With
      <3>3. \A k \in Runs : InHand(k) /\ holds[k] = r => k = j
        BY <1>1, <3>1 DEF IInv, JobsHoldRuns
      <3> QED
        BY <3>1, <3>3
    <2>2. With("queued") # {} => \E j \in Runs : pc[j] # "none"
      BY <1>1 DEF IInv, Driven, With
    <2> QED
      BY <2>1, <2>2
  <1> QED
    BY <1>1, Invariance, PTL

--------------------------------------------------------------------------------
(* The Agent's session is taken back to an older turn only by a turn that    *)
(* the user stopped.                                                         *)
THEOREM SessionsMoveOn == Spec => SessionFollowsTheTurns
  <1> DEFINE Taken == exists /\ session' \in Runs /\ session' < session
  <1>1. ASSUME IInv, [Next]_vars, Taken PROVE status[session'] = "cancelled"
    <2>1. ASSUME NEW j \in Runs, SaveSession(j) PROVE status[session'] = "cancelled"
      <3>1. InHand(j) /\ session' = holds[j]
        BY <2>1 DEF SaveSession, Move, InHand
      <3>2. session # 0 /\ NothingOlderIsActive(session)
        BY <1>1, MaxRunsAssumption DEF IInv, Typed, TypeOK, ServedInOrder, Runs
      <3>3. status[session'] \notin Active
        BY <1>1, <3>2 DEF NothingOlderIsActive
      <3>4. status[holds[j]] \in {"running", "cancelled"}
        BY <1>1, <3>1 DEF IInv, JobsHoldRuns
      <3> QED
        BY <3>1, <3>3, <3>4 DEF Active
    <2>2. session' = session \/ session' = 0 \/ \E j \in Runs : SaveSession(j)
      BY <1>1 DEF Next, vars, rows, Post, Retry, Enqueue, Work, Kick, Claim, ClaimNothing,
         Enter, Notice, ForgetSession, Seal, Complete, Fail, TooLate, Finally, JobRaises,
         Admit, Refuse, Choose, Stop, DeleteCheck, Delete, Restart
    <2> QED
      BY <1>1, <2>1, <2>2, MaxRunsAssumption DEF IInv, Typed, TypeOK, Runs
  <1>2. IInv /\ [Next]_vars => [Taken => status[session'] = "cancelled"]_vars
    BY <1>1
  <1> QED
    BY <1>2, Invariance, PTL DEF Spec, SessionFollowsTheTurns

--------------------------------------------------------------------------------
(* The store and its jobs implement the conversation's turns.                *)

LEMMA RefinesInit == Init => Abstract!Init
  BY DEF Init, Abstract!Init, TurnOf

LEMMA RefinesStep == IInv /\ [Next]_vars => [Abstract!Next]_Abstract!vars
  <1> SUFFICES ASSUME IInv, [Next]_vars PROVE [Abstract!Next]_Abstract!vars
    OBVIOUS
  <1> DEFINE Turn == [r \in Runs |-> TurnOf(status[r])]
  <1> USE DEF TurnOf
  <1>0. status \in [Runs -> {"none"} \cup Active \cup Ended]
    BY DEF IInv, Typed, TypeOK
  <1>1. ASSUME UNCHANGED <<exists, status, answered>> PROVE UNCHANGED Abstract!vars
    BY <1>1 DEF Abstract!vars
  <1>2. ASSUME NEW r \in Runs, Enqueue(r) PROVE Abstract!Ask(r)
    <2>1. \A s \in Runs : s >= r => status[s] = "none"
      BY <1>2, MaxRunsAssumption DEF Enqueue, Runs, IInv, Numbers, Typed, TypeOK
    <2>2. \A s \in Runs : s > r => Turn[s] = "absent"
      BY <2>1 DEF Runs
    <2>3. Turn' = [Turn EXCEPT ![r] = "waiting"] /\ UNCHANGED <<answered, exists>>
      BY <1>0, <1>2 DEF Enqueue
    <2>4. Turn[r] = "absent"
      BY <2>1 DEF Runs
    <2> QED
      BY <2>2, <2>3, <2>4 DEF Abstract!Ask
  <1>3. ASSUME NEW j \in Runs, Claim(j) PROVE \E r \in Runs : Abstract!Serve(r)
    <2>1. PICK r \in Runs :
            /\ status[r] = "queued" /\ \A s \in Runs : status[s] = "queued" => r <= s
            /\ \A s \in Runs : status[s] # "running"
            /\ status' = [status EXCEPT ![r] = "running"]
            /\ UNCHANGED <<exists, answered>>
      BY <1>3 DEF Claim, Oldest, With
    <2>2. \A s \in Runs : s < r => status[s] # "queued"
      BY <2>1 DEF Runs
    <2>3. Abstract!Serve(r)
      BY <1>0, <2>1, <2>2 DEF Abstract!Serve, Active, Ended
    <2> QED
      BY <2>3
  <1>4. ASSUME NEW j \in Runs, Complete(j) PROVE \E r \in Runs : Abstract!Answer(r)
    <2>1. pc[j] \in {"sealed", "saved"} /\ holds[j] \in Runs /\ status[holds[j]] \in Active
      BY <1>4 DEF Complete, Release, Move, InHand, IInv, Typed, HoldsARun
    <2>2. exists
      BY <2>1 DEF IInv, Numbers, Active
    <2>3. PICK r \in Runs : r = holds[j] /\ status[r] = "running"
      BY <2>1, <2>2 DEF InHand, IInv, JobsHoldRuns, Active
    <2>4. Abstract!Answer(r)
      BY <1>0, <1>4, <2>2, <2>3 DEF Complete, Abstract!Answer
    <2> QED
      BY <2>4
  <1>5. ASSUME NEW S \in SUBSET Runs, NEW end \in Ended,
               \A r \in S : status[r] \in Active,
               status' = [r \in Runs |-> IF r \in S THEN end ELSE status[r]],
               UNCHANGED <<exists, answered>>
        PROVE \E T \in SUBSET Runs : Abstract!End(T)
    <2>1. Abstract!End(S)
      BY <1>0, <1>5 DEF Abstract!End, Active, Ended
    <2> QED
      BY <2>1
  <1>6. ASSUME NEW j \in Runs, Fail(j) PROVE \E S \in SUBSET Runs : Abstract!End(S)
    <2>1. PICK q \in Runs : q = holds[j] /\ status[q] \in Active
      BY <1>6 DEF Fail, Release, Move, InHand, IInv, Typed, HoldsARun
    <2>2. status' = [r \in Runs |-> IF r \in {q} THEN "failed" ELSE status[r]]
      BY <1>0, <1>6, <2>1 DEF Fail
    <2>3. UNCHANGED <<exists, answered>>
      BY <1>6 DEF Fail
    <2>4. {q} \in SUBSET Runs /\ "failed" \in Ended /\ \A r \in {q} : status[r] \in Active
      BY <2>1 DEF Ended
    <2> QED
      BY <1>5, <2>2, <2>3, <2>4
  <1>7. ASSUME Stop PROVE (\E S \in SUBSET Runs : Abstract!End(S)) \/ UNCHANGED Abstract!vars
    <2>1. chosen \in Runs /\ UNCHANGED <<exists, answered>>
      BY <1>7 DEF Stop, IInv, Typed, TypeOK, Runs
    <2>2. CASE status[chosen] \in Active
      <3>1. PICK q \in Runs : q = chosen
        BY <2>1
      <3>2. status' = [r \in Runs |-> IF r \in {q} THEN "cancelled" ELSE status[r]]
        BY <1>0, <1>7, <2>2, <3>1 DEF Stop, Cancelled, Rows, Active
      <3>3. /\ {q} \in SUBSET Runs /\ "cancelled" \in Ended
            /\ \A r \in {q} : status[r] \in Active
        BY <2>2, <3>1 DEF Ended
      <3> QED
        BY <1>5, <2>1, <3>2, <3>3
    <2>3. CASE status[chosen] \notin Active
      <3>1. \A r \in Runs : TurnOf(status'[r]) = TurnOf(status[r])
        BY <1>0, <1>7, <2>1, <2>3 DEF Stop, Cancelled, Rows, Active, Ended
      <3> QED
        BY <2>1, <3>1 DEF Abstract!vars
    <2> QED
      BY <2>2, <2>3
  <1>8. ASSUME Delete PROVE Abstract!Delete
    BY <1>8 DEF Delete, Abstract!Delete, IInv, Numbers
  <1>9. ASSUME Restart PROVE \E S \in SUBSET Runs : Abstract!End(S)
    <2>1. PICK S \in SUBSET Runs : S = ActiveRuns
      BY DEF ActiveRuns
    <2>2. status' = [r \in Runs |-> IF r \in S THEN "interrupted" ELSE status[r]]
      BY <1>9, <2>1 DEF Restart, ActiveRuns
    <2>3. UNCHANGED <<exists, answered>> /\ \A r \in S : status[r] \in Active
      BY <1>9, <2>1 DEF Restart, ActiveRuns
    <2> QED
      BY <1>5, <2>2, <2>3 DEF Ended
  <1>10. CASE \E j \in Runs : Kick(j) \/ ClaimNothing(j) \/ Enter(j) \/ Notice(j) \/ Seal(j)
                            \/ SaveSession(j) \/ TooLate(j) \/ Finally(j)
                            \/ ForgetSession(j) \/ JobRaises(j)
    BY <1>1, <1>10 DEF Kick, ClaimNothing, Enter, Notice, Seal, SaveSession, TooLate, Finally,
       ForgetSession, JobRaises, rows
  <1>11. CASE Choose \/ Admit \/ Refuse \/ DeleteCheck \/ UNCHANGED vars
    BY <1>1, <1>11 DEF Choose, Admit, Refuse, DeleteCheck, vars, rows
  <1> QED
    BY <1>2, <1>3, <1>4, <1>6, <1>7, <1>8, <1>9, <1>10, <1>11
       DEF Next, Work, Post, Retry, Abstract!Next

(* Turns are served one at a time and in order, answered only while served,  *)
(* and never start again.                                                    *)
THEOREM Refinement == Spec => TurnsSpec
  BY RefinesInit, RefinesStep, Invariance, PTL DEF Spec, TurnsSpec, Abstract!Spec
================================================================================
