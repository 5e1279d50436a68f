-------------------------- MODULE ThreadTurnsProofs --------------------------
(* What ThreadTurns promises for any number of messages, threads, stops and     *)
(* restarts.  Four parts of an inductive invariant are built up, each with the   *)
(* lemma that a step keeps it: ClaimInv (where a request is and which rows it    *)
(* has), ControlsInv (who has a registered control), ReasonInv (why a run was    *)
(* settled) and LifeInv (how many answers the tasks of a request can still give). *)
EXTENDS ThreadTurns, TLAPS

(* A task is a request and the way it came to be run; leaving early clears the  *)
(* registered control or leaves it as it is.                                    *)
LEMMA TaskFacts ==
    /\ \A k \in Tasks : Req(k) \in Requests /\ Home(k) \in Threads
    /\ \A m \in Requests : /\ <<m, "submitted">> \in Tasks
                           /\ <<m, "resumed">> \in Tasks
    /\ \A k \in Tasks : k = <<Req(k), "submitted">> \/ k = <<Req(k), "resumed">>
    /\ \A t \in Threads, S \in SUBSET Tasks :
            Deregistered(t, S) = NoTask \/ Deregistered(t, S) = active[t]
  BY RequestsAssumption DEF Tasks, Req, Home, Deregistered

(* Every step keeps the types.                                                  *)
LEMMA TypeStep == TypeOK /\ [Next]_vars => TypeOK'
  <1> SUFFICES ASSUME TypeOK, [Next]_vars PROVE TypeOK'
    OBVIOUS
  <1> USE TypeOK, TaskFacts DEF TypeOK, SessionStatus, RequestStatus, RunStatus, SubmitStage, Stages, Settled,
        Resumable, InLock, rows, life, table, stopVars, memory, past
  <1>1. ASSUME NEW m \in Requests, Refuse(m) PROVE TypeOK'
    BY <1>1, RequestsAssumption DEF Refuse
  <1>2. ASSUME NEW m \in Requests, Claim(m) PROVE TypeOK'
    BY <1>2, RequestsAssumption DEF Claim, AfterLookup
  <1>3. ASSUME NEW m \in Requests, FindAnalysis(m) PROVE TypeOK'
    BY <1>3 DEF FindAnalysis, AfterLookup
  <1>4. ASSUME NEW m \in Requests, FinishReused(m) PROVE TypeOK'
    BY <1>4 DEF FinishReused
  <1>5. ASSUME NEW m \in Requests, ReuseRaises(m) PROVE TypeOK'
    BY <1>5 DEF ReuseRaises
  <1>6. ASSUME NEW m \in Requests, SaveFiles(m) PROVE TypeOK'
    BY <1>6 DEF SaveFiles, Save
  <1>7. ASSUME NEW m \in Requests, Downloaded(m) PROVE TypeOK'
    BY <1>7 DEF Downloaded, Save
  <1>8. ASSUME NEW m \in Requests, Steer(m) PROVE TypeOK'
    BY <1>8 DEF Steer, Steerable
  <1>8a. ASSUME NEW m \in Requests, SteerRaises(m) PROVE TypeOK'
    BY <1>8a DEF SteerRaises, Steerable
  <1>9. ASSUME NEW m \in Requests, FinishSteered(m) PROVE TypeOK'
    BY <1>9 DEF FinishSteered
  <1>10. ASSUME NEW m \in Requests, MarkSteered(m) PROVE TypeOK'
    BY <1>10 DEF MarkSteered
  <1>11. ASSUME NEW m \in Requests, SaveRun(m) PROVE TypeOK'
    BY <1>11 DEF SaveRun, Save
  <1>12. ASSUME NEW m \in Requests, Launch(m) PROVE TypeOK'
    BY <1>12 DEF Launch
  <1>13. ASSUME NEW k \in Tasks, Begin(k) PROVE TypeOK'
    BY <1>13 DEF Begin, Goto
  <1>14. ASSUME NEW k \in Tasks, MarkRunning(k) PROVE TypeOK'
    BY <1>14 DEF MarkRunning, Goto
  <1>15. ASSUME NEW k \in Tasks, Acquire(k) PROVE TypeOK'
    BY <1>15 DEF Acquire, Goto
  <1>16. ASSUME NEW k \in Tasks, Load(k) PROVE TypeOK'
    BY <1>16 DEF Load, Goto
  <1>17. ASSUME NEW k \in Tasks, Ignore(k) PROVE TypeOK'
    BY <1>17 DEF Ignore, Goto
  <1>18. ASSUME NEW k \in Tasks, Reject(k) PROVE TypeOK'
    BY <1>18 DEF Reject, Goto
  <1>19. ASSUME NEW k \in Tasks, OpenSession(k) PROVE TypeOK'
    <2>1. CASE session[Home(k)] = "none"
      BY <1>19, <2>1, ZenonT(40) DEF OpenSession, Goto
    <2>2. CASE session[Home(k)] # "none"
      BY <1>19, <2>2 DEF OpenSession, Goto
    <2> QED BY <2>1, <2>2
  <1>20. ASSUME NEW k \in Tasks, Admit(k) PROVE TypeOK'
    BY <1>20 DEF Admit, Goto
  <1>21. ASSUME NEW k \in Tasks, StartTurn(k) PROVE TypeOK'
    BY <1>21 DEF StartTurn, Goto, MarkSession
  <1>22. ASSUME NEW k \in Tasks, Equip(k) PROVE TypeOK'
    BY <1>22 DEF Equip, Goto
  <1>23. ASSUME NEW k \in Tasks, TurnEnds(k) PROVE TypeOK'
    BY <1>23 DEF TurnEnds, Goto
  <1>24. ASSUME NEW k \in Tasks, Recover(k) PROVE TypeOK'
    BY <1>24 DEF Recover, Goto
  <1>25. ASSUME NEW k \in Tasks, Recovered(k) PROVE TypeOK'
    BY <1>25 DEF Recovered, Goto
  <1>26. ASSUME NEW k \in Tasks, Publish(k) PROVE TypeOK'
    BY <1>26 DEF Publish, Goto
  <1>27. ASSUME NEW k \in Tasks, SaveTurn(k) PROVE TypeOK'
    BY <1>27 DEF SaveTurn, Goto, MarkSession
  <1>28. ASSUME NEW k \in Tasks, Raise(k) PROVE TypeOK'
    <2>1. active' \in [Threads -> Tasks \cup {NoTask}]
      BY ONLY <1>28, TypeOK, TaskFacts DEF Raise, TypeOK
    <2>2. pc' \in [Tasks -> Stages]
      BY ONLY <1>28, TypeOK DEF Raise, Goto, TypeOK, Stages
    <2> QED BY <1>28, <2>1, <2>2 DEF Raise
  <1>29. ASSUME NEW k \in Tasks, FailTurn(k) PROVE TypeOK'
    BY <1>29 DEF FailTurn, Goto, MarkSession
  <1>30. ASSUME NEW k \in Tasks, CancelTurn(k) PROVE TypeOK'
    BY <1>30 DEF CancelTurn, Goto, MarkSession
  <1>30a. ASSUME NEW k \in Tasks, BreakOff(k) PROVE TypeOK'
    BY <1>30a DEF BreakOff, Goto, Gone
  <1>31. ASSUME NEW k \in Tasks, CloseRequest(k) PROVE TypeOK'
    BY <1>31 DEF CloseRequest, Goto
  <1>32. ASSUME NEW k \in Tasks, CloseRun(k) PROVE TypeOK'
    BY <1>32 DEF CloseRun, Goto, Gone
  <1>33. ASSUME NEW s \in Stops, NEW t \in Threads, Stop(s, t) PROVE TypeOK'
    BY <1>33 DEF Stop, CancelTasks, Gone, CancelledAt, Callers
  <1>34. ASSUME NEW s \in Stops, StopEnd(s) PROVE TypeOK'
    BY <1>34 DEF StopEnd, Callers
  <1>35. ASSUME NEW t \in Threads, CloseSession(t) PROVE TypeOK'
    BY <1>35 DEF CloseSession
  <1>36. ASSUME NEW t \in Threads, TimePasses(t) PROVE TypeOK'
    BY <1>36 DEF TimePasses
  <1>37. ASSUME Boot PROVE TypeOK'
    BY <1>37, BootsAssumption DEF Boot
  <1>38. ASSUME Resume PROVE TypeOK'
    BY <1>38 DEF Resume
  <1>39. ASSUME Shutdown PROVE TypeOK'
    BY <1>39 DEF Shutdown, CancelTasks, Gone, CancelledAt
  <1>40. ASSUME Exit PROVE TypeOK'
    BY <1>40 DEF Exit, CancelTasks, Gone, CancelledAt, Unsaved
  <1>41. ASSUME Halt PROVE TypeOK'
    BY <1>41 DEF Halt, Forget
  <1>42. ASSUME Crash PROVE TypeOK'
    BY <1>42 DEF Crash, Forget, Unsaved
  <1> HIDE DEF TypeOK
  <1>43. ASSUME NEW m \in Requests, Submit(m) PROVE TypeOK'
    BY <1>43, <1>3, <1>4, <1>5, <1>6, <1>7, <1>8, <1>8a, <1>9, <1>10, <1>11, <1>12 DEF Submit
  <1>44. ASSUME NEW k \in Tasks, Process(k) PROVE TypeOK'
    BY <1>44, <1>13, <1>14, <1>15, <1>16, <1>17, <1>18, <1>19, <1>20, <1>21, <1>22,
       <1>23, <1>24, <1>25, <1>26, <1>27, <1>28, <1>29, <1>30, <1>30a, <1>31, <1>32 DEF Process
  <1>45. CASE UNCHANGED vars
    BY <1>45 DEF vars, TypeOK
  <1> QED
    BY ONLY [Next]_vars, <1>1, <1>2, <1>43, <1>44, <1>33, <1>34, <1>35, <1>36, <1>37, <1>38, <1>39,
       <1>40, <1>41, <1>42, <1>45 DEF Next

(* Every variable keeps its type.                                               *)
THEOREM TypeCorrect == Spec => []TypeOK
  <1>1. Init => TypeOK
    BY BootsAssumption DEF Init, TypeOK, SessionStatus, RequestStatus, RunStatus, SubmitStage,
       Stages, Settled, Callers
  <1> QED BY <1>1, TypeStep, PTL DEF Spec
------------------------------------------------------------------------------
(* What a step of one task may change: its own stage, the rows of its request   *)
(* and of its thread, and nothing that submit() or a stop has put down.          *)
LEMMA ProcessStep ==
    ASSUME TypeOK, NEW k \in Tasks, Process(k)
    PROVE  /\ pc[k] \notin {"absent", "done"}
           /\ pc'[k] # "absent"
           /\ \A j \in Tasks : j # k => pc'[j] = pc[j]
           /\ \A m \in Requests : m # Req(k) => run'[m] = run[m] /\ request'[m] = request[m]
           /\ run'[Req(k)] = run[Req(k)] \/ run'[Req(k)] # "none"
           /\ \/ request'[Req(k)] = request[Req(k)]
              \/ request'[Req(k)] \in Settled \cup {"interrupted"}
           /\ UNCHANGED <<submit, life, stopVars, dropped, stopped, doubled>>
  <1> USE TypeOK, TaskFacts DEF TypeOK, InLock, Goto, rows, life, table, stopVars, past
  <1>1. CASE Begin(k)
    BY <1>1 DEF Begin
  <1>2. CASE MarkRunning(k)
    BY <1>2 DEF MarkRunning
  <1>3. CASE Acquire(k)
    BY <1>3 DEF Acquire
  <1>4. CASE Load(k)
    BY <1>4 DEF Load
  <1>5. CASE Ignore(k)
    BY <1>5 DEF Ignore
  <1>6. CASE Reject(k)
    BY <1>6 DEF Reject
  <1>7. CASE OpenSession(k)
    BY <1>7 DEF OpenSession
  <1>8. CASE Admit(k)
    BY <1>8 DEF Admit
  <1>9. CASE StartTurn(k)
    BY <1>9 DEF StartTurn, MarkSession
  <1>10. CASE Equip(k)
    BY <1>10 DEF Equip
  <1>11. CASE TurnEnds(k)
    BY <1>11 DEF TurnEnds
  <1>12. CASE Recover(k)
    BY <1>12 DEF Recover
  <1>13. CASE Recovered(k)
    BY <1>13 DEF Recovered
  <1>14. CASE Publish(k)
    BY <1>14 DEF Publish
  <1>15. CASE SaveTurn(k)
    BY <1>15 DEF SaveTurn, MarkSession
  <1>16. CASE Raise(k)
    BY <1>16 DEF Raise
  <1>17. CASE FailTurn(k)
    BY <1>17 DEF FailTurn, MarkSession
  <1>18. CASE CancelTurn(k)
    BY <1>18 DEF CancelTurn, MarkSession
  <1>18a. CASE BreakOff(k)
    BY <1>18a DEF BreakOff, Gone
  <1>19. CASE CloseRequest(k)
    BY <1>19 DEF CloseRequest
  <1>20. CASE CloseRun(k)
    BY <1>20 DEF CloseRun, Gone, Settled
  <1> QED
    BY ONLY Process(k), <1>1, <1>2, <1>3, <1>4, <1>5, <1>6, <1>7, <1>8, <1>9, <1>10,
         <1>11, <1>12, <1>13, <1>14, <1>15, <1>16, <1>17, <1>18, <1>18a, <1>19, <1>20 DEF Process
------------------------------------------------------------------------------
(* The bookkeeping of claims: where submit() stands tells which rows exist.     *)
Untouched ==
    \A m \in Requests : request[m] \in {"none", "expired"} => submit[m] = "idle" /\ run[m] = "none"

TaskHasRow == \A k \in Tasks : pc[k] # "absent" => run[Req(k)] # "none"

StageTellsRow ==
    \A m \in Requests :
        /\ submit[m] # "idle" => pc[<<m, "submitted">>] = "absent"
        /\ submit[m] \in {"staging", "downloading", "unmarked"} => m \in Files
        /\ submit[m] \in {"looking", "reusing", "staging"} => run[m] = "none"
        /\ submit[m] \in {"downloading", "unmarked", "launching"} => run[m] # "none"
        /\ submit[m] \in {"routing", "steered"} => (run[m] = "none" <=> m \notin Files)

SteeredHasNoRow ==
    \A m \in Requests \ Files : request[m] = "steered" => submit[m] = "idle" /\ run[m] = "none"

NotResumedYet ==
    service \in {"down", "connected"} => \A m \in Requests : pc[<<m, "resumed">>] = "absent"

QuietOutside ==
    service \in {"down", "exiting"} => \A m \in Requests : submit[m] = "idle"

ClaimInv ==
    /\ Untouched
    /\ TaskHasRow
    /\ StageTellsRow
    /\ SteeredHasNoRow
    /\ NotResumedYet
    /\ QuietOutside
    /\ Accounted

(* A cancelled task moves on; no other task does. *)
LEMMA CancelStep ==
    ASSUME TypeOK, NEW S \in SUBSET {k \in Tasks : Working(k)}, CancelTasks(S)
    PROVE  /\ \A k \in Tasks : pc'[k] = "absent" <=> pc[k] = "absent"
           /\ \A k \in Tasks : pc'[k] = pc[k] \/ pc'[k] \in {"cancelling", "closing", "done"}
           /\ \A k \in S : pc[k] # "absent"
  BY DEF TypeOK, CancelTasks, CancelledAt, Working

(* ClaimInv is inductive relative to TypeOK. *)
LEMMA ClaimStep == TypeOK /\ ClaimInv /\ [Next]_vars => ClaimInv'
  <1> SUFFICES ASSUME TypeOK, ClaimInv, [Next]_vars PROVE ClaimInv'
    OBVIOUS
  <1> USE TypeOK, TaskFacts DEF TypeOK, rows, life, memory, table, stopVars, past, Settled
  <1> USE ClaimInv DEF ClaimInv, Untouched, TaskHasRow, StageTellsRow, SteeredHasNoRow,
        NotResumedYet, QuietOutside, Accounted, Accepting, Resumable
  <1>1. ASSUME NEW m \in Requests, Refuse(m) PROVE ClaimInv'
    BY <1>1 DEF Refuse
  <1>2. ASSUME NEW m \in Requests, Claim(m) PROVE ClaimInv'
    <2>a. run[m] = "none" /\ pc[<<m, "submitted">>] = "absent"
      BY <1>2 DEF Claim, Req
    <2>1. Untouched'
      BY <1>2 DEF Claim, AfterLookup
    <2>2. TaskHasRow'
      BY <1>2 DEF Claim, AfterLookup
    <2>3. StageTellsRow'
      BY <1>2, <2>a, ZenonT(40) DEF Claim, AfterLookup
    <2>4. SteeredHasNoRow'
      BY <1>2 DEF Claim, AfterLookup
    <2>5. NotResumedYet'
      BY <1>2 DEF Claim, AfterLookup
    <2>6. QuietOutside'
      BY <1>2 DEF Claim, AfterLookup
    <2>7. Accounted'
      BY <1>2 DEF Claim, AfterLookup
    <2> QED BY <2>1, <2>2, <2>3, <2>4, <2>5, <2>6, <2>7
  <1>3. ASSUME NEW m \in Requests, FindAnalysis(m) PROVE ClaimInv'
    BY <1>3 DEF FindAnalysis, AfterLookup
  <1>4. ASSUME NEW m \in Requests, FinishReused(m) PROVE ClaimInv'
    BY <1>4 DEF FinishReused
  <1>5. ASSUME NEW m \in Requests, ReuseRaises(m) PROVE ClaimInv'
    BY <1>5 DEF ReuseRaises
  <1>6. ASSUME NEW m \in Requests, SaveFiles(m) PROVE ClaimInv'
    BY <1>6 DEF SaveFiles, Save
  <1>7. ASSUME NEW m \in Requests, Downloaded(m) PROVE ClaimInv'
    BY <1>7 DEF Downloaded, Save
  <1>8. ASSUME NEW m \in Requests, Steer(m) PROVE ClaimInv'
    BY <1>8 DEF Steer, Steerable
  <1>8a. ASSUME NEW m \in Requests, SteerRaises(m) PROVE ClaimInv'
    BY <1>8a DEF SteerRaises, Steerable
  <1>9. ASSUME NEW m \in Requests, FinishSteered(m) PROVE ClaimInv'
    <2>1. Untouched'
      BY <1>9 DEF FinishSteered
    <2>2. TaskHasRow'
      BY <1>9 DEF FinishSteered
    <2>3. StageTellsRow'
      BY <1>9, ZenonT(40) DEF FinishSteered
    <2>4. SteeredHasNoRow'
      BY <1>9, ZenonT(40) DEF FinishSteered
    <2>5. NotResumedYet'
      BY <1>9 DEF FinishSteered
    <2>6. QuietOutside'
      BY <1>9 DEF FinishSteered
    <2>7. Accounted'
      BY <1>9 DEF FinishSteered
    <2> QED BY <2>1, <2>2, <2>3, <2>4, <2>5, <2>6, <2>7
  <1>10. ASSUME NEW m \in Requests, MarkSteered(m) PROVE ClaimInv'
    BY <1>10 DEF MarkSteered
  <1>11. ASSUME NEW m \in Requests, SaveRun(m) PROVE ClaimInv'
    BY <1>11 DEF SaveRun, Save
  <1>12. ASSUME NEW m \in Requests, Launch(m) PROVE ClaimInv'
    BY <1>12 DEF Launch, Req
  <1>13. ASSUME NEW k \in Tasks, Process(k) PROVE ClaimInv'
    <2>a. \A j \in Tasks : pc[j] = "absent" => pc'[j] = "absent"
      BY <1>13, ProcessStep
    <2>b. \A m \in Requests : run'[m] = "none" <=> run[m] = "none"
      BY <1>13, ProcessStep
    <2>c. submit' = submit
      BY <1>13, ProcessStep
    <2>e. run[Req(k)] # "none"
      BY ONLY <1>13, ProcessStep, TypeOK, TaskHasRow DEF TaskHasRow
    <2>d. \A m \in Requests : request'[m] = request[m] \/
              (run[m] # "none" /\ request'[m] \notin {"none", "expired", "reused", "steered"})
      BY ONLY <1>13, <2>e, ProcessStep, TypeOK, TaskFacts DEF Settled
    <2>1. Untouched'
      BY ONLY <2>b, <2>c, <2>d, Untouched DEF Untouched
    <2>2. TaskHasRow'
      BY ONLY <2>a, <2>b, TaskHasRow, TaskFacts DEF TaskHasRow, Req
    <2>3. StageTellsRow'
      BY ONLY <2>a, <2>b, <2>c, StageTellsRow, TaskFacts DEF StageTellsRow
    <2>4. SteeredHasNoRow'
      BY ONLY <2>b, <2>c, <2>d, SteeredHasNoRow DEF SteeredHasNoRow
    <2>5. NotResumedYet'
      BY ONLY <1>13, <2>a, ProcessStep, TypeOK, NotResumedYet, TaskFacts
      DEF NotResumedYet, life
    <2>6. QuietOutside'
      BY <1>13, ProcessStep
    <2>7. Accounted'
      BY ONLY <1>13, <2>b, <2>c, <2>d, ProcessStep, TypeOK, Accounted DEF Accounted
    <2> QED BY <2>1, <2>2, <2>3, <2>4, <2>5, <2>6, <2>7
  <1>14. ASSUME NEW s \in Stops, NEW t \in Threads, Stop(s, t) PROVE ClaimInv'
    BY <1>14, CancelStep, ZenonT(40) DEF Stop
  <1>15. ASSUME NEW s \in Stops, StopEnd(s) PROVE ClaimInv'
    BY <1>15 DEF StopEnd
  <1>16. ASSUME NEW t \in Threads, CloseSession(t) PROVE ClaimInv'
    BY <1>16 DEF CloseSession
  <1>17. ASSUME NEW t \in Threads, TimePasses(t) PROVE ClaimInv'
    BY <1>17 DEF TimePasses
  <1>18. ASSUME Boot PROVE ClaimInv'
    BY <1>18 DEF Boot
  <1>19. ASSUME Resume PROVE ClaimInv'
    BY <1>19 DEF Resume, Req
  <1>20. ASSUME Shutdown PROVE ClaimInv'
    BY <1>20, CancelStep DEF Shutdown
  <1>21. ASSUME Exit PROVE ClaimInv'
    BY <1>21, CancelStep DEF Exit, Unsaved
  <1>22. ASSUME Halt PROVE ClaimInv'
    BY <1>22 DEF Halt, Forget
  <1>23. ASSUME Crash PROVE ClaimInv'
    BY <1>23 DEF Crash, Forget, Unsaved
  <1> HIDE DEF ClaimInv, TypeOK
  <1>24. ASSUME NEW m \in Requests, Submit(m) PROVE ClaimInv'
    BY <1>24, <1>3, <1>4, <1>5, <1>6, <1>7, <1>8, <1>8a, <1>9, <1>10, <1>11, <1>12 DEF Submit
  <1>25. CASE UNCHANGED vars
    BY <1>25 DEF vars, ClaimInv, TypeOK
  <1> QED
    BY ONLY [Next]_vars, <1>1, <1>2, <1>24, <1>13, <1>14, <1>15, <1>16, <1>17, <1>18,
       <1>19, <1>20, <1>21, <1>22, <1>23, <1>25 DEF Next
------------------------------------------------------------------------------
(* Controls.  A registered control belongs to a turn that is running  *)
(* or was left early, and that has no good outcome.                             *)
ControlStages == {"equipping", "turn", "recovering", "failing", "cancelling", "closing",
                  "closingRun", "done"}

MayControl(k, t) ==
    /\ Home(k) = t
    /\ pc[k] \in ControlStages
    /\ outcome[k] \notin {"completed", "rejected", "ignored"}

ControlInv == \A t \in Threads : active[t] # NoTask => MayControl(active[t], t)

OutcomeUnset == \A k \in Tasks : pc[k] \notin {"closing", "closingRun"} => outcome[k] = "failed"

ControlsInv == ControlInv /\ OutcomeUnset

(* A new task disturbs no control. *)
LEMMA NewTasksControlNothing ==
    ASSUME TypeOK, ControlInv, UNCHANGED <<active, outcome>>,
           \A k \in Tasks : pc'[k] = pc[k] \/ pc[k] = "absent"
    PROVE  ControlInv'
  BY DEF TypeOK, ControlInv, MayControl, ControlStages

(* Cancellation determines every variable ControlsInv speaks of. *)
LEMMA CancelKeepsControls ==
    ASSUME TypeOK, ControlsInv, NEW S \in SUBSET {k \in Tasks : Working(k)}, CancelTasks(S)
    PROVE  ControlsInv'
  <1> USE TypeOK, ControlsInv, TaskFacts DEF TypeOK, ControlsInv
  <1>1. \A k \in Tasks : k \notin S => pc'[k] = pc[k] /\ lockOf'[k] = lockOf[k] /\ outcome'[k] = outcome[k]
    BY DEF CancelTasks, Gone
  <1>2. ASSUME NEW k \in S
        PROVE  /\ pc'[k] = CancelledAt(pc[k])
               /\ outcome'[k] = IF CancelledAt(pc[k]) = "done" THEN "failed" ELSE outcome[k]
    BY DEF CancelTasks, Gone
  <1>4. OutcomeUnset'
    BY <1>1, <1>2 DEF OutcomeUnset, CancelledAt, InLock, Working
  <1>5. \A t \in Threads : active'[t] = NoTask \/ active'[t] = active[t]
    BY DEF CancelTasks
  <1>6. ControlInv'
    <2> SUFFICES ASSUME NEW t \in Threads, active'[t] # NoTask
                 PROVE  MayControl(active[t], t)'
      BY DEF ControlInv
    <2> QED BY <1>1, <1>2, <1>5 DEF ControlInv, MayControl, ControlStages, CancelledAt, Working
  <1> QED BY <1>4, <1>6

(* ControlsInv is inductive relative to TypeOK and ClaimInv.                         *)
LEMMA ControlsStep == TypeOK /\ ClaimInv /\ ControlsInv /\ [Next]_vars => ControlsInv'
  <1> SUFFICES ASSUME TypeOK, ClaimInv, ControlsInv, [Next]_vars PROVE ControlsInv'
    OBVIOUS
  <1> USE TypeOK, ControlsInv, TaskFacts, NoTaskAssumption
        DEF TypeOK, ControlsInv, ControlInv, MayControl, ControlStages,
        OutcomeUnset, InLock, rows, life, memory, table,
        stopVars, past
  <1>1. ASSUME NEW m \in Requests, Refuse(m) PROVE ControlsInv'
    BY <1>1 DEF Refuse
  <1>2. ASSUME NEW m \in Requests, Claim(m) PROVE ControlsInv'
    BY <1>2 DEF Claim, AfterLookup
  <1>3. ASSUME NEW m \in Requests, FindAnalysis(m) PROVE ControlsInv'
    BY <1>3 DEF FindAnalysis, AfterLookup
  <1>4. ASSUME NEW m \in Requests, FinishReused(m) PROVE ControlsInv'
    BY <1>4 DEF FinishReused
  <1>5. ASSUME NEW m \in Requests, ReuseRaises(m) PROVE ControlsInv'
    BY <1>5 DEF ReuseRaises
  <1>6. ASSUME NEW m \in Requests, SaveFiles(m) PROVE ControlsInv'
    BY <1>6 DEF SaveFiles, Save
  <1>7. ASSUME NEW m \in Requests, Downloaded(m) PROVE ControlsInv'
    BY <1>7 DEF Downloaded, Save
  <1>8. ASSUME NEW m \in Requests, Steer(m) PROVE ControlsInv'
    BY <1>8 DEF Steer, Steerable
  <1>8a. ASSUME NEW m \in Requests, SteerRaises(m) PROVE ControlsInv'
    BY <1>8a DEF SteerRaises, Steerable
  <1>9. ASSUME NEW m \in Requests, FinishSteered(m) PROVE ControlsInv'
    BY <1>9 DEF FinishSteered
  <1>10. ASSUME NEW m \in Requests, MarkSteered(m) PROVE ControlsInv'
    BY <1>10 DEF MarkSteered
  <1>11. ASSUME NEW m \in Requests, SaveRun(m) PROVE ControlsInv'
    BY <1>11 DEF SaveRun, Save
  <1>12. ASSUME NEW m \in Requests, Launch(m) PROVE ControlsInv'
    <2>1. pc[<<m, "submitted">>] = "absent"
      BY <1>12, ClaimInv DEF Launch, ClaimInv, StageTellsRow
    <2>2. \A k \in Tasks : pc'[k] = pc[k] \/ (pc[k] = "absent" /\ pc'[k] = "created")
      BY ONLY <1>12, <2>1, TypeOK DEF Launch, TypeOK
    <2>4. ControlInv'
      BY ONLY <1>12, <2>2, NewTasksControlNothing, TypeOK, ControlsInv DEF Launch, ControlsInv, table
    <2>5. OutcomeUnset'
      BY <1>12, <2>2 DEF Launch
    <2> QED BY <2>4, <2>5
  <1>13. ASSUME NEW k \in Tasks, Begin(k) PROVE ControlsInv'
    BY <1>13 DEF Begin, Goto
  <1>14. ASSUME NEW k \in Tasks, MarkRunning(k) PROVE ControlsInv'
    BY <1>14 DEF MarkRunning, Goto
  <1>15. ASSUME NEW k \in Tasks, Acquire(k) PROVE ControlsInv'
    BY <1>15 DEF Acquire, Held, Goto
  <1>16. ASSUME NEW k \in Tasks, Load(k) PROVE ControlsInv'
    BY <1>16 DEF Load, Goto
  <1>17. ASSUME NEW k \in Tasks, Ignore(k) PROVE ControlsInv'
    BY <1>17 DEF Ignore, Goto
  <1>18. ASSUME NEW k \in Tasks, Reject(k) PROVE ControlsInv'
    BY <1>18 DEF Reject, Goto
  <1>19. ASSUME NEW k \in Tasks, OpenSession(k) PROVE ControlsInv'
    <2>1. UNCHANGED <<lockOf, active, outcome>>
      BY <1>19 DEF OpenSession
    <2>2. pc' = [pc EXCEPT ![k] = "admitting"] \/ pc' = [pc EXCEPT ![k] = "failing"]
      BY <1>19 DEF OpenSession, Goto
    <2>3. pc[k] = "opening"
      BY <1>19 DEF OpenSession, Goto
    <2>5. ControlInv'
      <3>1. \A t \in Threads : active[t] # NoTask => active[t] \in Tasks
        BY ONLY TypeOK DEF TypeOK
      <3>2. \A t \in Threads : active[t] # NoTask => pc'[active[t]] = pc[active[t]]
        BY ONLY <2>2, <2>3, <3>1, TypeOK, ControlsInv
           DEF TypeOK, ControlsInv, ControlInv, MayControl, ControlStages
      <3> QED BY ONLY <2>1, <3>2, ControlsInv DEF ControlsInv, ControlInv, MayControl
    <2>6. OutcomeUnset'
      BY ONLY <2>1, <2>2, <2>3, ControlsInv, TypeOK DEF ControlsInv, OutcomeUnset, TypeOK
    <2> QED BY <2>5, <2>6
  <1>20. ASSUME NEW k \in Tasks, Admit(k) PROVE ControlsInv'
    BY <1>20 DEF Admit, Goto
  <1>21. ASSUME NEW k \in Tasks, StartTurn(k) PROVE ControlsInv'
    <2>1. UNCHANGED outcome /\ pc' = [pc EXCEPT ![k] = "equipping"] /\ pc[k] = "admitting"
      BY <1>21 DEF StartTurn, Goto
    <2>2. Home(k) \in Threads /\ active' = [active EXCEPT ![Home(k)] = k]
      BY <1>21, TaskFacts DEF StartTurn
    <2>3. OutcomeUnset'
      BY ONLY <2>1, ControlsInv, TypeOK DEF ControlsInv, OutcomeUnset, TypeOK
    <2>4. outcome[k] = "failed"
      BY <2>1
    <2>5. ControlInv'
      <3> SUFFICES ASSUME NEW t \in Threads, active'[t] # NoTask PROVE MayControl(active[t], t)'
        BY DEF ControlInv
      <3>1. CASE t = Home(k)
        BY <3>1, <2>1, <2>2, <2>4
      <3>2. CASE t # Home(k)
        <4>1. active'[t] = active[t] /\ active[t] # NoTask /\ active[t] \in Tasks
          BY <3>2, <2>2
        <4>2. MayControl(active[t], t)
          BY ONLY <4>1, t \in Threads, ControlsInv DEF ControlsInv, ControlInv
        <4>3. pc'[active[t]] = pc[active[t]]
          BY ONLY <4>1, <4>2, <2>1, TypeOK DEF MayControl, ControlStages, TypeOK
        <4> QED BY ONLY <4>1, <4>2, <4>3, <2>1 DEF MayControl
      <3> QED BY <3>1, <3>2
    <2> QED BY <2>3, <2>5
  <1>22. ASSUME NEW k \in Tasks, Equip(k) PROVE ControlsInv'
    BY <1>22 DEF Equip, Goto
  <1>23. ASSUME NEW k \in Tasks, TurnEnds(k) PROVE ControlsInv'
    BY <1>23 DEF TurnEnds, Goto
  <1>24. ASSUME NEW k \in Tasks, Recover(k) PROVE ControlsInv'
    BY <1>24 DEF Recover, Goto
  <1>25. ASSUME NEW k \in Tasks, Recovered(k) PROVE ControlsInv'
    BY <1>25 DEF Recovered, Goto
  <1>26. ASSUME NEW k \in Tasks, Publish(k) PROVE ControlsInv'
    BY <1>26 DEF Publish, Goto
  <1>27. ASSUME NEW k \in Tasks, SaveTurn(k) PROVE ControlsInv'
    BY <1>27 DEF SaveTurn, Goto, MarkSession
  <1>28. ASSUME NEW k \in Tasks, Raise(k) PROVE ControlsInv'
    <2>1. \A t \in Threads : active'[t] = NoTask \/ active'[t] = active[t]
      BY ONLY <1>28, TypeOK, TaskFacts DEF Raise, TypeOK
    <2>2. pc'[k] = "failing" /\ \A j \in Tasks : j # k => pc'[j] = pc[j]
      BY ONLY <1>28, TypeOK DEF Raise, Goto, TypeOK
    <2>4. ControlInv'
      <3>1. outcome' = outcome
        BY <1>28 DEF Raise
      <3> QED BY ONLY <2>1, <2>2, <3>1, TypeOK, ControlsInv
          DEF TypeOK, ControlsInv, ControlInv, MayControl, ControlStages
    <2>5. OutcomeUnset'
      BY <1>28 DEF Raise, Goto
    <2> QED BY <2>4, <2>5
  <1>29. ASSUME NEW k \in Tasks, FailTurn(k) PROVE ControlsInv'
    BY <1>29 DEF FailTurn, Goto, MarkSession
  <1>30. ASSUME NEW k \in Tasks, CancelTurn(k) PROVE ControlsInv'
    BY <1>30 DEF CancelTurn, Goto, MarkSession
  <1>30a. ASSUME NEW k \in Tasks, BreakOff(k) PROVE ControlsInv'
    BY <1>30a DEF BreakOff, Goto, Gone
  <1>31. ASSUME NEW k \in Tasks, CloseRequest(k) PROVE ControlsInv'
    BY <1>31 DEF CloseRequest, Goto
  <1>32. ASSUME NEW k \in Tasks, CloseRun(k) PROVE ControlsInv'
    BY <1>32 DEF CloseRun, Goto, Gone
  <1>33. ASSUME NEW s \in Stops, NEW t \in Threads, Stop(s, t) PROVE ControlsInv'
    BY <1>33, CancelKeepsControls DEF Stop
  <1>34. ASSUME NEW s \in Stops, StopEnd(s) PROVE ControlsInv'
    BY <1>34 DEF StopEnd, Callers
  <1>35. ASSUME NEW t \in Threads, CloseSession(t) PROVE ControlsInv'
    BY <1>35 DEF CloseSession
  <1>36. ASSUME NEW t \in Threads, TimePasses(t) PROVE ControlsInv'
    BY <1>36 DEF TimePasses
  <1>37. ASSUME Boot PROVE ControlsInv'
    BY <1>37 DEF Boot
  <1>38. ASSUME Resume PROVE ControlsInv'
    <2>1. \A k \in Tasks : k[2] = "resumed" => pc[k] = "absent"
      BY <1>38, ClaimInv DEF Resume, ClaimInv, NotResumedYet, Tasks
    <2>2. \A k \in Tasks : pc'[k] = pc[k] \/ (pc[k] = "absent" /\ pc'[k] = "created")
      BY <1>38, <2>1 DEF Resume
    <2>4. ControlInv'
      BY ONLY <1>38, <2>2, NewTasksControlNothing, TypeOK, ControlsInv DEF Resume, ControlsInv, table
    <2>5. OutcomeUnset'
      BY <1>38, <2>2 DEF Resume
    <2> QED BY <2>4, <2>5
  <1>39. ASSUME Shutdown PROVE ControlsInv'
    BY <1>39, CancelKeepsControls DEF Shutdown
  <1>40. ASSUME Exit PROVE ControlsInv'
    BY <1>40, CancelKeepsControls DEF Exit
  <1>41. ASSUME Halt PROVE ControlsInv'
    BY <1>41 DEF Halt, Forget
  <1>42. ASSUME Crash PROVE ControlsInv'
    BY <1>42 DEF Crash, Forget, Unsaved
  <1> HIDE DEF ControlsInv, TypeOK
  <1>43. ASSUME NEW m \in Requests, Submit(m) PROVE ControlsInv'
    BY <1>43, <1>3, <1>4, <1>5, <1>6, <1>7, <1>8, <1>8a, <1>9, <1>10, <1>11, <1>12 DEF Submit
  <1>44. ASSUME NEW k \in Tasks, Process(k) PROVE ControlsInv'
    BY <1>44, <1>13, <1>14, <1>15, <1>16, <1>17, <1>18, <1>19, <1>20, <1>21, <1>22,
       <1>23, <1>24, <1>25, <1>26, <1>27, <1>28, <1>29, <1>30, <1>30a, <1>31, <1>32 DEF Process
  <1>45. CASE UNCHANGED vars
    BY <1>45 DEF vars, ControlsInv, TypeOK
  <1> QED
    BY ONLY [Next]_vars, <1>1, <1>2, <1>43, <1>44, <1>33, <1>34, <1>35, <1>36, <1>37,
       <1>38, <1>39, <1>40, <1>41, <1>42, <1>45 DEF Next
------------------------------------------------------------------------------
(* Reasons: what must have happened before an outcome is on its way to a row.   *)
PublishedWhenSaving ==
    \A k \in Tasks : pc[k] = "saving" \/ outcome[k] = "completed" => answers[Req(k)] > 0

StoppedWhenCancelled == \A k \in Tasks : outcome[k] = "cancelled" => ThreadStopped(Home(k))

StoppedWhenManual == \A t \in manual : ThreadStopped(t)

ReasonInv ==
    /\ PublishedWhenSaving
    /\ StoppedWhenCancelled
    /\ StoppedWhenManual
    /\ SettledForAReason
    /\ ManualIsOwned

(* ReasonInv is inductive relative to TypeOK.                                    *)
LEMMA ReasonStep == TypeOK /\ ReasonInv /\ [Next]_vars => ReasonInv'
  <1> SUFFICES ASSUME TypeOK, ReasonInv, [Next]_vars PROVE ReasonInv'
    OBVIOUS
  <1> USE TypeOK, ReasonInv, TaskFacts, RequestsAssumption, StopsAssumption
        DEF TypeOK, ReasonInv, PublishedWhenSaving, StoppedWhenCancelled, StoppedWhenManual,
        SettledForAReason, ManualIsOwned, ThreadStopped, Req, Home, Callers,
        rows, life, memory, table, stopVars, past
  <1>1. ASSUME NEW m \in Requests, Refuse(m) PROVE ReasonInv'
    BY <1>1 DEF Refuse
  <1>2. ASSUME NEW m \in Requests, Claim(m) PROVE ReasonInv'
    BY <1>2 DEF Claim, AfterLookup
  <1>3. ASSUME NEW m \in Requests, FindAnalysis(m) PROVE ReasonInv'
    BY <1>3 DEF FindAnalysis, AfterLookup
  <1>4. ASSUME NEW m \in Requests, FinishReused(m) PROVE ReasonInv'
    BY <1>4 DEF FinishReused
  <1>5. ASSUME NEW m \in Requests, ReuseRaises(m) PROVE ReasonInv'
    BY <1>5 DEF ReuseRaises
  <1>6. ASSUME NEW m \in Requests, SaveFiles(m) PROVE ReasonInv'
    BY <1>6 DEF SaveFiles, Save
  <1>7. ASSUME NEW m \in Requests, Downloaded(m) PROVE ReasonInv'
    BY <1>7 DEF Downloaded, Save
  <1>8. ASSUME NEW m \in Requests, Steer(m) PROVE ReasonInv'
    BY <1>8 DEF Steer, Steerable
  <1>8a. ASSUME NEW m \in Requests, SteerRaises(m) PROVE ReasonInv'
    BY <1>8a DEF SteerRaises, Steerable
  <1>9. ASSUME NEW m \in Requests, FinishSteered(m) PROVE ReasonInv'
    BY <1>9 DEF FinishSteered
  <1>10. ASSUME NEW m \in Requests, MarkSteered(m) PROVE ReasonInv'
    BY <1>10 DEF MarkSteered
  <1>11. ASSUME NEW m \in Requests, SaveRun(m) PROVE ReasonInv'
    BY <1>11 DEF SaveRun, Save
  <1>12. ASSUME NEW m \in Requests, Launch(m) PROVE ReasonInv'
    BY <1>12 DEF Launch
  <1>13. ASSUME NEW k \in Tasks, Begin(k) PROVE ReasonInv'
    BY <1>13 DEF Begin, Goto
  <1>14. ASSUME NEW k \in Tasks, MarkRunning(k) PROVE ReasonInv'
    BY <1>14 DEF MarkRunning, Goto
  <1>15. ASSUME NEW k \in Tasks, Acquire(k) PROVE ReasonInv'
    BY <1>15 DEF Acquire, Goto
  <1>16. ASSUME NEW k \in Tasks, Load(k) PROVE ReasonInv'
    BY <1>16 DEF Load, Goto
  <1>17. ASSUME NEW k \in Tasks, Ignore(k) PROVE ReasonInv'
    BY <1>17 DEF Ignore, Goto
  <1>18. ASSUME NEW k \in Tasks, Reject(k) PROVE ReasonInv'
    BY <1>18 DEF Reject, Goto
  <1>19. ASSUME NEW k \in Tasks, OpenSession(k) PROVE ReasonInv'
    BY <1>19 DEF OpenSession, Goto
  <1>20. ASSUME NEW k \in Tasks, Admit(k) PROVE ReasonInv'
    BY <1>20 DEF Admit, Goto
  <1>21. ASSUME NEW k \in Tasks, StartTurn(k) PROVE ReasonInv'
    BY <1>21 DEF StartTurn, Goto, MarkSession
  <1>22. ASSUME NEW k \in Tasks, Equip(k) PROVE ReasonInv'
    BY <1>22 DEF Equip, Goto
  <1>23. ASSUME NEW k \in Tasks, TurnEnds(k) PROVE ReasonInv'
    BY <1>23 DEF TurnEnds, Goto
  <1>24. ASSUME NEW k \in Tasks, Recover(k) PROVE ReasonInv'
    BY <1>24 DEF Recover, Goto
  <1>25. ASSUME NEW k \in Tasks, Recovered(k) PROVE ReasonInv'
    BY <1>25 DEF Recovered, Goto
  <1>26. ASSUME NEW k \in Tasks, Publish(k) PROVE ReasonInv'
    BY <1>26 DEF Publish, Goto
  <1>27. ASSUME NEW k \in Tasks, SaveTurn(k) PROVE ReasonInv'
    BY <1>27 DEF SaveTurn, Goto, MarkSession
  <1>28. ASSUME NEW k \in Tasks, Raise(k) PROVE ReasonInv'
    BY <1>28 DEF Raise, Goto
  <1>29. ASSUME NEW k \in Tasks, FailTurn(k) PROVE ReasonInv'
    BY <1>29 DEF FailTurn, Goto, MarkSession
  <1>30. ASSUME NEW k \in Tasks, CancelTurn(k) PROVE ReasonInv'
    BY <1>30 DEF CancelTurn, Goto, MarkSession
  <1>30a. ASSUME NEW k \in Tasks, BreakOff(k) PROVE ReasonInv'
    BY <1>30a DEF BreakOff, Goto, Gone
  <1>31. ASSUME NEW k \in Tasks, CloseRequest(k) PROVE ReasonInv'
    BY <1>31 DEF CloseRequest, Goto
  <1>32. ASSUME NEW k \in Tasks, CloseRun(k) PROVE ReasonInv'
    BY <1>32 DEF CloseRun, Goto, Gone
  <1>33. ASSUME NEW s \in Stops, NEW t \in Threads, Stop(s, t) PROVE ReasonInv'
    BY <1>33 DEF Stop, CancelTasks, Gone, CancelledAt, Callers
  <1>34. ASSUME NEW s \in Stops, StopEnd(s) PROVE ReasonInv'
    BY <1>34 DEF StopEnd, Callers
  <1>35. ASSUME NEW t \in Threads, CloseSession(t) PROVE ReasonInv'
    BY <1>35 DEF CloseSession
  <1>36. ASSUME NEW t \in Threads, TimePasses(t) PROVE ReasonInv'
    BY <1>36 DEF TimePasses
  <1>37. ASSUME Boot PROVE ReasonInv'
    BY <1>37 DEF Boot
  <1>38. ASSUME Resume PROVE ReasonInv'
    BY <1>38 DEF Resume
  <1>39. ASSUME Shutdown PROVE ReasonInv'
    BY <1>39 DEF Shutdown, CancelTasks, Gone, CancelledAt
  <1>40. ASSUME Exit PROVE ReasonInv'
    BY <1>40 DEF Exit, CancelTasks, Gone, CancelledAt, Unsaved
  <1>41. ASSUME Halt PROVE ReasonInv'
    BY <1>41 DEF Halt, Forget
  <1>42. ASSUME Crash PROVE ReasonInv'
    BY <1>42 DEF Crash, Forget, Unsaved
  <1> HIDE DEF ReasonInv, TypeOK
  <1>43. ASSUME NEW m \in Requests, Submit(m) PROVE ReasonInv'
    BY <1>43, <1>3, <1>4, <1>5, <1>6, <1>7, <1>8, <1>8a, <1>9, <1>10, <1>11, <1>12 DEF Submit
  <1>44. ASSUME NEW k \in Tasks, Process(k) PROVE ReasonInv'
    BY <1>44, <1>13, <1>14, <1>15, <1>16, <1>17, <1>18, <1>19, <1>20, <1>21, <1>22,
       <1>23, <1>24, <1>25, <1>26, <1>27, <1>28, <1>29, <1>30, <1>30a, <1>31, <1>32 DEF Process
  <1>45. CASE UNCHANGED vars
    BY <1>45 DEF vars, ReasonInv, TypeOK
  <1> QED
    BY ONLY [Next]_vars, <1>1, <1>2, <1>43, <1>44, <1>33, <1>34, <1>35, <1>36, <1>37,
       <1>38, <1>39, <1>40, <1>41, <1>42, <1>45 DEF Next
------------------------------------------------------------------------------
(* Answers.  A request has a budget of one answer for each life, and one more if  *)
(* it is doubled; what is under way for it never exceeds what is left.  Under way *)
(* are a submit(), each task that can still publish, and, until the restart has   *)
(* listed its rows, the row that may be on the list.                              *)
CanAnswer == {"created", "marking", "waiting", "loading", "opening", "gating", "admitting",
              "equipping", "turn", "publishing", "recovering"}

One(p) == IF p THEN 1 ELSE 0
Submits(m) == One(submit[m] # "idle")
Runs(m)    == One(pc[<<m, "submitted">>] \in CanAnswer)
Resumes(m) == One(pc[<<m, "resumed">>] \in CanAnswer)
Listable(m) == One(service = "connected" /\ run[m] # "none")

Budget == \A m \in Requests :
    answers[m] + Submits(m) + Runs(m) + Resumes(m) + Listable(m) <= boots + One(m \in doubled)

Unused == \A m \in Requests : request[m] = "none" => answers[m] = 0

OneTask ==
    \A m \in Requests \ doubled :
        /\ pc[<<m, "submitted">>] = "absent" \/ pc[<<m, "resumed">>] = "absent"
        /\ submit[m] # "idle" => pc[<<m, "resumed">>] = "absent"
        /\ service = "connected" /\ run[m] # "none" =>
                submit[m] = "idle" /\ pc[<<m, "submitted">>] = "absent"

Quiet ==
    /\ service = "down" => /\ \A m \in Requests : submit[m] = "idle"
                           /\ \A k \in Tasks : pc[k] = "absent"
    /\ service # "down" => boots > 0

DoubledHasRow == \A m \in doubled : run[m] # "none"

LifeInv == Budget /\ Unused /\ OneTask /\ DoubledHasRow /\ Quiet

(* A task that can still answer could do so before; publishing uses that up.    *)
LEMMA AnswerStep ==
    ASSUME TypeOK, NEW k \in Tasks, Process(k)
    PROVE  /\ pc'[k] \in CanAnswer => pc[k] \in CanAnswer
           /\ \/ answers' = answers
              \/ /\ pc[k] = "publishing" /\ pc'[k] = "saving"
                 /\ answers' = [answers EXCEPT ![Req(k)] = @ + 1]
  <1> USE TypeOK, TaskFacts DEF TypeOK, InLock, Goto, CanAnswer, past
  <1>1. CASE Begin(k)
    BY <1>1 DEF Begin
  <1>2. CASE MarkRunning(k)
    BY <1>2 DEF MarkRunning
  <1>3. CASE Acquire(k)
    BY <1>3 DEF Acquire
  <1>4. CASE Load(k)
    BY <1>4 DEF Load
  <1>5. CASE Ignore(k)
    BY <1>5 DEF Ignore
  <1>6. CASE Reject(k)
    BY <1>6 DEF Reject
  <1>7. CASE OpenSession(k)
    BY <1>7 DEF OpenSession
  <1>8. CASE Admit(k)
    BY <1>8 DEF Admit
  <1>9. CASE StartTurn(k)
    BY <1>9 DEF StartTurn, MarkSession
  <1>10. CASE Equip(k)
    BY <1>10 DEF Equip
  <1>11. CASE TurnEnds(k)
    BY <1>11 DEF TurnEnds
  <1>12. CASE Recover(k)
    BY <1>12 DEF Recover
  <1>13. CASE Recovered(k)
    BY <1>13 DEF Recovered
  <1>14. CASE Publish(k)
    BY <1>14 DEF Publish
  <1>15. CASE SaveTurn(k)
    BY <1>15 DEF SaveTurn, MarkSession
  <1>16. CASE Raise(k)
    BY <1>16 DEF Raise
  <1>17. CASE FailTurn(k)
    BY <1>17 DEF FailTurn, MarkSession
  <1>18. CASE CancelTurn(k)
    BY <1>18 DEF CancelTurn, MarkSession
  <1>18a. CASE BreakOff(k)
    BY <1>18a DEF BreakOff, Gone
  <1>19. CASE CloseRequest(k)
    BY <1>19 DEF CloseRequest
  <1>20. CASE CloseRun(k)
    BY <1>20 DEF CloseRun, Gone
  <1> QED
    BY ONLY Process(k), <1>1, <1>2, <1>3, <1>4, <1>5, <1>6, <1>7, <1>8, <1>9, <1>10,
       <1>11, <1>12, <1>13, <1>14, <1>15, <1>16, <1>17, <1>18, <1>18a, <1>19, <1>20 DEF Process

(* A step that adds nothing to what is under way keeps the budget. *)
LEMMA BudgetKept ==
    ASSUME TypeOK, TypeOK', Budget, boots' = boots, answers' = answers, doubled' = doubled,
           \A m \in Requests : submit[m] = "idle" => submit'[m] = "idle",
           \A k \in Tasks : pc'[k] \in CanAnswer => pc[k] \in CanAnswer,
           service' = "connected" => service = "connected",
           \A m \in Requests : run'[m] = "none" <=> run[m] = "none"
    PROVE  Budget'
  <1> SUFFICES ASSUME NEW m \in Requests
               PROVE  answers'[m] + Submits(m)' + Runs(m)' + Resumes(m)' + Listable(m)'
                          <= boots' + One(m \in doubled')
    BY DEF Budget, One
  <1>1. answers[m] + Submits(m) + Runs(m) + Resumes(m) + Listable(m) <= boots + One(m \in doubled)
    BY DEF Budget
  <1>2. Submits(m)' \in {0, 1} /\ Submits(m) \in {0, 1} /\ Submits(m)' <= Submits(m)
    BY DEF Submits, One
  <1>3. Runs(m)' \in {0, 1} /\ Runs(m) \in {0, 1} /\ Runs(m)' <= Runs(m)
    <2>1. pc'[<<m, "submitted">>] \in CanAnswer => pc[<<m, "submitted">>] \in CanAnswer
      BY TaskFacts
    <2> QED BY ONLY <2>1 DEF Runs, One
  <1>4. Resumes(m)' \in {0, 1} /\ Resumes(m) \in {0, 1} /\ Resumes(m)' <= Resumes(m)
    <2>1. pc'[<<m, "resumed">>] \in CanAnswer => pc[<<m, "resumed">>] \in CanAnswer
      BY TaskFacts
    <2> QED BY ONLY <2>1 DEF Resumes, One
  <1>5. Listable(m)' \in {0, 1} /\ Listable(m) \in {0, 1} /\ Listable(m)' <= Listable(m)
    BY DEF Listable, One
  <1>6. answers'[m] = answers[m] /\ answers[m] \in Nat /\ boots' = boots /\ boots \in Nat
        /\ One(m \in doubled') = One(m \in doubled) /\ One(m \in doubled) \in {0, 1}
    BY DEF TypeOK, One
  <1> QED BY ONLY <1>1, <1>2, <1>3, <1>4, <1>5, <1>6

(* Nor does such a step make a second task. *)
LEMMA OneTaskKept ==
    ASSUME TypeOK, OneTask, doubled' = doubled,
           \A m \in Requests : submit[m] = "idle" => submit'[m] = "idle",
           \A k \in Tasks : pc[k] = "absent" => pc'[k] = "absent",
           service' = "connected" => service = "connected",
           \A m \in Requests : run'[m] = "none" <=> run[m] = "none"
    PROVE  OneTask'
  BY TaskFacts DEF OneTask, TypeOK

(* LifeInv is inductive relative to TypeOK and ClaimInv.                         *)
LEMMA LifeStep ==
    TypeOK /\ TypeOK' /\ ClaimInv /\ LifeInv /\ [Next]_vars => LifeInv'
  <1> SUFFICES ASSUME TypeOK, TypeOK', ClaimInv, LifeInv, [Next]_vars PROVE LifeInv'
    OBVIOUS
  <1> USE DEF rows, life, memory, table, stopVars, past
  <1>a. Budget /\ Unused /\ OneTask /\ DoubledHasRow /\ Quiet
    BY DEF LifeInv
  <1>q. ASSUME UNCHANGED <<answers, boots, doubled>>,
               \A m \in Requests : submit[m] = "idle" => submit'[m] = "idle",
               \A k \in Tasks : pc'[k] \in CanAnswer => pc[k] \in CanAnswer,
               \A k \in Tasks : pc[k] = "absent" => pc'[k] = "absent",
               \A m \in Requests : run'[m] = "none" <=> run[m] = "none",
               \A m \in Requests : request'[m] = "none" => request[m] = "none",
               service' = service \/ (service' \notin {"down", "connected"} /\ service # "down")
        PROVE  LifeInv'
    <2>1. Budget'
      BY ONLY <1>q, <1>a, BudgetKept, TypeOK, TypeOK'
    <2>2. OneTask'
      BY ONLY <1>q, <1>a, OneTaskKept, TypeOK
    <2>3. Unused' /\ DoubledHasRow' /\ Quiet'
      BY ONLY <1>q, <1>a, TypeOK DEF TypeOK, Unused, DoubledHasRow, Quiet
    <2> QED BY <2>1, <2>2, <2>3 DEF LifeInv
  <1>1. ASSUME NEW m \in Requests, Refuse(m) PROVE LifeInv'
    BY <1>1, <1>q DEF Refuse, TypeOK
  <1>2. ASSUME NEW m \in Requests, Claim(m) PROVE LifeInv'
    <2>1. run[m] = "none" /\ submit[m] = "idle"
      BY ONLY <1>2, ClaimInv DEF Claim, ClaimInv, Untouched
    <2>2. pc[<<m, "submitted">>] = "absent" /\ pc[<<m, "resumed">>] = "absent"
      BY ONLY <2>1, ClaimInv, TaskFacts DEF ClaimInv, TaskHasRow, Req
    <2>3. answers[m] = 0 /\ boots > 0 /\ service # "down"
      BY <1>2, <1>a DEF Claim, Accepting, Unused, Quiet
    <2>4. UNCHANGED <<answers, boots, doubled, pc, run, service>>
      BY <1>2 DEF Claim
    <2>5. \A n \in Requests : n # m => submit'[n] = submit[n] /\ request'[n] = request[n]
      BY <1>2 DEF Claim, TypeOK
    <2>6. request'[m] = "queued"
      BY <1>2 DEF Claim, TypeOK
    <2>7. Budget'
      <3> SUFFICES ASSUME NEW n \in Requests
                   PROVE  answers'[n] + Submits(n)' + Runs(n)' + Resumes(n)' + Listable(n)'
                              <= boots' + One(n \in doubled')
        BY DEF Budget, One
      <3>1. CASE n # m
        BY <3>1, <1>a, <2>4, <2>5 DEF Budget, Submits, Runs, Resumes, Listable, One
      <3>2. CASE n = m
        <4>1. Runs(m)' = 0 /\ Resumes(m)' = 0 /\ Listable(m)' = 0 /\ Submits(m)' \in {0, 1}
              /\ One(m \in doubled') \in {0, 1}
          BY <2>1, <2>2, <2>4 DEF Runs, Resumes, Listable, Submits, One, CanAnswer
        <4>2. answers'[m] = 0 /\ boots' = boots /\ boots \in Nat
          BY <2>3, <2>4 DEF TypeOK
        <4> QED BY ONLY <3>2, <4>1, <4>2, <2>3
      <3> QED BY <3>1, <3>2
    <2>8. OneTask'
      BY <1>a, <2>1, <2>2, <2>4, <2>5 DEF OneTask
    <2>9. Unused' /\ DoubledHasRow' /\ Quiet'
      BY <1>a, <2>3, <2>4, <2>5, <2>6 DEF Unused, DoubledHasRow, Quiet
    <2> QED BY <2>7, <2>8, <2>9 DEF LifeInv
  <1>3. ASSUME NEW m \in Requests, FindAnalysis(m) PROVE LifeInv'
    BY <1>3, <1>q DEF FindAnalysis, AfterLookup, TypeOK
  <1>4. ASSUME NEW m \in Requests, FinishReused(m) PROVE LifeInv'
    BY <1>4, <1>q DEF FinishReused, TypeOK
  <1>5. ASSUME NEW m \in Requests, ReuseRaises(m) PROVE LifeInv'
    BY <1>5, <1>q DEF ReuseRaises, TypeOK
  <1>6. ASSUME NEW m \in Requests, NEW from \in SubmitStage \ {"idle"}, NEW to \in SubmitStage,
               Save(m, from, to)
        PROVE  LifeInv'
    <2>1. UNCHANGED <<answers, boots, pc, request, service>>
      BY <1>6 DEF Save
    <2>2. submit[m] # "idle" /\ \A n \in Requests : n # m => submit'[n] = submit[n]
                                                       /\ run'[n] = run[n]
      BY <1>6 DEF Save, TypeOK
    <2>3. /\ \A n \in Requests : n # m => (n \in doubled' <=> n \in doubled)
          /\ m \in doubled => m \in doubled'
          /\ service = "connected" => m \in doubled'
      BY <1>6 DEF Save
    <2>4. Budget'
      <3> SUFFICES ASSUME NEW n \in Requests
                   PROVE  answers'[n] + Submits(n)' + Runs(n)' + Resumes(n)' + Listable(n)'
                              <= boots' + One(n \in doubled')
        BY DEF Budget, One
      <3>0. answers[n] + Submits(n) + Runs(n) + Resumes(n) + Listable(n) <= boots + One(n \in doubled)
        BY <1>a DEF Budget
      <3>1. Runs(n)' = Runs(n) /\ Resumes(n)' = Resumes(n) /\ answers'[n] = answers[n] /\ boots' = boots
        BY <2>1 DEF Runs, Resumes
      <3>2. CASE n # m
        <4>1. Submits(n)' = Submits(n) /\ Listable(n)' = Listable(n)
              /\ One(n \in doubled') = One(n \in doubled)
          BY <3>2, <2>1, <2>2, <2>3 DEF Submits, Listable, One
        <4> QED BY ONLY <3>0, <3>1, <4>1
      <3>3. CASE n = m
        <4>1. Submits(n)' <= Submits(n) /\ Submits(n)' \in {0, 1} /\ Submits(n) \in {0, 1}
          BY <3>3, <2>2 DEF Submits, One
        <4>2. Runs(n) \in {0, 1} /\ Resumes(n) \in {0, 1} /\ answers[n] \in Nat /\ boots \in Nat
          BY DEF Runs, Resumes, One, TypeOK
        <4>3. CASE service # "connected"
          <5>1. Listable(n)' = 0 /\ Listable(n) = 0
            BY <4>3, <2>1 DEF Listable, One
          <5>2. One(n \in doubled) <= One(n \in doubled') /\ One(n \in doubled) \in {0, 1}
                /\ One(n \in doubled') \in {0, 1}
            BY <3>3, <2>3 DEF One
          <5> QED BY ONLY <3>0, <3>1, <4>1, <4>2, <5>1, <5>2
        <4>5. CASE service = "connected" /\ m \notin doubled
          <5>1. One(n \in doubled) = 0 /\ One(n \in doubled') = 1
            BY <3>3, <4>5, <2>3 DEF One
          <5>2. Listable(n)' \in {0, 1} /\ Listable(n) \in {0, 1}
            BY DEF Listable, One
          <5> QED BY ONLY <3>0, <3>1, <4>1, <4>2, <5>1, <5>2
        <4>6. CASE service = "connected" /\ m \in doubled
          <5>1. One(n \in doubled) = 1 /\ One(n \in doubled') = 1
            BY <3>3, <4>6, <2>3 DEF One
          <5>2. Listable(n)' \in {0, 1} /\ Listable(n) = 1
            BY <1>a, <3>3, <4>6 DEF Listable, One, DoubledHasRow
          <5> QED BY ONLY <3>0, <3>1, <4>1, <4>2, <5>1, <5>2
        <4> QED BY <4>3, <4>5, <4>6
      <3> QED BY <3>2, <3>3
    <2>5. OneTask'
      BY <1>a, <2>1, <2>2, <2>3 DEF OneTask
    <2>6. Unused' /\ Quiet'
      BY <1>a, <1>6, <2>1, <2>2 DEF Unused, Quiet
    <2>7. DoubledHasRow'
      BY <1>a, <1>6, <2>2, <2>3 DEF DoubledHasRow, Save, TypeOK
    <2> QED BY <2>4, <2>5, <2>6, <2>7 DEF LifeInv
  <1>8. ASSUME NEW m \in Requests, Steer(m) PROVE LifeInv'
    BY <1>8, <1>q DEF Steer, Steerable, TypeOK
  <1>8a. ASSUME NEW m \in Requests, SteerRaises(m) PROVE LifeInv'
    BY <1>8a, <1>q DEF SteerRaises, Steerable, TypeOK
  <1>9. ASSUME NEW m \in Requests, FinishSteered(m) PROVE LifeInv'
    BY <1>9, <1>q DEF FinishSteered, TypeOK
  <1>10. ASSUME NEW m \in Requests, MarkSteered(m) PROVE LifeInv'
    <2>1. run[m] # "none"
      BY ONLY <1>10, ClaimInv DEF MarkSteered, ClaimInv, StageTellsRow
    <2> QED BY <1>10, <2>1, <1>q DEF MarkSteered, TypeOK
  <1>12. ASSUME NEW m \in Requests, Launch(m) PROVE LifeInv'
    <2>1. UNCHANGED <<answers, boots, doubled, run, request, service>>
      BY <1>12 DEF Launch
    <2>2. submit[m] # "idle" /\ submit'[m] = "idle"
          /\ \A n \in Requests : n # m => submit'[n] = submit[n]
      BY <1>12 DEF Launch, TypeOK
    <2>3. pc[<<m, "submitted">>] = "absent" /\ run[m] # "none"
      BY ONLY <1>12, ClaimInv DEF Launch, ClaimInv, StageTellsRow
    <2>4. \A n \in Requests : /\ pc'[<<n, "resumed">>] = pc[<<n, "resumed">>]
                              /\ n # m => pc'[<<n, "submitted">>] = pc[<<n, "submitted">>]
      BY <1>12, TaskFacts DEF Launch, TypeOK
    <2>5. Budget'
      <3> SUFFICES ASSUME NEW n \in Requests
                   PROVE  answers'[n] + Submits(n)' + Runs(n)' + Resumes(n)' + Listable(n)'
                              <= boots' + One(n \in doubled')
        BY DEF Budget, One
      <3>0. answers[n] + Submits(n) + Runs(n) + Resumes(n) + Listable(n) <= boots + One(n \in doubled)
        BY <1>a DEF Budget
      <3>1. Resumes(n)' = Resumes(n) /\ Listable(n)' = Listable(n)
            /\ answers'[n] = answers[n] /\ boots' = boots /\ One(n \in doubled') = One(n \in doubled)
        BY <2>1, <2>4 DEF Resumes, Listable
      <3>2. CASE n # m
        <4>1. Submits(n)' = Submits(n) /\ Runs(n)' = Runs(n)
          BY <3>2, <2>2, <2>4 DEF Submits, Runs
        <4> QED BY ONLY <3>0, <3>1, <4>1
      <3>3. CASE n = m
        <4>1. Submits(n)' = 0 /\ Submits(n) = 1 /\ Runs(n) = 0 /\ Runs(n)' \in {0, 1}
          BY <3>3, <2>2, <2>3 DEF Submits, Runs, One, CanAnswer
        <4>2. Resumes(n) \in {0, 1} /\ Listable(n) \in {0, 1} /\ answers[n] \in Nat /\ boots \in Nat
              /\ One(n \in doubled) \in {0, 1}
          BY DEF Resumes, Listable, One, TypeOK
        <4> QED BY ONLY <3>0, <3>1, <4>1, <4>2
      <3> QED BY <3>2, <3>3
    <2>6. OneTask'
      BY ONLY <1>a, <2>1, <2>2, <2>3, <2>4, TaskFacts, ZenonT(40) DEF OneTask
    <2>7. Unused' /\ DoubledHasRow'
      BY <1>a, <2>1 DEF Unused, DoubledHasRow
    <2>8. Quiet'
      BY <1>a, <2>1, <2>2 DEF Quiet
    <2> QED BY <2>5, <2>6, <2>7, <2>8 DEF LifeInv
  <1>13. ASSUME NEW k \in Tasks, Process(k) PROVE LifeInv'
    <2>1. /\ pc[k] # "absent" /\ pc'[k] # "absent"
          /\ \A j \in Tasks : j # k => pc'[j] = pc[j]
          /\ UNCHANGED <<submit, service, boots, doubled>>
      BY ONLY <1>13, ProcessStep, TypeOK DEF life
    <2>2. run[Req(k)] # "none" /\ request[Req(k)] # "none"
      BY ONLY <2>1, ClaimInv, TaskFacts DEF ClaimInv, TaskHasRow, Untouched
    <2>3. \A m \in Requests : /\ run'[m] = "none" <=> run[m] = "none"
                              /\ request'[m] = "none" => request[m] = "none"
      BY ONLY <2>2, <1>13, ProcessStep, TypeOK, TaskFacts DEF Settled
    <2>4. service # "down"
      BY <1>a, <2>1 DEF Quiet
    <2>5. CASE answers' = answers
      <3>1. pc'[k] \in CanAnswer => pc[k] \in CanAnswer
        BY ONLY <1>13, AnswerStep, TypeOK
      <3>2. \A j \in Tasks : /\ pc'[j] \in CanAnswer => pc[j] \in CanAnswer
                             /\ pc[j] = "absent" => pc'[j] = "absent"
        BY ONLY <2>1, <3>1
      <3> QED BY ONLY <1>q, <2>1, <2>3, <2>5, <3>2
    <2>6. CASE /\ pc[k] = "publishing" /\ pc'[k] = "saving"
               /\ answers' = [answers EXCEPT ![Req(k)] = @ + 1]
      <3>1. Budget'
        <4> SUFFICES ASSUME NEW n \in Requests
                     PROVE  answers'[n] + Submits(n)' + Runs(n)' + Resumes(n)' + Listable(n)'
                                <= boots' + One(n \in doubled')
          BY DEF Budget, One
        <4>0. answers[n] + Submits(n) + Runs(n) + Resumes(n) + Listable(n) <= boots + One(n \in doubled)
          BY <1>a DEF Budget
        <4>1. Submits(n)' = Submits(n) /\ Listable(n)' = Listable(n)
              /\ boots' = boots /\ One(n \in doubled') = One(n \in doubled)
          BY <2>1, <2>3 DEF Submits, Listable
        <4>2. Submits(n) \in {0, 1} /\ Listable(n) \in {0, 1} /\ Runs(n) \in {0, 1}
              /\ Resumes(n) \in {0, 1} /\ answers[n] \in Nat /\ boots \in Nat
              /\ One(n \in doubled) \in {0, 1}
          BY DEF Submits, Listable, Runs, Resumes, One, TypeOK
        <4>3. CASE n # Req(k)
          <5>1. k # <<n, "submitted">> /\ k # <<n, "resumed">>
            BY <4>3 DEF Req
          <5>2. Runs(n)' = Runs(n) /\ Resumes(n)' = Resumes(n)
            BY <5>1, <2>1, TaskFacts DEF Runs, Resumes
          <5>3. answers'[n] = answers[n]
            BY <4>3, <2>6 DEF TypeOK
          <5> QED BY ONLY <4>0, <4>1, <5>2, <5>3
        <4>4. CASE n = Req(k) /\ k = <<n, "submitted">>
          <5>1. Runs(n) = 1 /\ Runs(n)' = 0
            BY <4>4, <2>6 DEF Runs, One, CanAnswer
          <5>2. k # <<n, "resumed">>
            BY <4>4
          <5>3. Resumes(n)' = Resumes(n)
            BY <5>2, <2>1, TaskFacts DEF Resumes
          <5>4. answers'[n] = answers[n] + 1
            BY <4>4, <2>6 DEF TypeOK
          <5> QED BY ONLY <4>0, <4>1, <4>2, <5>1, <5>3, <5>4
        <4>5. CASE n = Req(k) /\ k = <<n, "resumed">>
          <5>1. Resumes(n) = 1 /\ Resumes(n)' = 0
            BY <4>5, <2>6 DEF Resumes, One, CanAnswer
          <5>2. k # <<n, "submitted">>
            BY <4>5
          <5>3. Runs(n)' = Runs(n)
            BY <5>2, <2>1, TaskFacts DEF Runs
          <5>4. answers'[n] = answers[n] + 1
            BY <4>5, <2>6 DEF TypeOK
          <5> QED BY ONLY <4>0, <4>1, <4>2, <5>1, <5>3, <5>4
        <4> QED BY <4>3, <4>4, <4>5, TaskFacts
      <3>2. OneTask'
        <4>1. \A j \in Tasks : pc[j] = "absent" => pc'[j] = "absent"
          BY <2>1
        <4> QED BY ONLY <4>1, <2>1, <2>3, <1>a, OneTaskKept, TypeOK
      <3>3. Unused'
        BY <1>a, <2>2, <2>3, <2>6, TaskFacts DEF Unused, TypeOK
      <3>4. DoubledHasRow' /\ Quiet'
        BY ONLY <1>a, <2>1, <2>3, <2>4, TypeOK DEF TypeOK, DoubledHasRow, Quiet
      <3> QED BY <3>1, <3>2, <3>3, <3>4 DEF LifeInv
    <2> QED BY ONLY <1>13, AnswerStep, TypeOK, <2>5, <2>6
  <1>c. ASSUME NEW S \in SUBSET {k \in Tasks : Working(k)}, CancelTasks(S)
        PROVE  \A k \in Tasks : /\ pc'[k] \in CanAnswer => pc[k] \in CanAnswer
                                /\ pc[k] = "absent" => pc'[k] = "absent"
    BY ONLY <1>c, CancelStep, TypeOK DEF CanAnswer
  <1>14. ASSUME NEW s \in Stops, NEW t \in Threads, Stop(s, t) PROVE LifeInv'
    <2>1. \A k \in Tasks : /\ pc'[k] \in CanAnswer => pc[k] \in CanAnswer
                           /\ pc[k] = "absent" => pc'[k] = "absent"
      BY <1>14, <1>c DEF Stop
    <2> QED BY <1>14, <2>1, <1>q DEF Stop
  <1>15. ASSUME NEW s \in Stops, StopEnd(s) PROVE LifeInv'
    BY <1>15, <1>q DEF StopEnd
  <1>16. ASSUME NEW t \in Threads, CloseSession(t) PROVE LifeInv'
    BY <1>16, <1>q DEF CloseSession
  <1>17. ASSUME NEW t \in Threads, TimePasses(t) PROVE LifeInv'
    BY <1>17, <1>q DEF TimePasses
  <1>18. ASSUME Boot PROVE LifeInv'
    <2>1. /\ service = "down" /\ service' = "connected" /\ boots' = boots + 1
          /\ UNCHANGED <<answers, doubled, run, submit, pc>>
          /\ \A m \in Requests : request'[m] = "none" => request[m] = "none"
      BY <1>18 DEF Boot
    <2>2. Budget'
      <3> SUFFICES ASSUME NEW n \in Requests
                   PROVE  answers'[n] + Submits(n)' + Runs(n)' + Resumes(n)' + Listable(n)'
                              <= boots' + One(n \in doubled')
        BY DEF Budget, One
      <3>1. answers[n] + Submits(n) + Runs(n) + Resumes(n) + Listable(n) <= boots + One(n \in doubled)
        BY <1>a DEF Budget
      <3>2. Submits(n)' = Submits(n) /\ Runs(n)' = Runs(n) /\ Resumes(n)' = Resumes(n)
            /\ answers'[n] = answers[n] /\ One(n \in doubled') = One(n \in doubled)
        BY <2>1 DEF Submits, Runs, Resumes
      <3>3. Submits(n) \in {0, 1} /\ Runs(n) \in {0, 1} /\ Resumes(n) \in {0, 1}
            /\ answers[n] \in Nat /\ boots \in Nat /\ One(n \in doubled) \in {0, 1}
            /\ Listable(n) = 0 /\ Listable(n)' \in {0, 1}
        BY <2>1 DEF Submits, Runs, Resumes, Listable, One, TypeOK
      <3> QED BY ONLY <2>1, <3>1, <3>2, <3>3
    <2>3. Unused' /\ DoubledHasRow'
      BY <1>a, <2>1 DEF Unused, DoubledHasRow
    <2>4. OneTask'
      BY <1>a, <2>1, TaskFacts DEF OneTask, Quiet
    <2>5. Quiet'
      BY <2>1 DEF Quiet, TypeOK
    <2> QED BY <2>2, <2>3, <2>4, <2>5 DEF LifeInv
  <1>19. ASSUME Resume PROVE LifeInv'
    <2>1. /\ service = "connected" /\ service' = "serving"
          /\ UNCHANGED <<answers, boots, doubled, run, request, submit>>
      BY <1>19 DEF Resume
    <2>2. \A n \in Requests :
             /\ pc'[<<n, "submitted">>] = pc[<<n, "submitted">>]
             /\ pc[<<n, "resumed">>] = "absent"
             /\ run[n] = "none" => pc'[<<n, "resumed">>] = "absent"
      BY <1>19, TaskFacts, ClaimInv DEF Resume, ClaimInv, NotResumedYet, Resumable, Req, TypeOK
    <2>3. Budget'
      <3> SUFFICES ASSUME NEW n \in Requests
                   PROVE  answers'[n] + Submits(n)' + Runs(n)' + Resumes(n)' + Listable(n)'
                              <= boots' + One(n \in doubled')
        BY DEF Budget, One
      <3>1. answers[n] + Submits(n) + Runs(n) + Resumes(n) + Listable(n) <= boots + One(n \in doubled)
        BY <1>a DEF Budget
      <3>2. Submits(n)' = Submits(n) /\ Runs(n)' = Runs(n) /\ boots' = boots
            /\ answers'[n] = answers[n] /\ One(n \in doubled') = One(n \in doubled)
        BY <2>1, <2>2 DEF Submits, Runs
      <3>3. Submits(n) \in {0, 1} /\ Runs(n) \in {0, 1} /\ Resumes(n) = 0
            /\ answers[n] \in Nat /\ boots \in Nat /\ One(n \in doubled) \in {0, 1}
        <4>1. Resumes(n) = 0
          BY ONLY <2>2 DEF Resumes, One, CanAnswer
        <4> QED BY <4>1 DEF Submits, Runs, One, TypeOK
      <3>4. Listable(n)' = 0 /\ Listable(n) \in {0, 1} /\ Resumes(n)' \in {0, 1}
            /\ Resumes(n)' <= Listable(n)
        <4>1. Listable(n)' = 0 /\ Listable(n) = One(run[n] # "none")
          BY ONLY <2>1 DEF Listable, One
        <4>2. run[n] = "none" => Resumes(n)' = 0
          BY ONLY <2>2 DEF Resumes, One, CanAnswer
        <4>3. Resumes(n)' \in {0, 1}
          BY ONLY DEF Resumes, One
        <4> QED BY ONLY <4>1, <4>2, <4>3 DEF One
      <3> QED BY ONLY <3>1, <3>2, <3>3, <3>4
    <2>4. OneTask'
      BY <1>a, <2>1, <2>2 DEF OneTask
    <2>5. Unused' /\ DoubledHasRow' /\ Quiet'
      BY <1>a, <2>1 DEF Unused, DoubledHasRow, Quiet
    <2> QED BY <2>3, <2>4, <2>5 DEF LifeInv
  <1>20. ASSUME Shutdown PROVE LifeInv'
    <2>1. \A k \in Tasks : /\ pc'[k] \in CanAnswer => pc[k] \in CanAnswer
                           /\ pc[k] = "absent" => pc'[k] = "absent"
      BY <1>20, <1>c DEF Shutdown
    <2> QED BY <1>20, <2>1, <1>q DEF Shutdown
  <1>21. ASSUME Exit PROVE LifeInv'
    <2>1. \A k \in Tasks : /\ pc'[k] \in CanAnswer => pc[k] \in CanAnswer
                           /\ pc[k] = "absent" => pc'[k] = "absent"
      BY <1>21, <1>c DEF Exit
    <2> QED BY <1>21, <2>1, <1>q DEF Exit
  <1>22. ASSUME Forget, UNCHANGED <<answers, boots, doubled, run, request>>, service # "down"
         PROVE  LifeInv'
    <2>1. /\ service' = "down" /\ \A m \in Requests : submit'[m] = "idle"
          /\ \A k \in Tasks : pc'[k] = "absent"
      BY <1>22 DEF Forget
    <2>2. Budget'
      BY ONLY <1>22, <2>1, <1>a, BudgetKept, TypeOK, TypeOK' DEF CanAnswer
    <2>3. OneTask'
      BY <2>1, TaskFacts DEF OneTask
    <2>4. Unused' /\ DoubledHasRow' /\ Quiet'
      BY <1>a, <1>22, <2>1 DEF Unused, DoubledHasRow, Quiet
    <2> QED BY <2>2, <2>3, <2>4 DEF LifeInv
  <1>23. ASSUME Halt \/ Crash PROVE LifeInv'
    BY <1>22, <1>23 DEF Halt, Crash, Forget
  <1>24. ASSUME NEW m \in Requests, Submit(m) PROVE LifeInv'
    BY <1>24, <1>3, <1>4, <1>5, <1>6, <1>8, <1>8a, <1>9, <1>10, <1>12
    DEF Submit, SaveFiles, Downloaded, SaveRun, SubmitStage
  <1>25. CASE UNCHANGED vars
    BY <1>25, <1>q DEF vars
  <1> QED
    BY ONLY [Next]_vars, <1>1, <1>2, <1>24, <1>13, <1>14, <1>15, <1>16, <1>17, <1>18,
       <1>19, <1>20, <1>21, <1>23, <1>25 DEF Next
------------------------------------------------------------------------------
(* The theorems.                                                                *)
IInv == TypeOK /\ ClaimInv /\ ControlsInv /\ ReasonInv

(* The first state satisfies the inductive invariant.                           *)
LEMMA InitIInv == Init => IInv
  <1> SUFFICES ASSUME Init PROVE IInv
    OBVIOUS
  <1> USE TaskFacts DEF Init
  <1>1. TypeOK
    BY BootsAssumption DEF TypeOK, SessionStatus, RequestStatus, RunStatus, SubmitStage,
       Stages, Settled, Callers
  <1>2. ClaimInv
    BY DEF ClaimInv, Untouched, TaskHasRow, StageTellsRow, SteeredHasNoRow, NotResumedYet,
       QuietOutside, Accounted
  <1>3. ControlsInv
    BY DEF ControlsInv, ControlInv, OutcomeUnset, InLock
  <1>4. ReasonInv
    BY DEF ReasonInv, PublishedWhenSaving, StoppedWhenCancelled, StoppedWhenManual,
       SettledForAReason, ManualIsOwned
  <1> QED BY <1>1, <1>2, <1>3, <1>4 DEF IInv

(* The inductive invariant the other theorems rest on.                          *)
LEMMA Inductive == Spec => []IInv
  <1>1. IInv /\ [Next]_vars => IInv'
    <2> SUFFICES ASSUME IInv, [Next]_vars PROVE IInv'
      OBVIOUS
    <2>1. TypeOK'
      BY TypeStep DEF IInv
    <2> QED BY <2>1, ClaimStep, ControlsStep, ReasonStep DEF IInv
  <1> QED BY InitIInv, <1>1, PTL DEF Spec

(* A refused message has no row and no task, so nothing can run it in any life: *)
(* the refusal is written in the step that would have claimed it, and a task    *)
(* always has a durable row behind it.                                          *)
THEOREM RefusedNeverRuns == Spec => []ExpiredNeverRuns
  <1>1. IInv => ExpiredNeverRuns
    BY DEF IInv, ClaimInv, Untouched, TaskHasRow, ExpiredNeverRuns
  <1> QED BY Inductive, <1>1, PTL

(* Steering text without files never had a durable row, so no life runs it.     *)
THEOREM GuidanceNeverRuns == Spec => []SteeredIsNeverRun
  <1>1. IInv => SteeredIsNeverRun
    BY DEF IInv, ClaimInv, SteeredHasNoRow, TaskHasRow, SteeredIsNeverRun
  <1> QED BY Inductive, <1>1, PTL

(* Every claim is accounted for, whatever crashes.                              *)
THEOREM ClaimsAccounted == Spec => []Accounted
  <1>1. IInv => Accounted
    BY DEF IInv, ClaimInv
  <1> QED BY Inductive, <1>1, PTL

(* A turn that has its result has no registered control.                        *)
THEOREM AnswersAreFinal == Spec => []AnsweredTurnHasNoControl
  <1>1. IInv => AnsweredTurnHasNoControl
    BY DEF IInv, ControlsInv, ControlInv, MayControl, ControlStages, AnsweredTurnHasNoControl
  <1> QED BY Inductive, <1>1, PTL

(* Completed means published, cancelled means stopped.                          *)
THEOREM OutcomesHaveReasons == Spec => []SettledForAReason
  <1>1. IInv => SettledForAReason
    BY DEF IInv, ReasonInv
  <1> QED BY Inductive, <1>1, PTL

(* The mark of a stop is there only while that stop waits.                      *)
THEOREM MarksAreOwned == Spec => []ManualIsOwned
  <1>1. IInv => ManualIsOwned
    BY DEF IInv, ReasonInv
  <1> QED BY Inductive, <1>1, PTL

(* Only a task of the thread takes a session out of 'expired' or 'closed': the  *)
(* only writes of another status are those of a turn, and a start of the process *)
(* changes only running sessions.                                               *)
THEOREM NoNewMessageReopens == Spec => ReopenedOnlyInFlight
  <1>1. ASSUME TypeOK, [Next]_vars
        PROVE  [\A t \in Threads :
                   session[t] \in {"expired", "closed"} /\ session'[t] \notin {"expired", "closed"}
                       => \E k \in Tasks : Home(k) = t /\ Working(k)]_vars
    <2> SUFFICES ASSUME NEW t \in Threads, session[t] \in {"expired", "closed"},
                        session'[t] \notin {"expired", "closed"}
                 PROVE  \E k \in Tasks : Home(k) = t /\ Working(k)
      OBVIOUS
    <2> USE TypeOK, TaskFacts DEF TypeOK, rows, life, memory, table, stopVars, past
    <2>1. ASSUME NEW k \in Tasks, Process(k) PROVE Home(k) = t /\ Working(k)
      <3>1. session' = session \/ \E v : session' = [session EXCEPT ![Home(k)] = v]
        BY ONLY <2>1, TypeOK DEF Process, Begin, MarkRunning, Acquire, Load, Ignore, Reject,
           OpenSession, Admit, StartTurn, Equip, TurnEnds, Recover, Recovered, Publish, SaveTurn,
           Raise, FailTurn, CancelTurn, BreakOff, CloseRequest, CloseRun, MarkSession, rows
      <3>2. Working(k)
        BY ONLY <2>1, ProcessStep, TypeOK DEF Working
      <3> QED BY <3>1, <3>2
    <2>2. ASSUME NEW m \in Requests PROVE ~Refuse(m) /\ ~Claim(m) /\ ~Submit(m)
      BY DEF Refuse, Claim, Submit, FindAnalysis, FinishReused, ReuseRaises, SaveFiles, Downloaded,
         Save, Steer, SteerRaises, FinishSteered, MarkSteered, SaveRun, Launch
    <2>3. ASSUME NEW s \in Stops PROVE ~StopEnd(s) /\ \A u \in Threads : ~Stop(s, u)
      BY DEF StopEnd, Stop
    <2>4. ASSUME NEW u \in Threads PROVE ~CloseSession(u) /\ ~TimePasses(u)
      BY DEF CloseSession, TimePasses
    <2>5. ~Boot /\ ~Resume /\ ~Shutdown /\ ~Exit /\ ~Halt /\ ~Crash
      BY DEF Boot, Resume, Shutdown, Exit, Halt, Crash, Forget
    <2>6. ~UNCHANGED vars
      BY DEF vars
    <2> QED BY ONLY [Next]_vars, <2>1, <2>2, <2>3, <2>4, <2>5, <2>6 DEF Next
  <1> QED BY TypeCorrect, <1>1, PTL DEF Spec, ReopenedOnlyInFlight

(* The invariant behind the two theorems about the tasks and answers of a request. *)
LEMMA LifeInductive == Spec => []LifeInv
  <1>1. Init => LifeInv
    <2> SUFFICES ASSUME Init PROVE LifeInv
      OBVIOUS
    <2>1. ASSUME NEW m \in Requests
          PROVE  /\ answers[m] = 0 /\ boots = 0 /\ Submits(m) = 0 /\ Runs(m) = 0 /\ Resumes(m) = 0
                 /\ Listable(m) = 0 /\ One(m \in doubled) = 0
      BY TaskFacts DEF Init, Submits, Runs, Resumes, Listable, One, CanAnswer
    <2>2. Budget
      <3> SUFFICES ASSUME NEW m \in Requests
                   PROVE  answers[m] + Submits(m) + Runs(m) + Resumes(m) + Listable(m)
                              <= boots + One(m \in doubled)
        BY DEF Budget
      <3> QED BY ONLY <2>1, m \in Requests
    <2> QED BY <2>2, TaskFacts DEF Init, LifeInv, Unused, OneTask, DoubledHasRow, Quiet
  <1>2. IInv /\ LifeInv /\ [Next]_vars => LifeInv'
    BY LifeStep, TypeStep DEF IInv
  <1> QED BY Inductive, <1>1, <1>2, PTL DEF Spec

(* A life answers a request once, and one life may answer it twice if its row was  *)
(* saved before the restart had listed its rows; whoever stops or crashes.         *)
THEOREM AtMostOneAnswer == Spec => []OneAnswerPerLife
  <1>1. IInv /\ LifeInv => OneAnswerPerLife
    <2> SUFFICES ASSUME TypeOK, Budget, NEW m \in Requests
                 PROVE  answers[m] <= boots + (IF m \in doubled THEN 1 ELSE 0)
      BY DEF IInv, LifeInv, OneAnswerPerLife
    <2>1. answers[m] + Submits(m) + Runs(m) + Resumes(m) + Listable(m) <= boots + One(m \in doubled)
      BY DEF Budget
    <2>2. Submits(m) \in {0, 1} /\ Listable(m) \in {0, 1} /\ Runs(m) \in {0, 1}
          /\ Resumes(m) \in {0, 1} /\ answers[m] \in Nat /\ boots \in Nat
          /\ One(m \in doubled) = IF m \in doubled THEN 1 ELSE 0
      BY DEF Submits, Listable, Runs, Resumes, One, TypeOK
    <2> QED BY ONLY <2>1, <2>2
  <1> QED BY Inductive, LifeInductive, <1>1, PTL

(* Only a request whose row was saved before the restart had listed its rows is     *)
(* ever worked on by two tasks.                                                     *)
THEOREM AtMostOneTask == Spec => []OneTaskPerRequest
  <1>1. LifeInv => OneTaskPerRequest
    BY TaskFacts DEF LifeInv, OneTask, OneTaskPerRequest, Working
  <1> QED BY LifeInductive, <1>1, PTL
====
