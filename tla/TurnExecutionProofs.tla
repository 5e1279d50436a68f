------------------------- MODULE TurnExecutionProofs -------------------------
(* What TurnExecution promises for any number of turns, places and retries.     *)
(* The places of the semaphore are counted by PlacesAccounted, which is         *)
(* inductive only together with PhaseInv: a call outside the semaphore is never *)
(* found waiting for a place, and a registered control is that of a live turn   *)
(* which is not at the gate.  KnowInv follows the words of a turn through its   *)
(* conversations.                                                               *)
EXTENDS TurnExecution, FiniteSetTheorems, TLAPS

Live(t) == at[t] \notin Final \cup {"idle"}

PhaseInv ==
    \A t \in Turns :
        /\ Unwrapped(t) => at[t] \in InCall \cup {"gate"}
        /\ t \in Codex => result[t] \notin {"quota", "lost"}
        /\ t \in registered => Live(t) /\ at[t] # "gate"

IInv == Shaped /\ permits \in Nat /\ PlacesAccounted /\ PhaseInv

(* Every step keeps the shape of the state.                                     *)
LEMMA ShapedStep == Shaped /\ [Next]_vars => Shaped'
  <1> SUFFICES ASSUME Shaped, [Next]_vars PROVE Shaped'
    OBVIOUS
  <1> USE TurnsAssumption, NumbersAssumption, FailuresAssumption
        DEF Shaped, Places, Phases, InCall, Final, Errors, Texts, Stopping, Words, Go, Mark,
            control, talk, past
  <1>1. ASSUME NEW t \in Turns, Start(t) PROVE Shaped'
    BY <1>1 DEF Start
  <1>2. ASSUME NEW t \in Turns, Enter(t) PROVE Shaped'
    BY <1>2 DEF Enter
  <1>3. ASSUME NEW t \in Turns, Read(t) PROVE Shaped'
    BY <1>3 DEF Read
  <1>4. ASSUME NEW t \in Turns, Finish(t) PROVE Shaped'
    BY <1>4 DEF Finish, ClaudeEnds, BudgetEnds, CodexEnds
  <1>5. ASSUME NEW t \in Turns, NeverRan(t) PROVE Shaped'
    BY <1>5 DEF NeverRan
  <1>6. ASSUME NEW t \in Turns, Wake(t) PROVE Shaped'
    BY <1>6 DEF Wake
  <1>7. ASSUME NEW t \in Turns, Replace(t) PROVE Shaped'
    BY <1>7 DEF Replace
  <1>8. ASSUME NEW t \in Turns, Retry(t) PROVE Shaped'
    BY <1>8 DEF Retry, Leave
  <1>9. ASSUME NEW t \in Turns, AwaitQuota(t) PROVE Shaped'
    BY <1>9 DEF AwaitQuota, Leave
  <1>10. ASSUME NEW t \in Turns, ResumeSteered(t) PROVE Shaped'
    BY <1>10 DEF ResumeSteered, Prepare, Leave, Unread
  <1>11. ASSUME NEW t \in Turns, FollowUp(t) PROVE Shaped'
    BY <1>11 DEF FollowUp, Prepare, Leave
  <1>12. ASSUME NEW t \in Turns, RecoverCorrection(t) PROVE Shaped'
    BY <1>12 DEF RecoverCorrection, Prepare, Leave
  <1>13. ASSUME NEW t \in Turns, RecoverDeliverable(t) PROVE Shaped'
    BY <1>13 DEF RecoverDeliverable, Prepare, Leave
  <1>14. ASSUME NEW t \in Turns, Salvage(t) PROVE Shaped'
    BY <1>14 DEF Salvage, Prepare, Leave, Unread
  <1>15. ASSUME NEW t \in Turns, ToGate(t) PROVE Shaped'
    BY <1>15 DEF ToGate, Leave
  <1>16. ASSUME NEW t \in Turns, Fail(t) PROVE Shaped'
    BY <1>16 DEF Fail, Ends
  <1>17. ASSUME NEW t \in Turns, Accept(t) PROVE Shaped'
    BY <1>17 DEF Accept, Ends
  <1>18. ASSUME NEW t \in Turns, GateRejects(t) PROVE Shaped'
    <2>1. rounds' \in [Turns -> 0 .. 2]
      BY <1>18 DEF GateRejects
    <2> QED BY <1>18, <2>1 DEF GateRejects, Prepare
  <1>19. ASSUME NEW t \in Turns, GateFails(t) PROVE Shaped'
    BY <1>19 DEF GateFails, Ends
  <1>20. ASSUME NEW t \in Turns, Cancel(t) PROVE Shaped'
    BY <1>20 DEF Cancel, Ends
  <1>21. ASSUME NEW t \in Turns, NEW g \in Guidance, SteerClaude(t, g) PROVE Shaped'
    BY <1>21 DEF SteerClaude
  <1>22. ASSUME NEW t \in Turns, NEW g \in Guidance, SteerCodex(t, g) PROVE Shaped'
    BY <1>22 DEF SteerCodex
  <1> HIDE DEF Shaped
  <1>23. CASE UNCHANGED vars
    BY <1>23 DEF vars, Shaped
  <1> QED
    BY ONLY [Next]_vars, <1>1, <1>2, <1>3, <1>4, <1>5, <1>6, <1>7, <1>8, <1>9,
       <1>10, <1>11,
       <1>12, <1>13, <1>14, <1>15, <1>16, <1>17, <1>18, <1>19, <1>20, <1>21, <1>22, <1>23
       DEF Next, Turn, Settle, Gate, Steer

LEMMA ShapedInit == Init => Shaped
  BY TurnsAssumption, NumbersAssumption DEF Init, Shaped, Places, Phases, InCall, Final, Errors,
     Texts, Stopping, Words

(* A step of one turn that changes the semaphore by what the turn takes or      *)
(* gives back keeps the account of the places.                                  *)
LEMMA Accounted ==
  ASSUME NEW t \in Turns, PlacesAccounted, permits \in Nat, permits' \in Nat,
         \A u \in Turns \ {t} : Holds(u)' <=> Holds(u),
         \/ permits' = permits /\ (Holds(t)' <=> Holds(t))
         \/ permits' = permits + 1 /\ Holds(t) /\ ~Holds(t)'
         \/ permits' = permits - 1 /\ ~Holds(t) /\ Holds(t)'
  PROVE  PlacesAccounted'
  <1> DEFINE H == {u \in Turns : Holds(u)}
  <1>1. IsFiniteSet(H) /\ Cardinality(H) \in Nat
    BY TurnsAssumption, FS_Subset, FS_CardinalityType DEF TurnsAssumption
  <1>2. permits + Cardinality(H) = Permits
    BY DEF PlacesAccounted
  <1>3. SUFFICES permits' + Cardinality(H') = Permits
    BY DEF PlacesAccounted
  <1>4. CASE permits' = permits /\ (Holds(t)' <=> Holds(t))
    <2>1. H' = H
      BY <1>4
    <2> QED BY <1>2, <1>4, <2>1
  <1>5. CASE permits' = permits + 1 /\ Holds(t) /\ ~Holds(t)'
    <2>1. H' = H \ {t} /\ t \in H
      BY <1>5
    <2>2. Cardinality(H') = Cardinality(H) - 1
      BY <1>1, <2>1, FS_RemoveElement
    <2> HIDE DEF H
    <2> QED BY <1>1, <1>2, <1>5, <2>2
  <1>6. CASE permits' = permits - 1 /\ ~Holds(t) /\ Holds(t)'
    <2>1. H' = H \cup {t} /\ t \notin H
      BY <1>6
    <2>2. Cardinality(H') = Cardinality(H) + 1
      BY <1>1, <2>1, FS_AddElement
    <2> HIDE DEF H
    <2> QED BY <1>1, <1>2, <1>6, <2>2
  <1> QED BY <1>4, <1>5, <1>6

(* Every step keeps the account.                                                *)
LEMMA IInvStep == IInv /\ [Next]_vars => IInv'
  <1> SUFFICES ASSUME IInv, [Next]_vars PROVE permits' \in Nat /\ PlacesAccounted' /\ PhaseInv'
    BY ShapedStep DEF IInv
  <1>a. Shaped /\ Shaped' /\ permits \in Nat /\ PlacesAccounted /\ PhaseInv
    BY ShapedStep DEF IInv
  <1> DEFINE
        Step(t) ==
            /\ \A u \in Turns \ {t} :
                  at'[u] = at[u] /\ phase'[u] = phase[u] /\ result'[u] = result[u]
                  /\ (u \in registered' <=> u \in registered)
            /\ permits' \in Nat
            /\ \/ permits' = permits /\ (Holds(t)' <=> Holds(t))
               \/ permits' = permits + 1 /\ Holds(t) /\ ~Holds(t)'
               \/ permits' = permits - 1 /\ ~Holds(t) /\ Holds(t)'
            /\ Unwrapped(t)' => at'[t] \in InCall \cup {"gate"}
            /\ t \in Codex => result'[t] \notin {"quota", "lost"}
            /\ t \in registered' => Live(t)' /\ at'[t] # "gate"
  <1>b. ASSUME NEW t \in Turns, Step(t) PROVE permits' \in Nat /\ PlacesAccounted' /\ PhaseInv'
    <2>1. \A u \in Turns \ {t} : Holds(u)' <=> Holds(u)
      BY <1>b DEF Holds, Unwrapped
    <2>2. PlacesAccounted'
      BY ONLY <1>a, <1>b, <2>1, Accounted
    <2>3. PhaseInv'
      BY <1>a, <1>b DEF PhaseInv, Unwrapped, Live
    <2> QED BY <1>b, <2>2, <2>3
  <1> USE <1>a, TurnsAssumption, NumbersAssumption, FailuresAssumption
        DEF Shaped, PhaseInv, Live, Holds, Unwrapped, Places, Phases, InCall, Final, Errors,
            Texts, Stopping, Go, Mark, Release, Leave, Prepare, control, talk, past
  <1>1. ASSUME NEW t \in Turns, Start(t) PROVE Step(t)
    BY <1>1 DEF Start
  <1>2. ASSUME NEW t \in Turns, Enter(t) PROVE Step(t)
    BY <1>2 DEF Enter
  <1>3. ASSUME NEW t \in Turns, Read(t) PROVE Step(t)
    BY <1>3 DEF Read, Claude
  <1>4. ASSUME NEW t \in Turns, Finish(t) PROVE Step(t)
    BY <1>4 DEF Finish, ClaudeEnds, BudgetEnds, CodexEnds, Claude
  <1>5. ASSUME NEW t \in Turns, NeverRan(t) PROVE Step(t)
    BY <1>5 DEF NeverRan
  <1>6. ASSUME NEW t \in Turns, Wake(t) PROVE Step(t)
    BY <1>6 DEF Wake
  <1>7. ASSUME NEW t \in Turns, Replace(t) PROVE Step(t)
    BY <1>7 DEF Replace
  <1>8. ASSUME NEW t \in Turns, Retry(t) PROVE Step(t)
    BY <1>8 DEF Retry
  <1>9. ASSUME NEW t \in Turns, AwaitQuota(t) PROVE Step(t)
    BY <1>9 DEF AwaitQuota
  <1>10. ASSUME NEW t \in Turns, ResumeSteered(t) PROVE Step(t)
    BY <1>10 DEF ResumeSteered
  <1>11. ASSUME NEW t \in Turns, FollowUp(t) PROVE Step(t)
    BY <1>11 DEF FollowUp
  <1>12. ASSUME NEW t \in Turns, RecoverCorrection(t) PROVE Step(t)
    BY <1>12 DEF RecoverCorrection, Answered, Corrected
  <1>13. ASSUME NEW t \in Turns, RecoverDeliverable(t) PROVE Step(t)
    BY <1>13 DEF RecoverDeliverable, Answered
  <1>14. ASSUME NEW t \in Turns, Salvage(t) PROVE Step(t)
    BY <1>14 DEF Salvage
  <1>15. ASSUME NEW t \in Turns, ToGate(t) PROVE Step(t)
    BY <1>15 DEF ToGate, Answered
  <1>16. ASSUME NEW t \in Turns, Fail(t) PROVE Step(t)
    BY <1>16 DEF Fail, Ends, Answered
  <1>17. ASSUME NEW t \in Turns, Accept(t) PROVE Step(t)
    BY <1>17 DEF Accept, Ends
  <1>18. ASSUME NEW t \in Turns, GateRejects(t) PROVE Step(t)
    BY <1>18 DEF GateRejects
  <1>19. ASSUME NEW t \in Turns, GateFails(t) PROVE Step(t)
    BY <1>19 DEF GateFails, Ends
  <1>20. ASSUME NEW t \in Turns, Cancel(t) PROVE Step(t)
    BY <1>20 DEF Cancel, Ends
  <1>21. ASSUME NEW t \in Turns, NEW g \in Guidance, SteerClaude(t, g) PROVE Step(t)
    BY <1>21 DEF SteerClaude, Claude
  <1>22. ASSUME NEW t \in Turns, NEW g \in Guidance, SteerCodex(t, g) PROVE Step(t)
    BY <1>22 DEF SteerCodex
  <1>23. CASE UNCHANGED vars
    BY <1>23 DEF vars, PlacesAccounted
  <1> HIDE DEF Step
  <1> QED
    BY ONLY [Next]_vars, <1>b, <1>1, <1>2, <1>3, <1>4, <1>5, <1>6, <1>7, <1>8, <1>9,
       <1>10,
       <1>11, <1>12, <1>13, <1>14, <1>15, <1>16, <1>17, <1>18, <1>19, <1>20, <1>21, <1>22, <1>23
       DEF Next, Turn, Settle, Gate, Steer

LEMMA IInvInit == Init => IInv
  <1> SUFFICES ASSUME Init PROVE IInv
    OBVIOUS
  <1>1. {t \in Turns : Holds(t)} = {}
    BY DEF Init, Holds, InCall
  <1>2. PlacesAccounted
    <2>1. Cardinality({t \in Turns : Holds(t)}) = 0
      BY ONLY <1>1, FS_EmptySet
    <2>2. permits = Permits
      BY DEF Init
    <2> HIDE DEF Holds
    <2> QED BY <2>1, <2>2, NumbersAssumption DEF PlacesAccounted, NumbersAssumption
  <1>3. permits \in Nat /\ PhaseInv
    BY NumbersAssumption DEF Init, PhaseInv, Unwrapped, NumbersAssumption
  <1> QED BY ShapedInit, <1>2, <1>3 DEF IInv

LEMMA Inductive == Spec => []IInv
  BY IInvInit, IInvStep, PTL DEF Spec
------------------------------------------------------------------------------
(* The semaphore loses no place and lets no call too many in, for any number    *)
(* of turns, places and retries: the places taken are those of the calls inside *)
(* _run_with_retries (agents.py:1590-1604).                                     *)
THEOREM PlacesAreAccounted == Spec => []PlacesAccounted
  <1>1. IInv => PlacesAccounted
    BY DEF IInv
  <1> QED BY <1>1, Inductive, PTL

(* Every variable keeps its type; the semaphore's value never leaves its range. *)
THEOREM TypeCorrect == Spec => []TypeOK
  <1>1. IInv => TypeOK
    <2> SUFFICES ASSUME IInv PROVE permits \in 0 .. Permits
      BY DEF IInv, TypeOK
    <2> DEFINE c == Cardinality({t \in Turns : Holds(t)})
    <2>1. c \in Nat
      BY TurnsAssumption, FS_Subset, FS_CardinalityType DEF TurnsAssumption
    <2>2. permits \in Nat /\ permits + c = Permits
      BY DEF IInv, PlacesAccounted
    <2> HIDE DEF c
    <2> QED BY <2>1, <2>2, NumbersAssumption DEF NumbersAssumption
  <1> QED BY <1>1, Inductive, PTL
------------------------------------------------------------------------------
(* Only steering tells the user that guidance is taken.                         *)
LEMMA OthersTakeNothing ==
  ASSUME NEW t \in Turns, Turn(t) \/ Cancel(t)
  PROVE  UNCHANGED accepted
  <1> USE DEF Ends, Prepare, Leave, talk, past, control
  <1>1. CASE Settle(t)
    BY <1>1 DEF Settle, Replace, Retry, AwaitQuota, ResumeSteered, FollowUp, RecoverCorrection,
       RecoverDeliverable, Salvage, ToGate, Fail
  <1>2. CASE Gate(t)
    BY <1>2 DEF Gate, Accept, GateRejects, GateFails
  <1>3. CASE Cancel(t)
    BY <1>3 DEF Cancel
  <1> QED
    BY <1>1, <1>2, <1>3 DEF Turn, Start, Enter, Read, Finish, NeverRan, Wake
------------------------------------------------------------------------------
(* The refinement of GuidedTurn.                                                *)
Status  == [t \in Turns |-> IF at[t] \in Final \cup {"idle"} THEN at[t] ELSE "working"]
Calling == {t \in Turns : Holds(t)}
Promise == <<Status, accepted, Calling>>

(* A step of a working turn that goes on working takes a place, gives one back  *)
(* or does nothing its thread can see; there is a place to take because the     *)
(* places are accounted for.                                                    *)
LEMMA WorkingStep ==
  ASSUME IInv, IInv', NEW t \in Turns, Live(t), Live(t)', UNCHANGED accepted,
         \A u \in Turns \ {t} : at'[u] = at[u] /\ phase'[u] = phase[u]
  PROVE  [Guided!Next]_Promise
  <1>1. Status' = Status
    BY DEF Status, Live
  <1>2. \A u \in Turns \ {t} : Holds(u)' <=> Holds(u)
    BY DEF Holds, Unwrapped
  <1>3. Status[t] = "working"
    BY DEF Status, Live
  <1>4. CASE Holds(t)' <=> Holds(t)
    <2>1. Calling' = Calling
      BY <1>2, <1>4 DEF Calling
    <2> QED BY <1>1, <2>1 DEF Promise
  <1>5. CASE Holds(t) /\ ~Holds(t)'
    <2>1. t \in Calling /\ Calling' = Calling \ {t}
      BY <1>2, <1>5 DEF Calling
    <2>2. Guided!Leave(t)
      BY <1>1, <2>1 DEF Guided!Leave, Status, Calling
    <2> QED BY <2>2 DEF Guided!Next
  <1>6. CASE ~Holds(t) /\ Holds(t)'
    <2>1. t \notin Calling /\ Calling' = Calling \cup {t}
      BY <1>2, <1>6 DEF Calling
    <2>2. IsFiniteSet(Calling) /\ Cardinality(Calling) \in Nat
      BY TurnsAssumption, FS_Subset, FS_CardinalityType DEF TurnsAssumption, Calling
    <2>3. Cardinality(Calling') = Cardinality(Calling) + 1
      BY ONLY <2>1, <2>2, FS_AddElement
    <2>4. permits' + Cardinality(Calling') = Permits /\ permits' \in Nat
      BY DEF IInv, PlacesAccounted, Calling
    <2>5. Cardinality(Calling) < Permits
      BY ONLY <2>2, <2>3, <2>4, NumbersAssumption DEF NumbersAssumption
    <2> HIDE DEF Holds
    <2>6. Guided!Enter(t) <=>
            /\ Status[t] = "working" /\ t \notin Calling /\ Cardinality(Calling) < Permits
            /\ Calling' = Calling \cup {t} /\ UNCHANGED <<Status, accepted>>
      BY ONLY Zenon DEF Guided!Enter, Status, Calling, Guided!Cardinality, Cardinality
    <2>7. Guided!Enter(t)
      BY ONLY <1>1, <1>3, <2>1, <2>5, <2>6, UNCHANGED accepted
    <2> QED BY <2>7 DEF Guided!Next
  <1> QED BY <1>4, <1>5, <1>6

(* However a working turn ends, it ends once and gives its place back.          *)
LEMMA EndingStep ==
  ASSUME Shaped, NEW t \in Turns, NEW how \in Final, Live(t), Ends(t, how)
  PROVE  [Guided!Next]_Promise
  <1>1. Calling' = Calling \ {t}
    BY DEF Ends, Go, Calling, Holds, InCall, Final, Unwrapped, Shaped
  <1>2. Status[t] = "working" /\ Status' = [Status EXCEPT ![t] = how]
    BY DEF Ends, Go, Status, Live, Shaped
  <1>3. UNCHANGED accepted
    BY DEF Ends
  <1>4. Guided!End(t, how)
    BY <1>1, <1>2, <1>3 DEF Guided!End, Status, Calling
  <1> QED BY <1>4 DEF Guided!Next, Guided!Ended, Final

(* Guidance that is taken finds a working turn: its control is registered.      *)
LEMMA SteeringStep ==
  ASSUME IInv, NEW t \in Turns, NEW g \in Guidance, Steer(t, g)
  PROVE  [Guided!Next]_Promise
  <1> USE DEF IInv, Shaped, PhaseInv, Live, Go, InCall, Final
  <1>1. Live(t) /\ accepted' = [accepted EXCEPT ![t] = @ \cup {g}]
    BY DEF Steer, SteerClaude, SteerCodex
  <1>2. Status' = Status /\ Calling' = Calling
    <2>1. CASE SteerClaude(t, g)
      BY <2>1 DEF SteerClaude, Status, Calling, Holds, Unwrapped
    <2>2. CASE SteerCodex(t, g)
      BY <2>2 DEF SteerCodex, Status, Calling, Holds, Unwrapped
    <2> QED BY <2>1, <2>2 DEF Steer
  <1>3. Guided!Say(t, g)
    BY <1>1, <1>2 DEF Guided!Say, Status, Calling, Steer
  <1> QED BY <1>3 DEF Guided!Next

LEMMA GuidedStep == IInv /\ IInv' /\ [Next]_vars => [Guided!Next]_Promise
  <1> SUFFICES ASSUME IInv, IInv', [Next]_vars PROVE [Guided!Next]_Promise
    OBVIOUS
  <1> DEFINE
        Works(t) ==
            /\ Live(t) /\ Live(t)'
            /\ \A u \in Turns \ {t} : at'[u] = at[u] /\ phase'[u] = phase[u]
  <1>a. ASSUME NEW t \in Turns, Works(t), UNCHANGED accepted PROVE [Guided!Next]_Promise
    BY ONLY <1>a, IInv, IInv', WorkingStep
  <1>b. ASSUME NEW t \in Turns, NEW how \in Final, Live(t), Ends(t, how)
        PROVE  [Guided!Next]_Promise
    BY ONLY <1>b, IInv, EndingStep DEF IInv
  <1>1. ASSUME NEW t \in Turns, Start(t) PROVE [Guided!Next]_Promise
    <2> USE <1>1 DEF Start, Go, IInv, Shaped
    <2>1. Status[t] = "idle" /\ Status' = [Status EXCEPT ![t] = "working"]
      BY DEF Status, Final
    <2>2. Calling' = Calling
      BY DEF Calling, Holds, Unwrapped, InCall
    <2>3. Guided!Start(t)
      BY <2>1, <2>2 DEF Guided!Start, Status, Calling, past
    <2> QED BY <2>3 DEF Guided!Next
  <1>2. ASSUME NEW t \in Turns, Cancel(t) \/ Fail(t) \/ Accept(t) \/ GateFails(t)
        PROVE  [Guided!Next]_Promise
    <2>1. Live(t) /\ \E how \in Final : Ends(t, how)
      BY <1>2 DEF Cancel, Fail, Accept, GateFails, Live, Final, Answered
    <2> QED BY <1>b, <2>1
  <1>3. ASSUME NEW t \in Turns, NEW g \in Guidance, Steer(t, g) PROVE [Guided!Next]_Promise
    BY ONLY <1>3, IInv, SteeringStep
  <1> USE DEF IInv, Shaped, Live, Final, Go, Leave, Prepare, Answered, control, talk, past
  <1>4. ASSUME NEW t \in Turns, Enter(t) PROVE Works(t)
    BY <1>4 DEF Enter
  <1>5. ASSUME NEW t \in Turns, Read(t) PROVE Works(t)
    BY <1>5 DEF Read
  <1>6. ASSUME NEW t \in Turns, Finish(t) PROVE Works(t)
    BY <1>6 DEF Finish
  <1>7. ASSUME NEW t \in Turns, NeverRan(t) PROVE Works(t)
    BY <1>7 DEF NeverRan
  <1>8. ASSUME NEW t \in Turns, Wake(t) PROVE Works(t)
    BY <1>8 DEF Wake
  <1>9. ASSUME NEW t \in Turns, Replace(t) PROVE Works(t)
    BY <1>9 DEF Replace
  <1>10. ASSUME NEW t \in Turns, Retry(t) PROVE Works(t)
    BY <1>10 DEF Retry
  <1>11. ASSUME NEW t \in Turns, AwaitQuota(t) PROVE Works(t)
    BY <1>11 DEF AwaitQuota
  <1>12. ASSUME NEW t \in Turns, ResumeSteered(t) PROVE Works(t)
    BY <1>12 DEF ResumeSteered
  <1>13. ASSUME NEW t \in Turns, FollowUp(t) PROVE Works(t)
    BY <1>13 DEF FollowUp
  <1>14. ASSUME NEW t \in Turns, RecoverCorrection(t) PROVE Works(t)
    BY <1>14 DEF RecoverCorrection
  <1>15. ASSUME NEW t \in Turns, RecoverDeliverable(t) PROVE Works(t)
    BY <1>15 DEF RecoverDeliverable
  <1>16. ASSUME NEW t \in Turns, Salvage(t) PROVE Works(t)
    BY <1>16 DEF Salvage
  <1>17. ASSUME NEW t \in Turns, ToGate(t) PROVE Works(t)
    BY <1>17 DEF ToGate
  <1>18. ASSUME NEW t \in Turns, GateRejects(t) PROVE Works(t)
    BY <1>18 DEF GateRejects
  <1> HIDE DEF IInv, Shaped, Live, Final, Go, Leave, Prepare, Answered, control, talk, past
  <1>19. CASE UNCHANGED vars
    BY <1>19 DEF vars, Promise, Status, Calling, Holds, Unwrapped, past
  <1> HIDE DEF Works
  <1>20. ASSUME NEW t \in Turns, Turn(t) PROVE [Guided!Next]_Promise
    <2>1. UNCHANGED accepted
      BY <1>20, OthersTakeNothing
    <2> QED
      BY ONLY <1>20, <2>1, <1>a, <1>1, <1>2, <1>4, <1>5, <1>6, <1>7, <1>8, <1>9,
         <1>10, <1>11, <1>12, <1>13, <1>14, <1>15, <1>16, <1>17, <1>18
         DEF Turn, Settle, Gate
  <1> QED BY ONLY [Next]_vars, <1>2, <1>3, <1>19, <1>20 DEF Next

(* The turns keep the promise of GuidedTurn: a turn starts once, takes guidance *)
(* only while it works, ends once, and no more of them call a provider at a     *)
(* time than agent_max_concurrency (agents.py:1596-1604, 2728, 3144).           *)
THEOREM TurnsAreGuided == Spec => IsGuided
  <1>1. Init => Guided!Init
    BY DEF Init, Guided!Init, Final, Holds, InCall
  <1>2. IsGuided <=> Guided!Init /\ [][Guided!Next]_Promise
    BY DEF IsGuided, Guided!Spec, Promise, Status, Calling
  <1> QED BY <1>1, <1>2, GuidedStep, Inductive, PTL DEF Spec
------------------------------------------------------------------------------
(* What the conversations of a turn know.  Need is what a published answer must *)
(* rest on; it is in the conversation the session names, in the next prompt, or *)
(* with the control, until a call has it.  ConversationFacts is about the three *)
(* conversations of a turn, Aware about a turn whose words have not gone astray. *)
Need(t)    == {"request"} \cup accepted[t]
Told(t)    == known[t] \cup prompt[t] \cup pending[t]
Waiting(t) == at[t] \in {"permit", "spawned", "backoff", "quota"}

ConversationFacts(t) ==
    /\ at[t] = "idle" => accepted[t] = {}
    /\ t \in elsewhere => t \in Claude /\ known[t] = {}
    /\ at[t] = "ended" /\ result[t] = "lost" => t \in Claude /\ known[t] = {}
    /\ "request" \in known[t] \/ (at[t] = "running" /\ t \notin elsewhere) =>
          known[t] \subseteq call[t]

Aware(t) ==
    /\ phase[t] # "work" \/ at[t] = "gate" => pending[t] = {}
    /\ phase[t] = "salvage" => Need(t) \subseteq known[t]
    /\ Waiting(t) => Need(t) \subseteq Told(t)
    /\ at[t] = "running" =>
          /\ Need(t) \subseteq call[t] \cup pending[t]
          /\ ~Forgets(t) => call[t] \subseteq known[t] \cup prompt[t]
    /\ at[t] = "ended" =>
          /\ result[t] \in Texts => Need(t) \subseteq call[t] \cup pending[t]
          /\ result[t] \notin Texts /\ ~Forgets(t) => Need(t) \subseteq Told(t)
    /\ at[t] \in {"gate", "answered"} => Need(t) \subseteq call[t]

Knows(t) == ConversationFacts(t) /\ (astray[t] = {} => Aware(t))

KnowInv == \A t \in Turns : Knows(t)

(* Every step keeps what the conversations know.                                *)
LEMMA KnowStep == Shaped /\ PhaseInv /\ KnowInv /\ [Next]_vars => KnowInv'
  <1> SUFFICES ASSUME Shaped, PhaseInv, KnowInv, [Next]_vars PROVE KnowInv'
    OBVIOUS
  <1> DEFINE
        Only(t) ==
            \A u \in Turns \ {t} :
                /\ at'[u] = at[u] /\ phase'[u] = phase[u] /\ result'[u] = result[u]
                /\ prompt'[u] = prompt[u] /\ known'[u] = known[u] /\ call'[u] = call[u]
                /\ pending'[u] = pending[u] /\ accepted'[u] = accepted[u]
                /\ astray'[u] = astray[u] /\ (u \in elsewhere' <=> u \in elsewhere)
  <1>a. ASSUME NEW t \in Turns, Only(t), Knows(t)' PROVE KnowInv'
    BY <1>a DEF KnowInv, Knows, ConversationFacts, Aware, Need, Told, Waiting, Forgets
  <1> USE DEF Shaped, PhaseInv, KnowInv, Knows, ConversationFacts, Aware, Need, Told, Waiting, Forgets,
        Live, Final, InCall, Go, Leave, Prepare, Mark, control, talk, past
  <1>1. ASSUME NEW t \in Turns, Start(t) PROVE Only(t) /\ Knows(t)'
    BY <1>1 DEF Start
  <1>2. ASSUME NEW t \in Turns, Enter(t) PROVE Only(t) /\ Knows(t)'
    BY <1>2 DEF Enter
  <1>3. ASSUME NEW t \in Turns, Read(t) PROVE Only(t) /\ Knows(t)'
    BY <1>3 DEF Read, Texts, Claude
  <1>4. ASSUME NEW t \in Turns, Finish(t) PROVE Only(t) /\ Knows(t)'
    BY <1>4 DEF Finish, Texts, Claude, ClaudeEnds, BudgetEnds, CodexEnds
  <1>5. ASSUME NEW t \in Turns, NeverRan(t) PROVE Only(t) /\ Knows(t)'
    BY <1>5 DEF NeverRan, Texts
  <1>6. ASSUME NEW t \in Turns, Wake(t) PROVE Only(t) /\ Knows(t)'
    BY <1>6 DEF Wake
  <1>7. ASSUME NEW t \in Turns, Replace(t) PROVE Only(t) /\ Knows(t)'
    BY <1>7 DEF Replace, Texts, Claude
  <1>8. ASSUME NEW t \in Turns, Retry(t) PROVE Only(t) /\ Knows(t)'
    BY <1>8 DEF Retry, Texts
  <1>9. ASSUME NEW t \in Turns, AwaitQuota(t) PROVE Only(t) /\ Knows(t)'
    BY <1>9 DEF AwaitQuota, Texts, Claude
  <1>10. ASSUME NEW t \in Turns, ResumeSteered(t) PROVE Only(t) /\ Knows(t)'
    <2>1. Only(t) /\ ConversationFacts(t)'
      BY <1>10 DEF ResumeSteered
    <2>2. ASSUME astray'[t] = {} PROVE Aware(t)'
      <3>1. astray[t] = {} /\ Unread(t) = {} /\ Aware(t)
        BY <1>10, <2>2 DEF ResumeSteered
      <3>2. /\ at'[t] = "permit" /\ phase'[t] = "work" /\ result'[t] = "none"
            /\ prompt'[t] = pending[t] /\ known'[t] = known[t] /\ accepted' = accepted
        BY <1>10 DEF ResumeSteered
      <3>3. {"request"} \cup prompt[t] \subseteq known[t]
        BY <3>1 DEF Unread
      <3>4. Need(t) \subseteq Told(t)
        BY <1>10, <3>1, <3>3 DEF ResumeSteered, Texts
      <3> QED BY <3>2, <3>3, <3>4
    <2> QED BY <2>1, <2>2
  <1>11. ASSUME NEW t \in Turns, FollowUp(t) PROVE Only(t) /\ Knows(t)'
    BY <1>11 DEF FollowUp
  <1>12. ASSUME NEW t \in Turns, RecoverCorrection(t) PROVE Only(t) /\ Knows(t)'
    BY <1>12 DEF RecoverCorrection, Answered
  <1>13. ASSUME NEW t \in Turns, RecoverDeliverable(t) PROVE Only(t) /\ Knows(t)'
    BY <1>13 DEF RecoverDeliverable, Answered
  <1>14. ASSUME NEW t \in Turns, Salvage(t) PROVE Only(t) /\ Knows(t)'
    <2>1. Only(t) /\ ConversationFacts(t)'
      BY <1>14 DEF Salvage
    <2>2. ASSUME astray'[t] = {} PROVE Aware(t)'
      <3>1. astray[t] = {} /\ ~Forgets(t) /\ Unread(t) = {} /\ pending[t] = {}
        BY <1>14, <2>2 DEF Salvage
      <3>2. Need(t) \subseteq known[t]
        BY <1>14, <3>1 DEF Salvage, Unread, Texts
      <3> QED BY <1>14, <3>1, <3>2 DEF Salvage
    <2> QED BY <2>1, <2>2
  <1>15. ASSUME NEW t \in Turns, ToGate(t) PROVE Only(t) /\ Knows(t)'
    BY <1>15 DEF ToGate, Answered
  <1>16. ASSUME NEW t \in Turns, Fail(t) PROVE Only(t) /\ Knows(t)'
    BY <1>16 DEF Fail, Ends
  <1>17. ASSUME NEW t \in Turns, Accept(t) PROVE Only(t) /\ Knows(t)'
    BY <1>17 DEF Accept, Ends
  <1>18. ASSUME NEW t \in Turns, GateRejects(t) PROVE Only(t) /\ Knows(t)'
    BY <1>18 DEF GateRejects
  <1>19. ASSUME NEW t \in Turns, GateFails(t) PROVE Only(t) /\ Knows(t)'
    BY <1>19 DEF GateFails, Ends
  <1>20. ASSUME NEW t \in Turns, Cancel(t) PROVE Only(t) /\ Knows(t)'
    BY <1>20 DEF Cancel, Ends
  <1>21. ASSUME NEW t \in Turns, NEW g \in Guidance, SteerClaude(t, g) PROVE Only(t) /\ Knows(t)'
    <2>1. Only(t) /\ ConversationFacts(t)'
      BY <1>21 DEF SteerClaude
    <2>2. ASSUME astray'[t] = {} PROVE Aware(t)'
      <3>1. /\ phase[t] = "work" /\ phase'[t] = "work"
            /\ Live(t) /\ at[t] # "gate" /\ Aware(t)
        BY <1>21, <2>2 DEF SteerClaude
      <3>2. Need(t)' = Need(t) \cup {g} /\ Told(t)' = Told(t) \cup {g} /\ call' = call
        BY <1>21 DEF SteerClaude
      <3> QED BY <1>21, <2>2, <3>1, <3>2 DEF SteerClaude, Claude, Texts
    <2> QED BY <2>1, <2>2
  <1>22. ASSUME NEW t \in Turns, NEW g \in Guidance, SteerCodex(t, g) PROVE Only(t) /\ Knows(t)'
    <2>1. Only(t) /\ ConversationFacts(t)'
      BY <1>22 DEF SteerCodex
    <2>2. ASSUME astray'[t] = {} PROVE Aware(t)'
      <3>1. Aware(t) /\ Need(t)' = Need(t) \cup {g} /\ call'[t] = call[t] \cup {g}
        BY <1>22, <2>2 DEF SteerCodex
      <3>2. Need(t)' \subseteq call'[t] \cup pending'[t]
        BY <1>22, <3>1 DEF SteerCodex
      <3>3. phase[t] = "salvage" => Need(t)' \subseteq known'[t]
        BY <1>22, <3>1 DEF SteerCodex
      <3> QED BY <1>22, <3>1, <3>2, <3>3 DEF SteerCodex
    <2> QED BY <2>1, <2>2
  <1>23. CASE UNCHANGED vars
    BY <1>23 DEF vars
  <1> HIDE DEF Only, Knows
  <1> QED
    BY ONLY [Next]_vars, <1>a, <1>1, <1>2, <1>3, <1>4, <1>5, <1>6, <1>7, <1>8, <1>9,
       <1>10, <1>11, <1>12, <1>13, <1>14, <1>15, <1>16, <1>17, <1>18, <1>19, <1>20,
       <1>21, <1>22, <1>23
       DEF Next, Turn, Settle, Gate, Steer

(* The answer that a turn publishes comes from a conversation that was told the *)
(* request and every piece of guidance the user was told is taken, over any     *)
(* number of retries, waits, recoveries and rejections (agents.py:2770-2787,    *)
(* 2903-2947): outside the three ways recorded in astray no word is lost.       *)
THEOREM AnswersRestOnAll == Spec => []AnswersKnowAll
  <1>1. Init => KnowInv
    BY DEF Init, KnowInv, Knows, ConversationFacts, Aware, Waiting
  <1>2. IInv /\ KnowInv /\ [Next]_vars => KnowInv'
    BY KnowStep DEF IInv
  <1>3. KnowInv => AnswersKnowAll
    BY DEF KnowInv, Knows, Aware, Need, AnswersKnowAll
  <1> QED BY <1>1, <1>2, <1>3, Inductive, PTL DEF Spec
==============================================================================
