---------------------------- MODULE TurnExecution ----------------------------
(***************************************************************************)
(* The inside of an agent turn, from the registration of its control to    *)
(* the accepted answer (agents.py): provider calls under the semaphore and *)
(* the workspace lock, their retries and waits for quota, steering, the    *)
(* recoveries of a timeout, of a hook correction and of a missing          *)
(* deliverable, and the completion gate.  Turns of several threads share   *)
(* the semaphore.  ThreadTurns takes all of this as one step.              *)
(*                                                                         *)
(* What a conversation has been told is a set of words: the request of     *)
(* this turn, the earlier turns of the thread, and the guidance given      *)
(* while the turn ran.  A conversation that does not exist knows nothing.  *)
(***************************************************************************)
EXTENDS Naturals, FiniteSets

CONSTANTS
    Turns,          \* turns of different threads
    Codex,          \* those run by Codex; the others are Claude's
    Fresh,          \* first turns of their threads
    Automated,      \* launched by an automation
    Guarded,        \* launched with require_artifact
    Guidance,       \* messages that may steer
    MaxRetries,     \* len(AGENT_RETRY_DELAYS)
    Permits,        \* agent_max_concurrency
    Failures,       \* bound: what a call may fail with
    Stoppable       \* bound: turns that somebody may stop

ASSUME TurnsAssumption ==
    /\ IsFiniteSet(Turns)
    /\ Codex \subseteq Turns
    /\ Fresh \subseteq Turns
    /\ Automated \subseteq Turns
    /\ Guarded \subseteq Turns
    /\ Stoppable \subseteq Turns

ASSUME NumbersAssumption == MaxRetries \in Nat /\ Permits \in Nat \ {0}

(* Errors that no wrapper retries, and those a call may raise. *)
Stopping == {"auth", "infra", "launch", "budget"}
Errors   == Stopping \cup {"transient", "quota", "timeout", "interrupted", "lost", "cancelled"}
Texts    == {"final", "correction", "bare"}

ASSUME FailuresAssumption == Failures \subseteq Errors

Words == Guidance \cup {"request", "context"}

VARIABLES
    at,         \* where the turn is
    phase,      \* which call it makes: work or one of the recoveries
    tries,      \* retries of the current call
    rounds,     \* hook recoveries, then returns by the gate
    permits,    \* the value of the semaphore
    registered, \* the control is in _active_runs
    pending,    \* _claude_steering of the control
    prompt,     \* what the prompt of the current call says
    resume,     \* the next call may not create the conversation
    known,      \* the conversation under the session's id
    elsewhere,  \* the current call runs in a replacement conversation
    call,       \* the conversation of the current or the last call
    result,     \* how the call that ended did end
    accepted,   \* history: guidance the user was told is taken
    astray      \* history: what went wrong with the words of a turn

control == <<registered, pending>>
talk    == <<prompt, resume, known, elsewhere, call>>
past    == <<accepted, astray>>
vars    == <<at, phase, tries, rounds, permits, control, talk, result, past>>

Final   == {"answered", "failed", "cancelled"}
InCall  == {"spawned", "running", "ended"}
Places  == InCall \cup Final \cup {"idle", "permit", "backoff", "quota", "gate"}
Phases  == {"work", "guard", "deliver", "salvage", "return"}
Claude  == Turns \ Codex

Shaped ==
    /\ at \in [Turns -> Places]
    /\ phase \in [Turns -> Phases]
    /\ tries \in [Turns -> 0 .. MaxRetries]
    /\ rounds \in [Turns -> 0 .. 2]
    /\ registered \in SUBSET Turns
    /\ pending \in [Turns -> SUBSET Guidance]
    /\ prompt \in [Turns -> SUBSET Words]
    /\ resume \in [Turns -> BOOLEAN]
    /\ known \in [Turns -> SUBSET Words]
    /\ elsewhere \in SUBSET Turns
    /\ call \in [Turns -> SUBSET Words]
    /\ result \in [Turns -> Errors \cup Texts \cup {"none"}]
    /\ accepted \in [Turns -> SUBSET Guidance]
    /\ astray \in [Turns -> SUBSET {"unread", "late", "newThread"}]

TypeOK == Shaped /\ permits \in 0 .. Permits

(* A continued thread has a conversation, unless the provider lost it. *)
Init ==
    /\ at = [t \in Turns |-> "idle"]
    /\ phase = [t \in Turns |-> "work"]
    /\ tries = [t \in Turns |-> 0]
    /\ rounds = [t \in Turns |-> 0]
    /\ permits = Permits
    /\ registered = {}
    /\ pending = [t \in Turns |-> {}]
    /\ prompt = [t \in Turns |-> {}]
    /\ resume = [t \in Turns |-> t \notin Fresh]
    /\ known \in {k \in [Turns -> {{}, {"context"}}] :
                     \A t \in Turns : /\ t \in Fresh => k[t] = {}
                                      /\ t \in Codex \ Fresh => k[t] # {}}
    /\ elsewhere = {}
    /\ call = [t \in Turns |-> {}]
    /\ result = [t \in Turns |-> "none"]
    /\ accepted = [t \in Turns |-> {}]
    /\ astray = [t \in Turns |-> {}]
------------------------------------------------------------------------------
(* Calls. *)

(* Codex's timeout recovery calls run_codex without _run_with_retries. *)
Unwrapped(t) == t \in Codex /\ phase[t] = "salvage"

Holds(t)  == at[t] \in InCall /\ ~Unwrapped(t)
Go(t, to) == at' = [at EXCEPT ![t] = to]

(* The wrapper leaves the semaphore whatever the call did. *)
Release(t) == permits' = IF Unwrapped(t) THEN permits ELSE permits + 1

(* The next call of this turn: its first attempt, with that prompt, in the *)
(* conversation the session now names.                                     *)
Prepare(t, ph, words, conversation) ==
    /\ phase' = [phase EXCEPT ![t] = ph]
    /\ tries' = [tries EXCEPT ![t] = 0]
    /\ prompt' = [prompt EXCEPT ![t] = words]
    /\ known' = [known EXCEPT ![t] = conversation]
    /\ resume' = [resume EXCEPT ![t] = TRUE]
    /\ elsewhere' = elsewhere \ {t}
    /\ UNCHANGED call

(* A failed call of a first Codex turn leaves the session without a thread id. *)
Forgets(t) == t \in Codex /\ known[t] = {}

Mark(t, why) == astray' = [astray EXCEPT ![t] = @ \cup why]

(* What the last prompt said is not in the conversation the session names. *)
Unread(t) == IF {"request"} \cup prompt[t] \subseteq known[t] THEN {} ELSE {"unread"}

Start(t) ==
    /\ at[t] = "idle"
    /\ Go(t, "permit")
    /\ registered' = registered \cup {t}
    /\ prompt' = [prompt EXCEPT ![t] = {"request"}]
    /\ UNCHANGED <<phase, tries, rounds, permits, pending, resume, known, elsewhere, call,
                   result, past>>

(* Mutant: the call does not wait for the semaphore. *)
EnterFreely(t) ==
    /\ at[t] = "permit"
    /\ Go(t, "spawned")
    /\ UNCHANGED <<phase, tries, rounds, permits, control, talk, result, past>>

(* run_with_capacity enters the semaphore and the process is spawned. *)
Enter(t) ==
    /\ at[t] = "permit"
    /\ permits > 0
    /\ permits' = permits - 1
    /\ Go(t, "spawned")
    /\ UNCHANGED <<phase, tries, rounds, control, talk, result, past>>

(* flock admits one process of the workspace; the CLI then opens its        *)
(* conversation and reads the prompt.                                       *)
Read(t) ==
    LET missing == t \in Claude /\ resume[t] /\ known[t] = {} /\ t \notin elsewhere
        told == (IF t \in elsewhere THEN {} ELSE known[t]) \cup prompt[t] IN
    /\ at[t] = "spawned"
    /\ \A u \in Turns : at[u] # "running"
    /\ \/ /\ missing
          /\ Go(t, "ended")
          /\ result' = [result EXCEPT ![t] = IF pending[t] # {} THEN "interrupted" ELSE "lost"]
          /\ UNCHANGED <<known, call>>
       \/ /\ ~missing
          /\ Go(t, "running")
          /\ call' = [call EXCEPT ![t] = told]
          /\ known' = IF t \in elsewhere \/ Forgets(t) THEN known
                      ELSE [known EXCEPT ![t] = told]
          /\ UNCHANGED result
    /\ UNCHANGED <<phase, tries, rounds, permits, control, prompt, resume, elsewhere, past>>

(* How a Claude process may end; a correction is the work of a hook. *)
ClaudeEnds == Texts \cup (Failures \cap {"auth", "infra", "transient", "quota", "timeout"})

(* The transcript of an automated Claude session is watched and stopped. *)
BudgetEnds(t) == IF t \in Automated THEN Failures \cap {"budget"} ELSE {}

(* How the App Server's turn may end. *)
CodexEnds(t) ==
    (IF t \in Guarded THEN Texts ELSE {"final"})
        \cup (Failures \cap {"auth", "infra", "transient", "timeout"})

(* A process ends by itself.  Guidance that came without a process to kill  *)
(* makes the finished call an interrupted one.                              *)
Finish(t) ==
    /\ at[t] = "running"
    /\ Go(t, "ended")
    /\ \E o \in IF t \in Claude THEN ClaudeEnds \cup BudgetEnds(t) ELSE CodexEnds(t) :
          result' = [result EXCEPT ![t] =
              IF pending[t] # {} /\ o \notin {"timeout", "budget"} THEN "interrupted" ELSE o]
    /\ UNCHANGED <<phase, tries, rounds, permits, control, talk, past>>

(* The time limit counts the wait for flock; flock itself may fail, which is *)
(* an error of its own for Claude and a service error for Codex.            *)
NeverRan(t) ==
    /\ at[t] = "spawned"
    /\ Go(t, "ended")
    /\ \E o \in Failures \cap {"timeout", IF t \in Codex THEN "transient" ELSE "launch"} :
          result' = [result EXCEPT ![t] = o]
    /\ UNCHANGED <<phase, tries, rounds, permits, control, talk, past>>
------------------------------------------------------------------------------
(* Steering. *)

(* Claude's control keeps the text and kills the process, if there is one. *)
SteerClaude(t, g) ==
    /\ t \in registered \cap Claude
    /\ accepted' = [accepted EXCEPT ![t] = @ \cup {g}]
    /\ pending' = [pending EXCEPT ![t] = @ \cup {g}]
    /\ IF at[t] \in {"spawned", "running"}
       THEN Go(t, "ended") /\ result' = [result EXCEPT ![t] = "interrupted"]
       ELSE UNCHANGED <<at, result>>
    /\ Mark(t, IF phase[t] # "work" THEN {"late"} ELSE {})
    /\ UNCHANGED <<phase, tries, rounds, permits, registered, talk>>

(* turn/steer adds the text to the active turn; without one it is declined. *)
SteerCodex(t, g) ==
    /\ t \in registered \cap Codex
    /\ at[t] = "running"
    /\ accepted' = [accepted EXCEPT ![t] = @ \cup {g}]
    /\ call' = [call EXCEPT ![t] = @ \cup {g}]
    /\ known' = IF Forgets(t) THEN known ELSE [known EXCEPT ![t] = @ \cup {g}]
    /\ UNCHANGED <<at, phase, tries, rounds, permits, control, prompt, resume, elsewhere,
                   result, astray>>

Steer(t, g) ==
    /\ \A u \in Turns : g \notin accepted[u]
    /\ SteerClaude(t, g) \/ SteerCodex(t, g)
------------------------------------------------------------------------------
(* How a call that ended goes on. *)

(* Mutant: a call that failed keeps its place. *)
LeaveAndHold(t, to) ==
    /\ Go(t, to)
    /\ permits' = IF result[t] \in Texts THEN permits + 1 ELSE permits
    /\ result' = [result EXCEPT ![t] = "none"]

Leave(t, to) ==
    /\ Go(t, to)
    /\ Release(t)
    /\ result' = [result EXCEPT ![t] = "none"]

(* The coroutine ends: its locals and its control are gone. *)
Ends(t, how) ==
    /\ Go(t, how)
    /\ permits' = IF Holds(t) THEN permits + 1 ELSE permits
    /\ registered' = registered \ {t}
    /\ phase' = [phase EXCEPT ![t] = "work"]
    /\ tries' = [tries EXCEPT ![t] = 0]
    /\ rounds' = [rounds EXCEPT ![t] = 0]
    /\ pending' = [pending EXCEPT ![t] = {}]
    /\ prompt' = [prompt EXCEPT ![t] = {}]
    /\ resume' = [resume EXCEPT ![t] = TRUE]
    /\ elsewhere' = elsewhere \ {t}
    /\ result' = [result EXCEPT ![t] = "none"]
    /\ UNCHANGED <<known, call, accepted, astray>>

(* run_claude repeats the call once in a replacement session. *)
Replace(t) ==
    /\ at[t] = "ended" /\ result[t] = "lost"
    /\ Go(t, "spawned")
    /\ elsewhere' = elsewhere \cup {t}
    /\ result' = [result EXCEPT ![t] = "none"]
    /\ UNCHANGED <<phase, tries, rounds, permits, control, prompt, resume, known, call, past>>

(* retry_agent_service_errors sleeps outside the semaphore and tries again. *)
Retry(t) ==
    /\ at[t] = "ended" /\ result[t] = "transient"
    /\ ~Unwrapped(t) /\ tries[t] < MaxRetries
    /\ tries' = [tries EXCEPT ![t] = @ + 1]
    /\ elsewhere' = elsewhere \ {t}
    /\ Leave(t, "backoff")
    /\ Mark(t, IF Forgets(t) THEN {"newThread"} ELSE {})
    /\ UNCHANGED <<phase, rounds, control, prompt, resume, known, call, accepted>>

(* retry_claude_quota waits for the reset and starts the retries anew. *)
AwaitQuota(t) ==
    /\ at[t] = "ended" /\ result[t] = "quota"
    /\ tries' = [tries EXCEPT ![t] = 0]
    /\ elsewhere' = elsewhere \ {t}
    /\ Leave(t, "quota")
    /\ UNCHANGED <<phase, rounds, control, prompt, resume, known, call, past>>

Wake(t) ==
    /\ at[t] \in {"backoff", "quota"}
    /\ Go(t, "permit")
    /\ UNCHANGED <<phase, tries, rounds, permits, control, talk, result, past>>

(* Mutant: the steered call starts before the text is taken from the control. *)
ResumeEmpty(t) ==
    /\ at[t] = "ended" /\ result[t] = "interrupted" /\ phase[t] = "work"
    /\ pending' = [pending EXCEPT ![t] = {}]
    /\ Prepare(t, "work", {}, known[t])
    /\ Leave(t, "permit")
    /\ Mark(t, Unread(t))
    /\ UNCHANGED <<rounds, registered, accepted>>

(* AgentSteeringInterrupt: the same session is resumed with the guidance alone. *)
ResumeSteered(t) ==
    /\ at[t] = "ended" /\ result[t] = "interrupted" /\ phase[t] = "work"
    /\ pending' = [pending EXCEPT ![t] = {}]
    /\ Prepare(t, "work", pending[t], known[t])
    /\ Leave(t, "permit")
    /\ Mark(t, Unread(t))
    /\ UNCHANGED <<rounds, registered, accepted>>

(* Guidance that came while a finished call was being recorded. *)
FollowUp(t) ==
    /\ at[t] = "ended" /\ result[t] \in Texts /\ phase[t] = "work" /\ pending[t] # {}
    /\ pending' = [pending EXCEPT ![t] = {}]
    /\ Prepare(t, "work", pending[t], call[t])
    /\ Leave(t, "permit")
    /\ UNCHANGED <<rounds, registered, past>>

Answered(t)  == at[t] = "ended" /\ result[t] \in Texts /\ (phase[t] = "work" => pending[t] = {})
Corrected(t) == t \in Claude /\ phase[t] \in {"work", "guard"} /\ result[t] = "correction"
Short(t)     == t \in Guarded /\ result[t] # "final" /\ ~Corrected(t)

(* The hook's correction is no answer: ask for the answer, twice. *)
RecoverCorrection(t) ==
    /\ Answered(t) /\ Corrected(t) /\ rounds[t] < 2
    /\ rounds' = [rounds EXCEPT ![t] = @ + 1]
    /\ Prepare(t, "guard", {}, call[t])
    /\ Leave(t, "permit")
    /\ UNCHANGED <<control, past>>

(* The required deliverable is missing: ask for it, once. *)
RecoverDeliverable(t) ==
    /\ Answered(t) /\ Short(t) /\ t \in Claude /\ phase[t] \in {"work", "guard"}
    /\ Prepare(t, "deliver", {}, call[t])
    /\ Leave(t, "permit")
    /\ UNCHANGED <<rounds, control, past>>

(* An automated turn that ran out of time is asked for what it has. *)
Salvage(t) ==
    /\ at[t] = "ended" /\ result[t] = "timeout"
    /\ t \in Automated /\ phase[t] \notin {"salvage", "return"}
    /\ Prepare(t, "salvage", {}, known[t])
    /\ Leave(t, IF t \in Codex THEN "spawned" ELSE "permit")
    /\ Mark(t, (IF Forgets(t) THEN {"newThread"} ELSE {})
                 \cup Unread(t)
                 \cup (IF pending[t] # {} THEN {"late"} ELSE {}))
    /\ UNCHANGED <<rounds, control, accepted>>

(* The answer, or after a second timeout the notice, leaves the try block. *)
ToGate(t) ==
    /\ \/ /\ Answered(t) /\ ~Corrected(t)
          /\ Short(t) => phase[t] = "salvage" \/ (t \in Codex /\ phase[t] = "work")
       \/ at[t] = "ended" /\ result[t] = "timeout" /\ phase[t] = "salvage"
    /\ rounds' = [rounds EXCEPT ![t] = IF phase[t] = "return" THEN @ ELSE 0]
    /\ registered' = registered \ {t}
    /\ Leave(t, "gate")
    /\ UNCHANGED <<phase, tries, pending, talk, past>>

(* Everything else that a call raises ends the turn. *)
Fail(t) ==
    /\ at[t] = "ended"
    /\ \/ result[t] \in Stopping
       \/ result[t] = "transient" /\ (Unwrapped(t) \/ tries[t] = MaxRetries)
       \/ result[t] = "interrupted" /\ phase[t] # "work"
       \/ result[t] = "timeout" /\ (t \notin Automated \/ phase[t] = "return")
       \/ Answered(t) /\ Corrected(t) /\ rounds[t] = 2
       \/ Answered(t) /\ Short(t) /\ phase[t] \in {"deliver", "return"}
    /\ Ends(t, "failed")
------------------------------------------------------------------------------
(* The completion gate. *)

Accept(t) ==
    /\ at[t] = "gate"
    /\ Ends(t, "answered")

(* A rejection and any AgentExecutionError of the gate's own call, a failed *)
(* authentication included, return the answer to the worker, twice.         *)
GateRejects(t) ==
    /\ at[t] = "gate" /\ rounds[t] < 2
    /\ rounds' = [rounds EXCEPT ![t] = @ + 1]
    /\ Prepare(t, "return", {}, call[t])
    /\ Go(t, "permit")
    /\ registered' = registered \cup {t}
    /\ UNCHANGED <<permits, pending, result, past>>

(* A third rejection, a bad artifact marker or another exception. *)
GateFails(t) ==
    /\ at[t] = "gate"
    /\ Ends(t, "failed")

(* Mutant: a turn that is stopped inside the semaphore keeps its place. *)
CancelAndHold(t) ==
    /\ t \in Stoppable
    /\ at[t] \notin Final \cup {"idle"}
    /\ Go(t, "cancelled")
    /\ registered' = registered \ {t}
    /\ UNCHANGED <<phase, tries, rounds, permits, pending, talk, result, past>>

(* CancelledError: the process group is terminated, every finally runs. *)
Cancel(t) ==
    /\ t \in Stoppable
    /\ at[t] \notin Final \cup {"idle"}
    /\ Ends(t, "cancelled")
------------------------------------------------------------------------------
Settle(t) ==
    \/ Replace(t) \/ Retry(t) \/ AwaitQuota(t) \/ ResumeSteered(t) \/ FollowUp(t)
    \/ RecoverCorrection(t) \/ RecoverDeliverable(t) \/ Salvage(t) \/ ToGate(t) \/ Fail(t)

Gate(t) == Accept(t) \/ GateRejects(t) \/ GateFails(t)

Turn(t) ==
    \/ Start(t) \/ Enter(t) \/ Read(t) \/ Finish(t) \/ NeverRan(t) \/ Wake(t)
    \/ Settle(t) \/ Gate(t)

Next ==
    \/ \E t \in Turns : Turn(t)
    \/ \E t \in Turns : Cancel(t)
    \/ \E t \in Turns, g \in Guidance : Steer(t, g)

Spec == Init /\ [][Next]_vars

(* asyncio serves the semaphore and the kernel the flock in some fair order; *)
(* a call ends (its time limit), and the provider does not refuse every call *)
(* for ever: a wait for quota starts the count of retries anew.              *)
CallGetsThrough(t) == Finish(t) /\ result'[t] \notin {"quota", "transient"}

FairSpec ==
    /\ Spec
    /\ \A t \in Turns :
          /\ WF_vars(Turn(t))
          /\ SF_vars(Enter(t) \/ Read(t))
          /\ SF_vars(CallGetsThrough(t))
------------------------------------------------------------------------------
(* Properties. *)

(* The semaphore loses no place and admits no call too many, however the    *)
(* calls end (agents.py:1590-1604): the places taken are those of the calls *)
(* that run inside _run_with_retries.                                       *)
PlacesAccounted == permits + Cardinality({t \in Turns : Holds(t)}) = Permits

(* A published answer comes from a conversation that was told the request   *)
(* and all guidance the user was told is taken, over every retry, wait and  *)
(* recovery; what is missing was lost in one of three ways: a call was cut  *)
(* before the session's conversation had its prompt, guidance came during a *)
(* recovery, a first Codex turn opened another thread (agents.py:2770-2787). *)
AnswersKnowAll ==
    \A t \in Turns : at[t] = "answered" /\ astray[t] = {} =>
        {"request"} \cup accepted[t] \subseteq call[t]

(* The turns keep the promise of GuidedTurn to their threads. *)
Guided == INSTANCE GuidedTurn WITH
    status <- [t \in Turns |-> IF at[t] \in Final \cup {"idle"} THEN at[t] ELSE "working"],
    calling <- {t \in Turns : Holds(t)}

(* A turn starts once, takes guidance only while it works, ends once, and   *)
(* calls its provider within the bound of SLOPERATOR_AGENT_MAX_CONCURRENCY, *)
(* Codex's timeout recovery excepted (agents.py:1596-1604, 2931).           *)
IsGuided == Guided!Spec

(* Every turn ends: no wait for a place, a lock, an allowance or a recovery *)
(* lasts for ever (agents.py:172-186, 434-462).                             *)
TurnsEnd == \A t \in Turns : at[t] = "permit" ~> at[t] \in Final
==============================================================================
