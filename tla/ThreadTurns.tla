----------------------------- MODULE ThreadTurns -----------------------------
(***************************************************************************)
(* The life of a Slack request, from the claim that deduplicates it to the *)
(* row that records its end: AgentOrchestrator.submit, _process, cancel,   *)
(* close and resume_interrupted (agents.py) over the rows of EventStore    *)
(* (store.py), under the service's start and stop (main.py) and the owner's *)
(* stop and close commands (bot.py, admin.py).                             *)
(*                                                                         *)
(* asyncio runs one handler at a time between two awaits, so every action   *)
(* is the code from one await to the next; a database call, which runs in a *)
(* worker thread, is one atomic step.  What a provider turn does between    *)
(* its start and its end (retries, quota, steering text) is abstracted.     *)
(***************************************************************************)
EXTENDS Naturals

CONSTANTS
    Requests,       \* Slack messages: (channel_id, message_ts)
    Threads,        \* Slack threads: (channel_id, thread_ts)
    ThreadOf,       \* the thread a message belongs to
    Files,          \* messages with attachments
    Keyed,          \* automated messages submitted with one common reuse_key
    Optional,       \* messages submitted with optional_reply
    NextPrefixed,   \* messages whose text starts with "next:"
    Early,          \* bound: messages that may come before the restart has listed its rows
    Ageing,         \* bound: threads that may lie 24 hours without activity
    Closable,       \* bound: threads somebody may close
    Stops,          \* handlers that may run cancel() at the same time
    MaxBoots,       \* bound: lives of the process; the last one is not cut
    NoTask          \* no task, no lock, no control

ASSUME RequestsAssumption ==
    /\ ThreadOf \in [Requests -> Threads]
    /\ Files \subseteq Requests
    /\ Keyed \subseteq Requests
    /\ Optional \subseteq Requests
    /\ NextPrefixed \subseteq Requests
    /\ Early \subseteq Requests
    /\ Ageing \subseteq Threads
    /\ Closable \subseteq Threads

ASSUME BootsAssumption == MaxBoots \in Nat

Tasks == Requests \X {"submitted", "resumed"}

ASSUME NoTaskAssumption == NoTask \notin Tasks

ASSUME StopsAssumption == "close" \notin Stops

Callers == Stops \cup {"close"}

VARIABLES
    session,    \* agent_sessions.status of each thread
    stale,      \* no last_activity_at in the last 24 hours
    request,    \* agent_requests.status
    run,        \* durable_agent_runs.status
    service,    \* the process: down, connected, serving, stopping, exiting
    boots,      \* number of starts so far
    submit,     \* where submit() is for each request
    pc,         \* where _process() is for each task
    lockOf,     \* the lock object a task took from _locks (named by its maker)
    locks,      \* _locks: the current lock object of each thread
    active,     \* _active_runs: the task whose control is registered
    outcome,    \* request_status of _process
    manual,     \* _manual_cancellations
    stopping,   \* the tasks each caller of cancel() or close() gathers
    answers,    \* history: answers published for a request
    dropped,    \* history: claims whose submit() died before a row was saved
    stopped,    \* history: requests with a task that a stop cancelled
    doubled,    \* history: requests whose row was saved before the restart listed its rows
    abandoned   \* history of this life: rows whose task or submit() an exception ended early

rows     == <<session, stale, request, run>>
life     == <<service, boots>>
table    == <<lockOf, locks, active, outcome>>
stopVars == <<manual, stopping>>
memory   == <<submit, pc, table, stopVars>>
past     == <<answers, dropped, stopped, doubled, abandoned>>
vars     == <<rows, life, memory, past>>

SessionStatus == {"none", "idle", "running", "failed", "cancelled", "expired", "closed"}
Settled       == {"completed", "failed", "rejected", "ignored", "cancelled"}
Resumable     == {"queued", "running", "interrupted"}
RequestStatus == {"none", "queued", "expired", "reused", "steered", "interrupted"} \cup Settled
RunStatus     == {"none", "steered"} \cup Resumable \cup Settled
SubmitStage   == {"idle", "looking", "reusing", "staging", "downloading", "routing",
                  "steered", "unmarked", "launching"}
InLock        == {"loading", "opening", "gating", "admitting", "equipping", "turn",
                  "publishing", "recovering", "saving"}
Stages        == InLock \cup {"absent", "created", "marking", "waiting", "failing",
                  "cancelling", "closing", "closingRun", "done"}

TypeOK ==
    /\ session \in [Threads -> SessionStatus]
    /\ stale \in [Threads -> BOOLEAN]
    /\ request \in [Requests -> RequestStatus]
    /\ run \in [Requests -> RunStatus]
    /\ service \in {"down", "connected", "serving", "stopping", "exiting"}
    /\ boots \in 0 .. MaxBoots
    /\ submit \in [Requests -> SubmitStage]
    /\ pc \in [Tasks -> Stages]
    /\ lockOf \in [Tasks -> Tasks \cup {NoTask}]
    /\ locks \in [Threads -> Tasks \cup {NoTask}]
    /\ active \in [Threads -> Tasks \cup {NoTask}]
    /\ outcome \in [Tasks -> Settled \cup {"interrupted"}]
    /\ manual \in SUBSET Threads
    /\ stopping \in [Callers -> SUBSET Tasks]
    /\ answers \in [Requests -> Nat]
    /\ dropped \in SUBSET Requests
    /\ stopped \in SUBSET Requests
    /\ doubled \in SUBSET Requests
    /\ abandoned \in SUBSET Requests

Req(k)    == k[1]
Home(k)   == ThreadOf[k[1]]
Working(k) == pc[k] \notin {"absent", "done"}
Held(l)   == \E k \in Tasks : lockOf[k] = l /\ pc[k] \in InLock
Accepting == service \in {"connected", "serving", "stopping"}

Init ==
    /\ session = [t \in Threads |-> "none"]
    /\ stale = [t \in Threads |-> FALSE]
    /\ request = [m \in Requests |-> "none"]
    /\ run = [m \in Requests |-> "none"]
    /\ service = "down"
    /\ boots = 0
    /\ submit = [m \in Requests |-> "idle"]
    /\ pc = [k \in Tasks |-> "absent"]
    /\ lockOf = [k \in Tasks |-> NoTask]
    /\ locks = [t \in Threads |-> NoTask]
    /\ active = [t \in Threads |-> NoTask]
    /\ outcome = [k \in Tasks |-> "failed"]
    /\ manual = {}
    /\ stopping = [s \in Callers |-> {}]
    /\ answers = [m \in Requests |-> 0]
    /\ dropped = {}
    /\ stopped = {}
    /\ doubled = {}
    /\ abandoned = {}
------------------------------------------------------------------------------
(* submit(): claim, reuse, stage files, steer or enqueue. *)

AfterLookup(m) == IF m \in Files THEN "staging" ELSE "routing"

(* Mutant: the refusal is written and submit() goes on. *)
RefuseAndGoOn(m) ==
    LET t == ThreadOf[m] IN
    /\ Accepting
    /\ request[m] = "none"
    /\ session[t] # "none"
    /\ session[t] \in {"expired", "closed"} \/ stale[t]
    /\ request' = [request EXCEPT ![m] = "expired"]
    /\ session' = [session EXCEPT ![t] = IF @ = "closed" THEN @ ELSE "expired"]
    /\ submit' = [submit EXCEPT ![m] = AfterLookup(m)]
    /\ UNCHANGED <<stale, run, life, pc, table, stopVars, past>>

(* prepare_agent_request refuses a thread that is closed, expired or stale. *)
Refuse(m) ==
    LET t == ThreadOf[m] IN
    /\ Accepting
    /\ request[m] = "none"
    /\ session[t] # "none"
    /\ session[t] \in {"expired", "closed"} \/ stale[t]
    /\ request' = [request EXCEPT ![m] = "expired"]
    /\ session' = [session EXCEPT ![t] = IF @ = "closed" THEN @ ELSE "expired"]
    /\ UNCHANGED <<stale, run, life, memory, past>>

(* Mutant: a message that Slack delivers again is claimed again. *)
ClaimAgain(m) ==
    LET t == ThreadOf[m] IN
    /\ service = "serving"
    /\ request[m] \notin {"expired", "reused", "steered"}
    /\ submit[m] = "idle" /\ pc[<<m, "submitted">>] \in {"absent", "done"}
    /\ session[t] # "none" => session[t] \notin {"expired", "closed"} /\ ~stale[t]
    /\ request' = [request EXCEPT ![m] = "queued"]
    /\ stale' = [stale EXCEPT ![t] = FALSE]
    /\ submit' = [submit EXCEPT ![m] = AfterLookup(m)]
    /\ UNCHANGED <<session, run, life, pc, table, stopVars, past>>

(* Mutant: activity makes an expired or closed session usable again. *)
ClaimRevives(m) ==
    LET t == ThreadOf[m] IN
    /\ Accepting
    /\ service = "connected" => m \in Early
    /\ request[m] = "none"
    /\ session' = [session EXCEPT ![t] = IF @ \in {"expired", "closed"} THEN "idle" ELSE @]
    /\ request' = [request EXCEPT ![m] = "queued"]
    /\ stale' = [stale EXCEPT ![t] = FALSE]
    /\ submit' = [submit EXCEPT ![m] = AfterLookup(m)]
    /\ UNCHANGED <<run, life, pc, table, stopVars, past>>

Claim(m) ==
    LET t == ThreadOf[m] IN
    /\ Accepting
    /\ service = "connected" => m \in Early
    /\ request[m] = "none"
    /\ session[t] # "none" => session[t] \notin {"expired", "closed"} /\ ~stale[t]
    /\ request' = [request EXCEPT ![m] = "queued"]
    /\ stale' = [stale EXCEPT ![t] = FALSE]
    /\ submit' = [submit EXCEPT ![m] = IF m \in Keyed THEN "looking" ELSE AfterLookup(m)]
    /\ UNCHANGED <<session, run, life, pc, table, stopVars, past>>

(* The lookup returns the newest analysis of the last five days, if any. *)
FindAnalysis(m) ==
    /\ submit[m] = "looking"
    /\ \/ /\ \E n \in Keyed : run[n] = "completed" /\ ThreadOf[n] # ThreadOf[m]
          /\ submit' = [submit EXCEPT ![m] = "reusing"]
       \/ submit' = [submit EXCEPT ![m] = AfterLookup(m)]
    /\ UNCHANGED <<rows, life, pc, table, stopVars, past>>

FinishReused(m) ==
    /\ submit[m] = "reusing"
    /\ submit' = [submit EXCEPT ![m] = "idle"]
    /\ request' = [request EXCEPT ![m] = "reused"]
    /\ UNCHANGED <<session, stale, run, life, pc, table, stopVars, past>>

(* chat_getPermalink or the reply raises out of submit(). *)
ReuseRaises(m) ==
    /\ submit[m] = "reusing"
    /\ submit' = [submit EXCEPT ![m] = "idle"]
    /\ dropped' = dropped \cup {m}
    /\ UNCHANGED <<rows, life, pc, table, stopVars, answers, stopped, doubled, abandoned>>

(* Mutant: the message goes on without its durable row. *)
SaveNothing(m, from, to) ==
    /\ submit[m] = from
    /\ submit' = [submit EXCEPT ![m] = to]
    /\ UNCHANGED <<rows, life, pc, table, stopVars, past>>

(* save_durable_agent_run always writes 'queued', before and after a download.   *)
(* A row saved before the restart has listed its rows is on that list too.        *)
Save(m, from, to) ==
    /\ submit[m] = from
    /\ submit' = [submit EXCEPT ![m] = to]
    /\ run' = [run EXCEPT ![m] = "queued"]
    /\ doubled' = IF service = "connected" THEN doubled \cup {m} ELSE doubled
    /\ UNCHANGED <<session, stale, request, life, pc, table, stopVars, answers, dropped,
                   stopped, abandoned>>

SaveFiles(m)  == Save(m, "staging", "downloading")
Downloaded(m) == Save(m, "downloading", "routing")

Steerable(m) ==
    LET k == active[ThreadOf[m]] IN
    submit[m] = "routing" /\ m \notin NextPrefixed /\ k # NoTask /\ Req(k) \notin Optional

(* Mutant: the durable row is written before the message is routed. *)
SteerSaved(m) ==
    /\ Steerable(m)
    /\ submit' = [submit EXCEPT ![m] = "steered"]
    /\ run' = [run EXCEPT ![m] = "queued"]
    /\ UNCHANGED <<session, stale, request, life, pc, table, stopVars, past>>

(* A registered control takes the text unless its turn is optional; a Codex *)
(* control may also decline, which leaves the request to SaveRun.           *)
Steer(m) ==
    /\ Steerable(m)
    /\ submit' = [submit EXCEPT ![m] = "steered"]
    /\ UNCHANGED <<rows, life, pc, table, stopVars, past>>

(* The server does not answer in time, or its pipe is gone, and the exception    *)
(* leaves submit(): only the row that the files have left is there for a restart. *)
SteerRaises(m) ==
    /\ Steerable(m)
    /\ submit' = [submit EXCEPT ![m] = "idle"]
    /\ dropped' = IF run[m] = "none" THEN dropped \cup {m} ELSE dropped
    /\ abandoned' = IF run[m] = "none" THEN abandoned ELSE abandoned \cup {m}
    /\ UNCHANGED <<rows, life, pc, table, stopVars, answers, stopped, doubled>>

FinishSteered(m) ==
    /\ submit[m] = "steered"
    /\ submit' = [submit EXCEPT ![m] = IF m \in Files THEN "unmarked" ELSE "idle"]
    /\ request' = [request EXCEPT ![m] = "steered"]
    /\ UNCHANGED <<session, stale, run, life, pc, table, stopVars, past>>

MarkSteered(m) ==
    /\ submit[m] = "unmarked"
    /\ submit' = [submit EXCEPT ![m] = "idle"]
    /\ run' = [run EXCEPT ![m] = "steered"]
    /\ UNCHANGED <<session, stale, request, life, pc, table, stopVars, past>>

SaveRun(m) == Save(m, "routing", "launching")

Launch(m) ==
    /\ submit[m] = "launching"
    /\ submit' = [submit EXCEPT ![m] = "idle"]
    /\ pc' = [pc EXCEPT ![<<m, "submitted">>] = "created"]
    /\ UNCHANGED <<rows, life, table, stopVars, past>>

Submit(m) ==
    \/ FindAnalysis(m) \/ FinishReused(m) \/ ReuseRaises(m)
    \/ SaveFiles(m) \/ Downloaded(m) \/ Steer(m) \/ SteerRaises(m) \/ FinishSteered(m)
    \/ MarkSteered(m) \/ SaveRun(m) \/ Launch(m)
------------------------------------------------------------------------------
(* _process(): one task. *)

Goto(k, from, to) == pc[k] = from /\ pc' = [pc EXCEPT ![k] = to]

(* What a task kept for itself is gone with it. *)
Gone(S) ==
    /\ lockOf' = [k \in Tasks |-> IF k \in S THEN NoTask ELSE lockOf[k]]
    /\ outcome' = [k \in Tasks |-> IF k \in S THEN "failed" ELSE outcome[k]]

(* An UPDATE of the session row of a task's thread; without a row it writes nothing. *)
MarkSession(k, status) ==
    session' = [session EXCEPT ![Home(k)] = IF @ = "none" THEN @ ELSE status]

(* The lock is taken from _locks, or made, before the first await. *)
Begin(k) ==
    LET t == Home(k)
        l == IF locks[t] = NoTask THEN k ELSE locks[t] IN
    /\ Goto(k, "created", "marking")
    /\ locks' = [locks EXCEPT ![t] = l]
    /\ lockOf' = [lockOf EXCEPT ![k] = l]
    /\ UNCHANGED <<rows, life, submit, active, outcome, stopVars, past>>

(* Mutant: the status of the run is written to the request. *)
MarkRequestRunning(k) ==
    /\ Goto(k, "marking", "waiting")
    /\ request' = [request EXCEPT ![Req(k)] = "running"]
    /\ UNCHANGED <<session, stale, run, life, submit, table, stopVars, past>>

MarkRunning(k) ==
    /\ Goto(k, "marking", "waiting")
    /\ run' = [run EXCEPT ![Req(k)] = "running"]
    /\ UNCHANGED <<session, stale, request, life, submit, table, stopVars, past>>

(* asyncio.Lock wakes its waiters in order; the model lets any of them go. *)
Acquire(k) ==
    /\ ~Held(lockOf[k])
    /\ Goto(k, "waiting", "loading")
    /\ UNCHANGED <<rows, life, submit, table, stopVars, past>>

(* get_agent_session decides between an existing session and a new one. *)
Load(k) ==
    /\ Goto(k, "loading", IF session[Home(k)] = "none" THEN "opening" ELSE "gating")
    /\ UNCHANGED <<rows, life, submit, table, stopVars, past>>

(* The communication gate keeps silent, or could not decide. *)
Ignore(k) ==
    /\ Req(k) \in Optional
    /\ Goto(k, "gating", "closing")
    /\ outcome' = [outcome EXCEPT ![k] = "ignored"]
    /\ UNCHANGED <<rows, life, submit, lockOf, locks, active, stopVars, past>>

(* A directive for another model, a ValueError of the parser, or one of the *)
(* result's artifact marker; a reply that raises leaves the status "failed". *)
Reject(k) ==
    /\ \E from \in {"opening", "gating", "publishing"} : Goto(k, from, "closing")
    /\ \E status \in {"rejected", "failed"} : outcome' = [outcome EXCEPT ![k] = status]
    /\ UNCHANGED <<rows, life, submit, lockOf, locks, active, stopVars, past>>

(* create_agent_session: INSERT; a row made since Load is an IntegrityError. *)
OpenSession(k) ==
    LET t == Home(k) IN
    /\ \/ /\ session[t] = "none"
          /\ Goto(k, "opening", "admitting")
          /\ session' = [session EXCEPT ![t] = "idle"]
          /\ stale' = [stale EXCEPT ![t] = FALSE]
       \/ /\ session[t] # "none"
          /\ Goto(k, "opening", "failing")
          /\ UNCHANGED <<session, stale>>
    /\ UNCHANGED <<request, run, life, submit, table, stopVars, past>>

Admit(k) ==
    /\ Goto(k, "gating", "admitting")
    /\ UNCHANGED <<rows, life, submit, table, stopVars, past>>

(* start_agent_turn, then the control is registered and the VPN is asked for the *)
(* environment, before the try block whose finally removes the control.          *)
StartTurn(k) ==
    /\ Goto(k, "admitting", "equipping")
    /\ MarkSession(k, "running")
    /\ active' = [active EXCEPT ![Home(k)] = k]
    /\ UNCHANGED <<stale, request, run, life, submit, lockOf, locks, outcome, stopVars,
                   past>>

Equip(k) ==
    /\ Goto(k, "equipping", "turn")
    /\ UNCHANGED <<rows, life, submit, table, stopVars, past>>

(* Whoever leaves a turn early: its own finally, or the recovery's pop by key. *)
Deregistered(t, S) ==
    IF \E k \in S : /\ Home(k) = t
                    /\ \/ pc[k] = "turn" /\ active[t] = k
                       \/ pc[k] = "recovering"
    THEN NoTask ELSE active[t]

(* Mutant: no finally clause around the turn removes its control. *)
TurnEndsRegistered(k) ==
    /\ Goto(k, "turn", "publishing")
    /\ UNCHANGED <<rows, life, submit, table, stopVars, past>>

(* The turn ends with a result; a control that is no longer ours stays. *)
TurnEnds(k) ==
    /\ Goto(k, "turn", "publishing")
    /\ active' = [active EXCEPT ![Home(k)] = IF @ = k THEN NoTask ELSE @]
    /\ UNCHANGED <<rows, life, submit, lockOf, locks, outcome, stopVars, past>>

(* The completion gate returns the answer to the worker, at most twice. *)
Recover(k) ==
    /\ Goto(k, "publishing", "recovering")
    /\ active' = [active EXCEPT ![Home(k)] = k]
    /\ UNCHANGED <<rows, life, submit, lockOf, locks, outcome, stopVars, past>>

(* Its control is removed by key, whoever registered the current one. *)
Recovered(k) ==
    /\ Goto(k, "recovering", "publishing")
    /\ active' = [active EXCEPT ![Home(k)] = NoTask]
    /\ UNCHANGED <<rows, life, submit, lockOf, locks, outcome, stopVars, past>>

Publish(k) ==
    /\ Goto(k, "publishing", "saving")
    /\ answers' = [answers EXCEPT ![Req(k)] = @ + 1]
    /\ UNCHANGED <<rows, life, submit, table, stopVars, dropped, stopped, doubled, abandoned>>

SaveTurn(k) ==
    /\ Goto(k, "saving", "closing")
    /\ MarkSession(k, "idle")
    /\ stale' = [stale EXCEPT ![Home(k)] = FALSE]
    /\ outcome' = [outcome EXCEPT ![k] = "completed"]
    /\ UNCHANGED <<request, run, life, submit, lockOf, locks, active, stopVars, past>>

(* Any other exception leaves the lock and reaches an except clause. *)
Raise(k) ==
    /\ \E from \in InLock : Goto(k, from, "failing")
    /\ active' = [t \in Threads |-> Deregistered(t, {k})]
    /\ UNCHANGED <<rows, life, submit, lockOf, locks, outcome, stopVars, past>>

(* fail_agent_turn runs after the lock is released. *)
FailTurn(k) ==
    /\ Goto(k, "failing", "closing")
    /\ MarkSession(k, "failed")
    /\ UNCHANGED <<stale, request, run, life, submit, table, stopVars, past>>

(* Mutant: every cancellation is taken for a stop. *)
CancelTurnForGood(k) ==
    /\ Goto(k, "cancelling", "closing")
    /\ MarkSession(k, "cancelled")
    /\ outcome' = [outcome EXCEPT ![k] = "cancelled"]
    /\ UNCHANGED <<stale, request, run, life, submit, lockOf, locks, active, stopVars,
                   past>>

(* Mutant: the cancelled task waits for what its stop holds while it waits. *)
CancelTurnAfterStop(k) == Home(k) \notin manual /\ CancelTurnForGood(k)

(* cancel_agent_turn, then _manual_cancellations tells a stop from a restart. *)
CancelTurn(k) ==
    /\ Goto(k, "cancelling", "closing")
    /\ MarkSession(k, "cancelled")
    /\ outcome' = [outcome EXCEPT ![k] =
                     IF Home(k) \in manual THEN "cancelled" ELSE "interrupted"]
    /\ UNCHANGED <<stale, request, run, life, submit, lockOf, locks, active, stopVars,
                   past>>

(* An exception other than SlackApiError from the calls that clear the status and   *)
(* set the reaction: the rest of the finally block, and its writes, are skipped.    *)
BreakOff(k) ==
    /\ Goto(k, "closing", "done")
    /\ abandoned' = abandoned \cup {Req(k)}
    /\ Gone({k})
    /\ UNCHANGED <<rows, life, submit, locks, active, stopVars, answers, dropped, stopped,
                   doubled>>

CloseRequest(k) ==
    /\ Goto(k, "closing", "closingRun")
    /\ request' = [request EXCEPT ![Req(k)] = outcome[k]]
    /\ UNCHANGED <<session, stale, run, life, submit, table, stopVars, past>>

(* set_durable_agent_run_status; then the entry of _locks goes when our lock is *)
(* free, whoever has taken the lock from the table and is about to wait for it. *)
CloseRun(k) ==
    /\ Goto(k, "closingRun", "done")
    /\ run' = [run EXCEPT ![Req(k)] = outcome[k]]
    /\ locks' = [locks EXCEPT ![Home(k)] = IF Held(lockOf[k]) THEN @ ELSE NoTask]
    /\ Gone({k})
    /\ UNCHANGED <<session, stale, request, life, submit, active, stopVars, past>>

Process(k) ==
    \/ Begin(k) \/ MarkRunning(k) \/ Acquire(k) \/ Load(k) \/ Ignore(k) \/ Reject(k)
    \/ OpenSession(k) \/ Admit(k) \/ StartTurn(k) \/ Equip(k) \/ TurnEnds(k)
    \/ Recover(k) \/ Recovered(k) \/ Publish(k) \/ SaveTurn(k) \/ Raise(k)
    \/ FailTurn(k) \/ CancelTurn(k) \/ BreakOff(k) \/ CloseRequest(k) \/ CloseRun(k)
------------------------------------------------------------------------------
(* cancel(), close() and the commands of the owner and the administrator. *)

(* Where a CancelledError takes a task.  Before its try block it ends at once; *)
(* in the try block it reaches the except clause; inside an except clause it   *)
(* reaches the finally block, whose own awaits it cuts short.                  *)
CancelledAt(stage) ==
    IF stage \in InLock \cup {"waiting"} THEN "cancelling"
    ELSE IF stage \in {"failing", "cancelling"} THEN "closing"
    ELSE "done"

(* Task.cancel() on a set of working tasks; a turn's finally clears its control. *)
CancelTasks(S) ==
    /\ pc' = [k \in Tasks |-> IF k \in S THEN CancelledAt(pc[k]) ELSE pc[k]]
    /\ active' = [t \in Threads |-> Deregistered(t, S)]
    /\ Gone({k \in S : CancelledAt(pc[k]) = "done"})

(* cancel(): a stop that finds no task answers so and does nothing. *)
Stop(s, t) ==
    LET S == {k \in Tasks : Home(k) = t /\ Working(k)} IN
    /\ Accepting
    /\ stopping[s] = {}
    /\ S # {}
    /\ manual' = manual \cup {t}
    /\ stopping' = [stopping EXCEPT ![s] = S]
    /\ stopped' = stopped \cup {Req(k) : k \in S}
    /\ CancelTasks(S)
    /\ UNCHANGED <<rows, life, submit, locks, answers, dropped, doubled, abandoned>>

(* Mutant: cancel() keeps the key in _manual_cancellations. *)
StopEndMarked(s) ==
    /\ stopping[s] # {}
    /\ \A k \in stopping[s] : ~Working(k)
    /\ stopping' = [stopping EXCEPT ![s] = {}]
    /\ UNCHANGED <<rows, life, submit, pc, table, manual, past>>

(* gather() has returned: the key is discarded and the user told "stopped". *)
StopEnd(s) ==
    /\ stopping[s] # {}
    /\ \A k \in stopping[s] : ~Working(k)
    /\ manual' = manual \ {Home(k) : k \in stopping[s]}
    /\ stopping' = [stopping EXCEPT ![s] = {}]
    /\ UNCHANGED <<rows, life, submit, pc, table, past>>

(* close_agent_session, from the page after a stop or from the Jira loop without one. *)
CloseSession(t) ==
    /\ Accepting
    /\ t \in Closable
    /\ session[t] # "closed"
    /\ session' = [session EXCEPT ![t] = IF @ = "none" THEN @ ELSE "closed"]
    /\ request' = [m \in Requests |->
                     IF ThreadOf[m] = t /\ request[m] = "queued" THEN "cancelled"
                     ELSE request[m]]
    /\ UNCHANGED <<stale, run, life, memory, past>>

(* 24 hours without activity in a thread; a turn may wait that long for quota. *)
TimePasses(t) ==
    /\ t \in Ageing
    /\ session[t] # "none"
    /\ stale' = [stale EXCEPT ![t] = TRUE]
    /\ UNCHANGED <<session, request, run, life, memory, past>>
------------------------------------------------------------------------------
(* The process: start, orderly stop, crash. *)

(* recover_interrupted_agent_work, then Slack events and pages are served. *)
Boot ==
    /\ service = "down"
    /\ boots < MaxBoots
    /\ boots' = boots + 1
    /\ service' = "connected"
    /\ session' = [t \in Threads |-> IF session[t] = "running" THEN "cancelled" ELSE session[t]]
    /\ request' = [m \in Requests |-> IF request[m] = "queued" THEN "cancelled" ELSE request[m]]
    /\ UNCHANGED <<stale, run, memory, past>>

(* Mutant: rows are listed again while the process serves. *)
ResumeAgain ==
    /\ service \in {"connected", "serving"}
    /\ service' = "serving"
    /\ pc' = [k \in Tasks |-> IF k[2] = "resumed" /\ run[Req(k)] \in Resumable /\ ~Working(k)
                              THEN "created" ELSE pc[k]]
    /\ UNCHANGED <<rows, boots, submit, table, stopVars, past>>

(* Mutant: rows that were running are taken for finished. *)
ResumeQueued ==
    /\ service = "connected"
    /\ service' = "serving"
    /\ pc' = [k \in Tasks |-> IF k[2] = "resumed" /\ run[Req(k)] = "queued"
                              THEN "created" ELSE pc[k]]
    /\ UNCHANGED <<rows, boots, submit, table, stopVars, past>>

(* resume_interrupted: one task for every row that is not settled. *)
Resume ==
    /\ service = "connected"
    /\ service' = "serving"
    /\ pc' = [k \in Tasks |-> IF k[2] = "resumed" /\ run[Req(k)] \in Resumable
                              THEN "created" ELSE pc[k]]
    /\ UNCHANGED <<rows, boots, submit, table, stopVars, past>>

(* close() cancels the tasks it knows; handlers go on until the loop ends. *)
Shutdown ==
    LET S == {k \in Tasks : Working(k)} IN
    /\ service = "serving"
    /\ boots < MaxBoots
    /\ service' = "stopping"
    /\ stopping' = [stopping EXCEPT !["close"] = S]
    /\ CancelTasks(S)
    /\ UNCHANGED <<rows, boots, submit, locks, manual, past>>

Unsaved == {m \in Requests : submit[m] # "idle" /\ run[m] = "none"}

(* asyncio.run cancels what is left: handlers, and tasks they made meanwhile.   *)
(* A cancel() cut short here leaves its key in _manual_cancellations.           *)
Exit ==
    /\ service = "stopping"
    /\ \A k \in stopping["close"] : ~Working(k)
    /\ service' = "exiting"
    /\ submit' = [m \in Requests |-> "idle"]
    /\ dropped' = dropped \cup Unsaved
    /\ stopping' = [s \in Callers |-> {}]
    /\ CancelTasks({k \in Tasks : Working(k)})
    /\ UNCHANGED <<rows, boots, locks, manual, answers, stopped, doubled, abandoned>>

Forget ==
    /\ service' = "down"
    /\ submit' = [m \in Requests |-> "idle"]
    /\ pc' = [k \in Tasks |-> "absent"]
    /\ lockOf' = [k \in Tasks |-> NoTask]
    /\ locks' = [t \in Threads |-> NoTask]
    /\ active' = [t \in Threads |-> NoTask]
    /\ outcome' = [k \in Tasks |-> "failed"]
    /\ manual' = {}
    /\ stopping' = [s \in Callers |-> {}]
    /\ abandoned' = {}
    /\ UNCHANGED <<rows, boots, answers, stopped, doubled>>

Halt ==
    /\ service = "exiting"
    /\ \A k \in Tasks : ~Working(k)
    /\ UNCHANGED dropped
    /\ Forget

Crash ==
    /\ service # "down"
    /\ boots < MaxBoots
    /\ dropped' = dropped \cup Unsaved
    /\ Forget
------------------------------------------------------------------------------
Next ==
    \/ \E m \in Requests : Refuse(m) \/ Claim(m) \/ Submit(m)
    \/ \E k \in Tasks : Process(k)
    \/ \E s \in Stops : StopEnd(s) \/ \E t \in Threads : Stop(s, t)
    \/ \E t \in Threads : CloseSession(t) \/ TimePasses(t)
    \/ Boot \/ Resume \/ Shutdown \/ Exit \/ Halt \/ Crash

Spec == Init /\ [][Next]_vars

(* Every coroutine that can go on does; a provider turn ends (the CLI has a    *)
(* timeout, the allowance comes back); the lock is handed out in order and the *)
(* completion gate returns an answer at most twice, hence SF; systemd restarts *)
(* the process.                                                                *)
Fairness ==
    /\ \A m \in Requests : WF_vars(Submit(m))
    /\ \A k \in Tasks : /\ WF_vars(Process(k))
                         /\ SF_vars(Acquire(k))
                         /\ SF_vars(Publish(k))
    /\ \A s \in Stops : WF_vars(StopEnd(s))
    /\ WF_vars(Boot) /\ WF_vars(Resume) /\ WF_vars(Exit) /\ WF_vars(Halt)

FairSpec == Spec /\ Fairness
------------------------------------------------------------------------------
(* A message refused because its session expired or was closed leaves nothing  *)
(* behind that could start a paid turn, in this life or after a restart        *)
(* (prepare_agent_request, and the early return of submit).                    *)
ExpiredNeverRuns ==
    \A m \in Requests : request[m] = "expired" =>
        /\ submit[m] = "idle"
        /\ run[m] = "none"
        /\ \A k \in Tasks : Req(k) = m => pc[k] = "absent"

(* Guidance given to a running turn is not run again as a turn of its own after *)
(* a restart (a message with files is the exception: its run row comes first).  *)
SteeredIsNeverRun ==
    \A m \in Requests \ Files : request[m] = "steered" =>
        /\ run[m] = "none"
        /\ \A k \in Tasks : Req(k) = m => pc[k] = "absent"

ThreadStopped(t) == \E n \in stopped : ThreadOf[n] = t

(* A run is recorded as completed only after its answer was published, and as  *)
(* cancelled only in a thread somebody stopped: a restart alone never settles   *)
(* the work it interrupts (request_status in _process, cancel).                 *)
SettledForAReason ==
    \A m \in Requests :
        /\ run[m] = "completed" => answers[m] > 0
        /\ run[m] = "cancelled" => ThreadStopped(ThreadOf[m])

(* No claimed request is lost: it was refused, answered by a link, used as      *)
(* guidance, has a durable row, or is still in submit(); except the claims whose *)
(* submit() died before the first row was saved.                                *)
Accounted ==
    \A m \in Requests :
        \/ request[m] \in {"none", "expired", "reused", "steered"}
        \/ run[m] # "none"
        \/ submit[m] # "idle"
        \/ m \in dropped

(* A turn that has its result has given up its control: no later message is     *)
(* handed to a turn that is publishing (the finally clause around the turn and  *)
(* the one of the completion recovery).                                         *)
AnsweredTurnHasNoControl ==
    \A t \in Threads : active[t] # NoTask =>
        /\ pc[active[t]] \notin {"publishing", "saving"}
        /\ outcome[active[t]] \notin {"completed", "rejected", "ignored"}

(* A thread is marked as being stopped only while a stop is waiting for its     *)
(* tasks, until the loop itself ends; a mark left behind would turn the restart *)
(* of every later turn of the thread into a stop.                               *)
ManualIsOwned ==
    service # "exiting" =>
        \A t \in manual : \E s \in Stops : \E k \in stopping[s] : Home(k) = t

(* A life of the process publishes at most one answer to a request; once in all    *)
(* it may publish two, for a request whose row was saved before the restart had    *)
(* listed its rows (connect_async comes before resume_interrupted, main.py:289).   *)
OneAnswerPerLife ==
    \A m \in Requests : answers[m] <= boots + (IF m \in doubled THEN 1 ELSE 0)

(* A request is never worked on by two tasks, except one whose row was saved before *)
(* the restart had listed its rows: that one is submitted and resumed.              *)
OneTaskPerRequest ==
    \A m \in Requests \ doubled :
        ~(Working(<<m, "submitted">>) /\ Working(<<m, "resumed">>))

(* Only a task that was already in the thread takes its session out of          *)
(* 'expired' or 'closed'; a new message never does.                             *)
ReopenedOnlyInFlight ==
    [][\A t \in Threads :
        session[t] \in {"expired", "closed"} /\ session'[t] \notin {"expired", "closed"}
            => \E k \in Tasks : Home(k) = t /\ Working(k)]_vars

(* What was accepted is settled in the end, across restarts and however many     *)
(* tasks contend for its thread, unless a stop reached a task of it, or the last   *)
(* life abandoned it: an exception cut the end of its task or its submit() short.  *)
RunsSettle ==
    \A m \in Requests :
        run[m] \in Resumable ~>
            run[m] \in Settled \cup {"steered"} \/ m \in stopped \cup abandoned

(* The stop command always answers: the tasks it waits for do end. *)
StopsReturn == \A s \in Stops : stopping[s] # {} ~> stopping[s] = {}
------------------------------------------------------------------------------
(* README.md:196, "messages in one thread execute serially". *)
TurnStages == {"equipping", "turn", "recovering"}
SerialTurns ==
    \A j, k \in Tasks :
        j # k /\ Home(j) = Home(k) => ~(pc[j] \in TurnStages /\ pc[k] \in TurnStages)
==============================================================================
