----------------------------- MODULE HeadlessRuns -----------------------------
(***************************************************************************)
(* Headless turns: the scheduled workflows that run agent turns without a  *)
(* Slack thread, their durable rows in scheduled_agent_runs, and the        *)
(* recovery of unfinished rows when the service starts (main.py 289-577).   *)
(*                                                                         *)
(* A workflow is a chain of turns, each handed to the next in memory only:  *)
(*   finalizer   start, prep, review, then one post                         *)
(*   planner     the same (experiment design and experiment analytics)      *)
(*   digest      forecast, format, then one post                            *)
(*   audit       one turn, then a direct message                            *)
(* One coroutine at a time runs a chain: the schedule loop when the service *)
(* serves, the main task while it recovers (the loops do not exist yet).    *)
(***************************************************************************)
EXTENDS Naturals, Sequences

CONSTANTS
    Chains,     \* the workflows a behaviour may be about
    Crashes,    \* bound: losses and orderly stops of the process
    Stops,      \* bound: turns stopped or closed by the administrator
    Faults      \* bound: errors of providers, Slack and Jira

ASSUME HeadlessAssumption ==
    /\ Chains \subseteq {"finalizer", "planner", "digest", "audit"}
    /\ Crashes \in Nat /\ Stops \in Nat /\ Faults \in Nat

VARIABLES
    chain,      \* the workflow of this behaviour
    rows,       \* scheduled_agent_runs, in the order of created_at
    flow,       \* where the coroutine that runs the chain is
    proc,       \* the service process
    agenda,     \* what the recovery has still to do
    schedule,   \* the schedule loop of the workflow
    due,        \* bound: the schedule fires once
    label,      \* the label of the epic routes its notices to the channel of the debt
    posts,      \* posts in Slack of each kind
    archived,   \* digest posts the archive has stored
    missed,     \* history: a recovery could not see a digest, posted or put off
    aged,       \* bound: once more than 24 hours pass
    crashes, stops, faults

vars == <<chain, label, rows, flow, proc, agenda, schedule, due, posts, archived,
          missed, aged, crashes, stops, faults>>

-----------------------------------------------------------------------------
(* The statuses that list_interrupted_scheduled_agent_runs selects.         *)
Unfinished == {"running", "interrupted", "recovered"}

(* Start and review share one job name, so a restart cannot tell a row of   *)
(* the one from a row of the other but by its text.                         *)
Job == [start |-> "reviewer", prep |-> "preparer", review |-> "reviewer",
        forecast |-> "forecaster", format |-> "formatter", audit |-> "auditor"]

(* The terminal results accept_result lets a turn of each stage end with: one  *)
(* marker, and no text that holds two.  A planner's start cannot find nothing, *)
(* for it is told its task; only the finalizer's may be followed by the lines *)
(* of its forecasts ("forecasted").                                          *)
StartAnswers ==
    {"started", "failure"} \cup {t \in {"forecasted", "noop"} : chain = "finalizer"}
PrepAnswers == {"prepared", "failure", "noop"}
ReviewAnswers == {"notice", "failure"}

Answers(stage) ==
    CASE stage = "start"    -> StartAnswers
      [] stage = "prep"     -> PrepAnswers
      [] stage = "review"   -> ReviewAnswers
      [] stage = "forecast" -> {"forecast"}
      [] stage = "format"   -> {"digest"}
      [] stage = "audit"    -> {"report", "clean"}

(* The stage the schedule begins with.                                      *)
First == [finalizer |-> "start", planner |-> "start",
          digest |-> "forecast", audit |-> "audit"]

(* The job names whose rows the recovery lists, in its order.               *)
Lists == [finalizer |-> <<"reviewer", "preparer">>,
          planner   |-> <<"reviewer", "preparer">>,
          digest    |-> <<"formatter", "forecaster">>,
          audit     |-> <<"auditor">>]

Kinds == {"notice", "failure", "noop", "digest", "report"}

(* A notice posted in the channel of the debt is counted apart.              *)
Posted == Kinds \cup {"debt"}

(* split_maturity_forecasts: run_once takes the forecasts off a start.       *)
Terminal(text) == IF text = "forecasted" THEN "started" ELSE text

(* row is the row of the turn, run the recovered run that the chain continues. *)
Idle == [at |-> "idle", stage |-> "none", by |-> "none", text |-> "none", row |-> 0,
         run |-> 0]

(* The rows of a list that wait to be resumed, and those that were recovered.  *)
(* Both are taken in the order of created_at, which is that of the rows.       *)
NoAgenda == [list |-> 0, queue |-> {}, got |-> {}, any |-> FALSE, out |-> 0]
Oldest(r, runs) == r \in runs /\ \A q \in runs : r <= q

Init ==
    /\ chain \in Chains
    /\ rows = <<>>
    /\ flow = Idle
    /\ proc = "serving"
    /\ agenda = NoAgenda
    /\ schedule = "alive"
    /\ due = TRUE
    /\ label \in {l \in BOOLEAN : l => chain = "finalizer"}
    /\ posts = [k \in Posted |-> 0]
    /\ archived = 0
    /\ missed = FALSE
    /\ aged = FALSE
    /\ crashes = 0 /\ stops = 0 /\ faults = 0

-----------------------------------------------------------------------------
(* finish_scheduled_agent_run: a result that is not given is kept, and a row  *)
(* that the administrator deleted stays deleted.                             *)
Closed(table, r, status, text) ==
    IF table[r].status = "deleted" THEN table
    ELSE [table EXCEPT ![r].status = status,
                       ![r].text = IF text = "none" THEN @ ELSE text]

Fault == faults < Faults /\ faults' = faults + 1

(* The loss of the process: what was handed on in memory is gone.            *)
Gone ==
    /\ proc' = "down"
    /\ flow' = Idle
    /\ agenda' = NoAgenda
    /\ schedule' = "alive"

(* A loop over recovered runs is done with its run.                          *)
NextGot == [agenda EXCEPT !.got = @ \ {flow.run}]

(* The flow is over.  The schedule loop waits for its next day; a recovery   *)
(* closes the run that it continued.                                         *)
Ended(table, status) ==
    /\ flow' = Idle
    /\ \/ /\ flow.by = "schedule"
          /\ rows' = table
          /\ UNCHANGED agenda
       \/ /\ flow.by = "continue"
          /\ rows' = Closed(table, flow.run, status, "none")
          /\ agenda' = NextGot

(* Mutant: a run that could not be continued is left as it is.               *)
EndedAndKept(table, status) ==
    /\ flow' = Idle
    /\ rows' = table
    /\ \/ flow.by = "schedule" /\ UNCHANGED agenda
       \/ flow.by = "continue" /\ agenda' = NextGot

(* Mutant: the handlers do not store the outcome.                            *)
RefusedAndKept(table) == EndedAndKept(table, "failed") /\ UNCHANGED <<proc, schedule>>

(* An Invalid... error leaves the chain: a schedule loop logs it; the loops  *)
(* of the recovery mark the run they continued as failed.                     *)
Refused(table) == Ended(table, "failed") /\ UNCHANGED <<proc, schedule>>

(* Any other error: a schedule loop logs it.  Of the recovery's loops only   *)
(* the one over forecasts catches it, and puts its run off; else serve()     *)
(* raises and the process ends.                                              *)
Broken(table) ==
    \/ flow.by = "schedule" /\ Ended(table, "failed") /\ UNCHANGED <<proc, schedule>>
    \/ /\ flow.by = "continue" /\ chain = "digest" /\ rows[flow.run].stage = "forecast"
       /\ Ended(table, "interrupted")
       /\ UNCHANGED <<proc, schedule>>
    \/ /\ flow.by = "continue"
       /\ ~(chain = "digest" /\ rows[flow.run].stage = "forecast")
       /\ rows' = table
       /\ Gone

(* A turn of the chain raised: the digest does without its forecast, which    *)
(* becomes a note, and without its formatter, whose draft is posted; the       *)
(* others end.                                                               *)
NoForecast == [flow EXCEPT !.at = "create", !.stage = "format"]
DraftAsItIs == [flow EXCEPT !.at = "publish", !.text = "digest"]

Raised(table) ==
    \/ /\ flow.stage \in {"forecast", "format"}
       /\ flow' = IF flow.stage = "forecast" THEN NoForecast ELSE DraftAsItIs
       /\ rows' = table
       /\ UNCHANGED <<proc, agenda, schedule>>
    \/ flow.stage \notin {"forecast", "format"} /\ Broken(table)

-----------------------------------------------------------------------------
Starts == [Idle EXCEPT !.at = "create", !.stage = First[chain], !.by = "schedule"]

(* The planners first look for a task, and may find none.  A task whose epic  *)
(* is set up wrongly is reported and the next one is looked at; an error of    *)
(* the selection is reported and ends the run.                               *)
Selects ==
    /\ chain = "planner"
    /\ flow' \in {flow, Starts}
    /\ \/ UNCHANGED <<posts, faults>>
       \/ Fault /\ posts' = [posts EXCEPT !["failure"] = @ + 1]

(* Without quota the digest is left to an ordinary thread turn, which waits   *)
(* for it.                                                                   *)
LeftToThread == chain = "digest" /\ UNCHANGED <<flow, posts, faults>>

(* The schedule fires.                                                       *)
Trigger ==
    /\ proc = "serving" /\ schedule = "alive" /\ due /\ flow = Idle
    /\ due' = FALSE
    /\ \/ Selects
       \/ chain # "planner" /\ flow' = Starts /\ UNCHANGED <<posts, faults>>
       \/ LeftToThread
    /\ UNCHANGED <<chain, label, rows, proc, agenda, schedule, archived, missed, aged,
                   crashes, stops>>

(* execute_once stores the row, then starts the provider.  Of the turns of a  *)
(* preparation only the first has the start in its prompt: a retry is told the *)
(* failure before it.                                                        *)
Create ==
    /\ flow.at = "create"
    /\ rows' = Append(rows, [stage |-> flow.stage, status |-> "running", text |-> "none",
                             marked |-> flow.text = "started",
                             after |-> posts["digest"], old |-> FALSE])
    /\ flow' = [flow EXCEPT !.at = "turn", !.row = Len(rows) + 1, !.text = "none"]
    /\ UNCHANGED <<chain, label, proc, agenda, schedule, due, posts, archived, missed, aged,
                   crashes, stops, faults>>

(* The turn of execute_once ends with an accepted result; for the finalizer  *)
(* failure_result makes a failure text a failed run.                         *)
TurnAnswers ==
    /\ flow.at = "turn" /\ flow.by # "resume"
    /\ \E t \in Answers(flow.stage) :
         /\ rows' = Closed(rows, flow.row,
                           IF t = "failure" /\ chain = "finalizer" THEN "failed"
                                                                   ELSE "completed", t)
         /\ flow' = [flow EXCEPT !.at = "next", !.text = Terminal(t)]
    /\ UNCHANGED <<chain, label, proc, agenda, schedule, due, posts, archived, missed, aged,
                   crashes, stops, faults>>

(* It fails: out of retries or without an accepted result (failed), stopped  *)
(* by the infrastructure (paused), with a broken artifact marker, which is    *)
(* found after the handlers (still running), or, for the formatter, cut off  *)
(* by its wait_for (interrupted).                                            *)
TurnFails ==
    /\ flow.at = "turn" /\ flow.by # "resume"
    /\ Fault
    /\ \E s \in {"failed", "paused", "running", "interrupted"} :
         /\ s = "interrupted" => flow.stage = "format"
         /\ Raised(Closed(rows, flow.row, s, "none"))
    /\ UNCHANGED <<chain, label, due, posts, archived, missed, aged, crashes, stops>>

(* A transient ClickHouse failure, or a start that overlooked its page, is   *)
(* answered with one more turn of the same session, in a row of its own.     *)
TryAgain ==
    /\ flow.at = "next" /\ flow.text = "failure" /\ chain = "finalizer"
    /\ rows[flow.row].status = "failed"
    /\ Fault
    /\ flow' = [flow EXCEPT !.at = "create"]
    /\ UNCHANGED <<chain, label, rows, proc, agenda, schedule, due, posts, archived, missed, aged,
                   crashes, stops>>

-----------------------------------------------------------------------------
(* Mutant: only a preparation that is still unfinished counts.               *)
UnfinishedPreparation ==
    \E r \in DOMAIN rows :
        rows[r].stage = "prep" /\ rows[r].marked /\ rows[r].status \in Unfinished

(* has_scheduled_agent_run_with_prompt_marker: some row holds the start in    *)
(* the prompt of its preparation, whatever became of it.                     *)
HasPreparation ==
    \E r \in DOMAIN rows :
        rows[r].stage = "prep" /\ rows[r].marked /\ rows[r].status # "deleted"

(* The recovered start of the finalizer is handed on once; a start of the    *)
(* planners, or of the schedule, always.                                     *)
HandsOver == flow.by = "continue" /\ chain = "finalizer" => ~HasPreparation

(* The next turn of the chain.                                               *)
Step(stage) ==
    /\ flow' = [flow EXCEPT !.at = "create", !.stage = stage]
    /\ UNCHANGED <<rows, proc, agenda, schedule, posts>>

(* The stage of a recovered run: start and review have one job name, and only  *)
(* a text that is the start and nothing else is taken for one.               *)
Reached(r) ==
    IF Job[rows[r].stage] # "reviewer" THEN rows[r].stage
    ELSE IF rows[r].text = "started" THEN "start" ELSE "review"

Post(kind) == posts' = [posts EXCEPT ![kind] = @ + 1]

(* After a start: the page is checked against Jira, a wrong one is reported;  *)
(* a planner's start must be of the task that was selected.  A start that      *)
(* failed or found nothing goes no further.                                   *)
AfterStart ==
    /\ flow.at = "next" /\ flow.text \in {"started", "noop", "failure"}
    /\ flow.stage = "start"
    /\ \/ flow.text = "started" /\ HandsOver /\ Step("prep") /\ UNCHANGED faults
       \/ /\ flow.text = "started" /\ ~HandsOver
          /\ Ended(rows, "completed")
          /\ UNCHANGED <<proc, schedule, posts, faults>>
       \/ /\ flow.text = "started" /\ HandsOver /\ chain = "finalizer"
          /\ Fault /\ Post("failure") /\ Refused(rows)
       \/ /\ flow.text = "started" /\ chain = "planner" /\ flow.by = "schedule"
          /\ Fault /\ UNCHANGED posts /\ Refused(rows)
       \/ /\ flow.text = "noop"
          /\ flow' = [flow EXCEPT !.at = "publish"]
          /\ UNCHANGED <<rows, proc, agenda, schedule, posts, faults>>
       \/ flow.text = "failure" /\ Refused(rows) /\ UNCHANGED <<posts, faults>>
    /\ UNCHANGED <<chain, label, due, archived, missed, aged, crashes, stops>>

(* After a preparation: the review, once the planners have confirmed in Jira *)
(* that the claimed task is still the one selected.  A preparation that       *)
(* found nothing contradicts the selection, except that a planner's          *)
(* recovery lets it pass.                                                    *)
AfterPrep ==
    /\ flow.at = "next" /\ flow.stage = "prep"
    /\ \/ flow.text = "prepared" /\ Step("review") /\ UNCHANGED faults
       \/ /\ flow.text = "prepared" /\ chain = "planner"
          /\ Fault
          /\ UNCHANGED posts
          /\ \/ Refused(rows)
             \/ IF flow.by = "continue" /\ rows[flow.run].stage = "prep"
                THEN Refused(rows) ELSE Broken(rows)
       \/ /\ flow.text \in {"noop", "interim"}
          /\ IF chain = "planner" /\ flow.by = "continue" /\ flow.text = "noop"
                  /\ flow.row = flow.run
             THEN Ended(rows, "completed") /\ UNCHANGED <<proc, schedule>>
             ELSE Refused(rows)
          /\ UNCHANGED <<posts, faults>>
       \/ /\ flow.text = "failure"
          /\ IF chain = "planner" THEN Post("failure") ELSE UNCHANGED posts
          /\ Refused(rows)
          /\ UNCHANGED faults
    /\ UNCHANGED <<chain, label, due, archived, missed, aged, crashes, stops>>

(* The digest goes from its forecast to its formatter, whatever the text.    *)
AfterForecast == flow.stage = "forecast" /\ Step("format")

(* After a review, the digest's turns and the audit: publish, or stop where  *)
(* there is nothing to say.  A text that is no result is refused, by the     *)
(* audit with an error nobody catches; the planners report a recovered       *)
(* failure and refuse the run.                                               *)
AfterTurn ==
    /\ flow.at = "next" /\ flow.stage \in {"review", "forecast", "format", "audit"}
    /\ \/ AfterForecast
       \/ /\ flow.stage # "forecast" /\ flow.text \in Kinds
          /\ ~(chain = "planner" /\ flow.text = "failure" /\ flow.by = "continue"
                 /\ flow.row = flow.run)
          /\ flow' = [flow EXCEPT !.at = "publish"]
          /\ UNCHANGED <<rows, proc, agenda, schedule, posts>>
       \/ /\ chain = "planner" /\ flow.text = "failure" /\ flow.by = "continue"
          /\ flow.row = flow.run
          /\ Post("failure")
          /\ Refused(rows)
       \/ flow.text = "clean" /\ Ended(rows, "completed") /\ UNCHANGED <<proc, schedule, posts>>
       \/ /\ flow.text \in {"interim", "forecasted"} /\ flow.stage # "forecast"
          /\ IF flow.stage = "audit" THEN Broken(rows) ELSE Refused(rows)
          /\ UNCHANGED posts
    /\ UNCHANGED <<chain, label, due, archived, missed, aged, crashes, stops, faults>>

(* Mutant: publish_run posts without looking.                                *)
NeverPublished(place) == FALSE

(* find_existing_publication: the channel already has this experiment and    *)
(* iteration.  Only a notice has such a stable identity.                     *)
Published(place) == chain = "finalizer" /\ flow.text = "notice" /\ posts[place] > 0

(* channel_for_task: the notice goes by the epic's label if the flow still    *)
(* knows its task.  A recovered preparation or review does not.              *)
Routed ==
    /\ label /\ flow.text = "notice"
    /\ flow.by = "continue" => Reached(flow.run) = "start"

(* publish_run: post unless it is there, then attach the session.  Any problem *)
(* of Jira leaves the notice to the channel of the job.                      *)
Publish ==
    /\ flow.at = "publish"
    /\ \/ \E place \in {"debt", flow.text} :
             /\ place = "debt" => Routed
             /\ IF Routed /\ place # "debt" THEN Fault ELSE UNCHANGED faults
             /\ \/ /\ Published(place)
                   /\ Ended(rows, "completed")
                   /\ UNCHANGED <<proc, schedule, posts>>
                \/ /\ ~Published(place)
                   /\ Post(place)
                   /\ flow' = [flow EXCEPT !.at = "attach"]
                   /\ agenda' = [agenda EXCEPT !.out = IF flow.by = "continue" THEN @ + 1 ELSE @]
                   /\ UNCHANGED <<rows, proc, schedule>>
       \/ Fault /\ UNCHANGED posts /\ Broken(rows)
    /\ UNCHANGED <<chain, label, due, archived, missed, aged, crashes, stops>>

(* attach_session makes the post's thread a session, and the flow is over.   *)
Attach ==
    /\ flow.at = "attach"
    /\ Ended(rows, "completed")
    /\ UNCHANGED <<chain, label, proc, schedule, due, posts, archived, missed, aged,
                   crashes, stops, faults>>

-----------------------------------------------------------------------------
(* Mutant: only the formatter's rows are discarded.                          *)
DiscardsFormatter(r) ==
    /\ chain = "digest" /\ rows[r].stage = "format"
    /\ rows[r].old \/ archived > rows[r].after

(* discard_stale_runs: a digest of another day, or one whose post the         *)
(* archive already holds, is not resumed.                                    *)
Discards(r) == chain = "digest" /\ (rows[r].old \/ archived > rows[r].after)

(* Rows that abandon_stale_scheduled_agent_runs or discard_stale_runs gives   *)
(* up when the service starts.                                               *)
GivenUp ==
    [r \in DOMAIN rows |->
        IF rows[r].status \in Unfinished /\ (rows[r].old \/ Discards(r))
        THEN [rows[r] EXCEPT !.status = "abandoned"]
        ELSE rows[r]]

(* The service starts.                                                       *)
Boot ==
    /\ proc = "down"
    /\ proc' = "boot"
    /\ rows' = GivenUp
    /\ missed' = (missed \/ /\ posts["digest"] > archived
                             /\ \E r \in DOMAIN rows : GivenUp[r].status \in Unfinished)
    /\ UNCHANGED <<chain, label, flow, agenda, schedule, due, posts, archived, aged,
                   crashes, stops, faults>>

(* The unfinished rows of a job.                                             *)
Listed(job) ==
    {r \in DOMAIN rows : rows[r].status \in Unfinished /\ Job[rows[r].stage] = job}

(* resume_interrupted of the digest: after a formatter was recovered the      *)
(* forecasts are left alone, and the recovered ones closed once a digest is   *)
(* out.                                                                      *)
SkipsForecasts == chain = "digest" /\ agenda.list = 1 /\ agenda.any

Upstream ==
    [r \in DOMAIN rows |->
        IF agenda.out > 0 /\ rows[r].stage = "forecast" /\ rows[r].status = "recovered"
        THEN [rows[r] EXCEPT !.status = "completed"]
        ELSE rows[r]]

(* The recovery goes on to its next list of rows; after the last the service  *)
(* creates the schedule loops and serves.                                    *)
NextList ==
    /\ proc = "boot" /\ flow = Idle /\ agenda.queue = {} /\ agenda.got = {}
    /\ IF agenda.list < Len(Lists[chain]) /\ ~SkipsForecasts
       THEN /\ agenda' = [NoAgenda EXCEPT !.list = agenda.list + 1,
                                          !.queue = Listed(Lists[chain][agenda.list + 1])]
            /\ missed' = (missed \/ /\ chain = "digest" /\ agenda.list = 1
                                    /\ Listed("formatter") # {})
            /\ UNCHANGED <<rows, proc>>
       ELSE /\ rows' = IF SkipsForecasts THEN Upstream ELSE rows
            /\ agenda' = NoAgenda
            /\ proc' = "serving"
            /\ UNCHANGED missed
    /\ UNCHANGED <<chain, label, flow, schedule, due, posts, archived, aged,
                   crashes, stops, faults>>

(* resume_interrupted_headless takes its next row: one recovered before, with *)
(* a terminal text, as it is; any other runs again in its own session.       *)
TakeRow ==
    /\ proc = "boot" /\ flow = Idle
    /\ \E r \in agenda.queue :
         /\ Oldest(r, agenda.queue)
         /\ IF rows[r].status = "recovered" /\ rows[r].text # "interim"
            THEN /\ agenda' = [agenda EXCEPT !.queue = @ \ {r}, !.got = @ \cup {r},
                                             !.any = TRUE]
                 /\ UNCHANGED flow
            ELSE /\ flow' = [Idle EXCEPT !.at = "turn", !.stage = rows[r].stage,
                                         !.by = "resume", !.row = r]
                 /\ agenda' = [agenda EXCEPT !.queue = @ \ {r}]
    /\ UNCHANGED <<chain, label, rows, proc, schedule, due, posts, archived, missed, aged,
                   crashes, stops, faults>>

(* The resumed turn ends: recovered, with a terminal text or, after the last  *)
(* interim request, with any text; put off for the quota; or failed.          *)
Resumed ==
    /\ flow.at = "turn" /\ flow.by = "resume"
    /\ flow' = Idle
    /\ \/ /\ \E t \in Answers(flow.stage) : rows' = Closed(rows, flow.row, "recovered", t)
          /\ agenda' = [agenda EXCEPT !.got = @ \cup {flow.row}, !.any = TRUE]
          /\ UNCHANGED faults
       \/ /\ Fault
          /\ rows' = Closed(rows, flow.row, "recovered", "interim")
          /\ agenda' = [agenda EXCEPT !.got = @ \cup {flow.row}, !.any = TRUE]
       \/ /\ Fault
          /\ \E s \in {"interrupted", "failed"} : rows' = Closed(rows, flow.row, s, "none")
          /\ UNCHANGED agenda
    /\ UNCHANGED <<chain, label, proc, schedule, due, posts, archived, missed, aged,
                   crashes, stops>>

(* An error of the request for a final response is not caught: serve() raises. *)
ResumeBreaks ==
    /\ flow.at = "turn" /\ flow.by = "resume"
    /\ Fault
    /\ Gone
    /\ UNCHANGED <<chain, label, rows, due, posts, archived, missed, aged, crashes, stops>>

(* main.py takes the next recovered run up where its text says it stopped.    *)
Continue ==
    /\ proc = "boot" /\ flow = Idle /\ agenda.queue = {}
    /\ \E r \in agenda.got :
         /\ Oldest(r, agenda.got)
         /\ flow' = [at |-> "next", stage |-> Reached(r), by |-> "continue",
                     text |-> rows[r].text, row |-> r, run |-> r]
    /\ UNCHANGED <<chain, label, rows, proc, agenda, schedule, due, posts, archived, missed, aged,
                   crashes, stops, faults>>

-----------------------------------------------------------------------------
(* The administrator stops the running turn: cancel() cancels the task that   *)
(* runs it and records the stop in its row.  For the finalizer and the         *)
(* planners that is a task of its own; for the digest and the audit it is the *)
(* schedule loop, which ends; during the recovery it is serve().               *)
Stop ==
    /\ flow.at = "turn" /\ stops < Stops
    /\ stops' = stops + 1
    /\ rows' = IF flow.by = "resume" THEN rows ELSE Closed(rows, flow.row, "cancelled", "none")
    /\ IF flow.by = "schedule"
       THEN /\ flow' = Idle
            /\ schedule' = IF chain \in {"digest", "audit"} THEN "ended" ELSE schedule
            /\ UNCHANGED <<proc, agenda>>
       ELSE Gone
    /\ UNCHANGED <<chain, label, due, posts, archived, missed, aged, crashes, faults>>

(* The administrator closes a run that is not running: its row is deleted.    *)
Close ==
    /\ stops < Stops /\ proc # "down"
    /\ stops' = stops + 1
    /\ \E r \in DOMAIN rows :
         /\ ~(flow.at = "turn" /\ flow.row = r)
         /\ rows[r].status # "deleted"
         /\ rows' = [rows EXCEPT ![r].status = "deleted"]
    /\ UNCHANGED <<chain, label, flow, proc, agenda, schedule, due, posts, archived, missed, aged,
                   crashes, faults>>

(* The process is lost.                                                      *)
Crash ==
    /\ proc # "down" /\ crashes < Crashes
    /\ crashes' = crashes + 1
    /\ Gone
    /\ UNCHANGED <<chain, label, rows, due, posts, archived, missed, aged, stops, faults>>

(* An orderly stop cancels the schedule loops.  The recovery does not look at *)
(* stop_event, so it happens only when the service serves.                    *)
Shutdown ==
    /\ proc = "serving" /\ crashes < Crashes
    /\ crashes' = crashes + 1
    /\ rows' = IF flow.at = "turn" THEN Closed(rows, flow.row, "interrupted", "none") ELSE rows
    /\ Gone
    /\ UNCHANGED <<chain, label, due, posts, archived, missed, aged, stops, faults>>

(* The archive stores the digest's post: its Slack event, or a synchronization. *)
Archive ==
    /\ proc # "down" /\ archived < posts["digest"]
    /\ archived' = posts["digest"]
    /\ UNCHANGED <<chain, label, rows, flow, proc, agenda, schedule, due, posts, missed, aged,
                   crashes, stops, faults>>

(* More than 24 hours pass.                                                  *)
Age ==
    /\ ~aged /\ flow = Idle /\ rows # <<>> /\ proc # "boot"
    /\ aged' = TRUE
    /\ rows' = [r \in DOMAIN rows |-> [rows[r] EXCEPT !.old = TRUE]]
    /\ UNCHANGED <<chain, label, flow, proc, agenda, schedule, due, posts, archived, missed,
                   crashes, stops, faults>>

Next ==
    \/ Trigger \/ Create \/ TurnAnswers \/ TurnFails \/ TryAgain
    \/ AfterStart \/ AfterPrep \/ AfterTurn \/ Publish \/ Attach
    \/ Boot \/ NextList \/ TakeRow \/ Resumed \/ ResumeBreaks \/ Continue
    \/ Stop \/ Close \/ Crash \/ Shutdown \/ Archive \/ Age

Spec == Init /\ [][Next]_vars

-----------------------------------------------------------------------------
(* The start of a finalization is handed to a preparation once, however many *)
(* restarts fall between its turn, the hand-over and the end of the chain     *)
(* (main.py:331, "Recovered experiment finalizer start already has a          *)
(* preparation; skipping duplicate handoff"): a second preparation is only     *)
(* ever the retry of a failed one.  One loss is named: the administrator       *)
(* deleted the row that held the start.                                      *)
StartIsForgotten ==
    \E r \in DOMAIN rows :
        rows[r].stage = "prep" /\ rows[r].marked /\ rows[r].status = "deleted"

HandedOverOnce ==
    chain = "finalizer" /\ ~StartIsForgotten =>
        \A p, q \in DOMAIN rows :
            rows[p].stage = "prep" /\ rows[q].stage = "prep" /\ p # q =>
                \E r \in {p, q} : rows[r].status \in {"failed", "deleted"}

(* The result of a finalization is posted once, although both its review and *)
(* its preparation may be resumed and each would publish, and a loss may fall *)
(* between the post and the end of the row (experiment_finalizer.py:1131,     *)
(* "skipping duplicate Slack post").  A second notice is posted only for an   *)
(* epic whose label leads to the channel of the debt: a recovered turn does   *)
(* not know the task and looks, like one that Jira fails, in the channel of    *)
(* the job.  Then there is one in either channel, and never more.             *)
PublishedOnce ==
    chain = "finalizer" =>
        /\ posts["notice"] <= 1 /\ posts["debt"] <= 1
        /\ posts["debt"] > 0 => label

(* A second digest of the day is posted only when the service started before  *)
(* the archive held the first, or went on to the forecasts with a formatter   *)
(* put off for the quota: neither a formatter cut off by its time limit nor a *)
(* forecast left behind makes one (daily_activity_digest.py:1254, "would post *)
(* a duplicate for the wrong day").                                          *)
DigestOnce == ~missed => posts["digest"] <= 1

(* A service that serves has left none of the recovered runs of the finalizer,*)
(* the planners and the audit unconcluded: each was handed on, published or    *)
(* refused, and its row says so (main.py:397, "close the recovered turn so it  *)
(* is not handed back on every later restart").                               *)
NoneLeftRecovered ==
    proc = "serving" /\ chain # "digest" => \A r \in DOMAIN rows : rows[r].status # "recovered"
=============================================================================
