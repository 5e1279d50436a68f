------------------------------ MODULE JiraTasks -------------------------------
(***************************************************************************)
(* The automation of Jira tasks (jira_task_automation.py): the hourly pass   *)
(* that starts a queued task, the ten-minute pass that follows the tasks the *)
(* service owns, and the durable link of a task (jira_task_agent_links).     *)
(*                                                                         *)
(* The model follows one task.  Tasks share the execution lock and the       *)
(* order of a pass, which the exception of one task ends for those after it. *)
(* Time is a counter that every edit of the issue or of its page moves on, so *)
(* "later than" is "greater than".                                         *)
(***************************************************************************)
EXTENDS Naturals, Sequences, FiniteSets, FiniteSetsExt, SequencesExt

CONSTANTS
    Edits,      \* bound: edits that people make in Jira and Confluence
    Crashes,    \* bound: losses of the process
    Faults      \* bound: turns and reads that raise, prechecks that say abuse

ASSUME JiraAssumption == Edits \in Nat /\ Crashes \in Nat /\ Faults \in Nat

VARIABLES
    now,        \* the time of the newest edit
    issue,      \* the issue: status, assignee, updated, comments, status changes
    remarks,    \* times of the comments that people made on the page
    planning,   \* the review turn of the task's planner is under way
    planner,    \* end of the planner's completed review, until it is enrolled
    link,       \* the row of jira_task_agent_links
    pass,       \* the two passes
    lock,       \* _TASK_EXECUTION_LOCK
    paused,     \* the automation is switched off
    held,       \* the quota gate is closed, or an earlier task of the pass raises
    taken,      \* history: comments that a stored turn or decision was about
    passed,     \* history: comments that the code puts behind the cursor unjudged
    edits, crashes, faults

vars == <<now, issue, remarks, planning, planner, link, pass, lock, paused, held,
          taken, passed, edits, crashes, faults>>

-----------------------------------------------------------------------------
Loops == {"hourly", "poll"}

NoLink == [phase |-> "none", seen |-> 0, pageSeen |-> 0, active |-> 0,
           terminal |-> FALSE, page |-> FALSE]

Idle == [at |-> "idle", u |-> 0, status |-> "none", target |-> 0, remark |-> 0,
         latest |-> 0, returned |-> FALSE, previous |-> 0, saw |-> {}]

(* The task is no longer on the service account.                           *)
Away == ~issue.mine

(* The newest of some times, 0 when there is none.                          *)
Newest(times) == IF times = {} THEN 0 ELSE Max(times)

Owned == link.phase # "none" /\ ~link.terminal

(* A task of the queue, or one that an experiment planner is about to review:  *)
(* the hourly pass leaves the planners' titles alone.                         *)
Init ==
    /\ now = 1
    /\ planning \in BOOLEAN
    /\ planner = 0
    /\ issue = [status |-> IF planning THEN "progress" ELSE "todo", mine |-> TRUE,
                updated |-> 1, comments |-> {}, moves |-> <<>>, reserved |-> planning]
    /\ remarks = {}
    /\ link = NoLink
    /\ pass = [x \in Loops |-> Idle]
    /\ lock = "free"
    /\ paused = FALSE /\ held = FALSE
    /\ taken = {} /\ passed = {}
    /\ edits = 0 /\ crashes = 0 /\ faults = 0

-----------------------------------------------------------------------------
(* upsert_jira_task_agent_link: a value that is not given is kept, but        *)
(* terminal_at is always written, so that a write without it reopens a link.  *)
Upsert(phase, seen, pageSeen, page) ==
    [phase |-> phase,
     seen |-> IF seen = 0 THEN link.seen ELSE seen,
     pageSeen |-> IF pageSeen = 0 THEN link.pageSeen ELSE pageSeen,
     active |-> now',
     terminal |-> phase \in {"done", "reassigned"},
     page |-> page \/ link.page]

(* The pass leaves the execution lock and is over.                           *)
Over(x) ==
    /\ pass' = [pass EXCEPT ![x] = Idle]
    /\ lock' = IF lock = x THEN "free" ELSE lock

Goes(x, at) == pass' = [pass EXCEPT ![x].at = at]

(* The agent turn of a stage starts: it reads every comment there is.        *)
Turn(x, stage) ==
    pass' = [pass EXCEPT ![x].at = stage, ![x].saw = issue.comments]

(* An exception: both loops log it and wait for their next pass.              *)
Raises(x) ==
    /\ faults < Faults /\ faults' = faults + 1
    /\ Over(x)
    /\ UNCHANGED <<now, issue, remarks, planning, planner, link, paused, held,
                   taken, passed, edits, crashes>>

(* An edit of the issue.                                                    *)
Edited(new) ==
    /\ now' = now + 1
    /\ issue' = [new EXCEPT !.updated = now',
                            !.moves = IF new.status = issue.status THEN @
                                      ELSE Append(@, [at |-> now', from |-> issue.status,
                                                      to |-> new.status])]

(* The agent sees to it that the issue has a status.                         *)
Sets(status) ==
    IF issue.status = status THEN UNCHANGED <<now, issue>>
    ELSE Edited([issue EXCEPT !.status = status])

(* abuse_precheck, which fails closed: a suspicion is told in Jira and to the *)
(* owner, and the automation pauses itself.                                 *)
Suspects(x) ==
    /\ faults < Faults /\ faults' = faults + 1
    /\ Edited(issue)
    /\ paused' = TRUE
    /\ Over(x)
    /\ UNCHANGED <<remarks, planning, planner, link, held, taken, passed, edits, crashes>>

-----------------------------------------------------------------------------
(* queued_tasks: Backlog or To Do, on the service account, no planner's title. *)
Queued == issue.status = "todo" /\ ~Away /\ ~issue.reserved

(* The hourly pass.  The queue is searched, and the link of each candidate is *)
(* looked up when the answer is there.                                       *)
Search ==
    /\ pass["hourly"].at = "idle" /\ ~paused
    /\ Queued
    /\ pass' = [pass EXCEPT !["hourly"] =
                    [Idle EXCEPT !.at = "found", !.u = issue.updated, !.status = "todo"]]
    /\ UNCHANGED <<now, issue, remarks, planning, planner, link, lock, paused, held,
                   taken, passed, edits, crashes, faults>>

Filter ==
    /\ pass["hourly"].at = "found"
    /\ IF Owned THEN Over("hourly")
       ELSE Goes("hourly", "screen") /\ UNCHANGED lock
    /\ UNCHANGED <<now, issue, remarks, planning, planner, link, paused, held,
                   taken, passed, edits, crashes, faults>>

(* The precheck of the hourly pass is not under the lock.                    *)
ScreenCandidate ==
    /\ pass["hourly"].at = "screen"
    /\ \/ /\ Goes("hourly", "lock")
          /\ UNCHANGED <<now, issue, remarks, planning, planner, link, lock, paused,
                         held, taken, passed, edits, crashes, faults>>
       \/ Suspects("hourly")
       \/ Raises("hourly")

(* Under the lock only the link is read again, not the task.                 *)
Launch ==
    /\ pass["hourly"].at = "lock" /\ lock = "free"
    /\ lock' = "hourly"
    /\ Turn("hourly", "start")
    /\ UNCHANGED <<now, issue, remarks, planning, planner, link, paused, held,
                   taken, passed, edits, crashes, faults>>

-----------------------------------------------------------------------------
(* start_task_with_reviewer: only TASK_READY lets the worker run.  The cursor *)
(* is the "updated" that the pass had read before the turn.                   *)
StartTurn(x) ==
    /\ pass[x].at = "start"
    /\ \/ /\ Sets("progress")
          /\ link' = Upsert("worker", pass[x].u, 0, FALSE)
          /\ Goes(x, "work") /\ UNCHANGED lock
          /\ taken' = taken \cup pass[x].saw
          /\ UNCHANGED <<remarks, planning, planner, paused, held, passed, edits,
                         crashes, faults>>
       \/ /\ Edited([issue EXCEPT !.status = "progress"]) \/ UNCHANGED <<now, issue>>
          /\ link' = Upsert("waiting", pass[x].u, 0, FALSE)
          /\ Over(x)
          /\ taken' = taken \cup pass[x].saw
          /\ UNCHANGED <<remarks, planning, planner, paused, held, passed, edits,
                         crashes, faults>>
       \/ Raises(x)

(* The worker hands over, with a page or without one.                        *)
WorkTurn(x) ==
    /\ pass[x].at = "work"
    /\ \/ /\ UNCHANGED <<now, issue, remarks, planning, planner, lock, paused, held,
                         taken, passed, edits, crashes, faults>>
          /\ \E page \in BOOLEAN : link' = Upsert("reviewer", 0, 0, page)
          /\ Turn(x, "review")
       \/ Raises(x)

(* Mutant: the cursor of the poll is the time at which it is stored.         *)
ReviewTurnNow(x) ==
    /\ pass[x].at = "review"
    /\ \/ /\ \/ Edited([issue EXCEPT !.status = "review"])
             \/ UNCHANGED <<now, issue>>
          /\ link' = Upsert("reviewer", IF x = "poll" THEN now' ELSE 0, pass[x].latest, FALSE)
          /\ Over(x)
          /\ taken' = taken \cup pass[x].saw
          /\ UNCHANGED <<remarks, planning, planner, paused, held, passed, edits,
                         crashes, faults>>
       \/ Raises(x)

(* The reviewer publishes and moves the issue to In Review, or leaves the     *)
(* issue as it is.  The poll stores both cursors, the hourly pass neither.    *)
ReviewTurn(x) ==
    /\ pass[x].at = "review"
    /\ \/ /\ \/ Edited([issue EXCEPT !.status = "review"])
             \/ UNCHANGED <<now, issue>>
          /\ link' = Upsert("reviewer", IF x = "poll" THEN pass[x].u ELSE 0,
                            pass[x].latest, FALSE)
          /\ Over(x)
          /\ taken' = taken \cup pass[x].saw
          /\ UNCHANGED <<remarks, planning, planner, paused, held, passed, edits,
                         crashes, faults>>
       \/ Raises(x)

-----------------------------------------------------------------------------
(* The planner's review turn is completed, with the issue in review or not: its *)
(* run is stored with this time, and with no record of what the turn had read.  *)
PlannerEnds ==
    /\ planning /\ planning' = FALSE
    /\ Sets("review") \/ UNCHANGED <<now, issue>>
    /\ planner' = now'
    /\ passed' = passed \cup issue.comments
    /\ UNCHANGED <<remarks, link, pass, lock, paused, held, taken, edits, crashes, faults>>

(* The ten-minute pass.  Completed reviews of planners get a link, unless the *)
(* task has one, and a link that was closed a day ago is dropped.            *)
Begin ==
    /\ pass["poll"].at = "idle" /\ ~paused
    /\ Goes("poll", "usage")
    /\ planner' = 0
    /\ \/ link' = IF planner = 0 \/ link.phase # "none" THEN link
                  ELSE [NoLink EXCEPT !.phase = "reviewer", !.seen = planner, !.active = now]
       \/ link.terminal /\ link' = NoLink
    /\ UNCHANGED <<now, issue, remarks, planning, lock, paused, held, taken, passed,
                   edits, crashes, faults>>

(* The quota gate is open and the earlier tasks of the pass are done with, or   *)
(* the pass ends here.                                                        *)
ReadQuota ==
    /\ pass["poll"].at = "usage"
    /\ IF Owned /\ ~held THEN Goes("poll", "lock") /\ UNCHANGED lock ELSE Over("poll")
    /\ UNCHANGED <<now, issue, remarks, planning, planner, link, paused, held,
                   taken, passed, edits, crashes, faults>>

Follow ==
    /\ pass["poll"].at = "lock" /\ lock = "free"
    /\ lock' = "poll"
    /\ Goes("poll", "snapshot")
    /\ UNCHANGED <<now, issue, remarks, planning, planner, link, paused, held,
                   taken, passed, edits, crashes, faults>>

(* task_snapshot: what the rest of the pass knows of the issue.               *)
Seen == [pass["poll"] EXCEPT !.at = "read", !.u = issue.updated, !.status = issue.status]

(* A task that is done or somebody else's closes its link.                    *)
Snapshot ==
    /\ pass["poll"].at = "snapshot"
    /\ \/ /\ issue.status = "done" \/ Away
          /\ UNCHANGED <<now, issue, remarks, planning, planner, paused, held,
                         taken, passed, edits, crashes, faults>>
          /\ link' = Upsert(IF issue.status = "done" THEN "done" ELSE "reassigned",
                            0, 0, FALSE)
          /\ Over("poll")
       \/ /\ issue.status # "done" /\ ~Away
          /\ pass' = [pass EXCEPT !["poll"] = Seen]
          /\ UNCHANGED <<now, issue, remarks, planning, planner, link, lock, paused,
                         held, taken, passed, edits, crashes, faults>>
       \/ Raises("poll")

(* was_returned_to_work looks at one status change: the first one later than  *)
(* the cursor that the loop meets, which is the newest when Jira lists the     *)
(* changelog from old to new.  A changelog that Jira refuses is no change.     *)
Returned(since) ==
    LET later == SelectSeq(issue.moves, LAMBDA m : m.at > since)
    IN  later # <<>> /\ Last(later).from = "review" /\ Last(later).to = "progress"

(* The newest comment of a person later than the cursor of the link; the page  *)
(* has the last write of the link for a cursor until a remark was processed.   *)
NewComment == Newest({c \in issue.comments : c > link.seen})
Baseline == IF link.pageSeen # 0 THEN link.pageSeen ELSE link.active
NewRemark == IF link.page THEN Newest({r \in remarks : r > Baseline}) ELSE 0
Activity == IF link.page THEN Newest(remarks) ELSE 0

Read ==
    /\ pass["poll"].at = "read"
    /\ \/ /\ \E returned \in {Returned(link.seen), FALSE} :
                pass' = [pass EXCEPT !["poll"] =
                    [@ EXCEPT !.at = "decide", !.target = NewComment, !.remark = NewRemark,
                              !.latest = Activity, !.returned = returned,
                              !.previous = link.seen, !.saw = issue.comments]]
          /\ UNCHANGED <<now, issue, remarks, planning, planner, link, lock, paused, held,
                         taken, passed, edits, crashes, faults>>
       \/ Raises("poll")

(* A decision is asked for only when the comment alone would start work.     *)
Decides ==
    /\ pass["poll"].status # "todo" /\ ~pass["poll"].returned
    /\ link.phase # "worker"

(* should_handle_jira_comment is asked about the newest comment only; IGNORE    *)
(* puts the older ones of the snapshot behind the cursor too.                 *)
DecideComment ==
    LET p == pass["poll"]
    IN  /\ p.at = "decide"
        /\ \/ /\ Goes("poll", "remark")
              /\ UNCHANGED <<now, issue, remarks, planning, planner, link, lock, paused,
                             held, taken, passed, edits, crashes, faults>>
           \/ /\ p.target # 0 /\ Decides
              /\ UNCHANGED <<now, issue, remarks, planning, planner, lock, paused, held,
                             edits, crashes, faults>>
              /\ link' = Upsert(link.phase, p.u, 0, FALSE)
              /\ taken' = taken \cup {p.target}
              /\ passed' = passed \cup {c \in p.saw : c <= p.u /\ c \notin taken'}
              /\ pass' = [pass EXCEPT !["poll"].at = "remark", !["poll"].target = 0]
           \/ p.target # 0 /\ Decides /\ Raises("poll")

(* The same for the newest remark on the page.                               *)
DecideRemark ==
    LET p == pass["poll"]
    IN  /\ p.at = "remark"
        /\ \/ /\ Goes("poll", "guard")
              /\ UNCHANGED <<now, issue, remarks, planning, planner, link, lock,
                             paused, held, taken, passed, edits, crashes, faults>>
           \/ /\ p.remark # 0 /\ Decides
              /\ UNCHANGED <<now, issue, remarks, planning, planner, lock, paused,
                             held, taken, passed, edits, crashes, faults>>
              /\ link' = Upsert(link.phase, 0, p.latest, FALSE)
              /\ pass' = [pass EXCEPT !["poll"].at = "guard", !["poll"].remark = 0]
           \/ p.remark # 0 /\ Decides /\ Raises("poll")

(* What a pass that has read the issue p finds nothing to do about.          *)
Nothing(p) == ~p.returned /\ p.target = 0 /\ p.remark = 0

(* Mutant: an issue that is not queued waits, whatever was written on it.     *)
SkipsUnqueued(p) ==
    \/ Nothing(p) /\ link.phase = "waiting"
    \/ link.phase # "worker" /\ p.status # "todo" /\ ~p.returned
    \/ Nothing(p) /\ p.previous # 0 /\ p.u <= p.previous

(* The three guards of the poll.                                             *)
Skips(p) ==
    /\ Nothing(p)
    /\ \/ link.phase = "waiting"
       \/ link.phase # "worker" /\ p.status # "todo"
       \/ p.previous # 0 /\ p.u <= p.previous

Guard ==
    LET p == pass["poll"]
    IN  /\ p.at = "guard"
        /\ IF Skips(p)
           THEN /\ Over("poll")
                /\ UNCHANGED now
                /\ link' = IF link.phase = "waiting" /\ p.previous = 0
                           THEN Upsert("waiting", p.u, 0, FALSE) ELSE link
           ELSE Goes("poll", "screen") /\ UNCHANGED <<now, link, lock>>
        /\ UNCHANGED <<issue, remarks, planning, planner, paused, held, taken,
                       passed, edits, crashes, faults>>

ScreenTask ==
    LET p == pass["poll"]
    IN  /\ p.at = "screen"
        /\ \/ /\ Turn("poll", IF p.status = "todo" \/ p.returned
                                 \/ link.phase \in {"worker", "waiting"}
                              THEN "start" ELSE "review")
              /\ UNCHANGED <<now, issue, remarks, planning, planner, link, lock,
                             paused, held, taken, passed, edits, crashes, faults>>
           \/ Suspects("poll")
           \/ Raises("poll")

-----------------------------------------------------------------------------
(* What people do.                                                          *)
Comments ==
    /\ Edited([issue EXCEPT !.comments = @ \cup {now + 1}])
    /\ UNCHANGED remarks

Remarks ==
    /\ link.page
    /\ now' = now + 1
    /\ remarks' = remarks \cup {now'}
    /\ UNCHANGED issue

Moves ==
    /\ \/ \E s \in {"todo", "done"} : s # issue.status
             /\ Edited([issue EXCEPT !.status = s])
       \/ issue.status = "review" /\ Edited([issue EXCEPT !.status = "progress"])
       \/ Edited([issue EXCEPT !.mine = ~@])
    /\ UNCHANGED remarks

People ==
    /\ edits < Edits /\ edits' = edits + 1
    /\ Comments \/ Remarks \/ Moves
    /\ UNCHANGED <<planning, planner, link, pass, lock, paused, held, taken, passed,
                   crashes, faults>>

(* The gate closes or opens; an earlier task begins or ceases to raise.         *)
Holds ==
    /\ held' = ~held
    /\ UNCHANGED <<now, issue, remarks, planning, planner, link, pass, lock, paused,
                   taken, passed, edits, crashes, faults>>

(* The administrator switches the automation on again.                       *)
Resume ==
    /\ paused /\ paused' = FALSE
    /\ UNCHANGED <<now, issue, remarks, planning, planner, link, held, pass, lock, taken,
                   passed, edits, crashes, faults>>

(* The process is lost: the passes, their turns and the lock are gone.        *)
Crash ==
    /\ crashes < Crashes /\ crashes' = crashes + 1
    /\ pass' = [x \in Loops |-> Idle]
    /\ lock' = "free"
    /\ UNCHANGED <<now, issue, remarks, planning, planner, link, paused, held,
                   taken, passed, edits, faults>>

Hourly == Search \/ Filter \/ ScreenCandidate \/ Launch
Polls == Begin \/ ReadQuota \/ Follow \/ Snapshot \/ Read \/ DecideComment
            \/ DecideRemark \/ Guard \/ ScreenTask
Turns == \E x \in Loops : StartTurn(x) \/ WorkTurn(x) \/ ReviewTurn(x)

Next == Hourly \/ Polls \/ Turns \/ PlannerEnds \/ People \/ Holds \/ Resume \/ Crash

Spec == Init /\ [][Next]_vars

(* The loops run for ever and every turn has a timeout.  This task's own turns  *)
(* and reads do not fail for ever, which is what the bound Faults says; about   *)
(* the tasks before it in a pass nothing is assumed.                          *)
FairSpec ==
    /\ Spec
    /\ WF_vars(Hourly) /\ WF_vars(Polls) /\ WF_vars(Turns)

-----------------------------------------------------------------------------
(* The cursor of an owned task never passes a comment that no stored turn or   *)
(* decision was about (jira_task_automation.py:617: the cursor is the snapshot  *)
(* before the turn, not its end, so that a comment written meanwhile is new).   *)
(* Two things are let through: comments written during the planner's review,    *)
(* whose END becomes the cursor (store.py:1226-1227, 1272), and those older     *)
(* than a newest comment that is ignored (jira_task_automation.py:533-544).    *)
CommentsStayAhead ==
    Owned => \A c \in issue.comments \ (taken \cup passed) : c > link.seen

(* REVIEWER_PROMPT, "Continue owning replies until the task is Done": every     *)
(* comment on an owned task but those two kinds is taken up, unless the task is  *)
(* closed, the automation is switched off, or its passes never reach the task:  *)
(* the gate stays closed, or an earlier link raises each time (store.py:1240).  *)
CommentsAreTaken ==
    []<>(Owned /\ ~paused /\ ~held => issue.comments \subseteq taken \cup passed)
=============================================================================
