--------------------------- MODULE OperationsOutbox ---------------------------
(***************************************************************************)
(* The operations log: events that the service, the cron wrapper and the   *)
(* collector record in the table operation_events, and the collector's     *)
(* publisher that posts them to Slack (operations_store.py,                *)
(* operations_log.py, operations_cron.py).                                 *)
(*                                                                         *)
(* A pass of a collector reads its source and then makes durable writes    *)
(* one after the other: `todo` holds those still to be made, and last what *)
(* the pass has listed and not yet come to.  The loss of the process drops *)
(* it.  A key is a tuple, its first part the source.                       *)
(***************************************************************************)
EXTENDS Naturals, Sequences, FiniteSets

CONSTANTS
    Crons,          \* runs of wrapped cron jobs
    Records,        \* records the journal will hold
    Noise,          \* those of them that ingest_journal filters out
    Lines,          \* bound: lines the watched log file will hold
    Slots,          \* bound: half hours
    Emits,          \* bound: events of the service itself
    Edits,          \* bound: human edits of the crontab
    Crashes,        \* bound: losses of the collector
    Mixes,          \* bound: what is active in one behaviour
    BatchLimit      \* publish_pending reads so many events

Sources == {"service", "cron", "journal", "retry", "children", "usage", "crontab", "failure"}

ASSUME OutboxAssumption ==
    /\ Records \in Nat /\ Lines \in Nat /\ Slots \in Nat \ {0} /\ Emits \in Nat
    /\ Edits \in Nat /\ Crashes \in Nat /\ BatchLimit \in Nat \ {0}
    /\ Noise \subseteq 1 .. Records
    /\ Mixes \subseteq SUBSET Sources

VARIABLES
    mix,        \* bound: the active sources
    events,     \* the table operation_events: keys, in the order of their ids
    delivered,  \* ids with delivered_at
    posted,     \* ids of the events that posts Slack has taken show
    pub,        \* where publish_pending is
    batch,      \* its ids
    job,        \* which collector runs; the loop may have ended
    todo,       \* the durable writes its pass has still to make
    cron,       \* the wrapper of each run
    spool,      \* files of the spool: <<run, "running">> and <<run, "finish">>
    markers,    \* active-crons
    torn,       \* markers half written
    old,        \* runs that started 30 seconds ago
    journal,    \* records in the journal
    cursor,     \* the cursor "journal"; none is 0
    valid,      \* journalctl knows it
    time,       \* the cursor "journal-time"; none is 0
    base,       \* history: the records up to here are nobody's
    file,       \* inode and lines of the watched log
    written,    \* history: lines ever written to it
    offset,     \* its stored cursor: inode and offset
    skipped,    \* history: what the log held when it was first seen
    unread,     \* history: how far the log had been read when it was replaced
    child,      \* results in the transcript of a child agent
    childAt,    \* its stored offset
    slot,       \* the current half hour
    usage,      \* the slot usage() is reading; none is 0
    usageSlot,  \* the cursor "usage-slot"
    crontab,    \* edits in the crontab, and whether it is wrapped
    edits,      \* history: human edits ever made
    boots       \* starts of the collector

table  == <<events, delivered>>
outbox == <<posted, pub, batch>>
crons  == <<cron, spool, markers, torn, old>>
jvars  == <<journal, cursor, valid, time, base>>
rvars  == <<file, written, offset, skipped, unread, child, childAt>>
uvars  == <<slot, usage, usageSlot>>
cvars  == <<crontab, edits>>
vars   == <<mix, table, outbox, job, todo, crons, jvars, rvars, uvars, cvars, boots>>

Keys ==    {<<"service", n>> : n \in 1 .. Emits} \cup {<<"boot", n>> : n \in 0 .. Crashes}
      \cup {<<s, r>> : s \in {"running", "finish", "lost"}, r \in Crons}
      \cup {<<"journal", p>> : p \in 1 .. Records} \cup {<<"reset", p>> : p \in 1 .. Records}
      \cup {<<"line", i, o>> : i \in 1 .. 2, o \in 0 .. Lines}
      \cup {<<"child">>} \cup {<<"result", o>> : o \in 0 .. Lines}
      \cup {<<"usage", s>> : s \in 1 .. Slots}
      \cup {<<"collector", s>> : s \in {"spool", "coverage", "pass"}} \cup {<<"covered", n>> : n \in 0 .. Edits}

Has(key) == \E i \in DOMAIN events : events[i] = key

(* emit(): INSERT OR IGNORE under a UNIQUE key. *)
Inserted(key) == IF Has(key) THEN events ELSE Append(events, key)

Emit(key)    == <<"emit", key>>
NoOffset     == [inode |-> 0, at |-> 0]

(* The collectors in the order of collect_loop, and those whose source is active. *)
Place  == [spool |-> 0, lost |-> 1, journal |-> 2, retry |-> 3, children |-> 4, cover |-> 5]
Source == [spool |-> "cron", lost |-> "cron", journal |-> "journal", retry |-> "retry",
           children |-> "children", cover |-> "crontab"]
Active == {j \in DOMAIN Place : Source[j] \in mix}

(* The next in turn is the one the fewest places on. *)
Ahead(j, k) == (Place[k] + 5 - Place[j]) % 6
After(j)    == IF Active = {} THEN j
               ELSE CHOOSE k \in Active : \A l \in Active : Ahead(j, k) <= Ahead(j, l)

FirstJob == After("cover")

Init ==
    /\ mix \in Mixes
    /\ events = <<>>
    /\ delivered = {}
    /\ posted = {}
    /\ pub = "idle"
    /\ batch = {}
    /\ job = FirstJob
    /\ todo = << Emit(<<"boot", 0>>) >>
    /\ cron = [r \in Crons |-> "idle"]
    /\ spool = {}
    /\ markers = {}
    /\ torn = {}
    /\ old = {}
    /\ journal = 0
    /\ cursor = 0
    /\ valid = TRUE
    /\ time = 0
    /\ base = 0
    /\ file = [inode |-> 1, lines |-> 0]
    /\ written = 0
    /\ offset = NoOffset
    /\ skipped = NoOffset
    /\ unread = 0
    /\ child = 0
    /\ childAt = 0
    /\ slot = 1
    /\ usage = 0
    /\ usageSlot = 0
    /\ crontab = [edit |-> 0, wrapped |-> FALSE]
    /\ edits = 0
    /\ boots = 0
------------------------------------------------------------------------------
(* The service: a trigger, the wrapper observed() or the Slack client       *)
(* records an event.  Each has a key of its own.                            *)
ServiceEmits ==
    /\ "service" \in mix
    /\ \E n \in 1 .. Emits : /\ ~Has(<<"service", n>>)
                             /\ n > 1 => Has(<<"service", n - 1>>)
                             /\ events' = Inserted(<<"service", n>>)
    /\ UNCHANGED <<mix, delivered, outbox, job, todo, crons, jvars, rvars, uvars, cvars, boots>>
------------------------------------------------------------------------------
(* The publisher. *)

Pending   == (DOMAIN events) \ delivered
FirstOf(S) == CHOOSE i \in S : \A j \in S : i <= j
Oldest    == {i \in Pending : Cardinality({j \in Pending : j < i}) < BatchLimit}

(* Usage is a post of its own. *)
Batch ==
    LET lonely == {i \in Oldest : events[i][1] = "usage"} IN
    CASE lonely = {}                        -> Oldest
      [] FirstOf(Oldest) \in lonely         -> {FirstOf(Oldest)}
      [] OTHER                              -> {i \in Oldest : i < FirstOf(lonely)}

PublishRead ==
    /\ pub = "idle"
    /\ Pending # {}
    /\ batch' = Batch
    /\ pub' = "post"
    /\ UNCHANGED <<mix, table, posted, job, todo, crons, jvars, rvars, uvars, cvars, boots>>

PublishPost ==
    /\ pub = "post"
    /\ posted' = posted \cup batch
    /\ pub' = "mark"
    /\ UNCHANGED <<mix, table, batch, job, todo, crons, jvars, rvars, uvars, cvars, boots>>

(* chat_postMessage raises, whether Slack took the message or not; or the *)
(* write of the marks does.  run() keeps the queue and tries again.       *)
PublishFails ==
    /\ pub \in {"post", "mark"}
    /\ posted' \in {posted, posted \cup batch}
    /\ pub' = "idle"
    /\ batch' = {}
    /\ UNCHANGED <<mix, table, job, todo, crons, jvars, rvars, uvars, cvars, boots>>

(* Mutant: everything that is pending now is marked. *)
MarkAll ==
    /\ pub = "mark"
    /\ delivered' = DOMAIN events
    /\ pub' = "idle"
    /\ batch' = {}
    /\ UNCHANGED <<mix, events, posted, job, todo, crons, jvars, rvars, uvars, cvars, boots>>

PublishMark ==
    /\ pub = "mark"
    /\ delivered' = delivered \cup batch
    /\ pub' = "idle"
    /\ batch' = {}
    /\ UNCHANGED <<mix, events, posted, job, todo, crons, jvars, rvars, uvars, cvars, boots>>
------------------------------------------------------------------------------
(* The cron wrapper, a process of its own. *)

CronStarts(r) ==
    /\ "cron" \in mix
    /\ cron[r] = "idle"
    /\ cron' = [cron EXCEPT ![r] = "running"]
    /\ spool' = spool \cup {<<r, "running">>}
    /\ UNCHANGED <<mix, table, outbox, job, todo, markers, torn, old, jvars, rvars, uvars, cvars, boots>>

(* The command ended, or the wrapper failed: either is spooled. *)
CronFinishes(r) ==
    /\ cron[r] = "running"
    /\ cron' = [cron EXCEPT ![r] = "finished"]
    /\ spool' = spool \cup {<<r, "finish">>}
    /\ UNCHANGED <<mix, table, outbox, job, todo, markers, torn, old, jvars, rvars, uvars, cvars, boots>>

(* The wrapper exits, or is killed at any time. *)
CronGone(r) ==
    /\ cron[r] \in {"running", "finished"}
    /\ cron' = [cron EXCEPT ![r] = IF @ = "running" THEN "killed" ELSE "exited"]
    /\ UNCHANGED <<mix, table, outbox, job, todo, spool, markers, torn, old, jvars, rvars, uvars,
                   cvars, boots>>

Age(r) ==
    /\ cron[r] # "idle"
    /\ r \notin old
    /\ old' = old \cup {r}
    /\ UNCHANGED <<mix, table, outbox, job, todo, cron, spool, markers, torn, jvars, rvars, uvars,
                   cvars, boots>>
------------------------------------------------------------------------------
(* Passes of the collector: what each reads, and the writes it decides on.  *)
(* collect_loop runs them in turn, for ever; a pass whose source is not in  *)
(* the mix finds nothing and is left out.                                   *)

Begin(j, writes) ==
    /\ job = j
    /\ todo = <<>>
    /\ job' = After(j)
    /\ todo' = writes

(* Mutant: the file goes before its marker does. *)
UnlinkFirst(f) ==
    IF f[2] = "running"
    THEN << Emit(<<"running", f[1]>>), <<"mark", f[1]>>, <<"unlink", f>> >>
    ELSE << Emit(<<"finish", f[1]>>), <<"unlink", f>>, <<"unmark", f[1]>> >>

(* Mutant: the file of a start goes before the marker is written. *)
MarkLast(f) ==
    IF f[2] = "running"
    THEN << Emit(<<"running", f[1]>>), <<"unlink", f>>, <<"mark", f[1]>> >>
    ELSE << Emit(<<"finish", f[1]>>), <<"unmark", f[1]>>, <<"unlink", f>> >>

(* Mutant: a start leaves no marker. *)
NoMarker(f) ==
    << Emit(<<IF f[2] = "running" THEN "running" ELSE "finish", f[1]>>), <<"unlink", f>> >>

(* What ingest_spool does with a file. *)
FileWrites(f) ==
    IF f[2] = "running"
    THEN << Emit(<<"running", f[1]>>), <<"mark", f[1]>>, <<"unlink", f>> >>
    ELSE << Emit(<<"finish", f[1]>>), <<"unmark", f[1]>>, <<"unlink", f>> >>

(* What the loop of a pass has not come to. *)
Left(what, things) == IF things = {} THEN <<>> ELSE << <<what, things>> >>
Looping(what)      == todo # <<>> /\ Head(todo)[1] = what

SpoolPass ==
    /\ Begin("spool", Left("files", spool))
    /\ UNCHANGED <<mix, table, outbox, crons, jvars, rvars, uvars, cvars, boots>>

(* The files come in the order of their names, which begin with the time: a *)
(* run's start before its finish.                                           *)
ReadFile ==
    /\ Looping("files")
    /\ \E f \in Head(todo)[2] :
          /\ f[2] = "finish" => <<f[1], "running">> \notin Head(todo)[2]
          /\ todo' = FileWrites(f) \o Left("files", Head(todo)[2] \ {f})
    /\ UNCHANGED <<mix, table, outbox, job, crons, jvars, rvars, uvars, cvars, boots>>

LostPass ==
    /\ Begin("lost", Left("markers", markers))
    /\ UNCHANGED <<mix, table, outbox, crons, jvars, rvars, uvars, cvars, boots>>

(* A marker that is half written ends the pass.  One that is not old yet, or *)
(* whose wrapper runs, is passed over; while any wrapper runs it may have    *)
(* the pid of a dead one.                                                    *)
ReadMarker ==
    /\ Looping("markers")
    /\ \E r \in Head(todo)[2] :
          \/ /\ r \in torn
             /\ todo' = << Emit(<<"collector", "spool">>) >>
          \/ /\ r \notin torn
             /\ r \notin old \/ \E q \in Crons : cron[q] \in {"running", "finished"}
             /\ todo' = Left("markers", Head(todo)[2] \ {r})
          \/ /\ r \notin torn /\ r \in old /\ cron[r] \in {"killed", "exited"}
             /\ todo' = << Emit(<<"lost", r>>), <<"unmark", r>> >>
                        \o Left("markers", Head(todo)[2] \ {r})
    /\ UNCHANGED <<mix, table, outbox, job, crons, jvars, rvars, uvars, cvars, boots>>

(* Mutant: the cursor is moved before the record is recorded. *)
CursorFirst(p) ==
    << <<"cursor", p>>, <<"time", p>> >> \o (IF p \in Noise THEN <<>> ELSE << Emit(<<"journal", p>>) >>)

(* A record: its event, unless it is filtered out, then the cursors. *)
RecordWrites(p) ==
    (IF p \in Noise THEN <<>> ELSE << Emit(<<"journal", p>>) >>) \o << <<"cursor", p>>, <<"time", p>> >>

RecordsLeft(first, last) == IF first > last THEN <<>> ELSE << <<"records", first, last>> >>

(* Journalctl reads what follows the cursor.                                *)
JournalPass ==
    /\ cursor # 0 /\ valid
    /\ Begin("journal", RecordsLeft(cursor + 1, journal))
    /\ UNCHANGED <<mix, table, outbox, crons, jvars, rvars, uvars, cvars, boots>>

(* The cursor is not known any more: the records since the last stored time, *)
(* that one included, or those of the last hour.                             *)
JournalReset ==
    /\ cursor # 0 /\ ~valid
    /\ \E from \in (IF time # 0 THEN {time} ELSE 1 .. journal + 1) :
          /\ Begin("journal", << Emit(<<"reset", cursor>>) >> \o RecordsLeft(from, journal))
          /\ base' = IF time = 0 /\ from > base THEN from - 1 ELSE base
    /\ UNCHANGED <<mix, table, outbox, crons, journal, cursor, valid, time, rvars, uvars, cvars, boots>>

ReadRecord ==
    /\ Looping("records")
    /\ LET p == Head(todo)[2] IN todo' = RecordWrites(p) \o RecordsLeft(p + 1, Head(todo)[3])
    /\ UNCHANGED <<mix, table, outbox, job, crons, jvars, rvars, uvars, cvars, boots>>

(* The first pass finds nothing since now and stores the newest cursor. *)
JournalFirst ==
    /\ cursor = 0
    /\ Begin("journal", IF journal = 0 THEN <<>> ELSE << <<"cursor", journal>> >>)
    /\ base' = journal
    /\ UNCHANGED <<mix, table, outbox, crons, journal, cursor, valid, time, rvars, uvars, cvars, boots>>

(* The log is read from its stored offset, from its end when it is new to   *)
(* the collector, from its start when it was replaced or is shorter.        *)
RetryPass ==
    LET from == IF offset = NoOffset THEN file.lines
                ELSE IF offset.inode # file.inode \/ offset.at > file.lines THEN 0
                ELSE offset.at
        n == file.lines - from IN
    /\ Begin("retry",
             [i \in 1 .. n + 1 |-> IF i <= n THEN Emit(<<"line", file.inode, from + i - 1>>)
                                             ELSE <<"offset", file.inode, file.lines>>])
    /\ skipped' = IF offset = NoOffset THEN [inode |-> file.inode, at |-> file.lines]
                  ELSE skipped
    /\ UNCHANGED <<mix, table, outbox, crons, jvars, file, written, offset, unread, child, childAt, uvars, cvars,
                   boots>>

(* The transcript of a child of a recent session is read from its offset; at *)
(* its beginning the child itself is an event.                               *)
ChildPass ==
    /\ Begin("children",
             (IF childAt = 0 /\ child > 0 THEN << Emit(<<"child">>) >> ELSE <<>>)
             \o [i \in 1 .. child - childAt + 1 |->
                   IF i <= child - childAt THEN Emit(<<"result", childAt + i - 1>>)
                                           ELSE <<"childOffset", child>>])
    /\ UNCHANGED <<mix, table, outbox, crons, jvars, rvars, uvars, cvars, boots>>

(* ensure_cron_coverage reads the crontab ... *)
CoverPass ==
    /\ Begin("cover",
             IF ~crontab.wrapped THEN << <<"recheck", crontab>> >> ELSE <<>>)
    /\ UNCHANGED <<mix, table, outbox, crons, jvars, rvars, uvars, cvars, boots>>

(* ... and once more before it writes it back with its commands wrapped. *)
Recheck ==
    /\ todo # <<>> /\ Head(todo)[1] = "recheck"
    /\ todo' = IF Head(todo)[2] = crontab
               THEN << <<"replace", crontab>>, Emit(<<"covered", crontab.edit>>) >>
               ELSE << Emit(<<"collector", "coverage">>) >>
    /\ UNCHANGED <<mix, table, outbox, job, crons, jvars, rvars, uvars, cvars, boots>>
------------------------------------------------------------------------------
(* The durable writes of a pass. *)

Doing(what) == /\ todo # <<>>
               /\ Head(todo)[1] = what
               /\ todo' = Tail(todo)

WriteEvent ==
    /\ Doing("emit")
    /\ events' = Inserted(Head(todo)[2])
    /\ UNCHANGED <<mix, delivered, outbox, job, crons, jvars, rvars, uvars, cvars, boots>>

WriteMarker ==
    /\ Doing("mark")
    /\ markers' = markers \cup {Head(todo)[2]}
    /\ torn' = torn \ {Head(todo)[2]}
    /\ UNCHANGED <<mix, table, outbox, job, cron, spool, old, jvars, rvars, uvars, cvars, boots>>

RemoveMarker ==
    /\ Doing("unmark")
    /\ markers' = markers \ {Head(todo)[2]}
    /\ UNCHANGED <<mix, table, outbox, job, cron, spool, torn, old, jvars, rvars, uvars, cvars, boots>>

RemoveFile ==
    /\ Doing("unlink")
    /\ spool' = spool \ {Head(todo)[2]}
    /\ UNCHANGED <<mix, table, outbox, job, cron, markers, torn, old, jvars, rvars, uvars, cvars, boots>>

WriteCursor ==
    /\ Doing("cursor")
    /\ cursor' = Head(todo)[2]
    /\ valid' = TRUE
    /\ UNCHANGED <<mix, table, outbox, job, crons, journal, time, base, rvars, uvars, cvars, boots>>

WriteTime ==
    /\ Doing("time")
    /\ time' = Head(todo)[2]
    /\ UNCHANGED <<mix, table, outbox, job, crons, journal, cursor, valid, base, rvars, uvars, cvars,
                   boots>>

WriteOffset ==
    /\ Doing("offset")
    /\ offset' = [inode |-> Head(todo)[2], at |-> Head(todo)[3]]
    /\ UNCHANGED <<mix, table, outbox, job, crons, jvars, file, written, skipped, unread, child, childAt, uvars, cvars,
                   boots>>

WriteChildOffset ==
    /\ Doing("childOffset")
    /\ childAt' = Head(todo)[2]
    /\ UNCHANGED <<mix, table, outbox, job, crons, jvars, file, written, offset, skipped, unread, child, uvars,
                   cvars, boots>>

WriteCrontab ==
    /\ Doing("replace")
    /\ crontab' = [edit |-> Head(todo)[2].edit, wrapped |-> TRUE]
    /\ UNCHANGED <<mix, table, outbox, job, crons, jvars, rvars, uvars, edits, boots>>

Write == WriteEvent \/ WriteMarker \/ RemoveMarker \/ RemoveFile \/ WriteCursor \/ WriteTime
         \/ WriteOffset \/ WriteChildOffset \/ WriteCrontab
         \/ ReadFile \/ ReadMarker \/ ReadRecord \/ Recheck

(* A marker is half written. *)
HalfWritten ==
    /\ todo # <<>> /\ Head(todo)[1] = "mark"
    /\ markers' = markers \cup {Head(todo)[2]}
    /\ torn' = torn \cup {Head(todo)[2]}

(* A read or a write of a pass raises, that of a marker maybe half way.  The  *)
(* rest of ingest_spool goes with its beginning.  collect_loop records the    *)
(* failure and goes on (bounds: the mix, before the last loss of the process, *)
(* and until the failure is in the table: its key is that of half an hour).   *)
Skipping == IF job = "lost" \/ (job = "spool" /\ todo = <<>>) THEN After("lost")
            ELSE IF todo = <<>> THEN After(job)
            ELSE job

Failures  == {<<"collector", s>> : s \in {"spool", "coverage", "pass"}}
Recording == \E f \in Failures : todo = << Emit(f) >>

PassFails ==
    /\ "failure" \in mix /\ boots < Crashes /\ ~Has(<<"collector", "pass">>)
    /\ job # "ended" /\ ~Recording /\ todo # << Emit(<<"boot", boots>>) >>
    /\ job' = Skipping
    /\ todo' = << Emit(<<"collector", "pass">>) >>
    /\ UNCHANGED <<markers, torn>> \/ HalfWritten
    /\ UNCHANGED <<mix, table, outbox, cron, spool, old, jvars, rvars, uvars, cvars, boots>>

(* The record of a failure raises, and nobody catches that: the loop has     *)
(* ended until the next start.                                               *)
LoopEnds ==
    /\ "failure" \in mix
    /\ Recording
    /\ job' = "ended"
    /\ todo' = <<>>
    /\ UNCHANGED <<mix, table, outbox, crons, jvars, rvars, uvars, cvars, boots>>

Pass == SpoolPass \/ LostPass \/ JournalPass \/ JournalReset \/ JournalFirst \/ RetryPass
        \/ ChildPass \/ CoverPass
------------------------------------------------------------------------------
(* The allowance, read once per half hour by a task of its own. *)

UsageRead ==
    /\ "usage" \in mix
    /\ usage = 0
    /\ usageSlot # slot
    /\ usage' = slot
    /\ UNCHANGED <<mix, table, outbox, job, todo, crons, jvars, rvars, slot, usageSlot, cvars, boots>>

(* The event of the slot, with the numbers or with the failure. *)
UsageEmit ==
    /\ usage # 0
    /\ ~Has(<<"usage", usage>>)
    /\ events' = Inserted(<<"usage", usage>>)
    /\ UNCHANGED <<mix, delivered, outbox, job, todo, crons, jvars, rvars, uvars, cvars, boots>>

UsageStore ==
    /\ usage # 0
    /\ Has(<<"usage", usage>>)
    /\ usageSlot' = usage
    /\ usage' = 0
    /\ UNCHANGED <<mix, table, outbox, job, todo, crons, jvars, rvars, slot, cvars, boots>>
------------------------------------------------------------------------------
(* Around the collector. *)

JournalGrows ==
    /\ "journal" \in mix
    /\ journal < Records
    /\ journal' = journal + 1
    /\ UNCHANGED <<mix, table, outbox, job, todo, crons, cursor, valid, time, base, rvars, uvars, cvars,
                   boots>>

(* A vacuum or a reboot makes the cursor invalid. *)
JournalVacuumed ==
    /\ valid /\ cursor # 0 /\ ~\E p \in 1 .. Records : Has(<<"reset", p>>)
    /\ valid' = FALSE
    /\ UNCHANGED <<mix, table, outbox, job, todo, crons, journal, cursor, time, base, rvars, uvars,
                   cvars, boots>>

LogGrows ==
    /\ "retry" \in mix
    /\ written < Lines
    /\ written' = written + 1
    /\ file' = [file EXCEPT !.lines = @ + 1]
    /\ UNCHANGED <<mix, table, outbox, job, todo, crons, jvars, offset, skipped, unread, child, childAt, uvars, cvars,
                   boots>>

LogRotates ==
    /\ "retry" \in mix
    /\ file.inode = 1
    /\ file' = [inode |-> 2, lines |-> 0]
    /\ unread' = IF offset.inode = 1 THEN offset.at ELSE 0
    /\ UNCHANGED <<mix, table, outbox, job, todo, crons, jvars, written, offset, skipped, child, childAt,
                   uvars, cvars, boots>>

ChildReturns ==
    /\ "children" \in mix
    /\ child < Lines
    /\ child' = child + 1
    /\ UNCHANGED <<mix, table, outbox, job, todo, crons, jvars, file, written, offset, skipped, unread, childAt,
                   uvars, cvars, boots>>

SlotPasses ==
    /\ slot < Slots
    /\ slot' = slot + 1
    /\ UNCHANGED <<mix, table, outbox, job, todo, crons, jvars, rvars, usage, usageSlot, cvars, boots>>

HumanEdits ==
    /\ "crontab" \in mix
    /\ edits < Edits
    /\ edits' = edits + 1
    /\ crontab' = [edit |-> edits + 1, wrapped |-> FALSE]
    /\ UNCHANGED <<mix, table, outbox, job, todo, crons, jvars, rvars, uvars, boots>>

(* The loss of the process, in the middle of a write of a marker too, and   *)
(* its next start, which records an event.                                  *)
Crash ==
    /\ boots < Crashes
    /\ boots' = boots + 1
    /\ pub' = "idle"
    /\ batch' = {}
    /\ job' = FirstJob
    /\ todo' = << Emit(<<"boot", boots + 1>>) >>
    /\ usage' = 0
    /\ UNCHANGED <<markers, torn>> \/ HalfWritten
    /\ UNCHANGED <<mix, table, posted, cron, spool, old, jvars, rvars, slot, usageSlot, cvars>>

Publish == PublishRead \/ PublishPost \/ PublishFails \/ PublishMark

Cron == \E r \in Crons : CronStarts(r) \/ CronFinishes(r) \/ CronGone(r) \/ Age(r)

Environment == JournalGrows \/ JournalVacuumed \/ LogGrows \/ LogRotates \/ ChildReturns \/ SlotPasses
               \/ HumanEdits

Next == ServiceEmits \/ Publish \/ Cron \/ Pass \/ PassFails \/ LoopEnds \/ Write \/ UsageRead \/ UsageEmit \/ UsageStore
        \/ Environment \/ Crash

Spec == Init /\ [][Next]_vars

(* The collector's loop goes on unless it ends.  Slack answers in the end, and the marks   *)
(* are then written.  A command ends and time passes.                        *)
Fairness ==
    /\ WF_vars(PublishRead) /\ SF_vars(PublishPost) /\ SF_vars(PublishMark)
    /\ WF_vars(Pass) /\ WF_vars(Write)
    /\ \A r \in Crons : WF_vars(CronGone(r)) /\ WF_vars(Age(r))

FairSpec == Spec /\ Fairness
------------------------------------------------------------------------------
(* The implementation of the feed (operations_store.py:32-33, 112-126 and   *)
(* operations_log.py:74-116): whatever fails and whenever the collector is  *)
(* lost, an event is recorded once, and the channel shows a beginning of    *)
(* the table.  An event may be shown twice, none is left out.               *)
Feed == INSTANCE EventFeed WITH log <- events, shown <- posted, called <- delivered

IsFeed == Feed!Spec

(* Nothing of a source is lost but what is named here (operations_log.py:   *)
(* 168, 232, 329-334, 360): a record is in the table, or after the cursor,   *)
(* or nobody's (`base`: before the first pass, or before the hour to which   *)
(* the journal falls back without a stored time); a line of the watched log  *)
(* is in the table, or was there before the log was first seen, or is ahead  *)
(* of the offset, or was still unread when the log was replaced; a result of *)
(* a child and a file of the spool likewise.  The process may be lost or a   *)
(* pass fail at any write.                                                   *)
LinesOf(i)        == IF i = file.inode THEN file.lines ELSE written - file.lines
BeforeFirst(i, o) == i < skipped.inode \/ (i = skipped.inode /\ o < skipped.at)
StillAhead(i, o)  == i = file.inode /\ (offset.inode = i => o >= offset.at)

NothingSkipped ==
    /\ \A p \in 1 .. journal : \/ p \in Noise \/ Has(<<"journal", p>>)
                              \/ p > cursor \/ p <= base
    /\ \A i \in 1 .. file.inode : \A o \in 0 .. LinesOf(i) - 1 :
          \/ Has(<<"line", i, o>>)
          \/ BeforeFirst(i, o) \/ StillAhead(i, o)
          \/ i < file.inode /\ o >= unread
    /\ \A o \in 0 .. child - 1 : Has(<<"result", o>>) \/ o >= childAt
    /\ \A r \in Crons : cron[r] # "idle" => Has(<<"running", r>>) \/ <<r, "running">> \in spool
    /\ \A r \in Crons :
          cron[r] \in {"finished", "exited"} => Has(<<"finish", r>>) \/ <<r, "finish">> \in spool

(* A run whose result is in the log is not reported as lost afterwards      *)
(* (operations_log.py:158-185): its marker is gone before its file, and     *)
(* files are read before markers.                                           *)
NoLossAfterResult ==
    \A i, j \in DOMAIN events, r \in Crons :
        events[i] = <<"finish", r>> /\ events[j] = <<"lost", r>> => j < i

(* A marker that was half written is always written again before anybody    *)
(* parses it: its file is still there (operations_log.py:165, 168, 171).    *)
TornIsRewritten ==
    job = "lost" /\ todo = <<>> => torn \cap markers = {}

(* A cron run that began is concluded in the channel: with its result, or   *)
(* as lost (operations_log.py:158 "Keep the start until its matching finish *)
(* so SIGKILL/reboot is observable"); but a failure that cannot be recorded *)
(* ends the loop of the collector for the life of the process (:468, :478). *)
Concluded(r) == \E i \in posted : events[i] \in {<<"finish", r>>, <<"lost", r>>}
RunsAreConcluded == \A r \in Crons : cron[r] # "idle" ~> (Concluded(r) \/ job = "ended")
=============================================================================
