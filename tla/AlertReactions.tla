---------------------------- MODULE AlertReactions ----------------------------
(***************************************************************************)
(* The responders that react to alerts of other bots, beside the one of      *)
(* SubscriptionFlow:                                                        *)
(*   anomaly    anomaly_alerts.py: a table in the thread, then an agent       *)
(*   payment    payment_layer.py: an agent in the thread                     *)
(*   airflow    airflow_owner_alerts.py: a mention in the thread             *)
(*   dashboard  alert_dashboard.py: one rebuild for the reports of a run      *)
(* All four are at the mercy of the same deliveries: an event may come twice, *)
(* out of order, and again after the process was lost.  Each remembers what   *)
(* it did in another place: the Slack thread and the cooldown rows, the agent *)
(* session, a file of handled alerts, a file with the last run.               *)
(***************************************************************************)
EXTENDS Naturals, FiniteSets

CONSTANTS
    Keys,           \* dimensions an anomaly alert is about
    Alerts,         \* bound: messages of the channel, in the order of their ts
    Redeliveries,   \* bound: events that come once more
    AlertCrashes,   \* bound: losses of the process
    AlertFaults     \* bound: errors of Slack, ClickHouse, scripts and submit

ASSUME AlertAssumption ==
    /\ Alerts \in Nat
    /\ Redeliveries \in Nat /\ AlertCrashes \in Nat /\ AlertFaults \in Nat

VARIABLES
    kind,       \* the responder of this behaviour
    posted,     \* messages in the channel: 1..posted
    came,       \* deliveries of each message
    handler,    \* the handlers, one for each delivery: where they are
    batch,      \* the keys a handler goes on with; the list a handler has read
    inFlight,   \* _in_flight of the responder
    replies,    \* answers posted for each message, the fallback text being one more
    rebuilds,   \* dashboards published for each message
    cooldown,   \* anomaly_analysis_cooldowns
    requests,   \* agent requests saved by submit, by the message they are for
    launches,   \* history: launches for each key in its window
    handled,    \* the file of the airflow responder
    built,      \* the file of the dashboard responder: the last run
    lost,       \* history: alerts that may be answered or rebuilt once more
    alertCrashes, alertFaults

alertVars == <<kind, posted, came, handler, batch, inFlight, replies, rebuilds, cooldown,
               requests, launches, handled, built, lost, alertCrashes, alertFaults>>

-----------------------------------------------------------------------------
Messages == 1..Alerts
Deliveries == Messages \X {1, 2}
Kinds == {"anomaly", "payment", "airflow", "dashboard"}

InitAlerts ==
    /\ kind \in Kinds
    /\ posted = 0
    /\ came = [m \in Messages |-> 0]
    /\ handler = [d \in Deliveries |-> "none"]
    /\ batch = [d \in Deliveries |-> {}]
    /\ inFlight = {}
    /\ replies = [m \in Messages |-> 0] /\ rebuilds = [m \in Messages |-> 0]
    /\ cooldown = {} /\ requests = {}
    /\ launches = [k \in Keys |-> 0]
    /\ handled = {} /\ built = 0
    /\ lost = {}
    /\ alertCrashes = 0 /\ alertFaults = 0

Goes(d, stage) == handler' = [handler EXCEPT ![d] = stage] /\ UNCHANGED inFlight

(* The finally clause: the message is no longer in flight.                   *)
Ends(d) ==
    /\ handler' = [handler EXCEPT ![d] = "none"]
    /\ inFlight' = inFlight \ {d[1]}

Faulty(d) ==
    /\ alertFaults < AlertFaults /\ alertFaults' = alertFaults + 1
    /\ Ends(d)
    /\ batch' = [batch EXCEPT ![d] = {}]
    /\ UNCHANGED <<kind, posted, came, replies, rebuilds, cooldown, requests, launches,
                   handled, built, lost, alertCrashes>>

Post ==
    /\ posted < Alerts /\ posted' = posted + 1
    /\ UNCHANGED <<kind, came, handler, batch, inFlight, replies, rebuilds, cooldown, requests,
                   launches, handled, built, lost, alertCrashes, alertFaults>>

(* An event comes, for the first time or again.                              *)
Comes(m) ==
    /\ came[m] < 2
    /\ came[m] = 0 \/ Cardinality({n \in Messages : came[n] = 2}) < Redeliveries
    /\ came' = [came EXCEPT ![m] = @ + 1]
    /\ UNCHANGED <<kind, posted, batch, replies, rebuilds, cooldown, requests, launches,
                   handled, built, lost, alertCrashes, alertFaults>>

First == IF kind = "dashboard" THEN "settle" ELSE "check"

(* Mutant: nothing is kept of the messages being handled.                    *)
DeliverAlways(m) ==
    /\ m <= posted /\ Comes(m)
    /\ Goes(<<m, came[m] + 1>>, First)

(* A message that is being handled is not handled once more.                  *)
Deliver(m) ==
    /\ m <= posted /\ Comes(m)
    /\ IF m \in inFlight THEN UNCHANGED <<handler, inFlight>>
       ELSE /\ handler' = [handler EXCEPT ![<<m, came[m] + 1>>] = First]
            /\ inFlight' = inFlight \cup {m}

-----------------------------------------------------------------------------
(* What the responder remembers: an own reply in the thread, an agent session, *)
(* the file of handled alerts, the last run.                                 *)
Done(m) ==
    CASE kind = "anomaly"   -> replies[m] > 0
      [] kind = "payment"   -> m \in requests
      [] kind = "airflow"   -> m \in handled
      [] kind = "dashboard" -> built = m

(* Mutant: the file of the last run is not asked.                            *)
SettleUnchecked(d) ==
    /\ handler[d] = "settle"
    /\ \/ posted >= 3 /\ posted = d[1] /\ Goes(d, "work")
       \/ Ends(d)
    /\ UNCHANGED <<kind, posted, came, batch, replies, rebuilds, cooldown, requests,
                   launches, handled, built, lost, alertCrashes, alertFaults>>

(* The dashboard waits for the chunks of the report and reads the channel: a  *)
(* run is complete with three reports of an hour, and only its last one goes on, *)
(* if the file does not have it.  A report that comes now waits in its turn, so   *)
(* nothing is recorded between the two looks.                                *)
Settle(d) ==
    /\ handler[d] = "settle"
    /\ \/ /\ \/ posted >= 3 /\ posted = d[1] /\ ~Done(d[1]) /\ Goes(d, "work")
             \/ Ends(d)
          /\ UNCHANGED <<kind, posted, came, batch, replies, rebuilds, cooldown, requests,
                         launches, handled, built, lost, alertCrashes, alertFaults>>
       \/ Faulty(d)

(* The history of the channel holds no batch with this mention, or an empty one. *)
NoBatch(d) == kind = "anomaly" /\ Ends(d)

(* The file of the airflow responder is cut and written anew: who reads it in    *)
(* between reads an empty one.                                               *)
Torn(d) == \E e \in Deliveries : e # d /\ handler[e] = "write"

Overlooked(d) ==
    /\ kind = "airflow" /\ Torn(d)
    /\ lost' = lost \cup ({d[1]} \cap handled)
    /\ Goes(d, "work")

Check(d) ==
    /\ handler[d] = "check"
    /\ \/ /\ \/ /\ \/ Done(d[1]) /\ Ends(d)
                   \/ ~Done(d[1]) /\ Goes(d, IF kind = "payment" THEN "submit" ELSE "work")
                   \/ NoBatch(d)
                /\ UNCHANGED lost
             \/ Overlooked(d)
          /\ UNCHANGED <<kind, posted, came, batch, replies, rebuilds, cooldown, requests,
                         launches, handled, built, alertCrashes, alertFaults>>
       \/ Faulty(d)

(* The values of the metrics are queried.                                    *)
Judged(d) == kind = "anomaly" /\ Goes(d, "post")

(* The resolver's verdict: a DAG of the operator, or of somebody else, which    *)
(* is only recorded.                                                         *)
Resolved(d) == kind = "airflow" /\ (Goes(d, "post") \/ Goes(d, "mark"))

(* The four scripts of the pipeline have run, the last one has published.      *)
Rebuilt(d) ==
    /\ kind = "dashboard" /\ Goes(d, "record")
    /\ rebuilds' = [rebuilds EXCEPT ![d[1]] = @ + 1]

(* The work before the answer.  A failure is not tried again: the anomaly       *)
(* stays unanswered, the owner hears of a failed dashboard, an airflow alert    *)
(* is not handled.                                                           *)
Work(d) ==
    /\ handler[d] = "work"
    /\ \/ /\ ((Judged(d) \/ Resolved(d)) /\ UNCHANGED rebuilds) \/ Rebuilt(d)
          /\ UNCHANGED <<kind, posted, came, batch, replies, cooldown, requests,
                         launches, handled, built, lost, alertCrashes, alertFaults>>
       \/ Faulty(d)

(* The run is recorded before it is announced.  The file has one run: the record *)
(* of an earlier one, whose rebuild took longer, takes the place of a later one's. *)
Record(d) ==
    /\ handler[d] = "record"
    /\ built' = d[1]
    /\ lost' = IF d[1] < built THEN lost \cup {built} ELSE lost
    /\ Goes(d, "post")
    /\ UNCHANGED <<kind, posted, came, batch, replies, rebuilds, cooldown, requests, launches,
                   handled, alertCrashes, alertFaults>>

(* What the messages did has no record, and the file is as it was or empty.      *)
Forgets(messages) ==
    \/ lost' = lost \cup messages /\ UNCHANGED <<handled, built>>
    \/ /\ handled' = {} /\ built' = 0
       /\ lost' = lost \cup messages \cup handled \cup (Messages \cap {built})

(* The summary of the publisher cannot be read, its time was up after it          *)
(* published, or the file cannot be written.                                   *)
Unrecorded(d) ==
    /\ handler[d] \in {"record", "write"}
    /\ alertFaults < AlertFaults /\ alertFaults' = alertFaults + 1
    /\ Forgets({d[1]})
    /\ Ends(d)
    /\ batch' = [batch EXCEPT ![d] = {}]
    /\ UNCHANGED <<kind, posted, came, replies, rebuilds, cooldown, requests, launches,
                   alertCrashes>>

(* A part of the table is out: the first is the answer, and more may follow.    *)
TablePart(d) ==
    /\ handler[d] \in {"post", "more"} /\ kind = "anomaly"
    /\ replies' = [replies EXCEPT ![d[1]] = @ + IF handler[d] = "post" THEN 1 ELSE 0]
    /\ Goes(d, "more") \/ Goes(d, "claim")
    /\ UNCHANGED <<kind, posted, came, batch, rebuilds, cooldown, requests, launches, handled,
                   built, lost, alertCrashes, alertFaults>>

(* Slack rejects a part of the table: the fallback text is posted in its place,   *)
(* with the parts that are out, if any.                                        *)
PartRejected(d) ==
    /\ handler[d] \in {"post", "more"} /\ kind = "anomaly"
    /\ alertFaults < AlertFaults /\ alertFaults' = alertFaults + 1
    /\ Goes(d, IF handler[d] = "post" THEN "fallback" ELSE "patch")
    /\ UNCHANGED <<kind, posted, came, batch, replies, rebuilds, cooldown, requests, launches,
                   handled, built, lost, alertCrashes>>

Fallback(d) ==
    /\ handler[d] \in {"fallback", "patch"}
    /\ replies' = [replies EXCEPT ![d[1]] = @ + 1]
    /\ lost' = IF handler[d] = "patch" THEN lost \cup {d[1]} ELSE lost
    /\ Goes(d, "claim")
    /\ UNCHANGED <<kind, posted, came, batch, rebuilds, cooldown, requests, launches, handled,
                   built, alertCrashes, alertFaults>>

(* The fallback is rejected as well, and the anomaly goes on without an answer.  *)
Rejected(d) ==
    /\ handler[d] \in {"fallback", "patch"}
    /\ alertFaults < AlertFaults /\ alertFaults' = alertFaults + 1
    /\ Goes(d, "claim")
    /\ UNCHANGED <<kind, posted, came, batch, replies, rebuilds, cooldown, requests, launches,
                   handled, built, lost, alertCrashes>>

(* The mention, or the announcement.                                         *)
Answered(d) ==
    /\ handler[d] = "post" /\ kind # "anomaly"
    /\ replies' = [replies EXCEPT ![d[1]] = @ + 1]
    /\ IF kind = "airflow" THEN Goes(d, "mark") ELSE Ends(d)
    /\ UNCHANGED <<kind, posted, came, batch, rebuilds, cooldown, requests, launches, handled,
                   built, lost, alertCrashes, alertFaults>>

(* The call ends in another error, and Slack has what was sent or not.          *)
Unanswered(d) ==
    /\ handler[d] \in {"post", "more", "fallback", "patch"}
    /\ alertFaults < AlertFaults /\ alertFaults' = alertFaults + 1
    /\ \E n \in IF handler[d] = "more" THEN {0} ELSE {0, 1} :
          replies' = [replies EXCEPT ![d[1]] = @ + n]
    /\ lost' = IF kind = "airflow" \/ handler[d] = "patch" THEN lost \cup {d[1]} ELSE lost
    /\ Ends(d)
    /\ UNCHANGED <<kind, posted, came, batch, rebuilds, cooldown, requests, launches, handled,
                   built, alertCrashes>>

Reply(d) ==
    \/ TablePart(d) \/ PartRejected(d) \/ Fallback(d) \/ Rejected(d)
    \/ Answered(d) \/ Unanswered(d)

-----------------------------------------------------------------------------
(* _mark_handled reads the file and writes it in a thread of its own, without  *)
(* a lock: an alert that another handler wrote in between is forgotten.        *)
MarkReads(d) ==
    /\ handler[d] = "mark"
    /\ \E read \in {handled} \cup (IF Torn(d) THEN {{}} ELSE {}) :
          batch' = [batch EXCEPT ![d] = read]
    /\ Goes(d, "write")
    /\ UNCHANGED <<kind, posted, came, replies, rebuilds, cooldown, requests, launches, handled,
                   built, lost, alertCrashes, alertFaults>>

MarkWrites(d) ==
    /\ handler[d] = "write"
    /\ handled' = batch[d] \cup {d[1]}
    /\ lost' = lost \cup (handled \ handled')
    /\ Ends(d)
    /\ batch' = [batch EXCEPT ![d] = {}]
    /\ UNCHANGED <<kind, posted, came, replies, rebuilds, cooldown, requests, launches, built,
                   alertCrashes, alertFaults>>

(* The keys of the batch that the values confirm, by the week before.         *)
Confirmed == SUBSET Keys

(* Mutant: the rows are read but not written.                                *)
ClaimReads(d) ==
    /\ handler[d] = "claim"
    /\ \E confirmed \in Confirmed :
          LET fresh == confirmed \ cooldown
          IN  /\ batch' = [batch EXCEPT ![d] = fresh]
              /\ IF fresh = {} THEN Ends(d) ELSE Goes(d, "submit")
    /\ UNCHANGED <<kind, posted, came, replies, rebuilds, cooldown, requests, launches, handled,
                   built, lost, alertCrashes, alertFaults>>

(* claim_anomaly_analyses, one transaction: of the confirmed keys, those not    *)
(* launched within the cooldown.                                             *)
ClaimKeys(d) ==
    /\ handler[d] = "claim"
    /\ \E confirmed \in Confirmed :
          LET fresh == confirmed \ cooldown
          IN  /\ cooldown' = cooldown \cup fresh
              /\ batch' = [batch EXCEPT ![d] = fresh]
              /\ IF fresh = {} THEN Ends(d) ELSE Goes(d, "submit")
    /\ UNCHANGED <<kind, posted, came, replies, rebuilds, requests, launches, handled, built,
                   lost, alertCrashes, alertFaults>>

(* submit saves the request under the message, once; or it raises.            *)
Submit(d) ==
    /\ handler[d] = "submit"
    /\ \/ /\ requests' = requests \cup {d[1]}
          /\ launches' = [k \in Keys |-> IF k \in batch[d] /\ d[1] \notin requests
                                         THEN launches[k] + 1 ELSE launches[k]]
          /\ Ends(d)
          /\ batch' = [batch EXCEPT ![d] = {}]
          /\ UNCHANGED <<kind, posted, came, replies, rebuilds, cooldown, handled, built, lost,
                         alertCrashes, alertFaults>>
       \/ Faulty(d)

(* 24 hours pass for a key; no handler is at work that long.                 *)
Expire(k) ==
    /\ k \in cooldown
    /\ \A d \in Deliveries : k \notin batch[d]
    /\ cooldown' = cooldown \ {k}
    /\ launches' = [launches EXCEPT ![k] = 0]
    /\ UNCHANGED <<kind, posted, came, handler, batch, inFlight, replies, rebuilds, requests,
                   handled, built, lost, alertCrashes, alertFaults>>

(* The process is lost, maybe in the middle of a write of the file.            *)
AlertCrash ==
    /\ alertCrashes < AlertCrashes /\ alertCrashes' = alertCrashes + 1
    /\ LET At(stages) == {d[1] : d \in {e \in Deliveries : handler[e] \in stages}}
       IN  IF At({"record", "write"}) # {} THEN Forgets(At({"record", "mark", "write"}))
           ELSE lost' = lost \cup At({"mark"}) /\ UNCHANGED <<handled, built>>
    /\ handler' = [d \in Deliveries |-> "none"]
    /\ batch' = [d \in Deliveries |-> {}]
    /\ inFlight' = {}
    /\ UNCHANGED <<kind, posted, came, replies, rebuilds, cooldown, requests, launches,
                   alertFaults>>

NextAlerts ==
    \/ Post \/ AlertCrash
    \/ \E m \in Messages : Deliver(m)
    \/ \E d \in Deliveries :
          \/ Settle(d) \/ Check(d) \/ Work(d) \/ Record(d) \/ Unrecorded(d) \/ Reply(d)
          \/ MarkReads(d) \/ MarkWrites(d) \/ ClaimKeys(d) \/ Submit(d)
    \/ \E k \in Keys : Expire(k)

SpecAlerts == InitAlerts /\ [][NextAlerts]_alertVars

-----------------------------------------------------------------------------
(* README.md:168, "repeated alerts for that same combination are excluded from *)
(* agent analysis for 24 hours": whatever alerts share a key, in whatever order *)
(* they are handled, one investigation is launched for it in its window.        *)
OneLaunchPerKey == \A k \in Keys : launches[k] <= 1

(* README.md:105, "Slack thread history provides durable deduplication, while    *)
(* an in-process guard suppresses concurrent delivery retries": an alert has one   *)
(* answer, whatever comes again and wherever the process is lost.  The code's       *)
(* exceptions are in lost: a mention or a rebuild whose record was not written, was  *)
(* overwritten by another handler's or not read while that one wrote it, and a table *)
(* with its first part out that was rejected later, which the fallback text follows. *)
OneAnswerPerAlert == \A m \in Messages : replies[m] <= 1 \/ m \in lost

(* README.md:163, "a redelivered event or a service restart does not rebuild it    *)
(* twice": the pipeline publishes once for a run, also when a report of the next    *)
(* run comes while it works, but for the runs in lost.                          *)
OneRebuildPerRun == \A m \in Messages : rebuilds[m] <= 1 \/ m \in lost
=============================================================================
