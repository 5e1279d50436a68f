--------------------------- MODULE SubscriptionFlow ---------------------------
(***************************************************************************)
(* Incidents of the subscription-flow monitor: how its alerts and terminal  *)
(* replies reach the responder (archive.py: live events through the          *)
(* middleware, and the reconciliation of history), the incident rows they    *)
(* open and close (store.py, claim_subscription_flow_incidents and           *)
(* close_subscription_flow_component) and the investigation an opening       *)
(* launches (subscription_flow.py).                                          *)
(*                                                                           *)
(* An alert is numbered by its message_ts.  parse_serious_incidents derives   *)
(* natures from it, each of one component; a row of a nature therefore has    *)
(* one component while it is active, and is modelled by the alert recorded    *)
(* for that component (0 when inactive).                                      *)
(***************************************************************************)
EXTENDS Naturals, Sequences, FiniteSets

CONSTANTS
    Natures,        \* nature_key: a component with the state of its legs
    Components,     \* platform and kind of flow
    ComponentOf,    \* the component of a nature
    MaxAlerts,      \* bound: alerts the monitor posts
    MaxReplies,     \* bound: terminal replies the monitor posts
    MaxBoots,       \* bound: lives of the process
    BackfillLimit,  \* messages conversations_history returns
    AuthFails,      \* bound: whether auth_test may raise
    MaxSwitches,    \* bound: times an administrator switches the trigger
    Top             \* the kind of an alert; a reply's kind is its component

ASSUME FlowAssumption ==
    /\ ComponentOf \in [Natures -> Components]
    /\ Top \notin Components
    /\ IsFiniteSet(Components)
    /\ MaxAlerts \in Nat
    /\ MaxReplies \in Nat
    /\ MaxBoots \in Nat
    /\ BackfillLimit \in Nat
    /\ AuthFails \in BOOLEAN
    /\ MaxSwitches \in Nat

Alerts   == 1 .. MaxAlerts
Messages == Alerts \X (Components \cup {Top})
Handlers == Messages \X {"live", "sync"}

VARIABLES
    report,     \* Slack: the natures each alert names; {} before it is posted
    replies,    \* Slack: the terminal replies in the thread of each alert
    flow,       \* monitor: the alert under which a component is down, or 0
    stored,     \* messages: the archive's rows
    since,      \* subscription_flow_incidents: the alert of an active row, or 0
    asked,      \* the agent request "<ts>:subscription-flow-analysis"
    covered,    \* the natures the saved investigation of an alert is about
    switches,   \* how often the trigger "subscription-flow" was switched; on at first
    service,    \* the process: down, starting (first sync), serving
    boots,      \* number of starts so far
    known,      \* _own_user_id is cached
    delivered,  \* events Slack has delivered and will not deliver again
    at,         \* where each run of SubscriptionFlowResponder.handle is
    claims,     \* claimed, in each run of handle
    stage,      \* synchronize_archive on the monitor's channel
    listed,     \* alerts of the page whose threads it has still to visit
    latest,     \* latest_reply of each alert when the page was read
    batch,      \* messages read and about to be stored
    queue,      \* messages the archive had not stored, by their place in what was read
    handled,    \* history: messages whose effect on the rows took place
    missed,     \* history: stored messages a restart or an error kept from handle
    muted,      \* history: stored messages that found the trigger switched off
    openings,   \* history: how often a nature's row became active
    launches,   \* history: how often an investigation of a nature was saved
    cut,        \* history: openings whose run of handle was lost with the process
    merged      \* history: openings whose alert had already been asked about

slack   == <<report, replies, flow>>
rows    == <<stored, since, asked, covered>>
handling == <<known, delivered, at, claims>>
sync    == <<stage, listed, latest, batch, queue>>
fates   == <<handled, missed, muted>>
counts  == <<openings, launches, cut, merged>>
past    == <<fates, counts>>
vars    == <<slack, rows, switches, service, boots, handling, sync, past>>

TypeOK ==
    /\ report \in [Alerts -> SUBSET Natures]
    /\ replies \in [Alerts -> Seq(Components)]
    /\ flow \in [Components -> 0 .. MaxAlerts]
    /\ stored \in SUBSET Messages
    /\ since \in [Natures -> 0 .. MaxAlerts]
    /\ asked \in [Alerts -> {"none", "claimed", "saved"}]
    /\ covered \in [Alerts -> SUBSET Natures]
    /\ switches \in 0 .. MaxSwitches
    /\ service \in {"down", "starting", "serving"}
    /\ boots \in 0 .. MaxBoots
    /\ known \in BOOLEAN
    /\ delivered \in SUBSET Messages
    /\ at \in [Handlers -> {"idle", "arrived", "claimed", "requested"}]
    /\ claims \in [Handlers -> SUBSET Natures]
    /\ stage \in {"idle", "storing", "dispatching"}
    /\ listed \in Seq(Alerts)
    /\ latest \in [Alerts -> Components \cup {Top}]
    /\ batch \in SUBSET Messages
    /\ queue \in SUBSET (Nat \X Messages)
    /\ handled \in SUBSET Messages
    /\ missed \in SUBSET Messages
    /\ muted \in SUBSET Messages
    /\ openings \in [Natures -> Nat]
    /\ launches \in [Natures -> Nat]
    /\ cut \in [Natures -> Nat]
    /\ merged \in [Natures -> Nat]

Elements(s) == {s[i] : i \in DOMAIN s}
Message(h)  == h[1]
Alert(h)    == h[1][1]
Kind(h)     == h[1][2]
Posted(m)   == IF m[2] = Top THEN report[m[1]] # {} ELSE m[2] \in Elements(replies[m[1]])
(* The runs of handle that are about to launch an investigation of a nature. *)
Launching(n) == {h \in Handlers : n \in claims[h]}
On          == switches % 2 = 0
Syncing     == \E m \in Messages : at[<<m, "sync">>] # "idle"

Init ==
    /\ report = [a \in Alerts |-> {}]
    /\ replies = [a \in Alerts |-> <<>>]
    /\ flow = [c \in Components |-> 0]
    /\ stored = {}
    /\ since = [n \in Natures |-> 0]
    /\ asked = [a \in Alerts |-> "none"]
    /\ covered = [a \in Alerts |-> {}]
    /\ switches = 0
    /\ service = "down"
    /\ boots = 0
    /\ known = FALSE
    /\ delivered = {}
    /\ at = [h \in Handlers |-> "idle"]
    /\ claims = [h \in Handlers |-> {}]
    /\ stage = "idle"
    /\ listed = <<>>
    /\ latest = [a \in Alerts |-> Top]
    /\ batch = {}
    /\ queue = {}
    /\ handled = {}
    /\ missed = {}
    /\ muted = {}
    /\ openings = [n \in Natures |-> 0]
    /\ launches = [n \in Natures |-> 0]
    /\ cut = [n \in Natures |-> 0]
    /\ merged = [n \in Natures |-> 0]
------------------------------------------------------------------------------
(* The monitor: a SERIOUS alert names one nature per component; one terminal   *)
(* reply per component goes to the thread of its last alert.                   *)

Reports == {N \in SUBSET Natures \ {{}} :
               \A m, n \in N : ComponentOf[m] = ComponentOf[n] => m = n}

PostAlert(a, N) ==
    /\ boots > 0
    /\ report[a] = {}
    /\ \A b \in Alerts : b < a => report[b] # {}
    /\ report' = [report EXCEPT ![a] = N]
    /\ flow' = [c \in Components |-> IF \E n \in N : ComponentOf[n] = c THEN a ELSE flow[c]]
    /\ UNCHANGED <<replies, rows, switches, service, boots, handling, sync, past>>

PostReply(c) ==
    /\ flow[c] # 0
    /\ Cardinality({m \in Messages : m[2] # Top /\ Posted(m)}) < MaxReplies
    /\ replies' = [replies EXCEPT ![flow[c]] = Append(@, c)]
    /\ flow' = [flow EXCEPT ![c] = 0]
    /\ UNCHANGED <<report, rows, switches, service, boots, handling, sync, past>>
------------------------------------------------------------------------------
(* SubscriptionFlowResponder.handle, for an event or for a message of history. *)

Goto(h, from, to) == at[h] = from /\ at' = [at EXCEPT ![h] = to]

(* set_enabled: the file is read again at every message. *)
Switch ==
    /\ switches < MaxSwitches
    /\ switches' = switches + 1
    /\ UNCHANGED <<slack, rows, service, boots, handling, sync, past>>

(* A message of m reaches its trigger: a run of handle begins, or none does. *)
Trigger(h) ==
    \/ On /\ Goto(h, "idle", "arrived") /\ UNCHANGED muted
    \/ ~On /\ muted' = muted \cup {Message(h)} /\ UNCHANGED at

(* The middleware stores the event, then the listener runs. *)
Deliver(m) ==
    /\ service # "down"
    /\ Posted(m)
    /\ m \notin delivered
    /\ at[<<m, "live">>] = "idle"
    /\ Trigger(<<m, "live">>)
    /\ delivered' = delivered \cup {m}
    /\ stored' = stored \cup {m}
    /\ UNCHANGED <<slack, since, asked, covered, switches, service, boots, known, claims,
                   sync, handled, missed, counts>>

(* auth_test raises while the bot's own user id is unknown. *)
AuthRaises(h) ==
    /\ AuthFails
    /\ ~known
    /\ Goto(h, "arrived", "idle")
    /\ missed' = missed \cup {Message(h)}
    /\ UNCHANGED <<slack, rows, switches, service, boots, known, delivered, claims, sync, handled,
                   muted, counts>>

(* Mutant: whether a row is active is not asked. *)
ClaimAll(h) ==
    LET a == Alert(h)
        N == report[a] IN
    /\ Kind(h) = Top
    /\ Goto(h, "arrived", "claimed")
    /\ known' = TRUE
    /\ since' = [n \in Natures |-> IF n \in N THEN a ELSE since[n]]
    /\ claims' = [claims EXCEPT ![h] = N]
    /\ openings' = [n \in Natures |-> IF n \in N /\ since[n] = 0 THEN openings[n] + 1
                                       ELSE openings[n]]
    /\ handled' = handled \cup {Message(h)}
    /\ UNCHANGED <<slack, stored, asked, covered, switches, service, boots, delivered, sync, missed,
                   muted, launches, cut, merged>>

(* Mutant: of the natures an alert opened, one goes into the investigation. *)
ClaimOne(h) ==
    LET a == Alert(h)
        C == {n \in report[a] : since[n] = 0} IN
    /\ Kind(h) = Top
    /\ Goto(h, "arrived", IF C = {} THEN "idle" ELSE "claimed")
    /\ known' = TRUE
    /\ since' = [n \in Natures |-> IF n \in report[a] THEN a ELSE since[n]]
    /\ claims' = [claims EXCEPT ![h] = {n \in C : n = CHOOSE m \in C : TRUE}]
    /\ openings' = [n \in Natures |-> IF n \in C THEN openings[n] + 1 ELSE openings[n]]
    /\ handled' = handled \cup {Message(h)}
    /\ UNCHANGED <<slack, stored, asked, covered, switches, service, boots, delivered, sync, missed,
                   muted, launches, cut, merged>>

(* claim_subscription_flow_incidents: inactive natures are claimed, and every *)
(* row takes the alert's ts, whatever it held.                                *)
Claim(h) ==
    LET a == Alert(h)
        C == {n \in report[a] : since[n] = 0} IN
    /\ Kind(h) = Top
    /\ Goto(h, "arrived", IF C = {} THEN "idle" ELSE "claimed")
    /\ known' = TRUE
    /\ since' = [n \in Natures |-> IF n \in report[a] THEN a ELSE since[n]]
    /\ claims' = [claims EXCEPT ![h] = C]
    /\ openings' = [n \in Natures |-> IF n \in C THEN openings[n] + 1 ELSE openings[n]]
    /\ handled' = handled \cup {Message(h)}
    /\ UNCHANGED <<slack, stored, asked, covered, switches, service, boots, delivered, sync, missed,
                   muted, launches, cut, merged>>

(* close_subscription_flow_component: a reply to an older alert is ignored. *)
Close(h) ==
    /\ Kind(h) # Top
    /\ Goto(h, "arrived", "idle")
    /\ known' = TRUE
    /\ since' = [n \in Natures |->
                   IF ComponentOf[n] = Kind(h) /\ since[n] <= Alert(h) THEN 0 ELSE since[n]]
    /\ handled' = handled \cup {Message(h)}
    /\ UNCHANGED <<slack, stored, asked, covered, switches, service, boots, delivered, claims,
                   sync, missed, muted, counts>>

(* Mutant: the request of an alert is not deduplicated. *)
RequestAgain(h) ==
    /\ Goto(h, "claimed", "requested")
    /\ asked' = [asked EXCEPT ![Alert(h)] = "claimed"]
    /\ UNCHANGED <<slack, stored, since, covered, switches, service, boots, known, delivered,
                   claims, sync, past>>

(* submit() claims the request by "<ts>:subscription-flow-analysis". *)
Request(h) ==
    /\ \/ /\ asked[Alert(h)] = "none"
          /\ Goto(h, "claimed", "requested")
          /\ asked' = [asked EXCEPT ![Alert(h)] = "claimed"]
          /\ UNCHANGED <<claims, merged>>
       \/ /\ asked[Alert(h)] # "none"
          /\ Goto(h, "claimed", "idle")
          /\ claims' = [claims EXCEPT ![h] = {}]
          /\ merged' = [n \in Natures |-> IF n \in claims[h] THEN merged[n] + 1 ELSE merged[n]]
          /\ UNCHANGED asked
    /\ UNCHANGED <<slack, stored, since, covered, switches, service, boots, known, delivered,
                   sync, fates, openings, launches, cut>>

(* Mutant: the status of the run is written to the request. *)
SaveRunStatus(h) ==
    LET a == Alert(h) IN
    /\ Goto(h, "requested", "idle")
    /\ asked' = [asked EXCEPT ![a] = "queued"]
    /\ covered' = [covered EXCEPT ![a] = claims[h]]
    /\ launches' = [n \in Natures |-> IF n \in claims[h] THEN launches[n] + 1 ELSE launches[n]]
    /\ claims' = [claims EXCEPT ![h] = {}]
    /\ UNCHANGED <<slack, stored, since, switches, service, boots, known, delivered, sync,
                   fates, openings, cut, merged>>

(* submit() saves the durable run; the turn itself is ThreadTurns'. *)
SaveRun(h) ==
    LET a == Alert(h) IN
    /\ Goto(h, "requested", "idle")
    /\ asked' = [asked EXCEPT ![a] = "saved"]
    /\ covered' = [covered EXCEPT ![a] = claims[h]]
    /\ launches' = [n \in Natures |-> IF n \in claims[h] THEN launches[n] + 1 ELSE launches[n]]
    /\ claims' = [claims EXCEPT ![h] = {}]
    /\ UNCHANGED <<slack, stored, since, switches, service, boots, known, delivered, sync,
                   fates, openings, cut, merged>>

Handle(h) == AuthRaises(h) \/ Claim(h) \/ Close(h) \/ Request(h) \/ SaveRun(h)
------------------------------------------------------------------------------
(* synchronize_archive on the monitor's channel.  The first one of a life has  *)
(* no handler: what it finds is stored and not dispatched.                     *)

PostedAlerts == Cardinality({a \in Alerts : report[a] # {}})

(* A page of history, newest first. *)
Page ==
    LET p == PostedAlerts IN
    [i \in 1 .. (IF p < BackfillLimit THEN p ELSE BackfillLimit) |-> p + 1 - i]

Unseen(s) ==
    IF service = "serving" THEN {<<i, s[i]>> : i \in {j \in DOMAIN s : s[j] \notin stored}}
    ELSE {}

Queued == {q[2] : q \in queue}

(* Mutant: which messages are new is asked after they are stored. *)
SyncListLate ==
    /\ service # "down"
    /\ stage = "idle"
    /\ stage' = "storing"
    /\ listed' = Page
    /\ latest' = [a \in Alerts |-> IF replies[a] = <<>> THEN Top ELSE replies[a][Len(replies[a])]]
    /\ batch' = {<<a, Top>> : a \in Elements(Page)}
    /\ queue' = {}
    /\ UNCHANGED <<slack, rows, switches, service, boots, handling, past>>

SyncList ==
    /\ service # "down"
    /\ stage = "idle"
    /\ stage' = "storing"
    /\ listed' = Page
    /\ latest' = [a \in Alerts |-> IF replies[a] = <<>> THEN Top ELSE replies[a][Len(replies[a])]]
    /\ batch' = {<<a, Top>> : a \in Elements(Page)}
    /\ queue' = Unseen([i \in DOMAIN Page |-> <<Page[i], Top>>])
    /\ UNCHANGED <<slack, rows, switches, service, boots, handling, past>>

(* upsert_history_messages. *)
SyncStore ==
    /\ stage = "storing"
    /\ stage' = "dispatching"
    /\ stored' = stored \cup batch
    /\ batch' = {}
    /\ missed' = IF service = "starting" THEN missed \cup (batch \ stored) ELSE missed
    /\ UNCHANGED <<slack, since, asked, covered, switches, service, boots, handling, listed,
                   latest, queue, handled, muted, counts>>

(* handle_new_history_message for the first of the queue, one at a time. *)
Dispatch ==
    /\ stage = "dispatching"
    /\ ~Syncing
    /\ \E q \in queue :
        /\ \A p \in queue : q[1] <= p[1]
        /\ Trigger(<<q[2], "sync">>)
        /\ queue' = queue \ {q}
    /\ UNCHANGED <<slack, rows, switches, service, boots, known, delivered, claims, stage, listed,
                   latest, batch, handled, missed, counts>>

Dispatched == stage = "dispatching" /\ queue = {} /\ ~Syncing

HasNewReply(a) == latest[a] # Top /\ <<a, latest[a]>> \notin stored

(* A thread whose latest reply is stored is not read; reading one may fail. *)
SkipThread ==
    /\ Dispatched
    /\ listed # <<>>
    /\ listed' = Tail(listed)
    /\ UNCHANGED <<slack, rows, switches, service, boots, handling, stage, latest, batch, queue, past>>

ReadThread ==
    LET a == Head(listed) IN
    /\ Dispatched
    /\ listed # <<>>
    /\ HasNewReply(a)
    /\ listed' = Tail(listed)
    /\ stage' = "storing"
    /\ batch' = {<<a, c>> : c \in Elements(replies[a])}
    /\ queue' = Unseen([i \in DOMAIN replies[a] |-> <<a, replies[a][i]>>])
    /\ UNCHANGED <<slack, rows, switches, service, boots, handling, latest, past>>

SyncEnds ==
    /\ Dispatched
    /\ listed = <<>>
    /\ stage' = "idle"
    /\ service' = "serving"
    /\ latest' = [a \in Alerts |-> Top]
    /\ UNCHANGED <<slack, rows, switches, boots, handling, listed, batch, queue, past>>

(* conversations_history fails: the channel is skipped, and the life goes on. *)
SyncFails ==
    /\ service = "starting"
    /\ stage = "idle"
    /\ service' = "serving"
    /\ UNCHANGED <<slack, rows, switches, boots, handling, sync, past>>

Sync == SyncList \/ SyncFails \/ SyncStore \/ Dispatch \/ SkipThread \/ ReadThread \/ SyncEnds
------------------------------------------------------------------------------
(* The process.  What a life leaves unfinished is forgotten; Slack delivers    *)
(* again the events whose listener had not returned.                           *)

Boot ==
    /\ service = "down"
    /\ boots < MaxBoots
    /\ boots' = boots + 1
    /\ service' = "starting"
    /\ UNCHANGED <<slack, rows, switches, handling, sync, past>>

Crash ==
    /\ service # "down"
    /\ boots < MaxBoots
    /\ service' = "down"
    /\ known' = FALSE
    /\ delivered' = delivered \ {m \in Messages : at[<<m, "live">>] # "idle"}
    /\ at' = [h \in Handlers |-> "idle"]
    /\ claims' = [h \in Handlers |-> {}]
    /\ stage' = "idle"
    /\ listed' = <<>>
    /\ latest' = [a \in Alerts |-> Top]
    /\ batch' = {}
    /\ queue' = {}
    /\ missed' = missed \cup {Message(h) : h \in {g \in Handlers : at[g] = "arrived"}}
                        \cup (Queued \cap stored)
    /\ cut' = [n \in Natures |-> cut[n] + Cardinality(Launching(n))]
    /\ UNCHANGED <<slack, rows, switches, boots, handled, muted, openings, launches, merged>>

Next ==
    \/ \E a \in Alerts, N \in Reports : PostAlert(a, N)
    \/ \E c \in Components : PostReply(c)
    \/ \E m \in Messages : Deliver(m)
    \/ \E h \in Handlers : Handle(h)
    \/ Switch \/ Sync \/ Boot \/ Crash

Spec == Init /\ [][Next]_vars

(* The process runs its coroutines and reconciles history for ever.  Slack may  *)
(* never deliver an event, and reading a thread may always fail.               *)
Fairness ==
    /\ WF_vars(\E h \in Handlers : Handle(h))
    /\ WF_vars(Sync) /\ WF_vars(Boot)

FairSpec == Spec /\ Fairness
------------------------------------------------------------------------------
(* No message is lost between the archive and the responder: what is stored was *)
(* handled, is being handled, waits to be dispatched, found the trigger switched *)
(* off, or is one that a restart, the first sync of a life or a failed auth_test  *)
(* kept from handle.                                                            *)
StoredIsAccounted ==
    \A m \in stored :
        \/ m \in handled \cup missed \cup muted \cup Queued
        \/ \E h \in Handlers : Message(h) = m /\ at[h] = "arrived"

(* However often live events and reconciliation bring an alert, an incident that *)
(* opens is investigated at most once.                                          *)
OneLaunchPerOpening == \A n \in Natures : launches[n] <= openings[n]

(* README.md:115, "combined into one investigation and one shared answer": what  *)
(* the investigation of an alert is about is settled once.                      *)
OneInvestigationPerAlert ==
    [][\A a \in Alerts : asked[a] = "saved" =>
           asked'[a] = "saved" /\ covered'[a] = covered[a]]_vars

(* README.md:29, a reconciliation runs "to recover messages missed": an alert    *)
(* whose event never came reaches the responder while the process lives, unless  *)
(* the trigger is off when it does.                                             *)
MissedAlertIsHandled ==
    \A a \in Alerts :
        service = "serving" /\ Posted(<<a, Top>>) /\ <<a, Top>> \notin stored
            ~> <<a, Top>> \in handled \cup muted

(* README.md:115, "New platform components from one alert are claimed atomically  *)
(* and combined into one investigation": every opening of an incident gets an     *)
(* investigation that is about it, whatever else its alert names.  Two openings   *)
(* do not: the process is lost between the claim and the durable run, or the      *)
(* alert was handled twice and its other run of handle holds the request.         *)
EveryOpeningIsInvestigated ==
    \A n \in Natures :
        openings[n] <= launches[n] + Cardinality(Launching(n)) + cut[n] + merged[n]
==============================================================================
