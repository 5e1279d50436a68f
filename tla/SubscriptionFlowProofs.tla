------------------------ MODULE SubscriptionFlowProofs ------------------------
(* What SubscriptionFlow promises for any natures, components, alerts and lives  *)
(* of the process.                                                              *)
EXTENDS SubscriptionFlow, FiniteSetTheorems, SequenceTheorems, TLAPS

(* A handler is a message with the way it came; a reply is about a component.    *)
LEMMA HandlerFacts ==
    /\ \A h \in Handlers : /\ Message(h) \in Messages
                           /\ Alert(h) \in Alerts
                           /\ Kind(h) \in Components \cup {Top}
                           /\ Message(h) = <<Alert(h), Kind(h)>>
                           /\ h = <<Message(h), "live">> \/ h = <<Message(h), "sync">>
    /\ \A m \in Messages : <<m, "live">> \in Handlers /\ <<m, "sync">> \in Handlers
    /\ \A a \in Alerts : <<a, Top>> \in Messages /\ \A c \in Components : <<a, c>> \in Messages
  BY DEF Handlers, Messages, Message, Alert, Kind

(* There are finitely many runs of handle.                                      *)
LEMMA HandlersFinite == IsFiniteSet(Handlers)
  <1>1. IsFiniteSet(Alerts)
    BY FS_Interval, FlowAssumption DEF Alerts
  <1>2. IsFiniteSet(Components \cup {Top})
    BY FS_AddElement, FlowAssumption
  <1>3. IsFiniteSet(Messages)
    BY <1>1, <1>2, FS_Product DEF Messages
  <1>4. IsFiniteSet({"live", "sync"})
    <2>1. IsFiniteSet({"live"} \cup {"sync"})
      BY FS_Singleton, FS_AddElement
    <2>2. {"live"} \cup {"sync"} = {"live", "sync"}
      OBVIOUS
    <2> QED BY <2>1, <2>2
  <1> QED BY <1>3, <1>4, FS_Product DEF Handlers

LEMMA LaunchingFinite ==
    \A n \in Natures : IsFiniteSet(Launching(n)) /\ Cardinality(Launching(n)) \in Nat
  <1> TAKE n \in Natures
  <1>1. Launching(n) \subseteq Handlers
    BY DEF Launching
  <1> QED BY ONLY <1>1, HandlersFinite, FS_Subset, FS_CardinalityType

(* A message that reaches its trigger has a run of handle or is muted.           *)
LEMMA TriggerFacts ==
    ASSUME TypeOK, NEW h \in Handlers, Trigger(h)
    PROVE  /\ Message(h) \in muted' \/ at'[h] = "arrived"
           /\ muted \subseteq muted' /\ muted' \in SUBSET Messages
           /\ at' \in [Handlers -> {"idle", "arrived", "claimed", "requested"}]
           /\ \A g \in Handlers : at'[g] = at[g] \/ (at[g] = "idle" /\ at'[g] = "arrived")
           /\ at' = at \/ Goto(h, "idle", "arrived")
  BY HandlerFacts DEF Trigger, Goto, TypeOK

(* A page is a sequence of alerts that were posted.                             *)
LEMMA PageType == ASSUME TypeOK PROVE Page \in Seq(Alerts)
  <1> DEFINE P == {a \in Alerts : report[a] # {}}
  <1>1. IsFiniteSet(Alerts) /\ Cardinality(Alerts) = MaxAlerts
    BY FS_Interval, FlowAssumption DEF Alerts
  <1>2. PostedAlerts \in 0 .. MaxAlerts
    <2>1. Cardinality(P) \in Nat /\ Cardinality(P) <= Cardinality(Alerts)
      BY <1>1, FS_Subset, FS_CardinalityType
    <2> QED BY <1>1, <2>1, FlowAssumption DEF PostedAlerts
  <1> DEFINE L == IF PostedAlerts < BackfillLimit THEN PostedAlerts ELSE BackfillLimit
  <1>3. L \in Nat /\ L <= PostedAlerts
    BY <1>2, FlowAssumption
  <1>4. \A i \in 1 .. L : PostedAlerts + 1 - i \in Alerts
    BY <1>2, <1>3, FlowAssumption DEF Alerts
  <1>5. Page = [i \in 1 .. L |-> PostedAlerts + 1 - i]
    BY DEF Page
  <1> HIDE DEF L
  <1> QED BY <1>3, <1>4, <1>5

(* What is read of a sequence of messages is queued by its place.               *)
LEMMA UnseenType ==
    ASSUME TypeOK, NEW s \in Seq(Messages)
    PROVE  Unseen(s) \in SUBSET (Nat \X Messages)
  <1>1. DOMAIN s = 1 .. Len(s) /\ Len(s) \in Nat /\ \A i \in 1 .. Len(s) : s[i] \in Messages
    BY LenProperties
  <1> QED BY <1>1 DEF Unseen

(* Every step keeps the types.                                                  *)
LEMMA TypeStep == TypeOK /\ [Next]_vars => TypeOK'
  <1> SUFFICES ASSUME TypeOK, [Next]_vars PROVE TypeOK'
    OBVIOUS
  <1> USE TypeOK, HandlerFacts DEF TypeOK, slack, rows, handling, sync, past, fates, counts
  <1>1. ASSUME NEW a \in Alerts, NEW N \in Reports, PostAlert(a, N) PROVE TypeOK'
    BY <1>1, FlowAssumption DEF PostAlert, Reports, Alerts
  <1>2. ASSUME NEW c \in Components, PostReply(c) PROVE TypeOK'
    <2>1. flow[c] \in Alerts
      BY <1>2, FlowAssumption DEF PostReply, Alerts
    <2>2. Append(replies[flow[c]], c) \in Seq(Components)
      BY <2>1
    <2>3. replies' \in [Alerts -> Seq(Components)]
      BY ONLY <1>2, <2>1, <2>2, TypeOK DEF PostReply, TypeOK
    <2>4. flow' \in [Components -> 0 .. MaxAlerts]
      BY ONLY <1>2, TypeOK, FlowAssumption DEF PostReply, TypeOK
    <2> QED BY <1>2, <2>3, <2>4 DEF PostReply
  <1>3. ASSUME NEW m \in Messages, Deliver(m) PROVE TypeOK'
    <2>1. <<m, "live">> \in Handlers /\ Trigger(<<m, "live">>)
      BY <1>3 DEF Deliver
    <2>2. muted' \in SUBSET Messages /\ at' \in [Handlers -> {"idle", "arrived", "claimed", "requested"}]
      BY ONLY <2>1, TypeOK, TriggerFacts
    <2> QED BY <1>3, <2>2 DEF Deliver
  <1>4. ASSUME NEW h \in Handlers, AuthRaises(h) PROVE TypeOK'
    BY <1>4 DEF AuthRaises, Goto
  <1>5. ASSUME NEW h \in Handlers, Claim(h) PROVE TypeOK'
    <2>1. Alert(h) \in 0 .. MaxAlerts
      BY FlowAssumption DEF Alerts
    <2>2. report[Alert(h)] \in SUBSET Natures /\ Message(h) \in Messages
      OBVIOUS
    <2>3. since' \in [Natures -> 0 .. MaxAlerts]
      BY ONLY <1>5, <2>1, TypeOK DEF Claim, TypeOK
    <2>4. claims' \in [Handlers -> SUBSET Natures]
      BY ONLY <1>5, <2>2, TypeOK DEF Claim, TypeOK
    <2>5. openings' \in [Natures -> Nat]
      BY ONLY <1>5, TypeOK DEF Claim, TypeOK
    <2>6. at' \in [Handlers -> {"idle", "arrived", "claimed", "requested"}]
      BY ONLY <1>5, TypeOK DEF Claim, Goto, TypeOK
    <2> QED BY <1>5, <2>2, <2>3, <2>4, <2>5, <2>6 DEF Claim
  <1>6. ASSUME NEW h \in Handlers, Close(h) PROVE TypeOK'
    BY <1>6, FlowAssumption DEF Close, Goto
  <1>7. ASSUME NEW h \in Handlers, Request(h) PROVE TypeOK'
    <2>1. CASE asked[Alert(h)] = "none"
      BY <1>7, <2>1 DEF Request, Goto
    <2>2. CASE asked[Alert(h)] # "none"
      <3>1. merged' \in [Natures -> Nat]
        <4>1. \A n \in Natures : merged[n] \in Nat /\ merged[n] + 1 \in Nat
          OBVIOUS
        <4>2. merged' = [n \in Natures |-> IF n \in claims[h] THEN merged[n] + 1 ELSE merged[n]]
          BY ONLY <1>7, <2>2 DEF Request
        <4> QED BY ONLY <4>1, <4>2
      <3> QED BY <1>7, <2>2, <3>1 DEF Request, Goto
    <2> QED BY <2>1, <2>2
  <1>8. ASSUME NEW h \in Handlers, SaveRun(h) PROVE TypeOK'
    BY <1>8 DEF SaveRun, Goto
  <1>9. ASSUME SyncList PROVE TypeOK'
    <2> DEFINE s == [i \in DOMAIN Page |-> <<Page[i], Top>>]
    <2>1. Page \in Seq(Alerts) /\ DOMAIN Page = 1 .. Len(Page) /\ Len(Page) \in Nat
          /\ \A i \in DOMAIN Page : Page[i] \in Alerts
      BY PageType, LenProperties
    <2>2. s \in Seq(Messages)
      BY <2>1
    <2>3. queue' \in SUBSET (Nat \X Messages)
      BY <1>9, <2>2, UnseenType DEF SyncList
    <2>4. batch' \in SUBSET Messages
      BY <1>9, <2>1 DEF SyncList, Elements
    <2>5. latest' \in [Alerts -> Components \cup {Top}]
      <3>1. ASSUME NEW a \in Alerts, replies[a] # <<>> PROVE replies[a][Len(replies[a])] \in Components
        <4>1. Len(replies[a]) \in Nat \ {0}
          BY <3>1, EmptySeq
        <4> QED BY <4>1, ElementOfSeq
      <3> QED BY <1>9, <3>1 DEF SyncList
    <2> QED BY <1>9, <2>1, <2>3, <2>4, <2>5 DEF SyncList
  <1>10. ASSUME SyncStore PROVE TypeOK'
    BY <1>10 DEF SyncStore
  <1>11. ASSUME Dispatch PROVE TypeOK'
    <2>1. PICK q \in queue : Trigger(<<q[2], "sync">>) /\ queue' = queue \ {q}
      BY <1>11 DEF Dispatch
    <2>2. <<q[2], "sync">> \in Handlers
      BY <2>1
    <2>3. muted' \in SUBSET Messages /\ at' \in [Handlers -> {"idle", "arrived", "claimed", "requested"}]
      BY ONLY <2>1, <2>2, TypeOK, TriggerFacts
    <2> QED BY <1>11, <2>1, <2>3 DEF Dispatch
  <1>12. ASSUME SkipThread PROVE TypeOK'
    BY <1>12, HeadTailProperties DEF SkipThread
  <1>13. ASSUME ReadThread PROVE TypeOK'
    <2>1. Head(listed) \in Alerts /\ listed' \in Seq(Alerts)
      BY <1>13, HeadTailProperties DEF ReadThread
    <2>2. PICK a \in Alerts : a = Head(listed)
      BY <2>1
    <2> DEFINE s == [i \in DOMAIN replies[a] |-> <<a, replies[a][i]>>]
    <2>3. replies[a] \in Seq(Components)
      OBVIOUS
    <2>4. DOMAIN replies[a] = 1 .. Len(replies[a]) /\ Len(replies[a]) \in Nat
          /\ \A i \in DOMAIN replies[a] : replies[a][i] \in Components
      BY ONLY <2>3, LenProperties
    <2>5. \A i \in DOMAIN replies[a] : <<a, replies[a][i]>> \in Messages
      BY ONLY <2>4, HandlerFacts
    <2>6. s \in Seq(Messages)
      BY ONLY <2>4, <2>5
    <2>7. queue' \in SUBSET (Nat \X Messages)
      <3>1. Unseen(s) \in SUBSET (Nat \X Messages)
        BY ONLY TypeOK, <2>6, UnseenType
      <3>2. queue' = Unseen(s)
        BY ONLY <1>13, <2>2 DEF ReadThread
      <3> QED BY ONLY <3>1, <3>2
    <2>8. batch' \in SUBSET Messages
      BY ONLY <1>13, <2>2, <2>5 DEF ReadThread, Elements
    <2> QED BY <1>13, <2>1, <2>7, <2>8 DEF ReadThread
  <1>14. ASSUME SyncEnds PROVE TypeOK'
    BY <1>14 DEF SyncEnds
  <1>15. ASSUME SyncFails PROVE TypeOK'
    BY <1>15 DEF SyncFails
  <1>16. ASSUME Boot PROVE TypeOK'
    BY <1>16, FlowAssumption DEF Boot
  <1>17. ASSUME Crash PROVE TypeOK'
    <2>1. missed' \in SUBSET Messages
      <3>1. {Message(h) : h \in {g \in Handlers : at[g] = "arrived"}} \in SUBSET Messages
        BY ONLY HandlerFacts
      <3> QED BY ONLY <1>17, <3>1, TypeOK DEF Crash, TypeOK
    <2>2. <<>> \in Seq(Alerts)
      BY EmptySeq
    <2>3. cut' \in [Natures -> Nat]
      <3>1. \A n \in Natures : Cardinality(Launching(n)) \in Nat
        BY ONLY LaunchingFinite
      <3> QED BY ONLY <1>17, <3>1, TypeOK DEF Crash, TypeOK
    <2> QED BY <1>17, <2>1, <2>2, <2>3 DEF Crash
  <1> HIDE DEF TypeOK
  <1>18. ASSUME NEW h \in Handlers, Handle(h) PROVE TypeOK'
    BY <1>18, <1>4, <1>5, <1>6, <1>7, <1>8 DEF Handle
  <1>19. ASSUME Sync PROVE TypeOK'
    BY <1>19, <1>9, <1>10, <1>11, <1>12, <1>13, <1>14, <1>15 DEF Sync
  <1>20. CASE UNCHANGED vars
    BY <1>20 DEF vars, TypeOK
  <1>21. ASSUME Switch PROVE TypeOK'
    BY <1>21, FlowAssumption DEF Switch, TypeOK
  <1> QED BY ONLY [Next]_vars, <1>1, <1>2, <1>3, <1>18, <1>19, <1>16, <1>17, <1>20, <1>21 DEF Next

(* Every variable keeps its type.                                               *)
THEOREM FlowTypeCorrect == Spec => []TypeOK
  <1>1. Init => TypeOK
    <2>1. <<>> \in Seq(Alerts) /\ <<>> \in Seq(Components)
      BY EmptySeq
    <2>2. 0 \in 0 .. MaxAlerts /\ 0 \in 0 .. MaxBoots /\ 0 \in 0 .. MaxSwitches
      BY FlowAssumption
    <2> SUFFICES ASSUME Init PROVE TypeOK
      OBVIOUS
    <2>3. report \in [Alerts -> SUBSET Natures] /\ replies \in [Alerts -> Seq(Components)]
          /\ flow \in [Components -> 0 .. MaxAlerts] /\ stored \in SUBSET Messages
      BY <2>1, <2>2 DEF Init
    <2>4. since \in [Natures -> 0 .. MaxAlerts]
          /\ asked \in [Alerts -> {"none", "claimed", "saved"}] /\ covered \in [Alerts -> SUBSET Natures]
      BY <2>2 DEF Init
    <2>5. at \in [Handlers -> {"idle", "arrived", "claimed", "requested"}]
          /\ claims \in [Handlers -> SUBSET Natures] /\ latest \in [Alerts -> Components \cup {Top}]
      BY DEF Init
    <2>6. openings \in [Natures -> Nat] /\ launches \in [Natures -> Nat]
          /\ cut \in [Natures -> Nat] /\ merged \in [Natures -> Nat]
      BY DEF Init
    <2> QED BY <2>1, <2>2, <2>3, <2>4, <2>5, <2>6 DEF Init, TypeOK
  <1> QED BY <1>1, TypeStep, PTL DEF Spec
------------------------------------------------------------------------------
(* Between two reconciliations nothing is queued; while one stores what it read, *)
(* what the archive does not hold yet is queued.                                *)
NothingQueued ==
    /\ stage # "dispatching" /\ stage # "storing" => queue = {}
    /\ service = "down" => stage = "idle"

BatchIsQueued == stage = "storing" /\ service = "serving" => batch \ stored \subseteq Queued

QueueInv == NothingQueued /\ BatchIsQueued /\ StoredIsAccounted

(* What is new of what was read is what Unseen queues.                          *)
LEMMA UnseenQueues ==
    ASSUME service = "serving", NEW s, queue' = Unseen(s)
    PROVE  \A i \in DOMAIN s : s[i] \notin stored => s[i] \in Queued'
  <1> SUFFICES ASSUME NEW i \in DOMAIN s, s[i] \notin stored PROVE s[i] \in Queued'
    OBVIOUS
  <1>1. <<i, s[i]>> \in queue'
    BY DEF Unseen
  <1> QED BY <1>1 DEF Queued

(* No step loses a message on its way from the archive to the responder.        *)
LEMMA QueueStep == TypeOK /\ QueueInv /\ [Next]_vars => QueueInv'
  <1> SUFFICES ASSUME TypeOK, QueueInv, [Next]_vars PROVE QueueInv'
    OBVIOUS
  <1> USE TypeOK, QueueInv, HandlerFacts
        DEF TypeOK, QueueInv, NothingQueued, BatchIsQueued, StoredIsAccounted, Queued,
            slack, rows, handling, sync, past, fates, counts
  <1>1. ASSUME NEW a \in Alerts, NEW N \in Reports, PostAlert(a, N) PROVE QueueInv'
    BY <1>1 DEF PostAlert
  <1>2. ASSUME NEW c \in Components, PostReply(c) PROVE QueueInv'
    BY <1>2 DEF PostReply
  <1>3. ASSUME NEW m \in Messages, Deliver(m) PROVE QueueInv'
    <2>1. <<m, "live">> \in Handlers /\ Trigger(<<m, "live">>) /\ Message(<<m, "live">>) = m
      BY <1>3 DEF Deliver, Message
    <2>2. /\ m \in muted' \/ at'[<<m, "live">>] = "arrived"
          /\ muted \subseteq muted'
          /\ \A g \in Handlers : at'[g] = at[g] \/ (at[g] = "idle" /\ at'[g] = "arrived")
      BY ONLY <2>1, TypeOK, TriggerFacts
    <2>3. /\ stored' = stored \cup {m}
          /\ UNCHANGED <<handled, missed, queue, stage, batch, service>>
      BY <1>3 DEF Deliver
    <2>4. NothingQueued' /\ BatchIsQueued'
      BY ONLY <2>3, QueueInv DEF QueueInv, NothingQueued, BatchIsQueued, Queued
    <2>5. StoredIsAccounted'
      BY ONLY <2>1, <2>2, <2>3, QueueInv DEF QueueInv, StoredIsAccounted, Queued
    <2> QED BY ONLY <2>4, <2>5 DEF QueueInv
  <1>4. ASSUME NEW h \in Handlers, AuthRaises(h) PROVE QueueInv'
    <2>1. \A g \in Handlers : g # h => at'[g] = at[g]
      BY <1>4 DEF AuthRaises, Goto
    <2> QED BY <1>4, <2>1 DEF AuthRaises
  <1>5. ASSUME NEW h \in Handlers, Claim(h) \/ Close(h) PROVE QueueInv'
    <2>1. \A g \in Handlers : g # h => at'[g] = at[g]
      BY <1>5 DEF Claim, Close, Goto
    <2> QED BY <1>5, <2>1 DEF Claim, Close
  <1>6. ASSUME NEW h \in Handlers, Request(h) \/ SaveRun(h) PROVE QueueInv'
    <2>1. \A g \in Handlers : at[g] = "arrived" => at'[g] = "arrived"
      BY <1>6 DEF Request, SaveRun, Goto
    <2> QED BY <1>6, <2>1 DEF Request, SaveRun
  <1>7. ASSUME SyncList PROVE QueueInv'
    <2> DEFINE s == [i \in DOMAIN Page |-> <<Page[i], Top>>]
    <2>1. service = "serving" => \A i \in DOMAIN s : s[i] \notin stored => s[i] \in Queued'
      BY ONLY <1>7, UnseenQueues DEF SyncList
    <2>2. batch' = {s[i] : i \in DOMAIN s}
      BY ONLY <1>7 DEF SyncList, Elements
    <2>3. stored' = stored /\ service' = service /\ at' = at /\ UNCHANGED <<handled, missed, muted>>
      BY <1>7 DEF SyncList
    <2>4. queue = {} /\ stage' = "storing" /\ service # "down"
      BY <1>7 DEF SyncList
    <2> HIDE DEF s
    <2>5. NothingQueued' /\ BatchIsQueued'
      <3>1. service = "serving" => batch' \ stored \subseteq Queued'
        BY ONLY <2>1, <2>2
      <3>2. service # "down"
        BY <2>4
      <3> QED BY ONLY <3>1, <3>2, <2>3, <2>4 DEF NothingQueued, BatchIsQueued
    <2>6. StoredIsAccounted'
      <3>1. \A m \in stored : m \in handled \cup missed \cup muted \/ \E h \in Handlers : Message(h) = m /\ at[h] = "arrived"
        BY <2>4
      <3> QED BY ONLY <3>1, <2>3 DEF StoredIsAccounted
    <2> QED BY ONLY <2>5, <2>6 DEF QueueInv
  <1>8. ASSUME SyncStore PROVE QueueInv'
    BY <1>8 DEF SyncStore
  <1>9. ASSUME Dispatch PROVE QueueInv'
    <2>1. PICK q \in queue : Trigger(<<q[2], "sync">>) /\ queue' = queue \ {q}
      BY <1>9 DEF Dispatch
    <2>2. q[2] \in Messages /\ Message(<<q[2], "sync">>) = q[2] /\ <<q[2], "sync">> \in Handlers
      BY DEF Message
    <2>3. /\ q[2] \in muted' \/ at'[<<q[2], "sync">>] = "arrived"
          /\ muted \subseteq muted'
          /\ \A g \in Handlers : at'[g] = at[g] \/ (at[g] = "idle" /\ at'[g] = "arrived")
      BY ONLY <2>1, <2>2, TypeOK, TriggerFacts
    <2>4. \A p \in queue : p \in queue' \/ p[2] = q[2]
      BY <2>1
    <2>5. UNCHANGED <<stored, service, stage, batch, handled, missed>> /\ stage = "dispatching"
      BY <1>9 DEF Dispatch
    <2>6. NothingQueued' /\ BatchIsQueued'
      BY <2>5
    <2>7. \A m \in Queued : m \in Queued' \/ m = q[2]
      BY <2>4
    <2>8. StoredIsAccounted'
      BY ONLY <2>2, <2>3, <2>5, <2>7, QueueInv DEF QueueInv, StoredIsAccounted
    <2> QED BY ONLY <2>6, <2>8 DEF QueueInv
  <1>10. ASSUME SkipThread PROVE QueueInv'
    BY <1>10 DEF SkipThread
  <1>11. ASSUME ReadThread PROVE QueueInv'
    <2> DEFINE a == Head(listed)
               s == [i \in DOMAIN replies[a] |-> <<a, replies[a][i]>>]
    <2>1. service = "serving" => \A i \in DOMAIN s : s[i] \notin stored => s[i] \in Queued'
      BY ONLY <1>11, UnseenQueues DEF ReadThread
    <2>2. batch' = {s[i] : i \in DOMAIN s}
      BY ONLY <1>11 DEF ReadThread, Elements
    <2>3. stored' = stored /\ service' = service /\ at' = at /\ UNCHANGED <<handled, missed, muted>>
      BY <1>11 DEF ReadThread
    <2>4. queue = {} /\ stage = "dispatching" /\ stage' = "storing"
      BY <1>11 DEF ReadThread, Dispatched
    <2> HIDE DEF s
    <2>5. NothingQueued' /\ BatchIsQueued'
      <3>1. service = "serving" => batch' \ stored \subseteq Queued'
        BY ONLY <2>1, <2>2
      <3>2. service # "down"
        BY <2>4
      <3> QED BY ONLY <3>1, <3>2, <2>3, <2>4 DEF NothingQueued, BatchIsQueued
    <2>6. StoredIsAccounted'
      <3>1. \A m \in stored : m \in handled \cup missed \cup muted \/ \E h \in Handlers : Message(h) = m /\ at[h] = "arrived"
        BY <2>4
      <3> QED BY ONLY <3>1, <2>3 DEF StoredIsAccounted
    <2> QED BY ONLY <2>5, <2>6 DEF QueueInv
  <1>12. ASSUME SyncEnds PROVE QueueInv'
    BY <1>12 DEF SyncEnds, Dispatched
  <1>13. ASSUME SyncFails PROVE QueueInv'
    BY <1>13 DEF SyncFails
  <1>14. ASSUME Boot PROVE QueueInv'
    BY <1>14 DEF Boot
  <1>15. ASSUME Crash PROVE QueueInv'
    BY <1>15 DEF Crash
  <1> HIDE DEF QueueInv
  <1>16. CASE UNCHANGED vars
    BY <1>16 DEF vars, QueueInv
  <1>17. ASSUME Switch PROVE QueueInv'
    BY <1>17 DEF Switch, QueueInv
  <1> QED BY ONLY [Next]_vars, <1>1, <1>2, <1>3, <1>4, <1>5, <1>6, <1>7, <1>8, <1>9, <1>10, <1>11,
           <1>12, <1>13, <1>14, <1>15, <1>16, <1>17 DEF Next, Handle, Sync

LEMMA QueueInductive == Spec => []QueueInv
  <1>1. Init => QueueInv
    BY DEF Init, QueueInv, NothingQueued, BatchIsQueued, StoredIsAccounted
  <1> QED BY <1>1, QueueStep, FlowTypeCorrect, PTL DEF Spec

(* A message the archive stores reaches the responder, unless the first         *)
(* reconciliation of a life, a crash or a failed auth_test is named as the loss. *)
THEOREM StoredMessagesAccounted == Spec => []StoredIsAccounted
  <1>1. QueueInv => StoredIsAccounted
    BY DEF QueueInv
  <1> QED BY <1>1, QueueInductive, PTL
------------------------------------------------------------------------------
(* One run of handle at a time works on the request of an alert; only those that *)
(* claimed natures and have not saved their run hold any.                       *)
AskedOnce ==
    \A h \in Handlers : at[h] = "requested" =>
        /\ asked[Alert(h)] = "claimed"
        /\ \A g \in Handlers : at[g] = "requested" /\ Alert(g) = Alert(h) => g = h

OthersClaimNothing == \A h \in Handlers : at[h] \in {"idle", "arrived"} => claims[h] = {}

RequestInv == AskedOnce /\ OthersClaimNothing

(* Every step keeps requests and claims in order.                               *)
LEMMA RequestStep == TypeOK /\ RequestInv /\ [Next]_vars => RequestInv'
  <1> SUFFICES ASSUME TypeOK, RequestInv, [Next]_vars PROVE RequestInv'
    OBVIOUS
  <1> USE TypeOK, RequestInv, HandlerFacts
        DEF TypeOK, RequestInv, AskedOnce, OthersClaimNothing, slack, rows, handling, sync, past, fates, counts
  <1>1. ASSUME NEW a \in Alerts, NEW N \in Reports, PostAlert(a, N) PROVE RequestInv'
    BY <1>1 DEF PostAlert
  <1>2. ASSUME NEW c \in Components, PostReply(c) PROVE RequestInv'
    BY <1>2 DEF PostReply
  <1>3. ASSUME NEW m \in Messages, Deliver(m) PROVE RequestInv'
    <2>1. <<m, "live">> \in Handlers /\ Trigger(<<m, "live">>)
      BY <1>3 DEF Deliver
    <2>2. \A g \in Handlers : at'[g] = at[g] \/ (at[g] = "idle" /\ at'[g] = "arrived")
      BY ONLY <2>1, TypeOK, TriggerFacts
    <2>3. UNCHANGED <<asked, claims>>
      BY <1>3 DEF Deliver
    <2>4. AskedOnce'
      BY ONLY <2>2, <2>3, RequestInv DEF RequestInv, AskedOnce
    <2>5. OthersClaimNothing'
      BY ONLY <2>2, <2>3, TypeOK, RequestInv DEF TypeOK, RequestInv, OthersClaimNothing
    <2> QED BY ONLY <2>4, <2>5 DEF RequestInv
  <1>4. ASSUME NEW h \in Handlers, AuthRaises(h) PROVE RequestInv'
    BY <1>4 DEF AuthRaises, Goto
  <1>5. ASSUME NEW h \in Handlers, Claim(h) PROVE RequestInv'
    BY <1>5 DEF Claim, Goto
  <1>6. ASSUME NEW h \in Handlers, Close(h) PROVE RequestInv'
    BY <1>6 DEF Close, Goto
  <1>7. ASSUME NEW h \in Handlers, Request(h) PROVE RequestInv'
    <2>1. CASE asked[Alert(h)] = "none"
      <3>1. /\ at' = [at EXCEPT ![h] = "requested"] /\ at[h] = "claimed"
            /\ asked' = [asked EXCEPT ![Alert(h)] = "claimed"] /\ claims' = claims
        BY ONLY <1>7, <2>1 DEF Request, Goto
      <3>2. \A g \in Handlers : at[g] = "requested" => Alert(g) # Alert(h)
        BY <2>1
      <3>3. AskedOnce'
        BY ONLY <3>1, <3>2, TypeOK, RequestInv, HandlerFacts DEF TypeOK, RequestInv, AskedOnce
      <3>4. OthersClaimNothing'
        BY ONLY <3>1, TypeOK, RequestInv DEF TypeOK, RequestInv, OthersClaimNothing
      <3> QED BY ONLY <3>3, <3>4 DEF RequestInv
    <2>2. CASE asked[Alert(h)] # "none"
      BY <1>7, <2>2, ZenonT(40) DEF Request, Goto
    <2> QED BY <2>1, <2>2
  <1>8. ASSUME NEW h \in Handlers, SaveRun(h) PROVE RequestInv'
    BY <1>8 DEF SaveRun, Goto
  <1>9. ASSUME Sync PROVE RequestInv'
    <2>1. UNCHANGED <<asked, claims>>
      BY <1>9 DEF Sync, SyncList, SyncFails, SyncStore, Dispatch, SkipThread, ReadThread, SyncEnds
    <2>2. \/ UNCHANGED at
          \/ \E h \in Handlers : Goto(h, "idle", "arrived")
      <3>1. CASE Dispatch
        <4>1. PICK q \in queue : Trigger(<<q[2], "sync">>)
          BY <3>1 DEF Dispatch
        <4>2. <<q[2], "sync">> \in Handlers
          BY <4>1
        <4> QED BY ONLY <4>1, <4>2, TypeOK, TriggerFacts
      <3>2. CASE ~Dispatch
        BY <1>9, <3>2 DEF Sync, SyncList, SyncFails, SyncStore, SkipThread, ReadThread, SyncEnds
      <3> QED BY <3>1, <3>2
    <2>3. ASSUME NEW h \in Handlers, Goto(h, "idle", "arrived") PROVE RequestInv'
      BY ONLY <2>1, <2>3, TypeOK, RequestInv
         DEF Goto, TypeOK, RequestInv, AskedOnce, OthersClaimNothing
    <2>4. CASE UNCHANGED at
      BY <2>1, <2>4
    <2> QED BY <2>2, <2>3, <2>4
  <1>10. ASSUME Boot PROVE RequestInv'
    BY <1>10 DEF Boot
  <1>11. ASSUME Crash PROVE RequestInv'
    BY <1>11 DEF Crash
  <1>12. ASSUME UNCHANGED vars \/ Switch PROVE RequestInv'
    BY <1>12 DEF vars, Switch
  <1> QED BY ONLY [Next]_vars, <1>1, <1>2, <1>3, <1>4, <1>5, <1>6, <1>7, <1>8, <1>9, <1>10, <1>11,
           <1>12 DEF Next, Handle

LEMMA RequestInductive == Spec => []RequestInv
  <1>1. Init => RequestInv
    BY DEF Init, RequestInv, AskedOnce, OthersClaimNothing
  <1> QED BY <1>1, RequestStep, FlowTypeCorrect, PTL DEF Spec

(* The natures that the investigation of an alert is about are settled once:     *)
(* whoever saves it holds the request, and nobody else can.                     *)
THEOREM InvestigationIsFinal == Spec => OneInvestigationPerAlert
  <1>1. ASSUME TypeOK, RequestInv, [Next]_vars
        PROVE  [\A a \in Alerts : asked[a] = "saved" =>
                   asked'[a] = "saved" /\ covered'[a] = covered[a]]_vars
    <2> SUFFICES ASSUME NEW a \in Alerts, asked[a] = "saved"
                 PROVE  asked'[a] = "saved" /\ covered'[a] = covered[a]
      OBVIOUS
    <2> USE TypeOK, HandlerFacts DEF TypeOK, slack, rows, handling, sync, past, fates, counts
    <2>1. ASSUME NEW h \in Handlers, Request(h) PROVE UNCHANGED covered /\ asked'[a] = "saved"
      BY <2>1 DEF Request
    <2>2. ASSUME NEW h \in Handlers, SaveRun(h) PROVE asked'[a] = "saved" /\ covered'[a] = covered[a]
      <3>1. Alert(h) # a
        BY <2>2, RequestInv DEF SaveRun, Goto, RequestInv, AskedOnce
      <3> QED BY <2>2, <3>1 DEF SaveRun
    <2>3. ASSUME NEW h \in Handlers, AuthRaises(h) \/ Claim(h) \/ Close(h) PROVE UNCHANGED <<asked, covered>>
      BY <2>3 DEF AuthRaises, Claim, Close
    <2>4. ASSUME NEW m \in Messages, Deliver(m) PROVE UNCHANGED <<asked, covered>>
      BY <2>4 DEF Deliver
    <2>5. ASSUME NEW b \in Alerts, NEW N \in Reports, PostAlert(b, N) PROVE UNCHANGED <<asked, covered>>
      BY <2>5 DEF PostAlert
    <2>6. ASSUME NEW c \in Components, PostReply(c) PROVE UNCHANGED <<asked, covered>>
      BY <2>6 DEF PostReply
    <2>7. ASSUME Sync \/ Boot \/ Crash PROVE UNCHANGED <<asked, covered>>
      BY <2>7 DEF Sync, SyncList, SyncFails, SyncStore, Dispatch, SkipThread, ReadThread, SyncEnds,
         Boot, Crash
    <2>8. ASSUME UNCHANGED vars \/ Switch PROVE UNCHANGED <<asked, covered>>
      BY <2>8 DEF vars, Switch
    <2> QED BY ONLY [Next]_vars, asked[a] = "saved", <2>1, <2>2, <2>3, <2>4, <2>5, <2>6, <2>7, <2>8
               DEF Next, Handle
  <1> QED BY FlowTypeCorrect, RequestInductive, <1>1, PTL DEF Spec, OneInvestigationPerAlert
------------------------------------------------------------------------------
(* Every opening of a nature is at exactly one place: investigated, in a run of  *)
(* handle that will launch it, cut, or merged.                                  *)
LaunchInv ==
    \A n \in Natures :
        openings[n] = launches[n] + Cardinality(Launching(n)) + cut[n] + merged[n]

(* A claim makes an opening, and what ends the run of handle moves it on.       *)
LEMMA LaunchStep == TypeOK /\ RequestInv /\ LaunchInv /\ [Next]_vars => LaunchInv'
  <1> SUFFICES ASSUME TypeOK, RequestInv, LaunchInv, [Next]_vars, NEW n \in Natures
               PROVE  openings'[n] = launches'[n] + Cardinality(Launching(n)') + cut'[n] + merged'[n]
    BY DEF LaunchInv
  <1> DEFINE Goal == openings'[n] = launches'[n] + Cardinality(Launching(n)') + cut'[n] + merged'[n]
             K == Cardinality(Launching(n))
             K1 == Cardinality(Launching(n)')
  <1>a. IsFiniteSet(Launching(n)) /\ K \in Nat
    BY LaunchingFinite
  <1>b. /\ launches[n] \in Nat /\ openings[n] \in Nat /\ cut[n] \in Nat /\ merged[n] \in Nat
        /\ openings[n] = launches[n] + K + cut[n] + merged[n]
    BY DEF TypeOK, LaunchInv
  <1> USE HandlerFacts DEF slack, rows, handling, sync, past, fates, counts
  <1>1. ASSUME UNCHANGED <<claims, launches, openings, cut, merged>> PROVE Goal
    BY <1>1, <1>b DEF Launching
  <1>2. ASSUME NEW h \in Handlers, Claim(h) PROVE Goal
    <2>1. h \notin Launching(n)
      BY <1>2, RequestInv DEF Claim, Goto, RequestInv, OthersClaimNothing, Launching
    <2>a. UNCHANGED <<launches, cut, merged>>
      BY <1>2 DEF Claim
    <2>2. CASE n \in claims'[h]
      <3>1. Launching(n)' = Launching(n) \cup {h}
        BY <1>2, <2>2, TypeOK DEF Claim, Launching, TypeOK
      <3>2. openings'[n] = openings[n] + 1
        BY <1>2, <2>2, TypeOK DEF Claim, TypeOK
      <3>3. K1 = K + 1
        BY ONLY <3>1, <2>1, <1>a, FS_AddElement
      <3> QED BY ONLY <2>a, <3>2, <3>3, <1>a, <1>b
    <2>3. CASE n \notin claims'[h]
      <3>1. Launching(n)' = Launching(n)
        BY <1>2, <2>1, <2>3, TypeOK DEF Claim, Launching, TypeOK
      <3>2. openings'[n] = openings[n]
        BY <1>2, <2>3, TypeOK DEF Claim, TypeOK
      <3> QED BY ONLY <2>a, <3>1, <3>2, <1>b
    <2> QED BY <2>2, <2>3
  <1>3. ASSUME NEW h \in Handlers, Request(h) PROVE Goal
    <2>1. CASE asked[Alert(h)] = "none"
      <3>1. UNCHANGED <<claims, launches, openings, cut, merged>>
        BY <1>3, <2>1 DEF Request
      <3> QED BY <3>1, <1>1
    <2>2. CASE asked[Alert(h)] # "none"
      <3>1. claims' = [claims EXCEPT ![h] = {}] /\ UNCHANGED <<launches, openings, cut>>
        BY <1>3, <2>2 DEF Request
      <3>2. merged' = [m \in Natures |-> IF m \in claims[h] THEN merged[m] + 1 ELSE merged[m]]
        BY ONLY <1>3, <2>2 DEF Request
      <3>3. Launching(n)' = Launching(n) \ {h}
        BY <3>1, TypeOK DEF Launching, TypeOK
      <3>4. merged'[n] = IF h \in Launching(n) THEN merged[n] + 1 ELSE merged[n]
        BY ONLY <3>2, n \in Natures, h \in Handlers DEF Launching
      <3>5. K1 = IF h \in Launching(n) THEN K - 1 ELSE K
        BY ONLY <3>3, <1>a, FS_RemoveElement
      <3> QED BY ONLY <3>1, <3>4, <3>5, <1>a, <1>b
    <2> QED BY <2>1, <2>2
  <1>4. ASSUME NEW h \in Handlers, SaveRun(h) PROVE Goal
    <2>1. Launching(n)' = Launching(n) \ {h}
      BY <1>4, TypeOK DEF SaveRun, Launching, TypeOK
    <2>2. UNCHANGED <<openings, cut, merged>>
          /\ launches'[n] = IF h \in Launching(n) THEN launches[n] + 1 ELSE launches[n]
      BY <1>4, TypeOK DEF SaveRun, Launching, TypeOK
    <2>3. K1 = IF h \in Launching(n) THEN K - 1 ELSE K
      BY ONLY <2>1, <1>a, FS_RemoveElement
    <2> QED BY ONLY <2>2, <2>3, <1>a, <1>b
  <1>5. ASSUME Crash PROVE Goal
    <2>1. Launching(n)' = {}
      BY <1>5 DEF Crash, Launching
    <2>2. UNCHANGED <<launches, openings, merged>> /\ cut'[n] = cut[n] + K
      BY <1>5 DEF Crash
    <2>3. K1 = 0
      BY ONLY <2>1, FS_EmptySet
    <2> QED BY ONLY <2>2, <2>3, <1>a, <1>b
  <1>6. ASSUME NEW h \in Handlers, AuthRaises(h) \/ Close(h)
        PROVE  UNCHANGED <<claims, launches, openings, cut, merged>>
    BY <1>6 DEF AuthRaises, Close
  <1>7. ASSUME NEW m \in Messages, Deliver(m)
        PROVE  UNCHANGED <<claims, launches, openings, cut, merged>>
    BY <1>7 DEF Deliver
  <1>8. ASSUME NEW a \in Alerts, NEW N \in Reports, PostAlert(a, N)
        PROVE  UNCHANGED <<claims, launches, openings, cut, merged>>
    BY <1>8 DEF PostAlert
  <1>9. ASSUME NEW c \in Components, PostReply(c)
        PROVE  UNCHANGED <<claims, launches, openings, cut, merged>>
    BY <1>9 DEF PostReply
  <1>10. ASSUME Sync \/ Boot \/ Switch PROVE UNCHANGED <<claims, launches, openings, cut, merged>>
    BY <1>10 DEF Sync, SyncList, SyncFails, SyncStore, Dispatch, SkipThread, ReadThread, SyncEnds, Boot,
       Switch
  <1>11. CASE UNCHANGED vars
    BY <1>11, <1>1 DEF vars
  <1> QED BY ONLY [Next]_vars, <1>1, <1>2, <1>3, <1>4, <1>5, <1>6, <1>7, <1>8, <1>9, <1>10, <1>11
             DEF Next, Handle

LEMMA LaunchInductive == Spec => []LaunchInv
  <1>1. Init => LaunchInv
    <2> SUFFICES ASSUME Init, NEW n \in Natures
                 PROVE  openings[n] = launches[n] + Cardinality(Launching(n)) + cut[n] + merged[n]
      BY DEF LaunchInv
    <2>1. Cardinality(Launching(n)) = 0
      <3>1. Launching(n) = {}
        BY DEF Init, Launching
      <3> QED BY <3>1, FS_EmptySet
    <2>2. launches[n] = 0 /\ openings[n] = 0 /\ cut[n] = 0 /\ merged[n] = 0
      BY DEF Init
    <2> QED BY ONLY <2>1, <2>2
  <1> QED BY <1>1, LaunchStep, RequestInductive, FlowTypeCorrect, PTL DEF Spec

(* However often an alert is brought, by events or by history, in this life or   *)
(* the next, an incident that opens once is investigated at most once.          *)
THEOREM LaunchesHaveOpenings == Spec => []OneLaunchPerOpening
  <1>1. TypeOK /\ LaunchInv => OneLaunchPerOpening
    <2> SUFFICES ASSUME TypeOK, LaunchInv, NEW n \in Natures PROVE launches[n] <= openings[n]
      BY DEF OneLaunchPerOpening
    <2>1. Cardinality(Launching(n)) \in Nat
      BY LaunchingFinite
    <2>2. launches[n] \in Nat /\ cut[n] \in Nat /\ merged[n] \in Nat
      BY DEF TypeOK
    <2>3. openings[n] = launches[n] + Cardinality(Launching(n)) + cut[n] + merged[n]
      BY DEF LaunchInv
    <2> QED BY ONLY <2>1, <2>2, <2>3
  <1> QED BY <1>1, LaunchInductive, FlowTypeCorrect, PTL

(* Every opening of an incident has an investigation that is about it, or the    *)
(* run of handle that will launch it, whatever else its alert names and in any   *)
(* number of lives; the process was lost with the others before their run was    *)
(* saved, or the alert was handled twice (README.md:115).                       *)
THEOREM OpeningsInvestigated == Spec => []EveryOpeningIsInvestigated
  <1>1. TypeOK /\ LaunchInv => EveryOpeningIsInvestigated
    <2> SUFFICES ASSUME TypeOK, LaunchInv, NEW n \in Natures
                 PROVE  openings[n] <= launches[n] + Cardinality(Launching(n)) + cut[n] + merged[n]
      BY DEF EveryOpeningIsInvestigated
    <2>1. openings[n] = launches[n] + Cardinality(Launching(n)) + cut[n] + merged[n] /\ openings[n] \in Nat
      BY DEF LaunchInv, TypeOK
    <2> QED BY ONLY <2>1
  <1> QED BY <1>1, LaunchInductive, FlowTypeCorrect, PTL
==============================================================================
