------------------------- MODULE AlertReactionsProofs -------------------------
(* What the alert responders promise for any number of alerts, redeliveries,    *)
(* losses of the process and errors.  AlertShape has the types and the stages   *)
(* each kind of responder knows; LaunchInv says what a handler carries,         *)
(* AnswerInv where an answer is remembered, RebuildInv where a rebuild is.      *)
EXTENDS AlertReactions, TLAPS

Stages == {"none", "settle", "check", "work", "record", "post", "more", "fallback",
           "patch", "mark", "write", "claim", "submit"}

AlertShape ==
    /\ kind \in Kinds
    /\ posted \in Nat
    /\ came \in [Messages -> 0 .. 2]
    /\ handler \in [Deliveries -> Stages]
    /\ batch \in [Deliveries -> SUBSET (Keys \cup Messages)]
    /\ inFlight \subseteq Messages
    /\ replies \in [Messages -> Nat] /\ rebuilds \in [Messages -> Nat]
    /\ cooldown \subseteq Keys
    /\ requests \subseteq Messages
    /\ launches \in [Keys -> Nat]
    /\ handled \subseteq Messages /\ built \in {0} \cup Messages
    /\ lost \subseteq Messages
    /\ \A d \in Deliveries :
          /\ handler[d] \in {"mark", "write"} => kind = "airflow"
          /\ handler[d] \in {"settle", "record"} => kind = "dashboard"
          /\ handler[d] = "check" => kind # "dashboard"
          /\ handler[d] \in {"more", "fallback", "patch", "claim"} => kind = "anomaly"
          /\ handler[d] = "submit" => kind \in {"anomaly", "payment"}
          /\ handler[d] \in {"work", "post"} => kind # "payment"
          /\ handler[d] = "write" => batch[d] \subseteq Messages
          /\ handler[d] # "none" => d[2] <= came[d[1]]

LEMMA DeliveryFacts ==
    /\ \A d \in Deliveries : d[1] \in Messages /\ d[2] \in {1, 2} /\ d = <<d[1], d[2]>>
    /\ \A m \in Messages, n \in {1, 2} :
          <<m, n>> \in Deliveries /\ <<m, n>>[1] = m /\ <<m, n>>[2] = n
  BY DEF Deliveries

(* A record that is not written, or a file that is lost.                        *)
LEMMA ForgetsFacts ==
    ASSUME AlertShape, NEW S \in SUBSET Messages, Forgets(S)
    PROVE  /\ handled' \subseteq Messages /\ built' \in {0} \cup Messages /\ lost' \subseteq Messages
           /\ lost \subseteq lost' /\ S \subseteq lost'
           /\ \A m \in Messages : m \in handled => m \in handled' \/ m \in lost'
           /\ \A m \in Messages : built = m => built' = m \/ m \in lost'
  BY DEF AlertShape, Forgets

LEMMA UnrecordedFacts ==
    ASSUME AlertShape, NEW d \in Deliveries, Unrecorded(d)
    PROVE  /\ handled' \subseteq Messages /\ built' \in {0} \cup Messages /\ lost' \subseteq Messages
           /\ lost \subseteq lost' /\ d[1] \in lost'
           /\ \A m \in Messages : m \in handled => m \in handled' \/ m \in lost'
           /\ \A m \in Messages : built = m => built' = m \/ m \in lost'
           /\ handler[d] \in {"record", "write"}
           /\ Ends(d) /\ batch' = [batch EXCEPT ![d] = {}]
           /\ UNCHANGED <<kind, posted, came, replies, rebuilds, cooldown, requests, launches>>
  <1>1. {d[1]} \in SUBSET Messages
    BY DeliveryFacts
  <1>2. Forgets({d[1]})
    BY DEF Unrecorded
  <1> QED BY <1>1, <1>2, ForgetsFacts DEF Unrecorded

LEMMA CrashFacts ==
    ASSUME AlertShape, AlertCrash
    PROVE  /\ handled' \subseteq Messages /\ built' \in {0} \cup Messages /\ lost' \subseteq Messages
           /\ lost \subseteq lost'
           /\ \A d \in Deliveries : handler[d] \in {"record", "mark", "write"} => d[1] \in lost'
           /\ \A m \in Messages : m \in handled => m \in handled' \/ m \in lost'
           /\ \A m \in Messages : built = m => built' = m \/ m \in lost'
  <1> DEFINE At(stages) == {d[1] : d \in {e \in Deliveries : handler[e] \in stages}}
  <1>1. At({"record", "mark", "write"}) \in SUBSET Messages /\ At({"mark"}) \in SUBSET Messages
    BY DeliveryFacts
  <1>2. \A d \in Deliveries : handler[d] \in {"record", "mark", "write"} =>
           d[1] \in At({"record", "mark", "write"})
    OBVIOUS
  <1>3. CASE At({"record", "write"}) # {}
    <2>1. Forgets(At({"record", "mark", "write"}))
      BY <1>3 DEF AlertCrash
    <2> HIDE DEF At
    <2> QED BY <1>1, <1>2, <2>1, ForgetsFacts
  <1>4. CASE At({"record", "write"}) = {}
    <2>1. lost' = lost \cup At({"mark"}) /\ UNCHANGED <<handled, built>>
      BY <1>4 DEF AlertCrash
    <2>2. \A d \in Deliveries : handler[d] \in {"record", "mark", "write"} => d[1] \in At({"mark"})
      BY <1>4
    <2> HIDE DEF At
    <2> QED BY <1>1, <2>1, <2>2 DEF AlertShape
  <1> QED BY <1>3, <1>4

(* What a reply does.                                                          *)
LEMMA ReplyFacts ==
    ASSUME AlertShape, NEW d \in Deliveries, Reply(d)
    PROVE  /\ handler[d] \in {"post", "more", "fallback", "patch"} /\ kind # "payment"
           /\ \E stage \in Stages : handler' = [handler EXCEPT ![d] = stage]
           /\ handler'[d] \in {"more", "fallback", "patch", "claim"} => kind = "anomaly"
           /\ handler'[d] \in {"none", "more", "fallback", "patch", "claim", "mark"}
           /\ handler'[d] = "mark" => kind = "airflow"
           /\ inFlight' = inFlight \/ (handler'[d] = "none" /\ inFlight' = inFlight \ {d[1]})
           /\ \E n \in {0, 1} : replies' = [replies EXCEPT ![d[1]] = @ + n]
           /\ handler[d] = "more" => replies' = replies
           /\ handler'[d] = "fallback" => replies' = replies /\ handler[d] = "post"
           /\ handler[d] = "patch" => replies' = replies \/ d[1] \in lost'
           /\ kind = "airflow" => handler'[d] = "mark" \/ d[1] \in lost'
           /\ lost' = lost \/ lost' = lost \cup {d[1]}
           /\ UNCHANGED <<kind, posted, came, batch, rebuilds, cooldown, requests, launches,
                          handled, built>>
  <1> USE DeliveryFacts DEF AlertShape, Goes, Ends
  <1>1. CASE TablePart(d)
    <2> DEFINE n == IF handler[d] = "post" THEN 1 ELSE 0
    <2>1. n \in {0, 1} /\ replies' = [replies EXCEPT ![d[1]] = @ + n]
      BY <1>1 DEF TablePart
    <2>2. handler[d] = "more" => replies' = replies
      <3>1. ASSUME handler[d] = "more" PROVE n = 0
        BY <3>1
      <3>2. d[1] \in Messages /\ replies[d[1]] + 0 = replies[d[1]]
        OBVIOUS
      <3> HIDE DEF n
      <3> QED BY <2>1, <3>1, <3>2
    <2>3. PICK stage \in {"more", "claim"} : handler' = [handler EXCEPT ![d] = stage]
      BY <1>1 DEF TablePart
    <2>4. handler'[d] = stage /\ stage \in Stages
      BY <2>3 DEF Stages
    <2>5. handler[d] \in {"post", "more"} /\ kind = "anomaly" /\ UNCHANGED <<inFlight, lost>>
      BY <1>1 DEF TablePart
    <2>6. UNCHANGED <<kind, posted, came, batch, rebuilds, cooldown, requests, launches,
                      handled, built>>
      BY <1>1 DEF TablePart
    <2> HIDE DEF n, AlertShape
    <2> QED BY ONLY <2>1, <2>2, <2>3, <2>4, <2>5, <2>6, d \in Deliveries
  <1>2. CASE PartRejected(d)
    <2> DEFINE stage == IF handler[d] = "post" THEN "fallback" ELSE "patch"
    <2>1. /\ handler[d] \in {"post", "more"} /\ kind = "anomaly"
          /\ handler' = [handler EXCEPT ![d] = stage]
          /\ UNCHANGED <<inFlight, lost, replies>>
          /\ UNCHANGED <<kind, posted, came, batch, rebuilds, cooldown, requests, launches,
                         handled, built>>
      BY <1>2 DEF PartRejected
    <2>2. stage \in Stages /\ stage \in {"fallback", "patch"} /\ (stage = "fallback" => handler[d] = "post")
      BY DEF Stages
    <2>3. handler'[d] = stage
      BY <2>1
    <2>4. replies' = [replies EXCEPT ![d[1]] = @ + 0]
      BY <2>1
    <2> HIDE DEF stage, AlertShape
    <2> QED BY ONLY <2>1, <2>2, <2>3, <2>4, d \in Deliveries
  <1>3. CASE Fallback(d)
    BY <1>3 DEF Fallback, Stages
  <1>4. CASE Rejected(d)
    BY <1>4 DEF Rejected, Stages
  <1>5. CASE Answered(d)
    BY <1>5 DEF Answered, Stages, Kinds
  <1>6. CASE Unanswered(d)
    <2>1. PICK n \in {0, 1} : /\ replies' = [replies EXCEPT ![d[1]] = @ + n]
                              /\ handler[d] = "more" => n = 0
      BY <1>6 DEF Unanswered
    <2>2. handler[d] = "more" => replies' = replies
      BY <2>1
    <2>3. /\ handler[d] \in {"post", "more", "fallback", "patch"}
          /\ handler' = [handler EXCEPT ![d] = "none"] /\ handler'[d] = "none"
          /\ inFlight' = inFlight \ {d[1]}
      BY <1>6 DEF Unanswered
    <2>4. /\ lost' = lost \/ lost' = lost \cup {d[1]}
          /\ kind = "airflow" \/ handler[d] = "patch" => d[1] \in lost'
          /\ UNCHANGED <<kind, posted, came, batch, rebuilds, cooldown, requests, launches,
                         handled, built>>
      BY <1>6 DEF Unanswered
    <2>5. kind # "payment" /\ "none" \in Stages
      BY <2>3 DEF Stages
    <2> HIDE DEF AlertShape
    <2> QED BY ONLY <2>1, <2>2, <2>3, <2>4, <2>5
  <1> QED BY <1>1, <1>2, <1>3, <1>4, <1>5, <1>6 DEF Reply

(* An error ends the handler and leaves the rest as it was.                     *)
LEMMA FaultyShape == ASSUME NEW d \in Deliveries, AlertShape, Faulty(d) PROVE AlertShape'
  <1> USE DeliveryFacts DEF AlertShape, Stages, Kinds, Faulty, Ends
  <1>1. handler' \in [Deliveries -> Stages] /\ inFlight' \subseteq Messages
    OBVIOUS
  <1>2. batch' \in [Deliveries -> SUBSET (Keys \cup Messages)]
    OBVIOUS
  <1>3. \A e \in Deliveries : handler'[e] = handler[e] \/ handler'[e] = "none"
    OBVIOUS
  <1> QED BY <1>1, <1>2, <1>3

(* Every step keeps the shape of the state.                                     *)
LEMMA AlertShapeStep == AlertShape /\ [NextAlerts]_alertVars => AlertShape'
  <1> SUFFICES ASSUME AlertShape, [NextAlerts]_alertVars PROVE AlertShape'
    OBVIOUS
  <1> USE DeliveryFacts DEF AlertShape, Stages, Kinds, Goes, Ends
  <1>1. ASSUME NEW d \in Deliveries, Settle(d) PROVE AlertShape'
    BY <1>1, FaultyShape DEF Settle
  <1>2. ASSUME NEW d \in Deliveries, Check(d) PROVE AlertShape'
    <2>1. CASE Faulty(d)
      BY <2>1, FaultyShape
    <2>2. CASE ~Faulty(d)
      <3>1. /\ handler[d] = "check"
            /\ \/ Ends(d)
               \/ Goes(d, "submit") /\ kind = "payment"
               \/ Goes(d, "work") /\ kind # "payment"
        BY <1>2, <2>2 DEF Check, NoBatch, Overlooked
      <3>2. UNCHANGED <<kind, posted, came, batch, replies, rebuilds, cooldown, requests, launches,
                        handled, built>>
        BY <1>2, <2>2 DEF Check
      <3>3. lost' \subseteq Messages
        BY <1>2, <2>2 DEF Check, Overlooked
      <3>4. PICK stage \in {"none", "submit", "work"} :
               /\ handler' = [handler EXCEPT ![d] = stage] /\ inFlight' \subseteq Messages
               /\ stage = "submit" => kind = "payment"
               /\ stage = "work" => kind # "payment"
        BY <3>1
      <3>5. /\ handler' \in [Deliveries -> Stages] /\ handler'[d] = stage
            /\ \A e \in Deliveries : e # d => handler'[e] = handler[e]
        BY <3>4
      <3>6. d[2] <= came[d[1]]
        BY <3>1
      <3> QED BY <3>2, <3>3, <3>4, <3>5, <3>6
    <2> QED BY <2>1, <2>2
  <1>3. ASSUME NEW d \in Deliveries, Work(d) PROVE AlertShape'
    <2>1. CASE Faulty(d)
      BY <2>1, FaultyShape
    <2>2. CASE ~Faulty(d)
      <3>1. PICK stage \in {"post", "mark", "record"} :
               /\ handler' = [handler EXCEPT ![d] = stage] /\ inFlight' = inFlight
               /\ stage = "post" => kind \in {"anomaly", "airflow"}
               /\ stage = "mark" => kind = "airflow"
               /\ stage = "record" => kind = "dashboard"
        BY <1>3, <2>2 DEF Work, Judged, Resolved, Rebuilt
      <3>2. UNCHANGED <<kind, posted, came, batch, replies, cooldown, requests, launches,
                        handled, built, lost>>
        BY <1>3, <2>2 DEF Work
      <3>3. rebuilds' \in [Messages -> Nat]
        <4>1. rebuilds' = rebuilds \/ rebuilds' = [rebuilds EXCEPT ![d[1]] = @ + 1]
          BY <1>3, <2>2 DEF Work, Rebuilt
        <4>2. rebuilds \in [Messages -> Nat]
          OBVIOUS
        <4> QED BY ONLY <4>1, <4>2
      <3>4. /\ handler' \in [Deliveries -> Stages] /\ handler'[d] = stage
            /\ \A e \in Deliveries : e # d => handler'[e] = handler[e]
        BY <3>1
      <3>5. d[2] <= came[d[1]]
        BY <1>3 DEF Work
      <3> QED BY <3>1, <3>2, <3>3, <3>4, <3>5
    <2> QED BY <2>1, <2>2
  <1>4. ASSUME NEW d \in Deliveries, Record(d) PROVE AlertShape'
    <2>1. built' \in Messages /\ d[1] \in Nat
      BY <1>4, AlertAssumption DEF Record, Messages
    <2>2. lost' \subseteq Messages
      <3>1. ASSUME d[1] < built PROVE built \in Messages
        BY <2>1, <3>1 DEF Messages
      <3> QED BY <1>4, <3>1 DEF Record
    <2> QED BY <1>4, <2>1, <2>2 DEF Record
  <1>5. ASSUME NEW d \in Deliveries, Reply(d) PROVE AlertShape'
    <2>1. PICK stage \in Stages : handler' = [handler EXCEPT ![d] = stage]
      BY <1>5, ReplyFacts
    <2>2. PICK n \in {0, 1} : replies' = [replies EXCEPT ![d[1]] = @ + n]
      BY <1>5, ReplyFacts
    <2>3. /\ kind # "payment"
          /\ handler'[d] \in {"more", "fallback", "patch", "claim"} => kind = "anomaly"
          /\ handler'[d] \in {"none", "more", "fallback", "patch", "claim", "mark"}
          /\ handler'[d] = "mark" => kind = "airflow"
          /\ handler[d] # "none"
          /\ inFlight' \subseteq Messages /\ lost' \subseteq Messages
          /\ UNCHANGED <<kind, posted, came, batch, rebuilds, cooldown, requests, launches,
                         handled, built>>
      BY <1>5, ReplyFacts
    <2> QED BY <2>1, <2>2, <2>3
  <1>6. ASSUME NEW d \in Deliveries, MarkReads(d) PROVE AlertShape'
    <2>1. PICK read \in SUBSET Messages : batch' = [batch EXCEPT ![d] = read]
      <3>1. PICK read \in {handled} \cup (IF Torn(d) THEN {{}} ELSE {}) : batch' = [batch EXCEPT ![d] = read]
        BY <1>6 DEF MarkReads
      <3> QED BY <3>1
    <2>2. kind = "airflow"
      BY <1>6 DEF MarkReads
    <2> QED BY <1>6, <2>1, <2>2 DEF MarkReads
  <1>7. ASSUME NEW d \in Deliveries, MarkWrites(d) PROVE AlertShape'
    <2>1. handled' \subseteq Messages /\ lost' \subseteq Messages
      <3>1. kind = "airflow"
        BY <1>7 DEF MarkWrites
      <3> QED BY <1>7, <3>1 DEF MarkWrites
    <2> QED BY <1>7, <2>1 DEF MarkWrites
  <1>8. ASSUME NEW d \in Deliveries, ClaimKeys(d) PROVE AlertShape'
    <2>1. PICK fresh \in SUBSET Keys :
             /\ cooldown' = cooldown \cup fresh
             /\ batch' = [batch EXCEPT ![d] = fresh]
             /\ IF fresh = {} THEN Ends(d) ELSE Goes(d, "submit")
      BY <1>8 DEF ClaimKeys, Confirmed
    <2>2. kind = "anomaly"
      BY <1>8 DEF ClaimKeys
    <2>3. UNCHANGED <<kind, posted, came, replies, rebuilds, requests, launches, handled, built, lost>>
      BY <1>8 DEF ClaimKeys
    <2>4. batch' \in [Deliveries -> SUBSET (Keys \cup Messages)] /\ cooldown' \subseteq Keys
      BY <2>1
    <2>5. handler' \in [Deliveries -> Stages] /\ inFlight' \subseteq Messages
      BY <2>1
    <2>6. \A e \in Deliveries : e # d => handler'[e] = handler[e] /\ batch'[e] = batch[e]
      BY <2>1
    <2>7. handler'[d] \in {"none", "submit"} /\ d[2] <= came[d[1]]
      BY <1>8, <2>1 DEF ClaimKeys
    <2> QED BY <2>2, <2>3, <2>4, <2>5, <2>6, <2>7
  <1>9. ASSUME NEW d \in Deliveries, Submit(d) PROVE AlertShape'
    BY <1>9, FaultyShape, SMTT(30) DEF Submit
  <1>10. ASSUME NEW m \in Messages, Deliver(m) PROVE AlertShape'
    <2> DEFINE d == <<m, came[m] + 1>>
    <2>1. came[m] \in {0, 1} /\ came' = [came EXCEPT ![m] = came[m] + 1]
      BY <1>10 DEF Deliver, Comes
    <2>2. UNCHANGED <<kind, posted, batch, replies, rebuilds, cooldown, requests, launches,
                     handled, built, lost>>
      BY <1>10 DEF Deliver, Comes
    <2>3. d \in Deliveries /\ d[1] = m /\ d[2] = came[m] + 1
      <3>1. came[m] + 1 \in {1, 2}
        BY <2>1
      <3> QED BY ONLY <3>1, DeliveryFacts, m \in Messages
    <2>4. came' \in [Messages -> 0 .. 2] /\ \A n \in Messages : came[n] <= came'[n]
      <3>1. came \in [Messages -> 0 .. 2]
        OBVIOUS
      <3> QED BY ONLY <2>1, <3>1
    <2>5. CASE m \in inFlight
      <3>1. UNCHANGED <<handler, inFlight>>
        BY <1>10, <2>5 DEF Deliver
      <3> QED BY <2>2, <2>4, <3>1
    <2>6. CASE m \notin inFlight
      <3>1. handler' = [handler EXCEPT ![d] = First] /\ inFlight' = inFlight \cup {m}
        BY <1>10, <2>6 DEF Deliver
      <3>2. handler'[d] \in {"settle", "check"} /\ (handler'[d] = "settle" <=> kind = "dashboard")
        BY <2>3, <3>1 DEF First
      <3>3. \A e \in Deliveries : e # d => handler'[e] = handler[e]
        BY <3>1
      <3>4. handler' \in [Deliveries -> Stages] /\ inFlight' \subseteq Messages
        BY <2>3, <3>1, <3>2
      <3>5. came'[m] = came[m] + 1
        BY <2>1
      <3> HIDE DEF d
      <3>6. ASSUME NEW e \in Deliveries, handler'[e] # "none" PROVE e[2] <= came'[e[1]]
        <4>1. CASE e = d
          BY <2>3, <3>5, <4>1
        <4>2. CASE e # d
          <5>1. e[2] <= came[e[1]] /\ came[e[1]] <= came'[e[1]]
            BY <2>4, <3>3, <3>6, <4>2
          <5>2. e[2] \in Nat /\ came[e[1]] \in Nat /\ came'[e[1]] \in Nat
            BY <2>4
          <5> QED BY ONLY <5>1, <5>2
        <4> QED BY <4>1, <4>2
      <3>7. \A e \in Deliveries : e # d => handler'[e] = handler[e] /\ batch'[e] = batch[e]
        BY <2>2, <3>3
      <3> QED BY <2>2, <2>4, <3>2, <3>4, <3>6, <3>7
    <2> QED BY <2>5, <2>6
  <1>11. ASSUME NEW k \in Keys, Expire(k) PROVE AlertShape'
    BY <1>11 DEF Expire
  <1>12. CASE AlertCrash
    BY <1>12, CrashFacts DEF AlertCrash
  <1>13. CASE Post
    BY <1>13 DEF Post
  <1>14. CASE UNCHANGED alertVars
    BY <1>14 DEF alertVars
  <1>15. ASSUME NEW d \in Deliveries, Unrecorded(d) PROVE AlertShape'
    <2>1. /\ handled' \subseteq Messages /\ built' \in {0} \cup Messages /\ lost' \subseteq Messages
          /\ handler' = [handler EXCEPT ![d] = "none"] /\ inFlight' = inFlight \ {d[1]}
          /\ batch' = [batch EXCEPT ![d] = {}]
          /\ UNCHANGED <<kind, posted, came, replies, rebuilds, cooldown, requests, launches>>
      BY <1>15, UnrecordedFacts
    <2>2. handler' \in [Deliveries -> Stages] /\ handler'[d] = "none"
      BY <2>1
    <2>3. \A e \in Deliveries : e # d => handler'[e] = handler[e] /\ batch'[e] = batch[e]
      BY <2>1
    <2>4. batch' \in [Deliveries -> SUBSET (Keys \cup Messages)]
      BY <2>1
    <2> QED BY <2>1, <2>2, <2>3, <2>4
  <1> HIDE DEF AlertShape
  <1> QED
    BY ONLY [NextAlerts]_alertVars, <1>1, <1>2, <1>3, <1>4, <1>5, <1>6, <1>7, <1>8, <1>9,
       <1>10, <1>11, <1>12, <1>13, <1>14, <1>15 DEF NextAlerts

LEMMA AlertShapeInit == InitAlerts => AlertShape
  BY DEF InitAlerts, AlertShape, Stages
------------------------------------------------------------------------------
(* A key that some handler carries is claimed, carried by no other and not      *)
(* launched in its window; a key out of its window is not launched either.      *)
LaunchInv ==
    /\ \A k \in Keys : launches[k] <= 1 /\ (k \notin cooldown => launches[k] = 0)
    /\ kind # "airflow" =>
          /\ \A d \in Deliveries :
                /\ batch[d] \subseteq cooldown
                /\ \A k \in batch[d] : launches[k] = 0
                /\ batch[d] # {} => handler[d] = "submit"
          /\ \A d, e \in Deliveries : d # e => batch[d] \cap batch[e] = {}

(* An error drops what the handler carried.                                     *)
LEMMA FaultyLaunch == ASSUME NEW d \in Deliveries, AlertShape, LaunchInv, Faulty(d)
                      PROVE LaunchInv'
  <1> USE DeliveryFacts DEF AlertShape, LaunchInv, Faulty, Ends
  <1>1. \A e \in Deliveries : batch'[e] \subseteq batch[e] /\ (e # d => batch'[e] = batch[e])
    OBVIOUS
  <1>2. batch'[d] = {}
    OBVIOUS
  <1>3. \A e \in Deliveries : e # d => handler'[e] = handler[e]
    OBVIOUS
  <1> QED BY <1>1, <1>2, <1>3

(* A handler that carries nothing moves on, and no key is touched.               *)
LEMMA MoveLaunch == ASSUME NEW d \in Deliveries, AlertShape, LaunchInv,
                           handler[d] # "submit",
                           \A e \in Deliveries : e # d => handler'[e] = handler[e],
                           UNCHANGED <<kind, batch, cooldown, launches>>
                    PROVE LaunchInv'
  BY DeliveryFacts DEF AlertShape, LaunchInv

LEMMA LaunchStep == AlertShape /\ LaunchInv /\ [NextAlerts]_alertVars => LaunchInv'
  <1> SUFFICES ASSUME AlertShape, LaunchInv, [NextAlerts]_alertVars PROVE LaunchInv'
    OBVIOUS
  <1> USE DeliveryFacts DEF AlertShape, LaunchInv, Goes, Ends
  <1>1. ASSUME NEW d \in Deliveries, Settle(d) PROVE LaunchInv'
    BY <1>1, FaultyLaunch, MoveLaunch DEF Settle
  <1>2. ASSUME NEW d \in Deliveries, Check(d) PROVE LaunchInv'
    BY <1>2, FaultyLaunch, MoveLaunch DEF Check, NoBatch, Overlooked
  <1>3. ASSUME NEW d \in Deliveries, Work(d) PROVE LaunchInv'
    BY <1>3, FaultyLaunch, MoveLaunch DEF Work, Judged, Resolved, Rebuilt
  <1>4. ASSUME NEW d \in Deliveries, Record(d) PROVE LaunchInv'
    BY <1>4 DEF Record
  <1>5. ASSUME NEW d \in Deliveries, Reply(d) PROVE LaunchInv'
    <2>1. \A e \in Deliveries : e # d => handler'[e] = handler[e]
      BY <1>5, ReplyFacts
    <2>2. UNCHANGED <<kind, batch, cooldown, launches>> /\ handler[d] # "submit"
      BY <1>5, ReplyFacts
    <2> QED BY <2>1, <2>2, MoveLaunch
  <1>6. ASSUME NEW d \in Deliveries, MarkReads(d) PROVE LaunchInv'
    BY <1>6 DEF MarkReads
  <1>7. ASSUME NEW d \in Deliveries, MarkWrites(d) PROVE LaunchInv'
    BY <1>7 DEF MarkWrites
  <1>8. ASSUME NEW d \in Deliveries, ClaimKeys(d) PROVE LaunchInv'
    BY <1>8 DEF ClaimKeys, Confirmed
  <1>9. ASSUME NEW d \in Deliveries, Submit(d) PROVE LaunchInv'
    <2>1. CASE Faulty(d)
      BY <2>1, FaultyLaunch
    <2>2. CASE ~Faulty(d)
      <3>1. /\ handler[d] = "submit" /\ Ends(d)
            /\ batch' = [batch EXCEPT ![d] = {}]
            /\ launches' = [k \in Keys |-> IF k \in batch[d] /\ d[1] \notin requests
                                           THEN launches[k] + 1 ELSE launches[k]]
            /\ UNCHANGED <<kind, cooldown>>
        BY <1>9, <2>2 DEF Submit
      <3>2. kind # "airflow"
        BY <3>1
      <3>3. \A e \in Deliveries : e # d => batch'[e] = batch[e] /\ handler'[e] = handler[e]
        BY <3>1
      <3>4. batch'[d] = {}
        BY <3>1
      <3>5. ASSUME NEW k \in Keys
            PROVE launches'[k] <= 1 /\ (k \notin cooldown' => launches'[k] = 0)
        <4>1. CASE k \in batch[d]
          BY <3>1, <3>2, <4>1
        <4>2. CASE k \notin batch[d]
          BY <3>1, <4>2
        <4> QED BY <4>1, <4>2
      <3>6. ASSUME NEW e \in Deliveries, e # d, NEW k \in batch[e] PROVE launches'[k] = 0
        <4>1. k \in Keys /\ k \notin batch[d] /\ launches[k] = 0
          BY <3>2, <3>6
        <4> QED BY <3>1, <4>1
      <3> QED BY <3>1, <3>2, <3>3, <3>4, <3>5, <3>6
    <2> QED BY <2>1, <2>2
  <1>10. ASSUME NEW m \in Messages, Deliver(m) PROVE LaunchInv'
    <2>1. UNCHANGED <<kind, batch, cooldown, launches>>
      BY <1>10 DEF Deliver, Comes
    <2>2. CASE m \in inFlight
      BY <1>10, <2>1, <2>2 DEF Deliver
    <2>3. CASE m \notin inFlight
      <3> DEFINE d == <<m, came[m] + 1>>
      <3>1. came[m] \in {0, 1}
        BY <1>10 DEF Deliver, Comes
      <3>2. d \in Deliveries /\ d[1] = m /\ d[2] = came[m] + 1
        <4>1. came[m] + 1 \in {1, 2}
          BY <3>1
        <4> QED BY ONLY <4>1, DeliveryFacts, m \in Messages
      <3>3. \A e \in Deliveries : e # d => handler'[e] = handler[e]
        BY <1>10, <2>3 DEF Deliver
      <3>4. handler[d] # "submit"
        BY <3>1, <3>2
      <3> HIDE DEF d
      <3> QED BY <2>1, <3>2, <3>3, <3>4, MoveLaunch
    <2> QED BY <2>2, <2>3
  <1>11. ASSUME NEW k \in Keys, Expire(k) PROVE LaunchInv'
    BY <1>11 DEF Expire
  <1>12. CASE AlertCrash
    BY <1>12 DEF AlertCrash
  <1>13. CASE Post
    BY <1>13 DEF Post
  <1>14. CASE UNCHANGED alertVars
    BY <1>14 DEF alertVars
  <1>15. ASSUME NEW d \in Deliveries, Unrecorded(d) PROVE LaunchInv'
    <2>1. batch' = [batch EXCEPT ![d] = {}] /\ UNCHANGED <<kind, cooldown, launches>>
      BY <1>15, UnrecordedFacts
    <2>2. \A e \in Deliveries : e # d => handler'[e] = handler[e]
      BY <1>15, UnrecordedFacts
    <2>3. \A e \in Deliveries : batch'[e] \subseteq batch[e] /\ (e # d => batch'[e] = batch[e])
      BY <2>1
    <2>4. batch'[d] = {}
      BY <2>1
    <2> QED BY <2>1, <2>2, <2>3, <2>4
  <1> HIDE DEF LaunchInv
  <1> QED
    BY ONLY [NextAlerts]_alertVars, <1>1, <1>2, <1>3, <1>4, <1>5, <1>6, <1>7, <1>8, <1>9,
       <1>10, <1>11, <1>12, <1>13, <1>14, <1>15 DEF NextAlerts

(* One investigation is launched for a key in its window, whatever alerts share *)
(* the key, come twice or are cut off (README.md:168, store.py, the transaction *)
(* of claim_anomaly_analyses).                                                  *)
THEOREM KeysLaunchOnce == SpecAlerts => []OneLaunchPerKey
  <1>1. InitAlerts => LaunchInv
    BY DEF InitAlerts, LaunchInv
  <1>2. LaunchInv => OneLaunchPerKey
    BY DEF LaunchInv, OneLaunchPerKey
  <1> QED BY <1>1, <1>2, AlertShapeInit, AlertShapeStep, LaunchStep, PTL DEF SpecAlerts
------------------------------------------------------------------------------
(* An answer.  A message has one handler at a time, which has not answered it    *)
(* before it is about to; and what is answered is remembered, or about to be,    *)
(* where the responder looks before it works.  The file of the dashboard has the *)
(* run, or a later report is in the channel, and the run is not the last one.    *)
Flight ==
    \A d \in Deliveries : handler[d] # "none" =>
        /\ d[1] \in inFlight /\ d[1] <= posted
        /\ \A e \in Deliveries : e # d /\ e[1] = d[1] => handler[e] = "none"

Marking(m) == \E d \in Deliveries : d[1] = m /\ handler[d] \in {"mark", "write"}

Built(m) == posted > m \/ built = m

Remembered(m) ==
    /\ kind # "payment"
    /\ kind = "airflow" => m \in handled \/ Marking(m)
    /\ kind = "dashboard" => Built(m)

Unanswering == {"work", "record", "post", "fallback"}

AnswerInv ==
    /\ posted <= Alerts
    /\ Flight
    /\ \A m \in Messages : m \in lost \/ replies[m] = 0 \/ (replies[m] = 1 /\ Remembered(m))
    /\ \A d \in Deliveries :
          /\ handler[d] \in Unanswering => d[1] \in lost \/ replies[d[1]] = 0
          /\ handler[d] = "post" /\ kind = "dashboard" => d[1] \in lost \/ Built(d[1])

(* A handler moves on: what it does to its own message is to be shown, and what   *)
(* the file forgets is to be in lost.                                          *)
LEMMA StepAnswer ==
    ASSUME NEW d \in Deliveries, AlertShape, AlertShape', AnswerInv, handler[d] # "none",
           \A e \in Deliveries : e # d => handler'[e] = handler[e],
           inFlight' = inFlight \/ (handler'[d] = "none" /\ inFlight' = inFlight \ {d[1]}),
           UNCHANGED <<kind, posted>>,
           lost \subseteq lost',
           \A m \in Messages : m # d[1] => replies'[m] = replies[m],
           \A m \in Messages : built = m => built' = m \/ m \in lost' \/ posted > m,
           \A m \in Messages : m \in handled => m \in handled' \/ m \in lost',
           d[1] \in lost' \/ replies'[d[1]] = 0 \/ (replies'[d[1]] = 1 /\ Remembered(d[1])'),
           handler'[d] \in Unanswering => d[1] \in lost' \/ replies'[d[1]] = 0,
           handler'[d] = "post" /\ kind = "dashboard" => d[1] \in lost' \/ Built(d[1])'
    PROVE  AnswerInv'
  <1>1. Flight'
    <2>1. ASSUME NEW e \in Deliveries, handler'[e] # "none"
          PROVE  handler[e] # "none" /\ e[1] \in inFlight' /\ e[1] <= posted'
      <3>1. CASE e = d
        BY <2>1, <3>1 DEF AnswerInv, Flight
      <3>2. CASE e # d
        BY <2>1, <3>2 DEF AnswerInv, Flight
      <3> QED BY <3>1, <3>2
    <2>2. ASSUME NEW e \in Deliveries, handler'[e] # "none", NEW f \in Deliveries, f # e, f[1] = e[1]
          PROVE  handler'[f] = "none"
      <3>1. handler[e] # "none" /\ handler[f] = "none"
        BY <2>1, <2>2 DEF AnswerInv, Flight
      <3> QED BY <2>2, <3>1
    <2> QED BY <2>1, <2>2 DEF Flight
  <1>2. ASSUME NEW m \in Messages, Built(m) PROVE m \in lost' \/ Built(m)'
    BY <1>2 DEF Built
  <1>3. ASSUME NEW m \in Messages
        PROVE  m \in lost' \/ replies'[m] = 0 \/ (replies'[m] = 1 /\ Remembered(m)')
    <2>1. CASE m = d[1]
      BY <2>1
    <2>2. CASE m # d[1]
      <3>1. m \in lost \/ replies[m] = 0 \/ (replies[m] = 1 /\ Remembered(m))
        BY DEF AnswerInv
      <3>2. Marking(m) => Marking(m)'
        BY <2>2 DEF Marking
      <3>3. Remembered(m) => m \in lost' \/ Remembered(m)'
        BY <1>2, <3>2 DEF Remembered
      <3> QED BY <2>2, <3>1, <3>3
    <2> QED BY <2>1, <2>2
  <1>4. ASSUME NEW e \in Deliveries
        PROVE  /\ handler'[e] \in Unanswering => e[1] \in lost' \/ replies'[e[1]] = 0
               /\ handler'[e] = "post" /\ kind' = "dashboard" => e[1] \in lost' \/ Built(e[1])'
    <2>1. CASE e = d
      BY <2>1
    <2>2. CASE e # d
      <3>1. e[1] \in Messages /\ handler'[e] = handler[e]
        BY <2>2, DeliveryFacts
      <3>2. CASE handler[e] = "none"
        BY <3>1, <3>2 DEF Unanswering
      <3>3. CASE handler[e] # "none"
        <4>1. e[1] # d[1]
          BY <2>2, <3>3 DEF AnswerInv, Flight
        <4>2. replies'[e[1]] = replies[e[1]]
          BY <3>1, <4>1
        <4> QED BY <1>2, <3>1, <4>2 DEF AnswerInv
      <3> QED BY <3>2, <3>3
    <2> QED BY <2>1, <2>2
  <1>5. posted' <= Alerts
    BY DEF AnswerInv
  <1> QED BY <1>1, <1>3, <1>4, <1>5 DEF AnswerInv

(* A handler moves on and nothing is answered, recorded or forgotten.            *)
LEMMA MoveAnswer ==
    ASSUME NEW d \in Deliveries, NEW stage \in Stages, AlertShape, AlertShape', AnswerInv,
           handler[d] # "none",
           handler' = [handler EXCEPT ![d] = stage],
           inFlight' = inFlight \/ (stage = "none" /\ inFlight' = inFlight \ {d[1]}),
           handler[d] \in {"mark", "write"} => stage \in {"mark", "write"},
           stage \in Unanswering => d[1] \in lost' \/ replies[d[1]] = 0,
           stage = "post" => kind # "dashboard",
           lost \subseteq lost',
           UNCHANGED <<kind, posted, replies, handled, built>>
    PROVE  AnswerInv'
  <1>1. handler'[d] = stage /\ \A e \in Deliveries : e # d => handler'[e] = handler[e]
    BY DEF AlertShape
  <1>2. d[1] \in Messages
    BY DeliveryFacts
  <1>3. Marking(d[1]) => Marking(d[1])'
    BY <1>1 DEF Marking
  <1>4. Remembered(d[1]) => Remembered(d[1])'
    BY <1>3 DEF Remembered, Built
  <1>5. d[1] \in lost' \/ replies'[d[1]] = 0 \/ (replies'[d[1]] = 1 /\ Remembered(d[1])')
    BY <1>2, <1>4 DEF AnswerInv
  <1> QED BY <1>1, <1>2, <1>5, StepAnswer

LEMMA FaultyAnswer ==
    ASSUME NEW d \in Deliveries, AlertShape, AlertShape', AnswerInv, Faulty(d),
           handler[d] \notin {"none", "mark", "write"}
    PROVE  AnswerInv'
  <1>1. /\ handler' = [handler EXCEPT ![d] = "none"] /\ inFlight' = inFlight \ {d[1]}
        /\ UNCHANGED <<kind, posted, replies, handled, built, lost>>
    BY DEF Faulty, Ends
  <1>2. "none" \in Stages /\ "none" \notin Unanswering
    BY DEF Stages, Unanswering
  <1> QED BY <1>1, <1>2, MoveAnswer

(* The answer, or an attempt at it.                                             *)
LEMMA ReplyAnswer ==
    ASSUME NEW d \in Deliveries, AlertShape, AlertShape', AnswerInv, Reply(d)
    PROVE  AnswerInv'
  <1>1. /\ handler[d] \in {"post", "more", "fallback", "patch"} /\ kind # "payment"
        /\ handler'[d] \in {"none", "more", "fallback", "patch", "claim", "mark"}
        /\ inFlight' = inFlight \/ (handler'[d] = "none" /\ inFlight' = inFlight \ {d[1]})
        /\ handler[d] = "more" => replies' = replies
        /\ handler'[d] = "fallback" => replies' = replies /\ handler[d] = "post"
        /\ handler[d] = "patch" => replies' = replies \/ d[1] \in lost'
        /\ kind = "airflow" => handler'[d] = "mark" \/ d[1] \in lost'
        /\ lost' = lost \/ lost' = lost \cup {d[1]}
        /\ UNCHANGED <<kind, posted, handled, built>>
    BY ONLY Reply(d), AlertShape, d \in Deliveries, ReplyFacts
  <1>2. d[1] \in Messages
    BY DeliveryFacts
  <1>3. \A e \in Deliveries : e # d => handler'[e] = handler[e]
    <2>1. PICK stage \in Stages : handler' = [handler EXCEPT ![d] = stage]
      BY ReplyFacts
    <2> QED BY <2>1 DEF AlertShape
  <1>4. /\ \A m \in Messages : m # d[1] => replies'[m] = replies[m]
        /\ replies'[d[1]] \in {replies[d[1]], replies[d[1]] + 1}
    <2>1. PICK n \in {0, 1} : replies' = [replies EXCEPT ![d[1]] = @ + n]
      BY ReplyFacts
    <2>2. replies \in [Messages -> Nat]
      BY DEF AlertShape
    <2> QED BY ONLY <1>2, <2>1, <2>2
  <1>5. lost \subseteq lost'
    BY <1>1
  <1>6. ASSUME d[1] \notin lost', replies'[d[1]] # 0 PROVE replies'[d[1]] = 1 /\ Remembered(d[1])'
    <2>1. kind = "airflow" => Marking(d[1])'
      BY <1>1, <1>6 DEF Marking
    <2>2. CASE handler[d] \in {"post", "fallback"}
      <3>1. replies[d[1]] = 0
        BY <1>5, <1>6, <2>2 DEF AnswerInv, Unanswering
      <3>2. replies'[d[1]] = 1
        BY <1>4, <1>6, <3>1
      <3>3. kind = "dashboard" => handler[d] = "post"
        BY <2>2 DEF AlertShape
      <3>4. kind = "dashboard" => Built(d[1])
        BY <1>5, <1>6, <3>3 DEF AnswerInv
      <3> QED BY <1>1, <2>1, <3>2, <3>4 DEF Remembered, Built
    <2>3. CASE handler[d] \in {"more", "patch"}
      <3>1. replies' = replies /\ kind = "anomaly"
        BY <1>1, <1>6, <2>3 DEF AlertShape
      <3>2. replies[d[1]] = 1
        BY <1>2, <1>5, <1>6, <3>1 DEF AnswerInv
      <3> QED BY <1>1, <3>1, <3>2 DEF Remembered
    <2> QED BY <1>1, <2>2, <2>3
  <1>7. handler'[d] \in Unanswering => d[1] \in lost' \/ replies'[d[1]] = 0
    BY <1>1, <1>5 DEF AnswerInv, Unanswering
  <1>8. handler'[d] # "post"
    BY <1>1
  <1>9. handler[d] # "none"
    BY <1>1
  <1>10. UNCHANGED <<kind, posted, handled, built>>
    BY <1>1
  <1> QED BY <1>1, <1>3, <1>4, <1>5, <1>6, <1>7, <1>8, <1>9, <1>10, StepAnswer

LEMMA AnswerStep == AlertShape /\ AlertShape' /\ AnswerInv /\ [NextAlerts]_alertVars => AnswerInv'
  <1> SUFFICES ASSUME AlertShape, AlertShape', AnswerInv, [NextAlerts]_alertVars PROVE AnswerInv'
    OBVIOUS
  <1>h. handler \in [Deliveries -> Stages] /\ kind \in Kinds /\ inFlight \subseteq Messages
    BY DEF AlertShape
  \* A handler that goes to a stage, and one that ends.
  <1>g. ASSUME NEW d \in Deliveries, NEW stage \in Stages, Goes(d, stage), handler[d] # "none",
               handler[d] \in {"mark", "write"} => stage \in {"mark", "write"},
               stage \in Unanswering => d[1] \in lost' \/ replies[d[1]] = 0,
               stage = "post" => kind # "dashboard",
               lost \subseteq lost',
               UNCHANGED <<kind, posted, replies, handled, built>>
        PROVE  AnswerInv'
    BY <1>g, MoveAnswer DEF Goes
  <1>e. ASSUME NEW d \in Deliveries, Ends(d), handler[d] \notin {"none", "mark", "write"},
               UNCHANGED <<kind, posted, replies, handled, built, lost>>
        PROVE  AnswerInv'
    <2>1. "none" \in Stages /\ "none" \notin Unanswering
      BY DEF Stages, Unanswering
    <2> QED BY <1>e, <2>1, MoveAnswer DEF Ends
  <1>1. ASSUME NEW d \in Deliveries, Settle(d) PROVE AnswerInv'
    <2>1. handler[d] = "settle" /\ d[1] \in Messages
      BY <1>1, DeliveryFacts DEF Settle
    <2>2. CASE Faulty(d)
      BY <2>1, <2>2, FaultyAnswer
    <2>3. CASE ~Faulty(d)
      <3>1. UNCHANGED <<kind, posted, replies, handled, built, lost>>
        BY <1>1, <2>3 DEF Settle
      <3>2. CASE posted = d[1] /\ ~Done(d[1]) /\ Goes(d, "work")
        <4>1. kind = "dashboard"
          BY <2>1 DEF AlertShape
        <4>2. posted \in Nat
          BY DEF AlertShape
        <4>3. ~Built(d[1])
          BY <3>2, <4>1, <4>2 DEF Done, Built
        <4>4. d[1] \in lost \/ replies[d[1]] = 0
          BY <2>1, <4>1, <4>3 DEF AnswerInv, Remembered
        <4> QED BY <1>g, <2>1, <3>1, <3>2, <4>4 DEF Stages
      <3>3. CASE Ends(d)
        BY <1>e, <2>1, <3>1, <3>3
      <3> QED BY <1>1, <2>3, <3>2, <3>3 DEF Settle
    <2> QED BY <2>2, <2>3
  <1>2. ASSUME NEW d \in Deliveries, Check(d) PROVE AnswerInv'
    <2>1. handler[d] = "check" /\ d[1] \in Messages
      BY <1>2, DeliveryFacts DEF Check
    <2>2. CASE Faulty(d)
      BY <2>1, <2>2, FaultyAnswer
    <2>3. CASE ~Faulty(d)
      <3>1. /\ UNCHANGED <<kind, posted, replies, handled, built>> /\ kind # "dashboard"
            /\ \/ Ends(d) /\ UNCHANGED lost
               \/ ~Done(d[1]) /\ Goes(d, IF kind = "payment" THEN "submit" ELSE "work") /\ UNCHANGED lost
               \/ Overlooked(d)
        BY <1>2, <2>1, <2>3 DEF Check, NoBatch, AlertShape
      <3>2. CASE Ends(d) /\ UNCHANGED lost
        BY <1>e, <2>1, <3>1, <3>2
      <3>3. ASSUME kind = "airflow", d[1] \notin lost, replies[d[1]] # 0 PROVE d[1] \in handled
        <4>1. Remembered(d[1])
          BY <2>1, <3>3 DEF AnswerInv
        <4>2. ~Marking(d[1])
          BY <2>1 DEF AnswerInv, Flight, Marking
        <4> QED BY <3>3, <4>1, <4>2 DEF Remembered
      <3>4. CASE ~Done(d[1]) /\ Goes(d, IF kind = "payment" THEN "submit" ELSE "work") /\ UNCHANGED lost
        <4>1. CASE kind = "payment"
          BY <1>g, <2>1, <3>1, <3>4, <4>1 DEF Stages, Unanswering
        <4>2. CASE kind = "airflow"
          <5>1. d[1] \in lost \/ replies[d[1]] = 0
            BY <3>3, <3>4, <4>2 DEF Done
          <5> QED BY <1>g, <2>1, <3>1, <3>4, <4>2, <5>1 DEF Stages
        <4>3. CASE kind = "anomaly"
          <5>1. replies[d[1]] = 0
            BY <2>1, <3>4, <4>3 DEF Done, AlertShape
          <5> QED BY <1>g, <2>1, <3>1, <3>4, <4>3, <5>1 DEF Stages
        <4> QED BY <1>h, <3>1, <4>1, <4>2, <4>3 DEF Kinds
      <3>5. CASE Overlooked(d)
        <4>1. /\ kind = "airflow" /\ lost' = lost \cup ({d[1]} \cap handled) /\ Goes(d, "work")
          BY <3>5 DEF Overlooked
        <4>2. d[1] \in lost' \/ replies[d[1]] = 0
          BY <3>3, <4>1
        <4> QED BY <1>g, <2>1, <3>1, <4>1, <4>2 DEF Stages
      <3> QED BY <3>1, <3>2, <3>4, <3>5
    <2> QED BY <2>2, <2>3
  <1>3. ASSUME NEW d \in Deliveries, Work(d) PROVE AnswerInv'
    <2>1. handler[d] = "work"
      BY <1>3 DEF Work
    <2>2. CASE Faulty(d)
      BY <2>1, <2>2, FaultyAnswer
    <2>3. CASE ~Faulty(d)
      <3>1. /\ UNCHANGED <<kind, posted, replies, handled, built, lost>>
            /\ \/ kind \in {"anomaly", "airflow"} /\ Goes(d, "post")
               \/ kind = "airflow" /\ Goes(d, "mark")
               \/ kind = "dashboard" /\ Goes(d, "record")
        BY <1>3, <2>3 DEF Work, Judged, Resolved, Rebuilt
      <3>2. d[1] \in lost' \/ replies[d[1]] = 0
        BY <2>1, <3>1 DEF AnswerInv, Unanswering
      <3> QED BY <1>g, <2>1, <3>1, <3>2 DEF Stages
    <2> QED BY <2>2, <2>3
  <1>4. ASSUME NEW d \in Deliveries, Record(d) PROVE AnswerInv'
    <2>1. /\ handler[d] = "record" /\ handler' = [handler EXCEPT ![d] = "post"] /\ inFlight' = inFlight
          /\ built' = d[1] /\ lost' = (IF d[1] < built THEN lost \cup {built} ELSE lost)
          /\ UNCHANGED <<kind, posted, replies, handled>>
      BY <1>4 DEF Record, Goes
    <2>2. handler'[d] = "post" /\ \A e \in Deliveries : e # d => handler'[e] = handler[e]
      BY <1>h, <2>1
    <2>3. lost \subseteq lost' /\ d[1] \in Messages /\ handler[d] # "none"
      BY <2>1, DeliveryFacts
    <2>4. d[1] \in lost' \/ replies'[d[1]] = 0
      BY <2>1, <2>3 DEF AnswerInv, Unanswering
    <2>5. ASSUME NEW m \in Messages, built = m PROVE built' = m \/ m \in lost' \/ posted > m
      <3>1. d[1] \in Nat /\ m \in Nat /\ posted \in Nat /\ d[1] <= posted
        BY <2>3, AlertAssumption DEF AlertShape, AnswerInv, Flight, Messages
      <3>2. CASE d[1] < m
        BY <2>1, <2>5, <3>2
      <3>3. CASE m < d[1]
        BY ONLY <3>1, <3>3
      <3>4. CASE m = d[1]
        BY <2>1, <3>4
      <3> QED BY ONLY <3>1, <3>2, <3>3, <3>4
    <2>6. Built(d[1])'
      BY <2>1 DEF Built
    <2> QED BY <2>1, <2>2, <2>3, <2>4, <2>5, <2>6, StepAnswer
  <1>5. ASSUME NEW d \in Deliveries, Reply(d) PROVE AnswerInv'
    BY <1>5, ReplyAnswer
  <1>6. ASSUME NEW d \in Deliveries, MarkReads(d) PROVE AnswerInv'
    <2>1. /\ handler[d] = "mark" /\ Goes(d, "write")
          /\ UNCHANGED <<kind, posted, replies, handled, built, lost>>
      BY <1>6 DEF MarkReads
    <2> QED BY <1>g, <2>1 DEF Stages, Unanswering
  <1>7. ASSUME NEW d \in Deliveries, MarkWrites(d) PROVE AnswerInv'
    <2>1. /\ handler[d] = "write" /\ handler' = [handler EXCEPT ![d] = "none"] /\ inFlight' = inFlight \ {d[1]}
          /\ handled' = batch[d] \cup {d[1]} /\ lost' = lost \cup (handled \ handled')
          /\ UNCHANGED <<kind, posted, replies, built>>
      BY <1>7 DEF MarkWrites, Ends
    <2>2. kind = "airflow" /\ d[1] \in Messages
      BY <2>1, DeliveryFacts DEF AlertShape
    <2>3. handler'[d] = "none" /\ \A e \in Deliveries : e # d => handler'[e] = handler[e]
      BY <1>h, <2>1
    <2>4. /\ lost \subseteq lost' /\ d[1] \in handled' /\ handler[d] # "none"
          /\ \A m \in Messages : m \in handled => m \in handled' \/ m \in lost'
      BY <2>1
    <2>5. d[1] \in lost' \/ replies'[d[1]] = 0 \/ (replies'[d[1]] = 1 /\ Remembered(d[1])')
      BY <2>1, <2>2, <2>4 DEF AnswerInv, Remembered
    <2> QED BY <2>1, <2>3, <2>4, <2>5, StepAnswer DEF Unanswering
  <1>8. ASSUME NEW d \in Deliveries, ClaimKeys(d) PROVE AnswerInv'
    <2>1. /\ handler[d] = "claim" /\ (Ends(d) \/ Goes(d, "submit"))
          /\ UNCHANGED <<kind, posted, replies, handled, built, lost>>
      BY <1>8 DEF ClaimKeys
    <2>2. CASE Ends(d)
      BY <1>e, <2>1, <2>2
    <2>3. CASE Goes(d, "submit")
      BY <1>g, <2>1, <2>3 DEF Stages, Unanswering
    <2> QED BY <2>1, <2>2, <2>3
  <1>9. ASSUME NEW d \in Deliveries, Submit(d) PROVE AnswerInv'
    <2>1. handler[d] = "submit"
      BY <1>9 DEF Submit
    <2>2. CASE Faulty(d)
      BY <2>1, <2>2, FaultyAnswer
    <2>3. CASE ~Faulty(d)
      <3>1. Ends(d) /\ UNCHANGED <<kind, posted, replies, handled, built, lost>>
        BY <1>9, <2>3 DEF Submit
      <3> QED BY <1>e, <2>1, <3>1
    <2> QED BY <2>2, <2>3
  <1>10. ASSUME NEW m \in Messages, Deliver(m) PROVE AnswerInv'
    <2>1. UNCHANGED <<kind, posted, replies, handled, built, lost>> /\ came[m] \in {0, 1} /\ m <= posted
      BY <1>10 DEF Deliver, Comes, AlertShape
    <2>2. CASE m \in inFlight
      <3>1. UNCHANGED <<handler, inFlight>>
        BY <1>10, <2>2 DEF Deliver
      <3> QED BY <2>1, <3>1 DEF AnswerInv, Flight, Remembered, Marking, Built
    <2>3. CASE m \notin inFlight
      <3>1. PICK d \in Deliveries : /\ d[1] = m /\ handler' = [handler EXCEPT ![d] = First]
                                    /\ inFlight' = inFlight \cup {m}
        <4>1. came[m] + 1 \in {1, 2}
          BY <2>1
        <4>2. <<m, came[m] + 1>> \in Deliveries /\ <<m, came[m] + 1>>[1] = m
          BY ONLY <4>1, DeliveryFacts, m \in Messages
        <4> QED BY <1>10, <2>3, <4>2 DEF Deliver
      <3>2. \A e \in Deliveries : e[1] = m => handler[e] = "none"
        BY <2>3 DEF AnswerInv, Flight
      <3>3. /\ handler'[d] \in {"settle", "check"}
            /\ \A e \in Deliveries : e # d => handler'[e] = handler[e]
        BY <1>h, <3>1 DEF First
      <3>4. Flight' /\ posted' <= Alerts
        BY <2>1, <3>1, <3>2, <3>3 DEF AnswerInv, Flight
      <3>5. ASSUME NEW n \in Messages, Remembered(n) PROVE Remembered(n)'
        BY <2>1, <3>1, <3>2, <3>3, <3>5 DEF Remembered, Marking, Built
      <3>6. \A n \in Messages : n \in lost' \/ replies'[n] = 0 \/ (replies'[n] = 1 /\ Remembered(n)')
        BY <2>1, <3>5 DEF AnswerInv
      <3>7. \A e \in Deliveries :
               /\ handler'[e] \in Unanswering => e[1] \in lost' \/ replies'[e[1]] = 0
               /\ handler'[e] = "post" /\ kind' = "dashboard" => e[1] \in lost' \/ Built(e[1])'
        BY <2>1, <3>3 DEF AnswerInv, Unanswering, Built
      <3> QED BY <3>4, <3>6, <3>7 DEF AnswerInv
    <2> QED BY <2>2, <2>3
  <1>11. CASE Post \/ (\E k \in Keys : Expire(k)) \/ UNCHANGED alertVars
    <2>1. UNCHANGED <<kind, handler, inFlight, replies, handled, built, lost>>
      BY <1>11 DEF Post, Expire, alertVars
    <2>2. posted \in Nat /\ Alerts \in Nat /\ posted' \in {posted, posted + 1} /\ posted' <= Alerts
      BY <1>11, AlertAssumption DEF Post, Expire, alertVars, AnswerInv, AlertShape
    <2>3. \A m \in Messages : m <= posted => m <= posted'
      BY <2>2 DEF Messages
    <2>4. ASSUME NEW m \in Messages, Built(m) PROVE Built(m)'
      BY <2>1, <2>2, <2>4 DEF Built, Messages
    <2>5. Flight'
      BY <2>1, <2>3, DeliveryFacts DEF AnswerInv, Flight
    <2>6. ASSUME NEW m \in Messages, Remembered(m) PROVE Remembered(m)'
      BY <2>1, <2>4, <2>6 DEF Remembered, Marking
    <2>7. \A m \in Messages : m \in lost' \/ replies'[m] = 0 \/ (replies'[m] = 1 /\ Remembered(m)')
      BY <2>1, <2>6 DEF AnswerInv
    <2>8. \A d \in Deliveries :
             /\ handler'[d] \in Unanswering => d[1] \in lost' \/ replies'[d[1]] = 0
             /\ handler'[d] = "post" /\ kind' = "dashboard" => d[1] \in lost' \/ Built(d[1])'
      BY <2>1, <2>4, DeliveryFacts DEF AnswerInv
    <2> QED BY <2>2, <2>5, <2>7, <2>8 DEF AnswerInv
  <1>12. CASE AlertCrash
    <2>1. /\ handler' = [d \in Deliveries |-> "none"]
          /\ UNCHANGED <<kind, posted, replies>>
      BY <1>12 DEF AlertCrash
    <2>2. \A d \in Deliveries : handler'[d] = "none"
      BY <2>1
    <2>3. /\ lost \subseteq lost'
          /\ \A d \in Deliveries : handler[d] \in {"record", "mark", "write"} => d[1] \in lost'
          /\ \A m \in Messages : m \in handled => m \in handled' \/ m \in lost'
          /\ \A m \in Messages : built = m => built' = m \/ m \in lost'
      BY <1>12, CrashFacts
    <2>4. \A m \in Messages : Remembered(m) => m \in lost' \/ Remembered(m)'
      BY <2>1, <2>3 DEF Remembered, Marking, Built
    <2>5. \A m \in Messages : m \in lost' \/ replies'[m] = 0 \/ (replies'[m] = 1 /\ Remembered(m)')
      BY <2>1, <2>3, <2>4 DEF AnswerInv
    <2> QED BY <2>1, <2>2, <2>5 DEF AnswerInv, Flight, Unanswering
  <1>13. ASSUME NEW d \in Deliveries, Unrecorded(d) PROVE AnswerInv'
    <2>1. /\ lost \subseteq lost' /\ d[1] \in lost'
          /\ \A m \in Messages : m \in handled => m \in handled' \/ m \in lost'
          /\ \A m \in Messages : built = m => built' = m \/ m \in lost'
          /\ handler[d] # "none"
          /\ handler' = [handler EXCEPT ![d] = "none"] /\ inFlight' = inFlight \ {d[1]}
          /\ UNCHANGED <<kind, posted, replies>>
      BY <1>13, UnrecordedFacts DEF Ends
    <2>2. handler'[d] = "none" /\ \A e \in Deliveries : e # d => handler'[e] = handler[e]
      BY <1>h, <2>1
    <2> QED BY <2>1, <2>2, StepAnswer DEF Unanswering
  <1> QED
    BY ONLY [NextAlerts]_alertVars, <1>1, <1>2, <1>3, <1>4, <1>5, <1>6, <1>7, <1>8, <1>9,
       <1>10, <1>11, <1>12, <1>13 DEF NextAlerts

LEMMA AnswerInit == InitAlerts => AnswerInv
  BY AlertAssumption DEF InitAlerts, AnswerInv, Flight, Remembered, Unanswering

(* An alert has one answer, whatever comes again and wherever the process is    *)
(* lost (README.md:105; the checks of the thread, of the file of handled alerts  *)
(* and of the last run), but for those in lost.                                *)
THEOREM AlertsAreAnsweredOnce == SpecAlerts => []OneAnswerPerAlert
  <1>1. AlertShape /\ AnswerInv => OneAnswerPerAlert
    BY DEF AnswerInv, OneAnswerPerAlert, AlertShape
  <1> QED BY <1>1, AlertShapeInit, AlertShapeStep, AnswerInit, AnswerStep, PTL DEF SpecAlerts
------------------------------------------------------------------------------
(* A rebuild.  The run is in the file, or about to be written to it, or a later   *)
(* report is in the channel; and who works on it is the first to do so.          *)
Recording(m) == \E d \in Deliveries : d[1] = m /\ handler[d] = "record"

Kept(m) == m \in lost \/ rebuilds[m] = 0 \/ (rebuilds[m] = 1 /\ (Built(m) \/ Recording(m)))

RebuildInv ==
    /\ kind = "dashboard" \/ \A m \in Messages : rebuilds[m] = 0
    /\ \A m \in Messages : Kept(m)
    /\ \A d \in Deliveries :
          handler[d] = "work" => d[1] \in lost \/ rebuilds[d[1]] = 0

(* A handler that records nothing moves on, and the file keeps what is not lost. *)
LEMMA MoveRebuild ==
    ASSUME NEW d \in Deliveries, AlertShape, RebuildInv,
           \A e \in Deliveries : e # d => handler'[e] = handler[e],
           handler[d] = "record" => d[1] \in lost' \/ built' = d[1],
           handler'[d] = "work" => d[1] \in lost' \/ rebuilds[d[1]] = 0,
           lost \subseteq lost',
           \A m \in Messages : built = m => built' = m \/ m \in lost' \/ posted > m,
           UNCHANGED <<kind, posted, rebuilds>>
    PROVE  RebuildInv'
  <1>1. ASSUME NEW m \in Messages PROVE Kept(m)'
    <2>1. Kept(m)
      BY DEF RebuildInv
    <2>2. Built(m) => m \in lost' \/ Built(m)'
      BY DEF Built
    <2>3. Recording(m) => m \in lost' \/ Recording(m)' \/ Built(m)'
      BY DEF Recording, Built
    <2> QED BY <2>1, <2>2, <2>3 DEF Kept
  <1>2. ASSUME NEW e \in Deliveries, handler'[e] = "work" PROVE e[1] \in lost' \/ rebuilds'[e[1]] = 0
    BY <1>2 DEF RebuildInv
  <1> QED BY <1>1, <1>2 DEF RebuildInv

LEMMA RebuildStep == AlertShape /\ AnswerInv /\ RebuildInv /\ [NextAlerts]_alertVars => RebuildInv'
  <1> SUFFICES ASSUME AlertShape, AnswerInv, RebuildInv, [NextAlerts]_alertVars PROVE RebuildInv'
    OBVIOUS
  <1>h. handler \in [Deliveries -> Stages] /\ kind \in Kinds
    BY DEF AlertShape
  <1>g. ASSUME NEW d \in Deliveries, NEW stage \in Stages,
               handler' = [handler EXCEPT ![d] = stage],
               handler[d] # "record",
               stage = "work" => d[1] \in lost' \/ rebuilds[d[1]] = 0,
               lost \subseteq lost',
               UNCHANGED <<kind, posted, rebuilds, built>>
        PROVE  RebuildInv'
    <2>1. handler'[d] = stage /\ \A e \in Deliveries : e # d => handler'[e] = handler[e]
      BY <1>g, <1>h
    <2> QED BY <1>g, <2>1, MoveRebuild
  <1>f. ASSUME NEW d \in Deliveries, Faulty(d), handler[d] # "record" PROVE RebuildInv'
    BY <1>f, <1>g DEF Faulty, Ends, Stages
  <1>1. ASSUME NEW d \in Deliveries, Settle(d) PROVE RebuildInv'
    <2>1. handler[d] = "settle" /\ d[1] \in Messages
      BY <1>1, DeliveryFacts DEF Settle
    <2>2. CASE Faulty(d)
      BY <1>f, <2>1, <2>2
    <2>3. CASE ~Faulty(d)
      <3>1. UNCHANGED <<kind, posted, rebuilds, built, lost>>
        BY <1>1, <2>3 DEF Settle
      <3>2. CASE posted = d[1] /\ ~Done(d[1]) /\ Goes(d, "work")
        <4>1. kind = "dashboard" /\ posted \in Nat
          BY <2>1 DEF AlertShape
        <4>2. ~Built(d[1])
          BY <3>2, <4>1 DEF Done, Built
        <4>3. ~Recording(d[1])
          BY <2>1 DEF AnswerInv, Flight, Recording
        <4>4. d[1] \in lost \/ rebuilds[d[1]] = 0
          BY <2>1, <4>2, <4>3 DEF RebuildInv, Kept
        <4> QED BY <1>g, <2>1, <3>1, <3>2, <4>4 DEF Goes, Stages
      <3>3. CASE Ends(d)
        BY <1>g, <2>1, <3>1, <3>3 DEF Ends, Stages
      <3> QED BY <1>1, <2>3, <3>2, <3>3 DEF Settle
    <2> QED BY <2>2, <2>3
  <1>2. ASSUME NEW d \in Deliveries, Check(d) PROVE RebuildInv'
    <2>1. handler[d] = "check" /\ d[1] \in Messages /\ kind # "dashboard"
      BY <1>2, DeliveryFacts DEF Check, AlertShape
    <2>2. CASE Faulty(d)
      BY <1>f, <2>1, <2>2
    <2>3. CASE ~Faulty(d)
      <3>1. UNCHANGED <<kind, posted, rebuilds, built>> /\ lost \subseteq lost'
        BY <1>2, <2>3 DEF Check, Overlooked
      <3>2. PICK stage \in Stages : handler' = [handler EXCEPT ![d] = stage]
        BY <1>2, <2>3 DEF Check, Overlooked, NoBatch, Goes, Ends, Stages
      <3>3. rebuilds[d[1]] = 0
        BY <2>1 DEF RebuildInv
      <3> QED BY <1>g, <2>1, <3>1, <3>2, <3>3
    <2> QED BY <2>2, <2>3
  <1>3. ASSUME NEW d \in Deliveries, Work(d) PROVE RebuildInv'
    <2>1. handler[d] = "work" /\ d[1] \in Messages
      BY <1>3, DeliveryFacts DEF Work
    <2>2. CASE Faulty(d)
      BY <1>f, <2>1, <2>2
    <2>3. CASE ~Faulty(d) /\ ~Rebuilt(d)
      BY <1>3, <1>g, <2>1, <2>3 DEF Work, Judged, Resolved, Goes, Stages
    <2>4. CASE ~Faulty(d) /\ Rebuilt(d)
      <3>1. /\ kind = "dashboard" /\ handler' = [handler EXCEPT ![d] = "record"]
            /\ rebuilds' = [rebuilds EXCEPT ![d[1]] = @ + 1]
            /\ UNCHANGED <<kind, posted, built, lost>>
        BY <1>3, <2>1, <2>4 DEF Work, Rebuilt, Goes
      <3>2. handler'[d] = "record" /\ \A e \in Deliveries : e # d => handler'[e] = handler[e]
        BY <1>h, <3>1
      <3>3. rebuilds'[d[1]] = rebuilds[d[1]] + 1 /\ \A m \in Messages : m # d[1] => rebuilds'[m] = rebuilds[m]
        BY <2>1, <3>1 DEF AlertShape
      <3>4. ASSUME NEW m \in Messages PROVE Kept(m)'
        <4>1. CASE m = d[1]
          BY <2>1, <3>1, <3>2, <3>3, <4>1 DEF RebuildInv, Kept, Recording
        <4>2. CASE m # d[1]
          <5>1. Kept(m)
            BY DEF RebuildInv
          <5>2. Recording(m) => Recording(m)'
            BY <2>1, <3>2 DEF Recording
          <5> QED BY <3>1, <3>3, <4>2, <5>1, <5>2 DEF Kept, Built
        <4> QED BY <4>1, <4>2
      <3>5. ASSUME NEW e \in Deliveries, handler'[e] = "work" PROVE e[1] \in lost' \/ rebuilds'[e[1]] = 0
        <4>1. e # d /\ handler[e] = "work" /\ e[1] \in Messages
          BY <3>2, <3>5, DeliveryFacts
        <4>2. e[1] # d[1]
          BY <2>1, <4>1 DEF AnswerInv, Flight
        <4> QED BY <3>1, <3>3, <4>1, <4>2 DEF RebuildInv
      <3> QED BY <3>1, <3>4, <3>5 DEF RebuildInv
    <2> QED BY <2>2, <2>3, <2>4
  <1>4. ASSUME NEW d \in Deliveries, Record(d) PROVE RebuildInv'
    <2>1. /\ handler[d] = "record" /\ handler' = [handler EXCEPT ![d] = "post"]
          /\ built' = d[1] /\ lost' = (IF d[1] < built THEN lost \cup {built} ELSE lost)
          /\ UNCHANGED <<kind, posted, rebuilds>>
      BY <1>4 DEF Record, Goes
    <2>2. handler'[d] = "post" /\ \A e \in Deliveries : e # d => handler'[e] = handler[e]
      BY <1>h, <2>1
    <2>3. lost \subseteq lost' /\ d[1] \in Messages
      BY <2>1, DeliveryFacts
    <2>4. ASSUME NEW m \in Messages, built = m PROVE built' = m \/ m \in lost' \/ posted > m
      <3>1. d[1] \in Nat /\ m \in Nat /\ posted \in Nat /\ d[1] <= posted
        BY <2>1, <2>3, AlertAssumption DEF AlertShape, AnswerInv, Flight, Messages
      <3>2. CASE d[1] < m
        BY <2>1, <2>4, <3>2
      <3>3. CASE m < d[1]
        BY ONLY <3>1, <3>3
      <3>4. CASE m = d[1]
        BY <2>1, <3>4
      <3> QED BY ONLY <3>1, <3>2, <3>3, <3>4
    <2> QED BY <2>1, <2>2, <2>3, <2>4, MoveRebuild
  <1>5. ASSUME NEW d \in Deliveries, Reply(d) PROVE RebuildInv'
    <2>1. PICK stage \in Stages : handler' = [handler EXCEPT ![d] = stage]
      BY <1>5, ReplyFacts
    <2>2. /\ handler[d] # "record" /\ handler'[d] # "work" /\ lost \subseteq lost'
          /\ UNCHANGED <<kind, posted, rebuilds, built>>
      BY <1>5, ReplyFacts
    <2>3. handler'[d] = stage
      BY <1>h, <2>1
    <2> QED BY <1>g, <2>1, <2>2, <2>3
  <1>6. ASSUME NEW d \in Deliveries, MarkReads(d) PROVE RebuildInv'
    BY <1>6, <1>g DEF MarkReads, Goes, Stages
  <1>7. ASSUME NEW d \in Deliveries, MarkWrites(d) PROVE RebuildInv'
    BY <1>7, <1>g DEF MarkWrites, Ends, Stages
  <1>8. ASSUME NEW d \in Deliveries, ClaimKeys(d) PROVE RebuildInv'
    <2>1. /\ handler[d] = "claim" /\ (Ends(d) \/ Goes(d, "submit"))
          /\ UNCHANGED <<kind, posted, rebuilds, built, lost>>
      BY <1>8 DEF ClaimKeys
    <2> QED BY <1>g, <2>1 DEF Ends, Goes, Stages
  <1>9. ASSUME NEW d \in Deliveries, Submit(d) PROVE RebuildInv'
    <2>1. CASE Faulty(d)
      BY <1>9, <1>f, <2>1 DEF Submit
    <2>2. CASE ~Faulty(d)
      BY <1>9, <1>g, <2>2 DEF Submit, Ends, Stages
    <2> QED BY <2>1, <2>2
  <1>10. ASSUME NEW m \in Messages, Deliver(m) PROVE RebuildInv'
    <2>1. UNCHANGED <<kind, posted, rebuilds, built, lost>>
      BY <1>10 DEF Deliver, Comes
    <2>2. CASE m \in inFlight
      BY <1>10, <2>1, <2>2 DEF Deliver, RebuildInv, Kept, Recording, Built
    <2>3. CASE m \notin inFlight
      <3>1. PICK d \in Deliveries : d[1] = m /\ handler' = [handler EXCEPT ![d] = First]
        <4>1. came[m] + 1 \in {1, 2}
          BY <1>10 DEF Deliver, Comes, AlertShape
        <4>2. <<m, came[m] + 1>> \in Deliveries /\ <<m, came[m] + 1>>[1] = m
          BY ONLY <4>1, DeliveryFacts, m \in Messages
        <4> QED BY <1>10, <2>3, <4>2 DEF Deliver
      <3>2. handler[d] = "none"
        BY <2>3, <3>1 DEF AnswerInv, Flight
      <3>3. First \in Stages /\ First # "work"
        BY DEF First, Stages
      <3> QED BY <1>g, <2>1, <3>1, <3>2, <3>3
    <2> QED BY <2>2, <2>3
  <1>11. CASE Post \/ (\E k \in Keys : Expire(k)) \/ UNCHANGED alertVars
    <2>1. UNCHANGED <<kind, handler, rebuilds, built, lost>>
      BY <1>11 DEF Post, Expire, alertVars
    <2>2. posted \in Nat /\ posted' \in {posted, posted + 1}
      BY <1>11 DEF Post, Expire, alertVars, AlertShape
    <2>3. \A m \in Messages : Built(m) => Built(m)'
      BY <2>1, <2>2, AlertAssumption DEF Built, Messages
    <2> QED BY <2>1, <2>3 DEF RebuildInv, Kept, Recording
  <1>12. CASE AlertCrash
    <2>1. /\ \A d \in Deliveries : handler'[d] = "none"
          /\ UNCHANGED <<kind, posted, rebuilds>>
      BY <1>12 DEF AlertCrash
    <2>2. /\ lost \subseteq lost'
          /\ \A d \in Deliveries : handler[d] = "record" => d[1] \in lost'
          /\ \A m \in Messages : built = m => built' = m \/ m \in lost'
      BY <1>12, CrashFacts
    <2>3. \A m \in Messages : Kept(m) => Kept(m)'
      BY <2>1, <2>2 DEF Kept, Recording, Built
    <2> QED BY <2>1, <2>3 DEF RebuildInv
  <1>13. ASSUME NEW d \in Deliveries, Unrecorded(d) PROVE RebuildInv'
    <2>1. /\ lost \subseteq lost' /\ d[1] \in lost'
          /\ \A m \in Messages : built = m => built' = m \/ m \in lost'
          /\ handler' = [handler EXCEPT ![d] = "none"]
          /\ UNCHANGED <<kind, posted, rebuilds>>
      BY <1>13, UnrecordedFacts DEF Ends
    <2>2. handler'[d] = "none" /\ \A e \in Deliveries : e # d => handler'[e] = handler[e]
      BY <1>h, <2>1
    <2> QED BY <2>1, <2>2, MoveRebuild
  <1> QED
    BY ONLY [NextAlerts]_alertVars, <1>1, <1>2, <1>3, <1>4, <1>5, <1>6, <1>7, <1>8, <1>9,
       <1>10, <1>11, <1>12, <1>13 DEF NextAlerts

(* A run is rebuilt once, whatever comes again, wherever the process is lost and  *)
(* however a later run overlaps it (README.md:163; _already_built, _record_built), *)
(* but for the runs in lost.                                                   *)
THEOREM RunsAreRebuiltOnce == SpecAlerts => []OneRebuildPerRun
  <1>1. InitAlerts => RebuildInv
    BY DEF InitAlerts, RebuildInv, Kept
  <1>2. AlertShape /\ RebuildInv => OneRebuildPerRun
    BY DEF RebuildInv, Kept, OneRebuildPerRun, AlertShape
  <1> QED BY <1>1, <1>2, AlertShapeInit, AlertShapeStep, AnswerInit, AnswerStep, RebuildStep, PTL
      DEF SpecAlerts
==============================================================================
