---------------------------- MODULE JiraTasksProofs ----------------------------
(* What the automation of Jira tasks promises for any number of edits, losses   *)
(* of the process and errors: the cursor of a task stays behind its comments.   *)
EXTENDS JiraTasks, WellFoundedInduction, TLAPS

(* A set of numbers that is not empty has a least one.                          *)
LEMMA LeastExists == ASSUME NEW T, T \subseteq Nat, T # {}
                     PROVE  \E x \in T : \A y \in T : x <= y
  <1> DEFINE R == OpToRel(<, Nat)
  <1>1. IsWellFoundedOn(R, Nat)
    BY NatLessThanWellFounded
  <1>2. PICK x \in T : \A y \in T : ~(<<y, x>> \in R)
    <2> HIDE DEF R
    <2> QED BY <1>1, WFMin
  <1>3. R = {ss \in Nat \X Nat : ss[1] < ss[2]}
    BY DEF OpToRel
  <1> HIDE DEF R
  <1>4. \A y \in T : x <= y
    <2> SUFFICES ASSUME NEW y \in T PROVE x <= y
      OBVIOUS
    <2>1. <<y, x>> \notin {ss \in Nat \X Nat : ss[1] < ss[2]}
      BY <1>2, <1>3
    <2> QED BY <2>1
  <1> QED BY <1>4

(* The newest of some times up to n is one of them, if there is one.            *)
LEMMA NewestIsOne == ASSUME NEW n \in Nat, NEW S, S \subseteq 0 .. n
                     PROVE  Newest(S) \in Nat /\ (S # {} => Newest(S) \in S)
  <1>1. CASE S = {}
    BY <1>1 DEF Newest
  <1>2. CASE S # {}
    <2> DEFINE T == {n - y : y \in S}
    <2>1. T \subseteq Nat /\ T # {}
      <3>1. PICK y \in S : TRUE
        BY <1>2
      <3>2. n - y \in T
        OBVIOUS
      <3>3. ASSUME NEW z \in S PROVE n - z \in Nat
        OBVIOUS
      <3> QED BY <3>2, <3>3
    <2>2. PICK x \in T : \A y \in T : x <= y
      <3> HIDE DEF T
      <3> QED BY <2>1, LeastExists
    <2>3. PICK m \in S : x = n - m
      OBVIOUS
    <2>4. \A y \in S : m >= y
      <3> SUFFICES ASSUME NEW y \in S PROVE m >= y
        OBVIOUS
      <3>1. n - y \in T
        OBVIOUS
      <3>2. x <= n - y
        <4> HIDE DEF T
        <4> QED BY <3>1, <2>2
      <3>3. y \in Nat /\ m \in Nat
        OBVIOUS
      <3> QED BY ONLY <3>2, <3>3, <2>3, n \in Nat
    <2>5. Max(S) \in S
      BY <2>4 DEF Max
    <2>6. \A z \in S : z \in Nat
      OBVIOUS
    <2>7. Newest(S) = Max(S)
      BY <1>2 DEF Newest
    <2>8. Newest(S) \in S
      BY <2>5, <2>7
    <2> QED BY ONLY <2>6, <2>8
  <1> QED BY <1>1, <1>2
------------------------------------------------------------------------------
Places == {"idle", "found", "screen", "lock", "start", "work", "review", "usage",
           "snapshot", "read", "decide", "remark", "guard"}
Statuses == {"todo", "progress", "review", "done"}
Phases == {"none", "worker", "waiting", "reviewer", "done", "reassigned"}

Issues == [status : Statuses, mine : BOOLEAN, updated : Nat, comments : SUBSET Nat,
           moves : Seq([at : Nat, from : Statuses, to : Statuses]), reserved : BOOLEAN]
Links == [phase : Phases, seen : Nat, pageSeen : Nat, active : Nat, terminal : BOOLEAN,
          page : BOOLEAN]
Passes == [at : Places, u : Nat, status : Statuses \cup {"none"}, target : Nat,
           remark : Nat, latest : Nat, returned : BOOLEAN, previous : Nat, saw : SUBSET Nat]

(* The comments that may be behind the cursor.                                   *)
Behind == taken \cup passed
USE DEF Behind

TaskTypes ==
    /\ now \in Nat /\ now >= 1
    /\ issue \in Issues
    /\ remarks \in SUBSET Nat
    /\ planner \in Nat
    /\ link \in Links
    /\ pass \in [Loops -> Passes]

(* Nothing is later than now, and the comments are later than the start.        *)
Clock ==
    /\ issue.updated <= now
    /\ \A c \in issue.comments : 1 < c /\ c <= now
    /\ \A r \in remarks : r <= now
    /\ link.seen <= now /\ planner <= now
    /\ \A x \in Loops : pass[x].u <= now

(* A pass that knows the comments knows every one up to the time it will store. *)
Knows ==
    \A x \in Loops :
        pass[x].at \in {"decide", "remark", "guard", "start", "work", "review"} =>
            \A c \in issue.comments \ pass[x].saw : c > pass[x].u

(* A poll that found no comment on a task without a cursor, or none to act on,  *)
(* leaves none behind the time it will store.                                   *)
Settled ==
    /\ pass["poll"].at \in {"decide", "remark", "guard"}
    /\ pass["poll"].target = 0 /\ pass["poll"].previous = 0
    => \A c \in pass["poll"].saw \ Behind : c > pass["poll"].u

(* Whether the task is owned or not: a closed link may be opened again.         *)
Ahead == \A c \in issue.comments \ Behind : c > link.seen /\ c > planner

TaskInv == TaskTypes /\ Clock /\ Knows /\ Settled /\ Ahead
------------------------------------------------------------------------------
(* The pieces the actions are made of.                                          *)
LEMMA IdleIsPass == Idle \in Passes /\ Idle.at = "idle" /\ Idle.u = 0
  BY DEF Idle, Passes, Places

LEMMA GoesFacts ==
    ASSUME TaskTypes, NEW x \in Loops, NEW at \in Places, Goes(x, at)
    PROVE  /\ pass' \in [Loops -> Passes]
           /\ \A y \in Loops : y # x => pass'[y] = pass[y]
           /\ pass'[x].at = at /\ pass'[x].u = pass[x].u /\ pass'[x].saw = pass[x].saw
           /\ pass'[x].target = pass[x].target /\ pass'[x].previous = pass[x].previous
  BY DEF TaskTypes, Goes, Passes

LEMMA TurnFacts ==
    ASSUME TaskTypes, NEW x \in Loops, NEW stage \in Places, Turn(x, stage)
    PROVE  /\ pass' \in [Loops -> Passes]
           /\ \A y \in Loops : y # x => pass'[y] = pass[y]
           /\ pass'[x].at = stage /\ pass'[x].u = pass[x].u /\ pass'[x].saw = issue.comments
  <1>1. issue.comments \in SUBSET Nat /\ pass[x] \in Passes
    BY DEF TaskTypes, Issues
  <1>2. pass' = [pass EXCEPT ![x] = [pass[x] EXCEPT !.at = stage, !.saw = issue.comments]]
    BY DEF Turn
  <1>3. [pass[x] EXCEPT !.at = stage, !.saw = issue.comments] \in Passes
    BY <1>1 DEF Passes
  <1> QED BY <1>1, <1>2, <1>3 DEF TaskTypes, Passes

LEMMA OverFacts ==
    ASSUME TaskTypes, NEW x \in Loops, Over(x)
    PROVE  /\ pass' \in [Loops -> Passes]
           /\ \A y \in Loops : y # x => pass'[y] = pass[y]
           /\ pass'[x].at = "idle" /\ pass'[x].u = 0
  BY IdleIsPass DEF TaskTypes, Over

LEMMA UpsertFacts ==
    ASSUME TaskTypes, now' \in Nat, NEW phase \in Phases, NEW seen \in Nat,
           NEW pageSeen \in Nat, NEW page \in BOOLEAN, link' = Upsert(phase, seen, pageSeen, page)
    PROVE  /\ link' \in Links
           /\ link'.seen = IF seen = 0 THEN link.seen ELSE seen
  BY DEF TaskTypes, Upsert, Links

LEMMA EditedFacts ==
    ASSUME TaskTypes, NEW new \in Issues, Edited(new)
    PROVE  /\ now' = now + 1 /\ issue' \in Issues
           /\ issue'.updated = now' /\ issue'.comments = new.comments
  <1>1. now' = now + 1 /\ now' \in Nat
    BY DEF Edited, TaskTypes
  <1>2. [at |-> now', from |-> issue.status, to |-> new.status]
          \in [at : Nat, from : Statuses, to : Statuses]
    BY <1>1 DEF TaskTypes, Issues
  <1>3. PICK moves \in Seq([at : Nat, from : Statuses, to : Statuses]) :
           issue' = [new EXCEPT !.updated = now', !.moves = moves]
    <2>1. new.moves \in Seq([at : Nat, from : Statuses, to : Statuses])
      BY DEF Issues
    <2> DEFINE moved == IF new.status = issue.status THEN new.moves
                        ELSE Append(new.moves, [at |-> now', from |-> issue.status,
                                                to |-> new.status])
    <2>2. issue' = [new EXCEPT !.updated = now', !.moves = moved]
      BY DEF Edited
    <2>3. moved \in Seq([at : Nat, from : Statuses, to : Statuses])
      <3>1. CASE new.status = issue.status
        BY <2>1, <3>1
      <3>2. CASE new.status # issue.status
        BY <1>2, <2>1, <3>2
      <3> QED BY <3>1, <3>2
    <2> HIDE DEF moved
    <2> QED BY <2>2, <2>3
  <1> QED BY <1>1, <1>3 DEF Issues

LEMMA SetsFacts ==
    ASSUME TaskTypes, Clock, NEW status \in Statuses, Sets(status)
    PROVE  /\ now' \in {now, now + 1} /\ issue' \in Issues
           /\ issue'.updated <= now' /\ issue'.comments = issue.comments
  <1>1. CASE issue.status = status
    BY <1>1 DEF Sets, TaskTypes, Clock
  <1>2. CASE issue.status # status
    <2> DEFINE new == [issue EXCEPT !.status = status]
    <2>1. new \in Issues /\ new.comments = issue.comments
      BY DEF TaskTypes, Issues
    <2>2. Edited(new)
      BY <1>2 DEF Sets
    <2> HIDE DEF new
    <2> QED BY <2>1, <2>2, EditedFacts DEF TaskTypes
  <1> QED BY <1>1, <1>2

(* What a step may do: comments come with the time, the cursor passes only what *)
(* is known, and a pass that moves on knows the comments.                       *)
LEMMA StepKeeps ==
    ASSUME TaskInv, TaskTypes',
           now' \in {now, now + 1}, issue'.updated <= now',
           \A c \in issue'.comments : c \in issue.comments \/ (c = now' /\ now' = now + 1),
           \A r \in remarks' : r \in remarks \/ r = now',
           Behind \subseteq Behind',
           planner' <= now', planner' \in {planner, 0} \/ issue'.comments \subseteq Behind',
           link'.seen <= now, \A c \in issue.comments \ Behind' : c > link'.seen,
           \A x \in Loops :
              \/ pass'[x] = pass[x]
              \/ /\ pass'[x].u <= now'
                 /\ pass'[x].at \in {"decide", "remark", "guard", "start", "work", "review"} =>
                       \A c \in issue'.comments \ pass'[x].saw : c > pass'[x].u
                 /\ /\ x = "poll" /\ pass'[x].at \in {"decide", "remark", "guard"}
                    /\ pass'[x].target = 0 /\ pass'[x].previous = 0
                    => \A c \in pass'[x].saw \ Behind' : c > pass'[x].u
    PROVE  TaskInv'
  <1> USE DEF TaskInv
  <1>1. now \in Nat /\ now' \in Nat /\ now >= 1 /\ now' >= now
    BY DEF TaskTypes
  <1>2. \A c \in issue.comments : c \in Nat
    BY DEF TaskTypes, Issues
  <1>3. \A x \in Loops : pass[x].u \in Nat /\ pass'[x].u \in Nat
    BY DEF TaskTypes, Passes
  <1>4. link.seen \in Nat /\ link'.seen \in Nat /\ \A r \in remarks : r \in Nat
    BY DEF TaskTypes, Links
  <1>5. Clock'
    <2>1. \A c \in issue'.comments : 1 < c /\ c <= now'
      BY <1>1, <1>2 DEF Clock
    <2>2. \A r \in remarks' : r <= now'
      BY <1>1, <1>4 DEF Clock
    <2>3. \A x \in Loops : pass'[x].u <= now'
      BY <1>1, <1>3 DEF Clock
    <2>4. link'.seen <= now'
      BY <1>1, <1>4
    <2> QED BY <2>1, <2>2, <2>3, <2>4 DEF Clock
  <1>6. Knows'
    <2> SUFFICES ASSUME NEW x \in Loops,
                        pass'[x].at \in {"decide", "remark", "guard", "start", "work", "review"},
                        NEW c \in issue'.comments \ pass'[x].saw
                 PROVE  c > pass'[x].u
      BY DEF Knows
    <2>1. CASE pass'[x] = pass[x]
      BY <2>1, <1>1, <1>2, <1>3 DEF Clock, Knows
    <2>2. CASE pass'[x] # pass[x]
      BY <2>2
    <2> QED BY <2>1, <2>2
  <1>7. Settled'
    BY DEF Settled, Loops
  <1>8. Ahead'
    <2> SUFFICES ASSUME NEW c \in issue'.comments \ Behind'
                 PROVE  c > link'.seen /\ c > planner'
      BY DEF Ahead
    <2>1. planner' \in {planner, 0} /\ planner \in Nat /\ planner <= now
      BY DEF Clock, TaskTypes
    <2>2. CASE c \in issue.comments
      <3>1. c > link'.seen /\ c > planner
        BY <2>2 DEF Ahead
      <3>2. c \in Nat /\ 1 < c
        BY <1>2, <2>2 DEF Clock
      <3> QED BY ONLY <2>1, <3>1, <3>2
    <2>3. CASE c = now' /\ now' = now + 1
      BY <2>1, <2>3, <1>1, <1>4
    <2> QED BY <2>2, <2>3
  <1> QED BY <1>5, <1>6, <1>7, <1>8

(* The same for a step that leaves the issue and the link as they are.          *)
LEMMA PassKeeps ==
    ASSUME TaskInv, UNCHANGED <<now, issue, remarks, link, taken, passed>>, planner' \in {planner, 0},
           NEW x \in Loops, pass' \in [Loops -> Passes],
           \A y \in Loops : y # x => pass'[y] = pass[y],
           pass'[x].u <= now,
           pass'[x].at \in {"decide", "remark", "guard", "start", "work", "review"} =>
              \A c \in issue.comments \ pass'[x].saw : c > pass'[x].u,
           /\ x = "poll" /\ pass'[x].at \in {"decide", "remark", "guard"}
           /\ pass'[x].target = 0 /\ pass'[x].previous = 0
           => \A c \in pass'[x].saw \ Behind : c > pass'[x].u
    PROVE  TaskInv'
  <1>1. TaskTypes'
    BY DEF TaskInv, TaskTypes
  <1>2. /\ now' \in {now, now + 1} /\ issue'.updated <= now'
        /\ \A c \in issue'.comments : c \in issue.comments \/ (c = now' /\ now' = now + 1)
        /\ \A r \in remarks' : r \in remarks \/ r = now'
        /\ link'.seen <= now /\ \A c \in issue.comments \ Behind' : c > link'.seen
        /\ planner' <= now'
    BY DEF TaskInv, Clock, Ahead, TaskTypes
  <1> QED BY <1>1, <1>2, StepKeeps

(* A pass that is over, or goes where it knows no comments yet.                 *)
LEMMA OverKeeps ==
    ASSUME TaskInv, UNCHANGED <<now, issue, remarks, link, taken, passed, planner>>,
           NEW x \in Loops, Over(x)
    PROVE  TaskInv'
  <1>1. TaskTypes /\ 0 <= now /\ planner' \in {planner, 0}
    BY DEF TaskInv, TaskTypes
  <1> QED BY <1>1, OverFacts, PassKeeps

LEMMA GoesKeeps ==
    ASSUME TaskInv, UNCHANGED <<now, issue, remarks, link, taken, passed>>, planner' \in {planner, 0},
           NEW x \in Loops,
           NEW at \in Places \ {"decide", "remark", "guard", "start", "work", "review"},
           Goes(x, at)
    PROVE  TaskInv'
  <1>1. TaskTypes /\ pass[x].u <= now
    BY DEF TaskInv, TaskTypes, Clock
  <1> QED BY <1>1, GoesFacts, PassKeeps

LEMMA RaisesKeeps == ASSUME TaskInv, NEW x \in Loops, Raises(x) PROVE TaskInv'
  BY OverKeeps DEF Raises

LEMMA TurnKeeps ==
    ASSUME TaskInv, UNCHANGED <<now, issue, remarks, link, taken, passed, planner>>,
           NEW x \in Loops, NEW stage \in {"start", "review"}, Turn(x, stage)
    PROVE  TaskInv'
  <1>1. TaskTypes /\ pass[x].u <= now /\ stage \in Places /\ planner' \in {planner, 0}
    BY DEF TaskInv, TaskTypes, Clock, Places
  <1> QED BY <1>1, TurnFacts, PassKeeps

(* A step that writes the link, edits the issue at most by its status and ends  *)
(* the pass or takes it where no cursor is stored without knowing.              *)
LEMMA WriteKeeps ==
    ASSUME TaskInv, now' \in {now, now + 1}, issue' \in Issues,
           issue'.updated <= now', issue'.comments = issue.comments,
           UNCHANGED <<remarks, planner>>, Behind \subseteq Behind',
           link' \in Links, link'.seen <= now,
           \A c \in issue.comments \ Behind' : c > link'.seen,
           NEW x \in Loops, pass' \in [Loops -> Passes],
           \A y \in Loops : y # x => pass'[y] = pass[y],
           pass'[x].u <= now,
           pass'[x].at \in {"decide", "remark", "guard", "start", "work", "review"} =>
              \A c \in issue.comments \ pass'[x].saw : c > pass'[x].u,
           /\ x = "poll" /\ pass'[x].at \in {"decide", "remark", "guard"}
           /\ pass'[x].target = 0 /\ pass'[x].previous = 0
           => \A c \in pass'[x].saw \ Behind' : c > pass'[x].u
    PROVE  TaskInv'
  <1>1. now' \in Nat /\ now' >= 1 /\ pass'[x].u <= now' /\ planner' <= now'
    BY DEF TaskInv, TaskTypes, Passes, Clock
  <1>2. TaskTypes'
    BY <1>1 DEF TaskInv, TaskTypes
  <1> QED BY <1>1, <1>2, StepKeeps

LEMMA SuspectsKeeps == ASSUME TaskInv, NEW x \in Loops, Suspects(x) PROVE TaskInv'
  <1>1. TaskTypes /\ issue \in Issues /\ link \in Links /\ 0 <= now
    BY DEF TaskInv, TaskTypes
  <1>2. /\ now' = now + 1 /\ issue' \in Issues
        /\ issue'.updated <= now' /\ issue'.comments = issue.comments
    BY <1>1, EditedFacts DEF Suspects, TaskTypes
  <1>3. UNCHANGED <<remarks, planner, link, taken, passed>> /\ Over(x)
    BY DEF Suspects
  <1>4. link'.seen <= now /\ \A c \in issue.comments \ Behind' : c > link'.seen
    BY <1>3 DEF TaskInv, Clock, Ahead
  <1> QED BY <1>1, <1>2, <1>3, <1>4, OverFacts, WriteKeeps
------------------------------------------------------------------------------
(* Every step keeps the invariant.                                              *)
LEMMA HourlySteps == TaskInv /\ Hourly => TaskInv'
  <1> SUFFICES ASSUME TaskInv, Hourly PROVE TaskInv'
    OBVIOUS
  <1>0. TaskTypes /\ Clock /\ planner \in Nat
    BY DEF TaskInv, TaskTypes
  <1>1. CASE Search
    <2>1. pass' \in [Loops -> Passes] /\ pass'["hourly"].at = "found"
            /\ pass'["hourly"].u = issue.updated /\ pass'["poll"] = pass["poll"]
      BY <1>0, <1>1 DEF Search, TaskTypes, Passes, Issues, Idle, Statuses, Loops, Places
    <2>2. UNCHANGED <<now, issue, remarks, link, taken, passed, planner>>
      BY <1>1 DEF Search
    <2>3. \A y \in Loops : y # "hourly" => pass'[y] = pass[y]
      BY <2>1 DEF Loops
    <2> QED BY <1>0, <2>1, <2>2, <2>3, PassKeeps DEF Clock, Loops
  <1>2. CASE Filter
    <2>1. Over("hourly") \/ Goes("hourly", "screen")
      BY <1>2 DEF Filter
    <2>2. UNCHANGED <<now, issue, remarks, link, taken, passed, planner>>
      BY <1>2 DEF Filter
    <2> QED BY <1>0, <2>1, <2>2, OverKeeps, GoesKeeps DEF Loops, Places
  <1>3. CASE ScreenCandidate
    <2>1. CASE Goes("hourly", "lock") /\ UNCHANGED <<now, issue, remarks, link, taken, passed, planner>>
      BY <1>0, <2>1, GoesKeeps DEF Loops, Places
    <2> QED BY <1>3, <2>1, SuspectsKeeps, RaisesKeeps DEF ScreenCandidate, Loops
  <1>4. CASE Launch
    <2>1. Turn("hourly", "start") /\ UNCHANGED <<now, issue, remarks, link, taken, passed, planner>>
      BY <1>4 DEF Launch
    <2> QED BY <2>1, TurnKeeps DEF Loops
  <1> QED BY <1>1, <1>2, <1>3, <1>4 DEF Hourly

LEMMA TurnSteps == ASSUME TaskInv, NEW x \in Loops PROVE
                   StartTurn(x) \/ WorkTurn(x) \/ ReviewTurn(x) => TaskInv'
  <1>0. /\ TaskTypes /\ Clock /\ planner \in Nat /\ issue \in Issues /\ link \in Links
        /\ pass[x] \in Passes /\ pass[x].u \in Nat /\ pass[x].u <= now /\ now \in Nat
        /\ link.seen <= now
    BY DEF TaskInv, TaskTypes, Clock, Passes
  <1>1. \A c \in issue.comments \ Behind : c > link.seen
    BY DEF TaskInv, Ahead
  <1>2. pass[x].at \in {"start", "work", "review"} =>
          \A c \in issue.comments \ pass[x].saw : c > pass[x].u
    BY DEF TaskInv, Knows
  <1>3. ASSUME StartTurn(x) PROVE TaskInv'
    <2>1. CASE Raises(x)
      BY <2>1, RaisesKeeps
    <2>2. CASE ~Raises(x)
      <3>1. /\ pass[x].at = "start" /\ Behind' = Behind \cup pass[x].saw
            /\ UNCHANGED <<remarks, planner>>
        BY <1>3, <2>2 DEF StartTurn
      <3>2. /\ now' \in {now, now + 1} /\ issue' \in Issues
            /\ issue'.updated <= now' /\ issue'.comments = issue.comments
        <4>1. [issue EXCEPT !.status = "progress"] \in Issues
                /\ [issue EXCEPT !.status = "progress"].comments = issue.comments
          BY <1>0 DEF Issues, Statuses
        <4>2. Sets("progress") \/ Edited([issue EXCEPT !.status = "progress"])
                \/ UNCHANGED <<now, issue>>
          BY <1>3, <2>2 DEF StartTurn
        <4>3. CASE Sets("progress")
          BY <1>0, <4>3, SetsFacts DEF Statuses
        <4>4. CASE Edited([issue EXCEPT !.status = "progress"])
          <5> DEFINE new == [issue EXCEPT !.status = "progress"]
          <5>1. new \in Issues /\ new.comments = issue.comments /\ Edited(new)
            BY <4>1, <4>4
          <5> HIDE DEF new
          <5>2. /\ now' = now + 1 /\ issue' \in Issues
                /\ issue'.updated = now' /\ issue'.comments = new.comments
            BY <1>0, <5>1, EditedFacts
          <5> QED BY <1>0, <5>1, <5>2
        <4>5. CASE UNCHANGED <<now, issue>>
          BY <1>0, <4>5 DEF Clock
        <4> QED BY <4>2, <4>3, <4>4, <4>5
      <3>3. \E phase \in Phases : link' = Upsert(phase, pass[x].u, 0, FALSE)
        BY <1>3, <2>2 DEF StartTurn, Phases
      <3>4. link' \in Links /\ link'.seen \in {pass[x].u, link.seen}
        <4>1. now' \in Nat
          BY <1>0, <3>2
        <4> QED BY <1>0, <3>3, <4>1, UpsertFacts
      <3>5. link'.seen <= now /\ \A c \in issue.comments \ Behind' : c > link'.seen
        BY <1>0, <1>1, <1>2, <3>1, <3>4
      <3>6. Over(x) \/ Goes(x, "work")
        BY <1>3, <2>2 DEF StartTurn
      <3>7. /\ pass' \in [Loops -> Passes] /\ \A y \in Loops : y # x => pass'[y] = pass[y]
            /\ \/ pass'[x].at = "idle" /\ pass'[x].u = 0
               \/ pass'[x].at = "work" /\ pass'[x].u = pass[x].u /\ pass'[x].saw = pass[x].saw
        BY <1>0, <3>6, OverFacts, GoesFacts DEF Places
      <3> QED BY <1>0, <1>2, <3>1, <3>2, <3>4, <3>5, <3>7, WriteKeeps
    <2> QED BY <2>1, <2>2
  <1>4. ASSUME WorkTurn(x) PROVE TaskInv'
    <2>1. CASE Raises(x)
      BY <2>1, RaisesKeeps
    <2>2. CASE ~Raises(x)
      <3>1. UNCHANGED <<now, issue, remarks, planner, taken, passed>> /\ Turn(x, "review")
        BY <1>4, <2>2 DEF WorkTurn
      <3>2. \E page \in BOOLEAN : link' = Upsert("reviewer", 0, 0, page)
        BY <1>4, <2>2 DEF WorkTurn
      <3>3. link' \in Links /\ link'.seen = link.seen
        BY <1>0, <3>1, <3>2, UpsertFacts DEF Phases
      <3>4. /\ pass' \in [Loops -> Passes] /\ \A y \in Loops : y # x => pass'[y] = pass[y]
            /\ pass'[x].at = "review" /\ pass'[x].u = pass[x].u /\ pass'[x].saw = issue.comments
        BY <1>0, <3>1, TurnFacts DEF Places
      <3> QED BY <1>0, <1>1, <3>1, <3>3, <3>4, WriteKeeps DEF Clock
    <2> QED BY <2>1, <2>2
  <1>5. ASSUME ReviewTurn(x) PROVE TaskInv'
    <2>1. CASE Raises(x)
      BY <2>1, RaisesKeeps
    <2>2. CASE ~Raises(x)
      <3>1. /\ pass[x].at = "review" /\ Behind' = Behind \cup pass[x].saw
            /\ UNCHANGED <<remarks, planner>> /\ Over(x)
        BY <1>5, <2>2 DEF ReviewTurn
      <3>2. /\ now' \in {now, now + 1} /\ issue' \in Issues
            /\ issue'.updated <= now' /\ issue'.comments = issue.comments
        <4>1. [issue EXCEPT !.status = "review"] \in Issues
                /\ [issue EXCEPT !.status = "review"].comments = issue.comments
          BY <1>0 DEF Issues, Statuses
        <4>2. Edited([issue EXCEPT !.status = "review"]) \/ UNCHANGED <<now, issue>>
          BY <1>5, <2>2 DEF ReviewTurn
        <4>4. CASE Edited([issue EXCEPT !.status = "review"])
          <5> DEFINE new == [issue EXCEPT !.status = "review"]
          <5>1. new \in Issues /\ new.comments = issue.comments /\ Edited(new)
            BY <4>1, <4>4
          <5> HIDE DEF new
          <5>2. /\ now' = now + 1 /\ issue' \in Issues
                /\ issue'.updated = now' /\ issue'.comments = new.comments
            BY <1>0, <5>1, EditedFacts
          <5> QED BY <1>0, <5>1, <5>2
        <4>5. CASE UNCHANGED <<now, issue>>
          BY <1>0, <4>5 DEF Clock
        <4> QED BY <4>2, <4>4, <4>5
      <3>3. link' = Upsert("reviewer", IF x = "poll" THEN pass[x].u ELSE 0, pass[x].latest, FALSE)
        BY <1>5, <2>2 DEF ReviewTurn
      <3>4. link' \in Links /\ link'.seen \in {pass[x].u, link.seen}
        <4>1. now' \in Nat /\ pass[x].latest \in Nat
          BY <1>0, <3>2 DEF Passes
        <4>2. (IF x = "poll" THEN pass[x].u ELSE 0) \in {0, pass[x].u}
          OBVIOUS
        <4>3. link' \in Links
          BY <1>0, <3>3, <4>1, <4>2, UpsertFacts DEF Phases
        <4>4. link'.seen \in {pass[x].u, link.seen}
          BY <3>3 DEF Upsert
        <4> QED BY <4>3, <4>4
      <3>5. link'.seen <= now /\ \A c \in issue.comments \ Behind' : c > link'.seen
        BY <1>0, <1>1, <1>2, <3>1, <3>4
      <3> QED BY <1>0, <3>1, <3>2, <3>4, <3>5, OverFacts, WriteKeeps
    <2> QED BY <2>1, <2>2
  <1> QED BY <1>3, <1>4, <1>5
------------------------------------------------------------------------------
LEMMA PollBegins == TaskInv /\ (Begin \/ ReadQuota \/ Follow \/ Snapshot) => TaskInv'
  <1> SUFFICES ASSUME TaskInv, Begin \/ ReadQuota \/ Follow \/ Snapshot PROVE TaskInv'
    OBVIOUS
  <1>0. /\ TaskTypes /\ Clock /\ planner \in Nat /\ issue \in Issues /\ link \in Links
        /\ now \in Nat /\ now >= 1 /\ link.seen <= now /\ "poll" \in Loops
        /\ issue.status \in Statuses /\ issue.updated \in Nat /\ pass["poll"] \in Passes
        /\ pass["poll"].u <= now
    BY DEF TaskInv, TaskTypes, Clock, Issues, Loops
  <1>1. CASE Begin
    <2>1. /\ UNCHANGED <<now, issue, remarks, taken, passed>> /\ planner' = 0 /\ Goes("poll", "usage")
          /\ \/ link' = link
             \/ link' = NoLink
             \/ link' = [NoLink EXCEPT !.phase = "reviewer", !.seen = planner, !.active = now]
      BY <1>0, <1>1 DEF Begin
    <2>2. link' \in Links /\ link'.seen \in {link.seen, 0, planner}
      <3>1. NoLink \in Links /\ NoLink.seen = 0
        BY DEF NoLink, Links, Phases
      <3>2. CASE link' = [NoLink EXCEPT !.phase = "reviewer", !.seen = planner, !.active = now]
        BY <1>0, <3>2 DEF NoLink, Links, Phases
      <3> QED BY <1>0, <2>1, <3>1, <3>2
    <2>3. link'.seen <= now /\ \A c \in issue.comments \ Behind : c > link'.seen
      <3>1. \A c \in issue.comments : c \in Nat /\ 1 < c
        BY <1>0 DEF Clock, Issues
      <3>2. planner <= now /\ \A c \in issue.comments \ Behind : c > link.seen /\ c > planner
        BY <1>0 DEF TaskInv, Ahead, Clock
      <3>3. link'.seen \in {link.seen, 0, planner} /\ link.seen <= now /\ now \in Nat
        BY <1>0, <2>2
      <3> HIDE DEF Behind
      <3> QED BY ONLY <3>1, <3>2, <3>3
    <2>4. /\ pass' \in [Loops -> Passes] /\ \A y \in Loops : y # "poll" => pass'[y] = pass[y]
          /\ pass'["poll"].at = "usage" /\ pass'["poll"].u = pass["poll"].u
      BY <1>0, <2>1, GoesFacts DEF Places
    <2>5. TaskTypes'
      BY <1>0, <2>1, <2>2, <2>4 DEF TaskTypes
    <2> QED BY <1>0, <2>1, <2>2, <2>3, <2>4, <2>5, StepKeeps DEF Clock
  <1>2. CASE ReadQuota
    <2>1. /\ Over("poll") \/ Goes("poll", "lock")
          /\ UNCHANGED <<now, issue, remarks, link, taken, passed, planner>>
      BY <1>2 DEF ReadQuota
    <2> QED BY <1>0, <2>1, OverKeeps, GoesKeeps DEF Places
  <1>3. CASE Follow
    <2>1. Goes("poll", "snapshot") /\ UNCHANGED <<now, issue, remarks, link, taken, passed, planner>>
      BY <1>3 DEF Follow
    <2> QED BY <1>0, <2>1, GoesKeeps DEF Places
  <1>4. CASE Snapshot
    <2>1. CASE Raises("poll")
      BY <1>0, <2>1, RaisesKeeps
    <2>2. CASE (issue.status = "done" \/ Away) /\ ~Raises("poll")
      <3>0. Over("poll")
        BY <1>4, <2>2 DEF Snapshot
      <3>1. /\ UNCHANGED <<now, issue, remarks, planner, taken, passed>>
            /\ \E phase \in Phases : link' = Upsert(phase, 0, 0, FALSE)
        BY <1>4, <2>2 DEF Snapshot, Phases
      <3>2. link' \in Links /\ link'.seen = link.seen
        BY <1>0, <3>1, UpsertFacts
      <3>3. \A c \in issue.comments \ Behind' : c > link'.seen
        BY <3>1, <3>2 DEF TaskInv, Ahead
      <3>4. /\ pass' \in [Loops -> Passes] /\ \A y \in Loops : y # "poll" => pass'[y] = pass[y]
            /\ pass'["poll"].at = "idle" /\ pass'["poll"].u <= now
        BY <1>0, <3>0, OverFacts
      <3>5. issue' \in Issues /\ issue'.updated <= now' /\ issue'.comments = issue.comments
        BY <1>0, <3>1 DEF Clock
      <3> QED BY <1>0, <3>1, <3>2, <3>3, <3>4, <3>5, WriteKeeps
    <2>3. CASE ~(issue.status = "done" \/ Away) /\ ~Raises("poll")
      <3>0. /\ pass' = [pass EXCEPT !["poll"] = Seen]
            /\ UNCHANGED <<now, issue, remarks, link, taken, passed, planner>>
        BY <1>4, <2>3 DEF Snapshot
      <3>1. Seen \in Passes /\ Seen.at = "read" /\ Seen.u = issue.updated
        BY <1>0 DEF Seen, Passes, Places
      <3>2. /\ pass' \in [Loops -> Passes] /\ pass'["poll"] = Seen
            /\ \A y \in Loops : y # "poll" => pass'[y] = pass[y]
        BY <1>0, <3>0, <3>1 DEF TaskTypes
      <3> QED BY <1>0, <3>0, <3>1, <3>2, PassKeeps DEF Clock
    <2> QED BY <2>1, <2>2, <2>3
  <1> QED BY <1>1, <1>2, <1>3, <1>4
------------------------------------------------------------------------------
LEMMA PollReads == TaskInv /\ (Read \/ DecideComment \/ DecideRemark) => TaskInv'
  <1> SUFFICES ASSUME TaskInv, Read \/ DecideComment \/ DecideRemark PROVE TaskInv'
    OBVIOUS
  <1> DEFINE p == pass["poll"]
  <1>0. /\ TaskTypes /\ Clock /\ planner \in Nat /\ issue \in Issues /\ link \in Links
        /\ now \in Nat /\ link.seen <= now /\ "poll" \in Loops /\ p \in Passes
        /\ p.u \in Nat /\ p.u <= now /\ issue.updated <= now
    BY DEF TaskInv, TaskTypes, Clock, Passes, Loops
  <1>1. \A c \in issue.comments \ Behind : c > link.seen
    BY DEF TaskInv, Ahead
  <1>2. p.at \in {"decide", "remark"} => \A c \in issue.comments \ p.saw : c > p.u
    BY <1>0 DEF TaskInv, Knows
  <1>3. p.at \in {"decide", "remark"} /\ p.target = 0 /\ p.previous = 0
          => \A c \in p.saw \ Behind : c > p.u
    BY DEF TaskInv, Settled
  <1>4. ASSUME Read PROVE TaskInv'
    <2>1. CASE Raises("poll")
      BY <1>0, <2>1, RaisesKeeps
    <2>2. CASE ~Raises("poll")
      <3>0. PICK returned \in BOOLEAN :
              /\ pass' = [pass EXCEPT !["poll"] =
                    [p EXCEPT !.at = "decide", !.target = NewComment, !.remark = NewRemark,
                              !.latest = Activity, !.returned = returned,
                              !.previous = link.seen, !.saw = issue.comments]]
              /\ UNCHANGED <<now, issue, remarks, link, taken, passed, planner>>
        <4>1. Returned(link.seen) \in BOOLEAN
          BY DEF Returned
        <4> QED BY <1>4, <2>2, <4>1 DEF Read
      <3> DEFINE q == [p EXCEPT !.at = "decide", !.target = NewComment, !.remark = NewRemark,
                                !.latest = Activity, !.returned = returned,
                                !.previous = link.seen, !.saw = issue.comments]
      <3>1. pass' = [pass EXCEPT !["poll"] = q]
              /\ UNCHANGED <<now, issue, remarks, link, taken, passed, planner>>
        BY <3>0
      <3>2. /\ \A c \in issue.comments : c \in Nat /\ 1 < c /\ c <= now
            /\ \A r \in remarks : r \in Nat /\ r <= now
        BY <1>0 DEF Clock, TaskTypes, Issues
      <3>3. NewComment \in Nat /\ (NewComment = 0 /\ link.seen = 0 => issue.comments = {})
        <4> DEFINE S == {c \in issue.comments : c > link.seen}
        <4>1. S \subseteq 0 .. now
          BY <1>0, <3>2
        <4>2. NewComment = Newest(S)
          BY DEF NewComment
        <4>3. link.seen = 0 => S = issue.comments
          BY <3>2
        <4>4. Newest(S) \in Nat /\ (S # {} => Newest(S) \in S)
          <5> HIDE DEF S
          <5> QED BY <1>0, <4>1, NewestIsOne
        <4>5. ASSUME link.seen = 0, Newest(S) = 0 PROVE issue.comments = {}
          <5>1. 0 \notin issue.comments
            BY <3>2
          <5> QED BY <4>3, <4>4, <4>5, <5>1
        <4> QED BY <4>2, <4>4, <4>5
      <3>4. NewRemark \in Nat /\ Activity \in Nat
        <4> DEFINE S == {r \in remarks : r > Baseline}
        <4>1. S \subseteq 0 .. now /\ remarks \subseteq 0 .. now
          BY <1>0, <3>2
        <4>2. Newest(S) \in Nat /\ Newest(remarks) \in Nat
          <5> HIDE DEF S
          <5> QED BY <1>0, <4>1, NewestIsOne
        <4> QED BY <4>2 DEF NewRemark, Activity
      <3>6. /\ q \in Passes /\ q.at = "decide" /\ q.u = p.u /\ q.target = NewComment
            /\ q.previous = link.seen /\ q.saw = issue.comments
        <4> HIDE DEF p
        <4>1. /\ link.seen \in Nat /\ issue.comments \in SUBSET Nat /\ "decide" \in Places
          BY <1>0 DEF Links, Issues, Places
        <4>2. \A a, b, c, d : \A e \in BOOLEAN :
                 a \in Nat /\ b \in Nat /\ c \in Nat /\ d \in Nat =>
                 [p EXCEPT !.at = "decide", !.target = a, !.remark = b, !.latest = c,
                           !.returned = e, !.previous = d, !.saw = issue.comments] \in Passes
          BY <1>0, <4>1, ZenonT(40) DEF Passes
        <4>3. q \in Passes
          BY <3>3, <3>4, <4>1, <4>2
        <4>4. DOMAIN p = {"at", "u", "status", "target", "remark", "latest", "returned",
                          "previous", "saw"}
          BY <1>0 DEF Passes
        <4> QED BY <4>3, <4>4
      <3> HIDE DEF q
      <3>7. /\ pass' \in [Loops -> Passes] /\ pass'["poll"] = q
            /\ \A y \in Loops : y # "poll" => pass'[y] = pass[y]
        BY <1>0, <3>1, <3>6 DEF TaskTypes
      <3> QED BY <1>0, <3>1, <3>3, <3>6, <3>7, PassKeeps
    <2> QED BY <2>1, <2>2
  <1>5. ASSUME DecideComment PROVE TaskInv'
    <2>1. CASE Raises("poll")
      BY <1>0, <2>1, RaisesKeeps
    <2>2. CASE Goes("poll", "remark") /\ UNCHANGED <<now, issue, remarks, link, taken, passed, planner>>
      <3>1. p.at = "decide"
        BY <1>5 DEF DecideComment
      <3>2. /\ pass' \in [Loops -> Passes] /\ \A y \in Loops : y # "poll" => pass'[y] = pass[y]
            /\ pass'["poll"].at = "remark" /\ pass'["poll"].u = p.u /\ pass'["poll"].saw = p.saw
            /\ pass'["poll"].target = p.target /\ pass'["poll"].previous = p.previous
        BY <1>0, <2>2, GoesFacts DEF Places
      <3> HIDE DEF p
      <3> QED BY <1>0, <1>2, <1>3, <2>2, <3>1, <3>2, PassKeeps
    <2>3. CASE /\ ~Raises("poll")
               /\ ~(Goes("poll", "remark") /\ UNCHANGED <<now, issue, remarks, link, taken, passed, planner>>)
      <3>1. /\ p.at = "decide" /\ UNCHANGED <<now, issue, remarks, planner>>
            /\ link' = Upsert(link.phase, p.u, 0, FALSE)
            /\ Behind \subseteq Behind' /\ \A c \in p.saw : c <= p.u => c \in Behind'
            /\ pass' = [pass EXCEPT !["poll"].at = "remark", !["poll"].target = 0]
        BY <1>5, <2>3 DEF DecideComment
      <3>2. link' \in Links /\ link'.seen \in {p.u, link.seen}
        <4>1. link.phase \in Phases /\ now' \in Nat
          BY <1>0, <3>1 DEF Links
        <4> QED BY <1>0, <3>1, <4>1, UpsertFacts
      <3>3. /\ pass' \in [Loops -> Passes] /\ \A y \in Loops : y # "poll" => pass'[y] = pass[y]
            /\ pass'["poll"].at = "remark" /\ pass'["poll"].u = p.u /\ pass'["poll"].saw = p.saw
        <4>1. [p EXCEPT !.at = "remark", !.target = 0] \in Passes
          BY <1>0 DEF Passes, Places
        <4>2. pass' = [pass EXCEPT !["poll"] = [p EXCEPT !.at = "remark", !.target = 0]]
          BY <3>1
        <4> QED BY <1>0, <4>1, <4>2 DEF TaskTypes, Passes
      <3> HIDE DEF p
      <3>a. \A c \in p.saw \ Behind' : c > p.u
        <4>1. \A c \in p.saw : c \in Nat
          BY <1>0 DEF Passes
        <4> QED BY <1>0, <3>1, <4>1
      <3>4. link'.seen <= now /\ \A c \in issue.comments \ Behind' : c > link'.seen
        BY <1>0, <1>1, <1>2, <3>1, <3>2, <3>a
      <3>5. \A c \in pass'["poll"].saw \ Behind' : c > pass'["poll"].u
        BY <3>3, <3>a
      <3>6. issue' \in Issues /\ issue'.updated <= now' /\ issue'.comments = issue.comments
        BY <1>0, <3>1
      <3> QED BY <1>0, <1>2, <3>1, <3>2, <3>3, <3>4, <3>5, <3>6, WriteKeeps
    <2> QED BY <2>1, <2>2, <2>3
  <1>6. ASSUME DecideRemark PROVE TaskInv'
    <2>1. CASE Raises("poll")
      BY <1>0, <2>1, RaisesKeeps
    <2>2. CASE Goes("poll", "guard") /\ UNCHANGED <<now, issue, remarks, link, taken, passed, planner>>
      <3>1. p.at = "remark"
        BY <1>6 DEF DecideRemark
      <3>2. /\ pass' \in [Loops -> Passes] /\ \A y \in Loops : y # "poll" => pass'[y] = pass[y]
            /\ pass'["poll"].at = "guard" /\ pass'["poll"].u = p.u /\ pass'["poll"].saw = p.saw
            /\ pass'["poll"].target = p.target /\ pass'["poll"].previous = p.previous
        BY <1>0, <2>2, GoesFacts DEF Places
      <3> HIDE DEF p
      <3> QED BY <1>0, <1>2, <1>3, <2>2, <3>1, <3>2, PassKeeps
    <2>3. CASE /\ ~Raises("poll")
               /\ ~(Goes("poll", "guard") /\ UNCHANGED <<now, issue, remarks, link, taken, passed, planner>>)
      <3>1. /\ p.at = "remark" /\ UNCHANGED <<now, issue, remarks, planner, taken, passed>>
            /\ link' = Upsert(link.phase, 0, p.latest, FALSE)
            /\ pass' = [pass EXCEPT !["poll"].at = "guard", !["poll"].remark = 0]
        BY <1>6, <2>3 DEF DecideRemark
      <3>2. link' \in Links /\ link'.seen = link.seen
        <4>1. link.phase \in Phases /\ now' \in Nat /\ p.latest \in Nat
          BY <1>0, <3>1 DEF Links, Passes
        <4> QED BY <1>0, <3>1, <4>1, UpsertFacts
      <3>3. /\ pass' \in [Loops -> Passes] /\ \A y \in Loops : y # "poll" => pass'[y] = pass[y]
            /\ pass'["poll"].at = "guard" /\ pass'["poll"].u = p.u /\ pass'["poll"].saw = p.saw
            /\ pass'["poll"].target = p.target /\ pass'["poll"].previous = p.previous
        <4>1. [p EXCEPT !.at = "guard", !.remark = 0] \in Passes
          BY <1>0 DEF Passes, Places
        <4>2. pass' = [pass EXCEPT !["poll"] = [p EXCEPT !.at = "guard", !.remark = 0]]
          BY <3>1
        <4> QED BY <1>0, <4>1, <4>2 DEF TaskTypes, Passes
      <3> HIDE DEF p
      <3>4. issue' \in Issues /\ issue'.updated <= now' /\ issue'.comments = issue.comments
        BY <1>0, <3>1
      <3> QED BY <1>0, <1>1, <1>2, <1>3, <3>1, <3>2, <3>3, <3>4, WriteKeeps
    <2> QED BY <2>1, <2>2, <2>3
  <1> QED BY <1>4, <1>5, <1>6
LEMMA PollActs == TaskInv /\ (Guard \/ ScreenTask) => TaskInv'
  <1> SUFFICES ASSUME TaskInv, Guard \/ ScreenTask PROVE TaskInv'
    OBVIOUS
  <1> DEFINE p == pass["poll"]
  <1>0. /\ TaskTypes /\ Clock /\ planner \in Nat /\ issue \in Issues /\ link \in Links
        /\ now \in Nat /\ link.seen <= now /\ "poll" \in Loops /\ p \in Passes
        /\ p.u \in Nat /\ p.u <= now /\ issue.updated <= now
    BY DEF TaskInv, TaskTypes, Clock, Passes, Loops
  <1>1. \A c \in issue.comments \ Behind : c > link.seen
    BY DEF TaskInv, Ahead
  <1>2. CASE Guard
    <2>1. p.at = "guard" /\ UNCHANGED <<now, issue, remarks, planner, taken, passed>>
      BY <1>2 DEF Guard
    <2>2. CASE Goes("poll", "screen") /\ link' = link
      BY <1>0, <2>1, <2>2, GoesKeeps DEF Places
    <2>3. CASE Skips(p) /\ link' = link
      <3>1. Over("poll")
        BY <1>2, <2>3 DEF Guard
      <3> QED BY <1>0, <2>1, <2>3, <3>1, OverKeeps
    <2>4. CASE Skips(p) /\ link' # link
      <3>1. /\ Over("poll") /\ p.previous = 0 /\ p.target = 0
            /\ link' = Upsert("waiting", p.u, 0, FALSE)
        BY <1>2, <2>4 DEF Guard, Skips, Nothing
      <3>2. link' \in Links /\ link'.seen \in {p.u, link.seen}
        <4>1. now' \in Nat /\ "waiting" \in Phases
          BY <1>0, <2>1 DEF Phases
        <4> QED BY <1>0, <3>1, <4>1, UpsertFacts
      <3>3. \A c \in issue.comments \ Behind : c > p.u
        <4>1. \A c \in p.saw \ Behind : c > p.u
          BY <2>1, <3>1 DEF TaskInv, Settled
        <4>2. \A c \in issue.comments \ p.saw : c > p.u
          BY <1>0, <2>1 DEF TaskInv, Knows
        <4> QED BY <4>1, <4>2
      <3>4. link'.seen <= now /\ \A c \in issue.comments \ Behind' : c > link'.seen
        BY <1>0, <1>1, <2>1, <3>2, <3>3
      <3>5. /\ pass' \in [Loops -> Passes] /\ \A y \in Loops : y # "poll" => pass'[y] = pass[y]
            /\ pass'["poll"].at = "idle" /\ pass'["poll"].u <= now
        BY <1>0, <3>1, OverFacts
      <3>6. issue' \in Issues /\ issue'.updated <= now' /\ issue'.comments = issue.comments
        BY <1>0, <2>1
      <3> QED BY <1>0, <2>1, <3>2, <3>4, <3>5, <3>6, WriteKeeps
    <2>5. (Goes("poll", "screen") /\ link' = link) \/ Skips(p)
      BY <1>2 DEF Guard
    <2> QED BY <2>2, <2>3, <2>4, <2>5
  <1>3. CASE ScreenTask
    <2>1. CASE Suspects("poll") \/ Raises("poll")
      BY <1>0, <2>1, SuspectsKeeps, RaisesKeeps
    <2>2. CASE ~(Suspects("poll") \/ Raises("poll"))
      <3>1. UNCHANGED <<now, issue, remarks, link, taken, passed, planner>>
        BY <1>3, <2>2 DEF ScreenTask
      <3>2. Turn("poll", "start") \/ Turn("poll", "review")
        BY <1>3, <2>2 DEF ScreenTask
      <3> QED BY <1>0, <3>1, <3>2, TurnKeeps
    <2> QED BY <2>1, <2>2
  <1> QED BY <1>2, <1>3
------------------------------------------------------------------------------
LEMMA PeopleKeep == TaskInv /\ People => TaskInv'
  <1> SUFFICES ASSUME TaskInv, People PROVE TaskInv'
    OBVIOUS
  <1>0. /\ TaskTypes /\ Clock /\ issue \in Issues /\ now \in Nat /\ now >= 1
        /\ issue.comments \in SUBSET Nat /\ issue.updated <= now /\ link.seen <= now
        /\ \A c \in issue.comments \ Behind : c > link.seen
    BY DEF TaskInv, TaskTypes, Clock, Ahead, Issues
  <1>1. UNCHANGED <<planner, link, pass, taken, passed>>
    BY DEF People
  <1>2. /\ now' = now + 1 /\ issue' \in Issues /\ issue'.updated <= now'
        /\ issue'.comments \subseteq issue.comments \cup {now'}
        /\ remarks' \subseteq remarks \cup {now'}
    <2>1. ASSUME NEW new \in Issues, Edited(new), new.comments \subseteq issue.comments \cup {now + 1},
                 UNCHANGED remarks
          PROVE  /\ now' = now + 1 /\ issue' \in Issues /\ issue'.updated <= now'
                 /\ issue'.comments \subseteq issue.comments \cup {now'}
                 /\ remarks' \subseteq remarks \cup {now'}
      <3>1. /\ now' = now + 1 /\ issue' \in Issues
            /\ issue'.updated = now' /\ issue'.comments = new.comments
        BY <1>0, <2>1, EditedFacts
      <3>2. issue'.updated <= now'
        BY <1>0, <3>1
      <3> QED BY <2>1, <3>1, <3>2
    <2>2. CASE Comments
      <3> DEFINE new == [issue EXCEPT !.comments = issue.comments \cup {now + 1}]
      <3>1. new \in Issues /\ new.comments = issue.comments \cup {now + 1}
        BY <1>0 DEF Issues
      <3>2. Edited(new) /\ UNCHANGED remarks
        BY <2>2 DEF Comments
      <3> HIDE DEF new
      <3> QED BY <2>1, <3>1, <3>2
    <2>3. CASE Remarks
      <3>1. now' = now + 1 /\ remarks' = remarks \cup {now'} /\ issue' = issue
        BY <2>3 DEF Remarks
      <3>2. issue.updated \in Nat
        BY <1>0 DEF Issues
      <3>3. issue.updated <= now'
        BY <1>0, <3>1, <3>2
      <3> QED BY <1>0, <3>1, <3>3
    <2>4. CASE Moves
      <3>1. UNCHANGED remarks
        BY <2>4 DEF Moves
      <3>2. CASE \E s \in Statuses : Edited([issue EXCEPT !.status = s])
        <4>1. PICK s \in Statuses : Edited([issue EXCEPT !.status = s])
          BY <3>2
        <4> DEFINE new == [issue EXCEPT !.status = s]
        <4>2. new \in Issues /\ new.comments = issue.comments
          BY <1>0 DEF Issues
        <4>3. Edited(new)
          BY <4>1
        <4> HIDE DEF new
        <4> QED BY <2>1, <3>1, <4>2, <4>3
      <3>3. CASE Edited([issue EXCEPT !.mine = ~issue.mine])
        <4> DEFINE new == [issue EXCEPT !.mine = ~issue.mine]
        <4>1. new \in Issues /\ new.comments = issue.comments
          BY <1>0 DEF Issues
        <4>2. Edited(new)
          BY <3>3
        <4> HIDE DEF new
        <4> QED BY <2>1, <3>1, <4>1, <4>2
      <3> QED BY <2>4, <3>2, <3>3 DEF Moves, Statuses
    <2> QED BY <2>2, <2>3, <2>4 DEF People
  <1>4. planner' <= now' /\ planner' \in {planner, 0}
    BY <1>0, <1>1, <1>2 DEF Clock, TaskTypes
  <1>3. TaskTypes'
    <2>1. now' \in Nat /\ now' >= 1
      BY <1>0, <1>2
    <2>2. remarks' \in SUBSET Nat
      BY <1>0, <1>2, <2>1 DEF TaskTypes
    <2> QED BY <1>0, <1>1, <1>2, <2>1, <2>2 DEF TaskTypes
  <1> QED BY <1>0, <1>1, <1>2, <1>3, <1>4, StepKeeps

LEMMA PlannerEndKeeps == TaskInv /\ PlannerEnds => TaskInv'
  <1> SUFFICES ASSUME TaskInv, PlannerEnds PROVE TaskInv'
    OBVIOUS
  <1>0. TaskTypes /\ Clock /\ now \in Nat /\ now >= 1 /\ issue \in Issues /\ link.seen <= now
        /\ issue.updated <= now
    BY DEF TaskInv, TaskTypes, Clock
  <1>1. /\ planner' = now' /\ UNCHANGED <<remarks, link, pass>>
        /\ Behind \subseteq Behind' /\ issue.comments \subseteq Behind'
    BY DEF PlannerEnds
  <1>2. /\ now' \in {now, now + 1} /\ issue' \in Issues
        /\ issue'.updated <= now' /\ issue'.comments = issue.comments
    <2>1. CASE Sets("review")
      BY <1>0, <2>1, SetsFacts DEF Statuses
    <2>2. CASE UNCHANGED <<now, issue>>
      BY <1>0, <2>2
    <2> QED BY <2>1, <2>2 DEF PlannerEnds
  <1>3. TaskTypes'
    <2>1. now' \in Nat /\ now' >= 1
      BY <1>0, <1>2
    <2> QED BY <1>0, <1>1, <1>2, <2>1 DEF TaskTypes
  <1>4. planner' <= now'
    BY <1>1, <1>3 DEF TaskTypes
  <1> QED BY <1>0, <1>1, <1>2, <1>3, <1>4, StepKeeps

LEMMA CrashKeeps == TaskInv /\ Crash => TaskInv'
  <1> SUFFICES ASSUME TaskInv, Crash PROVE TaskInv'
    OBVIOUS
  <1>1. /\ pass' = [x \in Loops |-> Idle]
        /\ UNCHANGED <<now, issue, remarks, planner, link, taken, passed>>
    BY DEF Crash
  <1>2. TaskTypes'
    BY <1>1, IdleIsPass DEF TaskInv, TaskTypes
  <1>3. /\ now \in Nat /\ issue.updated <= now /\ link.seen <= now /\ planner <= now
        /\ \A c \in issue.comments \ Behind : c > link.seen
    BY DEF TaskInv, TaskTypes, Clock, Ahead
  <1>5. planner' <= now' /\ planner' \in {planner, 0}
    BY <1>1, <1>3
  <1>4. \A x \in Loops : pass'[x].at = "idle" /\ pass'[x].u <= now'
    BY <1>1, <1>3, IdleIsPass
  <1> QED BY <1>1, <1>2, <1>3, <1>4, <1>5, StepKeeps

LEMMA TaskInit == Init => TaskInv
  <1> SUFFICES ASSUME Init PROVE TaskInv
    OBVIOUS
  <1>1. issue \in Issues /\ issue.updated = 1 /\ issue.comments = {}
    <2> DEFINE Moved == Seq([at : Nat, from : Statuses, to : Statuses])
    <2>1. <<>> \in Moved
      OBVIOUS
    <2>2. ASSUME NEW status \in Statuses, NEW reserved \in BOOLEAN
          PROVE  [status |-> status, mine |-> TRUE, updated |-> 1, comments |-> {},
                  moves |-> <<>>, reserved |-> reserved] \in Issues
      <3> HIDE DEF Moved
      <3>1. Issues = [status : Statuses, mine : BOOLEAN, updated : Nat, comments : SUBSET Nat,
                      moves : Moved, reserved : BOOLEAN]
        BY DEF Issues, Moved
      <3> QED BY <2>1, <3>1
    <2>3. \E status \in Statuses, reserved \in BOOLEAN :
             issue = [status |-> status, mine |-> TRUE, updated |-> 1, comments |-> {},
                      moves |-> <<>>, reserved |-> reserved]
      BY DEF Init, Statuses
    <2> QED BY <2>2, <2>3
  <1>2. link \in Links /\ link.seen = 0
    BY DEF Init, NoLink, Links, Phases
  <1>3. pass \in [Loops -> Passes] /\ \A x \in Loops : pass[x].at = "idle" /\ pass[x].u = 0
    BY IdleIsPass DEF Init
  <1>4. now = 1 /\ remarks = {} /\ Behind = {} /\ planner = 0
    BY DEF Init
  <1> QED BY <1>1, <1>2, <1>3, <1>4
          DEF TaskInv, TaskTypes, Clock, Knows, Settled, Ahead, Loops

LEMMA TaskStep == TaskInv /\ [Next]_vars => TaskInv'
  <1> SUFFICES ASSUME TaskInv, [Next]_vars PROVE TaskInv'
    OBVIOUS
  <1>1. CASE Hourly
    BY <1>1, HourlySteps
  <1>2. CASE Polls
    BY <1>2, PollBegins, PollReads, PollActs DEF Polls
  <1>3. CASE Turns
    BY <1>3, TurnSteps DEF Turns
  <1>4. CASE People
    BY <1>4, PeopleKeep
  <1>5. CASE Crash
    BY <1>5, CrashKeeps
  <1>7. CASE PlannerEnds
    BY <1>7, PlannerEndKeeps
  <1>6. CASE Resume \/ Holds \/ UNCHANGED vars
    BY <1>6 DEF Resume, Holds, vars, TaskInv, TaskTypes, Clock, Knows, Settled, Ahead
  <1> QED BY <1>1, <1>2, <1>3, <1>4, <1>5, <1>6, <1>7 DEF Next

(* The cursor that is stored with a turn or a decision is the time of the       *)
(* snapshot before it, so no comment written meanwhile is behind it, whatever    *)
(* the interleaving of the two passes, of people and of losses of the process.   *)
(* The comments of the planner's review turn, and those older than an ignored    *)
(* one, are the exceptions, and the only ones.                                  *)
THEOREM CursorStaysBehind == Spec => []CommentsStayAhead
  <1>1. TaskInv => CommentsStayAhead
    BY DEF TaskInv, Ahead, CommentsStayAhead
  <1> QED BY <1>1, TaskInit, TaskStep, PTL DEF Spec
==============================================================================
