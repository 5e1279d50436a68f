--------------------------- MODULE HeadlessRunsProofs ---------------------------
(* What the headless runs promise for any number of losses of the process,       *)
(* stops and errors: nothing is handed over or published twice, and a recovery    *)
(* concludes what it recovered.                                                  *)
EXTENDS HeadlessRuns, TLAPS

AllStages == {"start", "prep", "review", "forecast", "format", "audit"}

StagesOf == [finalizer |-> {"start", "prep", "review"}, planner |-> {"start", "prep", "review"},
             digest |-> {"forecast", "format"}, audit |-> {"audit"}]

Statuses == {"running", "completed", "failed", "paused", "interrupted", "cancelled",
             "recovered", "abandoned", "deleted"}

Texts == {"none", "started", "forecasted", "failure", "noop", "prepared", "notice", "forecast",
          "digest", "report", "clean", "interim"}

Rows == [stage : AllStages, status : Statuses, text : Texts, marked : BOOLEAN, after : Nat,
         old : BOOLEAN]

Flows == [at : {"idle", "create", "turn", "next", "publish", "attach"},
          stage : AllStages \cup {"none"}, by : {"none", "schedule", "resume", "continue"},
          text : Texts, row : Nat, run : Nat]

Agendas == [list : Nat, queue : SUBSET Nat, got : SUBSET Nat, any : BOOLEAN, out : Nat]

RunTypes ==
    /\ chain \in {"finalizer", "planner", "digest", "audit"}
    /\ rows \in Seq(Rows)
    /\ \A r \in DOMAIN rows : rows[r].stage \in StagesOf[chain]
    /\ flow \in Flows
    /\ proc \in {"serving", "boot", "down"}
    /\ agenda \in Agendas
    /\ agenda.queue \cup agenda.got \subseteq DOMAIN rows
    /\ due \in BOOLEAN
    /\ posts \in [Posted -> Nat]
    /\ archived \in Nat
    /\ missed \in BOOLEAN

(* Where a flow may be, and what it and the agenda of the recovery then are.     *)
Control ==
    /\ flow.at = "idle" => flow = Idle
    /\ flow.at # "idle" => flow.stage \in StagesOf[chain] /\ flow.by # "none"
    /\ flow.by = "schedule" => proc = "serving"
    /\ flow.by = "resume" => proc = "boot" /\ flow.at = "turn" /\ agenda.list # 0
    /\ flow.by = "continue" => proc = "boot" /\ agenda.queue = {} /\ flow.run \in agenda.got
    /\ flow.at \in {"turn", "next"} => flow.row \in DOMAIN rows
    /\ proc # "boot" \/ agenda.list = 0 => agenda = NoAgenda
    /\ due => rows = <<>> /\ flow.at = "idle"

(* The rows that the recovery and the running turn have in hand.                 *)
InHand ==
    /\ \A r \in agenda.queue : rows[r].status \in Unfinished \cup {"deleted"}
    /\ \A r \in agenda.got : rows[r].status \in {"recovered", "deleted"}
    /\ agenda.queue \cap agenda.got = {}
    /\ flow.at = "turn" =>
          /\ flow.row \notin agenda.queue \cup agenda.got
          /\ rows[flow.row].stage = flow.stage
          /\ IF flow.by = "resume" THEN rows[flow.row].status \in Unfinished \cup {"deleted"}
                                   ELSE rows[flow.row].status = "running"

RunInv == RunTypes /\ Control /\ InHand

(* A recovered row is in the hands of the recovery, or on a list to come.        *)
Concluded ==
    chain # "digest" /\ proc # "down" =>
        \A r \in DOMAIN rows : rows[r].status = "recovered" =>
            \/ r \in agenda.queue \cup agenda.got
            \/ flow.by = "resume" /\ flow.row = r
            \/ proc = "boot" /\ \E i \in agenda.list + 1 .. Len(Lists[chain]) :
                                   Lists[chain][i] = Job[rows[r].stage]

Dead(r) == rows[r].status \in {"failed", "deleted"}
NoPreparation == \A r \in DOMAIN rows : rows[r].stage = "prep" => Dead(r)

(* The first of the preparations holds the start.                                *)
StartIsHeld == \E r \in DOMAIN rows : rows[r].stage = "prep" /\ rows[r].marked

FirstHolds ==
    chain = "finalizer" =>
        /\ \A r \in DOMAIN rows : rows[r].stage = "prep" => StartIsHeld
        /\ flow.at = "create" /\ flow.stage = "prep" => flow.text = "started" \/ StartIsHeld
        /\ flow.at = "next" /\ flow.stage = "prep" => StartIsHeld

(* A preparation is created only when there is none, or the one before failed.   *)
Preparations ==
    chain = "finalizer" /\ ~StartIsForgotten =>
        /\ \A p, q \in DOMAIN rows :
              rows[p].stage = "prep" /\ rows[q].stage = "prep" /\ p # q => Dead(p) \/ Dead(q)
        /\ flow.at = "create" /\ flow.stage = "prep" => NoPreparation
        /\ flow.at = "next" /\ flow.stage = "prep" /\ rows[flow.row].status = "failed"
              => NoPreparation
        /\ flow.by = "schedule" /\ flow.stage = "start" => \A r \in DOMAIN rows : rows[r].stage # "prep"

Notices ==
    chain = "finalizer" => /\ posts["notice"] <= 1 /\ posts["debt"] <= 1
                           /\ posts["debt"] > 0 => label

(* Only the digest's chain has the text of a digest, and posts one.              *)
DigestTexts ==
    chain # "digest" =>
        /\ posts["digest"] = 0
        /\ flow.text # "digest"
        /\ \A r \in DOMAIN rows : rows[r].text # "digest"

NoneUnfinished == \A r \in DOMAIN rows : rows[r].status \notin Unfinished
Formatting(r) == rows[r].stage = "format" /\ rows[r].status \in Unfinished
NoFormatter == \A r \in DOMAIN rows : ~Formatting(r)
Held == agenda.queue \cup agenda.got \cup (IF flow.by = "resume" THEN {flow.row} ELSE {})

(* One forecast and one formatter at a time, and after the post nothing is left  *)
(* that would make another.                                                      *)
OneOfEach ==
    /\ \A r \in DOMAIN rows : rows[r].after = 0
    /\ \A p, q \in DOMAIN rows : rows[p].stage = "forecast" /\ rows[q].stage = "forecast" => p = q
    /\ \A p, q \in DOMAIN rows : Formatting(p) /\ Formatting(q) => p = q

OneAtHand ==
    /\ flow.at = "create" /\ flow.stage = "forecast" => rows = <<>>
    /\ flow.at = "create" \/ flow.stage = "forecast" => NoFormatter
    /\ \A p, q \in Held : p = q
    /\ \A p \in Held : rows[p].stage = IF agenda.list = 1 THEN "format" ELSE "forecast"
    /\ agenda.list # 1 /\ flow.at = "idle" /\ Held # {} => NoFormatter
    /\ agenda.got # {} => agenda.any

OnePost ==
    /\ posts["digest"] <= 1 /\ archived <= posts["digest"]
    /\ posts["digest"] = 1 =>
          /\ ~due
          /\ flow.at \in {"idle", "attach"}
          /\ flow.at = "idle" => Held = {}
          /\ proc = "boot" => agenda.list = 2 \/ agenda.any \/ NoneUnfinished

OneDigest == chain = "digest" /\ ~missed => OneOfEach /\ OneAtHand /\ OnePost
--------------------------------------------------------------------------------
(* What a table of runs has become: no run is revived, and none changes its      *)
(* stage, its prompt or the posts it was created after.                          *)
Moved(table) ==
    /\ table \in Seq(Rows) /\ DOMAIN table = DOMAIN rows /\ Len(table) = Len(rows)
    /\ \A r \in DOMAIN rows :
          /\ table[r].stage = rows[r].stage /\ table[r].after = rows[r].after
          /\ table[r].marked = rows[r].marked
          /\ table[r].marked = rows[r].marked
          /\ \/ table[r].status = rows[r].status
             \/ table[r].status = "deleted"
             \/ rows[r].status \in Unfinished

LEMMA ClosedFacts ==
    ASSUME NEW table \in Seq(Rows), NEW r \in DOMAIN table, NEW status \in Statuses,
           NEW text \in Texts
    PROVE  /\ Closed(table, r, status, text) \in Seq(Rows)
           /\ DOMAIN Closed(table, r, status, text) = DOMAIN table
           /\ Len(Closed(table, r, status, text)) = Len(table)
           /\ \A q \in DOMAIN table : q # r => Closed(table, r, status, text)[q] = table[q]
           /\ Closed(table, r, status, text)[r].stage = table[r].stage
           /\ Closed(table, r, status, text)[r].after = table[r].after
           /\ Closed(table, r, status, text)[r].marked = table[r].marked
           /\ Closed(table, r, status, text)[r].status
                = IF table[r].status = "deleted" THEN "deleted" ELSE status
           /\ Closed(table, r, status, text)[r].text \in {text, table[r].text}
           /\ text = "none" => Closed(table, r, status, text)[r].text = table[r].text
  <1>1. table[r] \in Rows /\ table[r].text \in Texts
    <2>1. table[r] \in Rows
      OBVIOUS
    <2>2. \A row \in Rows : row.text \in Texts
      BY DEF Rows
    <2> QED BY <2>1, <2>2
  <1>2. CASE table[r].status = "deleted"
    BY <1>1, <1>2 DEF Closed
  <1>3. CASE table[r].status # "deleted"
    <2> DEFINE new == IF text = "none" THEN table[r].text ELSE text
               row == [table[r] EXCEPT !.status = status, !.text = new]
    <2>1. Closed(table, r, status, text) = [table EXCEPT ![r] = row]
      BY <1>1, <1>3 DEF Closed, Rows
    <2>2. new \in Texts /\ new \in {text, table[r].text}
      BY <1>1
    <2>3. /\ row \in Rows /\ row.stage = table[r].stage /\ row.after = table[r].after
          /\ row.marked = table[r].marked
          /\ row.status = status /\ row.text = new
      <3> HIDE DEF new
      <3>1. PICK old \in Rows : old = table[r]
        BY <1>1
      <3>2. row = [old EXCEPT !.status = status, !.text = new]
        BY <3>1
      <3> HIDE DEF row
      <3>3. row \in Rows
        BY <2>2, <3>2 DEF Rows
      <3>4. /\ row.stage = old.stage /\ row.after = old.after /\ row.marked = old.marked
            /\ row.status = status /\ row.text = new
        BY <3>2 DEF Rows
      <3> QED BY <3>1, <3>3, <3>4
    <2>4. text = "none" => new = table[r].text
      OBVIOUS
    <2> HIDE DEF new, row
    <2> QED BY <1>3, <2>1, <2>2, <2>3, <2>4
  <1> QED BY <1>2, <1>3
--------------------------------------------------------------------------------
(* The kinds of step there are: what a step of a chain does to its rows, its     *)
(* flow and the agenda, whatever the reason.                                     *)
Shut(table) ==
    \/ table = rows
    \/ /\ flow.at = "turn"
       /\ \E s \in {"failed", "paused", "running", "interrupted", "cancelled"} :
             table = Closed(rows, flow.row, s, "none")

SamePosts ==
    /\ posts' \in [Posted -> Nat]
    /\ posts'["digest"] = posts["digest"] /\ posts'["notice"] = posts["notice"]
    /\ posts'["debt"] = posts["debt"]

Frame == UNCHANGED <<due, archived, missed>>

Ends ==
    /\ flow.by \in {"schedule", "continue"} /\ flow' = Idle /\ proc' = proc
    /\ \E table : /\ Shut(table)
                  /\ \/ flow.by = "schedule" /\ rows' = table /\ agenda' = agenda
                     \/ /\ flow.by = "continue" /\ agenda' = NextGot
                        /\ \E s \in {"failed", "completed", "interrupted"} :
                              rows' = Closed(table, flow.run, s, "none")
    /\ SamePosts /\ Frame

Lost ==
    /\ flow' = Idle /\ proc' = "down" /\ agenda' = NoAgenda
    /\ Shut(rows')
    /\ SamePosts /\ Frame

FallsBack ==
    /\ flow.at = "turn" /\ flow.by # "resume" /\ flow.stage \in {"forecast", "format"}
    /\ flow' = IF flow.stage = "forecast" THEN NoForecast ELSE DraftAsItIs
    /\ Shut(rows')
    /\ UNCHANGED <<proc, agenda, posts>> /\ Frame

Hands ==
    /\ flow.at = "next"
    /\ \/ /\ chain = "finalizer" /\ rows[flow.row].status = "failed"
          /\ flow' = [flow EXCEPT !.at = "create"]
       \/ /\ flow.stage = "start" /\ flow.text = "started" /\ HandsOver
          /\ flow' = [flow EXCEPT !.at = "create", !.stage = "prep"]
       \/ flow.stage = "prep" /\ flow' = [flow EXCEPT !.at = "create", !.stage = "review"]
       \/ flow.stage = "forecast" /\ flow' = [flow EXCEPT !.at = "create", !.stage = "format"]
       \/ flow.stage # "forecast" /\ flow' = [flow EXCEPT !.at = "publish"]
    /\ UNCHANGED <<rows, proc, agenda, posts>> /\ Frame

Posts ==
    /\ flow.at = "publish"
    /\ \E place \in {"debt", flow.text} :
          /\ place = "debt" => label /\ flow.text = "notice"
          /\ ~Published(place)
          /\ Post(place)
    /\ flow' = [flow EXCEPT !.at = "attach"]
    /\ agenda' = [agenda EXCEPT !.out = IF flow.by = "continue" THEN @ + 1 ELSE @]
    /\ UNCHANGED <<rows, proc>> /\ Frame

Moves ==
    \/ Trigger \/ Create \/ TurnAnswers \/ FallsBack \/ Hands \/ Posts \/ Ends \/ Lost
    \/ Boot \/ NextList \/ TakeRow \/ Resumed \/ Continue \/ Close \/ Archive \/ Age

LEMMA PostsKept ==
    ASSUME RunTypes, \/ UNCHANGED posts
                     \/ posts' = [posts EXCEPT !["failure"] = posts["failure"] + 1]
    PROVE  SamePosts
  BY DEF RunTypes, SamePosts, Posted, Kinds

LEMMA EndedMoves ==
    ASSUME RunInv, NEW table, Shut(table), NEW status \in {"failed", "completed", "interrupted"},
           Ended(table, status), proc' = proc, SamePosts, Frame
    PROVE  Ends
  BY DEF Ended, Ends

LEMMA RefusedMoves ==
    ASSUME RunInv, NEW table, Shut(table), Refused(table), SamePosts, Frame
    PROVE  Ends
  BY EndedMoves DEF Refused

LEMMA BrokenMoves ==
    ASSUME RunInv, NEW table, Shut(table), Broken(table), SamePosts, Frame
    PROVE  Ends \/ Lost
  <1>1. CASE proc' = proc /\ (Ended(table, "failed") \/ Ended(table, "interrupted"))
    BY <1>1, EndedMoves
  <1>2. CASE rows' = table /\ Gone
    BY <1>2 DEF Gone, Lost
  <1> QED BY <1>1, <1>2 DEF Broken

LEMMA EveryMove == RunInv /\ Next => chain' = chain /\ Moves
  <1> SUFFICES ASSUME RunInv, Next PROVE chain' = chain /\ Moves
    OBVIOUS
  <1> USE DEF RunInv
  <1>0. RunTypes /\ Control
    OBVIOUS
  <1>1. Shut(rows)
    BY DEF Shut
  <1>2. CASE TurnFails
    <2>1. flow.at = "turn" /\ flow.by # "resume" /\ chain' = chain /\ Frame /\ posts' = posts
      BY <1>2 DEF TurnFails, Frame
    <2>2. PICK s \in {"failed", "paused", "running", "interrupted"} :
             Raised(Closed(rows, flow.row, s, "none"))
      BY <1>2 DEF TurnFails
    <2> DEFINE table == Closed(rows, flow.row, s, "none")
    <2>3. Shut(table)
      BY <2>1 DEF Shut
    <2>4. SamePosts
      BY <1>0, <2>1, PostsKept
    <2>5. Raised(table)
      BY <2>2
    <2> HIDE DEF table
    <2>6. CASE Broken(table)
      BY <2>1, <2>3, <2>4, <2>6, BrokenMoves DEF Moves
    <2>7. CASE ~Broken(table)
      BY <2>1, <2>3, <2>5, <2>7 DEF Moves, Raised, FallsBack
    <2> QED BY <2>6, <2>7
  <1>3. CASE TryAgain
    BY <1>3 DEF TryAgain, Moves, Hands, Frame
  <1>4. CASE AfterStart
    <2>1. flow.at = "next" /\ flow.stage = "start" /\ chain' = chain /\ Frame
      BY <1>4 DEF AfterStart, Frame
    <2>2. CASE Refused(rows) /\ (UNCHANGED posts \/ Post("failure"))
      BY <1>0, <1>1, <2>1, <2>2, PostsKept, RefusedMoves DEF Moves, Post
    <2>3. CASE Ended(rows, "completed") /\ UNCHANGED <<proc, posts>>
      BY <1>0, <1>1, <2>1, <2>3, PostsKept, EndedMoves DEF Moves
    <2>4. CASE flow.text = "started" /\ HandsOver /\ Step("prep")
      BY <2>1, <2>4 DEF Moves, Hands, Step
    <2>5. CASE flow' = [flow EXCEPT !.at = "publish"] /\ UNCHANGED <<rows, proc, agenda, posts>>
      BY <2>1, <2>5 DEF Moves, Hands
    <2> QED BY <1>4, <2>2, <2>3, <2>4, <2>5 DEF AfterStart
  <1>5. CASE AfterPrep
    <2>1. flow.at = "next" /\ flow.stage = "prep" /\ chain' = chain /\ Frame
      BY <1>5 DEF AfterPrep, Frame
    <2>2. CASE (Refused(rows) \/ Broken(rows)) /\ (UNCHANGED posts \/ Post("failure"))
      BY <1>0, <1>1, <2>1, <2>2, PostsKept, RefusedMoves, BrokenMoves DEF Moves, Post
    <2>3. CASE Ended(rows, "completed") /\ UNCHANGED <<proc, posts>>
      BY <1>0, <1>1, <2>1, <2>3, PostsKept, EndedMoves DEF Moves
    <2>4. CASE Step("review")
      BY <2>1, <2>4 DEF Moves, Hands, Step
    <2> QED BY <1>5, <2>2, <2>3, <2>4 DEF AfterPrep
  <1>6. CASE AfterTurn
    <2>1. flow.at = "next" /\ chain' = chain /\ Frame
      BY <1>6 DEF AfterTurn, Frame
    <2>2. CASE (Refused(rows) \/ Broken(rows)) /\ (UNCHANGED posts \/ Post("failure"))
      BY <1>0, <1>1, <2>1, <2>2, PostsKept, RefusedMoves, BrokenMoves DEF Moves, Post
    <2>3. CASE Ended(rows, "completed") /\ UNCHANGED <<proc, posts>>
      BY <1>0, <1>1, <2>1, <2>3, PostsKept, EndedMoves DEF Moves
    <2>4. CASE AfterForecast
      BY <2>1, <2>4 DEF Moves, Hands, Step, AfterForecast
    <2>5. CASE /\ flow.stage # "forecast"
               /\ flow' = [flow EXCEPT !.at = "publish"] /\ UNCHANGED <<rows, proc, agenda, posts>>
      BY <2>1, <2>5 DEF Moves, Hands
    <2> QED BY <1>6, <2>2, <2>3, <2>4, <2>5 DEF AfterTurn
  <1>7. CASE Publish
    <2>1. flow.at = "publish" /\ chain' = chain /\ Frame
      BY <1>7 DEF Publish, Frame
    <2>2. CASE Broken(rows) /\ UNCHANGED posts
      BY <1>0, <1>1, <2>1, <2>2, PostsKept, BrokenMoves DEF Moves
    <2>3. CASE Ended(rows, "completed") /\ UNCHANGED <<proc, posts>>
      BY <1>0, <1>1, <2>1, <2>3, PostsKept, EndedMoves DEF Moves
    <2>4. CASE \E place \in {"debt", flow.text} :
                  /\ place = "debt" => Routed
                  /\ ~Published(place)
                  /\ Post(place)
                  /\ flow' = [flow EXCEPT !.at = "attach"]
                  /\ agenda' = [agenda EXCEPT !.out = IF flow.by = "continue" THEN @ + 1 ELSE @]
                  /\ UNCHANGED <<rows, proc>>
      BY <2>1, <2>4 DEF Moves, Posts, Routed
    <2>5. PICK place \in {"debt", flow.text} :
             \/ /\ place = "debt" => Routed
                /\ \/ Ended(rows, "completed") /\ UNCHANGED <<proc, posts>>
                   \/ /\ ~Published(place)
                      /\ Post(place)
                      /\ flow' = [flow EXCEPT !.at = "attach"]
                      /\ agenda' = [agenda EXCEPT !.out = IF flow.by = "continue" THEN @ + 1 ELSE @]
                      /\ UNCHANGED <<rows, proc>>
             \/ Broken(rows) /\ UNCHANGED posts
      BY <1>7 DEF Publish
    <2> QED BY <2>2, <2>3, <2>4, <2>5
  <1>8. CASE Attach
    <2>1. Ended(rows, "completed") /\ UNCHANGED <<chain, proc, posts>> /\ Frame
      BY <1>8 DEF Attach, Frame
    <2> QED BY <1>0, <1>1, <2>1, PostsKept, EndedMoves DEF Moves
  <1>9. CASE ResumeBreaks \/ Crash
    <2>1. Gone /\ UNCHANGED <<chain, rows, posts>> /\ Frame
      BY <1>9 DEF ResumeBreaks, Crash, Frame
    <2> QED BY <1>0, <1>1, <2>1, PostsKept DEF Moves, Lost, Gone
  <1>10. CASE Stop
    <2>1. flow.at = "turn" /\ UNCHANGED <<chain, posts>> /\ Frame
      BY <1>10 DEF Stop, Frame
    <2>2. Shut(rows')
      BY <1>10, <2>1 DEF Stop, Shut
    <2>3. SamePosts
      BY <1>0, <2>1, PostsKept
    <2>4. CASE flow.by = "schedule"
      BY <1>10, <2>1, <2>2, <2>3, <2>4 DEF Stop, Moves, Ends
    <2>5. CASE flow.by # "schedule"
      BY <1>10, <2>1, <2>2, <2>3, <2>5 DEF Stop, Moves, Lost, Gone
    <2> QED BY <2>4, <2>5
  <1>11. CASE Shutdown
    <2>1. Gone /\ UNCHANGED <<chain, posts>> /\ Frame
      BY <1>11 DEF Shutdown, Frame
    <2>2. Shut(rows')
      BY <1>11 DEF Shutdown, Shut
    <2> QED BY <1>0, <2>1, <2>2, PostsKept DEF Moves, Lost, Gone
  <1>12. CASE \/ Trigger \/ Create \/ TurnAnswers \/ Boot \/ NextList \/ TakeRow \/ Resumed
              \/ Continue \/ Close \/ Archive \/ Age
    BY <1>12 DEF Moves, Trigger, Create, TurnAnswers, Boot, NextList, TakeRow, Resumed,
                 Continue, Close, Archive, Age
  <1> QED BY <1>2, <1>3, <1>4, <1>5, <1>6, <1>7, <1>8, <1>9, <1>10, <1>11, <1>12 DEF Next
--------------------------------------------------------------------------------
(* What the steps leave of the rows.                                             *)
LEMMA ShutFacts ==
    ASSUME RunInv, NEW table, Shut(table)
    PROVE  /\ Moved(table)
           /\ \A r \in DOMAIN rows : table[r] = rows[r] \/ (flow.at = "turn" /\ r = flow.row)
           /\ \A r \in DOMAIN rows : table[r].text = rows[r].text
           /\ \A r \in DOMAIN rows : table[r].status = "recovered" => rows[r].status = "recovered"
  <1>1. rows \in Seq(Rows)
    BY DEF RunInv, RunTypes
  <1>2. CASE table = rows
    BY <1>1, <1>2 DEF Moved
  <1>3. CASE table # rows
    <2>1. flow.at = "turn" /\ flow.row \in DOMAIN rows
      BY <1>3 DEF Shut, RunInv, Control
    <2>2. rows[flow.row].status \in Unfinished \cup {"deleted"}
      BY <2>1 DEF RunInv, InHand, Unfinished
    <2>3. PICK s \in {"failed", "paused", "running", "interrupted", "cancelled"} :
             table = Closed(rows, flow.row, s, "none")
      BY <1>3 DEF Shut
    <2>4. s \in Statuses /\ "none" \in Texts /\ s # "recovered"
      BY DEF Statuses, Texts
    <2>5. /\ table \in Seq(Rows) /\ DOMAIN table = DOMAIN rows /\ Len(table) = Len(rows)
          /\ \A q \in DOMAIN rows : q # flow.row => table[q] = rows[q]
          /\ table[flow.row].stage = rows[flow.row].stage
          /\ table[flow.row].after = rows[flow.row].after
          /\ table[flow.row].marked = rows[flow.row].marked
          /\ table[flow.row].text = rows[flow.row].text
          /\ table[flow.row].status = IF rows[flow.row].status = "deleted" THEN "deleted" ELSE s
      BY <1>1, <2>1, <2>3, <2>4, ClosedFacts
    <2> QED BY <2>1, <2>2, <2>4, <2>5 DEF Moved
  <1> QED BY <1>2, <1>3

LEMMA CreateRows ==
    ASSUME RunInv, Create, UNCHANGED chain
    PROVE  /\ rows' \in Seq(Rows) /\ Len(rows') = Len(rows) + 1
           /\ DOMAIN rows' = DOMAIN rows \cup {Len(rows) + 1} /\ Len(rows) + 1 \notin DOMAIN rows
           /\ \A r \in DOMAIN rows : rows'[r] = rows[r]
           /\ rows'[Len(rows) + 1].stage = flow.stage /\ rows'[Len(rows) + 1].status = "running"
           /\ rows'[Len(rows) + 1].text = "none" /\ rows'[Len(rows) + 1].after = posts["digest"]
           /\ rows'[Len(rows) + 1].marked = (flow.text = "started")
           /\ flow.stage \in StagesOf[chain] /\ flow.stage \in AllStages
  <1>1. rows \in Seq(Rows) /\ posts["digest"] \in Nat
    BY DEF RunInv, RunTypes, Posted, Kinds
  <1>2. flow.stage \in StagesOf[chain] /\ flow.stage \in AllStages
    BY DEF RunInv, RunTypes, Control, Create, Flows, StagesOf, AllStages
  <1> DEFINE row == [stage |-> flow.stage, status |-> "running", text |-> "none",
                     marked |-> flow.text = "started", after |-> posts["digest"], old |-> FALSE]
  <1>3. row \in Rows
    BY <1>1, <1>2 DEF Rows, Statuses, Texts
  <1>4. rows' = Append(rows, row)
    BY DEF Create
  <1>6. row.stage = flow.stage /\ row.status = "running" /\ row.text = "none"
          /\ row.after = posts["digest"] /\ row.marked = (flow.text = "started")
    OBVIOUS
  <1> HIDE DEF row
  <1>5. /\ rows' \in Seq(Rows) /\ Len(rows') = Len(rows) + 1
        /\ DOMAIN rows' = DOMAIN rows \cup {Len(rows) + 1} /\ Len(rows) + 1 \notin DOMAIN rows
        /\ \A r \in DOMAIN rows : rows'[r] = rows[r]
        /\ rows'[Len(rows) + 1] = row
    BY <1>1, <1>3, <1>4
  <1> QED BY <1>2, <1>5, <1>6

LEMMA AnsweredRows ==
    ASSUME RunInv, TurnAnswers
    PROVE  /\ Moved(rows') /\ flow.row \in DOMAIN rows
           /\ \A r \in DOMAIN rows : r # flow.row => rows'[r] = rows[r]
           /\ rows'[flow.row].status \in {"failed", "completed"}
           /\ \E t \in Answers(flow.stage) \cap Texts :
                /\ flow' = [flow EXCEPT !.at = "next", !.text = Terminal(t)]
                /\ rows'[flow.row].text \in {t, rows[flow.row].text}
           /\ \E text \in Texts : flow' = [flow EXCEPT !.at = "next", !.text = text]
  <1>1. flow.at = "turn" /\ flow.row \in DOMAIN rows /\ rows[flow.row].status = "running"
    BY DEF RunInv, Control, InHand, TurnAnswers
  <1>2. rows \in Seq(Rows) /\ flow.stage \in AllStages
    BY <1>1 DEF RunInv, RunTypes, Control, Flows, AllStages, StagesOf
  <1>3. PICK t \in Answers(flow.stage) :
           /\ rows' = Closed(rows, flow.row,
                             IF t = "failure" /\ chain = "finalizer" THEN "failed"
                                                                     ELSE "completed", t)
           /\ flow' = [flow EXCEPT !.at = "next", !.text = Terminal(t)]
    BY DEF TurnAnswers
  <1>4. t \in Texts
    BY <1>2, <1>3 DEF Answers, AllStages, Texts, StartAnswers, PrepAnswers, ReviewAnswers
  <1>5. PICK s \in {"failed", "completed"} : rows' = Closed(rows, flow.row, s, t)
    BY <1>3
  <1>6. s \in Statuses
    BY DEF Statuses
  <1>7. /\ rows' \in Seq(Rows) /\ DOMAIN rows' = DOMAIN rows /\ Len(rows') = Len(rows)
        /\ \A q \in DOMAIN rows : q # flow.row => rows'[q] = rows[q]
        /\ rows'[flow.row].stage = rows[flow.row].stage
        /\ rows'[flow.row].after = rows[flow.row].after
        /\ rows'[flow.row].marked = rows[flow.row].marked
        /\ rows'[flow.row].status = IF rows[flow.row].status = "deleted" THEN "deleted" ELSE s
        /\ rows'[flow.row].text \in {t, rows[flow.row].text}
    BY <1>1, <1>2, <1>4, <1>5, <1>6, ClosedFacts
  <1>8. Moved(rows')
    BY <1>1, <1>7 DEF Moved, Unfinished
  <1>9. Terminal(t) \in Texts
    BY <1>4 DEF Terminal, Texts
  <1> QED BY <1>1, <1>3, <1>4, <1>7, <1>8, <1>9

LEMMA ResumedRows ==
    ASSUME RunInv, Resumed
    PROVE  /\ Moved(rows') /\ flow.row \in DOMAIN rows
           /\ \A r \in DOMAIN rows : r # flow.row => rows'[r] = rows[r]
           /\ rows'[flow.row].text = "digest" =>
                 rows[flow.row].text = "digest" \/ flow.stage = "format"
           /\ \/ /\ rows'[flow.row].status \in {"recovered", "deleted"}
                 /\ agenda' = [agenda EXCEPT !.got = agenda.got \cup {flow.row}, !.any = TRUE]
              \/ /\ rows'[flow.row].status # "recovered"
                 /\ agenda' = agenda
  <1>1. flow.at = "turn" /\ flow.row \in DOMAIN rows
          /\ rows[flow.row].status \in Unfinished \cup {"deleted"}
    BY DEF RunInv, Control, InHand, Resumed
  <1>2. rows \in Seq(Rows) /\ flow.stage \in AllStages
    BY <1>1 DEF RunInv, RunTypes, Control, Flows, AllStages, StagesOf
  <1>3. PICK s \in {"recovered", "interrupted", "failed"},
             t \in Answers(flow.stage) \cup {"interim", "none"} :
           /\ rows' = Closed(rows, flow.row, s, t)
           /\ IF s = "recovered"
              THEN agenda' = [agenda EXCEPT !.got = agenda.got \cup {flow.row}, !.any = TRUE]
              ELSE agenda' = agenda
    BY DEF Resumed
  <1>4. t \in Texts /\ (t = "digest" => flow.stage = "format")
    BY <1>2, <1>3 DEF Answers, AllStages, Texts, StartAnswers, PrepAnswers, ReviewAnswers
  <1>5. s \in Statuses
    BY DEF Statuses
  <1>6. /\ rows' \in Seq(Rows) /\ DOMAIN rows' = DOMAIN rows /\ Len(rows') = Len(rows)
        /\ \A q \in DOMAIN rows : q # flow.row => rows'[q] = rows[q]
        /\ rows'[flow.row].stage = rows[flow.row].stage
        /\ rows'[flow.row].after = rows[flow.row].after
        /\ rows'[flow.row].marked = rows[flow.row].marked
        /\ rows'[flow.row].status = IF rows[flow.row].status = "deleted" THEN "deleted" ELSE s
        /\ rows'[flow.row].text \in {t, rows[flow.row].text}
    BY <1>1, <1>2, <1>3, <1>4, <1>5, ClosedFacts
  <1>7. Moved(rows')
    BY <1>1, <1>6 DEF Moved
  <1>8. \/ /\ rows'[flow.row].status \in {"recovered", "deleted"}
           /\ agenda' = [agenda EXCEPT !.got = agenda.got \cup {flow.row}, !.any = TRUE]
        \/ /\ rows'[flow.row].status # "recovered"
           /\ agenda' = agenda
    BY <1>3, <1>6
  <1> QED BY <1>1, <1>4, <1>6, <1>7, <1>8

(* The run that a flow continues is closed when the flow ends.                   *)
LEMMA EndsRows ==
    ASSUME RunInv, Ends
    PROVE  /\ Moved(rows')
           /\ \A r \in DOMAIN rows : \/ rows'[r] = rows[r]
                                     \/ flow.at = "turn" /\ r = flow.row
                                     \/ flow.by = "continue" /\ r = flow.run
           /\ \A r \in DOMAIN rows : rows'[r].text = rows[r].text
           /\ \A r \in DOMAIN rows : rows'[r].status = "recovered" => rows[r].status = "recovered"
           /\ flow.by = "schedule" => agenda' = agenda
           /\ flow.by = "continue" => /\ agenda' = NextGot
                                      /\ flow.run \in agenda.got
                                      /\ rows'[flow.run].status # "recovered"
  <1>1. PICK table : /\ Shut(table)
                     /\ \/ flow.by = "schedule" /\ rows' = table /\ agenda' = agenda
                        \/ /\ flow.by = "continue" /\ agenda' = NextGot
                           /\ \E s \in {"failed", "completed", "interrupted"} :
                                 rows' = Closed(table, flow.run, s, "none")
    BY DEF Ends
  <1>2. /\ Moved(table)
        /\ \A r \in DOMAIN rows : table[r] = rows[r] \/ (flow.at = "turn" /\ r = flow.row)
        /\ \A r \in DOMAIN rows : table[r].text = rows[r].text
        /\ \A r \in DOMAIN rows : table[r].status = "recovered" => rows[r].status = "recovered"
    BY <1>1, ShutFacts
  <1>3. CASE flow.by = "schedule"
    BY <1>1, <1>2, <1>3
  <1>4. CASE flow.by = "continue"
    <2>1. flow.run \in agenda.got /\ flow.run \in DOMAIN rows
      BY <1>4 DEF RunInv, RunTypes, Control
    <2>2. rows[flow.run].status \in {"recovered", "deleted"}
      BY <2>1 DEF RunInv, InHand
    <2>3. PICK s \in {"failed", "completed", "interrupted"} :
             rows' = Closed(table, flow.run, s, "none")
      BY <1>1, <1>4
    <2>4. s \in Statuses /\ "none" \in Texts /\ s # "recovered" /\ s # "deleted"
      BY DEF Statuses, Texts
    <2>5. table \in Seq(Rows) /\ DOMAIN table = DOMAIN rows /\ Len(table) = Len(rows)
      BY <1>2 DEF Moved
    <2>6. /\ rows' \in Seq(Rows) /\ DOMAIN rows' = DOMAIN table /\ Len(rows') = Len(table)
          /\ \A q \in DOMAIN table : q # flow.run => rows'[q] = table[q]
          /\ rows'[flow.run].stage = table[flow.run].stage
          /\ rows'[flow.run].after = table[flow.run].after
          /\ rows'[flow.run].marked = table[flow.run].marked
          /\ rows'[flow.run].text = table[flow.run].text
          /\ rows'[flow.run].status = IF table[flow.run].status = "deleted" THEN "deleted" ELSE s
      BY <2>1, <2>3, <2>4, <2>5, ClosedFacts
    <2>7. Moved(rows')
      BY <1>2, <2>1, <2>2, <2>5, <2>6 DEF Moved, Unfinished
    <2> QED BY <1>1, <1>2, <1>4, <2>1, <2>4, <2>5, <2>6, <2>7
  <1> QED BY <1>3, <1>4 DEF Ends

LEMMA TableFacts ==
    ASSUME RunInv, NEW table, table = [r \in DOMAIN rows |-> table[r]],
           \A r \in DOMAIN rows : table[r] \in Rows
    PROVE  table \in Seq(Rows) /\ DOMAIN table = DOMAIN rows /\ Len(table) = Len(rows)
  <1>1. rows \in Seq(Rows) /\ Len(rows) \in Nat /\ DOMAIN rows = 1 .. Len(rows)
    BY DEF RunInv, RunTypes
  <1>2. table = [r \in 1 .. Len(rows) |-> table[r]]
    BY <1>1
  <1>3. table \in [1 .. Len(rows) -> Rows]
    BY <1>1, <1>2
  <1>4. table \in Seq(Rows)
    BY <1>1, <1>3
  <1>5. DOMAIN table = 1 .. Len(rows) /\ DOMAIN table = 1 .. Len(table) /\ Len(table) \in Nat
    BY <1>3, <1>4
  <1> QED BY <1>1, <1>4, <1>5

LEMMA RowType == RunInv => \A r \in DOMAIN rows : rows[r] \in Rows
  <1>1. RunInv => rows \in Seq(Rows)
    BY DEF RunInv, RunTypes
  <1> QED BY <1>1

(* The rows that the start, a list, the administrator or the time change.        *)
LEMMA SweptRows ==
    ASSUME RunInv, Boot \/ NextList \/ Close \/ Age
    PROVE  /\ Moved(rows')
           /\ \A r \in DOMAIN rows :
                 /\ rows'[r].text = rows[r].text
                 /\ \/ rows'[r].status = rows[r].status
                    \/ /\ rows'[r].status = "deleted"
                       /\ ~(flow.at = "turn" /\ flow.row = r)
                    \/ /\ rows[r].status \in Unfinished /\ agenda'.queue = {} /\ agenda'.got = {}
                       /\ flow.at = "idle" /\ rows'[r].status \in {"abandoned", "completed"}
  <1>0. ASSUME NEW row \in Rows, NEW status \in Statuses, NEW new,
               new = [row EXCEPT !.status = status]
        PROVE  /\ new \in Rows /\ new.text = row.text /\ new.stage = row.stage
               /\ new.after = row.after /\ new.marked = row.marked /\ new.status = status
    BY <1>0 DEF Rows
  <1>1. ASSUME NEW row \in Rows, NEW new, new = [row EXCEPT !.old = TRUE]
        PROVE  /\ new \in Rows /\ new.text = row.text /\ new.stage = row.stage
               /\ new.after = row.after /\ new.marked = row.marked /\ new.status = row.status
    BY <1>1 DEF Rows
  <1>2. \A r \in DOMAIN rows : rows[r] \in Rows
    BY RowType
  <1>7. {"abandoned", "completed", "deleted"} \subseteq Statuses
    BY DEF Statuses
  <1>3. CASE Boot
    <2>1. rows' = GivenUp /\ flow = Idle /\ agenda' = NoAgenda
      <3>1. proc = "down" /\ agenda = NoAgenda /\ flow = Idle
        BY <1>3 DEF Boot, RunInv, RunTypes, Control, Flows
      <3> QED BY <1>3, <3>1 DEF Boot
    <2>2. \A r \in DOMAIN rows :
             \/ rows'[r] = rows[r]
             \/ rows[r].status \in Unfinished /\ rows'[r] = [rows[r] EXCEPT !.status = "abandoned"]
      BY <2>1 DEF GivenUp
    <2>6. ASSUME NEW r \in DOMAIN rows
          PROVE  /\ rows'[r] \in Rows
                 /\ rows'[r].text = rows[r].text /\ rows'[r].stage = rows[r].stage
                 /\ rows'[r].after = rows[r].after /\ rows'[r].marked = rows[r].marked
                 /\ \/ rows'[r].status = rows[r].status
                    \/ rows[r].status \in Unfinished /\ rows'[r].status = "abandoned"
      <3>1. CASE rows'[r] = rows[r]
        BY <1>2, <3>1
      <3>2. CASE rows'[r] = [rows[r] EXCEPT !.status = "abandoned"] /\ rows[r].status \in Unfinished
        BY <1>0, <1>2, <1>7, <3>2
      <3> QED BY <2>2, <3>1, <3>2
    <2>4. rows' = [r \in DOMAIN rows |-> rows'[r]]
      BY <2>1 DEF GivenUp
    <2>5. rows' \in Seq(Rows) /\ DOMAIN rows' = DOMAIN rows /\ Len(rows') = Len(rows)
      BY <2>6, <2>4, TableFacts
    <2> QED BY <2>1, <2>5, <2>6 DEF Moved, NoAgenda, Idle
  <1>4. CASE NextList
    <2>1. flow = Idle /\ (rows' = rows \/ (rows' = Upstream /\ agenda' = NoAgenda))
      BY <1>4 DEF NextList
    <2>2. CASE rows' = rows
      BY <2>2 DEF Moved, RunInv, RunTypes
    <2>3. CASE rows' = Upstream /\ agenda' = NoAgenda
      <3>2. \A r \in DOMAIN rows :
               \/ rows'[r] = rows[r]
               \/ rows[r].status = "recovered" /\ rows'[r] = [rows[r] EXCEPT !.status = "completed"]
        BY <2>3 DEF Upstream
      <3>6. ASSUME NEW r \in DOMAIN rows
            PROVE  /\ rows'[r] \in Rows
                   /\ rows'[r].text = rows[r].text /\ rows'[r].stage = rows[r].stage
                   /\ rows'[r].after = rows[r].after /\ rows'[r].marked = rows[r].marked
                   /\ \/ rows'[r].status = rows[r].status
                      \/ rows[r].status \in Unfinished /\ rows'[r].status = "completed"
        <4>1. CASE rows'[r] = rows[r]
          BY <1>2, <4>1
        <4>2. CASE /\ rows'[r] = [rows[r] EXCEPT !.status = "completed"]
                   /\ rows[r].status = "recovered"
          BY <1>0, <1>2, <1>7, <4>2 DEF Unfinished
        <4> QED BY <3>2, <4>1, <4>2
      <3>4. rows' = [r \in DOMAIN rows |-> rows'[r]]
        BY <2>3 DEF Upstream
      <3>5. rows' \in Seq(Rows) /\ DOMAIN rows' = DOMAIN rows /\ Len(rows') = Len(rows)
        BY <3>6, <3>4, TableFacts
      <3> QED BY <2>1, <2>3, <3>5, <3>6 DEF Moved, NoAgenda, Idle
    <2> QED BY <2>1, <2>2, <2>3
  <1>5. CASE Close
    <2>1. PICK q \in DOMAIN rows :
             /\ ~(flow.at = "turn" /\ flow.row = q)
             /\ rows' = [rows EXCEPT ![q].status = "deleted"]
      BY <1>5 DEF Close
    <2>2. \A r \in DOMAIN rows :
             \/ rows'[r] = rows[r]
             \/ r = q /\ rows'[r] = [rows[r] EXCEPT !.status = "deleted"]
      BY <2>1
    <2>6. ASSUME NEW r \in DOMAIN rows
          PROVE  /\ rows'[r] \in Rows
                 /\ rows'[r].text = rows[r].text /\ rows'[r].stage = rows[r].stage
                 /\ rows'[r].after = rows[r].after /\ rows'[r].marked = rows[r].marked
                 /\ rows'[r].status = rows[r].status \/ (r = q /\ rows'[r].status = "deleted")
      <3>1. CASE rows'[r] = rows[r]
        BY <1>2, <3>1
      <3>2. CASE r = q /\ rows'[r] = [rows[r] EXCEPT !.status = "deleted"]
        BY <1>0, <1>2, <1>7, <3>2
      <3> QED BY <2>2, <3>1, <3>2
    <2>4. rows' = [r \in DOMAIN rows |-> rows'[r]]
      BY <2>1 DEF RunInv, RunTypes
    <2>5. rows' \in Seq(Rows) /\ DOMAIN rows' = DOMAIN rows /\ Len(rows') = Len(rows)
      BY <2>6, <2>4, TableFacts
    <2> QED BY <2>1, <2>5, <2>6 DEF Moved
  <1>6. CASE Age
    <2>1. rows' = [r \in DOMAIN rows |-> [rows[r] EXCEPT !.old = TRUE]]
      BY <1>6 DEF Age
    <2>6. ASSUME NEW r \in DOMAIN rows
          PROVE  /\ rows'[r] \in Rows
                 /\ rows'[r].text = rows[r].text /\ rows'[r].stage = rows[r].stage
                 /\ rows'[r].after = rows[r].after
                 /\ rows'[r].marked = rows[r].marked /\ rows'[r].status = rows[r].status
      <3>1. rows'[r] = [rows[r] EXCEPT !.old = TRUE]
        BY <2>1
      <3> QED BY <1>1, <1>2, <3>1
    <2>4. rows' = [r \in DOMAIN rows |-> rows'[r]]
      BY <2>1
    <2>5. rows' \in Seq(Rows) /\ DOMAIN rows' = DOMAIN rows /\ Len(rows') = Len(rows)
      BY <2>6, <2>4, TableFacts
    <2> QED BY <2>5, <2>6 DEF Moved
  <1> QED BY <1>3, <1>4, <1>5, <1>6

(* No step but the creation of a run makes a run, and none revives one.          *)
LEMMA RowsMove == ASSUME RunInv, Moves, ~Create PROVE Moved(rows')
  <1>1. RunInv /\ UNCHANGED rows => Moved(rows')
    BY DEF RunInv, RunTypes, Moved
  <1>2. CASE Trigger \/ Hands \/ Posts \/ TakeRow \/ Continue \/ Archive
    BY <1>1, <1>2 DEF Trigger, Hands, Posts, TakeRow, Continue, Archive
  <1>3. CASE FallsBack \/ Lost
    BY <1>3, ShutFacts DEF FallsBack, Lost
  <1>4. CASE Boot \/ NextList \/ Close \/ Age
    BY <1>4, SweptRows
  <1> QED BY <1>2, <1>3, <1>4, AnsweredRows, ResumedRows, EndsRows DEF Moves
--------------------------------------------------------------------------------
(* RunInv is kept by every move.                                                 *)
LEMMA Constants ==
    /\ Idle \in Flows /\ Idle.at = "idle" /\ Idle.by = "none" /\ Idle.text = "none"
    /\ Idle.stage = "none" /\ NoAgenda \in Agendas
    /\ NoAgenda.queue = {} /\ NoAgenda.got = {} /\ NoAgenda.list = 0 /\ ~NoAgenda.any
  BY DEF Idle, Flows, Texts, NoAgenda, Agendas

LEMMA FlowFacts ==
    ASSUME flow \in Flows, NEW at \in {"idle", "create", "turn", "next", "publish", "attach"},
           NEW stage \in AllStages, NEW text \in Texts,
           flow' = [flow EXCEPT !.at = at, !.stage = stage, !.text = text]
    PROVE  /\ flow' \in Flows
           /\ flow'.at = at /\ flow'.stage = stage /\ flow'.text = text
           /\ flow'.by = flow.by /\ flow'.row = flow.row /\ flow'.run = flow.run
  <1>1. flow' \in Flows
    BY DEF Flows
  <1>2. /\ flow'.at = at /\ flow'.stage = stage /\ flow'.text = text
        /\ flow'.by = flow.by /\ flow'.row = flow.row /\ flow'.run = flow.run
    BY DEF Flows
  <1> QED BY <1>1, <1>2

LEMMA TypesKept ==
    ASSUME RunInv, Moved(rows'), chain' = chain, flow' \in Flows, agenda' \in Agendas,
           agenda'.queue \cup agenda'.got \subseteq DOMAIN rows,
           proc' \in {"serving", "boot", "down"}, due' \in BOOLEAN,
           posts' \in [Posted -> Nat], archived' \in Nat, missed' \in BOOLEAN
    PROVE  RunTypes'
  BY DEF RunInv, RunTypes, Moved

(* A post counts for its kind only.                                              *)
LEMMA PostFacts ==
    ASSUME RunInv, Posts
    PROVE  /\ posts' \in [Posted -> Nat]
           /\ posts'["digest"] = IF flow.text = "digest" THEN posts["digest"] + 1
                                                         ELSE posts["digest"]
           /\ posts'["notice"] = posts["notice"]
                 \/ /\ flow.text = "notice" /\ ~Published("notice")
                    /\ posts'["notice"] = posts["notice"] + 1
           /\ posts'["debt"] = posts["debt"]
                 \/ /\ label /\ flow.text = "notice" /\ ~Published("debt")
                    /\ posts'["debt"] = posts["debt"] + 1
  <1>1. PICK place \in {"debt", flow.text} :
           /\ place = "debt" => label /\ flow.text = "notice"
           /\ ~Published(place)
           /\ posts' = [posts EXCEPT ![place] = posts[place] + 1]
    BY DEF Posts, Post
  <1>2. posts \in [Posted -> Nat] /\ flow.text # "debt"
    BY DEF RunInv, RunTypes, Flows, Texts
  <1>3. posts' \in [Posted -> Nat]
    <2>1. CASE place \in Posted
      BY <1>1, <1>2, <2>1
    <2>2. CASE place \notin Posted
      BY <1>1, <1>2, <2>2
    <2> QED BY <2>1, <2>2
  <1>4. \A k \in Posted : posts'[k] = IF k = place THEN posts[k] + 1 ELSE posts[k]
    BY <1>1, <1>2
  <1>5. {"digest", "notice", "debt"} \subseteq Posted
    BY DEF Posted, Kinds
  <1> QED BY <1>1, <1>2, <1>3, <1>4, <1>5

(* The flow goes on with the turn's row closed or not, and the agenda as it was. *)
LEMMA OnwardKeeps ==
    ASSUME RunInv, chain' = chain, Moved(rows'), proc' = proc, Frame,
           posts' \in [Posted -> Nat], flow' \in Flows, agenda' \in Agendas,
           agenda'.queue = agenda.queue, agenda'.got = agenda.got, agenda'.list = agenda.list,
           agenda.list = 0 => agenda' = agenda,
           flow.at # "idle", flow.by # "resume",
           flow'.at \in {"create", "next", "publish", "attach"},
           flow'.by = flow.by, flow'.row = flow.row, flow'.run = flow.run,
           flow'.stage \in StagesOf[chain],
           flow'.at = "next" => flow.at = "turn",
           \A r \in DOMAIN rows : rows'[r] = rows[r] \/ (flow.at = "turn" /\ r = flow.row)
    PROVE  RunInv'
  <1>1. RunTypes'
    BY TypesKept DEF RunInv, RunTypes, Frame
  <1>2. Control'
    <2>1. DOMAIN rows' = DOMAIN rows
      BY DEF Moved
    <2>2. proc # "boot" \/ agenda.list = 0 => agenda' = NoAgenda
      BY Constants DEF RunInv, Control
    <2>3. ~due' /\ proc' = proc
      BY DEF RunInv, Control, Frame
    <2>4. flow'.at # "idle" /\ flow'.by # "none" /\ flow'.by # "resume" /\ flow'.stage \in StagesOf[chain']
      BY DEF RunInv, Control
    <2>5. flow'.at \in {"turn", "next"} => flow'.row \in DOMAIN rows'
      BY <2>1 DEF RunInv, Control
    <2>6. flow'.by = "schedule" => proc = "serving"
      BY DEF RunInv, Control
    <2>7. flow'.by = "continue" => proc = "boot" /\ agenda'.queue = {} /\ flow'.run \in agenda'.got
      BY DEF RunInv, Control
    <2>8. proc' # "boot" \/ agenda'.list = 0 => agenda' = NoAgenda
      BY <2>2, <2>3
    <2> QED BY ONLY <2>3, <2>4, <2>5, <2>6, <2>7, <2>8 DEF Control
  <1>3. InHand'
    <2>1. \A r \in agenda.queue \cup agenda.got : rows'[r] = rows[r]
      BY DEF RunInv, RunTypes, InHand
    <2> QED BY <2>1 DEF RunInv, InHand
  <1> QED BY <1>1, <1>2, <1>3 DEF RunInv

(* The flow is over or lost.                                                     *)
LEMMA IdleKeeps ==
    ASSUME RunInv, chain' = chain, Moved(rows'), Frame, posts' \in [Posted -> Nat],
           flow' = Idle, agenda' \in Agendas,
           agenda'.queue \subseteq agenda.queue, agenda'.got \subseteq agenda.got,
           \/ proc' = proc /\ (proc # "boot" \/ agenda'.list = 0 => agenda' = NoAgenda)
           \/ proc' = "down" /\ agenda' = NoAgenda,
           \A r \in DOMAIN rows :
              \/ rows'[r] = rows[r]
              \/ flow.at = "turn" /\ r = flow.row
              \/ flow.by = "continue" /\ r = flow.run /\ flow.run \notin agenda'.got
    PROVE  RunInv'
  <1>0. Idle \in Flows /\ Idle.at = "idle" /\ Idle.by = "none"
    BY Constants
  <1>1. RunTypes'
    BY <1>0, TypesKept DEF RunInv, RunTypes, Frame
  <1>2. Control'
    BY <1>0 DEF RunInv, Control, Frame, Moved
  <1>3. InHand'
    BY <1>0 DEF RunInv, RunTypes, Control, InHand
  <1> QED BY <1>1, <1>2, <1>3 DEF RunInv

LEMMA EndsKeeps == RunInv /\ chain' = chain /\ Ends => RunInv'
  <1> SUFFICES ASSUME RunInv, chain' = chain, Ends PROVE RunInv'
    OBVIOUS
  <1>1. flow' = Idle /\ proc' = proc /\ posts' \in [Posted -> Nat] /\ Frame
          /\ flow.by \in {"schedule", "continue"}
    BY DEF Ends, SamePosts
  <1>2. CASE flow.by = "schedule"
    <2>1. agenda' = agenda /\ Moved(rows')
            /\ \A r \in DOMAIN rows : rows'[r] = rows[r] \/ (flow.at = "turn" /\ r = flow.row)
      BY <1>2, EndsRows
    <2>2. agenda \in Agendas /\ (proc # "boot" \/ agenda.list = 0 => agenda = NoAgenda)
      BY DEF RunInv, RunTypes, Control
    <2> QED BY <1>1, <2>1, <2>2, IdleKeeps
  <1>3. CASE flow.by = "continue"
    <2>1. /\ agenda' = NextGot /\ flow.run \in agenda.got /\ Moved(rows')
          /\ \A r \in DOMAIN rows : \/ rows'[r] = rows[r]
                                    \/ flow.at = "turn" /\ r = flow.row
                                    \/ flow.by = "continue" /\ r = flow.run
      BY <1>3, EndsRows
    <2>2. /\ agenda' \in Agendas /\ agenda'.queue = agenda.queue
          /\ agenda'.got = agenda.got \ {flow.run} /\ agenda'.list = agenda.list
      BY <2>1 DEF RunInv, RunTypes, NextGot, Agendas
    <2>3. proc = "boot" /\ agenda.list # 0
      <3>1. agenda # NoAgenda
        BY <2>1, Constants
      <3> QED BY <3>1 DEF RunInv, Control
    <2> QED BY <1>1, <2>1, <2>2, <2>3, IdleKeeps
  <1> QED BY <1>1, <1>2, <1>3

LEMMA LostKeeps == RunInv /\ chain' = chain /\ Lost => RunInv'
  <1> SUFFICES ASSUME RunInv, chain' = chain, Lost PROVE RunInv'
    OBVIOUS
  <1>1. Moved(rows') /\ \A r \in DOMAIN rows : rows'[r] = rows[r] \/ (flow.at = "turn" /\ r = flow.row)
    BY ShutFacts DEF Lost
  <1>2. /\ flow' = Idle /\ proc' = "down" /\ agenda' = NoAgenda /\ Frame
        /\ posts' \in [Posted -> Nat]
    BY DEF Lost, SamePosts
  <1> QED BY <1>1, <1>2, Constants, IdleKeeps

LEMMA ChainKeeps ==
    RunInv /\ chain' = chain /\ (TurnAnswers \/ FallsBack \/ Hands \/ Posts) => RunInv'
  <1> SUFFICES ASSUME RunInv, chain' = chain, TurnAnswers \/ FallsBack \/ Hands \/ Posts
               PROVE  RunInv'
    OBVIOUS
  <1>0. /\ flow \in Flows /\ agenda \in Agendas /\ rows \in Seq(Rows) /\ posts \in [Posted -> Nat]
        /\ chain \in {"finalizer", "planner", "digest", "audit"}
        /\ flow.at # "idle" => /\ flow.stage \in StagesOf[chain]
                               /\ flow.by = "resume" => flow.at = "turn"
    BY DEF RunInv, RunTypes, Control
  <1>1. \A st \in StagesOf[chain] : st \in AllStages
    BY <1>0 DEF StagesOf, AllStages
  <1>2. flow.text \in Texts
    BY <1>0 DEF Flows
  <1>3. CASE TurnAnswers
    <2>1. PICK t \in Texts : flow' = [flow EXCEPT !.at = "next", !.text = t]
      BY <1>3, AnsweredRows
    <2>2. flow.at = "turn" /\ flow.by # "resume" /\ UNCHANGED <<proc, agenda, posts>> /\ Frame
      BY <1>3 DEF TurnAnswers, Frame
    <2>3. flow' = [flow EXCEPT !.at = "next", !.stage = flow.stage, !.text = t]
      BY <1>0, <2>1 DEF Flows
    <2>4. /\ flow' \in Flows /\ flow'.at = "next" /\ flow'.stage = flow.stage
          /\ flow'.by = flow.by /\ flow'.row = flow.row /\ flow'.run = flow.run
      BY <1>0, <1>1, <2>2, <2>3, FlowFacts
    <2>5. Moved(rows') /\ \A r \in DOMAIN rows : rows'[r] = rows[r] \/ r = flow.row
      BY <1>3, AnsweredRows
    <2> QED BY <1>0, <2>2, <2>4, <2>5, OnwardKeeps
  <1>4. CASE FallsBack
    <2>1. /\ flow.at = "turn" /\ flow.by # "resume" /\ flow.stage \in {"forecast", "format"}
          /\ UNCHANGED <<proc, agenda, posts>> /\ Frame
      BY <1>4 DEF FallsBack
    <2>2. \E at \in {"create", "publish"}, t \in Texts :
             flow' = [flow EXCEPT !.at = at, !.stage = "format", !.text = t]
      <3>1. CASE flow.stage = "forecast"
        <4>1. flow' = [flow EXCEPT !.at = "create", !.stage = "format", !.text = flow.text]
          BY <1>0, <1>4, <3>1 DEF FallsBack, NoForecast, Flows
        <4> QED BY <1>2, <4>1
      <3>2. CASE flow.stage = "format"
        <4>1. flow' = [flow EXCEPT !.at = "publish", !.stage = "format", !.text = "digest"]
          BY <1>0, <1>4, <3>2 DEF FallsBack, DraftAsItIs, Flows
        <4> QED BY <4>1 DEF Texts
      <3> QED BY <2>1, <3>1, <3>2
    <2>3. "format" \in StagesOf[chain]
      BY <1>0, <2>1 DEF StagesOf
    <2>4. /\ flow' \in Flows /\ flow'.at \in {"create", "publish"} /\ flow'.stage = "format"
          /\ flow'.by = flow.by /\ flow'.row = flow.row /\ flow'.run = flow.run
      <3>1. PICK at \in {"create", "publish"}, t \in Texts :
               flow' = [flow EXCEPT !.at = at, !.stage = "format", !.text = t]
        BY <2>2
      <3>2. "format" \in AllStages
        BY DEF AllStages
      <3> QED BY <1>0, <3>1, <3>2, FlowFacts
    <2>5. Moved(rows') /\ \A r \in DOMAIN rows : rows'[r] = rows[r] \/ r = flow.row
      BY <1>4, ShutFacts DEF FallsBack
    <2> QED BY <1>0, <2>1, <2>3, <2>4, <2>5, OnwardKeeps
  <1>5. CASE Hands
    <2>1. /\ flow.at = "next" /\ UNCHANGED <<rows, proc, agenda, posts>> /\ Frame
      BY <1>5 DEF Hands
    <2>2. \E at \in {"create", "publish"}, stage \in StagesOf[chain] :
             flow' = [flow EXCEPT !.at = at, !.stage = stage, !.text = flow.text]
      <3>1. flow.stage = "start" => "prep" \in StagesOf[chain]
        BY <1>0, <2>1 DEF StagesOf
      <3>2. flow.stage = "prep" => "review" \in StagesOf[chain]
        BY <1>0, <2>1 DEF StagesOf
      <3>3. flow.stage = "forecast" => "format" \in StagesOf[chain]
        BY <1>0, <2>1 DEF StagesOf
      <3>4. \A at \in {"create", "publish"} :
               flow' = [flow EXCEPT !.at = at] =>
               flow' = [flow EXCEPT !.at = at, !.stage = flow.stage, !.text = flow.text]
        BY <1>0 DEF Flows
      <3>5. \A stage \in AllStages :
               flow' = [flow EXCEPT !.at = "create", !.stage = stage] =>
               flow' = [flow EXCEPT !.at = "create", !.stage = stage, !.text = flow.text]
        BY <1>0 DEF Flows
      <3>6. flow.stage \in StagesOf[chain]
        BY <1>0, <2>1
      <3>7. CASE flow' = [flow EXCEPT !.at = "create"] \/ flow' = [flow EXCEPT !.at = "publish"]
        BY <3>4, <3>6, <3>7
      <3>8. CASE \E stage \in StagesOf[chain] : flow' = [flow EXCEPT !.at = "create", !.stage = stage]
        BY <1>1, <3>5, <3>8
      <3> QED BY <1>5, <3>1, <3>2, <3>3, <3>7, <3>8 DEF Hands
    <2>3. /\ flow' \in Flows /\ flow'.at \in {"create", "publish"} /\ flow'.stage \in StagesOf[chain]
          /\ flow'.by = flow.by /\ flow'.row = flow.row /\ flow'.run = flow.run
      <3>1. PICK at \in {"create", "publish"}, stage \in StagesOf[chain] :
               flow' = [flow EXCEPT !.at = at, !.stage = stage, !.text = flow.text]
        BY <2>2
      <3>2. stage \in AllStages
        BY <1>1
      <3> QED BY <1>0, <1>2, <3>1, <3>2, FlowFacts, ZenonT(40)
    <2>4. Moved(rows') /\ \A r \in DOMAIN rows : rows'[r] = rows[r]
      BY <1>0, <2>1 DEF Moved
    <2> QED BY <1>0, <2>1, <2>3, <2>4, OnwardKeeps
  <1>6. CASE Posts
    <2>1. /\ flow.at = "publish" /\ UNCHANGED <<rows, proc>> /\ Frame
          /\ flow' = [flow EXCEPT !.at = "attach"]
      BY <1>6 DEF Posts
    <2>2. flow' = [flow EXCEPT !.at = "attach", !.stage = flow.stage, !.text = flow.text]
      BY <1>0, <2>1 DEF Flows
    <2>3. /\ flow' \in Flows /\ flow'.at = "attach" /\ flow'.stage = flow.stage
          /\ flow'.by = flow.by /\ flow'.row = flow.row /\ flow'.run = flow.run
      BY <1>0, <1>1, <1>2, <2>1, <2>2, FlowFacts, ZenonT(40)
    <2>4. posts' \in [Posted -> Nat]
      BY <1>6, PostFacts
    <2>5. /\ agenda' \in Agendas /\ agenda'.queue = agenda.queue /\ agenda'.got = agenda.got
          /\ agenda'.list = agenda.list
      <3>1. agenda.out \in Nat
        BY <1>0 DEF Agendas
      <3>3. agenda' = [agenda EXCEPT !.out = IF flow.by = "continue" THEN agenda.out + 1
                                                                     ELSE agenda.out]
        BY <1>6 DEF Posts
      <3>2. PICK out \in Nat : agenda' = [agenda EXCEPT !.out = out]
        BY <3>1, <3>3
      <3> QED BY <1>0, <3>2 DEF Agendas
    <2>6. agenda.list = 0 => agenda' = agenda
      <3>1. agenda.list = 0 => flow.by # "continue"
        BY Constants DEF RunInv, Control
      <3> QED BY <1>0, <1>6, <3>1 DEF Posts, Agendas
    <2>7. Moved(rows') /\ \A r \in DOMAIN rows : rows'[r] = rows[r]
      BY <1>0, <2>1 DEF Moved
    <2> QED BY <1>0, <2>1, <2>3, <2>4, <2>5, <2>6, <2>7, OnwardKeeps
  <1> QED BY <1>3, <1>4, <1>5, <1>6

LEMMA TriggerKeeps == RunInv /\ Trigger => RunInv'
  <1> SUFFICES ASSUME RunInv, Trigger PROVE RunInv'
    OBVIOUS
  <1>1. /\ proc = "serving" /\ flow = Idle /\ ~due'
        /\ UNCHANGED <<chain, rows, proc, agenda, archived, missed>>
    BY DEF Trigger, RunInv, RunTypes
  <1>2. posts' \in [Posted -> Nat]
    <2>1. posts' = posts \/ posts' = [posts EXCEPT !["failure"] = posts["failure"] + 1]
      BY DEF Trigger, Selects, LeftToThread
    <2> QED BY <2>1, PostsKept DEF RunInv, SamePosts
  <1>3. chain \in {"finalizer", "planner", "digest", "audit"}
    BY DEF RunInv, RunTypes
  <1>4. First[chain] \in StagesOf[chain] /\ First[chain] \in AllStages
    BY <1>3 DEF First, StagesOf, AllStages
  <1>5. /\ Starts \in Flows /\ Starts.at = "create" /\ Starts.by = "schedule"
        /\ Starts.stage = First[chain]
    BY <1>4 DEF Starts, Idle, Flows, Texts
  <1>6. flow' \in {Idle, Starts}
    BY <1>1 DEF Trigger, Selects, LeftToThread
  <1>7. Idle \in Flows /\ Idle.at = "idle" /\ Idle.by = "none"
    BY Constants
  <1>8. RunTypes'
    <2>1. flow' \in Flows /\ due' \in BOOLEAN
      BY <1>1, <1>5, <1>6, <1>7 DEF Trigger
    <2>2. RunTypes
      BY DEF RunInv
    <2> HIDE DEF Flows
    <2> QED BY ONLY <1>1, <1>2, <2>1, <2>2 DEF RunTypes
  <1>9. Control'
    BY <1>1, <1>4, <1>5, <1>6, <1>7 DEF RunInv, Control
  <1>10. InHand'
    BY <1>1, <1>5, <1>6, <1>7 DEF RunInv, InHand
  <1> QED BY <1>8, <1>9, <1>10 DEF RunInv

LEMMA CreateFlow ==
    ASSUME RunInv, Create
    PROVE  /\ flow' \in Flows /\ flow'.at = "turn" /\ flow'.row = Len(rows) + 1
           /\ flow'.stage = flow.stage /\ flow'.by = flow.by /\ flow'.run = flow.run
           /\ flow'.text = "none" /\ flow.by \in {"schedule", "continue"}
  <1>1. flow \in Flows /\ Len(rows) + 1 \in Nat /\ flow.at = "create"
    BY DEF RunInv, RunTypes, Create
  <1>2. flow' = [flow EXCEPT !.at = "turn", !.row = Len(rows) + 1, !.text = "none"]
    BY DEF Create
  <1>3. PICK n \in Nat : n = Len(rows) + 1
    BY <1>1
  <1>4. flow' = [flow EXCEPT !.at = "turn", !.row = n, !.text = "none"]
    BY <1>2, <1>3
  <1>5. /\ flow' \in Flows /\ flow'.at = "turn" /\ flow'.row = n
        /\ flow'.stage = flow.stage /\ flow'.by = flow.by /\ flow'.run = flow.run
        /\ flow'.text = "none"
    <2>1. flow' \in Flows
      BY ONLY <1>1, <1>4, n \in Nat DEF Flows, Texts
    <2>2. /\ flow'.at = "turn" /\ flow'.row = n /\ flow'.stage = flow.stage
          /\ flow'.by = flow.by /\ flow'.run = flow.run /\ flow'.text = "none"
      BY ONLY <1>1, <1>4, n \in Nat DEF Flows
    <2> QED BY <2>1, <2>2
  <1>6. flow.by \in {"schedule", "continue"}
    BY <1>1 DEF Flows, RunInv, Control
  <1> QED BY <1>3, <1>5, <1>6

LEMMA CreateKeeps == RunInv /\ Create => RunInv'
  <1> SUFFICES ASSUME RunInv, Create PROVE RunInv'
    OBVIOUS
  <1>1. UNCHANGED <<chain, proc, agenda, due, posts, archived, missed>> /\ flow.at = "create"
    BY DEF Create
  <1>2. /\ rows' \in Seq(Rows)
        /\ DOMAIN rows' = DOMAIN rows \cup {Len(rows) + 1} /\ Len(rows) + 1 \notin DOMAIN rows
        /\ \A r \in DOMAIN rows : rows'[r] = rows[r]
        /\ rows'[Len(rows) + 1].stage = flow.stage /\ rows'[Len(rows) + 1].status = "running"
        /\ flow.stage \in StagesOf[chain]
    BY <1>1, CreateRows
  <1>3. /\ flow' \in Flows /\ flow'.at = "turn" /\ flow'.row = Len(rows) + 1
        /\ flow'.stage = flow.stage /\ flow'.by = flow.by /\ flow'.run = flow.run
        /\ flow.by \in {"schedule", "continue"}
    BY CreateFlow
  <1>4. RunTypes'
    BY <1>1, <1>2, <1>3 DEF RunInv, RunTypes
  <1>5. Control'
    BY <1>1, <1>2, <1>3 DEF RunInv, Control
  <1>6. InHand'
    <2>1. \A r \in agenda.queue \cup agenda.got : r \in DOMAIN rows
      BY DEF RunInv, RunTypes
    <2> QED BY <1>1, <1>2, <1>3, <2>1 DEF RunInv, InHand
  <1> QED BY <1>4, <1>5, <1>6 DEF RunInv

LEMMA BootKeeps == RunInv /\ Boot => RunInv'
  <1> SUFFICES ASSUME RunInv, Boot PROVE RunInv'
    OBVIOUS
  <1>1. /\ proc = "down" /\ proc' = "boot" /\ missed' \in BOOLEAN
        /\ UNCHANGED <<chain, flow, agenda, due, posts, archived>>
    BY DEF Boot, RunInv, RunTypes
  <1>2. agenda = NoAgenda /\ flow = Idle
    BY <1>1 DEF RunInv, RunTypes, Control, Flows
  <1>3. Moved(rows')
    BY SweptRows
  <1>4. DOMAIN rows' = DOMAIN rows /\ (rows = <<>> => rows' = <<>>)
    BY <1>3 DEF Moved
  <1>5. RunTypes'
    BY <1>1, <1>3, TypesKept DEF RunInv, RunTypes
  <1>6. Control'
    BY <1>1, <1>2, <1>4, Constants DEF RunInv, Control
  <1>7. InHand'
    BY <1>1, <1>2, Constants DEF InHand
  <1> QED BY <1>5, <1>6, <1>7 DEF RunInv

LEMMA NextListAgenda ==
    ASSUME RunInv, NextList
    PROVE  /\ flow = Idle /\ proc = "boot" /\ agenda.queue = {} /\ agenda.got = {}
           /\ UNCHANGED <<chain, flow, due, posts, archived>> /\ missed' \in BOOLEAN
           /\ \/ /\ agenda' = NoAgenda /\ proc' = "serving" /\ missed' = missed
                 /\ ~(agenda.list < Len(Lists[chain]) /\ ~SkipsForecasts)
              \/ /\ agenda' \in Agendas /\ agenda'.list = agenda.list + 1
                 /\ agenda.list < Len(Lists[chain]) /\ ~SkipsForecasts
                 /\ agenda'.queue = Listed(Lists[chain][agenda.list + 1]) /\ agenda'.got = {}
                 /\ ~agenda'.any /\ rows' = rows /\ proc' = proc
                 /\ missed' = (missed \/ /\ chain = "digest" /\ agenda.list = 1
                                         /\ Listed("formatter") # {})
  <1>1. agenda \in Agendas /\ agenda.list \in Nat /\ missed \in BOOLEAN
    BY DEF RunInv, RunTypes, Agendas
  <1>2. CASE agenda.list < Len(Lists[chain]) /\ ~SkipsForecasts
    <2> DEFINE queue == Listed(Lists[chain][agenda.list + 1])
    <2>1. agenda' = [NoAgenda EXCEPT !.list = agenda.list + 1, !.queue = queue]
      BY <1>2 DEF NextList
    <2>2. queue \in SUBSET Nat
      <3>1. DOMAIN rows \subseteq Nat
        BY DEF RunInv, RunTypes
      <3> QED BY <3>1 DEF Listed
    <2>3. agenda.list + 1 \in Nat
      BY <1>1
    <2> HIDE DEF queue
    <2>4. /\ agenda' \in Agendas /\ agenda'.list = agenda.list + 1 /\ agenda'.queue = queue
          /\ agenda'.got = {} /\ ~agenda'.any
      BY <2>1, <2>2, <2>3 DEF NoAgenda, Agendas
    <2> QED BY <1>1, <1>2, <2>4 DEF NextList, queue
  <1>3. CASE ~(agenda.list < Len(Lists[chain]) /\ ~SkipsForecasts)
    BY <1>1, <1>3 DEF NextList
  <1> QED BY <1>2, <1>3

LEMMA NextListKeeps == RunInv /\ NextList => RunInv'
  <1> SUFFICES ASSUME RunInv, NextList PROVE RunInv'
    OBVIOUS
  <1>1. Moved(rows') /\ DOMAIN rows' = DOMAIN rows /\ (rows = <<>> => rows' = <<>>)
    <2>1. Moved(rows')
      BY SweptRows
    <2> QED BY <2>1 DEF Moved
  <1>2. /\ flow = Idle /\ proc = "boot"
        /\ UNCHANGED <<chain, flow, due, posts, archived>> /\ missed' \in BOOLEAN
    BY NextListAgenda
  <1>3. CASE agenda' = NoAgenda /\ proc' = "serving"
    <2>1. RunTypes'
      BY <1>1, <1>2, <1>3, Constants, TypesKept DEF RunInv, RunTypes
    <2>2. Control'
      BY <1>1, <1>2, <1>3, Constants DEF RunInv, Control
    <2>3. InHand'
      BY <1>2, <1>3, Constants DEF InHand
    <2> QED BY <2>1, <2>2, <2>3 DEF RunInv
  <1>4. CASE /\ agenda' \in Agendas /\ agenda'.list = agenda.list + 1
             /\ agenda'.queue = Listed(Lists[chain][agenda.list + 1]) /\ agenda'.got = {}
             /\ rows' = rows /\ proc' = proc
    <2>1. agenda'.list # 0
      <3>1. agenda.list \in Nat
        BY DEF RunInv, RunTypes, Agendas
      <3> QED BY <1>4, <3>1
    <2>2. agenda'.queue \subseteq DOMAIN rows
            /\ \A r \in agenda'.queue : rows[r].status \in Unfinished
      BY <1>4 DEF Listed
    <2>3. RunTypes'
      BY <1>1, <1>2, <1>4, <2>2, TypesKept DEF RunInv, RunTypes
    <2>4. Control'
      BY <1>1, <1>2, <1>4, <2>1, Constants DEF RunInv, Control
    <2>5. InHand'
      BY <1>2, <1>4, <2>2, Constants DEF InHand
    <2> QED BY <2>3, <2>4, <2>5 DEF RunInv
  <1> QED BY <1>3, <1>4, NextListAgenda

LEMMA TakeRowMoves ==
    ASSUME RunInv, TakeRow
    PROVE  /\ proc = "boot" /\ flow = Idle /\ agenda.list # 0
           /\ UNCHANGED <<chain, rows, proc, due, posts, archived, missed>>
           /\ \E r \in agenda.queue :
                /\ r \in DOMAIN rows /\ r \in Nat
                /\ agenda' \in Agendas /\ agenda'.list = agenda.list
                /\ agenda'.queue = agenda.queue \ {r}
                /\ \/ /\ rows[r].status = "recovered" /\ flow' = Idle
                      /\ agenda'.got = agenda.got \cup {r} /\ agenda'.any
                   \/ /\ flow' \in Flows /\ flow'.at = "turn" /\ flow'.stage = rows[r].stage
                      /\ flow'.by = "resume" /\ flow'.row = r /\ flow'.text = "none"
                      /\ agenda'.got = agenda.got /\ agenda'.any = agenda.any
  <1>1. /\ agenda \in Agendas /\ agenda.queue \in SUBSET Nat /\ agenda.got \in SUBSET Nat
        /\ agenda.queue \subseteq DOMAIN rows
    BY DEF RunInv, RunTypes, Agendas
  <1>2. /\ proc = "boot" /\ flow = Idle
        /\ UNCHANGED <<chain, rows, proc, due, posts, archived, missed>>
    BY DEF TakeRow
  <1>3. PICK r \in agenda.queue :
           \/ /\ rows[r].status = "recovered" /\ UNCHANGED flow
              /\ agenda' = [agenda EXCEPT !.queue = agenda.queue \ {r},
                                          !.got = agenda.got \cup {r}, !.any = TRUE]
           \/ /\ flow' = [Idle EXCEPT !.at = "turn", !.stage = rows[r].stage,
                                      !.by = "resume", !.row = r]
              /\ agenda' = [agenda EXCEPT !.queue = agenda.queue \ {r}]
    BY DEF TakeRow
  <1>4. agenda.list # 0
    <2>1. agenda # NoAgenda
      BY <1>3, Constants
    <2> QED BY <2>1 DEF RunInv, Control
  <1>5. r \in DOMAIN rows /\ r \in Nat /\ rows[r].stage \in AllStages
    <2>1. \A row \in Rows : row.stage \in AllStages
      BY DEF Rows
    <2> QED BY <1>1, <1>3, <2>1, RowType
  <1>6. agenda.queue \ {r} \in SUBSET Nat /\ agenda.got \cup {r} \in SUBSET Nat
    BY <1>1, <1>5
  <1>7. CASE /\ rows[r].status = "recovered" /\ UNCHANGED flow
             /\ agenda' = [agenda EXCEPT !.queue = agenda.queue \ {r},
                                         !.got = agenda.got \cup {r}, !.any = TRUE]
    <2>1. /\ agenda' \in Agendas /\ agenda'.list = agenda.list
          /\ agenda'.queue = agenda.queue \ {r} /\ agenda'.got = agenda.got \cup {r} /\ agenda'.any
      BY <1>1, <1>6, <1>7 DEF Agendas
    <2> QED BY <1>2, <1>4, <1>5, <1>7, <2>1
  <1>8. CASE /\ flow' = [Idle EXCEPT !.at = "turn", !.stage = rows[r].stage,
                                     !.by = "resume", !.row = r]
             /\ agenda' = [agenda EXCEPT !.queue = agenda.queue \ {r}]
    <2>1. /\ agenda' \in Agendas /\ agenda'.list = agenda.list
          /\ agenda'.queue = agenda.queue \ {r} /\ agenda'.got = agenda.got
          /\ agenda'.any = agenda.any
      BY <1>1, <1>6, <1>8 DEF Agendas
    <2>2. /\ flow' \in Flows /\ flow'.at = "turn" /\ flow'.stage = rows[r].stage
          /\ flow'.by = "resume" /\ flow'.row = r /\ flow'.text = "none"
      BY <1>5, <1>8 DEF Idle, Flows, Texts
    <2> QED BY <1>2, <1>4, <1>5, <2>1, <2>2
  <1> QED BY <1>3, <1>7, <1>8

LEMMA TakeRowKeeps == RunInv /\ TakeRow => RunInv'
  <1> SUFFICES ASSUME RunInv, TakeRow PROVE RunInv'
    OBVIOUS
  <1>1. /\ proc = "boot" /\ flow = Idle /\ agenda.list # 0
        /\ UNCHANGED <<chain, rows, proc, due, posts, archived, missed>>
    BY TakeRowMoves
  <1>2. PICK r \in agenda.queue :
           /\ r \in DOMAIN rows
           /\ agenda' \in Agendas /\ agenda'.list = agenda.list
           /\ agenda'.queue = agenda.queue \ {r}
           /\ \/ /\ rows[r].status = "recovered" /\ flow' = Idle
                 /\ agenda'.got = agenda.got \cup {r}
              \/ /\ flow' \in Flows /\ flow'.at = "turn" /\ flow'.stage = rows[r].stage
                 /\ flow'.by = "resume" /\ flow'.row = r
                 /\ agenda'.got = agenda.got
    BY TakeRowMoves
  <1>3. flow' \in Flows /\ rows[r].stage \in StagesOf[chain]
    BY <1>2, Constants DEF RunInv, RunTypes
  <1>4. RunTypes'
    BY <1>1, <1>2, <1>3 DEF RunInv, RunTypes
  <1>5. ~due
    BY <1>2 DEF RunInv, Control
  <1>6. Control'
    BY <1>1, <1>2, <1>3, <1>5, Constants DEF Control
  <1>7. InHand'
    BY <1>1, <1>2, Constants DEF RunInv, InHand
  <1> QED BY <1>4, <1>6, <1>7 DEF RunInv

LEMMA ResumedMoves ==
    ASSUME RunInv, Resumed
    PROVE  /\ flow.at = "turn" /\ flow.by = "resume" /\ flow' = Idle /\ proc = "boot"
           /\ agenda.list # 0
           /\ UNCHANGED <<chain, proc, due, posts, archived, missed>>
           /\ agenda' \in Agendas /\ agenda'.list = agenda.list /\ agenda'.queue = agenda.queue
           /\ \/ /\ rows'[flow.row].status \in {"recovered", "deleted"}
                 /\ agenda'.got = agenda.got \cup {flow.row} /\ agenda'.any
              \/ /\ rows'[flow.row].status # "recovered"
                 /\ agenda'.got = agenda.got /\ agenda'.any = agenda.any
  <1>1. /\ agenda \in Agendas /\ agenda.got \cup {flow.row} \in SUBSET Nat
    BY DEF RunInv, RunTypes, Agendas, Flows
  <1>2. /\ flow.at = "turn" /\ flow.by = "resume" /\ flow' = Idle
        /\ UNCHANGED <<chain, proc, due, posts, archived, missed>>
    BY DEF Resumed
  <1>3. proc = "boot" /\ agenda.list # 0
    BY <1>2 DEF RunInv, Control
  <1>4. CASE /\ rows'[flow.row].status \in {"recovered", "deleted"}
             /\ agenda' = [agenda EXCEPT !.got = agenda.got \cup {flow.row}, !.any = TRUE]
    <2>1. /\ agenda' \in Agendas /\ agenda'.list = agenda.list /\ agenda'.queue = agenda.queue
          /\ agenda'.got = agenda.got \cup {flow.row} /\ agenda'.any
      BY <1>1, <1>4 DEF Agendas
    <2> QED BY <1>2, <1>3, <1>4, <2>1
  <1>5. CASE rows'[flow.row].status # "recovered" /\ agenda' = agenda
    BY <1>1, <1>2, <1>3, <1>5
  <1> QED BY <1>4, <1>5, ResumedRows

LEMMA ResumedKeeps == RunInv /\ Resumed => RunInv'
  <1> SUFFICES ASSUME RunInv, Resumed PROVE RunInv'
    OBVIOUS
  <1>1. /\ flow.at = "turn" /\ flow.by = "resume" /\ flow' = Idle /\ proc = "boot"
        /\ agenda.list # 0
        /\ UNCHANGED <<chain, proc, due, posts, archived, missed>>
        /\ agenda' \in Agendas /\ agenda'.list = agenda.list /\ agenda'.queue = agenda.queue
        /\ \/ /\ rows'[flow.row].status \in {"recovered", "deleted"}
              /\ agenda'.got = agenda.got \cup {flow.row}
           \/ agenda'.got = agenda.got
    BY ResumedMoves
  <1>2. /\ Moved(rows') /\ flow.row \in DOMAIN rows
        /\ \A r \in DOMAIN rows : r # flow.row => rows'[r] = rows[r]
    BY ResumedRows
  <1>3. DOMAIN rows' = DOMAIN rows /\ (rows = <<>> => rows' = <<>>)
    BY <1>2 DEF Moved
  <1>4. flow.row \notin agenda.queue \cup agenda.got
          /\ agenda.queue \cup agenda.got \subseteq DOMAIN rows
    BY <1>1 DEF RunInv, InHand, RunTypes
  <1>5. RunTypes'
    BY <1>1, <1>2, <1>4, Constants, TypesKept DEF RunInv, RunTypes
  <1>6. Control'
    BY <1>1, <1>3, Constants DEF RunInv, Control
  <1>7. InHand'
    <2>1. \A r \in agenda.queue \cup agenda.got : rows'[r] = rows[r]
      BY <1>2, <1>4
    <2>2. \A r \in agenda'.queue : rows'[r].status \in Unfinished \cup {"deleted"}
      BY <1>1, <2>1 DEF RunInv, InHand
    <2>3. \A r \in agenda'.got : rows'[r].status \in {"recovered", "deleted"}
      BY <1>1, <2>1 DEF RunInv, InHand
    <2>4. agenda'.queue \cap agenda'.got = {}
      BY <1>1, <1>4 DEF RunInv, InHand
    <2> QED BY <1>1, <2>2, <2>3, <2>4, Constants DEF InHand
  <1> QED BY <1>5, <1>6, <1>7 DEF RunInv

LEMMA ContinueMoves ==
    ASSUME RunInv, Continue
    PROVE  /\ proc = "boot" /\ flow = Idle /\ agenda.queue = {}
           /\ UNCHANGED <<chain, rows, proc, agenda, due, posts, archived, missed>>
           /\ flow' \in Flows /\ flow'.at = "next" /\ flow'.by = "continue"
           /\ flow'.run \in agenda.got /\ flow'.row = flow'.run /\ flow'.run \in DOMAIN rows
           /\ flow'.text = rows[flow'.run].text /\ flow'.stage \in StagesOf[chain]
           /\ flow'.stage = rows[flow'.run].stage
                \/ {flow'.stage, rows[flow'.run].stage} = {"start", "review"}
  <1>1. PICK r \in agenda.got :
           flow' = [at |-> "next", stage |-> Reached(r), by |-> "continue",
                    text |-> rows[r].text, row |-> r, run |-> r]
    BY DEF Continue
  <1>2. /\ proc = "boot" /\ flow = Idle /\ agenda.queue = {}
        /\ UNCHANGED <<chain, rows, proc, agenda, due, posts, archived, missed>>
    BY DEF Continue
  <1>3. r \in DOMAIN rows /\ r \in Nat /\ rows[r] \in Rows /\ rows[r].stage \in StagesOf[chain]
    BY RowType DEF RunInv, RunTypes, Agendas
  <1>4. rows[r].text \in Texts /\ rows[r].stage \in AllStages
    <2>1. \A row \in Rows : row.text \in Texts /\ row.stage \in AllStages
      BY DEF Rows
    <2> QED BY <1>3, <2>1
  <1>5. /\ Reached(r) = rows[r].stage \/ {Reached(r), rows[r].stage} = {"start", "review"}
        /\ Reached(r) \in StagesOf[chain] /\ Reached(r) \in AllStages
    <2>1. chain \in {"finalizer", "planner", "digest", "audit"}
      BY DEF RunInv, RunTypes
    <2> QED BY <1>3, <1>4, <2>1 DEF Reached, Job, StagesOf, AllStages
  <1>6. PICK stage \in AllStages, text \in Texts : stage = Reached(r) /\ text = rows[r].text
    BY <1>4, <1>5
  <1>7. flow' = [at |-> "next", stage |-> stage, by |-> "continue", text |-> text, row |-> r,
                 run |-> r]
    BY <1>1, <1>6
  <1>8. /\ flow' \in Flows /\ flow'.at = "next" /\ flow'.by = "continue" /\ flow'.run = r
        /\ flow'.row = r /\ flow'.text = text /\ flow'.stage = stage
    BY <1>3, <1>7 DEF Flows
  <1> QED BY <1>2, <1>3, <1>5, <1>6, <1>8

LEMMA OtherKeeps == RunInv /\ (Continue \/ Close \/ Age \/ Archive) => RunInv'
  <1> SUFFICES ASSUME RunInv, Continue \/ Close \/ Age \/ Archive PROVE RunInv'
    OBVIOUS
  <1>1. CASE Continue
    <2>1. /\ proc = "boot" /\ flow = Idle /\ agenda.queue = {}
          /\ UNCHANGED <<chain, rows, proc, agenda, due, posts, archived, missed>>
          /\ flow' \in Flows /\ flow'.at = "next" /\ flow'.by = "continue"
          /\ flow'.run \in agenda.got /\ flow'.row = flow'.run /\ flow'.run \in DOMAIN rows
          /\ flow'.stage \in StagesOf[chain]
      BY <1>1, ContinueMoves
    <2>2. ~due
      BY <2>1 DEF RunInv, Control
    <2>3. RunTypes'
      BY <2>1 DEF RunInv, RunTypes
    <2>4. Control'
      BY <2>1, <2>2 DEF RunInv, Control
    <2>5. InHand'
      BY <2>1 DEF RunInv, InHand
    <2> QED BY <2>3, <2>4, <2>5 DEF RunInv
  <1>2. CASE Close \/ Age
    <2>1. Moved(rows') /\ DOMAIN rows' = DOMAIN rows /\ (rows = <<>> => rows' = <<>>)
      <3>1. Moved(rows')
        BY <1>2, SweptRows
      <3> QED BY <3>1 DEF Moved
    <2>2. UNCHANGED <<chain, flow, proc, agenda, due, posts, archived, missed>>
      BY <1>2 DEF Close, Age
    <2>3. \A r \in DOMAIN rows :
             \/ rows'[r].status = rows[r].status
             \/ rows'[r].status = "deleted" /\ ~(flow.at = "turn" /\ flow.row = r)
             \/ agenda.queue = {} /\ agenda.got = {} /\ flow.at = "idle"
      BY <1>2, <2>2, SweptRows
    <2>4. RunTypes'
      BY <2>1, <2>2, TypesKept DEF RunInv, RunTypes
    <2>5. Control'
      BY <2>1, <2>2 DEF RunInv, Control
    <2>6. InHand'
      <3>1. agenda.queue \cup agenda.got \subseteq DOMAIN rows
              /\ (flow.at = "turn" => flow.row \in DOMAIN rows)
        BY DEF RunInv, RunTypes, Control
      <3>2. \A r \in DOMAIN rows : rows'[r].stage = rows[r].stage
        BY <2>1 DEF Moved
      <3> QED BY <2>2, <2>3, <3>1, <3>2 DEF RunInv, InHand
    <2> QED BY <2>4, <2>5, <2>6 DEF RunInv
  <1>3. CASE Archive
    <2>1. UNCHANGED <<chain, rows, flow, proc, agenda, due, posts, missed>>
      BY <1>3 DEF Archive
    <2>2. archived' \in Nat
      BY <1>3 DEF Archive, RunInv, RunTypes, Posted, Kinds
    <2> QED BY <2>1, <2>2 DEF RunInv, RunTypes, Control, InHand
  <1> QED BY <1>1, <1>2, <1>3

LEMMA RunInit == Init => RunInv
  <1> SUFFICES ASSUME Init PROVE RunInv
    OBVIOUS
  <1>1. chain \in {"finalizer", "planner", "digest", "audit"}
    BY HeadlessAssumption DEF Init
  <1>2. /\ rows = <<>> /\ flow = Idle /\ proc = "serving" /\ agenda = NoAgenda /\ due = TRUE
        /\ posts \in [Posted -> Nat] /\ archived = 0 /\ missed = FALSE
    BY DEF Init
  <1>3. rows \in Seq(Rows) /\ DOMAIN rows = {}
    BY <1>2
  <1> QED BY <1>1, <1>2, <1>3, Constants DEF RunInv, RunTypes, Control, InHand

LEMMA RunStep == RunInv /\ [Next]_vars => RunInv'
  <1> SUFFICES ASSUME RunInv, [Next]_vars PROVE RunInv'
    OBVIOUS
  <1>1. CASE Next
    <2>1. chain' = chain /\ Moves
      BY <1>1, EveryMove
    <2> QED BY <2>1, TriggerKeeps, CreateKeeps, ChainKeeps, EndsKeeps, LostKeeps, BootKeeps,
               NextListKeeps, TakeRowKeeps, ResumedKeeps, OtherKeeps DEF Moves
  <1>2. CASE UNCHANGED vars
    BY <1>2 DEF vars, RunInv, RunTypes, Control, InHand
  <1> QED BY <1>1, <1>2

LEMMA RunsAreTyped == Spec => []RunInv
  BY RunInit, RunStep, PTL DEF Spec
--------------------------------------------------------------------------------
(* The notice.                                                                   *)
LEMMA LabelKept == Next => label' = label
  BY DEF Next, Trigger, Create, TurnAnswers, TurnFails, TryAgain, AfterStart, AfterPrep, AfterTurn,
         Publish, Attach, Boot, NextList, TakeRow, Resumed, ResumeBreaks, Continue, Stop, Close,
         Crash, Shutdown, Archive, Age

LEMMA NoticeStep == RunInv /\ Notices /\ [Next]_vars => Notices'
  <1> SUFFICES ASSUME RunInv, Notices, [Next]_vars, chain' = "finalizer"
               PROVE  /\ posts'["notice"] <= 1 /\ posts'["debt"] <= 1
                      /\ posts'["debt"] > 0 => label'
    BY DEF Notices
  <1>1. CASE Next
    <2>1. chain' = chain /\ label' = label /\ Moves
      BY <1>1, EveryMove, LabelKept
    <2>2. /\ posts["notice"] \in Nat /\ posts["notice"] <= 1
          /\ posts["debt"] \in Nat /\ posts["debt"] <= 1 /\ (posts["debt"] > 0 => label)
      BY <2>1 DEF Notices, RunInv, RunTypes, Posted, Kinds
    <2>3. CASE Posts
      <3>1. /\ \/ posts'["notice"] = posts["notice"]
               \/ posts["notice"] = 0 /\ posts'["notice"] = posts["notice"] + 1
            /\ \/ posts'["debt"] = posts["debt"]
               \/ label /\ posts["debt"] = 0 /\ posts'["debt"] = posts["debt"] + 1
        BY <2>1, <2>2, <2>3, PostFacts DEF Published
      <3> QED BY <2>1, <2>2, <3>1
    <2>4. CASE Ends \/ Lost
      BY <2>1, <2>2, <2>4 DEF Ends, Lost, SamePosts
    <2>5. CASE Trigger
      <3>1. posts' = posts \/ posts' = [posts EXCEPT !["failure"] = posts["failure"] + 1]
        BY <2>5 DEF Trigger, Selects, LeftToThread, Post
      <3>2. SamePosts
        BY <3>1, PostsKept DEF RunInv
      <3> QED BY <2>1, <2>2, <3>2 DEF SamePosts
    <2>6. CASE ~Posts /\ ~Ends /\ ~Lost /\ ~Trigger
      <3>1. posts' = posts
        BY <2>1, <2>6 DEF Moves, Create, TurnAnswers, FallsBack, Hands, Boot, NextList, TakeRow,
                          Resumed, Continue, Close, Archive, Age
      <3> QED BY <2>1, <2>2, <3>1
    <2> QED BY <2>3, <2>4, <2>5, <2>6
  <1>2. CASE UNCHANGED vars
    BY <1>2 DEF vars, Notices
  <1> QED BY <1>1, <1>2

(* The look for an earlier publication and the post are one step of one flow,     *)
(* so a finalization is announced once in a channel, however often its review is  *)
(* resumed, and only an epic with the label is announced in two.                  *)
THEOREM NoticeIsPostedOnce == Spec => []PublishedOnce
  <1>1. Init => Notices
    BY DEF Init, Notices, Posted, Kinds
  <1>2. Notices => PublishedOnce
    BY DEF Notices, PublishedOnce
  <1> QED BY <1>1, <1>2, NoticeStep, RunsAreTyped, PTL DEF Spec
--------------------------------------------------------------------------------
(* The rows that were recovered.                                                 *)
LEMMA ConcludedStep == RunInv /\ RunInv' /\ Concluded /\ [Next]_vars => Concluded'
  <1> SUFFICES ASSUME RunInv, RunInv', Concluded, [Next]_vars, chain' # "digest", proc' # "down",
                      NEW r \in DOMAIN rows', rows'[r].status = "recovered"
               PROVE  \/ r \in agenda'.queue \cup agenda'.got
                      \/ flow'.by = "resume" /\ flow'.row = r
                      \/ proc' = "boot" /\ \E i \in agenda'.list + 1 .. Len(Lists[chain']) :
                                              Lists[chain'][i] = Job[rows'[r].stage]
    BY DEF Concluded
  <1> DEFINE Comes(q, n) == \E i \in n + 1 .. Len(Lists[chain]) : Lists[chain][i] = Job[rows[q].stage]
  <1>1. CASE Next
    <2>1. chain' = chain /\ Moves /\ chain # "digest"
      BY <1>1, EveryMove
    <2>2. CASE Create
      <3>1. /\ DOMAIN rows' = DOMAIN rows \cup {Len(rows) + 1}
            /\ \A q \in DOMAIN rows : rows'[q] = rows[q]
            /\ rows'[Len(rows) + 1].status = "running"
        BY <2>1, <2>2, CreateRows
      <3>2. r \in DOMAIN rows /\ rows'[r] = rows[r]
        BY <3>1
      <3>3. UNCHANGED <<proc, agenda>> /\ flow.at = "create"
        BY <2>2 DEF Create
      <3>4. flow.by # "resume"
        BY <3>3 DEF RunInv, Control
      <3> QED BY <2>1, <3>2, <3>3, <3>4 DEF Concluded
    <2>3. CASE ~Create
      <3>1. Moved(rows') /\ r \in DOMAIN rows /\ rows'[r].stage = rows[r].stage
        <4>1. Moved(rows')
          BY <2>1, <2>3, RowsMove
        <4> QED BY <4>1 DEF Moved
      <3>2. ASSUME rows[r].status = "recovered", proc # "down"
            PROVE  \/ r \in agenda.queue \cup agenda.got
                   \/ flow.by = "resume" /\ flow.row = r
                   \/ proc = "boot" /\ Comes(r, agenda.list)
        BY <2>1, <3>1, <3>2 DEF Concluded
      <3>3. CASE Trigger \/ Archive
        <4>1. UNCHANGED <<rows, proc, agenda>> /\ (flow.by = "resume" => flow' = flow)
          BY <3>3 DEF Trigger, Archive, Idle
        <4> QED BY <2>1, <3>2, <4>1
      <3>4. CASE TurnAnswers \/ FallsBack \/ Hands \/ Posts
        <4>1. UNCHANGED proc /\ agenda'.queue = agenda.queue /\ agenda'.got = agenda.got
                /\ agenda'.list = agenda.list
          BY <3>4 DEF TurnAnswers, FallsBack, Hands, Posts, RunInv, RunTypes, Agendas
        <4>2. flow.by # "resume"
          BY <3>4 DEF TurnAnswers, FallsBack, Hands, Posts, RunInv, Control
        <4>3. rows[r].status = "recovered"
          <5>1. CASE TurnAnswers
            <6>1. /\ \A q \in DOMAIN rows : q # flow.row => rows'[q] = rows[q]
                  /\ rows'[flow.row].status \in {"failed", "completed"}
              BY <5>1, AnsweredRows
            <6> QED BY <3>1, <6>1
          <5>2. CASE FallsBack
            BY <3>1, <5>2, ShutFacts DEF FallsBack
          <5>3. CASE Hands \/ Posts
            BY <5>3 DEF Hands, Posts
          <5> QED BY <3>4, <5>1, <5>2, <5>3
        <4> HIDE DEF Comes
        <4>4. \/ r \in agenda'.queue \cup agenda'.got
              \/ proc' = "boot" /\ Comes(r, agenda'.list)
          BY <3>2, <4>1, <4>2, <4>3
        <4> QED BY <2>1, <3>1, <4>4 DEF Comes
      <3>5. CASE Ends
        <4>1. proc' = proc
          BY <3>5 DEF Ends
        <4>2. rows[r].status = "recovered"
          BY <3>1, <3>5, EndsRows
        <4>3. flow.by # "resume"
          BY <3>5 DEF Ends
        <4>4. /\ agenda'.queue = agenda.queue /\ agenda'.list = agenda.list
              /\ r \in agenda.got => r \in agenda'.got
          <5>1. CASE flow.by = "schedule"
            BY <3>5, <5>1, EndsRows
          <5>2. CASE flow.by = "continue"
            <6>1. agenda' = NextGot /\ rows'[flow.run].status # "recovered"
              BY <3>5, <5>2, EndsRows
            <6> QED BY <6>1 DEF NextGot, RunInv, RunTypes, Agendas
          <5> QED BY <3>5, <5>1, <5>2 DEF Ends
        <4> HIDE DEF Comes
        <4>5. \/ r \in agenda'.queue \cup agenda'.got
              \/ proc' = "boot" /\ Comes(r, agenda'.list)
          BY <3>2, <4>1, <4>2, <4>3, <4>4
        <4> QED BY <2>1, <3>1, <4>5 DEF Comes
      <3>6. CASE Boot
        <4>1. proc' = "boot" /\ agenda' = NoAgenda
          BY <3>6 DEF Boot, RunInv, RunTypes, Control
        <4>2. rows[r].stage \in StagesOf[chain] /\ chain \in {"finalizer", "planner", "audit"}
          BY <2>1, <3>1 DEF RunInv, RunTypes
        <4>3. \E i \in 0 + 1 .. Len(Lists[chain]) : Lists[chain][i] = Job[rows[r].stage]
          <5>1. CASE chain = "audit"
            <6>1. Lists[chain] = <<"auditor">> /\ Job[rows[r].stage] = "auditor"
              BY <4>2, <5>1 DEF StagesOf, Lists, Job
            <6>2. 1 \in 0 + 1 .. Len(<<"auditor">>) /\ <<"auditor">>[1] = "auditor"
              OBVIOUS
            <6> QED BY <6>1, <6>2
          <5>2. CASE chain # "audit"
            <6>1. Lists[chain] = <<"reviewer", "preparer">>
                    /\ Job[rows[r].stage] \in {"reviewer", "preparer"}
              BY <4>2, <5>2 DEF StagesOf, Lists, Job
            <6>2. /\ 1 \in 0 + 1 .. Len(<<"reviewer", "preparer">>)
                  /\ 2 \in 0 + 1 .. Len(<<"reviewer", "preparer">>)
                  /\ <<"reviewer", "preparer">>[1] = "reviewer"
                  /\ <<"reviewer", "preparer">>[2] = "preparer"
              OBVIOUS
            <6> QED BY <6>1, <6>2
          <5> QED BY <5>1, <5>2
        <4> QED BY <2>1, <3>1, <4>1, <4>3, Constants
      <3>7. CASE NextList
        <4>1. /\ flow = Idle /\ flow' = flow /\ proc = "boot" /\ agenda.queue = {} /\ agenda.got = {}
              /\ \/ /\ agenda' = NoAgenda /\ proc' = "serving"
                    /\ ~(agenda.list < Len(Lists[chain]) /\ ~SkipsForecasts)
                 \/ /\ agenda'.list = agenda.list + 1
                    /\ agenda'.queue = Listed(Lists[chain][agenda.list + 1])
                    /\ rows' = rows /\ proc' = proc
          BY <3>7, NextListAgenda
        <4>2. ~SkipsForecasts
          BY <2>1 DEF SkipsForecasts
        <4>3. rows' = rows
          BY <3>7, <4>2 DEF NextList
        <4>4. Comes(r, agenda.list)
          BY <3>2, <4>1, <4>3, Constants
        <4>5. agenda.list \in Nat /\ Len(Lists[chain]) \in Nat
          <5>1. chain \in {"finalizer", "planner", "audit"}
            BY <2>1 DEF RunInv, RunTypes
          <5> QED BY <5>1 DEF RunInv, RunTypes, Agendas, Lists
        <4>6. agenda.list < Len(Lists[chain])
          BY <4>4, <4>5
        <4>7. /\ agenda'.list = agenda.list + 1 /\ proc' = proc
              /\ agenda'.queue = Listed(Lists[chain][agenda.list + 1])
          BY <4>1, <4>2, <4>6
        <4>8. PICK i \in agenda.list + 1 .. Len(Lists[chain]) : Lists[chain][i] = Job[rows[r].stage]
          BY <4>4
        <4>9. CASE i = agenda.list + 1
          BY <3>1, <4>3, <4>7, <4>8, <4>9 DEF Listed, Unfinished
        <4>10. CASE i # agenda.list + 1
          <5>1. i \in agenda'.list + 1 .. Len(Lists[chain])
            BY <4>5, <4>7, <4>10
          <5> QED BY <2>1, <3>1, <4>1, <4>7, <4>8, <5>1
        <4> QED BY <4>9, <4>10
      <3>8. CASE TakeRow
        <4>1. /\ flow = Idle /\ proc = "boot" /\ UNCHANGED <<rows, proc>> /\ agenda'.list = agenda.list
              /\ \E q \in agenda.queue :
                    /\ agenda'.queue = agenda.queue \ {q}
                    /\ \/ agenda'.got = agenda.got \cup {q}
                       \/ flow'.by = "resume" /\ flow'.row = q /\ agenda'.got = agenda.got
          BY <3>8, TakeRowMoves
        <4> QED BY <2>1, <3>1, <3>2, <4>1, Constants
      <3>9. CASE Resumed
        <4>1. /\ flow.by = "resume" /\ proc = "boot" /\ proc' = proc /\ agenda'.list = agenda.list
              /\ agenda'.queue = agenda.queue
              /\ \/ agenda'.got = agenda.got \cup {flow.row}
                 \/ rows'[flow.row].status # "recovered" /\ agenda'.got = agenda.got
          BY <3>9, ResumedMoves
        <4>2. \A q \in DOMAIN rows : q # flow.row => rows'[q] = rows[q]
          BY <3>9, ResumedRows
        <4>3. CASE r = flow.row
          BY <4>1, <4>3
        <4>4. CASE r # flow.row
          BY <2>1, <3>1, <3>2, <4>1, <4>2, <4>4
        <4> QED BY <4>3, <4>4
      <3>10. CASE Continue
        <4>1. /\ flow = Idle /\ UNCHANGED <<rows, proc, agenda>>
          BY <3>10, ContinueMoves
        <4> QED BY <2>1, <3>1, <3>2, <4>1, Constants
      <3>11. CASE Close \/ Age
        <4>1. UNCHANGED <<flow, proc, agenda>>
          BY <3>11 DEF Close, Age
        <4>2. rows[r].status = "recovered"
          BY <3>1, <3>11, SweptRows
        <4> QED BY <2>1, <3>1, <3>2, <4>1, <4>2
      <3>12. CASE Lost
        BY <3>12 DEF Lost
      <3> QED BY <2>1, <2>3, <3>3, <3>4, <3>5, <3>6, <3>7, <3>8, <3>9, <3>10, <3>11, <3>12
              DEF Moves
    <2> QED BY <2>2, <2>3
  <1>2. CASE UNCHANGED vars
    BY <1>2 DEF vars, Concluded
  <1> QED BY <1>1, <1>2

(* Whatever is lost while the service recovers, a run that it recovered is at     *)
(* hand until its outcome is stored, and a service that serves has none left.     *)
THEOREM RecoveredIsConcluded == Spec => []NoneLeftRecovered
  <1>1. Init => Concluded
    BY DEF Init, Concluded
  <1>2. RunInv /\ Concluded => NoneLeftRecovered
    <2> SUFFICES ASSUME RunInv, Concluded, proc = "serving", chain # "digest",
                        NEW r \in DOMAIN rows, rows[r].status = "recovered"
                 PROVE  FALSE
      BY DEF NoneLeftRecovered
    <2>1. agenda = NoAgenda /\ flow.by # "resume"
      BY DEF RunInv, Control
    <2> QED BY <2>1, Constants DEF Concluded
  <1>3. RunInv /\ Concluded /\ [Next]_vars => Concluded'
    BY ConcludedStep, RunStep
  <1> QED BY <1>1, <1>2, <1>3, RunsAreTyped, PTL DEF Spec
--------------------------------------------------------------------------------
(* The preparations of a finalization.                                           *)
LEMMA HeldStays ==
    ASSUME RunInv, chain' = chain, Moves
    PROVE  (StartIsHeld => StartIsHeld') /\ (StartIsForgotten => StartIsForgotten')
  <1>1. CASE Create
    <2>1. DOMAIN rows' = DOMAIN rows \cup {Len(rows) + 1} /\ \A r \in DOMAIN rows : rows'[r] = rows[r]
      BY <1>1, CreateRows
    <2> QED BY <2>1 DEF StartIsHeld, StartIsForgotten
  <1>2. CASE ~Create
    <2>1. /\ DOMAIN rows' = DOMAIN rows
          /\ \A r \in DOMAIN rows :
                /\ rows'[r].stage = rows[r].stage /\ rows'[r].marked = rows[r].marked
                /\ rows[r].status = "deleted" => rows'[r].status = "deleted"
      BY <1>2, RowsMove DEF Moved, Unfinished
    <2> QED BY <2>1 DEF StartIsHeld, StartIsForgotten
  <1> QED BY <1>1, <1>2

LEMMA FirstStep == RunInv /\ FirstHolds /\ [Next]_vars => FirstHolds'
  <1> SUFFICES ASSUME RunInv, FirstHolds, [Next]_vars, chain' = "finalizer" PROVE FirstHolds'
    BY DEF FirstHolds
  <1>1. CASE Next
    <2>1. chain' = chain /\ Moves /\ chain = "finalizer"
      BY <1>1, EveryMove
    <2>2. /\ \A r \in DOMAIN rows : rows[r].stage = "prep" => StartIsHeld
          /\ flow.at = "create" /\ flow.stage = "prep" => flow.text = "started" \/ StartIsHeld
          /\ flow.at = "next" /\ flow.stage = "prep" => StartIsHeld
          /\ StartIsHeld => StartIsHeld'
      BY <2>1, HeldStays DEF FirstHolds
    <2>3. flow.at # "idle" => flow.stage \in {"start", "prep", "review"}
      BY <2>1 DEF RunInv, Control, StagesOf
    <2>4. flow \in Flows
      BY DEF RunInv, RunTypes
    <2>5. \A r \in DOMAIN rows' : rows'[r].stage = "prep" => StartIsHeld'
      <3>1. CASE Create
        <4>1. /\ DOMAIN rows' = DOMAIN rows \cup {Len(rows) + 1}
              /\ \A r \in DOMAIN rows : rows'[r] = rows[r]
              /\ rows'[Len(rows) + 1].stage = flow.stage
              /\ rows'[Len(rows) + 1].marked = (flow.text = "started")
          BY <2>1, <3>1, CreateRows
        <4>2. flow.at = "create"
          BY <3>1 DEF Create
        <4>3. flow.stage = "prep" => StartIsHeld'
          <5>1. CASE flow.text = "started"
            BY <4>1, <5>1 DEF StartIsHeld
          <5> QED BY <2>2, <4>2, <5>1
        <4> QED BY <2>2, <4>1, <4>3
      <3>2. CASE ~Create
        <4>1. DOMAIN rows' = DOMAIN rows /\ \A r \in DOMAIN rows : rows'[r].stage = rows[r].stage
          BY <2>1, <3>2, RowsMove DEF Moved
        <4> QED BY <2>2, <4>1
      <3> QED BY <3>1, <3>2
    <2>6. ASSUME flow'.at \in {"create", "next"}, flow'.stage = "prep"
          PROVE  (flow'.at = "create" /\ flow'.text = "started") \/ StartIsHeld'
      <3>1. CASE Hands
        <4>1. flow.at = "next"
          BY <3>1 DEF Hands
        <4>2. CASE flow.stage = "prep"
          BY <2>2, <4>1, <4>2
        <4>3. CASE flow.stage # "prep"
          <5>1. CASE flow' = [flow EXCEPT !.at = "create", !.stage = "prep"] /\ flow.text = "started"
            BY <2>4, <5>1 DEF Flows
          <5>2. flow' # [flow EXCEPT !.at = "create"] /\ flow' # [flow EXCEPT !.at = "publish"]
            BY <2>4, <2>6, <4>3 DEF Flows
          <5>3. flow' # [flow EXCEPT !.at = "create", !.stage = "review"]
            BY <2>4, <2>6 DEF Flows
          <5>4. flow' # [flow EXCEPT !.at = "create", !.stage = "format"]
            BY <2>4, <2>6 DEF Flows
          <5> QED BY <3>1, <5>1, <5>2, <5>3, <5>4 DEF Hands
        <4> QED BY <4>2, <4>3
      <3>2. CASE TurnAnswers
        <4>1. flow.at = "turn" /\ flow'.stage = flow.stage
          <5>1. PICK text \in Texts : flow' = [flow EXCEPT !.at = "next", !.text = text]
            BY <3>2, AnsweredRows
          <5> QED BY <2>4, <3>2, <5>1 DEF TurnAnswers, Flows
        <4>2. flow.row \in DOMAIN rows /\ rows[flow.row].stage = "prep"
          BY <2>6, <4>1 DEF RunInv, Control, InHand
        <4> QED BY <2>2, <4>2
      <3>3. CASE Continue
        <4>1. flow'.run \in DOMAIN rows /\ rows[flow'.run].stage = "prep"
          BY <2>6, <3>3, ContinueMoves
        <4> QED BY <2>2, <4>1
      <3>4. ~FallsBack
        BY <2>3 DEF FallsBack
      <3>5. ~Trigger
        <4>1. Trigger => flow' \in {Idle, Starts}
          BY DEF Trigger, Selects, LeftToThread
        <4>2. Starts.stage = "start" /\ Idle.stage = "none"
          BY <2>1 DEF Starts, Idle, First
        <4> QED BY <2>6, <4>1, <4>2
      <3>6. ~Create /\ ~TakeRow
        BY <2>6, CreateFlow, TakeRowMoves, Constants DEF Create
      <3>7. ~Posts
        BY <2>4, <2>6 DEF Posts, Flows
      <3>8. ~Ends /\ ~Lost /\ ~Resumed
        BY <2>6, Constants DEF Ends, Lost, Resumed
      <3>9. Boot \/ NextList \/ Close \/ Archive \/ Age => flow' = flow
        BY DEF Boot, NextList, Close, Archive, Age
      <3>10. CASE flow' = flow
        BY <2>2, <2>6, <3>10
      <3> QED BY <2>1, <3>1, <3>2, <3>3, <3>4, <3>5, <3>6, <3>7, <3>8, <3>9, <3>10 DEF Moves
    <2> QED BY <2>5, <2>6 DEF FirstHolds
  <1>2. CASE UNCHANGED vars
    BY <1>2 DEF vars, FirstHolds, StartIsHeld
  <1> QED BY <1>1, <1>2

LEMMA PreparationStep == RunInv /\ FirstHolds /\ Preparations /\ [Next]_vars => Preparations'
  <1> SUFFICES ASSUME RunInv, FirstHolds, Preparations, [Next]_vars, chain' = "finalizer",
                      ~StartIsForgotten'
               PROVE  Preparations'
    BY DEF Preparations
  <1>1. CASE Next
    <2>1. chain' = chain /\ Moves /\ chain = "finalizer" /\ ~StartIsForgotten
      BY <1>1, EveryMove, HeldStays
    <2>2. /\ \A p, q \in DOMAIN rows :
                rows[p].stage = "prep" /\ rows[q].stage = "prep" /\ p # q => Dead(p) \/ Dead(q)
          /\ flow.at = "create" /\ flow.stage = "prep" => NoPreparation
          /\ flow.at = "next" /\ flow.stage = "prep" /\ rows[flow.row].status = "failed"
                => NoPreparation
          /\ flow.by = "schedule" /\ flow.stage = "start"
                => \A r \in DOMAIN rows : rows[r].stage # "prep"
      BY <2>1 DEF Preparations
    <2>3. flow.at # "idle" => flow.stage \in {"start", "prep", "review"} /\ flow.by # "none"
      BY <2>1 DEF RunInv, Control, StagesOf
    <2>4. CASE Create
      <3>1. /\ DOMAIN rows' = DOMAIN rows \cup {Len(rows) + 1}
            /\ \A q \in DOMAIN rows : rows'[q] = rows[q]
            /\ rows'[Len(rows) + 1].stage = flow.stage
        BY <2>1, <2>4, CreateRows
      <3>2. flow.at = "create" /\ flow'.at = "turn" /\ flow'.stage = flow.stage /\ flow'.by = flow.by
        BY <2>4, CreateFlow DEF Create
      <3>3. \A p, q \in DOMAIN rows' :
               rows'[p].stage = "prep" /\ rows'[q].stage = "prep" /\ p # q => Dead(p)' \/ Dead(q)'
        BY <2>2, <3>1, <3>2 DEF Dead, NoPreparation
      <3>4. flow'.by = "schedule" /\ flow'.stage = "start"
               => \A r \in DOMAIN rows' : rows'[r].stage # "prep"
        BY <2>2, <3>1, <3>2
      <3> QED BY <3>2, <3>3, <3>4 DEF Preparations
    <2>5. CASE ~Create
      <3>1. DOMAIN rows' = DOMAIN rows /\ \A r \in DOMAIN rows : rows'[r].stage = rows[r].stage
              /\ (Dead(r) => Dead(r)')
        BY <2>1, <2>5, RowsMove DEF Moved, Dead, Unfinished
      <3>2. /\ \A p, q \in DOMAIN rows' :
                  rows'[p].stage = "prep" /\ rows'[q].stage = "prep" /\ p # q => Dead(p)' \/ Dead(q)'
            /\ NoPreparation => NoPreparation'
        BY <2>2, <3>1 DEF NoPreparation
      <3>3. ASSUME flow'.at = "create", flow'.stage = "prep" PROVE NoPreparation
        <4>1. CASE Hands
          <5>1. flow.at = "next" /\ flow \in Flows
            BY <4>1 DEF Hands, RunInv, RunTypes
          <5>2. CASE flow' = [flow EXCEPT !.at = "create"] /\ rows[flow.row].status = "failed"
            <6>1. flow.stage = "prep"
              BY <3>3, <5>1, <5>2 DEF Flows
            <6> QED BY <2>2, <5>1, <5>2, <6>1
          <5>3. CASE flow.stage = "start" /\ HandsOver
            <6>1. CASE flow.by = "schedule"
              BY <2>2, <5>3, <6>1 DEF NoPreparation
            <6>2. CASE flow.by = "continue"
              <7>1. ~HasPreparation
                BY <2>1, <5>3, <6>2 DEF HandsOver
              <7>2. ~StartIsHeld
                BY <2>1, <7>1 DEF HasPreparation, StartIsHeld, StartIsForgotten
              <7> QED BY <2>1, <7>2 DEF FirstHolds, NoPreparation
            <6>3. flow.by \in {"schedule", "continue"}
              BY <5>1 DEF Flows, RunInv, Control
            <6> QED BY <6>1, <6>2, <6>3
          <5>4. flow' # [flow EXCEPT !.at = "create", !.stage = "review"]
            BY <3>3, <5>1 DEF Flows
          <5>5. flow' # [flow EXCEPT !.at = "publish"]
            BY <3>3, <5>1 DEF Flows
          <5> QED BY <2>3, <4>1, <5>1, <5>2, <5>3, <5>4, <5>5 DEF Hands
        <4>2. CASE Trigger
          <5>1. flow' \in {Idle, Starts}
            BY <4>2 DEF Trigger, Selects, LeftToThread
          <5>2. Starts.stage = "start" /\ Idle.stage = "none"
            BY <2>1 DEF Starts, Idle, First
          <5> QED BY <3>3, <5>1, <5>2
        <4>3. CASE flow' = flow
          BY <2>2, <3>3, <4>3
        <4>4. CASE FallsBack
          BY <2>3, <4>4 DEF FallsBack
        <4>5. CASE flow' = Idle
          BY <3>3, <4>5, Constants
        <4>6. CASE TurnAnswers \/ Posts \/ TakeRow \/ Continue
          <5>1. ~TurnAnswers /\ ~Posts
            BY <3>3 DEF TurnAnswers, Posts, RunInv, RunTypes, Flows
          <5>2. ~TakeRow /\ ~Continue
            BY <3>3, TakeRowMoves, ContinueMoves, Constants
          <5> QED BY <4>6, <5>1, <5>2
        <4>7. Ends \/ Lost \/ Resumed => flow' = Idle
          BY DEF Ends, Lost, Resumed
        <4>8. Boot \/ NextList \/ Close \/ Archive \/ Age => flow' = flow
          BY DEF Boot, NextList, Close, Archive, Age
        <4> QED BY <2>1, <2>5, <4>1, <4>2, <4>3, <4>4, <4>5, <4>6, <4>7, <4>8 DEF Moves
      <3>4. ASSUME flow'.at = "next", flow'.stage = "prep", rows'[flow'.row].status = "failed"
            PROVE  NoPreparation'
        <4>1. CASE TurnAnswers
          <5>1. /\ flow.at = "turn" /\ flow.by # "resume"
                /\ flow'.stage = flow.stage /\ flow'.row = flow.row
            BY <4>1 DEF TurnAnswers, RunInv, RunTypes, Flows
          <5>2. rows[flow.row].stage = "prep" /\ ~Dead(flow.row) /\ flow.row \in DOMAIN rows
            BY <3>4, <5>1 DEF RunInv, Control, InHand, Dead
          <5>3. \A r \in DOMAIN rows : rows[r].stage = "prep" /\ r # flow.row => Dead(r)
            BY <2>2, <5>2
          <5> QED BY <3>1, <3>4, <5>1, <5>3 DEF NoPreparation, Dead
        <4>2. CASE Continue
          <5>1. /\ flow'.run \in agenda.got /\ flow'.row = flow'.run /\ rows' = rows
            BY <4>2, ContinueMoves
          <5>2. rows[flow'.run].status # "failed"
            BY <5>1 DEF RunInv, InHand
          <5> QED BY <3>4, <5>1, <5>2
        <4>3. CASE flow' = flow
          <5>1. rows[flow.row].status = "failed"
            <6>1. flow.row \in DOMAIN rows
              BY <3>4, <4>3 DEF RunInv, Control
            <6>2. Boot \/ NextList \/ Close \/ Age => rows[flow.row].status = "failed"
              BY <3>4, <4>3, <6>1, SweptRows
            <6>3. Trigger \/ Posts \/ Hands \/ Archive \/ TakeRow => rows' = rows
              BY DEF Trigger, Posts, Hands, Archive, TakeRow
            <6>4. ~FallsBack
              BY <2>3 DEF FallsBack
            <6>5. ~Ends /\ ~Lost /\ ~Resumed
              BY <3>4, Constants DEF Ends, Lost, Resumed
            <6>6. ~TurnAnswers
              BY <3>4, <4>3 DEF TurnAnswers
            <6>7. Continue => rows' = rows
              BY DEF Continue
            <6> QED BY <2>1, <2>5, <3>4, <4>3, <6>2, <6>3, <6>4, <6>5, <6>6, <6>7 DEF Moves
          <5> QED BY <2>2, <3>2, <3>4, <4>3, <5>1
        <4>4. CASE flow' = Idle
          BY <3>4, <4>4, Constants
        <4>5. CASE Trigger
          <5>1. flow' \in {Idle, Starts}
            BY <4>5 DEF Trigger, Selects, LeftToThread
          <5>2. Starts.at = "create"
            BY DEF Starts, Idle
          <5> QED BY <3>4, <5>1, <5>2, Constants
        <4>6. CASE Hands \/ Posts \/ FallsBack
          <5>1. ~FallsBack
            BY <2>3 DEF FallsBack
          <5>2. ~Posts /\ ~Hands
            BY <3>4 DEF Posts, Hands, RunInv, RunTypes, Flows
          <5> QED BY <4>6, <5>1, <5>2
        <4>7. CASE TakeRow
          BY <3>4, <4>7, TakeRowMoves, Constants
        <4>8. Ends \/ Lost \/ Resumed => flow' = Idle
          BY DEF Ends, Lost, Resumed
        <4>9. Boot \/ NextList \/ Close \/ Archive \/ Age => flow' = flow
          BY DEF Boot, NextList, Close, Archive, Age
        <4> QED BY <2>1, <2>5, <4>1, <4>2, <4>3, <4>4, <4>5, <4>6, <4>7, <4>8, <4>9 DEF Moves
      <3>5. ASSUME flow'.by = "schedule", flow'.stage = "start"
            PROVE  \A r \in DOMAIN rows' : rows'[r].stage # "prep"
        <4>1. CASE Trigger
          <5>1. rows = <<>>
            BY <4>1 DEF Trigger, RunInv, Control
          <5> QED BY <3>1, <5>1
        <4>2. CASE flow'.by = flow.by /\ flow'.stage = flow.stage
          BY <2>2, <3>1, <3>5, <4>2
        <4>3. CASE flow' = Idle
          BY <3>5, <4>3, Constants
        <4>4. TurnAnswers \/ Posts => flow'.by = flow.by /\ flow'.stage = flow.stage
          BY DEF TurnAnswers, Posts, RunInv, RunTypes, Flows
        <4>5. Hands => flow'.by = flow.by /\ flow'.stage = flow.stage
          BY <3>5 DEF Hands, RunInv, RunTypes, Flows
        <4>6. ~FallsBack
          BY <2>3 DEF FallsBack
        <4>7. TakeRow => flow' = Idle
          BY <3>5, TakeRowMoves
        <4>8. ~Continue
          BY <3>5, ContinueMoves
        <4>9. Ends \/ Lost \/ Resumed => flow' = Idle
          BY DEF Ends, Lost, Resumed
        <4>10. Boot \/ NextList \/ Close \/ Archive \/ Age => flow' = flow
          BY DEF Boot, NextList, Close, Archive, Age
        <4> QED BY <2>1, <2>5, <4>1, <4>2, <4>3, <4>4, <4>5, <4>6, <4>7, <4>8, <4>9, <4>10 DEF Moves
      <3> QED BY <3>2, <3>3, <3>4, <3>5 DEF Preparations
    <2> QED BY <2>4, <2>5
  <1>2. CASE UNCHANGED vars
    BY <1>2 DEF vars, Preparations, Dead, NoPreparation, StartIsForgotten
  <1> QED BY <1>1, <1>2

(* A recovery hands a start over only when no preparation that holds it is in the *)
(* table, the first preparation holds it, and a preparation is repeated only      *)
(* after it failed: unless that first row was deleted, never two are alive.       *)
THEOREM StartIsHandedOverOnce == Spec => []HandedOverOnce
  <1>1. Init => Preparations /\ FirstHolds
    <2> SUFFICES ASSUME Init PROVE Preparations /\ FirstHolds
      OBVIOUS
    <2>1. rows = <<>> /\ flow = Idle
      BY DEF Init
    <2>2. DOMAIN rows = {}
      BY <2>1
    <2> QED BY <2>1, <2>2, Constants DEF Preparations, FirstHolds
  <1>2. Preparations => HandedOverOnce
    BY DEF Preparations, HandedOverOnce, Dead
  <1> QED BY <1>1, <1>2, FirstStep, PreparationStep, RunsAreTyped, PTL DEF Spec
--------------------------------------------------------------------------------
(* The digest: where its flow goes, what the recovery holds, what the rows are.  *)
LEMMA DigestFlows ==
    ASSUME RunInv, chain = "digest", chain' = chain, Moves
    PROVE  \/ flow' = flow
           \/ flow' = Idle /\ (Ends \/ Lost \/ Resumed)
           \/ /\ Trigger /\ flow.at = "idle" /\ flow'.at = "create" /\ flow'.stage = "forecast"
              /\ flow'.by = "schedule"
           \/ /\ Create /\ flow.at = "create" /\ flow'.at = "turn"
              /\ flow'.stage = flow.stage /\ flow'.by = flow.by
           \/ /\ flow.at = "turn" /\ flow'.at = "next"
              /\ flow'.stage = flow.stage /\ flow'.by = flow.by
           \/ /\ flow.at \in {"turn", "next"} /\ flow.stage = "forecast"
              /\ flow'.at = "create" /\ flow'.stage = "format" /\ flow'.by = flow.by
           \/ /\ flow.at \in {"turn", "next"} /\ flow.stage = "format"
              /\ flow'.at = "publish" /\ flow'.stage = "format" /\ flow'.by = flow.by
           \/ /\ Posts /\ flow.at = "publish" /\ flow'.at = "attach"
              /\ flow'.stage = flow.stage /\ flow'.by = flow.by
           \/ /\ TakeRow /\ flow.at = "idle" /\ flow'.at = "turn" /\ flow'.by = "resume"
              /\ flow'.row \in agenda.queue /\ flow'.stage = rows[flow'.row].stage
           \/ /\ Continue /\ flow.at = "idle" /\ flow'.at = "next" /\ flow'.by = "continue"
              /\ flow'.run \in agenda.got /\ flow'.stage = rows[flow'.run].stage
  <1>0. /\ flow \in Flows
        /\ flow.at # "idle" => flow.stage \in {"forecast", "format"}
    BY DEF RunInv, RunTypes, Control, StagesOf
  <1>1. CASE Trigger
    <2>1. flow = Idle /\ flow.at = "idle" /\ (flow' = Starts \/ flow' = flow)
      BY <1>1, Constants DEF Trigger, Selects, LeftToThread
    <2>2. Starts.at = "create" /\ Starts.stage = "forecast" /\ Starts.by = "schedule"
      BY DEF Starts, First, Idle
    <2> QED BY <1>1, <2>1, <2>2
  <1>2. CASE Create
    <2>1. flow.at = "create"
      BY <1>2 DEF Create
    <2> QED BY <1>2, <2>1, CreateFlow
  <1>3. CASE TurnAnswers
    <2>1. flow.at = "turn"
      BY <1>3 DEF TurnAnswers
    <2>2. PICK t \in Texts : flow' = [flow EXCEPT !.at = "next", !.text = t]
      BY <1>3, AnsweredRows
    <2>3. flow'.at = "next" /\ flow'.stage = flow.stage /\ flow'.by = flow.by
      BY <1>0, <2>2 DEF Flows
    <2> QED BY <2>1, <2>3
  <1>4. CASE FallsBack
    <2>1. flow.at = "turn" /\ flow.stage \in {"forecast", "format"}
      BY <1>4 DEF FallsBack
    <2>2. CASE flow.stage = "forecast"
      <3>1. flow' = [flow EXCEPT !.at = "create", !.stage = "format"]
        BY <1>4, <2>2 DEF FallsBack, NoForecast
      <3>2. flow'.at = "create" /\ flow'.stage = "format" /\ flow'.by = flow.by
        BY <1>0, <3>1 DEF Flows
      <3> QED BY <2>1, <2>2, <3>2
    <2>3. CASE flow.stage = "format"
      <3>1. flow' = [flow EXCEPT !.at = "publish", !.text = "digest"]
        BY <1>4, <2>3 DEF FallsBack, DraftAsItIs
      <3>2. flow'.at = "publish" /\ flow'.stage = flow.stage /\ flow'.by = flow.by
        BY <1>0, <3>1 DEF Flows
      <3> QED BY <2>1, <2>3, <3>2
    <2> QED BY <2>1, <2>2, <2>3
  <1>5. CASE Hands
    <2>1. flow.at = "next" /\ flow.stage \in {"forecast", "format"}
      BY <1>0, <1>5 DEF Hands
    <2>2. \/ flow.stage = "forecast" /\ flow' = [flow EXCEPT !.at = "create", !.stage = "format"]
          \/ flow.stage = "format" /\ flow' = [flow EXCEPT !.at = "publish"]
      BY <1>5, <2>1 DEF Hands
    <2>3. CASE flow.stage = "forecast" /\ flow' = [flow EXCEPT !.at = "create", !.stage = "format"]
      <3>1. flow'.at = "create" /\ flow'.stage = "format" /\ flow'.by = flow.by
        BY <1>0, <2>3 DEF Flows
      <3> QED BY <2>1, <2>3, <3>1
    <2>4. CASE flow.stage = "format" /\ flow' = [flow EXCEPT !.at = "publish"]
      <3>1. flow'.at = "publish" /\ flow'.stage = flow.stage /\ flow'.by = flow.by
        BY <1>0, <2>4 DEF Flows
      <3> QED BY <2>1, <2>4, <3>1
    <2> QED BY <2>2, <2>3, <2>4
  <1>6. CASE Posts
    <2>1. flow.at = "publish" /\ flow' = [flow EXCEPT !.at = "attach"]
      BY <1>6 DEF Posts
    <2>2. flow'.at = "attach" /\ flow'.stage = flow.stage /\ flow'.by = flow.by
      BY <1>0, <2>1 DEF Flows
    <2> QED BY <1>6, <2>1, <2>2
  <1>7. CASE TakeRow
    BY <1>7, TakeRowMoves, Constants
  <1>8. CASE Continue
    <2>1. /\ flow = Idle /\ flow'.at = "next" /\ flow'.by = "continue" /\ flow'.run \in agenda.got
          /\ flow'.run \in DOMAIN rows
          /\ \/ flow'.stage = rows[flow'.run].stage
             \/ {flow'.stage, rows[flow'.run].stage} = {"start", "review"}
      BY <1>8, ContinueMoves
    <2>2. rows[flow'.run].stage \in {"forecast", "format"}
      BY <2>1 DEF RunInv, RunTypes, StagesOf
    <2> QED BY <1>8, <2>1, <2>2, Constants
  <1>9. Ends \/ Lost \/ Resumed => flow' = Idle
    BY DEF Ends, Lost, Resumed
  <1>10. Boot \/ NextList \/ Close \/ Archive \/ Age => flow' = flow
    BY DEF Boot, NextList, Close, Archive, Age
  <1> QED BY <1>1, <1>2, <1>3, <1>4, <1>5, <1>6, <1>7, <1>8, <1>9, <1>10 DEF Moves

(* What the recovery holds grows only by a list it reads.                        *)
LEMMA DigestAgenda ==
    ASSUME RunInv, chain = "digest", chain' = chain, Moves
    PROVE  \/ /\ Held' \subseteq Held /\ agenda'.list = agenda.list
              /\ agenda'.got # {} => agenda.got # {} \/ agenda'.any
              /\ agenda.any => agenda'.any
              /\ proc' = proc
           \/ Held' = {} /\ agenda'.got = {} /\ (proc' = "boot" => Boot)
           \/ /\ NextList /\ flow = Idle /\ proc = "boot" /\ ~SkipsForecasts
              /\ agenda'.list = agenda.list + 1 /\ agenda.list \in {0, 1}
              /\ agenda'.queue = Listed(Lists["digest"][agenda.list + 1]) /\ agenda'.got = {}
              /\ Held' = agenda'.queue /\ flow' = flow /\ rows' = rows
              /\ missed' = (missed \/ (agenda.list = 1 /\ Listed("formatter") # {}))
  <1>0. agenda \in Agendas /\ flow \in Flows
    BY DEF RunInv, RunTypes
  <1>1. /\ flow'.by # "resume" => Held' = agenda'.queue \cup agenda'.got
        /\ flow.by # "resume" => Held = agenda.queue \cup agenda.got
        /\ flow.by = "resume" => Held = agenda.queue \cup agenda.got \cup {flow.row}
        /\ flow'.by = "resume" => Held' = agenda'.queue \cup agenda'.got \cup {flow'.row}
    BY DEF Held
  <1>2. CASE Trigger
    <2>1. UNCHANGED <<agenda, proc>> /\ flow = Idle
      BY <1>2 DEF Trigger
    <2>2. flow' \in {Idle, Starts}
      BY <1>2, <2>1 DEF Trigger, Selects, LeftToThread
    <2>3. flow'.by # "resume"
      BY <2>2, Constants DEF Starts, Idle
    <2> QED BY <1>1, <2>1, <2>3, Constants
  <1>3. CASE Create \/ TurnAnswers \/ FallsBack \/ Hands \/ Posts
    <2>1. flow.by # "resume"
      BY <1>3 DEF Create, TurnAnswers, FallsBack, Hands, Posts, RunInv, Control
    <2>2. flow' = flow \/ flow' = Idle \/ flow'.by = flow.by
      <3>1. flow.at # "idle"
        BY <1>3 DEF Create, TurnAnswers, FallsBack, Hands, Posts
      <3> QED BY <3>1, DigestFlows
    <2>3. /\ agenda'.queue = agenda.queue /\ agenda'.got = agenda.got
          /\ agenda'.list = agenda.list /\ agenda'.any = agenda.any /\ proc' = proc
      BY <1>0, <1>3 DEF Create, TurnAnswers, FallsBack, Hands, Posts, Agendas
    <2>4. flow'.by # "resume"
      BY <2>1, <2>2, Constants
    <2> QED BY <1>1, <2>1, <2>3, <2>4
  <1>4. CASE Ends
    <2>1. flow' = Idle /\ proc' = proc /\ (agenda' = agenda \/ agenda' = NextGot)
      BY <1>4 DEF Ends
    <2>2. /\ agenda'.queue = agenda.queue /\ agenda'.got \subseteq agenda.got
          /\ agenda'.list = agenda.list /\ agenda'.any = agenda.any
      BY <1>0, <2>1 DEF NextGot, Agendas
    <2> QED BY <1>1, <2>1, <2>2, Constants
  <1>5. CASE Lost
    <2>1. flow' = Idle /\ agenda' = NoAgenda /\ proc' = "down"
      BY <1>5 DEF Lost
    <2> QED BY <1>1, <2>1, Constants
  <1>6. CASE Boot
    <2>1. flow' = flow /\ agenda' = agenda /\ proc = "down"
      BY <1>6 DEF Boot
    <2>2. agenda = NoAgenda /\ flow.by # "resume"
      BY <2>1 DEF RunInv, Control
    <2> QED BY <1>1, <1>6, <2>1, <2>2, Constants
  <1>7. CASE NextList
    <2>1. /\ flow = Idle /\ flow' = flow /\ proc = "boot"
          /\ \/ agenda' = NoAgenda /\ proc' = "serving"
             \/ /\ agenda'.list = agenda.list + 1 /\ rows' = rows
                /\ agenda.list < Len(Lists["digest"]) /\ ~SkipsForecasts
                /\ agenda'.queue = Listed(Lists["digest"][agenda.list + 1]) /\ agenda'.got = {}
                /\ missed' = (missed \/ (agenda.list = 1 /\ Listed("formatter") # {}))
      BY <1>7, NextListAgenda
    <2>2. agenda.list < Len(Lists["digest"]) => agenda.list \in {0, 1}
      <3>1. Len(Lists["digest"]) = 2 /\ agenda.list \in Nat
        BY <1>0 DEF Lists, Agendas
      <3> QED BY ONLY <3>1
    <2>3. Held' = agenda'.queue \cup agenda'.got
      BY <1>1, <2>1, Constants
    <2> QED BY <1>7, <2>1, <2>2, <2>3, Constants
  <1>8. CASE TakeRow
    <2>1. /\ flow = Idle /\ proc' = proc
      BY <1>8, TakeRowMoves
    <2>2. PICK r \in agenda.queue :
             /\ agenda'.list = agenda.list /\ agenda'.queue = agenda.queue \ {r}
             /\ \/ /\ flow' = Idle
                   /\ agenda'.got = agenda.got \cup {r} /\ agenda'.any
                \/ /\ flow'.by = "resume" /\ flow'.row = r
                   /\ agenda'.got = agenda.got /\ agenda'.any = agenda.any
      BY <1>8, TakeRowMoves
    <2>3. Held' \subseteq Held
      BY <1>1, <2>1, <2>2, Constants
    <2> QED BY <2>1, <2>2, <2>3
  <1>9. CASE Resumed
    <2>1. /\ flow.by = "resume" /\ flow' = Idle /\ proc' = proc
          /\ agenda'.list = agenda.list /\ agenda'.queue = agenda.queue
          /\ \/ agenda'.got = agenda.got \cup {flow.row} /\ agenda'.any
             \/ agenda'.got = agenda.got /\ agenda'.any = agenda.any
      BY <1>9, ResumedMoves
    <2> QED BY <1>1, <2>1, Constants
  <1>10. CASE Continue
    <2>1. flow = Idle /\ UNCHANGED <<proc, agenda>> /\ flow'.by = "continue"
      BY <1>10, ContinueMoves
    <2> QED BY <1>1, <2>1, Constants
  <1>11. CASE Close \/ Archive \/ Age
    <2>1. UNCHANGED <<flow, proc, agenda>>
      BY <1>11 DEF Close, Archive, Age
    <2> QED BY <1>1, <2>1
  <1> QED BY <1>2, <1>3, <1>4, <1>5, <1>6, <1>7, <1>8, <1>9, <1>10, <1>11 DEF Moves

(* A run once finished stays so, and a new one is that of the flow.              *)
LEMMA DigestRows ==
    ASSUME RunInv, chain' = chain, Moves
    PROVE  \/ /\ ~Create /\ DOMAIN rows' = DOMAIN rows
              /\ \A r \in DOMAIN rows : /\ rows'[r].stage = rows[r].stage
                                        /\ rows'[r].after = rows[r].after
                                        /\ rows'[r].marked = rows[r].marked
                                        /\ Formatting(r)' => Formatting(r)
              /\ NoFormatter => NoFormatter'
              /\ NoneUnfinished => NoneUnfinished'
           \/ /\ Create /\ DOMAIN rows' = DOMAIN rows \cup {Len(rows) + 1}
              /\ \A r \in DOMAIN rows : /\ rows'[r].stage = rows[r].stage
                                        /\ rows'[r].after = rows[r].after
                                        /\ rows'[r].marked = rows[r].marked
                                        /\ Formatting(r)' => Formatting(r)
              /\ rows'[Len(rows) + 1].stage = flow.stage
              /\ rows'[Len(rows) + 1].after = posts["digest"]
  <1>1. CASE Create
    BY <1>1, CreateRows DEF Formatting
  <1>2. CASE ~Create
    <2>1. Moved(rows')
      BY <1>2, RowsMove
    <2>2. /\ DOMAIN rows' = DOMAIN rows
          /\ \A r \in DOMAIN rows : /\ rows'[r].stage = rows[r].stage
                                    /\ rows'[r].after = rows[r].after
                                    /\ rows'[r].marked = rows[r].marked
                                    /\ rows'[r].status \in Unfinished => rows[r].status \in Unfinished
      BY <2>1 DEF Moved, Unfinished
    <2> QED BY <1>2, <2>2 DEF Formatting, NoFormatter, NoneUnfinished
  <1> QED BY <1>1, <1>2

(* A flow that is over leaves nothing to the recovery.                           *)
LEMMA EndsHeld ==
    ASSUME RunInv, OneAtHand, flow.at # "idle", flow.by # "resume",
           flow' = Idle, Ends \/ Lost \/ Resumed
    PROVE  Held' = {}
  <1>0. agenda \in Agendas
    BY DEF RunInv, RunTypes
  <1>1. CASE flow.by = "schedule"
    <2>1. agenda = NoAgenda
      BY <1>1 DEF RunInv, Control
    <2>2. agenda' = NoAgenda
      <3>1. Ends => agenda' = agenda
        BY <1>1, EndsRows
      <3> QED BY <1>1, <2>1, <3>1 DEF Lost, Resumed
    <2> QED BY <2>2, Constants DEF Held
  <1>2. CASE flow.by = "continue"
    <2>1. agenda.queue = {} /\ flow.run \in agenda.got /\ Held = agenda.got
      BY <1>2 DEF RunInv, Control, Held
    <2>2. agenda.got \ {flow.run} = {}
      BY <2>1 DEF OneAtHand
    <2>3. Ends => agenda' = NextGot
      BY <1>2, EndsRows
    <2>4. Lost => agenda' = NoAgenda
      BY DEF Lost
    <2>5. ~Resumed
      BY <1>2 DEF Resumed
    <2>6. agenda'.queue = {} /\ agenda'.got = {}
      BY <1>0, <2>1, <2>2, <2>3, <2>4, <2>5, Constants DEF NextGot, Agendas
    <2> QED BY <2>6, Constants DEF Held
  <1> QED BY <1>1, <1>2 DEF RunInv, RunTypes, Control, Flows

LEMMA OneOfEachStep ==
    ASSUME RunInv, chain = "digest", chain' = chain, Moves, OneOfEach, OneAtHand, OnePost
    PROVE  OneOfEach'
  <1>1. CASE ~Create
    BY <1>1, DigestRows DEF OneOfEach
  <1>2. CASE Create
    <2>1. /\ DOMAIN rows' = DOMAIN rows \cup {Len(rows) + 1}
          /\ \A r \in DOMAIN rows : /\ rows'[r].stage = rows[r].stage
                                    /\ rows'[r].after = rows[r].after
                                    /\ rows'[r].marked = rows[r].marked
                                    /\ Formatting(r)' => Formatting(r)
          /\ rows'[Len(rows) + 1].stage = flow.stage
          /\ rows'[Len(rows) + 1].after = posts["digest"]
      BY <1>2, DigestRows
    <2>2. flow.at = "create" /\ posts["digest"] = 0
      BY <1>2 DEF Create, OnePost, RunInv, RunTypes, Posted, Kinds
    <2>3. NoFormatter /\ (flow.stage = "forecast" => rows = <<>>)
      BY <2>2 DEF OneAtHand
    <2>4. flow.stage = "forecast" => DOMAIN rows = {}
      BY <2>3
    <2>5. \A r \in DOMAIN rows' : rows'[r].after = 0
      BY <2>1, <2>2 DEF OneOfEach
    <2>6. \A p, q \in DOMAIN rows' :
             rows'[p].stage = "forecast" /\ rows'[q].stage = "forecast" => p = q
      BY <2>1, <2>4 DEF OneOfEach
    <2>7. \A p, q \in DOMAIN rows' : Formatting(p)' /\ Formatting(q)' => p = q
      BY <2>1, <2>3 DEF NoFormatter
    <2> QED BY <2>5, <2>6, <2>7 DEF OneOfEach
  <1> QED BY <1>1, <1>2

LEMMA OneAtHandStep ==
    ASSUME RunInv, chain = "digest", chain' = chain, Moves, OneOfEach, OneAtHand, OnePost,
           ~missed, ~missed'
    PROVE  OneAtHand'
  <1>0. /\ flow \in Flows /\ agenda \in Agendas
        /\ flow.at = "idle" => flow = Idle
        /\ Held \subseteq DOMAIN rows
        /\ flow.at # "idle" => flow.stage \in {"forecast", "format"} /\ flow.by # "none"
        /\ flow.at = "turn" => rows[flow.row].stage = flow.stage
    BY DEF RunInv, RunTypes, Control, InHand, Held, StagesOf
  <1>1. ASSUME flow'.at = "create", flow'.stage = "forecast" PROVE rows' = <<>>
    <2>1. CASE flow' = flow
      <3>1. rows = <<>>
        BY <1>1, <2>1 DEF OneAtHand
      <3>2. ~Create
        BY <1>1, <2>1, CreateFlow
      <3>3. Moved(rows')
        BY <3>2, RowsMove
      <3> QED BY <3>1, <3>3 DEF Moved
    <2>2. CASE Trigger
      BY <2>2 DEF Trigger, RunInv, Control
    <2> QED BY <1>1, <2>1, <2>2, DigestFlows, Constants
  <1>2. ASSUME flow'.at = "create" \/ flow'.stage = "forecast" PROVE NoFormatter'
    <2>1. CASE flow.at = "create" \/ flow.stage = "forecast"
      <3>1. NoFormatter
        BY <2>1 DEF OneAtHand
      <3>2. CASE ~Create
        BY <3>1, <3>2, DigestRows
      <3>3. CASE Create
        <4>1. flow'.at = "turn" /\ flow'.stage = flow.stage
          BY <3>3, CreateFlow
        <4>2. flow.stage = "forecast"
          BY <1>2, <4>1
        <4>3. /\ DOMAIN rows' = DOMAIN rows \cup {Len(rows) + 1}
              /\ \A r \in DOMAIN rows : Formatting(r)' => Formatting(r)
              /\ rows'[Len(rows) + 1].stage = "forecast"
          BY <3>3, <4>2, DigestRows
        <4> QED BY <3>1, <4>3 DEF NoFormatter, Formatting
      <3> QED BY <3>2, <3>3
    <2>2. CASE Trigger
      <3>1. rows' = <<>>
        BY <2>2 DEF Trigger, RunInv, Control
      <3>2. DOMAIN rows' = {}
        BY <3>1
      <3> QED BY <3>2 DEF NoFormatter
    <2>3. CASE TakeRow \/ Continue
      <3>1. PICK r \in Held : flow'.stage = rows[r].stage /\ flow.at = "idle" /\ flow'.at # "create"
        BY <1>2, <2>1, <2>3, DigestFlows, Constants DEF Held, Trigger, Create, Posts, TakeRow, Continue
      <3>2. rows[r].stage = "forecast" /\ Held # {}
        BY <1>2, <3>1
      <3>3. agenda.list # 1
        BY <3>1, <3>2 DEF OneAtHand
      <3>4. NoFormatter
        BY <3>1, <3>2, <3>3 DEF OneAtHand
      <3>5. rows' = rows
        BY <2>3 DEF TakeRow, Continue
      <3> QED BY <3>4, <3>5 DEF NoFormatter, Formatting
    <2> QED BY <1>2, <2>1, <2>2, <2>3, DigestFlows, Constants
  <1>3. CASE /\ Held' \subseteq Held /\ agenda'.list = agenda.list
             /\ agenda'.got # {} => agenda.got # {} \/ agenda'.any
             /\ agenda.any => agenda'.any
    <2>1. \A p, q \in Held' : p = q
      BY <1>3 DEF OneAtHand
    <2>2. \A p \in Held' : rows'[p].stage = IF agenda'.list = 1 THEN "format" ELSE "forecast"
      <3>1. \A r \in DOMAIN rows : rows'[r].stage = rows[r].stage
        BY DigestRows
      <3> QED BY <1>0, <1>3, <3>1 DEF OneAtHand
    <2>3. ASSUME agenda'.list # 1, flow'.at = "idle", Held' # {} PROVE NoFormatter'
      <3>1. NoFormatter
        <4>1. Held # {} /\ agenda.list # 1
          BY <1>3, <2>3
        <4>2. CASE flow.at = "idle"
          BY <4>1, <4>2 DEF OneAtHand
        <4>3. CASE flow.at # "idle"
          <5>1. flow' = Idle /\ (Ends \/ Lost \/ Resumed)
            BY <2>3, <4>3, DigestFlows
          <5>2. CASE flow.by = "resume"
            <6>1. flow.row \in Held /\ flow.at = "turn"
              BY <5>2 DEF Held, RunInv, Control
            <6>2. flow.stage = "forecast"
              BY <1>0, <4>1, <6>1 DEF OneAtHand
            <6> QED BY <6>2 DEF OneAtHand
          <5> QED BY <2>3, <4>3, <5>1, <5>2, EndsHeld
        <4> QED BY <4>2, <4>3
      <3>2. ~Create
        BY <2>3, CreateFlow
      <3> QED BY <3>1, <3>2, DigestRows
    <2>4. agenda'.got # {} => agenda'.any
      BY <1>3 DEF OneAtHand
    <2> QED BY <1>1, <1>2, <2>1, <2>2, <2>3, <2>4 DEF OneAtHand
  <1>4. CASE Held' = {} /\ agenda'.got = {}
    BY <1>1, <1>2, <1>4 DEF OneAtHand
  <1>5. CASE /\ NextList /\ flow = Idle
             /\ agenda'.list = agenda.list + 1 /\ agenda.list \in {0, 1}
             /\ agenda'.queue = Listed(Lists["digest"][agenda.list + 1]) /\ agenda'.got = {}
             /\ Held' = agenda'.queue /\ rows' = rows
             /\ missed' = (missed \/ (agenda.list = 1 /\ Listed("formatter") # {}))
    <2>1. \A r \in DOMAIN rows : rows[r].stage \in {"forecast", "format"}
      BY DEF RunInv, RunTypes, StagesOf
    <2>2. CASE agenda.list = 0
      <3>1. agenda'.list = 1 /\ Held' = Listed("formatter")
        BY <1>5, <2>2 DEF Lists
      <3>2. \A p \in Held' : p \in DOMAIN rows /\ Formatting(p)
        BY <2>1, <3>1 DEF Listed, Formatting, Job
      <3>3. \A p, q \in Held' : p = q
        BY <3>2 DEF OneOfEach
      <3>4. \A p \in Held' : rows'[p].stage = "format"
        BY <1>5, <3>2 DEF Formatting
      <3> QED BY <1>1, <1>2, <1>5, <3>1, <3>3, <3>4 DEF OneAtHand
    <2>3. CASE agenda.list = 1
      <3>0. missed' = (missed \/ (agenda.list = 1 /\ Listed("formatter") # {}))
        BY <1>5
      <3>1. agenda'.list = 2 /\ Held' = Listed("forecaster") /\ Listed("formatter") = {}
        <4>1. Listed("formatter") = {}
          BY <2>3, <3>0
        <4>2. Lists["digest"][2] = "forecaster"
          BY DEF Lists
        <4> QED BY <1>5, <2>3, <4>1, <4>2
      <3>2. \A p \in Held' : p \in DOMAIN rows /\ rows[p].stage = "forecast"
        BY <2>1, <3>1 DEF Listed, Job
      <3>3. \A p, q \in Held' : p = q
        BY <3>2 DEF OneOfEach
      <3>4. NoFormatter
        BY <3>1 DEF Listed, NoFormatter, Formatting, Job
      <3>5. NoFormatter'
        BY <1>5, <3>4 DEF NoFormatter, Formatting
      <3> QED BY <1>1, <1>2, <1>5, <3>1, <3>2, <3>3, <3>5 DEF OneAtHand
    <2> QED BY <1>5, <2>2, <2>3
  <1> QED BY <1>3, <1>4, <1>5, DigestAgenda

LEMMA OnePostStep ==
    ASSUME RunInv, chain = "digest", chain' = chain, Moves, OneOfEach, OneAtHand, OnePost,
           OneAtHand', ~missed, ~missed'
    PROVE  OnePost'
  <1>0. /\ posts["digest"] \in Nat /\ archived \in Nat
        /\ agenda = NoAgenda \/ proc = "boot"
    BY DEF RunInv, RunTypes, Posted, Kinds, Control
  <1>1. /\ ~Posts => posts'["digest"] = posts["digest"]
        /\ ~Archive => archived' = archived
        /\ due' => due
    <2>1. posts' = posts \/ SamePosts \/ Posts
      <3>1. Trigger => \/ UNCHANGED posts
                       \/ posts' = [posts EXCEPT !["failure"] = posts["failure"] + 1]
        BY DEF Trigger, Selects, LeftToThread
      <3>2. Trigger => SamePosts
        BY <3>1, PostsKept DEF RunInv
      <3> QED BY <3>2 DEF Moves, Create, TurnAnswers, FallsBack, Hands, Ends, Lost, Boot, NextList,
                          TakeRow, Resumed, Continue, Close, Archive, Age
    <2>2. archived' = archived \/ Archive
      BY DEF Moves, Trigger, Create, TurnAnswers, FallsBack, Hands, Posts, Ends, Lost, Boot, NextList,
             TakeRow, Resumed, Continue, Close, Age, Frame
    <2>3. due' => due
      BY DEF Moves, Trigger, Create, TurnAnswers, FallsBack, Hands, Posts, Ends, Lost, Boot, NextList,
             TakeRow, Resumed, Continue, Close, Archive, Age, Frame
    <2> QED BY <2>1, <2>2, <2>3 DEF SamePosts
  <1>2. CASE Posts
    <2>1. flow.at = "publish" /\ proc' = proc
      BY <1>2 DEF Posts
    <2>2. posts["digest"] = 0 /\ archived = 0 /\ archived' = 0
      BY <1>0, <1>2, <2>1 DEF OnePost, Posts, Frame
    <2>3. posts'["digest"] \in {0, 1}
      BY <1>2, <2>2, PostFacts
    <2>4. ~due /\ flow'.at = "attach"
      BY <1>2, <2>1, DigestFlows, Constants DEF RunInv, RunTypes, Control, Flows, Posts
    <2>5. ASSUME proc' = "boot" PROVE agenda'.any
      <3>1. flow.by = "continue"
        BY <2>1, <2>5 DEF RunInv, RunTypes, Control, Flows
      <3>2. agenda.got # {}
        BY <3>1 DEF RunInv, Control
      <3>3. agenda'.any = agenda.any
        BY <1>2 DEF Posts, RunInv, RunTypes, Agendas
      <3> QED BY <3>2, <3>3 DEF OneAtHand
    <2> QED BY <1>1, <2>2, <2>3, <2>4, <2>5 DEF OnePost
  <1>3. CASE ~Posts
    <2>1. posts'["digest"] <= 1 /\ archived' <= posts'["digest"]
      <3>1. Archive => archived' = posts["digest"]
        BY DEF Archive
      <3> QED BY <1>0, <1>1, <1>3, <3>1 DEF OnePost
    <2> SUFFICES ASSUME posts["digest"] = 1
                 PROVE  /\ ~due'
                        /\ flow'.at \in {"idle", "attach"}
                        /\ flow'.at = "idle" => Held' = {}
                        /\ proc' = "boot" => agenda'.list = 2 \/ agenda'.any \/ NoneUnfinished'
      BY <1>1, <1>3, <2>1 DEF OnePost
    <2>2. /\ ~due /\ flow.at \in {"idle", "attach"} /\ (flow.at = "idle" => Held = {})
          /\ proc = "boot" => agenda.list = 2 \/ agenda.any \/ NoneUnfinished
      BY DEF OnePost
    <2>3. ~Create /\ ~Trigger /\ ~TakeRow /\ ~Continue
      <3>1. ~Trigger
        BY <2>2 DEF Trigger
      <3>2. ~TakeRow
        BY <2>2, TakeRowMoves, Constants DEF Held
      <3>3. ~Continue
        BY <2>2, ContinueMoves, Constants DEF Held
      <3> QED BY <2>2, <3>1, <3>2, <3>3 DEF Create
    <2>4. flow' = flow \/ (flow' = Idle /\ (Ends \/ Lost \/ Resumed))
      BY <1>3, <2>2, <2>3, DigestFlows
    <2>5. NoneUnfinished => NoneUnfinished'
      BY <2>3, DigestRows
    <2>6. ASSUME NextList, proc = "boot", ~SkipsForecasts, agenda.list \in {0, 1}
          PROVE  NoneUnfinished
      <3>1. agenda.list = 0 => ~agenda.any
        BY Constants DEF RunInv, Control
      <3> QED BY <2>2, <2>6, <3>1 DEF SkipsForecasts
    <2>7. ASSUME Boot PROVE NoneUnfinished'
      <3>1. /\ rows' = GivenUp
            /\ missed' = (missed \/ /\ posts["digest"] > archived
                                     /\ \E r \in DOMAIN rows : GivenUp[r].status \in Unfinished)
        BY <2>7 DEF Boot
      <3>2. DOMAIN rows' = DOMAIN rows
        BY <3>1 DEF GivenUp
      <3>3. CASE archived = 0
        <4>0. posts["digest"] > archived
          BY <3>3
        <4>1. ~\E r \in DOMAIN rows : GivenUp[r].status \in Unfinished
          BY <3>1, <4>0
        <4> QED BY <3>1, <3>2, <4>1 DEF NoneUnfinished
      <3>4. CASE archived # 0
        <4>1. archived = 1
          BY <1>0, <3>4 DEF OnePost
        <4>2. \A r \in DOMAIN rows : Discards(r)
          BY <4>1 DEF OneOfEach, Discards
        <4>3. ASSUME NEW r \in DOMAIN rows, rows'[r].status \in Unfinished PROVE FALSE
          <5>1. rows'[r] = IF rows[r].status \in Unfinished
                           THEN [rows[r] EXCEPT !.status = "abandoned"] ELSE rows[r]
            BY <3>1, <4>2 DEF GivenUp
          <5>2. rows[r] \in Rows
            BY RowType
          <5>3. rows'[r].status = IF rows[r].status \in Unfinished
                                  THEN "abandoned" ELSE rows[r].status
            BY <5>1, <5>2 DEF Rows
          <5> QED BY <4>3, <5>3 DEF Unfinished
        <4> QED BY <3>2, <4>3 DEF NoneUnfinished
      <3> QED BY <3>3, <3>4
    <2>8. flow'.at = "idle" => Held' = {}
      <3>1. CASE flow.at # "idle"
        <4>1. flow.by # "resume"
          BY <2>2, <3>1 DEF RunInv, Control
        <4> QED BY <2>4, <3>1, <4>1, EndsHeld
      <3>2. CASE flow.at = "idle"
        <4>1. Held = {}
          BY <2>2, <3>2
        <4>2. ASSUME NextList, proc = "boot", ~SkipsForecasts, agenda.list \in {0, 1},
                     Held' = Listed(Lists["digest"][agenda.list + 1])
              PROVE  Held' = {}
          BY <2>6, <4>2 DEF Listed, NoneUnfinished
        <4> QED BY <4>1, <4>2, DigestAgenda
      <3> QED BY <3>1, <3>2
    <2>9. proc' = "boot" => agenda'.list = 2 \/ agenda'.any \/ NoneUnfinished'
      <3>1. ASSUME NextList, proc = "boot", ~SkipsForecasts, agenda.list \in {0, 1}
            PROVE  NoneUnfinished'
        BY <2>5, <2>6, <3>1
      <3> QED BY <2>2, <2>5, <2>7, <3>1, DigestAgenda
    <2> QED BY <1>1, <2>2, <2>4, <2>8, <2>9, Constants
  <1> QED BY <1>2, <1>3

LEMMA OneDigestStep == RunInv /\ OneDigest /\ [Next]_vars => OneDigest'
  <1> SUFFICES ASSUME RunInv, OneDigest, [Next]_vars, chain' = "digest", ~missed'
               PROVE  OneOfEach' /\ OneAtHand' /\ OnePost'
    BY DEF OneDigest
  <1>1. CASE Next
    <2>1. chain' = chain /\ chain = "digest" /\ Moves
      BY <1>1, EveryMove
    <2>2. ~missed
      BY <2>1 DEF Moves, Trigger, Create, TurnAnswers, FallsBack, Hands, Posts, Ends, Lost, Boot,
                  NextList, TakeRow, Resumed, Continue, Close, Archive, Age, Frame
    <2>3. OneOfEach /\ OneAtHand /\ OnePost
      BY <2>1, <2>2 DEF OneDigest
    <2>4. OneOfEach'
      BY <2>1, <2>3, OneOfEachStep
    <2>5. OneAtHand'
      BY <2>1, <2>2, <2>3, OneAtHandStep
    <2>6. OnePost'
      BY <2>1, <2>2, <2>3, <2>5, OnePostStep
    <2> QED BY <2>4, <2>5, <2>6
  <1>2. CASE UNCHANGED vars
    BY <1>2 DEF vars, OneDigest, OneOfEach, OneAtHand, OnePost, NoFormatter, NoneUnfinished,
                Formatting, Held
  <1> QED BY <1>1, <1>2

LEMMA DigestTextsStep == RunInv /\ DigestTexts /\ [Next]_vars => DigestTexts'
  <1> SUFFICES ASSUME RunInv, DigestTexts, [Next]_vars, chain' # "digest"
               PROVE  /\ posts'["digest"] = 0
                      /\ flow'.text # "digest"
                      /\ \A r \in DOMAIN rows' : rows'[r].text # "digest"
    BY DEF DigestTexts
  <1>1. CASE Next
    <2>1. chain' = chain /\ Moves /\ chain # "digest"
      BY <1>1, EveryMove
    <2>2. /\ posts["digest"] = 0 /\ flow.text # "digest" /\ flow \in Flows
          /\ \A r \in DOMAIN rows : rows[r].text # "digest"
          /\ flow.at # "idle" => flow.stage \in {"start", "prep", "review", "audit"}
          /\ Idle.text # "digest"
      BY <2>1, Constants DEF DigestTexts, RunInv, RunTypes, Control, StagesOf
    <2>3. ~Create => DOMAIN rows' = DOMAIN rows
      BY <2>1, RowsMove DEF Moved
    <2>4. CASE Trigger
      <3>1. \/ UNCHANGED posts
            \/ posts' = [posts EXCEPT !["failure"] = posts["failure"] + 1]
        BY <2>4 DEF Trigger, Selects, LeftToThread
      <3>2. SamePosts
        BY <3>1, PostsKept DEF RunInv
      <3>3. rows' = rows /\ flow' \in {flow, Starts}
        BY <2>4 DEF Trigger, Selects, LeftToThread
      <3>4. Starts.text = "none"
        BY DEF Starts, Idle
      <3> QED BY <2>2, <3>2, <3>3, <3>4 DEF SamePosts
    <2>5. CASE Create
      <3>1. posts' = posts /\ flow'.text = "none"
        BY <2>5, CreateFlow DEF Create
      <3>2. /\ DOMAIN rows' = DOMAIN rows \cup {Len(rows) + 1}
            /\ \A r \in DOMAIN rows : rows'[r] = rows[r]
            /\ rows'[Len(rows) + 1].text = "none"
        BY <2>1, <2>5, CreateRows
      <3> QED BY <2>2, <3>1, <3>2
    <2>6. CASE TurnAnswers
      <3>1. posts' = posts /\ flow.at = "turn"
        BY <2>6 DEF TurnAnswers
      <3>2. PICK t \in Answers(flow.stage) \cap Texts :
               /\ flow' = [flow EXCEPT !.at = "next", !.text = Terminal(t)]
               /\ rows'[flow.row].text \in {t, rows[flow.row].text}
        BY <2>6, AnsweredRows
      <3>3. \A r \in DOMAIN rows : r # flow.row => rows'[r] = rows[r]
        BY <2>6, AnsweredRows
      <3>4. "digest" \notin Answers(flow.stage)
        BY <2>2, <3>1 DEF Answers, StartAnswers, PrepAnswers, ReviewAnswers
      <3>5. flow'.text = Terminal(t)
        BY <2>2, <3>2 DEF Flows
      <3>6. t # "digest" /\ Terminal(t) # "digest"
        BY <3>4 DEF Terminal
      <3>7. flow.row \in DOMAIN rows
        BY <2>6, AnsweredRows
      <3>8. DOMAIN rows' = DOMAIN rows
        BY <2>3, <2>6 DEF TurnAnswers, Create
      <3> QED BY <2>2, <3>1, <3>2, <3>3, <3>5, <3>6, <3>7, <3>8
    <2>7. ~FallsBack
      BY <2>2 DEF FallsBack
    <2>8. CASE Hands
      <3>1. flow'.text = flow.text
        BY <2>2, <2>8 DEF Hands, Flows
      <3> QED BY <2>2, <2>8, <3>1 DEF Hands
    <2>9. CASE Posts
      <3>1. posts'["digest"] = posts["digest"]
        BY <2>2, <2>9, PostFacts
      <3>2. rows' = rows /\ flow'.text = flow.text
        BY <2>2, <2>9 DEF Posts, Flows
      <3> QED BY <2>2, <3>1, <3>2
    <2>10. CASE Ends \/ Lost
      <3>1. flow' = Idle /\ posts'["digest"] = posts["digest"] /\ ~Create
        BY <2>10, CreateFlow, Constants DEF Ends, Lost, SamePosts
      <3>2. \A r \in DOMAIN rows : rows'[r].text = rows[r].text
        BY <2>10, EndsRows, ShutFacts DEF Lost
      <3> QED BY <2>2, <2>3, <3>1, <3>2
    <2>11. CASE Boot \/ NextList \/ Close \/ Age
      <3>1. flow' = flow /\ posts' = posts /\ ~Create
        BY <2>11 DEF Boot, NextList, Close, Age, Create
      <3>2. \A r \in DOMAIN rows : rows'[r].text = rows[r].text
        BY <2>11, SweptRows
      <3> QED BY <2>2, <2>3, <3>1, <3>2
    <2>12. CASE TakeRow
      BY <2>2, <2>12, TakeRowMoves
    <2>13. CASE Resumed
      <3>1. /\ flow' = Idle /\ posts' = posts /\ flow.at = "turn" /\ ~Create
        BY <2>13 DEF Resumed, Create
      <3>2. /\ \A r \in DOMAIN rows : r # flow.row => rows'[r] = rows[r]
            /\ flow.row \in DOMAIN rows
            /\ rows'[flow.row].text # "digest"
        BY <2>2, <2>13, <3>1, ResumedRows
      <3> QED BY <2>2, <2>3, <3>1, <3>2
    <2>14. CASE Continue
      BY <2>2, <2>14, ContinueMoves
    <2>15. CASE Archive
      BY <2>2, <2>15 DEF Archive
    <2> QED BY <2>1, <2>4, <2>5, <2>6, <2>7, <2>8, <2>9, <2>10, <2>11, <2>12, <2>13, <2>14, <2>15
            DEF Moves
  <1>2. CASE UNCHANGED vars
    BY <1>2 DEF vars, DigestTexts
  <1> QED BY <1>1, <1>2

(* While no recovery misses a digest, one formatter at most is unfinished and     *)
(* none is after the post, so no restart posts a second digest.                  *)
THEOREM DigestIsPostedOnce == Spec => []DigestOnce
  <1>1. Init => OneDigest /\ DigestTexts
    <2> SUFFICES ASSUME Init PROVE OneDigest /\ DigestTexts
      OBVIOUS
    <2>1. /\ rows = <<>> /\ flow = Idle /\ agenda = NoAgenda /\ posts["digest"] = 0 /\ archived = 0
      BY DEF Init, Posted, Kinds
    <2>2. DOMAIN rows = {} /\ Held = {}
      BY <2>1, Constants DEF Held
    <2> QED BY <2>1, <2>2, Constants DEF OneDigest, OneOfEach, OneAtHand, OnePost, DigestTexts,
                                         NoFormatter
  <1>2. OneDigest /\ DigestTexts => DigestOnce
    BY DEF OneDigest, OnePost, DigestTexts, DigestOnce
  <1> QED BY <1>1, <1>2, OneDigestStep, DigestTextsStep, RunsAreTyped, PTL DEF Spec
================================================================================
