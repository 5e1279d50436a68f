------------------------ MODULE OperationsOutboxProofs ------------------------
(* What the operations log promises for any number of sources and losses of the  *)
(* collector: nothing is passed over, no run is lost after its result, and the    *)
(* channel shows a beginning of the table.                                       *)
EXTENDS OperationsOutbox, SequenceTheorems, FiniteSetTheorems, WellFoundedInduction, TLAPS

(* The writes there are.                                                        *)
Files  == Crons \X {"running", "finish"}
Tables == [edit : 0 .. Edits, wrapped : BOOLEAN]
Offsets == [inode : 0 .. 2, at : 0 .. Lines]

Writes ==    ({"emit"} \X Keys) \cup ({"mark", "unmark"} \X Crons) \cup ({"unlink"} \X Files)
        \cup ({"files"} \X SUBSET Files) \cup ({"markers"} \X SUBSET Crons)
        \cup ({"cursor", "time"} \X (1 .. Records))
        \cup ({"records"} \X (1 .. Records) \X (1 .. Records))
        \cup ({"offset"} \X (1 .. 2) \X (0 .. Lines)) \cup ({"childOffset"} \X (0 .. Lines))
        \cup ({"recheck", "replace"} \X Tables)

TableTypes ==
    /\ events \in Seq(Keys)
    /\ todo \in Seq(Writes)
    /\ job \in DOMAIN Place \cup {"ended"}

SourceTypes ==
    /\ cron \in [Crons -> {"idle", "running", "finished", "killed", "exited"}]
    /\ spool \subseteq Files /\ markers \subseteq Crons /\ torn \subseteq Crons
    /\ journal \in 0 .. Records /\ cursor \in 0 .. Records /\ time \in 0 .. Records
    /\ base \in 0 .. journal
    /\ file \in [inode : 1 .. 2, lines : 0 .. Lines] /\ written \in 0 .. Lines
    /\ file.lines <= written
    /\ offset \in Offsets /\ skipped \in Offsets
    /\ unread \in 0 .. Lines
    /\ child \in 0 .. Lines /\ childAt \in 0 .. Lines
    /\ slot \in 1 .. Slots
    /\ usage \in 0 .. slot
    /\ crontab \in Tables /\ edits \in 0 .. Edits
    /\ boots \in 0 .. Crashes

OutboxTypes == TableTypes /\ SourceTypes

(* A key is recorded, or will be before the write at a place.                   *)
Behind(key, i) == Has(key) \/ \E j \in DOMAIN todo : j < i /\ todo[j] = Emit(key)
Listed(f, i)   == i \in DOMAIN todo /\ todo[i][1] = "files" /\ f \in todo[i][2]

(* The journal's cursors never pass a record that is not recorded.               *)
Recorded(p, i) == \A q \in base + 1 .. p : q \notin Noise => Behind(<<"journal", q>>, i)

JournalInv ==
    /\ \A q \in base + 1 .. cursor : q \notin Noise => Has(<<"journal", q>>)
    /\ \A q \in base + 1 .. time : q \notin Noise => Has(<<"journal", q>>)
    /\ \A i \in DOMAIN todo : todo[i][1] \in {"cursor", "time"} => Recorded(todo[i][2], i)
    /\ \A i \in DOMAIN todo : todo[i][1] = "records" => Recorded(todo[i][2] - 1, i)

(* Nor do the offsets of the watched log and of the transcript.                  *)
Seen(inode, o) == inode = skipped.inode => o >= skipped.at

OffsetInv ==
    /\ \A n \in 0 .. 2, o \in 0 .. Lines :
          offset.inode = n /\ o < offset.at /\ Seen(n, o) => Has(<<"line", n, o>>)
    /\ \A i \in DOMAIN todo, n \in 1 .. 2, o \in 0 .. Lines :
          todo[i][1] = "offset" /\ todo[i][2] = n /\ o < todo[i][3] /\ Seen(n, o)
             => Behind(<<"line", n, o>>, i)
    /\ \A o \in 0 .. Lines : o < childAt => Has(<<"result", o>>)
    /\ \A i \in DOMAIN todo, o \in 0 .. Lines :
          todo[i][1] = "childOffset" /\ o < todo[i][2] => Behind(<<"result", o>>, i)

(* What had been read of a log that was replaced is recorded.                    *)
UnreadInv ==
    /\ \A o \in 0 .. Lines : o < unread /\ Seen(1, o) => Has(<<"line", 1, o>>)
    /\ offset = NoOffset => unread = 0

(* The passes over the spool are those that end with job = "lost".               *)
SpoolWork(w) ==
    \/ w[1] \in {"mark", "unlink", "files"}
    \/ \E r \in Crons : w \in {Emit(<<"running", r>>), Emit(<<"finish", r>>)}

Phase ==
    \A i \in DOMAIN todo :
        /\ SpoolWork(todo[i]) => job = "lost"
        /\ job = "lost" => SpoolWork(todo[i]) \/ todo[i][1] = "unmark"

(* Only a wrapper gives the spool something to do.                               *)
Idle == "cron" \notin mix => spool = {} /\ job \notin {"spool", "lost"} /\ \A r \in Crons : cron[r] = "idle"

(* What the wrapper has spooled and what is recorded of it.                      *)
Spooled ==
    \A r \in Crons :
        /\ <<r, "running">> \in spool => cron[r] # "idle"
        /\ <<r, "finish">> \in spool => cron[r] \in {"finished", "exited"}
        /\ cron[r] # "idle" /\ <<r, "running">> \notin spool => Has(<<"running", r>>)
        /\ cron[r] \in {"finished", "exited"} /\ <<r, "finish">> \notin spool => Has(<<"finish", r>>)
        /\ Has(<<"finish", r>>) => <<r, "running">> \notin spool /\ cron[r] \in {"finished", "exited"}

(* The file in hand and those listed: a start before its finish.                 *)
FilesInHand ==
    /\ \A i \in DOMAIN todo : todo[i][1] = "files" =>
          /\ todo[i][2] \subseteq spool
          /\ \A j \in DOMAIN todo : j <= i
          /\ \A j \in DOMAIN todo : todo[j][1] = "unlink" => todo[j][2] \notin todo[i][2]
          /\ \A r \in Crons : <<r, "finish">> \in todo[i][2] /\ <<r, "running">> \in spool =>
                \/ <<r, "running">> \in todo[i][2]
                \/ \E j \in DOMAIN todo : todo[j] = <<"unlink", <<r, "running">>>>
    /\ \A i \in DOMAIN todo, r \in Crons :
          /\ todo[i] = <<"unlink", <<r, "running">>>> => Behind(<<"running", r>>, i)
          /\ todo[i] = <<"unlink", <<r, "finish">>>> =>
                /\ Behind(<<"finish", r>>, i)
                /\ r \notin markers \/ \E k \in DOMAIN todo : k < i /\ todo[k] = <<"unmark", r>>
          /\ todo[i] = <<"mark", r>> =>
                /\ <<r, "running">> \in spool
                /\ \A j \in DOMAIN todo : todo[j] = <<"unlink", <<r, "running">>>> => i < j
          /\ todo[i] = Emit(<<"finish", r>>) =>
                /\ i = 1
                /\ <<r, "finish">> \in spool /\ <<r, "running">> \notin spool
                /\ \E k \in DOMAIN todo : i < k /\ todo[k] = <<"unmark", r>>

(* A marker outlives the record of its result only while its file does, and is   *)
(* removed before the markers are read.                                         *)
MarkersInHand ==
    \A r \in Crons :
        /\ Has(<<"finish", r>>) /\ r \in markers =>
              /\ <<r, "finish">> \in spool
              /\ job = "lost" => \/ \E k \in DOMAIN todo : todo[k] = <<"unmark", r>>
                                 \/ \E i \in DOMAIN todo : Listed(<<r, "finish">>, i)
        /\ \A i \in DOMAIN todo :
              \/ todo[i] = Emit(<<"lost", r>>)
              \/ todo[i][1] = "markers" /\ r \in todo[i][2]
              => ~Has(<<"finish", r>>)

(* A marker that is half written is written again before the markers are read.   *)
TornInHand ==
    \A r \in torn \cap markers :
        /\ <<r, "running">> \in spool
        /\ \A j \in DOMAIN todo : todo[j] = <<"unlink", <<r, "running">>>> =>
              \E i \in DOMAIN todo : i < j /\ todo[i] = <<"mark", r>>
        /\ job = "lost" => \/ \E i \in DOMAIN todo : todo[i] = <<"mark", r>>
                           \/ \E i \in DOMAIN todo : Listed(<<r, "running">>, i)

SpoolInv == Phase /\ Idle /\ Spooled /\ FilesInHand /\ MarkersInHand /\ TornInHand

(* What the publisher has posted and marked is a beginning of the table, and what *)
(* it has in hand begins where the marks end.                                    *)
FeedAt(shown, called, last) ==
    /\ called <= shown /\ shown <= Len(events)
    /\ posted = 1 .. shown /\ delivered = 1 .. called
    /\ pub # "idle" => called < last /\ last <= Len(events) /\ batch = (called + 1) .. last
    /\ pub = "mark" => last <= shown

FeedInv ==
    /\ pub \in {"idle", "post", "mark"}
    /\ \E shown, called, last \in Nat : FeedAt(shown, called, last)
--------------------------------------------------------------------------------
(* The keys, and the sequences of what is to do.                                 *)
LEMMA KeyFacts ==
    /\ \A n \in 1 .. Emits : <<"service", n>> \in Keys
    /\ \A n \in 0 .. Crashes : <<"boot", n>> \in Keys
    /\ \A r \in Crons : <<"running", r>> \in Keys /\ <<"finish", r>> \in Keys /\ <<"lost", r>> \in Keys
    /\ \A p \in 1 .. Records : <<"journal", p>> \in Keys /\ <<"reset", p>> \in Keys
    /\ \A i \in 1 .. 2, o \in 0 .. Lines : <<"line", i, o>> \in Keys
    /\ <<"child">> \in Keys
    /\ \A o \in 0 .. Lines : <<"result", o>> \in Keys
    /\ \A s \in 1 .. Slots : <<"usage", s>> \in Keys
    /\ <<"collector", "spool">> \in Keys /\ <<"collector", "coverage">> \in Keys
    /\ <<"collector", "pass">> \in Keys
    /\ \A n \in 0 .. Edits : <<"covered", n>> \in Keys
  BY DEF Keys

LEMMA WriteFacts ==
    /\ \A key \in Keys : Emit(key) \in Writes
    /\ \A r \in Crons : <<"mark", r>> \in Writes /\ <<"unmark", r>> \in Writes
    /\ \A f \in Files : <<"unlink", f>> \in Writes
    /\ \A S \in SUBSET Files : <<"files", S>> \in Writes
    /\ \A S \in SUBSET Crons : <<"markers", S>> \in Writes
    /\ \A p \in 1 .. Records : <<"cursor", p>> \in Writes /\ <<"time", p>> \in Writes
    /\ \A p, q \in 1 .. Records : <<"records", p, q>> \in Writes
    /\ \A n \in 1 .. 2, o \in 0 .. Lines : <<"offset", n, o>> \in Writes
    /\ \A o \in 0 .. Lines : <<"childOffset", o>> \in Writes
    /\ \A t \in Tables : <<"recheck", t>> \in Writes /\ <<"replace", t>> \in Writes
  BY DEF Writes, Emit

LEMMA WriteKinds ==
    ASSUME NEW w \in Writes
    PROVE  /\ w[1] = "emit" => w[2] \in Keys /\ w = Emit(w[2])
           /\ w[1] \in {"mark", "unmark"} => w[2] \in Crons /\ w = <<w[1], w[2]>>
           /\ w[1] = "unlink" => w[2] \in Files /\ w = <<w[1], w[2]>>
           /\ w[1] = "files" => w[2] \in SUBSET Files
           /\ w[1] = "markers" => w[2] \in SUBSET Crons
           /\ w[1] \in {"cursor", "time"} => w[2] \in 1 .. Records
           /\ w[1] = "records" => w[2] \in 1 .. Records /\ w[3] \in 1 .. Records
           /\ w[1] = "offset" => w[2] \in 1 .. 2 /\ w[3] \in 0 .. Lines
           /\ w[1] = "childOffset" => w[2] \in 0 .. Lines
           /\ w[1] \in {"recheck", "replace"} => w[2] \in Tables
  BY DEF Writes, Emit

(* A write is done: those after it move up.                                      *)
LEMMA TailFacts ==
    ASSUME todo \in Seq(Writes), todo # <<>>, todo' = Tail(todo)
    PROVE  /\ todo' \in Seq(Writes)
           /\ 1 \in DOMAIN todo /\ Head(todo) = todo[1] /\ todo[1] \in Writes
           /\ \A i \in DOMAIN todo' : i \in Nat /\ i + 1 \in DOMAIN todo /\ todo'[i] = todo[i + 1]
           /\ \A i \in DOMAIN todo : i \in Nat /\ i >= 1 /\ (i # 1 => i - 1 \in DOMAIN todo' /\ todo'[i - 1] = todo[i])
  <1>1. /\ todo' \in Seq(Writes) /\ Len(todo') = Len(todo) - 1
        /\ \A i \in 1 .. Len(todo') : todo'[i] = todo[i + 1]
    BY HeadTailProperties
  <1>2. /\ DOMAIN todo = 1 .. Len(todo) /\ Len(todo) \in Nat /\ Len(todo) # 0
        /\ DOMAIN todo' = 1 .. Len(todo')
    BY <1>1
  <1>3. Head(todo) = todo[1]
    OBVIOUS
  <1>4. 1 \in DOMAIN todo /\ todo[1] \in Writes
    BY <1>2
  <1>5. \A i \in DOMAIN todo : i \in Nat /\ i >= 1 /\ (i # 1 => i - 1 \in DOMAIN todo' /\ todo'[i - 1] = todo[i])
    <2> SUFFICES ASSUME NEW i \in DOMAIN todo
                 PROVE  i \in Nat /\ i >= 1 /\ (i # 1 => i - 1 \in DOMAIN todo' /\ todo'[i - 1] = todo[i])
      OBVIOUS
    <2>1. i \in Nat /\ i >= 1 /\ i <= Len(todo)
      BY <1>2
    <2>2. i # 1 => i - 1 \in 1 .. Len(todo')
      BY <1>1, <1>2, <2>1
    <2>3. i # 1 => todo'[i - 1] = todo[(i - 1) + 1]
      BY <1>1, <2>2
    <2>4. (i - 1) + 1 = i
      BY <2>1
    <2> QED BY <1>2, <2>1, <2>2, <2>3, <2>4
  <1>6. \A i \in DOMAIN todo' : i \in Nat /\ i + 1 \in DOMAIN todo /\ todo'[i] = todo[i + 1]
    BY <1>1, <1>2
  <1> QED BY <1>1, <1>3, <1>4, <1>5, <1>6

(* A few writes and then, maybe, the loop they belong to.                        *)
LEMMA LoopFacts ==
    ASSUME NEW s \in Seq(Writes), NEW what, NEW things, <<what, things>> \in Writes,
           todo' = s \o Left(what, things)
    PROVE  /\ todo' \in Seq(Writes)
           /\ DOMAIN todo' = 1 .. Len(s) + (IF things = {} THEN 0 ELSE 1)
           /\ \A i \in 1 .. Len(s) : todo'[i] = s[i]
           /\ things # {} => todo'[Len(s) + 1] = <<what, things>>
  <1>1. Left(what, things) \in Seq(Writes)
          /\ Len(Left(what, things)) = (IF things = {} THEN 0 ELSE 1)
    BY DEF Left
  <1>2. Len(s) \in Nat
    OBVIOUS
  <1>3. /\ todo' \in Seq(Writes) /\ Len(todo') = Len(s) + Len(Left(what, things))
        /\ \A i \in 1 .. Len(s) + Len(Left(what, things)) :
              todo'[i] = IF i <= Len(s) THEN s[i] ELSE Left(what, things)[i - Len(s)]
    BY <1>1, ConcatProperties
  <1>4. things # {} => Left(what, things)[1] = <<what, things>>
    BY DEF Left
  <1>5. Len(s) + 1 - Len(s) = 1
    BY <1>2
  <1>6. DOMAIN todo' = 1 .. Len(todo')
    BY <1>3
  <1>7. \A i \in 1 .. Len(s) : todo'[i] = s[i]
    BY <1>1, <1>2, <1>3
  <1>8. things # {} => todo'[Len(s) + 1] = <<what, things>>
    BY <1>1, <1>2, <1>3, <1>4, <1>5
  <1> QED BY <1>1, <1>3, <1>6, <1>7, <1>8

(* The loop alone, and a beginning with what is left of the records.             *)
LEMMA LeftFacts ==
    ASSUME NEW what, NEW things, <<what, things>> \in Writes
    PROVE  /\ Left(what, things) \in Seq(Writes)
           /\ \A i \in DOMAIN Left(what, things) : i = 1 /\ things # {} /\ Left(what, things)[1] = <<what, things>>
           /\ things # {} => 1 \in DOMAIN Left(what, things)
  BY DEF Left

LEMMA RecordsLeftFacts ==
    ASSUME NEW f \in Nat \ {0}, NEW l \in 0 .. Records
    PROVE  \/ RecordsLeft(f, l) = <<>>
           \/ f <= l /\ RecordsLeft(f, l) = << <<"records", f, l>> >> /\ <<"records", f, l>> \in Writes
  <1>1. CASE f > l
    BY <1>1 DEF RecordsLeft
  <1>2. CASE ~(f > l)
    <2>1. f \in 1 .. Records /\ l \in 1 .. Records /\ f <= l
      BY <1>2, OutboxAssumption
    <2>2. <<"records", f, l>> \in Writes
      BY <2>1, WriteFacts
    <2> QED BY <1>2, <2>1, <2>2 DEF RecordsLeft
  <1> QED BY <1>1, <1>2

LEMMA RecordsFacts ==
    ASSUME NEW s \in Seq(Writes), NEW w, NEW u, u = <<>> \/ (u = << w >> /\ w \in Writes),
           todo' = s \o u
    PROVE  /\ todo' \in Seq(Writes)
           /\ \A i \in 1 .. Len(s) : i \in DOMAIN todo' /\ todo'[i] = s[i]
           /\ \A i \in DOMAIN todo' : i \in 1 .. Len(s) \/ (i = Len(s) + 1 /\ todo'[i] = w)
  <1>1. u \in Seq(Writes) /\ Len(u) \in {0, 1} /\ (Len(u) = 1 => u[1] = w)
    <2>1. CASE u = <<>>
      BY <2>1
    <2>2. CASE u = << w >> /\ w \in Writes
      BY <2>2
    <2> QED BY <2>1, <2>2
  <1>2. Len(s) \in Nat /\ DOMAIN s = 1 .. Len(s)
    OBVIOUS
  <1>3. /\ todo' \in Seq(Writes) /\ Len(todo') = Len(s) + Len(u)
        /\ \A i \in 1 .. Len(s) + Len(u) : todo'[i] = IF i <= Len(s) THEN s[i] ELSE u[i - Len(s)]
    BY <1>1, ConcatProperties
  <1>4. DOMAIN todo' = 1 .. Len(todo')
    BY <1>3
  <1>5. \A i \in 1 .. Len(s) : i \in DOMAIN todo' /\ todo'[i] = s[i]
    BY <1>1, <1>2, <1>3, <1>4
  <1>6. ASSUME NEW i \in DOMAIN todo', i \notin 1 .. Len(s)
        PROVE  i = Len(s) + 1 /\ todo'[i] = w
    <2>1. i \in 1 .. Len(s) + Len(u) /\ i > Len(s)
      BY <1>2, <1>3, <1>4, <1>6
    <2>2. i = Len(s) + 1 /\ Len(u) = 1
      BY <1>1, <1>2, <2>1
    <2>3. i - Len(s) = 1
      BY <1>2, <2>2
    <2> QED BY <1>1, <1>3, <2>1, <2>2, <2>3
  <1> QED BY <1>3, <1>5, <1>6

(* An event that is recorded takes the next place, and only if it is new.        *)
LEMMA InsertedFacts ==
    ASSUME events \in Seq(Keys), NEW key \in Keys, events' = Inserted(key)
    PROVE  /\ events' \in Seq(Keys)
           /\ Has(key)'
           /\ \A k : Has(k) => Has(k)'
           /\ \A k : k # key /\ Has(k)' => Has(k)
           /\ events' = events \/ (~Has(key) /\ events' = Append(events, key))
  <1>1. CASE Has(key)
    BY <1>1 DEF Inserted, Has
  <1>2. CASE ~Has(key)
    <2>1. events' = Append(events, key)
      BY <1>2 DEF Inserted
    <2>2. /\ events' \in Seq(Keys) /\ Len(events') = Len(events) + 1
          /\ \A i \in 1 .. Len(events) : events'[i] = events[i]
          /\ events'[Len(events) + 1] = key
      BY <2>1, AppendProperties
    <2>3. Len(events) \in Nat /\ DOMAIN events = 1 .. Len(events) /\ DOMAIN events' = 1 .. Len(events) + 1
      BY <2>2
    <2>4. Has(key)'
      BY <2>2, <2>3 DEF Has
    <2>5. \A k : Has(k) => Has(k)'
      BY <2>2, <2>3 DEF Has
    <2>6. ASSUME NEW k, k # key, Has(k)' PROVE Has(k)
      <3>1. PICK i \in DOMAIN events' : events'[i] = k
        BY <2>6 DEF Has
      <3>2. i # Len(events) + 1
        BY <2>2, <2>6, <3>1
      <3>3. i \in DOMAIN events
        BY <2>3, <3>2
      <3> QED BY <2>2, <2>3, <3>1, <3>3 DEF Has
    <2> QED BY <1>2, <2>1, <2>2, <2>4, <2>5, <2>6
  <1> QED BY <1>1, <1>2
--------------------------------------------------------------------------------
(* What a pass has to do once it has begun, or has read one thing more.          *)
LEMMA SpoolPassDoes ==
    ASSUME OutboxTypes, SpoolPass
    PROVE  /\ todo' \in Seq(Writes)
           /\ \A i \in DOMAIN todo' : i = 1 /\ todo'[i] = <<"files", spool>>
           /\ spool # {} => 1 \in DOMAIN todo'
  <1>1. <<"files", spool>> \in Writes
    BY WriteFacts DEF OutboxTypes, SourceTypes
  <1> QED BY <1>1, LeftFacts DEF SpoolPass, Begin

LEMMA LostPassDoes ==
    ASSUME OutboxTypes, LostPass
    PROVE  /\ todo' \in Seq(Writes)
           /\ \A i \in DOMAIN todo' : i = 1 /\ todo'[i] = <<"markers", markers>>
  <1>1. <<"markers", markers>> \in Writes
    BY WriteFacts DEF OutboxTypes, SourceTypes
  <1> QED BY <1>1, LeftFacts DEF LostPass, Begin

LEMMA ReadFileDoes ==
    ASSUME OutboxTypes, ReadFile
    PROVE  \E f \in Files, L \in SUBSET Files :
              /\ 1 \in DOMAIN todo /\ todo[1] = <<"files", L>>
              /\ f \in L
              /\ f[2] = "finish" => <<f[1], "running">> \notin L
              /\ todo' \in Seq(Writes)
              /\ DOMAIN todo' = 1 .. 3 + (IF L \ {f} = {} THEN 0 ELSE 1)
              /\ todo'[1] = Emit(<<IF f[2] = "running" THEN "running" ELSE "finish", f[1]>>)
              /\ todo'[2] = <<IF f[2] = "running" THEN "mark" ELSE "unmark", f[1]>>
              /\ todo'[3] = <<"unlink", f>>
              /\ L \ {f} # {} => todo'[4] = <<"files", L \ {f}>>
  <1>1. 1 \in DOMAIN todo /\ Head(todo) = todo[1] /\ todo[1] \in Writes /\ todo[1][1] = "files"
    <2>1. todo \in Seq(Writes) /\ todo # <<>> /\ Head(todo)[1] = "files"
      BY DEF OutboxTypes, TableTypes, ReadFile, Looping
    <2> QED BY <2>1
  <1>2. PICK f \in todo[1][2] :
          /\ f[2] = "finish" => <<f[1], "running">> \notin todo[1][2]
          /\ todo' = FileWrites(f) \o Left("files", todo[1][2] \ {f})
    BY <1>1 DEF ReadFile
  <1> DEFINE L == todo[1][2]
  <1>3. L \in SUBSET Files /\ todo[1] = <<"files", L>>
    BY <1>1 DEF Writes
  <1>4. f \in Files /\ f[1] \in Crons
    BY <1>2, <1>3 DEF Files
  <1> DEFINE s == FileWrites(f)
  <1>5. /\ Len(s) = 3 /\ s[3] = <<"unlink", f>>
        /\ s[1] = Emit(<<IF f[2] = "running" THEN "running" ELSE "finish", f[1]>>)
        /\ s[2] = <<IF f[2] = "running" THEN "mark" ELSE "unmark", f[1]>>
    BY DEF FileWrites
  <1>6. s \in Seq(Writes)
    <2>1. /\ Emit(<<"running", f[1]>>) \in Writes /\ Emit(<<"finish", f[1]>>) \in Writes
          /\ <<"mark", f[1]>> \in Writes /\ <<"unmark", f[1]>> \in Writes /\ <<"unlink", f>> \in Writes
      BY <1>4, KeyFacts, WriteFacts
    <2> QED BY <2>1 DEF FileWrites
  <1>7. <<"files", L \ {f}>> \in Writes
    BY <1>3, WriteFacts
  <1> HIDE DEF L
  <1> DEFINE M == L \ {f}
  <1> HIDE DEF s, M
  <1>8. todo' = s \o Left("files", M) /\ <<"files", M>> \in Writes
    BY <1>2, <1>7 DEF s, L, M
  <1>9. /\ todo' \in Seq(Writes)
        /\ DOMAIN todo' = 1 .. Len(s) + (IF M = {} THEN 0 ELSE 1)
        /\ \A i \in 1 .. Len(s) : todo'[i] = s[i]
        /\ M # {} => todo'[Len(s) + 1] = <<"files", M>>
    BY ONLY <1>6, <1>8, LoopFacts
  <1>10. f \in L /\ (f[2] = "finish" => <<f[1], "running">> \notin L)
    BY <1>2 DEF L
  <1>11. todo'[1] = s[1] /\ todo'[2] = s[2] /\ todo'[3] = s[3]
    BY <1>5, <1>9
  <1>12. /\ 1 \in DOMAIN todo /\ todo[1] = <<"files", L>> /\ L \in SUBSET Files
         /\ DOMAIN todo' = 1 .. 3 + (IF L \ {f} = {} THEN 0 ELSE 1)
         /\ todo'[1] = Emit(<<IF f[2] = "running" THEN "running" ELSE "finish", f[1]>>)
         /\ todo'[2] = <<IF f[2] = "running" THEN "mark" ELSE "unmark", f[1]>>
         /\ todo'[3] = <<"unlink", f>>
         /\ L \ {f} # {} => todo'[4] = <<"files", L \ {f}>>
    <2>1. 1 \in DOMAIN todo /\ todo[1] = <<"files", L>> /\ L \in SUBSET Files
      BY <1>1, <1>3 DEF L
    <2>2. /\ DOMAIN todo' = 1 .. 3 + (IF L \ {f} = {} THEN 0 ELSE 1)
          /\ L \ {f} # {} => todo'[4] = <<"files", L \ {f}>>
      BY <1>5, <1>9 DEF M
    <2> QED BY ONLY <1>5, <1>11, <2>1, <2>2
  <1> QED BY ONLY <1>4, <1>9, <1>10, <1>12

LEMMA ReadMarkerDoes ==
    ASSUME OutboxTypes, ReadMarker
    PROVE  /\ todo' \in Seq(Writes)
           /\ 1 \in DOMAIN todo /\ todo[1][1] = "markers"
           /\ \A i \in DOMAIN todo' :
                 \/ todo'[i] = Emit(<<"collector", "spool">>)
                 \/ \E r \in todo[1][2] : todo'[i] \in {Emit(<<"lost", r>>), <<"unmark", r>>}
                 \/ \E S \in SUBSET todo[1][2] : todo'[i] = <<"markers", S>>
  <1>1. 1 \in DOMAIN todo /\ Head(todo) = todo[1] /\ todo[1] \in Writes /\ todo[1][1] = "markers"
    <2>1. todo \in Seq(Writes) /\ todo # <<>> /\ Head(todo)[1] = "markers"
      BY DEF OutboxTypes, TableTypes, ReadMarker, Looping
    <2> QED BY <2>1
  <1> DEFINE L == todo[1][2]
  <1>2. L \in SUBSET Crons
    BY <1>1, WriteKinds
  <1> HIDE DEF L
  <1>3. PICK r \in L :
          \/ todo' = << Emit(<<"collector", "spool">>) >>
          \/ todo' = Left("markers", L \ {r})
          \/ todo' = << Emit(<<"lost", r>>), <<"unmark", r>> >> \o Left("markers", L \ {r})
    BY <1>1 DEF ReadMarker, L
  <1>4. /\ <<"markers", L \ {r}>> \in Writes /\ Emit(<<"lost", r>>) \in Writes /\ <<"unmark", r>> \in Writes
        /\ Emit(<<"collector", "spool">>) \in Writes
    BY <1>2, KeyFacts, WriteFacts
  <1> DEFINE C(w) == \/ w = Emit(<<"collector", "spool">>)
                     \/ \E q \in L : w \in {Emit(<<"lost", q>>), <<"unmark", q>>}
                     \/ \E S \in SUBSET L : w = <<"markers", S>>
  <1>5. /\ C(Emit(<<"collector", "spool">>)) /\ C(Emit(<<"lost", r>>)) /\ C(<<"unmark", r>>)
        /\ C(<<"markers", L \ {r}>>)
    OBVIOUS
  <1> HIDE DEF C
  <1>6. todo' \in Seq(Writes) /\ \A i \in DOMAIN todo' : C(todo'[i])
    <2>1. CASE todo' = << Emit(<<"collector", "spool">>) >>
      BY <1>4, <1>5, <2>1
    <2>2. CASE todo' = Left("markers", L \ {r})
      BY <1>4, <1>5, <2>2, LeftFacts
    <2>3. CASE todo' = << Emit(<<"lost", r>>), <<"unmark", r>> >> \o Left("markers", L \ {r})
      <3> DEFINE s == << Emit(<<"lost", r>>), <<"unmark", r>> >>
      <3>1. s \in Seq(Writes) /\ Len(s) = 2 /\ s[1] = Emit(<<"lost", r>>) /\ s[2] = <<"unmark", r>>
        BY <1>4
      <3> DEFINE M == L \ {r}
      <3> HIDE DEF s, M
      <3>2. todo' = s \o Left("markers", M) /\ <<"markers", M>> \in Writes
        BY <1>4, <2>3 DEF s, M
      <3>3. /\ todo' \in Seq(Writes)
            /\ DOMAIN todo' = 1 .. Len(s) + (IF M = {} THEN 0 ELSE 1)
            /\ \A i \in 1 .. Len(s) : todo'[i] = s[i]
            /\ M # {} => todo'[Len(s) + 1] = <<"markers", M>>
          <4>1. s \in Seq(Writes)
            BY <3>1
          <4> QED BY ONLY <3>2, <4>1, LoopFacts
      <3>4. ASSUME NEW i \in DOMAIN todo' PROVE C(todo'[i])
        <4>1. i = 1 \/ i = 2 \/ (i = 3 /\ M # {})
          <5>1. DOMAIN todo' = 1 .. 2 + (IF M = {} THEN 0 ELSE 1)
            BY <3>1, <3>3
          <5>2. CASE M = {}
            BY <5>1, <5>2
          <5>3. CASE M # {}
            BY <5>1, <5>3
          <5> QED BY <5>2, <5>3
        <4>2. todo'[1] = s[1] /\ todo'[2] = s[2] /\ (M # {} => todo'[3] = <<"markers", M>>)
          BY <3>1, <3>3
        <4> QED BY <1>5, <3>1, <4>1, <4>2 DEF M
      <3> QED BY <3>3, <3>4
    <2> QED BY <1>3, <2>1, <2>2, <2>3
  <1> QED BY <1>1, <1>6 DEF C, L

LEMMA JournalPassDoes ==
    ASSUME OutboxTypes, JournalPass
    PROVE  /\ todo' \in Seq(Writes)
           /\ \A i \in DOMAIN todo' : i = 1 /\ todo'[i] = <<"records", cursor + 1, journal>>
  <1>1. cursor + 1 \in Nat \ {0} /\ journal \in 0 .. Records
    BY OutboxAssumption DEF OutboxTypes, SourceTypes
  <1>2. todo' = << >> \o RecordsLeft(cursor + 1, journal)
    BY DEF JournalPass, Begin, RecordsLeft
  <1>3. << >> \in Seq(Writes) /\ Len(<< >>) = 0
    OBVIOUS
  <1> DEFINE s == << >>
  <1> HIDE DEF s
  <1>4. s \in Seq(Writes) /\ Len(s) = 0
    BY <1>3 DEF s
  <1>5. todo' = s \o RecordsLeft(cursor + 1, journal)
    BY <1>2 DEF s
  <1> DEFINE u == RecordsLeft(cursor + 1, journal)
             w == <<"records", cursor + 1, journal>>
  <1>6. u = <<>> \/ (u = << w >> /\ w \in Writes)
    BY <1>1, RecordsLeftFacts
  <1> HIDE DEF u
  <1>7. todo' = s \o u /\ s \in Seq(Writes)
    BY <1>4, <1>5 DEF u
  <1>8. /\ todo' \in Seq(Writes)
        /\ \A i \in DOMAIN todo' : i \in 1 .. Len(s) \/ (i = Len(s) + 1 /\ todo'[i] = w)
    <2> HIDE DEF w
    <2> QED BY ONLY <1>6, <1>7, RecordsFacts
  <1> QED BY <1>4, <1>8

LEMMA JournalResetDoes ==
    ASSUME OutboxTypes, JournalReset
    PROVE  \E from \in Nat \ {0} :
              /\ time # 0 => from = time
              /\ time = 0 => from \in 1 .. journal + 1
              /\ base' = IF time = 0 /\ from > base THEN from - 1 ELSE base
              /\ todo' \in Seq(Writes)
              /\ 1 \in DOMAIN todo' /\ todo'[1] = Emit(<<"reset", cursor>>)
              /\ \A i \in DOMAIN todo' : i = 1 \/ (i = 2 /\ todo'[i] = <<"records", from, journal>>)
  <1>1. /\ journal \in 0 .. Records /\ time \in 0 .. Records /\ cursor \in 1 .. Records
        /\ Records \in Nat
    BY OutboxAssumption DEF OutboxTypes, SourceTypes, JournalReset
  <1>2. PICK from \in (IF time # 0 THEN {time} ELSE 1 .. journal + 1) :
          /\ todo' = << Emit(<<"reset", cursor>>) >> \o RecordsLeft(from, journal)
          /\ base' = IF time = 0 /\ from > base THEN from - 1 ELSE base
    BY DEF JournalReset, Begin
  <1>3. from \in Nat \ {0} /\ (time # 0 => from = time) /\ (time = 0 => from \in 1 .. journal + 1)
    BY <1>1, <1>2
  <1> DEFINE s == << Emit(<<"reset", cursor>>) >>
  <1>4. s \in Seq(Writes) /\ Len(s) = 1 /\ s[1] = Emit(<<"reset", cursor>>)
    <2>1. Emit(<<"reset", cursor>>) \in Writes
      BY <1>1, KeyFacts, WriteFacts
    <2> QED BY <2>1
  <1>5. todo' = s \o RecordsLeft(from, journal)
    BY <1>2
  <1> HIDE DEF s
  <1>6. journal \in 0 .. Records /\ from \in Nat \ {0}
    BY <1>1, <1>3
  <1>10. s \in Seq(Writes)
    BY <1>4
  <1> DEFINE u == RecordsLeft(from, journal)
             w == <<"records", from, journal>>
  <1>11. u = <<>> \/ (u = << w >> /\ w \in Writes)
    BY <1>6, RecordsLeftFacts
  <1> HIDE DEF u, w
  <1>12. todo' = s \o u
    BY <1>5 DEF u
  <1>7. /\ todo' \in Seq(Writes)
        /\ \A i \in 1 .. Len(s) : i \in DOMAIN todo' /\ todo'[i] = s[i]
        /\ \A i \in DOMAIN todo' : i \in 1 .. Len(s) \/ (i = Len(s) + 1 /\ todo'[i] = w)
    BY ONLY <1>10, <1>11, <1>12, RecordsFacts
  <1>8. 1 \in DOMAIN todo' /\ todo'[1] = Emit(<<"reset", cursor>>)
    BY <1>4, <1>7
  <1>9. \A i \in DOMAIN todo' : i = 1 \/ (i = 2 /\ todo'[i] = <<"records", from, journal>>)
    BY <1>4, <1>7 DEF w
  <1> QED BY <1>2, <1>3, <1>7, <1>8, <1>9

LEMMA JournalFirstDoes ==
    ASSUME OutboxTypes, JournalFirst
    PROVE  /\ todo' \in Seq(Writes)
           /\ \A i \in DOMAIN todo' : i = 1 /\ todo'[i] = <<"cursor", journal>>
  <1>1. CASE journal = 0
    BY <1>1 DEF JournalFirst, Begin
  <1>2. CASE journal # 0
    <2>1. journal \in 1 .. Records
      BY <1>2, OutboxAssumption DEF OutboxTypes, SourceTypes
    <2>2. <<"cursor", journal>> \in Writes
      BY <2>1, WriteFacts
    <2>3. todo' = << <<"cursor", journal>> >>
      BY <1>2 DEF JournalFirst, Begin
    <2> QED BY <2>2, <2>3
  <1> QED BY <1>1, <1>2

LEMMA ReadRecordDoes ==
    ASSUME OutboxTypes, ReadRecord
    PROVE  \E p \in 1 .. Records, l \in 1 .. Records, n \in {0, 1} :
              /\ 1 \in DOMAIN todo /\ todo[1][1] = "records" /\ todo[1][2] = p
              /\ todo' \in Seq(Writes)
              /\ 1 \in DOMAIN todo'
              /\ p \notin Noise => n = 1 /\ todo'[1] = Emit(<<"journal", p>>)
              /\ \A i \in DOMAIN todo' :
                    \/ i = 1 /\ n = 1 /\ todo'[i] = Emit(<<"journal", p>>)
                    \/ i > n /\ todo'[i] \in {<<"cursor", p>>, <<"time", p>>}
                    \/ i > n /\ todo'[i] = <<"records", p + 1, l>>
  <1>1. 1 \in DOMAIN todo /\ Head(todo) = todo[1] /\ todo[1] \in Writes /\ todo[1][1] = "records"
    <2>1. todo \in Seq(Writes) /\ todo # <<>> /\ Head(todo)[1] = "records"
      BY DEF OutboxTypes, TableTypes, ReadRecord, Looping
    <2> QED BY <2>1
  <1> DEFINE p == todo[1][2]
             l == todo[1][3]
             n == IF p \in Noise THEN 0 ELSE 1
             s == RecordWrites(p)
  <1>2. p \in 1 .. Records /\ l \in 1 .. Records
    BY <1>1, WriteKinds
  <1>3. todo' = s \o RecordsLeft(p + 1, l)
    BY <1>1 DEF ReadRecord
  <1>4. /\ Emit(<<"journal", p>>) \in Writes /\ <<"cursor", p>> \in Writes /\ <<"time", p>> \in Writes
    BY <1>2, KeyFacts, WriteFacts
  <1>5. s \in Seq(Writes) /\ Len(s) = 2 + n /\ s[n + 1] = <<"cursor", p>> /\ s[n + 2] = <<"time", p>>
        /\ (n = 1 => s[1] = Emit(<<"journal", p>>))
    <2>1. CASE p \in Noise
      BY <1>4, <2>1 DEF RecordWrites
    <2>2. CASE p \notin Noise
      <3> DEFINE u == << Emit(<<"journal", p>>) >>
                 v == << <<"cursor", p>>, <<"time", p>> >>
      <3>1. s = u \o v
        BY <2>2 DEF RecordWrites
      <3>2. u \in Seq(Writes) /\ v \in Seq(Writes) /\ Len(u) = 1 /\ Len(v) = 2
        BY <1>4
      <3>3. u[1] = Emit(<<"journal", p>>) /\ v[1] = <<"cursor", p>> /\ v[2] = <<"time", p>>
        OBVIOUS
      <3> HIDE DEF s, u, v
      <3>4. /\ s \in Seq(Writes) /\ Len(s) = Len(u) + Len(v)
            /\ \A i \in 1 .. Len(u) + Len(v) : s[i] = IF i <= Len(u) THEN u[i] ELSE v[i - Len(u)]
        BY <3>1, <3>2, ConcatProperties
      <3>5. s[1] = u[1] /\ s[2] = v[1] /\ s[3] = v[2] /\ Len(s) = 3
        BY <3>2, <3>4
      <3>6. n = 1
        BY <2>2
      <3>7. s[n + 1] = s[2] /\ s[n + 2] = s[3] /\ Len(s) = 2 + n
        BY <3>5, <3>6
      <3> QED BY <3>3, <3>4, <3>5, <3>7
    <2> QED BY <2>1, <2>2
  <1>6. n \in {0, 1} /\ (p \notin Noise => n = 1)
    OBVIOUS
  <1>7. 1 \in DOMAIN todo /\ todo[1][1] = "records" /\ todo[1][2] = p
    BY <1>1
  <1> HIDE DEF p, l, n, s
  <1>8. p + 1 \in Nat \ {0} /\ l \in 0 .. Records
    BY <1>2, OutboxAssumption
  <1>9. s \in Seq(Writes)
    BY <1>5
  <1> DEFINE u == RecordsLeft(p + 1, l)
             w == <<"records", p + 1, l>>
  <1>14. u = <<>> \/ (u = << w >> /\ w \in Writes)
    BY <1>8, RecordsLeftFacts
  <1> HIDE DEF u, w
  <1>15. todo' = s \o u
    BY <1>3 DEF u
  <1>10. /\ todo' \in Seq(Writes)
         /\ \A i \in 1 .. Len(s) : i \in DOMAIN todo' /\ todo'[i] = s[i]
         /\ \A i \in DOMAIN todo' : i \in 1 .. Len(s) \/ (i = Len(s) + 1 /\ todo'[i] = w)
    BY ONLY <1>9, <1>14, <1>15, RecordsFacts
  <1>11. 1 \in DOMAIN todo' /\ (n = 1 => todo'[1] = Emit(<<"journal", p>>))
    BY <1>5, <1>6, <1>10
  <1>12. ASSUME NEW i \in DOMAIN todo'
         PROVE  \/ i = 1 /\ n = 1 /\ todo'[i] = Emit(<<"journal", p>>)
                \/ i > n /\ todo'[i] \in {<<"cursor", p>>, <<"time", p>>}
                \/ i > n /\ todo'[i] = <<"records", p + 1, l>>
    <2>1. CASE i \in 1 .. Len(s)
      <3>1. i = n + 1 \/ i = n + 2 \/ (i = 1 /\ n = 1)
        BY <1>5, <1>6, <2>1
      <3>2. todo'[i] = s[i]
        BY <1>10, <2>1
      <3>3. n + 1 > n /\ n + 2 > n
        BY <1>6
      <3> QED BY <1>5, <3>1, <3>2, <3>3
    <2>2. CASE i = Len(s) + 1 /\ todo'[i] = w
      <3>1. i > n
        BY <1>5, <1>6, <2>2
      <3> QED BY <2>2, <3>1 DEF w
    <2> QED BY <1>10, <2>1, <2>2
  <1>13. (p \notin Noise => n = 1 /\ todo'[1] = Emit(<<"journal", p>>)) /\ n \in {0, 1}
    BY <1>6, <1>11
  <1>16. /\ 1 \in DOMAIN todo /\ todo[1][1] = "records" /\ todo[1][2] = p
         /\ todo' \in Seq(Writes) /\ 1 \in DOMAIN todo'
         /\ p \notin Noise => n = 1 /\ todo'[1] = Emit(<<"journal", p>>)
    BY <1>7, <1>10, <1>11, <1>13
  <1> QED BY ONLY <1>2, <1>6, <1>12, <1>16, ZenonT(40)

LEMMA RetryPassDoes ==
    ASSUME OutboxTypes, RetryPass
    PROVE  \E from \in 0 .. file.lines, n \in Nat :
              /\ offset = NoOffset => from = file.lines
              /\ offset # NoOffset => from = 0 \/ (offset.inode = file.inode /\ from = offset.at)
              /\ n = file.lines - from
              /\ todo' \in Seq(Writes) /\ DOMAIN todo' = 1 .. n + 1
              /\ \A i \in 1 .. n : todo'[i] = Emit(<<"line", file.inode, from + i - 1>>)
              /\ todo'[n + 1] = <<"offset", file.inode, file.lines>>
  <1> DEFINE from == IF offset = NoOffset THEN file.lines
                     ELSE IF offset.inode # file.inode \/ offset.at > file.lines THEN 0
                     ELSE offset.at
             n == file.lines - from
  <1>1. /\ file.inode \in 1 .. 2 /\ file.lines \in 0 .. Lines /\ offset.at \in 0 .. Lines /\ Lines \in Nat
    BY OutboxAssumption DEF OutboxTypes, SourceTypes, Offsets
  <1>2. /\ from \in 0 .. file.lines
        /\ offset = NoOffset => from = file.lines
        /\ offset # NoOffset => from = 0 \/ (offset.inode = file.inode /\ from = offset.at)
    <2>1. CASE offset = NoOffset
      BY <1>1, <2>1
    <2>2. CASE offset # NoOffset /\ (offset.inode # file.inode \/ offset.at > file.lines)
      BY <1>1, <2>2
    <2>3. CASE offset # NoOffset /\ ~(offset.inode # file.inode \/ offset.at > file.lines)
      BY <1>1, <2>3
    <2> QED BY <2>1, <2>2, <2>3
  <1>3. todo' = [i \in 1 .. n + 1 |-> IF i <= n THEN Emit(<<"line", file.inode, from + i - 1>>)
                                               ELSE <<"offset", file.inode, file.lines>>]
    BY DEF RetryPass, Begin
  <1> HIDE DEF from
  <1>4. n \in Nat /\ n = file.lines - from
    BY <1>1, <1>2
  <1> HIDE DEF n
  <1>5. \A i \in 1 .. n + 1 : i <= n => Emit(<<"line", file.inode, from + i - 1>>) \in Writes
    <2> SUFFICES ASSUME NEW i \in 1 .. n + 1, i <= n PROVE Emit(<<"line", file.inode, from + i - 1>>) \in Writes
      OBVIOUS
    <2>1. from + i - 1 \in 0 .. Lines
      BY <1>1, <1>2, <1>4
    <2> QED BY <1>1, <2>1, KeyFacts, WriteFacts
  <1>6. <<"offset", file.inode, file.lines>> \in Writes
    BY <1>1, WriteFacts
  <1>7. todo' \in Seq(Writes)
    <2>1. todo' \in [1 .. n + 1 -> Writes]
      BY <1>3, <1>5, <1>6
    <2>2. n + 1 \in Nat
      BY <1>4
    <2> QED BY <2>1, <2>2
  <1>8. DOMAIN todo' = 1 .. n + 1
    BY <1>3
  <1>9. \A i \in 1 .. n : todo'[i] = Emit(<<"line", file.inode, from + i - 1>>)
    BY <1>3, <1>4
  <1>10. todo'[n + 1] = <<"offset", file.inode, file.lines>>
    BY <1>3, <1>4
  <1> QED BY <1>2, <1>4, <1>7, <1>8, <1>9, <1>10

LEMMA ChildPassDoes ==
    ASSUME OutboxTypes, ChildPass
    PROVE  /\ todo' \in Seq(Writes)
           /\ \A i \in DOMAIN todo' :
                 \/ todo'[i] = Emit(<<"child">>)
                 \/ \E o \in 0 .. Lines : todo'[i] = Emit(<<"result", o>>)
                 \/ /\ todo'[i] = <<"childOffset", child>>
                    /\ \A o \in 0 .. Lines : o < child => o < childAt
                          \/ \E j \in DOMAIN todo' : j < i /\ todo'[j] = Emit(<<"result", o>>)
  <1> DEFINE a == IF childAt = 0 /\ child > 0 THEN << Emit(<<"child">>) >> ELSE <<>>
             n == child - childAt
             b == [i \in 1 .. n + 1 |-> IF i <= n THEN Emit(<<"result", childAt + i - 1>>)
                                                  ELSE <<"childOffset", child>>]
  <1>1. child \in 0 .. Lines /\ childAt \in 0 .. Lines /\ Lines \in Nat
    BY OutboxAssumption DEF OutboxTypes, SourceTypes
  <1>2. todo' = a \o b
    BY DEF ChildPass, Begin
  <1>3. a \in Seq(Writes) /\ (\A i \in DOMAIN a : a[i] = Emit(<<"child">>))
    <2>1. Emit(<<"child">>) \in Writes
      BY KeyFacts, WriteFacts
    <2> QED BY <2>1
  <1>4. n \in Int /\ n = child - childAt
    BY <1>1
  <1>5. \A i \in 1 .. n : childAt + i - 1 \in 0 .. Lines
    BY <1>1
  <1> HIDE DEF a, n
  <1>6. b \in Seq(Writes) /\ DOMAIN b = 1 .. n + 1
    <2>4. DOMAIN b = 1 .. n + 1
      OBVIOUS
    <2>1. b \in [1 .. n + 1 -> Writes]
      <3>1. \A i \in 1 .. n + 1 : i <= n => Emit(<<"result", childAt + i - 1>>) \in Writes
        <4> SUFFICES ASSUME NEW i \in 1 .. n + 1, i <= n PROVE Emit(<<"result", childAt + i - 1>>) \in Writes
          OBVIOUS
        <4>1. i \in 1 .. n
          BY <1>4
        <4> QED BY <1>5, <4>1, KeyFacts, WriteFacts
      <3>2. <<"childOffset", child>> \in Writes
        BY <1>1, WriteFacts
      <3> QED BY <3>1, <3>2
    <2> HIDE DEF b
    <2>2. CASE n + 1 >= 0
      <3>1. n + 1 \in Nat
        BY <1>4, <2>2
      <3>2. b \in Seq(Writes)
        BY <2>1, <3>1
      <3> QED BY <2>4, <3>2
    <2>3. CASE n + 1 < 0
      <3>1. 1 .. n + 1 = 1 .. 0
        BY <1>4, <2>3
      <3>2. b \in [1 .. 0 -> Writes]
        BY <2>1, <3>1
      <3>3. b \in Seq(Writes)
        BY <3>2
      <3> QED BY <2>4, <3>3
    <2> QED BY <1>4, <2>2, <2>3
  <1>7. \A i \in 1 .. n : i \in DOMAIN b /\ b[i] = Emit(<<"result", childAt + i - 1>>)
    BY <1>4
  <1>8. \A i \in DOMAIN b : i \in 1 .. n \/ (i = n + 1 /\ b[i] = <<"childOffset", child>>)
    BY <1>4, <1>6
  <1> HIDE DEF b
  <1>9. /\ todo' \in Seq(Writes) /\ Len(todo') = Len(a) + Len(b)
        /\ \A i \in 1 .. Len(a) + Len(b) : todo'[i] = IF i <= Len(a) THEN a[i] ELSE b[i - Len(a)]
    BY <1>2, <1>3, <1>6, ConcatProperties
  <1>10. /\ Len(a) \in Nat /\ Len(b) \in Nat /\ DOMAIN a = 1 .. Len(a) /\ DOMAIN b = 1 .. Len(b)
         /\ DOMAIN todo' = 1 .. Len(a) + Len(b)
    <2>1. DOMAIN todo' = 1 .. Len(todo')
      BY <1>9
    <2> QED BY <1>3, <1>6, <1>9, <2>1
  <1>11. \A k \in DOMAIN b : Len(a) + k \in DOMAIN todo' /\ todo'[Len(a) + k] = b[k]
    <2> SUFFICES ASSUME NEW k \in DOMAIN b PROVE Len(a) + k \in DOMAIN todo' /\ todo'[Len(a) + k] = b[k]
      OBVIOUS
    <2>1. k \in Nat /\ k >= 1 /\ k <= Len(b)
      BY <1>10
    <2>2. Len(a) + k \in 1 .. Len(a) + Len(b) /\ ~(Len(a) + k <= Len(a)) /\ Len(a) + k - Len(a) = k
      BY <1>10, <2>1
    <2> QED BY <1>9, <1>10, <2>2
  <1>12. ASSUME NEW i \in DOMAIN todo'
         PROVE  \/ todo'[i] = Emit(<<"child">>)
                \/ \E o \in 0 .. Lines : todo'[i] = Emit(<<"result", o>>)
                \/ /\ todo'[i] = <<"childOffset", child>>
                   /\ \A o \in 0 .. Lines : o < child => o < childAt
                         \/ \E j \in DOMAIN todo' : j < i /\ todo'[j] = Emit(<<"result", o>>)
    <2>1. CASE i <= Len(a)
      <3>1. i \in DOMAIN a /\ todo'[i] = a[i]
        BY <1>9, <1>10, <2>1
      <3> QED BY <1>3, <3>1
    <2>2. CASE ~(i <= Len(a))
      <3> DEFINE k == i - Len(a)
      <3>1. k \in 1 .. Len(b) /\ i = Len(a) + k
        BY <1>10, <2>2
      <3>2. k \in DOMAIN b /\ todo'[i] = b[k]
        BY <1>10, <1>11, <3>1
      <3>3. CASE k \in 1 .. n
        <4>1. todo'[i] = Emit(<<"result", childAt + k - 1>>)
          BY <1>7, <3>2, <3>3
        <4> QED BY <1>5, <3>3, <4>1
      <3>4. CASE k = n + 1 /\ b[k] = <<"childOffset", child>>
        <4>1. ASSUME NEW o \in 0 .. Lines, o < child, ~(o < childAt)
              PROVE  \E j \in DOMAIN todo' : j < i /\ todo'[j] = Emit(<<"result", o>>)
          <5> DEFINE m == o - childAt + 1
          <5>1. m \in 1 .. n /\ m < k /\ childAt + m - 1 = o
            BY <1>1, <1>4, <3>4, <4>1
          <5>2. m \in DOMAIN b /\ b[m] = Emit(<<"result", o>>)
            <6>1. m \in DOMAIN b /\ b[m] = Emit(<<"result", childAt + m - 1>>)
              BY <1>7, <5>1
            <6> QED BY <5>1, <6>1
          <5>3. Len(a) + m \in DOMAIN todo' /\ todo'[Len(a) + m] = Emit(<<"result", o>>)
            BY <1>11, <5>2
          <5>4. Len(a) + m < i
            <6>1. m \in Int /\ k \in Int /\ m < k
              BY <1>4, <3>4, <5>1
            <6> HIDE DEF m, k
            <6> QED BY <1>10, <3>1, <6>1
          <5> QED BY <5>3, <5>4
        <4> QED BY <3>2, <3>4, <4>1
      <3> QED BY <1>8, <3>2, <3>3, <3>4
    <2> QED BY <2>1, <2>2
  <1> QED BY <1>9, <1>12

LEMMA CoverPassDoes ==
    ASSUME OutboxTypes, CoverPass
    PROVE  todo' \in Seq(Writes) /\ \A i \in DOMAIN todo' : todo'[i] = <<"recheck", crontab>>
  <1>1. <<"recheck", crontab>> \in Writes
    BY WriteFacts DEF OutboxTypes, SourceTypes
  <1>2. todo' = << <<"recheck", crontab>> >> \/ todo' = <<>>
    BY DEF CoverPass, Begin
  <1>3. CASE todo' = << <<"recheck", crontab>> >>
    BY <1>1, <1>3
  <1>4. CASE todo' = <<>>
    BY <1>4
  <1> QED BY <1>2, <1>3, <1>4

LEMMA RecheckDoes ==
    ASSUME OutboxTypes, Recheck
    PROVE  /\ 1 \in DOMAIN todo /\ todo[1][1] = "recheck"
           /\ todo' \in Seq(Writes)
           /\ \A i \in DOMAIN todo' :
                 \/ todo'[i][1] = "replace"
                 \/ todo'[i] = Emit(<<"collector", "coverage">>)
                 \/ todo'[i] = Emit(<<"covered", crontab.edit>>)
  <1>1. 1 \in DOMAIN todo /\ todo[1][1] = "recheck"
    <2>1. todo \in Seq(Writes) /\ todo # <<>> /\ Head(todo)[1] = "recheck"
      BY DEF OutboxTypes, TableTypes, Recheck
    <2> QED BY <2>1
  <1>2. crontab \in Tables /\ crontab.edit \in 0 .. Edits
    BY DEF OutboxTypes, SourceTypes, Tables
  <1>3. /\ <<"replace", crontab>> \in Writes /\ Emit(<<"collector", "coverage">>) \in Writes
        /\ Emit(<<"covered", crontab.edit>>) \in Writes
    BY <1>2, KeyFacts, WriteFacts
  <1>4. \/ todo' = << <<"replace", crontab>>, Emit(<<"covered", crontab.edit>>) >>
        \/ todo' = << Emit(<<"collector", "coverage">>) >>
    BY DEF Recheck
  <1>5. <<"replace", crontab>>[1] = "replace"
    OBVIOUS
  <1>6. CASE todo' = << <<"replace", crontab>>, Emit(<<"covered", crontab.edit>>) >>
    BY ONLY <1>1, <1>3, <1>5, <1>6
  <1>7. CASE todo' = << Emit(<<"collector", "coverage">>) >>
    BY ONLY <1>1, <1>3, <1>7
  <1> QED BY ONLY <1>4, <1>6, <1>7

LEMMA HalfDoes ==
    ASSUME OutboxTypes, UNCHANGED <<markers, torn>> \/ HalfWritten
    PROVE  \/ markers' = markers /\ torn' = torn
           \/ \E r \in Crons : /\ 1 \in DOMAIN todo /\ todo[1] = <<"mark", r>>
                               /\ markers' = markers \cup {r} /\ torn' = torn \cup {r}
  <1>1. CASE UNCHANGED <<markers, torn>>
    BY <1>1
  <1>2. CASE HalfWritten
    <2>1. 1 \in DOMAIN todo /\ Head(todo) = todo[1] /\ todo[1] \in Writes
      BY <1>2 DEF OutboxTypes, TableTypes, HalfWritten
    <2>2. todo[1][2] \in Crons /\ todo[1] = <<"mark", todo[1][2]>>
      BY <1>2, <2>1, WriteKinds DEF HalfWritten
    <2> QED BY <1>2, <2>1, <2>2 DEF HalfWritten
  <1> QED BY <1>1, <1>2

LEMMA CrashDoes ==
    ASSUME OutboxTypes, Crash
    PROVE  /\ todo' \in Seq(Writes)
           /\ \A i \in DOMAIN todo' : todo'[i] = Emit(<<"boot", boots + 1>>)
           /\ \/ markers' = markers /\ torn' = torn
              \/ \E r \in Crons : /\ 1 \in DOMAIN todo /\ todo[1] = <<"mark", r>>
                                  /\ markers' = markers \cup {r} /\ torn' = torn \cup {r}
  <1>1. boots + 1 \in 0 .. Crashes
    BY OutboxAssumption DEF OutboxTypes, SourceTypes, Crash
  <1>2. Emit(<<"boot", boots + 1>>) \in Writes
    BY <1>1, KeyFacts, WriteFacts
  <1>3. todo' = << Emit(<<"boot", boots + 1>>) >>
    BY DEF Crash
  <1>4. todo' \in Seq(Writes) /\ \A i \in DOMAIN todo' : todo'[i] = Emit(<<"boot", boots + 1>>)
    BY <1>2, <1>3
  <1> QED BY <1>4, HalfDoes DEF Crash

(* A pass that fails leaves the record of that, the end of the loop nothing.     *)
Breaks == PassFails \/ LoopEnds

LEMMA BreaksDo ==
    ASSUME OutboxTypes, Breaks
    PROVE  /\ todo' \in Seq(Writes)
           /\ \A i \in DOMAIN todo' : todo'[i] = Emit(<<"collector", "pass">>)
           /\ \/ markers' = markers /\ torn' = torn
              \/ \E r \in Crons : /\ 1 \in DOMAIN todo /\ todo[1] = <<"mark", r>>
                                  /\ markers' = markers \cup {r} /\ torn' = torn \cup {r}
           /\ events' = events /\ mix' = mix /\ cron' = cron /\ spool' = spool
           /\ UNCHANGED <<delivered, posted, pub, batch, journal, cursor, valid, time, base, file, written, offset,
                          skipped, unread, child, childAt, slot, usage, usageSlot, crontab, edits, boots>>
  <1>1. Emit(<<"collector", "pass">>) \in Writes
    BY KeyFacts, WriteFacts
  <1>2. CASE PassFails
    <2>1. todo' = << Emit(<<"collector", "pass">>) >>
      BY <1>2 DEF PassFails
    <2>2. todo' \in Seq(Writes) /\ \A i \in DOMAIN todo' : todo'[i] = Emit(<<"collector", "pass">>)
      BY <1>1, <2>1
    <2>3. UNCHANGED <<markers, torn>> \/ HalfWritten
      BY <1>2 DEF PassFails
    <2> HIDE DEF HalfWritten
    <2>4. /\ events' = events /\ mix' = mix /\ cron' = cron /\ spool' = spool
          /\ UNCHANGED <<delivered, posted, pub, batch, journal, cursor, valid, time, base, file, written, offset,
                         skipped, unread, child, childAt, slot, usage, usageSlot, crontab, edits, boots>>
      BY <1>2 DEF PassFails, table, outbox, jvars, rvars, uvars, cvars
    <2> QED BY <2>2, <2>3, <2>4, HalfDoes
  <1>3. CASE LoopEnds
    <2>1. todo' = <<>>
      BY <1>3 DEF LoopEnds
    <2> QED BY <1>3, <2>1 DEF LoopEnds, table, outbox, crons, jvars, rvars, uvars, cvars
  <1> QED BY <1>2, <1>3 DEF Breaks

--------------------------------------------------------------------------------
(* A set of numbers that is not empty has a least one.                          *)
LEMMA LeastExists == ASSUME NEW T, T \subseteq Nat, T # {}
                     PROVE  \E x \in T : \A y \in T : x <= y
  <1> DEFINE R == OpToRel(<, Nat)
  <1>1. IsWellFoundedOn(R, Nat)
    BY NatLessThanWellFounded
  <1>2. PICK x \in T : \A y \in T : ~(<<y, x>> \in R)
    <2> HIDE DEF R
    <2> QED BY <1>1, WFMin
  <1>3. R = {ss \in Nat \X Nat : ss[1] < ss[2]}
    BY DEF OpToRel
  <1> HIDE DEF R
  <1>4. \A y \in T : x <= y
    <2> SUFFICES ASSUME NEW y \in T PROVE x <= y
      OBVIOUS
    <2>1. <<y, x>> \notin {ss \in Nat \X Nat : ss[1] < ss[2]}
      BY <1>2, <1>3
    <2> QED BY <2>1
  <1> QED BY <1>4

(* The collectors come in turn: the markers are read right after the files, and  *)
(* only if there is a wrapper.                                                   *)
LEMMA AfterFacts ==
    ASSUME NEW j \in DOMAIN Place
    PROVE  /\ After(j) \in DOMAIN Place
           /\ After(j) = "lost" => (j = "spool" /\ "cron" \in mix) \/ (j = "lost" /\ "cron" \notin mix)
           /\ "cron" \in mix => After("spool") = "lost"
           /\ "cron" \notin mix /\ j \notin {"spool", "lost"} => After(j) \notin {"spool", "lost"}
  <1>1. /\ DOMAIN Place = {"spool", "lost", "journal", "retry", "children", "cover"}
        /\ Place["spool"] = 0 /\ Place["lost"] = 1 /\ Place["journal"] = 2 /\ Place["retry"] = 3
        /\ Place["children"] = 4 /\ Place["cover"] = 5
    BY DEF Place
  <1>2. \A k, l \in DOMAIN Place : Ahead(k, l) \in Nat
    BY <1>1 DEF Ahead
  <1>3. ASSUME NEW k \in DOMAIN Place, Active # {}
        PROVE  After(k) \in Active /\ \A l \in Active : Ahead(k, After(k)) <= Ahead(k, l)
    <2> DEFINE D == {Ahead(k, l) : l \in Active}
    <2>1. D \subseteq Nat /\ D # {}
      BY <1>2, <1>3 DEF Active
    <2>2. PICK d \in D : \A e \in D : d <= e
      BY <2>1, LeastExists
    <2>3. \E m \in Active : \A l \in Active : Ahead(k, m) <= Ahead(k, l)
      BY <2>2
    <2> QED BY <1>3, <2>3 DEF After
  <1>4. /\ "spool" \in Active <=> "cron" \in mix
        /\ "lost" \in Active <=> "cron" \in mix
        /\ Active \subseteq DOMAIN Place
    BY <1>1 DEF Active, Source
  <1>5. Active = {} => \A k : After(k) = k
    BY DEF After
  <1>6. ASSUME After(j) = "lost", Active # {} PROVE j = "spool" /\ "cron" \in mix
    <2>1. "cron" \in mix /\ "spool" \in Active /\ "lost" \in Active
      BY <1>3, <1>4, <1>6
    <2>2. Ahead(j, "lost") <= Ahead(j, "spool")
      BY <1>3, <1>6, <2>1
    <2>3. j = "spool"
      BY <1>1, <2>2 DEF Ahead
    <2> QED BY <2>1, <2>3
  <1>7. ASSUME "cron" \in mix PROVE After("spool") = "lost"
    <2>1. "lost" \in Active /\ "spool" \in DOMAIN Place
      BY <1>1, <1>4, <1>7
    <2>2. After("spool") \in DOMAIN Place /\ Ahead("spool", After("spool")) <= Ahead("spool", "lost")
      BY <1>3, <1>4, <2>1
    <2> QED BY <1>1, <2>2 DEF Ahead
  <1>8. After(j) \in DOMAIN Place
    BY <1>3, <1>4, <1>5
  <1>9. After(j) = "lost" => (j = "spool" /\ "cron" \in mix) \/ (j = "lost" /\ "cron" \notin mix)
    BY <1>4, <1>5, <1>6
  <1>10. "cron" \notin mix /\ j \notin {"spool", "lost"} => After(j) \notin {"spool", "lost"}
    BY <1>3, <1>4, <1>5
  <1> QED BY <1>7, <1>8, <1>9, <1>10

LEMMA FirstFacts == /\ FirstJob \in DOMAIN Place /\ FirstJob # "lost"
                    /\ "cron" \notin mix => FirstJob # "spool"
  BY AfterFacts DEF FirstJob, Place

(* The markers are not read after a failure: the files are, first.               *)
LEMMA BreaksTo ==
    ASSUME OutboxTypes, Idle, Breaks
    PROVE  /\ job' \in DOMAIN Place \cup {"ended"} /\ job' # "lost"
           /\ "cron" \notin mix => job' # "spool"
  <1>1. CASE LoopEnds
    BY <1>1 DEF LoopEnds
  <1>2. CASE PassFails
    <2>1. job \in DOMAIN Place /\ "lost" \in DOMAIN Place /\ job' = Skipping
      BY <1>2 DEF PassFails, OutboxTypes, TableTypes, Place
    <2>2. CASE job = "lost" \/ (job = "spool" /\ todo = <<>>)
      <3>1. "cron" \in mix /\ job' = After("lost")
        BY <2>1, <2>2 DEF Idle, Skipping
      <3> QED BY <2>1, <3>1, AfterFacts
    <2>3. CASE ~(job = "lost" \/ (job = "spool" /\ todo = <<>>)) /\ todo = <<>>
      <3>1. job \notin {"spool", "lost"} /\ job' = After(job)
        BY <2>1, <2>3 DEF Skipping
      <3> QED BY <2>1, <3>1, AfterFacts
    <2>4. CASE job # "lost" /\ todo # <<>>
      <3>1. job' = job
        BY <2>1, <2>4 DEF Skipping
      <3> QED BY <2>1, <2>4, <3>1 DEF Idle
    <2> QED BY <2>2, <2>3, <2>4
  <1> QED BY <1>1, <1>2 DEF Breaks
--------------------------------------------------------------------------------
(* The steps as the lists of what is to do see them: nothing happens to the list, *)
(* or its first write is done.                                                   *)
Quiet   == todo' = todo /\ job' = job
Shift   == /\ todo # <<>> /\ todo' = Tail(todo) /\ job' = job
           /\ \A key : todo[1] = Emit(key) => Has(key)'
Growing == \A key : Has(key) => Has(key)'

Durable == WriteEvent \/ WriteMarker \/ RemoveMarker \/ RemoveFile \/ WriteCursor \/ WriteTime
           \/ WriteOffset \/ WriteChildOffset \/ WriteCrontab

LEMMA HeadFacts ==
    ASSUME OutboxTypes, NEW what, Doing(what)
    PROVE  /\ todo # <<>> /\ todo' = Tail(todo) /\ 1 \in DOMAIN todo
           /\ todo[1] = Head(todo) /\ todo[1] \in Writes /\ todo[1][1] = what
  BY DEF OutboxTypes, TableTypes, Doing

(* Any step records at most one event, and that is one of those there are.       *)
LEMMA EventsStep ==
    ASSUME OutboxTypes, [Next]_vars
    PROVE  events' = events \/ \E key \in Keys : events' = Inserted(key)
  <1>1. CASE ServiceEmits
    <2>1. PICK n \in 1 .. Emits : events' = Inserted(<<"service", n>>)
      BY <1>1 DEF ServiceEmits
    <2> QED BY <2>1, KeyFacts
  <1>2. CASE UsageEmit
    <2>1. usage \in 1 .. Slots /\ events' = Inserted(<<"usage", usage>>)
      BY <1>2, OutboxAssumption DEF UsageEmit, OutboxTypes, SourceTypes
    <2> QED BY <2>1, KeyFacts
  <1>3. CASE WriteEvent
    <2>1. todo[1] = Head(todo) /\ todo[1] \in Writes /\ todo[1][1] = "emit"
      BY <1>3, HeadFacts DEF WriteEvent
    <2>2. todo[1][2] \in Keys
      BY <2>1, WriteKinds
    <2> QED BY <1>3, <2>1, <2>2 DEF WriteEvent
  <1>4. CASE Publish
    BY <1>4 DEF Publish, PublishRead, PublishPost, PublishFails, PublishMark, table
  <1>5. CASE Cron
    BY <1>5 DEF Cron, CronStarts, CronFinishes, CronGone, Age, table
  <1>6. CASE Pass
    BY <1>6 DEF Pass, SpoolPass, LostPass, JournalPass, JournalReset, JournalFirst, RetryPass, ChildPass,
                CoverPass, table
  <1>7. CASE Write /\ ~WriteEvent
    BY <1>7 DEF Write, WriteMarker, RemoveMarker, RemoveFile, WriteCursor, WriteTime,
                WriteOffset, WriteChildOffset, WriteCrontab, ReadFile, ReadMarker, ReadRecord, Recheck, table
  <1>8. CASE UsageRead \/ UsageStore
    BY <1>8 DEF UsageRead, UsageStore, table
  <1>9. CASE Environment
    BY <1>9 DEF Environment, JournalGrows, JournalVacuumed, LogGrows, LogRotates, ChildReturns, SlotPasses,
                HumanEdits, table
  <1>10. CASE Crash
    BY <1>10 DEF Crash, table
  <1>11. CASE UNCHANGED vars
    BY <1>11 DEF vars, table
  <1>12. CASE Breaks
    BY <1>12, BreaksDo
  <1> QED BY <1>1, <1>2, <1>3, <1>4, <1>5, <1>6, <1>7, <1>8, <1>9, <1>10, <1>11, <1>12 DEF Next, Breaks

LEMMA EventsGrow ==
    ASSUME OutboxTypes, [Next]_vars
    PROVE  Growing /\ events' \in Seq(Keys)
  <1>1. events \in Seq(Keys)
    BY DEF OutboxTypes, TableTypes
  <1>2. CASE events' = events
    BY <1>1, <1>2 DEF Growing, Has
  <1>3. ASSUME NEW key \in Keys, events' = Inserted(key) PROVE Growing /\ events' \in Seq(Keys)
    BY <1>1, <1>3, InsertedFacts DEF Growing
  <1> QED BY <1>2, <1>3, EventsStep

LEMMA DurableShifts ==
    ASSUME OutboxTypes, Durable
    PROVE  Shift /\ todo' \in Seq(Writes)
  <1>1. CASE WriteEvent
    <2>1. todo # <<>> /\ todo' = Tail(todo) /\ todo[1] = Head(todo) /\ todo[1] \in Writes /\ todo[1][1] = "emit"
      BY <1>1, HeadFacts DEF WriteEvent
    <2>2. todo[1][2] \in Keys /\ events \in Seq(Keys) /\ todo \in Seq(Writes)
      BY <2>1, WriteKinds DEF OutboxTypes, TableTypes
    <2>3. job' = job /\ \E k \in Keys : todo[1] = Emit(k) /\ events' = Inserted(k)
      BY <1>1, <2>1, <2>2, WriteKinds DEF WriteEvent
    <2>4. PICK k \in Keys : todo[1] = Emit(k) /\ events' = Inserted(k)
      BY <2>3
    <2>6. Has(k)'
      BY <2>2, <2>4, InsertedFacts
    <2>5. ASSUME NEW key, todo[1] = Emit(key) PROVE Has(key)'
      <3>1. k = key
        BY <2>4, <2>5 DEF Emit
      <3> QED BY <2>6, <3>1
    <2> QED BY <2>1, <2>2, <2>3, <2>5, TailFacts DEF Shift
  <1>2. CASE ~WriteEvent
    <2>1. job' = job /\ \E what \in {"mark", "unmark", "unlink", "cursor", "time", "offset", "childOffset", "replace"} :
             Doing(what)
      BY <1>2 DEF Durable, WriteMarker, RemoveMarker, RemoveFile, WriteCursor, WriteTime,
                  WriteOffset, WriteChildOffset, WriteCrontab
    <2>2. PICK what \in {"mark", "unmark", "unlink", "cursor", "time", "offset", "childOffset", "replace"} : Doing(what)
      BY <2>1
    <2>3. todo # <<>> /\ todo' = Tail(todo) /\ todo[1][1] = what
      BY <2>2, HeadFacts
    <2>4. \A key : todo[1] # Emit(key)
      BY <2>3 DEF Emit
    <2>5. todo \in Seq(Writes)
      BY DEF OutboxTypes, TableTypes
    <2> QED BY <2>1, <2>3, <2>4, <2>5, TailFacts DEF Shift
  <1> QED BY <1>1, <1>2

LEMMA BehindMoves ==
    ASSUME OutboxTypes, Shift, Growing, NEW key, NEW i \in Nat, NEW k \in Nat, k <= i + 1, Behind(key, k)
    PROVE  Behind(key, i)'
  <1>1. CASE Has(key)
    BY <1>1 DEF Growing, Behind
  <1>2. CASE \E j \in DOMAIN todo : j < k /\ todo[j] = Emit(key)
    <2>1. PICK j \in DOMAIN todo : j < k /\ todo[j] = Emit(key)
      BY <1>2
    <2>2. todo \in Seq(Writes) /\ todo # <<>> /\ todo' = Tail(todo)
      BY DEF OutboxTypes, TableTypes, Shift
    <2>3. j \in Nat /\ j >= 1 /\ (j # 1 => j - 1 \in DOMAIN todo' /\ todo'[j - 1] = todo[j])
      BY <2>1, <2>2, TailFacts
    <2>4. CASE j = 1
      BY <2>1, <2>4 DEF Shift, Behind
    <2>5. CASE j # 1
      <3>1. j - 1 < i
        BY <2>1, <2>3
      <3>2. \E m \in DOMAIN todo' : m < i /\ todo'[m] = Emit(key)
        BY <2>1, <2>3, <2>5, <3>1
      <3> QED BY <3>2 DEF Behind, Emit
    <2> QED BY <2>4, <2>5
  <1> QED BY <1>1, <1>2 DEF Behind

LEMMA BehindStays ==
    ASSUME Quiet, Growing, NEW key, NEW i, Behind(key, i)
    PROVE  Behind(key, i)'
  BY DEF Quiet, Growing, Behind, Emit

(* What a step does not do to a list that is not begun anew.                     *)
Fresh == SpoolPass \/ LostPass \/ JournalPass \/ JournalReset \/ JournalFirst \/ RetryPass \/ ChildPass
         \/ CoverPass \/ ReadFile \/ ReadMarker \/ ReadRecord \/ Recheck \/ Crash \/ Breaks

Calm == \/ ServiceEmits \/ Publish \/ Cron \/ UsageRead \/ UsageEmit \/ UsageStore \/ Environment
        \/ UNCHANGED vars

LEMMA StepKinds == [Next]_vars => Durable \/ Fresh \/ Calm
  BY DEF Next, Pass, Write, Durable, Fresh, Calm, Breaks

LEMMA CalmIsQuiet == ASSUME Calm PROVE Quiet /\ mix' = mix
  BY DEF Calm, Quiet, ServiceEmits, Publish, PublishRead, PublishPost, PublishFails, PublishMark, Cron,
         CronStarts, CronFinishes, CronGone, Age, UsageRead, UsageEmit, UsageStore, Environment,
         JournalGrows, JournalVacuumed, LogGrows, LogRotates, ChildReturns, SlotPasses, HumanEdits, vars

LEMMA TodoStep ==
    ASSUME OutboxTypes, [Next]_vars
    PROVE  todo' \in Seq(Writes)
  <1>1. CASE Durable
    BY <1>1, DurableShifts
  <1>2. CASE Calm
    BY <1>2, CalmIsQuiet DEF Quiet, OutboxTypes, TableTypes
  <1>3. CASE Fresh
    <2>1. CASE SpoolPass \/ LostPass \/ ReadFile \/ ReadMarker
      BY <2>1, SpoolPassDoes, LostPassDoes, ReadFileDoes, ReadMarkerDoes
    <2>2. CASE JournalPass \/ JournalReset \/ JournalFirst \/ ReadRecord
      BY <2>2, JournalPassDoes, JournalResetDoes, JournalFirstDoes, ReadRecordDoes
    <2>3. CASE RetryPass \/ ChildPass \/ CoverPass \/ Recheck \/ Crash \/ Breaks
      BY <2>3, RetryPassDoes, ChildPassDoes, CoverPassDoes, RecheckDoes, CrashDoes, BreaksDo
    <2> QED BY <1>3, <2>1, <2>2, <2>3 DEF Fresh
  <1> QED BY <1>1, <1>2, <1>3, StepKinds

LEMMA JobStep ==
    ASSUME OutboxTypes, Idle, [Next]_vars
    PROVE  job' \in DOMAIN Place \cup {"ended"}
  <1>1. CASE Durable
    BY <1>1, DurableShifts DEF Shift, OutboxTypes, TableTypes
  <1>2. CASE Calm
    BY <1>2, CalmIsQuiet DEF Quiet, OutboxTypes, TableTypes
  <1>3. CASE SpoolPass \/ LostPass \/ JournalPass \/ JournalReset \/ JournalFirst \/ RetryPass \/ ChildPass
             \/ CoverPass
    <2>1. job' = After(job) /\ job \in DOMAIN Place
      BY <1>3 DEF Begin, SpoolPass, LostPass, JournalPass, JournalReset, JournalFirst, RetryPass, ChildPass,
                  CoverPass, Place
    <2> QED BY <2>1, AfterFacts
  <1>4. CASE ReadFile \/ ReadMarker \/ ReadRecord \/ Recheck
    BY <1>4 DEF ReadFile, ReadMarker, ReadRecord, Recheck, OutboxTypes, TableTypes
  <1>5. CASE Crash
    BY <1>5, FirstFacts DEF Crash
  <1>6. CASE Breaks
    BY <1>6, BreaksTo
  <1> QED BY <1>1, <1>2, <1>3, <1>4, <1>5, <1>6, StepKinds DEF Fresh

LEMMA SourcesStep ==
    ASSUME OutboxTypes, [Next]_vars
    PROVE  SourceTypes'
  <1> USE OutboxAssumption DEF OutboxTypes, SourceTypes
  <1>1. CASE ServiceEmits \/ Publish
    BY <1>1 DEF ServiceEmits, Publish, PublishRead, PublishPost, PublishFails, PublishMark, crons, jvars,
                rvars, uvars, cvars
  <1>2. CASE Cron
    <2>1. PICK r \in Crons : CronStarts(r) \/ CronFinishes(r) \/ CronGone(r) \/ Age(r)
      BY <1>2 DEF Cron
    <2>2. <<r, "running">> \in Files /\ <<r, "finish">> \in Files
      BY DEF Files
    <2>3. UNCHANGED <<markers, torn, jvars, rvars, uvars, cvars, boots>>
      BY <2>1 DEF CronStarts, CronFinishes, CronGone, Age
    <2>4. cron' \in [Crons -> {"idle", "running", "finished", "killed", "exited"}]
      BY <2>1 DEF CronStarts, CronFinishes, CronGone, Age
    <2>5. spool' \subseteq Files
      BY <2>1, <2>2 DEF CronStarts, CronFinishes, CronGone, Age
    <2> QED BY <2>3, <2>4, <2>5 DEF jvars, rvars, uvars, cvars
  <1>3. CASE UsageRead \/ UsageEmit \/ UsageStore
    BY <1>3 DEF UsageRead, UsageEmit, UsageStore, crons, jvars, rvars, uvars, cvars
  <1>4. CASE Environment
    <2>1. CASE JournalGrows \/ JournalVacuumed
      BY <2>1 DEF JournalGrows, JournalVacuumed, crons, rvars, uvars, cvars
    <2>2. CASE LogGrows
      <3>1. file'.inode = file.inode /\ file'.lines = file.lines + 1 /\ file' \in [inode : 1 .. 2, lines : 0 .. Lines]
        BY <2>2 DEF LogGrows
      <3> QED BY <2>2, <3>1 DEF LogGrows, crons, jvars, uvars, cvars
    <2>3. CASE LogRotates
      <3>1. /\ file'.inode = 2 /\ file'.lines = 0 /\ file' \in [inode : 1 .. 2, lines : 0 .. Lines]
            /\ unread' \in 0 .. Lines
        BY <2>3 DEF LogRotates, Offsets
      <3> QED BY <2>3, <3>1 DEF LogRotates, crons, jvars, uvars, cvars
    <2>4. CASE ChildReturns \/ SlotPasses
      BY <2>4 DEF ChildReturns, SlotPasses, crons, jvars, uvars, cvars, rvars
    <2>5. CASE HumanEdits
      <3>1. crontab' \in Tables /\ edits' \in 0 .. Edits
        BY <2>5 DEF HumanEdits, Tables
      <3> QED BY <2>5, <3>1 DEF HumanEdits, crons, jvars, uvars, cvars, rvars
    <2> QED BY <1>4, <2>1, <2>2, <2>3, <2>4, <2>5 DEF Environment
  <1>5. CASE UNCHANGED vars
    BY <1>5 DEF vars, crons, jvars, rvars, uvars, cvars
  <1>6. CASE Crash
    <2>1. markers' \subseteq Crons /\ torn' \subseteq Crons
      BY <1>6, CrashDoes
    <2>2. boots' \in 0 .. Crashes
      BY <1>6 DEF Crash
    <2> QED BY <1>6, <2>1, <2>2 DEF Crash, jvars, rvars, cvars
  <1>20. CASE Breaks
    <2>1. markers' \subseteq Crons /\ torn' \subseteq Crons
      BY <1>20, BreaksDo
    <2>2. cron' = cron /\ spool' = spool
      BY <1>20, BreaksDo
    <2>3. UNCHANGED <<journal, cursor, valid, time, base, file, written, offset, skipped, unread, child, childAt, slot,
                      usage, usageSlot, crontab, edits, boots>>
      BY <1>20, BreaksDo
    <2> QED BY <2>1, <2>2, <2>3
  <1>7. CASE SpoolPass \/ LostPass \/ JournalPass \/ ChildPass \/ CoverPass \/ ReadFile \/ ReadMarker
             \/ ReadRecord \/ Recheck
    BY <1>7 DEF SpoolPass, LostPass, JournalPass, ChildPass, CoverPass, ReadFile, ReadMarker, ReadRecord,
                Recheck, crons, jvars, rvars, uvars, cvars
  <1>8. CASE JournalFirst
    BY <1>8 DEF JournalFirst, crons, rvars, uvars, cvars
  <1>9. CASE JournalReset
    <2>1. PICK from \in Nat \ {0} : /\ time = 0 => from \in 1 .. journal + 1
                                    /\ base' = IF time = 0 /\ from > base THEN from - 1 ELSE base
      BY <1>9, JournalResetDoes
    <2>2. base' \in 0 .. journal
      BY <2>1
    <2> QED BY <1>9, <2>2 DEF JournalReset, crons, rvars, uvars, cvars
  <1>10. CASE RetryPass
    <2>1. skipped' \in Offsets
      BY <1>10 DEF RetryPass, Offsets
    <2> QED BY <1>10, <2>1 DEF RetryPass, crons, jvars, uvars, cvars
  <1>11. CASE WriteEvent
    BY <1>11 DEF WriteEvent, crons, jvars, rvars, uvars, cvars
  <1>12. CASE WriteMarker \/ RemoveMarker \/ RemoveFile
    <2>2. WriteMarker => Head(todo)[2] \in Crons
      BY HeadFacts, WriteKinds DEF WriteMarker
    <2> QED BY <1>12, <2>2 DEF WriteMarker, RemoveMarker, RemoveFile, jvars, rvars, uvars, cvars
  <1>13. CASE WriteCursor \/ WriteTime
    <2>1. Head(todo)[2] \in 1 .. Records
      BY <1>13, HeadFacts, WriteKinds DEF WriteCursor, WriteTime
    <2> QED BY <1>13, <2>1 DEF WriteCursor, WriteTime, crons, rvars, uvars, cvars
  <1>14. CASE WriteOffset
    <2>1. Head(todo)[2] \in 1 .. 2 /\ Head(todo)[3] \in 0 .. Lines
      BY <1>14, HeadFacts, WriteKinds DEF WriteOffset
    <2>2. offset' \in Offsets
      BY <1>14, <2>1 DEF WriteOffset, Offsets
    <2> QED BY <1>14, <2>2 DEF WriteOffset, crons, jvars, uvars, cvars
  <1>15. CASE WriteChildOffset
    <2>1. Head(todo)[2] \in 0 .. Lines
      BY <1>15, HeadFacts, WriteKinds DEF WriteChildOffset
    <2> QED BY <1>15, <2>1 DEF WriteChildOffset, crons, jvars, uvars, cvars
  <1>16. CASE WriteCrontab
    <2>1. Head(todo)[2] \in Tables
      BY <1>16, HeadFacts, WriteKinds DEF WriteCrontab
    <2>2. crontab' \in Tables
      BY <1>16, <2>1 DEF WriteCrontab, Tables
    <2> QED BY <1>16, <2>2 DEF WriteCrontab, crons, jvars, rvars, uvars
  <1>17. Durable => WriteEvent \/ (WriteMarker \/ RemoveMarker \/ RemoveFile) \/ (WriteCursor \/ WriteTime)
                    \/ WriteOffset \/ WriteChildOffset \/ WriteCrontab
    BY DEF Durable
  <1>18. Calm => (ServiceEmits \/ Publish) \/ Cron \/ (UsageRead \/ UsageEmit \/ UsageStore) \/ Environment
                 \/ UNCHANGED vars
    BY DEF Calm
  <1>19. Fresh => (SpoolPass \/ LostPass \/ JournalPass \/ ChildPass \/ CoverPass \/ ReadFile \/ ReadMarker
                   \/ ReadRecord \/ Recheck) \/ JournalFirst \/ JournalReset \/ RetryPass \/ Crash \/ Breaks
    BY DEF Fresh
  <1> QED BY ONLY StepKinds, [Next]_vars, <1>1, <1>2, <1>3, <1>4, <1>5, <1>6, <1>7, <1>8, <1>9, <1>10, <1>11, <1>12,
             <1>13, <1>14, <1>15, <1>16, <1>17, <1>18, <1>19, <1>20

LEMMA TypesStep ==
    ASSUME OutboxTypes, Idle, [Next]_vars
    PROVE  OutboxTypes'
  <1>1. SourceTypes' /\ TableTypes'
    <2>1. TableTypes'
      <3>1. events' \in Seq(Keys) /\ todo' \in Seq(Writes) /\ job' \in DOMAIN Place \cup {"ended"}
        BY EventsGrow, TodoStep, JobStep
      <3>2. (DOMAIN Place)' = DOMAIN Place /\ Seq(Keys)' = Seq(Keys) /\ Seq(Writes)' = Seq(Writes)
        BY DEF Place, Keys, Writes, Files, Tables
      <3> QED BY <3>1, <3>2 DEF TableTypes
    <2> QED BY <2>1, SourcesStep
  <1> QED BY <1>1 DEF OutboxTypes

LEMMA TypesInit == Init => OutboxTypes
  <1> SUFFICES ASSUME Init PROVE OutboxTypes
    OBVIOUS
  <1> USE OutboxAssumption
  <1>1. Emit(<<"boot", 0>>) \in Writes
    BY KeyFacts, WriteFacts
  <1>2. TableTypes
    <2>1. events = <<>> /\ todo = << Emit(<<"boot", 0>>) >> /\ job = FirstJob
      BY DEF Init
    <2>2. todo \in Seq(Writes)
      BY <1>1, <2>1
    <2> QED BY <2>1, <2>2, FirstFacts DEF TableTypes
  <1>3. SourceTypes
    BY DEF Init, SourceTypes, Files, Offsets, Tables, NoOffset
  <1> QED BY <1>2, <1>3 DEF OutboxTypes

LEMMA InitLists == ASSUME Init PROVE /\ \A i \in DOMAIN todo : todo[i] = Emit(<<"boot", 0>>)
                                     /\ \A key : ~Has(key)
  BY DEF Init, Has
--------------------------------------------------------------------------------
(* The journal: a cursor is moved only past what is recorded.                    *)
JournalWork == {"cursor", "time", "records"}

LEMMA JournalKept ==
    ASSUME OutboxTypes, JournalInv, Growing, base' = base, cursor' = cursor, time' = time,
           Quiet \/ (\A i \in DOMAIN todo' : todo'[i][1] \notin JournalWork)
    PROVE  JournalInv'
  <1>1. /\ \A q \in base' + 1 .. cursor' : q \notin Noise => Has(<<"journal", q>>)'
        /\ \A q \in base' + 1 .. time' : q \notin Noise => Has(<<"journal", q>>)'
    BY DEF JournalInv, Growing
  <1>2. CASE Quiet
    <2>1. todo' = todo
      BY <1>2 DEF Quiet
    <2>2. \A p, i : Recorded(p, i) => Recorded(p, i)'
      BY <1>2, BehindStays DEF Recorded
    <2>3. /\ \A i \in DOMAIN todo : todo[i][1] \in {"cursor", "time"} => Recorded(todo[i][2], i)
          /\ \A i \in DOMAIN todo : todo[i][1] = "records" => Recorded(todo[i][2] - 1, i)
      BY DEF JournalInv
    <2>4. ASSUME NEW i \in DOMAIN todo', todo'[i][1] \in {"cursor", "time"}
          PROVE  \A q \in base' + 1 .. todo'[i][2] : q \notin Noise => Behind(<<"journal", q>>, i)'
      <3>1. \A q \in base + 1 .. todo[i][2] : q \notin Noise => Behind(<<"journal", q>>, i)
        BY <2>1, <2>3, <2>4 DEF Recorded
      <3> QED BY <1>2, <2>1, <3>1, BehindStays
    <2>5. ASSUME NEW i \in DOMAIN todo', todo'[i][1] = "records"
          PROVE  \A q \in base' + 1 .. todo'[i][2] - 1 : q \notin Noise => Behind(<<"journal", q>>, i)'
      <3>1. \A q \in base + 1 .. todo[i][2] - 1 : q \notin Noise => Behind(<<"journal", q>>, i)
        BY <2>1, <2>3, <2>5 DEF Recorded
      <3> QED BY <1>2, <2>1, <3>1, BehindStays
    <2> QED BY <1>1, <2>4, <2>5 DEF JournalInv, Recorded
  <1>3. CASE \A i \in DOMAIN todo' : todo'[i][1] \notin JournalWork
    BY <1>1, <1>3 DEF JournalInv, JournalWork
  <1> QED BY <1>2, <1>3

LEMMA JournalShifts ==
    ASSUME OutboxTypes, JournalInv, Growing, Shift, base' = base,
           \/ cursor' = cursor
           \/ todo[1][1] = "cursor" /\ cursor' = todo[1][2],
           \/ time' = time
           \/ todo[1][1] = "time" /\ time' = todo[1][2]
    PROVE  JournalInv'
  <1>1. todo \in Seq(Writes) /\ todo # <<>> /\ todo' = Tail(todo)
    BY DEF OutboxTypes, TableTypes, Shift
  <1>2. /\ 1 \in DOMAIN todo /\ todo[1] \in Writes
        /\ \A i \in DOMAIN todo' : i \in Nat /\ i + 1 \in DOMAIN todo /\ todo'[i] = todo[i + 1]
        /\ \A i \in DOMAIN todo : i \in Nat /\ i >= 1 /\ todo[i] \in Writes
    BY <1>1, TailFacts
  <1>3. /\ \A i \in DOMAIN todo : todo[i][1] \in {"cursor", "time"} => Recorded(todo[i][2], i)
        /\ \A i \in DOMAIN todo : todo[i][1] = "records" => Recorded(todo[i][2] - 1, i)
        /\ \A q \in base + 1 .. cursor : q \notin Noise => Has(<<"journal", q>>)
        /\ \A q \in base + 1 .. time : q \notin Noise => Has(<<"journal", q>>)
    BY DEF JournalInv
  <1>4. \A key : Behind(key, 1) => Has(key)
    BY <1>2 DEF Behind
  <1>5. todo[1][1] \in {"cursor", "time"} =>
           \A q \in base + 1 .. todo[1][2] : q \notin Noise => Has(<<"journal", q>>)
    BY <1>2, <1>3, <1>4 DEF Recorded
  <1>6. /\ \A q \in base' + 1 .. cursor' : q \notin Noise => Has(<<"journal", q>>)'
        /\ \A q \in base' + 1 .. time' : q \notin Noise => Has(<<"journal", q>>)'
    <2>1. /\ \A q \in base' + 1 .. cursor' : q \notin Noise => Has(<<"journal", q>>)
          /\ \A q \in base' + 1 .. time' : q \notin Noise => Has(<<"journal", q>>)
      BY <1>3, <1>5
    <2> QED BY <2>1 DEF Growing
  <1>7. ASSUME NEW i \in DOMAIN todo', todo'[i][1] \in {"cursor", "time"}
        PROVE  \A q \in base' + 1 .. todo'[i][2] : q \notin Noise => Behind(<<"journal", q>>, i)'
    <2>1. \A q \in base + 1 .. todo[i + 1][2] : q \notin Noise => Behind(<<"journal", q>>, i + 1)
      BY <1>2, <1>3, <1>7 DEF Recorded
    <2>2. i \in Nat /\ i + 1 \in Nat /\ i + 1 <= i + 1 /\ todo'[i] = todo[i + 1]
      BY <1>2
    <2> QED BY <2>1, <2>2, BehindMoves
  <1>8. ASSUME NEW i \in DOMAIN todo', todo'[i][1] = "records"
        PROVE  \A q \in base' + 1 .. todo'[i][2] - 1 : q \notin Noise => Behind(<<"journal", q>>, i)'
    <2>1. \A q \in base + 1 .. todo[i + 1][2] - 1 : q \notin Noise => Behind(<<"journal", q>>, i + 1)
      BY <1>2, <1>3, <1>8 DEF Recorded
    <2>2. i \in Nat /\ i + 1 \in Nat /\ i + 1 <= i + 1 /\ todo'[i] = todo[i + 1]
      BY <1>2
    <2> QED BY <2>1, <2>2, BehindMoves
  <1> QED BY <1>6, <1>7, <1>8 DEF JournalInv, Recorded

LEMMA JournalStep ==
    ASSUME OutboxTypes, JournalInv, [Next]_vars
    PROVE  JournalInv'
  <1>1. Growing
    BY EventsGrow
  <1>2. CASE Calm
    <2>1. base' = base /\ cursor' = cursor /\ time' = time
      BY <1>2 DEF Calm, ServiceEmits, Publish, PublishRead, PublishPost, PublishFails, PublishMark, Cron,
             CronStarts, CronFinishes, CronGone, Age, UsageRead, UsageEmit, UsageStore, Environment,
             JournalGrows, JournalVacuumed, LogGrows, LogRotates, ChildReturns, SlotPasses, HumanEdits,
             vars, jvars
    <2> QED BY <1>1, <1>2, <2>1, CalmIsQuiet, JournalKept
  <1>3. CASE Durable
    <2>1. Shift
      BY <1>3, DurableShifts
    <2>2. /\ base' = base
          /\ cursor' = cursor \/ (todo[1][1] = "cursor" /\ cursor' = todo[1][2])
          /\ time' = time \/ (todo[1][1] = "time" /\ time' = todo[1][2])
      <3>1. CASE WriteCursor
        BY <3>1, HeadFacts DEF WriteCursor
      <3>2. CASE WriteTime
        BY <3>2, HeadFacts DEF WriteTime
      <3>3. CASE ~WriteCursor /\ ~WriteTime
        BY <1>3, <3>3 DEF Durable, WriteEvent, WriteMarker, RemoveMarker, RemoveFile, WriteOffset,
                          WriteChildOffset, WriteCrontab, jvars
      <3> QED BY <3>1, <3>2, <3>3
    <2> QED BY <1>1, <2>1, <2>2, JournalShifts
  <1>4. CASE SpoolPass \/ LostPass \/ RetryPass \/ ChildPass \/ CoverPass \/ ReadFile \/ ReadMarker \/ Recheck
             \/ Crash \/ Breaks
    <2>1. base' = base /\ cursor' = cursor /\ time' = time
      BY <1>4, BreaksDo DEF SpoolPass, LostPass, RetryPass, ChildPass, CoverPass, ReadFile, ReadMarker, Recheck,
                  Crash, jvars
    <2>2. \A i \in DOMAIN todo' : todo'[i][1] \notin JournalWork
      <3>1. CASE SpoolPass \/ LostPass
        BY <3>1, SpoolPassDoes, LostPassDoes DEF JournalWork
      <3>2. CASE RetryPass
        <4>1. PICK from \in 0 .. file.lines, n \in Nat :
                 /\ DOMAIN todo' = 1 .. n + 1
                 /\ \A i \in 1 .. n : todo'[i] = Emit(<<"line", file.inode, from + i - 1>>)
                 /\ todo'[n + 1] = <<"offset", file.inode, file.lines>>
          BY <3>2, RetryPassDoes
        <4>2. ASSUME NEW i \in DOMAIN todo' PROVE todo'[i][1] \in {"emit", "offset"}
          <5>1. i \in 1 .. n \/ i = n + 1
            BY <4>1
          <5>2. ASSUME i \in 1 .. n PROVE todo'[i][1] = "emit"
            BY <4>1, <5>2 DEF Emit
          <5> QED BY <4>1, <5>1, <5>2
        <4> QED BY <4>2 DEF JournalWork
      <3>3. CASE ChildPass
        BY <3>3, ChildPassDoes DEF JournalWork, Emit
      <3>4. CASE CoverPass \/ Recheck
        BY <3>4, CoverPassDoes, RecheckDoes DEF JournalWork, Emit
      <3>5. CASE ReadFile
        <4>1. PICK f \in Files, L \in SUBSET Files :
                 /\ DOMAIN todo' = 1 .. 3 + (IF L \ {f} = {} THEN 0 ELSE 1)
                 /\ todo'[1] = Emit(<<IF f[2] = "running" THEN "running" ELSE "finish", f[1]>>)
                 /\ todo'[2] = <<IF f[2] = "running" THEN "mark" ELSE "unmark", f[1]>>
                 /\ todo'[3] = <<"unlink", f>>
                 /\ L \ {f} # {} => todo'[4] = <<"files", L \ {f}>>
          BY <3>5, ReadFileDoes
        <4>2. ASSUME NEW i \in DOMAIN todo' PROVE i = 1 \/ i = 2 \/ i = 3 \/ (i = 4 /\ L \ {f} # {})
          BY <4>1
        <4>3. /\ todo'[1][1] = "emit" /\ todo'[2][1] \in {"mark", "unmark"} /\ todo'[3][1] = "unlink"
              /\ L \ {f} # {} => todo'[4][1] = "files"
          BY <4>1 DEF Emit
        <4> QED BY <4>2, <4>3 DEF JournalWork
      <3>6. CASE ReadMarker
        BY <3>6, ReadMarkerDoes DEF JournalWork, Emit
      <3>7. CASE Crash \/ Breaks
        BY <3>7, CrashDoes, BreaksDo DEF JournalWork, Emit
      <3> QED BY <1>4, <3>1, <3>2, <3>3, <3>4, <3>5, <3>6, <3>7
    <2> QED BY <1>1, <2>1, <2>2, JournalKept
  <1> DEFINE HasTo(p) == \A q \in base + 1 .. p : q \notin Noise => Has(<<"journal", q>>)
  <1>5. /\ HasTo(cursor) /\ HasTo(time)
        /\ \A p : HasTo(p) => \A i : \A q \in base + 1 .. p : q \notin Noise => Behind(<<"journal", q>>, i)'
        /\ \A p : HasTo(p) => \A q \in base + 1 .. p : q \notin Noise => Has(<<"journal", q>>)'
    BY <1>1 DEF JournalInv, Growing, Behind
  <1>6. /\ base \in 0 .. journal /\ journal \in 0 .. Records /\ cursor \in 0 .. Records /\ time \in 0 .. Records
        /\ Records \in Nat
    BY OutboxAssumption DEF OutboxTypes, SourceTypes
  <1>7. CASE JournalPass
    <2>1. \A i \in DOMAIN todo' : i = 1 /\ todo'[i] = <<"records", cursor + 1, journal>>
      BY <1>7, JournalPassDoes
    <2>2. base' = base /\ cursor' = cursor /\ time' = time
      BY <1>7 DEF JournalPass, jvars
    <2>3. ASSUME NEW i \in DOMAIN todo'
          PROVE  /\ todo'[i][1] \notin {"cursor", "time"}
                 /\ \A q \in base + 1 .. todo'[i][2] - 1 : q \notin Noise => Behind(<<"journal", q>>, i)'
      <3>1. todo'[i][2] - 1 = cursor /\ todo'[i][1] = "records"
        BY <1>6, <2>1
      <3> QED BY <1>5, <3>1
    <2> QED BY <1>5, <2>2, <2>3 DEF JournalInv, Recorded
  <1>8. CASE JournalReset
    <2>1. PICK from \in Nat \ {0} :
              /\ time # 0 => from = time
              /\ time = 0 => from \in 1 .. journal + 1
              /\ base' = IF time = 0 /\ from > base THEN from - 1 ELSE base
              /\ 1 \in DOMAIN todo' /\ todo'[1] = Emit(<<"reset", cursor>>)
              /\ \A i \in DOMAIN todo' : i = 1 \/ (i = 2 /\ todo'[i] = <<"records", from, journal>>)
      BY <1>8, JournalResetDoes
    <2>2. cursor' = cursor /\ time' = time
      BY <1>8 DEF JournalReset
    <2>3. base' \in Nat /\ base' >= base
      BY <1>6, <2>1
    <2>4. /\ \A q \in base' + 1 .. cursor' : q \notin Noise => Has(<<"journal", q>>)'
          /\ \A q \in base' + 1 .. time' : q \notin Noise => Has(<<"journal", q>>)'
      <3>3. base' \in Nat /\ base' >= base /\ base \in Nat /\ cursor \in Nat /\ time \in Nat
            /\ cursor' = cursor /\ time' = time
        BY <1>6, <2>2, <2>3
      <3>4. ASSUME NEW b \in Nat, NEW c \in Nat, NEW d \in Nat, b >= c
            PROVE  \A q \in b + 1 .. d : q \in c + 1 .. d
        BY ONLY <3>4
      <3>1. \A q \in base' + 1 .. cursor' : q \in base + 1 .. cursor
        BY ONLY <3>3, <3>4
      <3>2. \A q \in base' + 1 .. time' : q \in base + 1 .. time
        BY ONLY <3>3, <3>4
      <3> QED BY <1>5, <3>1, <3>2
    <2>5. ASSUME NEW q \in base' + 1 .. from - 1, q \notin Noise PROVE \A i : Behind(<<"journal", q>>, i)'
      <3>1. CASE time # 0
        <4>1. q \in base + 1 .. time
          BY <1>6, <2>1, <3>1
        <4> QED BY <1>5, <2>5, <4>1
      <3>2. CASE time = 0
        BY <1>6, <2>1, <3>2
      <3> QED BY <3>1, <3>2
    <2>6. ASSUME NEW i \in DOMAIN todo'
          PROVE  /\ todo'[i][1] \notin {"cursor", "time"}
                 /\ todo'[i][1] = "records" =>
                       \A q \in base' + 1 .. todo'[i][2] - 1 : q \notin Noise => Behind(<<"journal", q>>, i)'
      <3>1. CASE i = 1
        BY <2>1, <3>1 DEF Emit
      <3>2. CASE todo'[i] = <<"records", from, journal>>
        <4>1. todo'[i][1] = "records" /\ todo'[i][2] = from
          BY <3>2
        <4> QED BY <2>5, <4>1
      <3> QED BY <2>1, <3>1, <3>2
    <2> QED BY <2>4, <2>6 DEF JournalInv, Recorded
  <1>9. CASE JournalFirst
    <2>1. \A i \in DOMAIN todo' : i = 1 /\ todo'[i] = <<"cursor", journal>>
      BY <1>9, JournalFirstDoes
    <2>2. base' = journal /\ cursor = 0 /\ cursor' = cursor /\ time' = time
      BY <1>9 DEF JournalFirst
    <2>3. /\ \A q \in base' + 1 .. cursor' : FALSE
          /\ \A q : q \in base' + 1 .. time' => q \in base + 1 .. time
          /\ \A q \in base' + 1 .. journal : FALSE
      BY <1>6, <2>2
    <2>4. ASSUME NEW i \in DOMAIN todo'
          PROVE  todo'[i][1] = "cursor" /\ todo'[i][2] = journal
      BY <2>1
    <2> QED BY <1>5, <2>3, <2>4 DEF JournalInv, Recorded
  <1>10. CASE ReadRecord
    <2>1. PICK p \in 1 .. Records, l \in 1 .. Records, n \in {0, 1} :
              /\ 1 \in DOMAIN todo /\ todo[1][1] = "records" /\ todo[1][2] = p
              /\ 1 \in DOMAIN todo'
              /\ p \notin Noise => n = 1 /\ todo'[1] = Emit(<<"journal", p>>)
              /\ \A i \in DOMAIN todo' :
                    \/ i = 1 /\ n = 1 /\ todo'[i] = Emit(<<"journal", p>>)
                    \/ i > n /\ todo'[i] \in {<<"cursor", p>>, <<"time", p>>}
                    \/ i > n /\ todo'[i] = <<"records", p + 1, l>>
      BY <1>10, ReadRecordDoes
    <2>2. base' = base /\ cursor' = cursor /\ time' = time
      BY <1>10 DEF ReadRecord, jvars
    <2>3. HasTo(p - 1)
      <3>1. Recorded(p - 1, 1)
        BY <2>1 DEF JournalInv
      <3>2. \A j \in DOMAIN todo : j \in Nat /\ j >= 1
        <4>1. todo \in Seq(Writes)
          BY DEF OutboxTypes, TableTypes
        <4> QED BY <4>1
      <3>3. \A key : Behind(key, 1) => Has(key)
        BY <3>2 DEF Behind
      <3> QED BY <3>1, <3>3 DEF Recorded
    <2>4. ASSUME NEW i \in DOMAIN todo', i > n, NEW q \in base + 1 .. p, q \notin Noise
          PROVE  Behind(<<"journal", q>>, i)'
      <3>1. CASE q = p
        <4>1. 1 < i /\ 1 \in DOMAIN todo' /\ todo'[1] = Emit(<<"journal", q>>)
          BY <2>1, <2>4, <3>1
        <4> QED BY <4>1 DEF Behind, Emit
      <3>2. CASE q # p
        <4>1. q \in base + 1 .. p - 1
          BY <1>6, <2>1, <2>4, <3>2
        <4> QED BY <1>5, <2>3, <2>4, <4>1
      <3> QED BY <3>1, <3>2
    <2>5. ASSUME NEW i \in DOMAIN todo'
          PROVE  /\ todo'[i][1] \in {"cursor", "time"} => i > n /\ todo'[i][2] = p
                 /\ todo'[i][1] = "records" => i > n /\ todo'[i][2] - 1 = p
      <3>1. CASE todo'[i] = Emit(<<"journal", p>>)
        BY <3>1 DEF Emit
      <3>2. CASE i > n /\ todo'[i] \in {<<"cursor", p>>, <<"time", p>>}
        BY <3>2
      <3>3. CASE i > n /\ todo'[i] = <<"records", p + 1, l>>
        BY <3>3
      <3> QED BY <2>1, <3>1, <3>2, <3>3
    <2>6. /\ \A i \in DOMAIN todo' : todo'[i][1] \in {"cursor", "time"} =>
                \A q \in base' + 1 .. todo'[i][2] : q \notin Noise => Behind(<<"journal", q>>, i)'
          /\ \A i \in DOMAIN todo' : todo'[i][1] = "records" =>
                \A q \in base' + 1 .. todo'[i][2] - 1 : q \notin Noise => Behind(<<"journal", q>>, i)'
      BY <2>2, <2>4, <2>5
    <2> QED BY <1>5, <2>2, <2>6 DEF JournalInv, Recorded
  <1> QED BY <1>2, <1>3, <1>4, <1>7, <1>8, <1>9, <1>10, StepKinds DEF Fresh
--------------------------------------------------------------------------------
(* The watched log and the transcript: an offset is stored after what it passes.  *)
OffsetWork == {"offset", "childOffset"}

LEMMA OffsetKept ==
    ASSUME OutboxTypes, OffsetInv, Growing, offset' = offset, skipped' = skipped, childAt' = childAt,
           Quiet \/ (\A i \in DOMAIN todo' : todo'[i][1] \notin OffsetWork)
    PROVE  OffsetInv'
  <1>1. /\ \A n \in 0 .. 2, o \in 0 .. Lines :
              offset'.inode = n /\ o < offset'.at /\ Seen(n, o)' => Has(<<"line", n, o>>)'
        /\ \A o \in 0 .. Lines : o < childAt' => Has(<<"result", o>>)'
    BY DEF OffsetInv, Growing, Seen
  <1>2. CASE Quiet
    <2>1. todo' = todo
      BY <1>2 DEF Quiet
    <2>2. ASSUME NEW i \in DOMAIN todo', NEW n \in 1 .. 2, NEW o \in 0 .. Lines,
                 todo'[i][1] = "offset", todo'[i][2] = n, o < todo'[i][3], Seen(n, o)'
          PROVE  Behind(<<"line", n, o>>, i)'
      <3>1. Behind(<<"line", n, o>>, i)
        BY <2>1, <2>2 DEF OffsetInv, Seen
      <3> QED BY <1>2, <3>1, BehindStays
    <2>3. ASSUME NEW i \in DOMAIN todo', todo'[i][1] = "childOffset", NEW o \in 0 .. Lines, o < todo'[i][2]
          PROVE  Behind(<<"result", o>>, i)'
      <3>1. Behind(<<"result", o>>, i)
        BY <2>1, <2>3 DEF OffsetInv
      <3> QED BY <1>2, <3>1, BehindStays
    <2> QED BY <1>1, <2>2, <2>3 DEF OffsetInv
  <1>3. CASE \A i \in DOMAIN todo' : todo'[i][1] \notin OffsetWork
    BY <1>1, <1>3 DEF OffsetInv, OffsetWork
  <1> QED BY <1>2, <1>3

LEMMA OffsetShifts ==
    ASSUME OutboxTypes, OffsetInv, Growing, Shift, skipped' = skipped,
           \/ offset' = offset
           \/ todo[1][1] = "offset" /\ offset' = [inode |-> todo[1][2], at |-> todo[1][3]],
           \/ childAt' = childAt
           \/ todo[1][1] = "childOffset" /\ childAt' = todo[1][2]
    PROVE  OffsetInv'
  <1>1. todo \in Seq(Writes) /\ todo # <<>> /\ todo' = Tail(todo)
    BY DEF OutboxTypes, TableTypes, Shift
  <1>2. /\ 1 \in DOMAIN todo /\ todo[1] \in Writes
        /\ \A i \in DOMAIN todo' : i \in Nat /\ i + 1 \in DOMAIN todo /\ todo'[i] = todo[i + 1]
        /\ \A i \in DOMAIN todo : i \in Nat /\ i >= 1 /\ todo[i] \in Writes
    BY <1>1, TailFacts
  <1>4. \A key : Behind(key, 1) => Has(key)
    BY <1>2 DEF Behind
  <1>5. ASSUME NEW n \in 0 .. 2, NEW o \in 0 .. Lines, offset'.inode = n, o < offset'.at, Seen(n, o)
        PROVE  Has(<<"line", n, o>>)'
    <2>1. CASE offset' = offset
      BY <1>5, <2>1 DEF OffsetInv, Growing
    <2>2. CASE todo[1][1] = "offset" /\ offset' = [inode |-> todo[1][2], at |-> todo[1][3]]
      <3>1. n = todo[1][2] /\ o < todo[1][3]
        BY <1>5, <2>2
      <3>3. n \in 1 .. 2
        BY <1>2, <2>2, <3>1, WriteKinds
      <3>2. Behind(<<"line", n, o>>, 1)
        BY <1>2, <1>5, <2>2, <3>1, <3>3 DEF OffsetInv
      <3> QED BY <1>4, <3>2 DEF Growing
    <2> QED BY <2>1, <2>2
  <1>6. ASSUME NEW o \in 0 .. Lines, o < childAt' PROVE Has(<<"result", o>>)'
    <2>1. CASE childAt' = childAt
      BY <1>6, <2>1 DEF OffsetInv, Growing
    <2>2. CASE todo[1][1] = "childOffset" /\ childAt' = todo[1][2]
      <3>1. Behind(<<"result", o>>, 1)
        BY <1>2, <1>6, <2>2 DEF OffsetInv
      <3> QED BY <1>4, <3>1 DEF Growing
    <2> QED BY <2>1, <2>2
  <1>7. ASSUME NEW i \in DOMAIN todo', NEW n \in 1 .. 2, NEW o \in 0 .. Lines,
               todo'[i][1] = "offset", todo'[i][2] = n, o < todo'[i][3], Seen(n, o)
        PROVE  Behind(<<"line", n, o>>, i)'
    <2>1. Behind(<<"line", n, o>>, i + 1)
      BY <1>2, <1>7 DEF OffsetInv
    <2>2. i \in Nat /\ i + 1 \in Nat /\ i + 1 <= i + 1
      BY <1>2
    <2> QED BY <2>1, <2>2, BehindMoves
  <1>8. ASSUME NEW i \in DOMAIN todo', todo'[i][1] = "childOffset", NEW o \in 0 .. Lines, o < todo'[i][2]
        PROVE  Behind(<<"result", o>>, i)'
    <2>1. Behind(<<"result", o>>, i + 1)
      BY <1>2, <1>8 DEF OffsetInv
    <2>2. i \in Nat /\ i + 1 \in Nat /\ i + 1 <= i + 1
      BY <1>2
    <2> QED BY <2>1, <2>2, BehindMoves
  <1>9. \A n, o : Seen(n, o)' <=> Seen(n, o)
    BY DEF Seen
  <1> QED BY <1>5, <1>6, <1>7, <1>8, <1>9 DEF OffsetInv

LEMMA OffsetStep ==
    ASSUME OutboxTypes, OffsetInv, [Next]_vars
    PROVE  OffsetInv'
  <1>1. Growing
    BY EventsGrow
  <1>2. CASE Calm
    <2>1. offset' = offset /\ skipped' = skipped /\ childAt' = childAt
      BY <1>2 DEF Calm, ServiceEmits, Publish, PublishRead, PublishPost, PublishFails, PublishMark, Cron,
             CronStarts, CronFinishes, CronGone, Age, UsageRead, UsageEmit, UsageStore, Environment,
             JournalGrows, JournalVacuumed, LogGrows, LogRotates, ChildReturns, SlotPasses, HumanEdits,
             vars, rvars
    <2> QED BY <1>1, <1>2, <2>1, CalmIsQuiet, OffsetKept
  <1>3. CASE Durable
    <2>1. Shift
      BY <1>3, DurableShifts
    <2>2. /\ skipped' = skipped
          /\ offset' = offset \/ (todo[1][1] = "offset" /\ offset' = [inode |-> todo[1][2], at |-> todo[1][3]])
          /\ childAt' = childAt \/ (todo[1][1] = "childOffset" /\ childAt' = todo[1][2])
      <3>1. CASE WriteOffset
        BY <3>1, HeadFacts DEF WriteOffset
      <3>2. CASE WriteChildOffset
        BY <3>2, HeadFacts DEF WriteChildOffset
      <3>3. CASE ~WriteOffset /\ ~WriteChildOffset
        BY <1>3, <3>3 DEF Durable, WriteEvent, WriteMarker, RemoveMarker, RemoveFile, WriteCursor,
                          WriteTime, WriteCrontab, rvars
      <3> QED BY <3>1, <3>2, <3>3
    <2> QED BY <1>1, <2>1, <2>2, OffsetShifts
  <1>4. CASE SpoolPass \/ LostPass \/ JournalPass \/ JournalReset \/ JournalFirst \/ CoverPass \/ ReadFile
             \/ ReadMarker \/ ReadRecord \/ Recheck \/ Crash \/ Breaks
    <2>1. offset' = offset /\ skipped' = skipped /\ childAt' = childAt
      BY <1>4, BreaksDo DEF SpoolPass, LostPass, JournalPass, JournalReset, JournalFirst, CoverPass, ReadFile, ReadMarker,
                  ReadRecord, Recheck, Crash, rvars
    <2>2. \A i \in DOMAIN todo' : todo'[i][1] \notin OffsetWork
      <3>1. CASE SpoolPass \/ LostPass
        BY <3>1, SpoolPassDoes, LostPassDoes DEF OffsetWork
      <3>2. CASE JournalPass \/ JournalFirst
        BY <3>2, JournalPassDoes, JournalFirstDoes DEF OffsetWork
      <3>3. CASE JournalReset
        BY <3>3, JournalResetDoes DEF OffsetWork, Emit
      <3>8. CASE ReadRecord
        <4>1. PICK p \in 1 .. Records, l \in 1 .. Records, n \in {0, 1} :
              \A i \in DOMAIN todo' :
                    \/ i = 1 /\ n = 1 /\ todo'[i] = Emit(<<"journal", p>>)
                    \/ i > n /\ todo'[i] \in {<<"cursor", p>>, <<"time", p>>}
                    \/ i > n /\ todo'[i] = <<"records", p + 1, l>>
          BY <3>8, ReadRecordDoes
        <4> QED BY <4>1 DEF OffsetWork, Emit
      <3>4. CASE CoverPass \/ Recheck
        BY <3>4, CoverPassDoes, RecheckDoes DEF OffsetWork, Emit
      <3>5. CASE ReadFile
        <4>1. PICK f \in Files, L \in SUBSET Files :
                 /\ DOMAIN todo' = 1 .. 3 + (IF L \ {f} = {} THEN 0 ELSE 1)
                 /\ todo'[1] = Emit(<<IF f[2] = "running" THEN "running" ELSE "finish", f[1]>>)
                 /\ todo'[2] = <<IF f[2] = "running" THEN "mark" ELSE "unmark", f[1]>>
                 /\ todo'[3] = <<"unlink", f>>
                 /\ L \ {f} # {} => todo'[4] = <<"files", L \ {f}>>
          BY <3>5, ReadFileDoes
        <4>2. ASSUME NEW i \in DOMAIN todo' PROVE i = 1 \/ i = 2 \/ i = 3 \/ (i = 4 /\ L \ {f} # {})
          BY <4>1
        <4>3. /\ todo'[1][1] = "emit" /\ todo'[2][1] \in {"mark", "unmark"} /\ todo'[3][1] = "unlink"
              /\ L \ {f} # {} => todo'[4][1] = "files"
          BY <4>1 DEF Emit
        <4> QED BY <4>2, <4>3 DEF OffsetWork
      <3>6. CASE ReadMarker
        BY <3>6, ReadMarkerDoes DEF OffsetWork, Emit
      <3>7. CASE Crash \/ Breaks
        BY <3>7, CrashDoes, BreaksDo DEF OffsetWork, Emit
      <3> QED BY <1>4, <3>1, <3>2, <3>3, <3>4, <3>5, <3>6, <3>7, <3>8
    <2> QED BY <1>1, <2>1, <2>2, OffsetKept
  <1>5. /\ file.inode \in 1 .. 2 /\ file.lines \in 0 .. Lines /\ offset.inode \in 0 .. 2 /\ offset.at \in 0 .. Lines
        /\ skipped.at \in 0 .. Lines /\ Lines \in Nat
    BY OutboxAssumption DEF OutboxTypes, SourceTypes, Offsets
  <1>6. CASE RetryPass
    <2>1. PICK from \in 0 .. file.lines, n \in Nat :
              /\ offset = NoOffset => from = file.lines
              /\ offset # NoOffset => from = 0 \/ (offset.inode = file.inode /\ from = offset.at)
              /\ n = file.lines - from
              /\ DOMAIN todo' = 1 .. n + 1
              /\ \A i \in 1 .. n : todo'[i] = Emit(<<"line", file.inode, from + i - 1>>)
              /\ todo'[n + 1] = <<"offset", file.inode, file.lines>>
      BY <1>6, RetryPassDoes
    <2>2. /\ offset' = offset /\ childAt' = childAt
          /\ skipped' = IF offset = NoOffset THEN [inode |-> file.inode, at |-> file.lines] ELSE skipped
      BY <1>6 DEF RetryPass
    <2>3. ASSUME NEW m \in 1 .. 2, m = file.inode, NEW o \in 0 .. Lines, o < file.lines, Seen(m, o)'
          PROVE  Behind(<<"line", m, o>>, n + 1)'
      <3>1. CASE o < from
        <4>1. offset # NoOffset
          <5> SUFFICES ASSUME offset = NoOffset PROVE FALSE
            OBVIOUS
          <5>1. skipped'.inode = file.inode /\ skipped'.at = file.lines
            BY <2>2
          <5>2. o >= file.lines
            BY <2>3, <5>1 DEF Seen
          <5> QED BY <1>5, <2>3, <5>2
        <4>2. from # 0
          BY <1>5, <3>1
        <4>3. offset.inode = m /\ from = offset.at
          BY <2>1, <2>3, <4>1, <4>2
        <4>4. Seen(m, o)
          BY <2>2, <2>3, <4>1 DEF Seen
        <4>5. Has(<<"line", m, o>>)
          BY <3>1, <4>3, <4>4 DEF OffsetInv
        <4> QED BY <1>1, <4>5 DEF Growing, Behind
      <3>2. CASE ~(o < from)
        <4> DEFINE j == o - from + 1
        <4>1. j \in 1 .. n /\ from + j - 1 = o /\ j < n + 1
          <5>1. /\ file.lines \in Nat /\ from \in Nat /\ n \in Nat /\ n = file.lines - from /\ o \in Nat
                /\ o < file.lines /\ ~(o < from)
            BY <1>5, <2>1, <2>3, <3>2
          <5> QED BY ONLY <5>1
        <4>2. j \in DOMAIN todo' /\ todo'[j] = Emit(<<"line", m, o>>)
          <5>1. todo'[j] = Emit(<<"line", m, from + j - 1>>)
            BY <2>1, <2>3, <4>1
          <5>2. j \in DOMAIN todo'
            BY <2>1, <4>1
          <5> QED BY <4>1, <5>1, <5>2
        <4>3. \E k \in DOMAIN todo' : k < n + 1 /\ todo'[k] = Emit(<<"line", m, o>>)
          BY <4>1, <4>2
        <4> QED BY <4>3 DEF Behind, Emit
      <3> QED BY <3>1, <3>2
    <2>5. ASSUME NEW i \in DOMAIN todo'
          PROVE  todo'[i][1] = "emit" \/ (i = n + 1 /\ todo'[i] = <<"offset", file.inode, file.lines>>)
      <3>1. i \in 1 .. n \/ i = n + 1
        BY <2>1
      <3>2. ASSUME i \in 1 .. n PROVE todo'[i][1] = "emit"
        BY <2>1, <3>2 DEF Emit
      <3> QED BY <2>1, <3>1, <3>2
    <2>6. ASSUME NEW i \in DOMAIN todo', NEW m \in 1 .. 2, NEW o \in 0 .. Lines,
                 todo'[i][1] = "offset", todo'[i][2] = m, o < todo'[i][3], Seen(m, o)'
          PROVE  Behind(<<"line", m, o>>, i)'
      <3>1. i = n + 1 /\ todo'[i][2] = file.inode /\ todo'[i][3] = file.lines
        BY <2>5, <2>6
      <3> QED BY <2>3, <2>6, <3>1
    <2>7. ASSUME NEW m \in 0 .. 2, NEW o \in 0 .. Lines, offset'.inode = m, o < offset'.at, Seen(m, o)'
          PROVE  Has(<<"line", m, o>>)'
      <3>1. offset # NoOffset
        BY <1>5, <2>2, <2>7 DEF NoOffset
      <3>2. Seen(m, o)
        BY <2>2, <2>7, <3>1 DEF Seen
      <3>3. Has(<<"line", m, o>>)
        BY <2>2, <2>7, <3>2 DEF OffsetInv
      <3> QED BY <1>1, <3>3 DEF Growing
    <2>8. /\ \A o \in 0 .. Lines : o < childAt' => Has(<<"result", o>>)'
          /\ \A i \in DOMAIN todo' : todo'[i][1] # "childOffset"
      BY <1>1, <2>2, <2>5 DEF OffsetInv, Growing
    <2> QED BY <2>6, <2>7, <2>8 DEF OffsetInv
  <1>7. CASE ChildPass
    <2>1. \A i \in DOMAIN todo' :
                 \/ todo'[i] = Emit(<<"child">>)
                 \/ \E o \in 0 .. Lines : todo'[i] = Emit(<<"result", o>>)
                 \/ /\ todo'[i] = <<"childOffset", child>>
                    /\ \A o \in 0 .. Lines : o < child => o < childAt
                          \/ \E j \in DOMAIN todo' : j < i /\ todo'[j] = Emit(<<"result", o>>)
      BY <1>7, ChildPassDoes
    <2>2. offset' = offset /\ skipped' = skipped /\ childAt' = childAt
      BY <1>7 DEF ChildPass, rvars
    <2>3. /\ \A n \in 0 .. 2, o \in 0 .. Lines :
                offset'.inode = n /\ o < offset'.at /\ Seen(n, o)' => Has(<<"line", n, o>>)'
          /\ \A o \in 0 .. Lines : o < childAt' => Has(<<"result", o>>)'
      BY <1>1, <2>2 DEF OffsetInv, Growing, Seen
    <2>4. \A i \in DOMAIN todo' : todo'[i][1] # "offset"
      BY <2>1 DEF Emit
    <2>5. ASSUME NEW i \in DOMAIN todo', todo'[i][1] = "childOffset", NEW o \in 0 .. Lines, o < todo'[i][2]
          PROVE  Behind(<<"result", o>>, i)'
      <3>1. todo'[i] # Emit(<<"child">>) /\ \A q : todo'[i] # Emit(<<"result", q>>)
        BY <2>5 DEF Emit
      <3>2. /\ todo'[i][2] = child
            /\ o < childAt \/ \E j \in DOMAIN todo' : j < i /\ todo'[j] = Emit(<<"result", o>>)
        <4>1. /\ todo'[i] = <<"childOffset", child>>
              /\ \A q \in 0 .. Lines : q < child => q < childAt
                    \/ \E j \in DOMAIN todo' : j < i /\ todo'[j] = Emit(<<"result", q>>)
          BY <2>1, <3>1
        <4>2. todo'[i][2] = child
          BY <4>1
        <4> QED BY <2>5, <4>1, <4>2
      <3> QED BY <2>2, <2>3, <3>2 DEF Behind, Emit
    <2> QED BY <2>3, <2>4, <2>5 DEF OffsetInv
  <1> QED BY <1>2, <1>3, <1>4, <1>6, <1>7, StepKinds DEF Fresh

LEMMA UnreadStep ==
    ASSUME OutboxTypes, OffsetInv, UnreadInv, [Next]_vars
    PROVE  UnreadInv'
  <1>1. Growing
    BY EventsGrow
  <1>2. CASE LogRotates
    <2>1. offset' = offset /\ skipped' = skipped /\ unread' = IF offset.inode = 1 THEN offset.at ELSE 0
      BY <1>2 DEF LogRotates
    <2>2. \A o \in 0 .. Lines : o < unread' /\ Seen(1, o)' => Has(<<"line", 1, o>>)
      BY <2>1 DEF OffsetInv, Seen
    <2>3. offset' = NoOffset => unread' = 0
      BY <2>1 DEF NoOffset
    <2> QED BY <1>1, <2>2, <2>3 DEF UnreadInv, Growing
  <1>3. CASE RetryPass
    <2>1. offset' = offset /\ unread' = unread /\ (offset # NoOffset => skipped' = skipped)
      BY <1>3 DEF RetryPass
    <2>2. CASE offset = NoOffset
      BY <2>1, <2>2 DEF UnreadInv
    <2>3. CASE offset # NoOffset
      BY <1>1, <2>1, <2>3 DEF UnreadInv, Growing, Seen
    <2> QED BY <2>2, <2>3
  <1>4. CASE ~LogRotates /\ ~RetryPass
    <2>1. unread' = unread /\ skipped' = skipped /\ (offset' = offset \/ offset' # NoOffset)
      <3>1. CASE WriteOffset
        <4>1. Head(todo)[2] \in 1 .. 2
          BY <3>1, HeadFacts, WriteKinds DEF WriteOffset
        <4> QED BY <3>1, <4>1 DEF WriteOffset, NoOffset
      <3>2. CASE Durable /\ ~WriteOffset
        BY <3>2 DEF Durable, WriteEvent, WriteMarker, RemoveMarker, RemoveFile, WriteCursor, WriteTime,
                    WriteChildOffset, WriteCrontab, rvars
      <3>3. CASE Fresh
        BY <1>4, <3>3, BreaksDo DEF Fresh, SpoolPass, LostPass, JournalPass, JournalReset, JournalFirst, ChildPass,
                  CoverPass, ReadFile, ReadMarker, ReadRecord, Recheck, Crash, rvars
      <3>4. CASE Calm
        BY <1>4, <3>4 DEF Calm, ServiceEmits, Publish, PublishRead, PublishPost, PublishFails, PublishMark, Cron,
             CronStarts, CronFinishes, CronGone, Age, UsageRead, UsageEmit, UsageStore, Environment,
             JournalGrows, JournalVacuumed, LogGrows, ChildReturns, SlotPasses, HumanEdits, vars, rvars
      <3> QED BY <3>1, <3>2, <3>3, <3>4, StepKinds
    <2> QED BY <1>1, <2>1 DEF UnreadInv, Growing, Seen
  <1> QED BY <1>2, <1>3, <1>4
--------------------------------------------------------------------------------
(* The spool, the markers and what is to do with them.                            *)

(* What the wrappers and the tasks beside the collector may change.               *)
LEMMA CalmFacts ==
    ASSUME OutboxTypes, Calm
    PROVE  /\ todo' = todo /\ job' = job /\ mix' = mix /\ markers' = markers /\ torn' = torn
           /\ \A r \in Crons : Has(<<"finish", r>>)' => Has(<<"finish", r>>)
           /\ \A f \in spool : f \in spool'
           /\ \A r \in Crons :
                 /\ <<r, "running">> \in spool' => <<r, "running">> \in spool \/ (cron[r] = "idle" /\ cron'[r] = "running")
                 /\ <<r, "finish">> \in spool' => <<r, "finish">> \in spool \/ (cron[r] = "running" /\ cron'[r] = "finished")
                 /\ \/ cron'[r] = cron[r]
                    \/ cron[r] = "idle" /\ cron'[r] = "running" /\ <<r, "running">> \in spool'
                    \/ cron[r] = "running" /\ cron'[r] = "finished" /\ <<r, "finish">> \in spool'
                    \/ cron[r] = "running" /\ cron'[r] = "killed"
                    \/ cron[r] = "finished" /\ cron'[r] = "exited"
           /\ "cron" \notin mix /\ (\A r \in Crons : cron[r] = "idle") =>
                 spool' = spool /\ \A r \in Crons : cron'[r] = "idle"
  <1>1. mix' = mix /\ todo' = todo /\ job' = job
    BY CalmIsQuiet DEF Quiet
  <1>2. CASE ServiceEmits \/ UsageEmit
    <2>1. PICK key \in Keys : events' = Inserted(key) /\ key[1] \in {"service", "usage"}
      <3>1. CASE ServiceEmits
        <4>1. PICK n \in 1 .. Emits : events' = Inserted(<<"service", n>>)
          BY <3>1 DEF ServiceEmits
        <4> QED BY <4>1, KeyFacts
      <3>2. CASE UsageEmit
        <4>1. usage \in 1 .. Slots /\ events' = Inserted(<<"usage", usage>>)
          BY <3>2, OutboxAssumption DEF UsageEmit, OutboxTypes, SourceTypes
        <4>2. <<"usage", usage>> \in Keys
          BY <4>1, KeyFacts
        <4> QED BY <4>1, <4>2
      <3> QED BY <1>2, <3>1, <3>2
    <2>2. \A r \in Crons : <<"finish", r>> # key
      BY <2>1
    <2>3. \A r \in Crons : Has(<<"finish", r>>)' => Has(<<"finish", r>>)
      BY <2>1, <2>2, InsertedFacts DEF OutboxTypes, TableTypes
    <2>4. cron' = cron /\ spool' = spool /\ markers' = markers /\ torn' = torn
      BY <1>2 DEF ServiceEmits, UsageEmit, crons
    <2> QED BY <1>1, <2>3, <2>4
  <1>3. CASE Publish \/ UsageRead \/ UsageStore \/ Environment \/ UNCHANGED vars
    <2>1. events' = events /\ cron' = cron /\ spool' = spool /\ markers' = markers /\ torn' = torn
      BY <1>3 DEF Publish, PublishRead, PublishPost, PublishFails, PublishMark, UsageRead, UsageStore,
             Environment, JournalGrows, JournalVacuumed, LogGrows, LogRotates, ChildReturns, SlotPasses,
             HumanEdits, vars, crons, table
    <2> QED BY <1>1, <2>1 DEF Has
  <1>4. CASE Cron
    <2>1. PICK q \in Crons : CronStarts(q) \/ CronFinishes(q) \/ CronGone(q) \/ Age(q)
      BY <1>4 DEF Cron
    <2>2. events' = events /\ markers' = markers /\ torn' = torn
      BY <2>1 DEF CronStarts, CronFinishes, CronGone, Age, table
    <2>3. \A r \in Crons : Has(<<"finish", r>>)' => Has(<<"finish", r>>)
      BY <2>2 DEF Has
    <2>4. cron \in [Crons -> {"idle", "running", "finished", "killed", "exited"}]
      BY DEF OutboxTypes, SourceTypes
    <2>5. CASE CronStarts(q)
      BY <1>1, <2>2, <2>3, <2>4, <2>5 DEF CronStarts
    <2>6. CASE CronFinishes(q)
      BY <1>1, <2>2, <2>3, <2>4, <2>6 DEF CronFinishes
    <2>7. CASE CronGone(q)
      <3>1. spool' = spool /\ cron[q] \in {"running", "finished"}
            /\ cron' = [cron EXCEPT ![q] = IF cron[q] = "running" THEN "killed" ELSE "exited"]
        BY <2>7 DEF CronGone
      <3>2. \A r \in Crons : \/ cron'[r] = cron[r]
                             \/ cron[r] = "running" /\ cron'[r] = "killed"
                             \/ cron[r] = "finished" /\ cron'[r] = "exited"
        BY <2>4, <3>1
      <3> QED BY <1>1, <2>2, <2>3, <3>1, <3>2
    <2>8. CASE Age(q)
      BY <1>1, <2>2, <2>3, <2>8 DEF Age
    <2> QED BY <2>1, <2>5, <2>6, <2>7, <2>8
  <1> QED BY <1>2, <1>3, <1>4 DEF Calm

LEMMA SpoolCalm ==
    ASSUME OutboxTypes, SpoolInv, Growing, Calm
    PROVE  SpoolInv'
  <1>1. /\ todo' = todo /\ job' = job /\ mix' = mix /\ markers' = markers /\ torn' = torn
        /\ \A r \in Crons : Has(<<"finish", r>>)' => Has(<<"finish", r>>)
        /\ \A f \in spool : f \in spool'
        /\ \A r \in Crons :
              /\ <<r, "running">> \in spool' => <<r, "running">> \in spool \/ (cron[r] = "idle" /\ cron'[r] = "running")
              /\ <<r, "finish">> \in spool' => <<r, "finish">> \in spool \/ (cron[r] = "running" /\ cron'[r] = "finished")
              /\ \/ cron'[r] = cron[r]
                 \/ cron[r] = "idle" /\ cron'[r] = "running" /\ <<r, "running">> \in spool'
                 \/ cron[r] = "running" /\ cron'[r] = "finished" /\ <<r, "finish">> \in spool'
                 \/ cron[r] = "running" /\ cron'[r] = "killed"
                 \/ cron[r] = "finished" /\ cron'[r] = "exited"
    BY CalmFacts
  <1>2. Phase'
    BY <1>1 DEF SpoolInv, Phase, SpoolWork, Emit
  <1>3. Idle'
    BY <1>1, CalmFacts DEF SpoolInv, Idle
  <1>4. Spooled'
    BY <1>1 DEF SpoolInv, Spooled, Growing
  <1>5. FilesInHand'
    <2>1. ASSUME NEW r \in Crons, <<r, "finish">> \in spool
          PROVE  <<r, "running">> \in spool' => <<r, "running">> \in spool
      BY <1>1, <2>1 DEF SpoolInv, Spooled
    <2>2. ASSUME NEW i \in DOMAIN todo', todo'[i][1] = "files"
          PROVE  /\ todo'[i][2] \subseteq spool'
                 /\ \A j \in DOMAIN todo' : j <= i
                 /\ \A j \in DOMAIN todo' : todo'[j][1] = "unlink" => todo'[j][2] \notin todo'[i][2]
                 /\ \A r \in Crons : <<r, "finish">> \in todo'[i][2] /\ <<r, "running">> \in spool' =>
                       \/ <<r, "running">> \in todo'[i][2]
                       \/ \E j \in DOMAIN todo' : todo'[j] = <<"unlink", <<r, "running">>>>
      <3>1. /\ todo[i][2] \subseteq spool
            /\ \A j \in DOMAIN todo : j <= i
            /\ \A j \in DOMAIN todo : todo[j][1] = "unlink" => todo[j][2] \notin todo[i][2]
            /\ \A r \in Crons : <<r, "finish">> \in todo[i][2] /\ <<r, "running">> \in spool =>
                       \/ <<r, "running">> \in todo[i][2]
                       \/ \E j \in DOMAIN todo : todo[j] = <<"unlink", <<r, "running">>>>
        BY <1>1, <2>2 DEF SpoolInv, FilesInHand
      <3>2. todo'[i][2] \subseteq spool'
        BY <1>1, <3>1
      <3> QED BY <1>1, <2>1, <3>1, <3>2
    <2>3. ASSUME NEW i \in DOMAIN todo', NEW r \in Crons
          PROVE  /\ todo'[i] = <<"unlink", <<r, "running">>>> => Behind(<<"running", r>>, i)'
                 /\ todo'[i] = <<"unlink", <<r, "finish">>>> =>
                       /\ Behind(<<"finish", r>>, i)'
                       /\ r \notin markers' \/ \E k \in DOMAIN todo' : k < i /\ todo'[k] = <<"unmark", r>>
                 /\ todo'[i] = <<"mark", r>> =>
                       /\ <<r, "running">> \in spool'
                       /\ \A j \in DOMAIN todo' : todo'[j] = <<"unlink", <<r, "running">>>> => i < j
                 /\ todo'[i] = Emit(<<"finish", r>>) =>
                       /\ i = 1
                       /\ <<r, "finish">> \in spool' /\ <<r, "running">> \notin spool'
                       /\ \E k \in DOMAIN todo' : i < k /\ todo'[k] = <<"unmark", r>>
      <3>1. Quiet
        BY <1>1 DEF Quiet
      <3>2. \A key : Behind(key, i) => Behind(key, i)'
        BY <3>1, BehindStays
      <3>3. /\ todo[i] = <<"unlink", <<r, "running">>>> => Behind(<<"running", r>>, i)
            /\ todo[i] = <<"unlink", <<r, "finish">>>> =>
                       /\ Behind(<<"finish", r>>, i)
                       /\ r \notin markers \/ \E k \in DOMAIN todo : k < i /\ todo[k] = <<"unmark", r>>
            /\ todo[i] = <<"mark", r>> =>
                       /\ <<r, "running">> \in spool
                       /\ \A j \in DOMAIN todo : todo[j] = <<"unlink", <<r, "running">>>> => i < j
            /\ todo[i] = Emit(<<"finish", r>>) =>
                       /\ i = 1
                       /\ <<r, "finish">> \in spool /\ <<r, "running">> \notin spool
                       /\ \E k \in DOMAIN todo : i < k /\ todo[k] = <<"unmark", r>>
        BY <1>1 DEF SpoolInv, FilesInHand
      <3> QED BY <1>1, <2>1, <3>2, <3>3
    <2>4. \A r \in Crons : Emit(<<"finish", r>>)' = Emit(<<"finish", r>>)
      BY DEF Emit
    <2> QED BY <2>2, <2>3, <2>4 DEF FilesInHand
  <1>6. MarkersInHand'
    BY <1>1 DEF SpoolInv, MarkersInHand, Listed, Emit
  <1>7. TornInHand'
    BY <1>1, ZenonT(40) DEF SpoolInv, TornInHand, Listed
  <1> QED BY <1>2, <1>3, <1>4, <1>5, <1>6, <1>7 DEF SpoolInv

(* What a durable write may change.                                              *)
LEMMA DurableFacts ==
    ASSUME OutboxTypes, Durable
    PROVE  /\ cron' = cron /\ mix' = mix
           /\ todo[1][1] \notin {"files", "markers"}
           /\ spool' \subseteq spool
           /\ \A f \in spool : f \notin spool' => todo[1] = <<"unlink", f>>
           /\ \A f : todo[1] = <<"unlink", f>> => f \notin spool'
           /\ \A r \in markers' : r \notin markers => todo[1] = <<"mark", r>>
           /\ \A r : todo[1] = <<"unmark", r>> => r \notin markers'
           /\ \A r \in torn' \cap markers' : r \in torn \cap markers /\ todo[1] # <<"mark", r>>
           /\ \A r \in Crons : Has(<<"finish", r>>)' => Has(<<"finish", r>>) \/ todo[1] = Emit(<<"finish", r>>)
  <1>1. CASE WriteEvent
    <2>1. todo[1] = Head(todo) /\ todo[1] \in Writes /\ todo[1][1] = "emit"
      BY <1>1, HeadFacts DEF WriteEvent
    <2>2. todo[1][2] \in Keys /\ todo[1] = Emit(todo[1][2])
      BY <2>1, WriteKinds
    <2>3. PICK key \in Keys : todo[1] = Emit(key) /\ events' = Inserted(key)
      BY <1>1, <2>1, <2>2 DEF WriteEvent
    <2>4. \A r \in Crons : Has(<<"finish", r>>)' => Has(<<"finish", r>>) \/ todo[1] = Emit(<<"finish", r>>)
      <3>1. \A k : k # key /\ Has(k)' => Has(k)
        BY <2>3, InsertedFacts DEF OutboxTypes, TableTypes
      <3> QED BY <2>3, <3>1
    <2>5. cron' = cron /\ mix' = mix /\ spool' = spool /\ markers' = markers /\ torn' = torn
      BY <1>1 DEF WriteEvent, crons
    <2> QED BY <2>1, <2>4, <2>5
  <1>2. CASE ~WriteEvent
    <2>1. events' = events /\ cron' = cron /\ mix' = mix
      BY <1>2 DEF Durable, WriteMarker, RemoveMarker, RemoveFile, WriteCursor, WriteTime,
                  WriteOffset, WriteChildOffset, WriteCrontab, table, crons
    <2>2. \A r \in Crons : Has(<<"finish", r>>)' => Has(<<"finish", r>>)
      BY <2>1 DEF Has
    <2>3. CASE WriteMarker
      <3>1. todo[1] = Head(todo) /\ todo[1] \in Writes /\ todo[1][1] = "mark"
        BY <2>3, HeadFacts DEF WriteMarker
      <3>2. todo[1] = <<"mark", todo[1][2]>>
        BY <3>1, WriteKinds
      <3>3. /\ markers' = markers \cup {todo[1][2]} /\ torn' = torn \ {todo[1][2]} /\ spool' = spool
        BY <2>3, <3>1 DEF WriteMarker
      <3> QED BY <2>1, <2>2, <3>1, <3>2, <3>3
    <2>4. CASE RemoveMarker
      <3>1. todo[1] = Head(todo) /\ todo[1] \in Writes /\ todo[1][1] = "unmark"
        BY <2>4, HeadFacts DEF RemoveMarker
      <3>3. /\ markers' = markers \ {todo[1][2]} /\ torn' = torn /\ spool' = spool
        BY <2>4, <3>1 DEF RemoveMarker
      <3> QED BY <2>1, <2>2, <3>1, <3>3
    <2>5. CASE RemoveFile
      <3>1. todo[1] = Head(todo) /\ todo[1] \in Writes /\ todo[1][1] = "unlink"
        BY <2>5, HeadFacts DEF RemoveFile
      <3>2. todo[1] = <<"unlink", todo[1][2]>>
        BY <3>1, WriteKinds
      <3>3. spool' = spool \ {todo[1][2]} /\ torn' = torn /\ markers' = markers
        BY <2>5, <3>1 DEF RemoveFile
      <3> QED BY <2>1, <2>2, <3>1, <3>2, <3>3
    <2>6. CASE WriteCursor \/ WriteTime \/ WriteOffset \/ WriteChildOffset \/ WriteCrontab
      <3>1. todo[1][1] \in {"cursor", "time", "offset", "childOffset", "replace"}
        BY <2>6, HeadFacts DEF WriteCursor, WriteTime, WriteOffset, WriteChildOffset, WriteCrontab
      <3>2. spool' = spool /\ markers' = markers /\ torn' = torn
        BY <2>6 DEF WriteCursor, WriteTime, WriteOffset, WriteChildOffset, WriteCrontab, crons
      <3> QED BY <2>1, <2>2, <3>1, <3>2
    <2> QED BY <1>2, <2>3, <2>4, <2>5, <2>6 DEF Durable
  <1> QED BY <1>1, <1>2

LEMMA SpoolDurable ==
    ASSUME OutboxTypes, SpoolInv, Growing, Durable
    PROVE  SpoolInv'
  <1>0. Shift /\ job' = job /\ todo \in Seq(Writes) /\ todo # <<>> /\ todo' = Tail(todo)
    BY DurableShifts DEF Shift, OutboxTypes, TableTypes
  <1>1. /\ cron' = cron /\ mix' = mix
        /\ todo[1][1] \notin {"files", "markers"}
        /\ spool' \subseteq spool
        /\ \A f \in spool : f \notin spool' => todo[1] = <<"unlink", f>>
        /\ \A f : todo[1] = <<"unlink", f>> => f \notin spool'
        /\ \A r \in markers' : r \notin markers => todo[1] = <<"mark", r>>
        /\ \A r : todo[1] = <<"unmark", r>> => r \notin markers'
        /\ \A r \in torn' \cap markers' : r \in torn \cap markers /\ todo[1] # <<"mark", r>>
        /\ \A r \in Crons : Has(<<"finish", r>>)' => Has(<<"finish", r>>) \/ todo[1] = Emit(<<"finish", r>>)
    BY DurableFacts
  <1>2. /\ 1 \in DOMAIN todo
        /\ \A i \in DOMAIN todo' : i \in Nat /\ i + 1 \in DOMAIN todo /\ todo'[i] = todo[i + 1]
        /\ \A i \in DOMAIN todo : i \in Nat /\ i >= 1 /\ (i # 1 => i - 1 \in DOMAIN todo' /\ todo'[i - 1] = todo[i])
    BY <1>0, TailFacts
  <1>3. \A i \in DOMAIN todo' : i \in Nat /\ i >= 1 /\ i + 1 # 1
    <2>1. todo' \in Seq(Writes)
      BY DurableShifts
    <2>2. DOMAIN todo' = 1 .. Len(todo')
      BY <2>1
    <2> QED BY <2>1, <2>2
  <1>4. \A key : Behind(key, 1) => Has(key)
    BY <1>2 DEF Behind
  (* A write that is not the first one moves up. *)
  <1>5. ASSUME NEW w, NEW k \in DOMAIN todo, todo[k] = w, todo[1] # w
        PROVE  k \in Nat /\ k - 1 \in DOMAIN todo' /\ todo'[k - 1] = w
    BY <1>2, <1>5
  <1>6. \A i \in DOMAIN todo' : \A key : Behind(key, i + 1) => Behind(key, i)'
    <2> SUFFICES ASSUME NEW i \in DOMAIN todo', NEW key, Behind(key, i + 1) PROVE Behind(key, i)'
      OBVIOUS
    <2>1. i \in Nat /\ i + 1 \in Nat /\ i + 1 <= i + 1
      BY <1>3
    <2> QED BY <1>0, <2>1, BehindMoves
  <1>7. Phase'
    BY <1>0, <1>2 DEF SpoolInv, Phase, SpoolWork, Emit
  <1>8. Idle'
    BY <1>0, <1>1 DEF SpoolInv, Idle
  <1>9. Spooled'
    <2> SUFFICES ASSUME NEW r \in Crons
                 PROVE  /\ <<r, "running">> \in spool' => cron[r] # "idle"
                        /\ <<r, "finish">> \in spool' => cron[r] \in {"finished", "exited"}
                        /\ cron[r] # "idle" /\ <<r, "running">> \notin spool' => Has(<<"running", r>>)'
                        /\ cron[r] \in {"finished", "exited"} /\ <<r, "finish">> \notin spool' => Has(<<"finish", r>>)'
                        /\ Has(<<"finish", r>>)' => <<r, "running">> \notin spool' /\ cron[r] \in {"finished", "exited"}
      BY <1>1 DEF Spooled
    <2>1. /\ <<r, "running">> \in spool => cron[r] # "idle"
          /\ <<r, "finish">> \in spool => cron[r] \in {"finished", "exited"}
          /\ cron[r] # "idle" /\ <<r, "running">> \notin spool => Has(<<"running", r>>)
          /\ cron[r] \in {"finished", "exited"} /\ <<r, "finish">> \notin spool => Has(<<"finish", r>>)
          /\ Has(<<"finish", r>>) => <<r, "running">> \notin spool /\ cron[r] \in {"finished", "exited"}
      BY DEF SpoolInv, Spooled
    <2>2. /\ todo[1] = <<"unlink", <<r, "running">>>> => Has(<<"running", r>>)
          /\ todo[1] = <<"unlink", <<r, "finish">>>> => Has(<<"finish", r>>)
          /\ todo[1] = Emit(<<"finish", r>>) => <<r, "finish">> \in spool /\ <<r, "running">> \notin spool
      BY <1>2, <1>4 DEF SpoolInv, FilesInHand
    <2>3. /\ <<r, "running">> \in spool /\ <<r, "running">> \notin spool' => Has(<<"running", r>>)
          /\ <<r, "finish">> \in spool /\ <<r, "finish">> \notin spool' => Has(<<"finish", r>>)
      BY <1>1, <2>2
    <2> QED BY <1>1, <2>1, <2>2, <2>3 DEF Growing
  <1>10. FilesInHand'
    <2>1. ASSUME NEW i \in DOMAIN todo', todo'[i][1] = "files"
          PROVE  /\ todo'[i][2] \subseteq spool'
                 /\ \A j \in DOMAIN todo' : j <= i
                 /\ \A j \in DOMAIN todo' : todo'[j][1] = "unlink" => todo'[j][2] \notin todo'[i][2]
                 /\ \A r \in Crons : <<r, "finish">> \in todo'[i][2] /\ <<r, "running">> \in spool' =>
                       \/ <<r, "running">> \in todo'[i][2]
                       \/ \E j \in DOMAIN todo' : todo'[j] = <<"unlink", <<r, "running">>>>
      <3>1. /\ todo[i + 1][2] \subseteq spool
            /\ \A j \in DOMAIN todo : j <= i + 1
            /\ \A j \in DOMAIN todo : todo[j][1] = "unlink" => todo[j][2] \notin todo[i + 1][2]
            /\ \A r \in Crons : <<r, "finish">> \in todo[i + 1][2] /\ <<r, "running">> \in spool =>
                       \/ <<r, "running">> \in todo[i + 1][2]
                       \/ \E j \in DOMAIN todo : todo[j] = <<"unlink", <<r, "running">>>>
        BY <1>2, <2>1 DEF SpoolInv, FilesInHand
      <3>2. todo'[i] = todo[i + 1]
        BY <1>2
      <3>3. todo'[i][2] \subseteq spool'
        <4> SUFFICES ASSUME NEW f \in todo[i + 1][2], f \notin spool' PROVE FALSE
          BY <3>2
        <4>1. todo[1] = <<"unlink", f>>
          BY <1>1, <3>1
        <4>2. todo[1][1] = "unlink" /\ todo[1][2] = f
          BY <4>1
        <4> QED BY <1>2, <3>1, <4>2
      <3>4. \A j \in DOMAIN todo' : j <= i
        <4> SUFFICES ASSUME NEW j \in DOMAIN todo' PROVE j <= i
          OBVIOUS
        <4>1. j + 1 <= i + 1 /\ j \in Nat /\ i \in Nat
          BY <1>2, <3>1
        <4> QED BY <4>1
      <3>5. \A j \in DOMAIN todo' : todo'[j][1] = "unlink" => todo'[j][2] \notin todo'[i][2]
        BY <1>2, <3>1
      <3>6. ASSUME NEW r \in Crons, <<r, "finish">> \in todo'[i][2], <<r, "running">> \in spool',
                   <<r, "running">> \notin todo'[i][2]
            PROVE  \E j \in DOMAIN todo' : todo'[j] = <<"unlink", <<r, "running">>>>
        <4>1. PICK j \in DOMAIN todo : todo[j] = <<"unlink", <<r, "running">>>>
          BY <1>1, <3>1, <3>2, <3>6
        <4>2. todo[1] # <<"unlink", <<r, "running">>>>
          BY <1>1, <3>6
        <4> QED BY <1>5, <4>1, <4>2
      <3> QED BY <3>3, <3>4, <3>5, <3>6
    <2>2. ASSUME NEW i \in DOMAIN todo', NEW r \in Crons
          PROVE  /\ todo'[i] = <<"unlink", <<r, "running">>>> => Behind(<<"running", r>>, i)'
                 /\ todo'[i] = <<"unlink", <<r, "finish">>>> =>
                       /\ Behind(<<"finish", r>>, i)'
                       /\ r \notin markers' \/ \E k \in DOMAIN todo' : k < i /\ todo'[k] = <<"unmark", r>>
                 /\ todo'[i] = <<"mark", r>> =>
                       /\ <<r, "running">> \in spool'
                       /\ \A j \in DOMAIN todo' : todo'[j] = <<"unlink", <<r, "running">>>> => i < j
                 /\ todo'[i] # Emit(<<"finish", r>>)
      <3>1. /\ todo[i + 1] = <<"unlink", <<r, "running">>>> => Behind(<<"running", r>>, i + 1)
            /\ todo[i + 1] = <<"unlink", <<r, "finish">>>> =>
                       /\ Behind(<<"finish", r>>, i + 1)
                       /\ r \notin markers \/ \E k \in DOMAIN todo : k < i + 1 /\ todo[k] = <<"unmark", r>>
            /\ todo[i + 1] = <<"mark", r>> =>
                       /\ <<r, "running">> \in spool
                       /\ \A j \in DOMAIN todo : todo[j] = <<"unlink", <<r, "running">>>> => i + 1 < j
            /\ todo[i + 1] = Emit(<<"finish", r>>) => i + 1 = 1
        BY <1>2 DEF SpoolInv, FilesInHand
      <3>2. i \in Nat /\ i >= 1 /\ i + 1 # 1 /\ todo'[i] = todo[i + 1] /\ i + 1 \in DOMAIN todo
        BY <1>2, <1>3
      <3>3. ASSUME todo'[i] = <<"unlink", <<r, "finish">>>>, r \in markers'
            PROVE  \E k \in DOMAIN todo' : k < i /\ todo'[k] = <<"unmark", r>>
        <4>1. Behind(<<"finish", r>>, i + 1)
          BY <3>1, <3>2, <3>3
        <4>2. todo[1] # <<"mark", r>>
          <5> SUFFICES ASSUME todo[1] = <<"mark", r>> PROVE FALSE
            OBVIOUS
          <5>1. <<r, "running">> \in spool
            BY <1>2 DEF SpoolInv, FilesInHand
          <5>2. ~Has(<<"finish", r>>)
            BY <5>1 DEF SpoolInv, Spooled
          <5>3. PICK j \in DOMAIN todo : todo[j] = Emit(<<"finish", r>>)
            BY <4>1, <5>2 DEF Behind
          <5>4. j = 1
            BY <5>3 DEF SpoolInv, FilesInHand
          <5> QED BY <5>3, <5>4 DEF Emit
        <4>3. r \in markers
          BY <1>1, <3>3, <4>2
        <4>4. PICK k \in DOMAIN todo : k < i + 1 /\ todo[k] = <<"unmark", r>>
          BY <3>1, <3>2, <3>3, <4>3
        <4>5. todo[1] # <<"unmark", r>>
          BY <1>1, <3>3
        <4>6. k - 1 \in DOMAIN todo' /\ todo'[k - 1] = <<"unmark", r>> /\ k \in Nat
          BY <1>5, <4>4, <4>5
        <4>7. k - 1 < i
          BY <3>2, <4>4, <4>6
        <4> QED BY <4>6, <4>7
      <3>4. ASSUME todo'[i] = <<"mark", r>>
            PROVE  /\ <<r, "running">> \in spool'
                   /\ \A j \in DOMAIN todo' : todo'[j] = <<"unlink", <<r, "running">>>> => i < j
        <4>1. /\ <<r, "running">> \in spool
              /\ \A j \in DOMAIN todo : todo[j] = <<"unlink", <<r, "running">>>> => i + 1 < j
          BY <3>1, <3>2, <3>4
        <4>2. todo[1] # <<"unlink", <<r, "running">>>>
          BY <1>2, <3>2, <4>1
        <4>3. ASSUME NEW j \in DOMAIN todo', todo'[j] = <<"unlink", <<r, "running">>>> PROVE i < j
          <5>1. i + 1 < j + 1 /\ j \in Nat
            BY <1>2, <4>1, <4>3
          <5> QED BY <3>2, <5>1
        <4> QED BY <1>1, <4>1, <4>2, <4>3
      <3>5. todo'[i] = <<"unlink", <<r, "running">>>> => Behind(<<"running", r>>, i)'
        BY <1>6, <3>1, <3>2
      <3>6. todo'[i] = <<"unlink", <<r, "finish">>>> => Behind(<<"finish", r>>, i)'
        BY <1>6, <3>1, <3>2
      <3>7. todo'[i] # Emit(<<"finish", r>>)
        BY <3>1, <3>2
      <3> QED BY <3>3, <3>4, <3>5, <3>6, <3>7
    <2>3. \A r \in Crons : Emit(<<"finish", r>>)' = Emit(<<"finish", r>>)
      BY DEF Emit
    <2> QED BY <2>1, <2>2, <2>3 DEF FilesInHand
  <1>11. MarkersInHand'
    <2>1. ASSUME NEW r \in Crons, Has(<<"finish", r>>)', r \in markers'
          PROVE  /\ <<r, "finish">> \in spool'
                 /\ job' = "lost" => \/ \E k \in DOMAIN todo' : todo'[k] = <<"unmark", r>>
                                     \/ \E i \in DOMAIN todo' : Listed(<<r, "finish">>, i)'
      <3>1. todo[1] # <<"mark", r>>
        <4> SUFFICES ASSUME todo[1] = <<"mark", r>> PROVE FALSE
          OBVIOUS
        <4>1. <<r, "running">> \in spool
          BY <1>2 DEF SpoolInv, FilesInHand
        <4>2. ~Has(<<"finish", r>>)
          BY <4>1 DEF SpoolInv, Spooled
        <4> QED BY <1>1, <2>1, <4>2 DEF Emit
      <3>2. r \in markers /\ todo[1] # <<"unmark", r>>
        BY <1>1, <2>1, <3>1
      <3>3. CASE Has(<<"finish", r>>)
        <4>1. /\ <<r, "finish">> \in spool
              /\ job = "lost" => \/ \E k \in DOMAIN todo : todo[k] = <<"unmark", r>>
                                 \/ \E i \in DOMAIN todo : Listed(<<r, "finish">>, i)
          BY <3>2, <3>3 DEF SpoolInv, MarkersInHand
        <4>2. todo[1] # <<"unlink", <<r, "finish">>>>
          <5> SUFFICES ASSUME todo[1] = <<"unlink", <<r, "finish">>>> PROVE FALSE
            OBVIOUS
          <5>1. PICK k \in DOMAIN todo : k < 1
            BY <1>2, <3>2 DEF SpoolInv, FilesInHand
          <5> QED BY <1>2, <5>1
        <4>3. <<r, "finish">> \in spool'
          BY <1>1, <4>1, <4>2
        <4>4. ASSUME NEW k \in DOMAIN todo, todo[k] = <<"unmark", r>>
              PROVE  \E m \in DOMAIN todo' : todo'[m] = <<"unmark", r>>
          BY <1>5, <3>2, <4>4
        <4>5. ASSUME NEW k \in DOMAIN todo, Listed(<<r, "finish">>, k)
              PROVE  \E m \in DOMAIN todo' : Listed(<<r, "finish">>, m)'
          <5>1. k # 1
            BY <1>1, <4>5 DEF Listed
          <5>2. k - 1 \in DOMAIN todo' /\ todo'[k - 1] = todo[k]
            BY <1>2, <5>1
          <5> QED BY <4>5, <5>2 DEF Listed
        <4> QED BY <1>0, <4>1, <4>3, <4>4, <4>5
      <3>4. CASE todo[1] = Emit(<<"finish", r>>)
        <4>1. /\ <<r, "finish">> \in spool
              /\ \E k \in DOMAIN todo : 1 < k /\ todo[k] = <<"unmark", r>>
          BY <1>2, <3>4 DEF SpoolInv, FilesInHand
        <4>2. todo[1] # <<"unlink", <<r, "finish">>>>
          BY <3>4 DEF Emit
        <4>3. <<r, "finish">> \in spool'
          BY <1>1, <4>1, <4>2
        <4>4. \E m \in DOMAIN todo' : todo'[m] = <<"unmark", r>>
          BY <1>5, <3>2, <4>1
        <4> QED BY <4>3, <4>4
      <3> QED BY <1>1, <2>1, <3>3, <3>4
    <2>2. ASSUME NEW r \in Crons, NEW i \in DOMAIN todo',
                 \/ todo'[i] = Emit(<<"lost", r>>)
                 \/ todo'[i][1] = "markers" /\ r \in todo'[i][2]
          PROVE  ~Has(<<"finish", r>>)'
      <3>1. /\ i + 1 \in DOMAIN todo
            /\ todo[i + 1] = Emit(<<"lost", r>>) \/ (todo[i + 1][1] = "markers" /\ r \in todo[i + 1][2])
        BY <1>2, <2>2
      <3>2. ~Has(<<"finish", r>>)
        BY <3>1 DEF SpoolInv, MarkersInHand
      <3>3. todo[1] # Emit(<<"finish", r>>)
        <4> SUFFICES ASSUME todo[1] = Emit(<<"finish", r>>) PROVE FALSE
          OBVIOUS
        <4>1. job = "lost"
          BY <1>2 DEF SpoolInv, Phase, SpoolWork
        <4>2. SpoolWork(todo[i + 1]) \/ todo[i + 1][1] = "unmark"
          BY <3>1, <4>1 DEF SpoolInv, Phase
        <4> QED BY <3>1, <4>2 DEF SpoolWork, Emit
      <3> QED BY <1>1, <3>2, <3>3
    <2>3. \A r \in Crons : Emit(<<"lost", r>>)' = Emit(<<"lost", r>>)
      BY DEF Emit
    <2> QED BY <2>1, <2>2, <2>3 DEF MarkersInHand
  <1>12. TornInHand'
    <2> SUFFICES ASSUME NEW r \in torn' \cap markers'
                 PROVE  /\ <<r, "running">> \in spool'
                        /\ \A j \in DOMAIN todo' : todo'[j] = <<"unlink", <<r, "running">>>> =>
                              \E i \in DOMAIN todo' : i < j /\ todo'[i] = <<"mark", r>>
                        /\ job' = "lost" => \/ \E i \in DOMAIN todo' : todo'[i] = <<"mark", r>>
                                            \/ \E i \in DOMAIN todo' : Listed(<<r, "running">>, i)'
      BY DEF TornInHand
    <2>1. r \in torn \cap markers /\ todo[1] # <<"mark", r>>
      BY <1>1
    <2>2. /\ <<r, "running">> \in spool
          /\ \A j \in DOMAIN todo : todo[j] = <<"unlink", <<r, "running">>>> =>
                              \E i \in DOMAIN todo : i < j /\ todo[i] = <<"mark", r>>
          /\ job = "lost" => \/ \E i \in DOMAIN todo : todo[i] = <<"mark", r>>
                             \/ \E i \in DOMAIN todo : Listed(<<r, "running">>, i)
      BY <2>1 DEF SpoolInv, TornInHand
    <2>3. todo[1] # <<"unlink", <<r, "running">>>>
      <3> SUFFICES ASSUME todo[1] = <<"unlink", <<r, "running">>>> PROVE FALSE
        OBVIOUS
      <3>1. PICK k \in DOMAIN todo : k < 1
        BY <1>2, <2>2
      <3> QED BY <1>2, <3>1
    <2>4. ASSUME NEW j \in DOMAIN todo', todo'[j] = <<"unlink", <<r, "running">>>>
          PROVE  \E i \in DOMAIN todo' : i < j /\ todo'[i] = <<"mark", r>>
      <3>1. j + 1 \in DOMAIN todo /\ todo[j + 1] = <<"unlink", <<r, "running">>>> /\ j \in Nat
        BY <1>2, <2>4
      <3>2. PICK k \in DOMAIN todo : k < j + 1 /\ todo[k] = <<"mark", r>>
        BY <2>2, <3>1
      <3>3. k - 1 \in DOMAIN todo' /\ todo'[k - 1] = <<"mark", r>> /\ k \in Nat
        BY <1>5, <2>1, <3>2
      <3>4. k - 1 < j
        BY <3>1, <3>2, <3>3
      <3> QED BY <3>3, <3>4
    <2>5. ASSUME NEW k \in DOMAIN todo, todo[k] = <<"mark", r>>
          PROVE  \E m \in DOMAIN todo' : todo'[m] = <<"mark", r>>
      BY <1>5, <2>1, <2>5
    <2>6. ASSUME NEW k \in DOMAIN todo, Listed(<<r, "running">>, k)
          PROVE  \E m \in DOMAIN todo' : Listed(<<r, "running">>, m)'
      <3>1. k # 1
        BY <1>1, <2>6 DEF Listed
      <3>2. k - 1 \in DOMAIN todo' /\ todo'[k - 1] = todo[k]
        BY <1>2, <3>1
      <3> QED BY <2>6, <3>2 DEF Listed
    <2>7. <<r, "running">> \in spool'
      BY <1>1, <2>2, <2>3
    <2> QED BY <1>0, <2>2, <2>4, <2>5, <2>6, <2>7
  <1> QED BY <1>7, <1>8, <1>9, <1>10, <1>11, <1>12 DEF SpoolInv

(* A pass that has nothing to do with the spool.                                 *)
Foreign(w) == /\ w[1] \notin {"mark", "unmark", "unlink", "files", "markers"}
              /\ \A r \in Crons : w \notin {Emit(<<"running", r>>), Emit(<<"finish", r>>), Emit(<<"lost", r>>)}

LEMMA ForeignKeeps ==
    ASSUME OutboxTypes, SpoolInv, Growing, events' = events, mix' = mix, cron' = cron, spool' = spool,
           job' # "lost", "cron" \notin mix => job' # "spool",
           \A i \in DOMAIN todo' : Foreign(todo'[i]),
           \A r \in torn' \cap markers' : r \in torn \cap markers \/ <<r, "running">> \in spool,
           \A r \in markers' : r \in markers \/ <<r, "running">> \in spool
    PROVE  SpoolInv'
  <1>1. \A key : Has(key)' <=> Has(key)
    BY DEF Has
  <1>2. /\ \A i \in DOMAIN todo' : todo'[i][1] \notin {"mark", "unmark", "unlink", "files", "markers"}
        /\ \A i \in DOMAIN todo', r \in Crons :
              todo'[i] # Emit(<<"running", r>>) /\ todo'[i] # Emit(<<"finish", r>>) /\ todo'[i] # Emit(<<"lost", r>>)
    BY DEF Foreign
  <1>3. \A key : Emit(key)' = Emit(key)
    BY DEF Emit
  <1>4. \A i \in DOMAIN todo' : ~SpoolWork(todo'[i])
    BY <1>2 DEF SpoolWork
  <1>5. Phase'
    BY <1>4 DEF Phase, SpoolWork, Emit
  <1>6. Idle'
    BY DEF SpoolInv, Idle
  <1>7. Spooled'
    BY <1>1 DEF SpoolInv, Spooled
  <1>8. FilesInHand'
    <2>1. ASSUME NEW i \in DOMAIN todo', NEW r \in Crons
          PROVE  /\ todo'[i] # <<"unlink", <<r, "running">>>> /\ todo'[i] # <<"unlink", <<r, "finish">>>>
                 /\ todo'[i] # <<"mark", r>> /\ todo'[i] # Emit(<<"finish", r>>)
      <3>1. todo'[i][1] # "unlink" /\ todo'[i][1] # "mark" /\ todo'[i] # Emit(<<"finish", r>>)
        BY <1>2
      <3> QED BY <3>1
    <2> QED BY <1>2, <1>3, <2>1 DEF FilesInHand
  <1>9. MarkersInHand'
    <2>1. ASSUME NEW r \in Crons, Has(<<"finish", r>>)', r \in markers' PROVE <<r, "finish">> \in spool'
      <3>1. Has(<<"finish", r>>)
        BY <1>1, <2>1
      <3>2. r \in markers
        BY <2>1, <3>1 DEF SpoolInv, Spooled
      <3> QED BY <3>1, <3>2 DEF SpoolInv, MarkersInHand
    <2> QED BY <1>2, <1>3, <2>1 DEF MarkersInHand
  <1>10. TornInHand'
    <2>1. ASSUME NEW i \in DOMAIN todo', NEW r PROVE todo'[i] # <<"unlink", <<r, "running">>>>
      BY <1>2
    <2>2. \A r \in torn' \cap markers' : <<r, "running">> \in spool'
      BY DEF SpoolInv, TornInHand
    <2> QED BY <2>1, <2>2 DEF TornInHand
  <1> QED BY <1>5, <1>6, <1>7, <1>8, <1>9, <1>10 DEF SpoolInv

LEMMA SpoolForeign ==
    ASSUME OutboxTypes, SpoolInv, Growing,
           \/ JournalPass \/ JournalReset \/ JournalFirst \/ ReadRecord \/ RetryPass \/ ChildPass
           \/ CoverPass \/ Recheck \/ Crash \/ Breaks
    PROVE  SpoolInv'
  <1>1. events' = events /\ mix' = mix /\ cron' = cron /\ spool' = spool
    BY BreaksDo DEF JournalPass, JournalReset, JournalFirst, ReadRecord, RetryPass, ChildPass, CoverPass, Recheck, Crash,
           crons, table
  <1>2. job' # "lost" /\ ("cron" \notin mix => job' # "spool")
    <2>1. CASE JournalPass \/ JournalReset \/ JournalFirst \/ RetryPass \/ ChildPass \/ CoverPass
      <3>1. job \in {"journal", "retry", "children", "cover"} /\ job' = After(job)
        BY <2>1 DEF JournalPass, JournalReset, JournalFirst, RetryPass, ChildPass, CoverPass, Begin
      <3> QED BY <3>1, AfterFacts DEF Place
    <2>2. CASE ReadRecord \/ Recheck
      <3>1. 1 \in DOMAIN todo /\ todo[1][1] \in {"records", "recheck"}
        BY <2>2, ReadRecordDoes, RecheckDoes
      <3>2. job' = job
        BY <2>2 DEF ReadRecord, Recheck
      <3>3. ~SpoolWork(todo[1])
        BY <3>1 DEF SpoolWork, Emit
      <3> QED BY <3>1, <3>2, <3>3 DEF SpoolInv, Phase, Idle
    <2>3. CASE Crash
      BY <2>3, FirstFacts DEF Crash
    <2>4. CASE Breaks
      BY <2>4, BreaksTo DEF SpoolInv
    <2> QED BY <2>1, <2>2, <2>3, <2>4
  <1>3. \A i \in DOMAIN todo' : Foreign(todo'[i])
    <2>1. CASE JournalPass \/ JournalFirst
      <3>1. ASSUME NEW i \in DOMAIN todo' PROVE todo'[i][1] \in {"records", "cursor"}
        BY <2>1, JournalPassDoes, JournalFirstDoes
      <3> QED BY <3>1 DEF Foreign, Emit
    <2>2. CASE JournalReset
      <3>1. ASSUME NEW i \in DOMAIN todo' PROVE todo'[i][1] = "records" \/ todo'[i] = Emit(<<"reset", cursor>>)
        BY <2>2, JournalResetDoes
      <3> QED BY <3>1 DEF Foreign, Emit
    <2>3. CASE ReadRecord
      <3>1. PICK p \in 1 .. Records, l \in 1 .. Records, n \in {0, 1} :
              \A i \in DOMAIN todo' :
                    \/ i = 1 /\ n = 1 /\ todo'[i] = Emit(<<"journal", p>>)
                    \/ i > n /\ todo'[i] \in {<<"cursor", p>>, <<"time", p>>}
                    \/ i > n /\ todo'[i] = <<"records", p + 1, l>>
        BY <2>3, ReadRecordDoes
      <3>2. ASSUME NEW i \in DOMAIN todo'
            PROVE  todo'[i][1] \in {"records", "cursor", "time"} \/ todo'[i] = Emit(<<"journal", p>>)
        BY <3>1
      <3> QED BY <3>2 DEF Foreign, Emit
    <2>4. CASE RetryPass
      <3>1. PICK from \in 0 .. file.lines, n \in Nat :
              /\ DOMAIN todo' = 1 .. n + 1
              /\ \A i \in 1 .. n : todo'[i] = Emit(<<"line", file.inode, from + i - 1>>)
              /\ todo'[n + 1] = <<"offset", file.inode, file.lines>>
        BY <2>4, RetryPassDoes
      <3>2. ASSUME NEW i \in DOMAIN todo'
            PROVE  todo'[i][1] = "offset" \/ \E o : todo'[i] = Emit(<<"line", file.inode, o>>)
        <4>1. i \in 1 .. n \/ i = n + 1
          BY <3>1
        <4>2. CASE i \in 1 .. n
          BY <3>1, <4>2
        <4>3. CASE i = n + 1
          BY <3>1, <4>3
        <4> QED BY <4>1, <4>2, <4>3
      <3> QED BY <3>2 DEF Foreign, Emit
    <2>5. CASE ChildPass
      <3>1. ASSUME NEW i \in DOMAIN todo'
            PROVE  \/ todo'[i][1] = "childOffset"
                   \/ todo'[i] = Emit(<<"child">>)
                   \/ \E o \in 0 .. Lines : todo'[i] = Emit(<<"result", o>>)
        <4>1. \A k \in DOMAIN todo' :
                 \/ todo'[k] = Emit(<<"child">>)
                 \/ \E o \in 0 .. Lines : todo'[k] = Emit(<<"result", o>>)
                 \/ /\ todo'[k] = <<"childOffset", child>>
                    /\ \A o \in 0 .. Lines : o < child => o < childAt
                          \/ \E j \in DOMAIN todo' : j < k /\ todo'[j] = Emit(<<"result", o>>)
          BY <2>5, ChildPassDoes
        <4>2. todo'[i] = <<"childOffset", child>> => todo'[i][1] = "childOffset"
          OBVIOUS
        <4> QED BY <4>1, <4>2
      <3> QED BY <3>1 DEF Foreign, Emit
    <2>6. CASE CoverPass
      BY <2>6, CoverPassDoes DEF Foreign, Emit
    <2>7. CASE Recheck
      BY <2>7, RecheckDoes DEF Foreign, Emit
    <2>8. CASE Crash \/ Breaks
      BY <2>8, CrashDoes, BreaksDo DEF Foreign, Emit
    <2> QED BY <2>1, <2>2, <2>3, <2>4, <2>5, <2>6, <2>7, <2>8
  <1>4. /\ \A r \in torn' \cap markers' : r \in torn \cap markers \/ <<r, "running">> \in spool
        /\ \A r \in markers' : r \in markers \/ <<r, "running">> \in spool
    <2>1. CASE Crash \/ Breaks
      <3>1. CASE markers' = markers /\ torn' = torn
        BY <3>1
      <3>2. CASE \E r \in Crons : /\ 1 \in DOMAIN todo /\ todo[1] = <<"mark", r>>
                                  /\ markers' = markers \cup {r} /\ torn' = torn \cup {r}
        <4>1. PICK r \in Crons : /\ 1 \in DOMAIN todo /\ todo[1] = <<"mark", r>>
                                 /\ markers' = markers \cup {r} /\ torn' = torn \cup {r}
          BY <3>2
        <4>2. <<r, "running">> \in spool
          BY <4>1 DEF SpoolInv, FilesInHand
        <4> QED BY <4>1, <4>2
      <3> QED BY <2>1, <3>1, <3>2, CrashDoes, BreaksDo
    <2>2. CASE ~Crash /\ ~Breaks
      <3>1. markers' = markers /\ torn' = torn
        BY <2>2 DEF JournalPass, JournalReset, JournalFirst, ReadRecord, RetryPass, ChildPass, CoverPass, Recheck,
           crons
      <3> QED BY <3>1
    <2> QED BY <2>1, <2>2
  <1> QED BY <1>1, <1>2, <1>3, <1>4, ForeignKeeps

LEMMA SpoolPassKeeps ==
    ASSUME OutboxTypes, SpoolInv, SpoolPass
    PROVE  SpoolInv'
  <1>1. /\ events' = events /\ mix' = mix /\ cron' = cron /\ spool' = spool /\ markers' = markers /\ torn' = torn
        /\ job = "spool" /\ todo = <<>> /\ job' = After("spool")
    BY DEF SpoolPass, Begin, crons, table
  <1>2. /\ \A i \in DOMAIN todo' : i = 1 /\ todo'[i] = <<"files", spool>>
        /\ spool # {} => 1 \in DOMAIN todo'
    BY SpoolPassDoes
  <1>3. job' = "lost" <=> "cron" \in mix
    BY <1>1, AfterFacts DEF OutboxTypes, TableTypes
  <1>4. \A i \in DOMAIN todo' : todo'[i] = <<"files", spool>> /\ todo'[i][1] = "files" /\ todo'[i][2] = spool
    BY <1>2
  <1>5. \A key : Has(key)' <=> Has(key)
    BY <1>1 DEF Has
  <1>6. Phase'
    <2>1. ASSUME NEW i \in DOMAIN todo' PROVE job' = "lost"
      <3>1. spool # {}
        BY DEF SpoolPass, Begin, Left
      <3> QED BY <1>3, <3>1 DEF SpoolInv, Idle
    <2> QED BY <1>4, <2>1 DEF Phase, SpoolWork
  <1>7. Idle'
    BY <1>1, <1>3 DEF SpoolInv, Idle
  <1>8. Spooled'
    BY <1>1, <1>5 DEF SpoolInv, Spooled
  <1>9. FilesInHand'
    <2>1. ASSUME NEW i \in DOMAIN todo', NEW r \in Crons
          PROVE  /\ todo'[i] # <<"unlink", <<r, "running">>>> /\ todo'[i] # <<"unlink", <<r, "finish">>>>
                 /\ todo'[i] # <<"mark", r>> /\ todo'[i] # Emit(<<"finish", r>>)
      BY <1>4 DEF Emit
    <2>2. \A i, j \in DOMAIN todo' : j <= i
      BY <1>2
    <2>3. \A r \in Crons : Emit(<<"finish", r>>)' = Emit(<<"finish", r>>)
      BY DEF Emit
    <2> QED BY <1>1, <1>4, <2>1, <2>2, <2>3 DEF FilesInHand
  <1>10. MarkersInHand'
    <2>1. ASSUME NEW r \in Crons, Has(<<"finish", r>>)', r \in markers'
          PROVE  <<r, "finish">> \in spool' /\ \E i \in DOMAIN todo' : Listed(<<r, "finish">>, i)'
      <3>1. <<r, "finish">> \in spool
        BY <1>1, <1>5, <2>1 DEF SpoolInv, MarkersInHand
      <3>2. 1 \in DOMAIN todo' /\ Listed(<<r, "finish">>, 1)'
        BY <1>2, <1>4, <3>1 DEF Listed
      <3> QED BY <1>1, <3>1, <3>2
    <2>2. ASSUME NEW r \in Crons, NEW i \in DOMAIN todo'
          PROVE  todo'[i] # Emit(<<"lost", r>>)' /\ todo'[i][1] # "markers"
      BY <1>4 DEF Emit
    <2> QED BY <2>1, <2>2 DEF MarkersInHand
  <1>11. TornInHand'
    <2>1. ASSUME NEW r \in torn' \cap markers'
          PROVE  <<r, "running">> \in spool' /\ \E i \in DOMAIN todo' : Listed(<<r, "running">>, i)'
      <3>1. <<r, "running">> \in spool
        BY <1>1, <2>1 DEF SpoolInv, TornInHand
      <3>2. 1 \in DOMAIN todo' /\ Listed(<<r, "running">>, 1)'
        BY <1>2, <1>4, <3>1 DEF Listed
      <3> QED BY <1>1, <3>1, <3>2
    <2>2. ASSUME NEW r, NEW i \in DOMAIN todo' PROVE todo'[i] # <<"unlink", <<r, "running">>>>
      BY <1>4
    <2> QED BY <2>1, <2>2 DEF TornInHand
  <1> QED BY <1>6, <1>7, <1>8, <1>9, <1>10, <1>11 DEF SpoolInv

LEMMA LostPassKeeps ==
    ASSUME OutboxTypes, SpoolInv, LostPass
    PROVE  SpoolInv'
  <1>1. /\ events' = events /\ mix' = mix /\ cron' = cron /\ spool' = spool /\ markers' = markers /\ torn' = torn
        /\ job = "lost" /\ todo = <<>> /\ job' = After("lost")
    BY DEF LostPass, Begin, crons, table
  <1>2. \A i \in DOMAIN todo' : todo'[i] = <<"markers", markers>> /\ todo'[i][1] = "markers" /\ todo'[i][2] = markers
    BY LostPassDoes
  <1>3. job' # "lost" /\ "cron" \in mix
    <2>1. "cron" \in mix
      BY <1>1 DEF SpoolInv, Idle
    <2> QED BY <1>1, <2>1, AfterFacts DEF OutboxTypes, TableTypes
  <1>4. \A key : Has(key)' <=> Has(key)
    BY <1>1 DEF Has
  <1>5. Phase'
    <2>1. ASSUME NEW i \in DOMAIN todo' PROVE ~SpoolWork(todo'[i])
      BY <1>2 DEF SpoolWork, Emit
    <2> QED BY <1>3, <2>1 DEF Phase, SpoolWork, Emit
  <1>6. Idle'
    BY <1>1, <1>3 DEF SpoolInv, Idle
  <1>7. Spooled'
    BY <1>1, <1>4 DEF SpoolInv, Spooled
  <1>8. FilesInHand'
    <2>1. ASSUME NEW i \in DOMAIN todo', NEW r \in Crons
          PROVE  /\ todo'[i] # <<"unlink", <<r, "running">>>> /\ todo'[i] # <<"unlink", <<r, "finish">>>>
                 /\ todo'[i] # <<"mark", r>> /\ todo'[i] # Emit(<<"finish", r>>) /\ todo'[i][1] # "files"
      BY <1>2 DEF Emit
    <2>2. \A r \in Crons : Emit(<<"finish", r>>)' = Emit(<<"finish", r>>)
      BY DEF Emit
    <2>3. \A i \in DOMAIN todo' : todo'[i][1] # "files"
      BY <1>2
    <2> QED BY <2>1, <2>2, <2>3 DEF FilesInHand
  <1>9. MarkersInHand'
    <2>1. ASSUME NEW r \in Crons, r \in markers PROVE ~Has(<<"finish", r>>)
      <3>1. DOMAIN todo = {}
        BY <1>1
      <3> QED BY <1>1, <2>1, <3>1 DEF SpoolInv, MarkersInHand, Listed
    <2>2. ASSUME NEW r \in Crons, NEW i \in DOMAIN todo'
          PROVE  todo'[i] # Emit(<<"lost", r>>)' /\ (r \in todo'[i][2] => r \in markers)
      BY <1>2 DEF Emit
    <2> QED BY <1>1, <1>3, <1>4, <2>1, <2>2 DEF MarkersInHand
  <1>10. TornInHand'
    <2>1. ASSUME NEW r, NEW i \in DOMAIN todo' PROVE todo'[i] # <<"unlink", <<r, "running">>>>
      BY <1>2
    <2> QED BY <1>1, <1>3, <2>1 DEF SpoolInv, TornInHand
  <1> QED BY <1>5, <1>6, <1>7, <1>8, <1>9, <1>10 DEF SpoolInv

LEMMA ReadMarkerKeeps ==
    ASSUME OutboxTypes, SpoolInv, ReadMarker
    PROVE  SpoolInv'
  <1>1. /\ events' = events /\ mix' = mix /\ cron' = cron /\ spool' = spool /\ markers' = markers /\ torn' = torn
        /\ job' = job
    BY DEF ReadMarker, crons, table
  <1>2. /\ 1 \in DOMAIN todo /\ todo[1][1] = "markers"
        /\ \A i \in DOMAIN todo' :
              \/ todo'[i] = Emit(<<"collector", "spool">>)
              \/ \E r \in todo[1][2] : todo'[i] \in {Emit(<<"lost", r>>), <<"unmark", r>>}
              \/ \E S \in SUBSET todo[1][2] : todo'[i] = <<"markers", S>>
    BY ReadMarkerDoes
  <1>3. job' # "lost"
    <2>1. ~SpoolWork(todo[1])
      BY <1>2 DEF SpoolWork, Emit
    <2> QED BY <1>1, <1>2, <2>1 DEF SpoolInv, Phase
  <1>4. \A key : Has(key)' <=> Has(key)
    BY <1>1 DEF Has
  <1>5. \A key : Emit(key)' = Emit(key)
    BY DEF Emit
  <1>6. ASSUME NEW i \in DOMAIN todo'
        PROVE  /\ todo'[i][1] \notin {"mark", "unlink", "files"}
               /\ \A r : todo'[i] # Emit(<<"running", r>>) /\ todo'[i] # Emit(<<"finish", r>>)
               /\ todo'[i][1] = "markers" => todo'[i][2] \subseteq todo[1][2]
               /\ \A r : todo'[i] = Emit(<<"lost", r>>) => r \in todo[1][2]
    <2>1. CASE todo'[i] = Emit(<<"collector", "spool">>)
      BY <2>1 DEF Emit
    <2>2. CASE \E r \in todo[1][2] : todo'[i] \in {Emit(<<"lost", r>>), <<"unmark", r>>}
      BY <2>2 DEF Emit
    <2>3. CASE \E S \in SUBSET todo[1][2] : todo'[i] = <<"markers", S>>
      BY <2>3 DEF Emit
    <2> QED BY <1>2, <2>1, <2>2, <2>3
  <1>7. Phase'
    <2>1. ASSUME NEW i \in DOMAIN todo' PROVE ~SpoolWork(todo'[i])
      BY <1>6 DEF SpoolWork
    <2> QED BY <1>3, <2>1 DEF Phase, SpoolWork, Emit
  <1>8. Idle'
    BY <1>1, <1>3 DEF SpoolInv, Idle
  <1>9. Spooled'
    BY <1>1, <1>4 DEF SpoolInv, Spooled
  <1>10. FilesInHand'
    <2>1. ASSUME NEW i \in DOMAIN todo', NEW r \in Crons
          PROVE  /\ todo'[i] # <<"unlink", <<r, "running">>>> /\ todo'[i] # <<"unlink", <<r, "finish">>>>
                 /\ todo'[i] # <<"mark", r>> /\ todo'[i] # Emit(<<"finish", r>>)
      <3>1. todo'[i][1] # "unlink" /\ todo'[i][1] # "mark" /\ todo'[i] # Emit(<<"finish", r>>)
        BY <1>6
      <3> QED BY <3>1
    <2> QED BY <1>5, <1>6, <2>1 DEF FilesInHand
  <1>11. MarkersInHand'
    <2>1. ASSUME NEW r \in Crons, NEW i \in DOMAIN todo',
                 todo'[i] = Emit(<<"lost", r>>) \/ (todo'[i][1] = "markers" /\ r \in todo'[i][2])
          PROVE  ~Has(<<"finish", r>>)
      <3>1. r \in todo[1][2]
        BY <1>6, <2>1
      <3> QED BY <1>2, <3>1 DEF SpoolInv, MarkersInHand
    <2>2. ASSUME NEW r \in Crons, Has(<<"finish", r>>)', r \in markers' PROVE <<r, "finish">> \in spool'
      BY <1>1, <1>4, <2>2 DEF SpoolInv, MarkersInHand
    <2> QED BY <1>3, <1>4, <1>5, <2>1, <2>2 DEF MarkersInHand
  <1>12. TornInHand'
    <2>1. ASSUME NEW r, NEW i \in DOMAIN todo' PROVE todo'[i] # <<"unlink", <<r, "running">>>>
      BY <1>6
    <2> QED BY <1>1, <1>3, <2>1 DEF SpoolInv, TornInHand
  <1> QED BY <1>7, <1>8, <1>9, <1>10, <1>11, <1>12 DEF SpoolInv

LEMMA ReadFileKeeps ==
    ASSUME OutboxTypes, SpoolInv, ReadFile
    PROVE  SpoolInv'
  <1>1. /\ events' = events /\ mix' = mix /\ cron' = cron /\ spool' = spool /\ markers' = markers /\ torn' = torn
        /\ job' = job
    BY DEF ReadFile, crons, table
  <1>2. PICK f \in Files, L \in SUBSET Files :
              /\ 1 \in DOMAIN todo /\ todo[1] = <<"files", L>>
              /\ f \in L
              /\ f[2] = "finish" => <<f[1], "running">> \notin L
              /\ todo' \in Seq(Writes)
              /\ DOMAIN todo' = 1 .. 3 + (IF L \ {f} = {} THEN 0 ELSE 1)
              /\ todo'[1] = Emit(<<IF f[2] = "running" THEN "running" ELSE "finish", f[1]>>)
              /\ todo'[2] = <<IF f[2] = "running" THEN "mark" ELSE "unmark", f[1]>>
              /\ todo'[3] = <<"unlink", f>>
              /\ L \ {f} # {} => todo'[4] = <<"files", L \ {f}>>
    BY ReadFileDoes
  <1>3. todo[1][1] = "files" /\ todo[1][2] = L
    BY <1>2
  <1>4. job = "lost"
    BY <1>2, <1>3 DEF SpoolInv, Phase, SpoolWork
  (* The list is all there is to do; with the finish of a run it holds its start, if that is there. *)
  <1>5. \A j \in DOMAIN todo : j = 1
    <2>1. \A j \in DOMAIN todo : j <= 1
      BY <1>2, <1>3 DEF SpoolInv, FilesInHand
    <2>2. todo \in Seq(Writes)
      BY DEF OutboxTypes, TableTypes
    <2> QED BY <2>1, <2>2
  <1>6. L \subseteq spool /\ \A r \in Crons : <<r, "finish">> \in L /\ <<r, "running">> \in spool => <<r, "running">> \in L
    <2>1. /\ L \subseteq spool
          /\ \A r \in Crons : <<r, "finish">> \in L /\ <<r, "running">> \in spool =>
                \/ <<r, "running">> \in L
                \/ \E j \in DOMAIN todo : todo[j] = <<"unlink", <<r, "running">>>>
      BY <1>2, <1>3 DEF SpoolInv, FilesInHand
    <2>2. \A j \in DOMAIN todo, r \in Crons : todo[j] # <<"unlink", <<r, "running">>>>
      BY <1>3, <1>5
    <2> QED BY <2>1, <2>2
  <1>7. PICK q \in Crons : f = <<q, "running">> \/ f = <<q, "finish">>
    BY <1>2 DEF Files
  <1> DEFINE start == f = <<q, "running">>
  <1>8. /\ start => todo'[1] = Emit(<<"running", q>>) /\ todo'[2] = <<"mark", q>>
        /\ ~start => f = <<q, "finish">> /\ todo'[1] = Emit(<<"finish", q>>) /\ todo'[2] = <<"unmark", q>>
    <2>1. f[1] = q /\ (f[2] = "running" <=> start)
      BY <1>7
    <2> QED BY <1>2, <1>7, <2>1
  <1>9. /\ 1 \in DOMAIN todo' /\ 2 \in DOMAIN todo' /\ 3 \in DOMAIN todo' /\ todo'[3] = <<"unlink", f>>
        /\ L \ {f} # {} => 4 \in DOMAIN todo' /\ todo'[4] = <<"files", L \ {f}>>
        /\ \A i \in DOMAIN todo' : i = 1 \/ i = 2 \/ i = 3 \/ (i = 4 /\ L \ {f} # {})
    <2>1. CASE L \ {f} = {}
      <3>1. DOMAIN todo' = 1 .. 3
        BY <1>2, <2>1
      <3> QED BY <1>2, <2>1, <3>1
    <2>2. CASE L \ {f} # {}
      <3>1. DOMAIN todo' = 1 .. 4
        BY <1>2, <2>2
      <3> QED BY <1>2, <2>2, <3>1
    <2> QED BY <2>1, <2>2
  <1>10. ~start => <<q, "running">> \notin spool
    <2>1. ~start => f[1] = q /\ f[2] = "finish"
      BY <1>8
    <2> QED BY <1>2, <1>6, <1>8, <2>1
  <1> DEFINE M == L \ {f}
  <1>11. M \subseteq spool /\ f \in spool /\ f \notin M /\ L = M \cup {f}
    BY <1>2, <1>6
  <1>12. /\ todo'[1][1] = "emit" /\ todo'[2][1] \in {"mark", "unmark"} /\ todo'[3][1] = "unlink"
         /\ M # {} => todo'[4][1] = "files" /\ todo'[4][2] = M
         /\ todo'[2][2] = q /\ todo'[3][2] = f
    BY <1>8, <1>9 DEF Emit
  <1> HIDE DEF M, start
  <1>13. /\ \A i \in DOMAIN todo' : i = 1 \/ i = 2 \/ i = 3 \/ (i = 4 /\ M # {})
         /\ M # {} => 4 \in DOMAIN todo'
    BY <1>9 DEF M
  <1>14. \A key : Has(key)' <=> Has(key)
    BY <1>1 DEF Has
  <1>15. \A key : Emit(key)' = Emit(key)
    BY DEF Emit
  <1>16. Phase'
    <2>1. ASSUME NEW i \in DOMAIN todo' PROVE SpoolWork(todo'[i]) \/ todo'[i][1] = "unmark"
      <3>1. SpoolWork(todo'[1])
        BY <1>8 DEF SpoolWork
      <3>2. i # 1 => todo'[i][1] \in {"mark", "unlink", "files"} \/ todo'[i][1] = "unmark"
        BY <1>12, <1>13
      <3> QED BY <3>1, <3>2 DEF SpoolWork
    <2> QED BY <1>1, <1>4, <2>1 DEF Phase, SpoolWork, Emit
  <1>17. Idle'
    BY <1>1 DEF SpoolInv, Idle
  <1>18. Spooled'
    BY <1>1, <1>14 DEF SpoolInv, Spooled
  <1>19. FilesInHand'
    <2>1. ASSUME NEW i \in DOMAIN todo', todo'[i][1] = "files"
          PROVE  /\ todo'[i][2] \subseteq spool'
                 /\ \A j \in DOMAIN todo' : j <= i
                 /\ \A j \in DOMAIN todo' : todo'[j][1] = "unlink" => todo'[j][2] \notin todo'[i][2]
                 /\ \A r \in Crons : <<r, "finish">> \in todo'[i][2] /\ <<r, "running">> \in spool' =>
                       \/ <<r, "running">> \in todo'[i][2]
                       \/ \E j \in DOMAIN todo' : todo'[j] = <<"unlink", <<r, "running">>>>
      <3>1. i = 4 /\ todo'[i][2] = M
        BY <1>12, <1>13, <2>1
      <3>2. \A j \in DOMAIN todo' : j <= i
        BY <1>13, <3>1
      <3>3. ASSUME NEW j \in DOMAIN todo', todo'[j][1] = "unlink" PROVE todo'[j][2] \notin M
        <4>1. j = 3
          BY <1>12, <1>13, <3>3
        <4> QED BY <1>11, <1>12, <4>1
      <3>4. ASSUME NEW r \in Crons, <<r, "finish">> \in M, <<r, "running">> \in spool, <<r, "running">> \notin M
            PROVE  \E j \in DOMAIN todo' : todo'[j] = <<"unlink", <<r, "running">>>>
        <4>1. f = <<r, "running">>
          BY <1>6, <1>11, <3>4
        <4> QED BY <1>9, <4>1
      <3> QED BY <1>1, <1>11, <3>1, <3>2, <3>3, <3>4
    <2>2. ASSUME NEW i \in DOMAIN todo', NEW r \in Crons
          PROVE  /\ todo'[i] = <<"unlink", <<r, "running">>>> => Behind(<<"running", r>>, i)'
                 /\ todo'[i] = <<"unlink", <<r, "finish">>>> =>
                       /\ Behind(<<"finish", r>>, i)'
                       /\ r \notin markers' \/ \E k \in DOMAIN todo' : k < i /\ todo'[k] = <<"unmark", r>>
      <3>1. todo'[i][1] = "unlink" => i = 3
        BY <1>12, <1>13
      <3>2. CASE i = 3
        <4>1. 1 < i /\ 2 < i /\ 1 \in DOMAIN todo' /\ 2 \in DOMAIN todo' /\ todo'[i] = <<"unlink", f>>
          BY <1>9, <3>2
        <4>2. todo'[i] = <<"unlink", <<r, "running">>>> => todo'[1] = Emit(<<"running", r>>)
          BY <1>7, <1>8, <4>1 DEF start
        <4>3. todo'[i] = <<"unlink", <<r, "finish">>>> => todo'[1] = Emit(<<"finish", r>>) /\ todo'[2] = <<"unmark", r>>
          BY <1>7, <1>8, <4>1 DEF start
        <4>4. \A key : todo'[1] = Emit(key) => Behind(key, i)'
          BY <1>15, <4>1 DEF Behind
        <4> QED BY <4>1, <4>2, <4>3, <4>4
      <3> QED BY <3>1, <3>2
    <2>3. ASSUME NEW i \in DOMAIN todo', NEW r \in Crons
          PROVE  /\ todo'[i] = <<"mark", r>> =>
                       /\ <<r, "running">> \in spool'
                       /\ \A j \in DOMAIN todo' : todo'[j] = <<"unlink", <<r, "running">>>> => i < j
                 /\ todo'[i] = Emit(<<"finish", r>>) =>
                       /\ i = 1
                       /\ <<r, "finish">> \in spool' /\ <<r, "running">> \notin spool'
                       /\ \E k \in DOMAIN todo' : i < k /\ todo'[k] = <<"unmark", r>>
      <3>1. ASSUME todo'[i] = <<"mark", r>>
            PROVE  /\ <<r, "running">> \in spool'
                   /\ \A j \in DOMAIN todo' : todo'[j] = <<"unlink", <<r, "running">>>> => i < j
        <4>1. i = 2
          BY <1>12, <1>13, <3>1
        <4>2. start /\ r = q
          BY <1>8, <3>1, <4>1
        <4>3. \A j \in DOMAIN todo' : todo'[j][1] = "unlink" => j = 3
          BY <1>12, <1>13
        <4>4. \A j \in DOMAIN todo' : todo'[j] = <<"unlink", <<r, "running">>>> => i < j
          BY <4>1, <4>3
        <4> QED BY <1>1, <1>11, <4>2, <4>4 DEF start
      <3>2. ASSUME todo'[i] = Emit(<<"finish", r>>)
            PROVE  /\ i = 1
                   /\ <<r, "finish">> \in spool' /\ <<r, "running">> \notin spool'
                   /\ \E k \in DOMAIN todo' : i < k /\ todo'[k] = <<"unmark", r>>
        <4>1. i = 1
          BY <1>12, <1>13, <3>2 DEF Emit
        <4>2. ~start /\ r = q
          BY <1>8, <3>2, <4>1 DEF Emit
        <4>3. f = <<r, "finish">> /\ todo'[2] = <<"unmark", r>> /\ <<r, "running">> \notin spool
          BY <1>8, <1>10, <4>2
        <4> QED BY <1>1, <1>9, <1>11, <4>1, <4>3
      <3> QED BY <3>1, <3>2
    <2> QED BY <1>15, <2>1, <2>2, <2>3 DEF FilesInHand
  <1>20. MarkersInHand'
    <2>1. ASSUME NEW r \in Crons, Has(<<"finish", r>>)', r \in markers'
          PROVE  /\ <<r, "finish">> \in spool'
                 /\ \/ \E k \in DOMAIN todo' : todo'[k] = <<"unmark", r>>
                    \/ \E i \in DOMAIN todo' : Listed(<<r, "finish">>, i)'
      <3>1. /\ <<r, "finish">> \in spool
            /\ \/ \E k \in DOMAIN todo : todo[k] = <<"unmark", r>>
               \/ \E i \in DOMAIN todo : Listed(<<r, "finish">>, i)
        BY <1>1, <1>4, <1>14, <2>1 DEF SpoolInv, MarkersInHand
      <3>2. <<r, "finish">> \in L
        BY <1>3, <1>5, <3>1 DEF Listed
      <3>3. CASE f = <<r, "finish">>
        <4>1. ~start /\ q = r
          BY <1>7, <3>3 DEF start
        <4> QED BY <1>1, <1>8, <1>9, <3>1, <4>1
      <3>4. CASE f # <<r, "finish">>
        <4>1. <<r, "finish">> \in M
          BY <1>11, <3>2, <3>4
        <4>2. 4 \in DOMAIN todo' /\ todo'[4][1] = "files" /\ <<r, "finish">> \in todo'[4][2]
          BY <1>12, <1>13, <4>1
        <4> QED BY <1>1, <3>1, <4>2 DEF Listed
      <3> QED BY <3>3, <3>4
    <2>2. ASSUME NEW r \in Crons, NEW i \in DOMAIN todo'
          PROVE  todo'[i] # Emit(<<"lost", r>>) /\ todo'[i][1] # "markers"
      <3>1. todo'[1] # Emit(<<"lost", r>>)
        BY <1>8 DEF Emit
      <3>2. i # 1 => todo'[i][1] \in {"mark", "unmark", "unlink", "files"}
        BY <1>12, <1>13
      <3>3. todo'[i][1] # "markers"
        BY <1>12, <3>2
      <3> QED BY <3>1, <3>2, <3>3 DEF Emit
    <2> QED BY <1>15, <2>1, <2>2 DEF MarkersInHand
  <1>21. TornInHand'
    <2>1. ASSUME NEW r \in torn' \cap markers'
          PROVE  /\ <<r, "running">> \in spool'
                 /\ \A j \in DOMAIN todo' : todo'[j] = <<"unlink", <<r, "running">>>> =>
                        \E i \in DOMAIN todo' : i < j /\ todo'[i] = <<"mark", r>>
                 /\ \/ \E i \in DOMAIN todo' : todo'[i] = <<"mark", r>>
                    \/ \E i \in DOMAIN todo' : Listed(<<r, "running">>, i)'
      <3>1. /\ <<r, "running">> \in spool
            /\ \/ \E i \in DOMAIN todo : todo[i] = <<"mark", r>>
               \/ \E i \in DOMAIN todo : Listed(<<r, "running">>, i)
        BY <1>1, <1>4, <2>1 DEF SpoolInv, TornInHand
      <3>2. <<r, "running">> \in L
        BY <1>3, <1>5, <3>1 DEF Listed
      <3>3. f = <<r, "running">> => todo'[2] = <<"mark", r>>
        BY <1>7, <1>8 DEF start
      <3>4. ASSUME NEW j \in DOMAIN todo', todo'[j] = <<"unlink", <<r, "running">>>>
            PROVE  \E i \in DOMAIN todo' : i < j /\ todo'[i] = <<"mark", r>>
        <4>1. j = 3
          BY <1>12, <1>13, <3>4
        <4>2. f = <<r, "running">>
          BY <1>9, <3>4, <4>1
        <4> QED BY <1>9, <3>3, <4>1, <4>2
      <3>5. CASE f = <<r, "running">>
        BY <1>1, <1>9, <3>1, <3>3, <3>4, <3>5
      <3>6. CASE f # <<r, "running">>
        <4>1. <<r, "running">> \in M
          BY <1>11, <3>2, <3>6
        <4>2. 4 \in DOMAIN todo' /\ todo'[4][1] = "files" /\ <<r, "running">> \in todo'[4][2]
          BY <1>12, <1>13, <4>1
        <4> QED BY <1>1, <3>1, <3>4, <4>2 DEF Listed
      <3> QED BY <3>5, <3>6
    <2> QED BY <2>1 DEF TornInHand
  <1> QED BY <1>16, <1>17, <1>18, <1>19, <1>20, <1>21 DEF SpoolInv

LEMMA SpoolStep ==
    ASSUME OutboxTypes, SpoolInv, [Next]_vars
    PROVE  SpoolInv'
  <1>1. Growing
    BY EventsGrow
  <1>2. \/ Calm
        \/ Durable
        \/ SpoolPass
        \/ LostPass
        \/ ReadFile
        \/ ReadMarker
        \/ JournalPass \/ JournalReset \/ JournalFirst \/ ReadRecord \/ RetryPass \/ ChildPass
           \/ CoverPass \/ Recheck \/ Crash \/ Breaks
    BY StepKinds DEF Fresh
  <1> QED BY <1>1, <1>2, SpoolCalm, SpoolDurable, SpoolPassKeeps, LostPassKeeps, ReadFileKeeps, ReadMarkerKeeps,
             SpoolForeign

LEMMA SpoolInit == Init => SpoolInv
  <1> SUFFICES ASSUME Init PROVE SpoolInv
    OBVIOUS
  <1>1. /\ \A i \in DOMAIN todo : todo[i] = Emit(<<"boot", 0>>)
        /\ \A key : ~Has(key)
    BY InitLists
  <1>2. /\ spool = {} /\ markers = {} /\ torn = {} /\ job # "lost" /\ ("cron" \notin mix => job # "spool")
        /\ \A r \in Crons : cron[r] = "idle"
    BY FirstFacts DEF Init
  <1>3. \A i \in DOMAIN todo : /\ todo[i][1] = "emit"
                               /\ ~SpoolWork(todo[i])
                               /\ \A r : todo[i] # Emit(<<"finish", r>>) /\ todo[i] # Emit(<<"lost", r>>)
    BY <1>1 DEF Emit, SpoolWork
  <1>4. Phase /\ Idle /\ Spooled /\ TornInHand
    BY <1>1, <1>2, <1>3 DEF Phase, Idle, Spooled, TornInHand
  <1>5. FilesInHand
    <2>1. ASSUME NEW i \in DOMAIN todo, NEW r \in Crons
          PROVE  /\ todo[i] # <<"unlink", <<r, "running">>>> /\ todo[i] # <<"unlink", <<r, "finish">>>>
                 /\ todo[i] # <<"mark", r>> /\ todo[i] # Emit(<<"finish", r>>)
      <3>1. todo[i][1] # "unlink" /\ todo[i][1] # "mark"
        BY <1>3
      <3>2. todo[i] # Emit(<<"finish", r>>)
        BY <1>3
      <3> QED BY <3>1, <3>2
    <2> QED BY <1>3, <2>1 DEF FilesInHand
  <1>6. MarkersInHand
    BY <1>1, <1>2, <1>3 DEF MarkersInHand
  <1> QED BY <1>4, <1>5, <1>6 DEF SpoolInv
--------------------------------------------------------------------------------
(* The sources together.                                                         *)
SourcesInv == OutboxTypes /\ JournalInv /\ OffsetInv /\ UnreadInv /\ SpoolInv

LEMMA SourcesAlways == Spec => []SourcesInv
  <1>1. Init => SourcesInv
    <2> SUFFICES ASSUME Init PROVE SourcesInv
      OBVIOUS
    <2>1. \A i \in DOMAIN todo : todo[i][1] = "emit"
      BY InitLists DEF Emit
    <2>2. JournalInv
      <3>1. cursor = 0 /\ time = 0 /\ base = 0
        BY DEF Init
      <3> QED BY <2>1, <3>1 DEF JournalInv
    <2>3. OffsetInv
      <3>1. offset.at = 0 /\ childAt = 0
        BY DEF Init, NoOffset
      <3> QED BY <2>1, <3>1 DEF OffsetInv
    <2>4. UnreadInv
      BY DEF Init, UnreadInv
    <2> QED BY <2>2, <2>3, <2>4, TypesInit, SpoolInit DEF SourcesInv
  <1>2. SourcesInv /\ [Next]_vars => SourcesInv'
    BY TypesStep, JournalStep, OffsetStep, UnreadStep, SpoolStep DEF SourcesInv, SpoolInv
  <1> QED BY <1>1, <1>2, PTL DEF Spec

(* Whatever interrupts the collector, a loss or a failing pass, nothing of the    *)
(* journal, of the watched log, of a transcript or of the spool is lost but what  *)
(* NothingSkipped names: the records that nobody is to read, the lines that were  *)
(* there before the log was first seen or unread when it was replaced             *)
(* (operations_log.py:158-168, 244-310, 329-360).                                 *)
THEOREM NothingIsPassedOver == Spec => []NothingSkipped
  <1>1. SourcesInv => NothingSkipped
    <2> SUFFICES ASSUME SourcesInv PROVE NothingSkipped
      OBVIOUS
    <2>1. /\ file.inode \in 1 .. 2 /\ file.lines \in 0 .. Lines /\ written \in 0 .. Lines /\ Lines \in Nat
          /\ journal \in Nat /\ cursor \in Nat /\ base \in Nat /\ child \in 0 .. Lines /\ childAt \in 0 .. Lines
          /\ unread \in 0 .. Lines /\ offset.at \in 0 .. Lines /\ skipped.at \in 0 .. Lines
          /\ skipped.inode \in 0 .. 2
      BY OutboxAssumption DEF SourcesInv, OutboxTypes, SourceTypes, Offsets
    <2>2. ASSUME NEW p \in 1 .. journal, p \notin Noise, ~(p > cursor), ~(p <= base)
          PROVE  Has(<<"journal", p>>)
      <3>1. p \in base + 1 .. cursor
        BY <2>1, <2>2
      <3> QED BY <2>2, <3>1 DEF SourcesInv, JournalInv
    <2>3. ASSUME NEW i \in 1 .. file.inode, NEW o \in 0 .. LinesOf(i) - 1,
                 ~BeforeFirst(i, o), ~StillAhead(i, o), ~(i < file.inode /\ o >= unread)
          PROVE  Has(<<"line", i, o>>)
      <3>1. LinesOf(i) \in Int /\ LinesOf(i) <= Lines
        BY <2>1 DEF LinesOf
      <3>2. o \in 0 .. Lines /\ i \in 1 .. 2
        BY <2>1, <3>1
      <3>3. Seen(i, o)
        BY <2>1, <2>3, <3>2 DEF BeforeFirst, Seen
      <3>4. CASE i = file.inode
        <4>1. offset.inode = i /\ o < offset.at
          BY <2>1, <2>3, <3>2, <3>4 DEF StillAhead
        <4> QED BY <3>2, <3>3, <4>1 DEF SourcesInv, OffsetInv
      <3>5. CASE i # file.inode
        <4>1. i = 1 /\ o < unread
          BY <2>1, <2>3, <3>2, <3>5
        <4> QED BY <3>2, <3>3, <4>1 DEF SourcesInv, UnreadInv
      <3> QED BY <3>4, <3>5
    <2>4. ASSUME NEW o \in 0 .. child - 1, ~(o >= childAt) PROVE Has(<<"result", o>>)
      <3>1. o \in 0 .. Lines /\ o < childAt
        BY <2>1, <2>4
      <3> QED BY <2>4, <3>1 DEF SourcesInv, OffsetInv
    <2>5. /\ \A r \in Crons : cron[r] # "idle" /\ <<r, "running">> \notin spool => Has(<<"running", r>>)
          /\ \A r \in Crons : cron[r] \in {"finished", "exited"} /\ <<r, "finish">> \notin spool => Has(<<"finish", r>>)
      BY DEF SourcesInv, SpoolInv, Spooled
    <2> QED BY <2>2, <2>3, <2>4, <2>5 DEF NothingSkipped
  <1> QED BY <1>1, SourcesAlways, PTL

(* A marker that the loss of the collector left half written is whole again      *)
(* before the pass that parses the markers begins: its file was still there, and *)
(* files are read before markers (operations_log.py:165-171).                    *)
THEOREM TornMarkersAreRewritten == Spec => []TornIsRewritten
  <1>1. SourcesInv => TornIsRewritten
    <2> SUFFICES ASSUME SourcesInv, job = "lost", todo = <<>>, NEW r \in torn \cap markers PROVE FALSE
      BY DEF TornIsRewritten
    <2>1. DOMAIN todo = {}
      OBVIOUS
    <2> QED BY <2>1 DEF SourcesInv, SpoolInv, TornInHand
  <1> QED BY <1>1, SourcesAlways, PTL

(* No run is reported as lost once its result is in the table: its marker goes   *)
(* before its file, and files are read before markers (operations_log.py:158-185).*)
THEOREM NoResultIsFollowedByALoss == Spec => []NoLossAfterResult
  <1>1. Init => NoLossAfterResult
    BY DEF Init, NoLossAfterResult
  <1>2. SourcesInv /\ NoLossAfterResult /\ [Next]_vars => NoLossAfterResult'
    <2> SUFFICES ASSUME SourcesInv, NoLossAfterResult, [Next]_vars PROVE NoLossAfterResult'
      OBVIOUS
    <2>1. OutboxTypes /\ events \in Seq(Keys)
      BY DEF SourcesInv, OutboxTypes, TableTypes
    <2>2. ASSUME NEW key, events' = Append(events, key), \A r \in Crons : key = <<"lost", r>> => ~Has(<<"finish", r>>)
          PROVE  NoLossAfterResult'
      <3>1. /\ Len(events) \in Nat
            /\ DOMAIN events = 1 .. Len(events) /\ DOMAIN events' = 1 .. Len(events) + 1
            /\ \A i \in DOMAIN events : events'[i] = events[i]
            /\ events'[Len(events) + 1] = key
        <4>1. events \in Seq(Keys \cup {key})
          BY <2>1
        <4>2. /\ Len(events') = Len(events) + 1 /\ events' \in Seq(Keys \cup {key})
              /\ \A i \in 1 .. Len(events) : events'[i] = events[i]
              /\ events'[Len(events) + 1] = key
          BY <2>2, <4>1, AppendProperties
        <4> QED BY <2>1, <4>2
      <3>2. ASSUME NEW i \in DOMAIN events', NEW j \in DOMAIN events', NEW r \in Crons,
                   events'[i] = <<"finish", r>>, events'[j] = <<"lost", r>>
            PROVE  j < i
        <4>1. CASE i \in DOMAIN events /\ j \in DOMAIN events
          BY <3>1, <3>2, <4>1 DEF NoLossAfterResult
        <4>2. CASE i = Len(events) + 1
          <5>1. j # i
            BY <3>2
          <5> QED BY <3>1, <4>2, <5>1
        <4>3. CASE i \in DOMAIN events /\ j = Len(events) + 1
          <5>1. key = <<"lost", r>> /\ events[i] = <<"finish", r>>
            BY <3>1, <3>2, <4>3
          <5> QED BY <2>2, <4>3, <5>1 DEF Has
        <4> QED BY <3>1, <4>1, <4>2, <4>3
      <3> QED BY <3>2 DEF NoLossAfterResult
    <2>3. CASE events' = events
      BY <2>3 DEF NoLossAfterResult
    <2>4. CASE WriteEvent
      <3>1. todo[1] = Head(todo) /\ todo[1] \in Writes /\ todo[1][1] = "emit" /\ 1 \in DOMAIN todo
        BY <2>1, <2>4, HeadFacts DEF WriteEvent
      <3>2. todo[1][2] \in Keys /\ todo[1] = Emit(todo[1][2])
        BY <3>1, WriteKinds
      <3>3. PICK key \in Keys : todo[1] = Emit(key) /\ events' = Inserted(key)
        BY <2>4, <3>1, <3>2 DEF WriteEvent
      <3>4. \A r \in Crons : key = <<"lost", r>> => ~Has(<<"finish", r>>)
        BY <3>1, <3>3 DEF SourcesInv, SpoolInv, MarkersInHand
      <3>5. events' = events \/ events' = Append(events, key)
        BY <2>1, <3>3, InsertedFacts
      <3> QED BY <2>2, <2>3, <3>4, <3>5
    <2>5. CASE ServiceEmits \/ UsageEmit
      <3>1. PICK key \in Keys : events' = Inserted(key) /\ key[1] \in {"service", "usage"}
        <4>1. CASE ServiceEmits
          <5>1. PICK n \in 1 .. Emits : events' = Inserted(<<"service", n>>)
            BY <4>1 DEF ServiceEmits
          <5> QED BY <5>1, KeyFacts
        <4>2. CASE UsageEmit
          <5>1. usage \in 1 .. Slots /\ events' = Inserted(<<"usage", usage>>)
            BY <2>1, <4>2, OutboxAssumption DEF UsageEmit, OutboxTypes, SourceTypes
          <5>2. <<"usage", usage>> \in Keys
            BY <5>1, KeyFacts
          <5> QED BY <5>1, <5>2
        <4> QED BY <2>5, <4>1, <4>2
      <3>2. \A r \in Crons : key # <<"lost", r>>
        BY <3>1
      <3>3. events' = events \/ events' = Append(events, key)
        BY <2>1, <3>1, InsertedFacts
      <3> QED BY <2>2, <2>3, <3>2, <3>3
    <2>6. ~WriteEvent /\ ~ServiceEmits /\ ~UsageEmit => events' = events
      <3>1. CASE Publish \/ UsageRead \/ UsageStore \/ Environment \/ UNCHANGED vars \/ Crash
        BY <3>1 DEF Publish, PublishRead, PublishPost, PublishFails, PublishMark, UsageRead, UsageStore,
             Environment, JournalGrows, JournalVacuumed, LogGrows, LogRotates, ChildReturns, SlotPasses,
             HumanEdits, Crash, vars, table
      <3>2. CASE Cron
        BY <3>2 DEF Cron, CronStarts, CronFinishes, CronGone, Age, table
      <3>5. CASE Breaks
        BY <2>1, <3>5, BreaksDo
      <3>3. CASE Pass
        BY <3>3 DEF Pass, SpoolPass, LostPass, JournalPass, JournalReset, JournalFirst, RetryPass, ChildPass,
                    CoverPass, table
      <3>4. CASE Write /\ ~WriteEvent
        BY <3>4 DEF Write, WriteMarker, RemoveMarker, RemoveFile, WriteCursor, WriteTime,
                WriteOffset, WriteChildOffset, WriteCrontab, ReadFile, ReadMarker, ReadRecord, Recheck, table
      <3> QED BY <3>1, <3>2, <3>3, <3>4, <3>5 DEF Next, Breaks
    <2> QED BY <2>3, <2>4, <2>5, <2>6
  <1> QED BY <1>1, <1>2, SourcesAlways, PTL DEF Spec
--------------------------------------------------------------------------------
(* The feed.  What is pending is an interval, and so is what is read of it.      *)
LEMMA FirstOfIs ==
    ASSUME NEW S \in SUBSET Nat, NEW x \in S, \A y \in S : x <= y
    PROVE  FirstOf(S) = x
  <1>1. \E i \in S : \A j \in S : i <= j
    OBVIOUS
  <1>2. FirstOf(S) \in S /\ \A j \in S : FirstOf(S) <= j
    BY <1>1 DEF FirstOf
  <1>3. FirstOf(S) <= x /\ x <= FirstOf(S)
    BY <1>2
  <1>4. FirstOf(S) \in Nat /\ x \in Nat
    BY <1>2
  <1> QED BY <1>3, <1>4

LEMMA BatchIs ==
    ASSUME NEW c \in Nat, NEW n \in Nat, DOMAIN events = 1 .. n, delivered = 1 .. c, c < n
    PROVE  \E l \in Nat : c < l /\ l <= n /\ Batch = (c + 1) .. l
  <1>1. Pending = (c + 1) .. n
    BY DEF Pending
  <1>2. BatchLimit \in Nat /\ BatchLimit >= 1
    BY OutboxAssumption
  <1>3. ASSUME NEW i \in Pending
        PROVE  Cardinality({j \in Pending : j < i}) = i - 1 - c
    <2>1. i \in Nat /\ c + 1 <= i /\ i <= n
      BY <1>1, <1>3
    <2>2. {j \in Pending : j < i} = (c + 1) .. (i - 1)
      BY <1>1, <2>1
    <2>3. c + 1 \in Int /\ i - 1 \in Int
      BY <2>1
    <2>4. Cardinality((c + 1) .. (i - 1)) = IF c + 1 > i - 1 THEN 0 ELSE (i - 1) - (c + 1) + 1
      BY ONLY <2>3, FS_Interval
    <2>5. i - 1 - c = IF c + 1 > i - 1 THEN 0 ELSE (i - 1) - (c + 1) + 1
      BY ONLY <2>1, c \in Nat
    <2> QED BY <2>2, <2>4, <2>5
  <1>4. \A i \in Pending : i \in Oldest <=> i - 1 - c < BatchLimit
    BY <1>3 DEF Oldest
  <1>5. PICK m \in Nat : c < m /\ m <= n /\ Oldest = (c + 1) .. m
    <2>1. CASE c + BatchLimit <= n
      <3>1. Oldest = (c + 1) .. (c + BatchLimit)
        <4>1. Oldest \subseteq Pending
          BY DEF Oldest
        <4>2. \A i \in (c + 1) .. n : i - 1 - c < BatchLimit <=> i <= c + BatchLimit
          BY <1>2
        <4>3. \A i : i \in (c + 1) .. (c + BatchLimit) <=> i \in (c + 1) .. n /\ i <= c + BatchLimit
          BY <1>2, <2>1
        <4> QED BY <1>1, <1>4, <4>1, <4>2, <4>3
      <3> QED BY <1>2, <2>1, <3>1
    <2>2. CASE c + BatchLimit > n
      <3>1. Oldest = (c + 1) .. n
        <4>1. Oldest \subseteq Pending
          BY DEF Oldest
        <4>2. \A i \in (c + 1) .. n : i - 1 - c < BatchLimit
          BY <1>2, <2>2
        <4> QED BY <1>1, <1>4, <4>1, <4>2
      <3> QED BY <3>1
    <2> QED BY <1>2, <2>1, <2>2
  <1>6. FirstOf(Oldest) = c + 1
    <2>1. Oldest \in SUBSET Nat /\ c + 1 \in Oldest /\ \A y \in Oldest : c + 1 <= y
      BY <1>5
    <2> QED BY <2>1, FirstOfIs
  <1> DEFINE lonely == {i \in Oldest : events[i][1] = "usage"}
  <1>7. Batch = CASE lonely = {}                -> Oldest
                  [] FirstOf(Oldest) \in lonely -> {FirstOf(Oldest)}
                  [] OTHER                      -> {i \in Oldest : i < FirstOf(lonely)}
    BY DEF Batch
  <1>8. lonely \subseteq Oldest
    OBVIOUS
  <1> HIDE DEF lonely
  <1>9. CASE lonely = {}
    <2>1. Batch = Oldest
      BY <1>7, <1>9
    <2> QED BY <1>5, <2>1
  <1>10. CASE c + 1 \in lonely
    <2>1. Batch = {c + 1}
      BY <1>6, <1>7, <1>10
    <2>2. {c + 1} = (c + 1) .. (c + 1)
      OBVIOUS
    <2>3. c + 1 \in Nat /\ c < c + 1 /\ c + 1 <= n
      OBVIOUS
    <2> QED BY <2>1, <2>2, <2>3
  <1>11. CASE lonely # {} /\ c + 1 \notin lonely
    <2>1. Batch = {i \in Oldest : i < FirstOf(lonely)}
      BY <1>6, <1>7, <1>11
    <2>2. lonely \subseteq Nat
      BY <1>5, <1>8
    <2>3. PICK u \in lonely : \A y \in lonely : u <= y
      BY <1>11, <2>2, LeastExists
    <2>4. FirstOf(lonely) = u
      BY <2>2, <2>3, FirstOfIs
    <2>5. u \in (c + 1) .. m /\ u # c + 1
      BY <1>5, <1>8, <1>11, <2>3
    <2>6. {i \in Oldest : i < u} = (c + 1) .. (u - 1)
      BY <1>5, <2>5
    <2>7. u - 1 \in Nat /\ c < u - 1 /\ u - 1 <= n
      BY <1>5, <2>5
    <2> QED BY <2>1, <2>4, <2>6, <2>7
  <1> QED BY <1>9, <1>10, <1>11

(* Two beginnings are one the beginning of the other.                            *)
LEMMA BeginningsJoin ==
    ASSUME NEW s \in Nat, NEW c \in Nat, NEW l \in Nat, c <= s
    PROVE  (1 .. s) \cup ((c + 1) .. l) = 1 .. (IF s <= l THEN l ELSE s)
  OBVIOUS

(* The publisher and a loss of the collector record nothing, and nobody else     *)
(* touches the outbox.                                                           *)
LEMMA FeedSteps ==
    ASSUME OutboxTypes, [Next]_vars
    PROVE  \/ (Publish \/ Crash) /\ events' = events
           \/ delivered' = delivered /\ posted' = posted /\ pub' = pub /\ batch' = batch
  <1>1. CASE Publish
    BY <1>1 DEF Publish, PublishRead, PublishPost, PublishFails, PublishMark, table
  <1>2. CASE Crash
    BY <1>2 DEF Crash, table
  <1>3. CASE ServiceEmits \/ UsageRead \/ UsageEmit \/ UsageStore \/ UNCHANGED vars
    BY <1>3 DEF ServiceEmits, UsageRead, UsageEmit, UsageStore, vars, table, outbox
  <1>4. CASE Cron
    BY <1>4 DEF Cron, CronStarts, CronFinishes, CronGone, Age, table, outbox
  <1>5. CASE Pass
    BY <1>5 DEF Pass, SpoolPass, LostPass, JournalPass, JournalReset, JournalFirst, RetryPass, ChildPass,
                CoverPass, table, outbox
  <1>6. CASE Write
    BY <1>6 DEF Write, WriteEvent, WriteMarker, RemoveMarker, RemoveFile, WriteCursor, WriteTime,
                WriteOffset, WriteChildOffset, WriteCrontab, ReadFile, ReadMarker, ReadRecord, Recheck,
                table, outbox
  <1>7. CASE Environment
    BY <1>7 DEF Environment, JournalGrows, JournalVacuumed, LogGrows, LogRotates, ChildReturns, SlotPasses,
                HumanEdits, table, outbox
  <1>8. CASE Breaks
    BY <1>8, BreaksDo
  <1> QED BY <1>1, <1>2, <1>3, <1>4, <1>5, <1>6, <1>7, <1>8 DEF Next, Breaks

LEMMA FeedInit == ASSUME Init PROVE FeedInv /\ Feed!Init
  <1>1. posted = {} /\ delivered = {} /\ pub = "idle" /\ events = <<>>
    BY DEF Init
  <1>2. Len(events) = 0
    BY <1>1
  <1>3. FeedAt(0, 0, 0)
    BY <1>1, <1>2 DEF FeedAt
  <1> QED BY <1>1, <1>2, <1>3 DEF FeedInv, Feed!Init

(* Every step is one of the feed, or none, and leaves a beginning.               *)
LEMMA FeedStep ==
    ASSUME OutboxTypes, FeedInv, [Next]_vars
    PROVE  FeedInv' /\ [Feed!Next]_<<events, posted, delivered>>
  <1>1. PICK s \in Nat, c \in Nat, l \in Nat : FeedAt(s, c, l)
    BY DEF FeedInv
  <1> DEFINE n == Len(events)
  <1>2. /\ n \in Nat /\ DOMAIN events = 1 .. n
        /\ events \in Seq(Keys) /\ pub \in {"idle", "post", "mark"}
    BY DEF OutboxTypes, TableTypes, FeedInv
  <1>3. /\ c <= s /\ s <= n /\ posted = 1 .. s /\ delivered = 1 .. c
        /\ pub # "idle" => c < l /\ l <= n /\ batch = (c + 1) .. l
        /\ pub = "mark" => l <= s
    BY <1>1 DEF FeedAt
  <1> HIDE DEF n
  <1>5. ASSUME events' = events PROVE Len(events') = n
    BY <1>5 DEF n
  <1>6. CASE UNCHANGED <<delivered, posted, pub, batch>>
    <2>1. posted' = posted
      BY <1>6
    <2>2. ASSUME Len(events') \in Nat, n <= Len(events') PROVE FeedInv'
      <3>1. FeedAt(s, c, l)'
        BY <1>2, <1>3, <1>6, <2>1, <2>2 DEF FeedAt
      <3> QED BY <1>2, <1>6, <3>1 DEF FeedInv
    <2>3. CASE events' = events
      BY <1>2, <1>5, <1>6, <2>1, <2>2, <2>3
    <2>4. ASSUME NEW key \in Keys, ~Has(key), events' = Append(events, key)
          PROVE  FeedInv' /\ Feed!Next
      <3>1. Len(events') = n + 1
        BY <1>2, <2>4, AppendProperties DEF n
      <3>2. Feed!Record(key)
        BY <1>6, <2>1, <2>4 DEF Feed!Record, Feed!Recorded, Has
      <3> QED BY <1>2, <2>2, <2>4, <3>1, <3>2 DEF Feed!Next
    <2>5. ASSUME NEW key \in Keys, events' = Inserted(key)
          PROVE  events' = events \/ (~Has(key) /\ events' = Append(events, key))
      BY <2>5 DEF Inserted
    <2> QED BY <2>3, <2>4, <2>5, EventsStep
  <1>7. CASE PublishRead
    <2>1. /\ pub = "idle" /\ Pending # {} /\ batch' = Batch /\ pub' = "post"
          /\ events' = events /\ delivered' = delivered /\ posted' = posted
      BY <1>7 DEF PublishRead, table
    <2>2. c < n
      BY <1>2, <1>3, <2>1 DEF Pending
    <2>3. PICK m \in Nat : c < m /\ m <= n /\ Batch = (c + 1) .. m
      BY <1>2, <1>3, <2>2, BatchIs
    <2>5. FeedAt(s, c, m)'
      BY <1>3, <1>5, <2>1, <2>3 DEF FeedAt
    <2> QED BY <1>2, <2>1, <2>5 DEF FeedInv
  <1>8. ASSUME pub # "idle", posted' \in {posted, posted \cup batch}, events' = events, delivered' = delivered
        PROVE  \E t \in Nat : /\ s <= t /\ t <= n /\ posted' = 1 .. t
                              /\ posted' = posted \cup batch => l <= t
                              /\ [Feed!Next]_<<events, posted, delivered>>
    <2>1. CASE posted' = posted \cup batch
      <3> DEFINE t == IF s <= l THEN l ELSE s
      <3>1. posted' = posted \cup batch
        BY <2>1
      <3>2. posted' = 1 .. t
        BY <1>3, <1>8, <3>1, BeginningsJoin
      <3>3. t \in Nat /\ s <= t /\ t <= n /\ l <= t
        BY <1>3, <1>8
      <3>4. CASE t = s
        BY <1>3, <1>8, <3>1, <3>2, <3>3, <3>4
      <3>5. CASE t # s
        <4>1. t \in 1 .. t /\ t \notin 1 .. s
          BY <3>3, <3>5
        <4>2. t \in DOMAIN events
          BY <1>2, <3>3, <4>1
        <4>3. Feed!Show(t)
          BY <1>3, <1>8, <3>2, <4>1 DEF Feed!Show
        <4> QED BY <3>1, <3>2, <3>3, <4>2, <4>3 DEF Feed!Next
      <3> QED BY <3>4, <3>5
    <2>2. CASE posted' = posted /\ posted' # posted \cup batch
      BY <1>2, <1>3, <1>8, <2>2
    <2> QED BY <1>8, <2>1, <2>2
  <1>9. CASE PublishPost
    <2>1. /\ pub = "post" /\ posted' = posted \cup batch /\ pub' = "mark"
          /\ events' = events /\ delivered' = delivered /\ batch' = batch
      BY <1>9 DEF PublishPost, table
    <2>2. PICK t \in Nat : /\ s <= t /\ t <= n /\ posted' = 1 .. t /\ l <= t
                           /\ [Feed!Next]_<<events, posted, delivered>>
      BY <1>8, <2>1
    <2>3. FeedAt(t, c, l)'
      BY <1>3, <1>5, <2>1, <2>2 DEF FeedAt
    <2> QED BY <2>1, <2>2, <2>3 DEF FeedInv
  <1>10. CASE PublishFails
    <2>1. /\ pub # "idle" /\ posted' \in {posted, posted \cup batch} /\ pub' = "idle"
          /\ events' = events /\ delivered' = delivered
      BY <1>10 DEF PublishFails, table
    <2>2. PICK t \in Nat : /\ s <= t /\ t <= n /\ posted' = 1 .. t
                           /\ [Feed!Next]_<<events, posted, delivered>>
      BY <1>8, <2>1
    <2>3. FeedAt(t, c, l)'
      BY <1>3, <1>5, <2>1, <2>2 DEF FeedAt
    <2> QED BY <2>1, <2>2, <2>3 DEF FeedInv
  <1>11. CASE PublishMark
    <2>1. /\ pub = "mark" /\ delivered' = delivered \cup batch /\ pub' = "idle"
          /\ events' = events /\ posted' = posted
      BY <1>11 DEF PublishMark
    <2>2. delivered' = 1 .. l /\ l <= s /\ c <= l
      <3>1. (1 .. c) \cup ((c + 1) .. l) = 1 .. (IF c <= l THEN l ELSE c)
        BY BeginningsJoin
      <3> QED BY <1>3, <2>1, <3>1
    <2>4. FeedAt(s, l, l)'
      BY <1>3, <1>5, <2>1, <2>2 DEF FeedAt
    <2>5. delivered \subseteq delivered' /\ delivered' \subseteq posted
      BY <1>3, <2>1, <2>2
    <2>6. Feed!Call
      BY <2>1, <2>5 DEF Feed!Call
    <2> QED BY <1>2, <2>1, <2>4, <2>6 DEF FeedInv, Feed!Next
  <1>12. CASE Crash
    <2>1. pub' = "idle" /\ events' = events /\ delivered' = delivered /\ posted' = posted
      BY <1>12 DEF Crash, table
    <2>3. FeedAt(s, c, l)'
      BY <1>3, <1>5, <2>1 DEF FeedAt
    <2> QED BY <1>2, <2>1, <2>3 DEF FeedInv
  <1> QED BY <1>6, <1>7, <1>9, <1>10, <1>11, <1>12, FeedSteps DEF Publish

(* The operations log implements the feed (operations_store.py:32-33, 112-126,   *)
(* operations_log.py:74-116): an event is recorded once under its key, the       *)
(* channel shows a beginning of the table however often Slack or the marks fail  *)
(* and the collector is lost, and only what is shown is called delivered.        *)
THEOREM OutboxIsAFeed == Spec => IsFeed
  <1>1. Init => FeedInv /\ Feed!Init
    BY FeedInit
  <1>2. SourcesInv /\ FeedInv /\ [Next]_vars
        => FeedInv' /\ [Feed!Next]_<<events, posted, delivered>>
    BY FeedStep DEF SourcesInv
  <1> QED BY <1>1, <1>2, SourcesAlways, PTL DEF Spec, IsFeed, Feed!Spec
================================================================================
