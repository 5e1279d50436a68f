--------------------------- MODULE AdminCodexProofs ---------------------------
(* What the Codex chats of the administration page promise for any chats, any   *)
(* number of messages and any failures of their servers.                        *)
EXTENDS AdminCodex, TLAPS

RunStages == {"absent", "reading", "opening", "starting", "turn", "finishing",
              "closing", "over"}
ProcStates == {"none", "waiting", "up", "gone"}
Entries == {0} \cup ChatIds

ChatSet == Chats \cup {Resting.chat}

ChatTypes ==
    /\ chatRun \in [ChatIds -> [at : RunStages, chat : ChatSet]]
    /\ \A r \in ChatIds : chatRun[r].at # "absent" => chatRun[r].chat \in Chats
    /\ proc \in [ChatIds -> ProcStates]
    /\ tasks \in [Chats -> Entries]
    /\ deleter \in [at : {"idle", "close", "cancel", "delete"},
                    chat : ChatSet, task : Entries, server : Entries]

(* A run has no process before it connects, and one, dead or alive, until it is *)
(* over.  The two tables name the same run for a chat.  A deletion that is past *)
(* the close has killed the server of the task it cancels.                      *)
ServerInv ==
    /\ \A r \in ChatIds :
          /\ chatRun[r].at \in {"absent", "reading", "opening"} => proc[r] = "none"
          /\ chatRun[r].at \in {"starting", "turn", "finishing", "closing"} => proc[r] # "none"
    /\ servers = tasks
    /\ deleter.server = deleter.task
    /\ deleter.at = "close" => deleter.server # 0 /\ proc[deleter.server] # "none"
    /\ deleter.at = "cancel" => deleter.server # 0 /\ proc[deleter.server] = "gone"

ChatInv == ChatTypes /\ ServerInv /\ ServersEndWithRuns

LEMMA ChatInit == InitChats => ChatInv
  BY ChatAssumption DEF InitChats, ChatInv, ChatTypes, ChatSet, ServerInv, ServersEndWithRuns,
     RunStages, ProcStates, Entries, ChatIds, Resting, Live

LEMMA EntriesAreRuns == \A e \in Entries : e # 0 => e \in ChatIds
  BY DEF Entries

(* A run that moves on keeps its chat, and the others stay where they are.       *)
LEMMA RunMoves ==
    ASSUME ChatTypes, NEW r \in ChatIds, NEW at \in RunStages, RunGoes(r, at)
    PROVE  /\ chatRun' \in [ChatIds -> [at : RunStages, chat : ChatSet]]
           /\ \A q \in ChatIds : /\ chatRun'[q].chat = chatRun[q].chat
                                 /\ q # r => chatRun'[q].at = chatRun[q].at
           /\ chatRun'[r].at = at
  BY DEF RunGoes, ChatTypes

(* A cancelled run keeps its chat; before it has a process, or once its process *)
(* is dead, it may end at once.                                                 *)
LEMMA CancelledRun ==
    ASSUME ChatTypes, NEW r \in Entries, Cancelled(r)
    PROVE  /\ chatRun' \in [ChatIds -> [at : RunStages, chat : ChatSet]]
           /\ \A q \in ChatIds : /\ chatRun'[q].chat = chatRun[q].chat
                                 /\ q # r => chatRun'[q].at = chatRun[q].at
           /\ r # 0 => \/ chatRun[r].at \in {"opening", "finishing"} /\ chatRun'[r].at = "over"
                       \/ chatRun[r].at \in {"starting", "turn"} /\ chatRun'[r].at = "finishing"
                       \/ chatRun'[r].at = chatRun[r].at
  BY EntriesAreRuns DEF Cancelled, RunGoes, ChatTypes, RunStages

(* A run moves on, the tables stay alike, and its process may be killed.         *)
LEMMA MovesKeep ==
    ASSUME ChatInv, NEW r \in ChatIds, NEW at \in RunStages \ {"absent"}, RunGoes(r, at),
           chatRun[r].at \notin {"absent", "over"},
           tasks' \in [Chats -> Entries], servers' = tasks',
           UNCHANGED <<mute, turned, deleter>>,
           proc' \in [ChatIds -> ProcStates],
           \A q \in ChatIds : proc'[q] = proc[q] \/ (q = r /\ proc'[q] = "gone" /\ proc[q] # "none"),
           at \in {"reading", "opening"} => proc'[r] = "none",
           at \in {"starting", "turn", "finishing", "closing"} => proc'[r] # "none",
           at = "over" => proc'[r] \notin {"waiting", "up"} \/ r \in mute \cap turned
    PROVE  ChatInv'
  <1> USE DEF ChatInv
  <1>1. /\ chatRun' \in [ChatIds -> [at : RunStages, chat : ChatSet]]
        /\ \A q \in ChatIds : /\ chatRun'[q].chat = chatRun[q].chat
                              /\ q # r => chatRun'[q].at = chatRun[q].at
        /\ chatRun'[r].at = at
    BY RunMoves
  <1>2. ChatTypes'
    BY <1>1 DEF ChatTypes
  <1>3. ServerInv'
    BY <1>1, EntriesAreRuns DEF ServerInv, ChatTypes
  <1>4. ServersEndWithRuns'
    BY <1>1 DEF ServersEndWithRuns, Live
  <1> QED BY <1>2, <1>3, <1>4

LEMMA ChatStep == ChatInv /\ [NextChats]_chatVars => ChatInv'
  <1> SUFFICES ASSUME ChatInv, [NextChats]_chatVars PROVE ChatInv'
    OBVIOUS
  <1> USE EntriesAreRuns DEF ChatInv, ChatTypes, ServerInv, ServersEndWithRuns, Live
  <1>1. ASSUME NEW r \in ChatIds, SubmitStarts(r) PROVE ChatInv'
    <2>1. /\ RunGoes(r, "over") \/ RunGoes(r, "opening")
          /\ chatRun[r].at = "reading" /\ UNCHANGED <<proc, mute, turned, deleter>>
          /\ servers' = tasks' /\ tasks' \in [Chats -> Entries]
      BY <1>1, SMTT(30) DEF SubmitStarts, Entries
    <2>2. proc[r] = "none" /\ proc' \in [ChatIds -> ProcStates]
      BY <2>1
    <2> HIDE DEF ChatInv, ChatTypes, ServerInv, ServersEndWithRuns
    <2> QED BY <2>1, <2>2, MovesKeep DEF RunStages
  <1>2. ASSUME NEW r \in ChatIds, Connect(r) PROVE ChatInv'
    BY <1>2, RunMoves DEF Connect, RunStages, ProcStates
  <1>3. ASSUME NEW r \in ChatIds, Start(r) PROVE ChatInv'
    BY <1>3, RunMoves, SMTT(30) DEF Start, RunStages
  <1>4. ASSUME NEW r \in ChatIds, EndTurn(r) PROVE ChatInv'
    <2>1. chatRun[r].at = "turn" /\ RunGoes(r, "finishing")
          /\ UNCHANGED <<proc, mute, turned, tasks, servers, deleter>>
      BY <1>4 DEF EndTurn
    <2>2. proc[r] # "none" /\ proc' = proc /\ servers' = tasks' /\ tasks' \in [Chats -> Entries]
          /\ proc' \in [ChatIds -> ProcStates]
      BY <2>1
    <2> HIDE DEF ChatInv, ChatTypes, ServerInv, ServersEndWithRuns
    <2> QED BY <2>1, <2>2, MovesKeep DEF RunStages
  <1>5. ASSUME NEW r \in ChatIds, Finish(r) PROVE ChatInv'
    <2>1. RunGoes(r, "closing") /\ chatRun[r].at = "finishing"
      BY <1>5 DEF Finish
    <2>2. servers' = tasks' /\ tasks' \in [Chats -> Entries]
      BY <1>5 DEF Finish, Entries
    <2>3. UNCHANGED <<proc, mute, turned, deleter>>
      BY <1>5 DEF Finish
    <2>4. proc[r] # "none" /\ proc' \in [ChatIds -> ProcStates]
      BY <2>1, <2>3
    <2> HIDE DEF ChatInv, ChatTypes, ServerInv, ServersEndWithRuns
    <2> QED BY <2>1, <2>2, <2>3, <2>4, MovesKeep DEF RunStages
  <1>6. ASSUME NEW r \in ChatIds, CloseServer(r) PROVE ChatInv'
    <2>1. chatRun[r].at = "closing" /\ RunGoes(r, "over")
      BY <1>6 DEF CloseServer
    <2>2. UNCHANGED <<mute, turned, tasks, servers, deleter>>
      BY <1>6 DEF CloseServer
    <2>3. tasks' \in [Chats -> Entries] /\ servers' = tasks'
      BY <2>2
    <2>4. CASE Interrupted(r)
      <3>1. proc' = [proc EXCEPT ![r] = IF proc[r] \in {"waiting", "up"} THEN "gone" ELSE @]
        BY <1>6, <2>4 DEF CloseServer, Killed
      <3>2. /\ proc' \in [ChatIds -> ProcStates] /\ proc'[r] \notin {"waiting", "up"}
            /\ \A q \in ChatIds : proc'[q] = proc[q] \/ (q = r /\ proc'[q] = "gone" /\ proc[q] # "none")
        <4>1. proc \in [ChatIds -> ProcStates]
          OBVIOUS
        <4> QED BY ONLY <3>1, <4>1 DEF ProcStates
      <3> HIDE DEF ChatInv, ChatTypes, ServerInv, ServersEndWithRuns
      <3> QED BY <2>1, <2>2, <2>3, <3>2, MovesKeep DEF RunStages
    <2>5. CASE ~Interrupted(r)
      <3>1. UNCHANGED proc /\ (Live(r) => r \in mute \cap turned)
        BY <1>6, <2>5 DEF CloseServer, Interrupted
      <3>2. tasks' \in [Chats -> Entries] /\ servers' = tasks' /\ proc' \in [ChatIds -> ProcStates]
        BY <2>2, <3>1
      <3> HIDE DEF ChatInv, ChatTypes, ServerInv, ServersEndWithRuns
      <3> QED BY <2>1, <2>2, <3>1, <3>2, MovesKeep DEF RunStages
    <2> QED BY <2>4, <2>5
  <1>7. ASSUME NEW r \in ChatIds, Locked(r) PROVE ChatInv'
    BY <1>7 DEF Locked, ProcStates
  <1>8. ASSUME NEW r \in ChatIds, ProcessFails(r) PROVE ChatInv'
    BY <1>8 DEF ProcessFails, ProcStates
  <1>9. ASSUME NEW r \in ChatIds, NEW c \in Chats, SubmitChecks(r, c) PROVE ChatInv'
    BY <1>9 DEF SubmitChecks, RunStages, ChatSet
  <1>10. ASSUME NEW c \in Chats, Delete(c) PROVE ChatInv'
    <2>1. CASE servers[c] # 0 /\ proc[servers[c]] # "none"
      BY <1>10, <2>1 DEF Delete, Entries, ChatSet
    <2>2. CASE ~(servers[c] # 0 /\ proc[servers[c]] # "none")
      <3>1. Cancelled(tasks[c]) /\ tasks[c] \in Entries
        BY <1>10, <2>2 DEF Delete
      <3>2. tasks[c] # 0 => proc[tasks[c]] = "none"
        BY <2>2
      <3>3. UNCHANGED <<proc, mute, turned>> /\ servers' = tasks' /\ tasks' \in [Chats -> Entries]
        BY <1>10 DEF Delete, Entries
      <3>4. /\ deleter' = [at |-> "delete", chat |-> c, task |-> tasks[c], server |-> servers[c]]
            /\ servers[c] = tasks[c]
        BY <1>10, <2>2 DEF Delete
      <3>5. chatRun' \in [ChatIds -> [at : RunStages, chat : ChatSet]]
              /\ \A q \in ChatIds : chatRun'[q].chat = chatRun[q].chat
        BY <3>1, CancelledRun
      <3>6. \A q \in ChatIds : \/ chatRun'[q].at = chatRun[q].at
                              \/ /\ q = tasks[c] /\ chatRun[q].at = "opening"
                                 /\ chatRun'[q].at = "over"
        <4>1. \A q \in ChatIds : q # tasks[c] => chatRun'[q].at = chatRun[q].at
          BY <3>1, CancelledRun
        <4>2. ASSUME NEW q \in ChatIds, q = tasks[c]
              PROVE  \/ chatRun'[q].at = chatRun[q].at
                     \/ chatRun[q].at = "opening" /\ chatRun'[q].at = "over"
          <5>1. q # 0 /\ proc[q] = "none"
            BY <3>2, <4>2 DEF ChatIds
          <5>2. chatRun[q].at \notin {"starting", "turn", "finishing", "closing"}
            BY <5>1
          <5> QED BY <3>1, <4>2, <5>1, <5>2, CancelledRun
        <4> QED BY <4>1, <4>2
      <3>7. ChatTypes'
        BY <3>1, <3>3, <3>4, <3>5, <3>6 DEF ChatSet
      <3>8. ServerInv'
        BY <3>1, <3>2, <3>3, <3>4, <3>6
      <3>9. ServersEndWithRuns'
        BY <3>3, <3>6
      <3> QED BY <3>7, <3>8, <3>9
    <2> QED BY <2>1, <2>2
  <1>11. CASE DeleteCloses
    BY <1>11 DEF DeleteCloses, Killed, Interrupted, ProcStates, Resting, Entries, ChatSet
  <1>12. CASE DeleteCancels
    <2>1. /\ Cancelled(deleter.task) /\ deleter.at = "cancel"
          /\ deleter.task \in ChatIds /\ deleter.task # 0
      BY <1>12 DEF DeleteCancels, Entries
    <2>2. deleter' = [deleter EXCEPT !.at = "delete"] /\ UNCHANGED <<proc, mute, turned, tasks, servers>>
      BY <1>12 DEF DeleteCancels
    <2>3. proc[deleter.task] = "gone"
      BY <2>1
    <2>4. \A q \in ChatIds : \/ chatRun'[q].at = chatRun[q].at
                            \/ (q = deleter.task /\ chatRun'[q].at \in {"over", "finishing"})
      <3>1. deleter.task \in Entries
        BY <2>1
      <3> HIDE DEF ChatInv, ChatTypes, ServerInv, ServersEndWithRuns
      <3> QED BY <2>1, <3>1, CancelledRun DEF ChatInv
    <2>5. chatRun' \in [ChatIds -> [at : RunStages, chat : ChatSet]]
            /\ \A q \in ChatIds : chatRun'[q].chat = chatRun[q].chat
      BY <2>1, CancelledRun
    <2>6. \A q \in ChatIds : chatRun'[q].at # "absent" => chatRun[q].at # "absent"
      BY <2>1, <2>3, <2>4
    <2> QED BY <2>2, <2>3, <2>4, <2>5, <2>6
  <1>13. CASE DeleteThread
    BY <1>13 DEF DeleteThread, Resting, Entries, ChatSet
  <1>14. CASE UNCHANGED chatVars
    BY <1>14 DEF chatVars
  <1> HIDE DEF ChatInv
  <1> QED
    BY ONLY [NextChats]_chatVars, <1>1, <1>2, <1>3, <1>4, <1>5, <1>6, <1>7, <1>8, <1>9,
       <1>10, <1>11, <1>12, <1>13, <1>14 DEF NextChats, RunSteps

(* No server outlives the run that started it, however its chat is deleted,     *)
(* except one that left the interrupt of its turn unanswered                    *)
(* (codex_app_server.py:260, close; admin_codex.py, delete and _run).           *)
THEOREM NoServerIsLeft == SpecChats => []ServersEndWithRuns
  <1>1. ChatInv => ServersEndWithRuns
    BY DEF ChatInv
  <1> QED BY <1>1, ChatInit, ChatStep, PTL DEF SpecChats
==============================================================================
