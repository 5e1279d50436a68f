----------------------------- MODULE AdminCodex -------------------------------
(***************************************************************************)
(* The Codex chats of the administration page (admin_codex.py) and the        *)
(* client of the Codex App Server under them (codex_app_server.py): the runs   *)
(* of a chat, the process each run starts behind the workspace lock, requests  *)
(* that may never be answered, and a chat deleted under its run.               *)
(***************************************************************************)
EXTENDS Naturals, FiniteSets

CONSTANTS
    Chats,      \* the threads of the administration page
    ChatRuns,   \* bound: messages that start a run
    ChatFaults  \* bound: processes that die or stop answering

ASSUME ChatAssumption == ChatRuns \in Nat /\ ChatFaults \in Nat

VARIABLES
    chatRun,    \* the runs: the chat and how far submit and _run are
    proc,       \* the server process of a run
    mute,       \* servers that live but answer nothing any more
    turned,     \* servers that have a turn id: turn/start was answered
    tasks,      \* _tasks: the run of a chat, or 0
    servers,    \* _servers: likewise
    deleter,    \* the request that deletes a chat
    chatFaults

chatVars == <<chatRun, proc, mute, turned, tasks, servers, deleter, chatFaults>>

-----------------------------------------------------------------------------
ChatIds == 1..ChatRuns
Resting == [at |-> "idle", chat |-> CHOOSE c \in Chats : TRUE, task |-> 0, server |-> 0]

InitChats ==
    /\ chatRun = [r \in ChatIds |-> [at |-> "absent", chat |-> CHOOSE c \in Chats : TRUE]]
    /\ proc = [r \in ChatIds |-> "none"]
    /\ mute = {} /\ turned = {}
    /\ tasks = [c \in Chats |-> 0]
    /\ servers = [c \in Chats |-> 0]
    /\ deleter = Resting
    /\ chatFaults = 0

RunGoes(r, at) == chatRun' = [chatRun EXCEPT ![r].at = at]
Live(r) == proc[r] \in {"waiting", "up"}

(* The process group is killed.                                             *)
Killed(r) == proc' = [proc EXCEPT ![r] = IF Live(r) THEN "gone" ELSE @]

-----------------------------------------------------------------------------
(* submit: no task runs, and the thread is read, which takes a server of its   *)
(* own without the lock.  A message for a running turn only steers it.         *)
SubmitChecks(r, c) ==
    /\ chatRun[r].at = "absent"
    /\ tasks[c] = 0
    /\ chatRun' = [chatRun EXCEPT ![r] = [at |-> "reading", chat |-> c]]
    /\ UNCHANGED <<proc, mute, turned, tasks, servers, deleter, chatFaults>>

(* The task is made when the thread is read; nothing is checked again.         *)
SubmitStarts(r) ==
    LET c == chatRun[r].chat
    IN  /\ chatRun[r].at = "reading"
        /\ \/ /\ RunGoes(r, "opening")
              /\ tasks' = [tasks EXCEPT ![c] = r]
              /\ servers' = [servers EXCEPT ![c] = r]
           \/ RunGoes(r, "over") /\ UNCHANGED <<tasks, servers>>
        /\ UNCHANGED <<proc, mute, turned, deleter, chatFaults>>

(* The usage row is open; the process is started and waits for the lock.       *)
Connect(r) ==
    /\ chatRun[r].at = "opening"
    /\ RunGoes(r, "starting")
    /\ proc' = [proc EXCEPT ![r] = "waiting"]
    /\ UNCHANGED <<mute, turned, tasks, servers, deleter, chatFaults>>

(* flock gives the workspace to one process at a time.                        *)
Locked(r) ==
    /\ proc[r] = "waiting"
    /\ \A q \in ChatIds : proc[q] # "up"
    /\ proc' = [proc EXCEPT ![r] = "up"]
    /\ UNCHANGED <<chatRun, mute, turned, tasks, servers, deleter, chatFaults>>

Answers(r) == proc[r] = "up" /\ r \notin mute

(* initialize, thread/resume, turn/start are answered; or one of them is not,   *)
(* or is refused.                                                           *)
Start(r) ==
    /\ chatRun[r].at = "starting"
    /\ \/ Answers(r) /\ RunGoes(r, "turn") /\ turned' = turned \cup {r}
       \/ RunGoes(r, "finishing") /\ UNCHANGED turned
    /\ UNCHANGED <<proc, mute, tasks, servers, deleter, chatFaults>>

(* The turn ends; when the process is gone or silent, its timeout does it:      *)
(* the end of the output fails requests only, not a wait for notifications.    *)
EndTurn(r) ==
    /\ chatRun[r].at = "turn"
    /\ RunGoes(r, "finishing")
    /\ UNCHANGED <<proc, mute, turned, tasks, servers, deleter, chatFaults>>

(* Mutant: the run leaves its server to the end of the service.              *)
FinishOnly(r) ==
    LET c == chatRun[r].chat
    IN  /\ chatRun[r].at = "finishing"
        /\ RunGoes(r, "over")
        /\ tasks' = [tasks EXCEPT ![c] = 0]
        /\ servers' = [servers EXCEPT ![c] = 0]
        /\ UNCHANGED <<proc, mute, turned, deleter, chatFaults>>

(* The finally clause: usage is stored, the entries of the chat are taken out   *)
(* (those of a later run too), then the server is closed.                      *)
Finish(r) ==
    LET c == chatRun[r].chat
    IN  /\ chatRun[r].at = "finishing"
        /\ RunGoes(r, "closing")
        /\ tasks' = [tasks EXCEPT ![c] = 0]
        /\ servers' = [servers EXCEPT ![c] = 0]
        /\ UNCHANGED <<proc, mute, turned, deleter, chatFaults>>

(* close: a server with a turn is asked to interrupt it, and an answer that      *)
(* does not come is a TimeoutError, which the client does not suppress.         *)
Interrupted(r) == ~(r \in turned /\ Live(r) /\ r \in mute)

CloseServer(r) ==
    /\ chatRun[r].at = "closing"
    /\ RunGoes(r, "over")
    /\ IF Interrupted(r) THEN Killed(r) ELSE UNCHANGED proc
    /\ UNCHANGED <<mute, turned, tasks, servers, deleter, chatFaults>>

-----------------------------------------------------------------------------
(* The cancellation ends a run that waits for its usage row at once, before its  *)
(* try block or in its finally clause; else it goes through the finally clause. *)
Cancelled(r) ==
    IF r = 0 THEN UNCHANGED chatRun
    ELSE RunGoes(r, CASE chatRun[r].at \in {"opening", "finishing"} -> "over"
                      [] chatRun[r].at \in {"starting", "turn"} -> "finishing"
                      [] OTHER -> chatRun[r].at)

(* delete: the entries are taken out, the server is closed, the task cancelled   *)
(* and awaited, and then the thread is deleted.  A server that has not been      *)
(* started is closed without an await, and the task is cancelled at once.       *)
Delete(c) ==
    LET started == servers[c] # 0 /\ proc[servers[c]] # "none"
    IN  /\ deleter.at = "idle"
        /\ deleter' = [at |-> IF started THEN "close" ELSE "delete",
                       chat |-> c, task |-> tasks[c], server |-> servers[c]]
        /\ IF started THEN UNCHANGED chatRun ELSE Cancelled(tasks[c])
        /\ tasks' = [tasks EXCEPT ![c] = 0]
        /\ servers' = [servers EXCEPT ![c] = 0]
        /\ UNCHANGED <<proc, mute, turned, chatFaults>>

DeleteCloses ==
    /\ deleter.at = "close"
    /\ IF Interrupted(deleter.server)
       THEN /\ deleter' = [deleter EXCEPT !.at = "cancel"]
            /\ Killed(deleter.server)
       ELSE /\ deleter' = Resting
            /\ UNCHANGED proc
    /\ UNCHANGED <<chatRun, mute, turned, tasks, servers, chatFaults>>

DeleteCancels ==
    /\ deleter.at = "cancel"
    /\ deleter' = [deleter EXCEPT !.at = "delete"]
    /\ Cancelled(deleter.task)
    /\ UNCHANGED <<proc, mute, turned, tasks, servers, chatFaults>>

DeleteThread ==
    /\ deleter.at = "delete"
    /\ deleter.task # 0 => chatRun[deleter.task].at = "over"
    /\ deleter' = Resting
    /\ UNCHANGED <<chatRun, proc, mute, turned, tasks, servers, chatFaults>>

-----------------------------------------------------------------------------
(* A process dies, or it lives on and answers nothing.                        *)
ProcessFails(r) ==
    /\ chatFaults < ChatFaults /\ chatFaults' = chatFaults + 1
    /\ Live(r)
    /\ \/ proc' = [proc EXCEPT ![r] = "gone"] /\ UNCHANGED mute
       \/ mute' = mute \cup {r} /\ UNCHANGED proc
    /\ UNCHANGED <<chatRun, turned, tasks, servers, deleter>>

RunSteps(r) == SubmitStarts(r) \/ Connect(r) \/ Start(r) \/ EndTurn(r)
                  \/ Finish(r) \/ CloseServer(r)

NextChats ==
    \/ \E r \in ChatIds : RunSteps(r) \/ Locked(r) \/ ProcessFails(r)
    \/ \E r \in ChatIds, c \in Chats : SubmitChecks(r, c)
    \/ \E c \in Chats : Delete(c)
    \/ DeleteCloses \/ DeleteCancels \/ DeleteThread

SpecChats == InitChats /\ [][NextChats]_chatVars

-----------------------------------------------------------------------------
(* codex_app_server.py:260, "Stop the App Server and fail outstanding requests": *)
(* no server, and with it the workspace lock, outlives the run that started it,   *)
(* however its chat is deleted meanwhile; except one that left the interrupt      *)
(* of its turn unanswered, which close() gives up on.                           *)
ServersEndWithRuns ==
    \A r \in ChatIds :
        chatRun[r].at = "over" /\ Live(r) => r \in mute \cap turned

=============================================================================
