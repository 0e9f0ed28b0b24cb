--------------------------- MODULE ScheduledTurns ---------------------------
(***************************************************************************)
(* The job store composed with the agent that runs the jobs: the agent     *)
(* queue (mp_agent.c), the Wi-Fi guard in front of it (main.c) and the     *)
(* agent task, which asks the store whether a queued job still should run, *)
(* runs one message at a time, changes jobs through its tools while it     *)
(* does, and reports the outcome.  The serial console may reset the store  *)
(* at any moment.                                                          *)
(*                                                                         *)
(* A message with id 0 is a chat message or the immediate copy of a job.   *)
(***************************************************************************)
EXTENDS Scheduler, Sequences

CONSTANTS
  QueueLength, \* AGENT_QUEUE_LENGTH
  MaxChats,    \* bound: chat messages and immediate copies
  MaxDrops,    \* bound: times Wi-Fi goes away
  MaxFailures, \* bound: runs that fail
  MaxResets    \* bound: resets

ASSUME TurnsAssumption ==
  /\ QueueLength \in Nat \ {0}
  /\ {MaxChats, MaxDrops, MaxFailures, MaxResets} \subseteq Nat

VARIABLES
  wifi,     \* mp_wifi_connected
  queue,    \* s_queue of the agent
  stage,    \* the agent task: waiting, about to ask should_run, running
  turn,     \* the message the agent task works on
  chats, drops, failures, resets  \* what the bounds count

agent   == <<queue, stage, turn>>
counts  == <<chats, drops, failures, resets>>
allVars == <<vars, wifi, agent, counts>>

Message == [id : Nat, text : Texts \cup {NoText}, era : Nat]
NoTurn  == [id |-> 0, text |-> NoText, era |-> 0]

TurnsInit ==
  /\ Init
  /\ wifi = TRUE
  /\ queue = <<>> /\ stage = "idle" /\ turn = NoTurn
  /\ chats = 0 /\ drops = 0 /\ failures = 0 /\ resets = 0

----------------------------------------------------------------------------
(* Surroundings.                                                           *)

TurnsTick == (Tick \/ SyncClock) /\ UNCHANGED <<wifi, agent, counts>>

\* The queue and the agent's message are RAM.
TurnsReboot ==
  /\ Reboot
  /\ queue' = <<>> /\ stage' = "idle" /\ turn' = NoTurn
  /\ UNCHANGED <<wifi, counts>>

WifiDown ==
  /\ wifi /\ drops < MaxDrops
  /\ wifi' = FALSE
  /\ drops' = drops + 1
  /\ UNCHANGED <<vars, agent, chats, failures, resets>>

WifiUp ==
  /\ ~wifi
  /\ wifi' = TRUE
  /\ UNCHANGED <<vars, agent, counts>>

\* submit_message: era is the number of resets before the message was queued.
Enqueue(id, text) ==
  /\ Len(queue) < QueueLength
  /\ queue' = Append(queue, [id |-> id, text |-> text, era |-> resets])

Chat ==
  /\ chats < MaxChats
  /\ Enqueue(0, NoText)
  /\ chats' = chats + 1
  /\ UNCHANGED <<vars, wifi, stage, turn, drops, failures, resets>>

ConsoleReset(w) ==
  /\ resets < MaxResets
  /\ Reset(w)
  /\ resets' = resets + 1
  /\ UNCHANGED <<wifi, agent, chats, drops, failures>>

----------------------------------------------------------------------------
(* The pass, with schedule_output as s_emit: a job is taken when Wi-Fi is  *)
(* up and the queue has room within 100 ms.                                *)

TurnsPassEmit ==
  \/ /\ wifi
     /\ PassEmit(TRUE)
     /\ Enqueue(jobs[cursor].id, jobs[cursor].text)
     /\ UNCHANGED <<wifi, stage, turn, counts>>
  \/ /\ ~wifi \/ Len(queue) = QueueLength
     /\ PassEmit(FALSE)
     /\ UNCHANGED <<wifi, agent, counts>>

TurnsPassOther ==
  /\ PassStart \/ PassLock \/ PassUnmarked
  /\ UNCHANGED <<wifi, agent, counts>>

TurnsPass == TurnsPassEmit \/ TurnsPassOther

----------------------------------------------------------------------------
(* agent_task.                                                             *)

Receive ==
  /\ stage = "idle" /\ queue # <<>>
  /\ turn' = Head(queue)
  /\ queue' = Tail(queue)
  /\ stage' = "ask"
  /\ UNCHANGED <<vars, wifi, counts>>

\* mp_scheduler_should_run: a queued job that is not in flight is dropped.
AskShouldRun ==
  /\ stage = "ask"
  /\ turn.id # 0 => cursor = 0
  /\ IF turn.id = 0 \/ \E i \in inflight : jobs[i].id = turn.id
     THEN stage' = "run" /\ UNCHANGED turn
     ELSE stage' = "idle" /\ turn' = NoTurn
  /\ UNCHANGED <<vars, wifi, queue, counts>>

\* Tool calls of the turn that change jobs.  A /reset confirm YES turn resets.
ToolCall(w) ==
  /\ stage = "run"
  /\ \/ JobRequest(w) /\ UNCHANGED resets
     \/ turn.id = 0 /\ resets < MaxResets /\ Reset(w) /\ resets' = resets + 1
  /\ UNCHANGED <<wifi, agent, chats, drops, failures>>

\* mp_scheduler_run from within the turn: an immediate copy with id 0.
ToolRunNow(i) ==
  /\ stage = "run" /\ cursor = 0 /\ wifi
  /\ i \in Active(jobs)
  /\ chats < MaxChats
  /\ Enqueue(0, jobs[i].text)
  /\ chats' = chats + 1
  /\ UNCHANGED <<vars, wifi, stage, turn, drops, failures, resets>>

TurnEnds == stage' = "idle" /\ turn' = NoTurn

\* process_message returned; a job's outcome goes to mp_scheduler_complete,
\* which finds nothing when the job was deleted meanwhile.
FinishTurn(w) ==
  /\ stage = "run"
  /\ TurnEnds
  /\ \/ turn.id = 0 /\ UNCHANGED vars
     \/ turn.id # 0 /\ SlotsOf(turn.id) = {} /\ cursor = 0 /\ UNCHANGED vars
     \/ turn.id # 0 /\ \E i \in SlotsOf(turn.id) : CompleteDone(i, w)
  /\ UNCHANGED <<wifi, queue, counts>>

FailTurn ==
  /\ stage = "run" /\ turn.id # 0
  /\ failures < MaxFailures
  /\ failures' = failures + 1
  /\ TurnEnds
  /\ \E i \in SlotsOf(turn.id) : CompleteFailed(i)
  /\ UNCHANGED <<wifi, queue, chats, drops, resets>>

TurnsNext ==
  \/ TurnsTick \/ TurnsReboot \/ WifiDown \/ WifiUp \/ Chat
  \/ TurnsPass
  \/ Receive \/ AskShouldRun \/ FailTurn
  \/ \E w \in Written : ConsoleReset(w) \/ ToolCall(w) \/ FinishTurn(w)
  \/ \E i \in Slots : ToolRunNow(i)

TurnsSpec == TurnsInit /\ [][TurnsNext]_allVars

(* Fairness.  Time passes and Wi-Fi, when lost, comes back (mp_wifi.c      *)
(* reconnects on every disconnect).  The scheduler and agent tasks run.    *)
(* The mutex gives s_lock to a waiting task once the pass ends, so steps   *)
(* of the agent that need it are strongly fair.                            *)
Fairness ==
  /\ WF_allVars(Tick /\ UNCHANGED <<wifi, agent, counts>>)
  /\ WF_allVars(SyncClock /\ UNCHANGED <<wifi, agent, counts>>)
  /\ WF_allVars(WifiUp)
  /\ WF_allVars(TurnsPass)
  /\ WF_allVars(Receive)
  /\ SF_allVars(AskShouldRun)
  /\ SF_allVars(\E w \in Written : FinishTurn(w))

FairTurnsSpec == TurnsSpec /\ Fairness

----------------------------------------------------------------------------
TurnsTypeOK ==
  /\ wifi \in BOOLEAN
  /\ queue \in Seq(Message) /\ Len(queue) <= QueueLength
  /\ stage \in {"idle", "ask", "run"} /\ turn \in Message
  /\ chats \in Nat /\ drops \in Nat /\ failures \in Nat /\ resets \in Nat

(* A job in flight has its message in the queue or at the agent: were the  *)
(* message gone, the job would wait for its completion until a reboot.     *)
InflightCarried ==
  \A i \in inflight :
    \/ turn.id = jobs[i].id
    \/ \E m \in DOMAIN queue : queue[m].id = jobs[i].id

TurnsSound == TurnsTypeOK /\ InflightCarried

(* Without a reset a job is handed out once at a time: the message of a    *)
(* job in flight has no twin that would run it again.                      *)
OneMessagePerJob ==
  resets = 0 => \A i \in inflight :
    Cardinality({m \in DOMAIN queue : queue[m].id = jobs[i].id})
      + (IF turn.id = jobs[i].id THEN 1 ELSE 0) = 1

(* Without a reset a job runs with the prompt it has: no tool call changes *)
(* a job that is queued or running.                                        *)
RunsCurrentPrompt ==
  (resets = 0 /\ stage = "run" /\ turn.id # 0) =>
    \A i \in SlotsOf(turn.id) : jobs[i].text = turn.text

(* mp_agent.c:350, "Reset removes saved facts, conversation context, jobs, *)
(* missed-reminder history ...": no turn of a job begins after the reset   *)
(* that removed the job.                                                   *)
ResetRemovesJobs ==
  [][(stage = "ask" /\ stage' = "run" /\ turn.id # 0) => turn.era = resets]_allVars

(* A due job gets its run: it completes, moves on or is deleted, unless    *)
(* its retry lies beyond the end of the modelled time.                     *)
DueJobsRun ==
  \A i \in Slots :
    (i \in Active(jobs) /\ jobs[i].due <= now)
      ~> (i \notin Active(jobs) \/ jobs[i].due > now \/ retry[i] > MaxTime)
=============================================================================
