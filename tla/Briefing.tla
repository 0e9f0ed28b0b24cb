------------------------------ MODULE Briefing ------------------------------
(***************************************************************************)
(* The morning briefing (mp_briefing.c) and the part of the agent it meets *)
(* (mp_agent.c).  The briefing task checks every 30 s whether today's      *)
(* briefing is due, hands it to the agent and waits for a task             *)
(* notification with the result.  A /briefing command changes the setting  *)
(* from the agent task and notifies the same task so that it checks again. *)
(*                                                                         *)
(* A notification is one number: give adds one to it, the agent's result   *)
(* overwrites it, a wait that returns clears it; zero is "none".           *)
(***************************************************************************)
EXTENDS Integers, Sequences

CONSTANTS
  DayLength,   \* time units of a day
  DueTimes,    \* settings of morning_briefing_time
  CatchUp,     \* BRIEFING_CATCHUP_SECONDS
  QueueLength, \* AGENT_QUEUE_LENGTH
  MaxTime,     \* bound: the last moment
  MaxCommands, \* bound: /briefing commands
  MaxFaults,   \* bound: failed runs and failed saves
  MaxReboots   \* bound: reboots

ASSUME BriefingAssumption ==
  /\ DayLength \in Nat \ {0} /\ QueueLength \in Nat \ {0}
  /\ DueTimes # {} /\ DueTimes \subseteq 0..(DayLength - 1)
  /\ {CatchUp, MaxTime, MaxCommands, MaxFaults, MaxReboots} \subseteq Nat

VARIABLES
  now,       \* time(NULL)
  synced,    \* the clock is set
  enabled,   \* morning_briefing_enabled
  dueTime,   \* morning_briefing_time
  store,     \* s_store
  saved,     \* its copy in NVS
  task,      \* where the briefing task is
  today,     \* the day its check works on
  notified,  \* its notification
  queue,     \* s_queue of the agent
  running,   \* the message the agent works on
  ran,       \* how often each day's briefing reached the owner
  disturbed, \* a command notified the task while it waited for a result
  commands, faults, reboots

setting == <<enabled, dueTime>>
agent   == <<queue, running>>
counts  == <<commands, faults, reboots>>
vars    == <<now, synced, setting, store, saved, task, today, notified, agent,
             ran, disturbed, counts>>

Days  == 1..(MaxTime \div DayLength + 1)
Store == [pending : {0} \cup Days, delivered : {0} \cup Days, skipped : {0} \cup Days]
Empty == [pending |-> 0, delivered |-> 0, skipped |-> 0]

Briefed(day) == [kind |-> "briefing", day |-> day, enabled |-> FALSE, due |-> 0]
Command(on, due) == [kind |-> "command", day |-> 0, enabled |-> on, due |-> due]
Nothing == [kind |-> "none", day |-> 0, enabled |-> FALSE, due |-> 0]

Day == now \div DayLength + 1                       \* local_day
Due == (now \div DayLength) * DayLength + dueTime   \* due_time

Init ==
  /\ now = 0 /\ synced = TRUE
  /\ enabled = TRUE /\ dueTime \in DueTimes
  /\ store = Empty /\ saved = Empty
  /\ task = "check" /\ today = 0 /\ notified = 0
  /\ queue = <<>> /\ running = Nothing
  /\ ran = [d \in Days |-> 0] /\ disturbed = FALSE
  /\ commands = 0 /\ faults = 0 /\ reboots = 0

Fault == faults < MaxFaults /\ faults' = faults + 1

\* save_store of the new s_store.
Save(new) ==
  /\ store' = new
  /\ saved' = new /\ UNCHANGED faults

SaveFails(new) == store' = new /\ Fault /\ UNCHANGED saved

----------------------------------------------------------------------------
Tick ==
  /\ now < MaxTime
  /\ now' = now + 1
  /\ UNCHANGED <<synced, setting, store, saved, task, today, notified, agent, ran,
                 disturbed, counts>>

SyncClock ==
  /\ ~synced /\ synced' = TRUE
  /\ UNCHANGED <<now, setting, store, saved, task, today, notified, agent, ran,
                 disturbed, counts>>

\* mp_briefing_init: what is not in NVS is gone.
Reboot ==
  /\ reboots < MaxReboots
  /\ reboots' = reboots + 1
  /\ synced' = FALSE
  /\ store' = saved
  /\ task' = "check" /\ today' = 0 /\ notified' = 0
  /\ queue' = <<>> /\ running' = Nothing
  /\ UNCHANGED <<now, setting, saved, ran, disturbed, commands, faults>>

----------------------------------------------------------------------------
(* The briefing task: briefing_check.                                      *)

Settled == store.delivered = Day \/ store.skipped = Day

CheckNothing ==
  /\ task = "check"
  /\ ~synced \/ ~enabled \/ now < Due \/ Settled
  /\ task' = "sleep"
  /\ UNCHANGED <<now, synced, setting, store, saved, today, notified, agent, ran,
                 disturbed, counts>>

CheckLate ==
  /\ task = "check"
  /\ synced /\ enabled /\ now - Due > CatchUp /\ ~Settled
  /\ LET new == [store EXCEPT !.pending = 0, !.skipped = Day]
     IN  Save(new) \/ SaveFails(new)
  /\ task' = "sleep"
  /\ UNCHANGED <<now, synced, setting, today, notified, agent, ran, disturbed,
                 commands, reboots>>

\* A failed save of a new pending day ends the check; the next one finds the
\* day pending in RAM and goes on.
CheckDue ==
  /\ task = "check"
  /\ synced /\ enabled /\ now >= Due /\ now - Due <= CatchUp /\ ~Settled
  /\ LET new == [store EXCEPT !.pending = Day]
     IN  \/ store.pending = Day /\ task' = "submit" /\ UNCHANGED <<store, saved, faults>>
         \/ store.pending # Day /\ task' = "submit" /\ Save(new)
         \/ store.pending # Day /\ task' = "sleep" /\ SaveFails(new)
  /\ today' = Day
  /\ UNCHANGED <<now, synced, setting, notified, agent, ran, disturbed, commands, reboots>>

\* mp_agent_submit_wait: an old notification is cleared, the message queued.
ClearNotification ==
  /\ task = "submit"
  /\ notified' = 0
  /\ task' = "queue"
  /\ UNCHANGED <<now, synced, setting, store, saved, today, agent, ran, disturbed, counts>>

Submit ==
  /\ task = "queue" /\ Len(queue) < QueueLength
  /\ queue' = Append(queue, Briefed(today))
  /\ task' = "wait"
  /\ UNCHANGED <<now, synced, setting, store, saved, today, notified, running, ran,
                 disturbed, counts>>

Result ==
  /\ task = "wait" /\ notified # 0
  /\ task' = IF notified = 1 THEN "deliver" ELSE "sleep"
  /\ notified' = 0
  /\ UNCHANGED <<now, synced, setting, store, saved, today, agent, ran, disturbed, counts>>

\* Mutant: the day is read again after the wait.
DeliverNow ==
  /\ task = "deliver"
  /\ Save([store EXCEPT !.pending = 0, !.delivered = Day])
  /\ task' = "sleep"
  /\ UNCHANGED <<now, synced, setting, today, notified, agent, ran, disturbed,
                 commands, reboots>>

\* Mutant: the delivered day is not recorded.
DeliverForgotten ==
  /\ task = "deliver"
  /\ Save([store EXCEPT !.pending = 0])
  /\ task' = "sleep"
  /\ UNCHANGED <<now, synced, setting, today, notified, agent, ran, disturbed,
                 commands, reboots>>

Deliver ==
  /\ task = "deliver"
  /\ LET new == [store EXCEPT !.pending = 0, !.delivered = today]
     IN  Save(new) \/ SaveFails(new)
  /\ task' = "sleep"
  /\ UNCHANGED <<now, synced, setting, today, notified, agent, ran, disturbed,
                 commands, reboots>>

\* ulTaskNotifyTake: a notification or 30 s later.
Wake ==
  /\ task = "sleep"
  /\ notified' = 0
  /\ task' = "check"
  /\ UNCHANGED <<now, synced, setting, store, saved, today, agent, ran, disturbed, counts>>

Check == CheckNothing \/ CheckLate \/ CheckDue
BriefingTask == Check \/ ClearNotification \/ Submit \/ Result \/ Deliver \/ Wake

----------------------------------------------------------------------------
(* The agent task.                                                         *)

\* submit_message: a command goes to the front of the queue.
OwnerCommand(on, due) ==
  /\ commands < MaxCommands /\ Len(queue) < QueueLength
  /\ commands' = commands + 1
  /\ queue' = <<Command(on, due)>> \o queue
  /\ UNCHANGED <<now, synced, setting, store, saved, task, today, notified, running,
                 ran, disturbed, faults, reboots>>

Receive ==
  /\ running = Nothing /\ queue # <<>>
  /\ running' = Head(queue)
  /\ queue' = Tail(queue)
  /\ UNCHANGED <<now, synced, setting, store, saved, task, today, notified, ran,
                 disturbed, counts>>

\* mp_briefing_set_enabled and mp_briefing_set_time.
RunCommand ==
  /\ running.kind = "command"
  /\ enabled' = running.enabled /\ dueTime' = running.due
  /\ notified' = notified + 1
  /\ disturbed' = (disturbed \/ task \in {"queue", "wait"})
  /\ running' = Nothing
  /\ UNCHANGED <<now, synced, store, saved, task, today, queue, ran, counts>>

\* Mutant: only a good result is reported.
RunBriefingSilent ==
  /\ running.kind = "briefing"
  /\ \/ /\ ran' = [ran EXCEPT ![running.day] = @ + 1]
        /\ notified' = 1 /\ UNCHANGED faults
     \/ Fault /\ UNCHANGED <<ran, notified>>
  /\ running' = Nothing
  /\ UNCHANGED <<now, synced, setting, store, saved, task, today, queue, disturbed,
                 commands, reboots>>

\* process_message and the notification of the waiter, which overwrites.
RunBriefing ==
  /\ running.kind = "briefing"
  /\ \/ /\ ran' = [ran EXCEPT ![running.day] = @ + 1]
        /\ notified' = 1 /\ UNCHANGED faults
     \/ /\ notified' = 2 /\ Fault
        /\ UNCHANGED ran
  /\ running' = Nothing
  /\ UNCHANGED <<now, synced, setting, store, saved, task, today, queue, disturbed,
                 commands, reboots>>

AgentTask == Receive \/ RunCommand \/ RunBriefing

Next ==
  \/ Tick \/ SyncClock \/ Reboot
  \/ BriefingTask \/ AgentTask
  \/ \E on \in BOOLEAN, due \in DueTimes : OwnerCommand(on, due)

Spec == Init /\ [][Next]_vars

\* Both tasks run and the clock is set after a boot.
FairSpec == Spec /\ WF_vars(BriefingTask) /\ WF_vars(AgentTask) /\ WF_vars(SyncClock)

----------------------------------------------------------------------------
TypeOK ==
  /\ now \in 0..MaxTime /\ synced \in BOOLEAN
  /\ enabled \in BOOLEAN /\ dueTime \in DueTimes
  /\ store \in Store /\ saved \in Store /\ today \in {0} \cup Days
  /\ task \in {"check", "submit", "queue", "wait", "deliver", "sleep"}
  /\ notified \in Nat /\ Len(queue) <= QueueLength
  /\ ran \in [Days -> Nat] /\ disturbed \in BOOLEAN
  /\ {commands, faults, reboots} \subseteq Nat

(* While no command interferes with a wait, a day stored as delivered had  *)
(* its briefing, also after a wait across midnight, failures and reboots.  *)
DeliveredUndisturbed ==
  ~disturbed =>
    \A d \in Days : (store.delivered = d \/ saved.delivered = d) => ran[d] > 0

(* While no command interferes with a wait, the agent never holds two      *)
(* briefings, and holds one only while the task waits for it.              *)
OneAtATime ==
  ~disturbed =>
    /\ \A j, k \in DOMAIN queue :
         queue[j].kind = "briefing" /\ queue[k].kind = "briefing" => j = k
    /\ running.kind = "briefing" =>
         \A k \in DOMAIN queue : queue[k].kind # "briefing"
    /\ (running.kind = "briefing" \/ \E k \in DOMAIN queue : queue[k].kind = "briefing") =>
         task = "wait"

(* Without reboots, and while no command interferes with a wait, a day's   *)
(* briefing reaches the owner at most once and never on a day recorded as  *)
(* skipped, whichever runs and saves fail.                                 *)
OncePerDay ==
  (~disturbed /\ reboots = 0) =>
    \A d \in Days : ran[d] <= 1 /\ (store.skipped = d => ran[d] = 0)

(* The types, what the agent holds, and what a day gets: no more than one  *)
(* briefing, and no less when it is stored as delivered.                   *)
BriefingsSound == TypeOK /\ OneAtATime /\ OncePerDay /\ DeliveredUndisturbed

(* A day on which the briefing is due is settled: delivered, skipped, or   *)
(* over, or the owner has switched the briefing off or moved it.           *)
DaysSettled ==
  \A d \in Days :
    (Day = d /\ enabled /\ now >= Due)
      ~> (store.delivered = d \/ store.skipped = d \/ Day # d \/ ~enabled \/ now < Due)

(* docs/CONFIG.md:93, "The morning briefing runs once per local day": a    *)
(* day stored as delivered, which is not tried again, had its briefing or  *)
(* will have it from a message that succeeds.                              *)
DeliveredDaysRan ==
  \A d \in Days :
    store.delivered = d =>
      \/ ran[d] > 0
      \/ running = Briefed(d)
      \/ \E k \in DOMAIN queue : queue[k] = Briefed(d)
=============================================================================
