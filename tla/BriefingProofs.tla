--------------------------- MODULE BriefingProofs ---------------------------
(***************************************************************************)
(* Theorems about the morning briefing: while no command interferes with a *)
(* wait, the agent holds at most one briefing, a day stored as delivered   *)
(* had its briefing, and without reboots no day has two, for any length of *)
(* day, queue and catch-up time, and any number of commands and failures.  *)
(***************************************************************************)
EXTENDS Briefing, TLAPS

(***************************************************************************)
(* Types, with what the agent's messages are made of.                      *)
(***************************************************************************)
Message ==
  [kind : {"briefing"}, day : Days, enabled : {FALSE}, due : {0}]
  \cup [kind : {"command"}, day : {0}, enabled : BOOLEAN, due : DueTimes]

Busy == {"submit", "queue", "wait", "deliver"}

TypesInv ==
  /\ TypeOK
  /\ queue \in Seq(Message) /\ running \in Message \cup {Nothing}
  /\ task \in Busy => today \in Days

(***************************************************************************)
(* The agent's side of a wait.                                             *)
(***************************************************************************)
IsBriefing(m) == m.kind = "briefing"

InQueue == \E k \in DOMAIN queue : IsBriefing(queue[k])
Held    == IsBriefing(running) \/ InQueue

OneBriefing ==
  /\ \A j, k \in DOMAIN queue : IsBriefing(queue[j]) /\ IsBriefing(queue[k]) => j = k
  /\ IsBriefing(running) => ~InQueue

DeliveredRan ==
  \A d \in Days : (store.delivered = d \/ saved.delivered = d) => ran[d] > 0

Waits ==
  /\ OneBriefing
  /\ Held => task = "wait" /\ notified = 0
  /\ IsBriefing(running) => running.day = today
  /\ \A k \in DOMAIN queue : IsBriefing(queue[k]) => queue[k].day = today
  /\ task = "queue" => notified = 0
  /\ task = "deliver" \/ (task = "wait" /\ notified = 1) => ran[today] > 0
  /\ DeliveredRan

WaitInv == ~disturbed => Waits

(***************************************************************************)
(* Days.  A day that had its briefing is behind what is stored, or is the  *)
(* one whose result the task has still to store.                           *)
(***************************************************************************)
Behind(d) ==
  \/ d <= store.delivered
  \/ d = today /\ (task = "deliver" \/ (task = "wait" /\ notified = 1))

Once ==
  /\ \A d \in Days : ran[d] <= 1 /\ (ran[d] > 0 => d <= Day /\ Behind(d))
  /\ \A d \in Days : store.skipped = d => ran[d] = 0
  /\ store.delivered <= Day /\ today <= Day
  /\ task \in Busy => store.delivered < today
  /\ task \in Busy \ {"deliver"} => store.skipped # today
  /\ task \in {"submit", "queue"} \/ (task = "wait" /\ notified = 0) => ran[today] = 0

OnceInv == ~disturbed /\ reboots = 0 => Once

BriefingInv == TypesInv /\ WaitInv /\ OnceInv
----------------------------------------------------------------------------
LEMMA StepsOfNext ==
  ASSUME [Next]_vars
  PROVE  \/ Tick \/ SyncClock \/ Reboot
         \/ CheckNothing \/ CheckLate \/ CheckDue
         \/ ClearNotification \/ Submit \/ Result \/ Deliver \/ Wake
         \/ Receive \/ RunCommand \/ RunBriefing
         \/ \E on \in BOOLEAN, due \in DueTimes : OwnerCommand(on, due)
         \/ UNCHANGED vars
BY DEF Next, BriefingTask, Check, AgentTask

LEMMA DivKeepsOrder ==
  ASSUME NEW n \in Nat \ {0}, NEW a \in Nat, NEW b \in Nat, a <= b
  PROVE  a \div n <= b \div n /\ a \div n \in Nat
OBVIOUS

LEMMA DayTyped ==
  ASSUME now \in 0..MaxTime
  PROVE  Day \in Days /\ Day \in Nat
<1>1. MaxTime \in Nat /\ DayLength \in Nat \ {0} /\ now \in Nat /\ now <= MaxTime
  BY BriefingAssumption
<1>2. /\ now \div DayLength <= MaxTime \div DayLength /\ now \div DayLength \in Nat
      /\ MaxTime \div DayLength \in Nat
  BY <1>1, DivKeepsOrder
<1> QED BY <1>2 DEF Day, Days

LEMMA DaysAreNumbers == Days \subseteq Nat \ {0}
<1>1. MaxTime \div DayLength \in Nat
  BY BriefingAssumption, DivKeepsOrder
<1> QED BY <1>1 DEF Days

LEMMA MessageTyped ==
  /\ \A d \in Days : Briefed(d) \in Message
  /\ \A on \in BOOLEAN, due \in DueTimes : Command(on, due) \in Message
BY DEF Message, Briefed, Command

LEMMA MessageParts ==
  ASSUME NEW m \in Message \cup {Nothing}
  PROVE  /\ m.kind = "briefing" => m.day \in Days
         /\ m.kind = "command" => m.enabled \in BOOLEAN /\ m.due \in DueTimes
<1>1. CASE m \in [kind : {"briefing"}, day : Days, enabled : {FALSE}, due : {0}]
  BY <1>1
<1>2. CASE m \in [kind : {"command"}, day : {0}, enabled : BOOLEAN, due : DueTimes]
  <2>1. m.enabled \in BOOLEAN /\ m.due \in DueTimes
    BY <1>2, Zenon
  <2> QED BY <1>2, <2>1
<1>3. CASE m = Nothing
  BY <1>3 DEF Nothing
<1> QED BY <1>1, <1>2, <1>3 DEF Message

LEMMA HeadTail ==
  ASSUME NEW R, NEW s \in Seq(R), s # <<>>
  PROVE  /\ Head(s) \in R /\ Tail(s) \in Seq(R) /\ Len(Tail(s)) = Len(s) - 1
         /\ Head(s) = s[1] /\ 1 \in DOMAIN s
         /\ \A k \in DOMAIN Tail(s) : k + 1 \in DOMAIN s /\ k # 0 /\ Tail(s)[k] = s[k + 1]
OBVIOUS

(***************************************************************************)
(* Types.                                                                  *)
(***************************************************************************)
LEMMA TypesStep ==
  ASSUME TypesInv, [Next]_vars
  PROVE  TypesInv'
<1> USE BriefingAssumption
<1>0. /\ now \in 0..MaxTime /\ Day \in Days
      /\ queue \in Seq(Message) /\ running \in Message \cup {Nothing}
      /\ store \in Store /\ saved \in Store /\ notified \in Nat
      /\ ran \in [Days -> Nat] /\ commands \in Nat /\ faults \in Nat /\ reboots \in Nat
      /\ Len(queue) <= QueueLength
      /\ task \in {"check", "submit", "queue", "wait", "deliver", "sleep"}
  BY DayTyped DEF TypesInv, TypeOK
<1>b. synced \in BOOLEAN /\ enabled \in BOOLEAN /\ disturbed \in BOOLEAN /\ dueTime \in DueTimes
  BY Zenon DEF TypesInv, TypeOK
<1>s. \A d \in Days :
        /\ [store EXCEPT !.pending = d] \in Store
        /\ [store EXCEPT !.pending = 0, !.delivered = d] \in Store
        /\ [store EXCEPT !.pending = 0, !.skipped = d] \in Store
  BY <1>0 DEF Store
<1>1. ASSUME Tick
      PROVE  TypesInv'
  BY <1>1 DEF Tick, TypesInv, TypeOK, setting, agent, counts
<1>2. ASSUME SyncClock
      PROVE  TypesInv'
  BY <1>2 DEF SyncClock, TypesInv, TypeOK, setting, agent, counts
<1>3. ASSUME Reboot
      PROVE  TypesInv'
  <2>1. queue' \in Seq(Message) /\ Len(queue') <= QueueLength /\ store' \in Store
    BY <1>0, <1>3 DEF Reboot
  <2>2. today' \in {0} \cup Days /\ notified' \in Nat /\ reboots' \in Nat /\ task' \notin Busy
    BY <1>0, <1>3 DEF Reboot, Busy
  <2>3. synced' \in BOOLEAN
    BY <1>3, Zenon DEF Reboot
  <2> QED BY <1>0, <1>b, <1>3, <2>1, <2>2, <2>3 DEF Reboot, TypesInv, TypeOK, setting
<1>4. ASSUME CheckNothing
      PROVE  TypesInv'
  BY <1>4 DEF CheckNothing, TypesInv, TypeOK, setting, agent, counts, Busy
<1>5. ASSUME CheckLate
      PROVE  TypesInv'
  <2>1. store' \in Store /\ saved' \in Store /\ faults' \in Nat
    <3> DEFINE new == [store EXCEPT !.pending = 0, !.skipped = Day]
    <3>1. new \in Store
      BY <1>0, <1>s
    <3>2. store' = new /\ saved' \in {new, saved} /\ faults' \in {faults, faults + 1}
      BY <1>5, Zenon DEF CheckLate, Save, SaveFails, Fault
    <3> QED BY <1>0, <3>1, <3>2
  <2> QED BY <1>5, <2>1 DEF CheckLate, TypesInv, TypeOK, setting, agent, Busy
<1>6. ASSUME CheckDue
      PROVE  TypesInv'
  <2>1. store' \in Store /\ saved' \in Store /\ faults' \in Nat
    <3> DEFINE new == [store EXCEPT !.pending = Day]
    <3>1. new \in Store
      BY <1>0, <1>s
    <3>2. store' \in {store, new} /\ saved' \in {new, saved} /\ faults' \in {faults, faults + 1}
      BY <1>6 DEF CheckDue, Save, SaveFails, Fault
    <3> HIDE DEF new
    <3> QED BY <1>0, <3>1, <3>2
  <2>2. today' \in Days /\ task' \in {"submit", "sleep"}
    BY <1>0, <1>6 DEF CheckDue
  <2> QED BY <1>6, <2>1, <2>2 DEF CheckDue, TypesInv, TypeOK, setting, agent
<1>7. ASSUME ClearNotification \/ Wake
      PROVE  TypesInv'
  BY <1>7 DEF ClearNotification, Wake, TypesInv, TypeOK, setting, agent, counts, Busy
<1>8. ASSUME Submit
      PROVE  TypesInv'
  <2>1. today \in Days /\ Briefed(today) \in Message
    BY <1>8, MessageTyped DEF Submit, TypesInv, Busy
  <2>2. queue' \in Seq(Message) /\ Len(queue') <= QueueLength
    BY <1>0, <1>8, <2>1 DEF Submit
  <2> QED BY <1>8, <2>1, <2>2 DEF Submit, TypesInv, TypeOK, setting, counts
<1>9. ASSUME Result
      PROVE  TypesInv'
  BY <1>9 DEF Result, TypesInv, TypeOK, setting, agent, counts, Busy
<1>10. ASSUME Deliver
       PROVE  TypesInv'
  <2>1. today \in Days
    BY <1>10 DEF Deliver, TypesInv, Busy
  <2>2. store' \in Store /\ saved' \in Store /\ faults' \in Nat
    <3> DEFINE new == [store EXCEPT !.pending = 0, !.delivered = today]
    <3>1. new \in Store
      BY <1>0, <1>s, <2>1
    <3>2. store' = new /\ saved' \in {new, saved} /\ faults' \in {faults, faults + 1}
      BY <1>10, Zenon DEF Deliver, Save, SaveFails, Fault
    <3> QED BY <1>0, <3>1, <3>2
  <2> QED BY <1>10, <2>2 DEF Deliver, TypesInv, TypeOK, setting, agent, Busy
<1>11. ASSUME NEW on \in BOOLEAN, NEW due \in DueTimes, OwnerCommand(on, due)
       PROVE  TypesInv'
  <2>1. Command(on, due) \in Message
    BY MessageTyped
  <2>2. queue' \in Seq(Message) /\ Len(queue') <= QueueLength
    BY <1>0, <1>11, <2>1 DEF OwnerCommand
  <2> QED BY <1>11, <2>2 DEF OwnerCommand, TypesInv, TypeOK, setting
<1>12. ASSUME Receive
       PROVE  TypesInv'
  <2>1. queue' \in Seq(Message) /\ Len(queue') <= QueueLength /\ running' \in Message
    BY <1>0, <1>12, HeadTail DEF Receive
  <2> QED BY <1>12, <2>1 DEF Receive, TypesInv, TypeOK, setting, counts
<1>13. ASSUME RunCommand
       PROVE  TypesInv'
  <2>1. running.enabled \in BOOLEAN /\ running.due \in DueTimes
    BY <1>0, <1>13, MessageParts, Zenon DEF RunCommand
  <2>2. enabled' \in BOOLEAN /\ disturbed' \in BOOLEAN
    BY <1>13, <2>1, Zenon DEF RunCommand
  <2> QED BY <1>0, <1>13, <2>1, <2>2 DEF RunCommand, TypesInv, TypeOK, counts
<1>14. ASSUME RunBriefing
       PROVE  TypesInv'
  <2>1. running.day \in Days
    BY <1>0, <1>14, MessageParts, Zenon DEF RunBriefing
  <2>2. ran' \in [Days -> Nat] /\ notified' \in Nat /\ faults' \in Nat
    <3>1. /\ ran' \in {ran, [ran EXCEPT ![running.day] = @ + 1]} /\ notified' \in {1, 2}
          /\ faults' \in {faults, faults + 1}
      BY <1>14, Zenon DEF RunBriefing, Fault
    <3> QED BY <1>0, <2>1, <3>1
  <2> QED BY <1>14, <2>2 DEF RunBriefing, TypesInv, TypeOK, setting
<1>15. ASSUME UNCHANGED vars
       PROVE  TypesInv'
  BY <1>15 DEF vars, setting, agent, counts, TypesInv, TypeOK
<1> QED BY <1>1, <1>2, <1>3, <1>4, <1>5, <1>6, <1>7, <1>8, <1>9, <1>10, <1>11, <1>12, <1>13, <1>14,
           <1>15, StepsOfNext

LEMMA BriefingInit ==
  ASSUME Init
  PROVE  BriefingInv
<1> USE BriefingAssumption
<1>1. /\ queue \in Seq(Message) /\ Len(queue) = 0 /\ DOMAIN queue = {} /\ ran \in [Days -> Nat]
      /\ store \in Store /\ saved \in Store /\ ~IsBriefing(running)
  BY DEF Init, Store, Empty, IsBriefing, Nothing
<1>2. TypesInv
  <2>1. now \in 0..MaxTime /\ Len(queue) <= QueueLength /\ {commands, faults, reboots} \subseteq Nat
    BY <1>1 DEF Init
  <2> QED BY <1>1, <2>1, Zenon DEF Init, TypesInv, TypeOK, Busy
<1>3. WaitInv
  BY <1>1, DaysAreNumbers DEF Init, WaitInv, Waits, OneBriefing, Held, InQueue, IsBriefing, DeliveredRan,
                               Empty
<1>4. Day \in Nat
  BY <1>2, DayTyped DEF TypesInv, TypeOK
<1>5. OnceInv
  BY <1>1, <1>4, DaysAreNumbers DEF Init, OnceInv, Once, Busy, Empty
<1> QED BY <1>2, <1>3, <1>5 DEF BriefingInv

(***************************************************************************)
(* The wait.                                                               *)
(***************************************************************************)
LEMMA WaitStep ==
  ASSUME BriefingInv, TypesInv', [Next]_vars
  PROVE  WaitInv'
<1> SUFFICES ASSUME ~disturbed'
             PROVE  Waits'
  BY DEF WaitInv
<1> USE BriefingAssumption
<1>0. /\ queue \in Seq(Message) /\ running \in Message \cup {Nothing}
      /\ store \in Store /\ saved \in Store /\ notified \in Nat /\ ran \in [Days -> Nat]
      /\ task \in Busy => today \in Days
      /\ task \in {"check", "submit", "queue", "wait", "deliver", "sleep"}
      /\ queue' \in Seq(Message)
  BY DEF BriefingInv, TypesInv, TypeOK
<1>w. ~disturbed => Waits
  BY DEF BriefingInv, WaitInv
<1>q. ASSUME UNCHANGED <<queue, running, ran, store, saved>>, ~disturbed,
             Held => task' = "wait" /\ notified' = 0 /\ today' = today,
             task' = "queue" => notified' = 0,
             task' = "deliver" \/ (task' = "wait" /\ notified' = 1) => ran[today'] > 0
      PROVE  Waits'
  <2>1. (Held' <=> Held) /\ (InQueue' <=> InQueue) /\ Waits
    BY <1>q, <1>w DEF Held, InQueue
  <2> QED BY <1>q, <2>1 DEF Waits, OneBriefing, DeliveredRan, Held, InQueue, IsBriefing
<1>1. ASSUME Tick \/ SyncClock \/ UNCHANGED vars
      PROVE  Waits'
  <2>1. UNCHANGED <<queue, running, ran, store, saved, disturbed, task, notified, today>>
    BY <1>1 DEF Tick, SyncClock, vars, setting, agent, counts
  <2> QED BY <2>1, <1>w, <1>q DEF Waits
<1>2. ASSUME Reboot
      PROVE  Waits'
  <2>1. /\ queue' = <<>> /\ running' = Nothing /\ task' = "check" /\ store' = saved
        /\ UNCHANGED <<saved, ran>> /\ ~disturbed
    BY <1>2 DEF Reboot
  <2>2. DOMAIN queue' = {} /\ ~IsBriefing(running')
    BY <2>1 DEF IsBriefing, Nothing
  <2>3. DeliveredRan'
    BY <2>1, <1>w DEF Waits, DeliveredRan
  <2>4. ~InQueue' /\ ~Held'
    BY <2>2 DEF InQueue, Held
  <2> QED BY <2>1, <2>2, <2>3, <2>4 DEF Waits, OneBriefing, IsBriefing
<1>3. ASSUME CheckNothing \/ CheckLate \/ CheckDue
      PROVE  Waits'
  <2>1. /\ UNCHANGED <<queue, running, ran, disturbed>> /\ task = "check"
        /\ task' \in {"sleep", "submit"}
    BY <1>3 DEF CheckNothing, CheckLate, CheckDue, agent
  <2>2. /\ store'.delivered = store.delivered
        /\ saved'.delivered \in {store.delivered, saved.delivered}
    <3>1. CASE CheckNothing
      BY <3>1 DEF CheckNothing
    <3>2. CASE CheckLate
      <4>1. store' = [store EXCEPT !.pending = 0, !.skipped = Day] /\ saved' \in {store', saved}
        BY <3>2, Zenon DEF CheckLate, Save, SaveFails
      <4> QED BY <1>0, <4>1 DEF Store
    <3>3. CASE CheckDue
      <4>1. store' \in {store, [store EXCEPT !.pending = Day]} /\ saved' \in {store', saved}
        BY <3>3 DEF CheckDue, Save, SaveFails
      <4> QED BY <1>0, <4>1 DEF Store
    <3> QED BY <1>3, <3>1, <3>2, <3>3
  <2>3. ~disturbed /\ Waits /\ ~Held /\ (Held' <=> Held) /\ (InQueue' <=> InQueue)
    BY <2>1, <1>w DEF Waits, Held, InQueue
  <2>4. DeliveredRan'
    BY <2>1, <2>2, <2>3 DEF Waits, DeliveredRan
  <2> QED BY <2>1, <2>3, <2>4 DEF Waits, OneBriefing, Held, InQueue, IsBriefing
<1>4. ASSUME ClearNotification
      PROVE  Waits'
  <2>1. /\ UNCHANGED <<queue, running, ran, store, saved, today, disturbed>> /\ notified' = 0
        /\ task = "submit" /\ task' = "queue"
    BY <1>4 DEF ClearNotification, agent
  <2> QED BY <2>1, <1>w, <1>q DEF Waits
<1>5. ASSUME Submit
      PROVE  Waits'
  <2>1. /\ UNCHANGED <<running, ran, store, saved, today, notified, disturbed>>
        /\ queue' = Append(queue, Briefed(today)) /\ task = "queue" /\ task' = "wait"
    BY <1>5 DEF Submit
  <2>2. Waits /\ ~Held /\ notified = 0
    BY <2>1, <1>w DEF Waits
  <2>3. /\ DOMAIN queue' = 1..(Len(queue) + 1) /\ DOMAIN queue = 1..Len(queue) /\ Len(queue) \in Nat
        /\ queue'[Len(queue) + 1] = Briefed(today)
        /\ \A k \in DOMAIN queue : queue'[k] = queue[k]
    BY <1>0, <2>1
  <2>4. \A k \in DOMAIN queue' : IsBriefing(queue'[k]) <=> k = Len(queue) + 1
    BY <2>2, <2>3 DEF Held, InQueue, IsBriefing, Briefed
  <2>5. OneBriefing'
    BY <2>1, <2>2, <2>4 DEF OneBriefing, Held, IsBriefing
  <2>6. \A k \in DOMAIN queue' : IsBriefing(queue'[k]) => queue'[k].day = today
    BY <2>3, <2>4 DEF Briefed
  <2>7. DeliveredRan'
    BY <2>1, <2>2 DEF Waits, DeliveredRan
  <2> QED BY <2>1, <2>2, <2>5, <2>6, <2>7 DEF Waits, Held, IsBriefing
<1>6. ASSUME Result \/ Wake
      PROVE  Waits'
  <2>1. /\ UNCHANGED <<queue, running, ran, store, saved, today, disturbed>>
        /\ task' \in {"deliver", "sleep", "check"} /\ (task' = "deliver" => task = "wait" /\ notified = 1)
        /\ task = "sleep" \/ notified # 0
    BY <1>6 DEF Result, Wake, agent
  <2> QED BY <2>1, <1>w, <1>q DEF Waits
<1>7. ASSUME Deliver
      PROVE  Waits'
  <2>1. /\ UNCHANGED <<queue, running, ran, today, disturbed, notified>>
        /\ store' = [store EXCEPT !.pending = 0, !.delivered = today]
        /\ saved' \in {store', saved} /\ task = "deliver" /\ task' = "sleep"
    BY <1>7 DEF Deliver, Save, SaveFails, agent
  <2>2. Waits /\ ~Held /\ ran[today] > 0 /\ (Held' <=> Held) /\ (InQueue' <=> InQueue)
    BY <2>1, <1>w DEF Waits, Held, InQueue
  <2>3. store'.delivered = today /\ saved'.delivered \in {today, saved.delivered}
    BY <1>0, <2>1 DEF Store
  <2>4. DeliveredRan'
    BY <2>1, <2>2, <2>3 DEF Waits, DeliveredRan
  <2> QED BY <2>1, <2>2, <2>4 DEF Waits, OneBriefing, Held, InQueue, IsBriefing
<1>8. ASSUME NEW on \in BOOLEAN, NEW due \in DueTimes, OwnerCommand(on, due)
      PROVE  Waits'
  <2>1. /\ UNCHANGED <<running, ran, store, saved, today, notified, disturbed, task>>
        /\ queue' = <<Command(on, due)>> \o queue
    BY <1>8 DEF OwnerCommand
  <2>2. Waits
    BY <2>1, <1>w
  <2>3. /\ DOMAIN queue' = 1..(Len(queue) + 1) /\ DOMAIN queue = 1..Len(queue) /\ Len(queue) \in Nat
        /\ queue'[1] = Command(on, due)
        /\ \A k \in DOMAIN queue' : k # 1 => k - 1 \in DOMAIN queue /\ queue'[k] = queue[k - 1]
        /\ \A k \in DOMAIN queue : k + 1 \in DOMAIN queue' /\ queue'[k + 1] = queue[k]
    BY <1>0, <2>1, MessageTyped
  <2>4. ~IsBriefing(queue'[1])
    BY <2>3 DEF IsBriefing, Command
  <2>5. InQueue' <=> InQueue
    BY <2>3, <2>4 DEF InQueue
  <2>6. OneBriefing'
    <3>1. ASSUME NEW j \in DOMAIN queue', NEW k \in DOMAIN queue',
                 IsBriefing(queue'[j]), IsBriefing(queue'[k])
          PROVE  j = k
      <4>1. j # 1 /\ k # 1 /\ j \in Int /\ k \in Int
        BY <2>3, <2>4, <3>1
      <4>2. /\ j - 1 \in DOMAIN queue /\ IsBriefing(queue[j - 1])
            /\ k - 1 \in DOMAIN queue /\ IsBriefing(queue[k - 1])
        BY <2>3, <3>1, <4>1
      <4>3. j - 1 = k - 1
        BY <2>2, <4>2 DEF Waits, OneBriefing
      <4> QED BY <4>1, <4>3
    <3>2. IsBriefing(running') => ~InQueue'
      BY <2>1, <2>2, <2>5 DEF Waits, OneBriefing
    <3> QED BY <3>1, <3>2 DEF OneBriefing, IsBriefing
  <2>7. \A k \in DOMAIN queue' : IsBriefing(queue'[k]) => queue'[k].day = today
    BY <2>2, <2>3, <2>4 DEF Waits
  <2>8. DeliveredRan'
    BY <2>1, <2>2 DEF Waits, DeliveredRan
  <2> QED BY <2>1, <2>2, <2>5, <2>6, <2>7, <2>8 DEF Waits, Held, IsBriefing
<1>9. ASSUME Receive
      PROVE  Waits'
  <2>1. /\ UNCHANGED <<ran, store, saved, today, notified, disturbed, task>>
        /\ queue' = Tail(queue) /\ running = Nothing /\ running' = Head(queue) /\ queue # <<>>
    BY <1>9 DEF Receive
  <2>2. Waits
    BY <2>1, <1>w
  <2>3. /\ running' = queue[1] /\ 1 \in DOMAIN queue
        /\ \A k \in DOMAIN queue' : k + 1 \in DOMAIN queue /\ k # 0 /\ queue'[k] = queue[k + 1]
    BY <1>0, <2>1, HeadTail
  <2>4. DOMAIN queue' \subseteq Nat
    BY <1>0
  <2>5. Held' => Held
    BY <2>3 DEF Held, InQueue
  <2>6. OneBriefing'
    <3>1. \A j, k \in DOMAIN queue' : IsBriefing(queue'[j]) /\ IsBriefing(queue'[k]) => j = k
      BY <2>2, <2>3, <2>4 DEF Waits, OneBriefing
    <3>2. IsBriefing(running') => ~InQueue'
      BY <2>2, <2>3, <2>4 DEF Waits, OneBriefing, InQueue
    <3> QED BY <3>1, <3>2 DEF OneBriefing, IsBriefing
  <2>7. /\ \A k \in DOMAIN queue' : IsBriefing(queue'[k]) => queue'[k].day = today
        /\ IsBriefing(running') => running'.day = today
    BY <2>2, <2>3 DEF Waits
  <2>8. DeliveredRan'
    BY <2>1, <2>2 DEF Waits, DeliveredRan
  <2> QED BY <2>1, <2>2, <2>5, <2>6, <2>7, <2>8 DEF Waits, IsBriefing
<1>10. ASSUME RunCommand
       PROVE  Waits'
  <2>1. /\ UNCHANGED <<queue, ran, store, saved, today, task>> /\ running' = Nothing
        /\ ~disturbed /\ task \notin {"queue", "wait"} /\ running.kind = "command"
    BY <1>10 DEF RunCommand
  <2>2. Waits /\ ~Held /\ (InQueue' <=> InQueue) /\ ~IsBriefing(running')
    BY <2>1, <1>w DEF Waits, InQueue, IsBriefing, Nothing
  <2>3. ~Held'
    BY <2>2 DEF Held
  <2>4. DeliveredRan'
    BY <2>1, <2>2 DEF Waits, DeliveredRan
  <2> QED BY <2>1, <2>2, <2>3, <2>4 DEF Waits, OneBriefing, InQueue, IsBriefing
<1>11. ASSUME RunBriefing
       PROVE  Waits'
  <2>1. /\ UNCHANGED <<queue, store, saved, today, task, disturbed>> /\ running' = Nothing
        /\ running.kind = "briefing"
        /\ \/ ran' = [ran EXCEPT ![running.day] = @ + 1] /\ notified' = 1
           \/ ran' = ran /\ notified' = 2
    BY <1>11 DEF RunBriefing
  <2>2. Waits /\ Held /\ task = "wait" /\ running.day = today /\ ~InQueue /\ today \in Days
    BY <1>0, <2>1, <1>w DEF Waits, OneBriefing, Held, IsBriefing, Busy
  <2>3. ~InQueue' /\ ~IsBriefing(running') /\ ~Held'
    BY <2>1, <2>2 DEF InQueue, Held, IsBriefing, Nothing
  <2>4. /\ \A d \in Days : ran'[d] >= ran[d]
        /\ notified' = 1 => ran'[today] > 0
    BY <1>0, <2>1, <2>2
  <2>5. DeliveredRan'
    BY <1>0, <2>1, <2>2, <2>4, DaysAreNumbers DEF Waits, DeliveredRan
  <2> QED BY <2>1, <2>2, <2>3, <2>4, <2>5 DEF Waits, OneBriefing, InQueue, IsBriefing
<1> QED BY <1>1, <1>2, <1>3, <1>4, <1>5, <1>6, <1>7, <1>8, <1>9, <1>10, <1>11, StepsOfNext

(***************************************************************************)
(* The days.                                                               *)
(***************************************************************************)
AwaitsResult == task \in {"submit", "queue"} \/ (task = "wait" /\ notified = 0)
HasResult    == task = "deliver" \/ (task = "wait" /\ notified = 1)

LEMMA OnceStep ==
  ASSUME BriefingInv, TypesInv', [Next]_vars
  PROVE  OnceInv'
<1> SUFFICES ASSUME ~disturbed', reboots' = 0
             PROVE  Once'
  BY DEF OnceInv
<1> USE BriefingAssumption
<1>0. /\ running \in Message \cup {Nothing} /\ store \in Store /\ notified \in Nat
      /\ ran \in [Days -> Nat] /\ today \in {0} \cup Days /\ reboots \in Nat
      /\ task \in Busy => today \in Days
      /\ now \in 0..MaxTime /\ now' \in 0..MaxTime
  BY DEF BriefingInv, TypesInv, TypeOK
<1>n. /\ now \in Nat /\ now' \in Nat /\ Day \in Days /\ Day \in Nat /\ Days \subseteq Nat \ {0}
      /\ Day' \in Nat /\ store.delivered \in Nat /\ today \in Nat
  <2>1. now \in Nat /\ now' \in Nat
    BY <1>0
  <2>2. Day \in Days /\ Day \in Nat /\ Days \subseteq Nat \ {0}
    BY <1>0, DayTyped, DaysAreNumbers
  <2>3. Day' \in Nat
    <3>1. DayLength \in Nat \ {0} /\ now' <= now'
      BY <2>1
    <3>2. now' \div DayLength \in Nat
      BY <2>1, <3>1, DivKeepsOrder
    <3> QED BY <3>2 DEF Day
  <2>4. store.delivered \in {0} \cup Days
    BY <1>0 DEF Store
  <2>5. store.delivered \in Nat
    <3> HIDE BriefingAssumption
    <3>1. \A d \in {0} \cup Days : d \in Nat
      BY <2>2
    <3> QED BY <2>4, <3>1, Zenon
  <2>6. today \in Nat
    BY <1>0, <2>2
  <2> QED BY <2>1, <2>2, <2>3, <2>5, <2>6
<1>w. ~disturbed => Waits
  BY DEF BriefingInv, WaitInv
<1>o. ~disturbed /\ reboots = 0 => Once
  BY DEF BriefingInv, OnceInv
<1>d. now' = now => Day' = Day
  BY DEF Day
<1>q. ASSUME UNCHANGED <<ran, store, today, reboots>>, ~disturbed, Day' >= Day,
             task' \in Busy => task \in Busy,
             task' \in Busy \ {"deliver"} => task \in Busy \ {"deliver"},
             AwaitsResult' => AwaitsResult, HasResult => HasResult'
      PROVE  Once'
  <2>1. Once
    BY <1>q, <1>o
  <2>2. \A d \in Days : Behind(d) => Behind(d)'
    BY <1>q DEF Behind, HasResult
  <2>3. \A d \in Days : ran'[d] <= 1 /\ (ran'[d] > 0 => d <= Day' /\ Behind(d)')
    <3>1. ASSUME NEW d \in Days
          PROVE  ran'[d] <= 1 /\ (ran'[d] > 0 => d <= Day' /\ Behind(d)')
      <4>1. d \in Nat /\ ran' = ran /\ Day <= Day'
        BY <1>n, <1>q
      <4>2. ran[d] <= 1 /\ (ran[d] > 0 => d <= Day /\ Behind(d)')
        BY <2>1, <2>2 DEF Once
      <4> QED BY <1>n, <4>1, <4>2
    <3> QED BY <3>1
  <2>4. store'.delivered <= Day' /\ today' <= Day'
    BY <1>n, <1>q, <2>1 DEF Once
  <2>5. AwaitsResult' => ran'[today'] = 0
    BY <1>q, <2>1 DEF Once, AwaitsResult
  <2> QED BY <1>q, <2>1, <2>3, <2>4, <2>5 DEF Once, AwaitsResult
<1>1. ASSUME Tick \/ SyncClock \/ UNCHANGED vars
      PROVE  Once'
  <2>1. UNCHANGED <<ran, store, today, reboots, disturbed, task, notified>> /\ now' \in {now, now + 1}
    BY <1>1 DEF Tick, SyncClock, vars, setting, agent, counts
  <2>2. Day' >= Day
    <3>1. now <= now'
      BY <1>n, <2>1
    <3>2. now \div DayLength <= now' \div DayLength /\ now' \div DayLength \in Nat
          /\ now \div DayLength \in Nat
      <4>1. DayLength \in Nat \ {0} /\ now <= now
        BY <1>n
      <4>2. now \div DayLength \in Nat
        BY <1>n, <4>1, DivKeepsOrder
      <4>3. ASSUME NEW later \in Nat, now <= later
            PROVE  now \div DayLength <= later \div DayLength
        BY <1>n, <4>1, <4>3, DivKeepsOrder
      <4>4. ASSUME NEW later \in Nat
            PROVE  later \div DayLength \in Nat
        BY <4>1, DivKeepsOrder
      <4> QED BY <1>n, <3>1, <4>2, <4>3, <4>4
    <3> QED BY <3>2 DEF Day
  <2>3. (AwaitsResult' <=> AwaitsResult) /\ (HasResult' <=> HasResult)
    BY <2>1 DEF AwaitsResult, HasResult
  <2> QED BY <2>1, <2>2, <2>3, <1>q
<1>2. ASSUME Reboot
      PROVE  Once'
  BY <1>0, <1>2 DEF Reboot
<1>3. ASSUME CheckNothing \/ Wake \/ ClearNotification \/ Submit \/ Result
      PROVE  Once'
  <2>1. UNCHANGED <<ran, store, today, reboots, disturbed, now>>
    BY <1>3 DEF CheckNothing, Wake, ClearNotification, Submit, Result, counts
  <2>2. /\ task' \in Busy => task \in Busy
        /\ task' \in Busy \ {"deliver"} => task \in Busy \ {"deliver"}
        /\ HasResult => HasResult'
    BY <1>3 DEF CheckNothing, Wake, ClearNotification, Submit, Result, Busy, HasResult
  <2>3. AwaitsResult' => AwaitsResult
    BY <1>3 DEF CheckNothing, Wake, ClearNotification, Submit, Result, AwaitsResult
  <2> QED BY <1>n, <1>d, <2>1, <2>2, <2>3, <1>q
<1>4. ASSUME NEW on \in BOOLEAN, NEW due \in DueTimes, OwnerCommand(on, due)
      PROVE  Once'
  <2>1. UNCHANGED <<ran, store, today, reboots, disturbed, now, task, notified>>
    BY <1>4 DEF OwnerCommand
  <2> QED BY <1>n, <1>d, <2>1, <1>q DEF AwaitsResult, HasResult
<1>5. ASSUME Receive
      PROVE  Once'
  <2>1. UNCHANGED <<ran, store, today, reboots, disturbed, now, task, notified>>
    BY <1>5 DEF Receive, counts
  <2> QED BY <1>n, <1>d, <2>1, <1>q DEF AwaitsResult, HasResult
<1>6. ASSUME RunCommand
      PROVE  Once'
  <2>1. /\ UNCHANGED <<ran, store, today, reboots, now, task>> /\ ~disturbed
        /\ task \notin {"queue", "wait"}
    BY <1>6 DEF RunCommand, counts
  <2> QED BY <1>n, <1>d, <2>1, <1>q DEF AwaitsResult, HasResult
<1>7. ASSUME CheckLate \/ CheckDue
      PROVE  Once'
  <2>1. UNCHANGED <<ran, reboots, now, disturbed>> /\ task = "check" /\ ~Settled
    BY <1>7 DEF CheckLate, CheckDue
  <2>2. Once
    BY <2>1, <1>o
  <2>3. \A d \in Days : ran[d] > 0 => d <= store.delivered
    BY <2>1, <2>2 DEF Once, Behind
  <2>4. store.delivered < Day /\ store.skipped # Day /\ store.delivered \in Nat
    BY <1>n, <2>1, <2>2 DEF Once, Settled
  <2>5. ran[Day] = 0
    BY <1>0, <1>n, <2>3, <2>4
  <2>6. CASE CheckLate
    <3>1. /\ store' = [store EXCEPT !.pending = 0, !.skipped = Day] /\ today' = today
          /\ task' = "sleep"
      BY <2>6, Zenon DEF CheckLate, Save, SaveFails
    <3>2. store'.delivered = store.delivered /\ store'.skipped = Day
      BY <1>0, <3>1 DEF Store
    <3> QED BY <1>d, <2>1, <2>2, <2>3, <2>5, <3>1, <3>2 DEF Once, Behind, Busy
  <2>7. CASE CheckDue
    <3>1. /\ store' \in {store, [store EXCEPT !.pending = Day]} /\ today' = Day
          /\ task' \in {"submit", "sleep"}
      BY <2>7 DEF CheckDue, Save, SaveFails
    <3>2. store'.delivered = store.delivered /\ store'.skipped = store.skipped
      BY <1>0, <3>1 DEF Store
    <3> QED BY <1>n, <1>d, <2>1, <2>2, <2>3, <2>4, <2>5, <3>1, <3>2 DEF Once, Behind, Busy
  <2> QED BY <1>7, <2>6, <2>7
<1>8. ASSUME Deliver
      PROVE  Once'
  <2>1. /\ UNCHANGED <<ran, reboots, now, disturbed, today>> /\ task = "deliver" /\ task' = "sleep"
        /\ store' = [store EXCEPT !.pending = 0, !.delivered = today]
    BY <1>8 DEF Deliver, Save, SaveFails
  <2>2. Once /\ today \in Days
    BY <1>0, <2>1, <1>o DEF Busy
  <2>3. store'.delivered = today /\ store'.skipped = store.skipped
    BY <1>0, <2>1 DEF Store
  <2>4. store.delivered < today
    BY <2>1, <2>2 DEF Once, Busy
  <2>5. \A d \in Days : Behind(d) => d <= today
    BY <1>n, <2>2, <2>3, <2>4 DEF Behind
  <2> QED BY <1>d, <2>1, <2>2, <2>3, <2>5 DEF Once, Behind, Busy
<1>9. ASSUME RunBriefing
      PROVE  Once'
  <2>1. /\ UNCHANGED <<reboots, now, disturbed, today, store, task>> /\ running.kind = "briefing"
        /\ \/ ran' = [ran EXCEPT ![running.day] = @ + 1] /\ notified' = 1
           \/ ran' = ran /\ notified' = 2
    BY <1>9 DEF RunBriefing
  <2>2. Once /\ task = "wait" /\ notified = 0 /\ running.day = today /\ today \in Days
    BY <1>0, <2>1, <1>o, <1>w DEF Waits, Held, IsBriefing, Busy
  <2>3. ran[today] = 0 /\ store.skipped # today
    BY <2>2 DEF Once, Busy
  <2>4. CASE ran' = ran /\ notified' = 2
    BY <1>d, <2>1, <2>2, <2>4 DEF Once, Behind, Busy
  <2>5. CASE ran' = [ran EXCEPT ![running.day] = @ + 1] /\ notified' = 1
    <3>1. ran'[today] = 1 /\ \A d \in Days \ {today} : ran'[d] = ran[d]
      BY <1>0, <2>2, <2>3, <2>5
    <3>2. \A d \in Days : ran'[d] <= 1 /\ (ran'[d] > 0 => d <= Day' /\ Behind(d)')
      BY <1>d, <2>1, <2>2, <2>5, <3>1 DEF Once, Behind
    <3>3. \A d \in Days : store'.skipped = d => ran'[d] = 0
      BY <2>1, <2>2, <2>3, <3>1 DEF Once
    <3> QED BY <1>d, <2>1, <2>2, <2>5, <3>2, <3>3 DEF Once, Busy
  <2> QED BY <2>1, <2>4, <2>5
<1> QED BY <1>1, <1>2, <1>3, <1>4, <1>5, <1>6, <1>7, <1>8, <1>9, StepsOfNext
----------------------------------------------------------------------------
(***************************************************************************)
(* What the task and the agent know of each other, and what the store and  *)
(* the owner's days have to do with it, holds throughout.                  *)
(***************************************************************************)
THEOREM BriefingInvariant == Spec => []BriefingInv
<1>1. Init => BriefingInv
  BY BriefingInit
<1>2. BriefingInv /\ [Next]_vars => BriefingInv'
  <2> SUFFICES ASSUME BriefingInv, [Next]_vars
               PROVE  BriefingInv'
    OBVIOUS
  <2>1. TypesInv'
    BY TypesStep DEF BriefingInv
  <2> QED BY <2>1, WaitStep, OnceStep DEF BriefingInv
<1> QED BY <1>1, <1>2, PTL DEF Spec

(***************************************************************************)
(* Until a command notifies the task in a wait, a day that is stored as    *)
(* delivered, in RAM or in NVS, had its briefing (briefing_check after     *)
(* mp_agent_submit_wait), whatever fails and whenever the device reboots.  *)
(***************************************************************************)
THEOREM DeliveredDaysHadTheirs == FairSpec => []DeliveredUndisturbed
<1>1. BriefingInv => DeliveredUndisturbed
  BY DEF BriefingInv, WaitInv, Waits, DeliveredRan, DeliveredUndisturbed
<1> QED BY <1>1, BriefingInvariant, PTL DEF FairSpec

(***************************************************************************)
(* Until then the agent holds at most one briefing, and only while the     *)
(* task waits for it; and without reboots no day has two, nor one after it *)
(* was skipped (briefing_check, mp_agent_submit_wait); so, with the above, *)
(* a delivered day had one briefing, neither more nor less.                *)
(***************************************************************************)
THEOREM BriefingsStaySound == FairSpec => []BriefingsSound
<1>1. BriefingInv => TypeOK
  BY DEF BriefingInv, TypesInv
<1>2. BriefingInv => OneAtATime
  BY DEF BriefingInv, WaitInv, Waits, OneBriefing, Held, InQueue, IsBriefing, OneAtATime
<1>3. BriefingInv => OncePerDay
  BY DEF BriefingInv, OnceInv, Once, OncePerDay
<1>4. BriefingInv /\ DeliveredUndisturbed => BriefingsSound
  BY <1>1, <1>2, <1>3 DEF BriefingsSound
<1> QED BY <1>4, BriefingInvariant, DeliveredDaysHadTheirs, PTL DEF FairSpec
=============================================================================
