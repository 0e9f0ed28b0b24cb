----------------------------- MODULE Scheduler -----------------------------
(***************************************************************************)
(* The job store of components/micropaw_base/mp_scheduler.c: the records   *)
(* in RAM, their two NVS blobs, the missed-reminder history and the pass   *)
(* of the scheduler task, under crashes and incomplete saves.              *)
(*                                                                         *)
(* Every operation takes s_lock, so it is one action; the pass releases    *)
(* nothing between two slots but hands each due job to the agent queue on  *)
(* the way, so it is one action per slot (cursor names the slot).          *)
(*                                                                         *)
(* A record with id 0 is an inactive one: the code never reads the other   *)
(* fields of an inactive record.  Time advances in units of 30 s, but a    *)
(* Day and the change of the local clock may be as short as a run needs.   *)
(***************************************************************************)
EXTENDS LocalTime, FiniteSets

CONSTANTS
  N,           \* MP_SCHEDULE_SLOTS, for jobs and for missed reminders
  RetryAfter,  \* SCHEDULE_RETRY_SECONDS
  MissedAfter, \* SCHEDULE_MISSED_SECONDS
  Repeats,     \* the repeat periods callers use; 0 is a one-time job
  Texts,       \* the prompts callers use
  NoText,      \* the text of a cleared record
  MaxTime,     \* bound: the clock stops here
  MaxDelay,    \* bound: how far ahead callers schedule
  MaxId,       \* bound: jobs ever created
  MaxFaults,   \* bound: saves that fail or are cut short by a power loss
  MaxReboots   \* bound: reboots

ASSUME SchedulerAssumption ==
  /\ N \in Nat \ {0}
  /\ RetryAfter \in Nat \ {0}
  /\ MissedAfter \in Nat \ {0}
  /\ Repeats \subseteq Nat
  /\ NoText \notin Texts
  /\ {MaxTime, MaxDelay, MaxId, MaxFaults, MaxReboots} \subseteq Nat

Slots == 1..N

VARIABLES
  now,       \* time(NULL) once SNTP has set the clock
  synced,    \* time(NULL) is past 1700000000
  jobs,      \* s_store.records
  nextId,    \* s_store.next_id
  missed,    \* s_missed.records
  nextSeq,   \* s_missed.next_sequence
  inflight,  \* s_inflight: the slots whose job the agent has not completed
  retry,     \* s_retry_epoch
  fJobs,     \* the NVS blob "jobs"
  fMissed,   \* the NVS blob "missed"
  cursor,    \* the slot the pass is at while it holds s_lock, 0 otherwise
  passNow,   \* the time the pass works with, 0 between passes
  faults,    \* incomplete saves so far
  reboots,   \* reboots so far
  promised,  \* history: ids whose last operation reported ESP_OK
  finished   \* history: ids whose deletion or last run reported ESP_OK

clock   == <<now, synced>>
ram     == <<jobs, nextId, missed, nextSeq, inflight, retry>>
flash   == <<fJobs, fMissed>>
pass    == <<cursor, passNow>>
history == <<promised, finished>>
vars    == <<clock, ram, flash, pass, faults, reboots, history>>

NoJob    == [id |-> 0, due |-> 0, repeat |-> 0, text |-> NoText]
NoMissed == [job |-> 0, seq |-> 0, count |-> 0, due |-> 0, text |-> NoText,
             delivered |-> FALSE]

Job    == [id : Nat, due : Nat, repeat : Repeats \cup {0},
           text : Texts \cup {NoText}]
Missed == [job : Nat, seq : Nat, count : Nat, due : Nat,
           text : Texts \cup {NoText}, delivered : BOOLEAN]

EmptyJobs   == [i \in Slots |-> NoJob]
EmptyMissed == [i \in Slots |-> NoMissed]

Least(S) == CHOOSE i \in S : \A j \in S : i <= j

----------------------------------------------------------------------------
(* Lookups: free_slot, find_slot, find_pending_missed, missed_slot.        *)

Active(js)   == {i \in Slots : js[i].id # 0}
Ids(js)      == {js[i].id : i \in Active(js)}
SlotsOf(id)  == {i \in Active(jobs) : jobs[i].id = id}
Pending(ms)  == {s \in Slots : ms[s].job # 0 /\ ~ms[s].delivered}
PendingOf(id) == {s \in Pending(missed) : missed[s].job = id}

FreeMissed    == {s \in Slots : missed[s].job = 0}
DeliveredOnes == {s \in Slots : missed[s].job # 0 /\ missed[s].delivered}

\* missed_slot walks the slots upwards: the first free one, else the
\* delivered one with the lowest sequence.
MissedSlot ==
  IF FreeMissed # {}
  THEN Least(FreeMissed)
  ELSE CHOOSE s \in DeliveredOnes :
         \A t \in DeliveredOnes : missed[s].seq <= missed[t].seq

MissedRoom == FreeMissed \cup DeliveredOnes # {}

----------------------------------------------------------------------------
(* Saves.  An incomplete one returns an error, or power was lost before it *)
(* was done, in which case Reboot follows; NVS keeps each blob whole.      *)

Written == {"none", "jobs", "both"}

Saved(w) == w = "both"

CountFault(done) ==
  /\ done \/ faults < MaxFaults
  /\ faults' = IF done THEN faults ELSE faults + 1

JobsBlob   == [jobs |-> jobs, nextId |-> nextId]
MissedBlob == [missed |-> missed, nextSeq |-> nextSeq]

SaveStore(done) ==
  /\ CountFault(done)
  /\ fJobs' = IF done THEN JobsBlob' ELSE fJobs
  /\ UNCHANGED fMissed

SaveMissed(done) ==
  /\ CountFault(done)
  /\ fMissed' = IF done THEN MissedBlob' ELSE fMissed
  /\ UNCHANGED fJobs

SaveBoth(w) ==
  /\ CountFault(Saved(w))
  /\ fJobs' = IF w = "none" THEN fJobs ELSE JobsBlob'
  /\ fMissed' = IF w = "both" THEN MissedBlob' ELSE fMissed

\* Mutant: the touched missed record is saved, the job is not.
SaveOnlyMissed(touched, w) ==
  /\ w # "jobs"
  /\ IF touched THEN SaveMissed(Saved(w)) ELSE SaveStore(Saved(w))

\* What update, snooze, delete and complete do last: the missed blob is
\* written only when they touched a missed record.
SaveTouched(touched, w) ==
  IF touched THEN SaveBoth(w) ELSE /\ w # "jobs"
                                   /\ SaveStore(Saved(w))

----------------------------------------------------------------------------
Init ==
  /\ now = 1 /\ synced = FALSE
  /\ jobs = EmptyJobs /\ nextId = 1
  /\ missed = EmptyMissed /\ nextSeq = 1
  /\ inflight = {}
  /\ retry = [i \in Slots |-> 0]
  /\ fJobs = JobsBlob /\ fMissed = MissedBlob
  /\ cursor = 0 /\ passNow = 0
  /\ faults = 0 /\ reboots = 0
  /\ promised = {} /\ finished = {}

\* Nobody sees time pass before the clock is set, so it passes afterwards.
Tick ==
  /\ synced /\ now < MaxTime
  /\ now' = now + 1
  /\ UNCHANGED <<synced, ram, flash, pass, faults, reboots, history>>

SyncClock ==
  /\ ~synced
  /\ synced' = TRUE
  /\ UNCHANGED <<now, ram, flash, pass, faults, reboots, history>>

\* Mutant: the id counter starts again at every boot.
RebootForgetsNextId ==
  /\ reboots < MaxReboots
  /\ reboots' = reboots + 1
  /\ synced' = FALSE
  /\ jobs' = fJobs.jobs /\ nextId' = 1
  /\ missed' = fMissed.missed /\ nextSeq' = fMissed.nextSeq
  /\ inflight' = {}
  /\ retry' = [i \in Slots |-> 0]
  /\ cursor' = 0 /\ passNow' = 0
  /\ UNCHANGED <<now, flash, faults, history>>

\* mp_scheduler_init loads both blobs; what is not in them is gone.
Reboot ==
  /\ reboots < MaxReboots
  /\ reboots' = reboots + 1
  /\ synced' = FALSE
  /\ jobs' = fJobs.jobs /\ nextId' = fJobs.nextId
  /\ missed' = fMissed.missed /\ nextSeq' = fMissed.nextSeq
  /\ inflight' = {}
  /\ retry' = [i \in Slots |-> 0]
  /\ cursor' = 0 /\ passNow' = 0
  /\ UNCHANGED <<now, flash, faults, history>>

----------------------------------------------------------------------------
(* Operations of other tasks.  Each needs s_lock (cursor = 0); w says how  *)
(* far its save got.                                                       *)

Acknowledge(id, w) ==
  promised' = IF Saved(w) THEN promised \cup {id} ELSE promised \ {id}

Add(due, repeat, text, w) ==
  /\ cursor = 0 /\ synced /\ due > now
  /\ nextId <= MaxId
  /\ Active(jobs) # Slots
  /\ LET slot == Least(Slots \ Active(jobs))
     IN jobs' = [jobs EXCEPT ![slot] = [id |-> nextId, due |-> due,
                                        repeat |-> repeat, text |-> text]]
  /\ nextId' = nextId + 1
  /\ Acknowledge(nextId, w)
  /\ UNCHANGED <<clock, missed, nextSeq, inflight, retry, pass, reboots,
                 finished>>
  /\ SaveTouched(FALSE, w)

\* Mutant: changing a job leaves its pending missed record behind.
KeepPending(id) == missed' = [s \in Slots |-> IF id = 0 THEN NoMissed ELSE missed[s]]

CancelPending(id) ==
  missed' = [s \in Slots |-> IF s \in PendingOf(id) THEN NoMissed ELSE missed[s]]

\* Mutant: a job that is queued or running may be changed.
RescheduleRunning(i, job, w) ==
  /\ cursor = 0 /\ synced /\ job.due > now
  /\ i \in Active(jobs)
  /\ jobs' = [jobs EXCEPT ![i] = job]
  /\ retry' = [retry EXCEPT ![i] = 0]
  /\ CancelPending(job.id)
  /\ Acknowledge(job.id, w)
  /\ UNCHANGED <<clock, nextId, nextSeq, inflight, pass, reboots, finished>>
  /\ SaveTouched(PendingOf(job.id) # {}, w)

Reschedule(i, job, w) ==
  /\ cursor = 0 /\ synced /\ job.due > now
  /\ i \in Active(jobs) \ inflight
  /\ jobs' = [jobs EXCEPT ![i] = job]
  /\ retry' = [retry EXCEPT ![i] = 0]
  /\ CancelPending(job.id)
  /\ Acknowledge(job.id, w)
  /\ UNCHANGED <<clock, nextId, nextSeq, inflight, pass, reboots, finished>>
  /\ SaveTouched(PendingOf(job.id) # {}, w)

Update(i, due, repeat, text, w) ==
  Reschedule(i, [id |-> jobs[i].id, due |-> due, repeat |-> repeat,
                 text |-> text], w)

Snooze(i, due, w) ==
  Reschedule(i, [jobs[i] EXCEPT !.due = due], w)

Finish(id, w) ==
  /\ promised' = promised \ {id}
  /\ finished' = IF Saved(w) THEN finished \cup {id} ELSE finished

Delete(i, w) ==
  /\ cursor = 0
  /\ i \in Active(jobs)
  /\ jobs' = [jobs EXCEPT ![i] = NoJob]
  /\ inflight' = inflight \ {i}
  /\ retry' = [retry EXCEPT ![i] = 0]
  /\ CancelPending(jobs[i].id)
  /\ Finish(jobs[i].id, w)
  /\ UNCHANGED <<clock, nextId, nextSeq, pass, reboots>>
  /\ SaveTouched(PendingOf(jobs[i].id) # {}, w)

\* Mutant: clearing the history takes pending reminders along.
ClearAllMissed(w) ==
  /\ cursor = 0 /\ w # "jobs"
  /\ missed' = EmptyMissed
  /\ UNCHANGED <<clock, jobs, nextId, nextSeq, inflight, retry, pass, reboots,
                 history>>
  /\ SaveMissed(Saved(w))

ClearMissed(w) ==
  /\ cursor = 0 /\ w # "jobs"
  /\ missed' = [s \in Slots |-> IF missed[s].delivered THEN NoMissed ELSE missed[s]]
  /\ UNCHANGED <<clock, jobs, nextId, nextSeq, inflight, retry, pass, reboots,
                 history>>
  /\ SaveMissed(Saved(w))

Reset(w) ==
  /\ cursor = 0
  /\ jobs' = EmptyJobs /\ nextId' = 1
  /\ missed' = EmptyMissed /\ nextSeq' = 1
  /\ inflight' = {}
  /\ retry' = [i \in Slots |-> 0]
  /\ promised' = {} /\ finished' = {}
  /\ UNCHANGED <<clock, pass, reboots>>
  /\ SaveBoth(w)

----------------------------------------------------------------------------
(* mp_scheduler_complete, called by the agent with the outcome of a run.   *)

\* Occurrences of a job between its due time and t, which the code counts in
\* fixed seconds whatever the local clock did.
Occurrences(job, t) ==
  1 + IF job.repeat > 0 /\ job.due <= t THEN (t - job.due) \div job.repeat ELSE 0

\* The due time after the run: the time is moved on by a repeat, once at
\* least, until it is past t.  That is never later than one repeat after
\* those counted, because the clock is set by less than a day.
AdvancedDue(job, t) ==
  LET past(k) == Repeated(job.due, job.repeat, k) > t
  IN  Repeated(job.due, job.repeat, Least({k \in 1..(Occurrences(job, t) + 1) : past(k)}))

\* Mutant: a failed run leaves the job in flight.
CompleteFailedStuck(i) ==
  /\ cursor = 0
  /\ i \in Active(jobs)
  /\ retry' = [retry EXCEPT ![i] = now + RetryAfter]
  /\ UNCHANGED <<clock, jobs, nextId, missed, nextSeq, inflight, flash, pass,
                 faults, reboots, history>>

CompleteFailed(i) ==
  /\ cursor = 0
  /\ i \in Active(jobs)
  /\ inflight' = inflight \ {i}
  /\ retry' = [retry EXCEPT ![i] = now + RetryAfter]
  /\ UNCHANGED <<clock, jobs, nextId, missed, nextSeq, flash, pass, faults,
                 reboots, history>>

\* Mutant: the count stays what it was when the job was found late.
MarkDeliveredOldCount(job) ==
  missed' = [s \in Slots |->
    IF s \notin PendingOf(job.id) THEN missed[s]
    ELSE [missed[s] EXCEPT !.delivered = TRUE]]

MarkDelivered(job) ==
  missed' = [s \in Slots |->
    IF s \notin PendingOf(job.id) THEN missed[s]
    ELSE [missed[s] EXCEPT
            !.delivered = TRUE,
            !.count = IF job.repeat > 0 /\ Occurrences(job, now) > @
                      THEN Occurrences(job, now) ELSE @]]

\* Mutant: a finished job is not saved.
CompleteDoneUnsaved(i, w) ==
  /\ cursor = 0
  /\ i \in Active(jobs)
  /\ inflight' = inflight \ {i}
  /\ retry' = [retry EXCEPT ![i] = 0]
  /\ MarkDelivered(jobs[i])
  /\ jobs' = [jobs EXCEPT ![i] = IF @.repeat = 0 THEN NoJob
                                 ELSE [@ EXCEPT !.due = AdvancedDue(jobs[i], now)]]
  /\ IF jobs[i].repeat = 0
     THEN Finish(jobs[i].id, w)
     ELSE Acknowledge(jobs[i].id, w) /\ UNCHANGED finished
  /\ UNCHANGED <<clock, nextId, nextSeq, flash, pass, faults, reboots>>

CompleteDone(i, w) ==
  /\ cursor = 0
  /\ i \in Active(jobs)
  /\ inflight' = inflight \ {i}
  /\ retry' = [retry EXCEPT ![i] = 0]
  /\ MarkDelivered(jobs[i])
  /\ jobs' = [jobs EXCEPT ![i] = IF @.repeat = 0 THEN NoJob
                                 ELSE [@ EXCEPT !.due = AdvancedDue(jobs[i], now)]]
  /\ IF jobs[i].repeat = 0
     THEN Finish(jobs[i].id, w)
     ELSE Acknowledge(jobs[i].id, w) /\ UNCHANGED finished
  /\ UNCHANGED <<clock, nextId, nextSeq, pass, reboots>>
  /\ SaveTouched(PendingOf(jobs[i].id) # {}, w)

----------------------------------------------------------------------------
(* scheduler_check: the clock is read, then the lock taken, then each slot *)
(* that is due is dealt with in turn.  The slots in between cost no step:  *)
(* the pass holds the lock and only looks at them.                         *)

PassStart ==
  /\ cursor = 0 /\ passNow = 0 /\ synced
  /\ passNow' = now
  /\ UNCHANGED <<clock, ram, flash, cursor, faults, reboots, history>>

\* Mutant: a job in flight is due again.
DueInFlight(i) ==
  /\ i \in Active(jobs)
  /\ jobs[i].due <= passNow
  /\ retry[i] <= passNow

Due(i) ==
  /\ i \in Active(jobs) \ inflight
  /\ jobs[i].due <= passNow
  /\ retry[i] <= passNow

DueAfter(i) == {j \in Slots : j > i /\ Due(j)}

\* On to the next due slot, or the end of the pass.
MoveOn ==
  /\ cursor' = IF DueAfter(cursor) = {} THEN 0 ELSE Least(DueAfter(cursor))
  /\ passNow' = IF DueAfter(cursor) = {} THEN 0 ELSE passNow
  /\ UNCHANGED <<clock, reboots, history>>

PassLock ==
  /\ cursor = 0 /\ passNow # 0
  /\ MoveOn
  /\ UNCHANGED <<ram, flash, faults>>

Late(i) == passNow - jobs[i].due >= MissedAfter

Postpone(i) == retry' = [retry EXCEPT ![i] = passNow + RetryAfter]

\* mark_missed as far as RAM goes: a pending record of the job is brought up
\* to date, otherwise one is made in MissedSlot.
RecordMissed(i) ==
  LET job == jobs[i]
      n   == Occurrences(job, passNow)
  IN IF PendingOf(job.id) # {}
     THEN /\ missed' = [s \in Slots |->
               IF s \in PendingOf(job.id) /\ n > missed[s].count
               THEN [missed[s] EXCEPT !.count = n] ELSE missed[s]]
          /\ UNCHANGED nextSeq
     ELSE /\ missed' = [missed EXCEPT ![MissedSlot] =
               [job |-> job.id, seq |-> nextSeq, count |-> n, due |-> job.due,
                text |-> job.text, delivered |-> FALSE]]
          /\ nextSeq' = nextSeq + 1

\* mark_missed saves only when it changed something.
MarkMissed(i, done) ==
  /\ PendingOf(jobs[i].id) # {} \/ MissedRoom
  /\ RecordMissed(i)
  /\ IF missed' = missed
     THEN done /\ UNCHANGED <<flash, faults>>
     ELSE SaveMissed(done)

\* mark_missed failed: no slot, or its save did not go through.
PassUnmarked ==
  /\ cursor # 0 /\ Late(cursor)
  /\ Postpone(cursor)
  /\ MoveOn
  /\ UNCHANGED <<jobs, nextId, inflight>>
  /\ \/ /\ PendingOf(jobs[cursor].id) = {} /\ ~MissedRoom
        /\ UNCHANGED <<missed, nextSeq, flash, faults>>
     \/ MarkMissed(cursor, FALSE)

\* Mutant: a job is in flight whether the agent queue took it or not.
PassEmitRegardless(taken) ==
  /\ cursor # 0
  /\ IF Late(cursor) THEN MarkMissed(cursor, TRUE)
     ELSE UNCHANGED <<missed, nextSeq, flash, faults>>
  /\ inflight' = inflight \cup {cursor}
  /\ IF taken THEN UNCHANGED retry ELSE Postpone(cursor)
  /\ MoveOn
  /\ UNCHANGED <<jobs, nextId>>

\* s_emit: the job went to the agent queue, or it did not.
PassEmit(taken) ==
  /\ cursor # 0
  /\ IF Late(cursor) THEN MarkMissed(cursor, TRUE)
     ELSE UNCHANGED <<missed, nextSeq, flash, faults>>
  /\ IF taken THEN inflight' = inflight \cup {cursor} /\ UNCHANGED retry
     ELSE Postpone(cursor) /\ UNCHANGED inflight
  /\ MoveOn
  /\ UNCHANGED <<jobs, nextId>>

----------------------------------------------------------------------------
Environment == Tick \/ SyncClock \/ Reboot

SoonerThan(d) == (now + 1)..(now + d)

JobRequest(w) ==
  \/ \E due \in SoonerThan(MaxDelay), r \in Repeats, t \in Texts : Add(due, r, t, w)
  \/ \E i \in Slots, due \in SoonerThan(MaxDelay), r \in Repeats, t \in Texts :
       Update(i, due, r, t, w)
  \/ \E i \in Slots, due \in SoonerThan(MaxDelay) : Snooze(i, due, w)
  \/ \E i \in Slots : Delete(i, w)
  \/ ClearMissed(w)

\* The agent completes whatever active job bears the id it ran.
Outcome(w) ==
  \E i \in Slots : CompleteFailed(i) \/ CompleteDone(i, w)

Pass ==
  \/ PassStart \/ PassLock \/ PassUnmarked
  \/ \E taken \in BOOLEAN : PassEmit(taken)

Next ==
  \/ Environment
  \/ \E w \in Written : JobRequest(w) \/ Reset(w) \/ Outcome(w)
  \/ Pass

Spec == Init /\ [][Next]_vars

----------------------------------------------------------------------------
RamTypeOK ==
  /\ jobs \in [Slots -> Job] /\ nextId \in Nat \ {0}
  /\ missed \in [Slots -> Missed] /\ nextSeq \in Nat \ {0}
  /\ inflight \in SUBSET Slots
  /\ retry \in [Slots -> Nat]

FlashTypeOK ==
  /\ fJobs \in [jobs : [Slots -> Job], nextId : Nat \ {0}]
  /\ fMissed \in [missed : [Slots -> Missed], nextSeq : Nat \ {0}]

PassTypeOK ==
  /\ now \in Nat /\ synced \in BOOLEAN
  /\ cursor \in 0..N /\ passNow \in Nat

HistoryTypeOK ==
  /\ faults \in Nat /\ reboots \in Nat
  /\ promised \in SUBSET Nat /\ finished \in SUBSET Nat

TypeOK == RamTypeOK /\ FlashTypeOK /\ PassTypeOK /\ HistoryTypeOK

(* No two active jobs share an id and no id is handed out again, in RAM    *)
(* and in what a reboot would load: find_slot, update and delete address   *)
(* jobs by id alone.                                                       *)
DistinctIds(js, next) ==
  /\ \A i, j \in Active(js) : js[i].id = js[j].id => i = j
  /\ \A i \in Active(js) : js[i].id < next

JobIdsUnique ==
  /\ DistinctIds(jobs, nextId)
  /\ DistinctIds(fJobs.jobs, fJobs.nextId)

(* A job whose last change was reported as done is stored as it stands, so *)
(* a crash at any moment brings it back unchanged.  This must survive      *)
(* failed saves of other jobs, which later saves write along.              *)
PromisedStored ==
  /\ promised \subseteq Ids(jobs)
  /\ \A i \in Active(jobs) : jobs[i].id \in promised => fJobs.jobs[i] = jobs[i]

(* A one-time job that ran, or a job that was deleted, with its save       *)
(* reported as done never comes back, whatever fails or crashes later.     *)
FinishedGone ==
  finished \cap (Ids(jobs) \cup Ids(fJobs.jobs)) = {}

(* Only a job that exists is in flight or waits for a retry: a leftover    *)
(* mark would make the next job of the slot hang or start late.            *)
IdleSlotsClean ==
  \A i \in Slots \ Active(jobs) : i \notin inflight /\ retry[i] = 0

(* Every pending missed reminder is the one pending record of an active    *)
(* job, for the text and the time that job will be run with.               *)
OwnedBy(js, ms) ==
  /\ \A s \in Pending(ms) : \E i \in Active(js) :
       js[i].id = ms[s].job /\ js[i].text = ms[s].text /\ js[i].due = ms[s].due
  /\ \A s, t \in Pending(ms) : ms[s].job = ms[t].job => s = t

PendingOwned == faults = 0 => OwnedBy(jobs, missed)

(* docs/COMMANDS.md:9, "lists pending and delivered missed reminders":     *)
(* what is listed as pending is a delivery still to come.                  *)
PendingIsDeliverable ==
  \A s \in Pending(missed) : missed[s].job \in Ids(jobs)

(* A late job always finds room for its missed record, so mark_missed      *)
(* never keeps a job from running.                                         *)
MissedRecordFits ==
  faults = 0 => \A i \in Active(jobs) : PendingOf(jobs[i].id) # {} \/ MissedRoom

(* The store as a whole: its types, and what keeps a slot, a job and a     *)
(* missed record together (the four above).                                *)
StoreSound == TypeOK /\ IdleSlotsClean /\ PendingOwned /\ MissedRecordFits

(* A pending missed reminder leaves the history only as delivered, or with *)
(* the job it belongs to: /missed clear and the reuse of history slots     *)
(* keep it, and so does a reboot.                                          *)
PendingKept ==
  [][\A s \in Pending(missed) :
       \/ faults # 0
       \/ missed'[s].job = missed[s].job
       \/ missed[s].job \notin Ids(jobs')
       \/ \E i \in Active(jobs) : jobs[i].id = missed[s].job /\ jobs'[i] # jobs[i]]_vars

(* The report of a repeating job counts the occurrences that its next due  *)
(* time skips (mp_scheduler.c:497 counts, 506 moves on): exactly, but for  *)
(* a job of whole days that was moved over a change of the local clock,    *)
(* whose report may be one off and never more.                             *)
OneOff(job, due, count, k) ==
  /\ OnCalendar(job.repeat) /\ ClockSetBetween(job.due, due)
  /\ k \in {count - 1, count + 1}

Adds(job, due, count) ==
  \E k \in 1..(count + 1) :
    /\ due = Repeated(job.due, job.repeat, k)
    /\ k = count \/ OneOff(job, due, count, k)

ReportCountsSkipped ==
  [][\A i \in Active(jobs), s \in Pending(missed) :
       (/\ faults = 0
        /\ missed[s].job = jobs[i].id /\ missed'[s].delivered
        /\ jobs[i].repeat > 0 /\ jobs'[i].id = jobs[i].id)
       => Adds(jobs[i], jobs'[i].due, missed'[s].count)]_vars

(* components/micropaw_agent/test/test_time.c:74, "daily scheduler repeats *)
(* keep their local clock through daylight saving": after a run a job of   *)
(* whole days is due at the time of day it had, but for the day on which   *)
(* the clock leaves that time out.                                         *)
RepeatsKeepLocalClock ==
  [][\A i \in inflight \ inflight' :
       (jobs[i].repeat > 0 /\ OnCalendar(jobs[i].repeat) /\ jobs'[i].id = jobs[i].id)
       => \/ Local(jobs'[i].due) % Day = Local(jobs[i].due) % Day
          \/ ShiftAt <= jobs'[i].due /\ jobs'[i].due < ShiftAt + ShiftBy]_vars
=============================================================================
