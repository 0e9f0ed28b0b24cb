----------------------------- MODULE Permissions -----------------------------
(***************************************************************************)
(* What the agent may do to the outside: the turn loop that gates a tool   *)
(* call by what the turn has read (mp_agent.c, mp_agent_policy.c), the     *)
(* permission modes (mp_tools.c), the arena of pending permissions         *)
(* (mp_confirmation.c), /confirm and /cancel, and the two-step /reset.     *)
(*                                                                         *)
(* A command is a message whose text reads as one, wherever it comes from: *)
(* process_message hands every message to handle_command first, those of   *)
(* scheduled jobs and of schedule_run with the others.  Their text is the  *)
(* prompt some turn gave schedule_add, and their chat is the job's.        *)
(*                                                                         *)
(* The agent task runs on one core; the console task, on the other, resets *)
(* the same arena with no lock.  The arena operations therefore take the   *)
(* steps between which the console can be seen.  Records have one size     *)
(* here, so the arena is cells of which the first `used' are in use; a     *)
(* cell holds the number of a record, or Zeroed after memset.              *)
(***************************************************************************)
EXTENDS Integers, Sequences, FiniteSets, SequencesExt

CONSTANTS
  Chats,      \* chat ids
  Owners,     \* those owner_message accepts
  Tools,      \* names of tools the model may call
  Services,   \* those of email and calendar that the build has
  Capacity,   \* records that fit the arena
  TimeToLive, \* the five minutes of a permission and of a reset
  Talkers,    \* bound: the chats whose turns and jobs call tools
  MaxTime,    \* bound: the last moment
  MaxRecords, \* bound: permissions asked for
  MaxBatches, \* bound: batches of tool calls in a turn
  Prompts,    \* bound: the commands a job may have for a prompt
  MaxJobs     \* bound: jobs that have one

FirstId == 1000
Modes   == {"allowed", "permission", "disabled"}
Zeroed  == 0
Origins == {"chat", "job"}  \* who sent a message

EmailChanges    == {"email_send", "email_modify", "email_trash", "email_untrash"}
EmailOthers     == {"email_schedule", "email_schedule_update", "email_search", "email_get"}
CalendarChanges == {"calendar_create", "calendar_update", "calendar_delete"}
CalendarOthers  == {"calendar_list", "calendar_get"}
Reads           == {"memory", "schedule", "missed", "time", "email", "calendar"}

ASSUME PermissionsAssumption ==
  /\ Owners \subseteq Chats /\ Talkers \subseteq Chats
  /\ Services \subseteq {"email", "calendar"}
  /\ Capacity \in Nat \ {0} /\ MaxBatches \in Nat \ {0}
  /\ {TimeToLive, MaxTime, MaxRecords, MaxJobs} \subseteq Nat

VARIABLES
  now,     \* esp_timer_get_time
  modes,   \* email_permission, calendar_permission
  cells, used, nextId, \* s_arena, s_used, s_next_id
  records, \* every record ever written: its contents, and what became of it
  step,    \* where the agent is
  turn,    \* the turn: chat, batch number, current_reads, reads_before_batch
  job,     \* the request, /confirm or /cancel under way
  reset,   \* s_reset of the agent
  wiping,  \* the console is inside mp_confirmation_reset
  readIn,  \* the batch of the turn whose result first showed a kind of state
  acted,   \* the turn's last call that needs a read, and its batch
  jobs,     \* the commands turns stored as a job's prompt, with the job's chat
  approved, \* records whose chat said /confirm in time
  carried,  \* records for which a job of their chat said it
  ran,     \* records whose call ran, once per run
  heard    \* the reset messages that lead to a wipe, oldest first

arena   == <<cells, used, nextId>>
seen    == <<readIn, acted>>
history == <<jobs, approved, carried, ran, heard>>
vars    == <<now, modes, arena, records, step, turn, job, reset, wiping, seen, history>>

Ids      == FirstId .. (FirstId + MaxRecords)
Idle     == [chat |-> "", batch |-> 0, reads |-> {}, before |-> {}]
NoJob    == [chat |-> "", id |-> 0, tool |-> "", at |-> 0, held |-> 0]
NoReset  == [step |-> 0, expires |-> 0, chat |-> ""]
Gone     == [id |-> 0, chat |-> "", tool |-> "", expires |-> 0, fate |-> "removed"]
Empty    == [i \in 0..(Capacity - 1) |-> Zeroed]
Serials  == 1..Len(records)

Init ==
  /\ now = 0 /\ modes \in [Services -> Modes]
  /\ cells = Empty /\ used = 0 /\ nextId = FirstId /\ records = <<>>
  /\ step = "idle" /\ turn = Idle /\ job = NoJob /\ reset = NoReset /\ wiping = FALSE
  /\ readIn = [k \in Reads |-> 0] /\ acted = {}
  /\ jobs = {} /\ approved = {} /\ carried = {} /\ ran = <<>> /\ heard = <<>>
----------------------------------------------------------------------------
(* mp_agent_policy.c and the modes of mp_tools.c.                          *)

PolicyRead(tool) ==
  CASE tool = "memory_list"           -> {"memory"}
    [] tool = "schedule_list"         -> {"schedule"}
    [] tool = "schedule_missed_list"  -> {"missed"}
    [] tool = "time_now"              -> {"time"}
    [] tool \in {"email_search", "email_get"}       -> {"email"}
    [] tool \in {"calendar_list", "calendar_get"}   -> {"calendar"}
    [] OTHER                          -> {}

PolicyRequired(tool) ==
  CASE tool = "memory_save"                         -> {"memory"}
    [] tool \in {"schedule_add", "email_schedule"}  -> {"time"}
    [] tool \in {"schedule_update", "schedule_snooze", "email_schedule_update"}
                                                    -> {"schedule", "time"}
    [] tool \in {"schedule_run", "schedule_delete"} -> {"schedule"}
    [] tool = "schedule_missed_clear"               -> {"missed"}
    [] tool \in {"email_modify", "email_trash", "email_untrash"} -> {"email"}
    [] tool \in {"calendar_create", "calendar_update"} -> {"calendar", "time"}
    [] tool = "calendar_delete"                     -> {"calendar"}
    [] OTHER                                        -> {}

ToolMode(tool) ==
  LET Of(service, changes, others) ==
        IF tool \in changes THEN {modes[service]}
        ELSE IF tool \in others /\ modes[service] = "disabled" THEN {"disabled"} ELSE {}
      set == (IF "email" \in Services THEN Of("email", EmailChanges, EmailOthers) ELSE {})
             \cup (IF "calendar" \in Services
                   THEN Of("calendar", CalendarChanges, CalendarOthers) ELSE {})
  IN  IF set = {} THEN "allowed" ELSE CHOOSE m \in set : TRUE
----------------------------------------------------------------------------
(* A turn: batches of tool calls, each call gated by the reads of earlier  *)
(* batches.                                                                *)

StartTurn(chat) ==
  /\ step = "idle"
  /\ step' = "batch"
  /\ turn' = [chat |-> chat, batch |-> 1, reads |-> {}, before |-> {}]
  /\ readIn' = [k \in Reads |-> 0] /\ acted' = {}
  /\ UNCHANGED <<now, modes, arena, records, job, reset, wiping, history>>

\* Mutant: the reads of the same batch count.
MissingNow(tool) == PolicyRequired(tool) \ turn.reads

Missing(tool) == PolicyRequired(tool) \ turn.before

\* The call has an effect on the state its policy protects.
Acts(tool) ==
  acted' = IF PolicyRequired(tool) = {} THEN acted
           ELSE {[tool |-> tool, batch |-> turn.batch]}

\* mp_tools_execute of an allowed tool, with no error; a refused, disabled or
\* failing call leaves everything as it is.
Runs(tool) ==
  /\ step = "batch" /\ Missing(tool) = {} /\ ToolMode(tool) = "allowed"
  /\ turn' = [turn EXCEPT !.reads = @ \cup PolicyRead(tool)]
  /\ readIn' = [k \in Reads |-> IF k \in PolicyRead(tool) /\ readIn[k] = 0
                                THEN turn.batch ELSE readIn[k]]
  /\ Acts(tool)
  /\ UNCHANGED <<now, modes, arena, records, step, job, reset, wiping>>

CallRuns(tool) == Runs(tool) /\ UNCHANGED history

\* schedule_add makes a job of the turn's chat; schedule_update takes any id.
JobChats(tool) ==
  CASE tool = "schedule_add"    -> {turn.chat}
    [] tool = "schedule_update" -> Chats
    [] OTHER                    -> {}

\* The same with a command for the job's prompt.  What a job carried may still
\* come when the job is gone (a copy waits in the queue, a repeat is due).
CallStores(tool, command) ==
  /\ Cardinality(jobs) < MaxJobs
  /\ Runs(tool)
  /\ \E chat \in JobChats(tool) : jobs' = jobs \cup {[chat |-> chat, command |-> command]}
  /\ UNCHANGED <<approved, carried, ran, heard>>

\* The same of a tool that needs permission: mp_confirmation_request follows.
CallAsks(tool) ==
  /\ step = "batch" /\ Missing(tool) = {} /\ ToolMode(tool) = "permission"
  /\ step' = "ask" /\ job' = [NoJob EXCEPT !.chat = turn.chat, !.tool = tool]
  /\ Acts(tool)
  /\ UNCHANGED <<now, modes, arena, records, turn, reset, wiping, readIn, history>>

\* build_request and the next inference.
NextBatch ==
  /\ step = "batch" /\ turn.batch < MaxBatches
  /\ turn' = [turn EXCEPT !.batch = @ + 1, !.before = turn.reads]
  /\ UNCHANGED <<now, modes, arena, records, step, job, reset, wiping, seen, history>>

\* The answer, or any error that ends the turn.
EndTurn ==
  /\ step = "batch"
  /\ step' = "idle" /\ turn' = Idle
  /\ readIn' = [k \in Reads |-> 0] /\ acted' = {}
  /\ UNCHANGED <<now, modes, arena, records, job, reset, wiping, history>>

\* mp_tools_execute_scheduled: an email job that comes due needs no turn.
ScheduledEmailAsks(chat) ==
  /\ step = "idle" /\ "email_send" \in Tools /\ ToolMode("email_send") = "permission"
  /\ step' = "ask" /\ job' = [NoJob EXCEPT !.chat = chat, !.tool = "email_send"]
  /\ UNCHANGED <<now, modes, arena, records, turn, reset, wiping, seen, history>>
----------------------------------------------------------------------------
(* A command comes from its chat, or from a job of the chat that has it    *)
(* for a prompt: when the job is due, or when schedule_run queues a copy.  *)

Comes(chat, command, from) ==
  from = "job" => [chat |-> chat, command |-> command] \in jobs
----------------------------------------------------------------------------
(* The arena.                                                              *)

Alive(serial) == serial # Zeroed /\ now <= records[serial].expires

\* purge_expired: the records that stay, moved together; a zeroed record in
\* use has size 0, and the loop never gets past it.
CanPurge == \A i \in 0..(used - 1) : cells[i] # Zeroed
Stay     == {i \in 0..(used - 1) : Alive(cells[i])}
Place(i) == Cardinality({j \in Stay : j < i})
Purged ==
  [used  |-> Cardinality(Stay),
   cells |-> [c \in DOMAIN cells |->
                IF c < Cardinality(Stay) THEN cells[CHOOSE i \in Stay : Place(i) = c]
                ELSE IF c < used THEN Zeroed ELSE cells[c]]]
Purge == CanPurge /\ cells' = Purged.cells /\ used' = Purged.used

\* Where a request or command returns to.
Return == IF turn = Idle THEN "idle" ELSE "batch"
Done == step' = Return /\ job' = NoJob

\* mp_confirmation_request, up to the test for room.
AskRoom ==
  /\ step = "ask"
  /\ Purge
  /\ \/ Purged.used = Capacity /\ Done
     \/ /\ Purged.used < Capacity /\ Len(records) < MaxRecords
        /\ step' = "fill" /\ UNCHANGED job
  /\ UNCHANGED <<now, modes, nextId, records, turn, reset, wiping, seen, history>>

\* The record at s_used, with the next id.
AskFill ==
  /\ step = "fill"
  /\ LET serial == Len(records) + 1
     IN  /\ records' = Append(records, [id |-> nextId, chat |-> job.chat, tool |-> job.tool,
                                        expires |-> now + TimeToLive, fate |-> "new"])
         /\ cells' = [cells EXCEPT ![used] = serial]
         /\ job' = [job EXCEPT !.held = serial]
  /\ nextId' = nextId + 1
  /\ step' = "publish"
  /\ UNCHANGED <<now, modes, used, turn, reset, wiping, seen, history>>

\* s_used moves past it, and the prompt names its id.
AskPublish ==
  /\ step = "publish"
  /\ used' = used + 1
  /\ records' = [records EXCEPT ![job.held].fate = IF @ = "new" THEN "told" ELSE @]
  /\ Done
  /\ UNCHANGED <<now, modes, cells, nextId, turn, reset, wiping, seen, history>>

\* Mutant: the chat is not compared.
NamedById(chat, id) == {s \in Serials : records[s].id = id}

Named(chat, id) == {s \in Serials : records[s].chat = chat /\ records[s].id = id}

\* The prompts that a /confirm of this chat, now, answers.
Answers(chat, id) ==
  {s \in Serials : /\ records[s].chat = chat /\ records[s].id = id
                   /\ records[s].fate \in {"told", "lost"} /\ now <= records[s].expires}

\* /confirm ID or /cancel ID of a chat: find_record.
Find(command, chat, id, from) ==
  /\ step = "idle" /\ Comes(chat, <<command, id>>, from)
  /\ Purge
  /\ LET found == {i \in 0..(Purged.used - 1) : Purged.cells[i] \in Named(chat, id)}
     IN  \/ /\ found = {}
            /\ UNCHANGED <<step, job>>
         \/ \E at \in found :
              /\ \A i \in found : at <= i
              /\ step' = IF command = "confirm" THEN "copy" ELSE "remove"
              /\ job' = [NoJob EXCEPT !.chat = chat, !.id = id, !.at = at]
  /\ approved' = approved \cup {s \in Answers(chat, id) : command = "confirm" /\ from = "chat"}
  /\ carried' = carried \cup {s \in Answers(chat, id) : command = "confirm" /\ from = "job"}
  /\ UNCHANGED <<now, modes, nextId, records, turn, reset, wiping, seen, jobs, ran, heard>>

\* The same while a zeroed record is in use: the loop of purge_expired goes on
\* until the console sets s_used to 0, and then nothing is found.
FindSpins ==
  /\ step = "idle" /\ ~CanPurge
  /\ step' = "spin"
  /\ UNCHANGED <<now, modes, arena, records, turn, job, reset, wiping, seen, history>>

SpinEnds ==
  /\ step = "spin" /\ CanPurge
  /\ step' = "idle"
  /\ UNCHANGED <<now, modes, arena, records, turn, job, reset, wiping, seen, history>>

Confirm(chat, id, from) == Find("confirm", chat, id, from)
Cancel(chat, id, from)  == Find("cancel", chat, id, from)

\* mp_confirmation_take copies the call out of the arena.
TakeCopy ==
  /\ step = "copy"
  /\ job' = [job EXCEPT !.held = cells[job.at],
                         !.tool = IF cells[job.at] = Zeroed THEN @
                                  ELSE records[cells[job.at]].tool]
  /\ step' = "remove"
  /\ UNCHANGED <<now, modes, arena, records, turn, reset, wiping, seen, history>>

Size(cell) == IF cell = Zeroed THEN 0 ELSE 1

\* remove_record: the records after it move down.
RemoveRecord ==
  /\ step = "remove"
  /\ used >= job.at + Size(cells[job.at])
  /\ LET size == Size(cells[job.at])
     IN  /\ cells' = [i \in DOMAIN cells |->
                        IF i < job.at \/ i >= used THEN cells[i]
                        ELSE IF i + size < used THEN cells[i + size] ELSE
                             IF size = 0 THEN cells[i] ELSE Zeroed]
         /\ used' = used - size
  /\ records' = [s \in Serials |->
                   IF s = cells[job.at] /\ records[s].fate = "told"
                   THEN Gone ELSE records[s]]
  /\ IF job.held = Zeroed THEN Done ELSE step' = "execute" /\ UNCHANGED job
  /\ UNCHANGED <<now, modes, nextId, turn, reset, wiping, seen, history>>

\* execute_confirmation: mp_tools_execute with confirmed = true.
Execute ==
  /\ step = "execute"
  /\ ran' = IF ToolMode(job.tool) = "disabled" THEN ran
            ELSE Append(ran, job.held)
  /\ Done
  /\ UNCHANGED <<now, modes, arena, records, turn, reset, wiping, seen, jobs, approved, carried, heard>>
----------------------------------------------------------------------------
(* The two-step reset from a chat.                                         *)

\* What becomes of the records of one fate.
Fate(old, new) ==
  [s \in Serials |-> IF records[s].fate = old THEN [records[s] EXCEPT !.fate = new]
                     ELSE records[s]]

\* The messages towards a reset are remembered while they are /reset and then
\* /reset confirm, under the chat of an owner (owner_message).
Says(chat, what, from) ==
  /\ step = "idle" /\ Comes(chat, <<"reset", what>>, from)
  /\ LET message == [what |-> what, chat |-> chat, at |-> now, from |-> from]
     IN  heard' = IF chat \notin Owners THEN heard
                  ELSE CASE what = "ask" -> <<message>>
                         [] what = "confirm" /\ Len(heard) = 1 -> Append(heard, message)
                         [] OTHER -> <<>>

Elsewhere == UNCHANGED <<now, modes, step, turn, job, wiping, seen, jobs, approved, carried, ran>>

ResetAsk(chat, from) ==
  /\ Says(chat, "ask", from)
  /\ reset' = IF chat \in Owners
              THEN [step |-> 1, expires |-> now + TimeToLive, chat |-> chat] ELSE reset
  /\ Elsewhere /\ UNCHANGED <<arena, records>>

ResetCancel(chat, from) ==
  /\ Says(chat, "cancel", from)
  /\ reset' = IF chat \in Owners THEN NoReset ELSE reset
  /\ Elsewhere /\ UNCHANGED <<arena, records>>

\* Mutant: the five minutes are not checked.
ExpectedAnytime(chat, s) == chat \in Owners /\ reset.step = s /\ reset.chat = chat

Expected(chat, s) == chat \in Owners /\ reset.step = s /\ reset.chat = chat /\ now <= reset.expires

ResetConfirm(chat, from) ==
  /\ Says(chat, "confirm", from)
  /\ reset' = IF Expected(chat, 1) THEN [reset EXCEPT !.step = 2] ELSE NoReset
  /\ Elsewhere /\ UNCHANGED <<arena, records>>

\* /reset confirm YES refused, or reset_state stopped by a store that fails.
ResetRefused(chat, from) ==
  /\ Says(chat, "yes", from)
  /\ reset' = NoReset
  /\ Elsewhere /\ UNCHANGED <<arena, records>>

ResetState(chat, from) ==
  /\ Expected(chat, 2)
  /\ Says(chat, "yes", from)
  /\ cells' = [i \in DOMAIN cells |-> IF i < used THEN Zeroed ELSE cells[i]]
  /\ used' = 0 /\ nextId' = FirstId
  /\ records' = Fate("told", "forgotten")
  /\ reset' = NoReset
  /\ Elsewhere
----------------------------------------------------------------------------
(* The console: reset-state YES, and set email_permission; a reboot.       *)

WipeCells ==
  /\ ~wiping
  /\ wiping' = TRUE
  /\ cells' = [i \in DOMAIN cells |-> IF i < used THEN Zeroed ELSE cells[i]]
  /\ records' = Fate("told", "forgotten")
  /\ UNCHANGED <<now, modes, used, nextId, step, turn, job, reset, seen, history>>

\* A record written before and not yet counted survives only if it lies where
\* the emptied arena begins.
WipeUsed ==
  /\ wiping
  /\ wiping' = FALSE
  /\ used' = 0 /\ nextId' = FirstId
  /\ records' = [s \in Serials |->
                 IF records[s].fate = "told" \/ (records[s].fate = "new" /\ cells[0] # s)
                 THEN [records[s] EXCEPT !.fate = "lost"] ELSE records[s]]
  /\ reset' = NoReset
  /\ UNCHANGED <<now, modes, cells, step, turn, job, seen, history>>

SetMode(service, mode) ==
  /\ modes' = [modes EXCEPT ![service] = mode]
  /\ UNCHANGED <<now, arena, records, step, turn, job, reset, wiping, seen, history>>

Reboot ==
  /\ cells' = Empty /\ used' = 0 /\ nextId' = FirstId
  /\ records' = [s \in Serials |->
                 IF records[s].fate = "told" THEN [records[s] EXCEPT !.fate = "forgotten"]
                 ELSE IF records[s].fate = "new" THEN Gone ELSE records[s]]
  /\ step' = "idle" /\ turn' = Idle /\ job' = NoJob /\ reset' = NoReset /\ wiping' = FALSE
  /\ readIn' = [k \in Reads |-> 0] /\ acted' = {}
  /\ UNCHANGED <<now, modes, history>>

\* remove_record past the end: a size_t below zero handed to memmove.
RemoveFaults ==
  /\ step = "remove" /\ used < job.at + Size(cells[job.at])
  /\ Reboot

Tick ==
  /\ now' \in (now + 1)..MaxTime
  /\ UNCHANGED <<modes, arena, records, step, turn, job, reset, wiping, seen, history>>

Next ==
  \/ \E chat \in Chats :
       \/ chat \in Talkers /\ (StartTurn(chat) \/ ScheduledEmailAsks(chat))
       \/ \E from \in Origins :
            \/ \E id \in Ids : Confirm(chat, id, from) \/ Cancel(chat, id, from)
            \/ ResetAsk(chat, from) \/ ResetCancel(chat, from) \/ ResetConfirm(chat, from)
            \/ ResetRefused(chat, from) \/ ResetState(chat, from)
  \/ \E tool \in Tools :
       \/ CallRuns(tool) \/ CallAsks(tool)
       \/ \E command \in Prompts : CallStores(tool, command)
  \/ NextBatch \/ EndTurn
  \/ AskRoom \/ AskFill \/ AskPublish
  \/ FindSpins \/ SpinEnds \/ TakeCopy \/ RemoveRecord \/ RemoveFaults \/ Execute
  \/ WipeCells \/ WipeUsed \/ Reboot \/ Tick
  \/ \E service \in Services, mode \in Modes : SetMode(service, mode)

Spec == Init /\ [][Next]_vars
----------------------------------------------------------------------------
TypeOK ==
  /\ now \in 0..MaxTime /\ modes \in [Services -> Modes]
  /\ cells \in [0..(Capacity - 1) -> {Zeroed} \cup Serials]
  /\ used \in 0..Capacity /\ nextId \in FirstId..(FirstId + MaxRecords)
  /\ \A s \in Serials : records[s] \in
       {Gone} \cup
       [id : Ids, chat : Chats, tool : Tools, expires : 0..(MaxTime + TimeToLive),
        fate : {"new", "told", "forgotten", "lost"}]
  /\ step \in {"idle", "batch", "ask", "fill", "publish", "spin", "copy", "remove", "execute"}
  /\ turn.batch \in 0..MaxBatches /\ turn.before \subseteq turn.reads
  /\ turn.reads \subseteq Reads
  /\ job.at \in 0..(Capacity - 1) /\ job.held \in {Zeroed} \cup Serials
  /\ reset.step \in 0..2 /\ wiping \in BOOLEAN
  /\ jobs \subseteq [chat : Chats, command : Prompts]
  /\ approved \cup carried \subseteq Serials /\ Range(ran) \subseteq Serials

\* A call that needs permission runs once, and only for a /confirm that came
\* under its own chat within its five minutes: not for another chat's, nor for
\* one that came late, nor again when it is repeated (mp_confirmation_take,
\* execute_confirmation), whatever the console does to the arena meanwhile.
\* As long as no job has a /confirm for a prompt, the chat itself said it.
ApprovedOnce ==
  /\ IsInjective(ran) /\ Range(ran) \subseteq approved \cup carried
  /\ (\A j \in jobs : j.command[1] # "confirm") => Range(ran) \subseteq approved

\* Outside a console reset, a prompt that was sent, not answered and not wiped
\* can be found until it expires: purging and removing others moves its record and never loses it,
\* and no zeroed record stands in front of it (purge_expired, remove_record).
PromptsHold ==
  \A s \in Serials :
    records[s].fate = "told" /\ Alive(s) /\ ~wiping =>
      CanPurge /\ \E i \in 0..(used - 1) : cells[i] = s

\* The types, and the arena between the prompts and the calls.
ArenaSound == TypeOK /\ ApprovedOnce /\ PromptsHold

\* A call that changes state was made, or put to the owner, in a later batch
\* than the call that read that state: the model had seen the result
\* (process_message's reads_before_batch).
ReadsFirst ==
  \A a \in acted : \A k \in PolicyRequired(a.tool) : readIn[k] \in 1..(a.batch - 1)

NoResetJob(chat) == \A j \in jobs : j.chat = chat => j.command[1] # "reset"

\* A chat's reset wipes the device only after /reset, /reset confirm and /reset
\* confirm YES came in this order under one owner's chat, with no other reset
\* message between them and within five minutes (handle_command).  As long as
\* no job of the chat has a reset command for a prompt, the owner sent all three.
ResetDeliberate ==
  [][\A chat \in Chats, from \in Origins :
       ResetState(chat, from) =>
         /\ Len(heard) = 2 /\ {heard[1].chat, heard[2].chat} = {chat}
         /\ now - heard[1].at <= TimeToLive
         /\ NoResetJob(chat) => {from, heard[1].from, heard[2].from} = {"chat"}]_vars

\* "Permission required. Send /confirm ID within five minutes." (mp_tools.c): a
\* call that needs permission runs when its chat has sent the /confirm.
ApprovedByChat == Range(ran) \subseteq approved

\* "Send /confirm ID within five minutes" (mp_tools.c): a chat that was given
\* an ID approves with it the call the ID was given for, and no other.
PromptNamesCall ==
  [][ran' # ran =>
       \A s \in Serials :
         /\ records[s].chat = job.chat /\ records[s].id = job.id
         /\ records[s].fate = "forgotten" /\ s # job.held
         => now > records[s].expires]_vars
=============================================================================
