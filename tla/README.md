# MicroPaw: specifications and proofs

TLA+ models of the MicroPaw firmware (an ESP32 assistant that talks over
Telegram, Instagram and a serial console), the TLC runs that check them, and
TLAPS proofs of every safety property the passing runs check: about the job
scheduler and its composition with the agent, the turn with the model, the
display, the outbound queue, the two inbound channels, the conversation store,
the briefing, the permissions, and the device with its settings, facts, resets
and firmware. Paths below are relative to the repository; `mp_x.c` lies under
`src/components/`.

1. [The system](#1-the-system)
2. [Modules](#2-modules)
3. [Runs](#3-runs)
4. [Assumptions: NVS, time, scheduling, fairness](#4-assumptions)
5. [Proofs](#5-proofs)
6. [Disagreements found](#6-disagreements-found)
7. [What is not modelled](#7-what-is-not-modelled)
8. [Plan](#8-plan)

Running: `tlc -config sched_store.cfg MCScheduler`, and so on with the pairs of
section 3; `tlapm SchedulerProofs.tla`, and so on with the modules of section 5.

## 1. The system

The firmware is a set of FreeRTOS tasks on two cores which share state in RAM
and in the NVS flash partition.

| task | code | what it does |
|---|---|---|
| agent | `micropaw_agent/mp_agent.c` | takes one message at a time from `s_queue`, runs the model and its tools, answers |
| scheduler | `micropaw_base/mp_scheduler.c` | every second hands due jobs to the agent's queue |
| briefing | `micropaw_agent/mp_briefing.c` | every 30 s, or when notified: is today's briefing due? |
| Telegram poller | `micropaw_telegram/mp_telegram.c` | long polling, submits messages to the agent |
| Telegram sender | the same file | takes texts and typing marks from `s_outbound_queue` |
| Instagram tasks | `micropaw_instagram/mp_instagram.c` | polling and sending of that channel |
| display, wake timer | `micropaw_display/mp_display.c` | draws what the others report, reads the button |
| console | `src/main/main.c` | serial commands; resets stores and sets configuration directly |
| main | `src/main/main.c`, `micropaw_ota/mp_ota.c` | starts everything, then keeps or rolls back the image |

How they meet: the agent's queue (scheduler, briefing, pollers and console
produce, the agent consumes); the outbound queue (agent, poller and others
produce, the sender consumes), with a count, an idle bit and an error word
beside it; one task notification by which the agent answers the briefing task;
the job store and the facts, each under a mutex `s_lock`; the display's two
flags under a spinlock; and the permission arena, the conversation store and
the configuration, which have no lock.

### Components

| component | state | operations | what makes it correct |
|---|---|---|---|
| Job store (`mp_scheduler.c`) | job slots, missed-reminder slots, id and sequence counters, in-flight set, retry times; NVS blobs `jobs` and `missed` | add, update, snooze, delete, clear missed, reset, complete, the check pass, load at boot | ids address one job; what was acknowledged survives a crash; what is finished stays finished; a missed reminder is pending exactly as long as it will be delivered; its count is right; no mark outlives its job |
| Agent and its queue (`mp_agent.c`) | `s_queue`, the message at work, `s_reset`, reads of the turn | submit, receive, `should_run`, the turn loop, outcome, commands | a job in flight is carried by one message; it runs with its current prompt; every due job runs; changes follow reads; a reset is meant |
| Telegram outbound (`mp_telegram.c`) | queue, `s_pending`, idle bit, `s_delivery_error`, `s_enqueue` | send, typing start and stop, the sender, flush | the count is exact; the idle bit is not lost; a text arrives whole and in order; a flush ends and tells the truth |
| Telegram inbound | update offset in RAM; Telegram's own mark | poll, each kind of update, media, submit, move the offset | no update is lost or repeated but by a restart, texts keep their order, a picture is whole |
| Instagram (`mp_instagram.c`) | NVS checkpoint and participant, outbound queue as above | change of owner, find the conversation, baseline, walk the pages, submit and wait, flush, save | the owner's conversation is read; a message is answered before the checkpoint passes it, and passed only once |
| Conversation (`mp_context.c`) | turn blobs, two summary banks, two description banks; `s_meta` | append, plan, commit summary, forget, load at boot | what the model is told is the conversation, each turn once and in order, over crashes and compactions |
| Briefing (`mp_briefing.c`) | pending, delivered and skipped day, setting | check, catch up, skip, command | once a day; each due day is settled |
| Permissions (`mp_confirmation.c`, `mp_tools.c`, `mp_agent_policy.c`) | arena of pending permissions, next id; modes | ask, `/confirm`, `/cancel`, expiry, reset | a call runs only for a `/confirm` under its own chat, and once; a prompt that was sent can be answered; a reset takes three messages in order |
| Configuration (`mp_config.c`) | key-value pairs in NVS and RAM | set, import of a TOML file, erase, load | RAM and flash agree, every value is valid |
| Facts and the reset of all stores (`mp_memory.c`, `mp_agent.c`) | slots of facts, a legacy history; how far a reset has come | save over the oldest slot, load, migrate, `/reset`, `/forget` | an acknowledged fact stays; what a reset removed stays away |
| OTA and boot (`main.c`, `mp_ota.c`) | two image slots and their states, stage of the start | update, bootloader, initialise, confirm, roll back | an image that works is never lost; every start ends with a running device |
| Model client (`mp_llm.c`, `mp_net.c`) | request, parser, arena of calls, kept connection | ask, retry, receive events, finish | the agent is handed what the provider answered |
| Display (`mp_display.c`) | busy and response flags, face, page, button | reports of three tasks, a round, switch off, wake timer | the face says what goes on; one press switches once |
| Gmail, Calendar, search, pages, feeds, HTML, metrics, JSON, time | none shared | requests, parsing | input-output and conversions |

### What is hard

- **Two blobs, two writes.** `save_both` (`mp_scheduler.c:160`) stores jobs and
  missed reminders with separate NVS writes; the context store writes a turn,
  a summary and a description apart from each other. Power may go in between,
  and each write may fail alone while RAM already holds the new state.
- **The pass holds `s_lock` and talks to the agent.** It hands out jobs under
  the lock while the agent changes, deletes or completes the same jobs between
  passes, and the console resets the store while messages are queued.
- **A count under a spinlock, a bit outside it.** Producers and the sender of
  the outbound queue change `s_pending` under the lock and the idle bit after
  it, in any order.
- **One notification, two meanings.** The briefing task's notification says
  "look again" and "here is your result".
- **No lock.** The console empties the permission arena while the agent moves
  records in it, on the other core; it imports settings while the agent sets one.
- **Acknowledged where, and when?** Telegram forgets an update when the offset
  comes with the next poll, Instagram never: one keeps its mark in RAM, the
  other in flash, and the restart in between decides what repeats or is lost.
- **A thread that moves.** Instagram's pages are read backwards to the mark and
  worked forwards, and new messages shift items from page to page meanwhile.
- **Events of parallel calls.** The provider interleaves them, says things more
  than once or leaves some out, and the stream may break in any line.
- **Five stores, one reset.** It stops at the first failure, power may go
  between two, and two tasks may reset at once.
- **A long memory.** Reset, expiry, catch-up and compaction are each a few lines
  whose errors show only after a long series of legal calls.

`PROJECT.json` lists these and the other hazards, each at its line.

## 2. Modules

| module | models | abstract state |
|---|---|---|
| `LocalTime` | local time as `mp_time.c` uses it, `mp_time_repeat_next` | none: operators over epochs |
| `Scheduler` | `mp_scheduler.c` | RAM records, both blobs, the pass |
| `ScheduledTurns` | extends `Scheduler` by `s_queue`, the agent task, `schedule_output` in `main.c`, the console's reset | adds queue, turn, Wi-Fi |
| `Outbound` | the outbound half of `mp_telegram.c` | queue, count, bit, error, where each task is |
| `ContextStore` | `mp_context.c`, `persist_turn` and `compact_context` of `mp_agent.c` | blobs, descriptions, `s_meta` |
| `ConversationLog` | the promise of the store: a log of turns | the log, the last turn acknowledged, the times it was forgotten |
| `Briefing` | `mp_briefing.c`, `mp_agent_submit_wait`, the agent's notification | days, notification, queue |
| `Permissions` | `mp_confirmation.c`, modes of `mp_tools.c`, `mp_agent_policy.c`, the turn loop, `handle_command` | arena cells, turn, reset, commands stored as a job's prompt |
| `AgentQueue` | `s_queue` with commands first, the blocking submit, the notification of a waiting task | queue, running message, notifications |
| `Telegram` | the polling half of `mp_telegram.c` | Telegram's updates and mark, `s_offset`, the poller's place |
| `Instagram` | `mp_instagram.c` | threads, flash keys, the walk, the outbound count and bit |
| `Channels` | composes the three: a device with one channel or both, and its restarts | which channels, restarts |
| `ModelClient` | `mp_llm.c` over a session of `mp_net.c` | request, connection, answer, arena |
| `Display` | `mp_display.c` | flags, face, task, timer, panel |
| `Turn` | composes both with `process_message`: rounds, trace, final text, persist | the turn, the trace, responses to end |
| `Settings` | `mp_config.c` | flash, RAM, the operation each writer is in |
| `Facts` | `mp_memory.c`, `reset_state`, the migration of `mp_agent_init` | slots, ages of the other stores, resets under way |
| `Firmware` | `mp_ota.c`, the bootloader as relied on, rollback | slots, states, stage |
| `Device` | composes the three over `app_main` and restarts | what a run is about, faults |
| `SchedulerProofs` | | theorems about `Scheduler` and `ScheduledTurns` |
| `TurnProofs` | | theorems about `Turn`, `ModelClient` and `Display` |
| `DeviceProofs` | | theorems about `Device`, `Settings`, `Facts` and `Firmware` |
| `OutboundProofs`, `ContextProofs`, `BriefingProofs`, `PermissionsProofs`, `ChannelsProofs` | | theorems about the module of that name (`ContextProofs` about the store and its log) |
| `MC...` | | instances for TLC |

Each component's module declares its parameters and a named assumption on
them, has one action per operation and ends with its properties, among them
its types, joined with the invariants of the same kind where a run checks them
together (`StoreSound`, `QueueSound`, `ContextSound`, ...). An operator marked
`Mutant` is a variant of the operation that
follows it, with a plausible mistake; no specification uses it. It documents
what each property would catch.

### Scheduler

Every public operation takes `s_lock`, so each is one action: `Add`, `Update`,
`Snooze`, `Delete`, `ClearMissed`, `Reset`, `CompleteDone`, `CompleteFailed`.
The parameter `w` says how far its save came: nothing, the jobs blob only, or
all. An operation whose save failed leaves its change in RAM, as the code does
(there is no undo), and reports an error. A power loss in the middle of a save
is an incomplete save followed by `Reboot`. `SaveTouched` is the code's choice
between `save_store` and `save_both`. `complete` with success counts skipped
occurrences, marks the missed record delivered and moves or removes the job.

The pass (`scheduler_check`) reads the clock (`PassStart`), takes the lock
(`PassLock`) and goes through the slots. It is one step per due slot (`cursor`)
because in between it hands a job to the agent's queue, which other tasks use;
nobody else sees the store meanwhile, since every other action needs
`cursor = 0`. `PassUnmarked` is a late job that could not be recorded as
missed; `PassEmit` hands the job over or postpones it.

`promised` and `finished` are history variables: the ids whose last operation
reported success. They are what a caller was told, and the invariants compare
them with RAM and flash. An empty record is one with id 0; the fields of an
inactive record are not read by the code and are not kept.

The missed count of a repeating job is computed by `Occurrences`, in fixed
seconds, and its next due time by `AdvancedDue`, which repeats
`mp_time_repeat_next` until the time is past: as in the code, a period of whole
days is added to the local date and any other to the epoch. `LocalTime` has a
local clock that is set once, forward or back, by less than a day, and
`localtime_r` and `mktime` as the code relies on them. `Repeated` is the repeat
*k* times over in closed form; TLC compares it with doing it one by one
(`RepeatedIsOneByOne` in `MCScheduler`).

### ScheduledTurns

Composes the store with the agent: `Enqueue` is `submit_message` into a queue
of `QueueLength`; `TurnsPassEmit` is `schedule_output` (refused when Wi-Fi is
down or the queue is full for 100 ms); `Receive`, `AskShouldRun`, `ToolCall`,
`ToolRunNow`, `FinishTurn` and `FailTurn` are the agent's loop. Tools run in the
middle of a turn, so a job may change, delete or snooze itself while it runs.
`ConsoleReset` happens at any moment the lock is free. `mp_scheduler_complete`
looks the job up by id under the lock; it reads the clock a moment earlier,
which is modelled as one step. A message carries `era`, the number of resets
before it was queued: history for the property on resets.

### Outbound

Steps are the critical sections: `PendingAdd` (spinlock), `ClearIdle` (event
group), `QueueSend`, `QueueFull`, `PendingUndo`, `UndoSetsIdle`, all under
`s_enqueue_mutex`; `PendingComplete` and `SenderSetsIdle` for the sender;
`Flush`, `FlushWakes`, `FlushTimeout` and `FlushReturns` for `mp_telegram_flush`,
whose return reads the error. A text is cut into parts; what is in them is left
out. Repeats of the typing action during a long turn change no shared state and
are left out. Retryable failures of `deliver_text` are tried for ever.

### ContextStore and ConversationLog

Each NVS write is a step, so a reboot falls between any two. A torn description
is rejected by its checksum (`Reboot` drops any subset of the descriptions
being written). `Newest` is the choice of bank at boot. A compaction writes the
new summary to the other bank, then the description, then erases, then changes
RAM. The model's answer is a value: a summary covers the turns its request
told. The content of the store, read through the description a boot would
load, is the abstract log, and `ConversationKept` says that it behaves as one.
The log is tied to what the code said and was told: it gains a turn in the step
in which `mp_context_append` reports it as stored (`acked`), and no other; it
becomes empty in the step in which a `/forget` is carried out (`forgets`), and
never by a reboot, a failed write or a compaction.

### Briefing

`notified` is the task's notification value: a command's give adds one,
the agent's result overwrites, `ulTaskNotifyTake` clears. `ClearNotification`
and `Submit` are two steps in `mp_agent_submit_wait`. `OwnerCommand` puts
`/briefing` at the front of the queue, as `submit_message` does with commands.
`disturbed` is history: a command notified the task between the clearing and
the result. Days are numbered; `DayLength` time units make a day.

### Permissions

The arena is `Capacity` cells, one per record: records of different length
would shift by bytes, but what matters (records in use lie together, removing
one moves the rest, a zeroed length stops the scan) is kept. A record's number
is its place in `records`, which remembers every record ever written and what
became of it: `new` (written, not yet counted), `told` (the owner has its id),
`forgotten` (wiped by a reset or reboot after it was told), `lost` (the console
wiped it while the agent was writing), or removed. The agent's arena operations
are split where the console may come between; `mp_confirmation_reset` from the
console is `WipeCells` and `WipeUsed`. `FindSpins` is the loop of
`purge_expired` on a zeroed record in use, and `RemoveFaults` the `memmove` of
a negative length, which ends in a restart.

A turn is a series of batches; `Missing` is the policy test against the reads
before the batch, as in `process_message`. Tool calls that fail or are refused
change nothing and are left out.

`process_message` looks for commands in every message, also in those of
scheduled jobs and of `schedule_run`, whose text is the prompt a turn gave
`schedule_add` or `schedule_update`. `CallStores` is such a call with a prompt
out of `Prompts` that reads as a command; `jobs` are those ever stored, since
what a job carried may still come when the job is gone. `/confirm`, `/cancel` and
the reset messages therefore have an origin, `"chat"` or `"job"`, and one from a job
needs its job (`Comes`). What the chat approved (`approved`) and what a job did
in its place (`carried`) are kept apart, and so are the origins of the reset
messages (`heard`).

### AgentQueue, Telegram, Instagram, Channels

A message names its channel, its number there and its kind. `Submit` is
`submit_message`: a command goes to the front, anything else to the end, and
the caller waits while the queue is full (the action is not enabled).
`SubmitAndWait` also clears the caller's notification, as `xTaskNotifyWait`
does on entry. A photo's caption that starts with a slash is not a command.

`Telegram` keeps both ends of the offset: `offset` is `s_offset - 1`, `told` is
what Telegram was last told. `PollAnswered` carries the offset over and brings
the first update left; an update that does not fit the poll buffer is `long`
and brings nothing. Then one action per kind, in the order of `process_update`:
`Ignore` (another chat), `AnswerInPlace` (quick commands, unsupported, media
that is refused), `SubmitText`, `SubmitPhoto` and `PhotoDone`. A file is its
size, whether Telegram said it, how much came and the type stated; `Downloaded`
is the test of `download_file`.

`Instagram` keeps a thread as a sequence of items, and a page as the items from
`Bottom` to `Top` below a cursor. A message's id is unique, so a mark says whose
thread it is of (`of`), and the mark of another owner's thread is found on no
page. The walk has the cursors it came by, the page it is on, and the items
from `next` to `last` still to handle there. `Load`, `Switch` and `SwitchFails` are `checkpoint_init` with the keys
it erases one by one; `FindBound` and `FindByName` choose the conversation;
`Baseline` marks the newest incoming message of the newest page
(`BaselineFails` leaves a part of that in flash); `Find`, `Back` and `SyncEnds` are
`sync_messages`, where `Back` fetches the page again as it is now; `SubmitIg`,
`IgTurnDone`, `IgFlush` and `Save` handle an item. Its outbound half repeats
Telegram's and is kept as far as the flush depends on it. History: `again`
counts the reasons the code itself had for handling an item another time,
`skipped` the items it passes over, `owed` the texts since the item that are
not accepted, `muddled` that idle bit or error speak of something else, `torn`
a change of owner that was cut off.

### ModelClient, Display, Turn

An event of the stream is one step. The provider sends for each item up to
three (`added`, content, `done`); a style says which it leaves out. The arena is
the sequence of records ever committed: a discarded record keeps its room, as
in the code. `CallNext` is `mp_llm_call_next`, which takes of the ready calls the
one with the least order beyond the caller's offset (`Left`). `CutOff` ends the stream early,
also in the middle of a line, which `parse_finish` completes.

`Display` has the flags and the reports under `s_state_lock`, one round of
`display_task` per step, and the timer that watches the button while the task
is gone. A frame may fail, and the locals remember it all the same.

`Turn` follows `process_message`: build, infer, tools with a trace of bounded
size, say, flush for a job, keep, compact. `offset` is how far the batch of calls
is. Contents of the trace are the call's number and round. An answer may be a
mood and nothing else: the filter takes it out, and a chat refuses the empty text
(`Taken`) which the console prints. The turn then goes on, is kept, and fails
(`turn.ok`); a job's turn is over at once. `Flushed` returns the delivery error.
The poller and the sender appear with what they do to the display.

### Settings, Facts, Firmware, Device

`Settings`: an operation writes flash and then RAM, in steps; `writer` is what
the console and the agent are in the middle of; `spoiled` are the keys touched
by a failed or overlapped operation since the last load. `Facts`: the slots are
modelled; of the other stores only the ages of their contents, where an age is
the number of resets and `/forget`s begun before. A reset is five steps, one for
each store, each of which may fail and end it. `Firmware`: slots, their otadata
states, and `stage`, how far `initialize` has come. `Device` composes: each step
of the start belongs to one of the three, `PowerLost` may come at any point.

## 3. Runs

| run | configuration | states | what it shows |
|---|---|---|---|
| `sched_store` | `MCScheduler`, `sched_store.cfg` | 855 thousand | two slots, repeating and one-time jobs, one failed or torn save, one reboot, any caller: types, clean slots, unique ids, acknowledged jobs kept, finished jobs gone; while saves succeed pending reminders are owned, fit and stay; a scene of its own has jobs of a day and of half a day run late while the local clock is set forward: the report counts the occurrences skipped, one off at most and only across the change |
| `turns` | `MCScheduledTurns`, `turns.cfg` | 278 thousand | store, queue and agent together, with a Wi-Fi loss, a failed run, a reset and a reboot: a job in flight has its one message and runs with its current prompt, and every due job gets its run |
| `outbound` | `MCOutbound`, `outbound.cfg` | 546 thousand | agent and poller, queue of two, three calls, one fault: the count, the bit, whole texts, and that a flush ends |
| `context` | `MCContextStore`, `context.cfg` | 1.4 million | five turns of three sizes, one failed write, two reboots, one forget: RAM and flash agree, bytes exact, compaction keeps up, the log is kept |
| `briefing` | `MCBriefing`, `briefing.cfg` | 63 thousand | two days, a command, a failure, a reboot: see below |
| `permissions` | `MCPermissions`, `permissions.cfg` | 956 thousand | two scenes: prompts, with a job that carries a `/confirm`, tools, two records and the console's wipe: approvals, prompts, reads first; and resets, with three chats, two of them owners, and up to two jobs that carry reset messages: a wipe follows three messages in order and in time |
| `channels` | `MCChannels`, `channels.cfg` | 749 thousand | a device with Telegram or with Instagram, failures and restarts: what is lost or repeated has a reason the code gives, the owner's conversation is the one read, the mark waits for the answers, texts keep their order, pictures are whole, every message is handled |
| `turn` | `MCTurn`, `turn.cfg` | 253 thousand | turns with parallel calls, broken streams and full buffers; the button; the poller beside a turn: the agent runs what was answered, all of it and once, the model is told what ran, the trace bounds the rounds, every turn ends with one final text or as a failed turn without one, the face follows |
| `device` | `MCDevice`, `device.cfg` | 493 thousand | settings, facts and resets, updates, each with failing flash operations and power losses: RAM agrees with flash, acknowledged facts and resets hold, a confirmed image that works is always there, every start ends with a running device |
| `turns_reset`, `briefing_lost`, `telegram_long` | | | the disagreements of section 6 |

What each property is about is said where it is defined. Some need a word.

- The parts `PendingOwned` and `MissedRecordFits` of `StoreSound`, and
  `PendingKept` and `ReportCountsSkipped`, carry the condition that no save has
  failed (`faults = 0`): with a torn save they are false (section 6). Reboots
  between saves are allowed under the condition.
- `ReportCountsSkipped` compares two computations of the code: the count, in fixed
  seconds, and the next due time, on the local calendar. They agree but for a job
  of whole days moved over a change of the local clock, where the count may be
  one more or one less than the occurrences skipped (`OneOff`).
- `ArenaSound`, with its part `ApprovedOnce`, and `ResetDeliberate` have two
  claims each. For any jobs: what ran was answered under its own chat, in time
  and once, and a wipe took three messages under one owner's chat in order. That
  it was the chat itself which sent them is claimed as long as no job carries such
  a command: without the condition both are false (section 6).
- `ConversationKept` is a refinement: TLC and the proof follow the log with what
  was acknowledged and what was forgotten, so losing the conversation in any
  other way, or acknowledging a turn that is not stored, breaks it.
- `BriefingsSound`, with its parts `DeliveredUndisturbed`, `OneAtATime` and
  `OncePerDay`, carries the condition that no command came during a wait: without
  the condition it is false, which is what `briefing_lost` shows. Failed runs and saves, and reboots except in `OncePerDay`, are allowed
  under it.
- `OneMessagePerJob` and `RunsCurrentPrompt` hold until the first reset, after
  which ids start again (`turns_reset`). `TurnsSound` and `DueJobsRun` hold with
  resets.
- `NothingRepeated` compares how often an item was handled with the reasons the
  code has: a restart before the mark moved, a failed turn, a refused answer, a
  failed save, a new owner. `NothingLost` allows what a restart cuts off after
  Telegram was told, and what fell off Instagram's newest page.
- `AnsweredFirst` leaves out that a text of another turn came in between or that
  the idle bit came late (`muddled`): then the flush speaks of something else.
- `MessagesHandled` leaves out a channel that is stuck: behind an update larger
  than the poll buffer (`telegram_long`), or with a mark out of the pages' reach.
- `SettingsHold` leaves out keys whose operation failed or overlapped another
  one, until the next load: there the code lets RAM and flash differ.
- `OutcomesTold` says of the model's knowledge: until the turn is over, what the
  trace tells is what was run; and when a batch is done, all of it was run.
- `TurnsAnswered` says that a turn ends, with exactly one final text handed to the
  channel, or with none as a failed turn: of a job, or for an answer that was a
  mood alone. What becomes of a text handed over is in `Outbound`.
- `FaceTruthful` leaves out a photo given up by the poller in the middle of
  another's turn: the code then puts the face to rest (`photoFailed`).
- `SoundImageKept` and `UpAgain` rely on the image the device was flashed with
  (`First`): it works and is confirmed.
- `UpAgain` leaves out a confirmed image whose start fails, for which the code
  has no second try; the owner turns the device off and on (`PowerLost`).

### Bounds

- *Slots* (`N`): two in `sched_store`, where one job must not disturb another and
  the missed history can be full; one in `turns`, where the queue and agent
  multiply the states. What these runs check of safety is proved for every `N`.
- *Time*: up to six moments; in `sched_store` a day is two of them and the clock
  is set forward by one in the third day, so that jobs run late before, across and
  after the change. The scene of that change has no failing save, the other no job
  of a day. A job can be scheduled ahead, be late, be retried
  and be late again; `RetryAfter` and `MissedAfter` are 1, so a retry and
  lateness fit. One time unit is 30 s in the code's terms.
- *Chats*: jobs come into being in a turn, so one chat makes a job; the second
  one changes it while it waits, or is the immediate copy of `schedule_run`.
- *Ids*: two jobs in all, enough for a job to take the slot of another.
- *Queues*: one place (full is common) or two (messages of two jobs, or a job
  and its later twin).
- *Faults and reboots*: one or two each at any point, two reboots for the context
  store, so that a reboot can follow one in the middle of recovery. `turns` has
  no failed save: `sched_store` has them, and `TurnsImplementStore` carries its
  results over.
- *Context*: triggers of 3 turns and 4 bytes with turns of 1, 2 and 4 bytes make
  each trigger, both at once, and a single over-long turn occur.
- *Outbound*: three calls of up to two parts through two places: a full
  queue, both tasks in the middle of a call, and a flush across another's text.
- *Briefing*: two days of four moments, due at moment 0 or 2, catch-up of 1:
  in time, late, across midnight.
- *Permissions*: an arena of two records, two batches, three moments, a permission
  or reset living for one of them. In the scene of the prompts one owner asks and
  answers, one job has a `/confirm` of the first id, the clock moves past what was
  asked in one step, and a chat's own reset is over before it does. In the scene
  of the resets nothing needs permission, so that two jobs, three chats and
  messages in time and late fit. Reboots, wipes and mode changes are not bounded.
- *Channels*: three updates of the kinds that differ in who answers them, a lost
  poll, a restart; threads of up to three items and what is sent, two pages of
  two, one arrival, two failures: an arrival during a walk over two pages, a
  restart after a failed save, a change of owner cut off. One channel at a time:
  they meet only in the queue, whose other users appear as a job's turn, and the
  product is too large for TLC; the theorems are about both together.
- *Turn*: answers of up to two items in three styles, one failure of the provider,
  two messages, a trace of three entries and a request of two: three rounds of
  one call, or one round with a text and one of two calls, fill both. Two presses
  of the button, one lost frame.
- *Device*: three keys of which the agent sets one, five files (good, with an
  invalid value, a double key, an unknown key, empty), three operations; two
  slots and three saves, two resets; three releases, of which one is sound, and
  three updates; one or two failures and power losses in each scene. The parts
  share only the start, so a run is about one of them.

Deadlock is not checked, since the bounds stop the clock and the callers: the
modelled system stops when its time is over. What must go on is stated as a
liveness property.

## 4. Assumptions

*NVS.* A blob write or erase either takes effect or leaves the old value. In the
job store and the context store a failed write changes nothing; in `Instagram`,
`Settings` and `Facts` it may also have taken effect. For the
context store a description may also be lost when power goes during its write,
since the code checks for it. `nvs_erase_all` is one step; a failed one in
`Settings` erases any of the keys.

*Time.* The clock never steps back once set, and does not move before it is set;
the local clock is set once against it (daylight saving), by less than a day, and
of a local time that comes twice or never `mktime` takes the standard one.
A job store operation reads it once. The 32-bit counters of ids, sequences and
generations are taken not to wrap.

*Scheduling.* A step is what runs under a lock, or between two calls by which
tasks can see each other. Where there is no lock (the permission arena) a step
is what lies between two writes that the other core may see.

*Fairness.* `FairTurnsSpec`: time passes, the clock is set, Wi-Fi comes back
(`mp_wifi.c` reconnects on each disconnect), the scheduler and agent tasks are
scheduled (weak fairness), and a task that waits for `s_lock` gets it in the end
(strong fairness of `AskShouldRun` and `FinishTurn`, because the pass takes the
lock again and again; FreeRTOS mutexes queue their waiters by priority).
`FailTurn`, resets, chats and drops are not fair, and are bounded. `FairSpec` of
`Outbound`: the same for producers, sender and Wi-Fi; `Take` is strongly fair
for the same reason. No fairness is asked of `Call` and `Flush`.
`FairSpec` of `Briefing`: both tasks run and the clock is set after a boot.
`ChannelsSpec`: the device goes on while one of its tasks can (weak fairness of
all of them together; each blocks on a queue or an event that another serves,
and a turn ends because each request has a timeout); people, failures and
restarts are not fair. `TurnSpec`: agent, client, sender, poller and display go
on, each while it can, and the display's round comes again with a blink of the
eyes, which the code makes every few seconds. `DeviceSpec`: a start goes on by
itself, and an update that is done restarts. No model assumes that a request
succeeds; the failures that are tried again without end are bounded.

## 5. Proofs

The theorems hold for every value of the constants that satisfies the named
assumption of each module (`SchedulerAssumption`, `TurnsAssumption`,
`LocalTimeAssumption`, `OutboundAssumption`, `ContextAssumption`, `BriefingAssumption`,
`PermissionsAssumption`, for the channels `AgentQueueAssumption`,
`TelegramAssumption`, `InstagramAssumption`, `StartsAssumption` and
`ChannelsAssumption`, for the turn `ModelClientAssumption`, `DisplayAssumption`
and `TurnAssumption`, and for the device `SettingsAssumption`,
`FactsAssumption`, `FirmwareAssumption` and `DeviceAssumption`): any number of
slots, tasks, chats and tools, any repeat periods, any number of faults,
reboots, resets and messages, any answers of the model, any queue length,
triggers and sizes. The bounds
of TLC are constants like any other. The assumptions say that these are numbers
or non-empty sets of the right kind, and nothing of how the system runs;
`StartsAssumption` adds that a mark found in flash at the first boot is an item
of a thread.

Each proof has the same order: the inductive invariant in named parts, a lemma
that splits `Next` into the steps of single operations, one lemma or step for
each of them, and the theorems. TLC checked every inductive invariant on the
component's run before it was proved.

### SchedulerProofs

| theorem | property | inductive invariant |
|---|---|---|
| `TypeCorrect` | `TypeOK` | itself |
| `IdleSlotsStayClean` | `IdleSlotsClean` | `MarksInv` |
| `IdsStayUnique`, `PromisesKept`, `FinishedStaysGone` | `JobIdsUnique`, `PromisedStored`, `FinishedGone` | `StoreInv` |
| `PendingStaysOwned` | `PendingOwned` | `PendingInv` |
| `MissedRecordsFit` | `MissedRecordFits` | `PendingInv`, by counting |
| `StoreStaysSound` | `StoreSound`: the four above that the runs check together | theirs |
| `ReportsAddUp` | `ReportCountsSkipped` | `CountsInv` |
| `PendingRemindersKept` | `PendingKept` | `PastInv` |

- `MarksInv` adds to the types that the slot under the cursor is due
  (`CursorDue`): without it a pass could mark an empty slot in flight.
- `StoreInv` joins the three properties, because each step that saves writes
  *all* jobs: a promise about one job is kept by the save of another only if the
  RAM it writes is right for every job. It adds `FinishedUsed`: finished ids lie
  below the id counter of RAM and of flash, so a reboot cannot hand one out
  again. One lemma (`SlotStep`) covers all operations that change one slot.
- `PendingInv` adds `StoredAsIs`: while no save has failed, flash holds what RAM
  holds, so that a reboot changes no record; and the marks, since a job found
  late must be an active one.
- `MissedRecordsFit` is a pigeonhole argument: if no record is free or
  delivered, all `N` are pending, each owned by another of `N` active jobs, so
  the late job owns one (by injectivity on a finite set).
- `CountsInv` adds that a pending record never counts more than its job's
  occurrences up to now, and that the pass works with a time that is not ahead
  of the clock; so the maximum taken at delivery is `Occurrences` at that moment.
  How far the due time then moves is shown in `AdvancedStep`: the least number of
  repeats that is past is that count, or differs by one for a job on the calendar
  whose repeats take it over the change of the clock (`RepeatedShape` bounds what
  the change adds).

The same module has the theorems about `ScheduledTurns`.

`TurnsImplementStore` shows that every step of the composition is a step of the
store or leaves it alone, so that all theorems above hold of it too. With
them, `CarriedInv` (a job in flight has a message; an empty turn carries
nothing) proves `InflightJobsCarried` and, with the types, `TurnsStaySound`;
`SpeakInv` proves `CurrentPromptRuns`
and `OneMessageEach`: until a reset, a message names an id that was handed out,
says what its job says while the job is in flight, and shares its id with no
other message of a job in flight.

### DeviceProofs

`ResetHolds` (`ResetStays`): nothing from before an answered reset is there or
comes back. `ResetStays` alone is not inductive: a reset that is half done has
not answered yet, and when it does, all five stores must already be young
enough. `ResetInv` says for each reset under way which stores it has passed and
that they hold nothing older than it (`Passed`), that ages never run ahead
(`AgesTyped`), and that no reset is under way while the device starts (`Quiet`),
which is what lets the migration of the legacy conversation through: a reset
empties the history in RAM before its age is claimed of anything. `StepsOfFacts`
reduces a step of the whole device to one of the facts' own, one of the start, a
power loss or none. No assumption is made on failures or on who resets.

`SavedFactsStay` (`FactsKept`): an acknowledged fact stays until as many later
saves as there are slots were tried. The code finds the oldest slot by the
least sequence number, so `KeptInv` needs that sequence numbers tell the age of
facts (`InOrder`: an older entry holds an older fact, and no fact is there
twice), in RAM and in flash separately, because a failed save leaves them apart,
and that each holds every fact that ought to last (`Holds`). That the slot a
save takes never holds one of those is a pigeonhole argument
(`OldestSlotFound`, `OldestSlotDone`): if it did, all slots would hold facts of
the last `Slots - 1` saves.

`SettingsStayHeld` (`SettingsHold`): the settings in RAM are the ones a reboot
would load. The invariant `SettingsInv` says what is true in the middle of an
operation: a set has its key in flash and not yet in RAM; an import has the keys
it has come to in flash, has not touched the others, and its copy agrees with
flash on the keys the file does not name (`ImportSound`); an erase has nothing
in flash. It holds of the keys that are not spoiled, and a key that both writers
touch is always spoiled (`Agrees`), which is what makes the steps of one
harmless to what is claimed of the other. `NobodyWrites` says that no operation
is under way while the device starts, so that loading finds flash at rest.

`SoundImageStays` (`SoundImageKept`) is the safety half of `UpAgain`: whatever is
downloaded, breaks off, fails or crashes, one slot holds a confirmed image that
works, so that the bootloader finds one. The property speaks of the slots, but
what keeps it depends on how far the start and the update are: `ImagesInv` says that the running image is confirmed or on probation and the
other one is not on probation meanwhile; that an update is only under way on a
confirmed image; and that whoever gets as far as the confirmation has
initialised. A confirmed image that is whole works, and an image on probation
therefore leaves the other slot alone and confirmed.

### TurnProofs

| theorem | property | invariant |
|---|---|---|
| `TurnCorrect` | the inductive invariant `TurnInv` | itself |
| `AnswersAsSent` | `AnswerAsSent` | `ClientInv` |
| `AllOutcomesTold` | `OutcomesTold` | `RanInv`, `ToldInv` |
| `TurnsAreBounded` | `TurnBounded` | `BoundInv` |
| `FaceIsTruthful` | `FaceTruthful` | `FaceInv` |
| `PressSwitchesOnce` | `OnePressOneSwitch` | `ButtonInv` |
| `OverAnswered` | the safety half of `TurnsAnswered`: one final text, or a failed turn with none and why | `FinalInv` |

The events of an answer arrive in any interleaving of its items, for answers of
any length and buffers of any size.

- *The client* (`ClientInv`). What is handed over at the end is right only if all
  along the arena is a picture of what was sent: `Asked` says what the provider
  may have sent (items begin in order, texts one after the other); `InOrder` that
  an item has at most one record in use, and that the orders of records in use
  go with their items, although a record is committed again when its arguments
  come; `CallsRead` that each call begun has its record, pending or ready as far
  as its events are; `TextRead` the same of the pieces of text. All four hold of
  `Received` for whole and for torn content (`CallRead`, `SayRead`), so that both
  ends, `EndOfStream` and `CutOff`, follow from one lemma (`HandedOver`). After
  an error (`Overflow`) nothing is claimed, and nothing is handed over.
- *The calls* (`RanInv`). They run by round and, within a round, by item
  (`Earlier`), so none runs twice; during a batch, what ran in this round are
  exactly the ready calls up to `offset`, so at its end it is all of them. For
  that the client must rest while the batch runs (`ClientRests`).
- *What is told* (`ToldInv`). `Outcomes` is a recursive function over the trace;
  it is shown to grow with the trace (`OutcomesGrow`) by taking the least place
  where two candidates differ. Only the turn that ends for want of room has run a
  call more than it has told.
- *The length* (`BoundInv`). A batch has a call left when it begins, and each call
  leaves an entry: this is what ends a turn, since no round is counted.
- *The final text* (`FinalInv`). Up to the answer none was sent; from there on one
  was taken by the channel, or the turn goes on as failed with an answer that was
  left without text.
- *The face* (`FaceInv`). The two flags are tied to their causes: busy to a turn
  or a photo, response to a response that is yet to be ended.
- *The button* (`ButtonInv`). Once a press has switched, the task that would see
  it has it as held, and the timer as not released yet.

### OutboundProofs

| theorem | property | inductive invariant |
|---|---|---|
| `QueueStaysSound` | `QueueSound` | `SoundInv` |
| `TextsStayUnbroken` | `TextsUnbroken` | `OrderInv` |

`SoundInv` is over the control places of any set of tasks: the mutex is held by
the task that is inside (`MutexHeld`), so at most one task is between its count
and its queue, and the sender is the only other one who counts. The count is a
sum over queue, sender and that task, and the bit may be wrong only while one
of the two has still to set or clear it. `OrderInv` puts the part the sender
works on before the queue: what is on the way is linked (each part is followed
by the next of its text, or a text is whole and another begins), and when nobody
is filling it ends with a whole text. A text that is queued is never taken back
(`Calls`: only the typing mark is), which is why a full queue does not break one.

### ContextProofs

| theorem | property | invariant |
|---|---|---|
| `ContextInvariant` | the inductive invariant `ContextInv` | itself |
| `ContextStaysSound` | `ContextSound` | `ContextInv` |
| `PlansKeepUp` | `CompactionKeepsUp` | `ContextInv` |
| `StoreImplementsLog` | `ConversationKept`, the refinement of `ConversationLog` | `ContextInv` |

Everything is said of one description, `Here`: the one a boot would choose. It
is the one in RAM, but after a commit, while the agent still erases what the
summary replaces, it is already the new one in flash. Nothing else in flash is as
new (`Current`); it describes turns up to the last attempt (`Written`); these
turns and its summary are there, and its bytes are theirs (`Whole`); and what it
tells was said (`Spoken`). `Drafts` and `Erasing` tie the steps of a
compaction to the plan that began them. A description that tears is the one being
written, over the older of the two banks; so a boot finds `Here` in any case. The
refinement shows for each step that what a boot would tell is as before, or has
the turn at its end that the step acknowledges, or is emptied by the `/forget` the
step carries out; for a failed write or a torn description that is `Here` again. The byte count is a recursive function over
the turns; with the library's induction theorems out of reach, facts about it
are proved by taking a least counterexample. `Bytes` is the difference of two
such sums (`SizeTo`).

### BriefingProofs

| theorem | property | inductive invariant |
|---|---|---|
| `DeliveredDaysHadTheirs` | `DeliveredUndisturbed`, a part of the next | `WaitInv` |
| `BriefingsStaySound` | `BriefingsSound` | `BriefingInv` |

`WaitInv`: while no command has disturbed the wait, at most one briefing is in
the queue or running, only while the task waits for it, with nothing notified yet
and for the day it waits for; so a notification of success means that this day
was run. `OnceInv`: a day that was run is behind what is stored or is the one
whose result the task has still to store, so it is not due again. Both are claimed
under the conditions of the properties (section 3).

### PermissionsProofs

| theorem | property | inductive invariant |
|---|---|---|
| `ArenaStaysSound` | `ArenaSound` | `ArenaInv`, `AnswersInv`, `JobsInv` |
| `ChangesFollowReads` | `ReadsFirst` | `TurnInv` |
| `ResetTakesThreeMessages` | `ResetDeliberate` | `ResetInv`, `JobsInv` |

`ArenaInv` describes the cells although the console may wipe them between any
two steps: no record is in two cells, a record that was told is in use, one that
was not yet told is the one being published and in the cell where the count will
find it, and zeroed cells are in use only when no prompt waits (`Clear`), which
is why a purge that spins forever leaves nobody's answer behind. `AnswersInv`
follows a record from the answer to the call: what has run, or is about to, is in
no cell, so no second answer can find it. `TurnInv` adds the batch a tool was
first read in; `ResetInv` that the messages heard are as many as the steps made,
all of the chat that began, and that its five minutes began with the first;
`JobsInv` that what was answered or said in a chat's place was the prompt of a
job of that chat.

### ChannelsProofs

| theorem | property | invariant |
|---|---|---|
| `ChannelsInvariant` | the inductive invariant `DeviceInv` | itself |
| `NothingIsLost` | `NothingLost` | `DeviceInv`, `PicturesInv` |
| `NothingIsRepeated` | `NothingRepeated` | `DeviceInv` |
| `OnlyTheOwnerIsRead` | `OwnersOnly` | `DeviceInv` |
| `AnswersComeFirst` | `AnsweredFirst` | `DeviceInv` |
| `PicturesStayWhole` | `PicturesWhole`, a part of `NothingLost` | `PicturesInv` |
| `TextsKeepOrder` | `TextsInOrder`, an action property | `DeviceInv` |
| `SkippedStaySkipped` | `SkippedStay`, an action property | `DeviceInv`, `SkippedInv` |

They are about a device with any number of updates, people, items, pages, texts,
failures and restarts, and with one channel or both, which TLC cannot check
together. `DeviceInv` is one invariant, because the channels meet in the agent's
queue: each needs to know that the other's messages are not its own.

- *The agent* (`AgentInv`). No two messages with the agent are for the same
  update, and at most one came over Instagram, whose poller waits for each
  (`Apart`). Texts and pictures stand in the queue by their numbers (`InLine`),
  although a command goes to the front.
- *Telegram* (`TelegramInv`). `Frontier` is the higher of what the poller has and
  what Telegram was told, since a restart forgets the one and not the other.
  What ends beyond it was ended by an earlier boot and is counted in `redone`
  (`CountInv`); a message with the agent lies behind it, or is the photo the
  poller waits for (`HeldInv`, `PhotoInv`).
- *Instagram's walk* (`WalkInv`). The thread grows under the walk, so a page
  fetched again is not the page it was. `Linked` says of the cursors that each is
  not above the bottom of the page before it as that is now: only the newest page
  moves, and only upwards. So what `Back` leaves out is between the last cursor
  and the new bottom, and that is what it adds to `skipped`.
- *Lost and repeated* (`LostInv`, `RepeatInv`). All behind the mark in RAM, the
  mark in flash and the place of the walk is handled or skipped, each claimed
  apart, since a failed save moves the one in flash alone. An item is handled
  once more than it was given up only if it is behind both marks or is the
  item in hand with its turn over.
- *The owner* (`OwnersInv`). Participant and conversation go with the name in
  flash, unless the change of the name was cut off (`torn`).
- *Answers* (`AnswersInv`). The count is that of the texts under way; the idle bit
  is wrong only while the poller or the turn of the item stands between the count
  and the bit (`Speaks`), or late (`muddled`); and of the texts since the item,
  those not under way were refused, with the error still there. This is what the
  flush reads.
- `EnabledInv`: a channel that is not configured does nothing.

The proof is laid out by frames: a step of one channel leaves the variables of
the other, and each part of the invariant names the few variables it reads.

### Only model-checked

Liveness under fairness (`DueJobsRun`, `FlushEnds`, `DaysSettled`,
`MessagesHandled`, `TurnsAnswered`, `ScreenFollows`, `UpAgain`), which is outside
the prover's reach. Of `TurnsAnswered` and `UpAgain` the safety halves are proved:
what a turn is when it is over and that its rounds are bounded, and that there is
an image to come up with.

## 6. Disagreements found

Each is a run that ends in a counterexample.

| run | what happens | what is said |
|---|---|---|
| `turns_reset` | a job's message waits in the agent's queue, the store is reset and ids start at 1 again; a new job gets the same id and goes in flight, and the old message runs in its name and completes it | `mp_agent.c:350`, a reset removes jobs |
| `briefing_lost` | a `/briefing` command notifies the briefing task while it waits for the agent; it takes the increment as success, records the day as delivered, and the run then fails | `docs/CONFIG.md:93`, runs once per local day |
| `telegram_long` | a text within Telegram's limit grows past the 6,144 bytes of the poll's answer when JSON escapes its characters; the poll fails before the offset moves, and the same update is asked for for ever: neither it nor what follows is answered | `mp_telegram.c:259`, a message that is too long is answered |

### Known limits

Seven more statements that a reader of the code or its docs might expect, and
that do not hold. They are defined beside the properties that do hold; put in
place of the properties of the configuration named, TLC finds the counterexample
within half a minute.

| property | configuration | what happens |
|---|---|---|
| `Scheduler!PendingIsDeliverable` | `sched_store.cfg` | the jobs blob is written, the missed blob is not, power goes: after the boot a reminder is listed as pending (`docs/COMMANDS.md:9`) for a job that is gone, and stays so; enough of them fill the history |
| `Scheduler!RepeatsKeepLocalClock` | `sched_store.cfg` | a daily job's time of day is left out when the local clock is set forward; the next time is made from the last one (`mp_time.c:80`), so the job is due an hour later ever after, where `test_time.c:74` has daily repeats keep their local clock |
| `Outbound!FlushMeansDelivered` | `outbound.cfg` | the agent's text is refused; before its flush reads the error another task's first `pending_add` clears it; the flush reports success and the job is completed |
| `Permissions!PromptNamesCall` | `permissions.cfg` | a prompt names id 1000, a reset or restart follows, the next prompt is 1000 again; the answer to the first (`mp_tools.c:704`) approves the second call |
| `Permissions!ApprovedByChat` | `permissions.cfg` | a turn stores a job whose prompt is `/confirm ID`; when the job's message is taken, `handle_command` (`mp_agent.c:142`) answers the pending permission with it, and the call runs although the chat did not send it (`mp_tools.c:704`; `docs/CONFIG.md:63`, `permission` asks through Telegram) |
| `Facts!ForgottenStays` | `device.cfg` | the migration's append fails at a boot, so the legacy conversation stays; after `/forget` (`docs/COMMANDS.md:13`) the context is empty, and the next boot migrates it again |
| `Telegram!LastCommandWins` | `channels.cfg` | two commands wait while a turn runs; each was put in front, so the newer runs first and the older one's setting stays (`docs/COMMANDS.md:11`) |

Three more that the properties state as they are:

- a late report of a daily or weekly job may be one occurrence off when the local
  clock was set in between (`ReportCountsSkipped`, `mp_scheduler.c:496`);
- a chat's reset may be spoken by jobs of the chat (`ResetDeliberate`,
  `mp_agent.c:142`);
- an answer that is a mood and no text leaves the chat without an answer, and the
  turn counts as failed (`TurnsAnswered`, `mp_telegram.c:679`).

## 7. What is not modelled

- *Content*: texts, prompts, tool arguments, requests, parsing and formatting.
- *Lists*: operations that only read and format.
- *Metrics*: counters that no other component reads.
- *Bytes*: of media, of JSON, of requests and of frames on the panel.
- *The console's `forget` against the agent's append*: the context store is
  modelled with one user; the hazard is listed.
- *A store of another firmware's layout*, which loads as an empty one.
- *Dates in words*: what a date or a time of day in a tool call stands for, and a
  second change of the local clock.
- *A late answer lost after Telegram accepted a text*: the sender sends it again
  and the owner sees it twice; nothing in the device can tell.
- *Gmail, Calendar, search, pages, feeds, HTML*: what a tool call does outside;
  the agent sees a result or an error, and that is how they appear.
- *Sessions of the other clients*: `mp_net.c` is modelled as the model client
  uses it; each other client has a session of its own and uses it alike.

## 8. Plan

Done: the modules of section 2 and the proofs of every safety property that a
passing run checks. What would come next, the most important first:

1. **Two users of the context store.** The console's forget between the steps of
   an append or a compaction.
2. **A year of local time.** `LocalTime` with two changes of the clock, forward
   and back, and the briefing's time of day on it.
3. **A channel with a store of its own.** The `Outbound` steps in place of the
   short outbound half of `Instagram`, with a refinement between the two.
