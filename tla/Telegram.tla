------------------------------ MODULE Telegram ------------------------------
(***************************************************************************)
(* What arrives over Telegram (mp_telegram.c): the task that polls for one *)
(* update at a time, what it does with each kind of update, and the offset *)
(* that tells Telegram which updates need not be sent again.  The offset   *)
(* is only in RAM and travels with the next poll, so a restart meets       *)
(* Telegram's own mark: what the device had taken and not yet acknowledged *)
(* comes again, and what it had acknowledged and not yet run is lost.      *)
(***************************************************************************)
EXTENDS AgentQueue, FiniteSets

CONSTANTS
  MaxUpdates, \* bound: updates people send
  MaxPollDrops \* bound: polls that fail

ASSUME TelegramAssumption == {MaxUpdates, MaxPollDrops} \subseteq Nat

(* What an update holds: a text, a command the agent runs, one the poller  *)
(* answers, a photo (its caption may look like a command), a voice note,   *)
(* something unsupported, anything of another chat, or more than the poll  *)
(* buffer takes (a long text of characters that JSON escapes).             *)
UpdateKinds == {"text", "command", "quick", "photo", "slashed", "voice", "other", "foreign", "long"}
Updates     == 1..MaxUpdates

VARIABLES
  updates,   \* the updates Telegram holds, by number
  told,      \* the highest update Telegram was told to forget
  offset,    \* s_offset - 1: the highest update processed, 0 after a boot
  poller,    \* where telegram_task is, and with which update
  pollDrops, \* polls that failed
  ends,      \* how often the handling of an update came to its end
  redone,    \* how often a boot took an update and the next met it again
  cut,       \* acknowledged updates a boot had not run when it ended
  setting    \* the update whose command set the device last

telegramState   == <<updates, told, offset, poller, pollDrops>>
telegramHistory == <<ends, redone, cut, setting>>
telegram        == <<telegramState, telegramHistory>>

Polling == [at |-> "poll", n |-> 0]
Channel == "telegram"

TelegramInit ==
  /\ updates = <<>> /\ told = 0 /\ offset = 0 /\ poller = Polling /\ pollDrops = 0
  /\ ends = [n \in Updates |-> 0] /\ redone = [n \in Updates |-> 0]
  /\ cut = {} /\ setting = 0

Message(n, kind, waits, picture) ==
  [from |-> Channel, n |-> n, kind |-> kind, waits |-> waits, picture |-> picture]

(* Someone writes.                                                         *)
Write(kind) ==
  /\ Len(updates) < MaxUpdates
  /\ updates' = Append(updates, kind)
  /\ UNCHANGED <<agent, told, offset, poller, pollDrops, telegramHistory>>
----------------------------------------------------------------------------
Higher(a, b) == IF a > b THEN a ELSE b

(* getUpdates: Telegram forgets what is below the offset and answers with  *)
(* the first update it still has, or none.  What the poll buffer cuts off  *)
(* is an invalid response: the offset stays where it is.                   *)
PollAnswered ==
  /\ poller.at = "poll"
  /\ told' = Higher(told, offset)
  /\ poller' = IF told' < Len(updates) /\ updates[told' + 1] # "long"
               THEN [at |-> "process", n |-> told' + 1] ELSE Polling
  /\ UNCHANGED <<agent, updates, offset, pollDrops, telegramHistory>>

(* The poll or its answer is lost, and telegram_task sleeps.               *)
PollFails ==
  /\ poller.at = "poll" /\ pollDrops < MaxPollDrops
  /\ pollDrops' = pollDrops + 1
  /\ told' \in {told, Higher(told, offset)}
  /\ UNCHANGED <<agent, updates, offset, poller, telegramHistory>>

(* process_update has returned ESP_OK.  Mutant: the offset stays.          *)
ProcessedInPlace(n) == offset' = offset /\ poller' = Polling
Processed(n)        == offset' = n /\ poller' = Polling

Ended(n) == ends' = [ends EXCEPT ![n] = @ + 1]

(* Another chat, or nothing to read: passed over.                          *)
Ignore ==
  /\ poller.at = "process" /\ updates[poller.n] = "foreign"
  /\ Processed(poller.n) /\ Ended(poller.n)
  /\ UNCHANGED <<agent, updates, told, pollDrops, redone, cut, setting>>

(* A media file, in units of half the media arena: its size, whether       *)
(* Telegram reports the size, how much of it comes, whether the request    *)
(* succeeds, and the type the download states.                             *)
MediaArena == 2
Files == {f \in [full : 0..3, sized : BOOLEAN, sent : 0..3, ok : BOOLEAN,
                 type : {"image", "audio", "stream", "page"}] : f.sent <= f.full}

(* download_file: what exceeds the arena is cut, and a cut file, an empty  *)
(* one, or one of another size than reported is refused.                   *)
(* Mutant: without the comparison of the sizes.                            *)
DownloadedUnmeasured(f) ==
  /\ f.ok /\ f.type # "page"
  /\ f.sized => f.full <= MediaArena
  /\ f.sent \in 1..MediaArena
Downloaded(f) ==
  /\ f.ok /\ f.type # "page"
  /\ f.sized => f.full <= MediaArena
  /\ f.sent \in 1..MediaArena
  /\ f.sized => f.sent = f.full

TakenPhotos == {f \in Files : Downloaded(f) /\ f.type \in {"image", "stream"}}
TakenVoices == {f \in Files : Downloaded(f) /\ f.type \in {"audio", "stream"}}
Picture(f)  == IF f.sent = f.full THEN "whole" ELSE IF f.sized THEN "cut" ELSE "unsized"
Pictures    == {Picture(f) : f \in TakenPhotos}

(* The poller itself answers: a quick command, an unsupported message, and *)
(* a photo or a voice note it cannot take, or that has no transcription.   *)
AnswerInPlace ==
  /\ poller.at = "process"
  /\ \/ updates[poller.n] \in {"quick", "other"}
     \/ updates[poller.n] \in {"photo", "slashed"} /\ TakenPhotos # Files
     \/ updates[poller.n] = "voice"
  /\ Processed(poller.n) /\ Ended(poller.n)
  /\ UNCHANGED <<agent, updates, told, pollDrops, redone, cut, setting>>

(* A text, or what a voice note says: it may start with a slash.           *)
Texts(kind) == CASE kind = "text"    -> {"text"}
                 [] kind = "command" -> {"command"}
                 [] kind = "voice"   -> IF TakenVoices = {} THEN {} ELSE {"text", "command"}
                 [] OTHER            -> {}

SubmitText ==
  /\ poller.at = "process"
  /\ \E kind \in Texts(updates[poller.n]) : Submit(Message(poller.n, kind, FALSE, ""))
  /\ Processed(poller.n)
  /\ UNCHANGED <<running, notified, updates, told, pollDrops, telegramHistory>>

(* process_photo holds the picture until the turn has used it.             *)
SubmitPhoto ==
  /\ poller.at = "process" /\ updates[poller.n] \in {"photo", "slashed"}
  /\ \E picture \in Pictures :
       SubmitAndWait(Message(poller.n, IF updates[poller.n] = "photo" THEN "image" ELSE "slashed",
                             TRUE, picture))
  /\ poller' = [poller EXCEPT !.at = "wait"]
  /\ UNCHANGED <<running, updates, told, offset, pollDrops, telegramHistory>>

(* However the turn went, the photo has been processed.                    *)
PhotoDone ==
  /\ poller.at = "wait" /\ notified[Channel] # 0
  /\ Processed(poller.n)
  /\ notified' = [notified EXCEPT ![Channel] = 0]
  /\ UNCHANGED <<queue, running, updates, told, pollDrops, telegramHistory>>

Process == Ignore \/ AnswerInPlace \/ SubmitText \/ SubmitPhoto \/ PhotoDone
----------------------------------------------------------------------------
(* The agent's turn for an update of this channel ends.  A command sets    *)
(* something: /briefing, a tool's mode, a reset.                           *)
TelegramTurnEnds ==
  /\ running # <<>> /\ running[1].from = Channel
  /\ \E success \in BOOLEAN : TurnEnds(success)
  /\ Ended(running[1].n)
  /\ setting' = IF running[1].kind = "command" THEN running[1].n ELSE setting
  /\ UNCHANGED <<telegramState, redone, cut>>

Held == {m.n : m \in {h \in InAgent : h.from = Channel}}

(* The device restarts; Telegram keeps its mark and the updates above it.  *)
TelegramReboot ==
  /\ offset' = 0 /\ poller' = Polling
  /\ cut' = cut \cup {n \in Held : n <= told}
  /\ redone' = [n \in Updates |->
                 IF n > told /\ n <= Higher(offset, poller.n) THEN redone[n] + 1 ELSE redone[n]]
  /\ UNCHANGED <<updates, told, pollDrops, ends, setting>>
----------------------------------------------------------------------------
TelegramTypes ==
  /\ updates \in Seq(UpdateKinds) /\ Len(updates) <= MaxUpdates
  /\ told \in 0..Len(updates) /\ offset \in 0..Len(updates)
  /\ poller \in [at : {"poll", "process", "wait"}, n : 0..MaxUpdates]
  /\ pollDrops \in 0..MaxPollDrops /\ setting \in 0..MaxUpdates
  /\ ends \in [Updates -> Nat] /\ redone \in [Updates -> Nat] /\ cut \subseteq Updates

(* An update Telegram has forgotten was handled to its end, or is with the *)
(* agent, or was with the agent when the device restarted: nothing else    *)
(* loses what the owner wrote (the RAM offset of mp_telegram.c:218, the    *)
(* blocking submit).                                                       *)
UpdatesNotLost ==
  \A n \in 1..Higher(told, offset) : ends[n] > 0 \/ n \in Held \cup cut

(* An update is handled again only by a boot that met it again because the *)
(* one before had not acknowledged it: never twice in one boot.            *)
UpdatesNotRepeated ==
  \A n \in Updates : ends[n] + Cardinality({n} \cap Held) <= 1 + redone[n]

(* A picture that reaches the agent is whole, unless Telegram had not said *)
(* how large it is: a connection that ends early looks like the end.       *)
PicturesWhole == \A m \in InAgent : m.picture # "cut"

(* Of what is not a command the agent starts the oldest first: no text or  *)
(* picture overtakes an earlier one (submit_message puts only commands to  *)
(* the front).                                                             *)
TextsInOrder ==
  [][\A m \in {running'[i] : i \in 1..Len(running')} :
       running = <<>> /\ m.from = Channel /\ m.kind # "command"
         => \A h \in InAgent : h.from = Channel /\ h.kind # "command" => h.n >= m.n]_<<agent, telegram>>

(* docs/COMMANDS.md:11: /briefing changes the setting immediately.  When   *)
(* all updates are handled, the device is set as the last command of the   *)
(* owner set it; mp_agent.c:985 runs waiting commands newest first.        *)
LastCommandWins ==
  (offset = Len(updates) /\ Held = {})
    => \A n \in 1..Len(updates) : updates[n] = "command" => setting >= n

(* An update still to be handled, and one behind what the poll cannot read.*)
Waiting(n) == n <= Len(updates) /\ ends[n] = 0 /\ n \notin cut
Stuck(n)   == \E k \in 1..n : updates[k] = "long"

(* mp_telegram.c:259 answers a message that is too long: "Unsupported      *)
(* media or message too long for the device input buffer."  A long text of *)
(* escaped characters never gets that far, and neither does what follows.  *)
LongMessagesAnswered == LET Some == \E n \in Updates : Waiting(n) IN Some ~> ~Some
=============================================================================
