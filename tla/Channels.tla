------------------------------ MODULE Channels ------------------------------
(***************************************************************************)
(* The channels on one device: Telegram's poller and Instagram's task put  *)
(* the owner's messages in one queue, one agent runs their turns, and a    *)
(* restart takes away what is only in RAM.  A channel that is not          *)
(* configured never starts (mp_telegram_start, mp_instagram_start).        *)
(***************************************************************************)
EXTENDS Telegram, Instagram

CONSTANTS
  Setups,     \* bound: the sets of channels the configuration may start
  Writings,   \* bound: the kinds of update people send
  Arrivals,   \* bound: the kinds of item that arrive
  MaxReboots  \* bound: restarts of a device with Telegram

ASSUME ChannelsAssumption ==
  /\ {"telegram", "instagram", "jobs"} \subseteq Channels
  /\ Writings \subseteq UpdateKinds /\ Arrivals \subseteq Incoming /\ MaxReboots \in Nat

VARIABLES
  enabled, \* the channels of the configuration
  reboots  \* restarts so far

device == <<enabled, reboots>>
all    == <<agent, telegram, instagram, device>>

ChannelsInit ==
  /\ AgentInit /\ TelegramInit /\ InstagramInit
  /\ enabled \in Setups /\ reboots = 0

(* What a channel's tasks do leaves the other channel alone.               *)
TelegramTasks == "telegram" \in enabled /\ UNCHANGED <<instagram, device>>
InstagramTasks == "instagram" \in enabled /\ UNCHANGED <<telegram, device>>

TelegramPoller == TelegramTasks /\ (PollAnswered \/ Process)
TelegramTurn   == TelegramTasks /\ TelegramTurnEnds
TelegramWorld  == TelegramTasks /\ (PollFails \/ \E kind \in Writings : Write(kind))

InstagramPoller ==
  /\ InstagramTasks
  /\ \/ Load \/ Switch \/ FindBound \/ FindByName \/ Baseline \/ Find \/ Back \/ SyncEnds
     \/ SkipOut \/ SkipDeleted \/ SubmitIg \/ IgTurnDone \/ IgFlush \/ Save \/ SayOdd

InstagramOut ==
  /\ InstagramTasks
  /\ \/ ClearIdle \/ QueuePart \/ Accepted \/ PendingComplete \/ SetIdle
     \/ TurnSays \/ IgTurnEnds \/ JobTurnEnds

InstagramWorld ==
  /\ InstagramTasks
  /\ \/ SetOwner \/ SwitchFails \/ FindUnsaved \/ BaselineFails \/ FetchFails \/ SaveFails \/ JobSubmitted \/ Refused
     \/ \E p \in People, kind \in Arrivals : Arrive(p, kind)

AgentStep == TurnStarts /\ UNCHANGED <<telegram, instagram, device>>

Reboot ==
  /\ AgentReboot
  /\ IF "telegram" \in enabled
     THEN TelegramReboot /\ reboots < MaxReboots /\ reboots' = reboots + 1
     ELSE UNCHANGED <<telegram, reboots>>
  /\ IF "instagram" \in enabled THEN InstagramReboot ELSE UNCHANGED instagram
  /\ UNCHANGED enabled

ChannelsNext ==
  \/ TelegramPoller \/ TelegramTurn \/ TelegramWorld
  \/ InstagramPoller \/ InstagramOut \/ InstagramWorld
  \/ AgentStep \/ Reboot

(* The device goes on while one of its tasks can: FreeRTOS runs a ready    *)
(* task, a poll or a text that fails is tried again, and a turn ends       *)
(* because every call of the model provider has a deadline.                *)
Tasks == TelegramPoller \/ TelegramTurn \/ InstagramPoller \/ InstagramOut \/ AgentStep

ChannelsSpec == ChannelsInit /\ [][ChannelsNext]_all /\ WF_all(Tasks)
----------------------------------------------------------------------------
ChannelsTypes == TelegramTypes /\ IgTypes

(* No channel loses a message, or hands over a part of a picture for it:   *)
(* see UpdatesNotLost, IgNotLost and PicturesWhole for what a restart and  *)
(* a thread that grows may still take away, and what nobody can tell.      *)
NothingLost == ChannelsTypes /\ UpdatesNotLost /\ IgNotLost /\ PicturesWhole

(* No message is handled again but for the reasons the code has for it.    *)
NothingRepeated == UpdatesNotRepeated /\ IgNotRepeated

(* Whatever the owner writes is handled to its end, or a restart lost it,  *)
(* or the channel passed it over, unless the channel is stuck: behind an   *)
(* update larger than the poll buffer, or with its mark out of reach.      *)
Overdue ==
  \/ "telegram" \in enabled /\ \E n \in Updates : Waiting(n) /\ ~Stuck(n)
  \/ "instagram" \in enabled /\ Behind
MessagesHandled == Overdue ~> ~Overdue
=============================================================================
