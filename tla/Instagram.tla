----------------------------- MODULE Instagram -----------------------------
(***************************************************************************)
(* The Instagram channel (mp_instagram.c): the checkpoint in flash, the    *)
(* conversation it is bound to, the walk back through the pages of the     *)
(* thread to the checkpoint and forward again, the turn of each message,   *)
(* and the queue of texts that go out.                                     *)
(*                                                                         *)
(* A thread is a sequence of items, the oldest first; an item's id is its  *)
(* place.  The service hands out pages of PageSize items, newest first:    *)
(* with an empty cursor the newest there are at that moment, with a cursor *)
(* those before the item it names.  A checkpoint or cursor of 0 is the     *)
(* empty string; the checkpoint is an item of one thread, `of', since no   *)
(* two messages have the same id.  nvs writes a key at once, so a step that*)
(* writes several keys and fails leaves the first of them; a power loss    *)
(* between two keys is that failure followed by a restart.                 *)
(***************************************************************************)
EXTENDS AgentQueue, FiniteSets

CONSTANTS
  People,      \* whose conversations the account has, by their user names
  Starts,      \* bound: threads, configured owner and flash at a boot
  PageSize,    \* MESSAGE_PAGE_SIZE
  PageCount,   \* MESSAGE_PAGE_COUNT
  OutLength,   \* OUTBOUND_QUEUE_LENGTH
  TurnTexts,   \* bound: texts a turn sends
  MaxItems,    \* bound: items of a thread
  MaxArrivals, \* bound: messages that arrive
  MaxTrouble   \* bound: failures, restarts, new owners and turns of others

ASSUME InstagramAssumption ==
  /\ {PageSize, PageCount, OutLength, TurnTexts} \subseteq Nat \ {0}
  /\ {MaxItems, MaxArrivals, MaxTrouble} \subseteq Nat

(* A message of the person that makes a turn (a text, a command, an image),*)
(* one the poller answers, one the person took back, and one that was sent.*)
Turns     == {"text", "command", "image"}
Incoming  == Turns \cup {"odd", "deleted"}
ItemKinds == Incoming \cup {"out"}
Nobody    == ""
Items     == 1..MaxItems

(* What nvs may hold, and where a device may find itself at a boot: a mark *)
(* is the place of an item in somebody's thread.                           *)
Flashes == [owner : People \cup {Nobody}, mark : 0..MaxItems, of : People \cup {Nobody},
            ready : BOOLEAN, who : People \cup {Nobody}]

ASSUME StartsAssumption ==
  /\ Nobody \notin People
  /\ \A s \in Starts :
       /\ s.threads \in [People -> Seq(ItemKinds)] /\ \A p \in People : Len(s.threads[p]) <= MaxItems
       /\ s.owner \in People /\ s.flash \in Flashes
       /\ IF s.flash.of = Nobody THEN s.flash.mark = 0 ELSE s.flash.mark \in DOMAIN s.threads[s.flash.of]

VARIABLES
  threads,   \* the items of each person's conversation
  owner,     \* instagram_owner_username of the configuration
  flash,     \* nvs: owner, last_in (mark and of), ready, participant
  ram,       \* last_message_id, s_checkpoint_ready, owner_id, conversation_id
  walk,      \* where instagram_task is
  out,       \* s_outbound_queue: how many texts wait, or are being sent
  sender,    \* where sender_task is
  pending, idle, refused, \* s_pending, OUTBOUND_IDLE, s_delivery_error
  saying,    \* the mp_instagram_send under way
  said,      \* texts the running turn has sent
  arrivals, trouble, \* how much of the bounds is used
  done,      \* how often each item was handled
  again,     \* how often the code itself gave an item up for another time
  skipped,   \* items the code passes over: see Baseline and Back
  older,     \* texts under way that were there before the item in hand
  owed,      \* texts since, that the service has not accepted
  muddled,   \* the idle bit or the error is not about the item in hand
  torn       \* the stored participant does not go with the stored name

outbound  == <<out, sender, pending, idle, refused, saying, said>>
bounds    == <<arrivals, trouble>>
answers   == <<older, owed, muddled>>
record    == <<done, again, skipped, answers, torn>>
instagram == <<threads, owner, flash, ram, walk, outbound, bounds, record>>

Blank   == [mark |-> 0, of |-> Nobody, ready |-> FALSE, who |-> Nobody]
Fresh   == [mark |-> 0, of |-> Nobody, ready |-> FALSE, who |-> Nobody, conv |-> Nobody]

(* Where the walk is, and which items of the page it has still to handle.  *)
Resting == [at |-> "poll", page |-> 0, cursors |-> <<0>>, next |-> 1, last |-> 0]
Silent  == [by |-> Nobody, at |-> "no"]
Zero    == [p \in People |-> [i \in Items |-> 0]]

OutboundInit ==
  /\ out = 0 /\ sender = "free" /\ pending = 0 /\ idle = TRUE /\ refused = FALSE
  /\ saying = Silent /\ said = 0

InstagramInit ==
  /\ \E start \in Starts :
       threads = start.threads /\ owner = start.owner /\ flash = start.flash
  /\ ram = Fresh /\ walk = [Resting EXCEPT !.at = "boot"]
  /\ OutboundInit
  /\ arrivals = 0 /\ trouble = 0
  /\ done = Zero /\ again = Zero /\ skipped = {<<flash.of, i>> : i \in 1..flash.mark}
  /\ older = 0 /\ owed = 0 /\ muddled = FALSE
  /\ torn = (flash.who \notin {Nobody, flash.owner})

Trouble == trouble < MaxTrouble /\ trouble' = trouble + 1 /\ UNCHANGED arrivals

(* Someone writes, and the owner's name is set in the configuration.       *)
Arrive(p, kind) ==
  /\ arrivals < MaxArrivals /\ Len(threads[p]) < MaxItems
  /\ arrivals' = arrivals + 1
  /\ threads' = [threads EXCEPT ![p] = Append(@, kind)]
  /\ UNCHANGED <<agent, owner, flash, ram, walk, outbound, trouble, record>>

SetOwner ==
  /\ Trouble
  /\ owner' \in People \ {owner}
  /\ UNCHANGED <<agent, threads, flash, ram, walk, outbound, record>>
----------------------------------------------------------------------------
(* checkpoint_init.  Another owner's name than the stored one, or a stored *)
(* name that cannot be read, starts over.                                  *)
Load ==
  /\ walk.at = "boot" /\ flash.owner = owner
  /\ ram'  = [mark |-> flash.mark, of |-> flash.of, ready |-> flash.ready, who |-> flash.who,
              conv |-> Nobody]
  /\ walk' = Resting
  /\ UNCHANGED <<agent, threads, owner, flash, outbound, bounds, record>>

(* Mutant: the participant of the old owner stays.                         *)
SwitchedKeepingWho(f) == [owner |-> owner, mark |-> 0, of |-> Nobody, ready |-> FALSE, who |-> f.who]
Switched(f)           == [owner |-> owner, mark |-> 0, of |-> Nobody, ready |-> FALSE, who |-> Nobody]

AnotherTime == [p \in People |-> [i \in Items |-> again[p][i] + 1]]

Switch ==
  /\ walk.at = "boot"
  /\ \/ flash.owner # owner /\ UNCHANGED bounds
     \/ flash.owner = owner /\ Trouble
  /\ flash' = Switched(flash) /\ ram' = Fresh /\ walk' = Resting
  /\ again' = AnotherTime
  /\ skipped' = {} /\ torn' = FALSE
  /\ UNCHANGED <<agent, threads, owner, outbound, done, answers>>

(* The name or a later key is not written, or the commit fails: the task   *)
(* ends.                                                                   *)
SwitchFails ==
  /\ walk.at = "boot" /\ flash.owner # owner /\ Trouble
  /\ flash' \in {flash, [flash EXCEPT !.owner = owner],
                 [flash EXCEPT !.owner = owner, !.mark = 0, !.of = Nobody],
                 [flash EXCEPT !.owner = owner, !.mark = 0, !.of = Nobody, !.ready = FALSE],
                 Switched(flash)}
  /\ torn' = (flash'.who \notin {Nobody, flash'.owner})
  /\ again' = IF flash'.mark = flash.mark THEN again ELSE AnotherTime
  /\ walk' = [walk EXCEPT !.at = "off"]
  /\ UNCHANGED <<agent, threads, owner, ram, outbound, done, skipped, answers>>
----------------------------------------------------------------------------
(* find_conversation: the bound participant, or the owner's user name.     *)
FindBound ==
  /\ walk.at = "poll" /\ ram.conv = Nobody /\ ram.who # Nobody /\ threads[ram.who] # <<>>
  /\ ram' = [ram EXCEPT !.conv = ram.who]
  /\ UNCHANGED <<agent, threads, owner, flash, walk, outbound, bounds, record>>

FindByName ==
  /\ walk.at = "poll" /\ ram.conv = Nobody /\ ram.who = Nobody /\ threads[owner] # <<>>
  /\ ram'   = [ram EXCEPT !.conv = owner, !.who = owner]
  /\ flash' = [flash EXCEPT !.who = owner]
  /\ torn'  = (flash.owner # owner)
  /\ UNCHANGED <<agent, threads, owner, walk, outbound, bounds, done, again, skipped, answers>>

(* owner_save fails after the conversation was set: the next poll goes on. *)
FindUnsaved ==
  /\ walk.at = "poll" /\ ram.conv = Nobody /\ ram.who = Nobody
  /\ threads[owner] # <<>> /\ Trouble
  /\ ram' = [ram EXCEPT !.conv = owner]
  /\ flash' \in {flash, [flash EXCEPT !.who = owner]}
  /\ torn'  = (flash.owner # owner)
  /\ UNCHANGED <<agent, threads, owner, walk, outbound, done, again, skipped, answers>>
----------------------------------------------------------------------------
(* fetch_messages: a page holds the items Bottom..Top, and tells the       *)
(* cursor of the next one, if there are more.                              *)
Top(t, cursor)    == IF cursor = 0 THEN Len(t) ELSE cursor - 1
Bottom(t, cursor) == IF Top(t, cursor) > PageSize THEN Top(t, cursor) - PageSize + 1 ELSE 1
PageOf(t, cursor) == Bottom(t, cursor)..Top(t, cursor)
More(t, cursor)   == Bottom(t, cursor) > 1

Mine == threads[ram.conv]

(* baseline_messages: the first poll of an owner marks the newest message  *)
(* of the newest page, and nothing when that page holds none.              *)
Seen   == {i \in PageOf(Mine, 0) : Mine[i] \in Incoming}
Newest == CHOOSE i \in Seen : \A j \in Seen : j <= i
Marked(m, i) == [m EXCEPT !.mark = i, !.of = ram.conv]

Unhandled(p, is) == {<<p, i>> : i \in {j \in is : done[p][j] = 0}}

Baseline ==
  /\ walk.at = "poll" /\ ram.conv # Nobody /\ ~ram.ready
  /\ \/ /\ Seen # {}
        /\ ram' = [Marked(ram, Newest) EXCEPT !.ready = TRUE]
        /\ flash' = [Marked(flash, Newest) EXCEPT !.ready = TRUE]
        /\ skipped' = skipped \cup Unhandled(ram.conv, 1..Newest)
     \/ /\ Seen = {}
        /\ ram' = [ram EXCEPT !.ready = TRUE] /\ flash' = [flash EXCEPT !.ready = TRUE]
        /\ UNCHANGED skipped
  /\ UNCHANGED <<agent, threads, owner, walk, outbound, bounds, done, again, answers, torn>>

(* It fails with a part of it in flash, and is tried again.                *)
BaselineFails ==
  /\ walk.at = "poll" /\ ram.conv # Nobody /\ ~ram.ready /\ Trouble
  /\ \/ /\ Seen # {}
        /\ flash' \in {Marked(flash, Newest), [Marked(flash, Newest) EXCEPT !.ready = TRUE]}
        /\ skipped' = skipped \cup Unhandled(ram.conv, 1..Newest)
     \/ /\ Seen = {}
        /\ flash' = [flash EXCEPT !.ready = TRUE]
        /\ UNCHANGED skipped
  /\ UNCHANGED <<agent, threads, owner, ram, walk, outbound, done, again, answers, torn>>

(* find_checkpoint_page: back, a page at a time, to the one that holds the *)
(* mark, or without a mark to the last one.                                *)
(* Mutant: the message with the mark is taken again.                       *)
AfterMarkInclusive == IF ram.mark = 0 THEN 1 ELSE ram.mark
AfterMark          == ram.mark + 1

Cursor == walk.cursors[walk.page + 1]

Find ==
  /\ walk.at \in {"poll", "find"} /\ ram.conv # Nobody /\ ram.ready
  /\ LET found == IF ram.mark = 0 THEN ~More(Mine, Cursor)
                  ELSE ram.of = ram.conv /\ ram.mark \in PageOf(Mine, Cursor)
     IN  walk' = IF found
                 THEN [walk EXCEPT !.at = "handle", !.next = AfterMark, !.last = Top(Mine, Cursor)]
                 ELSE IF ~More(Mine, Cursor) \/ walk.page + 1 >= PageCount THEN Resting
                 ELSE [walk EXCEPT !.at = "find", !.page = @ + 1,
                                   !.cursors = Append(@, Bottom(Mine, Cursor))]
  /\ UNCHANGED <<agent, threads, owner, flash, ram, outbound, bounds, record>>

(* sync_messages: forward again.  The newest page is fetched as it is now, *)
(* so what grew in the meantime pushes its oldest items off it.            *)
PageDone == walk.at = "handle" /\ walk.next > walk.last

Back ==
  /\ PageDone /\ walk.page > 0
  /\ LET cursor == walk.cursors[walk.page]
     IN  /\ walk' = [walk EXCEPT !.page = @ - 1, !.next = Bottom(Mine, cursor), !.last = Top(Mine, cursor)]
         /\ skipped' = skipped \cup
              {<<ram.conv, i>> : i \in {j \in Cursor..(Bottom(Mine, cursor) - 1) : Mine[j] \in Incoming}}
  /\ UNCHANGED <<agent, threads, owner, flash, ram, outbound, bounds,
                 done, again, answers, torn>>

SyncEnds ==
  /\ PageDone /\ walk.page = 0
  /\ walk' = Resting
  /\ UNCHANGED <<agent, threads, owner, flash, ram, outbound, bounds, record>>

(* A page does not come, comes cut, or is no answer.                       *)
FetchFails ==
  /\ walk.at \in {"poll", "find"} \/ (PageDone /\ walk.page > 0)
  /\ Trouble
  /\ walk' = Resting
  /\ UNCHANGED <<agent, threads, owner, flash, ram, outbound, record>>
----------------------------------------------------------------------------
(* process_message, the first of what is left of the page.                 *)
Item     == walk.next
Here     == <<ram.conv, Item>>
Handling == walk.at = "handle" /\ walk.next <= walk.last
IgMessage(kind) == [from |-> "instagram", n |-> Item, kind |-> kind, waits |-> TRUE, picture |-> ""]

Once(f, item)  == [f EXCEPT ![item[1]][item[2]] = @ + 1]
GiveUp         == walk' = Resting /\ again' = Once(again, Here)

SkipOut ==
  /\ Handling /\ Mine[Item] = "out"
  /\ walk' = [walk EXCEPT !.next = @ + 1]
  /\ UNCHANGED <<agent, threads, owner, flash, ram, outbound, bounds, record>>

SkipDeleted ==
  /\ Handling /\ Mine[Item] = "deleted"
  /\ walk' = [walk EXCEPT !.at = "save"]
  /\ done' = Once(done, Here)
  /\ UNCHANGED <<agent, threads, owner, flash, ram, outbound, bounds,
                 again, skipped, answers, torn>>

UnderWay == out + (IF saying = Silent THEN 0 ELSE 1)

SubmitIg ==
  /\ Handling /\ Mine[Item] \in Turns
  /\ SubmitAndWait(IgMessage(Mine[Item]))
  /\ walk' = [walk EXCEPT !.at = "wait"]
  /\ older' = UnderWay /\ owed' = 0 /\ muddled' = (idle /\ pending > 0)
  /\ UNCHANGED <<running, threads, owner, flash, ram, outbound, bounds,
                 done, again, skipped, torn>>

IgTurnDone ==
  /\ walk.at = "wait" /\ notified["instagram"] # 0
  /\ notified' = [notified EXCEPT !["instagram"] = 0]
  /\ IF notified["instagram"] = 1 THEN walk' = [walk EXCEPT !.at = "flush"] /\ again' = again
     ELSE GiveUp
  /\ UNCHANGED <<queue, running, threads, owner, flash, ram, outbound, bounds,
                 done, skipped, answers, torn>>

(* mp_instagram_flush: the error is read after the wait.                   *)
IgFlush ==
  /\ walk.at = "flush" /\ idle
  /\ IF ~refused THEN walk' = [walk EXCEPT !.at = "save"] /\ again' = again ELSE GiveUp
  /\ done' = IF Mine[Item] = "odd" THEN Once(done, Here) ELSE done
  /\ UNCHANGED <<agent, threads, owner, flash, ram, outbound, bounds,
                 skipped, answers, torn>>

(* checkpoint_save, and the rest of the page.                              *)
Save ==
  /\ walk.at = "save"
  /\ flash' = [Marked(flash, Item) EXCEPT !.ready = TRUE]
  /\ ram'   = Marked(ram, Item)
  /\ walk'  = [walk EXCEPT !.at = "handle", !.next = @ + 1]
  /\ UNCHANGED <<agent, threads, owner, outbound, bounds, record>>

SaveFails ==
  /\ walk.at = "save" /\ Trouble
  /\ flash' \in {flash, Marked(flash, Item), [Marked(flash, Item) EXCEPT !.ready = TRUE]}
  /\ GiveUp
  /\ UNCHANGED <<agent, threads, owner, ram, outbound, done, skipped, answers, torn>>
----------------------------------------------------------------------------
(* mp_instagram_send and queue_item, part by part: pending_add counts and  *)
(* then clears the idle bit, and the part waits for room in the queue.     *)
PendingAdd(by) ==
  /\ saying = Silent
  /\ pending' = pending + 1
  /\ refused' = IF pending = 0 THEN FALSE ELSE refused
  /\ saying'  = [by |-> by, at |-> IF pending = 0 THEN "clear" ELSE "queue"]

(* Mutant: the idle bit stays.                                             *)
KeepIdle ==
  /\ saying.at = "clear"
  /\ saying' = [saying EXCEPT !.at = "queue"]
  /\ UNCHANGED <<agent, threads, owner, flash, ram, walk, out, sender, pending, idle, refused, said, bounds, record>>
ClearIdle ==
  /\ saying.at = "clear"
  /\ idle' = FALSE /\ saying' = [saying EXCEPT !.at = "queue"]
  /\ UNCHANGED <<agent, threads, owner, flash, ram, walk, out, sender, pending, refused, said, bounds, record>>

QueuePart ==
  /\ saying.at = "queue" /\ out < OutLength + (IF sender = "free" THEN 1 ELSE 0)
  /\ out' = out + 1 /\ saying' = Silent
  /\ walk' = IF saying.by = "poller" THEN [walk EXCEPT !.at = "flush"] ELSE walk
  /\ UNCHANGED <<agent, threads, owner, flash, ram, sender, pending, idle, refused, said, bounds, record>>

(* The poller answers what makes no turn.                                  *)
SayOdd ==
  /\ Handling /\ Mine[Item] = "odd"
  /\ PendingAdd("poller")
  /\ walk' = [walk EXCEPT !.at = "say"]
  /\ older' = UnderWay /\ owed' = 1 /\ muddled' = (idle /\ pending > 0)
  /\ UNCHANGED <<agent, threads, owner, flash, ram, out, sender, idle, said, bounds,
                 done, again, skipped, torn>>

(* A turn of this channel, or of a job whose chat is here, sends a text.   *)
TurnOf(from) == running # <<>> /\ running[1].from = from

TurnSays ==
  /\ TurnOf("instagram") \/ TurnOf("jobs")
  /\ ram.conv # Nobody /\ said < TurnTexts
  /\ PendingAdd("agent")
  /\ said' = said + 1
  /\ owed' = owed + 1
  /\ muddled' = (muddled \/ TurnOf("jobs") \/ (pending = 0 /\ refused /\ owed > 0))
  /\ UNCHANGED <<agent, threads, owner, flash, ram, walk, out, sender, idle, bounds,
                 done, again, skipped, older, torn>>

(* The turn of an item ends after at least one text, well or not.          *)
IgTurnEnds ==
  /\ TurnOf("instagram") /\ said > 0 /\ saying.by # "agent"
  /\ \/ TurnEnds(TRUE) /\ UNCHANGED bounds
     \/ TurnEnds(FALSE) /\ Trouble
  /\ said' = 0
  /\ done' = Once(done, <<ram.conv, running[1].n>>)
  /\ UNCHANGED <<threads, owner, flash, ram, walk, out, sender, pending, idle, refused, saying,
                 again, skipped, answers, torn>>

JobSubmitted ==
  /\ Trouble
  /\ Submit([from |-> "jobs", n |-> 0, kind |-> "text", waits |-> FALSE, picture |-> ""])
  /\ UNCHANGED <<running, notified, threads, owner, flash, ram, walk, outbound, record>>

JobTurnEnds ==
  /\ TurnOf("jobs") /\ saying.by # "agent"
  /\ TurnEnds(TRUE) /\ said' = 0
  /\ UNCHANGED <<threads, owner, flash, ram, walk, out, sender, pending, idle, refused, saying,
                 bounds, record>>

(* sender_task: takes a text, sends it until it is accepted or refused,    *)
(* and then counts it off (pending_complete).  A text it holds while it    *)
(* sends counts as one of `out', which is why there is room for one more.  *)
(* The oldest text under way leaves the count it belongs to.               *)
Outlived(accepted) ==
  /\ older' = IF older > 0 THEN older - 1 ELSE 0
  /\ owed'  = IF older = 0 /\ owed > 0 THEN owed - accepted ELSE owed

Accepted ==
  /\ sender = "free" /\ out > 0 /\ Len(threads[ram.conv]) < MaxItems
  /\ threads' = [threads EXCEPT ![ram.conv] = Append(@, "out")]
  /\ sender' = "count" /\ out' = out - 1
  /\ Outlived(1)
  /\ UNCHANGED <<agent, owner, flash, ram, walk, pending, idle, refused, saying, said, bounds,
                 done, again, skipped, muddled, torn>>

Refused ==
  /\ sender = "free" /\ out > 0 /\ Trouble
  /\ refused' = TRUE
  /\ sender' = "count" /\ out' = out - 1
  /\ Outlived(0)
  /\ UNCHANGED <<agent, threads, owner, flash, ram, walk, pending, idle, saying, said,
                 done, again, skipped, muddled, torn>>

PendingComplete ==
  /\ sender = "count"
  /\ pending' = pending - 1
  /\ sender' = IF pending = 1 THEN "idle" ELSE "free"
  /\ UNCHANGED <<agent, threads, owner, flash, ram, walk, out, idle, refused, saying, said, bounds, record>>

SetIdle ==
  /\ sender = "idle"
  /\ idle' = TRUE /\ sender' = "free"
  /\ muddled' = (muddled \/ pending > 0)
  /\ UNCHANGED <<agent, threads, owner, flash, ram, walk, out, pending, refused, saying, said, bounds,
                 done, again, skipped, older, owed, torn>>
----------------------------------------------------------------------------
(* The device restarts in the middle of anything.                          *)
InHand == walk.at \in {"wait", "say", "flush", "save"}

InstagramReboot ==
  /\ Trouble
  /\ ram' = Fresh /\ walk' = [Resting EXCEPT !.at = "boot"]
  /\ out' = 0 /\ sender' = "free" /\ pending' = 0 /\ idle' = TRUE /\ refused' = FALSE
  /\ saying' = Silent /\ said' = 0 /\ older' = 0 /\ owed' = 0 /\ muddled' = FALSE
  /\ again' = IF InHand THEN Once(again, Here) ELSE again
  /\ UNCHANGED <<threads, owner, flash, done, skipped, torn>>
----------------------------------------------------------------------------
IgTypes ==
  /\ threads \in [People -> Seq(ItemKinds)] /\ owner \in People
  /\ flash \in Flashes
  /\ ram.mark \in 0..MaxItems /\ walk.page \in 0..(PageCount - 1)
  /\ Len(walk.cursors) > walk.page
  /\ out \in 0..(OutLength + 1) /\ pending \in Nat /\ idle \in BOOLEAN /\ refused \in BOOLEAN

(* The channel reads the conversation of the person the stored name stands *)
(* for, unless a change of the name was cut off or came between the boot   *)
(* and the first poll (checkpoint_init, find_conversation).                *)
OwnersOnly == ram.conv # Nobody => ram.conv = flash.owner \/ torn

(* A message behind the mark was handled to its end, or was there before   *)
(* the channel was, or fell off the newest page while older ones were      *)
(* handled.                                                                *)
IgNotLost ==
  ram.conv # Nobody /\ ram.of = ram.conv =>
    \A i \in 1..ram.mark :
      Mine[i] \in Incoming => (done[ram.conv][i] > 0 \/ <<ram.conv, i>> \in skipped)

(* What the first poll of an owner found is never run afterwards, nor what *)
(* the mark has passed over (baseline_messages, sync_messages).            *)
SkippedStay ==
  [][\A item \in skipped : (item[1] = ram.of /\ item[2] <= ram.mark)
                             => done'[item[1]][item[2]] = done[item[1]][item[2]]]_<<agent, instagram>>

(* A message is handled again only after a failed turn, a refused answer,  *)
(* a failed save, a restart before the save, or a new owner.               *)
IgNotRepeated ==
  \A p \in People, i \in Items : done[p][i] <= 1 + again[p][i]

(* Before the mark moves past a message every text it led to has been      *)
(* accepted by the service, unless a text of another turn came in between, *)
(* the idle bit came late (mp_instagram.c:737-741), or a later text of the *)
(* same turn wiped the error of a refused one (mp_instagram.c:723).        *)
AnsweredFirst == walk.at = "save" /\ Mine[Item] # "deleted" => owed = 0 \/ muddled

(* The mark is further back than the pages reach; something is unhandled.  *)
OutOfReach ==
  Len(Mine) - ram.mark >= PageSize * PageCount \/ (ram.mark # 0 /\ ram.of # ram.conv)
Behind ==
  /\ ram.conv # Nobody /\ ~OutOfReach
  /\ \E i \in DOMAIN Mine : Mine[i] \in Incoming /\ done[ram.conv][i] = 0 /\ <<ram.conv, i>> \notin skipped
=============================================================================
