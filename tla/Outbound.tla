------------------------------ MODULE Outbound ------------------------------
(***************************************************************************)
(* The Telegram outbound path (mp_telegram.c): tasks hand texts and typing *)
(* marks to the sender task through a bounded queue and count what is      *)
(* pending; a task that wants its texts delivered waits for the idle bit   *)
(* of an event group and then reads the delivery error.                    *)
(*                                                                         *)
(* Each critical section of s_pending_lock, each event-group call and each *)
(* queue call is a step of its own: the code changes s_pending under the   *)
(* spinlock and the idle bit after it.  s_enqueue is filled and queued     *)
(* under s_enqueue_mutex.  A text is cut into parts (utf8_chunk).          *)
(***************************************************************************)
EXTENDS Integers, Sequences

CONSTANTS
  Tasks,       \* tasks that send: the agent, the poller, ...
  Agent,       \* the one that waits for its texts
  Nobody,      \* the mutex is free
  QueueLength, \* OUTBOUND_QUEUE_LENGTH
  MaxParts,    \* bound: parts of one text
  MaxCalls,    \* bound: texts and typing marks in all
  MaxFaults    \* bound: failed requests and Wi-Fi losses

ASSUME OutboundAssumption ==
  /\ Agent \in Tasks /\ Nobody \notin Tasks
  /\ {QueueLength, MaxParts} \subseteq Nat \ {0}
  /\ {MaxCalls, MaxFaults} \subseteq Nat

VARIABLES
  mutex,    \* holder of s_enqueue_mutex
  enqueue,  \* s_enqueue while it is filled
  queue,    \* s_outbound_queue
  pending,  \* s_pending
  idle,     \* OUTBOUND_IDLE
  failed,   \* s_delivery_error # ESP_OK
  at,       \* where each task is
  call,     \* what each task hands over, by its first part
  sender,   \* where the sender task is
  current,  \* s_current while the sender works on it
  typing,   \* the sender repeats the typing action
  wifi,     \* mp_wifi_connected
  refused,  \* parts the sender gave up: they never reach the chat
  calls, faults

producer == <<mutex, enqueue, at, call, calls>>
delivery == <<sender, current, typing, wifi, refused, faults>>
vars == <<producer, queue, pending, idle, failed, delivery>>

\* text numbers the calls; a typing mark is one part.
Item   == [kind : {"text", "start", "stop"}, text : Nat, part : Nat, parts : Nat]
NoItem == [kind |-> "stop", text |-> 0, part |-> 0, parts |-> 0]

Init ==
  /\ mutex = Nobody /\ enqueue = NoItem /\ queue = <<>>
  /\ pending = 0 /\ idle = TRUE /\ failed = FALSE
  /\ at = [t \in Tasks |-> "free"] /\ call = [t \in Tasks |-> NoItem]
  /\ sender = "receive" /\ current = NoItem /\ typing = FALSE /\ wifi = TRUE
  /\ refused = {}
  /\ calls = 0 /\ faults = 0

Goto(t, place) == at' = [at EXCEPT ![t] = place]

----------------------------------------------------------------------------
(* Producers: mp_telegram_send, _typing_start and _typing_stop.            *)

Call(t, kind, parts) ==
  /\ at[t] = "free" /\ calls < MaxCalls
  /\ kind = "text" \/ parts = 1
  /\ calls' = calls + 1
  /\ call' = [call EXCEPT ![t] = [kind |-> kind, text |-> calls + 1,
                                   part |-> 1, parts |-> parts]]
  /\ Goto(t, "take")
  /\ UNCHANGED <<mutex, enqueue, queue, pending, idle, failed, delivery>>

\* Mutant: s_enqueue is filled without the mutex.
TakeRegardless(t) ==
  /\ at[t] = "take"
  /\ mutex' = t
  /\ enqueue' = call[t]
  /\ Goto(t, "add")
  /\ UNCHANGED <<call, calls, queue, pending, idle, failed, delivery>>

\* A typing start that finds the mutex taken gives up at once.
Take(t) ==
  /\ at[t] = "take"
  /\ \/ /\ mutex = Nobody
        /\ mutex' = t
        /\ enqueue' = call[t]
        /\ Goto(t, "add")
     \/ /\ mutex # Nobody /\ call[t].kind = "start"
        /\ Goto(t, "free")
        /\ UNCHANGED <<mutex, enqueue>>
  /\ UNCHANGED <<call, calls, queue, pending, idle, failed, delivery>>

\* pending_add.  The first one forgets the last delivery error.
PendingAdd(t) ==
  /\ at[t] = "add"
  /\ pending' = pending + 1
  /\ failed' = (failed /\ pending # 0)
  /\ Goto(t, IF pending = 0 THEN "clear" ELSE "send")
  /\ UNCHANGED <<mutex, enqueue, call, calls, queue, idle, delivery>>

ClearIdle(t) ==
  /\ at[t] = "clear"
  /\ idle' = FALSE
  /\ Goto(t, "send")
  /\ UNCHANGED <<mutex, enqueue, call, calls, queue, pending, failed, delivery>>

\* queue_item: texts and stops wait for room.
QueueSend(t) ==
  /\ at[t] = "send" /\ Len(queue) < QueueLength
  /\ queue' = Append(queue, enqueue)
  /\ IF enqueue.part < call[t].parts
     THEN /\ enqueue' = [enqueue EXCEPT !.part = @ + 1]
          /\ Goto(t, "add") /\ UNCHANGED mutex
     ELSE /\ mutex' = Nobody /\ enqueue' = NoItem
          /\ Goto(t, "free")
  /\ UNCHANGED <<call, calls, pending, idle, failed, delivery>>

QueueFull(t) ==
  /\ at[t] = "send" /\ enqueue.kind = "start" /\ Len(queue) = QueueLength
  /\ Goto(t, "undo")
  /\ UNCHANGED <<mutex, enqueue, call, calls, queue, pending, idle, failed, delivery>>

Fewer == IF pending > 0 THEN pending - 1 ELSE 0

\* pending_complete of queue_item.
PendingUndo(t) ==
  /\ at[t] = "undo"
  /\ pending' = Fewer
  /\ IF pending' = 0
     THEN Goto(t, "set") /\ UNCHANGED <<mutex, enqueue>>
     ELSE Goto(t, "free") /\ mutex' = Nobody /\ enqueue' = NoItem
  /\ UNCHANGED <<call, calls, queue, idle, failed, delivery>>

UndoSetsIdle(t) ==
  /\ at[t] = "set"
  /\ idle' = TRUE
  /\ mutex' = Nobody /\ enqueue' = NoItem
  /\ Goto(t, "free")
  /\ UNCHANGED <<call, calls, queue, pending, failed, delivery>>

Produce(t) ==
  \/ Take(t) \/ PendingAdd(t) \/ ClearIdle(t)
  \/ QueueSend(t) \/ QueueFull(t) \/ PendingUndo(t) \/ UndoSetsIdle(t)

----------------------------------------------------------------------------
(* sender_task.                                                            *)

Receive ==
  /\ sender = "receive" /\ queue # <<>>
  /\ current' = Head(queue)
  /\ queue' = Tail(queue)
  /\ typing' = IF current'.kind = "text" THEN typing ELSE current'.kind = "start"
  /\ sender' = CASE current'.kind = "text"  -> "deliver"
                 [] current'.kind = "start" -> "action"
                 [] current'.kind = "stop"  -> "complete"
  /\ UNCHANGED <<producer, pending, idle, failed, wifi, refused, faults>>

\* send_typing, once Wi-Fi is there; its failure changes nothing.
TypingAction ==
  /\ sender = "action" /\ wifi
  /\ sender' = "complete"
  /\ UNCHANGED <<producer, queue, pending, idle, failed, current, typing, wifi,
                 refused, faults>>

\* deliver_text succeeds, perhaps after retryable failures, which change
\* nothing and are tried again for ever.
Delivered ==
  /\ sender = "deliver" /\ wifi
  /\ sender' = "complete"
  /\ UNCHANGED <<producer, queue, pending, idle, failed, current, typing, wifi,
                 refused, faults>>

\* deliver_text: any other failure gives the part up.
Refused ==
  /\ sender = "deliver" /\ wifi /\ faults < MaxFaults
  /\ faults' = faults + 1
  /\ failed' = TRUE
  /\ refused' = refused \cup {current}
  /\ sender' = "complete"
  /\ UNCHANGED <<producer, queue, pending, idle, current, typing, wifi>>

\* Mutant: the count is compared before it is lowered.
PendingCompleteLate ==
  /\ sender = "complete"
  /\ pending' = Fewer
  /\ sender' = IF pending = 0 THEN "set" ELSE "receive"
  /\ current' = NoItem
  /\ UNCHANGED <<producer, queue, idle, failed, typing, wifi, refused, faults>>

\* pending_complete of sender_task.
PendingComplete ==
  /\ sender = "complete"
  /\ pending' = Fewer
  /\ sender' = IF pending' = 0 THEN "set" ELSE "receive"
  /\ current' = NoItem
  /\ UNCHANGED <<producer, queue, idle, failed, typing, wifi, refused,
                 faults>>

\* Mutant: the bit is set only for a task that already waits.
SenderSetsIdleLazily ==
  /\ sender = "set"
  /\ idle' = (idle \/ at[Agent] = "flush")
  /\ sender' = "receive"
  /\ UNCHANGED <<producer, queue, pending, failed, current, typing, wifi, refused,
                 faults>>

SenderSetsIdle ==
  /\ sender = "set"
  /\ idle' = TRUE
  /\ sender' = "receive"
  /\ UNCHANGED <<producer, queue, pending, failed, current, typing, wifi, refused,
                 faults>>

WifiDown ==
  /\ wifi /\ faults < MaxFaults
  /\ wifi' = FALSE /\ faults' = faults + 1
  /\ UNCHANGED <<producer, queue, pending, idle, failed, sender, current, typing,
                 refused>>

WifiUp ==
  /\ ~wifi
  /\ wifi' = TRUE
  /\ UNCHANGED <<producer, queue, pending, idle, failed, sender, current, typing,
                 refused, faults>>

Send == Receive \/ TypingAction \/ Delivered \/ PendingComplete \/ SenderSetsIdle

----------------------------------------------------------------------------
(* mp_telegram_flush, called by the agent between its calls.               *)

Flush ==
  /\ at[Agent] = "free"
  /\ Goto(Agent, "flush")
  /\ UNCHANGED <<mutex, enqueue, call, calls, queue, pending, idle, failed, delivery>>

FlushWakes ==
  /\ at[Agent] = "flush" /\ idle
  /\ Goto(Agent, "verdict")
  /\ UNCHANGED <<mutex, enqueue, call, calls, queue, pending, idle, failed, delivery>>

FlushTimeout ==
  /\ at[Agent] = "flush" /\ ~idle
  /\ Goto(Agent, "free")
  /\ UNCHANGED <<mutex, enqueue, call, calls, queue, pending, idle, failed, delivery>>

FlushReturns ==
  /\ at[Agent] = "verdict"
  /\ Goto(Agent, "free")
  /\ UNCHANGED <<mutex, enqueue, call, calls, queue, pending, idle, failed, delivery>>

----------------------------------------------------------------------------
Next ==
  \/ \E t \in Tasks :
       \/ \E kind \in {"text", "start", "stop"}, parts \in 1..MaxParts :
            Call(t, kind, parts)
       \/ Produce(t)
  \/ Send \/ Refused \/ WifiDown \/ WifiUp
  \/ Flush \/ FlushWakes \/ FlushTimeout \/ FlushReturns

Spec == Init /\ [][Next]_vars

(* Fairness: every task runs, Wi-Fi comes back, and the mutex goes to a    *)
(* waiting task (FreeRTOS queues the waiters).                             *)
Fairness ==
  /\ \A t \in Tasks : WF_vars(Produce(t)) /\ SF_vars(Take(t))
  /\ WF_vars(Send) /\ WF_vars(WifiUp)
  /\ WF_vars(FlushWakes) /\ WF_vars(FlushReturns)

FairSpec == Spec /\ Fairness

----------------------------------------------------------------------------
TypeOK ==
  /\ mutex \in Tasks \cup {Nobody} /\ enqueue \in Item /\ call \in [Tasks -> Item]
  /\ queue \in Seq(Item) /\ Len(queue) <= QueueLength
  /\ pending \in Nat /\ idle \in BOOLEAN /\ failed \in BOOLEAN
  /\ at \in [Tasks -> {"free", "take", "add", "clear", "send", "undo", "set",
                       "flush", "verdict"}]
  /\ sender \in {"receive", "action", "deliver", "complete", "set"}
  /\ current \in Item /\ typing \in BOOLEAN /\ wifi \in BOOLEAN
  /\ refused \in SUBSET Item
  /\ calls \in Nat /\ faults \in Nat

One(condition) == IF condition THEN 1 ELSE 0

(* s_pending counts exactly the items queued, the one the sender works on  *)
(* and the one a task has counted but not queued yet: the guard against a  *)
(* count below zero never hides a miscount.                                *)
PendingCounted ==
  pending = Len(queue)
            + One(sender \in {"action", "deliver", "complete"})
            + One(mutex # Nobody /\ at[mutex] \in {"clear", "send", "undo"})

(* The idle bit is never lost: with nothing pending it is set or about to  *)
(* be, so a flush cannot sleep on an empty queue.                          *)
IdleNotLost ==
  (pending = 0 /\ ~idle) =>
    sender = "set" \/ \E t \in Tasks : at[t] = "set"

(* The queue's types, its count and its event.                             *)
QueueSound == TypeOK /\ PendingCounted /\ IdleNotLost

\* What is on its way to the chat, the part being queued last.
OnTheWay ==
  (IF sender \in {"action", "deliver", "complete"} THEN <<current>> ELSE <<>>)
  \o queue
  \o (IF mutex # Nobody /\ at[mutex] \in {"add", "clear", "send"}
      THEN <<enqueue>> ELSE <<>>)

(* The parts of a text follow each other in order and none is missing,     *)
(* whatever other tasks send at the same time.                             *)
TextsUnbroken ==
  /\ \A k \in 1..(Len(OnTheWay) - 1) :
       LET a == OnTheWay[k]
           b == OnTheWay[k + 1]
       IN  IF a.part < a.parts THEN b = [a EXCEPT !.part = @ + 1]
                               ELSE b.part = 1
  /\ (mutex = Nobody /\ queue # <<>>) =>
       queue[Len(queue)].part = queue[Len(queue)].parts

(* A flush without a timeout returns once Wi-Fi is there again.            *)
FlushEnds == at[Agent] = "flush" ~> at[Agent] # "flush"

(* docs/COMMANDS.md:9 calls a missed reminder delivered, and               *)
(* tests/test_contract.py:299 wants the flush before a job is counted as   *)
(* done: when the flush after a text returns ESP_OK, all parts of the text *)
(* have reached the chat.                                                  *)
FlushMeansDelivered ==
  [][(FlushReturns /\ ~failed /\ call[Agent].kind = "text") =>
       \A p \in 1..call[Agent].parts :
         LET part == [call[Agent] EXCEPT !.part = p]
         IN  part \notin refused /\ \A k \in DOMAIN OnTheWay : OnTheWay[k] # part]_vars
=============================================================================
