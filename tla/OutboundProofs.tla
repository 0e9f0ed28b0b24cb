--------------------------- MODULE OutboundProofs ---------------------------
(***************************************************************************)
(* Theorems about the Telegram outbound path: the pending count is exact,  *)
(* the idle bit is not lost and texts stay whole, for any number of        *)
(* sending tasks, any length of the queue and any number of parts.         *)
(***************************************************************************)
EXTENDS Outbound, TLAPS

(***************************************************************************)
(* Control.  The mutex is held exactly from "add" to "set"; a task that    *)
(* holds it fills s_enqueue from its own call, part by part, and only a    *)
(* typing mark is ever taken back.                                         *)
(***************************************************************************)
Inside == {"add", "clear", "send", "undo", "set"}

MutexHeld == \A t \in Tasks : at[t] \in Inside <=> mutex = t

Calls ==
  \A t \in Tasks :
    /\ at[t] \in Inside \cup {"take"} =>
         call[t].part = 1 /\ call[t].parts >= 1 /\ (call[t].kind = "text" \/ call[t].parts = 1)
    /\ at[t] \in Inside =>
         enqueue = [call[t] EXCEPT !.part = enqueue.part] /\ enqueue.part \in 1..call[t].parts
    /\ at[t] \in {"undo", "set"} => call[t].kind = "start"

SoundInv == TypeOK /\ MutexHeld /\ PendingCounted /\ IdleNotLost

(***************************************************************************)
(* Order.  What is on its way is linked, and when the part being filled is *)
(* not part of it, it ends with a whole text.                              *)
(***************************************************************************)
Follows(a, b) == IF a.part < a.parts THEN b = [a EXCEPT !.part = @ + 1] ELSE b.part = 1

Linked(s) == \A k \in 1..(Len(s) - 1) : Follows(s[k], s[k + 1])

Whole(s) == s # <<>> => s[Len(s)].part = s[Len(s)].parts

Filling == mutex # Nobody /\ at[mutex] \in {"add", "clear", "send"}

Worked == IF sender \in {"action", "deliver", "complete"} THEN <<current>> ELSE <<>>

Sent == Worked \o queue

OrderInv ==
  /\ Calls
  /\ \A k \in 1..Len(Sent) : 1 <= Sent[k].part /\ Sent[k].part <= Sent[k].parts
  /\ Linked(OnTheWay)
  /\ ~Filling => Whole(Sent)

----------------------------------------------------------------------------
(* The steps of a task one by one, so that every proof below has one case  *)
(* for each of them.                                                       *)

LEMMA StepsOfNext ==
  ASSUME [Next]_vars
  PROVE  \/ \E t \in Tasks :
              \/ \E kind \in {"text", "start", "stop"}, parts \in 1..MaxParts : Call(t, kind, parts)
              \/ Take(t) \/ PendingAdd(t) \/ ClearIdle(t) \/ QueueSend(t)
              \/ QueueFull(t) \/ PendingUndo(t) \/ UndoSetsIdle(t)
         \/ Receive \/ TypingAction \/ Delivered \/ PendingComplete \/ SenderSetsIdle
         \/ Refused \/ WifiDown \/ WifiUp
         \/ Flush \/ FlushWakes \/ FlushTimeout \/ FlushReturns
         \/ UNCHANGED vars
BY DEF Next, Produce, Send

LEMMA HeadTail ==
  ASSUME NEW R, NEW s \in Seq(R), s # <<>>
  PROVE  /\ Head(s) \in R /\ Tail(s) \in Seq(R) /\ Len(Tail(s)) = Len(s) - 1
         /\ s = <<Head(s)>> \o Tail(s) /\ Head(s) = s[1]
  OBVIOUS

LEMMA TypesHold ==
  ASSUME TypeOK, [Next]_vars
  PROVE  TypeOK'
<1> USE OutboundAssumption
<1> DEFINE Places == {"free", "take", "add", "clear", "send", "undo", "set", "flush", "verdict"}
<1>0. /\ at \in [Tasks -> Places] /\ NoItem \in Item
      /\ \A t \in Tasks, place \in Places : [at EXCEPT ![t] = place] \in [Tasks -> Places]
  BY DEF TypeOK, NoItem, Item
<1>1. ASSUME NEW t \in Tasks, NEW kind \in {"text", "start", "stop"}, NEW parts \in 1..MaxParts,
             Call(t, kind, parts)
      PROVE  TypeOK'
  <2>1. [kind |-> kind, text |-> calls + 1, part |-> 1, parts |-> parts] \in Item
    BY DEF TypeOK, Item
  <2> QED BY <1>1, <2>1 DEF Call, TypeOK, Goto, delivery
<1>2. ASSUME NEW t \in Tasks, Take(t)
      PROVE  TypeOK'
  <2>1. at' \in [Tasks -> Places]
    BY <1>0, <1>2 DEF Take, Goto
  <2>2. mutex' \in Tasks \cup {Nobody} /\ enqueue' \in Item
    BY <1>2 DEF Take, TypeOK
  <2> QED BY <1>2, <2>1, <2>2 DEF Take, TypeOK, delivery
<1>3. ASSUME NEW t \in Tasks, PendingAdd(t) \/ ClearIdle(t)
      PROVE  TypeOK'
  <2>1. at' \in [Tasks -> Places]
    BY <1>0, <1>3 DEF PendingAdd, ClearIdle, Goto
  <2>2. failed' \in BOOLEAN /\ idle' \in BOOLEAN
    BY <1>3, Zenon DEF PendingAdd, ClearIdle, TypeOK
  <2>3. pending' \in Nat
    BY <1>3 DEF PendingAdd, ClearIdle, TypeOK
  <2> QED BY <1>3, <2>1, <2>2, <2>3, Zenon DEF PendingAdd, ClearIdle, TypeOK, delivery
<1>4. ASSUME NEW t \in Tasks, QueueSend(t)
      PROVE  TypeOK'
  <2>0. enqueue \in Item
    BY DEF TypeOK
  <2>1. [enqueue EXCEPT !.part = @ + 1] \in Item
    BY <2>0 DEF Item
  <2>2. queue' \in Seq(Item) /\ Len(queue') = Len(queue) + 1 /\ Len(queue') <= QueueLength
    BY <1>4 DEF QueueSend, TypeOK
  <2>3. at' \in [Tasks -> Places]
    BY <1>0, <1>4 DEF QueueSend, Goto
  <2>4. mutex' \in Tasks \cup {Nobody} /\ enqueue' \in Item
    BY <1>0, <1>4, <2>1 DEF QueueSend, TypeOK
  <2> QED BY <1>4, <2>2, <2>3, <2>4 DEF QueueSend, TypeOK, delivery
<1>5. ASSUME NEW t \in Tasks, QueueFull(t) \/ PendingUndo(t) \/ UndoSetsIdle(t)
      PROVE  TypeOK'
  <2>1. at' \in [Tasks -> Places]
    BY <1>0, <1>5 DEF QueueFull, PendingUndo, UndoSetsIdle, Goto
  <2>2. pending' \in Nat
    BY <1>5 DEF QueueFull, PendingUndo, UndoSetsIdle, Fewer, TypeOK
  <2>3. mutex' \in Tasks \cup {Nobody} /\ enqueue' \in Item
    BY <1>0, <1>5 DEF QueueFull, PendingUndo, UndoSetsIdle, TypeOK
  <2> QED BY <1>5, <2>1, <2>2, <2>3 DEF QueueFull, PendingUndo, UndoSetsIdle, TypeOK, delivery
<1>6. CASE Receive
  <2>1. /\ current' \in Item /\ queue' \in Seq(Item) /\ Len(queue') = Len(queue) - 1
    BY <1>6, HeadTail DEF Receive, TypeOK
  <2>2. sender' \in {"action", "deliver", "complete"}
    BY <1>6, <2>1 DEF Receive, Item
  <2>3. typing' \in BOOLEAN
    BY <1>6, Zenon DEF Receive, TypeOK
  <2>4. Len(queue') <= QueueLength
    BY <2>1 DEF TypeOK
  <2> QED BY <1>6, <2>1, <2>2, <2>3, <2>4 DEF Receive, TypeOK, producer
<1>7. CASE TypingAction \/ Delivered \/ PendingComplete \/ SenderSetsIdle
  <2>1. pending' \in Nat
    BY <1>7 DEF TypingAction, Delivered, PendingComplete, SenderSetsIdle, Fewer, TypeOK
  <2> QED BY <1>0, <1>7, <2>1 DEF TypingAction, Delivered, PendingComplete, SenderSetsIdle, TypeOK, producer
<1>8. CASE Refused \/ WifiDown \/ WifiUp
  <2>1. failed' \in BOOLEAN /\ wifi' \in BOOLEAN
    BY <1>8, Zenon DEF Refused, WifiDown, WifiUp, TypeOK
  <2>4. faults' \in Nat
    BY <1>8 DEF Refused, WifiDown, WifiUp, TypeOK
  <2>0. refused \in SUBSET Item /\ current \in Item
    BY DEF TypeOK
  <2>2. refused' \in SUBSET Item
    BY <1>8, <2>0 DEF Refused, WifiDown, WifiUp
  <2>3. sender' \in {"receive", "action", "deliver", "complete", "set"}
    BY <1>8 DEF Refused, WifiDown, WifiUp, TypeOK
  <2> QED BY <1>8, <2>1, <2>2, <2>3, <2>4 DEF Refused, WifiDown, WifiUp, TypeOK, producer
<1>9. CASE Flush \/ FlushWakes \/ FlushTimeout \/ FlushReturns
  <2>1. at' \in [Tasks -> Places]
    BY <1>0, <1>9 DEF Flush, FlushWakes, FlushTimeout, FlushReturns, Goto
  <2> QED BY <1>9, <2>1 DEF Flush, FlushWakes, FlushTimeout, FlushReturns, TypeOK, delivery
<1>10. CASE UNCHANGED vars
  BY <1>10 DEF vars, producer, delivery, TypeOK
<1> QED BY <1>1, <1>2, <1>3, <1>4, <1>5, <1>6, <1>7, <1>8, <1>9, <1>10, StepsOfNext

(***************************************************************************)
(* The mutex, the count and the bit.                                       *)
(***************************************************************************)
AtWork  == sender \in {"action", "deliver", "complete"}
Counted == mutex # Nobody /\ at[mutex] \in {"clear", "send", "undo"}

LEMMA CountOf == PendingCounted <=> pending = Len(queue) + One(AtWork) + One(Counted)
BY DEF PendingCounted, AtWork, Counted

LEMMA CountOfNext == PendingCounted' <=> pending' = Len(queue') + One(AtWork') + One(Counted')
BY DEF PendingCounted, AtWork, Counted, One

LEMMA SoundStep ==
  ASSUME SoundInv, [Next]_vars
  PROVE  SoundInv'
<1> USE OutboundAssumption, CountOf, CountOfNext
<1>t. TypeOK' /\ TypeOK
  BY TypesHold DEF SoundInv
<1>0. /\ at \in [Tasks -> {"free", "take", "add", "clear", "send", "undo", "set", "flush", "verdict"}]
      /\ mutex \in Tasks \cup {Nobody} /\ mutex' \in Tasks \cup {Nobody}
      /\ pending \in Nat /\ queue \in Seq(Item) /\ Len(queue) \in Nat
      /\ MutexHeld /\ IdleNotLost
      /\ pending = Len(queue) + One(AtWork) + One(Counted)
  BY <1>t, CountOf DEF SoundInv, TypeOK
<1>w. ASSUME UNCHANGED <<mutex, at, pending, idle>>, queue' = queue, AtWork' <=> AtWork,
             sender # "set"
      PROVE  MutexHeld' /\ PendingCounted' /\ IdleNotLost'
  <2>1. Counted' <=> Counted
    BY <1>w DEF Counted
  <2> QED BY <1>0, <1>w, <2>1 DEF MutexHeld, IdleNotLost, One
<1>1. ASSUME NEW t \in Tasks, NEW kind \in {"text", "start", "stop"}, NEW parts \in 1..MaxParts,
             Call(t, kind, parts)
      PROVE  MutexHeld' /\ PendingCounted' /\ IdleNotLost'
  <2>1. MutexHeld'
    BY <1>0, <1>1 DEF Call, MutexHeld, Inside, Goto
  <2>2. (Counted' <=> Counted) /\ (AtWork' <=> AtWork) /\ UNCHANGED <<queue, pending>>
    BY <1>0, <1>1 DEF Call, MutexHeld, Inside, Goto, Counted, AtWork, delivery
  <2>3. PendingCounted'
    BY <1>0, <1>1, <2>2 DEF One
  <2>4. IdleNotLost'
    BY <1>0, <1>1, <2>3 DEF Call, IdleNotLost, Goto, delivery
  <2> QED BY <2>1, <2>3, <2>4
<1>2. ASSUME NEW t \in Tasks, Take(t)
      PROVE  MutexHeld' /\ PendingCounted' /\ IdleNotLost'
  <2>1. MutexHeld'
    BY <1>0, <1>2 DEF Take, MutexHeld, Inside, Goto
  <2>2. (Counted' <=> Counted) /\ (AtWork' <=> AtWork) /\ UNCHANGED <<queue, pending>>
    <3>1. CASE mutex = Nobody
      BY <1>0, <1>2, <3>1 DEF Take, Goto, Counted, AtWork, delivery
    <3>2. CASE mutex # Nobody
      <4>1. mutex' = mutex /\ mutex # t /\ at'[mutex] = at[mutex]
        BY <1>0, <1>2, <3>2 DEF Take, MutexHeld, Inside, Goto
      <4> QED BY <1>2, <4>1 DEF Take, Counted, AtWork, delivery
    <3> QED BY <3>1, <3>2
  <2>3. PendingCounted'
    BY <1>0, <1>2, <2>2 DEF One
  <2>4. IdleNotLost'
    BY <1>0, <1>2, <2>3 DEF Take, IdleNotLost, Goto, delivery
  <2> QED BY <2>1, <2>3, <2>4
<1>3. ASSUME NEW t \in Tasks, PendingAdd(t)
      PROVE  MutexHeld' /\ PendingCounted' /\ IdleNotLost'
  <2>1. MutexHeld'
    BY <1>0, <1>3 DEF PendingAdd, MutexHeld, Inside, Goto
  <2>2. ~Counted /\ Counted' /\ (AtWork' <=> AtWork) /\ UNCHANGED queue /\ pending' = pending + 1
    BY <1>0, <1>3 DEF PendingAdd, MutexHeld, Inside, Goto, Counted, AtWork, delivery
  <2>3. PendingCounted'
    BY <1>0, <1>3, <2>2 DEF One
  <2>4. IdleNotLost'
    BY <1>0, <1>3, <2>3 DEF PendingAdd, IdleNotLost, Goto, delivery
  <2> QED BY <2>1, <2>3, <2>4
<1>4. ASSUME NEW t \in Tasks, ClearIdle(t)
      PROVE  MutexHeld' /\ PendingCounted' /\ IdleNotLost'
  <2>1. MutexHeld'
    BY <1>0, <1>4 DEF ClearIdle, MutexHeld, Inside, Goto
  <2>2. Counted /\ Counted' /\ (AtWork' <=> AtWork) /\ UNCHANGED <<queue, pending>>
    BY <1>0, <1>4 DEF ClearIdle, MutexHeld, Inside, Goto, Counted, AtWork, delivery
  <2>3. PendingCounted'
    BY <1>0, <1>4, <2>2 DEF One
  <2>4. IdleNotLost'
    BY <1>0, <2>2 DEF IdleNotLost, One
  <2> QED BY <2>1, <2>3, <2>4
<1>5. ASSUME NEW t \in Tasks, QueueSend(t)
      PROVE  MutexHeld' /\ PendingCounted' /\ IdleNotLost'
  <2>1. MutexHeld'
    BY <1>0, <1>5 DEF QueueSend, MutexHeld, Inside, Goto
  <2>2. Counted /\ ~Counted' /\ (AtWork' <=> AtWork) /\ UNCHANGED pending
    BY <1>0, <1>5 DEF QueueSend, MutexHeld, Inside, Goto, Counted, AtWork, delivery
  <2>5. Len(queue') = Len(queue) + 1
    BY <1>t, <1>5 DEF QueueSend, TypeOK
  <2>3. PendingCounted'
    BY <1>0, <1>5, <2>2, <2>5 DEF One
  <2>4. IdleNotLost'
    BY <1>0, <1>5, <2>3, <2>5 DEF QueueSend, IdleNotLost, Goto, delivery
  <2> QED BY <2>1, <2>3, <2>4
<1>6. ASSUME NEW t \in Tasks, QueueFull(t)
      PROVE  MutexHeld' /\ PendingCounted' /\ IdleNotLost'
  <2>1. MutexHeld'
    BY <1>0, <1>6 DEF QueueFull, MutexHeld, Inside, Goto
  <2>2. Counted /\ Counted' /\ (AtWork' <=> AtWork) /\ UNCHANGED <<queue, pending>>
    BY <1>0, <1>6 DEF QueueFull, MutexHeld, Inside, Goto, Counted, AtWork, delivery
  <2>3. PendingCounted'
    BY <1>0, <1>6, <2>2 DEF One
  <2>4. IdleNotLost'
    BY <1>0, <1>6, <2>3 DEF QueueFull, IdleNotLost, Goto, delivery
  <2> QED BY <2>1, <2>3, <2>4
<1>7. ASSUME NEW t \in Tasks, PendingUndo(t)
      PROVE  MutexHeld' /\ PendingCounted' /\ IdleNotLost'
  <2>1. MutexHeld'
    BY <1>0, <1>7 DEF PendingUndo, MutexHeld, Inside, Goto
  <2>2. Counted /\ ~Counted' /\ (AtWork' <=> AtWork) /\ UNCHANGED queue /\ pending' = Fewer
    BY <1>0, <1>7 DEF PendingUndo, MutexHeld, Inside, Goto, Counted, AtWork, delivery
  <2>5. Fewer = pending - 1
    BY <1>0, <2>2 DEF Fewer, One
  <2>3. PendingCounted'
    BY <1>0, <1>7, <2>2, <2>5 DEF One
  <2>4. IdleNotLost'
    BY <1>0, <1>7, <2>3, <2>5 DEF PendingUndo, IdleNotLost, Goto, delivery
  <2> QED BY <2>1, <2>3, <2>4
<1>8. ASSUME NEW t \in Tasks, UndoSetsIdle(t)
      PROVE  MutexHeld' /\ PendingCounted' /\ IdleNotLost'
  <2>1. MutexHeld'
    BY <1>0, <1>8 DEF UndoSetsIdle, MutexHeld, Inside, Goto
  <2>2. ~Counted /\ ~Counted' /\ (AtWork' <=> AtWork) /\ UNCHANGED <<queue, pending>>
    BY <1>0, <1>8 DEF UndoSetsIdle, MutexHeld, Inside, Goto, Counted, AtWork, delivery
  <2>3. PendingCounted'
    BY <1>0, <1>8, <2>2 DEF One
  <2>4. IdleNotLost'
    BY <1>0, <1>8, <2>3 DEF UndoSetsIdle, IdleNotLost, Goto, delivery
  <2> QED BY <2>1, <2>3, <2>4
<1>9. ASSUME Receive
      PROVE  MutexHeld' /\ PendingCounted' /\ IdleNotLost'
  <2>1. Len(queue') = Len(queue) - 1 /\ current' \in Item
    BY <1>0, <1>9, HeadTail DEF Receive
  <2>2. sender = "receive" /\ sender' \in {"action", "deliver", "complete"}
    BY <1>9, <2>1 DEF Receive, Item
  <2>3. ~AtWork /\ AtWork' /\ (Counted' <=> Counted) /\ UNCHANGED <<mutex, at, pending, idle>>
    BY <1>9, <2>2 DEF Receive, AtWork, Counted, producer
  <2> QED BY <1>0, <2>1, <2>2, <2>3 DEF MutexHeld, IdleNotLost, One
<1>10. ASSUME TypingAction \/ Delivered \/ Refused
       PROVE  MutexHeld' /\ PendingCounted' /\ IdleNotLost'
  BY <1>10, <1>w DEF TypingAction, Delivered, Refused, AtWork, producer
<1>11. ASSUME PendingComplete
       PROVE  MutexHeld' /\ PendingCounted' /\ IdleNotLost'
  <2>1. /\ AtWork /\ ~AtWork' /\ (Counted' <=> Counted) /\ pending' = Fewer
        /\ UNCHANGED <<mutex, at, queue, idle>> /\ (pending' = 0 => sender' = "set")
    BY <1>11 DEF PendingComplete, AtWork, Counted, producer
  <2>2. Fewer = pending - 1
    BY <1>0, <2>1 DEF Fewer, One
  <2> QED BY <1>0, <2>1, <2>2 DEF MutexHeld, IdleNotLost, One
<1>12. ASSUME SenderSetsIdle
       PROVE  MutexHeld' /\ PendingCounted' /\ IdleNotLost'
  <2>1. /\ ~AtWork /\ ~AtWork' /\ (Counted' <=> Counted)
        /\ UNCHANGED <<mutex, at, queue, pending>> /\ idle'
    BY <1>12 DEF SenderSetsIdle, AtWork, Counted, producer
  <2> QED BY <1>0, <2>1 DEF MutexHeld, IdleNotLost, One
<1>13. ASSUME WifiDown \/ WifiUp \/ UNCHANGED vars
       PROVE  MutexHeld' /\ PendingCounted' /\ IdleNotLost'
  <2>1. /\ (Counted' <=> Counted) /\ (AtWork' <=> AtWork)
        /\ UNCHANGED <<mutex, at, queue, pending, idle, sender>>
    BY <1>13 DEF WifiDown, WifiUp, Counted, AtWork, producer, vars, delivery
  <2> QED BY <1>0, <2>1 DEF MutexHeld, IdleNotLost, One
<1>14. ASSUME Flush \/ FlushWakes \/ FlushTimeout \/ FlushReturns
       PROVE  MutexHeld' /\ PendingCounted' /\ IdleNotLost'
  <2>1. /\ at[Agent] \in {"free", "flush", "verdict"}
        /\ \E place \in {"free", "flush", "verdict"} : at' = [at EXCEPT ![Agent] = place]
        /\ UNCHANGED <<mutex, queue, pending, idle, sender>>
    BY <1>14 DEF Flush, FlushWakes, FlushTimeout, FlushReturns, Goto, delivery
  <2>2. MutexHeld'
    BY <1>0, <2>1 DEF MutexHeld, Inside
  <2>3. (Counted' <=> Counted) /\ (AtWork' <=> AtWork)
    BY <1>0, <2>1 DEF Counted, AtWork
  <2>4. IdleNotLost'
    BY <1>0, <2>1 DEF IdleNotLost
  <2> QED BY <1>0, <2>1, <2>2, <2>3, <2>4 DEF One
<1> QED BY <1>t, <1>1, <1>2, <1>3, <1>4, <1>5, <1>6, <1>7, <1>8, <1>9, <1>10, <1>11, <1>12, <1>13,
           <1>14, StepsOfNext DEF SoundInv

LEMMA SoundInit ==
  ASSUME Init
  PROVE  SoundInv
<1> USE OutboundAssumption
<1>1. NoItem \in Item /\ <<>> \in Seq(Item) /\ Len(<<>>) = 0
  BY DEF NoItem, Item
<1>2. /\ at \in [Tasks -> {"free", "take", "add", "clear", "send", "undo", "set", "flush", "verdict"}]
      /\ call \in [Tasks -> Item] /\ refused \in SUBSET Item
  BY <1>1 DEF Init
<1>3. mutex \in Tasks \cup {Nobody} /\ Len(queue) <= QueueLength /\ queue \in Seq(Item)
  BY <1>1 DEF Init
<1>4. TypeOK
  BY <1>1, <1>2, <1>3 DEF Init, TypeOK
<1> QED BY <1>1, <1>4 DEF Init, SoundInv, MutexHeld, PendingCounted, IdleNotLost, One, Inside

(* The inductive invariant of the count and the bit: what they say, and    *)
(* who holds the mutex (pending_add, pending_complete, queue_item).        *)
THEOREM SoundInvariant == Spec => []SoundInv
<1>1. Init => SoundInv
  BY SoundInit
<1>2. SoundInv /\ [Next]_vars => SoundInv'
  BY SoundStep
<1> QED BY <1>1, <1>2, PTL DEF Spec

(* s_pending counts exactly what is queued, at work or about to be queued, *)
(* and with nothing pending the idle bit is set or about to be, whatever   *)
(* steps of the tasks and the sender interleave.                           *)
THEOREM QueueStaysSound == Spec => []QueueSound
<1>1. SoundInv => QueueSound
  BY DEF SoundInv, QueueSound
<1> QED BY <1>1, SoundInvariant, PTL
----------------------------------------------------------------------------
(* Sequences of parts.                                                     *)

LEMMA LinkedLonger ==
  ASSUME NEW s \in Seq(Item), NEW e \in Item,
         Linked(s), s # <<>> => Follows(s[Len(s)], e)
  PROVE  Linked(s \o <<e>>)
<1> DEFINE r == s \o <<e>>
<1>1. /\ Len(s) \in Nat /\ Len(r) = Len(s) + 1 /\ r[Len(s) + 1] = e
      /\ \A k \in 1..Len(s) : r[k] = s[k]
  OBVIOUS
<1>2. ASSUME NEW k \in 1..(Len(r) - 1)
      PROVE  Follows(r[k], r[k + 1])
  <2>1. CASE k = Len(s)
    <3>1. s # <<>> /\ r[k] = s[Len(s)] /\ r[k + 1] = e
      BY <1>1, <2>1
    <3> QED BY <3>1
  <2>2. CASE k # Len(s)
    <3>1. k \in 1..(Len(s) - 1) /\ r[k] = s[k] /\ r[k + 1] = s[k + 1]
      BY <1>1, <2>2
    <3> QED BY <3>1 DEF Linked
  <2> QED BY <2>1, <2>2
<1> QED BY <1>2 DEF Linked

LEMMA LinkedShorter ==
  ASSUME NEW s \in Seq(Item), NEW e \in Item, Linked(s \o <<e>>)
  PROVE  Linked(s) /\ (s # <<>> => Follows(s[Len(s)], e))
<1> DEFINE r == s \o <<e>>
<1>1. /\ Len(s) \in Nat /\ Len(r) = Len(s) + 1 /\ r[Len(s) + 1] = e
      /\ \A k \in 1..Len(s) : r[k] = s[k]
  OBVIOUS
<1>2. \A k \in 1..(Len(s) - 1) : r[k] = s[k] /\ r[k + 1] = s[k + 1] /\ k \in 1..(Len(r) - 1)
  BY <1>1
<1>3. Linked(r)
  OBVIOUS
<1>4. Linked(s)
  BY <1>2, <1>3 DEF Linked
<1>5. s # <<>> => Len(s) \in 1..(Len(r) - 1) /\ r[Len(s)] = s[Len(s)] /\ r[Len(s) + 1] = e
  BY <1>1
<1> QED BY <1>3, <1>4, <1>5 DEF Linked

LEMMA LinkedRest ==
  ASSUME NEW s \in Seq(Item), NEW e \in Item, Linked(<<e>> \o s)
  PROVE  Linked(s)
<1> DEFINE r == <<e>> \o s
<1>1. Len(s) \in Nat /\ Len(r) = Len(s) + 1 /\ \A k \in 1..Len(s) : r[k + 1] = s[k]
  OBVIOUS
<1>2. \A k \in 1..(Len(s) - 1) : r[k + 1] = s[k] /\ r[k + 2] = s[k + 1] /\ k + 1 \in 1..(Len(r) - 1)
  BY <1>1
<1>3. \A k \in 1..(Len(r) - 1) : Follows(r[k], r[k + 1])
  BY DEF Linked
<1>4. ASSUME NEW k \in 1..(Len(s) - 1)
      PROVE  Follows(s[k], s[k + 1])
  <2>1. Follows(r[k + 1], r[(k + 1) + 1])
    BY <1>2, <1>3
  <2>2. (k + 1) + 1 = k + 2
    OBVIOUS
  <2> QED BY <1>2, <2>1, <2>2
<1> QED BY <1>4 DEF Linked

LEMMA OnTheWayIs ==
  ASSUME TypeOK
  PROVE  Sent \in Seq(Item) /\ OnTheWay = IF Filling THEN Sent \o <<enqueue>> ELSE Sent
<1>1. Worked \in Seq(Item) /\ queue \in Seq(Item)
  BY DEF TypeOK, Worked
<1>2. Worked \o queue \in Seq(Item)
  BY <1>1
<1>3. (Worked \o queue) \o <<>> = Worked \o queue
  BY <1>2
<1> QED BY <1>2, <1>3 DEF OnTheWay, Worked, Sent, Filling

LEMMA OnTheWayWillBe ==
  ASSUME TypeOK'
  PROVE  Sent' \in Seq(Item) /\ OnTheWay' = IF Filling' THEN Sent' \o <<enqueue'>> ELSE Sent'
<1>1. Worked' \in Seq(Item) /\ queue' \in Seq(Item)
  BY DEF TypeOK, Worked
<1>2. Worked' \o queue' \in Seq(Item)
  BY <1>1
<1>3. (Worked' \o queue') \o <<>> = Worked' \o queue'
  BY <1>2
<1> QED BY <1>2, <1>3 DEF OnTheWay, Worked, Sent, Filling

(* Whether a part is being filled, and with what, says all about the end   *)
(* of what is on its way.                                                  *)
Ordered(s, filling, e) ==
  /\ \A k \in 1..Len(s) : 1 <= s[k].part /\ s[k].part <= s[k].parts
  /\ Linked(s)
  /\ filling => (s # <<>> => Follows(s[Len(s)], e))
  /\ ~filling => Whole(s)

LEMMA OrderIs ==
  ASSUME TypeOK
  PROVE  OrderInv <=> Calls /\ Ordered(Sent, Filling, enqueue)
<1>1. enqueue \in Item
  BY DEF TypeOK
<1>2. CASE Filling
  <2>1. Linked(OnTheWay) <=> Linked(Sent) /\ (Sent # <<>> => Follows(Sent[Len(Sent)], enqueue))
    BY <1>1, <1>2, OnTheWayIs, LinkedLonger, LinkedShorter
  <2> QED BY <1>2, <2>1 DEF OrderInv, Ordered
<1>3. CASE ~Filling
  BY <1>3, OnTheWayIs DEF OrderInv, Ordered
<1> QED BY <1>2, <1>3

LEMMA OrderWillBe ==
  ASSUME TypeOK', Calls', Ordered(Sent', Filling', enqueue')
  PROVE  OrderInv'
<1>1. enqueue' \in Item
  BY DEF TypeOK
<1>2. CASE Filling'
  <2>1. Linked(Sent' \o <<enqueue'>>)
    BY <1>1, <1>2, OnTheWayWillBe, LinkedLonger DEF Ordered
  <2>2. OnTheWay' = Sent' \o <<enqueue'>>
    BY <1>2, OnTheWayWillBe
  <2>3. Linked(OnTheWay)'
    BY <2>1, <2>2 DEF Linked, Follows
  <2> QED BY <1>2, <2>3 DEF OrderInv, Ordered, Whole
<1>3. CASE ~Filling'
  <2>1. Linked(OnTheWay)'
    BY <1>3, OnTheWayWillBe DEF Ordered, Linked, Follows
  <2> QED BY <1>3, <2>1 DEF OrderInv, Ordered, Whole
<1> QED BY <1>2, <1>3

(***************************************************************************)
(* What each step does to the calls and to the order.                      *)
(***************************************************************************)
LEMMA CallsStep ==
  ASSUME SoundInv, OrderInv, [Next]_vars
  PROVE  Calls'
<1> USE OutboundAssumption
<1>0. /\ at \in [Tasks -> {"free", "take", "add", "clear", "send", "undo", "set", "flush", "verdict"}]
      /\ call \in [Tasks -> Item] /\ enqueue \in Item /\ calls \in Nat
      /\ MutexHeld /\ Calls
  BY DEF SoundInv, TypeOK, OrderInv
<1>1. ASSUME NEW u \in Tasks, NEW kind \in {"text", "start", "stop"}, NEW parts \in 1..MaxParts,
             Call(u, kind, parts)
      PROVE  Calls'
  <2> QED BY <1>0, <1>1 DEF Call, Calls, Goto, Inside
<1>2. ASSUME NEW u \in Tasks, Take(u)
      PROVE  Calls'
  BY <1>0, <1>2 DEF Take, Calls, MutexHeld, Goto, Inside, Item
<1>3. ASSUME NEW u \in Tasks, PendingAdd(u)
      PROVE  Calls'
  BY <1>0, <1>3 DEF PendingAdd, Calls, MutexHeld, Goto, Inside, Item
<1>4. ASSUME NEW u \in Tasks, ClearIdle(u)
      PROVE  Calls'
  BY <1>0, <1>4 DEF ClearIdle, Calls, MutexHeld, Goto, Inside, Item
<1>5. ASSUME NEW u \in Tasks, QueueSend(u)
      PROVE  Calls'
  <2>1. /\ mutex = u /\ at[u] = "send" /\ call' = call
        /\ enqueue = [call[u] EXCEPT !.part = enqueue.part] /\ enqueue.part \in 1..call[u].parts
        /\ call[u] \in Item /\ \A t \in Tasks : t # u => at[t] \notin Inside /\ at'[t] = at[t]
    BY <1>0, <1>5 DEF QueueSend, Calls, MutexHeld, Goto, Inside
  <2>2. CASE enqueue.part < call[u].parts
    <3>1. enqueue' = [enqueue EXCEPT !.part = @ + 1] /\ at'[u] = "add"
      BY <1>0, <1>5, <2>2 DEF QueueSend, Goto
    <3>2. enqueue' = [call[u] EXCEPT !.part = enqueue'.part] /\ enqueue'.part = enqueue.part + 1
      BY <2>1, <3>1 DEF Item
    <3>3. enqueue'.part \in 1..call[u].parts
      BY <2>1, <2>2, <3>2 DEF Item
    <3> QED BY <1>0, <2>1, <3>1, <3>2, <3>3 DEF Calls, Inside
  <2>3. CASE ~(enqueue.part < call[u].parts)
    <3>1. at'[u] = "free"
      BY <1>0, <1>5, <2>3 DEF QueueSend, Goto
    <3> QED BY <1>0, <2>1, <3>1 DEF Calls, Inside
  <2> QED BY <2>2, <2>3
<1>6. ASSUME NEW u \in Tasks, QueueFull(u)
      PROVE  Calls'
  BY <1>0, <1>6 DEF QueueFull, Calls, MutexHeld, Goto, Inside, Item
<1>7. ASSUME NEW u \in Tasks, PendingUndo(u)
      PROVE  Calls'
  BY <1>0, <1>7 DEF PendingUndo, Calls, MutexHeld, Goto, Inside, Item
<1>8. ASSUME NEW u \in Tasks, UndoSetsIdle(u)
      PROVE  Calls'
  BY <1>0, <1>8 DEF UndoSetsIdle, Calls, MutexHeld, Goto, Inside, Item
<1>9. ASSUME Flush \/ FlushWakes \/ FlushTimeout \/ FlushReturns
      PROVE  Calls'
  <2>1. /\ at[Agent] \in {"free", "flush", "verdict"}
        /\ \E place \in {"free", "flush", "verdict"} : at' = [at EXCEPT ![Agent] = place]
        /\ UNCHANGED <<call, enqueue>>
    BY <1>9 DEF Flush, FlushWakes, FlushTimeout, FlushReturns, Goto, delivery
  <2> QED BY <1>0, <2>1 DEF Calls, Inside
<1>10. ASSUME \/ Receive \/ TypingAction \/ Delivered \/ PendingComplete \/ SenderSetsIdle
              \/ Refused \/ WifiDown \/ WifiUp \/ UNCHANGED vars
       PROVE  Calls'
  <2>1. UNCHANGED <<at, call, enqueue>>
    BY <1>10 DEF Receive, TypingAction, Delivered, PendingComplete, SenderSetsIdle, Refused, WifiDown,
                 WifiUp, vars, producer
  <2> QED BY <1>0, <2>1 DEF Calls, Inside
<1> QED BY <1>1, <1>2, <1>3, <1>4, <1>5, <1>6, <1>7, <1>8, <1>9, <1>10, StepsOfNext

LEMMA OrderStep ==
  ASSUME SoundInv, OrderInv, [Next]_vars
  PROVE  OrderInv'
<1> USE OutboundAssumption
<1>t. TypeOK /\ TypeOK' /\ Calls /\ Calls' /\ MutexHeld /\ MutexHeld'
  BY SoundStep, CallsStep DEF SoundInv, OrderInv
<1>0. /\ at \in [Tasks -> {"free", "take", "add", "clear", "send", "undo", "set", "flush", "verdict"}]
      /\ call \in [Tasks -> Item] /\ enqueue \in Item /\ queue \in Seq(Item) /\ current \in Item
      /\ mutex \in Tasks \cup {Nobody} /\ enqueue' \in Item
      /\ Sent \in Seq(Item) /\ Ordered(Sent, Filling, enqueue)
  BY <1>t, OnTheWayIs, OrderIs DEF TypeOK
<1> SUFFICES Ordered(Sent', Filling', enqueue')
  BY <1>t, OrderWillBe
<1>same. ASSUME Sent' = Sent, Filling' <=> Filling, Filling => enqueue' = enqueue
         PROVE  Ordered(Sent', Filling', enqueue')
  BY <1>0, <1>same DEF Ordered
<1>1. ASSUME NEW t \in Tasks, NEW kind \in {"text", "start", "stop"}, NEW parts \in 1..MaxParts,
             Call(t, kind, parts)
      PROVE  Ordered(Sent', Filling', enqueue')
  <2>1. Sent' = Sent /\ enqueue' = enqueue
    BY <1>1 DEF Call, Sent, Worked, delivery
  <2>2. Filling' <=> Filling
    BY <1>0, <1>1 DEF Call, Filling, Goto
  <2> QED BY <2>1, <2>2, <1>same
<1>2. ASSUME NEW t \in Tasks, Take(t)
      PROVE  Ordered(Sent', Filling', enqueue')
  <2>1. Sent' = Sent
    BY <1>2 DEF Take, Sent, Worked, delivery
  <2>2. CASE mutex = Nobody
    <3>1. ~Filling /\ enqueue'.part = 1
      BY <1>0, <1>2, <1>t, <2>2 DEF Take, Filling, Calls, Inside
    <3>2. Whole(Sent)
      BY <1>0, <3>1 DEF Ordered
    <3>3. Filling'
      BY <1>0, <1>2, <2>2 DEF Take, Filling, Goto
    <3>4. Sent # <<>> => Follows(Sent[Len(Sent)], enqueue')
      <4> SUFFICES ASSUME Sent # <<>>
                   PROVE  Follows(Sent[Len(Sent)], enqueue')
        OBVIOUS
      <4>1. Sent[Len(Sent)] \in Item
        BY <1>0
      <4>2. ~(Sent[Len(Sent)].part < Sent[Len(Sent)].parts)
        BY <3>2, <4>1 DEF Whole, Item
      <4> QED BY <3>1, <4>2 DEF Follows
    <3> QED BY <1>0, <2>1, <3>3, <3>4 DEF Ordered
  <2>3. CASE mutex # Nobody
    <3>1. mutex' = mutex /\ mutex # t /\ at'[mutex] = at[mutex] /\ enqueue' = enqueue
      BY <1>0, <1>2, <1>t, <2>3 DEF Take, MutexHeld, Inside, Goto
    <3>2. Filling' <=> Filling
      BY <3>1 DEF Filling
    <3> QED BY <2>1, <3>1, <3>2, <1>same
  <2> QED BY <2>2, <2>3
<1>3. ASSUME NEW t \in Tasks, PendingAdd(t) \/ ClearIdle(t)
      PROVE  Ordered(Sent', Filling', enqueue')
  <2>1. Sent' = Sent /\ enqueue' = enqueue
    BY <1>3 DEF PendingAdd, ClearIdle, Sent, Worked, delivery
  <2>2. Filling /\ Filling'
    BY <1>0, <1>3, <1>t DEF PendingAdd, ClearIdle, Filling, MutexHeld, Inside, Goto
  <2> QED BY <2>1, <2>2, <1>same
<1>4. ASSUME NEW t \in Tasks, QueueSend(t)
      PROVE  Ordered(Sent', Filling', enqueue')
  <2>1. Filling /\ mutex = t
    BY <1>0, <1>4, <1>t DEF QueueSend, Filling, MutexHeld, Inside
  <2>2. Sent' = Sent \o <<enqueue>>
    <3>1. queue' = queue \o <<enqueue>> /\ UNCHANGED <<sender, current>>
      BY <1>0, <1>4 DEF QueueSend, delivery
    <3>2. Worked' = Worked /\ Worked \in Seq(Item)
      BY <1>0, <3>1 DEF Worked
    <3>3. Worked \o (queue \o <<enqueue>>) = (Worked \o queue) \o <<enqueue>>
      BY <1>0, <3>2
    <3> QED BY <3>1, <3>2, <3>3 DEF Sent
  <2>3. Linked(Sent')
    BY <1>0, <2>1, <2>2, LinkedLonger DEF Ordered
  <2>4. 1 <= enqueue.part /\ enqueue.part <= enqueue.parts /\ enqueue.parts = call[t].parts
    <3>1. at[t] \in Inside
      BY <1>4 DEF QueueSend, Inside
    <3>2. enqueue = [call[t] EXCEPT !.part = enqueue.part] /\ enqueue.part \in 1..call[t].parts
      BY <1>t, <3>1 DEF Calls
    <3>3. call[t] \in Item
      BY <1>0
    <3>4. enqueue.parts = call[t].parts
      BY <3>2, <3>3 DEF Item
    <3> QED BY <3>2, <3>3, <3>4 DEF Item
  <2>5. /\ Len(Sent') = Len(Sent) + 1 /\ Sent'[Len(Sent')] = enqueue /\ Sent' # <<>>
        /\ \A k \in 1..Len(Sent) : Sent'[k] = Sent[k]
    BY <1>0, <2>2
  <2>6. \A k \in 1..Len(Sent') : 1 <= Sent'[k].part /\ Sent'[k].part <= Sent'[k].parts
    BY <1>0, <2>4, <2>5 DEF Ordered
  <2>7. CASE enqueue.part < call[t].parts
    <3>1. enqueue' = [enqueue EXCEPT !.part = @ + 1] /\ Filling'
      BY <1>0, <1>4, <2>1, <2>7 DEF QueueSend, Filling, Goto
    <3>2. Follows(enqueue, enqueue')
      BY <2>4, <2>7, <3>1 DEF Follows
    <3> QED BY <2>3, <2>5, <2>6, <3>1, <3>2 DEF Ordered
  <2>8. CASE ~(enqueue.part < call[t].parts)
    <3>1. ~Filling'
      BY <1>4, <2>8 DEF QueueSend, Filling
    <3>2. enqueue.part \in Nat /\ enqueue.parts \in Nat
      BY <1>0 DEF Item
    <3>3. enqueue.part = enqueue.parts
      BY <2>4, <2>8, <3>2
    <3> QED BY <2>3, <2>5, <2>6, <3>1, <3>3 DEF Ordered, Whole
  <2> QED BY <2>7, <2>8
<1>5. ASSUME NEW t \in Tasks, QueueFull(t)
      PROVE  Ordered(Sent', Filling', enqueue')
  <2>1. Sent' = Sent /\ Filling /\ ~Filling' /\ mutex = t
    BY <1>0, <1>5, <1>t DEF QueueFull, Sent, Worked, delivery, Filling, MutexHeld, Inside, Goto
  <2>2. enqueue.part = 1
    <3>1. at[t] \in Inside /\ enqueue.kind = "start"
      BY <1>5 DEF QueueFull, Inside
    <3>2. /\ enqueue = [call[t] EXCEPT !.part = enqueue.part] /\ enqueue.part \in 1..call[t].parts
          /\ (call[t].kind = "text" \/ call[t].parts = 1)
      BY <1>t, <3>1 DEF Calls
    <3>3. call[t] \in Item
      BY <1>0
    <3>4. enqueue.kind = call[t].kind
      BY <3>2, <3>3 DEF Item
    <3> QED BY <3>1, <3>2, <3>4
  <2>3. ASSUME Sent # <<>>
        PROVE  Sent[Len(Sent)].part = Sent[Len(Sent)].parts
    <3> DEFINE last == Sent[Len(Sent)]
    <3>1. Len(Sent) \in 1..Len(Sent) /\ last \in Item
      BY <1>0, <2>3
    <3>2. 1 <= last.part /\ last.part <= last.parts /\ Follows(last, enqueue)
      BY <1>0, <2>1, <2>3, <3>1 DEF Ordered
    <3>3. ~(last.part < last.parts)
      <4> SUFFICES ASSUME last.part < last.parts
                   PROVE  FALSE
        OBVIOUS
      <4>1. enqueue = [last EXCEPT !.part = @ + 1]
        BY <3>2 DEF Follows
      <4>2. enqueue.part = last.part + 1
        BY <3>1, <4>1 DEF Item
      <4> QED BY <2>2, <3>1, <3>2, <4>2 DEF Item
    <3> QED BY <3>1, <3>2, <3>3 DEF Item
  <2> QED BY <1>0, <2>1, <2>3 DEF Ordered, Whole
<1>6. ASSUME NEW t \in Tasks, PendingUndo(t) \/ UndoSetsIdle(t)
      PROVE  Ordered(Sent', Filling', enqueue')
  <2>1. Sent' = Sent /\ ~Filling /\ ~Filling'
    BY <1>0, <1>6, <1>t DEF PendingUndo, UndoSetsIdle, Sent, Worked, delivery, Filling, MutexHeld, Inside, Goto
  <2> QED BY <2>1, <1>same
<1>7. ASSUME Receive
      PROVE  Ordered(Sent', Filling', enqueue')
  <2>1. /\ queue = <<Head(queue)>> \o Tail(queue) /\ current' = Head(queue) /\ queue' = Tail(queue)
        /\ Head(queue) \in Item
    BY <1>0, <1>7, HeadTail DEF Receive
  <2>2. sender = "receive" /\ sender' \in {"action", "deliver", "complete"}
    BY <1>7, <2>1 DEF Receive, Item
  <2>3. Sent' = queue /\ Sent = <<>> \o queue
    BY <2>1, <2>2 DEF Sent, Worked
  <2>4. Sent' = Sent
    BY <1>0, <2>3
  <2>5. (Filling' <=> Filling) /\ enqueue' = enqueue
    BY <1>7 DEF Receive, Filling, producer
  <2> QED BY <2>4, <2>5, <1>same
<1>8. ASSUME PendingComplete
      PROVE  Ordered(Sent', Filling', enqueue')
  <2>1. /\ Sent = <<current>> \o queue /\ Sent' = <<>> \o queue'
        /\ queue' = queue /\ (Filling' <=> Filling) /\ enqueue' = enqueue
    BY <1>8 DEF PendingComplete, Sent, Worked, Filling, producer
  <2>2. Sent' = queue
    BY <1>0, <2>1
  <2>3. /\ Len(Sent) = Len(queue) + 1 /\ \A k \in 1..Len(queue) : queue[k] = Sent[k + 1]
        /\ queue # <<>> => queue[Len(queue)] = Sent[Len(Sent)] /\ Sent # <<>>
    BY <1>0, <2>1
  <2>4. Linked(queue)
    BY <1>0, <2>1, LinkedRest DEF Ordered
  <2>5. \A k \in 1..Len(queue) : 1 <= queue[k].part /\ queue[k].part <= queue[k].parts
    <3> SUFFICES ASSUME NEW k \in 1..Len(queue)
                 PROVE  1 <= queue[k].part /\ queue[k].part <= queue[k].parts
      OBVIOUS
    <3>1. k + 1 \in 1..Len(Sent) /\ queue[k] = Sent[k + 1]
      BY <1>0, <2>3
    <3> QED BY <1>0, <3>1 DEF Ordered
  <2> QED BY <1>0, <2>1, <2>2, <2>3, <2>4, <2>5 DEF Ordered, Whole
<1>9. ASSUME \/ TypingAction \/ Delivered \/ SenderSetsIdle \/ Refused \/ WifiDown \/ WifiUp
             \/ UNCHANGED vars
      PROVE  Ordered(Sent', Filling', enqueue')
  <2>1. Sent' = Sent /\ (Filling' <=> Filling) /\ enqueue' = enqueue
    BY <1>9 DEF TypingAction, Delivered, SenderSetsIdle, Refused, WifiDown, WifiUp, Sent, Worked, Filling,
                producer, delivery, vars
  <2> QED BY <2>1, <1>same
<1>10. ASSUME Flush \/ FlushWakes \/ FlushTimeout \/ FlushReturns
       PROVE  Ordered(Sent', Filling', enqueue')
  <2>1. /\ at[Agent] \in {"free", "flush", "verdict"}
        /\ \E place \in {"free", "flush", "verdict"} : at' = [at EXCEPT ![Agent] = place]
        /\ UNCHANGED <<mutex, enqueue, queue, sender, current>>
    BY <1>10 DEF Flush, FlushWakes, FlushTimeout, FlushReturns, Goto, delivery
  <2>2. Sent' = Sent
    BY <2>1 DEF Sent, Worked
  <2>3. Filling' <=> Filling
    BY <1>0, <2>1 DEF Filling
  <2> QED BY <2>1, <2>2, <2>3, <1>same
<1> QED BY <1>1, <1>2, <1>3, <1>4, <1>5, <1>6, <1>7, <1>8, <1>9, <1>10, StepsOfNext

LEMMA OrderInit ==
  ASSUME Init
  PROVE  OrderInv
<1>1. Sent = <<>> \o <<>> /\ ~Filling
  BY DEF Init, Sent, Worked, Filling
<1>2. Sent = <<>> /\ Len(Sent) = 0 /\ OnTheWay = <<>>
  BY <1>1 DEF OnTheWay, Sent, Worked, Filling, Init
<1>3. Calls
  BY DEF Init, Calls, Inside
<1> QED BY <1>1, <1>2, <1>3 DEF OrderInv, Linked, Whole

(* What is on its way is linked, part after part, and ends with a whole    *)
(* text whenever no task is filling s_enqueue (queue_item, sender_task).   *)
THEOREM OrderInvariant == Spec => [](SoundInv /\ OrderInv)
<1>1. Init => SoundInv /\ OrderInv
  BY SoundInit, OrderInit
<1>2. SoundInv /\ OrderInv /\ [Next]_vars => (SoundInv /\ OrderInv)'
  BY SoundStep, OrderStep
<1> QED BY <1>1, <1>2, PTL DEF Spec

(* The parts of a text reach the sender in order, all of them and with     *)
(* nothing of another text between them, whatever other tasks send at the  *)
(* same time (mp_telegram_send under s_enqueue_mutex).                     *)
THEOREM TextsStayUnbroken == Spec => []TextsUnbroken
<1>1. ASSUME SoundInv, OrderInv
      PROVE  TextsUnbroken
  <2>1. Linked(OnTheWay)
    BY <1>1 DEF OrderInv
  <2>2. ASSUME mutex = Nobody, queue # <<>>
        PROVE  queue[Len(queue)].part = queue[Len(queue)].parts
    <3>1. Whole(Sent) /\ queue \in Seq(Item) /\ current \in Item
      BY <1>1, <2>2 DEF OrderInv, Filling, SoundInv, TypeOK
    <3>2. Worked = <<>> \/ Worked = <<current>>
      BY DEF Worked
    <3>3. Sent # <<>> /\ Sent[Len(Sent)] = queue[Len(queue)]
      BY <2>2, <3>1, <3>2 DEF Sent
    <3> QED BY <3>1, <3>3 DEF Whole
  <2> QED BY <2>1, <2>2 DEF TextsUnbroken, Linked, Follows
<1> QED BY <1>1, OrderInvariant, PTL
=============================================================================
