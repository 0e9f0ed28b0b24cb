--------------------------- MODULE ChannelsProofs ---------------------------
(***************************************************************************)
(* Theorems about what arrives: over Telegram and over Instagram nothing   *)
(* is lost and nothing repeated but for the reasons the code has, texts    *)
(* keep their order, the owner's conversation is the one that is read, and *)
(* no message is passed before its answers are accepted; for any number of *)
(* messages, pages, texts, failures and restarts, on one device.           *)
(***************************************************************************)
EXTENDS Channels, SequenceTheorems, FiniteSetTheorems, WellFoundedInduction, TLAPS

(***************************************************************************)
(* The agent.  Of the messages with it no two are for the same update, and *)
(* at most one came over Instagram.                                        *)
(***************************************************************************)
Same(m, h) ==
  \/ m.from = "telegram" /\ h.from = "telegram" /\ m.n = h.n
  \/ m.from = "instagram" /\ h.from = "instagram"

AgentTypes ==
  /\ queue \in Seq(Messages) /\ running \in Seq(Messages) /\ Len(running) <= 1
  /\ notified \in [Channels -> 0..2]

Apart ==
  /\ \A i, j \in DOMAIN queue : Same(queue[i], queue[j]) => i = j
  /\ \A i \in DOMAIN queue : running # <<>> => ~Same(queue[i], running[1])

(* Texts and pictures stand in the queue in the order they were sent in.   *)
Lined(m) == m.from = Channel /\ m.kind # "command"

InLine ==
  \A i, j \in DOMAIN queue : i < j /\ Lined(queue[i]) /\ Lined(queue[j]) => queue[i].n < queue[j].n

AgentInv == AgentTypes /\ Apart /\ InLine

(***************************************************************************)
(* Telegram.  Frontier is the highest update the poller is done with; an   *)
(* update beyond it has ended only in earlier boots.                       *)
(***************************************************************************)
Frontier == Higher(told, offset)
Given(m) == m.from = Channel
Met(n)   == n <= Frontier \/ (poller.at = "wait" /\ n = poller.n)

PollerInv ==
  /\ offset <= told + 1
  /\ poller.at # "poll" => poller.n = told + 1 /\ offset <= told /\ poller.n <= Len(updates)

HeldInv ==
  \A m \in InAgent : Given(m) =>
    /\ m.n \in 1..Len(updates) /\ m.picture # "cut"
    /\ IF m.waits THEN poller.at = "wait" /\ m.n = poller.n ELSE m.n <= Frontier

PhotoInv ==
  poller.at = "wait" =>
    IF notified[Channel] = 0 THEN poller.n \in Held ELSE ends[poller.n] > 0 /\ poller.n \notin Held

CountInv ==
  \A n \in Updates : ends[n] <= redone[n] + (IF Met(n) /\ n \notin Held THEN 1 ELSE 0)

TelegramInv == TelegramTypes /\ PollerInv /\ HeldInv /\ PhotoInv /\ CountInv /\ UpdatesNotLost

(***************************************************************************)
(* Instagram: types, and where the walk may be.                            *)
(***************************************************************************)
Someone == People \cup {Nobody}

RamType  == [mark : 0..MaxItems, of : Someone, ready : BOOLEAN, who : Someone, conv : Someone]
WalkType == [at : {"boot", "off", "poll", "find", "handle", "wait", "say", "flush", "save"},
             page : 0..(PageCount - 1), cursors : Seq(Nat), next : Nat, last : Nat]
Counts   == [People -> [Items -> Nat]]

IgTyped ==
  /\ threads \in [People -> Seq(ItemKinds)] /\ \A p \in People : Len(threads[p]) <= MaxItems
  /\ owner \in People /\ flash \in Flashes
  /\ ram \in RamType /\ walk \in WalkType /\ done \in Counts /\ again \in Counts
  /\ muddled \in BOOLEAN /\ torn \in BOOLEAN

OutTyped ==
  /\ out \in 0..(OutLength + 1) /\ pending \in Nat /\ idle \in BOOLEAN /\ refused \in BOOLEAN
  /\ sender \in {"free", "count", "idle"}
  /\ saying \in [by : {Nobody, "poller", "agent"}, at : {"no", "clear", "queue"}]
  /\ saying.at = "no" => saying = Silent
  /\ said \in Nat /\ older \in Nat /\ owed \in Nat

Booting == walk.at \in {"boot", "off"}
Walking == walk.at \in {"handle", "wait", "say", "flush", "save"}

MarkOf(m, t) == IF m.of = Nobody THEN m.mark = 0 ELSE m.mark \in DOMAIN t[m.of]

(* Each cursor is the lowest item of the page before it as that was then;  *)
(* only the newest page has grown.                                         *)
Linked(cs, t) ==
  /\ Len(cs) > 0 /\ cs[1] = 0
  /\ \A k \in 2..Len(cs) : cs[k] \in 2..Len(t) /\ cs[k] <= Bottom(t, cs[k - 1])

WalkInv ==
  /\ Booting => ram = Fresh
  /\ walk.at = "poll" => walk = Resting
  /\ walk.at = "find" => ram.conv # Nobody /\ ram.ready /\ Len(walk.cursors) = walk.page + 1
  /\ ram.conv # Nobody => Linked(walk.cursors, Mine)
  /\ Len(walk.cursors) > walk.page
  /\ Walking =>
       /\ ram.conv # Nobody /\ ram.ready /\ (ram.mark # 0 => ram.of = ram.conv)
       /\ ram.mark < walk.next /\ walk.next <= walk.last + 1 /\ walk.last <= Len(Mine)
       /\ walk.page > 0 => walk.last = Cursor - 1
  /\ walk.at \in {"wait", "say", "flush", "save"} => walk.next <= walk.last /\ Mine[Item] \in Incoming
  /\ walk.at = "wait" => Mine[Item] \in Turns
  /\ walk.at = "say" => Mine[Item] = "odd"
  /\ walk.at = "flush" => Mine[Item] \in Turns \cup {"odd"}

(* The one message with the agent is the item in hand.                     *)
OverIg(m) == m.from = "instagram"

IgHeldInv ==
  /\ \A m \in InAgent : OverIg(m) =>
       walk.at = "wait" /\ m.n = Item /\ m.waits /\ notified["instagram"] = 0
  /\ saying.by = "poller" <=> walk.at = "say"

(***************************************************************************)
(* An item is handled once more than the code gave it up, at most: those   *)
(* behind the mark in RAM and in flash, and the one in hand, whose turn is *)
(* over.                                                                   *)
(***************************************************************************)
Passed(i) ==
  /\ flash.ready /\ i <= flash.mark
  /\ Booting \/ (ram.ready /\ i <= ram.mark)

Handled ==
  \/ walk.at = "save"
  \/ walk.at = "flush" /\ Mine[Item] \in Turns
  \/ walk.at = "wait" /\ notified["instagram"] # 0

InHandDone(p, i) == Handled /\ p = ram.conv /\ i = Item

RepeatInv ==
  /\ \A p \in People, i \in Items :
       done[p][i] <= again[p][i] + (IF Passed(i) \/ InHandDone(p, i) THEN 1 ELSE 0)
  /\ Handled => done[ram.conv][Item] > 0

(***************************************************************************)
(* What is behind a mark was handled or passed over, and so was all that   *)
(* the walk has come past.                                                 *)
(***************************************************************************)
Settled(p, i) == threads[p][i] \in Incoming => done[p][i] > 0 \/ <<p, i>> \in skipped

Covered(m) == m.of # Nobody => \A i \in 1..m.mark : Settled(m.of, i)

LostInv ==
  /\ MarkOf(flash, threads) /\ MarkOf(ram, threads)
  /\ Covered(flash) /\ Covered(ram)
  /\ Walking => \A i \in 1..(walk.next - 1) : Settled(ram.conv, i)

(***************************************************************************)
(* Whose conversation it is.                                               *)
(***************************************************************************)
OwnersInv ==
  /\ {flash.who, ram.who, ram.conv} \subseteq {Nobody, flash.owner} \/ torn
  /\ ~Booting /\ ram.conv = Nobody => ram.who = flash.who

(***************************************************************************)
(* The texts since the item in hand: those under way that are not older,   *)
(* and those that were refused, whose error is still there.                *)
(***************************************************************************)
Speaks ==
  /\ saying.at = "clear"
  /\ saying.by = "poller" \/ (saying.by = "agent" /\ TurnOf("instagram"))

AnswersInv ==
  /\ pending = UnderWay + (IF sender = "count" THEN 1 ELSE 0)
  /\ idle /\ pending > 0 /\ ~muddled => Speaks
  /\ older <= UnderWay /\ owed >= UnderWay - older
  /\ owed > UnderWay - older /\ ~muddled => refused
  /\ AnsweredFirst

InstagramInv ==
  IgTyped /\ OutTyped /\ WalkInv /\ IgHeldInv /\ RepeatInv /\ LostInv /\ OwnersInv /\ AnswersInv

ChannelsInv == AgentInv /\ TelegramInv /\ InstagramInv

(***************************************************************************)
(* The agent's queue                                                       *)
(***************************************************************************)
LEMMA SameBoth == \A m, h : Same(m, h) => Same(h, m)
BY DEF Same

(* A message that joins the queue: at the front or at the end.             *)
LEMMA Joins ==
  ASSUME NEW q \in Seq(Messages), NEW m \in Messages
  PROVE  /\ <<m>> \o q \in Seq(Messages) /\ Len(<<m>> \o q) = Len(q) + 1
         /\ (<<m>> \o q)[1] = m /\ \A i \in 2..(Len(q) + 1) : (<<m>> \o q)[i] = q[i - 1]
         /\ Append(q, m) \in Seq(Messages) /\ Len(Append(q, m)) = Len(q) + 1
         /\ Append(q, m)[Len(q) + 1] = m /\ \A i \in 1..Len(q) : Append(q, m)[i] = q[i]
<1>1. <<m>> \in Seq(Messages) /\ Len(<<m>>) = 1 /\ <<m>>[1] = m
  OBVIOUS
<1>2. /\ <<m>> \o q \in Seq(Messages) /\ Len(<<m>> \o q) = Len(<<m>>) + Len(q)
      /\ \A i \in 1..(Len(<<m>>) + Len(q)) :
           (<<m>> \o q)[i] = IF i <= Len(<<m>>) THEN <<m>>[i] ELSE q[i - Len(<<m>>)]
  BY <1>1, ConcatProperties
<1>3. Len(q) \in Nat
  OBVIOUS
<1>4. (<<m>> \o q)[1] = m /\ \A i \in 2..(Len(q) + 1) : (<<m>> \o q)[i] = q[i - 1]
  BY <1>1, <1>2, <1>3
<1>5. /\ Append(q, m) \in Seq(Messages) /\ Len(Append(q, m)) = Len(q) + 1
      /\ Append(q, m)[Len(q) + 1] = m /\ \A i \in 1..Len(q) : Append(q, m)[i] = q[i]
  BY AppendProperties
<1> QED
  BY <1>1, <1>2, <1>3, <1>4, <1>5

LEMMA SubmitFacts ==
  ASSUME AgentTypes, NEW m \in Messages, Submit(m)
  PROVE  /\ queue' \in Seq(Messages) /\ Len(queue') = Len(queue) + 1
         /\ \/ /\ First(m) /\ queue'[1] = m
               /\ \A i \in 2..Len(queue') : i - 1 \in 1..Len(queue) /\ queue'[i] = queue[i - 1]
            \/ /\ queue'[Len(queue')] = m
               /\ \A i \in 1..Len(queue) : queue'[i] = queue[i]
<1>1. queue \in Seq(Messages) /\ Len(queue) \in Nat
  BY DEF AgentTypes
<1>2. CASE First(m)
  <2>1. queue' = <<m>> \o queue
    BY <1>2 DEF Submit
  <2> QED
    BY <1>1, <1>2, <2>1, Joins
<1>3. CASE ~First(m)
  <2>1. queue' = Append(queue, m)
    BY <1>3 DEF Submit
  <2> QED
    BY <1>1, <1>3, <2>1, Joins
<1> QED
  BY <1>2, <1>3

Queued(q) == {q[i] : i \in 1..Len(q)}

LEMMA InAgentIs == InAgent = Queued(queue) \cup Queued(running)
BY DEF InAgent, Queued

LEMMA InAgentTyped == AgentTypes => InAgent \subseteq Messages
BY DEF AgentTypes, InAgent

LEMMA SubmitStep ==
  ASSUME AgentInv, NEW m \in Messages, Submit(m), running' = running,
         notified' \in [Channels -> 0..2],
         \A h \in InAgent : ~Same(m, h),
         Lined(m) => \A h \in InAgent : Lined(h) => h.n < m.n
  PROVE  AgentInv' /\ InAgent' = InAgent \cup {m}
<1> USE DEF AgentInv
<1>1. queue \in Seq(Messages) /\ running \in Seq(Messages) /\ Len(queue) \in Nat /\ Len(running) <= 1
  BY DEF AgentTypes
<1>2. AgentTypes' 
  BY SubmitFacts DEF AgentTypes
<1>3. PICK place \in 1..Len(queue') :
        /\ queue'[place] = m
        /\ \/ place = 1 /\ First(m) /\ \A i \in 2..Len(queue') : i - 1 \in 1..Len(queue) /\ queue'[i] = queue[i - 1]
           \/ place = Len(queue') /\ \A i \in 1..Len(queue) : queue'[i] = queue[i]
  BY <1>1, SubmitFacts
<1>4. Len(queue') = Len(queue) + 1 /\ queue' \in Seq(Messages)
  BY SubmitFacts
<1> DEFINE Was(i) == IF place = 1 /\ First(m) /\ (\A j \in 2..Len(queue') : j - 1 \in 1..Len(queue) /\ queue'[j] = queue[j - 1])
                     THEN i - 1 ELSE i
<1>5. \A i \in 1..Len(queue') : i # place => Was(i) \in 1..Len(queue) /\ queue'[i] = queue[Was(i)]
  BY <1>1, <1>3, <1>4
<1>6. \A i, j \in 1..Len(queue') : (i < j => Was(i) < Was(j)) /\ (i # j => Was(i) # Was(j))
  BY <1>1, <1>4
<1> HIDE DEF Was
<1>7. \A i \in 1..Len(queue) : queue[i] \in InAgent
  BY DEF InAgent
<1>8. running # <<>> => running[1] \in InAgent
  <2> SUFFICES ASSUME running # <<>> PROVE running[1] \in InAgent
    OBVIOUS
  <2>1. 1 \in 1..Len(running)
    BY <1>1
  <2> QED
    BY <2>1 DEF InAgent
<1>9. DOMAIN queue' = 1..Len(queue') /\ DOMAIN queue = 1..Len(queue)
  BY <1>1, <1>4
<1>10. Apart'
  <2>1. ASSUME NEW i \in DOMAIN queue', NEW j \in DOMAIN queue', Same(queue'[i], queue'[j])
        PROVE  i = j
    <3>1. CASE i = place /\ j # place
      BY <1>3, <1>5, <1>7, <1>9, <2>1, <3>1
    <3>2. CASE j = place /\ i # place
      BY <1>3, <1>5, <1>7, <1>9, <2>1, <3>2, SameBoth
    <3>3. CASE i # place /\ j # place
      <4>1. Same(queue[Was(i)], queue[Was(j)]) /\ Was(i) \in DOMAIN queue /\ Was(j) \in DOMAIN queue
        BY <1>5, <1>9, <2>1, <3>3
      <4>2. Was(i) = Was(j)
        BY <4>1 DEF Apart
      <4> QED
        BY <1>6, <1>9, <4>2
    <3> QED
      BY <3>1, <3>2, <3>3
  <2>2. ASSUME NEW i \in DOMAIN queue', running' # <<>>
        PROVE  ~Same(queue'[i], running'[1])
    <3>1. CASE i = place
      BY <1>3, <1>8, <2>2, <3>1
    <3>2. CASE i # place
      <4>1. queue'[i] = queue[Was(i)] /\ Was(i) \in DOMAIN queue
        BY <1>5, <1>9, <3>2
      <4> QED
        BY <2>2, <4>1 DEF Apart
    <3> QED
      BY <3>1, <3>2
  <2> QED
    BY <2>1, <2>2 DEF Apart
<1>11. InLine'
  <2> SUFFICES ASSUME NEW i \in DOMAIN queue', NEW j \in DOMAIN queue', i < j, Lined(queue'[i]), Lined(queue'[j])
               PROVE  queue'[i].n < queue'[j].n
    BY DEF InLine
  <2>1. CASE i # place /\ j # place
    <3>1. Was(i) < Was(j) /\ Was(i) \in DOMAIN queue /\ Was(j) \in DOMAIN queue
      BY <1>5, <1>6, <1>9, <2>1
    <3>2. queue'[i] = queue[Was(i)] /\ queue'[j] = queue[Was(j)]
      BY <1>5, <1>9, <2>1
    <3> QED
      BY <3>1, <3>2 DEF InLine
  <2>2. CASE j = place
    <3>1. i # place /\ i \in 1..Len(queue')
      BY <1>9, <2>2
    <3>2. Lined(m) /\ queue'[i] \in InAgent
      BY <1>3, <1>5, <1>7, <2>2, <3>1
    <3> QED
      BY <1>3, <2>2, <3>2
  <2>3. CASE i = place
    <3>1. Lined(m)
      BY <1>3, <2>3
    <3>2. ~First(m)
      BY <3>1 DEF Lined, First
    <3>3. i = Len(queue')
      BY <1>3, <2>3, <3>2
    <3> QED
      BY <1>1, <1>4, <1>9, <3>3
  <2> QED
    BY <2>1, <2>2, <2>3
<1>12. InAgent' = InAgent \cup {m}
  <2>1. \A i \in 1..Len(queue') : queue'[i] \in Queued(queue) \cup {m}
    BY <1>3, <1>5 DEF Queued
  <2>2. \A i \in 1..Len(queue) : \E j \in 1..Len(queue') : queue'[j] = queue[i]
    <3> TAKE i \in 1..Len(queue)
    <3>1. CASE place = 1 /\ First(m) /\ (\A j \in 2..Len(queue') : j - 1 \in 1..Len(queue) /\ queue'[j] = queue[j - 1])
      <4>1. i + 1 \in 2..Len(queue') /\ i + 1 - 1 = i
        BY <1>1, <1>4
      <4> QED
        BY <3>1, <4>1
    <3>2. CASE \A j \in 1..Len(queue) : queue'[j] = queue[j]
      BY <1>1, <1>4, <3>2
    <3> QED
      BY <1>3, <3>1, <3>2
  <2>3. Queued(queue') \subseteq Queued(queue) \cup {m}
    BY <2>1 DEF Queued
  <2>5. Queued(queue) \subseteq Queued(queue')
    BY <2>2 DEF Queued
  <2>6. m \in Queued(queue')
    BY <1>3 DEF Queued
  <2>4. InAgent' = Queued(queue') \cup Queued(running)
    BY DEF InAgent, Queued
  <2> QED
    BY <2>3, <2>4, <2>5, <2>6, InAgentIs
<1> QED
  BY <1>2, <1>10, <1>11, <1>12

(* The first message of the queue is taken.                                *)
LEMMA StartFacts ==
  ASSUME AgentTypes, TurnStarts
  PROVE  /\ queue' \in Seq(Messages) /\ running' \in Seq(Messages)
         /\ Len(queue) = Len(queue') + 1 /\ Len(running') = 1 /\ running'[1] = queue[1]
         /\ \A i \in 1..Len(queue') : i + 1 \in 1..Len(queue) /\ queue'[i] = queue[i + 1]
<1>1. queue \in Seq(Messages) /\ queue # <<>> /\ running' = <<Head(queue)>> /\ queue' = Tail(queue)
  BY DEF AgentTypes, TurnStarts
<1>2. /\ Head(queue) \in Messages /\ Tail(queue) \in Seq(Messages)
      /\ Len(Tail(queue)) = Len(queue) - 1 /\ \A i \in 1..Len(Tail(queue)) : Tail(queue)[i] = queue[i + 1]
  BY <1>1, HeadTailProperties
<1>3. Head(queue) = queue[1] /\ Len(queue) \in Nat /\ Len(queue') \in Nat
  BY <1>1, <1>2
<1> QED
  BY <1>1, <1>2, <1>3

LEMMA StartStep ==
  ASSUME AgentInv, TurnStarts
  PROVE  AgentInv' /\ InAgent' = InAgent
<1> USE DEF AgentInv
<1>1. queue \in Seq(Messages) /\ Len(queue) \in Nat /\ running = <<>> /\ queue # <<>> /\ notified' = notified
  BY DEF AgentTypes, TurnStarts
<1>2. /\ queue' \in Seq(Messages) /\ running' \in Seq(Messages)
      /\ Len(queue) = Len(queue') + 1 /\ Len(running') = 1 /\ running'[1] = queue[1]
      /\ \A i \in 1..Len(queue') : i + 1 \in 1..Len(queue) /\ queue'[i] = queue[i + 1]
  BY StartFacts
<1>3. DOMAIN queue = 1..Len(queue) /\ DOMAIN queue' = 1..Len(queue') /\ Len(queue') \in Nat
  BY <1>1, <1>2
<1>4. AgentTypes'
  BY <1>1, <1>2 DEF AgentTypes
<1>5. Apart'
  <2>1. ASSUME NEW i \in DOMAIN queue', NEW j \in DOMAIN queue', Same(queue'[i], queue'[j])
        PROVE  i = j
    <3>1. i + 1 \in DOMAIN queue /\ j + 1 \in DOMAIN queue /\ Same(queue[i + 1], queue[j + 1])
      BY <1>2, <1>3, <2>1
    <3>2. i + 1 = j + 1
      BY <3>1 DEF Apart
    <3> QED
      BY <1>3, <3>2
  <2>2. ASSUME NEW i \in DOMAIN queue'
        PROVE  ~Same(queue'[i], running'[1])
    <3>1. i + 1 \in DOMAIN queue /\ 1 \in DOMAIN queue /\ queue'[i] = queue[i + 1] /\ running'[1] = queue[1]
      BY <1>1, <1>2, <1>3
    <3>2. Same(queue[i + 1], queue[1]) => i + 1 = 1
      BY <3>1 DEF Apart
    <3> QED
      BY <1>3, <3>1, <3>2
  <2> QED
    BY <2>1, <2>2 DEF Apart
<1>6. InLine'
  <2> SUFFICES ASSUME NEW i \in DOMAIN queue', NEW j \in DOMAIN queue', i < j, Lined(queue'[i]), Lined(queue'[j])
               PROVE  queue'[i].n < queue'[j].n
    BY DEF InLine
  <2>1. i + 1 \in DOMAIN queue /\ j + 1 \in DOMAIN queue /\ i + 1 < j + 1
    BY <1>2, <1>3
  <2>2. queue'[i] = queue[i + 1] /\ queue'[j] = queue[j + 1]
    BY <1>2, <1>3
  <2> QED
    BY <2>1, <2>2 DEF InLine
<1>7. InAgent' = InAgent
  <2>1. \A i \in 1..Len(queue) : queue[i] \in Queued(queue') \cup Queued(running')
    <3> TAKE i \in 1..Len(queue)
    <3>1. CASE i = 1
      BY <1>2, <3>1 DEF Queued
    <3>2. CASE i # 1
      <4>1. i - 1 \in 1..Len(queue') /\ (i - 1) + 1 = i
        BY <1>1, <1>2, <1>3, <3>2
      <4>2. queue'[i - 1] = queue[i]
        BY <1>2, <4>1
      <4> QED
        BY <4>1, <4>2 DEF Queued
    <3> QED
      BY <3>1, <3>2
  <2>2. Queued(queue') \subseteq Queued(queue)
    BY <1>2 DEF Queued
  <2>3. Queued(running') = {queue[1]} /\ queue[1] \in Queued(queue)
    BY <1>1, <1>2, <1>3 DEF Queued
  <2>4. Queued(running) = {}
    BY <1>1 DEF Queued
  <2>5. InAgent' = Queued(queue') \cup Queued(running')
    BY DEF InAgent, Queued
  <2>6. Queued(queue) \subseteq Queued(queue') \cup Queued(running')
    BY <2>1 DEF Queued
  <2> QED
    BY <2>2, <2>3, <2>4, <2>5, <2>6, InAgentIs
<1> QED
  BY <1>4, <1>5, <1>6, <1>7

(* The turn that runs ends, and its message leaves.                        *)
LEMMA EndStep ==
  ASSUME AgentInv, NEW success \in BOOLEAN, TurnEnds(success)
  PROVE  /\ AgentInv' /\ running[1] \in InAgent /\ running[1] \in Messages
         /\ InAgent' = Queued(queue) /\ InAgent = InAgent' \cup {running[1]}
         /\ \A h \in InAgent' : ~Same(h, running[1])
         /\ notified' = IF running[1].waits
                        THEN [notified EXCEPT ![running[1].from] = IF success THEN 1 ELSE 2]
                        ELSE notified
<1> USE DEF AgentInv
<1>1. queue \in Seq(Messages) /\ running \in Seq(Messages) /\ Len(running) <= 1 /\ running # <<>>
  BY DEF AgentTypes, TurnEnds
<1>2. Len(running) = 1 /\ running[1] \in Messages
  <2>1. Len(running) # 0 /\ Len(running) \in Nat
    BY <1>1, EmptySeq
  <2> DEFINE length == Len(running)
  <2>4. length \in Nat /\ length # 0 /\ length <= 1
    BY <1>1, <2>1
  <2> HIDE DEF length
  <2>5. length = 1
    BY <2>4
  <2>2. Len(running) = 1
    BY <2>5 DEF length
  <2>3. 1 \in 1..Len(running)
    BY <2>2
  <2> QED
    BY <1>1, <2>2, <2>3, ElementOfSeq
<1>3. Queued(running) = {running[1]}
  BY <1>2 DEF Queued
<1>4. queue' = queue /\ running' = <<>>
  BY DEF TurnEnds
<1>5. InAgent' = Queued(queue)
  <2>1. InAgent' = Queued(queue') \cup Queued(running')
    BY DEF InAgent, Queued
  <2>2. Queued(running') = {}
    BY <1>4 DEF Queued
  <2> QED
    BY <1>4, <2>1, <2>2
<1>6. running[1].from \in Channels
  BY <1>2 DEF Messages
<1>7. notified' = IF running[1].waits
                  THEN [notified EXCEPT ![running[1].from] = IF success THEN 1 ELSE 2]
                  ELSE notified
  BY DEF TurnEnds
<1>8. notified' \in [Channels -> 0..2]
  BY <1>6, <1>7 DEF AgentTypes
<1>9. \A h \in Queued(queue) : ~Same(h, running[1])
  BY <1>1 DEF Queued, Apart
<1>10. AgentInv'
  <2>1. AgentTypes'
    BY <1>1, <1>4, <1>8 DEF AgentTypes
  <2>2. Apart'
    BY <1>4 DEF Apart
  <2>3. InLine'
    BY <1>4 DEF InLine
  <2> QED
    BY <2>1, <2>2, <2>3
<1> QED
  BY <1>2, <1>3, <1>5, <1>7, <1>9, <1>10, InAgentIs

(* The agent is left alone, but for a notification.                        *)
LEMMA AgentStays ==
  ASSUME AgentInv, queue' = queue, running' = running, notified' \in [Channels -> 0..2]
  PROVE  AgentInv' /\ InAgent' = InAgent
BY DEF AgentInv, AgentTypes, Apart, InLine, InAgent

LEMMA AgentEmpty ==
  ASSUME queue' = <<>>, running' = <<>>, notified' = [c \in Channels |-> 0]
  PROVE  AgentInv' /\ InAgent' = {}
<1>1. AgentTypes'
  BY DEF AgentTypes
<1>2. Apart' /\ InLine'
  BY DEF Apart, InLine
<1>3. InAgent' = {}
  BY DEF InAgent
<1> QED
  BY <1>1, <1>2, <1>3 DEF AgentInv

(***************************************************************************)
(* Telegram                                                                *)
(***************************************************************************)
LEMMA HeldIs ==
  /\ \A n : n \in Held <=> \E m \in InAgent : Given(m) /\ m.n = n
  /\ \A n : n \in Held' <=> \E m \in InAgent' : Given(m) /\ m.n = n
BY DEF Held, Given, Channel

LEMMA TelegramNumbers ==
  ASSUME TelegramTypes, PollerInv
  PROVE  /\ MaxUpdates \in Nat /\ Len(updates) \in 0..MaxUpdates /\ Updates = 1..MaxUpdates
         /\ told \in 0..Len(updates) /\ offset \in 0..Len(updates) /\ poller.n \in 0..MaxUpdates
         /\ Frontier \in 0..Len(updates) /\ told <= Frontier /\ offset <= Frontier
         /\ Frontier = told \/ Frontier = offset
         /\ poller.at # "poll" => Frontier = told /\ poller.n = told + 1 /\ poller.n \in 1..Len(updates)
         /\ poller.at \in {"poll", "process", "wait"}
         /\ \A n \in Updates : ends[n] \in Nat /\ redone[n] \in Nat
<1>1. Len(updates) \in Nat /\ MaxUpdates \in Nat
  BY TelegramAssumption DEF TelegramTypes
<1>2. Len(updates) \in 0..MaxUpdates /\ Updates = 1..MaxUpdates
  BY <1>1 DEF TelegramTypes, Updates
<1>3. told \in 0..Len(updates) /\ offset \in 0..Len(updates) /\ poller.n \in 0..MaxUpdates
  BY DEF TelegramTypes
<1>4. /\ Frontier \in 0..Len(updates) /\ told <= Frontier /\ offset <= Frontier
      /\ Frontier = told \/ Frontier = offset
      /\ offset <= told => Frontier = told
  BY <1>1, <1>3 DEF Frontier, Higher
<1>5. poller.at # "poll" => Frontier = told /\ poller.n = told + 1 /\ poller.n \in 1..Len(updates)
  BY <1>1, <1>3, <1>4 DEF PollerInv
<1> QED
  BY <1>1, <1>2, <1>3, <1>4, <1>5 DEF TelegramTypes

(* What other tasks do leaves Telegram alone.                              *)
LEMMA TelegramFrame ==
  ASSUME TelegramInv, UNCHANGED telegram, notified'[Channel] = notified[Channel],
         \A m : Given(m) => (m \in InAgent' <=> m \in InAgent)
  PROVE  TelegramInv'
<1> USE DEF TelegramInv
<1>1. /\ updates' = updates /\ told' = told /\ offset' = offset /\ poller' = poller
      /\ pollDrops' = pollDrops /\ ends' = ends /\ redone' = redone /\ cut' = cut /\ setting' = setting
  BY DEF telegram, telegramState, telegramHistory
<1>2. Held' = Held
  BY HeldIs
<1>3. TelegramTypes'
  BY <1>1 DEF TelegramTypes
<1>4. PollerInv'
  BY <1>1 DEF PollerInv
<1>5. Frontier' = Frontier
  BY <1>1 DEF Frontier
<1>6. HeldInv'
  BY <1>1, <1>5 DEF HeldInv
<1>7. PhotoInv'
  BY <1>1, <1>2 DEF PhotoInv, Channel
<1>8. CountInv'
  BY <1>1, <1>2, <1>5 DEF CountInv, Met
<1>9. UpdatesNotLost'
  BY <1>1, <1>2 DEF UpdatesNotLost
<1> QED
  BY <1>3, <1>4, <1>6, <1>7, <1>8, <1>9

LEMMA WriteStep ==
  ASSUME AgentInv, TelegramInv, NEW kind \in UpdateKinds, Write(kind)
  PROVE  AgentInv' /\ TelegramInv'
<1> USE DEF TelegramInv
<1>1. /\ queue' = queue /\ running' = running /\ notified' = notified
      /\ told' = told /\ offset' = offset /\ poller' = poller
      /\ pollDrops' = pollDrops /\ ends' = ends /\ redone' = redone /\ cut' = cut /\ setting' = setting
      /\ updates' = Append(updates, kind) /\ Len(updates) < MaxUpdates
  BY DEF Write, agent, telegramHistory
<1>2. AgentInv' /\ InAgent' = InAgent
  BY <1>1, AgentStays DEF AgentInv, AgentTypes
<1>3. updates' \in Seq(UpdateKinds) /\ Len(updates') = Len(updates) + 1
  BY <1>1, AppendProperties DEF TelegramTypes
<1>4. Held' = Held
  BY <1>2, HeldIs
<1>5. TelegramTypes'
  BY <1>1, <1>3, TelegramNumbers DEF TelegramTypes
<1>6. PollerInv'
  BY <1>1, <1>3, TelegramNumbers DEF PollerInv
<1>7. Frontier' = Frontier
  BY <1>1 DEF Frontier
<1>8. HeldInv'
  BY <1>1, <1>2, <1>3, <1>7, TelegramNumbers DEF HeldInv
<1>9. PhotoInv'
  BY <1>1, <1>4 DEF PhotoInv
<1>10. CountInv'
  BY <1>1, <1>4, <1>7 DEF CountInv, Met
<1>11. UpdatesNotLost'
  BY <1>1, <1>4 DEF UpdatesNotLost
<1> QED
  BY <1>2, <1>5, <1>6, <1>8, <1>9, <1>10, <1>11

LEMMA PollStep ==
  ASSUME AgentInv, TelegramInv, PollAnswered \/ PollFails
  PROVE  AgentInv' /\ TelegramInv'
<1> USE DEF TelegramInv
<1>1. /\ queue' = queue /\ running' = running /\ notified' = notified
      /\ offset' = offset /\ updates' = updates
      /\ ends' = ends /\ redone' = redone /\ cut' = cut /\ setting' = setting
      /\ poller.at = "poll"
  BY DEF PollAnswered, PollFails, agent, telegramHistory
<1>2. AgentInv' /\ InAgent' = InAgent
  BY <1>1, AgentStays DEF AgentInv, AgentTypes
<1>3. Held' = Held
  BY <1>2, HeldIs
<1>4. told' \in {told, Frontier}
  BY DEF PollAnswered, PollFails, Frontier
<1>5. told' \in 0..Len(updates) /\ Frontier' = Frontier /\ offset <= told' + 1
  BY <1>1, <1>4, TelegramNumbers DEF Frontier, Higher, PollerInv
<1>6. pollDrops' \in 0..MaxPollDrops
  BY TelegramAssumption DEF PollAnswered, PollFails, TelegramTypes
<1>7. \/ poller' = [at |-> "process", n |-> told' + 1] /\ told' = Frontier /\ told' < Len(updates)
      \/ poller' = Polling
      \/ poller' = poller
  BY <1>1 DEF PollAnswered, PollFails, Frontier
<1>8. /\ poller' \in [at : {"poll", "process", "wait"}, n : 0..MaxUpdates] /\ poller'.at # "wait"
      /\ poller'.at # "poll" => poller'.n = told' + 1 /\ offset <= told' /\ poller'.n <= Len(updates)
  <2>1. CASE poller' = [at |-> "process", n |-> told' + 1] /\ told' = Frontier /\ told' < Len(updates)
    <3>1. told' + 1 \in 0..MaxUpdates /\ offset <= told' /\ told' + 1 <= Len(updates)
      BY <1>5, <2>1, TelegramNumbers
    <3> QED
      BY <2>1, <3>1
  <2>2. CASE poller' = Polling
    BY <2>2, TelegramNumbers DEF Polling
  <2>3. CASE poller' = poller
    BY <1>1, <2>3 DEF TelegramTypes
  <2> QED
    BY <1>7, <2>1, <2>2, <2>3
<1>9. TelegramTypes'
  BY <1>1, <1>5, <1>6, <1>8 DEF TelegramTypes
<1>10. PollerInv'
  BY <1>1, <1>5, <1>8 DEF PollerInv
<1>11. HeldInv'
  BY <1>1, <1>2, <1>5 DEF HeldInv
<1>12. PhotoInv'
  BY <1>8 DEF PhotoInv
<1>13. CountInv'
  BY <1>1, <1>3, <1>5, <1>8 DEF CountInv, Met
<1>14. UpdatesNotLost'
  BY <1>1, <1>3, <1>5 DEF UpdatesNotLost, Frontier
<1> QED
  BY <1>2, <1>9, <1>10, <1>11, <1>12, <1>13, <1>14

(* The update in hand has been processed, and the offset is past it.       *)
LEMMA InPlaceStep ==
  ASSUME AgentInv, TelegramInv, Ignore \/ AnswerInPlace
  PROVE  AgentInv' /\ TelegramInv'
<1> USE DEF TelegramInv
<1> DEFINE n == poller.n
<1>1. /\ queue' = queue /\ running' = running /\ notified' = notified
      /\ told' = told /\ updates' = updates /\ pollDrops' = pollDrops
      /\ redone' = redone /\ cut' = cut /\ setting' = setting
      /\ poller.at = "process" /\ offset' = n /\ poller' = Polling
      /\ ends' = [ends EXCEPT ![n] = @ + 1]
  BY DEF Ignore, AnswerInPlace, agent, Processed, Ended
<1>2. AgentInv' /\ InAgent' = InAgent
  BY <1>1, AgentStays DEF AgentInv, AgentTypes
<1>3. Held' = Held
  BY <1>2, HeldIs
<1>4. n \in Updates /\ n = told + 1 /\ Frontier = told /\ n <= Len(updates)
  BY <1>1, TelegramNumbers
<1>5. Frontier' = n
  BY <1>1, <1>4, TelegramNumbers DEF Frontier, Higher
<1>6. \A m \in InAgent : Given(m) => m.n \in 1..Len(updates) /\ ~m.waits /\ m.n <= told /\ m.picture # "cut"
  BY <1>1, <1>4 DEF HeldInv
<1>7. n \notin Held
  BY <1>4, <1>6, TelegramNumbers, HeldIs
<1>8. /\ ends' \in [Updates -> Nat] /\ ends'[n] = ends[n] + 1
      /\ \A k \in Updates \ {n} : ends'[k] = ends[k]
  BY <1>1, <1>4 DEF TelegramTypes
<1> HIDE DEF n
<1>9. TelegramTypes'
  BY <1>1, <1>4, <1>8, TelegramNumbers DEF TelegramTypes, Polling
<1>10. PollerInv'
  BY <1>1, <1>4, TelegramNumbers DEF PollerInv, Polling
<1>11. HeldInv'
  <2> SUFFICES ASSUME NEW m \in InAgent, Given(m)
               PROVE  m.n \in 1..Len(updates) /\ ~m.waits /\ m.n <= Frontier' /\ m.picture # "cut"
    BY <1>1, <1>2 DEF HeldInv
  <2> QED
    BY <1>4, <1>5, <1>6, TelegramNumbers
<1>12. PhotoInv'
  BY <1>1 DEF PhotoInv, Polling
<1>13. CountInv'
  <2> SUFFICES ASSUME NEW k \in Updates
               PROVE  ends'[k] <= redone[k] + (IF Met(k)' /\ k \notin Held THEN 1 ELSE 0)
    BY <1>1, <1>3 DEF CountInv
  <2>1. Met(k)' <=> k <= n
    BY <1>1, <1>5 DEF Met, Polling
  <2>2. Met(k) <=> k <= told
    BY <1>1, <1>4 DEF Met
  <2>3. ends[k] <= redone[k] + (IF Met(k) /\ k \notin Held THEN 1 ELSE 0)
    BY DEF CountInv
  <2>4. CASE k = n
    BY <1>4, <1>7, <1>8, <2>1, <2>2, <2>3, <2>4, TelegramNumbers
  <2>5. CASE k # n
    BY <1>4, <1>8, <2>1, <2>2, <2>3, <2>5, TelegramNumbers
  <2> QED
    BY <2>4, <2>5
<1>14. UpdatesNotLost'
  <2> SUFFICES ASSUME NEW k \in 1..n PROVE ends'[k] > 0 \/ k \in Held \cup cut
    BY <1>1, <1>3, <1>5 DEF UpdatesNotLost, Frontier
  <2>1. k \in Updates
    BY <1>4, TelegramNumbers
  <2>2. CASE k = n
    BY <1>4, <1>8, <2>2, TelegramNumbers
  <2>3. CASE k # n
    <3>1. k \in 1..Frontier
      BY <1>4, <2>3, TelegramNumbers
    <3> QED
      BY <1>8, <2>1, <2>3, <3>1 DEF UpdatesNotLost, Frontier
  <2> QED
    BY <2>2, <2>3
<1> QED
  BY <1>2, <1>9, <1>10, <1>11, <1>12, <1>13, <1>14

(* The poller hands the update in hand to the agent: none of those with    *)
(* the agent is for the same update, and all came before.                  *)
LEMMA HandOver ==
  ASSUME AgentInv, TelegramInv, "telegram" \in Channels, poller.at = "process",
         NEW kind \in Kinds, NEW waits \in BOOLEAN, NEW picture \in Looks,
         Submit(Message(poller.n, kind, waits, picture)),
         running' = running, notified' \in [Channels -> 0..2]
  PROVE  /\ AgentInv' /\ InAgent' = InAgent \cup {Message(poller.n, kind, waits, picture)}
         /\ poller.n \notin Held /\ Held' = Held \cup {poller.n}
<1> USE DEF TelegramInv
<1> DEFINE new == Message(poller.n, kind, waits, picture)
<1>1. poller.n \in Updates /\ poller.n \in Nat /\ poller.n = told + 1 /\ Frontier = told
  BY TelegramNumbers
<1>2. new \in Messages /\ new.from = "telegram" /\ new.n = poller.n
  BY <1>1 DEF Messages, Message, Channel
<1>3. \A h \in InAgent : Given(h) => h.n \in 1..Len(updates) /\ h.n <= told
  BY <1>1 DEF HeldInv
<1>4. \A h \in InAgent : Given(h) => h.n < poller.n
  BY <1>1, <1>3, TelegramNumbers
<1> HIDE DEF new
<1>5. \A h \in InAgent : ~Same(new, h)
  BY <1>1, <1>2, <1>3, <1>4, TelegramNumbers DEF Same, Given, Channel
<1>6. \A h \in InAgent : Lined(h) => h.n < new.n
  BY <1>2, <1>4 DEF Lined, Given
<1>7. Submit(new)
  BY DEF new
<1>8. AgentInv' /\ InAgent' = InAgent \cup {new}
  BY <1>2, <1>5, <1>6, <1>7, SubmitStep
<1>9. poller.n \notin Held
  BY <1>1, <1>3, <1>4, HeldIs, TelegramNumbers
<1>10. Held' = Held \cup {poller.n}
  BY <1>2, <1>8, HeldIs DEF Given, Channel
<1> QED
  BY <1>8, <1>9, <1>10 DEF new

LEMMA SubmitTextStep ==
  ASSUME AgentInv, TelegramInv, "telegram" \in Channels, SubmitText
  PROVE  AgentInv' /\ TelegramInv'
<1> USE DEF TelegramInv
<1>1. PICK kind \in Texts(updates[poller.n]) : Submit(Message(poller.n, kind, FALSE, ""))
  BY DEF SubmitText
<1>2. kind \in Kinds
  BY DEF Texts, Kinds
<1> DEFINE n == poller.n
           new == Message(poller.n, kind, FALSE, "")
<1>3. /\ running' = running /\ notified' = notified
      /\ told' = told /\ updates' = updates /\ pollDrops' = pollDrops
      /\ ends' = ends /\ redone' = redone /\ cut' = cut /\ setting' = setting
      /\ poller.at = "process" /\ offset' = n /\ poller' = Polling
  BY DEF SubmitText, Processed, telegramHistory
<1>4. notified' \in [Channels -> 0..2] /\ "" \in Looks /\ FALSE \in BOOLEAN
  <2>1. notified \in [Channels -> 0..2]
    BY DEF AgentInv, AgentTypes
  <2>2. "" \in Looks
    BY DEF Looks
  <2> QED
    BY <1>3, <2>1, <2>2
<1>5. AgentInv' /\ InAgent' = InAgent \cup {new} /\ n \notin Held /\ Held' = Held \cup {n}
  BY <1>1, <1>2, <1>3, <1>4, HandOver
<1>6. n \in Updates /\ n = told + 1 /\ Frontier = told /\ n <= Len(updates) /\ n \in 1..Len(updates)
  BY <1>3, TelegramNumbers
<1>7. Frontier' = n
  BY <1>3, <1>6, TelegramNumbers DEF Frontier, Higher
<1>8. \A m \in InAgent : Given(m) => m.n \in 1..Len(updates) /\ ~m.waits /\ m.n <= told /\ m.picture # "cut"
  BY <1>3, <1>6 DEF HeldInv
<1>9. new.n = n /\ ~new.waits /\ new.picture # "cut"
  BY DEF Message
<1> HIDE DEF n, new
<1>10. TelegramTypes'
  BY <1>3, <1>6, TelegramNumbers DEF TelegramTypes, Polling
<1>11. PollerInv'
  BY <1>3, <1>6, TelegramNumbers DEF PollerInv, Polling
<1>12. HeldInv'
  <2> SUFFICES ASSUME NEW m \in InAgent \cup {new}, Given(m)
               PROVE  m.n \in 1..Len(updates) /\ ~m.waits /\ m.n <= Frontier' /\ m.picture # "cut"
    BY <1>3, <1>5 DEF HeldInv
  <2>1. CASE m \in InAgent
    BY <1>6, <1>7, <1>8, <2>1, TelegramNumbers
  <2>2. CASE m = new
    BY <1>6, <1>7, <1>9, <2>2, TelegramNumbers
  <2> QED
    BY <2>1, <2>2
<1>13. PhotoInv'
  BY <1>3 DEF PhotoInv, Polling
<1>14. CountInv'
  <2> SUFFICES ASSUME NEW k \in Updates
               PROVE  ends[k] <= redone[k] + (IF Met(k)' /\ k \notin Held' THEN 1 ELSE 0)
    BY <1>3 DEF CountInv
  <2>1. Met(k)' <=> k <= n
    BY <1>3, <1>7 DEF Met, Polling
  <2>2. Met(k) <=> k <= told
    BY <1>3, <1>6 DEF Met
  <2>3. ends[k] <= redone[k] + (IF Met(k) /\ k \notin Held THEN 1 ELSE 0)
    BY DEF CountInv
  <2>4. CASE k = n
    BY <1>5, <1>6, <2>1, <2>2, <2>3, <2>4, TelegramNumbers
  <2>5. CASE k # n
    BY <1>5, <1>6, <2>1, <2>2, <2>3, <2>5, TelegramNumbers
  <2> QED
    BY <2>4, <2>5
<1>15. UpdatesNotLost'
  <2> SUFFICES ASSUME NEW k \in 1..n PROVE ends[k] > 0 \/ k \in Held' \cup cut
    BY <1>3, <1>7 DEF UpdatesNotLost, Frontier
  <2>1. CASE k = n
    BY <1>5, <2>1
  <2>2. CASE k # n
    <3>1. k \in 1..Frontier
      BY <1>6, <2>2, TelegramNumbers
    <3> QED
      BY <1>5, <3>1 DEF UpdatesNotLost, Frontier
  <2> QED
    BY <2>1, <2>2
<1> QED
  BY <1>5, <1>10, <1>11, <1>12, <1>13, <1>14, <1>15

(* What the download lets through is whole, or of unknown size.            *)
LEMMA NoneCut == Pictures \subseteq Looks /\ "cut" \notin Pictures
<1>1. \A f : Downloaded(f) => Picture(f) \in {"whole", "unsized"}
  <2> TAKE f
  <2>1. Downloaded(f) /\ f.sent # f.full => ~f.sized
    BY DEF Downloaded
  <2> QED
    BY <2>1 DEF Picture
<1>2. {"whole", "unsized"} \subseteq Looks /\ "cut" \notin {"whole", "unsized"}
  BY DEF Looks
<1> QED
  BY <1>1, <1>2 DEF Pictures, TakenPhotos

LEMMA SubmitPhotoStep ==
  ASSUME AgentInv, TelegramInv, "telegram" \in Channels, SubmitPhoto
  PROVE  AgentInv' /\ TelegramInv'
<1> USE DEF TelegramInv
<1> DEFINE n == poller.n
           kind == IF updates[n] = "photo" THEN "image" ELSE "slashed"
<1>1. PICK picture \in Pictures : SubmitAndWait(Message(n, kind, TRUE, picture))
  BY DEF SubmitPhoto
<1>2. kind \in Kinds /\ picture \in Looks /\ picture # "cut"
  BY NoneCut DEF Kinds
<1> HIDE DEF kind
<1> DEFINE new == Message(n, kind, TRUE, picture)
<1>3. /\ running' = running /\ told' = told /\ updates' = updates /\ pollDrops' = pollDrops
      /\ ends' = ends /\ redone' = redone /\ cut' = cut /\ setting' = setting /\ offset' = offset
      /\ poller.at = "process" /\ poller' = [poller EXCEPT !.at = "wait"]
  BY DEF SubmitPhoto, telegramHistory
<1>4. Submit(new) /\ notified' = [notified EXCEPT !["telegram"] = 0]
  BY <1>1 DEF SubmitAndWait, Message, Channel
<1>5. notified' \in [Channels -> 0..2] /\ notified'[Channel] = 0
  BY <1>4 DEF AgentInv, AgentTypes, Channel
<1>6. AgentInv' /\ InAgent' = InAgent \cup {new} /\ n \notin Held /\ Held' = Held \cup {n}
  BY <1>2, <1>3, <1>4, <1>5, HandOver
<1>7. n \in Updates /\ n = told + 1 /\ Frontier = told /\ n <= Len(updates) /\ n \in 1..Len(updates)
  BY <1>3, TelegramNumbers
<1>8. Frontier' = Frontier
  BY <1>3 DEF Frontier
<1>9. poller'.at = "wait" /\ poller'.n = n /\ poller' \in [at : {"poll", "process", "wait"}, n : 0..MaxUpdates]
  BY <1>3 DEF TelegramTypes
<1>10. \A m \in InAgent : Given(m) => m.n \in 1..Len(updates) /\ ~m.waits /\ m.n <= told /\ m.picture # "cut"
  BY <1>3, <1>7 DEF HeldInv
<1>11. new.n = n /\ new.waits /\ new.picture # "cut"
  BY <1>2 DEF Message
<1> HIDE DEF n, new
<1>12. TelegramTypes'
  BY <1>3, <1>9 DEF TelegramTypes
<1>13. PollerInv'
  BY <1>3, <1>9 DEF PollerInv, n
<1>14. HeldInv'
  <2> SUFFICES ASSUME NEW m \in InAgent \cup {new}, Given(m)
               PROVE  /\ m.n \in 1..Len(updates) /\ m.picture # "cut"
                      /\ IF m.waits THEN m.n = n ELSE m.n <= told
    BY <1>3, <1>6, <1>7, <1>8, <1>9 DEF HeldInv
  <2>1. CASE m \in InAgent
    BY <1>10, <2>1
  <2>2. CASE m = new
    BY <1>7, <1>11, <2>2
  <2> QED
    BY <2>1, <2>2
<1>15. PhotoInv'
  BY <1>5, <1>6, <1>9 DEF PhotoInv
<1>16. CountInv'
  <2> SUFFICES ASSUME NEW k \in Updates
               PROVE  ends[k] <= redone[k] + (IF Met(k)' /\ k \notin Held' THEN 1 ELSE 0)
    BY <1>3 DEF CountInv
  <2>1. Met(k)' <=> k <= told \/ k = n
    BY <1>7, <1>8, <1>9 DEF Met
  <2>2. Met(k) <=> k <= told
    BY <1>3, <1>7 DEF Met
  <2>3. ends[k] <= redone[k] + (IF Met(k) /\ k \notin Held THEN 1 ELSE 0)
    BY DEF CountInv
  <2>4. CASE k = n
    BY <1>6, <1>7, <2>1, <2>2, <2>3, <2>4, TelegramNumbers
  <2>5. CASE k # n
    BY <1>6, <1>7, <2>1, <2>2, <2>3, <2>5, TelegramNumbers
  <2> QED
    BY <2>4, <2>5
<1>17. UpdatesNotLost'
  BY <1>3, <1>6 DEF UpdatesNotLost
<1> QED
  BY <1>6, <1>12, <1>13, <1>14, <1>15, <1>16, <1>17

LEMMA PhotoDoneStep ==
  ASSUME AgentInv, TelegramInv, "telegram" \in Channels, PhotoDone
  PROVE  AgentInv' /\ TelegramInv'
<1> USE DEF TelegramInv
<1> DEFINE n == poller.n
<1>1. /\ queue' = queue /\ running' = running /\ notified' = [notified EXCEPT ![Channel] = 0]
      /\ told' = told /\ updates' = updates /\ pollDrops' = pollDrops
      /\ ends' = ends /\ redone' = redone /\ cut' = cut /\ setting' = setting
      /\ poller.at = "wait" /\ offset' = n /\ poller' = Polling /\ notified[Channel] # 0
  BY DEF PhotoDone, Processed, telegramHistory
<1>2. notified' \in [Channels -> 0..2]
  <2>1. notified \in [Channels -> 0..2] /\ 0 \in 0..2
    BY DEF AgentInv, AgentTypes
  <2> QED
    BY <1>1, <2>1
<1>3. AgentInv' /\ InAgent' = InAgent
  BY <1>1, <1>2, AgentStays
<1>4. Held' = Held
  BY <1>3, HeldIs
<1>5. n \in Updates /\ n = told + 1 /\ Frontier = told /\ n <= Len(updates)
  BY <1>1, TelegramNumbers
<1>6. Frontier' = n
  BY <1>1, <1>5, TelegramNumbers DEF Frontier, Higher
<1>7. ends[n] > 0 /\ n \notin Held
  BY <1>1 DEF PhotoInv
<1> HIDE DEF n
<1>8. \A m \in InAgent : Given(m) => m.n \in 1..Len(updates) /\ m.picture # "cut" /\ ~m.waits /\ m.n <= told
  BY <1>5, <1>7, HeldIs DEF HeldInv, n
<1>9. TelegramTypes'
  BY <1>1, <1>5, TelegramNumbers DEF TelegramTypes, Polling
<1>10. PollerInv'
  BY <1>1, <1>5, TelegramNumbers DEF PollerInv, Polling
<1>11. HeldInv'
  <2> SUFFICES ASSUME NEW m \in InAgent, Given(m)
               PROVE  m.n \in 1..Len(updates) /\ ~m.waits /\ m.n <= Frontier' /\ m.picture # "cut"
    BY <1>1, <1>3 DEF HeldInv
  <2> QED
    BY <1>5, <1>6, <1>8, TelegramNumbers
<1>12. PhotoInv'
  BY <1>1 DEF PhotoInv, Polling
<1>13. CountInv'
  <2> SUFFICES ASSUME NEW k \in Updates
               PROVE  ends[k] <= redone[k] + (IF Met(k)' /\ k \notin Held THEN 1 ELSE 0)
    BY <1>1, <1>4 DEF CountInv
  <2>1. Met(k)' <=> k <= n
    BY <1>1, <1>6 DEF Met, Polling
  <2>2. Met(k) <=> k <= told \/ k = n
    BY <1>1, <1>5 DEF Met, n
  <2>3. ends[k] <= redone[k] + (IF Met(k) /\ k \notin Held THEN 1 ELSE 0)
    BY DEF CountInv
  <2> QED
    BY <1>5, <2>1, <2>2, <2>3, TelegramNumbers
<1>14. UpdatesNotLost'
  <2> SUFFICES ASSUME NEW k \in 1..n PROVE ends[k] > 0 \/ k \in Held \cup cut
    BY <1>1, <1>4, <1>6 DEF UpdatesNotLost, Frontier
  <2>1. CASE k = n
    BY <1>7, <2>1
  <2>2. CASE k # n
    <3>1. k \in 1..Frontier
      BY <1>5, <2>2, TelegramNumbers
    <3> QED
      BY <3>1 DEF UpdatesNotLost, Frontier
  <2> QED
    BY <2>1, <2>2
<1> QED
  BY <1>3, <1>9, <1>10, <1>11, <1>12, <1>13, <1>14

LEMMA TelegramTurnStep ==
  ASSUME AgentInv, TelegramInv, TelegramTurnEnds
  PROVE  AgentInv' /\ TelegramInv'
<1> USE DEF TelegramInv
<1>1. PICK success \in BOOLEAN : TurnEnds(success)
  BY DEF TelegramTurnEnds
<1> DEFINE r == running[1]
           n == r.n
<1>2. /\ AgentInv' /\ r \in InAgent /\ r \in Messages /\ InAgent = InAgent' \cup {r}
      /\ \A h \in InAgent' : ~Same(h, r)
      /\ notified' = IF r.waits THEN [notified EXCEPT ![r.from] = IF success THEN 1 ELSE 2] ELSE notified
  BY <1>1, EndStep
<1>3. /\ Given(r) /\ told' = told /\ updates' = updates /\ pollDrops' = pollDrops
      /\ offset' = offset /\ poller' = poller /\ redone' = redone /\ cut' = cut
      /\ setting' = (IF r.kind = "command" THEN n ELSE setting)
      /\ ends' = [ends EXCEPT ![n] = @ + 1]
  BY DEF TelegramTurnEnds, telegramState, Given, Ended
<1>4. n \in 1..Len(updates) /\ (IF r.waits THEN poller.at = "wait" /\ n = poller.n ELSE n <= Frontier)
  BY <1>2, <1>3 DEF HeldInv
<1>5. n \in Updates
  BY <1>4, TelegramNumbers
<1> HIDE DEF n
<1>6. n \in Held
  BY <1>2, <1>3, HeldIs DEF n
<1>7. \A h \in InAgent' : Given(h) => h.n # n
  BY <1>2, <1>3 DEF Same, Given, Channel, n
<1>8. Held' = Held \ {n}
  BY <1>2, <1>3, <1>7, HeldIs DEF n
<1>9. /\ ends' \in [Updates -> Nat] /\ ends'[n] = ends[n] + 1
      /\ \A k \in Updates \ {n} : ends'[k] = ends[k]
  BY <1>3, <1>5 DEF TelegramTypes
<1>10. Frontier' = Frontier
  BY <1>3 DEF Frontier
<1>11. setting' \in 0..MaxUpdates
  BY <1>3, <1>5, TelegramNumbers DEF TelegramTypes
<1>12. TelegramTypes'
  BY <1>3, <1>9, <1>11 DEF TelegramTypes
<1>13. PollerInv'
  BY <1>3 DEF PollerInv
<1>14. HeldInv'
  BY <1>2, <1>3, <1>10 DEF HeldInv
<1>15. PhotoInv'
  <2> SUFFICES ASSUME poller.at = "wait"
               PROVE  IF notified'[Channel] = 0 THEN poller.n \in Held'
                      ELSE ends'[poller.n] > 0 /\ poller.n \notin Held'
    BY <1>3 DEF PhotoInv
  <2>1. CASE r.waits
    <3>1. n = poller.n
      BY <1>4, <2>1
    <3>2. notified' = [notified EXCEPT ![Channel] = IF success THEN 1 ELSE 2] /\ Channel \in Channels
      BY <1>2, <1>3, <2>1 DEF Given, Messages
    <3>3. notified'[Channel] # 0
      BY <3>2 DEF AgentInv, AgentTypes
    <3> QED
      BY <1>5, <1>8, <1>9, <3>1, <3>3, TelegramNumbers
  <2>2. CASE ~r.waits
    <3>1. notified' = notified /\ n # poller.n
      BY <1>2, <1>4, <2>2, TelegramNumbers
    <3>2. poller.n \in Updates
      BY TelegramNumbers
    <3> QED
      BY <1>8, <1>9, <3>1, <3>2 DEF PhotoInv
  <2> QED
    BY <2>1, <2>2
<1>16. CountInv'
  <2> SUFFICES ASSUME NEW k \in Updates
               PROVE  ends'[k] <= redone[k] + (IF Met(k) /\ k \notin Held' THEN 1 ELSE 0)
    BY <1>3, <1>10 DEF CountInv, Met
  <2>1. ends[k] <= redone[k] + (IF Met(k) /\ k \notin Held THEN 1 ELSE 0)
    BY DEF CountInv
  <2>2. CASE k = n
    <3>1. Met(n)
      BY <1>4 DEF Met
    <3> QED
      BY <1>6, <1>8, <1>9, <2>1, <2>2, <3>1, TelegramNumbers
  <2>3. CASE k # n
    BY <1>8, <1>9, <2>1, <2>3
  <2> QED
    BY <2>2, <2>3
<1>17. UpdatesNotLost'
  <2> SUFFICES ASSUME NEW k \in 1..Frontier PROVE ends'[k] > 0 \/ k \in Held' \cup cut
    BY <1>3, <1>10 DEF UpdatesNotLost, Frontier
  <2>1. k \in Updates
    BY TelegramNumbers
  <2>2. CASE k = n
    BY <1>9, <2>1, <2>2, TelegramNumbers
  <2>3. CASE k # n
    BY <1>8, <1>9, <2>1, <2>3 DEF UpdatesNotLost, Frontier
  <2> QED
    BY <2>2, <2>3
<1> QED
  BY <1>2, <1>12, <1>13, <1>14, <1>15, <1>16, <1>17

LEMMA TelegramRebootStep ==
  ASSUME TelegramInv, TelegramReboot, InAgent' = {}
  PROVE  TelegramInv'
<1> USE DEF TelegramInv
<1>1. /\ told' = told /\ updates' = updates /\ pollDrops' = pollDrops /\ ends' = ends /\ setting' = setting
      /\ offset' = 0 /\ poller' = Polling /\ cut' = cut \cup {n \in Held : n <= told}
      /\ redone' = [n \in Updates |->
                     IF n > told /\ n <= Higher(offset, poller.n) THEN redone[n] + 1 ELSE redone[n]]
  BY DEF TelegramReboot
<1>2. Held' = {}
  BY HeldIs
<1>3. Held \subseteq Updates
  <2> SUFFICES ASSUME NEW n \in Held PROVE n \in Updates
    OBVIOUS
  <2>1. n \in 1..Len(updates)
    BY HeldIs DEF HeldInv
  <2> QED
    BY <2>1, TelegramNumbers
<1>4. Frontier' = told
  BY <1>1, TelegramNumbers DEF Frontier, Higher
<1>5. redone' \in [Updates -> Nat]
  BY <1>1, TelegramNumbers
<1>6. TelegramTypes'
  BY <1>1, <1>3, <1>5, TelegramNumbers DEF TelegramTypes, Polling
<1>7. PollerInv'
  BY <1>1, TelegramNumbers DEF PollerInv, Polling
<1>8. HeldInv'
  BY DEF HeldInv
<1>9. PhotoInv'
  BY <1>1 DEF PhotoInv, Polling
<1>10. CountInv'
  <2> SUFFICES ASSUME NEW k \in Updates
               PROVE  ends[k] <= redone'[k] + (IF Met(k)' THEN 1 ELSE 0)
    BY <1>1, <1>2 DEF CountInv
  <2>1. Met(k)' <=> k <= told
    BY <1>1, <1>4 DEF Met, Polling
  <2>2. ends[k] <= redone[k] + (IF Met(k) /\ k \notin Held THEN 1 ELSE 0)
    BY DEF CountInv
  <2>3. redone'[k] = IF k > told /\ k <= Higher(offset, poller.n) THEN redone[k] + 1 ELSE redone[k]
    BY <1>1
  <2>4. Met(k) /\ k > told => k <= Higher(offset, poller.n)
    BY TelegramNumbers DEF Met, Higher
  <2>5. k \in Nat /\ told \in Nat /\ ends[k] \in Nat /\ redone[k] \in Nat
    BY TelegramNumbers
  <2> QED
    BY <2>1, <2>2, <2>3, <2>4, <2>5
<1>11. UpdatesNotLost'
  <2> SUFFICES ASSUME NEW k \in 1..told PROVE ends[k] > 0 \/ k \in cut'
    BY <1>1, <1>4 DEF UpdatesNotLost, Frontier
  <2>1. k \in 1..Frontier /\ k <= told
    BY TelegramNumbers
  <2> QED
    BY <1>1, <2>1 DEF UpdatesNotLost, Frontier
<1> QED
  BY <1>6, <1>7, <1>8, <1>9, <1>10, <1>11

(***************************************************************************)
(* Instagram: threads and pages                                            *)
(***************************************************************************)
LEMMA Bounds ==
  /\ PageSize \in Nat \ {0} /\ PageCount \in Nat \ {0} /\ OutLength \in Nat \ {0} /\ TurnTexts \in Nat \ {0}
  /\ MaxItems \in Nat /\ MaxTrouble \in Nat
  /\ Nobody \notin People /\ Items = 1..MaxItems
BY InstagramAssumption, StartsAssumption DEF Items

LEMMA PageFacts ==
  ASSUME NEW t \in Seq(ItemKinds), NEW c \in Nat, c = 0 \/ c \in 2..Len(t)
  PROVE  /\ Len(t) \in Nat
         /\ Top(t, c) \in 0..Len(t) /\ Bottom(t, c) \in Nat \ {0} /\ Bottom(t, c) <= Top(t, c) + 1
         /\ c # 0 => Top(t, c) = c - 1 /\ Bottom(t, c) < c
         /\ c = 0 => Top(t, c) = Len(t)
         /\ More(t, c) => Bottom(t, c) \in 2..Len(t)
         /\ PageOf(t, c) \subseteq 1..Len(t)
<1>1. Len(t) \in Nat /\ PageSize \in Nat \ {0}
  BY Bounds
<1>2. Top(t, c) \in 0..Len(t) /\ (c # 0 => Top(t, c) = c - 1) /\ (c = 0 => Top(t, c) = Len(t))
  BY <1>1 DEF Top
<1>3. /\ Bottom(t, c) \in Nat \ {0} /\ Bottom(t, c) <= Top(t, c) + 1
      /\ Bottom(t, c) > 1 => Bottom(t, c) <= Top(t, c)
  BY <1>1, <1>2 DEF Bottom
<1>4. c # 0 => Bottom(t, c) < c
  <2>1. c # 0 => c >= 2
    BY <1>1
  <2> QED
    BY <1>1, <1>2, <1>3, <2>1 DEF Bottom
<1>5. More(t, c) => Bottom(t, c) \in 2..Len(t)
  BY <1>1, <1>2, <1>3 DEF More
<1>6. PageOf(t, c) \subseteq 1..Len(t)
  BY <1>1, <1>2, <1>3 DEF PageOf
<1> QED
  BY <1>1, <1>2, <1>3, <1>4, <1>5, <1>6

(* A thread only grows.                                                    *)
Longer(t, u) == Len(t) <= Len(u) /\ \A i \in 1..Len(t) : u[i] = t[i]

LEMMA LinkedLonger ==
  ASSUME NEW t \in Seq(ItemKinds), NEW u \in Seq(ItemKinds), Longer(t, u),
         NEW cs \in Seq(Nat), Linked(cs, t)
  PROVE  Linked(cs, u)
<1>1. Len(t) \in Nat /\ Len(u) \in Nat /\ Len(t) <= Len(u) /\ PageSize \in Nat /\ Len(cs) \in Nat
  BY Bounds DEF Longer
<1>2. ASSUME NEW k \in 2..Len(cs) PROVE cs[k] \in 2..Len(u) /\ cs[k] <= Bottom(u, cs[k - 1])
  <2>1. cs[k] \in 2..Len(t) /\ cs[k] <= Bottom(t, cs[k - 1])
    BY DEF Linked
  <2>2. k - 1 \in 1..Len(cs)
    BY <1>1
  <2>3. cs[k - 1] \in Nat
    BY <2>2, ElementOfSeq
  <2>4. Bottom(t, cs[k - 1]) <= Bottom(u, cs[k - 1]) /\ Bottom(t, cs[k - 1]) \in Int /\ Bottom(u, cs[k - 1]) \in Int
    BY <1>1, <2>3 DEF Bottom, Top
  <2>5. cs[k] \in Int
    BY <2>1
  <2> QED
    BY <1>1, <2>1, <2>4, <2>5
<1> QED
  BY <1>2 DEF Linked

(* The walk goes back by one more page.                                    *)
LEMMA LinkedMore ==
  ASSUME NEW t \in Seq(ItemKinds), NEW cs \in Seq(Nat), Linked(cs, t), More(t, cs[Len(cs)])
  PROVE  /\ Linked(Append(cs, Bottom(t, cs[Len(cs)])), t)
         /\ Append(cs, Bottom(t, cs[Len(cs)])) \in Seq(Nat)
         /\ Len(Append(cs, Bottom(t, cs[Len(cs)]))) = Len(cs) + 1
<1> DEFINE n == Len(cs)
           b == Bottom(t, cs[n])
           more == Append(cs, b)
<1>1. n \in Nat /\ n > 0 /\ n \in 1..n
  BY DEF Linked
<1>2. cs[n] \in Nat /\ (cs[n] = 0 \/ cs[n] \in 2..Len(t))
  <2>1. CASE n = 1
    BY <2>1 DEF Linked
  <2>2. CASE n # 1
    <3>1. \A j \in Nat : j > 0 /\ j # 1 => j \in 2..j
      OBVIOUS
    <3>2. n \in 2..n
      BY <1>1, <2>2, <3>1
    <3> QED
      BY <3>2 DEF Linked
  <2> QED
    BY <2>1, <2>2
<1>3. b \in 2..Len(t) /\ b \in Nat
  BY <1>2, PageFacts
<1> HIDE DEF b
<1>4. more \in Seq(Nat) /\ Len(more) = n + 1 /\ more[n + 1] = b /\ \A i \in 1..n : more[i] = cs[i]
  BY <1>3, AppendProperties
<1> HIDE DEF more
<1>5. Len(more) > 0 /\ more[1] = 0
  BY <1>1, <1>4 DEF Linked
<1>6. ASSUME NEW k \in 2..(n + 1) PROVE more[k] \in 2..Len(t) /\ more[k] <= Bottom(t, more[k - 1])
  <2>1. CASE k = n + 1
    <3>1. k - 1 = n /\ more[k - 1] = cs[n] /\ more[k] = b
      BY <1>1, <1>4, <2>1
    <3>2. b <= b
      BY <1>3
    <3> QED
      BY <1>3, <3>1, <3>2 DEF b
  <2>2. CASE k # n + 1
    <3>1. k \in 2..n /\ k \in 1..n /\ k - 1 \in 1..n
      BY <1>1, <2>2
    <3> QED
      BY <1>4, <3>1 DEF Linked
  <2> QED
    BY <2>1, <2>2
<1>7. Linked(more, t)
  BY <1>4, <1>5, <1>6 DEF Linked
<1> QED
  BY <1>4, <1>7 DEF more, b

(* Cursors of the walk name an item, or the newest page.                   *)
LEMMA CursorFacts ==
  ASSUME NEW t \in Seq(ItemKinds), NEW cs \in Seq(Nat), Linked(cs, t), NEW k \in 1..Len(cs)
  PROVE  /\ cs[k] \in Nat /\ (cs[k] = 0 \/ cs[k] \in 2..Len(t)) /\ (k = 1 => cs[k] = 0)
         /\ k > 1 => cs[k] \in 2..Len(t) /\ cs[k] <= Bottom(t, cs[k - 1]) /\ k - 1 \in 1..Len(cs)
<1>1. Len(cs) \in Nat
  OBVIOUS
<1>2. CASE k = 1
  BY <1>1, <1>2 DEF Linked
<1>3. CASE k # 1
  <2>1. k \in 2..Len(cs) /\ k - 1 \in 1..Len(cs) /\ k > 1
    BY <1>1, <1>3
  <2>2. cs[k] \in 2..Len(t) /\ cs[k] <= Bottom(t, cs[k - 1])
    BY <2>1 DEF Linked
  <2> QED
    BY <1>3, <2>1, <2>2
<1> QED
  BY <1>2, <1>3

LEMMA LinkedStart ==
  ASSUME NEW t \in Seq(ItemKinds)
  PROVE  Linked(<<0>>, t) /\ <<0>> \in Seq(Nat) /\ Len(<<0>>) = 1
<1>1. <<0>> \in Seq(Nat) /\ Len(<<0>>) = 1 /\ <<0>>[1] = 0
  OBVIOUS
<1>2. 2..Len(<<0>>) = {}
  BY <1>1
<1> QED
  BY <1>1, <1>2 DEF Linked

LEMMA LeastNumber ==
  ASSUME NEW T \in SUBSET Nat, T # {}
  PROVE  \E x \in T : \A y \in T : x <= y
<1> DEFINE R == {p \in Nat \X Nat : p[1] < p[2]}
<1>1. IsWellFoundedOn(R, Nat)
  BY NatLessThanWellFounded DEF OpToRel
<1> HIDE DEF R
<1>2. PICK x \in T : \A y \in T : ~(<<y, x>> \in R)
  BY <1>1, WFMin
<1>3. ASSUME NEW y \in T
      PROVE  x <= y
  <2>1. x \in Nat /\ y \in Nat
    OBVIOUS
  <2>2. ~(<<y, x>> \in R)
    BY <1>2
  <2> QED BY <2>1, <2>2 DEF R
<1> QED BY <1>3

(* The newest message of the newest page.                                  *)
LEMMA Greatest ==
  ASSUME NEW b \in Nat, NEW S, S \subseteq 1..b, S # {}
  PROVE  (CHOOSE i \in S : \A j \in S : j <= i) \in S
<1> DEFINE D == {b - i : i \in S}
<1>1. D \subseteq Nat /\ D # {}
  <2>1. \A i \in S : b - i \in Nat
    OBVIOUS
  <2>2. PICK i \in S : TRUE
    OBVIOUS
  <2> QED
    BY <2>1, <2>2
<1>2. PICK m \in D : \A n \in D : m <= n
  BY <1>1, LeastNumber
<1>3. PICK i \in S : m = b - i
  OBVIOUS
<1>4. \A j \in S : j <= i
  <2> TAKE j \in S
  <2>1. b - i <= b - j
    BY <1>2, <1>3
  <2> QED
    BY <2>1
<1> QED
  BY <1>4

LEMMA NewestFacts ==
  ASSUME Mine \in Seq(ItemKinds), Seen # {}
  PROVE  Newest \in Seen /\ Newest \in 1..Len(Mine) /\ Newest \in Nat
<1>1. PageOf(Mine, 0) \subseteq 1..Len(Mine) /\ Len(Mine) \in Nat
  BY PageFacts
<1>2. Seen \subseteq 1..Len(Mine)
  BY <1>1 DEF Seen
<1>3. Newest \in Seen
  BY <1>1, <1>2, Greatest DEF Newest
<1> QED
  BY <1>1, <1>2, <1>3

LEMMA OnceFacts ==
  ASSUME NEW f \in Counts, NEW p \in People, NEW i \in Items
  PROVE  /\ Once(f, <<p, i>>) \in Counts /\ Once(f, <<p, i>>)[p][i] = f[p][i] + 1
         /\ \A q \in People, j \in Items : <<q, j>> # <<p, i>> => Once(f, <<p, i>>)[q][j] = f[q][j]
<1>1. Once(f, <<p, i>>) = [f EXCEPT ![p] = [f[p] EXCEPT ![i] = @ + 1]]
  BY DEF Once
<1> DEFINE g == [f[p] EXCEPT ![i] = @ + 1]
<1>2. f[p] \in [Items -> Nat]
  BY DEF Counts
<1>3. g \in [Items -> Nat] /\ g[i] = f[p][i] + 1 /\ \A j \in Items \ {i} : g[j] = f[p][j]
  BY <1>2
<1> HIDE DEF g
<1>4. Once(f, <<p, i>>) = [f EXCEPT ![p] = g]
  BY <1>1 DEF g
<1>5. Once(f, <<p, i>>) \in Counts /\ Once(f, <<p, i>>)[p] = g /\ \A q \in People \ {p} : Once(f, <<p, i>>)[q] = f[q]
  BY <1>3, <1>4 DEF Counts
<1> QED
  BY <1>3, <1>5

(***************************************************************************)
(* Instagram: what the invariant says of the numbers, and what is left     *)
(* alone                                                                   *)
(***************************************************************************)
LEMMA LongerSame == \A t \in Seq(ItemKinds) : Longer(t, t)
BY DEF Longer

LEMMA IgNumbers ==
  ASSUME IgTyped, WalkInv
  PROVE  /\ ram.mark \in Nat /\ flash.mark \in Nat /\ ram.conv \in Someone
         /\ walk.page \in Nat /\ walk.page < PageCount /\ walk.next \in Nat /\ walk.last \in Nat
         /\ walk.cursors \in Seq(Nat) /\ Len(walk.cursors) \in Nat /\ walk.page + 1 \in 1..Len(walk.cursors)
         /\ \A p \in People : threads[p] \in Seq(ItemKinds) /\ Len(threads[p]) \in Nat /\ Len(threads[p]) <= MaxItems
         /\ ram.conv # Nobody => ram.conv \in People /\ Mine \in Seq(ItemKinds) /\ Len(Mine) \in Nat
         /\ Walking => ram.conv \in People /\ ~Booting /\ walk.next \in 1..(walk.last + 1)
         /\ Walking /\ walk.next > walk.last => walk.next = walk.last + 1
         /\ Walking /\ walk.next <= walk.last => Item \in 1..Len(Mine) /\ Item \in Items
<1>1. /\ ram.mark \in Nat /\ flash.mark \in Nat /\ ram.conv \in Someone
      /\ walk.page \in 0..(PageCount - 1) /\ walk.next \in Nat /\ walk.last \in Nat /\ walk.cursors \in Seq(Nat)
  BY Bounds DEF IgTyped, RamType, WalkType, Flashes
<1>2. walk.page \in Nat /\ walk.page < PageCount
  BY <1>1, Bounds
<1>3. Len(walk.cursors) \in Nat /\ walk.page + 1 \in 1..Len(walk.cursors)
  <2>1. Len(walk.cursors) \in Nat /\ Len(walk.cursors) > walk.page
    BY <1>1 DEF WalkInv
  <2>2. \A a, b \in Nat : b > a => a + 1 \in 1..b
    OBVIOUS
  <2> QED
    BY <1>2, <2>1, <2>2
<1>4. \A p \in People : threads[p] \in Seq(ItemKinds) /\ Len(threads[p]) \in Nat /\ Len(threads[p]) <= MaxItems
  BY DEF IgTyped
<1>5. ram.conv # Nobody => ram.conv \in People /\ Mine \in Seq(ItemKinds) /\ Len(Mine) \in Nat
  BY <1>1, <1>4 DEF Someone, Mine
<1>6. Walking => /\ ram.conv \in People /\ ram.mark < walk.next
                 /\ walk.next <= walk.last + 1 /\ walk.last <= Len(Mine)
  BY <1>5 DEF WalkInv
<1>7. Walking => ~Booting
  BY DEF Walking, Booting
<1>8. Walking => walk.next \in 1..(walk.last + 1)
  BY <1>1, <1>6
<1>9. Walking /\ walk.next > walk.last => walk.next = walk.last + 1
  BY <1>1, <1>6
<1>10. ASSUME Walking, walk.next <= walk.last PROVE Item \in 1..Len(Mine) /\ Item \in Items
  <2>1. walk.next >= 1 /\ walk.last <= Len(Mine) /\ Len(Mine) \in Nat
    BY <1>1, <1>5, <1>6, <1>8, <1>10, Bounds
  <2>2. Len(Mine) <= MaxItems
    BY <1>4, <1>6, <1>10 DEF Mine
  <2>3. walk.next \in 1..Len(Mine) /\ walk.next \in 1..MaxItems
    BY <1>1, <1>10, <2>1, <2>2, Bounds
  <2> QED
    BY <2>3, Bounds DEF Item
<1> QED
  BY <1>1, <1>2, <1>3, <1>4, <1>5, <1>6, <1>7, <1>8, <1>9, <1>10

LEMMA WalkStays ==
  ASSUME IgTyped, WalkInv, ram' = ram, walk' = walk, IgTyped',
         \A p \in People : Longer(threads[p], threads'[p])
  PROVE  WalkInv' /\ (Walking /\ walk.next <= walk.last => (Mine[Item])' = Mine[Item])
<1>1. Mine' = threads'[ram.conv] /\ Item' = Item /\ Cursor' = Cursor
  BY DEF Mine, Item, Cursor
<1>2. ram.conv # Nobody => ram.conv \in People /\ Longer(Mine, Mine')
  BY <1>1, IgNumbers DEF Mine
<1>3. ram.conv # Nobody => Mine' \in Seq(ItemKinds) /\ Len(Mine') \in Nat
  BY <1>1, <1>2 DEF IgTyped
<1>4. ram.conv # Nobody => Linked(walk.cursors, Mine')
  BY <1>2, <1>3, IgNumbers, LinkedLonger DEF WalkInv
<1>5. ram.conv # Nobody => \A i \in 1..Len(Mine) : Mine'[i] = Mine[i]
  BY <1>2 DEF Longer
<1>6. Walking => walk.last <= Len(Mine')
  <2> SUFFICES ASSUME Walking PROVE walk.last <= Len(Mine')
    OBVIOUS
  <2>1. ram.conv # Nobody /\ walk.last <= Len(Mine)
    BY DEF WalkInv
  <2>2. Len(Mine) <= Len(Mine')
    BY <1>2, <2>1 DEF Longer
  <2> QED
    BY <1>3, <2>1, <2>2, IgNumbers
<1>7. Walking /\ walk.next <= walk.last => Mine'[Item] = Mine[Item]
  BY <1>5, IgNumbers DEF WalkInv
<1>8. walk.at \in {"wait", "say", "flush", "save"} => Walking /\ walk.next <= walk.last
  BY DEF WalkInv, Walking
<1>9. walk.at \in {"wait", "say", "flush", "save"} => Mine'[Item] = Mine[Item]
  BY <1>7, <1>8
<1>10. WalkInv'
  <2>1. Booting' = Booting /\ Walking' = Walking /\ Len(walk'.cursors) = Len(walk.cursors)
    BY DEF Booting, Walking
  <2>2. (ram'.conv # Nobody => Linked(walk'.cursors, Mine'))
    BY <1>4
  <2>3. /\ walk'.at \in {"wait", "say", "flush", "save"} => walk'.next <= walk'.last /\ Mine'[Item'] \in Incoming
        /\ walk'.at = "wait" => Mine'[Item'] \in Turns
        /\ walk'.at = "say" => Mine'[Item'] = "odd"
        /\ walk'.at = "flush" => Mine'[Item'] \in Turns \cup {"odd"}
    BY <1>1, <1>9 DEF WalkInv
  <2>4. Walking' =>
          /\ ram'.conv # Nobody /\ ram'.ready /\ (ram'.mark # 0 => ram'.of = ram'.conv)
          /\ ram'.mark < walk'.next /\ walk'.next <= walk'.last + 1 /\ walk'.last <= Len(Mine')
          /\ walk'.page > 0 => walk'.last = Cursor' - 1
    BY <1>1, <1>6, <2>1 DEF WalkInv
  <2>5. /\ Booting' => ram' = Fresh
        /\ walk'.at = "poll" => walk' = Resting
        /\ walk'.at = "find" => ram'.conv # Nobody /\ ram'.ready /\ Len(walk'.cursors) = walk'.page + 1
        /\ Len(walk'.cursors) > walk'.page
    BY <2>1 DEF WalkInv
  <2> QED
    BY <2>2, <2>3, <2>4, <2>5 DEF WalkInv
<1> QED
  BY <1>1, <1>7, <1>10

LEMMA HeldStays ==
  ASSUME IgHeldInv, \A m \in InAgent' : OverIg(m) => m \in InAgent,
         walk' = walk, notified'["instagram"] = notified["instagram"],
         saying'.by = "poller" <=> saying.by = "poller"
  PROVE  IgHeldInv'
BY DEF IgHeldInv, Item

LEMMA RepeatStays ==
  ASSUME IgTyped, WalkInv, RepeatInv, done' = done, again' = again, flash' = flash, ram' = ram, walk' = walk,
         notified'["instagram"] = notified["instagram"],
         Walking /\ walk.next <= walk.last => (Mine[Item])' = Mine[Item]
  PROVE  RepeatInv'
<1>1. \A i : Passed(i)' = Passed(i)
  BY DEF Passed, Booting
<1>2. walk.at \in {"wait", "say", "flush", "save"} => Walking /\ walk.next <= walk.last
  BY DEF WalkInv, Walking
<1>3. Handled' = Handled
  BY <1>2 DEF Handled
<1>4. \A p, i : InHandDone(p, i)' = InHandDone(p, i)
  BY <1>3 DEF InHandDone, Item
<1> QED
  BY <1>1, <1>3, <1>4 DEF RepeatInv, Item

LEMMA SettledStays ==
  ASSUME IgTyped, IgTyped', \A p \in People : Longer(threads[p], threads'[p]), skipped \subseteq skipped',
         \A p \in People, i \in Items : done'[p][i] >= done[p][i],
         NEW p \in People, NEW k \in Nat, k <= Len(threads[p]), \A i \in 1..k : Settled(p, i)
  PROVE  \A i \in 1..k : Settled(p, i)'
<1> TAKE i \in 1..k
<1>1. Len(threads[p]) \in Nat /\ Len(threads[p]) <= MaxItems
  BY DEF IgTyped
<1>2. i \in 1..Len(threads[p]) /\ i \in Items
  BY <1>1, Bounds
<1>3. threads'[p][i] = threads[p][i]
  BY <1>2 DEF Longer
<1>4. done[p][i] \in Nat /\ done'[p][i] \in Nat /\ done'[p][i] >= done[p][i]
  BY <1>2 DEF IgTyped, Counts
<1> QED
  BY <1>3, <1>4 DEF Settled

(* A mark stands for the same items, and they stay settled.                *)
LEMMA MarksStay ==
  ASSUME IgTyped, IgTyped', \A p \in People : Longer(threads[p], threads'[p]), skipped \subseteq skipped',
         \A p \in People, i \in Items : done'[p][i] >= done[p][i],
         NEW m, m.of \in Someone, m.mark \in Nat, MarkOf(m, threads), Covered(m)
  PROVE  MarkOf(m, threads') /\ Covered(m)'
<1>1. ASSUME NEW p \in People, NEW k \in DOMAIN threads[p]
      PROVE  k \in DOMAIN threads'[p] /\ k \in Nat /\ k <= Len(threads[p])
  <2>1. threads[p] \in Seq(ItemKinds) /\ threads'[p] \in Seq(ItemKinds)
    BY DEF IgTyped
  <2>2. Len(threads[p]) <= Len(threads'[p]) /\ Len(threads[p]) \in Nat /\ Len(threads'[p]) \in Nat
    BY <2>1 DEF Longer
  <2>3. k \in 1..Len(threads[p])
    BY <2>1
  <2>4. k \in 1..Len(threads'[p])
    BY <2>2, <2>3
  <2>5. DOMAIN threads'[p] = 1..Len(threads'[p])
    BY <2>1
  <2> QED
    BY <2>2, <2>3, <2>4, <2>5
<1>2. MarkOf(m, threads')
  BY <1>1 DEF MarkOf, Someone
<1>3. ASSUME m.of # Nobody PROVE \A i \in 1..m.mark : Settled(m.of, i)'
  <2>1. m.of \in People /\ m.mark <= Len(threads[m.of]) /\ \A i \in 1..m.mark : Settled(m.of, i)
    BY <1>1, <1>3 DEF MarkOf, Covered, Someone
  <2> QED
    BY <2>1, SettledStays
<1> QED
  BY <1>2, <1>3 DEF Covered

LEMMA LostMarks ==
  ASSUME IgTyped, LostInv, \A p \in People : Longer(threads[p], threads'[p]), IgTyped', skipped \subseteq skipped',
         \A p \in People, i \in Items : done'[p][i] >= done[p][i]
  PROVE  /\ flash'.mark = flash.mark /\ flash'.of = flash.of => MarkOf(flash, threads)' /\ Covered(flash)'
         /\ ram'.mark = ram.mark /\ ram'.of = ram.of => MarkOf(ram, threads)' /\ Covered(ram)'
<1>1. flash.of \in Someone /\ ram.of \in Someone /\ flash.mark \in Nat /\ ram.mark \in Nat
  BY Bounds DEF IgTyped, RamType, Flashes, Someone
<1>2. PICK f, r : f = flash /\ r = ram
  OBVIOUS
<1>3. MarkOf(f, threads) /\ MarkOf(r, threads) /\ Covered(f) /\ Covered(r)
  BY <1>2 DEF LostInv
<1>4. MarkOf(f, threads') /\ MarkOf(r, threads') /\ Covered(f)' /\ Covered(r)'
  BY <1>1, <1>2, <1>3, MarksStay
<1>5. flash'.mark = flash.mark /\ flash'.of = flash.of => MarkOf(flash, threads)' /\ Covered(flash)'
  BY <1>2, <1>4 DEF MarkOf, Covered, Settled
<1>6. ram'.mark = ram.mark /\ ram'.of = ram.of => MarkOf(ram, threads)' /\ Covered(ram)'
  BY <1>2, <1>4 DEF MarkOf, Covered, Settled
<1> QED
  BY <1>5, <1>6

LEMMA LostStays ==
  ASSUME IgTyped, WalkInv, LostInv, \A p \in People : Longer(threads[p], threads'[p]), IgTyped',
         flash'.mark = flash.mark, flash'.of = flash.of, ram'.mark = ram.mark, ram'.of = ram.of,
         Walking' => Walking /\ walk'.next = walk.next /\ ram'.conv = ram.conv,
         skipped \subseteq skipped',
         \A p \in People, i \in Items : done'[p][i] >= done[p][i]
  PROVE  LostInv'
<1>1. ASSUME Walking' PROVE \A i \in 1..(walk'.next - 1) : Settled(ram.conv, i)'
  <2>1. Walking /\ ram.conv \in People /\ walk.next \in Nat /\ walk.last \in Nat /\ walk.next >= 1
    BY <1>1, IgNumbers
  <2>2. walk.next - 1 \in Nat /\ walk.next - 1 <= walk.last
    BY <2>1 DEF WalkInv
  <2>3. walk.last <= Len(threads[ram.conv]) /\ Len(threads[ram.conv]) \in Nat
    BY <2>1, IgNumbers DEF WalkInv, Mine
  <2>4. walk.next - 1 <= Len(threads[ram.conv])
    BY <2>1, <2>2, <2>3
  <2>5. PICK who \in People : who = ram.conv
    BY <2>1
  <2>6. \A i \in 1..(walk.next - 1) : Settled(who, i)
    BY <2>1, <2>5 DEF LostInv
  <2>7. \A i \in 1..(walk.next - 1) : Settled(who, i)'
    BY <2>2, <2>4, <2>5, <2>6, SettledStays
  <2>8. walk'.next = walk.next /\ ram'.conv = who
    BY <1>1, <2>5
  <2> QED
    BY <2>7, <2>8 DEF Settled
<1>2. MarkOf(flash, threads)' /\ MarkOf(ram, threads)' /\ Covered(flash)' /\ Covered(ram)'
  BY LostMarks
<1> QED
  BY <1>1, <1>2 DEF LostInv

LEMMA AnswersStay ==
  ASSUME AnswersInv, UNCHANGED <<out, pending, sender, saying, idle, refused, older, owed, muddled>>,
         TurnOf("instagram") => TurnOf("instagram")', AnsweredFirst'
  PROVE  AnswersInv'
<1>1. UnderWay' = UnderWay
  BY DEF UnderWay
<1>2. Speaks => Speaks'
  BY DEF Speaks
<1> QED
  BY <1>1, <1>2 DEF AnswersInv

LEMMA OutStays ==
  ASSUME OutTyped, UNCHANGED outbound, UNCHANGED <<older, owed>>
  PROVE  OutTyped'
BY DEF OutTyped, outbound

(* What other tasks do leaves Instagram alone.                             *)
LEMMA InstagramFrame ==
  ASSUME InstagramInv, UNCHANGED instagram, notified'["instagram"] = notified["instagram"],
         \A m \in InAgent' : OverIg(m) => m \in InAgent,
         TurnOf("instagram") => TurnOf("instagram")'
  PROVE  InstagramInv'
<1> USE DEF InstagramInv
<1>1. /\ threads' = threads /\ owner' = owner /\ flash' = flash /\ ram' = ram /\ walk' = walk
      /\ done' = done /\ again' = again /\ skipped' = skipped /\ torn' = torn /\ muddled' = muddled
      /\ UNCHANGED outbound /\ UNCHANGED <<older, owed>>
      /\ UNCHANGED <<out, pending, sender, saying, idle, refused, older, owed, muddled>>
  BY DEF instagram, record, answers, outbound
<1>2. IgTyped'
  BY <1>1 DEF IgTyped
<1>3. \A p \in People : Longer(threads[p], threads'[p])
  BY <1>1, LongerSame DEF IgTyped
<1>4. WalkInv' /\ (Walking /\ walk.next <= walk.last => (Mine[Item])' = Mine[Item])
  BY <1>1, <1>2, <1>3, WalkStays
<1>5. IgHeldInv'
  BY <1>1, HeldStays
<1>6. RepeatInv'
  BY <1>1, <1>4, RepeatStays
<1>7. LostInv'
  <2>1. \A p \in People, i \in Items : done'[p][i] >= done[p][i]
    BY <1>1 DEF IgTyped, Counts
  <2>2. Walking' => Walking
    BY <1>1 DEF Walking
  <2> QED
    BY <1>1, <1>2, <1>3, <2>1, <2>2, LostStays
<1>8. OwnersInv'
  BY <1>1 DEF OwnersInv, Booting
<1>9. AnsweredFirst'
  BY <1>1 DEF AnswersInv, AnsweredFirst, Mine, Item
<1>10. AnswersInv' /\ OutTyped'
  BY <1>1, <1>9, AnswersStay, OutStays
<1> QED
  BY <1>2, <1>4, <1>5, <1>6, <1>7, <1>8, <1>10

(***************************************************************************)
(* Instagram: steps of the poller that leave the agent and the texts alone *)
(***************************************************************************)
LEMMA QuietStep ==
  ASSUME AgentInv, InstagramInv, UNCHANGED agent, UNCHANGED outbound, UNCHANGED answers,
         walk.at \notin {"wait", "say"}, walk'.at \notin {"wait", "say"}, AnsweredFirst'
  PROVE  AgentInv' /\ InAgent' = InAgent /\ OutTyped' /\ IgHeldInv' /\ AnswersInv'
<1> USE DEF InstagramInv
<1>1. queue' = queue /\ running' = running /\ notified' = notified /\ notified' \in [Channels -> 0..2]
  BY DEF agent, AgentInv, AgentTypes
<1>2. AgentInv' /\ InAgent' = InAgent
  BY <1>1, AgentStays
<1>3. UNCHANGED <<older, owed>> /\ UNCHANGED <<out, pending, sender, saying, idle, refused, older, owed, muddled>>
  BY DEF answers, outbound
<1>4. OutTyped'
  BY <1>3, OutStays
<1>5. IgHeldInv'
  BY <1>1, <1>2, <1>3 DEF IgHeldInv
<1>6. TurnOf("instagram")' = TurnOf("instagram")
  BY <1>1 DEF TurnOf
<1>7. AnswersInv'
  BY <1>3, <1>6, AnswersStay
<1> QED
  BY <1>2, <1>4, <1>5, <1>7

LEMMA RestingIs ==
  ASSUME NEW w, w = Resting \/ w = [Resting EXCEPT !.at = "boot"]
  PROVE  /\ w.at \in {"poll", "boot"} /\ w.page = 0 /\ w.next = 1 /\ w.last = 0 /\ w.cursors = <<0>>
         /\ Len(w.cursors) = 1 /\ w \in WalkType /\ (w.at = "poll" => w = Resting)
<1>1. <<0>> \in Seq(Nat) /\ Len(<<0>>) = 1
  OBVIOUS
<1>2. 0 \in 0..(PageCount - 1)
  BY Bounds
<1>3. Resting \in WalkType
  BY <1>1, <1>2 DEF Resting, WalkType
<1>4. [Resting EXCEPT !.at = "boot"] \in WalkType
  BY <1>3 DEF WalkType
<1> QED
  BY <1>1, <1>3, <1>4 DEF Resting

LEMMA RestStep ==
  ASSUME walk' = Resting \/ walk' = [Resting EXCEPT !.at = "boot"],
         walk'.at = "boot" => ram' = Fresh,
         threads' \in [People -> Seq(ItemKinds)], ram'.conv \in Someone
  PROVE  WalkInv' /\ walk' \in WalkType /\ walk'.at \in {"poll", "boot"} /\ ~Handled' /\ ~Walking' /\ AnsweredFirst'
<1>1. PICK w : w = walk'
  OBVIOUS
<1>2. /\ w.at \in {"poll", "boot"} /\ w.page = 0 /\ w.next = 1 /\ w.last = 0 /\ w.cursors = <<0>>
      /\ Len(w.cursors) = 1 /\ w \in WalkType /\ (w.at = "poll" => w = Resting)
  BY <1>1, RestingIs
<1>3. ram'.conv # Nobody => Linked(w.cursors, Mine')
  <2> SUFFICES ASSUME ram'.conv # Nobody PROVE Linked(w.cursors, Mine')
    OBVIOUS
  <2>1. Mine' \in Seq(ItemKinds)
    BY DEF Mine, Someone
  <2> QED
    BY <1>2, <2>1, LinkedStart
<1>4. Booting' => walk'.at = "boot"
  BY <1>1, <1>2 DEF Booting
<1>5. ~Walking' /\ ~Handled'
  BY <1>1, <1>2 DEF Walking, Handled
<1>6. WalkInv'
  <2>1. walk'.at \notin {"find", "wait", "say", "flush", "save"}
    BY <1>1, <1>2
  <2>2. Len(walk'.cursors) > walk'.page
    BY <1>1, <1>2
  <2> QED
    BY <1>1, <1>2, <1>3, <1>4, <1>5, <2>1, <2>2 DEF WalkInv
<1> QED
  BY <1>1, <1>2, <1>5, <1>6 DEF AnsweredFirst

(* Nothing is handled, and a credit is only lost where something was given *)
(* up for another time.                                                    *)
LEMMA RepeatKeeps ==
  ASSUME IgTyped, RepeatInv, done' = done, again' \in Counts, ~Handled',
         \A p \in People, i \in Items :
           \/ again'[p][i] = again[p][i] /\ (Passed(i) \/ InHandDone(p, i) => Passed(i)')
           \/ again'[p][i] = again[p][i] + 1
  PROVE  RepeatInv'
<1> SUFFICES ASSUME NEW p \in People, NEW i \in Items
             PROVE  done[p][i] <= again'[p][i] + (IF Passed(i)' THEN 1 ELSE 0)
  BY DEF RepeatInv, InHandDone
<1>1. done[p][i] \in Nat /\ again[p][i] \in Nat /\ again'[p][i] \in Nat
  BY DEF IgTyped, Counts
<1>2. done[p][i] <= again[p][i] + (IF Passed(i) \/ InHandDone(p, i) THEN 1 ELSE 0)
  BY DEF RepeatInv
<1>3. CASE again'[p][i] = again[p][i] /\ (Passed(i) \/ InHandDone(p, i) => Passed(i)')
  BY <1>1, <1>2, <1>3
<1>4. CASE again'[p][i] = again[p][i] + 1
  BY <1>1, <1>2, <1>4
<1> QED
  BY <1>3, <1>4

LEMMA FreshTyped == Fresh \in RamType
BY Bounds DEF Fresh, RamType, Someone

LEMMA LoadStep ==
  ASSUME AgentInv, InstagramInv, Load
  PROVE  AgentInv' /\ InAgent' = InAgent /\ InstagramInv'
<1> USE DEF InstagramInv
<1>1. /\ UNCHANGED agent /\ UNCHANGED outbound /\ UNCHANGED answers /\ walk.at = "boot"
      /\ threads' = threads /\ owner' = owner /\ flash' = flash /\ walk' = Resting
      /\ done' = done /\ again' = again /\ skipped' = skipped /\ torn' = torn /\ muddled' = muddled
      /\ ram' = [mark |-> flash.mark, of |-> flash.of, ready |-> flash.ready, who |-> flash.who, conv |-> Nobody]
  BY DEF Load, record, answers
<1>2. ram' \in RamType /\ ram'.conv = Nobody /\ ram'.mark = flash.mark /\ ram'.of = flash.of
      /\ ram'.ready = flash.ready /\ ram'.who = flash.who
  BY <1>1 DEF IgTyped, Flashes, RamType, Someone
<1>3. WalkInv' /\ walk' \in WalkType /\ walk'.at = "poll" /\ ~Handled' /\ ~Walking' /\ AnsweredFirst'
  BY <1>1, <1>2, RestStep, RestingIs DEF IgTyped, Someone, Resting
<1>4. AgentInv' /\ InAgent' = InAgent /\ OutTyped' /\ IgHeldInv' /\ AnswersInv'
  BY <1>1, <1>3, QuietStep
<1>5. IgTyped'
  BY <1>1, <1>2, <1>3 DEF IgTyped
<1>6. RepeatInv'
  <2>1. ~Handled /\ Booting /\ ~Booting'
    BY <1>1, <1>3 DEF Handled, Booting
  <2>2. \A i : Passed(i) => Passed(i)'
    BY <1>1, <1>2, <2>1 DEF Passed
  <2> QED
    BY <1>1, <1>3, <2>1, <2>2, RepeatKeeps DEF InHandDone, IgTyped
<1>7. LostInv'
  BY <1>1, <1>2, <1>3 DEF LostInv, MarkOf, Covered, Settled
<1>8. OwnersInv'
  BY <1>1, <1>2 DEF OwnersInv
<1> QED
  BY <1>3, <1>4, <1>5, <1>6, <1>7, <1>8

LEMMA AnotherTimeIs ==
  ASSUME again \in Counts
  PROVE  AnotherTime \in Counts /\ \A p \in People, i \in Items : AnotherTime[p][i] = again[p][i] + 1
BY DEF AnotherTime, Counts

LEMMA SwitchStep ==
  ASSUME AgentInv, InstagramInv, Switch
  PROVE  AgentInv' /\ InAgent' = InAgent /\ InstagramInv'
<1> USE DEF InstagramInv
<1>1. /\ UNCHANGED agent /\ UNCHANGED outbound /\ UNCHANGED answers /\ walk.at = "boot"
      /\ threads' = threads /\ owner' = owner /\ flash' = Switched(flash) /\ ram' = Fresh /\ walk' = Resting
      /\ done' = done /\ again' = AnotherTime /\ skipped' = {} /\ torn' = FALSE /\ muddled' = muddled
  BY DEF Switch, answers
<1>2. /\ ram' \in RamType /\ ram'.conv = Nobody /\ ram'.mark = 0 /\ ram'.of = Nobody /\ ram'.who = Nobody
      /\ flash' \in Flashes /\ flash'.mark = 0 /\ flash'.of = Nobody /\ flash'.who = Nobody
  BY <1>1, FreshTyped, Bounds DEF Fresh, Switched, IgTyped, Flashes
<1>3. WalkInv' /\ walk' \in WalkType /\ walk'.at = "poll" /\ ~Handled' /\ ~Walking' /\ AnsweredFirst'
  BY <1>1, <1>2, RestStep, RestingIs DEF IgTyped, Someone, Resting
<1>4. AgentInv' /\ InAgent' = InAgent /\ OutTyped' /\ IgHeldInv' /\ AnswersInv'
  BY <1>1, <1>3, QuietStep
<1>5. again' \in Counts /\ \A p \in People, i \in Items : again'[p][i] = again[p][i] + 1
  BY <1>1, AnotherTimeIs DEF IgTyped
<1>6. IgTyped'
  BY <1>1, <1>2, <1>3, <1>5 DEF IgTyped
<1>7. RepeatInv'
  BY <1>1, <1>3, <1>5, RepeatKeeps
<1>8. LostInv'
  BY <1>2, <1>3 DEF LostInv, MarkOf, Covered
<1>9. OwnersInv'
  BY <1>2 DEF OwnersInv
<1> QED
  BY <1>3, <1>4, <1>6, <1>7, <1>8, <1>9

LEMMA SwitchFailsStep ==
  ASSUME AgentInv, InstagramInv, SwitchFails
  PROVE  AgentInv' /\ InAgent' = InAgent /\ InstagramInv'
<1> USE DEF InstagramInv
<1>1. /\ UNCHANGED agent /\ UNCHANGED outbound /\ UNCHANGED answers /\ walk.at = "boot"
      /\ threads' = threads /\ owner' = owner /\ ram' = ram /\ walk' = [walk EXCEPT !.at = "off"]
      /\ flash' \in {flash, [flash EXCEPT !.owner = owner],
                     [flash EXCEPT !.owner = owner, !.mark = 0, !.of = Nobody],
                     [flash EXCEPT !.owner = owner, !.mark = 0, !.of = Nobody, !.ready = FALSE],
                     Switched(flash)}
      /\ done' = done /\ again' = (IF flash'.mark = flash.mark THEN again ELSE AnotherTime)
      /\ skipped' = skipped /\ torn' = (flash'.who \notin {Nobody, flash'.owner}) /\ muddled' = muddled
  BY DEF SwitchFails, answers
<1>2. ram = Fresh
  BY <1>1 DEF WalkInv, Booting
<1>3. /\ flash' \in Flashes
      /\ \/ flash'.mark = flash.mark /\ flash'.of = flash.of /\ flash'.ready = flash.ready
         \/ flash'.mark = 0 /\ flash'.of = Nobody
  <2>1. CASE flash' = flash
    BY <2>1 DEF IgTyped
  <2>2. CASE flash' = [flash EXCEPT !.owner = owner]
    BY <2>2 DEF IgTyped, Flashes
  <2>6. 0 \in 0..MaxItems /\ Nobody \in People \cup {Nobody} /\ owner \in People \cup {Nobody} /\ flash \in Flashes
    BY Bounds DEF IgTyped
  <2>3. CASE flash' = [flash EXCEPT !.owner = owner, !.mark = 0, !.of = Nobody]
    <3>1. flash' \in Flashes
      BY <2>3, <2>6 DEF Flashes
    <3>2. flash'.mark = 0 /\ flash'.of = Nobody
      BY <2>3, <2>6 DEF Flashes
    <3> QED
      BY <3>1, <3>2
  <2>4. CASE flash' = [flash EXCEPT !.owner = owner, !.mark = 0, !.of = Nobody, !.ready = FALSE]
    <3>1. flash' \in Flashes
      BY <2>4, <2>6 DEF Flashes
    <3>2. flash'.mark = 0 /\ flash'.of = Nobody
      BY <2>4, <2>6 DEF Flashes
    <3> QED
      BY <3>1, <3>2
  <2>5. CASE flash' = Switched(flash)
    BY <2>5, Bounds DEF IgTyped, Flashes, Switched
  <2> QED
    BY <1>1, <2>1, <2>2, <2>3, <2>4, <2>5
<1>4. walk' \in WalkType /\ walk'.at = "off" /\ walk'.page = walk.page /\ walk'.cursors = walk.cursors
  BY <1>1 DEF IgTyped, WalkType
<1>5. ~Handled' /\ ~Walking' /\ AnsweredFirst' /\ Booting' /\ Booting /\ ~Handled
  BY <1>1, <1>4 DEF Handled, Walking, AnsweredFirst, Booting
<1>6. WalkInv'
  <2>1. ram'.conv = Nobody
    BY <1>1, <1>2 DEF Fresh
  <2> QED
    BY <1>1, <1>2, <1>4, <1>5, <2>1 DEF WalkInv
<1>7. AgentInv' /\ InAgent' = InAgent /\ OutTyped' /\ IgHeldInv' /\ AnswersInv'
  BY <1>1, <1>4, <1>5, QuietStep
<1>8. again' \in Counts /\ (flash'.mark = flash.mark => again' = again)
      /\ (flash'.mark # flash.mark => \A p \in People, i \in Items : again'[p][i] = again[p][i] + 1)
  BY <1>1, AnotherTimeIs DEF IgTyped
<1>9. IgTyped'
  BY <1>1, <1>3, <1>4, <1>8 DEF IgTyped
<1>10. RepeatInv'
  <2> SUFFICES ASSUME NEW p \in People, NEW i \in Items
               PROVE  \/ again'[p][i] = again[p][i] /\ (Passed(i) \/ InHandDone(p, i) => Passed(i)')
                      \/ again'[p][i] = again[p][i] + 1
    BY <1>1, <1>5, <1>8, RepeatKeeps
  <2>1. CASE flash'.mark # flash.mark
    BY <1>8, <2>1
  <2>2. CASE flash'.mark = flash.mark /\ flash'.of = flash.of /\ flash'.ready = flash.ready
    BY <1>5, <1>8, <2>2 DEF Passed, InHandDone
  <2>3. CASE flash'.mark = flash.mark /\ flash'.mark = 0
    <3>1. ~(i <= flash.mark)
      BY <2>3, Bounds
    <3> QED
      BY <1>5, <1>8, <2>3, <3>1 DEF Passed, InHandDone
  <2> QED
    BY <1>3, <2>1, <2>2, <2>3
<1>11. LostInv'
  BY <1>1, <1>3, <1>5 DEF LostInv, MarkOf, Covered, Settled
<1>12. OwnersInv'
  BY <1>1, <1>2, <1>5 DEF OwnersInv, Fresh
<1> QED
  BY <1>6, <1>7, <1>9, <1>10, <1>11, <1>12

LEMMA FindStep ==
  ASSUME AgentInv, InstagramInv, FindBound \/ FindByName \/ FindUnsaved
  PROVE  AgentInv' /\ InAgent' = InAgent /\ InstagramInv'
<1> USE DEF InstagramInv
<1>1. /\ UNCHANGED agent /\ UNCHANGED outbound /\ UNCHANGED answers /\ walk.at = "poll" /\ ram.conv = Nobody
      /\ threads' = threads /\ owner' = owner /\ walk' = walk
      /\ done' = done /\ again' = again /\ skipped' = skipped /\ muddled' = muddled
  BY DEF FindBound, FindByName, FindUnsaved, record, answers
<1>2. \/ /\ ram' = [ram EXCEPT !.conv = ram.who] /\ ram.who # Nobody /\ flash' = flash /\ torn' = torn
      \/ /\ ram' = [ram EXCEPT !.conv = owner, !.who = owner] /\ ram.who = Nobody
         /\ flash' = [flash EXCEPT !.who = owner] /\ torn' = (flash.owner # owner)
      \/ /\ ram' = [ram EXCEPT !.conv = owner] /\ ram.who = Nobody
         /\ flash' \in {flash, [flash EXCEPT !.who = owner]} /\ torn' = (flash.owner # owner)
  BY DEF FindBound, FindByName, FindUnsaved, record
<1>3. ram \in RamType /\ flash \in Flashes /\ owner \in People /\ owner \in Someone /\ owner \in People \cup {Nobody}
  BY DEF IgTyped, Someone
<1>4. ram' \in RamType
  BY <1>2, <1>3 DEF RamType
<1>5. flash' \in Flashes
  BY <1>2, <1>3 DEF Flashes
<1>6. ram'.mark = ram.mark /\ ram'.of = ram.of /\ ram'.ready = ram.ready /\ ram'.conv # Nobody
  BY <1>2, <1>3, Bounds DEF RamType
<1>7. flash'.mark = flash.mark /\ flash'.of = flash.of /\ flash'.ready = flash.ready /\ flash'.owner = flash.owner
  BY <1>2, <1>3 DEF Flashes
<1>8. walk' = Resting
  BY <1>1 DEF WalkInv
<1>9. WalkInv' /\ walk' \in WalkType /\ walk'.at = "poll" /\ ~Handled' /\ ~Walking' /\ AnsweredFirst'
  BY <1>1, <1>4, <1>8, RestStep DEF IgTyped, RamType
<1>10. AgentInv' /\ InAgent' = InAgent /\ OutTyped' /\ IgHeldInv' /\ AnswersInv'
  BY <1>1, <1>9, QuietStep
<1>11. torn' \in BOOLEAN
  BY <1>2 DEF IgTyped
<1>12. IgTyped'
  BY <1>1, <1>3, <1>4, <1>5, <1>9, <1>11 DEF IgTyped
<1>13. ~Handled /\ ~Booting /\ ~Booting'
  BY <1>1 DEF Handled, Booting
<1>14. RepeatInv'
  BY <1>1, <1>6, <1>7, <1>9, <1>12, <1>13, RepeatKeeps DEF Passed, InHandDone, IgTyped
<1>15. LostInv'
  BY <1>1, <1>6, <1>7, <1>9 DEF LostInv, MarkOf, Covered, Settled
<1>16. OwnersInv'
  <2>1. {flash.who, ram.who} \subseteq {Nobody, flash.owner} \/ torn
    BY DEF OwnersInv
  <2>2. ram.who = flash.who
    BY <1>1, <1>13 DEF OwnersInv
  <2>3. CASE ram' = [ram EXCEPT !.conv = ram.who] /\ ram.who # Nobody /\ flash' = flash /\ torn' = torn
    <3>1. ram'.conv = ram.who /\ ram'.who = ram.who
      BY <1>3, <2>3 DEF RamType
    <3> QED
      BY <1>6, <2>1, <2>3, <3>1 DEF OwnersInv
  <2>4. CASE /\ ram' = [ram EXCEPT !.conv = owner, !.who = owner] /\ ram.who = Nobody
             /\ flash' = [flash EXCEPT !.who = owner] /\ torn' = (flash.owner # owner)
    <3>1. ram'.conv = owner /\ ram'.who = owner /\ flash'.who = owner
      BY <1>3, <2>4 DEF RamType, Flashes
    <3> QED
      BY <1>6, <1>7, <2>4, <3>1 DEF OwnersInv
  <2>5. CASE /\ ram' = [ram EXCEPT !.conv = owner] /\ ram.who = Nobody
             /\ flash' \in {flash, [flash EXCEPT !.who = owner]} /\ torn' = (flash.owner # owner)
    <3>1. ram'.conv = owner /\ ram'.who = Nobody
      BY <1>3, <2>5 DEF RamType
    <3>2. flash'.who \in {Nobody, owner}
      BY <1>3, <2>2, <2>5 DEF Flashes
    <3> QED
      BY <1>6, <1>7, <2>5, <3>1, <3>2 DEF OwnersInv
  <2> QED
    BY <1>2, <2>3, <2>4, <2>5
<1> QED
  BY <1>9, <1>10, <1>12, <1>14, <1>15, <1>16

(* The mark of the first poll: everything up to it is handled or passed    *)
(* over.                                                                   *)
LEMMA MarkedTyped ==
  ASSUME ram.conv \in People, NEW k \in 0..MaxItems
  PROVE  /\ \A m \in RamType : /\ Marked(m, k) \in RamType /\ Marked(m, k).mark = k /\ Marked(m, k).of = ram.conv
                               /\ Marked(m, k).ready = m.ready /\ Marked(m, k).who = m.who /\ Marked(m, k).conv = m.conv
         /\ \A m \in Flashes : /\ Marked(m, k) \in Flashes /\ Marked(m, k).mark = k /\ Marked(m, k).of = ram.conv
                               /\ Marked(m, k).ready = m.ready /\ Marked(m, k).who = m.who
                               /\ Marked(m, k).owner = m.owner
<1>1. \A m \in RamType : /\ Marked(m, k) \in RamType /\ Marked(m, k).mark = k /\ Marked(m, k).of = ram.conv
                         /\ Marked(m, k).ready = m.ready /\ Marked(m, k).who = m.who /\ Marked(m, k).conv = m.conv
  BY DEF RamType, Marked, Someone
<1>2. \A m \in Flashes : /\ Marked(m, k) \in Flashes /\ Marked(m, k).mark = k /\ Marked(m, k).of = ram.conv
                         /\ Marked(m, k).ready = m.ready /\ Marked(m, k).who = m.who
                         /\ Marked(m, k).owner = m.owner
  BY DEF Flashes, Marked, Someone
<1> QED
  BY <1>1, <1>2

LEMMA ReadyTyped ==
  /\ \A m \in RamType : LET r == [m EXCEPT !.ready = TRUE] IN
       r \in RamType /\ r.ready /\ r.mark = m.mark /\ r.of = m.of /\ r.who = m.who /\ r.conv = m.conv
  /\ \A m \in Flashes : LET r == [m EXCEPT !.ready = TRUE] IN
       r \in Flashes /\ r.ready /\ r.mark = m.mark /\ r.of = m.of /\ r.who = m.who /\ r.owner = m.owner
BY DEF RamType, Flashes

LEMMA BaselineStep ==
  ASSUME AgentInv, InstagramInv, Baseline \/ BaselineFails
  PROVE  AgentInv' /\ InAgent' = InAgent /\ InstagramInv'
<1> USE DEF InstagramInv
<1>1. /\ UNCHANGED agent /\ UNCHANGED outbound /\ UNCHANGED answers /\ walk.at = "poll"
      /\ ram.conv # Nobody /\ ~ram.ready
      /\ threads' = threads /\ owner' = owner /\ walk' = walk
      /\ done' = done /\ again' = again /\ muddled' = muddled /\ torn' = torn
  BY DEF Baseline, BaselineFails, answers
<1>2. \/ /\ Seen # {} /\ ram' \in {ram, [Marked(ram, Newest) EXCEPT !.ready = TRUE]}
         /\ flash' \in {Marked(flash, Newest), [Marked(flash, Newest) EXCEPT !.ready = TRUE]}
         /\ skipped' = skipped \cup Unhandled(ram.conv, 1..Newest)
      \/ /\ Seen = {} /\ ram' \in {ram, [ram EXCEPT !.ready = TRUE]}
         /\ flash' = [flash EXCEPT !.ready = TRUE] /\ skipped' = skipped
  BY DEF Baseline, BaselineFails
<1>3. ram \in RamType /\ flash \in Flashes /\ ram.conv \in People /\ Mine \in Seq(ItemKinds)
      /\ Len(Mine) \in Nat /\ Len(Mine) <= MaxItems
  BY <1>1, IgNumbers DEF IgTyped, Mine
<1>4. Seen # {} => Newest \in 1..Len(Mine) /\ Newest \in 0..MaxItems /\ Newest \in Nat
  BY <1>3, NewestFacts, Bounds
<1>5. /\ ram' \in RamType /\ ram'.conv = ram.conv /\ ram'.who = ram.who
      /\ (ram'.mark = ram.mark /\ ram'.of = ram.of) \/ (Seen # {} /\ ram'.mark = Newest /\ ram'.of = ram.conv)
  <2>1. CASE Seen # {}
    <3>1. PICK m \in RamType : m = Marked(ram, Newest)
      BY <1>3, <1>4, <2>1, MarkedTyped
    <3>2. m.mark = Newest /\ m.of = ram.conv /\ m.who = ram.who /\ m.conv = ram.conv
      BY <1>3, <1>4, <2>1, <3>1, MarkedTyped
    <3>3. ram' \in {ram, [m EXCEPT !.ready = TRUE]}
      BY <1>2, <2>1, <3>1
    <3> QED
      BY <1>3, <2>1, <3>2, <3>3, ReadyTyped
  <2>2. CASE Seen = {}
    BY <1>2, <1>3, <2>2, ReadyTyped
  <2> QED
    BY <2>1, <2>2
<1>6. /\ flash' \in Flashes /\ flash'.who = flash.who /\ flash'.owner = flash.owner
      /\ (flash'.mark = flash.mark /\ flash'.of = flash.of) \/ (Seen # {} /\ flash'.mark = Newest /\ flash'.of = ram.conv)
  <2>1. CASE Seen # {}
    <3>1. PICK m \in Flashes : m = Marked(flash, Newest)
      BY <1>3, <1>4, <2>1, MarkedTyped
    <3>2. m.mark = Newest /\ m.of = ram.conv /\ m.who = flash.who /\ m.owner = flash.owner
      BY <1>3, <1>4, <2>1, <3>1, MarkedTyped
    <3>3. flash' \in {m, [m EXCEPT !.ready = TRUE]}
      BY <1>2, <2>1, <3>1
    <3> QED
      BY <1>3, <2>1, <3>2, <3>3, ReadyTyped
  <2>2. CASE Seen = {}
    BY <1>2, <1>3, <2>2, ReadyTyped
  <2> QED
    BY <2>1, <2>2
<1>7. /\ ram' \in RamType /\ ram'.conv = ram.conv /\ ram'.who = ram.who
      /\ flash' \in Flashes /\ flash'.who = flash.who /\ flash'.owner = flash.owner
  BY <1>5, <1>6
<1>8. /\ (ram'.mark = ram.mark /\ ram'.of = ram.of) \/ (Seen # {} /\ ram'.mark = Newest /\ ram'.of = ram.conv)
      /\ (flash'.mark = flash.mark /\ flash'.of = flash.of) \/ (Seen # {} /\ flash'.mark = Newest /\ flash'.of = ram.conv)
  BY <1>5, <1>6
<1>9. walk' = Resting
  BY <1>1 DEF WalkInv
<1>10. WalkInv' /\ walk' \in WalkType /\ walk'.at = "poll" /\ ~Handled' /\ ~Walking' /\ AnsweredFirst'
  BY <1>1, <1>7, <1>9, RestStep DEF IgTyped, RamType
<1>11. AgentInv' /\ InAgent' = InAgent /\ OutTyped' /\ IgHeldInv' /\ AnswersInv'
  BY <1>1, <1>10, QuietStep
<1>12. IgTyped'
  BY <1>1, <1>7, <1>10 DEF IgTyped
<1>13. ~Handled /\ ~Booting /\ ~Booting' /\ \A i : ~Passed(i)
  BY <1>1 DEF Handled, Booting, Passed
<1>14. RepeatInv'
  BY <1>1, <1>10, <1>12, <1>13, RepeatKeeps DEF InHandDone, IgTyped
<1>15. skipped \subseteq skipped' /\ \A p \in People, i \in Items : done'[p][i] >= done[p][i]
  BY <1>1, <1>2 DEF IgTyped, Counts
<1>16. ASSUME Seen # {} PROVE \A i \in 1..Newest : Settled(ram.conv, i)'
  <2>1. PICK who \in People : who = ram.conv
    BY <1>3
  <2> SUFFICES ASSUME NEW i \in 1..Newest PROVE Settled(who, i)'
    BY <1>7, <2>1 DEF Settled
  <2>2. i \in Items
    BY <1>4, <1>16, Bounds
  <2>3. done[who][i] \in Nat
    BY <2>2 DEF IgTyped, Counts
  <2>4. done[who][i] = 0 => <<who, i>> \in Unhandled(ram.conv, 1..Newest)
    BY <2>1 DEF Unhandled
  <2>5. skipped' = skipped \cup Unhandled(ram.conv, 1..Newest)
    BY <1>2, <1>16
  <2> QED
    BY <1>1, <2>3, <2>4, <2>5 DEF Settled
<1>17. LostInv'
  <2>1. Seen # {} => Newest \in DOMAIN threads[ram.conv]
    BY <1>3, <1>4 DEF Mine
  <2>2. \A p \in People : Longer(threads[p], threads'[p])
    BY <1>1, LongerSame DEF IgTyped
  <2>3. /\ flash'.mark = flash.mark /\ flash'.of = flash.of => MarkOf(flash, threads)' /\ Covered(flash)'
        /\ ram'.mark = ram.mark /\ ram'.of = ram.of => MarkOf(ram, threads)' /\ Covered(ram)'
    BY <1>12, <1>15, <2>2, LostMarks
  <2>4. /\ Seen # {} /\ flash'.mark = Newest /\ flash'.of = ram.conv => MarkOf(flash, threads)' /\ Covered(flash)'
        /\ Seen # {} /\ ram'.mark = Newest /\ ram'.of = ram.conv => MarkOf(ram, threads)' /\ Covered(ram)'
    BY <1>1, <1>3, <1>7, <1>16, <2>1, Bounds DEF MarkOf, Covered, Settled
  <2>5. MarkOf(flash, threads)' /\ MarkOf(ram, threads)' /\ Covered(flash)' /\ Covered(ram)'
    BY <1>8, <2>3, <2>4
  <2> QED
    BY <1>10, <2>5 DEF LostInv
<1>18. OwnersInv'
  BY <1>1, <1>7, <1>13 DEF OwnersInv
<1> QED
  BY <1>10, <1>11, <1>12, <1>14, <1>17, <1>18

(* The walk comes to rest: the page is done, or did not come.              *)
LEMMA EndOfWalkStep ==
  ASSUME AgentInv, InstagramInv, SyncEnds \/ FetchFails
  PROVE  AgentInv' /\ InAgent' = InAgent /\ InstagramInv'
<1> USE DEF InstagramInv
<1>1. /\ UNCHANGED agent /\ UNCHANGED outbound /\ UNCHANGED answers
      /\ walk.at \in {"poll", "find", "handle"} /\ walk' = Resting
      /\ threads' = threads /\ owner' = owner /\ flash' = flash /\ ram' = ram
      /\ done' = done /\ again' = again /\ skipped' = skipped /\ muddled' = muddled /\ torn' = torn
  BY DEF SyncEnds, FetchFails, record, answers, PageDone
<1>2. WalkInv' /\ walk' \in WalkType /\ walk'.at = "poll" /\ ~Handled' /\ ~Walking' /\ AnsweredFirst'
  BY <1>1, RestStep DEF IgTyped, RamType, Resting
<1>3. AgentInv' /\ InAgent' = InAgent /\ OutTyped' /\ IgHeldInv' /\ AnswersInv'
  BY <1>1, <1>2, QuietStep
<1>4. IgTyped'
  BY <1>1, <1>2 DEF IgTyped
<1>5. ~Handled /\ ~Booting /\ ~Booting'
  BY <1>1, <1>2 DEF Handled, Booting
<1>6. RepeatInv'
  BY <1>1, <1>2, <1>4, <1>5, RepeatKeeps DEF Passed, InHandDone, IgTyped
<1>7. LostInv'
  BY <1>1, <1>2 DEF LostInv, MarkOf, Covered, Settled
<1>8. OwnersInv'
  BY <1>1, <1>5 DEF OwnersInv
<1> QED
  BY <1>2, <1>3, <1>4, <1>6, <1>7, <1>8

(* What the search for the page with the mark comes to.                    *)
LEMMA FindWalk ==
  ASSUME IgTyped, WalkInv, Find
  PROVE  /\ ram.conv \in People /\ ram.ready /\ ram' = ram /\ threads' = threads
         /\ walk' \in WalkType /\ WalkInv' /\ walk'.at \in {"poll", "find", "handle"}
         /\ Walking' => walk'.next = ram.mark + 1 /\ (ram.mark # 0 => ram.of = ram.conv)
<1>1. /\ walk.at \in {"poll", "find"} /\ ram.conv # Nobody /\ ram.ready /\ ram' = ram /\ threads' = threads
  BY DEF Find
<1>2. /\ ram.conv \in People /\ Mine \in Seq(ItemKinds) /\ Len(Mine) \in Nat /\ ram.mark \in Nat
      /\ walk \in WalkType /\ walk.page \in Nat /\ walk.cursors \in Seq(Nat) /\ walk.page + 1 \in 1..Len(walk.cursors)
  BY <1>1, IgNumbers DEF IgTyped
<1>3. Linked(walk.cursors, Mine) /\ Len(walk.cursors) = walk.page + 1
  <2>3. Resting.page = 0 /\ Len(Resting.cursors) = 1
    BY RestingIs
  <2>1. walk.at = "poll" => walk.page = 0 /\ Len(walk.cursors) = 1
    BY <2>3 DEF WalkInv
  <2>4. \A a, b : a = 0 /\ b = 1 => b = a + 1
    OBVIOUS
  <2>2. walk.at = "poll" => Len(walk.cursors) = walk.page + 1
    BY <2>1, <2>4
  <2> QED
    BY <1>1, <2>2 DEF WalkInv
<1> DEFINE c == Cursor
<1>4. /\ c \in Nat /\ (c = 0 \/ c \in 2..Len(Mine)) /\ (walk.page > 0 => c \in 2..Len(Mine))
  <2>1. walk.page > 0 => walk.page + 1 > 1
    BY <1>2
  <2> QED
    BY <1>2, <1>3, <2>1, CursorFacts DEF Cursor
<1>5. /\ Top(Mine, c) \in 0..Len(Mine) /\ Bottom(Mine, c) \in Nat
      /\ c # 0 => Top(Mine, c) = c - 1
      /\ More(Mine, c) => Bottom(Mine, c) \in 2..Len(Mine)
  BY <1>2, <1>4, PageFacts
<1>6. Mine' = Mine
  BY <1>1 DEF Mine
<1> HIDE DEF c
<1>7. CASE /\ walk' = [walk EXCEPT !.at = "handle", !.next = AfterMark, !.last = Top(Mine, c)]
           /\ \/ ram.mark = 0
              \/ ram.of = ram.conv /\ ram.mark \in PageOf(Mine, c)
  <2>1. ram.mark + 1 \in Nat /\ Top(Mine, c) \in Nat
    BY <1>2, <1>5
  <2>2. /\ walk' \in WalkType /\ walk'.at = "handle" /\ walk'.next = ram.mark + 1 /\ walk'.last = Top(Mine, c)
        /\ walk'.page = walk.page /\ walk'.cursors = walk.cursors
    BY <1>2, <1>7, <2>1 DEF WalkType, AfterMark
  <2>3. ram.mark < ram.mark + 1 /\ ram.mark + 1 <= Top(Mine, c) + 1 /\ Top(Mine, c) <= Len(Mine)
    BY <1>2, <1>5, <1>7 DEF PageOf
  <2>4. Cursor' = c
    BY <2>2 DEF Cursor, c
  <2>5. walk.page > 0 => Top(Mine, c) = c - 1
    BY <1>2, <1>4, <1>5
  <2>6. Len(walk.cursors) > walk.page
    BY DEF WalkInv
  <2>7. ~Booting' /\ Walking'
    BY <2>2 DEF Booting, Walking
  <2>8. WalkInv'
    BY <1>1, <1>3, <1>6, <1>7, <2>2, <2>3, <2>4, <2>5, <2>6, <2>7 DEF WalkInv
  <2> QED
    BY <1>1, <1>2, <1>7, <2>2, <2>8
<1>8. CASE walk' = Resting
  <2>1. WalkInv' /\ walk' \in WalkType /\ walk'.at = "poll" /\ ~Walking'
    BY <1>1, <1>2, <1>8, RestStep DEF IgTyped, RamType, Resting
  <2> QED
    BY <1>1, <1>2, <2>1
<1>9. CASE /\ walk' = [walk EXCEPT !.at = "find", !.page = @ + 1, !.cursors = Append(@, Bottom(Mine, c))]
           /\ More(Mine, c) /\ walk.page + 1 < PageCount
  <2> DEFINE cs == Append(walk.cursors, Bottom(Mine, c))
  <2>1. c = walk.cursors[Len(walk.cursors)]
    BY <1>3 DEF c, Cursor
  <2>2. Linked(cs, Mine) /\ cs \in Seq(Nat) /\ Len(cs) = Len(walk.cursors) + 1
    BY <1>2, <1>3, <1>9, <2>1, LinkedMore
  <2>3. walk.page + 1 \in 0..(PageCount - 1)
    BY <1>2, <1>9, Bounds
  <2>4. walk' = [walk EXCEPT !.at = "find", !.page = walk.page + 1, !.cursors = cs]
    BY <1>2, <1>9 DEF WalkType
  <2> HIDE DEF cs
  <2>5. walk' \in WalkType /\ walk'.at = "find" /\ walk'.page = walk.page + 1 /\ walk'.cursors = cs
    BY <1>2, <2>2, <2>3, <2>4 DEF WalkType
  <2>6. ~Booting' /\ ~Walking'
    BY <2>5 DEF Booting, Walking
  <2>7. Len(cs) = walk.page + 1 + 1 /\ Len(cs) > walk.page + 1
    BY <1>2, <1>3, <2>2
  <2>8. WalkInv'
    BY <1>1, <1>6, <2>2, <2>5, <2>6, <2>7 DEF WalkInv
  <2> QED
    BY <1>1, <1>2, <2>5, <2>6, <2>8
<1>10. \/ /\ walk' = [walk EXCEPT !.at = "handle", !.next = AfterMark, !.last = Top(Mine, c)]
          /\ \/ ram.mark = 0
             \/ ram.of = ram.conv /\ ram.mark \in PageOf(Mine, c)
       \/ walk' = Resting
       \/ /\ walk' = [walk EXCEPT !.at = "find", !.page = @ + 1, !.cursors = Append(@, Bottom(Mine, c))]
          /\ More(Mine, c) /\ walk.page + 1 < PageCount
  <2>1. walk.page + 1 \in Int /\ PageCount \in Int
    BY <1>2, Bounds
  <2> QED
    BY <2>1 DEF Find, c
<1> QED
  BY <1>7, <1>8, <1>9, <1>10

LEMMA FindPageStep ==
  ASSUME AgentInv, InstagramInv, Find
  PROVE  AgentInv' /\ InAgent' = InAgent /\ InstagramInv'
<1> USE DEF InstagramInv
<1>1. /\ UNCHANGED agent /\ UNCHANGED outbound /\ UNCHANGED answers /\ walk.at \in {"poll", "find"}
      /\ threads' = threads /\ owner' = owner /\ flash' = flash /\ ram' = ram
      /\ done' = done /\ again' = again /\ skipped' = skipped /\ muddled' = muddled /\ torn' = torn
  BY DEF Find, record, answers
<1>2. /\ ram.conv \in People /\ walk' \in WalkType /\ WalkInv' /\ walk'.at \in {"poll", "find", "handle"}
      /\ Walking' => walk'.next = ram.mark + 1 /\ (ram.mark # 0 => ram.of = ram.conv)
  BY FindWalk
<1>3. AgentInv' /\ InAgent' = InAgent /\ OutTyped' /\ IgHeldInv' /\ AnswersInv'
  BY <1>1, <1>2, QuietStep DEF AnsweredFirst
<1>4. IgTyped'
  BY <1>1, <1>2 DEF IgTyped
<1>5. ~Handled /\ ~Booting /\ ~Booting' /\ ~Handled'
  BY <1>1, <1>2 DEF Handled, Booting
<1>6. RepeatInv'
  BY <1>1, <1>2, <1>4, <1>5, RepeatKeeps DEF Passed, InHandDone, IgTyped
<1>7. LostInv'
  <2>1. ASSUME Walking' PROVE \A i \in 1..(walk'.next - 1) : Settled(ram.conv, i)'
    <3>3. ram.mark \in Nat /\ \A a \in Nat : (a + 1) - 1 = a
      BY IgNumbers
    <3>4. walk'.next = ram.mark + 1
      BY <1>2, <2>1
    <3>1. walk'.next - 1 = ram.mark
      BY <3>3, <3>4
    <3>2. \A i \in 1..ram.mark : Settled(ram.conv, i)
      <4>1. CASE ram.mark = 0
        BY <4>1
      <4>2. CASE ram.mark # 0
        <5>1. ram.of = ram.conv /\ ram.of # Nobody
          BY <1>2, <2>1, <4>2, Bounds
        <5> QED
          BY <5>1 DEF LostInv, Covered
      <4> QED
        BY <4>1, <4>2
    <3> QED
      BY <1>1, <3>1, <3>2 DEF Settled
  <2> QED
    BY <1>1, <2>1 DEF LostInv, MarkOf, Covered, Settled
<1>8. OwnersInv'
  BY <1>1, <1>5 DEF OwnersInv
<1> QED
  BY <1>2, <1>3, <1>4, <1>6, <1>7, <1>8

LEMMA BackFacts ==
  ASSUME IgTyped, WalkInv, walk.at = "handle", walk.next > walk.last, walk.page > 0, NEW c, c = walk.cursors[walk.page]
  PROVE  /\ ram.conv \in People /\ Mine \in Seq(ItemKinds) /\ Len(Mine) \in Nat /\ ram.mark \in Nat
         /\ walk \in WalkType /\ walk.page \in Nat /\ walk.cursors \in Seq(Nat) /\ walk.page + 1 \in 1..Len(walk.cursors)
         /\ walk.next \in Nat /\ walk.last \in Nat /\ walk.next = walk.last + 1 /\ Len(walk.cursors) \in Nat
         /\ walk.page < PageCount
         /\ Linked(walk.cursors, Mine) /\ walk.last = Cursor - 1 /\ ram.ready /\ (ram.mark # 0 => ram.of = ram.conv)
         /\ ram.mark < walk.next
         /\ Cursor \in 2..Len(Mine) /\ Cursor <= Bottom(Mine, c) /\ walk.page \in 1..Len(walk.cursors)
         /\ c \in Nat /\ (c = 0 \/ c \in 2..Len(Mine)) /\ (walk.page > 1 => c \in 2..Len(Mine))
         /\ Top(Mine, c) \in 0..Len(Mine) /\ Bottom(Mine, c) \in Nat /\ Bottom(Mine, c) <= Top(Mine, c) + 1
         /\ c # 0 => Top(Mine, c) = c - 1
<1>1. Walking
  BY DEF Walking
<1>2. /\ ram.conv \in People /\ Mine \in Seq(ItemKinds) /\ Len(Mine) \in Nat /\ ram.mark \in Nat
      /\ walk \in WalkType /\ walk.page \in Nat /\ walk.cursors \in Seq(Nat) /\ walk.page + 1 \in 1..Len(walk.cursors)
      /\ walk.next \in Nat /\ walk.last \in Nat /\ walk.next = walk.last + 1 /\ Len(walk.cursors) \in Nat
      /\ walk.page < PageCount
  <2>1. ram.conv \in People /\ walk.next = walk.last + 1
    BY <1>1, IgNumbers
  <2>2. Mine \in Seq(ItemKinds) /\ Len(Mine) \in Nat
    BY <2>1, IgNumbers, Bounds
  <2> QED
    BY <2>1, <2>2, IgNumbers DEF IgTyped
<1>3. Linked(walk.cursors, Mine) /\ walk.last = Cursor - 1 /\ ram.ready /\ (ram.mark # 0 => ram.of = ram.conv)
      /\ ram.mark < walk.next
  BY <1>1 DEF WalkInv
<1>4. Cursor \in 2..Len(Mine) /\ Cursor <= Bottom(Mine, c) /\ walk.page \in 1..Len(walk.cursors)
  <2>1. walk.page + 1 > 1 /\ (walk.page + 1) - 1 = walk.page
    BY <1>2
  <2>2. PICK k \in 1..Len(walk.cursors) : k = walk.page + 1
    BY <1>2
  <2>3. /\ walk.cursors[k] \in 2..Len(Mine) /\ walk.cursors[k] <= Bottom(Mine, walk.cursors[k - 1])
        /\ k - 1 \in 1..Len(walk.cursors)
    BY <1>2, <1>3, <2>1, <2>2, CursorFacts
  <2> QED
    BY <2>1, <2>2, <2>3 DEF Cursor
<1>5. c \in Nat /\ (c = 0 \/ c \in 2..Len(Mine)) /\ (walk.page > 1 => c \in 2..Len(Mine))
  BY <1>2, <1>3, <1>4, CursorFacts
<1>6. /\ Top(Mine, c) \in 0..Len(Mine) /\ Bottom(Mine, c) \in Nat /\ Bottom(Mine, c) <= Top(Mine, c) + 1
      /\ c # 0 => Top(Mine, c) = c - 1
  BY <1>2, <1>5, PageFacts
<1> QED
  BY <1>2, <1>3, <1>4, <1>5, <1>6

(* Forward to the page before: what fell off between the two is passed     *)
(* over.                                                                   *)
LEMMA BackStep ==
  ASSUME AgentInv, InstagramInv, Back
  PROVE  AgentInv' /\ InAgent' = InAgent /\ InstagramInv'
<1> USE DEF InstagramInv
<1> DEFINE c == walk.cursors[walk.page]
<1>1. /\ UNCHANGED agent /\ UNCHANGED outbound /\ UNCHANGED answers
      /\ walk.at = "handle" /\ walk.next > walk.last /\ walk.page > 0
      /\ threads' = threads /\ owner' = owner /\ flash' = flash /\ ram' = ram
      /\ done' = done /\ again' = again /\ muddled' = muddled /\ torn' = torn
      /\ walk' = [walk EXCEPT !.page = @ - 1, !.next = Bottom(Mine, c), !.last = Top(Mine, c)]
      /\ skipped' = skipped \cup
           {<<ram.conv, i>> : i \in {j \in Cursor..(Bottom(Mine, c) - 1) : Mine[j] \in Incoming}}
  BY DEF Back, answers, PageDone
<1>2. Walking
  BY <1>1 DEF Walking
<1>3. /\ ram.conv \in People /\ Mine \in Seq(ItemKinds) /\ Len(Mine) \in Nat /\ ram.mark \in Nat
      /\ walk \in WalkType /\ walk.page \in Nat /\ walk.cursors \in Seq(Nat) /\ walk.page + 1 \in 1..Len(walk.cursors)
      /\ walk.next \in Nat /\ walk.last \in Nat /\ walk.next = walk.last + 1 /\ Len(walk.cursors) \in Nat
      /\ walk.page < PageCount
  BY <1>1, BackFacts
<1>4. Linked(walk.cursors, Mine) /\ walk.last = Cursor - 1 /\ ram.ready /\ (ram.mark # 0 => ram.of = ram.conv)
      /\ ram.mark < walk.next
  BY <1>1, BackFacts
<1>5. Cursor \in 2..Len(Mine) /\ Cursor <= Bottom(Mine, c) /\ walk.page \in 1..Len(walk.cursors)
  BY <1>1, BackFacts
<1>6. c \in Nat /\ (c = 0 \/ c \in 2..Len(Mine)) /\ (walk.page > 1 => c \in 2..Len(Mine))
  BY <1>1, BackFacts
<1>7. /\ Top(Mine, c) \in 0..Len(Mine) /\ Bottom(Mine, c) \in Nat /\ Bottom(Mine, c) <= Top(Mine, c) + 1
      /\ c # 0 => Top(Mine, c) = c - 1
  BY <1>1, BackFacts
<1> HIDE DEF c
<1>8. walk.next = Cursor
  BY <1>3, <1>4, <1>5
<1>9. walk.page - 1 \in 0..(PageCount - 1) /\ walk.page - 1 \in Nat /\ (walk.page - 1) + 1 = walk.page
  <2>1. walk.page > 0
    BY <1>1
  <2> QED
    BY <1>3, <2>1, Bounds
<1>10. walk' = [walk EXCEPT !.page = walk.page - 1, !.next = Bottom(Mine, c), !.last = Top(Mine, c)]
  BY <1>1, <1>3 DEF WalkType
<1>11. /\ walk' \in WalkType /\ walk'.at = "handle" /\ walk'.page = walk.page - 1 /\ walk'.cursors = walk.cursors
       /\ walk'.next = Bottom(Mine, c) /\ walk'.last = Top(Mine, c)
  <2>1. Bottom(Mine, c) \in Nat /\ Top(Mine, c) \in Nat
    BY <1>3, <1>7
  <2>2. walk.at = "handle" /\ walk \in WalkType
    BY <1>1, <1>3
  <2> QED
    BY <1>9, <1>10, <2>1, <2>2 DEF WalkType
<1>12. Mine' = Mine /\ Cursor' = c
  BY <1>1, <1>9, <1>11 DEF Mine, Cursor, c
<1>13. ~Booting' /\ ~Handled' /\ Walking' /\ ~Handled /\ ~Booting
  BY <1>1, <1>11 DEF Booting, Handled, Walking
<1>14. WalkInv'
  <2>1. ram.mark < Bottom(Mine, c)
    BY <1>3, <1>4, <1>5, <1>7, <1>8
  <2>2. Len(walk.cursors) > walk.page - 1
    BY <1>3, <1>9
  <2>3. walk.page - 1 > 0 => Top(Mine, c) = c - 1
    BY <1>3, <1>6, <1>7
  <2>4. Top(Mine, c) <= Len(Mine) /\ Bottom(Mine, c) <= Top(Mine, c) + 1
    BY <1>3, <1>7
  <2>5. ram.conv # Nobody
    BY <1>3, Bounds
  <2> QED
    BY <1>1, <1>4, <1>11, <1>12, <1>13, <2>1, <2>2, <2>3, <2>4, <2>5 DEF WalkInv
<1>15. AgentInv' /\ InAgent' = InAgent /\ OutTyped' /\ IgHeldInv' /\ AnswersInv'
  BY <1>1, <1>11, QuietStep DEF AnsweredFirst
<1>16. IgTyped'
  BY <1>1, <1>11 DEF IgTyped
<1>17. RepeatInv'
  BY <1>1, <1>13, <1>16, RepeatKeeps DEF Passed, InHandDone, IgTyped
<1>18. LostInv'
  <2>1. \A p \in People : Longer(threads[p], threads'[p])
    BY <1>1, LongerSame DEF IgTyped
  <2>2. skipped \subseteq skipped' /\ \A p \in People, i \in Items : done'[p][i] >= done[p][i]
    BY <1>1 DEF IgTyped, Counts
  <2>3. MarkOf(flash, threads)' /\ MarkOf(ram, threads)' /\ Covered(flash)' /\ Covered(ram)'
    BY <1>1, <1>16, <2>1, <2>2, LostMarks
  <2>4. ASSUME NEW i \in 1..(walk'.next - 1) PROVE Settled(ram.conv, i)'
    <3>1. i \in 1..(walk.next - 1) \/ i \in Cursor..(Bottom(Mine, c) - 1)
      BY <1>3, <1>5, <1>7, <1>8, <1>11
    <3>2. CASE i \in 1..(walk.next - 1)
      <4>1. Settled(ram.conv, i)
        BY <1>2, <3>2 DEF LostInv
      <4> QED
        BY <1>1, <2>2, <4>1 DEF Settled
    <3>3. CASE i \in Cursor..(Bottom(Mine, c) - 1)
      BY <1>1, <3>3 DEF Settled, Mine
    <3> QED
      BY <3>1, <3>2, <3>3
  <2> QED
    BY <1>1, <2>3, <2>4 DEF LostInv
<1>19. OwnersInv'
  BY <1>1, <1>13 DEF OwnersInv
<1> QED
  BY <1>14, <1>15, <1>16, <1>17, <1>18, <1>19

(***************************************************************************)
(* Instagram: the item in hand                                             *)
(***************************************************************************)
LEMMA InHandFacts ==
  ASSUME IgTyped, WalkInv, Walking, walk.next <= walk.last
  PROVE  /\ ram.conv \in People /\ ram.conv # Nobody /\ Item \in Items /\ Item \in 1..Len(Mine) /\ Item \in 0..MaxItems
         /\ Item = walk.next /\ Item \in Nat /\ Mine \in Seq(ItemKinds) /\ Len(Mine) \in Nat
         /\ ram.mark \in Nat /\ ram.mark < Item /\ ram.ready /\ ~Booting /\ ~Passed(Item) /\ walk.last \in Nat
         /\ Here = <<ram.conv, Item>> /\ (ram.mark # 0 => ram.of = ram.conv) /\ walk.last <= Len(Mine)
<1>1. /\ ram.conv \in People /\ ram.conv # Nobody /\ Item \in Items /\ Item \in 1..Len(Mine)
      /\ Mine \in Seq(ItemKinds) /\ Len(Mine) \in Nat /\ ram.mark \in Nat /\ ~Booting /\ walk.last \in Nat
  BY IgNumbers, Bounds
<1>2. ram.mark < Item /\ ram.ready /\ (ram.mark # 0 => ram.of = ram.conv) /\ walk.last <= Len(Mine)
  BY DEF WalkInv, Item
<1>3. Item \in Nat /\ Item \in 0..MaxItems
  BY <1>1, Bounds
<1>4. ~(Item <= ram.mark)
  BY <1>1, <1>2, <1>3
<1> QED
  BY <1>1, <1>2, <1>3, <1>4 DEF Passed, Item, Here

LEMMA OnceHere ==
  ASSUME NEW f \in Counts, NEW g, g = Once(f, Here), ram.conv \in People, Item \in Items
  PROVE  /\ g \in Counts /\ g[ram.conv][Item] = f[ram.conv][Item] + 1
         /\ \A q \in People, j \in Items : (q # ram.conv \/ j # Item) => g[q][j] = f[q][j]
<1>1. PICK p \in People, i \in Items : p = ram.conv /\ i = Item
  OBVIOUS
<1>2. g = Once(f, <<p, i>>)
  BY <1>1 DEF Here
<1>3. /\ g \in Counts /\ g[p][i] = f[p][i] + 1
      /\ \A q \in People, j \in Items : <<q, j>> # <<p, i>> => g[q][j] = f[q][j]
  BY <1>2, OnceFacts
<1>4. \A q, j : (q # p \/ j # i) => <<q, j>> # <<p, i>>
  OBVIOUS
<1> QED
  BY <1>1, <1>3, <1>4

(* The item in hand is handled to its end.                                 *)
LEMMA RepeatOnce ==
  ASSUME IgTyped, WalkInv, RepeatInv, Walking, walk.next <= walk.last, ~Handled,
         done' = Once(done, Here), \A i \in Items : Passed(i) => Passed(i)',
         \/ again' = again /\ Handled' /\ ram'.conv = ram.conv /\ walk'.next = walk.next
         \/ again' = Once(again, Here) /\ ~Handled'
  PROVE  RepeatInv'
<1>1. ram.conv \in People /\ Item \in Items /\ ~Passed(Item) /\ Here = <<ram.conv, Item>> /\ done \in Counts /\ again \in Counts
  BY InHandFacts DEF IgTyped
<1>2. /\ done' \in Counts /\ done'[ram.conv][Item] = done[ram.conv][Item] + 1
      /\ \A q \in People, j \in Items : (q # ram.conv \/ j # Item) => done'[q][j] = done[q][j]
  BY <1>1, OnceHere
<1>3. ASSUME NEW q \in People, NEW j \in Items
      PROVE  done[q][j] \in Nat /\ done'[q][j] \in Nat /\ again[q][j] \in Nat
             /\ done[q][j] <= again[q][j] + (IF Passed(j) THEN 1 ELSE 0)
  BY <1>1, <1>2 DEF Counts, RepeatInv, InHandDone
<1>4. CASE again' = again /\ Handled' /\ ram'.conv = ram.conv /\ walk'.next = walk.next
  <2>1. \A p, i : InHandDone(p, i)' <=> (p = ram.conv /\ i = Item)
    BY <1>4 DEF InHandDone, Item
  <2>2. ASSUME NEW q \in People, NEW j \in Items
        PROVE  done'[q][j] <= again[q][j] + (IF Passed(j)' \/ InHandDone(q, j)' THEN 1 ELSE 0)
    <3>1. CASE q = ram.conv /\ j = Item
      <4>1. done[q][j] <= again[q][j] /\ done'[q][j] = done[q][j] + 1 /\ InHandDone(q, j)'
        BY <1>1, <1>2, <1>3, <2>1, <3>1
      <4> QED
        BY <1>3, <4>1
    <3>2. CASE ~(q = ram.conv /\ j = Item)
      BY <1>2, <1>3, <3>2
    <3> QED
      BY <3>1, <3>2
  <2>3. done'[ram.conv][Item] > 0
    BY <1>1, <1>2, <1>3
  <2> QED
    BY <1>4, <2>2, <2>3 DEF RepeatInv, Item
<1>5. CASE again' = Once(again, Here) /\ ~Handled'
  <2>1. /\ again'[ram.conv][Item] = again[ram.conv][Item] + 1
        /\ \A q \in People, j \in Items : (q # ram.conv \/ j # Item) => again'[q][j] = again[q][j]
    BY <1>1, <1>5, OnceHere
  <2>2. ASSUME NEW q \in People, NEW j \in Items
        PROVE  done'[q][j] <= again'[q][j] + (IF Passed(j)' THEN 1 ELSE 0)
    <3>1. CASE q = ram.conv /\ j = Item
      <4>1. done[q][j] <= again[q][j] /\ done'[q][j] = done[q][j] + 1 /\ again'[q][j] = again[q][j] + 1
        BY <1>1, <1>2, <1>3, <2>1, <3>1
      <4> QED
        BY <1>3, <4>1
    <3>2. CASE ~(q = ram.conv /\ j = Item)
      BY <1>2, <1>3, <2>1, <3>2
    <3> QED
      BY <3>1, <3>2
  <2> QED
    BY <1>5, <2>2 DEF RepeatInv, InHandDone
<1> QED
  BY <1>4, <1>5

(* The item in hand is given up for another time.                          *)
LEMMA GivenUp ==
  ASSUME IgTyped, WalkInv, RepeatInv, Walking, walk.next <= walk.last,
         done' = done, again' = Once(again, Here), ~Handled', \A i \in Items : Passed(i) => Passed(i)'
  PROVE  RepeatInv' /\ again' \in Counts
<1>1. ram.conv \in People /\ Item \in Items /\ Here = <<ram.conv, Item>> /\ again \in Counts
  BY InHandFacts DEF IgTyped
<1>2. /\ again' \in Counts /\ again'[ram.conv][Item] = again[ram.conv][Item] + 1
      /\ \A q \in People, j \in Items : (q # ram.conv \/ j # Item) => again'[q][j] = again[q][j]
  BY <1>1, OnceHere
<1>3. \A p \in People, i \in Items : InHandDone(p, i) => again'[p][i] = again[p][i] + 1
  BY <1>2 DEF InHandDone
<1>4. \A p \in People, i \in Items : again'[p][i] = again[p][i] \/ again'[p][i] = again[p][i] + 1
  BY <1>2
<1>5. \A p \in People, i \in Items :
        \/ again'[p][i] = again[p][i] /\ (Passed(i) \/ InHandDone(p, i) => Passed(i)')
        \/ again'[p][i] = again[p][i] + 1
  BY <1>3, <1>4
<1>6. RepeatInv'
  BY <1>2, <1>5, RepeatKeeps
<1> QED
  BY <1>2, <1>6

(* What was handled and what was passed over only grows.                   *)
LEMMA DoneGrows ==
  ASSUME done \in Counts, NEW p \in People, NEW i \in Items, done' \in {done, Once(done, <<p, i>>)}
  PROVE  done' \in Counts /\ \A q \in People, j \in Items : done'[q][j] >= done[q][j]
<1>1. \A q \in People, j \in Items : done[q][j] \in Nat
  BY DEF Counts
<1>2. CASE done' = done
  BY <1>1, <1>2
<1>3. CASE done' = Once(done, <<p, i>>)
  <2>1. /\ done' \in Counts /\ done'[p][i] = done[p][i] + 1
        /\ \A q \in People, j \in Items : <<q, j>> # <<p, i>> => done'[q][j] = done[q][j]
    BY <1>3, OnceFacts
  <2>2. ASSUME NEW q \in People, NEW j \in Items PROVE done'[q][j] >= done[q][j]
    <3>1. CASE q = p /\ j = i
      BY <1>1, <2>1, <3>1
    <3>2. CASE ~(q = p /\ j = i)
      BY <1>1, <2>1, <3>2
    <3> QED
      BY <3>1, <3>2
  <2> QED
    BY <2>1, <2>2
<1> QED
  BY <1>2, <1>3

(* A message that was sent, and one the person took back.                  *)
LEMMA SkipOutStep ==
  ASSUME AgentInv, InstagramInv, SkipOut
  PROVE  AgentInv' /\ InAgent' = InAgent /\ InstagramInv'
<1> USE DEF InstagramInv
<1>1. /\ UNCHANGED agent /\ UNCHANGED outbound /\ UNCHANGED answers
      /\ walk.at = "handle" /\ walk.next <= walk.last /\ Mine[Item] = "out" /\ walk' = [walk EXCEPT !.next = @ + 1]
      /\ threads' = threads /\ owner' = owner /\ flash' = flash /\ ram' = ram
      /\ done' = done /\ again' = again /\ skipped' = skipped /\ muddled' = muddled /\ torn' = torn
  BY DEF SkipOut, Handling, record, answers
<1>2. Walking
  BY <1>1 DEF Walking
<1>3. /\ ram.conv \in People /\ Item \in Nat /\ Item = walk.next /\ walk.last \in Nat /\ ram.mark \in Nat /\ ram.mark < Item
      /\ ~Booting /\ walk \in WalkType /\ walk.next <= walk.last
  BY <1>1, <1>2, InHandFacts DEF IgTyped
<1>4. walk.next + 1 \in Nat /\ ram.mark < walk.next + 1 /\ walk.next + 1 <= walk.last + 1 /\ walk.next + 1 - 1 = Item
  BY <1>3
<1>5. walk' = [walk EXCEPT !.next = walk.next + 1]
  BY <1>1, <1>3 DEF WalkType
<1>6. /\ walk' \in WalkType /\ walk'.at = "handle" /\ walk'.next = walk.next + 1 /\ walk'.last = walk.last
      /\ walk'.page = walk.page /\ walk'.cursors = walk.cursors
  BY <1>1, <1>3, <1>4, <1>5 DEF WalkType
<1>7. ~Booting' /\ ~Handled' /\ Walking' /\ ~Handled /\ Mine' = Mine /\ Cursor' = Cursor
  BY <1>1, <1>6 DEF Booting, Handled, Walking, Mine, Cursor
<1>8. WalkInv'
  BY <1>1, <1>2, <1>4, <1>6, <1>7 DEF WalkInv
<1>9. AgentInv' /\ InAgent' = InAgent /\ OutTyped' /\ IgHeldInv' /\ AnswersInv'
  BY <1>1, <1>6, QuietStep DEF AnsweredFirst
<1>10. IgTyped'
  BY <1>1, <1>6 DEF IgTyped
<1>11. RepeatInv'
  BY <1>1, <1>3, <1>7, <1>10, RepeatKeeps DEF Passed, InHandDone, IgTyped
<1>12. LostInv'
  <2>1. ASSUME NEW i \in 1..Item PROVE Settled(ram.conv, i)
    <3>1. CASE i = Item
      <4>1. "out" \notin Incoming
        BY DEF Incoming, Turns
      <4> QED
        BY <1>1, <3>1, <4>1 DEF Settled, Mine
    <3>2. CASE i # Item
      <4>1. i \in 1..(walk.next - 1)
        BY <1>3, <3>2
      <4> QED
        BY <1>2, <4>1 DEF LostInv
    <3> QED
      BY <3>1, <3>2
  <2>2. walk'.next - 1 = Item
    <3>1. walk'.next = walk.next + 1 /\ Item = walk.next /\ Item \in Nat /\ \A a \in Nat : (a + 1) - 1 = a
      BY <1>3, <1>6
    <3> QED
      BY <3>1
  <2>3. \A i \in 1..(walk'.next - 1) : Settled(ram.conv, i)'
    BY <1>1, <2>1, <2>2 DEF Settled
  <2> QED
    BY <1>1, <2>3 DEF LostInv, MarkOf, Covered, Settled
<1>13. OwnersInv'
  BY <1>1, <1>3, <1>7 DEF OwnersInv
<1> QED
  BY <1>8, <1>9, <1>10, <1>11, <1>12, <1>13

LEMMA SkipDeletedStep ==
  ASSUME AgentInv, InstagramInv, SkipDeleted
  PROVE  AgentInv' /\ InAgent' = InAgent /\ InstagramInv'
<1> USE DEF InstagramInv
<1>1. /\ UNCHANGED agent /\ UNCHANGED outbound /\ UNCHANGED answers
      /\ walk.at = "handle" /\ walk.next <= walk.last /\ Mine[Item] = "deleted" /\ walk' = [walk EXCEPT !.at = "save"]
      /\ threads' = threads /\ owner' = owner /\ flash' = flash /\ ram' = ram
      /\ done' = Once(done, Here) /\ again' = again /\ skipped' = skipped /\ muddled' = muddled /\ torn' = torn
  BY DEF SkipDeleted, Handling, answers
<1>2. Walking
  BY <1>1 DEF Walking
<1>3. /\ ram.conv \in People /\ Item \in Items /\ Item = walk.next /\ ~Booting /\ walk \in WalkType /\ Here = <<ram.conv, Item>>
  BY <1>1, <1>2, InHandFacts DEF IgTyped
<1>4. /\ walk' \in WalkType /\ walk'.at = "save" /\ walk'.next = walk.next /\ walk'.last = walk.last
      /\ walk'.page = walk.page /\ walk'.cursors = walk.cursors
  BY <1>1, <1>3 DEF WalkType
<1>5. ~Booting' /\ Handled' /\ Walking' /\ ~Handled /\ Mine' = Mine /\ Cursor' = Cursor /\ Item' = Item
  BY <1>1, <1>4 DEF Booting, Handled, Walking, Mine, Cursor, Item
<1>6. "deleted" \in Incoming
  BY DEF Incoming
<1>7. WalkInv'
  BY <1>1, <1>2, <1>4, <1>5, <1>6 DEF WalkInv
<1>8. AgentInv' /\ InAgent' = InAgent /\ OutTyped' /\ IgHeldInv' /\ AnswersInv'
  BY <1>1, <1>4, <1>5, QuietStep DEF AnsweredFirst
<1>9. done' \in Counts /\ \A q \in People, j \in Items : done'[q][j] >= done[q][j]
  BY <1>1, <1>3, DoneGrows DEF IgTyped
<1>10. IgTyped'
  BY <1>1, <1>4, <1>9 DEF IgTyped
<1>11. \A i : Passed(i) => Passed(i)'
  BY <1>1, <1>3, <1>5 DEF Passed
<1>12. RepeatInv'
  BY <1>1, <1>2, <1>4, <1>5, <1>11, RepeatOnce
<1>13. LostInv'
  BY <1>1, <1>2, <1>4, <1>9, <1>10, LongerSame, LostStays DEF IgTyped
<1>14. OwnersInv'
  BY <1>1, <1>3, <1>5 DEF OwnersInv
<1> QED
  BY <1>7, <1>8, <1>10, <1>12, <1>13, <1>14

(* With the item in hand handled, all up to it is settled.                 *)
LEMMA SavedSettled ==
  ASSUME IgTyped, WalkInv, RepeatInv, LostInv, walk.at = "save", done' = done, skipped' = skipped, threads' = threads
  PROVE  \A i \in 1..Item : Settled(ram.conv, i) /\ threads'[ram.conv][i] = threads[ram.conv][i]
                            /\ (threads'[ram.conv][i] \in Incoming
                                  => done'[ram.conv][i] > 0 \/ <<ram.conv, i>> \in skipped')
<1> TAKE i \in 1..Item
<1>1. Walking /\ walk.next <= walk.last /\ Handled
  BY DEF Walking, WalkInv, Handled
<1>2. Item \in Nat /\ Item = walk.next
  BY <1>1, InHandFacts
<1>3. Settled(ram.conv, i)
  <2>1. CASE i = Item
    BY <1>1, <2>1 DEF RepeatInv, Settled
  <2>2. CASE i # Item
    <3>1. i \in 1..(walk.next - 1)
      BY <1>2, <2>2
    <3> QED
      BY <1>1, <3>1 DEF LostInv
  <2> QED
    BY <2>1, <2>2
<1> QED
  BY <1>3 DEF Settled

LEMMA SaveStep ==
  ASSUME AgentInv, InstagramInv, Save
  PROVE  AgentInv' /\ InAgent' = InAgent /\ InstagramInv'
<1> USE DEF InstagramInv
<1>1. /\ UNCHANGED agent /\ UNCHANGED outbound /\ UNCHANGED answers /\ walk.at = "save"
      /\ flash' = [Marked(flash, Item) EXCEPT !.ready = TRUE] /\ ram' = Marked(ram, Item)
      /\ walk' = [walk EXCEPT !.at = "handle", !.next = @ + 1]
      /\ threads' = threads /\ owner' = owner
      /\ done' = done /\ again' = again /\ skipped' = skipped /\ muddled' = muddled /\ torn' = torn
  BY DEF Save, record, answers
<1>2. Walking /\ walk.next <= walk.last
  BY <1>1 DEF Walking, WalkInv
<1>3. /\ ram.conv \in People /\ ram.conv # Nobody /\ Item \in Nat /\ Item = walk.next /\ walk.last \in Nat
      /\ ram.mark \in Nat /\ ram.mark < Item /\ Item \in 1..Len(Mine) /\ Item \in 0..MaxItems /\ Item \in Items
      /\ ~Booting /\ walk \in WalkType /\ walk.next <= walk.last /\ ram.ready /\ ram \in RamType /\ flash \in Flashes
      /\ Mine \in Seq(ItemKinds)
  BY <1>2, InHandFacts DEF IgTyped
<1>4. walk.next + 1 \in Nat /\ Item < walk.next + 1 /\ walk.next + 1 <= walk.last + 1 /\ walk.next + 1 - 1 = Item
  BY <1>3
<1>5. walk' = [walk EXCEPT !.at = "handle", !.next = walk.next + 1]
  BY <1>1, <1>3 DEF WalkType
<1>6. /\ walk' \in WalkType /\ walk'.at = "handle" /\ walk'.next = walk.next + 1 /\ walk'.last = walk.last
      /\ walk'.page = walk.page /\ walk'.cursors = walk.cursors
  BY <1>1, <1>3, <1>4, <1>5 DEF WalkType
<1>7. /\ ram' \in RamType /\ ram'.mark = Item /\ ram'.of = ram.conv /\ ram'.ready = ram.ready
      /\ ram'.who = ram.who /\ ram'.conv = ram.conv
  BY <1>1, <1>3, MarkedTyped
<1>8. /\ flash' \in Flashes /\ flash'.ready /\ flash'.mark = Item /\ flash'.of = ram.conv
      /\ flash'.who = flash.who /\ flash'.owner = flash.owner
  <2>1. PICK m \in Flashes : m = Marked(flash, Item)
    BY <1>3, MarkedTyped
  <2>2. m.mark = Item /\ m.of = ram.conv /\ m.who = flash.who /\ m.owner = flash.owner
    BY <1>3, <2>1, MarkedTyped
  <2>3. flash' = [m EXCEPT !.ready = TRUE]
    BY <1>1, <2>1
  <2> QED
    BY <2>2, <2>3, ReadyTyped
<1>9. ~Booting' /\ ~Handled' /\ Walking' /\ Mine' = Mine /\ Cursor' = Cursor
  BY <1>1, <1>6, <1>7 DEF Booting, Handled, Walking, Mine, Cursor
<1>10. WalkInv'
  <2>1. ram'.mark < walk'.next /\ walk'.next <= walk'.last + 1
    BY <1>4, <1>6, <1>7
  <2> QED
    BY <1>2, <1>3, <1>6, <1>7, <1>9, <2>1 DEF WalkInv
<1>11. AgentInv' /\ InAgent' = InAgent /\ OutTyped' /\ IgHeldInv' /\ AnswersInv'
  BY <1>1, <1>6, QuietStep DEF AnsweredFirst
<1>12. IgTyped'
  BY <1>1, <1>6, <1>7, <1>8 DEF IgTyped
<1>13. RepeatInv'
  <2>1. ASSUME NEW p \in People, NEW i \in Items, Passed(i) \/ InHandDone(p, i) PROVE Passed(i)'
    <3>1. i \in Nat /\ (i <= ram.mark \/ i = Item)
      BY <1>3, <2>1, Bounds DEF Passed, InHandDone
    <3>2. i <= Item
      BY <1>3, <3>1
    <3> QED
      BY <1>3, <1>7, <1>8, <3>2 DEF Passed
  <2> QED
    BY <1>1, <1>9, <1>12, <2>1, RepeatKeeps DEF IgTyped
<1>14. LostInv'
  <2>1. \A i \in 1..Item : threads'[ram.conv][i] \in Incoming => done'[ram.conv][i] > 0 \/ <<ram.conv, i>> \in skipped'
    BY <1>1, SavedSettled
  <2>2. Item \in DOMAIN threads[ram.conv]
    BY <1>3 DEF Mine
  <2>3. walk'.next - 1 = Item
    <3>1. walk'.next = walk.next + 1 /\ Item = walk.next /\ Item \in Nat /\ \A a \in Nat : (a + 1) - 1 = a
      BY <1>3, <1>6
    <3> QED
      BY <3>1
  <2> QED
    BY <1>1, <1>3, <1>7, <1>8, <2>1, <2>2, <2>3 DEF LostInv, MarkOf, Covered, Settled
<1>15. OwnersInv'
  BY <1>1, <1>3, <1>7, <1>8, <1>9 DEF OwnersInv
<1> QED
  BY <1>10, <1>11, <1>12, <1>13, <1>14, <1>15

LEMMA SaveFailsStep ==
  ASSUME AgentInv, InstagramInv, SaveFails
  PROVE  AgentInv' /\ InAgent' = InAgent /\ InstagramInv'
<1> USE DEF InstagramInv
<1>1. /\ UNCHANGED agent /\ UNCHANGED outbound /\ UNCHANGED answers /\ walk.at = "save"
      /\ flash' \in {flash, Marked(flash, Item), [Marked(flash, Item) EXCEPT !.ready = TRUE]}
      /\ walk' = Resting /\ again' = Once(again, Here)
      /\ threads' = threads /\ owner' = owner /\ ram' = ram
      /\ done' = done /\ skipped' = skipped /\ muddled' = muddled /\ torn' = torn
  BY DEF SaveFails, answers, GiveUp
<1>2. Walking /\ walk.next <= walk.last
  BY <1>1 DEF Walking, WalkInv
<1>3. /\ ram.conv \in People /\ ram.conv # Nobody /\ Item \in Nat /\ Item \in 1..Len(Mine) /\ Item \in 0..MaxItems
      /\ ram.mark \in Nat /\ ram.mark < Item /\ Mine \in Seq(ItemKinds)
      /\ ~Booting /\ flash \in Flashes
  BY <1>2, InHandFacts DEF IgTyped
<1>4. /\ flash' \in Flashes /\ flash'.who = flash.who /\ flash'.owner = flash.owner /\ (flash.ready => flash'.ready)
      /\ (flash'.mark = flash.mark /\ flash'.of = flash.of) \/ (flash'.mark = Item /\ flash'.of = ram.conv)
  <2>1. PICK m \in Flashes : m = Marked(flash, Item)
    BY <1>3, MarkedTyped
  <2>2. m.mark = Item /\ m.of = ram.conv /\ m.who = flash.who /\ m.owner = flash.owner /\ m.ready = flash.ready
    BY <1>3, <2>1, MarkedTyped
  <2>3. flash' \in {flash, m, [m EXCEPT !.ready = TRUE]}
    BY <1>1, <2>1
  <2>4. LET r == [m EXCEPT !.ready = TRUE] IN
          r \in Flashes /\ r.ready /\ r.mark = m.mark /\ r.of = m.of /\ r.who = m.who /\ r.owner = m.owner
    BY ReadyTyped
  <2> QED
    BY <1>3, <2>2, <2>3, <2>4
<1>5. WalkInv' /\ walk' \in WalkType /\ walk'.at = "poll" /\ ~Handled' /\ ~Walking' /\ AnsweredFirst'
  BY <1>1, RestStep DEF IgTyped, RamType, Resting
<1>6. AgentInv' /\ InAgent' = InAgent /\ OutTyped' /\ IgHeldInv' /\ AnswersInv'
  BY <1>1, <1>5, QuietStep
<1>7. ~Booting'
  BY <1>5 DEF Booting
<1>8. \A i \in Items : Passed(i) => Passed(i)'
  <2> SUFFICES ASSUME NEW i \in Items, Passed(i) PROVE Passed(i)'
    OBVIOUS
  <2>1. flash.ready /\ i <= flash.mark /\ ram.ready /\ i <= ram.mark /\ i \in Nat
    BY <1>3, Bounds DEF Passed
  <2>2. i <= Item
    BY <1>3, <2>1
  <2> QED
    BY <1>1, <1>4, <2>1, <2>2 DEF Passed
<1>9. RepeatInv' /\ again' \in Counts
  BY <1>1, <1>2, <1>5, <1>8, GivenUp
<1>10. IgTyped'
  BY <1>1, <1>4, <1>5, <1>9 DEF IgTyped
<1>11. LostInv'
  <2>1. \A i \in 1..Item : threads'[ram.conv][i] \in Incoming => done'[ram.conv][i] > 0 \/ <<ram.conv, i>> \in skipped'
    BY <1>1, SavedSettled
  <2>2. Item \in DOMAIN threads[ram.conv]
    BY <1>3 DEF Mine
  <2> QED
    BY <1>1, <1>3, <1>4, <1>5, <2>1, <2>2 DEF LostInv, MarkOf, Covered, Settled
<1>12. OwnersInv'
  BY <1>1, <1>3, <1>4, <1>7 DEF OwnersInv
<1> QED
  BY <1>5, <1>6, <1>9, <1>10, <1>11, <1>12

(***************************************************************************)
(* Instagram: what people do                                               *)
(***************************************************************************)
LEMMA GrowsBy ==
  ASSUME NEW t \in [People -> Seq(ItemKinds)], \A p \in People : Len(t[p]) <= MaxItems,
         NEW who, NEW kind \in ItemKinds, who \in People => Len(t[who]) < MaxItems,
         NEW u, u = [t EXCEPT ![who] = Append(@, kind)]
  PROVE  /\ u \in [People -> Seq(ItemKinds)] /\ \A p \in People : Len(u[p]) <= MaxItems
         /\ \A p \in People : Longer(t[p], u[p])
<1>1. ASSUME NEW s \in Seq(ItemKinds)
      PROVE  Append(s, kind) \in Seq(ItemKinds) /\ Len(Append(s, kind)) = Len(s) + 1 /\ Longer(s, Append(s, kind))
             /\ Len(s) \in Nat /\ Longer(s, s)
  <2>1. /\ Append(s, kind) \in Seq(ItemKinds) /\ Len(Append(s, kind)) = Len(s) + 1
        /\ \A i \in 1..Len(s) : Append(s, kind)[i] = s[i]
    BY AppendProperties
  <2>2. Len(s) \in Nat /\ Len(s) <= Len(s) + 1
    OBVIOUS
  <2> QED
    BY <2>1, <2>2 DEF Longer
<1>2. CASE who \in People
  <2>1. u[who] = Append(t[who], kind) /\ \A p \in People \ {who} : u[p] = t[p]
    BY <1>2
  <2>2. u \in [People -> Seq(ItemKinds)]
    BY <1>1, <1>2
  <2>3. Len(t[who]) + 1 <= MaxItems
    BY <1>1, <1>2, Bounds
  <2>4. \A p \in People : Len(u[p]) <= MaxItems
    BY <1>1, <1>2, <2>1, <2>3
  <2>5. \A p \in People : Longer(t[p], u[p])
    BY <1>1, <1>2, <2>1
  <2> QED
    BY <2>2, <2>4, <2>5
<1>3. CASE who \notin People
  <2>1. u = t
    BY <1>3
  <2> QED
    BY <1>1, <2>1
<1> QED
  BY <1>2, <1>3

(* Threads grow, and nothing else of the channel changes but the texts.    *)
LEMMA GrowStep ==
  ASSUME InstagramInv, AgentInv, UNCHANGED agent,
         threads' \in [People -> Seq(ItemKinds)], \A p \in People : Len(threads'[p]) <= MaxItems,
         \A p \in People : Longer(threads[p], threads'[p]), owner' \in People,
         UNCHANGED <<flash, ram, walk, done, again, skipped, torn, muddled>>,
         saying'.by = "poller" <=> saying.by = "poller"
  PROVE  /\ AgentInv' /\ InAgent' = InAgent
         /\ IgTyped' /\ WalkInv' /\ IgHeldInv' /\ RepeatInv' /\ LostInv' /\ OwnersInv'
         /\ Walking /\ walk.next <= walk.last => (Mine[Item])' = Mine[Item]
<1> USE DEF InstagramInv
<1>1. queue' = queue /\ running' = running /\ notified' = notified /\ notified' \in [Channels -> 0..2]
  BY DEF agent, AgentInv, AgentTypes
<1>2. AgentInv' /\ InAgent' = InAgent
  BY <1>1, AgentStays
<1>3. IgTyped'
  BY DEF IgTyped
<1>4. WalkInv' /\ (Walking /\ walk.next <= walk.last => (Mine[Item])' = Mine[Item])
  BY <1>3, WalkStays
<1>5. IgHeldInv'
  BY <1>1, <1>2, HeldStays
<1>6. RepeatInv'
  BY <1>1, <1>4, RepeatStays
<1>7. LostInv'
  <2>1. \A p \in People, i \in Items : done'[p][i] >= done[p][i]
    BY DEF IgTyped, Counts
  <2>2. Walking' => Walking
    BY DEF Walking
  <2> QED
    BY <1>3, <2>1, <2>2, LostStays
<1>8. OwnersInv'
  BY DEF OwnersInv, Booting
<1> QED
  BY <1>2, <1>3, <1>4, <1>5, <1>6, <1>7, <1>8

LEMMA WorldStep ==
  ASSUME AgentInv, InstagramInv, SetOwner \/ \E p \in People, kind \in Incoming : Arrive(p, kind)
  PROVE  AgentInv' /\ InAgent' = InAgent /\ InstagramInv'
<1> USE DEF InstagramInv
<1>1. /\ UNCHANGED agent /\ UNCHANGED outbound /\ UNCHANGED <<older, owed>>
      /\ UNCHANGED <<flash, ram, walk, done, again, skipped, torn, muddled>> /\ saying' = saying
      /\ UNCHANGED <<out, pending, sender, saying, idle, refused, older, owed, muddled>>
  BY DEF SetOwner, Arrive, record, answers, outbound
<1>2. /\ threads' \in [People -> Seq(ItemKinds)] /\ \A p \in People : Len(threads'[p]) <= MaxItems
      /\ owner' \in People /\ \A p \in People : Longer(threads[p], threads'[p])
  <2>1. CASE SetOwner
    BY <2>1, LongerSame DEF SetOwner, IgTyped
  <2>2. ASSUME NEW p \in People, NEW kind \in Incoming, Arrive(p, kind)
        PROVE  /\ threads' \in [People -> Seq(ItemKinds)] /\ \A q \in People : Len(threads'[q]) <= MaxItems
               /\ owner' \in People /\ \A q \in People : Longer(threads[q], threads'[q])
    <3>1. kind \in ItemKinds /\ threads' = [threads EXCEPT ![p] = Append(@, kind)] /\ owner' = owner /\ Len(threads[p]) < MaxItems
      BY <2>2 DEF Arrive, ItemKinds
    <3> QED
      BY <3>1, GrowsBy DEF IgTyped
  <2> QED
    BY <2>1, <2>2
<1>3. /\ AgentInv' /\ InAgent' = InAgent
      /\ IgTyped' /\ WalkInv' /\ IgHeldInv' /\ RepeatInv' /\ LostInv' /\ OwnersInv'
      /\ Walking /\ walk.next <= walk.last => (Mine[Item])' = Mine[Item]
  <2>1. saying'.by = "poller" <=> saying.by = "poller"
    BY <1>1
  <2>2. UNCHANGED <<flash, ram, walk, done, again, skipped, torn, muddled>> /\ UNCHANGED agent
    BY <1>1
  <2> QED
    BY <1>2, <2>1, <2>2, GrowStep
<1>4. AnsweredFirst'
  <2>1. walk.at = "save" => Walking /\ walk.next <= walk.last
    BY DEF Walking, WalkInv
  <2> QED
    BY <1>1, <1>3, <2>1 DEF AnsweredFirst, AnswersInv
<1>5. TurnOf("instagram")' = TurnOf("instagram")
  BY <1>1 DEF TurnOf, agent
<1>6. AnswersInv' /\ OutTyped'
  BY <1>1, <1>4, <1>5, AnswersStay, OutStays
<1> QED
  BY <1>3, <1>6

(***************************************************************************)
(* Instagram: the texts, and whose turn sends them                         *)
(***************************************************************************)
LEMMA TurnOfFacts ==
  ASSUME AgentInv, NEW who, TurnOf(who)
  PROVE  running # <<>> /\ running[1] \in InAgent /\ running[1] \in Messages /\ running[1].from = who
<1>1. running \in Seq(Messages) /\ running # <<>> /\ running[1].from = who
  BY DEF AgentInv, AgentTypes, TurnOf
<1>2. Len(running) # 0 /\ Len(running) \in Nat
  BY <1>1, EmptySeq
<1>3. \A n \in Nat : n # 0 => 1 \in 1..n
  OBVIOUS
<1>4. 1 \in 1..Len(running)
  BY <1>2, <1>3
<1>5. running[1] \in Messages
  BY <1>1, <1>4, ElementOfSeq
<1> QED
  BY <1>1, <1>4, <1>5 DEF InAgent

LEMMA TurnOverIg ==
  ASSUME AgentInv, IgHeldInv, TurnOf("instagram")
  PROVE  /\ walk.at = "wait" /\ running[1].n = Item /\ running[1].waits /\ notified["instagram"] = 0
         /\ running[1].from = "instagram" /\ running[1] \in InAgent /\ running[1] \in Messages
BY TurnOfFacts DEF IgHeldInv, OverIg

LEMMA UnderWayFacts ==
  ASSUME OutTyped
  PROVE  /\ out \in Nat /\ UnderWay \in Nat /\ pending \in Nat /\ older \in Nat /\ owed \in Nat
         /\ saying = Silent => UnderWay = out
         /\ saying # Silent => UnderWay = out + 1
         /\ saying.at # "no" => saying # Silent
<1>1. out \in Nat
  BY Bounds DEF OutTyped
<1>2. Silent.at = "no"
  BY DEF Silent
<1> QED
  BY <1>1, <1>2 DEF OutTyped, UnderWay

LEMMA TalkStep ==
  ASSUME InstagramInv, UNCHANGED <<owner, flash, ram, walk, done, again, skipped, torn>>, muddled' \in BOOLEAN,
         threads' \in [People -> Seq(ItemKinds)], \A p \in People : Len(threads'[p]) <= MaxItems,
         \A p \in People : Longer(threads[p], threads'[p]),
         notified'["instagram"] = notified["instagram"], \A m \in InAgent' : OverIg(m) => m \in InAgent,
         saying'.by = "poller" <=> saying.by = "poller"
  PROVE  /\ IgTyped' /\ WalkInv' /\ IgHeldInv' /\ RepeatInv' /\ LostInv' /\ OwnersInv'
         /\ (walk.at = "save" /\ Mine[Item] # "deleted" => owed' = 0 \/ muddled') => AnsweredFirst'
<1> USE DEF InstagramInv
<1>1. IgTyped'
  BY DEF IgTyped
<1>2. WalkInv' /\ (Walking /\ walk.next <= walk.last => (Mine[Item])' = Mine[Item])
  BY <1>1, WalkStays
<1>3. IgHeldInv'
  BY HeldStays
<1>4. RepeatInv'
  BY <1>2, RepeatStays
<1>5. LostInv'
  <2>1. \A p \in People, i \in Items : done'[p][i] >= done[p][i]
    BY DEF IgTyped, Counts
  <2>2. Walking' => Walking
    BY DEF Walking
  <2> QED
    BY <1>1, <2>1, <2>2, LostStays
<1>6. OwnersInv'
  BY DEF OwnersInv, Booting
<1>7. (walk.at = "save" /\ Mine[Item] # "deleted" => owed' = 0 \/ muddled') => AnsweredFirst'
  <2>1. walk.at = "save" => Walking /\ walk.next <= walk.last
    BY DEF Walking, WalkInv
  <2> QED
    BY <1>2, <2>1 DEF AnsweredFirst
<1> QED
  BY <1>1, <1>2, <1>3, <1>4, <1>5, <1>6, <1>7

(* The threads are as they were.                                           *)
LEMMA ThreadsSame ==
  ASSUME IgTyped, threads' = threads
  PROVE  /\ threads' \in [People -> Seq(ItemKinds)] /\ \A p \in People : Len(threads'[p]) <= MaxItems
         /\ \A p \in People : Longer(threads[p], threads'[p])
BY LongerSame DEF IgTyped

LEMMA AgentAlone ==
  ASSUME AgentInv, UNCHANGED agent
  PROVE  /\ AgentInv' /\ InAgent' = InAgent /\ notified' = notified /\ \A who : TurnOf(who)' = TurnOf(who)
<1>1. queue' = queue /\ running' = running /\ notified' = notified /\ notified' \in [Channels -> 0..2]
  BY DEF agent, AgentInv, AgentTypes
<1> QED
  BY <1>1, AgentStays DEF TurnOf

LEMMA ClearIdleStep ==
  ASSUME AgentInv, InstagramInv, ClearIdle
  PROVE  AgentInv' /\ InAgent' = InAgent /\ InstagramInv'
<1> USE DEF InstagramInv
<1>1. /\ UNCHANGED agent /\ UNCHANGED <<owner, flash, ram, walk, done, again, skipped, torn>>
      /\ threads' = threads /\ muddled' = muddled /\ older' = older /\ owed' = owed
      /\ out' = out /\ sender' = sender /\ pending' = pending /\ refused' = refused /\ said' = said
      /\ saying.at = "clear" /\ idle' = FALSE /\ saying' = [saying EXCEPT !.at = "queue"]
  BY DEF ClearIdle, record, answers
<1>2. AgentInv' /\ InAgent' = InAgent /\ notified' = notified
  BY <1>1, AgentAlone
<1>3. saying \in [by : {Nobody, "poller", "agent"}, at : {"no", "clear", "queue"}]
  BY DEF OutTyped
<1>4. /\ saying' \in [by : {Nobody, "poller", "agent"}, at : {"no", "clear", "queue"}]
      /\ saying'.at = "queue" /\ saying'.by = saying.by
  BY <1>1, <1>3
<1>5. OutTyped'
  BY <1>1, <1>4 DEF OutTyped
<1>6. UnderWay' = UnderWay
  <2>1. saying # Silent /\ saying' # Silent
    BY <1>1, <1>4 DEF Silent
  <2> QED
    BY <1>1, <2>1 DEF UnderWay
<1>7. muddled' \in BOOLEAN
  BY <1>1 DEF IgTyped
<1>8. /\ IgTyped' /\ WalkInv' /\ IgHeldInv' /\ RepeatInv' /\ LostInv' /\ OwnersInv'
      /\ (walk.at = "save" /\ Mine[Item] # "deleted" => owed' = 0 \/ muddled') => AnsweredFirst'
  BY <1>1, <1>2, <1>4, <1>7, TalkStep, ThreadsSame
<1>9. AnsweredFirst'
  BY <1>1, <1>8 DEF AnswersInv, AnsweredFirst
<1>10. AnswersInv'
  BY <1>1, <1>6, <1>9 DEF AnswersInv
<1> QED
  BY <1>2, <1>5, <1>8, <1>10

LEMMA PendingCompleteStep ==
  ASSUME AgentInv, InstagramInv, PendingComplete
  PROVE  AgentInv' /\ InAgent' = InAgent /\ InstagramInv'
<1> USE DEF InstagramInv
<1>1. /\ UNCHANGED agent /\ UNCHANGED <<owner, flash, ram, walk, done, again, skipped, torn>>
      /\ threads' = threads /\ muddled' = muddled /\ older' = older /\ owed' = owed
      /\ out' = out /\ idle' = idle /\ refused' = refused /\ said' = said /\ saying' = saying
      /\ sender = "count" /\ pending' = pending - 1 /\ sender' = (IF pending = 1 THEN "idle" ELSE "free")
  BY DEF PendingComplete, record, answers
<1>2. AgentInv' /\ InAgent' = InAgent /\ notified' = notified /\ TurnOf("instagram")' = TurnOf("instagram")
  BY <1>1, AgentAlone
<1>3. UnderWay \in Nat /\ pending \in Nat /\ pending = UnderWay + 1 /\ UnderWay' = UnderWay
  BY <1>1, UnderWayFacts DEF AnswersInv, UnderWay
<1>4. pending - 1 = UnderWay
  BY <1>3
<1>5. pending' = UnderWay /\ sender' # "count"
  BY <1>1, <1>4
<1>6. OutTyped'
  BY <1>1, <1>3, <1>5 DEF OutTyped
<1>7. muddled' \in BOOLEAN /\ (saying'.by = "poller" <=> saying.by = "poller")
  BY <1>1 DEF IgTyped
<1>8. /\ IgTyped' /\ WalkInv' /\ IgHeldInv' /\ RepeatInv' /\ LostInv' /\ OwnersInv'
      /\ (walk.at = "save" /\ Mine[Item] # "deleted" => owed' = 0 \/ muddled') => AnsweredFirst'
  BY <1>1, <1>2, <1>7, TalkStep, ThreadsSame
<1>9. AnsweredFirst'
  BY <1>1, <1>8 DEF AnswersInv, AnsweredFirst
<1>10. AnswersInv'
  <2>1. pending' = UnderWay' + (IF sender' = "count" THEN 1 ELSE 0)
    BY <1>3, <1>5
  <2>2. pending > 0 /\ Speaks' = Speaks
    BY <1>1, <1>2, <1>3 DEF Speaks
  <2> QED
    BY <1>1, <1>3, <1>9, <2>1, <2>2 DEF AnswersInv
<1> QED
  BY <1>2, <1>6, <1>8, <1>10

LEMMA SetIdleStep ==
  ASSUME AgentInv, InstagramInv, SetIdle
  PROVE  AgentInv' /\ InAgent' = InAgent /\ InstagramInv'
<1> USE DEF InstagramInv
<1>1. /\ UNCHANGED agent /\ UNCHANGED <<owner, flash, ram, walk, done, again, skipped, torn>>
      /\ threads' = threads /\ older' = older /\ owed' = owed
      /\ out' = out /\ pending' = pending /\ refused' = refused /\ said' = said /\ saying' = saying
      /\ sender = "idle" /\ idle' = TRUE /\ sender' = "free" /\ muddled' = (muddled \/ pending > 0)
  BY DEF SetIdle
<1>2. AgentInv' /\ InAgent' = InAgent /\ notified' = notified /\ TurnOf("instagram")' = TurnOf("instagram")
  BY <1>1, AgentAlone
<1>3. UnderWay \in Nat /\ pending \in Nat /\ UnderWay' = UnderWay
  BY <1>1, UnderWayFacts DEF UnderWay
<1>4. OutTyped'
  BY <1>1 DEF OutTyped
<1>5. muddled' \in BOOLEAN /\ (muddled => muddled') /\ (saying'.by = "poller" <=> saying.by = "poller")
  BY <1>1
<1>6. /\ IgTyped' /\ WalkInv' /\ IgHeldInv' /\ RepeatInv' /\ LostInv' /\ OwnersInv'
      /\ (walk.at = "save" /\ Mine[Item] # "deleted" => owed' = 0 \/ muddled') => AnsweredFirst'
  BY <1>1, <1>2, <1>5, TalkStep, ThreadsSame
<1>7. AnsweredFirst'
  BY <1>1, <1>5, <1>6 DEF AnswersInv, AnsweredFirst
<1>8. AnswersInv'
  <2>1. pending' = UnderWay' + (IF sender' = "count" THEN 1 ELSE 0)
    BY <1>1, <1>3 DEF AnswersInv
  <2>2. pending' > 0 => muddled'
    BY <1>1
  <2> QED
    BY <1>1, <1>3, <1>5, <1>7, <2>1, <2>2 DEF AnswersInv
<1> QED
  BY <1>2, <1>4, <1>6, <1>8

LEMMA TurnSaysStep ==
  ASSUME AgentInv, InstagramInv, TurnSays
  PROVE  AgentInv' /\ InAgent' = InAgent /\ InstagramInv'
<1> USE DEF InstagramInv
<1>1. /\ UNCHANGED agent /\ UNCHANGED <<owner, flash, ram, walk, done, again, skipped, torn>>
      /\ threads' = threads /\ older' = older /\ owed' = owed + 1
      /\ out' = out /\ sender' = sender /\ idle' = idle /\ said' = said + 1
      /\ saying = Silent /\ saying' = [by |-> "agent", at |-> IF pending = 0 THEN "clear" ELSE "queue"]
      /\ pending' = pending + 1 /\ refused' = (IF pending = 0 THEN FALSE ELSE refused)
      /\ muddled' = (muddled \/ TurnOf("jobs") \/ (pending = 0 /\ refused /\ owed > 0))
      /\ TurnOf("instagram") \/ TurnOf("jobs")
  BY DEF TurnSays, PendingAdd
<1>2. AgentInv' /\ InAgent' = InAgent /\ notified' = notified /\ TurnOf("instagram")' = TurnOf("instagram")
  BY <1>1, AgentAlone
<1>3. /\ UnderWay \in Nat /\ UnderWay = out /\ pending \in Nat /\ owed \in Nat /\ older \in Nat /\ out \in Nat
      /\ said \in Nat
  BY <1>1, UnderWayFacts DEF OutTyped
<1>4. /\ saying' \in [by : {Nobody, "poller", "agent"}, at : {"no", "clear", "queue"}]
      /\ saying'.at # "no" /\ saying' # Silent /\ saying'.by = "agent"
  BY <1>1 DEF Silent
<1>5. UnderWay' = UnderWay + 1
  <2>1. UnderWay' = out' + (IF saying' = Silent THEN 0 ELSE 1)
    BY DEF UnderWay
  <2>2. UnderWay' = out + 1
    BY <1>1, <1>4, <2>1
  <2> QED
    BY <1>3, <2>2
<1>6. OutTyped'
  <2>1. pending + 1 \in Nat /\ said + 1 \in Nat /\ owed + 1 \in Nat
    BY <1>3
  <2>2. refused' \in BOOLEAN
    BY <1>1 DEF OutTyped
  <2> QED
    BY <1>1, <1>4, <2>1, <2>2 DEF OutTyped
<1>7. muddled' \in BOOLEAN /\ (muddled => muddled') /\ (saying'.by = "poller" <=> saying.by = "poller")
  BY <1>1, <1>4 DEF Silent, Nobody
<1>8. /\ IgTyped' /\ WalkInv' /\ IgHeldInv' /\ RepeatInv' /\ LostInv' /\ OwnersInv'
      /\ (walk.at = "save" /\ Mine[Item] # "deleted" => owed' = 0 \/ muddled') => AnsweredFirst'
  BY <1>1, <1>2, <1>7, TalkStep, ThreadsSame
<1>9. TurnOf("instagram") => walk.at = "wait"
  BY TurnOverIg
<1>10. AnsweredFirst'
  <2>1. walk.at = "save" => muddled'
    BY <1>1, <1>9
  <2> QED
    BY <1>8, <2>1
<1>11. AnswersInv'
  <2>1. pending' = UnderWay' + (IF sender' = "count" THEN 1 ELSE 0)
    BY <1>1, <1>3, <1>5 DEF AnswersInv
  <2>2. ASSUME idle, ~muddled' PROVE Speaks'
    <3>1. TurnOf("instagram") /\ ~muddled
      BY <1>1, <2>2
    <3>2. ~Speaks
      BY <1>1 DEF Speaks, Silent
    <3>3. ~(pending > 0)
      BY <2>2, <3>1, <3>2 DEF AnswersInv
    <3>4. pending = 0
      BY <1>3, <3>3
    <3> QED
      BY <1>1, <1>2, <3>1, <3>4 DEF Speaks
  <2>3. older <= UnderWay /\ owed >= UnderWay - older
    BY DEF AnswersInv
  <2>4. older <= UnderWay + 1 /\ owed + 1 >= UnderWay + 1 - older
    BY <1>3, <2>3
  <2>5. ASSUME owed + 1 > UnderWay + 1 - older, ~muddled' PROVE refused'
    <3>1. owed > UnderWay - older /\ owed > 0
      BY <1>3, <2>3, <2>5
    <3>2. refused /\ ~muddled
      BY <1>7, <2>5, <3>1 DEF AnswersInv
    <3>3. pending # 0
      BY <1>1, <2>5, <3>1, <3>2
    <3> QED
      BY <1>1, <3>2, <3>3
  <2> DEFINE under == UnderWay + 1
             owing == owed + 1
  <2>6. older' <= under /\ owing >= under - older' /\ (owing > under - older' /\ ~muddled' => refused')
    <3>1. older <= under /\ owing >= under - older
      BY <1>3, <2>4
    <3>2. owing > under - older /\ ~muddled' => refused'
      BY <1>3, <2>5
    <3>3. older' = older
      BY <1>1
    <3> HIDE DEF under, owing
    <3> QED
      BY <3>1, <3>2, <3>3
  <2>7. UnderWay' = under /\ owed' = owing
    BY <1>1, <1>5
  <2> HIDE DEF under, owing
  <2> QED
    BY <1>1, <1>10, <2>1, <2>2, <2>6, <2>7 DEF AnswersInv
<1> QED
  BY <1>2, <1>6, <1>8, <1>11

(* The sender is done with the oldest text under way.                      *)
LEMMA SentStep ==
  ASSUME AgentInv, InstagramInv, Accepted \/ Refused
  PROVE  AgentInv' /\ InAgent' = InAgent /\ InstagramInv'
<1> USE DEF InstagramInv
<1>1. /\ UNCHANGED agent /\ UNCHANGED <<owner, flash, ram, walk, done, again, skipped, torn>>
      /\ muddled' = muddled /\ idle' = idle /\ said' = said /\ saying' = saying /\ pending' = pending
      /\ sender = "free" /\ out > 0 /\ sender' = "count" /\ out' = out - 1
      /\ older' = (IF older > 0 THEN older - 1 ELSE 0)
      /\ \/ owed' = (IF older = 0 /\ owed > 0 THEN owed - 1 ELSE owed) /\ refused' = refused
         \/ owed' = (IF older = 0 /\ owed > 0 THEN owed - 0 ELSE owed) /\ refused' = TRUE
  BY DEF Accepted, Refused, Outlived
<1>2. /\ threads' \in [People -> Seq(ItemKinds)] /\ \A p \in People : Len(threads'[p]) <= MaxItems
      /\ \A p \in People : Longer(threads[p], threads'[p])
  <2>1. CASE Accepted
    <3>1. /\ threads' = [threads EXCEPT ![ram.conv] = Append(@, "out")] /\ Len(threads[ram.conv]) < MaxItems
          /\ "out" \in ItemKinds
      BY <2>1 DEF Accepted, ItemKinds
    <3> QED
      BY <3>1, GrowsBy DEF IgTyped
  <2>2. CASE Refused
    <3>1. threads' = threads
      BY <2>2 DEF Refused
    <3> QED
      BY <3>1, ThreadsSame
  <2> QED
    BY <2>1, <2>2
<1>3. AgentInv' /\ InAgent' = InAgent /\ notified' = notified /\ TurnOf("instagram")' = TurnOf("instagram")
  BY <1>1, AgentAlone
<1>4. /\ UnderWay \in Nat /\ pending \in Nat /\ owed \in Nat /\ older \in Nat /\ out \in Nat
      /\ saying = Silent => UnderWay = out
      /\ saying # Silent => UnderWay = out + 1
  BY UnderWayFacts
<1>5. out - 1 \in Nat /\ out - 1 \in 0..(OutLength + 1)
  BY <1>1, <1>4, Bounds DEF OutTyped
<1>6. UnderWay' = UnderWay - 1 /\ UnderWay > 0
  <2>1. UnderWay' = (out - 1) + (IF saying = Silent THEN 0 ELSE 1)
    BY <1>1 DEF UnderWay
  <2> QED
    BY <1>1, <1>4, <2>1
<1>7. owed' \in Nat /\ older' \in Nat /\ (owed = 0 => owed' = 0)
  <2>1. owed' \in {owed, owed - 1, owed - 0} /\ (owed = 0 => owed' = owed)
    BY <1>1, <1>4
  <2>2. owed > 0 \/ owed = 0
    BY <1>4
  <2>3. older' \in Nat
    BY <1>1, <1>4
  <2>4. owed' \in Nat
    BY <1>1, <1>4
  <2> QED
    BY <2>1, <2>3, <2>4
<1>8. OutTyped'
  BY <1>1, <1>5, <1>7 DEF OutTyped
<1>9. muddled' \in BOOLEAN /\ (saying'.by = "poller" <=> saying.by = "poller")
  BY <1>1 DEF IgTyped
<1>10. /\ IgTyped' /\ WalkInv' /\ IgHeldInv' /\ RepeatInv' /\ LostInv' /\ OwnersInv'
       /\ (walk.at = "save" /\ Mine[Item] # "deleted" => owed' = 0 \/ muddled') => AnsweredFirst'
  BY <1>1, <1>2, <1>3, <1>9, TalkStep
<1>11. AnsweredFirst'
  BY <1>1, <1>7, <1>10 DEF AnswersInv, AnsweredFirst
<1>12. AnswersInv'
  <2>1. pending' = UnderWay' + (IF sender' = "count" THEN 1 ELSE 0)
    <3>1. pending = UnderWay + 0
      BY <1>1 DEF AnswersInv
    <3>2. UnderWay - 1 + 1 = UnderWay + 0
      BY <1>4
    <3> QED
      BY <1>1, <1>6, <3>1, <3>2
  <2>2. Speaks' = Speaks
    BY <1>1, <1>3 DEF Speaks
  <2>3. older <= UnderWay /\ owed >= UnderWay - older /\ (owed > UnderWay - older /\ ~muddled => refused)
    BY DEF AnswersInv
  <2> DEFINE under == UnderWay - 1
  <2>4. /\ older' <= under /\ owed' >= under - older'
        /\ owed' > under - older' /\ ~muddled => refused'
    <3>1. CASE older > 0
      <4>1. older' = older - 1 /\ owed' = owed /\ (refused => refused')
        BY <1>1, <1>4, <3>1
      <4>2. older - 1 <= UnderWay - 1 /\ (UnderWay - 1) - (older - 1) = UnderWay - older
        BY <1>4, <2>3
      <4> QED
        BY <2>3, <4>1, <4>2
    <3>2. CASE older = 0
      <4>1. older' = 0 /\ owed > 0 /\ owed >= UnderWay /\ 0 <= UnderWay - 1 /\ under - 0 = UnderWay - 1
        BY <1>1, <1>4, <1>6, <2>3, <3>2
      <4>2. CASE owed' = owed - 1 /\ refused' = refused
        <5>1. owed - 1 >= UnderWay - 1 /\ (owed - 1 > UnderWay - 1 => owed > UnderWay - older)
          BY <1>4, <3>2, <4>1
        <5> QED
          BY <2>3, <4>1, <4>2, <5>1
      <4>3. CASE owed' = owed - 0 /\ refused' = TRUE
        <5>1. owed - 0 >= UnderWay - 1
          BY <1>4, <4>1
        <5> QED
          BY <4>1, <4>3, <5>1
      <4> QED
        BY <1>1, <3>2, <4>1, <4>2, <4>3
    <3> QED
      BY <1>4, <3>1, <3>2
  <2>5. idle' /\ pending' > 0 /\ ~muddled' => Speaks'
    BY <1>1, <2>2 DEF AnswersInv
  <2> QED
    BY <1>1, <1>6, <1>11, <2>1, <2>4, <2>5 DEF AnswersInv
<1> QED
  BY <1>3, <1>8, <1>10, <1>12

(* A turn of a job that writes to this chat.                               *)
LEMMA JobStep ==
  ASSUME AgentInv, InstagramInv, "jobs" \in Channels, JobSubmitted \/ JobTurnEnds
  PROVE  /\ AgentInv' /\ InstagramInv' /\ \A m : Given(m) => (m \in InAgent' <=> m \in InAgent)
         /\ notified'["telegram"] = notified["telegram"]
<1> USE DEF InstagramInv
<1> DEFINE job == [from |-> "jobs", n |-> 0, kind |-> "text", waits |-> FALSE, picture |-> ""]
<1>1. /\ UNCHANGED <<owner, flash, ram, walk, done, again, skipped, torn>>
      /\ threads' = threads /\ muddled' = muddled /\ older' = older /\ owed' = owed
      /\ out' = out /\ idle' = idle /\ refused' = refused /\ saying' = saying /\ pending' = pending /\ sender' = sender
      /\ said' \in {said, 0}
  BY DEF JobSubmitted, JobTurnEnds, record, answers, outbound
<1>2. /\ AgentInv' /\ notified'["instagram"] = notified["instagram"] /\ notified'["telegram"] = notified["telegram"]
      /\ \A m : Given(m) \/ OverIg(m) => (m \in InAgent' <=> m \in InAgent)
      /\ TurnOf("instagram") => TurnOf("instagram")'
  <2>1. CASE JobSubmitted
    <3>1. Submit(job) /\ running' = running /\ notified' = notified
      BY <2>1 DEF JobSubmitted
    <3>2. job \in Messages /\ ~Lined(job) /\ \A h \in InAgent : ~Same(job, h)
      BY DEF Messages, Kinds, Looks, Lined, Channel, Same
    <3>3. notified' \in [Channels -> 0..2]
      BY <3>1 DEF AgentInv, AgentTypes
    <3>4. job.from = "jobs"
      OBVIOUS
    <3> HIDE DEF job
    <3>5. AgentInv' /\ InAgent' = InAgent \cup {job}
      BY <3>1, <3>2, <3>3, SubmitStep
    <3> QED
      BY <3>1, <3>4, <3>5 DEF Given, OverIg, Channel, TurnOf
  <2>2. CASE JobTurnEnds
    <3>1. TurnEnds(TRUE) /\ TurnOf("jobs")
      BY <2>2 DEF JobTurnEnds
    <3>2. /\ AgentInv' /\ InAgent = InAgent' \cup {running[1]} /\ running[1] \in Messages
          /\ notified' = IF running[1].waits
                         THEN [notified EXCEPT ![running[1].from] = IF TRUE THEN 1 ELSE 2]
                         ELSE notified
      BY <3>1, EndStep
    <3>3. running[1].from = "jobs"
      BY <3>1 DEF TurnOf
    <3>4. notified'["instagram"] = notified["instagram"] /\ notified'["telegram"] = notified["telegram"]
      BY <3>2, <3>3 DEF AgentInv, AgentTypes
    <3> QED
      BY <3>2, <3>3, <3>4 DEF Given, OverIg, Channel, TurnOf
  <2> QED
    BY <2>1, <2>2
<1>3. OutTyped'
  BY <1>1 DEF OutTyped
<1>4. muddled' \in BOOLEAN /\ (saying'.by = "poller" <=> saying.by = "poller")
  BY <1>1 DEF IgTyped
<1>5. \A m \in InAgent' : OverIg(m) => m \in InAgent
  BY <1>2
<1>6. /\ IgTyped' /\ WalkInv' /\ IgHeldInv' /\ RepeatInv' /\ LostInv' /\ OwnersInv'
      /\ (walk.at = "save" /\ Mine[Item] # "deleted" => owed' = 0 \/ muddled') => AnsweredFirst'
  BY <1>1, <1>2, <1>4, <1>5, TalkStep, ThreadsSame
<1>7. AnsweredFirst'
  BY <1>1, <1>6 DEF AnswersInv, AnsweredFirst
<1>8. AnswersInv'
  BY <1>1, <1>2, <1>7, AnswersStay
<1> QED
  BY <1>2, <1>3, <1>6, <1>8

(***************************************************************************)
(* Instagram: the turn of the item in hand, and the answer of the poller   *)
(***************************************************************************)
LEMMA MoveStep ==
  ASSUME IgTyped, WalkInv, LostInv, OwnersInv, Walking, walk.next <= walk.last,
         NEW at \in {"wait", "say", "flush", "save"}, walk' = [walk EXCEPT !.at = at],
         Mine[Item] \in Incoming,
         at = "wait" => Mine[Item] \in Turns, at = "say" => Mine[Item] = "odd",
         at = "flush" => Mine[Item] \in Turns \cup {"odd"},
         UNCHANGED <<threads, owner, flash, ram, again, skipped, torn>>, muddled' \in BOOLEAN, done' \in Counts,
         \A p \in People, i \in Items : done'[p][i] >= done[p][i]
  PROVE  /\ IgTyped' /\ WalkInv' /\ LostInv' /\ OwnersInv'
         /\ walk'.at = at /\ walk'.next = walk.next /\ walk'.last = walk.last
         /\ Walking' /\ ~Booting' /\ (Mine[Item])' = Mine[Item] /\ Item' = Item
         /\ (\A i : Passed(i) => Passed(i)')
<1>1. /\ threads' = threads /\ owner' = owner /\ flash' = flash /\ ram' = ram /\ again' = again
      /\ skipped' = skipped /\ torn' = torn
  OBVIOUS
<1>2. ~Booting /\ walk \in WalkType /\ ram.conv \in People
  BY InHandFacts DEF IgTyped
<1>3. /\ walk' \in WalkType /\ walk'.at = at /\ walk'.next = walk.next /\ walk'.last = walk.last
      /\ walk'.page = walk.page /\ walk'.cursors = walk.cursors
  BY <1>2 DEF WalkType
<1>4. ~Booting' /\ Walking' /\ Mine' = Mine /\ Cursor' = Cursor /\ Item' = Item
  BY <1>1, <1>3 DEF Booting, Walking, Mine, Cursor, Item
<1>5. WalkInv'
  BY <1>1, <1>3, <1>4 DEF WalkInv
<1>6. IgTyped'
  BY <1>1, <1>3 DEF IgTyped
<1>7. LostInv'
  BY <1>1, <1>3, <1>6, LongerSame, LostStays DEF IgTyped
<1>8. OwnersInv'
  BY <1>1, <1>2, <1>4 DEF OwnersInv
<1>9. \A i : Passed(i) => Passed(i)'
  BY <1>1, <1>2, <1>4 DEF Passed
<1> QED
  BY <1>3, <1>4, <1>5, <1>6, <1>7, <1>8, <1>9

(* While the item in hand is not handled, nothing is counted.              *)
LEMMA MoveRepeat ==
  ASSUME IgTyped, RepeatInv, done' = done, again' = again, ~Handled, ~Handled', \A i : Passed(i) => Passed(i)'
  PROVE  RepeatInv'
<1>1. \A p \in People, i \in Items : Passed(i) \/ InHandDone(p, i) => Passed(i)'
  BY DEF InHandDone
<1>2. again' \in Counts
  BY DEF IgTyped
<1> QED
  BY <1>1, <1>2, RepeatKeeps

LEMMA QueuePartStep ==
  ASSUME AgentInv, InstagramInv, QueuePart
  PROVE  AgentInv' /\ InAgent' = InAgent /\ InstagramInv'
<1> USE DEF InstagramInv
<1>1. /\ UNCHANGED agent /\ UNCHANGED <<owner, flash, ram, done, again, skipped, torn>>
      /\ threads' = threads /\ older' = older /\ owed' = owed /\ muddled' = muddled
      /\ idle' = idle /\ said' = said /\ pending' = pending /\ refused' = refused /\ sender' = sender
      /\ saying.at = "queue" /\ saying' = Silent /\ out' = out + 1
      /\ out < OutLength + (IF sender = "free" THEN 1 ELSE 0)
      /\ walk' = (IF saying.by = "poller" THEN [walk EXCEPT !.at = "flush"] ELSE walk)
  BY DEF QueuePart, record, answers
<1>2. AgentInv' /\ InAgent' = InAgent /\ notified' = notified /\ TurnOf("instagram")' = TurnOf("instagram")
  BY <1>1, AgentAlone
<1>3. /\ out \in Nat /\ UnderWay \in Nat /\ pending \in Nat /\ owed \in Nat /\ older \in Nat
      /\ UnderWay = out + 1 /\ saying # Silent
  BY <1>1, UnderWayFacts DEF OutTyped
<1>4. /\ saying' \in [by : {Nobody, "poller", "agent"}, at : {"no", "clear", "queue"}]
      /\ saying' = Silent /\ saying'.by # "poller" /\ saying'.at = "no"
  BY <1>1 DEF Silent, Nobody
<1>5. UnderWay' = UnderWay
  <2>1. UnderWay' = out' + 0
    BY <1>4 DEF UnderWay
  <2>2. UnderWay' = (out + 1) + 0
    BY <1>1, <2>1
  <2> QED
    BY <1>3, <2>2
<1>6. OutTyped'
  <2>1. out + 1 \in 0..(OutLength + 1)
    BY <1>1, <1>3, Bounds
  <2> QED
    BY <1>1, <1>4, <2>1 DEF OutTyped
<1>7. /\ IgTyped' /\ WalkInv' /\ IgHeldInv' /\ RepeatInv' /\ LostInv' /\ OwnersInv' /\ AnsweredFirst'
  <2>1. CASE saying.by # "poller"
    <3>1. muddled' \in BOOLEAN /\ (saying'.by = "poller" <=> saying.by = "poller") /\ walk' = walk
      BY <1>1, <1>4, <2>1 DEF IgTyped
    <3>2. /\ IgTyped' /\ WalkInv' /\ IgHeldInv' /\ RepeatInv' /\ LostInv' /\ OwnersInv'
          /\ (walk.at = "save" /\ Mine[Item] # "deleted" => owed' = 0 \/ muddled') => AnsweredFirst'
      BY <1>1, <1>2, <3>1, TalkStep, ThreadsSame
    <3> QED
      BY <1>1, <3>2 DEF AnswersInv, AnsweredFirst
  <2>2. CASE saying.by = "poller"
    <3>1. walk.at = "say" /\ walk' = [walk EXCEPT !.at = "flush"]
      BY <1>1, <2>2 DEF IgHeldInv
    <3>2. Walking /\ walk.next <= walk.last /\ Mine[Item] = "odd" /\ "odd" \in Incoming /\ "odd" \notin Turns
      BY <3>1 DEF Walking, WalkInv, Incoming, Turns
    <3>3. done' \in Counts /\ muddled' \in BOOLEAN /\ \A p \in People, i \in Items : done'[p][i] >= done[p][i]
      BY <1>1 DEF IgTyped, Counts
    <3>4. UNCHANGED <<threads, owner, flash, ram, again, skipped, torn>>
      BY <1>1
    <3>5. /\ IgTyped' /\ WalkInv' /\ LostInv' /\ OwnersInv' /\ walk'.at = "flush"
          /\ (Mine[Item])' = Mine[Item] /\ \A i : Passed(i) => Passed(i)'
      BY <3>1, <3>2, <3>3, <3>4, MoveStep
    <3>6. ~Handled /\ ~Handled' /\ AnsweredFirst'
      BY <3>1, <3>2, <3>5 DEF Handled, AnsweredFirst
    <3>7. RepeatInv'
      BY <1>1, <3>5, <3>6, MoveRepeat
    <3>8. IgHeldInv'
      BY <1>2, <1>4, <3>1, <3>5 DEF IgHeldInv
    <3> QED
      BY <3>5, <3>6, <3>7, <3>8
  <2> QED
    BY <2>1, <2>2
<1>8. AnswersInv'
  <2>1. pending' = UnderWay' + (IF sender' = "count" THEN 1 ELSE 0)
    BY <1>1, <1>5 DEF AnswersInv
  <2>2. idle' /\ pending' > 0 /\ ~muddled' => Speaks'
    BY <1>1 DEF AnswersInv, Speaks
  <2>3. /\ older' <= UnderWay' /\ owed' >= UnderWay' - older'
        /\ owed' > UnderWay' - older' /\ ~muddled' => refused'
    BY <1>1, <1>5 DEF AnswersInv
  <2> QED
    BY <1>7, <2>1, <2>2, <2>3 DEF AnswersInv
<1> QED
  BY <1>2, <1>6, <1>7, <1>8

LEMMA SayOddStep ==
  ASSUME AgentInv, InstagramInv, SayOdd
  PROVE  AgentInv' /\ InAgent' = InAgent /\ InstagramInv'
<1> USE DEF InstagramInv
<1>1. /\ UNCHANGED agent /\ UNCHANGED <<threads, owner, flash, ram, again, skipped, torn>> /\ done' = done
      /\ again' = again /\ walk.at = "handle" /\ walk.next <= walk.last /\ Mine[Item] = "odd"
      /\ walk' = [walk EXCEPT !.at = "say"]
      /\ older' = UnderWay /\ owed' = 1 /\ muddled' = (idle /\ pending > 0)
      /\ out' = out /\ sender' = sender /\ idle' = idle /\ said' = said
      /\ saying = Silent /\ saying' = [by |-> "poller", at |-> IF pending = 0 THEN "clear" ELSE "queue"]
      /\ pending' = pending + 1 /\ refused' = (IF pending = 0 THEN FALSE ELSE refused)
  BY DEF SayOdd, Handling, PendingAdd
<1>2. AgentInv' /\ InAgent' = InAgent /\ notified' = notified
  BY <1>1, AgentAlone
<1>3. UnderWay \in Nat /\ UnderWay = out /\ pending \in Nat /\ out \in Nat /\ said \in Nat /\ pending + 1 \in Nat
  BY <1>1, UnderWayFacts DEF OutTyped
<1>4. /\ saying' \in [by : {Nobody, "poller", "agent"}, at : {"no", "clear", "queue"}]
      /\ saying'.at # "no" /\ saying' # Silent /\ saying'.by = "poller" /\ (pending = 0 => saying'.at = "clear")
  BY <1>1 DEF Silent
<1>5. UnderWay' = UnderWay + 1
  <2>1. UnderWay' = out' + (IF saying' = Silent THEN 0 ELSE 1)
    BY DEF UnderWay
  <2>2. UnderWay' = out + 1
    BY <1>1, <1>4, <2>1
  <2> QED
    BY <1>3, <2>2
<1>6. OutTyped'
  <2>1. refused' \in BOOLEAN /\ 1 \in Nat
    BY <1>1 DEF OutTyped
  <2> QED
    BY <1>1, <1>3, <1>4, <2>1 DEF OutTyped
<1>7. Walking /\ "odd" \in Incoming /\ "odd" \notin Turns
  BY <1>1 DEF Walking, Incoming, Turns
<1>8. done' \in Counts /\ muddled' \in BOOLEAN /\ \A p \in People, i \in Items : done'[p][i] >= done[p][i]
  BY <1>1 DEF IgTyped, Counts
<1>9. /\ IgTyped' /\ WalkInv' /\ LostInv' /\ OwnersInv' /\ walk'.at = "say"
      /\ (Mine[Item])' = Mine[Item] /\ \A i : Passed(i) => Passed(i)'
  BY <1>1, <1>7, <1>8, MoveStep
<1>10. ~Handled /\ ~Handled' /\ AnsweredFirst'
  BY <1>1, <1>9 DEF Handled, AnsweredFirst
<1>11. RepeatInv'
  BY <1>1, <1>9, <1>10, MoveRepeat
<1>12. IgHeldInv'
  BY <1>1, <1>2, <1>4, <1>9 DEF IgHeldInv
<1>13. AnswersInv'
  <2> DEFINE under == UnderWay + 1
  <2>1. pending' = under + (IF sender' = "count" THEN 1 ELSE 0)
    BY <1>1, <1>3 DEF AnswersInv
  <2>2. ASSUME idle', ~muddled' PROVE Speaks'
    <3>1. ~(pending > 0)
      BY <1>1, <2>2
    <3>2. pending = 0
      BY <1>3, <3>1
    <3> QED
      BY <1>4, <3>2 DEF Speaks
  <2>3. UnderWay <= under /\ 1 >= under - UnderWay /\ ~(1 > under - UnderWay)
    BY <1>3
  <2>4. UnderWay' = under
    BY <1>5
  <2> HIDE DEF under
  <2>5. older' <= UnderWay' /\ owed' >= UnderWay' - older' /\ ~(owed' > UnderWay' - older')
    BY <1>1, <2>3, <2>4
  <2> QED
    BY <1>10, <2>1, <2>2, <2>4, <2>5 DEF AnswersInv
<1> QED
  BY <1>2, <1>6, <1>9, <1>11, <1>12, <1>13

LEMMA SubmitIgStep ==
  ASSUME AgentInv, InstagramInv, "instagram" \in Channels, SubmitIg
  PROVE  /\ AgentInv' /\ InstagramInv' /\ notified'["telegram"] = notified["telegram"]
         /\ \A m : Given(m) => (m \in InAgent' <=> m \in InAgent)
<1> USE DEF InstagramInv
<1> DEFINE new == IgMessage(Mine[Item])
<1>1. /\ UNCHANGED <<threads, owner, flash, ram, again, skipped, torn>> /\ done' = done
      /\ again' = again /\ walk.at = "handle" /\ walk.next <= walk.last /\ Mine[Item] \in Turns
      /\ Submit(new) /\ notified' = [notified EXCEPT ![new.from] = 0] /\ running' = running
      /\ walk' = [walk EXCEPT !.at = "wait"]
      /\ older' = UnderWay /\ owed' = 0 /\ muddled' = (idle /\ pending > 0)
      /\ out' = out /\ sender' = sender /\ idle' = idle /\ said' = said /\ saying' = saying /\ pending' = pending
      /\ refused' = refused
  BY DEF SubmitIg, SubmitAndWait, Handling, outbound
<1>2. Walking /\ Mine[Item] \in Incoming
  BY <1>1 DEF Walking, Incoming
<1>3. Item \in Nat
  BY <1>1, <1>2, InHandFacts
<1>4. /\ new \in Messages /\ ~Lined(new) /\ new.from = "instagram" /\ new.n = Item /\ new.waits /\ ~Given(new)
  BY <1>1, <1>3 DEF IgMessage, Messages, Kinds, Looks, Turns, Lined, Given, Channel
<1>5. \A h \in InAgent : ~Same(new, h)
  BY <1>1, <1>4 DEF IgHeldInv, OverIg, Same
<1>6. notified' \in [Channels -> 0..2] /\ notified'["instagram"] = 0 /\ notified'["telegram"] = notified["telegram"]
  BY <1>1, <1>4 DEF AgentInv, AgentTypes
<1> HIDE DEF new
<1>7. AgentInv' /\ InAgent' = InAgent \cup {new}
  BY <1>1, <1>4, <1>5, <1>6, SubmitStep
<1>8. \A m : Given(m) => (m \in InAgent' <=> m \in InAgent)
  BY <1>4, <1>7
<1>9. UnderWay \in Nat /\ pending \in Nat /\ UnderWay' = UnderWay
  BY <1>1, UnderWayFacts DEF UnderWay
<1>10. OutTyped'
  BY <1>1, <1>9 DEF OutTyped
<1>11. done' \in Counts /\ muddled' \in BOOLEAN /\ \A p \in People, i \in Items : done'[p][i] >= done[p][i]
  BY <1>1 DEF IgTyped, Counts
<1>12. /\ IgTyped' /\ WalkInv' /\ LostInv' /\ OwnersInv' /\ walk'.at = "wait" /\ Item' = Item
       /\ \A i : Passed(i) => Passed(i)'
  BY <1>1, <1>2, <1>11, MoveStep
<1>13. ~Handled /\ ~Handled' /\ AnsweredFirst'
  BY <1>1, <1>6, <1>12 DEF Handled, AnsweredFirst
<1>14. RepeatInv'
  BY <1>1, <1>12, <1>13, MoveRepeat
<1>15. IgHeldInv'
  <2>1. \A m \in InAgent : ~OverIg(m)
    BY <1>1 DEF IgHeldInv
  <2> QED
    BY <1>1, <1>4, <1>6, <1>7, <1>12, <2>1 DEF IgHeldInv
<1>16. AnswersInv'
  <2> DEFINE under == UnderWay
  <2>1. pending' = under + (IF sender' = "count" THEN 1 ELSE 0)
    BY <1>1 DEF AnswersInv
  <2>2. ~(idle' /\ pending' > 0 /\ ~muddled')
    BY <1>1
  <2>3. under <= under /\ 0 >= under - under /\ ~(0 > under - under)
    BY <1>9
  <2>4. UnderWay' = under /\ older' = under
    BY <1>1, <1>9
  <2> HIDE DEF under
  <2>5. older' <= UnderWay' /\ owed' >= UnderWay' - older' /\ ~(owed' > UnderWay' - older')
    BY <1>1, <2>3, <2>4
  <2> QED
    BY <1>13, <2>1, <2>2, <2>4, <2>5 DEF AnswersInv
<1> QED
  BY <1>6, <1>7, <1>8, <1>10, <1>12, <1>14, <1>15, <1>16

(* Handled before and after: the count stands.                             *)
LEMMA StillHandled ==
  ASSUME IgTyped, RepeatInv, done' = done, again' = again, ram' = ram, Item' = Item, Handled, Handled',
         \A i : Passed(i) => Passed(i)'
  PROVE  RepeatInv'
<1>1. \A p, i : InHandDone(p, i) => InHandDone(p, i)'
  BY DEF InHandDone
<1>2. ASSUME NEW p \in People, NEW i \in Items
      PROVE  done'[p][i] <= again'[p][i] + (IF Passed(i)' \/ InHandDone(p, i)' THEN 1 ELSE 0)
  <2>1. done[p][i] <= again[p][i] + (IF Passed(i) \/ InHandDone(p, i) THEN 1 ELSE 0)
    BY DEF RepeatInv
  <2>2. CASE Passed(i) \/ InHandDone(p, i)
    BY <1>1, <2>1, <2>2
  <2>3. CASE ~(Passed(i) \/ InHandDone(p, i))
    <3>1. done[p][i] \in Nat /\ again[p][i] \in Nat
      BY DEF IgTyped, Counts
    <3>2. done[p][i] <= again[p][i] + 0 /\ done[p][i] <= again[p][i] + 1
      BY <2>1, <2>3, <3>1
    <3> QED
      BY <3>2
  <2> QED
    BY <2>2, <2>3
<1> QED
  BY <1>2 DEF RepeatInv

(* The walk gives up the item in hand and rests.                           *)
LEMMA RestsAfter ==
  ASSUME IgTyped, WalkInv, LostInv, OwnersInv, Walking, walk.next <= walk.last, walk' = Resting,
         UNCHANGED <<threads, owner, flash, ram, skipped, torn>>, muddled' \in BOOLEAN,
         done' \in Counts, again' \in Counts, \A p \in People, i \in Items : done'[p][i] >= done[p][i]
  PROVE  /\ IgTyped' /\ WalkInv' /\ LostInv' /\ OwnersInv' /\ walk'.at = "poll" /\ ~Handled' /\ AnsweredFirst'
         /\ (\A i : Passed(i) => Passed(i)')
<1>1. /\ threads' = threads /\ owner' = owner /\ flash' = flash /\ ram' = ram
      /\ skipped' = skipped /\ torn' = torn
  OBVIOUS
<1>2. ~Booting
  BY InHandFacts
<1>3. WalkInv' /\ walk' \in WalkType /\ walk'.at = "poll" /\ ~Handled' /\ ~Walking' /\ AnsweredFirst'
  BY <1>1, RestStep DEF IgTyped, RamType, Resting
<1>4. ~Booting'
  BY <1>3 DEF Booting
<1>5. IgTyped'
  BY <1>1, <1>3 DEF IgTyped
<1>6. LostInv'
  BY <1>1, <1>3, <1>5, LongerSame, LostStays DEF IgTyped
<1>7. OwnersInv'
  BY <1>1, <1>2, <1>4 DEF OwnersInv
<1>8. \A i : Passed(i) => Passed(i)'
  BY <1>1, <1>2, <1>4 DEF Passed
<1> QED
  BY <1>3, <1>5, <1>6, <1>7, <1>8

LEMMA IgTurnDoneStep ==
  ASSUME AgentInv, InstagramInv, "instagram" \in Channels, IgTurnDone
  PROVE  /\ AgentInv' /\ InAgent' = InAgent /\ InstagramInv' /\ notified'["telegram"] = notified["telegram"]
<1> USE DEF InstagramInv
<1>1. /\ UNCHANGED <<threads, owner, flash, ram, skipped, torn>> /\ done' = done /\ ram' = ram
      /\ UNCHANGED outbound /\ UNCHANGED <<older, owed>> /\ muddled' = muddled
      /\ walk.at = "wait" /\ notified["instagram"] # 0 /\ notified' = [notified EXCEPT !["instagram"] = 0]
      /\ queue' = queue /\ running' = running
      /\ \/ walk' = [walk EXCEPT !.at = "flush"] /\ again' = again
         \/ walk' = Resting /\ again' = Once(again, Here)
  BY DEF IgTurnDone, GiveUp, answers
<1>2. /\ notified' \in [Channels -> 0..2] /\ notified'["instagram"] = 0 /\ notified'["telegram"] = notified["telegram"]
  BY <1>1 DEF AgentInv, AgentTypes
<1>3. AgentInv' /\ InAgent' = InAgent /\ TurnOf("instagram")' = TurnOf("instagram")
  BY <1>1, <1>2, AgentStays DEF TurnOf
<1>4. \A m \in InAgent : ~OverIg(m)
  BY <1>1 DEF IgHeldInv
<1>5. Walking /\ walk.next <= walk.last /\ Mine[Item] \in Turns /\ Mine[Item] \in Incoming /\ Handled
  BY <1>1 DEF Walking, WalkInv, Handled
<1>6. done' \in Counts /\ muddled' \in BOOLEAN /\ \A p \in People, i \in Items : done'[p][i] >= done[p][i]
  BY <1>1 DEF IgTyped, Counts
<1>7. IgTyped' /\ WalkInv' /\ LostInv' /\ OwnersInv' /\ RepeatInv' /\ walk'.at \in {"poll", "flush"} /\ AnsweredFirst'
  <2>1. CASE walk' = [walk EXCEPT !.at = "flush"] /\ again' = again
    <3>1. /\ IgTyped' /\ WalkInv' /\ LostInv' /\ OwnersInv' /\ walk'.at = "flush" /\ Item' = Item
          /\ (Mine[Item])' = Mine[Item] /\ \A i : Passed(i) => Passed(i)'
      BY <1>1, <1>5, <1>6, <2>1, MoveStep
    <3>2. Handled' /\ AnsweredFirst'
      BY <1>5, <3>1 DEF Handled, AnsweredFirst
    <3>3. RepeatInv'
      BY <1>1, <1>5, <2>1, <3>1, <3>2, StillHandled
    <3> QED
      BY <3>1, <3>2, <3>3
  <2>2. CASE walk' = Resting /\ again' = Once(again, Here)
    <3>1. ~Handled'
      BY <1>1, <2>2, RestStep DEF IgTyped, RamType, Resting
    <3>2. \A i \in Items : Passed(i) => Passed(i)'
      BY <1>1, <1>5, <2>2, InHandFacts DEF Passed, Booting, Resting
    <3>3. RepeatInv' /\ again' \in Counts
      BY <1>1, <1>5, <2>2, <3>1, <3>2, GivenUp
    <3> QED
      BY <1>1, <1>5, <1>6, <2>2, <3>3, RestsAfter
  <2> QED
    BY <1>1, <2>1, <2>2
<1>8. IgHeldInv'
  <2>1. saying' = saying
    BY <1>1 DEF outbound
  <2> QED
    BY <1>1, <1>3, <1>4, <1>7, <2>1 DEF IgHeldInv
<1>9. OutTyped'
  BY <1>1, OutStays
<1>10. AnswersInv'
  BY <1>1, <1>3, <1>7, AnswersStay DEF outbound
<1> QED
  BY <1>2, <1>3, <1>7, <1>8, <1>9, <1>10

LEMMA IgFlushStep ==
  ASSUME AgentInv, InstagramInv, IgFlush
  PROVE  AgentInv' /\ InAgent' = InAgent /\ InstagramInv'
<1> USE DEF InstagramInv
<1>1. /\ UNCHANGED agent /\ UNCHANGED outbound /\ UNCHANGED <<threads, owner, flash, ram, skipped, torn>>
      /\ ram' = ram /\ UNCHANGED answers /\ owed' = owed /\ muddled' = muddled
      /\ walk.at = "flush" /\ idle
      /\ done' = (IF Mine[Item] = "odd" THEN Once(done, Here) ELSE done)
      /\ \/ ~refused /\ walk' = [walk EXCEPT !.at = "save"] /\ again' = again
         \/ walk' = Resting /\ again' = Once(again, Here)
  BY DEF IgFlush, GiveUp, answers
<1>2. Walking /\ walk.next <= walk.last /\ Mine[Item] \in Turns \cup {"odd"} /\ Mine[Item] \in Incoming
      /\ (Handled <=> Mine[Item] # "odd")
  BY <1>1 DEF Walking, WalkInv, Handled, Turns, Incoming
<1>3. ram.conv \in People /\ Item \in Items /\ Here = <<ram.conv, Item>> /\ ~Booting
  BY <1>2, InHandFacts
<1>4. done' \in Counts /\ \A q \in People, j \in Items : done'[q][j] >= done[q][j]
  BY <1>1, <1>3, DoneGrows DEF IgTyped
<1>5. muddled' \in BOOLEAN
  BY <1>1 DEF IgTyped
<1>6. ~refused => owed = 0 \/ muddled
  <2> SUFFICES ASSUME ~refused, ~muddled PROVE owed = 0
    OBVIOUS
  <2>1. ~TurnOf("instagram") /\ saying.by # "poller"
    BY <1>1, TurnOverIg DEF IgHeldInv
  <2>2. ~(pending > 0)
    BY <1>1, <2>1 DEF AnswersInv, Speaks
  <2>3. /\ pending \in Nat /\ UnderWay \in Nat /\ owed \in Nat /\ older \in Nat
        /\ pending = UnderWay + (IF sender = "count" THEN 1 ELSE 0)
        /\ older <= UnderWay /\ owed >= UnderWay - older /\ ~(owed > UnderWay - older)
    BY UnderWayFacts DEF AnswersInv
  <2>4. UnderWay = 0
    BY <2>2, <2>3
  <2> QED
    BY <2>3, <2>4
<1>7. /\ IgTyped' /\ WalkInv' /\ LostInv' /\ OwnersInv' /\ RepeatInv' /\ walk'.at \in {"poll", "save"}
      /\ AnsweredFirst'
  <2>1. CASE ~refused /\ walk' = [walk EXCEPT !.at = "save"] /\ again' = again
    <3>1. /\ IgTyped' /\ WalkInv' /\ LostInv' /\ OwnersInv' /\ walk'.at = "save" /\ Item' = Item
          /\ walk'.next = walk.next /\ \A i : Passed(i) => Passed(i)'
      BY <1>1, <1>2, <1>4, <1>5, <2>1, MoveStep
    <3>2. Handled' /\ AnsweredFirst'
      BY <1>1, <1>6, <2>1, <3>1 DEF Handled, AnsweredFirst
    <3>3. CASE Mine[Item] = "odd"
      BY <1>1, <1>2, <2>1, <3>1, <3>2, <3>3, RepeatOnce
    <3>4. CASE Mine[Item] # "odd"
      BY <1>1, <1>2, <2>1, <3>1, <3>2, <3>4, StillHandled
    <3> QED
      BY <3>1, <3>2, <3>3, <3>4
  <2>2. CASE walk' = Resting /\ again' = Once(again, Here)
    <3>1. again' \in Counts
      BY <1>3, <2>2, OnceHere DEF IgTyped
    <3>2. /\ IgTyped' /\ WalkInv' /\ LostInv' /\ OwnersInv' /\ walk'.at = "poll" /\ ~Handled' /\ AnsweredFirst'
          /\ (\A i : Passed(i) => Passed(i)')
      BY <1>1, <1>2, <1>4, <1>5, <2>2, <3>1, RestsAfter
    <3>3. CASE Mine[Item] = "odd"
      BY <1>1, <1>2, <2>2, <3>2, <3>3, RepeatOnce
    <3>4. CASE Mine[Item] # "odd"
      BY <1>1, <1>2, <2>2, <3>2, <3>4, GivenUp
    <3> QED
      BY <3>2, <3>3, <3>4
  <2> QED
    BY <1>1, <2>1, <2>2
<1>8. AgentInv' /\ InAgent' = InAgent /\ OutTyped' /\ IgHeldInv' /\ AnswersInv'
  <2>1. walk.at \notin {"wait", "say"} /\ walk'.at \notin {"wait", "say"}
    BY <1>1, <1>7
  <2> QED
    BY <1>1, <1>7, <2>1, QuietStep
<1> QED
  BY <1>7, <1>8

LEMMA IgTurnEndsStep ==
  ASSUME AgentInv, InstagramInv, IgTurnEnds
  PROVE  /\ AgentInv' /\ InstagramInv' /\ notified'["telegram"] = notified["telegram"]
         /\ \A m : Given(m) => (m \in InAgent' <=> m \in InAgent)
<1> USE DEF InstagramInv
<1>1. /\ UNCHANGED <<threads, owner, flash, ram, walk, skipped, torn>> /\ threads' = threads /\ flash' = flash
      /\ ram' = ram /\ walk' = walk /\ again' = again /\ skipped' = skipped /\ torn' = torn
      /\ older' = older /\ owed' = owed /\ muddled' = muddled
      /\ out' = out /\ sender' = sender /\ idle' = idle /\ saying' = saying /\ pending' = pending /\ refused' = refused
      /\ said' = 0 /\ saying.by # "agent" /\ TurnOf("instagram")
      /\ done' = Once(done, <<ram.conv, running[1].n>>)
  BY DEF IgTurnEnds, answers
<1>2. PICK success \in BOOLEAN : TurnEnds(success)
  BY DEF IgTurnEnds
<1>3. /\ AgentInv' /\ running[1] \in InAgent /\ running[1] \in Messages /\ running' = <<>>
      /\ InAgent = InAgent' \cup {running[1]} /\ \A h \in InAgent' : ~Same(h, running[1])
      /\ notified' = IF running[1].waits
                     THEN [notified EXCEPT ![running[1].from] = IF success THEN 1 ELSE 2]
                     ELSE notified
  BY <1>2, EndStep DEF TurnEnds
<1>4. /\ walk.at = "wait" /\ running[1].n = Item /\ running[1].waits /\ notified["instagram"] = 0
      /\ running[1].from = "instagram"
  BY <1>1, TurnOverIg
<1>5. notified'["instagram"] # 0 /\ notified'["telegram"] = notified["telegram"]
  BY <1>3, <1>4 DEF AgentInv, AgentTypes, Messages
<1>6. \A m \in InAgent' : ~OverIg(m)
  BY <1>3, <1>4 DEF Same, OverIg
<1>7. \A m : Given(m) => (m \in InAgent' <=> m \in InAgent)
  BY <1>3, <1>4 DEF Given, Channel
<1>8. Walking /\ walk.next <= walk.last /\ Mine[Item] \in Turns /\ ~Handled
  BY <1>4 DEF Walking, WalkInv, Handled
<1>9. ram.conv \in People /\ Item \in Items /\ done' = Once(done, Here)
  BY <1>1, <1>4, <1>8, InHandFacts
<1>10. done' \in Counts /\ \A q \in People, j \in Items : done'[q][j] >= done[q][j]
  BY <1>1, <1>9, DoneGrows DEF IgTyped, Here
<1>11. IgTyped'
  BY <1>1, <1>10 DEF IgTyped
<1>12. WalkInv'
  BY <1>1, <1>11, WalkStays, LongerSame DEF IgTyped
<1>13. IgHeldInv'
  BY <1>1, <1>6 DEF IgHeldInv
<1>14. Handled' /\ \A i : Passed(i) => Passed(i)'
  BY <1>1, <1>4, <1>5 DEF Handled, Passed, Booting
<1>15. RepeatInv'
  BY <1>1, <1>8, <1>9, <1>14, RepeatOnce
<1>16. LostInv'
  <2>1. Walking' => Walking
    BY <1>1 DEF Walking
  <2> QED
    BY <1>1, <1>10, <1>11, <2>1, LongerSame, LostStays DEF IgTyped
<1>17. OwnersInv'
  BY <1>1 DEF OwnersInv, Booting
<1>18. AnswersInv'
  <2>1. AnsweredFirst'
    BY <1>1, <1>4 DEF AnsweredFirst
  <2>2. Speaks => Speaks'
    BY <1>1 DEF Speaks
  <2>3. UnderWay' = UnderWay
    BY <1>1 DEF UnderWay
  <2> QED
    BY <1>1, <2>1, <2>2, <2>3 DEF AnswersInv
<1>19. OutTyped'
  BY <1>1 DEF OutTyped
<1> QED
  BY <1>3, <1>5, <1>7, <1>11, <1>12, <1>13, <1>15, <1>16, <1>17, <1>18, <1>19

(* The device restarts, or starts without the channel.                     *)
LEMMA InstagramRebootStep ==
  ASSUME InstagramInv, InstagramReboot, InAgent' = {}
  PROVE  InstagramInv'
<1> USE DEF InstagramInv
<1>1. /\ ram' = Fresh /\ walk' = [Resting EXCEPT !.at = "boot"]
      /\ out' = 0 /\ sender' = "free" /\ pending' = 0 /\ idle' = TRUE /\ refused' = FALSE
      /\ saying' = Silent /\ said' = 0 /\ older' = 0 /\ owed' = 0 /\ muddled' = FALSE
      /\ again' = (IF InHand THEN Once(again, Here) ELSE again)
      /\ threads' = threads /\ owner' = owner /\ flash' = flash /\ done' = done /\ skipped' = skipped /\ torn' = torn
  BY DEF InstagramReboot
<1>2. Fresh \in RamType /\ Fresh.conv = Nobody /\ Fresh.who = Nobody /\ Fresh.of = Nobody /\ Fresh.mark = 0
      /\ Nobody \in Someone
  BY FreshTyped DEF Fresh, Someone
<1>3. WalkInv' /\ walk' \in WalkType /\ walk'.at \in {"poll", "boot"} /\ ~Handled' /\ ~Walking' /\ AnsweredFirst'
  BY <1>1, <1>2, RestStep DEF IgTyped
<1>4. walk'.at = "boot" /\ Booting'
  BY <1>1 DEF Booting, Resting
<1>5. InHand => ram.conv \in People /\ Item \in Items /\ again' = Once(again, Here)
  <2>1. InHand => Walking /\ walk.next <= walk.last
    BY DEF InHand, Walking, WalkInv
  <2> QED
    BY <1>1, <2>1, InHandFacts
<1>6. again' \in Counts
  <2>1. CASE InHand
    BY <1>5, <2>1, OnceHere DEF IgTyped
  <2>2. CASE ~InHand
    BY <1>1, <2>2 DEF IgTyped
  <2> QED
    BY <2>1, <2>2
<1>7. IgTyped'
  BY <1>1, <1>2, <1>3, <1>6 DEF IgTyped
<1>8. OutTyped'
  <2>1. /\ 0 \in 0..(OutLength + 1) /\ 0 \in Nat
        /\ Silent \in [by : {Nobody, "poller", "agent"}, at : {"no", "clear", "queue"}]
    BY Bounds DEF Silent
  <2> QED
    BY <1>1, <2>1 DEF OutTyped
<1>9. RepeatInv'
  <2> SUFFICES ASSUME NEW p \in People, NEW i \in Items
               PROVE  \/ again'[p][i] = again[p][i] /\ (Passed(i) \/ InHandDone(p, i) => Passed(i)')
                      \/ again'[p][i] = again[p][i] + 1
    BY <1>1, <1>3, <1>6, RepeatKeeps
  <2>1. Passed(i) => Passed(i)'
    BY <1>1, <1>4 DEF Passed
  <2>2. InHandDone(p, i) => InHand /\ p = ram.conv /\ i = Item
    BY DEF InHandDone, Handled, InHand
  <2>3. CASE InHand
    <3>1. again' = Once(again, Here) /\ ram.conv \in People /\ Item \in Items /\ again \in Counts
      BY <1>5, <2>3 DEF IgTyped
    <3>2. /\ again'[ram.conv][Item] = again[ram.conv][Item] + 1
          /\ \A q \in People, j \in Items : (q # ram.conv \/ j # Item) => again'[q][j] = again[q][j]
      BY <3>1, OnceHere
    <3> QED
      BY <2>1, <2>2, <3>2
  <2>4. CASE ~InHand
    BY <1>1, <2>1, <2>2, <2>4
  <2> QED
    BY <2>3, <2>4
<1>10. LostInv'
  <2>1. MarkOf(flash, threads)' /\ Covered(flash)'
    BY <1>1 DEF LostInv, MarkOf, Covered, Settled
  <2>2. MarkOf(ram, threads)' /\ Covered(ram)'
    BY <1>1, <1>2 DEF MarkOf, Covered
  <2> QED
    BY <1>3, <2>1, <2>2 DEF LostInv
<1>11. OwnersInv'
  BY <1>1, <1>2, <1>4 DEF OwnersInv
<1>12. IgHeldInv'
  BY <1>1, <1>4 DEF IgHeldInv, Silent, Nobody
<1>13. AnswersInv'
  <2>1. UnderWay' = 0
    BY <1>1 DEF UnderWay
  <2> QED
    BY <1>1, <1>3, <2>1 DEF AnswersInv
<1> QED
  BY <1>3, <1>7, <1>8, <1>9, <1>10, <1>11, <1>12, <1>13

LEMMA AgentStarts == AgentInit => AgentInv /\ InAgent = {}
<1> SUFFICES ASSUME AgentInit PROVE AgentInv /\ InAgent = {}
  OBVIOUS
<1>1. queue = <<>> /\ running = <<>> /\ notified = [c \in Channels |-> 0]
  BY DEF AgentInit
<1>2. <<>> \in Seq(Messages) /\ Len(<<>>) = 0 /\ DOMAIN <<>> = {}
  OBVIOUS
<1>3. notified \in [Channels -> 0..2]
  BY <1>1
<1>4. InAgent = {}
  BY <1>1, <1>2 DEF InAgent
<1> QED
  BY <1>1, <1>2, <1>3, <1>4 DEF AgentInv, AgentTypes, Apart, InLine

LEMMA TelegramStarts ==
  ASSUME TelegramInit, InAgent = {}
  PROVE  TelegramInv
<1>1. updates = <<>> /\ told = 0 /\ offset = 0 /\ poller = Polling /\ pollDrops = 0
      /\ ends = [n \in Updates |-> 0] /\ redone = [n \in Updates |-> 0] /\ cut = {} /\ setting = 0
  BY DEF TelegramInit
<1>2. MaxUpdates \in Nat /\ MaxPollDrops \in Nat
  BY TelegramAssumption
<1>3. <<>> \in Seq(UpdateKinds) /\ Len(<<>>) = 0
  OBVIOUS
<1>4. Polling \in [at : {"poll", "process", "wait"}, n : 0..MaxUpdates] /\ Polling.at = "poll"
  BY <1>2 DEF Polling
<1>5. TelegramTypes
  BY <1>1, <1>2, <1>3, <1>4 DEF TelegramTypes
<1>6. Held = {} /\ Frontier = 0
  BY <1>1, HeldIs DEF Frontier, Higher
<1>7. PollerInv /\ HeldInv /\ PhotoInv /\ UpdatesNotLost
  BY <1>1, <1>4, <1>6 DEF PollerInv, HeldInv, PhotoInv, UpdatesNotLost, Frontier
<1>8. CountInv
  <2> SUFFICES ASSUME NEW n \in Updates PROVE ends[n] <= redone[n] + (IF Met(n) /\ n \notin Held THEN 1 ELSE 0)
    BY DEF CountInv
  <2>1. ends[n] = 0 /\ redone[n] = 0
    BY <1>1
  <2> QED
    BY <2>1
<1> QED
  BY <1>5, <1>7, <1>8 DEF TelegramInv

LEMMA InstagramStarts ==
  ASSUME InstagramInit, InAgent = {}
  PROVE  InstagramInv
<1>1. PICK start \in Starts : threads = start.threads /\ owner = start.owner /\ flash = start.flash
  BY DEF InstagramInit
<1>2. /\ ram = Fresh /\ walk = [Resting EXCEPT !.at = "boot"]
      /\ done = Zero /\ again = Zero /\ skipped = {<<flash.of, i>> : i \in 1..flash.mark}
      /\ older = 0 /\ owed = 0 /\ muddled = FALSE /\ torn = (flash.who \notin {Nobody, flash.owner})
      /\ out = 0 /\ sender = "free" /\ pending = 0 /\ idle = TRUE /\ refused = FALSE
      /\ saying = Silent /\ said = 0
  BY DEF InstagramInit, OutboundInit
<1>3. /\ threads \in [People -> Seq(ItemKinds)] /\ \A p \in People : Len(threads[p]) <= MaxItems
  BY <1>1, StartsAssumption
<1>4. owner \in People /\ flash \in Flashes
      /\ IF flash.of = Nobody THEN flash.mark = 0 ELSE flash.mark \in DOMAIN threads[flash.of]
  BY <1>1, StartsAssumption
<1>5. Fresh \in RamType /\ Fresh.conv = Nobody /\ Fresh.who = Nobody /\ Fresh.of = Nobody /\ Fresh.mark = 0
  BY FreshTyped DEF Fresh
<1>6. /\ walk.at = "boot" /\ walk.page = 0 /\ walk.next = 1 /\ walk.last = 0 /\ walk.cursors = <<0>>
      /\ Len(walk.cursors) = 1 /\ walk \in WalkType
  BY <1>2, RestingIs DEF Resting
<1>7. Zero \in Counts /\ \A p \in People, i \in Items : Zero[p][i] = 0
  BY DEF Zero, Counts
<1>8. IgTyped
  BY <1>2, <1>3, <1>4, <1>5, <1>6, <1>7 DEF IgTyped
<1>9. OutTyped
  <2>1. /\ 0 \in 0..(OutLength + 1) /\ 0 \in Nat
        /\ Silent \in [by : {Nobody, "poller", "agent"}, at : {"no", "clear", "queue"}]
    BY Bounds DEF Silent
  <2> QED
    BY <1>2, <2>1 DEF OutTyped
<1>10. Booting /\ ~Walking /\ ~Handled
  BY <1>6 DEF Booting, Walking, Handled
<1>11. WalkInv
  <2>1. ram.conv = Nobody /\ ram = Fresh
    BY <1>2, <1>5
  <2>2. Len(walk.cursors) > walk.page
    BY <1>6
  <2> QED
    BY <1>6, <1>10, <2>1, <2>2 DEF WalkInv
<1>12. IgHeldInv
  BY <1>2, <1>6 DEF IgHeldInv, Silent, Nobody
<1>13. RepeatInv
  <2>1. \A p \in People, i \in Items : done[p][i] = 0 /\ again[p][i] = 0
    BY <1>2, <1>7
  <2> QED
    BY <1>10, <2>1 DEF RepeatInv
<1>14. LostInv
  <2>1. \A i \in 1..flash.mark : <<flash.of, i>> \in skipped
    BY <1>2
  <2>2. Covered(flash) /\ MarkOf(flash, threads)
    BY <1>4, <2>1 DEF Covered, Settled, MarkOf
  <2>3. Covered(ram) /\ MarkOf(ram, threads)
    BY <1>2, <1>5 DEF Covered, MarkOf
  <2> QED
    BY <1>10, <2>2, <2>3 DEF LostInv
<1>15. OwnersInv
  <2>1. flash.who \in {Nobody, flash.owner} \/ torn
    BY <1>2
  <2> QED
    BY <1>2, <1>5, <1>10, <2>1 DEF OwnersInv
<1>16. AnswersInv
  <2>1. UnderWay = 0
    BY <1>2 DEF UnderWay
  <2> QED
    BY <1>2, <1>6, <2>1 DEF AnswersInv, AnsweredFirst
<1> QED
  BY <1>8, <1>9, <1>11, <1>12, <1>13, <1>14, <1>15, <1>16 DEF InstagramInv

(***************************************************************************)
(* Both channels                                                           *)
(***************************************************************************)
(* A channel that is not configured does nothing.                          *)
EnabledInv ==
  /\ "telegram" \notin enabled => (\A m \in InAgent : ~Given(m)) /\ notified["telegram"] = 0
  /\ "instagram" \notin enabled => walk.at = "boot" /\ notified["instagram"] = 0

DeviceInv == ChannelsInv /\ EnabledInv

TelegramStep == TelegramPoller \/ TelegramTurn \/ TelegramWorld

LEMMA JoinsAny ==
  ASSUME NEW q \in Seq(Messages), NEW m
  PROVE  Queued(<<m>> \o q) \subseteq Queued(q) \cup {m} /\ Queued(Append(q, m)) \subseteq Queued(q) \cup {m}
<1> DEFINE S == Messages \cup {m}
<1>1. q \in Seq(S) /\ m \in S /\ Len(q) \in Nat
  OBVIOUS
<1> HIDE DEF S
<1>2. <<m>> \in Seq(S) /\ Len(<<m>>) = 1 /\ <<m>>[1] = m
  BY <1>1
<1>3. /\ Len(<<m>> \o q) = Len(<<m>>) + Len(q)
      /\ \A i \in 1..(Len(<<m>>) + Len(q)) :
           (<<m>> \o q)[i] = IF i <= Len(<<m>>) THEN <<m>>[i] ELSE q[i - Len(<<m>>)]
  BY <1>1, <1>2, ConcatProperties
<1>4. /\ Len(Append(q, m)) = Len(q) + 1
      /\ Append(q, m)[Len(q) + 1] = m /\ \A i \in 1..Len(q) : Append(q, m)[i] = q[i]
  BY <1>1, AppendProperties
<1> QED
  BY <1>1, <1>2, <1>3, <1>4 DEF Queued

(* What Telegram does is its own: no message of Instagram comes or goes.   *)
LEMMA TelegramLeaves ==
  ASSUME AgentInv, "telegram" \in Channels,
         PollAnswered \/ Process \/ TelegramTurnEnds \/ PollFails \/ \E kind \in Writings : Write(kind)
  PROVE  /\ notified'["instagram"] = notified["instagram"]
         /\ TurnOf("instagram") => TurnOf("instagram")'
         /\ \A m \in InAgent' : OverIg(m) => m \in InAgent
<1>1. CASE UNCHANGED agent
  BY <1>1, AgentAlone
<1>2. ASSUME NEW new, new.from = "telegram", Submit(new), running' = running,
             notified' = notified \/ notified' = [notified EXCEPT !["telegram"] = 0]
      PROVE  /\ notified'["instagram"] = notified["instagram"]
             /\ TurnOf("instagram") => TurnOf("instagram")'
             /\ \A m \in InAgent' : OverIg(m) => m \in InAgent
  <2>1. notified'["instagram"] = notified["instagram"]
    BY <1>2, ChannelsAssumption DEF AgentInv, AgentTypes
  <2>2. queue \in Seq(Messages)
    BY DEF AgentInv, AgentTypes
  <2>3. queue' = <<new>> \o queue \/ queue' = Append(queue, new)
    BY <1>2 DEF Submit
  <2>4. Queued(queue') \subseteq Queued(queue) \cup {new}
    <3>1. CASE queue' = <<new>> \o queue
      <4>1. Queued(<<new>> \o queue) \subseteq Queued(queue) \cup {new}
        BY <2>2, JoinsAny
      <4> QED
        BY <3>1, <4>1, Zenon
    <3>2. CASE queue' = Append(queue, new)
      <4>1. Queued(Append(queue, new)) \subseteq Queued(queue) \cup {new}
        BY <2>2, JoinsAny
      <4> QED
        BY <3>2, <4>1, Zenon
    <3> QED
      BY <2>3, <3>1, <3>2
  <2>5. InAgent' = Queued(queue') \cup Queued(running')
    BY DEF InAgent, Queued
  <2>6. InAgent' \subseteq InAgent \cup {new}
    BY <1>2, <2>4, <2>5, InAgentIs
  <2> QED
    BY <1>2, <2>1, <2>6 DEF OverIg, TurnOf
<1>3. CASE SubmitText
  <2>1. PICK kind : Submit(Message(poller.n, kind, FALSE, ""))
    BY <1>3 DEF SubmitText
  <2>2. running' = running /\ notified' = notified
    BY <1>3 DEF SubmitText
  <2>3. Message(poller.n, kind, FALSE, "").from = "telegram"
    BY DEF Message, Channel
  <2> QED
    BY <1>2, <2>1, <2>2, <2>3
<1>4. CASE SubmitPhoto
  <2>1. PICK kind, picture : SubmitAndWait(Message(poller.n, kind, TRUE, picture))
    BY <1>4 DEF SubmitPhoto
  <2>2. running' = running
    BY <1>4 DEF SubmitPhoto
  <2>3. Message(poller.n, kind, TRUE, picture).from = "telegram"
    BY DEF Message, Channel
  <2> QED
    BY <1>2, <2>1, <2>2, <2>3 DEF SubmitAndWait
<1>5. CASE PhotoDone
  <2>1. queue' = queue /\ running' = running /\ notified' = [notified EXCEPT ![Channel] = 0]
    BY <1>5 DEF PhotoDone
  <2>2. notified'["instagram"] = notified["instagram"]
    BY <2>1 DEF AgentInv, AgentTypes, Channel
  <2> QED
    BY <2>1, <2>2 DEF InAgent, TurnOf
<1>6. CASE TelegramTurnEnds
  <2>1. PICK success \in BOOLEAN : TurnEnds(success)
    BY <1>6 DEF TelegramTurnEnds
  <2>2. running[1].from = "telegram"
    BY <1>6 DEF TelegramTurnEnds, Channel
  <2>3. /\ InAgent = InAgent' \cup {running[1]}
        /\ notified' = IF running[1].waits
                       THEN [notified EXCEPT ![running[1].from] = IF success THEN 1 ELSE 2]
                       ELSE notified
    BY <2>1, EndStep
  <2>4. notified'["instagram"] = notified["instagram"]
    BY <2>2, <2>3 DEF AgentInv, AgentTypes
  <2>5. ~TurnOf("instagram")
    BY <2>2 DEF TurnOf
  <2> QED
    BY <2>3, <2>4, <2>5
<1>7. CASE PollAnswered \/ PollFails \/ Ignore \/ AnswerInPlace \/ \E kind \in Writings : Write(kind)
  BY <1>1, <1>7 DEF PollAnswered, PollFails, Ignore, AnswerInPlace, Write
<1> QED
  BY <1>3, <1>4, <1>5, <1>6, <1>7 DEF Process

LEMMA TelegramPart ==
  ASSUME DeviceInv, TelegramStep
  PROVE  DeviceInv'
<1> USE DEF DeviceInv, ChannelsInv
<1>1. "telegram" \in Channels /\ Writings \subseteq UpdateKinds
  BY ChannelsAssumption
<1>2. /\ "telegram" \in enabled /\ UNCHANGED instagram /\ enabled' = enabled
      /\ PollAnswered \/ Process \/ TelegramTurnEnds \/ PollFails \/ \E kind \in Writings : Write(kind)
  BY DEF TelegramStep, TelegramPoller, TelegramTurn, TelegramWorld, TelegramTasks, device
<1>3. AgentInv' /\ TelegramInv'
  BY <1>1, <1>2, WriteStep, PollStep, InPlaceStep, SubmitTextStep, SubmitPhotoStep, PhotoDoneStep, TelegramTurnStep
     DEF Process
<1>4. /\ notified'["instagram"] = notified["instagram"]
      /\ TurnOf("instagram") => TurnOf("instagram")'
      /\ \A m \in InAgent' : OverIg(m) => m \in InAgent
  BY <1>1, <1>2, TelegramLeaves
<1>5. InstagramInv'
  BY <1>2, <1>4, InstagramFrame
<1>6. EnabledInv'
  BY <1>2, <1>4 DEF EnabledInv, instagram
<1> QED
  BY <1>3, <1>5, <1>6

InstagramStep == InstagramPoller \/ InstagramOut \/ InstagramWorld

LEMMA InstagramPart ==
  ASSUME DeviceInv, InstagramStep
  PROVE  DeviceInv'
<1> USE DEF DeviceInv, ChannelsInv
<1>1. "instagram" \in Channels /\ "jobs" \in Channels /\ Arrivals \subseteq Incoming
  BY ChannelsAssumption
<1>2. "instagram" \in enabled /\ UNCHANGED telegram /\ enabled' = enabled
  BY DEF InstagramStep, InstagramPoller, InstagramOut, InstagramWorld, InstagramTasks, device
<1>3. /\ AgentInv' /\ InstagramInv' /\ notified'["telegram"] = notified["telegram"]
      /\ \A m : Given(m) => (m \in InAgent' <=> m \in InAgent)
  <2>1. CASE SubmitIg
    BY <1>1, <2>1, SubmitIgStep
  <2>2. CASE IgTurnDone
    BY <1>1, <2>2, IgTurnDoneStep
  <2>3. CASE IgTurnEnds
    BY <2>3, IgTurnEndsStep
  <2>4. CASE JobSubmitted \/ JobTurnEnds
    BY <1>1, <2>4, JobStep
  <2>5. CASE Load \/ Switch \/ FindBound \/ FindByName \/ Baseline
    <3>1. AgentInv' /\ InAgent' = InAgent /\ InstagramInv'
      BY <2>5, LoadStep, SwitchStep, FindStep, BaselineStep
    <3>2. UNCHANGED agent
      BY <2>5 DEF Load, Switch, FindBound, FindByName, Baseline
    <3> QED
      BY <3>1, <3>2, AgentAlone
  <2>6. CASE Find \/ Back \/ SyncEnds \/ SkipOut \/ SkipDeleted
    <3>1. AgentInv' /\ InAgent' = InAgent /\ InstagramInv'
      BY <2>6, FindPageStep, BackStep, EndOfWalkStep, SkipOutStep, SkipDeletedStep
    <3>2. UNCHANGED agent
      BY <2>6 DEF Find, Back, SyncEnds, SkipOut, SkipDeleted
    <3> QED
      BY <3>1, <3>2, AgentAlone
  <2>7. CASE IgFlush \/ Save \/ SayOdd \/ ClearIdle \/ QueuePart
    <3>1. AgentInv' /\ InAgent' = InAgent /\ InstagramInv'
      BY <2>7, IgFlushStep, SaveStep, SayOddStep, ClearIdleStep, QueuePartStep
    <3>2. UNCHANGED agent
      BY <2>7 DEF IgFlush, Save, SayOdd, ClearIdle, QueuePart
    <3> QED
      BY <3>1, <3>2, AgentAlone
  <2>8. CASE Accepted \/ PendingComplete \/ SetIdle \/ TurnSays \/ Refused
    <3>1. AgentInv' /\ InAgent' = InAgent /\ InstagramInv'
      BY <2>8, SentStep, PendingCompleteStep, SetIdleStep, TurnSaysStep
    <3>2. UNCHANGED agent
      BY <2>8 DEF Accepted, PendingComplete, SetIdle, TurnSays, Refused
    <3> QED
      BY <3>1, <3>2, AgentAlone
  <2>9. CASE SwitchFails \/ FindUnsaved \/ BaselineFails \/ FetchFails \/ SaveFails
    <3>1. AgentInv' /\ InAgent' = InAgent /\ InstagramInv'
      BY <2>9, SwitchFailsStep, FindStep, BaselineStep, EndOfWalkStep, SaveFailsStep
    <3>2. UNCHANGED agent
      BY <2>9 DEF SwitchFails, FindUnsaved, BaselineFails, FetchFails, SaveFails
    <3> QED
      BY <3>1, <3>2, AgentAlone
  <2>10. CASE SetOwner \/ \E p \in People, kind \in Arrivals : Arrive(p, kind)
    <3>1. AgentInv' /\ InAgent' = InAgent /\ InstagramInv'
      BY <1>1, <2>10, WorldStep
    <3>2. UNCHANGED agent
      BY <2>10 DEF SetOwner, Arrive
    <3> QED
      BY <3>1, <3>2, AgentAlone
  <2> QED
    BY <2>1, <2>2, <2>3, <2>4, <2>5, <2>6, <2>7, <2>8, <2>9, <2>10
       DEF InstagramStep, InstagramPoller, InstagramOut, InstagramWorld
<1>4. TelegramInv'
  BY <1>2, <1>3, TelegramFrame DEF Channel
<1>5. EnabledInv'
  BY <1>2, <1>3 DEF EnabledInv
<1> QED
  BY <1>3, <1>4, <1>5

LEMMA AgentPart ==
  ASSUME DeviceInv, AgentStep
  PROVE  DeviceInv'
<1> USE DEF DeviceInv, ChannelsInv
<1>1. TurnStarts /\ UNCHANGED telegram /\ UNCHANGED instagram /\ enabled' = enabled
  BY DEF AgentStep, device
<1>2. AgentInv' /\ InAgent' = InAgent
  BY <1>1, StartStep
<1>3. notified' = notified /\ running = <<>>
  BY <1>1 DEF TurnStarts
<1>4. TelegramInv'
  BY <1>1, <1>2, <1>3, TelegramFrame
<1>5. InstagramInv'
  BY <1>1, <1>2, <1>3, InstagramFrame DEF TurnOf
<1>6. EnabledInv'
  BY <1>1, <1>2, <1>3 DEF EnabledInv, instagram
<1> QED
  BY <1>2, <1>4, <1>5, <1>6

LEMMA RebootPart ==
  ASSUME DeviceInv, Reboot
  PROVE  DeviceInv'
<1> USE DEF DeviceInv, ChannelsInv
<1>1. /\ queue' = <<>> /\ running' = <<>> /\ notified' = [c \in Channels |-> 0] /\ enabled' = enabled
      /\ IF "telegram" \in enabled THEN TelegramReboot ELSE UNCHANGED telegram
      /\ IF "instagram" \in enabled THEN InstagramReboot ELSE UNCHANGED instagram
  BY DEF Reboot, AgentReboot
<1>2. AgentInv' /\ InAgent' = {}
  BY <1>1, AgentEmpty
<1>3. notified'["telegram"] = 0 /\ notified'["instagram"] = 0
  BY <1>1, ChannelsAssumption
<1>4. TelegramInv'
  <2>1. CASE "telegram" \in enabled
    BY <1>1, <1>2, <2>1, TelegramRebootStep
  <2>2. CASE "telegram" \notin enabled
    BY <1>1, <1>2, <1>3, <2>2, TelegramFrame DEF EnabledInv, Channel
  <2> QED
    BY <2>1, <2>2
<1>5. InstagramInv'
  <2>1. CASE "instagram" \in enabled
    BY <1>1, <1>2, <2>1, InstagramRebootStep
  <2>2. CASE "instagram" \notin enabled
    <3>1. walk.at = "boot" /\ notified["instagram"] = 0
      BY <2>2 DEF EnabledInv
    <3>2. ~TurnOf("instagram")
      BY <3>1, TurnOverIg DEF InstagramInv
    <3> QED
      BY <1>1, <1>2, <1>3, <2>2, <3>1, <3>2, InstagramFrame
  <2> QED
    BY <2>1, <2>2
<1>6. EnabledInv'
  BY <1>1, <1>2, <1>3 DEF EnabledInv, instagram
<1> QED
  BY <1>2, <1>4, <1>5, <1>6

LEMMA DeviceStep == DeviceInv /\ [ChannelsNext]_all => DeviceInv'
<1> SUFFICES ASSUME DeviceInv, [ChannelsNext]_all PROVE DeviceInv'
  OBVIOUS
<1>1. CASE UNCHANGED all
  <2> USE DEF DeviceInv, ChannelsInv
  <2>1. UNCHANGED agent /\ UNCHANGED telegram /\ UNCHANGED instagram /\ enabled' = enabled
    BY <1>1 DEF all, device
  <2>2. AgentInv' /\ InAgent' = InAgent /\ notified' = notified /\ TurnOf("instagram")' = TurnOf("instagram")
    BY <2>1, AgentAlone
  <2>3. TelegramInv'
    BY <2>1, <2>2, TelegramFrame
  <2>4. InstagramInv'
    BY <2>1, <2>2, InstagramFrame
  <2>5. EnabledInv'
    BY <2>1, <2>2 DEF EnabledInv, instagram
  <2> QED
    BY <2>2, <2>3, <2>4, <2>5
<1>2. CASE ChannelsNext
  BY <1>2, TelegramPart, InstagramPart, AgentPart, RebootPart DEF ChannelsNext, TelegramStep, InstagramStep
<1> QED
  BY <1>1, <1>2

LEMMA DeviceStarts == ChannelsInit => DeviceInv
<1> SUFFICES ASSUME ChannelsInit PROVE DeviceInv
  OBVIOUS
<1>1. AgentInit /\ TelegramInit /\ InstagramInit
  BY DEF ChannelsInit
<1>2. AgentInv /\ InAgent = {}
  BY <1>1, AgentStarts
<1>3. TelegramInv /\ InstagramInv
  BY <1>1, <1>2, TelegramStarts, InstagramStarts
<1>4. walk.at = "boot" /\ notified["telegram"] = 0 /\ notified["instagram"] = 0
  BY <1>1, ChannelsAssumption DEF InstagramInit, AgentInit, Resting
<1> QED
  BY <1>2, <1>3, <1>4 DEF DeviceInv, ChannelsInv, EnabledInv

(* Of every behaviour of the device the invariant holds: the order in the  *)
(* agent's queue, the poller's and the walk's places, what has ended and   *)
(* what was passed over, and the texts on their way out.                   *)
THEOREM ChannelsInvariant == ChannelsSpec => []DeviceInv
<1>1. ChannelsInit => DeviceInv
  BY DeviceStarts
<1>2. DeviceInv /\ [ChannelsNext]_all => DeviceInv'
  BY DeviceStep
<1> QED
  BY <1>1, <1>2, PTL DEF ChannelsSpec

(***************************************************************************)
(* What follows of every state                                             *)
(***************************************************************************)
LEMMA KeepsItsTypes == DeviceInv => ChannelsTypes
<1> SUFFICES ASSUME DeviceInv PROVE TelegramTypes /\ IgTypes
  BY DEF ChannelsTypes
<1>1. TelegramTypes
  BY DEF DeviceInv, ChannelsInv, TelegramInv
<1>2. IgTyped /\ OutTyped /\ WalkInv
  BY DEF DeviceInv, ChannelsInv, InstagramInv
<1>3. ram.mark \in 0..MaxItems /\ walk.page \in 0..(PageCount - 1)
  BY <1>2 DEF IgTyped, RamType, WalkType
<1> QED
  BY <1>1, <1>2, <1>3 DEF IgTypes, IgTyped, OutTyped, WalkInv

(* No message is handled again but after a restart that met it unfinished, *)
(* a failed turn, a refused answer, a save that failed, or a new owner.    *)
THEOREM NothingIsRepeated == ChannelsSpec => []NothingRepeated
<1>1. DeviceInv => NothingRepeated
  <2> SUFFICES ASSUME DeviceInv PROVE NothingRepeated
    OBVIOUS
  <2>1. UpdatesNotRepeated
    <3> SUFFICES ASSUME NEW n \in Updates PROVE ends[n] + Cardinality({n} \cap Held) <= 1 + redone[n]
      BY DEF UpdatesNotRepeated
    <3>1. /\ ends[n] \in Nat /\ redone[n] \in Nat
          /\ ends[n] <= redone[n] + (IF Met(n) /\ n \notin Held THEN 1 ELSE 0)
      BY DEF DeviceInv, ChannelsInv, TelegramInv, TelegramTypes, CountInv
    <3>2. CASE n \in Held
      <4>1. {n} \cap Held = {n}
        BY <3>2
      <4>2. Cardinality({n} \cap Held) = 1
        BY <4>1, FS_Singleton
      <4> QED
        BY <3>1, <3>2, <4>2
    <3>3. CASE n \notin Held
      <4>1. {n} \cap Held = {}
        BY <3>3
      <4>2. Cardinality({n} \cap Held) = 0
        BY <4>1, FS_EmptySet
      <4> QED
        BY <3>1, <4>2
    <3> QED
      BY <3>2, <3>3
  <2>2. IgNotRepeated
    <3> SUFFICES ASSUME NEW p \in People, NEW i \in Items PROVE done[p][i] <= 1 + again[p][i]
      BY DEF IgNotRepeated
    <3>1. done[p][i] \in Nat /\ again[p][i] \in Nat
      BY DEF DeviceInv, ChannelsInv, InstagramInv, IgTyped, Counts
    <3>2. done[p][i] <= again[p][i] + (IF Passed(i) \/ InHandDone(p, i) THEN 1 ELSE 0)
      BY DEF DeviceInv, ChannelsInv, InstagramInv, RepeatInv
    <3> QED
      BY <3>1, <3>2
  <2> QED
    BY <2>1, <2>2 DEF NothingRepeated
<1> QED
  BY <1>1, ChannelsInvariant, PTL

(* The conversation that is read is that of the person the stored name     *)
(* stands for, unless the change of the name was cut off or came between   *)
(* the boot and the first poll.                                            *)
THEOREM OnlyTheOwnerIsRead == ChannelsSpec => []OwnersOnly
<1>1. DeviceInv => OwnersOnly
  BY DEF DeviceInv, ChannelsInv, InstagramInv, OwnersInv, OwnersOnly
<1> QED
  BY <1>1, ChannelsInvariant, PTL

(* The mark passes a message only when all it led to has been accepted, or *)
(* what the flush waited for was not about this message alone.             *)
THEOREM AnswersComeFirst == ChannelsSpec => []AnsweredFirst
<1>1. DeviceInv => AnsweredFirst
  BY DEF DeviceInv, ChannelsInv, InstagramInv, AnswersInv
<1> QED
  BY <1>1, ChannelsInvariant, PTL

(***************************************************************************)
(* What every step does                                                    *)
(***************************************************************************)
(* The agent's queue and turn move in few ways, whoever moves them.        *)
LEMMA AgentMoves ==
  ASSUME [ChannelsNext]_all
  PROVE  \/ queue' = queue /\ running' = running
         \/ TurnStarts
         \/ running # <<>> /\ running' = <<>> /\ queue' = queue
         \/ queue' = <<>> /\ running' = <<>>
         \/ running' = running /\ \E new : Submit(new) /\ (Given(new) \/ new.picture = "")
<1>1. CASE UNCHANGED all
  BY <1>1 DEF all, agent
<1>2. CASE TelegramStep
  <2>1. CASE PollAnswered \/ PollFails \/ Ignore \/ AnswerInPlace \/ PhotoDone \/ \E kind \in Writings : Write(kind)
    BY <2>1 DEF PollAnswered, PollFails, Ignore, AnswerInPlace, PhotoDone, Write, agent
  <2>2. CASE SubmitText
    <3>1. PICK kind : Submit(Message(poller.n, kind, FALSE, ""))
      BY <2>2 DEF SubmitText
    <3>2. running' = running /\ Given(Message(poller.n, kind, FALSE, ""))
      BY <2>2 DEF SubmitText, Given, Message
    <3> QED
      BY <3>1, <3>2
  <2>3. CASE SubmitPhoto
    <3>1. PICK kind, picture : SubmitAndWait(Message(poller.n, kind, TRUE, picture))
      BY <2>3 DEF SubmitPhoto
    <3>2. running' = running /\ Given(Message(poller.n, kind, TRUE, picture))
      BY <2>3 DEF SubmitPhoto, Given, Message
    <3> QED
      BY <3>1, <3>2 DEF SubmitAndWait
  <2>4. CASE TelegramTurnEnds
    BY <2>4 DEF TelegramTurnEnds, TurnEnds
  <2> QED
    BY <1>2, <2>1, <2>2, <2>3, <2>4 DEF TelegramStep, TelegramPoller, TelegramTurn, TelegramWorld, Process
<1>3. CASE InstagramPoller
  <2>1. CASE SubmitIg
    <3>1. Submit(IgMessage(Mine[Item])) /\ running' = running
      BY <2>1 DEF SubmitIg, SubmitAndWait
    <3>2. IgMessage(Mine[Item]).picture = ""
      BY DEF IgMessage
    <3> QED
      BY <3>1, <3>2
  <2>2. CASE IgTurnDone
    BY <2>2 DEF IgTurnDone
  <2>3. CASE Load \/ Switch \/ FindBound \/ FindByName \/ Baseline \/ Find \/ Back
    BY <2>3 DEF Load, Switch, FindBound, FindByName, Baseline, Find, Back, agent
  <2>4. CASE SyncEnds \/ SkipOut \/ SkipDeleted \/ IgFlush \/ Save \/ SayOdd
    BY <2>4 DEF SyncEnds, SkipOut, SkipDeleted, IgFlush, Save, SayOdd, agent
  <2> QED
    BY <1>3, <2>1, <2>2, <2>3, <2>4 DEF InstagramPoller
<1>4. CASE InstagramOut
  <2>1. CASE ClearIdle \/ QueuePart \/ Accepted \/ PendingComplete \/ SetIdle \/ TurnSays
    BY <2>1 DEF ClearIdle, QueuePart, Accepted, PendingComplete, SetIdle, TurnSays, agent
  <2>2. CASE IgTurnEnds \/ JobTurnEnds
    BY <2>2 DEF IgTurnEnds, JobTurnEnds, TurnEnds
  <2> QED
    BY <1>4, <2>1, <2>2 DEF InstagramOut
<1>5. CASE InstagramWorld
  <2>1. CASE JobSubmitted
    <3> DEFINE job == [from |-> "jobs", n |-> 0, kind |-> "text", waits |-> FALSE, picture |-> ""]
    <3>1. Submit(job) /\ running' = running
      BY <2>1 DEF JobSubmitted
    <3>2. job.picture = ""
      OBVIOUS
    <3> HIDE DEF job
    <3> QED
      BY <3>1, <3>2
  <2>2. CASE SetOwner \/ SwitchFails \/ FindUnsaved \/ BaselineFails
    BY <2>2 DEF SetOwner, SwitchFails, FindUnsaved, BaselineFails, agent
  <2>3. CASE FetchFails \/ SaveFails \/ Refused \/ \E p \in People, kind \in Arrivals : Arrive(p, kind)
    BY <2>3 DEF FetchFails, SaveFails, Refused, Arrive, agent
  <2> QED
    BY <1>5, <2>1, <2>2, <2>3 DEF InstagramWorld
<1>6. CASE AgentStep
  BY <1>6 DEF AgentStep
<1>7. CASE Reboot
  BY <1>7 DEF Reboot, AgentReboot
<1> QED
  BY <1>1, <1>2, <1>3, <1>4, <1>5, <1>6, <1>7 DEF ChannelsNext, TelegramStep

PicturesInv == \A m \in InAgent : Given(m) \/ m.picture = ""

LEMMA PicturesStep == DeviceInv /\ PicturesInv /\ [ChannelsNext]_all => PicturesInv'
<1> SUFFICES ASSUME DeviceInv, PicturesInv, [ChannelsNext]_all PROVE PicturesInv'
  OBVIOUS
<1>1. queue \in Seq(Messages) /\ running \in Seq(Messages) /\ AgentInv
  BY DEF DeviceInv, ChannelsInv, AgentInv, AgentTypes
<1>2. CASE queue' = queue /\ (running' = running \/ running' = <<>>)
  <2>1. InAgent' = Queued(queue') \cup Queued(running')
    BY DEF InAgent, Queued
  <2>2. Queued(<<>>) = {}
    BY DEF Queued
  <2>3. InAgent' \subseteq InAgent
    BY <1>2, <2>1, <2>2, InAgentIs
  <2> QED
    BY <2>3 DEF PicturesInv
<1>3. CASE TurnStarts
  <2>1. InAgent' = InAgent
    BY <1>1, <1>3, StartStep
  <2> QED
    BY <2>1 DEF PicturesInv
<1>4. CASE queue' = <<>> /\ running' = <<>>
  <2>1. InAgent' = Queued(queue') \cup Queued(running')
    BY DEF InAgent, Queued
  <2>2. Queued(<<>>) = {}
    BY DEF Queued
  <2> QED
    BY <1>4, <2>1, <2>2 DEF PicturesInv
<1>5. ASSUME running' = running, NEW new, Submit(new), Given(new) \/ new.picture = ""
      PROVE  PicturesInv'
  <2>1. queue' = <<new>> \o queue \/ queue' = Append(queue, new)
    BY <1>5 DEF Submit
  <2>2. Queued(queue') \subseteq Queued(queue) \cup {new}
    BY <1>1, <2>1, JoinsAny
  <2>3. InAgent' = Queued(queue') \cup Queued(running')
    BY DEF InAgent, Queued
  <2>4. InAgent' \subseteq InAgent \cup {new}
    BY <1>5, <2>2, <2>3, InAgentIs
  <2> QED
    BY <1>5, <2>4 DEF PicturesInv
<1> QED
  BY <1>2, <1>3, <1>4, <1>5, AgentMoves

(* A picture of which a part is missing, and whose size Telegram had told, *)
(* never reaches the agent.                                                *)
THEOREM PicturesStayWhole == ChannelsSpec => []PicturesWhole
<1>1. ChannelsInit => PicturesInv
  BY AgentStarts DEF ChannelsInit, PicturesInv
<1>2. DeviceInv /\ PicturesInv /\ [ChannelsNext]_all => PicturesInv'
  BY PicturesStep
<1>3. DeviceInv /\ PicturesInv => PicturesWhole
  <2> SUFFICES ASSUME DeviceInv, PicturesInv, NEW m \in InAgent PROVE m.picture # "cut"
    BY DEF PicturesWhole
  <2>1. Given(m) => m.picture # "cut"
    BY DEF DeviceInv, ChannelsInv, TelegramInv, HeldInv
  <2> QED
    BY <2>1 DEF PicturesInv
<1> QED
  BY <1>1, <1>2, <1>3, ChannelsInvariant, PTL DEF ChannelsSpec

(* On neither channel a message of the owner is lost: it was handled to    *)
(* its end, or is with the agent, or a restart met it there, or the walk   *)
(* passed it over and says so; and what the agent gets of it is whole.     *)
THEOREM NothingIsLost == ChannelsSpec => []NothingLost
<1>1. DeviceInv => ChannelsTypes /\ UpdatesNotLost /\ IgNotLost
  <2> SUFFICES ASSUME DeviceInv PROVE ChannelsTypes /\ UpdatesNotLost /\ IgNotLost
    OBVIOUS
  <2>1. UpdatesNotLost
    BY DEF DeviceInv, ChannelsInv, TelegramInv
  <2>2. IgNotLost
    <3> SUFFICES ASSUME ram.conv # Nobody, ram.of = ram.conv, NEW i \in 1..ram.mark, Mine[i] \in Incoming
                 PROVE  done[ram.conv][i] > 0 \/ <<ram.conv, i>> \in skipped
      BY DEF IgNotLost
    <3>1. Settled(ram.of, i)
      BY DEF DeviceInv, ChannelsInv, InstagramInv, LostInv, Covered
    <3> QED
      BY <3>1 DEF Settled, Mine
  <2> QED
    BY <2>1, <2>2, KeepsItsTypes
<1>2. DeviceInv /\ PicturesWhole => NothingLost
  BY <1>1 DEF NothingLost
<1> QED
  BY <1>2, ChannelsInvariant, PicturesStayWhole, PTL

(* No text or picture overtakes an earlier one: when a turn starts for one *)
(* none that was sent before it still waits, however many commands went    *)
(* ahead of them.                                                          *)
THEOREM TextsKeepOrder == ChannelsSpec => TextsInOrder
<1>1. DeviceInv /\ [ChannelsNext]_all
        => [\A m \in {running'[i] : i \in 1..Len(running')} :
              running = <<>> /\ m.from = Channel /\ m.kind # "command"
                => \A h \in InAgent : h.from = Channel /\ h.kind # "command" => h.n >= m.n]_<<agent, telegram>>
  <2> SUFFICES ASSUME DeviceInv, [ChannelsNext]_all, NEW i \in 1..Len(running'), running = <<>>, Lined(running'[i]),
                      NEW h \in InAgent, Lined(h)
               PROVE  h.n >= running'[i].n
    BY DEF Lined
  <2>1. queue \in Seq(Messages) /\ AgentInv /\ Len(queue) \in Nat
    BY DEF DeviceInv, ChannelsInv, AgentInv, AgentTypes
  <2>2. CASE running' = <<>>
    BY <2>2
  <2>3. CASE TurnStarts
    <3>1. Len(running') = 1 /\ running'[1] = queue[1] /\ queue # <<>>
      BY <2>1, <2>3, StartFacts DEF AgentInv, TurnStarts
    <3>2. running'[i] = queue[1] /\ 1 \in DOMAIN queue
      BY <2>1, <3>1
    <3>3. PICK j \in DOMAIN queue : h = queue[j]
      BY <2>1, InAgentIs DEF Queued
    <3>4. queue[1].n \in Nat
      <4>1. queue[1] \in Messages
        BY <2>1, <3>2
      <4> QED
        BY <4>1 DEF Messages
    <3>5. CASE j = 1
      BY <3>2, <3>3, <3>4, <3>5
    <3>6. CASE j # 1
      <4>1. 1 < j /\ Lined(queue[1]) /\ Lined(queue[j])
        BY <2>1, <3>2, <3>3, <3>6
      <4>2. queue[1].n < queue[j].n
        BY <2>1, <3>2, <4>1 DEF AgentInv, InLine
      <4>3. queue[j].n \in Nat
        <5>1. queue[j] \in Messages
          BY <2>1
        <5> QED
          BY <5>1 DEF Messages
      <4> QED
        BY <3>2, <3>3, <3>4, <4>2, <4>3
    <3> QED
      BY <3>5, <3>6
  <2> QED
    BY <2>2, <2>3, AgentMoves
<1> QED
  BY <1>1, ChannelsInvariant, PTL DEF ChannelsSpec, TextsInOrder

(* Only the item in hand is handled.                                       *)
LEMMA HandledHere ==
  ASSUME DeviceInv, [ChannelsNext]_all
  PROVE  done' = done \/ (Walking /\ walk.next <= walk.last /\ done' = Once(done, Here))
<1> USE DEF DeviceInv, ChannelsInv, InstagramInv
<1>1. CASE UNCHANGED all \/ TelegramStep \/ AgentStep
  BY <1>1 DEF all, instagram, record, TelegramStep, TelegramPoller, TelegramTurn, TelegramWorld, TelegramTasks, AgentStep
<1>2. CASE InstagramPoller
  <2>1. CASE Load \/ Switch \/ FindBound \/ FindByName \/ Baseline \/ Find \/ Back
    BY <2>1 DEF Load, Switch, FindBound, FindByName, Baseline, Find, Back, record
  <2>2. CASE SyncEnds \/ SkipOut \/ SubmitIg \/ IgTurnDone \/ Save \/ SayOdd
    BY <2>2 DEF SyncEnds, SkipOut, SubmitIg, IgTurnDone, Save, SayOdd, record
  <2>3. CASE SkipDeleted
    BY <2>3 DEF SkipDeleted, Handling, Walking
  <2>4. CASE IgFlush
    BY <2>4 DEF IgFlush, Walking, WalkInv
  <2> QED
    BY <1>2, <2>1, <2>2, <2>3, <2>4 DEF InstagramPoller
<1>3. CASE InstagramOut
  <2>1. CASE ClearIdle \/ QueuePart \/ Accepted \/ PendingComplete \/ SetIdle \/ TurnSays \/ JobTurnEnds
    BY <2>1 DEF ClearIdle, QueuePart, Accepted, PendingComplete, SetIdle, TurnSays, JobTurnEnds, record
  <2>2. CASE IgTurnEnds
    <3>1. TurnOf("instagram") /\ done' = Once(done, <<ram.conv, running[1].n>>)
      BY <2>2 DEF IgTurnEnds
    <3>2. walk.at = "wait" /\ running[1].n = Item
      BY <3>1, TurnOverIg
    <3> QED
      BY <3>1, <3>2 DEF Walking, WalkInv, Here
  <2> QED
    BY <1>3, <2>1, <2>2 DEF InstagramOut
<1>4. CASE InstagramWorld
  BY <1>4 DEF InstagramWorld, SetOwner, SwitchFails, FindUnsaved, BaselineFails, FetchFails, SaveFails, JobSubmitted,
              Refused, Arrive, record
<1>5. CASE Reboot
  BY <1>5 DEF Reboot, InstagramReboot, instagram, record
<1> QED
  BY <1>1, <1>2, <1>3, <1>4, <1>5 DEF ChannelsNext, TelegramStep

SkippedInv == skipped \subseteq People \X Items

LEMMA SkippedMoves ==
  ASSUME [ChannelsNext]_all
  PROVE  skipped' = skipped \/ skipped' = {} \/ Baseline \/ BaselineFails \/ Back
<1>1. CASE UNCHANGED all \/ TelegramStep \/ AgentStep
  BY <1>1 DEF all, instagram, record, TelegramStep, TelegramPoller, TelegramTurn, TelegramWorld, TelegramTasks, AgentStep
<1>2. CASE InstagramPoller
  BY <1>2 DEF InstagramPoller, Load, Switch, FindBound, FindByName, Find, SyncEnds, SkipOut, SkipDeleted, SubmitIg,
              IgTurnDone, IgFlush, Save, SayOdd, record
<1>3. CASE InstagramOut
  BY <1>3 DEF InstagramOut, ClearIdle, QueuePart, Accepted, PendingComplete, SetIdle, TurnSays, IgTurnEnds,
              JobTurnEnds, record
<1>4. CASE InstagramWorld
  BY <1>4 DEF InstagramWorld, SetOwner, SwitchFails, FindUnsaved, FetchFails, SaveFails, JobSubmitted, Refused,
              Arrive, record
<1>5. CASE Reboot
  BY <1>5 DEF Reboot, InstagramReboot, instagram, record
<1> QED
  BY <1>1, <1>2, <1>3, <1>4, <1>5 DEF ChannelsNext, TelegramStep

LEMMA SkippedStep == DeviceInv /\ SkippedInv /\ [ChannelsNext]_all => SkippedInv'
<1> SUFFICES ASSUME DeviceInv, SkippedInv, [ChannelsNext]_all PROVE SkippedInv'
  OBVIOUS
<1>1. IgTyped /\ WalkInv
  BY DEF DeviceInv, ChannelsInv, InstagramInv
<1>2. CASE skipped' = skipped \/ skipped' = {}
  BY <1>2 DEF SkippedInv
<1>3. CASE Baseline \/ BaselineFails
  <2>1. skipped' = skipped \/ (Seen # {} /\ skipped' = skipped \cup Unhandled(ram.conv, 1..Newest))
    BY <1>3 DEF Baseline, BaselineFails
  <2>2. ram.conv \in People /\ Mine \in Seq(ItemKinds) /\ Len(Mine) \in Nat /\ Len(Mine) <= MaxItems
    <3>1. ram.conv # Nobody
      BY <1>3 DEF Baseline, BaselineFails
    <3> QED
      BY <1>1, <3>1, IgNumbers DEF Mine
  <2>3. Seen # {} => Newest \in 1..Len(Mine)
    BY <2>2, NewestFacts
  <2>4. Seen # {} => 1..Newest \subseteq Items
    BY <2>2, <2>3, Bounds
  <2>5. Seen # {} => Unhandled(ram.conv, 1..Newest) \subseteq People \X Items
    BY <2>2, <2>4 DEF Unhandled
  <2> QED
    BY <2>1, <2>5 DEF SkippedInv
<1>4. CASE Back
  <2> DEFINE c == walk.cursors[walk.page]
             passed == {j \in Cursor..(Bottom(Mine, c) - 1) : Mine[j] \in Incoming}
  <2>1. skipped' = skipped \cup {<<ram.conv, i>> : i \in passed}
    BY <1>4 DEF Back
  <2>2. walk.at = "handle" /\ walk.next > walk.last /\ walk.page > 0
    BY <1>4 DEF Back, PageDone
  <2>3. /\ ram.conv \in People /\ Cursor \in 2..Len(Mine) /\ Len(Mine) \in Nat
        /\ Top(Mine, c) \in 0..Len(Mine) /\ Bottom(Mine, c) \in Nat /\ Bottom(Mine, c) <= Top(Mine, c) + 1
    BY <1>1, <2>2, BackFacts
  <2>4. Len(Mine) <= MaxItems
    BY <1>1, <2>3, IgNumbers DEF Mine
  <2>5. Cursor..(Bottom(Mine, c) - 1) \subseteq Items
    <3> HIDE DEF c
    <3>1. Bottom(Mine, c) - 1 <= Len(Mine)
      BY <2>3
    <3> QED
      BY <2>3, <2>4, <3>1, Bounds
  <2>6. passed \subseteq Items
    BY <2>5
  <2> HIDE DEF passed
  <2> QED
    BY <2>1, <2>3, <2>6 DEF SkippedInv
<1> QED
  BY <1>2, <1>3, <1>4, SkippedMoves

(* What was passed over and is behind the mark is never handled afterwards *)
(* (baseline_messages, sync_messages).                                     *)
THEOREM SkippedStaySkipped == ChannelsSpec => SkippedStay
<1>1. ChannelsInit => SkippedInv
  <2> SUFFICES ASSUME ChannelsInit PROVE SkippedInv
    OBVIOUS
  <2>1. PICK start \in Starts : threads = start.threads /\ flash = start.flash
    BY DEF ChannelsInit, InstagramInit
  <2>2. flash \in Flashes /\ (flash.of = Nobody => flash.mark = 0)
    BY <2>1, StartsAssumption
  <2>3. flash.mark \in 0..MaxItems /\ flash.of \in People \cup {Nobody}
    BY <2>2 DEF Flashes
  <2>4. skipped = {<<flash.of, i>> : i \in 1..flash.mark}
    BY DEF ChannelsInit, InstagramInit
  <2>5. 1..flash.mark \subseteq Items /\ (flash.of = Nobody => 1..flash.mark = {})
    BY <2>2, <2>3, Bounds
  <2> QED
    BY <2>3, <2>4, <2>5 DEF SkippedInv
<1>2. DeviceInv /\ SkippedInv /\ [ChannelsNext]_all => SkippedInv'
  BY SkippedStep
<1>3. DeviceInv /\ SkippedInv /\ [ChannelsNext]_all
        => [\A item \in skipped : (item[1] = ram.of /\ item[2] <= ram.mark)
              => done'[item[1]][item[2]] = done[item[1]][item[2]]]_<<agent, instagram>>
  <2> SUFFICES ASSUME DeviceInv, SkippedInv, [ChannelsNext]_all, NEW item \in skipped,
                      item[1] = ram.of, item[2] <= ram.mark
               PROVE  done'[item[1]][item[2]] = done[item[1]][item[2]]
    OBVIOUS
  <2>1. IgTyped /\ WalkInv
    BY DEF DeviceInv, ChannelsInv, InstagramInv
  <2>2. PICK p \in People, i \in Items : item[1] = p /\ item[2] = i
    BY DEF SkippedInv
  <2>3. CASE Walking /\ walk.next <= walk.last /\ done' = Once(done, Here)
    <3>1. ram.conv \in People /\ Item \in Items /\ Item \in Nat /\ ram.mark \in Nat /\ ram.mark < Item
      BY <2>1, <2>3, InHandFacts
    <3>2. i \in Nat /\ i # Item
      BY <2>2, <3>1, Bounds
    <3>3. \A q \in People, j \in Items : (q # ram.conv \/ j # Item) => done'[q][j] = done[q][j]
      BY <2>1, <2>3, <3>1, OnceHere DEF IgTyped
    <3> QED
      BY <2>2, <3>2, <3>3
  <2> QED
    BY <2>3, HandledHere
<1> QED
  BY <1>1, <1>2, <1>3, ChannelsInvariant, PTL DEF ChannelsSpec, SkippedStay
=============================================================================
