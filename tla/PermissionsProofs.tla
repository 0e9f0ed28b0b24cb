-------------------------- MODULE PermissionsProofs --------------------------
(***************************************************************************)
(* Theorems about permissions: a call that needs one runs once and only    *)
(* for a /confirm under its own chat in time, prompts stay answerable,     *)
(* changes follow reads, and a chat's reset takes its three messages, for  *)
(* any arena, chats, tools and times, with the console's reset between any *)
(* two steps; as long as no job carries a command, the chat itself said    *)
(* the words.                                                              *)
(***************************************************************************)
EXTENDS Permissions, FiniteSetTheorems, TLAPS

(***************************************************************************)
(* Types.                                                                  *)
(***************************************************************************)
Record ==
  [id : Ids, chat : Chats, tool : Tools, expires : 0..(MaxTime + TimeToLive),
   fate : {"new", "told", "forgotten", "lost"}]
ChatOrNone == {""} \cup Chats
Turns    == [chat : ChatOrNone, batch : 0..MaxBatches, reads : SUBSET Reads, before : SUBSET Reads]
Jobs     == [chat : ChatOrNone, id : {0} \cup Ids, tool : {""} \cup Tools,
             at : 0..(Capacity - 1), held : Nat]
Resets   == [step : 0..2, expires : Nat, chat : ChatOrNone]
Messages == [what : {"ask", "confirm"}, chat : Chats, at : Nat, from : Origins]
Steps    == {"idle", "batch", "ask", "fill", "publish", "spin", "copy", "remove", "execute"}
Slots    == 0..(Capacity - 1)

ArenaTypes ==
  /\ now \in 0..MaxTime
  /\ records \in Seq({Gone} \cup Record) /\ Len(records) <= MaxRecords
  /\ cells \in [Slots -> {Zeroed} \cup Serials] /\ used \in 0..Capacity
  /\ nextId \in FirstId..(FirstId + Len(records))
  /\ step \in {"fill", "publish"} => used < Capacity
  /\ step = "fill" => Len(records) < MaxRecords

TaskTypes ==
  /\ step \in Steps /\ job \in Jobs /\ job.held \in {Zeroed} \cup Serials
  /\ step \in {"ask", "fill"} => job.chat \in Chats /\ job.tool \in Tools
  /\ step = "publish" => job.held # Zeroed
  /\ approved \cup carried \subseteq Serials /\ ran \in Seq(Nat)

TurnTypes ==
  /\ modes \in [Services -> Modes]
  /\ turn \in Turns /\ turn.before \subseteq turn.reads
  /\ turn # Idle => turn.chat \in Chats /\ turn.batch > 0
  /\ step = "batch" => turn # Idle
  /\ readIn \in [Reads -> 0..MaxBatches]
  /\ acted \in SUBSET [tool : Tools, batch : 1..MaxBatches]

ResetTypes == reset \in Resets /\ heard \in Seq(Messages) /\ wiping \in BOOLEAN

TypesInv == ArenaTypes /\ TaskTypes /\ TurnTypes /\ ResetTypes

(***************************************************************************)
(* The arena.  A record that was told is in use; a zeroed record is in use *)
(* only when no prompt waits behind it; a record not yet told is the one   *)
(* being published, in the cell s_used points to.                          *)
(***************************************************************************)
HasFate(s, fate) == s \in Serials /\ records[s].fate = fate

Told(s) == HasFate(s, "told")
New(s)  == HasFate(s, "new")

NoneTold == \A s \in Serials : ~Told(s)

Distinct  == \A i, j \in Slots : cells[i] = cells[j] /\ cells[i] # Zeroed => i = j
Fates     == \A i \in Slots : cells[i] # Zeroed =>
               HasFate(cells[i], "told") \/ HasFate(cells[i], "lost") \/ HasFate(cells[i], "new")
ToldInUse == \A i \in Slots : Told(cells[i]) => i < used
ToldFound == \A s \in Serials : Told(s) /\ Alive(s) => \E i \in 0..(used - 1) : cells[i] = s
OneNew    == \A s \in Serials : New(s) => step = "publish" /\ s = job.held /\ cells[used] = s
Clear ==
  ~wiping =>
    /\ ~NoneTold \/ step = "fill" \/ (step = "publish" /\ New(job.held)) => CanPurge
    /\ step = "publish" /\ ~New(job.held) => NoneTold

ArenaInv == Distinct /\ Fates /\ ToldInUse /\ ToldFound /\ OneNew /\ Clear

(***************************************************************************)
(* From the answer to the call.  What has run is nowhere in the arena, nor *)
(* is what is about to run.                                                *)
(***************************************************************************)
InCells(s) == \E i \in Slots : cells[i] = s

Granted == IsInjective(ran) /\ Range(ran) \subseteq approved \cup carried

AnswersInv ==
  /\ Granted
  /\ \A s \in Range(ran) : ~InCells(s)
  /\ step = "copy" => cells[job.at] \in {Zeroed} \cup approved \cup carried
  /\ step \in {"remove", "execute"} /\ job.held # Zeroed => job.held \in (approved \cup carried) \ Range(ran)
  /\ step = "execute" => job.held # Zeroed /\ ~InCells(job.held)
  /\ step = "remove" /\ job.held # Zeroed =>
       \A i \in Slots : cells[i] = job.held => i = job.at

(***************************************************************************)
(* The turn and the reset.                                                 *)
(***************************************************************************)
TurnInv ==
  /\ \A k \in Reads : readIn[k] <= turn.batch
  /\ \A k \in turn.reads : readIn[k] \in 1..turn.batch
  /\ \A k \in turn.before : readIn[k] \in 1..(turn.batch - 1)
  /\ ReadsFirst

\* What a job said, some turn had stored.
JobsInv ==
  /\ jobs \subseteq [chat : Chats, command : Prompts]
  /\ carried # {} => \E j \in jobs : j.command[1] = "confirm"
  /\ \A i \in DOMAIN heard : heard[i].from = "job" =>
       \E j \in jobs : j.chat = heard[i].chat /\ j.command[1] = "reset"

ResetInv ==
  reset.step > 0 =>
    /\ Len(heard) = reset.step /\ \A i \in DOMAIN heard : heard[i].chat = reset.chat
    /\ reset.expires = heard[1].at + TimeToLive

PermissionsInv == TypesInv /\ ArenaInv /\ AnswersInv /\ TurnInv /\ ResetInv /\ JobsInv

\* A call that ran, whatever it stored.
CallDone(tool) == Runs(tool) /\ UNCHANGED <<approved, carried, ran, heard>>
----------------------------------------------------------------------------
LEMMA StepsOfNext ==
  ASSUME [Next]_vars
  PROVE  \/ \E chat \in Chats, from \in Origins :
              \/ StartTurn(chat) \/ ScheduledEmailAsks(chat)
              \/ \E id \in Ids : Confirm(chat, id, from) \/ Cancel(chat, id, from)
              \/ ResetAsk(chat, from) \/ ResetCancel(chat, from) \/ ResetConfirm(chat, from)
              \/ ResetRefused(chat, from) \/ ResetState(chat, from)
         \/ \E tool \in Tools : CallDone(tool) \/ CallAsks(tool)
         \/ NextBatch \/ EndTurn
         \/ AskRoom \/ AskFill \/ AskPublish
         \/ FindSpins \/ SpinEnds \/ TakeCopy \/ RemoveRecord \/ Reboot \/ Execute
         \/ WipeCells \/ WipeUsed \/ Tick
         \/ \E service \in Services, mode \in Modes : SetMode(service, mode)
         \/ UNCHANGED vars
<1>1. Origins # {} /\ \A tool : CallRuns(tool) \/ (\E command : CallStores(tool, command)) => CallDone(tool)
  BY DEF Origins, CallRuns, CallStores, CallDone, history
<1> QED BY <1>1 DEF Next, RemoveFaults

LEMMA ChatsNamed == "" \in ChatOrNone /\ Chats \subseteq ChatOrNone
BY Zenon DEF ChatOrNone

LEMMA SeqOfFunction ==
  ASSUME NEW R, NEW n \in Nat, NEW f \in [1..n -> R]
  PROVE  f \in Seq(R) /\ Len(f) = n /\ DOMAIN f = 1..n
OBVIOUS

(***************************************************************************)
(* purge_expired.                                                          *)
(***************************************************************************)
LEMMA Places ==
  ASSUME used \in Nat
  PROVE  /\ IsFiniteSet(Stay) /\ Cardinality(Stay) \in 0..used
         /\ \A i \in Stay : Place(i) \in 0..(Cardinality(Stay) - 1)
         /\ \A i, k \in Stay : Place(i) = Place(k) => i = k
         /\ \A c \in 0..(Cardinality(Stay) - 1) : \E i \in Stay : Place(i) = c
<1>0. IsFiniteSet(0..(used - 1)) /\ Cardinality(0..(used - 1)) = used
  BY FS_Interval
<1>1. /\ Stay \subseteq 0..(used - 1) /\ IsFiniteSet(Stay) /\ Cardinality(Stay) \in Nat
      /\ Cardinality(Stay) <= used
  <2>1. Stay \in SUBSET (0..(used - 1))
    BY DEF Stay
  <2>2. IsFiniteSet(Stay) /\ Cardinality(Stay) <= used
    BY <1>0, <2>1, FS_Subset
  <2> QED BY <2>1, <2>2, FS_CardinalityType
<1> DEFINE Before(i) == {j \in Stay : j < i}
           n == Cardinality(Stay)
<1>2. ASSUME NEW i \in Stay, NEW T \in SUBSET Stay, Before(i) \subseteq T, i \in T
      PROVE  Place(i) < Cardinality(T) /\ Place(i) \in Nat
  <2>1. IsFiniteSet(T) /\ Before(i) \in SUBSET T /\ i \notin Before(i) /\ Cardinality(T) \in Nat
    <3>1. IsFiniteSet(T)
      BY <1>1, FS_Subset
    <3>2. i \notin Before(i) /\ Before(i) \in SUBSET T
      BY <1>1, <1>2
    <3> QED BY <3>1, <3>2, FS_CardinalityType
  <2>2. /\ IsFiniteSet(Before(i)) /\ Cardinality(Before(i)) <= Cardinality(T)
        /\ (Cardinality(T) = Cardinality(Before(i)) => T = Before(i))
    BY <2>1, FS_Subset
  <2>3. Cardinality(Before(i)) \in Nat /\ Place(i) = Cardinality(Before(i))
    BY <2>2, FS_CardinalityType DEF Place
  <2> QED BY <1>2, <2>1, <2>2, <2>3
<1>3. \A i \in Stay : Place(i) \in 0..(n - 1)
  <2> SUFFICES ASSUME NEW i \in Stay PROVE Place(i) \in 0..(n - 1)
    OBVIOUS
  <2>1. Before(i) \subseteq Stay /\ Stay \in SUBSET Stay
    OBVIOUS
  <2>2. Place(i) < n /\ Place(i) \in Nat
    BY <1>2, <2>1
  <2> HIDE DEF n
  <2> QED BY <1>1, <2>2 DEF n
<1>4. ASSUME NEW i \in Stay, NEW k \in Stay, i < k
      PROVE  Place(i) < Place(k)
  <2>1. Before(k) \in SUBSET Stay /\ i \in Before(k) /\ Before(i) \subseteq Before(k)
    <3>1. \A j \in Stay : j \in Int
      BY <1>1
    <3> QED BY <1>4, <3>1
  <2> QED BY <1>2, <2>1 DEF Place
<1> DEFINE f == [i \in Stay |-> Place(i)]
<1>5. f \in Injection(Stay, 0..(n - 1))
  <2>1. f \in [Stay -> 0..(n - 1)]
    BY <1>3
  <2>2. \A i, k \in Stay : f[i] = f[k] => i = k
    <3>1. \A i, k \in Stay : Place(i) = Place(k) => i = k
      <4>1. \A i \in Stay : Place(i) \in Nat
        BY <1>1, <1>3
      <4>2. \A i \in Stay : i \in Nat
        BY <1>1
      <4> QED BY <4>1, <4>2, <1>4
    <3> QED BY <3>1
  <2> QED BY <2>1, <2>2 DEF Injection, IsInjective
<1>6. f \in Surjection(Stay, 0..(n - 1))
  <2>1. IsFiniteSet(0..(n - 1)) /\ Cardinality(0..(n - 1)) = n
    <3>1. n \in Nat
      BY <1>1
    <3> HIDE DEF n
    <3> QED BY <3>1, FS_Interval
  <2> HIDE DEF f, n
  <2> QED BY <1>5, <2>1, FS_Injection DEF n
<1>7. \A c \in 0..(n - 1) : \E i \in Stay : Place(i) = c
  BY <1>6 DEF Surjection
<1>8. \A i, k \in Stay : Place(i) = Place(k) => i = k
  BY <1>5 DEF Injection, IsInjective
<1> QED BY <1>1, <1>3, <1>7, <1>8

LEMMA PurgeFacts ==
  ASSUME ArenaTypes, Purge
  PROVE  /\ cells' \in [Slots -> {Zeroed} \cup Serials] /\ used' \in 0..used
         /\ \A c \in 0..(used' - 1) : \E i \in Stay : cells'[c] = cells[i] /\ Place(i) = c
         /\ \A i \in Stay : \E c \in 0..(used' - 1) : cells'[c] = cells[i]
         /\ \A c \in Slots : c >= used' => cells'[c] = Zeroed \/ (c >= used /\ cells'[c] = cells[c])
<1> USE PermissionsAssumption
<1>0. used \in Nat /\ used <= Capacity /\ cells \in [Slots -> {Zeroed} \cup Serials] /\ DOMAIN cells = Slots
  BY DEF ArenaTypes
<1> DEFINE n == Cardinality(Stay)
           From(c) == CHOOSE i \in Stay : Place(i) = c
<1>1. /\ used' = n /\ n \in Nat /\ n <= used 
      /\ cells' = [c \in Slots |->
                    IF c < n THEN cells[From(c)] ELSE IF c < used THEN Zeroed ELSE cells[c]]
      /\ \A c \in Slots :
           cells'[c] = IF c < n THEN cells[From(c)] ELSE IF c < used THEN Zeroed ELSE cells[c]
  BY <1>0, Places DEF Purge, Purged
<1>2. \A c \in 0..(n - 1) : From(c) \in Stay /\ Place(From(c)) = c
  BY <1>0, Places
<1>3. Stay \subseteq Slots
  BY <1>0 DEF Stay, Slots
<1> HIDE DEF n, From
<1>4. \A c \in 0..(n - 1) : c \in Slots /\ cells'[c] = cells[From(c)]
  BY <1>0, <1>1 DEF Slots
<1>5. \A i \in Stay : \E c \in 0..(n - 1) : cells'[c] = cells[i]
  <2> SUFFICES ASSUME NEW i \in Stay PROVE \E c \in 0..(n - 1) : cells'[c] = cells[i]
    OBVIOUS
  <2>1. Place(i) \in 0..(n - 1)
    BY <1>0, Places DEF n
  <2>2. From(Place(i)) = i
    BY <1>0, <1>2, <2>1, Places
  <2> QED BY <1>4, <2>1, <2>2
<1>6. cells' \in [Slots -> {Zeroed} \cup Serials]
  <2>1. \A c \in Slots : c < n => cells[From(c)] \in {Zeroed} \cup Serials
    <3>1. ASSUME NEW c \in Slots, c < n
          PROVE  cells[From(c)] \in {Zeroed} \cup Serials
      <4>1. c \in 0..(n - 1)
        BY <1>1, <3>1 DEF Slots
      <4>2. From(c) \in Slots
        BY <1>2, <1>3, <4>1
      <4> QED BY <1>0, <4>2
    <3> QED BY <3>1
  <2> QED BY <1>0, <1>1, <2>1
<1>7. \A c \in 0..(n - 1) : \E i \in Stay : cells'[c] = cells[i] /\ Place(i) = c
  BY <1>2, <1>4
<1>8. \A c \in Slots : c >= n => cells'[c] = Zeroed \/ (c >= used /\ cells'[c] = cells[c])
  BY <1>0, <1>1 DEF Slots
<1> QED BY <1>1, <1>5, <1>6, <1>7, <1>8

(***************************************************************************)
(* Types.                                                                  *)
(***************************************************************************)
LEMMA StillArena ==
  ASSUME ArenaTypes, UNCHANGED <<cells, used, nextId, records>>, now' \in 0..MaxTime,
         step' \in {"fill", "publish"} => step' = step
  PROVE  ArenaTypes' /\ Serials' = Serials
BY DEF ArenaTypes, Serials

LEMMA FateChange ==
  ASSUME ArenaTypes, NEW f,
         f = [s \in Serials |-> f[s]],
         \A s \in Serials : f[s] \in {Gone} \cup Record
  PROVE  f \in Seq({Gone} \cup Record) /\ Len(f) = Len(records)
<1>1. Len(records) \in Nat
  BY DEF ArenaTypes
<1>2. f \in [1..Len(records) -> {Gone} \cup Record]
  BY DEF Serials
<1> QED BY <1>1, <1>2, SeqOfFunction

LEMMA FateTyped ==
  ASSUME ArenaTypes, NEW s \in Serials, NEW fate \in {"forgotten", "lost", "told"}
  PROVE  /\ records[s] \in {Gone} \cup Record
         /\ records[s].fate \in {"new", "told", "forgotten", "lost"} =>
              [records[s] EXCEPT !.fate = fate] \in Record
<1>1. records[s] \in {Gone} \cup Record
  BY DEF ArenaTypes, Serials
<1>2. records[s].fate \in {"new", "told", "forgotten", "lost"} => records[s] \in Record
  <2>1. Gone.fate = "removed"
    BY DEF Gone
  <2> QED BY <1>1, <2>1
<1> QED BY <1>1, <1>2 DEF Record

LEMMA SameFate ==
  ASSUME NEW r \in {Gone} \cup Record
  PROVE  [r EXCEPT !.fate = r.fate] = r
<1>1. CASE r = Gone
  BY <1>1 DEF Gone
<1>2. CASE r \in Record
  BY <1>2 DEF Record
<1> QED BY <1>1, <1>2

LEMMA TaskTypesStep ==
  ASSUME TypesInv, [Next]_vars, ArenaTypes', Serials \subseteq Serials'
  PROVE  TaskTypes'
<1>c. Capacity \in Nat
  BY PermissionsAssumption
<1>0. /\ step \in Steps /\ job \in Jobs /\ job.held \in {Zeroed} \cup Serials
      /\ approved \cup carried \subseteq Serials /\ ran \in Seq(Nat)
      /\ step \in {"ask", "fill"} => job.chat \in Chats /\ job.tool \in Tools
      /\ step = "publish" => job.held # Zeroed
  BY DEF TypesInv, TaskTypes
<1>z. Zeroed \in Nat /\ \A s \in Serials : s \in Nat
  BY DEF Serials, Zeroed
<1>n. NoJob \in Jobs /\ NoJob.held = Zeroed
  <2>1. 0 \in 0..(Capacity - 1)
    BY PermissionsAssumption
  <2> QED BY <2>1, ChatsNamed DEF NoJob, Jobs, Zeroed
<1>q. ASSUME step' \in Steps, job' \in {job, NoJob}, UNCHANGED <<approved, carried, ran>>,
             step' \in {"ask", "fill", "publish"} => step' = step /\ job' = job
      PROVE  TaskTypes'
  BY <1>0, <1>n, <1>q DEF TaskTypes
<1>1. ASSUME NEW chat \in Chats, StartTurn(chat)
      PROVE  TaskTypes'
  BY <1>0, <1>1, <1>q DEF StartTurn, history, Steps
<1>2. ASSUME NEW chat \in Chats, ScheduledEmailAsks(chat)
      PROVE  TaskTypes'
  <2>1. /\ job' = [NoJob EXCEPT !.chat = chat, !.tool = "email_send"] /\ step' = "ask"
        /\ UNCHANGED <<approved, carried, ran>> /\ "email_send" \in Tools
    BY <1>2 DEF ScheduledEmailAsks, history
  <2>2. job' \in Jobs /\ job'.held = Zeroed /\ job'.chat = chat /\ job'.tool = "email_send"
    BY <2>1, <1>n, ChatsNamed DEF NoJob, Jobs
  <2> QED BY <1>0, <2>1, <2>2 DEF TaskTypes, Steps
<1>3. ASSUME NEW tool \in Tools, CallAsks(tool)
      PROVE  TaskTypes'
  <2>1. /\ job' = [NoJob EXCEPT !.chat = turn.chat, !.tool = tool] /\ step' = "ask"
        /\ UNCHANGED <<approved, carried, ran>> /\ turn.chat \in Chats
    BY <1>3 DEF CallAsks, history, TypesInv, TurnTypes
  <2>2. job' \in Jobs /\ job'.held = Zeroed /\ job'.chat = turn.chat /\ job'.tool = tool
    BY <2>1, <1>n, ChatsNamed DEF NoJob, Jobs
  <2> QED BY <1>0, <2>1, <2>2 DEF TaskTypes, Steps
<1>4. ASSUME NEW tool \in Tools, CallDone(tool)
      PROVE  TaskTypes'
  BY <1>0, <1>4, <1>q DEF CallDone, Runs, history
<1>5. ASSUME NextBatch \/ EndTurn \/ FindSpins \/ SpinEnds
      PROVE  TaskTypes'
  BY <1>0, <1>5, <1>q DEF NextBatch, EndTurn, FindSpins, SpinEnds, history, Steps
<1>6. ASSUME AskRoom \/ AskPublish
      PROVE  TaskTypes'
  <2>1. UNCHANGED <<approved, carried, ran>> /\ step \in {"ask", "publish"}
    BY <1>6 DEF AskRoom, AskPublish, history
  <2>2. CASE Done
    BY <1>0, <2>1, <2>2, <1>q DEF Done, Return, Steps
  <2>3. CASE step = "ask" /\ step' = "fill" /\ job' = job
    BY <1>0, <2>1, <2>3 DEF TaskTypes, Steps
  <2> QED BY <1>6, <2>2, <2>3 DEF AskRoom, AskPublish
<1>7. ASSUME AskFill
      PROVE  TaskTypes'
  <2> DEFINE serial == Len(records) + 1
  <2>1. /\ job' = [job EXCEPT !.held = serial] /\ step' = "publish" /\ UNCHANGED <<approved, carried, ran>>
        /\ records' = Append(records, records'[serial])
    BY <1>7 DEF AskFill, history, TypesInv, ArenaTypes
  <2>2. serial \in Serials' /\ serial \in Nat /\ serial # Zeroed
    BY <2>1 DEF Serials, TypesInv, ArenaTypes, Zeroed
  <2>3. job' \in Jobs /\ job'.held = serial
    BY <1>0, <2>1, <2>2 DEF Jobs
  <2> HIDE DEF serial
  <2> QED BY <1>0, <2>1, <2>2, <2>3 DEF TaskTypes, Steps
<1>8. ASSUME NEW chat \in Chats, NEW from \in Origins, NEW id \in Ids, Confirm(chat, id, from) \/ Cancel(chat, id, from)
      PROVE  TaskTypes'
  <2>1. /\ step = "idle" /\ step' \in {"idle", "copy", "remove"} /\ UNCHANGED ran
        /\ (approved \cup carried)' \subseteq approved \cup carried \cup Serials
        /\ job' = job \/ \E at \in 0..(Purged.used - 1) : job' = [NoJob EXCEPT !.chat = chat, !.id = id, !.at = at]
    BY <1>8 DEF Confirm, Cancel, Find, Answers
  <2>2. Purged.used = used' /\ used' \in 0..Capacity
    <3>1. Purge
      BY <1>8 DEF Confirm, Cancel, Find
    <3>2. used' \in 0..Capacity
      BY DEF ArenaTypes
    <3> QED BY <3>1, <3>2 DEF Purge
  <2>3. job' \in Jobs /\ job'.held \in {Zeroed, job.held}
    <3>1. ASSUME NEW at \in 0..(Purged.used - 1), job' = [NoJob EXCEPT !.chat = chat, !.id = id, !.at = at]
          PROVE  job' \in Jobs /\ job'.held = Zeroed
      <4>1. at \in 0..(Capacity - 1)
        <5> DEFINE size == Purged.used
        <5>1. at \in 0..(size - 1) /\ size \in 0..Capacity
          BY <2>2
        <5> HIDE DEF size
        <5> QED BY <1>c, <5>1
      <4> QED BY <1>n, <3>1, <4>1, ChatsNamed DEF NoJob, Jobs, Zeroed
    <3> QED BY <1>0, <2>1, <3>1
  <2> QED BY <1>0, <2>1, <2>3 DEF TaskTypes, Steps
<1>9. ASSUME TakeCopy
      PROVE  TaskTypes'
  <2> DEFINE cell == cells[job.at]
             tool == IF cell = Zeroed THEN job.tool ELSE records[cell].tool
  <2>1. /\ job' = [job EXCEPT !.held = cell, !.tool = tool] /\ step' = "remove"
        /\ UNCHANGED <<approved, carried, ran>> /\ step = "copy"
    BY <1>9 DEF TakeCopy, history
  <2>2. cell \in {Zeroed} \cup Serials
    BY <1>0 DEF TypesInv, ArenaTypes, Jobs, Slots
  <2>3. tool \in {""} \cup Tools
    <3>1. CASE cell = Zeroed
      BY <1>0, <3>1 DEF Jobs
    <3>2. CASE cell # Zeroed
      <4>1. records[cell] \in {Gone} \cup Record
        BY <2>2, <3>2 DEF TypesInv, ArenaTypes, Serials
      <4>2. records[cell].tool \in {""} \cup Tools
        <5> HIDE DEF cell
        <5>1. CASE records[cell] = Gone
          <6>1. Gone.tool = ""
            BY DEF Gone
          <6> QED BY <5>1, <6>1
        <5>2. CASE records[cell] \in Record
          BY <5>2 DEF Record
        <5> QED BY <4>1, <5>1, <5>2
      <4> QED BY <3>2, <4>2
    <3> QED BY <3>1, <3>2
  <2> HIDE DEF cell, tool
  <2>4. job' \in Jobs /\ job'.held = cell
    <3>1. cell \in Nat
      BY <1>z, <2>2
    <3> QED BY <1>0, <2>1, <2>3, <3>1 DEF Jobs
  <2> QED BY <1>0, <2>1, <2>2, <2>4 DEF TaskTypes, Steps
<1>10. ASSUME RemoveRecord
       PROVE  TaskTypes'
  <2>1. UNCHANGED <<approved, carried, ran>>
    BY <1>10 DEF RemoveRecord, history
  <2>2. step' \in {"idle", "batch", "execute"} /\ job' \in {job, NoJob}
    BY <1>10 DEF RemoveRecord, Done, Return
  <2> QED BY <1>0, <2>1, <2>2, <1>q DEF Steps
<1>11. ASSUME Execute
       PROVE  TaskTypes'
  <2>1. UNCHANGED <<approved, carried>> /\ ran' \in {ran, Append(ran, job.held)} /\ job' = NoJob
        /\ step' \in {"idle", "batch"}
    BY <1>11 DEF Execute, Done, Return
  <2>2. ran' \in Seq(Nat)
    <3>1. job.held \in Nat
      BY <1>0 DEF Jobs
    <3> QED BY <1>0, <2>1, <3>1
  <2> QED BY <1>0, <1>n, <2>1, <2>2 DEF TaskTypes, Steps
<1>12. ASSUME NEW chat \in Chats, NEW from \in Origins,
              \/ ResetAsk(chat, from) \/ ResetCancel(chat, from) \/ ResetConfirm(chat, from) \/ ResetRefused(chat, from)
              \/ ResetState(chat, from)
       PROVE  TaskTypes'
  <2>1. UNCHANGED <<approved, carried, ran, step, job>>
    BY <1>12 DEF ResetAsk, ResetCancel, ResetConfirm, ResetRefused, ResetState, Elsewhere
  <2> QED BY <1>0, <2>1, <1>q
<1>13. ASSUME Reboot
       PROVE  TaskTypes'
  BY <1>0, <1>13, <1>q DEF Reboot, history, Steps
<1>14. ASSUME \/ WipeCells \/ WipeUsed \/ Tick \/ UNCHANGED vars
              \/ \E service \in Services, mode \in Modes : SetMode(service, mode)
       PROVE  TaskTypes'
  <2>1. UNCHANGED <<approved, carried, ran, step, job>>
    BY <1>14 DEF WipeCells, WipeUsed, Tick, SetMode, vars, history
  <2> QED BY <1>0, <2>1, <1>q
<1> QED BY <1>1, <1>2, <1>3, <1>4, <1>5, <1>6, <1>7, <1>8, <1>9, <1>10, <1>11, <1>12, <1>13, <1>14,
           StepsOfNext

LEMMA ArenaTypesStep ==
  ASSUME TypesInv, [Next]_vars
  PROVE  ArenaTypes' /\ Serials \subseteq Serials'
<1> USE PermissionsAssumption
<1>0. ArenaTypes /\ now \in 0..MaxTime /\ Len(records) \in Nat /\ DOMAIN records = Serials
  BY DEF TypesInv, ArenaTypes, Serials
<1>q. ASSUME UNCHANGED <<cells, used, nextId, records>>, now' \in now..MaxTime,
             step' \in {"fill", "publish"} => step' = step
      PROVE  ArenaTypes' /\ Serials \subseteq Serials'
  BY <1>0, <1>q, StillArena
<1>1. ASSUME NEW chat \in Chats, NEW from \in Origins,
             \/ StartTurn(chat) \/ ScheduledEmailAsks(chat) \/ ResetAsk(chat, from) \/ ResetCancel(chat, from)
             \/ ResetConfirm(chat, from) \/ ResetRefused(chat, from)
      PROVE  ArenaTypes' /\ Serials \subseteq Serials'
  <2>1. UNCHANGED <<cells, used, nextId, records, now>> /\ step' \notin {"fill", "publish"}
    BY <1>1 DEF StartTurn, ScheduledEmailAsks, ResetAsk, ResetCancel, ResetConfirm, ResetRefused,
                Says, Elsewhere, arena
  <2> QED BY <1>0, <1>q, <2>1
<1>2. ASSUME NEW tool \in Tools, CallDone(tool) \/ CallAsks(tool)
      PROVE  ArenaTypes' /\ Serials \subseteq Serials'
  <2>1. UNCHANGED <<cells, used, nextId, records, now>> /\ step' \notin {"fill", "publish"}
    BY <1>2 DEF CallDone, Runs, CallAsks, arena
  <2> QED BY <1>0, <1>q, <2>1
<1>3. ASSUME NextBatch \/ EndTurn \/ FindSpins \/ SpinEnds \/ TakeCopy
      PROVE  ArenaTypes' /\ Serials \subseteq Serials'
  <2>1. UNCHANGED <<cells, used, nextId, records, now>> /\ step' \notin {"fill", "publish"}
    BY <1>3 DEF NextBatch, EndTurn, FindSpins, SpinEnds, TakeCopy, arena
  <2> QED BY <1>0, <1>q, <2>1
<1>4. ASSUME Execute
      PROVE  ArenaTypes' /\ Serials \subseteq Serials'
  <2>1. UNCHANGED <<cells, used, nextId, records, now>> /\ step' \notin {"fill", "publish"}
    BY <1>4 DEF Execute, Done, Return, arena
  <2> QED BY <1>0, <1>q, <2>1
<1>5. ASSUME \/ Tick \/ UNCHANGED vars
             \/ \E service \in Services, mode \in Modes : SetMode(service, mode)
      PROVE  ArenaTypes' /\ Serials \subseteq Serials'
  <2>1. /\ UNCHANGED <<cells, used, nextId, records, step>> /\ now' \in now..MaxTime
    BY <1>0, <1>5 DEF Tick, SetMode, vars, arena
  <2> QED BY <1>q, <2>1
<1>6. ASSUME UNCHANGED <<nextId, records, now>>, Purge,
             step' \notin {"fill", "publish"} \/ (step' = "fill" /\ used' < Capacity /\ Len(records) < MaxRecords)
      PROVE  ArenaTypes' /\ Serials \subseteq Serials'
  <2>1. cells' \in [Slots -> {Zeroed} \cup Serials] /\ used' \in 0..used
    BY <1>0, <1>6, PurgeFacts
  <2>2. Serials' = Serials /\ used \in 0..Capacity
    BY <1>0, <1>6 DEF Serials, ArenaTypes
  <2> QED BY <1>0, <1>6, <2>1, <2>2 DEF ArenaTypes
<1>7. ASSUME NEW chat \in Chats, NEW from \in Origins, NEW id \in Ids, Confirm(chat, id, from) \/ Cancel(chat, id, from)
      PROVE  ArenaTypes' /\ Serials \subseteq Serials'
  <2>1. UNCHANGED <<nextId, records, now>> /\ Purge /\ step' \notin {"fill", "publish"}
    BY <1>7 DEF Confirm, Cancel, Find
  <2> QED BY <1>6, <2>1
<1>8. ASSUME AskRoom
      PROVE  ArenaTypes' /\ Serials \subseteq Serials'
  <2>1. UNCHANGED <<nextId, records, now>> /\ Purge
    BY <1>8 DEF AskRoom
  <2>2. used' = Purged.used
    BY <2>1 DEF Purge
  <2>3. CASE Purged.used = Capacity /\ Done
    <3>1. step' \notin {"fill", "publish"}
      BY <2>3 DEF Done, Return
    <3> QED BY <1>6, <2>1, <3>1
  <2>4. CASE Purged.used < Capacity /\ Len(records) < MaxRecords /\ step' = "fill"
    BY <1>6, <2>1, <2>2, <2>4
  <2> QED BY <1>8, <2>3, <2>4 DEF AskRoom
<1>9. ASSUME AskFill
      PROVE  ArenaTypes' /\ Serials \subseteq Serials'
  <2> DEFINE serial == Len(records) + 1
             record == [id |-> nextId, chat |-> job.chat, tool |-> job.tool,
                        expires |-> now + TimeToLive, fate |-> "new"]
  <2>1. /\ step = "fill" /\ records' = Append(records, record) /\ cells' = [cells EXCEPT ![used] = serial]
        /\ nextId' = nextId + 1 /\ step' = "publish" /\ UNCHANGED <<now, used>>
    BY <1>9 DEF AskFill
  <2>2. used \in Slots /\ Len(records) < MaxRecords /\ nextId \in Ids
    BY <1>0, <2>1 DEF ArenaTypes, Slots, Ids, FirstId
  <2>3. record \in Record
    <3>1. job.chat \in Chats /\ job.tool \in Tools
      BY <2>1 DEF TypesInv, TaskTypes
    <3>2. now + TimeToLive \in 0..(MaxTime + TimeToLive)
      BY <1>0
    <3> QED BY <2>2, <3>1, <3>2 DEF Record
  <2> HIDE DEF record
  <2>4. records' \in Seq({Gone} \cup Record) /\ Len(records') = serial
    BY <1>0, <2>1, <2>3 DEF ArenaTypes
  <2>5. Serials' = 1..serial /\ Serials \subseteq Serials' /\ serial \in Serials'
    BY <1>0, <2>4 DEF Serials
  <2>6. cells' \in [Slots -> {Zeroed} \cup Serials']
    BY <1>0, <2>1, <2>2, <2>5 DEF ArenaTypes
  <2>7. nextId' \in FirstId..(FirstId + Len(records'))
    BY <1>0, <2>1, <2>4 DEF ArenaTypes, FirstId
  <2> QED BY <1>0, <2>1, <2>2, <2>4, <2>5, <2>6, <2>7 DEF ArenaTypes
<1>10. ASSUME records' = [s \in Serials |-> records'[s]],
              \A s \in Serials :
                \/ records'[s] = records[s] \/ records'[s] = Gone
                \/ \E fate \in {"forgotten", "lost", "told"} :
                     /\ records[s].fate \in {"told", "new"}
                     /\ records'[s] = [records[s] EXCEPT !.fate = fate],
              cells' \in [Slots -> {Zeroed} \cup Serials], used' \in 0..Capacity,
              nextId' \in {nextId, FirstId}, UNCHANGED now,
              step' \in {"fill", "publish"} => step' = step /\ used' <= used
       PROVE  ArenaTypes' /\ Serials \subseteq Serials'
  <2>1. ASSUME NEW s \in Serials
        PROVE  records'[s] \in {Gone} \cup Record
    <3>1. CASE records'[s] = records[s] \/ records'[s] = Gone
      BY <1>0, <3>1, FateTyped
    <3>2. CASE \E fate \in {"forgotten", "lost", "told"} :
                 /\ records[s].fate \in {"told", "new"}
                 /\ records'[s] = [records[s] EXCEPT !.fate = fate]
      BY <1>0, <3>2, FateTyped
    <3> QED BY <1>10, <3>1, <3>2
  <2>2. records' \in Seq({Gone} \cup Record) /\ Len(records') = Len(records)
    BY <1>0, <1>10, <2>1, FateChange
  <2>3. Serials' = Serials
    BY <2>2 DEF Serials
  <2>4. nextId' \in FirstId..(FirstId + Len(records))
    BY <1>0, <1>10 DEF ArenaTypes, FirstId
  <2>5. /\ step' \in {"fill", "publish"} => used' < Capacity
        /\ step' = "fill" => Len(records) < MaxRecords
    BY <1>0, <1>10 DEF ArenaTypes
  <2> QED BY <1>0, <1>10, <2>2, <2>3, <2>4, <2>5 DEF ArenaTypes
<1>11. ASSUME AskPublish
       PROVE  ArenaTypes' /\ Serials \subseteq Serials'
  <2>1. /\ records' = [records EXCEPT ![job.held].fate = IF @ = "new" THEN "told" ELSE @]
        /\ used' = used + 1 /\ UNCHANGED <<cells, nextId, now>> /\ step = "publish"
        /\ step' \notin {"fill", "publish"}
    BY <1>11 DEF AskPublish, Done, Return
  <2>2. job.held \in Serials /\ used' \in 0..Capacity
    BY <1>0, <2>1 DEF TypesInv, TaskTypes, ArenaTypes
  <2>3. records' = [s \in Serials |-> records'[s]]
    BY <1>0, <2>1, <2>2
  <2>4. \A s \in Serials :
          \/ records'[s] = records[s]
          \/ records[s].fate = "new" /\ records'[s] = [records[s] EXCEPT !.fate = "told"]
    <3> DEFINE r == records[job.held]
    <3>1. /\ records'[job.held] = [r EXCEPT !.fate = IF r.fate = "new" THEN "told" ELSE r.fate]
          /\ \A s \in Serials \ {job.held} : records'[s] = records[s]
      BY <1>0, <2>1, <2>2
    <3>2. [r EXCEPT !.fate = r.fate] = r
      BY <1>0, <2>2, FateTyped, SameFate
    <3> QED BY <3>1, <3>2
  <2>5. cells' \in [Slots -> {Zeroed} \cup Serials]
    BY <1>0, <2>1 DEF ArenaTypes
  <2> QED BY <1>10, <2>1, <2>2, <2>3, <2>4, <2>5
<1>12. ASSUME RemoveRecord
       PROVE  ArenaTypes' /\ Serials \subseteq Serials'
  <2>1. /\ used >= job.at + Size(cells[job.at]) /\ used' = used - Size(cells[job.at])
        /\ cells' = [i \in DOMAIN cells |->
                       IF i < job.at \/ i >= used THEN cells[i]
                       ELSE IF i + Size(cells[job.at]) < used THEN cells[i + Size(cells[job.at])]
                            ELSE IF Size(cells[job.at]) = 0 THEN cells[i] ELSE Zeroed]
        /\ records' = [s \in Serials |->
                         IF s = cells[job.at] /\ records[s].fate = "told" THEN Gone ELSE records[s]]
        /\ UNCHANGED <<nextId, now>> /\ step' \notin {"fill", "publish"}
    BY <1>12 DEF RemoveRecord, Done, Return
  <2>2. Size(cells[job.at]) \in {0, 1} /\ job.at \in Slots
    BY DEF Size, TypesInv, TaskTypes, Jobs, Slots
  <2>3. /\ used \in 0..Capacity /\ cells \in [Slots -> {Zeroed} \cup Serials]
        /\ Slots = 0..(Capacity - 1)
    BY <1>0 DEF ArenaTypes, Slots
  <2>4. used' \in 0..Capacity
    BY <2>1, <2>2, <2>3
  <2>5. \A i \in Slots : i + Size(cells[job.at]) < used => i + Size(cells[job.at]) \in Slots
    BY <2>2, <2>3
  <2>6. cells' \in [Slots -> {Zeroed} \cup Serials]
    BY <2>1, <2>3, <2>5
  <2>7. records' = [s \in Serials |-> records'[s]]
    BY <2>1
  <2> QED BY <1>10, <2>1, <2>4, <2>6, <2>7
<1>13. ASSUME WipeCells \/ WipeUsed \/ Reboot \/ \E chat \in Chats, from \in Origins : ResetState(chat, from)
       PROVE  ArenaTypes' /\ Serials \subseteq Serials'
  <2>1. /\ records' = [s \in Serials |-> records'[s]]
        /\ \A s \in Serials :
             \/ records'[s] = records[s] \/ records'[s] = Gone
             \/ \E fate \in {"forgotten", "lost", "told"} :
                  /\ records[s].fate \in {"told", "new"}
                  /\ records'[s] = [records[s] EXCEPT !.fate = fate]
    BY <1>13 DEF WipeCells, WipeUsed, Reboot, ResetState, Fate
  <2>2. cells \in [Slots -> {Zeroed} \cup Serials] /\ used \in 0..Capacity /\ Slots = 0..(Capacity - 1)
    BY <1>0 DEF ArenaTypes, Slots
  <2>3. cells' \in [Slots -> {Zeroed} \cup Serials]
    BY <1>13, <2>2 DEF WipeCells, WipeUsed, Reboot, ResetState, Empty
  <2>4. used' \in 0..Capacity /\ used' <= used /\ nextId' \in {nextId, FirstId} /\ UNCHANGED now
    BY <1>13, <2>2 DEF WipeCells, WipeUsed, Reboot, ResetState, Elsewhere
  <2>5. step' \in {"fill", "publish"} => step' = step
    BY <1>13 DEF WipeCells, WipeUsed, Reboot, ResetState, Elsewhere
  <2> QED BY <1>10, <2>1, <2>3, <2>4, <2>5
<1> QED BY <1>1, <1>2, <1>3, <1>4, <1>5, <1>7, <1>8, <1>9, <1>11, <1>12, <1>13, StepsOfNext

LEMMA PolicyKinds ==
  ASSUME NEW tool
  PROVE  PolicyRead(tool) \subseteq Reads /\ PolicyRequired(tool) \subseteq Reads
<1>1. PolicyRead(tool) \subseteq Reads
  BY DEF PolicyRead, Reads
<1>2. PolicyRequired(tool) \subseteq Reads
  BY DEF PolicyRequired, Reads
<1> QED BY <1>1, <1>2

LEMMA TurnParts ==
  /\ \A c \in ChatOrNone, n \in 0..MaxBatches, r, b \in SUBSET Reads :
       [chat |-> c, batch |-> n, reads |-> r, before |-> b] \in Turns
  /\ \A t \in Turns : /\ t.chat \in ChatOrNone /\ t.batch \in 0..MaxBatches
                       /\ t.reads \in SUBSET Reads /\ t.before \in SUBSET Reads
                       /\ DOMAIN t = {"chat", "batch", "reads", "before"}
                       /\ t = [chat |-> t.chat, batch |-> t.batch, reads |-> t.reads, before |-> t.before]
<1>1. \A c \in ChatOrNone, n \in 0..MaxBatches, r, b \in SUBSET Reads :
        [chat |-> c, batch |-> n, reads |-> r, before |-> b] \in Turns
  BY Zenon DEF Turns
<1>2. ASSUME NEW t \in Turns
      PROVE  /\ t.chat \in ChatOrNone /\ t.batch \in 0..MaxBatches
             /\ t.reads \in SUBSET Reads /\ t.before \in SUBSET Reads
             /\ DOMAIN t = {"chat", "batch", "reads", "before"}
             /\ t = [chat |-> t.chat, batch |-> t.batch, reads |-> t.reads, before |-> t.before]
  BY DEF Turns
<1> QED BY <1>1, <1>2

(***************************************************************************)
(* The turn.                                                               *)
(***************************************************************************)
LEMMA TurnStep ==
  ASSUME TypesInv, TurnInv, [Next]_vars
  PROVE  TurnTypes' /\ TurnInv'
<1>0. /\ MaxBatches \in Nat \ {0} /\ modes \in [Services -> Modes]
      /\ turn \in Turns /\ turn.before \subseteq turn.reads
      /\ turn # Idle => turn.chat \in Chats /\ turn.batch > 0
      /\ step = "batch" => turn # Idle
      /\ readIn \in [Reads -> 0..MaxBatches]
      /\ acted \in SUBSET [tool : Tools, batch : 1..MaxBatches]
  BY PermissionsAssumption DEF TypesInv, TurnTypes
<1>b. turn.batch \in 0..MaxBatches /\ turn.reads \subseteq Reads /\ turn.before \subseteq Reads
  BY <1>0 DEF Turns
<1>i. Idle \in Turns /\ Idle.reads = {} /\ Idle.before = {} /\ Idle.batch = 0
  <2>1. Idle.reads = {} /\ Idle.before = {} /\ Idle.batch = 0
    BY DEF Idle
  <2>2. Idle \in Turns
    <3>1. {} \in SUBSET Reads /\ 0 \in 0..MaxBatches
      BY PermissionsAssumption
    <3>2. "" \in ChatOrNone
      BY ChatsNamed, Zenon
    <3> QED BY <3>1, <3>2, TurnParts, Zenon DEF Idle
  <2> QED BY <2>1, <2>2
<1>q. ASSUME UNCHANGED <<modes, turn, readIn, acted>>, step' = "batch" => turn # Idle
      PROVE  TurnTypes' /\ TurnInv'
  BY <1>0, <1>q DEF TypesInv, TurnTypes, TurnInv, ReadsFirst
<1>1. ASSUME NEW chat \in Chats, StartTurn(chat)
      PROVE  TurnTypes' /\ TurnInv'
  <2>1. /\ turn' = [chat |-> chat, batch |-> 1, reads |-> {}, before |-> {}]
        /\ readIn' = [k \in Reads |-> 0] /\ acted' = {} /\ UNCHANGED modes
    BY <1>1 DEF StartTurn
  <2>2. turn' \in Turns /\ turn' # Idle
    <3>1. {} \in SUBSET Reads /\ chat \in ChatOrNone
      BY ChatsNamed
    <3>4. 1 \in 0..MaxBatches
      BY PermissionsAssumption
    <3>2. turn' \in Turns
      BY <2>1, <3>1, <3>4, TurnParts, Zenon
    <3>3. turn'.batch = 1
      BY <2>1
    <3> QED BY <1>i, <3>2, <3>3
  <2>3. TurnTypes'
    BY <1>0, <2>1, <2>2 DEF TurnTypes
  <2> QED BY <1>0, <2>1, <2>3 DEF TurnInv, ReadsFirst
<1>2. ASSUME EndTurn \/ Reboot
      PROVE  TurnTypes' /\ TurnInv'
  <2>1. turn' = Idle /\ readIn' = [k \in Reads |-> 0] /\ acted' = {} /\ UNCHANGED modes /\ step' = "idle"
    BY <1>2 DEF EndTurn, Reboot
  <2>2. TurnTypes'
    BY <1>0, <1>i, <2>1 DEF TurnTypes
  <2> QED BY <1>0, <1>i, <2>1, <2>2 DEF TurnInv, ReadsFirst
<1>3. ASSUME NextBatch
      PROVE  TurnTypes' /\ TurnInv'
  <2>1. /\ turn' = [turn EXCEPT !.batch = @ + 1, !.before = turn.reads] /\ step' = step
        /\ step = "batch" /\ turn.batch < MaxBatches /\ UNCHANGED <<modes, readIn, acted>>
    BY <1>3 DEF NextBatch, seen
  <2>2. /\ turn' \in Turns /\ turn'.batch = turn.batch + 1 /\ turn'.before = turn.reads
        /\ turn'.reads = turn.reads /\ turn'.chat = turn.chat /\ turn' # Idle
    <3>1. turn.batch + 1 \in 1..MaxBatches
      BY <1>0, <1>b, <2>1
    <3>2. /\ turn' \in Turns /\ turn'.batch = turn.batch + 1 /\ turn'.before = turn.reads
          /\ turn'.reads = turn.reads /\ turn'.chat = turn.chat
      <4>1. turn' = [chat |-> turn.chat, batch |-> turn.batch + 1, reads |-> turn.reads, before |-> turn.reads]
        BY <1>0, <2>1, TurnParts
      <4>2. turn.batch + 1 \in 0..MaxBatches
        BY <3>1
      <4> QED BY <1>0, <4>1, <4>2, TurnParts
    <3>3. turn'.batch # 0
      BY <1>b, <3>2
    <3> QED BY <1>i, <3>2, <3>3
  <2>3. TurnTypes'
    BY <1>0, <1>b, <2>1, <2>2 DEF TurnTypes
  <2>4. /\ \A k \in Reads : readIn'[k] <= turn'.batch
        /\ \A k \in turn.reads : readIn[k] \in 1..turn.batch
    BY <1>0, <1>b, <2>1, <2>2 DEF TurnInv
  <2>5. /\ \A k \in turn'.reads : readIn'[k] \in 1..turn'.batch
        /\ \A k \in turn'.before : readIn'[k] \in 1..(turn'.batch - 1)
    BY <1>b, <2>1, <2>2, <2>4
  <2> QED BY <2>1, <2>3, <2>4, <2>5 DEF TurnInv, ReadsFirst
<1>4. ASSUME NEW tool \in Tools, step = "batch", Missing(tool) = {}, Acts(tool),
             UNCHANGED modes, step' = "batch" => turn' # Idle,
             turn' \in {turn, [turn EXCEPT !.reads = @ \cup PolicyRead(tool)]},
             readIn' \in [Reads -> 0..MaxBatches],
             \A k \in Reads : readIn'[k] = readIn[k] \/ (readIn[k] = 0 /\ readIn'[k] = turn.batch),
             \A k \in turn'.reads : k \in turn.reads \/ readIn'[k] # 0
      PROVE  TurnTypes' /\ TurnInv'
  <2>1. /\ turn' \in Turns /\ turn'.batch = turn.batch /\ turn'.before = turn.before
        /\ turn.reads \subseteq turn'.reads /\ turn'.chat = turn.chat
    BY <1>0, <1>4, PolicyKinds DEF Turns
  <2>2. acted' \in SUBSET [tool : Tools, batch : 1..MaxBatches]
    <3>1. turn.batch \in 1..MaxBatches
      BY <1>0, <1>4, <1>b
    <3> QED BY <1>0, <1>4, <3>1 DEF Acts
  <2>3. TurnTypes'
    BY <1>0, <1>4, <2>1, <2>2 DEF TurnTypes
  <2>4. \A k \in Reads : readIn'[k] <= turn.batch /\ (readIn[k] # 0 => readIn'[k] = readIn[k])
    BY <1>0, <1>4, <1>b DEF TurnInv
  <2>5. \A k \in turn.before : readIn'[k] \in 1..(turn.batch - 1)
    BY <1>0, <1>b, <2>4 DEF TurnInv
  <2>6. \A k \in turn'.reads : readIn'[k] \in 1..turn.batch
    <3>1. \A k \in turn.reads : readIn'[k] = readIn[k] /\ readIn[k] \in 1..turn.batch
      <4>1. \A k \in turn.reads : k \in Reads /\ readIn[k] \in 1..turn.batch
        BY <1>b DEF TurnInv
      <4>2. \A k \in turn.reads : readIn[k] # 0
        BY <1>b, <4>1
      <4> QED BY <2>4, <4>1, <4>2
    <3>2. \A k \in turn'.reads : k \in Reads /\ readIn'[k] \in Nat /\ readIn'[k] <= turn.batch
      <4>1. turn'.reads \subseteq Reads
        BY <2>1, TurnParts
      <4> QED BY <1>4, <2>4, <4>1
    <3> QED BY <1>4, <3>1, <3>2, <1>b
  <2>7. ReadsFirst'
    <3> SUFFICES ASSUME NEW a \in acted', NEW k \in PolicyRequired(a.tool)
                 PROVE  readIn'[k] \in 1..(a.batch - 1)
      BY DEF ReadsFirst
    <3>1. k \in Reads
      BY PolicyKinds
    <3>2. CASE a \in acted
      BY <1>0, <2>4, <3>1, <3>2 DEF TurnInv, ReadsFirst
    <3>3. CASE a = [tool |-> tool, batch |-> turn.batch]
      BY <1>4, <2>5, <3>3 DEF Missing
    <3> QED BY <1>4, <3>2, <3>3 DEF Acts
  <2> QED BY <2>1, <2>3, <2>4, <2>5, <2>6, <2>7 DEF TurnInv
<1>5. ASSUME NEW tool \in Tools, CallAsks(tool)
      PROVE  TurnTypes' /\ TurnInv'
  <2>1. /\ step = "batch" /\ Missing(tool) = {} /\ Acts(tool) /\ UNCHANGED <<modes, turn, readIn>>
        /\ step' = "ask"
    BY <1>5 DEF CallAsks
  <2> QED BY <1>0, <1>4, <2>1
<1>6. ASSUME NEW tool \in Tools, CallDone(tool)
      PROVE  TurnTypes' /\ TurnInv'
  <2>1. /\ step = "batch" /\ Missing(tool) = {} /\ Acts(tool) /\ UNCHANGED <<modes, step>>
        /\ turn' = [turn EXCEPT !.reads = @ \cup PolicyRead(tool)]
        /\ readIn' = [k \in Reads |-> IF k \in PolicyRead(tool) /\ readIn[k] = 0
                                      THEN turn.batch ELSE readIn[k]]
    BY <1>6 DEF CallDone, Runs
  <2>2. turn'.reads = turn.reads \cup PolicyRead(tool) /\ turn'.batch = turn.batch /\ turn.batch > 0
    BY <1>0, <2>1 DEF Turns
  <2>3. turn' # Idle
    BY <1>i, <2>2
  <2>4. readIn' \in [Reads -> 0..MaxBatches]
    BY <1>0, <1>b, <2>1
  <2>5. \A k \in Reads : readIn'[k] = readIn[k] \/ (readIn[k] = 0 /\ readIn'[k] = turn.batch)
    BY <2>1
  <2>6. \A k \in turn'.reads : k \in turn.reads \/ readIn'[k] # 0
    BY <1>0, <1>b, <2>1, <2>2, PolicyKinds
  <2> QED BY <1>4, <2>1, <2>3, <2>4, <2>5, <2>6
<1>7. ASSUME NEW service \in Services, NEW mode \in Modes, SetMode(service, mode)
      PROVE  TurnTypes' /\ TurnInv'
  <2>1. modes' \in [Services -> Modes] /\ UNCHANGED <<turn, readIn, acted, step>>
    BY <1>0, <1>7 DEF SetMode, seen
  <2> QED BY <1>0, <2>1 DEF TurnTypes, TurnInv, ReadsFirst
<1>8. ASSUME \/ AskRoom \/ AskPublish \/ RemoveRecord \/ Execute
      PROVE  TurnTypes' /\ TurnInv'
  <2>1. UNCHANGED <<modes, turn, readIn, acted>> /\ step' \in {Return, "fill", "execute"}
    BY <1>8 DEF AskRoom, AskPublish, RemoveRecord, Execute, Done, seen
  <2> QED BY <1>q, <2>1 DEF Return
<1>9. ASSUME NEW chat \in Chats, NEW from \in Origins,
             \/ ScheduledEmailAsks(chat) \/ ResetAsk(chat, from) \/ ResetCancel(chat, from)
             \/ ResetConfirm(chat, from) \/ ResetRefused(chat, from) \/ ResetState(chat, from)
      PROVE  TurnTypes' /\ TurnInv'
  <2>1. UNCHANGED <<modes, turn, readIn, acted>> /\ step' \in {step, "ask"}
    BY <1>9 DEF ScheduledEmailAsks, ResetAsk, ResetCancel, ResetConfirm, ResetRefused, ResetState,
                Elsewhere, seen
  <2> QED BY <1>0, <1>q, <2>1
<1>10. ASSUME NEW chat \in Chats, NEW from \in Origins, NEW id \in Ids, Confirm(chat, id, from) \/ Cancel(chat, id, from)
       PROVE  TurnTypes' /\ TurnInv'
  <2>1. UNCHANGED <<modes, turn, readIn, acted>> /\ step' # "batch"
    BY <1>10 DEF Confirm, Cancel, Find, seen
  <2> QED BY <1>q, <2>1
<1>11. ASSUME \/ AskFill \/ FindSpins \/ SpinEnds \/ TakeCopy \/ WipeCells \/ WipeUsed \/ Tick
              \/ UNCHANGED vars
       PROVE  TurnTypes' /\ TurnInv'
  <2>1. UNCHANGED <<modes, turn, readIn, acted>> /\ (step' = "batch" => step = "batch")
    BY <1>11 DEF AskFill, FindSpins, SpinEnds, TakeCopy, WipeCells, WipeUsed, Tick, vars, seen
  <2> QED BY <1>0, <1>q, <2>1
<1> QED BY <1>1, <1>2, <1>3, <1>5, <1>6, <1>7, <1>8, <1>9, <1>10, <1>11, StepsOfNext

(***************************************************************************)
(* The reset.                                                              *)
(***************************************************************************)
LEMMA AppendFacts ==
  ASSUME NEW R, NEW s \in Seq(R), NEW e \in R
  PROVE  /\ Append(s, e) \in Seq(R) /\ Len(Append(s, e)) = Len(s) + 1
         /\ DOMAIN Append(s, e) = 1..(Len(s) + 1) /\ DOMAIN s = 1..Len(s) /\ Len(s) \in Nat
         /\ \A i \in 1..Len(s) : Append(s, e)[i] = s[i]
         /\ Append(s, e)[Len(s) + 1] = e
OBVIOUS

LEMMA ResetParts ==
  /\ \A e \in Nat, c \in ChatOrNone :
       /\ [step |-> 1, expires |-> e, chat |-> c] \in Resets
       /\ [step |-> 2, expires |-> e, chat |-> c] \in Resets
  /\ \A r \in Resets :
       /\ r.expires \in Nat /\ r.chat \in ChatOrNone
       /\ [r EXCEPT !.step = 2] = [step |-> 2, expires |-> r.expires, chat |-> r.chat]
<1>1. 1 \in 0..2 /\ 2 \in 0..2
  OBVIOUS
<1>2. \A n \in 0..2, e \in Nat, c \in ChatOrNone : [step |-> n, expires |-> e, chat |-> c] \in Resets
  BY Zenon DEF Resets
<1>3. ASSUME NEW r \in Resets
      PROVE  r.expires \in Nat /\ r.chat \in ChatOrNone
  BY <1>3, Zenon DEF Resets
<1>4. ASSUME NEW r \in Resets
      PROVE  [r EXCEPT !.step = 2] = [step |-> 2, expires |-> r.expires, chat |-> r.chat]
  BY <1>4 DEF Resets
<1> QED BY <1>1, <1>2, <1>3, <1>4, Zenon

LEMMA ResetStep ==
  ASSUME TypesInv, ResetInv, [Next]_vars
  PROVE  ResetTypes' /\ ResetInv'
<1>0. /\ now \in Nat /\ TimeToLive \in Nat /\ reset \in Resets /\ heard \in Seq(Messages)
  <2>1. now \in Nat /\ TimeToLive \in Nat
    BY PermissionsAssumption DEF TypesInv, ArenaTypes
  <2>2. reset \in Resets /\ heard \in Seq(Messages)
    BY DEF TypesInv, ResetTypes
  <2> QED BY <2>1, <2>2
<1>n. NoReset \in Resets /\ NoReset.step = 0
  <2>1. 0 \in 0..2 /\ 0 \in Nat
    OBVIOUS
  <2>2. NoReset \in Resets
    BY <2>1, ChatsNamed, Zenon DEF NoReset, Resets
  <2> QED BY <2>2 DEF NoReset
<1>w. wiping' \in BOOLEAN
  <2>1. wiping \in BOOLEAN
    BY DEF TypesInv, ResetTypes
  <2>2. wiping' \in {wiping, TRUE, FALSE}
    <3>1. ASSUME NEW chat \in Chats, NEW from \in Origins,
                 \/ StartTurn(chat) \/ ScheduledEmailAsks(chat) \/ ResetAsk(chat, from) \/ ResetCancel(chat, from)
                 \/ ResetConfirm(chat, from) \/ ResetRefused(chat, from) \/ ResetState(chat, from)
                 \/ \E id \in Ids : Confirm(chat, id, from) \/ Cancel(chat, id, from)
          PROVE  wiping' = wiping
      BY <3>1, Zenon DEF StartTurn, ScheduledEmailAsks, ResetAsk, ResetCancel, ResetConfirm, ResetRefused,
                         ResetState, Elsewhere, Confirm, Cancel, Find
    <3>2. ASSUME \/ \E tool \in Tools : CallDone(tool) \/ CallAsks(tool)
                 \/ NextBatch \/ EndTurn \/ AskRoom \/ AskFill \/ AskPublish
                 \/ FindSpins \/ SpinEnds \/ TakeCopy \/ RemoveRecord \/ Execute \/ Tick
                 \/ \E service \in Services, mode \in Modes : SetMode(service, mode)
                 \/ UNCHANGED vars
          PROVE  wiping' = wiping
      BY <3>2, Zenon DEF CallDone, Runs, CallAsks, NextBatch, EndTurn, AskRoom, AskFill, AskPublish,
                         FindSpins, SpinEnds, TakeCopy, RemoveRecord, Execute, Tick, SetMode, vars
    <3>3. ASSUME WipeCells \/ WipeUsed \/ Reboot
          PROVE  wiping' \in {TRUE, FALSE}
      BY <3>3, Zenon DEF WipeCells, WipeUsed, Reboot
    <3> QED BY <3>1, <3>2, <3>3, StepsOfNext
  <2> QED BY <2>1, <2>2, Zenon
<1>q. ASSUME heard' = heard, reset' \in {reset, NoReset}
      PROVE  ResetTypes' /\ ResetInv'
  <2>1. reset' \in Resets
    BY <1>0, <1>n, <1>q
  <2>2. ResetInv'
    <3>1. CASE reset' = reset
      BY <1>q, <3>1 DEF ResetInv
    <3>2. CASE reset' = NoReset
      BY <1>n, <3>2 DEF ResetInv
    <3> QED BY <1>q, <3>1, <3>2
  <2> QED BY <1>0, <1>q, <1>w, <2>1, <2>2 DEF ResetTypes
<1>m. ASSUME NEW chat \in Chats, NEW from \in Origins, NEW what \in {"ask", "confirm", "cancel", "yes"}, Says(chat, what, from)
      PROVE  heard' \in Seq(Messages)
  <2> DEFINE message == [what |-> what, chat |-> chat, at |-> now, from |-> from]
  <2>1. what \in {"ask", "confirm"} => message \in Messages
    BY <1>0 DEF Messages
  <2>2. \/ heard' = heard \/ heard' = <<>>
        \/ what \in {"ask", "confirm"} /\ (heard' = <<message>> \/ heard' = Append(heard, message))
    BY <1>m DEF Says
  <2> HIDE DEF message
  <2>3. <<>> \in Seq(Messages) /\ (message \in Messages => <<message>> \in Seq(Messages))
    OBVIOUS
  <2>4. message \in Messages => Append(heard, message) \in Seq(Messages)
    BY <1>0
  <2> QED BY <1>0, <2>1, <2>2, <2>3, <2>4
<1>1. ASSUME NEW chat \in Chats, NEW from \in Origins, ResetAsk(chat, from)
      PROVE  ResetTypes' /\ ResetInv'
  <2>1. CASE chat \notin Owners
    BY <1>1, <1>q, <2>1 DEF ResetAsk, Says
  <2>2. CASE chat \in Owners
    <3>1. /\ heard' = <<[what |-> "ask", chat |-> chat, at |-> now, from |-> from]>>
          /\ reset' = [step |-> 1, expires |-> now + TimeToLive, chat |-> chat]
      BY <1>1, <2>2 DEF ResetAsk, Says
    <3>2. reset' \in Resets /\ heard' \in Seq(Messages)
      <4>1. Says(chat, "ask", from)
        BY <1>1 DEF ResetAsk
      <4>2. heard' \in Seq(Messages)
        BY <1>m, <4>1
      <4>3. now + TimeToLive \in Nat /\ chat \in ChatOrNone
        <5>1. now + TimeToLive \in Nat
          BY <1>0
        <5> QED BY <5>1, Zenon DEF ChatOrNone
      <4>4. reset' \in Resets
        BY <3>1, <4>3, ResetParts, Zenon
      <4> QED BY <4>2, <4>4
    <3>3. ResetInv'
      BY <3>1 DEF ResetInv
    <3> QED BY <1>w, <3>2, <3>3 DEF ResetTypes
  <2> QED BY <2>1, <2>2
<1>2. ASSUME NEW chat \in Chats, NEW from \in Origins, ResetConfirm(chat, from)
      PROVE  ResetTypes' /\ ResetInv'
  <2>1. heard' \in Seq(Messages)
    BY <1>2, <1>m DEF ResetConfirm
  <2>2. CASE ~Expected(chat, 1)
    <3>1. reset' = NoReset
      BY <1>2, <2>2 DEF ResetConfirm
    <3> QED BY <1>n, <1>w, <2>1, <3>1 DEF ResetTypes, ResetInv
  <2>3. CASE Expected(chat, 1)
    <3> DEFINE message == [what |-> "confirm", chat |-> chat, at |-> now, from |-> from]
    <3>1. reset' = [reset EXCEPT !.step = 2] /\ reset.step = 1 /\ reset.chat = chat /\ chat \in Owners
      BY <1>2, <2>3 DEF ResetConfirm, Expected
    <3>2. Len(heard) = 1 /\ heard[1].chat = chat /\ reset.expires = heard[1].at + TimeToLive
      <4>1. Len(heard) = 1 /\ reset.expires = heard[1].at + TimeToLive
        BY <3>1 DEF ResetInv
      <4>2. 1 \in DOMAIN heard
        BY <1>0, <4>1
      <4> QED BY <3>1, <4>1, <4>2 DEF ResetInv
    <3>3. heard' = Append(heard, message)
      BY <1>2, <3>1, <3>2 DEF ResetConfirm, Says
    <3>4. /\ Len(heard') = 2 /\ DOMAIN heard' = {1, 2} /\ heard'[1] = heard[1] /\ heard'[2].chat = chat
      <4>1. message.chat = chat /\ message \in Messages
        BY <1>0 DEF Messages
      <4> HIDE DEF message
      <4>2. /\ Len(heard') = 2 /\ DOMAIN heard' = 1..2 /\ heard'[1] = heard[1] /\ heard'[2] = message
        <5>1. 1 \in 1..Len(heard) /\ Len(heard) = 1
          BY <3>2
        <5>2. heard \in Seq(Messages) /\ message \in Messages
          BY <1>0, <4>1
        <5>3. /\ Len(heard') = Len(heard) + 1 /\ DOMAIN heard' = 1..(Len(heard) + 1)
              /\ \A i \in 1..Len(heard) : heard'[i] = heard[i]
              /\ heard'[Len(heard) + 1] = message
          BY <3>3, <5>2, AppendFacts
        <5> QED BY <5>1, <5>3
      <4> QED BY <4>1, <4>2
    <3>5. reset' \in Resets /\ reset'.step = 2 /\ reset'.chat = chat /\ reset'.expires = reset.expires
      <4>1. reset' = [step |-> 2, expires |-> reset.expires, chat |-> reset.chat]
        BY <1>0, <3>1, ResetParts
      <4>2. reset' \in Resets
        BY <1>0, <4>1, ResetParts, Zenon
      <4> QED BY <3>1, <4>1, <4>2
    <3>6. ResetInv'
      BY <3>2, <3>4, <3>5 DEF ResetInv
    <3> QED BY <1>w, <2>1, <3>5, <3>6 DEF ResetTypes
  <2> QED BY <2>2, <2>3
<1>3. ASSUME NEW chat \in Chats, NEW from \in Origins, ResetCancel(chat, from) \/ ResetRefused(chat, from) \/ ResetState(chat, from)
      PROVE  ResetTypes' /\ ResetInv'
  <2>1. heard' \in Seq(Messages)
    BY <1>3, <1>m DEF ResetCancel, ResetRefused, ResetState
  <2>2. CASE reset' = NoReset
    BY <1>n, <1>w, <2>1, <2>2 DEF ResetTypes, ResetInv
  <2>3. CASE reset' # NoReset
    <3>1. chat \notin Owners /\ reset' = reset /\ heard' = heard
      BY <1>3, <2>3 DEF ResetCancel, ResetRefused, ResetState, Says
    <3> QED BY <1>q, <3>1
  <2> QED BY <2>2, <2>3
<1>4. ASSUME NEW chat \in Chats, NEW from \in Origins,
             \/ StartTurn(chat) \/ ScheduledEmailAsks(chat)
             \/ \E id \in Ids : Confirm(chat, id, from) \/ Cancel(chat, id, from)
      PROVE  ResetTypes' /\ ResetInv'
  <2>1. heard' = heard /\ reset' = reset
    BY <1>4 DEF StartTurn, ScheduledEmailAsks, Confirm, Cancel, Find, history
  <2> QED BY <1>q, <2>1
<1>5. ASSUME \/ \E tool \in Tools : CallDone(tool) \/ CallAsks(tool)
             \/ NextBatch \/ EndTurn \/ AskRoom \/ AskFill \/ AskPublish
      PROVE  ResetTypes' /\ ResetInv'
  <2>1. heard' = heard /\ reset' = reset
    BY <1>5 DEF CallDone, Runs, CallAsks, NextBatch, EndTurn, AskRoom, AskFill, AskPublish, history
  <2> QED BY <1>q, <2>1
<1>6. ASSUME \/ FindSpins \/ SpinEnds \/ TakeCopy \/ RemoveRecord \/ Execute \/ Tick
             \/ \E service \in Services, mode \in Modes : SetMode(service, mode)
             \/ UNCHANGED vars
      PROVE  ResetTypes' /\ ResetInv'
  <2>1. heard' = heard /\ reset' = reset
    BY <1>6 DEF FindSpins, SpinEnds, TakeCopy, RemoveRecord, Execute, Tick, SetMode, vars, history
  <2> QED BY <1>q, <2>1
<1>7. ASSUME WipeCells \/ WipeUsed \/ Reboot
      PROVE  ResetTypes' /\ ResetInv'
  <2>1. heard' = heard /\ reset' \in {reset, NoReset}
    BY <1>7 DEF WipeCells, WipeUsed, Reboot, history
  <2> QED BY <1>q, <2>1
<1> QED BY <1>1, <1>2, <1>3, <1>4, <1>5, <1>6, <1>7, StepsOfNext

(***************************************************************************)
(* The jobs that carry commands.                                           *)
(***************************************************************************)
LEMMA JobsStay ==
  ASSUME TypesInv, JobsInv, [Next]_vars
  PROVE  jobs' = jobs \/ (UNCHANGED <<carried, heard>> /\ jobs \subseteq jobs'
                          /\ jobs' \subseteq [chat : Chats, command : Prompts])
<1>1. ASSUME NEW tool \in Tools, NEW command \in Prompts, CallStores(tool, command)
      PROVE  /\ UNCHANGED <<carried, heard>> /\ jobs \subseteq jobs'
             /\ jobs' \subseteq [chat : Chats, command : Prompts]
  <2>1. JobChats(tool) \subseteq Chats
    BY <1>1 DEF CallStores, Runs, JobChats, TypesInv, TurnTypes
  <2> QED BY <1>1, <2>1 DEF CallStores, JobsInv
<1>2. ASSUME NEW chat \in Chats, NEW from \in Origins,
             \/ StartTurn(chat) \/ ScheduledEmailAsks(chat)
             \/ \E id \in Ids : Confirm(chat, id, from) \/ Cancel(chat, id, from)
             \/ ResetAsk(chat, from) \/ ResetCancel(chat, from) \/ ResetConfirm(chat, from)
             \/ ResetRefused(chat, from) \/ ResetState(chat, from)
      PROVE  jobs' = jobs
  BY <1>2, Zenon DEF StartTurn, ScheduledEmailAsks, Confirm, Cancel, Find, ResetAsk, ResetCancel,
                     ResetConfirm, ResetRefused, ResetState, Elsewhere, history
<1>3. ASSUME \/ \E tool \in Tools : CallRuns(tool) \/ CallAsks(tool)
             \/ NextBatch \/ EndTurn \/ AskRoom \/ AskFill \/ AskPublish
             \/ FindSpins \/ SpinEnds \/ TakeCopy \/ RemoveRecord \/ RemoveFaults \/ Execute
             \/ WipeCells \/ WipeUsed \/ Reboot \/ Tick
             \/ \E service \in Services, mode \in Modes : SetMode(service, mode)
             \/ UNCHANGED vars
      PROVE  jobs' = jobs
  BY <1>3, Zenon DEF CallRuns, CallAsks, NextBatch, EndTurn, AskRoom, AskFill, AskPublish, FindSpins,
                     SpinEnds, TakeCopy, RemoveRecord, RemoveFaults, Execute, WipeCells, WipeUsed,
                     Reboot, Tick, SetMode, vars, history
<1> QED BY <1>1, <1>2, <1>3 DEF Next, Origins

LEMMA HeardStep ==
  ASSUME TypesInv, [Next]_vars
  PROVE  \/ heard' = heard \/ heard' = <<>>
         \/ /\ jobs' = jobs
            /\ \E m \in Messages :
                 /\ heard' = <<m>> \/ heard' = Append(heard, m)
                 /\ m.from = "job" => \E j \in jobs : j.chat = m.chat /\ j.command[1] = "reset"
<1>1. ASSUME NEW chat \in Chats, NEW from \in Origins, NEW what \in {"ask", "confirm"},
             Says(chat, what, from), jobs' = jobs
      PROVE  \/ heard' = heard \/ heard' = <<>>
             \/ \E m \in Messages :
                  /\ heard' = <<m>> \/ heard' = Append(heard, m)
                  /\ m.from = "job" => \E j \in jobs : j.chat = m.chat /\ j.command[1] = "reset"
  <2> DEFINE m == [what |-> what, chat |-> chat, at |-> now, from |-> from]
             j == [chat |-> chat, command |-> <<"reset", what>>]
  <2>1. m \in Messages
    BY PermissionsAssumption DEF Messages, TypesInv, ArenaTypes
  <2>2. from = "job" => j \in jobs
    BY <1>1 DEF Says, Comes
  <2>3. j.chat = chat /\ j.command[1] = "reset" /\ m.from = from /\ m.chat = chat
    OBVIOUS
  <2>4. heard' \in {heard, <<>>, <<m>>, Append(heard, m)}
    BY <1>1 DEF Says
  <2> HIDE DEF m, j
  <2> QED BY <2>1, <2>2, <2>3, <2>4
<1>2. ASSUME NEW chat \in Chats, NEW from \in Origins, ResetAsk(chat, from) \/ ResetConfirm(chat, from)
      PROVE  \/ Says(chat, "ask", from) /\ jobs' = jobs
             \/ Says(chat, "confirm", from) /\ jobs' = jobs
  BY <1>2 DEF ResetAsk, ResetConfirm, Elsewhere
<1>3. ASSUME NEW chat \in Chats, NEW from \in Origins,
             ResetCancel(chat, from) \/ ResetRefused(chat, from) \/ ResetState(chat, from)
      PROVE  heard' = heard \/ heard' = <<>>
  BY <1>3 DEF ResetCancel, ResetRefused, ResetState, Says
<1>4. ASSUME NEW chat \in Chats, NEW from \in Origins,
             \/ StartTurn(chat) \/ ScheduledEmailAsks(chat)
             \/ \E id \in Ids : Confirm(chat, id, from) \/ Cancel(chat, id, from)
      PROVE  heard' = heard
  BY <1>4, Zenon DEF StartTurn, ScheduledEmailAsks, Confirm, Cancel, Find, history
<1>5. ASSUME \/ \E tool \in Tools : CallDone(tool) \/ CallAsks(tool)
             \/ NextBatch \/ EndTurn \/ AskRoom \/ AskFill \/ AskPublish
             \/ FindSpins \/ SpinEnds \/ TakeCopy \/ RemoveRecord \/ Reboot \/ Execute
             \/ WipeCells \/ WipeUsed \/ Tick
             \/ \E service \in Services, mode \in Modes : SetMode(service, mode)
             \/ UNCHANGED vars
      PROVE  heard' = heard
  BY <1>5, Zenon DEF CallDone, CallAsks, NextBatch, EndTurn, AskRoom, AskFill, AskPublish, FindSpins,
                     SpinEnds, TakeCopy, RemoveRecord, Execute, WipeCells, WipeUsed,
                     Reboot, Tick, SetMode, vars, history
<1>6. ASSUME NEW chat \in Chats, NEW from \in Origins, ResetAsk(chat, from) \/ ResetConfirm(chat, from)
      PROVE  \/ heard' = heard \/ heard' = <<>>
             \/ /\ jobs' = jobs
                /\ \E m \in Messages :
                     /\ heard' = <<m>> \/ heard' = Append(heard, m)
                     /\ m.from = "job" => \E j \in jobs : j.chat = m.chat /\ j.command[1] = "reset"
  BY <1>1, <1>2, <1>6
<1> QED BY <1>3, <1>4, <1>5, <1>6, StepsOfNext

LEMMA CarriedStep ==
  ASSUME [Next]_vars
  PROVE  carried' = carried \/ \E j \in jobs : j.command[1] = "confirm"
<1>1. ASSUME NEW chat \in Chats, NEW from \in Origins, NEW id \in Ids,
             Confirm(chat, id, from) \/ Cancel(chat, id, from)
      PROVE  carried' = carried \/ \E j \in jobs : j.command[1] = "confirm"
  <2> DEFINE j == [chat |-> chat, command |-> <<"confirm", id>>]
  <2>1. CASE Cancel(chat, id, from)
    BY <2>1 DEF Cancel, Find
  <2>2. CASE Confirm(chat, id, from) /\ from # "job"
    BY <2>2 DEF Confirm, Find
  <2>3. CASE Confirm(chat, id, from) /\ from = "job"
    <3>1. j \in jobs /\ j.command[1] = "confirm"
      BY <2>3 DEF Confirm, Find, Comes
    <3> QED BY <3>1
  <2> QED BY <1>1, <2>1, <2>2, <2>3
<1>2. ASSUME NEW chat \in Chats, NEW from \in Origins,
             \/ StartTurn(chat) \/ ScheduledEmailAsks(chat)
             \/ ResetAsk(chat, from) \/ ResetCancel(chat, from) \/ ResetConfirm(chat, from)
             \/ ResetRefused(chat, from) \/ ResetState(chat, from)
      PROVE  carried' = carried
  BY <1>2, Zenon DEF StartTurn, ScheduledEmailAsks, ResetAsk, ResetCancel,
                     ResetConfirm, ResetRefused, ResetState, Elsewhere, history
<1>3. ASSUME \/ \E tool \in Tools : CallDone(tool) \/ CallAsks(tool)
             \/ NextBatch \/ EndTurn \/ AskRoom \/ AskFill \/ AskPublish
             \/ FindSpins \/ SpinEnds \/ TakeCopy \/ RemoveRecord \/ Reboot \/ Execute
             \/ WipeCells \/ WipeUsed \/ Tick
             \/ \E service \in Services, mode \in Modes : SetMode(service, mode)
             \/ UNCHANGED vars
      PROVE  carried' = carried
  BY <1>3, Zenon DEF CallDone, CallAsks, NextBatch, EndTurn, AskRoom, AskFill, AskPublish, FindSpins,
                     SpinEnds, TakeCopy, RemoveRecord, Execute, WipeCells, WipeUsed,
                     Reboot, Tick, SetMode, vars, history
<1> QED BY <1>1, <1>2, <1>3, StepsOfNext

LEMMA JobsStep ==
  ASSUME TypesInv, JobsInv, [Next]_vars
  PROVE  JobsInv'
<1> DEFINE Carried(m) == m.from = "job" => \E j \in jobs : j.chat = m.chat /\ j.command[1] = "reset"
<1>1. /\ jobs \subseteq jobs' /\ jobs' \subseteq [chat : Chats, command : Prompts]
      /\ jobs' = jobs \/ UNCHANGED <<carried, heard>>
  BY JobsStay DEF JobsInv
<1>2. carried' # {} => \E j \in jobs' : j.command[1] = "confirm"
  BY <1>1, CarriedStep DEF JobsInv
<1>3. \A i \in DOMAIN heard' : Carried(heard'[i])
  <2>1. \A i \in DOMAIN heard : Carried(heard[i])
    BY DEF JobsInv
  <2>2. heard \in Seq(Messages)
    BY DEF TypesInv, ResetTypes
  <2>3. CASE heard' = heard
    BY <2>1, <2>3
  <2>4. CASE heard' = <<>>
    BY <2>4
  <2>5. ASSUME NEW m \in Messages, heard' = <<m>> \/ heard' = Append(heard, m), Carried(m)
        PROVE  \A i \in DOMAIN heard' : Carried(heard'[i])
    <3> HIDE DEF Carried
    <3>1. CASE heard' = <<m>>
      BY <2>5, <3>1
    <3>2. CASE heard' = Append(heard, m)
      <4>1. /\ DOMAIN heard' = 1..(Len(heard) + 1) /\ DOMAIN heard = 1..Len(heard) /\ Len(heard) \in Nat
            /\ \A i \in 1..Len(heard) : heard'[i] = heard[i]
            /\ heard'[Len(heard) + 1] = m
        BY <2>2, <3>2, AppendFacts
      <4> QED BY <2>1, <2>5, <4>1
    <3> QED BY <2>5, <3>1, <3>2
  <2> QED BY <2>3, <2>4, <2>5, HeardStep
<1>4. \A i \in DOMAIN heard' : heard'[i].from = "job" =>
        \E j \in jobs' : j.chat = heard'[i].chat /\ j.command[1] = "reset"
  BY <1>1, <1>3
<1> QED BY <1>1, <1>2, <1>4 DEF JobsInv

(***************************************************************************)
(* The arena, step by step.                                                *)
(***************************************************************************)
LEMMA InOrPast == \A c, u \in Nat : c >= u \/ c \in 0..(u - 1)
OBVIOUS

LEMMA ArenaParts ==
  ASSUME TypesInv
  PROVE  /\ now \in Nat /\ used \in Nat /\ used <= Capacity /\ Capacity \in Nat \ {0}
         /\ Slots = 0..(Capacity - 1) /\ DOMAIN cells = Slots
         /\ \A i \in Slots : cells[i] \in {Zeroed} \cup Serials
         /\ \A s \in Serials : s # Zeroed /\ s \in Nat
         /\ Serials = 1..Len(records) /\ DOMAIN records = Serials /\ Len(records) \in Nat
         /\ job.at \in Slots /\ job.held \in {Zeroed} \cup Serials
<1>1. /\ now \in Nat /\ used \in Nat /\ used <= Capacity /\ Capacity \in Nat \ {0}
      /\ Slots = 0..(Capacity - 1) /\ DOMAIN cells = Slots
      /\ \A i \in Slots : cells[i] \in {Zeroed} \cup Serials
  BY PermissionsAssumption DEF TypesInv, ArenaTypes, Slots
<1>2. Serials = 1..Len(records) /\ DOMAIN records = Serials /\ Len(records) \in Nat
  BY DEF TypesInv, ArenaTypes, Serials
<1>3. \A s \in Serials : s # Zeroed /\ s \in Nat
  BY <1>2 DEF Zeroed
<1>4. job.at \in Slots /\ job.held \in {Zeroed} \cup Serials
  BY DEF TypesInv, TaskTypes, Jobs, Slots
<1> QED BY <1>1, <1>2, <1>3, <1>4

LEMMA RecordParts ==
  ASSUME ArenaTypes
  PROVE  /\ \A s \in Serials : "fate" \in DOMAIN records[s] /\ "expires" \in DOMAIN records[s]
         /\ Gone.fate = "removed"
<1>1. \A r \in {Gone} \cup Record : "fate" \in DOMAIN r /\ "expires" \in DOMAIN r
  <2>1. "fate" \in DOMAIN Gone /\ "expires" \in DOMAIN Gone
    BY DEF Gone
  <2>2. ASSUME NEW r \in Record
        PROVE  "fate" \in DOMAIN r /\ "expires" \in DOMAIN r
    BY DEF Record
  <2> QED BY <2>1, <2>2
<1>2. \A s \in Serials : records[s] \in {Gone} \cup Record
  BY DEF ArenaTypes, Serials
<1>3. Gone.fate = "removed"
  BY DEF Gone
<1> QED BY <1>1, <1>2, <1>3

LEMMA SameSerials ==
  ASSUME TypesInv', NEW S, DOMAIN records' = S
  PROVE  Serials' = S
<1>1. DOMAIN records' = 1..Len(records')
  BY DEF TypesInv, ArenaTypes
<1> QED BY <1>1 DEF Serials

\* What neither moves a record nor begins or ends the making of one.
LEMMA ArenaStill ==
  ASSUME TypesInv, ArenaInv, UNCHANGED <<cells, used, records, wiping>>,
         now' = now \/ now' \in now..MaxTime,
         UNCHANGED <<step, job>> \/ (step # "publish" /\ step' \notin {"fill", "publish"})
  PROVE  ArenaInv'
<1>1. Serials' = Serials /\ (CanPurge' <=> CanPurge) /\ (NoneTold' <=> NoneTold)
  BY DEF Serials, CanPurge, NoneTold, Told, HasFate
<1>2. Distinct' /\ Fates' /\ ToldInUse'
  BY DEF ArenaInv, Distinct, Fates, ToldInUse, Told, HasFate, Serials
<1>3. ToldFound'
  <2>1. ASSUME NEW s \in Serials, Told(s), Alive(s)'
        PROVE  \E i \in 0..(used - 1) : cells[i] = s
    <3>1. records[s].expires \in Nat
      <4>1. records[s] \in {Gone} \cup Record
        BY DEF TypesInv, ArenaTypes, Serials
      <4>2. Gone.fate # "told"
        BY DEF Gone
      <4>3. records[s] \in Record
        BY <2>1, <4>1, <4>2 DEF Told, HasFate
      <4>4. MaxTime + TimeToLive \in Nat
        BY PermissionsAssumption
      <4> QED BY <4>3, <4>4 DEF Record
    <3>2. Alive(s)
      BY <2>1, <3>1, ArenaParts DEF Alive
    <3> QED BY <2>1, <3>2 DEF ArenaInv, ToldFound
  <2> QED BY <1>1, <2>1 DEF ToldFound, Told, HasFate
<1>4. OneNew'
  BY <1>1 DEF ArenaInv, OneNew, New, HasFate
<1>5. Clear'
  <2>1. CASE UNCHANGED <<step, job>>
    BY <1>1, <2>1 DEF ArenaInv, Clear, New, HasFate
  <2>2. CASE step' \notin {"fill", "publish"}
    BY <1>1, <2>2, Zenon DEF ArenaInv, Clear
  <2> QED BY <2>1, <2>2
<1> QED BY <1>2, <1>3, <1>4, <1>5 DEF ArenaInv

\* purge_expired loses no prompt and leaves no zeroed record in use.
LEMMA PurgeKeeps ==
  ASSUME TypesInv, ArenaInv, Purge, UNCHANGED <<records, now>>
  PROVE  Distinct' /\ Fates' /\ ToldInUse' /\ ToldFound' /\ CanPurge'
<1>0. /\ used \in Nat /\ used <= Capacity /\ Capacity \in Nat /\ Slots = 0..(Capacity - 1)
      /\ Stay \subseteq Slots /\ \A i \in Stay : i < used /\ Alive(cells[i])
      /\ Serials' = Serials
  BY ArenaParts DEF Stay, Serials
<1>1. /\ used' \in 0..used
      /\ \A c \in 0..(used' - 1) : \E i \in Stay : cells'[c] = cells[i] /\ Place(i) = c
      /\ \A i \in Stay : \E c \in 0..(used' - 1) : cells'[c] = cells[i]
      /\ \A c \in Slots : c >= used' => cells'[c] = Zeroed \/ (c >= used /\ cells'[c] = cells[c])
  BY PurgeFacts DEF TypesInv
<1>2. \A c \in Slots :
        \/ cells'[c] = Zeroed
        \/ c >= used /\ cells'[c] = cells[c]
        \/ \E i \in Stay : cells'[c] = cells[i] /\ Place(i) = c
  <2> TAKE c \in Slots
  <2>1. c \in Nat /\ used' \in Nat
    BY <1>0, <1>1
  <2>2. c >= used' \/ c \in 0..(used' - 1)
    BY <2>1, InOrPast, Zenon
  <2> QED BY <1>1, <2>2
<1>3. Distinct'
  <2> SUFFICES ASSUME NEW c \in Slots, NEW d \in Slots, cells'[c] = cells'[d], cells'[c] # Zeroed
               PROVE  c = d
    BY DEF Distinct
  <2>1. \A i, j \in Slots : cells[i] = cells[j] /\ cells[i] # Zeroed => i = j
    BY DEF ArenaInv, Distinct
  <2>2. CASE c >= used /\ cells'[c] = cells[c] /\ d >= used /\ cells'[d] = cells[d]
    BY <2>1, <2>2
  <2>3. ASSUME NEW i \in Stay, cells'[c] = cells[i] /\ Place(i) = c,
               NEW j \in Stay, cells'[d] = cells[j] /\ Place(j) = d
        PROVE  c = d
    BY <1>0, <2>1, <2>3
  <2>4. ASSUME NEW i \in Stay, NEW e \in Slots, e >= used, cells[i] = cells[e], cells[i] # Zeroed
        PROVE  FALSE
    <3>1. i = e
      BY <1>0, <2>1, <2>4
    <3> QED BY <1>0, <2>4, <3>1
  <2> QED BY <1>2, <2>2, <2>3, <2>4
<1>4. Fates'
  <2>1. \A i \in Slots : cells[i] # Zeroed =>
          HasFate(cells[i], "told") \/ HasFate(cells[i], "lost") \/ HasFate(cells[i], "new")
    BY DEF ArenaInv, Fates
  <2>2. \A c \in Slots : cells'[c] # Zeroed => \E i \in Slots : cells'[c] = cells[i]
    BY <1>0, <1>2
  <2> QED BY <1>0, <2>1, <2>2 DEF Fates, HasFate
<1>5. ToldInUse'
  <2> SUFFICES ASSUME NEW c \in Slots, Told(cells'[c]), ~(c < used')
               PROVE  FALSE
    BY <1>0 DEF ToldInUse, Told, HasFate
  <2>1. c >= used'
    BY <1>0, <1>1
  <2>2. cells'[c] # Zeroed
    BY ArenaParts DEF Told, HasFate
  <2>3. c >= used /\ cells'[c] = cells[c]
    BY <1>1, <2>1, <2>2
  <2> QED BY <1>0, <2>3 DEF ArenaInv, ToldInUse
<1>6. ToldFound'
  <2> SUFFICES ASSUME NEW s \in Serials, Told(s), Alive(s)
               PROVE  \E c \in 0..(used' - 1) : cells'[c] = s
    BY <1>0 DEF ToldFound, Told, HasFate, Alive
  <2>1. PICK i \in 0..(used - 1) : cells[i] = s
    BY DEF ArenaInv, ToldFound
  <2>2. i \in Stay
    BY <2>1 DEF Stay
  <2> QED BY <1>1, <2>1, <2>2
<1>7. CanPurge'
  BY <1>0, <1>1 DEF CanPurge, Alive
<1> QED BY <1>3, <1>4, <1>5, <1>6, <1>7

LEMMA ArenaPurged ==
  ASSUME TypesInv, ArenaInv, Purge, UNCHANGED <<records, now>>, step \in {"idle", "ask"},
         step' # "publish"
  PROVE  ArenaInv'
<1>1. OneNew'
  BY DEF ArenaInv, OneNew, New, HasFate, Serials
<1>2. CanPurge' => Clear'
  BY Zenon DEF Clear
<1> QED BY <1>1, <1>2, PurgeKeeps DEF ArenaInv

LEMMA ArenaFill ==
  ASSUME TypesInv, ArenaInv, TypesInv', AskFill
  PROVE  ArenaInv'
<1> DEFINE After(s, fate) == s \in Serials' /\ records'[s].fate = fate
<1> PICK serial : serial = Len(records) + 1
  OBVIOUS
<1>0. /\ step = "fill" /\ step' = "publish" /\ cells' = [cells EXCEPT ![used] = serial]
      /\ \E record : record.fate = "new" /\ records' = Append(records, record)
      /\ job' = [job EXCEPT !.held = serial] /\ UNCHANGED <<now, used, wiping>>
  BY DEF AskFill
<1>1. used \in Slots /\ serial \notin Serials /\ serial # Zeroed /\ job'.held = serial
  <2>1. used < Capacity
    BY <1>0 DEF TypesInv, ArenaTypes
  <2>2. job'.held = serial
    BY <1>0 DEF TypesInv, TaskTypes, Jobs
  <2> QED BY <2>1, <2>2, ArenaParts DEF Zeroed
<1>2. /\ Serials' = Serials \cup {serial} /\ records'[serial].fate = "new"
      /\ \A s \in Serials : records'[s] = records[s]
  <2>1. records \in Seq({Gone} \cup Record)
    BY DEF TypesInv, ArenaTypes
  <2>2. PICK record : record.fate = "new" /\ records' = Append(records, record)
    BY <1>0
  <2>3. Len(records') = serial /\ records'[serial] = record /\ \A s \in 1..Len(records) : records'[s] = records[s]
    BY <2>1, <2>2
  <2> QED BY <2>2, <2>3, ArenaParts DEF Serials
<1>3. cells'[used] = serial /\ \A i \in Slots : i # used => cells'[i] = cells[i]
  BY <1>0, <1>1, ArenaParts
<1>4. \A s \in Serials : ~New(s)
  BY <1>0 DEF ArenaInv, OneNew
<1>5. /\ \A fate : After(serial, fate) <=> fate = "new"
      /\ \A s, fate : s # serial => (After(s, fate) <=> HasFate(s, fate))
  BY <1>1, <1>2 DEF HasFate
<1>6. Distinct'
  <2>1. \A i \in Slots : cells[i] # serial
    BY <1>1, ArenaParts
  <2> QED BY <1>3, <2>1 DEF ArenaInv, Distinct
<1>7. Fates'
  <2>1. ASSUME NEW i \in Slots, cells'[i] # Zeroed
        PROVE  \/ After(cells'[i], "told") \/ After(cells'[i], "lost")
               \/ After(cells'[i], "new")
    <3>1. CASE i = used
      BY <1>3, <1>5, <3>1
    <3>2. CASE i # used
      <4>1. cells'[i] = cells[i] /\ cells[i] # serial
        BY <1>1, <1>3, <2>1, <3>2, ArenaParts
      <4>2. HasFate(cells[i], "told") \/ HasFate(cells[i], "lost") \/ HasFate(cells[i], "new")
        BY <2>1, <4>1 DEF ArenaInv, Fates
      <4> QED BY <1>5, <4>1, <4>2
    <3> QED BY <3>1, <3>2
  <2> QED BY <2>1 DEF Fates, HasFate
<1>8. ToldInUse'
  <2> SUFFICES ASSUME NEW i \in Slots, After(cells'[i], "told")
               PROVE  i < used
    BY <1>0 DEF ToldInUse, Told, HasFate
  <2>1. cells'[i] # serial
    BY <1>5
  <2>2. cells'[i] = cells[i]
    BY <1>3, <2>1
  <2>3. HasFate(cells[i], "told")
    BY <1>5, <2>1, <2>2
  <2> QED BY <2>3 DEF ArenaInv, ToldInUse, Told
<1>9. ToldFound'
  <2> SUFFICES ASSUME NEW s \in Serials', After(s, "told"), Alive(s)'
               PROVE  \E i \in 0..(used - 1) : cells'[i] = s
    BY <1>0 DEF ToldFound, Told, HasFate
  <2>1. s # serial /\ s \in Serials
    BY <1>2, <1>5
  <2>2. Told(s) /\ Alive(s)
    BY <1>0, <1>2, <1>5, <2>1 DEF Told, Alive
  <2>3. PICK i \in 0..(used - 1) : cells[i] = s
    BY <2>1, <2>2 DEF ArenaInv, ToldFound
  <2>4. i \in Slots /\ i # used
    BY <2>3, ArenaParts
  <2> QED BY <1>3, <2>3, <2>4
<1>10. OneNew'
  <2> SUFFICES ASSUME NEW s \in Serials', After(s, "new")
               PROVE  s = serial
    BY <1>0, <1>1, <1>3 DEF OneNew, New, HasFate
  <2> QED BY <1>2, <1>4, <1>5 DEF New
<1>11. Clear'
  <2>1. CanPurge => CanPurge'
    <3>1. \A i \in 0..(used - 1) : i \in Slots /\ i # used
      BY ArenaParts
    <3> QED BY <1>0, <1>3, <3>1 DEF CanPurge
  <2>2. New(job.held)'
    BY <1>1, <1>5 DEF New, HasFate
  <2>3. ~wiping => CanPurge
    BY <1>0, Zenon DEF ArenaInv, Clear
  <2> QED BY <1>0, <2>1, <2>2, <2>3, Zenon DEF Clear
<1> QED BY <1>6, <1>7, <1>8, <1>9, <1>10, <1>11 DEF ArenaInv

LEMMA ArenaPublish ==
  ASSUME TypesInv, ArenaInv, TypesInv', AskPublish
  PROVE  ArenaInv'
<1> DEFINE After(s, fate) == s \in Serials' /\ records'[s].fate = fate
<1>0. /\ step = "publish" /\ step' \notin {"fill", "publish"} /\ UNCHANGED <<now, cells, wiping>>
      /\ used' = used + 1
      /\ records' = [records EXCEPT ![job.held].fate = IF @ = "new" THEN "told" ELSE @]
  BY DEF AskPublish, Done, Return
<1>1. job.held \in Serials /\ used \in Slots
  BY <1>0, ArenaParts DEF TypesInv, TaskTypes, ArenaTypes
<1>2. Serials' = Serials
  BY <1>0, SameSerials, ArenaParts
<1>3. \A s \in Serials :
        /\ records'[s].expires = records[s].expires
        /\ records'[s].fate = IF s = job.held /\ records[s].fate = "new" THEN "told" ELSE records[s].fate
  <2>1. records[job.held] \in {Gone} \cup Record
    BY <1>1 DEF TypesInv, ArenaTypes, Serials
  <2>2. \A r \in {Gone} \cup Record : \A x : [r EXCEPT !.fate = x].fate = x /\ [r EXCEPT !.fate = x].expires = r.expires
    <3>1. ASSUME NEW r \in {Gone} \cup Record
          PROVE  "fate" \in DOMAIN r /\ "expires" \in DOMAIN r
      BY DEF Gone, Record
    <3> QED BY <3>1
  <2> QED BY <1>0, <1>1, <2>1, <2>2, ArenaParts
<1>4. cells[used] = job.held \/ ~New(job.held)
  BY <1>1 DEF ArenaInv, OneNew
<1>5. \A s : /\ After(s, "told") <=> Told(s) \/ (s = job.held /\ New(s))
             /\ After(s, "lost") <=> HasFate(s, "lost")
             /\ After(s, "new") => New(s) /\ s # job.held
  BY <1>1, <1>2, <1>3 DEF Told, New, HasFate
<1>6. \A s : ~After(s, "new")
  BY <1>5 DEF ArenaInv, OneNew, New, HasFate
<1>7. Distinct'
  BY <1>0 DEF ArenaInv, Distinct
<1>8. Fates'
  <2>1. ASSUME NEW i \in Slots, cells[i] # Zeroed
        PROVE  After(cells[i], "told") \/ After(cells[i], "lost")
    <3>1. Told(cells[i]) \/ HasFate(cells[i], "lost") \/ New(cells[i])
      BY <2>1 DEF ArenaInv, Fates, Told, New
    <3>2. New(cells[i]) => cells[i] = job.held
      BY DEF ArenaInv, OneNew, New, HasFate
    <3> QED BY <1>5, <3>1, <3>2
  <2> QED BY <1>0, <2>1 DEF Fates, HasFate
<1>9. ToldInUse'
  <2> SUFFICES ASSUME NEW i \in Slots, After(cells[i], "told")
               PROVE  i < used + 1
    BY <1>0 DEF ToldInUse, Told, HasFate
  <2>1. CASE Told(cells[i])
    <3>1. i < used
      BY <2>1 DEF ArenaInv, ToldInUse
    <3> QED BY <3>1, ArenaParts
  <2>2. CASE cells[i] = job.held /\ New(job.held)
    <3>1. i = used
      BY <1>1, <1>4, <2>2, ArenaParts DEF ArenaInv, Distinct
    <3> QED BY <3>1, ArenaParts
  <2> QED BY <1>5, <2>1, <2>2
<1>10. ToldFound'
  <2> SUFFICES ASSUME NEW s \in Serials, After(s, "told"), Alive(s)'
               PROVE  \E i \in 0..used : cells[i] = s
    <3>1. used' - 1 = used
      BY <1>0, ArenaParts
    <3> QED BY <1>0, <1>2, <3>1 DEF ToldFound, Told, HasFate
  <2>1. CASE Told(s)
    <3>1. Alive(s)
      BY <1>0, <1>3 DEF Alive
    <3>2. PICK i \in 0..(used - 1) : cells[i] = s
      BY <2>1, <3>1 DEF ArenaInv, ToldFound
    <3> QED BY <3>2, ArenaParts
  <2>2. CASE s = job.held /\ New(s)
    BY <1>4, <2>2, ArenaParts
  <2> QED BY <1>5, <2>1, <2>2
<1>11. OneNew'
  BY <1>6 DEF OneNew, New, HasFate
<1>12. Clear'
  <2>1. CASE New(job.held)
    <3>1. CanPurge => CanPurge'
      <4>1. cells[used] # Zeroed
        BY <1>1, <1>4, <2>1, ArenaParts
      <4>2. \A i \in 0..(used' - 1) : i = used \/ i \in 0..(used - 1)
        <5>1. used' - 1 = used
          BY <1>0, ArenaParts
        <5>2. \A i \in 0..used : i = used \/ i \in 0..(used - 1)
          BY ArenaParts
        <5> QED BY <5>1, <5>2
      <4> QED BY <1>0, <4>1, <4>2 DEF CanPurge
    <3>2. ~wiping => CanPurge
      BY <1>0, <2>1, Zenon DEF ArenaInv, Clear
    <3> QED BY <1>0, <3>1, <3>2, Zenon DEF Clear
  <2>2. CASE ~New(job.held)
    <3>1. ~wiping => NoneTold
      BY <1>0, <2>2, Zenon DEF ArenaInv, Clear
    <3>2. NoneTold => NoneTold'
      BY <1>2, <1>5, <2>2 DEF NoneTold, Told, HasFate
    <3> QED BY <1>0, <3>1, <3>2, Zenon DEF Clear
  <2> QED BY <2>1, <2>2
<1> QED BY <1>7, <1>8, <1>9, <1>10, <1>11, <1>12 DEF ArenaInv

\* remove_record: every other record in use stays in use, moved down.
LEMMA RemoveMoves ==
  ASSUME TypesInv, RemoveRecord, cells[job.at] # Zeroed
  PROVE  /\ used \in Nat \ {0} /\ used' = used - 1 /\ job.at \in 0..(used - 1)
         /\ \A i \in Slots :
              cells'[i] = IF i < job.at \/ i >= used THEN cells[i]
                          ELSE IF i + 1 < used THEN cells[i + 1] ELSE Zeroed
<1>1. Size(cells[job.at]) = 1
  BY DEF Size
<1>2. /\ used >= job.at + 1 /\ used' = used - 1
      /\ cells' = [i \in DOMAIN cells |->
                     IF i < job.at \/ i >= used THEN cells[i]
                     ELSE IF i + 1 < used THEN cells[i + 1]
                          ELSE IF 1 = 0 THEN cells[i] ELSE Zeroed]
  BY <1>1 DEF RemoveRecord
<1> QED BY <1>2, ArenaParts

LEMMA ArenaRemoved ==
  ASSUME TypesInv, ArenaInv, TypesInv', RemoveRecord
  PROVE  ArenaInv'
<1> DEFINE After(s, fate) == s \in Serials' /\ records'[s].fate = fate
<1>0. /\ step = "remove" /\ step' \notin {"fill", "publish"} /\ UNCHANGED <<now, wiping>>
      /\ records' = [s \in Serials |-> IF s = cells[job.at] /\ records[s].fate = "told"
                                       THEN Gone ELSE records[s]]
  BY DEF RemoveRecord, Done, Return
<1>1. CASE cells[job.at] = Zeroed
  <2>1. used' = used
    BY <1>1, ArenaParts DEF RemoveRecord, Size
  <2>2. cells' = cells
    <3>1. \A i \in Slots : i + 0 = i
      BY ArenaParts
    <3>2. \A i \in Slots : cells'[i] = cells[i]
      BY <1>1, <3>1, ArenaParts DEF RemoveRecord, Size
    <3> QED BY <3>2 DEF TypesInv, ArenaTypes
  <2>3. records' = records
    <3>1. \A s \in Serials : records'[s] = records[s]
      BY <1>0, <1>1, ArenaParts
    <3> QED BY <1>0, <3>1, ArenaParts DEF TypesInv, ArenaTypes
  <2> QED BY <1>0, <2>1, <2>2, <2>3, ArenaStill
<1>2. CASE cells[job.at] # Zeroed
  <2> DEFINE x == cells[job.at]
             at == job.at
  <2>1. /\ used \in Nat \ {0} /\ used' = used - 1 /\ at \in 0..(used - 1)
        /\ \A i \in Slots :
             cells'[i] = IF i < at \/ i >= used THEN cells[i]
                         ELSE IF i + 1 < used THEN cells[i + 1] ELSE Zeroed
    BY <1>2, RemoveMoves
  <2>2. /\ used <= Capacity /\ Capacity \in Nat /\ Slots = 0..(Capacity - 1)
        /\ at \in Slots /\ x = cells[at]
    BY ArenaParts
  <2>3. Serials' = Serials
    BY <1>0, SameSerials
  <2>4. \A s, fate : /\ s # x => (After(s, fate) <=> HasFate(s, fate))
                     /\ ~After(x, "told")
                     /\ After(s, "told") => HasFate(s, "told")
                     /\ After(s, "new") => HasFate(s, "new")
    <3>1. Gone.fate = "removed"
      BY DEF Gone
    <3> QED BY <1>0, <2>3, <3>1 DEF HasFate
  <2>5. \A s : ~HasFate(s, "new")
    BY <1>0 DEF ArenaInv, OneNew, New, HasFate
  <2>d. \A i, j \in Slots : cells[i] = cells[j] /\ cells[i] # Zeroed => i = j
    BY DEF ArenaInv, Distinct
  <2>s. \A s \in Serials : Alive(s)' <=> s # Zeroed /\ now <= records'[s].expires
    BY <1>0 DEF Alive
  <2> HIDE DEF x, at, After
  <2>6. \A i \in Slots : cells'[i] # Zeroed =>
           \E j \in Slots : /\ cells'[i] = cells[j] /\ j # at /\ (i < used - 1 <=> j < used)
                            /\ j = IF i < at \/ i >= used THEN i ELSE i + 1
    BY <2>1, <2>2
  <2>7. Distinct'
    <3> SUFFICES ASSUME NEW i \in Slots, NEW j \in Slots, cells'[i] = cells'[j], cells'[i] # Zeroed
                 PROVE  i = j
      BY DEF Distinct
    <3>1. PICK k \in Slots : cells'[i] = cells[k] /\ k = IF i < at \/ i >= used THEN i ELSE i + 1
      BY <2>6
    <3>2. PICK l \in Slots : cells'[j] = cells[l] /\ l = IF j < at \/ j >= used THEN j ELSE j + 1
      BY <2>6
    <3>3. k = l
      BY <2>d, <3>1, <3>2
    <3>4. (i < used - 1 <=> k < used) /\ (j < used - 1 <=> l < used)
      BY <2>6, <2>d, <3>1, <3>2
    <3> QED BY <2>1, <2>2, <3>1, <3>2, <3>3, <3>4
  <2>8. Fates'
    <3>1. ASSUME NEW i \in Slots, cells'[i] # Zeroed
          PROVE  After(cells'[i], "told") \/ After(cells'[i], "lost") \/ After(cells'[i], "new")
      <4>1. PICK j \in Slots : cells'[i] = cells[j] /\ j # at
        BY <2>6, <3>1
      <4>2. cells[j] # x
        BY <2>2, <2>d, <3>1, <4>1
      <4>3. HasFate(cells[j], "told") \/ HasFate(cells[j], "lost") \/ HasFate(cells[j], "new")
        BY <3>1, <4>1 DEF ArenaInv, Fates
      <4> QED BY <2>4, <4>1, <4>2, <4>3
    <3> QED BY <3>1 DEF Fates, HasFate, After
  <2>9. ToldInUse'
    <3> SUFFICES ASSUME NEW i \in Slots, After(cells'[i], "told")
                 PROVE  i < used - 1
      BY <2>1 DEF ToldInUse, Told, HasFate, After
    <3>1. HasFate(cells'[i], "told") /\ cells'[i] # Zeroed
      BY <2>4, ArenaParts DEF HasFate
    <3>2. PICK j \in Slots : cells'[i] = cells[j] /\ (i < used - 1 <=> j < used)
      BY <2>6, <3>1
    <3> QED BY <3>1, <3>2 DEF ArenaInv, ToldInUse, Told
  <2>10. ToldFound'
    <3> SUFFICES ASSUME NEW s \in Serials, After(s, "told"), s # Zeroed /\ now <= records'[s].expires
                 PROVE  \E i \in 0..(used - 1 - 1) : cells'[i] = s
      BY <2>1, <2>3, <2>s DEF ToldFound, Told, HasFate, After
    <3>1. s # x /\ Told(s)
      BY <2>4 DEF Told
    <3>2. Alive(s)
      BY <1>0, <3>1 DEF Alive, x
    <3>3. PICK j \in 0..(used - 1) : cells[j] = s
      BY <3>1, <3>2 DEF ArenaInv, ToldFound
    <3>4. j # at
      BY <2>2, <3>1, <3>3
    <3>5. CASE j < at
      <4>1. j \in Slots /\ j \in 0..(used - 1 - 1)
        BY <2>1, <2>2, <3>5
      <4> QED BY <2>1, <3>3, <3>5, <4>1
    <3>6. CASE j > at
      <4>1. j - 1 \in Slots /\ j - 1 \in 0..(used - 1 - 1) /\ (j - 1) + 1 = j /\ ~(j - 1 < at)
        BY <2>1, <2>2, <3>6
      <4>2. cells'[j - 1] = cells[j]
        BY <2>1, <4>1
      <4> QED BY <3>3, <4>1, <4>2
    <3> QED BY <2>1, <3>4, <3>5, <3>6
  <2>11. OneNew'
    BY <2>4, <2>5 DEF OneNew, New, HasFate, After
  <2>12. Clear'
    <3>1. CanPurge => CanPurge'
      <4> SUFFICES ASSUME CanPurge, NEW i \in 0..(used - 1 - 1)
                   PROVE  cells'[i] # Zeroed
        BY <2>1 DEF CanPurge
      <4>1. i \in Slots /\ i + 1 < used /\ i \in 0..(used - 1) /\ i + 1 \in 0..(used - 1) /\ ~(i >= used)
        BY <2>1, <2>2
      <4>2. cells[i] # Zeroed /\ cells[i + 1] # Zeroed
        BY <4>1 DEF CanPurge
      <4> QED BY <2>1, <4>1, <4>2
    <3>2. NoneTold => NoneTold'
      BY <2>3, <2>4 DEF NoneTold, Told, HasFate, After
    <3> QED BY <1>0, <3>1, <3>2, Zenon DEF ArenaInv, Clear
  <2> QED BY <2>7, <2>8, <2>9, <2>10, <2>11, <2>12 DEF ArenaInv
<1> QED BY <1>1, <1>2

\* memset of the arena, by the owner's reset or the console's.
LEMMA ArenaWiped ==
  ASSUME TypesInv, ArenaInv, TypesInv', WipeCells \/ \E chat \in Chats, from \in Origins : ResetState(chat, from)
  PROVE  ArenaInv'
<1> DEFINE After(s, fate) == s \in Serials' /\ records'[s].fate = fate
<1>0. /\ cells' = [i \in DOMAIN cells |-> IF i < used THEN Zeroed ELSE cells[i]]
      /\ records' = Fate("told", "forgotten") /\ UNCHANGED <<now, step, job>>
      /\ \/ wiping' /\ used' = used
         \/ step = "idle" /\ used' = 0
  BY DEF WipeCells, ResetState, Says, Elsewhere
<1>1. Serials' = Serials
  BY <1>0, SameSerials DEF Fate
<1>2. \A s : /\ ~After(s, "told")
             /\ After(s, "lost") <=> HasFate(s, "lost")
             /\ After(s, "new") <=> HasFate(s, "new")
  <2>1. ASSUME NEW s \in Serials
        PROVE  records'[s].fate = IF records[s].fate = "told" THEN "forgotten" ELSE records[s].fate
    <3>1. "fate" \in DOMAIN records[s]
      BY RecordParts DEF TypesInv
    <3> QED BY <1>0, <3>1 DEF Fate
  <2> QED BY <1>1, <2>1 DEF HasFate
<1>3. \A i \in Slots : cells'[i] = IF i < used THEN Zeroed ELSE cells[i]
  BY <1>0, ArenaParts
<1> HIDE DEF After
<1>4. Distinct'
  BY <1>3 DEF ArenaInv, Distinct
<1>5. Fates'
  <2>1. ASSUME NEW i \in Slots, cells'[i] # Zeroed
        PROVE  After(cells'[i], "lost") \/ After(cells'[i], "new")
    <3>1. cells'[i] = cells[i] /\ ~(i < used)
      BY <1>3, <2>1
    <3>2. HasFate(cells[i], "told") \/ HasFate(cells[i], "lost") \/ HasFate(cells[i], "new")
      BY <2>1, <3>1 DEF ArenaInv, Fates
    <3>3. ~HasFate(cells[i], "told")
      BY <3>1 DEF ArenaInv, ToldInUse, Told
    <3> QED BY <1>2, <3>1, <3>2, <3>3
  <2> QED BY <2>1 DEF Fates, HasFate, After
<1>6. ToldInUse' /\ ToldFound' /\ NoneTold'
  BY <1>2 DEF ToldInUse, ToldFound, NoneTold, Told, HasFate, After
<1>7. OneNew'
  <2> SUFFICES ASSUME NEW s \in Serials, After(s, "new")
               PROVE  step = "publish" /\ s = job.held /\ cells'[used'] = s
    BY <1>0, <1>1 DEF OneNew, New, HasFate, After
  <2>1. step = "publish" /\ s = job.held /\ cells[used] = s
    BY <1>2 DEF ArenaInv, OneNew, New
  <2>2. used \in Slots
    BY <2>1, ArenaParts DEF TypesInv, ArenaTypes
  <2>3. ~(used < used)
    BY ArenaParts
  <2> QED BY <1>0, <1>3, <2>1, <2>2, <2>3
<1>8. Clear'
  <2>1. CASE wiping'
    BY <2>1, Zenon DEF Clear
  <2>2. CASE step = "idle" /\ used' = 0
    <3>1. CanPurge'
      BY <2>2 DEF CanPurge
    <3> QED BY <1>0, <2>2, <3>1, Zenon DEF Clear
  <2> QED BY <1>0, <2>1, <2>2
<1> QED BY <1>4, <1>5, <1>6, <1>7, <1>8 DEF ArenaInv

\* The console sets s_used to 0.
LEMMA ArenaEmptied ==
  ASSUME TypesInv, ArenaInv, TypesInv', WipeUsed
  PROVE  ArenaInv'
<1> DEFINE After(s, fate) == s \in Serials' /\ records'[s].fate = fate
<1>0. /\ UNCHANGED <<now, step, job, cells>> /\ used' = 0
      /\ records' = [s \in Serials |->
                     IF records[s].fate = "told" \/ (records[s].fate = "new" /\ cells[0] # s)
                     THEN [records[s] EXCEPT !.fate = "lost"] ELSE records[s]]
  BY DEF WipeUsed
<1>1. Serials' = Serials
  BY <1>0, SameSerials
<1>2. \A s : /\ ~After(s, "told")
             /\ HasFate(s, "told") \/ HasFate(s, "lost") => After(s, "lost")
             /\ HasFate(s, "new") => After(s, "lost") \/ After(s, "new")
             /\ After(s, "new") => HasFate(s, "new") /\ cells[0] = s
  <2>1. ASSUME NEW s \in Serials
        PROVE  records'[s].fate =
                 IF records[s].fate = "told" \/ (records[s].fate = "new" /\ cells[0] # s)
                 THEN "lost" ELSE records[s].fate
    <3>1. "fate" \in DOMAIN records[s]
      BY RecordParts DEF TypesInv
    <3> QED BY <1>0, <3>1
  <2> QED BY <1>1, <2>1 DEF HasFate
<1> HIDE DEF After
<1>3. Distinct'
  BY <1>0 DEF ArenaInv, Distinct
<1>4. Fates'
  <2>1. \A i \in Slots : cells[i] # Zeroed => After(cells[i], "lost") \/ After(cells[i], "new")
    BY <1>2 DEF ArenaInv, Fates
  <2> QED BY <1>0, <2>1 DEF Fates, HasFate, After
<1>5. ToldInUse' /\ ToldFound' /\ NoneTold'
  BY <1>2 DEF ToldInUse, ToldFound, NoneTold, Told, HasFate, After
<1>6. OneNew'
  <2> SUFFICES ASSUME NEW s \in Serials, After(s, "new")
               PROVE  step = "publish" /\ s = job.held /\ cells[0] = s
    BY <1>0, <1>1 DEF OneNew, New, HasFate, After
  <2> QED BY <1>2 DEF ArenaInv, OneNew, New
<1>7. Clear'
  <2>1. CanPurge'
    BY <1>0 DEF CanPurge
  <2> QED BY <1>5, <2>1, Zenon DEF Clear
<1> QED BY <1>3, <1>4, <1>5, <1>6, <1>7 DEF ArenaInv

LEMMA ArenaRebooted ==
  ASSUME TypesInv, TypesInv', Reboot
  PROVE  ArenaInv'
<1>0. /\ cells' = Empty /\ used' = 0 /\ step' = "idle"
      /\ records' = [s \in Serials |->
                     IF records[s].fate = "told" THEN [records[s] EXCEPT !.fate = "forgotten"]
                     ELSE IF records[s].fate = "new" THEN Gone ELSE records[s]]
  BY DEF Reboot
<1>1. Serials' = Serials
  BY <1>0, SameSerials
<1>2. \A s \in Serials : records'[s].fate \notin {"told", "new"}
  <2> TAKE s \in Serials
  <2>1. "fate" \in DOMAIN records[s] /\ Gone.fate = "removed"
    BY RecordParts DEF TypesInv
  <2> QED BY <1>0, <2>1
<1>3. \A i \in Slots : cells'[i] = Zeroed
  BY <1>0 DEF Empty, Slots
<1>4. Distinct' /\ Fates'
  BY <1>3 DEF Distinct, Fates
<1>5. ToldInUse' /\ ToldFound' /\ NoneTold' /\ OneNew'
  BY <1>1, <1>2 DEF ToldInUse, ToldFound, NoneTold, OneNew, Told, New, HasFate
<1>6. Clear'
  <2>1. CanPurge'
    BY <1>0 DEF CanPurge
  <2> QED BY <1>5, <2>1, Zenon DEF Clear
<1> QED BY <1>4, <1>5, <1>6 DEF ArenaInv

LEMMA ArenaStep ==
  ASSUME TypesInv, ArenaInv, TypesInv', [Next]_vars
  PROVE  ArenaInv'
<1>1. ASSUME NEW chat \in Chats, NEW from \in Origins,
             \/ StartTurn(chat) \/ ScheduledEmailAsks(chat) \/ ResetAsk(chat, from) \/ ResetCancel(chat, from)
             \/ ResetConfirm(chat, from) \/ ResetRefused(chat, from)
      PROVE  ArenaInv'
  <2>1. /\ UNCHANGED <<cells, used, records, wiping, now>>
        /\ UNCHANGED <<step, job>> \/ (step # "publish" /\ step' \notin {"fill", "publish"})
    BY <1>1, Zenon DEF StartTurn, ScheduledEmailAsks, ResetAsk, ResetCancel, ResetConfirm, ResetRefused,
                       Elsewhere, arena
  <2> QED BY <2>1, ArenaStill
<1>2. ASSUME \/ \E tool \in Tools : CallDone(tool) \/ CallAsks(tool)
             \/ NextBatch \/ EndTurn \/ FindSpins \/ SpinEnds \/ TakeCopy
             \/ \E service \in Services, mode \in Modes : SetMode(service, mode)
             \/ UNCHANGED vars
      PROVE  ArenaInv'
  <2>1. /\ UNCHANGED <<cells, used, records, wiping, now>>
        /\ UNCHANGED <<step, job>> \/ (step # "publish" /\ step' \notin {"fill", "publish"})
    BY <1>2, Zenon DEF CallDone, Runs, CallAsks, NextBatch, EndTurn, FindSpins, SpinEnds, TakeCopy, SetMode,
                       vars, arena
  <2> QED BY <2>1, ArenaStill
<1>3. ASSUME Execute
      PROVE  ArenaInv'
  <2>1. UNCHANGED <<cells, used, records, wiping, now>> /\ step = "execute"
    BY <1>3, Zenon DEF Execute, arena
  <2>2. step # "publish" /\ step' \notin {"fill", "publish"}
    BY <1>3 DEF Execute, Done, Return
  <2> QED BY <2>1, <2>2, ArenaStill
<1>4. ASSUME Tick
      PROVE  ArenaInv'
  <2>1. UNCHANGED <<cells, used, records, wiping, step, job>>
    BY <1>4, Zenon DEF Tick, arena
  <2>2. now' \in now..MaxTime
    BY <1>4, ArenaParts DEF Tick
  <2> QED BY <2>1, <2>2, ArenaStill
<1>5. ASSUME AskRoom \/ \E chat \in Chats, from \in Origins, id \in Ids : Confirm(chat, id, from) \/ Cancel(chat, id, from)
      PROVE  ArenaInv'
  <2>1. Purge /\ UNCHANGED <<records, now>> /\ step \in {"idle", "ask"} /\ step' # "publish"
    <3>1. CASE AskRoom
      BY <3>1 DEF AskRoom, Done, Return
    <3>2. ASSUME NEW chat \in Chats, NEW from \in Origins, NEW id \in Ids,
                 NEW command \in {"confirm", "cancel"}, Find(command, chat, id, from)
          PROVE  Purge /\ UNCHANGED <<records, now>> /\ step = "idle" /\ step' \in {"idle", "copy", "remove"}
      BY <3>2 DEF Find
    <3> QED BY <1>5, <3>1, <3>2 DEF Confirm, Cancel
  <2> QED BY <2>1, ArenaPurged
<1> QED BY <1>1, <1>2, <1>3, <1>4, <1>5, StepsOfNext, ArenaFill, ArenaPublish, ArenaRemoved,
           ArenaWiped, ArenaEmptied, ArenaRebooted

(***************************************************************************)
(* From the answer to the call.                                            *)
(***************************************************************************)
LEMMA RunOnceMore ==
  ASSUME NEW s \in Seq(Nat), NEW e \in Nat
  PROVE  /\ Range(Append(s, e)) = Range(s) \cup {e}
         /\ IsInjective(s) /\ e \notin Range(s) => IsInjective(Append(s, e))
<1> DEFINE t == Append(s, e)
<1>1. /\ DOMAIN s = 1..Len(s) /\ Len(s) \in Nat /\ DOMAIN t = 1..(Len(s) + 1)
      /\ \A i \in 1..Len(s) : t[i] = s[i]
      /\ t[Len(s) + 1] = e
  BY AppendFacts
<1>2. DOMAIN t = DOMAIN s \cup {Len(s) + 1} /\ Len(s) + 1 \notin DOMAIN s
  BY <1>1
<1>3. \A i \in DOMAIN s : t[i] = s[i]
  BY <1>1
<1> HIDE DEF t
<1>4. Range(t) = Range(s) \cup {e}
  BY <1>1, <1>2, <1>3 DEF Range
<1>5. IsInjective(s) /\ e \notin Range(s) => IsInjective(t)
  BY <1>1, <1>2, <1>3 DEF IsInjective, Range
<1> QED BY <1>4, <1>5 DEF t

LEMMA AnswersStill ==
  ASSUME TypesInv, AnswersInv, (approved \cup carried) \subseteq (approved \cup carried)', ran' = ran,
         \A i \in Slots : cells'[i] \in {Zeroed, cells[i]},
         UNCHANGED <<step, job>> \/ step' \notin {"copy", "remove", "execute"}
  PROVE  AnswersInv'
<1>1. Zeroed \notin Range(ran) /\ job.at \in Slots
  <2>1. Range(ran) \subseteq Serials
    BY DEF AnswersInv, Granted, TypesInv, TaskTypes
  <2> QED BY <2>1, ArenaParts
<1>2. \A s : s # Zeroed /\ (\E i \in Slots : cells'[i] = s) => InCells(s)
  BY DEF InCells
<1>3. Granted'
  BY DEF AnswersInv, Granted
<1>4. \A s \in Range(ran) : ~\E i \in Slots : cells'[i] = s
  BY <1>1, <1>2 DEF AnswersInv
<1>5. CASE UNCHANGED <<step, job>>
  <2>1. step = "copy" => cells'[job.at] \in {Zeroed} \cup (approved \cup carried)'
    BY <1>1 DEF AnswersInv
  <2>2. step = "execute" => job.held # Zeroed /\ ~\E i \in Slots : cells'[i] = job.held
    BY <1>2 DEF AnswersInv
  <2>3. step = "remove" /\ job.held # Zeroed => \A i \in Slots : cells'[i] = job.held => i = job.at
    BY DEF AnswersInv
  <2> QED BY <1>3, <1>4, <1>5, <2>1, <2>2, <2>3 DEF AnswersInv, InCells
<1>6. CASE step' \notin {"copy", "remove", "execute"}
  BY <1>3, <1>4, <1>6 DEF AnswersInv, InCells
<1> QED BY <1>5, <1>6

\* purge_expired brings no call back, and what a command finds is alive.
LEMMA PurgedCells ==
  ASSUME TypesInv, Purge
  PROVE  /\ \A s : s # Zeroed /\ (\E i \in Slots : cells'[i] = s) => InCells(s)
         /\ \A i \in 0..(used' - 1) : \E j \in Stay : j \in Slots /\ cells'[i] = cells[j]
<1>0. used \in Nat /\ Stay \subseteq Slots
  BY ArenaParts DEF Stay
<1>1. /\ used' \in 0..used
      /\ \A c \in 0..(used' - 1) : \E i \in Stay : cells'[c] = cells[i] /\ Place(i) = c
      /\ \A c \in Slots : c >= used' => cells'[c] = Zeroed \/ (c >= used /\ cells'[c] = cells[c])
  BY PurgeFacts DEF TypesInv
<1>2. ASSUME NEW c \in Slots, cells'[c] # Zeroed
      PROVE  InCells(cells'[c])
  <2>1. c \in Nat /\ used' \in Nat
    BY <1>0, <1>1, ArenaParts
  <2>2. c >= used' \/ c \in 0..(used' - 1)
    BY <2>1, InOrPast, Zenon
  <2> QED BY <1>0, <1>1, <1>2, <2>2 DEF InCells
<1>3. \A i \in 0..(used' - 1) : \E j \in Stay : j \in Slots /\ cells'[i] = cells[j]
  BY <1>0, <1>1
<1> QED BY <1>2, <1>3

LEMMA AnswersStep ==
  ASSUME TypesInv, ArenaInv, AnswersInv, TypesInv', [Next]_vars
  PROVE  AnswersInv'
<1>0. /\ Range(ran) \subseteq approved \cup carried /\ IsInjective(ran) /\ approved \cup carried \subseteq Serials
      /\ Zeroed \notin Range(ran) /\ \A s \in Range(ran) : ~InCells(s)
  <2>1. /\ Range(ran) \subseteq approved \cup carried /\ IsInjective(ran) /\ approved \cup carried \subseteq Serials
        /\ \A s \in Range(ran) : ~InCells(s)
    BY DEF AnswersInv, Granted, TypesInv, TaskTypes
  <2> QED BY <2>1, ArenaParts
<1>1. ASSUME NEW chat \in Chats, NEW from \in Origins,
             \/ StartTurn(chat) \/ ScheduledEmailAsks(chat) \/ ResetAsk(chat, from) \/ ResetCancel(chat, from)
             \/ ResetConfirm(chat, from) \/ ResetRefused(chat, from)
      PROVE  AnswersInv'
  <2>1. /\ UNCHANGED <<cells, approved, carried, ran>>
        /\ UNCHANGED <<step, job>> \/ step' \in {"batch", "ask"}
    BY <1>1, Zenon DEF StartTurn, ScheduledEmailAsks, ResetAsk, ResetCancel, ResetConfirm, ResetRefused,
                       Elsewhere, arena, history
  <2> QED BY <2>1, AnswersStill
<1>2. ASSUME \/ \E tool \in Tools : CallDone(tool) \/ CallAsks(tool)
             \/ NextBatch \/ EndTurn \/ FindSpins \/ SpinEnds \/ Tick
             \/ \E service \in Services, mode \in Modes : SetMode(service, mode)
             \/ UNCHANGED vars
      PROVE  AnswersInv'
  <2>1. /\ UNCHANGED <<cells, approved, carried, ran>>
        /\ UNCHANGED <<step, job>> \/ step' \in {"ask", "idle", "spin"}
    BY <1>2, Zenon DEF CallDone, Runs, CallAsks, NextBatch, EndTurn, FindSpins, SpinEnds, SetMode, Tick,
                       vars, arena, history
  <2> QED BY <2>1, AnswersStill
<1>3. ASSUME AskPublish
      PROVE  AnswersInv'
  <2>1. UNCHANGED <<cells, approved, carried, ran>> /\ step' \in {"batch", "idle"}
    BY <1>3 DEF AskPublish, Done, Return, history
  <2> QED BY <2>1, AnswersStill
<1>4. ASSUME WipeCells \/ WipeUsed \/ Reboot \/ \E chat \in Chats, from \in Origins : ResetState(chat, from)
      PROVE  AnswersInv'
  <2>1. UNCHANGED <<approved, carried, ran>> /\ (UNCHANGED <<step, job>> \/ step' = "idle")
    BY <1>4, Zenon DEF WipeCells, WipeUsed, Reboot, ResetState, Elsewhere, history
  <2>2. \A i \in Slots : cells'[i] \in {Zeroed, cells[i]}
    BY <1>4, ArenaParts DEF WipeCells, WipeUsed, Reboot, ResetState, Empty
  <2> QED BY <2>1, <2>2, AnswersStill
<1>5. ASSUME AskFill
      PROVE  AnswersInv'
  <2>1. /\ step' = "publish" /\ UNCHANGED <<approved, carried, ran>>
        /\ cells' = [cells EXCEPT ![used] = Len(records) + 1]
    BY <1>5 DEF AskFill, history
  <2>2. Len(records) + 1 \notin Range(ran)
    <3>1. Len(records) + 1 \notin Serials
      BY ArenaParts
    <3> QED BY <1>0, <3>1
  <2>3. \A i \in Slots : cells'[i] \in {cells[i], Len(records) + 1}
    BY <2>1, ArenaParts
  <2>4. \A s \in Range(ran) : ~\E i \in Slots : cells'[i] = s
    BY <1>0, <2>2, <2>3 DEF InCells
  <2> QED BY <1>0, <2>1, <2>4 DEF AnswersInv, Granted, InCells
<1>6. ASSUME AskRoom
      PROVE  AnswersInv'
  <2>1. Purge /\ UNCHANGED <<approved, carried, ran>> /\ step' \in {"fill", "batch", "idle"}
    BY <1>6 DEF AskRoom, Done, Return, history
  <2>2. \A s \in Range(ran) : ~\E i \in Slots : cells'[i] = s
    BY <1>0, <2>1, PurgedCells
  <2> QED BY <1>0, <2>1, <2>2 DEF AnswersInv, Granted, InCells
<1>7. ASSUME NEW chat \in Chats, NEW from \in Origins, NEW id \in Ids, NEW command \in {"confirm", "cancel"},
             Find(command, chat, id, from)
      PROVE  AnswersInv'
  <2>1. /\ Purge /\ ran' = ran /\ step = "idle" /\ UNCHANGED records
        /\ (approved \cup carried) \subseteq (approved \cup carried)'
        /\ command = "confirm" => (approved \cup carried)' = (approved \cup carried) \cup Answers(chat, id)
    <3>1. /\ Purge /\ ran' = ran /\ step = "idle" /\ UNCHANGED records
          /\ approved \subseteq approved' /\ carried \subseteq carried'
      BY <1>7 DEF Find
    <3>2. ASSUME command = "confirm"
          PROVE  (approved \cup carried)' = (approved \cup carried) \cup Answers(chat, id)
      BY <1>7, <3>2 DEF Find, Origins
    <3> QED BY <3>1, <3>2
  <2>2. \A s \in Range(ran) : ~\E i \in Slots : cells'[i] = s
    BY <1>0, <2>1, PurgedCells
  <2>3. CASE step' = "idle"
    BY <1>0, <2>1, <2>2, <2>3 DEF AnswersInv, Granted, InCells
  <2>4. ASSUME NEW at \in 0..(used' - 1), cells'[at] \in Named(chat, id),
               step' = IF command = "confirm" THEN "copy" ELSE "remove",
               job' = [NoJob EXCEPT !.chat = chat, !.id = id, !.at = at]
        PROVE  AnswersInv'
    <3>1. job'.held = Zeroed /\ job'.at = at
      BY <2>4 DEF NoJob, Zeroed
    <3>2. PICK j \in Stay : j \in Slots /\ cells'[at] = cells[j]
      BY <2>1, PurgedCells
    <3>3. cells[j] \in Answers(chat, id)
      <4>1. Alive(cells[j]) /\ cells[j] \in Named(chat, id)
        BY <2>4, <3>2 DEF Stay
      <4>2. HasFate(cells[j], "told") \/ HasFate(cells[j], "lost") \/ HasFate(cells[j], "new")
        BY <3>2, <4>1 DEF ArenaInv, Fates, Alive
      <4>3. ~HasFate(cells[j], "new")
        BY <2>1 DEF ArenaInv, OneNew, New, HasFate
      <4> QED BY <4>1, <4>2, <4>3 DEF Named, Answers, Alive, HasFate
    <3>4. step' = "copy" => cells'[job'.at] \in {Zeroed} \cup (approved \cup carried)'
      BY <2>1, <2>4, <3>1, <3>2, <3>3
    <3> QED BY <1>0, <2>1, <2>2, <2>4, <3>1, <3>4 DEF AnswersInv, Granted, InCells
  <2> QED BY <1>7, <2>1, <2>3, <2>4 DEF Find, Purge
<1>8. ASSUME TakeCopy
      PROVE  AnswersInv'
  <2>1. step = "copy" /\ step' = "remove" /\ UNCHANGED <<cells, approved, carried, ran>>
    BY <1>8 DEF TakeCopy, arena, history
  <2>2. job'.held = cells[job.at] /\ job'.at = job.at /\ job.at \in Slots
    BY <1>8, ArenaParts DEF TakeCopy, TypesInv, TaskTypes, Jobs
  <2>3. cells[job.at] # Zeroed => cells[job.at] \in (approved \cup carried) \ Range(ran)
    BY <1>0, <2>1, <2>2 DEF AnswersInv, InCells
  <2>4. cells[job.at] # Zeroed => \A i \in Slots : cells[i] = cells[job.at] => i = job.at
    BY <2>2 DEF ArenaInv, Distinct
  <2> QED BY <1>0, <2>1, <2>2, <2>3, <2>4 DEF AnswersInv, Granted, InCells
<1>9. ASSUME RemoveRecord
      PROVE  AnswersInv'
  <2>1. /\ step = "remove" /\ UNCHANGED <<approved, carried, ran>>
        /\ \/ step' = "execute" /\ job' = job /\ job.held # Zeroed
           \/ step' \in {"idle", "batch"} /\ job.held = Zeroed
    BY <1>9 DEF RemoveRecord, Done, Return, history
  <2>2. job.at \in Slots /\ \A i \in Slots :
          cells'[i] # Zeroed => \E j \in Slots : cells'[i] = cells[j] /\ (j # job.at \/ cells[j] = Zeroed)
    <3>1. CASE cells[job.at] = Zeroed
      <4>1. \A i \in Slots : i + 0 = i
        BY ArenaParts
      <4>2. \A i \in Slots : cells'[i] = cells[i]
        BY <1>9, <3>1, <4>1, ArenaParts DEF RemoveRecord, Size
      <4> QED BY <3>1, <4>2, ArenaParts
    <3>2. CASE cells[job.at] # Zeroed
      <4>1. /\ used \in Nat \ {0} /\ job.at \in 0..(used - 1)
            /\ \A i \in Slots :
                 cells'[i] = IF i < job.at \/ i >= used THEN cells[i]
                             ELSE IF i + 1 < used THEN cells[i + 1] ELSE Zeroed
        BY <1>9, <3>2, RemoveMoves
      <4>2. used <= Capacity /\ Capacity \in Nat /\ Slots = 0..(Capacity - 1)
        BY ArenaParts
      <4> QED BY <4>1, <4>2
    <3> QED BY <3>1, <3>2
  <2>3. \A s : s # Zeroed /\ (\E i \in Slots : cells'[i] = s) => InCells(s)
    BY <2>2 DEF InCells
  <2>4. \A s \in Range(ran) : ~\E i \in Slots : cells'[i] = s
    BY <1>0, <2>3
  <2>5. job.held # Zeroed => /\ job.held \in (approved \cup carried) \ Range(ran)
                             /\ ~\E i \in Slots : cells'[i] = job.held
    BY <2>1, <2>2 DEF AnswersInv
  <2> QED BY <1>0, <2>1, <2>4, <2>5 DEF AnswersInv, Granted, InCells
<1>10. ASSUME Execute
       PROVE  AnswersInv'
  <2>1. /\ step = "execute" /\ step' \in {"idle", "batch"} /\ UNCHANGED <<cells, approved, carried>>
        /\ ran' \in {ran, Append(ran, job.held)}
    BY <1>10 DEF Execute, Done, Return, arena
  <2>2. job.held \in (approved \cup carried) \ Range(ran) /\ ~InCells(job.held)
    BY <2>1 DEF AnswersInv
  <2>3. ran \in Seq(Nat) /\ job.held \in Nat
    BY <1>0, <2>2, ArenaParts DEF TypesInv, TaskTypes
  <2>4. IsInjective(ran') /\ Range(ran') \subseteq Range(ran) \cup {job.held}
    BY <1>0, <2>1, <2>2, <2>3, RunOnceMore
  <2> QED BY <1>0, <2>1, <2>2, <2>4 DEF AnswersInv, Granted, InCells
<1> QED BY <1>1, <1>2, <1>3, <1>4, <1>5, <1>6, <1>7, <1>8, <1>9, <1>10, StepsOfNext DEF Confirm, Cancel
----------------------------------------------------------------------------
LEMMA PermissionsInit ==
  ASSUME Init
  PROVE  PermissionsInv
<1>0. /\ TimeToLive \in Nat /\ MaxTime \in Nat /\ MaxRecords \in Nat
      /\ Capacity \in Nat \ {0} /\ MaxBatches \in Nat \ {0}
  BY PermissionsAssumption
<1>1. /\ now = 0 /\ modes \in [Services -> Modes] /\ cells = Empty /\ used = 0 /\ nextId = FirstId
      /\ records = <<>> /\ step = "idle" /\ turn = Idle /\ job = NoJob /\ reset = NoReset
      /\ readIn = [k \in Reads |-> 0] /\ acted = {} /\ jobs = {} /\ approved = {} /\ carried = {} /\ ran = <<>> /\ heard = <<>>
  BY DEF Init
<1>s. Len(records) = 0 /\ Serials = {} /\ records \in Seq({Gone} \cup Record)
  BY <1>1 DEF Serials
<1>2. ArenaTypes
  <2>1. cells \in [Slots -> {Zeroed} \cup Serials]
    BY <1>1 DEF Empty, Slots
  <2>2. nextId \in FirstId..(FirstId + Len(records))
    BY <1>1, <1>s DEF FirstId
  <2> QED BY <1>0, <1>1, <1>s, <2>1, <2>2 DEF ArenaTypes
<1>3. TaskTypes
  <2>1. job \in Jobs /\ job.held = Zeroed
    <3>1. 0 \in 0..(Capacity - 1)
      BY <1>0
    <3> QED BY <1>1, <3>1, ChatsNamed DEF NoJob, Jobs, Zeroed
  <2>2. ran \in Seq(Nat) /\ step \in Steps
    BY <1>1 DEF Steps
  <2> QED BY <1>1, <2>1, <2>2 DEF TaskTypes
<1>4. TurnTypes /\ TurnInv
  <2>1. turn.reads = {} /\ turn.before = {} /\ turn.batch = 0
    BY <1>1 DEF Idle
  <2>2. turn \in Turns
    <3>1. {} \in SUBSET Reads /\ 0 \in 0..MaxBatches
      BY <1>0
    <3>2. "" \in ChatOrNone
      BY ChatsNamed, Zenon
    <3> QED BY <1>1, <3>1, <3>2, TurnParts, Zenon DEF Idle
  <2>3. TurnTypes
    BY <1>0, <1>1, <2>1, <2>2 DEF TurnTypes
  <2>4. TurnInv
    <3>1. turn.reads = {} /\ turn.before = {} /\ turn.batch = 0 /\ acted = {}
          /\ \A k \in Reads : readIn[k] = 0
      BY <1>1, <2>1
    <3> QED BY <3>1 DEF TurnInv, ReadsFirst
  <2> QED BY <2>3, <2>4
<1>5. ResetTypes /\ ResetInv
  <2>1. 0 \in 0..2 /\ 0 \in Nat
    OBVIOUS
  <2>2. reset \in Resets
    <3>1. NoReset \in Resets
      BY <2>1, ChatsNamed, Zenon DEF NoReset, Resets
    <3> QED BY <1>1, <3>1
  <2>3. reset.step = 0 /\ heard \in Seq(Messages)
    <3>1. reset = NoReset /\ heard = <<>>
      BY <1>1
    <3>2. <<>> \in Seq(Messages) /\ NoReset.step = 0
      BY DEF NoReset
    <3> QED BY <3>1, <3>2
  <2>4. wiping \in BOOLEAN
    BY Zenon DEF Init
  <2> QED BY <2>2, <2>3, <2>4 DEF ResetTypes, ResetInv
<1>6. ArenaInv
  <2>1. \A i \in Slots : cells[i] = Zeroed
    BY <1>1 DEF Empty, Slots
  <2>2. CanPurge /\ NoneTold
    BY <1>1, <1>s DEF CanPurge, NoneTold
  <2>3. Clear
    BY <2>2, Zenon DEF Clear
  <2> QED BY <1>s, <2>1, <2>3 DEF ArenaInv, Distinct, Fates, ToldInUse, ToldFound, OneNew, Told, HasFate
<1>7. AnswersInv
  <2>1. Range(ran) = {} /\ IsInjective(ran)
    BY <1>1 DEF Range, IsInjective
  <2> QED BY <1>1, <2>1 DEF AnswersInv, Granted
<1>8. JobsInv
  BY <1>1 DEF JobsInv
<1> QED BY <1>2, <1>3, <1>4, <1>5, <1>6, <1>7, <1>8 DEF PermissionsInv, TypesInv

LEMMA PermissionsStep ==
  ASSUME PermissionsInv, [Next]_vars
  PROVE  PermissionsInv'
<1>1. TypesInv /\ ArenaInv /\ AnswersInv /\ TurnInv /\ ResetInv /\ JobsInv
  BY DEF PermissionsInv
<1>2. TypesInv'
  BY <1>1, ArenaTypesStep, TaskTypesStep, TurnStep, ResetStep DEF TypesInv
<1>3. ArenaInv' /\ AnswersInv'
  BY <1>1, <1>2, ArenaStep, AnswersStep
<1> QED BY <1>1, <1>2, <1>3, TurnStep, ResetStep, JobsStep DEF PermissionsInv

\* The inductive invariant of the agent's permissions: the types, what the
\* cells of the arena hold, the way from the answer to the call, what the turn
\* has read and how far a reset is (mp_confirmation.c, mp_agent.c).
THEOREM PermissionsInvariant == Spec => []PermissionsInv
<1>1. Init => PermissionsInv
  BY PermissionsInit
<1>2. PermissionsInv /\ [Next]_vars => PermissionsInv'
  BY PermissionsStep
<1> QED BY <1>1, <1>2, PTL DEF Spec

LEMMA ArenaSoundHolds ==
  ASSUME PermissionsInv
  PROVE  ArenaSound
<1>1. TypesInv /\ ArenaInv /\ AnswersInv
  BY DEF PermissionsInv
<1>2. TypeOK
  <2>1. /\ now \in 0..MaxTime /\ used \in 0..Capacity
        /\ cells \in [0..(Capacity - 1) -> {Zeroed} \cup Serials]
    BY <1>1 DEF TypesInv, ArenaTypes, Slots
  <2>2. nextId \in FirstId..(FirstId + MaxRecords)
    <3>1. Len(records) \in Nat /\ Len(records) <= MaxRecords /\ MaxRecords \in Nat
      BY <1>1, PermissionsAssumption DEF TypesInv, ArenaTypes
    <3> QED BY <1>1, <3>1 DEF TypesInv, ArenaTypes, FirstId
  <2>3. \A s \in Serials : records[s] \in {Gone} \cup Record
    BY <1>1 DEF TypesInv, ArenaTypes, Serials
  <2>4. /\ step \in Steps /\ job.at \in 0..(Capacity - 1) /\ job.held \in {Zeroed} \cup Serials
        /\ approved \cup carried \subseteq Serials
    BY <1>1 DEF TypesInv, TaskTypes, Jobs
  <2>5. /\ turn.batch \in 0..MaxBatches /\ turn.before \subseteq turn.reads /\ turn.reads \subseteq Reads
        /\ modes \in [Services -> Modes]
    BY <1>1, TurnParts DEF TypesInv, TurnTypes
  <2>6. reset.step \in 0..2
    BY <1>1 DEF TypesInv, ResetTypes, Resets
  <2>7. wiping \in BOOLEAN
    BY <1>1, Zenon DEF TypesInv, ResetTypes
  <2>8. Range(ran) \subseteq Serials
    BY <1>1, <2>4 DEF AnswersInv, Granted
  <2>9. jobs \subseteq [chat : Chats, command : Prompts]
    BY DEF PermissionsInv, JobsInv
  <2> QED BY <2>1, <2>2, <2>3, <2>4, <2>5, <2>6, <2>7, <2>8, <2>9, Zenon DEF TypeOK, Record, Steps
<1>3. ApprovedOnce
  <2>1. Granted /\ (carried # {} => \E j \in jobs : j.command[1] = "confirm")
    BY DEF PermissionsInv, AnswersInv, JobsInv
  <2> QED BY <2>1 DEF Granted, ApprovedOnce
<1>4. PromptsHold
  <2>1. ASSUME NEW s \in Serials, records[s].fate = "told", Alive(s), ~wiping
        PROVE  CanPurge /\ \E i \in 0..(used - 1) : cells[i] = s
    <3>1. Told(s)
      BY <2>1 DEF Told, HasFate
    <3>2. \E i \in 0..(used - 1) : cells[i] = s
      BY <1>1, <2>1, <3>1 DEF ArenaInv, ToldFound
    <3>3. ~NoneTold
      BY <3>1 DEF NoneTold
    <3>4. CanPurge
      BY <1>1, <2>1, <3>3, Zenon DEF ArenaInv, Clear
    <3> QED BY <3>2, <3>4
  <2> QED BY <2>1, Zenon DEF PromptsHold
<1> QED BY <1>2, <1>3, <1>4 DEF ArenaSound

\* A call that needs permission runs once, and only for a /confirm that came
\* under its own chat in time, the chat's own as long as no job has one for a
\* prompt; and a prompt that was sent can be found until it is answered,
\* expires or is wiped, whenever the console resets the arena
\* (mp_confirmation_take, purge_expired, remove_record, execute_confirmation).
THEOREM ArenaStaysSound == Spec => []ArenaSound
<1>1. PermissionsInv => ArenaSound
  BY ArenaSoundHolds
<1> QED BY <1>1, PermissionsInvariant, PTL

\* A change follows, in an earlier batch of the same turn, a call that read
\* what it changes (process_message's reads_before_batch, mp_agent_policy.c).
THEOREM ChangesFollowReads == Spec => []ReadsFirst
<1>1. PermissionsInv => ReadsFirst
  BY DEF PermissionsInv, TurnInv
<1> QED BY <1>1, PermissionsInvariant, PTL

\* A chat resets the device only by three messages in order under its owner's
\* chat, with none between them and within five minutes; and they are the
\* owner's own, as long as no job of the chat has a reset command for a prompt
\* (handle_command, which takes the messages of jobs with the others).
THEOREM ResetTakesThreeMessages == Spec => ResetDeliberate
<1>1. ASSUME PermissionsInv, NEW chat \in Chats, NEW from \in Origins, ResetState(chat, from)
      PROVE  /\ Len(heard) = 2 /\ {heard[1].chat, heard[2].chat} = {chat}
             /\ now - heard[1].at <= TimeToLive
             /\ NoResetJob(chat) => {from, heard[1].from, heard[2].from} = {"chat"}
  <2>1. reset.step = 2 /\ reset.chat = chat /\ now <= reset.expires
    BY <1>1 DEF ResetState, Expected
  <2>2. /\ Len(heard) = 2 /\ \A i \in DOMAIN heard : heard[i].chat = chat
        /\ reset.expires = heard[1].at + TimeToLive
    BY <1>1, <2>1 DEF PermissionsInv, ResetInv
  <2>3. heard \in Seq(Messages) /\ now \in Nat /\ TimeToLive \in Nat
    BY <1>1, PermissionsAssumption DEF PermissionsInv, TypesInv, ResetTypes, ArenaTypes
  <2>4. 1 \in DOMAIN heard /\ 2 \in DOMAIN heard /\ heard[1] \in Messages /\ heard[2] \in Messages
    <3>1. Len(heard) = 2 /\ heard \in Seq(Messages)
      BY <2>2, <2>3
    <3> QED BY <3>1
  <2>5. heard[1].at \in Nat
    BY <2>4 DEF Messages
  <2>6. NoResetJob(chat) => from = "chat"
    <3> DEFINE j == [chat |-> chat, command |-> <<"reset", "yes">>]
    <3>1. from = "job" => j \in jobs
      BY <1>1 DEF ResetState, Says, Comes
    <3>2. j.chat = chat /\ j.command[1] = "reset"
      OBVIOUS
    <3> HIDE DEF j
    <3> QED BY <3>1, <3>2 DEF NoResetJob, Origins
  <2>7. ASSUME NEW i \in {1, 2}, NoResetJob(chat)
        PROVE  heard[i].from = "chat"
    <3>1. heard[i].from \in Origins /\ i \in DOMAIN heard /\ heard[i].chat = chat
      BY <2>2, <2>4 DEF Messages
    <3>2. heard[i].from # "job"
      BY <1>1, <2>7, <3>1 DEF PermissionsInv, JobsInv, NoResetJob
    <3> QED BY <3>1, <3>2 DEF Origins
  <2> QED BY <2>1, <2>2, <2>3, <2>4, <2>5, <2>6, <2>7
<1>2. PermissionsInv /\ [Next]_vars =>
        [\A chat \in Chats, from \in Origins :
           ResetState(chat, from) =>
             /\ Len(heard) = 2 /\ {heard[1].chat, heard[2].chat} = {chat}
             /\ now - heard[1].at <= TimeToLive
             /\ NoResetJob(chat) => {from, heard[1].from, heard[2].from} = {"chat"}]_vars
  BY <1>1
<1> QED BY <1>2, PermissionsInvariant, PTL DEF Spec, ResetDeliberate
=============================================================================
